-------------------------- MODULE ElaborationProofs --------------------------
(***************************************************************************)
(* Proofs about Elaboration, for every set of netlists and scripts, every  *)
(* expression and every set of parameter and option values.                *)
(*                                                                         *)
(* Main line: whatever layer a change leaves out of date, a flag of the    *)
(* circuit or of an instance says so until the layer is computed again;    *)
(* with no flag left, all layers are those the inputs ask for.             *)
(***************************************************************************)
EXTENDS Elaboration, TLAPS

-----------------------------------------------------------------------------
(***************************************************************************)
(* The inductive invariant.                                                *)
(***************************************************************************)
Elaborating == pc \in {"propagate", "setup", "tolerances"}
Analysing == pc \in {"sweep", "core", "failed"} \/ job.caller \in {"point", "finish"}

Sweepable == {SweptVariable} \cup OptionNames \cup (Devs \ (Followers \cup Optional))
Before == [variable : Vals, options : OptionSet, param : [Devs -> Vals], active : [Hosts -> BOOLEAN]]

SweepTyped ==
  /\ DOMAIN sweep = {"targets", "aim", "own", "options", "parameter", "core", "before"}
  /\ sweep.targets \subseteq Sweepable
  /\ IsOptionsMap(sweep.own) /\ sweep.options \in OptionSet
  /\ sweep.before \in Before

\* Types, with those of the variables TypeOK says nothing of.
Typed ==
  /\ net \in Netlists /\ TypeOK
  /\ DOMAIN commons = {"name", "tolerances"}
  /\ IF Analysing THEN SweepTyped ELSE sweep = NoSweep

\* Where the program is, and whether the circuit claims to be elaborated.
Phased ==
  /\ Elaborating => ~elaborated
  /\ pc \in {"ready", "sweep", "core"} => elaborated /\ "Variables" \notin flags
  /\ ~Elaborating => job = NoJob
  /\ pc = "propagate" => ~job.hierarchyChanged /\ ~job.unknownsChanged

\* Devices and parameters follow the blocks and the contexts, these follow the
\* inputs unless a flag is up.
ContextsCurrent == \A i \in Tops : context[i] = Evaluated(variable, options)
Usable == elaborated \/ pc # "idle"
Grown == Usable => built = Existing(active)
Hierarchical ==
  LastSwitches /\ Usable =>
    /\ \A h \in Hosts : active[h] = (context[Top(h)] \in Enabling[h])
    /\ \A d \in built \cap Followers : param[d] = context[Top(HostOf[d])]
    /\ ForcePropagation => pc \in {"idle", "propagate", "failed"} \/ ContextsCurrent
    /\ ~ForcePropagation => ContextsCurrent

\* A setup is out of date only where a flag says so.
SetUp(d) == setupSaw[d] = <<param[d], options["temp"]>>
Settled ==
  ~FaultyAlter =>
    /\ \A d \in built \ (needsSetup \cup paramsChanged) :
         setupSaw[d] # <<>> /\ setupSaw[d][1] = param[d]
    /\ "Mapping" \notin flags =>
         \A d \in built \ needsSetup : setupSaw[d] # <<>> => setupSaw[d][2] = options["temp"]
    /\ needsSetup \cup paramsChanged # {} => flags \cap PropagateOn # {}
    /\ pc \in {"setup", "tolerances"} =>
         paramsChanged = {} /\ needsSetup \subseteq job.todo /\ \A d \in built \ job.todo : SetUp(d)
    /\ pc = "tolerances" => job.todo = {}

\* The collapse patterns are those of the last setups, and what is mapped is
\* what there is unless a change has yet to be reported.
Described ==
  /\ history = {d \in built \ Builtin : setupSaw[d] # <<>>}
  /\ collapsed = {d \in history : <<d, setupSaw[d][1], setupSaw[d][2]>> \in Shorted}
  /\ ~unreported /\ (pc = "tolerances" \/ ~MapsUnknowns) =>
       mapped = [built |-> built, collapsed |-> collapsed]

\* An analysis works towards the values of its point, with tolerances that are
\* right or about to be built.
ForPoint == pc = "core" \/ job.caller = "point"
Aimed ==
  /\ Unconditional => ~job.hierarchyChanged
  /\ ForPoint => SweptValueInForce
  /\ Unconditional /\ Analysing /\ TolscaleStays =>
       /\ pc = "sweep" \/ ForPoint => options["tolscale"] = sweep.before.options["tolscale"]
       /\ pc \in {"sweep", "core"} \/ (job.caller = "point" /\ ~BuildsTolerances) =>
            TolerancesCurrent

\* The options, the parameter and the cores of an analysis are those of the
\* present variable; the interpreter's own expressions gave the options the
\* values they had before.
OfUser == pc = "ready" \/ (Elaborating /\ job.caller = "commands")
Optioned ==
  /\ OfUser => options = OptionsOfUser
  /\ Analysing =>
       /\ sweep.own = userOptions =>
            \A o \in DOMAIN sweep.own.computed :
              sweep.own.computed[o][sweep.before.variable] = sweep.before.options[o]
       /\ pc = "sweep" \/ ForPoint =>
            /\ sweep.parameter = variable
            /\ \A o \in OptionNames \ sweep.targets : sweep.options[o] = OptionsAt(variable)[o]
            /\ sweep.core = <<>> \/ job.rebuildsCores \/ sweep.core = CoreFor
       /\ ForPoint => options = sweep.options
       /\ pc = "core" => sweep.core = CoreFor

\* What an analysis does not sweep stays, what it sweeps is put back.
Unswept == Devs \ (Followers \cup sweep.targets)
InputsComeBack ==
  /\ SweptVariable \notin sweep.targets =>
       variable = sweep.before.variable /\ "Variables" \notin flags
  /\ job.caller = "finish" =>
       /\ variable = sweep.before.variable
       /\ \A o \in OptionNames : ComesBack(o) => options[o] = sweep.before.options[o]
DevicesComeBack ==
  /\ \A d \in Unswept : param[d] = sweep.before.param[d]
  /\ \A d \in Followers :
       sweep.before.param[d] = Evaluated(sweep.before.variable, sweep.before.options)
  /\ \A h \in Hosts : ~sweep.before.active[h]
  /\ job.caller = "finish" =>
       \A d \in Devs \ Followers : param[d] = sweep.before.param[d]
Restoring == Analysing => InputsComeBack /\ (Unconditional => DevicesComeBack)

Inv ==
  /\ Typed /\ Phased /\ Grown /\ Hierarchical /\ Settled /\ Described
  /\ Aimed /\ Optioned /\ Restoring

-----------------------------------------------------------------------------
(* Netlists and what is written to them                                    *)

LEMMA NetFacts ==
  ASSUME net \in Netlists
  PROVE  /\ NTop \in Nat \ {0} /\ Inner \cap Nat = {} /\ TopOf \in [Inner -> Tops]
         /\ HostOf \in [Devs -> Hosts] /\ Default \in [Devs -> Vals]
         /\ Optional \subseteq Devs /\ Followers \subseteq Devs /\ Builtin \subseteq Devs
         /\ Shorted \subseteq (Devs \ Builtin) \X Vals \X Levels
         /\ \A map \in UserOptions \cup OwnOptions : IsOptionsMap(map)
         /\ Devs \cap (OptionNames \cup {SweptVariable}) = {}
         /\ \A T \in Targets : T \subseteq Sweepable
BY NetlistAssumption DEF NTop, Inner, TopOf, Tops, HostOf, Devs, Hosts, Default, Optional,
   Followers, Builtin, Shorted, UserOptions, OwnOptions, Targets, Sweepable

\* The netlist stays as it was read.
LEMMA NetStays ==
  ASSUME net' = net
  PROVE  /\ Devs' = Devs /\ NTop' = NTop /\ TopOf' = TopOf /\ HostOf' = HostOf
         /\ Optional' = Optional /\ Followers' = Followers /\ Builtin' = Builtin
         /\ Default' = Default /\ Enabling' = Enabling /\ Shorted' = Shorted
         /\ FaultyAlter' = FaultyAlter
         /\ Tops' = Tops /\ Inner' = Inner /\ Hosts' = Hosts
         /\ LastSwitches' = LastSwitches /\ Unconditional' = Unconditional
         /\ Sweepable' = Sweepable /\ Before' = Before
BY DEF Devs, NTop, TopOf, HostOf, Optional, Followers, Builtin, Default, Enabling, Shorted,
   FaultyAlter, Tops, Inner, Hosts, LastSwitches, Unconditional, Sweepable, Before

LEMMA TopIsToplevel ==
  ASSUME net \in Netlists
  PROVE  /\ \A h \in Hosts : Top(h) \in Tops
         /\ \A i \in Tops : Top(i) = i /\ i \in Nat /\ i <= NTop
         /\ NTop \in Tops
BY NetFacts DEF Hosts, Top, Tops, Inner

LEMMA EvaluatedType ==
  ASSUME NEW v \in Vals, NEW opt \in OptionSet
  PROVE  Evaluated(v, opt) \in Vals /\ \A o \in OptionNames : opt[o] \in Levels
BY ExprAssumption DEF Evaluated, OptionSet, OptionNames

\* Applying a map of options to options gives options.
LEMMA OptionsAreTyped ==
  ASSUME NEW opt \in OptionSet, NEW map, IsOptionsMap(map), NEW v \in Vals
  PROVE  WithExpressions(opt, map, v) \in OptionSet /\ WithAll(opt, map, v) \in OptionSet
<1>1. WithExpressions(opt, map, v) \in OptionSet
  BY DEF WithExpressions, IsOptionsMap, OptionSet
<1>2. WithAll(opt, map, v) \in OptionSet
  BY <1>1 DEF WithAll, IsOptionsMap, OptionSet
<1> QED
  BY <1>1, <1>2

LEMMA NamesAreOptions == {"temp", "abstol", "tolmode", "tolscale"} \subseteq OptionNames
BY DEF OptionNames

LEMMA ExistingFacts ==
  ASSUME NEW blocks
  PROVE  Existing(blocks) \subseteq Devs /\ Devs \ Optional \subseteq Existing(blocks)
BY DEF Existing

\* What a sweep writes has the types of what it writes to.
LEMMA WritesAreTyped ==
  ASSUME net \in Netlists, variable \in Vals, NEW opt \in OptionSet,
         NEW T, T \subseteq Sweepable, NEW a \in Aims(T)
  PROVE  /\ WrittenVariable(a) \in Vals
         /\ WrittenOptions(opt, a) \in OptionSet
         /\ DOMAIN WrittenParams(a) = T \cap Devs
         /\ \A d \in T \cap Devs : WrittenParams(a)[d] = a[d] /\ a[d] \in Vals
<1>1. DOMAIN a = T
  BY DEF Aims
<1>2. \A t \in T : IF t \in OptionNames THEN a[t] \in Levels ELSE a[t] \in Vals
  BY DEF Aims
<1>3. SweptVariable \notin OptionNames
  BY DEF SweptVariable, OptionNames
<1>4. WrittenVariable(a) \in Vals
  BY <1>1, <1>2, <1>3 DEF WrittenVariable
<1>5. WrittenOptions(opt, a) \in OptionSet
  BY <1>1, <1>2 DEF WrittenOptions, OptionSet
<1>6. \A d \in T \cap Devs : d \notin OptionNames
  BY NetFacts
<1> QED
  BY <1>1, <1>2, <1>4, <1>5, <1>6 DEF WrittenParams

LEMMA StoredIsTyped ==
  ASSUME net \in Netlists, SweepTyped
  PROVE  /\ StoredState \in Aims(sweep.targets)
         /\ DOMAIN StoredState = sweep.targets
<1>1. /\ sweep.before.variable \in Vals /\ sweep.before.param \in [Devs -> Vals]
      /\ OptionsAtStart \in [OptionNames -> Levels] /\ sweep.targets \subseteq Sweepable
  BY OptionsAreTyped DEF SweepTyped, Before, OptionSet, OptionsAtStart, OptionsAt
<1>2. \A t \in sweep.targets : IF t \in OptionNames THEN StoredState[t] \in Levels
                                                    ELSE StoredState[t] \in Vals
  BY <1>1, NetFacts DEF StoredState, Sweepable, SweptVariable, OptionNames
<1> QED
  BY <1>2 DEF StoredState, Aims

-----------------------------------------------------------------------------
(* The initial states, and the actions that only change inputs or only say *)
(* where the program is.                                                   *)

LEMMA InitInv == Init => Inv
<1> SUFFICES ASSUME Init PROVE Inv
  OBVIOUS
<1>1. /\ net \in Netlists /\ variable \in Vals /\ options \in OptionSet
      /\ IsOptionsMap(userOptions)
  BY NetFacts, DefaultsAssumption DEF Init
<1>2. Evaluated(variable, options) \in Vals
  BY <1>1, EvaluatedType
<1>3. TypeOK
  BY <1>1, <1>2, NetFacts DEF Init, SystemOf, TypeOK, ChangeFlags, NoJob, Callers
<1>4. Typed
  BY <1>1, <1>3 DEF Init, SystemOf, Typed, Analysing, NoJob, NoSweep, NoCommons
<1>5. Phased /\ Grown /\ Hierarchical
  BY DEF Init, SystemOf, Phased, Grown, Hierarchical, Usable, Elaborating
<1>6. Settled
  BY DEF Init, SystemOf, Settled, PropagateOn
<1>7. Described
  BY DEF Init, SystemOf, Described
<1>8. Aimed /\ Optioned /\ Restoring
  BY DEF Init, Aimed, Optioned, Restoring, ForPoint, Analysing, NoJob, OfUser, Elaborating
<1> QED
  BY <1>4, <1>5, <1>6, <1>7, <1>8 DEF Inv

\* Between commands no analysis is under way and no elaboration.
LEMMA IdleFacts ==
  ASSUME Typed, Phased, pc \in {"idle", "ready"}
  PROVE  job = NoJob /\ sweep = NoSweep /\ ~Analysing /\ ~MapsUnknowns /\ ~ForPoint
BY DEF Typed, Phased, Elaborating, Analysing, NoJob, MapsUnknowns, ForPoint

\* Actions between commands that leave the jobs alone preserve what is said of analyses.
LEMMA NoAnalysis ==
  ASSUME net' = net, job' = NoJob, pc' \in {"idle", "ready"}, pc' = "ready" => options' = OptionsOfUser'
  PROVE  Aimed' /\ Optioned' /\ Restoring' /\ ~Analysing'
BY DEF Aimed, Optioned, Restoring, ForPoint, Analysing, NoJob, OfUser, Elaborating

LEMMA SetVariableInv ==
  ASSUME Inv, NEW x \in Vals, SetVariable(x)
  PROVE  Inv'
<1> USE NetStays DEF SetVariable, hierarchy, setups, system
<1>1. job = NoJob /\ sweep = NoSweep /\ ~MapsUnknowns
  BY IdleFacts DEF Inv
<1>2. Typed'
  BY <1>1, NoAnalysis DEF Inv, Typed, TypeOK, ChangeFlags
<1>3. Phased'
  BY DEF Inv, Phased, Elaborating
<1>4. Grown'
  BY DEF Inv, Grown, Usable, Existing
<1>5. Hierarchical'
  BY DEF Inv, Hierarchical, Usable, ForcePropagation, Top
<1>6. Settled'
  BY DEF Inv, Settled, SetUp
<1>7. Described'
  BY <1>1 DEF Inv, Described, MapsUnknowns
<1> QED
  BY <1>1, <1>2, <1>3, <1>4, <1>5, <1>6, <1>7, NoAnalysis DEF Inv

LEMMA SetUserOptionsInv ==
  ASSUME Inv, NEW map \in UserOptions, SetUserOptions(map)
  PROVE  Inv'
<1> USE NetStays DEF SetUserOptions, hierarchy, setups, system
<1>1. job = NoJob /\ sweep = NoSweep /\ ~MapsUnknowns
  BY IdleFacts DEF Inv
<1>2. IsOptionsMap(map)
  BY NetFacts DEF Inv, Typed
<1>3. Typed'
  BY <1>1, <1>2, NoAnalysis DEF Inv, Typed, TypeOK
<1>4. Phased'
  BY DEF Inv, Phased, Elaborating
<1>5. Grown'
  BY DEF Inv, Grown, Usable, Existing
<1>6. Hierarchical'
  BY DEF Inv, Hierarchical, Usable, ForcePropagation, Top, ContextsCurrent
<1>7. Settled'
  BY DEF Inv, Settled, SetUp
<1>8. Described'
  BY <1>1 DEF Inv, Described, MapsUnknowns
<1> QED
  BY <1>1, <1>3, <1>4, <1>5, <1>6, <1>7, <1>8, NoAnalysis DEF Inv

LEMMA AlterInv ==
  ASSUME Inv, NEW d \in Devs, NEW x \in Vals, NEW complete \in BOOLEAN, Alter(d, x, complete),
         complete \/ FaultyAlter
  PROVE  Inv'
<1> USE NetStays DEF Alter, hierarchy, setups, system
<1>1. job = NoJob /\ sweep = NoSweep /\ ~MapsUnknowns
  BY IdleFacts DEF Inv
<1>2. Typed'
  BY <1>1, NoAnalysis DEF Inv, Typed, TypeOK, ChangeFlags
<1>3. Phased'
  BY DEF Inv, Phased, Elaborating
<1>4. Grown'
  BY DEF Inv, Grown, Usable, Existing
<1>5. Hierarchical'
  BY DEF Inv, Hierarchical, Usable, ForcePropagation, Top, ContextsCurrent, Typed, TypeOK
<1>6. Settled'
  BY DEF Inv, Settled, SetUp, PropagateOn, Typed, TypeOK
<1>7. Described'
  BY <1>1 DEF Inv, Described, MapsUnknowns
<1> QED
  BY <1>1, <1>2, <1>3, <1>4, <1>5, <1>6, <1>7, NoAnalysis DEF Inv

LEMMA NextCommandInv ==
  ASSUME Inv, NextCommand
  PROVE  Inv'
<1> USE NetStays DEF NextCommand, hierarchy, setups, system
<1>1. job = NoJob /\ sweep = NoSweep /\ ~MapsUnknowns
  BY IdleFacts DEF Inv
<1>2. Typed'
  BY <1>1, NoAnalysis DEF Inv, Typed, TypeOK
<1>3. Phased'
  BY DEF Inv, Phased, Elaborating
<1>4. Grown'
  BY DEF Inv, Grown, Usable, Existing
<1>5. Hierarchical'
  BY DEF Inv, Hierarchical, Usable, ForcePropagation, Top, ContextsCurrent
<1>6. Settled'
  BY DEF Inv, Settled, SetUp
<1>7. Described'
  BY <1>1 DEF Inv, Described, MapsUnknowns
<1> QED
  BY <1>1, <1>2, <1>3, <1>4, <1>5, <1>6, <1>7, NoAnalysis DEF Inv

-----------------------------------------------------------------------------
(* Circuit::elaborate()                                                    *)

\* The options of the user are options.
LEMMA UserIsTyped ==
  ASSUME TypeOK
  PROVE  OptionsOfUser \in OptionSet
BY DefaultsAssumption, OptionsAreTyped DEF TypeOK, OptionsOfUser

LEMMA ElaborateCircuitInv ==
  ASSUME Inv, ElaborateCircuit
  PROVE  Inv'
<1> DEFINE opt    == OptionsOfUser
           value  == Evaluated(variable, opt)
           ctx    == [i \in Tops |-> value]
           blocks == [h \in Hosts |-> value \in Enabling[h]]
           B      == Existing(blocks)
           pp     == [d \in Devs |-> IF d \in B THEN NetlistValue(d, ctx) ELSE Default[d]]
           ok     == \A d \in B : <<d, pp[d]>> \notin Refused
           raised == flags \cup OptionFlags(options, opt)
           C      == {d \in B : Collapses(d, pp[d], opt)}
<1>1. /\ pc = "idle" /\ pc' = (IF ok THEN "ready" ELSE "idle")
      /\ options' = opt /\ elaborated' = ok
      /\ flags' = IF ok THEN Consistent(raised) ELSE raised
      /\ context' = ctx /\ active' = blocks /\ built' = B /\ param' = pp
      /\ paramsChanged' = {} /\ needsSetup' = {}
      /\ history' = B \ Builtin /\ collapsed' = C
      /\ setupSaw' = [d \in Devs |-> IF d \in B THEN <<pp[d], opt["temp"]>> ELSE <<>>]
      /\ mapped' = [built |-> B, collapsed |-> C] /\ unreported' = FALSE
      /\ net' = net /\ variable' = variable /\ userOptions' = userOptions
      /\ commons' = commons /\ job' = job /\ sweep' = sweep
  BY DEF ElaborateCircuit, FreshBlocks, BlockActive, SystemOf
<1>2. job = NoJob /\ sweep = NoSweep /\ net \in Netlists
  BY <1>1, IdleFacts DEF Inv, Typed
<1>3. /\ variable \in Vals /\ opt \in OptionSet /\ flags \subseteq ChangeFlags
      /\ opt["temp"] \in Levels
  BY NamesAreOptions, EvaluatedType, UserIsTyped DEF Inv, Typed, TypeOK
<1>4. value \in Vals
  BY <1>3, EvaluatedType
<1>5. B \subseteq Devs
  BY ExistingFacts
<1>6. \A d \in Devs : NetlistValue(d, ctx) \in Vals
  <2>1. \A h \in Hosts : Top(h) \in Tops
    BY <1>2, TopIsToplevel
  <2> QED
    BY <1>2, <1>4, <2>1, NetFacts DEF NetlistValue
<1>7. pp \in [Devs -> Vals]
  BY <1>2, <1>6, NetFacts
<1>8. C \subseteq B \ Builtin
  BY <1>2, NetFacts DEF Collapses
<1>9. raised \subseteq ChangeFlags /\ Consistent(raised) \subseteq ChangeFlags
  BY <1>3 DEF OptionFlags, Consistent, ChangeFlags
<1>10. TypeOK'
  <2>1. options' \in OptionSet /\ flags' \subseteq ChangeFlags /\ elaborated' \in BOOLEAN
    BY <1>1, <1>3, <1>9
  <2>8. IsOptionsMap(userOptions')
    BY <1>1 DEF Inv, Typed, TypeOK
  <2>2. context' \in [Tops' -> Vals] /\ active' \in [Hosts' -> BOOLEAN]
    BY <1>1, <1>4, NetStays
  <2>3. setupSaw' \in [Devs' -> {<<>>} \cup (Vals \X Levels)]
    BY <1>1, <1>3, <1>7, NetStays
  <2>4. mapped' \in [built : SUBSET Devs', collapsed : SUBSET Devs']
    BY <1>1, <1>5, <1>8, NetStays
  <2>5. /\ built' \subseteq Devs' /\ param' \in [Devs' -> Vals]
        /\ history' \subseteq built' \ Builtin' /\ collapsed' \subseteq history'
    BY <1>1, <1>5, <1>7, <1>8, NetStays
  <2>6. job' \in [caller : Callers, hierarchyChanged : BOOLEAN, unknownsChanged : BOOLEAN,
                  rebuildsCores : BOOLEAN, todo : SUBSET built']
    BY <1>1, <1>2 DEF NoJob, Callers
  <2>7. pc' \in {"idle", "ready"}
    BY <1>1
  <2> QED
    BY <1>1, <1>3, <2>1, <2>2, <2>3, <2>4, <2>5, <2>6, <2>7, <2>8 DEF TypeOK
<1>17. options' = OptionsOfUser'
  BY <1>1 DEF OptionsOfUser
<1>18. Aimed' /\ Optioned' /\ Restoring' /\ ~Analysing'
  BY <1>1, <1>2, <1>17, NoAnalysis
<1>11. Typed'
  BY <1>1, <1>2, <1>10, <1>18 DEF Inv, Typed
<1>12. Phased'
  BY <1>1, <1>2 DEF Phased, Elaborating, Consistent
<1>13. Grown'
  BY <1>1, NetStays DEF Grown, Existing
<1>14. Hierarchical'
  <2>1. \A h \in Hosts : Top(h) \in Tops /\ ctx[Top(h)] = value
    BY <1>2, TopIsToplevel
  <2>2. \A h \in Hosts' : active'[h] = (context'[Top(h)'] \in Enabling'[h])
    BY <1>1, <2>1, NetStays DEF Top
  <2>3. \A d \in built' \cap Followers' : param'[d] = context'[Top(HostOf[d])']
    BY <1>1, <1>5, NetStays DEF NetlistValue, Top
  <2>4. ContextsCurrent'
    BY <1>1, NetStays DEF ContextsCurrent, Evaluated
  <2>5. HostOf' = HostOf
    BY <1>1, NetStays
  <2> QED
    BY <2>2, <2>3, <2>4, <2>5 DEF Hierarchical
<1>15. Settled'
  BY <1>1, <1>3, <1>5, <1>7 DEF Settled
<1>16. Described'
  <2>1. history' = {d \in built' \ Builtin' : setupSaw'[d] # <<>>}
    BY <1>1, <1>5, NetStays
  <2>2. collapsed' = {d \in history' : <<d, setupSaw'[d][1], setupSaw'[d][2]>> \in Shorted'}
    BY <1>1, <1>5, <1>8, NetStays DEF Collapses
  <2> QED
    BY <1>1, <2>1, <2>2 DEF Described
<1> QED
  BY <1>11, <1>12, <1>13, <1>14, <1>15, <1>16, <1>18 DEF Inv

-----------------------------------------------------------------------------
(* Circuit::elaborateChanges(): writing the inputs                         *)

LEMMA BeginKeeps ==
  ASSUME Inv, ~Elaborating, Usable, NEW caller \in Callers, NEW v \in Vals, NEW opt \in OptionSet,
         NEW w, DOMAIN w \subseteq built \ Followers, \A d \in DOMAIN w : w[d] \in Vals,
         NEW changes \in BOOLEAN, BeginElaborateChanges(caller, v, opt, w, changes)
  PROVE  TypeOK' /\ Phased' /\ Grown' /\ Hierarchical' /\ Settled' /\ Described'
<1> DEFINE changed == {d \in DOMAIN w : w[d] # param[d]}
           pp == [d \in Devs |-> IF d \in DOMAIN w THEN w[d] ELSE param[d]]
           raised == flags \cup OptionFlags(options, opt)
                    \cup (IF v # variable THEN {"Variables"} ELSE {})
                    \cup (IF changed # {} THEN {"HierarchyParameters"} ELSE {})
<1>1. /\ variable' = v /\ options' = opt /\ param' = pp
      /\ paramsChanged' = paramsChanged \cup changed /\ flags' = raised
      /\ elaborated' = FALSE /\ pc' = "propagate"
      /\ job' = [NoJob EXCEPT !.caller = caller, !.rebuildsCores = changes]
      /\ net' = net /\ userOptions' = userOptions
      /\ context' = context /\ active' = active /\ built' = built /\ needsSetup' = needsSetup
      /\ history' = history /\ collapsed' = collapsed /\ setupSaw' = setupSaw
      /\ mapped' = mapped /\ unreported' = unreported /\ commons' = commons
  BY DEF BeginElaborateChanges, hierarchy, setups, system
<1>2. net \in Netlists /\ TypeOK /\ job = NoJob /\ built \subseteq Devs
  BY DEF Inv, Typed, Phased, TypeOK
<1>3. pp \in [Devs -> Vals] /\ changed \subseteq built
  BY <1>2 DEF TypeOK
<1>4. raised \subseteq ChangeFlags
  BY <1>2 DEF TypeOK, ChangeFlags, OptionFlags
<1>5. job' \in [caller : Callers, hierarchyChanged : BOOLEAN, unknownsChanged : BOOLEAN, rebuildsCores : BOOLEAN, todo : SUBSET built']
  BY <1>1 DEF NoJob
<1>6. TypeOK'
  BY <1>1, <1>2, <1>3, <1>4, <1>5, NetStays DEF TypeOK
<1>7. ~job'.hierarchyChanged /\ ~job'.unknownsChanged
  BY <1>1 DEF NoJob
<1>8. Phased'
  BY <1>1, <1>7 DEF Phased, Elaborating
<1>9. Grown'
  BY <1>1, NetStays DEF Inv, Grown, Existing
<1>10. \A d \in built \cap Followers : pp[d] = param[d]
  BY <1>2
<1>11. raised \cap {"Variables", "Parametrization"} = {} =>
         v = variable /\ opt["temp"] = options["temp"] /\ flags \cap {"Variables", "Parametrization"} = {}
  BY DEF OptionFlags, ParametrizationAffecting
<1>12. Hierarchical'
  <2> SUFFICES ASSUME LastSwitches PROVE Hierarchical'
    BY <1>1, NetStays DEF Hierarchical
  <2>1. /\ \A h \in Hosts : active[h] = (context[Top(h)] \in Enabling[h])
        /\ \A d \in built \cap Followers : param[d] = context[Top(HostOf[d])]
        /\ ~ForcePropagation => ContextsCurrent
    BY DEF Inv, Hierarchical
  <2>2. \A h \in Hosts' : active'[h] = (context'[Top(h)'] \in Enabling'[h])
    BY <1>1, <2>1, NetStays DEF Top
  <2>3. \A d \in built' \cap Followers' : param'[d] = context'[Top(HostOf[d])']
    BY <1>1, <1>10, <2>1, NetStays DEF Top
  <2>4. ~ForcePropagation' => ContextsCurrent'
    BY <1>1, <1>11, <2>1, NetStays DEF ForcePropagation, ContextsCurrent, Evaluated
  <2>5. HostOf' = HostOf
    BY <1>1, NetStays
  <2> QED
    BY <1>1, <2>2, <2>3, <2>4, <2>5 DEF Hierarchical
<1>13. "Mapping" \notin raised => "Mapping" \notin flags /\ opt["temp"] = options["temp"]
  BY DEF OptionFlags, MappingAffecting
<1>14. Settled'
  <2> SUFFICES ASSUME ~FaultyAlter PROVE Settled'
    BY <1>1, NetStays DEF Settled
  <2>1. \A d \in built \ (needsSetup \cup paramsChanged) : setupSaw[d] # <<>> /\ setupSaw[d][1] = param[d]
    BY DEF Inv, Settled
  <2>2. \A d \in built' \ (needsSetup' \cup paramsChanged') : setupSaw'[d] # <<>> /\ setupSaw'[d][1] = param'[d]
    BY <1>1, <1>2, <2>1
  <2>3. "Mapping" \notin flags' =>
          \A d \in built' \ needsSetup' : setupSaw'[d] # <<>> => setupSaw'[d][2] = options'["temp"]
    BY <1>1, <1>13 DEF Inv, Settled
  <2>4. needsSetup' \cup paramsChanged' # {} => flags' \cap PropagateOn # {}
    BY <1>1 DEF Inv, Settled, PropagateOn
  <2> QED
    BY <1>1, <2>2, <2>3, <2>4 DEF Settled
<1>15. Described'
  BY <1>1, <1>2, NetStays DEF Inv, Described, MapsUnknowns, NoJob
<1> QED
  BY <1>6, <1>8, <1>9, <1>12, <1>14, <1>15

LEMMA ElaborateChangesInv ==
  ASSUME Inv, ElaborateChanges
  PROVE  Inv'
<1>1. /\ pc = "idle" /\ elaborated /\ sweep' = sweep
      /\ BeginElaborateChanges("commands", variable, OptionsOfUser, <<>>, FALSE)
  BY DEF ElaborateChanges
<1>2. ~Elaborating /\ Usable /\ variable \in Vals /\ OptionsOfUser \in OptionSet
  BY <1>1, UserIsTyped DEF Elaborating, Usable, Inv, Typed, TypeOK
<1>3. TypeOK' /\ Phased' /\ Grown' /\ Hierarchical' /\ Settled' /\ Described'
  <2>1. DOMAIN <<>> = {}
    OBVIOUS
  <2>2. "commands" \in Callers
    BY DEF Callers
  <2> QED
    BY <1>1, <1>2, <2>1, <2>2, BeginKeeps
<1>4. sweep = NoSweep /\ net \in Netlists /\ DOMAIN commons = {"name", "tolerances"}
  BY <1>1, IdleFacts DEF Inv, Typed
<1>5. net' = net /\ commons' = commons /\ pc' = "propagate" /\ job' = NoJob
  BY <1>1 DEF BeginElaborateChanges, NoJob
<1>6. ~Analysing' /\ ~ForPoint'
  BY <1>5 DEF Analysing, ForPoint, NoJob
<1>7. Typed'
  BY <1>1, <1>3, <1>4, <1>5, <1>6 DEF Typed
<1>9. options' = OptionsOfUser'
  BY <1>1 DEF BeginElaborateChanges, OptionsOfUser
<1>8. Aimed' /\ Optioned' /\ Restoring'
  BY <1>5, <1>6, <1>9 DEF Aimed, Optioned, Restoring, NoJob
<1> QED
  BY <1>3, <1>7, <1>8 DEF Inv

-----------------------------------------------------------------------------
(* The analysis                                                            *)

\* What an analysis sweeps always exists.
LEMMA SweptExists ==
  ASSUME Inv, Analysing, Usable
  PROVE  /\ SweepTyped /\ net \in Netlists
         /\ sweep.targets \cap Devs \subseteq built \ Followers
<1>1. SweepTyped /\ net \in Netlists
  BY DEF Inv, Typed
<1>2. Devs \ Optional \subseteq built
  BY ExistingFacts DEF Inv, Grown
<1>3. sweep.targets \cap Devs \subseteq Devs \ (Followers \cup Optional)
  BY <1>1, NetFacts DEF SweepTyped, Sweepable
<1> QED
  BY <1>1, <1>2, <1>3

LEMMA StartAnalysisInv ==
  ASSUME Inv, NEW T \in Targets, NEW own \in {userOptions} \cup OwnOptions, StartAnalysis(T, own)
  PROVE  Inv'
<1> DEFINE was == [variable |-> variable, options |-> options, param |-> param, active |-> active]
<1>1. /\ pc = "ready" /\ pc' = "sweep" /\ T \cap Devs \subseteq built
      /\ commons' = [name |-> "analysis", tolerances |-> StaticTolerances(mapped, options)]
      /\ sweep' = [targets |-> T, aim |-> <<>>, own |-> own,
                   options |-> WithAll(options, own, variable), parameter |-> variable,
                   core |-> <<>>, before |-> was]
      /\ UNCHANGED <<net, variable, userOptions, options, flags, elaborated, context, active, built,
                     param, paramsChanged, needsSetup, history, collapsed, setupSaw, mapped,
                     unreported, steering, job>>
  BY DEF StartAnalysis, hierarchy, setups, system
<1>2. job = NoJob /\ sweep = NoSweep /\ ~MapsUnknowns
  BY <1>1, IdleFacts DEF Inv
<1>3. net \in Netlists /\ TypeOK
  BY DEF Inv, Typed
<1>4. SweepTyped'
  <2>1. T \subseteq Sweepable /\ IsOptionsMap(own)
    BY <1>3, NetFacts DEF TypeOK
  <2>3. WithAll(options, own, variable) \in OptionSet
    BY <1>3, <2>1, OptionsAreTyped DEF TypeOK
  <2>2. was \in Before
    BY <1>3 DEF Before, TypeOK
  <2> QED
    BY <1>1, <2>1, <2>2, <2>3, NetStays DEF SweepTyped
<1>5. Typed'
  BY <1>1, <1>3, <1>4, NetStays DEF Typed, TypeOK, Analysing
<1>6. Phased'
  BY <1>1, <1>2 DEF Inv, Phased, Elaborating
<1>7. Grown'
  BY <1>1, NetStays DEF Inv, Grown, Usable, Existing
<1>8. Hierarchical'
  BY <1>1, NetStays DEF Inv, Hierarchical, Usable, ForcePropagation, Top, ContextsCurrent
<1>9. Settled'
  BY <1>1, NetStays DEF Inv, Settled, SetUp
<1>10. Described'
  BY <1>1, <1>2, NetStays DEF Inv, Described, MapsUnknowns
<1>11. Aimed'
  <2>1. TolerancesCurrent' /\ options' = sweep'.before.options
    BY <1>1 DEF TolerancesCurrent, StaticTolerances
  <2>2. ~job'.hierarchyChanged /\ ~ForPoint'
    BY <1>1, <1>2 DEF NoJob, ForPoint
  <2> QED
    BY <2>1, <2>2 DEF Aimed
<1>13. Optioned'
  <2>1. options = OptionsOfUser
    BY <1>1 DEF Inv, Optioned, OfUser
  <2>2. \A o \in DOMAIN userOptions.computed : userOptions.computed[o][variable] = options[o]
    BY <1>3, <2>1 DEF TypeOK, IsOptionsMap, OptionsOfUser, WithAll, WithExpressions
  <2>3. sweep'.options = OptionsAt(variable)' /\ sweep'.parameter = variable' /\ sweep'.core = <<>>
    BY <1>1 DEF OptionsAt
  <2>4. pc' = "sweep" /\ job'.caller = "commands" /\ ~ForPoint' /\ ~OfUser'
    BY <1>1, <1>2 DEF NoJob, ForPoint, OfUser, Elaborating
  <2>5. sweep'.own = userOptions' =>
          \A o \in DOMAIN sweep'.own.computed :
            sweep'.own.computed[o][sweep'.before.variable] = sweep'.before.options[o]
    BY <1>1, <2>2
  <2> QED
    BY <2>3, <2>4, <2>5 DEF Optioned
<1>12. Restoring'
  <2>8. InputsComeBack'
    <3>1. job'.caller # "finish" /\ "Variables" \notin flags'
      BY <1>1, <1>2 DEF NoJob, Inv, Phased
    <3> QED
      BY <1>1, <3>1 DEF InputsComeBack
  <2> SUFFICES ASSUME Unconditional PROVE DevicesComeBack'
    BY <1>1, <2>8, NetStays DEF Restoring
  <2>1. /\ \A h \in Hosts : ~active[h]
        /\ \A d \in built \cap Followers : param[d] = context[Top(HostOf[d])]
        /\ ContextsCurrent
    <3>1. LastSwitches /\ Usable
      BY <1>1 DEF Unconditional, LastSwitches, Hosts, Usable
    <3> QED
      BY <1>1, <3>1 DEF Inv, Hierarchical, Unconditional
  <2>2. Devs \subseteq built
    BY <1>1, ExistingFacts DEF Inv, Grown, Usable, Unconditional
  <2>3. \A d \in Followers : param[d] = Evaluated(variable, options)
    BY <1>3, <2>1, <2>2, NetFacts, TopIsToplevel DEF ContextsCurrent
  <2>5. sweep'.before = was /\ variable' = variable /\ param' = param
    BY <1>1
  <2>6. \A h \in Hosts' : ~sweep'.before.active[h]
    BY <1>1, <2>1, NetStays
  <2>9. job'.caller # "finish"
    BY <1>1, <1>2 DEF NoJob
  <2>7. \A d \in Followers' : sweep'.before.param[d] = Evaluated(sweep'.before.variable, sweep'.before.options)
    BY <1>1, <2>3, NetStays
  <2> QED
    BY <2>5, <2>6, <2>7, <2>9 DEF DevicesComeBack, Evaluated
<1> QED
  BY <1>5, <1>6, <1>7, <1>8, <1>9, <1>10, <1>11, <1>12, <1>13 DEF Inv

LEMMA SweepPointInv ==
  ASSUME Inv, NEW a \in Aims(sweep.targets), SweepPoint(a)
  PROVE  Inv'
<1> DEFINE v    == WrittenVariable(a)
           base == Recomputed(sweep.options, sweep.own, v)
           opt  == WrittenOptions(base, a)
           w    == WrittenParams(a)
           par  == AnalysisParameter(v)
<1>1. /\ pc = "sweep" /\ sweep' = [sweep EXCEPT !.aim = a, !.options = opt, !.parameter = par]
      /\ BeginElaborateChanges("point", v, opt, w, par # sweep.parameter)
  BY DEF SweepPoint
<1>2. Analysing /\ Usable /\ ~Elaborating /\ job = NoJob
  BY <1>1 DEF Analysing, Usable, Elaborating, Inv, Phased
<1>3. SweepTyped /\ net \in Netlists /\ sweep.targets \cap Devs \subseteq built \ Followers /\ TypeOK
  BY <1>2, SweptExists DEF Inv, Typed
<1>4. /\ sweep.targets \subseteq Sweepable /\ sweep.options \in OptionSet /\ variable \in Vals
      /\ IsOptionsMap(sweep.own) /\ DOMAIN a = sweep.targets
  BY <1>3 DEF SweepTyped, TypeOK, Aims
<1>5. /\ v \in Vals /\ DOMAIN w = sweep.targets \cap Devs
      /\ \A d \in sweep.targets \cap Devs : w[d] = a[d] /\ a[d] \in Vals
  BY <1>3, <1>4, WritesAreTyped
<1>6. base \in OptionSet
  <2> HIDE DEF v
  <2> QED
    BY <1>4, <1>5, OptionsAreTyped DEF Recomputed
<1>7. opt \in OptionSet
  <2> HIDE DEF base
  <2> QED
    BY <1>3, <1>4, <1>6, WritesAreTyped
<1>8. TypeOK' /\ Phased' /\ Grown' /\ Hierarchical' /\ Settled' /\ Described'
  <2>1. "point" \in Callers /\ (par # sweep.parameter) \in BOOLEAN
    BY DEF Callers
  <2> HIDE DEF v, opt, w, par
  <2> QED
    BY <1>1, <1>2, <1>3, <1>5, <1>7, <2>1, BeginKeeps
<1>9. /\ net' = net /\ commons' = commons /\ mapped' = mapped /\ pc' = "propagate"
      /\ variable' = v /\ options' = opt /\ userOptions' = userOptions
      /\ param' = [d \in Devs |-> IF d \in DOMAIN w THEN w[d] ELSE param[d]]
      /\ flags' = flags \cup OptionFlags(options, opt)
                    \cup (IF v # variable THEN {"Variables"} ELSE {})
                    \cup (IF {d \in DOMAIN w : w[d] # param[d]} # {} THEN {"HierarchyParameters"} ELSE {})
      /\ job'.caller = "point" /\ ~job'.hierarchyChanged /\ ~job'.unknownsChanged
      /\ job'.rebuildsCores = (par # sweep.parameter)
  BY <1>1 DEF BeginElaborateChanges, NoJob, system
<1>10. /\ sweep'.targets = sweep.targets /\ sweep'.own = sweep.own /\ sweep'.before = sweep.before
       /\ sweep'.aim = a /\ sweep'.options = opt /\ sweep'.parameter = par /\ sweep'.core = sweep.core
       /\ DOMAIN sweep' = {"targets", "aim", "own", "options", "parameter", "core", "before"}
  BY <1>1, <1>3 DEF SweepTyped
<1>11. Typed'
  <2>1. SweepTyped'
    BY <1>3, <1>7, <1>9, <1>10, NetStays DEF SweepTyped
  <2> QED
    BY <1>3, <1>8, <1>9, <2>1 DEF Inv, Typed, Analysing
<1>12. SweptValueInForce'
  <2> SUFFICES ASSUME NEW t \in sweep.targets PROVE Current(t)' = a[t]
    BY <1>10 DEF SweptValueInForce
  <2>2. CASE t = SweptVariable
    BY <1>4, <1>9, <2>2 DEF Current, WrittenVariable
  <2>3. CASE t # SweptVariable /\ t \in OptionNames
    BY <1>4, <1>9, <2>3 DEF Current, WrittenOptions
  <2>4. CASE t # SweptVariable /\ t \notin OptionNames
    <3>1. t \in Devs
      BY <1>4, <2>4 DEF Sweepable
    <3> QED
      BY <1>5, <1>9, <2>4, <3>1 DEF Current
  <2> QED
    BY <2>2, <2>3, <2>4
<1>13. /\ sweep.parameter = variable
       /\ \A o \in OptionNames \ sweep.targets : sweep.options[o] = OptionsAt(variable)[o]
       /\ sweep.core = <<>> \/ sweep.core = CoreFor
  BY <1>1, <1>2 DEF Inv, Optioned, NoJob
<1>14. ASSUME NEW o \in OptionNames \ sweep.targets PROVE opt[o] = OptionsAt(v)[o]
  <2>1. opt[o] = base[o] /\ sweep.options[o] = OptionsAt(variable)[o]
    BY <1>4, <1>13 DEF WrittenOptions
  <2>2. CASE ~VariablesChanged(v)
    <3>1. v = variable /\ base = sweep.options
      BY <2>2 DEF VariablesChanged, Recomputed
    <3> QED
      BY <2>1, <3>1
  <2>3. CASE VariablesChanged(v)
    <3>1. base[o] = IF o \in DOMAIN sweep.own.computed THEN sweep.own.computed[o][v] ELSE sweep.options[o]
      BY <2>3 DEF Recomputed, WithExpressions
    <3>2. DOMAIN sweep.own.fixed \cap DOMAIN sweep.own.computed = {}
      BY <1>4 DEF IsOptionsMap
    <3> HIDE DEF base, v
    <3> QED
      BY <2>1, <3>1, <3>2 DEF OptionsAt, WithAll, WithExpressions
  <2> QED
    BY <2>2, <2>3
<1>15. par = v
  BY <1>13 DEF AnalysisParameter, VariablesChanged
<1>16. Aimed'
  <2>1. ASSUME Unconditional, TolscaleStays
        PROVE  /\ options'["tolscale"] = sweep'.before.options["tolscale"]
               /\ ~BuildsTolerances' => TolerancesCurrent'
    <3>1. opt["tolscale"] = sweep.before.options["tolscale"]
      <4>1. "tolscale" \in OptionNames \ sweep.targets /\ "tolscale" \notin DOMAIN sweep.own.computed
        BY <2>1, NamesAreOptions DEF TolscaleStays
      <4>2. OptionsAt(v)["tolscale"] = OptionsAtStart["tolscale"]
        BY <4>1 DEF OptionsAtStart, OptionsAt, WithAll, WithExpressions
      <4> QED
        BY <1>14, <2>1, <4>1, <4>2 DEF TolscaleStays
    <3>2. TolerancesCurrent /\ options["tolscale"] = sweep.before.options["tolscale"]
      BY <1>1, <1>2, <2>1 DEF Inv, Aimed
    <3>3. "Tolerances" \notin flags' => options["abstol"] = opt["abstol"] /\ options["tolmode"] = opt["tolmode"]
      <4>1. "Tolerances" \notin flags' => "Tolerances" \notin OptionFlags(options, opt)
        BY <1>9
      <4> HIDE DEF opt
      <4> QED
        BY <4>1 DEF OptionFlags, TolerancesAffecting
    <3> HIDE DEF opt
    <3> QED
      BY <1>9, <1>10, <3>1, <3>2, <3>3 DEF BuildsTolerances, TolerancesCurrent, StaticTolerances
  <2>2. Unconditional' = Unconditional
    BY <1>9, NetStays
  <2>3. TolscaleStays' = TolscaleStays
    BY <1>10 DEF TolscaleStays, OptionsAtStart, OptionsAt
  <2> QED
    BY <1>9, <1>12, <2>1, <2>2, <2>3 DEF Aimed
<1>17. Optioned'
  <2>1. ~OfUser' /\ ForPoint' /\ Analysing'
    BY <1>9 DEF OfUser, ForPoint, Analysing, Elaborating
  <2>2. sweep'.own = userOptions' =>
          \A o \in DOMAIN sweep'.own.computed :
            sweep'.own.computed[o][sweep'.before.variable] = sweep'.before.options[o]
    BY <1>2, <1>9, <1>10 DEF Inv, Optioned
  <2>3. \A o \in OptionNames \ sweep'.targets : sweep'.options[o] = OptionsAt(variable)'[o]
    <3>1. OptionsAt(variable)' = OptionsAt(v)
      BY <1>9, <1>10 DEF OptionsAt
    <3> QED
      BY <1>10, <1>14, <3>1
  <2>4. sweep'.core = <<>> \/ job'.rebuildsCores \/ sweep'.core = CoreFor'
    BY <1>9, <1>10, <1>13 DEF CoreFor
  <2>5. sweep'.parameter = variable' /\ options' = sweep'.options /\ pc' # "core"
    BY <1>9, <1>10, <1>15
  <2> QED
    BY <2>1, <2>2, <2>3, <2>4, <2>5 DEF Optioned
<1>18. Restoring'
  <2>1. InputsComeBack /\ (Unconditional => DevicesComeBack)
    BY <1>2 DEF Inv, Restoring
  <2>2. SweptVariable \notin sweep.targets => v = variable
    BY <1>4 DEF WrittenVariable
  <2>3. "Variables" \in flags' => "Variables" \in flags \/ v # variable
    BY <1>9 DEF OptionFlags
  <2>4. InputsComeBack'
    BY <1>9, <1>10, <2>1, <2>2, <2>3 DEF InputsComeBack
  <2>5. \A d \in Unswept : param'[d] = param[d]
    BY <1>5, <1>9 DEF Unswept
  <2>6. Unswept' = Unswept /\ Followers' = Followers /\ Hosts' = Hosts /\ Unconditional' = Unconditional
    BY <1>9, <1>10, NetStays DEF Unswept
  <2>7. DevicesComeBack => DevicesComeBack'
    BY <1>9, <1>10, <2>5, <2>6 DEF DevicesComeBack, Evaluated
  <2> QED
    BY <2>1, <2>4, <2>6, <2>7 DEF Restoring
<1> QED
  BY <1>8, <1>11, <1>16, <1>17, <1>18 DEF Inv

LEMMA FinishAnalysisInv ==
  ASSUME Inv, FinishAnalysis
  PROVE  Inv'
<1> DEFINE a   == StoredState
           v   == WrittenVariable(a)
           opt == Recomputed(sweep.before.options, sweep.own, v)
           w   == WrittenParams(a)
           par == AnalysisParameter(v)
           ownOptions == WrittenOptions(sweep.options, a)
<1>1. /\ pc \in {"failed", "sweep"} /\ sweep' = [sweep EXCEPT !.options = ownOptions, !.parameter = par]
      /\ BeginElaborateChanges("finish", v, opt, w, par # sweep.parameter)
  BY DEF FinishAnalysis
<1>2. Analysing /\ Usable /\ ~Elaborating
  BY <1>1 DEF Analysing, Usable, Elaborating
<1>3. SweepTyped /\ net \in Netlists /\ sweep.targets \cap Devs \subseteq built \ Followers /\ TypeOK
  BY <1>2, SweptExists DEF Inv, Typed
<1>4. /\ sweep.targets \subseteq Sweepable /\ sweep.before.options \in OptionSet /\ variable \in Vals
      /\ sweep.options \in OptionSet /\ IsOptionsMap(sweep.own)
  BY <1>3 DEF SweepTyped, TypeOK, Before
<1>5. a \in Aims(sweep.targets) /\ DOMAIN a = sweep.targets
  BY <1>3, StoredIsTyped
<1>6. /\ v \in Vals /\ DOMAIN w = sweep.targets \cap Devs /\ ownOptions \in OptionSet
      /\ \A d \in sweep.targets \cap Devs : w[d] = a[d] /\ a[d] \in Vals
  <2> HIDE DEF a
  <2> QED
    BY <1>3, <1>4, <1>5, WritesAreTyped
<1>7. opt \in OptionSet
  <2> HIDE DEF v
  <2> QED
    BY <1>4, <1>6, OptionsAreTyped DEF Recomputed
<1>8. TypeOK' /\ Phased' /\ Grown' /\ Hierarchical' /\ Settled' /\ Described'
  <2>1. "finish" \in Callers /\ (par # sweep.parameter) \in BOOLEAN
    BY DEF Callers
  <2> HIDE DEF v, opt, w, par, ownOptions
  <2> QED
    BY <1>1, <1>2, <1>3, <1>6, <1>7, <2>1, BeginKeeps
<1>9. /\ net' = net /\ commons' = commons /\ pc' = "propagate" /\ variable' = v /\ options' = opt
      /\ userOptions' = userOptions
      /\ param' = [d \in Devs |-> IF d \in DOMAIN w THEN w[d] ELSE param[d]]
      /\ flags' = flags \cup OptionFlags(options, opt)
                    \cup (IF v # variable THEN {"Variables"} ELSE {})
                    \cup (IF {d \in DOMAIN w : w[d] # param[d]} # {} THEN {"HierarchyParameters"} ELSE {})
      /\ job'.caller = "finish" /\ ~job'.hierarchyChanged
  BY <1>1 DEF BeginElaborateChanges, NoJob
<1>10. /\ sweep'.targets = sweep.targets /\ sweep'.own = sweep.own /\ sweep'.before = sweep.before
       /\ sweep'.options = ownOptions
       /\ DOMAIN sweep' = {"targets", "aim", "own", "options", "parameter", "core", "before"}
  BY <1>1, <1>3 DEF SweepTyped
<1>11. Typed'
  <2>1. SweepTyped'
    BY <1>3, <1>6, <1>9, <1>10, NetStays DEF SweepTyped
  <2> QED
    BY <1>3, <1>8, <1>9, <2>1 DEF Inv, Typed, Analysing
<1>12. Aimed'
  BY <1>9 DEF Aimed, ForPoint
<1>13. sweep.own = userOptions =>
         \A o \in DOMAIN sweep.own.computed :
           sweep.own.computed[o][sweep.before.variable] = sweep.before.options[o]
  BY <1>2 DEF Inv, Optioned
<1>14. Optioned'
  <2>1. ~OfUser' /\ ~ForPoint' /\ pc' # "sweep" /\ pc' # "core"
    BY <1>9 DEF OfUser, ForPoint
  <2> QED
    BY <1>9, <1>10, <1>13, <2>1 DEF Optioned
<1>15. /\ SweptVariable \notin sweep.targets => variable = sweep.before.variable /\ "Variables" \notin flags
       /\ Unconditional => DevicesComeBack
  BY <1>2 DEF Inv, Restoring, InputsComeBack
<1>16. v = sweep.before.variable
  BY <1>5, <1>15 DEF WrittenVariable, StoredState
<1>17. SweptVariable \notin sweep.targets => v = variable
  BY <1>15, <1>16
<1>18. ASSUME NEW o \in OptionNames, ComesBack(o) PROVE opt[o] = sweep.before.options[o]
  <2>1. CASE ~VariablesChanged(v)
    BY <2>1 DEF Recomputed
  <2>2. CASE VariablesChanged(v)
    <3>1. opt[o] = IF o \in DOMAIN sweep.own.computed THEN sweep.own.computed[o][v] ELSE sweep.before.options[o]
      BY <2>2 DEF Recomputed, WithExpressions
    <3>2. SweptVariable \in sweep.targets
      BY <1>15, <1>17, <2>2 DEF VariablesChanged
    <3> HIDE DEF opt
    <3> QED
      BY <1>13, <1>16, <1>18, <3>1, <3>2 DEF ComesBack
  <2> QED
    BY <2>1, <2>2
<1>19. InputsComeBack'
  <2>1. "Variables" \in flags' => "Variables" \in flags \/ v # variable
    BY <1>9 DEF OptionFlags
  <2>2. \A o : ComesBack(o)' = ComesBack(o)
    BY <1>9, <1>10 DEF ComesBack
  <2> HIDE DEF v, opt
  <2> QED
    BY <1>9, <1>10, <1>15, <1>16, <1>17, <1>18, <2>1, <2>2 DEF InputsComeBack
<1>20. Restoring'
  <2> SUFFICES ASSUME Unconditional PROVE DevicesComeBack'
    BY <1>9, <1>19, NetStays DEF Restoring
  <2>1. /\ \A d \in Unswept : param[d] = sweep.before.param[d]
        /\ \A d \in Followers : sweep.before.param[d] = Evaluated(sweep.before.variable, sweep.before.options)
        /\ \A h \in Hosts : ~sweep.before.active[h]
    BY <1>15 DEF DevicesComeBack
  <2>3. \A d \in Devs \ Followers : param'[d] = sweep.before.param[d]
    <3> SUFFICES ASSUME NEW d \in Devs \ Followers PROVE param'[d] = sweep.before.param[d]
      OBVIOUS
    <3>1. CASE d \in sweep.targets
      <4>1. d # SweptVariable /\ d \notin OptionNames
        BY <1>3, NetFacts
      <4>2. a[d] = sweep.before.param[d]
        BY <3>1, <4>1 DEF StoredState
      <4> QED
        BY <1>6, <1>9, <3>1, <4>2
    <3>2. CASE d \notin sweep.targets
      BY <1>6, <1>9, <2>1, <3>2 DEF Unswept
    <3> QED
      BY <3>1, <3>2
  <2>4. Unswept' = Unswept /\ Followers' = Followers /\ Hosts' = Hosts /\ Devs' = Devs
    BY <1>9, <1>10, NetStays DEF Unswept
  <2>5. Unswept \subseteq Devs \ Followers
    BY DEF Unswept
  <2> QED
    BY <1>9, <1>10, <2>1, <2>3, <2>4, <2>5 DEF DevicesComeBack, Evaluated
<1> QED
  BY <1>8, <1>11, <1>12, <1>14, <1>20 DEF Inv

\* What the remaining actions of an analysis leave as it is.
SystemStays ==
  UNCHANGED <<net, variable, userOptions, options, flags, elaborated, context, active, built,
              param, paramsChanged, needsSetup, history, collapsed, setupSaw, mapped,
              unreported, steering, job>>

LEMMA SystemStaysKeeps ==
  ASSUME Inv, SystemStays, ~Elaborating, Usable, pc' \notin {"propagate", "setup", "tolerances"},
         pc' \in {"ready", "sweep", "core"} => elaborated /\ pc \in {"ready", "sweep", "core"},
         pc' \in {"idle", "ready", "sweep", "core", "failed"}
  PROVE  TypeOK' /\ Phased' /\ Grown' /\ Hierarchical' /\ Settled' /\ Described'
<1> USE NetStays DEF SystemStays
<1>1. TypeOK'
  BY DEF Inv, Typed, TypeOK
<1>2. Phased'
  BY DEF Inv, Phased, Elaborating
<1>3. Grown'
  BY DEF Inv, Grown, Existing
<1>4. Hierarchical'
  BY DEF Inv, Hierarchical, ForcePropagation, Top, ContextsCurrent
<1>5. Settled'
  BY DEF Inv, Settled, SetUp
<1>6. Described'
  BY DEF Inv, Described, MapsUnknowns, Elaborating
<1> QED
  BY <1>1, <1>2, <1>3, <1>4, <1>5, <1>6

\* An analysis ends without finish() or stays where it is.
LEMMA LeaveInv ==
  ASSUME Inv, pc \in {"core", "failed"}, SystemStays, pc' = "idle", sweep' = NoSweep, commons' = NoCommons
  PROVE  Inv'
<1>1. job' = NoJob /\ ~Elaborating /\ Usable /\ net' = net /\ net \in Netlists
  BY DEF Inv, Phased, Elaborating, Usable, SystemStays, Typed
<1>2. Aimed' /\ Optioned' /\ Restoring' /\ ~Analysing'
  BY <1>1, NoAnalysis
<1>3. TypeOK' /\ Phased' /\ Grown' /\ Hierarchical' /\ Settled' /\ Described'
  BY <1>1, SystemStaysKeeps
<1>4. Typed'
  BY <1>1, <1>2, <1>3 DEF Typed, NoCommons
<1> QED
  BY <1>2, <1>3, <1>4 DEF Inv

LEMMA MoveInv ==
  ASSUME Inv, pc = "core", pc' \in {"sweep", "failed"}, SystemStays, sweep' = sweep, commons' = commons
  PROVE  Inv'
<1>1. job = NoJob /\ ~Elaborating /\ Usable /\ elaborated /\ Analysing
  BY DEF Inv, Phased, Elaborating, Usable, Analysing
<1>2. TypeOK' /\ Phased' /\ Grown' /\ Hierarchical' /\ Settled' /\ Described'
  BY <1>1, SystemStaysKeeps
<1>3. net' = net
  BY DEF SystemStays
<1>4. Typed'
  BY <1>1, <1>2, <1>3, NetStays DEF Inv, Typed, Analysing, SweepTyped
<1>5. Aimed'
  BY <1>1, <1>3, NetStays DEF Inv, Aimed, ForPoint, SystemStays, NoJob, TolscaleStays, TolerancesCurrent,
     StaticTolerances, BuildsTolerances, Analysing, OptionsAtStart, OptionsAt
<1>6. Restoring'
  BY <1>1, <1>3, NetStays DEF Inv, Restoring, InputsComeBack, DevicesComeBack, ComesBack, Analysing,
     SystemStays, Unswept, Evaluated
<1>7. Optioned'
  <2>1. ~OfUser' /\ pc' # "core" /\ job'.caller # "point"
    BY <1>1 DEF OfUser, SystemStays, NoJob, Elaborating
  <2>2. Optioned /\ ForPoint
    BY DEF Inv, ForPoint
  <2> QED
    BY <1>1, <2>1, <2>2 DEF Optioned, SystemStays, CoreFor, OptionsAt, Analysing, OfUser, ForPoint
<1> QED
  BY <1>2, <1>4, <1>5, <1>6, <1>7 DEF Inv

LEMMA CoreInv ==
  ASSUME Inv, RunCore \/ CoreFails \/ AbandonAnalysis \/ StopAnalysis
  PROVE  Inv'
<1>1. CASE RunCore
  <2>1. SystemStays /\ pc = "core"
    BY <1>1 DEF RunCore, SystemStays, hierarchy, setups, system
  <2>2. \/ pc' = "idle" /\ sweep' = NoSweep /\ commons' = NoCommons
        \/ pc' = "sweep" /\ sweep' = sweep /\ commons' = commons
    BY <1>1 DEF RunCore
  <2> QED
    BY <2>1, <2>2, LeaveInv, MoveInv
<1>2. CASE CoreFails
  <2>1. SystemStays /\ pc = "core" /\ pc' = "failed" /\ sweep' = sweep /\ commons' = commons
    BY <1>2 DEF CoreFails, SystemStays, hierarchy, setups, system
  <2> QED
    BY <2>1, MoveInv
<1>3. CASE AbandonAnalysis
  <2>1. /\ SystemStays /\ pc = "failed" /\ pc' = "idle" /\ sweep' = NoSweep /\ commons' = NoCommons
    BY <1>3 DEF AbandonAnalysis, SystemStays, hierarchy, setups, system
  <2> QED
    BY <2>1, LeaveInv
<1>4. CASE StopAnalysis
  <2>1. /\ SystemStays /\ pc = "core" /\ pc' = "idle" /\ sweep' = NoSweep /\ commons' = NoCommons
    BY <1>4 DEF StopAnalysis, SystemStays, hierarchy, setups, system
  <2> QED
    BY <2>1, LeaveInv
<1> QED
  BY <1>1, <1>2, <1>3, <1>4

-----------------------------------------------------------------------------
(* Circuit::propagateDownHierarchy()                                       *)

\* Only the last toplevel instance can be the one where blocks change.
LEMMA ChangeAtFacts ==
  ASSUME net \in Netlists, LastSwitches, active \in [Hosts -> BOOLEAN], NEW value, value = Evaluated(variable, options),
         \A h \in Hosts : active[h] = (context[Top(h)] \in Enabling[h])
  PROVE  \/ /\ ForcePropagation /\ ChangeAt = NTop
            /\ (value \in Enabling[NTop]) # active[NTop]
            /\ \A i \in Tops \ {NTop} : active[i] = (value \in Enabling[i])
         \/ /\ ChangeAt = NTop + 1
            /\ ForcePropagation => \A i \in Tops : active[i] = (value \in Enabling[i])
<1> DEFINE changed == {i \in Tops : (value \in Enabling[i]) # active[i]}
<1>1. ChangeAt = IF ~ForcePropagation \/ changed = {} THEN NTop + 1
                 ELSE CHOOSE i \in changed : \A j \in changed : i <= j
  BY DEF ChangeAt, BlockActive
<1>2. \A i \in Tops : i \in Hosts /\ Top(i) = i /\ i \in Nat
  BY TopIsToplevel DEF Hosts
<1>3. \A i \in Tops \ {NTop} : active[i] = (value \in Enabling[i])
  <2> SUFFICES ASSUME NEW i \in Tops \ {NTop} PROVE active[i] = (value \in Enabling[i])
    OBVIOUS
  <2>1. Enabling[i] = {}
    BY DEF LastSwitches
  <2>2. active[i] = (context[i] \in Enabling[i])
    BY <1>2
  <2> QED
    BY <2>1, <2>2
<1>5. changed \subseteq {NTop}
  BY <1>3
<1>6. \A i \in Tops : active[i] \in BOOLEAN
  BY <1>2
<1>7. CASE ForcePropagation /\ changed # {}
  <2>1. changed = {NTop}
    BY <1>5, <1>7
  <2>2. \A j \in changed : NTop <= j
    BY <2>1, NetFacts
  <2>3. (CHOOSE i \in changed : \A j \in changed : i <= j) \in changed
    BY <2>1, <2>2
  <2>4. (value \in Enabling[NTop]) # active[NTop]
    BY <2>1
  <2> QED
    BY <1>1, <1>3, <1>7, <2>1, <2>3, <2>4
<1>8. CASE ~ForcePropagation
  BY <1>1, <1>8
<1>9. CASE changed = {}
  BY <1>1, <1>6, <1>9
<1> QED
  BY <1>7, <1>8, <1>9

LEMMA CommonsKeepTolerances ==
  ASSUME DOMAIN commons = {"name", "tolerances"}, CommonsFromOptions
  PROVE  DOMAIN commons' = {"name", "tolerances"} /\ commons'.tolerances = commons.tolerances
BY DEF CommonsFromOptions

\* What can be said of an analysis after a step of elaborateChanges() that
\* leaves its inputs alone.
LEMMA ElaborationKeepsAim ==
  ASSUME Inv, Elaborating, Elaborating',
         UNCHANGED <<net, variable, userOptions, options, flags, sweep>>,
         mapped' = mapped \/ (job'.rebuildsCores /\ (Unconditional => BuildsTolerances')),
         job'.caller = job.caller, job.unknownsChanged => job'.unknownsChanged,
         job.rebuildsCores => job'.rebuildsCores,
         commons'.tolerances = commons.tolerances,
         Unconditional => ~job'.hierarchyChanged /\ \A d \in Devs \ Followers : param'[d] = param[d]
  PROVE  Aimed' /\ Optioned' /\ Restoring'
<1> USE NetStays
<1>1. ForPoint' = ForPoint /\ Analysing' = Analysing /\ OfUser' = OfUser
  BY DEF ForPoint, Analysing, Elaborating, OfUser
<1>2. Analysing => SweepTyped /\ net \in Netlists
  BY DEF Inv, Typed
<1>3. ForPoint => SweptValueInForce'
  <2> SUFFICES ASSUME ForPoint PROVE SweptValueInForce'
    OBVIOUS
  <2>1. SweptValueInForce /\ SweepTyped
    BY <1>2 DEF Inv, Aimed, ForPoint, Analysing
  <2>2. \A t \in sweep.targets : t = SweptVariable \/ t \in OptionNames \/ t \in Devs \ Followers
    BY <2>1 DEF SweepTyped, Sweepable
  <2> SUFFICES ASSUME NEW t \in sweep.targets, t \notin Devs \/ Unconditional
               PROVE  Current(t)' = sweep.aim[t]
    BY DEF SweptValueInForce
  <2>3. Current(t) = sweep.aim[t]
    BY <2>1 DEF SweptValueInForce
  <2>4. CASE t = SweptVariable \/ t \in OptionNames
    BY <2>3, <2>4 DEF Current
  <2>5. CASE t \in Devs \ Followers
    BY <2>3, <2>5 DEF Current
  <2> QED
    BY <2>2, <2>4, <2>5
<1>4. BuildsTolerances => BuildsTolerances'
  BY DEF BuildsTolerances
<1>5. Aimed'
  <2>1. TolscaleStays' = TolscaleStays
    BY DEF TolscaleStays, OptionsAtStart, OptionsAt
  <2>2. Unconditional /\ ~BuildsTolerances' => TolerancesCurrent' = TolerancesCurrent
    BY DEF TolerancesCurrent, StaticTolerances
  <2> QED
    BY <1>1, <1>3, <1>4, <2>1, <2>2 DEF Inv, Aimed, Elaborating
<1>6. Restoring'
  <2>1. InputsComeBack' = InputsComeBack
    BY DEF InputsComeBack, ComesBack
  <2>2. Unconditional /\ DevicesComeBack => DevicesComeBack'
    BY DEF DevicesComeBack, Unswept, Evaluated
  <2> QED
    BY <1>1, <2>1, <2>2 DEF Inv, Restoring
<1>7. Optioned'
  <2>1. mapped' = mapped => CoreFor' = CoreFor
    BY DEF CoreFor
  <2>2. OptionsOfUser' = OptionsOfUser /\ OptionsAt(variable)' = OptionsAt(variable)
    BY DEF OptionsOfUser, OptionsAt
  <2> QED
    BY <1>1, <2>1, <2>2 DEF Inv, Optioned, Elaborating
<1> QED
  BY <1>5, <1>6, <1>7

LEMMA PropagateInv ==
  ASSUME Inv, PropagateDownHierarchy
  PROVE  Inv'
<1> DEFINE value  == Evaluated(variable, options)
           at     == ChangeAt
           ctx    == [i \in Tops |-> IF ForcePropagation /\ i <= at THEN value ELSE context[i]]
           blocks == [h \in Hosts |->
                        IF h \in Tops
                        THEN IF h = at THEN ~active[h] ELSE active[h]
                        ELSE IF ForcePropagation THEN ctx[TopOf[h]] \in Enabling[h]
                        ELSE active[h]]
           rebuilt == {h \in Hosts : Top(h) >= at \/ blocks[h] # active[h]}
           kept   == {d \in built : HostOf[d] \notin rebuilt}
           made   == {d \in Existing(blocks) : HostOf[d] \in rebuilt}
           pp     == [d \in Devs |->
                        IF d \in kept
                        THEN IF ForcePropagation /\ d \in Followers
                             THEN ctx[Top(HostOf[d])] ELSE param[d]
                        ELSE IF d \in made THEN NetlistValue(d, ctx)
                        ELSE Default[d]]
<1>1. /\ pc = "propagate" /\ pc' = "setup" /\ flags \cap PropagateOn # {}
      /\ context' = ctx /\ active' = blocks /\ built' = kept \cup made /\ param' = pp
      /\ paramsChanged' = {}
      /\ needsSetup' = made \cup {d \in kept : \/ d \in needsSetup
                                               \/ d \in paramsChanged
                                               \/ pp[d] # param[d]}
      /\ history' = history \cap kept /\ collapsed' = collapsed \cap kept
      /\ setupSaw' = [d \in Devs |-> IF d \in kept THEN setupSaw[d] ELSE <<>>]
      /\ job' = [job EXCEPT !.hierarchyChanged = (rebuilt # {}), !.todo = kept \cup made]
      /\ CommonsFromOptions
      /\ UNCHANGED <<net, variable, userOptions, options, flags, elaborated, mapped, unreported, steering, sweep>>
  <2>1. blocks = BlocksAfter(at, ctx)
    BY DEF BlocksAfter, BlockActive
  <2>2. kept = built \ Deleted(rebuilt)
    BY DEF Deleted
  <2>3. pp = [d \in Devs |-> IF d \in kept THEN Propagated(d, ctx)
                            ELSE IF d \in made THEN NetlistValue(d, ctx)
                            ELSE Default[d]]
    BY DEF Propagated
  <2> HIDE DEF blocks, kept, pp
  <2> QED
    BY <2>1, <2>2, <2>3 DEF PropagateDownHierarchy, SurvivingPatterns, system
<1>2. /\ net \in Netlists /\ TypeOK /\ Usable /\ Elaborating /\ Elaborating' /\ net' = net
      /\ DOMAIN commons = {"name", "tolerances"} /\ ~elaborated
  BY <1>1 DEF Inv, Typed, Phased, Usable, Elaborating
<1>3. /\ job \in [caller : Callers, hierarchyChanged : BOOLEAN, unknownsChanged : BOOLEAN, rebuildsCores : BOOLEAN, todo : SUBSET built]
      /\ ~job.hierarchyChanged /\ ~job.unknownsChanged
  BY <1>1, <1>2 DEF Inv, Phased, TypeOK
<1>4. job' = [caller |-> job.caller, hierarchyChanged |-> (rebuilt # {}),
              unknownsChanged |-> job.unknownsChanged, rebuildsCores |-> job.rebuildsCores,
              todo |-> kept \cup made]
  BY <1>1, <1>3
<1>5. /\ value \in Vals /\ context \in [Tops -> Vals] /\ active \in [Hosts -> BOOLEAN]
      /\ built \subseteq Devs /\ param \in [Devs -> Vals]
  BY <1>2, EvaluatedType DEF TypeOK
<1>6. /\ \A h \in Hosts : Top(h) \in Tops /\ Top(h) \in Nat /\ Top(h) <= NTop
      /\ \A d \in Devs : HostOf[d] \in Hosts
      /\ NTop \in Tops /\ NTop \in Nat /\ NTop + 1 \notin Tops
  BY <1>2, NetFacts, TopIsToplevel DEF Tops
<1>7. ctx \in [Tops -> Vals]
  BY <1>5
<1>8. blocks \in [Hosts -> BOOLEAN]
  <2> HIDE DEF at, ctx
  <2>1. ASSUME NEW h \in Hosts PROVE blocks[h] \in BOOLEAN
    <3>1. active[h] \in BOOLEAN
      BY <1>5
    <3>2. \/ blocks[h] = ~active[h]
          \/ blocks[h] = active[h]
          \/ blocks[h] = (ctx[TopOf[h]] \in Enabling[h])
      BY Zenon
    <3> HIDE DEF blocks
    <3>3. (~active[h]) \in BOOLEAN /\ (ctx[TopOf[h]] \in Enabling[h]) \in BOOLEAN
      OBVIOUS
    <3> QED
      BY <3>1, <3>2, <3>3, Zenon
  <2> HIDE DEF blocks
  <2>2. blocks = [h \in Hosts |-> blocks[h]]
    BY DEF blocks
  <2> QED
    BY <2>1, <2>2
<1>9. kept \subseteq built /\ made \subseteq Devs /\ kept \cap made = {}
  BY ExistingFacts
<1> HIDE DEF at, ctx, blocks, rebuilt, value
<1>10. pp \in [Devs -> Vals]
  <2>1. \A d \in Devs : ctx[Top(HostOf[d])] \in Vals /\ NetlistValue(d, ctx) \in Vals /\ Default[d] \in Vals
    BY <1>2, <1>6, <1>7, NetFacts DEF NetlistValue
  <2> QED
    BY <1>5, <2>1
<1> HIDE DEF pp, kept, made
<1>11. TypeOK'
  <2>1. context' \in [Tops' -> Vals] /\ active' \in [Hosts' -> BOOLEAN]
    BY <1>1, <1>2, <1>7, <1>8, NetStays
  <2>2. built' \subseteq Devs' /\ param' \in [Devs' -> Vals] /\ needsSetup' \subseteq built' /\ paramsChanged' \subseteq built'
    BY <1>1, <1>2, <1>5, <1>9, <1>10, NetStays
  <2>3. history' \subseteq built' \ Builtin' /\ collapsed' \subseteq history'
    BY <1>1, <1>2, <1>9, NetStays DEF TypeOK
  <2>4. setupSaw' \in [Devs' -> {<<>>} \cup (Vals \X Levels)]
    BY <1>1, <1>2, <1>5, <1>9, NetStays DEF TypeOK
  <2>5. job' \in [caller : Callers, hierarchyChanged : BOOLEAN, unknownsChanged : BOOLEAN, rebuildsCores : BOOLEAN, todo : SUBSET built']
    BY <1>1, <1>3, <1>4
  <2>6. /\ variable' \in Vals /\ IsOptionsMap(userOptions') /\ options' \in OptionSet
        /\ flags' \subseteq ChangeFlags /\ elaborated' \in BOOLEAN /\ unreported' \in BOOLEAN
        /\ mapped' \in [built : SUBSET Devs', collapsed : SUBSET Devs'] /\ pc' = "setup"
    BY <1>1, <1>2, NetStays DEF TypeOK
  <2> QED
    BY <2>1, <2>2, <2>3, <2>4, <2>5, <2>6 DEF TypeOK
<1>12. Typed'
  <2>1. DOMAIN commons' = {"name", "tolerances"}
    BY <1>1, <1>2, CommonsKeepTolerances
  <2>2. Analysing' = Analysing
    BY <1>1, <1>4 DEF Analysing
  <2> QED
    BY <1>1, <1>2, <1>11, <2>1, <2>2, NetStays DEF Inv, Typed, SweepTyped
<1>13. Phased'
  BY <1>1, <1>2 DEF Phased, Elaborating
<1>14. Grown'
  <2>1. built = Existing(active)
    BY <1>2 DEF Inv, Grown
  <2>2. \A d \in Devs : HostOf[d] \notin rebuilt => blocks[HostOf[d]] = active[HostOf[d]]
    BY <1>6 DEF rebuilt
  <2>3. kept \cup made = Existing(blocks)
    BY <2>1, <2>2, ExistingFacts DEF Existing, kept, made
  <2>4. Existing(active)' = Existing(blocks)
    BY <1>1, <1>2, NetStays DEF Existing
  <2> QED
    BY <1>1, <2>3, <2>4 DEF Grown

<1>15. LastSwitches =>
         /\ \A i \in Tops : ctx[i] = value
         /\ \A h \in Hosts : blocks[h] = (value \in Enabling[h])
  <2> SUFFICES ASSUME LastSwitches
               PROVE  /\ \A i \in Tops : ctx[i] = value
                      /\ \A h \in Hosts : blocks[h] = (value \in Enabling[h])
    OBVIOUS
  <2>1. /\ \A h \in Hosts : active[h] = (context[Top(h)] \in Enabling[h])
        /\ ~ForcePropagation => ContextsCurrent
    BY <1>2 DEF Inv, Hierarchical
  <2>2. \/ /\ ForcePropagation /\ at = NTop
           /\ (value \in Enabling[NTop]) # active[NTop]
           /\ \A i \in Tops \ {NTop} : active[i] = (value \in Enabling[i])
        \/ /\ at = NTop + 1
           /\ ForcePropagation => \A i \in Tops : active[i] = (value \in Enabling[i])
    BY <1>2, <1>5, <2>1, ChangeAtFacts DEF at, value
  <2>3. \A i \in Tops : i <= at
    BY <1>6, <2>2 DEF Tops
  <2>4. \A i \in Tops : ctx[i] = value
    BY <2>1, <2>3 DEF ctx, value, ContextsCurrent
  <2>5. ASSUME NEW h \in Hosts PROVE blocks[h] = (value \in Enabling[h])
    <3>1. Top(h) \in Tops /\ (h \in Tops => Top(h) = h) /\ (h \notin Tops => Top(h) = TopOf[h])
      BY <1>6 DEF Top
    <3>2. CASE ~ForcePropagation
      <4>1. at = NTop + 1 /\ context[Top(h)] = value
        BY <2>1, <2>2, <3>1, <3>2 DEF ContextsCurrent, value
      <4>2. h # at
        BY <1>2, <1>6, <4>1, NetFacts DEF Hosts
      <4> QED
        BY <2>1, <3>2, <4>1, <4>2 DEF blocks
    <3>3. CASE ForcePropagation /\ h \notin Tops
      BY <2>4, <3>1, <3>3 DEF blocks
    <3>4. CASE ForcePropagation /\ h \in Tops /\ at = NTop + 1
      <4>1. h # at /\ active[h] = (value \in Enabling[h])
        BY <1>6, <2>2, <3>4
      <4> QED
        BY <3>4, <4>1 DEF blocks
    <3>5. CASE ForcePropagation /\ h \in Tops /\ at = NTop
      <4>1. CASE h = NTop
        <5>1. (value \in Enabling[h]) # active[h] /\ active[h] \in BOOLEAN /\ blocks[h] = ~active[h]
          BY <1>5, <1>6, <2>2, <3>5, <4>1 DEF blocks
        <5> QED
          BY <5>1
      <4>2. CASE h # NTop
        <5>1. active[h] = (value \in Enabling[h]) /\ blocks[h] = active[h]
          BY <1>6, <2>2, <3>5, <4>2 DEF blocks
        <5> QED
          BY <5>1
      <4> QED
        BY <4>1, <4>2
    <3> QED
      BY <2>2, <3>2, <3>3, <3>4, <3>5
  <2> QED
    BY <2>4, <2>5
<1>16. Hierarchical'
  <2> SUFFICES ASSUME LastSwitches PROVE Hierarchical'
    BY <1>1, NetStays DEF Hierarchical
  <2>1. /\ \A i \in Tops : ctx[i] = value
        /\ \A h \in Hosts : blocks[h] = (value \in Enabling[h])
    BY <1>15
  <2>2. \A h \in Hosts' : active'[h] = (context'[Top(h)'] \in Enabling'[h])
    BY <1>1, <1>2, <1>6, <2>1, NetStays DEF Top
  <2>3. \A d \in built \cap Followers : param[d] = context[Top(HostOf[d])]
    BY <1>2 DEF Inv, Hierarchical
  <2>4. ~ForcePropagation => \A i \in Tops : context[i] = value
    BY <1>2 DEF Inv, Hierarchical, ContextsCurrent, value
  <2>5. \A d \in (kept \cup made) \cap Followers : pp[d] = ctx[Top(HostOf[d])]
    <3> SUFFICES ASSUME NEW d \in (kept \cup made) \cap Followers PROVE pp[d] = ctx[Top(HostOf[d])]
      OBVIOUS
    <3>1. d \in Devs /\ Top(HostOf[d]) \in Tops
      BY <1>5, <1>6, <1>9
    <3>2. CASE d \in kept /\ ForcePropagation
      BY <3>1, <3>2 DEF pp
    <3>3. CASE d \in kept /\ ~ForcePropagation
      BY <1>9, <2>1, <2>3, <2>4, <3>1, <3>3 DEF pp
    <3>4. CASE d \notin kept
      BY <3>1, <3>4 DEF pp, NetlistValue
    <3> QED
      BY <3>2, <3>3, <3>4
  <2>6. \A d \in built' \cap Followers' : param'[d] = context'[Top(HostOf[d])']
    BY <1>1, <1>2, <2>5, NetStays DEF Top
  <2>7. ContextsCurrent'
    BY <1>1, <1>2, <2>1, NetStays DEF ContextsCurrent, Evaluated, value
  <2>8. HostOf' = HostOf
    BY <1>2, NetStays
  <2> QED
    BY <2>2, <2>6, <2>7, <2>8 DEF Hierarchical
<1>17. Settled'
  <2> SUFFICES ASSUME ~FaultyAlter PROVE Settled'
    BY <1>1, NetStays DEF Settled
  <2>1. /\ \A d \in built \ (needsSetup \cup paramsChanged) : setupSaw[d] # <<>> /\ setupSaw[d][1] = param[d]
        /\ "Mapping" \notin flags =>
             \A d \in built \ needsSetup : setupSaw[d] # <<>> => setupSaw[d][2] = options["temp"]
    BY DEF Inv, Settled
  <2>2. \A d \in built' \ needsSetup' : /\ d \in kept /\ d \in built \ (needsSetup \cup paramsChanged)
                                         /\ param'[d] = param[d] /\ setupSaw'[d] = setupSaw[d]
    BY <1>1, <1>5, <1>9
  <2>3. \A d \in built' \ (needsSetup' \cup paramsChanged') : setupSaw'[d] # <<>> /\ setupSaw'[d][1] = param'[d]
    BY <2>1, <2>2
  <2>4. "Mapping" \notin flags' =>
          \A d \in built' \ needsSetup' : setupSaw'[d] # <<>> => setupSaw'[d][2] = options'["temp"]
    BY <1>1, <2>1, <2>2
  <2>5. job'.todo = built' /\ needsSetup' \subseteq built'
    BY <1>1, <1>4
  <2> QED
    BY <1>1, <2>3, <2>4, <2>5 DEF Settled
<1>18. Described'
  <2>1. /\ history = {d \in built \ Builtin : setupSaw[d] # <<>>}
        /\ collapsed = {d \in history : <<d, setupSaw[d][1], setupSaw[d][2]>> \in Shorted}
    BY DEF Inv, Described
  <2>2. \A d \in Devs : setupSaw'[d] = IF d \in kept THEN setupSaw[d] ELSE <<>>
    BY <1>1
  <2>3. history' = {d \in built' \ Builtin' : setupSaw'[d] # <<>>}
    BY <1>1, <1>2, <1>5, <1>9, <2>1, <2>2, NetStays
  <2>4. collapsed' = {d \in history' : <<d, setupSaw'[d][1], setupSaw'[d][2]>> \in Shorted'}
    BY <1>1, <1>2, <1>5, <1>9, <2>1, <2>2, NetStays
  <2>5. ASSUME ~unreported', ~MapsUnknowns' PROVE mapped' = [built |-> built', collapsed |-> collapsed']
    <3>1. rebuilt = {} /\ kept = built /\ made = {}
      BY <1>4, <2>5 DEF MapsUnknowns, kept, made
    <3>2. collapsed \subseteq built /\ mapped = [built |-> built, collapsed |-> collapsed]
      BY <1>1, <1>2, <1>3, <2>5 DEF TypeOK, Inv, Described, MapsUnknowns
    <3>3. built' = built /\ collapsed' = collapsed
      BY <1>1, <3>1, <3>2
    <3> QED
      BY <1>1, <3>2, <3>3
  <2> QED
    BY <1>1, <2>3, <2>4, <2>5 DEF Described
<1>19. Unconditional => rebuilt = {} /\ \A d \in Devs \ Followers : pp[d] = param[d]
  <2> SUFFICES ASSUME Unconditional
               PROVE  rebuilt = {} /\ \A d \in Devs \ Followers : pp[d] = param[d]
    OBVIOUS
  <2>1. LastSwitches
    BY DEF Unconditional, LastSwitches, Hosts
  <2>2. \A h \in Hosts : active[h] = (context[Top(h)] \in Enabling[h])
    BY <1>2, <2>1 DEF Inv, Hierarchical
  <2>3. ASSUME NEW h \in Hosts PROVE Enabling[h] = {} /\ active[h] = FALSE
    <3>1. Enabling[h] = {} /\ active[h] = (context[Top(h)] \in Enabling[h])
      BY <2>2 DEF Unconditional
    <3>2. (context[Top(h)] \in Enabling[h]) = FALSE
      BY <3>1
    <3> QED
      BY <3>1, <3>2
  <2>4. at = NTop + 1
    <3>1. \/ at = NTop /\ (value \in Enabling[NTop]) # active[NTop]
          \/ at = NTop + 1
      BY <1>2, <1>5, <2>1, <2>2, ChangeAtFacts DEF at, value
    <3>2. Enabling[NTop] = {} /\ active[NTop] = FALSE
      BY <1>6, <2>3 DEF Hosts
    <3>3. (value \in Enabling[NTop]) = FALSE
      BY <3>2
    <3>4. (value \in Enabling[NTop]) = active[NTop]
      BY <3>2, <3>3
    <3> QED
      BY <3>1, <3>4
  <2>5. ASSUME NEW h \in Hosts PROVE blocks[h] = active[h]
    <3>1. blocks[h] = (value \in Enabling[h]) /\ Enabling[h] = {} /\ active[h] = FALSE
      BY <1>15, <2>1, <2>3
    <3>2. (value \in Enabling[h]) = FALSE
      BY <3>1
    <3> QED
      BY <3>1, <3>2
  <2>6. rebuilt = {}
    BY <1>6, <2>4, <2>5 DEF rebuilt
  <2>7. kept = Devs
    BY <1>2, <1>5, <2>6, ExistingFacts DEF Inv, Grown, Unconditional, kept
  <2> QED
    BY <2>6, <2>7 DEF pp
<1>20. Aimed' /\ Optioned' /\ Restoring'
  <2>1. commons'.tolerances = commons.tolerances
    BY <1>1, <1>2, CommonsKeepTolerances
  <2>2. job'.caller = job.caller /\ (job.unknownsChanged => job'.unknownsChanged) /\ (job'.hierarchyChanged = (rebuilt # {}))
    BY <1>4
  <2>3. Unconditional => ~job'.hierarchyChanged /\ \A d \in Devs \ Followers : param'[d] = param[d]
    BY <1>1, <1>19, <2>2
  <2> QED
    BY <1>1, <1>2, <2>1, <2>2, <2>3, ElaborationKeepsAim
<1> QED
  BY <1>12, <1>13, <1>14, <1>16, <1>17, <1>18, <1>20 DEF Inv

LEMMA NothingToPropagateInv ==
  ASSUME Inv, NothingToPropagate
  PROVE  Inv'
<1>1. /\ pc = "propagate" /\ pc' = "setup" /\ flags \cap PropagateOn = {}
      /\ job' = [job EXCEPT !.todo = IF "Mapping" \in flags THEN built ELSE {}]
      /\ CommonsFromOptions
      /\ UNCHANGED <<net, variable, userOptions, options, flags, elaborated, context, active, built,
                     param, paramsChanged, needsSetup, history, collapsed, setupSaw, mapped,
                     unreported, steering, sweep>>
  BY DEF NothingToPropagate, hierarchy, setups, system
<1>2. /\ net \in Netlists /\ TypeOK /\ Usable /\ Elaborating /\ Elaborating' /\ net' = net
      /\ DOMAIN commons = {"name", "tolerances"} /\ ~elaborated
  BY <1>1 DEF Inv, Typed, Phased, Usable, Elaborating
<1>3. /\ job \in [caller : Callers, hierarchyChanged : BOOLEAN, unknownsChanged : BOOLEAN, rebuildsCores : BOOLEAN, todo : SUBSET built]
      /\ ~job.hierarchyChanged /\ ~job.unknownsChanged
  BY <1>1, <1>2 DEF Inv, Phased, TypeOK
<1>4. job' = [caller |-> job.caller, hierarchyChanged |-> job.hierarchyChanged,
              unknownsChanged |-> job.unknownsChanged, rebuildsCores |-> job.rebuildsCores,
              todo |-> IF "Mapping" \in flags THEN built ELSE {}]
  BY <1>1, <1>3
<1>5. TypeOK'
  <2>1. job' \in [caller : Callers, hierarchyChanged : BOOLEAN, unknownsChanged : BOOLEAN, rebuildsCores : BOOLEAN, todo : SUBSET built']
    BY <1>1, <1>3, <1>4
  <2> QED
    BY <1>1, <1>2, <2>1, NetStays DEF TypeOK
<1>6. Typed'
  <2>1. DOMAIN commons' = {"name", "tolerances"}
    BY <1>1, <1>2, CommonsKeepTolerances
  <2>2. Analysing' = Analysing
    BY <1>1, <1>4 DEF Analysing
  <2> QED
    BY <1>1, <1>2, <1>5, <2>1, <2>2, NetStays DEF Inv, Typed, SweepTyped
<1>7. Phased'
  BY <1>1, <1>2 DEF Phased, Elaborating
<1>8. Grown'
  BY <1>1, <1>2, NetStays DEF Inv, Grown, Existing
<1>9. Hierarchical'
  <2>1. ~ForcePropagation
    BY <1>1 DEF ForcePropagation, PropagateOn
  <2> QED
    BY <1>1, <1>2, <2>1, NetStays DEF Inv, Hierarchical, ForcePropagation, Top, ContextsCurrent
<1>10. Settled'
  <2> SUFFICES ASSUME ~FaultyAlter PROVE Settled'
    BY <1>1, NetStays DEF Settled
  <2>1. /\ needsSetup = {} /\ paramsChanged = {}
        /\ \A d \in built : setupSaw[d] # <<>> /\ setupSaw[d][1] = param[d]
        /\ "Mapping" \notin flags =>
             \A d \in built : setupSaw[d] # <<>> => setupSaw[d][2] = options["temp"]
    BY <1>1 DEF Inv, Settled
  <2>2. "Mapping" \notin flags => \A d \in built : SetUp(d)
    <3> SUFFICES ASSUME "Mapping" \notin flags, NEW d \in built PROVE SetUp(d)
      OBVIOUS
    <3>1. setupSaw[d] \in {<<>>} \cup (Vals \X Levels)
      BY <1>2 DEF TypeOK
    <3>2. setupSaw[d] \in Vals \X Levels /\ setupSaw[d][1] = param[d] /\ setupSaw[d][2] = options["temp"]
      BY <2>1, <3>1
    <3> QED
      BY <3>2 DEF SetUp
  <2>3. \A d \in built' \ job'.todo : SetUp(d)'
    BY <1>1, <1>4, <2>2 DEF SetUp
  <2> QED
    BY <1>1, <2>1, <2>3 DEF Settled
<1>11. Described'
  BY <1>1, <1>2, <1>4, NetStays DEF Inv, Described, MapsUnknowns
<1>12. Aimed' /\ Optioned' /\ Restoring'
  <2>1. commons'.tolerances = commons.tolerances
    BY <1>1, <1>2, CommonsKeepTolerances
  <2> QED
    BY <1>1, <1>2, <1>3, <1>4, <2>1, ElaborationKeepsAim
<1> QED
  BY <1>6, <1>7, <1>8, <1>9, <1>10, <1>11, <1>12 DEF Inv

-----------------------------------------------------------------------------
(* Circuit::setup() and the mapping                                        *)

LEMMA SetupInstanceInv ==
  ASSUME Inv, NEW d \in Devs, SetupInstance(d)
  PROVE  Inv'
<1> DEFINE short == Collapses(d, param[d], options)
<1>1. /\ pc = "setup" /\ pc' = pc /\ d \in job.todo
      /\ job' = [job EXCEPT !.todo = @ \ {d}, !.unknownsChanged = @ \/ UnknownsChangedBy(d)]
      /\ UNCHANGED <<net, variable, userOptions, options, flags, elaborated, context, active, built,
                     param, paramsChanged, mapped, unreported, steering, commons, sweep>>
  BY DEF SetupInstance, hierarchy, system
<1>2. IF RunsSetup(d)
      THEN /\ needsSetup' = needsSetup \ {d}
           /\ collapsed' = IF short THEN collapsed \cup {d} ELSE collapsed \ {d}
           /\ history' = history \cup ({d} \ Builtin)
           /\ setupSaw' = [setupSaw EXCEPT ![d] = <<param[d], options["temp"]>>]
      ELSE UNCHANGED <<needsSetup, history, collapsed, setupSaw>>
  BY DEF SetupInstance, setups
<1>3. /\ net \in Netlists /\ TypeOK /\ Usable /\ Elaborating /\ Elaborating' /\ net' = net
      /\ DOMAIN commons = {"name", "tolerances"} /\ ~elaborated
  BY <1>1 DEF Inv, Typed, Phased, Usable, Elaborating
<1>4. /\ job \in [caller : Callers, hierarchyChanged : BOOLEAN, unknownsChanged : BOOLEAN, rebuildsCores : BOOLEAN, todo : SUBSET built]
      /\ d \in built
  BY <1>1, <1>3 DEF TypeOK
<1>5. job' = [caller |-> job.caller, hierarchyChanged |-> job.hierarchyChanged,
              unknownsChanged |-> (job.unknownsChanged \/ UnknownsChangedBy(d)),
              rebuildsCores |-> job.rebuildsCores, todo |-> job.todo \ {d}]
  BY <1>1, <1>4
<1>6. /\ built \subseteq Devs /\ history \subseteq built \ Builtin /\ collapsed \subseteq history /\ needsSetup \subseteq built
      /\ setupSaw \in [Devs -> {<<>>} \cup (Vals \X Levels)] /\ param[d] \in Vals
      /\ options["temp"] \in Levels
  BY <1>3, NamesAreOptions, EvaluatedType DEF TypeOK
<1>7. short => d \notin Builtin /\ <<d, param[d], options["temp"]>> \in Shorted
  BY <1>3, NetFacts DEF Collapses
<1>8. ~short => <<d, param[d], options["temp"]>> \notin Shorted
  BY DEF Collapses
<1> HIDE DEF short
<1>9. TypeOK'
  <2>1. (job.unknownsChanged \/ UnknownsChangedBy(d)) \in BOOLEAN
    OBVIOUS
  <2>2. job' \in [caller : Callers, hierarchyChanged : BOOLEAN, unknownsChanged : BOOLEAN, rebuildsCores : BOOLEAN, todo : SUBSET built']
    BY <1>1, <1>4, <1>5, <2>1
  <2>3. /\ needsSetup' \subseteq built' /\ history' \subseteq built' \ Builtin' /\ collapsed' \subseteq history'
        /\ setupSaw' \in [Devs' -> {<<>>} \cup (Vals \X Levels)]
    BY <1>1, <1>2, <1>4, <1>6, <1>7, NetStays
  <2> QED
    BY <1>1, <1>3, <2>2, <2>3, NetStays DEF TypeOK
<1>10. Typed'
  <2>1. Analysing' = Analysing
    BY <1>1, <1>5 DEF Analysing
  <2> QED
    BY <1>1, <1>3, <1>9, <2>1, NetStays DEF Inv, Typed, SweepTyped
<1>11. Phased'
  BY <1>1, <1>3 DEF Phased, Elaborating
<1>12. Grown'
  BY <1>1, <1>3, NetStays DEF Inv, Grown, Existing
<1>13. Hierarchical'
  BY <1>1, <1>3, NetStays DEF Inv, Hierarchical, ForcePropagation, Top, ContextsCurrent
<1>14. Settled'
  <2> SUFFICES ASSUME ~FaultyAlter PROVE Settled'
    BY <1>1, NetStays DEF Settled
  <2>1. /\ \A e \in built \ (needsSetup \cup paramsChanged) : setupSaw[e] # <<>> /\ setupSaw[e][1] = param[e]
        /\ "Mapping" \notin flags =>
             \A e \in built \ needsSetup : setupSaw[e] # <<>> => setupSaw[e][2] = options["temp"]
        /\ needsSetup \cup paramsChanged # {} => flags \cap PropagateOn # {}
        /\ paramsChanged = {} /\ needsSetup \subseteq job.todo
        /\ \A e \in built \ job.todo : SetUp(e)
    BY <1>1 DEF Inv, Settled
  <2>2. \A e \in built \ {d} : setupSaw'[e] = setupSaw[e] /\ (e \in needsSetup' <=> e \in needsSetup)
    BY <1>2, <1>6
  <2>3. setupSaw'[d] = <<param[d], options["temp"]>> /\ d \notin needsSetup'
    <3>1. CASE RunsSetup(d)
      BY <1>2, <1>6, <3>1
    <3>2. CASE ~RunsSetup(d)
      <4>1. "Mapping" \notin flags /\ d \notin needsSetup /\ setupSaw' = setupSaw /\ needsSetup' = needsSetup
        BY <1>2, <3>2 DEF RunsSetup
      <4>2. setupSaw[d] \in Vals \X Levels /\ setupSaw[d][1] = param[d] /\ setupSaw[d][2] = options["temp"]
        BY <1>4, <1>6, <2>1, <4>1
      <4> QED
        BY <4>1, <4>2
    <3> QED
      BY <3>1, <3>2
  <2>4. <<param[d], options["temp"]>> # <<>> /\ <<param[d], options["temp"]>>[1] = param[d]
        /\ <<param[d], options["temp"]>>[2] = options["temp"]
    OBVIOUS
  <2>5. \A e \in built' \ (needsSetup' \cup paramsChanged') : setupSaw'[e] # <<>> /\ setupSaw'[e][1] = param'[e]
    BY <1>1, <2>1, <2>2, <2>3, <2>4
  <2>6. "Mapping" \notin flags' =>
          \A e \in built' \ needsSetup' : setupSaw'[e] # <<>> => setupSaw'[e][2] = options'["temp"]
    BY <1>1, <2>1, <2>2, <2>3, <2>4
  <2>7. needsSetup' \cup paramsChanged' # {} => flags' \cap PropagateOn # {}
    BY <1>1, <1>2, <2>1
  <2>8. needsSetup' \subseteq job'.todo
    BY <1>2, <1>5, <2>1, <2>3
  <2>9. \A e \in built' \ job'.todo : SetUp(e)'
    BY <1>1, <1>5, <2>1, <2>2, <2>3 DEF SetUp
  <2> QED
    BY <1>1, <2>1, <2>5, <2>6, <2>7, <2>8, <2>9 DEF Settled
<1>15. Described'
  <2>1. /\ history = {e \in built \ Builtin : setupSaw[e] # <<>>}
        /\ collapsed = {e \in history : <<e, setupSaw[e][1], setupSaw[e][2]>> \in Shorted}
        /\ ~unreported /\ ~MapsUnknowns => mapped = [built |-> built, collapsed |-> collapsed]
    BY DEF Inv, Described
  <2>2. history' = {e \in built' \ Builtin' : setupSaw'[e] # <<>>}
    BY <1>1, <1>2, <1>4, <1>6, <2>1, NetStays
  <2>3. collapsed' = {e \in history' : <<e, setupSaw'[e][1], setupSaw'[e][2]>> \in Shorted'}
    <3>1. CASE RunsSetup(d)
      <4>1. setupSaw'[d] = <<param[d], options["temp"]>> /\ \A e \in built \ {d} : setupSaw'[e] = setupSaw[e]
        BY <1>2, <1>6, <3>1
      <4>2. <<d, setupSaw'[d][1], setupSaw'[d][2]>> \in Shorted <=> short
        BY <1>7, <1>8, <4>1
      <4>3. \A e \in built \ {d} : e \in history' <=> e \in history
        BY <1>2, <3>1
      <4>4. \A e \in collapsed' : e \in history' /\ <<e, setupSaw'[e][1], setupSaw'[e][2]>> \in Shorted
        BY <1>2, <1>6, <1>7, <2>1, <3>1, <4>1, <4>2
      <4>5. \A e \in history' : <<e, setupSaw'[e][1], setupSaw'[e][2]>> \in Shorted => e \in collapsed'
        BY <1>2, <1>4, <1>6, <2>1, <3>1, <4>1, <4>2, <4>3
      <4> QED
        BY <1>3, <4>4, <4>5, NetStays
    <3>2. CASE ~RunsSetup(d)
      BY <1>2, <1>3, <2>1, <3>2, NetStays
    <3> QED
      BY <3>1, <3>2
  <2>4. ASSUME ~unreported', ~MapsUnknowns' PROVE mapped' = [built |-> built', collapsed |-> collapsed']
    <3>1. ~MapsUnknowns /\ ~UnknownsChangedBy(d)
      BY <1>5, <2>4 DEF MapsUnknowns
    <3>2. CASE RunsSetup(d) /\ d \in Builtin
      <4>1. ~short /\ d \notin collapsed
        BY <1>6, <1>7, <3>2
      <4>2. collapsed' = collapsed
        BY <1>2, <3>2, <4>1
      <4> QED
        BY <1>1, <2>1, <2>4, <3>1, <4>2
    <3>3. CASE RunsSetup(d) /\ d \notin Builtin
      <4>1. (d \in collapsed) <=> short
        BY <3>1, <3>3 DEF UnknownsChangedBy, short
      <4>2. collapsed' = collapsed
        BY <1>2, <3>3, <4>1
      <4> QED
        BY <1>1, <2>1, <2>4, <3>1, <4>2
    <3>4. CASE ~RunsSetup(d)
      BY <1>1, <1>2, <2>1, <2>4, <3>1, <3>4
    <3> QED
      BY <3>2, <3>3, <3>4
  <2> QED
    BY <1>1, <2>2, <2>3, <2>4 DEF Described
<1>16. Aimed' /\ Optioned' /\ Restoring'
  <2>1. Unconditional => ~job.hierarchyChanged
    BY DEF Inv, Aimed
  <2> QED
    BY <1>1, <1>3, <1>5, <2>1, ElaborationKeepsAim
<1> QED
  BY <1>10, <1>11, <1>12, <1>13, <1>14, <1>15, <1>16 DEF Inv

LEMMA SetupFailsInv ==
  ASSUME Inv, NEW d \in Devs, SetupFails(d)
  PROVE  Inv'
<1>1. /\ pc = "setup" /\ job' = NoJob
      /\ pc' = (IF job.caller = "point" THEN "failed" ELSE "idle")
      /\ IF job.caller = "finish" THEN sweep' = NoSweep /\ commons' = NoCommons
                                  ELSE UNCHANGED <<sweep, commons>>
      /\ unreported' = (unreported \/ MapsUnknowns)
      /\ UNCHANGED <<net, variable, userOptions, options, flags, elaborated, context, active, built,
                     param, paramsChanged, needsSetup, history, collapsed, setupSaw, mapped, steering>>
  BY DEF SetupFails, hierarchy, setups
<1>2. net \in Netlists /\ TypeOK /\ Usable /\ ~elaborated /\ net' = net /\ ~MapsUnknowns'
  BY <1>1 DEF Inv, Typed, Phased, Usable, Elaborating, MapsUnknowns, NoJob
<1>3. TypeOK'
  <2>1. job' \in [caller : Callers, hierarchyChanged : BOOLEAN, unknownsChanged : BOOLEAN, rebuildsCores : BOOLEAN, todo : SUBSET built']
    BY <1>1 DEF NoJob, Callers
  <2>2. unreported' \in BOOLEAN /\ pc' \in {"idle", "failed"}
    BY <1>1 DEF MapsUnknowns
  <2> QED
    BY <1>1, <1>2, <2>1, <2>2, NetStays DEF TypeOK
<1>4. Typed'
  <2>1. CASE job.caller = "point"
    <3>1. Analysing /\ Analysing' /\ sweep' = sweep /\ commons' = commons
      BY <1>1, <2>1 DEF Analysing
    <3> QED
      BY <1>2, <1>3, <3>1, NetStays DEF Inv, Typed, SweepTyped
  <2>2. CASE job.caller = "finish"
    <3>1. ~Analysing' /\ sweep' = NoSweep /\ DOMAIN commons' = {"name", "tolerances"}
      BY <1>1, <2>2 DEF Analysing, NoJob, NoCommons
    <3> QED
      BY <1>2, <1>3, <3>1 DEF Typed
  <2>3. CASE job.caller \notin {"point", "finish"}
    <3>1. ~Analysing /\ ~Analysing' /\ sweep' = sweep /\ commons' = commons
      BY <1>1, <2>3 DEF Analysing, NoJob
    <3> QED
      BY <1>2, <1>3, <3>1 DEF Inv, Typed
  <2> QED
    BY <2>1, <2>2, <2>3
<1>5. Phased'
  BY <1>1, <1>2 DEF Phased, Elaborating
<1>6. Grown'
  BY <1>1, <1>2, NetStays DEF Inv, Grown, Existing
<1>7. Hierarchical'
  BY <1>1, <1>2, NetStays DEF Inv, Hierarchical, Usable, ForcePropagation, Top, ContextsCurrent
<1>8. Settled'
  BY <1>1, <1>2, NetStays DEF Inv, Settled
<1>9. Described'
  BY <1>1, <1>2, NetStays DEF Inv, Described
<1>10. ~ForPoint' /\ ~job'.hierarchyChanged /\ job'.caller # "finish"
  BY <1>1 DEF ForPoint, NoJob
<1>11. Aimed'
  <2>1. pc' # "sweep" /\ pc' # "core"
    BY <1>1
  <2> QED
    BY <1>10, <2>1 DEF Aimed, ForPoint
<1>13. Optioned'
  <2>1. ~OfUser' /\ pc' # "sweep" /\ pc' # "core"
    BY <1>1 DEF OfUser, Elaborating
  <2>2. CASE job.caller = "point"
    <3>1. Analysing /\ sweep' = sweep /\ userOptions' = userOptions
      BY <1>1, <2>2 DEF Analysing
    <3> QED
      BY <1>10, <2>1, <3>1 DEF Inv, Optioned
  <2>3. CASE job.caller # "point"
    <3>1. ~Analysing'
      BY <1>1, <2>3 DEF Analysing, NoJob
    <3> QED
      BY <2>1, <3>1 DEF Optioned
  <2> QED
    BY <2>2, <2>3
<1>12. Restoring'
  <2>1. CASE job.caller = "point"
    <3>1. Analysing /\ sweep' = sweep
      BY <1>1, <2>1 DEF Analysing
    <3> QED
      BY <1>1, <1>2, <1>10, <3>1, NetStays DEF Inv, Restoring, InputsComeBack, DevicesComeBack, ComesBack,
         Unswept, Evaluated
  <2>2. CASE job.caller # "point"
    <3>1. ~Analysing'
      BY <1>1, <2>2 DEF Analysing, NoJob
    <3> QED
      BY <3>1 DEF Restoring
  <2> QED
    BY <2>1, <2>2
<1> QED
  BY <1>4, <1>5, <1>6, <1>7, <1>8, <1>9, <1>11, <1>12, <1>13 DEF Inv

LEMMA MapUnknownsInv ==
  ASSUME Inv, NEW needs \in BOOLEAN, MapUnknowns(needs)
  PROVE  Inv'
<1>1. /\ pc = "setup" /\ pc' = "tolerances" /\ job.todo = {}
      /\ mapped' = (IF MapsUnknowns THEN [built |-> built, collapsed |-> collapsed] ELSE mapped)
      /\ unreported' = (unreported /\ ~MapsUnknowns)
      /\ job' = [job EXCEPT !.rebuildsCores = @ \/ MapsUnknowns \/ needs]
      /\ UNCHANGED <<net, variable, userOptions, options, flags, elaborated, context, active, built,
                     param, paramsChanged, needsSetup, history, collapsed, setupSaw, commons, sweep>>
  BY DEF MapUnknowns, SystemOf, hierarchy, setups
<1>2. /\ net \in Netlists /\ TypeOK /\ Usable /\ ~elaborated /\ net' = net
      /\ Elaborating /\ Elaborating'
  BY <1>1 DEF Inv, Typed, Phased, Usable, Elaborating
<1>3. job \in [caller : Callers, hierarchyChanged : BOOLEAN, unknownsChanged : BOOLEAN,
               rebuildsCores : BOOLEAN, todo : SUBSET built]
  BY <1>2 DEF TypeOK
<1>4. /\ job'.caller = job.caller /\ job'.hierarchyChanged = job.hierarchyChanged
      /\ job'.unknownsChanged = job.unknownsChanged /\ job'.todo = job.todo
      /\ job'.rebuildsCores = (job.rebuildsCores \/ MapsUnknowns \/ needs)
      /\ job' \in [caller : Callers, hierarchyChanged : BOOLEAN, unknownsChanged : BOOLEAN,
                   rebuildsCores : BOOLEAN, todo : SUBSET built']
  <2>1. (job.rebuildsCores \/ MapsUnknowns \/ needs) \in BOOLEAN
    OBVIOUS
  <2> QED
    BY <1>1, <1>3, <2>1
<1>5. TypeOK'
  <2>1. mapped' \in [built : SUBSET Devs', collapsed : SUBSET Devs'] /\ unreported' \in BOOLEAN
    BY <1>1, <1>2, NetStays DEF TypeOK, MapsUnknowns
  <2> QED
    BY <1>1, <1>2, <1>4, <2>1, NetStays DEF TypeOK
<1>6. Typed'
  <2>1. Analysing' = Analysing
    BY <1>1, <1>4 DEF Analysing
  <2> QED
    BY <1>1, <1>2, <1>5, <2>1, NetStays DEF Inv, Typed, SweepTyped
<1>7. Phased'
  BY <1>1, <1>2 DEF Phased, Elaborating
<1>8. Grown'
  BY <1>1, <1>2, NetStays DEF Inv, Grown, Existing
<1>9. Hierarchical'
  BY <1>1, <1>2, NetStays DEF Inv, Hierarchical, Usable, ForcePropagation, Top, ContextsCurrent
<1>10. Settled'
  BY <1>1, <1>2, <1>4, NetStays DEF Inv, Settled, SetUp
<1>11. Described'
  BY <1>1, <1>2, NetStays DEF Inv, Described
<1>12. Aimed' /\ Optioned' /\ Restoring'
  <2>1. Unconditional => ~job.hierarchyChanged
    BY DEF Inv, Aimed
  <2>2. mapped' = mapped \/ (job'.rebuildsCores /\ (Unconditional => BuildsTolerances'))
    BY <1>1, <1>4, <2>1 DEF BuildsTolerances, MapsUnknowns
  <2>3. Unconditional => ~job'.hierarchyChanged /\ \A d \in Devs \ Followers : param'[d] = param[d]
    BY <1>1, <1>4, <2>1
  <2>4. commons'.tolerances = commons.tolerances
    BY <1>1
  <2> QED
    BY <1>1, <1>2, <1>4, <2>2, <2>3, <2>4, ElaborationKeepsAim
<1> QED
  BY <1>6, <1>7, <1>8, <1>9, <1>10, <1>11, <1>12 DEF Inv

LEMMA FinishElaborateChangesInv ==
  ASSUME Inv, FinishElaborateChanges
  PROVE  Inv'
<1>1. /\ pc = "tolerances" /\ flags' = {} /\ elaborated' = TRUE /\ job' = NoJob
      /\ UNCHANGED <<net, variable, userOptions, options, context, active, built,
                     param, paramsChanged, needsSetup, history, collapsed, setupSaw, mapped, unreported>>
  BY DEF FinishElaborateChanges, hierarchy, setups, system
<1>2. /\ net \in Netlists /\ TypeOK /\ Usable /\ net' = net /\ ~MapsUnknowns' /\ ~ForcePropagation'
      /\ DOMAIN commons = {"name", "tolerances"} /\ job.caller \in Callers
  BY <1>1 DEF Inv, Typed, Phased, Usable, Elaborating, MapsUnknowns, NoJob, ForcePropagation, TypeOK
<1>3. /\ job.caller = "commands" => pc' = "ready" /\ sweep' = sweep /\ commons' = commons
      /\ job.caller = "finish" => pc' = "idle" /\ sweep' = NoSweep /\ commons' = NoCommons
      /\ job.caller = "point" =>
           /\ pc' = "core"
           /\ sweep' = IF sweep.core = <<>> \/ job.rebuildsCores
                       THEN [sweep EXCEPT !.core = CoreFor] ELSE sweep
           /\ commons' = IF BuildsTolerances
                         THEN [commons EXCEPT !.tolerances = StaticTolerances(mapped, options)]
                         ELSE commons
  BY DEF FinishElaborateChanges
<1>4. job.caller \in {"commands", "finish", "point"} /\ pc' \in {"ready", "idle", "core"}
  BY <1>2, <1>3 DEF Callers
<1>14. ASSUME job.caller = "point"
       PROVE  /\ Analysing /\ SweepTyped /\ ForPoint
              /\ DOMAIN sweep' = DOMAIN sweep /\ sweep'.targets = sweep.targets /\ sweep'.aim = sweep.aim
              /\ sweep'.own = sweep.own /\ sweep'.options = sweep.options
              /\ sweep'.parameter = sweep.parameter /\ sweep'.before = sweep.before
              /\ sweep.core = <<>> \/ job.rebuildsCores => sweep'.core = CoreFor
              /\ ~(sweep.core = <<>> \/ job.rebuildsCores) => sweep'.core = sweep.core
  <2>1. Analysing /\ ForPoint
    BY <1>14 DEF Analysing, ForPoint
  <2>2. SweepTyped
    BY <2>1 DEF Inv, Typed
  <2> QED
    BY <1>3, <1>14, <2>1, <2>2 DEF SweepTyped
<1>5. TypeOK'
  BY <1>1, <1>2, <1>4, NetStays DEF TypeOK, NoJob, Callers
<1>6. Typed'
  <2>1. CASE job.caller = "point"
    <3>1. Analysing' /\ DOMAIN commons' = {"name", "tolerances"}
      BY <1>2, <1>3, <2>1 DEF Analysing
    <3>2. SweepTyped'
      BY <1>2, <1>14, <2>1, NetStays DEF SweepTyped
    <3> QED
      BY <1>2, <1>5, <3>1, <3>2 DEF Inv, Typed
  <2>2. CASE job.caller = "finish"
    <3>1. ~Analysing' /\ sweep' = NoSweep /\ DOMAIN commons' = {"name", "tolerances"}
      BY <1>1, <1>3, <2>2 DEF Analysing, NoJob, NoCommons
    <3> QED
      BY <1>2, <1>5, <3>1 DEF Typed
  <2>3. CASE job.caller = "commands"
    <3>1. ~Analysing /\ ~Analysing' /\ sweep' = sweep /\ commons' = commons
      BY <1>1, <1>3, <2>3 DEF Analysing, NoJob
    <3> QED
      BY <1>2, <1>5, <3>1 DEF Inv, Typed
  <2> QED
    BY <1>4, <2>1, <2>2, <2>3
<1>7. Phased'
  BY <1>1, <1>4 DEF Phased, Elaborating
<1>8. Grown'
  BY <1>1, <1>2, NetStays DEF Inv, Grown, Existing
<1>9. Hierarchical'
  <2>1. LastSwitches => ContextsCurrent
    BY <1>1, <1>2 DEF Inv, Hierarchical
  <2> QED
    BY <1>1, <1>2, <2>1, NetStays DEF Inv, Hierarchical, Top, ContextsCurrent
<1>10. Settled'
  <2> SUFFICES ASSUME ~FaultyAlter PROVE Settled'
    BY <1>2, NetStays DEF Settled
  <2>1. paramsChanged = {} /\ needsSetup = {} /\ \A d \in built : SetUp(d)
    BY <1>1 DEF Inv, Settled
  <2>2. ASSUME NEW d \in built
        PROVE  setupSaw[d] # <<>> /\ setupSaw[d][1] = param[d] /\ setupSaw[d][2] = options["temp"]
    BY <2>1 DEF SetUp
  <2>3. pc' \notin {"setup", "tolerances"}
    BY <1>4
  <2> QED
    BY <1>1, <2>1, <2>2, <2>3 DEF Settled
<1>11. Described'
  BY <1>1, <1>2, NetStays DEF Inv, Described
<1>12. Aimed'
  <2>1. ~job'.hierarchyChanged /\ job'.caller = "commands"
    BY <1>1 DEF NoJob
  <2>2. CASE job.caller # "point"
    <3>1. pc' # "core" /\ pc' # "sweep"
      BY <1>3, <1>4, <2>2
    <3> QED
      BY <2>1, <3>1 DEF Aimed, ForPoint
  <2>3. CASE job.caller = "point"
    <3>1. pc' = "core"
      BY <1>3, <2>3
    <3>2. SweptValueInForce'
      <4>1. SweptValueInForce
        BY <1>14, <2>3 DEF Inv, Aimed
      <4> QED
        BY <1>1, <1>2, <1>14, <2>3, <4>1, NetStays DEF SweptValueInForce, Current
    <3>3. ASSUME Unconditional, TolscaleStays
          PROVE  options["tolscale"] = sweep.before.options["tolscale"] /\ TolerancesCurrent'
      <4>1. options["tolscale"] = sweep.before.options["tolscale"] /\ (~BuildsTolerances => TolerancesCurrent)
        BY <1>14, <2>3, <3>3 DEF Inv, Aimed
      <4>2. CASE BuildsTolerances
        BY <1>1, <1>2, <1>3, <2>3, <4>1, <4>2 DEF TolerancesCurrent, StaticTolerances
      <4>3. CASE ~BuildsTolerances
        BY <1>1, <1>3, <2>3, <4>1, <4>3 DEF TolerancesCurrent, StaticTolerances
      <4> QED
        BY <4>1, <4>2, <4>3
    <3>4. TolscaleStays' = TolscaleStays
      BY <1>14, <2>3 DEF TolscaleStays, OptionsAtStart, OptionsAt
    <3>5. Unconditional' = Unconditional
      BY <1>2, NetStays
    <3> QED
      BY <1>1, <1>14, <2>1, <2>3, <3>1, <3>2, <3>3, <3>4, <3>5 DEF Aimed
  <2> QED
    BY <2>2, <2>3
<1>15. Optioned'
  <2>1. CASE job.caller = "commands"
    <3>1. OfUser /\ ~Analysing'
      BY <1>1, <1>3, <2>1 DEF OfUser, Elaborating, Analysing, NoJob
    <3> QED
      BY <1>1, <3>1 DEF Inv, Optioned, OptionsOfUser
  <2>2. CASE job.caller = "finish"
    <3>1. ~OfUser' /\ ~Analysing'
      BY <1>1, <1>3, <2>2 DEF OfUser, Elaborating, Analysing, NoJob
    <3> QED
      BY <3>1 DEF Optioned
  <2>3. CASE job.caller = "point"
    <3>1. ~OfUser'
      BY <1>3, <2>3 DEF OfUser, Elaborating
    <3>2. /\ sweep.own = userOptions =>
               \A o \in DOMAIN sweep.own.computed :
                 sweep.own.computed[o][sweep.before.variable] = sweep.before.options[o]
          /\ sweep.parameter = variable /\ options = sweep.options
          /\ \A o \in OptionNames \ sweep.targets : sweep.options[o] = OptionsAt(variable)[o]
          /\ sweep.core = <<>> \/ job.rebuildsCores \/ sweep.core = CoreFor
      BY <1>14, <2>3 DEF Inv, Optioned
    <3>3. OptionsAt(variable)' = OptionsAt(variable) /\ CoreFor' = CoreFor
      BY <1>1, <1>14, <2>3 DEF OptionsAt, CoreFor
    <3>4. sweep'.core = CoreFor'
      BY <1>14, <2>3, <3>2, <3>3
    <3> QED
      BY <1>1, <1>14, <2>3, <3>1, <3>2, <3>3, <3>4 DEF Optioned
  <2> QED
    BY <1>4, <2>1, <2>2, <2>3
<1>13. Restoring'
  <2>1. CASE job.caller # "point"
    <3>1. ~Analysing'
      BY <1>1, <1>3, <1>4, <2>1 DEF Analysing, NoJob
    <3> QED
      BY <3>1 DEF Restoring
  <2>2. CASE job.caller = "point"
    <3>1. job'.caller = "commands"
      BY <1>1 DEF NoJob
    <3>2. InputsComeBack /\ (Unconditional => DevicesComeBack)
      BY <1>14, <2>2 DEF Inv, Restoring
    <3>3. InputsComeBack'
      BY <1>1, <1>14, <2>2, <3>1, <3>2 DEF InputsComeBack
    <3>4. DevicesComeBack => DevicesComeBack'
      BY <1>1, <1>2, <1>14, <2>2, <3>1, NetStays DEF DevicesComeBack, Unswept, Evaluated
    <3>5. Unconditional' = Unconditional
      BY <1>2, NetStays
    <3> QED
      BY <3>2, <3>3, <3>4, <3>5 DEF Restoring
  <2> QED
    BY <2>1, <2>2
<1> QED
  BY <1>6, <1>7, <1>8, <1>9, <1>10, <1>11, <1>12, <1>13, <1>15 DEF Inv

-----------------------------------------------------------------------------
(* Every step, and what follows                                            *)

LEMMA StepInv == Inv /\ [Next]_vars => Inv'
<1> SUFFICES ASSUME Inv, [Next]_vars PROVE Inv'
  OBVIOUS
<1>1. ASSUME NEW x \in Vals, SetVariable(x) PROVE Inv'
  BY <1>1, SetVariableInv
<1>2. ASSUME NEW map \in UserOptions, SetUserOptions(map) PROVE Inv'
  BY <1>2, SetUserOptionsInv
<1>3. ASSUME NEW d \in Devs, NEW x \in Vals, Alter(d, x, TRUE) PROVE Inv'
  BY <1>3, AlterInv
<1>4. ASSUME FaultyAlter, NEW d \in Devs, NEW x \in Vals, Alter(d, x, FALSE) PROVE Inv'
  BY <1>4, AlterInv
<1>5. ASSUME NEW d \in Devs, SetupInstance(d) \/ SetupFails(d) PROVE Inv'
  BY <1>5, SetupInstanceInv, SetupFailsInv
<1>6. ASSUME NEW needs \in BOOLEAN, MapUnknowns(needs) PROVE Inv'
  BY <1>6, MapUnknownsInv
<1>7. ASSUME NEW T \in Targets, NEW own \in {userOptions} \cup OwnOptions, StartAnalysis(T, own) PROVE Inv'
  BY <1>7, StartAnalysisInv
<1>8. ASSUME NEW a \in Aims(sweep.targets), SweepPoint(a) PROVE Inv'
  BY <1>8, SweepPointInv
<1>9. CASE ElaborateCircuit \/ ElaborateChanges \/ NextCommand
  BY <1>9, ElaborateCircuitInv, ElaborateChangesInv, NextCommandInv
<1>10. CASE PropagateDownHierarchy \/ NothingToPropagate \/ FinishElaborateChanges
  BY <1>10, PropagateInv, NothingToPropagateInv, FinishElaborateChangesInv
<1>11. CASE RunCore \/ CoreFails \/ AbandonAnalysis \/ StopAnalysis
  BY <1>11, CoreInv
<1>12. CASE FinishAnalysis
  BY <1>12, FinishAnalysisInv
<1>13. CASE UNCHANGED vars
  <2>1. /\ TypeOK' /\ sweep' = sweep /\ commons' = commons /\ pc' = pc /\ net' = net
        /\ SystemStays
    BY <1>13, NetStays DEF vars, Inv, Typed, TypeOK, SystemStays
  <2>2. Typed' /\ Phased'
    BY <2>1, NetStays DEF Inv, Typed, Phased, Analysing, SweepTyped, SystemStays, Elaborating
  <2>3. Grown' /\ Hierarchical'
    BY <2>1, NetStays DEF Inv, Grown, Hierarchical, Usable, Existing, SystemStays, ForcePropagation, Top, ContextsCurrent
  <2>4. Settled' /\ Described'
    BY <2>1, NetStays DEF Inv, Settled, SetUp, Described, SystemStays, MapsUnknowns
  <2>5. Aimed'
    BY <2>1, NetStays DEF Inv, Aimed, ForPoint, SystemStays, TolscaleStays, TolerancesCurrent,
       StaticTolerances, BuildsTolerances, Analysing, SweptValueInForce, Current, OptionsAtStart,
       OptionsAt
  <2>6. Restoring'
    BY <2>1, NetStays DEF Inv, Restoring, InputsComeBack, DevicesComeBack, ComesBack, Analysing,
       SystemStays, Unswept, Evaluated
  <2>7. Optioned'
    BY <2>1 DEF Inv, Optioned, OfUser, ForPoint, Elaborating, Analysing, SystemStays, OptionsOfUser,
       OptionsAt, CoreFor
  <2> QED
    BY <2>2, <2>3, <2>4, <2>5, <2>6, <2>7 DEF Inv
<1> QED
  BY <1>1, <1>2, <1>3, <1>4, <1>5, <1>6, <1>7, <1>8, <1>9, <1>10, <1>11, <1>12, <1>13 DEF Next

\* The invariant holds in every state.
THEOREM InvHolds == Spec => []Inv
  BY InitInv, StepInv, PTL DEF Spec

\* The variables keep their types whatever a script does. This rests on what a
\* sweep may target: an instance that always exists, whatever blocks are built.
THEOREM TypeCorrect == Spec => []TypeOK
<1>1. Inv => TypeOK
  BY DEF Inv, Typed
<1> QED
  BY <1>1, InvHolds, PTL

LEMMA InvGivesCurrent == Inv => CircuitIsCurrent
<1> SUFFICES ASSUME Inv, elaborated, flags = {}, ~FaultyAlter, LastSwitches
             PROVE  HierarchyCurrent /\ SetupCurrent /\ (~unreported => MappingCurrent)
  BY DEF CircuitIsCurrent, NeedsElaboration
<1>1. net \in Netlists /\ TypeOK /\ Usable /\ job = NoJob /\ pc \notin {"setup", "tolerances"}
  BY DEF Inv, Typed, Usable, Phased, Elaborating
<1>2. ContextsCurrent
  <2>1. ~ForcePropagation
    BY DEF ForcePropagation
  <2> QED
    BY <1>1, <2>1 DEF Inv, Hierarchical
<1>3. HierarchyCurrent
  <2>1. /\ built = Existing(active) /\ built \subseteq Devs
        /\ \A h \in Hosts : active[h] = (context[Top(h)] \in Enabling[h])
        /\ \A d \in built \cap Followers : param[d] = context[Top(HostOf[d])]
    BY <1>1 DEF Inv, Grown, Hierarchical, TypeOK
  <2>2. \A h \in Hosts : context[Top(h)] = Evaluated(variable, options)
    BY <1>1, <1>2, TopIsToplevel DEF ContextsCurrent
  <2>3. \A d \in Devs : HostOf[d] \in Hosts
    BY <1>1, NetFacts
  <2>4. \A h \in Hosts : active[h] = (Evaluated(variable, options) \in Enabling[h])
    BY <2>1, <2>2
  <2>5. \A d \in built \cap Followers : param[d] = Evaluated(variable, options)
    BY <2>1, <2>2, <2>3
  <2> QED
    BY <1>2, <2>1, <2>4, <2>5 DEF HierarchyCurrent, ContextsCurrent
<1>4. needsSetup = {} /\ paramsChanged = {}
  BY DEF Inv, Settled
<1>5. ASSUME NEW d \in built
      PROVE  setupSaw[d] = <<param[d], options["temp"]>> /\ setupSaw[d] # <<>>
  <2>1. setupSaw[d] # <<>> /\ setupSaw[d][1] = param[d] /\ setupSaw[d][2] = options["temp"]
    BY <1>4 DEF Inv, Settled
  <2>2. setupSaw[d] \in {<<>>} \cup (Vals \X Levels)
    BY <1>1 DEF TypeOK
  <2> QED
    BY <2>1, <2>2
<1>6. SetupCurrent
  BY <1>5 DEF SetupCurrent
<1>7. ASSUME ~unreported PROVE MappingCurrent
  <2>1. mapped = [built |-> built, collapsed |-> collapsed]
    BY <1>1, <1>7 DEF Inv, Described, MapsUnknowns, NoJob
  <2>2. history = built \ Builtin
    BY <1>5 DEF Inv, Described
  <2>3. \A d \in built \ Builtin : d \in collapsed <=> <<d, param[d], options["temp"]>> \in Shorted
    BY <1>5, <2>2 DEF Inv, Described
  <2>4. \A d \in Builtin : <<d, param[d], options["temp"]>> \notin Shorted
    BY <1>1, NetFacts
  <2>5. collapsed \subseteq built \ Builtin
    BY <2>2 DEF Inv, Described
  <2>6. collapsed = {d \in built : Collapses(d, param[d], options)}
    BY <2>3, <2>4, <2>5 DEF Collapses
  <2> QED
    BY <2>1, <2>6 DEF MappingCurrent
<1> QED
  BY <1>3, <1>6, <1>7

\* Whenever the circuit claims to need no elaboration, the layers derived from
\* its inputs are those the inputs ask for, whatever commands, sweeps, failures
\* and stops came before (elaborateChanges, propagateDownHierarchy, setup).
THEOREM NothingStaleIsUsed == Spec => []CircuitIsCurrent
  BY InvHolds, InvGivesCurrent, PTL

\* A core works with the swept variables and options of its sweep point, with the
\* options of its analysis at that point, and with what was built for its unknowns
\* and its variable; without conditional blocks also with the swept parameters and,
\* while tolscale stays, with tolerances that belong to the present unknowns and
\* options (Analysis::coroutine, elaborateChanges, updateParameterExpressions).
THEOREM CoresSeeTheirPoint == Spec => []CoreSeesThePoint
<1>1. Inv => CoreSeesThePoint
  <2> SUFFICES ASSUME Inv, pc = "core"
               PROVE  /\ SweptValueInForce /\ OptionsInForce /\ CoresCurrent
                      /\ Unconditional /\ TolscaleStays => TolerancesCurrent
    BY DEF CoreSeesThePoint
  <2>1. ForPoint /\ Analysing
    BY DEF ForPoint, Analysing
  <2>2. SweptValueInForce /\ (Unconditional /\ TolscaleStays => TolerancesCurrent)
    BY <2>1 DEF Inv, Aimed
  <2>3. OptionsInForce /\ CoresCurrent
    BY <2>1 DEF Inv, Optioned, OptionsInForce, CoresCurrent, CoreFor
  <2> QED
    BY <2>2, <2>3
<1> QED
  BY <1>1, InvHolds, PTL

\* Only the end of a restoring elaboration ends a swept analysis in an
\* elaborated circuit, apart from a core that stops it.
LEMMA EndOfSweep ==
  ASSUME Inv, Next, pc # "core", sweep.targets # {}, sweep' = NoSweep, elaborated'
  PROVE  FinishElaborateChanges /\ job.caller = "finish"
<1>1. sweep' # sweep
  BY DEF NoSweep
<1>2. ASSUME NEW x \in Vals, SetVariable(x) PROVE FALSE
  BY <1>1, <1>2 DEF SetVariable
<1>3. ASSUME NEW map \in UserOptions, SetUserOptions(map) PROVE FALSE
  BY <1>1, <1>3 DEF SetUserOptions
<1>4. ASSUME NEW d \in Devs, NEW x \in Vals, NEW complete \in BOOLEAN, Alter(d, x, complete) PROVE FALSE
  BY <1>1, <1>4 DEF Alter
<1>5. ASSUME NEW d \in Devs, SetupInstance(d) PROVE FALSE
  BY <1>1, <1>5 DEF SetupInstance
<1>6. ASSUME NEW d \in Devs, SetupFails(d) PROVE FALSE
  BY <1>6 DEF SetupFails, Inv, Phased, Elaborating
<1>7. ASSUME NEW needs \in BOOLEAN, MapUnknowns(needs) PROVE FALSE
  BY <1>1, <1>7 DEF MapUnknowns
<1>8. ASSUME NEW T \in Targets, NEW own \in {userOptions} \cup OwnOptions, StartAnalysis(T, own) PROVE FALSE
  <2>1. sweep = NoSweep
    BY <1>8, IdleFacts DEF StartAnalysis, Inv
  <2> QED
    BY <2>1 DEF NoSweep
<1>9. ASSUME NEW a \in Aims(sweep.targets), SweepPoint(a) PROVE FALSE
  BY <1>9 DEF SweepPoint, BeginElaborateChanges
<1>10. CASE ElaborateCircuit \/ ElaborateChanges \/ NextCommand
  BY <1>1, <1>10 DEF ElaborateCircuit, ElaborateChanges, NextCommand
<1>11. CASE PropagateDownHierarchy \/ NothingToPropagate
  BY <1>1, <1>11 DEF PropagateDownHierarchy, NothingToPropagate
<1>12. CASE FinishElaborateChanges
  <2>1. job.caller \in Callers
    BY DEF Inv, Typed, TypeOK
  <2>2. CASE job.caller = "commands"
    BY <1>1, <1>12, <2>2 DEF FinishElaborateChanges
  <2>3. CASE job.caller = "point"
    <3>1. Analysing
      BY <2>3 DEF Analysing
    <3>2. SweepTyped
      BY <3>1 DEF Inv, Typed
    <3>3. sweep'.targets = sweep.targets
      BY <1>12, <2>3, <3>2 DEF FinishElaborateChanges, SweepTyped
    <3> QED
      BY <3>3 DEF NoSweep
  <2> QED
    BY <1>12, <2>1, <2>2, <2>3 DEF Callers
<1>13. CASE RunCore \/ CoreFails \/ StopAnalysis
  BY <1>13 DEF RunCore, CoreFails, StopAnalysis
<1>14. CASE FinishAnalysis
  BY <1>14 DEF FinishAnalysis, BeginElaborateChanges
<1>15. CASE AbandonAnalysis
  BY <1>15 DEF AbandonAnalysis
<1> QED
  BY <1>2, <1>3, <1>4, <1>5, <1>6, <1>7, <1>8, <1>9, <1>10, <1>11, <1>12, <1>13, <1>14, <1>15 DEF Next

\* When finish() ends a swept analysis, also after a failed point, the variable is
\* the one from before, and so are all options but those a program gave to the
\* analysis by expressions of a swept variable; without conditional blocks, and if
\* the temperature came back, so are parameters and topology: followers are evaluated
\* again (ParameterSweeper::storeState, Analysis::finish).
THEOREM SweepsRestore == Spec => AnalysisRestores
<1> DEFINE Restored ==
      pc # "core" /\ sweep.targets # {} /\ sweep' = NoSweep /\ elaborated' =>
        /\ variable' = sweep.before.variable
        /\ \A o \in OptionNames : ComesBack(o) => options'[o] = sweep.before.options[o]
        /\ Unconditional /\ ComesBack("temp") =>
             param' = sweep.before.param /\ active' = sweep.before.active
<1>1. ASSUME Inv, [Next]_vars PROVE [Restored]_vars
  <2> SUFFICES ASSUME Next, pc # "core", sweep.targets # {}, sweep' = NoSweep, elaborated'
               PROVE  /\ variable' = sweep.before.variable
                      /\ \A o \in OptionNames : ComesBack(o) => options'[o] = sweep.before.options[o]
                      /\ Unconditional /\ ComesBack("temp") =>
                           param' = sweep.before.param /\ active' = sweep.before.active
    BY <1>1
  <2>1. FinishElaborateChanges /\ job.caller = "finish"
    BY <1>1, EndOfSweep
  <2>2. /\ pc = "tolerances" /\ variable' = variable /\ options' = options /\ param' = param
        /\ active' = active
    BY <2>1 DEF FinishElaborateChanges, hierarchy
  <2>3. Analysing /\ Usable
    BY <2>1, <2>2 DEF Analysing, Usable
  <2>4. SweepTyped /\ net \in Netlists /\ TypeOK
    BY <1>1, <2>3 DEF Inv, Typed
  <2>5. /\ variable = sweep.before.variable
        /\ \A o \in OptionNames : ComesBack(o) => options[o] = sweep.before.options[o]
        /\ Unconditional => DevicesComeBack
    BY <1>1, <2>1, <2>3 DEF Inv, Restoring, InputsComeBack
  <2> SUFFICES ASSUME Unconditional, ComesBack("temp")
               PROVE  param = sweep.before.param /\ active = sweep.before.active
    BY <2>2, <2>5
  <2>6. LastSwitches
    BY DEF Unconditional, LastSwitches, Hosts
  <2>7. /\ \A h \in Hosts : active[h] = (context[Top(h)] \in Enabling[h])
        /\ \A d \in built \cap Followers : param[d] = context[Top(HostOf[d])]
        /\ ContextsCurrent
    BY <1>1, <2>2, <2>3, <2>6 DEF Inv, Hierarchical
  <2>8. /\ \A d \in Devs \ Followers : param[d] = sweep.before.param[d]
        /\ \A d \in Followers : sweep.before.param[d] = Evaluated(sweep.before.variable, sweep.before.options)
        /\ \A h \in Hosts : ~sweep.before.active[h]
    BY <2>1, <2>5 DEF DevicesComeBack
  <2>9. built = Devs
    BY <1>1, <2>3, <2>4, ExistingFacts DEF Inv, Grown, Unconditional, TypeOK
  <2>10. \A d \in Followers : param[d] = Evaluated(variable, options)
    BY <2>4, <2>7, <2>9, NetFacts, TopIsToplevel DEF ContextsCurrent
  <2>11. Evaluated(variable, options) = Evaluated(sweep.before.variable, sweep.before.options)
    BY <2>5, NamesAreOptions DEF Evaluated
  <2>12. /\ sweep.before.param \in [Devs -> Vals] /\ sweep.before.active \in [Hosts -> BOOLEAN]
         /\ param \in [Devs -> Vals] /\ active \in [Hosts -> BOOLEAN]
    BY <2>4 DEF SweepTyped, Before, TypeOK
  <2>13. param = sweep.before.param
    BY <2>8, <2>10, <2>11, <2>12
  <2>14. ASSUME NEW h \in Hosts PROVE active[h] = sweep.before.active[h]
    <3>1. active[h] = (context[Top(h)] \in Enabling[h]) /\ Enabling[h] = {}
      BY <2>7 DEF Unconditional
    <3>2. (context[Top(h)] \in Enabling[h]) = FALSE
      BY <3>1
    <3>3. sweep.before.active[h] = FALSE
      BY <2>8, <2>12
    <3> QED
      BY <3>1, <3>2, <3>3
  <2>15. active = sweep.before.active
    BY <2>12, <2>14
  <2> QED
    BY <2>13, <2>15
<1> QED
  BY <1>1, InvHolds, PTL DEF Spec, AnalysisRestores

=============================================================================
