----------------------------- MODULE Elaboration -----------------------------
(***************************************************************************)
(* How a circuit is brought up to date after its inputs change             *)
(* (src/lib/circuit.cpp, src/lib/cirparams.cpp, src/lib/ciroptions.cpp,    *)
(* src/lib/cirvariables.cpp), and who asks for it: the command interpreter *)
(* (src/simulator/cmd.cpp) and the sweeps of an analysis (src/lib/an.cpp). *)
(*                                                                         *)
(* The inputs are the circuit variable, the simulator options and the      *)
(* instance parameters. From them the program derives, layer on layer:     *)
(*   the contexts and active blocks of the toplevel instances,             *)
(*   the instances that exist and their parameters,                        *)
(*   what every instance computed in its setup (its collapse pattern),     *)
(*   the mapping of nodes to unknowns, the sparsity pattern, and           *)
(*   the static tolerances of an analysis.                                 *)
(* elaborateChanges() recomputes only the layers the change flags call     *)
(* for. The properties ask whether what it leaves alone is still right.    *)
(***************************************************************************)
EXTENDS Naturals, FiniteSets

CONSTANTS
  Vals,        \* values of the variable and of parameters
  Levels,      \* values of the simulator options
  Expr,        \* [Vals \X Levels -> Vals], an expression of variable and $temp
  DefaultOptions, \* the options of a circuit that nobody has set any for
  Netlists     \* the netlists, and what a script does with each of them

(***************************************************************************)
(* The options that matter, and the classes they belong to. No option is   *)
(* hierarchy affecting (SimulatorOptions::hierarchyAffectingOptions is     *)
(* empty), so that class and its flag are left out.                        *)
(***************************************************************************)
OptionNames == {"temp", "abstol", "tolmode", "tolscale"}
OptionSet   == [OptionNames -> Levels]

MappingAffecting         == {"temp", "abstol"}
ParametrizationAffecting == {"temp"}
TolerancesAffecting      == {"abstol", "tolmode"}

\* What a sweep can target: the circuit variable, an option, a device
SweptVariable == "variable"

ASSUME ExprAssumption == Expr \in [Vals \X Levels -> Vals]

ASSUME DefaultsAssumption == DefaultOptions \in OptionSet

\* A map of options (PTParameterMap) gives values to some of them, to others
\* expressions of the circuit variable
IsOptionsMap(map) ==
  /\ DOMAIN map.fixed \cup DOMAIN map.computed \subseteq OptionNames
  /\ DOMAIN map.fixed \cap DOMAIN map.computed = {}
  /\ \A o \in DOMAIN map.fixed : map.fixed[o] \in Levels
  /\ \A o \in DOMAIN map.computed : map.computed[o] \in [Vals -> Levels]

\* Only free parameters of instances that always exist are swept
ASSUME NetlistAssumption ==
  \A n \in Netlists :
    LET tops  == 1..n.nTop
        inner == DOMAIN n.topOf
    IN /\ n.nTop \in Nat \ {0}
       /\ inner \cap Nat = {} /\ n.topOf \in [inner -> tops]
       /\ n.hostOf \in [n.devs -> tops \cup inner]
       /\ n.default \in [n.devs -> Vals]
       /\ n.enabling \in [tops \cup inner -> SUBSET Vals]
       /\ n.optional \cup n.followers \cup n.builtin \subseteq n.devs
       /\ n.steered \subseteq n.builtin \ n.followers
       /\ n.shorted \subseteq (n.devs \ n.builtin) \X Vals \X Levels
       /\ n.refused \subseteq n.devs \X Vals
       /\ \A map \in n.userOptions \cup n.ownOptions : IsOptionsMap(map)
       /\ n.faultyAlter \in BOOLEAN /\ n.stops \in BOOLEAN
       /\ n.devs \cap (OptionNames \cup {SweptVariable}) = {}
       /\ \A T \in n.targets : T \subseteq {SweptVariable} \cup OptionNames
                                   \cup (n.devs \ (n.followers \cup n.optional))

ChangeFlags == {"Variables", "Parametrization", "Mapping", "Tolerances",
                "HierarchyParameters"}

VARIABLES
  net,            \* the netlist, which stays as it was read
  variable,       \* the circuit variable
  userOptions,    \* options collected by the interpreter (options command)
  options,        \* simulator options of the circuit
  flags,          \* change flags of the circuit
  elaborated,     \* Flags::Elaborated
  context,        \* toplevelContext_: expression value held by each toplevel
  active,         \* activeBlocks: is the conditional block of a host built
  built,          \* device instances that exist
  param,          \* their parameters
  paramsChanged,  \* instances with Flags::ParamsChanged
  needsSetup,     \* instances with Flags::NeedsSetup
  history,        \* instances with Flags::HasSetupHistory
  collapsed,      \* instances whose collapse pattern asks for a collapse
  setupSaw,       \* <<parameter, temp>> used by the last successful setup
  mapped,         \* what the mapping of unknowns was built from
  unreported,     \* did a failed setup take the changes seen before it along
  steering,       \* controlling instances the Jacobian entries were made for
  commons,        \* CommonData of the analysis: name and static tolerances
  pc,             \* where the program is
  job,            \* locals of the running elaborateChanges()
  sweep           \* the running analysis: what it sweeps and must restore

vars == <<net, variable, userOptions, options, flags, elaborated, context, active,
          built, param, paramsChanged, needsSetup, history, collapsed,
          setupSaw, mapped, unreported, steering, commons, pc, job, sweep>>

hierarchy == <<context, active, built>>
setups    == <<history, collapsed, setupSaw>>
system    == <<mapped, unreported, steering>>

(***************************************************************************)
(* The netlist and its script.                                             *)
(***************************************************************************)
Devs        == net.devs        \* device instances
NTop        == net.nTop        \* number of toplevel instances
TopOf       == net.topOf       \* the toplevel instance around a subcircuit instance
HostOf      == net.hostOf      \* the toplevel or subcircuit instance of a device
Optional    == net.optional    \* devices inside a conditional netlist block
Followers   == net.followers   \* devices whose parameter is an expression
Builtin     == net.builtin     \* builtin devices, the others are OSDI devices
Steered     == net.steered     \* devices whose parameter selects the controlling instance
Default     == net.default     \* [Devs -> Vals], the constant given in the netlist
Enabling    == net.enabling    \* for every host, the values that switch its block on
Shorted     == net.shorted     \* set of <<device, value, temp>> that collapse a node pair
Refused     == net.refused     \* set of <<device, value>> rejected by the device's setup
UserOptions == net.userOptions \* the maps of options a control script asks for
OwnOptions  == net.ownOptions  \* maps of options a program adds to a single analysis
Targets     == net.targets     \* the sets of things the sweeps of an analysis sweep
FaultyAlter == net.faultyAlter \* does the script contain an alter that fails half-way
Stops       == net.stops       \* do analyses stop at a $stop request

Tops  == 1..NTop
Inner == DOMAIN TopOf
Hosts == Tops \cup Inner

Top(h) == IF h \in Tops THEN h ELSE TopOf[h]

Callers == {"commands", "point", "finish"}

NoJob   == [caller |-> "commands", hierarchyChanged |-> FALSE,
            unknownsChanged |-> FALSE, rebuildsCores |-> FALSE, todo |-> {}]
NoSweep == [targets |-> {}, aim |-> <<>>, own |-> <<>>, options |-> <<>>,
            parameter |-> <<>>, core |-> <<>>, before |-> <<>>]
NoCommons == [name |-> "", tolerances |-> <<>>]

\* Circuit::needsElaboration()
NeedsElaboration == ~elaborated \/ flags # {}

(***************************************************************************)
(* What each layer is computed from.                                       *)
(***************************************************************************)
Evaluated(v, opt) == Expr[<<v, opt["temp"]>>]

\* recomputeBlockConditions(): do the values in a host's context switch its
\* conditional block on
BlockActive(h, value) == value \in Enabling[h]

\* createInstance(): a new hierarchical instance enters its context, decides on its
\* blocks and builds what they hold
FreshBlocks(value) == [h \in Hosts |-> BlockActive(h, value)]

\* buildHierarchy(): the instances of the root block and of the active block
Existing(blocks) == {d \in Devs : d \notin Optional \/ blocks[HostOf[d]]}

\* Parameter of a freshly created instance
NetlistValue(d, ctx) ==
  IF d \in Followers THEN ctx[Top(HostOf[d])] ELSE Default[d]

Collapses(d, x, opt) == <<d, x, opt["temp"]>> \in Shorted

\* Unknowns, sparsity pattern and states are made from the instances that exist
\* and the node pairs they collapse
SystemOf(B, C) == [built |-> B, collapsed |-> C]

Steering(B, p) == [d \in Steered \cap B |-> p[d]]

StaticTolerances(map, opt) ==
  [mapping |-> map, abstol |-> opt["abstol"], tolmode |-> opt["tolmode"],
   tolscale |-> opt["tolscale"]]

\* Parameterized::setParameters() of the options: values and expressions
\* (Write::All), or expressions only (Write::Expressions)
WithExpressions(opt, map, v) ==
  [o \in OptionNames |-> IF o \in DOMAIN map.computed THEN map.computed[o][v]
                         ELSE opt[o]]
WithAll(opt, map, v) ==
  [o \in OptionNames |-> IF o \in DOMAIN map.fixed THEN map.fixed[o]
                         ELSE WithExpressions(opt, map, v)[o]]

\* The interpreter applies all options of the user to the default ones
OptionsOfUser == WithAll(DefaultOptions, userOptions, variable)

(***************************************************************************)
(* The circuit object exists, nothing is elaborated yet.                   *)
(***************************************************************************)
Init ==
  /\ net \in Netlists
  /\ variable \in Vals
  /\ userOptions \in UserOptions /\ options = DefaultOptions
  /\ flags = {"Variables"} /\ elaborated = FALSE
  /\ context = [i \in Tops |-> Evaluated(variable, options)]
  /\ active = [h \in Hosts |-> FALSE]
  /\ built = {} /\ param = Default
  /\ paramsChanged = {} /\ needsSetup = {}
  /\ history = {} /\ collapsed = {}
  /\ setupSaw = [d \in Devs |-> <<>>]
  /\ mapped = SystemOf({}, {}) /\ unreported = FALSE
  /\ steering = Steering({}, param)
  /\ commons = NoCommons
  /\ pc = "idle" /\ job = NoJob /\ sweep = NoSweep

(***************************************************************************)
(* Changing the inputs.                                                    *)
(***************************************************************************)

\* Circuit::setOptions(): the flags raised by going from one set of options
\* to another
OptionFlags(old, new) ==
  LET differs(class) == \E o \in class : old[o] # new[o]
  IN  {f \in {"Mapping", "Parametrization", "Tolerances"} :
         \/ f = "Mapping"         /\ differs(MappingAffecting)
         \/ f = "Parametrization" /\ differs(ParametrizationAffecting)
         \/ f = "Tolerances"      /\ differs(TolerancesAffecting)}

\* Circuit::setVariable(), the var command
SetVariable(x) ==
  /\ pc = "idle"
  /\ x # variable
  /\ variable' = x
  /\ flags' = flags \cup {"Variables"}
  /\ UNCHANGED <<net, userOptions, options, elaborated, hierarchy, param,
                 paramsChanged, needsSetup, setups, system, commons, pc, job,
                 sweep>>

\* The options command only records what the next elaboration will apply
SetUserOptions(map) ==
  /\ pc = "idle"
  /\ map # userOptions
  /\ userOptions' = map
  /\ UNCHANGED <<net, variable, options, flags, elaborated, hierarchy, param,
                 paramsChanged, needsSetup, setups, system, commons, pc, job,
                 sweep>>

\* The alter command. Parameters are set one by one; if a later one is bad,
\* groupSetterHelper() returns before it looks at "changed".
Alter(d, x, complete) ==
  /\ pc = "idle"
  /\ elaborated
  /\ d \in built \ Followers
  /\ x # param[d]
  /\ param' = [param EXCEPT ![d] = x]
  /\ paramsChanged' = paramsChanged \cup {d}
  /\ flags' = IF complete THEN flags \cup {"HierarchyParameters"} ELSE flags
  /\ UNCHANGED <<net, variable, userOptions, options, elaborated, hierarchy,
                 needsSetup, setups, system, commons, pc, job, sweep>>

\* What is left of the flags when a circuit has been elaborated
Consistent(raised) == raised \ {"Variables", "Mapping", "HierarchyParameters"}

(***************************************************************************)
(* Circuit::elaborate(): everything from scratch, after the interpreter    *)
(* has written the user's options. It fails when a device refuses its      *)
(* parameter; what it then leaves behind is cleared by the next one.       *)
(* Two flags that the new options may have raised are not cleared.         *)
(***************************************************************************)
ElaborateCircuit ==
  LET opt    == OptionsOfUser
      value  == Evaluated(variable, opt)
      ctx    == [i \in Tops |-> value]
      blocks == FreshBlocks(value)
      B      == Existing(blocks)
      p      == [d \in Devs |-> IF d \in B THEN NetlistValue(d, ctx)
                                ELSE Default[d]]
      ok     == \A d \in B : <<d, p[d]>> \notin Refused
      raised == flags \cup OptionFlags(options, opt)
      C      == {d \in B : Collapses(d, p[d], opt)}
  IN  /\ pc = "idle"
      /\ options' = opt
      /\ elaborated' = ok
      /\ flags' = IF ok THEN Consistent(raised) ELSE raised
      /\ context' = ctx /\ active' = blocks /\ built' = B /\ param' = p
      /\ paramsChanged' = {} /\ needsSetup' = {}
      /\ history' = B \ Builtin /\ collapsed' = C
      /\ setupSaw' = [d \in Devs |-> IF d \in B THEN <<p[d], opt["temp"]>>
                                     ELSE <<>>]
      /\ mapped' = SystemOf(B, C) /\ unreported' = FALSE
      /\ steering' = Steering(B, p)
      /\ pc' = IF ok THEN "ready" ELSE "idle"
      /\ UNCHANGED <<net, variable, userOptions, commons, job, sweep>>

(***************************************************************************)
(* Circuit::elaborateChanges(), first part: write the swept variables, the *)
(* options and the swept instance parameters, in this order, and raise the *)
(* flags for what changed. When a variable has changed, the options and    *)
(* the parameters of the analysis that are given by expressions are        *)
(* computed again before the swept options are written; new parameters of  *)
(* the analysis have its cores rebuilt.                                    *)
(***************************************************************************)
VariablesChanged(v) == v # variable \/ "Variables" \in flags

Recomputed(opt, map, v) ==
  IF VariablesChanged(v) THEN WithExpressions(opt, map, v) ELSE opt

\* An analysis parameter, given by the variable itself
AnalysisParameter(v) == IF VariablesChanged(v) THEN v ELSE sweep.parameter

BeginElaborateChanges(caller, v, opt, writes, parameterChanged) ==
  LET changed == {d \in DOMAIN writes : writes[d] # param[d]}
  IN  /\ variable' = v
      /\ options' = opt
      /\ param' = [d \in Devs |-> IF d \in DOMAIN writes THEN writes[d]
                                  ELSE param[d]]
      /\ paramsChanged' = paramsChanged \cup changed
      /\ flags' = flags \cup OptionFlags(options, opt)
                    \cup (IF v # variable THEN {"Variables"} ELSE {})
                    \cup (IF changed # {} THEN {"HierarchyParameters"} ELSE {})
      /\ elaborated' = FALSE
      /\ job' = [NoJob EXCEPT !.caller = caller, !.rebuildsCores = parameterChanged]
      /\ pc' = "propagate"
      /\ UNCHANGED <<net, userOptions, hierarchy, needsSetup, setups, system,
                     commons>>

PropagateOn == {"Variables", "HierarchyParameters", "Parametrization"}
SetupOn     == PropagateOn \cup {"Mapping"}

\* commons.fromOptions() before setup: CommonData::reset() forgets the name
CommonsFromOptions ==
  commons' = IF job.caller = "commands" THEN commons
             ELSE [commons EXCEPT !.name = ""]

\* Toplevel contexts and block conditions are recomputed in order, up to the
\* first toplevel instance whose active blocks change
ForcePropagation == flags \cap {"Variables", "Parametrization"} # {}

ChangeAt ==
  LET value   == Evaluated(variable, options)
      changed == {i \in Tops : BlockActive(i, value) # active[i]}
  IN  IF ~ForcePropagation \/ changed = {} THEN NTop + 1
      ELSE CHOOSE i \in changed : \A j \in changed : i <= j

SurvivingPatterns(kept) == collapsed \cap kept

\* subhierarchyChanged(): the blocks of subcircuits are looked at on the way
\* down, when values are propagated at all
BlocksAfter(at, ctx) ==
  [h \in Hosts |-> IF h \in Tops
                   THEN IF h = at THEN ~active[h] ELSE active[h]
                   ELSE IF ForcePropagation THEN BlockActive(h, ctx[TopOf[h]])
                   ELSE active[h]]

\* deleteHierarchy(): the instances under the hosts that are built again
Deleted(rebuilt) == {d \in built : HostOf[d] \in rebuilt}

\* propagateParameters() writes the values of expressions, never a constant of
\* the netlist: that would undo what an alter or a sweep has set
Propagated(d, ctx) ==
  IF ForcePropagation /\ d \in Followers THEN ctx[Top(HostOf[d])] ELSE param[d]

(***************************************************************************)
(* Circuit::propagateDownHierarchy(). Under the toplevel instances before  *)
(* ChangeAt the values of expressions are written, and a subcircuit whose  *)
(* active blocks change is deleted and created again. So is everything     *)
(* under ChangeAt and the toplevel instances after it, with the contexts   *)
(* and active blocks that are at hand.                                     *)
(***************************************************************************)
PropagateDownHierarchy ==
  LET at      == ChangeAt
      ctx     == [i \in Tops |-> IF ForcePropagation /\ i <= at
                                 THEN Evaluated(variable, options) ELSE context[i]]
      blocks  == BlocksAfter(at, ctx)
      rebuilt == {h \in Hosts : Top(h) >= at \/ blocks[h] # active[h]}
      kept    == built \ Deleted(rebuilt)
      made    == {d \in Existing(blocks) : HostOf[d] \in rebuilt}
      p       == [d \in Devs |-> IF d \in kept THEN Propagated(d, ctx)
                                 ELSE IF d \in made THEN NetlistValue(d, ctx)
                                 ELSE Default[d]]
  IN  /\ pc = "propagate"
      /\ flags \cap PropagateOn # {}
      /\ context' = ctx /\ active' = blocks
      /\ built' = kept \cup made
      /\ param' = p
      /\ paramsChanged' = {}
      /\ needsSetup' = made \cup {d \in kept : \/ d \in needsSetup
                                               \/ d \in paramsChanged
                                               \/ p[d] # param[d]}
      /\ history' = history \cap kept
      /\ collapsed' = SurvivingPatterns(kept)
      /\ setupSaw' = [d \in Devs |-> IF d \in kept THEN setupSaw[d] ELSE <<>>]
      /\ job' = [job EXCEPT !.hierarchyChanged = (rebuilt # {}),
                            !.todo = kept \cup made]
      /\ CommonsFromOptions
      /\ pc' = "setup"
      /\ UNCHANGED <<net, variable, userOptions, options, flags, elaborated, system,
                     sweep>>

\* Nothing to propagate; only mapping affecting options may call for a setup
NothingToPropagate ==
  /\ pc = "propagate"
  /\ flags \cap PropagateOn = {}
  /\ job' = [job EXCEPT !.todo = IF "Mapping" \in flags THEN built ELSE {}]
  /\ CommonsFromOptions
  /\ pc' = "setup"
  /\ UNCHANGED <<net, variable, userOptions, options, flags, elaborated, hierarchy,
                 param, paramsChanged, needsSetup, setups, system, sweep>>

(***************************************************************************)
(* Circuit::setup() goes through the instances. A full setup is forced by  *)
(* mapping affecting options, a builtin device is always set up.           *)
(***************************************************************************)
RunsSetup(d) == "Mapping" \in flags \/ d \in needsSetup \/ d \in Builtin

\* An OSDI instance compares its collapse pattern with the one it had before
UnknownsChangedBy_Slip(d) ==
  /\ d \notin Builtin
  /\ \/ d \notin history
     \/ RunsSetup(d) /\ d \notin collapsed /\ Collapses(d, param[d], options)
UnknownsChangedBy(d) ==
  /\ d \notin Builtin
  /\ \/ d \notin history
     \/ RunsSetup(d) /\ (d \in collapsed) # Collapses(d, param[d], options)

SetupInstance(d) ==
  /\ pc = "setup"
  /\ d \in job.todo
  /\ RunsSetup(d) => <<d, param[d]>> \notin Refused
  /\ job' = [job EXCEPT !.todo = @ \ {d},
                        !.unknownsChanged = @ \/ UnknownsChangedBy(d)]
  /\ IF RunsSetup(d)
     THEN /\ needsSetup' = needsSetup \ {d}
          /\ collapsed' = IF Collapses(d, param[d], options)
                          THEN collapsed \cup {d} ELSE collapsed \ {d}
          /\ history' = history \cup ({d} \ Builtin)
          /\ setupSaw' = [setupSaw EXCEPT ![d] = <<param[d], options["temp"]>>]
     ELSE UNCHANGED <<needsSetup, setups>>
  /\ UNCHANGED <<net, variable, userOptions, options, flags, elaborated, hierarchy,
                 param, paramsChanged, system, commons, pc, sweep>>

\* Are the unknowns mapped again?
MapsUnknowns == job.hierarchyChanged \/ job.unknownsChanged

\* A device refuses its parameter: the setup stops there, what the instances
\* before it reported is lost with the locals of elaborateChanges(), and the
\* collapse pattern of the refusing instance is put back
SetupFails(d) ==
  /\ pc = "setup"
  /\ d \in job.todo
  /\ RunsSetup(d)
  /\ <<d, param[d]>> \in Refused
  /\ job' = NoJob
  /\ pc' = IF job.caller = "point" THEN "failed" ELSE "idle"
  /\ IF job.caller = "finish" THEN sweep' = NoSweep /\ commons' = NoCommons
                              ELSE UNCHANGED <<sweep, commons>>
  /\ unreported' = (unreported \/ MapsUnknowns)
  /\ UNCHANGED <<net, variable, userOptions, options, flags, elaborated, hierarchy,
                 param, paramsChanged, needsSetup, setups, mapped, steering>>

\* mapUnknowns(), buildSparsityAndStates() and enumerateSystem(). The last two
\* also run when the analysis asks for matrix entries of its own.
MapUnknowns(analysisNeedsSparsity) ==
  /\ pc = "setup"
  /\ job.todo = {}
  /\ job.caller = "commands" => ~analysisNeedsSparsity
  /\ mapped' = IF MapsUnknowns
               THEN SystemOf(built, collapsed) ELSE mapped
  /\ unreported' = (unreported /\ ~MapsUnknowns)
  /\ steering' = IF MapsUnknowns \/ analysisNeedsSparsity
                 THEN Steering(built, param) ELSE steering
  /\ job' = [job EXCEPT !.rebuildsCores = @ \/ MapsUnknowns \/ analysisNeedsSparsity]
  /\ pc' = "tolerances"
  /\ UNCHANGED <<net, variable, userOptions, options, flags, elaborated, hierarchy,
                 param, paramsChanged, needsSetup, setups, commons, sweep>>

\* Are the static tolerances of the analysis built again?
BuildsTolerances_Slip == job.unknownsChanged
BuildsTolerances == job.unknownsChanged \/ "Tolerances" \in flags

\* What the cores of the analysis are built from
CoreFor == [mapping |-> mapped, parameter |-> sweep.parameter]

\* "Circuit is now in a consistent state". The analysis rebuilds its cores when
\* it has to, and at its first point.
FinishElaborateChanges ==
  /\ pc = "tolerances"
  /\ flags' = {}
  /\ elaborated' = TRUE
  /\ job' = NoJob
  /\ pc' = CASE job.caller = "commands" -> "ready"
             [] job.caller = "point"    -> "core"
             [] job.caller = "finish"   -> "idle"
  /\ sweep' = CASE job.caller = "commands" -> sweep
                [] job.caller = "finish"   -> NoSweep
                [] job.caller = "point"    ->
                     IF sweep.core = <<>> \/ job.rebuildsCores
                     THEN [sweep EXCEPT !.core = CoreFor] ELSE sweep
  /\ commons' = CASE job.caller = "commands" -> commons
                  [] job.caller = "finish"   -> NoCommons
                  [] job.caller = "point"    ->
                       IF BuildsTolerances
                       THEN [commons EXCEPT !.tolerances =
                               StaticTolerances(mapped, options)]
                       ELSE commons
  /\ UNCHANGED <<net, variable, userOptions, options, hierarchy, param,
                 paramsChanged, needsSetup, setups, system>>

(***************************************************************************)
(* The callers: the interpreter before every analysis ...                  *)
(***************************************************************************)

\* CommandInterpreter::minimalElaboration() of an elaborated circuit, also
\* the command elaborate changes
ElaborateChanges ==
  /\ pc = "idle"
  /\ elaborated
  /\ BeginElaborateChanges("commands", variable, OptionsOfUser, <<>>, FALSE)
  /\ UNCHANGED sweep

\* The command elaborate is done, no analysis follows
NextCommand ==
  /\ pc = "ready"
  /\ pc' = "idle"
  /\ UNCHANGED <<net, variable, userOptions, options, flags, elaborated, hierarchy,
                 param, paramsChanged, needsSetup, setups, system, commons,
                 job, sweep>>

(***************************************************************************)
(* ... and the analysis, at every point of its sweep and when it is done.  *)
(***************************************************************************)
Current(t) == IF t = SweptVariable THEN variable
              ELSE IF t \in OptionNames THEN options[t] ELSE param[t]

\* Writing the values a (a function on sweep targets): variable, options and
\* parameters
WrittenVariable(a) ==
  IF SweptVariable \in DOMAIN a THEN a[SweptVariable] ELSE variable
WrittenOptions(opt, a) ==
  [o \in OptionNames |-> IF o \in DOMAIN a THEN a[o] ELSE opt[o]]
WrittenParams(a) == [d \in DOMAIN a \cap Devs |-> a[d]]

\* Start of Analysis::coroutine(): the name, the tolerances, what there is before
\* the analysis, and its options: those of the circuit with the user's added, or
\* those of the program that runs it.
StartAnalysis(T, own) ==
  /\ pc = "ready"
  /\ T \cap Devs \subseteq built
  /\ commons' = [name |-> "analysis",
                 tolerances |-> StaticTolerances(mapped, options)]
  /\ sweep' = [targets |-> T, aim |-> <<>>, own |-> own,
               options |-> WithAll(options, own, variable),
               parameter |-> variable, core |-> <<>>,
               before |-> [variable |-> variable, options |-> options,
                           param |-> param, active |-> active]]
  /\ pc' = "sweep"
  /\ UNCHANGED <<net, variable, userOptions, options, flags, elaborated, hierarchy,
                 param, paramsChanged, needsSetup, setups, system, job>>

\* The options an analysis has at the value v of the variable, and at its start
OptionsAt(v)   == WithAll(sweep.before.options, sweep.own, v)
OptionsAtStart == OptionsAt(sweep.before.variable)

\* ParameterSweeper::storeState()
StoredState_Slip == [t \in sweep.targets |->
                  IF t = SweptVariable THEN sweep.before.variable
                  ELSE IF t \in OptionNames THEN OptionsAtStart[t]
                  ELSE param[t]]
StoredState == [t \in sweep.targets |->
                  IF t = SweptVariable THEN sweep.before.variable
                  ELSE IF t \in OptionNames THEN OptionsAtStart[t]
                  ELSE sweep.before.param[t]]

\* The values a sweep may take its targets to
Aims(T) == {a \in [T -> Vals \cup Levels] :
              \A t \in T : IF t \in OptionNames THEN a[t] \in Levels
                                                ELSE a[t] \in Vals}

SweepPoint(a) ==
  /\ pc = "sweep"
  /\ LET v   == WrittenVariable(a)
         opt == WrittenOptions(Recomputed(sweep.options, sweep.own, v), a)
     IN  /\ BeginElaborateChanges("point", v, opt, WrittenParams(a),
                                  AnalysisParameter(v) # sweep.parameter)
         /\ sweep' = [sweep EXCEPT !.aim = a, !.options = opt,
                                   !.parameter = AnalysisParameter(v)]

\* The core runs at this point; an analysis without sweeps is then over, and
\* nothing is restored
RunCore ==
  /\ pc = "core"
  /\ IF sweep.targets = {}
     THEN pc' = "idle" /\ sweep' = NoSweep /\ commons' = NoCommons
     ELSE pc' = "sweep" /\ UNCHANGED <<sweep, commons>>
  /\ UNCHANGED <<net, variable, userOptions, options, flags, elaborated, hierarchy,
                 param, paramsChanged, needsSetup, setups, system, job>>

\* The core fails at this point (no convergence), the sweep is aborted
CoreFails ==
  /\ pc = "core"
  /\ pc' = "failed"
  /\ UNCHANGED <<net, variable, userOptions, options, flags, elaborated, hierarchy,
                 param, paramsChanged, needsSetup, setups, system, commons,
                 job, sweep>>

\* Analysis::finish() after the last point, or after a failed one. The swept
\* options are put back in the analysis' own copy; what the circuit gets are the
\* options from before, in which the analysis' expressions are computed again.
FinishAnalysis ==
  /\ pc = "failed" \/ (pc = "sweep" /\ sweep.aim # <<>>)
  /\ sweep.targets # {}
  /\ LET v   == WrittenVariable(StoredState)
         opt == Recomputed(sweep.before.options, sweep.own, v)
     IN  /\ BeginElaborateChanges("finish", v, opt, WrittenParams(StoredState),
                                  AnalysisParameter(v) # sweep.parameter)
         /\ sweep' = [sweep EXCEPT !.options = WrittenOptions(@, StoredState),
                                   !.parameter = AnalysisParameter(v)]

\* An analysis without sweeps failed
AbandonAnalysis ==
  /\ pc = "failed"
  /\ sweep.targets = {}
  /\ pc' = "idle" /\ sweep' = NoSweep /\ commons' = NoCommons
  /\ UNCHANGED <<net, variable, userOptions, options, flags, elaborated, hierarchy,
                 param, paramsChanged, needsSetup, setups, system, job>>

\* A core yields Stopped: Analysis::run() returns, the interpreter deletes the
\* analysis without calling finish()
StopAnalysis ==
  /\ Stops
  /\ pc = "core"
  /\ pc' = "idle" /\ sweep' = NoSweep /\ commons' = NoCommons
  /\ UNCHANGED <<net, variable, userOptions, options, flags, elaborated, hierarchy,
                 param, paramsChanged, needsSetup, setups, system, job>>

Next ==
  \/ \E x \in Vals : SetVariable(x)
  \/ \E map \in UserOptions : SetUserOptions(map)
  \/ \E d \in Devs, x \in Vals : Alter(d, x, TRUE)
  \/ FaultyAlter /\ \E d \in Devs, x \in Vals : Alter(d, x, FALSE)
  \/ ElaborateCircuit
  \/ ElaborateChanges
  \/ NextCommand
  \/ PropagateDownHierarchy
  \/ NothingToPropagate
  \/ \E d \in Devs : SetupInstance(d)
  \/ \E d \in Devs : SetupFails(d)
  \/ \E needs \in BOOLEAN : MapUnknowns(needs)
  \/ FinishElaborateChanges
  \/ \E T \in Targets, own \in {userOptions} \cup OwnOptions : StartAnalysis(T, own)
  \/ \E a \in Aims(sweep.targets) : SweepPoint(a)
  \/ RunCore
  \/ CoreFails
  \/ FinishAnalysis
  \/ AbandonAnalysis
  \/ StopAnalysis

Spec == Init /\ [][Next]_vars

(***************************************************************************)
(* Properties                                                              *)
(***************************************************************************)

\* The types of the variables.
TypeOK ==
  /\ variable \in Vals
  /\ IsOptionsMap(userOptions) /\ options \in OptionSet
  /\ flags \subseteq ChangeFlags /\ elaborated \in BOOLEAN
  /\ context \in [Tops -> Vals] /\ active \in [Hosts -> BOOLEAN]
  /\ built \subseteq Devs /\ param \in [Devs -> Vals]
  /\ paramsChanged \subseteq built /\ needsSetup \subseteq built
  /\ history \subseteq built \ Builtin /\ collapsed \subseteq history
  /\ setupSaw \in [Devs -> {<<>>} \cup (Vals \X Levels)]
  /\ mapped \in [built : SUBSET Devs, collapsed : SUBSET Devs]
  /\ unreported \in BOOLEAN
  /\ pc \in {"idle", "ready", "propagate", "setup", "tolerances", "sweep",
             "core", "failed"}
  /\ job \in [caller : Callers, hierarchyChanged : BOOLEAN,
              unknownsChanged : BOOLEAN, rebuildsCores : BOOLEAN,
              todo : SUBSET built]

\* The active blocks, the instances and the parameters given by expressions are
\* those the variable and the options ask for.
HierarchyCurrent ==
  LET value == Evaluated(variable, options)
  IN  /\ \A i \in Tops : context[i] = value
      /\ \A h \in Hosts : active[h] = (value \in Enabling[h])
      /\ built = Existing(active)
      /\ \A d \in built \cap Followers : param[d] = value

\* Every instance has been set up with its present parameter and temperature.
SetupCurrent == \A d \in built : setupSaw[d] = <<param[d], options["temp"]>>

\* The unknowns are those of the instances that exist and of the collapses they
\* ask for now.
MappingCurrent ==
  mapped = [built |-> built,
            collapsed |-> {d \in built : Collapses(d, param[d], options)}]

\* Only the last toplevel instance has conditional blocks of its own; after a
\* change in an earlier one the later ones keep their contexts (see the README).
LastSwitches == \A i \in Tops \ {NTop} : Enabling[i] = {}

\* When the circuit claims to need no elaboration (before every analysis core
\* runs, and between commands), hierarchy, setups and unknowns are those its
\* inputs ask for, whatever changed since the last elaboration. Two ways to
\* defeat it are left out (see the README): an alter that fails half-way raises
\* no flag, and a failed setup forgets what it had to report to the mapping.
CircuitIsCurrent ==
  ~NeedsElaboration /\ ~FaultyAlter /\ LastSwitches =>
    HierarchyCurrent /\ SetupCurrent /\ (~unreported => MappingCurrent)

\* The static tolerances belong to the present unknowns and options.
TolerancesCurrent == commons.tolerances = StaticTolerances(mapped, options)

\* The netlist has no conditional blocks.
Unconditional == Optional = {} /\ \A h \in Hosts : Enabling[h] = {}

\* Everything swept has the value of the present sweep point; of devices only
\* without conditional blocks, whose rebuilding loses swept parameters.
SweptValueInForce ==
  \A t \in sweep.targets :
    t \notin Devs \/ Unconditional => Current(t) = sweep.aim[t]

\* The options that are not swept are those of the analysis, with its expressions
\* at the present value of the variable.
OptionsInForce ==
  \A o \in OptionNames \ sweep.targets : options[o] = OptionsAt(variable)[o]

\* The cores were built for the present unknowns and the present variable.
CoresCurrent == sweep.core = [mapping |-> mapped, parameter |-> variable]

\* The analysis leaves the scale of the tolerances alone, which no flag tells of.
TolscaleStays ==
  /\ "tolscale" \notin sweep.targets \cup DOMAIN sweep.own.computed
  /\ OptionsAtStart["tolscale"] = sweep.before.options["tolscale"]

\* What a core works with belongs to its sweep point: swept values, options, what
\* it was built from, and the tolerances. The latter hold in netlists without
\* conditional blocks while tolscale stays (otherwise they fail, see the README).
CoreSeesThePoint ==
  pc = "core" =>
    /\ SweptValueInForce /\ OptionsInForce /\ CoresCurrent
    /\ Unconditional /\ TolscaleStays => TolerancesCurrent

\* An option comes back after an analysis, except the ones that a program has
\* given to the analysis by expressions, when the variable is swept: they are
\* written to the options from before (see the README). The user's expressions
\* are not affected, the options had their values before.
ComesBack(o) ==
  \/ sweep.own = userOptions
  \/ SweptVariable \notin sweep.targets
  \/ o \notin DOMAIN sweep.own.computed

\* When finish() ends a swept analysis with an elaborated circuit, the variable and
\* the options are what they were before, and so are, again without conditional
\* blocks, the parameters (if the temperature is) and the topology.
AnalysisRestores ==
  [][pc # "core" /\ sweep.targets # {} /\ sweep' = NoSweep /\ elaborated' =>
       /\ variable' = sweep.before.variable
       /\ \A o \in OptionNames : ComesBack(o) => options'[o] = sweep.before.options[o]
       /\ Unconditional /\ ComesBack("temp") =>
            param' = sweep.before.param /\ active' = sweep.before.active]_vars
=============================================================================
