--------------------------- MODULE CommandsProofs ---------------------------
(***************************************************************************)
(* Proofs about Commands, for every set of control blocks, number of       *)
(* samples and call sites, and whatever commands may fail.                 *)
(*                                                                         *)
(* Main line: in a loop the position is inside the body of the mc command  *)
(* that started it, every analysis of the body was tried once in each pass *)
(* up to now, and the generators, the parameters computed from them and    *)
(* the samples the analyses of this pass saw agree.                        *)
(*                                                                         *)
(* The last part is about what one of these analyses writes, Outputs.      *)
(***************************************************************************)
EXTENDS Commands, Outputs, TLAPS, SequenceTheorems, FiniteSetTheorems, WellFoundedInduction

-----------------------------------------------------------------------------
(* Types                                                                   *)

Sample    == [pass : Nat, bin : Nat]
Samplings == UNION {[S -> Sample] : S \in SUBSET Sites}

Settings == [kind : {"unset", "value", "expr"}, value : Values]

Sessions == [variable : Values, option : Settings, altered : Values, saves : SUBSET Values]

Circuits ==
  [elaborated : BOOLEAN, variablesChanged : BOOLEAN, parametersChanged : BOOLEAN,
   variable : Values, option : Values, param : Values, setup : Values, samples : Samplings]

\* Names of loops, also that of no loop
LoopNames == STRING \cup {""}

Loops == [name : LoopNames, start : Nat, samples : Nat, strict : BOOLEAN, pass : Nat, ngen : Nat]

PassPrefixes == [name : LoopNames, pass : Nat]

Attempts ==
  [at : Nat, name : STRING, pss : BOOLEAN, prefix : PassPrefixes, ok : BOOLEAN, variable : Values,
   option : Values, param : Values, samples : Samplings]

\* The generators of a loop, or no generators
IsData(d) ==
  /\ d = [pass |-> d.pass, sample |-> d.sample, lhSamples |-> d.lhSamples,
          lhPerm |-> d.lhPerm, value |-> d.value]
  /\ d.pass \in Nat /\ d.sample \in Nat /\ d.lhSamples \in Nat
  /\ d.lhSamples > 0 => d.lhPerm \in [Sites -> [Bins(d.lhSamples) -> Bins(d.lhSamples)]]
  /\ d.value \in Samplings
  /\ \A z \in DOMAIN d.value : d.value[z].pass = d.pass
  /\ d.pass = 0 <=> d = NoData

\* A sampling that was taken from the generators d
DrawnFrom(samples, d) ==
  IF d = NoData THEN \A z \in DOMAIN samples : samples[z] = Nominal
  ELSE /\ DOMAIN samples \subseteq DOMAIN d.value
       /\ \A z \in DOMAIN samples : samples[z] = d.value[z]

\* The flags of the circuit c tell what is to be computed anew
UpToDate(c, s, d) ==
  c.elaborated =>
    /\ ~c.parametersChanged => c.setup = c.param
    /\ ~c.variablesChanged =>
         /\ c.variable = s.variable
         /\ DOMAIN c.samples = SitesAt[s.variable]
         /\ DrawnFrom(c.samples, d)

\* The default policy names "analysis"
Policies == [onMatch : BOOLEAN, cmds : SUBSET (STRING \cup {"analysis"})]

Statuses == {"Running", "EndReached", "Error", "HardFault"}

Shape ==
  /\ program \in Programs /\ at \in 1 .. (Len(program) + 1)
  /\ status \in Statuses
  /\ abort \in Policies
  /\ session \in Sessions
  /\ circuit \in Circuits
  /\ names \in SUBSET STRING
  /\ loop \in Loops
  /\ prefix = [name |-> loop.name, pass |-> loop.pass]
  /\ IsData(data) /\ data.pass = loop.pass
  /\ data = NoData <=> loop = NoLoop
  /\ loop # NoLoop => data.sample + 1 = loop.pass /\ data.lhSamples \in {0, loop.samples}
  /\ ran \in Seq(Attempts)

-----------------------------------------------------------------------------
(* Commands and control blocks                                             *)

\* The arguments of a command are those of its kind.
LEMMA CommandTypes ==
    ASSUME NEW c \in AllCommands
    PROVE  /\ c.op \in {"analysis", "var", "save", "alter", "options", "clear", "elaborate",
                        "abort", "mc", "print", "postprocess", "endmc", "bad"}
           /\ c.op = "analysis" => c.name \in STRING /\ c.pss \in BOOLEAN
           /\ c.op \in {"var", "save", "alter"} => c.value \in Values
           /\ c.op = "options" => c.setting \in Settings
           /\ c.op = "abort" => c.onMatch \in BOOLEAN /\ c.cmds \in SUBSET STRING
           /\ c.op = "elaborate" => c.what \in {"circuit", "changes"}
           /\ c.op = "mc" => c.name \in STRING /\ c.samples \in Nat /\ c.strict \in BOOLEAN
                             /\ c.lh \in BOOLEAN
BY DEF AllCommands, Settings

\* Positions of a control block, and what a command finds there.
LEMMA ProgramTypes ==
    ASSUME Shape
    PROVE  /\ program \in Seq(AllCommands) /\ Len(program) \in Nat
           /\ DOMAIN program = 1 .. Len(program)
           /\ \A i \in 1 .. Len(program) : program[i] \in AllCommands
BY ProgramsAssumption DEF Shape

-----------------------------------------------------------------------------
(* Generators                                                              *)

\* A sampling is a function on call sites.
LEMMA SamplingIntro ==
    ASSUME NEW S, S \subseteq Sites, NEW f \in [S -> Sample]
    PROVE  f \in Samplings
BY DEF Samplings

\* What a sampling is, taken apart.
LEMMA SamplingElim ==
    ASSUME NEW f \in Samplings
    PROVE  /\ DOMAIN f \subseteq Sites
           /\ f \in [DOMAIN f -> Sample]
BY DEF Samplings

\* No generators are generators of pass 0.
LEMMA NoDataIsData == IsData(NoData)
<1>1. <<>> \in [{} -> Sample]
  OBVIOUS
<1>2. <<>> \in Samplings
  BY <1>1, SamplingIntro
<1> QED
  BY <1>1, <1>2 DEF IsData, NoData

\* A generator draws in the pass the generators are in, and from a bin there is.
LEMMA GenType ==
    ASSUME NEW d, NEW z \in Sites, d.pass \in Nat, d.lhSamples \in Nat, d.sample \in Nat,
           d.lhSamples > 0 => /\ d.lhPerm \in [Sites -> [Bins(d.lhSamples) -> Bins(d.lhSamples)]]
                              /\ d.sample < d.lhSamples
    PROVE  Gen(d, z) \in Sample /\ Gen(d, z).pass = d.pass
BY DEF Gen, Sample, Bins

\* Within the loop there is a bin for every sample.
WithinBins(d) == d.lhSamples > 0 => d.sample < d.lhSamples

\* Evaluating expressions keeps the values that were drawn, and adds those of new sites.
LEMMA EvaluateIsData ==
    ASSUME NEW d, IsData(d), WithinBins(d), NEW x \in Values
    PROVE  /\ IsData(Evaluate(x, d))
           /\ \A f \in {"pass", "sample", "lhSamples"} : Evaluate(x, d)[f] = d[f]
           /\ Evaluate(x, d) = NoData <=> d = NoData
           /\ d # NoData => DOMAIN Evaluate(x, d).value = DOMAIN d.value \cup SitesAt[x]
           /\ \A z \in DOMAIN d.value : z \in DOMAIN Evaluate(x, d).value
                                        /\ Evaluate(x, d).value[z] = d.value[z]
<1>1. CASE d = NoData
  BY <1>1, NoDataIsData DEF Evaluate
<1>2. CASE d # NoData
  <2> DEFINE e == Evaluate(x, d)
             v == [z \in DOMAIN d.value \cup SitesAt[x] |->
                     IF z \in DOMAIN d.value THEN d.value[z] ELSE Gen(d, z)]
  <2>1. e = [pass |-> d.pass, sample |-> d.sample, lhSamples |-> d.lhSamples,
             lhPerm |-> d.lhPerm, value |-> v]
    BY <1>2 DEF Evaluate, RetrieveOrAdd, IsData
  <2>2. SitesAt[x] \subseteq Sites /\ DOMAIN d.value \subseteq Sites /\ d.value \in [DOMAIN d.value -> Sample]
    BY CommandsAssumption, SamplingElim DEF IsData
  <2>3. \A z \in DOMAIN v : v[z] \in Sample /\ v[z].pass = d.pass
    BY <2>2, GenType DEF IsData, WithinBins
  <2>4. v \in Samplings
    BY <2>2, <2>3, SamplingIntro
  <2>5. e.pass # 0 /\ e # NoData
    BY <1>2, <2>1 DEF IsData, NoData
  <2>6. /\ e.pass = d.pass /\ e.sample = d.sample /\ e.lhSamples = d.lhSamples
        /\ e.lhPerm = d.lhPerm /\ e.value = v
    BY <2>1
  <2> HIDE DEF e, v
  <2>7. IsData(e)
    BY <1>2, <2>1, <2>3, <2>4, <2>5, <2>6 DEF IsData
  <2> QED
    BY <1>2, <2>5, <2>6, <2>7 DEF e, v
<1> QED
  BY <1>1, <1>2

\* For the next sample every generator draws again.
LEMMA AdvanceIsData ==
    ASSUME NEW d, IsData(d), WithinBins(d), d # NoData
    PROVE  /\ IsData(Advance(d)) /\ Advance(d) # NoData
           /\ Advance(d).pass = d.pass + 1 /\ Advance(d).sample = d.sample + 1
           /\ Advance(d).lhSamples = d.lhSamples
<1> DEFINE next == [d EXCEPT !.pass = @ + 1]
           e == Advance(d)
           v == [z \in DOMAIN d.value |-> Gen(next, z)]
<1>1. next = [pass |-> d.pass + 1, sample |-> d.sample, lhSamples |-> d.lhSamples,
              lhPerm |-> d.lhPerm, value |-> d.value]
  BY DEF IsData
<1>2. e = [pass |-> d.pass + 1, sample |-> d.sample + 1, lhSamples |-> d.lhSamples,
           lhPerm |-> d.lhPerm, value |-> v]
  <2>1. e = [next EXCEPT !.value = [z \in DOMAIN @ |-> Gen(next, z)], !.sample = @ + 1]
    BY DEF Advance
  <2> HIDE DEF e, next
  <2>2. next.value = d.value
    BY <1>1
  <2> QED
    BY <1>1, <2>1, <2>2
<1>3. DOMAIN d.value \subseteq Sites
  BY SamplingElim DEF IsData
<1>4. /\ next.pass = d.pass + 1 /\ next.sample = d.sample /\ next.lhSamples = d.lhSamples
      /\ next.lhPerm = d.lhPerm
  BY <1>1
<1>5. \A z \in DOMAIN v : v[z] \in Sample /\ v[z].pass = d.pass + 1
  <2> HIDE DEF next
  <2> QED
    BY <1>3, <1>4, GenType DEF IsData, WithinBins
<1>6. v \in Samplings
  BY <1>3, <1>5, SamplingIntro
<1>7. /\ e.pass = d.pass + 1 /\ e.sample = d.sample + 1 /\ e.lhSamples = d.lhSamples
      /\ e.lhPerm = d.lhPerm /\ e.value = v
  BY <1>2
<1>8. d.pass + 1 # 0 /\ e # NoData
  BY <1>7 DEF IsData, NoData
<1> HIDE DEF e, v, next
<1>9. IsData(e)
  BY <1>2, <1>5, <1>6, <1>7, <1>8 DEF IsData
<1> QED
  BY <1>7, <1>8, <1>9 DEF e

\* A new loop starts with no generators, in its first pass.
LEMMA NewDataIsData ==
    ASSUME NEW n \in Nat, NEW lh \in BOOLEAN,
           NEW perms \in [Sites -> IF lh THEN Shuffles(n) ELSE {<<>>}]
    PROVE  LET d == NewData(n, lh, perms) IN
           /\ IsData(d) /\ d # NoData /\ d.pass = 1 /\ d.sample = 0 /\ d.lhSamples \in {0, n}
<1> DEFINE d == NewData(n, lh, perms)
<1>1. <<>> \in [{} -> Sample]
  OBVIOUS
<1>2. <<>> \in Samplings
  BY <1>1, SamplingIntro
<1>3. /\ d.pass = 1 /\ d.sample = 0 /\ d.lhSamples = (IF lh THEN n ELSE 0) /\ d.value = <<>>
      /\ d.lhPerm = perms
      /\ d = [pass |-> 1, sample |-> 0, lhSamples |-> IF lh THEN n ELSE 0, lhPerm |-> perms,
              value |-> <<>>]
  BY DEF NewData
<1>4. d # NoData
  BY <1>3 DEF NoData
<1>5. d.lhSamples > 0 => perms \in [Sites -> [Bins(n) -> Bins(n)]]
  BY <1>3 DEF Shuffles
<1>6. DOMAIN d.value = {}
  BY <1>1, <1>3
<1> HIDE DEF d
<1>7. IsData(d)
  BY <1>2, <1>3, <1>4, <1>5, <1>6 DEF IsData
<1> QED
  BY <1>3, <1>4, <1>7 DEF d

\* The number of generators is a number: a netlist has finitely many call sites.
LEMMA CountType ==
    ASSUME NEW d, IsData(d)
    PROVE  Count(d) \in Nat
<1>1. DOMAIN d.value \subseteq Sites
  BY SamplingElim DEF IsData
<1> QED
  BY <1>1, SitesAssumption, FS_Subset, FS_CardinalityType DEF Count

-----------------------------------------------------------------------------
(* Elaboration                                                             *)

\* An option the user sets gets a value of the option.
LEMMA AppliedType ==
    ASSUME NEW s \in Settings, NEW x \in Values, NEW o \in Values
    PROVE  Applied(s, x, o) \in Values
BY DEF Applied, Settings

\* The options of the user are options of the circuit.
LEMMA UserOptionsType ==
    ASSUME NEW s \in Sessions
    PROVE  UserOptions(s) \in Values
<1>1. s.variable \in Values /\ s.option \in Settings /\ Default \in Values
  BY CommandsAssumption DEF Sessions, Default
<1> QED
  BY <1>1, AppliedType DEF UserOptions

\* What an elaboration evaluates are samples of the generators it leaves behind.
LEMMA SamplesType ==
    ASSUME NEW d, IsData(d), WithinBins(d), NEW x \in Values
    PROVE  /\ Samples(x, d) \in Samplings /\ DOMAIN Samples(x, d) = SitesAt[x]
           /\ DrawnFrom(Samples(x, d), Evaluate(x, d))
<1>1. SitesAt[x] \subseteq Sites /\ Nominal \in Sample
  BY CommandsAssumption DEF Nominal, Sample
<1>2. d # NoData => /\ SitesAt[x] \subseteq DOMAIN Evaluate(x, d).value
                    /\ Evaluate(x, d).value \in [DOMAIN Evaluate(x, d).value -> Sample]
  BY EvaluateIsData, SamplingElim DEF IsData
<1>3. Samples(x, d) \in [SitesAt[x] -> Sample]
  BY <1>1, <1>2 DEF Samples
<1>4. Samples(x, d) \in Samplings
  BY <1>1, <1>3, SamplingIntro
<1>5. CASE d = NoData
  BY <1>3, <1>4, <1>5 DEF Samples, Evaluate, DrawnFrom
<1>6. CASE d # NoData
  BY <1>2, <1>3, <1>4, <1>6, EvaluateIsData DEF Samples, DrawnFrom
<1> QED
  BY <1>5, <1>6

\* Whatever is drawn stays drawn when more expressions are evaluated.
LEMMA DrawnStays ==
    ASSUME NEW d, IsData(d), WithinBins(d), NEW x \in Values, NEW samples, DrawnFrom(samples, d)
    PROVE  DrawnFrom(samples, Evaluate(x, d))
BY EvaluateIsData DEF DrawnFrom

\* After an elaboration the circuit is that of the session: nothing is left to be
\* computed, and its samples are those of the generators.
Fresh(e, s, g) ==
  /\ e \in Circuits
  /\ e.elaborated /\ ~e.variablesChanged /\ ~e.parametersChanged
  /\ e.setup = e.param /\ e.variable = s.variable /\ e.option = UserOptions(s)
  /\ DOMAIN e.samples = SitesAt[s.variable]
  /\ DrawnFrom(e.samples, g)

\* Circuit::elaborate() leaves nothing to be computed.
LEMMA ElaboratedIsCurrent ==
    ASSUME NEW c \in Circuits, NEW s \in Sessions, NEW d, IsData(d), WithinBins(d)
    PROVE  Fresh(Elaborated(c, s, d), s, Evaluate(s.variable, d))
<1>1. s.variable \in Values /\ s.option \in Settings /\ Default \in Values
  BY CommandsAssumption DEF Sessions, Default
<1>2. UserOptions(s) \in Values
  BY UserOptionsType
<1>3. /\ Samples(s.variable, d) \in Samplings
      /\ DOMAIN Samples(s.variable, d) = SitesAt[s.variable]
      /\ DrawnFrom(Samples(s.variable, d), Evaluate(s.variable, d))
  BY <1>1, SamplesType
<1> QED
  BY <1>1, <1>2, <1>3 DEF Elaborated, Fresh, Circuits

\* Circuit::elaborateChanges() computes all that the flags name, and keeps the
\* parameter that was altered.
LEMMA ChangesAreCurrent ==
    ASSUME NEW c \in Circuits, NEW s \in Sessions, NEW d, IsData(d), WithinBins(d),
           c.elaborated, UpToDate(c, s, d)
    PROVE  /\ Fresh(ChangesElaborated(c, s, d), s, Generators(c, s, d))
           /\ ChangesElaborated(c, s, d).param = c.param
<1> DEFINE e == ChangesElaborated(c, s, d)
<1>1. s.variable \in Values
  BY DEF Sessions
<1>2. /\ Samples(s.variable, d) \in Samplings
      /\ DOMAIN Samples(s.variable, d) = SitesAt[s.variable]
      /\ DrawnFrom(Samples(s.variable, d), Evaluate(s.variable, d))
  BY <1>1, SamplesType
<1> DEFINE sampled == IF c.variablesChanged THEN Samples(s.variable, d) ELSE c.samples
           setup   == IF c.variablesChanged \/ c.parametersChanged THEN c.param ELSE c.setup
<1>3. UserOptions(s) \in Values
  BY UserOptionsType
<1>4. e = [elaborated |-> TRUE, variablesChanged |-> FALSE, parametersChanged |-> FALSE,
           variable |-> IF c.variablesChanged THEN s.variable ELSE c.variable,
           option |-> UserOptions(s), param |-> c.param, setup |-> setup, samples |-> sampled]
  <2>1. c = [elaborated |-> c.elaborated, variablesChanged |-> c.variablesChanged,
             parametersChanged |-> c.parametersChanged, variable |-> c.variable,
             option |-> c.option, param |-> c.param, setup |-> c.setup, samples |-> c.samples]
    BY DEF Circuits
  <2> DEFINE updated == IF ~c.variablesChanged THEN c
                        ELSE [c EXCEPT !.variable = s.variable, !.samples = Samples(s.variable, d)]
  <2>2. updated = [elaborated |-> c.elaborated, variablesChanged |-> c.variablesChanged,
                   parametersChanged |-> c.parametersChanged,
                   variable |-> IF c.variablesChanged THEN s.variable ELSE c.variable,
                   option |-> c.option, param |-> c.param, setup |-> c.setup, samples |-> sampled]
    <3>1. CASE c.variablesChanged
      <4>1. updated = [c EXCEPT !.variable = s.variable, !.samples = Samples(s.variable, d)]
        BY <3>1
      <4> HIDE DEF updated
      <4> QED
        BY <2>1, <3>1, <4>1
    <3>2. CASE ~c.variablesChanged
      BY <2>1, <3>2
    <3> QED
      BY <3>1, <3>2
  <2>3. e = [updated EXCEPT !.elaborated = TRUE, !.variablesChanged = FALSE,
               !.parametersChanged = FALSE, !.option = UserOptions(s),
               !.setup = IF c.variablesChanged \/ c.parametersChanged THEN c.param ELSE @]
    BY DEF ChangesElaborated
  <2> HIDE DEF updated, e, sampled
  <2> QED
    BY <2>2, <2>3
<1>5. /\ e.elaborated /\ ~e.variablesChanged /\ ~e.parametersChanged
      /\ e.variable = (IF c.variablesChanged THEN s.variable ELSE c.variable)
      /\ e.option = UserOptions(s) /\ e.param = c.param /\ e.setup = setup /\ e.samples = sampled
  <2> HIDE DEF e, sampled, setup
  <2> QED
    BY <1>4
<1>6. /\ setup = c.param
      /\ ~c.variablesChanged => c.variable = s.variable
      /\ sampled \in Samplings /\ DOMAIN sampled = SitesAt[s.variable]
      /\ DrawnFrom(sampled, Generators(c, s, d))
  <2>1. CASE c.variablesChanged
    BY <1>2, <2>1 DEF Generators
  <2>2. CASE ~c.variablesChanged
    BY <2>2 DEF Generators, UpToDate, Circuits
  <2> QED
    BY <2>1, <2>2
<1> HIDE DEF e, sampled, setup
<1>7. e \in Circuits
  BY <1>1, <1>3, <1>4, <1>6 DEF Circuits
<1>8. Fresh(e, s, Generators(c, s, d))
  BY <1>5, <1>6, <1>7 DEF Fresh
<1> QED
  BY <1>5, <1>8 DEF e

\* One of the two runs before a command that needs the circuit.
LEMMA MinimalElaborationIsCurrent ==
    ASSUME NEW c \in Circuits, NEW s \in Sessions, NEW d, IsData(d), WithinBins(d),
           UpToDate(c, s, d)
    PROVE  /\ Fresh(MinimalElaboration(c, s, d), s, Generators(c, s, d))
           /\ c.elaborated => MinimalElaboration(c, s, d).param = c.param
BY ElaboratedIsCurrent, ChangesAreCurrent DEF MinimalElaboration, Generators, Circuits

\* The generators after an elaboration: the same loop, the same pass, and what was drawn.
LEMMA GeneratorsType ==
    ASSUME NEW c, NEW s \in Sessions, NEW d, IsData(d), WithinBins(d)
    PROVE  LET g == Generators(c, s, d) IN
           /\ IsData(g) /\ g.pass = d.pass /\ g.sample = d.sample /\ g.lhSamples = d.lhSamples
           /\ g = NoData <=> d = NoData
           /\ \A samples : DrawnFrom(samples, d) => DrawnFrom(samples, g)
<1>1. s.variable \in Values
  BY DEF Sessions
<1>2. CASE Generators(c, s, d) = d
  BY <1>2
<1>3. CASE Generators(c, s, d) = Evaluate(s.variable, d)
  BY <1>1, <1>3, EvaluateIsData, DrawnStays
<1> QED
  BY <1>2, <1>3 DEF Generators

-----------------------------------------------------------------------------
(* The inductive invariant                                                 *)

\* The position in a loop: behind the mc command that started it, with no mc or
\* endmc command in between.
InLoop ==
  loop # NoLoop =>
    /\ status = "Running"
    /\ loop.name \in names
    /\ loop.pass \in 1 .. loop.samples
    /\ loop.start \in 2 .. at
    /\ program[loop.start - 1].op = "mc"
    /\ program[loop.start - 1].name = loop.name
    /\ program[loop.start - 1].samples = loop.samples
    /\ \A k \in loop.start .. (at - 1) : program[k].op \notin {"mc", "endmc"}

\* An analysis that was tried is one of the control block. What was tried under the
\* present prefix is before the present position, what was tried outside of loops
\* before the loop, and no pass is ahead of the present one.
LoggedAt(r) ==
  /\ r.at \in 1 .. Len(program)
  /\ program[r.at].op = "analysis"
  /\ r.name = program[r.at].name /\ r.pss = program[r.at].pss
  /\ r.prefix # NoPrefix => r.prefix.name \in names /\ r.prefix.pass > 0
  /\ status = "Running" /\ r.prefix = prefix => r.at < at
  /\ loop # NoLoop =>
       /\ r.prefix = NoPrefix => r.at < loop.start
       /\ r.prefix # NoPrefix /\ r.prefix.name = loop.name => r.prefix.pass <= loop.pass

Logged == \A i \in DOMAIN ran : LoggedAt(ran[i])

OncePerPass ==
  \A i, j \in DOMAIN ran : i # j => <<ran[i].at, ran[i].prefix>> # <<ran[j].at, ran[j].prefix>>

\* Every mc command has its endmc command, and no other mc command before that
ClosedLoops(p) ==
  \A j \in DOMAIN p : p[j].op = "mc" =>
     \E e \in (j + 1) .. Len(p) :
        p[e].op = "endmc" /\ \A k \in (j + 1) .. (e - 1) : p[k].op # "mc"

\* mc commands before position n whose endmc command is not
Opened(n) ==
  {j \in 1 .. (n - 1) : /\ program[j].op = "mc"
                        /\ \A k \in j .. (n - 1) : program[k].op # "endmc"}

TriedIn(i, p) == \E k \in DOMAIN ran : ran[k].at = i /\ ran[k].prefix = p

AllTried(i) == program[i].op = "analysis" => \A p \in Passes(i) : TriedIn(i, p)

\* The analysis at i was tried in every pass of the loop up to now
TriedUpToNow(i) ==
  \A n \in 1 .. loop.pass :
     (n = loop.pass => i < at) => TriedIn(i, [name |-> loop.name, pass |-> n])

Tried ==
  status = "Running" =>
    /\ loop = NoLoop /\ Opened(at) = {} => \A i \in 1 .. (at - 1) : AllTried(i)
    /\ loop # NoLoop =>
         /\ \A i \in 1 .. (loop.start - 1) : AllTried(i)
         /\ \A i \in loop.start .. Len(program) :
              /\ program[i].op = "analysis"
              /\ \A k \in loop.start .. i : program[k].op # "endmc"
              => TriedUpToNow(i)

TriedWhenClosed == ClosedLoops(program) => Tried /\ EndMeansAllWasTried

\* While the block runs, the flags tell what in the circuit is out of date
CircuitKnown == status = "Running" => UpToDate(circuit, session, data)

\* What an analysis of this pass saw are still the values of the generators
PassKept ==
  loop # NoLoop => \A i \in DOMAIN ran : ran[i].prefix = prefix => DrawnFrom(ran[i].samples, data)

Inv ==
  /\ Shape /\ InLoop /\ Logged /\ OncePerPass /\ TriedWhenClosed /\ CircuitKnown /\ PassKept

-----------------------------------------------------------------------------
(* Steps, as far as the position is concerned: most commands go on to the  *)
(* next one or end the run, and only analyses are logged.                  *)

Logs(r) ==
  /\ program[at].op = "analysis" /\ at <= Len(program) /\ r \in Attempts
  /\ r.at = at /\ r.name = program[at].name /\ r.pss = program[at].pss /\ r.prefix = prefix
  /\ ran' = Append(ran, r)

GoesOn ==
  /\ status = "Running" /\ at <= Len(program)
  /\ program[at].op # "endmc"
  /\ program[at].op = "mc" => loop = NoLoop
  /\ program[at].op = "analysis" => ran' # ran
  /\ Proceed

Ends ==
  /\ status = "Running" /\ status' \in Statuses \ {"Running"}
  /\ loop' = NoLoop /\ prefix' = NoPrefix /\ at' = at
  /\ status' = "EndReached" => loop = NoLoop /\ at > Len(program) /\ ran' = ran

Plain ==
  /\ GoesOn \/ Ends
  /\ ran' = ran \/ \E r \in Attempts : Logs(r)
  /\ program' = program /\ names \subseteq names'

\* An element of a sequence that got one more is an old one, or the new one.
LEMMA Appended ==
    ASSUME Shape, NEW r \in Attempts
    PROVE  /\ DOMAIN Append(ran, r) = DOMAIN ran \cup {Len(ran) + 1}
           /\ Len(ran) + 1 \notin DOMAIN ran
           /\ \A i \in DOMAIN ran : Append(ran, r)[i] = ran[i]
           /\ Append(ran, r)[Len(ran) + 1] = r
BY DEF Shape

\* Outside of loops there is no prefix, in a loop it is that of the pass.
LEMMA PrefixOfLoop ==
    ASSUME Shape, InLoop
    PROVE  /\ loop = NoLoop => prefix = NoPrefix
           /\ loop # NoLoop => /\ prefix.name = loop.name /\ prefix.pass = loop.pass
                              /\ loop.pass \in Nat \ {0} /\ prefix # NoPrefix
                              /\ loop.name \in names
<1>1. CASE loop = NoLoop
  BY <1>1 DEF Shape, NoLoop, NoPrefix
<1>2. CASE loop # NoLoop
  <2>1. prefix.name = loop.name /\ prefix.pass = loop.pass
    BY DEF Shape
  <2>2. loop.pass \in Nat \ {0} /\ loop.name \in names
    BY <1>2 DEF InLoop, Shape, Loops
  <2>3. NoPrefix.pass = 0
    BY DEF NoPrefix
  <2> QED
    BY <1>2, <2>1, <2>2, <2>3
<1> QED
  BY <1>1, <1>2

\* A plain step stays in the body of the loop, or ends the loop with the run.
LEMMA PlainKeepsInLoop ==
    ASSUME Inv, Plain
    PROVE  InLoop'
<1>1. CASE GoesOn
  <2> SUFFICES ASSUME loop # NoLoop PROVE InLoop'
    BY <1>1 DEF GoesOn, Proceed, InLoop
  <2>1. at \in Nat /\ loop.start \in 2 .. at /\ at' = at + 1
    BY <1>1 DEF GoesOn, Proceed, Inv, Shape, InLoop
  <2>2. loop' = loop /\ program' = program /\ status' = status /\ names \subseteq names'
    BY <1>1 DEF GoesOn, Proceed, Plain
  <2>3. \A k \in loop.start .. at : program[k].op \notin {"mc", "endmc"}
    BY <1>1, <2>1 DEF GoesOn, Inv, InLoop
  <2>4. loop.start \in Nat /\ loop.start \in 2 .. (at + 1) /\ (at + 1) - 1 = at
    BY <2>1
  <2> QED
    BY <2>1, <2>2, <2>3, <2>4 DEF Inv, InLoop
<1>2. CASE Ends
  BY <1>2 DEF Ends, InLoop
<1> QED
  BY <1>1, <1>2 DEF Plain

\* What is logged in a plain step is at the position it leaves.
LEMMA PlainKeepsLogged ==
    ASSUME Inv, Plain, Shape'
    PROVE  Logged'
<1>1. ASSUME NEW r, LoggedAt(r)
      PROVE  LoggedAt(r)'
  <2>1. CASE GoesOn
    <3>1. /\ loop' = loop /\ program' = program /\ status' = status /\ prefix' = prefix
          /\ names \subseteq names' /\ at' = at + 1
      BY <2>1 DEF GoesOn, Proceed, Plain
    <3>2. r.at < at => r.at < at + 1
      BY <1>1, ProgramTypes DEF LoggedAt, Inv, Shape
    <3> QED
      BY <1>1, <3>1, <3>2 DEF LoggedAt
  <2>2. CASE Ends
    BY <1>1, <2>2 DEF Plain, Ends, LoggedAt
  <2> QED
    BY <2>1, <2>2 DEF Plain
<1>2. CASE ran' = ran
  BY <1>1, <1>2 DEF Inv, Logged
<1>3. ASSUME NEW r \in Attempts, Logs(r)
      PROVE  Logged'
  <2>1. LoggedAt(r)'
    <3>1. /\ r.at = at /\ at \in 1 .. Len(program) /\ program[at].op = "analysis"
          /\ r.name = program[at].name /\ r.pss = program[at].pss /\ r.prefix = prefix
          /\ program' = program /\ names \subseteq names'
      BY <1>3, ProgramTypes DEF Logs, Plain, Inv, Shape
    <3>2. /\ loop = NoLoop => prefix = NoPrefix
          /\ loop # NoLoop => /\ prefix # NoPrefix /\ prefix.pass = loop.pass /\ loop.pass \in Nat \ {0}
                             /\ prefix.name \in names
      BY PrefixOfLoop DEF Inv
    <3>3. CASE GoesOn
      <4>1. /\ loop' = loop /\ program' = program /\ status' = status /\ prefix' = prefix
            /\ at' = at + 1 /\ at < at + 1
        BY <3>1, <3>3 DEF GoesOn, Proceed
      <4>2. r.prefix # NoPrefix => r.prefix.name \in names' /\ r.prefix.pass > 0
        BY <3>1, <3>2
      <4>3. loop # NoLoop => r.prefix # NoPrefix /\ r.prefix.pass <= loop.pass
        BY <3>1, <3>2
      <4> QED
        BY <3>1, <4>1, <4>2, <4>3 DEF LoggedAt
    <3>4. CASE Ends
      <4>1. r.prefix # NoPrefix => r.prefix.name \in names' /\ r.prefix.pass > 0
        BY <3>1, <3>2
      <4> QED
        BY <3>1, <3>4, <4>1 DEF Ends, LoggedAt
    <3> QED
      BY <3>3, <3>4 DEF Plain
  <2> QED
    BY <1>1, <1>3, <2>1, Appended DEF Logs, Logged, Inv
<1> QED
  BY <1>2, <1>3 DEF Plain

\* Nothing logged with the present prefix is at the present position.
LEMMA PlainKeepsOncePerPass ==
    ASSUME Inv, Plain
    PROVE  OncePerPass'
<1>1. CASE ran' = ran
  BY <1>1 DEF Inv, OncePerPass
<1>2. ASSUME NEW r \in Attempts, Logs(r)
      PROVE  OncePerPass'
  <2>1. status = "Running"
    BY DEF Plain, GoesOn, Ends
  <2>2. \A i \in DOMAIN ran : <<ran[i].at, ran[i].prefix>> # <<r.at, r.prefix>>
    BY <1>2, <2>1 DEF Logs, Inv, Logged, LoggedAt, Shape
  <2> QED
    BY <1>2, <2>2, Appended DEF Logs, Inv, OncePerPass
<1> QED
  BY <1>1, <1>2 DEF Plain

\* What was tried stays tried, and the passes to be tried are those of the block.
LEMMA TriedStays ==
    ASSUME Shape, program' = program, ran' = ran \/ \E r \in Attempts : Logs(r)
    PROVE  /\ \A i, p : TriedIn(i, p) => TriedIn(i, p)'
           /\ \A i : AllTried(i) => AllTried(i)'
<1>1. ASSUME NEW i, NEW p, TriedIn(i, p)
      PROVE  TriedIn(i, p)'
  <2>1. PICK k \in DOMAIN ran : ran[k].at = i /\ ran[k].prefix = p
    BY <1>1 DEF TriedIn
  <2>2. k \in DOMAIN ran' /\ ran'[k] = ran[k]
    BY Appended DEF Logs
  <2> QED
    BY <2>1, <2>2 DEF TriedIn
<1>2. ASSUME NEW i, AllTried(i)
      PROVE  AllTried(i)'
  <2>1. Passes(i)' = Passes(i)
    BY DEF Passes, LoopAround
  <2>2. program[i].op = "analysis" => \A p \in Passes(i) : TriedIn(i, p)
    BY <1>2 DEF AllTried
  <2> QED
    BY <1>1, <2>1, <2>2 DEF AllTried
<1> QED
  BY <1>1, <1>2

\* Loops that are closed are not nested: no loop is open at an mc command, and none
\* at the end of the block.
LEMMA NothingOpened ==
    ASSUME Shape, ClosedLoops(program)
    PROVE  /\ \A n \in 1 .. Len(program) : program[n].op = "mc" => Opened(n) = {}
           /\ Opened(Len(program) + 1) = {}
<1>1. ASSUME NEW n \in 1 .. (Len(program) + 1), NEW j \in Opened(n)
      PROVE  \E e \in n .. Len(program) : /\ program[e].op = "endmc"
                                          /\ \A k \in n .. (e - 1) : program[k].op # "mc"
  <2>1. j \in 1 .. (n - 1) /\ program[j].op = "mc" /\ \A k \in j .. (n - 1) : program[k].op # "endmc"
    BY <1>1 DEF Opened
  <2>2. Len(program) \in Nat /\ j \in DOMAIN program
    BY <2>1, ProgramTypes
  <2>3. PICK e \in (j + 1) .. Len(program) :
              program[e].op = "endmc" /\ \A k \in (j + 1) .. (e - 1) : program[k].op # "mc"
    BY <2>1, <2>2 DEF ClosedLoops
  <2>4. e \in n .. Len(program)
    BY <2>1, <2>2, <2>3
  <2> QED
    BY <2>1, <2>2, <2>3, <2>4
<1>2. ASSUME NEW n \in 1 .. Len(program), program[n].op = "mc", Opened(n) # {}
      PROVE  FALSE
  <2>1. n \in 1 .. (Len(program) + 1) /\ n \in Nat
    BY ProgramTypes
  <2>2. PICK j \in Opened(n) : TRUE
    BY <1>2
  <2>3. PICK e \in n .. Len(program) : /\ program[e].op = "endmc"
                                       /\ \A k \in n .. (e - 1) : program[k].op # "mc"
    BY <1>1, <2>1, <2>2
  <2>4. e # n /\ n \in n .. (e - 1)
    BY <1>2, <2>1, <2>3, ProgramTypes
  <2> QED
    BY <1>2, <2>3, <2>4
<1>3. Opened(Len(program) + 1) = {}
  BY <1>1, ProgramTypes
<1> QED
  BY <1>2, <1>3

\* A loop that is open at a position, or around it, is still open behind it.
LEMMA StaysOpened ==
    ASSUME NEW n \in Nat, program[n].op # "endmc"
    PROVE  Opened(n) \subseteq Opened(n + 1) /\ LoopAround(n) \subseteq Opened(n + 1)
BY DEF Opened, LoopAround

\* A plain step that leaves an analysis behind has tried it.
LEMMA PlainKeepsTried ==
    ASSUME Inv, Plain
    PROVE  TriedWhenClosed'
<1>1. program' = program /\ Len(program) \in Nat
  BY ProgramTypes DEF Plain, Inv
<1> SUFFICES ASSUME ClosedLoops(program)
             PROVE  Tried' /\ EndMeansAllWasTried'
  BY <1>1 DEF TriedWhenClosed
<1>2. /\ \A i, p : TriedIn(i, p) => TriedIn(i, p)'
      /\ \A i : AllTried(i) => AllTried(i)'
  BY TriedStays DEF Plain, Inv
<1>3. Tried /\ at \in Nat /\ status = "Running"
  BY DEF Inv, Shape, TriedWhenClosed, Plain, GoesOn, Ends
<1>4. ASSUME GoesOn
      PROVE  Tried' /\ EndMeansAllWasTried'
  <2>1. /\ at' = at + 1 /\ status' = "Running" /\ loop' = loop /\ prefix' = prefix
        /\ program[at].op # "endmc"
    BY <1>3, <1>4 DEF GoesOn, Proceed
  <2>2. ASSUME NEW i, i = at, program[i].op = "analysis", NEW p, p = prefix
        PROVE  TriedIn(i, p)'
    <3>1. SUFFICES ASSUME NEW r \in Attempts, Logs(r)
                   PROVE  TriedIn(i, p)'
      BY <1>4, <2>2 DEF GoesOn, Plain
    <3>2. Len(ran) + 1 \in DOMAIN ran' /\ ran'[Len(ran) + 1].at = i
          /\ ran'[Len(ran) + 1].prefix = p
      BY <2>2, <3>1, Appended DEF Logs, Inv
    <3> QED
      BY <3>2 DEF TriedIn
  <2>3. ASSUME loop = NoLoop, Opened(at + 1) = {}, NEW i \in 1 .. at
        PROVE  AllTried(i)'
    <3>1. CASE i \in 1 .. (at - 1)
      <4>1. Opened(at) = {}
        BY <1>3, <2>1, <2>3, StaysOpened
      <4> QED
        BY <1>2, <1>3, <2>3, <3>1, <4>1 DEF Tried
    <3>2. CASE i = at
      <4>1. LoopAround(at) = {}
        BY <1>3, <2>1, <2>3, StaysOpened
      <4>2. Passes(i)' = Passes(i)
        BY <1>1 DEF Passes, LoopAround
      <4>3. Passes(i) = {prefix}
        BY <2>3, <3>2, <4>1, PrefixOfLoop DEF Passes, Inv
      <4> QED
        BY <1>1, <2>2, <3>2, <4>2, <4>3 DEF AllTried
    <3> QED
      BY <1>3, <2>3, <3>1, <3>2
  <2>4. ASSUME loop # NoLoop, NEW i \in loop.start .. Len(program), program[i].op = "analysis",
               \A k \in loop.start .. i : program[k].op # "endmc"
        PROVE  TriedUpToNow(i)'
    <3> SUFFICES ASSUME NEW n \in 1 .. loop.pass, n = loop.pass => i < at + 1,
                        NEW p, p = [name |-> loop.name, pass |-> n]
                 PROVE  TriedIn(i, p)'
      BY <2>1 DEF TriedUpToNow
    <3>1. CASE n = loop.pass => i < at
      BY <1>2, <1>3, <2>4, <3>1 DEF Tried, TriedUpToNow
    <3>2. CASE n = loop.pass /\ i = at
      <4>1. p = prefix
        BY <3>2 DEF Inv, Shape
      <4> QED
        BY <2>2, <2>4, <3>2, <4>1
    <3> QED
      BY <1>3, <2>4, <3>1, <3>2 DEF Inv, Shape, Loops, InLoop
  <2>5. Tried'
    <3>1. Opened(at)' = Opened(at + 1) /\ at' - 1 = at
      BY <1>1, <1>3, <2>1 DEF Opened
    <3> QED
      BY <1>1, <1>2, <1>3, <2>1, <2>3, <2>4, <3>1 DEF Tried
  <2> QED
    BY <2>1, <2>5 DEF EndMeansAllWasTried
<1>5. ASSUME Ends
      PROVE  Tried' /\ EndMeansAllWasTried'
  <2>1. Tried'
    BY <1>5 DEF Ends, Tried
  <2>2. ASSUME status' = "EndReached"
        PROVE  EndMeansAllWasTried'
    <3>1. loop = NoLoop /\ at = Len(program) + 1
      BY <1>5, <2>2 DEF Ends, Inv, Shape
    <3>2. \A i \in 1 .. Len(program) : AllTried(i)'
      BY <1>1, <1>2, <1>3, <3>1, NothingOpened DEF Tried, Inv
    <3> QED
      BY <1>1, <3>2, ProgramTypes DEF EndMeansAllWasTried, AllTried, TriedIn, Inv
  <2> QED
    BY <2>1, <2>2 DEF EndMeansAllWasTried
<1> QED
  BY <1>4, <1>5 DEF Plain

-----------------------------------------------------------------------------
(* The position, when a loop starts, goes to its next pass, or ends        *)

Control == InLoop /\ Logged /\ OncePerPass /\ TriedWhenClosed

\* What was tried has a place in the block and a prefix.
LEMMA AttemptTypes ==
    ASSUME Inv, NEW i \in DOMAIN ran
    PROVE  /\ LoggedAt(ran[i]) /\ ran[i].prefix.pass \in Nat /\ ran[i].at \in Nat
<1>1. ran[i] \in Attempts
  BY DEF Inv, Shape
<1> QED
  BY <1>1 DEF Inv, Logged, Attempts, PassPrefixes

\* A pass begins at the first command of the body, and nothing has its prefix yet.
LEMMA BeginPass ==
    ASSUME Inv, NEW l \in Loops, program' = program, ran' = ran, names \subseteq names',
           status = "Running", status' = status, loop' = l, at' = l.start,
           prefix' = [name |-> l.name, pass |-> l.pass],
           l.name \in names', l.pass \in 1 .. l.samples, l.start \in 2 .. (Len(program) + 1),
           program[l.start - 1].op = "mc", program[l.start - 1].name = l.name,
           program[l.start - 1].samples = l.samples,
           \A i \in DOMAIN ran :
              /\ ran[i].prefix = NoPrefix => ran[i].at < l.start
              /\ ran[i].prefix # NoPrefix /\ ran[i].prefix.name = l.name => ran[i].prefix.pass < l.pass,
           ClosedLoops(program) =>
              /\ \A i \in 1 .. (l.start - 1) : AllTried(i)
              /\ \A i \in l.start .. Len(program) :
                   /\ program[i].op = "analysis"
                   /\ \A k \in l.start .. i : program[k].op # "endmc"
                   => \A n \in 1 .. (l.pass - 1) : TriedIn(i, [name |-> l.name, pass |-> n])
    PROVE  Control'
<1>1. l.pass \in Nat \ {0} /\ l.start \in Nat /\ l # NoLoop
  <2>1. l.pass \in Nat /\ l.samples \in Nat /\ l.start \in Nat
    BY DEF Loops
  <2>2. l.pass # 0 /\ NoLoop.pass = 0
    BY <2>1 DEF NoLoop
  <2> QED
    BY <2>1, <2>2
<1>2. InLoop'
  BY <1>1 DEF InLoop
<1>3. Logged'
  <2> SUFFICES ASSUME NEW i \in DOMAIN ran
               PROVE  LoggedAt(ran[i])'
    BY DEF Logged
  <2>1. LoggedAt(ran[i]) /\ ran[i].prefix.pass \in Nat
    BY AttemptTypes
  <2>2. ran[i].prefix # prefix'
    <3>1. prefix'.pass = l.pass /\ prefix'.name = l.name /\ NoPrefix.pass = 0
      BY DEF NoPrefix
    <3>2. prefix' # NoPrefix
      BY <1>1, <3>1
    <3> QED
      BY <1>1, <2>1, <3>1, <3>2
  <2>3. ran[i].prefix # NoPrefix /\ ran[i].prefix.name = l.name => ran[i].prefix.pass <= l.pass
    BY <1>1, <2>1
  <2> QED
    BY <2>1, <2>2, <2>3 DEF LoggedAt
<1>4. OncePerPass'
  BY DEF Inv, OncePerPass
<1>5. TriedWhenClosed'
  <2> SUFFICES ASSUME ClosedLoops(program)
               PROVE  Tried' /\ EndMeansAllWasTried'
    BY DEF TriedWhenClosed
  <2>1. /\ \A i, p : TriedIn(i, p) => TriedIn(i, p)'
        /\ \A i : AllTried(i) => AllTried(i)'
    BY TriedStays DEF Inv
  <2>2. ASSUME NEW i \in l.start .. Len(program), program[i].op = "analysis",
               \A k \in l.start .. i : program[k].op # "endmc"
        PROVE  TriedUpToNow(i)'
    <3>1. SUFFICES ASSUME NEW n \in 1 .. l.pass, n = l.pass => i < l.start,
                          NEW p, p = [name |-> l.name, pass |-> n]
                   PROVE  TriedIn(i, p)'
      BY DEF TriedUpToNow
    <3>2. n \in 1 .. (l.pass - 1)
      BY <1>1, <3>1
    <3> QED
      BY <2>1, <2>2, <3>1, <3>2
  <2> QED
    BY <1>1, <2>1, <2>2 DEF Tried, EndMeansAllWasTried
<1> QED
  BY <1>2, <1>3, <1>4, <1>5 DEF Control

\* A loop that starts.
LEMMA NewLoopType ==
    ASSUME NEW name \in STRING, NEW n \in Nat, NEW strict \in BOOLEAN, NEW i \in Nat
    PROVE  [name |-> name, start |-> i + 1, samples |-> n, strict |-> strict, pass |-> 1, ngen |-> 0]
             \in Loops
<1>1. name \in LoopNames
  BY DEF LoopNames
<1>2. i + 1 \in Nat /\ 1 \in Nat /\ 0 \in Nat
  OBVIOUS
<1> QED
  BY <1>1, <1>2, Zenon DEF Loops

\* A loop starts behind its mc command, under a name nothing was logged with.
LEMMA StartLoopKeepsControl ==
    ASSUME Inv, StartLoop
    PROVE  Control'
<1> DEFINE l == [name |-> program[at].name, start |-> at + 1, samples |-> program[at].samples,
                 strict |-> program[at].strict, pass |-> 1, ngen |-> 0]
<1>1. /\ status = "Running" /\ at \in 1 .. Len(program) /\ program[at].op = "mc" /\ loop = NoLoop
      /\ program[at].name \notin names /\ program[at].samples > 0
      /\ names' = names \cup {program[at].name} /\ program' = program /\ ran' = ran
      /\ status' = status /\ loop' = l /\ at' = l.start /\ prefix' = [name |-> l.name, pass |-> l.pass]
  BY DEF StartLoop, Current, StartPass, Inv, Shape
<1>2. l \in Loops /\ at \in Nat /\ l.start - 1 = at /\ Len(program) \in Nat
  <2>1. at \in Nat /\ Len(program) \in Nat /\ program[at] \in AllCommands
    BY <1>1, ProgramTypes DEF Inv, Shape
  <2>2. program[at].name \in STRING /\ program[at].samples \in Nat /\ program[at].strict \in BOOLEAN
    BY <1>1, <2>1, CommandTypes
  <2>3. l \in Loops
    BY <2>1, <2>2, NewLoopType
  <2>4. l.start = at + 1
    OBVIOUS
  <2> QED
    BY <2>1, <2>3, <2>4
<1>3. /\ l.name = program[at].name /\ l.samples = program[at].samples /\ l.start = at + 1 /\ l.pass = 1
      /\ l.pass \in 1 .. l.samples
  BY <1>1, <1>2 DEF Loops
<1>4. prefix = NoPrefix
  BY <1>1, PrefixOfLoop DEF Inv
<1>5. ASSUME NEW i \in DOMAIN ran
      PROVE  /\ ran[i].prefix = NoPrefix => ran[i].at < l.start
             /\ ran[i].prefix # NoPrefix => ran[i].prefix.name # l.name
  BY <1>1, <1>2, <1>3, <1>4 DEF Inv, Logged, LoggedAt, Shape
<1>6. ASSUME ClosedLoops(program), NEW i \in 1 .. at
      PROVE  AllTried(i)
  <2>1. CASE i = at
    BY <1>1, <2>1 DEF AllTried
  <2>2. CASE i \in 1 .. (at - 1)
    BY <1>1, <1>6, <2>2, NothingOpened DEF Inv, TriedWhenClosed, Tried
  <2> QED
    BY <1>2, <1>6, <2>1, <2>2
<1> HIDE DEF l
<1> QED
  BY <1>1, <1>2, <1>3, <1>5, <1>6, BeginPass

\* The next pass starts after all analyses of the body were tried in this one.
LEMMA EndPassKeepsControl ==
    ASSUME Inv, EndPass
    PROVE  Control'
<1> DEFINE l == [loop EXCEPT !.pass = @ + 1, !.ngen = IF loop.pass = 1 THEN Count(data) ELSE @]
<1>1. /\ status = "Running" /\ at \in 1 .. Len(program) /\ program[at].op = "endmc" /\ loop # NoLoop
      /\ loop.pass # loop.samples
      /\ names' = names /\ program' = program /\ ran' = ran
      /\ status' = status /\ loop' = l /\ at' = l.start /\ prefix' = [name |-> l.name, pass |-> l.pass]
  BY DEF EndPass, Current, StartPass, Inv, Shape, LastPass
<1>2. Count(data) \in Nat
  BY CountType DEF Inv, Shape
<1>3. /\ l \in Loops /\ l.name = loop.name /\ l.start = loop.start /\ l.samples = loop.samples
      /\ l.pass = loop.pass + 1 /\ loop.pass \in Nat /\ loop.samples \in Nat /\ loop.start \in Nat
  <2>1. loop \in Loops
    BY DEF Inv, Shape
  <2>2. l \in Loops
    <3> DEFINE g == IF loop.pass = 1 THEN Count(data) ELSE loop.ngen
    <3>1. g \in Nat /\ loop.pass + 1 \in Nat
      BY <1>2, <2>1 DEF Loops
    <3>2. l = [loop EXCEPT !.pass = loop.pass + 1, !.ngen = g]
      BY <2>1 DEF Loops
    <3> HIDE DEF g, l
    <3> QED
      BY <2>1, <3>1, <3>2 DEF Loops
  <2> QED
    BY <2>1, <2>2 DEF Loops
<1> HIDE DEF l
<1>4. l.pass \in 1 .. l.samples /\ l.start \in 2 .. (Len(program) + 1) /\ l.start <= at /\ at \in Nat
      /\ Len(program) \in Nat
  BY <1>1, <1>3, ProgramTypes DEF Inv, InLoop
<1>5. ASSUME NEW i \in DOMAIN ran
      PROVE  /\ ran[i].prefix = NoPrefix => ran[i].at < l.start
             /\ ran[i].prefix # NoPrefix /\ ran[i].prefix.name = l.name => ran[i].prefix.pass < l.pass
  <2>1. LoggedAt(ran[i]) /\ ran[i].prefix.pass \in Nat
    BY AttemptTypes
  <2> QED
    BY <1>1, <1>3, <2>1 DEF LoggedAt
<1>6. ASSUME ClosedLoops(program)
      PROVE  /\ \A i \in 1 .. (l.start - 1) : AllTried(i)
             /\ \A i \in l.start .. Len(program) :
                  /\ program[i].op = "analysis"
                  /\ \A k \in l.start .. i : program[k].op # "endmc"
                  => \A n \in 1 .. (l.pass - 1) : TriedIn(i, [name |-> l.name, pass |-> n])
  <2>1. Tried
    BY <1>6 DEF Inv, TriedWhenClosed
  <2>2. ASSUME NEW i \in l.start .. Len(program), program[i].op = "analysis",
               \A k \in l.start .. i : program[k].op # "endmc", NEW n \in 1 .. (l.pass - 1)
        PROVE  TriedIn(i, [name |-> l.name, pass |-> n])
    <3>1. i < at
      BY <1>1, <1>4, <2>2
    <3>2. TriedUpToNow(i) /\ n \in 1 .. loop.pass
      BY <1>1, <1>3, <2>1, <2>2 DEF Tried
    <3> QED
      BY <1>3, <3>1, <3>2 DEF TriedUpToNow
  <2> QED
    BY <1>1, <1>3, <2>1, <2>2 DEF Tried
<1>7. /\ l.name \in names' /\ program[l.start - 1].op = "mc" /\ program[l.start - 1].name = l.name
      /\ program[l.start - 1].samples = l.samples
  BY <1>1, <1>3 DEF Inv, InLoop
<1> QED
  BY <1>1, <1>3, <1>4, <1>5, <1>6, <1>7, BeginPass

\* When a loop ends, all analyses of its body were tried in all passes.
LEMMA EndLoopKeepsControl ==
    ASSUME Inv, EndLoop
    PROVE  Control'
<1>1. /\ status = "Running" /\ at \in 1 .. Len(program) /\ program[at].op = "endmc" /\ loop # NoLoop
      /\ loop.pass = loop.samples /\ names' = names /\ program' = program /\ ran' = ran
      /\ status' = status /\ loop' = NoLoop /\ prefix' = NoPrefix /\ at' = at + 1
  BY DEF EndLoop, Current, LastPass, Inv, Shape
<1>2. /\ at \in Nat /\ Len(program) \in Nat /\ loop.start \in 2 .. at /\ loop.pass \in Nat \ {0}
  BY <1>1, ProgramTypes DEF Inv, InLoop, Shape, Loops
<1>3. InLoop' /\ OncePerPass'
  BY <1>1 DEF InLoop, OncePerPass, Inv
<1>4. Logged'
  <2> SUFFICES ASSUME NEW i \in DOMAIN ran
               PROVE  LoggedAt(ran[i])'
    BY <1>1 DEF Logged
  <2>1. LoggedAt(ran[i]) /\ ran[i].at \in Nat
    BY AttemptTypes
  <2>2. ran[i].prefix = NoPrefix => ran[i].at < at + 1
    BY <1>1, <1>2, <2>1 DEF LoggedAt
  <2> QED
    BY <1>1, <2>1, <2>2 DEF LoggedAt
<1>5. ASSUME ClosedLoops(program), NEW i \in 1 .. at
      PROVE  AllTried(i)
  <2>1. Tried
    BY <1>5 DEF Inv, TriedWhenClosed
  <2>2. CASE i \in 1 .. (loop.start - 1)
    BY <1>1, <2>1, <2>2 DEF Tried
  <2>3. CASE i \in loop.start .. at
    <3> SUFFICES ASSUME program[i].op = "analysis", NEW p \in Passes(i)
                 PROVE  TriedIn(i, p)
      BY DEF AllTried
    <3>1. i < at /\ \A k \in loop.start .. i : program[k].op \notin {"mc", "endmc"}
      BY <1>1, <1>2, <2>3 DEF Inv, InLoop
    <3>2. LoopAround(i) = {loop.start - 1}
      <4>1. loop.start - 1 \in LoopAround(i)
        BY <1>1, <1>2, <2>3, <3>1 DEF LoopAround, Inv, InLoop
      <4>2. ASSUME NEW j \in LoopAround(i)
            PROVE  j = loop.start - 1
        <5>1. j \in 1 .. (i - 1) /\ program[j].op = "mc" /\ \A k \in j .. i : program[k].op # "endmc"
          BY DEF LoopAround
        <5>2. ~(j >= loop.start)
          BY <1>2, <2>3, <3>1, <5>1
        <5>3. ~(j < loop.start - 1)
          <6>1. SUFFICES ASSUME j < loop.start - 1
                         PROVE  FALSE
            OBVIOUS
          <6>2. j \in Opened(loop.start - 1)
            BY <1>2, <2>3, <5>1, <6>1 DEF Opened
          <6> QED
            BY <1>1, <1>2, <1>5, <6>2, NothingOpened DEF Inv, InLoop
        <5> QED
          BY <1>2, <5>1, <5>2, <5>3
      <4> QED
        BY <4>1, <4>2
    <3>3. Passes(i) = {[name |-> loop.name, pass |-> n] : n \in 1 .. loop.samples}
      BY <1>1, <3>2 DEF Passes, Inv, InLoop
    <3>4. PICK n \in 1 .. loop.pass : p = [name |-> loop.name, pass |-> n]
      BY <1>1, <3>3
    <3>5. TriedUpToNow(i)
      BY <1>1, <1>2, <2>1, <2>3, <3>1 DEF Tried
    <3> QED
      BY <3>1, <3>4, <3>5 DEF TriedUpToNow
  <2> QED
    BY <1>2, <1>5, <2>2, <2>3
<1>6. TriedWhenClosed'
  <2> SUFFICES ASSUME ClosedLoops(program)
               PROVE  Tried' /\ EndMeansAllWasTried'
    BY <1>1 DEF TriedWhenClosed
  <2>1. \A i : AllTried(i) => AllTried(i)'
    BY <1>1, TriedStays DEF Inv
  <2> QED
    BY <1>1, <1>2, <1>5, <2>1 DEF Tried, EndMeansAllWasTried
<1> QED
  BY <1>3, <1>4, <1>6 DEF Control

-----------------------------------------------------------------------------
(* The other commands are plain steps.                                     *)

Others ==
  \/ SetVariable \/ SetVariableFails \/ SetOptions \/ AddSaves \/ ClearSession
  \/ SetAbortPolicy \/ Postprocess \/ BadCommand
  \/ AlterParameter \/ AlterParameterFails
  \/ ElaborateChanges \/ ElaborateCircuit \/ ElaborationFails
  \/ LoopIsRefused \/ FirstPassFails \/ LoopArgumentsFail \/ EndLoopFails \/ EndOfBlock

\* All commands but analyses and the steps of a loop go on or end the run.
LEMMA OthersArePlain ==
    ASSUME Inv, Others
    PROVE  Plain
<1>1. program \in Seq(AllCommands) /\ Len(program) \in Nat /\ at \in Nat
  BY ProgramTypes DEF Inv, Shape
<1>2. CASE \/ SetVariable \/ SetOptions \/ AddSaves \/ ClearSession \/ SetAbortPolicy
           \/ AlterParameter \/ ElaborateCircuit
  BY <1>1, <1>2 DEF SetVariable, SetOptions, AddSaves, ClearSession, SetAbortPolicy, AlterParameter,
     ElaborateCircuit, Current, Plain, GoesOn
<1>3. CASE SetVariableFails \/ Postprocess \/ AlterParameterFails
  BY <1>1, <1>3 DEF SetVariableFails, Postprocess, AlterParameterFails, Current, Fails, Stop,
     Plain, GoesOn, Ends, Statuses
<1>4. CASE ElaborateChanges \/ LoopArgumentsFail
  BY <1>1, <1>4 DEF ElaborateChanges, PrintFails, LoopArgumentsFail, Current, Fails, Stop, Plain, GoesOn, Ends,
     Statuses
<1>5. CASE BadCommand \/ ElaborationFails \/ LoopIsRefused \/ FirstPassFails \/ EndLoopFails
  BY <1>1, <1>5 DEF BadCommand, ElaborationFails, LoopIsRefused, FirstPassFails, EndLoopFails, Current, HardFault, Stop,
     Plain, Ends, Statuses
<1>6. CASE EndOfBlock
  BY <1>1, <1>6 DEF EndOfBlock, Stop, Plain, Ends, Statuses
<1> QED
  BY <1>2, <1>3, <1>4, <1>5, <1>6 DEF Others

\* What an analysis saw has the types of the circuit.
LEMMA SeenType ==
    ASSUME Inv, Current("analysis"), NEW c \in Circuits, NEW ok \in BOOLEAN
    PROVE  /\ InForce(c) \in Values
           /\ Seen(c, InForce(c), ok) \in Attempts
<1>1. InForce(c) \in Values
  BY AppliedType DEF InForce, Inv, Shape, Sessions, Circuits
<1>2. at \in Nat /\ program[at].name \in STRING /\ program[at].pss \in BOOLEAN
  BY ProgramTypes, CommandTypes DEF Inv, Shape, Current
<1>3. prefix \in PassPrefixes
  BY DEF Inv, Shape, PassPrefixes, Loops
<1> QED
  BY <1>1, <1>2, <1>3 DEF Seen, Attempts, Circuits

\* The generators and the circuit after the elaboration a command begins with.
LEMMA ElaborationInRun ==
    ASSUME Inv, status = "Running"
    PROVE  /\ WithinBins(data)
           /\ UpToDate(circuit, session, data)
           /\ Fresh(MinimalElaboration(circuit, session, data), session,
                    Generators(circuit, session, data))
<1>1. IsData(data) /\ circuit \in Circuits /\ session \in Sessions
  BY DEF Inv, Shape
<1>2. WithinBins(data)
  <2>1. CASE loop = NoLoop
    BY <2>1 DEF Inv, Shape, WithinBins, NoData
  <2>2. CASE loop # NoLoop
    <3>1. data.sample \in Nat /\ loop.pass \in 1 .. loop.samples /\ loop.pass \in Nat /\ loop.samples \in Nat
      BY <2>2 DEF Inv, Shape, InLoop, Loops, IsData
    <3> QED
      BY <2>2, <3>1 DEF Inv, Shape, WithinBins
  <2> QED
    BY <2>1, <2>2
<1>3. UpToDate(circuit, session, data)
  BY DEF Inv, CircuitKnown
<1> QED
  BY <1>1, <1>2, <1>3, MinimalElaborationIsCurrent

\* An analysis logs itself, then goes on or ends the run.
LEMMA AnalysesArePlain ==
    ASSUME Inv, RunAnalysis \/ AnalysisFails
    PROVE  Plain
<1> DEFINE c == MinimalElaboration(circuit, session, data)
<1>1. /\ Current("analysis") /\ program' = program /\ names' = names
      /\ Proceed \/ Fails("analysis")
  BY DEF RunAnalysis, AnalysisFails
<1>2. c \in Circuits
  BY <1>1, ElaborationInRun DEF Fresh, Current
<1> HIDE DEF c
<1>3. PICK ok \in BOOLEAN : ran' = Append(ran, Seen(c, InForce(c), ok))
  BY DEF RunAnalysis, AnalysisFails, c
<1>4. Seen(c, InForce(c), ok) \in Attempts
  BY <1>1, <1>2, SeenType
<1>5. Logs(Seen(c, InForce(c), ok))
  BY <1>1, <1>3, <1>4 DEF Logs, Seen, Current
<1>6. ran' # ran
  BY <1>3, <1>4, Appended DEF Inv
<1> QED
  BY <1>1, <1>4, <1>5, <1>6 DEF Plain, GoesOn, Ends, Fails, Stop, Current, Statuses

-----------------------------------------------------------------------------
(* What plain steps do to the circuit and the generators                   *)

\* The generators d are those of the same pass, with everything that was drawn
Keeps(d) ==
  /\ IsData(d) /\ d.pass = data.pass /\ d.sample = data.sample /\ d.lhSamples = data.lhSamples
  /\ d = NoData <=> data = NoData
  /\ \A samples : DrawnFrom(samples, data) => DrawnFrom(samples, d)

\* A plain step that leaves the circuit with the right flags keeps the invariant.
LEMMA PlainKeepsInv ==
    ASSUME Inv, Plain, NEW d, Keeps(d), DataOf(d),
           abort' \in Policies,
           session' \in Sessions, circuit' \in Circuits, names' \in SUBSET STRING,
           GoesOn => UpToDate(circuit', session', d),
           ran' = ran \/ \E r \in Attempts : Logs(r) /\ DrawnFrom(r.samples, d)
    PROVE  Inv'
<1>1. program' = program /\ Len(program) \in Nat /\ at \in Nat
  BY ProgramTypes DEF Plain, Inv, Shape
<1>2. /\ at' \in 1 .. (Len(program) + 1) /\ status' \in Statuses /\ loop' \in Loops
      /\ prefix' = [name |-> loop'.name, pass |-> loop'.pass]
  <2>1. NoLoop \in Loops /\ NoPrefix = [name |-> NoLoop.name, pass |-> NoLoop.pass]
    <3>1. NoLoop \in Loops /\ NoLoop.name = "" /\ NoLoop.pass = 0
      BY DEF NoLoop, Loops, LoopNames
    <3> QED
      BY <3>1 DEF NoPrefix
  <2>2. CASE GoesOn
    BY <1>1, <2>2 DEF GoesOn, Proceed, Inv, Shape
  <2>3. CASE Ends
    BY <2>1, <2>3 DEF Ends, Inv, Shape
  <2> QED
    BY <2>2, <2>3 DEF Plain
<1>3. /\ IsData(data)' /\ data'.pass = loop'.pass
      /\ data' = NoData <=> loop' = NoLoop
      /\ loop' # NoLoop => data'.sample + 1 = loop'.pass /\ data'.lhSamples \in {0, loop'.samples}
  <2>1. CASE loop' = NoLoop
    BY <2>1, NoDataIsData DEF DataOf, NoData, NoLoop
  <2>2. CASE loop' # NoLoop
    <3>1. loop' = loop /\ data' = d
      BY <2>2 DEF Plain, GoesOn, Proceed, Ends, DataOf
    <3> QED
      BY <2>2, <3>1 DEF Keeps, Inv, Shape
  <2> QED
    BY <2>1, <2>2
<1>4. ran' \in Seq(Attempts)
  BY DEF Inv, Shape, Logs
<1>5. Shape'
  BY <1>1, <1>2, <1>3, <1>4 DEF Inv, Shape
<1>6. Control'
  BY <1>5, PlainKeepsInLoop, PlainKeepsLogged, PlainKeepsOncePerPass, PlainKeepsTried DEF Control
<1>7. CircuitKnown'
  <2>1. CASE GoesOn
    <3>1. data' = d
      BY <2>1 DEF GoesOn, Proceed, DataOf, Keeps, Inv, Shape
    <3> QED
      BY <2>1, <3>1 DEF CircuitKnown
  <2>2. CASE Ends
    BY <2>2 DEF Ends, CircuitKnown
  <2> QED
    BY <2>1, <2>2 DEF Plain
<1>8. PassKept'
  <2> SUFFICES ASSUME loop' # NoLoop
               PROVE  \A i \in DOMAIN ran' : ran'[i].prefix = prefix' => DrawnFrom(ran'[i].samples, data')
    BY DEF PassKept
  <2>1. loop' = loop /\ prefix' = prefix /\ data' = d
    BY DEF Plain, GoesOn, Proceed, Ends, DataOf
  <2>2. \A i \in DOMAIN ran : ran[i].prefix = prefix => DrawnFrom(ran[i].samples, d)
    BY <2>1 DEF Inv, PassKept, Keeps
  <2>3. CASE ran' = ran
    BY <2>1, <2>2, <2>3
  <2>4. ASSUME NEW r \in Attempts, Logs(r), DrawnFrom(r.samples, d)
        PROVE  \A i \in DOMAIN ran' : ran'[i].prefix = prefix' => DrawnFrom(ran'[i].samples, data')
    BY <2>1, <2>2, <2>4, Appended DEF Logs, Inv
  <2> QED
    BY <2>3, <2>4
<1> QED
  BY <1>5, <1>6, <1>7, <1>8 DEF Inv, Control

\* The generators stay, or the expressions of the netlist are evaluated once more.
LEMMA Kept ==
    ASSUME Inv, status = "Running"
    PROVE  /\ Keeps(data) /\ Keeps(Evaluate(session.variable, data))
           /\ Keeps(Generators(circuit, session, data))
<1>1. IsData(data) /\ session \in Sessions /\ session.variable \in Values /\ WithinBins(data)
  BY ElaborationInRun DEF Inv, Shape, Sessions
<1>2. Keeps(data)
  BY <1>1 DEF Keeps
<1>3. Keeps(Evaluate(session.variable, data))
  BY <1>1, EvaluateIsData, DrawnStays DEF Keeps
<1> QED
  BY <1>2, <1>3 DEF Generators

\* Where the generators stay, only loops that are left lose them.
LEMMA DataStays ==
    ASSUME Inv, NEW d, Keeps(d), loop' = loop, data' = d
    PROVE  DataOf(d)
BY DEF DataOf, Keeps, Inv, Shape

\* A new value of the variable leaves a mark.
LEMMA VariableMarks ==
    ASSUME Inv, status = "Running", NEW x \in Values, NEW c, NEW s \in Sessions, NEW changed \in BOOLEAN,
           s.variable = x, ~changed => ~circuit.variablesChanged /\ x = session.variable,
           c = [circuit EXCEPT !.variablesChanged = changed]
    PROVE  c \in Circuits /\ UpToDate(c, s, data)
<1>1. circuit \in Circuits /\ UpToDate(circuit, session, data)
  BY DEF Inv, Shape, CircuitKnown
<1>2. c \in Circuits
  BY <1>1 DEF Circuits
<1>3. /\ c.variablesChanged = changed /\ c.parametersChanged = circuit.parametersChanged
      /\ c.elaborated = circuit.elaborated /\ c.setup = circuit.setup /\ c.param = circuit.param
      /\ c.variable = circuit.variable /\ c.samples = circuit.samples
  BY <1>1 DEF Circuits
<1> QED
  BY <1>1, <1>2, <1>3 DEF UpToDate

\* Commands that leave the circuit alone, or end the run.
LEMMA QuietCommandsKeepInv ==
    ASSUME Inv, SetOptions \/ AddSaves \/ SetAbortPolicy \/ Postprocess \/ BadCommand
                \/ LoopIsRefused \/ LoopArgumentsFail \/ EndOfBlock
    PROVE  Inv'
<1>1. Plain /\ status = "Running" /\ ran' = ran /\ circuit' = circuit
  BY OthersArePlain DEF Others, SetOptions, AddSaves, SetAbortPolicy, Postprocess, BadCommand,
     LoopIsRefused, LoopArgumentsFail, EndOfBlock, Current
<1>2. circuit \in Circuits /\ session \in Sessions /\ names \in SUBSET STRING
      /\ abort \in Policies
      /\ UpToDate(circuit, session, data)
  BY <1>1 DEF Inv, Shape, CircuitKnown
<1>3. at <= Len(program) => program[at] \in AllCommands
  BY ProgramTypes DEF Inv, Shape
<1>4. DataOf(data)
  <2>1. CASE SetOptions \/ AddSaves \/ SetAbortPolicy
    BY <1>1, <2>1, Kept, DataStays DEF SetOptions, AddSaves, SetAbortPolicy, Proceed
  <2>2. CASE Postprocess \/ BadCommand \/ LoopIsRefused \/ LoopArgumentsFail \/ EndOfBlock
    BY <2>2 DEF Postprocess, BadCommand, LoopIsRefused, LoopArgumentsFail, EndOfBlock
  <2> QED
    BY <2>1, <2>2
<1>5. CASE SetOptions
  <2>1. program[at].setting \in Settings
    BY <1>3, <1>5, CommandTypes DEF SetOptions, Current
  <2>2. session' \in Sessions /\ session'.variable = session.variable
    BY <1>2, <1>5, <2>1 DEF SetOptions, Sessions
  <2>3. UpToDate(circuit', session', data)
    BY <1>1, <1>2, <2>2 DEF UpToDate
  <2> QED
    BY <1>1, <1>2, <1>4, <1>5, <2>2, <2>3, Kept, PlainKeepsInv DEF SetOptions
<1>6. CASE AddSaves
  <2>1. program[at].value \in Values
    BY <1>3, <1>6, CommandTypes DEF AddSaves, Current
  <2>2. session' \in Sessions /\ session'.variable = session.variable
    BY <1>2, <1>6, <2>1 DEF AddSaves, Sessions
  <2>3. UpToDate(circuit', session', data)
    BY <1>1, <1>2, <2>2 DEF UpToDate
  <2> QED
    BY <1>1, <1>2, <1>4, <1>6, <2>2, <2>3, Kept, PlainKeepsInv DEF AddSaves
<1>7. CASE SetAbortPolicy
  <2>1. abort' \in Policies
    BY <1>3, <1>7, CommandTypes DEF SetAbortPolicy, Current, Policies
  <2> QED
    BY <1>1, <1>2, <1>4, <1>7, <2>1, Kept, PlainKeepsInv DEF SetAbortPolicy
<1>8. CASE Postprocess \/ BadCommand \/ EndOfBlock
  BY <1>1, <1>2, <1>4, <1>8, Kept, PlainKeepsInv DEF Postprocess, BadCommand, EndOfBlock
<1>9. CASE LoopIsRefused \/ LoopArgumentsFail
  <2>1. at <= Len(program) /\ program[at].op = "mc" /\ names' \subseteq names \cup {program[at].name}
    BY <1>9 DEF LoopIsRefused, LoopArgumentsFail, Current
  <2>2. program[at].name \in STRING
    BY <1>3, <2>1, CommandTypes
  <2>3. names' \in SUBSET STRING
    BY <1>2, <2>1, <2>2
  <2> QED
    BY <1>1, <1>2, <1>4, <1>9, <2>3, Kept, PlainKeepsInv DEF LoopIsRefused, LoopArgumentsFail
<1> QED
  BY <1>5, <1>6, <1>7, <1>8, <1>9

\* Setting and clearing variables.
LEMMA VariableCommandsKeepInv ==
    ASSUME Inv, SetVariable \/ SetVariableFails \/ ClearSession
    PROVE  Inv'
<1>1. Plain /\ status = "Running" /\ ran' = ran /\ names' = names /\ abort' = abort
      /\ at <= Len(program)
  BY OthersArePlain DEF Others, SetVariable, SetVariableFails, ClearSession, Current
<1>2. /\ circuit \in Circuits /\ session \in Sessions /\ names \in SUBSET STRING
      /\ abort \in Policies
      /\ session.variable \in Values /\ circuit.variablesChanged \in BOOLEAN
  BY DEF Inv, Shape, Sessions, Circuits
<1>3. program[at] \in AllCommands /\ Default \in Values
  BY <1>1, ProgramTypes, CommandsAssumption DEF Inv, Shape, Default
<1>4. DataOf(data)
  BY <1>1, Kept, DataStays DEF SetVariable, SetVariableFails, ClearSession, Proceed
<1>5. ASSUME SetVariable \/ SetVariableFails
      PROVE  circuit' \in Circuits /\ session' \in Sessions /\ UpToDate(circuit', session', data)
  <2>1. program[at].value \in Values
    BY <1>3, <1>5, CommandTypes DEF SetVariable, SetVariableFails, Current
  <2>2. PICK x \in Values : /\ session' = [session EXCEPT !.variable = x]
                            /\ circuit' = [circuit EXCEPT !.variablesChanged = @ \/ x # session.variable]
    BY <1>2, <1>5, <2>1 DEF SetVariable, SetVariableFails
  <2>3. session' \in Sessions /\ session'.variable = x
    BY <1>2, <2>2 DEF Sessions
  <2>4. circuit' = [circuit EXCEPT !.variablesChanged = circuit.variablesChanged \/ x # session.variable]
    BY <1>2, <2>2 DEF Circuits
  <2> QED
    BY <1>1, <1>2, <2>3, <2>4, VariableMarks
<1>6. ASSUME ClearSession
      PROVE  circuit' \in Circuits /\ session' \in Sessions /\ UpToDate(circuit', session', data)
  <2> DEFINE x == IF "variables" \in program[at].what THEN Default ELSE session.variable
             o == IF "options" \in program[at].what THEN Unset ELSE session.option
             v == IF "saves" \in program[at].what THEN {} ELSE session.saves
  <2>1. x \in Values /\ o \in Settings /\ v \in SUBSET Values
    BY <1>2, <1>3 DEF Sessions, Settings, Unset, Default
  <2>2. session' = [session EXCEPT !.variable = x, !.option = o, !.saves = v]
    BY <1>2, <1>6 DEF ClearSession, Sessions
  <2>3. circuit' = [circuit EXCEPT !.variablesChanged =
                      circuit.variablesChanged \/ "variables" \in program[at].what]
    BY <1>2, <1>6 DEF ClearSession, Circuits
  <2>4. "variables" \notin program[at].what => x = session.variable
    OBVIOUS
  <2> HIDE DEF x, o, v
  <2>5. session' \in Sessions /\ session'.variable = x
    BY <1>2, <2>1, <2>2 DEF Sessions
  <2> QED
    BY <1>1, <1>2, <2>1, <2>3, <2>4, <2>5, VariableMarks
<1> QED
  BY <1>1, <1>2, <1>4, <1>5, <1>6, Kept, PlainKeepsInv

\* A circuit that was elaborated has nothing left to do.
LEMMA FreshIsUpToDate ==
    ASSUME NEW c, NEW s, NEW d, Fresh(c, s, d)
    PROVE  c \in Circuits /\ UpToDate(c, s, d) /\ c.elaborated
BY DEF Fresh, UpToDate

\* A new value of a parameter leaves a mark.
LEMMA ParameterMarks ==
    ASSUME NEW c \in Circuits, NEW s, NEW d, UpToDate(c, s, d), NEW x \in Values, NEW e,
           NEW changed \in BOOLEAN, changed = (c.parametersChanged \/ x # c.param),
           e = [c EXCEPT !.param = x, !.parametersChanged = changed]
    PROVE  e \in Circuits /\ UpToDate(e, s, d)
<1>2. c.parametersChanged \in BOOLEAN
  BY DEF Circuits
<1>3. e \in Circuits
  BY <1>2 DEF Circuits
<1>4. /\ e.variablesChanged = c.variablesChanged /\ e.elaborated = c.elaborated
      /\ e.setup = c.setup /\ e.param = x /\ e.variable = c.variable /\ e.samples = c.samples
      /\ e.parametersChanged = changed
  BY <1>2 DEF Circuits
<1> QED
  BY <1>3, <1>4 DEF UpToDate

\* A circuit that is not elaborated is up to date, as nothing is claimed of it.
LEMMA BrokenIsUpToDate ==
    ASSUME NEW c \in Circuits, NEW s, NEW d
    PROVE  Broken(c) \in Circuits /\ UpToDate(Broken(c), s, d)
<1>1. Broken(c) \in Circuits /\ ~Broken(c).elaborated
  BY DEF Broken, Circuits
<1> QED
  BY <1>1 DEF UpToDate

\* alter marks the parameters, whether or not it finds the circuit elaborated.
LEMMA AlterKeepsInv ==
    ASSUME Inv, AlterParameter \/ AlterParameterFails
    PROVE  Inv'
<1> DEFINE c == IF circuit.elaborated THEN circuit ELSE Elaborated(circuit, session, data)
           d == IF circuit.elaborated THEN data ELSE Evaluate(session.variable, data)
<1>1. Plain /\ status = "Running" /\ ran' = ran /\ names' = names /\ abort' = abort
      /\ at <= Len(program) /\ program[at].op = "alter"
  BY OthersArePlain DEF Others, AlterParameter, AlterParameterFails, Current
<1>2. /\ circuit \in Circuits /\ session \in Sessions /\ names \in SUBSET STRING
      /\ abort \in Policies /\ IsData(data) /\ WithinBins(data) /\ UpToDate(circuit, session, data)
  BY <1>1, ElaborationInRun DEF Inv, Shape
<1>3. program[at].value \in Values
  BY <1>1, ProgramTypes, CommandTypes DEF Inv, Shape
<1>4. c \in Circuits /\ UpToDate(c, session, d) /\ Keeps(d)
  BY <1>1, <1>2, ElaboratedIsCurrent, FreshIsUpToDate, Kept
<1>5. DataOf(d)
  BY <1>1, <1>4, DataStays DEF AlterParameter, AlterParameterFails, Proceed
<1>6. c.param \in Values
  BY <1>4 DEF Circuits
<1>7. PICK x \in Values : /\ circuit' = [c EXCEPT !.param = x, !.parametersChanged = @ \/ x # c.param]
                          /\ session' = [session EXCEPT !.altered = x]
  BY <1>3, <1>6 DEF AlterParameter, AlterParameterFails
<1> HIDE DEF c, d
<1>8. session' \in Sessions /\ session'.variable = session.variable
  BY <1>2, <1>7 DEF Sessions
<1>9. circuit' \in Circuits /\ UpToDate(circuit', session', d)
  <2> DEFINE changed == c.parametersChanged \/ x # c.param
  <2>1. c.parametersChanged \in BOOLEAN /\ changed \in BOOLEAN
    BY <1>4 DEF Circuits
  <2>2. circuit' = [c EXCEPT !.param = x, !.parametersChanged = changed]
    BY <1>4, <1>7 DEF Circuits
  <2> HIDE DEF changed
  <2>3. changed = (c.parametersChanged \/ x # c.param)
    BY DEF changed
  <2>4. circuit' \in Circuits /\ UpToDate(circuit', session, d)
    BY <1>4, <2>1, <2>2, <2>3, ParameterMarks
  <2> QED
    BY <1>8, <2>4 DEF UpToDate
<1> QED
  BY <1>1, <1>2, <1>4, <1>5, <1>8, <1>9, PlainKeepsInv

\* print and elaborate leave a circuit that is up to date.
LEMMA ElaborateKeepsInv ==
    ASSUME Inv, ElaborateChanges \/ ElaborateCircuit
    PROVE  Inv'
<1>1. Plain /\ status = "Running" /\ ran' = ran /\ names' = names /\ abort' = abort
  BY OthersArePlain DEF Others, ElaborateChanges, PrintFails, ElaborateCircuit, Current
<1>2. /\ circuit \in Circuits /\ session \in Sessions /\ names \in SUBSET STRING
      /\ abort \in Policies /\ IsData(data) /\ WithinBins(data)
  BY <1>1, ElaborationInRun DEF Inv, Shape
<1>3. CASE ElaborateChanges
  <2> DEFINE d == Generators(circuit, session, data)
  <2>1. session' = session /\ DataOf(d) /\ Keeps(d)
    BY <1>1, <1>3, Kept DEF ElaborateChanges, PrintFails
  <2>2. circuit' \in Circuits /\ UpToDate(circuit', session', d)
    BY <1>1, <1>3, <2>1, ElaborationInRun, FreshIsUpToDate DEF ElaborateChanges, PrintFails
  <2> QED
    BY <1>1, <1>2, <2>1, <2>2, PlainKeepsInv
<1>4. CASE ElaborateCircuit
  <2> DEFINE d == Evaluate(session.variable, data)
  <2>1. DataOf(d) /\ Keeps(d)
    BY <1>1, <1>4, Kept, DataStays DEF ElaborateCircuit, Proceed
  <2>2. session' \in Sessions /\ session'.variable = session.variable
    BY <1>2, <1>4, CommandsAssumption DEF ElaborateCircuit, Sessions, Default
  <2>3. circuit' \in Circuits /\ UpToDate(circuit', session, d)
    BY <1>2, <1>4, ElaboratedIsCurrent, FreshIsUpToDate DEF ElaborateCircuit
  <2>4. UpToDate(circuit', session', d)
    BY <2>2, <2>3 DEF UpToDate
  <2> QED
    BY <1>1, <1>2, <2>1, <2>2, <2>3, <2>4, PlainKeepsInv
<1> QED
  BY <1>3, <1>4

\* A run that ends claims nothing of the circuit.
LEMMA LeavingKeepsInv ==
    ASSUME Inv, ElaborationFails \/ FirstPassFails \/ EndLoopFails
    PROVE  Inv'
<1>1. /\ Plain /\ Ends /\ status = "Running" /\ ran' = ran /\ abort' = abort /\ session' = session
      /\ DataOf(data) /\ circuit' \in {circuit, Broken(circuit)}
  BY OthersArePlain DEF Others, ElaborationFails, FirstPassFails, EndLoopFails, Current, HardFault, Stop, Ends, Statuses
<1>2. ~GoesOn
  BY <1>1 DEF GoesOn, Ends, Proceed
<1>3. circuit' \in Circuits /\ session \in Sessions /\ abort \in Policies
  BY <1>1, BrokenIsUpToDate DEF Inv, Shape
<1>4. names' \in SUBSET STRING
  <2>1. CASE FirstPassFails
    <3>1. at \in 1 .. Len(program) /\ program[at].op = "mc" /\ names \in SUBSET STRING
          /\ names' = names \cup {program[at].name}
      BY <2>1, ProgramTypes DEF FirstPassFails, Current, Inv, Shape
    <3>2. program[at].name \in STRING
      BY <3>1, ProgramTypes, CommandTypes DEF Inv
    <3> QED
      BY <3>1, <3>2
  <2>2. CASE ElaborationFails \/ EndLoopFails
    BY <2>2 DEF ElaborationFails, EndLoopFails, Inv, Shape
  <2> QED
    BY <2>1, <2>2
<1> QED
  BY <1>1, <1>2, <1>3, <1>4, Kept, PlainKeepsInv

\* An analysis sees a circuit that is up to date, and what it leaves is again.
LEMMA AnalysesKeepInv ==
    ASSUME Inv, RunAnalysis \/ AnalysisFails
    PROVE  Inv'
<1> DEFINE c == MinimalElaboration(circuit, session, data)
           d == Generators(circuit, session, data)
           own == [c EXCEPT !.option = InForce(c)]
<1>1. /\ Plain /\ Current("analysis") /\ abort' = abort /\ session' = session /\ names' = names
      /\ status = "Running"
  BY AnalysesArePlain DEF RunAnalysis, AnalysisFails, Current
<1>2. Fresh(c, session, d) /\ Keeps(d)
  BY <1>1, ElaborationInRun, Kept
<1>3. DataOf(d)
  BY <1>2, DataStays DEF RunAnalysis, AnalysisFails, Proceed
<1>4. PICK ok \in BOOLEAN : ran' = Append(ran, Seen(c, InForce(c), ok))
  BY DEF RunAnalysis, AnalysisFails
<1>5. circuit' \in {c, own, Broken(c), Broken(own)}
  BY DEF RunAnalysis, AnalysisFails
<1>6. c \in Circuits
  BY <1>2 DEF Fresh
<1> HIDE DEF c, d
<1>7. InForce(c) \in Values /\ Seen(c, InForce(c), ok) \in Attempts
  BY <1>1, <1>6, SeenType
<1>8. own \in Circuits /\ UpToDate(own, session, d)
  <2>1. own \in Circuits
    BY <1>6, <1>7 DEF Circuits
  <2>2. /\ own.variablesChanged = c.variablesChanged /\ own.elaborated = c.elaborated
        /\ own.setup = c.setup /\ own.param = c.param /\ own.variable = c.variable
        /\ own.samples = c.samples
    BY <1>6, <1>7 DEF Circuits
  <2> HIDE DEF own
  <2> QED
    BY <1>2, <2>1, <2>2 DEF Fresh, UpToDate
<1> HIDE DEF own
<1>9. circuit' \in Circuits /\ UpToDate(circuit', session', d)
  BY <1>1, <1>2, <1>5, <1>6, <1>8, FreshIsUpToDate, BrokenIsUpToDate
<1>10. Logs(Seen(c, InForce(c), ok)) /\ DrawnFrom(Seen(c, InForce(c), ok).samples, d)
  BY <1>1, <1>2, <1>4, <1>7 DEF Logs, Seen, Current, Fresh
<1>11. session \in Sessions /\ names \in SUBSET STRING /\ abort \in Policies
  BY DEF Inv, Shape
<1> QED
  BY <1>1, <1>2, <1>3, <1>7, <1>9, <1>10, <1>11, PlainKeepsInv

-----------------------------------------------------------------------------
(* What loops do to the circuit and the generators                         *)

\* The start of a pass propagates the samples.
LEMMA PassIsElaborated ==
    ASSUME NEW c0 \in Circuits, NEW s \in Sessions, NEW d, IsData(d), WithinBins(d),
           c0.elaborated /\ ~c0.parametersChanged => c0.setup = c0.param
    PROVE  LET c == [c0 EXCEPT !.variablesChanged = TRUE] IN
           Fresh(MinimalElaboration(c, s, d), s, Generators(c, s, d))
<1> DEFINE c == [c0 EXCEPT !.variablesChanged = TRUE]
<1>1. /\ c \in Circuits /\ c.variablesChanged /\ c.elaborated = c0.elaborated /\ c.setup = c0.setup
      /\ c.param = c0.param /\ c.parametersChanged = c0.parametersChanged
  BY DEF Circuits
<1> HIDE DEF c
<1>2. UpToDate(c, s, d)
  BY <1>1 DEF UpToDate
<1>3. Fresh(MinimalElaboration(c, s, d), s, Generators(c, s, d))
  BY <1>1, <1>2, MinimalElaborationIsCurrent
<1> QED
  BY <1>3 DEF c

\* A pass starts with generators of its own, and with nothing seen yet.
LEMMA PassKeepsInv ==
    ASSUME Inv, NEW l \in Loops, NEW d, IsData(d), d # NoData, d.pass = l.pass,
           d.sample + 1 = l.pass, d.lhSamples \in {0, l.samples}, l.pass <= l.samples,
           StartPass(l, session, d), status = "Running", program' = program,
           abort' = abort, session' = session, ran' = ran, names' \in SUBSET STRING,
           l.start \in 1 .. (Len(program) + 1), Control',
           \A i \in DOMAIN ran : ran[i].prefix # prefix'
    PROVE  Inv'
<1> DEFINE c == [circuit EXCEPT !.variablesChanged = TRUE]
           g == Generators(c, session, d)
<1>1. /\ circuit \in Circuits /\ session \in Sessions
      /\ circuit.elaborated /\ ~circuit.parametersChanged => circuit.setup = circuit.param
  BY DEF Inv, Shape, CircuitKnown, UpToDate
<1>2. l.pass \in Nat /\ l.samples \in Nat /\ d.sample \in Nat
  BY DEF Loops, IsData
<1>3. WithinBins(d)
  BY <1>2 DEF WithinBins
<1>4. Fresh(MinimalElaboration(c, session, d), session, g)
  BY <1>1, <1>3, PassIsElaborated
<1>5. /\ loop' = l /\ prefix' = [name |-> l.name, pass |-> l.pass] /\ at' = l.start
      /\ status' = status /\ circuit' = MinimalElaboration(c, session, d) /\ data' = g
  BY DEF StartPass
<1>6. /\ IsData(g) /\ g.pass = d.pass /\ g.sample = d.sample /\ g.lhSamples = d.lhSamples
      /\ g # NoData
  <2> HIDE DEF c
  <2> QED
    BY <1>1, <1>3, GeneratorsType, ZenonT(40)
<1> HIDE DEF c, g
<1>7. l # NoLoop
  <2>1. l.pass # 0 /\ NoLoop.pass = 0
    BY <1>2 DEF NoLoop
  <2> QED
    BY <2>1
<1>8. circuit' \in Circuits /\ UpToDate(circuit', session', data')
  BY <1>4, <1>5, FreshIsUpToDate
<1>9. Shape'
  BY <1>5, <1>6, <1>7, <1>8 DEF Inv, Shape
<1>10. CircuitKnown' /\ PassKept'
  BY <1>8 DEF CircuitKnown, PassKept
<1> QED
  BY <1>9, <1>10 DEF Inv, Control

\* The first pass of a loop.
LEMMA StartLoopKeepsInv ==
    ASSUME Inv, StartLoop
    PROVE  Inv'
<1> DEFINE l == [name |-> program[at].name, start |-> at + 1, samples |-> program[at].samples,
                 strict |-> program[at].strict, pass |-> 1, ngen |-> 0]
<1>1. /\ Current("mc") /\ program[at].samples > 0 /\ program[at].name \notin names
      /\ names' = names \cup {program[at].name} /\ program' = program /\ abort' = abort
      /\ session' = session /\ ran' = ran
  BY DEF StartLoop
<1>2. PICK perms \in [Sites -> IF program[at].lh THEN Shuffles(program[at].samples) ELSE {<<>>}] :
         StartPass(l, session, NewData(program[at].samples, program[at].lh, perms))
  BY DEF StartLoop
<1>3. at \in Nat /\ Len(program) \in Nat /\ at \in 1 .. Len(program) /\ program[at] \in AllCommands
  BY <1>1, ProgramTypes DEF Inv, Shape, Current
<1>4. /\ program[at].name \in STRING /\ program[at].samples \in Nat
      /\ program[at].strict \in BOOLEAN /\ program[at].lh \in BOOLEAN
  BY <1>1, <1>3, CommandTypes DEF Current
<1> DEFINE d == NewData(program[at].samples, program[at].lh, perms)
<1>5. IsData(d) /\ d # NoData /\ d.pass = 1 /\ d.sample = 0 /\ d.lhSamples \in {0, program[at].samples}
  BY <1>4, NewDataIsData
<1>6. l \in Loops
  BY <1>3, <1>4, NewLoopType
<1>7. l.pass = 1 /\ l.samples = program[at].samples /\ l.start = at + 1 /\ l.name = program[at].name
  OBVIOUS
<1>8. Control'
  BY StartLoopKeepsControl
<1> HIDE DEF l, d
<1>9. StartPass(l, session, d)
  BY <1>2 DEF d
<1>10. \A i \in DOMAIN ran : ran[i].prefix # prefix'
  <2>1. prefix' = [name |-> l.name, pass |-> l.pass]
    BY <1>9 DEF StartPass
  <2>2. prefix'.name \notin names /\ prefix'.pass = 1 /\ NoPrefix.pass = 0
    BY <1>1, <1>7, <2>1 DEF NoPrefix
  <2> QED
    BY <2>2, AttemptTypes DEF LoggedAt
<1>11. names' \in SUBSET STRING
  BY <1>1, <1>4 DEF Inv, Shape
<1>12. status = "Running" /\ l.start \in 1 .. (Len(program) + 1) /\ l.pass <= l.samples
  BY <1>1, <1>3, <1>4, <1>7 DEF Current
<1>13. d.pass = l.pass /\ d.sample + 1 = l.pass /\ d.lhSamples \in {0, l.samples}
  BY <1>5, <1>7
<1> QED
  BY <1>1, <1>5, <1>6, <1>8, <1>9, <1>10, <1>11, <1>12, <1>13, PassKeepsInv

\* The next pass of a loop.
LEMMA EndPassKeepsInv ==
    ASSUME Inv, EndPass
    PROVE  Inv'
<1> DEFINE n == IF loop.pass = 1 THEN Count(data) ELSE loop.ngen
           l == [loop EXCEPT !.pass = loop.pass + 1, !.ngen = n]
           d == Advance(data)
<1>1. /\ Current("endmc") /\ loop # NoLoop /\ loop.pass # loop.samples
      /\ names' = names /\ program' = program /\ abort' = abort
      /\ session' = session /\ ran' = ran
  BY DEF EndPass, LastPass
<1>2. loop \in Loops /\ IsData(data) /\ data # NoData /\ data.pass = loop.pass
      /\ data.sample + 1 = loop.pass /\ data.lhSamples \in {0, loop.samples}
      /\ at \in Nat /\ Len(program) \in Nat /\ at <= Len(program)
  BY <1>1, ProgramTypes DEF Inv, Shape, Current
<1>3. loop.pass \in Nat /\ loop.samples \in Nat /\ loop.start \in Nat /\ loop.ngen \in Nat
      /\ loop.pass < loop.samples /\ loop.start \in 2 .. at /\ loop.name \in names
  BY <1>1, <1>2 DEF Loops, Inv, InLoop
<1>4. WithinBins(data)
  BY <1>1, ElaborationInRun DEF Current
<1>5. /\ IsData(d) /\ d # NoData /\ d.pass = loop.pass + 1 /\ d.sample = data.sample + 1
      /\ d.lhSamples = data.lhSamples
  BY <1>2, <1>4, AdvanceIsData
<1>6. n \in Nat /\ loop.pass + 1 \in Nat
  BY <1>2, <1>3, CountType
<1>7. StartPass(l, session, d)
  BY <1>2 DEF EndPass, Loops
<1> HIDE DEF n, d
<1>8. l \in Loops
  BY <1>2, <1>6 DEF Loops
<1>9. l.pass = loop.pass + 1 /\ l.samples = loop.samples /\ l.start = loop.start /\ l.name = loop.name
  BY <1>2 DEF Loops
<1> HIDE DEF l
<1>10. \A i \in DOMAIN ran : ran[i].prefix # prefix'
  <2>1. prefix' = [name |-> l.name, pass |-> l.pass]
    BY <1>7 DEF StartPass
  <2>2. prefix'.name = loop.name /\ prefix'.pass = loop.pass + 1 /\ NoPrefix.pass = 0
    BY <1>9, <2>1 DEF NoPrefix
  <2> QED
    BY <1>1, <1>3, <2>2, AttemptTypes DEF LoggedAt
<1>11. status = "Running" /\ l.start \in 1 .. (Len(program) + 1) /\ l.pass <= l.samples
       /\ names' \in SUBSET STRING
  <2>1. status = "Running" /\ names' \in SUBSET STRING
    BY <1>1 DEF Current, Inv, Shape
  <2>2. l.start \in 1 .. (Len(program) + 1) /\ l.pass <= l.samples
    BY <1>2, <1>3, <1>9
  <2> QED
    BY <2>1, <2>2
<1>12. d.pass = l.pass /\ d.sample + 1 = l.pass /\ d.lhSamples \in {0, l.samples}
  BY <1>2, <1>5, <1>9
<1> QED
  BY <1>1, <1>5, <1>7, <1>8, <1>10, <1>11, <1>12, PassKeepsInv, EndPassKeepsControl

\* After a loop the netlist is evaluated without generators.
LEMMA EndLoopKeepsInv ==
    ASSUME Inv, EndLoop
    PROVE  Inv'
<1> DEFINE c == [circuit EXCEPT !.variablesChanged = TRUE]
<1>1. /\ Current("endmc") /\ loop' = NoLoop /\ prefix' = NoPrefix /\ data' = NoData /\ at' = at + 1
      /\ circuit' = MinimalElaboration(c, session, NoData) /\ program' = program /\ status' = status
      /\ abort' = abort /\ session' = session /\ names' = names /\ ran' = ran
  BY DEF EndLoop
<1>2. /\ circuit \in Circuits /\ session \in Sessions
      /\ circuit.elaborated /\ ~circuit.parametersChanged => circuit.setup = circuit.param
  BY <1>1 DEF Inv, Shape, CircuitKnown, UpToDate, Current
<1>3. IsData(NoData) /\ WithinBins(NoData)
  BY NoDataIsData DEF WithinBins, NoData
<1>4. Fresh(MinimalElaboration(c, session, NoData), session, Generators(c, session, NoData))
  BY <1>2, <1>3, PassIsElaborated
<1> HIDE DEF c
<1>5. Generators(c, session, NoData) = NoData
  BY DEF Generators, Evaluate
<1>6. circuit' \in Circuits /\ UpToDate(circuit', session', data')
  BY <1>1, <1>4, <1>5, FreshIsUpToDate
<1>7. NoLoop \in Loops /\ NoLoop.name = "" /\ NoLoop.pass = 0
  BY DEF NoLoop, Loops, LoopNames
<1>8. NoPrefix = [name |-> NoLoop.name, pass |-> NoLoop.pass] /\ NoData.pass = 0
  BY <1>7 DEF NoPrefix, NoData
<1>9. at' \in 1 .. (Len(program) + 1)
  BY <1>1, ProgramTypes DEF Current, Inv, Shape
<1>10. Shape'
  BY <1>1, <1>3, <1>6, <1>7, <1>8, <1>9 DEF Inv, Shape
<1>11. CircuitKnown' /\ PassKept'
  BY <1>1, <1>6 DEF CircuitKnown, PassKept
<1> QED
  BY <1>10, <1>11, EndLoopKeepsControl DEF Inv, Control

-----------------------------------------------------------------------------
\* The invariant holds before the first command.
LEMMA InitHoldsInv ==
    ASSUME Init
    PROVE  Inv
<1>1. Default \in Values /\ <<>> \in Samplings /\ program \in Seq(AllCommands)
  <2>1. <<>> \in [{} -> Sample]
    OBVIOUS
  <2> QED
    BY <2>1, SamplingIntro, CommandsAssumption, ProgramsAssumption DEF Default, Init
<1>2. session \in Sessions
  BY <1>1 DEF Init, Sessions, Settings, Unset, Default
<1>3. circuit \in Circuits /\ ~circuit.elaborated
  BY <1>1 DEF Init, Circuits
<1>4. NoLoop \in Loops /\ NoLoop.name = "" /\ NoLoop.pass = 0
  BY DEF NoLoop, Loops, LoopNames
<1>5. NoPrefix = [name |-> NoLoop.name, pass |-> NoLoop.pass] /\ NoData.pass = 0
  BY <1>4 DEF NoPrefix, NoData
<1>6. abort \in Policies
  BY DEF Init, Policies
<1>7. /\ program \in Programs /\ at = 1 /\ status = "Running" /\ names = {} /\ loop = NoLoop
      /\ data = NoData /\ prefix = NoPrefix /\ ran = <<>> /\ Len(program) \in Nat
  BY <1>1 DEF Init
<1>8. Shape
  <2>1. IsData(data) /\ data.pass = loop.pass /\ (data = NoData <=> loop = NoLoop)
    BY <1>4, <1>5, <1>7, NoDataIsData
  <2>2. at \in 1 .. (Len(program) + 1) /\ ran \in Seq(Attempts) /\ status \in Statuses
    BY <1>7 DEF Statuses
  <2>3. loop \in Loops /\ prefix = [name |-> loop.name, pass |-> loop.pass]
        /\ names \in SUBSET STRING
    BY <1>4, <1>5, <1>7
  <2> QED
    BY <1>2, <1>3, <1>6, <1>7, <2>1, <2>2, <2>3 DEF Shape
<1>9. InLoop /\ Logged /\ OncePerPass /\ PassKept
  BY <1>7 DEF InLoop, Logged, OncePerPass, PassKept
<1>10. TriedWhenClosed
  BY <1>7 DEF TriedWhenClosed, Tried, EndMeansAllWasTried
<1>11. CircuitKnown
  BY <1>3 DEF CircuitKnown, UpToDate
<1> QED
  BY <1>8, <1>9, <1>10, <1>11 DEF Inv

\* Nothing happens to the invariant when nothing changes.
LEMMA StutterKeepsInv ==
    ASSUME Inv, UNCHANGED vars
    PROVE  Inv'
<1> USE DEF vars
<1>1. Shape' /\ InLoop' /\ CircuitKnown' /\ PassKept' /\ OncePerPass'
  BY DEF Inv, Shape, InLoop, CircuitKnown, PassKept, OncePerPass
<1>2. Logged'
  BY DEF Inv, Logged, LoggedAt
<1>3. TriedWhenClosed'
  <2>1. \A i, p : TriedIn(i, p)' <=> TriedIn(i, p)
    BY DEF TriedIn
  <2>2. \A i : AllTried(i)' <=> AllTried(i)
    <3>1. \A i : Passes(i)' = Passes(i)
      BY DEF Passes, LoopAround
    <3> QED
      BY <2>1, <3>1 DEF AllTried
  <2>3. \A i : TriedUpToNow(i)' <=> TriedUpToNow(i)
    BY <2>1 DEF TriedUpToNow
  <2>4. Opened(at)' = Opened(at)
    BY DEF Opened
  <2>5. Tried' <=> Tried
    BY <2>2, <2>3, <2>4 DEF Tried
  <2>6. EndMeansAllWasTried' <=> EndMeansAllWasTried
    BY DEF EndMeansAllWasTried, Passes, LoopAround
  <2> QED
    BY <2>5, <2>6 DEF Inv, TriedWhenClosed
<1> QED
  BY <1>1, <1>2, <1>3 DEF Inv

\* Every step keeps the invariant.
LEMMA NextKeepsInv ==
    ASSUME Inv, [Next]_vars
    PROVE  Inv'
BY StutterKeepsInv, QuietCommandsKeepInv, VariableCommandsKeepInv, AlterKeepsInv, ElaborateKeepsInv,
   LeavingKeepsInv, AnalysesKeepInv, StartLoopKeepsInv, EndPassKeepsInv, EndLoopKeepsInv DEF Next

\* The invariant holds for every control block and whatever commands fail.
THEOREM InvHolds == Spec => []Inv
<1> QED
  BY InitHoldsInv, NextKeepsInv, PTL DEF Spec

\* Every variable keeps its type, the generators exist just while a loop runs, and a
\* loop never counts further than its samples (CommandInterpreter, MCData).
THEOREM TypeCorrect == Spec => []TypeOK
<1>1. Inv => TypeOK
  BY DEF Inv, Shape, TypeOK, Statuses, Circuits, InLoop
<1> QED
  BY <1>1, InvHolds, PTL

\* An analysis is tried at most once under the same prefix, in any block: a pass does
\* not come back to a command, a loop not to a pass, and no two loops have one name
\* (cmd_mc, CommandInterpreter::run).
THEOREM OnceInAPass == Spec => []OncePerPass
<1>1. Inv => OncePerPass
  BY DEF Inv
<1> QED
  BY <1>1, InvHolds, PTL

\* The analyses of a control block have different names
DistinctNames(p) ==
  \A i, j \in DOMAIN p :
    p[i].op = "analysis" /\ p[j].op = "analysis" /\ p[i].name = p[j].name => i = j

\* No analysis overwrites the results of another one, in any block in which the
\* analyses have different names, but for a periodic steady state analysis repeated in a
\* loop: an analysis is tried at most once with the same prefix (cmd_mc, which counts the
\* passes and refuses a name that was used before, Pss::initializeOutputs).
THEOREM DistinctFiles == Spec => [](DistinctNames(program) => FilesAreDistinct)
<1>1. Inv => (DistinctNames(program) => FilesAreDistinct)
  <2> SUFFICES ASSUME Inv, DistinctNames(program), NEW i \in DOMAIN ran, NEW j \in DOMAIN ran, i # j,
                      ~(ran[i].pss /\ ran[i].at = ran[j].at), FileOf(ran[i]) = FileOf(ran[j])
               PROVE  FALSE
    BY DEF FilesAreDistinct
  <2>1. LoggedAt(ran[i]) /\ LoggedAt(ran[j])
    BY AttemptTypes
  <2>2. ran[i].name = ran[j].name
    BY DEF FileOf
  <2>3. ran[i].at = ran[j].at
    BY <2>1, <2>2, ProgramTypes DEF LoggedAt, DistinctNames, Inv
  <2>4. ~ran[i].pss /\ ~ran[j].pss
    BY <2>1, <2>3 DEF LoggedAt
  <2>5. ran[i].prefix = ran[j].prefix
    BY <2>4 DEF FileOf
  <2> QED
    BY <2>3, <2>5 DEF Inv, OncePerPass
<1> QED
  BY <1>1, InvHolds, PTL

\* When the end of a block is reported, in which every loop is closed, each analysis was
\* tried, in a loop once for every sample, whatever failed and was let pass on the way
\* (CommandInterpreter::run, cmd_mc, cmd_endmc).
THEOREM EndIsComplete == Spec => [](ClosedLoops(program) => EndMeansAllWasTried)
<1>1. Inv => (ClosedLoops(program) => EndMeansAllWasTried)
  BY DEF Inv, TriedWhenClosed
<1> QED
  BY <1>1, InvHolds, PTL

\* What an analysis that is logged has seen.
LEMMA SeenIsPresent ==
    ASSUME Inv, RunAnalysis \/ AnalysisFails
    PROVE  SeesThePresent(ran'[Len(ran')])
<1> DEFINE c == MinimalElaboration(circuit, session, data)
           g == Generators(circuit, session, data)
<1>1. /\ Current("analysis") /\ status = "Running" /\ IsData(data) /\ circuit \in Circuits
      /\ session \in Sessions
  BY DEF RunAnalysis, AnalysisFails, Current, Inv, Shape
<1>2. PICK ok \in BOOLEAN : ran' = Append(ran, Seen(c, InForce(c), ok))
  BY DEF RunAnalysis, AnalysisFails
<1>3. Fresh(c, session, g) /\ Keeps(g) /\ (circuit.elaborated => c.param = circuit.param)
  BY <1>1, ElaborationInRun, Kept, MinimalElaborationIsCurrent
<1> HIDE DEF c, g
<1> DEFINE seen == Seen(c, InForce(c), ok)
<1>4. c \in Circuits /\ seen \in Attempts
  BY <1>1, <1>3, SeenType DEF Fresh
<1>5. ran'[Len(ran')] = seen
  BY <1>2, <1>4 DEF Inv, Shape
<1>6. /\ seen.variable = session.variable /\ seen.param = c.param /\ seen.option = InForce(c)
      /\ seen.samples = c.samples /\ seen.prefix = prefix
      /\ DOMAIN seen.samples = SitesAt[session.variable] /\ DrawnFrom(seen.samples, g)
  BY <1>3 DEF Seen, Fresh
<1>7. seen.option = UserOptions(session)
  <2>1. c.option = UserOptions(session)
    BY <1>3 DEF Fresh
  <2> QED
    BY <1>1, <1>6, <2>1 DEF InForce, UserOptions, Applied, Sessions, Settings
<1>8. prefix = [name |-> loop.name, pass |-> loop.pass]
  BY DEF Inv, Shape
<1>9. ASSUME NEW z \in DOMAIN seen.samples
      PROVE  /\ seen.samples[z].pass = loop.pass
             /\ \A i \in DOMAIN ran :
                  ran[i].prefix = seen.prefix /\ loop # NoLoop /\ z \in DOMAIN ran[i].samples =>
                  ran[i].samples[z] = seen.samples[z]
  <2>1. CASE loop = NoLoop
    <3>1. g = NoData /\ loop.pass = 0
      BY <1>3, <2>1 DEF Keeps, Inv, Shape, NoLoop
    <3> QED
      BY <1>6, <2>1, <3>1 DEF DrawnFrom, Nominal
  <2>2. CASE loop # NoLoop
    <3>1. g # NoData /\ g.pass = loop.pass /\ IsData(g)
      BY <1>3, <2>2 DEF Keeps, Inv, Shape
    <3>2. z \in DOMAIN g.value /\ seen.samples[z] = g.value[z]
      BY <1>6, <3>1 DEF DrawnFrom
    <3>3. \A i \in DOMAIN ran : ran[i].prefix = prefix => DrawnFrom(ran[i].samples, g)
      BY <1>3, <2>2 DEF Inv, PassKept, Keeps
    <3> QED
      BY <1>6, <3>1, <3>2, <3>3 DEF DrawnFrom, IsData
  <2> QED
    BY <2>1, <2>2
<1> HIDE DEF seen
<1> QED
  BY <1>3, <1>5, <1>6, <1>7, <1>8, <1>9 DEF SeesThePresent

\* An analysis sees the variable, the option and the parameter the user has set by then
\* (the default of an option that is not set, or not any more),
\* and in a loop the samples of the pass its results are filed under, the same ones
\* everywhere in the pass (Circuit::elaborateChanges as cmd.cpp calls it, MCData).
THEOREM SeesCurrent == Spec => AnalysisIsCurrent
<1>1. Inv /\ [Next]_vars => [ran' # ran => SeesThePresent(ran'[Len(ran')])]_vars
  <2> SUFFICES ASSUME Inv, Next, ran' # ran
               PROVE  SeesThePresent(ran'[Len(ran')])
    BY DEF vars
  <2>1. RunAnalysis \/ AnalysisFails
    BY DEF Next, SetVariable, SetVariableFails, SetOptions, AddSaves, ClearSession, SetAbortPolicy,
       Postprocess, BadCommand, AlterParameter, AlterParameterFails, ElaborateChanges, PrintFails,
       ElaborateCircuit, ElaborationFails, StartLoop, LoopIsRefused, FirstPassFails, LoopArgumentsFail,
       EndPass, EndLoop, EndLoopFails, EndOfBlock
  <2> QED
    BY <2>1, SeenIsPresent
<1> QED
  BY <1>1, InvHolds, PTL DEF Spec, AnalysisIsCurrent
-----------------------------------------------------------------------------
(* The files of an analysis (Outputs): their rows begin what the run should *)
(* write, in the order in which the cores are asked, and how a run ended is *)
(* told by what it leaves.                                                  *)

\* A set of numbers has a least one.
LEMMA LeastOne ==
    ASSUME NEW T \in SUBSET Nat, T # {}
    PROVE  \E x \in T : \A y \in T : x <= y
<1> DEFINE R == OpToRel(<, Nat)
<1>1. R = {ss \in Nat \X Nat : ss[1] < ss[2]}
  BY DEF OpToRel
<1>2. IsWellFoundedOn(R, Nat)
  BY NatLessThanWellFounded
<1>3. \A x, y \in Nat : <<y, x>> \in R <=> y < x
  BY <1>1
<1> HIDE DEF R
<1>4. \E x \in T : \A y \in T : ~ (<<y, x>> \in R)
  BY <1>2, WFMin
<1>5. PICK x \in T : \A y \in T : ~ (<<y, x>> \in R)
  BY <1>4
<1>6. ASSUME NEW y \in T
      PROVE  x <= y
  <2>1. x \in Nat /\ y \in Nat
    OBVIOUS
  <2>2. ~ (<<y, x>> \in R)
    BY <1>5
  <2>3. ~ (y < x)
    BY <1>3, <2>1, <2>2
  <2> QED BY <2>1, <2>3
<1> QED BY <1>6

\* What holds of 0 and, with a number, of the next one, holds of all up to n.
LEMMA UpTo ==
    ASSUME NEW n \in Nat, NEW T, 0 \in T, \A i \in 1 .. n : i - 1 \in T => i \in T
    PROVE  \A i \in 0 .. n : i \in T
<1> DEFINE Missing == {i \in 0 .. n : i \notin T}
<1> SUFFICES ASSUME Missing # {} PROVE FALSE
  OBVIOUS
<1>1. Missing \in SUBSET Nat
  OBVIOUS
<1>2. PICK x \in Missing : \A y \in Missing : x <= y
  <2> HIDE DEF Missing
  <2> QED BY <1>1, LeastOne
<1>3. x \in 1 .. n /\ x \notin T
  BY <1>2
<1>4. x - 1 \notin Missing
  BY <1>2, <1>3
<1>5. x - 1 \in T
  BY <1>3, <1>4
<1> QED BY <1>3, <1>5

\* What is there after i of the n sequences in f were put together
Joins(g, f, n) == g[0] = <<>> /\ \A i \in 1 .. n : g[i] = g[i - 1] \o f[i]

\* Sequences can be put one after the other.
LEMMA ConcatExists ==
    ASSUME NEW S, NEW n \in Nat, NEW f \in [1 .. n -> Seq(S)]
    PROVE  \E g \in [0 .. n -> Seq(S)] : Joins(g, f, n)
<1> DEFINE Good(g, m) == /\ g \in [0 .. m -> Seq(S)]
                         /\ g[0] = <<>> /\ \A i \in 1 .. m : g[i] = g[i - 1] \o f[i]
           T == {m \in 0 .. n : \E g \in [0 .. m -> Seq(S)] : Good(g, m)}
<1>1. 0 \in T
  <2> DEFINE g == [i \in 0 .. 0 |-> <<>>]
  <2>1. g \in [0 .. 0 -> Seq(S)] /\ g[0] = <<>>
    OBVIOUS
  <2> HIDE DEF g
  <2>2. \A i \in 1 .. 0 : g[i] = g[i - 1] \o f[i]
    OBVIOUS
  <2>3. Good(g, 0)
    BY <2>1, <2>2
  <2>4. 0 \in 0 .. n
    OBVIOUS
  <2> HIDE DEF Good
  <2> QED BY <2>1, <2>3, <2>4
<1>2. ASSUME NEW k \in 1 .. n, k - 1 \in T
      PROVE  k \in T
  <2>1. PICK g \in [0 .. (k - 1) -> Seq(S)] : Good(g, k - 1)
    BY <1>2
  <2> DEFINE h == [i \in 0 .. k |-> IF i = k THEN g[k - 1] \o f[k] ELSE g[i]]
  <2>2. g[k - 1] \in Seq(S) /\ f[k] \in Seq(S) /\ k \in Nat /\ k # 0
    OBVIOUS
  <2>3. h \in [0 .. k -> Seq(S)]
    BY <2>2
  <2>4. h[0] = <<>>
    BY <2>1, <2>2
  <2>5. ASSUME NEW i \in 1 .. k
        PROVE  h[i] = h[i - 1] \o f[i]
    <3>1. i - 1 \in 0 .. (k - 1) /\ i - 1 # k /\ i - 1 \in 0 .. k
      BY <2>2
    <3>2. h[i - 1] = g[i - 1]
      BY <3>1
    <3>3. i \in 0 .. k /\ h[i] = IF i = k THEN g[k - 1] \o f[k] ELSE g[i]
      BY <2>2
    <3> HIDE DEF h
    <3>4. CASE i = k
      BY <3>2, <3>3, <3>4
    <3>5. CASE i # k
      <4>1. i \in 1 .. (k - 1) /\ h[i] = g[i]
        BY <2>2, <3>3, <3>5
      <4>2. g[i] = g[i - 1] \o f[i]
        BY <2>1, <4>1
      <4> QED BY <3>2, <4>1, <4>2
    <3> QED BY <3>4, <3>5
  <2> HIDE DEF h
  <2>6. Good(h, k)
    BY <2>3, <2>4, <2>5
  <2>7. k \in 0 .. n
    OBVIOUS
  <2> HIDE DEF Good
  <2> QED BY <2>3, <2>6, <2>7
<1>3. \A i \in 0 .. n : i \in T
  <2>1. \A i \in 1 .. n : i - 1 \in T => i \in T
    BY <1>2
  <2> HIDE DEF T
  <2> QED BY <1>1, <2>1, UpTo
<1>4. n \in 0 .. n
  OBVIOUS
<1>5. n \in T
  <2> HIDE DEF T
  <2> QED BY <1>3, <1>4
<1> QED BY <1>5 DEF Joins

\* FlattenSeq puts them one after the other.
LEMMA Flattened ==
    ASSUME NEW S, NEW n \in Nat, NEW f \in [1 .. n -> Seq(S)],
           NEW g \in [0 .. n -> Seq(S)], g[0] = <<>>, \A i \in 1 .. n : g[i] = g[i - 1] \o f[i]
    PROVE  FlattenSeq(f) = g[n]
<1>1. f \in Seq(Seq(S)) /\ Len(f) = n
  OBVIOUS
<1>2. CASE n = 0
  <2>1. f = <<>>
    BY <1>1, <1>2
  <2> QED BY <1>2, <2>1 DEF FlattenSeq
<1>3. CASE n # 0
  <2> DEFINE D == 1 .. n
             V(h, i) == IF i = 1 THEN f[i] ELSE h[i - 1] \o f[i]
             c == CHOOSE h : h = [i \in D |-> V(h, i)]
             w == [i \in D |-> g[i]]
  <2>1. FlattenSeq(f) = c[n]
    BY <1>1, <1>3 DEF FlattenSeq
  <2>0. g[1] = f[1]
    <3>1. 1 \in 1 .. n /\ 1 - 1 = 0
      BY <1>3
    <3>2. g[1] = g[1 - 1] \o f[1] /\ f[1] \in Seq(S)
      BY <3>1
    <3>3. g[1] = <<>> \o f[1]
      BY <3>1, <3>2
    <3> QED BY <3>2, <3>3
  <2>2. w = [i \in D |-> V(w, i)]
    <3>1. ASSUME NEW i \in D PROVE w[i] = V(w, i)
      <4>1. CASE i = 1
        BY <2>0, <4>1
      <4>2. CASE i # 1
        <5>1. i - 1 \in D
          BY <4>2
        <5> QED BY <4>2, <5>1
      <4> QED BY <4>1, <4>2
    <3> QED BY <3>1
  <2>3. c = [i \in D |-> V(c, i)]
    <3> HIDE DEF V, w
    <3> QED BY <2>2
  <2> HIDE DEF c
  <2>4. \A i \in D : c[i] = V(c, i)
    <3> HIDE DEF V
    <3> DEFINE W(i) == V(c, i)
    <3>1. c = [i \in D |-> W(i)]
      BY <2>3
    <3> HIDE DEF W
    <3>2. \A i \in D : c[i] = W(i)
      BY <3>1
    <3> QED BY <3>2 DEF W
  <2> DEFINE T == {i \in 0 .. n : i = 0 \/ c[i] = g[i]}
  <2>5. ASSUME NEW i \in 1 .. n, i - 1 \in T
        PROVE  i \in T
    <3>0. i \in D /\ i \in 0 .. n
      OBVIOUS
    <3>1. CASE i = 1
      <4>1. c[1] = f[1]
        BY <2>4, <3>0, <3>1
      <4> QED BY <2>0, <3>0, <3>1, <4>1
    <3>2. CASE i # 1
      <4>1. c[i] = c[i - 1] \o f[i]
        BY <2>4, <3>0, <3>2
      <4>2. c[i - 1] = g[i - 1]
        BY <2>5, <3>2
      <4>3. g[i] = g[i - 1] \o f[i]
        OBVIOUS
      <4> QED BY <3>0, <4>1, <4>2, <4>3
    <3> QED BY <3>1, <3>2
  <2>6. \A i \in 0 .. n : i \in T
    <3>1. 0 \in T /\ \A i \in 1 .. n : i - 1 \in T => i \in T
      BY <2>5
    <3> HIDE DEF T
    <3> QED BY <3>1, UpTo
  <2>7. n \in T
    BY <2>6
  <2> QED BY <1>3, <2>1, <2>7
<1> QED BY <1>2, <1>3


\* So every beginning of the list gives a beginning of what it is put together to.
LEMMA Concatenated ==
    ASSUME NEW S, NEW n \in Nat, NEW f \in [1 .. n -> Seq(S)]
    PROVE  LET P(i) == FlattenSeq([j \in 1 .. i |-> f[j]])
           IN  /\ P(0) = <<>>
               /\ \A i \in 0 .. n : P(i) \in Seq(S)
               /\ \A i \in 1 .. n : P(i) = P(i - 1) \o f[i]
<1>0. \E g \in [0 .. n -> Seq(S)] : Joins(g, f, n)
  BY ConcatExists
<1>1. PICK g \in [0 .. n -> Seq(S)] : g[0] = <<>> /\ \A i \in 1 .. n : g[i] = g[i - 1] \o f[i]
  BY <1>0 DEF Joins
<1> DEFINE P(i) == FlattenSeq([j \in 1 .. i |-> f[j]])
<1>2. ASSUME NEW i \in 0 .. n
      PROVE  P(i) = g[i]
  <2> DEFINE fi == [j \in 1 .. i |-> f[j]]
             gi == [j \in 0 .. i |-> g[j]]
  <2>1. i \in Nat /\ fi \in [1 .. i -> Seq(S)] /\ gi \in [0 .. i -> Seq(S)]
    OBVIOUS
  <2>2. gi[0] = <<>>
    BY <1>1
  <2>3. ASSUME NEW j \in 1 .. i
        PROVE  gi[j] = gi[j - 1] \o fi[j]
    <3>1. j \in 1 .. n /\ j - 1 \in 0 .. i /\ j \in 0 .. i
      OBVIOUS
    <3>2. gi[j] = g[j] /\ gi[j - 1] = g[j - 1] /\ fi[j] = f[j]
      BY <3>1
    <3> HIDE DEF fi, gi
    <3> QED BY <1>1, <3>1, <3>2
  <2>4. gi[i] = g[i]
    BY <2>1
  <2> HIDE DEF gi
  <2>5. FlattenSeq(fi) = gi[i]
    <3> HIDE DEF fi
    <3> QED BY <2>1, <2>2, <2>3, Flattened
  <2> QED BY <2>4, <2>5
<1> HIDE DEF P
<1>3. P(0) = <<>>
  BY <1>1, <1>2
<1>4. \A i \in 0 .. n : P(i) \in Seq(S)
  BY <1>2
<1>5. ASSUME NEW i \in 1 .. n
      PROVE  P(i) = P(i - 1) \o f[i]
  <2>1. i \in 0 .. n /\ i - 1 \in 0 .. n
    OBVIOUS
  <2> QED BY <1>1, <1>2, <2>1
<1> QED BY <1>3, <1>4, <1>5 DEF P


(* Rows of a core at a point: the table of the first core is the same for   *)
(* all circuits.                                                           *)
RowCount(core) ==
    LET table == CoresOf(a.kind, a.circuits[1])[1]
    IN IF a.kind \in {"op", "dcinc", "dcxf"} \/ (core = 1 /\ "outvar" \in DOMAIN table.binds
                                                          /\ table.always = <<>>)
       THEN 1 ELSE Rows

RowsUpTo(core, i) ==
    FlattenSeq([j \in 1..i |-> [r \in 1..RowCount(core) |-> <<j, r>>]])

OfPoint(m) == [r \in 1..m |-> <<point, r>>]

Places(f) == [k \in DOMAIN f.rows |-> <<f.rows[k].point, f.rows[k].row>>]

Follows(x, y) ==
    \/ y[1] = x[1] /\ y[2] = x[2] + 1
    \/ y[1] = x[1] + 1 /\ y[2] = 1 /\ x[2] = RowCount(x[1])

Chain(q, n) ==
    /\ q \in Seq(Nat \X Nat)
    /\ \A k \in 1..Len(q) : q[k][1] \in 1..n /\ q[k][2] \in 1..RowCount(q[k][1])
    /\ \A k \in 1..(Len(q) - 1) : Follows(q[k], q[k + 1])
    /\ q # <<>> => q[Len(q)] = <<n, RowCount(n)>>

WrittenHere(core) ==
    IF pc \notin {"core", "finished", "done"} THEN 0
    ELSE IF left = <<>> THEN RowCount(core)
    ELSE IF core < Head(left)[1] THEN RowCount(core)
    ELSE IF core = Head(left)[1] THEN Head(left)[2] - 1
    ELSE 0

Building == {"elaborate", "list", "rebuild", "resolve", "start"}

Going == pc \notin {"aborted", "after abort", "deleted"}

IsFile(f) ==
    /\ f = [from |-> f.from, header |-> f.header, rows |-> f.rows, count |-> f.count]
    /\ f.rows \in Seq(Range(f.rows))

OutTypes ==
    /\ a \in Runs
    /\ point \in 1..Len(a.circuits)
    /\ pc \in {"elaborate", "list", "rebuild", "resolve", "start", "core", "finished", "done", "aborted",
               "after abort", "deleted"}
    /\ outputInitialized \in BOOLEAN
    /\ files = [name \in Range(FilesOf(a.kind)) |-> files[name]]
    /\ \A core \in Cores : IsFile(File(core))

FilesOpened ==
    /\ point > 1 \/ pc \in {"core", "finished", "done"} => outputInitialized
    /\ pc # "done" => stored = {}
    /\ \A core \in Cores :
          IF ~a.write[core] THEN File(core) = OldFile
          ELSE IF pc = "after abort" /\ a.strictoutput THEN File(core) = NoFile
          ELSE IF outputInitialized THEN Written(core) ELSE File(core) = OldFile

Ahead ==
    /\ Chain(left, Len(a.write))
    /\ pc \in {"elaborate", "list", "rebuild", "resolve", "start", "finished", "done"} => left = <<>>

RowsInOrder ==
    \A core \in Cores : a.write[core] =>
        /\ IsPrefix(Places(File(core)), RowsUpTo(core, Len(a.circuits)))
        /\ Going => Places(File(core)) = RowsUpTo(core, point - 1) \o OfPoint(WrittenHere(core))
        /\ File(core).count = IF pc = "done" THEN Len(File(core).rows) ELSE None

LastWhenDone == pc \in {"finished", "done"} => point = Len(a.circuits)

OutInv == OutTypes /\ FilesOpened /\ Ahead /\ RowsInOrder /\ LastWhenDone

\* The rows of a core up to a point, point after point
LEMMA RowsGrow ==
    ASSUME NEW core, RowCount(core) \in Nat
    PROVE  /\ RowsUpTo(core, 0) = <<>>
           /\ \A i \in Nat : RowsUpTo(core, i) \in Seq(Nat \X Nat)
           /\ \A i \in Nat \ {0} : RowsUpTo(core, i) =
                  RowsUpTo(core, i - 1) \o [r \in 1 .. RowCount(core) |-> <<i, r>>]
<1> DEFINE Row(j) == [r \in 1 .. RowCount(core) |-> <<j, r>>]
<1>1. \A j \in Nat : Row(j) \in Seq(Nat \X Nat)
  OBVIOUS
<1> HIDE DEF Row
<1>2. ASSUME NEW n \in Nat
      PROVE  /\ RowsUpTo(core, 0) = <<>>
             /\ RowsUpTo(core, n) \in Seq(Nat \X Nat)
             /\ n # 0 => RowsUpTo(core, n) = RowsUpTo(core, n - 1) \o Row(n)
  <2> DEFINE f == [j \in 1 .. n |-> Row(j)]
             P(i) == FlattenSeq([j \in 1 .. i |-> f[j]])
  <2>1. f \in [1 .. n -> Seq(Nat \X Nat)]
    BY <1>1
  <2>2. ASSUME NEW i \in 0 .. n
        PROVE  [j \in 1 .. i |-> f[j]] = [j \in 1 .. i |-> Row(j)]
    OBVIOUS
  <2>3. \A i \in 0 .. n : P(i) = RowsUpTo(core, i)
    BY <2>2 DEF RowsUpTo, Row
  <2>4. \A i \in 1 .. n : f[i] = Row(i)
    OBVIOUS
  <2>5. /\ P(0) = <<>>
        /\ \A i \in 0 .. n : P(i) \in Seq(Nat \X Nat)
        /\ \A i \in 1 .. n : P(i) = P(i - 1) \o f[i]
    <3> HIDE DEF f
    <3> QED BY <2>1, Concatenated, ZenonT(60)
  <2> HIDE DEF P, f
  <2>6. 0 \in 0 .. n /\ n \in 0 .. n /\ (n # 0 => n - 1 \in 0 .. n /\ n \in 1 .. n)
    OBVIOUS
  <2> QED BY <2>3, <2>4, <2>5, <2>6
<1> QED BY <1>2 DEF Row

\* One list begins the other.
Begins(s, t) == Len(s) <= Len(t) /\ \A k \in 1 .. Len(s) : s[k] = t[k]

\* What begins a sequence is a prefix of it.
LEMMA BeginsIsPrefix ==
    ASSUME NEW S, NEW s \in Seq(S), NEW t \in Seq(S), Begins(s, t)
    PROVE  IsPrefix(s, t)
<1>1. SubSeq(t, 1, Len(s)) = [k \in 1 .. Len(s) |-> t[k]]
  BY DEF Begins
<1>2. SubSeq(s, 1, Len(s)) = [k \in 1 .. Len(s) |-> s[k]]
  OBVIOUS
<1> QED BY <1>1, <1>2 DEF Begins, IsPrefix

\* The rows up to a point begin the rows up to a later one.
LEMMA RowsBegin ==
    ASSUME NEW core, RowCount(core) \in Nat, NEW i \in Nat, NEW n \in Nat, i <= n
    PROVE  Begins(RowsUpTo(core, i), RowsUpTo(core, n))
<1> DEFINE R(j) == RowsUpTo(core, j)
           T == {j \in Nat : i <= j => Begins(R(i), R(j))}
<1>1. \A j \in Nat : R(j) \in Seq(Nat \X Nat)
  BY RowsGrow
<1>2. \A j \in Nat \ {0} : R(j) = R(j - 1) \o [r \in 1 .. RowCount(core) |-> <<j, r>>]
  BY RowsGrow
<1> HIDE DEF R
<1>3. Begins(R(i), R(i))
  BY <1>1 DEF Begins
<1>4. 0 \in T
  BY <1>3
<1>5. ASSUME NEW j \in 1 .. n, j - 1 \in T
      PROVE  j \in T
  <2>1. CASE i = j
    BY <1>3, <2>1
  <2>2. CASE i < j
    <3>1. Begins(R(i), R(j - 1))
      BY <1>5, <2>2
    <3> DEFINE more == [r \in 1 .. RowCount(core) |-> <<j, r>>]
    <3>0. j \in Nat \ {0}
      OBVIOUS
    <3>2a. R(j) = R(j - 1) \o more
      BY <1>2, <3>0
    <3>2b. more \in Seq(Nat \X Nat)
      BY <3>0
    <3>2. R(j) = R(j - 1) \o more /\ more \in Seq(Nat \X Nat)
      BY <3>2a, <3>2b
    <3> HIDE DEF more
    <3>3. R(j - 1) \in Seq(Nat \X Nat) /\ R(i) \in Seq(Nat \X Nat)
      BY <1>1
    <3>4. Begins(R(j - 1), R(j))
      BY <3>2, <3>3 DEF Begins
    <3>5. R(j) \in Seq(Nat \X Nat)
      BY <1>1
    <3>6. Begins(R(i), R(j))
      BY <3>1, <3>3, <3>4, <3>5 DEF Begins
    <3> QED BY <3>6
  <2> QED BY <2>1, <2>2
<1>6. n \in T
  <2>1. n \in 0 .. n
    OBVIOUS
  <2> HIDE DEF T
  <2> QED BY <1>4, <1>5, <2>1, UpTo
<1> QED BY <1>6 DEF R

\* The files of an analysis have different names.
LEMMA FilesDiffer ==
    ASSUME NEW kind
    PROVE  /\ Len(FilesOf(kind)) \in {1, 2}
                  /\ DOMAIN FilesOf(kind) = 1 .. Len(FilesOf(kind))
           /\ \A i, j \in DOMAIN FilesOf(kind) : FilesOf(kind)[i] = FilesOf(kind)[j]
                  => i = j
<1>1. FilesOf(kind) \in {<<"">>, <<".op", "">>, <<".tran", "">>, <<".hb", "">>}
  BY DEF FilesOf, OPFiles, HBFiles, TranFiles, PssFiles, SmallSignalFiles,
         HBSmallSignalFiles
<1> DEFINE f == FilesOf(kind)
<1> HIDE DEF f
<1>2. \A s, t : s # t => Len(<<s, t>>) = 2 /\ DOMAIN <<s, t>> = 1 .. 2 /\ <<s, t>>[1] # <<s, t>>[2]
  OBVIOUS
<1>3. \A s : Len(<<s>>) = 1 /\ DOMAIN <<s>> = 1 .. 1
  OBVIOUS
<1>4. CASE f = <<"">>
  <2>1. Len(f) = 1 /\ DOMAIN f = 1 .. 1
    BY <1>3, <1>4
  <2>2. \A i, j \in 1 .. 1 : i = j
    OBVIOUS
  <2> QED BY <2>1, <2>2 DEF f
<1>5. CASE f # <<"">>
  <2>1. Len(f) = 2 /\ DOMAIN f = 1 .. 2 /\ f[1] # f[2]
    <3>1. PICK s : s \in {".op", ".tran", ".hb"} /\ f = <<s, "">>
      BY <1>1, <1>5 DEF f
    <3>2. s # ""
      BY <3>1
    <3> QED BY <1>2, <3>1, <3>2
  <2>2. \A i, j \in DOMAIN f : f[i] = f[j] => i = j
    BY <2>1
  <2> QED BY <2>1, <2>2 DEF f
<1> QED BY <1>4, <1>5

\* The first core of an analysis is the same in all circuits.
LEMMA FirstCore ==
    ASSUME NEW kind \in Kinds, NEW c, NEW d
    PROVE  CoresOf(kind, c)[1] = CoresOf(kind, d)[1]
<1>1. CASE kind \in {"op", "hb", "tran", "pss"}
  BY <1>1 DEF CoresOf
<1>2. CASE kind \in {"ac", "dcinc", "acxf", "dcxf", "noise", "acsp", "acstb"}
  <2>1. \A x : SmallSignalCores(x)[1] = OperatingPointOutputs
    BY DEF SmallSignalCores
  <2> QED BY <1>2, <2>1 DEF CoresOf
<1>3. CASE kind \in {"hbac", "hbnoise"}
  BY <1>3 DEF CoresOf
<1> QED BY <1>1, <1>2, <1>3 DEF Kinds

\* What a well-formed run looks like: a file for each core and rows at each point
LEMMA RunShape ==
    ASSUME a \in Runs
    PROVE  /\ Cores = 1 .. Len(a.write) /\ Len(a.write) \in Nat \ {0}
           /\ Len(a.circuits) \in Nat \ {0} /\ DOMAIN a.circuits = 1 .. Len(a.circuits)
           /\ \A core \in Cores : FileName(core) \in Range(FilesOf(a.kind))
           /\ \A c, d \in Cores : FileName(c) = FileName(d) => c = d
           /\ \A core : RowCount(core) \in Nat \ {0}
           /\ \A core \in Cores : RowsOf(core) = RowCount(core)
<1>1. /\ a.kind \in Kinds
      /\ a.circuits \in Seq(Range(a.circuits)) \ {<<>>}
      /\ a.write \in Seq(BOOLEAN) /\ Len(a.write) = Len(FilesOf(a.kind))
      /\ Rows \in Nat \ {0}
  BY RunsAssumption
<1>2. DOMAIN a.write = 1 .. Len(a.write) /\ Len(a.write) \in Nat \ {0}
  <2>1. Len(a.write) \in {1, 2}
    BY <1>1, FilesDiffer
  <2>2. DOMAIN a.write = 1 .. Len(a.write)
    BY <1>1
  <2> QED BY <2>1, <2>2
<1>3. Cores = 1 .. Len(a.write)
  BY <1>2 DEF Cores
<1>4. Len(a.circuits) \in Nat \ {0} /\ DOMAIN a.circuits = 1 .. Len(a.circuits)
  BY <1>1
<1>5. \A core \in Cores : FileName(core) \in Range(FilesOf(a.kind))
  <2>1. \A core \in Cores : core \in DOMAIN FilesOf(a.kind)
    BY <1>1, <1>3, FilesDiffer
  <2> QED BY <2>1 DEF FileName, Range
<1>6. \A c, d \in Cores : FileName(c) = FileName(d) => c = d
  BY <1>1, <1>3, FilesDiffer DEF FileName
<1>7. \A core : RowCount(core) \in Nat \ {0}
  BY <1>1 DEF RowCount
<1>8. CoresOf(a.kind, a.circuits[point])[1] = CoresOf(a.kind, a.circuits[1])[1]
  BY <1>1, FirstCore
<1>9. \A core \in Cores : RowsOf(core) = RowCount(core)
  BY <1>8 DEF RowsOf, RowCount, Tables, Circuit
<1> QED BY <1>2, <1>3, <1>4, <1>5, <1>6, <1>7, <1>9

\* Two cores that follow each other in a list
LEMMA WritingIs ==
    ASSUME a \in Runs, NEW core \in Cores
    PROVE  {c \in Cores : a.write[c] /\ FileName(c) = FileName(core)} =
              IF a.write[core] THEN {core} ELSE {}
  BY RunShape

\* The prologue changes the files of the cores that write, each its own.
LEMMA Prologued ==
    ASSUME OutTypes, NEW core \in Cores
    PROVE  ForCores(Prologue)[FileName(core)] =
               IF a.write[core] THEN Prologue(core, File(core)) ELSE File(core)
<1> DEFINE name == FileName(core)
<1>1. name \in DOMAIN files
  BY RunShape DEF OutTypes
<1>2. {c \in Cores : a.write[c] /\ FileName(c) = name} = IF a.write[core] THEN {core} ELSE {}
  BY WritingIs DEF OutTypes
<1> HIDE DEF name
<1> QED BY <1>1, <1>2 DEF ForCores, File, name

\* Deleting takes the files of the cores that write, and no other.
LEMMA Deleted ==
    ASSUME OutTypes, NEW core \in Cores
    PROVE  ForCores(DeleteOutput)[FileName(core)]
               = IF a.write[core] THEN NoFile ELSE File(core)
<1> DEFINE name == FileName(core)
<1>1. name \in DOMAIN files
  BY RunShape DEF OutTypes
<1>2. {c \in Cores : a.write[c] /\ FileName(c) = name} = IF a.write[core] THEN {core} ELSE {}
  BY WritingIs DEF OutTypes
<1> HIDE DEF name
<1> QED BY <1>1, <1>2 DEF ForCores, File, DeleteOutput, name

\* The epilogue changes the files of the cores that write, each its own.
LEMMA Epilogued ==
    ASSUME OutTypes, NEW core \in Cores
    PROVE  ForCores(Epilogue)[FileName(core)] =
               IF a.write[core] THEN [File(core) EXCEPT !.count
                   = Len(File(core).rows)] ELSE File(core)
<1> DEFINE name == FileName(core)
<1>1. name \in DOMAIN files
  BY RunShape DEF OutTypes
<1>2. {c \in Cores : a.write[c] /\ FileName(c) = name} = IF a.write[core] THEN {core} ELSE {}
  BY WritingIs DEF OutTypes
<1> HIDE DEF name
<1> QED BY <1>1, <1>2 DEF ForCores, File, Epilogue, name

\* The file an action leaves has the columns and rows of a file.
LEMMA FileShapes ==
    /\ IsFile(NoFile) /\ NoFile.rows = <<>> /\ NoFile.count = None
    /\ IsFile(OldFile) /\ OldFile.rows = <<>> /\ OldFile.count = None
    /\ \A core, f : LET g == Prologue(core, f)
                    IN  IsFile(g) /\ g.rows = <<>> /\ g.count = None /\ g.from = "this run"
<1>1. <<>> \in Seq(Range(<<>>))
  OBVIOUS
<1>2. IsFile(NoFile) /\ NoFile.rows = <<>> /\ NoFile.count = None
  BY <1>1 DEF NoFile, IsFile
<1>3. IsFile(OldFile) /\ OldFile.rows = <<>> /\ OldFile.count = None
  BY <1>1 DEF NoFile, OldFile, IsFile
<1>4. ASSUME NEW core, NEW f
      PROVE  LET g == Prologue(core, f)
             IN  IsFile(g) /\ g.rows = <<>> /\ g.count = None /\ g.from = "this run"
  <2> DEFINE columns == [k \in DOMAIN sources[core] |-> sources[core][k].name]
             g == Prologue(core, f)
  <2>1. g = [NoFile EXCEPT !.from = "this run", !.header = columns]
    BY DEF Prologue
  <2> HIDE DEF columns, g
  <2>2. g = [from |-> "this run", header |-> columns, rows |-> <<>>, count |-> None]
    BY <2>1 DEF NoFile
  <2>3. IsFile(g) /\ g.rows = <<>> /\ g.count = None /\ g.from = "this run"
    BY <1>1, <2>2 DEF IsFile
  <2> QED BY <2>3 DEF g
<1> QED BY <1>2, <1>3, <1>4

\* A file without rows has no places.
LEMMA Places0 ==
    ASSUME NEW f, f.rows = <<>>
    PROVE  Places(f) = <<>>
<1>1. DOMAIN f.rows = {}
  OBVIOUS
<1> QED BY <1>1 DEF Places

\* A row more
LEMMA AppendPlace ==
    ASSUME NEW f, IsFile(f), NEW x
    PROVE  LET g == [f EXCEPT !.rows = Append(@, x)]
           IN  /\ IsFile(g) /\ g.from = f.from /\ g.count = f.count
               /\ Places(g) = Places(f) \o << <<x.point, x.row>> >>
<1> DEFINE g == [f EXCEPT !.rows = Append(@, x)]
           r == f.rows
           s == Append(r, x)
           R == Range(r) \cup {x}
<1>1. /\ g = [from |-> f.from, header |-> f.header, rows |-> s, count |-> f.count]
      /\ g.from = f.from /\ g.count = f.count /\ g.rows = s /\ g.header = f.header
  <2>1. g = [f EXCEPT !.rows = s]
    OBVIOUS
  <2> HIDE DEF g, s
  <2>2. f = [from |-> f.from, header |-> f.header, rows |-> f.rows, count |-> f.count]
    BY DEF IsFile
  <2> QED BY <2>1, <2>2
<1>2. r \in Seq(Range(r))
  BY DEF IsFile
<1> HIDE DEF g, r
<1>3. r \in Seq(R) /\ x \in R
  <2>1. \A k \in 1 .. Len(r) : r[k] \in R
    BY <1>2
  <2> QED BY <1>2, <2>1
<1>4. s \in Seq(R) /\ Len(s) = Len(r) + 1 /\ s[Len(r) + 1] = x
      /\ \A k \in 1 .. Len(r) : s[k] = r[k]
  BY <1>3
<1>5. s \in Seq(Range(s))
  <2> HIDE DEF s
  <2>1. \A k \in 1 .. Len(s) : s[k] \in Range(s)
    BY <1>4 DEF Range
  <2> QED BY <1>4, <2>1
<1>6. IsFile(g)
  BY <1>1, <1>5 DEF IsFile
<1>7. Places(g) = Places(f) \o << <<x.point, x.row>> >>
  <2> DEFINE p == [k \in DOMAIN r |-> <<r[k].point, r[k].row>>]
             q == [k \in DOMAIN s |-> <<s[k].point, s[k].row>>]
             e == <<x.point, x.row>>
             Q == {p[k] : k \in 1 .. Len(r)} \cup {e}
  <2>1. Places(f) = p /\ Places(g) = q
    BY <1>1 DEF Places, r
  <2>2. DOMAIN r = 1 .. Len(r) /\ DOMAIN s = 1 .. (Len(r) + 1) /\ Len(r) \in Nat
    <3> HIDE DEF s
    <3> QED BY <1>3, <1>4
  <2>3. p \in Seq(Q) /\ Len(p) = Len(r) /\ e \in Q
    <3>1. p \in [1 .. Len(r) -> Q]
      BY <2>2
    <3> QED BY <2>2, <3>1
  <2>4. \A k \in 1 .. Len(r) : q[k] = p[k]
    <3> HIDE DEF s
    <3> QED BY <1>4, <2>2
  <2>5. q[Len(r) + 1] = e
    <3> HIDE DEF s
    <3> QED BY <1>4, <2>2
  <2>6. q = [k \in 1 .. (Len(r) + 1) |-> q[k]]
    <3> HIDE DEF s
    <3> QED BY <2>2
  <2> HIDE DEF p, q, e, Q
  <2>7. p \o <<e>> = [k \in 1 .. (Len(r) + 1) |-> IF k <= Len(r) THEN p[k] ELSE e]
    BY <2>2, <2>3
  <2>8. \A k \in 1 .. (Len(r) + 1) : q[k] = IF k <= Len(r) THEN p[k] ELSE e
    <3> TAKE k \in 1 .. (Len(r) + 1)
    <3>1. k \in 1 .. Len(r) \/ k = Len(r) + 1
      BY <2>2
    <3> QED BY <2>2, <2>4, <2>5, <3>1
  <2>9. q = p \o <<e>>
    BY <2>6, <2>7, <2>8
  <2> QED BY <2>1, <2>9 DEF e
<1> QED BY <1>1, <1>6, <1>7 DEF g

\* The rows of a point are asked for core after core, without a gap.
LEMMA QueueIsChain ==
    ASSUME OutTypes
    PROVE  /\ Chain(RowsToWrite, Len(a.write))
           /\ RowsToWrite # <<>> /\ Head(RowsToWrite) = <<1, 1>>
<1> DEFINE n == Len(a.write)
           Row(c) == [r \in 1 .. RowCount(c) |-> <<c, r>>]
           f == [c \in 1 .. n |-> Row(c)]
           P(i) == FlattenSeq([j \in 1 .. i |-> f[j]])
<1>1. n \in Nat \ {0} /\ Cores = 1 .. n /\ \A c : RowCount(c) \in Nat \ {0}
  BY RunShape DEF OutTypes
<1>2. RowsToWrite = P(n)
  <2>1. \A c \in 1 .. n : RowsOf(c) = RowCount(c)
    BY <1>1, RunShape DEF OutTypes
  <2>2. [c \in Cores |-> [r \in 1 .. RowsOf(c) |-> <<c, r>>]] = [j \in 1 .. n |-> f[j]]
    BY <1>1, <2>1
  <2> QED BY <2>2 DEF RowsToWrite
<1> HIDE DEF n
<1>3. ASSUME NEW c \in 1 .. n
      PROVE  /\ Row(c) \in Seq(Nat \X Nat) /\ Len(Row(c)) = RowCount(c)
             /\ \A r \in 1 .. RowCount(c) : Row(c)[r] = <<c, r>>
  BY <1>1
<1> HIDE DEF Row
<1>4. f \in [1 .. n -> Seq(Nat \X Nat)] /\ \A c \in 1 .. n : f[c] = Row(c)
  BY <1>3
<1> HIDE DEF f
<1>5. /\ P(0) = <<>>
      /\ \A i \in 0 .. n : P(i) \in Seq(Nat \X Nat)
      /\ \A i \in 1 .. n : P(i) = P(i - 1) \o f[i]
  <2>1. n \in Nat
    BY <1>1
  <2> QED BY <1>4, <2>1, Concatenated
<1> HIDE DEF P
<1> DEFINE T == {i \in 0 .. n : Chain(P(i), i) /\ (i # 0 => P(i) # <<>> /\ P(i)[1] = <<1, 1>>)}
<1>6. 0 \in T
  BY <1>1, <1>5 DEF Chain
<1>7. ASSUME NEW i \in 1 .. n, i - 1 \in T
      PROVE  i \in T
  <2> DEFINE s == P(i - 1)
             t == Row(i)
             q == P(i)
             L == Len(s)
             R == RowCount(i)
  <2>0. i \in Nat /\ i \in 0 .. n /\ i - 1 \in 0 .. n /\ R \in Nat \ {0}
    BY <1>1
  <2>1a. s \in Seq(Nat \X Nat)
    BY <1>5, <2>0
  <2>1b. t \in Seq(Nat \X Nat) /\ Len(t) = R
    BY <1>3
  <2>1c. q = s \o t
    BY <1>4, <1>5
  <2>1. s \in Seq(Nat \X Nat) /\ t \in Seq(Nat \X Nat) /\ q = s \o t /\ Len(t) = R
        /\ R \in Nat \ {0} /\ i \in Nat /\ i - 1 \in 0 .. n
    BY <2>0, <2>1a, <2>1b, <2>1c
  <2>2. Chain(s, i - 1) /\ (i # 1 => s # <<>> /\ s[1] = <<1, 1>>)
    BY <1>7, <2>1
  <2>3. \A r \in 1 .. R : t[r] = <<i, r>>
    BY <1>3
  <2> HIDE DEF s, t, q, R
  <2>4. /\ q \in Seq(Nat \X Nat) /\ Len(q) = L + R /\ L \in Nat
        /\ \A k \in 1 .. L : q[k] = s[k]
        /\ \A k \in 1 .. R : q[L + k] = t[k]
    <3>1. s \o t \in Seq(Nat \X Nat) /\ Len(s \o t) = Len(s) + Len(t) /\ Len(s) \in Nat
      <4> DEFINE Pairs == Nat \X Nat
      <4>1. s \in Seq(Pairs) /\ t \in Seq(Pairs)
        BY <2>1
      <4> HIDE DEF Pairs
      <4>2. s \o t \in Seq(Pairs) /\ Len(s \o t) = Len(s) + Len(t) /\ Len(s) \in Nat
        BY <4>1
      <4> QED BY <4>2 DEF Pairs
    <3>2. \A k \in 1 .. Len(s) : (s \o t)[k] = s[k]
      BY <2>1
    <3>3. \A k \in 1 .. Len(t) : (s \o t)[Len(s) + k] = t[k]
      BY <2>1
    <3> QED BY <2>1, <3>1, <3>2, <3>3
  <2> HIDE DEF L
  <2>5. \A k \in 1 .. R : q[L + k] = <<i, k>>
    BY <2>3, <2>4
  <2>6. i = 1 => L = 0
    BY <1>5, <2>2 DEF s, L
  <2>7. L # 0 => s[L] = <<i - 1, RowCount(i - 1)>>
    BY <2>2, <2>4 DEF Chain, L
  <2>8. ASSUME NEW k \in 1 .. L
        PROVE  q[k] = s[k] /\ q[k][1] \in 1 .. (i - 1) /\ q[k][2] \in 1 .. RowCount(q[k][1])
    BY <2>2, <2>4 DEF Chain, L
  <2>9. ASSUME NEW k \in 1 .. (L + R)
        PROVE  q[k][1] \in 1 .. i /\ q[k][2] \in 1 .. RowCount(q[k][1])
    <3>1. CASE k <= L
      <4>1. k \in 1 .. L
        BY <2>4, <3>1
      <4>2. q[k][1] \in 1 .. (i - 1) /\ q[k][2] \in 1 .. RowCount(q[k][1])
        BY <2>8, <4>1
      <4>3. 1 .. (i - 1) \subseteq 1 .. i
        BY <2>1
      <4> QED BY <4>2, <4>3
    <3>2. CASE k > L
      <4>1. k - L \in 1 .. R /\ L + (k - L) = k
        BY <2>1, <2>4, <3>2
      <4>2. q[k] = <<i, k - L>>
        BY <2>5, <4>1
      <4>3. q[k][1] = i /\ q[k][2] = k - L /\ i \in 1 .. i
        BY <2>1, <4>2
      <4> QED BY <4>1, <4>3 DEF R
    <3> QED BY <2>4, <3>1, <3>2
  <2>10. ASSUME NEW k \in 1 .. (L + R - 1)
         PROVE  Follows(q[k], q[k + 1])
    <3>1. CASE k < L
      <4>1. k \in 1 .. (L - 1) /\ k \in 1 .. L /\ k + 1 \in 1 .. L
        BY <2>1, <2>4, <3>1
      <4>2. Follows(s[k], s[k + 1])
        BY <2>2, <4>1 DEF Chain, L
      <4> QED BY <2>8, <4>1, <4>2
    <3>2. CASE k = L
      <4>1. L \in 1 .. L /\ L # 0 /\ 1 \in 1 .. R
        BY <2>1, <2>4, <3>2
      <4>2. q[L] = <<i - 1, RowCount(i - 1)>>
        BY <2>4, <2>7, <4>1
      <4>3. q[L + 1] = <<i, 1>>
        BY <2>5, <4>1
      <4>4. i = (i - 1) + 1
        BY <2>1
      <4> QED BY <3>2, <4>2, <4>3, <4>4 DEF Follows
    <3>3. CASE k > L
      <4> DEFINE r == k - L
      <4>1. r \in 1 .. R /\ r + 1 \in 1 .. R /\ L + r = k /\ L + (r + 1) = k + 1
        BY <2>1, <2>4, <3>3
      <4> HIDE DEF r
      <4>2. q[k] = <<i, r>>
        BY <2>5, <4>1
      <4>3. q[k + 1] = <<i, r + 1>>
        BY <2>5, <4>1
      <4> QED BY <4>2, <4>3 DEF Follows
    <3> QED BY <2>4, <3>1, <3>2, <3>3
  <2>11. q[Len(q)] = <<i, R>>
    <3>1. R \in 1 .. R
      BY <2>1
    <3>2. q[L + R] = <<i, R>>
      BY <2>5, <3>1
    <3> QED BY <2>4, <3>2
  <2>12. Chain(q, i)
    <3>1. \A k \in 1 .. Len(q) : q[k][1] \in 1 .. i /\ q[k][2] \in 1 .. RowCount(q[k][1])
      BY <2>4, <2>9
    <3>2. \A k \in 1 .. (Len(q) - 1) : Follows(q[k], q[k + 1])
      <4>1. Len(q) - 1 = L + R - 1
        BY <2>1, <2>4
      <4> QED BY <2>10, <4>1
    <3> QED BY <2>4, <2>11, <3>1, <3>2 DEF Chain, R
  <2>13. q # <<>>
    BY <2>1, <2>4
  <2>14. q[1] = <<1, 1>>
    <3>1. CASE i = 1
      <4>1. 1 \in 1 .. R /\ L + 1 = 1
        BY <2>1, <2>6, <3>1
      <4> QED BY <2>5, <3>1, <4>1
    <3>2. CASE i # 1
      <4>1. L # 0
        BY <2>1, <2>2, <3>2 DEF L
      <4>2. 1 \in 1 .. L
        BY <2>4, <4>1
      <4> QED BY <2>2, <2>4, <3>2, <4>2
    <3> QED BY <3>1, <3>2
  <2> QED BY <2>12, <2>13, <2>14 DEF q
<1>8. n \in T
  <2>1. n \in 0 .. n
    BY <1>1
  <2> HIDE DEF T
  <2> QED BY <1>1, <1>6, <1>7, <2>1, UpTo
<1> QED BY <1>1, <1>2, <1>5, <1>8 DEF n

\* A row that is taken from the list is the next one of its core.
LEMMA TakeRow ==
    ASSUME OutTypes, Ahead, pc = "core", left # <<>>, left' = Tail(left),
           pc' = pc, a' = a
    PROVE  LET c == left[1][1]
               r == left[1][2]
           IN  /\ Chain(Tail(left), Len(a.write))
               /\ c \in Cores /\ r \in 1 .. RowCount(c) /\ left[1] = <<c, r>>
               /\ WrittenHere(c) = r - 1
               /\ \A core \in Cores :
                     WrittenHere(core)' = IF core = c THEN r ELSE WrittenHere(core)
<1> DEFINE n == Len(a.write)
           c == left[1][1]
           r == left[1][2]
           RC(core) == RowCount(core)
           q == Tail(left)
<1>1. n \in Nat \ {0} /\ Cores = 1 .. n /\ \A core : RC(core) \in Nat \ {0}
  BY RunShape DEF OutTypes
<1>2. Chain(left, n)
  BY DEF Ahead
<1>3. \A core : RowCount(core)' = RC(core)
  BY DEF RowCount
<1> HIDE DEF n
<1>4. left \in Seq(Nat \X Nat) /\ 1 \in 1 .. Len(left) /\ Len(left) \in Nat \ {0}
          /\ Head(left) = left[1]
  BY <1>2 DEF Chain
<1>5. c \in 1 .. n /\ r \in 1 .. RC(c) /\ left[1] = <<c, r>>
  <2>1. left[1] \in Nat \X Nat
    BY <1>4
  <2> QED BY <1>2, <1>4, <2>1 DEF Chain
<1>6. /\ q \in Seq(Nat \X Nat) /\ Len(q) = Len(left) - 1
      /\ \A k \in 1 .. (Len(left) - 1) : q[k] = left[k + 1]
  BY <1>4
<1> HIDE DEF q
<1>7. Chain(q, n)
  <2> DEFINE m == Len(left)
  <2> HIDE DEF m
  <2>0. m \in Nat \ {0} /\ Len(q) = m - 1 /\ \A k \in 1 .. (m - 1) : q[k] = left[k + 1]
    BY <1>4, <1>6 DEF m
  <2>1. ASSUME NEW k \in 1 .. (m - 1)
        PROVE  q[k][1] \in 1 .. n /\ q[k][2] \in 1 .. RowCount(q[k][1])
    <3>1. k + 1 \in 1 .. m /\ q[k] = left[k + 1]
      BY <2>0
    <3> QED BY <1>2, <3>1 DEF Chain, m
  <2>2. ASSUME NEW k \in 1 .. (m - 2)
        PROVE  Follows(q[k], q[k + 1])
    <3> DEFINE j == k + 1
    <3>1. j \in 1 .. (m - 1) /\ k \in 1 .. (m - 1)
      BY <2>0
    <3>2. q[k] = left[j] /\ q[j] = left[j + 1]
      BY <2>0, <3>1
    <3> HIDE DEF j
    <3>3. Follows(left[j], left[j + 1])
      BY <1>2, <3>1 DEF Chain, m
    <3> QED BY <3>2, <3>3 DEF j
  <2>3. q # <<>> => q[m - 1] = <<n, RowCount(n)>>
    <3> SUFFICES ASSUME q # <<>> PROVE q[m - 1] = <<n, RowCount(n)>>
      OBVIOUS
    <3>1. m - 1 # 0
      BY <1>6, <2>0
    <3>2. m - 1 \in 1 .. (m - 1) /\ (m - 1) + 1 = m
      BY <2>0, <3>1
    <3>3. q[m - 1] = left[m]
      BY <2>0, <3>2
    <3> QED BY <1>2, <3>3 DEF Chain, m
  <2>4. Len(q) - 1 = m - 2
    BY <2>0
  <2> QED BY <1>6, <2>0, <2>1, <2>2, <2>3, <2>4 DEF Chain
<1>8. WrittenHere(c) = r - 1
  BY <1>4, <1>5 DEF WrittenHere
<1>9. ASSUME NEW core \in 1 .. n
      PROVE  WrittenHere(core)' = IF core = c THEN r ELSE WrittenHere(core)
  <2>0. /\ WrittenHere(core) = IF core < c THEN RC(core) ELSE IF core = c THEN r - 1 ELSE 0
        /\ core \in Nat /\ c \in Nat /\ r \in Nat
    BY <1>1, <1>4, <1>5 DEF WrittenHere
  <2>1. WrittenHere(core)' = IF q = <<>> THEN RC(core)
                       ELSE IF core < Head(q)[1] THEN RC(core)
                       ELSE IF core = Head(q)[1] THEN Head(q)[2] - 1
                       ELSE 0
    BY <1>3 DEF WrittenHere, q
  <2>2. CASE q = <<>>
    <3>1. Len(left) = 1
      BY <1>4, <1>6, <2>2
    <3>2. left[1] = <<n, RC(n)>>
      BY <1>2, <1>4, <3>1 DEF Chain
    <3>3. c = n /\ r = RC(n)
      BY <1>5, <3>2
    <3>4. core < c \/ core = c
      BY <1>1, <3>3
    <3> QED BY <2>0, <2>1, <2>2, <3>3, <3>4
  <2>3. CASE q # <<>>
    <3>1. 1 \in 1 .. (Len(left) - 1) /\ Head(q) = q[1] /\ 1 + 1 = 2
      BY <1>4, <1>6, <2>3
    <3>2. q[1] = left[2]
      BY <1>6, <3>1
    <3>3. Follows(left[1], left[2])
      BY <1>2, <3>1 DEF Chain
    <3> DEFINE d == q[1][1]
               e == q[1][2]
    <3>4. \/ d = c /\ e = r + 1
          \/ d = c + 1 /\ e = 1 /\ r = RC(c)
      BY <1>5, <3>2, <3>3 DEF Follows
    <3>5. WrittenHere(core)' = IF core < d THEN RC(core) ELSE IF core = d THEN e - 1 ELSE 0
      BY <2>1, <2>3, <3>1
    <3> HIDE DEF d, e, c, r, RC
    <3>6. CASE d = c /\ e = r + 1
      BY <2>0, <3>5, <3>6
    <3>7. CASE d = c + 1 /\ e = 1 /\ r = RC(c)
      BY <2>0, <3>5, <3>7
    <3> QED BY <3>4, <3>6, <3>7
  <2> QED BY <2>2, <2>3
<1> QED BY <1>1, <1>5, <1>7, <1>8, <1>9 DEF n, q

\* The rows of a point that is under way
LEMMA PartOfPoint ==
    ASSUME OutTypes, NEW core \in Cores, NEW m \in 0 .. RowCount(core)
    PROVE  /\ RowsUpTo(core, point - 1) \o OfPoint(m) \in Seq(Nat \X Nat)
           /\ IsPrefix(RowsUpTo(core, point - 1) \o OfPoint(m), RowsUpTo(core, Len(a.circuits)))
           /\ m # 0 => (RowsUpTo(core, point - 1) \o OfPoint(m - 1)) \o << <<point, m>> >>
                          = RowsUpTo(core, point - 1) \o OfPoint(m)
           /\ OfPoint(0) = <<>> /\ RowsUpTo(core, point) \in Seq(Nat \X Nat)
           /\ RowsUpTo(core, point - 1) \o OfPoint(0) = RowsUpTo(core, point - 1)
           /\ RowsUpTo(core, point - 1) \o OfPoint(RowCount(core)) = RowsUpTo(core, point)
<1> DEFINE N == Len(a.circuits)
           R == RowCount(core)
           Pairs == Nat \X Nat
           s == RowsUpTo(core, point - 1)
           t == RowsUpTo(core, point)
           u == RowsUpTo(core, N)
<1>1. N \in Nat \ {0} /\ point \in 1 .. N /\ R \in Nat \ {0}
  BY RunShape DEF OutTypes
<1> HIDE DEF N
<1>2. point \in Nat \ {0} /\ point - 1 \in Nat /\ point <= N /\ m \in Nat /\ m <= R
  BY <1>1
<1>3. s \in Seq(Pairs) /\ t \in Seq(Pairs) /\ u \in Seq(Pairs)
  BY <1>1, <1>2, RowsGrow
<1>4. t = s \o OfPoint(R)
  BY <1>1, <1>2, RowsGrow DEF OfPoint
<1>5. Begins(t, u)
  BY <1>1, <1>2, RowsBegin
<1> HIDE DEF R, s, t, u
<1>6. ASSUME NEW k \in Nat
      PROVE  /\ OfPoint(k) \in Seq(Pairs) /\ Len(OfPoint(k)) = k
             /\ \A r \in 1 .. k : OfPoint(k)[r] = <<point, r>>
  BY <1>2 DEF OfPoint
<1>7. OfPoint(0) = <<>>
  BY DEF OfPoint
<1> HIDE DEF Pairs
<1>8. ASSUME NEW k \in Nat
      PROVE  /\ s \o OfPoint(k) \in Seq(Pairs) /\ Len(s \o OfPoint(k)) = Len(s) + k /\ Len(s) \in Nat
             /\ \A j \in 1 .. Len(s) : (s \o OfPoint(k))[j] = s[j]
             /\ \A j \in 1 .. k : (s \o OfPoint(k))[Len(s) + j] = <<point, j>>
  <2> DEFINE w == OfPoint(k)
  <2>1. w \in Seq(Pairs) /\ Len(w) = k /\ \A j \in 1 .. k : w[j] = <<point, j>>
    BY <1>6
  <2> HIDE DEF w
  <2>2. s \o w \in Seq(Pairs) /\ Len(s \o w) = Len(s) + Len(w) /\ Len(s) \in Nat
    BY <1>3, <2>1
  <2>3. \A j \in 1 .. Len(s) : (s \o w)[j] = s[j]
    BY <1>3, <2>1
  <2>4. \A j \in 1 .. Len(w) : (s \o w)[Len(s) + j] = w[j]
    BY <1>3, <2>1
  <2>5. \A j \in 1 .. k : (s \o w)[Len(s) + j] = <<point, j>>
    BY <2>1, <2>4
  <2> QED BY <2>1, <2>2, <2>3, <2>5 DEF w
<1>9. Begins(s \o OfPoint(m), t)
  <2> DEFINE v == s \o OfPoint(m)
             L == Len(s)
  <2>1. /\ Len(v) = L + m /\ L \in Nat /\ (\A j \in 1 .. L : v[j] = s[j])
        /\ \A j \in 1 .. m : v[L + j] = <<point, j>>
    BY <1>2, <1>8
  <2>2. /\ Len(t) = L + R /\ (\A j \in 1 .. L : t[j] = s[j]) /\ R \in Nat
        /\ \A j \in 1 .. R : t[L + j] = <<point, j>>
    BY <1>1, <1>4, <1>8
  <2> HIDE DEF v, L
  <2>3. ASSUME NEW k \in 1 .. (L + m)
        PROVE  v[k] = t[k]
    <3>1. CASE k <= L
      <4>1. k \in 1 .. L
        BY <2>1, <3>1
      <4> QED BY <2>1, <2>2, <4>1
    <3>2. CASE k > L
      <4> DEFINE j == k - L
      <4>1. j \in 1 .. m /\ j \in 1 .. R /\ L + j = k
        BY <1>1, <1>2, <2>1, <3>2
      <4> HIDE DEF j
      <4> QED BY <2>1, <2>2, <4>1
    <3> QED BY <2>1, <3>1, <3>2
  <2> QED BY <1>1, <1>2, <2>1, <2>2, <2>3 DEF Begins, v
<1>10. s \o OfPoint(m) \in Seq(Pairs)
  BY <1>2, <1>8
<1>11. IsPrefix(s \o OfPoint(m), u)
  <2> DEFINE v == s \o OfPoint(m)
  <2>1. v \in Seq(Pairs) /\ Begins(v, t) /\ Len(v) \in Nat /\ Len(t) \in Nat /\ Len(u) \in Nat
    BY <1>3, <1>9, <1>10
  <2> HIDE DEF v
  <2>2. Begins(v, u)
    BY <1>5, <2>1 DEF Begins
  <2>3. IsPrefix(v, u)
    BY <1>3, <2>1, <2>2, BeginsIsPrefix
  <2> QED BY <2>3 DEF v
<1>12. ASSUME m # 0
       PROVE  (s \o OfPoint(m - 1)) \o << <<point, m>> >> = s \o OfPoint(m)
  <2> DEFINE w == OfPoint(m - 1)
             e == << <<point, m>> >>
  <2>0. m - 1 \in Nat
    BY <1>2, <1>12
  <2>1a. w \in Seq(Pairs)
    BY <1>6, <2>0
  <2>1b. <<point, m>> \in Pairs
    BY <1>2 DEF Pairs
  <2>1. e \in Seq(Pairs)
    BY <2>1b
  <2>2. w \o e = OfPoint(m)
    BY <1>2, <1>12 DEF OfPoint
  <2> HIDE DEF w, e
  <2>3. (s \o w) \o e = s \o (w \o e)
    <3>1. \A x, y, z \in Seq(Pairs) : (x \o y) \o z = x \o (y \o z)
      BY ConcatAssociative
    <3> QED BY <1>3, <2>1a, <2>1, <3>1, Zenon
  <2> QED BY <2>2, <2>3 DEF w, e
<1>13. s \o OfPoint(0) = s
  BY <1>3, <1>7
<1> QED BY <1>3, <1>4, <1>7, <1>10, <1>11, <1>12, <1>13 DEF s, t, u, R, Pairs, N

\* The run stays as it is, and with it the rows and names of its cores.
LEMMA SameRun ==
    ASSUME a' = a
    PROVE  /\ Cores' = Cores /\ (Len(a.write))' = Len(a.write)
           /\ \A core : RowCount(core)' = RowCount(core) /\ FileName(core)' = FileName(core)
           /\ \A core, i : RowsUpTo(core, i)' = RowsUpTo(core, i)
<1>1. \A core : RowCount(core)' = RowCount(core) /\ FileName(core)' = FileName(core)
  BY DEF RowCount, FileName
<1>2. Cores' = Cores
  BY DEF Cores
<1>3. \A core, i : RowsUpTo(core, i)' = RowsUpTo(core, i)
  BY <1>1 DEF RowsUpTo
<1> QED BY <1>1, <1>2, <1>3

\* The invariant says of the files only what follows from these.
LEMMA SameFiles ==
    ASSUME UNCHANGED <<a, files>>
    PROVE  \A core : File(core)' = File(core) /\ Written(core)' = Written(core)
                     /\ Places(File(core))' = Places(File(core))
                            /\ IsFile(File(core))' = IsFile(File(core))
<1>1. \A core : File(core)' = File(core)
  BY DEF File, FileName
<1> QED BY <1>1 DEF Written, Places, IsFile

\* What a point was before the cores run and what a failure leaves
LEMMA QuietStep ==
    ASSUME OutInv, UNCHANGED <<a, point, outputInitialized, left, files, stored>>,
           \/ pc \in Building /\ pc' \in Building
           \/ pc \in Building \cup {"core"} /\ pc' \in {"aborted", "deleted"}
    PROVE  OutInv'
<1>1. /\ Cores' = Cores /\ (Len(a.write))' = Len(a.write)
      /\ \A core : RowCount(core)' = RowCount(core) /\ FileName(core)' = FileName(core)
      /\ \A core, i : RowsUpTo(core, i)' = RowsUpTo(core, i)
  BY SameRun
<1>2. \A core : File(core)' = File(core) /\ Written(core)' = Written(core)
                /\ Places(File(core))' = Places(File(core))
                       /\ IsFile(File(core))' = IsFile(File(core))
  BY SameFiles
<1>3. /\ pc' \in Building \cup {"aborted", "deleted"} /\ pc \in Building \cup {"core"}
      /\ (pc' \in Building => pc \in Building)
  BY DEF Building
<1>4. OutTypes'
  BY <1>1, <1>2, <1>3 DEF OutInv, OutTypes, Building
<1>5. FilesOpened'
  BY <1>1, <1>2, <1>3 DEF OutInv, FilesOpened, Building
<1>6. Ahead'
  <2>1. Chain(left, Len(a.write))' = Chain(left, Len(a.write))
    BY <1>1 DEF Chain, Follows
  <2> QED BY <1>3, <2>1 DEF OutInv, Ahead, Building
<1>7. RowsInOrder'
  <2> SUFFICES ASSUME NEW core \in Cores, a.write[core]
               PROVE  /\ IsPrefix(Places(File(core)), RowsUpTo(core, Len(a.circuits)))'
                      /\ Going' => (Places(File(core))
                             = RowsUpTo(core, point - 1) \o OfPoint(WrittenHere(core)))'
                      /\ (File(core).count = IF pc
                             = "done" THEN Len(File(core).rows) ELSE None)'
    BY <1>1 DEF RowsInOrder
  <2>1. /\ IsPrefix(Places(File(core)), RowsUpTo(core, Len(a.circuits)))
        /\ Going => Places(File(core)) = RowsUpTo(core, point - 1) \o OfPoint(WrittenHere(core))
        /\ File(core).count = None
    BY <1>3 DEF OutInv, RowsInOrder, Building
  <2>2. IsPrefix(Places(File(core)), RowsUpTo(core, Len(a.circuits)))'
    <3>1. RowsUpTo(core, Len(a.circuits))' = RowsUpTo(core, Len(a.circuits))
      BY DEF RowsUpTo, RowCount
    <3>2. Places(File(core))' = Places(File(core))
      BY <1>2
    <3>3. IsPrefix(Places(File(core)), RowsUpTo(core, Len(a.circuits)))'
            = IsPrefix(Places(File(core))', RowsUpTo(core, Len(a.circuits))')
      OBVIOUS
    <3> QED BY <2>1, <3>1, <3>2, <3>3
  <2>3. ASSUME Going'
        PROVE  (Places(File(core)) = RowsUpTo(core, point - 1) \o OfPoint(WrittenHere(core)))'
    <3>1. pc' \in Building /\ pc \in Building /\ Going
      BY <1>3, <2>3 DEF Going, Building
    <3>2. WrittenHere(core) = 0 /\ WrittenHere(core)' = 0
      BY <3>1 DEF WrittenHere, Building
    <3>3. Places(File(core)) = RowsUpTo(core, point - 1) \o OfPoint(0)
      BY <2>1, <3>1, <3>2
    <3>4. Places(File(core))' = Places(File(core))
      BY <1>2
    <3>5. RowsUpTo(core, point - 1)' = RowsUpTo(core, point - 1) /\ OfPoint(0)' = OfPoint(0)
      BY <1>1 DEF RowsUpTo, OfPoint, RowCount
    <3>6. OfPoint(WrittenHere(core))' = OfPoint(0)'
      BY <3>2 DEF OfPoint
    <3> QED BY <3>3, <3>4, <3>5, <3>6
  <2>4. (File(core).count = IF pc = "done" THEN Len(File(core).rows) ELSE None)'
    BY <1>2, <1>3, <2>1 DEF Building
  <2> QED BY <2>2, <2>3, <2>4
<1>8. LastWhenDone'
  BY <1>3 DEF LastWhenDone, Building
<1> QED BY <1>4, <1>5, <1>6, <1>7, <1>8 DEF OutInv

\* The rows of a point are asked for, and the first point opens the files.
LEMMA InitializeKeeps ==
    ASSUME OutInv, InitializeOutputs
    PROVE  OutInv'
<1> DEFINE n == Len(a.write)
<1>0. OutTypes /\ FilesOpened /\ Ahead /\ RowsInOrder
  BY DEF OutInv
<1>1. /\ pc = "start" /\ pc' = "core" /\ left' = RowsToWrite /\ outputInitialized' = TRUE
      /\ a' = a /\ point' = point /\ stored' = stored
      /\ files' = IF outputInitialized THEN files ELSE ForCores(Prologue)
  BY DEF InitializeOutputs
<1>2. /\ Cores' = Cores /\ (Len(a.write))' = Len(a.write)
      /\ \A core : RowCount(core)' = RowCount(core) /\ FileName(core)' = FileName(core)
      /\ \A core, i : RowsUpTo(core, i)' = RowsUpTo(core, i)
  BY <1>1, SameRun
<1>3. ASSUME NEW core \in Cores
      PROVE  File(core)' = IF a.write[core] /\ ~outputInitialized
                           THEN Prologue(core, File(core)) ELSE File(core)
  <2>1. CASE outputInitialized
    BY <1>1, <2>1 DEF File, FileName
  <2>2. CASE ~outputInitialized
    <3>1. ForCores(Prologue)[FileName(core)] =
               IF a.write[core] THEN Prologue(core, File(core)) ELSE File(core)
      BY <1>0, Prologued
    <3> QED BY <1>1, <1>2, <2>2, <3>1 DEF File
  <2> QED BY <2>1, <2>2
<1>4. /\ \A core : LET g == Prologue(core, File(core))
                   IN  IsFile(g) /\ g.rows = <<>> /\ g.count = None /\ g.from = "this run"
  BY FileShapes
<1>5. OutTypes'
  <2>1. files' = [name \in Range(FilesOf(a.kind)) |-> files'[name]]
    <3>1. DOMAIN files = Range(FilesOf(a.kind))
              /\ files = [name \in DOMAIN files |-> files[name]]
      BY <1>0 DEF OutTypes
    <3>2. ForCores(Prologue) = [name \in DOMAIN files |-> ForCores(Prologue)[name]]
      BY DEF ForCores
    <3>3. files' = [name \in DOMAIN files |-> files'[name]]
      BY <1>1, <3>1, <3>2, Zenon
    <3> QED BY <3>1, <3>3, Zenon
  <2>2. \A core \in Cores : IsFile(File(core)')
    BY <1>0, <1>3, <1>4 DEF OutTypes
  <2>3. \A core \in Cores' : IsFile(File(core))'
    BY <1>2, <2>2 DEF IsFile
  <2> QED BY <1>0, <1>1, <2>1, <2>3 DEF OutTypes
<1>6. FilesOpened'
  <2>1. \A core \in Cores : IF ~a.write[core] THEN File(core)'
            = OldFile ELSE File(core)'.from = "this run"
    BY <1>0, <1>1, <1>3, <1>4 DEF FilesOpened, Written
  <2>2. stored' = {}
    BY <1>0, <1>1 DEF FilesOpened
  <2> QED BY <1>1, <1>2, <2>1, <2>2 DEF FilesOpened, Written
<1>7. Chain(RowsToWrite, n) /\ RowsToWrite # <<>> /\ Head(RowsToWrite) = <<1, 1>>
  BY <1>0, QueueIsChain
<1>8. Ahead'
  <2>1. Chain(RowsToWrite, n) = Chain(left, Len(a.write))'
    BY <1>1, <1>2 DEF Chain, Follows
  <2> QED BY <1>1, <1>7, <2>1 DEF Ahead
<1>9. ASSUME NEW core \in Cores
      PROVE  WrittenHere(core)' = 0
  <2>0. Cores = 1 .. n /\ n \in Nat \ {0}
    BY <1>0, RunShape DEF OutTypes
  <2> HIDE DEF n
  <2>1. core \in Nat \ {0}
    BY <2>0
  <2> QED BY <1>1, <1>7, <2>1 DEF WrittenHere
<1>10. RowsInOrder'
  <2> SUFFICES ASSUME NEW core \in Cores, a.write[core]
               PROVE  /\ IsPrefix(Places(File(core)), RowsUpTo(core, Len(a.circuits)))'
                      /\ Going' => (Places(File(core))
                             = RowsUpTo(core, point - 1) \o OfPoint(WrittenHere(core)))'
                      /\ (File(core).count = IF pc
                             = "done" THEN Len(File(core).rows) ELSE None)'
    BY <1>1, <1>2 DEF RowsInOrder
  <2>1. /\ Places(File(core)) = RowsUpTo(core, point - 1) \o OfPoint(0)
               /\ File(core).count = None
    <3>1. WrittenHere(core) = 0 /\ Going
      BY <1>1 DEF WrittenHere, Going
    <3> QED BY <1>0, <1>1, <3>1 DEF RowsInOrder
  <2>2. /\ IsPrefix(RowsUpTo(core, point - 1) \o OfPoint(0), RowsUpTo(core, Len(a.circuits)))
        /\ RowsUpTo(core, point - 1) \o OfPoint(0) = RowsUpTo(core, point - 1)
    <3> DEFINE m == RowCount(core)
    <3>0. m \in Nat \ {0}
      BY <1>0, RunShape DEF OutTypes
    <3> HIDE DEF m
    <3>1a. 0 \in 0 .. m
      BY <3>0
    <3>1. 0 \in 0 .. RowCount(core)
      BY <3>1a DEF m
    <3> QED BY <1>0, <3>1, PartOfPoint
  <2>3. Places(File(core)') = RowsUpTo(core, point - 1) \o OfPoint(0)
            /\ File(core)'.count = None
    <3>1. CASE outputInitialized
      BY <1>3, <2>1, <3>1
    <3>2. CASE ~outputInitialized
      <4>1. File(core)' = Prologue(core, File(core))
        BY <1>3, <3>2
      <4>2. Places(File(core)') = <<>> /\ File(core)'.count = None
        BY <1>4, <4>1, Places0
      <4>3. point = 1
        <5>1. point \in 1 .. Len(a.circuits) /\ ~(point > 1)
          BY <1>0, <3>2 DEF FilesOpened, OutTypes
        <5>2. Len(a.circuits) \in Nat
          BY <1>0, RunShape DEF OutTypes
        <5> QED BY <5>1, <5>2
      <4>4. RowsUpTo(core, 0) = <<>>
        BY <1>0, RunShape, RowsGrow DEF OutTypes
      <4>5. RowsUpTo(core, point - 1) = <<>>
        BY <4>3, <4>4
      <4> QED BY <2>2, <4>2, <4>5
    <3> QED BY <3>1, <3>2
  <2>4. Places(File(core))' = Places(File(core)')
    BY DEF Places
  <2>5. IsPrefix(Places(File(core)), RowsUpTo(core, Len(a.circuits)))'
    <3>1. RowsUpTo(core, Len(a.circuits))' = RowsUpTo(core, Len(a.circuits))
      BY <1>1, <1>2
    <3>2. IsPrefix(Places(File(core)), RowsUpTo(core, Len(a.circuits)))'
            = IsPrefix(Places(File(core))', RowsUpTo(core, Len(a.circuits))')
      OBVIOUS
    <3> QED BY <2>2, <2>3, <2>4, <3>1, <3>2
  <2>6. (Places(File(core)) = RowsUpTo(core, point - 1) \o OfPoint(WrittenHere(core)))'
    <3>1. RowsUpTo(core, point - 1)' = RowsUpTo(core, point - 1)
      BY <1>1, <1>2
    <3>2. OfPoint(WrittenHere(core))' = OfPoint(0)
      BY <1>1, <1>9 DEF OfPoint
    <3> QED BY <2>3, <2>4, <3>1, <3>2
  <2>7. (File(core).count = IF pc = "done" THEN Len(File(core).rows) ELSE None)'
    BY <1>1, <2>3
  <2> QED BY <2>5, <2>6, <2>7
<1>11. LastWhenDone'
  BY <1>1 DEF LastWhenDone
<1> QED BY <1>5, <1>6, <1>8, <1>10, <1>11 DEF OutInv

\* A row is added to the file of its core.
LEMMA AddsRow ==
    ASSUME OutTypes, NEW c \in Cores, NEW r,
           files' = AddPoint(c, r), a' = a
    PROVE  /\ files' = [name \in Range(FilesOf(a.kind)) |-> files'[name]]
           /\ \A core \in Cores : core # c => File(core)' = File(core)
           /\ IsFile(File(c)') /\ File(c)'.from = File(c).from
                  /\ File(c)'.count = File(c).count
           /\ Places(File(c)') = Places(File(c)) \o << <<point, r>> >>
<1> DEFINE V(s) == Converted(c, s, ReadSource(s, r))
           v == [k \in DOMAIN sources[c] |-> V(sources[c][k])]
           x == [point |-> point, row |-> r, values |-> v]
           g == [File(c) EXCEPT !.rows = Append(@, x)]
<1>1. files' = [files EXCEPT ![FileName(c)].rows = Append(@, x)]
  BY DEF AddPoint
<1> HIDE DEF v
<1>2. x.point = point /\ x.row = r
  OBVIOUS
<1> HIDE DEF x
<1>3. /\ DOMAIN files = Range(FilesOf(a.kind)) /\ IsFile(File(c))
      /\ files = [name \in DOMAIN files |-> files[name]]
  BY DEF OutTypes
<1>4. FileName(c) \in DOMAIN files
          /\ \A core \in Cores : FileName(core) = FileName(c) => core = c
  BY <1>3, RunShape DEF OutTypes
<1>5. \A core : FileName(core)' = FileName(core)
  BY DEF FileName
<1>6. File(c)' = g
  BY <1>1, <1>4, <1>5 DEF File
<1>7. \A core \in Cores : core # c => File(core)' = File(core)
  BY <1>1, <1>4, <1>5 DEF File
<1>8. /\ IsFile(g) /\ g.from = File(c).from /\ g.count = File(c).count
      /\ Places(g) = Places(File(c)) \o << <<x.point, x.row>> >>
  BY <1>3, AppendPlace
<1>9. files' = [name \in DOMAIN files |-> files'[name]]
  BY <1>1, <1>3
<1> QED BY <1>2, <1>3, <1>6, <1>7, <1>8, <1>9

\* A core writes a row, to its own file and after the last one.
LEMMA WriteKeeps ==
    ASSUME OutInv, WriteRow
    PROVE  OutInv'
<1> DEFINE n == Len(a.write)
<1>0. OutTypes /\ FilesOpened /\ Ahead /\ RowsInOrder
  BY DEF OutInv
<1>1. /\ pc = "core" /\ pc' = pc /\ left # <<>> /\ left' = Tail(left)
             /\ outputInitialized' = outputInitialized
      /\ a' = a /\ point' = point /\ stored' = stored
  BY DEF WriteRow
<1>2. /\ Cores' = Cores /\ (Len(a.write))' = Len(a.write)
      /\ \A core : RowCount(core)' = RowCount(core) /\ FileName(core)' = FileName(core)
      /\ \A core, i : RowsUpTo(core, i)' = RowsUpTo(core, i)
  BY <1>1, SameRun
<1>2a. PICK c, r : c = left[1][1] /\ r = left[1][2]
  OBVIOUS
<1>3. /\ Chain(Tail(left), n)
      /\ c \in Cores /\ r \in 1 .. RowCount(c) /\ left[1] = <<c, r>>
      /\ WrittenHere(c) = r - 1
      /\ \A core \in Cores : WrittenHere(core)' = IF core = c THEN r ELSE WrittenHere(core)
  BY <1>0, <1>1, <1>2a, TakeRow
<1>4. Head(left) = left[1]
  BY <1>0, <1>1 DEF Ahead, Chain
<1>5. files' = IF a.write[c] THEN AddPoint(c, r) ELSE files
  BY <1>2a, <1>4 DEF WriteRow
<1>6. /\ files' = [name \in Range(FilesOf(a.kind)) |-> files'[name]]
      /\ \A core \in Cores : (core # c \/ ~a.write[c]) => File(core)' = File(core)
      /\ IsFile(File(c)') /\ File(c)'.from = File(c).from
             /\ File(c)'.count = File(c).count
      /\ a.write[c] => Places(File(c)') = Places(File(c)) \o << <<point, r>> >>
  <2>1. CASE a.write[c]
    <3>1. files' = AddPoint(c, r)
      BY <1>5, <2>1
    <3>2. /\ files' = [name \in Range(FilesOf(a.kind)) |-> files'[name]]
          /\ \A core \in Cores : core # c => File(core)' = File(core)
          /\ IsFile(File(c)') /\ File(c)'.from = File(c).from
                 /\ File(c)'.count = File(c).count
          /\ Places(File(c)') = Places(File(c)) \o << <<point, r>> >>
      BY <1>0, <1>1, <1>3, <3>1, AddsRow
    <3> QED BY <2>1, <3>2
  <2>2. CASE ~a.write[c]
    <3>1. files' = files
      BY <1>5, <2>2
    <3>2. \A core : File(core)' = File(core)
      BY <1>2, <3>1 DEF File
    <3>3. IsFile(File(c)) /\ files = [name \in Range(FilesOf(a.kind)) |-> files[name]]
      BY <1>0, <1>3 DEF OutTypes
    <3>4. IsFile(File(c)')
      BY <3>2, <3>3
    <3> QED BY <2>2, <3>1, <3>2, <3>3, <3>4
  <2> QED BY <2>1, <2>2
<1>7. ASSUME NEW core \in Cores
      PROVE  IsFile(File(core)') /\ File(core)'.from = File(core).from
                 /\ File(core)'.count = File(core).count
             /\ (~a.write[core] => File(core)' = File(core))
  <2>1. CASE core = c
    <3>1. ~a.write[core] => File(core)' = File(core)
      BY <1>3, <1>6, <2>1
    <3> QED BY <1>6, <2>1, <3>1
  <2>2. CASE core # c
    <3>1. File(core)' = File(core) /\ IsFile(File(core))
      BY <1>0, <1>6, <2>2 DEF OutTypes
    <3> QED BY <3>1
  <2> QED BY <2>1, <2>2
<1>8. OutTypes'
  <2>1. \A core \in Cores' : IsFile(File(core))'
    BY <1>2, <1>7 DEF IsFile
  <2> QED BY <1>0, <1>1, <1>6, <2>1 DEF OutTypes
<1>9. FilesOpened'
  <2>1. \A core \in Cores : IF ~a.write[core] THEN File(core)'
            = OldFile ELSE File(core)'.from = "this run"
    BY <1>0, <1>1, <1>7 DEF FilesOpened, Written
  <2> QED BY <1>0, <1>1, <1>2, <2>1 DEF FilesOpened, Written
<1>10. Ahead'
  <2>1. Chain(Tail(left), n) = Chain(left, Len(a.write))'
    BY <1>1, <1>2 DEF Chain, Follows
  <2> QED BY <1>1, <1>3, <2>1 DEF Ahead
<1>11. RowsInOrder'
  <2> SUFFICES ASSUME NEW core \in Cores, a.write[core]
               PROVE  /\ IsPrefix(Places(File(core)), RowsUpTo(core, Len(a.circuits)))'
                      /\ Going' => (Places(File(core))
                             = RowsUpTo(core, point - 1) \o OfPoint(WrittenHere(core)))'
                      /\ (File(core).count = IF pc
                             = "done" THEN Len(File(core).rows) ELSE None)'
    BY <1>1, <1>2 DEF RowsInOrder
  <2>1. /\ Places(File(core)) = RowsUpTo(core, point - 1) \o OfPoint(WrittenHere(core))
        /\ File(core).count = None
        /\ IsPrefix(Places(File(core)), RowsUpTo(core, Len(a.circuits)))
    BY <1>0, <1>1 DEF RowsInOrder, Going
  <2> DEFINE m == IF core = c THEN r ELSE WrittenHere(core)
  <2>2. Places(File(core)') = RowsUpTo(core, point - 1) \o OfPoint(m)
        /\ IsPrefix(Places(File(core)'), RowsUpTo(core, Len(a.circuits)))
    <3>1. CASE core = c
      <4>1. Places(File(c)') = (RowsUpTo(c, point - 1) \o OfPoint(r - 1)) \o << <<point, r>> >>
        BY <1>3, <1>6, <2>1, <3>1
      <4> DEFINE R == RowCount(c)
      <4>2a. R \in Nat \ {0}
        BY <1>0, RunShape DEF OutTypes
      <4>2b. r \in 1 .. R
        BY <1>3
      <4> HIDE DEF R
      <4>2c. r \in 0 .. R /\ r # 0
        BY <4>2a, <4>2b
      <4>2. r \in 0 .. RowCount(c) /\ r # 0
        BY <4>2c DEF R
      <4>3. /\ IsPrefix(RowsUpTo(c, point - 1) \o OfPoint(r), RowsUpTo(c, Len(a.circuits)))
            /\ (RowsUpTo(c, point - 1) \o OfPoint(r - 1)) \o << <<point, r>> >>
                  = RowsUpTo(c, point - 1) \o OfPoint(r)
        BY <1>0, <1>3, <4>2, PartOfPoint
      <4> QED BY <3>1, <4>1, <4>3
    <3>2. CASE core # c
      <4>1. File(core)' = File(core)
        BY <1>6, <3>2
      <4>2. Places(File(core)') = Places(File(core)) /\ m = WrittenHere(core)
        BY <3>2, <4>1
      <4> QED BY <2>1, <4>2
    <3> QED BY <3>1, <3>2
  <2>3. WrittenHere(core)' = m
    BY <1>3
  <2> HIDE DEF m
  <2>4. Places(File(core))' = Places(File(core)')
    BY DEF Places
  <2>5. IsPrefix(Places(File(core)), RowsUpTo(core, Len(a.circuits)))'
    <3>1. RowsUpTo(core, Len(a.circuits))' = RowsUpTo(core, Len(a.circuits))
      BY <1>1, <1>2
    <3>2. IsPrefix(Places(File(core)), RowsUpTo(core, Len(a.circuits)))'
            = IsPrefix(Places(File(core))', RowsUpTo(core, Len(a.circuits))')
      OBVIOUS
    <3> QED BY <2>2, <2>4, <3>1, <3>2
  <2>6. (Places(File(core)) = RowsUpTo(core, point - 1) \o OfPoint(WrittenHere(core)))'
    <3>1. RowsUpTo(core, point - 1)' = RowsUpTo(core, point - 1)
      BY <1>1, <1>2
    <3>2. OfPoint(WrittenHere(core))' = OfPoint(m)
      BY <1>1, <2>3 DEF OfPoint
    <3> QED BY <2>2, <2>4, <3>1, <3>2
  <2>7. (File(core).count = IF pc = "done" THEN Len(File(core).rows) ELSE None)'
    BY <1>1, <1>7, <2>1
  <2> QED BY <2>5, <2>6, <2>7
<1>12. LastWhenDone'
  BY <1>1 DEF LastWhenDone
<1> QED BY <1>8, <1>9, <1>10, <1>11, <1>12 DEF OutInv

\* All rows of a point were written.
LEMMA PointKeeps ==
    ASSUME OutInv, NextPoint \/ LastPoint
    PROVE  OutInv'
<1> DEFINE N == Len(a.circuits)
<1>0. OutTypes /\ FilesOpened /\ Ahead /\ RowsInOrder
  BY DEF OutInv
<1>1. /\ pc = "core" /\ left = <<>> /\ left' = left /\ outputInitialized' = outputInitialized
      /\ a' = a /\ stored' = stored /\ files' = files
      /\ \/ pc' = "elaborate" /\ point < N /\ point' = point + 1
         \/ pc' = "finished" /\ point = N /\ point' = point
  BY DEF NextPoint, LastPoint
<1>2. /\ Cores' = Cores /\ (Len(a.write))' = Len(a.write)
      /\ \A core : RowCount(core)' = RowCount(core) /\ FileName(core)' = FileName(core)
      /\ \A core, i : RowsUpTo(core, i)' = RowsUpTo(core, i)
  BY <1>1, SameRun
<1>3. \A core : File(core)' = File(core) /\ Written(core)' = Written(core)
                /\ Places(File(core))' = Places(File(core))
                       /\ IsFile(File(core))' = IsFile(File(core))
  BY <1>1, SameFiles
<1>4. N \in Nat \ {0} /\ point \in 1 .. N
  BY <1>0, RunShape DEF OutTypes
<1>5. point' \in 1 .. N /\ point - 1 \in Nat /\ (point + 1) - 1 = point
  <2> HIDE DEF N
  <2> QED BY <1>1, <1>4
<1>6. OutTypes'
  BY <1>0, <1>1, <1>2, <1>3, <1>5 DEF OutTypes
<1>7. FilesOpened'
  BY <1>0, <1>1, <1>2, <1>3 DEF FilesOpened
<1>8. Ahead'
  <2>1. Chain(left, Len(a.write))' = Chain(left, Len(a.write))
    BY <1>1, <1>2 DEF Chain, Follows
  <2> QED BY <1>0, <1>1, <2>1 DEF Ahead
<1>9. RowsInOrder'
  <2> SUFFICES ASSUME NEW core \in Cores, a.write[core]
               PROVE  /\ IsPrefix(Places(File(core)), RowsUpTo(core, Len(a.circuits)))'
                      /\ Going' => (Places(File(core))
                             = RowsUpTo(core, point - 1) \o OfPoint(WrittenHere(core)))'
                      /\ (File(core).count = IF pc
                             = "done" THEN Len(File(core).rows) ELSE None)'
    BY <1>1, <1>2 DEF RowsInOrder
  <2>1. WrittenHere(core) = RowCount(core) /\ Going
    BY <1>1 DEF WrittenHere, Going
  <2>2. /\ Places(File(core)) = RowsUpTo(core, point - 1) \o OfPoint(RowCount(core))
        /\ File(core).count = None
        /\ IsPrefix(Places(File(core)), RowsUpTo(core, Len(a.circuits)))
    BY <1>0, <1>1, <2>1 DEF RowsInOrder
  <2>3. IsPrefix(Places(File(core)), RowsUpTo(core, Len(a.circuits)))'
    <3>1. RowsUpTo(core, Len(a.circuits))' = RowsUpTo(core, Len(a.circuits))
      BY <1>1, <1>2
    <3>2. IsPrefix(Places(File(core)), RowsUpTo(core, Len(a.circuits)))'
            = IsPrefix(Places(File(core))', RowsUpTo(core, Len(a.circuits))')
      OBVIOUS
    <3>3. Places(File(core))' = Places(File(core))
      BY <1>3
    <3> QED BY <2>2, <3>1, <3>2, <3>3
  <2>4. (Places(File(core)) = RowsUpTo(core, point - 1) \o OfPoint(WrittenHere(core)))'
    <3>0. Places(File(core))' = RowsUpTo(core, point - 1) \o OfPoint(RowCount(core))
      BY <1>3, <2>2
    <3>1. CASE pc' = "finished"
      <4>1. point' = point
        BY <1>1, <3>1
      <4>2. WrittenHere(core)' = RowCount(core)
        BY <1>1, <1>2, <3>1 DEF WrittenHere
      <4>3. RowsUpTo(core, point - 1)' = RowsUpTo(core, point - 1)
        BY <1>2, <4>1
      <4>4. OfPoint(WrittenHere(core))' = OfPoint(RowCount(core))
        BY <4>1, <4>2 DEF OfPoint
      <4> QED BY <3>0, <4>3, <4>4
    <3>2. CASE pc' = "elaborate"
      <4>1. point' = point + 1
        BY <1>1, <3>2
      <4>2. WrittenHere(core)' = 0
        BY <3>2 DEF WrittenHere
      <4>3. RowsUpTo(core, point - 1)' = RowsUpTo(core, point)
        BY <1>2, <1>5, <4>1
      <4>4. OfPoint(WrittenHere(core))' = <<>>
        BY <4>1, <4>2 DEF OfPoint
      <4> DEFINE R == RowCount(core)
                 t == RowsUpTo(core, point)
      <4>5. R \in Nat \ {0}
        BY <1>0, RunShape DEF OutTypes
      <4> HIDE DEF R
      <4>6. R \in 0 .. R
        BY <4>5
      <4>7. RowsUpTo(core, point - 1) \o OfPoint(RowCount(core)) = t
        <5>1. RowCount(core) \in 0 .. RowCount(core)
          BY <4>6 DEF R
        <5> QED BY <1>0, <5>1, PartOfPoint
      <4>8. t \in Seq(Nat \X Nat)
        <5>1. RowCount(core) \in 0 .. RowCount(core)
          BY <4>6 DEF R
        <5> QED BY <1>0, <5>1, PartOfPoint
      <4> HIDE DEF t
      <4>9. t \o <<>> = t
        BY <4>8
      <4> QED BY <3>0, <4>3, <4>4, <4>7, <4>9 DEF t
    <3> QED BY <1>1, <3>1, <3>2
  <2>5. (File(core).count = IF pc = "done" THEN Len(File(core).rows) ELSE None)'
    BY <1>1, <1>3, <2>2
  <2> QED BY <2>3, <2>4, <2>5
<1>10. LastWhenDone'
  BY <1>1 DEF LastWhenDone
<1> QED BY <1>6, <1>7, <1>8, <1>9, <1>10 DEF OutInv

\* A run that was aborted deletes its files or leaves them.
LEMMA AbortedKeeps ==
    ASSUME OutInv, FinishAborted
    PROVE  OutInv'
<1>0. OutTypes /\ FilesOpened /\ Ahead /\ RowsInOrder
  BY DEF OutInv
<1>1. /\ pc = "aborted" /\ pc' = "after abort" /\ left' = left
             /\ outputInitialized' = outputInitialized
      /\ a' = a /\ stored' = stored /\ point' = point
      /\ files' = IF a.strictoutput THEN ForCores(DeleteOutput) ELSE files
  BY DEF FinishAborted
<1>2. /\ Cores' = Cores /\ (Len(a.write))' = Len(a.write)
      /\ \A core : RowCount(core)' = RowCount(core) /\ FileName(core)' = FileName(core)
      /\ \A core, i : RowsUpTo(core, i)' = RowsUpTo(core, i)
  BY <1>1, SameRun
<1>3. ASSUME NEW core \in Cores
      PROVE  File(core)' = IF a.write[core] /\ a.strictoutput THEN NoFile ELSE File(core)
  <2>1. CASE a.strictoutput
    <3>1. ForCores(DeleteOutput)[FileName(core)]
              = IF a.write[core] THEN NoFile ELSE File(core)
      BY <1>0, Deleted
    <3> QED BY <1>1, <1>2, <2>1, <3>1 DEF File
  <2>2. CASE ~a.strictoutput
    <3>1. files' = files
      BY <1>1, <2>2
    <3> QED BY <1>2, <2>2, <3>1 DEF File
  <2> QED BY <2>1, <2>2
<1>4. IsFile(NoFile) /\ NoFile.rows = <<>> /\ NoFile.count = None
  BY FileShapes
<1>5. OutTypes'
  <2>1. files' = [name \in Range(FilesOf(a.kind)) |-> files'[name]]
    <3>1. DOMAIN files = Range(FilesOf(a.kind))
              /\ files = [name \in DOMAIN files |-> files[name]]
      BY <1>0 DEF OutTypes
    <3>2. ForCores(DeleteOutput)
              = [name \in DOMAIN files |-> ForCores(DeleteOutput)[name]]
      BY DEF ForCores
    <3>3. files' = [name \in DOMAIN files |-> files'[name]]
      BY <1>1, <3>1, <3>2, Zenon
    <3> QED BY <3>1, <3>3, Zenon
  <2>2. \A core \in Cores : IsFile(File(core)')
    BY <1>0, <1>3, <1>4 DEF OutTypes
  <2>3. \A core \in Cores' : IsFile(File(core))'
    BY <1>2, <2>2 DEF IsFile
  <2> QED BY <1>0, <1>1, <2>1, <2>3 DEF OutTypes
<1>6. FilesOpened'
  <2>1. \A core \in Cores : IF ~a.write[core] THEN File(core)' = OldFile
                            ELSE IF a.strictoutput THEN File(core)' = NoFile
                            ELSE IF outputInitialized THEN File(core)'.from = "this run"
                            ELSE File(core)' = OldFile
    BY <1>0, <1>1, <1>3 DEF FilesOpened, Written
  <2> QED BY <1>0, <1>1, <1>2, <2>1 DEF FilesOpened, Written
<1>7. Ahead'
  <2>1. Chain(left, Len(a.write))' = Chain(left, Len(a.write))
    BY <1>1, <1>2 DEF Chain, Follows
  <2> QED BY <1>0, <1>1, <2>1 DEF Ahead
<1>8. RowsInOrder'
  <2> SUFFICES ASSUME NEW core \in Cores, a.write[core]
               PROVE  /\ IsPrefix(Places(File(core)), RowsUpTo(core, Len(a.circuits)))'
                      /\ Going' => (Places(File(core))
                             = RowsUpTo(core, point - 1) \o OfPoint(WrittenHere(core)))'
                      /\ (File(core).count = IF pc
                             = "done" THEN Len(File(core).rows) ELSE None)'
    BY <1>1, <1>2 DEF RowsInOrder
  <2>1. IsPrefix(Places(File(core)), RowsUpTo(core, Len(a.circuits)))
            /\ File(core).count = None
    BY <1>0, <1>1 DEF RowsInOrder
  <2>2. IsPrefix(Places(File(core)'), RowsUpTo(core, Len(a.circuits)))
            /\ File(core)'.count = None
    <3>1. CASE a.strictoutput
      <4>1. File(core)' = NoFile /\ Places(NoFile) = <<>>
        BY <1>3, <1>4, <3>1, Places0
      <4> DEFINE u == RowsUpTo(core, Len(a.circuits))
      <4>2. u \in Seq(Nat \X Nat)
        BY <1>0, RunShape, RowsGrow DEF OutTypes
      <4> HIDE DEF u
      <4>3. Begins(<<>>, u) /\ <<>> \in Seq(Nat \X Nat)
        BY <4>2 DEF Begins
      <4>4. IsPrefix(<<>>, u)
        BY <4>2, <4>3, BeginsIsPrefix
      <4> QED BY <1>4, <4>1, <4>4 DEF u
    <3>2. CASE ~a.strictoutput
      BY <1>3, <2>1, <3>2
    <3> QED BY <3>1, <3>2
  <2>3. IsPrefix(Places(File(core)), RowsUpTo(core, Len(a.circuits)))'
    <3>1. RowsUpTo(core, Len(a.circuits))' = RowsUpTo(core, Len(a.circuits))
      BY <1>1, <1>2
    <3>2. IsPrefix(Places(File(core)), RowsUpTo(core, Len(a.circuits)))'
            = IsPrefix(Places(File(core))', RowsUpTo(core, Len(a.circuits))')
      OBVIOUS
    <3>3. Places(File(core))' = Places(File(core)')
      BY DEF Places
    <3> QED BY <2>2, <3>1, <3>2, <3>3
  <2>4. (File(core).count = IF pc = "done" THEN Len(File(core).rows) ELSE None)'
    BY <1>1, <2>2
  <2>5. ~Going'
    BY <1>1 DEF Going
  <2> QED BY <2>3, <2>4, <2>5
<1>9. LastWhenDone'
  BY <1>1 DEF LastWhenDone
<1> QED BY <1>5, <1>6, <1>7, <1>8, <1>9 DEF OutInv

\* A run that came to its end gives its files their number of points.
LEMMA CompleteKeeps ==
    ASSUME OutInv, FinishComplete
    PROVE  OutInv'
<1>0. OutTypes /\ FilesOpened /\ Ahead /\ RowsInOrder /\ LastWhenDone
  BY DEF OutInv
<1>1. /\ pc = "finished" /\ pc' = "done" /\ left' = left /\ outputInitialized' = outputInitialized
      /\ a' = a /\ point' = point /\ outputInitialized
      /\ files' = ForCores(Epilogue)
  BY <1>0 DEF FinishComplete, FilesOpened
<1>2. /\ Cores' = Cores /\ (Len(a.write))' = Len(a.write)
      /\ \A core : RowCount(core)' = RowCount(core) /\ FileName(core)' = FileName(core)
      /\ \A core, i : RowsUpTo(core, i)' = RowsUpTo(core, i)
  BY <1>1, SameRun
<1>3. ASSUME NEW core \in Cores
      PROVE  /\ File(core)'
                    = IF a.write[core] THEN [File(core) EXCEPT !.count = Len(File(core).rows)]
                              ELSE File(core)
             /\ IsFile(File(core)) /\ IsFile(File(core)')
             /\ File(core)'.rows = File(core).rows
                    /\ File(core)'.from = File(core).from
             /\ a.write[core] => File(core)'.count = Len(File(core).rows)
  <2>1. File(core)'
            = IF a.write[core] THEN [File(core) EXCEPT !.count = Len(File(core).rows)]
                      ELSE File(core)
    <3>1. ForCores(Epilogue)[FileName(core)] =
               IF a.write[core] THEN [File(core) EXCEPT !.count
                   = Len(File(core).rows)] ELSE File(core)
      BY <1>0, Epilogued
    <3>2. File(core)' = ForCores(Epilogue)[FileName(core)]
      BY <1>1, <1>2 DEF File
    <3> QED BY <3>1, <3>2
  <2>2. IsFile(File(core))
    BY <1>0 DEF OutTypes
  <2>3. ASSUME NEW f, IsFile(f), NEW k
        PROVE  LET g == [f EXCEPT !.count = k]
               IN  IsFile(g) /\ g.rows = f.rows /\ g.from = f.from /\ g.count = k
    <3>1. [f EXCEPT !.count = k]
              = [from |-> f.from, header |-> f.header, rows |-> f.rows, count |-> k]
      BY <2>3 DEF IsFile
    <3> QED BY <2>3, <3>1 DEF IsFile
  <2>4. CASE a.write[core]
    <3> DEFINE f == File(core)
               k == Len(f.rows)
               g == [f EXCEPT !.count = k]
    <3>1. IsFile(g) /\ g.rows = f.rows /\ g.from = f.from /\ g.count = k
      BY <2>2, <2>3
    <3>2. f' = g
      BY <2>1, <2>4
    <3> HIDE DEF g, k
    <3> QED BY <2>1, <2>2, <2>4, <3>1, <3>2 DEF k
  <2>5. CASE ~a.write[core]
    <3>1. File(core)' = File(core)
      BY <2>1, <2>5
    <3> QED BY <2>1, <2>2, <2>5, <3>1
  <2> QED BY <2>4, <2>5
<1>4. OutTypes'
  <2>1. files' = [name \in Range(FilesOf(a.kind)) |-> files'[name]]
    <3>1. DOMAIN files = Range(FilesOf(a.kind))
      BY <1>0 DEF OutTypes
    <3>2. ForCores(Epilogue) = [name \in DOMAIN files |-> ForCores(Epilogue)[name]]
      BY DEF ForCores
    <3> QED BY <1>1, <3>1, <3>2, Zenon
  <2>2. \A core \in Cores' : IsFile(File(core))'
    BY <1>2, <1>3 DEF IsFile
  <2> QED BY <1>0, <1>1, <2>1, <2>2 DEF OutTypes
<1>5. FilesOpened'
  <2>1. \A core \in Cores : IF ~a.write[core] THEN File(core)'
            = OldFile ELSE File(core)'.from = "this run"
    BY <1>0, <1>1, <1>3 DEF FilesOpened, Written
  <2> QED BY <1>0, <1>1, <1>2, <2>1 DEF FilesOpened, Written
<1>6. Ahead'
  <2>1. Chain(left, Len(a.write))' = Chain(left, Len(a.write))
    BY <1>1, <1>2 DEF Chain, Follows
  <2> QED BY <1>0, <1>1, <2>1 DEF Ahead
<1>7. RowsInOrder'
  <2> SUFFICES ASSUME NEW core \in Cores, a.write[core]
               PROVE  /\ IsPrefix(Places(File(core)), RowsUpTo(core, Len(a.circuits)))'
                      /\ Going' => (Places(File(core))
                             = RowsUpTo(core, point - 1) \o OfPoint(WrittenHere(core)))'
                      /\ (File(core).count = IF pc
                             = "done" THEN Len(File(core).rows) ELSE None)'
    BY <1>1, <1>2 DEF RowsInOrder
  <2>1. /\ Places(File(core)) = RowsUpTo(core, point - 1) \o OfPoint(WrittenHere(core))
        /\ IsPrefix(Places(File(core)), RowsUpTo(core, Len(a.circuits)))
    BY <1>0, <1>1 DEF RowsInOrder, Going
  <2>2. Places(File(core))' = Places(File(core))
    BY <1>3 DEF Places
  <2>3. IsPrefix(Places(File(core)), RowsUpTo(core, Len(a.circuits)))'
    <3>1. RowsUpTo(core, Len(a.circuits))' = RowsUpTo(core, Len(a.circuits))
      BY <1>1, <1>2
    <3>2. IsPrefix(Places(File(core)), RowsUpTo(core, Len(a.circuits)))'
            = IsPrefix(Places(File(core))', RowsUpTo(core, Len(a.circuits))')
      OBVIOUS
    <3> QED BY <2>1, <2>2, <3>1, <3>2
  <2>4. (Places(File(core)) = RowsUpTo(core, point - 1) \o OfPoint(WrittenHere(core)))'
    <3>1. RowsUpTo(core, point - 1)' = RowsUpTo(core, point - 1)
      BY <1>1, <1>2
    <3>2. OfPoint(WrittenHere(core))' = OfPoint(WrittenHere(core))
      <4>1. WrittenHere(core)' = WrittenHere(core)
        BY <1>1, <1>2 DEF WrittenHere
      <4> QED BY <1>1, <4>1 DEF OfPoint
    <3> QED BY <2>1, <2>2, <3>1, <3>2
  <2>5. (File(core).count = IF pc = "done" THEN Len(File(core).rows) ELSE None)'
    BY <1>1, <1>3
  <2> QED BY <2>3, <2>4, <2>5
<1>8. LastWhenDone'
  BY <1>0, <1>1 DEF LastWhenDone
<1> QED BY <1>4, <1>5, <1>6, <1>7, <1>8 DEF OutInv

\* A run begins without files of its own.
LEMMA BeginsRight ==
    ASSUME OutputsInit
    PROVE  OutInv
<1>1. /\ a \in Runs /\ point = 1 /\ pc = "elaborate" /\ outputInitialized = FALSE /\ left = <<>>
      /\ files = [name \in Range(FilesOf(a.kind)) |-> OldFile] /\ stored = {}
  BY DEF OutputsInit
<1>2. /\ Len(a.circuits) \in Nat \ {0} /\ \A core : RowCount(core) \in Nat \ {0}
      /\ \A core \in Cores : FileName(core) \in Range(FilesOf(a.kind))
  BY <1>1, RunShape
<1>3. \A core \in Cores : File(core) = OldFile
  BY <1>1, <1>2 DEF File
<1>4. IsFile(OldFile) /\ OldFile.rows = <<>> /\ OldFile.count = None
  BY FileShapes
<1>5. OutTypes
  <2>1. 1 \in 1 .. Len(a.circuits)
    BY <1>2
  <2> QED BY <1>1, <1>3, <1>4, <2>1 DEF OutTypes
<1>6. FilesOpened
  BY <1>1, <1>3 DEF FilesOpened
<1>7. Ahead
  BY <1>1 DEF Ahead, Chain
<1>8. RowsInOrder
  <2> SUFFICES ASSUME NEW core \in Cores
               PROVE  /\ IsPrefix(Places(File(core)), RowsUpTo(core, Len(a.circuits)))
                      /\ Places(File(core))
                             = RowsUpTo(core, point - 1) \o OfPoint(WrittenHere(core))
                      /\ File(core).count = None
    BY <1>1 DEF RowsInOrder
  <2>1. Places(File(core)) = <<>> /\ File(core).count = None
    BY <1>3, <1>4, Places0
  <2>2. WrittenHere(core) = 0
    BY <1>1 DEF WrittenHere
  <2> DEFINE R == RowCount(core)
             t == RowsUpTo(core, point - 1)
  <2>3. R \in Nat \ {0}
    BY <1>2
  <2> HIDE DEF R
  <2>4. 0 \in 0 .. R
    BY <2>3
  <2>5. 0 \in 0 .. RowCount(core)
    BY <2>4 DEF R
  <2>6. /\ IsPrefix(t \o OfPoint(0), RowsUpTo(core, Len(a.circuits)))
        /\ t \o OfPoint(0) = t
    BY <1>5, <2>5, PartOfPoint
  <2>7. t = <<>>
    <3>1. RowsUpTo(core, 0) = <<>>
      BY <1>2, RowsGrow
    <3> QED BY <1>1, <3>1
  <2> HIDE DEF t
  <2>8. t \o OfPoint(0) = <<>>
    BY <2>6, <2>7
  <2>9. Places(File(core)) = t \o OfPoint(WrittenHere(core))
    BY <2>1, <2>2, <2>8
  <2> QED BY <2>1, <2>6, <2>8, <2>9 DEF t
<1>9. LastWhenDone
  BY <1>1 DEF LastWhenDone
<1> QED BY <1>5, <1>6, <1>7, <1>8, <1>9 DEF OutInv

\* Nothing is done.
LEMMA StutterKeeps ==
    ASSUME OutInv, UNCHANGED outputsVars
    PROVE  OutInv'
<1>1. UNCHANGED <<a, point, pc, outputInitialized, left, files, stored>>
  BY DEF outputsVars
<1>2. /\ Cores' = Cores /\ (Len(a.write))' = Len(a.write)
      /\ \A core : RowCount(core)' = RowCount(core) /\ FileName(core)' = FileName(core)
      /\ \A core, i : RowsUpTo(core, i)' = RowsUpTo(core, i)
  BY <1>1, SameRun
<1>3. \A core : File(core)' = File(core) /\ Written(core)' = Written(core)
                /\ Places(File(core))' = Places(File(core))
                       /\ IsFile(File(core))' = IsFile(File(core))
  BY <1>1, SameFiles
<1>4. OutTypes'
  BY <1>1, <1>2, <1>3 DEF OutInv, OutTypes
<1>5. FilesOpened'
  BY <1>1, <1>2, <1>3 DEF OutInv, FilesOpened
<1>6. Ahead'
  <2>1. Chain(left, Len(a.write))' = Chain(left, Len(a.write))
    BY <1>1, <1>2 DEF Chain, Follows
  <2> QED BY <1>1, <2>1 DEF OutInv, Ahead
<1>7. RowsInOrder'
  <2>1. \A core : WrittenHere(core)' = WrittenHere(core)
    BY <1>1, <1>2 DEF WrittenHere
  <2>2. \A core : OfPoint(WrittenHere(core))' = OfPoint(WrittenHere(core))
    BY <1>1, <2>1 DEF OfPoint
  <2>3. \A core : RowsUpTo(core, point - 1)' = RowsUpTo(core, point - 1)
                  /\ RowsUpTo(core, Len(a.circuits))' = RowsUpTo(core, Len(a.circuits))
    BY <1>1, <1>2
  <2>4. Going' = Going
    BY <1>1 DEF Going
  <2> QED BY <1>1, <1>2, <1>3, <2>2, <2>3, <2>4 DEF OutInv, RowsInOrder
<1>8. LastWhenDone'
  BY <1>1 DEF OutInv, LastWhenDone
<1> QED BY <1>4, <1>5, <1>6, <1>7, <1>8 DEF OutInv

\* Every step keeps the invariant.
LEMMA StepKeeps ==
    ASSUME OutInv, [OutputsNext]_outputsVars
    PROVE  OutInv'
<1>1. CASE UNCHANGED outputsVars
  BY <1>1, StutterKeeps
<1>2. CASE OutputsNext
  <2>1. CASE \/ SetPoint \/ AddOutputDescriptors \/ RebuildCores
            \/ ResolveOutputDescriptors
             \/ PointFails \/ DescriptorsFail \/ RebuildFails \/ BindingFails
                    \/ CoreFails \/ StopRequested
    <3>1. /\ UNCHANGED <<a, point, outputInitialized, left, files, stored>>
          /\ \/ pc \in Building /\ pc' \in Building
             \/ pc \in Building \cup {"core"} /\ pc' \in {"aborted", "deleted"}
      BY <2>1 DEF SetPoint, AddOutputDescriptors, RebuildCores,
             ResolveOutputDescriptors, PointFails,
           DescriptorsFail, RebuildFails, BindingFails, CoreFails,
               StopRequested, AbortAnalysis, Building
    <3> QED BY <3>1, QuietStep
  <2>2. CASE InitializeOutputs
    BY <2>2, InitializeKeeps
  <2>3. CASE WriteRow
    BY <2>3, WriteKeeps
  <2>4. CASE NextPoint \/ LastPoint
    BY <2>4, PointKeeps
  <2>5. CASE FinishAborted
    BY <2>5, AbortedKeeps
  <2>6. CASE FinishComplete
    BY <2>6, CompleteKeeps
  <2> QED BY <1>2, <2>1, <2>2, <2>3, <2>4, <2>5, <2>6 DEF OutputsNext
<1> QED BY <1>1, <1>2

\* The invariant says what the files tell.
LEMMA InvTells ==
    ASSUME OutInv
    PROVE  FilesTellTheOutcome
<1> DEFINE N == Len(a.circuits)
<1>0. OutTypes /\ FilesOpened /\ RowsInOrder /\ LastWhenDone
  BY DEF OutInv
<1>1. /\ N \in Nat \ {0} /\ DOMAIN a.circuits = 1 .. N
      /\ \A core \in Cores : RowsOf(core) = RowCount(core) /\ RowCount(core) \in Nat \ {0}
  BY <1>0, RunShape DEF OutTypes
<1>2. ASSUME NEW core \in Cores
      PROVE  AllRows(core) = RowsUpTo(core, N)
  <2>1. [i \in DOMAIN a.circuits |-> [r \in 1 .. RowsOf(core) |-> <<i, r>>]]
           = [j \in 1 .. N |-> [r \in 1 .. RowCount(core) |-> <<j, r>>]]
    BY <1>1
  <2> QED BY <2>1 DEF AllRows, RowsUpTo
<1>3. stored # {} => pc = "done"
  BY <1>0 DEF FilesOpened
<1>4. ASSUME NEW core \in Cores, ~a.write[core]
      PROVE  File(core) = OldFile
  BY <1>0, <1>4 DEF FilesOpened
<1>5. ASSUME NEW core \in Cores, a.write[core]
      PROVE  /\ IsPrefix(Places(File(core)), AllRows(core))
             /\ pc = "done" => /\ Written(core)
                               /\ File(core).count = Len(AllRows(core))
                               /\ Len(File(core).rows) = Len(AllRows(core))
             /\ pc = "after abort" /\ a.strictoutput => File(core) = NoFile
             /\ pc # "done" => File(core).count = None
  <2>1. IsPrefix(Places(File(core)), AllRows(core))
    BY <1>0, <1>2, <1>5 DEF RowsInOrder
  <2>2. /\ pc = "after abort" /\ a.strictoutput => File(core) = NoFile
        /\ pc # "done" => File(core).count = None
    BY <1>0, <1>5 DEF FilesOpened, RowsInOrder
  <2>3. ASSUME pc = "done"
        PROVE  /\ Written(core) /\ File(core).count = Len(AllRows(core))
               /\ Len(File(core).rows) = Len(AllRows(core))
    <3>1. Written(core) /\ point = N /\ File(core).count = Len(File(core).rows)
      BY <1>0, <1>5, <2>3 DEF FilesOpened, RowsInOrder, LastWhenDone
    <3>2. WrittenHere(core) = RowCount(core)
      <4>1. left = <<>>
        BY <2>3 DEF OutInv, Ahead
      <4> QED BY <2>3, <4>1 DEF WrittenHere
    <3>3. Places(File(core)) = RowsUpTo(core, point - 1) \o OfPoint(RowCount(core))
      BY <1>0, <1>5, <2>3, <3>2 DEF RowsInOrder, Going
    <3>4. RowsUpTo(core, point - 1) \o OfPoint(RowCount(core)) = RowsUpTo(core, point)
      <4> DEFINE R == RowCount(core)
      <4>1. R \in Nat \ {0}
        BY <1>1
      <4> HIDE DEF R
      <4>2. R \in 0 .. R
        BY <4>1
      <4>3. RowCount(core) \in 0 .. RowCount(core)
        BY <4>2 DEF R
      <4> QED BY <1>0, <4>3, PartOfPoint
    <3>5. Places(File(core)) = AllRows(core)
      BY <1>2, <3>1, <3>3, <3>4
    <3>6. Len(Places(File(core))) = Len(File(core).rows)
      <4> DEFINE s == File(core).rows
      <4>1. s \in Seq(Range(s))
        BY <1>0 DEF OutTypes, IsFile
      <4>2. Places(File(core)) = [k \in DOMAIN s |-> <<s[k].point, s[k].row>>]
        BY DEF Places
      <4> HIDE DEF s
      <4>3. DOMAIN s = 1 .. Len(s) /\ Len(s) \in Nat
        BY <4>1
      <4>4. Len([k \in DOMAIN s |-> <<s[k].point, s[k].row>>]) = Len(s)
        BY <4>3
      <4> QED BY <4>2, <4>4 DEF s
    <3> QED BY <3>1, <3>5, <3>6
  <2> QED BY <2>1, <2>2, <2>3
<1> QED BY <1>3, <1>4, <1>5 DEF FilesTellTheOutcome, Places

\* The files tell how a run ended: complete with their number of points, deleted where
\* strictoutput asks for it, never looking complete after an abort, and untouched by the
\* cores that do not write (Analysis::finish, OutputRawfile).
THEOREM FilesTell == OutputsSpec => []FilesTellTheOutcome
<1>1. OutputsInit => OutInv
  BY BeginsRight
<1>2. OutInv /\ [OutputsNext]_outputsVars => OutInv'
  BY StepKeeps
<1>3. OutInv => FilesTellTheOutcome
  BY InvTells
<1> QED BY <1>1, <1>2, <1>3, PTL DEF OutputsSpec
=============================================================================
