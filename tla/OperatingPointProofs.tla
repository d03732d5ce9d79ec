------------------------ MODULE OperatingPointProofs ------------------------
(***************************************************************************)
(* Proofs about OperatingPoint, for every list of homotopy algorithms,     *)
(* every gmin and source option and every number of steps.                 *)
(*                                                                         *)
(* Main line: the knobs are the original ones but for those of the running *)
(* algorithms, each stands where its frame says, and the storage beyond    *)
(* that of the sweep is one slot for each running algorithm that has one.  *)
(* What is stored there, or is in the solution vector, when a run is about *)
(* to be made tells where that run will start from.                        *)
(***************************************************************************)
EXTENDS OperatingPoint, TLAPS, SequenceTheorems

-----------------------------------------------------------------------------
(* The inductive invariant                                                 *)

Slotted == {"gdev", "gshunt", "src"}

Dynamic == {"gdev", "gshunt"}

Frames ==
    [name: Algorithms \cup {"initial"}, slot: Nat, at: Int, good: Int, factor: Int,
     count: Nat, continuation: BOOLEAN, phase: {"start", "step", "final"},
     alternatives: Seq(STRING)]

PhaseFits(f) ==
    /\ f.name = "initial" => f.phase = "final"
    /\ f.name = "src" => f.phase \in {"start", "step"}
    /\ f.name = "spice3src" => f.phase = "step"
    /\ f.name \in {"gdev", "gshunt", "spice3gmin"} => f.phase \in {"step", "final"}
    /\ f.phase = "final" /\ f.name # "initial" => f.continuation
    /\ f.phase = "start" => ~f.continuation /\ f.at = 0
    /\ f.phase = "step" /\ f.name = "src" => f.continuation
    /\ f.name = "spice3src" /\ f.count >= 1 => f.continuation

\* The steps an algorithm has made are within its option.
CountFits(f) ==
    /\ f.name = "initial" => f.count = 0
    /\ f.name # "initial" => Steps(f.name) >= 1 /\ f.count <= Steps(f.name) + 1
    /\ f.name \in Slotted /\ f.phase # "final" => f.count + 1 <= Steps(f.name)
    /\ f.name # "initial" /\ f.phase # "final" => f.count <= Steps(f.name)

AtFits(f) ==
    /\ f.name = "src" => f.at <= Full
    /\ f.name = "spice3src" => f.at = Spice3At("spice3src", f.count)

FrameFits(f) == f \in Frames /\ PhaseFits(f) /\ CountFits(f) /\ AtFits(f)

\* Source stepping that waits for an alternative to solve the circuit without sources
Waiting(f) == f.name = "src" /\ f.phase = "start" /\ f.slot = opt.levels + 1

Stack ==
    /\ frames \in Seq(Frames) /\ Len(frames) <= 2
    /\ pc \in {"idle", "try"} => frames = <<>>
    /\ pc \in {"call", "returned"} => frames # <<>>
    /\ pc = "result" /\ frames # <<>> => Len(frames) = 1 /\ Waiting(frames[1])
    /\ frames # <<>> => FrameFits(frames[1])
    /\ Len(frames) = 2 => /\ FrameFits(frames[2]) /\ Waiting(frames[2])
                          /\ frames[1].name \in {"gdev", "gshunt", "spice3gmin"}

\* Slots that belong to sweep levels and to algorithms that wait
Under == IF Len(frames) = 2 THEN opt.levels + 1 ELSE opt.levels

Slots ==
    /\ frames = <<>> => Len(coreStates) = opt.levels
    /\ frames # <<>> => IF frames[1].name \in Slotted
                        THEN frames[1].slot = Under + 1 /\ Len(coreStates) = Under + 1
                        ELSE frames[1].slot = 0 /\ Len(coreStates) = Under

TurnedBy(f, base) ==
    IF f.name = "initial" \/ f.phase = "final" THEN base
    ELSE [base EXCEPT ![Knob[f.name]] = f.at]

\* The knobs as the innermost algorithm found them
Base == IF Len(frames) = 2 THEN [Original EXCEPT !["src"] = 0] ELSE Original

KnobsMatch == knobs = IF frames = <<>> THEN Original ELSE TurnedBy(frames[1], Base)

Types ==
    /\ opt \in Settings
    /\ pc \in {"idle", "try", "call", "returned", "result"}
    /\ todo \in Seq(STRING)
    /\ solution \in Solutions /\ lastGood \in Solutions /\ start \in Starts
    /\ coreStates \in Seq(States) /\ highWater \in Nat /\ Len(coreStates) <= highWater
    /\ continueState \in Int /\ requestForcedBypass \in BOOLEAN /\ allowBypass \in BOOLEAN
    /\ outcome \in Outcomes /\ result \in {"converged", "failed", "leave"}
    /\ verdict \in {"none", "Finished", "Aborted"}

\* What the solution vector solves after a run, after an algorithm and after the core
Solved ==
    /\ pc = "returned" => /\ solution = [solves |-> Converges(outcome), knobs |-> knobs]
                          /\ Converges(outcome) => lastGood = solution
    /\ pc = "result" /\ result = "converged" =>
          /\ solution = [solves |-> TRUE, knobs |-> knobs] /\ lastGood = solution
          /\ continueState = 0 /\ Converges(outcome)
    /\ pc # "idle" => verdict = "none"
    /\ verdict = "Finished" => continueState = 0 /\ solution = [solves |-> TRUE, knobs |-> Original]

BypassAsked ==
    requestForcedBypass => pc = "call" /\ frames[1].continuation /\ Converges(outcome)

\* A run that continues uses up the state it was to continue from.
Continuing ==
    /\ pc = "returned" /\ frames[1].continuation => continueState = 0
    /\ frames # <<>> /\ frames[1].name = "initial" /\ ~frames[1].continuation => continueState = 0

\* A sweep with op_skipinitial is left out of StepsContinueFromLastGood.
Trusted == ~(opt.skipinitial /\ opt.levels > 0)

Pointers == {0, Gone, opt.levels + 1, opt.levels + 2}

PointerFits ==
    pc # "idle" /\ ~(pc = "call" /\ frames[1].name = "initial" /\ frames[1].continuation)
        => continueState \in Pointers

\* What is in the slot of an algorithm: nothing before its first run converged, then the
\* last good point
SlotHolds(f, states) ==
    /\ ~f.continuation => states[f.slot] = EmptyState
    /\ f.continuation /\ f.phase = "step" =>
          states[f.slot] = Stored(lastGood) /\ lastGood.solves

SlotsHold ==
    /\ frames # <<>> /\ frames[1].name \in Slotted
       /\ (pc = "returned" /\ frames[1].continuation => ~Converges(outcome))
          => SlotHolds(frames[1], coreStates)
    /\ Len(frames) = 2 => coreStates[opt.levels + 1] = EmptyState

\* Where a step starts from: the last good point, still in the solution vector or restored
StartsWell(f, pointer, states) ==
    /\ lastGood.solves
    /\ \/ /\ solution = lastGood
          /\ \/ pointer = 0 \/ pointer \notin DOMAIN states
             \/ states[pointer] \in {EmptyState, Stored(lastGood)}
       \/ pointer = f.slot /\ pointer # 0 /\ states[pointer] = Stored(lastGood)

NextStart ==
    pc = "call" /\ frames[1].continuation /\ frames[1].name # "initial" =>
        StartsWell(frames[1], continueState, coreStates)

Inv ==
    /\ Types /\ Stack /\ Slots /\ KnobsMatch /\ Solved
    /\ BypassAsked /\ ForcedBypassFits
    /\ Continuing /\ SlotsHold
    /\ Trusted => PointerFits /\ NextStart
    /\ StepsContinueFromLastGood

-----------------------------------------------------------------------------
(* Sequences                                                               *)

\* A sequence that is not empty and has at most two elements.
LEMMA ShortSequence ==
    ASSUME NEW S, NEW s \in Seq(S), s # <<>>, Len(s) <= 2
    PROVE  Len(s) = 1 \/ Len(s) = 2
<1>1. Len(s) \in Nat \ {0}
  BY EmptySeq, Zenon
<1>2. \A n \in Nat \ {0} : n <= 2 => n = 1 \/ n = 2
  OBVIOUS
<1> QED BY <1>1, <1>2, Zenon

\* A sequence of one element.
LEMMA OneElement ==
    ASSUME NEW S, NEW s \in Seq(S), Len(s) = 1
    PROVE  s # <<>> /\ s[1] \in S /\ Head(s) = s[1] /\ Tail(s) = <<>>
<1>1. s # <<>> /\ s[1] \in S /\ Head(s) = s[1]
  OBVIOUS
<1>2. Tail(s) \in Seq(S) /\ Len(Tail(s)) = Len(s) - 1
  BY <1>1, HeadTailProperties
<1>3. Len(Tail(s)) = 0
  BY <1>2
<1> QED BY <1>1, <1>2, <1>3, EmptySeq

\* A sequence of two elements.
LEMMA TwoElements ==
    ASSUME NEW S, NEW s \in Seq(S), Len(s) = 2
    PROVE  /\ s # <<>> /\ s[1] \in S /\ s[2] \in S /\ Head(s) = s[1]
           /\ Tail(s) = <<s[2]>>
<1>1. s # <<>> /\ s[1] \in S /\ s[2] \in S /\ Head(s) = s[1]
  OBVIOUS
<1>2. /\ Tail(s) \in Seq(S) /\ Len(Tail(s)) = Len(s) - 1
      /\ \A i \in 1 .. Len(Tail(s)) : Tail(s)[i] = s[i + 1]
  BY <1>1, HeadTailProperties
<1>3. Len(Tail(s)) = 1 /\ Tail(s)[1] = s[2]
  BY <1>2
<1>4. ASSUME NEW t \in Seq(S), Len(t) = 1, t[1] = s[2]
      PROVE  t = <<s[2]>>
  BY <1>1, <1>4
<1> QED BY <1>1, <1>2, <1>3, <1>4

\* The first element of a short sequence replaced.
LEMMA HeadReplaced ==
    ASSUME NEW S, NEW s \in Seq(S), s # <<>>, Len(s) <= 2, NEW f \in S,
           NEW t, t = <<f>> \o Tail(s)
    PROVE  /\ t \in Seq(S) /\ Len(t) = Len(s) /\ t # <<>>
           /\ t[1] = f
           /\ Len(s) = 2 => t[2] = s[2]
<1>1. Len(s) = 1 \/ Len(s) = 2
  BY ShortSequence
<1>2. CASE Len(s) = 1
  BY <1>2, OneElement
<1>3. CASE Len(s) = 2
  <2>1. Tail(s) = <<s[2]>> /\ s[2] \in S
    BY <1>3, TwoElements
  <2> QED BY <2>1, <1>3
<1> QED BY <1>1, <1>2, <1>3

\* What Front leaves of a sequence.
LEMMA FrontElements ==
    ASSUME NEW S, NEW s \in Seq(S), s # <<>>
    PROVE  /\ Front(s) \in Seq(S) /\ Len(Front(s)) = Len(s) - 1
           /\ \A i \in 1 .. Len(s) - 1 : Front(s)[i] = s[i]
<1> DEFINE n == Len(s) - 1
<1>1. n \in Nat /\ Len(s) = n + 1
  OBVIOUS
<1>2. \A i \in 1 .. n : s[i] \in S
  OBVIOUS
<1>3. Front(s) = SubSeq(s, 1, n)
  BY DEF Front
<1> HIDE DEF n
<1>4. n \in Int /\ 1 \in Int
  BY <1>1
<1>5. /\ SubSeq(s, 1, n) \in Seq(S)
      /\ Len(SubSeq(s, 1, n)) = (IF 1 <= n THEN n - 1 + 1 ELSE 0)
      /\ \A i \in 1 .. (n - 1 + 1) : SubSeq(s, 1, n)[i] = s[1 + i - 1]
  BY <1>2, <1>4, SubSeqProperties
<1>6. /\ n - 1 + 1 = n
      /\ \A i \in 1 .. n : 1 + i - 1 = i
      /\ (IF 1 <= n THEN n - 1 + 1 ELSE 0) = n
  BY <1>1
<1>7. Len(SubSeq(s, 1, n)) = n
  BY <1>5, <1>6, Zenon
<1>8. \A i \in 1 .. n : SubSeq(s, 1, n)[i] = s[i]
  BY <1>5, <1>6, Zenon
<1>9. Len(s) - 1 = n
  BY <1>1
<1> QED BY <1>3, <1>5, <1>7, <1>8, <1>9, Zenon

-----------------------------------------------------------------------------
(* Knobs and data                                                          *)

\* The knobs and the original ones are integers.
LEMMA KnobTypes ==
    /\ DOMAIN Original = {"gdev", "gshunt", "src"}
    /\ Original \in Knobs /\ Base \in Knobs
    /\ Original["src"] = Full
BY GminAssumption, SourceAssumption DEF Original, Knobs, Off, Base

\* A knob is turned, and turned again.
LEMMA KnobTurned ==
    ASSUME NEW base \in Knobs, NEW name \in Algorithms, NEW x \in Int, NEW y \in Int
    PROVE  /\ Knob[name] \in {"gdev", "gshunt", "src"}
           /\ [base EXCEPT ![Knob[name]] = x] \in Knobs
           /\ [[base EXCEPT ![Knob[name]] = x] EXCEPT ![Knob[name]] = y]
                 = [base EXCEPT ![Knob[name]] = y]
           /\ [base EXCEPT ![Knob[name]] = base[Knob[name]]] = base
<1>1. Knob[name] \in {"gdev", "gshunt", "src"}
  BY DEF Algorithms, Knob
<1>2. base \in [{"gdev", "gshunt", "src"} -> Int]
  BY DEF Knobs, Original
<1>3. [base EXCEPT ![Knob[name]] = x] \in Knobs
  BY <1>1, <1>2 DEF Knobs, Original
<1>4. [[base EXCEPT ![Knob[name]] = x] EXCEPT ![Knob[name]] = y]
         = [base EXCEPT ![Knob[name]] = y]
  BY <1>1, <1>2
<1>5. [base EXCEPT ![Knob[name]] = base[Knob[name]]] = base
  BY <1>1, <1>2
<1> QED BY <1>1, <1>3, <1>4, <1>5

\* The settings of the analysis.
LEMMA Setting ==
    ASSUME opt \in Settings
    PROVE  /\ opt.levels \in {0, 1} /\ opt.gminsteps \in Nat /\ opt.srcsteps \in Nat
           /\ opt.op_homotopy \in Seq(STRING) /\ opt.op_srchomotopy \in Seq(STRING)
           /\ opt.contbypass \in BOOLEAN /\ opt.skipinitial \in BOOLEAN
           /\ \A name : Steps(name) \in Nat
BY SettingsAssumption DEF Steps

\* The fields of a frame.
LEMMA FrameTypes ==
    ASSUME NEW f \in Frames
    PROVE  /\ f.name \in Algorithms \cup {"initial"} /\ f.slot \in Nat /\ f.at \in Int
           /\ f.good \in Int /\ f.factor \in Int /\ f.count \in Nat
           /\ f.continuation \in BOOLEAN /\ f.phase \in {"start", "step", "final"}
           /\ f.alternatives \in Seq(STRING)
BY DEF Frames

\* The knobs that a frame stands for.
LEMMA TurnedTypes ==
    ASSUME NEW f \in Frames, NEW base \in Knobs
    PROVE  TurnedBy(f, base) \in Knobs
<1>1. CASE f.name = "initial"
  BY <1>1 DEF TurnedBy
<1>2. CASE f.name # "initial"
  <2>1. f.name \in Algorithms /\ f.at \in Int
    BY <1>2, FrameTypes
  <2> QED BY <2>1, KnobTurned DEF TurnedBy
<1> QED BY <1>1, <1>2

\* Running is the first frame, and its knob stands under the others' at the original value.
LEMMA RunningFrame ==
    ASSUME Inv, frames # <<>>
    PROVE  /\ Running = frames[1] /\ FrameFits(frames[1]) /\ frames[1] \in Frames
           /\ Len(frames) \in {1, 2} /\ opt.levels \in {0, 1}
           /\ Under \in {0, 1, 2}
           /\ frames[1].name # "initial" =>
                 /\ frames[1].name \in Algorithms
                 /\ Base[Knob[frames[1].name]] = Original[Knob[frames[1].name]]
           /\ knobs = TurnedBy(frames[1], Base) /\ knobs \in Knobs
<1> USE DEF Inv
<1>1. frames \in Seq(Frames) /\ Len(frames) <= 2 /\ FrameFits(frames[1]) /\ opt \in Settings
  BY DEF Stack, Types
<1>2. Len(frames) \in {1, 2} /\ Running = frames[1] /\ frames[1] \in Frames
  <2>1. Len(frames) \in {1, 2}
    BY <1>1, ShortSequence
  <2>2. Head(frames) = frames[1] /\ frames[1] \in Frames
    BY <2>1, <1>1, OneElement, TwoElements
  <2> QED BY <2>1, <2>2 DEF Running
<1>3. frames[1].name # "initial" => frames[1].name \in Algorithms
  BY <1>2, FrameTypes
<1>4. ASSUME frames[1].name # "initial"
      PROVE  Base[Knob[frames[1].name]] = Original[Knob[frames[1].name]]
  <2>1. CASE Len(frames) = 2
    <3>1. frames[1].name \in {"gdev", "gshunt", "spice3gmin"}
      BY <2>1 DEF Stack
    <3> QED BY <3>1 DEF Base, Knob, Original
  <2>2. CASE Len(frames) = 1
    BY <2>2 DEF Base
  <2> QED BY <1>2, <2>1, <2>2
<1>5. knobs = TurnedBy(frames[1], Base)
  BY DEF KnobsMatch
<1>6. knobs \in Knobs
  BY <1>5, <1>2, TurnedTypes, KnobTypes
<1>7. opt.levels \in {0, 1} /\ Under \in {0, 1, 2}
  BY <1>1, Setting DEF Under
<1> QED BY <1>1, <1>2, <1>3, <1>4, <1>5, <1>6, <1>7

\* Where the knob is after an algorithm put it back.
LEMMA KnobPutBack ==
    ASSUME Inv, frames # <<>>
    PROVE  PutBack(frames[1].name) = Base
<1> DEFINE f == frames[1]
           k == Knob[f.name]
<1>1. /\ f \in Frames /\ knobs = TurnedBy(f, Base)
      /\ f.name # "initial" => f.name \in Algorithms /\ Base[k] = Original[k]
  BY RunningFrame
<1>2. CASE f.name = "initial"
  BY <1>1, <1>2 DEF PutBack, TurnedBy
<1>3. CASE f.name # "initial"
  <2>1. f.name \in Algorithms /\ Base[k] = Original[k] /\ f.at \in Int /\ Base \in Knobs
    BY <1>1, <1>3, FrameTypes, KnobTypes
  <2>2. k \in {"gdev", "gshunt", "src"} /\ Base[k] \in Int
    BY <2>1, KnobTurned, KnobTypes DEF Knobs
  <2>3. /\ [[Base EXCEPT ![k] = f.at] EXCEPT ![k] = Base[k]] = [Base EXCEPT ![k] = Base[k]]
        /\ [Base EXCEPT ![k] = Base[k]] = Base
    BY <2>1, <2>2, KnobTurned
  <2>4. CASE f.phase = "final"
    BY <1>1, <1>3, <2>1, <2>3, <2>4 DEF PutBack, TurnedBy, Turned
  <2>5. CASE f.phase # "final"
    BY <1>1, <1>3, <2>1, <2>3, <2>5 DEF PutBack, TurnedBy, Turned
  <2> QED BY <2>4, <2>5
<1> QED BY <1>2, <1>3

-----------------------------------------------------------------------------
(* Runs, ends and beginnings of algorithms                                 *)

\* An algorithm makes another run: what is asked of its frame, its slot and the start of
\* the run is enough for the invariant.
LEMMA ContinueKeeps ==
    ASSUME Inv, frames # <<>>, pc \in {"returned", "result"},
           NEW f, NEW k, NEW b \in BOOLEAN, Continue(f, k, b),
           FrameFits(f), f.name = frames[1].name, f.slot = frames[1].slot,
           f.name # "initial", f.phase # "start",
           k = TurnedBy(f, Base),
           b => f.continuation /\ Converges(outcome),
           coreStates' \in Seq(States), Len(coreStates') = Len(coreStates),
           continueState' \in Int,
           f.name \in Slotted => SlotHolds(f, coreStates'),
           Len(frames) = 2 => coreStates'[opt.levels + 1] = EmptyState,
           Trusted => /\ continueState' \in Pointers
                      /\ f.continuation => StartsWell(f, continueState', coreStates')
    PROVE  Inv'
<1>1. /\ frames \in Seq(Frames) /\ Len(frames) <= 2 /\ f \in Frames
  BY DEF Inv, Stack, FrameFits
<1>2. frames' = <<f>> \o Tail(frames)
  BY DEF Continue
<1>3. /\ frames' \in Seq(Frames) /\ Len(frames') = Len(frames) /\ frames' # <<>>
      /\ frames'[1] = f /\ (Len(frames) = 2 => frames'[2] = frames[2])
  BY <1>1, <1>2, HeadReplaced
<1>4. /\ UNCHANGED <<opt, todo, solution, start, outcome, lastGood, highWater, allowBypass,
                     result, verdict>>
      /\ knobs' = k /\ requestForcedBypass' = b /\ pc' = "call"
  BY DEF Continue, solver
<1>5. Base' = Base /\ Under' = Under
  BY <1>3, <1>4 DEF Base, Under
<1>6. Types'
  BY <1>4 DEF Inv, Types
<1>7. Stack'
  BY <1>3, <1>4 DEF Inv, Stack, FrameFits, PhaseFits, CountFits, AtFits, Steps, Spice3At, Spice3Gmin, Spice3SourceFactor,
       GminTarget, Waiting
<1>8. Slots'
  BY <1>3, <1>4, <1>5 DEF Inv, Slots
<1>9. KnobsMatch'
  BY <1>3, <1>4, <1>5 DEF KnobsMatch, TurnedBy
<1>10. Solved'
  BY <1>4 DEF Inv, Solved, Converges
<1>11. BypassAsked' /\ ForcedBypassFits' /\ StepsContinueFromLastGood'
  BY <1>3, <1>4 DEF Inv, BypassAsked, ForcedBypassFits, StepsContinueFromLastGood, Converges
<1>12. Continuing'
  BY <1>3, <1>4 DEF Continuing
<1>13. SlotsHold'
  BY <1>3, <1>4 DEF SlotsHold, SlotHolds
<1>14. Trusted' => PointerFits' /\ NextStart'
  BY <1>3, <1>4 DEF Trusted, PointerFits, NextStart, StartsWell, Pointers
<1> QED BY <1>6, <1>7, <1>8, <1>9, <1>10, <1>11, <1>12, <1>13, <1>14 DEF Inv

\* An algorithm ends: the frame below, if there is one, finds its knob and the storage as
\* it left them.
LEMMA StopKeeps ==
    ASSUME Inv, frames # <<>>, pc \in {"returned", "result"},
           NEW r \in {"converged", "failed", "leave"}, Stop(r),
           continueState' \in Int,
           Trusted => continueState' \in Pointers,
           r = "converged" => /\ continueState' = 0 /\ knobs = Base /\ Converges(outcome)
                              /\ solution = [solves |-> TRUE, knobs |-> knobs]
                              /\ lastGood = solution
    PROVE  Inv'
<1>1. /\ frames \in Seq(Frames) /\ Len(frames) \in {1, 2} /\ opt.levels \in {0, 1}
      /\ Running = frames[1] /\ FrameFits(frames[1])
  BY RunningFrame DEF Inv, Stack
<1>2. /\ UNCHANGED <<opt, todo, solution, start, outcome, lastGood, highWater,
                     requestForcedBypass, allowBypass, verdict>>
      /\ pc' = "result" /\ result' = r /\ frames' = Tail(frames) /\ knobs' = PutBack(Running.name)
      /\ coreStates' = IF Running.slot = 0 THEN coreStates ELSE Front(coreStates)
  BY DEF Stop, solver
<1>3. knobs' = Base
  BY <1>1, <1>2, KnobPutBack
<1>4. coreStates \in Seq(States) /\ Len(coreStates) \in Nat /\ Len(coreStates) <= highWater
      /\ highWater \in Nat
  BY DEF Inv, Types
<1>5. /\ coreStates' \in Seq(States) /\ Len(coreStates') = Under
      /\ \A i \in 1 .. Under : coreStates'[i] = coreStates[i]
      /\ Len(coreStates') <= highWater
  <2>1. CASE frames[1].name \in Slotted
    <3>1. frames[1].slot = Under + 1 /\ Len(coreStates) = Under + 1 /\ Under \in Nat
      BY <2>1, <1>1 DEF Inv, Slots, Under
    <3>2. coreStates' = Front(coreStates) /\ coreStates # <<>>
      BY <3>1, <1>1, <1>2, <1>4, EmptySeq
    <3>3. /\ coreStates' \in Seq(States) /\ Len(coreStates') = Len(coreStates) - 1
          /\ \A i \in 1 .. Len(coreStates) - 1 : coreStates'[i] = coreStates[i]
      BY <3>2, <1>4, FrontElements
    <3>4. Len(coreStates) - 1 = Under /\ Under <= highWater
      BY <3>1, <1>4
    <3> QED BY <3>3, <3>4
  <2>2. CASE frames[1].name \notin Slotted
    <3>1. frames[1].slot = 0 /\ Len(coreStates) = Under
      BY <2>2 DEF Inv, Slots
    <3> QED BY <3>1, <1>1, <1>2, <1>4
  <2> QED BY <2>1, <2>2
<1>6. /\ frames' \in Seq(Frames)
      /\ Len(frames) = 1 => frames' = <<>>
      /\ Len(frames) = 2 => /\ Len(frames') = 1 /\ frames'[1] = frames[2] /\ frames' # <<>>
                            /\ frames[2] \in Frames
  <2>1. CASE Len(frames) = 1
    BY <2>1, <1>1, <1>2, OneElement
  <2>2. CASE Len(frames) = 2
    <3>1. Tail(frames) = <<frames[2]>> /\ frames[2] \in Frames
      BY <2>2, <1>1, TwoElements
    <3>2. frames' = <<frames[2]>>
      BY <3>1, <1>2
    <3> QED BY <2>2, <3>1, <3>2
  <2> QED BY <2>1, <2>2, <1>1
<1>7. Types'
  BY <1>2, <1>5 DEF Inv, Types
<1>8. Stack'
  <2>1. CASE Len(frames) = 1
    <3>1. frames' = <<>> /\ frames' \in Seq(Frames) /\ Len(frames') = 0 /\ pc' = "result"
      BY <2>1, <1>2, <1>6
    <3> QED BY <3>1 DEF Stack
  <2>2. CASE Len(frames) = 2
    <3>1. FrameFits(frames[2]) /\ Waiting(frames[2])
      BY <2>2 DEF Inv, Stack
    <3>2. /\ Len(frames') = 1 /\ frames'[1] = frames[2] /\ frames' # <<>> /\ frames' \in Seq(Frames)
          /\ pc' = "result" /\ opt' = opt
      BY <2>2, <1>2, <1>6
    <3>3. FrameFits(frames[1])' /\ Waiting(frames[1])'
      BY <3>1, <3>2 DEF FrameFits, PhaseFits, CountFits, AtFits, Steps, Spice3At, Spice3Gmin, Spice3SourceFactor, GminTarget, Waiting
    <3> QED BY <3>2, <3>3 DEF Stack
  <2> QED BY <2>1, <2>2, <1>1
<1>9. Slots'
  BY <1>1, <1>2, <1>5, <1>6 DEF Inv, Slots, Under, Stack, Waiting, Slotted
<1>10. KnobsMatch'
  <2>1. CASE Len(frames) = 1
    BY <2>1, <1>3, <1>6 DEF KnobsMatch, Base
  <2>2. CASE Len(frames) = 2
    <3>1. frames[2].name = "src" /\ frames[2].phase = "start" /\ frames[2].at = 0
      BY <2>2 DEF Inv, Stack, FrameFits, PhaseFits, Waiting
    <3>2. Base' = Original /\ Base = [Original EXCEPT !["src"] = 0]
      BY <2>2, <1>6 DEF Base, Original
    <3>3. TurnedBy(frames[1], Base)' = Base
      <4>1. Knob["src"] = "src"
        BY DEF Knob
      <4>2. /\ frames'[1].name = "src" /\ frames'[1].phase = "start" /\ frames'[1].at = 0
        BY <3>1, <2>2, <1>6
      <4>3. [Original EXCEPT ![Knob[frames'[1].name]] = frames'[1].at] = Base
        BY <4>1, <4>2, <3>2
      <4> QED BY <4>2, <4>3, <3>2 DEF TurnedBy
    <3> QED BY <3>3, <1>3, <1>6, <2>2 DEF KnobsMatch
  <2> QED BY <2>1, <2>2, <1>1
<1>11. Solved'
  BY <1>2, <1>3 DEF Inv, Solved, Converges
<1>12. BypassAsked' /\ ForcedBypassFits' /\ StepsContinueFromLastGood' /\ NextStart'
  BY <1>2 DEF Inv, BypassAsked, ForcedBypassFits, StepsContinueFromLastGood, NextStart
<1>13. Continuing'
  BY <1>1, <1>2, <1>6 DEF Inv, Stack, Waiting, Continuing
<1>14. SlotsHold'
  <2>1. CASE Len(frames) = 2
    <3>1. /\ frames[2].name = "src" /\ frames[2].phase = "start" /\ ~frames[2].continuation
          /\ frames[2].slot = opt.levels + 1 /\ Under = opt.levels + 1
          /\ coreStates[opt.levels + 1] = EmptyState
      BY <2>1 DEF Inv, Stack, FrameFits, PhaseFits, Waiting, SlotsHold, Under
    <3>2. coreStates'[opt.levels + 1] = EmptyState
      BY <3>1, <1>1, <1>5
    <3> QED BY <3>1, <3>2, <2>1, <1>2, <1>6 DEF SlotsHold, SlotHolds
  <2>2. CASE Len(frames) = 1
    BY <2>2, <1>6 DEF SlotsHold
  <2> QED BY <2>1, <2>2, <1>1
<1>15. Trusted' => PointerFits'
  BY <1>2 DEF Trusted, PointerFits, Pointers
<1> QED BY <1>7, <1>8, <1>9, <1>10, <1>11, <1>12, <1>13, <1>14, <1>15 DEF Inv

\* How a run starts: with what it is given, from the last good point if the step of a
\* homotopy continues, with bypassed devices only if these are as the run before left them.
LEMMA HowRunsStart ==
    ASSUME Inv, pc = "call"
    PROVE  /\ StartOfRun \in Starts
           /\ Trusted /\ frames[1].continuation /\ frames[1].name # "initial"
              /\ StartOfRun.alive => StartOfRun.from = lastGood /\ lastGood.solves
           /\ StartOfRun.lastGood = lastGood
           /\ StartOfRun.bypass => /\ StartOfRun.mode \in {"previous", "continue"}
                                   /\ StartOfRun.mode = "previous" => StartOfRun.afterSuccess
<1> DEFINE how == [mode |-> "previous", from |-> solution, lastGood |-> lastGood,
                   bypass |-> requestForcedBypass, alive |-> TRUE,
                   afterSuccess |-> Converges(outcome)]
           s == coreStates[continueState]
           Good(st) ==
             /\ st \in Starts
             /\ Trusted /\ frames[1].continuation /\ frames[1].name # "initial"
                /\ st.alive => st.from = lastGood /\ lastGood.solves
             /\ st.lastGood = lastGood
             /\ st.bypass => /\ st.mode \in {"previous", "continue"}
                             /\ st.mode = "previous" => st.afterSuccess
<1>1. frames # <<>>
  BY DEF Inv, Stack
<1>2. Running = frames[1] /\ frames[1] \in Frames
  BY <1>1, RunningFrame
<1>3. /\ solution \in Solutions /\ lastGood \in Solutions /\ requestForcedBypass \in BOOLEAN
      /\ outcome \in Outcomes /\ coreStates \in Seq(States) /\ allowBypass \in BOOLEAN
      /\ requestForcedBypass => frames[1].continuation /\ Converges(outcome)
      /\ opt \in Settings
  BY DEF Inv, Types, BypassAsked
<1>4. NoSolution \in Solutions
  BY KnobTypes DEF NoSolution, Solutions
<1>5. Converges(outcome) \in BOOLEAN
  BY DEF Converges
<1>6. Alive => s \in States /\ s.solution \in Solutions
  <2>1. Alive => s \in States
    BY <1>3, LenProperties, ElementOfSeq DEF Alive
  <2>2. \A st \in States : st.solution \in Solutions
    BY DEF States
  <2> QED BY <2>1, <2>2
<1>7. Trusted /\ frames[1].continuation /\ frames[1].name # "initial" =>
          StartsWell(frames[1], continueState, coreStates)
  BY DEF Inv, NextStart
<1>8. Good(OpStart)
  <2>1. CASE ~frames[1].continuation
    <3>1. OpStart = [how EXCEPT !.mode = "standard", !.from = NoSolution]
      BY <2>1, <1>2 DEF OpStart
    <3> QED BY <3>1, <2>1, <1>3, <1>4, <1>5 DEF Starts
  <2>2. CASE frames[1].continuation /\ continueState = 0
    <3>1. OpStart = how
      BY <2>2, <1>2 DEF OpStart
    <3> QED BY <3>1, <2>2, <1>3, <1>5, <1>7 DEF Starts, StartsWell
  <2>3. CASE frames[1].continuation /\ continueState # 0 /\ ~Alive
    <3>1. OpStart = [how EXCEPT !.mode = "continue", !.from = NoSolution, !.alive = FALSE]
      BY <2>3, <1>2 DEF OpStart
    <3> QED BY <3>1, <1>3, <1>4, <1>5 DEF Starts
  <2>4. CASE frames[1].continuation /\ continueState # 0 /\ Alive
    <3>1. Trusted /\ frames[1].name # "initial" =>
             lastGood.solves /\ ((s = EmptyState /\ solution = lastGood) \/ s = Stored(lastGood))
      BY <2>4, <1>7 DEF StartsWell, Alive
    <3>2. CASE s.valid /\ s.coherent
      <4>1. OpStart = [how EXCEPT !.mode = "continue", !.from = s.solution, !.bypass = allowBypass]
        BY <2>4, <3>2, <1>2 DEF OpStart
      <4>2. Trusted /\ frames[1].name # "initial" => s.solution = lastGood
        BY <3>1, <3>2 DEF EmptyState, Stored
      <4> QED BY <4>1, <4>2, <3>1, <2>4, <1>3, <1>5, <1>6 DEF Starts
    <3>3. CASE s.valid /\ ~s.coherent
      <4>1. OpStart = [how EXCEPT !.mode = "forced", !.from = s.solution, !.bypass = FALSE]
        BY <2>4, <3>3, <1>2 DEF OpStart
      <4>2. Trusted /\ frames[1].name # "initial" => s.solution = lastGood
        BY <3>1, <3>3 DEF EmptyState, Stored
      <4> QED BY <4>1, <4>2, <3>1, <2>4, <1>3, <1>5, <1>6 DEF Starts
    <3>4. CASE ~s.valid
      <4>1. OpStart = how
        BY <2>4, <3>4, <1>2 DEF OpStart
      <4>2. Trusted /\ frames[1].name # "initial" => solution = lastGood
        BY <3>1, <3>4 DEF Stored
      <4> QED BY <4>1, <4>2, <3>1, <2>4, <1>3, <1>5 DEF Starts
    <3> QED BY <3>2, <3>3, <3>4
  <2> QED BY <2>1, <2>2, <2>3, <2>4
<1>9. Good(HBStart)
  BY <1>8 DEF HBStart, Starts
<1>10. StartOfRun = OpStart \/ StartOfRun = HBStart
  BY DEF StartOfRun
<1>11. Good(StartOfRun)
  BY <1>8, <1>9, <1>10
<1> QED BY <1>11

\* A run of the solver.
LEMMA RunKeeps ==
    ASSUME Inv, NEW o \in Outcomes, RunSolver(o)
    PROVE  Inv'
<1>1. pc = "call" /\ frames # <<>>
  BY DEF RunSolver, Inv, Stack
<1>2. Running = frames[1] /\ frames[1] \in Frames /\ FrameFits(frames[1]) /\ knobs \in Knobs
  BY <1>1, RunningFrame
<1>3. /\ UNCHANGED <<opt, todo, frames, knobs, coreStates, highWater, allowBypass, result, verdict>>
      /\ start' = StartOfRun /\ pc' = "returned" /\ outcome' = o /\ requestForcedBypass' = FALSE
      /\ continueState' = IF frames[1].continuation THEN 0 ELSE continueState
      /\ solution' = [solves |-> Converges(o), knobs |-> knobs]
      /\ lastGood' = IF Converges(o) THEN solution' ELSE lastGood
  BY <1>2 DEF RunSolver, store
<1>4. solution' \in Solutions /\ lastGood' \in Solutions
  <2>1. Converges(o) \in BOOLEAN
    BY DEF Converges
  <2> QED BY <2>1, <1>2, <1>3 DEF Inv, Types, Solutions
<1>5. Types'
  <2>1. start' \in Starts
    BY <1>1, <1>3, HowRunsStart
  <2>2. continueState' \in Int
    BY <1>3 DEF Inv, Types
  <2> QED BY <2>1, <2>2, <1>3, <1>4 DEF Inv, Types
<1>6. Stack'
  BY <1>1, <1>3 DEF Inv, Stack, FrameFits, PhaseFits, CountFits, AtFits, Steps, Spice3At, Spice3Gmin, Spice3SourceFactor,
       GminTarget, Waiting
<1>7. Slots' /\ KnobsMatch'
  BY <1>3 DEF Inv, Slots, Under, KnobsMatch, Base, TurnedBy
<1>8. Solved'
  BY <1>1, <1>3 DEF Inv, Solved
<1>9. BypassAsked' /\ ForcedBypassFits'
  BY <1>1, <1>3, HowRunsStart DEF BypassAsked, ForcedBypassFits
<1>10. Continuing'
  BY <1>1, <1>3 DEF Inv, Continuing
<1>11. SlotsHold'
  <2>1. Converges(outcome') = Converges(o)
    BY <1>3
  <2> QED BY <2>1, <1>1, <1>3 DEF Inv, SlotsHold, SlotHolds, Converges
<1>12. Trusted' => PointerFits' /\ NextStart'
  BY <1>1, <1>3 DEF Inv, Trusted, PointerFits, NextStart, Pointers
<1>13. StepsContinueFromLastGood'
  <2>1. Running' = frames[1]
    BY <1>2, <1>3 DEF Running
  <2> QED BY <2>1, <1>1, <1>3, HowRunsStart DEF StepsContinueFromLastGood, Trusted
<1> QED BY <1>5, <1>6, <1>7, <1>8, <1>9, <1>10, <1>11, <1>12, <1>13 DEF Inv

\* The values of the algorithms with a fixed number of steps. Source stepping ends at the
\* full sources.
LEMMA FixedSteps ==
    ASSUME opt \in Settings, NEW name \in {"spice3gmin", "spice3src"}, Steps(name) >= 1,
           NEW i \in Nat
    PROVE  /\ Spice3At(name, i) \in Int
           /\ name = "spice3src" /\ i = Steps(name) => Spice3At(name, i) = Full
<1>1. opt.gminsteps \in Nat /\ opt.srcsteps \in Nat
  BY Setting
<1>2. ASSUME NEW a \in Int, NEW b \in Nat \ {0}
      PROVE  a \div b \in Int
  OBVIOUS
<1>3. CASE name = "spice3src"
  <2>1. opt.srcsteps \in Nat \ {0} /\ Full \in Nat
    BY <1>1, <1>3, SourceAssumption DEF Steps
  <2>2. Spice3At(name, i) = (i * Full) \div opt.srcsteps /\ i * Full \in Int
    BY <1>3, <2>1 DEF Spice3At, Spice3SourceFactor
  <2>3. ASSUME NEW n \in Nat \ {0}, NEW m \in Nat
        PROVE  (n * m) \div n = m
    <3>1. n * m \in Int /\ n * m = m * n
      OBVIOUS
    <3> QED BY <3>1
  <2>4. i = opt.srcsteps => Spice3At(name, i) = Full
    BY <2>1, <2>2, <2>3
  <2> QED BY <1>2, <1>3, <2>1, <2>2, <2>4 DEF Steps
<1>4. CASE name = "spice3gmin"
  <2> DEFINE low  == GminTarget(name)
             high == AtMost(low + GminFactor * opt.gminsteps, MaxGmin)
  <2>1. opt.gminsteps \in Nat \ {0}
    BY <1>1, <1>4 DEF Steps
  <2>2. low \in Int /\ GminFactor \in Int /\ MaxGmin \in Int
    BY GminAssumption DEF GminTarget, Off
  <2>3. high \in Int
    BY <2>1, <2>2 DEF AtMost
  <2>4. (high - low) * i \in Int
    BY <2>2, <2>3
  <2>5. ((high - low) * i) \div opt.gminsteps \in Int
    BY <1>2, <2>1, <2>4
  <2>6. Spice3At(name, i) = high - ((high - low) * i) \div opt.gminsteps
    BY <1>4 DEF Spice3At, Spice3Gmin
  <2> HIDE DEF low, high
  <2> QED BY <1>4, <2>3, <2>5, <2>6
<1> QED BY <1>3, <1>4

\* The sequence of one algorithm, alone or on top of another.
LEMMA OnTop ==
    ASSUME NEW S, NEW f \in S
    PROVE  /\ <<f>> \o <<>> \in Seq(S) /\ Len(<<f>> \o <<>>) = 1 /\ (<<f>> \o <<>>)[1] = f
           /\ <<f>> \o <<>> # <<>>
           /\ \A g \in S : /\ <<f>> \o <<g>> \in Seq(S) /\ Len(<<f>> \o <<g>>) = 2
                           /\ <<f>> \o <<g>> # <<>>
                           /\ (<<f>> \o <<g>>)[1] = f /\ (<<f>> \o <<g>>)[2] = g
OBVIOUS

\* A frame as it is made.
LEMMA NewFrame ==
    ASSUME NEW name \in Algorithms \cup {"initial"}, NEW slot \in Nat, NEW at \in Int,
           NEW factor \in Int
    PROVE  Frame(name, slot, at, factor) \in Frames
<1>1. ASSUME NEW c \in Nat, NEW g \in Int, NEW b \in BOOLEAN,
             NEW p \in {"start", "step", "final"}, NEW a \in Seq(STRING)
      PROVE  [name |-> name, slot |-> slot, at |-> at, good |-> g, factor |-> factor, count |-> c,
              continuation |-> b, phase |-> p, alternatives |-> a] \in Frames
  BY DEF Frames
<1>2. /\ <<>> \in Seq(STRING) /\ 0 \in Int /\ 0 \in Nat /\ FALSE \in BOOLEAN
      /\ "step" \in {"start", "step", "final"}
  OBVIOUS
<1>3. [name |-> name, slot |-> slot, at |-> at, good |-> 0, factor |-> factor, count |-> 0,
       continuation |-> FALSE, phase |-> "step", alternatives |-> <<>>] \in Frames
  BY <1>1, <1>2
<1> QED BY <1>3, Zenon DEF Frame

\* The frame an algorithm starts with.
LEMMA FirstFrameFits ==
    ASSUME opt \in Settings, NEW name \in Algorithms, Steps(name) >= 1, NEW slot \in Nat
    PROVE  LET f  == FirstFrame(name, slot)
               at == FirstAt(name)
           IN  /\ FrameFits(f) /\ f \in Frames /\ at \in Int
               /\ f.name = name /\ f.slot = slot /\ f.at = at /\ ~f.continuation
               /\ f.phase = IF name = "src" THEN "start" ELSE "step"
<1> DEFINE at    == FirstAt(name)
           fresh == Frame(name, slot, at, IF name = "src" THEN SrcStep ELSE GminFactor)
           f     == FirstFrame(name, slot)
<1>1. at \in Int
  <2>1. CASE name \in {"gdev", "gshunt", "src"}
    BY <2>1, GminAssumption DEF FirstAt
  <2>2. CASE name \in {"spice3gmin", "spice3src"}
    BY <2>2, FixedSteps DEF FirstAt
  <2> QED BY <2>1, <2>2 DEF Algorithms
<1> DEFINE factor == IF name = "src" THEN SrcStep ELSE GminFactor
<1>2. factor \in Int
  BY GminAssumption, SourceAssumption
<1>3. opt.op_srchomotopy \in Seq(STRING) /\ Steps(name) \in Nat
  BY Setting
<1>4. <<>> \in Seq(STRING)
  OBVIOUS
<1>5. fresh = [name |-> name, slot |-> slot, at |-> at, good |-> 0, factor |-> factor, count |-> 0,
               continuation |-> FALSE, phase |-> "step", alternatives |-> <<>>]
  BY DEF Frame
<1>11. f = IF name = "src"
           THEN [fresh EXCEPT !.phase = "start", !.alternatives = opt.op_srchomotopy]
           ELSE fresh
  BY DEF FirstFrame
<1> HIDE DEF factor, at, fresh, f
<1>6. /\ f.name = name /\ f.slot = slot /\ f.at = at /\ ~f.continuation /\ f.count = 0
      /\ f.phase = IF name = "src" THEN "start" ELSE "step"
  BY <1>5, <1>11
<1>12. /\ name = "src" => at = 0
       /\ name = "spice3src" => at = Spice3At("spice3src", 0)
  BY DEF at, FirstAt
<1>7. f \in Frames
  <2>1. fresh \in Frames
    BY <1>1, <1>2, NewFrame DEF fresh, factor
  <2>2. ASSUME NEW g \in Frames, NEW a \in Seq(STRING)
        PROVE  [g EXCEPT !.phase = "start", !.alternatives = a] \in Frames
    BY DEF Frames
  <2>3. CASE name = "src"
    BY <2>1, <2>2, <2>3, <1>3, <1>11
  <2>4. CASE name # "src"
    BY <2>1, <2>4, <1>11
  <2> QED BY <2>3, <2>4
<1>8. PhaseFits(f)
  BY <1>6, <1>12 DEF PhaseFits, Algorithms
<1>9. CountFits(f)
  BY <1>3, <1>6 DEF CountFits, Algorithms
<1>10. AtFits(f)
  BY <1>6, <1>12, SourceAssumption DEF AtFits
<1> QED BY <1>1, <1>6, <1>7, <1>8, <1>9, <1>10 DEF FrameFits, f, at

\* An algorithm begins, alone or while source stepping waits for it.
LEMMA StartKeeps ==
    ASSUME Inv, NEW name \in Algorithms, Steps(name) >= 1, NEW rest, Start(name, rest),
           todo' \in Seq(STRING),
           \/ pc = "try" /\ rest = <<>>
           \/ /\ pc \in {"returned", "result"} /\ Len(frames) = 1
              /\ frames[1].name = "src" /\ frames[1].phase = "start"
              /\ name \in {"gdev", "gshunt", "spice3gmin"}
              /\ \E w \in Frames : rest = <<w>> /\ FrameFits(w) /\ Waiting(w)
    PROVE  Inv'
<1> DEFINE below == IF rest = <<>> THEN opt.levels ELSE opt.levels + 1
           slotted == name \in {"gdev", "gshunt", "src"}
           slot    == IF slotted THEN Len(coreStates) + 1 ELSE 0
           at      == FirstAt(name)
           f       == FirstFrame(name, slot)
<1>1. /\ opt \in Settings /\ opt.levels \in {0, 1} /\ coreStates \in Seq(States)
      /\ Len(coreStates) \in Nat /\ highWater \in Nat /\ continueState \in Int
      /\ frames \in Seq(Frames)
  BY Setting DEF Inv, Types, Stack
<1>2. slot \in Nat
  BY <1>1
<1>3. /\ FrameFits(f) /\ f \in Frames /\ at \in Int
      /\ f.name = name /\ f.slot = slot /\ f.at = at /\ ~f.continuation
      /\ f.phase = IF name = "src" THEN "start" ELSE "step"
  BY <1>1, <1>2, FirstFrameFits
<1>4. /\ frames' = <<f>> \o rest /\ knobs' = [knobs EXCEPT ![Knob[name]] = at]
      /\ coreStates' = IF slotted THEN Append(coreStates, EmptyState) ELSE coreStates
      /\ highWater' = AtLeast(highWater, Len(coreStates'))
      /\ continueState' = Gone \/ continueState' = continueState
      /\ pc' = "call"
      /\ UNCHANGED <<opt, solution, start, outcome, lastGood, allowBypass, result, verdict>>
      /\ requestForcedBypass' = (requestForcedBypass /\ name = "src")
  BY DEF Start, solver, Turned
<1> HIDE DEF f, at, slot
<1>5. requestForcedBypass = FALSE
  BY DEF Inv, BypassAsked, Types
<1>6. /\ rest = <<>> \/ \E w \in Frames : rest = <<w>> /\ FrameFits(w) /\ Waiting(w)
      /\ rest # <<>> => name \in {"gdev", "gshunt", "spice3gmin"}
  OBVIOUS
<1>7. /\ frames' \in Seq(Frames) /\ frames' # <<>> /\ frames'[1] = f
      /\ rest = <<>> => Len(frames') = 1
      /\ rest # <<>> => /\ Len(frames') = 2 /\ frames'[2] \in Frames
                        /\ FrameFits(frames'[2]) /\ Waiting(frames'[2])
  <2>1. CASE rest = <<>>
    BY <2>1, <1>3, <1>4, OnTop
  <2>2. CASE rest # <<>>
    <3>1. PICK w \in Frames : rest = <<w>> /\ FrameFits(w) /\ Waiting(w)
      BY <2>2, <1>6
    <3> QED BY <2>2, <3>1, <1>3, <1>4, OnTop
  <2> QED BY <2>1, <2>2
<1>8. Len(coreStates) = below
  <2>1. CASE pc = "try" /\ rest = <<>>
    BY <2>1 DEF Inv, Stack, Slots
  <2>2. CASE rest # <<>> /\ Len(frames) = 1 /\ frames[1].name = "src"
    <3>1. frames # <<>>
      BY <2>2, <1>1, OneElement
    <3> QED BY <2>2, <3>1 DEF Inv, Slots, Under, Slotted
  <2>3. rest # <<>> => Len(frames) = 1 /\ frames[1].name = "src"
    OBVIOUS
  <2> QED BY <2>1, <2>2, <2>3
<1>9. knobs = (IF rest = <<>> THEN Original ELSE [Original EXCEPT !["src"] = 0])
  <2>1. CASE pc = "try" /\ rest = <<>>
    BY <2>1 DEF Inv, Stack, KnobsMatch
  <2>2. CASE rest # <<>>
    <3>1. Len(frames) = 1 /\ frames[1].name = "src" /\ frames[1].phase = "start"
      BY <2>2
    <3>2. frames # <<>>
      BY <3>1, <1>1, OneElement
    <3>3. frames[1].at = 0 /\ Base = Original /\ Knob["src"] = "src"
      BY <3>1, <3>2 DEF Inv, Stack, FrameFits, PhaseFits, Base, Knob
    <3>4. knobs = TurnedBy(frames[1], Original)
      BY <3>2, <3>3 DEF Inv, KnobsMatch
    <3>5. TurnedBy(frames[1], Original) = [Original EXCEPT !["src"] = 0]
      BY <3>1, <3>3 DEF TurnedBy
    <3> QED BY <2>2, <3>4, <3>5
  <2> QED BY <2>1, <2>2
<1>10. EmptyState \in States
  BY KnobTypes DEF EmptyState, States, NoSolution, Solutions
<1>11. /\ coreStates' \in Seq(States)
       /\ Len(coreStates') = IF slotted THEN below + 1 ELSE below
       /\ slotted => coreStates'[below + 1] = EmptyState
       /\ \A i \in 1 .. below : coreStates'[i] = coreStates[i]
  BY <1>1, <1>4, <1>8, <1>10, SMTT(30)
<1>12. slot = IF slotted THEN below + 1 ELSE 0
  BY <1>8 DEF slot
<1>13. Under' = below /\ Base' = knobs
  BY <1>4, <1>7, <1>9 DEF Under, Base, Original
<1>14. Types'
  <2>1. highWater' \in Nat /\ Len(coreStates') <= highWater' /\ continueState' \in Int
    BY <1>1, <1>4, <1>11 DEF AtLeast, Gone
  <2> QED BY <2>1, <1>4, <1>5, <1>11 DEF Inv, Types
<1>15. Stack'
  <2>1. Len(frames') = 2 => name \in {"gdev", "gshunt", "spice3gmin"}
    BY <1>6, <1>7
  <2> QED BY <2>1, <1>3, <1>4, <1>6, <1>7 DEF Stack, FrameFits, PhaseFits, CountFits, AtFits, Steps, Spice3At, Spice3Gmin,
       Spice3SourceFactor,
       GminTarget, Waiting
<1>16. Slots'
  BY <1>3, <1>7, <1>11, <1>12, <1>13 DEF Slots, Slotted
<1>17. KnobsMatch'
  <2>1. TurnedBy(f, knobs) = [knobs EXCEPT ![Knob[name]] = at]
    BY <1>3 DEF TurnedBy, Algorithms
  <2>2. TurnedBy(frames[1], Base)' = TurnedBy(f, knobs)
    BY <1>7, <1>13 DEF TurnedBy
  <2> QED BY <2>1, <2>2, <1>4, <1>7 DEF KnobsMatch
<1>18. Solved'
  BY <1>4 DEF Inv, Solved, Converges
<1>19. BypassAsked' /\ ForcedBypassFits' /\ StepsContinueFromLastGood'
  BY <1>4, <1>5 DEF Inv, BypassAsked, ForcedBypassFits, StepsContinueFromLastGood
<1>20. Continuing'
  BY <1>3, <1>4, <1>7 DEF Continuing, Algorithms
<1>21. SlotsHold'
  <2>1. rest # <<>> => coreStates'[opt.levels + 1] = EmptyState
    <3> SUFFICES ASSUME rest # <<>> PROVE coreStates'[opt.levels + 1] = EmptyState
      OBVIOUS
    <3>1. Len(frames) = 1 /\ frames[1].name = "src" /\ frames[1].phase = "start" /\ frames # <<>>
      BY <1>1, OneElement
    <3>2. coreStates[frames[1].slot] = EmptyState /\ frames[1].slot = opt.levels + 1
      BY <3>1 DEF Inv, SlotsHold, SlotHolds, Slots, Under, Slotted, Stack, FrameFits, PhaseFits
    <3>3. below = opt.levels + 1 /\ opt.levels + 1 \in 1 .. below
      BY <1>1
    <3> QED BY <3>2, <3>3, <1>11
  <2>2. f.name \in Slotted => SlotHolds(f, coreStates')
    BY <1>3, <1>11, <1>12 DEF Slotted, SlotHolds
  <2>3. /\ Len(frames') = 2 => rest # <<>>
        /\ frames'[1] = f /\ lastGood' = lastGood /\ opt' = opt
    BY <1>4, <1>7
  <2> QED BY <2>1, <2>2, <2>3 DEF SlotsHold, SlotHolds
<1>22. Trusted' => PointerFits' /\ NextStart'
  BY <1>3, <1>4, <1>7 DEF Inv, Stack, Trusted, PointerFits, NextStart, Pointers
<1> QED BY <1>14, <1>15, <1>16, <1>17, <1>18, <1>19, <1>20, <1>21, <1>22 DEF Inv

-----------------------------------------------------------------------------
(* Init, and the steps from one algorithm to the next                      *)

\* The invariant holds initially.
LEMMA InvInit == Init => Inv
<1> SUFFICES ASSUME Init PROVE Inv
  OBVIOUS
<1> USE DEF Init
<1>1. opt.levels \in {0, 1} /\ opt.levels \in Nat
  BY Setting
<1>2. NoSolution \in Solutions /\ EmptyState \in States
  BY KnobTypes DEF NoSolution, Solutions, EmptyState, States
<1>3. coreStates \in Seq(States) /\ Len(coreStates) = opt.levels
  BY <1>1, <1>2
<1>4. NoStart \in Starts
  BY <1>2 DEF NoStart, Starts
<1>9. <<>> \in Seq(STRING) /\ <<>> \in Seq(Frames) /\ Len(<<>>) = 0
  OBVIOUS
<1>10. highWater \in Nat /\ Len(coreStates) <= highWater
  BY <1>1, <1>3
<1>11. solution \in Solutions /\ lastGood \in Solutions /\ start \in Starts
  BY <1>2, <1>4
<1>13. todo \in Seq(STRING) /\ opt \in Settings
  BY <1>9
<1>14. pc = "idle" /\ continueState = 0 /\ outcome = "failed" /\ result = "failed" /\ verdict = "none"
       /\ requestForcedBypass = FALSE /\ allowBypass = FALSE
  OBVIOUS
<1>5. Types
  <2> HIDE DEF Init
  <2>1. pc \in {"idle", "try", "call", "returned", "result"} /\ continueState \in Int
    BY <1>14
  <2>2. requestForcedBypass \in BOOLEAN /\ allowBypass \in BOOLEAN
    BY <1>14
  <2>3. /\ outcome \in Outcomes /\ result \in {"converged", "failed", "leave"}
        /\ verdict \in {"none", "Finished", "Aborted"}
    BY <1>14 DEF Outcomes
  <2> QED BY <1>3, <1>10, <1>11, <1>13, <2>1, <2>2, <2>3, Zenon DEF Types
<1>12. frames = <<>> /\ knobs = Original /\ pc = "idle"
  OBVIOUS
<1>6. Stack /\ Slots /\ KnobsMatch
  <2>1. Len(frames) = 0 /\ frames \in Seq(Frames)
    BY <1>9, <1>12
  <2> USE DEF Init
  <2>2. Stack
    BY <2>1, <1>12 DEF Stack
  <2>3. Slots
    BY <1>3, <1>12 DEF Slots
  <2>4. KnobsMatch
    BY <1>12 DEF KnobsMatch
  <2> QED BY <2>2, <2>3, <2>4
<1>7. Solved /\ BypassAsked /\ Continuing /\ SlotsHold
  BY DEF Solved, Converges, BypassAsked, Continuing, SlotsHold
<1>8. ForcedBypassFits /\ StepsContinueFromLastGood /\ PointerFits /\ NextStart
  BY DEF ForcedBypassFits, StepsContinueFromLastGood, NoStart, PointerFits, NextStart
<1> QED BY <1>5, <1>6, <1>7, <1>8 DEF Inv

\* The driver calls the core.
LEMMA InvokeKeeps ==
    ASSUME Inv, NEW rebuilt \in BOOLEAN, NEW bypass \in BOOLEAN, Invoke(rebuilt, bypass)
    PROVE  Inv'
<1> DEFINE continuing == coreStates' # <<>> /\ coreStates'[1].valid
           first == [Frame("initial", 0, 0, 0) EXCEPT !.continuation = continuing, !.phase = "final"]
<1>1. /\ opt \in Settings /\ opt.levels \in {0, 1} /\ coreStates \in Seq(States)
      /\ solution \in Solutions /\ frames = <<>> /\ Len(coreStates) = opt.levels
      /\ Len(coreStates) <= highWater /\ highWater \in Nat /\ knobs = Original
      /\ opt.op_homotopy \in Seq(STRING)
  BY Setting DEF Inv, Types, Stack, Slots, KnobsMatch, Invoke
<1>2. /\ pc = "idle" /\ coreStates' = SweepStates(rebuilt)
      /\ highWater' = IF verdict = "Finished" THEN highWater ELSE opt.levels
      /\ continueState' = IF continuing THEN 1 ELSE IF verdict = "Finished" THEN continueState ELSE 0
      /\ IF opt.skipinitial THEN pc' = "try" /\ frames' = <<>> ELSE pc' = "call" /\ frames' = <<first>>
      /\ allowBypass' = bypass /\ requestForcedBypass' = FALSE /\ todo' = opt.op_homotopy
      /\ lastGood' = NoSolution /\ verdict' = "none"
      /\ UNCHANGED <<opt, knobs, solution, start, outcome, result>>
  BY DEF Invoke
<1>3. NoSolution \in Solutions /\ EmptyState \in States
  BY KnobTypes DEF NoSolution, Solutions, EmptyState, States
<1>4. coreStates' \in Seq(States) /\ Len(coreStates') = opt.levels
  <2>1. CASE verdict = "Finished"
    <3>1. coreStates' = [i \in 1 .. opt.levels |-> [Stored(solution) EXCEPT !.coherent = ~rebuilt]]
      BY <1>1, <1>2, <2>1, LenProperties DEF SweepStates
    <3>2. [Stored(solution) EXCEPT !.coherent = ~rebuilt] \in States
      BY <1>1 DEF Stored, States
    <3> QED BY <3>1, <3>2, <1>1
  <2>2. CASE verdict # "Finished"
    BY <1>1, <1>2, <1>3, <2>2 DEF SweepStates
  <2> QED BY <2>1, <2>2
<1>5. continuing \in BOOLEAN
  BY <1>4 DEF States
<1> HIDE DEF continuing
<1>6. Frame("initial", 0, 0, 0)
         = [name |-> "initial", slot |-> 0, at |-> 0, good |-> 0, factor |-> 0, count |-> 0,
            continuation |-> FALSE, phase |-> "step", alternatives |-> <<>>]
  BY DEF Frame
<1>7. first \in Frames
  <2>2. Frame("initial", 0, 0, 0) \in Frames
    BY NewFrame
  <2>3. ASSUME NEW f \in Frames, NEW b \in BOOLEAN
        PROVE  [f EXCEPT !.continuation = b, !.phase = "final"] \in Frames
    BY DEF Frames
  <2> QED BY <1>5, <2>2, <2>3
<1>8. /\ first.name = "initial" /\ first.slot = 0 /\ first.count = 0 /\ first.phase = "final"
      /\ first.continuation = continuing
  BY <1>6
<1> HIDE DEF first
<1>9. ~opt.skipinitial => /\ frames' \in Seq(Frames) /\ Len(frames') = 1 /\ frames' # <<>>
                          /\ frames'[1] = first
  <2>1. ASSUME NEW s, s = <<first>>
        PROVE  s \in Seq(Frames) /\ Len(s) = 1 /\ s # <<>> /\ s[1] = first
    BY <2>1, <1>7
  <2> QED BY <2>1, <1>2
<1>19. <<>> \in Seq(Frames) /\ Len(<<>>) = 0
  OBVIOUS
<1>10. FrameFits(first)
  BY <1>7, <1>8 DEF FrameFits, PhaseFits, CountFits, AtFits, Slotted
<1>11. verdict = "Finished" => continueState = 0
  BY DEF Inv, Solved, Converges
<1>12. ~continuing => continueState' = 0
  BY <1>2, <1>11
<1>13. Types'
  <2>1. highWater' \in Nat /\ Len(coreStates') <= highWater' /\ continueState' \in Int
    BY <1>1, <1>2, <1>4, <1>12
  <2> QED BY <2>1, <1>1, <1>2, <1>3, <1>4 DEF Inv, Types
<1>14. Stack'
  <2>1. CASE opt.skipinitial
    <3>1. frames' = <<>> /\ frames' \in Seq(Frames) /\ Len(frames') = 0 /\ pc' = "try"
      BY <2>1, <1>2, <1>19
    <3> QED BY <3>1 DEF Stack
  <2>2. CASE ~opt.skipinitial
    <3>1. /\ frames' \in Seq(Frames) /\ Len(frames') = 1 /\ frames' # <<>> /\ frames'[1] = first
          /\ pc' = "call"
      BY <2>2, <1>2, <1>9
    <3>2. FrameFits(frames[1])'
      BY <3>1, <1>2, <1>10 DEF FrameFits, PhaseFits, CountFits, AtFits, Steps, Spice3At, Spice3Gmin, Spice3SourceFactor, GminTarget
    <3> QED BY <3>1, <3>2 DEF Stack
  <2> QED BY <2>1, <2>2
<1>15. Slots' /\ KnobsMatch'
  <2>1. CASE opt.skipinitial
    BY <2>1, <1>1, <1>2, <1>4 DEF Slots, KnobsMatch
  <2>2. CASE ~opt.skipinitial
    <3>1. Slots'
      BY <2>2, <1>2, <1>4, <1>8, <1>9, SMTT(30) DEF Slots, Under, Slotted
    <3>2. KnobsMatch'
      BY <2>2, <1>1, <1>2, <1>8, <1>9 DEF KnobsMatch, TurnedBy, Base
    <3> QED BY <3>1, <3>2
  <2> QED BY <2>1, <2>2
<1>16. Solved' /\ BypassAsked' /\ ForcedBypassFits' /\ StepsContinueFromLastGood'
  BY <1>2 DEF Inv, Solved, BypassAsked, ForcedBypassFits, StepsContinueFromLastGood
<1>17. Continuing' /\ SlotsHold'
  <2>1. CASE opt.skipinitial
    BY <2>1, <1>2 DEF Continuing, SlotsHold
  <2>2. CASE ~opt.skipinitial
    BY <2>2, <1>2, <1>8, <1>9, <1>12 DEF Continuing, SlotsHold, Slotted
  <2> QED BY <2>1, <2>2
<1>18. Trusted' => PointerFits' /\ NextStart'
  <2>1. CASE opt.skipinitial
    <3> SUFFICES ASSUME Trusted' PROVE PointerFits' /\ NextStart'
      OBVIOUS
    <3>1. opt.levels = 0
      BY <2>1, <1>1, <1>2 DEF Trusted
    <3>2. ~continuing
      BY <3>1, <1>4 DEF continuing
    <3> QED BY <3>2, <2>1, <1>2, <1>12 DEF PointerFits, NextStart, Pointers
  <2>2. CASE ~opt.skipinitial
    BY <2>2, <1>2, <1>8, <1>9, <1>12 DEF PointerFits, NextStart, Pointers
  <2> QED BY <2>1, <2>2
<1> QED BY <1>13, <1>14, <1>15, <1>16, <1>17, <1>18 DEF Inv

\* What no run, no knob and no slot takes part in: the loop over the algorithms, and the end.
LEMMA LoopKeeps ==
    ASSUME Inv,
           UNCHANGED <<opt, frames, knobs, solution, start, outcome, lastGood, coreStates, highWater,
                       continueState, requestForcedBypass, allowBypass, result>>,
           frames = <<>>,
           todo' \in Seq(STRING),
           pc # "idle",
           \/ pc' = "try" /\ verdict' = verdict
           \/ pc' = "idle" /\ verdict' = "Aborted"
           \/ pc' = "idle" /\ verdict' = "Finished" /\ pc = "result" /\ result = "converged"
    PROVE  Inv'
<1>1. Types'
  BY DEF Inv, Types
<1>2. Stack' /\ Slots' /\ KnobsMatch'
  BY DEF Inv, Stack, Slots, KnobsMatch
<1>3. knobs = Original /\ verdict = "none"
  BY DEF Inv, KnobsMatch, Solved
<1>4. Solved'
  BY <1>3 DEF Inv, Solved, Converges
<1>5. BypassAsked' /\ Continuing' /\ SlotsHold' /\ NextStart'
  BY DEF Inv, Stack, BypassAsked, Continuing, SlotsHold, NextStart
<1>6. ForcedBypassFits' /\ StepsContinueFromLastGood'
  BY DEF Inv, ForcedBypassFits, StepsContinueFromLastGood
<1>7. Trusted' => PointerFits'
  BY DEF Inv, Stack, Trusted, PointerFits, Pointers
<1> QED BY <1>1, <1>2, <1>4, <1>5, <1>6, <1>7 DEF Inv

-----------------------------------------------------------------------------
(* The steps of the algorithms                                             *)

\* What is known when the run of the innermost algorithm has returned.
LEMMA AfterRun ==
    ASSUME Inv, pc = "returned"
    PROVE  /\ frames # <<>> /\ Running = frames[1] /\ FrameFits(frames[1]) /\ frames[1] \in Frames
           /\ Converges(outcome) => lastGood = solution /\ lastGood.solves
           /\ requestForcedBypass = FALSE
           /\ continueState \in Int /\ opt \in Settings /\ solution \in Solutions
           /\ coreStates \in Seq(States) /\ Len(coreStates) \in Nat
           /\ opt.levels \in {0, 1}
           /\ Len(frames) = 1 => Under = opt.levels
           /\ Len(frames) = 2 => Under = opt.levels + 1
           /\ Len(frames) \in {1, 2}
           /\ Trusted => continueState \in Pointers
<1>1. frames # <<>>
  BY DEF Inv, Stack
<1>2. Running = frames[1] /\ FrameFits(frames[1]) /\ frames[1] \in Frames /\ Len(frames) \in {1, 2}
  BY <1>1, RunningFrame
<1>3. Converges(outcome) => lastGood = solution /\ lastGood.solves
  BY DEF Inv, Solved
<1>4. opt.levels \in {0, 1}
  BY Setting DEF Inv, Types
<1>5. /\ Len(frames) = 1 => Under = opt.levels
      /\ Len(frames) = 2 => Under = opt.levels + 1
  BY DEF Under
<1>6. Trusted => continueState \in Pointers
  BY DEF Inv, PointerFits
<1> QED BY <1>1, <1>2, <1>3, <1>4, <1>5, <1>6, LenProperties DEF Inv, Types, BypassAsked

\* The slot of the innermost algorithm, and what is below of it.
LEMMA OwnSlot ==
    ASSUME Inv, pc = "returned", frames[1].name \in Slotted
    PROVE  /\ frames[1].slot = Under + 1 /\ Len(coreStates) = Under + 1
           /\ frames[1].slot \in 1 .. Len(coreStates) /\ frames[1].slot # 0
           /\ Len(frames) = 2 => /\ opt.levels + 1 \in 1 .. Len(coreStates)
                                 /\ opt.levels + 1 # frames[1].slot
                                 /\ coreStates[opt.levels + 1] = EmptyState
<1>1. /\ frames[1].slot = Under + 1 /\ Len(coreStates) = Under + 1
  BY AfterRun DEF Inv, Slots
<1>2. /\ opt.levels \in {0, 1} /\ Under \in {opt.levels, opt.levels + 1}
      /\ Len(frames) = 2 => Under = opt.levels + 1
  BY AfterRun
<1>3. Len(frames) = 2 => coreStates[opt.levels + 1] = EmptyState
  BY DEF Inv, SlotsHold
<1>4. \A u \in Int, n, l \in {0, 1} :
         /\ u \in {l, l + 1} => u + 1 \in 1 .. u + 1 /\ u + 1 # 0
         /\ u = l + 1 => l + 1 \in 1 .. u + 1 /\ l + 1 # u + 1
  OBVIOUS
<1>5. Under \in Int
  BY <1>2
<1> QED BY <1>1, <1>2, <1>3, <1>4, <1>5

\* The good point put into the slot of the innermost algorithm.
LEMMA StoredSlot ==
    ASSUME Inv, pc = "returned", frames[1].name \in Slotted, Converges(outcome)
    PROVE  LET stored == StoredIn(frames[1].slot)
           IN  /\ stored \in Seq(States) /\ Len(stored) = Len(coreStates)
               /\ stored[frames[1].slot] = Stored(lastGood)
               /\ \A i \in 1 .. Len(coreStates) : i # frames[1].slot => stored[i] = coreStates[i]
<1>1. /\ coreStates \in Seq(States) /\ solution \in Solutions /\ lastGood = solution
  BY AfterRun
<1>2. frames[1].slot \in 1 .. Len(coreStates)
  BY OwnSlot
<1>3. Stored(solution) \in States
  BY <1>1 DEF Stored, States
<1> QED BY <1>1, <1>2, <1>3, ExceptSeq DEF StoredIn

\* A step after one that converged starts from the solution vector: nothing that it would
\* be restored from holds another point.
LEMMA FromVector ==
    ASSUME Inv, pc = "returned", Converges(outcome), Trusted, NEW f, NEW states,
           frames[1].name # "initial",
           \/ states = coreStates
           \/ frames[1].name \in Slotted /\ states = StoredIn(frames[1].slot)
    PROVE  StartsWell(f, continueState, states)
<1>1. /\ lastGood = solution /\ lastGood.solves /\ frames # <<>>
      /\ continueState \in Pointers /\ opt.levels \in {0, 1} /\ Len(frames) \in {1, 2}
      /\ Len(frames) = 1 => Under = opt.levels
      /\ Len(frames) = 2 => Under = opt.levels + 1
      /\ coreStates \in Seq(States)
      /\ frames[1] \in Frames
  BY AfterRun
<1>2. CASE continueState = 0
  BY <1>1, <1>2 DEF StartsWell
<1>3. CASE continueState # 0
  <2>1. frames[1].continuation = FALSE
    BY <1>1, <1>3, FrameTypes DEF Inv, Continuing
  <2>2. continueState \in {Gone, opt.levels + 1, opt.levels + 2}
    BY <1>1, <1>3 DEF Pointers
  <2>3. Len(frames) = 2 => coreStates[opt.levels + 1] = EmptyState
    BY DEF Inv, SlotsHold
  <2>4. CASE frames[1].name \in Slotted
    <3>1. /\ frames[1].slot = Under + 1 /\ Len(coreStates) = Under + 1
          /\ frames[1].slot \in 1 .. Len(coreStates)
      BY <2>4, OwnSlot
    <3>2. coreStates[frames[1].slot] = EmptyState
      BY <2>1, <2>4, <1>1 DEF Inv, SlotsHold, SlotHolds
    <3>3. /\ states \in Seq(States) /\ Len(states) = Len(coreStates)
          /\ states[frames[1].slot] \in {EmptyState, Stored(lastGood)}
          /\ \A i \in 1 .. Len(coreStates) : i # frames[1].slot => states[i] = coreStates[i]
      BY <2>4, <3>2, <1>1, StoredSlot
    <3>4. DOMAIN states = 1 .. Len(coreStates)
      BY <3>3, LenProperties
    <3>5. CASE continueState = Gone
      BY <3>4, <3>5, <1>1 DEF StartsWell, Gone
    <3>6. CASE continueState = opt.levels + 2
      <4>1. continueState = frames[1].slot \/ continueState \notin DOMAIN states
        <5>1. Under = opt.levels \/ Under = opt.levels + 1
          BY <1>1
        <5> QED BY <5>1, <3>1, <3>4, <3>6, <1>1
      <4> QED BY <4>1, <3>3, <1>1 DEF StartsWell
    <3>7. CASE continueState = opt.levels + 1
      <4>1. CASE Len(frames) = 1
        <5>1. continueState = frames[1].slot
          BY <3>1, <3>7, <1>1, <4>1
        <5> QED BY <5>1, <3>3, <1>1 DEF StartsWell
      <4>2. CASE Len(frames) = 2
        <5>1. continueState # frames[1].slot /\ continueState \in 1 .. Len(coreStates)
          BY <3>1, <3>7, <1>1, <4>2
        <5>2. states[continueState] = EmptyState
          BY <5>1, <3>3, <3>7, <2>3, <4>2
        <5> QED BY <5>2, <1>1 DEF StartsWell
      <4> QED BY <4>1, <4>2, <1>1
    <3> QED BY <3>5, <3>6, <3>7, <2>2
  <2>5. CASE frames[1].name \notin Slotted
    <3>1. Len(coreStates) = Under /\ states = coreStates
      BY <2>5, <1>1 DEF Inv, Slots
    <3>2. DOMAIN states = 1 .. Under
      BY <3>1, <1>1, LenProperties
    <3>3. \/ continueState \notin DOMAIN states
          \/ continueState = opt.levels + 1 /\ Len(frames) = 2
      <4>1. CASE Len(frames) = 1
        <5>1. Under = opt.levels
          BY <4>1, <1>1
        <5> QED BY <5>1, <3>2, <2>2, <1>1 DEF Gone
      <4>2. CASE Len(frames) = 2
        <5>1. Under = opt.levels + 1
          BY <4>2, <1>1
        <5> QED BY <4>2, <5>1, <3>2, <2>2, <1>1 DEF Gone
      <4> QED BY <4>1, <4>2, <1>1
    <3> QED BY <3>1, <3>3, <2>3, <1>1 DEF StartsWell
  <2> QED BY <2>4, <2>5
<1> QED BY <1>2, <1>3

\* The step of the innermost algorithm is counted.
LEMMA CountedFrame ==
    ASSUME Inv, pc = "returned"
    PROVE  LET f == frames[1]
               c == Counted
           IN  /\ c \in Frames /\ c.count = f.count + 1 /\ c.name = f.name /\ c.slot = f.slot
               /\ c.at = f.at /\ c.good = f.good /\ c.factor = f.factor /\ c.phase = f.phase
               /\ c.continuation = f.continuation /\ c.alternatives = f.alternatives
<1>1. Running = frames[1] /\ frames[1] \in Frames
  BY AfterRun
<1>2. ASSUME NEW f \in Frames, NEW n \in Nat
      PROVE  LET c == [f EXCEPT !.count = n]
             IN  /\ c \in Frames /\ c.count = n /\ c.name = f.name /\ c.slot = f.slot
                 /\ c.at = f.at /\ c.good = f.good /\ c.factor = f.factor /\ c.phase = f.phase
                 /\ c.continuation = f.continuation /\ c.alternatives = f.alternatives
  BY DEF Frames
<1>3. frames[1].count + 1 \in Nat
  BY <1>1, FrameTypes
<1>4. Counted = [frames[1] EXCEPT !.count = frames[1].count + 1]
  BY <1>1 DEF Counted
<1> QED BY <1>1, <1>2, <1>3, <1>4

\* The knob of the innermost algorithm, turned to another value.
LEMMA TurnedAgain ==
    ASSUME Inv, frames # <<>>, frames[1].phase # "final", frames[1].name # "initial",
           NEW a \in Int
    PROVE  Turned(frames[1].name, a) = [Base EXCEPT ![Knob[frames[1].name]] = a]
<1>1. frames[1] \in Frames
  BY RunningFrame
<1>2. knobs = TurnedBy(frames[1], Base) /\ frames[1].name \in Algorithms
  BY <1>1, RunningFrame
<1>3. frames[1].at \in Int /\ Base \in Knobs
  BY <1>1, FrameTypes, KnobTypes
<1>4. knobs = [Base EXCEPT ![Knob[frames[1].name]] = frames[1].at]
  BY <1>2 DEF TurnedBy
<1>5. [[Base EXCEPT ![Knob[frames[1].name]] = frames[1].at] EXCEPT ![Knob[frames[1].name]] = a]
         = [Base EXCEPT ![Knob[frames[1].name]] = a]
  <2>1. Knob[frames[1].name] \in {"gdev", "gshunt", "src"}
    BY <1>2, <1>3, KnobTurned
  <2>2. Base \in [{"gdev", "gshunt", "src"} -> Int]
    BY <1>3, KnobTypes DEF Knobs
  <2> QED BY <2>1, <2>2
<1> QED BY <1>4, <1>5 DEF Turned

\* GminStepping::run() after a run that converged.
LEMMA GminConvergedKeeps == Inv /\ GminConverged => Inv'
<1> SUFFICES ASSUME Inv, GminConverged PROVE Inv'
  OBVIOUS
<1> DEFINE f0      == frames[1]
           f       == Counted
           target  == GminTarget(f.name)
           factor  == CASE outcome = "few"  -> AtMost((3 * f.factor) \div 2, MaxGminFactor)
                        [] outcome = "many" -> AtLeast(f.factor \div 2, MinGminFactor)
                        [] OTHER            -> f.factor
           reaches == f.at - factor < target
           at      == IF reaches THEN target ELSE f.at - factor
           fac     == IF reaches THEN f.at - target ELSE factor
           next    == [f EXCEPT !.continuation = TRUE, !.good = f.at, !.at = at, !.factor = fac]
           last    == [next EXCEPT !.phase = "final"]
<1>1. /\ pc = "returned" /\ Running.name \in {"gdev", "gshunt"} /\ Running.phase = "step"
      /\ Converges(outcome)
      /\ coreStates' = IF f.at <= target THEN coreStates ELSE StoredIn(f.slot)
      /\ IF f.at <= target \/ Exhausted(Running)
         THEN Continue(last, PutBack(f.name), TRUE)
         ELSE Continue(next, Turned(f.name, next.at), opt.contbypass)
      /\ continueState' = continueState
  BY DEF GminConverged, Returned
<1>2. /\ frames # <<>> /\ Running = f0 /\ FrameFits(f0) /\ f0 \in Frames
      /\ continueState \in Int /\ opt \in Settings /\ Len(frames) \in {1, 2}
      /\ Trusted => continueState \in Pointers
      /\ coreStates \in Seq(States) /\ lastGood.solves
  BY <1>1, AfterRun
<1>3. /\ f \in Frames /\ f.count = f0.count + 1 /\ f.name = f0.name /\ f.slot = f0.slot
      /\ f.at = f0.at /\ f.phase = "step"
  BY <1>1, <1>2, CountedFrame
<1>4. f.at \in Int /\ f.factor \in Int /\ f.good \in Int
  BY <1>3, FrameTypes
<1>5. target \in Int /\ MaxGminFactor \in Int /\ MinGminFactor \in Int
  BY GminAssumption DEF GminTarget, Off
<1> HIDE DEF f, target
<1>6. factor \in Int
  BY <1>4, <1>5 DEF AtMost, AtLeast
<1> HIDE DEF factor
<1>7. at \in Int /\ fac \in Int
  BY <1>4, <1>5, <1>6
<1>16. /\ next = [f EXCEPT !.continuation = TRUE, !.good = f.at, !.at = at, !.factor = fac]
       /\ last = [next EXCEPT !.phase = "final"]
  OBVIOUS
<1> HIDE DEF at, fac, next, last
<1>8. /\ next \in Frames /\ next.name = f0.name /\ next.slot = f0.slot /\ next.count = f0.count + 1
      /\ next.at = at /\ next.phase = "step" /\ next.continuation = TRUE
      /\ last \in Frames /\ last.name = f0.name /\ last.slot = f0.slot /\ last.count = f0.count + 1
      /\ last.phase = "final" /\ last.continuation = TRUE
  <2>1. /\ next \in Frames /\ next.name = f.name /\ next.slot = f.slot /\ next.count = f.count
        /\ next.at = at /\ next.phase = f.phase /\ next.continuation = TRUE
    BY <1>3, <1>4, <1>7, <1>16 DEF Frames
  <2>2. /\ last \in Frames /\ last.name = next.name /\ last.slot = next.slot
        /\ last.count = next.count /\ last.phase = "final" /\ last.continuation = TRUE
    BY <2>1, <1>16 DEF Frames
  <2> QED BY <2>1, <2>2, <1>3
<1>9. /\ f0.name \in {"gdev", "gshunt"} /\ f0.name \in Slotted /\ f0.phase = "step"
      /\ Steps(f0.name) \in Nat /\ f0.count \in Nat /\ f0.count + 1 <= Steps(f0.name)
      /\ Exhausted(f0) <=> f0.count + 1 >= Steps(f0.name)
  BY <1>1, <1>2, Setting, FrameTypes DEF Slotted, FrameFits, CountFits, Exhausted
<1>10. FrameFits(last)
  BY <1>8, <1>9 DEF FrameFits, PhaseFits, CountFits, AtFits, Slotted
<1>11. ~Exhausted(f0) => FrameFits(next)
  BY <1>8, <1>9 DEF FrameFits, PhaseFits, CountFits, AtFits, Slotted
<1>12. /\ coreStates' \in Seq(States) /\ Len(coreStates') = Len(coreStates)
       /\ Len(frames) = 2 => coreStates'[opt.levels + 1] = EmptyState
       /\ ~(f.at <= target) => coreStates'[f0.slot] = Stored(lastGood)
  BY <1>1, <1>2, <1>3, <1>9, OwnSlot, StoredSlot
<1>13. Trusted => \A g : StartsWell(g, continueState', coreStates')
  BY <1>1, <1>2, <1>3, <1>9, FromVector
<1>14. CASE f.at <= target \/ Exhausted(f0)
  <2>1. Continue(last, Base, TRUE)
    BY <1>1, <1>2, <1>3, <1>14, KnobPutBack
  <2>2. TurnedBy(last, Base) = Base
    BY <1>8 DEF TurnedBy
  <2>3. SlotHolds(last, coreStates')
    BY <1>8 DEF SlotHolds
  <2> QED BY <1>1, <1>2, <1>8, <1>9, <1>10, <1>12, <1>13, <2>1, <2>2, <2>3, ContinueKeeps
<1>15. CASE ~(f.at <= target \/ Exhausted(f0))
  <2>1. Continue(next, Turned(f0.name, at), opt.contbypass) /\ opt.contbypass \in BOOLEAN
    BY <1>1, <1>2, <1>3, <1>8, <1>15, Setting
  <2>2. TurnedBy(next, Base) = Turned(f0.name, at)
    BY <1>1, <1>2, <1>7, <1>8, <1>9, TurnedAgain DEF TurnedBy
  <2>3. SlotHolds(next, coreStates')
    BY <1>2, <1>8, <1>12, <1>15 DEF SlotHolds
  <2> QED BY <1>1, <1>2, <1>8, <1>9, <1>11, <1>12, <1>13, <1>15, <2>1, <2>2, <2>3, ContinueKeeps
<1> QED BY <1>14, <1>15

\* Where the state to continue from points after a failed step: to the slot of the
\* algorithm, when that has a good point.
LEMMA RestoredSlot ==
    ASSUME Inv, pc = "returned", frames[1].name \in Slotted
    PROVE  /\ Restored(frames[1].slot) \in Int
           /\ Trusted => Restored(frames[1].slot) \in Pointers
           /\ coreStates[frames[1].slot] = Stored(lastGood) =>
                 Restored(frames[1].slot) = frames[1].slot
<1>1. /\ continueState \in Int /\ (Trusted => continueState \in Pointers)
      /\ opt.levels \in {0, 1} /\ Under \in {opt.levels, opt.levels + 1}
  BY AfterRun
<1>2. frames[1].slot = Under + 1
  BY OwnSlot
<1>3. frames[1].slot \in {opt.levels + 1, opt.levels + 2} /\ frames[1].slot \in Int
  BY <1>1, <1>2
<1> QED BY <1>1, <1>3 DEF Restored, Pointers, Stored

\* GminStepping::run() after a run that failed.
LEMMA GminFailedKeeps == Inv /\ GminFailed => Inv'
<1> SUFFICES ASSUME Inv, GminFailed PROVE Inv'
  OBVIOUS
<1> DEFINE f0     == frames[1]
           f      == Counted
           factor == IF f.continuation THEN f.factor \div 4 ELSE f.factor
           at     == IF f.continuation THEN f.good ELSE f.at + factor
           giveUp == IF f.continuation THEN factor < MinGminFactor ELSE at > MaxGmin
           next   == [f EXCEPT !.factor = factor, !.at = at]
<1>1. /\ pc = "returned" /\ Running.name \in {"gdev", "gshunt"} /\ Running.phase = "step"
      /\ outcome = "failed"
      /\ continueState' = IF f.continuation /\ ~giveUp THEN Restored(f.slot) ELSE continueState
      /\ IF giveUp \/ Exhausted(Running)
         THEN Stop("failed")
         ELSE Continue(next, Turned(f.name, at), FALSE) /\ UNCHANGED coreStates
  BY DEF GminFailed, Returned
<1>2. /\ frames # <<>> /\ Running = f0 /\ FrameFits(f0) /\ f0 \in Frames
      /\ continueState \in Int /\ opt \in Settings /\ Len(frames) \in {1, 2}
      /\ Trusted => continueState \in Pointers
      /\ coreStates \in Seq(States)
  BY <1>1, AfterRun
<1>3. /\ f \in Frames /\ f.count = f0.count + 1 /\ f.name = f0.name /\ f.slot = f0.slot
      /\ f.at = f0.at /\ f.phase = "step" /\ f.continuation = f0.continuation
  BY <1>1, <1>2, CountedFrame
<1>4. f.at \in Int /\ f.factor \in Int /\ f.good \in Int
  BY <1>3, FrameTypes
<1> HIDE DEF f
<1>5. factor \in Int /\ at \in Int
  BY <1>4
<1>6. next = [f EXCEPT !.factor = factor, !.at = at]
  OBVIOUS
<1> HIDE DEF factor, at, giveUp, next
<1>7. /\ next \in Frames /\ next.name = f0.name /\ next.slot = f0.slot /\ next.count = f0.count + 1
      /\ next.at = at /\ next.phase = "step" /\ next.continuation = f0.continuation
  <2>1. /\ next \in Frames /\ next.name = f.name /\ next.slot = f.slot /\ next.count = f.count
        /\ next.at = at /\ next.phase = f.phase /\ next.continuation = f.continuation
    BY <1>3, <1>5, <1>6 DEF Frames
  <2> QED BY <2>1, <1>3
<1>8. /\ f0.name \in {"gdev", "gshunt"} /\ f0.name \in Slotted /\ f0.phase = "step"
      /\ Steps(f0.name) \in Nat /\ f0.count \in Nat /\ f0.count + 1 <= Steps(f0.name)
      /\ Exhausted(f0) <=> f0.count + 1 >= Steps(f0.name)
  BY <1>1, <1>2, Setting, FrameTypes DEF Slotted, FrameFits, CountFits, Exhausted
<1>9. ~Exhausted(f0) => FrameFits(next)
  BY <1>7, <1>8 DEF FrameFits, PhaseFits, CountFits, AtFits, Slotted
<1>10. SlotHolds(f0, coreStates)
  BY <1>1, <1>2, <1>8 DEF Inv, SlotsHold, Converges
<1>11. f0.continuation => /\ coreStates[f0.slot] = Stored(lastGood) /\ lastGood.solves
                          /\ Restored(f0.slot) = f0.slot /\ f0.slot # 0
  BY <1>1, <1>8, <1>10, OwnSlot, RestoredSlot DEF SlotHolds
<1>12. /\ Restored(f0.slot) \in Int
       /\ Trusted => Restored(f0.slot) \in Pointers
  BY <1>1, <1>8, RestoredSlot
<1>13. continueState' \in Int /\ (Trusted => continueState' \in Pointers)
  BY <1>1, <1>2, <1>3, <1>12
<1>14. CASE giveUp \/ Exhausted(f0)
  <2>1. Stop("failed")
    BY <1>1, <1>2, <1>14
  <2> QED BY <1>1, <1>2, <1>13, <2>1, StopKeeps
<1>15. CASE ~(giveUp \/ Exhausted(f0))
  <2>1. Continue(next, Turned(f0.name, at), FALSE) /\ UNCHANGED coreStates
    BY <1>1, <1>2, <1>3, <1>15
  <2>2. TurnedBy(next, Base) = Turned(f0.name, at)
    BY <1>1, <1>2, <1>5, <1>7, <1>8, TurnedAgain DEF TurnedBy
  <2>3. SlotHolds(next, coreStates')
    BY <1>7, <1>8, <1>10, <2>1 DEF SlotHolds
  <2>4. next.continuation => StartsWell(next, continueState', coreStates')
    BY <1>1, <1>3, <1>7, <1>11, <1>15, <2>1 DEF StartsWell
  <2>5. Len(frames) = 2 => coreStates'[opt.levels + 1] = EmptyState
    BY <2>1 DEF Inv, SlotsHold
  <2> QED BY <1>1, <1>2, <1>7, <1>8, <1>9, <1>13, <1>15, <2>1, <2>2, <2>3, <2>4, <2>5, ContinueKeeps
<1> QED BY <1>14, <1>15

\* Spice3GminStepping::run() and Spice3SourceStepping::run() after a run.
LEMMA Spice3Keeps == Inv /\ (Spice3GminStep \/ Spice3SourceStep) => Inv'
<1> SUFFICES ASSUME Inv, Spice3GminStep \/ Spice3SourceStep PROVE Inv'
  OBVIOUS
<1> DEFINE f0   == frames[1]
           f    == [Counted EXCEPT !.continuation = TRUE]
           at   == Spice3At(f.name, f.count)
           next == [f EXCEPT !.at = at]
           last == [f EXCEPT !.phase = "final"]
<1>1. /\ pc = "returned" /\ Running.name \in {"spice3gmin", "spice3src"} /\ Running.phase = "step"
      /\ IF ~Converges(outcome) THEN Stop("failed")
         ELSE IF f.count <= Steps(f.name)
         THEN Continue(next, Turned(f.name, at), opt.contbypass) /\ UNCHANGED coreStates
         ELSE IF f.name = "spice3src" THEN Stop("converged")
         ELSE Continue(last, PutBack(f.name), TRUE) /\ UNCHANGED coreStates
      /\ continueState' = continueState
  <2>1. /\ pc = "returned" /\ Running.phase = "step" /\ UNCHANGED continueState
        /\ Running.name \in {"spice3gmin", "spice3src"} /\ f.name = Running.name
    <3>1. /\ pc = "returned" /\ Running.phase = "step" /\ UNCHANGED continueState
          /\ Running.name \in {"spice3gmin", "spice3src"}
      BY DEF Spice3GminStep, Spice3SourceStep, Returned
    <3>2. frames # <<>> /\ Running = f0 /\ f0 \in Frames
      BY <3>1, AfterRun
    <3>3. Counted \in Frames /\ Counted.name = f0.name
      BY <3>1, <3>2, CountedFrame
    <3>4. f.name = f0.name
      BY <3>3 DEF Frames
    <3> QED BY <3>1, <3>2, <3>4
  <2>2. Spice3Continues(f) = (/\ Continue(next, Turned(f.name, at), opt.contbypass)
                              /\ UNCHANGED coreStates)
    BY DEF Spice3Continues
  <2>3. CASE Spice3GminStep
    <3>1. Running.name = "spice3gmin" /\ Steps(f.name) = opt.gminsteps
      BY <2>1, <2>3 DEF Spice3GminStep, Returned, Steps
    <3> QED BY <2>1, <2>2, <2>3, <3>1 DEF Spice3GminStep
  <2>4. CASE Spice3SourceStep
    <3>1. Running.name = "spice3src" /\ Steps(f.name) = opt.srcsteps
      BY <2>1, <2>4 DEF Spice3SourceStep, Returned, Steps
    <3> QED BY <2>1, <2>2, <2>4, <3>1 DEF Spice3SourceStep
  <2> QED BY <2>3, <2>4
<1>2. /\ frames # <<>> /\ Running = f0 /\ FrameFits(f0) /\ f0 \in Frames
      /\ continueState \in Int /\ opt \in Settings /\ Len(frames) \in {1, 2}
      /\ Trusted => continueState \in Pointers
      /\ coreStates \in Seq(States)
      /\ Converges(outcome) => lastGood = solution /\ lastGood.solves
  BY <1>1, AfterRun
<1>3. /\ f \in Frames /\ f.count = f0.count + 1 /\ f.name = f0.name /\ f.slot = f0.slot
      /\ f.at = f0.at /\ f.phase = "step" /\ f.continuation = TRUE
  <2>1. /\ Counted \in Frames /\ Counted.count = f0.count + 1 /\ Counted.name = f0.name
        /\ Counted.slot = f0.slot /\ Counted.at = f0.at /\ Counted.phase = "step"
    BY <1>1, <1>2, CountedFrame
  <2> QED BY <2>1 DEF Frames
<1> HIDE DEF f
<1>4. /\ f0.name \in {"spice3gmin", "spice3src"} /\ f0.name \notin Slotted /\ f0.phase = "step"
      /\ Steps(f0.name) \in Nat /\ Steps(f0.name) >= 1 /\ f0.count \in Nat
      /\ f0.count <= Steps(f0.name)
  BY <1>1, <1>2, Setting, FrameTypes DEF Slotted, FrameFits, CountFits
<1>5. at \in Int /\ (f.name = "spice3src" => at = Spice3At("spice3src", f.count))
  BY <1>2, <1>3, <1>4, FixedSteps, SMTT(30)
<1>6. next = [f EXCEPT !.at = at] /\ last = [f EXCEPT !.phase = "final"]
  OBVIOUS
<1> HIDE DEF at, next, last
<1>7. /\ next \in Frames /\ next.name = f0.name /\ next.slot = f0.slot /\ next.count = f0.count + 1
      /\ next.at = at /\ next.phase = "step" /\ next.continuation = TRUE
  BY <1>3, <1>5, <1>6 DEF Frames
<1>8. /\ last \in Frames /\ last.name = f0.name /\ last.slot = f0.slot /\ last.count = f0.count + 1
      /\ last.phase = "final" /\ last.continuation = TRUE
  BY <1>3, <1>6 DEF Frames
<1>9. f.count <= Steps(f.name) => FrameFits(next)
  BY <1>3, <1>4, <1>5, <1>7 DEF FrameFits, PhaseFits, CountFits, AtFits, Slotted
<1>10. f.name # "spice3src" => FrameFits(last)
  BY <1>3, <1>4, <1>8 DEF FrameFits, PhaseFits, CountFits, AtFits, Slotted
<1>11. Trusted /\ Converges(outcome) => \A g : StartsWell(g, continueState, coreStates)
  BY <1>1, <1>4, FromVector
<1>12. Len(frames) = 2 => coreStates[opt.levels + 1] = EmptyState
  BY DEF Inv, SlotsHold
<1>13. CASE ~Converges(outcome)
  <2>1. Stop("failed")
    BY <1>1, <1>13
  <2> QED BY <1>1, <1>2, <2>1, StopKeeps
<1>14. CASE Converges(outcome) /\ f.count <= Steps(f.name)
  <2>1. Continue(next, Turned(f0.name, at), opt.contbypass) /\ UNCHANGED coreStates
        /\ opt.contbypass \in BOOLEAN
    BY <1>1, <1>2, <1>3, <1>14, Setting
  <2>2. TurnedBy(next, Base) = Turned(f0.name, at)
    BY <1>1, <1>2, <1>4, <1>5, <1>7, TurnedAgain DEF TurnedBy
  <2> QED BY <1>1, <1>2, <1>4, <1>7, <1>9, <1>11, <1>12, <1>14, <2>1, <2>2, ContinueKeeps
<1>15. CASE Converges(outcome) /\ ~(f.count <= Steps(f.name)) /\ f.name = "spice3src"
  <2>1. Stop("converged")
    BY <1>1, <1>15
  <2>2. f0.count = Steps(f0.name) /\ f0.name = "spice3src"
    BY <1>3, <1>4, <1>15
  <2>3. f0.at = Full
    BY <2>2, <1>2, <1>4, FixedSteps DEF FrameFits, AtFits
  <2>4. Len(frames) = 1
    BY <2>2, <1>2 DEF Inv, Stack
  <2>5. knobs = Base
    <3>1. knobs = TurnedBy(f0, Base) /\ Base \in Knobs /\ Base = Original
      BY <1>2, <2>4, RunningFrame, KnobTypes DEF Base
    <3>2. Knob["spice3src"] = "src" /\ Original["src"] = Full
      BY KnobTypes DEF Knob
    <3>3. TurnedBy(f0, Base) = [Original EXCEPT !["src"] = Original["src"]]
      BY <3>1, <3>2, <2>2, <2>3, <1>4 DEF TurnedBy
    <3> QED BY <3>1, <3>3 DEF Knobs
  <2>6. continueState = 0 /\ solution = [solves |-> TRUE, knobs |-> knobs] /\ lastGood = solution
    <3>1. solution = [solves |-> Converges(outcome), knobs |-> knobs]
      BY <1>1 DEF Inv, Solved
    <3>2. f0.continuation
      BY <2>2, <1>4, <1>2 DEF FrameFits, PhaseFits
    <3> QED BY <3>1, <3>2, <1>1, <1>2, <1>15 DEF Inv, Continuing, Converges
  <2> QED BY <1>1, <1>2, <1>15, <2>1, <2>5, <2>6, StopKeeps
<1>16. CASE Converges(outcome) /\ ~(f.count <= Steps(f.name)) /\ f.name # "spice3src"
  <2>1. Continue(last, Base, TRUE) /\ UNCHANGED coreStates
    BY <1>1, <1>2, <1>3, <1>16, KnobPutBack
  <2>2. TurnedBy(last, Base) = Base
    BY <1>8 DEF TurnedBy
  <2> QED BY <1>1, <1>2, <1>4, <1>8, <1>10, <1>11, <1>12, <1>16, <2>1, <2>2, ContinueKeeps
<1> QED BY <1>13, <1>14, <1>15, <1>16

\* Source stepping makes a run with more of the sources.
LEMMA SrcRunKeeps ==
    ASSUME Inv, frames # <<>>, pc \in {"returned", "result"},
           frames[1].name = "src",
           NEW f \in Frames, f.name = "src", f.slot = frames[1].slot, f.phase = "step",
           f.continuation, Steps("src") >= 1, f.count + 1 <= Steps("src"),
           NEW b \in BOOLEAN, SrcRun(f, b), b => Converges(outcome),
           coreStates' \in Seq(States), Len(coreStates') = Len(coreStates),
           coreStates'[f.slot] = Stored(lastGood), lastGood.solves,
           continueState' \in Int,
           Trusted => /\ continueState' \in Pointers
                      /\ \A g : g.slot = f.slot => StartsWell(g, continueState', coreStates')
    PROVE  Inv'
<1> DEFINE at   == AtMost(f.good + f.factor, Full)
           next == [f EXCEPT !.at = at]
<1>1. Continue(next, Turned("src", at), b)
  BY DEF SrcRun
<1>2. at \in Int /\ at <= Full
  BY FrameTypes, SourceAssumption DEF AtMost
<1>3. next = [f EXCEPT !.at = at]
  OBVIOUS
<1> HIDE DEF at, next
<1>4. /\ next \in Frames /\ next.name = "src" /\ next.slot = f.slot /\ next.count = f.count
      /\ next.at = at /\ next.phase = "step" /\ next.continuation
  BY <1>2, <1>3 DEF Frames
<1>5. Steps("src") \in Nat /\ f.count \in Nat
  BY FrameTypes, Setting DEF Inv, Types
<1>6. FrameFits(next)
  BY <1>2, <1>4, <1>5 DEF FrameFits, PhaseFits, CountFits, AtFits, Slotted
<1>7. frames[1].phase # "final" /\ Len(frames) # 2
  BY DEF Inv, Stack, FrameFits, PhaseFits
<1>8. TurnedBy(next, Base) = Turned("src", at)
  BY <1>2, <1>4, <1>7, TurnedAgain DEF TurnedBy
<1>9. SlotHolds(next, coreStates')
  BY <1>4 DEF SlotHolds
<1> QED BY <1>1, <1>4, <1>6, <1>7, <1>8, <1>9, ContinueKeeps

\* Source stepping before its first step: it runs alone and has nothing stored.
LEMMA AtZero ==
    ASSUME Inv, frames # <<>>, pc \in {"returned", "result"},
           pc = "returned" => frames[1].name = "src" /\ frames[1].phase = "start"
    PROVE  LET f == frames[1]
           IN  /\ Running = f /\ f \in Frames /\ FrameFits(f) /\ Len(frames) = 1
               /\ f.name = "src" /\ f.phase = "start" /\ ~f.continuation /\ f.at = 0
               /\ Steps("src") \in Nat /\ Steps("src") >= 1 /\ f.count + 1 <= Steps("src")
               /\ f.slot = opt.levels + 1 /\ Len(coreStates) = opt.levels + 1
               /\ f.slot \in 1 .. Len(coreStates) /\ coreStates[f.slot] = EmptyState
               /\ coreStates \in Seq(States) /\ solution \in Solutions /\ continueState \in Int
               /\ opt \in Settings /\ opt.levels \in {0, 1}
               /\ Trusted => continueState \in Pointers
<1> DEFINE f == frames[1]
<1>1. Running = f /\ f \in Frames /\ FrameFits(f) /\ Len(frames) \in {1, 2} /\ opt.levels \in {0, 1}
  BY RunningFrame
<1>2. f.name = "src" /\ f.phase = "start"
  BY DEF Inv, Stack, Waiting
<1>3. Len(frames) = 1
  BY <1>1, <1>2 DEF Inv, Stack
<1>4. ~f.continuation /\ f.at = 0
  BY <1>1, <1>2 DEF FrameFits, PhaseFits
<1>5. /\ coreStates \in Seq(States) /\ solution \in Solutions /\ continueState \in Int
      /\ opt \in Settings /\ (Trusted => continueState \in Pointers)
  BY DEF Inv, Types, PointerFits
<1>6. Steps("src") \in Nat /\ Steps("src") >= 1 /\ f.count + 1 <= Steps("src")
  BY <1>1, <1>2, <1>5, Setting DEF FrameFits, CountFits, Slotted
<1>7. f.slot = opt.levels + 1 /\ Len(coreStates) = opt.levels + 1
  BY <1>2, <1>3 DEF Inv, Slots, Under, Slotted
<1>8. f.slot \in 1 .. Len(coreStates)
  BY <1>1, <1>7
<1>9. coreStates[f.slot] = EmptyState
  BY <1>2, <1>4 DEF Inv, SlotsHold, SlotHolds, Slotted
<1> QED BY <1>1, <1>2, <1>3, <1>4, <1>5, <1>6, <1>7, <1>8, <1>9

\* SourceStepping::run() when the circuit without sources is solved.
LEMMA SrcSolvedKeeps == Inv /\ SrcSolvedAtZero => Inv'
<1> SUFFICES ASSUME Inv, SrcSolvedAtZero PROVE Inv'
  OBVIOUS
<1> DEFINE f0   == frames[1]
           next == [f0 EXCEPT !.phase = "step", !.continuation = TRUE]
<1>1. /\ frames # <<>>
      /\ \/ pc = "returned" /\ f0.name = "src" /\ f0.phase = "start" /\ Converges(outcome)
         \/ pc = "result" /\ result = "converged"
  <2>1. CASE Returned({"src"}, "start") /\ Converges(outcome)
    BY <2>1, AfterRun DEF Returned
  <2>2. CASE pc = "result" /\ frames # <<>> /\ result = "converged"
    BY <2>2
  <2> QED BY <2>1, <2>2 DEF SrcSolvedAtZero
<1>2. /\ Running = f0 /\ f0 \in Frames /\ FrameFits(f0) /\ Len(frames) = 1
      /\ f0.name = "src" /\ f0.phase = "start" /\ ~f0.continuation /\ f0.at = 0
      /\ Steps("src") \in Nat /\ Steps("src") >= 1 /\ f0.count + 1 <= Steps("src")
      /\ f0.slot = opt.levels + 1 /\ Len(coreStates) = opt.levels + 1
      /\ f0.slot \in 1 .. Len(coreStates) /\ coreStates[f0.slot] = EmptyState
      /\ coreStates \in Seq(States) /\ solution \in Solutions /\ continueState \in Int
      /\ opt \in Settings /\ opt.levels \in {0, 1}
      /\ Trusted => continueState \in Pointers
  BY <1>1, AtZero
<1>3. /\ coreStates' = StoredIn(f0.slot) /\ continueState' = continueState
      /\ SrcRun(next, opt.contbypass)
  BY <1>2 DEF SrcSolvedAtZero, SrcBegin
<1>4. lastGood = solution /\ lastGood.solves /\ Converges(outcome)
  BY <1>1 DEF Inv, Solved
<1>5. next = [f0 EXCEPT !.phase = "step", !.continuation = TRUE]
  OBVIOUS
<1> HIDE DEF next
<1>6. /\ next \in Frames /\ next.name = "src" /\ next.slot = f0.slot /\ next.count = f0.count
      /\ next.phase = "step" /\ next.continuation
  BY <1>2, <1>5 DEF Frames
<1>7. /\ coreStates' \in Seq(States) /\ Len(coreStates') = Len(coreStates)
      /\ coreStates'[f0.slot] = Stored(lastGood)
  <2>1. Stored(solution) \in States
    BY <1>2 DEF Stored, States
  <2> QED BY <2>1, <1>2, <1>3, <1>4, ExceptSeq DEF StoredIn
<1>8. Trusted => \A g : StartsWell(g, continueState, coreStates')
  <2>1. DOMAIN coreStates' = 1 .. opt.levels + 1
    BY <1>2, <1>7, LenProperties
  <2>2. CASE continueState \in {0, Gone, opt.levels + 2}
    <3>1. continueState \notin DOMAIN coreStates'
      BY <2>1, <2>2, <1>2 DEF Gone
    <3> QED BY <3>1, <1>4 DEF StartsWell
  <2>3. CASE continueState = opt.levels + 1
    BY <2>3, <1>2, <1>4, <1>7 DEF StartsWell
  <2> QED BY <2>2, <2>3, <1>2 DEF Pointers
<1>9. opt.contbypass \in BOOLEAN
  BY <1>2, Setting
<1> QED BY <1>1, <1>2, <1>3, <1>4, <1>6, <1>7, <1>8, <1>9, SrcRunKeeps

\* SourceStepping::run() when the circuit without sources is not solved.
LEMMA SrcAlternativeKeeps == Inv /\ SrcAlternative => Inv'
<1> SUFFICES ASSUME Inv, SrcAlternative PROVE Inv'
  OBVIOUS
<1> DEFINE f0      == frames[1]
           rest    == f0.alternatives
           waiting == [f0 EXCEPT !.alternatives = Tail(rest)]
<1>1. /\ frames # <<>>
      /\ \/ pc = "returned" /\ f0.name = "src" /\ f0.phase = "start"
         \/ pc = "result"
  <2>1. CASE Returned({"src"}, "start") /\ outcome = "failed"
    BY <2>1, AfterRun DEF Returned
  <2>2. CASE pc = "result" /\ frames # <<>> /\ result = "failed"
    BY <2>2
  <2> QED BY <2>1, <2>2 DEF SrcAlternative
<1>2. /\ Running = f0 /\ f0 \in Frames /\ FrameFits(f0) /\ Len(frames) = 1
      /\ f0.name = "src" /\ f0.phase = "start" /\ ~f0.continuation
      /\ f0.slot = opt.levels + 1 /\ opt \in Settings /\ continueState \in Int
      /\ Trusted => continueState \in Pointers
  BY <1>1, AtZero
<1>3. rest \in Seq(STRING)
  BY <1>2, FrameTypes
<1>4. \/ rest = <<>> /\ Stop("failed") /\ UNCHANGED continueState
      \/ /\ rest # <<>> /\ Alternative(Head(rest)) /\ Start(Head(rest), <<waiting>>)
         /\ UNCHANGED todo
      \/ /\ rest # <<>> /\ ~Alternative(Head(rest)) /\ frames' = <<waiting>>
         /\ UNCHANGED <<opt, pc, todo, knobs, solver, store, continueState,
                        requestForcedBypass, allowBypass, result, verdict>>
  BY <1>2 DEF SrcAlternative
<1>5. ASSUME NEW a \in Seq(STRING), NEW w, w = [f0 EXCEPT !.alternatives = a]
      PROVE  /\ w \in Frames /\ w.name = f0.name /\ w.slot = f0.slot /\ w.at = f0.at
             /\ w.count = f0.count /\ w.continuation = f0.continuation /\ w.phase = f0.phase
  BY <1>2, <1>5 DEF Frames
<1>6. ASSUME rest # <<>>
      PROVE  /\ waiting \in Frames /\ FrameFits(waiting) /\ Waiting(waiting)
             /\ waiting.name = "src" /\ waiting.slot = f0.slot /\ waiting.at = f0.at
             /\ ~waiting.continuation /\ waiting.phase = "start"
  <2>1. Tail(rest) \in Seq(STRING)
    BY <1>3, <1>6, HeadTailProperties
  <2>2. /\ waiting \in Frames /\ waiting.name = f0.name /\ waiting.slot = f0.slot
        /\ waiting.at = f0.at /\ waiting.count = f0.count
        /\ waiting.continuation = f0.continuation /\ waiting.phase = f0.phase
    BY <2>1, <1>5
  <2> HIDE DEF waiting
  <2> QED BY <2>2, <1>2 DEF FrameFits, PhaseFits, CountFits, AtFits, Waiting
<1> HIDE DEF waiting
<1>7. CASE rest = <<>>
  <2>1. Stop("failed") /\ continueState' = continueState
    BY <1>4, <1>7
  <2> QED BY <2>1, <1>1, <1>2, StopKeeps
<1>8. CASE rest # <<>> /\ Alternative(Head(rest))
  <2>1. Start(Head(rest), <<waiting>>) /\ todo' = todo
    BY <1>4, <1>8
  <2>2. Head(rest) \in {"gdev", "gshunt", "spice3gmin"} /\ Steps(Head(rest)) >= 1
    BY <1>8 DEF Alternative, Alternatives
  <2>3. todo' \in Seq(STRING) /\ Head(rest) \in Algorithms
    BY <2>1, <2>2 DEF Inv, Types, Algorithms
  <2>4. \E w \in Frames : <<waiting>> = <<w>> /\ FrameFits(w) /\ Waiting(w)
    BY <1>6, <1>8
  <2> QED BY <2>1, <2>2, <2>3, <2>4, <1>1, <1>2, StartKeeps
<1>9. CASE rest # <<>> /\ ~Alternative(Head(rest))
  <2>1. /\ frames' = <<waiting>>
        /\ UNCHANGED <<opt, pc, todo, knobs, solution, start, outcome, lastGood, coreStates,
                       highWater, continueState, requestForcedBypass, allowBypass, result, verdict>>
    BY <1>4, <1>9 DEF solver, store
  <2>2. /\ frames' \in Seq(Frames) /\ Len(frames') = 1 /\ frames' # <<>> /\ frames'[1] = waiting
    <3>1. ASSUME NEW t, t = <<waiting>>
          PROVE  t \in Seq(Frames) /\ Len(t) = 1 /\ t # <<>> /\ t[1] = waiting
      BY <3>1, <1>6, <1>9
    <3> QED BY <3>1, <2>1
  <2>3. /\ FrameFits(waiting) /\ Waiting(waiting) /\ waiting.name = "src" /\ waiting.slot = f0.slot
        /\ waiting.at = f0.at /\ ~waiting.continuation /\ waiting.phase = "start"
    BY <1>6, <1>9
  <2>4. Types'
    BY <2>1 DEF Inv, Types
  <2>5. Stack'
    <3>1. FrameFits(frames[1])' /\ Waiting(frames[1])'
      BY <2>1, <2>2, <2>3 DEF FrameFits, PhaseFits, CountFits, AtFits, Steps, Spice3At, Spice3Gmin, Spice3SourceFactor, GminTarget,
           Waiting
    <3> QED BY <3>1, <2>1, <2>2, <1>1 DEF Inv, Stack
  <2>6. Slots'
    BY <2>1, <2>2, <2>3, <1>1, <1>2 DEF Inv, Slots, Under, Slotted
  <2>7. KnobsMatch'
    BY <2>1, <2>2, <2>3, <1>1, <1>2 DEF Inv, KnobsMatch, TurnedBy, Base
  <2>8. Solved' /\ ForcedBypassFits'
    BY <2>1 DEF Inv, Solved, Converges, ForcedBypassFits
  <2>9. BypassAsked' /\ Continuing' /\ StepsContinueFromLastGood'
    <3>1. Running' = waiting
      BY <2>1, <2>2 DEF Running
    <3>2. ~requestForcedBypass
      BY <1>1 DEF Inv, BypassAsked
    <3> QED BY <3>1, <3>2, <2>1, <2>2, <2>3 DEF BypassAsked, Continuing, StepsContinueFromLastGood
  <2>10. SlotsHold'
    <3>1. coreStates[f0.slot] = EmptyState
      BY <1>1, AtZero
    <3> QED BY <3>1, <2>1, <2>2, <2>3 DEF SlotsHold, SlotHolds
  <2>11. Trusted' => PointerFits' /\ NextStart'
    BY <2>1, <1>1, <1>2 DEF Trusted, PointerFits, NextStart, Pointers
  <2> QED BY <2>4, <2>5, <2>6, <2>7, <2>8, <2>9, <2>10, <2>11 DEF Inv
<1> QED BY <1>7, <1>8, <1>9

\* What is known when a step of source stepping has returned.
LEMMA AfterSrcRun ==
    ASSUME Inv, pc = "returned", Running.name = "src", Running.phase = "step"
    PROVE  LET f == frames[1]
           IN  /\ frames # <<>> /\ Running = f /\ f \in Frames /\ Len(frames) = 1 /\ Base = Original
               /\ f.name = "src" /\ f.phase = "step" /\ f.continuation /\ f.at \in Int /\ f.at <= Full
               /\ Steps("src") \in Nat /\ Steps("src") >= 1 /\ f.count + 1 <= Steps("src")
               /\ f.count \in Nat /\ opt \in Settings /\ continueState = 0 /\ continueState \in Int
               /\ f.name \in Slotted /\ coreStates \in Seq(States)
               /\ Exhausted(f) <=> f.count + 1 >= Steps("src")
<1> DEFINE f == frames[1]
<1>1. /\ frames # <<>> /\ Running = f /\ FrameFits(f) /\ f \in Frames /\ opt \in Settings
      /\ Len(frames) \in {1, 2} /\ coreStates \in Seq(States)
  BY AfterRun
<1>2. f.name = "src" /\ f.phase = "step" /\ f.continuation /\ f.at <= Full
  BY <1>1 DEF FrameFits, PhaseFits, AtFits
<1>3. Len(frames) = 1 /\ Base = Original
  BY <1>1, <1>2 DEF Inv, Stack, Base
<1>4. f.at \in Int /\ f.count \in Nat /\ Steps("src") \in Nat
  BY <1>1, FrameTypes, Setting
<1>5. Steps("src") >= 1 /\ f.count + 1 <= Steps("src") /\ f.name \in Slotted
  BY <1>1, <1>2 DEF FrameFits, CountFits, Slotted
<1>6. continueState = 0
  BY <1>1, <1>2 DEF Inv, Continuing
<1>7. Exhausted(f) <=> f.count + 1 >= Steps("src")
  BY <1>2 DEF Exhausted
<1> QED BY <1>1, <1>2, <1>3, <1>4, <1>5, <1>6, <1>7

\* SourceStepping::run() after a step that converged.
LEMMA SrcConvergedKeeps == Inv /\ SrcConverged => Inv'
<1> SUFFICES ASSUME Inv, SrcConverged PROVE Inv'
  OBVIOUS
<1> DEFINE f0    == frames[1]
           f     == Counted
           raise == CASE outcome = "few"  -> f.factor * SrcScale
                      [] outcome = "many" -> AtLeast(f.factor \div SrcScale, MinSrcStep)
                      [] OTHER            -> f.factor
           next  == [f EXCEPT !.good = f.at, !.factor = raise]
<1>1. /\ pc = "returned" /\ Running.name = "src" /\ Running.phase = "step" /\ Converges(outcome)
      /\ IF f.at >= Full \/ Exhausted(Running)
         THEN Stop(IF f.at >= Full THEN "converged" ELSE "failed")
         ELSE coreStates' = StoredIn(f.slot) /\ SrcRun(next, opt.contbypass)
      /\ continueState' = continueState
  BY DEF SrcConverged, Returned
<1>2. /\ frames # <<>> /\ Running = f0 /\ f0 \in Frames /\ Len(frames) = 1 /\ Base = Original
      /\ f0.name = "src" /\ f0.phase = "step" /\ f0.continuation /\ f0.at \in Int /\ f0.at <= Full
      /\ Steps("src") \in Nat /\ Steps("src") >= 1 /\ f0.count + 1 <= Steps("src")
      /\ f0.count \in Nat /\ opt \in Settings /\ continueState = 0 /\ continueState \in Int
      /\ f0.name \in Slotted /\ coreStates \in Seq(States)
      /\ Exhausted(f0) <=> f0.count + 1 >= Steps("src")
  BY <1>1, AfterSrcRun
<1>3. lastGood = solution /\ lastGood.solves
  BY <1>1, AfterRun
<1>4. /\ f \in Frames /\ f.count = f0.count + 1 /\ f.name = "src" /\ f.slot = f0.slot
      /\ f.at = f0.at /\ f.phase = "step" /\ f.continuation
  BY <1>1, <1>2, CountedFrame
<1>5. f.at \in Int /\ f.factor \in Int
  BY <1>4, FrameTypes
<1> HIDE DEF f
<1>6. raise \in Int
  BY <1>5, SourceAssumption DEF AtLeast
<1>7. next = [f EXCEPT !.good = f.at, !.factor = raise]
  OBVIOUS
<1> HIDE DEF raise, next
<1>8. /\ next \in Frames /\ next.name = "src" /\ next.slot = f0.slot /\ next.count = f0.count + 1
      /\ next.phase = "step" /\ next.continuation
  <2>1. /\ next \in Frames /\ next.name = f.name /\ next.slot = f.slot /\ next.count = f.count
        /\ next.phase = f.phase /\ next.continuation = f.continuation
    BY <1>4, <1>5, <1>6, <1>7 DEF Frames
  <2> QED BY <2>1, <1>4
<1>9. CASE f.at >= Full \/ Exhausted(f0)
  <2> DEFINE r == IF f.at >= Full THEN "converged" ELSE "failed"
  <2>1. Stop(r) /\ r \in {"converged", "failed", "leave"}
    BY <1>1, <1>2, <1>9
  <2>2. ASSUME r = "converged"
        PROVE  /\ knobs = Base /\ solution = [solves |-> TRUE, knobs |-> knobs]
    <3>1. f0.at = Full
      BY <2>2, <1>2, <1>4, SourceAssumption
    <3>2. knobs = [Original EXCEPT ![Knob["src"]] = Full]
      BY <3>1, <1>2, RunningFrame DEF TurnedBy
    <3>3. Knob["src"] = "src" /\ Original["src"] = Full /\ Original \in Knobs
      BY KnobTypes DEF Knob
    <3>4. knobs = Original
      BY <3>2, <3>3 DEF Knobs
    <3> QED BY <3>4, <1>1, <1>2 DEF Inv, Solved, Converges
  <2> HIDE DEF r
  <2>3. Trusted => continueState' \in Pointers
    BY <1>1, <1>2 DEF Pointers
  <2> QED BY <2>1, <2>2, <2>3, <1>1, <1>2, <1>3, StopKeeps
<1>10. CASE ~(f.at >= Full \/ Exhausted(f0))
  <2>1. coreStates' = StoredIn(f0.slot) /\ SrcRun(next, opt.contbypass) /\ opt.contbypass \in BOOLEAN
    BY <1>1, <1>2, <1>4, <1>10, Setting
  <2>2. /\ coreStates' \in Seq(States) /\ Len(coreStates') = Len(coreStates)
        /\ coreStates'[f0.slot] = Stored(lastGood)
    BY <2>1, <1>1, <1>2, StoredSlot
  <2>3. \A g : StartsWell(g, continueState', coreStates')
    BY <1>1, <1>2, <1>3 DEF StartsWell
  <2>4. f0.count + 1 + 1 <= Steps("src")
    BY <1>2, <1>10
  <2>5. continueState' \in Pointers
    BY <1>1, <1>2 DEF Pointers
  <2> QED BY <2>1, <2>2, <2>3, <2>4, <2>5, <1>1, <1>2, <1>3, <1>8, SrcRunKeeps
<1> QED BY <1>9, <1>10

\* SourceStepping::run() after a step that failed.
LEMMA SrcFailedKeeps == Inv /\ SrcFailed => Inv'
<1> SUFFICES ASSUME Inv, SrcFailed PROVE Inv'
  OBVIOUS
<1> DEFINE f0 == frames[1]
           f  == [Counted EXCEPT !.factor = Counted.factor \div 2]
<1>1. /\ pc = "returned" /\ Running.name = "src" /\ Running.phase = "step" /\ outcome = "failed"
      /\ continueState' = Restored(Running.slot)
      /\ IF f.factor < MinSrcStep \/ Exhausted(Running)
         THEN Stop("failed")
         ELSE SrcRun(f, FALSE) /\ UNCHANGED coreStates
  BY DEF SrcFailed, Returned
<1>2. /\ frames # <<>> /\ Running = f0 /\ f0 \in Frames /\ Len(frames) = 1 /\ Base = Original
      /\ f0.name = "src" /\ f0.phase = "step" /\ f0.continuation /\ f0.at \in Int /\ f0.at <= Full
      /\ Steps("src") \in Nat /\ Steps("src") >= 1 /\ f0.count + 1 <= Steps("src")
      /\ f0.count \in Nat /\ opt \in Settings /\ continueState = 0 /\ continueState \in Int
      /\ f0.name \in Slotted /\ coreStates \in Seq(States)
      /\ Exhausted(f0) <=> f0.count + 1 >= Steps("src")
  BY <1>1, AfterSrcRun
<1>3. /\ Counted \in Frames /\ Counted.count = f0.count + 1 /\ Counted.name = "src"
      /\ Counted.slot = f0.slot /\ Counted.phase = "step" /\ Counted.continuation
  BY <1>1, <1>2, CountedFrame
<1>4. Counted.factor \div 2 \in Int
  BY <1>3, FrameTypes
<1>5. f = [Counted EXCEPT !.factor = Counted.factor \div 2]
  OBVIOUS
<1> HIDE DEF f
<1>6. /\ f \in Frames /\ f.count = f0.count + 1 /\ f.name = "src" /\ f.slot = f0.slot
      /\ f.phase = "step" /\ f.continuation
  <2>1. ASSUME NEW c \in Frames, NEW x \in Int, NEW h, h = [c EXCEPT !.factor = x]
        PROVE  /\ h \in Frames /\ h.count = c.count /\ h.name = c.name /\ h.slot = c.slot
               /\ h.phase = c.phase /\ h.continuation = c.continuation
    BY <2>1 DEF Frames
  <2> QED BY <2>1, <1>3, <1>4, <1>5
<1>7. coreStates[f0.slot] = Stored(lastGood) /\ lastGood.solves
  BY <1>1, <1>2 DEF Inv, SlotsHold, SlotHolds, Converges
<1>8. /\ continueState' = f0.slot /\ continueState' \in Int /\ (Trusted => continueState' \in Pointers)
      /\ f0.slot # 0
  BY <1>1, <1>2, <1>7, RestoredSlot, OwnSlot
<1>9. CASE f.factor < MinSrcStep \/ Exhausted(f0)
  <2>1. Stop("failed")
    BY <1>1, <1>2, <1>9
  <2> QED BY <2>1, <1>1, <1>2, <1>8, StopKeeps
<1>10. CASE ~(f.factor < MinSrcStep \/ Exhausted(f0))
  <2>1. SrcRun(f, FALSE) /\ coreStates' = coreStates
    BY <1>1, <1>2, <1>10
  <2>2. \A g : g.slot = f0.slot => StartsWell(g, continueState', coreStates')
    BY <2>1, <1>7, <1>8 DEF StartsWell
  <2>3. f0.count + 1 + 1 <= Steps("src")
    BY <1>2, <1>10
  <2> QED BY <2>1, <2>2, <2>3, <1>1, <1>2, <1>6, <1>7, <1>8, SrcRunKeeps
<1> QED BY <1>9, <1>10

\* Every other step: an abort, the end of the initial or of a last run, and the loop over
\* the algorithms.
LEMMA OthersKeep ==
    ASSUME Inv,
           AbortRequested \/ LastRunReturned \/ SrcAlternativeLeaves
             \/ TryNext \/ PassOver \/ NothingLeft \/ AlgorithmEnded
    PROVE  Inv'
<1>1. CASE AbortRequested
  <2>1. pc = "returned" /\ Stop("leave") /\ continueState' = continueState
    BY <1>1 DEF AbortRequested
  <2> QED BY <2>1, AfterRun, StopKeeps
<1>2. CASE SrcAlternativeLeaves
  <2>1. pc = "result" /\ frames # <<>> /\ Stop("leave") /\ continueState' = continueState
    BY <1>2 DEF SrcAlternativeLeaves
  <2> QED BY <2>1, AtZero, StopKeeps
<1>3. CASE LastRunReturned
  <2>1. /\ pc = "returned" /\ frames[1].phase = "final" /\ continueState' = continueState
        /\ Stop(IF Converges(outcome) THEN "converged" ELSE "failed")
    BY <1>3, AfterRun DEF LastRunReturned, Returned
  <2>2. /\ frames # <<>> /\ FrameFits(frames[1]) /\ continueState \in Int
        /\ Trusted => continueState \in Pointers
        /\ Converges(outcome) => lastGood = solution
    BY <2>1, AfterRun
  <2>3. continueState = 0 \/ ~frames[1].continuation
    BY <2>1 DEF Inv, Continuing
  <2>4. continueState = 0
    BY <2>1, <2>2, <2>3 DEF FrameFits, PhaseFits, Inv, Continuing
  <2>5. knobs = Base
    BY <2>1, <2>2, RunningFrame DEF TurnedBy
  <2>6. Converges(outcome) => solution = [solves |-> TRUE, knobs |-> knobs]
    BY <2>1 DEF Inv, Solved, Converges
  <2>7. CASE Converges(outcome)
    BY <2>1, <2>2, <2>4, <2>5, <2>6, <2>7, StopKeeps
  <2>8. CASE ~Converges(outcome)
    BY <2>1, <2>2, <2>8, StopKeeps
  <2> QED BY <2>7, <2>8
<1>4. CASE TryNext
  <2>1. /\ pc = "try" /\ todo # <<>> /\ Usable(Head(todo)) /\ Start(Head(todo), <<>>)
        /\ todo' = Tail(todo) /\ todo \in Seq(STRING)
    BY <1>4 DEF TryNext, Inv, Types
  <2>2. Tail(todo) \in Seq(STRING)
    BY <2>1, HeadTailProperties
  <2>3. Head(todo) \in Algorithms /\ Steps(Head(todo)) >= 1
    BY <2>1 DEF Usable, Available, Algorithms
  <2> QED BY <2>1, <2>2, <2>3, StartKeeps
<1>5. CASE PassOver
  <2>1. /\ pc = "try" /\ todo # <<>> /\ todo' = Tail(todo) /\ todo \in Seq(STRING) /\ frames = <<>>
        /\ UNCHANGED <<opt, pc, frames, knobs, solution, start, outcome, lastGood, coreStates,
                       highWater, continueState, requestForcedBypass, allowBypass, result, verdict>>
    BY <1>5 DEF PassOver, Inv, Types, Stack, solver, store
  <2>2. Tail(todo) \in Seq(STRING)
    BY <2>1, HeadTailProperties
  <2> QED BY <2>1, <2>2, LoopKeeps
<1>6. CASE NothingLeft
  <2>1. /\ pc = "try" /\ frames = <<>> /\ todo \in Seq(STRING) /\ verdict' = "Aborted" /\ pc' = "idle"
        /\ UNCHANGED <<opt, todo, frames, knobs, solution, start, outcome, lastGood, coreStates,
                       highWater, continueState, requestForcedBypass, allowBypass, result>>
    BY <1>6 DEF NothingLeft, Yield, Inv, Types, Stack, solver, store
  <2> QED BY <2>1, LoopKeeps
<1>7. CASE AlgorithmEnded
  <2>1. /\ pc = "result" /\ frames = <<>> /\ todo \in Seq(STRING)
        /\ result \in {"converged", "failed", "leave"}
        /\ UNCHANGED <<opt, todo, frames, knobs, solution, start, outcome, lastGood, coreStates,
                       highWater, continueState, requestForcedBypass, allowBypass, result>>
    BY <1>7 DEF AlgorithmEnded, Yield, Inv, Types, solver, store
  <2>2. \/ result = "converged" /\ verdict' = "Finished" /\ pc' = "idle"
        \/ result = "leave" /\ verdict' = "Aborted" /\ pc' = "idle"
        \/ result = "failed" /\ pc' = "try" /\ verdict' = verdict
    BY <1>7, <2>1 DEF AlgorithmEnded, Yield
  <2> QED BY <2>1, <2>2, LoopKeeps
<1> QED BY <1>1, <1>2, <1>3, <1>4, <1>5, <1>6, <1>7

\* Every step keeps the invariant.
LEMMA InvNext == Inv /\ [Next]_vars => Inv'
<1> SUFFICES ASSUME Inv, [Next]_vars PROVE Inv'
  OBVIOUS
<1>1. CASE Next
  <2>1. CASE \E rebuilt, bypass \in BOOLEAN : Invoke(rebuilt, bypass)
    BY <2>1, InvokeKeeps
  <2>2. CASE \E o \in Outcomes : RunSolver(o)
    BY <2>2, RunKeeps
  <2>3. CASE GminConverged \/ GminFailed \/ Spice3GminStep \/ Spice3SourceStep
    BY <2>3, GminConvergedKeeps, GminFailedKeeps, Spice3Keeps
  <2>4. CASE SrcSolvedAtZero \/ SrcAlternative \/ SrcConverged \/ SrcFailed
    BY <2>4, SrcSolvedKeeps, SrcAlternativeKeeps, SrcConvergedKeeps, SrcFailedKeeps
  <2>5. CASE AbortRequested \/ LastRunReturned \/ SrcAlternativeLeaves
               \/ TryNext \/ PassOver \/ NothingLeft \/ AlgorithmEnded
    BY <2>5, OthersKeep
  <2> QED BY <1>1, <2>1, <2>2, <2>3, <2>4, <2>5 DEF Next, Work
<1>2. CASE UNCHANGED vars
  <2>1. UNCHANGED <<opt, pc, todo, frames, knobs, solution, start, outcome, lastGood, coreStates,
                    highWater, continueState, requestForcedBypass, allowBypass, result, verdict>>
    BY <1>2 DEF vars, solver, store
  <2>2. Types' /\ KnobsMatch' /\ Solved'
    BY <2>1 DEF Inv, Types, KnobsMatch, TurnedBy, Base, Solved, Converges
  <2>3. Stack'
    BY <2>1 DEF Inv, Stack, FrameFits, PhaseFits, CountFits, AtFits, Steps, Spice3At, Spice3Gmin, Spice3SourceFactor, GminTarget,
       Waiting
  <2>4. Slots' /\ BypassAsked' /\ ForcedBypassFits' /\ Continuing'
    BY <2>1 DEF Inv, Slots, Under, BypassAsked, Converges, ForcedBypassFits, Continuing
  <2>5. SlotsHold'
    BY <2>1 DEF Inv, SlotsHold, SlotHolds, Converges
  <2>6. Trusted' => PointerFits' /\ NextStart'
    BY <2>1 DEF Inv, Trusted, PointerFits, Pointers, NextStart, StartsWell
  <2>7. StepsContinueFromLastGood'
    BY <2>1 DEF Inv, StepsContinueFromLastGood, Running
  <2> QED BY <2>2, <2>3, <2>4, <2>5, <2>6, <2>7 DEF Inv
<1> QED BY <1>1, <1>2

-----------------------------------------------------------------------------
(* The theorems                                                            *)

\* The inductive invariant holds in every state.
THEOREM InvHolds == Spec => []Inv
BY InvInit, InvNext, PTL DEF Spec

\* What the invariant says of the driver's view: what is handed out solves the circuit of
\* the user.
LEMMA InvSolved == Inv => FinishedIsSolved
BY DEF Inv, Solved, FinishedIsSolved

\* Knobs and storage are accounted for by the running algorithms.
LEMMA InvLeaves == Inv => NothingLeftBehind
<1> SUFFICES ASSUME Inv PROVE NothingLeftBehind
  OBVIOUS
<1>1. CASE frames = <<>>
  <2>1. knobs = Original /\ Len(coreStates) = opt.levels /\ DOMAIN frames = {}
    BY <1>1 DEF Inv, KnobsMatch, Slots
  <2> QED BY <2>1 DEF NothingLeftBehind, KnobsPutBack, StorageReturned, Inv, Solved
<1>2. CASE frames # <<>>
  <2>1. /\ Len(frames) \in {1, 2} /\ knobs = TurnedBy(frames[1], Base) /\ frames[1] \in Frames
        /\ frames \in Seq(Frames) /\ opt.levels \in {0, 1}
    BY <1>2, RunningFrame DEF Inv, Stack
  <2>2. DOMAIN frames = 1 .. Len(frames)
    BY <2>1, LenProperties
  <2>3. pc # "idle" /\ verdict # "Finished"
    BY <1>2 DEF Inv, Stack, Solved
  <2>4. KnobsPutBack
    <3> SUFFICES ASSUME NEW k \in DOMAIN knobs, knobs[k] # Original[k]
                 PROVE  \E i \in DOMAIN frames : frames[i].name # "initial" /\ Knob[frames[i].name] = k
      BY DEF KnobsPutBack
    <3>1. k \in {"gdev", "gshunt", "src"} /\ Base \in Knobs
      BY <1>2, RunningFrame, KnobTypes DEF Knobs
    <3>2. CASE Base[k] = Original[k]
      <4>1. frames[1].name # "initial" /\ knobs = [Base EXCEPT ![Knob[frames[1].name]] = frames[1].at]
        BY <2>1, <3>2 DEF TurnedBy
      <4>2. Knob[frames[1].name] = k
        BY <3>1, <3>2, <4>1, KnobTypes DEF Knobs
      <4> QED BY <2>1, <2>2, <4>1, <4>2
    <3>3. CASE Base[k] # Original[k]
      <4>1. Len(frames) = 2 /\ k = "src"
        BY <3>1, <3>3 DEF Base, Original
      <4>2. frames[2].name = "src" /\ 2 \in DOMAIN frames
        BY <2>2, <4>1 DEF Inv, Stack, Waiting
      <4> QED BY <4>1, <4>2 DEF Knob
    <3> QED BY <3>2, <3>3
  <2>5. \A i, j \in DOMAIN frames : i # j /\ frames[i].slot # 0 => frames[i].slot # frames[j].slot
    <3>1. CASE Len(frames) = 1
      BY <2>2, <3>1
    <3>2. CASE Len(frames) = 2
      <4>1. frames[2].slot = opt.levels + 1
        BY <3>2 DEF Inv, Stack, Waiting
      <4>2. frames[1].slot \in {0, opt.levels + 2}
        BY <1>2, <2>1, <3>2 DEF Inv, Slots, Under
      <4>3. frames[1].slot # frames[2].slot
        BY <2>1, <4>1, <4>2
      <4>4. \A i, j \in DOMAIN frames : i # j => ((i = 1 /\ j = 2) \/ (i = 2 /\ j = 1))
        BY <2>2, <3>2
      <4> QED BY <4>3, <4>4
    <3> QED BY <2>1, <3>1, <3>2
  <2> QED BY <2>3, <2>4, <2>5 DEF NothingLeftBehind, StorageReturned
<1> QED BY <1>1, <1>2

\* Types; at most one algorithm runs inside of another, within its steps and the storage.
THEOREM TypeCorrect == Spec => []TypeOK
<1>1. Inv => TypeOK
  <2> SUFFICES ASSUME Inv PROVE TypeOK
    OBVIOUS
  <2>1. /\ Len(frames) <= 2 /\ (pc \in {"call", "returned"} => frames # <<>>)
        /\ frames \in Seq(Frames)
    BY DEF Inv, Stack
  <2>2. knobs \in Knobs
    <3>1. CASE frames = <<>>
      BY <3>1, KnobTypes DEF Inv, KnobsMatch
    <3> QED BY <3>1, RunningFrame
  <2>3. ASSUME NEW i \in DOMAIN frames
        PROVE  /\ frames[i].name \in Algorithms \cup {"initial"}
               /\ frames[i].slot \in 0 .. Len(coreStates)
               /\ frames[i].count \in 0 .. Steps(frames[i].name) + 1
               /\ frames[i].phase \in {"start", "step", "final"}
    <3>1. DOMAIN frames = 1 .. Len(frames) /\ frames # <<>>
      BY <2>1, LenProperties
    <3>2. Len(frames) \in {1, 2} /\ opt.levels \in {0, 1} /\ opt \in Settings
      BY <3>1, RunningFrame DEF Inv, Types
    <3>3. FrameFits(frames[i])
      <4>1. i = 1 \/ (i = 2 /\ Len(frames) = 2)
        BY <3>1, <3>2
      <4> QED BY <4>1, <3>1 DEF Inv, Stack
    <3>4. frames[i] \in Frames /\ Steps(frames[i].name) \in Nat
      BY <3>2, <3>3, Setting DEF FrameFits
    <3>5. frames[i].count \in 0 .. Steps(frames[i].name) + 1
      BY <3>3, <3>4, FrameTypes DEF FrameFits, CountFits
    <3>6. frames[i].slot \in 0 .. Len(coreStates)
      <4>1. Under \in {opt.levels, opt.levels + 1} /\ (Len(frames) = 2 => Under = opt.levels + 1)
        BY DEF Under
      <4>2. CASE i = 1
        <5>1. \/ frames[1].slot = Under + 1 /\ Len(coreStates) = Under + 1
              \/ frames[1].slot = 0 /\ Len(coreStates) = Under
          BY <3>1 DEF Inv, Slots
        <5> QED BY <5>1, <4>1, <4>2, <3>2
      <4>3. CASE i = 2
        <5>1. Len(frames) = 2
          BY <3>1, <3>2, <4>3
        <5>2. frames[2].slot = opt.levels + 1
          BY <5>1 DEF Inv, Stack, Waiting
        <5>3. Len(coreStates) \in {opt.levels + 1, opt.levels + 2}
          BY <5>1, <4>1, <3>1, <3>2 DEF Inv, Slots
        <5> QED BY <5>2, <5>3, <4>3, <3>2
      <4> QED BY <4>2, <4>3, <3>1, <3>2
    <3> QED BY <3>4, <3>5, <3>6, FrameTypes
  <2> QED BY <2>1, <2>2, <2>3 DEF TypeOK, Inv, Types
<1> QED BY <1>1, InvHolds, PTL

\* When the core finishes, the solution solves the circuit with every knob at its original
\* value, whatever the solver did and whichever algorithms were run.
THEOREM FinishedSolves == Spec => []FinishedIsSolved
BY InvHolds, InvSolved, PTL

\* No way out of an algorithm leaves a knob turned or a slot behind.
THEOREM LeavesNothing == Spec => []NothingLeftBehind
BY InvHolds, InvLeaves, PTL

\* A continued step starts from the last good point, with bypassed devices only where their
\* evaluations are those of that point.
THEOREM StepsFit == Spec => []StepsStartFromWhatFits
<1>1. Inv => StepsStartFromWhatFits
  BY DEF Inv, StepsStartFromWhatFits
<1> QED BY <1>1, InvHolds, PTL

=============================================================================
