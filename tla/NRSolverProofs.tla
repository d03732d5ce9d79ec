--------------------------- MODULE NRSolverProofs ---------------------------
(***************************************************************************)
(* Proofs about NRSolver, for every circuit, all options and limits and    *)
(* any number of runs.                                                     *)
(*                                                                         *)
(* Main line: within an iteration the vectors carry the number of the      *)
(* iterate the system was built at; the iterations counted as convergent   *)
(* are the last ones, one after the other; nothing is on the error stack   *)
(* while a run goes on, so what a failure pushes is found there; and the   *)
(* flags of an instance that is trusted always go together.                *)
(***************************************************************************)
EXTENDS NRSolver, TLAPS, FiniteSetTheorems

-----------------------------------------------------------------------------
(* The inductive invariant                                                 *)

Running == {"build", "check", "factor", "solve"}

\* Iterations made in full: the one that is under way is not among them.
Made == IF phase \in {"check", "factor", "solve"} THEN iteration - 1 ELSE iteration

Limited ==
    /\ phase = "build" => iteration = 0 \/ iteration < IterationLimit
    /\ iteration = 0 => phase \in {"idle", "build"}
    /\ iteration \in 0 .. 1 \cup 0 .. IterationLimit

\* The system was built, checked and solved at x.
SameIterate ==
    /\ phase \in {"check", "factor", "solve"} => nextStatesOf = x
    /\ phase \in {"factor", "solve"} => checkedAt = x

\* The counter counts iterations that passed and follow one another.
Consecutive ==
    phase \in Running =>
        /\ convIter <= Made
        /\ (Made - convIter + 1) .. Made \subseteq passed

\* Only the last iteration of a run sets converged.
ConvergedLast ==
    /\ phase \in Running => ~converged
    /\ phase = "left" /\ converged =>
          /\ statesOf = x /\ checkedAt = x
          /\ convIter >= settings.conviter /\ convIter <= iteration
          /\ (iteration - convIter + 1) .. iteration \subseteq passed

\* What is on the error stack before the run is over.
ErrorsSoFar ==
    run.mark = 0 =>
        /\ phase \in Running => errors = {} /\ pushed = 0
        /\ phase = "left" /\ converged => errors = {}
        /\ phase = "left" /\ ~converged /\ pushed # 0 => errors \ {"left"} # {}

\* A request for forced bypass is for the first iteration of a continued run.
Requested == request => iteration = 0 /\ run.continue

FlagsAgree(i, f) ==
    /\ f.converged => f.history /\ ~f.limiting
    /\ i \notin Bypassable => ~f.bypassed /\ ~f.converged

InstancesAgree == \A i \in Instances : FlagsAgree(i, flags[i])

Inv == /\ TypeOK /\ Limited /\ SameIterate /\ Consecutive /\ ConvergedLast
       /\ ErrorsSoFar /\ ErrorsTellOutcome
       /\ Requested /\ InstancesAgree /\ BypassIsJustified

-----------------------------------------------------------------------------
(* One instance                                                            *)

\* ClearHistory forgets what the flags of an instance were agreed on.
LEMMA ClearedFlags ==
    ASSUME NEW i, NEW f \in Flags, FlagsAgree(i, f)
    PROVE  ClearHistory(f) \in Flags /\ FlagsAgree(i, ClearHistory(f))
BY DEF Flags, ClearHistory, FlagsAgree

\* What is decided about bypass before the evaluation: an instance is bypassed because
\* it is forced to be, or because its last evaluations agreed.
LEMMA DecidedFlags ==
    ASSUME NEW i, NEW f \in Flags, NEW s \in Setup, NEW o \in Outcome, FlagsAgree(i, f)
    PROVE  LET d == Decided(i, f, s, o)
           IN  /\ d \in Flags /\ FlagsAgree(i, d)
               /\ d.bypassed => ~s.highPrecision /\ (s.force \/ d.converged)
               /\ i \in Bypassable /\ ~d.bypassed => ~d.converged
<1>1. CASE i \notin Bypassable
  <2>1. Decided(i, f, s, o) = f
    BY <1>1 DEF Decided
  <2> QED BY <1>1, <2>1 DEF FlagsAgree
<1>2. CASE i \in Bypassable /\ ~BypassAllowed(f, s, o)
  <2>1. Decided(i, f, s, o) = Unconverged(f)
    BY <1>2 DEF Decided
  <2>2. Unconverged(f) \in Flags /\ ~Unconverged(f).converged /\ ~Unconverged(f).bypassed
    BY DEF Unconverged, Flags
  <2> QED BY <2>1, <2>2 DEF FlagsAgree
<1>3. CASE i \in Bypassable /\ BypassAllowed(f, s, o)
  <2> DEFINE d == [f EXCEPT !.bypassed = TRUE]
  <2>1. Decided(i, f, s, o) = d
    BY <1>3 DEF Decided
  <2>2. /\ d \in Flags /\ d.bypassed
        /\ d.converged = f.converged /\ d.history = f.history /\ d.limiting = f.limiting
    BY DEF Flags
  <2> HIDE DEF d
  <2> QED BY <1>3, <2>1, <2>2 DEF FlagsAgree, BypassAllowed
<1> QED BY <1>1, <1>2, <1>3

\* An evaluation keeps the flags of an instance in agreement and leaves it bypassed only
\* when that was asked for or is trusted.
LEMMA EvalFlags ==
    ASSUME NEW i, NEW f \in Flags, NEW s \in Setup, NEW o \in Outcome, FlagsAgree(i, f)
    PROVE  LET e == EvalCore(i, f, s, o)
           IN  /\ e \in Flags /\ FlagsAgree(i, e)
               /\ e.bypassed => ~s.highPrecision /\ (s.force \/ e.converged)
<1> DEFINE d == Decided(i, f, s, o)
           v == Evaluated(d, o)
<1>1. /\ d \in Flags /\ FlagsAgree(i, d)
      /\ d.bypassed => ~s.highPrecision /\ (s.force \/ d.converged)
      /\ i \in Bypassable /\ ~d.bypassed => ~d.converged
  BY DecidedFlags
<1>2. o.limiting \in BOOLEAN /\ o.sameOutputs \in BOOLEAN
  BY DEF Outcome
<1> HIDE DEF d
<1>3. /\ v \in Flags /\ v.bypassed = d.bypassed /\ v.converged = d.converged
      /\ v.history = d.history /\ (d.bypassed => v.limiting = d.limiting)
  BY <1>1, <1>2 DEF Evaluated, Flags
<1>4. FlagsAgree(i, v)
  BY <1>1, <1>3 DEF FlagsAgree
<1>5. CASE ~ChecksOutput(i, v, s)
  BY <1>1, <1>3, <1>4, <1>5 DEF EvalCore, d
<1>6. CASE ChecksOutput(i, v, s)
  <2>1. EvalCore(i, f, s, o) = OutputChecked(v, s, o)
    BY <1>6 DEF EvalCore, d
  <2>2. i \in Bypassable /\ ~v.bypassed
    BY <1>6 DEF ChecksOutput
  <2> HIDE DEF v
  <2>3. v.history \in BOOLEAN /\ s.highPrecision \in BOOLEAN
    BY <1>3 DEF Flags, Setup
  <2>4. CASE v.limiting
    <3> DEFINE w == [v EXCEPT !.converged = FALSE, !.history = FALSE]
    <3>1. OutputChecked(v, s, o) = w
      BY <2>4 DEF OutputChecked
    <3>2. w \in Flags /\ ~w.converged /\ w.bypassed = v.bypassed
      BY <1>3 DEF Flags
    <3> HIDE DEF w
    <3> QED BY <2>1, <2>2, <3>1, <3>2 DEF FlagsAgree
  <2>5. CASE ~v.limiting
    <3> DEFINE same == ~s.highPrecision /\ v.history /\ o.sameOutputs
               w == [v EXCEPT !.converged = same, !.history = TRUE]
    <3>1. OutputChecked(v, s, o) = w
      BY <2>5 DEF OutputChecked, Stored, OutputsAgree
    <3>2. same \in BOOLEAN
      BY <2>3, <1>2
    <3> HIDE DEF same
    <3>3. w \in Flags /\ w.history /\ w.limiting = v.limiting /\ w.bypassed = v.bypassed
      BY <1>3, <3>2 DEF Flags
    <3> HIDE DEF w
    <3> QED BY <2>1, <2>2, <2>5, <3>1, <3>3 DEF FlagsAgree
  <2> QED BY <2>4, <2>5
<1> QED BY <1>5, <1>6

-----------------------------------------------------------------------------
(* The start and between the runs                                          *)

\* The error stack a run starts with, and how many errors were pushed on it.
LEMMA StackSizes ==
    ASSUME NEW conflict \in BOOLEAN, NEW bad \in BOOLEAN
    PROVE  LET e == (IF conflict THEN {"conflict"} ELSE {}) \cup
                    (IF bad THEN {"reference"} ELSE {})
           IN  /\ e \subseteq Kinds /\ Cardinality(e) \in Nat
               /\ ~conflict /\ ~bad => e = {} /\ Cardinality(e) = 0
               /\ bad => e \ {"left"} # {}
<1> DEFINE c == IF conflict THEN {"conflict"} ELSE {}
           r == IF bad THEN {"reference"} ELSE {}
<1>1. c \subseteq {"conflict"} /\ r \subseteq {"reference"}
  OBVIOUS
<1>2. IsFiniteSet(c) /\ IsFiniteSet(r)
  BY FS_EmptySet, FS_Singleton
<1>3. IsFiniteSet(c \cup r) /\ Cardinality(c \cup r) \in Nat
  BY <1>2, FS_Union, FS_CardinalityType
<1>4. c \cup r \subseteq Kinds
  BY <1>1 DEF Kinds
<1>5. ~conflict /\ ~bad => c \cup r = {} /\ Cardinality(c \cup r) = 0
  BY FS_EmptySet
<1>6. bad => "reference" \in (c \cup r) \ {"left"}
  OBVIOUS
<1> QED BY <1>3, <1>4, <1>5, <1>6

\* The invariant holds before the first run.
LEMMA InvInit == Init => Inv
<1> SUFFICES ASSUME Init
             PROVE  Inv
  OBVIOUS
<1> USE DEF Init
<1>1. TypeOK
  <2>1. run \in [start: Starts, mark: {0, 1}, continue: BOOLEAN]
    BY DEF Starts
  <2>2. forces \in [{0, 1} -> BOOLEAN] /\ setup \in Setup
    BY DEF NoForces, NoSetup, Setup
  <2>3. flags \in [Instances -> Flags]
    BY DEF Flags, NoFlags
  <2>4. runs \in 0 .. MaxRuns
    BY OptionsAssumption
  <2>5. iteration \in 0 .. 1 /\ convIter \in 0 .. iteration /\ statesOf \in -1 .. x
    OBVIOUS
  <2>6. phase \in Phases /\ errors \subseteq Kinds /\ passed \subseteq 1 .. iteration
    BY DEF Phases
  <2> QED BY <2>1, <2>2, <2>3, <2>4, <2>5, <2>6 DEF TypeOK
<1>2. Limited /\ SameIterate /\ Consecutive /\ ConvergedLast
  BY DEF Limited, SameIterate, Consecutive, ConvergedLast, Running
<1>3. ErrorsSoFar /\ ErrorsTellOutcome /\ Requested /\ BypassIsJustified
  BY DEF ErrorsSoFar, ErrorsTellOutcome, Requested, BypassIsJustified, Running
<1>4. InstancesAgree
  BY DEF InstancesAgree, FlagsAgree, NoFlags
<1> QED BY <1>1, <1>2, <1>3, <1>4 DEF Inv

\* Sweeping an option changes none of what a run left behind.
LEMMA SweepKeeps == Inv /\ SweepOptions => Inv'
<1> SUFFICES ASSUME Inv, SweepOptions
             PROVE  Inv'
  OBVIOUS
<1> USE DEF Inv, SweepOptions, test, vector, device, report
<1>1. TypeOK'
  BY DEF TypeOK
<1>2. Limited' /\ SameIterate' /\ Consecutive' /\ ConvergedLast'
  BY DEF Limited, SameIterate, Consecutive, ConvergedLast, Running, Made, IterationLimit
<1>3. ErrorsSoFar' /\ ErrorsTellOutcome' /\ Requested' /\ BypassIsJustified'
  BY DEF ErrorsSoFar, ErrorsTellOutcome, Requested, BypassIsJustified, Running
<1>4. InstancesAgree'
  BY DEF InstancesAgree
<1> QED BY <1>1, <1>2, <1>3, <1>4

\* Neither does rebuilding the core, which takes the options for the next run.
LEMMA RebuildKeeps == Inv /\ Rebuild => Inv'
<1> SUFFICES ASSUME Inv, Rebuild
             PROVE  Inv'
  OBVIOUS
<1> USE DEF Inv, Rebuild, test, vector, report
<1>1. \A i \in Instances : flags'[i] \in Flags /\ FlagsAgree(i, flags'[i])
  BY ClearedFlags DEF TypeOK, InstancesAgree
<1>2. TypeOK'
  <2>1. flags' \in [Instances -> Flags]
    BY <1>1
  <2> QED BY <2>1, ZenonT(40) DEF TypeOK
<1>3. Limited' /\ SameIterate' /\ Consecutive' /\ ConvergedLast'
  BY DEF Limited, SameIterate, Consecutive, ConvergedLast, Running, Made, IterationLimit
<1>4. ErrorsSoFar' /\ ErrorsTellOutcome' /\ Requested' /\ BypassIsJustified'
  BY DEF ErrorsSoFar, ErrorsTellOutcome, Requested, BypassIsJustified, Running
<1>5. InstancesAgree'
  BY <1>1 DEF InstancesAgree
<1> QED BY <1>2, <1>3, <1>4, <1>5

\* A run starts with nothing on the stack but what it puts there itself.
LEMMA StartKeeps == Inv /\ StartRun => Inv'
<1> SUFFICES ASSUME Inv, StartRun
             PROVE  Inv'
  OBVIOUS
<1> USE DEF Inv
<1>1. PICK start0 \in Starts, nodesets, forceBypass, bad \in BOOLEAN : \E conflict0 \in Conflicts(start0) :
        /\ forceBypass => Continues(start0)
        /\ nodesets => start0 = "fresh"
        /\ run' = [start |-> start0, mark |-> IF conflict0 THEN 1 ELSE 0,
                   continue |-> Continues(start0)]
        /\ forces' = ForcesOf(start0, nodesets)
        /\ request' = forceBypass
        /\ errors' = (IF conflict0 THEN {"conflict"} ELSE {}) \cup
                     (IF bad THEN {"reference"} ELSE {})
        /\ pushed' = Cardinality(errors')
        /\ phase' = IF bad THEN "idle" ELSE "build"
        /\ x' = StartVector(start0, bad).x /\ statesOf' = StartVector(start0, bad).statesOf
  BY DEF StartRun
<1>1a. PICK conflict \in BOOLEAN :
        /\ conflict => start0 = "forced"
        /\ forceBypass => Continues(start0)
        /\ nodesets => start0 = "fresh"
        /\ run' = [start |-> start0, mark |-> IF conflict THEN 1 ELSE 0,
                   continue |-> Continues(start0)]
        /\ forces' = ForcesOf(start0, nodesets)
        /\ request' = forceBypass
        /\ errors' = (IF conflict THEN {"conflict"} ELSE {}) \cup
                     (IF bad THEN {"reference"} ELSE {})
        /\ pushed' = Cardinality(errors')
        /\ phase' = IF bad THEN "idle" ELSE "build"
        /\ x' = StartVector(start0, bad).x /\ statesOf' = StartVector(start0, bad).statesOf
  BY <1>1 DEF Conflicts
<1>2. /\ iteration' = 0 /\ convIter' = 0 /\ converged' = FALSE /\ highPrecision' = FALSE
      /\ abort' = FALSE /\ runs' = runs + 1 /\ passed' = {} /\ runs < MaxRuns
      /\ UNCHANGED <<opt, settings, prevented, residualOk, nextStatesOf, allow, flags, setup,
                     factored, checkedAt>>
  BY DEF StartRun
<1>3. /\ errors' \subseteq Kinds /\ pushed' \in Nat
      /\ ~conflict /\ ~bad => errors' = {} /\ pushed' = 0
      /\ bad => errors' \ {"left"} # {}
  BY <1>1a, StackSizes
<1>4. /\ run'.mark = IF conflict THEN 1 ELSE 0
      /\ run'.continue = Continues(start0)
      /\ run' \in [start: Starts, mark: {0, 1}, continue: BOOLEAN]
  BY <1>1a DEF Continues
<1>5. x' \in Nat /\ statesOf' \in -1 .. x'
  BY <1>1a DEF StartVector, Starts, TypeOK
<1>6. TypeOK'
  <2>1. forces' \in [{0, 1} -> BOOLEAN]
    <3>1. \A slot \in {0, 1} : ForcesOf(start0, nodesets)[slot] \in BOOLEAN
      BY <1>1a DEF ForcesOf, Starts
    <3> QED BY <3>1, <1>1a DEF ForcesOf
  <2>2. runs' \in 0 .. MaxRuns
    BY <1>2, OptionsAssumption DEF TypeOK
  <2>3. phase' \in Phases /\ request' \in BOOLEAN
    BY <1>1a DEF Phases
  <2>4. iteration' \in 0 .. 1 /\ convIter' \in 0 .. iteration' /\ passed' \subseteq 1 .. iteration'
    BY <1>2
  <2>5. converged' \in BOOLEAN /\ highPrecision' \in BOOLEAN /\ abort' \in BOOLEAN
    BY <1>2
  <2> QED BY <1>2, <1>3, <1>4, <1>5, <2>1, <2>2, <2>3, <2>4, <2>5 DEF TypeOK
<1>7. Limited'
  BY <1>1a, <1>2, OptionsAssumption DEF Limited, IterationLimit
<1>8. SameIterate' /\ Consecutive' /\ ConvergedLast'
  BY <1>1a, <1>2 DEF SameIterate, Consecutive, ConvergedLast, Running, Made
<1>9. ErrorsSoFar' /\ ErrorsTellOutcome'
  <2>1. CASE bad
    BY <1>1a, <1>2, <1>3, <2>1 DEF ErrorsSoFar, ErrorsTellOutcome, Running
  <2>2. CASE ~bad
    <3>1. phase' = "build"
      BY <1>1a, <2>2
    <3>2. run'.mark = 0 => errors' = {} /\ pushed' = 0
      BY <1>3, <1>4, <2>2
    <3> QED BY <3>1, <3>2 DEF ErrorsSoFar, ErrorsTellOutcome
  <2> QED BY <2>1, <2>2
<1>10. Requested' /\ BypassIsJustified' /\ InstancesAgree'
  BY <1>1a, <1>2, <1>4 DEF Requested, BypassIsJustified, InstancesAgree
<1> QED BY <1>6, <1>7, <1>8, <1>9, <1>10

-----------------------------------------------------------------------------
(* One iteration                                                           *)

\* Within a run the number of iterations made is within the limit of the run.
LEMMA WithinLimit ==
    ASSUME Inv, phase \in {"check", "factor", "solve"}
    PROVE  /\ iteration \in Nat \ {0} /\ convIter \in Nat /\ convIter <= iteration - 1
           /\ (iteration - convIter) .. (iteration - 1) \subseteq passed
           /\ nextStatesOf = x /\ ~converged /\ phase \in Running
<1>1. iteration \in Nat /\ convIter \in Nat /\ iteration # 0
  BY OptionsAssumption DEF Inv, TypeOK, Limited
<1>2. phase \in Running /\ Made = iteration - 1
  BY DEF Running, Made
<1>3. convIter <= Made /\ (Made - convIter + 1) .. Made \subseteq passed
  BY <1>2 DEF Inv, Consecutive
<1>4. Made - convIter + 1 = iteration - convIter
  BY <1>1, <1>2
<1> QED BY <1>1, <1>2, <1>3, <1>4 DEF Inv, SameIterate, ConvergedLast

\* An evaluation reaches every instance unless its load fails before.
LEMMA AllEvaluated ==
    \A i \in Instances : \E k \in 1 .. Len(Order) : Order[k] = i
BY OrderAssumption

\* The evaluation of all instances at the iterate.
LEMMA BuildKeeps == Inv /\ BuildSystem => Inv'
<1> SUFFICES ASSUME Inv, BuildSystem
             PROVE  Inv'
  OBVIOUS
<1>1. /\ phase = "build" /\ iteration' = iteration + 1
      /\ forces' = ForcesIn(iteration') /\ request' = FALSE
      /\ setup' = EvalSetup(iteration') /\ allow' = setup'.allow
      /\ prevented' = LimitingApplied(flags') /\ nextStatesOf' = x
      /\ UNCHANGED <<opt, settings, run, convIter, converged, highPrecision, residualOk, x,
                     statesOf, factored, runs, passed, checkedAt>>
  BY DEF BuildSystem, EvalAndLoad
<1>2. PICK outcomes \in Outcomes, failed, fatal \in BOOLEAN, last \in DOMAIN Order :
        /\ ~failed => last = Len(Order)
        /\ flags' = [i \in Instances |->
                        IF \E k \in 1 .. last : Order[k] = i
                        THEN EvalCore(i, flags[i], setup', outcomes[i]) ELSE flags[i]]
        /\ fatal => ~failed /\ \E i \in Instances : ~flags'[i].bypassed
        /\ abort' = fatal
        /\ IF failed \/ fatal THEN Push("load") /\ phase' = "left"
           ELSE phase' = "check" /\ UNCHANGED report
  BY DEF BuildSystem, EvalAndLoad
<1>3. /\ iteration \in Nat /\ convIter \in Nat /\ ~converged /\ convIter <= iteration
      /\ (iteration - convIter + 1) .. iteration \subseteq passed
      /\ passed \subseteq 1 .. iteration
      /\ (iteration = 0 \/ iteration < IterationLimit)
  BY <1>1, OptionsAssumption
     DEF Inv, TypeOK, Limited, Consecutive, ConvergedLast, Running, Made
<1>4. setup' = [nrBypass |-> opt.bypass, allow |-> AllowIn(iteration'), force |-> request,
                highPrecision |-> highPrecision]
  BY <1>1 DEF EvalSetup
<1>5. setup' \in Setup /\ allow' \in BOOLEAN
  <2>1. opt.bypass \in BOOLEAN /\ request \in BOOLEAN /\ highPrecision \in BOOLEAN
    BY OptionsAssumption DEF Inv, TypeOK
  <2>2. AllowIn(iteration') \in BOOLEAN
    BY <2>1 DEF AllowIn, Inv, TypeOK
  <2> QED BY <1>1, <1>4, <2>1, <2>2 DEF Setup
<1>6. \A i \in Instances :
        LET e == EvalCore(i, flags[i], setup', outcomes[i])
        IN  /\ e \in Flags /\ FlagsAgree(i, e)
            /\ e.bypassed => ~setup'.highPrecision /\ (setup'.force \/ e.converged)
  <2> TAKE i \in Instances
  <2>1. flags[i] \in Flags /\ FlagsAgree(i, flags[i])
    BY DEF Inv, TypeOK, InstancesAgree
  <2>2. outcomes[i] \in Outcome
    BY <1>2 DEF Outcomes
  <2> QED BY <2>1, <2>2, <1>5, EvalFlags
<1>7. flags' \in [Instances -> Flags] /\ \A i \in Instances : FlagsAgree(i, flags'[i])
  <2>1. \A i \in Instances : flags[i] \in Flags /\ FlagsAgree(i, flags[i])
    BY DEF Inv, TypeOK, InstancesAgree
  <2> QED BY <2>1, <1>2, <1>6
<1>8. \/ phase' = "check" /\ errors' = errors /\ pushed' = pushed /\ ~failed
      \/ phase' = "left" /\ errors' = errors \cup {"load"} /\ pushed' = pushed + 1
  BY <1>2 DEF Push, report
<1>9. TypeOK'
  <2>1. iteration' \in 0 .. 1 \cup 0 .. ItLim \cup 0 .. ItLimCont
    BY <1>1, <1>3, OptionsAssumption DEF IterationLimit
  <2>2. convIter' \in 0 .. iteration' /\ passed' \subseteq 1 .. iteration'
    BY <1>1, <1>3
  <2>3. forces' \in [{0, 1} -> BOOLEAN]
    BY <1>1 DEF ForcesIn, NoForces, Inv, TypeOK
  <2>4. prevented' \in BOOLEAN
    BY <1>1 DEF LimitingApplied
  <2>5. phase' \in Phases /\ errors' \subseteq Kinds /\ pushed' \in Nat
    <3>1. errors \subseteq Kinds /\ pushed \in Nat /\ "load" \in Kinds
      BY DEF Inv, TypeOK, Kinds
    <3> QED BY <3>1, <1>8 DEF Phases
  <2>6. abort' \in BOOLEAN /\ nextStatesOf' \in Nat /\ request' \in BOOLEAN
    BY <1>1, <1>2 DEF Inv, TypeOK
  <2> QED BY <1>1, <1>5, <1>7, <2>1, <2>2, <2>3, <2>4, <2>5, <2>6 DEF Inv, TypeOK
<1>10. Limited'
  <2>1. iteration' \in 0 .. 1 \cup 0 .. IterationLimit /\ iteration' # 0
    BY <1>1, <1>3, OptionsAssumption DEF IterationLimit
  <2> QED BY <2>1, <1>1, <1>8 DEF Limited, IterationLimit
<1>11. SameIterate' /\ ConvergedLast'
  BY <1>1, <1>3, <1>8 DEF SameIterate, ConvergedLast, Running
<1>12. Consecutive'
  <2>1. CASE phase' = "left"
    BY <2>1 DEF Consecutive, Running
  <2>2. CASE phase' = "check"
    <3>1. Made' = iteration
      BY <1>1, <1>3, <2>2 DEF Made
    <3> QED BY <3>1, <1>1, <1>3 DEF Consecutive
  <2> QED BY <1>8, <2>1, <2>2
<1>13. ErrorsSoFar' /\ ErrorsTellOutcome'
  <2>1. run.mark = 0 => errors = {} /\ pushed = 0
    BY <1>1 DEF Inv, ErrorsSoFar, Running
  <2> QED BY <2>1, <1>1, <1>3, <1>8 DEF ErrorsSoFar, ErrorsTellOutcome, Running
<1>14. Requested' /\ InstancesAgree'
  BY <1>1, <1>7 DEF Requested, InstancesAgree
<1>15. BypassIsJustified'
  <2> SUFFICES ASSUME phase' = "check", NEW i \in Instances, flags'[i].bypassed
               PROVE  /\ ~setup'.highPrecision
                      /\ \/ setup'.force /\ iteration' = 1 /\ run'.continue
                         \/ flags'[i].history /\ flags'[i].converged /\ ~flags'[i].limiting
    BY DEF BypassIsJustified
  <2>1. flags'[i] = EvalCore(i, flags[i], setup', outcomes[i])
    BY <1>2, <1>8, AllEvaluated
  <2>2. ~setup'.highPrecision /\ (setup'.force \/ flags'[i].converged)
    BY <1>6, <2>1
  <2>3. setup'.force => iteration' = 1 /\ run'.continue
    BY <1>1, <1>4 DEF Inv, Requested
  <2>4. flags'[i].converged => flags'[i].history /\ ~flags'[i].limiting
    BY <1>7 DEF FlagsAgree
  <2> QED BY <2>2, <2>3, <2>4
<1> QED BY <1>9, <1>10, <1>11, <1>12, <1>13, <1>14, <1>15 DEF Inv

\* The residual at the iterate, or a system that is not finite.
LEMMA CheckKeeps == Inv /\ CheckSystem => Inv'
<1> SUFFICES ASSUME Inv, CheckSystem
             PROVE  Inv'
  OBVIOUS
<1>1. /\ phase = "check"
      /\ UNCHANGED <<opt, settings, run, iteration, convIter, converged, highPrecision, prevented,
                     vector, forces, device, factored, runs, passed>>
      /\ \/ /\ phase' = "left" /\ errors' = errors \cup {"matrix"} /\ pushed' = pushed + 1
            /\ residualOk' = residualOk /\ checkedAt' = checkedAt
         \/ /\ phase' = "factor" /\ errors' = errors /\ pushed' = pushed
            /\ residualOk' \in BOOLEAN /\ checkedAt' = x
  BY DEF CheckSystem, ResidualOutcomes, Push, report
<1>2. /\ iteration \in Nat \ {0} /\ convIter \in Nat /\ convIter <= iteration - 1
      /\ (iteration - convIter) .. (iteration - 1) \subseteq passed
      /\ nextStatesOf = x /\ ~converged /\ phase \in Running
  BY <1>1, WithinLimit
<1>3. TypeOK'
  <2>1. errors \subseteq Kinds /\ pushed \in Nat /\ "matrix" \in Kinds /\ x \in Nat
    BY DEF Inv, TypeOK, Kinds
  <2>2. phase' \in Phases /\ errors' \subseteq Kinds /\ pushed' \in Nat /\ residualOk' \in BOOLEAN
        /\ checkedAt' \in Nat
    BY <1>1, <2>1 DEF Phases, Inv, TypeOK
  <2> QED BY <1>1, <2>2 DEF Inv, TypeOK, vector, device
<1>4. Limited' /\ SameIterate' /\ ConvergedLast'
  BY <1>1, <1>2 DEF Inv, Limited, SameIterate, ConvergedLast, Running, IterationLimit, vector
<1>5. Consecutive'
  BY <1>1 DEF Inv, Consecutive, Running, Made
<1>6. ErrorsSoFar' /\ ErrorsTellOutcome'
  BY <1>1, <1>2 DEF Inv, ErrorsSoFar, ErrorsTellOutcome, Running
<1>7. Requested' /\ InstancesAgree' /\ BypassIsJustified'
  BY <1>1 DEF Inv, Requested, InstancesAgree, BypassIsJustified, device
<1> QED BY <1>3, <1>4, <1>5, <1>6, <1>7 DEF Inv

\* A failed refactorization leaves nothing on the stack when the full one succeeds.
LEMMA FactorKeeps == Inv /\ Factor => Inv'
<1> SUFFICES ASSUME Inv, Factor
             PROVE  Inv'
  OBVIOUS
<1>1. /\ phase = "factor"
      /\ UNCHANGED <<opt, settings, run, iteration, test, vector, forces, device, runs, passed,
                     checkedAt>>
  BY DEF Factor
<1>2. /\ factored' \in BOOLEAN
      /\ \/ /\ phase' = "solve"
            /\ \/ errors' = errors /\ pushed' = pushed
               \/ errors' = {} /\ pushed' = 0
         \/ /\ phase' = "left" /\ errors' = errors \cup {"factor"}
            /\ pushed' \in {pushed + 1, pushed + 2}
  BY DEF Factor, FallbackReport, report
<1>3. /\ iteration \in Nat \ {0} /\ convIter \in Nat /\ convIter <= iteration - 1
      /\ (iteration - convIter) .. (iteration - 1) \subseteq passed
      /\ nextStatesOf = x /\ ~converged /\ phase \in Running
  BY <1>1, WithinLimit
<1>4. TypeOK'
  <2>1. errors \subseteq Kinds /\ pushed \in Nat /\ "factor" \in Kinds
    BY DEF Inv, TypeOK, Kinds
  <2>2. phase' \in Phases /\ errors' \subseteq Kinds /\ pushed' \in Nat
    BY <1>2, <2>1 DEF Phases
  <2> QED BY <1>1, <1>2, <2>2 DEF Inv, TypeOK, test, vector, device
<1>5. Limited' /\ SameIterate' /\ ConvergedLast'
  BY <1>1, <1>2, <1>3
     DEF Inv, Limited, SameIterate, ConvergedLast, Running, IterationLimit, vector, test
<1>6. Consecutive'
  BY <1>1, <1>2 DEF Inv, Consecutive, Running, Made, test
<1>7. ErrorsSoFar' /\ ErrorsTellOutcome'
  <2>1. run.mark = 0 => errors = {} /\ pushed = 0
    BY <1>3 DEF Inv, ErrorsSoFar
  <2> QED BY <2>1, <1>1, <1>2, <1>3 DEF ErrorsSoFar, ErrorsTellOutcome, Running, test
<1>8. Requested' /\ InstancesAgree' /\ BypassIsJustified'
  BY <1>1, <1>2 DEF Inv, Requested, InstancesAgree, BypassIsJustified, device
<1> QED BY <1>4, <1>5, <1>6, <1>7, <1>8 DEF Inv

\* A solution that fails ends the run with its reason on the stack.
LEMMA SolveFailsKeeps == Inv /\ SolveFails => Inv'
<1> SUFFICES ASSUME Inv, SolveFails
             PROVE  Inv'
  OBVIOUS
<1>1. /\ phase = "solve" /\ phase' = "left" /\ pushed' = pushed + 1
      /\ UNCHANGED <<opt, settings, run, iteration, test, vector, forces, device, factored, runs,
                     passed, checkedAt>>
      /\ errors' = errors \cup {"solve"} \/ errors' = errors \cup {"solution"}
  BY DEF SolveFails, Push
<1>2. iteration \in Nat \ {0} /\ ~converged
  BY <1>1, WithinLimit
<1>3. TypeOK'
  <2>1. errors \subseteq Kinds /\ pushed \in Nat /\ "solve" \in Kinds /\ "solution" \in Kinds
    BY DEF Inv, TypeOK, Kinds
  <2>2. phase' \in Phases /\ errors' \subseteq Kinds /\ pushed' \in Nat
    BY <1>1, <2>1 DEF Phases
  <2> QED BY <1>1, <2>2 DEF Inv, TypeOK, test, vector, device
<1>4. Limited' /\ SameIterate' /\ ConvergedLast' /\ Consecutive'
  BY <1>1, <1>2
     DEF Inv, Limited, SameIterate, ConvergedLast, Consecutive, Running, IterationLimit, vector, test
<1>5. ErrorsSoFar' /\ ErrorsTellOutcome'
  BY <1>1, <1>2 DEF Inv, ErrorsSoFar, ErrorsTellOutcome, Running, test
<1>6. Requested' /\ InstancesAgree' /\ BypassIsJustified'
  BY <1>1 DEF Inv, Requested, InstancesAgree, BypassIsJustified, device
<1> QED BY <1>3, <1>4, <1>5, <1>6 DEF Inv

\* An iteration that is completed: the run converges at the iterate that was checked, or
\* goes on, or runs out of iterations.
LEMMA SolveKeeps == Inv /\ SolveAndTest => Inv'
<1> SUFFICES ASSUME Inv, SolveAndTest
             PROVE  Inv'
  OBVIOUS
<1>1. /\ phase = "solve"
      /\ UNCHANGED <<opt, settings, run, iteration, prevented, residualOk, nextStatesOf, forces,
                     device, factored, report, runs, checkedAt>>
  BY DEF SolveAndTest
<1>2. /\ iteration \in Nat \ {0} /\ convIter \in Nat /\ convIter <= iteration - 1
      /\ (iteration - convIter) .. (iteration - 1) \subseteq passed
      /\ nextStatesOf = x /\ checkedAt = x /\ ~converged /\ phase \in Running
  BY <1>1, WithinLimit DEF Inv, SameIterate
<1>3. PICK deltaOk \in DeltaOutcomes :
        LET g == Convergent(deltaOk)
            d == CountConvergent(g) >= settings.conviter
        IN  /\ convIter' = CountConvergent(g) /\ converged' = d
            /\ passed' = IF g THEN passed \cup {iteration} ELSE passed
            /\ statesOf' = StatesAfter(d) /\ x' = IterateAfter(d)
            /\ phase' = IF d \/ iteration >= IterationLimit THEN "left" ELSE "build"
  BY DEF SolveAndTest
<1> DEFINE good == Convergent(deltaOk)
           done == CountConvergent(good) >= settings.conviter
<1>3a. /\ good \in BOOLEAN /\ done \in BOOLEAN
       /\ convIter' = CountConvergent(good) /\ converged' = done
       /\ done = (CountConvergent(good) >= settings.conviter)
       /\ passed' = IF good THEN passed \cup {iteration} ELSE passed
       /\ statesOf' = nextStatesOf /\ x' = IF done THEN x ELSE x + 1
       /\ phase' = IF done \/ iteration >= IterationLimit THEN "left" ELSE "build"
  BY <1>3 DEF StatesAfter, IterateAfter, Convergent
<1> HIDE DEF good, done
<1>4. highPrecision' \in BOOLEAN
  BY DEF SolveAndTest
<1>5. /\ convIter' \in Nat /\ convIter' <= iteration
      /\ (iteration - convIter' + 1) .. iteration \subseteq passed'
      /\ passed' \subseteq 1 .. iteration
  <2>1. passed \subseteq 1 .. iteration
    BY DEF Inv, TypeOK
  <2>2. CASE good
    <3>1. convIter' = convIter + 1 /\ passed' = passed \cup {iteration}
      BY <1>3a, <2>2 DEF CountConvergent
    <3>2. iteration - convIter' + 1 = iteration - convIter
      BY <3>1, <1>2
    <3>3. \A n \in (iteration - convIter) .. iteration :
             n \in (iteration - convIter) .. (iteration - 1) \/ n = iteration
      BY <1>2
    <3> QED BY <3>1, <3>2, <3>3, <2>1, <1>2
  <2>3. CASE ~good
    <3>1. convIter' = 0 /\ passed' = passed
      BY <1>3a, <2>3 DEF CountConvergent
    <3> QED BY <3>1, <2>1, <1>2
  <2> QED BY <2>2, <2>3
<1>6. settings.conviter \in Nat \ {0} /\ x \in Nat
  BY OptionsAssumption DEF Inv, TypeOK
<1>7. TypeOK'
  <2>1. x' \in Nat /\ statesOf' \in -1 .. x'
    BY <1>2, <1>3a, <1>6
  <2>2. convIter' \in 0 .. iteration' /\ passed' \subseteq 1 .. iteration'
    BY <1>1, <1>2, <1>5
  <2>3. phase' \in Phases /\ converged' \in BOOLEAN
    BY <1>3a DEF Phases
  <2> QED BY <1>1, <1>4, <2>1, <2>2, <2>3 DEF Inv, TypeOK, device, report
<1>8. Limited'
  <2>1. IterationLimit' = IterationLimit /\ IterationLimit \in Nat
    BY <1>1, OptionsAssumption DEF IterationLimit
  <2> QED BY <1>1, <1>2, <1>3a, <2>1 DEF Inv, Limited
<1>9. SameIterate' /\ Consecutive'
  <2>1. phase' \in {"left", "build"}
    BY <1>3a
  <2>2. Made' = iteration
    BY <2>1, <1>1 DEF Made
  <2> QED BY <2>1, <2>2, <1>5 DEF SameIterate, Consecutive
<1>10. ConvergedLast'
  <2>1. phase' \in Running => ~converged'
    BY <1>3a DEF Running
  <2>2. converged' => /\ statesOf' = x' /\ checkedAt' = x'
                      /\ convIter' >= settings'.conviter /\ convIter' <= iteration'
                      /\ (iteration' - convIter' + 1) .. iteration' \subseteq passed'
    BY <1>1, <1>2, <1>3a, <1>5
  <2> QED BY <2>1, <2>2 DEF ConvergedLast
<1>11. ErrorsSoFar' /\ ErrorsTellOutcome'
  <2>1. run.mark = 0 => errors = {} /\ pushed = 0
    BY <1>2 DEF Inv, ErrorsSoFar
  <2> QED BY <2>1, <1>1, <1>3a DEF ErrorsSoFar, ErrorsTellOutcome, report
<1>12. Requested' /\ InstancesAgree' /\ BypassIsJustified'
  BY <1>1, <1>3a DEF Inv, Requested, InstancesAgree, BypassIsJustified, device
<1> QED BY <1>7, <1>8, <1>9, <1>10, <1>11, <1>12 DEF Inv

\* What is pushed at the end of a run gives a failure a reason.
LEMMA LeaveKeeps == Inv /\ Leave => Inv'
<1> SUFFICES ASSUME Inv, Leave
             PROVE  Inv'
  OBVIOUS
<1>1. /\ phase = "left" /\ phase' = "idle"
      /\ errors' = errors \cup (IF Unexplained THEN {"report"} ELSE {})
                          \cup (IF converged THEN {} ELSE {"left"})
      /\ pushed' \in {pushed, pushed + 1, pushed + 3}
      /\ UNCHANGED <<opt, settings, run, iteration, test, vector, forces, device, factored, runs,
                     passed, checkedAt>>
  <2>1. pushed \in Nat
    BY DEF Inv, TypeOK
  <2>2. pushed' \in {pushed, pushed + 1, pushed + 3}
    BY <2>1 DEF Leave
  <2> QED BY <2>2 DEF Leave
<1>2. TypeOK'
  BY <1>1 DEF Inv, TypeOK, Phases, Kinds, test, vector, device
<1>3. Limited' /\ SameIterate' /\ ConvergedLast' /\ Consecutive' /\ ErrorsSoFar'
  BY <1>1 DEF Inv, Limited, SameIterate, ConvergedLast, Consecutive, ErrorsSoFar, Running,
              IterationLimit, vector, test
<1>4. ErrorsTellOutcome'
  <2> SUFFICES ASSUME run.mark = 0
               PROVE  IF converged THEN errors' = {} ELSE errors' \ {"left"} # {}
    BY <1>1 DEF ErrorsTellOutcome, test
  <2>1. CASE converged
    BY <1>1, <2>1 DEF Inv, ErrorsSoFar, Unexplained
  <2>2. CASE ~converged /\ pushed = 0
    <3>1. "report" \in errors' \ {"left"}
      BY <1>1, <2>2 DEF Unexplained
    <3> QED BY <3>1, <2>2
  <2>3. CASE ~converged /\ pushed # 0
    BY <1>1, <2>3 DEF Inv, ErrorsSoFar
  <2> QED BY <2>1, <2>2, <2>3
<1>5. Requested' /\ InstancesAgree' /\ BypassIsJustified'
  BY <1>1 DEF Inv, Requested, InstancesAgree, BypassIsJustified, device
<1> QED BY <1>2, <1>3, <1>4, <1>5 DEF Inv

-----------------------------------------------------------------------------
(* The theorems                                                            *)

\* Every step of the solver, and of what happens between its runs, keeps the invariant.
LEMMA InvNext == Inv /\ [Next]_vars => Inv'
<1> SUFFICES ASSUME Inv, [Next]_vars
             PROVE  Inv'
  OBVIOUS
<1>1. CASE Next
  BY <1>1, SweepKeeps, RebuildKeeps, StartKeeps, BuildKeeps, CheckKeeps, FactorKeeps,
     SolveFailsKeeps, SolveKeeps, LeaveKeeps DEF Next, Iterate
<1>2. CASE UNCHANGED vars
  <2> USE <1>2 DEF Inv, vars, test, vector, device, report
  <2>1. TypeOK'
    BY DEF TypeOK
  <2>2. Limited' /\ SameIterate' /\ Consecutive' /\ ConvergedLast'
    BY DEF Limited, SameIterate, Consecutive, ConvergedLast, Running, Made, IterationLimit
  <2>3. ErrorsSoFar' /\ ErrorsTellOutcome' /\ Requested' /\ BypassIsJustified' /\ InstancesAgree'
    BY DEF ErrorsSoFar, ErrorsTellOutcome, Requested, BypassIsJustified, InstancesAgree, Running
  <2> QED BY <2>1, <2>2, <2>3
<1> QED BY <1>1, <1>2

\* The inductive invariant holds in every state of NRSolver::run and between its runs.
THEOREM InvHolds == Spec => []Inv
BY InvInit, InvNext, PTL DEF Spec

\* The invariant implies that the result of a converged run belongs together.
LEMMA InvCoherent == Inv => OutcomeIsCoherent
<1> SUFFICES ASSUME Inv, Succeeds
             PROVE  /\ statesOf = x /\ checkedAt = x
                    /\ (iteration - settings.conviter + 1) .. iteration \subseteq passed
  BY DEF OutcomeIsCoherent, ResultIsCoherent, Inv
<1>1. /\ statesOf = x /\ checkedAt = x /\ convIter >= settings.conviter
      /\ (iteration - convIter + 1) .. iteration \subseteq passed
  BY DEF Inv, ConvergedLast, Succeeds
<1>2. iteration \in Int /\ convIter \in Int /\ settings.conviter \in Int
  BY OptionsAssumption DEF Inv, TypeOK
<1> QED BY <1>1, <1>2

\* Types of the state of the solver and of what a run leaves behind.
THEOREM TypeCorrect == Spec => []TypeOK
BY InvHolds, PTL DEF Inv

\* What a run of the solver reports, its result and its error stack, is the outcome it had:
\* NRSolver::run with any options, limits and instances.
THEOREM CoherentOutcome == Spec => []OutcomeIsCoherent
BY InvHolds, InvCoherent, PTL

\* OsdiInstance::evalCore bypasses an instance only where that was asked for in the first
\* iteration of a continued run, or where its own last evaluations agreed.
THEOREM JustifiedBypass == Spec => []BypassIsJustified
BY InvHolds, PTL DEF Inv
=============================================================================
