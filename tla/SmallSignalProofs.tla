------------------------- MODULE SmallSignalProofs -------------------------
(***************************************************************************)
(* Proofs about SmallSignal, for every set of cores, number of frequencies *)
(* and of sources, and number of runs.                                     *)
(* Main line: on its way through a run a core holds only what belongs to   *)
(* the run, when it factors the matrix is the system at this frequency,    *)
(* when it solves so are the factors, and one point has been written for   *)
(* each frequency before this one.                                         *)
(***************************************************************************)
EXTENDS SmallSignal, TLAPS

-----------------------------------------------------------------------------
(* The inductive invariant                                                 *)

States == {"idle", "op", "eval", "collect", "stopped", "sweep", "load", "factor", "solve", "ended"}

Point == [frequency : 1 .. Points, used : [1 .. Excitations -> SUBSET Matrix]]

Typed ==
    /\ kind \in Kinds
    /\ live \in SUBSET (1 .. Sources)
    /\ runs \in 0 .. MaxRuns
    /\ pc \in States
    /\ at \in 1 .. Points
    /\ held \in 0 .. MaxRuns
    /\ matrix \in Matrix
    /\ factors \in SUBSET Matrix
    /\ results \in [1 .. Excitations -> SUBSET Matrix]
    /\ points \in Seq(Point)
    /\ errors \in BOOLEAN
    /\ requested \in BOOLEAN
    /\ outcome \in {"none", "Finished", "Aborted", "Stopped"}

\* the states a core passes through
Route ==
    /\ kind \in DcKinds => at = 1 /\ pc \in {"idle", "op", "solve", "ended"}
    /\ kind \in HbKinds => pc \notin {"eval", "stopped"}
    /\ kind \notin HbKinds => pc # "collect"

\* what has been evaluated, and the parts of the matrix, are those of this run
PartsOfThisRun ==
    kind \notin DcKinds =>
      /\ pc \in {"stopped", "sweep", "load", "factor", "solve"} => held = runs
      /\ pc \in {"stopped", "sweep", "load"} /\ kind \notin HbKinds => matrix.real = runs
      /\ pc \in {"factor", "solve"} => matrix = SystemAt(at)

\* a point for each frequency the sweep has passed
PointsSoFar ==
    /\ pc \in {"op", "eval", "collect", "stopped", "sweep"} => points = <<>>
    /\ pc \in {"load", "factor", "solve"} => Len(points) = at - 1
    /\ Len(points) <= Points

NoErrorOnTheWay ==
    /\ pc \notin {"idle", "stopped", "ended"} => outcome = "none"
    /\ pc = "stopped" => outcome = "Stopped"
    /\ kind # "sp" /\ pc # "ended" => ~errors

Inv ==
    /\ Typed
    /\ Route
    /\ PartsOfThisRun
    /\ FactorsOfThisSystem
    /\ PointsSoFar
    /\ PointsAreFresh
    /\ NoErrorOnTheWay
    /\ FinishedIsComplete

-----------------------------------------------------------------------------
\* The number of excitations of a core is a positive number.
LEMMA ExcitationsType ==
    ASSUME kind \in Kinds
    PROVE  Excitations \in Nat \ {0}
BY KindsAssumption, BoundsAssumption DEF Excitations, AllKinds

\* The system at a frequency is a matrix.
LEMMA SystemType ==
    ASSUME NEW f \in 1 .. Points, runs \in 0 .. MaxRuns
    PROVE  SystemAt(f) \in Matrix
<1>1. /\ 0 \in 0 .. Points /\ f \in 0 .. Points
      /\ {<<runs, f>>} \in SUBSET ((0 .. MaxRuns) \X (1 .. Points))
      /\ {} \in SUBSET ((0 .. MaxRuns) \X (1 .. Points))
  BY BoundsAssumption
<1> QED
  BY <1>1 DEF SystemAt, Matrix

\* What a step of a core is, with the cores that take it.
LEMMA StepCases ==
    ASSUME Step
    PROVE  \/ ResolveFails
           \/ kind \in DcKinds /\ SolveAndKeepFactors
           \/ kind \notin DcKinds \cup HbKinds /\ (SolveOperatingPoint \/ Evaluate \/ LoadFrequency)
           \/ kind \in HbKinds /\ (SolvePeriodic \/ CollectSpectra \/ FillFrequency)
           \/ kind \notin DcKinds /\ (SetupSweep \/ Factor)
           \/ SolveAC \/ SolveHBAC \/ SolveXF \/ SolveStb \/ SolveNoise \/ SolveHBNoise
           \/ SolveSP \/ SolveDCIncrement \/ SolveDCXF
BY DEF Step, OpenAC, OpenXF, OpenSP, OpenStb, OpenNoise, OpenHBAC, OpenHBNoise,
       OpenDCIncrement, OpenDCXF, PrepareAC, PrepareXF, PrepareSP, PrepareStb,
       PrepareNoise, PrepareHBAC, PrepareHBNoise, DcKinds, HbKinds

-----------------------------------------------------------------------------
(* Steps before the first frequency                                        *)

\* Excitations, the sources with a result and the system at a frequency do not
\* change within a run.
LEMMA SameRun ==
    ASSUME kind' = kind, live' = live, runs' = runs
    PROVE  /\ Excitations' = Excitations /\ Solved' = Solved /\ Point' = Point
           /\ \A f : SystemAt(f)' = SystemAt(f)
BY DEF Excitations, Solved, SystemAt, Point

\* A step that writes no point leaves the points of the run fresh.
LEMMA NoPointWritten ==
    ASSUME PointsAreFresh, kind' = kind, live' = live, runs' = runs, points' = points
    PROVE  PointsAreFresh'
<1>1. /\ Solved' = Solved
      /\ \A f : SystemAt(f)' = SystemAt(f)
  BY SameRun
<1> QED
  BY <1>1 DEF PointsAreFresh

\* A run starts with nothing written, whatever the last one left behind.
LEMMA StartKeepsInv ==
    ASSUME Inv, Start
    PROVE  Inv'
<1> USE DEF Inv, Start, Rebuild
<1>1. /\ Excitations' = Excitations /\ EmptyMatrix \in Matrix /\ Nothing \in SUBSET Matrix
      /\ Point' = Point /\ runs \in 0 .. MaxRuns
  BY BoundsAssumption DEF Excitations, EmptyMatrix, Matrix, Nothing, Point, Typed
<1>2. runs' \in 0 .. MaxRuns
  BY <1>1, BoundsAssumption
<1>3. Typed'
  <2>1. matrix' \in Matrix /\ factors' \in SUBSET Matrix
    BY <1>1 DEF Typed
  <2>2. points' \in Seq(Point) /\ pc' \in States
    BY DEF States
  <2> QED
    BY <1>1, <1>2, <2>1, <2>2 DEF Typed
<1>4. Route' /\ PartsOfThisRun' /\ FactorsOfThisSystem' /\ PointsSoFar' /\ FinishedIsComplete'
  BY BoundsAssumption DEF Route, PartsOfThisRun, FactorsOfThisSystem, PointsSoFar, FinishedIsComplete
<1>5. PointsAreFresh'
  BY DEF PointsAreFresh
<1>6. NoErrorOnTheWay'
  BY DEF NoErrorOnTheWay
<1> QED
  BY <1>3, <1>4, <1>5, <1>6

\* A rebuild that fails ends the analysis and writes nothing.
LEMMA RebuildFailsKeepsInv ==
    ASSUME Inv, RebuildFails
    PROVE  Inv'
<1> USE DEF Inv, RebuildFails, Abort
<1>1. EmptyMatrix \in Matrix /\ Nothing \in SUBSET Matrix
  BY BoundsAssumption DEF EmptyMatrix, Matrix, Nothing
<1>2. Typed'
  <2>1. matrix' \in Matrix /\ factors' \in SUBSET Matrix
    BY <1>1 DEF Typed, JacobianFails, CollectPortsFails, BindFails, ResolveSpursFails, SolverFails,
         Rebuild
  <2>2. pc' \in States
    BY DEF States
  <2> QED
    BY <2>1, <2>2, SameRun DEF Typed
<1>3. Route' /\ PartsOfThisRun' /\ FactorsOfThisSystem' /\ PointsSoFar' /\ FinishedIsComplete'
      /\ NoErrorOnTheWay'
  BY BoundsAssumption DEF Route, PartsOfThisRun, FactorsOfThisSystem, PointsSoFar, FinishedIsComplete,
       NoErrorOnTheWay
<1> QED
  BY <1>2, <1>3, NoPointWritten

\* A core that does not find its sources has written nothing.
LEMMA ResolveFailsKeepsInv ==
    ASSUME Inv, ResolveFails
    PROVE  Inv'
<1> USE DEF Inv, ResolveFails, Abort
<1>1. Typed'
  BY SameRun DEF Typed, States, ClearedResults, Nothing
<1>2. Route' /\ PartsOfThisRun' /\ FactorsOfThisSystem' /\ PointsSoFar' /\ FinishedIsComplete'
      /\ NoErrorOnTheWay'
  BY BoundsAssumption DEF Route, PartsOfThisRun, FactorsOfThisSystem, PointsSoFar, FinishedIsComplete,
       NoErrorOnTheWay
<1> QED
  BY <1>1, <1>2, NoPointWritten

\* The operating point or the periodic solution of the run is found, or the run ends.
LEMMA SolveOperatingPointKeepsInv ==
    ASSUME Inv, \/ kind \notin DcKinds \cup HbKinds /\ SolveOperatingPoint
                \/ kind \in HbKinds /\ SolvePeriodic
    PROVE  Inv'
<1> USE DEF Inv, SolveOperatingPoint, SolvePeriodic, Abort
<1>1. /\ ClearedResults \in [1 .. Excitations -> SUBSET Matrix]
      /\ kind \notin DcKinds
  BY DEF Typed, ClearedResults, Nothing, DcKinds, HbKinds
<1>2. Typed'
  BY <1>1, SameRun DEF Typed, States
<1>3. Route' /\ FinishedIsComplete'
  BY <1>1 DEF Route, FinishedIsComplete, NoErrorOnTheWay
<1>4. PartsOfThisRun' /\ FactorsOfThisSystem'
  BY DEF PartsOfThisRun, FactorsOfThisSystem
<1>5. PointsSoFar' /\ NoErrorOnTheWay'
  BY BoundsAssumption DEF PointsSoFar, NoErrorOnTheWay
<1> QED
  BY <1>2, <1>3, <1>4, <1>5, NoPointWritten

\* The DC cores go on with the factors of the operating point of this run.
LEMMA SolveAndKeepFactorsKeepsInv ==
    ASSUME Inv, SolveAndKeepFactors, kind \in DcKinds
    PROVE  Inv'
<1> USE DEF Inv, SolveAndKeepFactors, Abort
<1>1. /\ SystemAt(at) \in Matrix
      /\ SystemAt(at)' = SystemAt(at)
  BY SystemType, SameRun DEF Typed
<1>2. Typed'
  BY <1>1, SameRun DEF Typed, States
<1>3. Route' /\ FinishedIsComplete'
  BY DEF Route, DcKinds, HbKinds, FinishedIsComplete, NoErrorOnTheWay
<1>4. PartsOfThisRun' /\ FactorsOfThisSystem'
  BY <1>1 DEF PartsOfThisRun, FactorsOfThisSystem
<1>5. PointsSoFar' /\ NoErrorOnTheWay'
  BY BoundsAssumption DEF PointsSoFar, NoErrorOnTheWay, Route, Typed
<1> QED
  BY <1>2, <1>3, <1>4, <1>5, NoPointWritten

\* The evaluation fills the real part of the matrix for this run.
LEMMA EvaluateKeepsInv ==
    ASSUME Inv, Evaluate, kind \notin DcKinds \cup HbKinds
    PROVE  Inv'
<1> USE DEF Inv, Evaluate, Abort, Finish
<1>1. WithRealPart \in Matrix /\ WithRealPart.real = runs
  BY DEF Typed, WithRealPart, Matrix
<1>2. Typed'
  BY <1>1, SameRun DEF Typed, States
<1>3. Route'
  BY DEF Route
<1>4. PartsOfThisRun' /\ FactorsOfThisSystem'
  BY <1>1 DEF PartsOfThisRun, FactorsOfThisSystem
<1>5. PointsSoFar' /\ NoErrorOnTheWay' /\ FinishedIsComplete'
  BY BoundsAssumption DEF PointsSoFar, NoErrorOnTheWay, FinishedIsComplete
<1> QED
  BY <1>2, <1>3, <1>4, <1>5, NoPointWritten

\* The harmonic balance cores collect what the periodic solution of this run left.
LEMMA CollectKeepsInv ==
    ASSUME Inv, CollectSpectra, kind \in HbKinds
    PROVE  Inv'
<1> USE DEF Inv, CollectSpectra, Abort
<1>1. Typed'
  BY SameRun DEF Typed, States
<1>2. Route' /\ PartsOfThisRun' /\ FactorsOfThisSystem'
  BY DEF Route, PartsOfThisRun, FactorsOfThisSystem, DcKinds, HbKinds
<1>3. PointsSoFar' /\ NoErrorOnTheWay' /\ FinishedIsComplete'
  BY BoundsAssumption DEF PointsSoFar, NoErrorOnTheWay, FinishedIsComplete
<1> QED
  BY <1>1, <1>2, <1>3, NoPointWritten

\* A core that was stopped after the operating point goes on with the same run.
LEMMA ResumeKeepsInv ==
    ASSUME Inv, Resume
    PROVE  Inv'
<1> USE DEF Inv, Resume
<1>1. Typed'
  BY SameRun DEF Typed, States
<1>2. Route' /\ PartsOfThisRun' /\ FactorsOfThisSystem'
  BY DEF Route, PartsOfThisRun, FactorsOfThisSystem, DcKinds, HbKinds
<1>3. PointsSoFar' /\ NoErrorOnTheWay' /\ FinishedIsComplete'
  BY BoundsAssumption DEF PointsSoFar, NoErrorOnTheWay, FinishedIsComplete
<1> QED
  BY <1>1, <1>2, <1>3, NoPointWritten

\* The sweep of the frequency starts at its first point.
LEMMA SetupSweepKeepsInv ==
    ASSUME Inv, SetupSweep, kind \notin DcKinds
    PROVE  Inv'
<1> USE DEF Inv, SetupSweep, Abort
<1>1. Typed'
  <2>1. at' \in 1 .. Points /\ pc' \in States
    BY BoundsAssumption DEF Typed, States
  <2> QED
    BY <2>1, SameRun DEF Typed
<1>2. Route' /\ PartsOfThisRun' /\ FactorsOfThisSystem'
  BY DEF Route, PartsOfThisRun, FactorsOfThisSystem, DcKinds, HbKinds
<1>3. PointsSoFar' /\ NoErrorOnTheWay' /\ FinishedIsComplete'
  BY BoundsAssumption DEF PointsSoFar, NoErrorOnTheWay, FinishedIsComplete
<1> QED
  BY <1>1, <1>2, <1>3, NoPointWritten

-----------------------------------------------------------------------------
(* One frequency                                                           *)

\* Loading the matrix at a frequency makes it the system of this run there,
\* whatever its imaginary part and its delay lines had before.
LEMMA LoadedIsSystem ==
    ASSUME Inv, pc = "load", kind \notin DcKinds
    PROVE  /\ kind \in HbKinds => FilledMatrix = SystemAt(at)
           /\ kind \notin HbKinds => LoadedMatrix = SystemAt(at)
           /\ SystemAt(at) \in Matrix
<1>1. held = runs /\ (kind \notin HbKinds => matrix.real = runs)
  BY DEF Inv, PartsOfThisRun
<1>2. matrix \in Matrix /\ at \in 1 .. Points /\ runs \in 0 .. MaxRuns
  BY DEF Inv, Typed
<1>3. kind \notin HbKinds => LoadedMatrix = [real |-> runs, imag |-> {<<runs, at>>}, delay |-> at]
  <2>1. /\ LoadedMatrix.real = matrix.real
        /\ LoadedMatrix.imag = {<<held, at>>}
        /\ LoadedMatrix.delay = at
    BY <1>2 DEF LoadedMatrix, Matrix
  <2>2. LoadedMatrix \in [real : {matrix.real}, imag : {{<<held, at>>}}, delay : {at}]
    <3>1. matrix \in [real : {matrix.real}, imag : {matrix.imag}, delay : {matrix.delay}]
      BY <1>2 DEF Matrix
    <3> QED
      BY <3>1 DEF LoadedMatrix
  <2> QED
    BY <1>1, <2>1, <2>2
<1> QED
  BY <1>1, <1>2, <1>3, SystemType DEF FilledMatrix, SystemAt

\* Loading makes the matrix the system at the frequency of the sweep.
LEMMA LoadFrequencyKeepsInv ==
    ASSUME Inv, \/ kind \notin DcKinds \cup HbKinds /\ LoadFrequency
                \/ kind \in HbKinds /\ FillFrequency
    PROVE  Inv'
<1> USE DEF Inv, LoadFrequency, FillFrequency, BadFrequency, AcceptMatrix, Abort
<1>1. SystemAt(at)' = SystemAt(at) /\ kind \notin DcKinds /\ pc = "load"
  BY SameRun DEF DcKinds, HbKinds
<1>2. matrix' \in Matrix
  <2>1. [matrix EXCEPT !.imag = {}] \in Matrix /\ matrix \in Matrix
    BY DEF Typed, Matrix
  <2>2. (kind \in HbKinds => FilledMatrix \in Matrix) /\ (kind \notin HbKinds => LoadedMatrix \in Matrix)
    BY <1>1, LoadedIsSystem
  <2> QED
    BY <2>1, <2>2
<1>3. pc' = "factor" => matrix' = SystemAt(at)
  BY <1>1, LoadedIsSystem
<1>4. Typed'
  BY <1>2, SameRun DEF Typed, States
<1>5. Route' /\ PartsOfThisRun' /\ FactorsOfThisSystem'
  BY <1>1, <1>3 DEF Route, PartsOfThisRun, FactorsOfThisSystem, DcKinds, HbKinds
<1>6. PointsSoFar' /\ NoErrorOnTheWay' /\ FinishedIsComplete'
  BY BoundsAssumption DEF PointsSoFar, NoErrorOnTheWay, FinishedIsComplete
<1> QED
  BY <1>4, <1>5, <1>6, NoPointWritten

\* The factors are those of the matrix, or the run ends.
LEMMA FactorKeepsInv ==
    ASSUME Inv, Factor, kind \notin DcKinds
    PROVE  Inv'
<1> USE DEF Inv, Factor, Abort, FactoringFails, SingularMatrix, Refactor, FactorFully
<1>1. SystemAt(at)' = SystemAt(at)
  BY SameRun
<1>2. pc' = "solve" => factors' = {SystemAt(at)}
  BY DEF PartsOfThisRun
<1>3. Typed'
  <2>1. factors' \in SUBSET Matrix
    BY DEF Typed, Nothing
  <2>2. errors' \in BOOLEAN /\ pc' \in States
    BY DEF Typed, States, ReportAfterFactoring
  <2> QED
    BY <2>1, <2>2, SameRun DEF Typed
<1>4. Route' /\ PartsOfThisRun' /\ FactorsOfThisSystem'
  BY <1>1, <1>2 DEF Route, PartsOfThisRun, FactorsOfThisSystem, DcKinds, HbKinds
<1>5. PointsSoFar' /\ NoErrorOnTheWay' /\ FinishedIsComplete'
  BY BoundsAssumption DEF PointsSoFar, NoErrorOnTheWay, FinishedIsComplete, ReportAfterFactoring
<1> QED
  BY <1>3, <1>4, <1>5, NoPointWritten

-----------------------------------------------------------------------------
(* Solving.  A step either leaves the run, or writes a point.              *)

\* Results are made of the factors and of what was there before.
LEMMA SolvedType ==
    ASSUME Typed, NEW k
    PROVE  /\ SolvedUpTo(k) \in [1 .. Excitations -> SUBSET Matrix]
           /\ NoiseUpTo(k) \in [1 .. Excitations -> SUBSET Matrix]
BY DEF Typed, SolvedUpTo, NoiseUpTo, Nothing

\* A run that is left while solving has written nothing more.
LEMMA LeavingKeepsInv ==
    ASSUME Inv, pc = "solve", Abort, UNCHANGED <<kind, live, runs, held, matrix, factors, requested>>,
           UNCHANGED <<at, points>>, results' \in [1 .. Excitations -> SUBSET Matrix]
    PROVE  Inv'
<1> USE DEF Inv, Abort
<1>1. Typed'
  <2>1. pc' \in States
    BY DEF States
  <2> QED
    BY <2>1, SameRun DEF Typed
<1>2. Route' /\ PartsOfThisRun' /\ FactorsOfThisSystem'
  BY DEF Route, PartsOfThisRun, FactorsOfThisSystem, DcKinds, HbKinds
<1>3. PointsSoFar' /\ NoErrorOnTheWay' /\ FinishedIsComplete'
  BY BoundsAssumption DEF PointsSoFar, NoErrorOnTheWay, FinishedIsComplete
<1> QED
  BY <1>1, <1>2, <1>3, NoPointWritten

\* A point that is written goes behind those of the frequencies before, and it is
\* fresh when every source with a result of its own was solved for.
LEMMA WritingKeepsPoints ==
    ASSUME Inv, pc = "solve", UNCHANGED <<kind, live, runs>>,
           NEW k \in Nat, DumpPoint(SolvedUpTo(k)),
           kind \in LeavesAtFailure => k >= Excitations
    PROVE  /\ points' \in Seq(Point)
           /\ Len(points') = at
           /\ PointsAreFresh'
<1> DEFINE new == [frequency |-> at, used |-> SolvedUpTo(k)]
<1>1. new \in Point /\ points \in Seq(Point) /\ at \in 1 .. Points
  BY SolvedType DEF Inv, Typed, Point
<1>2. points' = Append(points, new) /\ Len(points) = at - 1
  BY DEF DumpPoint, Inv, PointsSoFar
<1>3. points' \in Seq(Point) /\ Len(points') = at
  BY <1>1, <1>2, BoundsAssumption
<1>4. ASSUME kind \in LeavesAtFailure, NEW i \in 1 .. at
      PROVE  /\ points'[i].frequency = i
             /\ \A s \in Solved : points'[i].used[s] = {SystemAt(i)}
  <2>1. CASE i < at
    <3>1. i \in DOMAIN points /\ points'[i] = points[i]
      BY <1>1, <1>2, <2>1, BoundsAssumption
    <3> QED
      BY <3>1, <1>4 DEF Inv, PointsAreFresh
  <2>2. CASE i = at
    <3>1. points'[i] = new
      BY <1>1, <1>2, <2>2, BoundsAssumption
    <3>2. factors = {SystemAt(at)} /\ kind \in Kinds
      BY DEF Inv, FactorsOfThisSystem, Typed
    <3>3. Solved \subseteq 1 .. Excitations /\ Excitations \in Nat
      BY <3>2, ExcitationsType DEF Solved
    <3>4. ASSUME NEW s \in Solved PROVE SolvedUpTo(k)[s] = factors
      BY <3>3, <1>4 DEF SolvedUpTo
    <3> QED
      BY <3>1, <3>2, <3>4, <2>2
  <2> QED
    BY <1>1, <2>1, <2>2
<1>5. PointsAreFresh'
  <2>1. Solved' = Solved /\ \A f : SystemAt(f)' = SystemAt(f)
    BY SameRun
  <2>2. DOMAIN points' = 1 .. at
    BY <1>1, <1>3
  <2> QED
    BY <1>4, <2>1, <2>2 DEF PointsAreFresh
<1> QED
  BY <1>3, <1>5

\* A core that has solved for all its sources writes a point, and goes on to the
\* next frequency or has finished.
LEMMA AdvancingKeepsInv ==
    ASSUME Inv, pc = "solve", UNCHANGED <<kind, live, runs, held, matrix, factors, requested>>,
           kind \notin DcKinds, DumpAndAdvance
    PROVE  Inv'
<1> USE DEF Inv, DumpAndAdvance, Advance, Finish
<1>1. /\ Excitations \in Nat
      /\ SolvedUpTo(Excitations) \in [1 .. Excitations -> SUBSET Matrix]
  BY ExcitationsType, SolvedType DEF Typed
<1>2. points' \in Seq(Point) /\ Len(points') = at /\ PointsAreFresh'
  BY <1>1, WritingKeepsPoints
<1>3. Typed'
  <2>1. at' \in 1 .. Points /\ pc' \in States /\ errors' = errors
    BY BoundsAssumption DEF Typed, States
  <2> QED
    BY <1>1, <1>2, <2>1, SameRun DEF Typed
<1>4. Route' /\ PartsOfThisRun' /\ FactorsOfThisSystem'
  <2>1. matrix.real = runs
    BY DEF PartsOfThisRun, SystemAt
  <2> QED
    BY <2>1 DEF Route, PartsOfThisRun, FactorsOfThisSystem, DcKinds, HbKinds
<1>5. PointsSoFar' /\ NoErrorOnTheWay' /\ FinishedIsComplete'
  BY <1>2, BoundsAssumption DEF PointsSoFar, NoErrorOnTheWay, FinishedIsComplete, Typed
<1> QED
  BY <1>2, <1>3, <1>4, <1>5

\* Cores that leave the run as soon as a source has failed.
LEMMA SolveKeepsInv ==
    ASSUME Inv, SolveAC \/ SolveHBAC \/ SolveXF \/ SolveStb \/ SolveNoise \/ SolveHBNoise
    PROVE  Inv'
<1>1. /\ pc = "solve" /\ kind \notin DcKinds
      /\ UNCHANGED <<kind, live, runs, held, matrix, factors, requested>>
  BY DEF SolveAC, SolveHBAC, SolveXF, SolveStb, SolveNoise, SolveHBNoise, Solving, DcKinds
<1>2. \/ DumpAndAdvance
      \/ \E k \in Failing \cup {0} : SolveFailsAfter(k)
      \/ \E k \in Failing : results' = NoiseUpTo(k) /\ Abort /\ UNCHANGED <<at, points>>
  BY DEF SolveAC, SolveHBAC, SolveXF, SolveStb, SolveNoise, SolveHBNoise
<1>3. CASE DumpAndAdvance
  BY <1>1, <1>3, AdvancingKeepsInv
<1>4. CASE \E k \in Failing \cup {0} : SolveFailsAfter(k)
  BY <1>1, <1>4, LeavingKeepsInv, SolvedType DEF SolveFailsAfter, Inv
<1>5. CASE \E k \in Failing : results' = NoiseUpTo(k) /\ Abort /\ UNCHANGED <<at, points>>
  BY <1>1, <1>5, LeavingKeepsInv, SolvedType DEF Inv
<1> QED
  BY <1>2, <1>3, <1>4, <1>5

\* S-parameters write a point also after a failure at a port, and then leave the run
\* with an error, which a run that had reached the last frequency reports as finished.
LEMMA SolveSPKeepsInv ==
    ASSUME Inv, SolveSP
    PROVE  Inv'
<1>1. /\ pc = "solve" /\ kind = "sp"
      /\ UNCHANGED <<kind, live, runs, held, matrix, factors, requested>>
  BY DEF SolveSP, Solving
<1>2. Excitations \in Nat
  BY ExcitationsType DEF Inv, Typed
<1>3. CASE DumpAndAdvance
  BY <1>1, <1>3, AdvancingKeepsInv DEF DcKinds
<1>4. CASE \E k \in 0 .. Excitations : SolveFailsAfter(k)
  BY <1>1, <1>4, LeavingKeepsInv, SolvedType DEF SolveFailsAfter, Inv
<1>5. ASSUME NEW k \in Failing, results' = SolvedUpTo(k), DumpPoint(SolvedUpTo(k)), AdvanceWithError
      PROVE  Inv'
  <2>1. k \in Nat /\ kind \notin LeavesAtFailure
    BY <1>1, <1>2 DEF Failing, LeavesAtFailure
  <2>2. points' \in Seq(Point) /\ Len(points') = at /\ PointsAreFresh'
    BY <1>1, <1>5, <2>1, WritingKeepsPoints
  <2>3. results' \in [1 .. Excitations -> SUBSET Matrix]
    BY <1>5, SolvedType DEF Inv
  <2>4. Typed'
    <3>1. at' \in 1 .. Points
      BY <1>5, BoundsAssumption DEF Inv, Typed, AdvanceWithError
    <3>2. errors' = TRUE /\ pc' \in States /\ outcome' \in {"Finished", "Aborted"}
      BY <1>5 DEF States, AdvanceWithError, Finish, Abort
    <3> QED
      BY <1>1, <2>2, <2>3, <3>1, <3>2, SameRun DEF Inv, Typed
  <2>5. Route' /\ PartsOfThisRun' /\ FactorsOfThisSystem'
    BY <1>1, <1>5 DEF Route, PartsOfThisRun, FactorsOfThisSystem, AdvanceWithError, Finish, Abort,
         DcKinds, HbKinds
  <2>6. PointsSoFar' /\ NoErrorOnTheWay' /\ FinishedIsComplete'
    BY <1>1, <1>5, <2>2, BoundsAssumption
       DEF Inv, Typed, PointsSoFar, NoErrorOnTheWay, FinishedIsComplete, AdvanceWithError, Finish, Abort
  <2> QED
    BY <2>2, <2>4, <2>5, <2>6 DEF Inv
<1> QED
  BY <1>3, <1>4, <1>5 DEF SolveSP

\* DC cores write at most one point.
LEMMA SolveDCKeepsInv ==
    ASSUME Inv, SolveDCIncrement \/ SolveDCXF
    PROVE  Inv'
<1>1. /\ pc = "solve" /\ kind \in DcKinds /\ at' = at
      /\ UNCHANGED <<kind, live, runs, held, matrix, factors, requested>>
  BY DEF SolveDCIncrement, SolveDCXF, Solving, SolveFailsAfter, DcKinds
<1>2. Excitations \in Nat /\ (kind = "dcinc" => Excitations = 1) /\ at = 1
  BY <1>1, ExcitationsType DEF Inv, Typed, Route, Excitations
<1>3. CASE SolveFailsAfter(0)
  BY <1>1, <1>3, LeavingKeepsInv, SolvedType DEF SolveFailsAfter, Inv
<1>4. ASSUME NEW k \in Nat, results' = SolvedUpTo(k), DumpPoint(SolvedUpTo(k)),
             kind \in LeavesAtFailure => k >= Excitations,
             (Finish /\ UNCHANGED errors) \/ Abort
      PROVE  Inv'
  <2>1. points' \in Seq(Point) /\ Len(points') = 1 /\ PointsAreFresh'
    BY <1>1, <1>2, <1>4, WritingKeepsPoints
  <2>2. results' \in [1 .. Excitations -> SUBSET Matrix]
    BY <1>4, SolvedType DEF Inv
  <2>3. Typed'
    <3>1. pc' \in States /\ errors' \in BOOLEAN
          /\ outcome' \in {"none", "Finished", "Aborted", "Stopped"}
      BY <1>4 DEF Inv, Typed, States, Finish, Abort
    <3> QED
      BY <1>1, <2>1, <2>2, <3>1, SameRun DEF Inv, Typed
  <2>4. Route' /\ PartsOfThisRun' /\ FactorsOfThisSystem'
    BY <1>1, <1>2, <1>4 DEF Route, PartsOfThisRun, FactorsOfThisSystem, Finish, Abort, DcKinds, HbKinds
  <2>5. PointsSoFar' /\ NoErrorOnTheWay' /\ FinishedIsComplete'
    BY <1>1, <1>4, <2>1, BoundsAssumption
       DEF Inv, Typed, PointsSoFar, NoErrorOnTheWay, FinishedIsComplete, Finish, Abort
  <2> QED
    BY <2>1, <2>3, <2>4, <2>5 DEF Inv
<1>5. CASE SolveDCIncrement
  BY <1>2, <1>3, <1>4, <1>5 DEF SolveDCIncrement, Solving
<1>6. CASE SolveDCXF
  BY <1>2, <1>4, <1>6 DEF SolveDCXF, Solving, LeavesAtFailure
<1> QED
  BY <1>5, <1>6

-----------------------------------------------------------------------------
\* The invariant holds before the first run.
LEMMA InitHoldsInv ==
    ASSUME Init
    PROVE  Inv
<1>1. Excitations \in Nat \ {0} /\ EmptyMatrix \in Matrix /\ at \in 1 .. Points
  BY ExcitationsType, BoundsAssumption DEF Init, EmptyMatrix, Matrix
<1>2. Typed
  <2>1. kind \in Kinds /\ live \in SUBSET (1 .. Sources) /\ at \in 1 .. Points /\ pc \in States
    BY <1>1 DEF Init, States
  <2>2. runs \in 0 .. MaxRuns /\ held \in 0 .. MaxRuns
    BY BoundsAssumption DEF Init
  <2>3. matrix \in Matrix /\ factors \in SUBSET Matrix /\ results \in [1 .. Excitations -> SUBSET Matrix]
    BY <1>1 DEF Init, Nothing
  <2>4. points = <<>>
    BY DEF Init
  <2>5. points \in Seq(Point)
    BY <2>4
  <2>6. errors = FALSE /\ requested = FALSE /\ outcome = "none"
    BY DEF Init
  <2> QED
    BY <2>1, <2>2, <2>3, <2>5, <2>6 DEF Typed
<1> QED
  BY <1>2, BoundsAssumption DEF Init, Inv, Route, PartsOfThisRun, FactorsOfThisSystem, PointsSoFar,
       PointsAreFresh, NoErrorOnTheWay, FinishedIsComplete

\* Every step keeps the invariant.
LEMMA NextKeepsInv ==
    ASSUME Inv, [Next]_vars
    PROVE  Inv'
<1>1. CASE RebuildFails \/ Start
  BY <1>1, RebuildFailsKeepsInv, StartKeepsInv
<1>2. CASE Resume
  BY <1>2, ResumeKeepsInv
<1>3. CASE Step
  BY <1>3, StepCases, ResolveFailsKeepsInv, SolveOperatingPointKeepsInv,
     SolveAndKeepFactorsKeepsInv, EvaluateKeepsInv,
     CollectKeepsInv, SetupSweepKeepsInv, LoadFrequencyKeepsInv, FactorKeepsInv, SolveKeepsInv,
     SolveSPKeepsInv, SolveDCKeepsInv
<1>4. CASE UNCHANGED vars
  <2> USE <1>4 DEF vars, Inv
  <2>1. Typed' /\ PointsAreFresh'
    BY SameRun, NoPointWritten DEF Typed
  <2>2. FactorsOfThisSystem' /\ PartsOfThisRun'
    BY SameRun DEF FactorsOfThisSystem, PartsOfThisRun
  <2> QED
    BY <2>1, <2>2 DEF Route, PointsSoFar, NoErrorOnTheWay, FinishedIsComplete
<1> QED
  BY <1>1, <1>2, <1>3, <1>4 DEF Next

\* The invariant holds in every run of every core.
THEOREM InvHolds == Spec => []Inv
<1> QED
  BY InitHoldsInv, NextKeepsInv, PTL DEF Spec

\* Every variable keeps its type (the state of the cores' coroutines).
THEOREM TypeCorrect == Spec => []Typed
<1>1. Inv => Typed
  BY DEF Inv
<1> QED
  BY <1>1, InvHolds, PTL

\* In the cores that leave the sweep when a source fails (all but sp and dcxf, which
\* write such points) a point in the output belongs to its frequency: whatever was in the matrix,
\* the factors and the results before, each source's result was computed with the
\* system of this run at this frequency, and there is a point for each frequency
\* in order (the coroutines of the small-signal cores).
THEOREM FreshPoints == Spec => []PointsAreFresh
<1>1. Inv => PointsAreFresh
  BY DEF Inv
<1> QED
  BY <1>1, InvHolds, PTL

\* A run that reports that it finished has written a point for every frequency
\* and left no error behind, also when it had to factor a second time
\* (the coroutines of the small-signal cores, KluMatrixCore::refactor).
THEOREM CompleteWhenFinished == Spec => []FinishedIsComplete
<1>1. Inv => FinishedIsComplete
  BY DEF Inv
<1> QED
  BY <1>1, InvHolds, PTL

\* The linear solver is never used without factors or with those of another
\* frequency, operating point or run (KluMatrixCore::solve throws when it is).
THEOREM FactorsFit == Spec => []FactorsOfThisSystem
<1>1. Inv => FactorsOfThisSystem
  BY DEF Inv
<1> QED
  BY <1>1, InvHolds, PTL
=============================================================================
