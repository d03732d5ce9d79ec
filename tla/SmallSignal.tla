---------------------------- MODULE SmallSignal ----------------------------
(***************************************************************************)
(* The cores behind the small-signal analyses: AC, AC transfer function,   *)
(* S-parameters, stability and noise sweep the frequency over a complex    *)
(* matrix whose real part is the Jacobian of the operating point; HBAC and *)
(* HB noise do the same with the spectra of a harmonic balance solution;   *)
(* DC increment and DC transfer function solve once with the factors the   *)
(* operating point left behind.                                            *)
(*                                                                         *)
(* A run is one call of the core's coroutine.  Numbers are replaced by     *)
(* where they come from: a matrix by the operating point and the frequency *)
(* of each of its parts, a result by the matrix that was factored when it  *)
(* was computed.  A run is numbered, and so is its operating point.        *)
(***************************************************************************)
EXTENDS Naturals, Sequences, FiniteSets

CONSTANTS
    Kinds,       \* the cores that are run, a subset of AllKinds
    Points,      \* number of frequencies in the sweep
    Sources,     \* number of sources a core loops over (ports, instances)
    MaxRuns      \* bound on the runs of one analysis (points of its outer sweep)

AllKinds == {"ac", "xf", "sp", "stb", "noise", "dcinc", "dcxf", "hbac", "hbnoise"}
DcKinds == {"dcinc", "dcxf"}
HbKinds == {"hbac", "hbnoise"}

ASSUME KindsAssumption == Kinds \subseteq AllKinds
ASSUME BoundsAssumption ==
    /\ Points \in Nat \ {0}
    /\ Sources \in Nat \ {0}
    /\ MaxRuns \in Nat \ {0}

VARIABLES
    kind,        \* which core this is
    live,        \* the sources that were found in the circuit
    runs,        \* number of runs so far, also names the operating point
    pc,          \* where the coroutine is
    at,          \* position of the frequency sweep
    held,        \* the operating point of the reactive Jacobian in the instances
    matrix,      \* the complex matrix
    factors,     \* the matrix the linear solver has factored, at most one
    results,     \* for each source the matrix its result was computed with, at most one
    points,      \* the points dumped by this run
    errors,      \* is there anything on the error stack
    requested,   \* did a device ask to abort or to finish
    outcome      \* what the run yielded last

vars == <<kind, live, runs, pc, at, held, matrix, factors, results, points,
          errors, requested, outcome>>

-----------------------------------------------------------------------------
(* A matrix: the operating point of its real part, what was added to its   *)
(* imaginary part since that was zeroed, the frequency of the delay lines' *)
(* entries.                                                                *)

Matrix == [real : 0 .. MaxRuns,
           imag : SUBSET ((0 .. MaxRuns) \X (1 .. Points)),
           delay : 0 .. Points]

EmptyMatrix == [real |-> 0, imag |-> {}, delay |-> 0]
Nothing == {}        \* no factors, no result

(* The system at frequency f of the current operating point.               *)
SystemAt(f) ==
    IF kind \in DcKinds
    THEN [real |-> runs, imag |-> {}, delay |-> 0]
    ELSE [real |-> runs, imag |-> {<<runs, f>>}, delay |-> f]

(* How many right-hand sides the core solves for: AC, HBAC and DC          *)
(* increment excite all sources at once, stability injects a current and   *)
(* then a voltage.                                                         *)
Excitations ==
    CASE kind \in {"ac", "hbac", "dcinc"} -> 1
      [] kind = "stb" -> 2
      [] OTHER -> Sources

(* The sources with a result of their own; the transfer functions skip     *)
(* sources that do not exist and write a constant for them.                *)
Solved ==
    IF kind \in {"xf", "dcxf"} THEN live \cap (1 .. Excitations) ELSE 1 .. Excitations

Init ==
    /\ kind \in Kinds
    /\ live \in (SUBSET (1 .. Sources)) \ {{}}
    /\ kind \notin {"xf", "dcxf"} => live = 1 .. Sources
    /\ runs = 0
    /\ pc = "idle"
    /\ at = 1
    /\ held = 0
    /\ matrix = EmptyMatrix
    /\ factors = Nothing
    /\ results = [s \in 1 .. Excitations |-> Nothing]
    /\ points = <<>>
    /\ errors = FALSE
    /\ requested = FALSE
    /\ outcome = "none"

-----------------------------------------------------------------------------
(* How a run ends.                                                         *)

Abort ==
    /\ outcome' = "Aborted"
    /\ pc' = "ended"
    /\ errors' = TRUE

Finish ==
    /\ outcome' = "Finished"
    /\ pc' = "idle"

-----------------------------------------------------------------------------
(* Rebuilding: the real Jacobian with its solver and the operating point   *)
(* core come first, then the complex matrix with what is bound to it, last *)
(* a new linear solver for it.  Each of them can fail and ends the         *)
(* analysis; what has been rebuilt by then stays, factors of the matrix    *)
(* before included.                                                        *)

Rebuild ==
    /\ matrix' = EmptyMatrix
    /\ factors' = Nothing

(* The DC cores work with the solver of the operating point, which is      *)
(* replaced before the operating point core is rebuilt.                    *)
JacobianFails ==
    /\ \/ UNCHANGED factors
       \/ kind \in DcKinds /\ factors' = Nothing
    /\ UNCHANGED matrix

(* S-parameters collect their ports before they rebuild the matrix: each   *)
(* is a voltage source and a two-terminal resistor with a node in common.  *)
CollectPortsFails ==
    /\ kind = "sp"
    /\ UNCHANGED <<matrix, factors>>

(* The delay lines and the reactive Jacobians of the instances are bound   *)
(* to the matrix that has just been rebuilt.                               *)
BindFails ==
    /\ kind \notin DcKinds
    /\ matrix' = EmptyMatrix
    /\ UNCHANGED factors

(* The harmonic balance cores then look up the spurs of their outputs;     *)
(* HBAC also refuses when these are others than at the last rebuild.       *)
ResolveSpursFails ==
    /\ kind \in HbKinds
    /\ matrix' = EmptyMatrix
    /\ UNCHANGED factors

SolverFails ==
    /\ kind \notin DcKinds
    /\ Rebuild

RebuildFails ==
    /\ pc = "idle"
    /\ runs < MaxRuns
    /\ JacobianFails \/ CollectPortsFails \/ BindFails \/ ResolveSpursFails \/ SolverFails
    /\ Abort
    /\ UNCHANGED <<kind, live, runs, at, held, results, points, requested>>

(* The analysis starts the core's coroutine at the next point of its       *)
(* sweep, after rebuilding when the circuit or the options ask for that.   *)
Start ==
    /\ pc = "idle"
    /\ runs < MaxRuns
    /\ runs' = runs + 1
    /\ pc' = "op"
    /\ \/ Rebuild
       \/ /\ runs > 0
          /\ UNCHANGED <<matrix, factors>>
    /\ points' = <<>>
    /\ requested' = FALSE
    /\ outcome' = "none"
    /\ UNCHANGED <<kind, live, at, held, results, errors>>

-----------------------------------------------------------------------------
(* Before the sweep.                                                       *)

(* What a core looks up in the circuit before anything is solved: output   *)
(* nodes (a name, or a vector of one or two), the input source, the probe  *)
(* of the loop and its local ground, the spurs the sources excite.         *)
LookedUp ==
    CASE kind \in {"xf", "dcxf"} -> {"out"}
      [] kind \in {"noise", "hbnoise"} -> {"out", "in"}
      [] kind = "stb" -> {"probe", "localgnd"}
      [] kind = "hbac" -> {"spurs"}
      [] OTHER -> {}

(* Noise clears its results before it looks anything up.                   *)
ClearedResults ==
    IF kind \in {"noise", "hbnoise"}
    THEN [s \in 1 .. Excitations |-> Nothing] ELSE results

ResolveFails ==
    /\ pc = "op"
    /\ LookedUp # {}
    /\ results' = ClearedResults
    /\ Abort
    /\ UNCHANGED <<kind, live, runs, at, held, matrix, factors, points, requested>>

(* The operating point.                                                    *)
SolveOperatingPoint ==
    /\ pc = "op"
    /\ results' = ClearedResults
    /\ \/ Abort
       \/ pc' = "eval" /\ UNCHANGED <<errors, outcome>>
    /\ UNCHANGED <<kind, live, runs, at, held, matrix, factors, points, requested>>

(* The DC cores go on with the factors the operating point has left.       *)
SolveAndKeepFactors ==
    /\ pc = "op"
    /\ \/ Abort /\ UNCHANGED factors
       \/ /\ pc' = "solve"
          /\ factors' = {SystemAt(at)}
          /\ UNCHANGED <<errors, outcome>>
    /\ UNCHANGED <<kind, live, runs, at, held, matrix, results, points, requested>>

(* The periodic solution: harmonic balance is solved, or only evaluated at *)
(* the nodeset when the user says so.                                      *)
SolvePeriodic ==
    /\ pc = "op"
    /\ results' = ClearedResults
    /\ \/ Abort
       \/ pc' = "collect" /\ UNCHANGED <<errors, outcome>>
    /\ UNCHANGED <<kind, live, runs, at, held, matrix, factors, points, requested>>

(* The Jacobian of the operating point becomes the real part of the        *)
(* matrix, then the instances evaluate their reactive Jacobian.            *)
WithRealPart == [matrix EXCEPT !.real = runs]

Evaluate ==
    /\ pc = "eval"
    /\ matrix' = WithRealPart
    /\ \/ Abort /\ UNCHANGED <<held, requested>>
       \/ /\ held' = runs
          /\ requested' = TRUE
          /\ outcome' = "Aborted"
          /\ pc' = "ended"
          /\ UNCHANGED errors
       \/ /\ held' = runs
          /\ requested' = TRUE
          /\ Finish
          /\ UNCHANGED errors
       \/ /\ held' = runs
          /\ outcome' = "Stopped"
          /\ pc' = "stopped"
          /\ UNCHANGED <<errors, requested>>
       \/ /\ held' = runs
          /\ pc' = "sweep"
          /\ UNCHANGED <<errors, requested, outcome>>
    /\ UNCHANGED <<kind, live, runs, at, factors, results, points>>

(* The spectra of the Jacobians are collected from harmonic balance.       *)
CollectSpectra ==
    /\ pc = "collect"
    /\ \/ Abort /\ UNCHANGED held
       \/ /\ held' = runs
          /\ pc' = "sweep"
          /\ UNCHANGED <<errors, outcome>>
    /\ UNCHANGED <<kind, live, runs, at, matrix, factors, results, points, requested>>

(* A stopped run is resumed by the user.                                   *)
Resume ==
    /\ pc = "stopped"
    /\ pc' = "sweep"
    /\ outcome' = "none"
    /\ UNCHANGED <<kind, live, runs, at, held, matrix, factors, results, points, errors, requested>>

(* The frequency sweep is set up and reset.                                *)
SetupSweep ==
    /\ pc = "sweep"
    /\ \/ Abort /\ UNCHANGED at
       \/ /\ at' = 1
          /\ pc' = "load"
          /\ UNCHANGED <<errors, outcome>>
    /\ UNCHANGED <<kind, live, runs, held, matrix, factors, results, points, requested>>

-----------------------------------------------------------------------------
(* One frequency.                                                          *)

(* AC: the imaginary part is zeroed and loaded again with the frequency as *)
(* factor, the real part stays, the delay lines' entries are overwritten.  *)
LoadedMatrix_Slip ==
    [matrix EXCEPT !.imag = @ \cup {<<held, at>>}, !.delay = at]
LoadedMatrix ==
    [matrix EXCEPT !.imag = {<<held, at>>}, !.delay = at]

(* HB: every entry is written from the spectra, those of the delay lines   *)
(* from the frequency at each spur.                                        *)
FilledMatrix == [real |-> held, imag |-> {<<held, at>>}, delay |-> at]

(* The sweep's value must convert to a real number.                        *)
BadFrequency == Abort /\ UNCHANGED matrix

(* A matrix with an entry that is not finite is refused.                   *)
AcceptMatrix ==
    \/ Abort
    \/ pc' = "factor" /\ UNCHANGED <<errors, outcome>>

(* When loading fails, the imaginary part has already been zeroed.         *)
LoadFrequency ==
    /\ pc = "load"
    /\ \/ BadFrequency
       \/ matrix' = [matrix EXCEPT !.imag = {}] /\ Abort
       \/ matrix' = LoadedMatrix /\ AcceptMatrix
    /\ UNCHANGED <<kind, live, runs, at, held, factors, results, points, requested>>

FillFrequency ==
    /\ pc = "load"
    /\ \/ BadFrequency
       \/ matrix' = FilledMatrix /\ AcceptMatrix
    /\ UNCHANGED <<kind, live, runs, at, held, factors, results, points, requested>>

Refactor ==
    /\ factors # Nothing
    /\ factors' = {matrix}
    /\ UNCHANGED errors

(* The failure to update is not fatal, its report is dropped once the      *)
(* matrix has been factored.                                               *)
ReportAfterFactoring_Slip(fallback) == errors \/ fallback
ReportAfterFactoring(fallback) == IF fallback THEN FALSE ELSE errors

FactorFully ==
    /\ factors' = {matrix}
    /\ errors' = ReportAfterFactoring(factors # Nothing)

FactoringFails ==
    /\ factors' = Nothing
    /\ Abort

SingularMatrix ==
    /\ factors' = {matrix}
    /\ Abort

Factor ==
    /\ pc = "factor"
    /\ \/ FactoringFails
       \/ SingularMatrix
       \/ /\ Refactor \/ FactorFully
          /\ pc' = "solve"
          /\ UNCHANGED outcome
    /\ UNCHANGED <<kind, live, runs, at, held, matrix, results, points, requested>>

-----------------------------------------------------------------------------
(* Solving.  Of the excitations in a loop the first k have been solved     *)
(* when the loop is left.                                                  *)

SolvedUpTo(k) ==
    [s \in 1 .. Excitations |->
        IF s <= k /\ s \in Solved THEN factors ELSE results[s]]

Failing == 0 .. Excitations - 1

DumpPoint(res) ==
    points' = Append(points, [frequency |-> at, used |-> res])

Advance ==
    IF at = Points THEN Finish /\ UNCHANGED <<at, errors>>
                   ELSE at' = at + 1 /\ pc' = "load" /\ UNCHANGED <<errors, outcome>>

DumpAndAdvance ==
    /\ results' = SolvedUpTo(Excitations)
    /\ DumpPoint(SolvedUpTo(Excitations))
    /\ Advance

SolveFailsAfter(k) ==
    /\ results' = SolvedUpTo(k)
    /\ Abort
    /\ UNCHANGED <<at, points>>

Solving(cores) ==
    /\ pc = "solve"
    /\ kind \in cores
    /\ UNCHANGED <<kind, live, runs, held, matrix, factors, requested>>

(* AC and HBAC: one solve with every source on the right-hand side.        *)
SolveAC ==
    /\ Solving({"ac"})
    /\ DumpAndAdvance \/ SolveFailsAfter(0)

SolveHBAC ==
    /\ Solving({"hbac"})
    /\ DumpAndAdvance \/ SolveFailsAfter(0)

(* Transfer function: a solve for each source; a failure leaves both the   *)
(* loop over the sources and the one over the frequencies.                 *)
SolveXF ==
    /\ Solving({"xf"})
    /\ \/ DumpAndAdvance
       \/ \E k \in Failing : SolveFailsAfter(k)

(* Stability: the results are computed from both solutions together.       *)
SolveStb ==
    /\ Solving({"stb"})
    /\ DumpAndAdvance \/ SolveFailsAfter(0)

(* Noise: one adjoint solve, then the contribution of every instance.      *)
NoiseUpTo(k) ==
    [s \in 1 .. Excitations |-> IF s <= k THEN factors ELSE Nothing]

SolveNoise ==
    /\ Solving({"noise"})
    /\ \/ DumpAndAdvance
       \/ SolveFailsAfter(0)
       \/ \E k \in Failing :
             /\ results' = NoiseUpTo(k)
             /\ Abort
             /\ UNCHANGED <<at, points>>

SolveHBNoise ==
    /\ Solving({"hbnoise"})
    /\ \/ DumpAndAdvance
       \/ SolveFailsAfter(0)
       \/ \E k \in Failing :
             /\ results' = NoiseUpTo(k)
             /\ Abort
             /\ UNCHANGED <<at, points>>

(* S-parameters: a failure at a port leaves only the loop over the ports;  *)
(* the matrix is computed from the rows as they are, the point is dumped   *)
(* and the sweep advances.  It goes on to the next frequency only without  *)
(* a failure, but when there is no next one it has finished.               *)
AdvanceWithError ==
    IF at = Points THEN Finish /\ errors' = TRUE /\ UNCHANGED at
                   ELSE at' = at + 1 /\ Abort

SolveSP ==
    /\ Solving({"sp"})
    /\ \/ DumpAndAdvance
       \/ \E k \in 0 .. Excitations : SolveFailsAfter(k)
       \/ \E k \in Failing :
             /\ results' = SolvedUpTo(k)
             /\ DumpPoint(SolvedUpTo(k))
             /\ AdvanceWithError

(* DC increment: a single solve.                                           *)
SolveDCIncrement ==
    /\ Solving({"dcinc"})
    /\ \/ /\ results' = SolvedUpTo(1)
          /\ DumpPoint(SolvedUpTo(1))
          /\ Finish
          /\ UNCHANGED <<at, errors>>
       \/ SolveFailsAfter(0)

(* DC transfer function: the point is dumped also after a failure.         *)
SolveDCXF ==
    /\ Solving({"dcxf"})
    /\ \E k \in 0 .. Excitations :
          /\ results' = SolvedUpTo(k)
          /\ DumpPoint(SolvedUpTo(k))
          /\ IF k = Excitations THEN Finish /\ UNCHANGED errors ELSE Abort
    /\ UNCHANGED at

-----------------------------------------------------------------------------
(* The coroutines.  Up to the sweep of the frequency ...                   *)

OpenAC ==
    /\ kind = "ac"
    /\ SolveOperatingPoint \/ Evaluate \/ SetupSweep

OpenXF ==
    /\ kind = "xf"
    /\ ResolveFails \/ SolveOperatingPoint \/ Evaluate \/ SetupSweep

OpenSP ==
    /\ kind = "sp"
    /\ SolveOperatingPoint \/ Evaluate \/ SetupSweep

OpenStb ==
    /\ kind = "stb"
    /\ ResolveFails \/ SolveOperatingPoint \/ Evaluate \/ SetupSweep

OpenNoise ==
    /\ kind = "noise"
    /\ ResolveFails \/ SolveOperatingPoint \/ Evaluate \/ SetupSweep

OpenHBAC ==
    /\ kind = "hbac"
    /\ ResolveFails \/ SolvePeriodic \/ CollectSpectra \/ SetupSweep

OpenHBNoise ==
    /\ kind = "hbnoise"
    /\ ResolveFails \/ SolvePeriodic \/ CollectSpectra \/ SetupSweep

OpenDCIncrement ==
    /\ kind = "dcinc"
    /\ SolveAndKeepFactors

OpenDCXF ==
    /\ kind = "dcxf"
    /\ ResolveFails \/ SolveAndKeepFactors

(* ... and from the sweep's next value to a factored matrix.               *)

PrepareAC ==
    /\ kind = "ac"
    /\ LoadFrequency \/ Factor

PrepareXF ==
    /\ kind = "xf"
    /\ LoadFrequency \/ Factor

PrepareSP ==
    /\ kind = "sp"
    /\ LoadFrequency \/ Factor

PrepareStb ==
    /\ kind = "stb"
    /\ LoadFrequency \/ Factor

PrepareNoise ==
    /\ kind = "noise"
    /\ LoadFrequency \/ Factor

PrepareHBAC ==
    /\ kind = "hbac"
    /\ FillFrequency \/ Factor

PrepareHBNoise ==
    /\ kind = "hbnoise"
    /\ FillFrequency \/ Factor

Step ==
    \/ OpenAC \/ PrepareAC \/ SolveAC
    \/ OpenXF \/ PrepareXF \/ SolveXF
    \/ OpenSP \/ PrepareSP \/ SolveSP
    \/ OpenStb \/ PrepareStb \/ SolveStb
    \/ OpenNoise \/ PrepareNoise \/ SolveNoise
    \/ OpenHBAC \/ PrepareHBAC \/ SolveHBAC
    \/ OpenHBNoise \/ PrepareHBNoise \/ SolveHBNoise
    \/ OpenDCIncrement \/ SolveDCIncrement
    \/ OpenDCXF \/ SolveDCXF

Next == RebuildFails \/ Start \/ Resume \/ Step

Spec == Init /\ [][Next]_vars /\ WF_vars(Step)

-----------------------------------------------------------------------------
TypeOK ==
    /\ kind \in Kinds
    /\ live \subseteq 1 .. Sources
    /\ runs \in 0 .. MaxRuns
    /\ pc \in {"idle", "op", "eval", "collect", "stopped", "sweep", "load", "factor", "solve", "ended"}
    /\ at \in 1 .. Points
    /\ held \in 0 .. MaxRuns
    /\ matrix \in Matrix
    /\ factors \subseteq Matrix /\ Cardinality(factors) <= 1
    /\ DOMAIN results = 1 .. Excitations
    /\ \A s \in DOMAIN results : results[s] \subseteq Matrix /\ Cardinality(results[s]) <= 1
    /\ Len(points) <= Points
    /\ errors \in BOOLEAN
    /\ requested \in BOOLEAN
    /\ outcome \in {"none", "Finished", "Aborted", "Stopped"}

(* The cores that leave the sweep as soon as a source has failed.          *)
LeavesAtFailure == AllKinds \ {"sp", "dcxf"}

(* A point that was written belongs to its frequency: every result in it   *)
(* was computed with the matrix of that frequency and of the operating     *)
(* point of this run, never with what an earlier frequency, source or run  *)
(* left behind, and there is a point for each frequency in order.          *)
PointsAreFresh ==
    kind \in LeavesAtFailure =>
        \A i \in DOMAIN points :
            /\ points[i].frequency = i
            /\ \A s \in Solved : points[i].used[s] = {SystemAt(i)}

(* The linear solver throws when it is used without factors and solves     *)
(* another system when they are stale: whenever a core solves, the factors *)
(* are those of the system at this frequency.                              *)
FactorsOfThisSystem ==
    pc = "solve" => factors = {SystemAt(at)}

(* A run that reports that it finished has written a point for every       *)
(* frequency and leaves no error behind, unless a device asked to finish;  *)
(* an error of an attempt that was recovered is not left on the stack.     *)
FinishedIsComplete ==
    (outcome = "Finished" /\ kind # "sp") =>
        /\ ~errors
        /\ ~requested => Len(points) = IF kind \in DcKinds THEN 1 ELSE Points
=============================================================================
