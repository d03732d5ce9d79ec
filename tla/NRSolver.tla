------------------------------ MODULE NRSolver ------------------------------
(***************************************************************************)
(* The Newton-Raphson solver of the operating point (NRSolver in           *)
(* lib/nrsolver.cpp, OpNRSolver in lib/coreopnr.cpp) with the evaluation   *)
(* of its instances, and the runs OperatingPointCore::runSolver starts.    *)
(*                                                                         *)
(* An iteration builds the linear system at the current iterate, checks    *)
(* its residual, factors and solves it, checks the solution change and     *)
(* either ends the run or goes to the next iterate. Iterates are numbered: *)
(* x is the one in the solution vector, statesOf the one the current       *)
(* device states were computed at. Numbers in matrices and vectors are not *)
(* modelled, what the checks find is chosen freely.                        *)
(***************************************************************************)
EXTENDS Integers, Sequences, FiniteSets, InstanceBypass

CONSTANTS Order,       \* the instances in the order they are evaluated
          Options,     \* option values a run may meet
          ItLim,       \* op_itl
          ItLimCont,   \* op_itlcont
          MaxRuns      \* number of solver runs

ASSUME OrderAssumption ==
    /\ Order \in Seq(Instances) /\ {Order[k] : k \in DOMAIN Order} = Instances
    /\ Len(Order) = Cardinality(Instances)

ASSUME OptionsAssumption ==
    /\ Options \subseteq [nsiter: Nat, conviter: Nat \ {0}, bypass: BOOLEAN,
                          residualcheck: BOOLEAN]
    /\ ItLim \in Nat /\ ItLimCont \in Nat /\ MaxRuns \in Nat

VARIABLES opt,          \* options in force
          settings,     \* nrSettings: options as they were when the core was rebuilt
          phase,        \* what the solver does next
          run,          \* how the run was started
          iteration, convIter, converged, highPrecision,
          prevented,    \* preventedConvergence
          residualOk,
          x, statesOf, nextStatesOf,
          forces,       \* forcesEnabled of slots 0 (continuation) and 1 (nodesets)
          request,      \* commons.requestForcedBypass
          allow,        \* evalSetup_.allowBypass
          flags,        \* of the instances
          abort,        \* flag Abort
          factored,     \* the linear solver holds a factorization
          errors,       \* kinds of errors on the stack
          pushed,       \* ErrorConsumer::pushed
          runs,         \* number of runs started
          passed,       \* history: iterations of this run whose checks all passed
          checkedAt,    \* history: the iterate whose residual was checked last
          setup         \* history: setup of the last evaluation

test   == <<convIter, converged, highPrecision, prevented, residualOk>>
vector == <<x, statesOf, nextStatesOf>>
device == <<request, allow, flags, setup, abort>>
report == <<errors, pushed>>
vars == <<opt, settings, phase, run, iteration, test, vector, forces, device,
          factored, report, runs, passed, checkedAt>>

NoSetup == [nrBypass |-> FALSE, allow |-> FALSE, force |-> FALSE, highPrecision |-> FALSE]
NoForces == [slot \in {0, 1} |-> FALSE]

\* How a run starts: from a stored state, forced towards one, from the last
\* solution, or from zero with the user's nodesets.
Starts == {"stored", "forced", "previous", "fresh"}
Continues(start) == start \in {"stored", "previous"}

Phases == {"idle", "build", "check", "factor", "solve", "left"}
Kinds == {"conflict", "reference", "load", "matrix", "refactor", "factor", "solve",
          "solution", "report", "left"}

Init ==
    /\ opt \in Options /\ settings = opt
    /\ phase = "idle" /\ run = [start |-> "fresh", mark |-> 0, continue |-> FALSE]
    /\ iteration = 0 /\ convIter = 0 /\ converged = FALSE /\ highPrecision = FALSE
    /\ prevented = FALSE /\ residualOk = FALSE
    /\ x = 0 /\ statesOf = 0 /\ nextStatesOf = 0
    /\ forces = NoForces /\ request = FALSE /\ allow = FALSE
    /\ flags = [i \in Instances |-> NoFlags] /\ abort = FALSE
    /\ factored = FALSE /\ errors = {} /\ pushed = 0 /\ runs = 0
    /\ passed = {} /\ checkedAt = 0 /\ setup = NoSetup

-----------------------------------------------------------------------------
(* Between the runs *)

\* An option is swept. None of these makes the analysis rebuild its core.
SweepOptions ==
    /\ phase = "idle" /\ runs < MaxRuns
    /\ opt' \in Options \ {opt}
    /\ UNCHANGED <<settings, phase, run, iteration, test, vector, forces, device,
                   factored, report, runs, passed, checkedAt>>

\* The core is rebuilt after a change of the topology, and device history cleared.
Rebuild ==
    /\ phase = "idle" /\ runs < MaxRuns
    /\ settings' = opt
    /\ factored' = FALSE
    /\ flags' = [i \in Instances |-> ClearHistory(flags[i])]
    /\ UNCHANGED <<opt, phase, run, iteration, test, vector, forces, request, allow,
                   setup, abort, report, runs, passed, checkedAt>>

\* The force slots a run starts with; in a fresh run nodesets may be switched off.
ForcesOf(start, nodesets) ==
    [slot \in {0, 1} |-> CASE start = "forced" -> slot = 0
                           [] start = "fresh"  -> slot = 1 /\ nodesets
                           [] OTHER            -> FALSE]

\* The iterate a run starts with and the one its states belong to. A run that is given
\* up before its first iteration has zeroed the states already, and nothing else.
StartVector(start, bad) ==
    CASE start = "stored"   -> [x |-> 0, statesOf |-> 0]
      [] start = "previous" -> [x |-> x, statesOf |-> statesOf]
      [] OTHER              -> IF bad THEN [x |-> x, statesOf |-> -1] ELSE [x |-> 0, statesOf |-> 0]

\* A stored solution is forced on the nodes that still have a name in it; those that
\* were collapsed into one since may be given two values.
Conflicts(start) == IF start = "forced" THEN BOOLEAN ELSE {FALSE}

\* runSolver and the head of run: the errors of the last run are cleared; forcing a
\* stored solution on a circuit whose nodes collapsed since may leave one; a bad
\* tolerance reference ends the run before its first iteration.
StartRun ==
    /\ phase = "idle" /\ runs < MaxRuns
    /\ \E start \in Starts, nodesets, forceBypass, bad \in BOOLEAN : \E conflict \in Conflicts(start) :
        /\ forceBypass => Continues(start)
        /\ nodesets => start = "fresh"
        /\ run' = [start |-> start, mark |-> IF conflict THEN 1 ELSE 0,
                   continue |-> Continues(start)]
        /\ forces' = ForcesOf(start, nodesets)
        /\ request' = forceBypass
        /\ errors' = (IF conflict THEN {"conflict"} ELSE {}) \cup
                     (IF bad THEN {"reference"} ELSE {})
        /\ pushed' = Cardinality(errors')
        /\ phase' = IF bad THEN "idle" ELSE "build"
        /\ x' = StartVector(start, bad).x /\ statesOf' = StartVector(start, bad).statesOf
    /\ iteration' = 0 /\ convIter' = 0 /\ converged' = FALSE /\ highPrecision' = FALSE
    /\ abort' = FALSE /\ runs' = runs + 1 /\ passed' = {}
    /\ UNCHANGED <<opt, settings, prevented, residualOk, nextStatesOf, allow, flags, setup,
                   factored, checkedAt>>

-----------------------------------------------------------------------------
(* One iteration *)

Push(kind) == errors' = errors \cup {kind} /\ pushed' = pushed + 1

\* The nodeset forces are released once, after op_nsiter iterations.
ForcesIn(n) == IF n = opt.nsiter + 1 THEN NoForces ELSE forces

\* evalSetup_.allowBypass is assigned only while nr_bypass is on.
AllowIn(n) == IF opt.bypass THEN run.continue \/ n > 1 ELSE allow

\* evalSetup.limitingApplied: every instance that is evaluated assigns it, so what
\* the last of them did remains.
LimitingApplied(fs) ==
    LET evaluated == {k \in DOMAIN Order : ~fs[Order[k]].bypassed}
    IN  \E k \in evaluated : fs[Order[k]].limiting /\ \A l \in evaluated : l <= k

EvalSetup(n) ==
    [nrBypass |-> opt.bypass, allow |-> AllowIn(n), force |-> request,
     highPrecision |-> highPrecision]

\* Circuit::evalAndLoad: device after device, instance after instance, up to the
\* first that fails to load; the ones behind it keep what they had.
EvalAndLoad(fs, s, outcomes, last) ==
    LET reached == {Order[k] : k \in 1 .. last}
    IN  [i \in Instances |->
            IF i \in reached THEN EvalCore(i, fs[i], s, outcomes[i]) ELSE fs[i]]

\* preIteration and buildSystem: evaluation and load of the instances at x. A load
\* that fails ends it with the instance number last; fatal: a model asks to abort.
BuildSystem ==
    /\ phase = "build"
    /\ iteration' = iteration + 1
    /\ forces' = ForcesIn(iteration')
    /\ setup' = EvalSetup(iteration') /\ allow' = setup'.allow
    /\ request' = FALSE
    /\ \E outcomes \in Outcomes, failed, fatal \in BOOLEAN, last \in DOMAIN Order :
        /\ ~failed => last = Len(Order)
        /\ flags' = EvalAndLoad(flags, setup', outcomes, last)
        /\ fatal => ~failed /\ \E i \in Instances : ~flags'[i].bypassed
        /\ abort' = fatal
        /\ IF failed \/ fatal THEN Push("load") /\ phase' = "left"
           ELSE phase' = "check" /\ UNCHANGED report
    /\ prevented' = LimitingApplied(flags')
    /\ nextStatesOf' = x
    /\ UNCHANGED <<opt, settings, run, convIter, converged, highPrecision, residualOk, x,
                   statesOf, factored, runs, passed, checkedAt>>

\* Each checked row within its tolerance, or not; not asked when the check is off.
ResidualOutcomes == IF settings.residualcheck THEN BOOLEAN ELSE {TRUE}

\* The system must be finite; its right-hand side is the residual at x.
CheckSystem ==
    /\ phase = "check"
    /\ \/ Push("matrix") /\ phase' = "left" /\ UNCHANGED <<residualOk, checkedAt>>
       \/ /\ phase' = "factor" /\ UNCHANGED report
          /\ residualOk' \in ResidualOutcomes
          /\ checkedAt' = x
    /\ UNCHANGED <<opt, settings, run, iteration, convIter, converged, highPrecision, prevented,
                   vector, forces, device, factored, runs, passed>>

\* The errors after a full factorization made up for a failed refactorization.
FallbackReport == [errors |-> {}, pushed |-> 0]

\* The numeric factorization of the last iteration is refreshed; when that fails
\* (which frees it) the matrix is factored anew and the errors are cleared.
Factor ==
    /\ phase = "factor"
    /\ \E refactored, ok \in BOOLEAN :
        /\ refactored => factored /\ ok
        /\ factored' = ok
        /\ phase' = IF ok THEN "solve" ELSE "left"
        /\ IF refactored \/ (ok /\ ~factored) THEN UNCHANGED report
           ELSE IF ok THEN errors' = FallbackReport.errors /\ pushed' = FallbackReport.pushed
           ELSE errors' = errors \cup {"factor"} /\ pushed' = pushed + (IF factored THEN 2 ELSE 1)
    /\ UNCHANGED <<opt, settings, run, iteration, test, vector, forces, device, runs, passed,
                   checkedAt>>

SolveFails ==
    /\ phase = "solve"
    /\ \E kind \in {"solve", "solution"} : Push(kind)
    /\ phase' = "left"
    /\ UNCHANGED <<opt, settings, run, iteration, test, vector, forces, device, factored, runs,
                   passed, checkedAt>>

IterationLimit == IF run.continue THEN ItLimCont ELSE ItLim

\* The solution change is not checked in the first iteration.
DeltaOutcomes == IF iteration > 1 THEN BOOLEAN ELSE {FALSE}

Convergent(deltaOk) == ~prevented /\ deltaOk /\ residualOk

\* A slip: iterations that converge need not be consecutive.
CountConvergent_Slip(good) == IF good THEN convIter + 1 ELSE convIter

CountConvergent(good) == IF good THEN convIter + 1 ELSE 0

\* postConvergenceCheck rotates the states whether the run converged or not.
StatesAfter(done) == nextStatesOf

IterateAfter(done) == IF done THEN x ELSE x + 1

\* Solution, convergence test and, unless the run converged, the next iterate.
SolveAndTest ==
    /\ phase = "solve"
    /\ \E deltaOk \in DeltaOutcomes :
        LET good == Convergent(deltaOk)
            done == CountConvergent(good) >= settings.conviter
        IN  /\ highPrecision' = (deltaOk /\ ~residualOk)
            /\ convIter' = CountConvergent(good)
            /\ converged' = done
            /\ passed' = IF good THEN passed \cup {iteration} ELSE passed
            /\ statesOf' = StatesAfter(done)
            /\ x' = IterateAfter(done)
            /\ phase' = IF done \/ iteration >= IterationLimit THEN "left" ELSE "build"
    /\ UNCHANGED <<opt, settings, run, iteration, prevented, residualOk, nextStatesOf, forces,
                   device, factored, report, runs, checkedAt>>

\* The end of run: a failure nothing has explained yet gets a report.
Unexplained == ~converged /\ pushed = run.mark

Leave ==
    /\ phase = "left"
    /\ phase' = "idle"
    /\ errors' = errors \cup (IF Unexplained THEN {"report"} ELSE {})
                        \cup (IF converged THEN {} ELSE {"left"})
    /\ pushed' = pushed + (IF converged THEN 0 ELSE IF Unexplained THEN 3 ELSE 1)
    /\ UNCHANGED <<opt, settings, run, iteration, test, vector, forces, device, factored, runs,
                   passed, checkedAt>>

Iterate == BuildSystem \/ CheckSystem \/ Factor \/ SolveFails \/ SolveAndTest \/ Leave

Next == SweepOptions \/ Rebuild \/ StartRun \/ Iterate

Spec == Init /\ [][Next]_vars

-----------------------------------------------------------------------------
TypeOK ==
    /\ opt \in Options /\ settings \in Options /\ phase \in Phases
    /\ run \in [start: Starts, mark: {0, 1}, continue: BOOLEAN]
    /\ iteration \in 0 .. 1 \cup 0 .. ItLim \cup 0 .. ItLimCont  \* a run makes at least one
    /\ convIter \in 0 .. iteration
    /\ converged \in BOOLEAN /\ highPrecision \in BOOLEAN /\ prevented \in BOOLEAN
    /\ residualOk \in BOOLEAN
    /\ x \in Nat /\ statesOf \in -1 .. x /\ nextStatesOf \in Nat /\ checkedAt \in Nat
    /\ forces \in [{0, 1} -> BOOLEAN] /\ request \in BOOLEAN /\ allow \in BOOLEAN
    /\ flags \in [Instances -> Flags] /\ abort \in BOOLEAN /\ setup \in Setup
    /\ factored \in BOOLEAN /\ errors \subseteq Kinds /\ pushed \in Nat
    /\ runs \in 0 .. MaxRuns /\ passed \subseteq 1 .. iteration

Succeeds == phase = "left" /\ converged

(* What a run that converged leaves behind belongs together: the solution  *)
(* is the one whose residual was checked, the device states were computed  *)
(* at it, and it had nr_conviter iterations in a row, the last one         *)
(* included, whose residual and solution change were small and that were   *)
(* not prevented from converging.                                          *)
ResultIsCoherent ==
    Succeeds =>
        /\ statesOf = x /\ checkedAt = x
        /\ (iteration - settings.conviter + 1) .. iteration \subseteq passed

(* The error stack agrees with the result: a run that failed names a       *)
(* reason besides leaving the loop, a run that converged names none, not   *)
(* even a refactorization that failed on the way.                          *)
ErrorsTellOutcome ==
    phase = "idle" /\ runs > 0 /\ run.mark = 0 =>
        IF converged THEN errors = {} ELSE errors \ {"left"} # {}

(* The outcome a run reports, result and errors, is the one it had.        *)
OutcomeIsCoherent == ResultIsCoherent /\ ErrorsTellOutcome

(* An instance is bypassed only in the first iteration of a run, because   *)
(* it was asked for, or when two evaluations in a row agreed and the last  *)
(* one limited nothing; never when high precision is required.             *)
BypassIsJustified ==
    phase = "check" =>
        \A i \in Instances : flags[i].bypassed =>
            /\ ~setup.highPrecision
            /\ \/ setup.force /\ iteration = 1 /\ run.continue
               \/ flags[i].history /\ flags[i].converged /\ ~flags[i].limiting
=============================================================================
