---- MODULE OperatingPoint ----
(***************************************************************************)
(* The operating point core, the harmonic balance core and their homotopy  *)
(* algorithms (OperatingPointCore in lib/coreop.cpp, HBCore in             *)
(* lib/corehb.cpp, GminStepping and Spice3GminStepping in                  *)
(* lib/hmtpgmin.cpp, SourceStepping and Spice3SourceStepping in            *)
(* lib/hmtpsrc.cpp, the state storage of lib/core.cpp).                    *)
(*                                                                         *)
(* When Newton's method fails on the circuit, a homotopy algorithm solves  *)
(* a chain of easier circuits, each from the solution of the one before:   *)
(* with conductances (gdev, gshunt) that are made smaller, or with sources *)
(* that are scaled up. The solver is abstract: a run converges in few,     *)
(* some or many iterations, fails, or aborts. What is kept of a solution   *)
(* is the circuit (the knobs) it solves.                                   *)
(*                                                                         *)
(* Conductances are exponents (a factor is added or subtracted, its root   *)
(* halved), Off stands for 0.0. Source factors are multiples of 1/Full.    *)
(***************************************************************************)
EXTENDS Integers, Sequences, SequencesExt

CONSTANTS Settings,        \* the options and sweep levels an analysis may have
          Gshunt,          \* option gshunt
          GdevTarget,      \* gmin/10, where gdev stepping stops
          MinGmin, StartGmin, MaxGmin,            \* options homotopy_*
          GminFactor, MaxGminFactor, MinGminFactor,
          Full,            \* the source factor 1.0
          SrcStep, SrcScale, MinSrcStep

Off == -1

ASSUME GminAssumption ==
    /\ Gshunt \in Nat \cup {Off} /\ GdevTarget \in Nat /\ MinGmin \in Nat
    /\ StartGmin \in Nat /\ MaxGmin \in Nat
    /\ MinGminFactor \in Nat \ {0} /\ GminFactor \in MinGminFactor .. MaxGminFactor
    /\ MaxGminFactor \in Nat

ASSUME SourceAssumption ==
    /\ Full \in Nat \ {0} /\ SrcScale \in Nat \ {0, 1}
    /\ MinSrcStep \in Nat \ {0} /\ SrcStep \in Nat /\ SrcStep >= MinSrcStep

Algorithms == {"gdev", "gshunt", "spice3gmin", "src", "spice3src"}

ASSUME SettingsAssumption ==
    Settings \subseteq
        [core: {"op", "hb"}, op_homotopy: Seq(STRING), op_srchomotopy: Seq(STRING), skipinitial: BOOLEAN,
         contbypass: BOOLEAN, gminsteps: Nat, srcsteps: Nat, levels: {0, 1}]

VARIABLES opt,           \* settings of the analysis
          pc,            \* "idle", "try", "call", "returned" or "result"
          todo,          \* algorithms of op_homotopy not tried yet
          frames,        \* running algorithms, the innermost first
          knobs,         \* commons.gdev, gshunt and sourcescalefactor
          solution,      \* what the solution vector holds
          coreStates,    \* stored states: sweep levels, then those of homotopy
          highWater,     \* the largest number of stored states so far
          continueState, \* index into coreStates, 0 for nullptr, Gone if freed
          requestForcedBypass, allowBypass,
          outcome,       \* how the last solver run ended
          start,         \* how the last solver run started, and what was lastGood then
          lastGood,      \* history: the last converged solution of this call
          result,        \* what the algorithm that ended last returned
          verdict        \* what the coroutine yielded last

solver == <<solution, start, outcome, lastGood>>
store  == <<coreStates, highWater>>
vars == <<opt, pc, todo, frames, knobs, solver, store, continueState,
          requestForcedBypass, allowBypass, result, verdict>>

-----------------------------------------------------------------------------
(* Data *)

Original == [gdev |-> Off, gshunt |-> Gshunt, src |-> Full]

Outcomes == {"few", "some", "many", "failed", "abort"}
Converges(o) == o \in {"few", "some", "many"}

\* A solution vector: the circuit it was computed for, and whether it solves it.
NoSolution == [solves |-> FALSE, knobs |-> Original]

EmptyState == [valid |-> FALSE, coherent |-> FALSE, solution |-> NoSolution]
Stored(x)  == [valid |-> TRUE, coherent |-> TRUE, solution |-> x]

\* A continue state that points into a vector that was moved or shrunk since.
Gone == -1

Alive == continueState \in DOMAIN coreStates

NoStart == [mode |-> "none", from |-> NoSolution, lastGood |-> NoSolution, bypass |-> FALSE,
            alive |-> TRUE, afterSuccess |-> FALSE]

\* The algorithms a core can use; harmonic balance has source stepping only, and
\* without alternatives at zero source factor.
Available == IF opt.core = "hb" THEN {"src"} ELSE Algorithms
Alternatives == IF opt.core = "hb" THEN {} ELSE {"gdev", "gshunt", "spice3gmin"}

\* The innermost running algorithm. good and at are its last successful and its
\* present value, factor its step, slot where it stores its solutions.
Frame(name, slot, at, factor) ==
    [name |-> name, slot |-> slot, at |-> at, good |-> 0, factor |-> factor, count |-> 0,
     continuation |-> FALSE, phase |-> "step", alternatives |-> <<>>]

Running == Head(frames)

Knob == [gdev |-> "gdev", gshunt |-> "gshunt", spice3gmin |-> "gshunt",
         src |-> "src", spice3src |-> "src"]

Turned(name, x) == [knobs EXCEPT ![Knob[name]] = x]

\* commons.gdev, gshunt or sourcescalefactor as an algorithm leaves it behind.
PutBack(name) == IF name = "initial" THEN knobs ELSE Turned(name, Original[Knob[name]])

AtLeast(x, low) == IF x < low THEN low ELSE x
AtMost(x, high) == IF x > high THEN high ELSE x

GminTarget(name) ==
    IF name = "gdev" THEN GdevTarget ELSE IF Gshunt = Off THEN MinGmin ELSE Gshunt

\* Options homotopy_gminsteps and homotopy_srcsteps; an algorithm with none is skipped.
Steps(name) == IF name \in {"src", "spice3src"} THEN opt.srcsteps ELSE opt.gminsteps

\* What the loops over op_homotopy and op_srchomotopy pass over: an algorithm that the core
\* does not have, or that returns at once because it may not make a step.
Usable(name)      == name \in Available /\ Steps(name) >= 1
Alternative(name) == name \in Alternatives /\ Steps(name) >= 1

\* The i-th value of the algorithms with a fixed number of steps.
Spice3SourceFactor(i) == (i * Full) \div opt.srcsteps

Spice3Gmin(i) ==
    LET low  == GminTarget("spice3gmin")
        high == AtMost(low + GminFactor * opt.gminsteps, MaxGmin)
    IN  high - ((high - low) * i) \div opt.gminsteps

Spice3At(name, i) == IF name = "spice3src" THEN Spice3SourceFactor(i) ELSE Spice3Gmin(i)

-----------------------------------------------------------------------------
(* The call of the core by the analysis *)

Init ==
    /\ opt \in Settings /\ pc = "idle" /\ todo = <<>> /\ frames = <<>>
    /\ knobs = Original /\ solution = NoSolution
    /\ coreStates = [i \in 1 .. opt.levels |-> EmptyState] /\ highWater = opt.levels
    /\ continueState = 0 /\ requestForcedBypass = FALSE /\ allowBypass = FALSE
    /\ outcome = "failed" /\ start = NoStart /\ lastGood = NoSolution
    /\ result = "failed" /\ verdict = "none"

\* The driver stores the solution of the point before for its sweep, or throws the
\* analysis away if it aborted; the next point continues from what is stored.
SweepStates(rebuilt) ==
    IF verdict = "Finished"
    THEN [i \in DOMAIN coreStates |-> [Stored(solution) EXCEPT !.coherent = ~rebuilt]]
    ELSE [i \in 1 .. opt.levels |-> EmptyState]

\* The coroutine of the core up to the initial solver run. For harmonic balance a
\* different spectrum has the effect of a rebuilt circuit: what is stored does not fit.
Invoke(rebuilt, bypass) ==
    /\ pc = "idle"
    /\ coreStates' = SweepStates(rebuilt)
    /\ highWater' = IF verdict = "Finished" THEN highWater ELSE opt.levels
    /\ LET continuing == coreStates' # <<>> /\ coreStates'[1].valid
       IN  /\ bypass => continuing /\ ~rebuilt /\ opt.contbypass
           /\ continueState' = IF continuing THEN 1
                               ELSE IF verdict = "Finished" THEN continueState ELSE 0
           /\ IF opt.skipinitial
              THEN pc' = "try" /\ frames' = <<>>
              ELSE /\ pc' = "call"
                   /\ frames' = <<[Frame("initial", 0, 0, 0) EXCEPT
                                      !.continuation = continuing, !.phase = "final"]>>
    /\ allowBypass' = bypass /\ requestForcedBypass' = FALSE
    /\ todo' = opt.op_homotopy
    /\ lastGood' = NoSolution /\ verdict' = "none"
    /\ UNCHANGED <<opt, knobs, solution, start, outcome, result>>

\* OperatingPointCore::runSolver()
OpStart ==
    LET s == coreStates[continueState]
        how == [mode |-> "previous", from |-> solution, lastGood |-> lastGood,
                bypass |-> requestForcedBypass, alive |-> TRUE,
                afterSuccess |-> Converges(outcome)]
    IN  IF ~Running.continuation
        THEN [how EXCEPT !.mode = "standard", !.from = NoSolution]
        ELSE IF continueState = 0 THEN how
        ELSE IF ~Alive
             THEN [how EXCEPT !.mode = "continue", !.from = NoSolution, !.alive = FALSE]
        ELSE IF s.valid /\ s.coherent
             THEN [how EXCEPT !.mode = "continue", !.from = s.solution, !.bypass = allowBypass]
        ELSE IF s.valid
             THEN [how EXCEPT !.mode = "forced", !.from = s.solution, !.bypass = FALSE]
        ELSE how

\* HBCore::runSolver(): the same ways to start, but never with bypassed devices. What is
\* stored is a spectrum, unpacked into the solution vector.
HBStart == [OpStart EXCEPT !.bypass = FALSE]

StartOfRun == IF opt.core = "hb" THEN HBStart ELSE OpStart

RunSolver(o) ==
    /\ pc = "call"
    /\ start' = StartOfRun
    /\ continueState' = IF Running.continuation THEN 0 ELSE continueState
    /\ requestForcedBypass' = FALSE
    /\ outcome' = o
    /\ solution' = [solves |-> Converges(o), knobs |-> knobs]
    /\ lastGood' = IF Converges(o) THEN solution' ELSE lastGood
    /\ pc' = "returned"
    /\ UNCHANGED <<opt, todo, frames, knobs, store, allowBypass, result, verdict>>

-----------------------------------------------------------------------------
(* What the algorithms have in common *)

\* Where an algorithm begins: at a conductance that is easy, or without sources.
FirstAt(name) ==
    CASE name \in {"gdev", "gshunt"} -> StartGmin
      [] name = "src"               -> 0
      [] OTHER                      -> Spice3At(name, 0)

FirstFrame(name, slot) ==
    LET fresh == Frame(name, slot, FirstAt(name), IF name = "src" THEN SrcStep ELSE GminFactor)
    IN  IF name = "src"
        THEN [fresh EXCEPT !.phase = "start", !.alternatives = opt.op_srchomotopy]
        ELSE fresh

\* A homotopy algorithm is created and makes its first run. Its storage is added to
\* the core's vector, which may move when it outgrows what it ever held.
Start(name, rest) ==
    LET slotted == name \in {"gdev", "gshunt", "src"}
        slot    == IF slotted THEN Len(coreStates) + 1 ELSE 0
    IN  /\ frames' = <<FirstFrame(name, slot)>> \o rest
        /\ knobs' = Turned(name, FirstAt(name))
        /\ coreStates' = IF slotted THEN Append(coreStates, EmptyState) ELSE coreStates
        /\ highWater' = AtLeast(highWater, Len(coreStates'))
        /\ \E moved \in BOOLEAN :
              /\ moved => highWater' > highWater
              /\ continueState' = IF moved /\ continueState # 0 THEN Gone ELSE continueState
        /\ requestForcedBypass' = (requestForcedBypass /\ name = "src")
        /\ pc' = "call"
        /\ UNCHANGED <<opt, solver, allowBypass, result, verdict>>

\* The innermost algorithm makes another run, with its knob turned.
Continue(f, k, bypass) ==
    /\ frames' = <<f>> \o Tail(frames)
    /\ knobs' = k /\ requestForcedBypass' = bypass /\ pc' = "call"
    /\ UNCHANGED <<opt, todo, solver, highWater, allowBypass, result, verdict>>

\* A slip: an algorithm that leaves early keeps its storage.
Stop_SlipStorage(r) ==
    /\ knobs' = PutBack(Running.name)
    /\ coreStates' = IF Running.slot = 0 \/ r = "leave" THEN coreStates ELSE Front(coreStates)
    /\ frames' = Tail(frames) /\ result' = r /\ pc' = "result"
    /\ UNCHANGED <<opt, todo, solver, highWater, requestForcedBypass, allowBypass, verdict>>

\* The innermost algorithm returns: the knob is put back, the storage given up.
Stop(r) ==
    /\ knobs' = PutBack(Running.name)
    /\ coreStates' = IF Running.slot = 0 THEN coreStates ELSE Front(coreStates)
    /\ frames' = Tail(frames) /\ result' = r /\ pc' = "result"
    /\ UNCHANGED <<opt, todo, solver, highWater, requestForcedBypass, allowBypass, verdict>>

Returned(names, phase) ==
    pc = "returned" /\ Running.name \in names /\ Running.phase = phase /\ outcome # "abort"

\* A slip: the solution vector of the failed run is kept.
Restored_Slip(slot) == continueState

\* restoreState()
Restored(slot) == IF coreStates[slot].valid THEN slot ELSE continueState

\* storeState()
StoredIn(slot) == [coreStates EXCEPT ![slot] = Stored(solution)]

Exhausted(f) == f.count + 1 >= Steps(f.name)

\* A slip: the step is not counted.
Counted_Slip == Running

Counted == [Running EXCEPT !.count = @ + 1]

\* Every algorithm leaves at once when the solver was asked to abort.
AbortRequested ==
    pc = "returned" /\ outcome = "abort" /\ Stop("leave") /\ UNCHANGED continueState

\* A slip: the result of the last run is not asked for.
LastRunReturned_Slip ==
    /\ Returned({"initial", "gdev", "gshunt", "spice3gmin"}, "final")
    /\ Stop("converged")
    /\ UNCHANGED continueState

\* The initial run, and the last run of gmin stepping with the knob put back.
LastRunReturned ==
    /\ Returned({"initial", "gdev", "gshunt", "spice3gmin"}, "final")
    /\ Stop(IF Converges(outcome) THEN "converged" ELSE "failed")
    /\ UNCHANGED continueState

-----------------------------------------------------------------------------
(* GminStepping::run() *)

GminConverged ==
    /\ Returned({"gdev", "gshunt"}, "step") /\ Converges(outcome)
    /\ LET f       == Counted
           target  == GminTarget(f.name)
           factor  == CASE outcome = "few"  -> AtMost((3 * f.factor) \div 2, MaxGminFactor)
                        [] outcome = "many" -> AtLeast(f.factor \div 2, MinGminFactor)
                        [] OTHER            -> f.factor
           reaches == f.at - factor < target
           next    == [f EXCEPT !.continuation = TRUE, !.good = f.at,
                                !.at = IF reaches THEN target ELSE f.at - factor,
                                !.factor = IF reaches THEN f.at - target ELSE factor]
       IN  /\ coreStates' = IF f.at <= target THEN coreStates ELSE StoredIn(f.slot)
           /\ IF f.at <= target \/ Exhausted(Running)
              THEN Continue([next EXCEPT !.phase = "final"], PutBack(f.name), TRUE)
              ELSE Continue(next, Turned(f.name, next.at), opt.contbypass)
    /\ UNCHANGED continueState

\* Before anything converged gmin is raised, afterwards the step is made smaller.
GminFailed ==
    /\ Returned({"gdev", "gshunt"}, "step") /\ outcome = "failed"
    /\ LET f      == Counted
           factor == IF f.continuation THEN f.factor \div 4 ELSE f.factor
           at     == IF f.continuation THEN f.good ELSE f.at + factor
           giveUp == IF f.continuation THEN factor < MinGminFactor ELSE at > MaxGmin
       IN  /\ continueState' = IF f.continuation /\ ~giveUp THEN Restored(f.slot)
                               ELSE continueState
           /\ IF giveUp \/ Exhausted(Running)
              THEN Stop("failed")
              ELSE /\ Continue([f EXCEPT !.factor = factor, !.at = at], Turned(f.name, at), FALSE)
                   /\ UNCHANGED coreStates

-----------------------------------------------------------------------------
(* Spice3GminStepping::run() and Spice3SourceStepping::run() *)

\* The next of the fixed steps.
Spice3Continues(f) ==
    LET at == Spice3At(f.name, f.count)
    IN  Continue([f EXCEPT !.at = at], Turned(f.name, at), opt.contbypass) /\ UNCHANGED coreStates

\* After the last step the original gmin is tried, from the solution reached.
Spice3GminStep ==
    /\ Returned({"spice3gmin"}, "step")
    /\ LET f == [Counted EXCEPT !.continuation = TRUE]
       IN  IF ~Converges(outcome) THEN Stop("failed")
           ELSE IF f.count <= opt.gminsteps THEN Spice3Continues(f)
           ELSE /\ Continue([f EXCEPT !.phase = "final"], PutBack(f.name), TRUE)
                /\ UNCHANGED coreStates
    /\ UNCHANGED continueState

\* The last step is the circuit with its full sources.
Spice3SourceStep ==
    /\ Returned({"spice3src"}, "step")
    /\ LET f == [Counted EXCEPT !.continuation = TRUE]
       IN  IF ~Converges(outcome) THEN Stop("failed")
           ELSE IF f.count <= opt.srcsteps THEN Spice3Continues(f)
           ELSE Stop("converged")
    /\ UNCHANGED continueState

-----------------------------------------------------------------------------
(* SourceStepping::run() *)

\* The run with the source factor that f asks for.
SrcRun(f, bypass) ==
    LET at == AtMost(f.good + f.factor, Full)
    IN  Continue([f EXCEPT !.at = at], Turned("src", at), bypass)

\* The circuit without sources is solved: source stepping begins.
SrcBegin ==
    /\ coreStates' = StoredIn(Running.slot)
    /\ SrcRun([Running EXCEPT !.phase = "step", !.continuation = TRUE], opt.contbypass)
    /\ UNCHANGED continueState

SrcSolvedAtZero ==
    /\ \/ Returned({"src"}, "start") /\ Converges(outcome)
       \/ pc = "result" /\ frames # <<>> /\ result = "converged"
    /\ SrcBegin

\* Alternative algorithms are tried at zero source factor, none of them source stepping.
SrcAlternative ==
    /\ \/ Returned({"src"}, "start") /\ outcome = "failed"
       \/ pc = "result" /\ frames # <<>> /\ result = "failed"
    /\ LET rest    == Running.alternatives
           waiting == [Running EXCEPT !.alternatives = Tail(rest)]
       IN  \/ rest = <<>> /\ Stop("failed") /\ UNCHANGED continueState
          \/ /\ rest # <<>> /\ Alternative(Head(rest))
             /\ Start(Head(rest), <<waiting>>)
             /\ UNCHANGED todo
          \/ /\ rest # <<>> /\ ~Alternative(Head(rest))
             /\ frames' = <<waiting>>
             /\ UNCHANGED <<opt, pc, todo, knobs, solver, store, continueState,
                            requestForcedBypass, allowBypass, result, verdict>>

SrcAlternativeLeaves ==
    pc = "result" /\ frames # <<>> /\ result = "leave" /\ Stop("leave") /\ UNCHANGED continueState

SrcConverged ==
    /\ Returned({"src"}, "step") /\ Converges(outcome)
    /\ LET f     == Counted
           raise == CASE outcome = "few"  -> f.factor * SrcScale
                      [] outcome = "many" -> AtLeast(f.factor \div SrcScale, MinSrcStep)
                      [] OTHER            -> f.factor
       IN  IF f.at >= Full \/ Exhausted(Running)
           THEN Stop(IF f.at >= Full THEN "converged" ELSE "failed")
           ELSE /\ coreStates' = StoredIn(f.slot)
                /\ SrcRun([f EXCEPT !.good = f.at, !.factor = raise], opt.contbypass)
    /\ UNCHANGED continueState

SrcFailed ==
    /\ Returned({"src"}, "step") /\ outcome = "failed"
    /\ continueState' = Restored(Running.slot)
    /\ LET f == [Counted EXCEPT !.factor = @ \div 2]
       IN  IF f.factor < MinSrcStep \/ Exhausted(Running)
           THEN Stop("failed")
           ELSE SrcRun(f, FALSE) /\ UNCHANGED coreStates

-----------------------------------------------------------------------------
(* OperatingPointCore::coroutine(), from one algorithm to the next *)

TryNext ==
    /\ pc = "try" /\ todo # <<>> /\ Usable(Head(todo))
    /\ Start(Head(todo), <<>>) /\ todo' = Tail(todo)

PassOver ==
    /\ pc = "try" /\ todo # <<>> /\ ~Usable(Head(todo)) /\ todo' = Tail(todo)
    /\ UNCHANGED <<opt, pc, frames, knobs, solver, store, continueState,
                   requestForcedBypass, allowBypass, result, verdict>>

Yield(v) ==
    /\ verdict' = v /\ pc' = "idle"
    /\ UNCHANGED <<opt, todo, frames, knobs, solver, store, continueState,
                   requestForcedBypass, allowBypass, result>>

NothingLeft == pc = "try" /\ todo = <<>> /\ Yield("Aborted")

AlgorithmEnded ==
    /\ pc = "result" /\ frames = <<>>
    /\ CASE result = "converged" -> Yield("Finished")
         [] result = "leave"     -> Yield("Aborted")
         [] result = "failed"    -> /\ pc' = "try"
                                    /\ UNCHANGED <<opt, todo, frames, knobs, solver, store,
                                           continueState, requestForcedBypass, allowBypass,
                                           result, verdict>>

Work ==
    \/ \E o \in Outcomes : RunSolver(o)
    \/ AbortRequested \/ LastRunReturned
    \/ GminConverged \/ GminFailed
    \/ Spice3GminStep \/ Spice3SourceStep
    \/ SrcSolvedAtZero \/ SrcAlternative \/ SrcAlternativeLeaves
    \/ SrcConverged \/ SrcFailed
    \/ TryNext \/ PassOver \/ NothingLeft \/ AlgorithmEnded

Next == Work \/ \E rebuilt, bypass \in BOOLEAN : Invoke(rebuilt, bypass)

\* A core that was called runs to its end before control returns to the driver.
Spec == Init /\ [][Next]_vars /\ WF_vars(Work)

-----------------------------------------------------------------------------
(* Properties *)

Knobs     == [DOMAIN Original -> Int]
Solutions == [solves: BOOLEAN, knobs: Knobs]
States    == [valid: BOOLEAN, coherent: BOOLEAN, solution: Solutions]
Starts    == [mode: {"none", "standard", "previous", "continue", "forced"},
              from: Solutions, lastGood: Solutions,
              bypass: BOOLEAN, alive: BOOLEAN, afterSuccess: BOOLEAN]

\* Type invariant. At most one algorithm runs inside of another, each in a slot of its own.
TypeOK ==
    /\ opt \in Settings
    /\ pc \in {"idle", "try", "call", "returned", "result"}
    /\ todo \in Seq(STRING)
    /\ Len(frames) <= 2 /\ (pc \in {"call", "returned"} => frames # <<>>)
    /\ \A i \in DOMAIN frames :
          /\ frames[i].name \in Algorithms \cup {"initial"}
          /\ frames[i].slot \in 0 .. Len(coreStates)
          /\ frames[i].count \in 0 .. Steps(frames[i].name) + 1
          /\ frames[i].phase \in {"start", "step", "final"}
    /\ knobs \in Knobs
    /\ solution \in Solutions /\ lastGood \in Solutions /\ start \in Starts
    /\ coreStates \in Seq(States) /\ highWater \in Nat /\ Len(coreStates) <= highWater
    /\ continueState \in Int /\ requestForcedBypass \in BOOLEAN /\ allowBypass \in BOOLEAN
    /\ outcome \in Outcomes /\ result \in {"converged", "failed", "leave"}
    /\ verdict \in {"none", "Finished", "Aborted"}

\* When the core finishes, the solution vector solves the circuit of the user:
\* no conductance of a homotopy is left in it and the sources are at full scale.
FinishedIsSolved == verdict = "Finished" => solution = [solves |-> TRUE, knobs |-> Original]

\* gdev, gshunt and the source factor differ from their original values only while
\* an algorithm that turns them runs; the driver and the next algorithm find them put back.
KnobsPutBack ==
    \A k \in DOMAIN knobs :
        knobs[k] # Original[k] =>
            \E i \in DOMAIN frames : frames[i].name # "initial" /\ Knob[frames[i].name] = k

\* A continued run of a homotopy algorithm starts from the last point that converged, be
\* it still in the solution vector or restored after a failed step. Runs that would read
\* freed storage are excluded, and so is a sweep with
\* op_skipinitial, where the stored state of the sweep is restored instead.
StepsContinueFromLastGood ==
    pc = "returned" /\ Running.name # "initial" /\ Running.continuation /\ start.alive
    /\ ~(opt.skipinitial /\ opt.levels > 0)
        => start.from = start.lastGood /\ start.from.solves

\* A first iteration with bypassed devices repeats evaluations of the run before. It is
\* never asked for in a run that starts from zero or is forced, and a run that goes on
\* from the solution vector has it only if the run before converged.
ForcedBypassFits ==
    start.bypass => /\ start.mode \in {"previous", "continue"}
                    /\ start.mode = "previous" => start.afterSuccess

\* What a step of a homotopy takes from the runs before it is the last good point, and
\* evaluations of devices only where they are those of that point.
StepsStartFromWhatFits == StepsContinueFromLastGood /\ ForcedBypassFits

\* Whatever way the algorithms end, nested or not, the slots of the sweep levels are the
\* only ones left, and a core that finished has no state pending for a later run.
StorageReturned ==
    /\ pc = "idle" => Len(coreStates) = opt.levels
    /\ \A i, j \in DOMAIN frames :
          i # j /\ frames[i].slot # 0 => frames[i].slot # frames[j].slot
    /\ verdict = "Finished" => continueState = 0

\* No way out of an algorithm leaves a knob or a slot of it behind.
NothingLeftBehind == KnobsPutBack /\ StorageReturned

\* The core comes to a verdict however the solver behaves: stepping, retreating and the
\* alternatives at zero source factor come to an end.
EveryCallReturns == (pc # "idle") ~> (pc = "idle")
====
