---- MODULE AnalysisControl ----
(***************************************************************************)
(* An analysis driven step by step (Analysis::start(), resume(),           *)
(* isRunning(), finish() in lib/an.cpp and include/an.h), over the         *)
(* Generator of include/generator.h. The generator keeps one value ahead:  *)
(* asking whether it is done runs the coroutine to its next yield, and the *)
(* value waits (full) until resume() hands it out. finish() destroys the   *)
(* coroutine but not the flag.                                             *)
(*                                                                         *)
(* The caller starts the analysis again after it finished it, resumes it   *)
(* until it has seen Aborted or Finished, and may finish it at any time.   *)
(* Analysis::run() is one such caller: it asks done() before every         *)
(* resume(), and finishes after the first Aborted or Finished.             *)
(***************************************************************************)
EXTENDS AnalysisSweep

CONSTANTS MaxStarts,     \* how often the analysis is started
          Polls          \* the starts in which the caller uses isRunning()

ASSUME ControlAssumption == MaxStarts \in Nat /\ Polls \subseteq 1 .. MaxStarts

VARIABLES
    starts,                \* number of starts so far
    call,                  \* the call that is being executed
    lastCoroutineState,    \* the last value resume() returned
    unseen,                \* the yielded value nobody has seen (history)
    before                 \* the circuit's values at the last start (history)

clientVars == <<starts, call, lastCoroutineState, unseen, before>>

vars == <<circuitVars, sweeperVars, coreVars, historyVars, generatorVars, clientVars>>

\* What the value slot of a new coroutine holds before the first yield.
Uninitialised == "uninitialised"

Yields == {"SweepPoint", "Stopped", "Aborted", "Finished"}

Init ==
    /\ CoroutineInit
    /\ starts = 0 /\ call = "none" /\ lastCoroutineState = "none" /\ unseen = "none"
    /\ before = inForce

\* The caller has the turn and is in none of the calls.
Idle == turn = "caller" /\ call = "none"

isValid == pc # "none"

Start ==
    /\ Idle /\ ~isValid /\ starts < MaxStarts
    /\ starts' = starts + 1
    /\ pc' = "begin" /\ value' = Uninitialised
    /\ preSweepValuesStored' = FALSE /\ lastCoroutineState' = "none"
    /\ unseen' = "none" /\ before' = inForce /\ computed' = {}
    /\ UNCHANGED <<circuitVars, setting, at, bound, storedValues, advanced, coreVars,
                   stops, turn, full, call>>

\* A slip: the coroutine is run on although a value waits.
\* A call begins: the generator is filled first, unless a value waits already.
Begin(op) ==
    /\ Idle /\ isValid
    /\ call' = op
    /\ turn' = IF full THEN "caller" ELSE "coroutine"
    /\ UNCHANGED <<circuitVars, sweeperVars, coreVars, historyVars, pc, full, value>>
    /\ UNCHANGED <<starts, lastCoroutineState, unseen, before>>

\* The caller does not go on after an abort, nor past the end.
Resume ==
    /\ lastCoroutineState # "Aborted"
    /\ lastCoroutineState = "Finished" => full /\ pc # "done"
    /\ Begin("resume")

IsRunning ==
    /\ starts \in Polls /\ ~full /\ lastCoroutineState # "Aborted"
    /\ Begin("isRunning")

\* The coroutine runs on behalf of a call, up to its next yield or its end.
Fill ==
    /\ CoroutineStep
    /\ unseen' = IF turn' = "caller" /\ pc' # "done" THEN value' ELSE unseen
    /\ UNCHANGED <<starts, call, lastCoroutineState, before>>

\* A slip: the value is not marked as taken.
ResumeReturns_Slip ==
    /\ call = "resume" /\ turn = "caller"
    /\ lastCoroutineState' = value
    /\ unseen' = "none" /\ call' = "none"
    /\ UNCHANGED <<circuitVars, sweeperVars, coreVars, historyVars, generatorVars,
                   starts, before>>

ResumeReturns ==
    /\ call = "resume" /\ turn = "caller"
    /\ lastCoroutineState' = value
    /\ full' = FALSE /\ unseen' = "none" /\ call' = "none"
    /\ UNCHANGED <<circuitVars, sweeperVars, coreVars, historyVars, pc, turn, value,
                   starts, before>>

IsRunningReturns ==
    /\ call = "isRunning" /\ turn = "caller"
    /\ call' = "none"
    /\ UNCHANGED <<circuitVars, sweeperVars, coreVars, historyVars, generatorVars>>
    /\ UNCHANGED <<starts, lastCoroutineState, unseen, before>>

-----------------------------------------------------------------------------
(* finish() *)

\* The variables are written back first and, if they change, the inner settings are
\* evaluated again; the parameters are written only if that succeeds.
RestoredVariables == Written(inForce, VariableLevels, storedValues)

RestoredSettings ==
    IF RestoredVariables = inForce THEN setting ELSE Updated(RestoredVariables)

RestoreUpdates == \A i \in Level : i > advanced => SetupOK(RestoredSettings[i])

\* A slip: the parameters of the innermost level are left as they are.
RestoredParameters_Slip ==
    Written(RestoredVariables, {i \in ParameterLevels : i < bound}, storedValues)

\* A parameter whose level has lost its binding is written through a reference
\* that is no longer there: the circuit keeps what it has.
RestoredParameters ==
    Written(RestoredVariables, {i \in ParameterLevels : i <= bound}, storedValues)

Restore ==
    /\ setting' = RestoredSettings
    /\ IF RestoredVariables = inForce \/ RestoreUpdates
       THEN inForce' = RestoredParameters /\ pointMarker' = originalMarker
       ELSE inForce' = RestoredVariables /\ UNCHANGED pointMarker

Finish ==
    /\ Idle /\ isValid
    /\ IF preSweepValuesStored THEN Restore ELSE UNCHANGED <<inForce, setting, pointMarker>>
    /\ pc' = "none"
    /\ UNCHANGED <<sweeps, wantMarker, originalMarker, at, bound, storedValues,
                   preSweepValuesStored, advanced>>
    /\ UNCHANGED <<coreVars, historyVars, turn, full, value, clientVars>>

Next ==
    \/ Start
    \/ Resume \/ IsRunning \/ Fill \/ ResumeReturns \/ IsRunningReturns
    \/ Finish

\* The coroutine runs when it is resumed, calls return, and the caller resumes until
\* it has seen Aborted or Finished and then finishes, as Analysis::run() does.
FinishDone == lastCoroutineState \in {"Aborted", "Finished"} /\ Finish

Fairness ==
    /\ WF_vars(Fill) /\ WF_vars(ResumeReturns) /\ WF_vars(IsRunningReturns)
    /\ WF_vars(Resume) /\ WF_vars(FinishDone)

Spec == Init /\ [][Next]_vars

FairSpec == Spec /\ Fairness

-----------------------------------------------------------------------------
(* Properties *)

CoreStates == [valid: BOOLEAN, coherent: BOOLEAN, point: Seq(Nat), system: Nat]

\* The types of the variables.
TypeOK ==
    /\ sweeps \in SweepLists /\ inForce \in [Targets -> Int]
    /\ pointMarker \in BOOLEAN /\ wantMarker \in BOOLEAN /\ originalMarker \in BOOLEAN
    /\ bound \in 0 .. N /\ advanced \in 1 .. Max({1, N})
    /\ preSweepValuesStored \in BOOLEAN
    /\ haveStoredState \in BOOLEAN /\ outputsBound \in BOOLEAN /\ allowBypass \in BOOLEAN
    /\ coreStates \in [Level -> CoreStates] /\ solution \in Seq(Nat) /\ system \in Nat
    /\ origin.mode \in {"none", "standard", "continue", "forced"}
    /\ computed \subseteq Seq(Nat)
    /\ turn \in {"caller", "coroutine"} /\ full \in BOOLEAN
    /\ value \in Yields \cup {"none", Uninitialised}
    /\ call \in {"none", "resume", "isRunning"} /\ starts \in 0 .. MaxStarts
    /\ unseen \in Yields \cup {"none"}

\* The settings of level i at a point whose outer positions are p: a variable swept
\* by an outer level has the value that level gives it, any other its own.
OuterLevels(i) == {j \in 1 .. i - 1 : sweeps[j].target = sweeps[i].on}

ValuesAt(p) ==
    LET f[i \in 1 .. Len(p)] ==
            PointValue(sweeps[i].settings[IF OuterLevels(i) = {} THEN Original[sweeps[i].on]
                                          ELSE f[CHOOSE j \in OuterLevels(i) : TRUE]], p[i])
    IN f

SettingsAt(p, i) ==
    sweeps[i].settings[IF OuterLevels(i) = {} THEN Original[sweeps[i].on]
                       ELSE ValuesAt(p)[CHOOSE j \in OuterLevels(i) : TRUE]]

\* The ranges a documented sweep has: one that varies depends on variables that no
\* level sweeps or an outer one, and a level that sweeps a variable has one that
\* does not vary with the sweep: its first point would come from the range before
\* (Circuit::elaborateChanges() evaluates the ranges after it wrote the variables).
RangesFollowOuterLevels ==
    \A list \in SweepLists : \A i \in DOMAIN list :
        \/ \A x, y \in Values : list[i].settings[x] = list[i].settings[y]
        \/ \A j \in DOMAIN list : list[j].target = list[i].on =>
                j < i /\ list[i].target \in Parameters

\* All points of the sweep. A point whose settings are wrong is one of them: it is
\* where the sweep aborts.
Positions(s) == IF SetupOK(s) THEN 0 .. Count(s) - 1 ELSE {0}

Points ==
    LET f[k \in 0 .. N] ==
            IF k = 0 THEN {<<>>}
            ELSE UNION {{Append(p, x) : x \in Positions(SettingsAt(p, k))} : p \in f[k - 1]}
    IN f[N]

\* The core runs with every swept variable and parameter at the value its own range
\* gives it at this point, ranges that depend on an outer sweep included, and
\* everything else as it was (docs/cmd-sweep.md, "Parametric expressions").
PointHasItsValues ==
    pc = "core" => inForce = Written(before, Level, ValuesAt(at))

\* The ranges in use are the ones their settings describe: a step never leaves its
\* range and leaves out no point, the modes reach both ends (setupSteppedSweep() and
\* its siblings).
RangesAreCovered ==
    pc = "core" => \A i \in Level : SetupOK(setting[i]) /\ CoversRange(setting[i])

\* The points are computed each once and in the order of the nested loops, whatever
\* the ranges depend on and wherever the sweep stops, and an analysis that says
\* Finished has computed them all (ParameterSweeper::advance()).
SaysFinished == isValid /\ lastCoroutineState = "Finished"

Enumeration == INSTANCE SweepEnumeration
                   WITH space <- Points, visited <- computed, complete <- SaysFinished

EnumeratesInOrder == Enumeration!EnumerationSpec

\* A sweep that continues starts each point after the first from the solution of the
\* point just before, whichever level advanced; one that does not, from scratch
\* (docs/cmd-sweep.md, "Continuation"; storeState() and restoreState()).
LastComputed == CHOOSE p \in computed :
                    \A q \in computed : p = q \/ Enumeration!Precedes(q, p)

ContinuesFromPreviousPoint ==
    pc = "core" /\ N > 0 =>
        IF ~sweeps[advanced].continuation THEN origin.mode = "standard"
        ELSE computed # {} => /\ origin.mode \in {"continue", "forced"}
                              /\ origin.point = LastComputed

\* The solver takes over a stored solution as it is only if the core was not rebuilt
\* since it was stored, and bypasses the devices in the first iteration only if
\* nothing but the innermost sweep moved since then (makeStateIncoherent(),
\* allowContinueStateBypass).
ReusesOnlyWhatFits ==
    pc = "core" =>
        /\ origin.mode = "continue" => origin.system = system /\ origin.point \in computed
        /\ origin.bypass => /\ origin.mode = "continue" /\ origin.point = LastComputed
                            /\ \A i \in Level \ {N} : at[i] = LastComputed[i]

\* Where a point of a sweep starts from: the solution it is meant to continue, as far
\* as that still fits the core that solves it.
PointStartsFromWhatFits == ContinuesFromPreviousPoint /\ ReusesOnlyWhatFits

\* After finish() the circuit has the values it had before start(), also when the
\* sweep aborted half-way through the writing of a point, as long as its levels are
\* still bound.
RestoresOriginals ==
    pc = "none" /\ preSweepValuesStored =>
        /\ \A i \in VariableLevels : inForce[sweeps[i].target] = before[sweeps[i].target]
        /\ bound = N => inForce = before /\ pointMarker = originalMarker

\* Every analysis that is started is finished in the end.
EveryRunEnds == isValid ~> ~isValid
=============================================================================
