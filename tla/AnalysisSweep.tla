---- MODULE AnalysisSweep ----
(***************************************************************************)
(* The coroutine of an analysis and the nested sweep it runs               *)
(* (Analysis::coroutine() in lib/an.cpp, ParameterSweeper in               *)
(* lib/coresweep.cpp, the state storage of an analysis core in             *)
(* lib/core.cpp and lib/coreop.cpp).                                       *)
(*                                                                         *)
(* An analysis with no sweep computes one point. With sweeps the coroutine *)
(* writes the values of a point to the circuit, rebuilds the core when the *)
(* circuit demands it, runs the core, moves the innermost sweep that has a *)
(* value left and keeps the core's solution for the sweeps that continue   *)
(* from it. The coroutine runs until it yields a value; what the caller    *)
(* does with it is in AnalysisControl.                                     *)
(*                                                                         *)
(* Levels are numbered from 1, the outermost first (the code counts from   *)
(* 0). A sweep's settings may depend on one circuit variable. What         *)
(* Circuit::elaborateChanges() does to the circuit is in Elaboration: here *)
(* it writes values and says whether the core needs a rebuild. The option  *)
(* nr_contbypass is taken to be on.                                        *)
(***************************************************************************)
EXTENDS ScalarSweep, FiniteSetsExt

CONSTANTS Variables,     \* circuit variables
          Parameters,    \* instance and model parameters, simulator options
          Values,        \* what a circuit variable can be set to
          Original,      \* the values before the first analysis
          SweepLists,    \* the sweep statements an analysis may be given
          Markers,       \* the option sweep_pointmarker, of the circuit and of the analysis
          MaxStops       \* how often the core of one point may stop

Targets == Variables \cup Parameters

SweepLevel ==
    [target: Targets, on: Variables, settings: [Values -> RangeSettings],
     continuation: BOOLEAN]

ASSUME SweepAssumption ==
    /\ Variables \cap Parameters = {} /\ Values \subseteq Int
    /\ Original \in [Targets -> Int] /\ \A v \in Variables : Original[v] \in Values
    /\ SweepLists \subseteq Seq(SweepLevel)
    /\ \A list \in SweepLists : \A i, j \in DOMAIN list :
          list[i].target = list[j].target => i = j
    /\ \A list \in SweepLists : \A i \in DOMAIN list : \A x \in Values :
          LET s == list[i].settings[x]
          IN list[i].target \in Variables /\ SetupOK(s) =>
                \A k \in 0 .. Count(s) - 1 : PointValue(s, k) \in Values
    /\ Markers \subseteq BOOLEAN \X BOOLEAN /\ MaxStops \in Nat

VARIABLES
    sweeps,          \* the sweep statements (ptSweeps)
    inForce,         \* the values of the circuit's variables and parameters
    pointMarker,     \* the option sweep_pointmarker as the circuit has it
    wantMarker,      \* the same option as the analysis sets it
    originalMarker,  \* the same option before the analysis (originalSimOptions)
    setting,         \* per level: its evaluated settings
    at,              \* per level: the position of its ScalarSweep
    bound,           \* the number of levels bound to the circuit
    storedValues,    \* per level: the value before the sweep
    preSweepValuesStored,
    advanced,        \* advancedSweepIndex
    haveStoredState, outputsBound,
    coreStates,      \* per level: the stored state of the core
    solution,        \* the point the core's solution belongs to
    system,          \* counts the rebuilds of the core
    allowBypass,     \* commons.allowContinueStateBypass
    origin,          \* where the core run of this point starts from
    computed,        \* the points computed since the start (history)
    stops,
    pc,              \* where the coroutine goes on
    turn,            \* who runs: the caller or the coroutine
    full, value      \* Generator: a value waits, and the value

circuitVars == <<sweeps, inForce, pointMarker, wantMarker, originalMarker>>
sweeperVars == <<setting, at, bound, storedValues, preSweepValuesStored, advanced>>
coreVars == <<haveStoredState, outputsBound, coreStates, solution, system, allowBypass, origin>>
historyVars == <<computed, stops>>
generatorVars == <<pc, turn, full, value>>

Level == DOMAIN sweeps
N == Len(sweeps)

SweepsVariable(i) == sweeps[i].target \in Variables

SettingsOf(i, env) == sweeps[i].settings[env[sweeps[i].on]]

\* The circuit with the swept targets of the levels in lv set to vals.
Written(env, lv, vals) ==
    [t \in Targets |-> IF \E i \in lv : sweeps[i].target = t
                       THEN vals[CHOOSE i \in lv : sweeps[i].target = t]
                       ELSE env[t]]

VariableLevels == {i \in Level : SweepsVariable(i)}
ParameterLevels == Level \ VariableLevels

\* ParameterSweeper::compute() at the current position, with given settings.
SweptValues(sett) == [i \in Level |-> PointValue(sett[i], at[i])]

\* ParameterSweeper::update(): the levels inside the one that advanced are
\* evaluated again after the variables changed.
Updated(env) == [i \in Level |-> IF i > advanced THEN SettingsOf(i, env) ELSE setting[i]]

NoState == [valid |-> FALSE, coherent |-> FALSE, point |-> <<>>, system |-> 0]

NoOrigin == [mode |-> "none", point |-> <<>>, system |-> 0, bypass |-> FALSE]

\* co_yield: the caller goes on, the coroutine continues at next when resumed.
Yield(v, next) == value' = v /\ pc' = next /\ full' = TRUE /\ turn' = "caller"

Continue(next) == pc' = next /\ UNCHANGED <<turn, full, value>>

CoroutineInit ==
    /\ sweeps \in SweepLists /\ inForce = Original
    /\ \E m \in Markers : pointMarker = m[1] /\ wantMarker = m[2]
    /\ originalMarker = pointMarker
    /\ setting = <<>> /\ at = <<>> /\ bound = 0 /\ storedValues = <<>>
    /\ preSweepValuesStored = FALSE /\ advanced = 1
    /\ haveStoredState = FALSE /\ outputsBound = FALSE
    /\ coreStates = [i \in Level |-> NoState]
    /\ solution = <<>> /\ system = 0 /\ allowBypass = FALSE /\ origin = NoOrigin
    /\ computed = {} /\ stops = 0
    /\ pc = "none" /\ turn = "caller" /\ full = FALSE /\ value = "none"

Running(label) == turn = "coroutine" /\ pc = label

-----------------------------------------------------------------------------
(* Up to the sweep loop *)

\* Options, tolerances or natures fail, or the sweeper cannot be set up or bound
\* (it is bound up to some level then).
SetupFails ==
    /\ Running("begin")
    /\ \/ UNCHANGED sweeperVars
       \/ /\ N > 0
          /\ setting' = [i \in Level |-> SettingsOf(i, inForce)]
          /\ at' = [i \in Level |-> 0]
          /\ bound' \in 0 .. N - 1
          /\ UNCHANGED <<storedValues, preSweepValuesStored, advanced>>
    /\ haveStoredState' = FALSE /\ outputsBound' = FALSE
    /\ UNCHANGED <<coreStates, solution, system, allowBypass, origin>>
    /\ originalMarker' = pointMarker
    /\ Yield("Aborted", "broken")
    /\ UNCHANGED <<sweeps, inForce, pointMarker, wantMarker, historyVars>>

\* ParameterSweeper::setup(), bind(), storeState(), reset().
Setup ==
    /\ Running("begin")
    /\ \A i \in Level : SetupOK(SettingsOf(i, inForce))
    /\ setting' = [i \in Level |-> SettingsOf(i, inForce)]
    /\ at' = [i \in Level |-> 0]
    /\ bound' = N
    /\ storedValues' = [i \in Level |-> inForce[sweeps[i].target]]
    /\ preSweepValuesStored' = (N > 0)
    /\ advanced' = 1
    /\ haveStoredState' = FALSE /\ outputsBound' = FALSE
    /\ UNCHANGED <<coreStates, solution, system, allowBypass, origin>>
    /\ originalMarker' = pointMarker
    /\ Continue("point")
    /\ UNCHANGED <<sweeps, inForce, pointMarker, wantMarker, historyVars>>

-----------------------------------------------------------------------------
(* One point *)

\* The marker of a new point, if the circuit's options ask for it.
MarkPoint ==
    /\ Running("point")
    /\ IF pointMarker
       THEN Yield("SweepPoint", "set")
       ELSE Continue("set")
    /\ UNCHANGED <<circuitVars, sweeperVars, coreVars, historyVars>>

\* Values of the point that elaborateChanges() writes: first the variables, then,
\* if they changed, the inner settings are evaluated, then the parameters.
PointVariables == Written(inForce, VariableLevels, SweptValues(setting))

\* A slip: the inner settings are not evaluated again.
PointSettings_Slip == setting

PointSettings == IF PointVariables = inForce THEN setting ELSE Updated(PointVariables)

PointUpdates == \A i \in Level : SetupOK(PointSettings[i])

PointParameters(lv) == Written(PointVariables, lv, SweptValues(PointSettings))

\* A slip: the stored states stay coherent.
RebuildCore_Slip ==
    /\ outputsBound' = TRUE
    /\ system' = system + 1
    /\ allowBypass' = FALSE
    /\ UNCHANGED coreStates

\* The core is bound to the outputs for the first time, or rebuilt.
RebuildCore ==
    /\ outputsBound' = TRUE
    /\ system' = system + 1
    /\ coreStates' = [i \in Level |-> [coreStates[i] EXCEPT !.coherent = FALSE]]
    /\ allowBypass' = FALSE

KeepCore ==
    /\ allowBypass' = (N > 0 /\ at[N] > 0 /\ sweeps[N].continuation)
    /\ UNCHANGED <<outputsBound, system, coreStates>>

SetPoint(needsCoreRebuild) ==
    /\ Running("set") /\ PointUpdates
    /\ inForce' = PointParameters(ParameterLevels)
    /\ setting' = PointSettings
    /\ pointMarker' = wantMarker
    /\ IF ~outputsBound \/ needsCoreRebuild THEN RebuildCore ELSE KeepCore
    /\ Continue("run")
    /\ UNCHANGED <<sweeps, wantMarker, originalMarker, at, bound, storedValues,
                   preSweepValuesStored, advanced>>
    /\ UNCHANGED <<haveStoredState, solution, origin, historyVars>>

\* The settings of an inner level cannot be evaluated for the new variables, or
\* elaboration fails after some of the parameters were written.
SetPointFails ==
    /\ Running("set")
    /\ setting' = PointSettings
    /\ IF PointUpdates
       THEN \E k \in Level \cup {0} :
               inForce' = PointParameters({i \in ParameterLevels : i <= k})
       ELSE inForce' = PointVariables
    /\ pointMarker' \in {pointMarker, wantMarker}
    /\ Yield("Aborted", "broken")
    /\ UNCHANGED <<sweeps, wantMarker, originalMarker, at, bound, storedValues,
                   preSweepValuesStored, advanced>>
    /\ UNCHANGED <<coreVars, historyVars>>

\* The hierarchy changed and one of the levels no longer finds its target:
\* bind() has dropped the old bindings and stops at that level.
RebindFails ==
    /\ Running("set") /\ PointUpdates /\ N > 0
    /\ inForce' = PointParameters(ParameterLevels)
    /\ setting' = PointSettings
    /\ pointMarker' = wantMarker
    /\ bound' \in 0 .. N - 1
    /\ Yield("Aborted", "broken")
    /\ UNCHANGED <<sweeps, wantMarker, originalMarker, at, storedValues,
                   preSweepValuesStored, advanced>>
    /\ UNCHANGED <<coreVars, historyVars>>

\* restoreState() of the level that advanced, then how the core's solver starts:
\* from a coherent state, by forcing a state of another system, or from scratch.
StartCore ==
    /\ Running("run")
    /\ LET state == coreStates[advanced]
           restored == N > 0 /\ state.valid
       IN origin' = IF ~restored THEN [NoOrigin EXCEPT !.mode = "standard"]
                    ELSE [mode |-> IF state.coherent THEN "continue" ELSE "forced",
                          point |-> state.point, system |-> state.system,
                          bypass |-> state.coherent /\ allowBypass]
    /\ stops' = 0
    /\ Continue("core")
    /\ UNCHANGED <<circuitVars, sweeperVars, computed>>
    /\ UNCHANGED <<haveStoredState, outputsBound, coreStates, solution, system, allowBypass>>

\* The core stops in the middle and goes on when the analysis is resumed.
CoreStops ==
    /\ Running("core") /\ stops < MaxStops
    /\ stops' = stops + 1
    /\ Yield("Stopped", "core")
    /\ UNCHANGED <<circuitVars, sweeperVars, coreVars, computed>>

\* Outputs, pre-analysis computations or the core fail.
CoreAborts ==
    /\ \/ Running("run")
       \/ Running("core")
    /\ Yield("Aborted", "broken")
    /\ UNCHANGED <<circuitVars, sweeperVars, coreVars, historyVars>>

\* The core is done with the point. Without a sweep that is the end.
CoreFinishes ==
    /\ Running("core")
    /\ solution' = at
    /\ computed' = computed \cup {at}
    /\ IF N = 0 THEN Yield("Finished", "end") ELSE Continue("advance")
    /\ UNCHANGED <<circuitVars, sweeperVars, stops>>
    /\ UNCHANGED <<haveStoredState, outputsBound, coreStates, system, allowBypass, origin>>

-----------------------------------------------------------------------------
(* To the next point *)

\* The levels that have a value left, and the innermost of them.
HasNext(i) == at[i] + 1 < Count(setting[i])

MayAdvance == {i \in Level : HasNext(i)}

\* A slip: the first sweep is the fastest.
Innermost_Slip == Min(MayAdvance)

Innermost == Max(MayAdvance)

\* A slip: only the levels inside the one that advanced keep the solution.
\* The core's solution is kept for the levels that continue from it: the one that
\* advances and the ones inside it, all of them the first time.
KeepsSolution(i) ==
    sweeps[i].continuation /\ (haveStoredState => i >= Innermost)

\* ParameterSweeper::advance(), then storeState() for the levels.
Advance ==
    /\ Running("advance") /\ MayAdvance # {}
    /\ at' = [i \in Level |-> IF i < Innermost THEN at[i]
                              ELSE IF i = Innermost THEN at[i] + 1 ELSE 0]
    /\ advanced' = Innermost
    /\ coreStates' = [i \in Level |->
          IF KeepsSolution(i)
          THEN [valid |-> TRUE, coherent |-> TRUE, point |-> solution, system |-> system]
          ELSE coreStates[i]]
    /\ haveStoredState' = TRUE
    /\ Continue("point")
    /\ UNCHANGED <<circuitVars, historyVars, setting, bound, storedValues, preSweepValuesStored>>
    /\ UNCHANGED <<outputsBound, solution, system, allowBypass, origin>>

SweepEnds ==
    /\ Running("advance") /\ MayAdvance = {}
    /\ at' = [i \in Level |-> 0] /\ advanced' = 1
    /\ Continue("end")
    /\ UNCHANGED <<circuitVars, historyVars, coreVars, setting, bound, storedValues,
                   preSweepValuesStored>>

\* The last yield, and the end of the coroutine's body after it.
End ==
    /\ Running("end")
    /\ Yield("Finished", "return")
    /\ UNCHANGED <<circuitVars, sweeperVars, coreVars, historyVars>>

Return ==
    /\ Running("return")
    /\ pc' = "done" /\ full' = TRUE /\ turn' = "caller" /\ UNCHANGED value
    /\ UNCHANGED <<circuitVars, sweeperVars, coreVars, historyVars>>

CoroutineStep ==
    \/ SetupFails \/ Setup
    \/ MarkPoint
    \/ \E needsCoreRebuild \in BOOLEAN : SetPoint(needsCoreRebuild)
    \/ SetPointFails \/ RebindFails
    \/ StartCore \/ CoreStops \/ CoreAborts \/ CoreFinishes
    \/ Advance \/ SweepEnds \/ End \/ Return
=============================================================================
