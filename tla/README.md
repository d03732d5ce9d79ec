# VACASK in TLA+

VACASK is an analog circuit simulator: a library (`src/lib`, `src/include`) and
a command-line program (`src/simulator`). A netlist with a control script is
parsed, a circuit is built from it and changed by commands, and analyses
(operating point, DC sweeps, AC, noise, transient, harmonic balance, periodic
steady state) run on it.

The code computes with floating point numbers. Two things about it can be put
into TLA+. One is the control around the numbers: which derived data are rebuilt
when an input changes, which solution a computation continues from, when a
coroutine hands control back, what is restored after a failure. That is where
results go wrong silently: the simulator prints numbers for a circuit that is
not quite the one in the input. The other is the algebra: integration
coefficients, Jacobians, spectra, the corrections of a shooting run are formulas
that the code states more than once, in different places, and that must agree.
They are computed here exactly, with numbers modulo a prime or with integers, so
that agreement is equality.

Contents: [parts of the system](#the-parts-of-the-system),
[modules](#the-modules), [runs](#the-runs), [disagreements](#disagreements-with-comments-and-documents),
[proofs](#the-proofs), [limits](#not-modelled), [plan](#plan).

## The parts of the system

| Part | State it keeps | Operations | Hard behaviour | What makes it correct |
|---|---|---|---|---|
| Node mapping (`circuit.cpp`) | node order, unknown of a node, representative nodes, sparsity map, contribution counts | `nodeOrdering`, `collapseNodes`, `mapUnknowns`, `buildSparsityAndStates`, `enumerateSystem` | collapses in any order, repeated mappings on old vectors | nodes share an unknown exactly when collapses connect them; contiguous numbers; the entries everybody needs |
| Elaboration (`circuit.cpp`, `cirparams.cpp`, `ciroptions.cpp`, `cirvariables.cpp`, `options.cpp`) | variables, options, change flags, elaborated flag, setup results, tolerances | `elaborate`, `elaborateChanges`, `setVariable`, `setOptions`, `setInstanceParameter` | only what the flags ask for is rebuilt; failures in between | whatever is not rebuilt is still right |
| Hierarchical devices (`hierdevice.cpp`) | contexts, active blocks, subhierarchy | `propagateDownHierarchy`, `subhierarchyChanged`, `buildHierarchy`, `deleteHierarchy` | blocks that come and go during a sweep | the hierarchy is the one the variables ask for |
| Parameter sweeper (`coresweep.cpp`) | settings, position and range of every level, bindings, stored values | `setup`, `update`, `bind`, `storeState`, `write`, `compute`, `advance`, `reset` | ranges that depend on outer sweeps | all points, in order, each with its own values |
| Analysis driver (`an.cpp`, `core.cpp`, `generator.h`) | coroutine, last state, stored options, core states of the sweep levels | `start`, `resume`, `isRunning`, `finish`, `run` | coroutine suspended anywhere, core rebuilt under stored states, aborts half-way | stored states reused only where they fit, every yield handed out, everything restored |
| Operating point, homotopy (`coreop.cpp`, `hmtpgmin.cpp`, `hmtpsrc.cpp`) | gdev, gshunt, source factor, stored states, the state to continue from, the bypass request | `coroutine`, `runSolver`, gdev, gshunt, SPICE3 gmin and source stepping | retreat and retry, one algorithm inside another, early exits | the circuit solved is the original one; steps go on from the last good point; stepping ends |
| Newton-Raphson solver (`nrsolver.cpp`, `coreopnr.cpp`, `coretrannr.cpp`) | iteration, convergence counters, bypass and limiting flags, forces | `run`, `buildSystem`, `setForces`, `loadForces`, `checkDelta`, `checkResidual` | a dozen exits from one loop, bypassed instances, forces that survive a mapping | "converged" means so; the system is the circuit's |
| Devices (`osdi*.cpp`, `devctlsrc.cpp`) | parameters, setup results, states, bound pointers | `setup`, `collapseNodes`, `populateStructures`, `bind`, `evalAndLoad` | four functions that must agree on one stamp | the Jacobian is the derivative of the residual |
| Independent sources (`devvisrc.cpp`) | segment found last, next break point | `sourceSetup`, `sourceCompute` | time goes back | the value of the waveform, no corner unannounced |
| Transient (`coretran.cpp`) | time, step, order, break points, past time steps | `coroutine` | rejection, break points, stop and finish | time advances, break points are met, history holds accepted points |
| Integration coefficients (`coretrancoef.cpp`) | coefficients of a method for the last steps | `compute`, `computeSensitivities`, `scaleDifferentiator` | steps of changing length and order | exact for polynomials of its order |
| Delay lines, history (`coredelay.h`, `ansupport.h`) | circular buffers | `addSample`, `getSample`, `upsize` | eviction and growth of wrapped buffers | the sample is the one of the full history |
| Transient noise (`tdn*.cpp`) | state of two accepted times | `advance`, `revert` | steps taken back | noise is a function of time |
| Small-signal cores (`coreac*.cpp`, `corenoise.cpp`, `coredc*.cpp`) | factored matrix, results, position in the frequency sweep | `coroutine` | factors reused from point to point, failures inside | a written point belongs to its frequency and operating point |
| Harmonic balance (`spurs.cpp`, `corehb*.cpp`) | spectrum, colocation points, transforms, phasors, forces | `buildGrid`, `buildColocation`, `buildAPFT`, `rebuild`, `coroutine`, `fillMatrix` | stored solutions of another spectrum, duplicates, singular transforms | the system is the circuit's steady state; two transforms of one Jacobian agree |
| Periodic steady state (`corepss.cpp`, `corepsstran.cpp`) | start point, period, sensitivities, force slots | `coroutine`, `runShoot`, `runStabilisation`, `computePsiT` | histories at the start of a period, continuation | the correction is Newton's; what is reported closes |
| Command interpreter (`cmd.cpp`) | user options, toplevel list, Monte Carlo mode | commands, `minimalElaboration`, `mc` | errors ignored or fatal, early exits | the circuit follows the script |
| Expressions and contexts (`rpn*.cpp`, `context.cpp`) | context stack, generators of random variables | evaluation | scopes searched or skipped; draws per call site | values of the innermost visible scope |
| Outputs (`core.cpp`, `output.h`, `outrawfile.cpp`) | descriptors, sources, files | `resolveSave`, `resolveOutputDescriptors`, `initializeOutputs`, `addPoint`, `finalizeOutputs`, `deleteOutputs` | places in memory that move while the header stays | a row has the quantities of the header; a file tells how its run ended |
| Linear algebra, solvers (`cscmatrix.cpp`, `densematrix.h`) | matrices | build, factor, solve | numerical | numerical |
| Parser, file stacks, pools, Python tools | tables, files | parse, read, write | I/O | - |

They interact by direct calls, all in one thread. Four mechanisms make the
order of events matter all the same. The circuit and everybody who changes it
talk through **change flags**: a command or a sweep sets them, `elaborateChanges`
reads them, rebuilds and clears them. Analyses and cores are **coroutines**:
`Analysis::coroutine` resumes the coroutine of its core and yields to the
caller, who may run it ahead with `isRunning`, leave it stopped or finish it at
any yield. The analysis keeps **copies of core states** (one per sweep
level) that outlive the core's vectors. And devices, outputs and solvers hold
**pointers and indices** bound once into vectors and matrices that are rebuilt
behind them. The hazards of the code, each at its line, are in `PROJECT.json`.

## The modules

| Module | Models | Kind |
|---|---|---|
| `NodeMap` | `nodeOrdering`, `collapseNodes`, `mapUnknowns`, the diagonal | state machine |
| `SparseMatrix` | sparsity map, compressed columns, bucket | operators |
| `Stamps` | what every device requests, binds, loads and evaluates | operators |
| `Forces` | nodesets and initial conditions, from the list to the system | operators |
| `MatrixAssembly` | from the mapped circuit to the linear system of an operating point or a transient; extends `NodeMap` | state machine, composition |
| `Elaboration` | `elaborate`, `elaborateChanges`, the commands and sweeps that feed them | state machine |
| `ScalarSweep` | number and values of the points of every kind of sweep | operators |
| `SweepEnumeration` | points are visited in lexicographic order, each once | abstract specification |
| `AnalysisSweep` | `Analysis::coroutine`, `ParameterSweeper`, stored core states | actions |
| `AnalysisControl` | `AnalysisSweep` with the `Generator` and the caller; implements `SweepEnumeration` | state machine, composition |
| `OperatingPoint` | `OperatingPointCore` (and `HBCore`) with the five homotopy algorithms | state machine |
| `InstanceBypass` | evaluation or bypass of one instance | operators |
| `NRSolver` | `NRSolver::run` with its instances | state machine |
| `Transient` | `TranCore::coroutine`, noise blocks | state machine |
| `PrimeField` | numbers modulo a prime with a derivative, dense elimination | operators |
| `IntegratorCoeffs` | coefficients, error terms, sensitivities | operators |
| `ShootingTransient` | `Transient` with the numbers it integrates and their sensitivities | composition |
| `DelayLines` | the history buffer and the delay lines on it | operators, state machine |
| `Sources` | waveforms of independent sources | state machine |
| `SmallSignal` | the nine small-signal cores | state machine |
| `Spectrum` | `Spurs`: truncation, pruning, mixing maps | operators |
| `HarmonicBalance` | `HBCore` and `HBNRSolver` | state machine |
| `ConversionMatrix` | the small-signal matrix around a harmonic balance solution | operators |
| `PeriodicSteadyState` | `PssCore`, `PssTranCore` over a period | state machine |
| `MonteCarlo`, `Commands` | random generators; the interpreter with its Monte Carlo loop | operators, state machine |
| `OutputTables`, `Outputs` | what each analysis can write; one run of an analysis writing it | operators, state machine |
| `NodeMapProofs`, `ElaborationProofs`, `AnalysisControlProofs`, `OperatingPointProofs`, `NRSolverProofs`, `TransientProofs`, `SmallSignalProofs`, `CommandsProofs` | theorems about the module each extends; `TransientProofs` also about `DelayLines`, `CommandsProofs` also about `Outputs` | proofs |
| `MC...` | instances for TLC; `MCTransientInputs` and `MCSteadyState` put two components on two benches of one run | for TLC |

### NodeMap, MatrixAssembly, SparseMatrix, Stamps, Forces

`unknownIndex`, `unknownCount` and `unknownToReprNode` are the code's. `pattern`
is the set of collapses the devices ask for, `todo` those not carried out yet.
`BeginMapping` is the temporary numbering of `mapUnknowns`; `CollapseNodes`
carries out one collapse, in any order, as the devices are in an order the
netlist gives; `FinishMapping` renumbers and picks the representatives;
`BuildDiagonal` makes the diagonal entries. Between mappings `ChangePattern`
and `ChangeHierarchy` are what new parameter values and blocks bring about, and
`Elaborate` starts from an empty vector as a full elaboration does. A node is
its place in the order by name; ground and internal nodes are sets.

`MatrixAssembly` puts the rest of the building on top: an analysis decodes its
nodesets (`Forces`) before the circuit is mapped, the devices add their entries
and states (`Stamps`), the analysis adds its own when it needs them, matrices are
built (`SparseMatrix`), everybody binds and loads. The code states a device's
stamp four times (request, bind, load, evaluate), and `Stamps` translates each of
the four by itself: only so can they disagree. A pointer to an entry a matrix
does not have leads to its bucket, as in the code.

### Elaboration

One variable, four options (one of every class the code tells apart) given by maps of
values and expressions, device instances with one parameter each, an analysis with one
parameter that is the variable, an expression of the variable and the
temperature, and conditional blocks at the toplevel and in a subcircuit. The
derived layers (contexts, active blocks, instances, setup, mapping, Jacobian
entries, tolerances) are variables that record **what they were computed from**,
so "is it still right" is an equation. `SetVariable`, `SetUserOptions`, `Alter`
and `ElaborateCircuit` are the commands; `ElaborateChanges` begins
`elaborateChanges()`, which goes on as `PropagateDownHierarchy` or
`NothingToPropagate`, a `SetupInstance` or `SetupFails` per instance,
`MapUnknowns` and `FinishElaborateChanges`, in the order and under the flags of
the code. The interpreter applies all of the user's options to default ones each
time (`OptionsOfUser`); within an analysis the options and the parameter given by
expressions are computed again whenever the variable has changed (`Recomputed`,
`AnalysisParameter`), on the analysis' copy of the options at a sweep point and on the
options from before at the end. `StartAnalysis`, `SweepPoint`, `RunCore`, `CoreFails`,
`FinishAnalysis`, `AbandonAnalysis` and `StopAnalysis` are an analysis with
sweeps, as far as the circuit sees it.

### ScalarSweep, AnalysisSweep, AnalysisControl

A sweep list is a sequence of levels, the outermost first. A level has a target
and settings that may depend on one circuit variable, hence on an outer sweep.
`Setup`, `SetPoint`, `StartCore`, `CoreFinishes`, `CoreStops`, `CoreAborts`,
`Advance`, `SweepEnds` and `End` are the parts of the coroutine between two
places where it can be suspended or its core can decide something. `coreStates`
are the stored solutions with their `valid` and `coherent` marks; a solution is
named by the point and the core (`system`) it was computed with, so reusing one
that does not fit is visible. A rebuild of the core is nondeterministic: it is
up to the circuit.

`AnalysisControl` adds the caller. `full`, `value` and the handle are those of
`Generator`; `Fill` lets the coroutine run until it yields, `ResumeReturns` and
`IsRunningReturns` end the two calls that can ask for it. `Start` builds a new
generator by move assignment, `Finish` restores and destroys it.

`SweepEnumeration` says nothing of odometers: a set of tuples is visited in
lexicographic order, stopping anywhere. `EnumeratesInOrder` states that
`AnalysisControl` implements it with `visited` as the points whose core has
finished and `space` as the points the settings describe, computed from
the settings alone.

### OperatingPoint

The call of the core by the analysis driver (`Invoke`), the solver runs
(`RunSolver`) and what each algorithm does with the outcome of a run. `frames`
is the stack of running algorithms: source stepping can run another one inside
of it when the circuit does not even solve without sources. `GminConverged` and
`GminFailed` are the loop of `GminStepping::run`, `Spice3GminStep` and
`Spice3SourceStep` the algorithms with a fixed number of steps, `SrcSolvedAtZero`,
`SrcAlternative`, `SrcConverged` and `SrcFailed` those of `SourceStepping::run`;
`LastRunReturned` and `AbortRequested` are exits they share, `Stop` is what every
exit does.
`TryNext`, `AlgorithmEnded` and `NothingLeft` are the loop over `op_homotopy`.
The same loop serves harmonic balance, where a stored solution of another
spectrum is not usable.

A solver run converges in few, some or many iterations (the limits that make a
step grow or shrink), fails or is aborted, as it likes. A solution is
represented by the **circuit it was computed for** (the three knobs) and by
whether it solves it. `start` records how the last run started: from zero, from
the solution vector, from a stored state (copied, or as forces), with or
without forced bypass. `coreStates` is the vector of stored states; its growth
may move it, which makes an older pointer `Gone`, and shrinking it leaves a
pointer past its end. Conductances are exponents: a factor is a difference, its
square and fourth root an integer division. Source factors are multiples of
1/`Full`.

### NRSolver, InstanceBypass

`StartRun` is what `OperatingPointCore::runSolver` prepares, `Iterate` one pass
through the loop of `NRSolver::run` with its exits in the code's order. Iterates
are numbered, not computed: `x` is the one in the solution vector, `statesOf` the
one the device states belong to, and every instance remembers where it was
evaluated last. What a check finds is a choice; what the code concludes from it,
and which flags it leaves to the next run, is not.

### Transient, IntegratorCoeffs, ShootingTransient, PrimeField

`Transient` is the loop of the core on a grid of integer times: `CheckParameters`,
`InitialSolution`, `FirstStep`, `Solve`, `AcceptPoint`, `RejectPoint`, `TooSmall`,
`Advance` and their failures. The solver's outcome, the verdict of the error test,
the step and the break point a device asks for are choices.

`ShootingTransient` runs the same machine with numbers: each solve computes the
coefficients of corrector and predictor for its steps and order
(`IntegratorCoeffs`), and for a periodic steady state the recursion of
`PssTranCore::onTimestepAccepted` for the derivatives of the solution by its
start and by the period. A number of `PrimeField` is a value modulo a prime with
a derivative, so the recursion is compared with the derivative itself. The
circuit has one unknown with a charge and a current that change with time.

### DelayLines, Sources

`DelayLines` keeps, besides the buffers, a `record` that forgets nothing, and
compares every value that can be asked for. `Sources` evaluates a source at
arbitrary times, in any order, under any waveform after any other; a read of
`nextBreakIndex` that no path has written is a choice of two answers.

### SmallSignal

Numbers are replaced by where they come from: a matrix by the run and the
frequency its parts were loaded for, a result by the factors it was solved with.
Every core has its own actions (`Open...`, `Prepare...`, `Solve...`) and shares
`Factor`, `Advance` and `Finish`.

### Spectrum, HarmonicBalance, ConversionMatrix

`Spectrum` is the odometer of `Spurs::build` with truncation, the meeting of
products at one frequency and pruning. `HarmonicBalance` computes the grid, a
regular choice of colocation points, the transforms, the system the solver builds
from a nonlinear circuit and its delay lines, its forces, and runs Newton's
iteration in the numbers of `PrimeField`, where cosine and sine are made of a
root of unity. `ConversionMatrix` is the second transform of the same Jacobian,
by the small-signal cores.

### PeriodicSteadyState

The coroutine of `PssCore`: `TakeState`, `StabiliseFromInput`, `StabiliseFromState`
give the start point and use the force slots, `FirstShoot` and `ShootAgain`
integrate a period (`StepAccepted` per point), `Correct` solves the bordered
system, `LastShoot` writes, and integrates the adjoint backwards on request. The
circuits are linear, with matrices that change from point to point; the step
control of `Transient` has left a grid of three steps.

### Commands, MonteCarlo

`Commands` executes a control block: variables, options, `alter`, `elaborate`,
analyses, abort policy and the Monte Carlo loop, which runs the nested block
through a recursive call of the same interpreter. The circuit is the variable,
option and samples it was computed from. Each elaboration writes the user's options
(`UserOptions`) on top of the default ones, whether or not a variable changed
(`circuit.h:333`). `MonteCarlo` has the generators: one per
call site, with the columns of the Latin hypercube.

### OutputTables, Outputs

`OutputTables` is a table of what the code of each analysis says: columns, save
directives with the core they go to, binding, files. `Outputs` is a run: the
columns are listed once, bound again whenever the core was rebuilt, read at every
row. A value that is read is a tuple of what it is, of which object, at which
sweep point and row; a place in memory that is no longer the object's reads as
`Lost` or as another object.

## The runs

| Run | Properties | Instance |
|---|---|---|
| `node_map` | `SharedExactlyWhenConnected`, `NumberedWithoutGaps`: unknowns are the connected groups, numbered from ground without gaps. `SystemIsOneCircuit`: the assembled Jacobian is the derivative of the residual in the operating point and in the transient, the transient system at rest is the static one, and every unknown with an ordinary node has its diagonal entry. `ForcesAsRequested`: a nodeset is a force on the right unknowns or a reported conflict. `SharedEquationsAreChecked`: an equation with two contributions takes part in the convergence check | 13 devices of every kind on 12 nodes (ground in the middle of the order, internal nodes before ordinary ones), 3 sets of existing nodes, collapses in any order, 3 requests (strict nodesets; initial conditions with a shunt; initial conditions without an operating point), repeated mappings; 16 157 states |
| `elaborate_changes` | `CircuitIsCurrent`: hierarchy, setups and unknowns are those the inputs ask for whenever the circuit claims to be elaborated. `CoreSeesThePoint`: swept values, the options of the analysis and what its cores were built for belong to the point when a core runs, and so do tolerances without conditional blocks. `AnalysisRestores`: an analysis gives back what it changed, also when it fails, but for a program's option expressions | netlists with one and two toplevel instances: conditional blocks in the toplevel and in a subcircuit with a device that follows an expression; a flat one with a refusing builtin device, swept parameters, options and variable; the same with alters that fail half-way; `tolscale` swept; options of the user and of an analysis as values and as expressions of the variable. No bound on the number of commands; 2 270 518 states |
| `analysis_sweeps` | `PointHasItsValues`, `RangesAreCovered`, `EnumeratesInOrder` (refinement of `SweepEnumeration`): all points, in order, with their own values. `PointStartsFromWhatFits`: a stored solution is reused only for the system it was computed with, and continuation follows the point before. `RestoresOriginals`. `EveryRunEnds` | nine lists of up to 3 levels (all kinds of ranges, a step of the wrong sign, an illegal combination, ranges that depend on an outer variable and become wrong at some point), 2 starts, 1 stop per point, `isRunning` in the second start |
| `operating_point` | `FinishedIsSolved`: what is handed out solves the original circuit. `NothingLeftBehind`: knobs and storage are put back on every way out. `StepsStartFromWhatFits`: continued steps start from the last good point, forced bypass only where it fits. `EveryCallReturns` | six lists of algorithms and one of harmonic balance, up to 5 steps, in and out of a sweep whose points follow one another without bound |
| `newton` | `OutcomeIsCoherent`: a converged run has passed `nr_conviter` consecutive checks of its own, and solution, states and errors belong to it. `BypassIsJustified`: an instance is bypassed only when its inputs are where it was evaluated | a bypassable and an ordinary instance, 4 iterations (2 in continuation), 2 runs, every start |
| `transient` | `BreakPointsAreMet`, `PastIsUsable`, `NoiseFollowsTime`, `Terminates`: see below. `IntegrationIsExact`: the coefficients differentiate, predict and estimate exactly. `SensitivityIsDerivative`: the sensitivities of a shooting run are the derivatives of its solution | times up to 30 ticks, two neighbouring break points, two bound steps, trapezoidal and Gear methods up to order 3, both noise families, all refused parameters; numbers modulo 10007 |
| `transient_inputs` | `HistoryFitsTheDelay`: delayed values are those of the full history and buffers do not grow beyond the delay. `SourceFollowsItsWaveform`: values are those of the documented waveform and no corner lies before the announced break point | 2 lines over 2 runs of 6 ticks with initial size 2; every waveform after every other, times up to 40; 208 039 states |
| `small_signal` | `PointsAreFresh`: a written point is solved with the factors of its own frequency and operating point, in all cores but `sp` and `dcxf`, which write a point after a failed source. `FinishedIsComplete`: Finished means every point written and no error left | 9 cores, 3 points, 3 sources or ports, 2 runs with and without a rebuild, a failure at every step |
| `commands` | `FilesAreDistinct`: no result file is written twice in a block that names its analyses apart, but for a periodic steady state analysis in a loop. `EndMeansAllWasTried`: a block reports its end only when every analysis of every pass was tried. `AnalysisIsCurrent`: an analysis runs on the circuit its commands describe, with the options that are set then, and the samples of its own pass | nine control blocks, loops of 2 and 3 samples, 2 call sites, every command failing wherever it can |
| `outputs` | `FileHoldsWhatWasAsked`: every row has the quantities the header names, in order, of the right point; what does not exist ends the run when saves are strict. `FilesTellTheOutcome`: the files left behind tell how the run ended | 13 kinds of analysis, 11 lists of saves, sweeps of 2 and 3 points through three circuits, strictsave 0 to 2, 2 rows per core and point, a failure at every step |
| `steady_state` | `SpectrumIsTruncated`: the spectrum is that of the truncation, each frequency once, kept by its lowest order. `SpectraObeyTheCircuit`: the system of harmonic balance is the circuit at every colocation point, its Jacobian the derivative, and the conversion matrix that Jacobian seen between lines. `PhasorsKeepTheirPlace`: stored phasors act on their node and frequency. `MonodromyIsDerivative`: a correction is Newton's for the period it starts from. `PeriodIsClosed`: what is reported, written and stored closes | harmonic balance: 27 setups (one tone, two harmonics with the nodes in either order, a delay loop, a dangling node, oversampling, shifted samples, two tones, a singular transform, evaluation only, 16 refused ones), 4 later setups, 2 runs; shooting: 17 settings of driven and autonomous circuits, 6 later ones, 4 corrections, 3 sweep points; 8 138 states |

`PastIsUsable` says that predictor and integrator never read past a corner or
further back than what was kept; `NoiseFollowsTime` that the noise state is that
of the time solved, however many steps were taken back, and that its generators
throw only for a step that is taken back and lost in rounding; `BreakPointsAreMet` that
no announced break point is stepped over.

**Bounds and why they are enough.** A defect in change tracking needs an input
change, a rebuild and a second change of another kind, and the state keeps no
counters, so `node_map` and `elaborate_changes` explore **unbounded** sequences over a
small netlist. One device per role (free, follower, optional, builtin) meets
every branch; three values let an expression switch a block on and off with a
value in between. Three sweep levels give an innermost, an outermost and a middle
one; two starts show what one run leaves to the next; one stop per point, since a
second resumes from the same place (`MaxStops`, `MaxStarts`, `Polls`). Two runs of
the Newton solver and of the small-signal cores for the same reason, and
`nr_conviter` of up to 2 with four iterations lets a convergent iteration be
followed by another and by a divergent one. In `Transient` a pair of neighbouring
break points is what makes a rejected step lose one, `Horizon` leaves room to
resume the largest step. Delay buffers of two cells wrap, evict and grow within
six ticks. Waveform corners lie at least four ticks apart with a tolerance of
one, as the code's tolerances are far below any interval.

Numbers modulo a prime (10007, 9901) can only hide a disagreement of two formulas if it
is a multiple of the prime for all the instances checked. The order 180 of the
root of unity gives every frequency of the setups a whole number of samples.
Circuits of the shooting bench are chosen so that one to three corrections modulo
the prime arrive at a solution: convergence within a tolerance is closing exactly.

**Fairness.** `EveryRunEnds` (`AnalysisControl`), `EveryCallReturns`
(`OperatingPoint`) and `Terminates` (`ShootingTransient`) assume weak fairness of
what runs in the caller's own thread: a call that was made runs on until it
returns, a coroutine that was resumed runs until it yields. Nothing is asked of
the caller: resuming, polling, starting and stopping are unfair, except that the
loop of `Analysis::run` finishes an analysis after it saw `Aborted` or `Finished`.
The core's termination is an assumption of `AnalysisControl` (a core that runs ends
in one of its three ways) and the subject of `OperatingPoint` and `Transient`.
`SmallSignal` and `Commands` state the same fairness, their properties do not need it.

**Deadlock** is checked in the runs of `MatrixAssembly`, `Elaboration` and
`OperatingPoint`. The others end: starts, runs, points or commands are used up.

## Disagreements with comments and documents

One run checks a statement of a comment against the code and finds a behaviour
that does otherwise: `latin_hypercube` (`EachBinOnce`). The second sample of a
Latin hypercube is drawn from the bin of the first one, so one bin is used twice
and the last one never. The quoted line is in `PROJECT.json`.

The following were seen while translating the code. They have no run of their
own; where a property would be refuted by one, its comment or its bound leaves
just that circumstance out.

*Elaboration and sweeps.*
`unknownToReprNode` is resized, not cleared (`circuit.cpp:1316`): an unknown of
internal nodes only keeps the representative of an earlier mapping, which costs
it its diagonal entry and also decides whether it is shunted and checked.
`elaborateChanges` ignores that a device asks for a new sparsity pattern
(`cirparams.cpp:458`; `circuit.h:126` says it is detected). A block that goes
away renumbers the unknowns, static tolerances stay (`cirparams.cpp:482`). A
block that switches at a sweep point recreates the swept instance with its
netlist value (`cirparams.cpp:352`), and any rebuilt block loses altered
parameters. An inner variable sweep whose range uses an outer variable starts
with the range before (`cirparams.cpp:282`; `docs/cmd-sweep.md` allows it). An
alter that fails half-way raises no flag (`cirparams.cpp:544`). Options of an
analysis without sweeps stay in force (`an.cpp:619`; `docs/cpp-api.md` says they
are restored). Where an analysis sweeps the variable, restoring it computes the
analysis' option expressions again, into the options from before (`an.cpp:624` passes
them with `analysisOptions`, `cirparams.cpp:304` writes them): the options that a
program gave to that analysis alone by expressions stay in force after it. The
interpreter's analyses are safe, since their expressions are the user's own, which had
these values before (`ComesBack`). A setup that fails at a sweep point loses the reports of the
devices set up before it, so `finish` restores without remapping and the circuit
calls itself consistent (`cirparams.cpp:415`, `circuit.cpp:999`). With several
toplevel instances propagation stops at the first one whose blocks change, the
later ones are rebuilt with the contexts of before (`cirparams.cpp:37`).
`tolscale` scales the static tolerances (`circuit.cpp:1058`) but is not among the
options that recompute them (`options.cpp:397`). After a run polled to its end a second start returns a value
nobody yielded (`generator.h:92`).

*Operating point and solver.*
Source stepping and gmin stepping can leave a freed state to be continued
(`hmtpsrc.cpp:150`). With `op_skipinitial` in a sweep the second homotopy step
continues from the state of the sweep. `docs/cmd-options-homotopy.md` says the
source step is divided by `homotopy_srcscale` on failure, the code halves it
(`hmtpsrc.cpp:147`). Step counts of zero leave `stepCount()` uninitialised
(`homotopy.h:47`). Bypass stays switched on by a previous run
(`coreopnr.cpp:687`); limiting is forgotten when an instance is bypassed
(`osdiinstance.cpp:1368`). `errors.clear()` in the solver drops reports made
before the run, among them conflicts of nodesets (`nrsolver.cpp:136`,
`coreop.cpp:346`). With `op_nsiter` or `hb_nsiter` above `nr_conviter` a run can
converge with its forces still on. Solver settings are read when the core is
rebuilt, so options swept without a rebuild do not reach it (`coreop.cpp:238`).

*Forces and assembly.*
`preMapping` looks for entries with the unknowns of the old mapping
(`coreopnr.cpp:136`, called at `cirparams.cpp:431`); contrary to
`coreop.cpp:167` a remapped circuit may lack the diagonal of an unknown, and a
force on it is then loaded into the bucket. A pair with ground always asks for a
new sparsity pattern. A list that ends inside a request is cut silently. A pair
whose nodes share an unknown is dropped in an operating point and forces the
unknown to zero in UIC mode. Two contradictory differences are both loaded.
`loadForces(false)` still loads the Jacobian of differences. A delay line's
residual overwrites what shunts and devices added to the row of its output,
while the Jacobian keeps it. Contribution counts double when only the sparsity
pattern is rebuilt. `homotopy_sourcefactor` does not scale current sources
(`devvisrc.cpp:1232`, but `1322` for voltage sources). The operating point's
solver never updates the maxima that `relref=pointglobal` documents.

*Transient, delays and sources.*
The buffer of past step sizes has room for as many as there are unknowns, plus
one, whatever `tran_maxord` asks for (`coretran.cpp:848`; only a debug build
checks at `coretrancoef.cpp:128`).
`tol` is stale when `relreflte` differs from `relref` (`coretran.cpp:1514`); a
failed strong convergence check is overruled (`coretran.cpp:1593`). Noise generators are taken back before the new step is found too
small (`coretran.cpp:1871`, `1881`): under continuous noise (`sde`) a step lost in rounding makes them
throw (`tdnblock.cpp:97`), nothing catches it, and the run dies instead of reporting
"timestep too small"; the model ends such a run as `Thrown`, and `NoiseFollowsTime`
excludes exactly this case (`LostStep`). In a periodic waveform: the slope of the transition
between periods has the wrong sign (`devvisrc.cpp:333`), a first point after the
start of the period is extrapolated backwards, a phase that falls on a point
leaves the corner at the delay unannounced, a single break point per period is
never announced for the next one, and a pulse without fall time jumps without a
break point. `break="none"` after a longer waveform reads an index of the old
one. The documented default of `break` is "auto", the code's "all".

*Small signal, outputs, commands.*
A failed port of S-parameters does not stop the point (`coreacsp.cpp:565`).
A transfer function at DC is written after its error (`coredcxf.cpp:301`). With
non-strict saves a missing source adds a column of another quantity
(`coreacxf.cpp:95`), a missing output variable of an existing instance adds none
(`core.cpp:400`), and a transfer function from something that is no source drops
all columns after it. `strict` is always false in `an.cpp:78`
(`docs/cmd-save.md:54`). A restart of an aborted analysis keeps its file open and
fails to open it again unnoticed. Files of a periodic steady state ignore the
loop's prefix (`anpss.cpp:132`), so in a Monte Carlo loop each pass overwrites
those of the one before; `FilesAreDistinct` leaves them out. `strictoutput=2`
("delete before analysis starts", `docs/cmd-options-output.md:8`) acts like 1. A
sweep named like a node hides the node. A masked error in the arguments of `mc`
runs the nested block outside of a loop.

*Harmonic balance and periodic steady state.*
With `immax=0` every truncation is a box and otherwise "box" is a diamond
(`spurs.cpp:104`; `corehb.h:23` and `docs/cmd-analysis-hb.md` describe them
apart); "raw" is documented and rejected. A stored solution of another kind of
analysis given as nodeset divides by zero (`corehbnr.cpp:142`). A restored state
of the sweep is compared by the size of its spectrum only, the comment at
`corehb.cpp:709` says by structure. Frequencies without a stored phasor are filled
with zero but not forced. Shooting leaves slot 3 of the operating point's forces
enabled after an incoherent continuation, because it is disabled in another solver
(`corepss.cpp:274`, `coretran.cpp:888`). The initial conditions it prepares are
never read and an empty vector is copied; its start point survives because the
buffer keeps its contents (`coretran.cpp:952`). The warning about `tstab` uses the
parameter even if the period is a stored one. The adjoint recursion uses
capacitances of later points where the transposed recursion has those of the
present one, which differs when they change in time. `corepss.h:54` states the
opposite sign of the code.

## The proofs

Eight modules prove theorems for every value of the constants: any circuit,
netlist, sweep list, control block, any limit, any number of runs. Each extends
the module it is about; `TransientProofs` also extends `DelayLines` and
`CommandsProofs` also `Outputs`, which the core and the commands use. A run checks
the property on its instance, the theorem holds beyond its bounds.

| Module | Theorem | States |
|---|---|---|
| `NodeMapProofs` | `SharingIsConnection`, `NumbersAreContiguous` | `SharedExactlyWhenConnected`, `NumberedWithoutGaps` |
| | `SharedAreAlwaysChecked`, `RequestsAreForced` | `SharedEquationsAreChecked`, `ForcesAsRequested` |
| | `MappingOnlyMerges`, `NamedHaveDiagonal` | no collapse separates two nodes; a named unknown has its diagonal entry |
| | `AssemblyMaps` | `MatrixAssembly` implements `NodeMap`: what is proved of the map holds of the module `node_map` checks |
| `ElaborationProofs` | `NothingStaleIsUsed`, `CoresSeeTheirPoint`, `SweepsRestore` | `CircuitIsCurrent`, `CoreSeesThePoint`, `AnalysisRestores` |
| `AnalysisControlProofs` | `OriginalsReturn`, `RangesInUseAreCovered`, `PointsStartFromWhatFits`, `PointsHaveTheirValues` | `RestoresOriginals`, `RangesAreCovered`, `PointStartsFromWhatFits`, `PointHasItsValues` |
| | `AnalysisEnumerates` | `EnumeratesInOrder`, the refinement of `SweepEnumeration` |
| | `ComputedInOrder`, `NoYieldIsLost` | at the end all points were computed; a yielded value is handed out before the next |
| `OperatingPointProofs` | `FinishedSolves`, `LeavesNothing`, `StepsFit` | `FinishedIsSolved`, `NothingLeftBehind`, `StepsStartFromWhatFits` |
| `NRSolverProofs` | `CoherentOutcome`, `JustifiedBypass` | `OutcomeIsCoherent`, `BypassIsJustified` |
| `TransientProofs` | `NoCornerIsMissed`, `PastIsAlwaysUsable`, `NoiseIsReproduced` | `BreakPointsAreMet`, `PastIsUsable`, `NoiseFollowsTime` |
| | `ShootingIsTransient` | `ShootingTransient` implements `Transient` |
| | `DelaysAreExact` | `HistoryFitsTheDelay` of `DelayLines` |
| | `HistoriesPairUp` | the sample at a position of a history belongs to the time at that position |
| `SmallSignalProofs` | `FreshPoints`, `CompleteWhenFinished` | `PointsAreFresh`, `FinishedIsComplete` |
| | `FactorsFit` | a solve uses the factors of its own system |
| `CommandsProofs` | `SeesCurrent`, `DistinctFiles`, `EndIsComplete` | `AnalysisIsCurrent`, `FilesAreDistinct`, `EndMeansAllWasTried` |
| | `OnceInAPass` | no analysis command is tried twice under one file name prefix |
| | `FilesTell` | `FilesTellTheOutcome` of `Outputs` |

Each module also has its `TypeCorrect`.

**Assumptions.** All are named and stated in the module that declares the
constants; TLC evaluates them in the runs. Most are types or say which
settings the code accepts. Those that say more:

* `NodeAssumption`: nodes are natural numbers (their places by name), finitely
  many, at least one of them ground.
* `NetlistAssumption` of `Elaboration`: every device has a host, a builtin device
  never collapses nodes, only free parameters of unconditional instances are
  swept. That of `MatrixAssembly`: instances and their contributions are finitely many.
* `RequestsAssumption`: a list of nodesets or initial conditions is a finite
  sequence of names, whole numbers and things that are neither.
* `SizesAssumption` of `DelayLines`: finitely many lines, a buffer has room for a sample and
  growing at least doubles it (`coredelay.h` has the factor 2).
* `RunsAssumption` of `Outputs`: a run has a circuit for every point of its sweep, and
  says of each core, as many as its kind has files, whether it writes.
* `SweepAssumption`: a target is swept by one level only, and a range of a
  variable yields values a variable can have.
* `RangesFollowOuterLevels`, which only the last three theorems of
  `AnalysisControlProofs` and `RangesFollowValues` need: a range that varies
  depends on outer levels, and not where a variable is swept by the level itself.
  Without it they are false, because the code evaluates ranges after it wrote
  the variables (`cirparams.cpp:282`, listed above).

**NodeMap.** `SharedExactlyWhenConnected` says something about a finished map
only and is not inductive. The invariant `IInv` adds what holds while collapses
are carried out: ground is unknown 0, nodes of a pair already carried out share an
unknown (`Agrees`), and nodes that share an unknown are connected
(`NothingSharedByAccident`). Both directions meet when `todo` is empty.
`CollapseStep`: moving all nodes of one unknown to another keeps the agreement of
pairs done before, because it treats nodes with equal unknowns alike.
`Renumbering`: replacing each number by its rank is one-to-one and without
gaps (`RankIsNumbering`). Connectedness is defined by closed sets, not by paths,
which makes its properties first-order. For
`SharedEquationsAreChecked`, `Represented` says that every named unknown has a
representative node that is one of its own, and `AssemblyInv` what the saturating
counts tell: none, one or more contributions (`CountedTells`), a mutual
inductance's being counted when it is bound (`BoundTells`). The flags a solver
rebuilds then include every row with two.

`ForcesAsRequested` speaks of what is bound, long after the list was decoded.
`RequestInv` follows it: the decoded request covers the list, that is, every value
and difference on nodes of the circuit is in it, until it is turned into forces
under the unknowns of that moment. Decoding and setting forces are
folds over the list; `FoldExists` and `FoldSteps` unroll a fold into its partial
results, on which one step at a time is argued.

**Elaboration.** What is current at rest is not inductive: between a command
and the end of `elaborateChanges` layers are out of date. The invariant says
**which flag tells of it**: contexts and blocks (`Hierarchical`), parameters of
followers and setups (`Settled`), collapse patterns and the mapping
(`Described`), tolerances and swept values (`Aimed`), the options and cores of an analysis
(`Optioned`), the state to go back to (`Restoring`). With all flags down the layers are current, which is the theorem.
The proof attempt showed three ways in which the code loses a flag; they are
among the disagreements above, and the properties name them.

**AnalysisControl.** The invariant has the types, ranges that make sense with every
position inside its own (`Ranged`), what `finish` has to give back (`Kept`), the
order of the points (`Ordered`), what the levels have stored (`Stored`) and what
the caller was told (`Told`). Under `RangesFollowOuterLevels`, `Valued` adds that
ranges and values in force belong to each other, `Enumerated` that exactly the
points before the present one were computed. `AnalysisEnumerates` then shows for
every action that it computes the next point of the abstract enumeration, or
nothing. The values and the points of a sweep are defined by recursion over its
levels; their facts are proved by contradiction from the least level at which one
would fail. `RangesAreCovered` is arithmetic of the four kinds of ranges.

**OperatingPoint.** Knobs are the original ones but for those of the running
algorithms, and each stands where its frame says (`KnobsMatch`); the storage
beyond that of the sweep is one slot per running algorithm that has one
(`Slots`); a step that continues starts from the slot of its own frame
(`Continuing`, `SlotsHold`, `PointerFits`).
The property itself leaves out runs that would read freed storage and sweeps with
`op_skipinitial` (both listed above).

**NRSolver.** Vectors carry the number of the iterate the system was built at
(`SameIterate`), convergent iterations are counted one after the other
(`Consecutive`, `ConvergedLast`), nothing is on the error stack while a run goes on
(`ErrorsSoFar`), the flags of an instance always go together (`InstancesAgree`).

**Transient.** The step under way ends at or before every time that must be met
(`Bracketed`, `Reported`, `Met`), although a rejected point forgets its break
point; points since the last discontinuity are at least as many as the order asks
for (`History`); the noise generators are where the step ends, and an exception comes
from a lost step only (`Noise`).
`ShootingIsTransient` carries the theorems over to a shooting analysis.

**DelayLines.** `DelayInv` says that the buffers are well-formed (`Built`), that no
history is longer than the times kept for all of them (`Roomy`), that counting back
from the latest cell gives the samples of the record (`Recorded`), whose times
decrease (`Descending`), and that a history has the whole run or reaches further back
than its delay can ask for (`Reaching`), with the bound on its size
(`HistoryIsBounded`). The binary search is a recursive function: that it obeys its
equation (`SearchUnfolds`) and ends between the two samples around the time
(`SearchFinds`) is shown from the least interval for which it would not.

**SmallSignal.** On its way (`Route`) a core holds only parts of the present run
(`PartsOfThisRun`), factors are those of the present system, there is one point for
each frequency before this one (`PointsSoFar`) and no error (`NoErrorOnTheWay`).

**Commands.** In a loop the position is inside the body of the command that
started it (`InLoop`); nothing is logged ahead of the position (`Logged`) or twice
in a pass (`OncePerPass`), and where every loop is closed, every analysis before the
position was tried in every pass up to now (`TriedWhenClosed`); circuit and
samples agree (`CircuitKnown`, `PassKept`).

**Outputs.** `OutInv` has the state of each file by how far the run is
(`FilesOpened`), the rows that are still to be written as a chain without a gap,
core after core (`Ahead`, `Chain`), and the rows of a file as those of all points
before the present one followed by as many of this point as the core has written
(`RowsInOrder`, `WrittenHere`). `Flattened` and `Concatenated` say what the
concatenation of a sequence of sequences is, point by point.

**What stays with TLC.** Liveness (`EveryRunEnds`, `EveryCallReturns`,
`Terminates`): fairness and `ENABLED` are out of the prover's reach. What
computed numbers are (`SystemIsOneCircuit`, `IntegrationIsExact`,
`SensitivityIsDerivative`, `SpectrumIsTruncated`, `SpectraObeyTheCircuit`,
`PhasorsKeepTheirPlace`, `MonodromyIsDerivative`, `PeriodIsClosed`): their
definitions are sums over matrices and spectra and arithmetic modulo a prime, beyond
the arithmetic of the provers. There is no induction over data either: the
recursions and folds the theorems need are unfolded one by one from the least
counterexample, which is practical for the few above.
`SourceFollowsItsWaveform` and `FileHoldsWhatWasAsked` are checked only: they
compare many waveforms and kinds of columns case by case, which TLC does as well.

## Not modelled

What the modules above leave out of the parts they model:

* **Assembly.** Devices are linear; a device's equations are compiled code. Rows
  of delay lines overwrite shunts; `RestIsSteady` excludes them. Forces stay on
  while the system is loaded; released ones are read as none or all.
* **Elaboration.** Expressions never fail to evaluate, be it of options, of an
  analysis or during propagation; mapping does not fail and no circuit is empty; `alter` is given for free parameters
  only; one variable, one expression. `CircuitIsCurrent` leaves out netlists with
  an alter that fails half-way, those where a toplevel instance other than the
  last can switch a block, and mappings after a lost report. Of swept devices and tolerances `CoreSeesThePoint`
  speaks in netlists without conditional blocks only, of the tolerances while the
  analysis leaves `tolscale` alone; of parameters and topology `AnalysisRestores`
  speaks in such netlists only.
* **Analysis.** Integers: no rounding of ranges and no overflow; the end points
  of logarithmic sweeps are given as logarithms; `nr_contbypass` is on;
  `elaborateChanges` is a write of values with an arbitrary demand for a rebuild;
  `finish` fails to restore only through the sweeper; the caller does not resume
  after `Aborted` or past the end. `RestoresOriginals` speaks of parameters only
  while the sweep is bound: a failed `bind` drops the bindings
  (`coresweep.cpp:332`).
* **Operating point, Newton.** Outcomes of solver runs and of convergence tests
  are choices; exponents are integers, so roots of step factors are rounded down.
* **Transient.** The error test is a choice; accuracy is stated of the method,
  not of the solution; the trapezoidal rule with `tran_xmu` other than 1/2 is not
  exact to its order and excluded; the ringing filter's history and Adams-Bashforth,
  which only the code's own test uses, are left out.
* **Sources.** Times are integers, tolerances one tick; of sine, exponential and
  modulated waveforms only the break points; scale, stretch and offset are trivial;
  slopes are whole numbers.
* **Commands.** `print` and `postprocess` only as commands that may fail.
* **Outputs.** No number formats; a core writes two rows.
* **Harmonic balance.** The greedy choice of colocation points is any regular
  choice with the first sample; source stepping belongs to `OperatingPoint`; the
  conversion matrix is compared where sampling makes no difference (equidistant
  samples, linear circuits, or DC); noise modulation spectra are left out.
* **Periodic steady state.** Linear circuits; closing within the tolerance is closing
  exactly; a correction never makes the period negative; the last step absorbs a
  change of the period, as `computePsiT` assumes; the adjoint is compared for
  constant capacitances.

Parts without a module, and why:

* **Numbers**: sparse solvers, orderings and pivoting, eigenvalues, random
  processes and norms are floating point or libraries; TLC has neither, and
  properties of rounding are not about this code.
* **Parser and netlist tables**, **file stacks, identifiers, pools**: built once,
  read afterwards, no protocol between components.
* **Expressions**: the stack machine and the scopes of `context.cpp` are a pure
  function of their input; only the random variables keep state (`MonteCarlo`).
* **Device compilation and loading**, **configuration and platform**, **Python tools**,
  **messages, accounting and progress**: I/O and text.

## Plan

Done: the modules above with their runs and the proofs.

Theorems to come: that a source announces its next corner (`Sources`), and that the
columns of a file are bound to what their names say (`Outputs`).

Modelling to come: the convergence tests of the solvers with their maxima and
references, the scopes of expression contexts, and nonlinear devices in `Stamps`.
