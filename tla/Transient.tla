----------------------------- MODULE Transient -----------------------------
(***************************************************************************)
(* The transient analysis core: TranCore::coroutine (lib/coretran.cpp).    *)
(*                                                                         *)
(* The core computes an initial solution at t=0 and then repeats: solve at *)
(* tSolve = tk+hk, accept or reject the point, propose the next step, cut  *)
(* it at the next break point.  Device waveforms report break points;      *)
(* local truncation error, requests of devices and the distance of break   *)
(* points limit the step.  Time is an integer grid: a step below two ticks *)
(* is "too small" (hk=0), and only a cut or a halved step is one tick.     *)
(* The solver's outcome, the error estimate and the requests of the        *)
(* devices are choices.                                                    *)
(***************************************************************************)
EXTENDS Integers, Sequences, FiniteSetsExt

CONSTANTS
    Settings,       \* parameters and options a run may have, see Init
    Breaks,         \* times at which device waveforms have a corner
    BoundSteps,     \* step bounds the devices may request (0: none)
    Horizon,        \* later than every time: an absent break point
    FsDiv, FbrDiv, FtDiv,   \* 1/tran_fs, 1/tran_fbr, 1/tran_ft
    RedoFactor      \* tran_redofactor, 0: no rejection by error

ASSUME BreaksAssumption ==
    /\ Horizon \in Nat \ {0}
    /\ Breaks \subseteq 2..(Horizon - 1)
    /\ BoundSteps \subseteq {0} \cup 2..Horizon
    /\ \A s \in Settings : s.stop < Horizon
(* Like corners, the times of the analysis are 0 or resolved on the grid. *)
ASSUME SettingsAssumption ==
    \A s \in Settings :
        /\ {s.stop, s.start, s.step, s.maxstep, s.freqstep, s.rmax, s.minptsstep,
            s.maxord} \subseteq Int
        /\ s.stop # 1 /\ s.start # 1
        /\ s.noisestep \in Nat \ {0, 1} /\ s.unknowns \in Nat
        /\ s.filter \in BOOLEAN /\ s.contbypass \in BOOLEAN 
        /\ s.lagged \in BOOLEAN /\ s.relref \in BOOLEAN
ASSUME FactorsAssumption ==
    /\ FsDiv \in Nat \ {0, 1} /\ FbrDiv \in Nat \ {0, 1, 2}
    /\ FtDiv \in Nat \ {0, 1} /\ RedoFactor \in Nat

VARIABLES
    p,          \* the settings of this run
    core,       \* what the coroutine yielded last: Running, Stopped, Finished,
                \* Aborted; Thrown: an exception left it
    stage,      \* where the coroutine is
    finished,   \* the flag that makes finalizeOutputs store the solution
    tk, hk, tSolve, order,
    bp,         \* breakPoints.at(0) and at(1), as <<next, last>>
    since,      \* pointsSinceLastDiscontinuity
    trapHistory,
    accepted,   \* acceptedBoundStep and acceptedHmax
    pastTimesteps,  \* the circular buffer, newest first
    points,     \* accepted points [t, order, brk], newest first (slots 1, 2, ...)
    result,     \* what the solver left: [ok, next, bound, disc, finish, stop]
    next,       \* what was decided: [accept, h, t, order]
    noise,      \* the noise generators
    forced,     \* commons.requestForcedBypass
    evaluated   \* time of the last evaluation of the instances

vars == <<p, core, stage, finished, tk, hk, tSolve, order, bp, since, trapHistory,
          accepted, pastTimesteps, points, result, next, noise, forced, evaluated>>
stepping == <<tk, hk, tSolve, order, bp, since, trapHistory, accepted,
              pastTimesteps, points, next, noise>>

Terminal == {"Finished", "Aborted", "Thrown"}
Resolved(h) == IF h < 2 THEN 0 ELSE h
AtLeastResolved(h) == IF h < 2 THEN 2 ELSE h

(* std::min by a limit that is in force only when it is positive *)
LimitBy(h, limit) == IF limit > 0 THEN Min({h, limit}) ELSE h

(***************************************************************************)
(* Break points and parameters.                                            *)
(***************************************************************************)
(* EvalSetup::setBreakPoint over all devices: the earliest one after t *)
SetBreakPoint(t) == Min({b \in Breaks : b > t} \cup {Horizon})

(* TranCore::updateBreakPoint with the stop and the start time *)
UpdateBreakPoint(b, t) == Min({b} \cup {c \in {p.stop, p.start} : c > t})

RejectedParameters(s) ==
    \/ s.stop < 0
    \/ s.start >= s.stop /\ s.stop > 0
    \/ s.maxstep < 0
    \/ s.method \notin {"am", "bdf"}
    \/ s.noise \notin {"none", "zoh", "sde"}

NoiseStep == IF p.noise = "none" THEN 0 ELSE p.noisestep

(* the limits of a step that do not depend on the break points *)
StepLimit(h) == LimitBy(LimitBy(LimitBy(h, p.maxstep), NoiseStep), p.freqstep)
InitialLimit == StepLimit(LimitBy(p.stop, p.step))
MaxStep == StepLimit(LimitBy(LimitBy(p.stop - p.start, p.rmax * p.step),
                             p.minptsstep))
BreakLimit(b) == AtLeastResolved((b[1] - b[2]) \div FbrDiv)

AddTimestep(h) == SubSeq(<<h>> \o pastTimesteps, 1,
                         Min({Len(pastTimesteps) + 1, p.unknowns + 1}))

(***************************************************************************)
(* Noise generators.  drawn counts the random samples, back is the         *)
(* distance from the newest one; mode "zoh" holds a sample for one         *)
(* interval, mode "sde" draws for every accepted point.                    *)
(***************************************************************************)
SampleIndex(t) == t \div p.noisestep
NoNoise == [at |-> 0, last |-> 0, index |-> 0, drawn |-> 0, back |-> 0, panic |-> FALSE]

AdvanceZoh(g, t) ==
    LET i == SampleIndex(t) IN
    CASE i = g.index -> g
      [] i = g.index + 1 /\ g.back > 0 -> [g EXCEPT !.index = i, !.back = @ - 1]
      [] i = g.index + 1 /\ g.back = 0 -> [g EXCEPT !.index = i, !.drawn = @ + 1]
      [] OTHER -> [g EXCEPT !.panic = TRUE]

(* one sample of rollback: history.size() is 2 *)
RevertZoh(g, t) ==
    LET i == SampleIndex(t) IN
    CASE i = g.index -> g
      [] i = g.index - 1 /\ g.back < 1 -> [g EXCEPT !.index = i, !.back = @ + 1]
      [] OTHER -> [g EXCEPT !.panic = TRUE]

AdvanceSde(g, t) ==
    IF t > g.last THEN [g EXCEPT !.drawn = @ + 1, !.last = g.at, !.at = t]
                  ELSE [g EXCEPT !.panic = TRUE]

RevertSde_Slip(g, t) ==
    IF t > g.last THEN [g EXCEPT !.drawn = @ + 1, !.at = t] ELSE [g EXCEPT !.panic = TRUE]

RevertSde(g, t) ==
    IF t > g.last THEN [g EXCEPT !.at = t] ELSE [g EXCEPT !.panic = TRUE]

AdvanceNoise(t) ==
    CASE p.noise = "none" -> noise
      [] p.noise = "zoh" -> AdvanceZoh(noise, t)
      [] p.noise = "sde" -> AdvanceSde(noise, t)
RevertNoise(t) ==
    CASE p.noise = "none" -> noise
      [] p.noise = "zoh" -> RevertZoh(noise, t)
      [] p.noise = "sde" -> RevertSde(noise, t)

(* With lagged noise the scaling of the samples is collected first, which  *)
(* may fail: the run is aborted and the generators stay where they are.    *)
NoiseMayFail == p.lagged /\ p.noise # "none"

(* A step that is too small ends at tk when rounding loses it, and         *)
(* otherwise after tk, within the same tick.                               *)
RevertedNoise(step) ==
    {RevertNoise(step.t)} \cup
    (IF step.h = 0 /\ p.noise = "sde" THEN {[noise EXCEPT !.at = step.t]} ELSE {})

(***************************************************************************)
(* Start: parameters, initial solution, first step.                        *)
(***************************************************************************)
NoResult == [ok |-> FALSE, next |-> Horizon, bound |-> 0, disc |-> FALSE,
             finish |-> FALSE, stop |-> FALSE]
NoNext == [accept |-> FALSE, h |-> 0, t |-> 0, order |-> 1]

Init ==
    /\ p \in Settings
    /\ core = "Running" /\ stage = "check" /\ finished = FALSE
    /\ tk = 0 /\ hk = 0 /\ tSolve = 0 /\ order = 1
    /\ bp = <<0, 0>> /\ since = 0 /\ trapHistory = 0
    /\ accepted = [bound |-> 0, hmax |-> 0]
    /\ pastTimesteps = <<>> /\ points = <<>>
    /\ result = NoResult /\ next = NoNext /\ noise = NoNoise
    /\ forced = FALSE /\ evaluated = 0

Running(s) == core = "Running" /\ stage = s
Abort == core' = "Aborted" /\ UNCHANGED stage

CheckParameters ==
    /\ Running("check")
    /\ IF RejectedParameters(p)
         THEN Abort
         ELSE stage' = "initial" /\ UNCHANGED core
    /\ UNCHANGED <<p, finished, stepping, result, forced, evaluated>>

(* The operating point or the forces give the solution at t=0, esInit is   *)
(* evaluated there: break point, step bound and requests.                  *)
InitialFailure ==
    /\ Running("initial")
    /\ Abort
    /\ UNCHANGED <<p, finished, stepping, result, forced, evaluated>>

InitialSolution ==
    /\ Running("initial")
    /\ \E bound \in BoundSteps, finish, stop \in BOOLEAN :
         /\ result' = [ok |-> TRUE, next |-> SetBreakPoint(0), bound |-> bound,
                       disc |-> FALSE, finish |-> finish, stop |-> stop]
         /\ core' = CASE finish -> "Finished"
                      [] ~finish /\ stop -> "Stopped"
                      [] OTHER -> "Running"
    /\ points' = <<[t |-> 0, order |-> 0, brk |-> TRUE]>>
    /\ stage' = "first"
    /\ UNCHANGED <<p, finished, tk, hk, tSolve, order, bp, since, trapHistory,
                   accepted, pastTimesteps, next, noise, forced, evaluated>>

FirstStep ==
    /\ Running("first")
    /\ IF p.stop <= 0
         THEN /\ core' = "Finished"
              /\ UNCHANGED <<stage, stepping>>
         ELSE LET b == <<UpdateBreakPoint(result.next, 0), 0>>
                  h == AtLeastResolved(
                         LimitBy(Min({InitialLimit, BreakLimit(b)}), result.bound) \div FsDiv)
              IN /\ bp' = b
                 /\ hk' = h /\ tSolve' = h
                 /\ accepted' = [bound |-> result.bound, hmax |-> InitialLimit]
                 /\ \/ /\ noise' = AdvanceNoise(h)
                       /\ core' = IF noise'.panic THEN "Thrown" ELSE core
                    \/ NoiseMayFail /\ core' = "Aborted" /\ UNCHANGED noise
                 /\ stage' = "solve"
                 /\ UNCHANGED <<tk, order, since, trapHistory, pastTimesteps, points, next>>
    /\ UNCHANGED <<p, finished, result, forced, evaluated>>

(***************************************************************************)
(* The point at tSolve.                                                    *)
(***************************************************************************)
(* the predictor of order n extrapolates n+1 points *)
MinimalPredictorHistory == order + 1
HavePredictor_Slip == since + 1 >= MinimalPredictorHistory

HavePredictor == since >= MinimalPredictorHistory

(* past points the corrector reads, t_k included: numX_ and numXdot_ *)
MinimalDifferentiatorHistory ==
    IF p.method = "bdf" THEN order ELSE IF order > 2 THEN order - 1 ELSE 1

Trapezoidal == p.method = "am" /\ order = 2

(* the counter behind the ringing filter moves with every solution, also   *)
(* with one that is rejected later                                         *)
CountTrapezoidal(ok) ==
    IF ~(ok /\ p.filter) THEN trapHistory
    ELSE IF Trapezoidal THEN Min({trapHistory + 1, 10}) ELSE 0

Solve ==
    /\ Running("solve")
    /\ \E ok \in BOOLEAN, bound \in BoundSteps, disc, finish, stop \in BOOLEAN :
        \E n \in {SetBreakPoint(tSolve)} \cup (IF ok THEN {} ELSE {Horizon}) :
         /\ ~ok => ~(disc \/ finish \/ stop) /\ bound = 0
         /\ finish => ~stop
         /\ result' = [ok |-> ok, next |-> UpdateBreakPoint(n, tSolve), bound |-> bound,
                       disc |-> disc, finish |-> finish, stop |-> stop]
         /\ trapHistory' = CountTrapezoidal(ok)
    /\ forced' = FALSE
    /\ evaluated' = tSolve
    /\ stage' = "decide"
    /\ UNCHANGED <<p, core, finished, tk, hk, tSolve, order, bp, since, accepted,
                   pastTimesteps, points, next, noise>>

(* an Abort request of a device, coefficients that cannot be computed, a   *)
(* noise contribution that cannot be solved for                            *)
SolveAborts ==
    /\ Running("solve")
    /\ Abort
    /\ forced' = FALSE
    /\ UNCHANGED <<p, finished, stepping, result, evaluated>>

(* Steps the error estimate may allow; 0 stands for all that are too small *)
ErrorLimits == {0} \cup 2..(2 * hk)

FailedStep_Slip == hk

FailedStep == Resolved(hk \div FtDiv)

NextOrder(redo) == IF ~redo /\ order < p.maxord THEN order + 1 ELSE order

Decisions ==
    IF ~result.ok
      THEN {[accept |-> FALSE, h |-> FailedStep, order |-> 1]}
    ELSE IF ~HavePredictor
      THEN {[accept |-> TRUE, h |-> hk, order |-> order]}
    ELSE IF ~p.relref THEN {}
    ELSE { LET redo == RedoFactor > 0 /\ hk > RedoFactor * h IN
           [accept |-> ~redo, h |-> h, order |-> NextOrder(redo)] : h \in ErrorLimits }

(* The step that starts at origin, cut at the break point that it would    *)
(* cross and halved when it would end close to it.                         *)
CutStep(origin, h, cut) ==
    IF origin + h > cut
      THEN [h |-> cut - origin, t |-> cut]
    ELSE IF 10 * (cut - (origin + h)) < h
      THEN [h |-> h \div 2, t |-> origin + h \div 2]
    ELSE [h |-> h, t |-> origin + h]

AtBreakPoint == tSolve = bp[1]

(* breakPoints after acceptance at tSolve and after rejection *)
AcceptedBreakPoints ==
    IF AtBreakPoint THEN <<result.next, bp[1]>>
    ELSE IF result.next > tSolve THEN <<result.next, bp[2]>> ELSE bp

RejectedBreakPoints_Slip ==
    IF result.next > tk THEN <<result.next, bp[1]>> ELSE bp

RejectedBreakPoints ==
    IF result.next > tk THEN <<result.next, bp[2]>> ELSE bp

ReachedStop == tSolve >= p.stop

Complete == ReachedStop \/ result.finish

AcceptPoint ==
    /\ Running("decide")
    /\ \E d \in {x \in Decisions : x.accept} :
        LET disc == AtBreakPoint \/ result.disc
            hmax == LimitBy(MaxStep, BreakLimit(AcceptedBreakPoints))
            step == CutStep(tSolve,
                            LimitBy(LimitBy(d.h, result.bound), hmax),
                            AcceptedBreakPoints[1])
        IN /\ bp' = AcceptedBreakPoints
           /\ accepted' = [bound |-> result.bound, hmax |-> hmax]
           /\ next' = [accept |-> TRUE, h |-> step.h, t |-> step.t,
                       order |-> IF disc THEN 1 ELSE d.order]
           /\ since' = IF disc THEN 1 ELSE since + 1
           /\ points' = <<[t |-> tSolve, order |-> order, brk |-> disc]>> \o points
           /\ pastTimesteps' = AddTimestep(hk)
           /\ tk' = tSolve
           /\ finished' = Complete
           /\ \/ /\ noise' = IF ReachedStop THEN noise ELSE AdvanceNoise(step.t)
                 /\ core' = CASE noise'.panic -> "Thrown"
                              [] ~noise'.panic /\ Complete -> "Finished"
                              [] ~noise'.panic /\ ~Complete /\ result.stop -> "Stopped"
                              [] OTHER -> core
              \/ /\ NoiseMayFail /\ ~ReachedStop
                 /\ core' = "Aborted" /\ UNCHANGED noise
    /\ stage' = "advance"
    /\ UNCHANGED <<p, hk, tSolve, order, trapHistory, result, forced, evaluated>>

RejectPoint ==
    /\ Running("decide")
    /\ IF tk < bp[2] \/ tk > bp[1]
         THEN /\ Abort
              /\ UNCHANGED <<bp, next, noise>>
         ELSE \E d \in {x \in Decisions : ~x.accept} :
                LET hmax == LimitBy(accepted.hmax, BreakLimit(RejectedBreakPoints))
                    step == CutStep(tk, LimitBy(LimitBy(d.h, accepted.bound), hmax),
                                    RejectedBreakPoints[1])
                IN /\ bp' = RejectedBreakPoints
                   /\ next' = [accept |-> FALSE, h |-> step.h, t |-> step.t,
                               order |-> d.order]
                   /\ noise' \in RevertedNoise(step)
                   /\ core' = IF noise'.panic THEN "Thrown" ELSE core
                   /\ stage' = "advance"
    /\ UNCHANGED <<p, finished, tk, hk, tSolve, order, since, trapHistory, accepted,
                   pastTimesteps, points, result, forced, evaluated>>

(* The error estimate has a reference only if the options name one that is *)
(* known; in a run of a periodic steady state analysis the sensitivity of  *)
(* an accepted point may not be computable (onTimestepAccepted).           *)
UnknownReference == result.ok /\ HavePredictor /\ ~p.relref

AcceptAborts ==
    /\ Running("decide")
    /\ UnknownReference \/ (p.shooting /\ \E d \in Decisions : d.accept)
    /\ Abort
    /\ UNCHANGED <<p, finished, stepping, result, forced, evaluated>>

(* The next point becomes current, unless its step is too small.  After an *)
(* accepted point the first iteration may bypass every instance.           *)
TooSmall == next.h = 0

ForcesBypass == next.accept /\ p.contbypass

Advance ==
    /\ Running("advance")
    /\ hk' = next.h /\ tSolve' = next.t /\ order' = next.order
    /\ IF TooSmall
         THEN Abort /\ UNCHANGED forced
         ELSE /\ stage' = "solve" /\ UNCHANGED core
              /\ forced' = (forced \/ ForcesBypass)
    /\ UNCHANGED <<p, finished, tk, bp, since, trapHistory, accepted, pastTimesteps,
                   points, result, next, noise, evaluated>>

(* the driver resumes a stopped analysis; nothing obliges it to *)
Resume ==
    /\ core = "Stopped"
    /\ core' = "Running"
    /\ UNCHANGED <<p, stage, finished, stepping, result, forced, evaluated>>

Step == \/ CheckParameters \/ InitialFailure \/ InitialSolution \/ FirstStep
        \/ Solve \/ SolveAborts \/ AcceptPoint \/ AcceptAborts \/ RejectPoint
        \/ Advance
Next == Step \/ Resume

Spec == Init /\ [][Next]_vars /\ WF_vars(Step)
----------------------------------------------------------------------------
(***************************************************************************)
(* Properties.                                                             *)
(***************************************************************************)
TypeOK ==
    /\ core \in {"Running", "Stopped"} \cup Terminal
    /\ stage \in {"check", "initial", "first", "solve", "decide", "advance"}
    /\ finished \in BOOLEAN /\ forced \in BOOLEAN
    /\ {tk, hk, tSolve, since, trapHistory, evaluated} \subseteq Nat
    /\ order = 1 \/ order \in 1..p.maxord
    /\ bp \in Seq(Nat) /\ Len(bp) = 2
    /\ accepted \in [bound : Nat, hmax : Nat]
    /\ pastTimesteps \in Seq(Nat)
    /\ \A i \in DOMAIN points : points[i] \in [t : Nat, order : Nat, brk : BOOLEAN]

Solving == core = "Running" /\ stage = "solve"
Times == {points[i].t : i \in DOMAIN points}

(* The comment at the declaration of the buffer, TranCore::coroutine:      *)
(* breakPoints.at(1) <= tk < tSolve <= breakPoints.at(0) whenever a point  *)
(* is solved, whatever was rejected before.                                *)
BreakPointsBracket ==
    Solving => /\ bp[2] <= tk /\ tk < tSolve /\ tSolve <= bp[1]
               /\ hk = tSolve - tk

(* No corner of a waveform is stepped over: every break point up to the    *)
(* last accepted time is itself an accepted point, and so are the time     *)
(* recording starts and the stop time, although a rejected point forgets   *)
(* the break point it was solved at.                                       *)
BreakPointsAreMet ==
    /\ BreakPointsBracket
    /\ \A b \in Breaks : 0 < b /\ b <= tk => b \in Times
    /\ 0 < p.start /\ p.start <= tk => p.start \in Times
    /\ tk <= Max({0, p.stop})

(* What corrector and predictor read of the past is on one side of the     *)
(* last break point or reported discontinuity, there are enough steps for  *)
(* the order that is used (the DBGCHECK of IntegratorCoeffs::compute), and *)
(* the steps are the distances of the accepted points.                     *)
HistoryOnOneSide ==
    Solving =>
      /\ HavePredictor => \A i \in 1..MinimalPredictorHistory - 1 : ~points[i].brk
      /\ \A i \in 1..order - 1 : ~points[i].brk

(* the buffer of steps has as many places as the circuit has unknowns and  *)
(* one more, whatever the order (see the README)                           *)
HistoryHasRoom == p.maxord <= p.unknowns + 1

PastStepsSuffice ==
    Solving /\ HistoryHasRoom => LET have == Len(pastTimesteps) + 1 IN
      /\ have >= MinimalDifferentiatorHistory
      /\ HavePredictor => have >= MinimalPredictorHistory

PastStepsAreDistances ==
    \A i \in DOMAIN pastTimesteps :
        i < Len(points) /\ pastTimesteps[i] = points[i].t - points[i + 1].t

PastIsUsable == HistoryOnOneSide /\ PastStepsSuffice /\ PastStepsAreDistances

(* The generators follow the time that is solved, however often the step   *)
(* is taken back: a sample once drawn for a time is the one used again for *)
(* it, and the generators throw in one case only, a rejected step that is  *)
(* too small for the time under continuous noise: it is taken back to the  *)
(* last accepted time before it is found too small (coretran.cpp:1871,     *)
(* tdnblock.cpp:97), which ends the run by an exception instead of the     *)
(* error "timestep too small". Sampled noise never throws.                 *)
LostStep ==
    p.noise = "sde" /\ stage = "advance" /\ ~next.accept /\ next.h = 0

NoiseFollowsTime ==
    /\ noise.panic \/ core = "Thrown" => LostStep
    /\ Solving /\ p.noise = "zoh" =>
         /\ noise.index = SampleIndex(tSolve)
         /\ noise.drawn - noise.back = noise.index
    /\ Solving /\ p.noise = "sde" =>
         /\ noise.at = tSolve /\ noise.last = tk
         /\ noise.drawn = Len(points)

(* Every run stops by itself: it reaches the stop time, is finished,       *)
(* stopped or aborted, or its step becomes too small.                      *)
Terminates == core = "Running" ~> core # "Running"
=============================================================================
