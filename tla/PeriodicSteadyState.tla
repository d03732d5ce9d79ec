-------------------------- MODULE PeriodicSteadyState --------------------------
(***************************************************************************)
(* The periodic steady state by shooting (lib/corepss.cpp, anpss.cpp): a   *)
(* stabilisation transient gives a first point x0, one period is           *)
(* integrated from it, and a Newton correction of x0, and of the period T  *)
(* if the circuit is autonomous, is computed from what PssTranCore         *)
(* (lib/corepsstran.cpp) collected on the way, until the period closes.    *)
(* One more period is then written and, on request, the monodromy matrix   *)
(* is integrated backwards along it.                                       *)
(*                                                                         *)
(* Numbers are those of PrimeField, so a correction can be compared with   *)
(* the derivative of the shoot. The circuits are linear, with matrices     *)
(* that may change from one point of time to the next. Step control        *)
(* (module Transient) has left a grid of a few points per period, closing  *)
(* a period within the tolerances is closing it exactly, and the operating *)
(* point and the stabilisation transient give the points a circuit names.  *)
(***************************************************************************)
EXTENDS IntegratorCoeffs, FiniteSetsExt

CONSTANTS
    Settings,   \* the parameters of an analysis with its circuit
    Changes,    \* those a later point of a sweep can have
    Grid,       \* the steps of a period, in units of which it has Sum(Grid)
    Itl,        \* pss_itl
    MaxRuns     \* bound: points of a sweep

VARIABLES
    p,          \* the parameters
    built,      \* rebuildCores() is done for them
    core,       \* "Idle", "Running", "Finished" or "Aborted"
    stage,      \* where the coroutine of a running core is
    error,      \* what it aborted with
    continuing, \* the run was started in continuation mode
    x0, xT, T,  \* first and last point of a period, and its length
    shoot,      \* what the last run of pssTran_ left
    before,     \* x0 and T before the last correction
    iter,       \* iterIndex
    found,      \* x0_converged_ and T0_converged_
    omega,      \* omegaT_
    shootWrite, \* shootParams.write
    written,    \* points in the results file, of this run
    stored,     \* the stored solution that store writes and ic can name
    state,      \* continueState
    forces,     \* the solver of the operating point: slot 2 has initial conditions, slot 3 acts
    icSlot,     \* icForcesSlot of stabilTran_
    runs

solving == <<x0, xT, T, shoot, before, iter>>
results == <<found, omega, written, stored>>
starting == <<state, forces, icSlot>>
vars == <<p, built, core, stage, error, continuing, solving, results, shootWrite, starting, runs>>

None == <<>>
Circuit == p.circuit
Unknowns == DOMAIN Circuit.op
ZeroVector == [i \in Unknowns |-> Zero]

(***************************************************************************)
(* Vectors and matrices.                                                   *)
(***************************************************************************)
PlusScaled(u, v, a) == [i \in DOMAIN u |-> u[i] ++ (a ** v[i])]
Column(m, j) == [i \in DOMAIN m |-> m[i][j]]
Transposed(m) == [i \in DOMAIN m |-> Column(m, i)]
Product(m, n) == [i \in DOMAIN m |-> [j \in DOMAIN n |-> Dot(m[i], Column(n, j))]]
MatrixPlusScaled(m, n, a) == [i \in DOMAIN m |-> PlusScaled(m[i], n[i], a)]

ZeroMatrix == [i \in Unknowns |-> ZeroVector]
Identity == [i \in Unknowns |-> [j \in Unknowns |-> IF i = j THEN One ELSE Zero]]
SumOfMatrices(s) == FoldLeft(LAMBDA m, n : MatrixPlusScaled(m, n, One), ZeroMatrix, s)

(***************************************************************************)
(* One run of pssTran_ over a period. "stretch" is added to the last step. *)
(***************************************************************************)
Steps == Len(Grid)
Units == FoldLeft(+, 0, Grid)
StepSize(period, k, stretch) ==
    LET h == (period ** Num(Grid[k])) // Num(Units)
    IN IF k = Steps THEN <<h[1], (h[2] + stretch) % P>> ELSE h

Order(k) == Min({k, p.maxord})
Half == One // Num(2)
Slots == 1..(p.maxord + 1)

\* clearTrajectory()
ClearedTrajectory(x) ==
    LET first(v, other) == [i \in Slots |-> IF i = 1 THEN v ELSE other]
    IN [x |-> x, points |-> <<x>>, steps |-> <<>>, x1 |-> None, captured |-> <<>>, ok |-> TRUE,
        coeffs |-> None, jacobian |-> None,
        phi |-> first(Identity, Identity),
        c |-> first(Circuit.c[1], ZeroMatrix), g |-> first(ZeroMatrix, ZeroMatrix),
        q |-> first(MultiplyVector(Circuit.c[1], x), ZeroVector),
        qdot |-> first(ZeroVector, ZeroVector)]

Advanced(ring, v) == [i \in DOMAIN ring |-> IF i = 1 THEN v ELSE ring[i - 1]]
History(ring, i) == [k \in DOMAIN ring |-> ring[k][i]]

\* the matrix that multiplies the i-th past Phi
PastFactor(co, d, s, i) ==
    LET gammaC == IF i \in DOMAIN co.a THEN d.leading ** co.a[i] ELSE Zero
        gammaG == IF i \in DOMAIN co.b THEN Zero -- (co.b[i] // co.b1) ELSE Zero
    IN [c |-> gammaC, g |-> gammaG]

\* A step is solved and accepted: onTimestepAccepted() with the coefficients it was solved with.
\* co are the coefficients, d those scaled by the step, x and jacobian the solution and its Jacobian
Memory(s, d) ==
    [i \in Unknowns |-> Dot(d.a, History(s.q, i)) ++ Dot(d.b, History(s.qdot, i))]

PastTerms(s, gamma) ==
    SumOfMatrices([i \in DOMAIN gamma |->
        Product(MatrixPlusScaled(MatrixPlusScaled(ZeroMatrix, s.c[i], gamma[i].c),
                                 s.g[i], gamma[i].g), s.phi[i])])

AcceptedAt(s, h, co, d, c, gamma, jacobian, x, q) ==
    IF x = <<>> THEN [s EXCEPT !.ok = FALSE]
    ELSE LET g == MatrixPlusScaled(jacobian, c, Zero -- d.leading) IN
         [s EXCEPT !.x = x, !.points = Append(@, x), !.steps = <<h>> \o @,
                   !.x1 = IF @ = None THEN x ELSE @,
                   !.captured = Append(@, [a |-> jacobian, c |-> c, g |-> g, gamma |-> gamma]),
                   !.coeffs = co, !.jacobian = jacobian,
                   !.phi = Advanced(@, Product(Inverted(jacobian), PastTerms(s, gamma))),
                   !.c = Advanced(@, c), !.g = Advanced(@, g), !.q = Advanced(@, q),
                   !.qdot = Advanced(@, [i \in Unknowns |->
                       Differentiate(d, q[i], History(s.q, i), History(s.qdot, i))])]

SolvedAt(s, k, h, co, d, c, jacobian) ==
    LET known == PlusScaled(Memory(s, d), Circuit.s[k], One)
        x == SolveSystem(jacobian, PlusScaled(ZeroVector, known, Num(-1)))
    IN AcceptedAt(s, h, co, d, c, [i \in 1..Order(k) |-> PastFactor(co, d, s, i)], jacobian,
                  x, MultiplyVector(c, x))

StepScaled(s, k, h, co, d) ==
    SolvedAt(s, k, h, co, d, Circuit.c[k + 1],
             MatrixPlusScaled(Circuit.g[k], Circuit.c[k + 1], d.leading))

StepWith(s, k, h, co) == StepScaled(s, k, h, co, Scaled(co, h))

StepAccepted(s, k, h) == StepWith(s, k, h, Compute(p.method, Order(k), Half, s.steps, h))

Integrated(x, period, stretch) ==
    FoldLeft(LAMBDA s, k : IF s.ok THEN StepAccepted(s, k, StepSize(period, k, stretch)) ELSE s,
             ClearedTrajectory(x), [k \in 1..Steps |-> k])

\* computePsiT()
PsiWith(s, z) ==
    LET rhs == [i \in Unknowns |-> ((z.leading ** s.q[1][i]) ++ Dot(z.a, Tail(History(s.q, i))))
                                     ++ Dot(z.b, Tail(History(s.qdot, i)))]
    IN PlusScaled(ZeroVector, SolveSystem(s.jacobian, rhs), Num(-1))

PsiT(s) == PsiWith(s, ScaledSensitivities(s.coeffs, Head(s.steps)))

(***************************************************************************)
(* The monodromy of the adjoint system: the same steps from the last to    *)
(* the first, each with the factors that multiply its past.                *)
(***************************************************************************)
\* of the k-th point; that of the first one is the one of the last
MatrixAt(captured, k) == captured[IF k = 0 THEN Len(captured) ELSE k]

AdjointStep(captured, history, k) ==
    LET depth == Max({Len(captured[m].gamma) : m \in DOMAIN captured})
        terms == [i \in DOMAIN history |->
                    IF k + i > Len(captured) THEN ZeroMatrix
                    ELSE LET r == captured[k + i] IN
                         IF i \notin DOMAIN r.gamma THEN ZeroMatrix
                         ELSE Product(Transposed(MatrixPlusScaled(
                                  MatrixPlusScaled(ZeroMatrix, r.c, r.gamma[i].c),
                                  r.g, r.gamma[i].g)), history[i])]
        next == Product(Inverted(Transposed(MatrixAt(captured, k).a)), SumOfMatrices(terms))
    IN SubSeq(<<next>> \o history, 1, Min({Len(history) + 1, depth + 1}))

\* integrateAdjointMonodromy()
AdjointMonodromy(captured) ==
    Head(FoldLeft(LAMBDA history, k : AdjointStep(captured, history, Len(captured) - k),
                  <<Identity>>, [k \in DOMAIN captured |-> k]))

(***************************************************************************)
(* The Newton correction. The phase constraint keeps the correction of an  *)
(* autonomous circuit off the direction it starts in; its length is not    *)
(* normalised here, which changes no solution.                             *)
(***************************************************************************)
\* computePhaseConstraint()
PhaseConstraint ==
    LET alpha == PlusScaled(shoot.x1, x0, Num(-1))
    IN IF alpha = ZeroVector THEN [ZeroVector EXCEPT ![1] = One] ELSE alpha

\* A slip: the sign of the period's column that goes with a sensitivity defined as -dxT/dT.
PeriodColumn_Slip == [i \in Unknowns |-> shoot.psi[i]]

PeriodColumn == [i \in Unknowns |-> Zero -- shoot.psi[i]]

CorrectionMatrix ==
    LET block == MatrixPlusScaled(Identity, shoot.phi[1], Num(-1))
    IN [i \in Unknowns |-> Append(block[i], IF p.driven THEN Zero ELSE PeriodColumn[i])]
         \o <<IF p.driven THEN Append(ZeroVector, One) ELSE Append(PhaseConstraint, Zero)>>

Correction == SolveSystem(CorrectionMatrix, Append(PlusScaled(x0, xT, Num(-1)), Zero))

(***************************************************************************)
(* A run in the sweep it belongs to.                                       *)
(***************************************************************************)
Running(s) == core = "Running" /\ stage = s

Abort(e) ==
    /\ core' = "Aborted" /\ error' = e
    /\ UNCHANGED <<p, built, stage, continuing, state, runs>>

NoState == [valid |-> FALSE]
NoForces == [ic |-> None, other |-> None, acts |-> FALSE]

Init ==
    /\ p \in Settings
    /\ built = FALSE
    /\ core = "Idle" /\ stage = "none" /\ error = "none"
    /\ continuing = FALSE
    /\ x0 = None /\ xT = None /\ T = Zero /\ shoot = None /\ before = None /\ iter = 0
    /\ found = [x |-> None, T |-> Zero] /\ omega = None
    /\ shootWrite = FALSE /\ written = <<>> /\ stored = None
    /\ state = NoState
    /\ forces = NoForces /\ icSlot = 2
    /\ runs = 0

\* A stored solution acts on the unknowns it finds by name.
Translated(x) == [i \in Unknowns |-> IF i \in DOMAIN x THEN x[i] ELSE Zero]

InitialConditions ==
    CASE p.ic = "list" -> Circuit.ic
      [] p.ic = "stored" /\ stored # None -> Translated(stored.x)
      [] OTHER -> None

(* Pss::rebuildCores(): both transients set the initial conditions of the  *)
(* one operating point core, and the shoot has none.                       *)
RebuiltTransients == <<"pssTran", "stabilTran">>

RebuildCores ==
    /\ core = "Idle" /\ ~built
    /\ forces' = [forces EXCEPT !.ic = FoldLeft(LAMBDA ic, tran :
                      IF tran = "pssTran" THEN None ELSE InitialConditions, @, RebuiltTransients)]
    /\ IF Circuit.absdelay
         THEN Abort("unsupported") /\ UNCHANGED shootWrite
         ELSE /\ built' = TRUE
              /\ shootWrite' = p.write
              /\ UNCHANGED <<p, core, stage, error, continuing, state, runs>>
    /\ UNCHANGED <<solving, results, icSlot>>

(* The beginning of the coroutine. restoreState() has succeeded in         *)
(* continuation mode.                                                      *)
Run ==
    /\ core = "Idle" /\ built
    /\ core' = "Running" /\ stage' = "check"
    /\ \E c \in {FALSE, state.valid} : continuing' = c
    /\ shootWrite' = FALSE /\ written' = <<>>
    /\ found' = [x |-> None, T |-> Zero]
    /\ iter' = 0 /\ before' = None
    /\ runs' = runs + 1
    /\ UNCHANGED <<p, built, error, x0, xT, T, shoot, omega, stored, starting>>

BadStep == p.stabstep < 0 \/ (p.tstab > 0 /\ p.stabstep > 0 /\ p.stabstep >= p.tstab)

CheckStep ==
    /\ Running("check")
    /\ IF BadStep THEN Abort("stabstep")
       ELSE stage' = "stabilise" /\ UNCHANGED <<p, built, core, error, continuing, state, runs>>
    /\ UNCHANGED <<solving, results, forces, icSlot, shootWrite>>

(***************************************************************************)
(* runStabilisation().                                                     *)
(***************************************************************************)
Coherent == state.coherent /\ Len(state.x) = Len(Circuit.op)

\* The period that is given, or the one that came with the solution
Period ==
    LET given == Num(p.tper) IN
    IF given # Zero THEN given
    ELSE IF continuing THEN state.T
    ELSE IF p.ic = "stored" /\ stored # None THEN stored.T ELSE Zero

NoPeriod ==
    /\ Running("stabilise")
    /\ Period = Zero
    /\ Abort("period")
    /\ UNCHANGED <<solving, results, forces, icSlot, shootWrite>>

(* A state of the same circuit is the first point.                         *)
TakeState ==
    /\ Running("stabilise")
    /\ Period # Zero
    /\ continuing /\ Coherent
    /\ x0' = Translated(state.x) /\ T' = Period
    /\ stage' = "shoot"
    /\ UNCHANGED <<p, built, core, error, continuing, xT, shoot, before, iter, results,
                   shootWrite, starting, runs>>

(* The operating point a slot of forces leads to; a slot that was left      *)
(* enabled pulls as well.                                                  *)
OperatingPoints(forced) ==
    {IF forced = None THEN Circuit.op ELSE forced}
      \cup IF forces.acts THEN {Translated(forces.other)} ELSE {}

StartingPoints(forced, icmode) ==
    IF icmode = "op" THEN OperatingPoints(forced)
    ELSE {IF InitialConditions = None THEN ZeroVector ELSE InitialConditions}

\* stabilTran_.run(FALSE): without a length it ends where it starts.
Stabilise(forced, icmode) ==
    /\ x0' \in IF p.tstab > 0 THEN {Circuit.settled} ELSE StartingPoints(forced, icmode)
    /\ T' = Period
    /\ stage' = "shoot"
    /\ UNCHANGED <<p, built, core, error, continuing, state, runs>>

StabilisationFails == Abort("stabilisation") /\ UNCHANGED <<x0, T>>

StabiliseFromInput ==
    /\ Running("stabilise")
    /\ Period # Zero
    /\ ~continuing
    /\ Stabilise(IF icSlot = 3 THEN forces.other ELSE forces.ic, p.icmode) \/ StabilisationFails
    /\ UNCHANGED <<xT, shoot, before, iter, results, forces, icSlot, shootWrite>>

(* A state of another circuit becomes forces in slot 3, which contradict   *)
(* each other when nodes have been joined. The operating point enables     *)
(* the slot; afterwards it is disabled in the solver of stabilTran_, so    *)
(* the one of the operating point keeps it.                                *)
StabiliseFromState ==
    /\ Running("stabilise")
    /\ Period # Zero
    /\ continuing /\ ~Coherent
    /\ \E possible \in BOOLEAN :
         IF ~possible /\ p.strict
           THEN Abort("forces") /\ UNCHANGED <<x0, T, forces, icSlot>>
           ELSE /\ forces' = [forces EXCEPT !.other = IF possible THEN Translated(state.x) ELSE None,
                                            !.acts = possible]
                /\ \/ Stabilise(forces'.other, "op") /\ icSlot' = 2
                   \/ StabilisationFails /\ icSlot' = 3
    /\ UNCHANGED <<xT, shoot, before, iter, results, shootWrite>>

(***************************************************************************)
(* One period from x0: setShootIC(), clearTrajectory() and runShoot().     *)
(***************************************************************************)
Shot == Integrated(x0, T, 0)

Possible == T # Zero /\ Shot.ok

ShootFails ==
    /\ core = "Running" /\ stage \in {"shoot", "corrected", "last"}
    /\ Abort("shoot")
    /\ UNCHANGED <<solving, results, forces, icSlot, shootWrite>>

Kept(s) == [phi |-> s.phi, psi |-> IF p.driven THEN None ELSE PsiT(s), x1 |-> s.x1,
            captured |-> s.captured]

ShootOnce ==
    /\ Possible
    /\ \E s \in {Shot} :
         /\ xT' = s.x
         /\ shoot' = Kept(s)
         /\ written' = IF shootWrite THEN written \o s.points ELSE written

FirstShoot ==
    /\ Running("shoot")
    /\ ShootOnce
    /\ stage' = "newton"
    /\ UNCHANGED <<p, built, core, error, continuing, x0, T, before, iter, found, omega, stored,
                   shootWrite, starting, runs>>

(***************************************************************************)
(* The Newton loop.                                                        *)
(***************************************************************************)
GiveUp ==
    /\ Running("newton")
    /\ iter >= Itl
    /\ Abort("convergence")
    /\ UNCHANGED <<solving, results, forces, icSlot, shootWrite>>

Correct ==
    /\ Running("newton")
    /\ iter < Itl
    /\ \E d \in {Correction} :
         IF d = <<>> THEN Abort("singular") /\ UNCHANGED <<x0, T, before>>
         ELSE /\ before' = [x0 |-> x0, T |-> T]
              /\ x0' = PlusScaled(x0, d, Num(-1))
              /\ T' = IF p.driven THEN T ELSE T -- d[Len(d)]
              /\ stage' = "corrected"
              /\ UNCHANGED <<p, built, core, error, continuing, state, runs>>
    /\ UNCHANGED <<xT, shoot, iter, results, forces, icSlot, shootWrite>>

Converged == xT' = x0

(* The period is integrated again and tested; a solution that closes is    *)
(* stored, and the next period may be written.                             *)
ShootAgain ==
    /\ Running("corrected")
    /\ ShootOnce
    /\ IF Converged
         THEN /\ stage' = "last"
              /\ stored' = IF p.store THEN [x |-> xT', T |-> T] ELSE stored
              /\ shootWrite' = p.write
              /\ UNCHANGED iter
         ELSE /\ stage' = "newton"
              /\ iter' = iter + 1
              /\ UNCHANGED <<stored, shootWrite>>
    /\ UNCHANGED <<p, built, core, error, continuing, x0, T, before, found, omega, starting, runs>>

LastShoot ==
    /\ Running("last")
    /\ ShootOnce
    /\ stage' = "adjoint"
    /\ UNCHANGED <<p, built, core, error, continuing, x0, T, before, iter, found, omega, stored,
                   shootWrite, starting, runs>>

Finish ==
    /\ Running("adjoint")
    /\ \/ p.adjoint /\ Abort("adjoint") /\ UNCHANGED <<found, omega>>
       \/ /\ core' = "Finished"
          /\ omega' = IF p.adjoint THEN AdjointMonodromy(shoot.captured) ELSE omega
          /\ found' = [x |-> x0, T |-> T]
          /\ UNCHANGED <<p, built, stage, error, continuing, state, runs>>
    /\ UNCHANGED <<solving, written, stored, forces, icSlot, shootWrite>>

(***************************************************************************)
(* The sweep: the state of a point is stored with its period, and the next *)
(* point may have another circuit, whose state it then is no more.         *)
(***************************************************************************)
\* A slip: the period the analysis was started with.
StoredState_Slip ==
    [valid |-> TRUE, coherent |-> TRUE, x |-> xT, T |-> Num(p.tper), from |-> Circuit]

\* storeState(); "from" only tells which circuit it was
StoredState == [valid |-> TRUE, coherent |-> TRUE, x |-> xT, T |-> found.T, from |-> Circuit]

NextPoint ==
    /\ core = "Finished" /\ runs < MaxRuns
    /\ core' = "Idle" /\ stage' = "none"
    /\ p' \in Changes
    /\ built' = (p' = p)
    /\ state' = [StoredState EXCEPT !.coherent = p'.circuit.topology = Circuit.topology]
    /\ UNCHANGED <<error, continuing, solving, results, shootWrite, forces, icSlot, runs>>

Next ==
    \/ RebuildCores \/ Run \/ CheckStep
    \/ NoPeriod \/ TakeState \/ StabiliseFromInput \/ StabiliseFromState
    \/ ShootFails \/ FirstShoot \/ GiveUp \/ Correct \/ ShootAgain \/ LastShoot \/ Finish
    \/ NextPoint

Spec == Init /\ [][Next]_vars
----------------------------------------------------------------------------
(***************************************************************************)
(* Properties.                                                             *)
(***************************************************************************)
TypeOK ==
    /\ core \in {"Idle", "Running", "Finished", "Aborted"}
    /\ stage \in {"none", "check", "stabilise", "shoot", "newton", "corrected", "last", "adjoint"}
    /\ iter \in 0..Itl /\ runs \in 0..MaxRuns /\ icSlot \in {2, 3}
    /\ {continuing, built, shootWrite} \subseteq BOOLEAN

(* A correction solves the equations linearised along the shoot it was     *)
(* computed from: the period closes to first order, found here by carrying *)
(* the correction through the integration as a derivative (the last step   *)
(* takes up a change of the period), and an autonomous circuit is not      *)
(* moved along its first step.                                             *)
Moved(old, new) == [i \in Unknowns |-> <<old[i][1], (new[i][1] - old[i][1]) % P>>]

CorrectionIsNewton ==
    Running("corrected") =>
      \E start \in {Moved(before.x0, x0)} :
      \E end \in {Integrated(start, before.T, (T[1] - before.T[1]) % P).x} :
        /\ \A i \in Unknowns : ValueOf(x0[i]) = (ValueOf(end[i]) + SlopeOf(end[i])) % P
        /\ p.driven => T = before.T
        /\ ~p.driven /\ shoot.x1 # before.x0 =>
             Dot(PlusScaled(x0, before.x0, Num(-1)), PlusScaled(shoot.x1, before.x0, Num(-1))) = Zero

(* Multipliers of a circuit do not depend on the direction of time: with   *)
(* a constant capacitance and the backward Euler formula the adjoint       *)
(* monodromy matrix has the eigenvalues of the monodromy matrix.           *)
Trace(m) == FoldLeft(LAMBDA y, z : y ++ z, Zero, [i \in DOMAIN m |-> m[i][i]])

ConstantCapacitance == Cardinality(Range(Circuit.c)) = 1

AdjointHasSameMultipliers ==
    core = "Finished" /\ p.adjoint /\ p.maxord = 1 /\ ConstantCapacitance =>
      /\ Trace(omega) = Trace(shoot.phi[1])
      /\ Trace(Product(omega, omega)) = Trace(Product(shoot.phi[1], shoot.phi[1]))

MonodromyIsDerivative == CorrectionIsNewton /\ AdjointHasSameMultipliers

(* What an analysis reports closes: the period that is integrated from the *)
(* first point it reports, over the period it reports, ends there; that is *)
(* what the file holds, one period and nothing of the iterations, and what *)
(* is stored for later analyses.                                           *)
ReportCloses ==
    core = "Finished" =>
      /\ Integrated(found.x, found.T, 0).x = found.x
      /\ written = IF p.write THEN Integrated(found.x, found.T, 0).points ELSE <<>>
      /\ p.store => stored = [x |-> found.x, T |-> found.T]

(* A driven linear circuit needs one correction; and a point that goes on  *)
(* from a state of the same circuit with the period found there is         *)
(* finished after a correction that changes nothing.                       *)
ExactStartConverges ==
    error = "convergence" =>
      /\ ~p.driven
      /\ ~(continuing /\ p.tper = 0 /\ state.coherent /\ state.from = p.circuit)

(* Initial conditions that are given decide where the first period starts, *)
(* unless a slot of forces was left enabled by a point that went on from   *)
(* another circuit.                                                        *)
StartsFromInitialConditions ==
    Running("shoot") /\ ~continuing /\ p.tstab = 0 /\ p.ic = "list" /\ ~forces.acts
      => x0 = Circuit.ic

PeriodIsClosed == ReportCloses /\ ExactStartConverges /\ StartsFromInitialConditions
===============================================================================
