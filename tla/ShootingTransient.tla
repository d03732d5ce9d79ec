-------------------------- MODULE ShootingTransient --------------------------
(***************************************************************************)
(* The transient core with the numbers it integrates, and the sensitivity  *)
(* of a shooting run (PssTranCore, lib/corepsstran.cpp).                   *)
(*                                                                         *)
(* Every solve computes the coefficients of corrector and predictor for    *)
(* the present step and order. In a run of a periodic steady state         *)
(* analysis every accepted point advances Phi, the derivative of the       *)
(* solution with respect to the initial one, by a recursion over past      *)
(* Jacobians, and the last point gives Psi, the derivative with respect to *)
(* the period. The circuit has one unknown, a charge C(t)*x and a current  *)
(* G(t)*x+S(t); its solution is carried along with its derivative by x(0). *)
(***************************************************************************)
EXTENDS Transient, IntegratorCoeffs

CONSTANTS C, G, S       \* of the circuit, over time

ASSUME CircuitAssumption ==
    /\ Horizon < P
    /\ {C, G, S} \subseteq [0..Horizon -> 0..(P - 1)]

VARIABLES
    coeffs,     \* integCoeffs and predictorCoeffs
    path,       \* solution, q and qdot of accepted points, newest first
    sens        \* what PssTranCore keeps: phi, c, g, q and qdot, newest first

shootingVars == <<vars, coeffs, path, sens>>

At(f, t) == Num(f[t])
Xmu == Num(p.xmu) // Num(4)
Steps == [i \in DOMAIN pastTimesteps |-> Num(pastTimesteps[i])]

(***************************************************************************)
(* The coefficients of a solve: those of the predictor only if there are   *)
(* enough points, otherwise the old ones stay and are not used.            *)
(***************************************************************************)
NoCoefficients == [corrector |-> [order |-> 0], predictor |-> [order |-> 0]]

ComputeCoefficients ==
    coeffs' = [corrector |-> Compute(p.method, order, Xmu, Steps, Num(hk)),
               predictor |-> IF HavePredictor
                               THEN Compute("poly", order, Xmu, Steps, Num(hk))
                               ELSE [order |-> 0]]

Corrector == coeffs.corrector
Differentiator == Scaled(Corrector, Num(hk))

(***************************************************************************)
(* The point the solver finds: the charge is differentiated by devices     *)
(* from its history. Its derivative at t=0 is never computed, so it is any *)
(* number.                                                                 *)
(***************************************************************************)
Unknown == <<2, 3>>
Initial == <<5, 1>>

InitialPoint == [x |-> Initial, q |-> At(C, 0) ** Initial, qdot |-> Unknown]

Charges(s) == [i \in DOMAIN s |-> s[i].q]
Derivatives(s) == [i \in DOMAIN s |-> s[i].qdot]

SolvedPoint(d, t, past) ==
    LET memory == Dot(d.a, Charges(past)) ++ Dot(d.b, Derivatives(past))
        x == (Zero -- (memory ++ At(S, t))) // ((d.leading ** At(C, t)) ++ At(G, t))
        q == At(C, t) ** x
    IN [x |-> x, q |-> q, qdot |-> Differentiate(d, q, Charges(past), Derivatives(past))]

(***************************************************************************)
(* PssTranCore.                                                            *)
(***************************************************************************)
Slots == 1..(p.maxord + 1)

Plain(x) == <<ValueOf(x), 0>>

\* The new value becomes the current one of a ring buffer.
Advanced(ring, x) == [i \in DOMAIN ring |-> IF i = 1 THEN x ELSE ring[i - 1]]

\* clearTrajectory()
ClearedTrajectory ==
    [phi |-> [i \in Slots |-> One],
     c |-> [i \in Slots |-> IF i = 1 THEN At(C, 0) ELSE Zero],
     g |-> [i \in Slots |-> Zero],
     q |-> [i \in Slots |-> IF i = 1 THEN Plain(InitialPoint.q) ELSE Zero],
     qdot |-> [i \in Slots |-> Zero]]

GammaC(d) == [i \in 1..order |-> IF i \in DOMAIN Corrector.a
                                 THEN d.leading ** Corrector.a[i] ELSE Zero]

\* A slip: the derivatives of the past are left out.
GammaG_Slip(d) == [i \in 1..order |-> Zero]

GammaG(d) == [i \in 1..order |-> IF i \in DOMAIN Corrector.b
                                 THEN Zero -- (Corrector.b[i] // Corrector.b1) ELSE Zero]

\* The recursion for Phi, solved with the Jacobian of the last iteration
NextPhi(d, jacobian) ==
    Total([i \in 1..order |-> ((GammaC(d)[i] ** sens.c[i]) ++ (GammaG(d)[i] ** sens.g[i]))
                                ** sens.phi[i]]) // jacobian

\* onTimestepAccepted(), x is the solution at tSolve
OnTimestepAccepted(x) ==
    LET d == Differentiator
        c == At(C, tSolve)
        jacobian == At(G, tSolve) ++ (d.leading ** c)
        q == c ** Plain(x)
    IN sens' = [phi |-> Advanced(sens.phi, NextPhi(d, jacobian)),
                c |-> Advanced(sens.c, c),
                g |-> Advanced(sens.g, jacobian -- (d.leading ** c)),
                q |-> Advanced(sens.q, q),
                qdot |-> Advanced(sens.qdot, Differentiate(d, q, sens.q, sens.qdot))]

\* computePsiT(), after the last point was accepted with step hk
PsiT ==
    LET z == ScaledSensitivities(Corrector, Num(hk))
        rhs == ((z.leading ** sens.q[1]) ++ Dot(z.a, Tail(sens.q))) ++ Dot(z.b, Tail(sens.qdot))
        jacobian == sens.g[1] ++ (Differentiator.leading ** sens.c[1])
    IN Zero -- (rhs // jacobian)

(***************************************************************************)
(* The run.                                                                *)
(***************************************************************************)
ShootingInit ==
    /\ Init
    /\ coeffs = NoCoefficients
    /\ path = <<InitialPoint>>
    /\ sens = ClearedTrajectory

SolveShooting == Solve /\ ComputeCoefficients /\ UNCHANGED <<path, sens>>

AcceptShooting ==
    /\ AcceptPoint
    /\ LET new == SolvedPoint(Differentiator, tSolve, path)
       IN  /\ path' = SubSeq(<<new>> \o path, 1, Min({Len(path) + 1, p.maxord + 1}))
           /\ IF p.shooting THEN OnTimestepAccepted(new.x) ELSE UNCHANGED sens
    /\ UNCHANGED coeffs

OtherStep ==
    /\ \/ CheckParameters \/ InitialFailure \/ InitialSolution \/ FirstStep
       \/ SolveAborts \/ AcceptAborts \/ RejectPoint \/ Advance
    /\ UNCHANGED <<coeffs, path, sens>>

ShootingStep == SolveShooting \/ AcceptShooting \/ OtherStep

ShootingNext ==
    \/ ShootingStep
    \/ Resume /\ UNCHANGED <<coeffs, path, sens>>

ShootingSpec == ShootingInit /\ [][ShootingNext]_shootingVars /\ WF_vars(Step)
----------------------------------------------------------------------------
(***************************************************************************)
(* Properties.                                                             *)
(***************************************************************************)
Decided == core = "Running" /\ stage = "decide"

\* Time relative to t_k of the i-th past point, and the signal (t-t_k)^n there
Ago(i) == Num(points[i].t - tk)
Monomial(n) == [i \in DOMAIN points |-> Power(Ago(i), n)]
MonomialSlope(n) == [i \in DOMAIN points |-> IF n = 0 THEN Zero ELSE Slope(Ago(i), n)]
NewSlope(n) == IF n = 0 THEN Zero ELSE Slope(Num(hk), n)

(* The trapezoidal formula is of second order only with equal weights.     *)
DegreeOf(c) == IF c.method = "am" /\ c.order = 2 /\ p.xmu # 2 THEN 1 ELSE c.order

(* Devices differentiate polynomials up to the order of the corrector      *)
(* exactly, whatever the past steps were; and where the error test is      *)
(* used, the scaled difference of corrector and predictor is the exact     *)
(* error of the corrector for a polynomial of the next degree. Past steps, *)
(* the order they are read in, and the points themselves are kept apart.   *)
DifferentiatesExactly ==
    \A n \in 0..DegreeOf(Corrector) :
        Differentiate(Differentiator, Power(Num(hk), n), Monomial(n), MonomialSlope(n))
            = NewSlope(n)

EstimatesTruncation ==
    LET n == order + 1
        d == Differentiator
        corrected == (NewSlope(n) -- (Dot(d.a, Monomial(n)) ++ Dot(d.b, MonomialSlope(n))))
                       // d.leading
        predicted == Predict(coeffs.predictor, Monomial(n))
    IN TruncationFactor(Corrector, coeffs.predictor) ** (corrected -- predicted)
         = corrected -- Power(Num(hk), n)

IntegrationIsExact ==
    Decided =>
      /\ DifferentiatesExactly
      /\ coeffs.predictor.order > 0 /\ DegreeOf(Corrector) = order => EstimatesTruncation

(* In a shooting run Phi is the derivative of the solution with respect to *)
(* the initial one at every accepted point, whatever orders, steps and     *)
(* rejections led there, and Psi the derivative with respect to the last   *)
(* step, found here by repeating that step with h+epsilon.                 *)
PerturbedLastPoint ==
    LET h == <<hk, 1>>
        frozen == [i \in 1..(Len(path) - 1) |-> [path[i + 1] EXCEPT !.q = Plain(@),
                                                                    !.qdot = Plain(@)]]
    IN SolvedPoint(Scaled(Compute(p.method, order, Xmu, Tail(Steps), h), h), tSolve, frozen)

JustAccepted == core \notin {"Aborted", "Thrown"} /\ stage = "advance" /\ next.accept

SensitivityIsDerivative ==
    p.shooting /\ JustAccepted =>
      /\ ValueOf(sens.phi[1]) = SlopeOf(path[1].x)
      /\ ValueOf(PsiT) = SlopeOf(PerturbedLastPoint.x)
=============================================================================
