-------------------------- MODULE IntegratorCoeffs --------------------------
(***************************************************************************)
(* The coefficients of the integration formulae (lib/coretrancoef.cpp):    *)
(* the corrector (Adams-Moulton or BDF) and the polynomial predictor for   *)
(* past steps of any size, the error coefficient, the scaled coefficients  *)
(* that devices differentiate with, and their sensitivities to the step.   *)
(*                                                                         *)
(* The code only adds, multiplies, divides and solves linear systems:      *)
(* its numbers are those of PrimeField, where division is exact and        *)
(* arithmetic differentiates what it computes.  Code that differentiates   *)
(* by formulae of its own is compared with that.                           *)
(***************************************************************************)
EXTENDS PrimeField

(***************************************************************************)
(* Normalized past time points: Theta[1] is t_k = 0, Theta[i+1]  *)
(* lies i steps before it, in units of the new step.                       *)
(***************************************************************************)
Theta(past, h) ==
    [i \in 1..(Len(past) + 1) |-> (Zero -- Total(SubSeq(past, 1, i - 1))) // h]

(***************************************************************************)
(* The equations that make a formula exact for powers of time. Single step *)
(* formulae have constant coefficients.                                    *)
(***************************************************************************)
IsConstant(method, order) ==
    \/ method = "am" /\ order <= 2
    \/ method = "bdf" /\ order = 1

\* j times the (j-1)-th power: what a derivative contributes to the j-th equation
Slope(theta, j) == Num(j) ** Power(theta, j - 1)

Equation(method, order, theta, j) ==
    CASE method = "am"   -> <<Num(j)>> \o [i \in 1..(order - 1) |-> Slope(theta[i], j)]
      [] method = "bdf"  -> [i \in 1..order |-> Power(theta[i], j)]
                              \o <<IF j = 0 THEN Zero ELSE Num(j)>>
      [] method = "poly" -> [i \in 1..(order + 1) |-> Power(theta[i], j)]

Equations(method, order) == [i \in 1..(IF method = "am" THEN order ELSE order + 1) |->
                                IF method = "am" THEN i ELSE i - 1]

Matrix(method, order, theta) ==
    LET js == Equations(method, order)
    IN [i \in DOMAIN js |-> Equation(method, order, theta, js[i])]

\* Coefficients of past values, of past derivatives and of the new derivative
Unpack(method, order, x) ==
    CASE method = "am"   -> [b1 |-> x[1], b |-> Tail(x)]
      [] method = "bdf"  -> [a |-> SubSeq(x, 1, order), b |-> <<>>, b1 |-> x[order + 1]]
      [] method = "poly" -> [a |-> x, b |-> <<>>, b1 |-> Zero]

Coefficients(method, order, xmu, theta) ==
    LET ones == [i \in DOMAIN Equations(method, order) |-> One]
        solution == Unpack(method, order, SolveSystem(Matrix(method, order, theta), ones))
    IN IF IsConstant(method, order)
         THEN [a |-> <<One>>, b |-> IF order = 2 THEN <<xmu>> ELSE <<>>,
               b1 |-> IF order = 2 THEN One -- xmu ELSE One]
       ELSE IF method = "am" THEN [a |-> <<One>>] @@ solution
       ELSE solution

\* the error coefficient without the factorial
ErrorCoefficient_Slip(order, theta, c) ==
    (Dot(c.a, [i \in DOMAIN c.a |-> Power(theta[i], order + 1)])
       ++ Dot(c.b, [i \in DOMAIN c.b |-> Slope(theta[i], order + 1)])) -- One

ErrorCoefficient(order, theta, c) ==
    ((Dot(c.a, [i \in DOMAIN c.a |-> Power(theta[i], order + 1)])
       ++ Dot(c.b, [i \in DOMAIN c.b |-> Slope(theta[i], order + 1)]))
       ++ (Num(order + 1) ** c.b1)) -- One

\* IntegratorCoeffs::compute(), after setMethod() and setOrder()
Completed(method, order, theta, c) ==
    [method |-> method, order |-> order, theta |-> theta, a |-> c.a, b |-> c.b,
     b1 |-> c.b1, err |-> ErrorCoefficient(order, theta, c)]

ComputeAt(method, order, xmu, theta) ==
    Completed(method, order, theta, Coefficients(method, order, xmu, theta))

Compute(method, order, xmu, past, h) == ComputeAt(method, order, xmu, Theta(past, h))

(***************************************************************************)
(* Using the coefficients.                                                 *)
(***************************************************************************)
\* scaleDifferentiator()
Scaled(c, h) ==
    LET leading == One // (h ** c.b1)
    IN [leading |-> leading,
        a |-> [i \in DOMAIN c.a |-> Zero -- (leading ** c.a[i])],
        b |-> [i \in DOMAIN c.b |-> Zero -- (c.b[i] // c.b1)]]

\* differentiate(): past values and derivatives with the newest first
Differentiate(s, future, values, derivatives) ==
    ((s.leading ** future) ++ Dot(s.a, values)) ++ Dot(s.b, derivatives)

\* predict(): the predictor is explicit, its coefficients of values stay unscaled
Predict(c, values) == Dot(c.a, values)

\* the factor that turns corrector minus predictor into the local truncation error
TruncationFactor(corrector, predictor) ==
    corrector.err // (corrector.err -- predictor.err)

(***************************************************************************)
(* Sensitivities to the new step, past steps held fixed.                   *)
(***************************************************************************)
\* computeSensitivities(): the matrix is the one of compute()
SensitivityRhs(c, h, j) ==
    LET n == IF c.method = "am" THEN j - 1 ELSE j
        past == IF c.method = "am" THEN c.b ELSE c.a
        s == Total([i \in DOMAIN past |-> IF i = 1 THEN Zero ELSE past[i] ** Power(c.theta[i], n)])
    IN IF j = 0 THEN Zero
       ELSE IF c.method = "am" THEN ((Num(j) // h) ** Num(j - 1)) ** s
       ELSE (Num(j) // h) ** s

SensitivityEquations(c, h) ==
    LET js == Equations(c.method, c.order)
    IN SolveSystem(Matrix(c.method, c.order, c.theta),
                   [i \in DOMAIN js |-> SensitivityRhs(c, h, js[i])])

Sensitivities(c, h) ==
    LET flat(s) == [i \in DOMAIN s |-> Zero]
    IN IF IsConstant(c.method, c.order)
         THEN [a |-> flat(c.a), b |-> flat(c.b), b1 |-> Zero]
         ELSE Unpack(c.method, c.order, SensitivityEquations(c, h)) @@ [a |-> flat(c.a)]

\* scaleDifferentiatorSensitivities()
SensitivitiesOfScaled(c, z, leading, factor) ==
    [leading |-> Zero -- (leading ** factor),
     a |-> [i \in DOMAIN c.a |-> leading ** ((c.a[i] ** factor) -- z.a[i])],
     b |-> [i \in DOMAIN c.b |-> ((c.b[i] ** (z.b1 // c.b1)) -- z.b[i]) // c.b1]]

WithSensitivities(c, h, z) ==
    SensitivitiesOfScaled(c, z, One // (h ** c.b1), (One // h) ++ (z.b1 // c.b1))

ScaledSensitivities(c, h) == WithSensitivities(c, h, Sensitivities(c, h))
=============================================================================
