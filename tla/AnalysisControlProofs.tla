------------------------ MODULE AnalysisControlProofs -----------------------
(***************************************************************************)
(* Proofs about AnalysisControl, for every sweep list of any depth, any    *)
(* ranges, and any caller.                                                 *)
(*                                                                         *)
(* Main line: the odometer only moves forward in the order of the nested   *)
(* loops and skips nothing that the ranges in use contain; the ranges in   *)
(* use are those of the values in force; what is stored belongs to the     *)
(* point just before. Recursive definitions (the values of a point, the    *)
(* points of a sweep) are met by the least element of a set of numbers:    *)
(* there is no first level at which something else holds.                  *)
(***************************************************************************)
EXTENDS AnalysisControl, TLAPS, FiniteSetTheorems, WellFoundedInduction

-----------------------------------------------------------------------------
(* The inductive invariant                                                 *)

Labels == {"none", "begin", "point", "set", "run", "core", "advance", "end", "return",
           "done", "broken"}

\* The places of the sweep loop, and those before the core has finished the point.
Looping == {"point", "set", "run", "core", "advance"}

Approaching == {"point", "set", "run", "core"}

TypedData ==
    /\ sweeps \in SweepLists /\ inForce \in [Targets -> Int] /\ before \in [Targets -> Int]
    /\ \A v \in Variables : inForce[v] \in Values
    /\ pointMarker \in BOOLEAN /\ wantMarker \in BOOLEAN /\ originalMarker \in BOOLEAN
    /\ bound \in 0 .. N /\ advanced \in Nat /\ advanced >= 1 /\ (advanced > N => advanced = 1)
    /\ preSweepValuesStored \in BOOLEAN
    /\ haveStoredState \in BOOLEAN /\ outputsBound \in BOOLEAN /\ allowBypass \in BOOLEAN
    /\ coreStates \in [Level -> CoreStates] /\ solution \in Seq(Nat) /\ system \in Nat
    /\ origin.mode \in {"none", "standard", "continue", "forced"}
    /\ computed \subseteq [Level -> Nat]

TypedControl ==
    /\ stops \in Nat
    /\ turn \in {"caller", "coroutine"} /\ full \in BOOLEAN /\ pc \in Labels
    /\ value \in Yields \cup {"none", Uninitialised}
    /\ lastCoroutineState \in Yields \cup {"none", Uninitialised}
    /\ call \in {"none", "resume", "isRunning"} /\ starts \in 0 .. MaxStarts
    /\ unseen \in Yields \cup {"none"}

Typed == TypedData /\ TypedControl

\* In the loop every level has a range that makes sense and stands within it.
Ranged ==
    pc \in Looping =>
        /\ setting \in [Level -> RangeSettings] /\ at \in [Level -> Nat]
        /\ \A i \in Level : SetupOK(setting[i]) /\ at[i] < Count(setting[i])
        /\ \A i \in Level : \E x \in Values : setting[i] = sweeps[i].settings[x]

\* What finish() writes back is what the circuit had.
Kept ==
    /\ \A t \in Targets : (\A i \in Level : sweeps[i].target # t) => inForce[t] = before[t]
    /\ \A v \in Variables : before[v] = Original[v]
    /\ pc = "none" => \A v \in Variables : inForce[v] = before[v]
    /\ pc = "begin" => ~preSweepValuesStored
    /\ pc \in Looping /\ N > 0 => preSweepValuesStored
    /\ ~preSweepValuesStored => inForce = before
    /\ preSweepValuesStored =>
          /\ storedValues \in [Level -> Int]
          /\ \A i \in Level : storedValues[i] = before[sweeps[i].target]
          /\ \A i \in Level : SetupOK(SettingsOf(i, before))
    /\ RestoresOriginals

Before(p, q) == Enumeration!Precedes(p, q)

\* The odometer moves forward: what was computed comes before, the solution last.
Ordered ==
    /\ pc = "begin" => computed = {}
    /\ pc \in Approaching =>
          /\ \A q \in computed : Before(q, at)
          /\ \A i \in Level : i > advanced => at[i] = 0
          /\ ~haveStoredState => computed = {} /\ \A i \in Level : at[i] = 0
          /\ haveStoredState =>
                /\ solution \in computed
                /\ \A q \in computed : q = solution \/ Before(q, solution)
                /\ \A i \in Level : i < advanced => at[i] = solution[i]
    /\ pc = "advance" =>
          /\ N > 0 /\ solution = at /\ at \in computed
          /\ \A q \in computed : q = at \/ Before(q, at)

\* How the core of the present point starts (StartCore).
StartingPoint ==
    LET state == coreStates[advanced]
    IN IF ~(N > 0 /\ state.valid) THEN [NoOrigin EXCEPT !.mode = "standard"]
       ELSE [mode |-> IF state.coherent THEN "continue" ELSE "forced",
             point |-> state.point, system |-> state.system,
             bypass |-> state.coherent /\ allowBypass]

\* What the levels have stored.
Stored ==
    /\ \A i \in Level : coreStates[i].valid => sweeps[i].continuation
    /\ pc \in Approaching /\ haveStoredState =>
          \A i \in Level : i >= advanced /\ sweeps[i].continuation =>
              coreStates[i].valid /\ coreStates[i].point = solution
    /\ pc \in Looping /\ outputsBound =>
          \A i \in Level : coreStates[i].coherent =>
              coreStates[i].system = system /\ coreStates[i].point \in computed
    /\ pc \in {"run", "core", "advance"} => outputsBound
    /\ pc \in {"run", "core"} /\ allowBypass => N > 0 /\ at[N] > 0
    /\ pc = "core" => origin = StartingPoint

\* What the caller was told.
Told ==
    /\ unseen # "none" => full /\ value = unseen
    /\ turn = "coroutine" => ~full /\ pc # "none"
    /\ value = "Finished" /\ isValid => pc \in {"end", "return", "done"}
    /\ lastCoroutineState = "Finished" /\ isValid => pc \in {"end", "return", "done"}

Inv == Typed /\ Ranged /\ Kept /\ Ordered /\ Stored /\ Told

\* The ranges and the values in force belong to each other.
Valued ==
    /\ pc \in Looping => \A i \in Level : setting[i] = SettingsOf(i, inForce)
    /\ pc \in {"point", "set"} =>
          \A j \in Level : j < advanced => inForce[sweeps[j].target] = PointValue(setting[j], at[j])
    /\ pc \in {"run", "core", "advance"} =>
          \A j \in Level : inForce[sweeps[j].target] = PointValue(setting[j], at[j])

\* Exactly the points before the present one were computed.
Enumerated ==
    /\ computed \subseteq Points
    /\ pc \in Approaching => \A q \in Points : q \in computed <=> Before(q, at)
    /\ pc = "advance" => \A q \in Points : q \in computed <=> q = at \/ Before(q, at)
    /\ pc \in {"end", "return", "done"} => computed = Points

-----------------------------------------------------------------------------
(* Least and greatest numbers                                              *)

LEMMA LeastExists ==
    ASSUME NEW T \in SUBSET Nat, T # {}
    PROVE  \E x \in T : \A y \in T : x <= y
<1> DEFINE R == OpToRel(<, Nat)
<1>1. R = {ss \in Nat \X Nat : ss[1] < ss[2]}
  BY DEF OpToRel
<1>2. IsWellFoundedOn(R, Nat)
  BY NatLessThanWellFounded
<1>3. \A x, y \in Nat : <<y, x>> \in R <=> y < x
  BY <1>1
<1> HIDE DEF R
<1>4. \E x \in T : \A y \in T : ~ (<<y, x>> \in R)
  BY <1>2, WFMin
<1>5. PICK x \in T : \A y \in T : ~ (<<y, x>> \in R)
  BY <1>4
<1>6. ASSUME NEW y \in T
      PROVE  x <= y
  <2>1. x \in Nat /\ y \in Nat
    OBVIOUS
  <2>2. ~ (<<y, x>> \in R)
    BY <1>5
  <2>3. ~ (y < x)
    BY <1>3, <2>1, <2>2
  <2> QED BY <2>1, <2>3
<1> QED BY <1>6

LEMMA GreatestExists ==
    ASSUME NEW n \in Nat, NEW T \in SUBSET (1 .. n), T # {}
    PROVE  Max(T) \in T /\ \A y \in T : Max(T) >= y
<1> DEFINE U == {n - x : x \in T}
<1>1. U \in SUBSET Nat /\ U # {}
  <2>1. \A x \in T : n - x \in Nat
    OBVIOUS
  <2> QED BY <2>1
<1> HIDE DEF U
<1>2. PICK u \in U : \A w \in U : u <= w
  BY <1>1, LeastExists
<1>3. PICK x \in T : u = n - x
  BY DEF U
<1>4. \A y \in T : x >= y
  <2> SUFFICES ASSUME NEW y \in T PROVE x >= y
    OBVIOUS
  <2>1. n - y \in U
    BY DEF U
  <2>2. n - x <= n - y
    BY <2>1, <1>2, <1>3
  <2> QED BY <2>2
<1> QED BY <1>4 DEF Max

\* Two sequences of numbers that differ do so at a first place.
LEMMA FirstDifference ==
    ASSUME NEW n \in Nat, NEW p \in [1 .. n -> Nat], NEW q \in [1 .. n -> Nat], p # q
    PROVE  \E k \in 1 .. n : p[k] # q[k] /\ \A j \in 1 .. k - 1 : p[j] = q[j]
<1> DEFINE T == {k \in 1 .. n : p[k] # q[k]}
<1>1. T \in SUBSET Nat /\ T # {}
  BY SMTT(30)
<1>2. PICK k \in T : \A y \in T : k <= y
  BY <1>1, LeastExists
<1>3. \A j \in 1 .. k - 1 : p[j] = q[j]
  BY <1>2
<1> QED BY <1>2, <1>3

-----------------------------------------------------------------------------
(* Lexicographic order                                                     *)

LEMMA BeforeIsTransitive ==
    ASSUME NEW n \in Nat, NEW p \in [1 .. n -> Nat], NEW q \in [1 .. n -> Nat],
           NEW r \in [1 .. n -> Nat], Before(p, q), Before(q, r)
    PROVE  Before(p, r)
<1>1. PICK k \in 1 .. n : p[k] < q[k] /\ \A j \in 1 .. k - 1 : p[j] = q[j]
  BY DEF Before, Enumeration!Precedes
<1>2. PICK m \in 1 .. n : q[m] < r[m] /\ \A j \in 1 .. m - 1 : q[j] = r[j]
  BY DEF Before, Enumeration!Precedes
<1>3. CASE k <= m
  <2>1. p[k] < r[k]
    BY <1>1, <1>2, <1>3, SMTT(30)
  <2>2. \A j \in 1 .. k - 1 : p[j] = r[j]
    BY <1>1, <1>2, <1>3
  <2> QED BY <2>1, <2>2 DEF Before, Enumeration!Precedes
<1>4. CASE m < k
  <2>1. p[m] < r[m]
    BY <1>1, <1>2, <1>4
  <2>2. \A j \in 1 .. m - 1 : p[j] = r[j]
    BY <1>1, <1>2, <1>4
  <2> QED BY <2>1, <2>2 DEF Before, Enumeration!Precedes
<1> QED BY <1>3, <1>4

LEMMA BeforeIsStrict ==
    ASSUME NEW n \in Nat, NEW p \in [1 .. n -> Nat], NEW q \in [1 .. n -> Nat], Before(p, q)
    PROVE  p # q /\ ~Before(q, p)
<1>1. PICK k \in 1 .. n : p[k] < q[k] /\ \A j \in 1 .. k - 1 : p[j] = q[j]
  BY DEF Before, Enumeration!Precedes
<1>2. p # q
  BY <1>1
<1>3. ASSUME Before(q, p)
      PROVE  FALSE
  <2>1. PICK m \in 1 .. n : q[m] < p[m] /\ \A j \in 1 .. m - 1 : q[j] = p[j]
    BY <1>3 DEF Before, Enumeration!Precedes
  <2> QED BY <1>1, <2>1
<1> QED BY <1>2, <1>3

LEMMA BeforeIsTotal ==
    ASSUME NEW n \in Nat, NEW p \in [1 .. n -> Nat], NEW q \in [1 .. n -> Nat]
    PROVE  p = q \/ Before(p, q) \/ Before(q, p)
<1> SUFFICES ASSUME p # q PROVE Before(p, q) \/ Before(q, p)
  OBVIOUS
<1>1. PICK k \in 1 .. n : p[k] # q[k] /\ \A j \in 1 .. k - 1 : p[j] = q[j]
  BY FirstDifference
<1>2. CASE p[k] < q[k]
  BY <1>1, <1>2 DEF Before, Enumeration!Precedes
<1>3. CASE q[k] < p[k]
  BY <1>1, <1>3 DEF Before, Enumeration!Precedes
<1> QED BY <1>1, <1>2, <1>3

\* Nothing comes before the point of all zeros.
LEMMA ZerosAreFirst ==
    ASSUME NEW n \in Nat, NEW p \in [1 .. n -> Nat], NEW q \in [1 .. n -> Nat],
           \A i \in 1 .. n : p[i] = 0
    PROVE  ~Before(q, p)
BY DEF Before, Enumeration!Precedes

-----------------------------------------------------------------------------
(* Ranges                                                                  *)

LEMMA QuotientRounds ==
    ASSUME NEW a \in Int, NEW b \in Nat \ {0}
    PROVE  /\ CeilDiv(a, b) \in Int
           /\ CeilDiv(a, b) * b >= a /\ (CeilDiv(a, b) - 1) * b < a
<1> DEFINE m == (-a) \div b
<1>1. m \in Int /\ m * b <= -a /\ -a < (m + 1) * b
  OBVIOUS
<1>2. CeilDiv(a, b) = -m
  BY DEF CeilDiv
<1> HIDE DEF m
<1>3. (-m) * b = -(m * b) /\ (-m - 1) * b = -((m + 1) * b)
  BY <1>1
<1> QED BY <1>1, <1>2, <1>3

LEMMA QuotientAndRest ==
    ASSUME NEW a \in Int, NEW b \in Nat \ {0}
    PROVE  a \div b \in Int /\ a = (b * (a \div b)) + (a % b)
OBVIOUS

\* One way of giving the range was used.
LEMMA OneSpecification ==
    ASSUME NEW s \in RangeSettings, SetupOK(s)
    PROVE  s.given = {"values"} \/ s.given = {"mode"} \/ s.given = {"step"}
<1>1. s.given \subseteq {"values", "mode", "step"} /\ Cardinality(s.given) = 1
  BY DEF RangeSettings, Specs, SetupOK
<1>2. IsFiniteSet(s.given)
  <2>1. IsFiniteSet({"values"} \cup {"mode"} \cup {"step"})
    BY FS_Singleton, FS_Union
  <2>2. {"values"} \cup {"mode"} \cup {"step"} = {"values", "mode", "step"}
    OBVIOUS
  <2> QED BY <1>1, <2>1, <2>2, FS_Subset
<1>3. PICK x : s.given = {x}
  BY <1>1, <1>2, FS_Singleton
<1> QED BY <1>1, <1>3

LEMMA StepFacts ==
    ASSUME NEW s \in RangeSettings, SetupOK(s), s.given = {"step"}
    PROVE  /\ s.from \in Int /\ s.to \in Int /\ s.step \in Int /\ s.step # 0
           /\ s.step > 0 => s.from <= s.to
           /\ s.step < 0 => s.from > s.to
           /\ Distance(0, s.step) \in Nat \ {0} /\ Distance(s.from, s.to) \in Nat
           /\ Count(s) = SteppedCount(s)
<1>1. "step" \in s.given /\ "values" \notin s.given
  OBVIOUS
<1>2. s.from \in Int /\ s.to \in Int /\ s.step \in Int
  BY DEF RangeSettings
<1>3. (s.from <= s.to /\ s.step > 0) \/ (s.from > s.to /\ s.step < 0)
  BY <1>1 DEF SetupOK
<1> QED BY <1>1, <1>2, <1>3 DEF Distance, Count

\* The points of a stepped range, by their numbers: those up to SteppedCount(s) - 1
\* and no other lie within it.
LEMMA StepsWithin ==
    ASSUME NEW s \in RangeSettings, SetupOK(s), s.given = {"step"}
    PROVE  /\ SteppedCount(s) \in Nat \ {0}
           /\ \A k \in Nat : k < SteppedCount(s) <=>
                                 k * Distance(0, s.step) <= Distance(s.from, s.to)
<1> DEFINE w == Distance(0, s.step)
           d == Distance(s.from, s.to)
           n == CeilDiv(d, w)
           whole == WholeSteps(s)
<1>1. w \in Nat \ {0} /\ d \in Nat
  BY StepFacts
<1>2. n \in Int /\ n * w >= d /\ (n - 1) * w < d
  BY <1>1, QuotientRounds
<1>3. whole = IF n <= 0 THEN 1 ELSE n
  BY DEF WholeSteps
<1>4. StepInside(s, whole) <=> whole * w <= d
  <2>1. whole \in Nat
    BY <1>2, <1>3
  <2>2. CASE s.step > 0
    <3>1. w = s.step /\ d = s.to - s.from
      BY <2>2, StepFacts DEF Distance
    <3>2. StepInside(s, whole) <=> s.from + whole * s.step <= s.to
      BY <2>2 DEF StepInside
    <3> QED BY <3>1, <3>2, <2>1, StepFacts
  <2>3. CASE s.step < 0
    <3>1. w = -s.step /\ d = s.from - s.to
      BY <2>3, StepFacts DEF Distance
    <3>2. StepInside(s, whole) <=> s.from + whole * s.step >= s.to
      BY <2>3, StepFacts DEF StepInside
    <3>3. whole * w = -(whole * s.step)
      BY <3>1, <2>1, StepFacts
    <3> QED BY <3>1, <3>2, <3>3, <2>1, StepFacts
  <2> QED BY <2>2, <2>3, StepFacts
<1>5. SteppedCount(s) = whole + (IF whole * w <= d THEN 1 ELSE 0)
  BY <1>4 DEF SteppedCount
<1> HIDE DEF w, d, n, whole
<1>6. CASE n <= 0
  <2>1. n * w <= 0
    BY <1>1, <1>2, <1>6
  <2>2. d = 0 /\ whole = 1
    BY <2>1, <1>1, <1>2, <1>3, <1>6
  <2>3. SteppedCount(s) = 1
    BY <2>2, <1>1, <1>5
  <2>4. \A k \in Nat : k < 1 <=> k * w <= d
    BY <2>2, <1>1
  <2> QED BY <2>3, <2>4 DEF w, d
<1>7. CASE n > 0
  <2>1. whole = n
    BY <1>3, <1>7, <1>2
  <2>2. SteppedCount(s) \in Nat \ {0}
    BY <2>1, <1>5, <1>7, <1>2
  <2>3. ASSUME NEW k \in Nat, k < SteppedCount(s)
        PROVE  k * w <= d
    <3>1. CASE k <= n - 1
      <4>1. k * w <= (n - 1) * w
        BY <3>1, <1>1, <1>2
      <4> QED BY <4>1, <1>1, <1>2
    <3>2. CASE k > n - 1
      BY <3>2, <2>1, <2>3, <1>5, <1>2
    <3> QED BY <3>1, <3>2, <1>2
  <2>4. ASSUME NEW k \in Nat, k * w <= d
        PROVE  k < SteppedCount(s)
    <3>1. k <= n
      <4>1. ASSUME k >= n + 1
            PROVE  FALSE
        <5>1. k * w >= (n + 1) * w
          BY <4>1, <1>1, <1>2
        <5>2. (n + 1) * w = n * w + w
          BY <1>1, <1>2
        <5> QED BY <5>1, <5>2, <2>4, <1>1, <1>2
      <4> QED BY <4>1, <1>2
    <3>2. k = n => whole * w <= d
      BY <2>1, <2>4
    <3> QED BY <3>1, <3>2, <2>1, <1>5, <1>2, <1>1
  <2> QED BY <2>2, <2>3, <2>4 DEF w, d
<1> QED BY <1>6, <1>7, <1>2

LEMMA ModeFacts ==
    ASSUME NEW s \in RangeSettings, SetupOK(s), s.given = {"mode"}
    PROVE  /\ s.from \in Int /\ s.to \in Int
           /\ s.mode = "lin" => Count(s) = s.points + 1 /\ s.points \in Nat
           /\ s.mode # "lin" =>
                 /\ Count(s) = LogCount(s) /\ LogCount(s) \in Nat \ {0}
                 /\ LeastFine(s, LogCount(s) - 1)
<1>1. s.from \in Int /\ s.to \in Int /\ s.points \in Int /\ s.mode \in {"lin", "dec", "oct"}
  BY DEF RangeSettings
<1>2. "step" \notin s.given /\ "values" \notin s.given /\ "mode" \in s.given
  OBVIOUS
<1>3. s.mode = "lin" => Count(s) = s.points + 1 /\ s.points \in Nat
  BY <1>1, <1>2 DEF Count, SetupOK
<1>4. ASSUME s.mode # "lin"
      PROVE  /\ Count(s) = LogCount(s) /\ LogCount(s) \in Nat \ {0}
             /\ LeastFine(s, LogCount(s) - 1)
  <2> DEFINE f == LogFactor(s)
             a == s.points * Distance(s.from, s.to)
             n == CeilDiv(a, f)
  <2>1. f \in Nat \ {0}
    BY ScaleAssumption DEF LogFactor
  <2>2. a \in Nat
    <3>1. Distance(s.from, s.to) \in Nat /\ s.points \in Nat
      BY <1>1, <1>2, <1>4 DEF SetupOK, Distance
    <3> QED BY <3>1
  <2>3. n \in Int /\ n * f >= a /\ (n - 1) * f < a
    BY <2>1, <2>2, QuotientRounds
  <2>4. LogCount(s) = n + 1 /\ Count(s) = LogCount(s)
    BY <1>2, <1>4 DEF Count, LogCount
  <2> HIDE DEF f, a, n
  <2>5. n \in Nat
    <3>1. ASSUME n < 0 PROVE FALSE
      <4>1. n * f < 0
        BY <3>1, <2>1, <2>3
      <4> QED BY <4>1, <2>2, <2>3, <2>1
    <3> QED BY <3>1, <2>3
  <2>6. LeastFine(s, n)
    BY <2>3, <2>5, <2>1, <2>2 DEF LeastFine, FineEnough, f, a
  <2> QED BY <2>4, <2>5, <2>6
<1> QED BY <1>1, <1>3, <1>4

\* A range that makes sense has a value, and only numbers for values.
LEMMA CountIsPositive ==
    ASSUME NEW s \in RangeSettings, SetupOK(s)
    PROVE  Count(s) \in Nat \ {0}
<1>1. CASE s.given = {"values"}
  <2>1. s.values \in Seq(Int) /\ s.values # <<>>
    BY <1>1 DEF RangeSettings, SetupOK
  <2>2. Len(s.values) \in Nat \ {0}
    BY <2>1
  <2> QED BY <2>2, <1>1 DEF Count
<1>2. CASE s.given = {"step"}
  BY <1>2, StepFacts, StepsWithin
<1>3. CASE s.given = {"mode"}
  BY <1>3, ModeFacts
<1> QED BY <1>1, <1>2, <1>3, OneSpecification

LEMMA ValueIsNumber ==
    ASSUME NEW s \in RangeSettings, SetupOK(s), NEW k \in Nat, k < Count(s)
    PROVE  PointValue(s, k) \in Int
<1>1. CASE s.given = {"values"}
  <2>1. s.values \in Seq(Int) /\ Count(s) = Len(s.values)
    BY <1>1 DEF RangeSettings, Count
  <2>2. k + 1 \in 1 .. Len(s.values)
    BY <2>1
  <2>3. s.values[k + 1] \in Int
    BY <2>1, <2>2
  <2> QED BY <2>3, <1>1 DEF PointValue
<1>2. CASE s.given = {"step"}
  <2>1. s.from \in Int /\ s.step \in Int
    BY <1>2, StepFacts
  <2>2. PointValue(s, k) = s.from + s.step * k
    BY <1>2 DEF PointValue
  <2> QED BY <2>1, <2>2
<1>3. CASE s.given = {"mode"}
  <2>1. s.from \in Int /\ s.to \in Int
    BY <1>3, ModeFacts
  <2>2. Count(s) \in Nat
    BY CountIsPositive
  <2>3. PointValue(s, k) = IF Count(s) < 2 THEN s.from
                           ELSE s.from + ((s.to - s.from) * k) \div (Count(s) - 1)
    BY <1>3 DEF PointValue
  <2>4. (s.to - s.from) * k \in Int
    BY <2>1
  <2>5. CASE Count(s) >= 2
    <3>1. ((s.to - s.from) * k) \div (Count(s) - 1) \in Int
      BY <2>4, <2>5, <2>2
    <3> QED BY <3>1, <2>1, <2>3, <2>5, <2>2
  <2> QED BY <2>1, <2>2, <2>3, <2>5
<1> QED BY <1>1, <1>2, <1>3, OneSpecification

\* setup() has left a range that its settings describe.
LEMMA RangeIsCovered ==
    ASSUME NEW s \in RangeSettings, SetupOK(s)
    PROVE  CoversRange(s)
<1> DEFINE vals == {PointValue(s, k) : k \in 0 .. Count(s) - 1}
<1>1. Count(s) \in Nat \ {0}
  BY CountIsPositive
<1>2. CASE s.given = {"values"}
  <2>1. s.values \in Seq(Int) /\ Count(s) = Len(s.values)
    BY <1>2 DEF RangeSettings, Count
  <2>2. \A k \in 0 .. Count(s) - 1 : PointValue(s, k) = s.values[k + 1]
    BY <1>2 DEF PointValue
  <2>3. vals = {s.values[k] : k \in 1 .. Len(s.values)}
    <3>1. ASSUME NEW k \in 0 .. Count(s) - 1
          PROVE  PointValue(s, k) \in {s.values[j] : j \in 1 .. Len(s.values)}
      <4>1. k + 1 \in 1 .. Len(s.values)
        BY <2>1
      <4> QED BY <4>1, <2>2
    <3>2. ASSUME NEW j \in 1 .. Len(s.values)
          PROVE  s.values[j] \in vals
      <4>1. j - 1 \in 0 .. Count(s) - 1 /\ (j - 1) + 1 = j
        BY <2>1
      <4>2. PointValue(s, j - 1) = s.values[j]
        BY <4>1, <2>2
      <4> QED BY <4>1, <4>2
    <3> QED BY <3>1, <3>2
  <2> QED BY <2>3, <1>2 DEF CoversRange
<1>3. CASE s.given = {"mode"}
  <2>1. s.from \in Int /\ s.to \in Int
    BY <1>3, ModeFacts
  <2>2. \A k \in Nat : PointValue(s, k) =
            IF Count(s) < 2 THEN s.from
            ELSE s.from + ((s.to - s.from) * k) \div (Count(s) - 1)
    BY <1>3 DEF PointValue
  <2>3. PointValue(s, 0) = s.from
    <3>1. Count(s) >= 2 => ((s.to - s.from) * 0) \div (Count(s) - 1) = 0
      BY <2>1, <1>1
    <3> QED BY <3>1, <2>1, <2>2, <1>1
  <2>4. Count(s) > 1 => PointValue(s, Count(s) - 1) = s.to
    <3>1. ASSUME NEW d \in Int, NEW n \in Nat \ {0}
          PROVE  (d * n) \div n = d
      OBVIOUS
    <3>2. Count(s) > 1 => ((s.to - s.from) * (Count(s) - 1)) \div (Count(s) - 1) = s.to - s.from
      BY <3>1, <2>1, <1>1
    <3> QED BY <3>2, <2>1, <2>2, <1>1
  <2>5. IF s.mode = "lin" THEN Count(s) = s.points + 1 ELSE LeastFine(s, Count(s) - 1)
    BY <1>3, ModeFacts
  <2> QED BY <2>3, <2>4, <2>5, <1>3 DEF CoversRange
<1>4. CASE s.given = {"step"}
  <2> DEFINE w == Distance(0, s.step)
             lo == IF s.step > 0 THEN s.from ELSE s.to
             hi == IF s.step > 0 THEN s.to ELSE s.from
  <2>1. /\ s.from \in Int /\ s.to \in Int /\ s.step \in Int /\ s.step # 0
        /\ (s.step > 0 => s.from <= s.to) /\ (s.step < 0 => s.from > s.to)
        /\ w \in Nat \ {0} /\ Count(s) = SteppedCount(s)
    BY <1>4, StepFacts
  <2>2. \A k \in Nat : k < Count(s) <=> k * w <= Distance(s.from, s.to)
    BY <1>4, <2>1, StepsWithin
  <2>3. \A k \in Nat : PointValue(s, k) = s.from + s.step * k
    BY <1>4 DEF PointValue
  <2>4. SteppedPoints(s) = {v \in lo .. hi : (v - s.from) % w = 0}
    BY DEF SteppedPoints
  <2>5. CASE s.step > 0
    <3>1. w = s.step /\ Distance(s.from, s.to) = s.to - s.from /\ lo = s.from /\ hi = s.to
      BY <2>1, <2>5 DEF Distance
    <3> HIDE DEF w, lo, hi
    <3>2. ASSUME NEW k \in 0 .. Count(s) - 1
          PROVE  PointValue(s, k) \in SteppedPoints(s)
      <4>1. k * w <= s.to - s.from
        BY <1>1, <2>2, <3>1
      <4>2. k * w >= 0
        BY <2>1
      <4>3. PointValue(s, k) = s.from + k * w
        BY <2>1, <2>3, <3>1
      <4>4. (k * w) % w = 0
        BY <2>1
      <4>5. s.from + k * w \in lo .. hi /\ (s.from + k * w) - s.from = k * w
        BY <4>1, <4>2, <3>1, <2>1
      <4> QED BY <4>3, <4>4, <4>5, <2>4
    <3>3. ASSUME NEW v \in SteppedPoints(s)
          PROVE  v \in vals
      <4>1. v \in lo .. hi /\ (v - s.from) % w = 0
        BY <2>4
      <4>2. v \in Int /\ s.from <= v /\ v <= s.to
        BY <4>1, <3>1, <2>1
      <4>3. PICK k \in Int : v - s.from = w * k
        <5> DEFINE c == (v - s.from) \div w
        <5>1. c \in Int /\ v - s.from = (w * c) + ((v - s.from) % w)
          <6>1. v - s.from \in Int
            BY <4>2, <2>1
          <6> QED BY <6>1, <2>1, QuotientAndRest
        <5> HIDE DEF c
        <5>2. v - s.from = w * c
          BY <5>1, <4>1, <2>1
        <5> QED BY <5>1, <5>2
      <4>4. k \in Nat
        <5>1. ASSUME k < 0 PROVE FALSE
          <6>1. w * k < 0
            BY <5>1, <2>1
          <6> QED BY <6>1, <4>2, <4>3, <2>1
        <5> QED BY <5>1
      <4>5. k * w <= Distance(s.from, s.to)
        BY <4>2, <4>3, <4>4, <3>1, <2>1
      <4>6. k \in 0 .. Count(s) - 1
        BY <4>4, <4>5, <2>2, <1>1
      <4>7. PointValue(s, k) = v
        BY <4>3, <4>4, <4>2, <2>3, <3>1, <2>1
      <4> QED BY <4>6, <4>7
    <3>4. vals = SteppedPoints(s)
      BY <3>2, <3>3
    <3> QED BY <3>4, <1>4 DEF CoversRange
  <2>6. CASE s.step < 0
    <3>1. w = -s.step /\ Distance(s.from, s.to) = s.from - s.to /\ lo = s.to /\ hi = s.from
      BY <2>1, <2>6 DEF Distance
    <3> HIDE DEF w, lo, hi
    <3>2. ASSUME NEW k \in 0 .. Count(s) - 1
          PROVE  PointValue(s, k) \in SteppedPoints(s)
      <4>1. k * w <= s.from - s.to
        BY <1>1, <2>2, <3>1
      <4>2. k * w >= 0
        BY <2>1
      <4>3. PointValue(s, k) = s.from - k * w
        <5>1. s.step = -w
          BY <3>1, <2>1
        <5>2. (-w) * k = -(k * w)
          BY <2>1
        <5> QED BY <5>1, <5>2, <2>1, <2>3
      <4>4. (-(k * w)) % w = 0
        <5>1. -(k * w) = w * (-k)
          BY <2>1
        <5>2. (w * (-k)) % w = 0
          BY <2>1
        <5> QED BY <5>1, <5>2
      <4>5. s.from - k * w \in lo .. hi /\ (s.from - k * w) - s.from = -(k * w)
        BY <4>1, <4>2, <3>1, <2>1
      <4> QED BY <4>3, <4>4, <4>5, <2>4
    <3>3. ASSUME NEW v \in SteppedPoints(s)
          PROVE  v \in vals
      <4>1. v \in lo .. hi /\ (v - s.from) % w = 0
        BY <2>4
      <4>2. v \in Int /\ s.to <= v /\ v <= s.from
        BY <4>1, <3>1, <2>1
      <4>3. PICK k \in Int : s.from - v = w * k
        <5> DEFINE c == (v - s.from) \div w
        <5>1. c \in Int /\ v - s.from = (w * c) + ((v - s.from) % w)
          <6>1. v - s.from \in Int
            BY <4>2, <2>1
          <6> QED BY <6>1, <2>1, QuotientAndRest
        <5> HIDE DEF c
        <5>2. v - s.from = w * c
          BY <5>1, <4>1, <2>1
        <5>3. w * (0 - c) = 0 - (w * c)
          BY <5>1, <2>1
        <5>4. 0 - c \in Int /\ s.from - v = w * (0 - c)
          BY <5>1, <5>2, <5>3, <4>2, <2>1
        <5> QED BY <5>4
      <4>4. k \in Nat
        <5>1. ASSUME k < 0 PROVE FALSE
          <6>1. w * k < 0
            BY <5>1, <2>1
          <6> QED BY <6>1, <4>2, <4>3, <2>1
        <5> QED BY <5>1
      <4>5. k * w <= Distance(s.from, s.to)
        BY <4>2, <4>3, <4>4, <3>1, <2>1
      <4>6. k \in 0 .. Count(s) - 1
        BY <4>4, <4>5, <2>2, <1>1
      <4>7. PointValue(s, k) = v
        <5>1. s.step = 0 - w
          BY <3>1, <2>1
        <5>2. (0 - w) * k = 0 - (w * k)
          BY <2>1
        <5>3. PointValue(s, k) = s.from + s.step * k
          BY <4>4, <2>3
        <5>4. s.step * k = 0 - (s.from - v)
          BY <5>1, <5>2, <4>3
        <5> QED BY <5>3, <5>4, <4>2, <2>1
      <4> QED BY <4>6, <4>7
    <3>4. vals = SteppedPoints(s)
      BY <3>2, <3>3
    <3> QED BY <3>4, <1>4 DEF CoversRange
  <2> QED BY <2>1, <2>5, <2>6
<1> QED BY <1>2, <1>3, <1>4, OneSpecification

-----------------------------------------------------------------------------
(* Sweep lists and written values                                          *)

LEMMA ListFacts ==
    ASSUME sweeps \in SweepLists
    PROVE  /\ N \in Nat /\ Level = 1 .. N
           /\ \A i \in Level : /\ sweeps[i].target \in Targets /\ sweeps[i].on \in Variables
                               /\ sweeps[i].settings \in [Values -> RangeSettings]
                               /\ sweeps[i].continuation \in BOOLEAN
           /\ \A i, j \in Level : sweeps[i].target = sweeps[j].target => i = j
           /\ \A i \in Level : \A x \in Values : \A k \in Nat :
                 /\ sweeps[i].target \in Variables
                 /\ SetupOK(sweeps[i].settings[x])
                 /\ k < Count(sweeps[i].settings[x])
                 => PointValue(sweeps[i].settings[x], k) \in Values
           /\ VariableLevels \subseteq Level /\ ParameterLevels \subseteq Level
           /\ \A i \in Level : i \in VariableLevels <=> sweeps[i].target \in Variables
           /\ \A i \in Level : i \in ParameterLevels <=> sweeps[i].target \in Parameters
<1>1. sweeps \in Seq(SweepLevel)
  BY SweepAssumption
<1>2. N \in Nat /\ Level = 1 .. N
  BY <1>1 DEF N, Level
<1>3. \A i \in Level : sweeps[i] \in SweepLevel
  BY <1>1, <1>2 DEF N
<1>4. \A i \in Level : /\ sweeps[i].target \in Targets /\ sweeps[i].on \in Variables
                       /\ sweeps[i].settings \in [Values -> RangeSettings]
                       /\ sweeps[i].continuation \in BOOLEAN
  BY <1>3 DEF SweepLevel
<1>5. \A i, j \in Level : sweeps[i].target = sweeps[j].target => i = j
  BY SweepAssumption DEF Level
<1>6. ASSUME NEW i \in Level, NEW x \in Values, NEW k \in Nat,
             sweeps[i].target \in Variables, SetupOK(sweeps[i].settings[x]),
             k < Count(sweeps[i].settings[x])
      PROVE  PointValue(sweeps[i].settings[x], k) \in Values
  <2> DEFINE s == sweeps[i].settings[x]
  <2>1. Count(s) \in Nat
    BY <1>4, <1>6, CountIsPositive
  <2>2. k \in 0 .. Count(s) - 1
    BY <1>6, <2>1
  <2>3. \A h \in 0 .. Count(s) - 1 : PointValue(s, h) \in Values
    BY <1>6, SweepAssumption DEF Level
  <2> QED BY <2>2, <2>3
<1>7. /\ VariableLevels \subseteq Level /\ ParameterLevels \subseteq Level
      /\ \A i \in Level : i \in VariableLevels <=> sweeps[i].target \in Variables
      /\ \A i \in Level : i \in ParameterLevels <=> sweeps[i].target \in Parameters
  BY <1>4, SweepAssumption DEF VariableLevels, ParameterLevels, SweepsVariable, Targets
<1> QED BY <1>2, <1>4, <1>5, <1>6, <1>7

\* What a step that keeps the list keeps with it.
LEMMA ListStays ==
    ASSUME sweeps' = sweeps
    PROVE  /\ N' = N /\ Level' = Level
           /\ VariableLevels' = VariableLevels /\ ParameterLevels' = ParameterLevels
<1>1. N' = N /\ Level' = Level
  BY DEF N, Level
<1>2. VariableLevels' = VariableLevels
  BY <1>1 DEF VariableLevels, SweepsVariable
<1> QED BY <1>1, <1>2 DEF ParameterLevels

LEMMA PointsStay ==
    ASSUME sweeps' = sweeps
    PROVE  Points' = Points
BY DEF Points, SettingsAt, ValuesAt, OuterLevels, N

LEMMA WrittenThere ==
    ASSUME sweeps \in SweepLists, NEW env, NEW lv, lv \subseteq Level, NEW vals,
           NEW i \in lv
    PROVE  Written(env, lv, vals)[sweeps[i].target] = vals[i]
<1>1. \A j \in Level : sweeps[j].target = sweeps[i].target => j = i
  BY ListFacts
<1>2. sweeps[i].target \in Targets
  BY ListFacts
<1>3. (CHOOSE j \in lv : sweeps[j].target = sweeps[i].target) = i
  BY <1>1
<1> QED BY <1>2, <1>3 DEF Written

LEMMA WrittenElsewhere ==
    ASSUME NEW env, NEW lv, NEW vals, NEW t \in Targets, \A i \in lv : sweeps[i].target # t
    PROVE  Written(env, lv, vals)[t] = env[t]
BY DEF Written

LEMMA WrittenType ==
    ASSUME sweeps \in SweepLists, NEW env \in [Targets -> Int], NEW lv, lv \subseteq Level,
           NEW vals, \A i \in lv : vals[i] \in Int
    PROVE  Written(env, lv, vals) \in [Targets -> Int]
<1>1. ASSUME NEW t \in Targets
      PROVE  Written(env, lv, vals)[t] \in Int
  <2>1. CASE \E i \in lv : sweeps[i].target = t
    <3>1. PICK i \in lv : sweeps[i].target = t
      BY <2>1
    <3>2. Written(env, lv, vals)[sweeps[i].target] = vals[i]
      BY WrittenThere
    <3> QED BY <3>1, <3>2
  <2>2. CASE \A i \in lv : sweeps[i].target # t
    <3>1. Written(env, lv, vals)[t] = env[t]
      BY <2>2, WrittenElsewhere
    <3> QED BY <3>1
  <2> QED BY <2>1, <2>2
<1>2. Written(env, lv, vals) = [t \in Targets |-> Written(env, lv, vals)[t]]
  BY DEF Written
<1> HIDE DEF Written
<1> QED BY <1>1, <1>2

\* Writing nothing, or what is there already, changes nothing.
LEMMA WrittenSame ==
    ASSUME sweeps \in SweepLists, NEW env \in [Targets -> Int], NEW lv, lv \subseteq Level,
           NEW vals, \A i \in lv : vals[i] = env[sweeps[i].target]
    PROVE  Written(env, lv, vals) = env
<1>1. ASSUME NEW t \in Targets
      PROVE  Written(env, lv, vals)[t] = env[t]
  <2>1. CASE \E i \in lv : sweeps[i].target = t
    <3>1. PICK i \in lv : sweeps[i].target = t
      BY <2>1
    <3>2. Written(env, lv, vals)[sweeps[i].target] = vals[i]
      BY WrittenThere
    <3> QED BY <3>1, <3>2
  <2>2. CASE \A i \in lv : sweeps[i].target # t
    BY <2>2, WrittenElsewhere
  <2> QED BY <2>1, <2>2
<1>2. Written(env, lv, vals) = [t \in Targets |-> Written(env, lv, vals)[t]]
  BY DEF Written
<1>3. env = [t \in Targets |-> env[t]]
  OBVIOUS
<1> QED BY <1>1, <1>2, <1>3

-----------------------------------------------------------------------------
(* The invariant: initial states and steps that only move control          *)

LEMMA TypeFacts ==
    ASSUME Typed
    PROVE  /\ advanced \in Nat /\ advanced >= 1 /\ (N > 0 => advanced \in Level)
           /\ N \in Nat /\ Level = 1 .. N
<1>1. N \in Nat /\ Level = 1 .. N
  BY ListFacts DEF Typed, TypedData, TypedControl
<1> QED BY <1>1 DEF Typed, TypedData, TypedControl

LEMMA InitInv ==
    ASSUME Init
    PROVE  Inv
<1> USE DEF Init, CoroutineInit
<1>1. sweeps \in SweepLists /\ inForce = Original /\ before = Original
  OBVIOUS
<1>2. N \in Nat /\ Level = 1 .. N
  BY <1>1, ListFacts
<1>3. pointMarker \in BOOLEAN /\ wantMarker \in BOOLEAN
  BY SweepAssumption
<1>4. Typed
  <2>1. coreStates \in [Level -> CoreStates]
    BY DEF NoState, CoreStates
  <2>2. solution \in Seq(Nat)
    OBVIOUS
  <2>3. inForce \in [Targets -> Int] /\ \A v \in Variables : inForce[v] \in Values
    BY SweepAssumption
  <2>4. 0 \in 0 .. MaxStarts /\ 0 \in 0 .. N
    BY ControlAssumption, <1>2
  <2>5. bound \in 0 .. N /\ advanced \in Nat /\ advanced >= 1 /\ (advanced > N => advanced = 1)
    BY <1>2
  <2>6. origin.mode \in {"none", "standard", "continue", "forced"}
    BY DEF NoOrigin
  <2>7. /\ preSweepValuesStored \in BOOLEAN /\ haveStoredState \in BOOLEAN
        /\ outputsBound \in BOOLEAN /\ allowBypass \in BOOLEAN /\ originalMarker \in BOOLEAN
        /\ system \in Nat /\ computed \subseteq [Level -> Nat] /\ stops \in Nat
    BY <1>3
  <2>8. /\ turn \in {"caller", "coroutine"} /\ full \in BOOLEAN /\ pc \in Labels
        /\ value \in Yields \cup {"none", Uninitialised}
        /\ lastCoroutineState \in Yields \cup {"none", Uninitialised}
        /\ call \in {"none", "resume", "isRunning"} /\ unseen \in Yields \cup {"none"}
    BY DEF Labels
  <2> HIDE DEF Init, CoroutineInit
  <2>9. starts \in 0 .. MaxStarts /\ before \in [Targets -> Int]
    BY <2>3, <2>4, <1>1 DEF Init
  <2> QED BY <1>1, <1>3, <2>1, <2>2, <2>3, <2>5, <2>6, <2>7, <2>8, <2>9 DEF Typed, TypedData, TypedControl
<1>5. Ranged
  BY DEF Ranged, Looping
<1>6. Kept
  BY <1>1 DEF Kept, RestoresOriginals, Looping
<1>7. Ordered
  BY DEF Ordered, Approaching
<1>8. Stored
  BY DEF Stored, NoState, Approaching, Looping
<1>9. Told
  BY DEF Told, isValid
<1> QED BY <1>4, <1>5, <1>6, <1>7, <1>8, <1>9 DEF Inv

dataVars == <<circuitVars, sweeperVars, coreVars, computed, before>>

\* Moves of control that change none of what the control is about.
Moves ==
    \/ pc' = pc
    \/ pc = "point" /\ pc' = "set"
    \/ pc \in {"run", "core"} /\ pc' = "broken"
    \/ pc = "end" /\ pc' = "return"
    \/ pc = "return" /\ pc' = "done"

LEMMA MoveKeeps ==
    ASSUME Inv, UNCHANGED dataVars, Moves
    PROVE  Ranged' /\ Kept' /\ Ordered' /\ Stored'
<1>1. /\ UNCHANGED <<sweeps, inForce, pointMarker, wantMarker, originalMarker>>
      /\ UNCHANGED <<setting, at, bound, storedValues, preSweepValuesStored, advanced>>
      /\ UNCHANGED <<haveStoredState, outputsBound, coreStates, solution, system, allowBypass>>
      /\ UNCHANGED <<origin, computed, before>>
  BY DEF dataVars, circuitVars, sweeperVars, coreVars
<1>2. N' = N /\ Level' = Level /\ VariableLevels' = VariableLevels
  BY <1>1, ListStays
<1>3. Ranged'
  BY <1>1, <1>2 DEF Inv, Ranged, Looping, Moves
<1>4. Kept'
  <2>1. RestoresOriginals'
    BY <1>1, <1>2 DEF Inv, Kept, RestoresOriginals, Moves
  <2>2. \A i : SettingsOf(i, before)' = SettingsOf(i, before)
    BY <1>1 DEF SettingsOf
  <2> QED BY <1>1, <1>2, <2>1, <2>2 DEF Inv, Kept, Looping, Moves
<1>5. Ordered'
  BY <1>1, <1>2 DEF Inv, Ordered, Approaching, Moves
<1>6. Stored'
  <2>1. StartingPoint' = StartingPoint
    BY <1>1, <1>2 DEF StartingPoint
  <2> QED BY <1>1, <1>2, <2>1 DEF Inv, Stored, Approaching, Looping, Moves
<1> QED BY <1>3, <1>4, <1>5, <1>6

LEMMA TypedStays ==
    ASSUME Typed, UNCHANGED dataVars,
           stops' \in Nat, turn' \in {"caller", "coroutine"}, full' \in BOOLEAN, pc' \in Labels,
           value' \in Yields \cup {"none", Uninitialised},
           lastCoroutineState' \in Yields \cup {"none", Uninitialised},
           call' \in {"none", "resume", "isRunning"}, starts' \in 0 .. MaxStarts,
           unseen' \in Yields \cup {"none"}
    PROVE  Typed'
<1>1. /\ UNCHANGED <<sweeps, inForce, pointMarker, wantMarker, originalMarker>>
      /\ UNCHANGED <<setting, at, bound, storedValues, preSweepValuesStored, advanced>>
      /\ UNCHANGED <<haveStoredState, outputsBound, coreStates, solution, system, allowBypass>>
      /\ UNCHANGED <<origin, computed, before>>
  BY DEF dataVars, circuitVars, sweeperVars, coreVars
<1>2. N' = N /\ Level' = Level
  BY <1>1, ListStays
<1> QED BY <1>1, <1>2 DEF Typed, TypedData, TypedControl

\* What a step of the coroutine leaves alone in the caller.
Behind ==
    /\ unseen' = IF turn' = "caller" /\ pc' # "done" THEN value' ELSE unseen
    /\ UNCHANGED <<starts, call, lastCoroutineState, before>>

\* A step of the coroutine that yields one of the four values, or none.
LEMMA YieldIsTold ==
    ASSUME Inv, Behind, turn = "coroutine", NEW v \in Yields, NEW next \in Labels \ {"none", "done"},
           Yield(v, next), pc \notin {"end", "return", "done"},
           v = "Finished" => next = "end"
    PROVE  /\ Told' /\ turn' = "caller" /\ full' = TRUE /\ pc' = next
           /\ value' = v /\ unseen' \in Yields
<1>1. value' = v /\ pc' = next /\ full' = TRUE /\ turn' = "caller"
  BY DEF Yield
<1>2. lastCoroutineState' = lastCoroutineState /\ lastCoroutineState # "Finished"
  BY DEF Behind, Inv, Told, isValid
<1>3. unseen = "none"
  BY DEF Inv, Told
<1>4. unseen' = IF next # "done" THEN v ELSE "none"
  BY <1>1, <1>3 DEF Behind
<1> QED BY <1>1, <1>2, <1>4 DEF Told, isValid, Yields

LEMMA ContinueIsTold ==
    ASSUME Inv, Behind, turn = "coroutine", NEW next \in Labels \ {"none"}, Continue(next),
           pc \notin {"end", "return", "done"}
    PROVE  /\ Told' /\ turn' = turn /\ full' = full /\ value' = value /\ pc' = next
           /\ unseen' = "none"
<1>1. pc' = next /\ turn' = turn /\ full' = full /\ value' = value
  BY DEF Continue
<1>2. unseen = "none" /\ full = FALSE /\ pc # "none"
  BY DEF Inv, Told, Typed, TypedData, TypedControl
<1>3. unseen' = "none"
  BY <1>1, <1>2 DEF Behind
<1>4. lastCoroutineState' = lastCoroutineState
  BY DEF Behind
<1> QED BY <1>1, <1>2, <1>3, <1>4 DEF Inv, Told, isValid

LEMMA MarkPointKeepsInv ==
    ASSUME Inv, MarkPoint, Behind
    PROVE  Inv'
<1>1. /\ pc = "point" /\ turn = "coroutine" /\ UNCHANGED dataVars /\ stops' = stops
      /\ Yield("SweepPoint", "set") \/ Continue("set")
  BY DEF MarkPoint, Running, dataVars, historyVars, Behind
<1>2. Told' /\ turn' \in {"caller", "coroutine"} /\ full' \in BOOLEAN /\ pc' = "set"
      /\ value' \in Yields \cup {"none", Uninitialised} /\ unseen' \in Yields \cup {"none"}
  <2>1. CASE Yield("SweepPoint", "set")
    BY <1>1, <2>1, YieldIsTold DEF Yields, Labels
  <2>2. CASE Continue("set")
    BY <1>1, <2>2, ContinueIsTold DEF Labels, Inv, Typed, TypedData, TypedControl
  <2> QED BY <1>1, <2>1, <2>2
<1>3. Ranged' /\ Kept' /\ Ordered' /\ Stored'
  BY <1>1, <1>2, MoveKeeps DEF Moves
<1>4. Typed'
  BY <1>1, <1>2, TypedStays DEF Inv, Typed, TypedData, TypedControl, Labels, Behind
<1> QED BY <1>2, <1>3, <1>4 DEF Inv

LEMMA CoreStopsKeepsInv ==
    ASSUME Inv, CoreStops, Behind
    PROVE  Inv'
<1>1. /\ pc = "core" /\ turn = "coroutine" /\ UNCHANGED dataVars /\ stops' = stops + 1
      /\ Yield("Stopped", "core")
  BY DEF CoreStops, Running, dataVars, Behind
<1>2. /\ Told' /\ turn' = "caller" /\ full' = TRUE /\ pc' = "core" /\ value' = "Stopped"
      /\ unseen' \in Yields
  BY <1>1, YieldIsTold DEF Yields, Labels
<1>3. Ranged' /\ Kept' /\ Ordered' /\ Stored'
  BY <1>1, <1>2, MoveKeeps DEF Moves
<1>4. Typed'
  BY <1>1, <1>2, TypedStays DEF Inv, Typed, TypedData, TypedControl, Labels, Behind, Yields
<1> QED BY <1>2, <1>3, <1>4 DEF Inv

LEMMA CoreAbortsKeepsInv ==
    ASSUME Inv, CoreAborts, Behind
    PROVE  Inv'
<1>1. /\ pc \in {"run", "core"} /\ turn = "coroutine" /\ UNCHANGED dataVars /\ stops' = stops
      /\ Yield("Aborted", "broken")
  BY DEF CoreAborts, Running, dataVars, historyVars, Behind
<1>2. /\ Told' /\ turn' = "caller" /\ full' = TRUE /\ pc' = "broken" /\ value' = "Aborted"
      /\ unseen' \in Yields
  BY <1>1, YieldIsTold DEF Yields, Labels
<1>3. Ranged' /\ Kept' /\ Ordered' /\ Stored'
  BY <1>1, <1>2, MoveKeeps DEF Moves
<1>4. Typed'
  BY <1>1, <1>2, TypedStays DEF Inv, Typed, TypedData, TypedControl, Labels, Behind, Yields
<1> QED BY <1>2, <1>3, <1>4 DEF Inv

LEMMA EndKeepsInv ==
    ASSUME Inv, End \/ Return, Behind
    PROVE  Inv'
<1>1. /\ turn = "coroutine" /\ UNCHANGED dataVars /\ stops' = stops
      /\ \/ pc = "end" /\ pc' = "return" /\ value' = "Finished"
         \/ pc = "return" /\ pc' = "done" /\ value' = value
      /\ full' = TRUE /\ turn' = "caller"
  BY DEF End, Return, Yield, Running, dataVars, historyVars, Behind
<1>2. unseen = "none" /\ unseen' = IF pc' = "return" THEN "Finished" ELSE "none"
  BY <1>1 DEF Behind, Inv, Told
<1>3. Told'
  BY <1>1, <1>2 DEF Told, isValid
<1>4. Ranged' /\ Kept' /\ Ordered' /\ Stored'
  BY <1>1, MoveKeeps DEF Moves
<1>5. Typed'
  BY <1>1, <1>2, TypedStays DEF Inv, Typed, TypedData, TypedControl, Labels, Behind, Yields
<1> QED BY <1>3, <1>4, <1>5 DEF Inv

LEMMA BeginKeepsInv ==
    ASSUME Inv, NEW op \in {"resume", "isRunning"}, Begin(op)
    PROVE  Inv'
<1>1. /\ UNCHANGED dataVars /\ UNCHANGED <<stops, pc, full, value, starts, lastCoroutineState, unseen>>
      /\ call' = op /\ pc # "none" /\ turn' = IF full THEN "caller" ELSE "coroutine"
  BY DEF Begin, dataVars, historyVars, Idle, isValid
<1>2. Told'
  BY <1>1 DEF Inv, Told, isValid, Typed, TypedData, TypedControl
<1>3. Ranged' /\ Kept' /\ Ordered' /\ Stored'
  BY <1>1, MoveKeeps DEF Moves
<1>4. Typed'
  BY <1>1, TypedStays DEF Inv, Typed, TypedData, TypedControl
<1> QED BY <1>2, <1>3, <1>4 DEF Inv

LEMMA ReturnsKeepInv ==
    ASSUME Inv, ResumeReturns \/ IsRunningReturns
    PROVE  Inv'
<1>1. /\ UNCHANGED dataVars /\ UNCHANGED <<stops, pc, turn, value, starts>>
      /\ call' = "none" /\ turn = "caller"
      /\ \/ UNCHANGED <<full, lastCoroutineState, unseen>>
         \/ full' = FALSE /\ lastCoroutineState' = value /\ unseen' = "none"
  BY DEF ResumeReturns, IsRunningReturns, dataVars, historyVars, generatorVars
<1>2. Told'
  BY <1>1 DEF Inv, Told, isValid
<1>3. Ranged' /\ Kept' /\ Ordered' /\ Stored'
  BY <1>1, MoveKeeps DEF Moves
<1>4. Typed'
  BY <1>1, TypedStays DEF Inv, Typed, TypedData, TypedControl
<1> QED BY <1>2, <1>3, <1>4 DEF Inv

-----------------------------------------------------------------------------
(* Beginning and end of a run                                              *)

LEMMA SettingsType ==
    ASSUME sweeps \in SweepLists, NEW env, \A v \in Variables : env[v] \in Values,
           NEW i \in Level
    PROVE  SettingsOf(i, env) \in RangeSettings
<1>1. sweeps[i].on \in Variables /\ sweeps[i].settings \in [Values -> RangeSettings]
  BY ListFacts
<1> QED BY <1>1 DEF SettingsOf

\* The coroutine may fail before the loop begins.
LEMMA SetupFailsKeepsInv ==
    ASSUME Inv, SetupFails, Behind
    PROVE  Inv'
<1>1. /\ pc = "begin" /\ turn = "coroutine"
      /\ UNCHANGED <<sweeps, inForce, pointMarker, wantMarker, before>>
      /\ UNCHANGED <<storedValues, preSweepValuesStored, advanced, computed, stops>>
      /\ UNCHANGED <<coreStates, solution, system, allowBypass, origin>>
      /\ haveStoredState' = FALSE /\ outputsBound' = FALSE /\ originalMarker' = pointMarker
      /\ bound' \in 0 .. N
      /\ Yield("Aborted", "broken")
  <2>1. N \in Nat /\ bound \in 0 .. N
    BY TypeFacts DEF Inv, Typed, TypedData, TypedControl
  <2> QED BY <2>1 DEF SetupFails, Running, circuitVars, sweeperVars, historyVars, Behind
<1>2. N' = N /\ Level' = Level /\ VariableLevels' = VariableLevels
  BY <1>1, ListStays
<1>3. /\ Told' /\ turn' = "caller" /\ full' = TRUE /\ pc' = "broken" /\ value' = "Aborted"
      /\ unseen' \in Yields
  BY <1>1, YieldIsTold DEF Yields, Labels
<1>4. Typed'
  <2>1. TypedData'
    BY <1>1, <1>2 DEF Inv, Typed, TypedData
  <2>2. TypedControl'
    BY <1>1, <1>3 DEF Inv, Typed, TypedControl, Labels, Behind, Yields
  <2> QED BY <2>1, <2>2 DEF Typed
<1>5. Ranged' /\ Ordered'
  BY <1>3 DEF Ranged, Ordered, Looping, Approaching
<1>6. Kept'
  <2>1. RestoresOriginals'
    BY <1>3 DEF RestoresOriginals
  <2>2. ~preSweepValuesStored /\ ~preSweepValuesStored'
    BY <1>1 DEF Inv, Kept
  <2> QED BY <1>1, <1>2, <1>3, <2>1, <2>2 DEF Inv, Kept, Looping
<1>7. Stored'
  BY <1>1, <1>2, <1>3 DEF Inv, Stored, Approaching, Looping
<1> QED BY <1>3, <1>4, <1>5, <1>6, <1>7 DEF Inv

LEMMA SetupKeepsInv ==
    ASSUME Inv, Setup, Behind
    PROVE  Inv'
<1>1. /\ pc = "begin" /\ turn = "coroutine"
      /\ UNCHANGED <<sweeps, inForce, pointMarker, wantMarker, before>>
      /\ UNCHANGED <<computed, stops>>
      /\ UNCHANGED <<coreStates, solution, system, allowBypass, origin>>
      /\ \A i \in Level : SetupOK(SettingsOf(i, inForce))
      /\ setting' = [i \in Level |-> SettingsOf(i, inForce)]
      /\ at' = [i \in Level |-> 0] /\ bound' = N
      /\ storedValues' = [i \in Level |-> inForce[sweeps[i].target]]
      /\ preSweepValuesStored' = (N > 0) /\ advanced' = 1
      /\ haveStoredState' = FALSE /\ outputsBound' = FALSE /\ originalMarker' = pointMarker
      /\ Continue("point")
  BY DEF Setup, Running, circuitVars, historyVars, Behind
<1>2. N' = N /\ Level' = Level /\ VariableLevels' = VariableLevels
  BY <1>1, ListStays
<1>3. /\ Told' /\ turn' = turn /\ full' = full /\ value' = value /\ pc' = "point"
      /\ unseen' = "none"
  BY <1>1, ContinueIsTold DEF Labels
<1>4. sweeps \in SweepLists /\ N \in Nat /\ Level = 1 .. N
  BY TypeFacts DEF Inv, Typed, TypedData, TypedControl
<1>5. Typed'
  <2>1. preSweepValuesStored' \in BOOLEAN
    <3>1. CASE N > 0
      BY <1>1, <3>1
    <3>2. CASE ~(N > 0)
      BY <1>1, <3>2
    <3> QED BY <3>1, <3>2
  <2>2. TypedData'
    <3>1. bound' \in 0 .. N /\ advanced' \in Nat /\ advanced' >= 1 /\ advanced' = 1
      BY <1>1, <1>4
    <3>2. UNCHANGED <<sweeps, inForce, before, pointMarker, wantMarker, coreStates, solution,
                      system, allowBypass, origin, computed>>
      BY <1>1
    <3>3. haveStoredState' \in BOOLEAN /\ outputsBound' \in BOOLEAN /\ originalMarker' = pointMarker
      BY <1>1
    <3> QED BY <1>2, <2>1, <3>1, <3>2, <3>3 DEF Inv, Typed, TypedData
  <2>3. TypedControl'
    BY <1>1, <1>3 DEF Inv, Typed, TypedControl, Labels, Behind, Yields
  <2> QED BY <2>2, <2>3 DEF Typed
<1>6. Ranged'
  <2>1. ASSUME NEW i \in Level
        PROVE  /\ SettingsOf(i, inForce) \in RangeSettings
               /\ SetupOK(SettingsOf(i, inForce)) /\ 0 < Count(SettingsOf(i, inForce))
               /\ \E x \in Values : SettingsOf(i, inForce) = sweeps[i].settings[x]
    <3>1. SettingsOf(i, inForce) \in RangeSettings
      BY <1>4, SettingsType DEF Inv, Typed, TypedData
    <3>2. SetupOK(SettingsOf(i, inForce))
      BY <1>1
    <3>3. Count(SettingsOf(i, inForce)) \in Nat \ {0}
      BY <3>1, <3>2, CountIsPositive
    <3>4. inForce[sweeps[i].on] \in Values
      BY <1>4, ListFacts DEF Inv, Typed, TypedData
    <3> QED BY <3>1, <3>2, <3>3, <3>4 DEF SettingsOf
  <2>2. \A i \in Level : setting'[i] = SettingsOf(i, inForce) /\ at'[i] = 0
    BY <1>1
  <2>3. setting' \in [Level -> RangeSettings] /\ at' \in [Level -> Nat]
    BY <1>1, <2>1
  <2>4. \A i \in Level : /\ SetupOK(setting'[i]) /\ at'[i] < Count(setting'[i])
                         /\ \E x \in Values : setting'[i] = sweeps'[i].settings[x]
    BY <1>1, <2>1, <2>2
  <2> QED BY <1>2, <2>3, <2>4 DEF Ranged
<1>7. Ordered'
  BY <1>1, <1>2, <1>3 DEF Inv, Ordered, Approaching
<1>8. Kept'
  <2>1. RestoresOriginals'
    BY <1>3 DEF RestoresOriginals
  <2>2. ~preSweepValuesStored /\ inForce = before
    BY <1>1 DEF Inv, Kept
  <2>3. \A i : SettingsOf(i, before)' = SettingsOf(i, inForce)
    BY <1>1, <2>2 DEF SettingsOf
  <2>4. storedValues' \in [Level -> Int]
    BY <1>1, <1>4, ListFacts DEF Inv, Typed, TypedData, TypedControl
  <2> QED BY <1>1, <1>2, <1>3, <2>1, <2>2, <2>3, <2>4 DEF Inv, Kept, Looping
<1>9. Stored'
  BY <1>1, <1>2, <1>3 DEF Inv, Stored, Approaching, Looping
<1> QED BY <1>3, <1>5, <1>6, <1>7, <1>8, <1>9 DEF Inv

LEMMA StartKeepsInv ==
    ASSUME Inv, Start
    PROVE  Inv'
<1>1. /\ pc = "none" /\ pc' = "begin" /\ turn = "caller" /\ starts < MaxStarts
      /\ UNCHANGED circuitVars /\ UNCHANGED coreVars
      /\ UNCHANGED <<setting, at, bound, storedValues, advanced, stops, turn, full, call>>
      /\ starts' = starts + 1 /\ value' = Uninitialised
      /\ preSweepValuesStored' = FALSE /\ lastCoroutineState' = "none"
      /\ unseen' = "none" /\ before' = inForce /\ computed' = {}
  BY DEF Start, Idle, isValid
<1>2. N' = N /\ Level' = Level /\ VariableLevels' = VariableLevels
  BY <1>1, ListStays DEF circuitVars
<1>3. Typed'
  <2>1. starts + 1 \in 0 .. MaxStarts
    BY <1>1, ControlAssumption DEF Inv, Typed, TypedControl
  <2>2. TypedData'
    BY <1>1, <1>2 DEF Inv, Typed, TypedData, circuitVars, coreVars
  <2>3. TypedControl'
    BY <1>1, <2>1 DEF Inv, Typed, TypedControl, Labels
  <2> QED BY <2>2, <2>3 DEF Typed
<1>4. Ranged' /\ Ordered'
  BY <1>1 DEF Ranged, Ordered, Looping, Approaching
<1>5. Kept'
  BY <1>1, <1>2 DEF Inv, Kept, RestoresOriginals, Looping, circuitVars
<1>6. Stored'
  BY <1>1, <1>2 DEF Inv, Stored, Approaching, Looping, circuitVars, coreVars
<1>7. Told'
  BY <1>1 DEF Told, isValid, Uninitialised
<1> QED BY <1>3, <1>4, <1>5, <1>6, <1>7 DEF Inv

LEMMA SweepEndsKeepsInv ==
    ASSUME Inv, SweepEnds, Behind
    PROVE  Inv'
<1>1. /\ pc = "advance" /\ turn = "coroutine"
      /\ UNCHANGED <<circuitVars, coreVars, computed, stops, before>>
      /\ UNCHANGED <<setting, bound, storedValues, preSweepValuesStored>>
      /\ at' = [i \in Level |-> 0] /\ advanced' = 1 /\ Continue("end")
  BY DEF SweepEnds, Running, historyVars, Behind
<1>2. N' = N /\ Level' = Level /\ VariableLevels' = VariableLevels
  BY <1>1, ListStays DEF circuitVars
<1>3. /\ Told' /\ turn' = turn /\ full' = full /\ value' = value /\ pc' = "end"
      /\ unseen' = "none"
  BY <1>1, ContinueIsTold DEF Labels
<1>4. Typed'
  <2>1. TypedData'
    BY <1>1, <1>2 DEF Inv, Typed, TypedData, circuitVars, coreVars
  <2>2. TypedControl'
    BY <1>1, <1>3 DEF Inv, Typed, TypedControl, Labels, Behind, Yields
  <2> QED BY <2>1, <2>2 DEF Typed
<1>5. Ranged' /\ Ordered'
  BY <1>3 DEF Ranged, Ordered, Looping, Approaching
<1>6. Kept'
  <2>1. RestoresOriginals'
    BY <1>3 DEF RestoresOriginals
  <2>2. \A i : SettingsOf(i, before)' = SettingsOf(i, before)
    BY <1>1 DEF SettingsOf, circuitVars
  <2> QED BY <1>1, <1>2, <1>3, <2>1, <2>2 DEF Inv, Kept, Looping, circuitVars
<1>7. Stored'
  BY <1>1, <1>2, <1>3 DEF Inv, Stored, Approaching, Looping, circuitVars, coreVars
<1> QED BY <1>3, <1>4, <1>5, <1>6, <1>7 DEF Inv

-----------------------------------------------------------------------------
(* The values of a point                                                   *)

\* The variables of a point are values a variable can have; nothing that is not
\* swept changes.
LEMMA PointVariablesFit ==
    ASSUME Inv, pc \in Looping
    PROVE  /\ PointVariables \in [Targets -> Int]
           /\ \A v \in Variables : PointVariables[v] \in Values
           /\ \A t \in Targets : (\A i \in VariableLevels : sweeps[i].target # t) =>
                                     PointVariables[t] = inForce[t]
           /\ \A i \in VariableLevels :
                  PointVariables[sweeps[i].target] = PointValue(setting[i], at[i])
<1>1. sweeps \in SweepLists /\ inForce \in [Targets -> Int] /\ VariableLevels \subseteq Level
  BY ListFacts DEF Inv, Typed, TypedData
<1>2. ASSUME NEW i \in Level
      PROVE  /\ SweptValues(setting)[i] = PointValue(setting[i], at[i])
             /\ PointValue(setting[i], at[i]) \in Int
             /\ i \in VariableLevels => PointValue(setting[i], at[i]) \in Values
  <2>1. PICK x \in Values : setting[i] = sweeps[i].settings[x]
    BY DEF Inv, Ranged
  <2>2. setting[i] \in RangeSettings /\ SetupOK(setting[i]) /\ at[i] \in Nat /\ at[i] < Count(setting[i])
    BY DEF Inv, Ranged
  <2>3. PointValue(setting[i], at[i]) \in Int
    BY <2>2, ValueIsNumber
  <2>4. ASSUME i \in VariableLevels
        PROVE  PointValue(setting[i], at[i]) \in Values
    <3>1. sweeps[i].target \in Variables
      BY <1>1, <2>4, ListFacts
    <3> QED BY <1>1, <2>1, <2>2, <3>1, ListFacts
  <2>5. SweptValues(setting)[i] = PointValue(setting[i], at[i])
    BY DEF SweptValues
  <2> QED BY <2>3, <2>4, <2>5
<1>3. PointVariables \in [Targets -> Int]
  <2>1. \A i \in VariableLevels : SweptValues(setting)[i] \in Int
    BY <1>1, <1>2
  <2> QED BY <1>1, <2>1, WrittenType DEF PointVariables
<1>4. ASSUME NEW t \in Targets, \A i \in VariableLevels : sweeps[i].target # t
      PROVE  PointVariables[t] = inForce[t]
  BY <1>4, WrittenElsewhere DEF PointVariables
<1>5. ASSUME NEW i \in VariableLevels
      PROVE  PointVariables[sweeps[i].target] = PointValue(setting[i], at[i])
  <2>1. PointVariables[sweeps[i].target] = SweptValues(setting)[i]
    BY <1>1, WrittenThere DEF PointVariables
  <2> QED BY <2>1, <1>1, <1>2
<1>6. ASSUME NEW v \in Variables
      PROVE  PointVariables[v] \in Values
  <2>1. CASE \E i \in VariableLevels : sweeps[i].target = v
    <3>1. PICK i \in VariableLevels : sweeps[i].target = v
      BY <2>1
    <3> QED BY <3>1, <1>1, <1>2, <1>5
  <2>2. CASE \A i \in VariableLevels : sweeps[i].target # v
    <3>1. v \in Targets
      BY DEF Targets
    <3> QED BY <2>2, <3>1, <1>4 DEF Inv, Typed, TypedData
  <2> QED BY <2>1, <2>2
<1> QED BY <1>3, <1>4, <1>5, <1>6

\* The ranges of a point that could be set up.
LEMMA PointSettingsFit ==
    ASSUME Inv, pc = "set", PointUpdates
    PROVE  /\ PointSettings \in [Level -> RangeSettings]
           /\ \A i \in Level : /\ SetupOK(PointSettings[i]) /\ at[i] < Count(PointSettings[i])
                               /\ \E x \in Values : PointSettings[i] = sweeps[i].settings[x]
           /\ \A i \in Level : PointValue(PointSettings[i], at[i]) \in Int
<1>0. pc \in Looping /\ pc \in Approaching
  BY DEF Looping, Approaching
<1>1. CASE PointVariables = inForce
  <2>1. PointSettings = setting
    BY <1>1 DEF PointSettings
  <2>2. setting \in [Level -> RangeSettings] /\ at \in [Level -> Nat]
    BY <1>0 DEF Inv, Ranged
  <2>3. \A i \in Level : /\ SetupOK(setting[i]) /\ at[i] < Count(setting[i])
                         /\ \E x \in Values : setting[i] = sweeps[i].settings[x]
    BY <1>0 DEF Inv, Ranged
  <2>4. \A i \in Level : PointValue(setting[i], at[i]) \in Int
    BY <2>2, <2>3, ValueIsNumber
  <2> QED BY <2>1, <2>2, <2>3, <2>4
<1>2. CASE PointVariables # inForce
  <2>1. PointSettings = Updated(PointVariables)
    BY <1>2 DEF PointSettings
  <2>2. ASSUME NEW i \in Level
        PROVE  /\ PointSettings[i] \in RangeSettings
               /\ SetupOK(PointSettings[i]) /\ at[i] < Count(PointSettings[i])
               /\ \E x \in Values : PointSettings[i] = sweeps[i].settings[x]
               /\ PointValue(PointSettings[i], at[i]) \in Int
    <3>1. /\ setting[i] \in RangeSettings /\ at[i] \in Nat /\ at[i] < Count(setting[i])
          /\ \E x \in Values : setting[i] = sweeps[i].settings[x]
      BY <1>0 DEF Inv, Ranged
    <3>2. SetupOK(PointSettings[i])
      BY DEF PointUpdates
    <3>3. CASE i > advanced
      <4>1. PointSettings[i] = SettingsOf(i, PointVariables)
        BY <2>1, <3>3 DEF Updated
      <4>2. sweeps \in SweepLists /\ sweeps[i].on \in Variables
        BY ListFacts DEF Inv, Typed, TypedData
      <4>3. PointVariables[sweeps[i].on] \in Values
        BY <1>0, <4>2, PointVariablesFit
      <4>4. PointSettings[i] \in RangeSettings
        <5>1. \A v \in Variables : PointVariables[v] \in Values
          BY <1>0, PointVariablesFit
        <5> QED BY <4>1, <4>2, <5>1, SettingsType
      <4>5. at[i] = 0
        BY <1>0, <3>3 DEF Inv, Ordered
      <4>6. Count(PointSettings[i]) \in Nat \ {0}
        BY <3>2, <4>4, CountIsPositive
      <4>7. PointValue(PointSettings[i], at[i]) \in Int
        BY <3>2, <4>4, <4>5, <4>6, ValueIsNumber
      <4> QED BY <3>2, <4>1, <4>3, <4>4, <4>5, <4>6, <4>7 DEF SettingsOf
    <3>4. CASE ~(i > advanced)
      <4>1. PointSettings[i] = setting[i]
        BY <2>1, <3>4 DEF Updated
      <4>2. PointValue(setting[i], at[i]) \in Int
        BY <3>1, <3>2, <4>1, ValueIsNumber
      <4> QED BY <3>1, <3>2, <4>1, <4>2
    <3> QED BY <3>3, <3>4
  <2>3. PointSettings = [i \in Level |-> PointSettings[i]]
    BY <2>1 DEF Updated
  <2> HIDE DEF PointSettings
  <2> QED BY <2>2, <2>3
<1> QED BY <1>1, <1>2

\* What the circuit may hold once a point was begun to be written.
LEMMA PointParametersFit ==
    ASSUME Inv, pc = "set", PointUpdates, NEW lv, lv \subseteq ParameterLevels
    PROVE  /\ PointParameters(lv) \in [Targets -> Int]
           /\ \A t \in Targets : (\A i \in lv : sweeps[i].target # t) =>
                                     PointParameters(lv)[t] = PointVariables[t]
           /\ \A i \in lv : PointParameters(lv)[sweeps[i].target] =
                                PointValue(PointSettings[i], at[i])
           /\ \A v \in Variables : PointParameters(lv)[v] = PointVariables[v]
<1>1. pc \in Looping
  BY DEF Looping
<1>2. sweeps \in SweepLists /\ ParameterLevels \subseteq Level /\ lv \subseteq Level
  BY ListFacts DEF Inv, Typed, TypedData
<1>3. PointVariables \in [Targets -> Int]
  BY <1>1, PointVariablesFit
<1>4. \A i \in Level : SweptValues(PointSettings)[i] = PointValue(PointSettings[i], at[i])
  BY DEF SweptValues
<1>5. \A i \in lv : SweptValues(PointSettings)[i] \in Int
  BY <1>2, <1>4, PointSettingsFit
<1>6. PointParameters(lv) \in [Targets -> Int]
  BY <1>2, <1>3, <1>5, WrittenType DEF PointParameters
<1>7. ASSUME NEW t \in Targets, \A i \in lv : sweeps[i].target # t
      PROVE  PointParameters(lv)[t] = PointVariables[t]
  BY <1>7, WrittenElsewhere DEF PointParameters
<1>8. ASSUME NEW i \in lv
      PROVE  PointParameters(lv)[sweeps[i].target] = PointValue(PointSettings[i], at[i])
  <2>1. PointParameters(lv)[sweeps[i].target] = SweptValues(PointSettings)[i]
    BY <1>2, WrittenThere DEF PointParameters
  <2> QED BY <2>1, <1>2, <1>4
<1>9. ASSUME NEW v \in Variables
      PROVE  PointParameters(lv)[v] = PointVariables[v]
  <2>1. v \in Targets /\ v \notin Parameters
    BY SweepAssumption DEF Targets
  <2>2. \A i \in lv : sweeps[i].target # v
    BY <1>2, <2>1, ListFacts
  <2> QED BY <2>1, <2>2, <1>7
<1> QED BY <1>6, <1>7, <1>8, <1>9

-----------------------------------------------------------------------------
(* The invariant: a point                                                  *)

\* Targets of no level, and everything when there is no level, are not written.
LEMMA PointKeepsTheRest ==
    ASSUME Inv, pc = "set", NEW env \in [Targets -> Int],
           \A t \in Targets : (\A i \in Level : sweeps[i].target # t) => env[t] = inForce[t]
    PROVE  /\ \A t \in Targets : (\A i \in Level : sweeps[i].target # t) => env[t] = before[t]
           /\ ~preSweepValuesStored => env = before
<1>1. \A t \in Targets : (\A i \in Level : sweeps[i].target # t) => env[t] = before[t]
  BY DEF Inv, Kept
<1>2. ASSUME ~preSweepValuesStored
      PROVE  env = before
  <2>1. N = 0 /\ Level = {}
    <3>1. N \in Nat /\ Level = 1 .. N
      BY TypeFacts DEF Inv
    <3>2. ~(N > 0)
      BY <1>2 DEF Inv, Kept, Looping
    <3> QED BY <3>1, <3>2
  <2>2. \A t \in Targets : env[t] = before[t]
    BY <1>1, <2>1
  <2>3. before \in [Targets -> Int]
    BY DEF Inv, Typed, TypedData
  <2> QED BY <2>2, <2>3
<1> QED BY <1>1, <1>2

LEMMA CoreOfPoint ==
    ASSUME Inv, pc = "set", NEW needs \in BOOLEAN,
           IF ~outputsBound \/ needs THEN RebuildCore ELSE KeepCore
    PROVE  /\ outputsBound' = TRUE /\ system' \in Nat /\ allowBypass' \in BOOLEAN
           /\ coreStates' \in [Level -> CoreStates]
           /\ allowBypass' => N > 0 /\ at[N] > 0
           /\ \A i \in Level : /\ coreStates'[i].valid = coreStates[i].valid
                               /\ coreStates'[i].point = coreStates[i].point
                               /\ coreStates'[i].coherent =>
                                     coreStates'[i].system = system' /\ coreStates'[i].point \in computed
<1>1. coreStates \in [Level -> CoreStates] /\ system \in Nat /\ outputsBound \in BOOLEAN
  BY DEF Inv, Typed, TypedData
<1>2. CASE RebuildCore
  <2>1. outputsBound' = TRUE /\ system' = system + 1 /\ allowBypass' = FALSE
        /\ coreStates' = [i \in Level |-> [coreStates[i] EXCEPT !.coherent = FALSE]]
    BY <1>2 DEF RebuildCore
  <2>2. ASSUME NEW i \in Level
        PROVE  /\ coreStates'[i] \in CoreStates
               /\ coreStates'[i].valid = coreStates[i].valid
               /\ coreStates'[i].point = coreStates[i].point
               /\ coreStates'[i].coherent = FALSE
    BY <1>1, <2>1 DEF CoreStates
  <2>3. coreStates' \in [Level -> CoreStates]
    BY <2>1, <2>2
  <2>4. system' \in Nat
    BY <1>1, <2>1
  <2> QED BY <2>1, <2>2, <2>3, <2>4
<1>3. CASE ~RebuildCore
  <2>1. KeepCore /\ outputsBound
    BY <1>1, <1>3
  <2>2. UNCHANGED <<outputsBound, system, coreStates>>
        /\ allowBypass' = (N > 0 /\ at[N] > 0 /\ sweeps[N].continuation)
    BY <2>1 DEF KeepCore
  <2>3. allowBypass' \in BOOLEAN /\ (allowBypass' => N > 0 /\ at[N] > 0)
    <3>1. CASE N > 0 /\ at[N] > 0 /\ sweeps[N].continuation
      BY <2>2, <3>1
    <3>2. CASE ~(N > 0 /\ at[N] > 0 /\ sweeps[N].continuation)
      BY <2>2, <3>2
    <3> QED BY <3>1, <3>2
  <2>4. \A i \in Level : coreStates[i].coherent =>
            coreStates[i].system = system /\ coreStates[i].point \in computed
    BY <2>1 DEF Inv, Stored, Looping
  <2>5. outputsBound' = TRUE /\ system' \in Nat /\ coreStates' \in [Level -> CoreStates]
    BY <1>1, <2>1, <2>2
  <2> QED BY <2>2, <2>3, <2>4, <2>5
<1> QED BY <1>2, <1>3

LEMMA SetPointKeepsInv ==
    ASSUME Inv, NEW needs \in BOOLEAN, SetPoint(needs), Behind
    PROVE  Inv'
<1>1. /\ pc = "set" /\ turn = "coroutine" /\ PointUpdates
      /\ inForce' = PointParameters(ParameterLevels) /\ setting' = PointSettings
      /\ pointMarker' = wantMarker
      /\ IF ~outputsBound \/ needs THEN RebuildCore ELSE KeepCore
      /\ Continue("run")
      /\ UNCHANGED <<sweeps, wantMarker, originalMarker, at, bound, storedValues>>
      /\ UNCHANGED <<preSweepValuesStored, advanced, haveStoredState, solution, origin>>
      /\ UNCHANGED <<computed, stops, before>>
  BY DEF SetPoint, Running, historyVars, Behind
<1>2. /\ N' = N /\ Level' = Level /\ VariableLevels' = VariableLevels
      /\ N \in Nat /\ sweeps \in SweepLists /\ VariableLevels \subseteq Level
      /\ ParameterLevels \subseteq Level
  BY <1>1, ListStays, TypeFacts, ListFacts DEF Inv, Typed, TypedData
<1>3. /\ Told' /\ turn' = turn /\ full' = full /\ value' = value /\ pc' = "run"
      /\ unseen' = "none"
  BY <1>1, ContinueIsTold DEF Labels
<1>4. /\ inForce' \in [Targets -> Int]
      /\ \A v \in Variables : inForce'[v] \in Values
      /\ \A t \in Targets : (\A i \in Level : sweeps[i].target # t) => inForce'[t] = inForce[t]
  <2>1. /\ inForce' \in [Targets -> Int]
        /\ \A t \in Targets : (\A i \in ParameterLevels : sweeps[i].target # t) =>
                                  inForce'[t] = PointVariables[t]
        /\ \A v \in Variables : inForce'[v] = PointVariables[v]
    BY <1>1, PointParametersFit
  <2>2. /\ \A v \in Variables : PointVariables[v] \in Values
        /\ \A t \in Targets : (\A i \in VariableLevels : sweeps[i].target # t) =>
                                  PointVariables[t] = inForce[t]
    BY <1>1, PointVariablesFit DEF Looping
  <2> QED BY <1>2, <2>1, <2>2
<1>5. /\ outputsBound' = TRUE /\ system' \in Nat /\ allowBypass' \in BOOLEAN
      /\ coreStates' \in [Level -> CoreStates]
      /\ allowBypass' => N > 0 /\ at[N] > 0
      /\ \A i \in Level : /\ coreStates'[i].valid = coreStates[i].valid
                          /\ coreStates'[i].point = coreStates[i].point
                          /\ coreStates'[i].coherent =>
                                coreStates'[i].system = system' /\ coreStates'[i].point \in computed
  BY <1>1, CoreOfPoint
<1>6. Typed'
  <2>1. TypedData'
    BY <1>1, <1>2, <1>4, <1>5 DEF Inv, Typed, TypedData
  <2>2. TypedControl'
    BY <1>1, <1>3 DEF Inv, Typed, TypedControl, Labels, Behind
  <2> QED BY <2>1, <2>2 DEF Typed
<1>7. Ranged'
  <2>1. at \in [Level -> Nat]
    BY <1>1 DEF Inv, Ranged, Looping
  <2>2. /\ setting' \in [Level -> RangeSettings]
        /\ \A i \in Level : /\ SetupOK(setting'[i]) /\ at[i] < Count(setting'[i])
                            /\ \E x \in Values : setting'[i] = sweeps[i].settings[x]
    BY <1>1, PointSettingsFit
  <2> QED BY <1>1, <1>2, <2>1, <2>2 DEF Ranged
<1>8. Kept'
  <2>1. RestoresOriginals'
    BY <1>3 DEF RestoresOriginals
  <2>2. /\ \A t \in Targets : (\A i \in Level : sweeps[i].target # t) => inForce'[t] = before[t]
        /\ ~preSweepValuesStored => inForce' = before
    BY <1>1, <1>4, PointKeepsTheRest
  <2>3. \A i : SettingsOf(i, before)' = SettingsOf(i, before)
    BY <1>1 DEF SettingsOf
  <2>4. pc \in Looping
    BY <1>1 DEF Looping
  <2> QED BY <1>1, <1>2, <1>3, <2>1, <2>2, <2>3, <2>4 DEF Inv, Kept, Looping
<1>9. Ordered'
  BY <1>1, <1>2, <1>3 DEF Inv, Ordered, Approaching
<1>10. Stored'
  BY <1>1, <1>2, <1>3, <1>5 DEF Inv, Stored, Approaching, Looping
<1> QED BY <1>3, <1>6, <1>7, <1>8, <1>9, <1>10 DEF Inv

\* Elaboration fails, or a level no longer finds its target.
LEMMA PointFailsKeepsInv ==
    ASSUME Inv, SetPointFails \/ RebindFails, Behind
    PROVE  Inv'
<1>1. /\ pc = "set" /\ turn = "coroutine"
      /\ \/ inForce' = PointVariables
         \/ PointUpdates /\ \E lv : lv \subseteq ParameterLevels /\ inForce' = PointParameters(lv)
      /\ pointMarker' \in {pointMarker, wantMarker} /\ bound' \in 0 .. N
      /\ Yield("Aborted", "broken")
      /\ UNCHANGED <<sweeps, wantMarker, originalMarker, at, storedValues>>
      /\ UNCHANGED <<preSweepValuesStored, advanced, coreVars, computed, stops, before>>
  <2>1. N \in Nat /\ bound \in 0 .. N
    BY TypeFacts DEF Inv, Typed, TypedData
  <2>2. CASE SetPointFails
    <3>1. \A k : {i \in ParameterLevels : i <= k} \subseteq ParameterLevels
      OBVIOUS
    <3> QED BY <2>1, <2>2, <3>1 DEF SetPointFails, Running, historyVars, Behind
  <2>3. CASE RebindFails
    BY <2>1, <2>3 DEF RebindFails, Running, historyVars, Behind
  <2> QED BY <2>2, <2>3
<1>2. /\ N' = N /\ Level' = Level /\ VariableLevels' = VariableLevels
      /\ N \in Nat /\ sweeps \in SweepLists /\ VariableLevels \subseteq Level
      /\ ParameterLevels \subseteq Level
  BY <1>1, ListStays, TypeFacts, ListFacts DEF Inv, Typed, TypedData
<1>3. /\ Told' /\ turn' = "caller" /\ full' = TRUE /\ pc' = "broken" /\ value' = "Aborted"
      /\ unseen' \in Yields
  BY <1>1, YieldIsTold DEF Yields, Labels
<1>4. /\ inForce' \in [Targets -> Int]
      /\ \A v \in Variables : inForce'[v] \in Values
      /\ \A t \in Targets : (\A i \in Level : sweeps[i].target # t) => inForce'[t] = inForce[t]
  <2>1. /\ PointVariables \in [Targets -> Int]
        /\ \A v \in Variables : PointVariables[v] \in Values
        /\ \A t \in Targets : (\A i \in VariableLevels : sweeps[i].target # t) =>
                                  PointVariables[t] = inForce[t]
    BY <1>1, PointVariablesFit DEF Looping
  <2>2. CASE inForce' = PointVariables
    BY <1>2, <2>1, <2>2
  <2>3. CASE PointUpdates /\ \E lv : lv \subseteq ParameterLevels /\ inForce' = PointParameters(lv)
    <3>1. PICK lv : lv \subseteq ParameterLevels /\ inForce' = PointParameters(lv)
      BY <2>3
    <3>2. /\ inForce' \in [Targets -> Int]
          /\ \A t \in Targets : (\A i \in lv : sweeps[i].target # t) =>
                                    inForce'[t] = PointVariables[t]
          /\ \A v \in Variables : inForce'[v] = PointVariables[v]
      BY <1>1, <2>3, <3>1, PointParametersFit
    <3> QED BY <1>2, <2>1, <3>1, <3>2
  <2> QED BY <1>1, <2>2, <2>3
<1>5. Typed'
  <2>1. pointMarker' \in BOOLEAN
    BY <1>1 DEF Inv, Typed, TypedData
  <2>2. TypedData'
    BY <1>1, <1>2, <1>4, <2>1 DEF Inv, Typed, TypedData, coreVars
  <2>3. TypedControl'
    BY <1>1, <1>3 DEF Inv, Typed, TypedControl, Labels, Behind
  <2> QED BY <2>2, <2>3 DEF Typed
<1>6. Ranged' /\ Ordered'
  BY <1>3 DEF Ranged, Ordered, Looping, Approaching
<1>7. Kept'
  <2>1. RestoresOriginals'
    BY <1>3 DEF RestoresOriginals
  <2>2. /\ \A t \in Targets : (\A i \in Level : sweeps[i].target # t) => inForce'[t] = before[t]
        /\ ~preSweepValuesStored => inForce' = before
    BY <1>1, <1>4, PointKeepsTheRest
  <2>3. \A i : SettingsOf(i, before)' = SettingsOf(i, before)
    BY <1>1 DEF SettingsOf
  <2> QED BY <1>1, <1>2, <1>3, <2>1, <2>2, <2>3 DEF Inv, Kept, Looping
<1>8. Stored'
  BY <1>1, <1>2, <1>3 DEF Inv, Stored, Approaching, Looping, coreVars
<1> QED BY <1>3, <1>5, <1>6, <1>7, <1>8 DEF Inv

LEMMA StartCoreKeepsInv ==
    ASSUME Inv, StartCore, Behind
    PROVE  Inv'
<1>1. /\ pc = "run" /\ turn = "coroutine" /\ origin' = StartingPoint /\ stops' = 0
      /\ Continue("core")
      /\ UNCHANGED <<circuitVars, sweeperVars, computed, before>>
      /\ UNCHANGED <<haveStoredState, outputsBound, coreStates, solution, system, allowBypass>>
  BY DEF StartCore, StartingPoint, Running, Behind
<1>2. N' = N /\ Level' = Level /\ VariableLevels' = VariableLevels
  BY <1>1, ListStays DEF circuitVars
<1>3. /\ Told' /\ turn' = turn /\ full' = full /\ value' = value /\ pc' = "core"
      /\ unseen' = "none"
  BY <1>1, ContinueIsTold DEF Labels
<1>4. StartingPoint' = StartingPoint
  BY <1>1, <1>2 DEF StartingPoint, sweeperVars
<1>5. Typed'
  <2>1. origin'.mode \in {"none", "standard", "continue", "forced"}
    BY <1>1 DEF StartingPoint, NoOrigin
  <2>2. TypedData'
    BY <1>1, <1>2, <2>1 DEF Inv, Typed, TypedData, circuitVars, sweeperVars
  <2>3. TypedControl'
    BY <1>1, <1>3 DEF Inv, Typed, TypedControl, Labels, Behind
  <2> QED BY <2>2, <2>3 DEF Typed
<1>6. Ranged'
  BY <1>1, <1>2, <1>3 DEF Inv, Ranged, Looping, circuitVars, sweeperVars
<1>7. Kept'
  <2>1. RestoresOriginals'
    BY <1>3 DEF RestoresOriginals
  <2>2. \A i : SettingsOf(i, before)' = SettingsOf(i, before)
    BY <1>1 DEF SettingsOf, circuitVars
  <2> QED BY <1>1, <1>2, <1>3, <2>1, <2>2 DEF Inv, Kept, Looping, circuitVars, sweeperVars
<1>8. Ordered'
  BY <1>1, <1>2, <1>3 DEF Inv, Ordered, Approaching, sweeperVars
<1>9. Stored'
  BY <1>1, <1>2, <1>3, <1>4 DEF Inv, Stored, Approaching, Looping, circuitVars, sweeperVars
<1> QED BY <1>3, <1>5, <1>6, <1>7, <1>8, <1>9 DEF Inv

LEMMA CoreFinishesKeepsInv ==
    ASSUME Inv, CoreFinishes, Behind
    PROVE  Inv'
<1>1. /\ pc = "core" /\ turn = "coroutine"
      /\ solution' = at /\ computed' = computed \cup {at}
      /\ IF N = 0 THEN Yield("Finished", "end") ELSE Continue("advance")
      /\ UNCHANGED <<circuitVars, sweeperVars, stops, before>>
      /\ UNCHANGED <<haveStoredState, outputsBound, coreStates, system, allowBypass, origin>>
  BY DEF CoreFinishes, Running, Behind
<1>2. /\ N' = N /\ Level' = Level /\ VariableLevels' = VariableLevels
      /\ N \in Nat /\ Level = 1 .. N
  BY <1>1, ListStays, TypeFacts DEF circuitVars, Inv
<1>3. /\ Told' /\ turn' \in {"caller", "coroutine"} /\ full' \in BOOLEAN
      /\ pc' = IF N = 0 THEN "end" ELSE "advance"
      /\ value' \in Yields \cup {"none", Uninitialised} /\ unseen' \in Yields \cup {"none"}
  <2>1. CASE N = 0
    BY <1>1, <2>1, YieldIsTold DEF Yields, Labels
  <2>2. CASE N # 0
    BY <1>1, <2>2, ContinueIsTold DEF Labels, Inv, Typed, TypedControl
  <2> QED BY <2>1, <2>2
<1>4. at \in [Level -> Nat] /\ at \in Seq(Nat)
  <2>1. at \in [Level -> Nat]
    BY <1>1 DEF Inv, Ranged, Looping
  <2>2. at \in [1 .. N -> Nat]
    BY <1>2, <2>1
  <2> QED BY <1>2, <2>1, <2>2
<1>5. Typed'
  <2>1. TypedData'
    BY <1>1, <1>2, <1>4 DEF Inv, Typed, TypedData, circuitVars, sweeperVars
  <2>2. TypedControl'
    BY <1>1, <1>3 DEF Inv, Typed, TypedControl, Labels, Behind
  <2> QED BY <2>1, <2>2 DEF Typed
<1>6. Ranged'
  BY <1>1, <1>2, <1>3 DEF Inv, Ranged, Looping, circuitVars, sweeperVars
<1>7. Kept'
  <2>1. RestoresOriginals'
    BY <1>3 DEF RestoresOriginals
  <2>2. \A i : SettingsOf(i, before)' = SettingsOf(i, before)
    BY <1>1 DEF SettingsOf, circuitVars
  <2> QED BY <1>1, <1>2, <1>3, <2>1, <2>2 DEF Inv, Kept, Looping, circuitVars, sweeperVars
<1>8. Ordered'
  <2>1. \A q \in computed : Before(q, at)
    BY <1>1 DEF Inv, Ordered, Approaching
  <2>2. at' = at
    BY <1>1 DEF sweeperVars
  <2> QED BY <1>1, <1>2, <1>3, <2>1, <2>2 DEF Ordered, Approaching
<1>9. Stored'
  BY <1>1, <1>2, <1>3 DEF Inv, Stored, Approaching, Looping, circuitVars, sweeperVars
<1> QED BY <1>3, <1>5, <1>6, <1>7, <1>8, <1>9 DEF Inv

\* The level that advances.
LEMMA InnermostIs ==
    ASSUME Inv, MayAdvance # {}
    PROVE  /\ Innermost \in Level /\ HasNext(Innermost)
           /\ \A i \in Level : HasNext(i) => i <= Innermost
<1>1. N \in Nat /\ Level = 1 .. N
  BY TypeFacts DEF Inv
<1>2. MayAdvance \subseteq 1 .. N
  BY <1>1 DEF MayAdvance
<1>3. Max(MayAdvance) \in MayAdvance /\ \A y \in MayAdvance : Max(MayAdvance) >= y
  BY <1>1, <1>2, GreatestExists
<1>4. \A i \in Level : i \in MayAdvance <=> HasNext(i)
  BY DEF MayAdvance
<1>5. Innermost = Max(MayAdvance)
  BY DEF Innermost
<1>6. Innermost \in Level /\ HasNext(Innermost)
  BY <1>3, <1>5 DEF MayAdvance
<1>7. ASSUME NEW i \in Level, HasNext(i)
      PROVE  i <= Innermost
  <2>1. Innermost >= i
    BY <1>3, <1>4, <1>5, <1>7
  <2> QED BY <2>1, <1>1, <1>6
<1> QED BY <1>6, <1>7

\* The point after the present one.
NextAt == [i \in Level |-> IF i < Innermost THEN at[i]
                           ELSE IF i = Innermost THEN at[i] + 1 ELSE 0]

LEMMA NextAtFollows ==
    ASSUME Inv, pc = "advance", MayAdvance # {}
    PROVE  /\ NextAt \in [Level -> Nat] /\ Before(at, NextAt)
           /\ \A i \in Level : NextAt[i] < Count(setting[i])
           /\ \A q \in computed : Before(q, NextAt)
<1>1. /\ N \in Nat /\ Level = 1 .. N
      /\ Innermost \in Level /\ HasNext(Innermost)
  BY TypeFacts, InnermostIs DEF Inv
<1>2. /\ at \in [Level -> Nat] /\ setting \in [Level -> RangeSettings]
      /\ \A i \in Level : SetupOK(setting[i]) /\ at[i] < Count(setting[i])
  BY DEF Inv, Ranged, Looping
<1>3. NextAt \in [Level -> Nat]
  BY <1>1, <1>2 DEF NextAt
<1>4. Before(at, NextAt)
  <2>1. at[Innermost] < NextAt[Innermost]
    BY <1>1, <1>2 DEF NextAt
  <2>2. \A j \in 1 .. Innermost - 1 : at[j] = NextAt[j]
    BY <1>1 DEF NextAt
  <2>3. DOMAIN at = Level
    BY <1>2
  <2> QED BY <1>1, <2>1, <2>2, <2>3 DEF Before, Enumeration!Precedes
<1>5. ASSUME NEW i \in Level
      PROVE  NextAt[i] < Count(setting[i])
  <2>1. Count(setting[i]) \in Nat \ {0}
    BY <1>2, CountIsPositive
  <2> QED BY <1>1, <1>2, <2>1 DEF NextAt, HasNext
<1>6. ASSUME NEW q \in computed
      PROVE  Before(q, NextAt)
  <2>1. q = at \/ Before(q, at)
    BY DEF Inv, Ordered
  <2>2. q \in [1 .. N -> Nat] /\ at \in [1 .. N -> Nat] /\ NextAt \in [1 .. N -> Nat]
    BY <1>1, <1>2, <1>3 DEF Inv, Typed, TypedData
  <2>3. CASE Before(q, at)
    BY <1>1, <1>4, <2>2, <2>3, BeforeIsTransitive
  <2> QED BY <1>4, <2>1, <2>3
<1> QED BY <1>3, <1>4, <1>5, <1>6

LEMMA AdvanceKeepsInv ==
    ASSUME Inv, Advance, Behind
    PROVE  Inv'
<1>1. /\ pc = "advance" /\ turn = "coroutine" /\ MayAdvance # {}
      /\ at' = NextAt /\ advanced' = Innermost
      /\ coreStates' = [i \in Level |->
            IF KeepsSolution(i)
            THEN [valid |-> TRUE, coherent |-> TRUE, point |-> solution, system |-> system]
            ELSE coreStates[i]]
      /\ haveStoredState' = TRUE
      /\ Continue("point")
      /\ UNCHANGED <<circuitVars, computed, stops, before, setting, bound, storedValues>>
      /\ UNCHANGED <<preSweepValuesStored, outputsBound, solution, system, allowBypass, origin>>
  BY DEF Advance, NextAt, Running, historyVars, Behind
<1>2. /\ N' = N /\ Level' = Level /\ VariableLevels' = VariableLevels
      /\ N \in Nat /\ Level = 1 .. N /\ sweeps' = sweeps
  BY <1>1, ListStays, TypeFacts DEF circuitVars, Inv
<1>3. /\ Told' /\ turn' = turn /\ full' = full /\ value' = value /\ pc' = "point"
      /\ unseen' = "none"
  BY <1>1, ContinueIsTold DEF Labels
<1>4. /\ NextAt \in [Level -> Nat] /\ Before(at, NextAt)
      /\ \A i \in Level : NextAt[i] < Count(setting[i])
      /\ \A q \in computed : Before(q, NextAt)
  BY <1>1, NextAtFollows
<1>5. /\ Innermost \in Level
      /\ \A i \in Level : HasNext(i) => i <= Innermost
  BY <1>1, InnermostIs
<1>6. /\ solution = at /\ at \in computed
      /\ \A q \in computed : q = at \/ Before(q, at)
  BY <1>1 DEF Inv, Ordered, Approaching
<1>7. ASSUME NEW i \in Level
      PROVE  /\ coreStates'[i] \in CoreStates
             /\ coreStates'[i].valid => sweeps[i].continuation
             /\ i >= Innermost /\ sweeps[i].continuation =>
                   coreStates'[i].valid /\ coreStates'[i].point = solution
             /\ outputsBound /\ coreStates'[i].coherent =>
                   coreStates'[i].system = system /\ coreStates'[i].point \in computed
  <2>1. solution \in Seq(Nat) /\ system \in Nat /\ coreStates[i] \in CoreStates
    BY DEF Inv, Typed, TypedData
  <2>2. CASE KeepsSolution(i)
    <3>1. coreStates'[i] = [valid |-> TRUE, coherent |-> TRUE, point |-> solution, system |-> system]
      BY <1>1, <2>2
    <3>2. sweeps[i].continuation
      BY <2>2 DEF KeepsSolution
    <3> QED BY <1>6, <2>1, <3>1, <3>2 DEF CoreStates
  <2>3. CASE ~KeepsSolution(i)
    <3>1. coreStates'[i] = coreStates[i]
      BY <1>1, <2>3
    <3>2. ~(i >= Innermost /\ sweeps[i].continuation)
      BY <2>3 DEF KeepsSolution
    <3>3. /\ coreStates[i].valid => sweeps[i].continuation
          /\ outputsBound /\ coreStates[i].coherent =>
                coreStates[i].system = system /\ coreStates[i].point \in computed
      BY <1>1 DEF Inv, Stored, Looping
    <3> QED BY <2>1, <3>1, <3>2, <3>3
  <2> QED BY <2>2, <2>3
<1>8. Typed'
  <2>1. coreStates' \in [Level -> CoreStates]
    BY <1>1, <1>7
  <2>2. Innermost \in Nat /\ Innermost >= 1 /\ Innermost <= N
    BY <1>2, <1>5
  <2>3. TypedData'
    <3>1. advanced' \in Nat /\ advanced' >= 1 /\ ~(advanced' > N)
      BY <1>1, <1>2, <2>2
    <3>2. UNCHANGED <<sweeps, inForce, before, pointMarker, wantMarker, originalMarker, bound,
                      preSweepValuesStored, outputsBound, solution, system, allowBypass,
                      origin, computed>> /\ haveStoredState' = TRUE
      BY <1>1 DEF circuitVars
    <3> QED BY <1>2, <2>1, <3>1, <3>2 DEF Inv, Typed, TypedData
  <2>4. TypedControl'
    BY <1>1, <1>3 DEF Inv, Typed, TypedControl, Labels, Behind
  <2> QED BY <2>3, <2>4 DEF Typed
<1>9. Ranged'
  <2>1. /\ setting \in [Level -> RangeSettings]
        /\ \A i \in Level : /\ SetupOK(setting[i])
                            /\ \E x \in Values : setting[i] = sweeps[i].settings[x]
    BY <1>1 DEF Inv, Ranged, Looping
  <2> QED BY <1>1, <1>2, <1>4, <2>1 DEF Ranged, circuitVars
<1>10. Kept'
  <2>1. RestoresOriginals'
    BY <1>3 DEF RestoresOriginals
  <2>2. \A i : SettingsOf(i, before)' = SettingsOf(i, before)
    BY <1>1 DEF SettingsOf, circuitVars
  <2> QED BY <1>1, <1>2, <1>3, <2>1, <2>2 DEF Inv, Kept, Looping, circuitVars
<1>11. Ordered'
  <2>1. \A i \in Level : i > Innermost => NextAt[i] = 0
    BY <1>2, <1>5 DEF NextAt
  <2>2. \A i \in Level : i < Innermost => NextAt[i] = at[i]
    BY <1>2, <1>5 DEF NextAt
  <2> QED BY <1>1, <1>2, <1>3, <1>4, <1>6, <2>1, <2>2 DEF Ordered, Approaching
<1>12. Stored'
  BY <1>1, <1>2, <1>3, <1>7 DEF Stored, Approaching, Looping
<1> QED BY <1>3, <1>8, <1>9, <1>10, <1>11, <1>12 DEF Inv

-----------------------------------------------------------------------------
(* The invariant: finish()                                                 *)

\* The variables are those of before; where every level is bound the ranges can be
\* set up again, as they were when the run began, and all is written.
LEMMA RestoreFacts ==
    ASSUME Inv, preSweepValuesStored
    PROVE  /\ RestoredVariables \in [Targets -> Int]
           /\ \A v \in Variables : RestoredVariables[v] = before[v]
           /\ \A t \in Targets : (\A i \in VariableLevels : sweeps[i].target # t) =>
                                     RestoredVariables[t] = inForce[t]
           /\ RestoredParameters \in [Targets -> Int]
           /\ \A v \in Variables : RestoredParameters[v] = before[v]
           /\ \A t \in Targets : (\A i \in Level : sweeps[i].target # t) =>
                                     RestoredParameters[t] = before[t]
           /\ bound = N => RestoredParameters = before
           /\ RestoredVariables = inForce \/ RestoreUpdates
<1>1. /\ sweeps \in SweepLists /\ N \in Nat /\ Level = 1 .. N
      /\ VariableLevels \subseteq Level /\ ParameterLevels \subseteq Level
      /\ \A i \in Level : i \in VariableLevels <=> sweeps[i].target \in Variables
      /\ \A i \in Level : i \in ParameterLevels <=> sweeps[i].target \in Parameters
  BY ListFacts DEF Inv, Typed, TypedData
<1>1a. sweeps \in SweepLists
  BY <1>1
<1>1b. VariableLevels \subseteq Level
  BY <1>1
<1>2. /\ inForce \in [Targets -> Int] /\ before \in [Targets -> Int]
      /\ storedValues \in [Level -> Int]
      /\ \A i \in Level : storedValues[i] = before[sweeps[i].target]
      /\ \A i \in Level : SetupOK(SettingsOf(i, before))
      /\ \A t \in Targets : (\A i \in Level : sweeps[i].target # t) => inForce[t] = before[t]
  BY DEF Inv, Kept, Typed, TypedData
<1>3. RestoredVariables \in [Targets -> Int]
  <2>1. \A i \in VariableLevels : storedValues[i] \in Int
    BY <1>1, <1>2
  <2> QED BY <1>1, <1>2, <2>1, WrittenType DEF RestoredVariables
<1>4. ASSUME NEW t \in Targets, \A i \in VariableLevels : sweeps[i].target # t
      PROVE  RestoredVariables[t] = inForce[t]
  BY <1>4, WrittenElsewhere DEF RestoredVariables
<1>5. ASSUME NEW v \in Variables
      PROVE  RestoredVariables[v] = before[v]
  <2>0. v \in Targets
    BY DEF Targets
  <2>1. CASE \E i \in VariableLevels : sweeps[i].target = v
    <3>1. PICK i \in VariableLevels : sweeps[i].target = v
      BY <2>1
    <3>2. Written(inForce, VariableLevels, storedValues)[sweeps[i].target] = storedValues[i]
      BY <1>1a, <1>1b, <3>1, WrittenThere
    <3>3. RestoredVariables[sweeps[i].target] = storedValues[i]
      BY <3>2 DEF RestoredVariables
    <3> QED BY <1>1, <1>2, <3>1, <3>3
  <2>2. CASE \A i \in VariableLevels : sweeps[i].target # v
    <3>1. \A i \in Level : sweeps[i].target # v
      BY <1>1, <2>2
    <3> QED BY <1>2, <1>4, <2>0, <2>2, <3>1
  <2> QED BY <2>1, <2>2
<1> DEFINE lv == {i \in ParameterLevels : i <= bound}
<1>6. lv \subseteq ParameterLevels /\ lv \subseteq Level
  BY <1>1
<1>7. RestoredParameters = Written(RestoredVariables, lv, storedValues)
  BY DEF RestoredParameters
<1>8. bound = N => lv = ParameterLevels
  <2>1. \A i \in ParameterLevels : i \in 1 .. N
    BY <1>1
  <2>2. \A i \in ParameterLevels : i <= N
    BY <1>1, <2>1
  <2> QED BY <2>2
<1> HIDE DEF lv
<1>9. RestoredParameters \in [Targets -> Int]
  <2>1. \A i \in lv : storedValues[i] \in Int
    BY <1>2, <1>6
  <2> QED BY <1>1, <1>3, <1>6, <1>7, <2>1, WrittenType
<1>10. ASSUME NEW t \in Targets, \A i \in lv : sweeps[i].target # t
       PROVE  RestoredParameters[t] = RestoredVariables[t]
  BY <1>7, <1>10, WrittenElsewhere
<1>11. ASSUME NEW v \in Variables
       PROVE  RestoredParameters[v] = before[v]
  <2>1. v \in Targets /\ v \notin Parameters
    BY SweepAssumption DEF Targets
  <2>2. \A i \in lv : sweeps[i].target # v
    BY <1>1, <1>6, <2>1
  <2> QED BY <1>5, <1>10, <2>1, <2>2
<1>12. ASSUME NEW t \in Targets, \A i \in Level : sweeps[i].target # t
       PROVE  RestoredParameters[t] = before[t]
  <2>1. RestoredParameters[t] = RestoredVariables[t]
    BY <1>6, <1>10, <1>12
  <2>2. RestoredVariables[t] = inForce[t]
    BY <1>1, <1>4, <1>12
  <2> QED BY <1>2, <1>12, <2>1, <2>2
<1>13. ASSUME bound = N
       PROVE  RestoredParameters = before
  <2>1. ASSUME NEW t \in Targets
        PROVE  RestoredParameters[t] = before[t]
    <3>1. CASE t \in Variables
      BY <1>11, <3>1
    <3>2. CASE \E i \in ParameterLevels : sweeps[i].target = t
      <4>1. PICK i \in lv : sweeps[i].target = t
        BY <1>8, <1>13, <3>2
      <4>2. RestoredParameters[sweeps[i].target] = storedValues[i]
        <5>1. Written(RestoredVariables, lv, storedValues)[sweeps[i].target] = storedValues[i]
          BY <1>1a, <1>6, <4>1, WrittenThere
        <5> QED BY <1>7, <5>1
      <4> QED BY <1>2, <1>6, <4>1, <4>2
    <3>3. CASE t \notin Variables /\ \A i \in ParameterLevels : sweeps[i].target # t
      <4>1. t \in Parameters
        BY <3>3 DEF Targets
      <4>2. \A i \in Level : sweeps[i].target # t
        BY <1>1, <3>3, <4>1
      <4> QED BY <1>12, <4>2
    <3> QED BY <3>1, <3>2, <3>3
  <2> QED BY <1>2, <1>9, <2>1
<1>14. ASSUME RestoredVariables # inForce
       PROVE  RestoreUpdates
  <2>1. ASSUME NEW i \in Level, i > advanced
        PROVE  SetupOK(RestoredSettings[i])
    <3>1. RestoredSettings[i] = SettingsOf(i, RestoredVariables)
      BY <1>14, <2>1 DEF RestoredSettings, Updated
    <3>2. sweeps[i].on \in Variables
      BY <1>1, ListFacts
    <3>3. SettingsOf(i, RestoredVariables) = SettingsOf(i, before)
      BY <1>5, <3>2 DEF SettingsOf
    <3> QED BY <1>2, <3>1, <3>3
  <2> QED BY <2>1 DEF RestoreUpdates
<1> QED BY <1>3, <1>4, <1>5, <1>9, <1>11, <1>12, <1>13, <1>14

LEMMA FinishKeepsInv ==
    ASSUME Inv, Finish
    PROVE  Inv'
<1>1. /\ pc # "none" /\ pc' = "none" /\ turn = "caller"
      /\ IF preSweepValuesStored THEN Restore ELSE UNCHANGED <<inForce, setting, pointMarker>>
      /\ UNCHANGED <<sweeps, wantMarker, originalMarker, at, bound, storedValues>>
      /\ UNCHANGED <<preSweepValuesStored, advanced, coreVars, computed, stops>>
      /\ UNCHANGED <<turn, full, value, starts, call, lastCoroutineState, unseen, before>>
  BY DEF Finish, Idle, isValid, historyVars, clientVars
<1>2. /\ N' = N /\ Level' = Level /\ VariableLevels' = VariableLevels
      /\ N \in Nat /\ sweeps \in SweepLists /\ VariableLevels \subseteq Level
      /\ \A i \in Level : i \in VariableLevels <=> sweeps[i].target \in Variables
  BY <1>1, ListStays, TypeFacts, ListFacts DEF Inv, Typed, TypedData
<1>3. /\ before \in [Targets -> Int] /\ \A v \in Variables : before[v] = Original[v]
      /\ \A v \in Variables : Original[v] \in Values
  BY SweepAssumption DEF Inv, Kept, Typed, TypedData
<1>4. /\ inForce' \in [Targets -> Int] /\ pointMarker' \in BOOLEAN
      /\ \A v \in Variables : inForce'[v] = before[v]
      /\ \A t \in Targets : (\A i \in Level : sweeps[i].target # t) => inForce'[t] = before[t]
      /\ preSweepValuesStored /\ bound = N => inForce' = before /\ pointMarker' = originalMarker
      /\ ~preSweepValuesStored => inForce' = before
  <2>1. CASE preSweepValuesStored
    <3>1. inForce' = RestoredParameters /\ pointMarker' = originalMarker
      BY <1>1, <2>1, RestoreFacts DEF Restore
    <3>2. /\ RestoredParameters \in [Targets -> Int]
          /\ \A v \in Variables : RestoredParameters[v] = before[v]
          /\ \A t \in Targets : (\A i \in Level : sweeps[i].target # t) =>
                                    RestoredParameters[t] = before[t]
          /\ bound = N => RestoredParameters = before
      BY <2>1, RestoreFacts
    <3>3. originalMarker \in BOOLEAN
      BY DEF Inv, Typed, TypedData
    <3> QED BY <2>1, <3>1, <3>2, <3>3
  <2>2. CASE ~preSweepValuesStored
    <3>1. inForce' = inForce /\ inForce = before /\ pointMarker' = pointMarker
      BY <1>1, <2>2 DEF Inv, Kept
    <3> QED BY <1>3, <2>2, <3>1 DEF Inv, Typed, TypedData
  <2> QED BY <2>1, <2>2
<1>5. Typed'
  <2>1. TypedData'
    BY <1>1, <1>2, <1>3, <1>4 DEF Inv, Typed, TypedData, coreVars
  <2>2. TypedControl'
    BY <1>1 DEF Inv, Typed, TypedControl, Labels
  <2> QED BY <2>1, <2>2 DEF Typed
<1>6. Ranged' /\ Ordered'
  BY <1>1 DEF Ranged, Ordered, Looping, Approaching
<1>7. Kept'
  <2>1. RestoresOriginals'
    BY <1>1, <1>2, <1>4 DEF RestoresOriginals
  <2>2. \A i : SettingsOf(i, before)' = SettingsOf(i, before)
    BY <1>1 DEF SettingsOf
  <2> QED BY <1>1, <1>2, <1>3, <1>4, <2>1, <2>2 DEF Inv, Kept, Looping
<1>8. Stored'
  BY <1>1, <1>2 DEF Inv, Stored, Approaching, Looping, coreVars
<1>9. Told'
  BY <1>1 DEF Inv, Told, isValid
<1> QED BY <1>5, <1>6, <1>7, <1>8, <1>9 DEF Inv

LEMMA StutterKeepsInv ==
    ASSUME Inv, UNCHANGED vars
    PROVE  Inv'
<1>1. /\ UNCHANGED dataVars
      /\ UNCHANGED <<stops, pc, turn, full, value, starts, call, lastCoroutineState, unseen>>
  BY DEF vars, dataVars, historyVars, generatorVars, clientVars
<1>2. Told'
  BY <1>1 DEF Inv, Told, isValid
<1>3. Ranged' /\ Kept' /\ Ordered' /\ Stored'
  BY <1>1, MoveKeeps DEF Moves
<1>4. Typed'
  BY <1>1, TypedStays DEF Inv, Typed, TypedControl
<1> QED BY <1>2, <1>3, <1>4 DEF Inv

\* A step of the coroutine.
LEMMA FillKeepsInv ==
    ASSUME Inv, Fill
    PROVE  Inv'
<1>1. Behind
  BY DEF Fill, Behind
<1>2. CASE SetupFails
  BY <1>1, <1>2, SetupFailsKeepsInv
<1>3. CASE Setup
  BY <1>1, <1>3, SetupKeepsInv
<1>4. CASE MarkPoint
  BY <1>1, <1>4, MarkPointKeepsInv
<1>5. CASE \E needsCoreRebuild \in BOOLEAN : SetPoint(needsCoreRebuild)
  BY <1>1, <1>5, SetPointKeepsInv
<1>6. CASE SetPointFails \/ RebindFails
  BY <1>1, <1>6, PointFailsKeepsInv
<1>7. CASE StartCore
  BY <1>1, <1>7, StartCoreKeepsInv
<1>8. CASE CoreStops
  BY <1>1, <1>8, CoreStopsKeepsInv
<1>9. CASE CoreAborts
  BY <1>1, <1>9, CoreAbortsKeepsInv
<1>10. CASE CoreFinishes
  BY <1>1, <1>10, CoreFinishesKeepsInv
<1>11. CASE Advance
  BY <1>1, <1>11, AdvanceKeepsInv
<1>12. CASE SweepEnds
  BY <1>1, <1>12, SweepEndsKeepsInv
<1>13. CASE End \/ Return
  BY <1>1, <1>13, EndKeepsInv
<1> QED BY <1>2, <1>3, <1>4, <1>5, <1>6, <1>7, <1>8, <1>9, <1>10, <1>11, <1>12, <1>13
        DEF Fill, CoroutineStep

LEMMA NextKeepsInv ==
    ASSUME Inv, [Next]_vars
    PROVE  Inv'
<1>1. CASE Start
  BY <1>1, StartKeepsInv
<1>2. CASE Resume
  <2>1. Begin("resume")
    BY <1>2 DEF Resume
  <2> QED BY <2>1, BeginKeepsInv
<1>3. CASE IsRunning
  <2>1. Begin("isRunning")
    BY <1>3 DEF IsRunning
  <2> QED BY <2>1, BeginKeepsInv
<1>4. CASE Fill
  BY <1>4, FillKeepsInv
<1>5. CASE ResumeReturns \/ IsRunningReturns
  BY <1>5, ReturnsKeepInv
<1>6. CASE Finish
  BY <1>6, FinishKeepsInv
<1>7. CASE UNCHANGED vars
  BY <1>7, StutterKeepsInv
<1> QED BY <1>1, <1>2, <1>3, <1>4, <1>5, <1>6, <1>7 DEF Next

-----------------------------------------------------------------------------
(* What holds whatever the ranges depend on                                *)

\* The inductive invariant: types, ranges that make sense, what finish() needs to
\* restore, the order of the points, what is stored and what the caller was told.
THEOREM InvHolds == Spec => []Inv
<1>1. Init => Inv
  BY InitInv
<1>2. Inv /\ [Next]_vars => Inv'
  BY NextKeepsInv
<1> QED BY <1>1, <1>2, PTL DEF Spec

\* A circuit whose levels are bound gets all values back from finish(), any circuit
\* its variables (Analysis::finish()).
THEOREM OriginalsReturn == Spec => []RestoresOriginals
<1>1. Inv => RestoresOriginals
  BY DEF Inv, Kept
<1> QED BY <1>1, InvHolds, PTL

\* The ranges in use are covered: no value left out, none outside, both ends reached
\* where they are asked for (ScalarSweep).
THEOREM RangesInUseAreCovered == Spec => []RangesAreCovered
<1>1. ASSUME Inv
      PROVE  RangesAreCovered
  <2> SUFFICES ASSUME pc = "core", NEW i \in Level
               PROVE  SetupOK(setting[i]) /\ CoversRange(setting[i])
    BY DEF RangesAreCovered
  <2>1. setting[i] \in RangeSettings /\ SetupOK(setting[i])
    BY <1>1 DEF Inv, Ranged, Looping
  <2> QED BY <2>1, RangeIsCovered
<1> QED BY <1>1, InvHolds, PTL

\* The point computed last is the one whose solution the core has.
LEMMA LastComputedIs ==
    ASSUME Inv, pc = "core", haveStoredState
    PROVE  LastComputed = solution /\ solution \in computed
<1>1. /\ N \in Nat /\ Level = 1 .. N
      /\ computed \subseteq [1 .. N -> Nat]
  BY TypeFacts DEF Inv, Typed, TypedData
<1>2. /\ solution \in computed
      /\ \A q \in computed : q = solution \/ Before(q, solution)
  BY DEF Inv, Ordered, Approaching
<1>3. ASSUME NEW p \in computed, \A q \in computed : p = q \/ Before(q, p)
      PROVE  p = solution
  <2>1. p = solution \/ (Before(p, solution) /\ Before(solution, p))
    BY <1>2, <1>3
  <2> QED BY <1>1, <1>2, <2>1, BeforeIsStrict
<1>4. LastComputed = CHOOSE p \in computed : \A q \in computed : p = q \/ Before(q, p)
  BY DEF LastComputed, Before
<1> HIDE DEF LastComputed, Before
<1>5. \E p \in computed : \A q \in computed : p = q \/ Before(q, p)
  BY <1>2
<1>6. LastComputed \in computed /\ \A q \in computed : LastComputed = q \/ Before(q, LastComputed)
  BY <1>4, <1>5
<1> QED BY <1>2, <1>3, <1>6

\* A point of a sweep that continues starts from the solution of the point just before,
\* as far as it fits the core (storeState(), restoreState(), makeStateIncoherent()).
THEOREM PointsStartFromWhatFits == Spec => []PointStartsFromWhatFits
<1>1. ASSUME Inv
      PROVE  PointStartsFromWhatFits
  <2> SUFFICES ASSUME pc = "core"
               PROVE  PointStartsFromWhatFits
    BY DEF PointStartsFromWhatFits, ContinuesFromPreviousPoint, ReusesOnlyWhatFits
  <2>1. /\ N \in Nat /\ Level = 1 .. N
        /\ advanced \in Nat /\ advanced >= 1 /\ (advanced > N => advanced = 1)
        /\ at \in [Level -> Nat]
    BY <1>1, TypeFacts DEF Inv, Typed, TypedData, Ranged, Looping
  <2>2. N > 0 => advanced \in Level
    BY <2>1
  <2>3. /\ outputsBound /\ origin = StartingPoint
        /\ allowBypass => N > 0 /\ at[N] > 0
        /\ \A i \in Level : coreStates[i].valid => sweeps[i].continuation
        /\ \A i \in Level : coreStates[i].coherent =>
               coreStates[i].system = system /\ coreStates[i].point \in computed
        /\ haveStoredState => \A i \in Level : i >= advanced /\ sweeps[i].continuation =>
               coreStates[i].valid /\ coreStates[i].point = solution
    BY <1>1 DEF Inv, Stored, Approaching, Looping
  <2>4. /\ \A i \in Level : i > advanced => at[i] = 0
        /\ ~haveStoredState => computed = {} /\ \A i \in Level : at[i] = 0
        /\ haveStoredState => \A i \in Level : i < advanced => at[i] = solution[i]
    BY <1>1 DEF Inv, Ordered, Approaching
  <2>5. haveStoredState => LastComputed = solution
    BY <1>1, LastComputedIs
  <2>6. haveStoredState \in BOOLEAN
    BY <1>1 DEF Inv, Typed, TypedData
  <2>7. CASE ~(N > 0 /\ coreStates[advanced].valid)
    <3>1. origin = [NoOrigin EXCEPT !.mode = "standard"]
      BY <2>3, <2>7 DEF StartingPoint
    <3>2. origin.mode = "standard" /\ origin.bypass = FALSE
      BY <3>1 DEF NoOrigin
    <3>3. N > 0 /\ sweeps[advanced].continuation => ~haveStoredState
      BY <2>1, <2>2, <2>3, <2>7
    <3>4. ContinuesFromPreviousPoint
      BY <2>4, <3>2, <3>3 DEF ContinuesFromPreviousPoint
    <3>5. ReusesOnlyWhatFits
      BY <3>2 DEF ReusesOnlyWhatFits
    <3> QED BY <3>4, <3>5 DEF PointStartsFromWhatFits
  <2>8. CASE N > 0 /\ coreStates[advanced].valid
    <3> DEFINE state == coreStates[advanced]
    <3>1. origin = [mode |-> IF state.coherent THEN "continue" ELSE "forced",
                    point |-> state.point, system |-> state.system,
                    bypass |-> state.coherent /\ allowBypass]
      BY <2>3, <2>8 DEF StartingPoint
    <3>2. /\ origin.mode = IF state.coherent THEN "continue" ELSE "forced"
          /\ origin.point = state.point /\ origin.system = state.system
          /\ origin.bypass => state.coherent /\ allowBypass
      BY <3>1
    <3>3. advanced \in Level /\ sweeps[advanced].continuation
      BY <2>2, <2>3, <2>8
    <3>4. haveStoredState => state.point = solution
      BY <2>1, <2>3, <3>3
    <3>5. state.coherent => state.system = system /\ state.point \in computed
      BY <2>3, <3>3
    <3> HIDE DEF state
    <3>6. ContinuesFromPreviousPoint
      <4>1. computed # {} => haveStoredState
        BY <2>4, <2>6
      <4> QED BY <2>5, <3>2, <3>3, <3>4, <4>1 DEF ContinuesFromPreviousPoint
    <3>7. ASSUME origin.bypass
          PROVE  /\ origin.mode = "continue" /\ origin.point = LastComputed
                 /\ \A i \in Level \ {N} : at[i] = LastComputed[i]
      <4>1. state.coherent /\ N > 0 /\ at[N] > 0
        BY <2>3, <3>2, <3>7
      <4>2. N \in Level
        BY <2>1, <4>1
      <4>3. haveStoredState
        BY <2>4, <2>6, <4>1, <4>2
      <4>4. advanced = N
        <5>1. ~(N > advanced)
          BY <2>4, <4>1, <4>2
        <5> QED BY <2>1, <3>3, <5>1
      <4>5. \A i \in Level \ {N} : i < advanced
        BY <2>1, <4>4
      <4> QED BY <2>4, <2>5, <3>2, <3>4, <4>1, <4>3, <4>5
    <3>8. ReusesOnlyWhatFits
      BY <3>2, <3>5, <3>7 DEF ReusesOnlyWhatFits
    <3> QED BY <3>6, <3>8 DEF PointStartsFromWhatFits
  <2> QED BY <2>7, <2>8
<1> QED BY <1>1, InvHolds, PTL

\* What is yielded waits in the generator until resume() hands it out: asking whether
\* the analysis still runs never drops it (Generator::done(), Generator::operator()()).
THEOREM NoYieldIsLost == Spec => [](unseen # "none" => full /\ value = unseen)
<1>1. Inv => (unseen # "none" => full /\ value = unseen)
  BY DEF Inv, Told
<1> QED BY <1>1, InvHolds, PTL

\* The types of the variables, advanced within the levels.
THEOREM TypeCorrect == Spec => []TypeOK
<1>1. ASSUME Inv
      PROVE  TypeOK
  <2>1. /\ N \in Nat /\ Level = 1 .. N
        /\ advanced \in Nat /\ advanced >= 1 /\ (N > 0 => advanced \in Level)
        /\ (advanced > N => advanced = 1)
    BY <1>1, TypeFacts DEF Inv, Typed, TypedData
  <2>2. advanced \in 1 .. Max({1, N})
    <3> DEFINE n == IF N = 0 THEN 1 ELSE N
    <3>1. n \in Nat /\ {1, N} \in SUBSET Nat /\ n \in {1, N}
      BY <2>1
    <3>2. \A y \in {1, N} : n >= y
      BY <2>1
    <3>3. \A x \in {1, N} : (\A y \in {1, N} : x >= y) => x = n
      BY <2>1
    <3> HIDE DEF n
    <3>4. Max({1, N}) = n
      BY <3>1, <3>2, <3>3 DEF Max
    <3>5. advanced <= n
      BY <2>1 DEF n
    <3> QED BY <2>1, <3>1, <3>4, <3>5
  <2>3. computed \subseteq Seq(Nat)
    <3>1. \A p \in [1 .. N -> Nat] : p \in Seq(Nat)
      BY <2>1
    <3> QED BY <1>1, <2>1, <3>1 DEF Inv, Typed, TypedData
  <2> QED BY <1>1, <2>2, <2>3 DEF Inv, Typed, TypedData, TypedControl, TypeOK
<1> QED BY <1>1, InvHolds, PTL

-----------------------------------------------------------------------------
(* The values of a point                                                   *)

\* What the definition of ValuesAt says of one level, for any values g of the levels
\* around it.
ValueIn(g, p, i) ==
    PointValue(sweeps[i].settings[IF OuterLevels(i) = {} THEN Original[sweeps[i].on]
                                  ELSE g[CHOOSE j \in OuterLevels(i) : TRUE]], p[i])

\* A level looks only at the values of the levels outside it.
LEMMA ValueLooksOutward ==
    ASSUME NEW g, NEW h, NEW p, NEW q, NEW i \in Nat,
           \A j \in 1 .. i - 1 : g[j] = h[j], p[i] = q[i]
    PROVE  ValueIn(g, p, i) = ValueIn(h, q, i)
<1>1. CASE OuterLevels(i) = {}
  BY <1>1 DEF ValueIn
<1>2. CASE OuterLevels(i) # {}
  <2>1. (CHOOSE j \in OuterLevels(i) : TRUE) \in 1 .. i - 1
    BY <1>2 DEF OuterLevels
  <2> DEFINE c == CHOOSE j \in OuterLevels(i) : TRUE
  <2>2. g[c] = h[c]
    BY <2>1
  <2> HIDE DEF c
  <2>3. /\ ValueIn(g, p, i) = PointValue(sweeps[i].settings[g[c]], p[i])
        /\ ValueIn(h, q, i) = PointValue(sweeps[i].settings[h[c]], q[i])
    BY <1>2 DEF ValueIn, c
  <2> QED BY <2>2, <2>3
<1> QED BY <1>1, <1>2

\* There are values that satisfy the definition, for as many levels as one likes.
LEMMA ValuesExist ==
    ASSUME NEW p, NEW n \in Nat
    PROVE  \E g : g = [i \in 1 .. n |-> ValueIn(g, p, i)]
<1> DEFINE T == {m \in Nat : ~ \E g : g = [i \in 1 .. m |-> ValueIn(g, p, i)]}
<1> SUFFICES ASSUME T # {} PROVE FALSE
  OBVIOUS
<1>1. PICK m \in T : \A y \in T : m <= y
  <2>1. T \in SUBSET Nat
    OBVIOUS
  <2> HIDE DEF T
  <2> QED BY <2>1, LeastExists
<1>2. m \in Nat /\ ~ \E g : g = [i \in 1 .. m |-> ValueIn(g, p, i)]
  OBVIOUS
<1>3. CASE m = 0
  <2> DEFINE g0 == [i \in 1 .. 0 |-> 0]
  <2>1. g0 = [i \in 1 .. 0 |-> ValueIn(g0, p, i)]
    OBVIOUS
  <2> QED BY <1>2, <1>3, <2>1
<1>4. CASE m # 0
  <2>1. m - 1 \in Nat /\ m - 1 \notin T
    BY <1>1, <1>2, <1>4
  <2>2. PICK g : g = [i \in 1 .. m - 1 |-> ValueIn(g, p, i)]
    BY <2>1
  <2> DEFINE h == [i \in 1 .. m |-> ValueIn(g, p, i)]
  <2>3. \A i \in 1 .. m - 1 : h[i] = g[i]
    <3>1. \A i \in 1 .. m - 1 : h[i] = ValueIn(g, p, i)
      BY <2>1
    <3>2. \A i \in 1 .. m - 1 : g[i] = ValueIn(g, p, i)
      <4> DEFINE V(i) == ValueIn(g, p, i)
      <4>1. g = [i \in 1 .. m - 1 |-> V(i)]
        BY <2>2
      <4> HIDE DEF V
      <4>2. \A i \in 1 .. m - 1 : g[i] = V(i)
        BY <4>1
      <4> QED BY <4>2 DEF V
    <3> QED BY <3>1, <3>2
  <2> HIDE DEF h
  <2>4. \A i \in 1 .. m : ValueIn(g, p, i) = ValueIn(h, p, i)
    <3> TAKE i \in 1 .. m
    <3>1. i \in Nat /\ \A j \in 1 .. i - 1 : g[j] = h[j]
      BY <1>2, <2>3
    <3> QED BY <3>1, ValueLooksOutward
  <2>5. h = [i \in 1 .. m |-> ValueIn(h, p, i)]
    BY <2>4 DEF h
  <2> QED BY <1>2, <2>5
<1> QED BY <1>3, <1>4

\* The definition of ValuesAt unfolds.
LEMMA ValuesUnfold ==
    ASSUME NEW p, Len(p) \in Nat, NEW i \in 1 .. Len(p)
    PROVE  ValuesAt(p)[i] = ValueIn(ValuesAt(p), p, i)
<1>1. ValuesAt(p) = CHOOSE g : g = [k \in 1 .. Len(p) |-> ValueIn(g, p, k)]
  BY DEF ValuesAt, ValueIn
<1>2. \E g : g = [k \in 1 .. Len(p) |-> ValueIn(g, p, k)]
  BY ValuesExist
<1> HIDE DEF ValuesAt
<1>3. ValuesAt(p) = [k \in 1 .. Len(p) |-> ValueIn(ValuesAt(p), p, k)]
  BY <1>1, <1>2
<1> DEFINE V(k) == ValueIn(ValuesAt(p), p, k)
<1>4. ValuesAt(p) = [k \in 1 .. Len(p) |-> V(k)]
  BY <1>3
<1> HIDE DEF V
<1>5. ValuesAt(p)[i] = V(i)
  BY <1>4
<1> QED BY <1>5 DEF V

\* The value of a level is the one its settings give it.
LEMMA ValueFromSettings ==
    ASSUME NEW p, Len(p) \in Nat, NEW i \in 1 .. Len(p)
    PROVE  ValuesAt(p)[i] = PointValue(SettingsAt(p, i), p[i])
BY ValuesUnfold DEF ValueIn, SettingsAt

\* Points that agree on the outer levels agree on their values.
LEMMA ValuesAgree ==
    ASSUME NEW p, NEW q, Len(p) \in Nat, Len(q) \in Nat, NEW n \in Nat,
           n <= Len(p), n <= Len(q), \A j \in 1 .. n : p[j] = q[j],
           NEW i \in 1 .. n
    PROVE  ValuesAt(p)[i] = ValuesAt(q)[i]
<1> DEFINE T == {k \in 1 .. n : ValuesAt(p)[k] # ValuesAt(q)[k]}
<1> SUFFICES ASSUME T # {} PROVE FALSE
  OBVIOUS
<1>1. PICK m \in T : \A y \in T : m <= y
  <2>1. T \in SUBSET Nat
    OBVIOUS
  <2> HIDE DEF T
  <2> QED BY <2>1, LeastExists
<1>2. m \in 1 .. n /\ m \in Nat /\ m \in 1 .. Len(p) /\ m \in 1 .. Len(q)
  OBVIOUS
<1>3. \A j \in 1 .. m - 1 : ValuesAt(p)[j] = ValuesAt(q)[j]
  <2> TAKE j \in 1 .. m - 1
  <2>1. j \in 1 .. n /\ ~(m <= j)
    BY <1>2
  <2> QED BY <1>1, <2>1
<1>4. p[m] = q[m]
  BY <1>2
<1>5. ValueIn(ValuesAt(p), p, m) = ValueIn(ValuesAt(q), q, m)
  BY <1>2, <1>3, <1>4, ValueLooksOutward
<1>6. ValuesAt(p)[m] = ValuesAt(q)[m]
  BY <1>2, <1>5, ValuesUnfold
<1> QED BY <1>6

\* Hence on the settings of the next level.
LEMMA SettingsAgree ==
    ASSUME NEW p, NEW q, Len(p) \in Nat, Len(q) \in Nat, NEW i \in Nat,
           i - 1 <= Len(p), i - 1 <= Len(q), \A j \in 1 .. i - 1 : p[j] = q[j]
    PROVE  SettingsAt(p, i) = SettingsAt(q, i)
<1>1. CASE OuterLevels(i) = {}
  BY <1>1 DEF SettingsAt
<1>2. CASE OuterLevels(i) # {}
  <2> DEFINE c == CHOOSE j \in OuterLevels(i) : TRUE
  <2>1. c \in 1 .. i - 1
    BY <1>2 DEF OuterLevels
  <2>2. /\ SettingsAt(p, i) = sweeps[i].settings[ValuesAt(p)[c]]
        /\ SettingsAt(q, i) = sweeps[i].settings[ValuesAt(q)[c]]
    BY <1>2 DEF SettingsAt
  <2> HIDE DEF c
  <2>3. i - 1 \in Nat
    BY <2>1
  <2>4. ValuesAt(p)[c] = ValuesAt(q)[c]
    BY <2>1, <2>3, ValuesAgree
  <2> QED BY <2>2, <2>4
<1> QED BY <1>1, <1>2

-----------------------------------------------------------------------------
(* The ranges in use are those of the values in force                      *)

LEMMA RangeOfLevel ==
    ASSUME RangesFollowOuterLevels, sweeps \in SweepLists, NEW i \in Level
    PROVE  \/ \A x, y \in Values : sweeps[i].settings[x] = sweeps[i].settings[y]
           \/ \A j \in Level : sweeps[j].target = sweeps[i].on =>
                  j < i /\ sweeps[i].target \in Parameters
BY DEF RangesFollowOuterLevels, Level

\* A level's settings change only when the variable they depend on does, and that only
\* when they vary with it.
LEMMA SameSettings ==
    ASSUME NEW i \in Level, NEW e, NEW f,
           \/ e[sweeps[i].on] = f[sweeps[i].on]
           \/ /\ \A x, y \in Values : sweeps[i].settings[x] = sweeps[i].settings[y]
              /\ e[sweeps[i].on] \in Values /\ f[sweeps[i].on] \in Values
    PROVE  SettingsOf(i, e) = SettingsOf(i, f)
BY DEF SettingsOf

\* The ranges of a point are those of the variables written for it.
LEMMA PointSettingsFollow ==
    ASSUME RangesFollowOuterLevels, Inv, Valued, pc = "set", NEW i \in Level
    PROVE  /\ PointSettings[i] = SettingsOf(i, PointVariables)
           /\ i \in VariableLevels => PointSettings[i] = setting[i]
<1>1. /\ sweeps \in SweepLists /\ N \in Nat /\ Level = 1 .. N
      /\ VariableLevels \subseteq Level
      /\ advanced \in Nat
      /\ sweeps[i].on \in Variables /\ sweeps[i].on \in Targets
  BY TypeFacts, ListFacts DEF Inv, Typed, TypedData, Targets
<1>2. pc \in Looping
  BY DEF Looping
<1>3. /\ inForce[sweeps[i].on] \in Values /\ PointVariables[sweeps[i].on] \in Values
      /\ \A t \in Targets : (\A j \in VariableLevels : sweeps[j].target # t) =>
                                PointVariables[t] = inForce[t]
      /\ \A j \in VariableLevels :
             PointVariables[sweeps[j].target] = PointValue(setting[j], at[j])
  BY <1>1, <1>2, PointVariablesFit DEF Inv, Typed, TypedData
<1>4. setting[i] = SettingsOf(i, inForce)
  BY <1>2 DEF Valued
<1>5. ASSUME i <= advanced \/ i \in VariableLevels
      PROVE  SettingsOf(i, PointVariables) = setting[i]
  <2>1. CASE \A x, y \in Values : sweeps[i].settings[x] = sweeps[i].settings[y]
    BY <1>3, <1>4, <2>1, SameSettings
  <2>2. CASE \A j \in Level : sweeps[j].target = sweeps[i].on =>
                 j < i /\ sweeps[i].target \in Parameters
    <3>1. PointVariables[sweeps[i].on] = inForce[sweeps[i].on]
      <4>1. CASE \A j \in VariableLevels : sweeps[j].target # sweeps[i].on
        BY <1>1, <1>3, <4>1
      <4>2. CASE \E j \in VariableLevels : sweeps[j].target = sweeps[i].on
        <5>1. PICK j \in VariableLevels : sweeps[j].target = sweeps[i].on
          BY <4>2
        <5>2. j \in Level /\ j < i /\ sweeps[i].target \in Parameters
          BY <1>1, <2>2, <5>1
        <5>3. i \notin VariableLevels
          BY <5>2, SweepAssumption DEF VariableLevels, SweepsVariable
        <5>4. j < advanced
          BY <1>1, <1>5, <5>2, <5>3
        <5>5. inForce[sweeps[j].target] = PointValue(setting[j], at[j])
          BY <5>2, <5>4 DEF Valued
        <5> QED BY <1>3, <5>1, <5>5
      <4> QED BY <4>1, <4>2
    <3> QED BY <1>4, <3>1, SameSettings
  <2> QED BY <1>1, <2>1, <2>2, RangeOfLevel
<1>6. CASE PointVariables = inForce
  <2>1. PointSettings = setting
    BY <1>6 DEF PointSettings
  <2> QED BY <1>4, <1>6, <2>1
<1>7. CASE PointVariables # inForce
  <2>1. PointSettings[i] = IF i > advanced THEN SettingsOf(i, PointVariables) ELSE setting[i]
    BY <1>7 DEF PointSettings, Updated
  <2>2. i > advanced \/ i <= advanced
    BY <1>1
  <2> QED BY <1>1, <1>5, <2>1, <2>2
<1> QED BY <1>6, <1>7

LEMMA SetPointKeepsValued ==
    ASSUME RangesFollowOuterLevels, Inv, Valued, NEW needs \in BOOLEAN, SetPoint(needs)
    PROVE  Valued'
<1>1. /\ pc = "set" /\ pc' = "run" /\ PointUpdates
      /\ inForce' = PointParameters(ParameterLevels) /\ setting' = PointSettings
      /\ UNCHANGED <<sweeps, at, advanced>>
  BY DEF SetPoint, Running, Continue
<1>2. /\ sweeps \in SweepLists /\ Level' = Level /\ ParameterLevels \subseteq Level
      /\ \A i \in Level : i \in VariableLevels \/ i \in ParameterLevels
  BY <1>1, ListStays, ListFacts DEF Inv, Typed, TypedData, ParameterLevels
<1>3. /\ \A i \in ParameterLevels : inForce'[sweeps[i].target] = PointValue(PointSettings[i], at[i])
      /\ \A v \in Variables : inForce'[v] = PointVariables[v]
  BY <1>1, PointParametersFit
<1>4. \A i \in VariableLevels :
          PointVariables[sweeps[i].target] = PointValue(setting[i], at[i])
  BY <1>1, PointVariablesFit DEF Looping
<1>5. ASSUME NEW i \in Level
      PROVE  setting'[i] = SettingsOf(i, inForce')
  <2>1. setting'[i] = SettingsOf(i, PointVariables)
    BY <1>1, PointSettingsFollow
  <2>2. sweeps[i].on \in Variables
    BY <1>2, ListFacts
  <2> QED BY <1>3, <2>1, <2>2, SameSettings
<1>6. ASSUME NEW j \in Level
      PROVE  inForce'[sweeps[j].target] = PointValue(setting'[j], at[j])
  <2>1. CASE j \in ParameterLevels
    BY <1>1, <1>3, <2>1
  <2>2. CASE j \in VariableLevels
    <3>1. sweeps[j].target \in Variables
      BY <2>2 DEF VariableLevels, SweepsVariable
    <3>2. inForce'[sweeps[j].target] = PointValue(setting[j], at[j])
      BY <1>3, <1>4, <2>2, <3>1
    <3>3. setting'[j] = setting[j]
      BY <1>1, <2>2, PointSettingsFollow
    <3> QED BY <3>2, <3>3
  <2> QED BY <1>2, <2>1, <2>2
<1>7. \A i \in Level : SettingsOf(i, inForce)' = SettingsOf(i, inForce')
  BY <1>1 DEF SettingsOf
<1> QED BY <1>1, <1>2, <1>5, <1>6, <1>7 DEF Valued

\* Steps that leave the values, the ranges and the positions alone.
LEMMA ValuedStays ==
    ASSUME Inv, Valued, UNCHANGED <<sweeps, inForce, setting, at, advanced>>,
           \/ pc' \notin Looping
           \/ pc \in {"point", "set"} /\ pc' \in {"point", "set"}
           \/ pc \in {"run", "core", "advance"} /\ pc' \in {"run", "core", "advance"}
    PROVE  Valued'
<1>1. Level' = Level
  BY ListStays
<1>2. \A i \in Level : SettingsOf(i, inForce)' = SettingsOf(i, inForce)
  BY DEF SettingsOf
<1> QED BY <1>1, <1>2 DEF Valued, Looping

LEMMA ValuedOutside ==
    ASSUME pc' \notin Looping
    PROVE  Valued'
BY DEF Valued, Looping

LEMMA NextKeepsValued ==
    ASSUME RangesFollowOuterLevels, Inv, Valued, [Next]_vars
    PROVE  Valued'
<1>0. pc \in Labels
  BY DEF Inv, Typed, TypedControl
<1>1. CASE Start
  <2>1. pc' = "begin"
    BY <1>1 DEF Start
  <2> QED BY <2>1, ValuedOutside DEF Looping
<1>2. CASE Finish
  <2>1. pc' = "none"
    BY <1>2 DEF Finish
  <2> QED BY <2>1, ValuedOutside DEF Looping
<1>3. CASE Resume \/ IsRunning \/ ResumeReturns \/ IsRunningReturns \/ UNCHANGED vars
  <2>1. UNCHANGED <<sweeps, inForce, setting, at, advanced>> /\ pc' = pc
    BY <1>3 DEF Resume, IsRunning, Begin, ResumeReturns, IsRunningReturns, vars, circuitVars,
               sweeperVars, generatorVars
  <2> QED BY <2>1, <1>0, ValuedStays DEF Looping, Labels
<1>4. CASE SetupFails \/ SetPointFails \/ RebindFails \/ CoreAborts \/ SweepEnds \/ End \/ Return
  <2>1. pc' \in {"broken", "end", "return", "done"}
    BY <1>4 DEF SetupFails, SetPointFails, RebindFails, CoreAborts, SweepEnds, End, Return,
                Yield, Continue
  <2> QED BY <2>1, ValuedOutside DEF Looping
<1>5. CASE Setup
  <2>1. /\ pc' = "point" /\ UNCHANGED <<sweeps, inForce>> /\ advanced' = 1
        /\ setting' = [i \in Level |-> SettingsOf(i, inForce)]
    BY <1>5 DEF Setup, Continue
  <2>2. Level' = Level /\ N \in Nat /\ Level = 1 .. N
    BY <2>1, ListStays, TypeFacts DEF Inv
  <2>3. \A i \in Level : SettingsOf(i, inForce)' = SettingsOf(i, inForce)
    BY <2>1 DEF SettingsOf
  <2>4. \A j \in Level : ~(j < 1)
    BY <2>2
  <2> QED BY <2>1, <2>2, <2>3, <2>4 DEF Valued
<1>6. CASE MarkPoint
  <2>1. /\ UNCHANGED <<sweeps, inForce, setting, at, advanced>>
        /\ pc = "point" /\ pc' = "set"
    BY <1>6 DEF MarkPoint, Running, Yield, Continue, circuitVars, sweeperVars
  <2> QED BY <2>1, ValuedStays
<1>7. CASE \E needsCoreRebuild \in BOOLEAN : SetPoint(needsCoreRebuild)
  BY <1>7, SetPointKeepsValued
<1>8. CASE StartCore \/ CoreStops
  <2>1. /\ UNCHANGED <<sweeps, inForce, setting, at, advanced>>
        /\ pc \in {"run", "core"} /\ pc' = "core"
    BY <1>8 DEF StartCore, CoreStops, Running, Yield, Continue, circuitVars, sweeperVars
  <2> QED BY <2>1, ValuedStays
<1>9. CASE CoreFinishes
  <2>1. /\ UNCHANGED <<sweeps, inForce, setting, at, advanced>>
        /\ pc = "core" /\ pc' \in {"end", "advance"}
    BY <1>9 DEF CoreFinishes, Running, Yield, Continue, circuitVars, sweeperVars
  <2> QED BY <2>1, ValuedStays DEF Looping
<1>10. CASE Advance
  <2>1. /\ pc = "advance" /\ pc' = "point" /\ UNCHANGED <<sweeps, inForce, setting>>
        /\ MayAdvance # {} /\ at' = NextAt /\ advanced' = Innermost
    BY <1>10 DEF Advance, NextAt, Running, Continue, circuitVars
  <2>2. /\ Level' = Level
        /\ \A j \in Level : j < Innermost => NextAt[j] = at[j]
    BY <2>1, ListStays DEF NextAt
  <2>3. \A i \in Level : SettingsOf(i, inForce)' = SettingsOf(i, inForce)
    BY <2>1 DEF SettingsOf
  <2> QED BY <2>1, <2>2, <2>3 DEF Valued, Looping
<1> QED BY <1>1, <1>2, <1>3, <1>4, <1>5, <1>6, <1>7, <1>8, <1>9, <1>10
        DEF Next, Fill, CoroutineStep

THEOREM RangesFollowValues ==
    ASSUME RangesFollowOuterLevels
    PROVE  Spec => []Valued
<1>1. Init => Valued
  BY DEF Init, CoroutineInit, Valued, Looping
<1>2. Inv /\ Valued /\ [Next]_vars => Valued'
  BY NextKeepsValued
<1> QED BY <1>1, <1>2, InvHolds, PTL DEF Spec

\* Once a point is written, its values are those of the definition.
LEMMA PointIsAsDefined ==
    ASSUME RangesFollowOuterLevels, Inv, Valued, pc \in {"run", "core", "advance"},
           NEW i \in Level
    PROVE  /\ setting[i] = SettingsAt(at, i)
           /\ inForce[sweeps[i].target] = ValuesAt(at)[i]
<1>1. /\ sweeps \in SweepLists /\ N \in Nat /\ Level = 1 .. N
      /\ inForce \in [Targets -> Int]
  BY TypeFacts DEF Inv, Typed, TypedData
<1>2. at \in [1 .. N -> Nat] /\ at \in Seq(Nat) /\ Len(at) = N
  <2>1. at \in [1 .. N -> Nat]
    BY <1>1 DEF Inv, Ranged, Looping
  <2> QED BY <1>1, <2>1
<1>3. \A j \in Level : /\ setting[j] = SettingsOf(j, inForce)
                       /\ inForce[sweeps[j].target] = PointValue(setting[j], at[j])
  BY DEF Valued, Looping
<1>4. ASSUME NEW m \in Level,
             \A j \in 1 .. m - 1 : inForce[sweeps[j].target] = ValuesAt(at)[j]
      PROVE  /\ setting[m] = SettingsAt(at, m)
             /\ inForce[sweeps[m].target] = ValuesAt(at)[m]
  <2>1. sweeps[m].on \in Variables /\ sweeps[m].on \in Targets
    BY <1>1, ListFacts DEF Targets
  <2>2. setting[m] = SettingsAt(at, m)
    <3>1. CASE OuterLevels(m) # {}
      <4> DEFINE c == CHOOSE j \in OuterLevels(m) : TRUE
      <4>1. c \in 1 .. m - 1 /\ sweeps[c].target = sweeps[m].on
        BY <3>1 DEF OuterLevels
      <4>2. SettingsAt(at, m) = sweeps[m].settings[ValuesAt(at)[c]]
        BY <3>1 DEF SettingsAt
      <4> HIDE DEF c
      <4>3. ValuesAt(at)[c] = inForce[sweeps[m].on]
        BY <1>4, <4>1
      <4> QED BY <1>3, <4>2, <4>3 DEF SettingsOf
    <3>2. CASE OuterLevels(m) = {}
      <4>1. SettingsAt(at, m) = sweeps[m].settings[Original[sweeps[m].on]]
        BY <3>2 DEF SettingsAt
      <4>2. /\ inForce[sweeps[m].on] \in Values /\ Original[sweeps[m].on] \in Values
        BY <2>1, SweepAssumption DEF Inv, Typed, TypedData
      <4>3. CASE \A x, y \in Values : sweeps[m].settings[x] = sweeps[m].settings[y]
        BY <1>3, <4>1, <4>2, <4>3 DEF SettingsOf
      <4>4. CASE \A j \in Level : sweeps[j].target = sweeps[m].on =>
                     j < m /\ sweeps[m].target \in Parameters
        <5>1. \A j \in Level : sweeps[j].target # sweeps[m].on
          <6> SUFFICES ASSUME NEW j \in Level, sweeps[j].target = sweeps[m].on
                       PROVE  FALSE
            OBVIOUS
          <6>1. j \in 1 .. m - 1
            BY <1>1, <4>4
          <6> QED BY <3>2, <6>1 DEF OuterLevels
        <5>2. inForce[sweeps[m].on] = Original[sweeps[m].on]
          BY <2>1, <5>1 DEF Inv, Kept
        <5> QED BY <1>3, <4>1, <5>2 DEF SettingsOf
      <4> QED BY <1>1, <4>3, <4>4, RangeOfLevel
    <3> QED BY <3>1, <3>2
  <2>3. ValuesAt(at)[m] = PointValue(SettingsAt(at, m), at[m])
    BY <1>1, <1>2, ValueFromSettings
  <2> QED BY <1>3, <2>2, <2>3
<1> DEFINE T == {m \in Level : inForce[sweeps[m].target] # ValuesAt(at)[m]}
<1>5. T = {}
  <2> SUFFICES ASSUME T # {} PROVE FALSE
    OBVIOUS
  <2>1. PICK m \in T : \A y \in T : m <= y
    <3>1. T \in SUBSET Nat
      BY <1>1
    <3> HIDE DEF T
    <3> QED BY <3>1, LeastExists
  <2>2. m \in Level /\ inForce[sweeps[m].target] # ValuesAt(at)[m]
    OBVIOUS
  <2>3. \A j \in 1 .. m - 1 : inForce[sweeps[j].target] = ValuesAt(at)[j]
    <3> TAKE j \in 1 .. m - 1
    <3>1. j \in Level /\ ~(m <= j)
      BY <1>1, <2>2
    <3> QED BY <2>1, <3>1
  <2> QED BY <1>4, <2>2, <2>3
<1>6. \A j \in 1 .. i - 1 : inForce[sweeps[j].target] = ValuesAt(at)[j]
  BY <1>1, <1>5
<1> QED BY <1>4, <1>6

\* Where ranges follow outer levels, the core runs with every swept variable and
\* parameter at the value its own range gives it at this point, and everything else as
\* it was (docs/cmd-sweep.md, "Parametric expressions"; ParameterSweeper::compute()).
THEOREM PointsHaveTheirValues ==
    ASSUME RangesFollowOuterLevels
    PROVE  Spec => []PointHasItsValues
<1>1. ASSUME Inv, Valued
      PROVE  PointHasItsValues
  <2> SUFFICES ASSUME pc = "core"
               PROVE  inForce = Written(before, Level, ValuesAt(at))
    BY DEF PointHasItsValues
  <2>1. /\ sweeps \in SweepLists /\ inForce \in [Targets -> Int]
    BY <1>1 DEF Inv, Typed, TypedData
  <2> DEFINE W == Written(before, Level, ValuesAt(at))
  <2>2. ASSUME NEW t \in Targets
        PROVE  inForce[t] = W[t]
    <3>1. CASE \E i \in Level : sweeps[i].target = t
      <4>1. PICK i \in Level : sweeps[i].target = t
        BY <3>1
      <4>2. W[sweeps[i].target] = ValuesAt(at)[i]
        BY <2>1, <4>1, WrittenThere
      <4>3. inForce[sweeps[i].target] = ValuesAt(at)[i]
        BY <1>1, <4>1, PointIsAsDefined
      <4> HIDE DEF W
      <4> QED BY <4>1, <4>2, <4>3
    <3>2. CASE \A i \in Level : sweeps[i].target # t
      <4>1. W[t] = before[t]
        BY <3>2, WrittenElsewhere
      <4> HIDE DEF W
      <4> QED BY <1>1, <3>2, <4>1 DEF Inv, Kept
    <3> QED BY <3>1, <3>2
  <2>3. W = [t \in Targets |-> W[t]]
    BY DEF Written
  <2> HIDE DEF W
  <2>4. inForce = W
    BY <2>1, <2>2, <2>3
  <2> QED BY <2>4 DEF W
<1> QED BY <1>1, InvHolds, RangesFollowValues, PTL

-----------------------------------------------------------------------------
(* The points of a sweep                                                   *)

\* The beginnings of the points, k positions long, said without recursion.
Beginnings(k) == {p \in [1 .. k -> Nat] : \A j \in 1 .. k : p[j] \in Positions(SettingsAt(p, j))}

LEMMA BeginningIs ==
    ASSUME NEW k \in Nat, NEW p \in [1 .. k -> Nat]
    PROVE  p \in Seq(Nat) /\ Len(p) = k
OBVIOUS

LEMMA SequenceIs ==
    ASSUME NEW s \in Seq(Nat)
    PROVE  s \in [1 .. Len(s) -> Nat]
OBVIOUS

LEMMA OneMore ==
    ASSUME NEW k \in Nat \ {0}, NEW p \in Seq(Nat), Len(p) = k - 1, NEW x \in Nat
    PROVE  /\ Append(p, x) \in [1 .. k -> Nat] /\ Len(Append(p, x)) = k
           /\ Append(p, x)[k] = x
           /\ \A j \in 1 .. k - 1 : p[j] = Append(p, x)[j]
<1>1. Append(p, x) \in Seq(Nat) /\ Len(Append(p, x)) = k
  OBVIOUS
<1>2. Append(p, x) \in [1 .. k -> Nat]
  <2> DEFINE s == Append(p, x)
  <2>1. s \in Seq(Nat) /\ Len(s) = k
    BY <1>1
  <2> HIDE DEF s
  <2>2. s \in [1 .. Len(s) -> Nat]
    BY <2>1, SequenceIs
  <2>3. s \in [1 .. k -> Nat]
    BY <2>1, <2>2
  <2> QED BY <2>3 DEF s
<1> QED BY <1>1, <1>2

\* A beginning is a shorter one and a position that the next level then has.
LEMMA LongerBeginnings ==
    ASSUME NEW k \in Nat \ {0},
           \A p \in Beginnings(k - 1) : Positions(SettingsAt(p, k)) \subseteq Nat
    PROVE  Beginnings(k) =
               UNION {{Append(p, x) : x \in Positions(SettingsAt(p, k))} : p \in Beginnings(k - 1)}
<1> DEFINE R == UNION {{Append(p, x) : x \in Positions(SettingsAt(p, k))} : p \in Beginnings(k - 1)}
<1>0. k - 1 \in Nat /\ k \in Nat /\ k \in 1 .. k
  OBVIOUS
<1>1. ASSUME NEW q \in Beginnings(k)
      PROVE  q \in R
  <2> DEFINE p == [i \in 1 .. k - 1 |-> q[i]]
             x == q[k]
  <2>1. /\ q \in [1 .. k -> Nat] /\ q \in Seq(Nat) /\ Len(q) = k
        /\ \A j \in 1 .. k : q[j] \in Positions(SettingsAt(q, j))
    BY <1>0, BeginningIs DEF Beginnings
  <2>2. p \in [1 .. k - 1 -> Nat] /\ p \in Seq(Nat) /\ Len(p) = k - 1
    BY <1>0, <2>1, BeginningIs
  <2>3. \A j \in 1 .. k - 1 : p[j] = q[j]
    OBVIOUS
  <2>4. x \in Nat /\ q = Append(p, x)
    BY <1>0, <2>1, <2>2, <2>3
  <2> HIDE DEF p
  <2>5. ASSUME NEW j \in 1 .. k
        PROVE  SettingsAt(p, j) = SettingsAt(q, j)
    <3>1. \A m \in 1 .. j - 1 : p[m] = q[m]
      BY <1>0, <2>3
    <3>2. /\ j \in Nat /\ Len(p) \in Nat /\ Len(q) \in Nat
          /\ j - 1 <= Len(p) /\ j - 1 <= Len(q)
      BY <1>0, <2>1, <2>2
    <3> HIDE DEF x
    <3> QED BY <3>1, <3>2, SettingsAgree
  <2>6. p \in Beginnings(k - 1)
    <3>1. ASSUME NEW j \in 1 .. k - 1
          PROVE  p[j] \in Positions(SettingsAt(p, j))
      <4>1. j \in 1 .. k
        BY <1>0
      <4> QED BY <2>1, <2>3, <2>5, <4>1
    <3> QED BY <2>2, <3>1 DEF Beginnings
  <2>7. x \in Positions(SettingsAt(p, k))
    BY <1>0, <2>1, <2>5
  <2> QED BY <2>4, <2>6, <2>7
<1>2. \A p \in Seq(Nat), x \in Nat : Len(p) = k - 1 =>
         /\ Append(p, x) \in [1 .. k -> Nat] /\ Len(Append(p, x)) = k
         /\ Append(p, x)[k] = x
         /\ \A j \in 1 .. k - 1 : p[j] = Append(p, x)[j]
  <2> HIDE DEF R
  <2> SUFFICES ASSUME NEW p \in Seq(Nat), NEW x \in Nat, Len(p) = k - 1
               PROVE  /\ Append(p, x) \in [1 .. k -> Nat] /\ Len(Append(p, x)) = k
                      /\ Append(p, x)[k] = x
                      /\ \A j \in 1 .. k - 1 : p[j] = Append(p, x)[j]
    OBVIOUS
  <2> QED BY OneMore, ZenonT(40)
<1>3. ASSUME NEW q \in R
      PROVE  q \in Beginnings(k)
  <2>0. PICK p \in Beginnings(k - 1) : \E x \in Positions(SettingsAt(p, k)) : q = Append(p, x)
    OBVIOUS
  <2>1. PICK x \in Positions(SettingsAt(p, k)) : q = Append(p, x)
    BY <2>0
  <2>2. /\ p \in [1 .. k - 1 -> Nat] /\ p \in Seq(Nat) /\ Len(p) = k - 1
        /\ \A j \in 1 .. k - 1 : p[j] \in Positions(SettingsAt(p, j))
    BY <1>0, BeginningIs DEF Beginnings
  <2>3. x \in Nat
    BY <2>1
  <2>4. /\ q \in [1 .. k -> Nat] /\ Len(q) = k /\ q[k] = x
        /\ \A j \in 1 .. k - 1 : p[j] = q[j]
    <3>1. p \in Seq(Nat) /\ Len(p) = k - 1
      BY <2>2
    <3>2. /\ Append(p, x) \in [1 .. k -> Nat] /\ Len(Append(p, x)) = k
          /\ Append(p, x)[k] = x
          /\ \A j \in 1 .. k - 1 : p[j] = Append(p, x)[j]
      BY <2>3, <3>1, <1>2
    <3> QED BY <2>1, <3>2
  <2>5. ASSUME NEW j \in 1 .. k
        PROVE  q[j] \in Positions(SettingsAt(q, j))
    <3>1. \A m \in 1 .. j - 1 : p[m] = q[m]
      BY <1>0, <2>4
    <3>2. SettingsAt(p, j) = SettingsAt(q, j)
      <4>1. /\ j \in Nat /\ Len(p) \in Nat /\ Len(q) \in Nat
            /\ j - 1 <= Len(p) /\ j - 1 <= Len(q)
        BY <1>0, <2>2, <2>4
      <4> QED BY <3>1, <4>1, SettingsAgree
    <3>3. CASE j = k
      BY <2>1, <2>4, <3>2, <3>3
    <3>4. CASE j # k
      <4>1. j \in 1 .. k - 1
        BY <1>0, <3>4
      <4> QED BY <2>2, <2>4, <3>2, <4>1
    <3> QED BY <3>3, <3>4
  <2> QED BY <2>4, <2>5 DEF Beginnings
<1> QED BY <1>1, <1>3

LEMMA PositionsAreNumbers ==
    ASSUME NEW s \in RangeSettings
    PROVE  Positions(s) \subseteq Nat
<1>1. SetupOK(s) => Count(s) \in Nat
  BY CountIsPositive
<1> QED BY <1>1 DEF Positions

\* The ranges with which the analysis begins make sense, where it could be set up.
LEMMA FirstRanges ==
    ASSUME Inv, pc \in Looping
    PROVE  \A i \in Level : SetupOK(sweeps[i].settings[Original[sweeps[i].on]])
<1>1. N \in Nat /\ Level = 1 .. N /\ sweeps \in SweepLists
  BY TypeFacts DEF Inv, Typed, TypedData
<1> TAKE i \in Level
<1>2. sweeps[i].on \in Variables
  BY <1>1, ListFacts
<1>3. N > 0
  BY <1>1
<1>4. SetupOK(SettingsOf(i, before))
  BY <1>3 DEF Inv, Kept
<1>5. before[sweeps[i].on] = Original[sweeps[i].on]
  BY <1>2 DEF Inv, Kept
<1> QED BY <1>4, <1>5 DEF SettingsOf

\* A variable gets no value that it cannot have, and so each level of a beginning has
\* settings that its statement gives.
LEMMA SettingsAreGiven ==
    ASSUME RangesFollowOuterLevels, sweeps \in SweepLists,
           \A i \in Level : SetupOK(sweeps[i].settings[Original[sweeps[i].on]]),
           NEW k \in Nat, k <= N, NEW p \in Beginnings(k), NEW i \in Level, i <= k + 1
    PROVE  \E x \in Values : SettingsAt(p, i) = sweeps[i].settings[x]
<1>1. /\ N \in Nat /\ Level = 1 .. N
      /\ p \in [1 .. k -> Nat] /\ Len(p) = k
      /\ \A j \in 1 .. k : p[j] \in Positions(SettingsAt(p, j))
  BY ListFacts, BeginningIs DEF Beginnings
<1> DEFINE Fine(j) == sweeps[j].target \in Variables => ValuesAt(p)[j] \in Values
<1>2. ASSUME NEW m \in Level, m <= k + 1, \A j \in 1 .. m - 1 : Fine(j)
      PROVE  \E x \in Values : /\ SettingsAt(p, m) = sweeps[m].settings[x]
                               /\ OuterLevels(m) = {} => x = Original[sweeps[m].on]
  <2>1. sweeps[m].on \in Variables
    BY ListFacts
  <2>2. CASE OuterLevels(m) = {}
    <3>1. Original[sweeps[m].on] \in Values
      BY <2>1, SweepAssumption
    <3>2. SettingsAt(p, m) = sweeps[m].settings[Original[sweeps[m].on]]
      BY <2>2 DEF SettingsAt
    <3> QED BY <3>1, <3>2
  <2>3. CASE OuterLevels(m) # {}
    <3> DEFINE c == CHOOSE j \in OuterLevels(m) : TRUE
    <3>1. c \in 1 .. m - 1 /\ sweeps[c].target = sweeps[m].on
      BY <2>3 DEF OuterLevels
    <3>2. SettingsAt(p, m) = sweeps[m].settings[ValuesAt(p)[c]]
      BY <2>3 DEF SettingsAt
    <3> HIDE DEF c
    <3>3. ValuesAt(p)[c] \in Values
      BY <1>2, <2>1, <3>1
    <3> QED BY <2>3, <3>2, <3>3
  <2> QED BY <2>2, <2>3
<1>3. ASSUME NEW m \in 1 .. k, \A j \in 1 .. m - 1 : Fine(j)
      PROVE  Fine(m)
  <2> SUFFICES ASSUME sweeps[m].target \in Variables
               PROVE  ValuesAt(p)[m] \in Values
    OBVIOUS
  <2>1. m \in Level /\ m <= k + 1
    BY <1>1
  <2>2. PICK x \in Values : /\ SettingsAt(p, m) = sweeps[m].settings[x]
                            /\ OuterLevels(m) = {} => x = Original[sweeps[m].on]
    BY <1>2, <1>3, <2>1
  <2>3. sweeps[m].on \in Variables /\ Original[sweeps[m].on] \in Values
    BY <2>1, ListFacts, SweepAssumption
  <2>4. SettingsAt(p, m) = sweeps[m].settings[Original[sweeps[m].on]]
    <3>1. CASE \A y, z \in Values : sweeps[m].settings[y] = sweeps[m].settings[z]
      BY <2>2, <2>3, <3>1
    <3>2. CASE \A j \in Level : sweeps[j].target = sweeps[m].on =>
                   j < m /\ sweeps[m].target \in Parameters
      <4>1. sweeps[m].target \notin Parameters
        BY SweepAssumption
      <4>2. OuterLevels(m) = {}
        <5>1. \A j \in 1 .. m - 1 : j \in Level
          BY <1>1, <2>1
        <5> QED BY <3>2, <4>1, <5>1 DEF OuterLevels
      <4> QED BY <2>2, <4>2
    <3> QED BY <2>1, <3>1, <3>2, RangeOfLevel
  <2>5. SetupOK(SettingsAt(p, m))
    BY <2>1, <2>4
  <2>6. SettingsAt(p, m) \in RangeSettings
    BY <2>1, <2>2, ListFacts
  <2>7. Count(SettingsAt(p, m)) \in Nat
    BY <2>5, <2>6, CountIsPositive
  <2>8. p[m] \in Nat /\ p[m] < Count(SettingsAt(p, m))
    BY <1>1, <2>5, <2>7 DEF Positions
  <2>9. PointValue(SettingsAt(p, m), p[m]) \in Values
    BY <2>1, <2>2, <2>5, <2>8, ListFacts
  <2> QED BY <1>1, <2>9, ValueFromSettings
<1> HIDE DEF Fine
<1> DEFINE T == {m \in 1 .. k : ~Fine(m)}
<1>4. T = {}
  <2> SUFFICES ASSUME T # {} PROVE FALSE
    OBVIOUS
  <2>1. PICK m \in T : \A y \in T : m <= y
    <3>1. T \in SUBSET Nat
      OBVIOUS
    <3> HIDE DEF T
    <3> QED BY <3>1, LeastExists
  <2>2. m \in 1 .. k /\ ~Fine(m)
    OBVIOUS
  <2>3. \A j \in 1 .. m - 1 : Fine(j)
    <3> TAKE j \in 1 .. m - 1
    <3>1. j \in 1 .. k /\ ~(m <= j)
      BY <2>2
    <3> QED BY <2>1, <3>1
  <2> QED BY <1>3, <2>2, <2>3
<1>5. \A j \in 1 .. i - 1 : Fine(j)
  BY <1>1, <1>4
<1> QED BY <1>2, <1>5

\* One unfolding of the definition of Points.
Longer(g, k) ==
    IF k = 0 THEN {<<>>}
    ELSE UNION {{Append(p, x) : x \in Positions(SettingsAt(p, k))} : p \in g[k - 1]}

LEMMA NoPositions == Beginnings(0) = {<<>>}
<1>1. \A p \in [1 .. 0 -> Nat] : p = <<>>
  OBVIOUS
<1>2. <<>> \in [1 .. 0 -> Nat]
  OBVIOUS
<1>3. Beginnings(0) \subseteq {<<>>}
  BY <1>1 DEF Beginnings
<1>4. <<>> \in Beginnings(0)
  BY <1>2 DEF Beginnings
<1> QED BY <1>3, <1>4

LEMMA PointsOfRanges ==
    ASSUME RangesFollowOuterLevels, sweeps \in SweepLists,
           \A i \in Level : SetupOK(sweeps[i].settings[Original[sweeps[i].on]])
    PROVE  Points = Beginnings(N)
<1>1. N \in Nat /\ Level = 1 .. N
  BY ListFacts
<1>2. ASSUME NEW k \in 1 .. N
      PROVE  Beginnings(k) =
                 UNION {{Append(p, x) : x \in Positions(SettingsAt(p, k))} : p \in Beginnings(k - 1)}
  <2>1. k \in Nat \ {0} /\ k - 1 \in Nat /\ k - 1 <= N /\ k \in Level /\ k <= (k - 1) + 1
    BY <1>1
  <2>2. ASSUME NEW p \in Beginnings(k - 1)
        PROVE  Positions(SettingsAt(p, k)) \subseteq Nat
    <3>1. \E x \in Values : SettingsAt(p, k) = sweeps[k].settings[x]
      BY <1>1, <2>1, SettingsAreGiven
    <3>2. SettingsAt(p, k) \in RangeSettings
      BY <1>1, <2>1, <3>1, ListFacts
    <3> QED BY <3>2, PositionsAreNumbers
  <2> QED BY <2>1, <2>2, LongerBeginnings
<1> DEFINE G == [k \in 0 .. N |-> Beginnings(k)]
<1>3. G = [k \in 0 .. N |-> Longer(G, k)]
  <2>1. ASSUME NEW k \in 0 .. N
        PROVE  Beginnings(k) = Longer(G, k)
    <3>1. CASE k = 0
      BY <3>1, NoPositions DEF Longer
    <3>2. CASE k # 0
      <4>1. k \in 1 .. N /\ k - 1 \in 0 .. N
        BY <1>1, <3>2
      <4>2. G[k - 1] = Beginnings(k - 1)
        BY <4>1
      <4> HIDE DEF G
      <4> QED BY <1>2, <3>2, <4>1, <4>2 DEF Longer
    <3> QED BY <3>1, <3>2
  <2> QED BY <2>1
<1> HIDE DEF G
<1> DEFINE F == CHOOSE g : g = [k \in 0 .. N |-> Longer(g, k)]
<1>4. F = [k \in 0 .. N |-> Longer(F, k)]
  BY <1>3
<1>5. Points = F[N]
  BY DEF Points, Longer
<1> HIDE DEF F
<1>6. \A k \in 0 .. N : F[k] = Longer(F, k)
  <2> DEFINE V(k) == Longer(F, k)
  <2>1. F = [k \in 0 .. N |-> V(k)]
    BY <1>4
  <2> HIDE DEF V
  <2>2. \A k \in 0 .. N : F[k] = V(k)
    BY <2>1
  <2> QED BY <2>2 DEF V
<1> DEFINE T == {k \in 0 .. N : F[k] # Beginnings(k)}
<1>7. T = {}
  <2> SUFFICES ASSUME T # {} PROVE FALSE
    OBVIOUS
  <2>1. PICK m \in T : \A y \in T : m <= y
    <3>1. T \in SUBSET Nat
      OBVIOUS
    <3> HIDE DEF T
    <3> QED BY <3>1, LeastExists
  <2>2. m \in 0 .. N /\ F[m] # Beginnings(m)
    OBVIOUS
  <2>3. CASE m = 0
    BY <1>6, <2>2, <2>3, NoPositions DEF Longer
  <2>4. CASE m # 0
    <3>1. m \in 1 .. N /\ m - 1 \in 0 .. N /\ ~(m <= m - 1)
      BY <1>1, <2>2, <2>4
    <3>2. F[m - 1] = Beginnings(m - 1)
      BY <2>1, <3>1
    <3>3. F[m] = UNION {{Append(p, x) : x \in Positions(SettingsAt(p, m))} : p \in Beginnings(m - 1)}
      BY <1>6, <2>2, <2>4, <3>2 DEF Longer
    <3> QED BY <1>2, <2>2, <3>1, <3>3
  <2> QED BY <2>3, <2>4
<1>8. N \in 0 .. N
  BY <1>1
<1> QED BY <1>5, <1>7, <1>8

\* The points of a sweep that could be set up.
LEMMA PointsAre ==
    ASSUME RangesFollowOuterLevels, Inv, pc \in Looping
    PROVE  Points = Beginnings(N)
<1>1. sweeps \in SweepLists
  BY DEF Inv, Typed, TypedData
<1> QED BY <1>1, FirstRanges, PointsOfRanges

-----------------------------------------------------------------------------
(* The points are computed in order, and all of them                       *)

\* The present point is one of the sweep.
LEMMA AtIsAPoint ==
    ASSUME RangesFollowOuterLevels, Inv, Valued, pc \in {"run", "core", "advance"}
    PROVE  at \in Points
<1>1. /\ N \in Nat /\ Level = 1 .. N /\ pc \in Looping
      /\ at \in [Level -> Nat] /\ setting \in [Level -> RangeSettings]
      /\ \A i \in Level : SetupOK(setting[i]) /\ at[i] < Count(setting[i])
  BY TypeFacts DEF Inv, Ranged, Looping
<1>2. ASSUME NEW j \in Level
      PROVE  at[j] \in Positions(SettingsAt(at, j))
  <2>1. setting[j] = SettingsAt(at, j)
    BY PointIsAsDefined
  <2>2. Count(setting[j]) \in Nat
    BY <1>1, CountIsPositive
  <2>3. at[j] \in 0 .. Count(setting[j]) - 1
    BY <1>1, <2>2
  <2> QED BY <1>1, <2>1, <2>3 DEF Positions
<1>3. at \in Beginnings(N)
  BY <1>1, <1>2 DEF Beginnings
<1> QED BY <1>1, <1>3, PointsAre

\* A point after the present one needs a level that has a value left, and does not come
\* before the next.
LEMMA NothingIsSkipped ==
    ASSUME RangesFollowOuterLevels, Inv, Valued, pc = "advance", NEW q \in Points, Before(at, q)
    PROVE  MayAdvance # {} /\ ~Before(q, NextAt)
<1>1. /\ N \in Nat /\ Level = 1 .. N /\ pc \in Looping
      /\ at \in [1 .. N -> Nat]
      /\ \A i \in Level : SetupOK(setting[i])
  BY TypeFacts DEF Inv, Ranged, Looping
<1>2. /\ q \in [1 .. N -> Nat]
      /\ \A j \in 1 .. N : q[j] \in Positions(SettingsAt(q, j))
  BY <1>1, PointsAre DEF Beginnings
<1>3. PICK k \in 1 .. N : at[k] < q[k] /\ \A j \in 1 .. k - 1 : at[j] = q[j]
  BY <1>1 DEF Before, Enumeration!Precedes
<1>4. HasNext(k)
  <2>1. SettingsAt(q, k) = SettingsAt(at, k)
    <3>1. Len(at) = N /\ Len(q) = N
      BY <1>1, <1>2, BeginningIs
    <3>2. k \in Nat /\ k - 1 <= N
      BY <1>1
    <3> QED BY <1>1, <1>3, <3>1, <3>2, SettingsAgree
  <2>2. setting[k] = SettingsAt(at, k)
    BY <1>1, PointIsAsDefined
  <2>3. SetupOK(setting[k]) /\ setting[k] \in RangeSettings
    BY <1>1 DEF Inv, Ranged
  <2>4. Count(setting[k]) \in Nat
    BY <2>3, CountIsPositive
  <2>5. q[k] \in 0 .. Count(setting[k]) - 1
    BY <1>2, <2>1, <2>2, <2>3 DEF Positions
  <2> QED BY <1>1, <1>2, <1>3, <2>4, <2>5 DEF HasNext
<1>5. MayAdvance # {}
  BY <1>1, <1>4 DEF MayAdvance
<1>6. Innermost \in 1 .. N /\ k <= Innermost
  BY <1>1, <1>4, <1>5, InnermostIs
<1>7. \A j \in 1 .. N : NextAt[j] = IF j < Innermost THEN at[j]
                                    ELSE IF j = Innermost THEN at[j] + 1 ELSE 0
  BY <1>1 DEF NextAt
<1>8. ASSUME NEW m \in 1 .. N, q[m] < NextAt[m], \A j \in 1 .. m - 1 : q[j] = NextAt[j]
      PROVE  FALSE
  <2>1. CASE m < k
    <3>1. m \in 1 .. k - 1 /\ m < Innermost
      BY <1>6, <2>1
    <3> QED BY <1>1, <1>2, <1>3, <1>7, <1>8, <3>1
  <2>2. CASE m = k
    BY <1>1, <1>2, <1>3, <1>6, <1>7, <1>8, <2>2
  <2>3. CASE m > k
    <3>1. q[k] = NextAt[k]
      BY <1>8, <2>3
    <3>2. k = Innermost
      BY <1>1, <1>2, <1>3, <1>6, <1>7, <3>1
    <3>3. NextAt[m] = 0
      BY <1>6, <1>7, <2>3, <3>2
    <3> QED BY <1>2, <1>8, <3>3
  <2> QED BY <2>1, <2>2, <2>3
<1>9. DOMAIN q = 1 .. N
  BY <1>2
<1>10. ~Before(q, NextAt)
  BY <1>8, <1>9 DEF Before, Enumeration!Precedes
<1> QED BY <1>5, <1>10

\* Steps that compute no point.
LEMMA EnumeratedStays ==
    ASSUME Enumerated, UNCHANGED <<sweeps, computed>>,
           \/ pc' \notin {"point", "set", "run", "core", "advance", "end", "return", "done"}
           \/ pc \in Approaching /\ pc' \in Approaching /\ at' = at
           \/ pc = "advance" /\ pc' = "advance" /\ at' = at
           \/ pc \in {"end", "return", "done"} /\ pc' \in {"end", "return", "done"}
    PROVE  Enumerated'
<1>1. Points' = Points
  BY PointsStay
<1>2. \A q : at' = at => (Before(q, at)' <=> Before(q, at))
  BY DEF Before, Enumeration!Precedes
<1> QED BY <1>1, <1>2 DEF Enumerated, Approaching

LEMMA SetupKeepsEnumerated ==
    ASSUME RangesFollowOuterLevels, Inv, Enumerated, Setup
    PROVE  Enumerated'
<1>1. /\ pc = "begin" /\ pc' = "point" /\ UNCHANGED <<sweeps, computed>>
      /\ at' = [i \in Level |-> 0]
  BY DEF Setup, Running, Continue, historyVars
<1>2. computed = {} /\ Points' = Points
  BY <1>1, PointsStay DEF Inv, Ordered
<1>3. /\ N' = N /\ Level' = Level /\ N \in Nat /\ Level = 1 .. N
  BY <1>1, ListStays, TypeFacts DEF Inv
<1>4. sweeps \in SweepLists
  BY DEF Inv, Typed, TypedData
<1>5. \A i \in Level : SetupOK(sweeps[i].settings[Original[sweeps[i].on]])
  <2> TAKE i \in Level
  <2>1. sweeps[i].on \in Variables
    BY <1>4, ListFacts
  <2>2. inForce[sweeps[i].on] = Original[sweeps[i].on]
    BY <1>1, <2>1 DEF Inv, Kept
  <2>3. SetupOK(SettingsOf(i, inForce))
    BY DEF Setup
  <2> QED BY <2>2, <2>3 DEF SettingsOf
<1>6. Points \subseteq [1 .. N -> Nat]
  BY <1>4, <1>5, PointsOfRanges DEF Beginnings
<1>7. at' \in [1 .. N -> Nat] /\ \A i \in 1 .. N : at'[i] = 0
  BY <1>1, <1>3
<1>8. \A q \in Points : ~Before(q, at')
  BY <1>3, <1>6, <1>7, ZerosAreFirst
<1>9. \A q : Before(q, at)' <=> Before(q, at')
  BY DEF Before, Enumeration!Precedes
<1> QED BY <1>1, <1>2, <1>8, <1>9 DEF Enumerated, Approaching

\* When the core has finished, the present point is computed, too.
LEMMA CoreFinishesKeepsEnumerated ==
    ASSUME RangesFollowOuterLevels, Inv, Valued, Enumerated, CoreFinishes
    PROVE  Enumerated'
<1>1. /\ pc = "core" /\ computed' = computed \cup {at} /\ UNCHANGED <<sweeps, at>>
      /\ pc' = IF N = 0 THEN "end" ELSE "advance"
  BY DEF CoreFinishes, Running, Yield, Continue, circuitVars, sweeperVars
<1>2. Points' = Points
  BY <1>1, PointsStay
<1>3. at \in Points
  BY <1>1, AtIsAPoint
<1>4. \A q \in Points : q \in computed <=> Before(q, at)
  BY <1>1 DEF Enumerated, Approaching
<1>5. \A q \in Points : q \in computed' <=> (q = at \/ Before(q, at))
  BY <1>1, <1>4
<1>6. computed' \subseteq Points
  BY <1>1, <1>3 DEF Enumerated
<1>7. \A q : Before(q, at)' <=> Before(q, at)
  BY <1>1 DEF Before, Enumeration!Precedes
<1>8. CASE N = 0
  <2>1. Points \subseteq [1 .. 0 -> Nat]
    BY <1>1, <1>8, PointsAre DEF Looping, Beginnings
  <2>2. \A q \in Points : q = at
    <3>1. \A q \in [1 .. 0 -> Nat] : q = <<>>
      OBVIOUS
    <3> QED BY <1>3, <2>1, <3>1
  <2>3. computed' = Points
    BY <1>5, <1>6, <2>2
  <2> QED BY <1>1, <1>2, <1>8, <2>3 DEF Enumerated, Approaching
<1>9. CASE N # 0
  BY <1>1, <1>2, <1>5, <1>6, <1>7, <1>9 DEF Enumerated, Approaching
<1> QED BY <1>8, <1>9

LEMMA AdvanceKeepsEnumerated ==
    ASSUME RangesFollowOuterLevels, Inv, Valued, Enumerated, Advance
    PROVE  Enumerated'
<1>1. /\ pc = "advance" /\ pc' = "point" /\ UNCHANGED <<sweeps, computed>>
      /\ MayAdvance # {} /\ at' = NextAt
  BY DEF Advance, NextAt, Running, Continue, circuitVars, historyVars
<1>2. Points' = Points
  BY <1>1, PointsStay
<1>3. /\ N \in Nat /\ Level = 1 .. N /\ at \in [1 .. N -> Nat]
      /\ Points \subseteq [1 .. N -> Nat]
  BY <1>1, TypeFacts, PointsAre DEF Inv, Ranged, Looping, Beginnings
<1>4. /\ \A q \in Points : q \in computed <=> (q = at \/ Before(q, at))
      /\ computed \subseteq Points
  BY <1>1 DEF Enumerated
<1>5. ASSUME NEW q \in Points
      PROVE  q \in computed <=> Before(q, NextAt)
  <2>1. q \in computed => Before(q, NextAt)
    BY <1>1, NextAtFollows
  <2>2. Before(at, q) => ~Before(q, NextAt)
    BY <1>1, NothingIsSkipped
  <2>3. q = at \/ Before(q, at) \/ Before(at, q)
    BY <1>3, BeforeIsTotal
  <2> QED BY <1>4, <2>1, <2>2, <2>3
<1>6. \A q : Before(q, at)' <=> Before(q, NextAt)
  BY <1>1 DEF Before, Enumeration!Precedes
<1> QED BY <1>1, <1>2, <1>4, <1>5, <1>6 DEF Enumerated, Approaching

\* No level has a value left: nothing comes after the present point.
LEMMA SweepEndsKeepsEnumerated ==
    ASSUME RangesFollowOuterLevels, Inv, Valued, Enumerated, SweepEnds
    PROVE  Enumerated'
<1>1. /\ pc = "advance" /\ pc' = "end" /\ UNCHANGED <<sweeps, computed>> /\ MayAdvance = {}
  BY DEF SweepEnds, Running, Continue, circuitVars, historyVars
<1>2. Points' = Points
  BY <1>1, PointsStay
<1>3. /\ N \in Nat /\ at \in [1 .. N -> Nat] /\ Points \subseteq [1 .. N -> Nat]
  BY <1>1, TypeFacts, PointsAre DEF Inv, Ranged, Looping, Beginnings
<1>4. ASSUME NEW q \in Points
      PROVE  q \in computed
  <2>1. ~Before(at, q)
    BY <1>1, NothingIsSkipped
  <2>2. q = at \/ Before(q, at)
    BY <1>3, <2>1, BeforeIsTotal
  <2> QED BY <1>1, <2>2 DEF Enumerated
<1>5. computed = Points
  BY <1>4 DEF Enumerated
<1> QED BY <1>1, <1>2, <1>5 DEF Enumerated, Approaching

LEMMA NextKeepsEnumerated ==
    ASSUME RangesFollowOuterLevels, Inv, Valued, Enumerated, [Next]_vars
    PROVE  Enumerated'
<1>0. pc \in Labels
  BY DEF Inv, Typed, TypedControl
<1>1. CASE Start
  <2>1. pc' = "begin" /\ computed' = {}
    BY <1>1 DEF Start
  <2> QED BY <2>1 DEF Enumerated, Approaching
<1>2. CASE Finish
  <2>1. pc' = "none" /\ UNCHANGED <<sweeps, computed>>
    BY <1>2 DEF Finish, historyVars
  <2> QED BY <2>1, EnumeratedStays
<1>3. CASE Resume \/ IsRunning \/ ResumeReturns \/ IsRunningReturns \/ UNCHANGED vars
  <2>1. UNCHANGED <<sweeps, computed>> /\ at' = at /\ pc' = pc
    BY <1>3 DEF Resume, IsRunning, Begin, ResumeReturns, IsRunningReturns, vars, circuitVars,
               sweeperVars, generatorVars, historyVars
  <2> QED BY <2>1, <1>0, EnumeratedStays DEF Approaching, Labels
<1>4. CASE SetupFails \/ SetPointFails \/ RebindFails \/ CoreAborts
  <2>1. pc' = "broken" /\ UNCHANGED <<sweeps, computed>>
    BY <1>4 DEF SetupFails, SetPointFails, RebindFails, CoreAborts, Yield, historyVars, circuitVars
  <2> QED BY <2>1, EnumeratedStays
<1>5. CASE Setup
  BY <1>5, SetupKeepsEnumerated
<1>6. CASE MarkPoint \/ (\E needsCoreRebuild \in BOOLEAN : SetPoint(needsCoreRebuild))
           \/ StartCore \/ CoreStops
  <2>1. /\ UNCHANGED <<sweeps, computed>> /\ at' = at
        /\ pc \in Approaching /\ pc' \in Approaching
    BY <1>6 DEF MarkPoint, SetPoint, StartCore, CoreStops, Running, Yield, Continue,
               circuitVars, sweeperVars, historyVars, Approaching
  <2> QED BY <2>1, EnumeratedStays
<1>7. CASE CoreFinishes
  BY <1>7, CoreFinishesKeepsEnumerated
<1>8. CASE Advance
  BY <1>8, AdvanceKeepsEnumerated
<1>9. CASE SweepEnds
  BY <1>9, SweepEndsKeepsEnumerated
<1>10. CASE End \/ Return
  <2>1. /\ UNCHANGED <<sweeps, computed>>
        /\ pc \in {"end", "return", "done"} /\ pc' \in {"end", "return", "done"}
    BY <1>10 DEF End, Return, Running, Yield, circuitVars, historyVars
  <2> QED BY <2>1, EnumeratedStays
<1> QED BY <1>1, <1>2, <1>3, <1>4, <1>5, <1>6, <1>7, <1>8, <1>9, <1>10
        DEF Next, Fill, CoroutineStep

\* Where ranges follow outer levels, exactly the points before the present one were
\* computed, and at the end all of them.
THEOREM ComputedInOrder ==
    ASSUME RangesFollowOuterLevels
    PROVE  Spec => []Enumerated
<1>1. Init => Enumerated
  BY DEF Init, CoroutineInit, Enumerated, Approaching
<1>2. Inv /\ Valued /\ Enumerated /\ [Next]_vars => Enumerated'
  BY NextKeepsEnumerated
<1> QED BY <1>1, <1>2, InvHolds, RangesFollowValues, PTL DEF Spec

\* A step of the analysis is one of the enumeration, or hidden from it.
LEMMA StepEnumerates ==
    ASSUME RangesFollowOuterLevels, Inv, Valued, Enumerated, [Next]_vars
    PROVE  [Enumeration!EnumerationNext]_<<Points, computed, SaysFinished>>
<1> USE DEF Enumeration!EnumerationNext
<1>0. Points' = Points
  <2>1. sweeps' = sweeps
    BY DEF Next, Start, Resume, IsRunning, Begin, ResumeReturns, IsRunningReturns, Finish, Fill,
           CoroutineStep, SetupFails, Setup, MarkPoint, SetPoint, SetPointFails, RebindFails,
           StartCore, CoreStops, CoreAborts, CoreFinishes, Advance, SweepEnds, End, Return,
           vars, circuitVars
  <2> QED BY <2>1, PointsStay
<1>1. CASE Start
  <2>1. computed' = {} /\ lastCoroutineState' = "none"
    BY <1>1 DEF Start
  <2> QED BY <2>1 DEF Enumeration!StartOver, SaysFinished
<1>2. CASE Finish
  <2>1. computed' = computed /\ pc' = "none"
    BY <1>2 DEF Finish, historyVars
  <2> QED BY <1>0, <2>1 DEF Enumeration!Dismiss, SaysFinished, isValid
<1>3. CASE Resume \/ IsRunning \/ IsRunningReturns \/ UNCHANGED vars
  <2>1. UNCHANGED <<computed, pc, lastCoroutineState>>
    BY <1>3 DEF Resume, IsRunning, Begin, IsRunningReturns, vars, historyVars, generatorVars,
               clientVars
  <2>2. SaysFinished' = SaysFinished
    BY <2>1 DEF SaysFinished, isValid
  <2> QED BY <1>0, <2>1, <2>2
<1>4. CASE ResumeReturns
  <2>1. computed' = computed /\ pc' = pc /\ lastCoroutineState' = value
    BY <1>4 DEF ResumeReturns, historyVars
  <2>2. CASE ~SaysFinished'
    BY <1>0, <2>1, <2>2 DEF Enumeration!Dismiss
  <2>3. CASE SaysFinished'
    <3>1. isValid /\ value = "Finished"
      BY <2>1, <2>3 DEF SaysFinished, isValid
    <3>2. computed = Points
      BY <3>1 DEF Inv, Told, Enumerated
    <3>3. SaysFinished' = TRUE
      BY <2>3 DEF SaysFinished
    <3> QED BY <1>0, <2>1, <3>2, <3>3 DEF Enumeration!Report
  <2> QED BY <2>2, <2>3
<1>5. CASE Fill
  <2>1. turn = "coroutine" /\ pc # "none" /\ pc' # "none" /\ lastCoroutineState' = lastCoroutineState
    <3>1. turn = "coroutine" /\ pc' # "none" /\ lastCoroutineState' = lastCoroutineState
      BY <1>5 DEF Fill, CoroutineStep, SetupFails, Setup, MarkPoint, SetPoint, SetPointFails,
             RebindFails, StartCore, CoreStops, CoreAborts, CoreFinishes, Advance, SweepEnds, End,
             Return, Running, Yield, Continue
    <3> QED BY <3>1 DEF Inv, Told
  <2>2. SaysFinished' = SaysFinished
    BY <2>1 DEF SaysFinished, isValid
  <2>3. CASE ~CoreFinishes
    <3>1. computed' = computed
      BY <1>5, <2>3 DEF Fill, CoroutineStep, SetupFails, Setup, MarkPoint, SetPoint,
             SetPointFails, RebindFails, StartCore, CoreStops, CoreAborts, Advance, SweepEnds,
             End, Return, historyVars
    <3> QED BY <1>0, <2>2, <3>1
  <2>4. CASE CoreFinishes
    <3>1. pc = "core" /\ computed' = computed \cup {at}
      BY <2>4 DEF CoreFinishes, Running
    <3>2. at \in Points /\ \A q \in Points : q \in computed <=> Before(q, at)
      BY <3>1, AtIsAPoint DEF Enumerated, Approaching
    <3>3. N \in Nat /\ Points \subseteq [1 .. N -> Nat]
      BY <3>1, TypeFacts, PointsAre DEF Inv, Looping, Beginnings
    <3>4. ~Before(at, at)
      BY <3>2, <3>3, BeforeIsStrict
    <3>5. \A q \in Points \ computed : at = q \/ Before(at, q)
      BY <3>2, <3>3, BeforeIsTotal
    <3>6. at \in Points \ computed
      BY <3>2, <3>4
    <3>7. ~SaysFinished
      BY <3>1 DEF Inv, Told, SaysFinished
    <3>8. Enumeration!Visit
      BY <1>0, <2>2, <3>1, <3>5, <3>6, <3>7 DEF Enumeration!Visit, Before
    <3> QED BY <3>8
  <2> QED BY <2>3, <2>4
<1> QED BY <1>1, <1>2, <1>3, <1>4, <1>5 DEF Next

\* Where ranges follow outer levels, an analysis is an enumeration of the points of its
\* sweep: each once, in the order of the nested loops, and Finished is said only when
\* all were computed (ParameterSweeper::advance(), Analysis::coroutine()).
THEOREM AnalysisEnumerates ==
    ASSUME RangesFollowOuterLevels
    PROVE  Spec => EnumeratesInOrder
<1>1. Init => Enumeration!EnumerationInit
  BY DEF Init, CoroutineInit, Enumeration!EnumerationInit, SaysFinished, isValid
<1>2. Inv /\ Valued /\ Enumerated /\ [Next]_vars
          => [Enumeration!EnumerationNext]_<<Points, computed, SaysFinished>>
  BY StepEnumerates
<1> QED BY <1>1, <1>2, InvHolds, RangesFollowValues, ComputedInOrder, PTL
        DEF Spec, EnumeratesInOrder, Enumeration!EnumerationSpec
=============================================================================
