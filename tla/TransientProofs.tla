-------------------------- MODULE TransientProofs --------------------------
(***************************************************************************)
(* Proofs about Transient, for all settings, waveform corners, step bounds *)
(* and factors, and for any outcome of the solver and the error test.      *)
(*                                                                         *)
(* Main line: the step under way ends before or at the next time that must *)
(* be met, although a rejected point forgets its break point; the points   *)
(* since the last discontinuity are at least as many as the order asks     *)
(* for; and the noise generators are at the time the step ends at.         *)
(*                                                                         *)
(* The last part is about the histories of the delay lines, DelayLines.    *)
(***************************************************************************)
EXTENDS ShootingTransient, DelayLines, TLAPS, SequenceTheorems, FiniteSetTheorems, WellFoundedInduction

-----------------------------------------------------------------------------
(* The inductive invariant                                                 *)

Live == core \in {"Running", "Stopped"}

Stepping == stage \in {"solve", "decide"}

\* Times that must be points of a run that gets so far
Corners == {b \in Breaks \cup {p.start, p.stop} : b > 0}

Results == [ok: BOOLEAN, next: Nat, bound: Nat, disc: BOOLEAN, finish: BOOLEAN, stop: BOOLEAN]

Types ==
    /\ p \in Settings
    /\ core \in {"Running", "Stopped"} \cup Terminal
    /\ stage \in {"check", "initial", "first", "solve", "decide", "advance"}
    /\ finished \in BOOLEAN /\ forced \in BOOLEAN
    /\ {tk, hk, tSolve, since, trapHistory, evaluated} \subseteq Nat
    /\ order \in Nat
    /\ bp \in Seq(Nat) /\ Len(bp) = 2
    /\ accepted \in [bound : Nat, hmax : Nat]
    /\ pastTimesteps \in Seq(Nat)
    /\ points \in Seq([t : Nat, order : Nat, brk : BOOLEAN])
    /\ result \in Results
    /\ next \in [accept : BOOLEAN, h : Nat, t : Nat, order : Nat]
    /\ noise \in [at : Nat, last : Nat, index : Nat, drawn : Nat, back : {0, 1}, panic : BOOLEAN]

\* Nothing was stepped before the loop is reached.
Untouched ==
    stage \in {"check", "initial", "first"} =>
        /\ tk = 0 /\ tSolve = 0 /\ hk = 0 /\ order = 1 /\ since = 0
        /\ bp = <<0, 0>> /\ pastTimesteps = <<>> /\ noise = NoNoise
        /\ stage # "first" => points = <<>>
        /\ stage = "first" => /\ points = <<[t |-> 0, order |-> 0, brk |-> TRUE]>>
                              /\ result.next = SetBreakPoint(0)

\* The parameters that were checked
Accepted ==
    /\ stage # "check" => ~RejectedParameters(p)
    /\ stage \in {"solve", "decide", "advance"} => p.stop > 0

\* A step from tk to t that leaves out no time that must be met
StepFits(t, h) ==
    /\ h = t - tk /\ tk < t /\ t <= bp[1]
    /\ \A c \in Corners : tk < c => t <= c

Bracketed ==
    Live =>
        /\ stage \in {"solve", "decide", "advance"} => bp[2] <= tk /\ tk < p.stop
        /\ Stepping => StepFits(tSolve, hk)
        /\ stage = "advance" /\ next.h # 0 => StepFits(next.t, next.h)

\* What the solver reports comes after the point it solved.
Reported ==
    stage = "decide" =>
        /\ tSolve < result.next
        /\ result.ok => \A c \in Corners : tSolve < c => result.next <= c

Met == /\ \A c \in Corners : c <= tk => c \in Times
       /\ tk <= Max({0, p.stop})
       /\ stage \in {"solve", "decide", "advance"} => points # <<>> /\ points[1].t = tk

OrderFits(n) == n = 1 \/ (n \in 1 .. p.maxord /\ n <= since)

\* The points since the last discontinuity, and the steps between all points
History ==
    /\ order = 1 \/ order \in 1 .. p.maxord
    /\ OrderFits(order) \/ stage = "advance"
    /\ stage = "advance" => OrderFits(next.order)
    /\ stage \in {"solve", "decide", "advance"} => since < Len(points)
    /\ \A i \in 1 .. since - 1 : ~points[i].brk
    /\ points # <<>> => \/ Len(pastTimesteps) = Len(points) - 1
                        \/ Len(pastTimesteps) < Len(points) /\ Len(pastTimesteps) = p.unknowns + 1
    /\ PastStepsAreDistances

\* The generators at the time t the step under way ends at
NoiseAt(t) ==
    /\ p.noise = "zoh" => noise.index = SampleIndex(t)
    /\ p.noise = "sde" => noise.at = t /\ noise.last = tk /\ noise.drawn = Len(points)

Noise ==
    /\ noise.panic => core = "Thrown"
    /\ core = "Thrown" => LostStep
    /\ p.noise = "zoh" => noise.drawn - noise.back = noise.index
    /\ Live =>
        /\ Stepping => NoiseAt(tSolve)
        /\ stage = "advance" /\ next.h # 0 => NoiseAt(next.t)
        /\ stage \in {"solve", "decide", "advance"} /\ p.noise = "zoh" =>
              /\ noise.index \in {SampleIndex(tk), SampleIndex(tk) + 1}
              /\ noise.back = 1 => noise.index = SampleIndex(tk)

Inv == /\ Types /\ Untouched /\ Accepted /\ Bracketed /\ Reported /\ Met /\ History /\ Noise

-----------------------------------------------------------------------------
(* Least elements and quotients                                            *)

\* A set of natural numbers that is not empty has a least one: Min is defined.
LEMMA LeastExists ==
    ASSUME NEW T \in SUBSET Nat, T # {}
    PROVE  Min(T) \in T /\ \A y \in T : Min(T) <= y
<1> DEFINE R == OpToRel(<, Nat)
<1>1. R = {ss \in Nat \X Nat : ss[1] < ss[2]}
  BY DEF OpToRel
<1>2. IsWellFoundedOn(R, Nat)
  BY NatLessThanWellFounded
<1>3. \A x, y \in Nat : <<y, x>> \in R <=> y < x
  BY <1>1
<1> HIDE DEF R
<1>4. \E x \in T : \A y \in T : ~ (<<y, x>> \in R)
  BY <1>2, WFMin
<1>5. PICK x \in T : \A y \in T : ~ (<<y, x>> \in R)
  BY <1>4
<1>6. ASSUME NEW y \in T
      PROVE  x <= y
  <2>1. x \in Nat /\ y \in Nat
    OBVIOUS
  <2>2. ~ (<<y, x>> \in R)
    BY <1>5
  <2>3. ~ (y < x)
    BY <1>3, <2>1, <2>2
  <2> QED BY <2>1, <2>3
<1> QED BY <1>6 DEF Min

\* The smaller of two numbers: std::min
LEMMA MinOfTwo ==
    ASSUME NEW a \in Int, NEW b \in Int
    PROVE  Min({a, b}) \in {a, b} /\ Min({a, b}) <= a /\ Min({a, b}) <= b
<1>1. \E x \in {a, b} : \A y \in {a, b} : x <= y
  OBVIOUS
<1> QED BY <1>1 DEF Min

\* The larger of two numbers
LEMMA MaxOfTwo ==
    ASSUME NEW a \in Int, NEW b \in Int
    PROVE  Max({a, b}) \in {a, b} /\ Max({a, b}) >= a /\ Max({a, b}) >= b
<1>1. \E x \in {a, b} : \A y \in {a, b} : x >= y
  OBVIOUS
<1> QED BY <1>1 DEF Max

\* A part of a number is not larger, and smaller when it is at most half of it.
LEMMA Quotient ==
    ASSUME NEW a \in Nat, NEW d \in Nat \ {0}
    PROVE  a \div d \in Nat /\ a \div d <= a /\ (d >= 2 /\ a >= 1 => a \div d < a)
OBVIOUS

\* The number of the interval a time is in grows with time, by at most one over one interval.
LEMMA Intervals ==
    ASSUME NEW a \in Nat, NEW b \in Nat, NEW n \in Nat \ {0}, a <= b
    PROVE  /\ a \div n \in Nat /\ b \div n \in Nat /\ a \div n <= b \div n
           /\ b <= a + n => b \div n <= (a \div n) + 1
OBVIOUS

\* What the settings of a run are
LEMMA SettingTypes ==
    ASSUME p \in Settings
    PROVE  /\ p.stop \in Int /\ p.start \in Int /\ p.step \in Int /\ p.maxstep \in Int
           /\ p.freqstep \in Int /\ p.rmax \in Int /\ p.minptsstep \in Int /\ p.maxord \in Int
           /\ p.stop # 1 /\ p.start # 1 /\ p.noisestep \in Nat \ {0, 1} /\ p.unknowns \in Nat
           /\ p.filter \in BOOLEAN /\ p.contbypass \in BOOLEAN /\ p.stop < Horizon
BY SettingsAssumption, BreaksAssumption

-----------------------------------------------------------------------------
(* Steps and break points                                                  *)

\* Limiting a step makes it no longer, and never takes it away.
LEMMA LimitedStep ==
    ASSUME NEW h \in Int, NEW limit \in Int
    PROVE  /\ LimitBy(h, limit) \in Int /\ LimitBy(h, limit) <= h
           /\ h >= 0 => LimitBy(h, limit) >= 0
           /\ h > 0 => LimitBy(h, limit) > 0
           /\ limit > 0 => LimitBy(h, limit) <= limit
BY MinOfTwo DEF LimitBy

\* The limits of a step that hold everywhere: it is no longer than an interval of the noise.
LEMMA LimitOfStep ==
    ASSUME p \in Settings, NEW h \in Int
    PROVE  /\ StepLimit(h) \in Int /\ StepLimit(h) <= h
           /\ h > 0 => StepLimit(h) > 0
           /\ p.noise # "none" => StepLimit(h) <= p.noisestep
<1> DEFINE a == LimitBy(h, p.maxstep)
           b == LimitBy(a, NoiseStep)
<1>1. p.maxstep \in Int /\ p.freqstep \in Int /\ NoiseStep \in Int
      /\ (p.noise # "none" => NoiseStep = p.noisestep /\ p.noisestep > 0)
  BY SettingTypes DEF NoiseStep
<1>2. a \in Int /\ a <= h /\ (h > 0 => a > 0)
  BY <1>1, LimitedStep
<1> HIDE DEF a
<1>3. b \in Int /\ b <= a /\ (a > 0 => b > 0) /\ (NoiseStep > 0 => b <= NoiseStep)
  BY <1>1, <1>2, LimitedStep
<1> HIDE DEF b
<1>4. LET c == LimitBy(b, p.freqstep) IN c \in Int /\ c <= b /\ (b > 0 => c > 0)
  BY <1>1, <1>3, LimitedStep
<1>5. StepLimit(h) = LimitBy(b, p.freqstep)
  BY DEF StepLimit, a, b
<1> QED BY <1>1, <1>2, <1>3, <1>4, <1>5

\* The next corner of the waveforms is later than t, and none lies before it.
LEMMA NextCorner ==
    ASSUME NEW t \in Nat, t < Horizon
    PROVE  /\ SetBreakPoint(t) \in Nat /\ t < SetBreakPoint(t)
           /\ SetBreakPoint(t) \in Breaks \cup {Horizon}
           /\ \A b \in Breaks : t < b => SetBreakPoint(t) <= b
<1> DEFINE T == {b \in Breaks : b > t} \cup {Horizon}
<1>1. T \in SUBSET Nat /\ T # {} /\ \A b \in T : b > t
  <2>1. Horizon \in Nat /\ \A b \in Breaks : b \in Nat
    BY BreaksAssumption
  <2> QED BY <2>1
<1>2. Min(T) \in T /\ \A y \in T : Min(T) <= y
  BY <1>1, LeastExists
<1>3. SetBreakPoint(t) = Min(T)
  BY DEF SetBreakPoint
<1> QED BY <1>1, <1>2, <1>3

\* With the start and the stop time a break point may only move closer.
LEMMA UpdatedBreakPoint ==
    ASSUME p \in Settings, NEW b \in Nat, NEW t \in Nat, t < b
    PROVE  /\ UpdateBreakPoint(b, t) \in Nat /\ t < UpdateBreakPoint(b, t)
           /\ UpdateBreakPoint(b, t) <= b /\ UpdateBreakPoint(b, t) \in {b, p.stop, p.start}
           /\ \A c \in {p.stop, p.start} : t < c => UpdateBreakPoint(b, t) <= c
<1> DEFINE T == {b} \cup {c \in {p.stop, p.start} : c > t}
<1>1. T \in SUBSET Nat /\ T # {} /\ \A x \in T : x > t
  BY SettingTypes
<1>2. Min(T) \in T /\ \A y \in T : Min(T) <= y
  BY <1>1, LeastExists
<1>3. UpdateBreakPoint(b, t) = Min(T)
  BY DEF UpdateBreakPoint
<1> QED BY <1>1, <1>2, <1>3

\* A step that is cut ends where it says, not later than the cut.
LEMMA CutFits ==
    ASSUME NEW origin \in Nat, NEW h \in Nat, NEW cut \in Nat, origin < cut
    PROVE  LET s == CutStep(origin, h, cut)
           IN  /\ s.h \in Nat /\ s.t \in Nat /\ s.h = s.t - origin
               /\ s.h <= h /\ s.t <= cut
<1>1. h \div 2 \in Nat /\ h \div 2 <= h
  OBVIOUS
<1> QED BY <1>1 DEF CutStep

-----------------------------------------------------------------------------
(* The noise generators                                                    *)

NoiseTypes == [at : Nat, last : Nat, index : Nat, drawn : Nat, back : {0, 1}, panic : BOOLEAN]

\* A generator that holds its samples moves on by at most one interval.
LEMMA AdvancedZoh ==
    ASSUME NEW g \in NoiseTypes, NEW from \in Nat, NEW t \in Nat, p \in Settings,
           from <= t, t <= from + p.noisestep, g.index = SampleIndex(from),
           ~g.panic, g.drawn - g.back = g.index
    PROVE  LET a == AdvanceZoh(g, t)
           IN  /\ a \in NoiseTypes /\ ~a.panic /\ a.drawn - a.back = a.index
               /\ a.index = SampleIndex(t)
               /\ a.index \in {SampleIndex(from), SampleIndex(from) + 1}
               /\ a.back = 1 => a.index = SampleIndex(from)
<1> DEFINE i == SampleIndex(t)
<1>1. i \in Nat /\ SampleIndex(from) \in Nat /\ i \in {SampleIndex(from), SampleIndex(from) + 1}
  <2>1. p.noisestep \in Nat \ {0}
    BY SettingTypes
  <2>2. /\ from \div p.noisestep \in Nat /\ t \div p.noisestep \in Nat
        /\ from \div p.noisestep <= t \div p.noisestep
        /\ t \div p.noisestep <= (from \div p.noisestep) + 1
    BY <2>1, Intervals
  <2> QED BY <2>2 DEF SampleIndex
<1> HIDE DEF i
<1>2. /\ g.drawn \in Nat /\ g.back \in {0, 1} /\ g.index \in Nat
  BY DEF NoiseTypes
<1>3. CASE i = g.index
  <2>1. AdvanceZoh(g, t) = g
    BY <1>3, <1>2 DEF AdvanceZoh, i
  <2> QED BY <2>1, <1>3 DEF i
<1>4. CASE i = g.index + 1 /\ g.back = 1
  <2> DEFINE a == [g EXCEPT !.index = i, !.back = 0]
  <2>1. AdvanceZoh(g, t) = a
    BY <1>4, <1>2 DEF AdvanceZoh, i, NoiseTypes
  <2>2. a \in NoiseTypes /\ a.back = 0 /\ a.index = i /\ a.drawn = g.drawn /\ a.panic = g.panic
    BY <1>1 DEF NoiseTypes
  <2> HIDE DEF a
  <2> QED BY <2>1, <2>2, <1>1, <1>2, <1>4 DEF i
<1>5. CASE i = g.index + 1 /\ g.back = 0
  <2> DEFINE n == g.drawn + 1
             a == [g EXCEPT !.index = i, !.drawn = n]
  <2>1. AdvanceZoh(g, t) = a
    BY <1>5, <1>2 DEF AdvanceZoh, i, NoiseTypes
  <2>2. n \in Nat
    BY <1>2
  <2>3. a \in NoiseTypes /\ a.back = g.back /\ a.index = i /\ a.drawn = n /\ a.panic = g.panic
    BY <1>1, <2>2 DEF NoiseTypes
  <2> HIDE DEF a
  <2> QED BY <2>1, <2>3, <1>1, <1>2, <1>5 DEF i
<1> QED BY <1>1, <1>2, <1>3, <1>4, <1>5

\* It goes back by at most one interval, and only once before it moves on again.
LEMMA RevertedZoh ==
    ASSUME NEW g \in NoiseTypes, NEW from \in Nat, NEW t \in Nat, NEW low \in Nat, p \in Settings,
           low <= t, t <= from, g.index = SampleIndex(from),
           ~g.panic, g.drawn - g.back = g.index,
           g.index \in {SampleIndex(low), SampleIndex(low) + 1},
           g.back = 1 => g.index = SampleIndex(low)
    PROVE  LET a == RevertZoh(g, t)
           IN  /\ a \in NoiseTypes /\ ~a.panic /\ a.drawn - a.back = a.index
               /\ a.index = SampleIndex(t)
               /\ a.index \in {SampleIndex(low), SampleIndex(low) + 1}
               /\ a.back = 1 => a.index = SampleIndex(low)
<1> DEFINE i == SampleIndex(t)
<1>1. i \in Nat /\ SampleIndex(low) \in Nat /\ SampleIndex(low) <= i /\ i <= SampleIndex(from)
  BY Intervals, SettingTypes DEF SampleIndex
<1> HIDE DEF i
<1>2. /\ g.drawn \in Nat /\ g.back \in {0, 1} /\ g.index \in Nat
  BY DEF NoiseTypes
<1>3. CASE i = g.index
  <2>1. RevertZoh(g, t) = g
    BY <1>3, <1>2 DEF RevertZoh, i
  <2> QED BY <2>1, <1>3 DEF i
<1>4. CASE i # g.index
  <2> DEFINE a == [g EXCEPT !.index = i, !.back = 1]
  <2>1. i = g.index - 1 /\ g.back = 0 /\ i = SampleIndex(low)
    BY <1>1, <1>2, <1>4
  <2>2. RevertZoh(g, t) = a
    BY <2>1, <1>2 DEF RevertZoh, i, NoiseTypes
  <2>3. a \in NoiseTypes /\ a.back = 1 /\ a.index = i /\ a.drawn = g.drawn /\ a.panic = g.panic
    BY <1>1 DEF NoiseTypes
  <2> HIDE DEF a
  <2> QED BY <2>1, <2>2, <2>3, <1>1, <1>2 DEF i
<1> QED BY <1>3, <1>4

\* A generator of a differential equation draws once for every step that is accepted.
LEMMA AdvancedSde ==
    ASSUME NEW g \in NoiseTypes, NEW t \in Nat, g.last < t, ~g.panic
    PROVE  LET a == AdvanceSde(g, t)
           IN  a \in NoiseTypes /\ ~a.panic /\ a.at = t /\ a.last = g.at /\ a.drawn = g.drawn + 1
<1> DEFINE n == g.drawn + 1
           l == g.at
           a == [g EXCEPT !.drawn = n, !.last = l, !.at = t]
<1>1. AdvanceSde(g, t) = a
  BY DEF AdvanceSde, NoiseTypes
<1>2. n \in Nat /\ l \in Nat
  BY DEF NoiseTypes
<1>3. a \in NoiseTypes /\ a.at = t /\ a.last = l /\ a.drawn = n /\ a.panic = g.panic
  BY <1>2 DEF NoiseTypes
<1> QED BY <1>1, <1>3

\* Reverting it keeps what was drawn.
LEMMA RevertedSde ==
    ASSUME NEW g \in NoiseTypes, NEW t \in Nat, g.last < t, ~g.panic
    PROVE  LET a == RevertSde(g, t)
           IN  a \in NoiseTypes /\ ~a.panic /\ a.at = t /\ a.last = g.last /\ a.drawn = g.drawn
BY DEF RevertSde, NoiseTypes

\* The generators of a run move on with the step.
LEMMA NoiseAdvances ==
    ASSUME p \in Settings, ~RejectedParameters(p), noise \in NoiseTypes, ~noise.panic,
           p.noise = "zoh" => noise.drawn - noise.back = noise.index,
           NEW from \in Nat, NEW t \in Nat, from <= t,
           p.noise # "none" => t <= from + p.noisestep,
           p.noise = "zoh" => noise.index = SampleIndex(from),
           p.noise = "sde" => noise.last < t
    PROVE  LET a == AdvanceNoise(t)
           IN  /\ a \in NoiseTypes /\ ~a.panic
               /\ p.noise = "zoh" =>
                     /\ a.drawn - a.back = a.index /\ a.index = SampleIndex(t)
                     /\ a.index \in {SampleIndex(from), SampleIndex(from) + 1}
                     /\ a.back = 1 => a.index = SampleIndex(from)
               /\ p.noise = "sde" => a.at = t /\ a.last = noise.at /\ a.drawn = noise.drawn + 1
<1>1. p.noise \in {"none", "zoh", "sde"}
  BY DEF RejectedParameters
<1>2. CASE p.noise = "none"
  BY <1>2 DEF AdvanceNoise
<1>3. CASE p.noise = "zoh"
  <2>1. AdvanceNoise(t) = AdvanceZoh(noise, t)
    BY <1>3 DEF AdvanceNoise
  <2> QED BY <1>3, <2>1, AdvancedZoh
<1>4. CASE p.noise = "sde"
  <2>1. AdvanceNoise(t) = AdvanceSde(noise, t)
    BY <1>4 DEF AdvanceNoise
  <2> QED BY <1>4, <2>1, AdvancedSde
<1> QED BY <1>1, <1>2, <1>3, <1>4

\* They go back with it, not before tk.
LEMMA NoiseReverts ==
    ASSUME p \in Settings, ~RejectedParameters(p), noise \in NoiseTypes, ~noise.panic,
           p.noise = "zoh" => noise.drawn - noise.back = noise.index,
           tk \in Nat, NEW from \in Nat, NEW t \in Nat, tk <= t, t <= from,
           p.noise = "sde" => tk < t, NoiseAt(from),
           p.noise = "zoh" =>
              /\ noise.index \in {SampleIndex(tk), SampleIndex(tk) + 1}
              /\ noise.back = 1 => noise.index = SampleIndex(tk)
    PROVE  LET a == RevertNoise(t)
           IN  /\ a \in NoiseTypes /\ ~a.panic
               /\ p.noise = "zoh" =>
                     /\ a.drawn - a.back = a.index /\ a.index = SampleIndex(t)
                     /\ a.index \in {SampleIndex(tk), SampleIndex(tk) + 1}
                     /\ a.back = 1 => a.index = SampleIndex(tk)
               /\ p.noise = "sde" => a.at = t /\ a.last = tk /\ a.drawn = Len(points)
<1>1. p.noise \in {"none", "zoh", "sde"}
  BY DEF RejectedParameters
<1>2. CASE p.noise = "none"
  BY <1>2 DEF RevertNoise
<1>3. CASE p.noise = "zoh"
  <2>1. RevertNoise(t) = RevertZoh(noise, t)
    BY <1>3 DEF RevertNoise
  <2> QED BY <1>3, <2>1, RevertedZoh DEF NoiseAt
<1>4. CASE p.noise = "sde"
  <2>1. RevertNoise(t) = RevertSde(noise, t)
    BY <1>4 DEF RevertNoise
  <2> QED BY <1>4, <2>1, RevertedSde DEF NoiseAt
<1> QED BY <1>1, <1>2, <1>3, <1>4

-----------------------------------------------------------------------------
(* The start                                                               *)

\* The invariant holds before the parameters are checked.
LEMMA InvInit == Init => Inv
<1> SUFFICES ASSUME Init
             PROVE  Inv
  OBVIOUS
<1> USE DEF Init
<1>1. Types
  <2>1. bp \in Seq(Nat) /\ Len(bp) = 2
    OBVIOUS
  <2>2. pastTimesteps \in Seq(Nat) /\ points \in Seq([t : Nat, order : Nat, brk : BOOLEAN])
    OBVIOUS
  <2>3. result \in Results
    BY BreaksAssumption DEF Results, NoResult
  <2>4. noise \in [at : Nat, last : Nat, index : Nat, drawn : Nat, back : {0, 1}, panic : BOOLEAN]
    BY DEF NoNoise
  <2>5. next \in [accept : BOOLEAN, h : Nat, t : Nat, order : Nat]
    BY DEF NoNext
  <2>6. core \in {"Running", "Stopped"} \cup Terminal
        /\ stage \in {"check", "initial", "first", "solve", "decide", "advance"}
    OBVIOUS
  <2>7. {tk, hk, tSolve, since, trapHistory, evaluated} \subseteq Nat /\ order \in Nat
    OBVIOUS
  <2>8. accepted \in [bound : Nat, hmax : Nat] /\ finished \in BOOLEAN /\ forced \in BOOLEAN
    OBVIOUS
  <2> HIDE DEF Init
  <2> QED BY <2>1, <2>2, <2>3, <2>4, <2>5, <2>6, <2>7, <2>8 DEF Types, Init
<1>2. Untouched /\ Accepted /\ Bracketed /\ Reported
  BY DEF Untouched, Accepted, Bracketed, Reported, Stepping
<1>3. Met
  <2>1. p.stop \in Int /\ p.start \in Int /\ \A b \in Breaks : b \in Int
    BY SettingTypes, BreaksAssumption
  <2>2. 0 <= Max({0, p.stop})
    <3>1. 0 \in Int /\ p.stop \in Int
      BY <2>1
    <3>2. Max({0, p.stop}) \in {0, p.stop} /\ Max({0, p.stop}) >= 0
      BY <3>1, MaxOfTwo
    <3> QED BY <3>1, <3>2
  <2>3. \A c \in Corners : ~ (c <= 0)
    BY <2>1 DEF Corners
  <2> QED BY <2>2, <2>3 DEF Met
<1>4. History
  BY DEF History, OrderFits, PastStepsAreDistances
<1>5. Noise
  BY DEF Noise, NoNoise, Stepping
<1> QED BY <1>1, <1>2, <1>3, <1>4, <1>5 DEF Inv

\* Steps that change nothing but what the coroutine yields and where it is
LEMMA ControlKeeps ==
    ASSUME Inv, UNCHANGED <<p, finished, stepping, result, forced, evaluated>>,
           \/ core' = "Aborted" /\ stage' = stage
           \/ core' = "Finished" /\ stage' = stage
           \/ Running("check") /\ core' = core /\ stage' = "initial" /\ ~RejectedParameters(p)
           \/ core = "Stopped" /\ core' = "Running" /\ stage' = stage,
           core # "Thrown"
    PROVE  Inv'
<1> USE DEF stepping
<1>1. Types'
  BY SMTT(30) DEF Inv, Types, Terminal
<1>2. Untouched'
  BY DEF Inv, Untouched, Running
<1>3. Accepted'
  BY DEF Inv, Accepted
<1>4. Bracketed'
  BY DEF Inv, Bracketed, StepFits, Corners, Live, Stepping, Running
<1>5. Reported' /\ Met'
  BY DEF Inv, Reported, Met, Corners, Times, Running
<1>6. History'
  BY DEF Inv, History, OrderFits, PastStepsAreDistances, Running
<1>7. Noise'
  <2>1. ~noise.panic /\ core' # "Thrown"
    BY DEF Inv, Noise, Running
  <2> QED BY <2>1 DEF Inv, Noise, NoiseAt, SampleIndex, Live, Stepping, Running
<1> QED BY <1>1, <1>2, <1>3, <1>4, <1>5, <1>6, <1>7 DEF Inv

\* What the initial solution reports is the next corner after the start.
LEMMA InitialKeeps == Inv /\ InitialSolution => Inv'
<1> SUFFICES ASSUME Inv, InitialSolution
             PROVE  Inv'
  OBVIOUS
<1>1. /\ core = "Running" /\ stage = "initial" /\ stage' = "first"
      /\ points' = <<[t |-> 0, order |-> 0, brk |-> TRUE]>>
      /\ UNCHANGED <<p, finished, tk, hk, tSolve, order, bp, since, trapHistory,
                     accepted, pastTimesteps, next, noise, forced, evaluated>>
  BY DEF InitialSolution, Running
<1>2. PICK bound \in BoundSteps, finish, stop \in BOOLEAN :
         /\ result' = [ok |-> TRUE, next |-> SetBreakPoint(0), bound |-> bound,
                       disc |-> FALSE, finish |-> finish, stop |-> stop]
         /\ core' = CASE finish -> "Finished"
                      [] ~finish /\ stop -> "Stopped"
                      [] OTHER -> "Running"
  BY DEF InitialSolution
<1>3. core' \in {"Running", "Stopped", "Finished"}
  BY <1>2
<1>4. result' \in Results /\ result'.next = SetBreakPoint(0)
  <2>1. bound \in Nat
    BY BreaksAssumption
  <2>2. SetBreakPoint(0) \in Nat
    BY NextCorner, BreaksAssumption
  <2> QED BY <1>2, <2>1, <2>2 DEF Results
<1>5. Types'
  BY <1>1, <1>3, <1>4 DEF Inv, Types, Terminal
<1>6. Untouched' /\ Accepted' /\ Bracketed' /\ Reported'
  BY <1>1, <1>4 DEF Inv, Untouched, Accepted, Bracketed, Reported, Stepping, RejectedParameters
<1>7. Met'
  <2>1. tk = 0
    BY <1>1 DEF Inv, Untouched
  <2>2. \A c \in Corners : ~ (c <= tk)
    <3>1. p \in Settings
      BY DEF Inv, Types
    <3>2. \A c \in Corners : c \in Int /\ c > 0
      BY <3>1, SettingTypes, BreaksAssumption DEF Corners
    <3> QED BY <2>1, <3>2
  <2> QED BY <1>1, <2>1, <2>2 DEF Inv, Met, Corners
<1>8. History'
  <2>1. since = 0 /\ order = 1 /\ pastTimesteps = <<>>
    BY <1>1 DEF Inv, Untouched
  <2> QED BY <1>1, <2>1 DEF History, OrderFits, PastStepsAreDistances
<1>9. Noise'
  BY <1>1, <1>3 DEF Inv, Noise, Stepping
<1> QED BY <1>5, <1>6, <1>7, <1>8, <1>9 DEF Inv

\* The initial step ends before or at the first time that must be met.
LEMMA FirstStepKeeps == Inv /\ FirstStep => Inv'
<1> SUFFICES ASSUME Inv, FirstStep
             PROVE  Inv'
  OBVIOUS
<1>1. /\ core = "Running" /\ stage = "first"
      /\ UNCHANGED <<p, finished, result, forced, evaluated>>
  BY DEF FirstStep, Running
<1>2. CASE p.stop <= 0
  <2>1. core' = "Finished" /\ UNCHANGED <<stage, stepping>>
    BY <1>2 DEF FirstStep
  <2> QED BY <1>1, <2>1, ControlKeeps
<1>3. CASE ~ (p.stop <= 0)
  <2> DEFINE b == <<UpdateBreakPoint(result.next, 0), 0>>
             m == Min({InitialLimit, BreakLimit(b)})
             l == LimitBy(m, result.bound)
             h == AtLeastResolved(l \div FsDiv)
  <2>1. /\ bp' = b /\ hk' = h /\ tSolve' = h
        /\ accepted' = [bound |-> result.bound, hmax |-> InitialLimit]
        /\ \/ noise' = AdvanceNoise(h) /\ core' = IF noise'.panic THEN "Thrown" ELSE core
           \/ noise' = noise /\ core' = "Aborted"
        /\ stage' = "solve"
        /\ UNCHANGED <<tk, order, since, trapHistory, pastTimesteps, points, next>>
    BY <1>3 DEF FirstStep
  <2>2. /\ p \in Settings /\ p.stop \in Int /\ p.step \in Int /\ p.start \in Int /\ p.stop > 1 /\ p.stop < Horizon
        /\ p.start # 1 /\ Horizon \in Nat /\ result \in Results /\ ~RejectedParameters(p)
        /\ p.noisestep \in Nat \ {0, 1}
    <3>1. p \in Settings /\ result \in Results
      BY DEF Inv, Types
    <3>2. ~RejectedParameters(p)
      BY <1>1 DEF Inv, Accepted
    <3>3. /\ p.stop \in Int /\ p.step \in Int /\ p.start \in Int /\ p.stop # 1 /\ p.start # 1
          /\ p.noisestep \in Nat \ {0, 1} /\ p.stop < Horizon /\ Horizon \in Nat
      BY <3>1, SettingTypes, BreaksAssumption
    <3>4. p.stop > 1
      BY <1>3, <3>3
    <3> QED BY <3>1, <3>2, <3>3, <3>4
  <2>3. /\ tk = 0 /\ order = 1 /\ since = 0 /\ pastTimesteps = <<>> /\ noise = NoNoise
        /\ points = <<[t |-> 0, order |-> 0, brk |-> TRUE]>>
        /\ result.next = SetBreakPoint(0)
    BY <1>1 DEF Inv, Untouched
  <2>4. /\ b[1] \in Nat /\ b[1] >= 2 /\ b[2] = 0
        /\ \A c \in Corners : b[1] <= c
    <3>1. /\ result.next \in Nat /\ 0 < result.next /\ result.next \in Breaks \cup {Horizon}
          /\ \A x \in Breaks : 0 < x => result.next <= x
      BY <2>2, <2>3, NextCorner
    <3>2. /\ b[1] \in Nat /\ 0 < b[1] /\ b[1] <= result.next
          /\ b[1] \in {result.next, p.stop, p.start}
          /\ \A c \in {p.stop, p.start} : 0 < c => b[1] <= c
      BY <2>2, <3>1, UpdatedBreakPoint
    <3>3. Horizon # 1 /\ \A x \in Breaks : x \in Nat /\ x # 1
      BY <2>2, BreaksAssumption
    <3> HIDE DEF b
    <3>4. b[1] # 1
      BY <2>2, <3>1, <3>2, <3>3
    <3>5. ASSUME NEW c \in Corners
          PROVE  b[1] <= c
      BY <3>1, <3>2, <3>3, <2>2 DEF Corners
    <3> QED BY <3>2, <3>4, <3>5 DEF b
  <2>5. InitialLimit \in Int /\ InitialLimit > 0
        /\ (p.noise # "none" => InitialLimit <= p.noisestep)
    <3>1. LimitBy(p.stop, p.step) \in Int /\ LimitBy(p.stop, p.step) > 0
      <4>1. p.stop \in Int /\ p.step \in Int /\ p.stop > 0
        BY <2>2
      <4> QED BY <4>1, LimitedStep
    <3> QED BY <2>2, <3>1, LimitOfStep DEF InitialLimit
  <2>6. BreakLimit(b) \in Nat /\ 2 <= BreakLimit(b) /\ BreakLimit(b) <= b[1]
    <3>1. b[1] - b[2] = b[1]
      BY <2>4
    <3>2. FbrDiv \in Nat \ {0}
      BY FactorsAssumption
    <3>3. b[1] \div FbrDiv \in Nat /\ b[1] \div FbrDiv <= b[1]
      BY <2>4, <3>2, Quotient
    <3> HIDE DEF b
    <3> QED BY <2>4, <3>1, <3>3 DEF BreakLimit, AtLeastResolved
  <2> HIDE DEF b
  <2>7. m \in Nat /\ 0 < m /\ m <= b[1] /\ (p.noise # "none" => m <= p.noisestep)
    <3>1. InitialLimit \in Int /\ BreakLimit(b) \in Int
      BY <2>5, <2>6
    <3>2. m \in {InitialLimit, BreakLimit(b)} /\ m <= InitialLimit /\ m <= BreakLimit(b)
      BY <3>1, MinOfTwo
    <3> HIDE DEF m
    <3> QED BY <3>1, <3>2, <2>2, <2>4, <2>5, <2>6
  <2> HIDE DEF m
  <2>8. l \in Nat /\ l <= m
    <3>1. m \in Int /\ result.bound \in Int
      BY <2>2, <2>7 DEF Results
    <3>2. m >= 0
      BY <2>7
    <3>3. l \in Int /\ l <= m /\ l >= 0
      BY <3>1, <3>2, LimitedStep
    <3> QED BY <3>3
  <2> HIDE DEF l
  <2>9. h \in Nat /\ 2 <= h /\ h <= b[1] /\ (p.noise # "none" => h <= p.noisestep)
    <3>1. l \div FsDiv \in Nat /\ l \div FsDiv <= l
      BY <2>8, FactorsAssumption, Quotient
    <3>2. h \in {2, l \div FsDiv} /\ h >= 2
      BY <3>1 DEF AtLeastResolved
    <3> HIDE DEF h
    <3> QED BY <3>1, <3>2, <2>2, <2>4, <2>7, <2>8
  <2> HIDE DEF h
  <2> DEFINE a == AdvanceNoise(h)
  <2>17. /\ noise \in NoiseTypes /\ ~noise.panic /\ noise.drawn - noise.back = noise.index
         /\ noise.index = 0 /\ noise.last = 0 /\ noise.at = 0 /\ noise.drawn = 0
    BY <2>3 DEF NoNoise, NoiseTypes
  <2>10. /\ a \in NoiseTypes /\ ~a.panic
         /\ p.noise = "zoh" =>
               /\ a.drawn - a.back = a.index /\ a.index = SampleIndex(h)
               /\ a.index \in {SampleIndex(0), SampleIndex(0) + 1}
               /\ a.back = 1 => a.index = SampleIndex(0)
         /\ p.noise = "sde" => a.at = h /\ a.last = 0 /\ a.drawn = 1
    <3>2. SampleIndex(0) = 0
      BY <2>2 DEF SampleIndex
    <3>3. p.noise # "none" => h <= 0 + p.noisestep
      BY <2>2, <2>9
    <3>4. 0 \in Nat /\ 0 <= h /\ noise.last < h /\ noise.index = SampleIndex(0)
      BY <2>9, <2>17, <3>2
    <3>5. /\ a \in NoiseTypes /\ ~a.panic
          /\ p.noise = "zoh" =>
                 /\ a.drawn - a.back = a.index /\ a.index = SampleIndex(h)
                 /\ a.index \in {SampleIndex(0), SampleIndex(0) + 1}
                 /\ a.back = 1 => a.index = SampleIndex(0)
          /\ p.noise = "sde" => a.at = h /\ a.last = noise.at /\ a.drawn = noise.drawn + 1
      BY <2>2, <2>9, <2>17, <3>3, <3>4, NoiseAdvances
    <3> HIDE DEF a
    <3> QED BY <2>17, <3>5
  <2>18. \/ noise' = a /\ core' = core
         \/ noise' = noise /\ core' = "Aborted"
    BY <2>1, <2>10
  <2> HIDE DEF a
  <2>11. Types'
    <3>1. b \in Seq(Nat) /\ Len(b) = 2
      BY <2>4 DEF b
    <3>2. accepted' \in [bound : Nat, hmax : Nat]
      BY <2>1, <2>2, <2>5 DEF Results
    <3>3. noise' \in NoiseTypes
      BY <2>10, <2>17, <2>18
    <3>4. core' \in {"Running", "Stopped"} \cup Terminal
      BY <1>1, <2>18 DEF Terminal
    <3> QED BY <1>1, <2>1, <2>9, <3>1, <3>2, <3>3, <3>4 DEF Inv, Types, NoiseTypes
  <2>12. Untouched' /\ Accepted'
    BY <1>1, <2>1, <2>2 DEF Untouched, Accepted, RejectedParameters
  <2>13. Bracketed'
    <3>1. h = h - tk /\ tk < h /\ h <= b[1] /\ \A c \in Corners : tk < c => h <= c
      <4>1. \A c \in Corners : c \in Int
        BY <2>2, BreaksAssumption DEF Corners
      <4> QED BY <2>3, <2>4, <2>9, <4>1
    <3> QED BY <1>1, <2>1, <2>2, <2>3, <2>4, <3>1 DEF Bracketed, StepFits, Corners
  <2>14. Reported' /\ Met'
    BY <1>1, <2>1, <2>3 DEF Reported, Met, Inv, Corners, Times
  <2>15. History'
    BY <1>1, <2>1, <2>3 DEF History, Inv, OrderFits, PastStepsAreDistances
  <2>16. Noise'
    <3>1. CASE noise' = a /\ core' = core
      BY <1>1, <2>1, <2>3, <2>10, <3>1 DEF Noise, NoiseAt, SampleIndex, Live, Stepping
    <3>2. CASE noise' = noise /\ core' = "Aborted"
      BY <1>1, <2>17, <3>2 DEF Noise, Live
    <3> QED BY <2>18, <3>1, <3>2
  <2> QED BY <2>11, <2>12, <2>13, <2>14, <2>15, <2>16 DEF Inv
<1> QED BY <1>2, <1>3

-----------------------------------------------------------------------------
(* Solving a point                                                         *)

\* What the point reports lies after it, and no later than the next corner when it was solved.
LEMMA SolveKeeps == Inv /\ Solve => Inv'
<1> SUFFICES ASSUME Inv, Solve
             PROVE  Inv'
  OBVIOUS
<1>1. /\ core = "Running" /\ stage = "solve" /\ stage' = "decide"
      /\ forced' = FALSE /\ evaluated' = tSolve
      /\ UNCHANGED <<p, core, finished, tk, hk, tSolve, order, bp, since, accepted,
                   pastTimesteps, points, next, noise>>
  BY DEF Solve, Running
<1>2. PICK ok \in BOOLEAN, bound \in BoundSteps, disc, finish, stop \in BOOLEAN :
        \E n \in {SetBreakPoint(tSolve)} \cup (IF ok THEN {} ELSE {Horizon}) :
         /\ ~ok => ~(disc \/ finish \/ stop) /\ bound = 0
         /\ finish => ~stop
         /\ result' = [ok |-> ok, next |-> UpdateBreakPoint(n, tSolve), bound |-> bound,
                       disc |-> disc, finish |-> finish, stop |-> stop]
         /\ trapHistory' = CountTrapezoidal(ok)
  BY DEF Solve
<1>3. PICK n \in {SetBreakPoint(tSolve)} \cup (IF ok THEN {} ELSE {Horizon}) :
         /\ result' = [ok |-> ok, next |-> UpdateBreakPoint(n, tSolve), bound |-> bound,
                       disc |-> disc, finish |-> finish, stop |-> stop]
         /\ trapHistory' = CountTrapezoidal(ok)
  BY <1>2
<1>4. p \in Settings /\ p.stop \in Int /\ p.start \in Int /\ p.stop < Horizon /\ Horizon \in Nat
  BY SettingTypes, BreaksAssumption DEF Inv, Types
<1>5. tSolve \in Nat /\ tSolve <= p.stop /\ tSolve < Horizon
  <2>1. tSolve \in Nat /\ p.stop > 0 /\ tk < p.stop
    BY <1>1 DEF Inv, Types, Accepted, Bracketed, Live
  <2>2. p.stop \in Corners /\ StepFits(tSolve, hk)
    BY <1>1, <2>1 DEF Corners, Inv, Bracketed, Live, Stepping
  <2>3. tSolve <= p.stop
    BY <2>1, <2>2 DEF StepFits
  <2> QED BY <1>4, <2>1, <2>3
<1>6. /\ SetBreakPoint(tSolve) \in Nat /\ tSolve < SetBreakPoint(tSolve)
      /\ \A x \in Breaks : tSolve < x => SetBreakPoint(tSolve) <= x
  BY <1>5, NextCorner
<1>7. n \in Nat /\ tSolve < n /\ (ok => n = SetBreakPoint(tSolve))
  BY <1>4, <1>5, <1>6
<1> DEFINE u == UpdateBreakPoint(n, tSolve)
<1>8. /\ u \in Nat /\ tSolve < u /\ u <= n
      /\ \A c \in {p.stop, p.start} : tSolve < c => u <= c
  BY <1>4, <1>5, <1>7, UpdatedBreakPoint
<1> HIDE DEF u
<1>9. result' \in Results /\ result'.next = u /\ result'.ok = ok
  <2>1. bound \in Nat
    BY BreaksAssumption
  <2> QED BY <1>3, <1>8, <2>1 DEF Results, u
<1>10. ASSUME ok, NEW c \in Corners, tSolve < c
       PROVE  u <= c
  <2>1. CASE c \in Breaks
    <3>1. n <= c /\ c \in Nat
      BY <1>6, <1>7, <1>10, <2>1, BreaksAssumption
    <3> QED BY <1>7, <1>8, <3>1
  <2>2. CASE c \in {p.start, p.stop}
    BY <1>8, <1>10, <2>2
  <2> QED BY <2>1, <2>2 DEF Corners
<1>11. trapHistory' \in Nat
  <2>1. trapHistory \in Nat
    BY DEF Inv, Types
  <2>2. trapHistory + 1 \in Int /\ 10 \in Int
    BY <2>1
  <2>3. Min({trapHistory + 1, 10}) \in {trapHistory + 1, 10}
    BY <2>2, MinOfTwo
  <2> QED BY <1>3, <2>1, <2>3 DEF CountTrapezoidal
<1>12. Types'
  <2>1. {tk, hk, tSolve, since, trapHistory, evaluated}' \subseteq Nat
    BY <1>1, <1>5, <1>11 DEF Inv, Types
  <2>2. stage' \in {"check", "initial", "first", "solve", "decide", "advance"} /\ forced' \in BOOLEAN
    BY <1>1
  <2> QED BY <1>1, <1>9, <2>1, <2>2 DEF Inv, Types
<1>13. Untouched' /\ Accepted'
  BY <1>1 DEF Inv, Untouched, Accepted, RejectedParameters
<1>14. Bracketed'
  BY <1>1 DEF Inv, Bracketed, StepFits, Corners, Live, Stepping
<1>15. Reported' /\ Met'
  BY <1>1, <1>8, <1>9, <1>10 DEF Inv, Reported, Met, Corners, Times
<1>16. History'
  BY <1>1 DEF Inv, History, OrderFits, PastStepsAreDistances
<1>17. Noise'
  BY <1>1 DEF Inv, Noise, NoiseAt, SampleIndex, Live, Stepping
<1> QED BY <1>12, <1>13, <1>14, <1>15, <1>16, <1>17 DEF Inv

\* A point that aborts the analysis leaves nothing to step.
LEMMA SolveAbortsKeeps == Inv /\ SolveAborts => Inv'
<1> SUFFICES ASSUME Inv, SolveAborts
             PROVE  Inv'
  OBVIOUS
<1>1. /\ core = "Running" /\ core' = "Aborted" /\ stage' = stage /\ forced' = FALSE
      /\ UNCHANGED <<p, finished, tk, hk, tSolve, order, bp, since, trapHistory, accepted,
              pastTimesteps, points, next, noise, result, evaluated>>
  BY DEF SolveAborts, Abort, Running, stepping
<1>2. Types'
  BY <1>1 DEF Inv, Types, Terminal
<1>3. Untouched' /\ Accepted' /\ Bracketed' /\ Reported' /\ Met'
  BY <1>1 DEF Inv, Untouched, Accepted, Bracketed, Reported, Met, RejectedParameters, Live, Corners, Times
<1>4. History' /\ Noise'
  BY <1>1 DEF Inv, History, OrderFits, PastStepsAreDistances, Noise, Live
<1> QED BY <1>2, <1>3, <1>4 DEF Inv

-----------------------------------------------------------------------------
(* Accepting a point                                                       *)

\* The newest step comes first; the oldest one is dropped when the buffer is full.
LEMMA PushedStep ==
    ASSUME pastTimesteps \in Seq(Nat), p.unknowns \in Nat, NEW h \in Nat
    PROVE  LET past == AddTimestep(h)
           IN  /\ past \in Seq(Nat) /\ Len(past) <= Len(pastTimesteps) + 1
               /\ Len(past) <= p.unknowns + 1
               /\ Len(past) \in {Len(pastTimesteps) + 1, p.unknowns + 1}
               /\ past[1] = h
               /\ \A i \in 2 .. Len(past) : past[i] = pastTimesteps[i - 1]
<1> DEFINE s == <<h>> \o pastTimesteps
           n == Min({Len(pastTimesteps) + 1, p.unknowns + 1})
<1>1. /\ s \in Seq(Nat) /\ Len(s) = Len(pastTimesteps) + 1 /\ s[1] = h
      /\ \A i \in 2 .. Len(s) : s[i] = pastTimesteps[i - 1]
  OBVIOUS
<1>2. Len(pastTimesteps) \in Nat
  OBVIOUS
<1>3. n \in {Len(pastTimesteps) + 1, p.unknowns + 1} /\ n <= Len(pastTimesteps) + 1
      /\ n <= p.unknowns + 1
  <2>1. Len(pastTimesteps) + 1 \in Int /\ p.unknowns + 1 \in Int
    BY <1>2
  <2> QED BY <2>1, MinOfTwo
<1> HIDE DEF s, n
<1>4. n \in 1 .. Len(s)
  BY <1>1, <1>2, <1>3
<1>5. SubSeq(s, 1, n) \in Seq(Nat) /\ Len(SubSeq(s, 1, n)) = n
      /\ \A i \in 1 .. n : SubSeq(s, 1, n)[i] = s[i]
  BY <1>1, <1>4
<1>6. AddTimestep(h) = SubSeq(s, 1, n)
  BY DEF AddTimestep, s, n
<1> QED BY <1>1, <1>3, <1>4, <1>5, <1>6, SMTT(30)

\* An accepted step may be at most as long as an interval of the noise.
LEMMA AcceptedLimit ==
    ASSUME p \in Settings, ~RejectedParameters(p), p.stop > 0
    PROVE  MaxStep \in Int /\ MaxStep > 0 /\ (p.noise # "none" => MaxStep <= p.noisestep)
<1> DEFINE a == LimitBy(p.stop - p.start, p.rmax * p.step)
           b == LimitBy(a, p.minptsstep)
<1>1. p.stop \in Int /\ p.start \in Int /\ p.rmax \in Int /\ p.step \in Int /\ p.minptsstep \in Int
  BY SettingTypes
<1>2. p.stop - p.start \in Int /\ p.stop - p.start > 0 /\ p.rmax * p.step \in Int
  BY <1>1 DEF RejectedParameters
<1>3. a \in Int /\ a > 0
  BY <1>2, LimitedStep
<1> HIDE DEF a
<1>4. b \in Int /\ b > 0
  BY <1>1, <1>3, LimitedStep
<1>5. MaxStep = StepLimit(b)
  BY DEF MaxStep, a, b
<1> HIDE DEF b
<1> QED BY <1>4, <1>5, LimitOfStep

\* What may be decided about a point that was solved
LEMMA AcceptedDecision ==
    ASSUME Inv, stage = "decide", core = "Running", NEW d \in Decisions, d.accept
    PROVE  /\ result.ok /\ d.h \in Nat /\ d.order \in Nat
           /\ d.order = 1 \/ (d.order \in 1 .. p.maxord /\ d.order <= since + 1)
<1>1. result \in Results /\ hk \in Nat /\ order \in Nat /\ since \in Nat /\ p.maxord \in Int
  BY SettingTypes DEF Inv, Types
<1>2. order = 1 \/ (order \in 1 .. p.maxord /\ order <= since)
  BY DEF Inv, History, OrderFits
<1>3. result.ok
  BY DEF Decisions
<1>4. CASE ~HavePredictor
  <2>1. d = [accept |-> TRUE, h |-> hk, order |-> order]
    BY <1>3, <1>4 DEF Decisions
  <2> QED BY <1>1, <1>2, <1>3, <2>1
<1>5. CASE HavePredictor
  <2>1. PICK h \in ErrorLimits :
            d = LET redo == RedoFactor > 0 /\ hk > RedoFactor * h IN
                [accept |-> ~redo, h |-> h, order |-> NextOrder(redo)]
    BY <1>3, <1>5 DEF Decisions
  <2>2. d.h = h /\ h \in Nat
    BY <1>1, <2>1 DEF ErrorLimits
  <2>3. d.order \in {order, order + 1} /\ (d.order = order + 1 => order < p.maxord)
    BY <1>1, <2>1 DEF NextOrder
  <2>4. order + 1 <= since
    BY <1>1, <1>5 DEF HavePredictor, MinimalPredictorHistory
  <2>5. order >= 1
    BY <1>2
  <2> HIDE DEF HavePredictor
  <2> QED BY <1>1, <1>2, <1>3, <2>2, <2>3, <2>4, <2>5
<1> QED BY <1>4, <1>5

\* The accepted point becomes the start of a step that fits, or the analysis ends.
LEMMA AcceptKeeps == Inv /\ AcceptPoint => Inv'
<1> SUFFICES ASSUME Inv, AcceptPoint
             PROVE  Inv'
  OBVIOUS
<1>1. /\ core = "Running" /\ stage = "decide" /\ stage' = "advance"
      /\ UNCHANGED <<p, hk, tSolve, order, trapHistory, result, forced, evaluated>>
  BY DEF AcceptPoint, Running
<1> DEFINE disc == AtBreakPoint \/ result.disc
           hmax == LimitBy(MaxStep, BreakLimit(AcceptedBreakPoints))
           Limited(h) == LimitBy(LimitBy(h, result.bound), hmax)
           Cut(h) == CutStep(tSolve, Limited(h), AcceptedBreakPoints[1])
<1>2. PICK d \in {x \in Decisions : x.accept} :
           /\ bp' = AcceptedBreakPoints
           /\ accepted' = [bound |-> result.bound, hmax |-> hmax]
           /\ next' = [accept |-> TRUE, h |-> Cut(d.h).h, t |-> Cut(d.h).t,
                       order |-> IF disc THEN 1 ELSE d.order]
           /\ since' = IF disc THEN 1 ELSE since + 1
           /\ points' = <<[t |-> tSolve, order |-> order, brk |-> disc]>> \o points
           /\ pastTimesteps' = AddTimestep(hk)
           /\ tk' = tSolve
           /\ finished' = Complete
           /\ \/ /\ noise' = IF ReachedStop THEN noise ELSE AdvanceNoise(Cut(d.h).t)
                 /\ core' = CASE noise'.panic -> "Thrown"
                              [] ~noise'.panic /\ Complete -> "Finished"
                              [] ~noise'.panic /\ ~Complete /\ result.stop -> "Stopped"
                              [] OTHER -> core
              \/ core' = "Aborted" /\ noise' = noise
  BY DEF AcceptPoint
<1>3. /\ result.ok /\ d.h \in Nat /\ d.order \in Nat
      /\ d.order = 1 \/ (d.order \in 1 .. p.maxord /\ d.order <= since + 1)
  BY <1>1, AcceptedDecision
<1>4. /\ p \in Settings /\ result \in Results /\ result.bound \in Nat /\ result.next \in Nat
      /\ tk \in Nat /\ hk \in Nat /\ tSolve \in Nat /\ order \in Nat /\ since \in Nat
      /\ bp \in Seq(Nat) /\ Len(bp) = 2 /\ bp[1] \in Nat /\ bp[2] \in Nat
      /\ result.finish \in BOOLEAN /\ result.stop \in BOOLEAN /\ result.disc \in BOOLEAN
  <2>1. /\ p \in Settings /\ result \in Results /\ tk \in Nat /\ hk \in Nat /\ tSolve \in Nat
        /\ order \in Nat /\ since \in Nat /\ bp \in Seq(Nat) /\ Len(bp) = 2
    BY DEF Inv, Types
  <2>2. bp[1] \in Nat /\ bp[2] \in Nat
    <3>1. bp \in Seq(Nat) /\ 1 \in 1 .. Len(bp) /\ 2 \in 1 .. Len(bp)
      BY <2>1
    <3> QED BY <3>1, ElementOfSeq
  <2>3. result.bound \in Nat /\ result.next \in Nat
    BY <2>1 DEF Results
  <2>4. result.finish \in BOOLEAN /\ result.stop \in BOOLEAN /\ result.disc \in BOOLEAN
    BY <2>1 DEF Results
  <2> QED BY <2>1, <2>2, <2>3, <2>4
<1>5. ~RejectedParameters(p) /\ p.stop > 0 /\ p.stop \in Int /\ p.unknowns \in Nat
      /\ p.noisestep \in Nat /\ p.maxord \in Int
  BY <1>1, <1>4, SettingTypes DEF Inv, Accepted
<1>6. /\ hk = tSolve - tk /\ tk < tSolve /\ tSolve <= bp[1] /\ bp[2] <= tk /\ tk < p.stop
      /\ \A c \in Corners : tk < c => tSolve <= c
  BY <1>1 DEF Inv, Bracketed, StepFits, Live, Stepping
<1>7. tSolve < result.next /\ \A c \in Corners : tSolve < c => result.next <= c
  BY <1>1, <1>3 DEF Inv, Reported
<1>8. tSolve <= p.stop
  BY <1>5, <1>6 DEF Corners
<1> DEFINE N == AcceptedBreakPoints
<1>9. N \in Seq(Nat) /\ Len(N) = 2 /\ N[1] = result.next /\ N[2] \in Nat /\ N[2] <= tSolve
  BY <1>4, <1>6, <1>7 DEF AcceptedBreakPoints, AtBreakPoint
<1> HIDE DEF N
<1>10. hmax \in Nat /\ hmax > 0 /\ (p.noise # "none" => hmax <= p.noisestep)
  <2>1. MaxStep \in Int /\ MaxStep > 0 /\ (p.noise # "none" => MaxStep <= p.noisestep)
    BY <1>4, <1>5, AcceptedLimit
  <2>2. BreakLimit(N) \in Int
    <3>1. N[1] - N[2] \in Nat
      BY <1>4, <1>7, <1>9
    <3>2. FbrDiv \in Nat \ {0}
      BY FactorsAssumption
    <3>3. (N[1] - N[2]) \div FbrDiv \in Nat
      BY <3>1, <3>2, Quotient
    <3> QED BY <3>3 DEF BreakLimit, AtLeastResolved
  <2>3. hmax \in Int /\ hmax <= MaxStep /\ hmax > 0
    <3>1. LimitBy(MaxStep, BreakLimit(N)) \in Int /\ LimitBy(MaxStep, BreakLimit(N)) <= MaxStep
          /\ LimitBy(MaxStep, BreakLimit(N)) > 0
      BY <2>1, <2>2, LimitedStep
    <3> QED BY <3>1 DEF N
  <2> HIDE DEF hmax
  <2> QED BY <1>5, <2>1, <2>3
<1> HIDE DEF hmax
<1> DEFINE H == Limited(d.h)
           s == Cut(d.h)
<1>11. H \in Nat /\ H <= hmax
  <2>1. LimitBy(d.h, result.bound) \in Int /\ LimitBy(d.h, result.bound) >= 0
    <3>1. d.h \in Int /\ result.bound \in Int /\ d.h >= 0
      BY <1>3, <1>4
    <3> QED BY <3>1, LimitedStep
  <2>2. H \in Int /\ H >= 0 /\ H <= hmax
    <3>1. hmax \in Int
      BY <1>10
    <3> QED BY <1>10, <2>1, <3>1, LimitedStep
  <2> QED BY <2>2
<1>12. s.h \in Nat /\ s.t \in Nat /\ s.h = s.t - tSolve /\ s.h <= hmax /\ s.t <= result.next
  <2> HIDE DEF H
  <2>1. LET x == CutStep(tSolve, H, result.next)
        IN  x.h \in Nat /\ x.t \in Nat /\ x.h = x.t - tSolve /\ x.h <= H /\ x.t <= result.next
    BY <1>4, <1>7, <1>11, CutFits, SMTT(30)
  <2>2. s = CutStep(tSolve, H, result.next)
    BY <1>9 DEF N, H
  <2> HIDE DEF s
  <2> QED BY <1>10, <1>11, <2>1, <2>2
<1> HIDE DEF H, s
<1>13. /\ bp' = N /\ accepted' = [bound |-> result.bound, hmax |-> hmax]
       /\ next' = [accept |-> TRUE, h |-> s.h, t |-> s.t, order |-> IF disc THEN 1 ELSE d.order]
       /\ since' = (IF disc THEN 1 ELSE since + 1) /\ tk' = tSolve /\ finished' = Complete
       /\ points' = <<[t |-> tSolve, order |-> order, brk |-> disc]>> \o points
       /\ pastTimesteps' = AddTimestep(hk)
       /\ \/ noise' = (IF ReachedStop THEN noise ELSE AdvanceNoise(s.t)) /\ core' # "Aborted"
          \/ core' = "Aborted" /\ noise' = noise
  BY <1>1, <1>2 DEF N, s
<1> HIDE DEF disc
<1>15. disc \in BOOLEAN /\ Complete \in BOOLEAN
  BY <1>4 DEF disc, Complete, AtBreakPoint, ReachedStop
<1>16. /\ points \in Seq([t : Nat, order : Nat, brk : BOOLEAN]) /\ points # <<>> /\ points[1].t = tk
       /\ pastTimesteps \in Seq(Nat) /\ since < Len(points)
  BY <1>1 DEF Inv, Types, Met, History
<1> DEFINE point == [t |-> tSolve, order |-> order, brk |-> disc]
<1>17. /\ points' \in Seq([t : Nat, order : Nat, brk : BOOLEAN]) /\ Len(points') = Len(points) + 1
       /\ points'[1] = point
       /\ \A i \in 2 .. Len(points') : points'[i] = points[i - 1]
  <2>1. point \in [t : Nat, order : Nat, brk : BOOLEAN]
    BY <1>4, <1>15
  <2>2. points' = <<point>> \o points
    BY <1>13
  <2> HIDE DEF point
  <2> QED BY <1>16, <2>1, <2>2
<1>18. point.t = tSolve /\ point.brk = disc
  OBVIOUS
<1> HIDE DEF point
<1>19. /\ pastTimesteps' \in Seq(Nat) /\ Len(pastTimesteps') <= Len(pastTimesteps) + 1
       /\ Len(pastTimesteps') <= p.unknowns + 1
       /\ Len(pastTimesteps') \in {Len(pastTimesteps) + 1, p.unknowns + 1}
       /\ pastTimesteps'[1] = hk
       /\ \A i \in 2 .. Len(pastTimesteps') : pastTimesteps'[i] = pastTimesteps[i - 1]
  BY <1>4, <1>5, <1>13, <1>16, PushedStep
<1> DEFINE n == Len(points)
           k == Len(pastTimesteps)
           n1 == Len(points')
           k1 == Len(pastTimesteps')
<1>30. /\ n \in Nat /\ k \in Nat /\ n1 \in Nat /\ k1 \in Nat
       /\ n1 = n + 1 /\ k1 <= k + 1 /\ k1 \in {k + 1, p.unknowns + 1} /\ k1 <= p.unknowns + 1 /\ since < n
       /\ DOMAIN points' = 1 .. n1 /\ DOMAIN pastTimesteps' = 1 .. k1
       /\ DOMAIN points = 1 .. n /\ DOMAIN pastTimesteps = 1 .. k
  <2>1. n \in Nat /\ DOMAIN points = 1 .. n
    BY <1>16
  <2>2. k \in Nat /\ DOMAIN pastTimesteps = 1 .. k
    BY <1>16
  <2>3. n1 \in Nat /\ DOMAIN points' = 1 .. n1
    BY <1>17
  <2>4. k1 \in Nat /\ DOMAIN pastTimesteps' = 1 .. k1
    BY <1>19
  <2>5. n1 = n + 1 /\ since < n
    BY <1>16, <1>17
  <2>6. k1 <= k + 1 /\ k1 \in {k + 1, p.unknowns + 1} /\ k1 <= p.unknowns + 1
    BY <1>19
  <2> QED BY <2>1, <2>2, <2>3, <2>4, <2>5, <2>6
<1> HIDE DEF n, k, n1, k1
<1>20. noise \in NoiseTypes /\ ~noise.panic /\ NoiseAt(tSolve)
       /\ (p.noise = "zoh" => noise.drawn - noise.back = noise.index)
  BY <1>1 DEF Inv, Types, Noise, NoiseTypes, Live, Stepping
<1>21. ASSUME ~ReachedStop, core' # "Aborted"
       PROVE  /\ noise' \in NoiseTypes /\ ~noise'.panic
              /\ p.noise = "zoh" =>
                    /\ noise'.drawn - noise'.back = noise'.index /\ noise'.index = SampleIndex(s.t)
                    /\ noise'.index \in {SampleIndex(tSolve), SampleIndex(tSolve) + 1}
                    /\ noise'.back = 1 => noise'.index = SampleIndex(tSolve)
              /\ p.noise = "sde" => noise'.at = s.t /\ noise'.last = tSolve /\ noise'.drawn = Len(points) + 1
  <2>1. s.t \in Nat /\ tSolve <= s.t /\ (p.noise # "none" => s.t <= tSolve + p.noisestep)
    BY <1>4, <1>5, <1>10, <1>12
  <2>2. /\ p.noise = "zoh" => noise.index = SampleIndex(tSolve)
        /\ p.noise = "sde" => noise.last < s.t /\ noise.at = tSolve /\ noise.drawn = Len(points)
    BY <1>4, <1>6, <1>20, <2>1 DEF NoiseAt
  <2>3. LET a == AdvanceNoise(s.t)
        IN  /\ a \in NoiseTypes /\ ~a.panic
            /\ p.noise = "zoh" =>
                     /\ a.drawn - a.back = a.index /\ a.index = SampleIndex(s.t)
                     /\ a.index \in {SampleIndex(tSolve), SampleIndex(tSolve) + 1}
                     /\ a.back = 1 => a.index = SampleIndex(tSolve)
            /\ p.noise = "sde" => a.at = s.t /\ a.last = noise.at /\ a.drawn = noise.drawn + 1
    BY <1>4, <1>5, <1>20, <2>1, <2>2, NoiseAdvances, SMTT(30)
  <2>4. noise' = AdvanceNoise(s.t)
    BY <1>13, <1>21
  <2> QED BY <2>2, <2>3, <2>4
<1>22. /\ noise' \in NoiseTypes /\ ~noise'.panic
       /\ p.noise = "zoh" => noise'.drawn - noise'.back = noise'.index
  <2>1. CASE core' = "Aborted" /\ noise' = noise
    BY <1>20, <2>1
  <2>2. CASE ReachedStop /\ core' # "Aborted"
    <3>1. noise' = noise
      BY <1>13, <2>2
    <3> QED BY <1>20, <3>1
  <2>3. CASE ~ReachedStop /\ core' # "Aborted"
    BY <1>21, <2>3
  <2> QED BY <1>13, <2>1, <2>2, <2>3
<1>14. /\ core' \in {"Running", "Stopped", "Finished", "Aborted"}
       /\ Live' => tSolve < p.stop /\ ~ReachedStop /\ core' # "Aborted"
  <2>1. core' = "Aborted" \/ (Complete /\ core' = "Finished") \/ ~Complete
    BY <1>2, <1>22
  <2>2. ~Complete => tSolve < p.stop /\ ~ReachedStop
    BY <1>4, <1>5 DEF Complete, ReachedStop
  <2>3. core' \in {"Running", "Stopped", "Finished", "Aborted"}
    BY <1>1, <1>2, <1>22
  <2> QED BY <2>1, <2>2, <2>3 DEF Live
<1>23. Types'
  <2>1. {tk', hk', tSolve', since', trapHistory', evaluated'} \subseteq Nat /\ order' \in Nat
    BY <1>1, <1>4, <1>13 DEF Inv, Types
  <2>2. accepted' \in [bound : Nat, hmax : Nat]
    BY <1>4, <1>10, <1>13
  <2>3. next' \in [accept : BOOLEAN, h : Nat, t : Nat, order : Nat]
    BY <1>3, <1>12, <1>13
  <2>4. /\ p' \in Settings /\ result' \in Results /\ forced' \in BOOLEAN /\ finished' \in BOOLEAN
    BY <1>1, <1>13, <1>15 DEF Inv, Types
  <2>5. core' \in {"Running", "Stopped"} \cup Terminal
    BY <1>14 DEF Terminal
  <2> QED BY <1>1, <1>9, <1>13, <1>17, <1>19, <1>22, <2>1, <2>2, <2>3, <2>4, <2>5 DEF Types, NoiseTypes
<1>24. Untouched' /\ Accepted' /\ Reported'
  BY <1>1, <1>5 DEF Untouched, Accepted, Reported, RejectedParameters
<1>25. Corners' = Corners /\ \A c \in Corners : c \in Int
  BY <1>1, <1>4, SettingTypes, BreaksAssumption DEF Corners
<1>26. Bracketed'
  <2>1. ASSUME s.h # 0
        PROVE  /\ s.h = s.t - tSolve /\ tSolve < s.t /\ s.t <= result.next
               /\ \A c \in Corners : tSolve < c => s.t <= c
    BY <1>4, <1>7, <1>12, <1>25, <2>1
  <2> QED BY <1>1, <1>9, <1>13, <1>14, <1>25, <2>1 DEF Bracketed, StepFits, Stepping
<1>27. Met'
  <2>1. DOMAIN points' = 1 .. Len(points) + 1 /\ DOMAIN points = 1 .. Len(points)
    BY <1>16, <1>17
  <2>2. tSolve \in Times'
    BY <1>17, <1>18, <2>1 DEF Times
  <2>3. ASSUME NEW x \in Times
        PROVE  x \in Times'
    <3>1. PICK i \in DOMAIN points : x = points[i].t
      BY DEF Times
    <3>2. i + 1 \in 2 .. Len(points') /\ points'[i + 1] = points[i] /\ i + 1 \in DOMAIN points'
      BY <1>17, <2>1, SMTT(30)
    <3>3. x = points'[i + 1].t
      BY <3>1, <3>2
    <3> QED BY <3>2, <3>3 DEF Times
  <2>4. ASSUME NEW c \in Corners, c <= tSolve
        PROVE  c \in Times'
    <3>1. CASE c <= tk
      BY <3>1, <2>3 DEF Inv, Met
    <3>2. CASE ~(c <= tk)
      <4>1. c = tSolve
        BY <1>4, <1>6, <1>25, <2>4, <3>2
      <4> QED BY <2>2, <4>1
    <3> QED BY <3>1, <3>2
  <2>5. tSolve <= Max({0, p.stop})
    <3>1. 0 \in Int /\ p.stop \in Int
      BY <1>5
    <3>2. Max({0, p.stop}) >= p.stop /\ Max({0, p.stop}) \in {0, p.stop}
      BY <3>1, MaxOfTwo
    <3> QED BY <1>4, <1>8, <3>1, <3>2
  <2>6. points' # <<>> /\ points'[1].t = tSolve
    BY <1>17, <1>18, <2>1
  <2> QED BY <1>1, <1>13, <1>25, <2>4, <2>5, <2>6 DEF Met
<1>28. History'
  <2>1. OrderFits(next.order)'
    <3>1. next'.order = IF disc THEN 1 ELSE d.order
      BY <1>13
    <3> QED BY <1>1, <1>3, <1>13, <3>1 DEF OrderFits
  <2>2. since' < Len(points') /\ Len(points) >= 1
    BY <1>4, <1>13, <1>16, <1>17, SMTT(30)
  <2>3. \A i \in 1 .. since' - 1 : ~points'[i].brk
    <3>1. CASE disc
      BY <1>13, <3>1
    <3>2. CASE ~disc
      <4>1. since' = since + 1
        BY <1>13, <3>2
      <4>2. ASSUME NEW i \in 1 .. since
            PROVE  ~points'[i].brk
        <5>1. CASE i = 1
          BY <1>17, <1>18, <3>2, <5>1
        <5>2. CASE i # 1
          <6>1. i \in 2 .. n1 /\ i - 1 \in 1 .. since - 1
            BY <1>4, <1>30, <5>2
          <6>2. points'[i] = points[i - 1] /\ ~points[i - 1].brk
            BY <1>17, <6>1 DEF Inv, History, n1
          <6> QED BY <6>2
        <5> QED BY <5>1, <5>2
      <4> QED BY <1>4, <4>1, <4>2
    <3> QED BY <3>1, <3>2
  <2>4. k = n - 1 \/ (k < n /\ k = p.unknowns + 1)
    BY <1>16, <1>30 DEF Inv, History, n, k
  <2>5. k1 < n1 /\ (k1 = n1 - 1 \/ k1 = p.unknowns + 1)
    BY <1>5, <1>30, <2>4
  <2>6. PastStepsAreDistances'
    <3>1. ASSUME NEW i \in DOMAIN pastTimesteps'
          PROVE  i < Len(points') /\ pastTimesteps'[i] = points'[i].t - points'[i + 1].t
      <4>1. i \in 1 .. k1 /\ i < n1
        BY <1>30, <2>5
      <4>2. ASSUME i = 1
            PROVE  pastTimesteps'[i] = points'[i].t - points'[i + 1].t
        <5>1. 2 \in 2 .. n1
          BY <1>4, <1>30
        <5>2. points'[2] = points[1]
          BY <1>17, <5>1 DEF n1
        <5>3. points'[1].t = tSolve /\ points'[2].t = tk /\ pastTimesteps'[1] = hk
          BY <1>16, <1>17, <1>18, <1>19, <5>2
        <5> QED BY <1>6, <4>2, <5>3
      <4>3. ASSUME i # 1
            PROVE  pastTimesteps'[i] = points'[i].t - points'[i + 1].t
        <5>1. i \in 2 .. k1 /\ i \in 2 .. n1 /\ i + 1 \in 2 .. n1 /\ i - 1 \in 1 .. k
          BY <1>30, <4>1, <4>3
        <5>2. pastTimesteps'[i] = pastTimesteps[i - 1] /\ points'[i] = points[i - 1]
              /\ points'[i + 1] = points[(i + 1) - 1]
          BY <1>17, <1>19, <5>1 DEF n1, k1
        <5>3. (i + 1) - 1 = (i - 1) + 1
          BY <4>1
        <5>4. pastTimesteps[i - 1] = points[i - 1].t - points[(i - 1) + 1].t
          BY <1>30, <5>1 DEF Inv, History, PastStepsAreDistances
        <5> QED BY <4>1, <5>2, <5>3, <5>4
      <4> QED BY <4>1, <4>2, <4>3 DEF n1
    <3> QED BY <3>1 DEF PastStepsAreDistances
  <2>7. points' # <<>> => \/ Len(pastTimesteps') = Len(points') - 1
                          \/ Len(pastTimesteps') < Len(points') /\ Len(pastTimesteps') = p.unknowns + 1
    BY <2>5 DEF n1, k1
  <2>8. (order = 1 \/ order \in 1 .. p.maxord)'
    BY <1>1 DEF Inv, History
  <2> QED BY <1>1, <2>1, <2>2, <2>3, <2>6, <2>7, <2>8 DEF History
<1>29. Noise'
  <2>1. ~noise'.panic /\ core' # "Thrown"
        /\ (p.noise = "zoh" => noise'.drawn - noise'.back = noise'.index)
    BY <1>14, <1>22
  <2>2. Live' => ~ReachedStop /\ core' # "Aborted"
    BY <1>14
  <2>3. next'.t = s.t
    BY <1>13
  <2> QED BY <1>1, <1>13, <1>17, <1>21, <2>1, <2>2, <2>3 DEF Noise, NoiseAt, SampleIndex, Stepping
<1> QED BY <1>23, <1>24, <1>26, <1>27, <1>28, <1>29 DEF Inv

-----------------------------------------------------------------------------
(* Rejecting a point                                                       *)

\* A point is taken back for a shorter step of an order the past allows.
LEMMA RejectedDecision ==
    ASSUME Inv, stage = "decide", hk > 0, NEW d \in Decisions, ~d.accept
    PROVE  d.h \in Nat /\ d.h < hk /\ d.order \in Nat /\ OrderFits(d.order)
<1>1. result \in Results /\ hk \in Nat /\ order \in Nat
  BY DEF Inv, Types
<1>2. CASE ~result.ok
  <2>1. d = [accept |-> FALSE, h |-> FailedStep, order |-> 1]
    BY <1>2 DEF Decisions
  <2>2. hk \div FtDiv \in Nat /\ hk \div FtDiv < hk
    <3>1. FtDiv \in Nat \ {0} /\ FtDiv >= 2 /\ hk >= 1
      BY <1>1, FactorsAssumption
    <3> QED BY <1>1, <3>1, Quotient
  <2>3. FailedStep \in {0, hk \div FtDiv}
    BY DEF FailedStep, Resolved
  <2> QED BY <1>1, <2>1, <2>2, <2>3 DEF OrderFits
<1>3. CASE result.ok
  <2>1. HavePredictor
    BY <1>3 DEF Decisions
  <2>2. PICK h \in ErrorLimits :
            d = LET redo == RedoFactor > 0 /\ hk > RedoFactor * h IN
                [accept |-> ~redo, h |-> h, order |-> NextOrder(redo)]
    BY <1>3, <2>1 DEF Decisions
  <2>3. h \in Nat /\ RedoFactor \in Nat
    BY <1>1, FactorsAssumption DEF ErrorLimits
  <2>4. RedoFactor > 0 /\ hk > RedoFactor * h
    BY <2>2
  <2>5. RedoFactor * h >= h
    BY <2>3, <2>4
  <2>6. RedoFactor * h \in Nat
    BY <2>3
  <2>7. h < hk
    BY <1>1, <2>3, <2>4, <2>5, <2>6
  <2>8. d.h = h /\ d.order = order
    BY <2>2, <2>4 DEF NextOrder
  <2>9. OrderFits(order)
    BY DEF Inv, History
  <2> QED BY <1>1, <2>3, <2>7, <2>8, <2>9
<1> QED BY <1>1, <1>2, <1>3 DEF Results

\* The shorter step fits where the rejected one did, and the generators follow it.
LEMMA RejectKeeps == Inv /\ RejectPoint => Inv'
<1> SUFFICES ASSUME Inv, RejectPoint
             PROVE  Inv'
  OBVIOUS
<1>1. /\ core = "Running" /\ stage = "decide"
      /\ UNCHANGED <<p, finished, tk, hk, tSolve, order, since, trapHistory, accepted,
                     pastTimesteps, points, result, forced, evaluated>>
  BY DEF RejectPoint, Running
<1>2. CASE tk < bp[2] \/ tk > bp[1]
  <2>1. Abort /\ UNCHANGED <<bp, next, noise>>
    BY <1>2 DEF RejectPoint
  <2> QED BY <1>1, <2>1, ControlKeeps DEF Abort, stepping
<1>3. CASE ~(tk < bp[2] \/ tk > bp[1])
  <2> DEFINE hmax == LimitBy(accepted.hmax, BreakLimit(RejectedBreakPoints))
             Limited(h) == LimitBy(LimitBy(h, accepted.bound), hmax)
             Cut(h) == CutStep(tk, Limited(h), RejectedBreakPoints[1])
  <2>1. PICK d \in {x \in Decisions : ~x.accept} :
           /\ bp' = RejectedBreakPoints
           /\ next' = [accept |-> FALSE, h |-> Cut(d.h).h, t |-> Cut(d.h).t, order |-> d.order]
           /\ noise' \in RevertedNoise(Cut(d.h))
           /\ core' = IF noise'.panic THEN "Thrown" ELSE core
           /\ stage' = "advance"
    BY <1>3 DEF RejectPoint
  <2>2. /\ p \in Settings /\ result \in Results /\ tk \in Nat /\ hk \in Nat /\ tSolve \in Nat
        /\ bp \in Seq(Nat) /\ Len(bp) = 2 /\ accepted.hmax \in Nat /\ accepted.bound \in Nat
    BY DEF Inv, Types
  <2>3. result.next \in Nat /\ bp[1] \in Nat /\ bp[2] \in Nat
    <3>1. bp \in Seq(Nat) /\ 1 \in 1 .. Len(bp) /\ 2 \in 1 .. Len(bp)
      BY <2>2
    <3>2. bp[1] \in Nat /\ bp[2] \in Nat
      BY <3>1, ElementOfSeq
    <3> QED BY <2>2, <3>2 DEF Results
  <2>4. /\ hk = tSolve - tk /\ tk < tSolve /\ tSolve <= bp[1] /\ bp[2] <= tk /\ tk < p.stop
        /\ \A c \in Corners : tk < c => tSolve <= c
    BY <1>1 DEF Inv, Bracketed, StepFits, Live, Stepping
  <2>5. tSolve < result.next
    BY <1>1 DEF Inv, Reported
  <2>6. ~RejectedParameters(p) /\ p.stop > 0 /\ p.stop \in Int
    BY <1>1, <2>2, SettingTypes DEF Inv, Accepted
  <2>7. d.h \in Nat /\ d.h < hk /\ d.order \in Nat /\ OrderFits(d.order)
    <3>1. hk > 0
      BY <2>2, <2>4
    <3> QED BY <1>1, <3>1, RejectedDecision
  <2> DEFINE N == RejectedBreakPoints
  <2>8. N \in Seq(Nat) /\ Len(N) = 2 /\ N[1] = result.next /\ N[2] = bp[2]
    <3>1. result.next > tk
      BY <2>2, <2>3, <2>4, <2>5
    <3> QED BY <2>3, <3>1 DEF RejectedBreakPoints
  <2> HIDE DEF N
  <2>9. hmax \in Int
    <3>1. N[1] - N[2] \in Nat /\ FbrDiv \in Nat \ {0}
      BY <2>2, <2>3, <2>4, <2>5, <2>8, FactorsAssumption
    <3>2. (N[1] - N[2]) \div FbrDiv \in Nat
      BY <3>1, Quotient
    <3>3. BreakLimit(N) \in Int
      BY <3>2 DEF BreakLimit, AtLeastResolved
    <3>4. LimitBy(accepted.hmax, BreakLimit(N)) \in Int
      <4>1. accepted.hmax \in Int
        BY <2>2
      <4> QED BY <3>3, <4>1, LimitedStep
    <3> QED BY <3>4 DEF N
  <2> HIDE DEF hmax
  <2> DEFINE H == Limited(d.h)
             s == Cut(d.h)
  <2>10. H \in Nat /\ H <= d.h
    <3> DEFINE l == LimitBy(d.h, accepted.bound)
    <3>1. l \in Int /\ l >= 0 /\ l <= d.h
      <4>1. d.h \in Int /\ accepted.bound \in Int /\ d.h >= 0
        BY <2>2, <2>7
      <4> QED BY <4>1, LimitedStep
    <3> HIDE DEF l
    <3>2. LimitBy(l, hmax) \in Int /\ LimitBy(l, hmax) >= 0 /\ LimitBy(l, hmax) <= l
      BY <2>9, <3>1, LimitedStep
    <3>3. H = LimitBy(l, hmax)
      BY DEF l
    <3> HIDE DEF H
    <3> QED BY <2>7, <3>1, <3>2, <3>3
  <2>11. s.h \in Nat /\ s.t \in Nat /\ s.h = s.t - tk /\ s.h <= d.h /\ s.t <= result.next
    <3> HIDE DEF H
    <3>1. tk < result.next
      BY <2>2, <2>3, <2>4, <2>5
    <3>2. LET x == CutStep(tk, H, result.next)
          IN  x.h \in Nat /\ x.t \in Nat /\ x.h = x.t - tk /\ x.h <= H /\ x.t <= result.next
      BY <2>2, <2>3, <3>1, <2>10, CutFits, SMTT(30)
    <3>3. s = CutStep(tk, H, result.next)
      BY <2>8 DEF N, H
    <3> HIDE DEF s
    <3> QED BY <2>7, <2>10, <3>2, <3>3
  <2> HIDE DEF H, s
  <2>12. /\ bp' = N /\ next' = [accept |-> FALSE, h |-> s.h, t |-> s.t, order |-> d.order]
         /\ noise' \in RevertedNoise(s)
         /\ core' = (IF noise'.panic THEN "Thrown" ELSE core)
         /\ stage' = "advance"
    BY <2>1 DEF N, s
  <2>13. s.t < tSolve
    BY <2>2, <2>4, <2>7, <2>11
  <2>14. /\ noise \in NoiseTypes /\ ~noise.panic /\ NoiseAt(tSolve)
         /\ p.noise = "zoh" =>
              /\ noise.drawn - noise.back = noise.index
              /\ noise.index \in {SampleIndex(tk), SampleIndex(tk) + 1}
              /\ noise.back = 1 => noise.index = SampleIndex(tk)
    BY <1>1 DEF Inv, Types, Noise, NoiseTypes, Live, Stepping
  <2>15. ASSUME p.noise = "sde" => s.h # 0
         PROVE  /\ noise' \in NoiseTypes /\ ~noise'.panic
                /\ p.noise = "zoh" =>
                     /\ noise'.drawn - noise'.back = noise'.index /\ noise'.index = SampleIndex(s.t)
                     /\ noise'.index \in {SampleIndex(tk), SampleIndex(tk) + 1}
                     /\ noise'.back = 1 => noise'.index = SampleIndex(tk)
                /\ p.noise = "sde" => noise'.at = s.t /\ noise'.last = tk /\ noise'.drawn = Len(points)
    <3>1. tk <= s.t /\ s.t <= tSolve /\ (p.noise = "sde" => tk < s.t)
      BY <2>2, <2>11, <2>13, <2>15
    <3>2. LET a == RevertNoise(s.t)
          IN  /\ a \in NoiseTypes /\ ~a.panic
              /\ p.noise = "zoh" =>
                     /\ a.drawn - a.back = a.index /\ a.index = SampleIndex(s.t)
                     /\ a.index \in {SampleIndex(tk), SampleIndex(tk) + 1}
                     /\ a.back = 1 => a.index = SampleIndex(tk)
              /\ p.noise = "sde" => a.at = s.t /\ a.last = tk /\ a.drawn = Len(points)
      BY <2>2, <2>6, <2>11, <2>14, <3>1, NoiseReverts
    <3>3. noise' = RevertNoise(s.t)
      BY <2>12, <2>15 DEF RevertedNoise
    <3> QED BY <3>2, <3>3
  <2>16. ASSUME p.noise = "sde", s.h = 0
         PROVE  noise' \in NoiseTypes
    <3> DEFINE t == s.t
    <3>1. RevertNoise(t) = RevertSde(noise, t)
      BY <2>16 DEF RevertNoise
    <3>2. t \in Nat
      BY <2>11
    <3>3. noise' \in {RevertNoise(t), [noise EXCEPT !.at = t]}
      BY <2>12 DEF RevertedNoise
    <3> HIDE DEF t
    <3>4. noise \in NoiseTypes
      BY <2>14
    <3>5. [noise EXCEPT !.at = t] \in NoiseTypes
      BY <3>2, <3>4 DEF NoiseTypes
    <3>6. RevertSde(noise, t) \in NoiseTypes
      BY <3>2, <3>4, <3>5 DEF RevertSde, NoiseTypes
    <3> QED BY <3>1, <3>3, <3>5, <3>6
  <2>17. Types'
    <3>1. noise' \in NoiseTypes
      BY <2>15, <2>16
    <3>3. core' \in {"Running", "Thrown"}
      BY <1>1, <2>12
    <3>2. next' \in [accept : BOOLEAN, h : Nat, t : Nat, order : Nat]
      BY <2>7, <2>11, <2>12
    <3> QED BY <1>1, <2>8, <2>12, <3>1, <3>2, <3>3 DEF Inv, Types, NoiseTypes, Terminal
  <2>18. Untouched' /\ Accepted' /\ Reported'
    BY <1>1, <2>6, <2>12 DEF Untouched, Accepted, Reported, RejectedParameters
  <2>19. Corners' = Corners /\ \A c \in Corners : c \in Int
    BY <1>1, <2>2, SettingTypes, BreaksAssumption DEF Corners
  <2>20. Bracketed'
    <3>1. ASSUME s.h # 0
          PROVE  /\ s.h = s.t - tk /\ tk < s.t /\ s.t <= result.next
                 /\ \A c \in Corners : tk < c => s.t <= c
      BY <2>2, <2>4, <2>11, <2>13, <2>19, <3>1
    <3> QED BY <1>1, <2>4, <2>8, <2>12, <2>19, <3>1 DEF Bracketed, StepFits, Stepping
  <2>21. Met'
    BY <1>1, <2>12, <2>19 DEF Inv, Met, Times
  <2>22. History'
    <3>1. OrderFits(next.order)'
      BY <1>1, <2>7, <2>12 DEF OrderFits
    <3> QED BY <1>1, <2>12, <3>1 DEF Inv, History, PastStepsAreDistances
  <2>23. Noise'
    <3>1. CASE p.noise = "sde" /\ s.h = 0
      <4>1. next'.h = 0 /\ next'.accept = FALSE
        BY <2>12, <3>1
      <4> QED BY <1>1, <2>12, <3>1, <4>1 DEF Noise, SampleIndex, Stepping, LostStep
    <3>2. CASE p.noise = "sde" => s.h # 0
      <4>1. next'.t = s.t
        BY <2>12
      <4>2. core' = core
        BY <2>12, <2>15, <3>2
      <4> QED BY <1>1, <2>12, <2>15, <3>2, <4>1, <4>2 DEF Noise, NoiseAt, SampleIndex, Stepping
    <3> QED BY <3>1, <3>2
  <2> QED BY <2>17, <2>18, <2>20, <2>21, <2>22, <2>23 DEF Inv
<1> QED BY <1>2, <1>3

-----------------------------------------------------------------------------
(* The next step                                                           *)

\* The step that was cut becomes the one under way.
LEMMA AdvanceKeeps == Inv /\ Advance => Inv'
<1> SUFFICES ASSUME Inv, Advance
             PROVE  Inv'
  OBVIOUS
<1>1. /\ core = "Running" /\ stage = "advance"
      /\ hk' = next.h /\ tSolve' = next.t /\ order' = next.order
      /\ UNCHANGED <<p, finished, tk, bp, since, trapHistory, accepted, pastTimesteps,
                   points, result, next, noise, evaluated>>
  BY DEF Advance, Running
<1>2. \/ TooSmall /\ core' = "Aborted" /\ stage' = stage /\ forced' = forced
      \/ ~TooSmall /\ core' = core /\ stage' = "solve" /\ forced' = (forced \/ ForcesBypass)
  BY DEF Advance, Abort
<1>3. /\ next \in [accept : BOOLEAN, h : Nat, t : Nat, order : Nat] /\ p \in Settings
      /\ forced \in BOOLEAN /\ OrderFits(next.order)
  BY <1>1 DEF Inv, Types, History
<1>4. forced' \in BOOLEAN
  <2>1. ForcesBypass \in BOOLEAN
    BY <1>3, SettingTypes DEF ForcesBypass
  <2> QED BY <1>2, <1>3, <2>1
<1>5. Types'
  <2>1. next.h \in Nat /\ next.t \in Nat /\ next.order \in Nat
    BY <1>3
  <2>2. core' \in {"Running", "Stopped"} \cup Terminal
        /\ stage' \in {"check", "initial", "first", "solve", "decide", "advance"}
    BY <1>1, <1>2 DEF Terminal
  <2> QED BY <1>1, <1>4, <2>1, <2>2 DEF Inv, Types
<1>6. Untouched' /\ Accepted' /\ Reported'
  BY <1>1, <1>2 DEF Inv, Untouched, Accepted, Reported, RejectedParameters
<1>7. Bracketed'
  <2>1. CASE TooSmall
    BY <1>1, <1>2, <2>1 DEF Bracketed, Live
  <2>2. CASE ~TooSmall
    BY <1>1, <1>2, <2>2 DEF Inv, Bracketed, TooSmall, StepFits, Corners, Live, Stepping
  <2> QED BY <2>1, <2>2
<1>8. Met'
  BY <1>1, <1>2 DEF Inv, Met, Corners, Times
<1>9. History'
  BY <1>1, <1>2, <1>3 DEF Inv, History, OrderFits, PastStepsAreDistances
<1>10. Noise'
  <2>1. CASE TooSmall
    BY <1>1, <1>2, <2>1 DEF Inv, Noise, Live
  <2>2. CASE ~TooSmall
    BY <1>1, <1>2, <2>2 DEF Inv, Noise, NoiseAt, SampleIndex, TooSmall, Live, Stepping
  <2> QED BY <2>1, <2>2
<1> QED BY <1>5, <1>6, <1>7, <1>8, <1>9, <1>10 DEF Inv

-----------------------------------------------------------------------------
(* All steps                                                               *)

LEMMA InvNext == Inv /\ [Next]_vars => Inv'
<1> SUFFICES ASSUME Inv, [Next]_vars
             PROVE  Inv'
  OBVIOUS
<1>1. CASE CheckParameters
  BY <1>1, ControlKeeps DEF CheckParameters, Abort, Running
<1>2. CASE InitialFailure
  BY <1>2, ControlKeeps DEF InitialFailure, Abort, Running
<1>3. CASE InitialSolution
  BY <1>3, InitialKeeps
<1>4. CASE FirstStep
  BY <1>4, FirstStepKeeps
<1>5. CASE Solve
  BY <1>5, SolveKeeps
<1>6. CASE SolveAborts
  BY <1>6, SolveAbortsKeeps
<1>7. CASE AcceptPoint
  BY <1>7, AcceptKeeps
<1>8. CASE RejectPoint
  BY <1>8, RejectKeeps
<1>9. CASE Advance
  BY <1>9, AdvanceKeeps
<1>10. CASE Resume
  BY <1>10, ControlKeeps DEF Resume
<1>12. CASE AcceptAborts
  BY <1>12, ControlKeeps DEF AcceptAborts, Abort, Running
<1>11. CASE UNCHANGED vars
  <2>1. Types' /\ Untouched' /\ Accepted' /\ Reported' /\ Met'
    BY <1>11 DEF Inv, Types, Untouched, Accepted, Reported, Met, RejectedParameters, Corners, Times, vars
  <2>2. Bracketed' /\ History' /\ Noise'
    BY <1>11 DEF Inv, Bracketed, StepFits, Corners, History, OrderFits, PastStepsAreDistances, Noise,
                 NoiseAt, SampleIndex, Live, Stepping, LostStep, vars
  <2> QED BY <2>1, <2>2 DEF Inv
<1> QED BY <1>1, <1>2, <1>3, <1>4, <1>5, <1>6, <1>7, <1>8, <1>9, <1>10, <1>11, <1>12 DEF Next, Step

\* Every state of every run satisfies the invariant.
THEOREM InvHolds == Spec => []Inv
BY InvInit, InvNext, PTL DEF Spec

-----------------------------------------------------------------------------
(* What the invariant says                                                 *)

LEMMA InvTypes == Inv => TypeOK
<1> SUFFICES ASSUME Inv
             PROVE  TypeOK
  OBVIOUS
<1>1. order = 1 \/ order \in 1 .. p.maxord
  BY DEF Inv, History
<1>2. \A i \in DOMAIN points : points[i] \in [t : Nat, order : Nat, brk : BOOLEAN]
  <2>1. points \in Seq([t : Nat, order : Nat, brk : BOOLEAN])
    BY DEF Inv, Types
  <2>2. DOMAIN points = 1 .. Len(points)
    BY <2>1
  <2> QED BY <2>1, <2>2, ElementOfSeq
<1> QED BY <1>1, <1>2 DEF Inv, Types, TypeOK

LEMMA InvMet == Inv => BreakPointsAreMet
<1> SUFFICES ASSUME Inv
             PROVE  BreakPointsAreMet
  OBVIOUS
<1>1. BreakPointsBracket
  BY DEF Inv, Bracketed, StepFits, BreakPointsBracket, Solving, Live, Stepping
<1>2. \A b \in Breaks : 0 < b /\ b <= tk => b \in Times
  BY BreaksAssumption DEF Inv, Met, Corners
<1>3. 0 < p.start /\ p.start <= tk => p.start \in Times
  BY SettingTypes DEF Inv, Types, Met, Corners
<1>4. tk <= Max({0, p.stop})
  BY DEF Inv, Met
<1> QED BY <1>1, <1>2, <1>3, <1>4 DEF BreakPointsAreMet

LEMMA InvPast == Inv => PastIsUsable
<1> SUFFICES ASSUME Inv
             PROVE  PastIsUsable
  OBVIOUS
<1> DEFINE n == Len(points)
           k == Len(pastTimesteps)
<1>1. n \in Nat /\ k \in Nat /\ since \in Nat /\ order \in Nat /\ p.maxord \in Int /\ p.unknowns \in Nat
  <2>1. points \in Seq([t : Nat, order : Nat, brk : BOOLEAN]) /\ pastTimesteps \in Seq(Nat)
        /\ since \in Nat /\ order \in Nat /\ p \in Settings
    BY DEF Inv, Types
  <2>2. n \in Nat
    BY <2>1
  <2>3. k \in Nat
    BY <2>1
  <2> QED BY <2>1, <2>2, <2>3, SettingTypes
<1>2. ASSUME Solving
      PROVE  /\ since < n /\ OrderFits(order) /\ \A i \in 1 .. since - 1 : ~points[i].brk
             /\ k = n - 1 \/ k = p.unknowns + 1
  BY <1>2 DEF Inv, Solving, History, Met
<1> HIDE DEF n, k
<1>3. ASSUME Solving
      PROVE  order >= 1 /\ (order = 1 \/ (order <= p.maxord /\ order <= since))
  BY <1>1, <1>2, <1>3 DEF OrderFits
<1>4. HistoryOnOneSide
  <2>1. ASSUME Solving, HavePredictor, NEW i \in 1 .. MinimalPredictorHistory - 1
        PROVE  ~points[i].brk
    <3>1. i \in 1 .. since - 1
      BY <1>1, <2>1 DEF HavePredictor, MinimalPredictorHistory
    <3> QED BY <1>2, <2>1, <3>1
  <2>2. ASSUME Solving, NEW i \in 1 .. order - 1
        PROVE  ~points[i].brk
    <3>1. i \in 1 .. since - 1
      BY <1>1, <1>3, <2>2
    <3> QED BY <1>2, <2>2, <3>1
  <2> QED BY <2>1, <2>2 DEF HistoryOnOneSide
<1>5. PastStepsSuffice
  <2>1. ASSUME Solving, HistoryHasRoom
        PROVE  /\ k + 1 >= MinimalDifferentiatorHistory
               /\ HavePredictor => k + 1 >= MinimalPredictorHistory
    <3>1. MinimalDifferentiatorHistory <= order
      BY <1>1, <1>3, <2>1 DEF MinimalDifferentiatorHistory
    <3>2. MinimalDifferentiatorHistory \in Int
      BY <1>1 DEF MinimalDifferentiatorHistory
    <3>3. p.maxord <= p.unknowns + 1
      BY <2>1 DEF HistoryHasRoom
    <3>4. k + 1 >= order /\ (since >= order + 1 => k + 1 >= order + 1)
      BY <1>1, <1>2, <1>3, <2>1, <3>3
    <3> QED BY <1>1, <3>1, <3>2, <3>4 DEF HavePredictor, MinimalPredictorHistory
  <2> QED BY <2>1 DEF PastStepsSuffice, k
<1>6. PastStepsAreDistances
  BY DEF Inv, History
<1> QED BY <1>4, <1>5, <1>6 DEF PastIsUsable

LEMMA InvNoise == Inv => NoiseFollowsTime
BY DEF Inv, Noise, NoiseAt, NoiseFollowsTime, Solving, Live, Stepping

-----------------------------------------------------------------------------
(* Theorems                                                                *)

\* Every variable has its type and the order is one the settings allow, for any grid of times.
THEOREM TypeCorrect == Spec => []TypeOK
BY InvHolds, InvTypes, PTL

(* No corner of a waveform that is reported, neither the start of the      *)
(* recording nor the stop time is stepped over: updateBreakPoint and the   *)
(* cut of the step in TranCore::coroutine, whatever was rejected before.   *)
THEOREM NoCornerIsMissed == Spec => []BreakPointsAreMet
BY InvHolds, InvMet, PTL

(* The corrector and the predictor read points of one side of the last     *)
(* discontinuity, and with a buffer that has room for the order there are  *)
(* enough steps: the DBGCHECK of IntegratorCoeffs::compute never fires.    *)
THEOREM PastIsAlwaysUsable == Spec => []PastIsUsable
BY InvHolds, InvPast, PTL

(* However often a step is taken back the generators stay at the time that *)
(* is solved, a sample drawn for a time is used again for it, and the      *)
(* generators throw only for a rejected step that is too small for the     *)
(* time under continuous noise (coretran.cpp:1871, tdnblock.cpp:97).       *)
THEOREM NoiseIsReproduced == Spec => []NoiseFollowsTime
BY InvHolds, InvNoise, PTL

(* A run that carries the numbers along, with the sensitivity of a         *)
(* shooting run or without, takes only steps of the transient core, and    *)
(* its fairness is the one of the core: what holds of one holds of the     *)
(* other.                                                                  *)
THEOREM ShootingIsTransient == ShootingSpec => Spec
<1>1. ShootingInit => Init
  BY DEF ShootingInit
<1>2. [ShootingNext]_shootingVars => [Next]_vars
  <2>1. ShootingNext => Next
    BY DEF ShootingNext, ShootingStep, SolveShooting, AcceptShooting, OtherStep, Next, Step
  <2>2. UNCHANGED shootingVars => UNCHANGED vars
    BY DEF shootingVars
  <2> QED BY <2>1, <2>2
<1> QED BY <1>1, <1>2, PTL DEF ShootingSpec, Spec

-----------------------------------------------------------------------------
(* Delay lines.                                                            *)
(*                                                                         *)
(* The same core keeps the histories of the delay lines (DelayLines).      *)
(* Main line: a sample is where counting back from the latest cell says,   *)
(* whatever was evicted, cleared or moved when a buffer grew; a history    *)
(* holds the whole run or reaches further back than any delay; so the      *)
(* binary search ends between the two samples the complete record has      *)
(* around the time that is asked for.                                      *)

-----------------------------------------------------------------------------
(* Circular buffers                                                        *)

IsBuffer(b) ==
    /\ b = [cell |-> b.cell, size |-> b.size, at |-> b.at, count |-> b.count]
    /\ b.cell = [i \in 0 .. (b.size - 1) |-> b.cell[i]]
    /\ b.size \in Nat /\ b.count \in 0 .. b.size
    /\ b.at \in Nat /\ (b.at < b.size \/ b.at = 0)

\* What the two updates of Clear change
LEMMA ExceptTwo ==
    ASSUME NEW b, b = [cell |-> b.cell, size |-> b.size, at |-> b.at, count |-> b.count],
           NEW x, NEW y
    PROVE  [b EXCEPT !.at = x, !.count = y] = [cell |-> b.cell, size |-> b.size, at |-> x, count |-> y]
<1> DEFINE cells == {b.cell}
           sizes == {b.size}
           places == {b.at, x}
           counts == {b.count, y}
           Records == [cell : cells, size : sizes, at : places, count : counts]
           e == [b EXCEPT !.at = x, !.count = y]
           r == [cell |-> b.cell, size |-> b.size, at |-> x, count |-> y]
<1>1. Records = [cell : cells, size : sizes, at : places, count : counts] /\ b.cell \in cells /\ b.size \in sizes /\ b.at \in places /\ x \in places /\ b.count \in counts /\ y \in counts
  OBVIOUS
<1> HIDE DEF cells, sizes, places, counts, Records
<1>2. b \in Records
  BY <1>1
<1>3. e \in Records /\ e.cell = b.cell /\ e.size = b.size /\ e.at = x /\ e.count = y
  BY <1>1, <1>2
<1>4. r \in Records /\ r.cell = b.cell /\ r.size = b.size /\ r.at = x /\ r.count = y
  BY <1>1
<1> HIDE DEF e, r
<1>5. e = r
  BY <1>1, <1>3, <1>4
<1> QED BY <1>5 DEF e, r
\* Where the next value of a buffer is put
NextCell(b) == IF b.at + 1 >= b.size THEN 0 ELSE b.at + 1

\* The buffer after a value was added, field by field
LEMMA AddIs ==
    ASSUME NEW b, b = [cell |-> b.cell, size |-> b.size, at |-> b.at, count |-> b.count], NEW v
    PROVE  Add(b, v) = [cell |-> [b.cell EXCEPT ![NextCell(b)] = v], size |-> b.size,
                        at |-> NextCell(b), count |-> Counted(b)]
<1> DEFINE i == NextCell(b)
           y == Counted(b)
           d == [b.cell EXCEPT ![i] = v]
           cells == {b.cell, d}
           sizes == {b.size}
           places == {b.at, i}
           counts == {b.count, y}
           Records == [cell : cells, size : sizes, at : places, count : counts]
           e == [b EXCEPT !.at = i, !.count = y, !.cell = [@ EXCEPT ![i] = v]]
           r == [cell |-> d, size |-> b.size, at |-> i, count |-> y]
<1>1. e = Add(b, v)
  BY DEF Add, NextCell
<1> HIDE DEF i, y
<1>2. /\ Records = [cell : cells, size : sizes, at : places, count : counts]
      /\ b.cell \in cells /\ d \in cells /\ b.size \in sizes
      /\ b.at \in places /\ i \in places /\ b.count \in counts /\ y \in counts
  OBVIOUS
<1> HIDE DEF cells, sizes, places, counts, Records
<1>3. b \in Records
  BY <1>2
<1>4. e \in Records /\ e.cell = d /\ e.size = b.size /\ e.at = i /\ e.count = y
  BY <1>2, <1>3
<1>5. r \in Records /\ r.cell = d /\ r.size = b.size /\ r.at = i /\ r.count = y
  BY <1>2
<1> HIDE DEF e, r
<1>6. e = r
  BY <1>2, <1>4, <1>5
<1> QED BY <1>1, <1>6 DEF r, d, i, y

\* A new buffer is one, without values.
LEMMA NewIsBuffer ==
    ASSUME NEW n \in Nat
    PROVE  IsBuffer(NewBuffer(n)) /\ NewBuffer(n).size = n /\ NewBuffer(n).count = 0
BY DEF NewBuffer, IsBuffer

\* Clearing keeps the size.
LEMMA ClearKeeps ==
    ASSUME NEW b, IsBuffer(b)
    PROVE  IsBuffer(Clear(b)) /\ Clear(b).size = b.size /\ Clear(b).count = 0
<1> DEFINE c == [cell |-> b.cell, size |-> b.size, at |-> 0, count |-> 0]
<1>1. Clear(b) = c
  BY ExceptTwo DEF Clear, IsBuffer
<1>2. IsBuffer(c) /\ c.size = b.size /\ c.count = 0
  BY DEF IsBuffer
<1> HIDE DEF c
<1> QED BY <1>1, <1>2

\* The latest value is at 0 and all others one further back; a full buffer loses its oldest.
LEMMA AddKeeps ==
    ASSUME NEW b, IsBuffer(b), b.size > 0, NEW v
    PROVE  /\ IsBuffer(Add(b, v)) /\ Add(b, v).size = b.size
           /\ Add(b, v).count = IF b.count < b.size THEN b.count + 1 ELSE b.count
           /\ SampleAt(Add(b, v), 0) = v
           /\ \A k \in 1 .. (b.size - 1) : SampleAt(Add(b, v), k) = SampleAt(b, k - 1)
<1> DEFINE at == IF b.at + 1 >= b.size THEN 0 ELSE b.at + 1
           count == IF b.count < b.size THEN b.count + 1 ELSE b.count
           cell == [i \in 0 .. (b.size - 1) |-> IF i = at THEN v ELSE b.cell[i]]
           c == [cell |-> cell, size |-> b.size, at |-> at, count |-> count]
<1>1. at \in 0 .. (b.size - 1) /\ count \in 0 .. b.size /\ b.size \in Nat /\ b.at \in 0 .. (b.size - 1)
  BY DEF IsBuffer
<1>2. [b.cell EXCEPT ![at] = v] = cell
  BY <1>1 DEF IsBuffer
<1>3. Add(b, v) = c
  <2>1. b = [cell |-> b.cell, size |-> b.size, at |-> b.at, count |-> b.count]
    BY DEF IsBuffer
  <2>2. Add(b, v) = [cell |-> [b.cell EXCEPT ![NextCell(b)] = v], size |-> b.size,
                     at |-> NextCell(b), count |-> Counted(b)]
    BY <2>1, AddIs
  <2>3. at = NextCell(b) /\ count = Counted(b)
    BY DEF NextCell, Counted
  <2> HIDE DEF at, count, cell
  <2> QED BY <2>2, <2>3, <1>2
<1>4. c.cell = cell /\ c.size = b.size /\ c.at = at /\ c.count = count
  OBVIOUS
<1>5. IsBuffer(c)
  BY <1>1 DEF IsBuffer
<1>6. SampleAt(c, 0) = v
  BY <1>1 DEF SampleAt
<1>7. ASSUME NEW k \in 1 .. (b.size - 1)
      PROVE  SampleAt(c, k) = SampleAt(b, k - 1)
  <2> DEFINE i == IF k > at THEN b.size + at - k ELSE at - k
             j == IF k - 1 > b.at THEN b.size + b.at - (k - 1) ELSE b.at - (k - 1)
  <2>1. i = j /\ i \in 0 .. (b.size - 1) /\ i # at
    BY <1>1
  <2>2. SampleAt(b, k - 1) = b.cell[j]
    BY DEF SampleAt
  <2>3. SampleAt(c, k) = cell[i]
    BY <1>4 DEF SampleAt
  <2> HIDE DEF i, j, at
  <2> QED BY <2>1, <2>2, <2>3
<1> HIDE DEF c
<1> QED BY <1>3, <1>4, <1>5, <1>6, <1>7

\* Growing moves the cells behind the latest value, and every value is still found where it was.
LEMMA UpsizeKeeps ==
    ASSUME NEW b, IsBuffer(b), NEW n \in Nat
    PROVE  /\ IsBuffer(Upsize(b, n)) /\ Upsize(b, n).count = b.count
           /\ Upsize(b, n).size = IF n <= b.size THEN b.size ELSE n
           /\ \A k \in 0 .. (b.size - 1) : SampleAt(Upsize(b, n), k) = SampleAt(b, k)
<1>0. CASE n <= b.size
  BY <1>0 DEF Upsize
<1>1. CASE ~(n <= b.size)
  <2> DEFINE gap == n - b.size
             moved == IF b.size > 0 THEN b.size - b.at - 1 ELSE 0
             cell == [i \in 0 .. (n - 1) |-> IF i >= n - moved THEN b.cell[i - gap]
                                             ELSE IF i < b.size THEN b.cell[i] ELSE Blank]
             c == [cell |-> cell, size |-> n, at |-> b.at, count |-> b.count]
  <2>1. Upsize(b, n) = c
    <3>1. Upsize(b, n) = [b EXCEPT !.size = n, !.cell = cell]
      BY <1>1 DEF Upsize
    <3> HIDE DEF cell
    <3> QED BY <3>1 DEF IsBuffer
  <2>2. c.cell = cell /\ c.size = n /\ c.at = b.at /\ c.count = b.count
    OBVIOUS
  <2>3. b.size \in Nat /\ b.count \in 0 .. b.size /\ b.at \in Nat /\ b.size < n /\ (b.at < b.size \/ b.at = 0)
    BY <1>1 DEF IsBuffer
  <2>4. IsBuffer(c)
    <3>1. cell = [i \in 0 .. (n - 1) |-> cell[i]]
      OBVIOUS
    <3> HIDE DEF cell
    <3> QED BY <2>3, <3>1 DEF IsBuffer
  <2>5. ASSUME NEW k \in 0 .. (b.size - 1)
        PROVE  SampleAt(c, k) = SampleAt(b, k)
    <3>0. b.at \in 0 .. (b.size - 1)
      BY <2>3
    <3>1. CASE k > b.at
      <4> DEFINE i == n + b.at - k
      <4>1. i \in 0 .. (n - 1) /\ i >= n - moved /\ i - gap = b.size + b.at - k
        BY <2>3, <3>0, <3>1
      <4>2. cell[i] = b.cell[i - gap]
        BY <4>1
      <4>3. SampleAt(c, k) = cell[i] /\ SampleAt(b, k) = b.cell[b.size + b.at - k]
        BY <2>2, <3>1 DEF SampleAt
      <4> QED BY <4>1, <4>2, <4>3
    <3>2. CASE ~(k > b.at)
      <4> DEFINE i == b.at - k
      <4>1. i \in 0 .. (n - 1) /\ ~(i >= n - moved) /\ i < b.size
        BY <2>3, <3>0, <3>2
      <4>2. cell[i] = b.cell[i]
        BY <4>1
      <4>3. SampleAt(c, k) = cell[i] /\ SampleAt(b, k) = b.cell[i]
        BY <2>2, <3>2 DEF SampleAt
      <4> QED BY <4>2, <4>3
    <3> QED BY <3>1, <3>2
  <2> HIDE DEF c
  <2> QED BY <1>1, <2>1, <2>2, <2>4, <2>5
<1> QED BY <1>0, <1>1

-----------------------------------------------------------------------------
(* Maxima of finite sets                                                   *)

\* A finite set of natural numbers that is not empty has a greatest one.
LEMMA FiniteHaveMax ==
    ASSUME NEW D \in SUBSET Nat, IsFiniteSet(D), D # {}
    PROVE  Max(D) \in D /\ \A y \in D : y <= Max(D)
<1> DEFINE Has(U) == \E x \in U : \A y \in U : y <= x
           T == {n \in Nat : \E U \in SUBSET Nat : /\ IsFiniteSet(U) /\ U # {} /\ ~Has(U)
                                                   /\ Cardinality(U) = n}
<1>1. T = {}
  <2> SUFFICES ASSUME T # {} PROVE FALSE
    OBVIOUS
  <2>1. Min(T) \in T /\ \A y \in T : Min(T) <= y
    <3>1. T \in SUBSET Nat
      OBVIOUS
    <3> HIDE DEF T
    <3> QED BY <3>1, LeastExists
  <2> DEFINE m == Min(T)
  <2> HIDE DEF m
  <2>2. m \in T /\ \A y \in T : m <= y
    BY <2>1 DEF m
  <2>3. PICK U \in SUBSET Nat : IsFiniteSet(U) /\ U # {} /\ ~Has(U) /\ Cardinality(U) = m
    BY <2>2
  <2>4. PICK x \in U : TRUE
    BY <2>3
  <2>5. U \ {x} # {}
    <3> SUFFICES ASSUME U = {x} PROVE FALSE
      BY <2>4
    <3> QED BY <2>3
  <2>6. IsFiniteSet(U \ {x}) /\ Cardinality(U \ {x}) = m - 1
    BY <2>3, <2>4, FS_RemoveElement
  <2>7. Cardinality(U \ {x}) \in Nat
    BY <2>6, FS_CardinalityType
  <2>8. ~(m - 1 \in T)
    BY <2>2, <2>6, <2>7
  <2>9. PICK y \in U \ {x} : \A z \in U \ {x} : z <= y
    <3>1. U \ {x} \in SUBSET Nat
      OBVIOUS
    <3>2. Has(U \ {x})
      <4> HIDE DEF Has
      <4> QED BY <2>5, <2>6, <2>7, <2>8, <3>1
    <3> QED BY <3>2
  <2>10. Has(U)
    <3>1. CASE x <= y
      BY <2>9, <3>1
    <3>2. CASE ~(x <= y)
      <4>1. \A z \in U : z <= x
        <5> TAKE z \in U
        <5>1. x \in Nat /\ y \in Nat /\ z \in Nat
          OBVIOUS
        <5> QED BY <5>1, <2>9, <3>2
      <4> QED BY <4>1
    <3> QED BY <3>1, <3>2
  <2> QED BY <2>3, <2>10
<1>2. Cardinality(D) \in Nat
  BY FS_CardinalityType
<1>3. Has(D)
  <2> HIDE DEF Has
  <2> QED BY <1>1, <1>2
<1>4. \E x \in D : \A y \in D : x >= y
  BY <1>3
<1>5. Max(D) \in D /\ \A y \in D : Max(D) >= y
  BY <1>4 DEF Max
<1> QED BY <1>5

\* The maximum of a number and the values of a function on a finite set bounds them all.
LEMMA MaxOfValues ==
    ASSUME NEW D, IsFiniteSet(D), NEW base \in Nat, NEW f \in [D -> Nat]
    PROVE  /\ Max({base} \cup {f[x] : x \in D}) \in Nat
           /\ base <= Max({base} \cup {f[x] : x \in D})
           /\ \A x \in D : f[x] <= Max({base} \cup {f[x_1] : x_1 \in D})
<1> DEFINE T == {f[x] : x \in D}
<1>1. f \in Surjection(D, T)
  BY DEF Surjection
<1>2. IsFiniteSet(T)
  BY <1>1, FS_Surjection
<1>3. IsFiniteSet(T \cup {base})
  BY <1>2, FS_AddElement
<1>4. T \cup {base} = {base} \cup T /\ {base} \cup T \in SUBSET Nat /\ {base} \cup T # {}
  OBVIOUS
<1>5. \A x \in D : f[x] \in T
  OBVIOUS
<1> HIDE DEF T
<1>6. Max({base} \cup T) \in {base} \cup T /\ \A y \in {base} \cup T : y <= Max({base} \cup T)
  BY <1>3, <1>4, FiniteHaveMax
<1>7. Max({base} \cup T) \in Nat /\ base <= Max({base} \cup T) /\ \A x \in D : f[x] <= Max({base} \cup T)
  BY <1>4, <1>5, <1>6
<1> QED BY <1>7 DEF T

-----------------------------------------------------------------------------
(* The invariant of the delay lines                                        *)

Points == [t : Nat, v : [Lines -> Lines \X Nat \X Nat]]

Built ==
    /\ history = [s \in Lines |-> history[s]] /\ \A s \in Lines : IsBuffer(history[s])
    /\ IsBuffer(times)
    /\ maxDelay \in [Lines -> Nat]
    /\ run \in Nat /\ longest \in Nat
    /\ record \in Seq(Points)

Roomy ==
    /\ longest <= times.size
    /\ IF run = 0 THEN record = <<>> ELSE longest >= InitialSize
    /\ \A s \in Lines :
          /\ history[s].size <= longest
          /\ IF run = 0 THEN history[s].size = 0 ELSE history[s].size >= InitialSize

Recorded ==
    record # <<>> =>
        /\ \A k \in 0 .. (Len(record) - 1) : k < times.count => SampleAt(times, k) = record[k + 1].t
        /\ \A s \in Lines :
              /\ history[s].count \in 1 .. Len(record) /\ history[s].count <= times.count
              /\ \A k \in 0 .. (history[s].count - 1) : SampleAt(history[s], k) = record[k + 1].v[s]

Descending ==
    /\ \A i, j \in 1 .. Len(record) : i < j => record[i].t - record[j].t >= j - i
    /\ record # <<>> => record[1].t <= MaxTime

Reaching ==
    record # <<>> =>
        \A s \in Lines : \/ history[s].count = Len(record)
                         \/ record[1].t - record[history[s].count].t > maxDelay[s]

DelayInv == Built /\ Roomy /\ Recorded /\ Descending /\ Reaching /\ HistoryIsBounded

\* Products with a factor of at least two
LEMMA Multiples ==
    ASSUME NEW g \in Nat \ {0, 1}, NEW a \in Nat, NEW b \in Nat, a <= b
    PROVE  /\ g * a \in Nat /\ g * b \in Nat /\ g * a <= g * b /\ g * a = a * g
           /\ a > 0 => a < a * g
OBVIOUS

\* It holds before the first run,
LEMMA InitEstablishes ==
    ASSUME DelayInit
    PROVE  DelayInv
<1>1. \A s \in Lines : history[s] = NewBuffer(0)
  BY DEF DelayInit
<1>2. IsBuffer(NewBuffer(0)) /\ NewBuffer(0).size = 0 /\ NewBuffer(0).count = 0
  BY NewIsBuffer
<1>3. Built
  BY <1>1, <1>2 DEF Built, DelayInit
<1>4. Roomy
  BY <1>1, <1>2 DEF Roomy, DelayInit
<1>5. Recorded /\ Descending /\ Reaching /\ HistoryIsBounded
  BY DEF Recorded, Descending, Reaching, HistoryIsBounded, DelayInit
<1> QED BY <1>3, <1>4, <1>5 DEF DelayInv

\* The times are kept when their buffer grows.
LEMMA TimesForKeeps ==
    ASSUME IsBuffer(times), NEW n \in Nat
    PROVE  /\ IsBuffer(TimesFor(n)) /\ TimesFor(n).count = times.count
           /\ TimesFor(n).size >= n /\ TimesFor(n).size >= times.size
           /\ \A k \in 0 .. (times.size - 1) : SampleAt(TimesFor(n), k) = SampleAt(times, k)
<1>1. times.size \in Nat
  BY DEF IsBuffer
<1>2. CASE n > times.size
  <2>1. /\ IsBuffer(Upsize(times, n)) /\ Upsize(times, n).size = n
        /\ Upsize(times, n).count = times.count
        /\ \A k \in 0 .. (times.size - 1) : SampleAt(Upsize(times, n), k) = SampleAt(times, k)
    BY <1>1, <1>2, UpsizeKeeps
  <2> QED BY <1>1, <1>2, <2>1 DEF TimesFor
<1>3. CASE ~(n > times.size)
  BY <1>1, <1>3 DEF TimesFor
<1> QED BY <1>2, <1>3

\* A history that has to grow becomes GrowthFactor times as long, and keeps its values.
LEMMA GrownKeeps ==
    ASSUME DelayInv, record # <<>>, NEW s \in Lines, NEW t \in Nat
    PROVE  /\ IsBuffer(Grown(s, t)) /\ Grown(s, t).count = history[s].count
           /\ Grown(s, t).size \in Nat /\ Grown(s, t).size >= history[s].size
           /\ \A k \in 0 .. (history[s].size - 1) : SampleAt(Grown(s, t), k) = SampleAt(history[s], k)
           /\ NeedsUpsize(s, t) => /\ Grown(s, t).size = history[s].size * GrowthFactor
                                   /\ Grown(s, t).count < Grown(s, t).size
           /\ ~NeedsUpsize(s, t) => Grown(s, t) = history[s]
<1> DEFINE h == history[s]
           n == h.size * GrowthFactor
<1>1. IsBuffer(h) /\ h.size >= InitialSize /\ h.size > 0 /\ h.size \in Nat /\ h.count \in 0 .. h.size
  BY SizesAssumption DEF DelayInv, Built, Roomy, IsBuffer
<1>2. n \in Nat /\ h.size < n
  BY <1>1, Multiples, SizesAssumption
<1>3. CASE NeedsUpsize(s, t)
  <2>1. Grown(s, t) = Upsize(h, n)
    BY <1>1, <1>3, SizesAssumption DEF Grown, GrownSize
  <2>2. /\ IsBuffer(Upsize(h, n)) /\ Upsize(h, n).count = h.count /\ Upsize(h, n).size = n
        /\ \A k \in 0 .. (h.size - 1) : SampleAt(Upsize(h, n), k) = SampleAt(h, k)
    <3> HIDE DEF h, n
    <3>1. /\ IsBuffer(Upsize(h, n)) /\ Upsize(h, n).count = h.count
          /\ Upsize(h, n).size = IF n <= h.size THEN h.size ELSE n
          /\ \A k \in 0 .. (h.size - 1) : SampleAt(Upsize(h, n), k) = SampleAt(h, k)
      BY <1>1, <1>2, UpsizeKeeps
    <3>2. ~(n <= h.size)
      BY <1>1, <1>2
    <3> QED BY <3>1, <3>2
  <2> QED BY <1>1, <1>2, <1>3, <2>1, <2>2
<1>4. CASE ~NeedsUpsize(s, t)
  BY <1>1, <1>4 DEF Grown
<1> QED BY <1>3, <1>4

\* The length the buffer of times is given is that of the longest history.
LEMMA LongestCovers ==
    ASSUME DelayInv, record # <<>>, NEW t \in Nat
    PROVE  /\ LongestNow(t) \in Nat /\ LongestNow(t) >= longest
           /\ \A s \in Lines : Grown(s, t).size <= LongestNow(t)
<1> DEFINE Growing == {x \in Lines : NeedsUpsize(x, t)}
           f == [x \in Growing |-> Grown(x, t).size]
<1>1. f \in [Growing -> Nat]
  BY GrownKeeps
<1>2. IsFiniteSet(Growing)
  <2>1. IsFiniteSet(Lines)
    BY SizesAssumption
  <2> QED BY <2>1, FS_Subset
<1>3. {Grown(s, t).size : s \in Growing} = {f[x] : x \in Growing}
  OBVIOUS
<1>4. longest \in Nat
  BY DEF DelayInv, Built
<1>5. \A x \in Growing : f[x] = Grown(x, t).size
  OBVIOUS
<1> HIDE DEF f
<1>6. /\ Max({longest} \cup {f[x] : x \in Growing}) \in Nat
      /\ longest <= Max({longest} \cup {f[x] : x \in Growing})
      /\ \A x \in Growing : f[x] <= Max({longest} \cup {f[x_1] : x_1 \in Growing})
  BY <1>1, <1>2, <1>4, MaxOfValues
<1>7. LongestNow(t) = Max({longest} \cup {f[x] : x \in Growing})
  BY <1>3 DEF LongestNow
<1>8. ASSUME NEW s \in Lines
      PROVE  Grown(s, t).size <= LongestNow(t)
  <2>1. CASE s \in Growing
    BY <1>5, <1>6, <1>7, <2>1
  <2>2. CASE s \notin Growing
    <3>1. Grown(s, t) = history[s]
      BY <2>2, GrownKeeps
    <3>2. history[s].size <= longest /\ history[s].size \in Nat
      BY DEF DelayInv, Roomy, Built, IsBuffer
    <3> QED BY <1>4, <1>6, <1>7, <3>1, <3>2
  <2> QED BY <2>1, <2>2
<1> QED BY <1>4, <1>6, <1>7, <1>8

\* when a run begins, with histories of an earlier run or without,
LEMMA StartRunStep ==
    ASSUME DelayInv, StartRun
    PROVE  DelayInv'
<1> DEFINE first == [s \in Lines |-> <<s, run + 1, 0>>]
           base(s) == IF Clear(history[s]).size = 0 THEN Upsize(Clear(history[s]), InitialSize)
                      ELSE Clear(history[s])
<1>1. /\ run \in Nat /\ run' = run + 1
      /\ history' = [s \in Lines |-> Add(base(s), <<s, run + 1, 0>>)]
      /\ longest' = Max({longest, InitialSize})
      /\ times' = Add(TimesFor(longest'), 0)
      /\ record' = <<[t |-> 0, v |-> first]>>
      /\ maxDelay' \in [Lines -> MaxDelays]
      /\ IsBuffer(times) /\ longest \in Nat
  BY DEF StartRun, LoadMaxDelays, DelayInv, Built
<1>2. /\ InitialSize \in Nat \ {0} /\ MaxDelays \subseteq Nat
      /\ GrowthFactor \in Nat \ {0, 1} /\ MaxTime \in Nat
  BY SizesAssumption
<1>3. maxDelay' \in [Lines -> Nat]
  BY <1>1, <1>2
<1>4. longest' \in Nat /\ longest <= longest' /\ InitialSize <= longest'
  <2>1. longest \in Int /\ InitialSize \in Int /\ longest \in Nat
    BY <1>1, <1>2
  <2>2. /\ Max({longest, InitialSize}) \in {longest, InitialSize}
        /\ Max({longest, InitialSize}) >= longest /\ Max({longest, InitialSize}) >= InitialSize
    BY <2>1, MaxOfTwo
  <2> QED BY <1>1, <1>2, <2>1, <2>2
<1>5. ASSUME NEW s \in Lines
      PROVE  /\ IsBuffer(base(s)) /\ base(s).count = 0 /\ base(s).size >= InitialSize
             /\ base(s).size \in Nat /\ base(s).size <= longest'
             /\ run = 0 => base(s).size = InitialSize
  <2> DEFINE c == Clear(history[s])
  <2>1. /\ IsBuffer(history[s]) /\ history[s].size <= longest /\ history[s].size \in Nat
        /\ (run = 0 => history[s].size = 0) /\ (run # 0 => history[s].size >= InitialSize)
    BY DEF DelayInv, Built, Roomy, IsBuffer
  <2>2. IsBuffer(c) /\ c.size = history[s].size /\ c.count = 0
    BY <2>1, ClearKeeps
  <2> HIDE DEF c
  <2>3. CASE c.size = 0
    <3>1. /\ IsBuffer(Upsize(c, InitialSize)) /\ Upsize(c, InitialSize).count = c.count
          /\ Upsize(c, InitialSize).size = IF InitialSize <= c.size THEN c.size ELSE InitialSize
      BY <1>2, <2>2, UpsizeKeeps
    <3>2. base(s) = Upsize(c, InitialSize)
      BY <2>3 DEF c
    <3> HIDE DEF base
    <3> QED BY <1>2, <1>4, <2>2, <2>3, <3>1, <3>2
  <2>4. CASE c.size # 0
    <3>1. base(s) = c
      BY <2>4 DEF c
    <3>2. run # 0
      BY <2>1, <2>2, <2>4
    <3> HIDE DEF base
    <3> QED BY <1>1, <1>2, <1>4, <2>1, <2>2, <3>1, <3>2
  <2> QED BY <2>3, <2>4
<1> HIDE DEF base
<1>6. ASSUME NEW s \in Lines
      PROVE  /\ IsBuffer(history'[s]) /\ history'[s].size = base(s).size /\ history'[s].count = 1
             /\ SampleAt(history'[s], 0) = <<s, run + 1, 0>>
  <2>1. history'[s] = Add(base(s), <<s, run + 1, 0>>)
    BY <1>1
  <2>2. base(s).size > 0 /\ base(s).count < base(s).size
    BY <1>2, <1>5
  <2>3. /\ IsBuffer(Add(base(s), <<s, run + 1, 0>>)) /\ Add(base(s), <<s, run + 1, 0>>).size = base(s).size
        /\ Add(base(s), <<s, run + 1, 0>>).count = IF base(s).count < base(s).size THEN base(s).count + 1 ELSE base(s).count
        /\ SampleAt(Add(base(s), <<s, run + 1, 0>>), 0) = <<s, run + 1, 0>>
    BY <1>5, <2>2, AddKeeps
  <2> QED BY <1>5, <2>1, <2>2, <2>3
<1>7. /\ IsBuffer(times') /\ times'.size \in Nat /\ times'.size >= longest' /\ SampleAt(times', 0) = 0
      /\ times'.count \in Nat \ {0}
  <2> DEFINE b == TimesFor(longest')
  <2>1. IsBuffer(b) /\ b.size >= longest'
    BY <1>1, <1>4, TimesForKeeps
  <2>2. b.size > 0 /\ b.size \in Nat /\ b.count \in 0 .. b.size
    BY <1>2, <1>4, <2>1 DEF IsBuffer
  <2> HIDE DEF b
  <2>3. /\ IsBuffer(Add(b, 0)) /\ Add(b, 0).size = b.size /\ SampleAt(Add(b, 0), 0) = 0
        /\ Add(b, 0).count = IF b.count < b.size THEN b.count + 1 ELSE b.count
    BY <2>1, <2>2, AddKeeps
  <2> QED BY <1>1, <2>1, <2>2, <2>3 DEF b
<1>8. record' \in Seq(Points') /\ Len(record') = 1 /\ record'[1] = [t |-> 0, v |-> first] /\ record' # <<>>
  <2>1. first \in [Lines -> Lines \X Nat \X Nat]
    BY <1>1
  <2> HIDE DEF first
  <2>2. [t |-> 0, v |-> first] \in Points
    BY <2>1 DEF Points
  <2> QED BY <1>1, <2>2 DEF Points
<1>9. Built'
  <2>1. history' = [s \in Lines |-> history'[s]]
    BY <1>1
  <2>2. run' \in Nat
    BY <1>1
  <2> QED BY <1>3, <1>4, <1>6, <1>7, <1>8, <2>1, <2>2 DEF Built
<1>10. Roomy'
  <2>1. longest' <= times'.size /\ run' # 0 /\ longest' >= InitialSize
    BY <1>1, <1>4, <1>7, <1>2
  <2>2. \A s \in Lines : history'[s].size <= longest' /\ history'[s].size >= InitialSize
    BY <1>5, <1>6
  <2> QED BY <2>1, <2>2 DEF Roomy
<1>11. Recorded'
  <2>1. \A k \in 0 .. (Len(record') - 1) : k = 0
    BY <1>8
  <2>2. \A s \in Lines : first[s] = <<s, run + 1, 0>>
    OBVIOUS
  <2>3. record'[1].t = 0 /\ record'[1].v = first
    BY <1>8
  <2> HIDE DEF first
  <2>4. ASSUME NEW k \in 0 .. (Len(record') - 1), k < times'.count
        PROVE  SampleAt(times', k) = record'[k + 1].t
    BY <1>7, <2>1, <2>3
  <2>5. ASSUME NEW s \in Lines
        PROVE  /\ history'[s].count \in 1 .. Len(record') /\ history'[s].count <= times'.count
               /\ \A k \in 0 .. (history'[s].count - 1) : SampleAt(history'[s], k) = record'[k + 1].v[s]
    <3>1. \A k \in 0 .. (history'[s].count - 1) : k = 0
      BY <1>6
    <3>2. times'.count >= 1
      BY <1>7
    <3> QED BY <1>6, <1>8, <2>2, <2>3, <3>1, <3>2
  <2> QED BY <2>4, <2>5 DEF Recorded
<1>12. Descending'
  BY <1>2, <1>8 DEF Descending
<1>13. Reaching'
  BY <1>6, <1>8 DEF Reaching
<1>14. HistoryIsBounded'
  <2> SUFFICES ASSUME run' = 1, NEW s \in Lines
               PROVE  history'[s].size <= Max({InitialSize, GrowthFactor * (maxDelay'[s] + 1)})
    BY DEF HistoryIsBounded
  <2>1. run = 0
    BY <1>1
  <2>2. history'[s].size = InitialSize
    BY <1>5, <1>6, <2>1
  <2>3. GrowthFactor * (maxDelay'[s] + 1) \in Nat
    BY <1>2, <1>3, Multiples
  <2> DEFINE b == GrowthFactor * (maxDelay'[s] + 1)
  <2>4. b \in Int /\ InitialSize \in Int
    BY <1>2, <2>3
  <2> HIDE DEF b
  <2>5. Max({InitialSize, b}) >= InitialSize /\ Max({InitialSize, b}) \in {InitialSize, b}
    BY <2>4, MaxOfTwo
  <2>6. history'[s].size <= Max({InitialSize, b})
    BY <2>2, <2>4, <2>5
  <2> QED BY <2>6 DEF b
<1> QED BY <1>9, <1>10, <1>11, <1>12, <1>13, <1>14 DEF DelayInv

\* when the core is rebuilt between two runs,
LEMMA RebuildStep ==
    ASSUME DelayInv, Rebuild
    PROVE  DelayInv'
<1>1. /\ times' = Clear(times) /\ record' = <<>> /\ run > 0 /\ UNCHANGED <<history, longest, maxDelay, run>>
  BY DEF Rebuild
<1>2. IsBuffer(times') /\ times'.size = times.size
  BY <1>1, ClearKeeps DEF DelayInv, Built
<1>3. Built'
  BY <1>1, <1>2 DEF DelayInv, Built, Points
<1>4. Roomy'
  BY <1>1, <1>2 DEF DelayInv, Roomy, Built
<1>5. Recorded' /\ Descending' /\ Reaching'
  BY <1>1 DEF Recorded, Descending, Reaching
<1>6. HistoryIsBounded'
  BY <1>1 DEF DelayInv, HistoryIsBounded
<1> QED BY <1>3, <1>4, <1>5, <1>6 DEF DelayInv

\* and when a point is accepted: what is evicted is further back than the maximal delay.
LEMMA AcceptStep ==
    ASSUME DelayInv, NEW t \in 1 .. MaxTime, Accept(t)
    PROVE  DelayInv'
<1> DEFINE new == [s \in Lines |-> <<s, run, t>>]
           L == LongestNow(t)
           sample == [t |-> t, v |-> new]
<1>1. /\ record # <<>> /\ t > record[1].t
      /\ history' = [s \in Lines |-> Add(Grown(s, t), <<s, run, t>>)]
      /\ longest' = L
      /\ times' = Add(TimesFor(L), t)
      /\ record' = <<sample>> \o record
      /\ maxDelay' = maxDelay /\ run' = run
  BY DEF Accept, AddSample, Value, Now
<1>2. /\ InitialSize \in Nat \ {0} /\ GrowthFactor \in Nat \ {0, 1} /\ MaxTime \in Nat /\ t \in Nat
  BY SizesAssumption
<1>3. /\ run \in Nat /\ run # 0 /\ longest \in Nat /\ IsBuffer(times) /\ times.size \in Nat
      /\ record \in Seq(Points) /\ Len(record) \in Nat \ {0} /\ maxDelay \in [Lines -> Nat]
      /\ longest <= times.size /\ longest >= InitialSize /\ times.count \in 0 .. times.size
  BY <1>1 DEF DelayInv, Built, Roomy, IsBuffer
<1>4. \A i \in 1 .. Len(record) : record[i] \in Points /\ record[i].t \in Nat
  <2>1. \A i \in 1 .. Len(record) : record[i] \in Points
    BY <1>3
  <2>2. \A x \in Points : x.t \in Nat
    BY DEF Points
  <2> QED BY <2>1, <2>2
<1>5. L \in Nat /\ \A s \in Lines : Grown(s, t).size <= L
  BY <1>1, <1>2, LongestCovers
<1> HIDE DEF L
<1>6. ASSUME NEW s \in Lines
      PROVE  /\ IsBuffer(history[s]) /\ history[s].size >= InitialSize /\ history[s].size \in Nat
             /\ history[s].size <= longest
             /\ history[s].count \in 1 .. history[s].size /\ history[s].count <= Len(record)
             /\ history[s].count <= times.count
             /\ \A k \in 0 .. (history[s].count - 1) : SampleAt(history[s], k) = record[k + 1].v[s]
  BY <1>1, <1>3 DEF DelayInv, Built, Roomy, Recorded, IsBuffer
<1>7. ASSUME NEW s \in Lines
      PROVE  /\ IsBuffer(Grown(s, t)) /\ Grown(s, t).count = history[s].count
             /\ Grown(s, t).size \in Nat /\ Grown(s, t).size >= history[s].size
             /\ \A k \in 0 .. (history[s].size - 1) : SampleAt(Grown(s, t), k) = SampleAt(history[s], k)
             /\ NeedsUpsize(s, t) => /\ Grown(s, t).size = history[s].size * GrowthFactor
                                     /\ Grown(s, t).count < Grown(s, t).size
             /\ ~NeedsUpsize(s, t) => Grown(s, t) = history[s]
  BY <1>1, <1>2, GrownKeeps
<1>8. ASSUME NEW s \in Lines
      PROVE  /\ IsBuffer(history'[s]) /\ history'[s].size = Grown(s, t).size
             /\ history'[s].count = IF history[s].count < Grown(s, t).size THEN history[s].count + 1
                                    ELSE history[s].count
             /\ SampleAt(history'[s], 0) = <<s, run, t>>
             /\ \A k \in 1 .. (history'[s].count - 1) : SampleAt(history'[s], k) = SampleAt(history[s], k - 1)
  <2> DEFINE g == Grown(s, t)
             v == <<s, run, t>>
  <2>1. IsBuffer(g) /\ g.size > 0 /\ g.size \in Nat /\ g.count = history[s].count
    BY <1>2, <1>6, <1>7
  <2>2. history'[s] = Add(g, v)
    BY <1>1
  <2> HIDE DEF g, v
  <2>3. /\ IsBuffer(Add(g, v)) /\ Add(g, v).size = g.size
        /\ Add(g, v).count = IF g.count < g.size THEN g.count + 1 ELSE g.count
        /\ SampleAt(Add(g, v), 0) = v
        /\ \A k \in 1 .. (g.size - 1) : SampleAt(Add(g, v), k) = SampleAt(g, k - 1)
    BY <2>1, AddKeeps
  <2>4. ASSUME NEW k \in 1 .. (history'[s].count - 1)
        PROVE  SampleAt(history'[s], k) = SampleAt(history[s], k - 1)
    <3>1. g.count \in 1 .. history[s].size /\ history[s].size \in Nat /\ g.size >= history[s].size
      BY <1>6, <1>7 DEF g
    <3>2. k \in 1 .. (g.size - 1) /\ k - 1 \in 0 .. (history[s].size - 1)
      BY <2>1, <2>2, <2>3, <3>1
    <3>3. SampleAt(g, k - 1) = SampleAt(history[s], k - 1)
      BY <1>7, <3>2 DEF g
    <3> QED BY <2>2, <2>3, <3>2, <3>3
  <2> QED BY <2>1, <2>2, <2>3, <2>4 DEF g, v
<1>9. /\ IsBuffer(times') /\ times'.size \in Nat /\ times'.size >= longest' /\ SampleAt(times', 0) = t
      /\ times'.count = IF times.count < times'.size THEN times.count + 1 ELSE times.count
      /\ \A k \in 1 .. times.size : k < times'.size => SampleAt(times', k) = SampleAt(times, k - 1)
  <2> DEFINE b == TimesFor(L)
  <2>1. /\ IsBuffer(b) /\ b.size >= L /\ b.size >= times.size /\ b.count = times.count
        /\ \A k \in 0 .. (times.size - 1) : SampleAt(b, k) = SampleAt(times, k)
    BY <1>3, <1>5, TimesForKeeps
  <2>2. times' = Add(b, t) /\ b.size \in Nat
    BY <1>1, <2>1 DEF IsBuffer
  <2> HIDE DEF b
  <2>3. CASE b.size > 0
    <3>1. /\ IsBuffer(Add(b, t)) /\ Add(b, t).size = b.size /\ SampleAt(Add(b, t), 0) = t
          /\ Add(b, t).count = IF b.count < b.size THEN b.count + 1 ELSE b.count
          /\ \A k \in 1 .. (b.size - 1) : SampleAt(Add(b, t), k) = SampleAt(b, k - 1)
      BY <2>1, <2>3, AddKeeps
    <3>2. Add(b, t) = times' /\ b.size >= L
      BY <2>1, <2>2
    <3>3. IsBuffer(times') /\ times'.size = b.size /\ SampleAt(times', 0) = t
      BY <3>1, <3>2
    <3>4. times'.count = IF times.count < times'.size THEN times.count + 1 ELSE times.count
      BY <2>1, <3>1, <3>2
    <3>5. times'.size \in Nat /\ times'.size >= longest'
      BY <1>1, <2>1, <2>2, <3>3
    <3>6. ASSUME NEW k \in 1 .. times.size, k < times'.size
          PROVE  SampleAt(times', k) = SampleAt(times, k - 1)
      <4>1. k \in 1 .. (b.size - 1) /\ k - 1 \in 0 .. (times.size - 1)
        BY <1>3, <2>2, <3>3, <3>6
      <4> QED BY <2>1, <3>1, <3>2, <4>1
    <3> QED BY <3>3, <3>4, <3>5, <3>6
  <2>4. b.size > 0
    BY <1>2, <1>3, <2>1, <2>2
  <2> QED BY <2>3, <2>4
<1>10. /\ record' \in Seq(Points) /\ Len(record') = Len(record) + 1 /\ record'[1] = sample
       /\ record' # <<>>
       /\ \A i \in 2 .. Len(record') : record'[i] = record[i - 1]
  <2>1. sample \in Points
    <3>1. new \in [Lines -> Lines \X Nat \X Nat]
      BY <1>2, <1>3
    <3> HIDE DEF new
    <3> QED BY <1>2, <3>1 DEF Points
  <2> HIDE DEF sample
  <2> QED BY <1>1, <1>3, <2>1
<1>11. sample.t = t /\ \A s \in Lines : sample.v[s] = <<s, run, t>>
  OBVIOUS
<1> HIDE DEF sample
<1>12. Built'
  <2>1. history' = [s \in Lines |-> history'[s]]
    BY <1>1
  <2> QED BY <1>1, <1>3, <1>5, <1>8, <1>9, <1>10, <2>1 DEF Built, Points
<1>13. Roomy'
  <2>1. \A s \in Lines : history'[s].size <= longest' /\ history'[s].size >= InitialSize
    BY <1>1, <1>2, <1>5, <1>6, <1>7, <1>8
  <2>2. longest' <= times'.size /\ longest' \in Nat /\ times'.size \in Nat
    BY <1>1, <1>5, <1>9
  <2>3. longest' >= InitialSize
    <3>1. LongestNow(t) >= longest
      BY <1>1, <1>2, LongestCovers
    <3> QED BY <1>1, <1>2, <1>3, <1>5, <3>1 DEF L
  <2> QED BY <1>1, <1>3, <2>1, <2>2, <2>3 DEF Roomy
<1>14. Recorded'
  <2>1. ASSUME NEW k \in 0 .. (Len(record') - 1), k < times'.count
        PROVE  SampleAt(times', k) = record'[k + 1].t
    <3>1. CASE k = 0
      BY <1>9, <1>10, <1>11, <3>1
    <3>2. CASE k # 0
      <4>1. /\ k \in 1 .. times.size /\ k < times'.size
            /\ k - 1 \in 0 .. (Len(record) - 1) /\ k - 1 < times.count
            /\ k + 1 \in 2 .. Len(record')
        <5>1. times'.count \in 0 .. times'.size
          BY <1>9 DEF IsBuffer
        <5>2. times'.count <= times.count + 1
          BY <1>3, <1>9
        <5> QED BY <1>3, <1>9, <1>10, <2>1, <3>2, <5>1, <5>2
      <4>2. SampleAt(times', k) = SampleAt(times, k - 1)
        BY <1>9, <4>1
      <4>3. SampleAt(times, k - 1) = record[k - 1 + 1].t
        BY <1>1, <4>1 DEF DelayInv, Recorded
      <4>4. record'[k + 1] = record[k + 1 - 1] /\ k + 1 - 1 = k - 1 + 1
        BY <1>10, <4>1
      <4> QED BY <4>2, <4>3, <4>4
    <3> QED BY <3>1, <3>2
  <2>2. ASSUME NEW s \in Lines
        PROVE  /\ history'[s].count \in 1 .. Len(record') /\ history'[s].count <= times'.count
               /\ \A k \in 0 .. (history'[s].count - 1) : SampleAt(history'[s], k) = record'[k + 1].v[s]
    <3>1. /\ history'[s].count \in 1 .. Len(record') /\ history[s].count \in Nat
          /\ history'[s].count <= history[s].count + 1
      <4>1. history[s].count \in Nat /\ history[s].count >= 1 /\ history[s].count <= Len(record)
        BY <1>6
      <4>2. history'[s].count = history[s].count + 1 \/ history'[s].count = history[s].count
        BY <1>8
      <4>3. Len(record') = Len(record) + 1
        BY <1>10
      <4> QED BY <1>3, <4>1, <4>2, <4>3
    <3>0. history'[s].count <= times'.count
      <4>1. history'[s].size <= times'.size /\ history'[s].size \in Nat
        <5>1. history'[s].size = Grown(s, t).size /\ Grown(s, t).size \in Nat /\ Grown(s, t).size <= L
          BY <1>5, <1>7, <1>8
        <5>2. times'.size \in Nat /\ times'.size >= L
          BY <1>1, <1>9
        <5> QED BY <1>5, <5>1, <5>2
      <4>2. history'[s].count \in 0 .. history'[s].size
        BY <1>8 DEF IsBuffer
      <4>3. history[s].count <= times.count
        BY <1>6
      <4>4. times'.count = IF times.count < times'.size THEN times.count + 1 ELSE times.count
        BY <1>9
      <4> DEFINE n == history'[s].count
                 z == history'[s].size
                 c == times'.count
                 w == times'.size
                 m == history[s].count
      <4>5. z <= w /\ z \in Nat /\ n \in 0 .. z /\ m <= times.count /\ n <= m + 1 /\ m \in Nat
            /\ c = (IF times.count < w THEN times.count + 1 ELSE times.count)
        BY <3>1, <4>1, <4>2, <4>3, <4>4
      <4>6. times.count \in Nat /\ w \in Nat
        BY <1>3, <1>9
      <4> HIDE DEF n, z, c, w, m
      <4>7. n <= c
        BY <4>5, <4>6
      <4> QED BY <4>7 DEF n, c
    <3>2. ASSUME NEW k \in 0 .. (history'[s].count - 1)
          PROVE  SampleAt(history'[s], k) = record'[k + 1].v[s]
      <4>1. CASE k = 0
        <5>1. k + 1 = 1 /\ record'[1].v[s] = <<s, run, t>>
          BY <1>10, <1>11, <4>1
        <5> QED BY <1>8, <4>1, <5>1
      <4>2. CASE k # 0
        <5>1. k \in 1 .. (history'[s].count - 1) /\ k - 1 \in 0 .. (history[s].count - 1)
              /\ k + 1 \in 2 .. Len(record')
          <6> DEFINE n == history'[s].count
          <6>1. n \in 1 .. (Len(record) + 1) /\ n <= history[s].count + 1 /\ history[s].count \in Nat
            BY <1>10, <3>1
          <6>2. k \in 0 .. (n - 1) /\ k # 0
            BY <4>2
          <6>0. Len(record) \in Nat
            BY <1>3
          <6> DEFINE q == Len(record)
                     m == history[s].count
          <6>4. q \in Nat /\ n \in 1 .. (q + 1) /\ n <= m + 1 /\ m \in Nat
            BY <6>0, <6>1
          <6> HIDE DEF n, q, m
          <6>5. k \in Nat /\ k >= 1 /\ k <= n - 1
            BY <6>2, <6>4
          <6>6. k <= m /\ k <= q
            BY <6>4, <6>5
          <6>7. k \in 1 .. (n - 1) /\ k - 1 \in 0 .. (m - 1) /\ k + 1 \in 2 .. (q + 1)
            BY <6>4, <6>5, <6>6
          <6>3. k \in 1 .. (n - 1) /\ k - 1 \in 0 .. (history[s].count - 1) /\ k + 1 \in 2 .. (Len(record) + 1)
            BY <6>7 DEF q, m
          <6> QED BY <1>10, <6>3 DEF n
        <5>2. SampleAt(history'[s], k) = SampleAt(history[s], k - 1)
          BY <1>8, <5>1
        <5>3. SampleAt(history[s], k - 1) = record[k - 1 + 1].v[s] /\ k - 1 + 1 = k /\ k + 1 - 1 = k
          BY <1>6, <3>1, <5>1
        <5>4. record'[k + 1] = record[k + 1 - 1]
          BY <1>10, <5>1
        <5> QED BY <5>2, <5>3, <5>4
      <4> QED BY <4>1, <4>2
    <3> QED BY <3>0, <3>1, <3>2
  <2> QED BY <2>1, <2>2 DEF Recorded
<1>15. Descending'
  <2>1. record'[1].t <= MaxTime
    BY <1>2, <1>10, <1>11
  <2>2. ASSUME NEW i \in 1 .. Len(record'), NEW j \in 1 .. Len(record'), i < j
        PROVE  record'[i].t - record'[j].t >= j - i
    <3>1. /\ j - 1 \in 1 .. Len(record) /\ record'[j] = record[j - 1] /\ record[j - 1].t \in Nat
      BY <1>3, <1>4, <1>10, <2>2
    <3>2. CASE i = 1
      <4>1. CASE j - 1 = 1
        BY <1>1, <1>2, <1>4, <1>10, <1>11, <3>1, <3>2, <4>1
      <4>2. CASE j - 1 # 1
        <5>1. 1 \in 1 .. Len(record) /\ 1 < j - 1 /\ record[1].t \in Nat
          BY <1>3, <1>4, <3>1, <4>2
        <5>2. record[1].t - record[j - 1].t >= j - 1 - 1
          BY <3>1, <5>1 DEF DelayInv, Descending
        <5> QED BY <1>1, <1>2, <1>10, <1>11, <3>1, <3>2, <5>1, <5>2
      <4> QED BY <4>1, <4>2
    <3>3. CASE i # 1
      <4>1. i - 1 \in 1 .. Len(record) /\ record'[i] = record[i - 1] /\ record[i - 1].t \in Nat /\ i - 1 < j - 1
        BY <1>3, <1>4, <1>10, <2>2, <3>3
      <4>2. record[i - 1].t - record[j - 1].t >= (j - 1) - (i - 1)
        BY <3>1, <4>1 DEF DelayInv, Descending
      <4> QED BY <3>1, <4>1, <4>2
    <3> QED BY <3>2, <3>3
  <2> QED BY <2>1, <2>2 DEF Descending
<1>16. \A s \in Lines : \A k \in 0 .. (history[s].count - 1) : SampleAt(times, k) = record[k + 1].t
  <2> TAKE s \in Lines
  <2> TAKE k \in 0 .. (history[s].count - 1)
  <2>1. k \in 0 .. (Len(record) - 1) /\ k < times.count
    BY <1>3, <1>6
  <2> QED BY <1>1, <2>1 DEF DelayInv, Recorded
<1>17. ASSUME NEW s \in Lines
       PROVE  \/ history'[s].count = Len(record')
              \/ record'[1].t - record'[history'[s].count].t > maxDelay'[s]
  <2> DEFINE n == history[s].count
  <2>1. n \in 1 .. Len(record) /\ n <= history[s].size /\ history[s].size \in Nat /\ maxDelay[s] \in Nat
    BY <1>3, <1>6
  <2>2. CASE n < Grown(s, t).size
    <3>1. history'[s].count = n + 1
      BY <1>8, <2>2
    <3>2. CASE n = Len(record)
      BY <1>10, <3>1, <3>2
    <3>3. CASE n # Len(record)
      <4>1. record[1].t - record[n].t > maxDelay[s]
        BY <1>1, <3>3 DEF DelayInv, Reaching
      <4>2. record'[n + 1] = record[n]
        <5>1. n \in Nat /\ n + 1 - 1 = n
          BY <2>1
        <5>2. n + 1 \in 2 .. (Len(record) + 1)
          BY <1>3, <2>1
        <5> HIDE DEF n
        <5>3. record'[n + 1] = record[n]
          <6> DEFINE i == n + 1
          <6>1. i \in 2 .. Len(record')
            BY <1>10, <5>2
          <6>3. i - 1 = n /\ i = n + 1
            BY <5>1
          <6> HIDE DEF i
          <6>2. record'[i] = record[i - 1]
            BY <1>10, <6>1
          <6> QED BY <6>2, <6>3
        <5> QED BY <5>3 DEF n
      <4>3. record[1].t \in Nat /\ record[n].t \in Nat /\ 1 \in 1 .. Len(record)
        BY <1>3, <1>4, <2>1
      <4>4. t - record[n].t > maxDelay[s]
        <5> DEFINE older == record[n].t
                   now == record[1].t
                   d == maxDelay[s]
        <5>1. older \in Nat /\ now \in Nat /\ d \in Nat /\ t \in Nat /\ now - older > d
          BY <1>2, <2>1, <4>1, <4>3
        <5>2. now < t
          BY <1>1
        <5> HIDE DEF older, now, d
        <5>3. t - older > d
          BY <5>1, <5>2
        <5> QED BY <5>3 DEF older, d
      <4> QED BY <1>1, <1>10, <1>11, <3>1, <4>2, <4>4
    <3> QED BY <3>2, <3>3
  <2>3. CASE ~(n < Grown(s, t).size)
    <3>1. /\ ~NeedsUpsize(s, t) /\ Grown(s, t) = history[s] /\ n = history[s].size /\ history'[s].count = n
      BY <1>7, <1>8, <2>1, <2>3
    <3>2. n >= 2 /\ ~(t - SampleAt(times, n - 2) <= maxDelay[s])
      BY <3>1 DEF NeedsUpsize
    <3>3. SampleAt(times, n - 2) = record[n - 1].t
      <4>1. n - 2 \in 0 .. (n - 1) /\ n - 2 + 1 = n - 1
        BY <2>1, <3>2
      <4> QED BY <1>16, <4>1
    <3>4. record'[n] = record[n - 1] /\ record[n - 1].t \in Nat
      <4> DEFINE q == Len(record)
      <4>1. n \in 1 .. q /\ n >= 2 /\ q \in Nat
        BY <1>3, <2>1, <3>2
      <4> HIDE DEF n, q
      <4>2. n \in 2 .. (q + 1) /\ n - 1 \in 1 .. q
        BY <4>1
      <4> QED BY <1>4, <1>10, <4>2 DEF q
    <3>5. t - record[n - 1].t > maxDelay[s]
      BY <1>2, <2>1, <3>2, <3>3, <3>4, SMTT(40)
    <3> QED BY <1>1, <1>10, <1>11, <3>1, <3>4, <3>5
  <2> QED BY <2>2, <2>3
<1>18. Reaching'
  BY <1>17 DEF Reaching
<1>19. ASSUME NEW s \in Lines, run = 1
       PROVE  history'[s].size <= Max({InitialSize, GrowthFactor * (maxDelay'[s] + 1)})
  <2> DEFINE n == history[s].count
             d == maxDelay[s]
             B == GrowthFactor * (d + 1)
  <2>1. /\ n \in 1 .. Len(record) /\ n <= history[s].size /\ history[s].size \in Nat /\ d \in Nat
        /\ d + 1 \in Nat /\ d + 1 >= 1
    BY <1>3, <1>6
  <2>2. history[s].size <= Max({InitialSize, B})
    BY <1>19 DEF DelayInv, HistoryIsBounded
  <2>3. B \in Nat
    BY <1>2, <2>1, Multiples
  <2>4. CASE ~NeedsUpsize(s, t)
    <3>1. history'[s].size = history[s].size
      BY <1>7, <1>8, <2>4
    <3> QED BY <1>1, <2>2, <3>1
  <2>5. CASE NeedsUpsize(s, t)
    <3>1. n = history[s].size /\ history'[s].size = n * GrowthFactor
      BY <1>7, <1>8, <2>5 DEF NeedsUpsize
    <3>2. n <= d + 1
      <4>1. CASE n >= 2
        <5>1. t - SampleAt(times, n - 2) <= d
          BY <2>5, <4>1 DEF NeedsUpsize
        <5>2. n - 2 \in 0 .. (n - 1) /\ n - 2 + 1 = n - 1 /\ n - 1 \in 1 .. Len(record) /\ n \in Nat
          <6> DEFINE q == Len(record)
          <6>1. n \in 1 .. q /\ n >= 2 /\ q \in Nat
            BY <1>3, <2>1, <4>1
          <6> HIDE DEF n, q
          <6>2. n - 2 \in 0 .. (n - 1) /\ n - 2 + 1 = n - 1 /\ n - 1 \in 1 .. q /\ n \in Nat
            BY <6>1
          <6> QED BY <6>2 DEF q
        <5>3. SampleAt(times, n - 2) = record[n - 1].t /\ record[n - 1].t \in Nat
          BY <1>4, <1>16, <5>2
        <5>4. record[1].t - record[n - 1].t >= n - 1 - 1 /\ record[1].t \in Nat
          <6>1. 1 \in 1 .. Len(record)
            BY <1>3
          <6>2. CASE n - 1 = 1
            <7>1. record[1].t \in Nat
              BY <1>4, <6>1
            <7> QED BY <6>2, <7>1
          <6>3. CASE n - 1 # 1
            <7>1. 1 < n - 1
              <8>1. n \in Nat /\ n >= 2
                BY <4>1, <5>2
              <8> HIDE DEF n
              <8> QED BY <6>3, <8>1
            <7> QED BY <1>4, <5>2, <6>1, <7>1 DEF DelayInv, Descending
          <6> QED BY <6>2, <6>3
        <5>5. t > record[1].t /\ t \in Nat /\ d \in Nat /\ n \in Nat
          BY <1>1, <1>2, <2>1, <5>2
        <5> HIDE DEF n, d
        <5> QED BY <5>1, <5>3, <5>4, <5>5
      <4>2. CASE ~(n >= 2)
        BY <2>1, <4>2
      <4> QED BY <4>1, <4>2
    <3>3. GrowthFactor * n <= B /\ GrowthFactor * n = n * GrowthFactor /\ GrowthFactor * n \in Nat
      <4>1. n \in Nat
        BY <2>1
      <4> HIDE DEF n, d
      <4> QED BY <1>2, <2>1, <3>2, <4>1, Multiples
    <3> HIDE DEF n, B
    <3>4. B \in Int /\ InitialSize \in Int
      BY <1>2, <2>3
    <3>5. Max({InitialSize, B}) >= B /\ Max({InitialSize, B}) \in {InitialSize, B}
      BY <3>4, MaxOfTwo
    <3>6. history'[s].size <= Max({InitialSize, B})
      BY <3>1, <3>3, <3>4, <3>5
    <3> QED BY <1>1, <3>6 DEF B
  <2> QED BY <2>4, <2>5
<1>20. HistoryIsBounded'
  BY <1>1, <1>19 DEF HistoryIsBounded
<1> QED BY <1>12, <1>13, <1>14, <1>15, <1>18, <1>20 DEF DelayInv

-----------------------------------------------------------------------------
(* The binary search                                                       *)

\* Induction up to a number, said with sets
LEMMA CountUp ==
    ASSUME NEW n \in Nat, NEW Solved, 0 \in Solved, \A k \in 1 .. n : k - 1 \in Solved => k \in Solved
    PROVE  0 .. n \subseteq Solved
<1> SUFFICES ASSUME (0 .. n) \ Solved # {}
             PROVE  FALSE
  OBVIOUS
<1> DEFINE Left == (0 .. n) \ Solved
<1>1. Left \in SUBSET Nat /\ Left # {}
  OBVIOUS
<1> HIDE DEF Left
<1>2. Min(Left) \in Left /\ \A y \in Left : Min(Left) <= y
  BY <1>1, LeastExists
<1>3. PICK k \in Left : \A j \in Left : k <= j
  BY <1>2
<1>4. k \in 1 .. n /\ k \notin Solved
  BY <1>3 DEF Left
<1>5. k - 1 \notin Solved
  BY <1>4
<1>6. k - 1 \in Left
  BY <1>4, <1>5 DEF Left
<1> QED
  BY <1>3, <1>4, <1>6

Ranges == (0 .. (MaxTime + 2)) \X (0 .. (MaxTime + 2)) \X (-MaxTime .. MaxTime)

Middle(x) == x[1] + (x[2] - x[1] + 1) \div 2

Upper(x) == <<Middle(x), x[2], x[3]>>
Lower(x) == <<x[1], Middle(x) - 1, x[3]>>

Halve(x, g) ==
    IF x[1] >= x[2] THEN x[1]
    ELSE IF SampleAt(times, Middle(x)) >= x[3] THEN g[Upper(x)] ELSE g[Lower(x)]

\* Both halves of a range that is not exhausted are shorter than the range.
LEMMA HalvesFit ==
    ASSUME NEW x \in Ranges, ~(x[1] >= x[2])
    PROVE  /\ Middle(x) \in (x[1] + 1) .. x[2]
           /\ Upper(x) \in Ranges /\ Upper(x)[2] - Upper(x)[1] <= x[2] - x[1] - 1
           /\ Lower(x) \in Ranges /\ Lower(x)[2] - Lower(x)[1] <= x[2] - x[1] - 1
<1> DEFINE lo == x[1]
           hi == x[2]
           t == x[3]
           m == lo + (hi - lo + 1) \div 2
<1>1. lo \in Nat /\ hi \in 0 .. (MaxTime + 2) /\ t \in -MaxTime .. MaxTime /\ lo < hi /\ MaxTime \in Nat
  BY SizesAssumption DEF Ranges
<1>2. Middle(x) = m /\ Upper(x) = <<m, hi, t>> /\ Lower(x) = <<lo, m - 1, t>>
  BY DEF Middle, Upper, Lower
<1>3. m \in (lo + 1) .. hi
  <2> HIDE DEF lo, hi
  <2> QED BY <1>1
<1> HIDE DEF lo, hi, t, m
<1>4. m \in 0 .. (MaxTime + 2) /\ lo \in 0 .. (MaxTime + 2) /\ m - 1 \in 0 .. (MaxTime + 2)
  BY <1>1, <1>3
<1>5. <<m, hi, t>> \in Ranges /\ <<lo, m - 1, t>> \in Ranges
  BY <1>1, <1>4 DEF Ranges
<1>6. hi - m <= hi - lo - 1 /\ m - 1 - lo <= hi - lo - 1
  BY <1>1, <1>3
<1> QED BY <1>2, <1>3, <1>5, <1>6 DEF lo, hi

\* There is a function that searches: its values on ranges up to a length give those one longer.
LEMMA SearchExists ==
    \E g : g = [x \in Ranges |-> Halve(x, g)]
<1> DEFINE M == MaxTime + 2
           Solves(g, m) == \A x \in Ranges : x[2] - x[1] <= m => g[x] = Halve(x, g)
           Solved == {m \in 0 .. M : \E g : Solves(g, m)}
<1>1. M \in Nat
  BY SizesAssumption
<1>2. 0 \in Solved
  <2> DEFINE g == [x \in Ranges |-> x[1]]
  <2>1. Solves(g, 0)
    <3> SUFFICES ASSUME NEW x \in Ranges, x[2] - x[1] <= 0
                 PROVE  g[x] = Halve(x, g)
      OBVIOUS
    <3>1. x[1] >= x[2]
      BY DEF Ranges
    <3> QED BY <3>1 DEF Halve
  <2> HIDE DEF Solves, g
  <2> QED BY <1>1, <2>1
<1>3. ASSUME NEW k \in 1 .. M, k - 1 \in Solved
      PROVE  k \in Solved
  <2>1. PICK g : Solves(g, k - 1)
    <3> HIDE DEF Solves
    <3> QED BY <1>3
  <2> DEFINE h == [x \in Ranges |-> Halve(x, g)]
  <2>2. Solves(h, k)
    <3> SUFFICES ASSUME NEW x \in Ranges, x[2] - x[1] <= k
                 PROVE  h[x] = Halve(x, h)
      OBVIOUS
    <3>1. h[x] = Halve(x, g)
      OBVIOUS
    <3>2. CASE x[1] >= x[2]
      BY <3>1, <3>2 DEF Halve
    <3>3. CASE ~(x[1] >= x[2])
      <4>1. /\ Upper(x) \in Ranges /\ Upper(x)[2] - Upper(x)[1] <= x[2] - x[1] - 1
            /\ Lower(x) \in Ranges /\ Lower(x)[2] - Lower(x)[1] <= x[2] - x[1] - 1
        BY <3>3, HalvesFit
      <4>2. /\ x[1] \in Int /\ x[2] \in Int /\ Upper(x)[1] \in Int /\ Upper(x)[2] \in Int
            /\ Lower(x)[1] \in Int /\ Lower(x)[2] \in Int
        BY <4>1 DEF Ranges
      <4>3. Upper(x)[2] - Upper(x)[1] <= k - 1 /\ Lower(x)[2] - Lower(x)[1] <= k - 1
        BY <4>1, <4>2
      <4>4. h[Upper(x)] = Halve(Upper(x), g) /\ h[Lower(x)] = Halve(Lower(x), g)
        BY <4>1
      <4>5. h[Upper(x)] = g[Upper(x)] /\ h[Lower(x)] = g[Lower(x)]
        BY <2>1, <4>1, <4>3, <4>4
      <4> HIDE DEF h
      <4> QED BY <3>1, <3>3, <4>5 DEF Halve
    <3> QED BY <3>2, <3>3
  <2> HIDE DEF Solves, h
  <2> QED BY <1>1, <2>2
<1> HIDE DEF Solved
<1>4. M \in Solved
  BY <1>1, <1>2, <1>3, CountUp
<1>5. PICK g : Solves(g, M)
  BY <1>4 DEF Solved
<1> DEFINE f == [x \in Ranges |-> Halve(x, g)]
<1>6. ASSUME NEW x \in Ranges
      PROVE  f[x] = g[x]
  <2>1. x[2] - x[1] <= M
    BY <1>1 DEF Ranges
  <2> QED BY <1>5, <2>1
<1>7. ASSUME NEW x \in Ranges
      PROVE  Halve(x, g) = Halve(x, f)
  <2>1. CASE x[1] >= x[2]
    BY <2>1 DEF Halve
  <2>2. CASE ~(x[1] >= x[2])
    <3>1. Upper(x) \in Ranges /\ Lower(x) \in Ranges
      BY <2>2, HalvesFit
    <3>2. f[Upper(x)] = g[Upper(x)] /\ f[Lower(x)] = g[Lower(x)]
      BY <1>6, <3>1
    <3> HIDE DEF f
    <3> QED BY <2>2, <3>2 DEF Halve
  <2> QED BY <2>1, <2>2
<1>8. f = [x \in Ranges |-> Halve(x, f)]
  BY <1>7
<1> QED BY <1>8

\* The recursive definition of Search unfolds.
LEMMA SearchUnfolds ==
    ASSUME NEW x \in Ranges
    PROVE  Search[x] = Halve(x, Search)
<1>1. Search = CHOOSE g : g = [y \in Ranges |-> Halve(y, g)]
  BY DEF Search, Ranges, Halve, Middle, Upper, Lower
<1>2. Search = [y \in Ranges |-> Halve(y, Search)]
  <2> HIDE DEF Search
  <2> QED BY <1>1, SearchExists
<1> DEFINE V(y) == Halve(y, Search)
<1>3. Search = [y \in Ranges |-> V(y)]
  BY <1>2
<1> HIDE DEF V
<1>4. Search[x] = V(x)
  BY <1>3
<1> QED BY <1>4 DEF V

\* The search ends at the last sample that is not before the target.
LEMMA SearchFinds ==
    ASSUME NEW n \in Nat \ {0}, n <= MaxTime + 3, NEW target \in -MaxTime .. MaxTime,
           SampleAt(times, 0) >= target
    PROVE  LET r == Search[<<0, n - 1, target>>]
           IN  /\ r \in 0 .. (n - 1)
               /\ SampleAt(times, r) >= target
               /\ r = n - 1 \/ ~(SampleAt(times, r + 1) >= target)
<1> DEFINE Late(k) == SampleAt(times, k) >= target
           Ends(k) == k = n - 1 \/ ~Late(k + 1)
           Good(r) == r \in 0 .. (n - 1) /\ Late(r) /\ Ends(r)
           Found == {m \in 0 .. (n - 1) : \A lo, hi \in 0 .. (n - 1) :
                     lo <= hi /\ hi - lo <= m /\ Late(lo) /\ Ends(hi) => Good(Search[<<lo, hi, target>>])}
<1>0. MaxTime \in Nat /\ n - 1 \in Nat
  BY SizesAssumption
<1>1. ASSUME NEW lo \in 0 .. (n - 1), NEW hi \in 0 .. (n - 1), lo <= hi
      PROVE  /\ <<lo, hi, target>> \in Ranges
             /\ lo = hi => Search[<<lo, hi, target>>] = lo
             /\ lo < hi => \E mid \in (lo + 1) .. hi :
                   Search[<<lo, hi, target>>] = IF Late(mid) THEN Search[<<mid, hi, target>>]
                                                ELSE Search[<<lo, mid - 1, target>>]
  <2> DEFINE x == <<lo, hi, target>>
  <2>1. lo \in 0 .. (MaxTime + 2) /\ hi \in 0 .. (MaxTime + 2)
    BY <1>0
  <2>2. x \in Ranges
    BY <2>1 DEF Ranges
  <2>3. Search[x] = Halve(x, Search)
    <3> HIDE DEF x
    <3> QED BY <2>2, SearchUnfolds
  <2>4. x[1] = lo /\ x[2] = hi /\ x[3] = target
    OBVIOUS
  <2>5. CASE lo = hi
    <3>1. Halve(x, Search) = lo
      <4>1. x[1] >= x[2]
        BY <2>4, <2>5
      <4> QED BY <2>4, <4>1 DEF Halve
    <3> QED BY <2>2, <2>3, <2>5, <3>1
  <2>6. CASE lo < hi
    <3>1. ~(x[1] >= x[2])
      BY <2>4, <2>6
    <3>2. Middle(x) \in (lo + 1) .. hi
      BY <2>2, <2>4, <3>1, HalvesFit
    <3>3. Upper(x) = <<Middle(x), hi, target>> /\ Lower(x) = <<lo, Middle(x) - 1, target>>
      BY <2>4 DEF Upper, Lower
    <3>4. Halve(x, Search) = IF Late(Middle(x)) THEN Search[Upper(x)] ELSE Search[Lower(x)]
      BY <2>4, <3>1 DEF Halve
    <3>5. Search[<<lo, hi, target>>] = IF Late(Middle(x)) THEN Search[<<Middle(x), hi, target>>]
                                       ELSE Search[<<lo, Middle(x) - 1, target>>]
      <4> HIDE DEF Late
      <4> QED BY <2>3, <3>3, <3>4
    <3> DEFINE m == Middle(x)
    <3>6. /\ m \in (lo + 1) .. hi
          /\ Search[<<lo, hi, target>>] = IF Late(m) THEN Search[<<m, hi, target>>]
                                         ELSE Search[<<lo, m - 1, target>>]
      BY <3>2, <3>5
    <3>7. ~(lo = hi)
      BY <2>6
    <3> HIDE DEF m, Late, x
    <3> QED BY <2>2, <3>6, <3>7 DEF x
  <2>7. lo = hi \/ lo < hi
    BY <1>1
  <2> HIDE DEF Late
  <2> QED BY <2>5, <2>6, <2>7
<1> HIDE DEF Late
<1>2. 0 \in Found
  <2> SUFFICES ASSUME NEW lo \in 0 .. (n - 1), NEW hi \in 0 .. (n - 1), lo <= hi, hi - lo <= 0, Late(lo), Ends(hi)
               PROVE  Good(Search[<<lo, hi, target>>])
    BY <1>0
  <2>1. lo = hi
    OBVIOUS
  <2> QED BY <1>1, <2>1
<1>3. ASSUME NEW k \in 1 .. (n - 1), k - 1 \in Found
      PROVE  k \in Found
  <2> SUFFICES ASSUME NEW lo \in 0 .. (n - 1), NEW hi \in 0 .. (n - 1), lo <= hi, hi - lo <= k, Late(lo), Ends(hi)
               PROVE  Good(Search[<<lo, hi, target>>])
    OBVIOUS
  <2>1. CASE lo = hi
    BY <1>1, <2>1
  <2>2. CASE lo < hi
    <3>1. PICK mid \in (lo + 1) .. hi :
              Search[<<lo, hi, target>>] = IF Late(mid) THEN Search[<<mid, hi, target>>]
                                           ELSE Search[<<lo, mid - 1, target>>]
      BY <1>1, <2>2
    <3>2. \A a, b \in 0 .. (n - 1) :
              a <= b /\ b - a <= k - 1 /\ Late(a) /\ Ends(b) => Good(Search[<<a, b, target>>])
      BY <1>3
    <3> HIDE DEF Good
    <3>3. CASE Late(mid)
      <4>1. mid \in 0 .. (n - 1) /\ mid <= hi /\ hi - mid <= k - 1
        OBVIOUS
      <4> QED BY <3>1, <3>2, <3>3, <4>1
    <3>4. CASE ~Late(mid)
      <4>1. mid - 1 \in 0 .. (n - 1) /\ lo <= mid - 1 /\ (mid - 1) - lo <= k - 1 /\ mid - 1 + 1 = mid
        OBVIOUS
      <4>2. Ends(mid - 1)
        BY <3>4, <4>1
      <4> QED BY <3>1, <3>2, <3>4, <4>1, <4>2
    <3> QED BY <3>3, <3>4
  <2> QED BY <2>1, <2>2
<1>4. Late(0) /\ Ends(n - 1)
  BY DEF Late
<1> HIDE DEF Late, Ends, Good
<1>5. n - 1 \in Found
  <2> HIDE DEF Found
  <2>1. 0 .. (n - 1) \subseteq Found
    BY <1>0, <1>2, <1>3, CountUp
  <2> QED BY <1>0, <2>1
<1>6. Good(Search[<<0, n - 1, target>>])
  <2>1. 0 \in 0 .. (n - 1) /\ n - 1 \in 0 .. (n - 1) /\ 0 <= n - 1 /\ (n - 1) - 0 <= n - 1
    BY <1>0
  <2> QED BY <1>4, <1>5, <2>1
<1> QED BY <1>6 DEF Good, Ends, Late

-----------------------------------------------------------------------------
(* The polygon through all samples                                         *)

Polygon(known, target) ==
    LET after == {x \in known : x.t >= target}
        before == {x \in known : x.t <= target}
        newer == CHOOSE x \in after : \A y \in after : x.t <= y.t
    IN IF before = {} THEN Between(newer, newer)
       ELSE Between(newer, CHOOSE x \in before : \A y \in before : y.t <= x.t)

\* The neighbours of a time on a polygon are determined by their times.
LEMMA PolygonBetween ==
    ASSUME NEW Known, NEW target \in Int, \A x \in Known : x.t \in Int, \A x, y \in Known : x.t = y.t => x = y,
           NEW a \in Known, a.t >= target, \A y \in Known : y.t >= target => a.t <= y.t
    PROVE  /\ Polygon(Known, target).newer = a
           /\ \A b \in Known : b.t <= target /\ (\A y \in Known : y.t <= target => y.t <= b.t)
                              => Polygon(Known, target).older = b
           /\ (\A y \in Known : ~(y.t <= target)) => Polygon(Known, target).older = a
<1> DEFINE after == {x \in Known : x.t >= target}
           before == {x \in Known : x.t <= target}
           newer == CHOOSE x \in after : \A y \in after : x.t <= y.t
           older == CHOOSE x \in before : \A y \in before : y.t <= x.t
<1>1. newer = a
  <2>1. a \in after /\ \A y \in after : a.t <= y.t
    OBVIOUS
  <2>2. newer \in after /\ \A y \in after : newer.t <= y.t
    BY <2>1
  <2>3. newer \in Known /\ newer.t <= a.t /\ a.t <= newer.t
    BY <2>1, <2>2
  <2> HIDE DEF newer
  <2> QED BY <2>3
<1>2. ASSUME NEW b \in Known, b.t <= target, \A y \in Known : y.t <= target => y.t <= b.t
      PROVE  older = b /\ before # {}
  <2>1. b \in before /\ \A y \in before : y.t <= b.t
    BY <1>2
  <2>2. older \in before /\ \A y \in before : y.t <= older.t
    BY <2>1
  <2>3. older \in Known /\ older.t <= b.t /\ b.t <= older.t
    BY <2>1, <2>2
  <2> HIDE DEF older
  <2> QED BY <2>1, <2>3
<1>3. (\A y \in Known : ~(y.t <= target)) => before = {}
  OBVIOUS
<1>4. Polygon(Known, target) = IF before = {} THEN Between(newer, newer) ELSE Between(newer, older)
  BY DEF Polygon
<1> HIDE DEF newer, older, before
<1> QED BY <1>1, <1>2, <1>3, <1>4 DEF Between

\* A delay is cut to the maximal one.
LEMMA ClippedDelayFits ==
    ASSUME NEW s \in Lines, maxDelay[s] \in Nat, NEW td \in Nat
    PROVE  ClippedDelay(s, td) \in Nat /\ ClippedDelay(s, td) <= td /\ ClippedDelay(s, td) <= maxDelay[s]
<1>1. Max({td, 0}) \in {td, 0} /\ Max({td, 0}) >= td
  BY MaxOfTwo
<1>2. Max({td, 0}) = td
  BY <1>1
<1> DEFINE d == maxDelay[s]
<1>0. d \in Nat /\ d \in Int /\ td \in Int
  OBVIOUS
<1> HIDE DEF d
<1>3. Min({td, d}) \in {td, d} /\ Min({td, d}) <= td /\ Min({td, d}) <= d
  BY <1>0, MinOfTwo
<1>4. ClippedDelay(s, td) = Min({td, d})
  BY <1>2 DEF ClippedDelay, d
<1> QED BY <1>0, <1>3, <1>4 DEF d

\* The sample found in the history is the one of the complete record.
LEMMA DelayedIsExact ==
    ASSUME DelayInv, record # <<>>, NEW s \in Lines, NEW now \in (Now + 1) .. (MaxTime + 1),
           NEW td \in 0 .. MaxTime
    PROVE  LET target == now - ClippedDelay(s, td)
           IN  ValueAt(GetSample(s, now, td), target) = ValueAt(Interpolated(s, now, td), target)
<1> DEFINE delay == ClippedDelay(s, td)
           target == now - delay
           live == LiveSample(s, now)
           n == history[s].count
           L == Len(record)
           Point(i) == [t |-> record[i].t, v |-> record[i].v[s]]
           Known == Samples(s) \cup {live}
           polygon == Polygon(Known, target)
<1>1. /\ record \in Seq(Points) /\ L \in Nat \ {0} /\ MaxTime \in Nat /\ maxDelay[s] \in Nat
      /\ n \in 1 .. L /\ n <= times.count
  BY SizesAssumption DEF DelayInv, Built, Recorded, IsBuffer
<1>2. \A i \in 1 .. L : record[i].t \in Nat
  <2>1. \A i \in 1 .. L : record[i] \in Points
    BY <1>1
  <2>2. \A x \in Points : x.t \in Nat
    BY DEF Points
  <2> QED BY <2>1, <2>2
<1>3. \A i, j \in 1 .. L : i < j => record[i].t > record[j].t
  <2> SUFFICES ASSUME NEW i \in 1 .. L, NEW j \in 1 .. L, i < j
               PROVE  record[i].t > record[j].t
    OBVIOUS
  <2>1. record[i].t - record[j].t >= j - i
    BY DEF DelayInv, Descending
  <2>2. record[i].t \in Nat /\ record[j].t \in Nat
    BY <1>2
  <2> QED BY <2>1, <2>2
<1>4. Now = record[1].t /\ Now \in Nat /\ now \in Nat /\ now > Now /\ now <= MaxTime + 1 /\ Now <= MaxTime
  <2>1. Now = record[1].t /\ 1 \in 1 .. L
    BY <1>1 DEF Now
  <2>2. record[1].t <= MaxTime
    BY DEF DelayInv, Descending
  <2> QED BY <1>1, <1>2, <2>1, <2>2
<1>5. delay \in Nat /\ delay <= td /\ delay <= maxDelay[s] /\ target \in -MaxTime .. (MaxTime + 1)
      /\ target <= now
  <2>1. delay \in Nat /\ delay <= td /\ delay <= maxDelay[s]
    BY <1>1, ClippedDelayFits
  <2> HIDE DEF delay
  <2> QED BY <1>1, <1>4, <2>1
<1>6. L <= MaxTime + 1
  <2>1. CASE L = 1
    BY <1>1, <2>1
  <2>2. CASE L # 1
    <3>1. 1 \in 1 .. L /\ L \in 1 .. L /\ 1 < L
      <4>1. L \in Nat /\ L >= 1 /\ L # 1
        BY <1>1, <2>2
      <4> HIDE DEF L
      <4> QED BY <4>1
    <3>2. record[1].t - record[L].t >= L - 1
      BY <3>1 DEF DelayInv, Descending
    <3> QED BY <1>1, <1>2, <1>4, <3>1, <3>2
  <2> QED BY <2>1, <2>2
<1>7. /\ live.t = now /\ live \in Known
      /\ \A i \in 1 .. L : Point(i) \in Known /\ Point(i).t = record[i].t
      /\ \A x \in Known : x = live \/ \E i \in 1 .. L : x = Point(i)
  <2>1. Samples(s) = {Point(i) : i \in 1 .. L}
    BY <1>1 DEF Samples
  <2>2. live.t = now
    BY DEF LiveSample
  <2>3. \A i \in 1 .. L : Point(i).t = record[i].t
    OBVIOUS
  <2> HIDE DEF Point, live
  <2> QED BY <2>1, <2>2, <2>3
<1>8. \A i \in 1 .. L : record[i].t <= Now
  <2> SUFFICES ASSUME NEW i \in 1 .. L
               PROVE  record[i].t <= Now
    OBVIOUS
  <2>1. CASE i = 1
    BY <1>4, <2>1
  <2>2. CASE i # 1
    BY <1>1, <1>2, <1>3, <1>4, <2>2
  <2> QED BY <2>1, <2>2
<1> HIDE DEF Point, Known, live
<1>9. \A x \in Known : x.t \in Int
  BY <1>2, <1>4, <1>7
<1>10. \A x, y \in Known : x.t = y.t => x = y
  <2> SUFFICES ASSUME NEW x \in Known, NEW y \in Known, x.t = y.t
               PROVE  x = y
    OBVIOUS
  <2>1. \A i \in 1 .. L : record[i].t < now /\ record[i].t \in Nat
    BY <1>2, <1>4, <1>8
  <2>2. CASE x = live \/ y = live
    BY <1>4, <1>7, <2>1, <2>2
  <2>3. CASE ~(x = live \/ y = live)
    <3>1. PICK i \in 1 .. L : x = Point(i)
      BY <1>7, <2>3
    <3>2. PICK j \in 1 .. L : y = Point(j)
      BY <1>7, <2>3
    <3>3. record[i].t = record[j].t /\ record[i].t \in Nat
      BY <1>2, <1>7, <3>1, <3>2
    <3>4. ~(i < j) /\ ~(j < i)
      BY <1>2, <1>3, <3>3
    <3> QED BY <1>1, <3>1, <3>2, <3>4
  <2> QED BY <2>2, <2>3
<1>11. \A k \in 0 .. (n - 1) : Stored(s, k) = Point(k + 1) /\ SampleAt(times, k) = record[k + 1].t
  <2> SUFFICES ASSUME NEW k \in 0 .. (n - 1)
               PROVE  Stored(s, k) = Point(k + 1) /\ SampleAt(times, k) = record[k + 1].t
    OBVIOUS
  <2>1. SampleAt(history[s], k) = record[k + 1].v[s]
    BY DEF DelayInv, Recorded
  <2>2. times.count \in Nat
    BY DEF DelayInv, Built, IsBuffer
  <2>3. k \in 0 .. (L - 1) /\ k < times.count
    BY <1>1, <2>2
  <2>4. SampleAt(times, k) = record[k + 1].t
    BY <2>3 DEF DelayInv, Recorded
  <2> QED BY <2>1, <2>4 DEF Stored, Point
<1>12. Interpolated(s, now, td) = polygon
  BY DEF Interpolated, Polygon, Known, live
<1>13. SampleAt(times, 0) = Now
  BY <1>1, <1>4, <1>11
<1> HIDE DEF polygon, target, delay, n
<1>14. target = now - delay
  BY DEF target
<1>15. GetSample(s, now, td) =
          IF delay = 0 \/ n = 0 THEN Between(live, live)
          ELSE IF target >= SampleAt(times, 0)
          THEN IF now = SampleAt(times, 0) THEN Between(live, live) ELSE Between(live, Stored(s, 0))
          ELSE LET lo == Search[<<0, n - 1, target>>] IN
               IF lo = n - 1 THEN Between(Stored(s, lo), Stored(s, lo))
               ELSE Between(Stored(s, lo), Stored(s, lo + 1))
  BY DEF GetSample, delay, target, live, n
<1>16. CASE delay = 0
  <2>1. target = now
    BY <1>4, <1>14, <1>16
  <2>2. \A y \in Known : y.t >= target => live.t <= y.t
    BY <1>4, <1>7, <2>1
  <2>3. polygon.newer = live
    <3>1. live \in Known /\ live.t >= target /\ target \in Int
      BY <1>4, <1>7, <2>1
    <3> QED BY <1>9, <1>10, <2>2, <3>1, PolygonBetween DEF polygon
  <2>4. GetSample(s, now, td) = Between(live, live)
    BY <1>15, <1>16
  <2> QED BY <1>7, <1>12, <2>1, <2>3, <2>4 DEF ValueAt, Between, target, delay
<1>17. CASE delay # 0 /\ target >= Now
  <2>1. GetSample(s, now, td) = Between(live, Point(1))
    BY <1>1, <1>4, <1>11, <1>13, <1>15, <1>17
  <2>2. target < now /\ 1 \in 1 .. L
    BY <1>1, <1>4, <1>5, <1>14, <1>17
  <2>3. CASE target = Now
    <3>1. \A y \in Known : y.t >= target => Point(1).t <= y.t
      BY <1>4, <1>7, <1>9, <2>2, <2>3
    <3>2. Point(1) \in Known /\ Point(1).t = target
      BY <1>4, <1>7, <2>2, <2>3
    <3>3. polygon.newer = Point(1)
      BY <1>5, <1>9, <1>10, <3>1, <3>2, PolygonBetween DEF polygon
    <3> QED BY <1>7, <1>12, <2>1, <2>2, <3>2, <3>3 DEF ValueAt, Between, target, delay
  <2>4. CASE target # Now
    <3>1. target > Now
      BY <1>4, <1>5, <1>17, <2>4
    <3>2. \A i \in 1 .. L : ~(Point(i).t >= target) /\ Point(i).t <= Point(1).t
      BY <1>2, <1>4, <1>5, <1>7, <1>8, <2>2, <3>1
    <3>3. \A y \in Known : y.t >= target => live.t <= y.t
      BY <1>4, <1>7, <3>2
    <3>4. polygon.newer = live /\ polygon.older = Point(1)
      <4>1. Point(1) \in Known /\ Point(1).t <= target /\ \A y \in Known : y.t <= target => y.t <= Point(1).t
        BY <1>2, <1>4, <1>5, <1>7, <2>2, <3>1, <3>2
      <4>2. live.t >= target /\ live \in Known /\ target \in Int
        BY <1>4, <1>5, <1>7, <2>2
      <4>3. /\ polygon.newer = live
            /\ \A b \in Known : b.t <= target /\ (\A y \in Known : y.t <= target => y.t <= b.t)
                               => polygon.older = b
        BY <1>9, <1>10, <3>3, <4>2, PolygonBetween DEF polygon
      <4> QED BY <4>1, <4>3
    <3> QED BY <1>12, <2>1, <3>4 DEF ValueAt, Between, target, delay
  <2> QED BY <2>3, <2>4
<1>18. CASE delay # 0 /\ target < Now
  <2> DEFINE lo == Search[<<0, n - 1, target>>]
  <2>1. /\ lo \in 0 .. (n - 1) /\ SampleAt(times, lo) >= target
        /\ lo = n - 1 \/ ~(SampleAt(times, lo + 1) >= target)
    <3>1. n \in Nat \ {0} /\ n <= MaxTime + 3
      BY <1>1, <1>6 DEF n
    <3>2. target \in -MaxTime .. MaxTime /\ SampleAt(times, 0) >= target
      BY <1>1, <1>4, <1>5, <1>13, <1>18
    <3> QED BY <3>1, <3>2, SearchFinds
  <2>2. GetSample(s, now, td) = IF lo = n - 1 THEN Between(Stored(s, lo), Stored(s, lo))
                                ELSE Between(Stored(s, lo), Stored(s, lo + 1))
    BY <1>1, <1>4, <1>5, <1>13, <1>15, <1>18 DEF n
  <2> DEFINE i == lo + 1
  <2> HIDE DEF lo
  <2>3. n \in 1 .. L
    BY <1>1 DEF n
  <2>4. i \in 1 .. L /\ i \in 1 .. n /\ Stored(s, lo) = Point(i) /\ record[i].t >= target /\ record[i].t \in Nat
    BY <1>1, <1>2, <1>11, <2>1, <2>3
  <2>5. CASE i < n
    <3>1. /\ i + 1 \in 1 .. L /\ Stored(s, lo + 1) = Point(i + 1) /\ record[i + 1].t < target
          /\ record[i + 1].t \in Nat
      <4>1. lo + 1 \in 0 .. (n - 1) /\ lo # n - 1 /\ i + 1 \in 1 .. L
        BY <1>1, <2>1, <2>3, <2>5
      <4>2. SampleAt(times, lo + 1) = record[i + 1].t /\ Stored(s, lo + 1) = Point(i + 1)
        BY <1>11, <4>1
      <4>3. record[i + 1].t \in Nat
        BY <1>2, <4>1
      <4> QED BY <1>5, <2>1, <4>1, <4>2, <4>3
    <3>2. GetSample(s, now, td) = Between(Point(i), Point(i + 1))
      <4>1. lo # n - 1
        BY <2>1, <2>3, <2>5
      <4> QED BY <2>2, <2>4, <3>1, <4>1
    <3>3. \A y \in Known : y.t >= target => Point(i).t <= y.t
      <4> SUFFICES ASSUME NEW y \in Known, y.t >= target
                   PROVE  Point(i).t <= y.t
        OBVIOUS
      <4>1. CASE y = live
        BY <1>2, <1>4, <1>7, <1>8, <2>4, <4>1
      <4>2. CASE y # live
        <5>1. PICK j \in 1 .. L : y = Point(j) /\ y.t = record[j].t
          BY <1>7, <4>2
        <5>2. ~(j > i)
          <6>1. CASE j = i + 1
            BY <1>5, <3>1, <5>1, <6>1
          <6>2. CASE j > i + 1
            <7>1. record[i + 1].t > record[j].t /\ record[j].t \in Nat
              BY <1>2, <1>3, <3>1, <6>2
            <7> QED BY <1>5, <3>1, <5>1, <7>1
          <6> QED BY <2>4, <6>1, <6>2
        <5>3. record[i].t <= record[j].t
          <6>1. j = i \/ j < i
            BY <2>4, <5>2
          <6> QED BY <1>2, <1>3, <2>4, <6>1
        <5> QED BY <1>7, <2>4, <5>1, <5>3
      <4> QED BY <4>1, <4>2
    <3>4. \A y \in Known : y.t <= target => y.t <= Point(i + 1).t \/ y = Point(i)
      <4> SUFFICES ASSUME NEW y \in Known, y.t <= target
                   PROVE  y.t <= Point(i + 1).t \/ y = Point(i)
        OBVIOUS
      <4>1. y # live
        BY <1>4, <1>5, <1>7, <1>18
      <4>2. PICK j \in 1 .. L : y = Point(j) /\ y.t = record[j].t
        BY <1>7, <4>1
      <4>3. ~(j < i)
        <5>1. j < i => record[j].t > record[i].t
          BY <1>3, <2>4
        <5>2. record[j].t \in Nat
          BY <1>2
        <5> QED BY <1>5, <2>4, <4>2, <5>1, <5>2
      <4>4. j = i \/ j = i + 1 \/ j > i + 1
        BY <2>4, <4>3
      <4>5. j > i + 1 => record[j].t < record[i + 1].t
        BY <1>2, <1>3, <3>1
      <4> QED BY <1>2, <1>7, <3>1, <4>2, <4>4, <4>5
    <3>5. polygon.newer = Point(i)
      BY <1>5, <1>7, <1>9, <1>10, <2>4, <3>3, PolygonBetween DEF polygon
    <3>6. CASE record[i].t = target
      BY <1>7, <1>12, <2>4, <3>2, <3>5, <3>6 DEF ValueAt, Between, target, delay
    <3>7. CASE record[i].t # target
      <4>1. Point(i + 1) \in Known /\ Point(i + 1).t <= target /\ \A y \in Known : y.t <= target => y.t <= Point(i + 1).t
        BY <1>5, <1>7, <2>4, <3>1, <3>4, <3>7
      <4>2. polygon.older = Point(i + 1)
        BY <1>5, <1>7, <1>9, <1>10, <2>4, <3>3, <4>1, PolygonBetween DEF polygon
      <4> QED BY <1>12, <3>2, <3>5, <4>2 DEF ValueAt, Between, target, delay
    <3> QED BY <3>6, <3>7
  <2>6. CASE i = n
    <3>1. GetSample(s, now, td) = Between(Point(i), Point(i))
      BY <2>1, <2>2, <2>3, <2>4, <2>6
    <3>2. n = L
      <4> SUFFICES ASSUME n # L PROVE FALSE
        OBVIOUS
      <4>1. record[1].t - record[n].t > maxDelay[s]
        BY DEF DelayInv, Reaching, n, L
      <4> QED BY <1>1, <1>4, <1>5, <1>14, <2>4, <2>6, <4>1
    <3>3. \A j \in 1 .. L : Point(j).t >= Point(i).t
      <4> SUFFICES ASSUME NEW j \in 1 .. L
                   PROVE  record[j].t >= record[i].t
        BY <1>7, <2>4
      <4>1. j = i \/ j < i
        BY <1>1, <2>4, <2>6, <3>2
      <4> QED BY <1>2, <1>3, <2>4, <4>1
    <3>4. \A y \in Known : y.t >= Point(i).t
      <4>1. live.t >= Point(i).t
        BY <1>2, <1>4, <1>7, <1>8, <2>4
      <4>2. ASSUME NEW y \in Known
            PROVE  y = live \/ \E j \in 1 .. L : y = Point(j)
        BY <1>7
      <4> QED BY <3>3, <4>1, <4>2
    <3>5. polygon.newer = Point(i)
      BY <1>5, <1>7, <1>9, <1>10, <2>4, <3>4, PolygonBetween DEF polygon
    <3>6. CASE record[i].t = target
      BY <1>7, <1>12, <2>4, <3>1, <3>5, <3>6 DEF ValueAt, Between, target, delay
    <3>7. CASE record[i].t # target
      <4>1. \A y \in Known : ~(y.t <= target)
        BY <1>5, <1>7, <1>9, <2>4, <3>4, <3>7
      <4>2. \A y \in Known : y.t >= target => Point(i).t <= y.t
        BY <1>9, <1>7, <2>4, <3>4
      <4>3. polygon.older = Point(i)
        <5>1. Point(i).t >= target /\ Point(i) \in Known /\ target \in Int
          BY <1>5, <1>7, <2>4
        <5>2. (\A y \in Known : ~(y.t <= target)) => polygon.older = Point(i)
          BY <1>9, <1>10, <4>2, <5>1, PolygonBetween DEF polygon
        <5> QED BY <4>1, <5>2
      <4> QED BY <1>12, <3>1, <3>5, <4>3 DEF ValueAt, Between, target, delay
    <3> QED BY <3>6, <3>7
  <2> QED BY <2>3, <2>4, <2>5, <2>6
<1> QED BY <1>4, <1>5, <1>16, <1>17, <1>18

-----------------------------------------------------------------------------
(* Theorems about delay lines                                              *)

LEMMA DelayStep ==
    ASSUME DelayInv, [DelayNext]_delayVars
    PROVE  DelayInv'
<1>1. CASE StartRun
  BY <1>1, StartRunStep
<1>2. CASE Rebuild
  BY <1>2, RebuildStep
<1>3. ASSUME NEW t \in 1 .. MaxTime, Accept(t)
      PROVE  DelayInv'
  BY <1>3, AcceptStep
<1>4. CASE UNCHANGED delayVars
  BY <1>4 DEF delayVars, DelayInv, Built, Roomy, Recorded, Descending, Reaching, Points,
              HistoryIsBounded
<1> QED BY <1>1, <1>2, <1>3, <1>4 DEF DelayNext

LEMMA DelayInvHolds == DelaySpec => []DelayInv
<1>1. DelayInit => DelayInv
  BY InitEstablishes
<1>2. DelayInv /\ [DelayNext]_delayVars => DelayInv'
  BY DelayStep
<1> QED BY <1>1, <1>2, PTL DEF DelaySpec

(* However often a history was cleared, wrapped around and grew, counting  *)
(* back from its latest cell gives the samples of the run in order, and    *)
(* the times of the core pair with every history (CircularBuffer::at,      *)
(* upsize and DelayLines::addSample).                                      *)
THEOREM HistoriesPairUp == DelaySpec => []BuffersPairUp
<1>1. DelayInv => BuffersPairUp
  <2> SUFFICES ASSUME DelayInv, record # <<>>, NEW s \in Lines, NEW k \in 0 .. (history[s].count - 1)
               PROVE  /\ InRange(history[s], k) /\ InRange(times, k)
                      /\ k + 1 \in DOMAIN record
                      /\ SampleAt(history[s], k) = record[k + 1].v[s]
                      /\ SampleAt(times, k) = record[k + 1].t
    BY DEF BuffersPairUp
  <2>0. /\ IsBuffer(history[s]) /\ IsBuffer(times)
        /\ record \in Seq(Points) /\ Len(record) \in Nat
    BY DEF DelayInv, Built
  <2>1. /\ history[s].count \in 1 .. Len(record) /\ history[s].count <= times.count
        /\ history[s].count <= history[s].size /\ times.count <= times.size
        /\ history[s].size \in Nat /\ times.size \in Nat /\ times.count \in Nat
        /\ Len(record) \in Nat
    <3>1. history[s].count \in 1 .. Len(record) /\ history[s].count <= times.count
      BY DEF DelayInv, Recorded
    <3>2. history[s].size \in Nat /\ history[s].count \in 0 .. history[s].size
      BY <2>0 DEF IsBuffer
    <3>3. times.size \in Nat /\ times.count \in 0 .. times.size
      BY <2>0 DEF IsBuffer
    <3> QED BY <2>0, <3>1, <3>2, <3>3
  <2>2. k \in 0 .. (Len(record) - 1) /\ k < times.count /\ k < history[s].size /\ k < times.size
    BY <2>1
  <2>3. k + 1 \in DOMAIN record
    BY <2>1, <2>2
  <2>4. InRange(history[s], k) /\ InRange(times, k)
    BY <2>1, <2>2 DEF InRange
  <2> QED BY <2>2, <2>3, <2>4 DEF DelayInv, Recorded
<1> QED BY <1>1, DelayInvHolds, PTL

(* A delayed value is the one the polygon through all samples of the run   *)
(* has at that time, although samples were evicted, and in the first run   *)
(* a history grows no further than its delay asks for                      *)
(* (DelayLines::addSample and getSample).                                  *)
THEOREM DelaysAreExact == DelaySpec => []HistoryFitsTheDelay
<1>1. DelayInv => HistoryFitsTheDelay
  <2> SUFFICES ASSUME DelayInv
               PROVE  DelayedValueIsExact /\ HistoryIsBounded
    BY DEF HistoryFitsTheDelay
  <2>1. DelayedValueIsExact
    BY DelayedIsExact DEF DelayedValueIsExact
  <2> QED BY <2>1 DEF DelayInv
<1> QED BY <1>1, DelayInvHolds, PTL
=============================================================================
