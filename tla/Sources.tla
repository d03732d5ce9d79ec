------------------------------ MODULE Sources ------------------------------
(***************************************************************************)
(* Independent sources (lib/devvisrc.cpp): what sourceSetup prepares for a *)
(* waveform, and the value and the next break point sourceCompute finds at *)
(* a time.  The time of an evaluation is arbitrary: a rejected step, a new *)
(* run or the next point of a sweep takes it back, while the instance      *)
(* keeps the segment it found last.                                        *)
(*                                                                         *)
(* Times are integers in which break points are far apart and rounding is  *)
(* the tolerance Tol.  A waveform is a record of its parameters; scale,    *)
(* stretch and offset are 1, 1 and 0.  Of sine, exp, am and fm only the    *)
(* break points are modelled.                                              *)
(***************************************************************************)
EXTENDS Integers, Sequences, SequencesExt, FiniteSetsExt

CONSTANTS
    Waveforms,      \* the parameters a source can be given
    MaxTime,        \* bound: evaluations are at 0 .. MaxTime
    Tol,            \* timeRelativeTolerance, as a distance
    Never           \* stands for infinity, beyond twice MaxTime

VARIABLES
    params,             \* the parameters of the instance
    ready,              \* the last setup succeeded
    data,               \* slopes, breakEnabled, nextBreakIndex and lastPointIndex
    time,               \* evalSetup.time
    value,              \* the value at time
    nextBreakPoint      \* evalSetup.nextBreakPoint after the evaluation

vars == <<params, ready, data, time, value, nextBreakPoint>>

Abs(n) == IF n < 0 THEN -n ELSE n

(***************************************************************************)
(* Setup.                                                                  *)
(***************************************************************************)
(* a last point that repeats the first one is ignored *)
Points(s) ==
    LET w == s.wave IN
    IF s.period > 0 /\ Last(w).x = s.period /\ Head(w).x = 0 THEN Front(w) ELSE w

RejectedWave(s) ==
    \/ Len(s.wave) < 2
    \/ Head(s.wave).x < 0
    \/ /\ s.period > 0
       /\ \/ Last(s.wave).x > s.period
          \/ /\ Last(s.wave).x = s.period /\ Head(s.wave).x = 0
             /\ Head(s.wave).y # Last(s.wave).y
    \/ Len(Points(s)) < 2
    \/ \E i \in 1 .. Len(Points(s)) - 1 : s.wave[i + 1].x <= s.wave[i].x
    \/ s.breakpt \notin {"all", "none", "auto"}
    \/ s.slopetol < 0 \/ s.sloperel < 0 \/ s.slopeglob < 0

RejectedParameters(s) ==
    CASE s.type = "sine"  -> s.freq <= 0
      [] s.type = "pulse" -> \/ s.rise <= 0
                             \/ s.period > 0 /\ s.period <= s.rise + s.fall + s.width
      [] s.type = "pwl"   -> RejectedWave(s)
      [] s.type = "exp"   -> s.td2 <= 0
      [] OTHER            -> s.type \notin {"dc", "am", "fm"}

(* the slope after each point; the last one leads to the next period *)
Slopes(s) ==
    LET w == Points(s)
        n == Len(w)
    IN  [i \in 1 .. n |->
            IF i < n THEN (w[i + 1].y - w[i].y) \div (w[i + 1].x - w[i].x)
            ELSE IF s.period > 0 THEN (w[n].y - w[1].y) \div (s.period - (w[n].x - w[1].x))
            ELSE 0]

(* relative tolerances are in percent *)
ExceedsTolerance(s, before, after) ==
    LET slopes == Slopes(s)
        maxSlope == Max({Abs(slopes[i]) : i \in 1 .. Len(slopes) - 1})
    IN  100 * Abs(after - before) >
            Max({100 * s.slopetol, s.slopeglob * maxSlope,
                 s.sloperel * Max({Abs(before), Abs(after)})})

BreakEnabled(s) ==
    LET n == Len(Points(s))
        slopes == Slopes(s)
        Before(i) == IF i > 1 THEN slopes[i - 1]
                     ELSE IF s.period > 0 THEN slopes[n] ELSE 0
    IN  [i \in 1 .. n |->
            \/ s.breakpt = "all"
            \/ s.breakpt = "auto" /\ \/ ExceedsTolerance(s, Before(i), slopes[i])
                                     \/ s.period <= 0 /\ i \in {1, n}]

(* the next point with a break after point i, in the next period if none is left *)
FollowingBreak(s, i) ==
    LET breaks == BreakEnabled(s)
        enabled == {k \in DOMAIN breaks : breaks[k]}
        later == {k \in enabled : k > i}
    IN  IF later # {} THEN Min(later)
        ELSE IF s.period > 0 THEN Min(enabled) ELSE Max(enabled)

(* a resized vector keeps its old entries, new ones are those of index 0 *)
NextBreakIndex(s, old) ==
    [i \in 1 .. Len(Points(s)) |->
        IF \E k \in DOMAIN BreakEnabled(s) : BreakEnabled(s)[k] THEN FollowingBreak(s, i)
        ELSE IF s.breakpt = "auto" THEN i
        ELSE IF i \in DOMAIN old THEN old[i] ELSE 1]

(***************************************************************************)
(* Piecewise linear waveforms.                                             *)
(***************************************************************************)
PwlIndexLookup_Slip(w, start, target) ==
    CHOOSE i \in start .. Len(w) :
        /\ w[i].x <= target \/ i = start
        /\ i = Len(w) \/ w[i + 1].x > target

(* pwlIndexLookup: trial points at doubling distances from start until one *)
(* is on the other side of target, then bisection                          *)
PwlIndexLookup(w, start, target) ==
    LET n == Len(w)
        forward == target > w[start].x
        TryIndex(k) == IF forward THEN Min({start + 2 ^ k, n}) ELSE Max({start - 2 ^ k, 1})
        Passed(i) == IF forward THEN w[i].x > target ELSE w[i].x <= target
        at == TryIndex(CHOOSE k \in 0 .. n : /\ Passed(TryIndex(k))
                                             /\ \A j \in 0 .. k - 1 : ~Passed(TryIndex(j)))
        Bisect[b \in (1 .. n) \X (1 .. n)] ==
            LET mid == (b[1] + b[2]) \div 2
                half == IF w[mid].x > target THEN <<b[1], mid>> ELSE <<mid, b[2]>>
            IN  IF half[2] - half[1] <= 1 THEN half[1] ELSE Bisect[half]
    IN  IF target = w[start].x THEN start
        ELSE IF target >= w[n].x THEN n
        ELSE IF forward THEN Bisect[<<start, at>>] ELSE Bisect[<<at, start>>]

(* position in the waveform, before the start that of the initial phase *)
Phase(s) == IF s.period > 0 THEN s.phase % s.period ELSE 0
Position(s, t) ==
    IF t < s.delay THEN Phase(s)
    ELSE IF s.period > 0 THEN (t - s.delay + Phase(s)) % s.period
    ELSE t - s.delay

(* the time of position 0 *)
Origin(s, t) ==
    IF s.period <= 0 THEN s.delay
    ELSE IF t < s.delay THEN s.delay - Phase(s)
    ELSE s.delay + ((t - s.delay + Phase(s)) \div s.period) * s.period - Phase(s)

(* the segment of position pos; aperiodic waveforms have none outside of the points *)
Segment(s, pos) ==
    LET w == Points(s)
        n == Len(w)
        outside == pos < w[1].x \/ pos >= w[n].x
    IN  IF ~outside THEN PwlIndexLookup(w, data.lastPointIndex, pos)
        ELSE IF s.period > 0 THEN n ELSE data.lastPointIndex

PwlValue(s, pos) ==
    LET w == Points(s)
        n == Len(w)
        i == Segment(s, pos)
    IN  IF s.period <= 0 /\ pos < w[1].x THEN w[1].y
        ELSE IF s.period <= 0 /\ pos >= w[n].x THEN w[n].y
        ELSE w[i].y + (pos - w[i].x) * data.slopes[i]

(* The next break point and the one after it, each as a point and the      *)
(* number of periods it is ahead; <<>> when there is none.                 *)
PwlBreaks(s, t, pos) ==
    LET w == Points(s)
        n == Len(w)
        next == data.nextBreakIndex
        After(b) == IF b.i > n THEN b
                    ELSE [i |-> next[b.i], per |-> b.per + (IF next[b.i] < b.i THEN 1 ELSE 0)]
        atFirst == pos < w[1].x \/ (t < s.delay /\ pos = w[1].x)
        first ==
            CASE s.period <= 0 /\ atFirst ->
                    [i |-> IF data.breakEnabled[1] THEN 1 ELSE next[1], per |-> 0]
              [] s.period > 0 /\ atFirst -> [i |-> next[n], per |-> 0]
              [] s.period > 0 /\ pos >= w[n].x ->
                    [i |-> next[n], per |-> IF next[n] < n THEN 1 ELSE 0]
              [] OTHER ->
                    LET i == Segment(s, pos)
                    IN  [i |-> next[i],
                         per |-> IF s.period > 0 /\ next[i] < i THEN 1 ELSE 0]
    IN  IF s.period <= 0 /\ pos >= w[n].x THEN <<>> ELSE <<first, After(first)>>

Tolerance(t) == Min({Tol, t})

(* What a waveform announces at t.  With break="none" an index left by a   *)
(* longer waveform may lie behind the points: anything may be read there   *)
(* (two answers stand for all: nothing, and a break point at once).        *)
PwlAnnouncements(s, t) ==
    LET pos == Position(s, t)
        b == PwlBreaks(s, t, pos)
        TimeOf(c) == Origin(s, t) + c.per * s.period + Points(s)[c.i].x
    IN  IF b = <<>> THEN {Never}
        ELSE IF b[1].i > Len(Points(s)) THEN {t + Tol + 1, Never}
        ELSE IF ~data.breakEnabled[b[1].i] THEN {Never}
        ELSE IF Abs(TimeOf(b[1]) - t) <= Tolerance(t) THEN {TimeOf(b[2])}
        ELSE {TimeOf(b[1])}

(***************************************************************************)
(* Pulses.  At the start of a period the rounded quotient may still give   *)
(* the period before.                                                      *)
(***************************************************************************)
Cycles(s, t) ==
    IF s.period <= 0 THEN {0}
    ELSE LET c == (t - s.delay) \div s.period
         IN  IF c > 0 /\ (t - s.delay) % s.period = 0 THEN {c, c - 1} ELSE {c}

Pulse(s, t, cycle) ==
    LET t0 == s.delay + cycle * s.period
        t1 == t0 + s.rise
        t2 == t1 + s.width
        t3 == t2 + s.fall
        t4 == t0 + s.period
        t5 == t4 + s.rise
        Rising(from) == s.val0 + ((t - from) * (s.val1 - s.val0)) \div s.rise
        Result(v, b) == [val |-> v, break |-> b]
    IN  CASE t < s.delay -> Result(s.val0, s.delay)
          [] t >= s.delay /\ t < t1 -> Result(Rising(t0), t1)
          [] t >= t1 /\ t < t2 -> Result(s.val1, t2)
          [] t >= t1 /\ t >= t2 /\ s.fall <= 0 -> Result(s.val1, Never)
          [] t >= t2 /\ t < t3 ->
                Result(s.val1 + ((t - t2) * (s.val0 - s.val1)) \div s.fall, t3)
          [] s.fall > 0 /\ t >= t3 /\ s.period > 0 /\ t >= t4 -> Result(Rising(t4), t5)
          [] s.fall > 0 /\ t >= t3 /\ s.period > 0 /\ t < t4 -> Result(s.val0, t4)
          [] OTHER -> Result(s.val0, Never)

(* dc, sine, am, fm and exp: value abstracted *)
Delayed(s, t) ==
    [val |-> 0,
     break |-> IF s.type # "dc" /\ t < s.delay THEN s.delay
               ELSE IF s.type = "exp" /\ t < s.delay + s.td2 THEN s.delay + s.td2
               ELSE Never]

SourceCompute(s, t) ==
    CASE s.type = "pwl" -> {[val |-> PwlValue(s, Position(s, t)), break |-> b] :
                               b \in PwlAnnouncements(s, t)}
      [] s.type = "pulse" -> {Pulse(s, t, c) : c \in Cycles(s, t)}
      [] OTHER -> {Delayed(s, t)}

(* EvalSetup::setBreakPoint after clearing: now and in the past are ignored *)
SetBreakPoint(b, t) == IF b > t + Tolerance(t) THEN b ELSE Never

(***************************************************************************)
(* The instance.                                                           *)
(***************************************************************************)
Setup(s) ==
    /\ params' = s
    /\ ready' = ~RejectedParameters(s)
    /\ IF s.type = "pwl" /\ ~RejectedWave(s)
       THEN data' = [slopes         |-> Slopes(s),
                     breakEnabled   |-> BreakEnabled(s),
                     nextBreakIndex |-> NextBreakIndex(s, data.nextBreakIndex),
                     lastPointIndex |-> 1]
       ELSE UNCHANGED data

Init ==
    /\ params \in Waveforms
    /\ ready = FALSE
    /\ data = [slopes |-> <<>>, breakEnabled |-> <<>>, nextBreakIndex |-> <<>>,
               lastPointIndex |-> 1]
    /\ time = 0 /\ value = 0 /\ nextBreakPoint = Never

(* setupCore: new parameters, or the first setup.  Only at time 0 (a bound:   *)
(* time can always go back there, and setup forgets the segment).             *)
SetupCore ==
    /\ time = 0
    /\ \E s \in Waveforms : Setup(s)
    /\ time' = 0 /\ value' = 0 /\ nextBreakPoint' = Never

(* evalCore at an accepted, a rejected or a new first time point *)
EvalCore(t) ==
    /\ ready
    /\ \E r \in SourceCompute(params, t) :
            /\ value' = r.val
            /\ nextBreakPoint' = SetBreakPoint(r.break, t)
    /\ data' = IF params.type = "pwl"
               THEN [data EXCEPT !.lastPointIndex = Segment(params, Position(params, t))]
               ELSE data
    /\ time' = t
    /\ UNCHANGED <<params, ready>>

Next == SetupCore \/ \E t \in 0 .. MaxTime : EvalCore(t)

Spec == Init /\ [][Next]_vars

TypeOK ==
    /\ params \in Waveforms /\ ready \in BOOLEAN
    /\ data.nextBreakIndex \in Seq(Nat \ {0}) /\ data.lastPointIndex \in Nat \ {0}
    /\ time \in 0 .. MaxTime /\ value \in Int /\ nextBreakPoint \in Nat

(***************************************************************************)
(* The waveform as the documentation defines it: straight lines between    *)
(* its points, held outside of them or repeated.                           *)
(***************************************************************************)
Shape(s) ==
    IF s.type = "pulse"
    THEN <<[x |-> 0, y |-> s.val0], [x |-> s.rise, y |-> s.val1],
           [x |-> s.rise + s.width, y |-> s.val1]>>
         \o (IF s.fall > 0 THEN <<[x |-> s.rise + s.width + s.fall, y |-> s.val0]>> ELSE <<>>)
    ELSE IF s.period <= 0 THEN s.wave
    ELSE LET w == Points(s)
             n == Len(w)
         IN  <<[x |-> w[n].x - s.period, y |-> w[n].y]>> \o w
             \o <<[x |-> w[1].x + s.period, y |-> w[1].y]>>

Signal(s, t) ==
    LET shape == Shape(s)
        n == Len(shape)
        started == Max({t - s.delay, 0})
        phase == IF s.type = "pwl" THEN s.phase ELSE 0
        x == IF s.period > 0 THEN (started + phase) % s.period ELSE started
        i == CHOOSE k \in 1 .. n - 1 : shape[k].x <= x /\ x < shape[k + 1].x
    IN  IF x < shape[1].x THEN shape[1].y
        ELSE IF x >= shape[n].x THEN shape[n].y
        ELSE shape[i].y + ((x - shape[i].x) * (shape[i + 1].y - shape[i].y))
                              \div (shape[i + 1].x - shape[i].x)

(* periods join at the value they started with (see the README) *)
Closes(s) ==
    s.period > 0 => CASE s.type = "pwl"   -> Last(Points(s)).y = Points(s)[1].y
                      [] s.type = "pulse" -> s.fall > 0

(* Where the signal bends: by any angle, or with break="auto" by more than *)
(* the tolerance.  A periodic waveform may start between its points.       *)
Bends(s, t) ==
    LET before == Signal(s, t) - Signal(s, t - 1)
        after == Signal(s, t + 1) - Signal(s, t)
    IN  IF s.type = "pwl" /\ s.breakpt = "auto" THEN ExceedsTolerance(s, before, after)
                                               ELSE before # after

Corners(s) ==
    CASE s.type = "dc" -> {}
      [] s.type \in {"sine", "am", "fm"} -> {s.delay}
      [] s.type = "exp" -> {s.delay, s.delay + s.td2}
      [] OTHER -> {t \in 1 .. MaxTime + 8 :
                        Bends(s, t) /\ (t = s.delay /\ s.type = "pwl" /\ s.period > 0
                                            => Phase(s) = 0 /\ s.breakpt = "all")}

(* break points are asked for, and a period does not have just one of them *)
Announces(s) ==
    CASE s.type = "pwl" ->
            /\ s.breakpt # "none" /\ Closes(s)
            /\ s.period > 0 =>
                 Cardinality({i \in DOMAIN BreakEnabled(s) : BreakEnabled(s)[i]}) # 1
      [] s.type = "pulse" -> Closes(s)
      [] OTHER -> TRUE

(* Only pwl looks behind a break point that is within the tolerance.       *)
Resolved(s, t) == s.type = "pwl" \/ \A c \in Corners(s) : c > t => c > t + Tolerance(t)

(***************************************************************************)
(* The value is that of the waveform, whatever segment an earlier          *)
(* evaluation, at a later time or of the period before, left behind        *)
(* (pwlIndexLookup, the branches of pwlValue and of the pulse).            *)
(***************************************************************************)
ValueIsInterpolated ==
    ready /\ time > 0 /\ params.type \in {"pwl", "pulse"} /\ Closes(params)
        => value = Signal(params, time)

(***************************************************************************)
(* An integrator that goes up to the announced break point steps over no   *)
(* corner of the waveform: not from just before or just behind a corner,   *)
(* not at the end of a period, and not before the waveform has started.    *)
(***************************************************************************)
CornersAreAnnounced ==
    ready /\ time > 0 /\ Announces(params) /\ Resolved(params, time)
        => \A c \in Corners(params) : c > time + Tolerance(time) => nextBreakPoint <= c
=============================================================================
