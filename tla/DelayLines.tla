----------------------------- MODULE DelayLines -----------------------------
(***************************************************************************)
(* Delay lines of the transient analysis: class DelayLines                 *)
(* (include/coredelay.h) and the way TranCore drives it.                   *)
(*                                                                         *)
(* Every delay line (slot) keeps the past values of its input in a         *)
(* circular buffer; the times of the samples are kept once, in a buffer of *)
(* the core.  A full buffer either evicts its oldest sample or grows.  A   *)
(* delayed value is interpolated between two stored samples.               *)
(*                                                                         *)
(* record is a history variable that forgets nothing: what the buffers     *)
(* give is compared with it.  A sample's value is its slot, run and time.  *)
(***************************************************************************)
EXTENDS Integers, Sequences, FiniteSets, FiniteSetsExt

CONSTANTS
    Blank,              \* what a cell of a buffer holds before anything is written to it
    Lines,              \* the delay lines of the circuit
    InitialSize,        \* initialHistorySize
    GrowthFactor,       \* historyGrowthFactor
    MaxDelays,          \* maximal delays a device may ask for
    MaxTime,            \* bound: a run ends here
    MaxRuns             \* bound: points of a sweep that reuse the core

\* A buffer has room for a sample, and growing makes it larger.
ASSUME SizesAssumption ==
    /\ IsFiniteSet(Lines)
    /\ InitialSize \in Nat \ {0} /\ GrowthFactor \in Nat \ {0, 1}
    /\ MaxDelays \subseteq Nat /\ MaxTime \in Nat /\ MaxRuns \in Nat

-----------------------------------------------------------------------------
(* CircularBuffer<T> (include/ansupport.h), the buffer behind the history   *)
(* of solutions, states, time steps, break points and delayed signals: a   *)
(* record of size cells numbered from 0, the position at of the latest     *)
(* value and the number of values that were added.                         *)

NewBuffer(n) == [cell |-> [i \in 0..(n - 1) |-> Blank], size |-> n, at |-> 0, count |-> 0]

Clear(b) == [b EXCEPT !.at = 0, !.count = 0]

Counted(b) == IF b.count < b.size THEN b.count + 1 ELSE b.count

Add(b, v) ==
    LET at == IF b.at + 1 >= b.size THEN 0 ELSE b.at + 1
    IN [b EXCEPT !.at = at, !.count = Counted(b), !.cell[at] = v]

Upsize(b, n) ==
    IF n <= b.size THEN b
    ELSE LET gap == n - b.size
             moved == IF b.size > 0 THEN b.size - b.at - 1 ELSE 0
         IN [b EXCEPT !.size = n,
                      !.cell = [i \in 0..(n - 1) |->
                                  IF i >= n - moved THEN b.cell[i - gap]
                                  ELSE IF i < b.size THEN b.cell[i] ELSE Blank]]

(* at(): 0 is the latest value, k > 0 the k-th before it; it throws when   *)
(* the buffer is not that long                                             *)
InRange(b, k) == k < b.size /\ -k < b.size
SampleAt(b, k) == b.cell[IF k >= 0
                     THEN IF k > b.at THEN b.size + b.at - k ELSE b.at - k
                     ELSE IF b.at - k >= b.size THEN b.at - k - b.size ELSE b.at - k]

-----------------------------------------------------------------------------
(* The delay lines *)

VARIABLES
    history,        \* history_: a buffer for each slot
    longest,        \* longestBuffer_
    times,          \* timepointHistory_ of the core
    maxDelay,       \* maxDelay_ of each slot
    run,            \* number of the run, 0 before the first
    record          \* all samples [t, v] of this run, newest first

delayVars == <<history, longest, times, maxDelay, run, record>>

Now == IF record = <<>> THEN 0 ELSE record[1].t
Value(s, t) == <<s, run, t>>

(***************************************************************************)
(* addSample                                                               *)
(***************************************************************************)
(* A full buffer grows unless what would become its oldest sample is       *)
(* already further back than the maximal delay.                            *)
NeedsUpsize_SlipOld(s, t) ==
    /\ history[s].count = history[s].size
    /\ history[s].count >= 2 =>
           t - SampleAt(times, history[s].count - 1) <= maxDelay[s]
NeedsUpsize(s, t) ==
    /\ history[s].count = history[s].size
    /\ history[s].count >= 2 =>
           t - SampleAt(times, history[s].count - 2) <= maxDelay[s]

GrownSize(b) == IF b.size < InitialSize THEN InitialSize ELSE b.size * GrowthFactor

Grown(s, t) ==
    IF NeedsUpsize(s, t) THEN Upsize(history[s], GrownSize(history[s])) ELSE history[s]

(* the times are kept for as many samples as the longest history holds *)
LongestNow(t) == Max({longest} \cup {Grown(s, t).size : s \in {x \in Lines : NeedsUpsize(x, t)}})

TimesFor(n) == IF n > times.size THEN Upsize(times, n) ELSE times

AddSample(t) ==
    /\ history' = [s \in Lines |-> Add(Grown(s, t), Value(s, t))]
    /\ longest' = LongestNow(t)
    /\ times' = Add(TimesFor(LongestNow(t)), t)

(***************************************************************************)
(* getSample: between which two samples the value at a past time is found. *)
(* A point is [t, v]; a result [newer, older] is interpolated between both.*)
(***************************************************************************)
ClippedDelay(s, td) == Min({Max({td, 0}), maxDelay[s]})
Stored(s, k) == [t |-> SampleAt(times, k), v |-> SampleAt(history[s], k)]
LiveSample(s, now) == [t |-> now, v |-> "live"]

(* binary search: the largest index whose time is not before the target *)
Search[x \in (0..(MaxTime + 2)) \X (0..(MaxTime + 2)) \X (-MaxTime..MaxTime)] ==
    LET lo == x[1]
        hi == x[2]
        target == x[3]
        mid == lo + (hi - lo + 1) \div 2
    IN IF lo >= hi THEN lo
       ELSE IF SampleAt(times, mid) >= target THEN Search[<<mid, hi, target>>]
       ELSE Search[<<lo, mid - 1, target>>]

Between(newer, older) == [newer |-> newer, older |-> older]

GetSample(s, now, td) ==
    LET delay == ClippedDelay(s, td)
        target == now - delay
        n == history[s].count
        live == LiveSample(s, now)
    IN IF delay = 0 \/ n = 0 THEN Between(live, live)
       ELSE IF target >= SampleAt(times, 0)
         THEN IF now = SampleAt(times, 0) THEN Between(live, live)
              ELSE Between(live, Stored(s, 0))
       ELSE LET lo == Search[<<0, n - 1, target>>] IN
            IF lo = n - 1 THEN Between(Stored(s, lo), Stored(s, lo))
            ELSE Between(Stored(s, lo), Stored(s, lo + 1))

(***************************************************************************)
(* Runs.                                                                   *)
(***************************************************************************)
DelayInit ==
    /\ history = [s \in Lines |-> NewBuffer(0)]
    /\ longest = 0
    /\ times = NewBuffer(0)
    /\ maxDelay = [s \in Lines |-> 0]
    /\ run = 0 /\ record = <<>>

(* loadCore() at the first time point: every instance gives its lines the   *)
(* delays they may have.                                                   *)
LoadMaxDelays == maxDelay' \in [Lines -> MaxDelays]

(* A run begins: prepareHistory empties the histories but keeps their      *)
(* size, the sample at t=0 is added, and the initial evaluation sets the   *)
(* maximal delays.  The times of an earlier run stay in their buffer.      *)
StartRun ==
    /\ run < MaxRuns
    /\ run' = run + 1
    /\ LoadMaxDelays
    /\ history' = [s \in Lines |->
                      LET h == Clear(history[s]) IN
                      Add(IF h.size = 0 THEN Upsize(h, InitialSize) ELSE h, <<s, run + 1, 0>>)]
    /\ longest' = Max({longest, InitialSize})
    /\ times' = Add(TimesFor(longest'), 0)
    /\ record' = <<[t |-> 0, v |-> [s \in Lines |-> <<s, run + 1, 0>>]]>>

(* TranCore::rebuild, before a run whose circuit has changed *)
Rebuild ==
    /\ run > 0
    /\ times' = Clear(times)
    /\ record' = <<>>
    /\ UNCHANGED <<history, longest, maxDelay, run>>

(* TranCore accepts a point at t *)
Accept(t) ==
    /\ record # <<>> /\ t > Now
    /\ AddSample(t)
    /\ record' = <<[t |-> t, v |-> [s \in Lines |-> Value(s, t)]]>> \o record
    /\ UNCHANGED <<maxDelay, run>>

DelayNext == StartRun \/ Rebuild \/ \E t \in 1..MaxTime : Accept(t)

DelaySpec == DelayInit /\ [][DelayNext]_delayVars
----------------------------------------------------------------------------
(* What a delay line promises: the value at now-td of the polygon through  *)
(* all samples of this run and the present value, before the first sample  *)
(* the first sample.                                                       *)
Samples(s) == {[t |-> record[i].t, v |-> record[i].v[s]] : i \in DOMAIN record}

Interpolated(s, now, td) ==
    LET target == now - ClippedDelay(s, td)
        known == Samples(s) \cup {LiveSample(s, now)}
        after == {x \in known : x.t >= target}
        before == {x \in known : x.t <= target}
        newer == CHOOSE x \in after : \A y \in after : x.t <= y.t
    IN IF before = {} THEN Between(newer, newer)
       ELSE Between(newer, CHOOSE x \in before : \A y \in before : y.t <= x.t)

(* two results are the same value: at a sample only that sample counts *)
ValueAt(r, target) ==
    IF r.newer.t = target THEN {r.newer}
    ELSE IF r.older.t = target THEN {r.older} ELSE {r.newer, r.older}

DelayTypeOK ==
    /\ \A s \in Lines : history[s].count <= history[s].size
    /\ times.count <= times.size /\ longest \in Nat
    /\ maxDelay \in [Lines -> MaxDelays \cup {0}]
    /\ run \in 0..MaxRuns /\ Len(record) <= MaxTime + 1

(* However often a buffer was cleared, wrapped around and grew, counting   *)
(* back from its latest cell gives the samples in order, and the buffer of *)
(* times pairs with every history.                                         *)
BuffersPairUp ==
    record # <<>> => \A s \in Lines : \A k \in 0..(history[s].count - 1) :
        /\ InRange(history[s], k) /\ InRange(times, k)
        /\ k + 1 \in DOMAIN record
        /\ SampleAt(history[s], k) = record[k + 1].v[s]
        /\ SampleAt(times, k) = record[k + 1].t

(* Eviction loses nothing: at every later time and for every delay up to   *)
(* the maximal one, the delayed value is the one the complete record gives.*)
DelayedValueIsExact ==
    record # <<>> =>
      \A s \in Lines, now \in (Now + 1)..(MaxTime + 1), td \in 0..MaxTime :
        LET target == now - ClippedDelay(s, td) IN
        ValueAt(GetSample(s, now, td), target) = ValueAt(Interpolated(s, now, td), target)

(* The history is bounded by the maximal delay, not by the length of the   *)
(* run: with one sample per tick at most, it grows no further than to      *)
(* GrowthFactor times what the delay spans (later runs keep the size).     *)
HistoryIsBounded ==
    run = 1 => \A s \in Lines :
        history[s].size <= Max({InitialSize, GrowthFactor * (maxDelay[s] + 1)})

(* A history keeps what its delays can still ask for, and not much more.   *)
HistoryFitsTheDelay == DelayedValueIsExact /\ HistoryIsBounded
=============================================================================
