---- MODULE ScalarSweep ----
(***************************************************************************)
(* The range of one sweep (class ScalarSweep, lib/coresweep.cpp): how many *)
(* values it has and which value belongs to a position. The settings of a  *)
(* sweep name its range in one of three ways: a list of values, a mode     *)
(* (lin, dec or oct) or a step.                                            *)
(*                                                                         *)
(* Values are integers, computed exactly: the rounding of floating point   *)
(* is not modelled, nor are the tests for more points than an Int holds.   *)
(* The ends of a logarithmic sweep are given by their logarithms, in units *)
(* of which a decade has Decade and an octave has Octave, so they are      *)
(* positive by construction.                                               *)
(***************************************************************************)
EXTENDS Integers, Sequences, FiniteSets

CONSTANTS Decade, Octave

ASSUME ScaleAssumption == Decade \in Nat \ {0} /\ Octave \in Nat \ {0}

Specs == {"values", "mode", "step"}

\* The part of SweepSettings that gives the range; given holds the ways that were used.
RangeSettings ==
    [given: SUBSET Specs, from: Int, to: Int, step: Int,
     mode: {"lin", "dec", "oct"}, points: Int, values: Seq(Int)]

LogFactor(s) == IF s.mode = "dec" THEN Decade ELSE Octave

\* Ceiling of a / b for b > 0, and the distance of two integers.
CeilDiv(a, b) == -((-a) \div b)

Distance(a, b) == IF a <= b THEN b - a ELSE a - b

\* setup() succeeds: one specification, and one that makes sense.
SetupOK(s) ==
    /\ Cardinality(s.given) = 1
    /\ "values" \in s.given => s.values # <<>>
    /\ "mode" \in s.given => IF s.mode = "lin" THEN s.points >= 0 ELSE s.points > 0
    /\ "step" \in s.given => \/ s.from <= s.to /\ s.step > 0
                             \/ s.from > s.to /\ s.step < 0

\* The number of steps setupSteppedSweep() starts from, and whether the point
\* after that many steps is still in the range.
WholeSteps(s) ==
    LET n == CeilDiv(Distance(s.from, s.to), Distance(0, s.step))
    IN IF n <= 0 THEN 1 ELSE n

StepInside(s, n) ==
    IF s.step > 0 THEN s.from + n * s.step <= s.to ELSE s.from + n * s.step >= s.to

\* A slip: the point on the far end is forgotten.
SteppedCount_Slip(s) == WholeSteps(s)

SteppedCount(s) ==
    WholeSteps(s) + (IF StepInside(s, WholeSteps(s)) THEN 1 ELSE 0)

LogCount(s) == CeilDiv(s.points * Distance(s.from, s.to), LogFactor(s)) + 1

Count(s) ==
    IF "values" \in s.given THEN Len(s.values)
    ELSE IF "step" \in s.given THEN SteppedCount(s)
    ELSE IF s.mode = "lin" THEN s.points + 1
    ELSE LogCount(s)

\* The value at position at (compute()).
PointValue(s, at) ==
    IF "values" \in s.given THEN s.values[at + 1]
    ELSE IF "step" \in s.given THEN s.from + s.step * at
    ELSE IF Count(s) < 2 THEN s.from
    ELSE s.from + ((s.to - s.from) * at) \div (Count(s) - 1)

-----------------------------------------------------------------------------
(* What a range is for, said without counting. *)

\* The points of a stepped range: from + k * step for natural k, not past to.
SteppedPoints(s) ==
    LET lo == IF s.step > 0 THEN s.from ELSE s.to
        hi == IF s.step > 0 THEN s.to ELSE s.from
    IN {v \in lo .. hi : (v - s.from) % Distance(0, s.step) = 0}

\* A number of equal intervals is fine enough for a logarithmic range when there are
\* at least points of them per factor, and it is the least one.
FineEnough(s, n) == n * LogFactor(s) >= s.points * Distance(s.from, s.to)

LeastFine(s, n) == FineEnough(s, n) /\ (n > 0 => ~FineEnough(s, n - 1))

CoversRange(s) ==
    LET vals == {PointValue(s, k) : k \in 0 .. Count(s) - 1}
        Endpoints == /\ PointValue(s, 0) = s.from
                     /\ Count(s) > 1 => PointValue(s, Count(s) - 1) = s.to
    IN  \/ "step" \in s.given /\ vals = SteppedPoints(s)
        \/ "values" \in s.given /\ vals = {s.values[k] : k \in 1 .. Len(s.values)}
        \/ /\ "mode" \in s.given /\ Endpoints
           /\ IF s.mode = "lin" THEN Count(s) = s.points + 1
              ELSE LeastFine(s, Count(s) - 1)

=============================================================================
