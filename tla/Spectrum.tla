------------------------------ MODULE Spectrum ------------------------------
(***************************************************************************)
(* The frequencies of harmonic balance: class Spurs (lib/spurs.cpp).       *)
(*                                                                         *)
(* A spur is a vector of weights, one for each fundamental frequency.  An  *)
(* odometer visits the spurs within the numbers of harmonics, truncation   *)
(* drops some, and of the spurs that meet at one frequency one is kept:    *)
(* these are the spectrum.  The small-signal analyses use the two-sided    *)
(* spectrum (lines), prune it, and look up which line of a periodic        *)
(* Jacobian takes one line to another.                                     *)
(***************************************************************************)
EXTENDS Integers, FiniteSets, SequencesExt

Magnitude(k) == IF k < 0 THEN -k ELSE k
Sum(s) == FoldLeft(LAMBDA x, y : x + y, 0, s)
Ascending(S) == [i \in 1 .. Cardinality(S) |-> CHOOSE x \in S : Cardinality({y \in S : y < x}) = i - 1]

(***************************************************************************)
(* spurStats                                                               *)
(***************************************************************************)
Frequency(fund, w) == Sum([k \in DOMAIN w |-> w[k] * fund[k]])
Order(w) == Sum([k \in DOMAIN w |-> Magnitude(w[k])])
IsHarmonic(w) == Cardinality({k \in DOMAIN w : w[k] # 0}) <= 1
Negated(w) == [k \in DOMAIN w |-> -w[k]]

(***************************************************************************)
(* The odometer: the last coordinate that is not at its end advances and   *)
(* the ones behind it start anew, from zero as long as everything before   *)
(* them is zero: of a spur and its negative only one is visited.           *)
(***************************************************************************)
Largest(S) == CHOOSE x \in S : \A y \in S : y <= x

Box(harms) ==
    {w \in [DOMAIN harms -> -Largest(ToSet(harms)) .. Largest(ToSet(harms))] :
        \A k \in DOMAIN w : Magnitude(w[k]) <= harms[k]}

Start(w, i, harms) ==
    [k \in DOMAIN w |-> IF k <= i THEN w[k]
                        ELSE IF \A l \in 1 .. i : w[l] = 0 THEN 0 ELSE -harms[k]]

Advanced_Slip(w, harms) ==
    LET i == Largest({k \in DOMAIN w : w[k] < harms[k]})
    IN [k \in DOMAIN w |-> IF k < i THEN w[k] ELSE IF k = i THEN w[k] + 1 ELSE 0]
Advanced(w, harms) ==
    LET i == Largest({k \in DOMAIN w : w[k] < harms[k]})
    IN Start([w EXCEPT ![i] = @ + 1], i, harms)

Visited(harms) ==
    LET Visit[w \in Box(harms)] ==
            <<w>> \o (IF w = harms THEN <<>> ELSE Visit[Advanced(w, harms)])
    IN Visit[[k \in DOMAIN harms |-> 0]]

(* Without a limit of the order the whole box is kept.                     *)
IsKept(w, harms, immax, hybrid) ==
    \/ immax = 0
    \/ Order(w) <= Largest(ToSet(harms) \cup {immax})
    \/ hybrid /\ IsHarmonic(w)

(***************************************************************************)
(* Spurs that meet at one frequency: the lower order wins, then the        *)
(* harmonic, then the one that was visited first.                          *)
(***************************************************************************)
Meet(fund, v, w) == Magnitude(Frequency(fund, v)) = Magnitude(Frequency(fund, w))

Wins(fund, spurs, i, j) ==
    LET v == spurs[i] w == spurs[j] IN
    /\ Meet(fund, v, w)
    /\ \/ Order(v) < Order(w)
       \/ Order(v) = Order(w) /\ IsHarmonic(v) /\ ~IsHarmonic(w)
       \/ Order(v) = Order(w) /\ (IsHarmonic(v) <=> IsHarmonic(w)) /\ i < j

Removed(fund, spurs) ==
    {j \in DOMAIN spurs : \E i \in DOMAIN spurs : Wins(fund, spurs, i, j)}

Survivors(fund, spurs) ==
    {spurs[i] : i \in DOMAIN spurs \ Removed(fund, spurs)}

(***************************************************************************)
(* build: frequencies become positive and are sorted, buildSmsig adds      *)
(* their negatives before them.                                            *)
(***************************************************************************)
Positive(fund, w) == IF Frequency(fund, w) < 0 THEN Negated(w) ELSE w

TwoSided(weights) == Reverse([i \in 1 .. Len(weights) - 1 |-> Negated(weights[i + 1])]) \o weights

InOrder(fund, kept) ==
    LET spectrum == Ascending({Frequency(fund, w) : w \in kept})
    IN [i \in DOMAIN spectrum |-> CHOOSE w \in kept : Frequency(fund, w) = spectrum[i]]

Assembled(fund, weights, conflict) ==
    LET lines == TwoSided(weights)
    IN [fund |-> fund, weights |-> weights, conflict |-> conflict,
        lines |-> lines, full |-> [i \in DOMAIN lines |-> i], dc |-> Len(weights)]

BuildFrom(fund, visited) ==
    Assembled(fund, InOrder(fund, {Positive(fund, w) : w \in Survivors(fund, visited)}),
              Removed(fund, visited) # {})

Build(fund, harms, immax, hybrid) ==
    BuildFrom(fund, SelectSeq(Visited(harms), LAMBDA w : IsKept(w, harms, immax, hybrid)))

SpectrumOf(s) == [i \in DOMAIN s.weights |-> Frequency(s.fund, s.weights[i])]
LineFrequency(s, i) == Frequency(s.fund, s.lines[i])

(***************************************************************************)
(* prune: a positive line goes with its negative.                          *)
(***************************************************************************)
Exceeds(s, i, maxHarm, maxFreq) ==
    \/ \E k \in DOMAIN s.fund : maxHarm[k] >= 0 /\ Magnitude(s.lines[i][k]) > maxHarm[k]
    \/ maxFreq >= 0 /\ LineFrequency(s, i) > maxFreq

Prune(s, maxHarm, maxFreq) ==
    LET mirror(i) == IF i >= s.dc THEN i ELSE 2 * s.dc - i
        kept == Ascending({i \in DOMAIN s.lines : ~Exceeds(s, mirror(i), maxHarm, maxFreq)})
    IN [s EXCEPT !.lines = [i \in DOMAIN kept |-> s.lines[kept[i]]],
                 !.full = [i \in DOMAIN kept |-> s.full[kept[i]]],
                 !.dc = CHOOSE i \in DOMAIN kept : kept[i] = s.dc]

(***************************************************************************)
(* buildMixingMap: the line of the Jacobian that takes line "in" to line   *)
(* "out", found by its weights; NoLine where there is none.                *)
(***************************************************************************)
NoLine == 0

LineOf(s, w) ==
    IF \E i \in DOMAIN s.lines : s.lines[i] = w
    THEN CHOOSE i \in DOMAIN s.lines : s.lines[i] = w ELSE NoLine

Mixed(v, w) == [k \in DOMAIN v |-> v[k] + w[k]]

MixingMap(s) ==
    [out, in \in DOMAIN s.lines |->
        LET jac == {j \in DOMAIN s.lines : Mixed(s.lines[in], s.lines[j]) = s.lines[out]}
        IN IF jac = {} THEN NoLine ELSE CHOOSE j \in jac : TRUE]

(* the rows of a column between its first and its last entry               *)
RowRange(map, s, in) ==
    LET rows == {out \in DOMAIN s.lines : map[out, in] # NoLine}
    IN {out \in DOMAIN s.lines : \E first, last \in rows : first <= out /\ out <= last}
=============================================================================
