---- MODULE SweepEnumeration ----
(***************************************************************************)
(* What a nested sweep promises, without saying how: the points of the     *)
(* space are visited one by one, each once, in the order in which the last *)
(* sweep is the fastest (docs/cmd-sweep.md, "Nested sweeps"). It may stop  *)
(* early; that it is complete is said only when all points were visited,   *)
(* until the caller dismisses the sweep. It may be started over, possibly  *)
(* over another space.                                                     *)
(***************************************************************************)
EXTENDS Naturals, Sequences

VARIABLES space,     \* the points, as sequences of positions, outermost first
          visited,   \* the ones visited since the last start
          complete   \* nothing is left to visit, and that was said

\* p comes before q: the outermost position that differs is smaller in p.
Precedes(p, q) ==
    \E k \in DOMAIN p : p[k] < q[k] /\ \A j \in 1 .. k - 1 : p[j] = q[j]

EnumerationInit == visited = {} /\ ~complete

Visit ==
    /\ \E p \in space \ visited :
          /\ \A q \in space \ visited : p = q \/ Precedes(p, q)
          /\ visited' = visited \cup {p}
    /\ ~complete /\ UNCHANGED <<space, complete>>

Report ==
    /\ visited = space /\ complete' = TRUE
    /\ UNCHANGED <<space, visited>>

Dismiss == ~complete' /\ UNCHANGED <<space, visited>>

StartOver == visited' = {} /\ ~complete'

EnumerationNext == Visit \/ Report \/ Dismiss \/ StartOver

EnumerationSpec == EnumerationInit /\ [][EnumerationNext]_<<space, visited, complete>>

=============================================================================
