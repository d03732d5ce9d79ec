----------------------------- MODULE MCNRSolver -----------------------------
(* NRSolver with two instances, one of them bypassable, and short limits.  *)
EXTENDS NRSolver

CONSTANTS diode, resistor

MCInstances == {diode, resistor}
MCBypassable == {diode}
MCOrder == <<diode, resistor>>

MCOptions == {
    [nsiter |-> 1, conviter |-> 1, bypass |-> TRUE, residualcheck |-> TRUE],
    [nsiter |-> 2, conviter |-> 2, bypass |-> FALSE, residualcheck |-> TRUE],
    [nsiter |-> 2, conviter |-> 1, bypass |-> FALSE, residualcheck |-> FALSE]}
=============================================================================
