----------------------------- MODULE MCCommands -----------------------------
(***************************************************************************)
(* Control blocks for the model of the command interpreter. The netlist    *)
(* has one call site of a distribution function that is always there, and  *)
(* one in a block that is there when the circuit variable is 1.            *)
(***************************************************************************)
EXTENDS Commands

CONSTANTS s, t

MCValues  == 0..1
MCSitesAt == [x \in MCValues |-> IF x = 1 THEN {s, t} ELSE {s}]

Loop(n, strict) == Mc("m", n, TRUE, strict)
A == Analysis("a", FALSE)
B == Analysis("b", TRUE)
P == Pss("p")

\* A loop whose body changes the variable, with analyses before and after it
Around == <<Options(Value(1)), A, Loop(3, FALSE), A, Var(1), B,
            Command("endmc"), B>>

\* The generators change between the passes
Strict == <<Alter(1), Loop(2, TRUE), A, Var(1), Alter(0), Command("endmc"), B>>

\* Everything else a user can change, without a loop
Session == <<Alter(1), A, Options(ByExpr), Var(1), Command("print"), B,
             Save(1), Elaborate("changes"), Elaborate("circuit"), Options(Unset),
             Clear({"variables", "saves"}), Analysis("c", TRUE)>>

\* Nothing is to stop the run, and two loops follow each other. The files of the
\* periodic steady state analysis have the same name in both passes.
Lenient == <<Abort(TRUE, {}), Mc("m", 2, FALSE, FALSE), A, P, Var(1),
             Command("postprocess"), Command("endmc"), Alter(1),
             Loop(2, FALSE), A, Command("endmc")>>
Twice   == <<Abort(TRUE, {"mc"}), Mc("m", 2, TRUE, TRUE), Alter(1), A,
             Command("endmc"), Mc("n", 2, FALSE, FALSE), A, Command("endmc"),
             Options(Value(1)), A>>

\* Blocks that cannot be executed to their end
Nested  == <<Loop(2, FALSE), Mc("n", 1, TRUE, FALSE), A>>
Endless == <<Abort(FALSE, {}), Loop(2, FALSE), A>>
Wrong   == <<Mc("m", 0, TRUE, FALSE)>>
Unknown == <<Loop(1, FALSE), Clear({"options"}), Command("bad")>>

MCPrograms == {Around, Strict, Session, Lenient, Twice, Nested, Endless,
               Wrong, Unknown}

MCFaults == {"var", "alter", "print", "postprocess", "mc", "elaborate",
             "create", "run", "own"}

\* A latin hypercube of three samples
Hypercube == {<<Loop(3, FALSE), A, Command("endmc"), A>>}

NoFaults == {}
=============================================================================
