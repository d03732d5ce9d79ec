---------------------------- MODULE MCElaboration ----------------------------
(***************************************************************************)
(* Small netlists for the model of the elaboration of changes: r is an     *)
(* OSDI device with a free parameter, f one whose parameter is an          *)
(* expression, o one inside the conditional block of the subcircuit        *)
(* instance x, c a builtin controlled source.                              *)
(***************************************************************************)
EXTENDS Elaboration

CONSTANTS r, f, o, c, x

MCVals   == 0..2
MCLevels == 0..1

\* The expression gives the variable, a high temperature adds one to it
MCExpr == [z \in MCVals \X MCLevels |-> (z[1] + z[2]) % 3]

MCDefaults == [z \in OptionNames |-> 0]

NoOptions  == [fixed |-> <<>>, computed |-> <<>>]
High(z)    == [NoOptions EXCEPT !.fixed = [y \in {z} |-> 1]]
Follows(z) == [NoOptions EXCEPT !.computed =
                 [y \in {z} |-> [v \in MCVals |-> IF v = 1 THEN 1 ELSE 0]]]

\* Conditional blocks at the toplevel and in a subcircuit; r collapses at value
\* 1, f at value 0, and a high temperature undoes r
Blocks ==
  [devs |-> {r, f, o}, nTop |-> 2, topOf |-> [y \in {x} |-> 2],
   hostOf |-> [d \in {r, f, o} |-> IF d = r THEN 1 ELSE IF d = f THEN 2 ELSE x],
   optional |-> {o}, followers |-> {f}, builtin |-> {}, steered |-> {},
   default |-> [d \in {r, f, o} |-> 0],
   enabling |-> [h \in {1, 2, x} |-> IF h = x THEN {1} ELSE IF h = 2 THEN {2} ELSE {}],
   shorted |-> {<<r, 1, 0>>, <<f, 0, 0>>, <<f, 0, 1>>, <<o, 1, 0>>, <<o, 0, 1>>},
   refused |-> {},
   userOptions |-> {NoOptions, High("temp"), Follows("abstol")}, ownOptions |-> {},
   targets |-> {{}, {r}, {SweptVariable}},
   faultyAlter |-> FALSE, stops |-> TRUE]

\* Swept parameters, options and variables, a device that refuses the value 2
Flat(faulty) ==
  [devs |-> {r, c}, nTop |-> 1, topOf |-> <<>>, hostOf |-> [d \in {r, c} |-> 1],
   optional |-> {}, followers |-> {}, builtin |-> {c}, steered |-> {c},
   default |-> [d \in {r, c} |-> 0], enabling |-> [h \in {1} |-> {}],
   shorted |-> {<<r, 1, 0>>}, refused |-> {<<c, 2>>},
   userOptions |-> {NoOptions}, ownOptions |-> {High("abstol"), Follows("temp")},
   targets |-> {{r, "temp"}, {r, c}, {SweptVariable}, {"abstol", "tolmode"}, {"tolscale"}},
   faultyAlter |-> faulty, stops |-> FALSE]

MCNetlists == {Blocks, Flat(FALSE), Flat(TRUE)}
==============================================================================
