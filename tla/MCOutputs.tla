----------------------------- MODULE MCOutputs -----------------------------
(***************************************************************************)
(* Runs of all kinds over three circuits: the first has a transistor m1    *)
(* with an internal node in a conditional block, the second lacks the      *)
(* block and collapses b into a, the third has another device of the same  *)
(* name, so that the unknowns are numbered differently and some quantities *)
(* do not exist.                                                           *)
(***************************************************************************)
EXTENDS Outputs

Inst(name, source, noise, outvars, inBlock) ==
    [name |-> name, source |-> source, noise |-> noise, outvars |-> outvars,
     texts |-> {"mode"}, inBlock |-> inBlock]

V1 == Inst("v1", TRUE, <<>>, {}, FALSE)
R1 == Inst("r1", FALSE, <<"thermal">>, {"i"}, FALSE)

A == <<"a">>
B == <<"b">>
D == <<"m1", "d">>
F == <<"v1", "flow(br)">>

With ==
    [order |-> <<A, B, F, D>>, repr |-> <<A, B, F, D>>,
     node |-> [n \in {A, B, F, D} |-> CASE n = A -> 1 [] n = B -> 2 [] n = F -> 3 [] n = D -> 4],
     insts |-> <<V1, R1, Inst("m1", FALSE, <<"id", "flicker">>, {"gm"}, TRUE)>>,
     ports |-> 2, spurs |-> << <<"1">>, <<"-1">> >>]

Without ==
    [With EXCEPT !.order = <<A, B, F>>, !.repr = <<A, F>>,
                 !.node = [n \in {A, B, F} |-> IF n = F THEN 2 ELSE 1],
                 !.insts = <<V1, R1>>]

Other ==
    [With EXCEPT !.order = <<D, A, B, F>>, !.repr = <<D, A, F>>,
                 !.node = [n \in {A, B, F, D} |-> CASE n = D -> 1 [] n = A -> 2
                                                    [] n = B -> 0 [] n = F -> 3],
                 !.insts = <<Inst("m1", FALSE, <<"flicker">>, {"ft"}, TRUE), V1, R1>>,
                 !.spurs = << <<"1">> >>]

Save(directive, obj, sub) == [directive |-> directive, obj |-> obj, sub |-> sub]
Plain(directive) == Save(directive, None, None)
One(directive, obj) == Save(directive, obj, None)

SaveLists ==
    {<<>>, <<Plain("v")>>, <<Plain("default"), Save("p", "m1", "gm")>>,
     <<One("v", "b"), One("v", "missing"), One("i", "v1")>>,
     <<Save("p", "r1", "i"), Save("p", "m1", "mode"), Save("p", "gone", "i"), One("v", "b")>>,
     <<Plain("full"), One("v", "a")>>,
     <<One("dv", "b"), Plain("opfull"), Plain("hbfull"), One("di", "v1")>>,
     <<One("tf", "v1"), One("zin", "v1"), One("yin", "v1"), One("tf", "v1")>>,
     <<One("tf", "gone"), One("tf", "m1"), One("zin", "v1")>>,
     <<One("n", "m1"), Save("n", "m1", "id"), One("nc", "r1"), One("nc", "m1")>>,
     <<Plain("default"), Save("n", "r1", "none"), One("n", "gone")>>}

Relevant(list, kind) ==
    list = <<>> \/ \E k \in DOMAIN list : list[k].directive \in DOMAIN SavesOf(kind)

\* The operating point below a transient is never written
Writes(kind) ==
    CASE kind \in {"op", "hb"} -> {<<TRUE>>, <<FALSE>>}
      [] kind = "tran" -> {<<FALSE, TRUE>>, <<FALSE, FALSE>>}
      [] OTHER -> {<<FALSE, TRUE>>, <<TRUE, TRUE>>}

Points == {<<With, Without, Other>>, <<With, With, Without>>, <<With, Other, With>>,
           <<Without, With>>}

\* Sweep variables and the circuits of the points; a name may be taken by
\* another sweep, a node or a column of the core
Swept ==
    {<< <<>>, <<With>> >>, << <<>>, <<Other>> >>} \cup ({<<"s">>} \X Points)
      \cup ({<<"s", "s">>, <<"s", "a">>, <<"frequency">>, <<"time">>} \X {<<With, Without>>})

MCRuns ==
    UNION {{[kind |-> kind, saves |-> saves, sweeps |-> swept[1], circuits |-> swept[2],
             strictsave |-> strictsave, strictoutput |-> strictoutput, write |-> write] :
                saves \in {list \in SaveLists : Relevant(list, kind)}, swept \in Swept,
                strictsave \in 0..2, strictoutput \in BOOLEAN, write \in Writes(kind)} :
            kind \in Kinds}
=============================================================================
