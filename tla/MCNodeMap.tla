----------------------------- MODULE MCNodeMap -----------------------------
(* Instance of MatrixAssembly: two ground nodes in the middle of the name    *)
(* order, an internal node before and one after the nodes the netlist names, *)
(* the flow nodes of sources and inductors (7 to 11) and the output of a     *)
(* delay (12).                                                               *)
EXTENDS MatrixAssembly

MCNodes == 1 .. 12
MCGround == {3, 6}
MCInternal == {1, 5} \cup 7 .. 12
MCPairs == {<<1, NoNode>>, <<1, 2>>, <<5, 4>>}
MCNodeSets == {{1, 2, 4, 7}, {2, 4, 5, 8}, {4, 7, 9, 10, 11, 12}}
MCShuntable == MCGround \cup {1, 2, 4, 5, 12}

\* An OSDI instance.
Osdi(at, jac, delays, internal) ==
    [kind |-> "osdi", at |-> at, jac |-> jac, delays |-> delays, internal |-> internal,
     noise |-> <<>>]

\* Noise sources between the first two nodes, one of each type.
Noisy(device, types) ==
    [device EXCEPT !.noise = [k \in DOMAIN types |-> [type |-> types[k], p |-> "p", n |-> "n"]]]

G(g) == [g |-> g, c |-> 0]
C(c) == [g |-> 0, c |-> c]

\* A conductance with a capacitance, between the nodes a and b.
Between(a, b, g, c) ==
    Osdi([p |-> a, n |-> b],
         (<<"p", "p">> :> [g |-> g, c |-> c]) @@ (<<"p", "n">> :> [g |-> -g, c |-> -c])
         @@ (<<"n", "p">> :> [g |-> -g, c |-> -c]) @@ (<<"n", "n">> :> [g |-> g, c |-> c]),
         <<>>, 0)

Inductor(a, b, flow, l) ==
    Osdi([p |-> a, n |-> b, f |-> flow],
         (<<"p", "f">> :> G(1)) @@ (<<"n", "f">> :> G(-1)) @@ (<<"f", "p">> :> G(1))
         @@ (<<"f", "n">> :> G(-1)) @@ (<<"f", "f">> :> C(-l)), <<>>, 1)

MCNetlist ==
    <<Noisy(Between(2, 4, 3, 0), <<"white", "flicker">>),
      Noisy(Between(2, 1, 2, 5), <<"flicker">>),
      Noisy(Between(4, 5, 7, 2), <<"white">>),
      [kind |-> "isource", at |-> [p |-> 4, n |-> 6], m |-> 2, dc |-> 3],
      [kind |-> "vccs", at |-> [p |-> 2, n |-> 4, cp |-> 1, cn |-> 3], m |-> 2, gain |-> 5],
      [kind |-> "vsource", at |-> [p |-> 4, n |-> 3, flow |-> 7], m |-> 1, dc |-> 4],
      [kind |-> "cccs", at |-> [p |-> 6, n |-> 4, ctl |-> 7], m |-> 2, gain |-> 3],
      [kind |-> "vcvs", at |-> [p |-> 2, n |-> 4, cp |-> 5, cn |-> 3, flow |-> 8],
                        m |-> 3, gain |-> 2],
      [kind |-> "ccvs", at |-> [p |-> 4, n |-> 6, ctl |-> 7, flow |-> 9], m |-> 1, gain |-> 4],
      Inductor(4, 6, 10, 3),
      Inductor(4, 3, 11, 5),
      [kind |-> "mutual", at |-> [flow1 |-> 10, flow2 |-> 11], mutual |-> 2],
      Osdi([p |-> 4, q |-> 4, z |-> 12], (<<"q", "z">> :> G(2)) @@ (<<"q", "q">> :> C(3)),
           <<[in |-> "p", out |-> "z"]>>, 0)>>

Name(n) == [type |-> "string", name |-> n]
Value(v) == [type |-> "number", value |-> v]

Ask(mode, wanted, strict, gshunt, noise) ==
    [mode |-> mode, strict |-> strict, gshunt |-> gshunt, noise |-> noise,
     items |-> FlattenSeq([i \in DOMAIN wanted |->
                  IF Len(wanted[i]) = 2
                  THEN <<Name(wanted[i][1]), Value(wanted[i][2])>>
                  ELSE <<Name(wanted[i][1]), Name(wanted[i][2]), Value(wanted[i][3])>>])]

MCRequests ==
    {Ask("op", <<<<2, 4, 2>>, <<4, 1>>, <<7, 2>>, <<3, 5, 2>>>>, TRUE, 0, "none"),
     Ask("ic", <<<<3, 2, 4>>, <<2, 5>>, <<4, 8, 1>>>>, FALSE, 1, "lagged"),
     Ask("uic", <<<<1, 2, 1>>, <<2, 4, 2>>, <<1, 4, 5>>, <<5, 3>>>>, TRUE, 0, "coupled")}

MCSolutions == {[u \in 1 .. 7 |-> 2 * u - 3], [u \in 1 .. 7 |-> 5 - u]}
MCNoiseValues == [white |-> <<3, -1>>, flicker |-> <<2, 5>>]
MCBuckets == {-9}
MCHistory == -1
=============================================================================
