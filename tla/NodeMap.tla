------------------------------ MODULE NodeMap ------------------------------
(***************************************************************************)
(* How the circuit turns nodes into unknowns (lib/circuit.cpp).  Nodes are *)
(* ordered (nodeOrdering), get a temporary number each, are merged pair by *)
(* pair as the device instances ask for it (collapseNodes), and are then   *)
(* renumbered without gaps; every unknown finally gets a representative    *)
(* node, through which the diagonal of the Jacobian is created.            *)
(*                                                                         *)
(* elaborate() clears everything first; elaborateChanges() maps the same   *)
(* Circuit object again.                                                   *)
(*                                                                         *)
(* A definition named ..._Slip is the next one with a plausible mistake in *)
(* it; no action uses it.                                                  *)
(***************************************************************************)
EXTENDS Naturals, FiniteSets

CONSTANTS
    Nodes,      \* all node names that may exist, numbers in name order
    Ground,     \* the nodes created by addGround
    Internal,   \* the internal nodes of device instances
    NoNode,     \* the second node of a pair that collapses to ground
    Pairs,      \* the collapsible pairs the device instances declare
    NodeSets    \* the sets of nodes the hierarchy may hold beside ground

ASSUME NodeAssumption ==
    /\ Nodes \subseteq Nat
    /\ IsFiniteSet(Nodes)
    /\ Ground \subseteq Nodes
    /\ Ground # {}
    /\ Internal \subseteq Nodes \ Ground
    /\ NoNode \notin Nodes
    /\ Pairs \subseteq Nodes \X (Nodes \cup {NoNode})
    /\ NodeSets \subseteq SUBSET (Nodes \ Ground)

VARIABLES
    nodeMap,            \* the nodes the circuit holds
    pattern,            \* the pairs whose collapse the last setup asked for
    todo,               \* the pairs of pattern not collapsed yet
    unknownIndex,       \* Node::unknownIndex()
    unknownToReprNode,  \* unknown -> representative node
    unknownCount,       \* unknownCountExcludingGround
    diagonal,           \* diagonal entries added to the sparsity map
    remapped,           \* has the circuit been mapped again since clear()
    phase               \* where elaboration stands

vars == <<nodeMap, pattern, todo, unknownIndex, unknownToReprNode,
          unknownCount, diagonal, remapped, phase>>

Phases == {"changed", "collapsing", "mapped", "built"}

-----------------------------------------------------------------------------
(* The order of nodeOrdering(): ground nodes first, then by name.  *)
Before(a, b) ==
    \/ a \in Ground /\ b \notin Ground
    \/ (a \in Ground <=> b \in Ground) /\ a < b

First(S) == CHOOSE n \in S : \A m \in S \ {n} : Before(n, m)

\* The nodes of a pair exist (its instance was built).
Exists(p, N) == p[1] \in N /\ p[2] \in N \cup {NoNode}

\* The number a node gets before collapsing.
TemporaryIndex(n) ==
    IF n \in Ground
    THEN 0
    ELSE Cardinality({m \in nodeMap \ Ground : m < n}) + 1

\* The unknowns left after collapsing, and their numbers without gaps.
Present == {unknownIndex[n] : n \in nodeMap}

\* Slip: ground is not counted when the numbers are assigned.
NewUnknownIndex_Slip(i) == Cardinality({j \in Present \ {0} : j < i})

NewUnknownIndex(i) == Cardinality({j \in Present : j < i})

\* Slip: a pair without second node collapses nothing.
SecondUnknown_Slip(p) == unknownIndex[IF p[2] = NoNode THEN p[1] ELSE p[2]]

\* Unknown of the second node of a pair; no node stands for ground.
SecondUnknown(p) == IF p[2] = NoNode THEN 0 ELSE unknownIndex[p[2]]

\* unknownToNodes.equal_range(u): the multimap follows unknownIndex.
NodesOfUnknown(u) == {n \in nodeMap : unknownIndex[n] = u}

\* Result of the backward scan over nodeOrder for the unknown u whose nodes
\* are C.  unknownToReprNode was resized, not cleared: an entry of an earlier
\* mapping still counts as "existing node".  flagged are the nodes that read as
\* internal.
ScannedRepr(u, C, flagged) ==
    LET existing == IF u \in DOMAIN unknownToReprNode
                    THEN unknownToReprNode[u]
                    ELSE NoNode                         \* resize(.., nullptr)
    IN  IF C \ Internal # {}
        THEN First(C \ Internal)
        ELSE IF C = {} \/ existing \notin flagged \cup {NoNode}
             THEN existing
             ELSE First(C)

\* Slip: clear() leaves unknownToReprNode alone.
\* unknownToReprNode after clear().
ClearedReprNodes == <<>>

\* The unknowns the diagonal loop of buildSparsityAndStates() visits.
DiagonalUnknowns == 1 .. unknownCount

-----------------------------------------------------------------------------
Init ==
    /\ \E N \in NodeSets, P \in SUBSET Pairs :
          /\ nodeMap = N \cup Ground
          /\ pattern = {p \in P : Exists(p, N \cup Ground)}
    /\ todo = {}
    /\ unknownIndex = [n \in Nodes |-> 0]
    /\ unknownToReprNode = <<>>
    /\ unknownCount = 0
    /\ diagonal = {}
    /\ remapped = FALSE
    /\ phase = "changed"

\* Setup found another collapse pattern (unknownsChanged).
ChangePattern ==
    /\ phase = "built"
    /\ \E P \in SUBSET Pairs :
          /\ pattern' = {p \in P : Exists(p, nodeMap)}
          /\ pattern' # pattern
    /\ remapped' = TRUE
    /\ phase' = "changed"
    /\ UNCHANGED <<nodeMap, todo, unknownIndex, unknownToReprNode,
                   unknownCount, diagonal>>

\* A subcircuit was rebuilt (hierarchyChanged): nodes come and go.
ChangeHierarchy ==
    /\ phase = "built"
    /\ \E N \in NodeSets, P \in SUBSET Pairs :
          /\ nodeMap' = N \cup Ground
          /\ nodeMap' # nodeMap
          /\ pattern' = {p \in P : Exists(p, nodeMap')}
    /\ unknownIndex' = [n \in Nodes |-> IF n \in nodeMap THEN unknownIndex[n] ELSE 0]
    /\ remapped' = TRUE
    /\ phase' = "changed"
    /\ UNCHANGED <<todo, unknownToReprNode, unknownCount, diagonal>>

\* elaborate() clears the circuit and builds it anew.
Elaborate ==
    /\ phase = "built"
    /\ \E N \in NodeSets, P \in SUBSET Pairs :
          /\ nodeMap' = N \cup Ground
          /\ pattern' = {p \in P : Exists(p, nodeMap')}
    /\ unknownIndex' = [n \in Nodes |-> 0]
    /\ unknownToReprNode' = ClearedReprNodes
    /\ unknownCount' = 0
    /\ diagonal' = {}
    /\ remapped' = FALSE
    /\ phase' = "changed"
    /\ UNCHANGED todo

\* First half of mapUnknowns(): temporary numbers.
BeginMapping ==
    /\ phase = "changed"
    /\ unknownIndex' = [n \in Nodes |-> IF n \in nodeMap THEN TemporaryIndex(n)
                                        ELSE unknownIndex[n]]
    /\ todo' = pattern
    /\ phase' = "collapsing"
    /\ UNCHANGED <<nodeMap, pattern, unknownToReprNode, unknownCount, diagonal,
                   remapped>>

\* One call of collapseNodes(): the nodes of the larger unknown move to the
\* smaller one.
CollapseNodes(p) ==
    /\ phase = "collapsing"
    /\ p \in todo
    /\ LET u1 == unknownIndex[p[1]]
           u2 == SecondUnknown(p)
           lo == IF u1 < u2 THEN u1 ELSE u2
           hi == IF u1 < u2 THEN u2 ELSE u1
       IN  unknownIndex' = [n \in Nodes |-> IF n \in NodesOfUnknown(hi)
                                            THEN lo ELSE unknownIndex[n]]
    /\ todo' = todo \ {p}
    /\ UNCHANGED <<nodeMap, pattern, unknownToReprNode, unknownCount, diagonal,
                   remapped, phase>>

\* Second half of mapUnknowns(): renumbering and representatives.  What a
\* deleted node's memory says about its flags (freed) is anybody's guess.
FinishMapping ==
    /\ phase = "collapsing"
    /\ todo = {}
    /\ unknownIndex' = [n \in Nodes |-> IF n \in nodeMap
                                        THEN NewUnknownIndex(unknownIndex[n])
                                        ELSE unknownIndex[n]]
    /\ unknownCount' = Cardinality(Present) - 1
    /\ \E freed \in SUBSET (Nodes \ nodeMap) :
          unknownToReprNode' =
              [u \in 0 .. unknownCount' |->
                  ScannedRepr(u, {n \in nodeMap : unknownIndex'[n] = u},
                              freed \cup (Internal \cap nodeMap))]
    /\ phase' = "mapped"
    /\ UNCHANGED <<nodeMap, pattern, todo, diagonal, remapped>>

\* The last loop of buildSparsityAndStates(): one diagonal entry per unknown,
\* addressed through its representative; ground gets none.
BuildDiagonal ==
    /\ phase = "mapped"
    /\ diagonal' = {unknownIndex[unknownToReprNode[u]] : u \in DiagonalUnknowns} \ {0}
    /\ phase' = "built"
    /\ UNCHANGED <<nodeMap, pattern, todo, unknownIndex, unknownToReprNode,
                   unknownCount, remapped>>

Map ==
    \/ BeginMapping
    \/ \E p \in Pairs : CollapseNodes(p)
    \/ FinishMapping
    \/ BuildDiagonal

Next == Map \/ Elaborate \/ ChangePattern \/ ChangeHierarchy

Spec == Init /\ [][Next]_vars

-----------------------------------------------------------------------------
\* S is a union of nets: it splits no requested pair and not the ground.
Closed(S) ==
    /\ \A g, h \in Ground : g \in S => h \in S
    /\ \A p \in pattern :
          IF p[2] = NoNode
          THEN p[1] \in S <=> Ground \subseteq S
          ELSE p[1] \in S <=> p[2] \in S

\* The electrical meaning of collapsing: no net tells the two nodes apart.
Connected(a, b) == \A S \in SUBSET nodeMap : Closed(S) => (a \in S <=> b \in S)

\* Types of the variables; between mapping and the next change every unknown
\* has a representative (no null pointer in unknownToReprNode).
TypeOK ==
    /\ nodeMap \in SUBSET Nodes
    /\ pattern \in SUBSET Pairs
    /\ todo \in SUBSET Pairs
    /\ unknownIndex \in [Nodes -> Nat]
    /\ unknownCount \in Nat
    /\ diagonal \in SUBSET Nat
    /\ remapped \in BOOLEAN
    /\ phase \in Phases
    /\ \A u \in DOMAIN unknownToReprNode : unknownToReprNode[u] \in Nodes
    /\ phase \in {"mapped", "built"} => DOMAIN unknownToReprNode = 0 .. unknownCount

\* Two nodes share an unknown exactly when the collapses asked for by setup
\* connect them, whatever the order of the collapses and whatever was mapped
\* before (mapUnknowns, collapseNodes).
SharedExactlyWhenConnected ==
    phase \in {"mapped", "built"} =>
        \A a, b \in nodeMap : unknownIndex[a] = unknownIndex[b] <=> Connected(a, b)

\* While collapsing, nodes never share an unknown that setup did not connect.
NothingSharedByAccident ==
    phase = "collapsing" =>
        \A a, b \in nodeMap : unknownIndex[a] = unknownIndex[b] => Connected(a, b)

\* Unknown 0 is ground and nothing but what is connected to it; the others are
\* 1 .. unknownCount without gaps, so vectors of that length index every node.
NumberedWithoutGaps ==
    phase \in {"mapped", "built"} =>
        /\ \A n \in nodeMap : n \in Ground => unknownIndex[n] = 0
        /\ {unknownIndex[n] : n \in nodeMap} = 0 .. unknownCount

\* An unknown has its diagonal entry in the Jacobian if one of its nodes can be
\* named by the user, or if the circuit was elaborated from scratch.
DiagonalWhereNamed ==
    phase = "built" =>
        \A u \in 1 .. unknownCount :
            \/ ~remapped
            \/ \E n \in nodeMap \ Internal : unknownIndex[n] = u
            => u \in diagonal

\* A mapping step never gives up sharing: nodes that share an unknown go on
\* sharing it until the next change of the circuit.
CollapseOnlyMerges ==
    [][phase = "collapsing" =>
          \A a, b \in nodeMap :
              unknownIndex[a] = unknownIndex[b] => unknownIndex'[a] = unknownIndex'[b]]_vars
=============================================================================
