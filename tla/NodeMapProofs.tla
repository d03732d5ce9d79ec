--------------------------- MODULE NodeMapProofs ---------------------------
(***************************************************************************)
(* Proofs about NodeMap and MatrixAssembly for every set of nodes and of   *)
(* collapsible pairs, every netlist and every list of nodesets.            *)
(* Main line: while the collapses are carried out, nodes that share an     *)
(* unknown are connected, and the pairs already carried out share one; when*)
(* no pair is left both directions hold, and renumbering, an injection of  *)
(* the unknowns left onto 0 .. unknownCount, keeps them.                   *)
(*                                                                         *)
(* The folds of the lists are unrolled into their partial results          *)
(* (FoldExists, FoldSteps), over which what a list asks for is followed    *)
(* from its items to requests and from requests to forces.                 *)
(***************************************************************************)
EXTENDS MatrixAssembly, FunctionTheorems, FiniteSetTheorems, WellFoundedInduction, TLAPS

-----------------------------------------------------------------------------
\* The position of i in a set of numbers P.
Rank(P, i) == Cardinality({j \in P : j < i})

\* Numbering the members of a finite set by position is one-to-one and leaves
\* no gaps: what mapUnknowns does to the unknowns left after collapsing.
LEMMA RankIsNumbering ==
    ASSUME NEW P \in SUBSET Nat, IsFiniteSet(P)
    PROVE  /\ Cardinality(P) \in Nat
           /\ \A i \in Nat : Rank(P, i) \in Nat
           /\ \A i, j \in P : Rank(P, i) = Rank(P, j) => i = j
           /\ \A i \in P : Rank(P, i) \in 0 .. Cardinality(P) - 1
           /\ {Rank(P, i) : i \in P} = 0 .. Cardinality(P) - 1
<1>0. \A i \in P : i \in Nat
  OBVIOUS
<1>1. Cardinality(P) \in Nat
  BY FS_CardinalityType
<1>2. ASSUME NEW i \in Nat
      PROVE  /\ IsFiniteSet({j \in P : j < i})
             /\ Rank(P, i) \in Nat
             /\ Rank(P, i) <= Cardinality(P)
  <2>1. {j \in P : j < i} \in SUBSET P
    OBVIOUS
  <2> QED
    BY <2>1, FS_Subset, FS_CardinalityType DEF Rank
<1>3. ASSUME NEW i \in P, NEW j \in Nat, i < j
      PROVE  Rank(P, i) < Rank(P, j)
  <2>1. {k \in P : k < i} \in SUBSET {k \in P : k < j}
    <3>1. ASSUME NEW k \in P, k < i
          PROVE  k < j
      <4>1. k \in Nat /\ i \in Nat
        BY <1>0
      <4> QED
        BY <4>1, <1>3, <3>1
    <3> QED
      BY <3>1
  <2>2. i \in {k \in P : k < j} /\ i \notin {k \in P : k < i}
    BY <1>0, <1>3
  <2>3. IsFiniteSet({k \in P : k < j})
    BY <1>2
  <2>4. /\ Cardinality({k \in P : k < i}) <= Cardinality({k \in P : k < j})
        /\ Cardinality({k \in P : k < i}) # Cardinality({k \in P : k < j})
    BY <2>1, <2>2, <2>3, FS_Subset
  <2>5. Rank(P, i) \in Nat /\ Rank(P, j) \in Nat
    BY <1>0, <1>2
  <2> QED
    BY <2>4, <2>5 DEF Rank
<1>4. ASSUME NEW i \in P, NEW j \in P, Rank(P, i) = Rank(P, j)
      PROVE  i = j
  <2>1. i \in Nat /\ j \in Nat /\ Rank(P, i) \in Nat /\ Rank(P, j) \in Nat
    BY <1>0, <1>2
  <2>2. ~(i < j)
    BY <2>1, <1>3, <1>4
  <2>3. ~(j < i)
    BY <2>1, <1>3, <1>4
  <2> QED
    BY <2>1, <2>2, <2>3
<1>5. ASSUME NEW i \in P
      PROVE  Rank(P, i) \in 0 .. Cardinality(P) - 1
  <2>1. {j \in P : j < i} \in SUBSET P
    OBVIOUS
  <2>2. i \notin {j \in P : j < i}
    BY <1>0
  <2>3. Cardinality({j \in P : j < i}) # Cardinality(P)
    BY <2>1, <2>2, FS_Subset
  <2>4. Rank(P, i) \in Nat /\ Rank(P, i) <= Cardinality(P) /\ Rank(P, i) # Cardinality(P)
    BY <1>0, <1>2, <2>3 DEF Rank
  <2> QED
    BY <2>4, <1>1
<1>6. {Rank(P, i) : i \in P} = 0 .. Cardinality(P) - 1
  <2>1. [i \in P |-> Rank(P, i)] \in Injection(P, 0 .. Cardinality(P) - 1)
    BY <1>4, <1>5 DEF Injection, IsInjective
  <2>2. IsFiniteSet(0 .. Cardinality(P) - 1)
    BY <1>1, FS_Interval
  <2>3. Cardinality(0 .. Cardinality(P) - 1) = Cardinality(P)
    <3>1. Cardinality(P) - 1 \in Int /\ 0 \in Int
      BY <1>1
    <3>2. Cardinality(0 .. Cardinality(P) - 1) =
             IF 0 > Cardinality(P) - 1 THEN 0 ELSE Cardinality(P) - 1 - 0 + 1
      BY <3>1, FS_Interval
    <3> QED
      BY <3>2, <1>1
  <2>4. [i \in P |-> Rank(P, i)] \in Surjection(P, 0 .. Cardinality(P) - 1)
    BY <2>1, <2>2, <2>3, FS_Injection
  <2>5. \A t \in 0 .. Cardinality(P) - 1 : \E i \in P : Rank(P, i) = t
    BY <2>4 DEF Surjection
  <2> QED
    BY <2>5, <1>5
<1> QED
  BY <1>1, <1>2, <1>4, <1>5, <1>6

\* A non-empty set of nodes has a first node in the order of nodeOrdering.
LEMMA FirstExists ==
    ASSUME NEW S \in SUBSET Nodes, S # {}
    PROVE  First(S) \in S
<1> DEFINE lowest(T) == \E n \in T : \A m \in T \ {n} : n < m
<1>1. ASSUME NEW T \in SUBSET Nodes, T # {}
      PROVE  lowest(T)
  <2>1. T \in SUBSET Nat /\ IsFiniteSet(T)
    BY NodeAssumption, FS_Subset
  <2>2. 0 \in 0 .. Cardinality(T) - 1
    <3>1. Cardinality(T) \in Nat /\ Cardinality(T) # 0
      BY <1>1, <2>1, FS_CardinalityType, FS_EmptySet
    <3> QED
      BY <3>1
  <2>3. PICK n \in T : Rank(T, n) = 0
    BY <2>1, <2>2, RankIsNumbering
  <2>4. {j \in T : j < n} = {}
    <3>1. {j \in T : j < n} \in SUBSET T
      OBVIOUS
    <3>2. IsFiniteSet({j \in T : j < n})
      BY <3>1, <2>1, FS_Subset
    <3> QED
      BY <3>2, <2>3, FS_EmptySet DEF Rank
  <2> QED
    BY <2>1, <2>4
<1>2. \E n \in S : \A m \in S \ {n} : Before(n, m)
  <2>1. CASE S \cap Ground # {}
    <3>1. PICK n \in S \cap Ground : \A m \in (S \cap Ground) \ {n} : n < m
      BY <2>1, <1>1
    <3> QED
      BY <3>1 DEF Before
  <2>2. CASE S \cap Ground = {}
    <3>1. PICK n \in S : \A m \in S \ {n} : n < m
      BY <1>1
    <3> QED
      BY <3>1, <2>2 DEF Before
  <2> QED
    BY <2>1, <2>2
<1> QED
  BY <1>2 DEF First
\* TemporaryIndex numbers the nodes that are not ground one by one from 1.
LEMMA TemporaryIsNumbering ==
    ASSUME nodeMap \in SUBSET Nodes
    PROVE  /\ \A n \in nodeMap : TemporaryIndex(n) \in Nat
           /\ \A n \in nodeMap : TemporaryIndex(n) = 0 <=> n \in Ground
           /\ \A a, b \in nodeMap \ Ground :
                 TemporaryIndex(a) = TemporaryIndex(b) => a = b
<1> DEFINE P == nodeMap \ Ground
<1>1. P \in SUBSET Nat /\ IsFiniteSet(P)
  BY NodeAssumption, FS_Subset
<1>2. \A n \in P : TemporaryIndex(n) = Rank(P, n) + 1
  BY DEF TemporaryIndex, Rank
<1>3. \A n \in nodeMap : n \in Ground => TemporaryIndex(n) = 0
  BY DEF TemporaryIndex
<1>4. /\ \A n \in P : Rank(P, n) \in Nat
      /\ \A a, b \in P : Rank(P, a) = Rank(P, b) => a = b
  BY <1>1, RankIsNumbering
<1> QED
  BY <1>2, <1>3, <1>4

-----------------------------------------------------------------------------
\* Being connected is an equivalence relation.
LEMMA ConnectedIsEquivalence ==
    /\ \A a \in nodeMap : Connected(a, a)
    /\ \A a, b \in nodeMap : Connected(a, b) => Connected(b, a)
    /\ \A a, b, c \in nodeMap : Connected(a, b) /\ Connected(b, c) => Connected(a, c)
  BY DEF Connected

\* The two nodes of a requested pair are connected, and so are all grounds.
LEMMA PairIsConnected ==
    ASSUME NEW p \in pattern
    PROVE  IF p[2] = NoNode
           THEN \A g \in Ground : Connected(p[1], g)
           ELSE Connected(p[1], p[2])
<1>1. ASSUME p[2] = NoNode, NEW g \in Ground, NEW S \in SUBSET nodeMap, Closed(S)
      PROVE  p[1] \in S <=> g \in S
  BY <1>1 DEF Closed
<1>2. ASSUME p[2] # NoNode, NEW S \in SUBSET nodeMap, Closed(S)
      PROVE  p[1] \in S <=> p[2] \in S
  BY <1>2 DEF Closed
<1> QED
  BY <1>1, <1>2 DEF Connected

LEMMA GroundIsConnected ==
    \A g, h \in Ground : Connected(g, h)
  BY DEF Connected, Closed

-----------------------------------------------------------------------------
\* The mapping agrees with the pairs collapsed so far.
Agrees(done) == \A p \in done : unknownIndex[p[1]] = SecondUnknown(p)

GroundIsZero == \A g \in Ground : unknownIndex[g] = 0

\* The inductive invariant: the circuit holds its grounds and the nodes of the
\* pairs; while collapsing, sharing is sound and complete for the pairs done.
IInv ==
    /\ TypeOK
    /\ Ground \subseteq nodeMap
    /\ \A p \in pattern : Exists(p, nodeMap)
    /\ todo \subseteq pattern
    /\ phase # "collapsing" => todo = {}
    /\ phase = "collapsing" => GroundIsZero /\ Agrees(pattern \ todo)
    /\ NothingSharedByAccident
    /\ SharedExactlyWhenConnected
    /\ NumberedWithoutGaps

LEMMA InitIInv == Init => IInv
<1> SUFFICES ASSUME Init
             PROVE  IInv
  OBVIOUS
<1>1. TypeOK
  <2>1. nodeMap \in SUBSET Nodes /\ pattern \in SUBSET Pairs
    BY NodeAssumption DEF Init
  <2>2. unknownIndex \in [Nodes -> Nat] /\ diagonal \in SUBSET Nat
    BY DEF Init
  <2>3. /\ todo \in SUBSET Pairs /\ unknownCount \in Nat
        /\ phase \in Phases /\ phase \notin {"mapped", "built"}
    BY DEF Init, Phases
  <2>4. remapped \in BOOLEAN
    BY DEF Init
  <2>5. \A u \in DOMAIN unknownToReprNode : unknownToReprNode[u] \in Nodes
    BY DEF Init
  <2> QED
    BY <2>1, <2>2, <2>3, <2>4, <2>5 DEF TypeOK
<1> QED
  BY <1>1, NodeAssumption DEF Init, IInv, NothingSharedByAccident,
        SharedExactlyWhenConnected, NumberedWithoutGaps

\* A mapping step that leaves the nodes and the pairs alone leaves the nets alone.
LEMMA ConnectedIsStable ==
    ASSUME UNCHANGED <<nodeMap, pattern>>
    PROVE  \A a, b : Connected(a, b)' <=> Connected(a, b)
  BY DEF Connected, Closed

LEMMA BeginStep == IInv /\ BeginMapping => IInv'
<1> SUFFICES ASSUME IInv, BeginMapping
             PROVE  IInv'
  OBVIOUS
<1> USE DEF IInv, BeginMapping
<1>1. nodeMap \in SUBSET Nodes /\ nodeMap' = nodeMap /\ pattern' = pattern
  BY DEF TypeOK
<1>2. /\ \A n \in nodeMap : unknownIndex'[n] = TemporaryIndex(n)
      /\ unknownIndex' \in [Nodes -> Nat]
  BY <1>1, TemporaryIsNumbering DEF TypeOK
<1>3. TypeOK'
  BY <1>2 DEF TypeOK, Phases
<1>4. GroundIsZero' /\ Agrees(pattern \ todo)'
  BY <1>1, <1>2, TemporaryIsNumbering DEF GroundIsZero, Agrees
<1>5. NothingSharedByAccident'
  <2> SUFFICES ASSUME NEW a \in nodeMap, NEW b \in nodeMap,
                      TemporaryIndex(a) = TemporaryIndex(b)
               PROVE  Connected(a, b)
    BY <1>1, <1>2, ConnectedIsStable DEF NothingSharedByAccident
  <2>1. CASE a \in Ground
    BY <2>1, <1>1, TemporaryIsNumbering, GroundIsConnected
  <2>2. CASE a \notin Ground
    <3>1. a = b
      BY <2>2, <1>1, TemporaryIsNumbering
    <3> QED
      BY <3>1, ConnectedIsEquivalence
  <2> QED
    BY <2>1, <2>2
<1>6. SharedExactlyWhenConnected' /\ NumberedWithoutGaps'
  BY DEF SharedExactlyWhenConnected, NumberedWithoutGaps
<1> QED
  BY <1>1, <1>3, <1>4, <1>5, <1>6 DEF Exists

LEMMA CollapseStep ==
    ASSUME NEW p \in Pairs, IInv, CollapseNodes(p)
    PROVE  IInv'
<1> USE DEF IInv
<1> DEFINE u1 == unknownIndex[p[1]]
           u2 == SecondUnknown(p)
           lo == IF u1 < u2 THEN u1 ELSE u2
           hi == IF u1 < u2 THEN u2 ELSE u1
<1>1. /\ nodeMap' = nodeMap /\ pattern' = pattern /\ phase' = phase
      /\ todo' = todo \ {p} /\ phase = "collapsing" /\ p \in pattern
      /\ unknownIndex' = [n \in Nodes |-> IF n \in nodeMap /\ unknownIndex[n] = hi
                                           THEN lo ELSE unknownIndex[n]]
  BY DEF CollapseNodes, NodesOfUnknown
<1>2. /\ nodeMap \in SUBSET Nodes /\ unknownIndex \in [Nodes -> Nat]
      /\ p[1] \in nodeMap /\ p[2] \in nodeMap \cup {NoNode}
      /\ Ground \subseteq nodeMap
  BY <1>1 DEF TypeOK, Exists
<1>3. /\ u1 \in Nat /\ u2 \in Nat /\ lo \in Nat /\ hi \in Nat /\ lo <= hi
      /\ {lo, hi} = {u1, u2}
  BY <1>2 DEF SecondUnknown
<1>4. TypeOK'
  <2>1. unknownIndex' \in [Nodes -> Nat]
    BY <1>1, <1>2, <1>3
  <2> QED
    BY <2>1, <1>1 DEF TypeOK, CollapseNodes
<1> HIDE DEF u1, u2, lo, hi
<1>5. \A n \in nodeMap : unknownIndex'[n] = IF unknownIndex[n] = hi THEN lo ELSE unknownIndex[n]
  BY <1>1, <1>2
<1>6. GroundIsZero'
  BY <1>1, <1>2, <1>3, <1>5 DEF GroundIsZero
<1>7. Agrees(pattern \ todo)'
  <2> SUFFICES ASSUME NEW q \in pattern, q \in (pattern \ todo) \/ q = p
               PROVE  unknownIndex'[q[1]] = SecondUnknown(q)'
    BY <1>1 DEF Agrees
  <2>1. q[1] \in nodeMap /\ q[2] \in nodeMap \cup {NoNode}
    BY DEF Exists
  <2>2. CASE q = p
    <3>1. unknownIndex'[p[1]] = lo
      BY <1>2, <1>3, <1>5 DEF u1
    <3>2. CASE p[2] = NoNode
      <4>1. u2 = 0
        BY <3>2 DEF u2, SecondUnknown
      <4>2. lo = 0
        BY <4>1, <1>3 DEF lo
      <4> QED
        BY <3>1, <3>2, <4>2, <2>2 DEF SecondUnknown
    <3>3. CASE p[2] # NoNode
      <4>1. u2 = unknownIndex[p[2]] /\ p[2] \in nodeMap
        BY <3>3, <1>2 DEF u2, SecondUnknown
      <4>2. unknownIndex'[p[2]] = lo
        BY <4>1, <1>3, <1>5
      <4> QED
        BY <3>1, <3>3, <4>2, <2>2 DEF SecondUnknown
    <3> QED
      BY <3>2, <3>3
  <2>3. CASE q \in pattern \ todo
    <3>1. unknownIndex[q[1]] = SecondUnknown(q)
      BY <2>3, <1>1 DEF Agrees
    <3>2. CASE q[2] = NoNode
      BY <3>1, <3>2, <2>1, <1>3, <1>5 DEF SecondUnknown
    <3>3. CASE q[2] # NoNode
      BY <3>1, <3>3, <2>1, <1>5 DEF SecondUnknown
    <3> QED
      BY <3>2, <3>3
  <2> QED
    BY <2>2, <2>3
<1>8. NothingSharedByAccident'
  <2> SUFFICES ASSUME NEW a \in nodeMap, NEW b \in nodeMap, unknownIndex'[a] = unknownIndex'[b]
               PROVE  Connected(a, b)
    BY <1>1, ConnectedIsStable DEF NothingSharedByAccident
  <2>1. \A m, n \in nodeMap : unknownIndex[m] = unknownIndex[n] => Connected(m, n)
    BY <1>1 DEF NothingSharedByAccident
  <2>2. \A m, n \in nodeMap : unknownIndex[m] = u1 /\ unknownIndex[n] = u2 => Connected(m, n)
    <3> SUFFICES ASSUME NEW m \in nodeMap, NEW n \in nodeMap,
                        unknownIndex[m] = u1, unknownIndex[n] = u2
                 PROVE  Connected(m, n)
      OBVIOUS
    <3>1. Connected(m, p[1])
      BY <2>1, <1>2 DEF u1
    <3>2. CASE p[2] = NoNode
      <4>1. PICK g \in Ground : TRUE
        BY NodeAssumption
      <4>2. Connected(p[1], g)
        BY <1>1, <3>2, PairIsConnected
      <4>3. Connected(g, n)
        BY <1>1, <1>2, <2>1, <3>2 DEF u2, SecondUnknown, GroundIsZero
      <4>4. g \in nodeMap
        BY <1>2
      <4> QED
        BY <1>2, <3>1, <4>2, <4>3, <4>4, ConnectedIsEquivalence
    <3>3. CASE p[2] # NoNode
      <4>1. Connected(p[1], p[2]) /\ p[2] \in nodeMap
        BY <1>1, <1>2, <3>3, PairIsConnected
      <4>2. Connected(p[2], n)
        BY <2>1, <3>3, <4>1 DEF u2, SecondUnknown
      <4> QED
        BY <1>2, <3>1, <4>1, <4>2, ConnectedIsEquivalence
    <3> QED
      BY <3>2, <3>3
  <2>3. \/ unknownIndex[a] = unknownIndex[b]
        \/ unknownIndex[a] = u1 /\ unknownIndex[b] = u2
        \/ unknownIndex[a] = u2 /\ unknownIndex[b] = u1
    BY <1>3, <1>5
  <2> QED
    BY <2>1, <2>2, <2>3, ConnectedIsEquivalence
<1>9. SharedExactlyWhenConnected' /\ NumberedWithoutGaps'
  BY <1>1 DEF SharedExactlyWhenConnected, NumberedWithoutGaps
<1> QED
  BY <1>1, <1>2, <1>4, <1>6, <1>7, <1>8, <1>9 DEF Exists

\* What renumbering does to the unknowns left after collapsing.
LEMMA Renumbering ==
    ASSUME IInv, FinishMapping
    PROVE  /\ unknownCount' \in Nat
           /\ \A n \in nodeMap : unknownIndex'[n] \in 0 .. unknownCount'
           /\ \A a, b \in nodeMap : unknownIndex'[a] = unknownIndex'[b] <=> unknownIndex[a] = unknownIndex[b]
           /\ \A n \in nodeMap : unknownIndex[n] = 0 => unknownIndex'[n] = 0
           /\ {unknownIndex'[n] : n \in nodeMap} = 0 .. unknownCount'
<1>1. /\ nodeMap \in SUBSET Nodes /\ Ground \subseteq nodeMap
      /\ unknownIndex \in [Nodes -> Nat] /\ GroundIsZero
  BY DEF IInv, TypeOK, FinishMapping
<1>2. IsFiniteSet(nodeMap)
  BY <1>1, NodeAssumption, FS_Subset
<1>3. Present \in SUBSET Nat /\ IsFiniteSet(Present)
  <2>1. [n \in nodeMap |-> unknownIndex[n]] \in Surjection(nodeMap, Present)
    BY DEF Present, Surjection
  <2> QED
    BY <2>1, <1>1, <1>2, FS_Surjection DEF Present
<1>4. \A n \in nodeMap : /\ unknownIndex[n] \in Present
                          /\ unknownIndex'[n] = Rank(Present, unknownIndex[n])
  BY <1>1 DEF FinishMapping, NewUnknownIndex, Rank, Present
<1>5. 0 \in Present
  <2>1. PICK g \in Ground : TRUE
    BY NodeAssumption
  <2> QED
    BY <2>1, <1>1, <1>4 DEF GroundIsZero
<1>6. Cardinality(Present) \in Nat /\ Cardinality(Present) # 0
  BY <1>3, <1>5, FS_EmptySet, FS_CardinalityType
<1>7. unknownCount' = Cardinality(Present) - 1 /\ unknownCount' \in Nat
  BY <1>6 DEF FinishMapping
<1>8. Rank(Present, 0) = 0
  <2>1. {j \in Present : j < 0} = {}
    <3>1. \A j \in Present : j \in Nat
      BY <1>3
    <3> QED
      BY <3>1
  <2> QED
    BY <2>1, FS_EmptySet DEF Rank
<1>9. {Rank(Present, i) : i \in Present} = 0 .. unknownCount'
  BY <1>3, <1>7, RankIsNumbering
<1>10. {unknownIndex'[n] : n \in nodeMap} = {Rank(Present, i) : i \in Present}
  BY <1>4 DEF Present
<1>11. \A i, j \in Present : Rank(Present, i) = Rank(Present, j) => i = j
  BY <1>3, RankIsNumbering
<1> QED
  BY <1>4, <1>7, <1>8, <1>9, <1>10, <1>11

LEMMA FinishStep == IInv /\ FinishMapping => IInv'
<1> SUFFICES ASSUME IInv, FinishMapping
             PROVE  IInv'
  OBVIOUS
<1>1. /\ nodeMap' = nodeMap /\ pattern' = pattern /\ todo' = todo /\ todo = {}
      /\ phase = "collapsing" /\ phase' = "mapped" /\ diagonal' = diagonal
      /\ nodeMap \in SUBSET Nodes /\ Ground \subseteq nodeMap
      /\ unknownIndex \in [Nodes -> Nat] /\ GroundIsZero /\ Agrees(pattern)
      /\ \A p \in pattern : Exists(p, nodeMap)
  BY DEF IInv, TypeOK, FinishMapping
<1>2. /\ unknownCount' \in Nat
      /\ \A n \in nodeMap : unknownIndex'[n] \in 0 .. unknownCount'
      /\ \A a, b \in nodeMap : unknownIndex'[a] = unknownIndex'[b] <=> unknownIndex[a] = unknownIndex[b]
      /\ \A n \in nodeMap : unknownIndex[n] = 0 => unknownIndex'[n] = 0
      /\ {unknownIndex'[n] : n \in nodeMap} = 0 .. unknownCount'
  BY Renumbering
<1>3. TypeOK'
  <2>1. unknownIndex' \in [Nodes -> Nat]
    <3>1. \A n \in Nodes : unknownIndex'[n] = IF n \in nodeMap THEN unknownIndex'[n] ELSE unknownIndex[n]
      BY DEF FinishMapping
    <3>2. \A n \in Nodes : unknownIndex'[n] \in Nat
      BY <3>1, <1>1, <1>2
    <3>3. unknownIndex' = [n \in Nodes |-> unknownIndex'[n]]
      BY DEF FinishMapping
    <3> QED
      BY <3>2, <3>3
  <2>2. PICK freed \in SUBSET (Nodes \ nodeMap) :
           unknownToReprNode' =
              [u \in 0 .. unknownCount' |->
                  ScannedRepr(u, {n \in nodeMap : unknownIndex'[n] = u},
                              freed \cup (Internal \cap nodeMap))]
    BY DEF FinishMapping
  <2>3. ASSUME NEW u \in 0 .. unknownCount'
        PROVE  unknownToReprNode'[u] \in Nodes
    <3> DEFINE C == {n \in nodeMap : unknownIndex'[n] = u}
    <3>1. C # {} /\ C \in SUBSET Nodes
      BY <1>1, <1>2
    <3>2. First(C) \in Nodes
      BY <3>1, FirstExists
    <3>3. C \ Internal # {} => First(C \ Internal) \in Nodes
      BY <3>1, FirstExists
    <3>4. u \in DOMAIN unknownToReprNode => unknownToReprNode[u] \in Nodes
      BY DEF IInv, TypeOK
    <3>5. unknownToReprNode'[u] = ScannedRepr(u, C, freed \cup (Internal \cap nodeMap))
      BY <2>2
    <3> QED
      BY <3>1, <3>2, <3>3, <3>4, <3>5, NodeAssumption DEF ScannedRepr
  <2>4. DOMAIN unknownToReprNode' = 0 .. unknownCount'
    BY <2>2
  <2>5. remapped' = remapped /\ diagonal' = diagonal
    BY DEF FinishMapping
  <2> QED
    BY <1>1, <1>2, <2>1, <2>3, <2>4, <2>5 DEF IInv, TypeOK, Phases
<1>4. NumberedWithoutGaps'
  BY <1>1, <1>2 DEF NumberedWithoutGaps, GroundIsZero
<1>5. ASSUME NEW a \in nodeMap, NEW b \in nodeMap, Connected(a, b)
      PROVE  unknownIndex[a] = unknownIndex[b]
  <2> DEFINE S == {n \in nodeMap : unknownIndex[n] = unknownIndex[a]}
  <2>1. Closed(S)
    <3>1. \A g, h \in Ground : g \in S => h \in S
      BY <1>1 DEF GroundIsZero
    <3>2. ASSUME NEW p \in pattern, p[2] = NoNode
          PROVE  p[1] \in S <=> Ground \subseteq S
      <4>1. p[1] \in nodeMap /\ unknownIndex[p[1]] = 0
        BY <1>1, <3>2 DEF Agrees, SecondUnknown, Exists
      <4> QED
        BY <4>1, <1>1, NodeAssumption DEF GroundIsZero
    <3>3. ASSUME NEW p \in pattern, p[2] # NoNode
          PROVE  p[1] \in S <=> p[2] \in S
      BY <1>1, <3>3 DEF Agrees, SecondUnknown, Exists
    <3> QED
      BY <3>1, <3>2, <3>3 DEF Closed
  <2>2. S \in SUBSET nodeMap /\ a \in S
    OBVIOUS
  <2>3. b \in S
    BY <1>5, <2>1, <2>2 DEF Connected
  <2> QED
    BY <2>3
<1>6. SharedExactlyWhenConnected'
  <2>1. \A a, b \in nodeMap : unknownIndex[a] = unknownIndex[b] => Connected(a, b)
    BY <1>1 DEF IInv, NothingSharedByAccident
  <2> QED
    BY <1>1, <1>2, <1>5, <2>1, ConnectedIsStable DEF SharedExactlyWhenConnected
<1>7. NothingSharedByAccident'
  BY <1>1 DEF NothingSharedByAccident
<1> QED
  BY <1>1, <1>3, <1>4, <1>6, <1>7 DEF IInv

LEMMA DiagonalStep == IInv /\ BuildDiagonal => IInv'
<1> SUFFICES ASSUME IInv, BuildDiagonal
             PROVE  IInv'
  OBVIOUS
<1> USE DEF IInv, BuildDiagonal
<1>1. diagonal' \in SUBSET Nat
  BY DEF TypeOK, DiagonalUnknowns
<1>2. TypeOK'
  BY <1>1 DEF TypeOK, Phases
<1>3. SharedExactlyWhenConnected'
  BY ConnectedIsStable DEF SharedExactlyWhenConnected
<1> QED
  BY <1>2, <1>3 DEF NothingSharedByAccident, NumberedWithoutGaps, Exists

LEMMA ChangeStep == IInv /\ (ChangePattern \/ ChangeHierarchy \/ Elaborate) => IInv'
<1> SUFFICES ASSUME IInv, ChangePattern \/ ChangeHierarchy \/ Elaborate
             PROVE  IInv'
  OBVIOUS
<1>1. /\ phase = "built" /\ phase' = "changed" /\ todo' = todo
      /\ Ground \subseteq nodeMap' /\ nodeMap' \in SUBSET Nodes
      /\ pattern' \in SUBSET Pairs
      /\ \A p \in pattern' : Exists(p, nodeMap')
  BY NodeAssumption DEF IInv, TypeOK, ChangePattern, ChangeHierarchy, Elaborate
<1>2. TypeOK'
  <2>1. CASE ChangePattern
    BY <1>1, <2>1 DEF IInv, TypeOK, Phases, ChangePattern
  <2>2. CASE ChangeHierarchy
    BY <1>1, <2>2 DEF IInv, TypeOK, Phases, ChangeHierarchy
  <2>3. CASE Elaborate
    BY <1>1, <2>3, SMTT(30) DEF IInv, TypeOK, Phases, Elaborate, ClearedReprNodes
  <2> QED
    BY <2>1, <2>2, <2>3
<1>3. todo' = {}
  BY <1>1 DEF IInv
<1> QED
  BY <1>1, <1>2, <1>3 DEF IInv, NothingSharedByAccident, SharedExactlyWhenConnected, NumberedWithoutGaps

LEMMA StutterStep == IInv /\ UNCHANGED vars => IInv'
<1> SUFFICES ASSUME IInv, UNCHANGED vars
             PROVE  IInv'
  OBVIOUS
<1>1. SharedExactlyWhenConnected' /\ NothingSharedByAccident'
  BY ConnectedIsStable DEF vars, IInv, SharedExactlyWhenConnected, NothingSharedByAccident
<1> QED
  BY <1>1 DEF vars, IInv, TypeOK, NumberedWithoutGaps, GroundIsZero, Agrees, SecondUnknown, Exists

-----------------------------------------------------------------------------
LEMMA Invariance == Spec => []IInv
<1>1. IInv /\ [Next]_vars => IInv'
  <2> SUFFICES ASSUME IInv, [Next]_vars
               PROVE  IInv'
    OBVIOUS
  <2>1. CASE \E p \in Pairs : CollapseNodes(p)
    BY <2>1, CollapseStep
  <2>2. CASE BeginMapping \/ FinishMapping \/ BuildDiagonal
    BY <2>2, BeginStep, FinishStep, DiagonalStep
  <2>3. CASE ChangePattern \/ ChangeHierarchy \/ Elaborate
    BY <2>3, ChangeStep
  <2>4. CASE UNCHANGED vars
    BY <2>4, StutterStep
  <2> QED
    BY <2>1, <2>2, <2>3, <2>4 DEF Next, Map
<1> QED
  BY InitIInv, <1>1, PTL DEF Spec

\* The variables keep their types, and every unknown of a mapped circuit has a
\* representative (mapUnknowns leaves no null pointer in unknownToReprNode).
THEOREM TypeCorrect == Spec => []TypeOK
<1>1. IInv => TypeOK
  BY DEF IInv
<1> QED
  BY Invariance, <1>1, PTL

\* Nodes share an unknown exactly when the collapses connect them, for every
\* circuit, every order of the collapses and every history of mappings.
THEOREM SharingIsConnection == Spec => []SharedExactlyWhenConnected
<1>1. IInv => SharedExactlyWhenConnected
  BY DEF IInv
<1> QED
  BY Invariance, <1>1, PTL

\* Unknowns are numbered 0 .. unknownCount, ground is 0.
THEOREM NumbersAreContiguous == Spec => []NumberedWithoutGaps
<1>1. IInv => NumberedWithoutGaps
  BY DEF IInv
<1> QED
  BY Invariance, <1>1, PTL

\* A mapping step only ever merges unknowns.
THEOREM MappingOnlyMerges == Spec => CollapseOnlyMerges
<1>1. ASSUME IInv, [Next]_vars, phase = "collapsing",
             NEW a \in nodeMap, NEW b \in nodeMap, unknownIndex[a] = unknownIndex[b]
      PROVE  unknownIndex'[a] = unknownIndex'[b]
  <2>1. nodeMap \in SUBSET Nodes
    BY <1>1 DEF IInv, TypeOK
  <2>2. CASE \E p \in Pairs : CollapseNodes(p)
    BY <1>1, <2>1, <2>2 DEF CollapseNodes, NodesOfUnknown
  <2>3. CASE FinishMapping
    BY <1>1, <2>3, Renumbering
  <2>4. CASE UNCHANGED vars
    BY <1>1, <2>4 DEF vars
  <2> QED
    BY <1>1, <2>2, <2>3, <2>4 DEF Next, Map, BeginMapping, BuildDiagonal,
          ChangePattern, ChangeHierarchy, Elaborate
<1>2. IInv /\ [Next]_vars =>
         [phase = "collapsing" =>
            \A a, b \in nodeMap :
                unknownIndex[a] = unknownIndex[b] => unknownIndex'[a] = unknownIndex'[b]]_vars
  BY <1>1
<1> QED
  BY Invariance, <1>2, PTL DEF Spec, CollapseOnlyMerges
-----------------------------------------------------------------------------
(* Representatives and the diagonal                                         *)

\* A node of unknown u has a name the netlist gives.
Named(u) == \E n \in nodeMap \ Internal : unknownIndex[n] = u

\* clear() leaves no representative of an earlier mapping. Otherwise a named unknown
\* has a named representative, one of internal nodes only may keep an earlier one.
Represented ==
    /\ phase \in {"changed", "collapsing"} /\ ~remapped => unknownToReprNode = <<>>
    /\ phase \in {"mapped", "built"} =>
          \A u \in 1 .. unknownCount :
             /\ ~remapped \/ Named(u) => unknownIndex[unknownToReprNode[u]] = u
             /\ Named(u) => unknownToReprNode[u] \in nodeMap \ Internal

LEMMA RepresentedStep == IInv /\ Represented /\ DiagonalWhereNamed /\ [Next]_vars
                            => Represented' /\ DiagonalWhereNamed'
<1> SUFFICES ASSUME IInv, Represented, DiagonalWhereNamed, [Next]_vars
             PROVE  Represented' /\ DiagonalWhereNamed'
  OBVIOUS
<1>1. CASE BeginMapping \/ \E p \in Pairs : CollapseNodes(p)
  BY <1>1 DEF BeginMapping, CollapseNodes, Represented, DiagonalWhereNamed
<1>2. CASE FinishMapping
  <2>1. /\ phase = "collapsing" /\ phase' = "mapped" /\ remapped' = remapped
        /\ nodeMap' = nodeMap /\ nodeMap \in SUBSET Nodes
    BY <1>2 DEF FinishMapping, IInv, TypeOK
  <2>2. PICK freed \in SUBSET (Nodes \ nodeMap) :
           unknownToReprNode' =
              [u \in 0 .. unknownCount' |->
                  ScannedRepr(u, {n \in nodeMap : unknownIndex'[n] = u},
                              freed \cup (Internal \cap nodeMap))]
    BY <1>2 DEF FinishMapping
  <2>3. ASSUME NEW u \in 1 .. unknownCount'
        PROVE  /\ ~remapped' \/ Named(u)' => unknownIndex'[unknownToReprNode'[u]] = u
               /\ Named(u)' => unknownToReprNode'[u] \in nodeMap' \ Internal
    <3> DEFINE C == {n \in nodeMap : unknownIndex'[n] = u}
    <3>1. unknownCount' \in Nat /\ {unknownIndex'[n] : n \in nodeMap} = 0 .. unknownCount'
      BY <1>2, Renumbering
    <3>2. C # {} /\ C \in SUBSET Nodes
      BY <2>1, <3>1
    <3>3. First(C) \in C /\ (C \ Internal # {} => First(C \ Internal) \in C \ Internal)
      BY <3>2, FirstExists
    <3>4. unknownToReprNode'[u] = ScannedRepr(u, C, freed \cup (Internal \cap nodeMap))
      BY <2>2, <3>1
    <3>5. Named(u)' <=> C \ Internal # {}
      BY <2>1 DEF Named
    <3>6. CASE C \ Internal # {}
      <4>1. unknownToReprNode'[u] = First(C \ Internal)
        BY <3>4, <3>6 DEF ScannedRepr
      <4> QED
        BY <2>1, <3>3, <3>6, <4>1
    <3>7. CASE C \ Internal = {} /\ ~remapped
      <4>1. unknownToReprNode = <<>>
        BY <2>1, <3>7 DEF Represented
      <4>2. u \notin DOMAIN unknownToReprNode
        BY <4>1
      <4>3. unknownToReprNode'[u] = First(C)
        BY <3>2, <3>4, <3>7, <4>2 DEF ScannedRepr
      <4> QED
        BY <3>3, <3>5, <3>7, <4>3
    <3> QED
      BY <2>1, <3>5, <3>6, <3>7
  <2> QED
    BY <2>1, <2>3 DEF Represented, DiagonalWhereNamed
<1>3. CASE BuildDiagonal
  <2>1. /\ phase = "mapped" /\ phase' = "built"
        /\ UNCHANGED <<nodeMap, unknownIndex, unknownToReprNode, unknownCount, remapped>>
        /\ diagonal' = {unknownIndex[unknownToReprNode[u]] : u \in 1 .. unknownCount} \ {0}
    BY <1>3 DEF BuildDiagonal, DiagonalUnknowns
  <2>2. Represented'
    BY <2>1 DEF Represented, Named
  <2>3. ASSUME NEW u \in 1 .. unknownCount, ~remapped \/ Named(u)
        PROVE  u \in diagonal'
    BY <2>1, <2>3 DEF Represented
  <2>4. DiagonalWhereNamed'
    BY <2>1, <2>3 DEF DiagonalWhereNamed, Named
  <2> QED
    BY <2>2, <2>4
<1>4. CASE ChangePattern \/ ChangeHierarchy \/ Elaborate
  BY <1>4 DEF ChangePattern, ChangeHierarchy, Elaborate, ClearedReprNodes, Represented, DiagonalWhereNamed
<1>5. CASE UNCHANGED vars
  BY <1>5 DEF vars, Represented, Named, DiagonalWhereNamed
<1> QED
  BY <1>1, <1>2, <1>3, <1>4, <1>5 DEF Next, Map

LEMMA RepresentedAlways == Spec => [](Represented /\ DiagonalWhereNamed)
<1>1. Init => Represented /\ DiagonalWhereNamed
  BY DEF Init, Represented, DiagonalWhereNamed
<1> QED
  BY <1>1, Invariance, RepresentedStep, PTL DEF Spec

\* The last loop of buildSparsityAndStates() makes the diagonal entry of every unknown
\* a node of the netlist has, and of every unknown when the circuit was cleared before.
THEOREM NamedHaveDiagonal == Spec => []DiagonalWhereNamed
  BY RepresentedAlways, PTL
-----------------------------------------------------------------------------
(* The assembly of the system is a circuit whose nodes are mapped            *)

\* The building of systems leaves the mapping alone, its other steps are those of the
\* mapping.
LEMMA AssemblyStepIsMapping == [AssemblyNext]_<<vars, assembly>> => [Next]_vars
<1> SUFFICES ASSUME [AssemblyNext]_<<vars, assembly>>
             PROVE  [Next]_vars
  OBVIOUS
<1>1. CASE ChangeCircuit
  BY <1>1 DEF ChangeCircuit, Next
<1>2. CASE BeginMapUnknowns \/ CollapsePair \/ FinishMapUnknowns \/ BuildSystem
  BY <1>2 DEF BeginMapUnknowns, CollapsePair, FinishMapUnknowns, BuildSystem, Next, Map
<1>3. CASE RebuildSystem \/ \E ask \in Requests : PreMapping(ask)
  BY <1>3 DEF RebuildSystem, PreMapping
<1>4. CASE RebuildOp \/ RebuildTran \/ SetInitialConditions \/ FinishAnalysis
  BY <1>4 DEF RebuildOp, RebuildTran, RebuildCores, SetInitialConditions, FinishAnalysis
<1>5. CASE \/ \E sol \in Solutions : LoadOp(sol)
           \/ \E sol \in Solutions, near \in BOOLEAN : LoadTran(sol, near)
  BY <1>5 DEF LoadOp, LoadTran
<1>6. CASE UNCHANGED <<vars, assembly>>
  BY <1>6
<1> QED
  BY <1>1, <1>2, <1>3, <1>4, <1>5, <1>6 DEF AssemblyNext

\* Whatever systems are built in between, nodes are mapped as NodeMap says: all its
\* theorems hold of the assembly.
THEOREM AssemblyMaps == AssemblySpec => Spec
<1>1. AssemblyInit => Init
  BY DEF AssemblyInit
<1> QED
  BY <1>1, AssemblyStepIsMapping, PTL DEF AssemblySpec, Spec
-----------------------------------------------------------------------------
(* Contributions to the equations                                            *)

\* The rows of RowsAt.
RowSet(u, rows) == UNION {{<<i, l>> : l \in {l \in rows[i] : Unknowns(i)[l] = u}} : i \in DOMAIN rows}

\* Every instance has finitely many rows.
LEMMA FewRows ==
    ASSUME NEW i \in DOMAIN Netlist
    PROVE  IsFiniteSet(ResistiveRows(Netlist[i])) /\ IsFiniteSet(ReactiveRows(Netlist[i]))
<1> DEFINE d == Netlist[i]
<1>1. ASSUME d.kind = "osdi", NEW E \in SUBSET DOMAIN d.jac
      PROVE  IsFiniteSet({e[1] : e \in E})
  <2>1. IsFiniteSet(E)
    BY <1>1, NetlistAssumption, FS_Subset
  <2>2. [e \in E |-> e[1]] \in Surjection(E, {e[1] : e \in E})
    BY DEF Surjection
  <2> QED
    BY <2>1, <2>2, FS_Surjection
<1>2. IsFiniteSet({}) /\ IsFiniteSet({"p", "n"}) /\ IsFiniteSet({"flow1", "flow2"})
  <2>1. \A x, y : IsFiniteSet({x, y})
    <3> SUFFICES ASSUME NEW x, NEW y
                 PROVE  IsFiniteSet({x, y})
      OBVIOUS
    <3>1. IsFiniteSet({} \cup {x})
      BY FS_EmptySet, FS_AddElement
    <3>2. {x, y} = ({} \cup {x}) \cup {y}
      OBVIOUS
    <3> QED
      BY <3>1, <3>2, FS_AddElement
  <2> QED
    BY <2>1, FS_EmptySet
<1>3. IsFiniteSet({"p", "n", "flow"})
  <2>1. {"p", "n", "flow"} = {"p", "n"} \cup {"flow"}
    OBVIOUS
  <2> QED
    BY <1>2, <2>1, FS_AddElement
<1>4. CASE d.kind = "osdi"
  <2>1. /\ ResistiveRows(d) = {e[1] : e \in {e \in DOMAIN d.jac : d.jac[e].g # 0}}
        /\ ReactiveRows(d) = {e[1] : e \in {e \in DOMAIN d.jac : d.jac[e].c # 0}}
    BY <1>4 DEF ResistiveRows, ReactiveRows
  <2> QED
    BY <1>1, <1>4, <2>1
<1>5. CASE d.kind # "osdi"
  <2>1. ResistiveRows(d) \in {{}, {"p", "n"}, {"p", "n", "flow"}}
    BY <1>5 DEF ResistiveRows
  <2>2. ReactiveRows(d) \in {{}, {"flow1", "flow2"}}
    BY <1>5 DEF ReactiveRows
  <2> QED
    BY <1>2, <1>3, <2>1, <2>2
<1> QED
  BY <1>4, <1>5

LEMMA RowsAreFinite ==
    ASSUME NEW rows, NEW u, DOMAIN rows \subseteq DOMAIN Netlist, \A i \in DOMAIN rows : IsFiniteSet(rows[i])
    PROVE  /\ IsFiniteSet(RowSet(u, rows))
           /\ RowsAt(u, rows) = Cardinality(RowSet(u, rows))
           /\ RowsAt(u, rows) \in Nat
<1> DEFINE F == [i \in DOMAIN rows |-> {<<i, l>> : l \in {l \in rows[i] : Unknowns(i)[l] = u}}]
           S == {F[i] : i \in DOMAIN rows}
<1>1. IsFiniteSet(DOMAIN rows)
  BY NetlistAssumption, FS_Subset
<1>2. ASSUME NEW i \in DOMAIN rows
      PROVE  IsFiniteSet(F[i])
  <2> DEFINE R == {l \in rows[i] : Unknowns(i)[l] = u}
  <2>1. IsFiniteSet(rows[i]) /\ R \in SUBSET rows[i]
    OBVIOUS
  <2>2. IsFiniteSet(R)
    BY <2>1, FS_Subset
  <2>3. [l \in R |-> <<i, l>>] \in Surjection(R, F[i])
    BY DEF Surjection
  <2> QED
    BY <2>2, <2>3, FS_Surjection
<1>3. IsFiniteSet(S)
  <2>1. F \in Surjection(DOMAIN rows, S)
    BY DEF Surjection
  <2> QED
    BY <1>1, <2>1, FS_Surjection
<1>4. IsFiniteSet(UNION S)
  BY <1>2, <1>3, FS_UNION
<1>5. RowSet(u, rows) = UNION S
  BY DEF RowSet
<1>6. RowsAt(u, rows) = Cardinality(RowSet(u, rows))
  BY DEF RowsAt, RowSet
<1> QED
  BY <1>4, <1>5, <1>6, FS_CardinalityType

\* A count that stops at two still tells nothing, one and more apart.
LEMMA SaturatedIs ==
    ASSUME NEW c \in Nat, NEW n \in Nat
    PROVE  Saturated(c, n) = IF c + n < 2 THEN c + n ELSE 2
<1>1. CASE c + n < 2
  <2>1. \A y \in {2, c + n} : c + n <= y
    BY <1>1
  <2>2. \A x \in {2, c + n} : (\A y \in {2, c + n} : x <= y) => x = c + n
    BY <1>1
  <2> QED
    BY <1>1, <2>1, <2>2 DEF Saturated, Min
<1>2. CASE ~(c + n < 2)
  <2>1. \A y \in {2, c + n} : 2 <= y
    BY <1>2
  <2>2. \A x \in {2, c + n} : (\A y \in {2, c + n} : x <= y) => x = 2
    BY <1>2
  <2> QED
    BY <1>2, <2>1, <2>2 DEF Saturated, Min
<1> QED
  BY <1>1, <1>2
\* What counts towards the equation of unknown u: the resistive rows, the reactive ones
\* without and with the mutual inductances, and these alone.
Statics(u) == RowsAt(u, [i \in Devices |-> ResistiveRows(Netlist[i])])
Uncoupleds(u) == RowsAt(u, [i \in Devices \ Coupled |-> ReactiveRows(Netlist[i])])
Dynamics(u) == RowsAt(u, [i \in Devices |-> ReactiveRows(Netlist[i])])
Mutuals(u) == RowsAt(u, [i \in Coupled |-> ReactiveRows(Netlist[i])])

LEMMA RowCounts ==
    ASSUME NEW u
    PROVE  /\ Statics(u) \in Nat /\ Uncoupleds(u) \in Nat /\ Dynamics(u) \in Nat /\ Mutuals(u) \in Nat
           /\ Dynamics(u) <= Uncoupleds(u) + Mutuals(u)
<1> DEFINE reactive(D) == [i \in D |-> ReactiveRows(Netlist[i])]
<1>1. Devices \subseteq DOMAIN Netlist /\ Coupled \subseteq Devices
  BY DEF Devices, Coupled
<1>2. Statics(u) \in Nat
  <2> DEFINE rows == [i \in Devices |-> ResistiveRows(Netlist[i])]
  <2>1. DOMAIN rows \subseteq DOMAIN Netlist /\ \A i \in DOMAIN rows : IsFiniteSet(rows[i])
    BY <1>1, FewRows
  <2> HIDE DEF rows
  <2>2. RowsAt(u, rows) \in Nat
    BY <2>1, RowsAreFinite
  <2> QED
    BY <2>2 DEF rows, Statics
<1>3. ASSUME NEW D \in SUBSET Devices
      PROVE  /\ IsFiniteSet(RowSet(u, reactive(D)))
             /\ RowsAt(u, reactive(D)) = Cardinality(RowSet(u, reactive(D)))
             /\ RowsAt(u, reactive(D)) \in Nat
  <2> DEFINE rows == reactive(D)
  <2>1. DOMAIN rows \subseteq DOMAIN Netlist /\ \A i \in DOMAIN rows : IsFiniteSet(rows[i])
    BY <1>1, FewRows
  <2> HIDE DEF rows
  <2>2. /\ IsFiniteSet(RowSet(u, rows))
        /\ RowsAt(u, rows) = Cardinality(RowSet(u, rows))
        /\ RowsAt(u, rows) \in Nat
    BY <2>1, RowsAreFinite
  <2> QED
    BY <2>2 DEF rows
<1> DEFINE A == RowSet(u, reactive(Devices \ Coupled))
           B == RowSet(u, reactive(Coupled))
<1>4. RowSet(u, reactive(Devices)) = A \cup B
  BY <1>1 DEF RowSet
<1>5. IsFiniteSet(A) /\ IsFiniteSet(B)
  BY <1>1, <1>3
<1>6. Cardinality(A \cup B) <= Cardinality(A) + Cardinality(B)
  <2> HIDE DEF A, B
  <2>1. Cardinality(A \cup B) = Cardinality(A) + Cardinality(B) - Cardinality(A \cap B)
    BY <1>5, FS_Union
  <2>2. IsFiniteSet(A \cap B)
    <3>1. A \cap B \in SUBSET A
      OBVIOUS
    <3> QED
      BY <1>5, <3>1, FS_Subset
  <2>3. Cardinality(A) \in Nat /\ Cardinality(B) \in Nat /\ Cardinality(A \cap B) \in Nat
    BY <1>5, <2>2, FS_CardinalityType
  <2> QED
    BY <2>1, <2>3
<1>7. /\ Uncoupleds(u) \in Nat /\ Uncoupleds(u) = Cardinality(A)
      /\ Mutuals(u) \in Nat /\ Mutuals(u) = Cardinality(B)
      /\ Dynamics(u) \in Nat /\ Dynamics(u) = Cardinality(A \cup B)
  BY <1>1, <1>3, <1>4 DEF Uncoupleds, Mutuals, Dynamics
<1> HIDE DEF A, B
<1> QED
  BY <1>2, <1>6, <1>7
LEMMA RowCountsStay ==
    ASSUME UNCHANGED <<nodeMap, unknownIndex>>, NEW u
    PROVE  /\ Statics(u)' = Statics(u) /\ Uncoupleds(u)' = Uncoupleds(u)
           /\ Dynamics(u)' = Dynamics(u) /\ Mutuals(u)' = Mutuals(u)
<1>1. Devices' = Devices /\ Coupled' = Coupled /\ \A i : Unknowns(i)' = Unknowns(i)
  BY DEF Devices, Coupled, Unknowns
<1>2. \A rows : RowsAt(u, rows)' = RowsAt(u, rows)
  BY <1>1 DEF RowsAt
<1> QED
  BY <1>1, <1>2 DEF Statics, Uncoupleds, Dynamics, Mutuals

\* The contributions of a mapped circuit, and that they tell as many as there are rows, up
\* to two.
Counts == [0 .. unknownCount -> [resistive : Nat, reactive : Nat]]
Tells(count, rows) == (rows > 0 => count > 0) /\ (rows > 1 => count > 1)
AllTold(counts) == \A u \in 0 .. unknownCount : /\ Tells(counts[u].resistive, Statics(u))
                                                /\ Tells(counts[u].reactive, Uncoupleds(u))

LEMMA SaturatedTells ==
    ASSUME NEW c \in Nat, NEW n \in Nat
    PROVE  Saturated(c, n) \in Nat /\ Tells(Saturated(c, n), n) /\ Tells(Saturated(c, n), c)
  BY SaturatedIs DEF Tells

LEMMA CountedTells ==
    ASSUME contributions \in Counts
    PROVE  Counted(contributions) \in Counts /\ AllTold(Counted(contributions))
<1>1. ASSUME NEW u \in 0 .. unknownCount
      PROVE  LET c == Counted(contributions)[u] IN
             /\ c \in [resistive : Nat, reactive : Nat]
             /\ Tells(c.resistive, Statics(u)) /\ Tells(c.reactive, Uncoupleds(u))
  <2> DEFINE c == contributions[u]
  <2>1. c.resistive \in Nat /\ c.reactive \in Nat
    BY DEF Counts
  <2>2. Statics(u) \in Nat /\ Uncoupleds(u) \in Nat
    BY RowCounts
  <2>3. Counted(contributions)[u] = [resistive |-> Saturated(c.resistive, Statics(u)),
                                     reactive |-> Saturated(c.reactive, Uncoupleds(u))]
    BY DEF Counted, Statics, Uncoupleds
  <2>4. /\ Saturated(c.resistive, Statics(u)) \in Nat /\ Tells(Saturated(c.resistive, Statics(u)), Statics(u))
        /\ Saturated(c.reactive, Uncoupleds(u)) \in Nat /\ Tells(Saturated(c.reactive, Uncoupleds(u)), Uncoupleds(u))
    BY <2>1, <2>2, SaturatedTells
  <2> QED
    BY <2>3, <2>4
<1>2. Counted(contributions) = [u \in 0 .. unknownCount |-> Counted(contributions)[u]]
  BY DEF Counted
<1> QED
  BY <1>1, <1>2 DEF Counts, AllTold

\* Binding only adds, at least every row of a mutual inductance.
LEMMA BoundTells ==
    ASSUME contributions \in Counts, NEW times \in {1, 2}
    PROVE  LET c == CountedAtBind(contributions, times) IN
           /\ c \in Counts
           /\ AllTold(contributions) => AllTold(c)
           /\ \A u \in 0 .. unknownCount :
                 /\ c[u].resistive = contributions[u].resistive
                 /\ c[u].reactive = Saturated(contributions[u].reactive, times * Mutuals(u))
<1> DEFINE c == CountedAtBind(contributions, times)
<1>1. c = [u \in 0 .. unknownCount |->
             [contributions[u] EXCEPT !.reactive = Saturated(@, times * Mutuals(u))]]
  BY DEF Counts, CountedAtBind, Mutuals
<1>2. ASSUME NEW u \in 0 .. unknownCount
      PROVE  /\ c[u] \in [resistive : Nat, reactive : Nat]
             /\ c[u].resistive = contributions[u].resistive
             /\ c[u].reactive = Saturated(contributions[u].reactive, times * Mutuals(u))
             /\ Tells(c[u].reactive, contributions[u].reactive)
  <2>1. contributions[u] \in [resistive : Nat, reactive : Nat] /\ contributions[u].reactive \in Nat
    BY DEF Counts
  <2>2. times * Mutuals(u) \in Nat
    <3>1. Mutuals(u) \in Nat
      BY RowCounts
    <3> QED
      BY <3>1
  <2>3. c[u] = [contributions[u] EXCEPT !.reactive = Saturated(contributions[u].reactive, times * Mutuals(u))]
    BY <1>1
  <2>4. /\ Saturated(contributions[u].reactive, times * Mutuals(u)) \in Nat
        /\ Tells(Saturated(contributions[u].reactive, times * Mutuals(u)), contributions[u].reactive)
    BY <2>1, <2>2, SaturatedTells
  <2> QED
    BY <2>1, <2>3, <2>4
<1>3. c \in Counts
  BY <1>1, <1>2 DEF Counts
<1>4. ASSUME AllTold(contributions), NEW u \in 0 .. unknownCount
      PROVE  Tells(c[u].resistive, Statics(u)) /\ Tells(c[u].reactive, Uncoupleds(u))
  <2>1. Uncoupleds(u) \in Nat /\ contributions[u].reactive \in Nat /\ c[u].reactive \in Nat
    BY <1>2, RowCounts DEF Counts
  <2>2. Tells(contributions[u].resistive, Statics(u)) /\ Tells(contributions[u].reactive, Uncoupleds(u))
    BY <1>4 DEF AllTold
  <2>3. c[u].resistive = contributions[u].resistive /\ Tells(c[u].reactive, contributions[u].reactive)
    BY <1>2
  <2> HIDE DEF c
  <2> QED
    BY <2>1, <2>2, <2>3 DEF Tells
<1> QED
  BY <1>2, <1>3, <1>4 DEF AllTold
\* An analysis that was bound to the circuit keeps it as it is, and its contributions were
\* counted.
AssemblyInv ==
    /\ "stage" \in DOMAIN run
    /\ run.stage \in {"ready", "bound", "loaded", "uic"} => phase = "built"
    /\ phase \in {"mapped", "built"} => contributions \in Counts
    /\ phase = "built" => AllTold(contributions)
    /\ SharedEquationsAreChecked

LEMMA StaysAssembled ==
    ASSUME AssemblyInv, UNCHANGED <<vars, contributions>>, "stage" \in DOMAIN run',
           run'.stage \in {"ready", "bound", "loaded", "uic"} => phase = "built",
           run'.stage = "bound" => run.stage = "bound" /\ bound' = bound
    PROVE  AssemblyInv'
<1>1. UNCHANGED <<nodeMap, unknownIndex, unknownCount, phase, contributions>>
  BY DEF vars
<1>2. Counts' = Counts /\ (AllTold(contributions) => AllTold(contributions)')
  BY <1>1, RowCountsStay DEF Counts, AllTold
<1>3. SharedEquationsAreChecked'
  <2> SUFFICES ASSUME run'.stage = "bound"
               PROVE  SharedEquationsAreChecked'
    BY DEF SharedEquationsAreChecked
  <2>1. \A u : Statics(u)' = Statics(u) /\ Dynamics(u)' = Dynamics(u)
    BY <1>1, RowCountsStay
  <2> QED
    BY <1>1, <2>1 DEF AssemblyInv, SharedEquationsAreChecked, Statics, Dynamics
<1> QED
  BY <1>1, <1>2, <1>3 DEF AssemblyInv

\* What rebuildCores() decides is checked.
LEMMA SharedAreChecked ==
    ASSUME contributions \in Counts, AllTold(contributions), Represented, phase = "built",
           NEW loose \in {{}, Nodes}, NEW u \in 1 .. unknownCount, unknownCount \in Nat, Named(u)
    PROVE  LET checkable == Checkable(ReprIn(Internal, loose)) IN
           /\ Statics(u) > 1 => u \in checkable.op
           /\ Statics(u) + Dynamics(u) > 1 => u \in checkable.tran
<1> DEFINE c == CountedAtBind(contributions, 1)
<1>1. u \in 0 .. unknownCount
  OBVIOUS
<1>2. u \notin ReprIn(Internal, loose)
  BY DEF Represented, ReprIn
<1>3. /\ c \in Counts /\ AllTold(c)
      /\ c[u].reactive = Saturated(contributions[u].reactive, 1 * Mutuals(u))
  BY <1>1, BoundTells
<1>4. /\ c[u].resistive \in Nat /\ c[u].reactive \in Nat /\ contributions[u].reactive \in Nat
      /\ Tells(c[u].resistive, Statics(u)) /\ Tells(contributions[u].reactive, Uncoupleds(u))
  BY <1>1, <1>3 DEF Counts, AllTold
<1>5. /\ Statics(u) \in Nat /\ Uncoupleds(u) \in Nat /\ Dynamics(u) \in Nat /\ Mutuals(u) \in Nat
      /\ Dynamics(u) <= Uncoupleds(u) + Mutuals(u)
  BY RowCounts
<1> DEFINE before == contributions[u].reactive
           reactive == c[u].reactive
           resistive == c[u].resistive
<1>6. reactive = IF before + Mutuals(u) < 2 THEN before + Mutuals(u) ELSE 2
  <2>1. 1 * Mutuals(u) = Mutuals(u)
    BY <1>5
  <2> QED
    BY <1>3, <1>4, <1>5, <2>1, SaturatedIs
<1>7. /\ u \in Checkable(ReprIn(Internal, loose)).op <=> resistive > 1
      /\ u \in Checkable(ReprIn(Internal, loose)).tran <=> resistive + reactive > 1
  BY <1>2 DEF Checkable
<1>8. /\ Statics(u) > 1 => resistive > 1
      /\ Statics(u) + Dynamics(u) > 1 => resistive + reactive > 1
  <2> HIDE DEF before, reactive, resistive
  <2>1. before \in Nat /\ reactive \in Nat /\ resistive \in Nat
    BY <1>4 DEF before, reactive, resistive
  <2>2. Tells(resistive, Statics(u)) /\ Tells(before, Uncoupleds(u))
    BY <1>4 DEF before, resistive
  <2> QED
    BY <1>5, <1>6, <2>1, <2>2 DEF Tells
<1> HIDE DEF reactive, resistive
<1> QED
  BY <1>7, <1>8
LEMMA CheckableBound ==
    ASSUME NEW F, NEW loose
    PROVE  BoundSystem(F, loose).checkable = Checkable(ReprIn(Internal, loose))
  BY DEF BoundSystem

LEMMA RebuildStep ==
    ASSUME IInv, Represented, AssemblyInv, NEW binds \in {1, 2}, RebuildCores(binds)
    PROVE  AssemblyInv'
<1>1. /\ phase = "built" /\ run.stage = "ready" /\ "stage" \in DOMAIN run
      /\ UNCHANGED <<nodeMap, unknownIndex, unknownCount, phase, vars>>
      /\ contributions' = CountedAtBind(contributions, binds)
      /\ contributions \in Counts /\ AllTold(contributions) /\ unknownCount \in Nat
  BY DEF RebuildCores, AssemblyInv, vars, IInv, TypeOK
<1>2. contributions' \in Counts' /\ AllTold(contributions)'
  <2>1. contributions' \in Counts /\ AllTold(contributions')
    BY <1>1, BoundTells
  <2> QED
    BY <1>1, <2>1, RowCountsStay DEF Counts, AllTold
<1>3. CASE run' = Idle
  BY <1>1, <1>2, <1>3 DEF Idle, AssemblyInv, SharedEquationsAreChecked
<1>4. CASE run' = [run EXCEPT !.stage = "bound"] /\ \E F : \E loose \in {{}, Nodes} : bound' = BoundSystem(F, loose)
  <2>1. PICK F : \E loose \in {{}, Nodes} : bound' = BoundSystem(F, loose)
    BY <1>4
  <2>2. PICK loose \in {{}, Nodes} : bound' = BoundSystem(F, loose)
    BY <2>1
  <2>3. bound'.checkable = Checkable(ReprIn(Internal, loose))
    BY <2>2, CheckableBound
  <2>4. ASSUME NEW u \in 1 .. unknownCount, Named(u)
        PROVE  /\ Statics(u) > 1 => u \in bound'.checkable.op
               /\ Statics(u) + Dynamics(u) > 1 => u \in bound'.checkable.tran
    BY <1>1, <2>3, <2>4, SharedAreChecked
  <2>5. \A u : Statics(u)' = Statics(u) /\ Dynamics(u)' = Dynamics(u)
    BY <1>1, RowCountsStay
  <2>6. SharedEquationsAreChecked'
    BY <1>1, <2>4, <2>5 DEF SharedEquationsAreChecked, Statics, Dynamics, Named
  <2>7. run'.stage = "bound" /\ "stage" \in DOMAIN run'
    BY <1>1, <1>4
  <2> QED
    BY <1>1, <1>2, <2>6, <2>7 DEF AssemblyInv
<1> QED
  BY <1>3, <1>4 DEF RebuildCores

\* populateStructures() on a circuit that is mapped.
LEMMA PopulateStep ==
    ASSUME AssemblyInv, Populate(contributions), phase \in {"mapped", "built"}, phase' = "built",
           UNCHANGED <<nodeMap, unknownIndex, unknownCount>>,
           run.stage \notin {"bound"}
    PROVE  AssemblyInv'
<1>1. contributions \in Counts
  BY DEF AssemblyInv
<1>2. contributions' \in Counts /\ AllTold(contributions')
  BY <1>1, CountedTells DEF Populate
<1>3. contributions' \in Counts' /\ AllTold(contributions)'
  BY <1>2, RowCountsStay DEF Counts, AllTold
<1>4. "stage" \in DOMAIN run' /\ run'.stage # "bound"
  BY DEF Populate, AssemblyInv
<1> QED
  BY <1>3, <1>4 DEF AssemblyInv, SharedEquationsAreChecked

LEMMA AssemblyStep == IInv /\ Represented /\ AssemblyInv /\ [AssemblyNext]_<<vars, assembly>> => AssemblyInv'
<1> SUFFICES ASSUME IInv, Represented, AssemblyInv, [AssemblyNext]_<<vars, assembly>>
             PROVE  AssemblyInv'
  OBVIOUS
<1>1. CASE ChangeCircuit
  <2>1. phase' = "changed" /\ run' = run /\ run.stage = "idle"
    BY <1>1 DEF ChangeCircuit, ChangePattern, ChangeHierarchy, Elaborate, assembly
  <2> QED
    BY <2>1 DEF AssemblyInv, SharedEquationsAreChecked
<1>2. CASE BeginMapUnknowns
  <2>1. phase = "changed" /\ phase' = "collapsing" /\ run' = run
    BY <1>2 DEF BeginMapUnknowns, BeginMapping
  <2> QED
    BY <2>1 DEF AssemblyInv, SharedEquationsAreChecked
<1>3. CASE CollapsePair
  <2>1. phase = "collapsing" /\ phase' = "collapsing" /\ run' = run
    BY <1>3 DEF CollapsePair, CollapseNodes, assembly
  <2> QED
    BY <2>1 DEF AssemblyInv, SharedEquationsAreChecked
<1>4. CASE FinishMapUnknowns
  <2>1. /\ phase = "collapsing" /\ phase' = "mapped" /\ run' = run
        /\ contributions' = [u \in 0 .. unknownCount' |-> [resistive |-> 0, reactive |-> 0]]
    BY <1>4 DEF FinishMapUnknowns, FinishMapping
  <2>2. contributions' \in Counts'
    BY <2>1 DEF Counts
  <2> QED
    BY <2>1, <2>2 DEF AssemblyInv, SharedEquationsAreChecked
<1>5. CASE BuildSystem
  <2>1. /\ phase = "mapped" /\ phase' = "built" /\ Populate(contributions)
        /\ UNCHANGED <<nodeMap, unknownIndex, unknownCount>>
    BY <1>5 DEF BuildSystem, BuildDiagonal
  <2>2. run.stage # "bound"
    BY <2>1 DEF AssemblyInv
  <2> QED
    BY <2>1, <2>2, PopulateStep
<1>6. CASE RebuildSystem
  <2>1. /\ phase = "built" /\ phase' = "built" /\ Populate(contributions) /\ run.stage = "decoded"
        /\ UNCHANGED <<nodeMap, unknownIndex, unknownCount>>
    BY <1>6 DEF RebuildSystem, vars
  <2> QED
    BY <2>1, PopulateStep
<1>7. CASE \E ask \in Requests : PreMapping(ask)
  <2>1. /\ UNCHANGED <<vars, contributions>>
        /\ "stage" \in DOMAIN run' /\ run'.stage \in {"ready", "decoded"}
        /\ run'.stage = "ready" => phase = "built"
    BY <1>7 DEF PreMapping
  <2> QED
    BY <2>1, StaysAssembled
<1>8. CASE RebuildOp \/ RebuildTran
  BY <1>8, RebuildStep DEF RebuildOp, RebuildTran
<1>9. CASE SetInitialConditions \/ FinishAnalysis
  <2>1. /\ UNCHANGED <<vars, contributions>>
        /\ "stage" \in DOMAIN run' /\ run'.stage \in {"idle", "uic"} /\ phase = "built"
    <3>1. CASE SetInitialConditions
      <4>1. /\ run.stage = "bound" /\ UNCHANGED <<vars, contributions>>
            /\ run' = Idle \/ run' = [run EXCEPT !.stage = "uic"]
        BY <3>1 DEF SetInitialConditions
      <4> QED
        BY <4>1 DEF AssemblyInv, Idle
    <3>2. CASE FinishAnalysis
      BY <3>2 DEF FinishAnalysis, AssemblyInv, Idle
    <3> QED
      BY <1>9, <3>1, <3>2
  <2> QED
    BY <2>1, StaysAssembled
<1>10. CASE \E sol \in Solutions : LoadOp(sol)
  <2>1. /\ UNCHANGED <<vars, contributions>>
        /\ "stage" \in DOMAIN run' /\ run'.stage = "loaded" /\ phase = "built"
    BY <1>10 DEF LoadOp, AssemblyInv
  <2> QED
    BY <2>1, StaysAssembled
<1>11. CASE \E sol \in Solutions, near \in BOOLEAN : LoadTran(sol, near)
  <2>1. /\ UNCHANGED <<vars, contributions, run>>
        /\ run.stage \in {"loaded", "uic"} /\ phase = "built"
    BY <1>11 DEF LoadTran, AssemblyInv
  <2> QED
    BY <2>1, StaysAssembled DEF AssemblyInv
<1>12. CASE UNCHANGED <<vars, assembly>>
  <2>1. UNCHANGED <<vars, contributions, run, bound>>
    BY <1>12 DEF assembly
  <2> QED
    BY <2>1, StaysAssembled DEF AssemblyInv
<1> QED
  BY <1>1, <1>2, <1>3, <1>4, <1>5, <1>6, <1>7, <1>8, <1>9, <1>10, <1>11, <1>12 DEF AssemblyNext

\* An equation of a node the netlist names, to which two rows of devices contribute, takes
\* part in the convergence checks of the solvers, for every circuit and every order of
\* mappings, rebuilt systems and analyses.
THEOREM SharedAreAlwaysChecked == AssemblySpec => []SharedEquationsAreChecked
<1>1. AssemblyInit => AssemblyInv
  BY DEF AssemblyInit, Init, Idle, AssemblyInv, SharedEquationsAreChecked
<1>2. AssemblyInv => SharedEquationsAreChecked
  BY DEF AssemblyInv
<1> QED
  BY <1>1, <1>2, AssemblyMaps, Invariance, RepresentedAlways, AssemblyStep, PTL DEF AssemblySpec

-----------------------------------------------------------------------------
(* Folding a list: least and greatest numbers, the partial results          *)

LEMMA LeastExists ==
    ASSUME NEW T \in SUBSET Nat, T # {}
    PROVE  \E x \in T : \A y \in T : x <= y
<1> DEFINE R == OpToRel(<, Nat)
<1>1. R = {ss \in Nat \X Nat : ss[1] < ss[2]}
  BY DEF OpToRel
<1>2. IsWellFoundedOn(R, Nat)
  BY NatLessThanWellFounded
<1>3. \A x, y \in Nat : <<y, x>> \in R <=> y < x
  BY <1>1
<1> HIDE DEF R
<1>4. PICK x \in T : \A y \in T : ~ (<<y, x>> \in R)
  BY <1>2, WFMin
<1>5. ASSUME NEW y \in T
      PROVE  x <= y
  <2>1. x \in Nat /\ y \in Nat /\ ~ (<<y, x>> \in R)
    BY <1>4
  <2>2. ~ (y < x)
    BY <1>3, <2>1
  <2> QED
    BY <2>1, <2>2
<1> QED
  BY <1>5

\* What holds of 0 and of every number after one of which it holds.
LEMMA UpTo ==
    ASSUME NEW n \in Nat, NEW S, 0 \in S, \A k \in 1 .. n : k - 1 \in S => k \in S
    PROVE  0 .. n \subseteq S
<1> SUFFICES ASSUME (0 .. n) \ S # {}
             PROVE  FALSE
  OBVIOUS
<1> DEFINE T == (0 .. n) \ S
<1>1. T \in SUBSET Nat /\ T # {}
  OBVIOUS
<1> HIDE DEF T
<1>2. PICK k \in T : \A j \in T : k <= j
  BY <1>1, LeastExists
<1>3. k \in 1 .. n /\ k \notin S
  BY <1>2 DEF T
<1>4. k - 1 \notin S
  BY <1>3
<1>5. k - 1 \in T
  BY <1>3, <1>4 DEF T
<1> QED
  BY <1>2, <1>3, <1>5

LEMMA GreatestOfInterval ==
    ASSUME NEW k \in Nat, k # 0
    PROVE  Max(1 .. k) = k /\ (1 .. k) \ {k} = 1 .. (k - 1)
  BY DEF Max

LEMMA GreatestExists ==
    ASSUME NEW n \in Nat, NEW T \in SUBSET (1 .. n), T # {}
    PROVE  Max(T) \in T /\ \A y \in T : Max(T) >= y
<1> DEFINE U == {n - x : x \in T}
<1>1. U \in SUBSET Nat /\ U # {}
  <2>1. \A x \in T : n - x \in Nat
    OBVIOUS
  <2> QED
    BY <2>1
<1> HIDE DEF U
<1>2. PICK u \in U : \A w \in U : u <= w
  BY <1>1, LeastExists
<1>3. PICK x \in T : u = n - x
  BY DEF U
<1>4. ASSUME NEW y \in T
      PROVE  x >= y
  <2>1. n - y \in U
    BY DEF U
  <2>2. n - x <= n - y
    BY <2>1, <1>2, <1>3
  <2> QED
    BY <2>2
<1> QED
  BY <1>4 DEF Max

\* The results of a fold on the parts of a list of n items; Step[<<k, a>>] is the result
\* of item k on a.
Folds(g, n, base, Step) ==
    g = [s \in SUBSET (1 .. n) |-> IF s = {} THEN base ELSE Step[<<Max(s), g[s \ {Max(s)}]>>]]

LEMMA FoldExists ==
    ASSUME NEW n \in Nat, NEW A, NEW base \in A, NEW Step \in [(1 .. n) \X A -> A]
    PROVE  \E g \in [SUBSET (1 .. n) -> A] : Folds(g, n, base, Step)
<1> DEFINE S == {m \in 0 .. n : \E g \in [SUBSET (1 .. m) -> A] : Folds(g, m, base, Step)}
<1>1. 0 \in S
  <2> DEFINE g == [s \in SUBSET (1 .. 0) |-> base]
  <2>1. \A s \in SUBSET (1 .. 0) : s = {}
    OBVIOUS
  <2>2. g \in [SUBSET (1 .. 0) -> A] /\ Folds(g, 0, base, Step)
    BY <2>1 DEF Folds
  <2> QED
    BY <2>2
<1>2. ASSUME NEW k \in 1 .. n, k - 1 \in S
      PROVE  k \in S
  <2>0. k \in Nat /\ k \in 0 .. n
    OBVIOUS
  <2>1. PICK g \in [SUBSET (1 .. (k - 1)) -> A] : Folds(g, k - 1, base, Step)
    BY <1>2
  <2> DEFINE h == [s \in SUBSET (1 .. k) |-> IF k \in s THEN Step[<<k, g[s \ {k}]>>] ELSE g[s]]
  <2>2. ASSUME NEW s \in SUBSET (1 .. k)
        PROVE  /\ h[s] \in A
               /\ h[s] = IF s = {} THEN base ELSE Step[<<Max(s), h[s \ {Max(s)}]>>]
    <3>1. CASE k \in s
      <4>1. s \ {k} \in SUBSET (1 .. (k - 1)) /\ s \ {k} \in SUBSET (1 .. k) /\ k \notin s \ {k}
        OBVIOUS
      <4>2. h[s \ {k}] = g[s \ {k}] /\ g[s \ {k}] \in A
        BY <4>1
      <4>3. Max(s) \in s /\ Max(s) >= k
        BY <2>0, <3>1, GreatestExists
      <4>4. Max(s) = k
        <5>1. Max(s) \in 1 .. k
          BY <4>3
        <5> QED
          BY <2>0, <4>3, <5>1
      <4>5. h[s] = Step[<<k, g[s \ {k}]>>]
        BY <3>1
      <4> HIDE DEF h
      <4>6. <<k, g[s \ {k}]>> \in (1 .. n) \X A
        BY <4>2
      <4> QED
        BY <3>1, <4>2, <4>4, <4>5, <4>6
    <3>2. CASE k \notin s
      <4>1. s \in SUBSET (1 .. (k - 1))
        BY <3>2
      <4>2. h[s] = g[s] /\ g[s] \in A
        BY <3>2, <4>1
      <4>3. CASE s = {}
        BY <2>1, <4>1, <4>2, <4>3 DEF Folds
      <4>4. CASE s # {}
        <5>1. Max(s) \in s
          BY <2>0, <4>4, GreatestExists
        <5>2. s \ {Max(s)} \in SUBSET (1 .. (k - 1)) /\ k \notin s \ {Max(s)}
          BY <3>2, <4>1
        <5>3. h[s \ {Max(s)}] = g[s \ {Max(s)}]
          BY <5>2
        <5>4. g[s] = Step[<<Max(s), g[s \ {Max(s)}]>>]
          BY <2>1, <4>1, <4>4 DEF Folds
        <5> HIDE DEF h
        <5> QED
          BY <4>2, <4>4, <5>3, <5>4
      <4> QED
        BY <4>3, <4>4
    <3> QED
      BY <3>1, <3>2
  <2>3. DOMAIN h = SUBSET (1 .. k) /\ h = [s \in SUBSET (1 .. k) |-> h[s]]
    OBVIOUS
  <2> HIDE DEF h
  <2>4. h \in [SUBSET (1 .. k) -> A]
    BY <2>2, <2>3
  <2>5. h = [s \in SUBSET (1 .. k) |-> IF s = {} THEN base ELSE Step[<<Max(s), h[s \ {Max(s)}]>>]]
    BY <2>2, <2>3
  <2>6. \E f \in [SUBSET (1 .. k) -> A] : Folds(f, k, base, Step)
    BY <2>4, <2>5 DEF Folds
  <2> QED
    BY <2>0, <2>6
<1> HIDE DEF S
<1>3. 0 .. n \subseteq S
  BY <1>1, <1>2, UpTo
<1>4. n \in S
  BY <1>3
<1> QED
  BY <1>4 DEF S

\* The results on the parts of the list are given by Step wherever they are in A.
FoldsWithin(g, n, A, base, Step) ==
    /\ g[{}] = base
    /\ \A s \in SUBSET (1 .. n) : s # {} /\ g[s \ {Max(s)}] \in A =>
          g[s] = Step[<<Max(s), g[s \ {Max(s)}]>>]

\* The partial results of a fold.
InSteps(g, n, A, base, Step) ==
    /\ g[1 .. 0] = base
    /\ \A k \in 0 .. n : g[1 .. k] \in A
    /\ \A k \in 1 .. n : g[1 .. k] = Step[<<k, g[1 .. (k - 1)]>>]

LEMMA FoldSteps ==
    ASSUME NEW n \in Nat, NEW A, NEW base \in A, NEW Step \in [(1 .. n) \X A -> A], NEW g,
           FoldsWithin(g, n, A, base, Step)
    PROVE  InSteps(g, n, A, base, Step)
<1>1. g[1 .. 0] = base
  <2>1. 1 .. 0 = {}
    OBVIOUS
  <2> QED
    BY <2>1 DEF FoldsWithin
<1>2. ASSUME NEW k \in 1 .. n, g[1 .. (k - 1)] \in A
      PROVE  g[1 .. k] = Step[<<k, g[1 .. (k - 1)]>>] /\ g[1 .. k] \in A
  <2>1. k \in Nat /\ k # 0 /\ 1 .. k \in SUBSET (1 .. n) /\ 1 .. k # {}
    OBVIOUS
  <2>2. Max(1 .. k) = k /\ (1 .. k) \ {k} = 1 .. (k - 1)
    BY <2>1, GreatestOfInterval
  <2>3. g[1 .. k] = Step[<<k, g[1 .. (k - 1)]>>]
    BY <1>2, <2>1, <2>2 DEF FoldsWithin
  <2>4. <<k, g[1 .. (k - 1)]>> \in (1 .. n) \X A
    BY <1>2
  <2> QED
    BY <2>3, <2>4
<1> DEFINE S == {k \in 0 .. n : g[1 .. k] \in A}
<1>3. 0 \in S
  BY <1>1
<1>4. ASSUME NEW k \in 1 .. n, k - 1 \in S
      PROVE  k \in S
  <2>1. k \in 0 .. n /\ g[1 .. (k - 1)] \in A
    BY <1>4
  <2> QED
    BY <1>2, <2>1
<1> HIDE DEF S
<1>5. 0 .. n \subseteq S
  BY <1>3, <1>4, UpTo
<1>6. \A k \in 0 .. n : g[1 .. k] \in A
  BY <1>5 DEF S
<1>7. ASSUME NEW k \in 1 .. n
      PROVE  g[1 .. k] = Step[<<k, g[1 .. (k - 1)]>>]
  <2>1. k - 1 \in 0 .. n
    OBVIOUS
  <2> QED
    BY <1>2, <1>6, <2>1
<1> QED
  BY <1>1, <1>6, <1>7 DEF InSteps

-----------------------------------------------------------------------------
(* PreprocessedUserForces::set(): every request of the list is decoded      *)

\* What the constants promise of a list of requests.
Readable(items) ==
    /\ Len(items) \in Nat /\ DOMAIN items = 1 .. Len(items)
    /\ \A p \in DOMAIN items : items[p].type = "number" => items[p].value \in Int

NodeRequests(N) == N \X Int
PairRequests(N) == N \X N \X Int

Decoded(N) ==
    [state : 0 .. 2, node1 : N \cup {NoNode}, node2 : N \cup {NoNode},
     nodes : Seq(NodeRequests(N)), pairs : Seq(PairRequests(N)),
     complete : BOOLEAN, ok : BOOLEAN]

Found(item, N) == IF item.type = "string" /\ item.name \in N THEN item.name ELSE NoNode

LEMMA RangeOfAppend ==
    ASSUME NEW A, NEW s \in Seq(A), NEW e \in A
    PROVE  Append(s, e) \in Seq(A) /\ Range(Append(s, e)) = Range(s) \cup {e}
<1>1. /\ Append(s, e) \in Seq(A) /\ Len(s) \in Nat /\ DOMAIN s = 1 .. Len(s)
      /\ DOMAIN Append(s, e) = 1 .. (Len(s) + 1)
      /\ \A k \in 1 .. Len(s) : Append(s, e)[k] = s[k]
      /\ Append(s, e)[Len(s) + 1] = e
  OBVIOUS
<1>2. \A k \in 1 .. (Len(s) + 1) : k \in 1 .. Len(s) \/ k = Len(s) + 1
  BY <1>1
<1> QED
  BY <1>1, <1>2 DEF Range

\* One item: what it makes of each state, and what stays.
Reads(acc, item, N, next) ==
    next.ok =>
        /\ acc.ok
        /\ Range(acc.nodes) \subseteq Range(next.nodes)
        /\ Range(acc.pairs) \subseteq Range(next.pairs)
        /\ \/ /\ item.type = "string" /\ acc.state = 0
              /\ next.state = 1 /\ next.node1 = Found(item, N)
           \/ /\ item.type = "string" /\ acc.state = 1 /\ next.state = 2
              /\ next.node1 = acc.node1 /\ next.node2 = Found(item, N)
           \/ /\ item.type = "number" /\ acc.state = 1 /\ next.state = 0
              /\ acc.node1 # NoNode => <<acc.node1, item.value>> \in Range(next.nodes)
           \/ /\ item.type = "number" /\ acc.state = 2 /\ next.state = 0
              /\ NoNode \notin {acc.node1, acc.node2} =>
                     <<acc.node1, acc.node2, item.value>> \in Range(next.pairs)

LEMMA DecodeTells ==
    ASSUME NEW N, NoNode \notin N, NEW u, NEW positions, NEW acc \in Decoded(N), NEW item,
           item.type = "number" => item.value \in Int
    PROVE  /\ Decode(acc, item, N, u, positions) \in Decoded(N)
           /\ Reads(acc, item, N, Decode(acc, item, N, u, positions))
<1> DEFINE next == Decode(acc, item, N, u, positions)
<1> SUFFICES next \in Decoded(N) /\ Reads(acc, item, N, next)
  OBVIOUS
<1> DEFINE St == 0 .. 2
           Ends == N \cup {NoNode}
           Ns == Seq(NodeRequests(N))
           Ps == Seq(PairRequests(N))
           Type == [state : St, node1 : Ends, node2 : Ends, nodes : Ns, pairs : Ps,
                    complete : BOOLEAN, ok : BOOLEAN]
<1>0. /\ Decoded(N) = Type /\ acc \in Type
      /\ acc.nodes \in Seq(NodeRequests(N)) /\ acc.pairs \in Seq(PairRequests(N))
      /\ acc.node1 \in N \cup {NoNode} /\ acc.node2 \in N \cup {NoNode} /\ acc.complete \in BOOLEAN
      /\ 0 \in St /\ 1 \in St /\ 2 \in St /\ NoNode \in Ends /\ Found(item, N) \in Ends
      /\ Ns = Seq(NodeRequests(N)) /\ Ps = Seq(PairRequests(N))
  BY DEF Decoded, Found
<1> HIDE DEF St, Ends, Ns, Ps
<1>1. CASE ~acc.ok
  <2>1. next = acc
    BY <1>1 DEF Decode
  <2> HIDE DEF next
  <2> QED
    BY <1>1, <2>1 DEF Reads
<1>2. CASE acc.ok /\ acc.state = 0 /\ item.type = "string"
  <2>1. next = [acc EXCEPT !.node1 = Found(item, N), !.node2 = NoNode, !.state = 1]
    BY <1>2 DEF Decode, Found
  <2> HIDE DEF next
  <2>2. next \in Decoded(N)
    BY <1>0, <2>1
  <2>3. /\ next.nodes = acc.nodes /\ next.pairs = acc.pairs
        /\ next.state = 1 /\ next.node1 = Found(item, N)
    BY <1>0, <2>1
  <2> QED
    BY <1>2, <2>2, <2>3 DEF Reads
<1>3. CASE acc.ok /\ acc.state = 1 /\ item.type = "string"
  <2>1. next = [acc EXCEPT !.node2 = Found(item, N), !.state = 2]
    BY <1>3 DEF Decode, Found
  <2> HIDE DEF next
  <2>2. next \in Decoded(N)
    BY <1>0, <2>1
  <2>3. /\ next.nodes = acc.nodes /\ next.pairs = acc.pairs
        /\ next.state = 2 /\ next.node1 = acc.node1 /\ next.node2 = Found(item, N)
    BY <1>0, <2>1
  <2> QED
    BY <1>3, <2>2, <2>3 DEF Reads
<1>4. CASE acc.ok /\ acc.state = 1 /\ item.type = "number"
  <2>1. item.type # "string"
    BY <1>4
  <2>2. CASE acc.node1 = NoNode
    <3>1. next = [acc EXCEPT !.nodes = @, !.state = 0]
      BY <1>4, <2>1, <2>2 DEF Decode
    <3> HIDE DEF next
    <3>2. next \in Decoded(N)
      BY <1>0, <3>1
    <3>3. next.nodes = acc.nodes /\ next.pairs = acc.pairs /\ next.state = 0
      BY <1>0, <3>1
    <3> QED
      BY <1>4, <2>2, <3>2, <3>3 DEF Reads
  <2>3. CASE acc.node1 # NoNode
    <3> DEFINE r == <<acc.node1, item.value>>
    <3>1. next = [acc EXCEPT !.nodes = Append(acc.nodes, r), !.state = 0]
      BY <1>4, <2>1, <2>3 DEF Decode
    <3> HIDE DEF next
    <3>2. r \in NodeRequests(N)
      BY <1>0, <1>4, <2>3 DEF NodeRequests
    <3> HIDE DEF r
    <3>3. /\ Append(acc.nodes, r) \in Seq(NodeRequests(N))
          /\ Range(Append(acc.nodes, r)) = Range(acc.nodes) \cup {r}
      BY <1>0, <3>2, RangeOfAppend
    <3>4. next \in Decoded(N)
      BY <1>0, <3>1, <3>3
    <3>5. next.nodes = Append(acc.nodes, r) /\ next.pairs = acc.pairs /\ next.state = 0
      BY <1>0, <3>1
    <3>6. r \in Range(next.nodes) /\ Range(acc.nodes) \subseteq Range(next.nodes)
      BY <3>3, <3>5
    <3> QED
      BY <1>4, <3>4, <3>5, <3>6 DEF r, Reads
  <2> QED
    BY <2>2, <2>3
<1>5. CASE acc.ok /\ acc.state = 2 /\ item.type = "number"
  <2>1. item.type # "string"
    BY <1>5
  <2>2. CASE NoNode \in {acc.node1, acc.node2}
    <3>1. next = [acc EXCEPT !.state = 0]
      BY <1>5, <2>1, <2>2 DEF Decode
    <3> HIDE DEF next
    <3>2. next \in Decoded(N)
      BY <1>0, <3>1
    <3>3. next.nodes = acc.nodes /\ next.pairs = acc.pairs /\ next.state = 0
      BY <1>0, <3>1
    <3> QED
      BY <1>5, <2>2, <3>2, <3>3 DEF Reads
  <2>3. CASE NoNode \notin {acc.node1, acc.node2}
    <3> DEFINE r == <<acc.node1, acc.node2, item.value>>
               whole == acc.complete /\ EntriesExist(u[acc.node1], u[acc.node2], positions)
    <3>1. next = [acc EXCEPT !.pairs = Append(acc.pairs, r), !.complete = whole, !.state = 0]
      BY <1>5, <2>1, <2>3 DEF Decode
    <3> HIDE DEF next
    <3>2. r \in PairRequests(N) /\ whole \in BOOLEAN
      BY <1>0, <1>5, <2>3 DEF PairRequests
    <3> HIDE DEF r, whole
    <3>3. /\ Append(acc.pairs, r) \in Seq(PairRequests(N))
          /\ Range(Append(acc.pairs, r)) = Range(acc.pairs) \cup {r}
      BY <1>0, <3>2, RangeOfAppend
    <3>4. next \in Decoded(N)
      BY <1>0, <3>1, <3>2, <3>3
    <3>5. next.pairs = Append(acc.pairs, r) /\ next.nodes = acc.nodes /\ next.state = 0
      BY <1>0, <3>1
    <3>6. r \in Range(next.pairs) /\ Range(acc.pairs) \subseteq Range(next.pairs)
      BY <3>3, <3>5
    <3> QED
      BY <1>5, <3>4, <3>5, <3>6 DEF r, Reads
  <2> QED
    BY <2>2, <2>3
<1>6. CASE /\ acc.ok
           /\ ~(acc.state = 0 /\ item.type = "string") /\ ~(acc.state = 1 /\ item.type = "string")
           /\ ~(acc.state = 1 /\ item.type = "number") /\ ~(acc.state = 2 /\ item.type = "number")
  <2>1. next = [acc EXCEPT !.ok = FALSE]
    BY <1>6 DEF Decode
  <2> HIDE DEF next
  <2>2. next \in Decoded(N) /\ ~next.ok
    BY <1>0, <2>1
  <2> QED
    BY <2>2 DEF Reads
<1> QED
  BY <1>1, <1>2, <1>3, <1>4, <1>5, <1>6

\* Preprocessed() as the fold of the items, read from the results on parts of the list.
Decoding(items, N, u, positions) ==
    CHOOSE g : g = [s \in SUBSET DOMAIN items |->
        IF s = {} THEN Undecoded
        ELSE Decode(g[s \ {Max(s)}], items[Max(s)], N, u, positions)]

\* The accumulator after the first k items.
After(k, items, N, u, positions) == Decoding(items, N, u, positions)[1 .. k]

LEMMA DecodingSteps ==
    ASSUME NEW N, NoNode \notin N, NEW u, NEW positions, NEW items, Readable(items)
    PROVE  /\ Preprocessed(items, N, u, positions) = After(Len(items), items, N, u, positions)
           /\ After(0, items, N, u, positions) = Undecoded
           /\ \A k \in 0 .. Len(items) : After(k, items, N, u, positions) \in Decoded(N)
           /\ \A k \in 1 .. Len(items) :
                 After(k, items, N, u, positions)
                     = Decode(After(k - 1, items, N, u, positions), items[k], N, u, positions)
<1> DEFINE n == Len(items)
           A == Decoded(N)
           Step == [p \in (1 .. n) \X A |-> Decode(p[2], items[p[1]], N, u, positions)]
           D == Decoding(items, N, u, positions)
<1>1. n \in Nat /\ DOMAIN items = 1 .. n
  BY DEF Readable
<1>2. Undecoded \in A
  <2>1. <<>> \in Seq(NodeRequests(N)) /\ <<>> \in Seq(PairRequests(N))
    OBVIOUS
  <2> DEFINE Ns == Seq(NodeRequests(N))
             Ps == Seq(PairRequests(N))
  <2>2. /\ Decoded(N) = [state : 0 .. 2, node1 : N \cup {NoNode}, node2 : N \cup {NoNode},
                         nodes : Ns, pairs : Ps, complete : BOOLEAN, ok : BOOLEAN]
        /\ 0 \in 0 .. 2 /\ NoNode \in N \cup {NoNode}
    BY DEF Decoded
  <2>3. <<>> \in Ns /\ <<>> \in Ps
    BY <2>1
  <2> HIDE DEF Ns, Ps
  <2> QED
    BY <2>2, <2>3 DEF Undecoded
<1>3. ASSUME NEW k \in 1 .. n, NEW acc \in A
      PROVE  Decode(acc, items[k], N, u, positions) \in A
  <2>1. items[k].type = "number" => items[k].value \in Int
    BY <1>1 DEF Readable
  <2> QED
    BY <2>1, DecodeTells
<1>4. Step \in [(1 .. n) \X A -> A]
  <2>1. \A p \in (1 .. n) \X A : p[1] \in 1 .. n /\ p[2] \in A
    OBVIOUS
  <2> HIDE DEF A
  <2> QED
    BY <1>3, <2>1
<1>5. \A k \in 1 .. n, acc \in A : Step[<<k, acc>>] = Decode(acc, items[k], N, u, positions)
  <2>1. \A k \in 1 .. n, acc \in A : <<k, acc>> \in (1 .. n) \X A
    OBVIOUS
  <2> HIDE DEF A
  <2> QED
    BY <2>1
<1> HIDE DEF A, Step
<1>6. PICK g \in [SUBSET (1 .. n) -> A] : Folds(g, n, Undecoded, Step)
  BY <1>1, <1>2, <1>4, FoldExists
<1>7. ASSUME NEW s \in SUBSET (1 .. n), s # {}
      PROVE  /\ Max(s) \in 1 .. n /\ g[s \ {Max(s)}] \in A
             /\ g[s] = Decode(g[s \ {Max(s)}], items[Max(s)], N, u, positions)
  <2>1. Max(s) \in s
    BY <1>1, <1>7, GreatestExists
  <2>2. s \ {Max(s)} \in SUBSET (1 .. n) /\ Max(s) \in 1 .. n
    BY <2>1
  <2>3. g[s \ {Max(s)}] \in A
    BY <1>6, <2>2
  <2>4. g[s] = Step[<<Max(s), g[s \ {Max(s)}]>>]
    BY <1>6, <1>7 DEF Folds
  <2> QED
    BY <1>5, <2>2, <2>3, <2>4
<1>8. g[{}] = Undecoded /\ g = [s \in SUBSET (1 .. n) |-> g[s]]
  BY <1>6 DEF Folds
<1>9. g = [s \in SUBSET DOMAIN items |->
              IF s = {} THEN Undecoded
              ELSE Decode(g[s \ {Max(s)}], items[Max(s)], N, u, positions)]
  BY <1>1, <1>7, <1>8
<1>10. D = [s \in SUBSET DOMAIN items |->
               IF s = {} THEN Undecoded
               ELSE Decode(D[s \ {Max(s)}], items[Max(s)], N, u, positions)]
  BY <1>9 DEF Decoding
<1> HIDE DEF D
<1>11. D[{}] = Undecoded
  BY <1>10
<1>12. ASSUME NEW s \in SUBSET (1 .. n), s # {}, D[s \ {Max(s)}] \in A
       PROVE  D[s] = Step[<<Max(s), D[s \ {Max(s)}]>>]
  <2>1. D[s] = Decode(D[s \ {Max(s)}], items[Max(s)], N, u, positions)
    BY <1>1, <1>10, <1>12
  <2> QED
    BY <1>5, <1>7, <1>12, <2>1
<1>13. FoldsWithin(D, n, A, Undecoded, Step)
  BY <1>11, <1>12 DEF FoldsWithin
<1> HIDE DEF n
<1>14. /\ D[1 .. 0] = Undecoded
       /\ \A k \in 0 .. n : D[1 .. k] \in A
       /\ \A k \in 1 .. n : D[1 .. k] = Step[<<k, D[1 .. (k - 1)]>>]
  <2>1. InSteps(D, n, A, Undecoded, Step)
    BY <1>1, <1>2, <1>4, <1>13, FoldSteps
  <2> QED
    BY <2>1 DEF InSteps
<1>15. ASSUME NEW k \in 1 .. n
       PROVE  D[1 .. k] = Decode(D[1 .. (k - 1)], items[k], N, u, positions)
  <2>1. k - 1 \in 0 .. n
    BY <1>1
  <2> QED
    BY <1>5, <1>14, <2>1
<1>16. Preprocessed(items, N, u, positions) = D[1 .. n]
  <2>1. Preprocessed(items, N, u, positions) = D[DOMAIN items]
    BY DEF D, Preprocessed, Decoding, FoldLeft, MapThenFoldSet
  <2> QED
    BY <1>1, <2>1
<1>17. \A k : After(k, items, N, u, positions) = D[1 .. k]
  BY DEF D, After
<1> QED
  BY <1>14, <1>15, <1>16, <1>17 DEF A, n

\* Where a prefix of k items leaves the names that wait for their number, and what it has
\* requested.
Heard(k, items, N, acc) ==
    /\ acc.state = 0 => Begins(items, k + 1)
    /\ acc.state = 1 => IsName(items, k) /\ Begins(items, k) /\ acc.node1 = Found(items[k], N)
    /\ acc.state = 2 => /\ IsName(items, k - 1) /\ IsName(items, k) /\ Begins(items, k - 1)
                        /\ acc.node1 = Found(items[k - 1], N) /\ acc.node2 = Found(items[k], N)
    /\ \A p \in Numbers(items) : p <= k /\ IsName(items, p - 1) =>
          /\ Begins(items, p - 1) /\ items[p - 1].name \in N =>
                <<items[p - 1].name, items[p].value>> \in Range(acc.nodes)
          /\ /\ IsName(items, p - 2) /\ Begins(items, p - 2)
             /\ items[p - 2].name \in N /\ items[p - 1].name \in N
             => <<items[p - 2].name, items[p - 1].name, items[p].value>> \in Range(acc.pairs)

LEMMA HeardStep ==
    ASSUME NEW N, NoNode \notin N, NEW items, Readable(items), NEW k \in 1 .. Len(items),
           NEW acc, NEW next, Heard(k - 1, items, N, acc), Reads(acc, items[k], N, next), next.ok
    PROVE  Heard(k, items, N, next)
<1>1. /\ k \in Nat /\ k >= 1 /\ k \in DOMAIN items
      /\ DOMAIN items = 1 .. Len(items) /\ Len(items) \in Nat
      /\ k - 1 + 1 = k /\ k + 1 - 1 = k /\ k - 1 - 1 = k - 2
  BY DEF Readable
<1>2. /\ Range(acc.nodes) \subseteq Range(next.nodes) /\ Range(acc.pairs) \subseteq Range(next.pairs)
  BY DEF Reads
<1>3. \A p \in Numbers(items) : p \in Nat /\ ~IsName(items, p) /\ items[p].type = "number"
  BY <1>1 DEF Numbers, IsName
<1> DEFINE Told(p, a) ==
               IsName(items, p - 1) =>
                  /\ Begins(items, p - 1) /\ items[p - 1].name \in N =>
                        <<items[p - 1].name, items[p].value>> \in Range(a.nodes)
                  /\ /\ IsName(items, p - 2) /\ Begins(items, p - 2)
                     /\ items[p - 2].name \in N /\ items[p - 1].name \in N
                     => <<items[p - 2].name, items[p - 1].name, items[p].value>> \in Range(a.pairs)
<1>4. \A p \in Numbers(items) : p <= k - 1 => Told(p, acc)
  BY DEF Heard
<1>5. \A p : Told(p, acc) => Told(p, next)
  BY <1>2
<1>6. \A p \in Numbers(items) : p <= k - 1 => Told(p, next)
  BY <1>4, <1>5
<1>7. (\A p \in Numbers(items) : p <= k => Told(p, next)) <=> (k \in Numbers(items) => Told(k, next))
  <2> HIDE DEF Told
  <2>1. \A p \in Numbers(items) : p <= k => p <= k - 1 \/ p = k
    BY <1>1, <1>3
  <2> QED
    BY <1>1, <1>6, <2>1
<1>8. CASE /\ items[k].type = "string" /\ acc.state = 0
           /\ next.state = 1 /\ next.node1 = Found(items[k], N)
  <2>1. k \notin Numbers(items) /\ IsName(items, k) /\ Begins(items, k)
    BY <1>1, <1>8 DEF Numbers, IsName, Heard
  <2> QED
    BY <1>7, <1>8, <2>1 DEF Heard
<1>9. CASE /\ items[k].type = "string" /\ acc.state = 1 /\ next.state = 2
           /\ next.node1 = acc.node1 /\ next.node2 = Found(items[k], N)
  <2>1. k \notin Numbers(items) /\ IsName(items, k)
    BY <1>1, <1>9 DEF Numbers, IsName
  <2>2. IsName(items, k - 1) /\ Begins(items, k - 1) /\ acc.node1 = Found(items[k - 1], N)
    BY <1>9 DEF Heard
  <2> QED
    BY <1>7, <1>9, <2>1, <2>2 DEF Heard
<1>10. CASE /\ items[k].type = "number" /\ acc.state = 1 /\ next.state = 0
            /\ acc.node1 # NoNode => <<acc.node1, items[k].value>> \in Range(next.nodes)
  <2>1. k \in Numbers(items)
    BY <1>1, <1>10 DEF Numbers
  <2>2. IsName(items, k - 1) /\ Begins(items, k - 1) /\ acc.node1 = Found(items[k - 1], N)
    BY <1>10 DEF Heard
  <2>3. ~IsName(items, k - 2)
    <3>1. CASE k - 1 = 1
      BY <1>1, <3>1 DEF IsName
    <3>2. CASE k - 1 # 1
      <4>1. k - 2 \in Numbers(items)
        BY <1>1, <2>2, <3>2 DEF Begins
      <4> QED
        BY <1>3, <4>1
    <3> QED
      BY <3>1, <3>2
  <2>4. items[k - 1].name \in N => acc.node1 = items[k - 1].name /\ acc.node1 # NoNode
    BY <2>2 DEF Found, IsName
  <2>5. Told(k, next)
    BY <1>10, <2>3, <2>4
  <2>6. Begins(items, k + 1)
    BY <1>1, <2>1 DEF Begins
  <2> QED
    BY <1>7, <1>10, <2>5, <2>6 DEF Heard
<1>11. CASE /\ items[k].type = "number" /\ acc.state = 2 /\ next.state = 0
            /\ NoNode \notin {acc.node1, acc.node2} =>
                   <<acc.node1, acc.node2, items[k].value>> \in Range(next.pairs)
  <2>1. k \in Numbers(items)
    BY <1>1, <1>11 DEF Numbers
  <2>2. /\ IsName(items, k - 2) /\ IsName(items, k - 1) /\ Begins(items, k - 2)
        /\ acc.node1 = Found(items[k - 2], N) /\ acc.node2 = Found(items[k - 1], N)
    BY <1>1, <1>11 DEF Heard
  <2>3. ~Begins(items, k - 1)
    <3>1. k - 2 \in 1 .. Len(items) /\ k - 2 \notin Numbers(items)
      BY <1>1, <1>3, <2>2 DEF IsName
    <3>2. k - 1 # 1
      BY <1>1, <3>1
    <3> QED
      BY <1>1, <3>1, <3>2 DEF Begins
  <2>4. /\ items[k - 2].name \in N => acc.node1 = items[k - 2].name /\ acc.node1 # NoNode
        /\ items[k - 1].name \in N => acc.node2 = items[k - 1].name /\ acc.node2 # NoNode
    BY <2>2 DEF Found, IsName
  <2>5. Told(k, next)
    BY <1>11, <2>3, <2>4
  <2>6. Begins(items, k + 1)
    BY <1>1, <2>1 DEF Begins
  <2> QED
    BY <1>7, <1>11, <2>5, <2>6 DEF Heard
<1> QED
  BY <1>8, <1>9, <1>10, <1>11 DEF Reads

\* A list that is read to its end requests all it asks for of the circuit's nodes.
LEMMA AllRequested ==
    ASSUME NEW N, NoNode \notin N, NEW u, NEW positions, NEW items, Readable(items),
           Preprocessed(items, N, u, positions).ok
    PROVE  LET request == Preprocessed(items, N, u, positions) IN
           /\ request \in Decoded(N)
           /\ \A r \in ValuesWanted(items) : r[1] \in N => r \in Range(request.nodes)
           /\ \A r \in DifferencesWanted(items) :
                 {r[1], r[2]} \subseteq N => r \in Range(request.pairs)
<1> DEFINE n == Len(items)
           D(k) == After(k, items, N, u, positions)
           request == Preprocessed(items, N, u, positions)
           S == {k \in 0 .. n : D(k).ok => Heard(k, items, N, D(k))}
<1>1. /\ n \in Nat /\ DOMAIN items = 1 .. n
      /\ request = D(n) /\ D(0) = Undecoded
      /\ \A k \in 0 .. n : D(k) \in Decoded(N)
      /\ \A k \in 1 .. n : D(k) = Decode(D(k - 1), items[k], N, u, positions)
      /\ \A k \in 1 .. n : items[k].type = "number" => items[k].value \in Int
  BY DecodingSteps DEF Readable
<1> HIDE DEF D, request
<1>2. 0 \in S
  <2>1. \A p \in Numbers(items) : ~(p <= 0)
    BY <1>1 DEF Numbers
  <2>2. Begins(items, 0 + 1)
    BY DEF Begins
  <2>3. Undecoded.state = 0
    BY DEF Undecoded
  <2> QED
    BY <1>1, <2>1, <2>2, <2>3 DEF Heard
<1>3. ASSUME NEW k \in 1 .. n, k - 1 \in S
      PROVE  k \in S
  <2> SUFFICES ASSUME D(k).ok
               PROVE  Heard(k, items, N, D(k))
    BY <1>1
  <2>1. k - 1 \in 0 .. n /\ D(k - 1) \in Decoded(N)
    BY <1>1
  <2>2. Reads(D(k - 1), items[k], N, D(k))
    BY <1>1, <2>1, DecodeTells
  <2>3. D(k - 1).ok /\ Heard(k - 1, items, N, D(k - 1))
    BY <1>3, <2>2 DEF Reads
  <2> QED
    BY <2>2, <2>3, HeardStep
<1> HIDE DEF S
<1>4. 0 .. n \subseteq S
  BY <1>1, <1>2, <1>3, UpTo
<1>5. Heard(n, items, N, request)
  <2>1. n \in S /\ request.ok
    BY <1>1, <1>4 DEF request
  <2> QED
    BY <1>1, <2>1 DEF S
<1>6. request \in Decoded(N)
  BY <1>1
<1>7. \A p \in Numbers(items) : p <= n
  BY <1>1 DEF Numbers
<1>8. ASSUME NEW r \in ValuesWanted(items), r[1] \in N
      PROVE  r \in Range(request.nodes)
  <2>1. PICK p \in Numbers(items) : /\ IsName(items, p - 1) /\ Begins(items, p - 1)
                                    /\ r = <<items[p - 1].name, items[p].value>>
    BY DEF ValuesWanted
  <2>2. items[p - 1].name \in N
    BY <1>8, <2>1
  <2> QED
    BY <1>5, <1>7, <2>1, <2>2 DEF Heard
<1>9. ASSUME NEW r \in DifferencesWanted(items), {r[1], r[2]} \subseteq N
      PROVE  r \in Range(request.pairs)
  <2>1. PICK p \in Numbers(items) :
               /\ IsName(items, p - 1) /\ IsName(items, p - 2) /\ Begins(items, p - 2)
               /\ r = <<items[p - 2].name, items[p - 1].name, items[p].value>>
    BY DEF DifferencesWanted
  <2>2. items[p - 2].name \in N /\ items[p - 1].name \in N
    BY <1>9, <2>1
  <2> QED
    BY <1>5, <1>7, <2>1, <2>2 DEF Heard
<1> QED
  BY <1>6, <1>8, <1>9 DEF request

-----------------------------------------------------------------------------
(* OpNRSolver::setForces(): every request is met or reported                *)

\* The three loops as folds, read from the results on parts of the list; op is what a
\* request does, an analysis that aborts stops at the first conflict.
Once(abort, F, G) == IF abort /\ F.conflicts # {} THEN F ELSE G

ValuesLoop(base, seq, u, abort) ==
    CHOOSE g : g = [s \in SUBSET DOMAIN seq |->
        IF s = {} THEN base
        ELSE Once(abort, g[s \ {Max(s)}],
                  ForceUnknown(g[s \ {Max(s)}], u[seq[Max(s)][1]], seq[Max(s)][2], seq[Max(s)]))]

GroundLoop(base, seq, u, abort) ==
    CHOOSE g : g = [s \in SUBSET DOMAIN seq |->
        IF s = {} THEN base
        ELSE Once(abort, g[s \ {Max(s)}], ForceToGround(g[s \ {Max(s)}], seq[Max(s)], u))]

DifferencesLoop(base, seq, u, uicMode, abort) ==
    CHOOSE g : g = [s \in SUBSET DOMAIN seq |->
        IF s = {} THEN base
        ELSE Once(abort, g[s \ {Max(s)}],
                  ForceDifference(g[s \ {Max(s)}], seq[Max(s)], u, uicMode))]

LEMMA ForcesLoops ==
    ASSUME NEW request, NEW u, NEW n, NEW uicMode, NEW abort
    PROVE  LET S1 == ValuesLoop(NoForces(n), request.nodes, u, abort)[DOMAIN request.nodes]
               S2 == GroundLoop(S1, request.pairs, u, abort)[DOMAIN request.pairs]
           IN  UserForces(request, u, n, uicMode, abort)
                   = DifferencesLoop(S2, request.pairs, u, uicMode, abort)[DOMAIN request.pairs]
  BY DEF UserForces, ValuesLoop, GroundLoop, DifferencesLoop, FoldLeft, MapThenFoldSet, Once

\* What the forces may be at any moment.
Forcings(N, n) ==
    [value : {v \in [0 .. n -> Int] : v[0] = 0}, forced : SUBSET (1 .. n),
     delta : Seq((1 .. n) \X (1 .. n) \X Int),
     conflicts : SUBSET (NodeRequests(N) \cup PairRequests(N))]

\* No force and no conflict is lost.
Keeps(F, G) ==
    /\ F.forced \subseteq G.forced
    /\ \A i \in F.forced : G.value[i] = F.value[i]
    /\ F.conflicts \subseteq G.conflicts
    /\ Range(F.delta) \subseteq Range(G.delta)

ValueMet(r, F, u) == r \in F.conflicts \/ (u[r[1]] \in F.forced \cup {0} /\ F.value[u[r[1]]] = r[2])

DifferenceMet(r, F, u) ==
    \/ r \in F.conflicts
    \/ /\ u[r[1]] \in F.forced \cup {0} /\ u[r[2]] \in F.forced \cup {0}
       /\ F.value[u[r[1]]] - F.value[u[r[2]]] = r[3]
    \/ <<u[r[1]], u[r[2]], r[3]>> \in Range(F.delta)

LEMMA KeepsMet ==
    ASSUME NEW N, NEW n \in Nat, NEW F \in Forcings(N, n), NEW G \in Forcings(N, n),
           Keeps(F, G), NEW u, NEW r
    PROVE  /\ ValueMet(r, F, u) => ValueMet(r, G, u)
           /\ DifferenceMet(r, F, u) => DifferenceMet(r, G, u)
<1>1. F.value[0] = 0 /\ G.value[0] = 0
  BY DEF Forcings
<1>2. \A i \in F.forced \cup {0} : i \in G.forced \cup {0} /\ G.value[i] = F.value[i]
  BY <1>1 DEF Keeps
<1> QED
  BY <1>2 DEF Keeps, ValueMet, DifferenceMet

LEMMA KeepsTransitive ==
    ASSUME NEW F, NEW G, NEW H, Keeps(F, G), Keeps(G, H)
    PROVE  Keeps(F, H)
  BY DEF Keeps

LEMMA KeepsItself == ASSUME NEW F PROVE Keeps(F, F)
  BY DEF Keeps

\* setForceOnUnknown()
LEMMA ForceUnknownTells ==
    ASSUME NEW N, NEW n \in Nat, NEW F \in Forcings(N, n), NEW i \in 0 .. n, NEW v \in Int,
           NEW r \in NodeRequests(N) \cup PairRequests(N)
    PROVE  LET G == ForceUnknown(F, i, v, r) IN
           /\ G \in Forcings(N, n) /\ Keeps(F, G) /\ G.delta = F.delta
           /\ i # 0 => r \in G.conflicts \/ (i \in G.forced /\ G.value[i] = v)
<1> DEFINE Vs == {w \in [0 .. n -> Int] : w[0] = 0}
           Us == SUBSET (1 .. n)
           Ds == Seq((1 .. n) \X (1 .. n) \X Int)
           Cs == SUBSET (NodeRequests(N) \cup PairRequests(N))
           G == ForceUnknown(F, i, v, r)
<1>1. Forcings(N, n) = [value : Vs, forced : Us, delta : Ds, conflicts : Cs]
  BY DEF Forcings
<1>2. F.value \in Vs /\ F.forced \in Us /\ F.delta \in Ds /\ F.conflicts \in Cs
  BY <1>1
<1>3. F.value \in [0 .. n -> Int] /\ F.value[0] = 0 /\ F.forced \subseteq 1 .. n
  BY <1>2
<1>4. F.conflicts \cup {r} \in Cs
  BY <1>2
<1>5. i # 0 => /\ [F.value EXCEPT ![i] = v] \in Vs
              /\ F.forced \cup {i} \in Us
  BY <1>3
<1> HIDE DEF Us, Ds, Cs
<1>6. CASE i = 0
  <2>1. G = F
    <3>1. i \notin F.forced
      BY <1>3, <1>6
    <3> QED
      BY <1>6, <3>1 DEF ForceUnknown
  <2> QED
    BY <1>6, <2>1, KeepsItself
<1>7. CASE i # 0 /\ i \in F.forced /\ F.value[i] # v
  <2> HIDE DEF Vs
  <2>1. G = [F EXCEPT !.conflicts = F.conflicts \cup {r}]
    BY <1>7 DEF ForceUnknown
  <2> HIDE DEF G
  <2>2. /\ G.value = F.value /\ G.forced = F.forced /\ G.delta = F.delta
        /\ G.conflicts = F.conflicts \cup {r} /\ G \in Forcings(N, n)
    BY <1>1, <1>4, <2>1
  <2>3. Keeps(F, G)
    BY <2>2 DEF Keeps
  <2> QED
    BY <2>2, <2>3 DEF G
<1>8. CASE i # 0 /\ ~(i \in F.forced /\ F.value[i] # v)
  <2> DEFINE w == [F.value EXCEPT ![i] = v]
  <2>1. G = [F EXCEPT !.value = w, !.forced = F.forced \cup {i}]
    BY <1>8 DEF ForceUnknown
  <2>2. w[i] = v /\ \A j \in F.forced : w[j] = F.value[j]
    BY <1>3, <1>8
  <2>3. w \in Vs
    BY <1>5, <1>8
  <2> HIDE DEF Vs, w, G
  <2>4. /\ G.value = w /\ G.forced = F.forced \cup {i} /\ G.delta = F.delta
        /\ G.conflicts = F.conflicts /\ G \in Forcings(N, n)
    BY <1>1, <1>5, <1>8, <2>1, <2>3
  <2>5. Keeps(F, G)
    BY <2>2, <2>4 DEF Keeps
  <2> QED
    BY <2>2, <2>4, <2>5 DEF G
<1> QED
  BY <1>6, <1>7, <1>8

LEMMA ForceToGroundTells ==
    ASSUME NEW N, NEW n \in Nat, NEW F \in Forcings(N, n), NEW u, \A x \in N : u[x] \in 0 .. n,
           NEW r \in PairRequests(N)
    PROVE  LET G == ForceToGround(F, r, u) IN
           /\ G \in Forcings(N, n) /\ Keeps(F, G) /\ G.delta = F.delta
           /\ 0 \in {u[r[1]], u[r[2]]} /\ u[r[1]] # u[r[2]] => DifferenceMet(r, G, u)
<1> DEFINE G == ForceToGround(F, r, u)
<1>1. r[1] \in N /\ r[2] \in N /\ r[3] \in Int
  BY DEF PairRequests
<1>2. u[r[1]] \in 0 .. n /\ u[r[2]] \in 0 .. n /\ -r[3] \in Int
  BY <1>1
<1>3. CASE u[r[1]] = 0
  <2> DEFINE v == -r[3]
             i == u[r[2]]
  <2>1. G = ForceUnknown(F, i, v, r) /\ v \in Int /\ i \in 0 .. n
    BY <1>2, <1>3 DEF ForceToGround
  <2>0. v = -r[3] /\ i = u[r[2]]
    OBVIOUS
  <2> HIDE DEF v, i
  <2>2. /\ G \in Forcings(N, n) /\ Keeps(F, G) /\ G.delta = F.delta
        /\ i # 0 => r \in G.conflicts \/ (i \in G.forced /\ G.value[i] = v)
    BY <2>1, ForceUnknownTells
  <2> HIDE DEF G
  <2>3. G.value[0] = 0 /\ 0 - v = r[3]
    BY <1>1, <2>0, <2>2 DEF Forcings
  <2>4. u[r[1]] # u[r[2]] => DifferenceMet(r, G, u)
    BY <1>3, <2>0, <2>2, <2>3 DEF DifferenceMet
  <2> QED
    BY <2>2, <2>4 DEF G
<1>4. CASE u[r[1]] # 0 /\ u[r[2]] = 0
  <2>1. G = ForceUnknown(F, u[r[1]], r[3], r)
    BY <1>4 DEF ForceToGround
  <2>2. /\ G \in Forcings(N, n) /\ Keeps(F, G) /\ G.delta = F.delta
        /\ r \in G.conflicts \/ (u[r[1]] \in G.forced /\ G.value[u[r[1]]] = r[3])
    BY <1>1, <1>2, <1>4, <2>1, ForceUnknownTells
  <2> HIDE DEF G
  <2>3. G.value[0] = 0 /\ r[3] - 0 = r[3]
    BY <1>1, <2>2 DEF Forcings
  <2>4. DifferenceMet(r, G, u)
    BY <1>4, <2>2, <2>3 DEF DifferenceMet
  <2> QED
    BY <2>2, <2>4 DEF G
<1>5. CASE u[r[1]] # 0 /\ u[r[2]] # 0
  <2>1. G = F
    BY <1>5 DEF ForceToGround
  <2> QED
    BY <1>5, <2>1, KeepsItself
<1> QED
  BY <1>3, <1>4, <1>5

\* Values and forced unknowns that change nothing that is forced.
Widens(F, w, S, n) ==
    /\ w \in [0 .. n -> Int] /\ w[0] = 0
    /\ S \in SUBSET (1 .. n)
    /\ \A i \in F.forced : i \in S /\ w[i] = F.value[i]

Widened(F, w, S) == [F EXCEPT !.value = w, !.forced = S]

LEMMA ForcingsWith ==
    ASSUME NEW N, NEW n \in Nat, NEW F \in Forcings(N, n), NEW w, NEW S, Widens(F, w, S, n)
    PROVE  LET G == Widened(F, w, S) IN
           /\ G \in Forcings(N, n) /\ Keeps(F, G)
           /\ G.value = w /\ G.forced = S /\ G.delta = F.delta /\ G.conflicts = F.conflicts
<1> DEFINE G == Widened(F, w, S)
           Vs == {v \in [0 .. n -> Int] : v[0] = 0}
           Us == SUBSET (1 .. n)
           Ds == Seq((1 .. n) \X (1 .. n) \X Int)
           Cs == SUBSET (NodeRequests(N) \cup PairRequests(N))
           Type == [value : Vs, forced : Us, delta : Ds, conflicts : Cs]
<1>1. Forcings(N, n) = Type /\ F \in Type
  BY DEF Forcings
<1>2. w \in Vs /\ S \in Us
  BY DEF Widens
<1> HIDE DEF Vs, Us, Ds, Cs
<1>3. /\ G \in Type
      /\ G.value = w /\ G.forced = S /\ G.delta = F.delta /\ G.conflicts = F.conflicts
  BY <1>1, <1>2 DEF Widened
<1>4. Keeps(F, G)
  <2> HIDE DEF G
  <2> QED
    BY <1>3 DEF Keeps, Widens
<1> QED
  BY <1>1, <1>3, <1>4

LEMMA ForceDifferenceTells ==
    ASSUME NEW N, NEW n \in Nat, NEW F \in Forcings(N, n), NEW u, \A x \in N : u[x] \in 0 .. n,
           NEW r \in PairRequests(N), NEW uicMode \in BOOLEAN
    PROVE  LET G == ForceDifference(F, r, u, uicMode) IN
           /\ G \in Forcings(N, n) /\ Keeps(F, G) /\ (uicMode => G.delta = F.delta)
           /\ 0 \notin {u[r[1]], u[r[2]]} /\ u[r[1]] # u[r[2]] => DifferenceMet(r, G, u)
<1> DEFINE G == ForceDifference(F, r, u, uicMode)
           u1 == u[r[1]]
           u2 == u[r[2]]
           d == r[3]
           Met(H) == \/ r \in H.conflicts
                     \/ u1 \in H.forced /\ u2 \in H.forced /\ H.value[u1] - H.value[u2] = d
                     \/ <<u1, u2, d>> \in Range(H.delta)
<1>1. u1 \in 0 .. n /\ u2 \in 0 .. n /\ d \in Int
  BY DEF PairRequests
<1>2. F.value \in [0 .. n -> Int] /\ F.value[0] = 0 /\ F.forced \subseteq 1 .. n
  BY DEF Forcings
<1>3. CASE u1 = 0 \/ u2 = 0
  <2>1. ~({u1, u2} \subseteq F.forced)
    BY <1>2, <1>3
  <2>2. G = F
    BY <1>3, <2>1 DEF ForceDifference
  <2> QED
    BY <1>3, <2>2, KeepsItself
<1>4. CASE u1 # 0 /\ u2 # 0
  <2> SUFFICES /\ G \in Forcings(N, n) /\ Keeps(F, G) /\ (uicMode => G.delta = F.delta)
               /\ u1 # u2 => Met(G)
    <3> HIDE DEF G
    <3> QED
      BY DEF DifferenceMet, G
  <2>1. u1 \in 1 .. n /\ u2 \in 1 .. n
    BY <1>1, <1>4
  <2>2. CASE {u1, u2} \subseteq F.forced /\ F.value[u1] - F.value[u2] # d
    <3>1. G = [F EXCEPT !.conflicts = F.conflicts \cup {r}]
      BY <1>4, <2>2 DEF ForceDifference
    <3> DEFINE Vs == {v \in [0 .. n -> Int] : v[0] = 0}
               Us == SUBSET (1 .. n)
               Ds == Seq((1 .. n) \X (1 .. n) \X Int)
               Cs == SUBSET (NodeRequests(N) \cup PairRequests(N))
    <3>2. Forcings(N, n) = [value : Vs, forced : Us, delta : Ds, conflicts : Cs]
      BY DEF Forcings
    <3>3. F.conflicts \cup {r} \in Cs
      BY DEF Forcings
    <3> HIDE DEF G, Vs, Us, Ds, Cs
    <3>4. /\ G.value = F.value /\ G.forced = F.forced /\ G.delta = F.delta
          /\ G.conflicts = F.conflicts \cup {r} /\ G \in Forcings(N, n)
      BY <3>1, <3>2, <3>3
    <3> QED
      BY <3>4 DEF Keeps
  <2>3. CASE {u1, u2} \subseteq F.forced /\ F.value[u1] - F.value[u2] = d
    <3>1. G = F
      BY <1>4, <2>3 DEF ForceDifference
    <3> QED
      BY <2>3, <3>1, KeepsItself
  <2>4. CASE ~({u1, u2} \subseteq F.forced) /\ ~uicMode
    <3> DEFINE e == <<u1, u2, d>>
               Vs == {v \in [0 .. n -> Int] : v[0] = 0}
               Us == SUBSET (1 .. n)
               Ds == Seq((1 .. n) \X (1 .. n) \X Int)
               Cs == SUBSET (NodeRequests(N) \cup PairRequests(N))
    <3>1. G = [F EXCEPT !.delta = Append(F.delta, e)]
      BY <1>4, <2>4 DEF ForceDifference
    <3>2. e \in (1 .. n) \X (1 .. n) \X Int
      BY <1>1, <2>1
    <3>3. F.delta \in Seq((1 .. n) \X (1 .. n) \X Int)
      BY DEF Forcings
    <3> HIDE DEF e
    <3>4. /\ Append(F.delta, e) \in Seq((1 .. n) \X (1 .. n) \X Int)
          /\ Range(Append(F.delta, e)) = Range(F.delta) \cup {e}
      BY <3>2, <3>3, RangeOfAppend
    <3>5. /\ Forcings(N, n) = [value : Vs, forced : Us, delta : Ds, conflicts : Cs]
          /\ Append(F.delta, e) \in Ds
      BY <3>4 DEF Forcings
    <3> HIDE DEF G, Vs, Us, Ds, Cs
    <3>6. /\ G.value = F.value /\ G.forced = F.forced /\ G.delta = Append(F.delta, e)
          /\ G.conflicts = F.conflicts /\ G \in Forcings(N, n)
      BY <3>1, <3>5
    <3>7. Keeps(F, G) /\ e \in Range(G.delta)
      BY <3>4, <3>6 DEF Keeps
    <3> QED
      BY <2>4, <3>6, <3>7 DEF e
  <2>5. CASE ~({u1, u2} \subseteq F.forced) /\ uicMode
    <3>1. G = ForceApart(F, u1, u2, d)
      BY <1>4, <2>5 DEF ForceDifference
    <3>2. CASE u1 \in F.forced
      <4> DEFINE v == F.value[u1] - d
                 w == [F.value EXCEPT ![u2] = v]
                 S == F.forced \cup {u2}
      <4>1. u2 \notin F.forced /\ u1 # u2
        BY <2>5, <3>2
      <4>2. G = Widened(F, w, S)
        BY <3>1, <3>2 DEF ForceApart, Widened
      <4>3. u1 \in S /\ u2 \in S /\ w[u1] - w[u2] = d
        <5>1. F.value[u1] \in Int /\ w[u1] = F.value[u1] /\ w[u2] = F.value[u1] - d
          BY <1>2, <2>1, <4>1
        <5> HIDE DEF w
        <5> QED
          BY <1>1, <3>2, <5>1
      <4>5. Widens(F, w, S, n)
        <5>1. w \in [0 .. n -> Int] /\ w[0] = 0
          <6>1. v \in Int
            BY <1>1, <1>2, <2>1
          <6> HIDE DEF v
          <6> QED
            BY <1>2, <2>1, <6>1
        <5>2. S \in SUBSET (1 .. n)
          BY <1>2, <2>1
        <5>3. \A i \in F.forced : i \in S /\ w[i] = F.value[i]
          BY <1>1, <1>2, <2>1, <4>1
        <5> HIDE DEF w, S
        <5> QED
          BY <5>1, <5>2, <5>3 DEF Widens
      <4> HIDE DEF w, S, G
      <4>4. /\ G \in Forcings(N, n) /\ Keeps(F, G)
            /\ G.value = w /\ G.forced = S /\ G.delta = F.delta /\ G.conflicts = F.conflicts
        BY <4>2, <4>5, ForcingsWith
      <4> QED
        BY <4>3, <4>4
    <3>3. CASE u1 \notin F.forced /\ u2 \in F.forced
      <4> DEFINE v == F.value[u2] + d
                 w == [F.value EXCEPT ![u1] = v]
                 S == F.forced \cup {u1}
      <4>2. G = Widened(F, w, S)
        BY <3>1, <3>3 DEF ForceApart, Widened
      <4>3. u1 \in S /\ u2 \in S /\ w[u1] - w[u2] = d
        <5>1. F.value[u2] \in Int /\ w[u2] = F.value[u2] /\ w[u1] = F.value[u2] + d
          BY <1>2, <2>1, <3>3
        <5> HIDE DEF w
        <5> QED
          BY <1>1, <3>3, <5>1
      <4>5. Widens(F, w, S, n)
        <5>1. w \in [0 .. n -> Int] /\ w[0] = 0
          <6>1. v \in Int
            BY <1>1, <1>2, <2>1
          <6> HIDE DEF v
          <6> QED
            BY <1>2, <2>1, <6>1
        <5>2. S \in SUBSET (1 .. n)
          BY <1>2, <2>1
        <5>3. \A i \in F.forced : i \in S /\ w[i] = F.value[i]
          BY <1>1, <1>2, <2>1, <3>3
        <5> HIDE DEF w, S
        <5> QED
          BY <5>1, <5>2, <5>3 DEF Widens
      <4> HIDE DEF w, S, G
      <4>4. /\ G \in Forcings(N, n) /\ Keeps(F, G)
            /\ G.value = w /\ G.forced = S /\ G.delta = F.delta /\ G.conflicts = F.conflicts
        BY <4>2, <4>5, ForcingsWith
      <4> QED
        BY <4>3, <4>4
    <3>4. CASE u1 \notin F.forced /\ u2 \notin F.forced
      <4> DEFINE w1 == [F.value EXCEPT ![u1] = d]
                 w == [w1 EXCEPT ![u2] = 0]
                 S == F.forced \cup {u1, u2}
      <4>1. /\ w1 \in [0 .. n -> Int] /\ w1[0] = 0 /\ w1[u1] = d
            /\ \A i \in F.forced : w1[i] = F.value[i]
        BY <1>1, <1>2, <2>1, <3>4
      <4>2. G = Widened(F, w, S)
        BY <3>1, <3>4 DEF ForceApart, Widened
      <4> HIDE DEF w1
      <4>3. u1 \in S /\ u2 \in S /\ (u1 # u2 => w[u1] - w[u2] = d)
        BY <1>1, <2>1, <4>1
      <4>5. Widens(F, w, S, n)
        <5>1. w \in [0 .. n -> Int] /\ w[0] = 0
          BY <1>1, <1>2, <2>1, <3>4, <4>1
        <5>2. S \in SUBSET (1 .. n)
          BY <1>2, <2>1
        <5>3. \A i \in F.forced : i \in S /\ w[i] = F.value[i]
          <6>1. ASSUME NEW i \in F.forced
                PROVE  w[i] = F.value[i]
            <7>1. i \in 0 .. n /\ i # u2 /\ w1[i] = F.value[i]
              BY <1>2, <3>4, <4>1
            <7> QED
              BY <4>1, <7>1
          <6> QED
            BY <6>1
        <5> HIDE DEF w, S
        <5> QED
          BY <5>1, <5>2, <5>3 DEF Widens
      <4> HIDE DEF w, S, G
      <4>4. /\ G \in Forcings(N, n) /\ Keeps(F, G)
            /\ G.value = w /\ G.forced = S /\ G.delta = F.delta /\ G.conflicts = F.conflicts
        BY <4>2, <4>5, ForcingsWith
      <4> QED
        BY <4>3, <4>4
    <3> QED
      BY <3>2, <3>3, <3>4
  <2> QED
    BY <2>2, <2>3, <2>4, <2>5
<1> QED
  BY <1>3, <1>4

\* A step of a loop keeps what was forced; one that makes differences may add to them.
LoopStep(quiet, F, G) == Keeps(F, G) /\ (quiet => G.delta = F.delta)

Loops(quiet, m, A, Step) == \A k \in 1 .. m, F \in A : LoopStep(quiet, F, Step[<<k, F>>])

LEMMA LoopKeeps ==
    ASSUME NEW m \in Nat, NEW A, NEW base, NEW Step, NEW g, InSteps(g, m, A, base, Step),
           NEW quiet \in BOOLEAN, Loops(quiet, m, A, Step)
    PROVE  \A k \in 0 .. m : LoopStep(quiet, g[1 .. k], g[1 .. m])
<1> DEFINE S == {j \in 0 .. m : \A k \in 0 .. j : LoopStep(quiet, g[1 .. k], g[1 .. j])}
<1>1. \A F : LoopStep(quiet, F, F)
  BY KeepsItself DEF LoopStep
<1>2. \A F, G, H : LoopStep(quiet, F, G) /\ LoopStep(quiet, G, H) => LoopStep(quiet, F, H)
  BY KeepsTransitive DEF LoopStep
<1>3. 0 \in S
  <2>1. \A k \in 0 .. 0 : k = 0
    OBVIOUS
  <2> QED
    BY <1>1, <2>1
<1>4. ASSUME NEW j \in 1 .. m, j - 1 \in S
      PROVE  j \in S
  <2>1. j \in 0 .. m /\ j - 1 \in 0 .. m
    OBVIOUS
  <2>2. g[1 .. (j - 1)] \in A /\ g[1 .. j] = Step[<<j, g[1 .. (j - 1)]>>]
    BY <2>1 DEF InSteps
  <2>3. LoopStep(quiet, g[1 .. (j - 1)], g[1 .. j])
    BY <2>2 DEF Loops
  <2>4. ASSUME NEW k \in 0 .. j
        PROVE  LoopStep(quiet, g[1 .. k], g[1 .. j])
    <3>1. CASE k = j
      BY <1>1, <3>1
    <3>2. CASE k # j
      <4>1. k \in 0 .. (j - 1)
        BY <3>2
      <4>2. LoopStep(quiet, g[1 .. k], g[1 .. (j - 1)])
        BY <1>4, <4>1
      <4> QED
        BY <1>2, <2>3, <4>2
    <3> QED
      BY <3>1, <3>2
  <2> QED
    BY <2>1, <2>4
<1> HIDE DEF S
<1>5. 0 .. m \subseteq S
  BY <1>3, <1>4, UpTo
<1>6. m \in S
  BY <1>5
<1> QED
  BY <1>6 DEF S

\* The requests for values.
LEMMA ValuesLoopTells ==
    ASSUME NEW N, NEW n \in Nat, NEW u, \A x \in N : u[x] \in 0 .. n, NEW abort \in BOOLEAN,
           NEW base \in Forcings(N, n), NEW seq \in Seq(NodeRequests(N))
    PROVE  LET R == ValuesLoop(base, seq, u, abort)[DOMAIN seq] IN
           /\ R \in Forcings(N, n) /\ LoopStep(TRUE, base, R)
           /\ (abort => R.conflicts = {}) =>
                 \A k \in DOMAIN seq : u[seq[k][1]] # 0 => ValueMet(seq[k], R, u)
<1> DEFINE m == Len(seq)
           A == Forcings(N, n)
           Do(F, r) == Once(abort, F, ForceUnknown(F, u[r[1]], r[2], r))
           Step == [p \in (1 .. m) \X A |-> Do(p[2], seq[p[1]])]
           D == ValuesLoop(base, seq, u, abort)
<1>1. m \in Nat /\ DOMAIN seq = 1 .. m /\ \A k \in 1 .. m : seq[k] \in NodeRequests(N)
  OBVIOUS
<1>2. ASSUME NEW r \in NodeRequests(N), NEW F \in A
      PROVE  /\ Do(F, r) \in A /\ LoopStep(TRUE, F, Do(F, r))
             /\ ~(abort /\ F.conflicts # {}) => (u[r[1]] # 0 => ValueMet(r, Do(F, r), u))
  <2> DEFINE G == ForceUnknown(F, u[r[1]], r[2], r)
  <2>1. /\ G \in A /\ LoopStep(TRUE, F, G)
        /\ u[r[1]] # 0 => ValueMet(r, G, u)
    <3>1. u[r[1]] \in 0 .. n /\ r[2] \in Int /\ r \in NodeRequests(N) \cup PairRequests(N)
      BY DEF NodeRequests
    <3>2. F \in Forcings(N, n)
      BY DEF A
    <3>3. /\ G \in Forcings(N, n) /\ Keeps(F, G) /\ G.delta = F.delta
          /\ u[r[1]] # 0 => r \in G.conflicts \/ (u[r[1]] \in G.forced /\ G.value[u[r[1]]] = r[2])
      BY <3>1, <3>2, ForceUnknownTells
    <3> HIDE DEF G
    <3> QED
      BY <3>3 DEF A, LoopStep, ValueMet
  <2>2. LoopStep(TRUE, F, F)
    BY KeepsItself DEF LoopStep
  <2>3. Do(F, r) = IF abort /\ F.conflicts # {} THEN F ELSE G
    BY DEF Once
  <2> HIDE DEF Do, G
  <2> QED
    BY <2>1, <2>2, <2>3
<1> HIDE DEF Do, A
<1>3. \A p \in (1 .. m) \X A : p[1] \in 1 .. m /\ p[2] \in A
  OBVIOUS
<1>4. Step \in [(1 .. m) \X A -> A]
  BY <1>1, <1>2, <1>3
<1>5. \A k \in 1 .. m, F \in A : Step[<<k, F>>] = Do(F, seq[k])
  <2>1. \A k \in 1 .. m, F \in A : <<k, F>> \in (1 .. m) \X A
    OBVIOUS
  <2> QED
    BY <2>1
<1>6. base \in A
  BY DEF A
<1> HIDE DEF Step
<1>7. PICK g \in [SUBSET (1 .. m) -> A] : Folds(g, m, base, Step)
  BY <1>1, <1>4, <1>6, FoldExists
<1>8. ASSUME NEW s \in SUBSET (1 .. m), s # {}
      PROVE  Max(s) \in 1 .. m /\ g[s] = Do(g[s \ {Max(s)}], seq[Max(s)])
  <2>1. Max(s) \in s
    BY <1>1, <1>8, GreatestExists
  <2>2. s \ {Max(s)} \in SUBSET (1 .. m) /\ Max(s) \in 1 .. m
    BY <2>1
  <2>3. g[s \ {Max(s)}] \in A
    BY <1>7, <2>2
  <2>4. g[s] = Step[<<Max(s), g[s \ {Max(s)}]>>]
    BY <1>7, <1>8 DEF Folds
  <2> QED
    BY <1>5, <2>2, <2>3, <2>4
<1>9. g[{}] = base /\ g = [s \in SUBSET (1 .. m) |-> g[s]]
  BY <1>7 DEF Folds
<1>10. g = [s \in SUBSET DOMAIN seq |-> IF s = {} THEN base ELSE Do(g[s \ {Max(s)}], seq[Max(s)])]
  BY <1>1, <1>8, <1>9
<1>11. D = [s \in SUBSET DOMAIN seq |-> IF s = {} THEN base ELSE Do(D[s \ {Max(s)}], seq[Max(s)])]
  BY <1>10 DEF ValuesLoop, Do
<1> HIDE DEF D
<1>12. FoldsWithin(D, m, A, base, Step)
  <2>1. D[{}] = base
    BY <1>11
  <2>2. ASSUME NEW s \in SUBSET (1 .. m), s # {}, D[s \ {Max(s)}] \in A
        PROVE  D[s] = Step[<<Max(s), D[s \ {Max(s)}]>>]
    <3>1. D[s] = Do(D[s \ {Max(s)}], seq[Max(s)])
      BY <1>1, <1>11, <2>2
    <3> QED
      BY <1>5, <1>8, <2>2, <3>1
  <2> QED
    BY <2>1, <2>2 DEF FoldsWithin
<1>13. InSteps(D, m, A, base, Step)
  BY <1>1, <1>4, <1>6, <1>12, FoldSteps
<1>14. \A k \in 0 .. m : LoopStep(TRUE, D[1 .. k], D[1 .. m])
  <2>1. Loops(TRUE, m, A, Step)
    BY <1>1, <1>2, <1>5 DEF Loops
  <2> QED
    BY <1>1, <1>13, <2>1, LoopKeeps
<1> DEFINE R == D[1 .. m]
<1>15. R \in A /\ LoopStep(TRUE, base, R) /\ R = D[DOMAIN seq]
  <2>1. 0 \in 0 .. m /\ m \in 0 .. m /\ D[1 .. 0] = base /\ D[1 .. m] \in A
    BY <1>1, <1>13 DEF InSteps
  <2> QED
    BY <1>1, <1>14, <2>1
<1>16. ASSUME abort => R.conflicts = {}, NEW k \in 1 .. m
       PROVE  u[seq[k][1]] # 0 => ValueMet(seq[k], R, u)
  <2> DEFINE F == D[1 .. (k - 1)]
             G == D[1 .. k]
  <2>1. k - 1 \in 0 .. m /\ k \in 0 .. m
    BY <1>1
  <2>2. F \in A /\ G \in A /\ G = Step[<<k, F>>]
    BY <1>13, <2>1 DEF InSteps
  <2>3. LoopStep(TRUE, F, R) /\ LoopStep(TRUE, G, R)
    BY <1>14, <2>1
  <2> HIDE DEF F, G, R
  <2>4. G = Do(F, seq[k]) /\ seq[k] \in NodeRequests(N)
    BY <1>1, <1>5, <2>2
  <2>5. ~(abort /\ F.conflicts # {})
    BY <1>16, <2>3 DEF LoopStep, Keeps
  <2>6. u[seq[k][1]] # 0 => ValueMet(seq[k], G, u)
    BY <1>2, <2>2, <2>4, <2>5
  <2>7. Keeps(G, R) /\ G \in Forcings(N, n) /\ R \in Forcings(N, n)
    BY <1>15, <2>2, <2>3 DEF A, LoopStep
  <2>8. ValueMet(seq[k], G, u) => ValueMet(seq[k], R, u)
    BY <2>7, KeepsMet
  <2> QED
    BY <2>6, <2>8
<1> HIDE DEF R
<1>17. R \in Forcings(N, n)
  BY <1>15 DEF A
<1> QED
  BY <1>1, <1>15, <1>16, <1>17 DEF D

\* A difference to ground, and one between two other unknowns.
ToGround(r, u) == 0 \in {u[r[1]], u[r[2]]} /\ u[r[1]] # u[r[2]]
Between(r, u) == 0 \notin {u[r[1]], u[r[2]]} /\ u[r[1]] # u[r[2]]

\* The differences to ground.
LEMMA GroundLoopTells ==
    ASSUME NEW N, NEW n \in Nat, NEW u, \A x \in N : u[x] \in 0 .. n, NEW abort \in BOOLEAN,
           NEW base \in Forcings(N, n), NEW seq \in Seq(PairRequests(N))
    PROVE  LET R == GroundLoop(base, seq, u, abort)[DOMAIN seq] IN
           /\ R \in Forcings(N, n) /\ LoopStep(TRUE, base, R)
           /\ (abort => R.conflicts = {}) =>
                 \A k \in DOMAIN seq : ToGround(seq[k], u) => DifferenceMet(seq[k], R, u)
<1> DEFINE m == Len(seq)
           A == Forcings(N, n)
           Do(F, r) == Once(abort, F, ForceToGround(F, r, u))
           Step == [p \in (1 .. m) \X A |-> Do(p[2], seq[p[1]])]
           D == GroundLoop(base, seq, u, abort)
<1>1. m \in Nat /\ DOMAIN seq = 1 .. m /\ \A k \in 1 .. m : seq[k] \in PairRequests(N)
  OBVIOUS
<1>2. ASSUME NEW r \in PairRequests(N), NEW F \in A
      PROVE  /\ Do(F, r) \in A /\ LoopStep(TRUE, F, Do(F, r))
             /\ ~(abort /\ F.conflicts # {}) => (ToGround(r, u) => DifferenceMet(r, Do(F, r), u))
  <2> DEFINE G == ForceToGround(F, r, u)
  <2>1. /\ G \in A /\ LoopStep(TRUE, F, G)
        /\ ToGround(r, u) => DifferenceMet(r, G, u)
    <3>1. F \in Forcings(N, n)
      BY DEF A
    <3>2. /\ G \in Forcings(N, n) /\ Keeps(F, G) /\ G.delta = F.delta
          /\ ToGround(r, u) => DifferenceMet(r, G, u)
      BY <3>1, ForceToGroundTells DEF ToGround
    <3> HIDE DEF G
    <3> QED
      BY <3>2 DEF A, LoopStep
  <2>2. LoopStep(TRUE, F, F)
    BY KeepsItself DEF LoopStep
  <2>3. Do(F, r) = IF abort /\ F.conflicts # {} THEN F ELSE G
    BY DEF Once
  <2> HIDE DEF Do, G
  <2> QED
    BY <2>1, <2>2, <2>3
<1> HIDE DEF Do, A
<1>3. \A p \in (1 .. m) \X A : p[1] \in 1 .. m /\ p[2] \in A
  OBVIOUS
<1>4. Step \in [(1 .. m) \X A -> A]
  BY <1>1, <1>2, <1>3
<1>5. \A k \in 1 .. m, F \in A : Step[<<k, F>>] = Do(F, seq[k])
  <2>1. \A k \in 1 .. m, F \in A : <<k, F>> \in (1 .. m) \X A
    OBVIOUS
  <2> QED
    BY <2>1
<1>6. base \in A
  BY DEF A
<1> HIDE DEF Step
<1>7. PICK g \in [SUBSET (1 .. m) -> A] : Folds(g, m, base, Step)
  BY <1>1, <1>4, <1>6, FoldExists
<1>8. ASSUME NEW s \in SUBSET (1 .. m), s # {}
      PROVE  Max(s) \in 1 .. m /\ g[s] = Do(g[s \ {Max(s)}], seq[Max(s)])
  <2>1. Max(s) \in s
    BY <1>1, <1>8, GreatestExists
  <2>2. s \ {Max(s)} \in SUBSET (1 .. m) /\ Max(s) \in 1 .. m
    BY <2>1
  <2>3. g[s \ {Max(s)}] \in A
    BY <1>7, <2>2
  <2>4. g[s] = Step[<<Max(s), g[s \ {Max(s)}]>>]
    BY <1>7, <1>8 DEF Folds
  <2> QED
    BY <1>5, <2>2, <2>3, <2>4
<1>9. g[{}] = base /\ g = [s \in SUBSET (1 .. m) |-> g[s]]
  BY <1>7 DEF Folds
<1>10. g = [s \in SUBSET DOMAIN seq |-> IF s = {} THEN base ELSE Do(g[s \ {Max(s)}], seq[Max(s)])]
  BY <1>1, <1>8, <1>9
<1>11. D = [s \in SUBSET DOMAIN seq |-> IF s = {} THEN base ELSE Do(D[s \ {Max(s)}], seq[Max(s)])]
  BY <1>10 DEF GroundLoop, Do
<1> HIDE DEF D
<1>12. FoldsWithin(D, m, A, base, Step)
  <2>1. D[{}] = base
    BY <1>11
  <2>2. ASSUME NEW s \in SUBSET (1 .. m), s # {}, D[s \ {Max(s)}] \in A
        PROVE  D[s] = Step[<<Max(s), D[s \ {Max(s)}]>>]
    <3>1. D[s] = Do(D[s \ {Max(s)}], seq[Max(s)])
      BY <1>1, <1>11, <2>2
    <3> QED
      BY <1>5, <1>8, <2>2, <3>1
  <2> QED
    BY <2>1, <2>2 DEF FoldsWithin
<1>13. InSteps(D, m, A, base, Step)
  BY <1>1, <1>4, <1>6, <1>12, FoldSteps
<1>14. \A k \in 0 .. m : LoopStep(TRUE, D[1 .. k], D[1 .. m])
  <2>1. Loops(TRUE, m, A, Step)
    BY <1>1, <1>2, <1>5 DEF Loops
  <2> QED
    BY <1>1, <1>13, <2>1, LoopKeeps
<1> DEFINE R == D[1 .. m]
<1>15. R \in A /\ LoopStep(TRUE, base, R) /\ R = D[DOMAIN seq]
  <2>1. 0 \in 0 .. m /\ m \in 0 .. m /\ D[1 .. 0] = base /\ D[1 .. m] \in A
    BY <1>1, <1>13 DEF InSteps
  <2> QED
    BY <1>1, <1>14, <2>1
<1>16. ASSUME abort => R.conflicts = {}, NEW k \in 1 .. m
       PROVE  ToGround(seq[k], u) => DifferenceMet(seq[k], R, u)
  <2> DEFINE F == D[1 .. (k - 1)]
             G == D[1 .. k]
  <2>1. k - 1 \in 0 .. m /\ k \in 0 .. m
    BY <1>1
  <2>2. F \in A /\ G \in A /\ G = Step[<<k, F>>]
    BY <1>13, <2>1 DEF InSteps
  <2>3. LoopStep(TRUE, F, R) /\ LoopStep(TRUE, G, R)
    BY <1>14, <2>1
  <2> HIDE DEF F, G, R
  <2>4. G = Do(F, seq[k]) /\ seq[k] \in PairRequests(N)
    BY <1>1, <1>5, <2>2
  <2>5. ~(abort /\ F.conflicts # {})
    BY <1>16, <2>3 DEF LoopStep, Keeps
  <2>6. ToGround(seq[k], u) => DifferenceMet(seq[k], G, u)
    BY <1>2, <2>2, <2>4, <2>5
  <2>7. Keeps(G, R) /\ G \in Forcings(N, n) /\ R \in Forcings(N, n)
    BY <1>15, <2>2, <2>3 DEF A, LoopStep
  <2>8. DifferenceMet(seq[k], G, u) => DifferenceMet(seq[k], R, u)
    BY <2>7, KeepsMet
  <2> QED
    BY <2>6, <2>8
<1> HIDE DEF R
<1>17. R \in Forcings(N, n)
  BY <1>15 DEF A
<1> QED
  BY <1>1, <1>15, <1>16, <1>17 DEF D

\* The other differences.
LEMMA DifferencesLoopTells ==
    ASSUME NEW N, NEW n \in Nat, NEW u, \A x \in N : u[x] \in 0 .. n, NEW abort \in BOOLEAN,
           NEW uicMode \in BOOLEAN, NEW base \in Forcings(N, n), NEW seq \in Seq(PairRequests(N))
    PROVE  LET R == DifferencesLoop(base, seq, u, uicMode, abort)[DOMAIN seq] IN
           /\ R \in Forcings(N, n) /\ LoopStep(uicMode, base, R)
           /\ (abort => R.conflicts = {}) =>
                 \A k \in DOMAIN seq : Between(seq[k], u) => DifferenceMet(seq[k], R, u)
<1> DEFINE m == Len(seq)
           A == Forcings(N, n)
           Do(F, r) == Once(abort, F, ForceDifference(F, r, u, uicMode))
           Step == [p \in (1 .. m) \X A |-> Do(p[2], seq[p[1]])]
           D == DifferencesLoop(base, seq, u, uicMode, abort)
<1>1. m \in Nat /\ DOMAIN seq = 1 .. m /\ \A k \in 1 .. m : seq[k] \in PairRequests(N)
  OBVIOUS
<1>2. ASSUME NEW r \in PairRequests(N), NEW F \in A
      PROVE  /\ Do(F, r) \in A /\ LoopStep(uicMode, F, Do(F, r))
             /\ ~(abort /\ F.conflicts # {}) => (Between(r, u) => DifferenceMet(r, Do(F, r), u))
  <2> DEFINE G == ForceDifference(F, r, u, uicMode)
  <2>1. /\ G \in A /\ LoopStep(uicMode, F, G)
        /\ Between(r, u) => DifferenceMet(r, G, u)
    <3>1. F \in Forcings(N, n)
      BY DEF A
    <3>2. /\ G \in Forcings(N, n) /\ Keeps(F, G) /\ (uicMode => G.delta = F.delta)
          /\ Between(r, u) => DifferenceMet(r, G, u)
      BY <3>1, ForceDifferenceTells DEF Between
    <3> HIDE DEF G
    <3> QED
      BY <3>2 DEF A, LoopStep
  <2>2. LoopStep(uicMode, F, F)
    BY KeepsItself DEF LoopStep
  <2>3. Do(F, r) = IF abort /\ F.conflicts # {} THEN F ELSE G
    BY DEF Once
  <2> HIDE DEF Do, G
  <2> QED
    BY <2>1, <2>2, <2>3
<1> HIDE DEF Do, A
<1>3. \A p \in (1 .. m) \X A : p[1] \in 1 .. m /\ p[2] \in A
  OBVIOUS
<1>4. Step \in [(1 .. m) \X A -> A]
  BY <1>1, <1>2, <1>3
<1>5. \A k \in 1 .. m, F \in A : Step[<<k, F>>] = Do(F, seq[k])
  <2>1. \A k \in 1 .. m, F \in A : <<k, F>> \in (1 .. m) \X A
    OBVIOUS
  <2> QED
    BY <2>1
<1>6. base \in A
  BY DEF A
<1> HIDE DEF Step
<1>7. PICK g \in [SUBSET (1 .. m) -> A] : Folds(g, m, base, Step)
  BY <1>1, <1>4, <1>6, FoldExists
<1>8. ASSUME NEW s \in SUBSET (1 .. m), s # {}
      PROVE  Max(s) \in 1 .. m /\ g[s] = Do(g[s \ {Max(s)}], seq[Max(s)])
  <2>1. Max(s) \in s
    BY <1>1, <1>8, GreatestExists
  <2>2. s \ {Max(s)} \in SUBSET (1 .. m) /\ Max(s) \in 1 .. m
    BY <2>1
  <2>3. g[s \ {Max(s)}] \in A
    BY <1>7, <2>2
  <2>4. g[s] = Step[<<Max(s), g[s \ {Max(s)}]>>]
    BY <1>7, <1>8 DEF Folds
  <2> QED
    BY <1>5, <2>2, <2>3, <2>4
<1>9. g[{}] = base /\ g = [s \in SUBSET (1 .. m) |-> g[s]]
  BY <1>7 DEF Folds
<1>10. g = [s \in SUBSET DOMAIN seq |-> IF s = {} THEN base ELSE Do(g[s \ {Max(s)}], seq[Max(s)])]
  BY <1>1, <1>8, <1>9
<1>11. D = [s \in SUBSET DOMAIN seq |-> IF s = {} THEN base ELSE Do(D[s \ {Max(s)}], seq[Max(s)])]
  BY <1>10 DEF DifferencesLoop, Do
<1> HIDE DEF D
<1>12. FoldsWithin(D, m, A, base, Step)
  <2>1. D[{}] = base
    BY <1>11
  <2>2. ASSUME NEW s \in SUBSET (1 .. m), s # {}, D[s \ {Max(s)}] \in A
        PROVE  D[s] = Step[<<Max(s), D[s \ {Max(s)}]>>]
    <3>1. D[s] = Do(D[s \ {Max(s)}], seq[Max(s)])
      BY <1>1, <1>11, <2>2
    <3> QED
      BY <1>5, <1>8, <2>2, <3>1
  <2> QED
    BY <2>1, <2>2 DEF FoldsWithin
<1>13. InSteps(D, m, A, base, Step)
  BY <1>1, <1>4, <1>6, <1>12, FoldSteps
<1>14. \A k \in 0 .. m : LoopStep(uicMode, D[1 .. k], D[1 .. m])
  <2>1. Loops(uicMode, m, A, Step)
    BY <1>1, <1>2, <1>5 DEF Loops
  <2> QED
    BY <1>1, <1>13, <2>1, LoopKeeps
<1> DEFINE R == D[1 .. m]
<1>15. R \in A /\ LoopStep(uicMode, base, R) /\ R = D[DOMAIN seq]
  <2>1. 0 \in 0 .. m /\ m \in 0 .. m /\ D[1 .. 0] = base /\ D[1 .. m] \in A
    BY <1>1, <1>13 DEF InSteps
  <2> QED
    BY <1>1, <1>14, <2>1
<1>16. ASSUME abort => R.conflicts = {}, NEW k \in 1 .. m
       PROVE  Between(seq[k], u) => DifferenceMet(seq[k], R, u)
  <2> DEFINE F == D[1 .. (k - 1)]
             G == D[1 .. k]
  <2>1. k - 1 \in 0 .. m /\ k \in 0 .. m
    BY <1>1
  <2>2. F \in A /\ G \in A /\ G = Step[<<k, F>>]
    BY <1>13, <2>1 DEF InSteps
  <2>3. LoopStep(uicMode, F, R) /\ LoopStep(uicMode, G, R)
    BY <1>14, <2>1
  <2> HIDE DEF F, G, R
  <2>4. G = Do(F, seq[k]) /\ seq[k] \in PairRequests(N)
    BY <1>1, <1>5, <2>2
  <2>5. ~(abort /\ F.conflicts # {})
    BY <1>16, <2>3 DEF LoopStep, Keeps
  <2>6. Between(seq[k], u) => DifferenceMet(seq[k], G, u)
    BY <1>2, <2>2, <2>4, <2>5
  <2>7. Keeps(G, R) /\ G \in Forcings(N, n) /\ R \in Forcings(N, n)
    BY <1>15, <2>2, <2>3 DEF A, LoopStep
  <2>8. DifferenceMet(seq[k], G, u) => DifferenceMet(seq[k], R, u)
    BY <2>7, KeepsMet
  <2> QED
    BY <2>6, <2>8
<1> HIDE DEF R
<1>17. R \in Forcings(N, n)
  BY <1>15 DEF A
<1> QED
  BY <1>1, <1>15, <1>16, <1>17 DEF D

\* The unknowns of nodes N are 0 to n.
Placed(N, u, n) == \A x \in N : u[x] \in 0 .. n

\* What setForces() makes of a request.
Realised(request, F, u, uicMode, abort) ==
    /\ uicMode => F.delta = <<>>
    /\ (abort => F.conflicts = {}) =>
          /\ \A r \in Range(request.nodes) : u[r[1]] # 0 => ValueMet(r, F, u)
          /\ \A r \in Range(request.pairs) : u[r[1]] # u[r[2]] => DifferenceMet(r, F, u)

\* setForces() meets or reports every request, unless it was left early.
LEMMA RequestsMet ==
    ASSUME NEW N, NEW n \in Nat, NEW u, Placed(N, u, n),
           NEW uicMode \in BOOLEAN, NEW abort \in BOOLEAN, NEW request \in Decoded(N)
    PROVE  Realised(request, UserForces(request, u, n, uicMode, abort), u, uicMode, abort)
<1>0. \A x \in N : u[x] \in 0 .. n
  BY DEF Placed
<1> DEFINE nodes == request.nodes
           pairs == request.pairs
           F0 == NoForces(n)
           F1 == ValuesLoop(F0, nodes, u, abort)[DOMAIN nodes]
           F2 == GroundLoop(F1, pairs, u, abort)[DOMAIN pairs]
           F == DifferencesLoop(F2, pairs, u, uicMode, abort)[DOMAIN pairs]
<1>1. nodes \in Seq(NodeRequests(N)) /\ pairs \in Seq(PairRequests(N))
  BY DEF Decoded
<1>2. F0 \in Forcings(N, n) /\ F0.delta = <<>>
  <2> DEFINE Ds == Seq((1 .. n) \X (1 .. n) \X Int)
             Vs == {v \in [0 .. n -> Int] : v[0] = 0}
             zeros == [i \in 0 .. n |-> 0]
             Cs == SUBSET (NodeRequests(N) \cup PairRequests(N))
  <2>1. <<>> \in Ds
    OBVIOUS
  <2>2. zeros \in Vs
    OBVIOUS
  <2>3. /\ Forcings(N, n) = [value : Vs, forced : SUBSET (1 .. n), delta : Ds, conflicts : Cs]
        /\ F0 = [value |-> zeros, forced |-> {}, delta |-> <<>>, conflicts |-> {}]
        /\ {} \in Cs
    BY DEF Forcings, NoForces
  <2> HIDE DEF Ds, Vs, zeros, Cs, F0
  <2> QED
    BY <2>1, <2>2, <2>3
<1> HIDE DEF nodes, pairs, F0
<1>3. /\ F1 \in Forcings(N, n) /\ LoopStep(TRUE, F0, F1)
      /\ (abort => F1.conflicts = {}) =>
            \A k \in DOMAIN nodes : u[nodes[k][1]] # 0 => ValueMet(nodes[k], F1, u)
  BY <1>0, <1>1, <1>2, ValuesLoopTells
<1> HIDE DEF F1
<1>4. /\ F2 \in Forcings(N, n) /\ LoopStep(TRUE, F1, F2)
      /\ (abort => F2.conflicts = {}) =>
            \A k \in DOMAIN pairs :
                ToGround(pairs[k], u)
                => DifferenceMet(pairs[k], F2, u)
  BY <1>0, <1>1, <1>3, GroundLoopTells
<1> HIDE DEF F2
<1>5. /\ F \in Forcings(N, n) /\ LoopStep(uicMode, F2, F)
      /\ (abort => F.conflicts = {}) =>
            \A k \in DOMAIN pairs :
                Between(pairs[k], u)
                => DifferenceMet(pairs[k], F, u)
  BY <1>0, <1>1, <1>4, DifferencesLoopTells
<1> HIDE DEF F
<1>6. F = UserForces(request, u, n, uicMode, abort)
  BY ForcesLoops DEF F, F2, F1, F0, nodes, pairs
<1>7. uicMode => F.delta = <<>>
  BY <1>2, <1>3, <1>4, <1>5 DEF LoopStep
<1>8. Keeps(F1, F2) /\ Keeps(F2, F) /\ Keeps(F1, F)
  BY <1>3, <1>4, <1>5, KeepsTransitive DEF LoopStep
<1>9. ASSUME abort => F.conflicts = {}
      PROVE  (abort => F1.conflicts = {}) /\ (abort => F2.conflicts = {})
  BY <1>8, <1>9 DEF Keeps
<1>10. ASSUME abort => F.conflicts = {}, NEW r \in Range(nodes), u[r[1]] # 0
       PROVE  ValueMet(r, F, u)
  <2>1. PICK k \in DOMAIN nodes : r = nodes[k]
    BY <1>10 DEF Range
  <2>2. ValueMet(r, F1, u)
    BY <1>3, <1>9, <1>10, <2>1
  <2> QED
    BY <1>3, <1>5, <1>8, <2>2, KeepsMet
<1>11. ASSUME abort => F.conflicts = {}, NEW r \in Range(pairs), u[r[1]] # u[r[2]]
       PROVE  DifferenceMet(r, F, u)
  <2>1. PICK k \in DOMAIN pairs : r = pairs[k]
    BY <1>11 DEF Range
  <2>2. CASE 0 \in {u[r[1]], u[r[2]]}
    <3>1. DifferenceMet(r, F2, u)
      BY <1>4, <1>9, <1>11, <2>1, <2>2 DEF ToGround
    <3> QED
      BY <1>4, <1>5, <1>8, <3>1, KeepsMet
  <2>3. CASE 0 \notin {u[r[1]], u[r[2]]}
    BY <1>5, <1>11, <2>1, <2>3 DEF Between
  <2> QED
    BY <2>2, <2>3
<1> QED
  BY <1>6, <1>7, <1>10, <1>11 DEF nodes, pairs, Realised

-----------------------------------------------------------------------------
(* From the list to the forces an analysis is bound to                      *)

\* An analysis holds a request that covers its list, and the forces it is bound to are
\* those of the request.
RequestInv ==
    /\ run.stage # "idle" =>
          /\ "ask" \in DOMAIN run /\ "request" \in DOMAIN run /\ "stage" \in DOMAIN run
          /\ run.ask \in Requests
          /\ run.request \in Decoded(nodeMap)
          /\ \A r \in ValuesWanted(run.ask.items) : r[1] \in nodeMap => r \in Range(run.request.nodes)
          /\ \A r \in DifferencesWanted(run.ask.items) :
                {r[1], r[2]} \subseteq nodeMap => r \in Range(run.request.pairs)
    /\ run.stage = "bound" => "forces" \in DOMAIN bound
    /\ ForcesAsRequested

\* What was requested stays requested while the nodes and the request do.
LEMMA RequestStays ==
    ASSUME RequestInv, UNCHANGED nodeMap,
           run' = run \/ (run.stage # "idle" /\ \E s : run' = [run EXCEPT !.stage = s]),
           run'.stage = "bound" => run.stage = "bound" /\ UNCHANGED <<bound, unknownIndex>>,
           run'.stage = "uic" => run.stage = "uic" /\ UNCHANGED <<bound, unknownIndex>>
    PROVE  RequestInv'
<1>1. run'.stage # "idle" =>
          /\ run.stage # "idle" /\ "ask" \in DOMAIN run' /\ "request" \in DOMAIN run' /\ "stage" \in DOMAIN run'
          /\ run'.ask = run.ask /\ run'.request = run.request
  BY DEF RequestInv
<1>2. Decoded(nodeMap)' = Decoded(nodeMap)
  OBVIOUS
<1>3. ForcesAsRequested'
  <2> SUFFICES ASSUME run'.stage \in {"bound", "uic"}
               PROVE  ForcesAsRequested'
    BY DEF ForcesAsRequested
  <2>1. run'.stage = run.stage /\ run'.ask = run.ask /\ UNCHANGED <<bound, unknownIndex, nodeMap>>
    BY <1>1
  <2> QED
    BY <2>1 DEF RequestInv, ForcesAsRequested
<1> QED
  BY <1>1, <1>2, <1>3 DEF RequestInv

\* The forces of a request, on the unknowns of the mapping there is.
LEMMA ForcesOfRequest ==
    ASSUME IInv, phase = "built", RequestInv, run.stage # "idle", NEW uicMode \in BOOLEAN, NEW F,
           F = UserForces(run.request, unknownIndex, unknownCount, uicMode, run.ask.strict),
           ~(run.ask.strict /\ F.conflicts # {})
    PROVE  /\ uicMode => F.delta = <<>>
           /\ \A r \in ValuesWanted(run.ask.items) :
                 r[1] \in nodeMap /\ unknownIndex[r[1]] # 0 => ValueMet(r, F, unknownIndex)
           /\ \A r \in DifferencesWanted(run.ask.items) :
                 {r[1], r[2]} \subseteq nodeMap /\ unknownIndex[r[1]] # unknownIndex[r[2]] =>
                       DifferenceMet(r, F, unknownIndex)
<1>1. unknownCount \in Nat /\ \A x \in nodeMap : unknownIndex[x] \in 0 .. unknownCount
  BY DEF IInv, TypeOK, NumberedWithoutGaps
<1>2. /\ run.ask.strict \in BOOLEAN /\ run.request \in Decoded(nodeMap)
      /\ \A r \in ValuesWanted(run.ask.items) : r[1] \in nodeMap => r \in Range(run.request.nodes)
      /\ \A r \in DifferencesWanted(run.ask.items) :
            {r[1], r[2]} \subseteq nodeMap => r \in Range(run.request.pairs)
  BY RequestsAssumption DEF RequestInv
<1> DEFINE request == run.request
           strict == run.ask.strict
<1> HIDE DEF request, strict
<1>3. request \in Decoded(nodeMap) /\ strict \in BOOLEAN
  BY <1>2 DEF request, strict
<1>4. F = UserForces(request, unknownIndex, unknownCount, uicMode, strict)
  BY DEF request, strict
<1>5. /\ uicMode => F.delta = <<>>
      /\ (strict => F.conflicts = {}) =>
            /\ \A r \in Range(request.nodes) : unknownIndex[r[1]] # 0 => ValueMet(r, F, unknownIndex)
            /\ \A r \in Range(request.pairs) :
                  unknownIndex[r[1]] # unknownIndex[r[2]] => DifferenceMet(r, F, unknownIndex)
  <2>1. Placed(nodeMap, unknownIndex, unknownCount)
    BY <1>1 DEF Placed
  <2>2. Realised(request, UserForces(request, unknownIndex, unknownCount, uicMode, strict),
                 unknownIndex, uicMode, strict)
    BY <1>1, <1>3, <2>1, RequestsMet
  <2>3. Realised(request, F, unknownIndex, uicMode, strict)
    BY <1>4, <2>2
  <2> QED
    BY <2>3 DEF Realised
<1>6. strict => F.conflicts = {}
  BY DEF strict
<1> QED
  BY <1>2, <1>5, <1>6 DEF request

LEMMA RebuildRequested ==
    ASSUME IInv, RequestInv, NEW binds \in {1, 2}, RebuildCores(binds)
    PROVE  RequestInv'
<1> DEFINE F == UserForces(run.request, unknownIndex, unknownCount, FALSE, run.ask.strict)
<1>1. /\ phase = "built" /\ run.stage = "ready"
      /\ UNCHANGED <<nodeMap, unknownIndex, unknownCount>>
  BY DEF RebuildCores, vars
<1>2. CASE run.ask.strict /\ F.conflicts # {}
  <2>1. run' = Idle
    BY <1>2 DEF RebuildCores
  <2> QED
    BY <2>1 DEF Idle, RequestInv, ForcesAsRequested
<1>3. CASE ~(run.ask.strict /\ F.conflicts # {})
  <2>1. /\ run' = [run EXCEPT !.stage = "bound"]
        /\ \E loose \in {{}, Nodes} : bound' = BoundSystem(F, loose)
    BY <1>3 DEF RebuildCores
  <2>2. "forces" \in DOMAIN bound' /\ bound'.forces = F
    <3> HIDE DEF F
    <3> QED
      BY <2>1 DEF BoundSystem
  <2>3. /\ run'.stage = "bound" /\ run'.ask = run.ask /\ run'.request = run.request
        /\ "ask" \in DOMAIN run' /\ "request" \in DOMAIN run' /\ "stage" \in DOMAIN run'
    BY <1>1, <2>1 DEF RequestInv
  <2> HIDE DEF F
  <2>4. /\ \A r \in ValuesWanted(run.ask.items) :
              r[1] \in nodeMap /\ unknownIndex[r[1]] # 0 => ValueMet(r, F, unknownIndex)
        /\ \A r \in DifferencesWanted(run.ask.items) :
              {r[1], r[2]} \subseteq nodeMap /\ unknownIndex[r[1]] # unknownIndex[r[2]] =>
                    DifferenceMet(r, F, unknownIndex)
    <3>1. F = UserForces(run.request, unknownIndex, unknownCount, FALSE, run.ask.strict)
      BY DEF F
    <3> QED
      BY <1>1, <1>3, <3>1, ForcesOfRequest
  <2>5. ForcesAsRequested'
    BY <1>1, <2>2, <2>3, <2>4 DEF ForcesAsRequested, ValueMet, DifferenceMet
  <2> QED
    BY <1>1, <2>2, <2>3, <2>5 DEF RequestInv, Decoded
<1> QED
  BY <1>2, <1>3

LEMMA ConditionsRequested ==
    ASSUME IInv, AssemblyInv, RequestInv, SetInitialConditions
    PROVE  RequestInv'
<1> DEFINE F == UserForces(run.request, unknownIndex, unknownCount, TRUE, run.ask.strict)
<1>1. /\ phase = "built" /\ run.stage = "bound" /\ "forces" \in DOMAIN bound
      /\ UNCHANGED <<nodeMap, unknownIndex, unknownCount>>
  BY DEF SetInitialConditions, vars, AssemblyInv, RequestInv
<1>2. CASE run.ask.strict /\ F.conflicts # {}
  <2>1. run' = Idle
    BY <1>2 DEF SetInitialConditions
  <2> QED
    BY <2>1 DEF Idle, RequestInv, ForcesAsRequested
<1>3. CASE ~(run.ask.strict /\ F.conflicts # {})
  <2>1. /\ run' = [run EXCEPT !.stage = "uic"]
        /\ bound' = [bound EXCEPT !.forces = F]
    BY <1>3 DEF SetInitialConditions
  <2> HIDE DEF F
  <2>2. bound'.forces = F
    BY <1>1, <2>1
  <2>3. /\ run'.stage = "uic" /\ run'.ask = run.ask /\ run'.request = run.request
        /\ "ask" \in DOMAIN run' /\ "request" \in DOMAIN run' /\ "stage" \in DOMAIN run'
    BY <1>1, <2>1 DEF RequestInv
  <2>4. /\ F.delta = <<>>
        /\ \A r \in ValuesWanted(run.ask.items) :
              r[1] \in nodeMap /\ unknownIndex[r[1]] # 0 => ValueMet(r, F, unknownIndex)
        /\ \A r \in DifferencesWanted(run.ask.items) :
              {r[1], r[2]} \subseteq nodeMap /\ unknownIndex[r[1]] # unknownIndex[r[2]] =>
                    DifferenceMet(r, F, unknownIndex)
    <3>1. F = UserForces(run.request, unknownIndex, unknownCount, TRUE, run.ask.strict)
      BY DEF F
    <3> QED
      BY <1>1, <1>3, <3>1, ForcesOfRequest
  <2>5. ForcesAsRequested'
    BY <1>1, <2>2, <2>3, <2>4 DEF ForcesAsRequested, ValueMet, DifferenceMet
  <2> QED
    BY <1>1, <2>3, <2>5 DEF RequestInv, Decoded
<1> QED
  BY <1>2, <1>3

LEMMA RequestStep ==
    IInv /\ AssemblyInv /\ RequestInv /\ [AssemblyNext]_<<vars, assembly>> => RequestInv'
<1> SUFFICES ASSUME IInv, AssemblyInv, RequestInv, [AssemblyNext]_<<vars, assembly>>
             PROVE  RequestInv'
  OBVIOUS
<1>1. CASE ChangeCircuit
  <2>1. run.stage = "idle" /\ run' = run
    BY <1>1 DEF ChangeCircuit, assembly
  <2> QED
    BY <2>1 DEF RequestInv, ForcesAsRequested
<1>2. CASE BeginMapUnknowns \/ CollapsePair \/ FinishMapUnknowns
  <2>1. phase \in {"changed", "collapsing"} /\ run' = run /\ nodeMap' = nodeMap
    BY <1>2 DEF BeginMapUnknowns, BeginMapping, CollapsePair, CollapseNodes, FinishMapUnknowns,
                FinishMapping, assembly
  <2>2. run.stage \notin {"bound", "uic"}
    BY <2>1 DEF AssemblyInv
  <2> QED
    BY <2>1, <2>2, RequestStays
<1>3. CASE BuildSystem \/ RebuildSystem
  <2>1. /\ phase = "mapped" \/ run.stage = "decoded"
        /\ nodeMap' = nodeMap
        /\ run' = IF run.stage = "decoded" THEN [run EXCEPT !.stage = "ready"] ELSE run
    BY <1>3 DEF BuildSystem, RebuildSystem, BuildDiagonal, Populate, vars
  <2>2. run.stage \notin {"bound", "uic"}
    BY <2>1 DEF AssemblyInv
  <2>3. run' = run \/ (run.stage # "idle" /\ \E s : run' = [run EXCEPT !.stage = s])
    BY <2>1
  <2>4. run'.stage \notin {"bound", "uic"}
    BY <2>1, <2>2 DEF AssemblyInv
  <2> QED
    BY <2>1, <2>3, <2>4, RequestStays
<1>4. CASE \E ask \in Requests : PreMapping(ask)
  <2>1. PICK ask \in Requests : PreMapping(ask)
    BY <1>4
  <2> DEFINE request == Preprocessed(ask.items, nodeMap, unknownIndex, sparsity)
  <2>2. /\ request.ok /\ nodeMap' = nodeMap
        /\ run'.stage \in {"ready", "decoded"} /\ run'.ask = ask /\ run'.request = request
        /\ DOMAIN run' = {"stage", "ask", "request", "current"}
    <3> HIDE DEF request
    <3>1. /\ request.ok /\ nodeMap' = nodeMap
          /\ run' = [stage |-> IF phase = "built" /\ request.complete THEN "ready" ELSE "decoded",
                     ask |-> ask, request |-> request, current |-> phase = "built"]
      BY <2>1 DEF PreMapping, vars, request
    <3> QED
      BY <3>1
  <2>3. Readable(ask.items) /\ NoNode \notin nodeMap
    BY RequestsAssumption, NodeAssumption DEF Readable, IInv, TypeOK
  <2>4. /\ request \in Decoded(nodeMap)
        /\ \A r \in ValuesWanted(ask.items) : r[1] \in nodeMap => r \in Range(request.nodes)
        /\ \A r \in DifferencesWanted(ask.items) :
              {r[1], r[2]} \subseteq nodeMap => r \in Range(request.pairs)
    BY <2>2, <2>3, AllRequested
  <2> HIDE DEF request
  <2>5. ForcesAsRequested'
    BY <2>2 DEF ForcesAsRequested
  <2> QED
    BY <2>2, <2>4, <2>5 DEF RequestInv, Decoded
<1>5. CASE RebuildOp \/ RebuildTran
  BY <1>5, RebuildRequested DEF RebuildOp, RebuildTran
<1>6. CASE SetInitialConditions
  BY <1>6, ConditionsRequested
<1>7. CASE FinishAnalysis
  BY <1>7 DEF FinishAnalysis, Idle, RequestInv, ForcesAsRequested
<1>8. CASE \E sol \in Solutions : LoadOp(sol)
  <2>1. /\ nodeMap' = nodeMap /\ run.stage \in {"bound", "loaded"}
        /\ run' = [run EXCEPT !.stage = "loaded"]
    BY <1>8 DEF LoadOp, vars
  <2>2. run'.stage = "loaded" /\ run.stage # "idle"
    BY <2>1 DEF AssemblyInv
  <2>3. \E s : run' = [run EXCEPT !.stage = s]
    BY <2>1
  <2> QED
    BY <2>1, <2>2, <2>3, RequestStays
<1>9. CASE \E sol \in Solutions, near \in BOOLEAN : LoadTran(sol, near)
  <2>1. UNCHANGED <<nodeMap, unknownIndex, run, bound>>
    BY <1>9 DEF LoadTran, vars
  <2> QED
    BY <2>1, RequestStays
<1>10. CASE UNCHANGED <<vars, assembly>>
  <2>1. UNCHANGED <<nodeMap, unknownIndex, run, bound>>
    BY <1>10 DEF vars, assembly
  <2> QED
    BY <2>1, RequestStays
<1> QED
  BY <1>1, <1>2, <1>3, <1>4, <1>5, <1>6, <1>7, <1>8, <1>9, <1>10 DEF AssemblyNext

\* Whatever list of nodesets or initial conditions an analysis was given and however the
\* circuit was mapped since, what the list asks of nodes the circuit has is forced, or
\* reported as a conflict, once the analysis is bound to it.
THEOREM RequestsAreForced == AssemblySpec => []ForcesAsRequested
<1>1. AssemblyInit => AssemblyInv /\ RequestInv
  BY DEF AssemblyInit, Init, Idle, AssemblyInv, SharedEquationsAreChecked, RequestInv, ForcesAsRequested
<1>2. RequestInv => ForcesAsRequested
  BY DEF RequestInv
<1> QED
  BY <1>1, <1>2, AssemblyMaps, Invariance, RepresentedAlways, AssemblyStep, RequestStep, PTL DEF AssemblySpec
=============================================================================
