------------------------------- MODULE Forces -------------------------------
(***************************************************************************)
(* Nodesets and initial conditions (lib/coreopnr.cpp).  The user's list is *)
(* decoded into node and pair requests before the circuit is mapped        *)
(* (PreprocessedUserForces::set), turned into forces on unknowns and       *)
(* differences of unknowns after it (setForces), and loaded into the       *)
(* linearized system (loadForces).                                         *)
(*                                                                         *)
(* An item of the list is a record: type "string" with a name, "number"    *)
(* with a value, or another type.                                          *)
(***************************************************************************)
EXTENDS SparseMatrix

CONSTANT Nothing        \* no node; a name that is not in the circuit has none

-----------------------------------------------------------------------------
(* PreprocessedUserForces::set()                                            *)

Undecoded == [state |-> 0, node1 |-> Nothing, node2 |-> Nothing,
              nodes |-> <<>>, pairs |-> <<>>, complete |-> TRUE, ok |-> TRUE]

\* A request for a pair needs both entries off the diagonal.
EntriesExist(u1, u2, positions) == {<<u1, u2>>, <<u2, u1>>} \subseteq positions

\* One item; N are the circuit's nodes, u their unknowns, positions the
\* entries of the sparsity map at this moment.
Decode(acc, item, N, u, positions) ==
    LET Found == IF item.type = "string" /\ item.name \in N THEN item.name ELSE Nothing
    IN  CASE ~acc.ok -> acc
          [] acc.ok /\ acc.state = 0 /\ item.type = "string" ->
                [acc EXCEPT !.node1 = Found, !.node2 = Nothing, !.state = 1]
          [] acc.ok /\ acc.state = 1 /\ item.type = "string" ->
                [acc EXCEPT !.node2 = Found, !.state = 2]
          [] acc.ok /\ acc.state = 1 /\ item.type = "number" ->
                [acc EXCEPT !.nodes = IF acc.node1 = Nothing THEN @
                                      ELSE Append(@, <<acc.node1, item.value>>),
                            !.state = 0]
          [] acc.ok /\ acc.state = 2 /\ item.type = "number" ->
                IF Nothing \in {acc.node1, acc.node2}
                THEN [acc EXCEPT !.state = 0]
                ELSE [acc EXCEPT !.pairs = Append(@, <<acc.node1, acc.node2, item.value>>),
                                 !.complete = @ /\ EntriesExist(u[acc.node1], u[acc.node2],
                                                                positions),
                                 !.state = 0]
          [] OTHER -> [acc EXCEPT !.ok = FALSE]

Preprocessed(list, N, u, positions) ==
    FoldLeft(LAMBDA acc, item : Decode(acc, item, N, u, positions), Undecoded, list)

-----------------------------------------------------------------------------
(* OpNRSolver::setForces(): value of every unknown, the unknowns that are   *)
(* forced, the forced differences, the requests reported as conflicts.      *)

NoForces(n) == [value |-> [i \in 0 .. n |-> 0], forced |-> {}, delta |-> <<>>,
                conflicts |-> {}]

\* setForceOnUnknown()
ForceUnknown(F, u, value, request) ==
    CASE u = 0 -> F
      [] u \in F.forced /\ F.value[u] # value -> [F EXCEPT !.conflicts = @ \cup {request}]
      [] OTHER -> [F EXCEPT !.value[u] = value, !.forced = @ \cup {u}]

\* Slip: the sign of a difference to ground is lost.
ForceToGround_Slip(F, pair, u) ==
    CASE u[pair[1]] = 0 -> ForceUnknown(F, u[pair[2]], pair[3], pair)
      [] u[pair[1]] # 0 /\ u[pair[2]] = 0 -> ForceUnknown(F, u[pair[1]], pair[3], pair)
      [] OTHER -> F

\* A pair with one end at ground is a force on the other.
ForceToGround(F, pair, u) ==
    CASE u[pair[1]] = 0 -> ForceUnknown(F, u[pair[2]], -pair[3], pair)
      [] u[pair[1]] # 0 /\ u[pair[2]] = 0 -> ForceUnknown(F, u[pair[1]], pair[3], pair)
      [] OTHER -> F

\* A pair in UIC mode: what is not forced yet follows what is, or 0.
ForceApart(F, u1, u2, value) ==
    CASE u1 \in F.forced ->
            [F EXCEPT !.value[u2] = F.value[u1] - value, !.forced = @ \cup {u2}]
      [] u1 \notin F.forced /\ u2 \in F.forced ->
            [F EXCEPT !.value[u1] = F.value[u2] + value, !.forced = @ \cup {u1}]
      [] OTHER ->
            [F EXCEPT !.value[u1] = value, !.value[u2] = 0, !.forced = @ \cup {u1, u2}]

ForceDifference(F, pair, u, uicMode) ==
    LET u1 == u[pair[1]]
        u2 == u[pair[2]]
    IN  CASE u1 = 0 \/ u2 = 0 -> F
          [] u1 # 0 /\ u2 # 0 /\ {u1, u2} \subseteq F.forced ->
                IF F.value[u1] - F.value[u2] # pair[3]
                THEN [F EXCEPT !.conflicts = @ \cup {pair}]
                ELSE F
          [] OTHER ->
                IF uicMode
                THEN ForceApart(F, u1, u2, pair[3])
                ELSE [F EXCEPT !.delta = Append(@, <<u1, u2, pair[3]>>)]

\* The three loops, each left at the first conflict when abortOnError.
UserForces(request, u, n, uicMode, abortOnError) ==
    LET Unless(F, G) == IF abortOnError /\ F.conflicts # {} THEN F ELSE G
        S1 == FoldLeft(LAMBDA F, r : Unless(F, ForceUnknown(F, u[r[1]], r[2], r)),
                       NoForces(n), request.nodes)
        S2 == FoldLeft(LAMBDA F, r : Unless(F, ForceToGround(F, r, u)), S1, request.pairs)
    IN  FoldLeft(LAMBDA F, r : Unless(F, ForceDifference(F, r, u, uicMode)), S2, request.pairs)

-----------------------------------------------------------------------------
(* OpNRSolver::loadForces(): M is the matrix, res the residual, x the       *)
(* solution, at[i] the diagonal pointers, off[k] the two pointers of the    *)
(* k-th difference, all bound by rebuild().                                 *)

\* The factor takes the sign the diagonal has at the moment.
Signed(factor, place, M) == IF M.Ax[place] < 0 THEN -factor ELSE factor

LoadForcedUnknown(S, i, F, ff, norm, at, x) ==
    LET f0 == norm[i] * ff
        f == Signed(IF f0 = 0 THEN 1 ELSE f0, at[i], S.M)
    IN  [S EXCEPT !.M.Ax[at[i]] = @ + f,
                  !.res[i] = @ + f * x[i] - f * F.value[i]]

LoadForcedDifference(S, k, F, ff, norm, at, off, x) ==
    LET u1 == F.delta[k][1]
        u2 == F.delta[k][2]
        value == F.delta[k][3]
        f1 == Signed(norm[u1] * ff, at[u1], S.M)
        f2 == Signed(norm[u2] * ff, at[u2], S.M)
        Add(A, place, v) == [A EXCEPT ![place] = @ + v]
    IN  [S EXCEPT !.M.Ax = Add(Add(Add(Add(@, at[u1], f1), off[k][1], -f1),
                                   at[u2], f2), off[k][2], -f2),
                  !.res = Add(Add(@, u1, f1 * (x[u1] - x[u2]) - f1 * value),
                              u2, f2 * (x[u2] - x[u1]) + f2 * value)]

LoadForces(M, res, F, ff, at, off, x) ==
    LET norm == RowMaxNorm(M)
        n == Order(M)
        Unknowns == FoldLeft(LAMBDA S, i : IF i \in F.forced
                                           THEN LoadForcedUnknown(S, i, F, ff, norm, at, x)
                                           ELSE S,
                             [M |-> M, res |-> res], [i \in 1 .. n |-> i])
    IN  FoldLeft(LAMBDA S, k : LoadForcedDifference(S, k, F, ff, norm, at, off, x),
                 Unknowns, [k \in DOMAIN F.delta |-> k])
=============================================================================
