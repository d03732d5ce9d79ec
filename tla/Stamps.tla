------------------------------- MODULE Stamps -------------------------------
(***************************************************************************)
(* What a device instance asks of the system of equations and writes into  *)
(* it (lib/devctlsrc.cpp, lib/devvisrc.cpp, lib/osdiinstance.cpp).  The    *)
(* code says it four times, in four functions: the entries it requests     *)
(* (populateStructuresCore), the pointers it binds (bindCore), the values  *)
(* it loads through them (loadCore) and the residual (evalCore).  The four *)
(* are translated one by one.                                              *)
(*                                                                         *)
(* A device is a record: kind, at (its nodes by local name; ctl is the     *)
(* node findControl() looks up, flow the branch current), the parameters   *)
(* gain, m (multiplier), dc (source value), mutual.  An OSDI instance has  *)
(* instead jac, its descriptor's entries: a local pair -> [g, c], the      *)
(* resistive and the reactive derivative, 0 where there is no such part;   *)
(* delays, its absdelay lines as pairs [in, out] of local names in order;  *)
(* noise, its noise sources in order, each with its type and the two nodes *)
(* its current flows between; and internal, the number of its internal     *)
(* states.  What a compiled model computes is external: here it is linear. *)
(***************************************************************************)
EXTENDS Integers, Sequences, FiniteSets, TLC, SequencesExt, FiniteSetsExt

Delays(d) == IF d.kind = "osdi" THEN d.delays ELSE <<>>

Noise(d) == IF d.kind = "osdi" THEN d.noise ELSE <<>>

-----------------------------------------------------------------------------
(* populateStructuresCore(): the entries asked for, by local names.  *)

VccsEntries == {"p", "n"} \X {"cp", "cn"}
VcvsEntries == ({"p", "n"} \X {"flow"}) \cup ({"flow"} \X {"p", "n", "cp", "cn"})
CccsEntries == {"p", "n"} \X {"ctl"}
CcvsEntries == ({"p", "n"} \X {"flow"}) \cup ({"flow"} \X {"p", "n", "ctl"})
VSourceEntries == ({"p", "n"} \X {"flow"}) \cup ({"flow"} \X {"p", "n"})
MutualEntries == {<<"flow1", "flow2">>, <<"flow2", "flow1">>}

\* An OSDI descriptor's entries, then two per delay line: the row of its
\* output, the columns of both its ends.
OsdiEntries(d) ==
    DOMAIN d.jac \cup UNION {{<<d.delays[q].out, d.delays[q].in>>,
                              <<d.delays[q].out, d.delays[q].out>>} : q \in DOMAIN d.delays}

Entries(d) ==
    CASE d.kind = "osdi" -> OsdiEntries(d)
      [] d.kind = "vccs" -> VccsEntries
      [] d.kind = "vcvs" -> VcvsEntries
      [] d.kind = "cccs" -> CccsEntries
      [] d.kind = "ccvs" -> CcvsEntries
      [] d.kind = "vsource" -> VSourceEntries
      [] d.kind = "mutual" -> MutualEntries
      [] OTHER -> {}

\* Residuals with a reactive part; each has two states (charge and flow).
ReactiveRows(d) ==
    CASE d.kind = "osdi" -> {e[1] : e \in {e \in DOMAIN d.jac : d.jac[e].c # 0}}
      [] d.kind = "mutual" -> {"flow1", "flow2"}
      [] OTHER -> {}

\* Slip: one state per charge.
\* States populateStructuresCore() allocates.
StatesNeeded(d) ==
    2 * Cardinality(ReactiveRows(d)) + (IF d.kind = "osdi" THEN d.internal ELSE 0)

\* Nodes newResistiveContribution() is called for in populateStructuresCore().
ResistiveRows(d) ==
    CASE d.kind = "osdi" -> {e[1] : e \in {e \in DOMAIN d.jac : d.jac[e].g # 0}}
      [] d.kind \in {"vcvs", "ccvs", "vsource"} -> {"p", "n", "flow"}
      [] d.kind \in {"vccs", "cccs", "isource"} -> {"p", "n"}
      [] OTHER -> {}

-----------------------------------------------------------------------------
(* bindCore(): the pointers, by local names of row and column.  *)

VccsPointers == {<<"p", "cp">>, <<"p", "cn">>, <<"n", "cp">>, <<"n", "cn">>}
VSourcePointers == {<<"p", "flow">>, <<"n", "flow">>, <<"flow", "p">>, <<"flow", "n">>}
VcvsPointers == VSourcePointers \cup {<<"flow", "cp">>, <<"flow", "cn">>}
CccsPointers == {<<"p", "ctl">>, <<"n", "ctl">>}
CcvsPointers == VSourcePointers \cup {<<"flow", "ctl">>}
MutualPointers == {<<"flow1", "flow2">>, <<"flow2", "flow1">>}

Pointers(d) ==
    CASE d.kind = "osdi" -> DOMAIN d.jac
      [] d.kind = "vccs" -> VccsPointers
      [] d.kind = "vcvs" -> VcvsPointers
      [] d.kind = "cccs" -> CccsPointers
      [] d.kind = "ccvs" -> CcvsPointers
      [] d.kind = "vsource" -> VSourcePointers
      [] d.kind = "mutual" -> MutualPointers
      [] OTHER -> {}

-----------------------------------------------------------------------------
(* loadCore(): what is added to the Jacobian through each pointer, lead     *)
(* times the reactive part; there is none at an operating point (lead = 0). *)

VccsLoad(d) == (<<"p", "cp">> :> d.m * d.gain) @@ (<<"p", "cn">> :> -(d.m * d.gain))
               @@ (<<"n", "cp">> :> -(d.m * d.gain)) @@ (<<"n", "cn">> :> d.m * d.gain)

BranchLoad(d) == (<<"p", "flow">> :> d.m) @@ (<<"n", "flow">> :> -d.m)
                 @@ (<<"flow", "p">> :> -1) @@ (<<"flow", "n">> :> 1)

VcvsLoad(d) == BranchLoad(d) @@ (<<"flow", "cp">> :> d.gain) @@ (<<"flow", "cn">> :> -d.gain)

\* Slip: the multiplier is left out of the second entry.
CccsLoad_Slip(d) == (<<"p", "ctl">> :> d.m * d.gain) @@ (<<"n", "ctl">> :> -d.gain)

CccsLoad(d) == (<<"p", "ctl">> :> d.m * d.gain) @@ (<<"n", "ctl">> :> -(d.m * d.gain))

CcvsLoad(d) == BranchLoad(d) @@ (<<"flow", "ctl">> :> d.gain)

MutualLoad(d, lead) == [e \in MutualEntries |-> d.mutual * lead]

OsdiLoad(d, lead) == [e \in DOMAIN d.jac |-> d.jac[e].g + lead * d.jac[e].c]

Load(d, lead) ==
    CASE d.kind = "vccs" -> VccsLoad(d)
      [] d.kind = "vcvs" -> VcvsLoad(d)
      [] d.kind = "cccs" -> CccsLoad(d)
      [] d.kind = "ccvs" -> CcvsLoad(d)
      [] d.kind = "vsource" -> BranchLoad(d)
      [] d.kind = "mutual" -> MutualLoad(d, lead)
      [] d.kind = "osdi" -> OsdiLoad(d, lead)
      [] OTHER -> <<>>

-----------------------------------------------------------------------------
(* evalCore() and the residual part of loadCore().  u: the unknowns the     *)
(* instance remembers, by local name; x: the solution, 0 for ground.        *)

PairFlow(flow) == ("p" :> flow) @@ ("n" :> -flow)

Branch(d, flow, equation) == PairFlow(d.m * flow) @@ ("flow" :> equation)

\* External: a row of the resistive residual of a compiled model.
OsdiRow(d, row, u, x) ==
    MapThenSumSet(LAMBDA e : d.jac[e].g * x[u[e[2]]], {e \in DOMAIN d.jac : e[1] = row})

VccsResidual(d, u, x) == PairFlow(d.m * d.gain * (x[u.cp] - x[u.cn]))

VcvsResidual(d, u, x) ==
    Branch(d, x[u.flow], -x[u.p] + x[u.n] + d.gain * (x[u.cp] - x[u.cn]))

CccsResidual(d, u, x) == PairFlow(d.m * d.gain * x[u.ctl])

CcvsResidual(d, u, x) == Branch(d, x[u.flow], -x[u.p] + x[u.n] + d.gain * x[u.ctl])

\* sourceFactor scales the sources (homotopy).
VSourceResidual(d, u, x, sourceFactor) ==
    Branch(d, x[u.flow], -x[u.p] + x[u.n] + sourceFactor * d.dc)

ISourceResidual(d, sourceFactor) == PairFlow(sourceFactor * d.m * d.dc)

ResistiveResidual(d, u, x, sourceFactor) ==
    CASE d.kind = "vccs" -> VccsResidual(d, u, x)
      [] d.kind = "vcvs" -> VcvsResidual(d, u, x)
      [] d.kind = "cccs" -> CccsResidual(d, u, x)
      [] d.kind = "ccvs" -> CcvsResidual(d, u, x)
      [] d.kind = "vsource" -> VSourceResidual(d, u, x, sourceFactor)
      [] d.kind = "isource" -> ISourceResidual(d, sourceFactor)
      [] d.kind = "osdi" -> [r \in ResistiveRows(d) |-> OsdiRow(d, r, u, x)]
      [] OTHER -> <<>>

\* External: a row of the reactive residual of a compiled model.
OsdiCharge(d, row, u, x) ==
    MapThenSumSet(LAMBDA e : d.jac[e].c * x[u[e[2]]], {e \in DOMAIN d.jac : e[1] = row})

Charges(d, u, x) ==
    CASE d.kind = "osdi" -> [r \in ReactiveRows(d) |-> OsdiCharge(d, r, u, x)]
      [] d.kind = "mutual" -> ("flow1" :> d.mutual * x[u.flow2])
                              @@ ("flow2" :> d.mutual * x[u.flow1])
      [] OTHER -> <<>>

\* External: the power of a noise source depends on the solution.  Its root, with the
\* sign of the power, is here the voltage across the source.
NoiseRoot(source, u, x) == x[u[source.p]] - x[u[source.n]]

\* The place of a row's charge among the instance's states: after its internal
\* states, in the order of nonzeroReactiveResiduals(); its flow is the next.
StateOfRow(d, row) ==
    LET rows == SetToSeq(ReactiveRows(d))
    IN  (IF d.kind = "osdi" THEN d.internal ELSE 0)
        + 2 * ((CHOOSE i \in DOMAIN rows : rows[i] = row) - 1)
=============================================================================
