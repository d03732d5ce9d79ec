--------------------------- MODULE MatrixAssembly ---------------------------
(***************************************************************************)
(* From the mapped circuit to the linear system an operating point or a    *)
(* transient analysis solves (lib/circuit.cpp, lib/cirparams.cpp,          *)
(* lib/coreop.cpp, lib/coretran.cpp, lib/coreopnr.cpp,                     *)
(* lib/coretrannr.cpp).  An analysis decodes its nodesets or initial       *)
(* conditions before the circuit is mapped (preMapping); the devices and,  *)
(* when it says so, the analysis add their entries to the sparsity map;    *)
(* the analysis then builds the matrix and binds everybody's pointers      *)
(* (rebuildCores); every iteration zeroes the matrix and lets the devices, *)
(* the delay lines, the shunts and the forces write into it.               *)
(*                                                                         *)
(* NodeMap is extended: its mapping steps are steps of this module, the    *)
(* last one (the diagonal) with the rest of buildSparsityAndStates().      *)
(***************************************************************************)
EXTENDS NodeMap, Stamps

CONSTANTS
    Netlist,        \* the device instances that may exist, a sequence
    Shuntable,      \* the nodes whose unknown is a potential
    Requests,       \* what an analysis may be asked: mode, items, strict, gshunt,
                    \* noise (none, lagged or coupled)
    NoiseValues,    \* what the noise generators give, by type and source
    Solutions,      \* the solutions the matrix is loaded at
    Buckets,        \* values found in the bucket, which nobody clears
    ForceFactor,    \* nr_nsforce, nr_force
    Lead, History   \* flow = Lead * (charge - last charge) + History * last flow

\* The lists are sequences of names, numbers and what is neither.
ASSUME RequestsAssumption ==
    \A ask \in Requests :
        /\ ask.strict \in BOOLEAN
        /\ Len(ask.items) \in Nat /\ DOMAIN ask.items = 1 .. Len(ask.items)
        /\ \A p \in DOMAIN ask.items :
              ask.items[p].type = "number" => ask.items[p].value \in Int

\* Finitely many instances, each with finitely many entries
ASSUME NetlistAssumption ==
    /\ IsFiniteSet(DOMAIN Netlist)
    /\ \A i \in DOMAIN Netlist : Netlist[i].kind = "osdi" => IsFiniteSet(DOMAIN Netlist[i].jac)

INSTANCE Forces WITH Nothing <- NoNode

VARIABLES
    sparsity,       \* SparsityMap: the positions
    control,        \* the unknown a controlled source keeps from populate
    contributions,  \* contributions counted per unknown, at most 2 of a kind
    offset,         \* where a device's states start
    run,            \* the analysis: what it was asked, how far it is
    bound,          \* what rebuildCores() set up
    system          \* the matrix and the residual, as last loaded

assembly == <<sparsity, control, contributions, offset, run, bound, system>>

Idle == [stage |-> "idle"]
Unbound == [unknowns |-> 0]
NotLoaded == [kind |-> "none"]

-----------------------------------------------------------------------------
(* buildSparsityAndStates() and enumerateSystem()                           *)

Devices == {i \in DOMAIN Netlist : Range(Netlist[i].at) \subseteq nodeMap}

Unknowns(i) == [l \in DOMAIN Netlist[i].at |-> unknownIndex[Netlist[i].at[l]]]

\* createJacobianEntry(): none in the row or the column of ground.
NoGround(positions) == {p \in positions : 0 \notin {p[1], p[2]}}

DevicePositions ==
    NoGround(UNION {{<<Unknowns(i)[e[1]], Unknowns(i)[e[2]]>> : e \in Entries(Netlist[i])} :
                    i \in Devices})

DiagonalPositions ==
    NoGround({<<unknownIndex[unknownToReprNode[u]], unknownIndex[unknownToReprNode[u]]>> :
              u \in DiagonalUnknowns})

\* OperatingPointCore::populateStructures(), TranCore::populateStructures()
PairPositions(request) ==
    NoGround(UNION {{<<unknownIndex[r[1]], unknownIndex[r[2]]>>,
                     <<unknownIndex[r[2]], unknownIndex[r[1]]>>} : r \in Range(request.pairs)})

\* allocateStates(): the chunks follow one another.
StateOffsets ==
    [i \in Devices |-> MapThenSumSet(LAMBDA j : StatesNeeded(Netlist[j]),
                                     {j \in Devices : j < i})]

\* Slip: one contribution is as many as two.
Saturated_Slip(count, more) == Min({1, count + more})

\* newResistiveContribution(), newReactiveContribution()
Saturated(count, more) == Min({2, count + more})

\* How many of the rows belong to unknown u; rows[i] are those of device i.
RowsAt(u, rows) ==
    Cardinality(UNION {{<<i, l>> : l \in {l \in rows[i] : Unknowns(i)[l] = u}} : i \in DOMAIN rows})

Coupled == {i \in Devices : Netlist[i].kind = "mutual"}

\* populateStructuresCore() of all devices; a mutual inductance counts in bindCore().
Counted(counts) ==
    [u \in 0 .. unknownCount |->
        [resistive |-> Saturated(counts[u].resistive,
                                 RowsAt(u, [i \in Devices |-> ResistiveRows(Netlist[i])])),
         reactive |-> Saturated(counts[u].reactive,
                                RowsAt(u, [i \in Devices \ Coupled |-> ReactiveRows(Netlist[i])]))]]

\* bindCore() of the mutual inductances, times times.
CountedAtBind(counts, times) ==
    [u \in DOMAIN counts |->
        [counts[u] EXCEPT !.reactive =
            Saturated(@, times * RowsAt(u, [i \in Coupled |-> ReactiveRows(Netlist[i])]))]]

\* The pairs are added when preMapping() missed entries.
Populate(counts) ==
    /\ sparsity' = DevicePositions \cup DiagonalPositions
                   \cup (IF run.stage = "decoded" /\ ~run.request.complete
                         THEN PairPositions(run.request) ELSE {})
    /\ control' = [i \in {i \in Devices : Netlist[i].kind \in {"cccs", "ccvs"}} |->
                      Unknowns(i)["ctl"]]
    /\ offset' = StateOffsets
    /\ contributions' = Counted(counts)
    /\ run' = IF run.stage = "decoded" THEN [run EXCEPT !.stage = "ready"] ELSE run
    /\ UNCHANGED <<bound, system>>

-----------------------------------------------------------------------------
(* The circuit                                                              *)

AssemblyInit ==
    /\ Init
    /\ sparsity = {}
    /\ control = <<>>
    /\ contributions = <<>>
    /\ offset = <<>>
    /\ run = Idle
    /\ bound = Unbound
    /\ system = NotLoaded

\* Between analyses; what setup and elaboration of the hierarchy do.
ChangeCircuit ==
    /\ run.stage = "idle"
    /\ ChangePattern \/ ChangeHierarchy \/ Elaborate
    /\ UNCHANGED assembly

\* The steps of mapUnknowns().  What buildSparsityAndStates() will write over and
\* nothing reads before is forgotten at the first of them.
BeginMapUnknowns ==
    /\ BeginMapping
    /\ sparsity' = {}
    /\ control' = <<>>
    /\ contributions' = <<>>
    /\ offset' = <<>>
    /\ UNCHANGED <<run, bound, system>>

CollapsePair ==
    /\ \E p \in Pairs : CollapseNodes(p)
    /\ UNCHANGED assembly

FinishMapUnknowns ==
    /\ FinishMapping
    /\ contributions' = [u \in 0 .. unknownCount' |-> [resistive |-> 0, reactive |-> 0]]
    /\ UNCHANGED <<sparsity, control, offset, run, bound, system>>

\* buildSparsityAndStates() after a mapping; a request was decoded before it.
BuildSystem ==
    /\ BuildDiagonal
    /\ Populate(contributions)

\* buildSparsityAndStates() because the analysis needs entries.
RebuildSystem ==
    /\ phase = "built"
    /\ run.stage = "decoded"
    /\ Populate(contributions)
    /\ UNCHANGED vars

-----------------------------------------------------------------------------
(* The analysis                                                             *)

\* preMapping() within elaborateChanges(), after setup and before the mapping:
\* unknowns and sparsity are those of the mapping before.
PreMapping(ask) ==
    /\ run.stage = "idle"
    /\ phase = "built" \/ (phase = "changed" /\ remapped)
    /\ LET request == Preprocessed(ask.items, nodeMap, unknownIndex, sparsity)
       IN  /\ request.ok                            \* or the analysis is left
           /\ run' = [stage |-> IF phase = "built" /\ request.complete
                                THEN "ready" ELSE "decoded",
                      ask |-> ask, request |-> request, current |-> phase = "built"]
    /\ UNCHANGED <<vars, sparsity, control, contributions, offset, bound, system>>

\* The unknowns a device remembers: controls from populate, the rest from bind.
Remembered(i) ==
    [l \in DOMAIN Netlist[i].at |-> IF l = "ctl" /\ i \in DOMAIN control
                                    THEN control[i] ELSE Unknowns(i)[l]]

PointersOf(i) ==
    [e \in Pointers(Netlist[i]) |->
        Pointer(sparsity, <<Remembered(i)[e[1]], Remembered(i)[e[2]]>>)]

\* bindToUnknowns(), bindToMatrix(): unknowns and pointers of the delay lines.
DelayBindings ==
    UNION {{[in |-> Unknowns(i)[Delays(Netlist[i])[q].in],
             out |-> Unknowns(i)[Delays(Netlist[i])[q].out]] : q \in DOMAIN Delays(Netlist[i])} :
           i \in Devices}

\* Unknowns whose representative has a flag the nodes in S have; a node that
\* was released since reads as one of loose or not.
ReprIn(S, loose) ==
    {u \in 1 .. unknownCount : unknownToReprNode[u] \in (S \cap nodeMap) \cup (loose \ nodeMap)}

\* rebuildCheckResidualFlags() of the operating point and of the transient
\* solver, which is rebuilt after the first bind.
Checkable(internal) ==
    LET counts == CountedAtBind(contributions, 1)
    IN  [op |-> {u \in 1 .. unknownCount \ internal : counts[u].resistive > 1},
         tran |-> {u \in 1 .. unknownCount \ internal :
                      counts[u].resistive + counts[u].reactive > 1}]

BoundSystem(F, loose) ==
    [unknowns |-> unknownCount,
     device |-> [i \in Devices |-> Remembered(i)],
     pointers |-> [i \in Devices |-> PointersOf(i)],
     delays |-> {[d \in {"in", "out"} |-> b[d]]
                 @@ ("outIn" :> Pointer(sparsity, <<b.out, b.in>>))
                 @@ ("outOut" :> Pointer(sparsity, <<b.out, b.out>>)) : b \in DelayBindings},
     at |-> [u \in 1 .. unknownCount |-> Pointer(sparsity, <<u, u>>)],
     off |-> [k \in DOMAIN F.delta |-> <<Pointer(sparsity, <<F.delta[k][1], F.delta[k][2]>>),
                                         Pointer(sparsity, <<F.delta[k][2], F.delta[k][1]>>)>>],
     forces |-> F,
     shuntable |-> ReprIn(Shuntable, loose),
     checkable |-> Checkable(ReprIn(Internal, loose))]

\* rebuildCores(): matrix, bindings (binds times), forces, solver.  A conflict ends a
\* strict analysis.
RebuildCores(binds) ==
    /\ phase = "built"
    /\ run.stage = "ready"
    /\ contributions' = CountedAtBind(contributions, binds)
    /\ LET F == UserForces(run.request, unknownIndex, unknownCount, FALSE, run.ask.strict)
       IN  IF run.ask.strict /\ F.conflicts # {}
           THEN /\ run' = Idle
                /\ UNCHANGED <<bound, system>>
           ELSE /\ run' = [run EXCEPT !.stage = "bound"]
                /\ \E loose \in {{}, Nodes} : bound' = BoundSystem(F, loose)
                /\ system' = [kind |-> "none", M |-> Rebuilt(sparsity, unknownCount, 0)]
    /\ UNCHANGED <<vars, sparsity, control, offset>>

\* OperatingPoint::rebuildCores() with OperatingPointCore::rebuild()
RebuildOp == run.stage = "ready" /\ run.ask.mode = "op" /\ RebuildCores(1)

\* Tran::rebuildCores(): TranCore::rebuild() binds the reactive entries and leaves
\* the conditions to the operating point's solver, which is rebuilt last.
RebuildTran == run.stage = "ready" /\ run.ask.mode # "op" /\ RebuildCores(2)

-----------------------------------------------------------------------------
(* One iteration's system.  x is the solution with x[0] = 0 for ground.      *)

\* What the devices add to the Jacobian, through their pointers.
DeviceJacobian(M, lead) ==
    [M EXCEPT !.Ax = [p \in DOMAIN @ |->
        @[p] + MapThenSumSet(
                  LAMBDA i : MapThenSumSet(LAMBDA e : Load(Netlist[i], lead)[e],
                                           {e \in DOMAIN bound.pointers[i] :
                                               bound.pointers[i][e] = p}),
                  DOMAIN bound.pointers)]]

\* Values by device and row, added up by unknown.
ByUnknown(values) ==
    [u \in 0 .. bound.unknowns |->
        MapThenSumSet(LAMBDA i : MapThenSumSet(LAMBDA l : values[i][l],
                                               {l \in DOMAIN values[i] : bound.device[i][l] = u}),
                      DOMAIN values)]

Static(x) ==
    ByUnknown([i \in DOMAIN bound.device |->
                  ResistiveResidual(Netlist[i], bound.device[i], x, 1)])

StateOf(i, l) == offset[i] + StateOfRow(Netlist[i], l)

\* The states a device writes when charges are stored and not differentiated;
\* rows of ground are left out.
StatesKept(i, x) ==
    LET charges == Charges(Netlist[i], bound.device[i], x)
        rows == {l \in DOMAIN charges : bound.device[i][l] # 0}
    IN  [s \in {StateOf(i, l) : l \in rows} |-> charges[CHOOSE l \in rows : StateOf(i, l) = s]]

\* The states after an evaluation at x, device after device.
ChargesKept(x) ==
    FoldLeft(LAMBDA states, i : IF i \in DOMAIN offset THEN StatesKept(i, x) @@ states ELSE states,
             <<>>, [i \in DOMAIN Netlist |-> i])

State(states, s) == IF s \in DOMAIN states THEN states[s] ELSE 0

\* differentiate(): the flow of a device's charges.
Flows(i, x, past) ==
    LET charges == Charges(Netlist[i], bound.device[i], x)
    IN  [l \in DOMAIN charges |->
            Lead * (charges[l] - State(past, StateOf(i, l)))
            + History * State(past, StateOf(i, l) + 1)]

\* loadShunts()
Shunted(S, gshunt, x) ==
    [S EXCEPT !.M.Ax = [p \in DOMAIN @ |->
                          @[p] + gshunt * Cardinality({u \in bound.shuntable : bound.at[u] = p})],
              !.res = [u \in DOMAIN @ |-> IF u \in bound.shuntable
                                          THEN @[u] + gshunt * x[u] ELSE @[u]]]

\* A delay line's row is written over; its two entries are added to.
Delayed(S, sample, slope, x) ==
    FoldSet(LAMBDA b, T :
                [T EXCEPT !.res[b.out] = sample[b.in] - x[b.out],
                          !.M.Ax = LET A == [@ EXCEPT ![b.outIn] = @ + slope]
                                   IN  [A EXCEPT ![b.outOut] = @ - 1]],
            S, bound.delays)

Cleared(S) == [S EXCEPT !.res[0] = 0]

\* The matrix at the start of an iteration; the bucket holds what was left in it.
Fresh(M, bucket) == [Zeroed(M) EXCEPT !.Ax[0] = bucket]

\* OpNRSolver::buildSystem()
OpSystem(M, bucket, x) ==
    LET Loaded == [M |-> DeviceJacobian(Fresh(M, bucket), 0), res |-> Static(x)]
        S == Shunted(Cleared(Delayed(Loaded, x, 1, x)), run.ask.gshunt, x)
    IN  LoadForces(S.M, S.res, bound.forces, ForceFactor, bound.at, bound.off, x)

-----------------------------------------------------------------------------
(* Transient noise: the sources are gone through when their scaling is       *)
(* collected and again when the residual is built, device after device, and  *)
(* those of a type are counted as they are met.                              *)

NoiseTypes == {"white", "flicker"}

SourcesOf(i, type) ==
    LET own == IF i \in DOMAIN bound.device
               THEN SelectSeq(Noise(Netlist[i]), LAMBDA source : source.type = type) ELSE <<>>
    IN  [k \in DOMAIN own |-> [device |-> i, source |-> own[k]]]

NoiseSources(type) == FlattenSeq([i \in DOMAIN Netlist |-> SourcesOf(i, type)])

\* collectNoiseScaling(): the root of the power of every source, evaluated at x.
NoiseScaling(x) ==
    [type \in NoiseTypes |->
        LET met == NoiseSources(type)
        IN  [k \in DOMAIN met |-> NoiseRoot(met[k].source, bound.device[met[k].device], x)]]

\* buildNoiseResidual(): a source's current enters one equation and leaves the other.
NoiseOfType(type, scaling) ==
    LET met == NoiseSources(type)
        sample == [k \in DOMAIN met |-> NoiseValues[type][k] * scaling[k]]
        At(k, end) == bound.device[met[k].device][met[k].source[end]]
    IN  [u \in 0 .. bound.unknowns |->
            MapThenSumSet(LAMBDA k : sample[k], {k \in DOMAIN met : At(k, "p") = u})
            - MapThenSumSet(LAMBDA k : sample[k], {k \in DOMAIN met : At(k, "n") = u})]

NoiseResidual(scaling) ==
    LET white   == NoiseOfType("white", scaling["white"])
        flicker == NoiseOfType("flicker", scaling["flicker"])
    IN  [u \in DOMAIN white |-> IF u = 0 THEN 0 ELSE white[u] + flicker[u]]

\* Lagged noise is scaled at the last point when it is advanced, coupled noise at the
\* solution of every iteration.
NoiseAt(before, x) ==
    CASE run.ask.noise = "none"    -> [u \in 0 .. bound.unknowns |-> 0]
      [] run.ask.noise = "lagged"  -> NoiseResidual(NoiseScaling(before))
      [] run.ask.noise = "coupled" -> NoiseResidual(NoiseScaling(x))

-----------------------------------------------------------------------------
\* TranNRSolver::buildSystem(): past are the states and before the solution of
\* the last point; near, the delay is shorter than the step.
TranSystem(M, x, past, before, near, noise) ==
    LET flows == ByUnknown([i \in DOMAIN bound.device |-> Flows(i, x, past)])
        residual == Static(x)
        Loaded == [M |-> DeviceJacobian(Fresh(M, 0), Lead),
                   res |-> [u \in DOMAIN residual |-> residual[u] + flows[u]]]
        S == Shunted(Cleared(Loaded), run.ask.gshunt, x)
        D == Cleared(IF near THEN Delayed(S, x, 1, x) ELSE Delayed(S, before, 0, x))
    IN  [D EXCEPT !.res = [u \in DOMAIN @ |-> @[u] + noise[u]]]

\* A solution: ground and then the unknowns.
SolutionVector(sol) == [u \in 0 .. bound.unknowns |-> IF u = 0 THEN 0 ELSE sol[u]]

LoadOp(sol) ==
    /\ run.stage \in {"bound", "loaded"}
    /\ run.ask.mode # "uic"
    /\ system.kind \in {"none", "op"}
    /\ LET x == SolutionVector(sol)
       IN  \E bucket \in Buckets :
              system' = [kind |-> "op", x |-> x, bucket |-> bucket]
                        @@ OpSystem(system.M, bucket, x)
    /\ run' = [run EXCEPT !.stage = "loaded"]
    /\ UNCHANGED <<vars, sparsity, control, contributions, offset, bound>>

\* The operating point, the initial conditions or the last point came first.
LoadTran(sol, near) ==
    /\ \/ run.stage = "loaded" /\ run.ask.mode = "ic"
       \/ run.stage = "uic"
    /\ near => bound.delays # {}
    /\ LET x == SolutionVector(sol)
           noise == NoiseAt(system.x, x)
       IN  system' = [kind |-> "tran", x |-> x, before |-> system.x, near |-> near,
                      noise |-> noise]
                     @@ TranSystem(system.M, x, ChargesKept(system.x), system.x, near, noise)
    /\ UNCHANGED <<vars, sparsity, control, contributions, offset, run, bound>>

\* The start of a transient analysis with icmode="uic": forces in UIC mode, no
\* operating point.
SetInitialConditions ==
    /\ run.stage = "bound"
    /\ run.ask.mode = "uic"
    /\ LET F == UserForces(run.request, unknownIndex, unknownCount, TRUE, run.ask.strict)
       IN  IF run.ask.strict /\ F.conflicts # {}
           THEN run' = Idle /\ bound' = Unbound /\ system' = NotLoaded
           ELSE /\ run' = [run EXCEPT !.stage = "uic"]
                /\ bound' = [bound EXCEPT !.forces = F]
                /\ system' = [kind |-> "none", x |-> F.value, M |-> system.M]
    /\ UNCHANGED <<vars, sparsity, control, contributions, offset>>

FinishAnalysis ==
    /\ run.stage \in {"loaded", "uic"}
    /\ system.kind # "none"
    /\ run' = Idle
    /\ bound' = Unbound
    /\ system' = NotLoaded
    /\ UNCHANGED <<vars, sparsity, control, contributions, offset>>

AssemblyNext ==
    \/ ChangeCircuit \/ BeginMapUnknowns \/ CollapsePair \/ FinishMapUnknowns \/ BuildSystem \/ RebuildSystem
    \/ \E ask \in Requests : PreMapping(ask)
    \/ RebuildOp \/ RebuildTran \/ SetInitialConditions \/ FinishAnalysis
    \/ \E sol \in Solutions : LoadOp(sol)
    \/ \E sol \in Solutions, near \in BOOLEAN : LoadTran(sol, near)

AssemblySpec == AssemblyInit /\ [][AssemblyNext]_<<vars, assembly>>
-----------------------------------------------------------------------------
(* Properties                                                               *)

Unit(c) == [u \in 0 .. bound.unknowns |-> IF u = c THEN 1 ELSE 0]

Plus(x, y) == [u \in DOMAIN x |-> x[u] + y[u]]

\* The residual the loaded system would have at another solution; the noise is held,
\* its derivative is not in the matrix.
ResidualAt(x) ==
    IF system.kind = "op"
    THEN OpSystem(system.M, system.bucket, x).res
    ELSE TranSystem(system.M, x, ChargesKept(system.before), system.before, system.near,
                    system.noise).res

\* An entry of the matrix, 0 where there is none.
EntryAt(M, row, col) ==
    LET place == NonzeroOffset(M, row, col) IN IF place = 0 THEN 0 ELSE M.Ax[place]

DelayRows == {b.out : b \in bound.delays}

\* The entries known not to be the derivative: the row of an unknown without a
\* diagonal entry (DiagonalWhereNamed says which), whose force and shunt go to
\* the bucket; those of a difference decoded under the mapping before; and the
\* row of a delay line, in which a transient analysis writes over the shunts.
Excused ==
    ({u \in 1 .. bound.unknowns : remapped /\ u \notin diagonal} \X (1 .. bound.unknowns))
    \cup (IF run.current THEN {} ELSE
          {<<bound.forces.delta[k][i], bound.forces.delta[k][3 - i]>> :
              k \in DOMAIN bound.forces.delta, i \in {1, 2}} \ sparsity)
    \cup (IF system.kind = "tran" /\ run.ask.gshunt # 0 THEN {<<u, u>> : u \in DelayRows} ELSE {})

\* The matrix an iteration solves is the derivative of its residual: what every
\* device requests, binds and loads agrees with what it evaluates, and so do
\* delay lines, shunts and forces, whatever nodes were collapsed, whatever was
\* loaded before (populateStructures, bind, evalAndLoad, buildSystem).
JacobianIsDerivative ==
    system.kind \in {"op", "tran"} =>
        LET rows == 1 .. bound.unknowns
            entry == [e \in rows \X rows |-> EntryAt(system.M, e[1], e[2])]
            product == Product(system.M, system.x)
        IN  \A c \in rows :
                LET there == ResidualAt(Plus(system.x, Unit(c)))
                IN  /\ \A r \in rows : <<r, c>> \notin Excused =>
                                        entry[<<r, c>>] = there[r] - system.res[r]
                    /\ product[c] = MapThenSumSet(LAMBDA k : entry[<<c, k>>] * system.x[k], rows)

\* Which of the values of its type a source is given: those before it are counted.
ValueOf(i, s) ==
    LET type == Noise(Netlist[i])[s].type
        before == {j \in DOMAIN bound.device : j <= i} \X (1 .. Max({Len(Noise(Netlist[j])) : j \in DOMAIN Netlist}))
    IN  NoiseValues[type][Cardinality(
            {e \in before : /\ e[2] \in DOMAIN Noise(Netlist[e[1]])
                            /\ e[1] = i => e[2] <= s
                            /\ Noise(Netlist[e[1]])[e[2]].type = type})]

\* A transient system at the solution the last point had, with no flow then, is
\* the operating point's with the noise of every device's sources: no device reads
\* another's states or another's noise, and a constant signal comes out of a delay
\* line as it went in (allocateStates, differentiate, TranNRSolver::buildSystem).
RestIsSteady ==
    system.kind = "tran" /\ system.x = system.before =>
        LET static == OpSystem(system.M, 0, system.x).res
            sources(i) == IF run.ask.noise = "none" THEN {} ELSE DOMAIN Noise(Netlist[i])
            current(i, s) == ValueOf(i, s)
                             * NoiseRoot(Noise(Netlist[i])[s], bound.device[i], system.x)
            noise == [end \in {"p", "n"} |->
                         ByUnknown([i \in DOMAIN bound.device |->
                            [l \in DOMAIN Netlist[i].at |->
                                MapThenSumSet(LAMBDA s : current(i, s),
                                              {s \in sources(i) : Noise(Netlist[i])[s][end] = l})]])]
        IN  \A r \in 1 .. bound.unknowns :
                \/ system.res[r] = static[r] + noise["p"][r] - noise["n"][r]
                \/ r \in bound.forces.forced
                \/ \E k \in DOMAIN bound.forces.delta : r \in {bound.forces.delta[k][1],
                                                             bound.forces.delta[k][2]}
                \/ r \in DelayRows /\ run.ask.gshunt # 0

\* Residual and Jacobian belong to one circuit, in an operating point and in a
\* transient analysis that starts from it, and there is a diagonal entry for what
\* a nodeset or a shunt adds.
SystemIsOneCircuit == JacobianIsDerivative /\ RestIsSteady /\ DiagonalWhereNamed

\* What a list asks for, read without decoding it: a number belongs to the names that
\* follow the number before it, to one as a value, to two as a difference.
IsName(items, p) == p \in DOMAIN items /\ items[p].type = "string"

Numbers(items) == {p \in DOMAIN items : items[p].type = "number"}

Begins(items, p) == p = 1 \/ p - 1 \in Numbers(items)

ValuesWanted(items) ==
    {<<items[p - 1].name, items[p].value>> :
        p \in {p \in Numbers(items) : IsName(items, p - 1) /\ Begins(items, p - 1)}}

DifferencesWanted(items) ==
    {<<items[p - 2].name, items[p - 1].name, items[p].value>> :
        p \in {p \in Numbers(items) : /\ IsName(items, p - 1)
                                     /\ IsName(items, p - 2) /\ Begins(items, p - 2)}}

\* Every nodeset or initial condition on nodes the circuit has is realised as a
\* value or a difference of its unknowns, or reported as a conflict; in UIC mode
\* as values alone.  Nothing is said of two nodes that share an unknown
\* (PreprocessedUserForces::set, OpNRSolver::setForces).
ForcesAsRequested ==
    run.stage \in {"bound", "uic"} =>
        LET F == bound.forces
            u(n) == unknownIndex[n]
            given(n) == u(n) \in F.forced \cup {0}
        IN  /\ run.stage = "uic" => F.delta = <<>>
            /\ \A r \in ValuesWanted(run.ask.items) :
                  r[1] \in nodeMap /\ u(r[1]) # 0 =>
                        r \in F.conflicts \/ (given(r[1]) /\ F.value[u(r[1])] = r[2])
            /\ \A r \in DifferencesWanted(run.ask.items) :
                  {r[1], r[2]} \subseteq nodeMap /\ u(r[1]) # u(r[2]) =>
                        \/ r \in F.conflicts
                        \/ given(r[1]) /\ given(r[2])
                           /\ F.value[u(r[1])] - F.value[u(r[2])] = r[3]
                        \/ <<u(r[1]), u(r[2]), r[3]>> \in Range(F.delta)

\* The equation of a node the netlist names to which two rows of devices
\* contribute is one whose residual is checked (newResistiveContribution,
\* rebuildCheckResidualFlags); the counts outlive a sparsity rebuild.
SharedEquationsAreChecked ==
    run.stage = "bound" =>
        \A u \in 1 .. unknownCount :
            LET static == RowsAt(u, [i \in Devices |-> ResistiveRows(Netlist[i])])
                dynamic == RowsAt(u, [i \in Devices |-> ReactiveRows(Netlist[i])])
            IN  (\E n \in nodeMap \ Internal : unknownIndex[n] = u) =>
                    /\ static > 1 => u \in bound.checkable.op
                    /\ static + dynamic > 1 => u \in bound.checkable.tran
=============================================================================
