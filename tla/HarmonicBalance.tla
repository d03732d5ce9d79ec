--------------------------- MODULE HarmonicBalance ---------------------------
(***************************************************************************)
(* The harmonic balance core: HBCore (lib/corehb.cpp, corehbcoloc.cpp,     *)
(* corehbxform.cpp) with its solver HBNRSolver (lib/corehbnr.cpp), and the *)
(* conversion matrix that HBAC (lib/corehbac.cpp) fills from its Jacobian. *)
(*                                                                         *)
(* Every unknown is a block of nt numbers: its DC value and the real and   *)
(* imaginary parts of its phasors.  The circuit is evaluated at nt         *)
(* colocation points, the transform between both is the inverse of a       *)
(* matrix of cosines and sines.  The numbers are those of PrimeField: a    *)
(* period has Ticks ticks, Root is a root of unity of that order, and      *)
(* cosine and sine are made of its powers.                                 *)
(***************************************************************************)
EXTENDS PrimeField, Spectrum

CONSTANTS
    Ticks, Root,    \* ticks of a period of frequency 1, root of unity of that order
    TwoPi,          \* any number serves as 2 pi
    ForceWeight,    \* what a forced value adds to the diagonal
    Setups,         \* [par, circuit]: parameters of the analysis with the options nsiter
                    \* and conviter, and a circuit with its nodes in the order of the unknowns
    Changes,        \* setups that an analysis may be rebuilt with
    ItLim,          \* hb_itl
    MaxRuns         \* bound: runs of the solver

VARIABLES
    par, circuit,
    spurs,          \* spurs_
    timepoints,     \* the colocation points, in ticks
    transform,      \* [inverse: IAPFT, forward: APFT, derivative: OmegaGamma]
    solution,       \* current vector of the solution repository, with its bucket
    phasors,        \* solutionFD, for each unknown
    slots,          \* force slots 0 (continuation) and 1 (nodesets)
    enabled,        \* slots that are enabled
    iteration, convIter, converged,
    phase,          \* "new", "built", "iterating", "ended", "evaluated", "failed"
    state,          \* states stored by the analysis ("sweep") and by homotopy
    stored,         \* the solution stored for users
    runs

built == <<par, circuit, spurs, timepoints, transform>>
solver == <<solution, slots, enabled, iteration, convIter, converged>>
vars == <<built, solver, phasors, phase, state, stored, runs>>

(***************************************************************************)
(* Cosine and sine of a number of ticks                                    *)
(***************************************************************************)
Rotation[k \in 0 .. Ticks - 1] ==
    IF k = 0 THEN One
    ELSE LET half == Rotation[k \div 2] IN IF k % 2 = 0 THEN half ** half ELSE (half ** half) ** Root
Turn(k) == Rotation[k % Ticks]
CosTable == [k \in 1 .. Ticks |-> (Turn(k - 1) ++ Turn(1 - k)) // Num(2)]
SinTable == [k \in 1 .. Ticks |-> (Turn(k - 1) -- Turn(1 - k)) // (Num(2) ** Turn(Ticks \div 4))]
Cos(k) == CosTable[(k % Ticks) + 1]
Sin(k) == SinTable[(k % Ticks) + 1]

ASSUME RootAssumption ==
    /\ Ticks \in Nat /\ Ticks % 4 = 0
    /\ Turn(Ticks \div 2) = Num(-1) /\ Turn(Ticks - 1) ** Root = One
    /\ \A k \in 1 .. Ticks - 1 : Ticks % k = 0 => Turn(k) # One

(***************************************************************************)
(* Sizes                                                                   *)
(***************************************************************************)
Nt == Len(timepoints)
Unknowns == 1 .. Len(circuit.nodes)
UnknownOf(c, node) == IF node \in ToSet(c.nodes)
                      THEN CHOOSE u \in DOMAIN c.nodes : c.nodes[u] = node ELSE 0

(* unknown u has the entries u*nt .. u*nt+nt-1, the bucket those of 0      *)
Zeros(n, nt) == [i \in 0 .. (n + 1) * nt - 1 |-> Zero]
Block(v, u, nt) == [i \in 1 .. nt |-> v[u * nt + i - 1]]
Resized(v, len) == [i \in 0 .. len - 1 |-> IF i \in DOMAIN v THEN v[i] ELSE Zero]

(* component i of a block belongs to phasor LineAt(i)                      *)
LineAt(i) == i \div 2 + 1
IsReal(i) == i % 2 = 0
Component(z, i) == IF i = 1 \/ IsReal(i) THEN z[1] ELSE z[2]
Phasor(block, j) ==
    IF j = 1 THEN <<block[1], Zero>> ELSE <<block[2 * j - 2], block[2 * j - 1]>>
Unpacked(values) == [i \in 1 .. 2 * Len(values) - 1 |-> Component(values[LineAt(i)], i)]

(***************************************************************************)
(* buildGrid                                                               *)
(***************************************************************************)
Harmonics(p) == IF p.scalar THEN [k \in DOMAIN p.freq |-> p.nharm[1]] ELSE p.nharm

RejectedGrid(p) ==
    \/ p.freq = <<>> \/ 0 \in ToSet(p.freq)
    \/ \E k \in DOMAIN p.nharm : p.nharm[k] <= 0
    \/ ~p.scalar /\ Len(p.nharm) # Len(p.freq)
    \/ p.truncate \notin {"box", "diamond", "hybrid"}

(***************************************************************************)
(* buildColocation: a pool of samples, of which the first and nt-1 others  *)
(* that make the transform regular are kept.  samplefac and shift are in   *)
(* quarters, the draws of the random generator in ticks.                   *)
(***************************************************************************)
Samples(p, s) == ((2 * Len(s.weights) - 1) * p.samplefac + 3) \div 4
SampleRange(p, s) == (p.nper * Ticks) \div SpectrumOf(s)[2]

Pool(p, s) ==
    LET n == Samples(p, s)
        step == SampleRange(p, s) \div n
    IN [i \in 1 .. n |-> p.tstart +
          CASE p.sample = "uniform" -> ((i - 1) * step) + ((step * p.shift) \div 4)
            [] p.sample = "random"  -> p.draws[i]
            [] p.sample = "mixed"   -> ((i - 1) * step) + p.draws[i]]

RejectedColocation(p) == p.samplefac < 4 \/ p.sample \notin {"uniform", "random", "mixed"}

(***************************************************************************)
(* buildTransformMatrix, buildAPFT                                         *)
(***************************************************************************)
SpurPhase(p, s, j, t) ==
    Sum([k \in DOMAIN s.fund |->
            s.weights[j][k] * (((s.fund[k] * p.tstart) % Ticks) + (s.fund[k] * (t - p.tstart)))])

TransformRow(p, s, t) ==
    [i \in 1 .. 2 * Len(s.weights) - 1 |->
        IF i = 1 THEN One
        ELSE IF IsReal(i) THEN Cos(SpurPhase(p, s, LineAt(i), t))
        ELSE Zero -- Sin(SpurPhase(p, s, LineAt(i), t))]

TransformMatrix(p, s, times) == [i \in DOMAIN times |-> TransformRow(p, s, times[i])]

Omega(f) == TwoPi ** Num(f)

OmegaGamma_Slip(s, forward) ==
    [i \in DOMAIN forward |->
        LET w == Omega(SpectrumOf(s)[LineAt(i)]) IN
        [k \in DOMAIN forward |->
            IF i = 1 THEN Zero
            ELSE IF IsReal(i) THEN w ** forward[i + 1][k] ELSE w ** forward[i - 1][k]]]
OmegaGamma(s, forward) ==
    [i \in DOMAIN forward |->
        LET w == Omega(SpectrumOf(s)[LineAt(i)]) IN
        [k \in DOMAIN forward |->
            IF i = 1 THEN Zero
            ELSE IF IsReal(i) THEN Zero -- (w ** forward[i + 1][k]) ELSE w ** forward[i - 1][k]]]

Transforms(s, inverse, forward) ==
    [inverse |-> inverse, forward |-> forward, derivative |-> OmegaGamma(s, forward)]

BuildAPFT(p, s, times) ==
    LET inverse == TransformMatrix(p, s, times) IN Transforms(s, inverse, Inverted(inverse))

(* the choices of nt points; the transform may be singular for all of them *)
Selections(p, s) ==
    LET pool == Pool(p, s)
        nt == 2 * Len(s.weights) - 1
        chosen == {S \in SUBSET DOMAIN pool : 1 \in S /\ Cardinality(S) = nt}
        points == {Ascending({pool[i] : i \in S}) : S \in chosen}
    IN {times \in points : Len(times) = nt /\ Inverted(TransformMatrix(p, s, times)) # <<>>}
-----------------------------------------------------------------------------
(***************************************************************************)
(* Devices: the residuals of a circuit are sums of powers of its unknowns  *)
(* and of sources, resistive or reactive; a device loads its Jacobian.     *)
(* A delay line adds the equation of its output.                           *)
(***************************************************************************)
Terms(c, row, reactive) ==
    SelectSeq(c.terms, LAMBDA d : d.row = c.nodes[row] /\ d.reactive = reactive)

Resistive(c, row, x, t) ==
    LET terms == Terms(c, row, FALSE)
        sources == SelectSeq(c.sources, LAMBDA d : d.row = c.nodes[row])
    IN Total([i \in DOMAIN terms |-> Num(terms[i].coef) ** Power(x[UnknownOf(c, terms[i].col)], terms[i].power)])
       ++ Total([i \in DOMAIN sources |-> Num(sources[i].amp) ** Cos(sources[i].freq * t)])

Reactive(c, row, x) ==
    LET terms == Terms(c, row, TRUE)
    IN Total([i \in DOMAIN terms |-> Num(terms[i].coef) ** Power(x[UnknownOf(c, terms[i].col)], terms[i].power)])

Slope(c, row, col, x, reactive) ==
    LET terms == SelectSeq(Terms(c, row, reactive), LAMBDA d : d.col = c.nodes[col])
    IN Total([i \in DOMAIN terms |->
                 Num(terms[i].coef * terms[i].power) ** Power(x[col], terms[i].power - 1)])

HasBlock(c, row, col) == \E i \in DOMAIN c.terms :
    c.terms[i].row = c.nodes[row] /\ c.terms[i].col = c.nodes[col]

(***************************************************************************)
(* evaluate: unknowns at the colocation points, residuals and Jacobians    *)
(* there                                                                   *)
(***************************************************************************)
AtTimepoints(sol) ==
    LET td == [u \in Unknowns |-> MultiplyVector(transform.inverse, Block(sol, u, Nt))]
    IN [k \in 1 .. Nt |-> [u \in Unknowns |-> td[u][k]]]

Evaluation(sol) ==
    LET x == AtTimepoints(sol) IN
    [f |-> [u \in Unknowns |-> [k \in 1 .. Nt |-> Resistive(circuit, u, x[k], timepoints[k])]],
     q |-> [u \in Unknowns |-> [k \in 1 .. Nt |-> Reactive(circuit, u, x[k])]],
     g |-> [u, v \in Unknowns |-> [k \in 1 .. Nt |-> Slope(circuit, u, v, x[k], FALSE)]],
     c |-> [u, v \in Unknowns |-> [k \in 1 .. Nt |-> Slope(circuit, u, v, x[k], TRUE)]]]

(***************************************************************************)
(* buildSystem                                                             *)
(***************************************************************************)
Delays == ToSet(circuit.delays)
DelayTo(u) == {d \in Delays : UnknownOf(circuit, d.out) = u}

(* gamma diag(g) gamma^-1 + omega gamma diag(c) gamma^-1                   *)
JacobianBlock(g, c) ==
    LET scaled == [i \in 1 .. Nt |-> [k \in 1 .. Nt |->
                      (transform.forward[i][k] ** g[k]) ++ (transform.derivative[i][k] ** c[k])]]
    IN [i \in 1 .. Nt |-> [j \in 1 .. Nt |->
           Dot(scaled[i], [k \in 1 .. Nt |-> transform.inverse[k][j]])]]

(* the rotation exp(-j omega td) of phasor j                               *)
DelayFactor(j, td) ==
    LET angle == SpectrumOf(spurs)[j] * td IN <<Cos(angle), Zero -- Sin(angle)>>

Times(a, b) == <<(a[1] ** b[1]) -- (a[2] ** b[2]), (a[1] ** b[2]) ++ (a[2] ** b[1])>>

DelayResidual(d, sol) ==
    LET in == Block(sol, UnknownOf(circuit, d.in), Nt)
        out == Block(sol, UnknownOf(circuit, d.out), Nt)
    IN [i \in 1 .. Nt |->
           Component(Times(Phasor(in, LineAt(i)), DelayFactor(LineAt(i), d.td)), i) -- out[i]]

(* what a delay line adds to the block of its output and its input         *)
DelayInBlock(td) ==
    [i, k \in 1 .. Nt |->
        LET e == DelayFactor(LineAt(i), td) IN
        IF LineAt(i) # LineAt(k) THEN Zero
        ELSE IF i = k THEN e[1] ELSE IF i > k THEN e[2] ELSE Zero -- e[2]]

DelayEntry(u, v, i, k) ==
    LET outIn == {d \in DelayTo(u) : UnknownOf(circuit, d.in) = v} IN
    (IF DelayTo(u) # {} /\ u = v /\ i = k THEN Num(-1) ELSE Zero)
      ++ (IF outIn = {} THEN Zero ELSE DelayInBlock((CHOOSE d \in outIn : TRUE).td)[i, k])

(* the residual of a delay line replaces what its output has had           *)
Residual(sol, e, u) ==
    IF DelayTo(u) # {} THEN DelayResidual(CHOOSE d \in DelayTo(u) : TRUE, sol)
    ELSE LET f == MultiplyVector(transform.forward, e.f[u])
             q == MultiplyVector(transform.derivative, e.q[u])
         IN [i \in 1 .. Nt |-> f[i] ++ q[i]]

(* The system: row u*nt+i of every unknown, without the bucket.            *)
Position(s) == [u |-> ((s - 1) \div Nt) + 1, i |-> ((s - 1) % Nt) + 1]
Rows == 1 .. Len(circuit.nodes) * Nt

System(sol) ==
    LET e == Evaluation(sol)
        blocks == [u, v \in Unknowns |->
                      IF HasBlock(circuit, u, v) THEN JacobianBlock(e.g[u, v], e.c[u, v]) ELSE <<>>]
        residuals == [u \in Unknowns |-> Residual(sol, e, u)]
        entry(r, s) ==
            LET to == Position(r) from == Position(s) IN
            (IF blocks[to.u, from.u] = <<>> THEN Zero ELSE blocks[to.u, from.u][to.i][from.i])
              ++ DelayEntry(to.u, from.u, to.i, from.i)
    IN [residual |-> [r \in Rows |-> residuals[Position(r).u][Position(r).i]],
        jacobian |-> [r \in Rows |-> [s \in Rows |-> entry(r, s)]]]

(***************************************************************************)
(* loadForces: a forced entry pulls its unknown towards the given value.   *)
(***************************************************************************)
Pulls(active, s) ==
    SetToSeq({slot \in active : /\ Len(slots[slot].forced) = Len(circuit.nodes) * Nt
                                /\ slots[slot].forced[s]})

WithForces(system, sol, active) ==
    [residual |-> [r \in Rows |-> system.residual[r] ++
         Total([i \in DOMAIN Pulls(active, r) |->
             ForceWeight ** (sol[r + Nt - 1] -- slots[Pulls(active, r)[i]].value[r])])],
     jacobian |-> [r \in Rows |-> [system.jacobian[r] EXCEPT ![r] =
         @ ++ (ForceWeight ** Num(Len(Pulls(active, r))))]]]
-----------------------------------------------------------------------------
(***************************************************************************)
(* setForces: the phasors of a stored solution, by the names of its nodes  *)
(* and by their frequencies.  A solution without names, as homotopy stores *)
(* it, is taken unknown by unknown if it has as many.                      *)
(***************************************************************************)
NoSolution == [names |-> <<>>, values |-> <<>>, spurs |-> <<>>, timepoints |-> <<>>]
NoForces == [forced |-> <<>>, value |-> <<>>]

Translated_Slip(s, from, j) == IF j <= Len(from.weights) THEN j ELSE 0
Translated(s, from, j) ==
    LET same == {l \in DOMAIN from.weights : SpectrumOf(from)[l] = SpectrumOf(s)[j]}
    IN IF same = {} THEN 0 ELSE CHOOSE l \in same : TRUE

HasNames(sol) == sol.names # <<>>
Fits(c, sol) == HasNames(sol) \/ Len(sol.values) = Len(c.nodes)
TargetOf(c, sol, i) == IF HasNames(sol) THEN UnknownOf(c, sol.names[i]) ELSE i

ForcesFrom(c, s, sol) ==
    LET nt == 2 * Len(s.weights) - 1
        origin(r) == {i \in DOMAIN sol.values : TargetOf(c, sol, i) = (r - 1) \div nt + 1}
        part(r) == ((r - 1) % nt) + 1
        line(r) == Translated(s, sol.spurs, LineAt(part(r)))
        forced == [r \in 1 .. Len(c.nodes) * nt |-> Fits(c, sol) /\ origin(r) # {} /\ line(r) # 0]
    IN [forced |-> forced,
        value |-> [r \in 1 .. Len(c.nodes) * nt |->
            IF ~forced[r] THEN Zero
            ELSE Component(sol.values[CHOOSE i \in origin(r) : TRUE][line(r)], part(r))]]

ForcesAccepted(c, sol) == Fits(c, sol) /\ \A i \in DOMAIN sol.values : TargetOf(c, sol, i) # 0

(* what a solution is stored with                                          *)
Annotated(names) ==
    [names |-> names, values |-> phasors, spurs |-> spurs, timepoints |-> timepoints]
-----------------------------------------------------------------------------
(* The analysis is set up for the first time by a rebuild as well.         *)
NoState == [valid |-> FALSE, coherent |-> FALSE, solution |-> NoSolution]

Init ==
    /\ \E setup \in Setups : par = setup.par /\ circuit = setup.circuit
    /\ spurs = Build(<<1>>, <<1>>, 0, FALSE)
    /\ timepoints = <<>> /\ transform = [inverse |-> <<>>, forward |-> <<>>, derivative |-> <<>>]
    /\ solution = Zeros(0, 0) /\ phasors = <<>>
    /\ slots = [s \in {0, 1} |-> NoForces] /\ enabled = {}
    /\ iteration = 0 /\ convIter = 0 /\ converged = FALSE
    /\ phase = "new" /\ runs = 0
    /\ state = [owner \in {"sweep", "homotopy"} |-> NoState]
    /\ stored = NoSolution

(***************************************************************************)
(* rebuild.  Afterwards the analysis makes its stored state incoherent;    *)
(* homotopy keeps none between runs of the core.                           *)
(***************************************************************************)
Fails == phase' = "failed" /\ UNCHANGED <<state, slots>>

Nodeset(p) == p.nodeset /\ stored # NoSolution

Succeeds(p, c, s) ==
    /\ slots' = [slots EXCEPT ![1] = IF Nodeset(p) THEN ForcesFrom(c, s, stored) ELSE NoForces]
    /\ IF Nodeset(p) /\ p.strict /\ ~ForcesAccepted(c, stored)
       THEN phase' = "failed" /\ UNCHANGED state
       ELSE /\ phase' = "built"
            /\ state' = [sweep |-> [state["sweep"] EXCEPT !.coherent = FALSE], homotopy |-> NoState]

RebuildToSolve(p, c) ==
    IF RejectedGrid(p) THEN Fails /\ UNCHANGED <<spurs, timepoints, transform>>
    ELSE \E s \in {Build(p.freq, Harmonics(p), p.immax, p.truncate = "hybrid")} :
         \E selections \in {IF RejectedColocation(p) THEN {} ELSE Selections(p, s)} :
         /\ spurs' = s
         /\ IF selections = {} THEN Fails /\ UNCHANGED <<timepoints, transform>>
            ELSE \E times \in selections :
                   /\ timepoints' = times
                   /\ transform' = BuildAPFT(p, s, times)
                   /\ Succeeds(p, c, s)

RebuildToEvaluate(p, c) ==
    IF ~Nodeset(p) THEN Fails /\ UNCHANGED <<spurs, timepoints, transform>>
    ELSE /\ spurs' = stored.spurs
         /\ timepoints' = stored.timepoints
         /\ transform' = BuildAPFT(p, stored.spurs, stored.timepoints)
         /\ Succeeds(p, c, stored.spurs)

Rebuild(p, c) ==
    /\ runs < MaxRuns
    /\ par' = p /\ circuit' = c
    /\ IF p.solve THEN RebuildToSolve(p, c) ELSE RebuildToEvaluate(p, c)
    /\ UNCHANGED <<solution, enabled, iteration, convIter, converged, phasors, stored, runs>>

(***************************************************************************)
(* runSolver: how a run starts, with the state that has been restored      *)
(***************************************************************************)
SameSizes(sol) ==
    Len(sol.values) = Len(circuit.nodes) /\ Len(sol.spurs.weights) = Len(spurs.weights)

StoredVector(sol) ==
    [i \in 0 .. (Len(circuit.nodes) + 1) * Nt - 1 |->
        IF i < Nt THEN Zero ELSE Unpacked(sol.values[i \div Nt])[(i % Nt) + 1]]

RunSolver(continue, restored) ==
    /\ runs < MaxRuns /\ runs' = runs + 1
    /\ iteration' = 0 /\ convIter' = 0 /\ converged' = FALSE
    /\ phase' = "iterating"
    /\ IF ~continue
         THEN /\ enabled' = {1}
              /\ solution' = Zeros(Len(circuit.nodes), Nt) /\ UNCHANGED slots
       ELSE IF restored.valid /\ restored.coherent /\ SameSizes(restored.solution)
         THEN /\ enabled' = {}
              /\ solution' = StoredVector(restored.solution) /\ UNCHANGED slots
       ELSE IF restored.valid
         THEN /\ enabled' = {0}
              /\ slots' = [slots EXCEPT ![0] = ForcesFrom(circuit, spurs, restored.solution)]
              /\ solution' = Zeros(Len(circuit.nodes), Nt)
       ELSE /\ enabled' = {}
            /\ solution' = Resized(solution, (Len(circuit.nodes) + 1) * Nt) /\ UNCHANGED slots
    /\ UNCHANGED <<built, phasors, stored>>

(* The analysis runs the core, in continue mode when a state was restored. *)
StartRun(restore) ==
    /\ phase \in {"built", "ended"} /\ par.solve
    /\ phase = "ended" => converged
    /\ LET restored == IF restore THEN state["sweep"] ELSE NoState
       IN RunSolver(restored.valid, restored)
    /\ state' = [state EXCEPT !["homotopy"] = NoState]

(* Homotopy runs the solver again: from zero, from the solution there is,  *)
(* or from the last one it has stored.                                     *)
Retry(continue, restore) ==
    /\ phase = "ended" /\ (~converged \/ state["homotopy"].valid)
    /\ restore => continue /\ state["homotopy"].valid
    /\ RunSolver(continue, IF restore THEN state["homotopy"] ELSE NoState)
    /\ UNCHANGED state

(***************************************************************************)
(* An iteration of the solver                                              *)
(***************************************************************************)
StillForced == IF iteration + 1 = par.nsiter + 1 THEN {} ELSE enabled

PhasorsOf(sol) == [u \in Unknowns |-> [j \in DOMAIN spurs.weights |-> Phasor(Block(sol, u, Nt), j)]]

Ends(success) ==
    /\ phase' = "ended" /\ converged' = success
    /\ phasors' = IF success THEN PhasorsOf(solution) ELSE phasors

Advances(delta) ==
    /\ solution' = [i \in DOMAIN solution |->
                       IF i < Nt THEN Zero ELSE solution[i] -- delta[i - Nt + 1]]
    /\ IF iteration + 1 < ItLim THEN UNCHANGED <<phase, converged, phasors>> ELSE Ends(FALSE)

NewtonStep(sol, active) ==
    LET system == WithForces(System(sol), sol, active)
    IN SolveSystem(system.jacobian, system.residual)

Iterate ==
    /\ phase = "iterating"
    /\ iteration' = iteration + 1
    /\ enabled' = StillForced
    /\ \E delta \in {NewtonStep(solution, StillForced)} :
          IF delta = <<>> THEN Ends(FALSE) /\ UNCHANGED <<solution, convIter>>
          ELSE \E count \in {IF iteration > 0 /\ ToSet(delta) = {Zero} THEN convIter + 1 ELSE 0} :
                 /\ convIter' = count
                 /\ IF count >= par.conviter THEN Ends(TRUE) /\ UNCHANGED solution
                    ELSE Advances(delta)
    /\ UNCHANGED <<built, slots, state, stored, runs>>

(***************************************************************************)
(* A result is stored for users, as the state of the analysis, or by       *)
(* homotopy, which leaves out the names.                                   *)
(***************************************************************************)
Solved == phase = "ended" /\ converged

Store ==
    /\ Solved /\ par.store
    /\ stored' = Annotated(circuit.nodes)
    /\ UNCHANGED <<built, solver, phasors, phase, state, runs>>

StoreState(owner) ==
    /\ Solved
    /\ state' = [state EXCEPT ![owner] = [valid |-> TRUE, coherent |-> TRUE,
           solution |-> Annotated(IF owner = "sweep" THEN circuit.nodes ELSE <<>>)]]
    /\ UNCHANGED <<built, solver, phasors, phase, stored, runs>>

(* solve=0: the circuit is evaluated at the nodeset.                       *)
EvaluateAtNodeset ==
    /\ phase = "built" /\ ~par.solve
    /\ phase' = "evaluated"
    /\ solution' = [i \in 0 .. (Len(circuit.nodes) + 1) * Nt - 1 |->
                       IF i < Nt THEN Zero ELSE slots[1].value[i - Nt + 1]]
    /\ enabled' = {}
    /\ UNCHANGED <<built, slots, iteration, convIter, converged, phasors, state, stored, runs>>

Next ==
    \/ phase = "new" /\ Rebuild(par, circuit)
    \/ phase \in {"ended", "evaluated", "failed"}
         /\ \E setup \in Changes : Rebuild(setup.par, setup.circuit)
    \/ \E restore \in BOOLEAN : StartRun(restore)
    \/ \E continue, restore \in BOOLEAN : Retry(continue, restore)
    \/ Iterate
    \/ Store
    \/ \E owner \in {"sweep", "homotopy"} : StoreState(owner)
    \/ EvaluateAtNodeset

Spec == Init /\ [][Next]_vars
-----------------------------------------------------------------------------
TypeOK ==
    /\ \E setup \in Setups \cup Changes : par = setup.par /\ circuit = setup.circuit
    /\ DOMAIN slots = {0, 1} /\ enabled \subseteq {0, 1}
    /\ phase \in {"new", "built", "iterating", "ended", "evaluated", "failed"}
    /\ phase \in {"built", "iterating", "ended", "evaluated"} => Nt = 2 * Len(spurs.weights) - 1
    /\ phase \in {"iterating", "ended", "evaluated"} =>
          DOMAIN solution = 0 .. (Len(circuit.nodes) + 1) * Nt - 1
    /\ iteration \in 0 .. ItLim /\ convIter \in 0 .. iteration /\ runs \in 0 .. MaxRuns
    /\ converged \in BOOLEAN /\ DOMAIN state = {"sweep", "homotopy"}

(***************************************************************************)
(* The spectrum of harmonic balance holds the frequency of every spur that *)
(* truncation keeps, each once and in order from DC, with the simplest     *)
(* spur that has it; and where no two spurs meet, the two-sided spectrum   *)
(* of the small-signal analyses has every kept spur exactly once.  This is *)
(* about the odometer of Spurs::build, which visits one of a spur and its  *)
(* negative, and about its removal of spurs that meet.                     *)
(***************************************************************************)
SpectrumIsTruncated ==
    spurs.fund = par.freq /\ phase # "new" /\ ~RejectedGrid(par) /\ par.solve =>
    LET harms == Harmonics(par)
        kept == {w \in Box(harms) : IsKept(w, harms, par.immax, par.truncate = "hybrid")}
        f(w) == Magnitude(Frequency(par.freq, w))
        simplicity(w) == 2 * Order(w) + (IF IsHarmonic(w) THEN 0 ELSE 1)
    IN /\ ToSet(SpectrumOf(spurs)) = {f(w) : w \in kept}
       /\ \A i \in 1 .. Len(spurs.weights) - 1 : SpectrumOf(spurs)[i] < SpectrumOf(spurs)[i + 1]
       /\ \A i \in DOMAIN spurs.weights, w \in kept :
             f(w) = SpectrumOf(spurs)[i] => simplicity(spurs.weights[i]) <= simplicity(w)
       /\ ~spurs.conflict => ToSet(spurs.lines) = kept /\ Len(spurs.lines) = Cardinality(kept)

(***************************************************************************)
(* The system the solver builds in the frequency domain is the circuit's   *)
(* system of differential equations at the colocation points: taken back   *)
(* to time, its residual is f(x) + dq/dt, or what a delay line misses; its *)
(* Jacobian is the derivative of its residual by every component of every  *)
(* unknown; and a run that converges with no nodeset left in the system    *)
(* has solved it.  This is about HBNRSolver::buildSystem with the          *)
(* transforms of HBCore::buildAPFT.                                        *)
(***************************************************************************)
Unpulled == par.nsiter <= par.conviter

(* x, and its derivative, at any time                                      *)
Waveform(u, t) ==
    Total([i \in 1 .. Nt |-> Block(solution, u, Nt)[i] ** TransformRow(par, spurs, t)[i]])
Derivative(u, t) ==
    Total([j \in 1 .. Len(spurs.weights) - 1 |->
        LET w == Omega(SpectrumOf(spurs)[j + 1])
            angle == SpectrumOf(spurs)[j + 1] * t
            z == Phasor(Block(solution, u, Nt), j + 1)
        IN Zero -- (w ** ((z[1] ** Sin(angle)) ++ (z[2] ** Cos(angle))))])

InTime(u, t) ==
    LET x == [v \in Unknowns |-> Waveform(v, t)] IN
    IF DelayTo(u) # {}
    THEN LET d == CHOOSE d \in DelayTo(u) : TRUE
         IN Waveform(UnknownOf(circuit, d.in), t - d.td) -- x[u]
    ELSE Resistive(circuit, u, x, t)
           ++ Total([v \in Unknowns |-> Slope(circuit, u, v, x, TRUE) ** Derivative(v, t)])

HBSystemIsSteadyState ==
    /\ phase = "iterating" =>
          LET system == System(solution)
              nudged(s) == [solution EXCEPT ![s + Nt - 1] = <<ValueOf(@), 1>>]
              moved(s) == LET x == nudged(s) e == Evaluation(x)
                          IN [u \in Unknowns |-> Residual(x, e, u)]
          IN /\ \A u \in Unknowns, k \in 1 .. Nt :
                   Dot(transform.inverse[k], [i \in 1 .. Nt |-> system.residual[((u - 1) * Nt) + i]])
                     = InTime(u, timepoints[k])
             /\ \A s \in Rows : LET column == moved(s) IN
                   \A r \in Rows :
                     SlopeOf(column[Position(r).u][Position(r).i]) = ValueOf(system.jacobian[r][s])
    /\ Solved /\ Unpulled =>
          \A u \in Unknowns, k \in 1 .. Nt : InTime(u, timepoints[k]) = Zero

(***************************************************************************)
(* A solution that a nodeset or the previous point of a sweep brings in    *)
(* acts on the same node and the same frequency it was computed for, even  *)
(* if the order of the unknowns, the nodes or the spectrum have changed in *)
(* between: forces fix the phasors both have and no others, an ordinary    *)
(* continuation starts from just the stored phasors.  This is about        *)
(* HBNRSolver::setForces and HBCore::runSolver.                            *)
(***************************************************************************)
PhasorIn(sol, node, f) ==
    {sol.values[i][l] : i \in {i \in DOMAIN sol.values : sol.names[i] = node},
                        l \in {l \in DOMAIN sol.spurs.weights : SpectrumOf(sol.spurs)[l] = f}}

ActsOn(slot, sol) ==
    \A r \in 1 .. Len(circuit.nodes) * Nt :
       LET i == ((r - 1) % Nt) + 1
           origin == PhasorIn(sol, circuit.nodes[((r - 1) \div Nt) + 1], SpectrumOf(spurs)[LineAt(i)])
       IN /\ slot.forced[r] <=> origin # {}
          /\ \A z \in origin : slot.value[r] = Component(z, i)

ForcesActOnTheSame ==
    /\ phase = "built" /\ Nodeset(par) => ActsOn(slots[1], stored)
    /\ phase = "iterating" /\ iteration = 0 /\ 0 \in enabled =>
          state["sweep"].valid /\ ActsOn(slots[0], state["sweep"].solution)

StartsFromStored ==
    StartRun(TRUE) /\ state["sweep"].valid /\ enabled' = {} =>
        \A u \in Unknowns, j \in DOMAIN spurs.weights :
            PhasorIn(state["sweep"].solution, circuit.nodes[u], SpectrumOf(spurs)[j])
              = {Phasor(Block(solution', u, Nt), j)}

PhasorsKeepTheirPlace == [][ForcesActOnTheSame /\ StartsFromStored]_vars
=============================================================================
