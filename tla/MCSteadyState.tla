---------------------------- MODULE MCSteadyState ----------------------------
(* Two benches: harmonic balance, and shooting. The oscillators are chosen  *)
(* so that a few corrections modulo the prime arrive at a solution.         *)
EXTENDS ConversionMatrix, TLC

CONSTANTS ShootItl, ShootRuns

VARIABLES
    bench,          \* "harmonics" or "shooting"
    p, ready, core, stage, error, continuing, x0, xT, T, shoot, before, iter, found, omega,
    shootWrite, written, storedPeriod, kept, forces, icSlot, points

-----------------------------------------------------------------------------
(* The bench of harmonic balance.                                           *)

\* a root of unity of order Ticks; numbers that stand for 2 pi and for the weight of a forced value
MCRoot == Num(4958)
MCTwoPi == Num(3)
MCForceWeight == Num(4321)

Term(row, col, power, coef, reactive) ==
    [row |-> row, col |-> col, power |-> power, coef |-> coef, reactive |-> reactive]

\* b follows the square of a; a is a filter
Terms_ab ==
    <<Term("a", "a", 1, 3, FALSE), Term("a", "a", 1, 2, TRUE),
      Term("b", "b", 1, 5, FALSE), Term("b", "a", 2, 7, FALSE), Term("b", "b", 1, 1, TRUE)>>
Tone(f) == [row |-> "a", amp |-> 10, freq |-> f]

Squarer(nodes, f) == [nodes |-> nodes, terms |-> Terms_ab, sources |-> <<Tone(f), Tone(0)>>, delays |-> <<>>]
AB(f) == Squarer(<<"a", "b">>, f)
BA(f) == Squarer(<<"b", "a">>, f)

\* a loop through a delay line
Loop(f) ==
    [nodes |-> <<"d", "a">>,
     terms |-> <<Term("a", "a", 1, 3, FALSE), Term("a", "a", 1, 2, TRUE), Term("a", "d", 1, 4, FALSE)>>,
     sources |-> <<Tone(f)>>,
     delays |-> <<[in |-> "a", out |-> "d", td |-> 37]>>]

\* an equation without a solution
Dangling ==
    [nodes |-> <<"a">>, terms |-> <<Term("a", "a", 1, 2, TRUE)>>, sources |-> <<Tone(1)>>, delays |-> <<>>]

OneTone ==
    [freq |-> <<1>>, nharm |-> <<1>>, scalar |-> TRUE, immax |-> 0, truncate |-> "diamond",
     samplefac |-> 4, sample |-> "uniform", shift |-> 0, nper |-> 1, tstart |-> 0, draws |-> <<>>,
     nodeset |-> FALSE, strict |-> TRUE, store |-> TRUE, solve |-> TRUE, nsiter |-> 1, conviter |-> 1]
TwoHarmonics == [OneTone EXCEPT !.nharm = <<2>>, !.nodeset = TRUE, !.strict = FALSE]
Third == [OneTone EXCEPT !.freq = <<3>>, !.nodeset = TRUE, !.tstart = 7, !.shift = 2, !.conviter = 2]
Oversampled == [OneTone EXCEPT !.samplefac = 5, !.nodeset = TRUE, !.store = FALSE]
TwoTone ==
    [OneTone EXCEPT !.freq = <<2, 3>>, !.nharm = <<1, 1>>, !.scalar = FALSE, !.immax = 1,
                    !.sample = "random", !.nper = 2, !.draws = <<0, 100, 17, 61, 140>>]
Aliased == [TwoTone EXCEPT !.sample = "uniform"]
OnlyEvaluated == [OneTone EXCEPT !.solve = FALSE, !.nodeset = TRUE]

\* spectra that are built for solvers that are then refused
Refused == [OneTone EXCEPT !.samplefac = 3]
Refusals ==
    {[Refused EXCEPT !.freq = <<7, 11>>, !.nharm = h, !.scalar = FALSE, !.immax = m, !.truncate = t] :
        h \in {<<2, 1>>, <<1, 3>>}, m \in {0, 2}, t \in {"diamond", "hybrid"}}
    \cup {[Refused EXCEPT !.freq = f, !.nharm = <<1>>, !.immax = m] :
            f \in {<<1, 2>>, <<2, 5, 13>>, <<3, 2, 1>>}, m \in {0, 2}}
    \cup {[Refused EXCEPT !.nharm = <<0>>], [Refused EXCEPT !.freq = <<0>>]}

Setup(params, c) == [par |-> params, circuit |-> c]
MCSetups ==
    {Setup(OneTone, AB(1)), Setup(OneTone, Loop(1)), Setup(OneTone, Dangling),
     Setup(TwoHarmonics, AB(1)), Setup(TwoHarmonics, BA(2)), Setup(Third, BA(3)), Setup(Third, Loop(3)),
     Setup(Oversampled, Loop(1)), Setup(TwoTone, Loop(3)),
     Setup(Aliased, AB(2)), Setup(OnlyEvaluated, AB(1))}
    \cup {Setup(refused, AB(1)) : refused \in Refusals}

MCPrunings ==
    {[maxharm |-> <<-1>>, maxfreq |-> -1], [maxharm |-> <<1>>, maxfreq |-> 3],
     [maxharm |-> <<-1, -1>>, maxfreq |-> -1], [maxharm |-> <<-1, 0>>, maxfreq |-> -1]}

MCChanges ==
    {Setup(TwoHarmonics, BA(2)), Setup(Third, Loop(3)), Setup(Aliased, BA(2)), Setup(OnlyEvaluated, AB(1))}
-----------------------------------------------------------------------------
(* The bench of shooting.                                                   *)
Vector(s) == [i \in DOMAIN s |-> Num(s[i])]
Matrix(m) == [i \in DOMAIN m |-> Vector(m[i])]
Always(m) == [k \in 1..3 |-> Matrix(m)]

(* A circuit with the matrices of its points, and what its operating point, *)
(* its initial conditions and a stabilisation transient give.               *)
Circuit2(c, g, s, ic) ==
    [c |-> <<Matrix(c)>> \o Always(c), g |-> Always(g), s |-> [k \in 1..3 |-> Vector(s)],
     op |-> Vector(<<2, 5>>), ic |-> Vector(ic), settled |-> Vector(<<3, 1>>),
     topology |-> "A", absdelay |-> FALSE]

\* circuits that oscillate from ic, with the length of their period as first guess
OscillatorBDF2 == Circuit2(<<<<4, 0>>, <<0, 3>>>>, <<<<9, 2>>, <<1, 4>>>>, <<3, 4>>, <<9, 2>>)
OscillatorAM2 == Circuit2(<<<<2, 0>>, <<0, 1>>>>, <<<<9, 2>>, <<2, 3>>>>, <<6, 8>>, <<3, 4>>)
SlowAM2 == Circuit2(<<<<3, 0>>, <<0, 4>>>>, <<<<7, 3>>, <<7, 5>>>>, <<4, 4>>, <<1, 3>>)
OscillatorEuler == Circuit2(<<<<4, 0>>, <<0, 2>>>>, <<<<2, 4>>, <<1, 6>>>>, <<6, 5>>, <<1, 7>>)
OtherEuler == Circuit2(<<<<4, 0>>, <<0, 4>>>>, <<<<6, 8>>, <<7, 7>>>>, <<6, 1>>, <<3, 8>>)

\* driven circuits: a source, a capacitance and a conductance that change with time
Pumped ==
    [Circuit2(<<<<4, 1>>, <<1, 2>>>>, <<<<5, 2>>, <<3, 4>>>>, <<7, 3>>, <<4, 0>>) EXCEPT
        !.c = <<Matrix(<<<<4, 1>>, <<1, 2>>>>), Matrix(<<<<5, 0>>, <<0, 2>>>>),
                Matrix(<<<<3, 0>>, <<1, 2>>>>), Matrix(<<<<4, 1>>, <<1, 2>>>>)>>,
        !.g[2] = Matrix(<<<<1, 2>>, <<3, 6>>>>), !.s[3] = Vector(<<1, 8>>)]
Single ==
    [c |-> [k \in 1..4 |-> <<Vector(<<k + 1>>)>>], g |-> [k \in 1..3 |-> <<Vector(<<2 * k>>)>>],
     s |-> [k \in 1..3 |-> Vector(<<5 - k>>)],
     op |-> Vector(<<2>>), ic |-> Vector(<<6>>), settled |-> Vector(<<9>>),
     topology |-> "B", absdelay |-> FALSE]
Delayed == [Single EXCEPT !.absdelay = TRUE]

Driven(c) ==
    [driven |-> TRUE, tper |-> 6, tstab |-> 0, stabstep |-> 0, icmode |-> "op", ic |-> "none",
     store |-> FALSE, adjoint |-> FALSE, write |-> TRUE, strict |-> TRUE, method |-> "bdf",
     maxord |-> 2, circuit |-> c]
Autonomous(c, tper, method, maxord) ==
    [Driven(c) EXCEPT !.driven = FALSE, !.tper = tper, !.ic = "list", !.icmode = "uic",
                      !.store = TRUE, !.method = method, !.maxord = maxord]

\* the same oscillator, with the period it had before
GoesOn(s) == [s EXCEPT !.tper = 0, !.ic = "stored", !.write = FALSE]

BDF2 == Autonomous(OscillatorBDF2, 8, "bdf", 2)
AM2 == Autonomous(OscillatorAM2, 10, "am", 2)
Slow == Autonomous(SlowAM2, 6, "am", 2)
Euler == [Autonomous(OscillatorEuler, 5, "bdf", 1) EXCEPT !.adjoint = TRUE]
Euler2 == [Autonomous(OtherEuler, 4, "bdf", 1) EXCEPT !.adjoint = TRUE, !.write = FALSE]

MCSettings ==
    {BDF2, AM2, Slow, Euler, Euler2, Driven(Pumped), Driven(Single), Driven(Delayed),
     [Driven(Pumped) EXCEPT !.method = "am", !.store = TRUE, !.tstab = 4, !.stabstep = 2],
     [Driven(Pumped) EXCEPT !.maxord = 1, !.adjoint = TRUE, !.ic = "list"],
     [Driven(Pumped) EXCEPT !.maxord = 3, !.ic = "list", !.icmode = "uic"],
     [Driven(OscillatorEuler) EXCEPT !.maxord = 1, !.adjoint = TRUE, !.strict = FALSE],
     [Driven(Single) EXCEPT !.tper = 0], [Driven(Single) EXCEPT !.stabstep = -1],
     [Driven(Single) EXCEPT !.tstab = 4, !.stabstep = 4],
     [BDF2 EXCEPT !.ic = "none", !.icmode = "op"], [AM2 EXCEPT !.tstab = 3]}

MCLater ==
    {GoesOn(BDF2), GoesOn(Euler), BDF2, [Driven(Single) EXCEPT !.ic = "list", !.tper = 0],
     [Driven(Pumped) EXCEPT !.ic = "list", !.strict = FALSE], Driven(Delayed)}

S == INSTANCE PeriodicSteadyState WITH
    Settings <- MCSettings, Changes <- MCLater, Grid <- <<1, 2, 2>>,
    Itl <- ShootItl, MaxRuns <- ShootRuns,
    built <- ready, stored <- storedPeriod, state <- kept, runs <- points

shootVars == <<p, ready, core, stage, error, continuing, x0, xT, T, shoot, before, iter, found,
               omega, shootWrite, written, storedPeriod, kept, forces, icSlot, points>>
benches == <<bench, vars, shootVars>>

FixedSetup == CHOOSE s \in MCSetups : s.par.nharm = <<1>>

MCInit ==
    /\ bench \in {"harmonics", "shooting"} /\ Init /\ S!Init
    /\ bench = "harmonics" => p = Driven(Single)
    /\ bench = "shooting" => par = FixedSetup.par /\ circuit = FixedSetup.circuit

MCNext ==
    \/ bench = "harmonics" /\ Next /\ UNCHANGED <<bench, shootVars>>
    \/ bench = "shooting" /\ S!Next /\ UNCHANGED <<bench, vars>>

MCSpec == MCInit /\ [][MCNext]_benches

(* A correction of the shooting method solves the equations linearised      *)
(* along the period it was computed from, and the multipliers of the        *)
(* adjoint system are those of the circuit (runShoot, computePsiT, the      *)
(* Newton loop, integrateAdjointMonodromy).                                 *)
MonodromyIsDerivative == S!MonodromyIsDerivative

(* What a periodic steady state analysis reports, writes and stores closes  *)
(* over the period it reports; it starts where its initial conditions say,  *)
(* and a driven linear circuit or a solution that is continued needs no     *)
(* second correction (PssCore::coroutine, runStabilisation, storeState).    *)
PeriodIsClosed == S!PeriodIsClosed
==============================================================================
