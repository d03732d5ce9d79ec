-------------------------- MODULE ConversionMatrix --------------------------
(***************************************************************************)
(* The small-signal system around a solution of harmonic balance: the      *)
(* spectrum of the Jacobian (HBCore::getFrequencyDomainJacobians) and the  *)
(* conversion matrix that HBAC, HBXF and HBNoise fill with it              *)
(* (lib/corehbac.cpp).  A complex number is a pair <<re, im>>.             *)
(***************************************************************************)
EXTENDS HarmonicBalance

CONSTANTS
    Prunings,       \* [maxharm, maxfreq]: what the small-signal spectrum leaves out
    Frequencies     \* frequencies of the small signal

Plus(a, b) == <<a[1] ++ b[1], a[2] ++ b[2]>>
Scaled(x, a) == <<x ** a[1], x ** a[2]>>
Conjugate(a) == <<a[1], Zero -- a[2]>>
TimesJ(a) == <<Zero -- a[2], a[1]>>
Half == One // Num(2)
NoSignal == <<Zero, Zero>>

(***************************************************************************)
(* rebuildCore                                                             *)
(***************************************************************************)
Pruned(pruning) == Prune(spurs, pruning.maxharm, pruning.maxfreq)

(***************************************************************************)
(* getFrequencyDomainJacobians: the phasors of a Jacobian at the           *)
(* colocation points, as amplitudes of the lines of the pruned spectrum.   *)
(***************************************************************************)
LineSpectrum(s, values) ==
    LET z == MultiplyVector(transform.forward, values)
        amplitude == [j \in DOMAIN spurs.weights |-> Scaled(IF j = 1 THEN One ELSE Half, Phasor(z, j))]
    IN [k \in DOMAIN s.full |->
           IF s.full[k] >= spurs.dc THEN amplitude[s.full[k] - spurs.dc + 1]
           ELSE Conjugate(amplitude[spurs.dc - s.full[k] + 1])]

(***************************************************************************)
(* computeOmega, fillDenseBlock, fillMatrix                                *)
(***************************************************************************)
LineOmega(s, f, n) == Omega(f + LineFrequency(s, n))

FillDenseBlock(s, map, G, C, f) ==
    [n, m \in DOMAIN s.lines |->
        IF n \in RowRange(map, s, m) /\ map[n, m] # NoLine
        THEN Plus(G[map[n, m]], Scaled(LineOmega(s, f, n), TimesJ(C[map[n, m]])))
        ELSE NoSignal]

DelayAt(s, f, u, v, n) ==
    LET outIn == {d \in DelayTo(u) : UnknownOf(circuit, d.in) = v}
        angle == (f + LineFrequency(s, n)) * (CHOOSE d \in outIn : TRUE).td
    IN Plus(IF DelayTo(u) # {} /\ u = v THEN <<Num(-1), Zero>> ELSE NoSignal,
            IF outIn = {} THEN NoSignal ELSE <<Cos(angle), Zero -- Sin(angle)>>)

FillBlocks(s, e, f, map) ==
    [u, v \in Unknowns |->
        IF HasBlock(circuit, u, v)
        THEN FillDenseBlock(s, map, LineSpectrum(s, e.g[u, v]), LineSpectrum(s, e.c[u, v]), f)
        ELSE [n, m \in DOMAIN s.lines |-> NoSignal]]

WithDelays(s, f, block) ==
    [u, v \in Unknowns |-> [n, m \in DOMAIN s.lines |->
        Plus(block[u, v][n, m], IF n = m THEN DelayAt(s, f, u, v, n) ELSE NoSignal)]]

FillMatrix(s, e, f) == WithDelays(s, f, FillBlocks(s, e, f, MixingMap(s)))
-----------------------------------------------------------------------------
(***************************************************************************)
(* The conversion matrix that HBAC solves is the harmonic balance Jacobian *)
(* between lines instead of real and imaginary parts: without an offset    *)
(* every entry between two lines it has is the one the solver converged    *)
(* with; and what it says of one pair of lines at a frequency it says of   *)
(* the next pair, one tone below.  The first is compared where sampling    *)
(* makes no difference: equidistant points of a single tone, linear        *)
(* circuits, or a perturbation at DC.  This is about two pieces of code    *)
(* that transform the same Jacobian, buildSystem and fillMatrix.           *)
(***************************************************************************)
Equidistant ==
    /\ Len(spurs.fund) = 1
    /\ \A k \in 1 .. Nt - 1 : (timepoints[k + 1] - timepoints[k]) * Nt * spurs.fund[1] = Ticks

Linear == \A i \in DOMAIN circuit.terms : circuit.terms[i].power = 1

(* the entry of the Jacobian between the lines out and in, of the full     *)
(* spectrum: a line on the right of DC is half of Re + j Im of a residual, *)
(* and of Re - j Im on its left; an unknown is Re - j Im, or Re + j Im     *)
Between(jacobian, u, v, out, in) ==
    LET row(i) == ((u - 1) * Nt) + i
        column(i) == ((v - 1) * Nt) + i
        to == Magnitude(out - spurs.dc)
        from == Magnitude(in - spurs.dc)
        side(k, x, y) == IF k > spurs.dc THEN Plus(x, TimesJ(y)) ELSE Plus(x, Scaled(Num(-1), TimesJ(y)))
        entry(i, k) == <<jacobian[row(i)][column(k)], Zero>>
        signal(i) == IF from = 0 THEN entry(i, 1)
                     ELSE side(2 * spurs.dc - in, entry(i, 2 * from), entry(i, (2 * from) + 1))
    IN IF to = 0 THEN signal(1)
       ELSE Scaled(Half, side(out, signal(2 * to), signal((2 * to) + 1)))

NextTone(s, n, k) == LineOf(s, [s.lines[n] EXCEPT ![k] = @ + 1])

ConversionFollowsJacobian ==
    (Solved \/ phase = "evaluated") /\ ~spurs.conflict =>
    \A pruning \in Prunings :
      Len(pruning.maxharm) = Len(spurs.fund) =>
        LET s == Pruned(pruning)
            map == MixingMap(s)
            e == Evaluation(solution)
            jacobian == System(solution).jacobian
            still == FillMatrix(s, e, 0)
        IN /\ \A n, m \in DOMAIN s.lines :
                (Linear \/ m = s.dc \/ Equidistant) /\ map[n, m] # NoLine =>
                  \A u, v \in Unknowns :
                    still[u, v][n, m] = Between(jacobian, u, v, s.full[n], s.full[m])
           /\ \A f \in Frequencies, k \in DOMAIN s.fund :
                LET here == FillMatrix(s, e, f)
                    below == FillMatrix(s, e, f - s.fund[k])
                IN \A n, m \in DOMAIN s.lines :
                     NextTone(s, n, k) # NoLine /\ NextTone(s, m, k) # NoLine =>
                       \A u, v \in Unknowns :
                         here[u, v][n, m] = below[u, v][NextTone(s, n, k), NextTone(s, m, k)]

(***************************************************************************)
(* Both matrices that are solved in the frequency domain say what the      *)
(* circuit's equations say: that of harmonic balance (buildSystem), and    *)
(* that of its small-signal analyses (fillMatrix).                         *)
(***************************************************************************)
SpectraObeyTheCircuit == HBSystemIsSteadyState /\ ConversionFollowsJacobian
=============================================================================
