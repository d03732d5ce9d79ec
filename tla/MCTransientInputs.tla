-------------------------- MODULE MCTransientInputs --------------------------
(* Two benches for what a transient analysis reads back between its steps.  *)
(* On one, two delay lines with different maximal delays live through two   *)
(* runs; buffers begin with two cells, so that they wrap around and grow in *)
(* a few steps.  On the other, a source is given waveforms of every type:   *)
(* with and without a period, a delay, a phase, a repeated last point, a    *)
(* flat end, points in line, short waves after long ones, and parameters    *)
(* that are refused.                                                        *)
EXTENDS DelayLines, TLC

CONSTANTS
    SourceTime,     \* bound: sources are evaluated at 0 .. SourceTime
    Tol,            \* timeRelativeTolerance, as a distance
    Never           \* stands for infinity

VARIABLES
    bench,                                                          \* "delays" or "source"
    params, ready, data, time, value, nextBreakPoint                \* of the source

Wave(s) == [i \in 1 .. Len(s) |-> [x |-> s[i][1], y |-> s[i][2]]]

Pwl(wave, period, delay, phase, breakpt) ==
    [type |-> "pwl", wave |-> Wave(wave), period |-> period, delay |-> delay,
     phase |-> phase, breakpt |-> breakpt, slopetol |-> 0, sloperel |-> 0, slopeglob |-> 1]

PulseOf(period, delay, width, fall) ==
    [type |-> "pulse", val0 |-> 0, val1 |-> 4, period |-> period, delay |-> delay,
     rise |-> 4, width |-> width, fall |-> fall]

Ramp == <<<<0, 2>>, <<4, 6>>, <<8, 10>>, <<16, 2>>, <<20, 2>>, <<24, 6>>, <<28, 2>>>>
Late == <<<<4, 1>>, <<8, 5>>, <<16, 5>>, <<20, 1>>>>
Short == <<<<0, 0>>, <<8, 8>>>>

MCWaveforms ==
    {Pwl(Ramp, 0, d, 0, b) : d \in {-4, 6}, b \in {"all", "auto"}}
    \cup {Pwl(Ramp, p, d, f, b) : p \in {28, 32}, d \in {-4, 6}, f \in {0, -8},
                                  b \in {"all", "auto"}}
    \cup {Pwl(Ramp, 28, 0, 9, "all")}
    \cup {Pwl(Late, p, 6, f, "all") : p \in {0, 20, 24}, f \in {0, 4}}
    \cup {Pwl(Late, p, 0, 2, "auto") : p \in {0, 24}}
    \cup {[Pwl(Ramp, p, 0, 0, "auto") EXCEPT !.slopetol = 1] : p \in {0, 28}}
    \cup {[Pwl(Ramp, 32, 0, 0, "auto") EXCEPT !.sloperel = 100]}
    \cup {Pwl(Short, p, 0, 0, b) : p \in {0, 8, 16}, b \in {"all", "none"}}
    \cup {PulseOf(0, 6, w, f) : w \in {0, 4}, f \in {0, 4}}
    \cup {PulseOf(16, 0, w, 4) : w \in {0, 4}} \cup {PulseOf(12, 0, 4, 4)}
    \cup {[type |-> "sine", delay |-> 6, freq |-> f] : f \in {0, 1}}
    \cup {[type |-> "exp", delay |-> 6, td2 |-> t] : t \in {0, 5}}
    \cup {[type |-> t, delay |-> 6] : t \in {"dc", "am", "square"}}

S == INSTANCE Sources WITH Waveforms <- MCWaveforms, MaxTime <- SourceTime

sourceVars == <<params, ready, data, time, value, nextBreakPoint>>
benches == <<bench, delayVars, sourceVars>>

MCInit ==
    /\ bench \in {"delays", "source"} /\ DelayInit /\ S!Init
    /\ bench = "delays" => params = CHOOSE w \in MCWaveforms : TRUE

MCNext ==
    \/ bench = "delays" /\ DelayNext /\ UNCHANGED <<bench, sourceVars>>
    \/ bench = "source" /\ S!Next /\ UNCHANGED <<bench, delayVars>>

MCSpec == MCInit /\ [][MCNext]_benches

(* The value of a source is that of its waveform, whatever segment an       *)
(* earlier evaluation left behind (pwlIndexLookup, pwlValue, the pulse), and *)
(* an integrator that goes up to the announced break point steps over no    *)
(* corner of it (sourceCompute, EvalSetup::setBreakPoint).                  *)
SourceFollowsItsWaveform == S!ValueIsInterpolated /\ S!CornersAreAnnounced
==============================================================================
