---------------------------- MODULE MCTransient ----------------------------
(* Transient on a grid of a few ticks: one run with every combination of   *)
(* method, noise mode and limits that matters, and parameters it rejects.  *)
EXTENDS ShootingTransient

Base == [stop |-> 16, start |-> 0, step |-> 12, maxstep |-> 0, freqstep |-> 0,
         rmax |-> 0, minptsstep |-> 0, method |-> "am", maxord |-> 2,
         noise |-> "none", noisestep |-> 4, filter |-> TRUE, contbypass |-> TRUE,
         unknowns |-> 4, xmu |-> 2, shooting |-> FALSE,
         lagged |-> FALSE, relref |-> TRUE]

MCSettings == {
    Base,
    [Base EXCEPT !.start = 4, !.noise = "zoh", !.contbypass = FALSE, !.xmu = 1,
                 !.lagged = TRUE],
    [Base EXCEPT !.maxord = 3, !.shooting = TRUE, !.minptsstep = 3, !.unknowns = 2],
    [Base EXCEPT !.method = "bdf", !.noise = "sde", !.maxord = 3, !.minptsstep = 3,
                 !.shooting = TRUE],
    [Base EXCEPT !.relref = FALSE],
    [Base EXCEPT !.stop = -1],
    [Base EXCEPT !.stop = 0],
    [Base EXCEPT !.start = 16],
    [Base EXCEPT !.maxstep = -1],
    [Base EXCEPT !.method = "other"],
    [Base EXCEPT !.noise = "other"]}

\* Tables without a pattern in time
Table(a, b) == [t \in 0..Horizon |-> (a * t * t + b * t + 7) % P]
MCCharge == Table(3, 5)
MCCurrent == Table(11, 2)
MCSource == Table(17, 29)
=============================================================================
