---- MODULE MCOperatingPoint ----
(***************************************************************************)
(* Small instances of OperatingPoint. Conductances are exponents from 0 to *)
(* MCMaxGmin, source factors eighths. Options are chosen so that every     *)
(* algorithm follows every other that may come before it.                  *)
(***************************************************************************)
EXTENDS OperatingPoint

Setting(homotopy, srchomotopy, skip, bypass, gminsteps, srcsteps, levels) ==
    [core |-> "op", op_homotopy |-> homotopy, op_srchomotopy |-> srchomotopy, skipinitial |-> skip,
     contbypass |-> bypass, gminsteps |-> gminsteps, srcsteps |-> srcsteps, levels |-> levels]

\* The default of option gshunt, 0.0.
NoGshunt == -1

MCSettings == {
    \* the defaults, in a sweep
    Setting(<<"gdev", "gshunt", "src">>, <<"gdev", "gshunt">>, FALSE, TRUE, 5, 5, 1),
    \* the fixed steps of SPICE3 first, forced bypass switched off
    Setting(<<"spice3gmin", "spice3src", "gdev">>, <<>>, FALSE, FALSE, 2, 2, 1),
    \* dynamic stepping runs out of steps before the fixed ones
    Setting(<<"gshunt", "spice3gmin">>, <<>>, FALSE, TRUE, 3, 0, 0),
    \* source stepping alone, with alternatives that cannot be used
    Setting(<<"unknown", "src">>, <<"src", "spice3gmin", "unknown", "gdev">>, FALSE, TRUE, 2, 5, 1),
    \* the initial run is skipped
    Setting(<<"gdev", "src">>, <<"gshunt">>, TRUE, TRUE, 3, 3, 0),
    \* harmonic balance in a sweep
    [Setting(<<"gdev", "src">>, <<"gdev">>, FALSE, TRUE, 2, 5, 1) EXCEPT !.core = "hb"],
    \* no gmin stepping, no algorithm at all
    Setting(<<"gdev", "src", "spice3src">>, <<"gshunt">>, TRUE, TRUE, 0, 2, 0)}
====
