--------------------------- MODULE InstanceBypass ---------------------------
(***************************************************************************)
(* How one OSDI instance is evaluated or bypassed (evalCore,               *)
(* inputBypassCheckCore and outputBypassCheckCore of OsdiInstance in       *)
(* lib/osdiinstance.cpp).                                                  *)
(*                                                                         *)
(* An instance whose residuals stopped changing is not evaluated again as  *)
(* long as its inputs stay where they were. Values are not modelled: what  *)
(* an evaluation finds out is its outcome, three Booleans.                 *)
(***************************************************************************)

CONSTANTS Instances,      \* OSDI instances of the circuit
          Bypassable      \* those whose device may be bypassed

ASSUME BypassableAssumption == Bypassable \subseteq Instances

\* limiting: the model limited one of its inputs. sameInputs, sameOutputs: the
\* inputs, the residuals are within tolerance of the stored ones.
Outcome == [limiting: BOOLEAN, sameInputs: BOOLEAN, sameOutputs: BOOLEAN]

\* What an evaluation of all instances may find out; nothing is compared for those
\* that are never bypassed.
Outcomes == {o \in [Instances -> Outcome] :
                \A i \in Instances \ Bypassable : o[i].sameInputs /\ o[i].sameOutputs}

\* The instance's flags LimitingApplied, HasDeviceHistory, OutputConverged, Bypassed.
Flags == [limiting: BOOLEAN, history: BOOLEAN, converged: BOOLEAN, bypassed: BOOLEAN]

NoFlags == [limiting |-> FALSE, history |-> FALSE, converged |-> FALSE, bypassed |-> FALSE]

\* The part of EvalSetup that decides on bypass, with option nr_bypass.
Setup == [nrBypass: BOOLEAN, allow: BOOLEAN, force: BOOLEAN, highPrecision: BOOLEAN]

ClearHistory(f) == [f EXCEPT !.history = FALSE, !.converged = FALSE, !.bypassed = FALSE]

-----------------------------------------------------------------------------
Unconverged(f) == [f EXCEPT !.converged = FALSE, !.bypassed = FALSE]

\* High precision rules bypass out, a forced one asks for nothing else.
BypassAllowed(f, s, o) ==
    ~s.highPrecision /\ (s.force \/ (s.allow /\ f.converged /\ o.sameInputs))

\* The flags when it is decided whether the instance is bypassed.
Decided(i, f, s, o) ==
    CASE i \notin Bypassable                        -> f
      [] i \in Bypassable /\ BypassAllowed(f, s, o) -> [f EXCEPT !.bypassed = TRUE]
      [] OTHER                                      -> Unconverged(f)

Evaluated(f, o) == IF f.bypassed THEN f ELSE [f EXCEPT !.limiting = o.limiting]

ChecksOutput(i, f, s) == s.nrBypass /\ i \in Bypassable /\ ~s.force /\ ~f.bypassed

\* A slip: an instance with limited inputs keeps its history.
OutputChecked_Slip(f, s, o) ==
    [f EXCEPT !.converged = ~s.highPrecision /\ f.history /\ o.sameOutputs, !.history = TRUE]

\* Residuals are compared with the ones stored before, if there are any.
OutputsAgree(f, s, o) == ~s.highPrecision /\ f.history /\ o.sameOutputs

\* The residuals are stored whether they agreed or not, the inputs when they did.
Stored(f, converged) == [f EXCEPT !.converged = converged, !.history = TRUE]

\* The output check; an instance whose inputs were limited has no history afterwards.
OutputChecked(f, s, o) ==
    IF f.limiting THEN [f EXCEPT !.converged = FALSE, !.history = FALSE]
    ELSE Stored(f, OutputsAgree(f, s, o))

EvalCore(i, f, s, o) ==
    LET done == Evaluated(Decided(i, f, s, o), o)
    IN  IF ChecksOutput(i, done, s) THEN OutputChecked(done, s, o) ELSE done
=============================================================================
