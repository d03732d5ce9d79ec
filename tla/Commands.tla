------------------------------ MODULE Commands ------------------------------
(***************************************************************************)
(* The control block of a netlist, executed by the command interpreter     *)
(* (src/simulator/cmd.cpp, cmd.h): variables, options, alter, elaborate,   *)
(* print, analyses, the abort policy and the Monte Carlo loop.             *)
(*                                                                         *)
(* The circuit is what Circuit::elaborate() and elaborateChanges() make of *)
(* it as far as the commands can tell: the variable, the option and the    *)
(* samples its parameters were computed from. How these functions find out *)
(* what to recompute is the subject of module Elaboration.                 *)
(*                                                                         *)
(* A loop calls the interpreter's run() recursively. Only one level is     *)
(* possible, and every way out of the inner run() but endmc ends the outer *)
(* one, so the position "at" is shared, as it is in the program.           *)
(***************************************************************************)
EXTENDS MonteCarlo, Sequences

CONSTANTS
  Programs,  \* control blocks, sequences of commands
  Values,    \* values of the circuit variable, of the option and parameter
  SitesAt,   \* [Values -> SUBSET Sites], the call sites of the netlist
  Faults     \* commands that may fail

ASSUME CommandsAssumption ==
  /\ Values \subseteq Nat /\ 0 \in Values
  /\ SitesAt \in [Values -> SUBSET Sites]

\* The commands a control block is made of: the arguments each one takes
AllCommands ==
  [op : {"analysis"}, name : STRING, swept : BOOLEAN, pss : BOOLEAN]
    \cup [op : {"var", "save", "alter"}, value : Values]
    \cup [op : {"options"}, setting : [kind : {"unset", "value", "expr"}, value : Values]]
    \cup [op : {"clear"}, what : SUBSET {"variables", "options", "saves"}]
    \cup [op : {"elaborate"}, what : {"circuit", "changes"}]
    \cup [op : {"abort"}, onMatch : BOOLEAN, cmds : SUBSET STRING]
    \cup [op : {"mc"}, name : STRING, samples : Nat, lh : BOOLEAN, strict : BOOLEAN]
    \cup [op : {"print", "postprocess", "endmc", "bad"}]

ASSUME ProgramsAssumption == Programs \subseteq Seq(AllCommands)

VARIABLES
  program,   \* the control block
  at,        \* index of the command that is executed next
  status,    \* "Running", or the exit status of the outermost run()
  abort,     \* the abort policy: abortOnMatch and abortCommands
  session,   \* the variable, the user's options, alterations and saves
  circuit,   \* what the circuit was computed from, and its flags
  names,     \* names of the loops that were started
  loop,      \* the loop that is running
  data,      \* its generators
  prefix,    \* analysisNamePrefix_
  ran        \* the analyses that were tried, and what they saw

vars == <<program, at, status, abort, session, circuit, names, loop, data,
          prefix, ran>>

(***************************************************************************)
(* Commands.                                                               *)
(***************************************************************************)
Analysis(name, swept)  == [op |-> "analysis", name |-> name, swept |-> swept,
                           pss |-> FALSE]
Pss(name)              == [op |-> "analysis", name |-> name, swept |-> FALSE,
                           pss |-> TRUE]
Var(x)                 == [op |-> "var", value |-> x]
Options(o)             == [op |-> "options", setting |-> o]
Clear(what)            == [op |-> "clear", what |-> what]
Save(x)                == [op |-> "save", value |-> x]
Alter(x)               == [op |-> "alter", value |-> x]
Elaborate(what)        == [op |-> "elaborate", what |-> what]
Abort(onMatch, cmds)   == [op |-> "abort", onMatch |-> onMatch, cmds |-> cmds]
Mc(name, n, lh, strict) == [op |-> "mc", name |-> name, samples |-> n,
                            lh |-> lh, strict |-> strict]
Command(op)            == [op |-> op]  \* print, postprocess, endmc

\* An option is not set by the user, set to a value, or to an expression of
\* the circuit variable
Unset     == [kind |-> "unset", value |-> 0]
Value(x)  == [kind |-> "value", value |-> x]
ByExpr    == [kind |-> "expr",  value |-> 0]

\* What the user's setting makes of an option that has the value old
Applied(setting, variable, old) ==
  CASE setting.kind = "unset" -> old
    [] setting.kind = "value" -> setting.value
    [] setting.kind = "expr"  -> variable

NoLoop   == [name |-> "", start |-> 0, samples |-> 0, strict |-> FALSE,
             pass |-> 0, ngen |-> 0]
NoPrefix == [name |-> "", pass |-> 0]
Default  == 0  \* of the variable, the option, and the netlist's parameter

Init ==
  /\ program \in Programs
  /\ at = 1 /\ status = "Running"
  /\ abort = [onMatch |-> FALSE, cmds |-> {"analysis"}]
  /\ session = [variable |-> Default, option |-> Unset, altered |-> Default,
                saves |-> {}]
  /\ circuit = [elaborated |-> FALSE, variablesChanged |-> TRUE,
                parametersChanged |-> FALSE, variable |-> Default,
                option |-> Default, param |-> Default, setup |-> Default,
                samples |-> <<>>]
  /\ names = {} /\ loop = NoLoop /\ data = NoData /\ prefix = NoPrefix
  /\ ran = <<>>

(***************************************************************************)
(* Elaboration as the commands use it. Both functions evaluate the         *)
(* distribution functions of the netlist, in a loop with its generators.   *)
(***************************************************************************)
Evaluate(x, d) == IF d = NoData THEN d ELSE RetrieveOrAdd(d, SitesAt[x])

Samples(x, d) ==
  [z \in SitesAt[x] |-> IF d = NoData THEN Nominal ELSE Evaluate(x, d).value[z]]

\* Both write the options of the user into the circuit, on top of the default
\* ones, whether or not anything has changed
UserOptions(s) == Applied(s.option, s.variable, Default)

\* Circuit::elaborate() builds everything from the netlist
Elaborated(c, s, d) ==
  [elaborated |-> TRUE, variablesChanged |-> FALSE,
   parametersChanged |-> FALSE, variable |-> s.variable,
   option |-> UserOptions(s), param |-> Default, setup |-> Default, samples |-> Samples(s.variable, d)]

\* Circuit::elaborateChanges() without a sweep evaluates the expressions of the
\* netlist when a variable changed
ChangesElaborated(c, s, d) ==
  LET updated == IF ~c.variablesChanged THEN c
                 ELSE [c EXCEPT !.variable = s.variable,
                                !.samples = Samples(s.variable, d)]
  IN  [updated EXCEPT !.elaborated = TRUE, !.variablesChanged = FALSE,
         !.parametersChanged = FALSE, !.option = UserOptions(s),
         !.setup = IF c.variablesChanged \/ c.parametersChanged THEN c.param
                   ELSE @]

MinimalElaboration(c, s, d) ==
  IF c.elaborated THEN ChangesElaborated(c, s, d) ELSE Elaborated(c, s, d)

\* The generators after an elaboration of c
Generators(c, s, d) ==
  IF c.elaborated /\ ~c.variablesChanged THEN d ELSE Evaluate(s.variable, d)

(***************************************************************************)
(* Leaving a command. A loop that is left early gives its generators and   *)
(* the prefix back, the circuit keeps the parameters of the last pass.     *)
(***************************************************************************)
Current(op) ==
  /\ status = "Running" /\ at <= Len(program)
  /\ program[at].op = op

MustAbort(cmd) == abort.onMatch = (cmd \in abort.cmds)

Proceed == at' = at + 1 /\ UNCHANGED <<status, loop, prefix>>

Stop(exit) ==
  /\ status' = IF loop # NoLoop THEN "HardFault" ELSE exit
  /\ loop' = NoLoop /\ prefix' = NoPrefix
  /\ UNCHANGED at

HardFault == Stop("HardFault")

\* An error that the abort policy may let pass
Fails(cmd) == IF MustAbort(cmd) THEN Stop("Error") ELSE Proceed

\* The generators belong to the loop
DataOf(d) == data' = IF loop' = NoLoop THEN NoData ELSE d

\* A failed elaboration leaves the circuit unelaborated
Broken(c) == [c EXCEPT !.elaborated = FALSE]

(***************************************************************************)
(* Commands that only change what the user asked for.                      *)
(***************************************************************************)

\* The values of var are all computed before the first one is stored
SetVariable ==
  /\ Current("var")
  /\ LET x == program[at].value
     IN  /\ session' = [session EXCEPT !.variable = x]
         /\ circuit' = [circuit EXCEPT
              !.variablesChanged = @ \/ x # session.variable]
  /\ Proceed
  /\ UNCHANGED <<program, abort, names, data, ran>>

\* Nothing is stored, or a part of it: a constant cannot be redefined
SetVariableFails ==
  /\ Current("var") /\ "var" \in Faults
  /\ \E x \in {session.variable, program[at].value} :
       /\ session' = [session EXCEPT !.variable = x]
       /\ circuit' = [circuit EXCEPT
            !.variablesChanged = @ \/ x # session.variable]
  /\ Fails("var") /\ DataOf(data)
  /\ UNCHANGED <<program, abort, names, ran>>

\* Options are stored, the analyses and the elaboration write them
SetOptions ==
  /\ Current("options")
  /\ session' = [session EXCEPT !.option = program[at].setting]
  /\ Proceed
  /\ UNCHANGED <<program, abort, circuit, names, data, ran>>

AddSaves ==
  /\ Current("save")
  /\ session' = [session EXCEPT !.saves = @ \cup {program[at].value}]
  /\ Proceed
  /\ UNCHANGED <<program, abort, circuit, names, data, ran>>

ClearSession ==
  /\ Current("clear")
  /\ LET what == program[at].what
     IN  /\ session' = [session EXCEPT
              !.variable = IF "variables" \in what THEN Default ELSE @,
              !.option   = IF "options" \in what THEN Unset ELSE @,
              !.saves    = IF "saves" \in what THEN {} ELSE @]
         /\ circuit' = [circuit EXCEPT
              !.variablesChanged = @ \/ "variables" \in what]
  /\ Proceed
  /\ UNCHANGED <<program, abort, names, data, ran>>

\* abort always | never | on ... | except ...
SetAbortPolicy ==
  /\ Current("abort")
  /\ abort' = [onMatch |-> program[at].onMatch, cmds |-> program[at].cmds]
  /\ Proceed
  /\ UNCHANGED <<program, session, circuit, names, data, ran>>

\* The program of a postprocess command runs outside, its exit status counts
Postprocess ==
  /\ Current("postprocess")
  /\ \/ Proceed
     \/ "postprocess" \in Faults /\ Fails("postprocess")
  /\ DataOf(data)
  /\ UNCHANGED <<program, abort, session, circuit, names, ran>>

\* An unknown command, or arguments its descriptor does not allow
BadCommand ==
  /\ Current("bad")
  /\ HardFault /\ DataOf(data)
  /\ UNCHANGED <<program, abort, session, circuit, names, ran>>

(***************************************************************************)
(* Commands that elaborate.                                                *)
(***************************************************************************)

\* alter elaborates only when nothing is elaborated yet, and marks the
\* parameter as changed
AlterParameter ==
  /\ Current("alter")
  /\ LET c == IF circuit.elaborated THEN circuit
              ELSE Elaborated(circuit, session, data)
         x == program[at].value
     IN  /\ circuit' = [c EXCEPT !.param = x,
                          !.parametersChanged = @ \/ x # c.param]
         /\ session' = [session EXCEPT !.altered = x]
         /\ data' = IF circuit.elaborated THEN data
                    ELSE Evaluate(session.variable, data)
  /\ Proceed
  /\ UNCHANGED <<program, abort, names, ran>>

\* An instance is not found, after none or some of them were changed
AlterParameterFails ==
  /\ Current("alter") /\ "alter" \in Faults
  /\ LET c == IF circuit.elaborated THEN circuit
              ELSE Elaborated(circuit, session, data)
     IN  \E x \in {c.param, program[at].value} :
           /\ circuit' = [c EXCEPT !.param = x,
                            !.parametersChanged = @ \/ x # c.param]
           /\ session' = [session EXCEPT !.altered = x]
  /\ Fails("alter")
  /\ DataOf(IF circuit.elaborated THEN data
            ELSE Evaluate(session.variable, data))
  /\ UNCHANGED <<program, abort, names, ran>>

\* What is to be printed may not exist, or not evaluate.
PrintFails == Current("print") /\ "print" \in Faults /\ Fails("print")

\* print, and elaborate changes
ElaborateChanges ==
  /\ Current("print") \/ (Current("elaborate") /\ program[at].what = "changes")
  /\ circuit' = MinimalElaboration(circuit, session, data)
  /\ \/ Proceed
     \/ PrintFails
  /\ DataOf(Generators(circuit, session, data))
  /\ UNCHANGED <<program, abort, session, names, ran>>

\* elaborate circuit builds the circuit anew, alterations are gone
ElaborateCircuit ==
  /\ Current("elaborate") /\ program[at].what = "circuit"
  /\ circuit' = Elaborated(circuit, session, data)
  /\ data' = Evaluate(session.variable, data)
  /\ session' = [session EXCEPT !.altered = Default]
  /\ Proceed
  /\ UNCHANGED <<program, abort, names, ran>>

\* No command survives its own elaboration failing. When an option of the user
\* does not evaluate the circuit is not touched.
ElaborationFails ==
  /\ "elaborate" \in Faults
  /\ \/ Current("print") \/ Current("elaborate")
     \/ Current("alter") /\ ~circuit.elaborated
     \/ Current("analysis")
  /\ Stop(IF program[at].op = "analysis" THEN "Error" ELSE "HardFault")
  /\ circuit' \in {circuit, Broken(circuit)}
  /\ DataOf(data)
  /\ UNCHANGED <<program, abort, session, names, ran>>

(***************************************************************************)
(* An analysis: the changes are elaborated, then the analysis puts the     *)
(* user's options on top of those of the circuit. An analysis without      *)
(* sweeps leaves them there, one with sweeps puts the old ones back.       *)
(***************************************************************************)
Seen(c, opt, ok) ==
  [at |-> at, name |-> program[at].name, pss |-> program[at].pss,
   prefix |-> prefix, ok |-> ok, variable |-> c.variable, option |-> opt,
   param |-> c.setup, samples |-> c.samples]

InForce(c) == Applied(session.option, session.variable, c.option)

\* The name of the files of an attempt: a periodic steady state analysis does not
\* put the prefix of the loop in front of its name
FileOf(a) == <<a.name, IF a.pss THEN NoPrefix ELSE a.prefix>>

RunAnalysis ==
  /\ Current("analysis")
  /\ LET c == MinimalElaboration(circuit, session, data)
     IN  /\ circuit' = IF program[at].swept THEN c
                       ELSE [c EXCEPT !.option = InForce(c)]
         /\ ran' = Append(ran, Seen(c, InForce(c), TRUE))
  /\ data' = Generators(circuit, session, data)
  /\ Proceed
  /\ UNCHANGED <<program, abort, session, names>>

\* It cannot be created, its core fails, or its own elaboration fails: then
\* the circuit is not elaborated, unless a sweep could restore it
AnalysisFails ==
  /\ Current("analysis") /\ Faults \cap {"create", "run", "own"} # {}
  /\ LET c   == MinimalElaboration(circuit, session, data)
         own == IF program[at].swept THEN c
                ELSE [c EXCEPT !.option = InForce(c)]
     IN  /\ circuit' \in (IF "create" \in Faults THEN {c} ELSE {})
                  \cup (IF "run" \in Faults THEN {own} ELSE {})
                  \cup (IF "own" \in Faults THEN {Broken(c), Broken(own)}
                        ELSE {})
         /\ ran' = Append(ran, Seen(c, InForce(c), FALSE))
  /\ Fails("analysis")
  /\ DataOf(Generators(circuit, session, data))
  /\ UNCHANGED <<program, abort, session, names>>

(***************************************************************************)
(* The Monte Carlo loop: mc runs the commands up to endmc once for every   *)
(* sample, in a run() of its own.                                          *)
(***************************************************************************)

\* A pass sets MCSAMPLE and the prefix of the file names, and propagates the
\* samples: VariablesChanged makes every expression be evaluated
StartPass(l, s, d) ==
  LET c == [circuit EXCEPT !.variablesChanged = TRUE]
  IN  /\ loop' = l
      /\ prefix' = [name |-> l.name, pass |-> l.pass]
      /\ circuit' = MinimalElaboration(c, s, d)
      /\ data' = Generators(c, s, d)
      /\ at' = l.start
      /\ UNCHANGED status

\* Slip: the name of a loop may be used again
StartLoop_Slip ==
  /\ Current("mc") /\ loop = NoLoop
  /\ program[at].samples > 0
  /\ names' = names \cup {program[at].name}
  /\ \E perms \in [Sites -> IF program[at].lh
                             THEN Shuffles(program[at].samples) ELSE {<<>>}] :
       StartPass([name |-> program[at].name, start |-> at + 1,
                  samples |-> program[at].samples,
                  strict |-> program[at].strict, pass |-> 1, ngen |-> 0],
                 session,
                 NewData(program[at].samples, program[at].lh, perms))
  /\ UNCHANGED <<program, abort, session, ran>>

StartLoop ==
  /\ Current("mc") /\ loop = NoLoop
  /\ program[at].name \notin names /\ program[at].samples > 0
  /\ names' = names \cup {program[at].name}
  /\ \E perms \in [Sites -> IF program[at].lh
                             THEN Shuffles(program[at].samples) ELSE {<<>>}] :
       StartPass([name |-> program[at].name, start |-> at + 1,
                  samples |-> program[at].samples,
                  strict |-> program[at].strict, pass |-> 1, ngen |-> 0],
                 session,
                 NewData(program[at].samples, program[at].lh, perms))
  /\ UNCHANGED <<program, abort, session, ran>>

\* Loops cannot be nested, and their names are unique. The number of samples
\* must be positive.
LoopIsRefused ==
  /\ Current("mc")
  /\ \/ loop # NoLoop
     \/ program[at].name \in names
     \/ program[at].samples = 0
  /\ names' = IF loop # NoLoop THEN names ELSE names \cup {program[at].name}
  /\ HardFault /\ DataOf(data)
  /\ UNCHANGED <<program, abort, session, circuit, ran>>

\* The elaboration of the first pass fails
FirstPassFails ==
  /\ Current("mc") /\ "elaborate" \in Faults
  /\ loop = NoLoop
  /\ program[at].name \notin names /\ program[at].samples > 0
  /\ names' = names \cup {program[at].name}
  /\ circuit' \in {circuit, Broken(circuit)}
  /\ HardFault /\ DataOf(data)
  /\ UNCHANGED <<program, abort, session, ran>>

\* An argument of mc cannot be evaluated. When the policy lets that pass the
\* body runs once, outside of a loop.
LoopArgumentsFail ==
  /\ Current("mc") /\ "mc" \in Faults
  /\ loop = NoLoop /\ program[at].name \notin names
  /\ names' = names \cup {program[at].name}
  /\ Fails("mc") /\ DataOf(data)
  /\ UNCHANGED <<program, abort, session, circuit, ran>>

\* Slip: the loop stops one sample early
LastPass_Slip == loop.pass + 1 >= loop.samples

\* There is no further sample
LastPass == loop.pass = loop.samples

\* With "strict" the number of generators may not change after the first pass
GeneratorsChanged == loop.strict /\ loop.pass > 1 /\ Count(data) # loop.ngen

\* endmc ends the inner run(): the next sample
EndPass ==
  /\ Current("endmc") /\ loop # NoLoop
  /\ ~GeneratorsChanged /\ ~LastPass
  /\ StartPass([loop EXCEPT !.pass = @ + 1,
                            !.ngen = IF loop.pass = 1 THEN Count(data) ELSE @],
               session, Advance(data))
  /\ UNCHANGED <<program, abort, session, names, ran>>

\* Slip: zero variation is elaborated only when something else changed
EndLoop_Slip ==
  /\ Current("endmc") /\ loop # NoLoop
  /\ ~GeneratorsChanged /\ LastPass
  /\ loop' = NoLoop /\ prefix' = NoPrefix /\ data' = NoData
  /\ circuit' = MinimalElaboration(circuit, session, NoData)
  /\ at' = at + 1
  /\ UNCHANGED <<program, status, abort, session, names, ran>>

\* After the last sample the circuit is elaborated with zero variation
EndLoop ==
  /\ Current("endmc") /\ loop # NoLoop
  /\ ~GeneratorsChanged /\ LastPass
  /\ loop' = NoLoop /\ prefix' = NoPrefix /\ data' = NoData
  /\ circuit' = MinimalElaboration([circuit EXCEPT !.variablesChanged = TRUE],
                                   session, NoData)
  /\ at' = at + 1
  /\ UNCHANGED <<program, status, abort, session, names, ran>>

\* endmc without a loop, or the generators changed, or the elaboration of the
\* next pass or of the zero variation fails
EndLoopFails ==
  /\ Current("endmc")
  /\ \/ (loop = NoLoop \/ GeneratorsChanged) /\ UNCHANGED circuit
     \/ "elaborate" \in Faults /\ circuit' \in {circuit, Broken(circuit)}
  /\ HardFault /\ DataOf(data)
  /\ UNCHANGED <<program, abort, session, names, ran>>

\* The end of the control block: an inner run() lacks its endmc
EndOfBlock ==
  /\ status = "Running" /\ at > Len(program)
  /\ Stop("EndReached") /\ DataOf(data)
  /\ UNCHANGED <<program, abort, session, circuit, names, ran>>

Next ==
  \/ SetVariable \/ SetVariableFails \/ SetOptions \/ AddSaves \/ ClearSession
  \/ SetAbortPolicy \/ Postprocess \/ BadCommand
  \/ AlterParameter \/ AlterParameterFails
  \/ ElaborateChanges \/ ElaborateCircuit \/ ElaborationFails
  \/ RunAnalysis \/ AnalysisFails
  \/ StartLoop \/ LoopIsRefused \/ FirstPassFails \/ LoopArgumentsFail
  \/ EndPass \/ EndLoop \/ EndLoopFails
  \/ EndOfBlock

Spec == Init /\ [][Next]_vars /\ WF_vars(Next)

(***************************************************************************)
(* Properties                                                              *)
(***************************************************************************)

\* The types of the variables.
TypeOK ==
  /\ program \in Programs /\ at \in 1..(Len(program) + 1)
  /\ status \in {"Running", "EndReached", "Error", "HardFault"}
  /\ circuit.elaborated \in BOOLEAN
  /\ {circuit.variable, circuit.option, circuit.param, circuit.setup}
        \subseteq Values
  /\ data = NoData <=> loop = NoLoop
  /\ loop # NoLoop => loop.pass \in 1..loop.samples

\* An analysis that runs sees the variable, the user's option or the default of
\* one that is not set any more, and the altered parameter as they are then, in
\* a loop the samples of the pass its results are filed under, outside of loops
\* no variation. It sees the same sample everywhere in a pass, however often
\* the expression was evaluated.
SeesThePresent(a) ==
  /\ a.variable = session.variable
  /\ circuit.elaborated => a.param = circuit.param
  /\ a.option = UserOptions(session)
  /\ DOMAIN a.samples = SitesAt[session.variable]
  /\ a.prefix = [name |-> loop.name, pass |-> loop.pass]
  /\ \A z \in DOMAIN a.samples :
       /\ a.samples[z].pass = loop.pass
       /\ \A i \in DOMAIN ran :
            ran[i].prefix = a.prefix /\ loop # NoLoop
              /\ z \in DOMAIN ran[i].samples =>
            ran[i].samples[z] = a.samples[z]

AnalysisIsCurrent ==
  [][ran' # ran => SeesThePresent(ran'[Len(ran')])]_vars

\* No analysis overwrites the results of another one, when the analyses of a
\* block have different names: an analysis repeated in a loop gets the name of
\* the loop and the number of the sample in front of its own. A periodic steady
\* state analysis in a loop does not, and overwrites its own files in each pass.
FilesAreDistinct ==
  \A i, j \in DOMAIN ran :
    /\ i # j
    /\ ~(ran[i].pss /\ ran[i].at = ran[j].at)
    => FileOf(ran[i]) # FileOf(ran[j])

\* When the end of the control block is reported, every command was executed:
\* each analysis was tried, in a loop once for every sample.
LoopAround(i) ==
  {j \in 1..(i - 1) : /\ program[j].op = "mc"
                      /\ \A k \in j..i : program[k].op # "endmc"}

Passes(i) == IF LoopAround(i) = {} THEN {NoPrefix}
             ELSE LET m == program[CHOOSE j \in LoopAround(i) : TRUE]
                  IN  {[name |-> m.name, pass |-> k] : k \in 1..m.samples}

EndMeansAllWasTried ==
  status = "EndReached" =>
    \A i \in DOMAIN program : program[i].op = "analysis" =>
      \A p \in Passes(i) :
        \E k \in DOMAIN ran : ran[k].at = i /\ ran[k].prefix = p

\* Latin hypercube sampling takes the samples of a site from different bins.
EachBinOnce ==
  \A i, j \in DOMAIN ran :
    (/\ data.lhSamples > 0
     /\ ran[i].prefix.name = loop.name /\ ran[j].prefix.name = loop.name
     /\ ran[i].prefix.pass # ran[j].prefix.pass)
    => \A z \in DOMAIN ran[i].samples \cap DOMAIN ran[j].samples :
         ran[i].samples[z].bin # ran[j].samples[z].bin
=============================================================================
