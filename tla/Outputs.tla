------------------------------ MODULE Outputs ------------------------------
(***************************************************************************)
(* What one run of an analysis writes (src/lib/an.cpp with the output      *)
(* functions of the analyses and their cores, src/lib/outrawfile.cpp):     *)
(* the lists of columns are made once, bound to places in memory whenever  *)
(* a core was rebuilt, read at every row, and the files are opened, closed *)
(* or deleted by the outcome of the run.                                   *)
(*                                                                         *)
(* A sweep takes the analysis through several circuits: blocks come and    *)
(* go, nodes collapse, unknowns are renumbered, instances are created      *)
(* anew.  A value that is read is a tuple: what it is, the sweep point and *)
(* the row it belongs to, and of which object.                             *)
(***************************************************************************)
EXTENDS OutputTables, FiniteSets

CONSTANTS
    Runs,   \* the runs: kind, saves, sweeps, circuits, options, write
    Rows    \* rows of a core that steps through time or frequency

\* A run has a circuit for every point of its sweep and a core for every file.
ASSUME RunsAssumption ==
    /\ Rows \in Nat \ {0}
    /\ \A r \in Runs :
          /\ r.kind \in Kinds
          /\ r.circuits \in Seq(Range(r.circuits)) \ {<<>>}
          /\ r.write \in Seq(BOOLEAN) /\ Len(r.write) = Len(FilesOf(r.kind))
          /\ r.strictoutput \in BOOLEAN

VARIABLES
    a,                  \* the run, which stays as it is
    point,              \* number of the sweep point
    pc,                 \* where the coroutine is
    cores,              \* outputDescriptors and savesCount of every core
    sources,            \* outputSources of every core
    outputsBound,
    outputInitialized,
    left,               \* rows the cores have not written yet at this point
    files,              \* the files, by what is added to the name of the analysis
    stored              \* the points whose solution was stored under a name

outputsVars == <<a, point, pc, cores, sources, outputsBound, outputInitialized, left, files, stored>>

Circuit == a.circuits[point]
Cores == DOMAIN a.write
FileName(core) == FilesOf(a.kind)[core]
Tables == CoresOf(a.kind, Circuit)

NoFile == [from |-> None, header |-> <<>>, rows |-> <<>>, count |-> None]
OldFile == [NoFile EXCEPT !.from = "before"]

\* A core of a direct current analysis writes one row per point
RowsOf(core) ==
    IF a.kind \in {"op", "dcinc", "dcxf"} \/ (core = 1 /\ "outvar" \in DOMAIN Tables[1].binds
                                              /\ Tables[1].always = <<>>)
    THEN 1 ELSE Rows

OutputsInit ==
    /\ a \in Runs
    /\ point = 1 /\ pc = "elaborate"
    /\ cores = [k \in Cores |-> NoColumns]
    /\ sources = [k \in Cores |-> <<>>]
    /\ outputsBound = FALSE /\ outputInitialized = FALSE
    /\ left = <<>>
    /\ files = [name \in Range(FilesOf(a.kind)) |-> OldFile]
    /\ stored = {}

(***************************************************************************)
(* A sweep point begins with elaborateChanges(), which may fail.  The      *)
(* cores are rebuilt when the circuit changed.                             *)
(***************************************************************************)
NeedsCoreRebuild == point > 1 /\ a.circuits[point] # a.circuits[point - 1]

SetPoint ==
    /\ pc = "elaborate"
    /\ pc' = CASE ~outputsBound    -> "list"
               [] NeedsCoreRebuild -> "rebuild"
               [] OTHER            -> "start"
    /\ UNCHANGED <<a, point, cores, sources, outputsBound, outputInitialized, left, files, stored>>

AbortAnalysis ==
    /\ pc' = "aborted"
    /\ UNCHANGED <<a, point, cores, sources, outputsBound, outputInitialized, left, files, stored>>

PointFails == pc = "elaborate" /\ AbortAnalysis

(***************************************************************************)
(* The columns: sweep variables, what the core always writes, saves, and   *)
(* the default when no save made a column.  A name that is taken already   *)
(* fails for the first two and is skipped for the others.                  *)
(***************************************************************************)
SweepColumns == [k \in DOMAIN a.sweeps |-> Descr("sweep", <<a.sweeps[k]>>, k, None)]

AlwaysColumns(core) ==
    SweepColumns \o (IF a.write[core] THEN Tables[core].always ELSE <<>>)

NameClash ==
    \E core \in Cores : ~IsInjective([k \in DOMAIN AlwaysColumns(core) |->
                                        AlwaysColumns(core)[k].name])

ResolveSave(list, core, save) ==
    IF core \in Receivers(a.kind, save)
    THEN Handle(SavesOf(a.kind)[save.directive].handler, list, save, Circuit)
    ELSE list

ResolveSaves(list, core) ==
    FoldLeft(LAMBDA acc, save : ResolveSave(acc, core, save), list, a.saves)

AddDefault(list, core) ==
    IF list.saves > 0 \/ ~a.write[core] \/ Tables[core].default = None THEN list
    ELSE Handle(Tables[core].default, list, SaveOf("default"), Circuit)

ColumnsOf(core) ==
    AddDefault(ResolveSaves(AddAll(NoColumns, AlwaysColumns(core)), core), core)

AddOutputDescriptors ==
    /\ pc = "list"
    /\ ~NameClash
    /\ cores' = [core \in Cores |-> ColumnsOf(core)]
    /\ pc' = "rebuild"
    /\ UNCHANGED <<a, point, sources, outputsBound, outputInitialized, left, files, stored>>

DescriptorsFail == pc = "list" /\ NameClash /\ AbortAnalysis

\* HBAC refuses to go on when the frequencies it keeps changed
SpursChanged ==
    a.kind = "hbac" /\ point > 1 /\ Circuit.spurs # a.circuits[1].spurs

RebuildCores ==
    /\ pc = "rebuild"
    /\ ~SpursChanged
    /\ pc' = "resolve"
    /\ UNCHANGED <<a, point, cores, sources, outputsBound, outputInitialized, left, files, stored>>

RebuildFails == pc = "rebuild" /\ AbortAnalysis

(***************************************************************************)
(* Binding a column to its sources: all is well or not, and the sources    *)
(* that are pushed.                                                        *)
(***************************************************************************)
Bound(ok, pushed) == [ok |-> ok, pushed |-> pushed]
Refuse == Bound(FALSE, <<>>)

OrConstant(strict, name) == IF strict THEN Refuse ELSE Bound(TRUE, <<Constant(name)>>)

BindNode(strict, d, suffixes) ==
    IF d.a \in DOMAIN Circuit.node
    THEN Bound(TRUE, [k \in DOMAIN suffixes |->
                        Source("node", <<Circuit.node[d.a], suffixes[k]>>, d.name \o suffixes[k])])
    ELSE IF strict THEN Refuse
    ELSE Bound(TRUE, [k \in DOMAIN suffixes |-> Constant(d.name \o suffixes[k])])

\* Instances of blocks are created when the circuit changes
MadeAt(inst, i) ==
    IF ~inst.inBlock THEN 0
    ELSE SelectLastInSeq([j \in 1..i |-> j],
             LAMBDA j : j = 1 \/ a.circuits[j] # a.circuits[j - 1])

BindOutvar(strict, d) ==
    IF ~Present(Circuit, d.a) THEN OrConstant(strict, d.name)
    ELSE LET inst == Find(Circuit, d.a) IN
         CASE d.b \in inst.outvars -> Bound(TRUE, <<Source("outvar", <<d.a, d.b, MadeAt(inst, point)>>, d.name)>>)
           [] d.b \in inst.texts   -> OrConstant(strict, d.name)
           [] OTHER                -> IF strict THEN Refuse ELSE Bound(TRUE, <<>>)

BindSource(strict, d) ==
    LET vector == Source("source", <<d.type, d.a>>, d.name) IN
    IF ~Present(Circuit, d.a)
    THEN IF strict THEN Refuse ELSE Bound(TRUE, <<Constant(d.name), vector>>)
    ELSE IF Find(Circuit, d.a).source THEN Bound(TRUE, <<vector>>) ELSE Refuse

BindResult(strict, d) ==
    IF Present(Circuit, d.a) /\ (d.b = None \/ d.b \in Range(Find(Circuit, d.a).noise))
    THEN Bound(TRUE, <<Source("result", <<d.a, d.b>>, d.name)>>)
    ELSE OrConstant(strict, d.name)

\* The matrix is kept transposed
BindEntry(strict, d) ==
    IF d.a < Circuit.ports /\ d.b < Circuit.ports
    THEN Bound(TRUE, <<Source("entry", <<d.b, d.a>>, d.name)>>)
    ELSE OrConstant(strict, d.name)

Bind(core, strict, d) ==
    LET binds == Tables[core].binds IN
    IF d.type \notin DOMAIN binds
    THEN IF d.type = "sweep" THEN Bound(TRUE, <<Source("sweep", d.a, d.name)>>) ELSE Refuse
    ELSE CASE binds[d.type] = "node"   -> BindNode(strict, d, << <<>> >>)
           [] binds[d.type] = "spurs"  -> BindNode(strict, d, Circuit.spurs)
           [] binds[d.type] = "outvar" -> BindOutvar(strict, d)
           [] binds[d.type] = "source" -> BindSource(strict, d)
           [] binds[d.type] = "result" -> BindResult(strict, d)
           [] binds[d.type] = "entry"  -> BindEntry(strict, d)
           [] binds[d.type] = "own"    -> Bound(TRUE, <<Source("own", d.a, d.name)>>)

\* A core stops at the first column it cannot bind
Resolve(core, strict) ==
    FoldLeft(LAMBDA acc, d :
                IF ~acc.ok THEN acc
                ELSE LET b == Bind(core, strict, d) IN Bound(b.ok, acc.pushed \o b.pushed),
             Bound(TRUE, <<>>), cores[core].list)

\* A slip: one level of strictness for every binding.
Strict == a.strictsave > (IF outputsBound THEN 1 ELSE 0)

\* A slip: a column bound once stays bound.
Rebound_Slip(core, strict) ==
    IF sources[core] = <<>> THEN Resolve(core, strict) ELSE Bound(TRUE, sources[core])

Rebound(core, strict) == Resolve(core, strict)

\* Only strict binding takes a core's failure for an error
ResolveOutputDescriptors ==
    /\ pc = "resolve"
    /\ LET all == [core \in Cores |-> Rebound(core, Strict)] IN
       /\ Strict => \A core \in Cores : all[core].ok
       /\ sources' = [core \in Cores |-> all[core].pushed]
    /\ outputsBound' = TRUE
    /\ pc' = "start"
    /\ UNCHANGED <<a, point, cores, outputInitialized, left, files, stored>>

BindingFails ==
    /\ pc = "resolve"
    /\ Strict /\ \E core \in Cores : ~Rebound(core, Strict).ok
    /\ AbortAnalysis

(***************************************************************************)
(* Files.  Each core that writes has a file of its own, and what is done   *)
(* to the files is done core after core.  The constructor of the file      *)
(* deletes an old one, the prologue writes the names of the sources.       *)
(***************************************************************************)
ForCores(Change(_, _)) ==
    [name \in DOMAIN files |->
        LET writing == {core \in Cores : a.write[core] /\ FileName(core) = name}
        IN  IF writing = {} THEN files[name]
            ELSE Change(CHOOSE core \in writing : TRUE, files[name])]

Prologue(core, f) ==
    [NoFile EXCEPT !.from = "this run",
                   !.header = [k \in DOMAIN sources[core] |-> sources[core][k].name]]

RowsToWrite ==
    FlattenSeq([core \in Cores |-> [r \in 1..RowsOf(core) |-> <<core, r>>]])

InitializeOutputs ==
    /\ pc = "start"
    /\ files' = IF outputInitialized THEN files ELSE ForCores(Prologue)
    /\ outputInitialized' = TRUE
    /\ left' = RowsToWrite
    /\ pc' = "core"
    /\ UNCHANGED <<a, point, cores, sources, outputsBound, stored>>

(***************************************************************************)
(* What is found at a source when row r of a core is written.              *)
(***************************************************************************)
Zero == <<"zero">>
Lost == <<"lost">>

SharedWith(u) == {n \in DOMAIN Circuit.node : Circuit.node[n] = u}

ReadSource(s, r) ==
    CASE s.at = "zero"  -> Zero
      [] s.at = "node"  -> <<"solution", point, r, SharedWith(s.ndx[1]), s.ndx[2]>>
      [] s.at = "outvar" ->
           IF Present(Circuit, s.ndx[1]) /\ MadeAt(Find(Circuit, s.ndx[1]), point) = s.ndx[3]
           THEN <<"outvar", point, r, s.ndx[1], s.ndx[2]>> ELSE Lost
      [] s.at = "source" ->
           IF Present(Circuit, s.ndx[2]) /\ Find(Circuit, s.ndx[2]).source
           THEN <<s.ndx[1], point, r, s.ndx[2]>> ELSE Lost
      [] s.at = "result" ->
           IF Present(Circuit, s.ndx[1]) THEN <<"result", point, r, s.ndx[1], s.ndx[2]>> ELSE Lost
      [] s.at = "entry" -> <<"entry", point, r, s.ndx[2], s.ndx[1]>>
      [] s.at = "own"   -> <<s.ndx, point, r>>
      [] s.at = "sweep" -> <<"sweep", point, s.ndx>>

\* A real file takes the real part of a complex value
Converted(core, s, value) ==
    IF Tables[core].rows = "real" /\ s.at \in Tables[core].complex
    THEN <<"real part", value>> ELSE value

AddPoint(core, r) ==
    LET Value(s) == Converted(core, s, ReadSource(s, r))
    IN  [files EXCEPT ![FileName(core)].rows =
            Append(@, [point |-> point, row |-> r,
                       values |-> [k \in DOMAIN sources[core] |-> Value(sources[core][k])]])]

WriteRow ==
    /\ pc = "core"
    /\ left # <<>>
    /\ files' = IF a.write[Head(left)[1]] THEN AddPoint(Head(left)[1], Head(left)[2]) ELSE files
    /\ left' = Tail(left)
    /\ UNCHANGED <<a, point, pc, cores, sources, outputsBound, outputInitialized, stored>>

\* A failed transfer function at direct current is written before the core fails
CoreFails == pc = "core" /\ (left # <<>> \/ a.kind = "dcxf") /\ AbortAnalysis

\* A device stops the transient: the interpreter deletes the analysis, and the
\* destructor closes the file as it is
StopRequested ==
    /\ pc = "core"
    /\ a.kind = "tran" /\ left # <<>>
    /\ pc' = "deleted"
    /\ UNCHANGED <<a, point, cores, sources, outputsBound, outputInitialized, left, files, stored>>

NextPoint ==
    /\ pc = "core"
    /\ left = <<>>
    /\ point < Len(a.circuits)
    /\ point' = point + 1 /\ pc' = "elaborate"
    /\ UNCHANGED <<a, cores, sources, outputsBound, outputInitialized, left, files, stored>>

LastPoint ==
    /\ pc = "core"
    /\ left = <<>>
    /\ point = Len(a.circuits)
    /\ pc' = "finished"
    /\ UNCHANGED <<a, point, cores, sources, outputsBound, outputInitialized, left, files, stored>>

(***************************************************************************)
(* Analysis::finish(): with option strictoutput the files of an aborted    *)
(* run are deleted, whoever wrote them; the files of a finished run get    *)
(* their number of points and the last solution is stored.                 *)
(***************************************************************************)
\* A slip: only files that were opened are deleted.
DeleteOutput_Slip(core, f) == IF outputInitialized THEN NoFile ELSE f

DeleteOutput(core, f) == NoFile

FinishAborted ==
    /\ pc = "aborted"
    /\ files' = IF a.strictoutput THEN ForCores(DeleteOutput) ELSE files
    /\ pc' = "after abort"
    /\ UNCHANGED <<a, point, cores, sources, outputsBound, outputInitialized, left, stored>>

Epilogue(core, f) == [f EXCEPT !.count = Len(f.rows)]

StoreSolution ==
    IF \E core \in Cores : <<a.kind, core>> \in Storing THEN {point} ELSE {}

FinishComplete ==
    /\ pc = "finished"
    /\ files' = IF outputInitialized THEN ForCores(Epilogue) ELSE files
    /\ stored' = IF outputInitialized THEN StoreSolution ELSE {}
    /\ pc' = "done"
    /\ UNCHANGED <<a, point, cores, sources, outputsBound, outputInitialized, left>>

OutputsNext ==
    \/ SetPoint \/ PointFails
    \/ AddOutputDescriptors \/ DescriptorsFail
    \/ RebuildCores \/ RebuildFails
    \/ ResolveOutputDescriptors \/ BindingFails
    \/ InitializeOutputs
    \/ WriteRow \/ CoreFails \/ StopRequested
    \/ NextPoint \/ LastPoint
    \/ FinishAborted \/ FinishComplete

OutputsSpec == OutputsInit /\ [][OutputsNext]_outputsVars

(***************************************************************************)
(* Properties                                                              *)
(***************************************************************************)
\* The value column d stands for in row r of a point, suffix k for the small-
\* signal frequencies of HBAC
Meaning(d, i, r, k) ==
    LET c == a.circuits[i]
        present == Present(c, d.a)
    IN  CASE d.type = "sweep"    -> <<"sweep", i, d.a>>
          [] d.type = "solution" ->
               IF d.a \in DOMAIN c.node
               THEN <<"solution", i, r, {n \in DOMAIN c.node : c.node[n] = c.node[d.a]}, k>>
               ELSE Zero
          [] d.type = "outvar" ->
               IF present /\ d.b \in Find(c, d.a).outvars
               THEN <<"outvar", i, r, d.a, d.b>> ELSE Zero
          [] d.type \in {"tf", "zin", "yin"} -> <<d.type, i, r, d.a>>
          [] d.type \in {"noise", "contribution"} ->
               IF present /\ (d.b = None \/ d.b \in Range(Find(c, d.a).noise))
               THEN <<"result", i, r, d.a, d.b>> ELSE Zero
          [] d.type = "entry" -> <<"entry", i, r, d.a, d.b>>
          [] d.type = "own"   -> <<d.a, i, r>>

SuffixesOf(core, d) ==
    IF d.type = "solution" /\ Tables[core].binds["solution"] = "spurs"
    THEN a.circuits[1].spurs ELSE << <<>> >>

Names(core) ==
    FlattenSeq([k \in DOMAIN cores[core].list |->
        LET d == cores[core].list[k] IN
        [j \in DOMAIN SuffixesOf(core, d) |-> d.name \o SuffixesOf(core, d)[j]]])

RowValues(core, i, r) ==
    FlattenSeq([k \in DOMAIN cores[core].list |->
        LET d == cores[core].list[k] IN
        [j \in DOMAIN SuffixesOf(core, d) |-> Meaning(d, i, r, SuffixesOf(core, d)[j])]])

\* Columns whose binding the code gets wrong in some circuit of this run: a
\* transfer function of what is no source or is not there, an output variable
\* the instance of that name does not have (see the README)
Misbound(d) ==
    \E c \in Range(a.circuits) :
        CASE d.type \in {"tf", "zin", "yin"} ->
               ~Present(c, d.a) \/ ~Find(c, d.a).source
          [] d.type = "outvar" ->
               Present(c, d.a) /\ d.b \notin Find(c, d.a).outvars \cup Find(c, d.a).texts
          [] OTHER -> FALSE

File(core) == files[FileName(core)]

Written(core) == File(core).from = "this run"

(* Whatever blocks come and go during a sweep, each row of a file has the  *)
(* columns of its header in order, each with the quantity of that name at  *)
(* that point of the sweep, or zero when the circuit of the point does not *)
(* have it.                                                                *)
RowsMatchTheHeader ==
    \A core \in Cores :
        Written(core) /\ (\A d \in Range(cores[core].list) : ~Misbound(d)) =>
            /\ File(core).header = Names(core)
            /\ \A row \in Range(File(core).rows) :
                  row.values = RowValues(core, row.point, row.row)

Asked(save) ==
    CASE save.directive \in {"v", "dv"} /\ Arguments(save) = 1 -> {<<save.obj>>}
      [] save.directive \in {"i", "di"} /\ Arguments(save) = 1 -> {<<save.obj, "flow(br)">>}
      [] save.directive = "p" /\ Arguments(save) = 2 -> {<<save.obj, ".", save.sub>>}
      [] save.directive \in {"default", "opdefault", "hbdefault", "full", "opfull", "hbfull"}
            /\ Arguments(save) = 0 /\ a.kind \in {"op", "tran", "pss", "hb"} -> Range(a.circuits[1].repr)
      [] save.directive \in {"tf", "zin", "yin", "n"} /\ Arguments(save) = 1 ->
            {<<save.directive, save.obj>>}
      [] OTHER -> {}

(* With option strictsave a run writes nothing unless every quantity a     *)
(* save names exists: in the first circuit of a sweep (1), in all of them  *)
(* (2).  What is saved is then in the file, and no column shows the zero   *)
(* of a missing quantity.                                                  *)
StrictSavesExist ==
    \A core \in Cores : Written(core) /\ a.strictsave > 0 =>
        /\ \A save \in Range(a.saves) : core \in Receivers(a.kind, save) =>
              \A name \in Asked(save) :
                 \A suffix \in Range(IF a.kind = "hbac" /\ core = 2
                                     THEN a.circuits[1].spurs ELSE << <<>> >>) :
                    name \o suffix \in Range(File(core).header)
        /\ \A row \in Range(File(core).rows) :
              row.point = 1 \/ a.strictsave > 1 => Zero \notin Range(row.values)

(* A file holds what was asked for: its rows are the quantities its header *)
(* names, and with strictsave nothing that was asked for is missing.       *)
FileHoldsWhatWasAsked == RowsMatchTheHeader /\ StrictSavesExist

AllRows(core) ==
    FlattenSeq([i \in DOMAIN a.circuits |-> [r \in 1..RowsOf(core) |-> <<i, r>>]])

(* The files tell how the run ended: a finished one leaves every core's    *)
(* complete file of this run with its number of points, an aborted one     *)
(* none of its files when strictoutput asks for that, not even those of an *)
(* earlier run, never one that looks complete, and no stored solution.  A  *)
(* core that does not write touches no file.                               *)
FilesTellTheOutcome ==
  /\ stored # {} => pc = "done"
  /\ \A core \in Cores :
        IF ~a.write[core] THEN File(core) = OldFile
        ELSE /\ IsPrefix([k \in DOMAIN File(core).rows |->
                            <<File(core).rows[k].point, File(core).rows[k].row>>], AllRows(core))
             /\ pc = "done" => /\ Written(core)
                               /\ File(core).count = Len(AllRows(core))
                               /\ Len(File(core).rows) = Len(AllRows(core))
             /\ pc = "after abort" /\ a.strictoutput => File(core) = NoFile
             /\ pc # "done" => File(core).count = None
=============================================================================
