---------------------------- MODULE OutputTables ----------------------------
(***************************************************************************)
(* What the analyses write: the columns each analysis core asks for, the   *)
(* save directives an analysis passes on to its cores, and the binding of  *)
(* a column to the place its value is read from.                           *)
(*                                                                         *)
(* A circuit is a record: order, the names of its nodes but ground; node,  *)
(* their unknowns; insts, its instances with what of them can be saved;    *)
(* ports, the size of the scattering matrix; spurs, the small-signal       *)
(* frequencies HBAC keeps.  A column has a name, a type and the ids it was *)
(* made from.  A source says where its value is read.                      *)
(***************************************************************************)
EXTENDS Naturals, Sequences, SequencesExt, FiniteSetsExt

None == "none"

Descr(type, name, a, b) == [type |-> type, name |-> name, a |-> a, b |-> b]

SaveOf(directive) == [directive |-> directive, obj |-> None, sub |-> None]

NodeName(c, u) == c.repr[u]

Present(c, name) == \E k \in DOMAIN c.insts : c.insts[k].name = name

Find(c, name) == CHOOSE x \in {c.insts[k] : k \in DOMAIN c.insts} : x.name = name

Source(at, ndx, name) == [at |-> at, ndx |-> ndx, name |-> name]

\* A column that could not be bound shows zero
Constant(name) == Source("zero", None, name)

(***************************************************************************)
(* The list of columns of a core and the number of save directives that    *)
(* made one of them.  A second column of a name is ignored.                *)
(***************************************************************************)
NoColumns == [list |-> <<>>, saves |-> 0]

Has(core, name) == \E k \in DOMAIN core.list : core.list[k].name = name

Add(core, d) == IF Has(core, d.name) THEN core ELSE [core EXCEPT !.list = Append(@, d)]

AddAll(core, ds) == FoldLeft(Add, core, ds)

Saved(core, ds) == [AddAll(core, ds) EXCEPT !.saves = @ + 1]

OfNode(name) == Descr("solution", name, name, None)

AllUnknowns(c) == [u \in 1..Len(c.repr) |-> OfNode(NodeName(c, u))]

AllNodes(c) == [k \in 1..Len(c.order) |-> OfNode(c.order[k])]

Flow(save) == OfNode(<<save.obj, "flow(br)">>)

Outvar(save) == Descr("outvar", <<save.obj, ".", save.sub>>, save.obj, save.sub)

Transfer(kind, inst) == Descr(kind, <<kind, inst>>, inst, None)

AllTfZin(c) ==
    FlattenSeq([k \in 1..Len(c.insts) |->
        IF c.insts[k].source
        THEN <<Transfer("tf", c.insts[k].name), Transfer("zin", c.insts[k].name)>>
        ELSE <<>>])

Noise(inst) == Descr("noise", <<"n", inst>>, inst, None)
Contribution(inst, contrib) == Descr("contribution", <<"n", inst, contrib>>, inst, contrib)

Contributions(x) == [k \in 1..Len(x.noise) |-> Contribution(x.name, x.noise[k])]

AllNoiseContribInst(c, details) ==
    FlattenSeq([k \in 1..Len(c.insts) |->
        LET x == c.insts[k] IN
        IF x.noise = <<>> THEN <<>>
        ELSE <<Noise(x.name)>> \o (IF details THEN Contributions(x) ELSE <<>>)])

(***************************************************************************)
(* The columns one directive adds to a core.  Wrong numbers of arguments   *)
(* are reported by the handlers and the report is dropped (an.cpp:75), so  *)
(* that a directive with the wrong arguments adds nothing.                 *)
(***************************************************************************)
Arguments(save) == IF save.obj = None THEN 0 ELSE IF save.sub = None THEN 1 ELSE 2

AddAllUnknowns(core, save, c) == IF Arguments(save) = 0 THEN Saved(core, AllUnknowns(c)) ELSE core
AddAllNodes(core, save, c) == IF Arguments(save) = 0 THEN Saved(core, AllNodes(c)) ELSE core
AddNode(core, save) == IF Arguments(save) = 1 THEN Saved(core, <<OfNode(<<save.obj>>)>>) ELSE core
AddFlow(core, save) == IF Arguments(save) = 1 THEN Saved(core, <<Flow(save)>>) ELSE core
AddInstanceOutvar(core, save) == IF Arguments(save) = 2 THEN Saved(core, <<Outvar(save)>>) ELSE core
AddAllTfZin(core, save, c) == IF Arguments(save) = 0 THEN Saved(core, AllTfZin(c)) ELSE core
AddTransfer(core, save, kind) ==
    IF Arguments(save) = 1 THEN Saved(core, <<Transfer(kind, save.obj)>>) ELSE core
AddAllNoise(core, save, c, details) ==
    IF Arguments(save) = 0 THEN Saved(core, AllNoiseContribInst(c, details)) ELSE core

\* n(instance) and n(instance, contribution) ask for a name whether or not
\* the instance exists, nc(instance) for what the instance has
AddNoise(core, save) ==
    CASE Arguments(save) = 1 -> Saved(core, <<Noise(save.obj)>>)
      [] Arguments(save) = 2 -> Saved(core, <<Contribution(save.obj, save.sub)>>)
      [] OTHER -> core

AddNoiseDetails(core, save, c) ==
    IF Arguments(save) = 1 /\ Present(c, save.obj)
    THEN Saved(core, <<Noise(save.obj)>> \o Contributions(Find(c, save.obj)))
    ELSE core

Handle(handler, core, save, c) ==
    CASE handler = "unknowns" -> AddAllUnknowns(core, save, c)
      [] handler = "nodes"    -> AddAllNodes(core, save, c)
      [] handler = "node"     -> AddNode(core, save)
      [] handler = "flow"     -> AddFlow(core, save)
      [] handler = "outvar"   -> AddInstanceOutvar(core, save)
      [] handler = "tfzin"    -> AddAllTfZin(core, save, c)
      [] handler \in {"tf", "zin", "yin"} -> AddTransfer(core, save, handler)
      [] handler = "totals"   -> AddAllNoise(core, save, c, FALSE)
      [] handler = "details"  -> AddAllNoise(core, save, c, TRUE)
      [] handler = "noise"    -> AddNoise(core, save)
      [] handler = "contributions" -> AddNoiseDetails(core, save, c)

(***************************************************************************)
(* The file a core opens, closes and deletes takes real or complex rows.   *)
(***************************************************************************)
OperatingPointFile == "real"
TranFile == "real"
PssFile == "real"
HBFile == "complex"
ACFile == "complex"
DCIncrementalFile == "real"
ACXFFile == "complex"
DCXFFile == "real"
NoiseFile == "real"
HBNoiseFile == "real"
HBACFile == "complex"
ACSPFile == "complex"
ACStbFile == "complex"

(***************************************************************************)
(* The cores: the columns that are always there, what is written when no   *)
(* save asks for anything, and the place a column of each type is bound to *)
(* (a type that is not listed is left to the analysis, which knows its     *)
(* sweep variables only). The places in complex are complex numbers.       *)
(***************************************************************************)
Own(name) == Descr("own", <<name>>, name, None)

OperatingPointOutputs ==
    [always |-> <<>>, default |-> "unknowns",
     binds |-> [solution |-> "node", outvar |-> "outvar"],
     rows |-> OperatingPointFile, complex |-> {}]

TranOutputs ==
    [always |-> <<Own("time")>>, default |-> "unknowns",
     binds |-> [solution |-> "node", outvar |-> "outvar", own |-> "own"],
     rows |-> TranFile, complex |-> {}]

HBOutputs ==
    [always |-> <<Own("frequency")>>, default |-> "unknowns",
     binds |-> [solution |-> "node", own |-> "own"],
     rows |-> HBFile, complex |-> {"node"}]

ACOutputs ==
    [always |-> <<Own("frequency")>>, default |-> "unknowns",
     binds |-> [solution |-> "node", own |-> "own"],
     rows |-> ACFile, complex |-> {"node"}]

DCIncrementalOutputs ==
    [always |-> <<>>, default |-> "unknowns", binds |-> [solution |-> "node"],
     rows |-> DCIncrementalFile, complex |-> {}]

ACXFOutputs ==
    [always |-> <<Own("frequency")>>, default |-> "tfzin",
     binds |-> [tf |-> "source", zin |-> "source", yin |-> "source", own |-> "own"],
     rows |-> ACXFFile, complex |-> {"source"}]

DCXFOutputs ==
    [always |-> <<>>, default |-> "tfzin",
     binds |-> [tf |-> "source", zin |-> "source", yin |-> "source"],
     rows |-> DCXFFile, complex |-> {}]

NoiseOutputs ==
    [always |-> <<Own("frequency"), Own("onoise"), Own("gain")>>, default |-> "totals",
     binds |-> [noise |-> "result", contribution |-> "result", own |-> "own"],
     rows |-> NoiseFile, complex |-> {}]

\* The same as for the noise analysis, with the conversion to baseband
HBNoiseOutputs ==
    [always |-> <<Own("frequency"), Own("onoise"), Own("gain")>>, default |-> "totals",
     binds |-> [noise |-> "result", contribution |-> "result", own |-> "own"],
     rows |-> HBNoiseFile, complex |-> {}]

\* One column per node and kept small-signal frequency
HBACOutputs ==
    [always |-> <<Own("frequency")>>, default |-> "unknowns",
     binds |-> [solution |-> "spurs", own |-> "own"],
     rows |-> HBACFile, complex |-> {"node"}]

Entry(i, j) == Descr("entry", <<"s", i, j>>, i, j)

ACSPOutputs(c) ==
    [always |-> [k \in 1..(c.ports * c.ports) |->
                    Entry((k-1) \div c.ports, (k-1) % c.ports)] \o <<Own("frequency")>>,
     default |-> None, binds |-> [entry |-> "entry", own |-> "own"],
     rows |-> ACSPFile, complex |-> {"entry"}]

ACStbOutputs ==
    [always |-> <<Own("frequency"), Own("wf"), Own("wr"), Own("w"),
                  Own("y(1,1)"), Own("y(1,2)"), Own("y(2,1)"), Own("y(2,2)")>>,
     default |-> None, binds |-> [own |-> "own"],
     rows |-> ACStbFile, complex |-> {"own"}]

(***************************************************************************)
(* The analyses: their cores with the suffix of the core's file, and which *)
(* handler of which core takes a directive.  An analysis ignores what it   *)
(* does not know.                                                          *)
(***************************************************************************)
To(core, handler) == [core |-> core, handler |-> handler]

\* Handlers of the directives on nodes of the core's own solution
OnNodes(core) ==
    [default |-> To(core, "unknowns"), full |-> To(core, "nodes"),
     v |-> To(core, "node"), i |-> To(core, "flow"), p |-> To(core, "outvar")]

\* and of those on the operating point below a small-signal analysis
OpSaves ==
    [opdefault |-> To(1, "unknowns"), opfull |-> To(1, "nodes"),
     v |-> To(1, "node"), i |-> To(1, "flow"), p |-> To(1, "outvar")]

HbSaves ==
    [hbdefault |-> To(1, "unknowns"), hbfull |-> To(1, "nodes"),
     v |-> To(1, "node"), i |-> To(1, "flow")]

Increments ==
    [default |-> To(2, "unknowns"), full |-> To(2, "nodes"),
     dv |-> To(2, "node"), di |-> To(2, "flow")]

Transfers ==
    [default |-> To(2, "tfzin"), tf |-> To(2, "tf"), zin |-> To(2, "zin"), yin |-> To(2, "yin")]

NoiseSaves ==
    [default |-> To(2, "totals"), full |-> To(2, "details"),
     n |-> To(2, "noise"), nc |-> To(2, "contributions")]

Joined(f, g) == [x \in DOMAIN f \cup DOMAIN g |-> IF x \in DOMAIN f THEN f[x] ELSE g[x]]

OPSaves == OnNodes(1)
TranSaves == OnNodes(2)
PssSaves == OnNodes(1)        \* and the same for the second core, see Receivers
HBSaves == [x \in {"default", "full", "v", "i"} |-> OnNodes(1)[x]]
ACSaves == Joined(Increments, OpSaves)
DCIncrementalSaves == Joined(Increments, OpSaves)
ACXFSaves == Joined(Transfers, OpSaves)
DCXFSaves == Joined(Transfers, OpSaves)
NoiseAnalysisSaves == Joined(NoiseSaves, OpSaves)
ACSPSaves == OpSaves
ACStbSaves == OpSaves
HBACSaves == Joined(Increments, HbSaves)
HBNoiseAnalysisSaves == Joined(NoiseSaves, HbSaves)

Kinds == {"op", "tran", "pss", "hb", "ac", "dcinc", "acxf", "dcxf", "noise",
          "acsp", "acstb", "hbac", "hbnoise"}

SavesOf(kind) ==
    CASE kind = "op" -> OPSaves [] kind = "tran" -> TranSaves [] kind = "pss" -> PssSaves
      [] kind = "hb" -> HBSaves [] kind = "ac" -> ACSaves [] kind = "dcinc" -> DCIncrementalSaves
      [] kind = "acxf" -> ACXFSaves [] kind = "dcxf" -> DCXFSaves
      [] kind = "noise" -> NoiseAnalysisSaves [] kind = "acsp" -> ACSPSaves
      [] kind = "acstb" -> ACStbSaves [] kind = "hbac" -> HBACSaves
      [] kind = "hbnoise" -> HBNoiseAnalysisSaves

\* The cores of an analysis in the order in which it hands its descriptors to
\* them and handles their files; the operating point of a periodic steady state
\* takes none, its cores have the columns of a transient
TranCores == <<OperatingPointOutputs, TranOutputs>>
PssCores == <<TranOutputs, [TranOutputs EXCEPT !.rows = PssFile]>>
SmallSignalCores(outputs) == <<OperatingPointOutputs, outputs>>
HBSmallSignalCores(outputs) == <<HBOutputs, outputs>>

CoresOf(kind, c) ==
    CASE kind = "op" -> <<OperatingPointOutputs>> [] kind = "hb" -> <<HBOutputs>>
      [] kind = "tran" -> TranCores [] kind = "pss" -> PssCores
      [] kind = "ac" -> SmallSignalCores(ACOutputs)
      [] kind = "dcinc" -> SmallSignalCores(DCIncrementalOutputs)
      [] kind = "acxf" -> SmallSignalCores(ACXFOutputs)
      [] kind = "dcxf" -> SmallSignalCores(DCXFOutputs)
      [] kind = "noise" -> SmallSignalCores(NoiseOutputs)
      [] kind = "acsp" -> SmallSignalCores(ACSPOutputs(c))
      [] kind = "acstb" -> SmallSignalCores(ACStbOutputs)
      [] kind = "hbac" -> HBSmallSignalCores(HBACOutputs)
      [] kind = "hbnoise" -> HBSmallSignalCores(HBNoiseOutputs)

\* The files of an analysis, told apart by what is added to its name
OPFiles == <<"">>
HBFiles == <<"">>
TranFiles == <<".op", "">>
PssFiles == <<".tran", "">>
SmallSignalFiles == <<".op", "">>
HBSmallSignalFiles == <<".hb", "">>

FilesOf(kind) ==
    CASE kind = "op" -> OPFiles [] kind = "hb" -> HBFiles [] kind = "tran" -> TranFiles
      [] kind = "pss" -> PssFiles [] kind \in {"hbac", "hbnoise"} -> HBSmallSignalFiles
      [] OTHER -> SmallSignalFiles

\* Cores that keep their last solution under a name when asked to
Storing == {<<"op", 1>>, <<"tran", 2>>, <<"hb", 1>>, <<"hbac", 1>>, <<"hbnoise", 1>>}
             \cup ({"ac", "dcinc", "acxf", "dcxf", "noise", "acsp", "acstb"} \X {1})

\* A directive of the periodic steady state goes to both of its cores
Receivers(kind, save) ==
    IF save.directive \notin DOMAIN SavesOf(kind) THEN {}
    ELSE IF kind = "pss" THEN {1, 2} ELSE {SavesOf(kind)[save.directive].core}
=============================================================================
