----------------------------- MODULE MonteCarlo -----------------------------
(***************************************************************************)
(* The random generators of a Monte Carlo loop (class MCData,              *)
(* src/include/rpnevalctx.h, src/lib/rpnevalctx.cpp). Every call site of a *)
(* distribution function has a generator of its own, created when the site *)
(* is first evaluated. With Latin hypercube sampling a generator visits    *)
(* the bins 0 .. lhSamples - 1 in the order of a random permutation.       *)
(*                                                                         *)
(* A value is the bin it was drawn from and the pass it was drawn in. The  *)
(* pass is not in the program: it tells two draws from one bin apart.      *)
(***************************************************************************)
EXTENDS Naturals, FiniteSets

CONSTANT Sites  \* call sites of distribution functions

ASSUME SitesAssumption == IsFiniteSet(Sites)

\* The value of a distribution function outside a loop
Nominal == [pass |-> 0, bin |-> 0]

Bins(n) == 0..(n - 1)

\* The orders in which n bins can be visited
Shuffles(n) ==
  {p \in [Bins(n) -> Bins(n)] : \A i, j \in Bins(n) : p[i] = p[j] => i = j}

\* No loop is running: paramEvaluator() has no MCData
NoData == [pass |-> 0, sample |-> 0, lhSamples |-> 0, lhPerm |-> <<>>,
           value |-> <<>>]

(***************************************************************************)
(* The data of a new loop of n samples. The permutation of a site is drawn *)
(* when the site is first met, it is fixed here beforehand.                *)
(***************************************************************************)
NewData(n, lh, perms) ==
  [pass |-> 1, sample |-> 0, lhSamples |-> IF lh THEN n ELSE 0,
   lhPerm |-> perms, value |-> <<>>]

Gen(data, site) ==
  [pass |-> data.pass,
   bin  |-> IF data.lhSamples = 0 THEN 0 ELSE data.lhPerm[site][data.sample]]

\* All generators draw, then the sample is counted
Advance(data) ==
  LET next == [data EXCEPT !.pass = @ + 1]
  IN  [next EXCEPT !.value = [z \in DOMAIN @ |-> Gen(next, z)],
                   !.sample = @ + 1]

\* The sites of an expression are evaluated, the new ones get a generator
RetrieveOrAdd(data, sites) ==
  [data EXCEPT !.value = [z \in DOMAIN @ \cup sites |->
                            IF z \in DOMAIN data.value THEN data.value[z]
                            ELSE Gen(data, z)]]

Count(data) == Cardinality(DOMAIN data.value)
=============================================================================
