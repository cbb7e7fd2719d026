--------------------------- MODULE MCResearchChain ---------------------------
(* Model checking of ResearchChain: sessions are interchangeable. *)
EXTENDS ResearchChain, Naturals, FiniteSets, TLC

CONSTANTS
  First,           \* bound: the sessions that may begin a research
  MaxResearches,   \* bound: how many researches a behaviour starts
  MaxPairs         \* bound: how many pairs of steps are half done at once, all on one row

Symmetry == Permutations(Session)

\* A sweep judged the row and did not mark it yet; its process read it and did not
\* write it yet; a terminal wrote it and owes the checkpoint.
Judged  == {n \in Session : seen[n]}
Read    == {n \in Session : snap[n] # NoSnapshot}
Owing   == {n \in Session : owed[n] # {}}

Researches == {n \in Session : alias[n] # NoSession /\ source[n] = NoSession}

Bound ==
  /\ Researches \subseteq First
  /\ Cardinality(Researches) <= MaxResearches
  /\ Cardinality(Judged) + Cardinality(Read) + Cardinality(Owing) <= MaxPairs
  /\ Cardinality(Judged \union Read \union Owing) <= 1
=============================================================================
