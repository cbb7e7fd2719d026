-------------------------- MODULE MCHypothesisCycle --------------------------
(* Model checking of HypothesisCycle: how often things go wrong is bounded. *)
EXTENDS HypothesisCycle

CONSTANT MaxLosses  \* bound: hypotheses with a lost answer or a torn transition

FewLosses == Cardinality(lost) + Cardinality(torn) <= MaxLosses
=============================================================================
