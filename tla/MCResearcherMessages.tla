------------------------- MODULE MCResearcherMessages -------------------------
(* Model checking of ResearcherMessages: terminals and questions are alike, only *)
(* the first session is signalled or stopped, and nothing is looked at after the *)
(* last one is over.                                                             *)
EXTENDS ResearcherMessages, TLC

Alike == Permutations(Terminal) \union Permutations(Question)

FirstIsStopped ==
  /\ interrupted => session = 1
  /\ phase = "out" => session + 1 \in Session
=============================================================================
