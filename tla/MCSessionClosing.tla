--------------------------- MODULE MCSessionClosing ---------------------------
(* Model checking of SessionClosing: finite as it stands. *)
EXTENDS SessionClosing, Naturals, FiniteSets

CONSTANT MaxFaults   \* bound: how many kinds of fault one behaviour meets

FewFaults == Cardinality(faults) <= MaxFaults
=============================================================================
