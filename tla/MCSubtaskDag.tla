----------------------------- MODULE MCSubtaskDag -----------------------------
EXTENDS SubtaskDag

MCTask == {"a", "b"}

On(a, b) == [t \in MCTask |-> IF t = "a" THEN a ELSE b]

\* B needs what A makes; a recovery that plans B alone (A is resumed, or the
\* dependency dangles); A and B side by side; a circle.
MCProposals ==
  { [tasks |-> {"a", "b"}, deps |-> On({}, {"a"})],
    [tasks |-> {"b"},      deps |-> On({}, {"a"})],
    [tasks |-> {"a", "b"}, deps |-> On({}, {})],
    [tasks |-> {"a", "b"}, deps |-> On({"b"}, {"a"})] }
=============================================================================
