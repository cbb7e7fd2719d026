---------------------------- MODULE ResearchLock ----------------------------
(***************************************************************************)
(* What the chain of sessions promises about a research: at most one       *)
(* session carries it on, a session begins only when no other has it, and  *)
(* a session that stopped, or that was refused before it began, never      *)
(* carries anything on again.                                              *)
(***************************************************************************)
CONSTANTS Research, Session

VARIABLES
  running,   \* running[r]: the sessions that carry research r on
  spent      \* the sessions that will never run (again)

vars == <<running, spent>>

Init ==
  /\ running = [r \in Research |-> {}]
  /\ spent = {}

Busy == UNION {running[r] : r \in Research}

Begin(r, s) ==
  /\ running[r] = {}
  /\ s \notin spent
  /\ s \notin Busy
  /\ running' = [running EXCEPT ![r] = {s}]
  /\ UNCHANGED spent

End(r, s) ==
  /\ s \in running[r]
  /\ running' = [running EXCEPT ![r] = @ \ {s}]
  /\ spent' = spent \union {s}

Refuse(s) ==
  /\ s \notin Busy
  /\ spent' = spent \union {s}
  /\ UNCHANGED running

\* Who carries a research on changes, or else somebody is refused.
Next ==
  \/ running' # running /\ \E r \in Research, s \in Session : Begin(r, s) \/ End(r, s)
  \/ spent' # spent /\ \E s \in Session : Refuse(s)

Spec == Init /\ [][Next]_vars
=============================================================================
