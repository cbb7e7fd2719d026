-------------------------- MODULE CheckpointRegister --------------------------
(***************************************************************************)
(* What write_checkpoint and read_checkpoint promise together, whoever     *)
(* writes: the checkpoint of a session is one register.  A write takes     *)
(* effect at one moment, or never if it raises or its process dies; once   *)
(* it returned, a power cut brings back nothing older than what was there. *)
(***************************************************************************)
CONSTANTS
  Writer,   \* the processes that may write
  Nothing   \* no checkpoint

VARIABLES
  value,    \* what a reader gets
  kept,     \* what a reader may get after a power cut
  job,      \* job[w]: the checkpoint w is writing, or Nothing
  taken,    \* taken[w]: has the write of w taken effect?
  returned  \* the checkpoints whose writes returned

vars == <<value, kept, job, taken, returned>>

Init ==
  /\ value = Nothing
  /\ kept = {Nothing}
  /\ job = [w \in Writer |-> Nothing]
  /\ taken = [w \in Writer |-> FALSE]
  /\ returned = {}

\* w begins to write some checkpoint.
Begin(w) ==
  /\ job[w] = Nothing
  /\ job'[w] # Nothing
  /\ job' = [job EXCEPT ![w] = job'[w]]
  /\ UNCHANGED <<value, kept, taken, returned>>

TakeEffect(w) ==
  /\ job[w] # Nothing
  /\ ~taken[w]
  /\ value' = job[w]
  /\ kept' = kept \union {value'}
  /\ taken' = [taken EXCEPT ![w] = TRUE]
  /\ UNCHANGED <<job, returned>>

Leave(w) ==
  /\ job' = [job EXCEPT ![w] = Nothing]
  /\ taken' = [taken EXCEPT ![w] = FALSE]

\* What a reader gets from now on survives a power cut.
Return(w) ==
  /\ taken[w]
  /\ kept' = {value}
  /\ returned' = returned \union {job[w]}
  /\ Leave(w)
  /\ UNCHANGED value

\* The write raised, or its process died.
Abort(w) ==
  /\ job[w] # Nothing
  /\ Leave(w)
  /\ UNCHANGED <<value, kept, returned>>

PowerCut ==
  /\ value' \in kept
  /\ kept' = {value'}
  /\ job' = [w \in Writer |-> Nothing]
  /\ taken' = [w \in Writer |-> FALSE]
  /\ UNCHANGED returned

Next ==
  \/ \E w \in Writer : Begin(w) \/ TakeEffect(w) \/ Return(w) \/ Abort(w)
  \/ PowerCut

Spec == Init /\ [][Next]_vars
=============================================================================
