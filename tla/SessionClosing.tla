---------------------------- MODULE SessionClosing ----------------------------
(***************************************************************************)
(* How one session stops, and what its stop leaves for a continuation.     *)
(*                                                                         *)
(* The state of a session is kept twice: the row of agent_sessions (status *)
(* and payload.motivo_parada) and checkpoint.json (estado, motivo_parada,  *)
(* curator_pendente, the subtasks).  Its process writes one, then the      *)
(* other, in an order that depends on why the session stops; a terminal    *)
(* that finds the process gone marks the row and then repairs the file; a  *)
(* researcher who closes a stopped session does the same with a copy of    *)
(* the file read before.  Nothing makes two of these writes one.           *)
(*                                                                         *)
(* One action is one write of one actor.  Faults names what may go wrong:  *)
(*   process   the process dies while the loop executes                    *)
(*   closing   the process dies between two steps of its closing           *)
(*   terminal  a terminal dies between its write of the row and the file   *)
(*   recorder  a write of the checkpoint fails (the recorder goes on)      *)
(*   overlap   the researcher closes the session while its process, or a   *)
(*             recovery, still writes                                      *)
(*   misjudge  a live session is marked interrompida by mistake            *)
(* The session is not continued meanwhile (ResearchChain).  The Curator    *)
(* takes part (the knowledge graph is configured), the file is readable,   *)
(* and one subtask stands for the plan.                                    *)
(***************************************************************************)
EXTENDS SessionStates

CONSTANT Faults   \* the faults a behaviour may meet

FaultKinds == {"process", "closing", "terminal", "recorder", "overlap", "misjudge"}
ASSUME FaultsAssumption == Faults \subseteq FaultKinds

VARIABLES
  faults,        \* those this behaviour may meet: chosen once, some of Faults
  status,        \* agent_sessions.status
  motivo,        \* payload.motivo_parada
  disk,          \* checkpoint.json
  mem,           \* the checkpoint in the memory of the CheckpointRecorder
  pc,            \* where the process is
  reason,        \* the stop reason the process is recording
  ending,        \* final_status, or "paused": what the request decided on the row
  pending,       \* consolidation_pending, then curator_pending
  consolidated,  \* has Curator.close_session succeeded?
  sweeper,       \* the terminal that recovers the session
  closer         \* the terminal where the researcher closes the session

rowVars   == <<status, motivo>>
localVars == <<faults, reason, ending, pending, consolidated>>
termVars  == <<sweeper, closer>>
vars      == <<faults, status, motivo, disk, mem, pc, reason, ending, pending, consolidated,
               sweeper, closer>>

(***************************************************************************)
(* pc:  executing      the loop plans and runs subtasks                    *)
(*      closing        _close_session wrote the row, not the checkpoint    *)
(*      consolidating  the Summarizer runs                                 *)
(*      failing        the loop raised: checkpoint closed, row not         *)
(*      returned       the loop returned, the heartbeat is stopped         *)
(*      curating       final status written, the Curator closes            *)
(*      finalizing     _finalize_checkpoint begins                         *)
(*      recording      the reason is in the row, the checkpoint follows    *)
(*      leaving        checkpoint final, the row may still be closed       *)
(*      over           no process                                          *)
(***************************************************************************)
PC == {"executing", "closing", "consolidating", "failing", "returned", "curating",
       "finalizing", "recording", "leaving", "over"}

Checkpoint == [estado  : {"em_execucao", "fechado", "interrompido"},
               motivo  : Motivos,
               curator : BOOLEAN,
               task    : {"pendente", "em_andamento", "concluida", "falhou"}]

Away       == [at |-> "away"]
Holding    == [at : {"read"}, copy : Checkpoint]

\* Every variable has its type, and the process holds a decision on the row
\* only in the steps that follow it (orchestrator.handle_request).
TypeOK ==
  /\ faults \subseteq Faults
  /\ status \in RowStatuses
  /\ motivo \in Motivos
  /\ disk \in Checkpoint
  /\ mem \in Checkpoint
  /\ pc \in PC
  /\ reason \in Motivos
  /\ ending \in {"none", "success", "failed", "paused"}
  /\ pending \in BOOLEAN
  /\ consolidated \in BOOLEAN
  /\ sweeper \in {Away, [at |-> "marked"]} \union Holding
  /\ closer \in {Away} \union Holding \union [at : {"decided"}, copy : Checkpoint]
  /\ pc \in {"executing", "closing", "consolidating", "failing", "returned"} => ending = "none"
  /\ pc \in {"curating", "finalizing", "recording", "leaving"} => ending # "none"

FirstCheckpoint ==
  [estado |-> "em_execucao", motivo |-> "nil", curator |-> FALSE, task |-> "pendente"]

Init ==
  /\ faults \in SUBSET Faults
  /\ status = "active"
  /\ motivo = "nil"
  /\ disk = FirstCheckpoint
  /\ mem = FirstCheckpoint
  /\ pc = "executing"
  /\ reason = "nil"
  /\ ending = "none"
  /\ pending = FALSE
  /\ consolidated = FALSE
  /\ sweeper = Away
  /\ closer = Away

\* The process ends; what it kept in memory goes with it.
Gone ==
  /\ pc' = "over"
  /\ mem' = FirstCheckpoint
  /\ reason' = "nil"
  /\ ending' = "none"
  /\ pending' = FALSE
  /\ UNCHANGED <<faults, consolidated>>

-----------------------------------------------------------------------------
(***************************************************************************)
(* The recorder                                                            *)
(***************************************************************************)

WithTask(cp, task) ==
  [estado |-> cp.estado, motivo |-> cp.motivo, curator |-> cp.curator, task |-> task]

\* _update and _flush: the memory always changes; the file does unless the
\* write fails, and the next one that succeeds writes the memory whole.
Record(cp) ==
  /\ mem' = cp
  /\ disk' \in {cp} \union (IF "recorder" \in faults THEN {disk} ELSE {})

\* CheckpointRecorder.close: nothing stays in flight after the session stops.
Settled(task) == IF task = "em_andamento" THEN "pendente" ELSE task

Closed(cp, estado, m, owed) ==
  [estado |-> estado, motivo |-> m, curator |-> owed, task |-> Settled(cp.task)]

-----------------------------------------------------------------------------
(***************************************************************************)
(* The loop                                                                *)
(***************************************************************************)

StartSubtask ==
  /\ pc = "executing"
  /\ mem.task \in {"pendente", "falhou"}
  /\ Record(WithTask(mem, "em_andamento"))
  /\ UNCHANGED <<rowVars, pc, localVars, termVars>>

FinishSubtask(result) ==
  /\ pc = "executing"
  /\ mem.task = "em_andamento"
  /\ Record(WithTask(mem, result))
  /\ UNCHANGED <<rowVars, pc, localVars, termVars>>

\* _close_session, first half: the reason goes to the row, with the status in
\* the same statement when the session pauses.  What is left to consolidate is
\* owed to the continuation when it pauses or no token is left.
CloseSession(m, owed) ==
  /\ pc = "executing"
  /\ m \in PauseMotivos => owed
  /\ status' = IF m = "pausada_pesquisador" THEN "suspended"
               ELSE IF m = "suspensa_sem_pesquisador" THEN m
               ELSE status
  /\ motivo' = m
  /\ reason' = m
  /\ pending' = owed
  /\ pc' = "closing"
  /\ UNCHANGED <<disk, mem, faults, ending, consolidated, termVars>>

\* _close_session, second half: the deterministic checkpoint.
RecordStop ==
  /\ pc = "closing"
  /\ Record(Closed(mem, "fechado", reason, pending \/ mem.curator))
  /\ pc' = "consolidating"
  /\ UNCHANGED <<rowVars, localVars, termVars>>

Consolidate ==
  /\ pc = "consolidating"
  /\ pc' = "returned"
  /\ UNCHANGED <<rowVars, disk, mem, localVars, termVars>>

\* _suspend_session: one statement on the row; the checkpoint comes later.
SuspendSession ==
  /\ pc = "executing"
  /\ mem.task # "em_andamento"
  /\ status' = "aguarda_pesquisador"
  /\ motivo' = "aguarda_pesquisador"
  /\ pc' = "returned"
  /\ UNCHANGED <<disk, mem, localVars, termVars>>

\* The loop returns a result with no stop reason.
FinishLoop ==
  /\ pc = "executing"
  /\ mem.task # "em_andamento"
  /\ pc' = "returned"
  /\ UNCHANGED <<rowVars, disk, mem, localVars, termVars>>

\* The loop raised: Ctrl+C (interrompida) or a fatal error.  Checkpoint first.
\* (Once the stop is recorded only a Summarizer that runs can still raise.)
Raise(m) ==
  /\ pc = "executing" \/ (pc = "consolidating" /\ ~pending)
  /\ Record(Closed(mem, "interrompido", m, TRUE))
  /\ reason' = m
  /\ pc' = "failing"
  /\ UNCHANGED <<rowVars, faults, ending, pending, consolidated, termVars>>

\* ... and then the row.
RecordRaise ==
  /\ pc = "failing"
  /\ status' = IF reason = "interrompida" THEN "interrompida" ELSE "closed"
  /\ motivo' = reason
  /\ Gone
  /\ UNCHANGED <<disk, termVars>>

-----------------------------------------------------------------------------
(***************************************************************************)
(* The end of the request                                                  *)
(***************************************************************************)

\* A row that the loop paused keeps its status, any other gets the final one.
WriteFinal_NoPause(final) ==
  /\ pc = "returned"
  /\ ending' = IF status \in PausedStatuses THEN ending ELSE final
  /\ status' = IF status \in PausedStatuses THEN status ELSE final
  /\ pc' = "curating"
  /\ UNCHANGED <<motivo, disk, mem, faults, reason, pending, consolidated, termVars>>

WriteFinal(final) ==
  /\ pc = "returned"
  /\ ending' = IF status \in PausedStatuses THEN "paused" ELSE final
  /\ status' = IF status \in PausedStatuses THEN status ELSE final
  /\ pc' = "curating"
  /\ UNCHANGED <<motivo, disk, mem, faults, reason, pending, consolidated, termVars>>

\* curator_close: a paused session leaves its consolidation to the continuation.
CloseCurator(ok) ==
  /\ pc = "curating"
  /\ ending = "paused" => ~ok
  /\ pending' = ~ok
  /\ consolidated' = ok
  /\ pc' = "finalizing"
  /\ UNCHANGED <<rowVars, disk, mem, faults, reason, ending, termVars>>

\* _finalize_checkpoint: the reason is the one in the row, or follows from how
\* the request ended.
FinalReason ==
  IF motivo # "nil" THEN motivo
  ELSE IF ending = "paused" THEN "interrompida"
  ELSE IF ending = "success" THEN "solucao_encontrada"
  ELSE "erro"

NameReason ==
  /\ pc = "finalizing"
  /\ motivo' = FinalReason
  /\ reason' = FinalReason
  /\ pc' = "recording"
  /\ UNCHANGED <<status, disk, mem, faults, ending, pending, consolidated, termVars>>

RecordFinal_Interrupted ==
  /\ pc = "recording"
  /\ Record(Closed(mem, "interrompido", "interrompida", pending \/ mem.curator))
  /\ pc' = "leaving"
  /\ UNCHANGED <<rowVars, localVars, termVars>>

RecordFinal ==
  /\ pc = "recording"
  /\ Record(Closed(mem, IF ending = "paused" THEN "interrompido" ELSE "fechado",
                   reason, pending \/ mem.curator))
  /\ pc' = "leaving"
  /\ UNCHANGED <<rowVars, localVars, termVars>>

\* The exit code is written and a session that is not paused closes.
Leave ==
  /\ pc = "leaving"
  /\ status' = IF ending = "paused" THEN status ELSE "closed"
  /\ Gone
  /\ UNCHANGED <<motivo, disk, termVars>>

Crash ==
  /\ \/ pc = "executing" /\ "process" \in faults
     \/ pc \notin {"executing", "over"} /\ "closing" \in faults
  /\ Gone
  /\ UNCHANGED <<rowVars, disk, termVars>>

\* The heartbeat thread takes a row marked by mistake back, reason and all.
Reassert ==
  /\ pc \in {"executing", "closing", "consolidating"}
  /\ status = "interrompida"
  /\ status' = "active"
  /\ motivo' = "nil"
  /\ UNCHANGED <<disk, mem, pc, localVars, termVars>>

-----------------------------------------------------------------------------
(***************************************************************************)
(* The terminals                                                           *)
(***************************************************************************)

\* SessionWatch.sweep: mark_interrupted, then recover.
Mark ==
  /\ sweeper = Away
  /\ status = "active"
  /\ pc = "over" \/ "misjudge" \in faults
  /\ status' = "interrompida"
  /\ motivo' = "interrompida"
  /\ sweeper' = [at |-> "marked"]
  /\ UNCHANGED <<disk, mem, pc, localVars, closer>>

\* mark_checkpoint_interrupted: what was in flight failed with the machine, and
\* a checkpoint that was not closed now is.
Failed(task) == IF task = "em_andamento" THEN "falhou" ELSE task

Stopped(cp, task) ==
  [estado |-> "interrompido",
   motivo |-> IF cp.motivo = "nil" THEN "interrompida" ELSE cp.motivo,
   curator |-> TRUE,
   task |-> task]

Recovered_ClosedOnly(cp) == IF cp.estado = "em_execucao" THEN Stopped(cp, cp.task) ELSE cp

Recovered_TasksOnly(cp) == WithTask(cp, Failed(cp.task))

Recovered(cp) ==
  IF cp.estado = "em_execucao" THEN Stopped(cp, Failed(cp.task))
  ELSE WithTask(cp, Failed(cp.task))

ReadForRecovery ==
  /\ sweeper.at = "marked"
  /\ closer = Away \/ "overlap" \in faults
  /\ sweeper' = [at |-> "read", copy |-> disk]
  /\ UNCHANGED <<rowVars, disk, mem, pc, localVars, closer>>

\* Nothing is written when nothing changed.
WriteRecovery ==
  /\ sweeper.at = "read"
  /\ disk' = IF Recovered(sweeper.copy) = sweeper.copy THEN disk ELSE Recovered(sweeper.copy)
  /\ sweeper' = Away
  /\ UNCHANGED <<rowVars, mem, pc, localVars, closer>>

\* closing.close_by_researcher: read the checkpoint, close the row if it is
\* still unfinished, write the checkpoint read before.
ReadForClosing ==
  /\ closer = Away
  /\ status \in UnfinishedStatuses
  /\ (sweeper = Away /\ pc = "over") \/ "overlap" \in faults
  /\ closer' = [at |-> "read", copy |-> disk]
  /\ UNCHANGED <<rowVars, disk, mem, pc, localVars, sweeper>>

CloseRow ==
  /\ closer.at = "read"
  /\ status \in UnfinishedStatuses
  /\ status' = "closed"
  /\ motivo' = "encerrada_pesquisador"
  /\ closer' = [at |-> "decided", copy |-> closer.copy]
  /\ UNCHANGED <<disk, mem, pc, localVars, sweeper>>

CloseRefused ==
  /\ closer.at = "read"
  /\ status \notin UnfinishedStatuses
  /\ closer' = Away
  /\ UNCHANGED <<rowVars, disk, mem, pc, localVars, sweeper>>

WriteClosing_EstadoOnly ==
  /\ closer.at = "decided"
  /\ disk' = [estado |-> "fechado", motivo |-> closer.copy.motivo, curator |-> TRUE,
               task |-> closer.copy.task]
  /\ closer' = Away
  /\ UNCHANGED <<rowVars, mem, pc, localVars, sweeper>>

WriteClosing ==
  /\ closer.at = "decided"
  /\ disk' = [estado |-> "fechado", motivo |-> "encerrada_pesquisador", curator |-> TRUE,
               task |-> closer.copy.task]
  /\ closer' = Away
  /\ UNCHANGED <<rowVars, mem, pc, localVars, sweeper>>

TerminalDies ==
  /\ "terminal" \in faults
  /\ \/ sweeper # Away /\ sweeper' = Away /\ UNCHANGED closer
     \/ closer # Away /\ closer' = Away /\ UNCHANGED sweeper
  /\ UNCHANGED <<rowVars, disk, mem, pc, localVars>>

-----------------------------------------------------------------------------
LoopMotivos ==
  {"limite", "solucao_encontrada", "erro", "pausada_pesquisador", "suspensa_sem_pesquisador"}

LoopStep ==
  \/ StartSubtask
  \/ \E result \in {"concluida", "falhou"} : FinishSubtask(result)
  \/ \E m \in LoopMotivos, owed \in BOOLEAN : CloseSession(m, owed)
  \/ RecordStop \/ Consolidate \/ SuspendSession \/ FinishLoop
  \/ \E m \in {"interrompida", "erro"} : Raise(m)
  \/ RecordRaise

EndStep ==
  \/ \E final \in {"success", "failed"} : WriteFinal(final)
  \/ \E ok \in BOOLEAN : CloseCurator(ok)
  \/ NameReason \/ RecordFinal \/ Leave

SweepStep   == Mark \/ ReadForRecovery \/ WriteRecovery
ClosingStep == CloseRow \/ CloseRefused \/ WriteClosing

Next ==
  \/ LoopStep \/ EndStep \/ Crash \/ Reassert
  \/ SweepStep \/ ReadForClosing \/ ClosingStep \/ TerminalDies

Spec == Init /\ [][Next]_vars

\* The terminals sweep again and again; what a live process, a recovery or a
\* closing began it also ends.
Fairness == WF_vars(EndStep) /\ WF_vars(SweepStep) /\ WF_vars(ClosingStep)

FairSpec == Spec /\ Fairness

-----------------------------------------------------------------------------
(***************************************************************************)
(* Properties                                                              *)
(***************************************************************************)

\* No actor is in the middle of anything: what a resumption finds.
Quiet == pc = "over" /\ status # "active" /\ sweeper = Away /\ closer = Away

Decision == Verdict(status, motivo, disk.motivo)

OnlyMeets(kinds) == faults \subseteq kinds

\* An error that the row or the checkpoint states refuses a continuation, and a
\* research one of them states to be solved is never continued without asking:
\* a process that dies anywhere, a sweep that finds its row still active, a write
\* that fails overrule neither (evaluate_resumability, mark_interrupted).
RecordedReasonStands ==
  "misjudge" \notin faults =>
    /\ "erro" \in {motivo, disk.motivo} => Decision = "recusar"
    /\ "solucao_encontrada" \in {motivo, disk.motivo} => Decision # "ok"

\* evaluate_resumability, "Retomaveis: suspended, interrompida ou fechada por
\* limite_*": a session that was interrupted or stopped by a limit, with no
\* error recorded, can be continued without a question.
InterruptedIsResumable ==
  Quiet /\ (status = "interrompida" \/ motivo = "limite") /\ disk.motivo # "erro"
    => Decision = "ok"

\* It can as long as the process dies in the loop and not in its closing, its
\* checkpoint is written, and no live session is marked.
InterruptedResumes ==
  OnlyMeets({"process", "terminal", "overlap"}) => InterruptedIsResumable

\* A session the researcher closed asks before it is continued: row and
\* checkpoint agree on who closed it, unless the terminal dies between the two
\* or closes a session that another actor still writes (close_by_researcher).
ClosedAsks ==
  OnlyMeets({"process", "closing", "recorder", "misjudge"}) =>
    (Quiet /\ motivo = "encerrada_pesquisador" => Decision = "confirmar")

\* session-continuity, "Queda de energia": once a session is stopped and marked,
\* no subtask of its checkpoint is in flight any more.
NothingInFlight == Quiet => disk.task # "em_andamento"

\* None is if the process dies in the loop, or if a live session is marked and
\* the terminal that marked it dies before it repairs the file, but not both.
FlightsSettle ==
  OnlyMeets({"process"}) \/ OnlyMeets({"terminal", "misjudge"}) => NothingInFlight

\* session-continuity, "Consolidacao pendente concluida na retomada": what the
\* Curator has not consolidated is owed in the checkpoint of a session that can
\* be continued, whoever stopped it.
ConsolidationOwed ==
  OnlyMeets({"process", "overlap"}) \/ OnlyMeets({"terminal", "overlap", "misjudge"}) =>
    (Quiet /\ Decision # "recusar" => consolidated \/ disk.curator)

\* A session whose process is gone does not stay half stopped: its row and its
\* checkpoint are both closed in the end, and stay so (SessionWatch.sweep).
StopsForGood ==
  OnlyMeets({"process", "overlap"}) \/ OnlyMeets({"terminal", "overlap", "misjudge"}) =>
    [](pc = "over" => <>[](status # "active" /\ disk.estado # "em_execucao"))
=============================================================================
