------------------------- MODULE SessionClosingProofs -------------------------
(***************************************************************************)
(* Type correctness of SessionClosing and, for every set of faults, what   *)
(* the stop of a session leaves for a continuation: a recorded reason      *)
(* stands, no subtask stays in flight, an interrupted session resumes, a   *)
(* session the researcher closed asks, and a consolidation that did not    *)
(* happen is owed, and a half stopped session is not forgotten.  Each is   *)
(* an invariant of its own (the faults it bears differ), strengthened      *)
(* until every action keeps it.                                            *)
(***************************************************************************)
EXTENDS SessionClosing, TLAPS

\* The statuses and the reasons the actions write are in their types.
LEMMA VerdictTypes ==
  /\ {"active", "success", "failed", "closed", "interrompida", "aguarda_pesquisador",
      "suspended", "suspensa_sem_pesquisador"} \subseteq RowStatuses
  /\ LoopMotivos \union {"nil", "interrompida", "aguarda_pesquisador",
      "encerrada_pesquisador"} \subseteq Motivos
BY DEF RowStatuses, FinishedStatuses, UnfinishedStatuses, PausedStatuses, Motivos,
       MotivosRetomaveis, MotivosConfirmar, PauseMotivos, LoopMotivos

\* Closing a checkpoint, and recovering it, gives a checkpoint.
LEMMA CheckpointTypes ==
  /\ FirstCheckpoint \in Checkpoint
  /\ \A cp \in Checkpoint, estado \in {"fechado", "interrompido"}, m \in Motivos, b \in BOOLEAN :
       Closed(cp, estado, m, b) \in Checkpoint
  /\ \A cp \in Checkpoint, t \in {"pendente", "em_andamento", "concluida", "falhou"} :
       WithTask(cp, t) \in Checkpoint
  /\ \A cp \in Checkpoint : Recovered(cp) \in Checkpoint
BY VerdictTypes DEF Checkpoint, FirstCheckpoint, Closed, Settled, Recovered, Failed, Stopped,
                    WithTask

\* The first state has the types.
LEMMA TypeInit == Init => TypeOK
BY VerdictTypes, CheckpointTypes DEF Init, TypeOK, PC, Away

\* Every action keeps the types.
LEMMA TypeStep == TypeOK /\ [Next]_vars => TypeOK'
<1> SUFFICES ASSUME TypeOK, [Next]_vars PROVE TypeOK'
  OBVIOUS
<1> USE VerdictTypes, CheckpointTypes DEF TypeOK, PC, rowVars, localVars, termVars
<1>1. ASSUME NEW cp \in Checkpoint, Record(cp) PROVE mem' \in Checkpoint /\ disk' \in Checkpoint
  BY <1>1 DEF Record
<1>2. CASE LoopStep
  <2>1. CASE StartSubtask
    BY <1>1, <2>1 DEF StartSubtask
  <2>2. ASSUME NEW r \in {"concluida", "falhou"}, FinishSubtask(r) PROVE TypeOK'
    BY <1>1, <2>2 DEF FinishSubtask
  <2>3. ASSUME NEW m \in LoopMotivos, NEW owed \in BOOLEAN, CloseSession(m, owed) PROVE TypeOK'
    BY <2>3 DEF CloseSession
  <2>4. CASE RecordStop
    BY <1>1, <2>4 DEF RecordStop
  <2>5. CASE Consolidate \/ SuspendSession \/ FinishLoop
    BY <2>5 DEF Consolidate, SuspendSession, FinishLoop
  <2>6. ASSUME NEW m \in {"interrompida", "erro"}, Raise(m) PROVE TypeOK'
    <3>1. m \in Motivos
      BY DEF LoopMotivos
    <3> QED BY <1>1, <2>6, <3>1 DEF Raise
  <2>7. CASE RecordRaise
    BY <2>7 DEF RecordRaise, Gone, LoopMotivos
  <2> QED BY <1>2, <2>1, <2>2, <2>3, <2>4, <2>5, <2>6, <2>7 DEF LoopStep
<1>3. CASE EndStep
  <2>1. ASSUME NEW final \in {"success", "failed"}, WriteFinal(final) PROVE TypeOK'
    BY <2>1 DEF WriteFinal
  <2>2. ASSUME NEW ok \in BOOLEAN, CloseCurator(ok) PROVE TypeOK'
    BY <2>2 DEF CloseCurator
  <2>3. CASE NameReason
    <3>1. FinalReason \in Motivos
      BY DEF FinalReason, LoopMotivos
    <3> QED BY <2>3, <3>1 DEF NameReason
  <2>4. CASE RecordFinal
    BY <1>1, <2>4 DEF RecordFinal
  <2>5. CASE Leave
    BY <2>5 DEF Leave, Gone
  <2> QED BY <1>3, <2>1, <2>2, <2>3, <2>4, <2>5 DEF EndStep
<1>4. CASE Crash
  BY <1>4 DEF Crash, Gone
<1>5. CASE Reassert
  BY <1>5 DEF Reassert
<1>6. CASE SweepStep
  <2>1. CASE Mark
    BY <2>1 DEF Mark
  <2>2. CASE ReadForRecovery
    BY <2>2 DEF ReadForRecovery, Holding
  <2>3. CASE WriteRecovery
    <3>1. sweeper.copy \in Checkpoint
      BY <2>3 DEF WriteRecovery, Holding, Away
    <3> QED BY <2>3, <3>1 DEF WriteRecovery
  <2> QED BY <1>6, <2>1, <2>2, <2>3 DEF SweepStep
<1>7. CASE ReadForClosing \/ CloseRefused
  BY <1>7 DEF ReadForClosing, CloseRefused, Holding
<1>8. CASE CloseRow
  <2>1. closer \in Holding
    BY <1>8 DEF CloseRow, Holding, Away
  <2> QED BY <1>8, <2>1 DEF CloseRow, Holding
<1>9. CASE WriteClosing
  <2>1. closer.copy \in Checkpoint
    BY <1>9 DEF WriteClosing, Holding, Away
  <2> QED BY <1>9, <2>1 DEF WriteClosing, Checkpoint
<1>10. CASE TerminalDies
  BY <1>10 DEF TerminalDies
<1>11. CASE UNCHANGED vars
  BY <1>11 DEF vars
<1> QED BY <1>2, <1>3, <1>4, <1>5, <1>6, <1>7, <1>8, <1>9, <1>10, <1>11 DEF Next, ClosingStep

\* Every variable keeps its type, whatever faults are met.
THEOREM TypeCorrect == Spec => []TypeOK
<1>1. TypeOK /\ [Next]_vars => TypeOK'
  BY TypeStep
<1> QED BY TypeInit, <1>1, PTL DEF Spec

-----------------------------------------------------------------------------
(***************************************************************************)
(* A recorded reason stands.  Verdict looks at the status before it looks  *)
(* at any reason, so what is needed is that a row which is continued for   *)
(* its status alone states a reason that says the same: then an error or a *)
(* solution on the other side diverges from it.                            *)
(***************************************************************************)

\* Without a mistaken mark, an interrupted row belongs to a process that ended
\* and says so, a paused row states the pause, and the loop has an active row.
RowSpeaks ==
  "misjudge" \notin faults =>
    /\ status = "interrompida" => pc = "over" /\ motivo = "interrompida"
    /\ status \in PausedStatuses => motivo \in PauseMotivos
    /\ pc = "executing" => status = "active"

ReasonInv == TypeOK /\ RowSpeaks

LEMMA ReasonInit == Init => ReasonInv
BY TypeInit DEF Init, ReasonInv, RowSpeaks, PausedStatuses

\* Every action keeps RowSpeaks.
LEMMA ReasonStep == ReasonInv /\ [Next]_vars => ReasonInv'
<1> SUFFICES ASSUME TypeOK, RowSpeaks, [Next]_vars PROVE RowSpeaks'
  BY TypeStep DEF ReasonInv
<1> USE DEF TypeOK, RowSpeaks, rowVars, localVars, termVars, PausedStatuses, PauseMotivos
<1>1. CASE LoopStep
  <2>1. CASE StartSubtask \/ RecordStop \/ Consolidate \/ SuspendSession \/ FinishLoop
    BY <2>1 DEF StartSubtask, RecordStop, Consolidate, SuspendSession, FinishLoop
  <2>2. ASSUME NEW r \in {"concluida", "falhou"}, FinishSubtask(r) PROVE RowSpeaks'
    BY <2>2 DEF FinishSubtask
  <2>3. ASSUME NEW m \in LoopMotivos, NEW owed \in BOOLEAN, CloseSession(m, owed)
        PROVE  RowSpeaks'
    BY <2>3 DEF CloseSession
  <2>4. ASSUME NEW m \in {"interrompida", "erro"}, Raise(m) PROVE RowSpeaks'
    BY <2>4 DEF Raise
  <2>5. CASE RecordRaise
    BY <2>5 DEF RecordRaise, Gone
  <2> QED BY <1>1, <2>1, <2>2, <2>3, <2>4, <2>5 DEF LoopStep
<1>2. CASE EndStep
  <2>1. ASSUME NEW final \in {"success", "failed"}, WriteFinal(final) PROVE RowSpeaks'
    BY <2>1 DEF WriteFinal
  <2>2. ASSUME NEW ok \in BOOLEAN, CloseCurator(ok) PROVE RowSpeaks'
    BY <2>2 DEF CloseCurator
  <2>3. CASE NameReason \/ RecordFinal
    BY <2>3 DEF NameReason, FinalReason, RecordFinal
  <2>4. CASE Leave
    BY <2>4 DEF Leave, Gone
  <2> QED BY <1>2, <2>1, <2>2, <2>3, <2>4 DEF EndStep
<1>3. CASE Crash \/ Reassert
  BY <1>3 DEF Crash, Gone, Reassert
<1>4. CASE SweepStep
  BY <1>4 DEF SweepStep, Mark, ReadForRecovery, WriteRecovery
<1>5. CASE ReadForClosing \/ ClosingStep \/ TerminalDies
  BY <1>5 DEF ReadForClosing, ClosingStep, CloseRow, CloseRefused, WriteClosing, TerminalDies,
              UnfinishedStatuses
<1>6. CASE UNCHANGED vars
  BY <1>6 DEF vars
<1> QED BY <1>1, <1>2, <1>3, <1>4, <1>5, <1>6 DEF Next

\* A reason that refuses, or asks, is not overruled by the status.
LEMMA ReasonDecides == ReasonInv => RecordedReasonStands
BY DEF ReasonInv, RowSpeaks, RecordedReasonStands, Decision, Verdict, Diverges,
       EffectiveMotivo, UnfinishedStatuses, PauseMotivos, MotivosRetomaveis, MotivosConfirmar,
       TypeOK, Checkpoint

\* Wherever the process dies, whatever a sweep writes afterwards and whichever
\* write of the checkpoint fails, an error stays refused and a solved research
\* is not continued without a question.
THEOREM ReasonStands == Spec => []RecordedReasonStands
<1>1. Spec => []ReasonInv
  BY ReasonInit, ReasonStep, PTL DEF Spec
<1> QED BY <1>1, ReasonDecides, PTL

-----------------------------------------------------------------------------
(***************************************************************************)
(* Nothing stays in flight.  A subtask is in flight on disk only while the *)
(* loop, or the stop it began, has it in memory; and, after a process that *)
(* died, until the sweep that marked the row writes back the very file it  *)
(* read.                                                                   *)
(***************************************************************************)

InFlight(cp) == cp.task = "em_andamento"

\* The subtask in flight that the process left, and the sweep that will find it.
LeftBehind ==
  /\ pc = "over" /\ "process" \in faults
  /\ \/ status = "active"
     \/ sweeper # Away /\ (sweeper.at = "read" => sweeper.copy = disk)

FlightsFollow ==
  OnlyMeets({"process"}) \/ OnlyMeets({"terminal", "misjudge"}) =>
    /\ pc \notin {"executing", "closing"} => ~InFlight(mem)
    /\ InFlight(disk) => (pc \in {"executing", "closing"} /\ InFlight(mem)) \/ LeftBehind
    /\ closer # Away =>
         ~InFlight(closer.copy) /\ sweeper = Away /\ pc = "over" /\ status # "active"
    /\ pc # "over" /\ "misjudge" \notin faults => sweeper = Away
    /\ sweeper # Away => pc # "over" \/ status # "active"
    /\ ending = "paused" => status \in PausedStatuses \/ pc = "over"

FlightsInv == ReasonInv /\ FlightsFollow

\* It holds when the session begins.
LEMMA FlightsFollowInit == Init => FlightsInv
BY ReasonInit DEF Init, FlightsInv, FlightsFollow, InFlight, FirstCheckpoint, Away

\* Every action keeps it.
LEMMA FlightsFollowStep == FlightsInv /\ [Next]_vars => FlightsInv'
<1> SUFFICES ASSUME TypeOK, TypeOK', RowSpeaks, FlightsFollow, [Next]_vars PROVE FlightsFollow'
  BY TypeStep, ReasonStep DEF FlightsInv, ReasonInv
<1> USE DEF TypeOK, FlightsFollow, OnlyMeets, rowVars, localVars, termVars, Away, InFlight,
            LeftBehind, Checkpoint, RowSpeaks, UnfinishedStatuses, PausedStatuses,
            FinishedStatuses, PauseMotivos
<1>1. CASE LoopStep
  <2>1. CASE StartSubtask
    BY <2>1 DEF StartSubtask, Record, WithTask
  <2>2. ASSUME NEW r \in {"concluida", "falhou"}, FinishSubtask(r) PROVE FlightsFollow'
    BY <2>2 DEF FinishSubtask, Record, WithTask
  <2>3. ASSUME NEW m \in LoopMotivos, NEW owed \in BOOLEAN, CloseSession(m, owed)
        PROVE  FlightsFollow'
    BY <2>3 DEF CloseSession, LoopMotivos
  <2>4. CASE RecordStop
    BY <2>4 DEF RecordStop, Record, Closed, Settled
  <2>5. CASE Consolidate \/ SuspendSession \/ FinishLoop
    BY <2>5 DEF Consolidate, SuspendSession, FinishLoop
  <2>6. ASSUME NEW m \in {"interrompida", "erro"}, Raise(m) PROVE FlightsFollow'
    BY <2>6 DEF Raise, Record, Closed, Settled
  <2>7. CASE RecordRaise
    BY <2>7 DEF RecordRaise, Gone, FirstCheckpoint
  <2> QED BY <1>1, <2>1, <2>2, <2>3, <2>4, <2>5, <2>6, <2>7 DEF LoopStep
<1>2. CASE EndStep
  <2>1. ASSUME NEW final \in {"success", "failed"}, WriteFinal(final) PROVE FlightsFollow'
    BY <2>1 DEF WriteFinal
  <2>2. ASSUME NEW ok \in BOOLEAN, CloseCurator(ok) PROVE FlightsFollow'
    BY <2>2 DEF CloseCurator
  <2>3. CASE NameReason
    BY <2>3 DEF NameReason, FinalReason
  <2>4. CASE RecordFinal
    BY <2>4 DEF RecordFinal, Record, Closed, Settled
  <2>5. CASE Leave
    BY <2>5 DEF Leave, Gone, FirstCheckpoint
  <2> QED BY <1>2, <2>1, <2>2, <2>3, <2>4, <2>5 DEF EndStep
<1>3. CASE Crash \/ Reassert
  <2>1. CASE Crash
    BY <2>1 DEF Crash, Gone, FirstCheckpoint
  <2>2. CASE Reassert
    BY <2>2 DEF Reassert
  <2> QED BY <1>3, <2>1, <2>2
<1>4. CASE SweepStep
  <2>1. CASE Mark \/ ReadForRecovery
    BY <2>1 DEF Mark, ReadForRecovery
  <2>2. CASE WriteRecovery
    BY <2>2 DEF WriteRecovery, Recovered, Stopped, Failed, WithTask, Holding
  <2> QED BY <1>4, <2>1, <2>2 DEF SweepStep
<1>5. CASE ReadForClosing \/ ClosingStep
  BY <1>5 DEF ReadForClosing, ClosingStep, CloseRow, CloseRefused, WriteClosing, Holding
<1>6. CASE TerminalDies
  BY <1>6 DEF TerminalDies
<1>7. CASE UNCHANGED vars
  BY <1>7 DEF vars
<1> QED BY <1>1, <1>2, <1>3, <1>4, <1>5, <1>6, <1>7 DEF Next

\* It says what the property promises.
LEMMA FlightsFollowEnough == FlightsInv => FlightsSettle
BY DEF FlightsInv, FlightsSettle, OnlyMeets, FlightsFollow, ReasonInv, RowSpeaks, TypeOK,
       Quiet, InFlight, LeftBehind, NothingInFlight, Away

\* Once a session is stopped and swept, no subtask of its checkpoint is in flight:
\* neither the process, if the loop dies, nor the terminal that recovers a session
\* marked by mistake, if it dies, leaves one (mark_checkpoint_interrupted, close).
THEOREM FlightsSettled == Spec => []FlightsSettle
<1>1. Spec => []FlightsInv
  BY FlightsFollowInit, FlightsFollowStep, PTL DEF Spec
<1> QED BY <1>1, FlightsFollowEnough, PTL

-----------------------------------------------------------------------------
(***************************************************************************)
(* What was interrupted, or stopped by a limit, resumes.  The checkpoint   *)
(* states no reason until the row does, or the same; a row that is         *)
(* interrompida belongs to a process that stated no other reason; and a    *)
(* limit in the row is beyond the reach of sweeps and researchers.         *)
(***************************************************************************)

\* Who touches the row, and when.
ActorsWait ==
  /\ pc # "over" => sweeper = Away
  /\ pc \in {"executing", "failing"} \/ (pc \in {"closing", "consolidating"} /\ ~pending)
       => status = "active"
  /\ ending = "paused" => status \in PausedStatuses \union FinishedStatuses \/ pc = "over"
  /\ sweeper # Away \/ closer # Away => status # "active"
  /\ closer.at = "decided" => status \in FinishedStatuses /\ motivo = "encerrada_pesquisador"

LimitStands ==
  motivo = "limite" =>
    /\ sweeper = Away /\ closer = Away /\ status \notin UnfinishedStatuses
    /\ pc = "over" => status # "active"
    /\ pc \in {"closing", "recording"} => reason = "limite"
    /\ pc \notin {"closing", "failing"} => disk.motivo = "limite"

StopSpeaks ==
  OnlyMeets({"process", "terminal", "overlap"}) =>
    /\ ActorsWait /\ LimitStands
    /\ pc = "executing" => disk.motivo = "nil" /\ mem.motivo = "nil" /\ motivo = "nil"
    /\ pc = "failing" => reason \in {"interrompida", "erro"} /\ disk.motivo = reason
    /\ pc = "over" /\ status \in {"active", "interrompida"} =>
         /\ disk.motivo \in {"nil", "interrompida"}
         /\ sweeper.at = "read" => sweeper.copy.motivo \in {"nil", "interrompida"}

StopInv == ReasonInv /\ StopSpeaks

\* It holds when the session begins.
LEMMA StopSpeaksInit == Init => StopInv
BY ReasonInit DEF Init, StopInv, StopSpeaks, ActorsWait, LimitStands, FirstCheckpoint, Away

\* Every action keeps it.
LEMMA StopSpeaksStep == StopInv /\ [Next]_vars => StopInv'
<1> SUFFICES ASSUME TypeOK, TypeOK', RowSpeaks, StopSpeaks, [Next]_vars PROVE StopSpeaks'
  BY TypeStep, ReasonStep DEF StopInv, ReasonInv
<1> USE DEF TypeOK, StopSpeaks, OnlyMeets, rowVars, localVars, termVars, Away, ActorsWait,
            LimitStands, Checkpoint, RowSpeaks, UnfinishedStatuses, PausedStatuses,
            FinishedStatuses, PauseMotivos
<1>1. CASE LoopStep
  <2>1. CASE StartSubtask
    BY <2>1 DEF StartSubtask, Record, WithTask
  <2>2. ASSUME NEW r \in {"concluida", "falhou"}, FinishSubtask(r) PROVE StopSpeaks'
    BY <2>2 DEF FinishSubtask, Record, WithTask
  <2>3. ASSUME NEW m \in LoopMotivos, NEW owed \in BOOLEAN, CloseSession(m, owed)
        PROVE  StopSpeaks'
    BY <2>3 DEF CloseSession, LoopMotivos
  <2>4. CASE RecordStop
    BY <2>4 DEF RecordStop, Record, Closed, Settled
  <2>5. CASE Consolidate \/ SuspendSession \/ FinishLoop
    BY <2>5 DEF Consolidate, SuspendSession, FinishLoop
  <2>6. ASSUME NEW m \in {"interrompida", "erro"}, Raise(m) PROVE StopSpeaks'
    BY <2>6 DEF Raise, Record, Closed, Settled
  <2>7. CASE RecordRaise
    BY <2>7 DEF RecordRaise, Gone, FirstCheckpoint
  <2> QED BY <1>1, <2>1, <2>2, <2>3, <2>4, <2>5, <2>6, <2>7 DEF LoopStep
<1>2. CASE EndStep
  <2>1. ASSUME NEW final \in {"success", "failed"}, WriteFinal(final) PROVE StopSpeaks'
    BY <2>1 DEF WriteFinal
  <2>2. ASSUME NEW ok \in BOOLEAN, CloseCurator(ok) PROVE StopSpeaks'
    BY <2>2 DEF CloseCurator
  <2>3. CASE NameReason
    BY <2>3 DEF NameReason, FinalReason
  <2>4. CASE RecordFinal
    BY <2>4 DEF RecordFinal, Record, Closed, Settled
  <2>5. CASE Leave
    BY <2>5 DEF Leave, Gone, FirstCheckpoint
  <2> QED BY <1>2, <2>1, <2>2, <2>3, <2>4, <2>5 DEF EndStep
<1>3. CASE Crash \/ Reassert
  <2>1. CASE Crash
    BY <2>1 DEF Crash, Gone, FirstCheckpoint
  <2>2. CASE Reassert
    BY <2>2 DEF Reassert
  <2> QED BY <1>3, <2>1, <2>2
<1>4. CASE SweepStep
  <2>1. CASE Mark \/ ReadForRecovery
    BY <2>1 DEF Mark, ReadForRecovery
  <2>2. CASE WriteRecovery
    BY <2>2 DEF WriteRecovery, Recovered, Stopped, Failed, WithTask, Holding
  <2> QED BY <1>4, <2>1, <2>2 DEF SweepStep
<1>5. CASE ReadForClosing \/ ClosingStep
  BY <1>5 DEF ReadForClosing, ClosingStep, CloseRow, CloseRefused, WriteClosing, Holding
<1>6. CASE TerminalDies
  BY <1>6 DEF TerminalDies
<1>7. CASE UNCHANGED vars
  BY <1>7 DEF vars
<1> QED BY <1>1, <1>2, <1>3, <1>4, <1>5, <1>6, <1>7 DEF Next

\* It says what the property promises.
LEMMA StopSpeaksEnough == StopInv => InterruptedResumes
BY DEF StopInv, InterruptedResumes, OnlyMeets, StopSpeaks, ReasonInv, RowSpeaks, TypeOK,
       Quiet, InterruptedIsResumable, ActorsWait, LimitStands, Decision, Verdict, Diverges,
       EffectiveMotivo, UnfinishedStatuses, PausedStatuses, FinishedStatuses,
       MotivosRetomaveis, MotivosConfirmar, PauseMotivos, Checkpoint

\* A session that was interrupted, or stopped by a limit, is continued without a
\* question as long as its process dies in the loop and not in its closing and its
\* checkpoint is written (evaluate_resumability, "Retomaveis").
THEOREM InterruptedContinues == Spec => []InterruptedResumes
<1>1. Spec => []StopInv
  BY StopSpeaksInit, StopSpeaksStep, PTL DEF Spec
<1> QED BY <1>1, StopSpeaksEnough, PTL

-----------------------------------------------------------------------------
(***************************************************************************)
(* What the researcher closed asks.  His closing is alone with the row and *)
(* the file, and nobody else states his reason.                            *)
(***************************************************************************)

ClosingAgrees ==
  OnlyMeets({"process", "closing", "recorder", "misjudge"}) =>
    /\ closer # Away => pc = "over" /\ sweeper = Away /\ status # "active"
    /\ reason # "encerrada_pesquisador"
    /\ motivo = "encerrada_pesquisador" =>
         /\ pc = "over" /\ status = "closed" /\ sweeper = Away
         /\ \/ closer.at = "decided"
            \/ closer = Away /\ disk.motivo = "encerrada_pesquisador"

ClosingInv == ReasonInv /\ ClosingAgrees

\* It holds when the session begins.
LEMMA ClosingAgreesInit == Init => ClosingInv
BY ReasonInit DEF Init, ClosingInv, ClosingAgrees, Away

\* Every action keeps it.
LEMMA ClosingAgreesStep == ClosingInv /\ [Next]_vars => ClosingInv'
<1> SUFFICES ASSUME TypeOK, TypeOK', RowSpeaks, ClosingAgrees, [Next]_vars PROVE ClosingAgrees'
  BY TypeStep, ReasonStep DEF ClosingInv, ReasonInv
<1> USE DEF TypeOK, ClosingAgrees, OnlyMeets, rowVars, localVars, termVars, Away,
            Checkpoint, RowSpeaks, UnfinishedStatuses, PausedStatuses, FinishedStatuses,
            PauseMotivos
<1>1. CASE LoopStep
  <2>1. CASE StartSubtask
    BY <2>1 DEF StartSubtask, Record, WithTask
  <2>2. ASSUME NEW r \in {"concluida", "falhou"}, FinishSubtask(r) PROVE ClosingAgrees'
    BY <2>2 DEF FinishSubtask, Record, WithTask
  <2>3. ASSUME NEW m \in LoopMotivos, NEW owed \in BOOLEAN, CloseSession(m, owed)
        PROVE  ClosingAgrees'
    BY <2>3 DEF CloseSession, LoopMotivos
  <2>4. CASE RecordStop
    BY <2>4 DEF RecordStop, Record, Closed, Settled
  <2>5. CASE Consolidate \/ SuspendSession \/ FinishLoop
    BY <2>5 DEF Consolidate, SuspendSession, FinishLoop
  <2>6. ASSUME NEW m \in {"interrompida", "erro"}, Raise(m) PROVE ClosingAgrees'
    BY <2>6 DEF Raise, Record, Closed, Settled
  <2>7. CASE RecordRaise
    BY <2>7 DEF RecordRaise, Gone, FirstCheckpoint
  <2> QED BY <1>1, <2>1, <2>2, <2>3, <2>4, <2>5, <2>6, <2>7 DEF LoopStep
<1>2. CASE EndStep
  <2>1. ASSUME NEW final \in {"success", "failed"}, WriteFinal(final) PROVE ClosingAgrees'
    BY <2>1 DEF WriteFinal
  <2>2. ASSUME NEW ok \in BOOLEAN, CloseCurator(ok) PROVE ClosingAgrees'
    BY <2>2 DEF CloseCurator
  <2>3. CASE NameReason
    BY <2>3 DEF NameReason, FinalReason
  <2>4. CASE RecordFinal
    BY <2>4 DEF RecordFinal, Record, Closed, Settled
  <2>5. CASE Leave
    BY <2>5 DEF Leave, Gone, FirstCheckpoint
  <2> QED BY <1>2, <2>1, <2>2, <2>3, <2>4, <2>5 DEF EndStep
<1>3. CASE Crash \/ Reassert
  <2>1. CASE Crash
    BY <2>1 DEF Crash, Gone, FirstCheckpoint
  <2>2. CASE Reassert
    BY <2>2 DEF Reassert
  <2> QED BY <1>3, <2>1, <2>2
<1>4. CASE SweepStep
  <2>1. CASE Mark \/ ReadForRecovery
    BY <2>1 DEF Mark, ReadForRecovery
  <2>2. CASE WriteRecovery
    BY <2>2 DEF WriteRecovery, Recovered, Stopped, Failed, WithTask, Holding
  <2> QED BY <1>4, <2>1, <2>2 DEF SweepStep
<1>5. CASE ReadForClosing \/ ClosingStep
  BY <1>5 DEF ReadForClosing, ClosingStep, CloseRow, CloseRefused, WriteClosing, Holding
<1>6. CASE TerminalDies
  BY <1>6 DEF TerminalDies
<1>7. CASE UNCHANGED vars
  BY <1>7 DEF vars
<1> QED BY <1>1, <1>2, <1>3, <1>4, <1>5, <1>6, <1>7 DEF Next

\* It says what the property promises.
LEMMA ClosingAgreesEnough == ClosingInv => ClosedAsks
BY DEF ClosingInv, ClosedAsks, OnlyMeets, ClosingAgrees, ReasonInv, RowSpeaks, TypeOK,
       Quiet, Decision, Verdict, Diverges, EffectiveMotivo, UnfinishedStatuses,
       PausedStatuses, FinishedStatuses, MotivosRetomaveis, MotivosConfirmar, PauseMotivos,
       Checkpoint, Away

\* A session the researcher closed is not continued without a question, wherever its
\* process died and whichever of its own writes failed (close_by_researcher).
THEOREM ClosedIsAsked == Spec => []ClosedAsks
<1>1. Spec => []ClosingInv
  BY ClosingAgreesInit, ClosingAgreesStep, PTL DEF Spec
<1> QED BY <1>1, ClosingAgreesEnough, PTL

-----------------------------------------------------------------------------
(***************************************************************************)
(* What was not consolidated is owed.  A checkpoint that still says        *)
(* em_execucao becomes owed when a sweep or a closing writes it back; one  *)
(* that does not, and is not owed, has nothing in flight, so that no       *)
(* recovery writes it over one that is.                                    *)
(***************************************************************************)

\* A recovery of cp writes what is owed, or writes nothing.
OwedOnRecovery(cp) == cp.estado # "em_execucao" => cp.curator \/ ~InFlight(cp)

\* The process died in the loop; the sweep that will state the debt is to come.
DebtToCome ==
  /\ "process" \in faults /\ disk.estado = "em_execucao"
  /\ \/ status = "active" /\ sweeper = Away /\ closer = Away
     \/ sweeper.at = "marked"
     \/ sweeper.at = "read" /\ sweeper.copy.estado = "em_execucao"

DebtFollows ==
  OnlyMeets({"process", "overlap"}) \/ OnlyMeets({"terminal", "overlap", "misjudge"}) =>
    /\ OwedOnRecovery(disk) /\ OwedOnRecovery(mem)
    /\ sweeper.at = "read" => OwedOnRecovery(sweeper.copy)
    /\ pc = "executing" =>
         /\ mem.estado = "em_execucao"
         /\ "process" \in faults =>
              disk.estado = "em_execucao" /\ sweeper = Away /\ closer = Away
    /\ pc = "failing" => mem.curator /\ disk.curator
    /\ pc \in {"finalizing", "recording"} => pending = ~consolidated
    /\ pc = "leaving" => consolidated \/ disk.curator
    /\ pc = "over" => consolidated \/ disk.curator \/ DebtToCome

DebtInv == ReasonInv /\ DebtFollows

\* It holds when the session begins.
LEMMA DebtFollowsInit == Init => DebtInv
BY ReasonInit DEF Init, DebtInv, DebtFollows, OwedOnRecovery, FirstCheckpoint, InFlight, Away

\* Every action keeps it.
LEMMA DebtFollowsStep == DebtInv /\ [Next]_vars => DebtInv'
<1> SUFFICES ASSUME TypeOK, TypeOK', RowSpeaks, DebtFollows, [Next]_vars PROVE DebtFollows'
  BY TypeStep, ReasonStep DEF DebtInv, ReasonInv
<1> USE DEF TypeOK, DebtFollows, OnlyMeets, rowVars, localVars, termVars, Away, InFlight,
            OwedOnRecovery, DebtToCome, Checkpoint, RowSpeaks, UnfinishedStatuses,
            PausedStatuses, FinishedStatuses, PauseMotivos
<1>1. CASE LoopStep
  <2>1. CASE StartSubtask
    BY <2>1 DEF StartSubtask, Record, WithTask
  <2>2. ASSUME NEW r \in {"concluida", "falhou"}, FinishSubtask(r) PROVE DebtFollows'
    BY <2>2 DEF FinishSubtask, Record, WithTask
  <2>3. ASSUME NEW m \in LoopMotivos, NEW owed \in BOOLEAN, CloseSession(m, owed)
        PROVE  DebtFollows'
    BY <2>3 DEF CloseSession, LoopMotivos
  <2>4. CASE RecordStop
    BY <2>4 DEF RecordStop, Record, Closed, Settled
  <2>5. CASE Consolidate \/ SuspendSession \/ FinishLoop
    BY <2>5 DEF Consolidate, SuspendSession, FinishLoop
  <2>6. ASSUME NEW m \in {"interrompida", "erro"}, Raise(m) PROVE DebtFollows'
    BY <2>6 DEF Raise, Record, Closed, Settled
  <2>7. CASE RecordRaise
    BY <2>7 DEF RecordRaise, Gone, FirstCheckpoint
  <2> QED BY <1>1, <2>1, <2>2, <2>3, <2>4, <2>5, <2>6, <2>7 DEF LoopStep
<1>2. CASE EndStep
  <2>1. ASSUME NEW final \in {"success", "failed"}, WriteFinal(final) PROVE DebtFollows'
    BY <2>1 DEF WriteFinal
  <2>2. ASSUME NEW ok \in BOOLEAN, CloseCurator(ok) PROVE DebtFollows'
    BY <2>2 DEF CloseCurator
  <2>3. CASE NameReason
    BY <2>3 DEF NameReason, FinalReason
  <2>4. CASE RecordFinal
    BY <2>4 DEF RecordFinal, Record, Closed, Settled
  <2>5. CASE Leave
    BY <2>5 DEF Leave, Gone, FirstCheckpoint
  <2> QED BY <1>2, <2>1, <2>2, <2>3, <2>4, <2>5 DEF EndStep
<1>3. CASE Crash \/ Reassert
  <2>1. CASE Crash
    BY <2>1 DEF Crash, Gone, FirstCheckpoint
  <2>2. CASE Reassert
    BY <2>2 DEF Reassert
  <2> QED BY <1>3, <2>1, <2>2
<1>4. CASE SweepStep
  <2>1. CASE Mark \/ ReadForRecovery
    BY <2>1 DEF Mark, ReadForRecovery
  <2>2. CASE WriteRecovery
    BY <2>2 DEF WriteRecovery, Recovered, Stopped, Failed, WithTask, Holding
  <2> QED BY <1>4, <2>1, <2>2 DEF SweepStep
<1>5. CASE ReadForClosing \/ ClosingStep
  BY <1>5 DEF ReadForClosing, ClosingStep, CloseRow, CloseRefused, WriteClosing, Holding
<1>6. CASE TerminalDies
  BY <1>6 DEF TerminalDies
<1>7. CASE UNCHANGED vars
  BY <1>7 DEF vars
<1> QED BY <1>1, <1>2, <1>3, <1>4, <1>5, <1>6, <1>7 DEF Next

\* It says what the property promises.
LEMMA DebtFollowsEnough == DebtInv => ConsolidationOwed
BY DEF DebtInv, ConsolidationOwed, OnlyMeets, DebtFollows, ReasonInv, RowSpeaks, TypeOK,
       Quiet, DebtToCome, OwedOnRecovery, Away

\* What the Curator has not consolidated is owed in the checkpoint of a session that
\* is stopped and swept, whoever stopped it (mark_checkpoint_interrupted, close,
\* close_by_researcher).
THEOREM NothingForgotten == Spec => []ConsolidationOwed
<1>1. Spec => []DebtInv
  BY DebtFollowsInit, DebtFollowsStep, PTL DEF Spec
<1> QED BY <1>1, DebtFollowsEnough, PTL
-----------------------------------------------------------------------------
(***************************************************************************)
(* Why a session stops for good.  StopsForGood needs fairness and is left  *)
(* to TLC; what it rests on is proved: a session whose process is gone is  *)
(* at rest, or a terminal has yet to mark its row or to write the file it  *)
(* marked it for; and a session at rest stays so.                          *)
(***************************************************************************)

\* Row and checkpoint are both closed.
AtRest == status # "active" /\ disk.estado # "em_execucao"

\* A sweep will find the row, or one that found it has yet to write the file.
SweepToCome ==
  \/ status = "active"
  \/ sweeper.at = "marked"
  \/ sweeper.at = "read" /\ sweeper.copy.estado = "em_execucao"

\* No session whose process is gone is half stopped and forgotten.
NoneIsForgotten ==
  OnlyMeets({"process", "overlap"}) \/ OnlyMeets({"terminal", "overlap", "misjudge"}) =>
    (pc = "over" => AtRest \/ SweepToCome)

\* Nothing opens again what is closed, once the process is gone.
RestLasts == [][pc = "over" /\ AtRest => pc' = "over" /\ AtRest']_vars

RestFollows ==
  /\ "recorder" \notin faults /\ pc \in {"failing", "leaving"} => disk.estado # "em_execucao"
  /\ pc \in {"curating", "finalizing", "recording", "leaving"} => status # "active"
  /\ OnlyMeets({"process", "overlap"}) => (pc = "over" => AtRest \/ SweepToCome)
  /\ OnlyMeets({"terminal", "overlap", "misjudge"}) => (pc = "over" => AtRest)

RestInv == ReasonInv /\ RestFollows

\* It holds when the session begins.
LEMMA RestFollowsInit == Init => RestInv
BY ReasonInit DEF Init, RestInv, RestFollows

\* Every action keeps it.
LEMMA RestFollowsStep == RestInv /\ [Next]_vars => RestInv'
<1> SUFFICES ASSUME TypeOK, TypeOK', RowSpeaks, RestFollows, [Next]_vars PROVE RestFollows'
  BY TypeStep, ReasonStep DEF RestInv, ReasonInv
<1> USE DEF TypeOK, RestFollows, AtRest, SweepToCome, OnlyMeets, rowVars, localVars, termVars, Away,
            Checkpoint, RowSpeaks, UnfinishedStatuses, PausedStatuses, FinishedStatuses
<1>1. CASE LoopStep
  <2>1. CASE StartSubtask
    BY <2>1 DEF StartSubtask, Record, WithTask
  <2>2. ASSUME NEW r \in {"concluida", "falhou"}, FinishSubtask(r) PROVE RestFollows'
    BY <2>2 DEF FinishSubtask, Record, WithTask
  <2>3. ASSUME NEW m \in LoopMotivos, NEW owed \in BOOLEAN, CloseSession(m, owed)
        PROVE  RestFollows'
    BY <2>3 DEF CloseSession, LoopMotivos
  <2>4. CASE RecordStop
    BY <2>4 DEF RecordStop, Record, Closed, Settled
  <2>5. CASE Consolidate \/ SuspendSession \/ FinishLoop
    BY <2>5 DEF Consolidate, SuspendSession, FinishLoop
  <2>6. ASSUME NEW m \in {"interrompida", "erro"}, Raise(m) PROVE RestFollows'
    BY <2>6 DEF Raise, Record, Closed, Settled
  <2>7. CASE RecordRaise
    BY <2>7 DEF RecordRaise, Gone, FirstCheckpoint
  <2> QED BY <1>1, <2>1, <2>2, <2>3, <2>4, <2>5, <2>6, <2>7 DEF LoopStep
<1>2. CASE EndStep
  <2>1. ASSUME NEW final \in {"success", "failed"}, WriteFinal(final) PROVE RestFollows'
    BY <2>1 DEF WriteFinal
  <2>2. ASSUME NEW ok \in BOOLEAN, CloseCurator(ok) PROVE RestFollows'
    BY <2>2 DEF CloseCurator
  <2>3. CASE NameReason
    BY <2>3 DEF NameReason, FinalReason
  <2>4. CASE RecordFinal
    BY <2>4 DEF RecordFinal, Record, Closed, Settled
  <2>5. CASE Leave
    BY <2>5 DEF Leave, Gone, FirstCheckpoint
  <2> QED BY <1>2, <2>1, <2>2, <2>3, <2>4, <2>5 DEF EndStep
<1>3. CASE Crash \/ Reassert
  <2>1. CASE Crash
    BY <2>1 DEF Crash, Gone, FirstCheckpoint
  <2>2. CASE Reassert
    BY <2>2 DEF Reassert
  <2> QED BY <1>3, <2>1, <2>2
<1>4. CASE SweepStep
  <2>1. CASE Mark \/ ReadForRecovery
    BY <2>1 DEF Mark, ReadForRecovery
  <2>2. CASE WriteRecovery
    BY <2>2 DEF WriteRecovery, Recovered, Stopped, Failed, WithTask, Holding
  <2> QED BY <1>4, <2>1, <2>2 DEF SweepStep
<1>5. CASE ReadForClosing \/ ClosingStep
  BY <1>5 DEF ReadForClosing, ClosingStep, CloseRow, CloseRefused, WriteClosing, Holding
<1>6. CASE TerminalDies
  BY <1>6 DEF TerminalDies
<1>7. CASE UNCHANGED vars
  BY <1>7 DEF vars
<1> QED BY <1>1, <1>2, <1>3, <1>4, <1>5, <1>6, <1>7 DEF Next

\* Whoever dies, the process in its loop or the terminal of a mistaken mark, a session
\* that is half stopped has a sweep to come (SessionWatch.sweep).
THEOREM HalfStoppedIsSwept == Spec => []NoneIsForgotten
<1>1. Spec => []RestInv
  BY RestFollowsInit, RestFollowsStep, PTL DEF Spec
<1>2. RestInv => NoneIsForgotten
  BY DEF RestInv, RestFollows, NoneIsForgotten
<1> QED BY <1>1, <1>2, PTL

\* What is at rest stays so under every fault: a late recovery, or a researcher who
\* writes back a copy from before, never opens the checkpoint again.
THEOREM RestIsLasting == Spec => RestLasts
<1>1. ASSUME TypeOK, [Next]_vars, pc = "over", AtRest PROVE pc' = "over" /\ AtRest'
  <2> USE <1>1 DEF AtRest, rowVars, localVars, termVars
  <2>1. ~LoopStep /\ ~EndStep /\ ~Crash /\ ~Reassert
    BY DEF LoopStep, StartSubtask, FinishSubtask, CloseSession, RecordStop, Consolidate,
           SuspendSession, FinishLoop, Raise, RecordRaise, EndStep, WriteFinal, CloseCurator,
           NameReason, RecordFinal, Leave, Crash, Reassert
  <2>2. CASE Mark \/ ReadForRecovery
    BY <2>2 DEF Mark, ReadForRecovery
  <2>3. CASE WriteRecovery
    BY <2>3 DEF WriteRecovery, Recovered, Stopped, Failed, WithTask
  <2>4. CASE ReadForClosing \/ ClosingStep
    BY <2>4 DEF ReadForClosing, ClosingStep, CloseRow, CloseRefused, WriteClosing
  <2>5. CASE TerminalDies \/ UNCHANGED vars
    BY <2>5 DEF TerminalDies, vars
  <2> QED BY <1>1, <2>1, <2>2, <2>3, <2>4, <2>5 DEF Next, SweepStep
<1>2. TypeOK /\ [Next]_vars => (pc = "over" /\ AtRest => pc' = "over" /\ AtRest')
  BY <1>1
<1> QED BY <1>2, TypeCorrect, PTL DEF Spec, RestLasts
=============================================================================
