---------------------------- MODULE ResearchChain ----------------------------
(***************************************************************************)
(* The chain of sessions that carries one research forward.                *)
(*                                                                         *)
(* Every research session of GeminiClaw is an operating-system process of  *)
(* its own and a row of agent_sessions.  When a session stops before its   *)
(* research is over, a later session continues it: it reads the row and    *)
(* the checkpoint of its source (prepare_resume), inserts its own row, and *)
(* claims the source with a compare-and-set of payload.continued_by.  A    *)
(* heartbeat thread keeps the row of a running session fresh; terminals    *)
(* sweep the table, mark interrompida the rows whose process is gone or    *)
(* silent, and then repair their checkpoints.  All of them write the same  *)
(* rows, each statement on its own, and the reason of a stop is kept       *)
(* twice, in the row and in the checkpoint: a source whose two reasons     *)
(* diverge is refused.                                                     *)
(*                                                                         *)
(* One action is one database statement (or one checkpoint write) of one   *)
(* actor, with the local steps that follow it up to the next one.  The     *)
(* stop of a session is many: the reason in the row, the reason in the     *)
(* checkpoint, the final status, the reason named at last, the checkpoint  *)
(* again and the closed row; the process may die between any two.          *)
(*                                                                         *)
(* The environment has four switches.                                      *)
(***************************************************************************)
EXTENDS SessionStates

CONSTANTS
  Session,        \* the identifiers sessions may take
  NoSession,      \* "no continued_by key", "no source", "no expectation"
  StopMotivos,    \* the reasons a loop may stop for, of those it can record
  MisjudgesLive,  \* may a process that is alive exceed the thresholds and be judged stopped?
  RacyUpdates,    \* may another writer come inside a pair of steps the code takes for one (a
                  \* get and its update; the reason in the row and in the checkpoint), or a
                  \* terminal leave its closing half done?
  WritesFail,     \* may a write of the checkpoint fail inside the recorder, which goes on?
  TakesUpPassed   \* may a resumption take up a session that an earlier one passed over, as
                  \* having left nothing to continue?

ASSUME NoSessionAssumption == NoSession \notin Session
ASSUME StopMotivosAssumption ==
  StopMotivos \subseteq PauseMotivos \union {"limite", "solucao_encontrada", "erro", "nil"}
ASSUME EnvironmentAssumption ==
  {MisjudgesLive, RacyUpdates, WritesFail, TakesUpPassed} \subseteq BOOLEAN

VARIABLES
  status,    \* agent_sessions.status, "absent" while there is no row
  motivo,    \* payload.motivo_parada
  claim,     \* payload.continued_by
  alias,     \* agent_sessions.alias: the first session of the chain names it
  ckpt,      \* motivo_parada of outputs/<session>/checkpoint.json (or its .bak):
             \* "nil" while em_execucao, "absent" if there is no readable file
  pc,        \* where the session's process is
  source,    \* ResumeState.source_session_id: the session it continues
  expect,    \* ResumeState.stale_claim: the failed claim it means to replace
  snap,      \* the row a get returned, while its update is still to come
  reason,    \* the reason the process is recording
  ends,      \* final_status, or "paused": what the request decided on the row
  seen,      \* some sweep holds this row's current updated_at and judged it stopped
  owed       \* what some terminal still has to write in the checkpoint

rowVars   == <<status, motivo, claim, alias>>
linkVars  == <<source, expect>>
localVars == <<snap, reason, ends>>
procVars  == <<pc, linkVars, localVars>>
termVars  == <<seen, owed>>
vars == <<status, motivo, claim, alias, ckpt, pc, source, expect, snap, reason, ends, seen, owed>>

(***************************************************************************)
(* pc:  idle      not launched                                             *)
(*      prepared  prepare_resume accepted the source                       *)
(*      created   the row exists, the source is not claimed yet            *)
(*      admitted  may execute: a new research, or the claim was won        *)
(*      opening   recorder started, inputs being loaded, no heartbeat yet  *)
(*      running   heartbeat on, the loop executes                          *)
(*      closing   the stop is in the row, not yet in the checkpoint        *)
(*      stopped   the stop is recorded, the loop still has to return       *)
(*      returned  the loop returned, the heartbeat is off                  *)
(*      failing   the loop raised: checkpoint closed, row not              *)
(*      ending    final status written, the Curator closes                 *)
(*      recording the final reason is in the row, the checkpoint follows   *)
(*      leaving   checkpoint final, the row may still be closed            *)
(*      releasing the session failed, its claim is still to be released    *)
(*      lost      the heartbeat thread found the session continued by      *)
(*                another one                                              *)
(*      over      no process                                               *)
(***************************************************************************)
Executing == {"admitted", "opening", "running"}
Beating   == {"running", "closing", "stopped"}
Updating  == {"running", "stopped", "returned", "failing", "ending", "leaving"}
PC == {"idle", "prepared", "created", "returned", "failing", "ending", "recording",
       "leaving", "releasing", "lost", "over"} \union Executing \union Beating

Snapshot   == [status : RowStatuses, motivo : Motivos,
               claim : Session \union {NoSession}]
NoSnapshot == [status |-> "none"]

\* Every variable has its type, and a row read for a later update is only held
\* by a process that still exists to write it (manager.py update, orchestrator).
TypeOK ==
  /\ status \in [Session -> RowStatuses \union {"absent"}]
  /\ motivo \in [Session -> Motivos]
  /\ claim \in [Session -> Session \union {NoSession}]
  /\ alias \in [Session -> Session \union {NoSession}]
  /\ ckpt \in [Session -> Motivos \union {"absent"}]
  /\ pc \in [Session -> PC]
  /\ source \in [Session -> Session \union {NoSession}]
  /\ expect \in [Session -> Session \union {NoSession}]
  /\ snap \in [Session -> Snapshot \union {NoSnapshot}]
  /\ reason \in [Session -> Motivos]
  /\ ends \in [Session -> {"none", "success", "failed", "paused"}]
  /\ seen \in [Session -> BOOLEAN]
  /\ owed \in [Session -> SUBSET {"recovery", "closing"}]
  /\ \A n \in Session : snap[n] # NoSnapshot => pc[n] \in Updating \union {"lost"}

Init ==
  /\ status = [s \in Session |-> "absent"]
  /\ motivo = [s \in Session |-> "nil"]
  /\ claim = [s \in Session |-> NoSession]
  /\ alias = [s \in Session |-> NoSession]
  /\ ckpt = [s \in Session |-> "absent"]
  /\ pc = [s \in Session |-> "idle"]
  /\ source = [s \in Session |-> NoSession]
  /\ expect = [s \in Session |-> NoSession]
  /\ snap = [s \in Session |-> NoSnapshot]
  /\ reason = [s \in Session |-> "nil"]
  /\ ends = [s \in Session |-> "none"]
  /\ seen = [s \in Session |-> FALSE]
  /\ owed = [s \in Session |-> {}]

-----------------------------------------------------------------------------
(***************************************************************************)
(* Reading the table                                                       *)
(***************************************************************************)

\* Live(n): the process of n may carry the research on (it holds the right to).
Live(n) == pc[n] \in Executing

HasCkpt(s) == ckpt[s] # "absent"

\* The row of s, with its checkpoint, can be continued from (the confirmation
\* that a solved or closed research asks for was given in the terminal).
Resumable(s) == HasCkpt(s) /\ Verdict(status[s], motivo[s], ckpt[s]) # "recusar"

\* _check_previous_claim: the session that claimed s left nothing to continue.
ClaimIsStale_MissingOnly(s) ==
  /\ claim[s] # NoSession
  /\ status[claim[s]] = "absent"

ClaimIsStale_IgnoresActive(s) ==
  /\ claim[s] # NoSession
  /\ ~Resumable(claim[s])

ClaimIsStale(s) ==
  /\ claim[s] # NoSession
  /\ status[claim[s]] # "active"
  /\ ~Resumable(claim[s])

Unclaimed(s) == claim[s] = NoSession

\* Some resumption judged the claim of s stale and took the source of s instead.
PassedOver(s) == \E n \in Session : expect[n] = s

\* What a get of the row returns now, and what the pending update will write
\* back: the row read before, when a get is still waiting for its update.
RowOf(n) == [status |-> status[n], motivo |-> motivo[n], claim |-> claim[n]]
Base(n)  == IF snap[n] = NoSnapshot THEN RowOf(n) ELSE snap[n]

\* Every statement that sets updated_at makes what a sweep read of it out of date.
Touch(s) == seen' = [seen EXCEPT ![s] = FALSE]

\* The process goes from here to label, its memory kept; or ends, and forgets.
GoTo(n, label) == pc' = [pc EXCEPT ![n] = label]

Gone_KeepsSnap(n) ==
  /\ GoTo(n, "over")
  /\ UNCHANGED snap
  /\ reason' = [reason EXCEPT ![n] = "nil"]
  /\ ends' = [ends EXCEPT ![n] = "none"]

Gone(n) ==
  /\ GoTo(n, "over")
  /\ snap' = [snap EXCEPT ![n] = NoSnapshot]
  /\ reason' = [reason EXCEPT ![n] = "nil"]
  /\ ends' = [ends EXCEPT ![n] = "none"]

\* A write of the checkpoint with reason m.  One that fails in the recorder is
\* only counted, and the session goes on with the file as it was.
Record(n, m) ==
  ckpt' \in {[ckpt EXCEPT ![n] = m]} \union (IF WritesFail THEN {ckpt} ELSE {})

-----------------------------------------------------------------------------
(***************************************************************************)
(* Launching and resuming                                                  *)
(***************************************************************************)

\* A new research: row and payload are written, then the process registers
\* itself with an alias nobody uses.
StartNew(n) ==
  /\ pc[n] = "idle"
  /\ status' = [status EXCEPT ![n] = "active"]
  /\ alias' = [alias EXCEPT ![n] = n]
  /\ GoTo(n, "admitted")
  /\ UNCHANGED <<motivo, claim, ckpt, linkVars, localVars, termVars>>

\* prepare_resume: read the source, its claim and its checkpoint, and accept.
Prepare(n, s) ==
  /\ pc[n] = "idle"
  /\ s # n
  /\ status[s] # "absent"
  /\ TakesUpPassed \/ ~PassedOver(s)
  /\ Unclaimed(s) \/ ClaimIsStale(s)
  /\ Resumable(s)
  /\ source' = [source EXCEPT ![n] = s]
  /\ expect' = [expect EXCEPT ![n] = claim[s]]
  /\ GoTo(n, "prepared")
  /\ UNCHANGED <<rowVars, ckpt, localVars, termVars>>

\* handle_request inserts the row of the continuation; the process registers
\* itself under the alias of the chain.
CreateRow(n) ==
  /\ pc[n] = "prepared"
  /\ status' = [status EXCEPT ![n] = "active"]
  /\ alias' = [alias EXCEPT ![n] = alias[source[n]]]
  /\ GoTo(n, "created")
  /\ UNCHANGED <<motivo, claim, ckpt, linkVars, localVars, termVars>>

\* claim_continuation: one statement, which looks at payload.continued_by only.
WinClaim(n, s) ==
  /\ claim[s] = expect[n]
  /\ claim' = [claim EXCEPT ![s] = n]
  /\ Touch(s)
  /\ GoTo(n, "admitted")
  /\ UNCHANGED <<status, motivo, alias, ckpt, linkVars, localVars, owed>>

\* The claim was refused: the session closes without having executed anything.
LoseClaim(n, s) ==
  /\ claim[s] # expect[n]
  /\ status' = [status EXCEPT ![n] = "closed"]
  /\ motivo' = [motivo EXCEPT ![n] = "erro"]
  /\ Touch(n)
  /\ GoTo(n, "over")
  /\ UNCHANGED <<claim, alias, ckpt, linkVars, localVars, owed>>

ClaimSource_NotConditional(n) ==
  /\ pc[n] = "created"
  /\ claim' = [claim EXCEPT ![source[n]] = n]
  /\ Touch(source[n])
  /\ GoTo(n, "admitted")
  /\ UNCHANGED <<status, motivo, alias, ckpt, linkVars, localVars, owed>>

ClaimSource(n) ==
  /\ pc[n] = "created"
  /\ WinClaim(n, source[n]) \/ LoseClaim(n, source[n])

\* _start_recorder writes the first checkpoint (a new research without a session
\* directory runs without a recorder: every write of its checkpoint fails).
OpenCheckpoint(n) ==
  /\ pc[n] = "admitted"
  /\ Record(n, "nil")
  /\ GoTo(n, "opening")
  /\ UNCHANGED <<rowVars, linkVars, localVars, termVars>>

\* _start_recorder raised (no session directory): a continuation stops, with the
\* payload it was created with.
NoRecorder(n) ==
  /\ pc[n] = "admitted"
  /\ source[n] # NoSession
  /\ status' = [status EXCEPT ![n] = "interrompida"]
  /\ motivo' = [motivo EXCEPT ![n] = "interrompida"]
  /\ claim' = [claim EXCEPT ![n] = NoSession]
  /\ Touch(n)
  /\ GoTo(n, "releasing")
  /\ UNCHANGED <<alias, ckpt, linkVars, localVars, owed>>

\* The input manifest is invalid: the row closes with the payload it was created
\* with, and the process ends.  A continuation's claim on its source stays.
RefuseInputs(n) ==
  /\ pc[n] = "opening"
  /\ status' = [status EXCEPT ![n] = "closed"]
  /\ motivo' = [motivo EXCEPT ![n] = "erro"]
  /\ claim' = [claim EXCEPT ![n] = NoSession]
  /\ Touch(n)
  /\ GoTo(n, "over")
  /\ UNCHANGED <<alias, ckpt, linkVars, localVars, owed>>

\* The heartbeat thread starts right before the loop does.
StartHeartbeat(n) ==
  /\ pc[n] = "opening"
  /\ GoTo(n, "running")
  /\ UNCHANGED <<rowVars, ckpt, linkVars, localVars, termVars>>

\* A later flush of the recorder writes its memory whole: em_execucao, no reason.
Flush(n) ==
  /\ pc[n] = "running"
  /\ ckpt[n] # "nil"
  /\ ckpt' = [ckpt EXCEPT ![n] = "nil"]
  /\ UNCHANGED <<rowVars, procVars, termVars>>

\* release_continuation: removes the claim only if it is still this session's.
Release_Unconditional(n) ==
  /\ pc[n] = "releasing"
  /\ claim' = [claim EXCEPT ![source[n]] = NoSession]
  /\ GoTo(n, "over")
  /\ UNCHANGED <<status, motivo, alias, ckpt, linkVars, localVars, termVars>>

Release(n) ==
  /\ pc[n] = "releasing"
  /\ claim' = [claim EXCEPT ![source[n]] = IF @ = n THEN NoSession ELSE @]
  /\ GoTo(n, "over")
  /\ UNCHANGED <<status, motivo, alias, ckpt, linkVars, localVars, termVars>>

-----------------------------------------------------------------------------
(***************************************************************************)
(* The heartbeat thread                                                    *)
(***************************************************************************)

\* SessionManager.heartbeat accepted: only an active row is refreshed.
Beat(n) ==
  /\ pc[n] \in Beating
  /\ status[n] = "active"
  /\ seen[n]
  /\ Touch(n)
  /\ UNCHANGED <<rowVars, ckpt, procVars, owed>>

\* Heartbeat refused, row marked interrompida by mistake: reassert_active takes
\* it back unless another session continued it.  (The loop must have ticked
\* recently: the step is never forced, so it may also not happen.)
Reassert(n) ==
  /\ pc[n] \in Beating
  /\ status[n] = "interrompida"
  /\ Unclaimed(n)
  /\ status' = [status EXCEPT ![n] = "active"]
  /\ motivo' = [motivo EXCEPT ![n] = "nil"]
  /\ Touch(n)
  /\ UNCHANGED <<claim, alias, ckpt, procVars, owed>>

\* Heartbeat and reassertion refused because the row says who continues it.
LoseSession_AnyRefusal(n) ==
  /\ pc[n] \in Beating
  /\ status[n] # "active"
  /\ GoTo(n, "lost")
  /\ UNCHANGED <<rowVars, ckpt, linkVars, localVars, termVars>>

LoseSession(n) ==
  /\ pc[n] \in Beating
  /\ status[n] # "active"
  /\ ~Unclaimed(n)
  /\ GoTo(n, "lost")
  /\ UNCHANGED <<rowVars, ckpt, linkVars, localVars, termVars>>

\* The cancelled task ends, or the timer of the handler calls os._exit(6).
ExitLost(n) ==
  /\ pc[n] = "lost"
  /\ Gone(n)
  /\ UNCHANGED <<rowVars, ckpt, linkVars, termVars>>

-----------------------------------------------------------------------------
(***************************************************************************)
(* The process and its own row                                             *)
(***************************************************************************)

\* The get of a get-then-update pair of the session's own process.  Without
\* RacyUpdates the pair is one step, which changes nothing modelled here but
\* updated_at (UpdatePayload).
Get(n) ==
  /\ RacyUpdates
  /\ pc[n] \in Updating
  /\ snap[n] = NoSnapshot
  /\ snap' = [snap EXCEPT ![n] = RowOf(n)]
  /\ UNCHANGED <<rowVars, ckpt, pc, linkVars, reason, ends, termVars>>

\* SessionManager.update(status=st, payload={**payload, "motivo_parada": m}): the
\* payload read before is written whole.
WriteRow(n, st, m) ==
  /\ status' = [status EXCEPT ![n] = st]
  /\ motivo' = [motivo EXCEPT ![n] = m]
  /\ claim' = [claim EXCEPT ![n] = Base(n).claim]
  /\ snap' = [snap EXCEPT ![n] = NoSnapshot]
  /\ Touch(n)
  /\ UNCHANGED <<alias, linkVars, owed>>

\* The same with no status given: that of update's own SELECT, which ran at some
\* moment between the get and this UPDATE.
Rewrite(n, m) == \E st \in {status[n], Base(n).status} : WriteRow(n, st, m)

Put(n) ==
  /\ pc[n] \in Updating \union {"lost"}
  /\ snap[n] # NoSnapshot
  /\ Rewrite(n, snap[n].motivo)
  /\ UNCHANGED <<ckpt, pc, reason, ends>>

UpdatePayload(n) ==
  /\ pc[n] \in Updating
  /\ seen[n]
  /\ Touch(n)
  /\ UNCHANGED <<rowVars, ckpt, procVars, owed>>

-----------------------------------------------------------------------------
(***************************************************************************)
(* The loop stops                                                          *)
(***************************************************************************)

\* The status of a pause: pausar writes the legacy one.
PausedBy(m) == IF m = "pausada_pesquisador" THEN "suspended" ELSE m

\* _close_session, first half: the reason goes to the row, with the status in
\* the same statement when the session pauses.
CloseSession(n, m) ==
  /\ pc[n] = "running"
  /\ m \notin {"aguarda_pesquisador", "nil"}
  /\ IF m \in PauseMotivos THEN WriteRow(n, PausedBy(m), m) ELSE Rewrite(n, m)
  /\ reason' = [reason EXCEPT ![n] = m]
  /\ GoTo(n, "closing")
  /\ UNCHANGED <<ckpt, ends>>

\* _close_session, second half: the deterministic checkpoint; the Summarizer runs.
RecordStop(n) ==
  /\ pc[n] = "closing"
  /\ Record(n, reason[n])
  /\ GoTo(n, "stopped")
  /\ UNCHANGED <<rowVars, linkVars, localVars, termVars>>

\* _suspend_session: one statement on the row; the checkpoint comes later.
SuspendSession(n) ==
  /\ pc[n] = "running"
  /\ "aguarda_pesquisador" \in StopMotivos
  /\ WriteRow(n, "aguarda_pesquisador", "aguarda_pesquisador")
  /\ reason' = [reason EXCEPT ![n] = "aguarda_pesquisador"]
  /\ GoTo(n, "stopped")
  /\ UNCHANGED <<ckpt, ends>>

\* The loop returns with its stop on record ...
Return(n) ==
  /\ pc[n] = "stopped"
  /\ snap[n] = NoSnapshot
  /\ GoTo(n, "returned")
  /\ UNCHANGED <<rowVars, ckpt, linkVars, localVars, termVars>>

\* ... or with a result and no reason: success is one of them.
FinishLoop(n) ==
  /\ pc[n] = "running"
  /\ "nil" \in StopMotivos
  /\ snap[n] = NoSnapshot
  /\ GoTo(n, "returned")
  /\ UNCHANGED <<rowVars, ckpt, linkVars, localVars, termVars>>

\* The loop raised: Ctrl+C (interrompida) or a fatal error.  Checkpoint first.
\* (Once the stop is recorded only a Summarizer that runs can still raise.)
Raise(n, m) ==
  /\ pc[n] = "running" \/ (pc[n] = "stopped" /\ reason[n] \notin PauseMotivos)
  /\ Record(n, m)
  /\ reason' = [reason EXCEPT ![n] = m]
  /\ snap' = [snap EXCEPT ![n] = NoSnapshot]
  /\ GoTo(n, "failing")
  /\ UNCHANGED <<rowVars, linkVars, ends, termVars>>

\* ... and then the row.  A continuation that failed gives its claim back.
RecordInterrupt(n) ==
  /\ pc[n] = "failing"
  /\ reason[n] = "interrompida"
  /\ WriteRow(n, "interrompida", "interrompida")
  /\ reason' = [reason EXCEPT ![n] = "nil"]
  /\ GoTo(n, "over")
  /\ UNCHANGED <<ckpt, ends>>

RecordError(n) ==
  /\ pc[n] = "failing"
  /\ reason[n] = "erro"
  /\ WriteRow(n, "closed", "erro")
  /\ reason' = [reason EXCEPT ![n] = "nil"]
  /\ GoTo(n, IF source[n] = NoSession THEN "over" ELSE "releasing")
  /\ UNCHANGED <<ckpt, ends>>

-----------------------------------------------------------------------------
(***************************************************************************)
(* The end of the request                                                  *)
(***************************************************************************)

\* A row that the loop paused keeps its status, any other gets the final one.
WriteFinal(n, final) ==
  /\ pc[n] = "returned"
  /\ LET paused == Base(n).status \in PausedStatuses
     IN /\ WriteRow(n, IF paused THEN Base(n).status ELSE final, Base(n).motivo)
        /\ ends' = [ends EXCEPT ![n] = IF paused THEN "paused" ELSE final]
  /\ GoTo(n, "ending")
  /\ UNCHANGED <<ckpt, reason>>

\* _finalize_checkpoint: the reason is the one in the row, or follows from how
\* the request ended, and then it goes to the row, and to the checkpoint next.
FinalReason(n) ==
  IF Base(n).motivo # "nil" THEN Base(n).motivo
  ELSE IF ends[n] = "paused" THEN "interrompida"
  ELSE IF ends[n] = "success" THEN "solucao_encontrada"
  ELSE "erro"

NameReason(n) ==
  /\ pc[n] = "ending"
  /\ IF Base(n).motivo = "nil" THEN Rewrite(n, FinalReason(n))
     ELSE /\ snap' = [snap EXCEPT ![n] = NoSnapshot]
          /\ UNCHANGED <<rowVars, linkVars, termVars>>
  /\ reason' = [reason EXCEPT ![n] = FinalReason(n)]
  /\ GoTo(n, "recording")
  /\ UNCHANGED <<ckpt, ends>>

RecordFinal(n) ==
  /\ pc[n] = "recording"
  /\ Record(n, reason[n])
  /\ GoTo(n, "leaving")
  /\ UNCHANGED <<rowVars, linkVars, localVars, termVars>>

\* The exit code is written, a session that is not paused closes (an update with
\* no payload), and the process ends.
Leave(n) ==
  /\ pc[n] = "leaving"
  /\ snap[n] = NoSnapshot
  /\ IF ends[n] = "paused" THEN UNCHANGED <<status, seen>>
     ELSE status' = [status EXCEPT ![n] = "closed"] /\ Touch(n)
  /\ Gone(n)
  /\ UNCHANGED <<motivo, claim, alias, ckpt, linkVars, owed>>

\* Power cut, SIGKILL, fatal error: the process is gone at any point.
Crash(n) ==
  /\ pc[n] \notin {"idle", "over"}
  /\ Gone(n)
  /\ UNCHANGED <<rowVars, ckpt, linkVars, termVars>>

-----------------------------------------------------------------------------
(***************************************************************************)
(* The terminals                                                           *)
(***************************************************************************)

\* SessionWatch.reason: the process does not exist (or its PID was reused), or
\* updated_at or loop_beat_at is too old; only the last two can be wrong.
JudgedStopped(s) == pc[s] = "over" \/ MisjudgesLive

Look(s) ==
  /\ status[s] = "active"
  /\ ~seen[s]
  /\ JudgedStopped(s)
  /\ seen' = [seen EXCEPT ![s] = TRUE]
  /\ UNCHANGED <<rowVars, ckpt, procVars, owed>>

\* mark_interrupted: conditional on the status and on the updated_at read.
Mark(s) ==
  /\ status[s] = "active"
  /\ seen[s]
  /\ status' = [status EXCEPT ![s] = "interrompida"]
  /\ motivo' = [motivo EXCEPT ![s] = "interrompida"]
  /\ Touch(s)
  /\ owed' = [owed EXCEPT ![s] = @ \union {"recovery"}]
  /\ UNCHANGED <<claim, alias, ckpt, procVars>>

\* mark_checkpoint_interrupted: only a checkpoint still em_execucao gets a reason.
\* A terminal that dies first, or whose recovery fails, never takes this step.
Recover(s) ==
  /\ "recovery" \in owed[s]
  /\ owed' = [owed EXCEPT ![s] = @ \ {"recovery"}]
  /\ ckpt' = [ckpt EXCEPT ![s] = IF @ = "nil" THEN "interrompida" ELSE @]
  /\ UNCHANGED <<rowVars, procVars, seen>>

\* close_by_researcher on the row: conditional on its still being unfinished.
CloseRow(s) ==
  /\ status[s] \in UnfinishedStatuses
  /\ status' = [status EXCEPT ![s] = "closed"]
  /\ motivo' = [motivo EXCEPT ![s] = "encerrada_pesquisador"]
  /\ Touch(s)
  /\ UNCHANGED <<claim, alias, procVars>>

\* ... and on the checkpoint read before, which takes the same reason.  Without
\* RacyUpdates the two writes are one step, and no process is between its own.
AlignCheckpoint(s) ==
  ckpt' = [ckpt EXCEPT ![s] = IF @ = "absent" THEN @ ELSE "encerrada_pesquisador"]

CloseByResearcher(s) ==
  /\ ~RacyUpdates
  /\ pc[s] \notin {"closing", "recording"}
  /\ CloseRow(s)
  /\ AlignCheckpoint(s)
  /\ UNCHANGED owed

DecideClosing(s) ==
  /\ RacyUpdates
  /\ CloseRow(s)
  /\ owed' = [owed EXCEPT ![s] = IF HasCkpt(s) THEN @ \union {"closing"} ELSE @]
  /\ UNCHANGED ckpt

WriteClosing(s) ==
  /\ "closing" \in owed[s]
  /\ AlignCheckpoint(s)
  /\ owed' = [owed EXCEPT ![s] = @ \ {"closing"}]
  /\ UNCHANGED <<rowVars, procVars, seen>>

-----------------------------------------------------------------------------
Launch(n)    == StartNew(n) \/ (\E s \in Session : Prepare(n, s))
Resume(n)    == CreateRow(n) \/ ClaimSource(n) \/ OpenCheckpoint(n) \/ NoRecorder(n)
                \/ RefuseInputs(n) \/ StartHeartbeat(n)
Heartbeat(n) == Beat(n) \/ Reassert(n) \/ LoseSession(n)
Update(n)    == Flush(n) \/ Get(n) \/ Put(n) \/ UpdatePayload(n)
Stop(n)      == \/ (\E m \in StopMotivos : CloseSession(n, m)) \/ RecordStop(n)
                \/ SuspendSession(n) \/ FinishLoop(n) \/ Return(n)
Abort(n)     == \/ (\E m \in {"interrompida", "erro"} : Raise(n, m))
                \/ RecordInterrupt(n) \/ RecordError(n)
End(n)       == \/ (\E final \in {"success", "failed"} : WriteFinal(n, final))
                \/ NameReason(n) \/ RecordFinal(n) \/ Leave(n)
Wind(n)      == Release(n) \/ ExitLost(n) \/ Crash(n)
Sweep(s)     == Look(s) \/ Mark(s) \/ Recover(s)
Close(s)     == CloseByResearcher(s) \/ DecideClosing(s) \/ WriteClosing(s)

Next == \E n \in Session :
  \/ Launch(n) \/ Resume(n) \/ Heartbeat(n) \/ Update(n) \/ Stop(n) \/ Abort(n) \/ End(n)
  \/ Wind(n) \/ Sweep(n) \/ Close(n)

Spec == Init /\ [][Next]_vars

\* The terminals look at the table again and again and mark what they judged.
Fairness == \A n \in Session : WF_vars(Look(n)) /\ WF_vars(Mark(n))

FairSpec == Spec /\ Fairness

-----------------------------------------------------------------------------
(***************************************************************************)
(* Properties                                                              *)
(***************************************************************************)

\* A research is carried on by one session at a time: two sessions of the same
\* chain that may execute are the same session (session-continuity, "sem
\* bifurcar a pesquisa"; orchestrator.handle_request claims before it runs).
OneLiveSession == \A n, m \in Session :
  Live(n) /\ Live(m) /\ alias[n] = alias[m] => n = m

\* A claim is the word of a session that exists, that continues the row it is
\* written on, in the same chain, and that passed the compare-and-set; whatever
\* the environment does, no update writes another one back.
ClaimNamesContinuer == \A s \in Session :
  claim[s] # NoSession =>
    /\ source[claim[s]] = s
    /\ alias[claim[s]] = alias[s]
    /\ pc[claim[s]] \notin {"idle", "prepared", "created"}

\* Research history does not fork: of two sessions that continued the same
\* source, one at most can be continued itself, besides one that a resumption
\* passed over and a later write made resumable again (a checkpoint aligned by
\* close_by_researcher, a reason named late by _finalize_checkpoint).
NoFork == \A n, m \in Session :
  /\ n # m
  /\ source[n] # NoSession
  /\ source[n] = source[m]
  /\ Resumable(n) /\ Resumable(m)
  => PassedOver(n) \/ PassedOver(m)

\* prepare_resume would accept s as the source of a new session.
Preparable(s) == status[s] # "absent" /\ Resumable(s) /\ (Unclaimed(s) \/ ClaimIsStale(s))

Quiescent(r) == \A n \in Session :
  alias[n] = r => pc[n] = "over" /\ status[n] # "active"

\* A research whose first session left something to continue from is never
\* stranded: when all its processes are gone and swept, prepare_resume accepts
\* one of its sessions, wherever the attempts to continue it failed or died.
NeverStranded == \A r \in Session :
  alias[r] = r /\ Quiescent(r) /\ Resumable(r) =>
    \E s \in Session : alias[s] = r /\ Preparable(s)

\* A process stops as "lost" only when another session did win the claim on it:
\* a refused heartbeat alone (a row closed by the researcher, an update that
\* failed) never ends it.
LostIsContinued == \A s \in Session :
  pc[s] = "lost" =>
    \E n \in Session : source[n] = s /\ pc[n] \notin {"idle", "prepared", "created"}

\* reassert_active: a session that another one continued is not made active
\* again, "reativa-la criaria duas sessoes vivas para a mesma pesquisa".
ContinuedIsInactive == \A s \in Session :
  claim[s] # NoSession /\ Live(s) /\ Live(claim[s]) => status[s] # "active"

\* A continuation that died without leaving a checkpoint does not keep its
\* source for ever: sooner or later the source can be continued again, or
\* already is by another session.
SourceGivenBack == \A s, n \in Session :
  (claim[s] = n /\ pc[n] = "over" /\ ~HasCkpt(n)) ~> (claim[s] # n \/ ClaimIsStale(s))

(***************************************************************************)
(* What the chain promises, for each research: the lock of ResearchLock.   *)
(***************************************************************************)
Running == [r \in Session |-> {n \in Session : Live(n) /\ alias[n] = r}]
Spent   == {n \in Session : pc[n] \notin {"idle", "prepared", "created"} \union Executing}

Lock == INSTANCE ResearchLock WITH Research <- Session, running <- Running, spent <- Spent

LockSpec == Lock!Spec
=============================================================================
