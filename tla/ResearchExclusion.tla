-------------------------- MODULE ResearchExclusion --------------------------
(***************************************************************************)
(* Mutual exclusion of the sessions of a research, for any number of       *)
(* sessions, reasons to stop and failed writes, when every live process    *)
(* keeps its row fresh, no writer comes inside a pair of steps, and nobody *)
(* takes up a session that an earlier resumption passed over               *)
(* (~MisjudgesLive, ~RacyUpdates, ~TakesUpPassed).  Without the last the   *)
(* history does fork (run chain_fork).                                     *)
(*                                                                         *)
(* The claim is per source, the property per research.  The argument has   *)
(* two halves.  Of one row: a session that can be continued stays so,      *)
(* whatever its process, a sweep or the researcher writes; so what a       *)
(* resumption found of its source is still true when it claims it, and     *)
(* nobody passes over the source of another.  Of the claims: a session     *)
(* holds its place when it began the research or has the claim on its      *)
(* source, and it keeps it until it is passed over or leaves nothing.  A   *)
(* claim takes the place of the one session of the research that holds     *)
(* its place unclaimed, a claim given back hands it to the source; and a   *)
(* session that executes is that one session.                              *)
(***************************************************************************)
EXTENDS ResearchChainProofs

\* No row is held between a get and its update.
NothingPending == \A n \in Session : snap[n] = NoSnapshot

\* Only a dead process is judged stopped.
JudgedDead == \A n \in Session : seen[n] => pc[n] = "over"

\* Only the recovery of a swept row is owed, and it finds the row as it was marked.
OwedFine == \A n \in Session :
  /\ owed[n] \subseteq {"recovery"}
  /\ "recovery" \in owed[n] =>
       /\ pc[n] = "over"
       /\ ckpt[n] = "nil" => status[n] = "interrompida" /\ motivo[n] = "interrompida"

\* The row is active from its insertion until the stop, whatever the loop stops
\* for, unless it pauses.
ActiveRow == \A n \in Session :
  \/ Live(n)
  \/ pc[n] \in {"created", "failing"}
  \/ pc[n] \in {"closing", "stopped"} /\ reason[n] \notin PauseMotivos
  => status[n] = "active"

\* No sweep marked the row of a process that has its stop still to write.
MarkedDead == \A n \in Session :
  pc[n] \notin {"over", "releasing"} => status[n] # "interrompida"

\* What the process is about to record is what the row says.
NamedStop == \A n \in Session : pc[n] \in {"closing", "recording"} => reason[n] = motivo[n]

\* A pause has a reason.
PausedNamed == \A n \in Session : status[n] \in PausedStatuses => motivo[n] # "nil"

\* A checkpoint has no reason before the row has one, unless the loop raised.
UnnamedCkpt == \A n \in Session :
  motivo[n] = "nil" /\ pc[n] \notin {"failing", "over", "releasing"} => ckpt[n] \in {"nil", "absent"}

\* A request that was not paused ends on a row that is finished.
FinishedEnd == \A n \in Session :
  pc[n] \in {"ending", "recording", "leaving"} /\ ends[n] # "paused" => status[n] \in FinishedStatuses

\* The first checkpoint comes after the claim.
CkptAfterClaim == \A n \in Session :
  HasCkpt(n) => pc[n] \notin {"idle", "prepared", "created", "admitted"}

\* A row has an alias, that of a session that has one; no row, no alias.
AliasRoot == \A n \in Session :
  /\ alias[n] # NoSession => alias[alias[n]] # NoSession
  /\ status[n] # "absent" => alias[n] # NoSession
  /\ pc[n] \in {"idle", "prepared"} => alias[n] = NoSession

\* A session expects no claim before it prepared.
IdleExpects == \A n \in Session : pc[n] = "idle" => expect[n] = NoSession

RowInv ==
  /\ NameInv /\ NothingPending /\ JudgedDead /\ OwedFine /\ ActiveRow /\ MarkedDead /\ NamedStop
  /\ PausedNamed /\ UnnamedCkpt /\ FinishedEnd /\ CkptAfterClaim
  /\ AliasRoot /\ IdleExpects

\* Only a session that can be continued, and was not passed over, is a source.
Chosen == \A n, s \in Session : source[n] = s => Resumable(s) /\ ~PassedOver(s)

\* A session that was passed over executes no more.
PassedDead == \A n \in Session : PassedOver(n) => Past(n) /\ ~Live(n)

\* t began the research, or has the claim on its source.
Holds(t) == \/ source[t] = NoSession /\ pc[t] # "idle"
            \/ source[t] # NoSession /\ claim[source[t]] = t

\* The row of n can never be continued.
Lost(n) == ~HasCkpt(n) \/ (status[n] = "closed" /\ motivo[n] = "erro")

\* A session that passed the compare-and-set keeps its place, unless it was passed
\* over or ended with nothing.
Trunk == \A n \in Session :
  Past(n) /\ ~PassedOver(n) => Holds(n) \/ (pc[n] = "over" /\ Lost(n))

\* A session that gives its claim back left nothing to continue.
ReleasingBad == \A n \in Session : pc[n] = "releasing" => Lost(n)

\* One session of a research at most holds its place and is claimed by nobody.
Tip(t) == Holds(t) /\ Unclaimed(t)

UniqueTip == \A t, u \in Session : Tip(t) /\ Tip(u) /\ alias[t] = alias[u] => t = u

TimelyInv == RowInv /\ Chosen /\ PassedDead /\ Trunk /\ ReleasingBad /\ UniqueTip

USE DEF RowStatuses, FinishedStatuses, UnfinishedStatuses, PausedStatuses, PauseMotivos,
        PC, Executing, Beating, Updating

-----------------------------------------------------------------------------
(***************************************************************************)
(* One row: what its process, the sweep and the researcher write on it.    *)
(***************************************************************************)

\* With no row held between a get and its update, an update writes what it says
\* and leaves the claim as it is.
LEMMA PlainWrite ==
  ASSUME RowInv, NEW n \in Session, NEW st, NEW m, WriteRow(n, st, m)
  PROVE  /\ status' = [status EXCEPT ![n] = st]
         /\ motivo' = [motivo EXCEPT ![n] = m]
         /\ UNCHANGED <<claim, snap, alias, source, expect, owed>>
         /\ seen' = [seen EXCEPT ![n] = FALSE]
<1>1. Base(n).claim = claim[n]
  BY DEF RowInv, NothingPending, Base, RowOf
<1> QED BY <1>1 DEF WriteRow, Touch, linkVars, RowInv, NothingPending, NameInv, BaseInv, TypeOK

\* The rows a process reads are the rows as they are.
LEMMA PlainRead ==
  ASSUME RowInv, NEW n \in Session
  PROVE  Base(n).status = status[n] /\ Base(n).motivo = motivo[n]
BY DEF RowInv, NothingPending, Base, RowOf

\* RowInv holds before any session was launched.
LEMMA RowInit == Init => RowInv
BY NameInit
DEF Init, RowInv, NothingPending, JudgedDead, OwedFine, ActiveRow, MarkedDead, NamedStop,
    PausedNamed, UnnamedCkpt, FinishedEnd, CkptAfterClaim, AliasRoot, IdleExpects, HasCkpt, Live

\* Every action keeps the parts that speak of one row and its own process.
LEMMA RowStep ==
  ASSUME ~MisjudgesLive, ~RacyUpdates, RowInv, [Next]_vars
  PROVE  RowInv'
<1> DEFINE Goal == /\ (NothingPending /\ JudgedDead /\ OwedFine /\ ActiveRow)'
                   /\ (MarkedDead /\ NamedStop /\ PausedNamed /\ UnnamedCkpt)'
                   /\ (FinishedEnd /\ CkptAfterClaim /\ AliasRoot /\ IdleExpects)'
<1>0. NameInv'
  BY NameStep DEF RowInv
<1> USE NoSessionAssumption
    DEF RowInv, NameInv, BaseInv, TypeOK, Rows, Sources, NothingPending, JudgedDead, OwedFine,
        ActiveRow, MarkedDead, NamedStop, PausedNamed, UnnamedCkpt, FinishedEnd, CkptAfterClaim,
        AliasRoot, IdleExpects, HasCkpt, Live, rowVars, linkVars, localVars, procVars, termVars, Touch, GoTo
<1>1. ASSUME NEW n \in Session, Launch(n) PROVE Goal
  <2>1. CASE StartNew(n)
    BY <2>1 DEF StartNew, ClaimedExists
  <2>2. ASSUME NEW s \in Session, Prepare(n, s) PROVE Goal
    BY <2>2 DEF Prepare
  <2> QED BY <1>1, <2>1, <2>2 DEF Launch
<1>2. ASSUME NEW n \in Session, Resume(n) PROVE Goal
  <2>1. CASE CreateRow(n)
    BY <2>1 DEF CreateRow, ChainAlias, ClaimedExists
  <2>2. CASE ClaimSource(n) /\ WinClaim(n, source[n])
    BY <2>2 DEF ClaimSource, WinClaim
  <2>3. CASE ClaimSource(n) /\ LoseClaim(n, source[n])
    BY <2>3 DEF ClaimSource, LoseClaim
  <2>4. CASE OpenCheckpoint(n)
    BY <2>4, RecordBase DEF OpenCheckpoint, Motivos
  <2>5. CASE NoRecorder(n)
    BY <2>5 DEF NoRecorder
  <2>6. CASE RefuseInputs(n)
    BY <2>6 DEF RefuseInputs
  <2>7. CASE StartHeartbeat(n)
    BY <2>7 DEF StartHeartbeat
  <2> QED BY <1>2, <2>1, <2>2, <2>3, <2>4, <2>5, <2>6, <2>7 DEF Resume, ClaimSource
<1>3. ASSUME NEW n \in Session, Heartbeat(n) PROVE Goal
  <2>1. CASE Beat(n)
    BY <2>1 DEF Beat
  <2>2. CASE Reassert(n)
    BY <2>2 DEF Reassert
  <2>3. CASE LoseSession(n)
    BY <2>3 DEF LoseSession
  <2> QED BY <1>3, <2>1, <2>2, <2>3 DEF Heartbeat
<1>4. ASSUME NEW n \in Session, Update(n) PROVE Goal
  <2>1. CASE Flush(n)
    BY <2>1 DEF Flush
  <2>2. CASE Get(n) \/ Put(n)
    BY <2>2 DEF Get, Put
  <2>3. CASE UpdatePayload(n)
    BY <2>3 DEF UpdatePayload
  <2> QED BY <1>4, <2>1, <2>2, <2>3 DEF Update
<1>5. ASSUME NEW n \in Session, Stop(n) PROVE Goal
  <2>1. ASSUME NEW m \in StopMotivos, CloseSession(n, m) PROVE Goal
    <3>1. /\ pc[n] = "running" /\ m # "nil" /\ m \in Motivos /\ m # "interrompida" /\ status[n] = "active"
          /\ reason' = [reason EXCEPT ![n] = m]
          /\ pc' = [pc EXCEPT ![n] = "closing"] /\ UNCHANGED <<ckpt, ends>>
      BY <2>1, StopMotivosAssumption DEF CloseSession, Motivos, MotivosRetomaveis, MotivosConfirmar
    <3>2. CASE m \in PauseMotivos /\ WriteRow(n, PausedBy(m), m)
      <4>1. PausedBy(m) \in PausedStatuses
        BY <3>2 DEF PausedBy
      <4> QED BY <3>1, <3>2, <4>1, PlainWrite
    <3>3. CASE m \notin PauseMotivos /\ WriteRow(n, status[n], m)
      BY <3>1, <3>3, PlainWrite
    <3> QED BY <2>1, <3>2, <3>3, PlainRead DEF CloseSession, Rewrite
  <2>2. CASE RecordStop(n)
    <3>1. reason[n] = motivo[n] /\ pc[n] = "closing"
      BY <2>2 DEF RecordStop
    <3>2. /\ ckpt' = ckpt \/ ckpt' = [ckpt EXCEPT ![n] = reason[n]]
          /\ pc' = [pc EXCEPT ![n] = "stopped"]
          /\ UNCHANGED <<rowVars, linkVars, localVars, termVars>>
      BY <2>2, RecordBase DEF RecordStop
    <3> QED BY <3>1, <3>2
  <2>3. CASE SuspendSession(n)
    <3>1. WriteRow(n, "aguarda_pesquisador", "aguarda_pesquisador")
      BY <2>3 DEF SuspendSession
    <3> QED BY <2>3, <3>1, PlainWrite DEF SuspendSession
  <2>4. CASE FinishLoop(n)
    BY <2>4 DEF FinishLoop
  <2>5. CASE Return(n)
    BY <2>5 DEF Return
  <2> QED BY <1>5, <2>1, <2>2, <2>3, <2>4, <2>5 DEF Stop
<1>6. ASSUME NEW n \in Session, Abort(n) PROVE Goal
  <2>1. ASSUME NEW m \in {"interrompida", "erro"}, Raise(n, m) PROVE Goal
    <3>1. ckpt' = ckpt \/ ckpt' = [ckpt EXCEPT ![n] = m]
      BY <2>1, RecordBase DEF Raise, Motivos, MotivosRetomaveis
    <3> QED BY <2>1, <3>1 DEF Raise
  <2>2. CASE RecordInterrupt(n)
    <3>1. WriteRow(n, "interrompida", "interrompida")
      BY <2>2 DEF RecordInterrupt
    <3> QED BY <2>2, <3>1, PlainWrite DEF RecordInterrupt
  <2>3. CASE RecordError(n)
    <3>1. WriteRow(n, "closed", "erro")
      BY <2>3 DEF RecordError
    <3> QED BY <2>3, <3>1, PlainWrite DEF RecordError
  <2> QED BY <1>6, <2>1, <2>2, <2>3 DEF Abort
<1>7. ASSUME NEW n \in Session, End(n) PROVE Goal
  <2>1. ASSUME NEW final \in {"success", "failed"}, WriteFinal(n, final) PROVE Goal
    <3>1. /\ pc[n] = "returned" /\ pc' = [pc EXCEPT ![n] = "ending"] /\ UNCHANGED <<ckpt, reason>>
          /\ \/ /\ status[n] \in PausedStatuses /\ ends' = [ends EXCEPT ![n] = "paused"]
                /\ WriteRow(n, status[n], motivo[n])
             \/ /\ ends' = [ends EXCEPT ![n] = final]
                /\ WriteRow(n, final, motivo[n])
      BY <2>1, PlainRead DEF WriteFinal
    <3>2. CASE /\ status[n] \in PausedStatuses /\ ends' = [ends EXCEPT ![n] = "paused"]
               /\ WriteRow(n, status[n], motivo[n])
      BY <3>1, <3>2, PlainWrite
    <3>3. CASE ends' = [ends EXCEPT ![n] = final] /\ WriteRow(n, final, motivo[n])
      BY <3>1, <3>3, PlainWrite
    <3> QED BY <3>1, <3>2, <3>3
  <2>2. CASE NameReason(n)
    <3>1. /\ pc[n] = "ending" /\ pc' = [pc EXCEPT ![n] = "recording"] /\ UNCHANGED <<ckpt, ends>>
          /\ reason' = [reason EXCEPT ![n] = FinalReason(n)]
      BY <2>2 DEF NameReason
    <3>2. CASE motivo[n] = "nil"
      <4>1. WriteRow(n, status[n], FinalReason(n)) /\ FinalReason(n) # "nil"
        BY <2>2, <3>2, PlainRead DEF NameReason, Rewrite, FinalReason
      <4> QED BY <3>1, <4>1, PlainWrite
    <3>3. CASE motivo[n] # "nil"
      <4>1. snap' = [snap EXCEPT ![n] = NoSnapshot] /\ UNCHANGED <<rowVars, linkVars, termVars>>
        BY <2>2, <3>3, PlainRead DEF NameReason
      <4>2. FinalReason(n) = motivo[n]
        BY <3>3, PlainRead DEF FinalReason
      <4> QED BY <3>1, <4>1, <4>2
    <3> QED BY <3>2, <3>3
  <2>3. CASE RecordFinal(n)
    <3>1. reason[n] = motivo[n] /\ pc[n] = "recording"
      BY <2>3 DEF RecordFinal
    <3>2. /\ ckpt' = ckpt \/ ckpt' = [ckpt EXCEPT ![n] = reason[n]]
          /\ pc' = [pc EXCEPT ![n] = "leaving"]
          /\ UNCHANGED <<rowVars, linkVars, localVars, termVars>>
      BY <2>3, RecordBase DEF RecordFinal
    <3> QED BY <3>1, <3>2
  <2>4. CASE Leave(n)
    BY <2>4 DEF Leave, Gone
  <2> QED BY <1>7, <2>1, <2>2, <2>3, <2>4 DEF End
<1>8. ASSUME NEW n \in Session, Wind(n) PROVE Goal
  <2>1. CASE Release(n)
    BY <2>1 DEF Release
  <2>2. CASE ExitLost(n)
    BY <2>2 DEF ExitLost, Gone
  <2>3. CASE Crash(n)
    BY <2>3 DEF Crash, Gone
  <2> QED BY <1>8, <2>1, <2>2, <2>3 DEF Wind
<1>9. ASSUME NEW n \in Session, Sweep(n) PROVE Goal
  <2>1. CASE Look(n)
    BY <2>1, EnvironmentAssumption DEF Look, JudgedStopped
  <2>2. CASE Mark(n)
    BY <2>2 DEF Mark
  <2>3. CASE Recover(n)
    BY <2>3 DEF Recover
  <2> QED BY <1>9, <2>1, <2>2, <2>3 DEF Sweep
<1>10. ASSUME NEW n \in Session, Close(n) PROVE Goal
  <2>1. CASE CloseByResearcher(n)
    BY <2>1 DEF CloseByResearcher, CloseRow, AlignCheckpoint
  <2>2. CASE DecideClosing(n) \/ WriteClosing(n)
    BY <2>2 DEF DecideClosing, WriteClosing
  <2> QED BY <1>10, <2>1, <2>2 DEF Close
<1>11. ASSUME UNCHANGED vars PROVE Goal
  BY <1>11 DEF vars
<1> HIDE DEF Goal, RowInv, NameInv, BaseInv, TypeOK, Rows, Sources, NothingPending, JudgedDead,
        OwedFine, ActiveRow, MarkedDead, NamedStop, PausedNamed, UnnamedCkpt, FinishedEnd,
        CkptAfterClaim, AliasRoot, IdleExpects, HasCkpt, Live, rowVars, linkVars, localVars, procVars,
        termVars, Touch, GoTo
<1>12. Goal
  BY <1>1, <1>2, <1>3, <1>4, <1>5, <1>6, <1>7, <1>8, <1>9, <1>10, <1>11 DEF Next
<1> QED BY <1>0, <1>12 DEF Goal, RowInv

-----------------------------------------------------------------------------
\* The verdict on a row and its checkpoint, as sets of statuses and reasons.
Continuable(st, m, c) ==
  /\ st # "active" /\ (m = "nil" \/ c = "nil" \/ m = c)
  /\ st \in UnfinishedStatuses \/ EffectiveMotivo(m, c) \in MotivosRetomaveis \union MotivosConfirmar

\* The decision of a resumption in those terms ...
LEMMA VerdictOfRow ==
  ASSUME NEW st, NEW m, NEW c
  PROVE  (Verdict(st, m, c) # "recusar") <=> Continuable(st, m, c)
BY DEF Verdict, Diverges, Continuable

\* ... and for a session of the chain.
Row(s) == HasCkpt(s) /\ Continuable(status[s], motivo[s], ckpt[s])

\* Resumable, unfolded, before and after a step.
LEMMA ResumableRow ==
  \A s \in Session : (Resumable(s) <=> Row(s)) /\ (Resumable(s)' <=> Row(s)')
<1>1. ASSUME NEW s \in Session PROVE Resumable(s) <=> Row(s)
  BY VerdictOfRow DEF Resumable, Row
<1>2. ASSUME NEW s \in Session PROVE Resumable(s)' <=> Row(s)'
  BY VerdictOfRow DEF Resumable, Row, HasCkpt
<1> QED BY <1>1, <1>2

\* What never comes back: a session that can be continued stays so; one that left
\* nothing leaves nothing; one that gives its claim back left nothing.
Forward(x) ==
  /\ Row(x) => Row(x)'
  /\ pc[x] \in {"releasing", "over"} /\ Lost(x) => Lost(x)'
  /\ pc[x] = "over" => pc'[x] = "over"
  /\ pc'[x] = "releasing" => pc[x] = "releasing" \/ Lost(x)'

\* Every step of every actor keeps it so.
LEMMA ForwardStep ==
  ASSUME ~MisjudgesLive, ~RacyUpdates, RowInv, [Next]_vars, NEW x \in Session
  PROVE  Forward(x)
<1> USE DEF RowInv, NameInv, BaseInv, TypeOK, Rows, OwedFine, ActiveRow, MarkedDead, NamedStop,
        PausedNamed, UnnamedCkpt, FinishedEnd, CkptAfterClaim, HasCkpt, Live, Forward, Row, Lost,
        Continuable, EffectiveMotivo, rowVars, linkVars, localVars, procVars, termVars, GoTo
<1>1. ASSUME NEW n \in Session, Launch(n) PROVE Forward(x)
  BY <1>1 DEF Launch, StartNew, Prepare
<1>2. ASSUME NEW n \in Session, Resume(n) PROVE Forward(x)
  <2>1. CASE CreateRow(n)
    BY <2>1 DEF CreateRow
  <2>2. CASE ClaimSource(n)
    BY <2>2 DEF ClaimSource, WinClaim, LoseClaim
  <2>3. CASE OpenCheckpoint(n)
    <3>1. ckpt' = ckpt \/ ckpt' = [ckpt EXCEPT ![n] = "nil"]
      BY <2>3 DEF OpenCheckpoint, Record
    <3> QED BY <2>3, <3>1 DEF OpenCheckpoint
  <2>4. CASE StartHeartbeat(n)
    BY <2>4 DEF StartHeartbeat
  <2>5. CASE NoRecorder(n)
    BY <2>5 DEF NoRecorder
  <2>6. CASE RefuseInputs(n)
    BY <2>6 DEF RefuseInputs
  <2> QED BY <1>2, <2>1, <2>2, <2>3, <2>4, <2>5, <2>6 DEF Resume
<1>3. ASSUME NEW n \in Session, Heartbeat(n) PROVE Forward(x)
  BY <1>3 DEF Heartbeat, Beat, Reassert, LoseSession
<1>4. ASSUME NEW n \in Session, Update(n) PROVE Forward(x)
  BY <1>4 DEF Update, Flush, Get, Put, UpdatePayload, NothingPending
<1>5. ASSUME NEW n \in Session, Stop(n) PROVE Forward(x)
  <2>1. ASSUME NEW m \in StopMotivos, CloseSession(n, m) PROVE Forward(x)
    <3>1. pc[n] = "running" /\ pc' = [pc EXCEPT ![n] = "closing"] /\ ckpt' = ckpt
      BY <2>1 DEF CloseSession
    <3>2. \E st : WriteRow(n, st, m)
      BY <2>1 DEF CloseSession, Rewrite
    <3> QED BY <3>1, <3>2, PlainWrite
  <2>2. CASE RecordStop(n)
    <3>1. reason[n] = motivo[n] /\ pc[n] = "closing" /\ pc' = [pc EXCEPT ![n] = "stopped"]
      BY <2>2 DEF RecordStop
    <3>2. UNCHANGED rowVars /\ (ckpt' = ckpt \/ ckpt' = [ckpt EXCEPT ![n] = motivo[n]])
      BY <2>2, <3>1 DEF RecordStop, Record
    <3> QED BY <3>1, <3>2
  <2>3. CASE SuspendSession(n)
    <3>1. WriteRow(n, "aguarda_pesquisador", "aguarda_pesquisador")
      BY <2>3 DEF SuspendSession
    <3> QED BY <2>3, <3>1, PlainWrite DEF SuspendSession
  <2>4. CASE FinishLoop(n) \/ Return(n)
    BY <2>4 DEF FinishLoop, Return
  <2> QED BY <1>5, <2>1, <2>2, <2>3, <2>4 DEF Stop
<1>6. ASSUME NEW n \in Session, Abort(n) PROVE Forward(x)
  <2>1. ASSUME NEW m \in {"interrompida", "erro"}, Raise(n, m) PROVE Forward(x)
    <3>1. status[n] = "active" /\ UNCHANGED rowVars
      BY <2>1 DEF Raise
    <3>2. ckpt' = ckpt \/ ckpt' = [ckpt EXCEPT ![n] = m]
      BY <2>1 DEF Raise, Record
    <3> QED BY <2>1, <3>1, <3>2 DEF Raise
  <2>2. CASE RecordInterrupt(n)
    <3>1. WriteRow(n, "interrompida", "interrompida") /\ status[n] = "active"
      BY <2>2 DEF RecordInterrupt
    <3> QED BY <2>2, <3>1, PlainWrite DEF RecordInterrupt
  <2>3. CASE RecordError(n)
    <3>1. WriteRow(n, "closed", "erro") /\ status[n] = "active"
      BY <2>3 DEF RecordError
    <3> QED BY <2>3, <3>1, PlainWrite DEF RecordError
  <2> QED BY <1>6, <2>1, <2>2, <2>3 DEF Abort
<1>7. ASSUME NEW n \in Session, End(n) PROVE Forward(x)
  <2>1. ASSUME NEW final \in {"success", "failed"}, WriteFinal(n, final) PROVE Forward(x)
    <3>1. /\ pc[n] = "returned" /\ pc' = [pc EXCEPT ![n] = "ending"] /\ ckpt' = ckpt
          /\ \/ WriteRow(n, status[n], motivo[n])
             \/ status[n] \notin UnfinishedStatuses /\ WriteRow(n, final, motivo[n])
      BY <2>1, PlainRead DEF WriteFinal
    <3> QED BY <3>1, PlainWrite
  <2>2. CASE NameReason(n)
    <3>1. pc[n] = "ending" /\ pc' = [pc EXCEPT ![n] = "recording"] /\ ckpt' = ckpt
      BY <2>2 DEF NameReason
    <3>2. CASE motivo[n] = "nil"
      <4>1. status[n] \notin UnfinishedStatuses /\ ckpt[n] \in {"nil", "absent"}
        BY <3>1, <3>2
      <4>2. ~Row(n)
        BY <3>2, <4>1 DEF MotivosRetomaveis, MotivosConfirmar
      <4>3. \E st, m : WriteRow(n, st, m)
        BY <2>2, <3>2, PlainRead DEF NameReason, Rewrite
      <4> QED BY <3>1, <4>2, <4>3, PlainWrite
    <3>3. CASE motivo[n] # "nil"
      BY <2>2, <3>1, <3>3, PlainRead DEF NameReason
    <3> QED BY <3>2, <3>3
  <2>3. CASE RecordFinal(n)
    <3>1. reason[n] = motivo[n] /\ pc[n] = "recording" /\ pc' = [pc EXCEPT ![n] = "leaving"]
      BY <2>3 DEF RecordFinal
    <3>2. UNCHANGED rowVars /\ (ckpt' = ckpt \/ ckpt' = [ckpt EXCEPT ![n] = motivo[n]])
      BY <2>3, <3>1 DEF RecordFinal, Record
    <3>3. Row(n) => Row(n)'
      <4>1. motivo[n] = "nil" => ckpt[n] \in {"nil", "absent"}
        BY <3>1
      <4>2. motivo[n] # "absent"
        BY DEF Motivos, MotivosRetomaveis, MotivosConfirmar
      <4> QED BY <3>1, <3>2, <4>1, <4>2
    <3>4. x # n => Forward(x)
      BY <3>1, <3>2
    <3> QED BY <3>1, <3>3, <3>4
  <2>4. CASE Leave(n)
    BY <2>4 DEF Leave, Gone
  <2> QED BY <1>7, <2>1, <2>2, <2>3, <2>4 DEF End
<1>8. ASSUME NEW n \in Session, Wind(n) PROVE Forward(x)
  BY <1>8 DEF Wind, Release, ExitLost, Crash, Gone
<1>9. ASSUME NEW n \in Session, Sweep(n) PROVE Forward(x)
  <2>1. CASE Look(n)
    BY <2>1 DEF Look
  <2>2. CASE Mark(n)
    BY <2>2 DEF Mark
  <2>3. CASE Recover(n)
    BY <2>3 DEF Recover
  <2> QED BY <1>9, <2>1, <2>2, <2>3 DEF Sweep
<1>10. ASSUME NEW n \in Session, Close(n) PROVE Forward(x)
  <2>1. CASE CloseByResearcher(n)
    BY <2>1 DEF CloseByResearcher, CloseRow, AlignCheckpoint, MotivosConfirmar
  <2>2. CASE DecideClosing(n) \/ WriteClosing(n)
    BY <2>2 DEF DecideClosing, WriteClosing
  <2> QED BY <1>10, <2>1, <2>2 DEF Close
<1>11. ASSUME UNCHANGED vars PROVE Forward(x)
  BY <1>11 DEF vars
<1> HIDE DEF RowInv, Forward
<1> QED BY <1>1, <1>2, <1>3, <1>4, <1>5, <1>6, <1>7, <1>8, <1>9, <1>10, <1>11 DEF Next
-----------------------------------------------------------------------------
(***************************************************************************)
(* The claims.  For them, every step is of one of five kinds.              *)
(***************************************************************************)

\* A step that changes no claim and no source, and lets no session begin.
Quiet(n) ==
  /\ UNCHANGED <<claim, source, expect>>
  /\ \A x \in Session : /\ Live(x)' => Live(x)
                        /\ Past(x) => Past(x)' /\ alias'[x] = alias[x]
                        /\ Past(x)' => Past(x) \/ (pc'[x] = "over" /\ Lost(x)')
                        /\ pc'[x] = "idle" <=> pc[x] = "idle"
                        /\ x # n => pc'[x] = pc[x]

Claims(n) == pc[n] = "created" /\ WinClaim(n, source[n])

Kind(n) == \/ StartNew(n) \/ (\E s \in Session : Prepare(n, s)) \/ Claims(n)
           \/ Release(n) \/ Quiet(n)

\* A live session whose row nobody claimed keeps it unclaimed.
LEMMA LiveUnclaimed ==
  ASSUME RowInv, Chosen, NEW n \in Session, Live(n) \/ status[n] = "active"
  PROVE  claim[n] = NoSession
<1>1. status[n] = "active"
  BY DEF RowInv, ActiveRow
<1>2. ASSUME NEW c \in Session, claim[n] = c PROVE FALSE
  <2>1. source[c] = n
    BY <1>2, NoSessionAssumption DEF RowInv, NameInv, ClaimNamesContinuer
  <2> QED BY <1>1, <2>1 DEF Chosen, Resumable, Verdict
<1> QED BY <1>2 DEF RowInv, NameInv, BaseInv, TypeOK

\* A step begins a research, prepares, claims a source, gives a claim back, or is quiet.
LEMMA StepKinds ==
  ASSUME ~MisjudgesLive, ~RacyUpdates, RowInv, Chosen, [Next]_vars
  PROVE  UNCHANGED vars \/ \E n \in Session : Kind(n)
<1> USE DEF RowInv, NameInv, BaseInv, TypeOK, Rows, Live, Past, Quiet,
        rowVars, linkVars, localVars, procVars, termVars, GoTo
<1>1. ASSUME NEW n \in Session, Launch(n) PROVE Kind(n)
  BY <1>1 DEF Launch, Kind
\* Only the process of n moves, the claims and the sources stay.
<1>2. ASSUME NEW n \in Session, UNCHANGED <<claim, alias, source, expect>>,
             \A x \in Session \ {n} : pc'[x] = pc[x],
             pc[n] \notin {"idle", "prepared", "created"},
             pc'[n] \notin {"idle", "prepared", "created"},
             pc'[n] \in Executing => pc[n] \in Executing
      PROVE  Quiet(n)
  BY <1>2
<1>3. ASSUME NEW n \in Session, Resume(n) PROVE Kind(n)
  <2>1. CASE CreateRow(n)
    <3>1. Quiet(n)
      BY <2>1 DEF CreateRow
    <3> QED BY <3>1 DEF Kind
  <2>2. CASE ClaimSource(n) /\ LoseClaim(n, source[n])
    <3>1. Lost(n)'
      BY <2>2 DEF ClaimSource, LoseClaim, Lost
    <3>2. Quiet(n)
      BY <2>2, <3>1 DEF ClaimSource, LoseClaim
    <3> QED BY <3>2 DEF Kind
  <2>3. CASE ClaimSource(n) /\ WinClaim(n, source[n])
    BY <2>3 DEF ClaimSource, Claims, Kind
  <2>4. CASE OpenCheckpoint(n) \/ StartHeartbeat(n)
    <3>1. Quiet(n)
      BY <2>4, <1>2 DEF OpenCheckpoint, StartHeartbeat
    <3> QED BY <3>1 DEF Kind
  <2>5. CASE NoRecorder(n) \/ RefuseInputs(n)
    <3>1. claim[n] = NoSession
      BY <2>5, LiveUnclaimed DEF NoRecorder, RefuseInputs
    <3>2. Quiet(n)
      BY <2>5, <3>1, <1>2 DEF NoRecorder, RefuseInputs
    <3> QED BY <3>2 DEF Kind
  <2> QED BY <1>3, <2>1, <2>2, <2>3, <2>4, <2>5 DEF Resume, ClaimSource
<1>4. ASSUME NEW n \in Session, Heartbeat(n) PROVE Quiet(n)
  BY <1>4 DEF Heartbeat, Beat, Reassert, LoseSession
<1>5. ASSUME NEW n \in Session, Update(n) PROVE Quiet(n)
  BY <1>5, <1>2 DEF Update, Flush, Get, Put, UpdatePayload, NothingPending
<1>6. ASSUME NEW n \in Session,
             \/ SuspendSession(n) \/ RecordInterrupt(n) \/ RecordError(n)
             \/ (\E m \in StopMotivos : CloseSession(n, m))
             \/ (\E final \in {"success", "failed"} : WriteFinal(n, final))
      PROVE  Quiet(n)
  <2>1. PICK st \in RowStatuses, m \in Motivos : WriteRow(n, st, m)
    BY <1>6, OwnWrites DEF RowWritten
  <2>2. /\ pc[n] \in {"running", "failing", "returned"}
        /\ \E label \in {"closing", "stopped", "over", "releasing", "ending"} :
             pc' = [pc EXCEPT ![n] = label]
    BY <1>6 DEF SuspendSession, RecordInterrupt, RecordError, CloseSession, WriteFinal
  <2>3. UNCHANGED <<claim, alias, source, expect>>
    BY <2>1, PlainWrite
  <2> QED BY <1>2, <2>2, <2>3
<1>7. ASSUME NEW n \in Session, Stop(n) PROVE Quiet(n)
  BY <1>2, <1>6, <1>7 DEF Stop, RecordStop, FinishLoop, Return
<1>8. ASSUME NEW n \in Session, Abort(n) PROVE Quiet(n)
  BY <1>2, <1>6, <1>8 DEF Abort, Raise
<1>9. ASSUME NEW n \in Session, End(n) PROVE Quiet(n)
  <2>1. CASE NameReason(n)
    <3>1. pc[n] = "ending" /\ pc' = [pc EXCEPT ![n] = "recording"]
      BY <2>1 DEF NameReason
    <3>2. UNCHANGED <<claim, alias, source, expect>>
      <4>1. CASE \E st, m : WriteRow(n, st, m)
        BY <4>1, PlainWrite
      <4>2. CASE UNCHANGED <<rowVars, linkVars>>
        BY <4>2
      <4> QED BY <2>1, <4>1, <4>2 DEF NameReason, Rewrite
    <3> QED BY <1>2, <3>1, <3>2
  <2>2. CASE RecordFinal(n) \/ Leave(n)
    BY <1>2, <2>2 DEF RecordFinal, Leave, Gone
  <2> QED BY <1>6, <1>9, <2>1, <2>2 DEF End
<1>10. ASSUME NEW n \in Session, Wind(n) PROVE Kind(n)
  <2>1. CASE ExitLost(n) \/ Crash(n)
    <3>1. UNCHANGED <<rowVars, ckpt, linkVars>> /\ pc[n] # "idle" /\ pc' = [pc EXCEPT ![n] = "over"]
      BY <2>1 DEF ExitLost, Crash, Gone
    <3>2. ~Past(n) => Lost(n)'
      BY <3>1 DEF Lost, HasCkpt, CkptAfterClaim
    <3>3. Quiet(n)
      BY <3>1, <3>2
    <3> QED BY <3>3 DEF Kind
  <2> QED BY <1>10, <2>1 DEF Wind, Kind
<1>11. ASSUME NEW n \in Session, Sweep(n) \/ Close(n) PROVE Quiet(n)
  BY <1>11 DEF Sweep, Look, Mark, Recover, Close, CloseByResearcher, DecideClosing, WriteClosing,
     CloseRow
<1> HIDE DEF RowInv, Quiet
<1> QED BY <1>1, <1>3, <1>4, <1>5, <1>7, <1>8, <1>9, <1>10, <1>11 DEF Next, Kind
-----------------------------------------------------------------------------
\* Whom a claim names, in the terms the tips need.
LEMMA ClaimFacts ==
  ASSUME RowInv, NEW s \in Session, NEW n \in Session, claim[s] = n
  PROVE  source[n] = s /\ alias[n] = alias[s] /\ Past(n)
BY NoSessionAssumption DEF RowInv, NameInv, ClaimNamesContinuer, Past

\* What was passed over stays so; only Prepare passes a session over, and that one
\* left nothing, is dead and is the source of nobody.
LEMMA PassedStep ==
  ASSUME ~MisjudgesLive, ~RacyUpdates, TimelyInv, [Next]_vars, NEW x \in Session
  PROVE  /\ PassedOver(x) => PassedOver(x)'
         /\ PassedOver(x)' => \/ PassedOver(x)
                              \/ Past(x) /\ ~Live(x) /\ ~Resumable(x)
<1> USE DEF TimelyInv, RowInv, NameInv, BaseInv, TypeOK
<1>1. CASE UNCHANGED vars
  BY <1>1 DEF vars, PassedOver
<1>2. ASSUME NEW n \in Session, NEW s \in Session, Prepare(n, s)
      PROVE  /\ PassedOver(x) => PassedOver(x)'
             /\ PassedOver(x)' => \/ PassedOver(x)
                                  \/ Past(x) /\ ~Live(x) /\ ~Resumable(x)
  <2>1. expect' = [expect EXCEPT ![n] = claim[s]] /\ (Unclaimed(s) \/ ClaimIsStale(s)) /\ pc[n] = "idle"
    BY <1>2 DEF Prepare
  <2>2. claim[s] = x => Past(x) /\ ~Live(x) /\ ~Resumable(x)
    BY <2>1, ClaimFacts, NoSessionAssumption DEF Unclaimed, ClaimIsStale, ActiveRow
  <2>3. expect[n] # x
    BY <2>1, NoSessionAssumption DEF IdleExpects
  <2> QED BY <2>1, <2>2, <2>3 DEF PassedOver
<1>3. ASSUME NEW n \in Session, StartNew(n) \/ Claims(n) \/ Release(n) \/ Quiet(n)
      PROVE  PassedOver(x)' <=> PassedOver(x)
  BY <1>3 DEF StartNew, Claims, WinClaim, Release, Quiet, PassedOver, linkVars
<1> QED BY <1>1, <1>2, <1>3, StepKinds DEF Kind

\* A source was chosen among those that can be continued, and they stay so.
LEMMA ChosenStep ==
  ASSUME ~MisjudgesLive, ~RacyUpdates, ~TakesUpPassed, TimelyInv, [Next]_vars
  PROVE  Chosen'
<1> SUFFICES ASSUME NEW n \in Session, NEW s \in Session, source'[n] = s
             PROVE  Resumable(s)' /\ ~PassedOver(s)'
  BY DEF Chosen
<1>1. Resumable(s) => Resumable(s)'
  BY ForwardStep, ResumableRow DEF Forward, TimelyInv
<1>2. Resumable(s) /\ ~PassedOver(s) => ~PassedOver(s)'
  BY PassedStep
<1>3. CASE source[n] = s
  BY <1>1, <1>2, <1>3 DEF TimelyInv, Chosen
<1>4. CASE source[n] # s
  <2>1. PICK k \in Session, a \in Session : Prepare(k, a)
    BY <1>4, StepKinds
    DEF Kind, StartNew, Claims, WinClaim, Release, Quiet, vars, linkVars, TimelyInv
  <2>2. Resumable(s) /\ ~PassedOver(s)
    BY <1>4, <2>1, EnvironmentAssumption DEF Prepare, TimelyInv, RowInv, NameInv, BaseInv, TypeOK
  <2> QED BY <1>1, <1>2, <2>2
<1> QED BY <1>3, <1>4

\* Who was passed over is dead; who gives its claim back left nothing.
LEMMA DeadStep ==
  ASSUME ~MisjudgesLive, ~RacyUpdates, TimelyInv, [Next]_vars
  PROVE  PassedDead' /\ ReleasingBad'
<1>1. ASSUME NEW x \in Session, PassedOver(x)' PROVE Past(x)' /\ ~Live(x)'
  <2>1. Past(x) /\ ~Live(x)
    BY <1>1, PassedStep DEF TimelyInv, PassedDead
  <2>2. Past(x)'
    BY <2>1, StepFacts DEF TimelyInv, RowInv
  <2>3. ASSUME UNCHANGED vars PROVE ~Live(x)'
    BY <2>1, <2>3 DEF vars, Live
  <2>4. ASSUME NEW n \in Session, Kind(n) PROVE ~Live(x)'
    BY <2>1, <2>4
    DEF Kind, StartNew, Prepare, Claims, WinClaim, Release, Quiet, Live, Past, GoTo,
        TimelyInv, RowInv, NameInv, BaseInv, TypeOK
  <2> QED BY <2>2, <2>3, <2>4, StepKinds DEF TimelyInv
<1>2. ASSUME NEW x \in Session, pc'[x] = "releasing" PROVE Lost(x)'
  BY <1>2, ForwardStep DEF Forward, TimelyInv, ReleasingBad
<1> QED BY <1>1, <1>2 DEF PassedDead, ReleasingBad

\* A session that can be continued left something.
LEMMA LostIsNotResumable ==
  ASSUME NEW x \in Session, Lost(x) PROVE ~Resumable(x)
BY ResumableRow
DEF Lost, Row, Continuable, EffectiveMotivo, MotivosRetomaveis, MotivosConfirmar

\* A source holds its place.
LEMMA SourceHolds ==
  ASSUME TimelyInv, NEW s \in Session, NEW n \in Session, source[n] = s
  PROVE  Holds(s) /\ Past(s)
<1>1. Resumable(s) /\ ~PassedOver(s)
  BY DEF TimelyInv, Chosen
<1>2. Past(s)
  BY <1>1 DEF Resumable, TimelyInv, RowInv, CkptAfterClaim, Past
<1> QED BY <1>1, <1>2, LostIsNotResumable DEF TimelyInv, Trunk

\* A session that executes holds its place, and nobody claimed it.
LEMMA LiveIsTip ==
  ASSUME TimelyInv, NEW n \in Session, Live(n)
  PROVE  Tip(n)
<1>1. Past(n) /\ ~PassedOver(n) /\ pc[n] # "over"
  BY DEF Live, Past, TimelyInv, PassedDead
<1>2. claim[n] = NoSession
  BY LiveUnclaimed DEF TimelyInv
<1> QED BY <1>1, <1>2 DEF TimelyInv, Trunk, Tip, Unclaimed

\* What a won claim changes, and whom it replaces: the tip of the research.
LEMMA ClaimTakesTip ==
  ASSUME TimelyInv, NEW n \in Session, Claims(n)
  PROVE  \E s, t \in Session :
           /\ source[n] = s /\ claim' = [claim EXCEPT ![s] = n] /\ s # n
           /\ UNCHANGED <<alias, source, expect>> /\ pc' = [pc EXCEPT ![n] = "admitted"]
           /\ alias[n] = alias[s] /\ claim[n] = NoSession /\ ~Past(n)
           /\ Tip(t) /\ alias[t] = alias[n] /\ t # n
           /\ (t = s /\ claim[s] = NoSession) \/ (claim[s] = t /\ PassedOver(t))
<1> USE DEF TimelyInv, RowInv, NameInv, BaseInv, TypeOK
<1>1. PICK s \in Session : source[n] = s
  BY DEF Claims, Sources
<1>2. /\ claim[s] = expect[n] /\ claim' = [claim EXCEPT ![s] = n]
      /\ UNCHANGED <<alias, source, expect>> /\ pc' = [pc EXCEPT ![n] = "admitted"]
      /\ pc[n] = "created" /\ status[n] # "absent" /\ status[n] = "active"
  BY <1>1 DEF Claims, WinClaim, linkVars, GoTo, Rows, ActiveRow
<1>3. claim[n] = NoSession /\ ~Past(n) /\ alias[n] = alias[s]
  BY <1>1, <1>2, LiveUnclaimed, NoSessionAssumption DEF ChainAlias, Past
<1>4. Holds(s) /\ s # n
  BY <1>1, <1>3, SourceHolds
<1>5. CASE claim[s] = NoSession
  BY <1>1, <1>2, <1>3, <1>4, <1>5 DEF Tip, Unclaimed
<1>6. ASSUME NEW t \in Session, claim[s] = t
      PROVE  Tip(t) /\ alias[t] = alias[n] /\ t # n /\ PassedOver(t)
  <2>1. source[t] = s /\ alias[t] = alias[s] /\ Past(t)
    BY <1>6, ClaimFacts
  <2>2. PassedOver(t)
    BY <1>2, <1>6 DEF PassedOver
  <2>3. claim[t] = NoSession
    <3>1. \A c \in Session : claim[t] # c
      BY <2>2, ClaimFacts DEF Chosen
    <3> QED BY <3>1
  <2> QED BY <1>3, <1>6, <2>1, <2>2, <2>3, NoSessionAssumption DEF Tip, Holds, Unclaimed
<1>7. claim[s] = NoSession \/ \E t \in Session : claim[s] = t
  OBVIOUS
<1> QED BY <1>1, <1>2, <1>3, <1>4, <1>5, <1>6, <1>7

\* Nobody loses its place but who is passed over, or ended with nothing.
LEMMA TrunkStep ==
  ASSUME ~MisjudgesLive, ~RacyUpdates, TimelyInv, [Next]_vars
  PROVE  Trunk'
<1> SUFFICES ASSUME NEW x \in Session, Past(x)', ~PassedOver(x)'
             PROVE  Holds(x)' \/ (pc'[x] = "over" /\ Lost(x)')
  BY DEF Trunk
<1> USE DEF TimelyInv, RowInv, NameInv, BaseInv, TypeOK
<1>1. ~PassedOver(x)
  BY PassedStep
<1>2. /\ pc[x] \in {"over", "releasing"} /\ Lost(x) => Lost(x)'
      /\ pc[x] = "over" => pc'[x] = "over"
  BY ForwardStep DEF Forward
<1>3. Past(x) => Holds(x) \/ (pc[x] = "over" /\ Lost(x))
  BY <1>1 DEF Trunk
<1>4. CASE UNCHANGED vars
  BY <1>2, <1>3, <1>4 DEF vars, Past, Holds
<1>5. ASSUME NEW n \in Session, StartNew(n)
      PROVE  Holds(x)' \/ (pc'[x] = "over" /\ Lost(x)')
  <2>1. /\ pc[n] = "idle" /\ pc' = [pc EXCEPT ![n] = "admitted"] /\ UNCHANGED <<claim, source>>
        /\ source[n] = NoSession
    BY <1>5 DEF StartNew, GoTo, linkVars, Sources
  <2> QED BY <1>2, <1>3, <2>1 DEF Holds, Past
<1>6. ASSUME NEW n \in Session, NEW s \in Session, Prepare(n, s)
      PROVE  Holds(x)' \/ (pc'[x] = "over" /\ Lost(x)')
  <2>1. /\ pc[n] = "idle" /\ pc' = [pc EXCEPT ![n] = "prepared"] /\ claim' = claim
        /\ source' = [source EXCEPT ![n] = s]
    BY <1>6 DEF Prepare, GoTo, rowVars
  <2> QED BY <1>2, <1>3, <2>1 DEF Holds, Past
<1>7. ASSUME NEW n \in Session, Claims(n)
      PROVE  Holds(x)' \/ (pc'[x] = "over" /\ Lost(x)')
  <2>1. PICK s \in Session :
          /\ source[n] = s /\ claim' = [claim EXCEPT ![s] = n] /\ source' = source
          /\ pc' = [pc EXCEPT ![n] = "admitted"]
          /\ claim[s] = NoSession \/ PassedOver(claim[s])
    BY <1>7, ClaimTakesTip
  <2>2. CASE x = n
    BY <2>1, <2>2, NoSessionAssumption DEF Holds
  <2>3. CASE x # n /\ Holds(x)
    <3>1. claim[s] # x
      BY <1>1, <2>1, NoSessionAssumption
    <3> QED BY <2>1, <2>3, <3>1 DEF Holds
  <2> QED BY <1>2, <1>3, <2>1, <2>2, <2>3 DEF Past
<1>8. ASSUME NEW n \in Session, Release(n)
      PROVE  Holds(x)' \/ (pc'[x] = "over" /\ Lost(x)')
  <2>1. /\ pc[n] = "releasing" /\ pc' = [pc EXCEPT ![n] = "over"] /\ source' = source /\ Lost(n)
        /\ \A y \in Session : claim'[y] = claim[y] \/ claim[y] = n
    BY <1>8 DEF Release, GoTo, linkVars, ReleasingBad
  <2>2. CASE x = n
    BY <1>2, <2>1, <2>2
  <2>3. CASE x # n
    BY <1>2, <1>3, <2>1, <2>3 DEF Holds, Past
  <2> QED BY <2>2, <2>3
<1>9. ASSUME NEW n \in Session, Quiet(n)
      PROVE  Holds(x)' \/ (pc'[x] = "over" /\ Lost(x)')
  BY <1>2, <1>3, <1>9 DEF Quiet, Holds
<1> QED BY <1>4, <1>5, <1>6, <1>7, <1>8, <1>9, StepKinds DEF Kind
-----------------------------------------------------------------------------
(***************************************************************************)
(* The heart of the argument: each kind of step keeps the tip unique.      *)
(***************************************************************************)

\* A new research has no tip but its first session; no other step of a process that
\* has claimed nothing changes the tips.
LEMMA QuietTips ==
  ASSUME ~MisjudgesLive, ~RacyUpdates, TimelyInv, [Next]_vars, NEW n \in Session,
         StartNew(n) \/ (\E s \in Session : Prepare(n, s)) \/ Quiet(n)
  PROVE  UniqueTip'
<1> USE DEF TimelyInv, RowInv, NameInv, BaseInv, TypeOK
<1>1. /\ claim' = claim
      /\ \A x \in Session \ {n} : source'[x] = source[x] /\ (pc'[x] = "idle" <=> pc[x] = "idle")
  BY DEF StartNew, Prepare, Quiet, GoTo, rowVars, linkVars
<1>2. ASSUME NEW x \in Session, Tip(x)', ~(x = n /\ StartNew(n))
      PROVE  Tip(x) /\ alias'[x] = alias[x]
  <2>1. CASE x # n
    <3>1. Tip(x)
      BY <1>1, <1>2, <2>1 DEF Tip, Holds, Unclaimed
    <3>2. Past(x)
      <4>1. source[x] # NoSession => claim[source[x]] = x /\ source[x] \in Session
        BY <3>1 DEF Tip, Holds
      <4>2. source[x] = NoSession => pc[x] # "idle"
        BY <3>1 DEF Tip, Holds
      <4> QED BY <4>1, <4>2, ClaimFacts DEF Past, Sources
    <3> QED BY <2>1, <3>1, <3>2 DEF StartNew, Prepare, Quiet, rowVars
  <2>2. CASE x = n /\ \E s \in Session : Prepare(n, s)
    <3>1. PICK s \in Session : /\ pc[n] = "idle" /\ source' = [source EXCEPT ![n] = s]
                               /\ claim' = claim
      BY <2>2 DEF Prepare, rowVars
    <3>2. claim[s] # n
      BY <3>1, ClaimFacts DEF Past
    <3> QED BY <1>2, <2>2, <3>1, <3>2, NoSessionAssumption DEF Tip, Holds
  <2>3. CASE x = n /\ Quiet(n)
    <3>1. Tip(n)
      BY <1>2, <2>3 DEF Quiet, Tip, Holds, Unclaimed
    <3>2. source[n] # NoSession => claim[source[n]] = n /\ source[n] \in Session
      BY <3>1 DEF Tip, Holds
    <3>3. source[n] = NoSession => pc[n] # "idle"
      BY <3>1 DEF Tip, Holds
    <3>4. Past(n)
      BY <3>2, <3>3, ClaimFacts DEF Past, Sources
    <3> QED BY <2>3, <3>1, <3>4 DEF Quiet
  <2> QED BY <1>2, <2>1, <2>2, <2>3
<1>3. CASE StartNew(n)
  <2>1. alias'[n] = n /\ \A x \in Session \ {n} : alias'[x] # n
    BY <1>3, NoSessionAssumption DEF StartNew, AliasRoot
  <2> QED BY <1>2, <2>1 DEF UniqueTip
<1>4. CASE ~StartNew(n)
  BY <1>2, <1>4 DEF UniqueTip
<1> QED BY <1>3, <1>4

\* A claim takes the place of the tip.
LEMMA ClaimTips ==
  ASSUME ~MisjudgesLive, ~RacyUpdates, TimelyInv, [Next]_vars, NEW n \in Session, Claims(n)
  PROVE  UniqueTip'
<1> USE DEF TimelyInv, RowInv, NameInv, BaseInv, TypeOK
<1>1. PICK s \in Session, t \in Session :
        /\ source[n] = s /\ claim' = [claim EXCEPT ![s] = n] /\ s # n
        /\ UNCHANGED <<alias, source, expect>> /\ pc' = [pc EXCEPT ![n] = "admitted"]
        /\ alias[n] = alias[s] /\ claim[n] = NoSession /\ ~Past(n)
        /\ Tip(t) /\ alias[t] = alias[n] /\ t # n
        /\ (t = s /\ claim[s] = NoSession) \/ (claim[s] = t /\ PassedOver(t))
  BY ClaimTakesTip
<1>2. ASSUME NEW x \in Session \ {n}, Tip(x)' PROVE Tip(x) /\ x # t
  <2>1. x # s
    BY <1>1, <1>2, NoSessionAssumption DEF Tip, Unclaimed
  <2>2. Tip(x)
    BY <1>1, <1>2, <2>1 DEF Tip, Holds, Unclaimed
  <2>3. CASE claim[s] = t
    <3>1. source[t] = s /\ source[t] # NoSession
      BY <2>3, ClaimFacts, NoSessionAssumption
    <3>2. ~Holds(t)'
      BY <1>1, <3>1 DEF Holds
    <3> QED BY <1>2, <2>2, <3>2 DEF Tip
  <2> QED BY <1>1, <2>1, <2>2, <2>3
<1>3. ASSUME NEW x \in Session \ {n}, Tip(x)', alias'[x] = alias'[n] PROVE FALSE
  BY <1>1, <1>2, <1>3 DEF UniqueTip
<1>4. ASSUME NEW x \in Session \ {n}, NEW y \in Session \ {n}, Tip(x)', Tip(y)',
             alias'[x] = alias'[y]
      PROVE  x = y
  BY <1>1, <1>2, <1>4 DEF UniqueTip
<1> QED BY <1>3, <1>4 DEF UniqueTip

\* A claim given back was the claim of the tip, and its source takes the place back.
LEMMA ReleaseTips ==
  ASSUME ~MisjudgesLive, ~RacyUpdates, TimelyInv, [Next]_vars, NEW n \in Session, Release(n)
  PROVE  UniqueTip'
<1> USE DEF TimelyInv, RowInv, NameInv, BaseInv, TypeOK
<1>1. PICK s \in Session : source[n] = s
  BY DEF Release, Sources
<1>2. /\ claim' = [claim EXCEPT ![s] = IF @ = n THEN NoSession ELSE @]
      /\ UNCHANGED <<alias, source>> /\ pc' = [pc EXCEPT ![n] = "over"] /\ pc[n] = "releasing"
  BY <1>1 DEF Release, GoTo, linkVars
<1>3. CASE claim[s] # n
  <2>1. claim' = claim
    BY <1>2, <1>3
  <2> QED BY <1>2, <2>1 DEF UniqueTip, Tip, Holds, Unclaimed
<1>4. CASE claim[s] = n
  <2>1. claim[n] = NoSession
    <3>1. ~Resumable(n)
      BY <1>2, LostIsNotResumable DEF ReleasingBad
    <3>2. \A c \in Session : claim[n] # c
      BY <3>1, ClaimFacts DEF Chosen
    <3> QED BY <3>2
  <2>2. Tip(n) /\ alias[n] = alias[s]
    BY <1>1, <1>4, <2>1, ClaimFacts, NoSessionAssumption DEF Tip, Holds, Unclaimed
  <2>3. ASSUME NEW x \in Session, Tip(x)' PROVE x = s \/ (Tip(x) /\ x # n)
    <3>1. x # n
      BY <1>1, <1>2, <1>4, <2>3, NoSessionAssumption DEF Tip, Holds
    <3>2. CASE x # s
      <4>1. claim'[x] = claim[x] /\ Unclaimed(x)
        BY <1>2, <2>3, <3>2 DEF Tip, Unclaimed
      <4>2. Holds(x)
        BY <1>2, <1>4, <2>3, <3>1, NoSessionAssumption DEF Tip, Holds
      <4> QED BY <3>1, <4>1, <4>2 DEF Tip
    <3> QED BY <3>2
  <2>4. ASSUME NEW x \in Session, Tip(x), x # n, alias[x] = alias[n] PROVE FALSE
    BY <2>2, <2>4 DEF UniqueTip
  <2> QED BY <1>2, <2>2, <2>3, <2>4 DEF UniqueTip
<1> QED BY <1>3, <1>4

\* TimelyInv holds before any session was launched.
LEMMA TimelyInit == Init => TimelyInv
BY RowInit, NoSessionAssumption
DEF Init, TimelyInv, Chosen, PassedDead, PassedOver, Trunk, ReleasingBad, UniqueTip, Tip, Holds,
    Past

\* Every action keeps TimelyInv.
LEMMA TimelyStep ==
  ASSUME ~MisjudgesLive, ~RacyUpdates, ~TakesUpPassed
  PROVE  TimelyInv /\ [Next]_vars => TimelyInv'
<1> SUFFICES ASSUME TimelyInv, [Next]_vars PROVE TimelyInv'
  OBVIOUS
<1>1. RowInv'
  BY RowStep DEF TimelyInv
<1>2. Chosen' /\ PassedDead' /\ ReleasingBad' /\ Trunk'
  BY ChosenStep, DeadStep, TrunkStep
<1>3. UniqueTip'
  <2>1. CASE UNCHANGED vars
    BY <2>1 DEF vars, TimelyInv, UniqueTip, Tip, Holds, Unclaimed
  <2> QED BY <2>1, StepKinds, QuietTips, ClaimTips, ReleaseTips DEF Kind, TimelyInv
<1> QED BY <1>1, <1>2, <1>3 DEF TimelyInv

\* TimelyInv holds throughout.
LEMMA TimelyAlways ==
  ASSUME ~MisjudgesLive, ~RacyUpdates, ~TakesUpPassed
  PROVE  Spec => []TimelyInv
<1>1. TimelyInv /\ [Next]_vars => TimelyInv'
  BY TimelyStep
<1> QED BY <1>1, TimelyInit, PTL DEF Spec

\* A research is carried on by one session at a time, for any number of sessions,
\* when live processes keep their rows fresh, pairs of steps are not interleaved
\* and nobody takes up a session that was passed over.
THEOREM OneLive ==
  ASSUME ~MisjudgesLive, ~RacyUpdates, ~TakesUpPassed
  PROVE  Spec => []OneLiveSession
<1>1. TimelyInv => OneLiveSession
  BY LiveIsTip DEF OneLiveSession, TimelyInv, UniqueTip
<1> QED BY <1>1, TimelyAlways, PTL

\* Of two sessions that continued the same source and can both be continued, a
\* resumption passed over one.
THEOREM HistoryDoesNotFork ==
  ASSUME ~MisjudgesLive, ~RacyUpdates, ~TakesUpPassed
  PROVE  Spec => []NoFork
<1>1. TimelyInv => NoFork
  <2> SUFFICES ASSUME TimelyInv, NEW n \in Session, NEW m \in Session, n # m,
                      source[n] # NoSession, source[n] = source[m], Resumable(n), Resumable(m),
                      ~PassedOver(n), ~PassedOver(m)
               PROVE  FALSE
    BY DEF NoFork
  <2>1. Past(n) /\ Past(m)
    BY DEF Resumable, Past, TimelyInv, RowInv, CkptAfterClaim
  <2>2. Holds(n) /\ Holds(m)
    BY <2>1, LostIsNotResumable DEF TimelyInv, Trunk
  <2> QED BY <2>2 DEF Holds
<1> QED BY <1>1, TimelyAlways, PTL

-----------------------------------------------------------------------------
(***************************************************************************)
(* What a decision is worth later.  Neither needs ~TakesUpPassed.          *)
(***************************************************************************)

\* A session that can be continued stays so.
ContinuableStays == \A s \in Session : Resumable(s) => Resumable(s)'

\* What prepare_resume found of its source (the row, the checkpoint) still holds
\* when claim_continuation, which looks at the claim only, takes it.
THEOREM ContinuableForGood ==
  ASSUME ~MisjudgesLive, ~RacyUpdates
  PROVE  Spec => [][ContinuableStays]_vars
<1>1. RowInv /\ [Next]_vars => RowInv' /\ ContinuableStays
  BY RowStep, ForwardStep, ResumableRow DEF Forward, ContinuableStays
<1> QED BY <1>1, RowInit, PTL DEF Spec

\* c is dead, and its row is finished or its checkpoint missing: neither a sweep nor
\* the researcher writes the reason of one again.
LeftForGood(c) == pc[c] = "over" /\ ~(status[c] \in UnfinishedStatuses /\ HasCkpt(c))

\* The claim of such a session stays stale until it is replaced.
StaleStays == \A s \in Session :
  ClaimIsStale(s) /\ LeftForGood(claim[s]) => ClaimIsStale(s)' \/ claim'[s] # claim[s]

\* Nothing writes the row of a dead process but a sweep, if it is active, and the
\* researcher, if it is unfinished; and nobody writes a checkpoint it left none of.
LEMMA DeadRow ==
  ASSUME ~MisjudgesLive, ~RacyUpdates, RowInv, [Next]_vars, NEW c \in Session,
         pc[c] = "over", status[c] # "active"
  PROVE  /\ pc'[c] = "over" /\ status'[c] # "active"
         /\ ~HasCkpt(c) => ~HasCkpt(c)'
         /\ status[c] \notin UnfinishedStatuses => UNCHANGED <<status[c], motivo[c], ckpt[c]>>
<1> DEFINE Goal == /\ pc'[c] = "over" /\ status'[c] # "active"
                   /\ ~HasCkpt(c) => ~HasCkpt(c)'
                   /\ status[c] \notin UnfinishedStatuses => UNCHANGED <<status[c], motivo[c], ckpt[c]>>
<1> USE DEF RowInv, NameInv, BaseInv, TypeOK, OwedFine, JudgedDead, HasCkpt,
        rowVars, linkVars, localVars, procVars, termVars, GoTo
<1>1. ASSUME NEW n \in Session, Launch(n) \/ Resume(n) \/ Heartbeat(n) PROVE Goal
  BY <1>1
  DEF Launch, StartNew, Prepare, Resume, CreateRow, ClaimSource, WinClaim, LoseClaim,
      OpenCheckpoint, Record, NoRecorder, RefuseInputs, StartHeartbeat, Heartbeat, Beat,
      Reassert, LoseSession
<1>2. ASSUME NEW n \in Session, Update(n) \/ Stop(n) PROVE Goal
  BY <1>2
  DEF Update, Flush, Get, Put, UpdatePayload, Stop, CloseSession, RecordStop, SuspendSession,
      FinishLoop, Return, Rewrite, WriteRow, Record, NothingPending
<1>3. ASSUME NEW n \in Session, Abort(n) \/ End(n) PROVE Goal
  BY <1>3
  DEF Abort, Raise, RecordInterrupt, RecordError, End, WriteFinal, NameReason, RecordFinal,
      Leave, Gone, Rewrite, WriteRow, Record
<1>4. ASSUME NEW n \in Session, Wind(n) PROVE Goal
  BY <1>4 DEF Wind, Release, ExitLost, Crash, Gone
<1>5. ASSUME NEW n \in Session, Sweep(n) PROVE Goal
  BY <1>5 DEF Sweep, Look, Mark, Recover
<1>6. ASSUME NEW n \in Session, Close(n) PROVE Goal
  BY <1>6
  DEF Close, CloseByResearcher, DecideClosing, WriteClosing, CloseRow, AlignCheckpoint
<1>7. ASSUME UNCHANGED vars PROVE Goal
  BY <1>7 DEF vars
<1> HIDE DEF RowInv, Goal
<1>8. Goal
  BY <1>1, <1>2, <1>3, <1>4, <1>5, <1>6, <1>7 DEF Next
<1> QED BY <1>8 DEF Goal

\* A claim whose session died on a finished row, or left no checkpoint, is stale
\* until it is replaced.  The restriction is needed: close_by_researcher can make a
\* swept session whose row and checkpoint diverge one that can be continued.
THEOREM StaleForGood ==
  ASSUME ~MisjudgesLive, ~RacyUpdates
  PROVE  Spec => [][StaleStays]_vars
<1>1. ASSUME RowInv, [Next]_vars PROVE StaleStays
  <2> SUFFICES ASSUME NEW s \in Session, ClaimIsStale(s), LeftForGood(claim[s]),
                      claim'[s] = claim[s]
               PROVE  ClaimIsStale(s)'
    BY DEF StaleStays
  <2>1. PICK c \in Session : claim[s] = c
    BY <1>1 DEF ClaimIsStale, RowInv, NameInv, BaseInv, TypeOK
  <2>2. status[c] # "active" /\ pc[c] = "over" /\ ~Resumable(c)
        /\ (status[c] \notin UnfinishedStatuses \/ ~HasCkpt(c))
    BY <2>1 DEF ClaimIsStale, LeftForGood
  <2>3. status'[c] # "active"
    BY <1>1, <2>2, DeadRow
  <2>4. CASE ~HasCkpt(c)
    BY <1>1, <2>1, <2>2, <2>3, <2>4, DeadRow DEF ClaimIsStale, Resumable
  <2>5. CASE status[c] \notin UnfinishedStatuses
    <3>1. UNCHANGED <<status[c], motivo[c], ckpt[c]>>
      BY <1>1, <2>2, <2>5, DeadRow
    <3>2. ~Resumable(c)'
      BY <2>2, <3>1 DEF Resumable, HasCkpt
    <3> QED BY <2>1, <2>3, <3>2, NoSessionAssumption DEF ClaimIsStale
  <2> QED BY <2>2, <2>4, <2>5
<1>2. RowInv /\ [Next]_vars => RowInv' /\ StaleStays
  BY <1>1, RowStep
<1> QED BY <1>2, RowInit, PTL DEF Spec

-----------------------------------------------------------------------------
(***************************************************************************)
(* The chain implements the lock of ResearchLock.                          *)
(***************************************************************************)

\* At first nobody holds a research and nobody was refused.
LEMMA LockInit == Init => Lock!Init
BY DEF Init, Lock!Init, Running, Spent, Live

\* A session that begins changes who carries its research on.
LEMMA BeginIsNext ==
  ASSUME NEW r \in Session, NEW n \in Session, Lock!Begin(r, n), Running[r] = {},
         Running' = [Running EXCEPT ![r] = {n}]
  PROVE  Lock!Next
<1>1. Running' # Running
  BY DEF Running
<1> QED BY <1>1 DEF Lock!Next

\* Every step begins, ends or refuses a session of the lock, or changes nothing in it.
LEMMA LockStep ==
  ASSUME ~MisjudgesLive, ~RacyUpdates, TimelyInv, [Next]_vars
  PROVE  [Lock!Next]_(Lock!vars)
<1>0. /\ alias \in [Session -> Session \union {NoSession}] /\ pc \in [Session -> PC]
      /\ \A x \in Session : Live(x) => x \in Running[alias[x]] /\ alias[x] \in Session
  BY DEF TimelyInv, RowInv, NameInv, BaseInv, TypeOK, Rows, AliasRoot, Live, Running
<1>1. CASE UNCHANGED vars
  BY <1>1 DEF vars, Running, Spent, Live, Lock!vars
<1>2. ASSUME NEW n \in Session, StartNew(n) PROVE Lock!Next
  <2>1. /\ pc[n] = "idle" /\ pc' = [pc EXCEPT ![n] = "admitted"]
        /\ alias' = [alias EXCEPT ![n] = n]
        /\ \A x \in Session : alias[x] # n
    BY <1>2, NoSessionAssumption
    DEF StartNew, GoTo, TimelyInv, RowInv, NameInv, BaseInv, TypeOK, AliasRoot
  <2>2. Running[n] = {} /\ n \notin Lock!Busy /\ n \notin Spent
    BY <2>1 DEF Running, Spent, Live, Lock!Busy
  <2>3. Running' = [Running EXCEPT ![n] = {n}]
    BY <1>0, <2>1 DEF Running, Live
  <2>4. Spent' = Spent
    BY <1>0, <2>1 DEF Spent
  <2> QED BY <2>2, <2>3, <2>4, BeginIsNext DEF Lock!Begin
<1>3. ASSUME NEW n \in Session, NEW s \in Session, Prepare(n, s) PROVE UNCHANGED Lock!vars
  <2>1. pc[n] = "idle" /\ pc' = [pc EXCEPT ![n] = "prepared"] /\ alias' = alias
    BY <1>3 DEF Prepare, GoTo, rowVars
  <2> QED BY <1>0, <2>1 DEF Running, Spent, Live, Lock!vars
<1>4. ASSUME NEW n \in Session, Claims(n) PROVE Lock!Next
  <2>1. PICK s \in Session, t \in Session :
          /\ source[n] = s /\ alias' = alias /\ pc' = [pc EXCEPT ![n] = "admitted"]
          /\ Tip(t) /\ alias[t] = alias[n]
          /\ (t = s /\ claim[s] = NoSession) \/ (claim[s] = t /\ PassedOver(t))
    BY <1>4, ClaimTakesTip
  <2>2. pc[n] = "created" /\ alias[n] \in Session
    BY <1>4 DEF Claims, TimelyInv, RowInv, NameInv, BaseInv, TypeOK, Rows, AliasRoot
  <2>3. ~Live(t)
    <3>1. CASE t = s
      BY <2>1, <3>1 DEF TimelyInv, Chosen, RowInv, ActiveRow, Resumable, Verdict
    <3>2. CASE PassedOver(t)
      BY <3>2 DEF TimelyInv, PassedDead
    <3> QED BY <2>1, <3>1, <3>2
  <2>4. ASSUME NEW x \in Session, Live(x), alias[x] = alias[n] PROVE FALSE
    BY <2>1, <2>3, <2>4, LiveIsTip DEF TimelyInv, UniqueTip
  <2>5. Running[alias[n]] = {} /\ n \notin Lock!Busy /\ n \notin Spent
    BY <2>2, <2>4 DEF Running, Spent, Live, Lock!Busy
  <2>6. Running' = [Running EXCEPT ![alias[n]] = {n}]
    <3>1. \A x \in Session : Live(x)' <=> Live(x) \/ x = n
      BY <1>0, <2>1, <2>2 DEF Live
    <3>2. {x \in Session : Live(x)' /\ alias'[x] = alias[n]} = {n}
      BY <2>1, <2>4, <3>1
    <3>3. \A r \in Session \ {alias[n]} :
            {x \in Session : Live(x)' /\ alias'[x] = r} = {x \in Session : Live(x) /\ alias[x] = r}
      BY <2>1, <3>1
    <3> QED BY <2>2, <3>2, <3>3 DEF Running
  <2>7. Spent' = Spent
    BY <1>0, <2>1, <2>2 DEF Spent
  <2> QED BY <2>2, <2>5, <2>6, <2>7, BeginIsNext DEF Lock!Begin
<1>5. ASSUME NEW n \in Session, Release(n) PROVE UNCHANGED Lock!vars
  <2>1. pc[n] = "releasing" /\ pc' = [pc EXCEPT ![n] = "over"] /\ alias' = alias
    BY <1>5 DEF Release, GoTo
  <2> QED BY <1>0, <2>1 DEF Running, Spent, Live, Lock!vars
<1>6. ASSUME NEW n \in Session, Quiet(n) PROVE [Lock!Next]_(Lock!vars)
  <2>1. \A x \in Session : /\ Past(x) => Past(x)' /\ alias'[x] = alias[x]
                           /\ Live(x)' => Live(x)
                           /\ x # n => pc'[x] = pc[x]
    BY <1>6 DEF Quiet
  <2>2. \A x \in Session : (x \in Spent <=> Past(x) /\ ~Live(x)) /\ (Live(x) => Past(x))
    BY DEF Spent, Past, Live
  <2>3. \A x \in Session : x \in Spent' <=> Past(x)' /\ ~Live(x)'
    BY DEF Spent, Past, Live
  <2>4. Spent \subseteq Session /\ Spent' \subseteq Session
    BY DEF Spent
  <2>5. \A x \in Session : x # n => (Past(x)' <=> Past(x)) /\ (Live(x)' <=> Live(x))
    BY <2>1 DEF Past, Live
  <2>6. CASE Live(n) /\ ~Live(n)'
    <3>1. Running' = [Running EXCEPT ![alias[n]] = @ \ {n}]
      <4>1. \A x, r \in Session : (Live(x)' /\ alias'[x] = r) <=> (Live(x) /\ alias[x] = r /\ x # n)
        BY <2>1, <2>2, <2>5, <2>6
      <4>2. \A r \in Session : r # alias[n] =>
              {x \in Session : Live(x)' /\ alias'[x] = r} = {x \in Session : Live(x) /\ alias[x] = r}
        BY <4>1
      <4>3. {x \in Session : Live(x)' /\ alias'[x] = alias[n]}
              = {x \in Session : Live(x) /\ alias[x] = alias[n]} \ {n}
        BY <1>0, <2>6, <4>1
      <4> QED BY <1>0, <2>6, <4>2, <4>3 DEF Running
    <3>2. Spent' = Spent \union {n}
      BY <2>1, <2>2, <2>3, <2>4, <2>5, <2>6
    <3>3. Lock!End(alias[n], n)
      BY <1>0, <2>6, <3>1, <3>2 DEF Lock!End
    <3>4. Running' # Running
      BY <1>0, <2>6, <3>1 DEF Running
    <3> QED BY <1>0, <2>6, <3>3, <3>4 DEF Lock!Next
  <2>7. CASE Live(n) <=> Live(n)'
    <3>1. Running' = Running
      BY <2>1, <2>2, <2>5, <2>7 DEF Running
    <3>2. Spent' = Spent \/ (Spent' = Spent \union {n} /\ ~Live(n))
      BY <2>1, <2>2, <2>3, <2>4, <2>5, <2>7
    <3>3. ~Live(n) => n \notin Lock!Busy
      BY DEF Running, Lock!Busy
    <3>4. CASE Spent' = Spent
      BY <3>1, <3>4 DEF Lock!vars
    <3>5. CASE Spent' = Spent \union {n} /\ ~Live(n)
      <4>1. Lock!Refuse(n)
        BY <3>1, <3>3, <3>5 DEF Lock!Refuse
      <4> QED BY <3>4, <4>1 DEF Lock!Next
    <3> QED BY <3>2, <3>4, <3>5
  <2> QED BY <2>1, <2>6, <2>7
<1> QED BY <1>1, <1>2, <1>3, <1>4, <1>5, <1>6, StepKinds DEF Kind, TimelyInv

\* Every behaviour of the chain is one of the lock: at most one session holds a
\* research, and one that stopped, or was refused, never holds it again.
THEOREM ChainImplementsLock ==
  ASSUME ~MisjudgesLive, ~RacyUpdates, ~TakesUpPassed
  PROVE  Spec => LockSpec
<1>1. TimelyInv /\ [Next]_vars => TimelyInv' /\ [Lock!Next]_(Lock!vars)
  BY TimelyStep, LockStep
<1>2. Init => TimelyInv /\ Lock!Init
  BY TimelyInit, LockInit
<1> QED BY <1>1, <1>2, PTL DEF Spec, LockSpec, Lock!Spec
=============================================================================
