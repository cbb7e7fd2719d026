------------------------- MODULE ResearchChainProofs -------------------------
(***************************************************************************)
(* What the chain of sessions guarantees in every environment: types, and  *)
(* what a claim and a lost session say of the other rows, and that no      *)
(* research is stranded.  The proofs take no assumption on the switches of *)
(* the environment.                                                        *)
(***************************************************************************)
EXTENDS ResearchChain, TLAPS

\* n passed the compare-and-set (or was refused by it, or began a research).
Past(n) == pc[n] \notin {"idle", "prepared", "created"}

\* A row is inserted when the process has prepared, and is never removed.
Rows == \A n \in Session :
  /\ pc[n] \in {"idle", "prepared"} => status[n] = "absent"
  /\ pc[n] \notin {"idle", "prepared", "over"} => status[n] # "absent"

\* Whoever still has to look at its source has one, whose row exists.
Sources == \A n \in Session :
  /\ pc[n] \in {"prepared", "created", "releasing"} => source[n] # NoSession
  /\ source[n] # NoSession => status[source[n]] # "absent" /\ pc[n] # "idle"

BaseInv == TypeOK /\ Rows /\ Sources

USE DEF RowStatuses, FinishedStatuses, UnfinishedStatuses, PausedStatuses,
        Motivos, MotivosRetomaveis, PauseMotivos, MotivosConfirmar, PC,
        Executing, Beating, Updating

-----------------------------------------------------------------------------
\* A row that exists, read now or before, has a status, a reason and a claim of
\* their types.
LEMMA BaseTypes ==
  ASSUME BaseInv, NEW n \in Session, status[n] # "absent"
  PROVE  /\ Base(n).status \in RowStatuses /\ status[n] \in RowStatuses
         /\ Base(n).motivo \in Motivos
         /\ Base(n).claim \in Session \union {NoSession}
BY DEF BaseInv, TypeOK, Base, RowOf, Snapshot, NoSnapshot

\* WriteRow keeps the types, given a legal status and reason, and drops what was read.
LEMMA WriteRowBase ==
  ASSUME BaseInv, NEW n \in Session, status[n] # "absent",
         NEW st \in RowStatuses, NEW m \in Motivos, WriteRow(n, st, m)
  PROVE  /\ status' \in [Session -> RowStatuses \union {"absent"}]
         /\ motivo' \in [Session -> Motivos]
         /\ claim' \in [Session -> Session \union {NoSession}]
         /\ claim'[n] = Base(n).claim
         /\ snap' = [snap EXCEPT ![n] = NoSnapshot]
         /\ snap' \in [Session -> Snapshot \union {NoSnapshot}]
         /\ seen' \in [Session -> BOOLEAN]
         /\ status'[n] = st /\ status'[n] # "absent" /\ motivo'[n] = m
         /\ \A s \in Session \ {n} :
              status'[s] = status[s] /\ motivo'[s] = motivo[s] /\ claim'[s] = claim[s]
         /\ UNCHANGED <<alias, source, expect, owed>>
<1>1. Base(n).claim \in Session \union {NoSession}
  BY BaseTypes
<1> QED BY <1>1 DEF BaseInv, TypeOK, WriteRow, Touch, linkVars

\* A write of the checkpoint gives it a reason or leaves it as it was.
LEMMA RecordBase ==
  ASSUME BaseInv, NEW n \in Session, NEW m \in Motivos, Record(n, m)
  PROVE  /\ ckpt' \in [Session -> Motivos \union {"absent"}]
         /\ ckpt' = ckpt \/ ckpt' = [ckpt EXCEPT ![n] = m]
BY DEF BaseInv, TypeOK, Record

\* The reason a request ends with is a reason.
LEMMA FinalReasonType ==
  ASSUME BaseInv, NEW n \in Session, status[n] # "absent"
  PROVE  FinalReason(n) \in Motivos
BY BaseTypes DEF FinalReason

\* Each step of a process writes its own row as WriteRow does, or writes none.
RowWritten(n) == \E st \in RowStatuses, m \in Motivos : WriteRow(n, st, m)

\* The steps of a process that write its row: each of them is a WriteRow.
LEMMA OwnWrites ==
  ASSUME BaseInv, NEW n \in Session,
         \/ Put(n) \/ SuspendSession(n) \/ RecordInterrupt(n) \/ RecordError(n)
         \/ (\E m \in StopMotivos : CloseSession(n, m))
         \/ (\E final \in {"success", "failed"} : WriteFinal(n, final))
  PROVE  /\ status[n] # "absent" /\ RowWritten(n) /\ pc[n] \in Updating \union {"lost"}
         /\ ckpt' = ckpt
         /\ \/ pc' = pc /\ UNCHANGED <<reason, ends>>
            \/ /\ pc[n] # "lost"
               /\ \E label \in {"closing", "stopped", "over", "releasing", "ending"} :
                    /\ pc' = [pc EXCEPT ![n] = label]
                    /\ label = "releasing" => source[n] # NoSession
         /\ reason' \in [Session -> Motivos]
         /\ ends' \in [Session -> {"none", "success", "failed", "paused"}]
<1>1. status[n] # "absent"
  BY DEF BaseInv, Rows, Put, SuspendSession, RecordInterrupt, RecordError, CloseSession, WriteFinal
<1>2. Base(n).status \in RowStatuses /\ status[n] \in RowStatuses /\ Base(n).motivo \in Motivos
  BY <1>1, BaseTypes
<1> USE DEF BaseInv, TypeOK, GoTo
<1>3. CASE Put(n)
  <2>1. snap[n].motivo \in Motivos
    BY <1>3 DEF Put, Snapshot
  <2> QED BY <1>1, <1>2, <1>3, <2>1 DEF Put, Rewrite, RowWritten
<1>4. CASE SuspendSession(n)
  BY <1>1, <1>4 DEF SuspendSession, RowWritten
<1>5. CASE RecordInterrupt(n) \/ RecordError(n)
  BY <1>1, <1>5 DEF RecordInterrupt, RecordError, RowWritten
<1>6. ASSUME NEW m \in StopMotivos, CloseSession(n, m)
      PROVE  /\ RowWritten(n) /\ pc[n] = "running" /\ ckpt' = ckpt
             /\ pc' = [pc EXCEPT ![n] = "closing"]
             /\ reason' \in [Session -> Motivos] /\ ends' = ends
  <2>1. m \in Motivos
    BY StopMotivosAssumption
  <2>2. m \in PauseMotivos => PausedBy(m) \in RowStatuses
    BY DEF PausedBy
  <2> QED BY <1>2, <1>6, <2>1, <2>2 DEF CloseSession, Rewrite, RowWritten
<1>7. ASSUME NEW final \in {"success", "failed"}, WriteFinal(n, final)
      PROVE  /\ RowWritten(n) /\ pc[n] = "returned" /\ ckpt' = ckpt
             /\ pc' = [pc EXCEPT ![n] = "ending"]
             /\ ends' \in [Session -> {"none", "success", "failed", "paused"}] /\ reason' = reason
  BY <1>2, <1>7 DEF WriteFinal, RowWritten
<1> QED BY <1>1, <1>3, <1>4, <1>5, <1>6, <1>7

\* BaseInv holds initially and every action keeps it.
LEMMA BaseInit == Init => BaseInv
BY DEF Init, BaseInv, TypeOK, Rows, Sources

\* Every action keeps the types and what a pending update needs.
LEMMA BaseStep == BaseInv /\ [Next]_vars => BaseInv'
<1> SUFFICES ASSUME BaseInv, [Next]_vars PROVE BaseInv'
  OBVIOUS
<1> USE NoSessionAssumption
    DEF BaseInv, TypeOK, Rows, Sources, rowVars, linkVars, localVars, procVars, termVars, Touch, GoTo
<1>1. ASSUME NEW n \in Session, Launch(n) PROVE BaseInv'
  <2>1. CASE StartNew(n)
    BY <2>1 DEF StartNew
  <2>2. ASSUME NEW s \in Session, Prepare(n, s) PROVE BaseInv'
    BY <2>2 DEF Prepare
  <2> QED BY <1>1, <2>1, <2>2 DEF Launch
<1>2. ASSUME NEW n \in Session, Resume(n) PROVE BaseInv'
  <2>1. CASE CreateRow(n)
    BY <2>1 DEF CreateRow
  <2>2. CASE ClaimSource(n) /\ WinClaim(n, source[n])
    BY <2>2 DEF ClaimSource, WinClaim
  <2>3. CASE ClaimSource(n) /\ LoseClaim(n, source[n])
    BY <2>3 DEF ClaimSource, LoseClaim
  <2>4. CASE OpenCheckpoint(n)
    BY <2>4, RecordBase DEF OpenCheckpoint
  <2>5. CASE NoRecorder(n)
    BY <2>5 DEF NoRecorder
  <2>6. CASE RefuseInputs(n)
    BY <2>6 DEF RefuseInputs
  <2>7. CASE StartHeartbeat(n)
    BY <2>7 DEF StartHeartbeat
  <2> QED BY <1>2, <2>1, <2>2, <2>3, <2>4, <2>5, <2>6, <2>7 DEF Resume, ClaimSource
<1>3. ASSUME NEW n \in Session, Heartbeat(n) PROVE BaseInv'
  <2>1. CASE Beat(n)
    BY <2>1 DEF Beat
  <2>2. CASE Reassert(n)
    BY <2>2 DEF Reassert
  <2>3. CASE LoseSession(n)
    BY <2>3 DEF LoseSession
  <2> QED BY <1>3, <2>1, <2>2, <2>3 DEF Heartbeat
\* The steps of the process that write its row.
<1>4. ASSUME NEW n \in Session,
             \/ Put(n) \/ SuspendSession(n) \/ RecordInterrupt(n) \/ RecordError(n)
             \/ (\E m \in StopMotivos : CloseSession(n, m))
             \/ (\E final \in {"success", "failed"} : WriteFinal(n, final))
      PROVE  BaseInv'
  <2>1. PICK st \in RowStatuses, m \in Motivos : WriteRow(n, st, m)
    BY <1>4, OwnWrites DEF RowWritten
  <2>2. /\ status[n] # "absent" /\ pc[n] \in Updating \union {"lost"} /\ ckpt' = ckpt
        /\ \/ pc' = pc /\ UNCHANGED <<reason, ends>>
           \/ /\ pc[n] # "lost"
              /\ \E label \in {"closing", "stopped", "over", "releasing", "ending"} :
                   /\ pc' = [pc EXCEPT ![n] = label]
                   /\ label = "releasing" => source[n] # NoSession
        /\ reason' \in [Session -> Motivos]
        /\ ends' \in [Session -> {"none", "success", "failed", "paused"}]
    BY <1>4, OwnWrites
  <2>3. /\ status' \in [Session -> RowStatuses \union {"absent"}]
        /\ motivo' \in [Session -> Motivos]
        /\ claim' \in [Session -> Session \union {NoSession}]
        /\ claim'[n] = Base(n).claim
        /\ snap' = [snap EXCEPT ![n] = NoSnapshot]
        /\ snap' \in [Session -> Snapshot \union {NoSnapshot}]
        /\ seen' \in [Session -> BOOLEAN]
        /\ status'[n] # "absent"
        /\ \A s \in Session \ {n} :
             status'[s] = status[s] /\ motivo'[s] = motivo[s] /\ claim'[s] = claim[s]
        /\ UNCHANGED <<alias, source, expect, owed>>
    BY <2>1, <2>2, WriteRowBase
  <2> QED BY <2>2, <2>3
<1>5. ASSUME NEW n \in Session, Update(n) PROVE BaseInv'
  <2>1. CASE Flush(n)
    BY <2>1 DEF Flush
  <2>2. CASE Get(n)
    BY <2>2 DEF Get, RowOf, Snapshot
  <2>3. CASE UpdatePayload(n)
    BY <2>3 DEF UpdatePayload
  <2> QED BY <1>4, <1>5, <2>1, <2>2, <2>3 DEF Update
<1>6. ASSUME NEW n \in Session, Stop(n) PROVE BaseInv'
  <2>1. CASE RecordStop(n)
    BY <2>1, RecordBase DEF RecordStop
  <2>2. CASE FinishLoop(n)
    BY <2>2 DEF FinishLoop
  <2>3. CASE Return(n)
    BY <2>3 DEF Return
  <2> QED BY <1>4, <1>6, <2>1, <2>2, <2>3 DEF Stop
<1>7. ASSUME NEW n \in Session, Abort(n) PROVE BaseInv'
  <2>1. ASSUME NEW m \in {"interrompida", "erro"}, Raise(n, m) PROVE BaseInv'
    BY <2>1, RecordBase DEF Raise
  <2> QED BY <1>4, <1>7, <2>1 DEF Abort
<1>8. ASSUME NEW n \in Session, End(n) PROVE BaseInv'
  <2>1. CASE NameReason(n)
    <3>1. status[n] # "absent" /\ FinalReason(n) \in Motivos
      BY <2>1, FinalReasonType DEF NameReason
    <3>2. CASE Rewrite(n, FinalReason(n))
      <4>1. PICK st \in RowStatuses : WriteRow(n, st, FinalReason(n))
        BY <3>1, <3>2, BaseTypes DEF Rewrite
      <4>2. /\ pc[n] = "ending" /\ pc' = [pc EXCEPT ![n] = "recording"]
            /\ reason' = [reason EXCEPT ![n] = FinalReason(n)] /\ UNCHANGED <<ckpt, ends>>
        BY <2>1 DEF NameReason
      <4>3. /\ status' \in [Session -> RowStatuses \union {"absent"}]
            /\ motivo' \in [Session -> Motivos]
            /\ claim' \in [Session -> Session \union {NoSession}]
            /\ claim'[n] = Base(n).claim
            /\ snap' = [snap EXCEPT ![n] = NoSnapshot]
            /\ snap' \in [Session -> Snapshot \union {NoSnapshot}]
            /\ seen' \in [Session -> BOOLEAN]
            /\ status'[n] # "absent"
            /\ \A s \in Session \ {n} :
                 status'[s] = status[s] /\ motivo'[s] = motivo[s] /\ claim'[s] = claim[s]
            /\ UNCHANGED <<alias, source, expect, owed>>
        BY <3>1, <4>1, WriteRowBase
      <4> QED BY <3>1, <4>2, <4>3
    <3>3. CASE /\ snap' = [snap EXCEPT ![n] = NoSnapshot]
               /\ UNCHANGED <<rowVars, linkVars, termVars>>
      <4>1. /\ pc[n] = "ending" /\ pc' = [pc EXCEPT ![n] = "recording"]
            /\ reason' = [reason EXCEPT ![n] = FinalReason(n)] /\ UNCHANGED <<ckpt, ends>>
        BY <2>1 DEF NameReason
      <4> QED BY <3>1, <3>3, <4>1
    <3> QED BY <2>1, <3>2, <3>3 DEF NameReason
  <2>2. CASE RecordFinal(n)
    BY <2>2, RecordBase DEF RecordFinal
  <2>3. CASE Leave(n)
    <3>1. /\ pc[n] = "leaving" /\ pc' = [pc EXCEPT ![n] = "over"]
          /\ snap' = [snap EXCEPT ![n] = NoSnapshot] /\ reason' = [reason EXCEPT ![n] = "nil"]
          /\ ends' = [ends EXCEPT ![n] = "none"]
          /\ UNCHANGED <<motivo, claim, alias, ckpt, linkVars, owed>>
      BY <2>3 DEF Leave, Gone
    <3>2. CASE UNCHANGED <<status, seen>>
      BY <3>1, <3>2
    <3>3. CASE status' = [status EXCEPT ![n] = "closed"] /\ Touch(n)
      BY <3>1, <3>3
    <3> QED BY <2>3, <3>2, <3>3 DEF Leave
  <2> QED BY <1>4, <1>8, <2>1, <2>2, <2>3 DEF End
<1>9. ASSUME NEW n \in Session, Wind(n) PROVE BaseInv'
  <2>1. CASE Release(n)
    BY <2>1 DEF Release
  <2>2. CASE ExitLost(n)
    BY <2>2 DEF ExitLost, Gone
  <2>3. CASE Crash(n)
    BY <2>3 DEF Crash, Gone
  <2> QED BY <1>9, <2>1, <2>2, <2>3 DEF Wind
<1>10. ASSUME NEW n \in Session, Sweep(n) \/ Close(n) PROVE BaseInv'
  <2>1. CASE Look(n)
    BY <2>1 DEF Look
  <2>2. CASE Mark(n)
    BY <2>2 DEF Mark
  <2>3. CASE Recover(n)
    BY <2>3 DEF Recover
  <2>4. CASE CloseByResearcher(n)
    BY <2>4 DEF CloseByResearcher, CloseRow, AlignCheckpoint
  <2>5. CASE DecideClosing(n)
    BY <2>5 DEF DecideClosing, CloseRow
  <2>6. CASE WriteClosing(n)
    BY <2>6 DEF WriteClosing, AlignCheckpoint
  <2> QED BY <1>10, <2>1, <2>2, <2>3, <2>4, <2>5, <2>6 DEF Sweep, Close
<1>11. CASE UNCHANGED vars
  BY <1>11 DEF vars
<1> QED BY <1>1, <1>2, <1>3, <1>5, <1>6, <1>7, <1>8, <1>9, <1>10, <1>11 DEF Next

\* Every variable keeps its type, in every environment.
THEOREM TypeCorrect == Spec => []TypeOK
<1>1. Spec => []BaseInv
  BY BaseInit, BaseStep, PTL DEF Spec
<1>2. BaseInv => TypeOK
  BY DEF BaseInv
<1> QED BY <1>1, <1>2, PTL

-----------------------------------------------------------------------------
(***************************************************************************)
(* ClaimNamesContinuer is not inductive by itself: a row read by a get may *)
(* come back with its old claim, and a claim is written by a session whose *)
(* alias was copied when its own row was inserted.                         *)
(***************************************************************************)

\* n is the continuation that a claim written on the row of s may name.
Continues(n, s) == source[n] = s /\ alias[n] = alias[s] /\ Past(n)

\* A row read for a later update carries a claim that was real when it was read.
SnapNames == \A n \in Session :
  snap[n] # NoSnapshot /\ snap[n].claim # NoSession => Continues(snap[n].claim, n)

\* A continuation whose row exists has the alias of its source.
ChainAlias == \A n \in Session :
  source[n] # NoSession /\ status[n] # "absent" => alias[n] = alias[source[n]]

\* Only a row that exists carries a claim.
ClaimedExists == \A s \in Session : claim[s] # NoSession => status[s] # "absent"

NameInv == BaseInv /\ ClaimNamesContinuer /\ SnapNames /\ ChainAlias /\ ClaimedExists

\* NameInv holds before any session was launched.
LEMMA NameInit == Init => NameInv
BY BaseInit DEF Init, NameInv, ClaimNamesContinuer, SnapNames, ChainAlias, ClaimedExists

\* Every action keeps it: Past sessions keep source and alias, so a claim stays true.
LEMMA NameStep == NameInv /\ [Next]_vars => NameInv'
<1> SUFFICES ASSUME NameInv, [Next]_vars PROVE NameInv'
  OBVIOUS
<1>0. BaseInv'
  BY BaseStep DEF NameInv
<1> USE <1>0, NoSessionAssumption
    DEF NameInv, BaseInv, TypeOK, Rows, Sources, ClaimNamesContinuer, SnapNames, ChainAlias,
        ClaimedExists, Continues, Past, rowVars, linkVars, localVars, procVars, termVars, Touch, GoTo
<1>1. ASSUME NEW n \in Session, Launch(n) PROVE NameInv'
  <2>1. CASE StartNew(n)
    BY <2>1 DEF StartNew
  <2>2. ASSUME NEW s \in Session, Prepare(n, s) PROVE NameInv'
    BY <2>2 DEF Prepare
  <2> QED BY <1>1, <2>1, <2>2 DEF Launch
<1>2. ASSUME NEW n \in Session, Resume(n) PROVE NameInv'
  <2>1. CASE CreateRow(n)
    BY <2>1 DEF CreateRow
  <2>2. CASE ClaimSource(n) /\ WinClaim(n, source[n])
    BY <2>2 DEF ClaimSource, WinClaim
  <2>3. CASE ClaimSource(n) /\ LoseClaim(n, source[n])
    BY <2>3 DEF ClaimSource, LoseClaim
  <2>4. CASE OpenCheckpoint(n)
    BY <2>4 DEF OpenCheckpoint
  <2>5. CASE NoRecorder(n)
    BY <2>5 DEF NoRecorder
  <2>6. CASE RefuseInputs(n)
    BY <2>6 DEF RefuseInputs
  <2>7. CASE StartHeartbeat(n)
    BY <2>7 DEF StartHeartbeat
  <2> QED BY <1>2, <2>1, <2>2, <2>3, <2>4, <2>5, <2>6, <2>7 DEF Resume, ClaimSource
<1>3. ASSUME NEW n \in Session, Heartbeat(n) PROVE NameInv'
  <2>1. CASE Beat(n)
    BY <2>1 DEF Beat
  <2>2. CASE Reassert(n)
    BY <2>2 DEF Reassert
  <2>3. CASE LoseSession(n)
    BY <2>3 DEF LoseSession
  <2> QED BY <1>3, <2>1, <2>2, <2>3 DEF Heartbeat
\* The steps of the process that write its row.
<1>4. ASSUME NEW n \in Session,
             \/ Put(n) \/ SuspendSession(n) \/ RecordInterrupt(n) \/ RecordError(n)
             \/ (\E m \in StopMotivos : CloseSession(n, m))
             \/ (\E final \in {"success", "failed"} : WriteFinal(n, final))
      PROVE  NameInv'
  <2>1. PICK st \in RowStatuses, m \in Motivos : WriteRow(n, st, m)
    BY <1>4, OwnWrites DEF RowWritten
  <2>2. /\ status[n] # "absent" /\ pc[n] \in Updating \union {"lost"} /\ ckpt' = ckpt
        /\ \/ pc' = pc /\ UNCHANGED <<reason, ends>>
           \/ /\ pc[n] # "lost"
              /\ \E label \in {"closing", "stopped", "over", "releasing", "ending"} :
                   /\ pc' = [pc EXCEPT ![n] = label]
                   /\ label = "releasing" => source[n] # NoSession
        /\ reason' \in [Session -> Motivos]
        /\ ends' \in [Session -> {"none", "success", "failed", "paused"}]
    BY <1>4, OwnWrites
  <2>3. /\ status' \in [Session -> RowStatuses \union {"absent"}]
        /\ motivo' \in [Session -> Motivos]
        /\ claim' \in [Session -> Session \union {NoSession}]
        /\ claim'[n] = Base(n).claim
        /\ snap' = [snap EXCEPT ![n] = NoSnapshot]
        /\ snap' \in [Session -> Snapshot \union {NoSnapshot}]
        /\ seen' \in [Session -> BOOLEAN]
        /\ status'[n] # "absent"
        /\ \A s \in Session \ {n} :
             status'[s] = status[s] /\ motivo'[s] = motivo[s] /\ claim'[s] = claim[s]
        /\ UNCHANGED <<alias, source, expect, owed>>
    BY <2>1, <2>2, WriteRowBase
  <2>4. claim'[n] # NoSession =>
          source[claim'[n]] = n /\ alias[claim'[n]] = alias[n] /\ Past(claim'[n])
    BY <2>2, <2>3 DEF Base, RowOf
  <2>5. \A x \in Session : Past(x) => Past(x)'
    BY <2>2
  <2>6. UNCHANGED <<source, alias>> /\ \A x \in Session : status'[x] = "absent" <=> status[x] = "absent"
    BY <2>2, <2>3
  <2>7. ClaimNamesContinuer'
    BY <2>3, <2>4, <2>5, <2>6
  <2>8. SnapNames'
    BY <2>3, <2>5, <2>6 DEF Snapshot
  <2> QED BY <2>3, <2>6, <2>7, <2>8
<1>5. ASSUME NEW n \in Session, Update(n) PROVE NameInv'
  <2>1. CASE Flush(n)
    BY <2>1 DEF Flush
  <2>2. CASE Get(n)
    BY <2>2 DEF Get, RowOf, Snapshot
  <2>3. CASE UpdatePayload(n)
    BY <2>3 DEF UpdatePayload
  <2> QED BY <1>4, <1>5, <2>1, <2>2, <2>3 DEF Update
<1>6. ASSUME NEW n \in Session, Stop(n) PROVE NameInv'
  <2>1. CASE RecordStop(n)
    BY <2>1 DEF RecordStop
  <2>2. CASE FinishLoop(n)
    BY <2>2 DEF FinishLoop
  <2>3. CASE Return(n)
    BY <2>3 DEF Return
  <2> QED BY <1>4, <1>6, <2>1, <2>2, <2>3 DEF Stop
<1>7. ASSUME NEW n \in Session, Abort(n) PROVE NameInv'
  <2>1. ASSUME NEW m \in {"interrompida", "erro"}, Raise(n, m) PROVE NameInv'
    BY <2>1 DEF Raise
  <2> QED BY <1>4, <1>7, <2>1 DEF Abort
<1>8. ASSUME NEW n \in Session, End(n) PROVE NameInv'
  <2>1. CASE NameReason(n)
    <3>1. status[n] # "absent" /\ FinalReason(n) \in Motivos
      BY <2>1, FinalReasonType DEF NameReason
    <3>2. CASE Rewrite(n, FinalReason(n))
      <4>1. PICK st \in RowStatuses : WriteRow(n, st, FinalReason(n))
        BY <3>1, <3>2, BaseTypes DEF Rewrite
      <4>2. /\ pc[n] = "ending" /\ pc' = [pc EXCEPT ![n] = "recording"]
            /\ reason' = [reason EXCEPT ![n] = FinalReason(n)] /\ UNCHANGED <<ckpt, ends>>
        BY <2>1 DEF NameReason
      <4>3. /\ status' \in [Session -> RowStatuses \union {"absent"}]
            /\ motivo' \in [Session -> Motivos]
            /\ claim' \in [Session -> Session \union {NoSession}]
            /\ claim'[n] = Base(n).claim
            /\ snap' = [snap EXCEPT ![n] = NoSnapshot]
            /\ snap' \in [Session -> Snapshot \union {NoSnapshot}]
            /\ seen' \in [Session -> BOOLEAN]
            /\ status'[n] # "absent"
            /\ \A s \in Session \ {n} :
                 status'[s] = status[s] /\ motivo'[s] = motivo[s] /\ claim'[s] = claim[s]
            /\ UNCHANGED <<alias, source, expect, owed>>
        BY <3>1, <4>1, WriteRowBase
      <4> QED BY <3>1, <4>2, <4>3 DEF Base, RowOf
    <3>3. CASE /\ snap' = [snap EXCEPT ![n] = NoSnapshot]
               /\ UNCHANGED <<rowVars, linkVars, termVars>>
      <4>1. /\ pc[n] = "ending" /\ pc' = [pc EXCEPT ![n] = "recording"]
            /\ reason' = [reason EXCEPT ![n] = FinalReason(n)] /\ UNCHANGED <<ckpt, ends>>
        BY <2>1 DEF NameReason
      <4> QED BY <3>1, <3>3, <4>1
    <3> QED BY <2>1, <3>2, <3>3 DEF NameReason
  <2>2. CASE RecordFinal(n)
    BY <2>2 DEF RecordFinal
  <2>3. CASE Leave(n)
    <3>1. /\ pc[n] = "leaving" /\ pc' = [pc EXCEPT ![n] = "over"]
          /\ snap' = [snap EXCEPT ![n] = NoSnapshot] /\ reason' = [reason EXCEPT ![n] = "nil"]
          /\ ends' = [ends EXCEPT ![n] = "none"]
          /\ UNCHANGED <<motivo, claim, alias, ckpt, linkVars, owed>>
      BY <2>3 DEF Leave, Gone
    <3>2. CASE UNCHANGED <<status, seen>>
      BY <3>1, <3>2
    <3>3. CASE status' = [status EXCEPT ![n] = "closed"] /\ Touch(n)
      BY <3>1, <3>3
    <3> QED BY <2>3, <3>2, <3>3 DEF Leave
  <2> QED BY <1>4, <1>8, <2>1, <2>2, <2>3 DEF End
<1>9. ASSUME NEW n \in Session, Wind(n) PROVE NameInv'
  <2>1. CASE Release(n)
    BY <2>1 DEF Release
  <2>2. CASE ExitLost(n)
    BY <2>2 DEF ExitLost, Gone
  <2>3. CASE Crash(n)
    BY <2>3 DEF Crash, Gone
  <2> QED BY <1>9, <2>1, <2>2, <2>3 DEF Wind
<1>10. ASSUME NEW n \in Session, Sweep(n) \/ Close(n) PROVE NameInv'
  <2>1. CASE Look(n)
    BY <2>1 DEF Look
  <2>2. CASE Mark(n)
    BY <2>2 DEF Mark
  <2>3. CASE Recover(n)
    BY <2>3 DEF Recover
  <2>4. CASE CloseByResearcher(n)
    BY <2>4 DEF CloseByResearcher, CloseRow, AlignCheckpoint
  <2>5. CASE DecideClosing(n)
    BY <2>5 DEF DecideClosing, CloseRow
  <2>6. CASE WriteClosing(n)
    BY <2>6 DEF WriteClosing, AlignCheckpoint
  <2> QED BY <1>10, <2>1, <2>2, <2>3, <2>4, <2>5, <2>6 DEF Sweep, Close
<1>11. CASE UNCHANGED vars
  BY <1>11 DEF vars
<1> QED BY <1>1, <1>2, <1>3, <1>5, <1>6, <1>7, <1>8, <1>9, <1>10, <1>11 DEF Next

\* A claim names a session that continues the row it is on, in every environment.
THEOREM ClaimsName == Spec => []ClaimNamesContinuer
<1>1. Spec => []NameInv
  BY NameInit, NameStep, PTL DEF Spec
<1>2. NameInv => ClaimNamesContinuer
  BY DEF NameInv
<1> QED BY <1>1, <1>2, PTL

-----------------------------------------------------------------------------
\* A step never takes a session back before the compare-and-set, nor gives a
\* session that passed it another source; and only a row that carries a claim
\* makes its process lost.
LEMMA StepFacts ==
  ASSUME NameInv, [Next]_vars, NEW n \in Session
  PROVE  /\ Past(n) => Past(n)' /\ source'[n] = source[n]
         /\ pc'[n] = "lost" => pc[n] = "lost" \/ claim[n] # NoSession
<1> USE DEF NameInv, BaseInv, TypeOK, Past, rowVars, linkVars, localVars, procVars, GoTo
<1> DEFINE Goal == /\ Past(n) => Past(n)' /\ source'[n] = source[n]
                   /\ pc'[n] = "lost" => pc[n] = "lost" \/ claim[n] # NoSession
<1>1. ASSUME NEW x \in Session, Launch(x) PROVE Goal
  BY <1>1 DEF Launch, StartNew, Prepare
<1>2. ASSUME NEW x \in Session, Resume(x) PROVE Goal
  <2>1. CASE ClaimSource(x)
    BY <2>1 DEF ClaimSource, WinClaim, LoseClaim
  <2>2. CASE CreateRow(x) \/ OpenCheckpoint(x) \/ StartHeartbeat(x)
    BY <2>2 DEF CreateRow, OpenCheckpoint, StartHeartbeat
  <2>3. CASE NoRecorder(x) \/ RefuseInputs(x)
    BY <2>3 DEF NoRecorder, RefuseInputs
  <2> QED BY <1>2, <2>1, <2>2, <2>3 DEF Resume
<1>3. ASSUME NEW x \in Session, Heartbeat(x) PROVE Goal
  BY <1>3 DEF Heartbeat, Beat, Reassert, LoseSession, Unclaimed
<1>4. ASSUME NEW x \in Session, Update(x) PROVE Goal
  BY <1>4 DEF Update, Flush, Get, Put, Rewrite, WriteRow, UpdatePayload
<1>5. ASSUME NEW x \in Session, Stop(x) PROVE Goal
  BY <1>5 DEF Stop, CloseSession, RecordStop, SuspendSession, FinishLoop, Return, Rewrite, WriteRow
<1>6. ASSUME NEW x \in Session, Abort(x) PROVE Goal
  BY <1>6 DEF Abort, Raise, RecordInterrupt, RecordError, WriteRow
<1>7. ASSUME NEW x \in Session, End(x) PROVE Goal
  BY <1>7 DEF End, WriteFinal, NameReason, RecordFinal, Leave, Gone, Rewrite, WriteRow
<1>8. ASSUME NEW x \in Session, Wind(x) PROVE Goal
  BY <1>8 DEF Wind, Release, ExitLost, Crash, Gone
<1>9. ASSUME NEW x \in Session, Sweep(x) PROVE Goal
  BY <1>9 DEF Sweep, Look, Mark, Recover
<1>10. ASSUME NEW x \in Session, Close(x) PROVE Goal
  BY <1>10 DEF Close, CloseByResearcher, DecideClosing, WriteClosing, CloseRow
<1>11. CASE UNCHANGED vars
  BY <1>11 DEF vars
<1> QED BY <1>1, <1>2, <1>3, <1>4, <1>5, <1>6, <1>7, <1>8, <1>9, <1>10, <1>11 DEF Next

\* A process stops as lost only after another session won the claim on its row.
THEOREM LostWasContinued == Spec => []LostIsContinued
<1>1. Init => NameInv /\ LostIsContinued
  BY NameInit DEF Init, LostIsContinued
<1>2. NameInv /\ LostIsContinued /\ [Next]_vars => NameInv' /\ LostIsContinued'
  <2> SUFFICES ASSUME NameInv, LostIsContinued, [Next]_vars PROVE LostIsContinued'
    BY NameStep
  <2> SUFFICES ASSUME NEW s \in Session, pc'[s] = "lost"
               PROVE  \E n \in Session : source'[n] = s /\ Past(n)'
    BY DEF LostIsContinued, Past
  <2>1. CASE pc[s] = "lost"
    <3>1. PICK n \in Session : source[n] = s /\ Past(n)
      BY <2>1 DEF LostIsContinued, Past
    <3> QED BY <3>1, StepFacts
  <2>2. CASE claim[s] # NoSession
    <3>1. claim[s] \in Session /\ source[claim[s]] = s /\ Past(claim[s])
      BY <2>2 DEF NameInv, BaseInv, TypeOK, ClaimNamesContinuer, Past
    <3> QED BY <3>1, StepFacts
  <2> QED BY <2>1, <2>2, StepFacts
<1> QED BY <1>1, <1>2, PTL DEF Spec

-----------------------------------------------------------------------------
(***************************************************************************)
(* No research is stranded.  A source exists before the session that       *)
(* continues it, so no set of sessions continues itself in a circle: among *)
(* the sessions of a research that left something, one was continued by    *)
(* none of the others, and the claim on it, if there is one, is stale.     *)
(***************************************************************************)

Started == {n \in Session : pc[n] # "idle"}

\* Some session of P is the source of no other one of P.
HasLeaf(P) == \E n \in P : \A m \in P : source[m] # n

NoCircle == \A P \in SUBSET Started : P # {} => HasLeaf(P)

\* A session is registered under an alias when its row is inserted.
AliasedExist == \A n \in Session : alias[n] # NoSession => status[n] # "absent"

ChainInv == NameInv /\ NoCircle /\ AliasedExist

\* A step of n starts no session but n, and gives no other one a source; nobody
\* is its own source.
Starts(n) ==
  /\ \A x \in Session :
       pc[n] # "idle" \/ x # n => (x \in Started' <=> x \in Started) /\ source'[x] = source[x]
  /\ pc[n] = "idle" => source'[n] # n

\* No session was started before the first one.
LEMMA ChainInit == Init => ChainInv
BY NameInit DEF Init, ChainInv, NoCircle, HasLeaf, Started, AliasedExist

\* The aliases a step writes are those of rows that exist, and it starts one
\* session at most.
LEMMA StepStarts ==
  ASSUME NameInv, AliasedExist, [Next]_vars
  PROVE  AliasedExist' /\ (UNCHANGED vars \/ \E n \in Session : Starts(n))
<1> DEFINE Goal == AliasedExist' /\ \E n \in Session : Starts(n)
<1>0. BaseInv'
  BY BaseStep DEF NameInv
<1> USE <1>0, NoSessionAssumption
    DEF NameInv, BaseInv, TypeOK, Rows, Sources, AliasedExist, Starts, Started,
        rowVars, linkVars, localVars, procVars, GoTo
<1>1. ASSUME NEW x \in Session, Launch(x) PROVE Goal
  <2>1. CASE StartNew(x)
    BY <2>1 DEF StartNew
  <2>2. ASSUME NEW s \in Session, Prepare(x, s) PROVE Goal
    BY <2>2 DEF Prepare
  <2> QED BY <1>1, <2>1, <2>2 DEF Launch
<1>2. ASSUME NEW x \in Session, Resume(x) PROVE Goal
  <2>1. CASE ClaimSource(x)
    BY <2>1 DEF ClaimSource, WinClaim, LoseClaim
  <2>2. CASE CreateRow(x)
    BY <2>2 DEF CreateRow
  <2>3. CASE OpenCheckpoint(x) \/ StartHeartbeat(x)
    BY <2>3 DEF OpenCheckpoint, StartHeartbeat
  <2>4. CASE NoRecorder(x) \/ RefuseInputs(x)
    BY <2>4 DEF NoRecorder, RefuseInputs
  <2> QED BY <1>2, <2>1, <2>2, <2>3, <2>4 DEF Resume
\* No other step writes the alias of a row, starts a process or names a source.
<1>3. ASSUME NEW x \in Session, UNCHANGED <<alias, source>>,
             \A n \in Session : pc[n] = "idle" <=> pc'[n] = "idle",
             \A n \in Session : status[n] # "absent" => status'[n] # "absent"
      PROVE  Goal
  BY <1>3
<1>4. ASSUME NEW x \in Session, Heartbeat(x) PROVE Goal
  BY <1>3, <1>4 DEF Heartbeat, Beat, Reassert, LoseSession
<1>5. ASSUME NEW x \in Session,
             \/ Put(x) \/ SuspendSession(x) \/ RecordInterrupt(x) \/ RecordError(x)
             \/ (\E m \in StopMotivos : CloseSession(x, m))
             \/ (\E final \in {"success", "failed"} : WriteFinal(x, final))
      PROVE  Goal
  <2>1. PICK st \in RowStatuses, m \in Motivos : WriteRow(x, st, m)
    BY <1>5, OwnWrites DEF RowWritten
  <2>2. /\ pc[x] \in Updating \union {"lost"}
        /\ \/ pc' = pc
           \/ \E label \in {"closing", "stopped", "over", "releasing", "ending"} :
                pc' = [pc EXCEPT ![x] = label]
    BY <1>5, OwnWrites
  <2>3. UNCHANGED <<alias, source>> /\ \A n \in Session : status[n] # "absent" => status'[n] # "absent"
    BY <2>1 DEF WriteRow
  <2> QED BY <1>3, <2>2, <2>3
<1>6. ASSUME NEW x \in Session, Update(x) PROVE Goal
  BY <1>3, <1>5, <1>6 DEF Update, Flush, Get, UpdatePayload
<1>7. ASSUME NEW x \in Session, Stop(x) PROVE Goal
  BY <1>3, <1>5, <1>7 DEF Stop, RecordStop, FinishLoop, Return
<1>8. ASSUME NEW x \in Session, Abort(x) PROVE Goal
  BY <1>3, <1>5, <1>8 DEF Abort, Raise
<1>9. ASSUME NEW x \in Session, End(x) PROVE Goal
  <2>1. CASE NameReason(x)
    <3>1. pc[x] = "ending" /\ pc' = [pc EXCEPT ![x] = "recording"]
      BY <2>1 DEF NameReason
    <3>2. UNCHANGED <<alias, source>> /\ \A n \in Session : status[n] # "absent" => status'[n] # "absent"
      BY <2>1, <3>1, BaseTypes DEF NameReason, Rewrite, WriteRow
    <3> QED BY <1>3, <3>1, <3>2
  <2>2. CASE RecordFinal(x) \/ Leave(x)
    BY <1>3, <2>2 DEF RecordFinal, Leave, Gone
  <2> QED BY <1>5, <1>9, <2>1, <2>2 DEF End
<1>10. ASSUME NEW x \in Session, Wind(x) PROVE Goal
  BY <1>3, <1>10 DEF Wind, Release, ExitLost, Crash, Gone
<1>11. ASSUME NEW x \in Session, Sweep(x) PROVE Goal
  BY <1>3, <1>11 DEF Sweep, Look, Mark, Recover
<1>12. ASSUME NEW x \in Session, Close(x) PROVE Goal
  BY <1>3, <1>12 DEF Close, CloseByResearcher, DecideClosing, WriteClosing, CloseRow
<1>13. CASE UNCHANGED vars
  BY <1>13 DEF vars
<1> QED BY <1>1, <1>2, <1>4, <1>6, <1>7, <1>8, <1>9, <1>10, <1>11, <1>12, <1>13 DEF Next

\* A session that starts is nobody's source yet: a set it belongs to has it as a
\* leaf, any other set had one before.
LEMMA ChainStep == ChainInv /\ [Next]_vars => ChainInv'
<1> SUFFICES ASSUME ChainInv, [Next]_vars PROVE NoCircle'
  BY NameStep, StepStarts DEF ChainInv
<1>1. CASE UNCHANGED vars
  BY <1>1 DEF ChainInv, NoCircle, HasLeaf, Started, vars
<1>2. ASSUME NEW n \in Session, Starts(n) PROVE NoCircle'
  <2> SUFFICES ASSUME NEW P \in SUBSET Started', P # {} PROVE HasLeaf(P)'
    BY DEF NoCircle
  <2>1. CASE pc[n] = "idle" /\ n \in P
    <3>1. \A m \in Session : source[m] # n
      BY <2>1, NoSessionAssumption DEF ChainInv, NameInv, BaseInv, Rows, Sources
    <3>2. \A m \in P : source'[m] # n
      BY <1>2, <2>1, <3>1 DEF Starts, Started
    <3> QED BY <2>1, <3>2 DEF HasLeaf
  <2>2. CASE pc[n] # "idle" \/ n \notin P
    <3>1. P \subseteq Started /\ \A m \in P : source'[m] = source[m]
      BY <1>2, <2>2 DEF Starts, Started
    <3> QED BY <3>1 DEF ChainInv, NoCircle, HasLeaf
  <2> QED BY <2>1, <2>2
<1> QED BY <1>1, <1>2, StepStarts DEF ChainInv

\* The leaf of the sessions of r that left something can be continued.
LEMMA LeafIsPreparable == ChainInv => NeverStranded
<1> SUFFICES ASSUME ChainInv, NEW r \in Session, alias[r] = r, Quiescent(r), Resumable(r)
             PROVE  \E s \in Session : alias[s] = r /\ Preparable(s)
  BY DEF NeverStranded
<1> DEFINE Left == {s \in Session : alias[s] = r /\ Resumable(s)}
<1>1. \A s \in Left : status[s] # "absent" /\ s \in Started
  BY NoSessionAssumption DEF ChainInv, AliasedExist, NameInv, BaseInv, Rows, Started
<1>2. PICK s \in Left : \A m \in Left : source[m] # s
  <2>1. r \in Left
    OBVIOUS
  <2> QED BY <1>1, <2>1 DEF ChainInv, NoCircle, HasLeaf
<1>3. ASSUME claim[s] # NoSession PROVE ClaimIsStale(s)
  <2>1. claim[s] \in Session /\ source[claim[s]] = s /\ alias[claim[s]] = r
    BY <1>3 DEF ChainInv, NameInv, BaseInv, TypeOK, ClaimNamesContinuer
  <2>2. ~Resumable(claim[s])
    BY <1>2, <2>1
  <2>3. status[claim[s]] # "active"
    BY <2>1 DEF Quiescent
  <2> QED BY <1>3, <2>2, <2>3 DEF ClaimIsStale
<1> QED BY <1>1, <1>2, <1>3 DEF Preparable, Unclaimed

\* In every environment, a research whose first session left something to continue
\* from can be continued once its processes are gone and swept (prepare_resume,
\* _check_previous_claim).
THEOREM NoneStranded == Spec => []NeverStranded
BY ChainInit, ChainStep, LeafIsPreparable, PTL DEF Spec
=============================================================================
