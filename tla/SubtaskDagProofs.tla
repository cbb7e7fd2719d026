-------------------------- MODULE SubtaskDagProofs --------------------------
(***************************************************************************)
(* What a session guarantees of its subtasks, for any set of them, any     *)
(* plans the planner may propose and any limits: what was concluded or     *)
(* abandoned stays so, no agent starts before its inputs are there, no     *)
(* subtask fails more often than its attempts allow, and no cycle blocks.  *)
(***************************************************************************)
EXTENDS SubtaskDag, NaturalOrder, FiniteSetTheorems, TLAPS

\* TypeOK in parts: the mode and the loop, the graph, the tracker, the requests,
\* and what ties a coroutine to the plan, the checkpoint and the graph.
LoopTyped ==
  /\ exploring \in BOOLEAN /\ resumed \subseteq Resumed
  /\ phase \in {"planning", "running", "closed"}
  /\ reason \in Reasons
  /\ planned \in 0..MaxPlanRetries /\ rejected \in 0..MaxPlanRetries
  /\ idle \in 0..2 /\ stalled \in -1..StallCycles
  /\ plan \subseteq Task /\ deps \in [Task -> SUBSET Task]

DagTyped ==
  /\ pc \in [Task -> PC] /\ status \in [Task -> Statuses]
  /\ outcome \in [Task -> DoneStatuses \union {"failed"}]
  /\ cp \in [Task -> Checkpointed]

TrackerTyped ==
  /\ attempts \in [Task -> Nat] /\ failures \in [Task -> Nat]
  /\ refunded \subseteq Task /\ abandoned \subseteq Task

AskedTyped ==
  /\ done \subseteq Task /\ started \subseteq Task /\ cancelled \subseteq Task
  /\ replan \in BOOLEAN /\ spent \in BOOLEAN

Linked == \A t \in Task :
  /\ pc[t] # "out" <=> t \in plan
  /\ pc[t] # "out" => cp[t] # "ausente"
  /\ Running /\ pc[t] \in Dispatched \union {"waiting"} => status[t] = "pending"

\* The counters of cycles only reach their limit as the session closes.
Caps == phase # "closed" => idle <= 1 /\ stalled < StallCycles

TypeInv == TypeOK /\ Caps

\* Between two cycles no coroutine is left.
Rest == phase = "planning" => \A t \in Task : pc[t] \in {"out", "settled"}

\* What reached the checks was not concluded before.
NotDone == \A t \in Task :
  pc[t] \in Dispatched \union {"dropping"} => t \notin done \union resumed

\* What the graph calls concluded, or is about to, the checkpoint does.
EndsRecorded == \A t \in Task :
  /\ pc[t] = "settled" /\ status[t] \in DoneStatuses => cp[t] = "concluida"
  /\ pc[t] = "concluding" /\ outcome[t] # "failed" => cp[t] = "concluida"
  /\ pc[t] = "dropping" => status[t] \notin DoneStatuses

InputsSettled == \A t \in Task : pc[t] \in Dispatched => \A d \in deps[t] :
  pc[d] = "settled" /\ status[d] \in DoneStatuses

ConclusionInv == TypeInv /\ Rest /\ NotDone /\ EndsRecorded /\ InputsSettled /\ ConcludedStays

GivenBack(t) == IF t \in refunded THEN 1 ELSE 0

\* An attempt pays for every failure, and for the one that may come.
Paid == \A t \in Task :
  /\ failures[t] <= attempts[t] + GivenBack(t)
  /\ pc[t] \in {"opening", "contracting", "executing", "reviewing"}
       => failures[t] + 1 <= attempts[t] + GivenBack(t)

\* The last failure that is paid for leads to the abandonment.
LastOne == \A t \in Task :
  failures[t] >= MaxTaskRetries + GivenBack(t) =>
    \/ t \in abandoned
    \/ pc[t] \in {"recording", "concluding"} /\ outcome[t] = "failed" /\ Exhausted(t)
    \/ phase = "closed"

FailureInv ==
  TypeInv /\ Rest /\ AbandonedStaysOut /\ Paid /\ LastOne /\ FailuresAreBounded

-----------------------------------------------------------------------------
\* The invariant of the types is the conjunction of its parts.
LEMMA TypeParts ==
  TypeInv <=> LoopTyped /\ DagTyped /\ TrackerTyped /\ AskedTyped /\ Linked /\ Caps
BY DEF TypeInv, TypeOK, LoopTyped, DagTyped, TrackerTyped, AskedTyped, Linked

\* The parts make the type invariant in the next state too.
LEMMA TypePartsNext ==
  LoopTyped' /\ DagTyped' /\ TrackerTyped' /\ AskedTyped' /\ Linked' /\ Caps' => TypeInv'
BY DEF TypeInv, TypeOK, LoopTyped, DagTyped, TrackerTyped, AskedTyped, Linked, Running

\* The first state has the types.
LEMMA TypeInit == Init => TypeInv
<1> SUFFICES ASSUME Init PROVE TypeInv
  OBVIOUS
<1> USE RetriesAssumption, ProposalsAssumption DEF Init
<1>1. LoopTyped
  BY DEF LoopTyped, Reasons
<1>2. DagTyped
  BY DEF DagTyped, PC, Statuses, DoneStatuses, Checkpointed
<1>3. TrackerTyped /\ AskedTyped
  BY DEF TrackerTyped, AskedTyped
<1>4. Linked /\ Caps
  BY DEF Linked, Caps, Running, Dispatched
<1> QED BY <1>1, <1>2, <1>3, <1>4, TypeParts

\* A coroutine keeps the types.
LEMMA TypeCoroutine == ASSUME TypeInv, NEW t \in Task, Coroutine(t) PROVE TypeInv'
<1>1. LoopTyped /\ DagTyped /\ TrackerTyped /\ AskedTyped /\ Linked /\ Caps
  BY TypeParts
<1>2. UNCHANGED <<modeVars, loopVars, done, askedVars>> /\ Running
  BY DEF Coroutine, CancelDependent, SkipDone, SkipAbandoned, DropCancelled, RecordDropped,
         HoldBack, Prepare, BeginAttempt, OpenAttempt, DropLongContract, Execute, AgentFails,
         AgentSucceeds, Approve, Disapprove, Ambiguous, RecordEnd, Conclude
<1>3. LoopTyped' /\ Caps'
  BY <1>1, <1>2 DEF LoopTyped, Caps, modeVars, loopVars
<1>4. TrackerTyped' /\ AskedTyped'
  <2> USE <1>1, <1>2 DEF TrackerTyped, AskedTyped, trackerVars, askedVars
  <2>1. CASE CancelDependent(t)
    BY <2>1 DEF CancelDependent
  <2>2. CASE SkipDone(t)
    BY <2>2 DEF SkipDone
  <2>3. CASE SkipAbandoned(t)
    BY <2>3 DEF SkipAbandoned
  <2>4. CASE DropCancelled(t)
    BY <2>4 DEF DropCancelled
  <2>5. CASE RecordDropped(t)
    BY <2>5 DEF RecordDropped
  <2>6. CASE HoldBack(t)
    BY <2>6 DEF HoldBack
  <2>7. CASE Prepare(t)
    BY <2>7 DEF Prepare
  <2>8. CASE BeginAttempt(t)
    BY <2>8 DEF BeginAttempt
  <2>9. CASE OpenAttempt(t)
    BY <2>9 DEF OpenAttempt
  <2>10. CASE DropLongContract(t)
    BY <2>10 DEF DropLongContract
  <2>11. CASE Execute(t)
    BY <2>11 DEF Execute
  <2>12. CASE AgentFails(t)
    BY <2>12 DEF AgentFails, Fail
  <2>13. CASE AgentSucceeds(t)
    BY <2>13 DEF AgentSucceeds
  <2>14. CASE Approve(t)
    BY <2>14 DEF Approve
  <2>15. CASE Disapprove(t)
    BY <2>15 DEF Disapprove, Fail
  <2>16. CASE Ambiguous(t)
    BY <2>16 DEF Ambiguous, Fail
  <2>17. CASE RecordEnd(t)
    BY <2>17 DEF RecordEnd
  <2>18. CASE Conclude(t)
    BY <2>18 DEF Conclude
  <2> QED BY <2>1, <2>2, <2>3, <2>4, <2>5, <2>6, <2>7, <2>8, <2>9, <2>10, <2>11, <2>12, <2>13, <2>14, <2>15, <2>16, <2>17, <2>18 DEF Coroutine
<1>5. DagTyped' /\ Linked'
  <2> USE <1>1, <1>2 DEF DagTyped, Linked, Running, dagVars, loopVars, Goto, PC, Dispatched,
        Statuses, DoneStatuses
  <2>1. CASE CancelDependent(t)
    BY <2>1 DEF CancelDependent, Settle
  <2>2. CASE SkipDone(t)
    BY <2>2 DEF SkipDone, Settle
  <2>3. CASE SkipAbandoned(t)
    BY <2>3 DEF SkipAbandoned, Settle
  <2>4. CASE DropCancelled(t)
    BY <2>4 DEF DropCancelled, Due
  <2>5. CASE RecordDropped(t)
    BY <2>5 DEF RecordDropped, InCheckpoint, Checkpointed
  <2>6. CASE HoldBack(t)
    BY <2>6 DEF HoldBack, Settle, Due
  <2>7. CASE Prepare(t)
    BY <2>7 DEF Prepare, Due
  <2>8. CASE BeginAttempt(t)
    BY <2>8 DEF BeginAttempt
  <2>9. CASE OpenAttempt(t)
    BY <2>9 DEF OpenAttempt, InCheckpoint, Checkpointed
  <2>10. CASE DropLongContract(t)
    BY <2>10 DEF DropLongContract, Settle
  <2>11. CASE Execute(t)
    BY <2>11 DEF Execute
  <2>12. CASE AgentFails(t)
    BY <2>12 DEF AgentFails, EndAttempts
  <2>13. CASE AgentSucceeds(t)
    BY <2>13 DEF AgentSucceeds, EndAttempts
  <2>14. CASE Approve(t)
    BY <2>14 DEF Approve, EndAttempts
  <2>15. CASE Disapprove(t)
    BY <2>15 DEF Disapprove, EndAttempts
  <2>16. CASE Ambiguous(t)
    BY <2>16 DEF Ambiguous, EndAttempts
  <2>17. CASE RecordEnd(t)
    BY <2>17 DEF RecordEnd, InCheckpoint, Checkpointed
  <2>18. CASE Conclude(t)
    BY <2>18 DEF Conclude, Settle
  <2> QED BY <2>1, <2>2, <2>3, <2>4, <2>5, <2>6, <2>7, <2>8, <2>9, <2>10, <2>11, <2>12, <2>13, <2>14, <2>15, <2>16, <2>17, <2>18 DEF Coroutine
<1> QED BY <1>3, <1>4, <1>5, TypePartsNext

\* So does a step of the planner.
LEMMA TypePlanning == ASSUME TypeInv, Planning PROVE TypeInv'
<1>1. LoopTyped /\ DagTyped /\ TrackerTyped /\ AskedTyped /\ Linked /\ Caps
  BY TypeParts
<1>2. UNCHANGED <<modeVars, trackerVars, done, started, askedVars, failures, outcome>>
  BY DEF Planning, NoPlan, InvalidPlan, IdleCycle, StartCycle, NotPrepared, StopPlanning,
         PlansUsedUp, dagVars
<1>3. TrackerTyped' /\ AskedTyped'
  BY <1>1, <1>2 DEF TrackerTyped, AskedTyped, trackerVars, askedVars
<1>4. CASE StartCycle
  <2>1. phase = "planning" /\ phase' = "running" /\ rejected' = 0 /\ idle' = 0
        /\ reason' = reason /\ stalled' = stalled
    BY <1>4 DEF StartCycle, MayPlan
  <2>2. planned' \in 0..MaxPlanRetries
    BY <1>1, <1>4, RetriesAssumption DEF LoopTyped, StartCycle, MayPlan, PlansLeft, Ask
  <2>3. plan' \subseteq Task /\ deps' \in [Task -> SUBSET Task]
    <3>1. PICK p \in Proposals : plan' = p.tasks /\ deps' = Pruned(p)
      BY <1>4 DEF StartCycle
    <3>2. p \in [tasks : SUBSET Task, deps : [Task -> SUBSET Task]]
      BY ProposalsAssumption
    <3> QED BY <3>1, <3>2 DEF Pruned
  <2>4. LoopTyped' /\ Caps'
    BY <1>1, <1>2, <2>1, <2>2, <2>3, RetriesAssumption DEF LoopTyped, Caps, modeVars
  <2>5. DagTyped'
    <3>1. cp' \in [Task -> Checkpointed]
      BY <1>1, <1>4 DEF StartCycle, DagTyped, PlannedStatus, Checkpointed
    <3> QED BY <1>1, <1>2, <1>4, <3>1 DEF StartCycle, DagTyped, PC, Statuses
  <2>6. Linked'
    BY <1>1, <1>4, <2>3 DEF StartCycle, DagTyped, Linked, Running, PlannedStatus
  <2> QED BY <1>3, <2>4, <2>5, <2>6, TypePartsNext
<1>5. CASE ~StartCycle
  <2>1. UNCHANGED <<plan, deps, dagVars, cp, stalled>> /\ phase = "planning"
    BY <1>5 DEF Planning, NoPlan, InvalidPlan, IdleCycle, NotPrepared, StopPlanning,
         PlansUsedUp, dagVars, MayPlan
  <2>2. phase' \in {"planning", "closed"}
    BY <1>5, <2>1 DEF Planning, NoPlan, InvalidPlan, IdleCycle, NotPrepared, StopPlanning,
         PlansUsedUp, Close
  <2>3. DagTyped' /\ Linked'
    BY <1>1, <2>1, <2>2 DEF DagTyped, Linked, Running, dagVars
  <2>4. LoopTyped' /\ Caps'
    <3> USE <1>1, <1>2, <2>1, <2>2, RetriesAssumption DEF LoopTyped, Caps, modeVars, Close, Reasons,
         MayPlan, PlansLeft, Ask
    <3>1. CASE NoPlan
      BY <3>1 DEF NoPlan
    <3>2. CASE InvalidPlan
      BY <3>2 DEF InvalidPlan
    <3>3. CASE IdleCycle
      BY <3>3 DEF IdleCycle
    <3>4. CASE NotPrepared
      BY <3>4 DEF NotPrepared
    <3>5. CASE StopPlanning
      BY <3>5 DEF StopPlanning
    <3>6. CASE PlansUsedUp
      BY <3>6 DEF PlansUsedUp
    <3> QED BY <1>5, <3>1, <3>2, <3>3, <3>4, <3>5, <3>6 DEF Planning
  <2> QED BY <1>3, <2>3, <2>4, TypePartsNext
<1> QED BY <1>4, <1>5

\* The end of a cycle, and the cut of one, keep them too.
LEMMA TypeEnd == ASSUME TypeInv, Conclusion \/ TimeOut PROVE TypeInv'
<1>1. LoopTyped /\ DagTyped /\ TrackerTyped /\ AskedTyped /\ Linked /\ Caps
  BY TypeParts
<1> USE <1>1
<1>2. UNCHANGED <<modeVars, trackerVars, started, cancelled, spent, cp, failures, outcome, plan,
                  deps, pc, planned, rejected, idle>>
  BY DEF Conclusion, StopExploring, CloseByRetries, EndCycle, Recover, TimeOut, dagVars, askedVars
<1>3. phase = "running" /\ phase' \in {"planning", "closed"} /\ reason' \in Reasons
  BY DEF Conclusion, StopExploring, CloseByRetries, EndCycle, Recover, TimeOut, Close, PlanAgain,
         CycleOver, Running, LoopTyped, Reasons
<1>4. TrackerTyped' /\ AskedTyped'
  BY <1>2 DEF Conclusion, StopExploring, CloseByRetries, EndCycle, Recover, TimeOut, Accumulate,
         Concluded, TrackerTyped, AskedTyped, LoopTyped, trackerVars, askedVars
<1>5. status' \in [Task -> Statuses]
  BY DEF Conclusion, StopExploring, CloseByRetries, EndCycle, Recover, TimeOut, DagTyped, Statuses,
         dagVars
<1>6. DagTyped' /\ Linked'
  BY <1>2, <1>3, <1>5 DEF DagTyped, Linked, Running
<1>7. stalled' \in -1..StallCycles /\ (phase' # "closed" => stalled' < StallCycles)
  <2> USE <1>3, RetriesAssumption DEF LoopTyped, Caps
  <2>1. CASE Recover
    BY <2>1 DEF Recover, Close, PlanAgain
  <2>2. CASE ~Recover
    BY <2>2 DEF Conclusion, StopExploring, CloseByRetries, EndCycle, TimeOut
  <2> QED BY <2>1, <2>2
<1>8. LoopTyped' /\ Caps'
  BY <1>2, <1>3, <1>7 DEF LoopTyped, Caps, modeVars
<1> QED BY <1>4, <1>6, <1>8, TypePartsNext

\* The researcher and the tracker touch only their requests.
LEMMA AskedOnly ==
  ASSUME (\E t \in Cancellable : Cancel(t)) \/ RequestReplan \/ Spend
  PROVE /\ UNCHANGED <<modeVars, loopVars, dagVars, trackerVars, done, started, cp, failures>>
        /\ phase # "closed"
BY DEF Cancel, RequestReplan, Spend

\* A cancellation, a request of another plan and what is spent keep the types.
LEMMA TypeAsked ==
  ASSUME TypeInv, (\E t \in Cancellable : Cancel(t)) \/ RequestReplan \/ Spend
  PROVE TypeInv'
<1>1. LoopTyped /\ DagTyped /\ TrackerTyped /\ AskedTyped /\ Linked /\ Caps
  BY TypeParts
<1>2. LoopTyped' /\ DagTyped' /\ TrackerTyped' /\ Linked' /\ Caps'
  BY <1>1, AskedOnly DEF LoopTyped, DagTyped, TrackerTyped, Linked, Caps, Running, modeVars,
         loopVars, dagVars, trackerVars
<1>3. AskedTyped'
  BY <1>1, ProposalsAssumption DEF Cancel, RequestReplan, Spend, AskedTyped
<1> QED BY <1>2, <1>3, TypePartsNext

\* A step that changes nothing does too.
LEMMA TypeStutter == ASSUME TypeInv, UNCHANGED vars PROVE TypeInv'
BY DEF TypeInv, TypeOK, Caps, Running, vars

\* No step breaks the types.
LEMMA TypeStep == TypeInv /\ [Next]_vars => TypeInv'
BY TypeCoroutine, TypePlanning, TypeEnd, TypeAsked, TypeStutter DEF Next

\* So they hold for ever.
LEMMA TypeAlways == Spec => []TypeInv
BY TypeInit, TypeStep, PTL DEF Spec

\* Every variable of a session keeps its type, whatever the plans propose.
THEOREM TypeCorrect == Spec => []TypeOK
<1>1. TypeInv => TypeOK
  BY DEF TypeInv
<1> QED BY <1>1, TypeAlways, PTL

-----------------------------------------------------------------------------
\* Between two cycles no coroutine is left.
LEMMA RestStep == ASSUME TypeInv, Rest, [Next]_vars PROVE Rest'
<1>1. Linked
  BY TypeParts
<1>2. ASSUME NEW t \in Task, Coroutine(t) PROVE Rest'
  BY <1>2 DEF Coroutine, CancelDependent, SkipDone, SkipAbandoned, DropCancelled, RecordDropped,
         HoldBack, Prepare, BeginAttempt, OpenAttempt, DropLongContract, Execute, AgentFails,
         AgentSucceeds, Approve, Disapprove, Ambiguous, RecordEnd, Conclude, loopVars, Running, Rest
<1>3. CASE Planning
  BY <1>3 DEF Planning, NoPlan, InvalidPlan, IdleCycle, StartCycle, NotPrepared, StopPlanning,
         PlansUsedUp, MayPlan, dagVars, Rest
<1>4. CASE Conclusion
  BY <1>1, <1>4 DEF Conclusion, StopExploring, CloseByRetries, EndCycle, Recover, CycleOver,
         dagVars, Linked, Rest
<1>5. CASE TimeOut
  BY <1>5 DEF TimeOut, Close, Rest
<1>6. CASE (\E t \in Cancellable : Cancel(t)) \/ RequestReplan \/ Spend
  BY <1>6, AskedOnly DEF loopVars, dagVars, Rest
<1>7. CASE UNCHANGED vars
  BY <1>7 DEF vars, Rest
<1> QED BY <1>2, <1>3, <1>4, <1>5, <1>6, <1>7 DEF Next

-----------------------------------------------------------------------------
\* The first state keeps every word.
LEMMA ConclusionInit == Init => ConclusionInv
<1> SUFFICES ASSUME Init PROVE ConclusionInv
  OBVIOUS
<1>1. TypeInv
  BY TypeInit
<1>2. resumed \subseteq Task
  BY ProposalsAssumption DEF Init
<1> QED BY <1>1, <1>2 DEF Init, ConclusionInv, Rest, NotDone, EndsRecorded, InputsSettled, ConcludedStays,
       Dispatched

\* A coroutine passes the checks with its inputs concluded, and ends in the
\* checkpoint before the graph hears of it.
LEMMA ConclusionCoroutine ==
  ASSUME ConclusionInv, NEW t \in Task, Coroutine(t)
  PROVE NotDone' /\ EndsRecorded' /\ InputsSettled' /\ ConcludedStays'
<1>1. LoopTyped /\ DagTyped /\ AskedTyped /\ Linked
  BY TypeParts DEF ConclusionInv
<1>2. NotDone /\ EndsRecorded /\ InputsSettled /\ ConcludedStays
  BY DEF ConclusionInv
<1>3. UNCHANGED <<resumed, done, deps>> /\ resumed \subseteq Task /\ done \subseteq Task
  BY <1>1, ProposalsAssumption DEF Coroutine, CancelDependent, SkipDone, SkipAbandoned, DropCancelled,
         RecordDropped, HoldBack, Prepare, BeginAttempt, OpenAttempt, DropLongContract, Execute,
         AgentFails, AgentSucceeds, Approve, Disapprove, Ambiguous, RecordEnd, Conclude, modeVars,
         loopVars, LoopTyped, AskedTyped
<1>4. NotDone' /\ EndsRecorded' /\ InputsSettled' /\ ConcludedStays'
  <2> USE <1>1, <1>2, <1>3 DEF LoopTyped, DagTyped, Linked, NotDone, EndsRecorded, InputsSettled,
        ConcludedStays, Dispatched, DoneStatuses, Goto, dagVars
  <2>1. CASE CancelDependent(t)
    BY <2>1 DEF CancelDependent, Settle
  <2>2. CASE SkipDone(t)
    BY <2>2 DEF SkipDone, Settle, AlreadyDone
  <2>3. CASE SkipAbandoned(t)
    BY <2>3 DEF SkipAbandoned, Settle
  <2>4. CASE DropCancelled(t)
    BY <2>4 DEF DropCancelled, Due, AlreadyDone
  <2>5. CASE RecordDropped(t)
    BY <2>5 DEF RecordDropped, InCheckpoint
  <2>6. CASE HoldBack(t)
    BY <2>6 DEF HoldBack, Settle, Due
  <2>7. CASE Prepare(t)
    BY <2>7 DEF Prepare, Due, AlreadyDone, Ready
  <2>8. CASE BeginAttempt(t)
    BY <2>8 DEF BeginAttempt
  <2>9. CASE OpenAttempt(t)
    BY <2>9 DEF OpenAttempt, InCheckpoint
  <2>10. CASE DropLongContract(t)
    BY <2>10 DEF DropLongContract, Settle
  <2>11. CASE Execute(t)
    BY <2>11 DEF Execute
  <2>12. CASE AgentFails(t)
    BY <2>12 DEF AgentFails, EndAttempts, Fail
  <2>13. CASE AgentSucceeds(t)
    BY <2>13 DEF AgentSucceeds, EndAttempts
  <2>14. CASE Approve(t)
    BY <2>14 DEF Approve, EndAttempts
  <2>15. CASE Disapprove(t)
    BY <2>15 DEF Disapprove, EndAttempts, Fail
  <2>16. CASE Ambiguous(t)
    BY <2>16 DEF Ambiguous, EndAttempts, Fail
  <2>17. CASE RecordEnd(t)
    BY <2>17 DEF RecordEnd, InCheckpoint
  <2>18. CASE Conclude(t)
    BY <2>18 DEF Conclude, Settle
  <2> QED BY <2>1, <2>2, <2>3, <2>4, <2>5, <2>6, <2>7, <2>8, <2>9, <2>10, <2>11, <2>12, <2>13, <2>14, <2>15, <2>16, <2>17, <2>18 DEF Coroutine
<1> QED BY <1>4

\* A new plan keeps what was concluded, and starts no coroutine past the checks;
\* the end of a cycle adds what the graph calls concluded.
LEMMA ConclusionLoop ==
  ASSUME ConclusionInv, Planning \/ Conclusion \/ TimeOut
  PROVE NotDone' /\ EndsRecorded' /\ InputsSettled' /\ ConcludedStays'
<1>1. LoopTyped /\ DagTyped /\ AskedTyped /\ Linked /\ Rest
  BY TypeParts DEF ConclusionInv
<1>2. NotDone /\ EndsRecorded /\ InputsSettled /\ ConcludedStays
  BY DEF ConclusionInv
<1>3. resumed' = resumed /\ resumed \subseteq Task /\ done \subseteq Task
  BY <1>1, ProposalsAssumption DEF Planning, NoPlan, InvalidPlan, IdleCycle, StartCycle, NotPrepared,
         StopPlanning, PlansUsedUp, Conclusion, StopExploring, CloseByRetries, EndCycle, Recover,
         TimeOut, modeVars, LoopTyped, AskedTyped
<1> USE <1>1, <1>2, <1>3 DEF NotDone, EndsRecorded, InputsSettled, ConcludedStays, Dispatched
<1>4. CASE StartCycle
  <2>1. done' = done /\ \A t \in Task : pc'[t] \in {"out", "waiting"}
    BY <1>4 DEF StartCycle
  <2>2. \A t \in done \union resumed : cp'[t] = "concluida"
    BY <1>4 DEF StartCycle, PlannedStatus
  <2> QED BY <2>1, <2>2
<1>5. CASE Planning /\ ~StartCycle
  BY <1>5 DEF Planning, NoPlan, InvalidPlan, IdleCycle, NotPrepared, StopPlanning, PlansUsedUp,
       dagVars
<1>6. CASE Conclusion
  <2>1. \A t \in Task : pc[t] \in {"out", "settled"}
    BY <1>6 DEF Conclusion, StopExploring, CloseByRetries, EndCycle, Recover, CycleOver, Linked
  <2>2. \A t \in Concluded : cp[t] = "concluida"
    BY <1>6 DEF Conclusion, StopExploring, CloseByRetries, EndCycle, Recover, CycleOver, Concluded,
         LoopTyped
  <2>3. UNCHANGED <<pc, status, outcome, cp, deps>> /\ done' \subseteq done \union Concluded
    BY <1>6 DEF Conclusion, StopExploring, CloseByRetries, EndCycle, Recover, Accumulate, dagVars
  <2>4. Concluded \subseteq Task
    BY DEF Concluded, LoopTyped
  <2> QED BY <2>1, <2>2, <2>3, <2>4
<1>7. CASE TimeOut
  <2>1. UNCHANGED <<pc, outcome, cp, deps, done>>
    BY <1>7 DEF TimeOut
  <2>2. \A t \in Task : status'[t] = status[t] \/ (status[t] = "pending" /\ status'[t] = "cancelled")
    BY <1>7 DEF TimeOut
  <2>3. deps \in [Task -> SUBSET Task]
    BY DEF LoopTyped
  <2> QED BY <2>1, <2>2, <2>3 DEF DoneStatuses
<1> QED BY <1>4, <1>5, <1>6, <1>7

\* No step breaks what is known of conclusions.
LEMMA ConclusionStep == ConclusionInv /\ [Next]_vars => ConclusionInv'
<1> SUFFICES ASSUME ConclusionInv, [Next]_vars PROVE ConclusionInv'
  OBVIOUS
<1>1. TypeInv' /\ Rest'
  BY TypeStep, RestStep DEF ConclusionInv
<1>2. NotDone' /\ EndsRecorded' /\ InputsSettled' /\ ConcludedStays'
  <2>1. CASE \E t \in Task : Coroutine(t)
    BY <2>1, ConclusionCoroutine
  <2>2. CASE Planning \/ Conclusion \/ TimeOut
    BY <2>2, ConclusionLoop
  <2>3. CASE (\E t \in Cancellable : Cancel(t)) \/ RequestReplan \/ Spend
    BY <2>3, AskedOnly DEF ConclusionInv, NotDone, EndsRecorded, InputsSettled, ConcludedStays,
         modeVars, loopVars, dagVars
  <2>4. CASE UNCHANGED vars
    BY <2>4 DEF ConclusionInv, NotDone, EndsRecorded, InputsSettled, ConcludedStays, vars
  <2> QED BY <2>1, <2>2, <2>3, <2>4 DEF Next
<1> QED BY <1>1, <1>2 DEF ConclusionInv

\* The invariant behind the theorems about conclusions.
LEMMA ConclusionAlways == Spec => []ConclusionInv
BY ConclusionInit, ConclusionStep, PTL DEF Spec

\* What the exploration, or an earlier session, concluded keeps the word of the
\* checkpoint, and no agent works on it again, whatever is planned later.
THEOREM ConclusionsStay == Spec => []ConcludedStays
<1>1. ConclusionInv => ConcludedStays
  BY DEF ConclusionInv
<1> QED BY <1>1, ConclusionAlways, PTL

\* No agent works on a subtask before what it depends on is concluded, in the
\* graph and in the checkpoint.
THEOREM InputsFirst == Spec => []InputsAreConcluded
<1>1. ConclusionInv => InputsAreConcluded
  <2> SUFFICES ASSUME ConclusionInv, NEW t \in Task, pc[t] \in Dispatched, NEW d \in deps[t]
               PROVE status[d] \in DoneStatuses /\ cp[d] = "concluida"
    BY DEF InputsAreConcluded
  <2>1. d \in Task
    BY TypeParts DEF ConclusionInv, LoopTyped
  <2> QED BY <2>1 DEF ConclusionInv, InputsSettled, EndsRecorded
<1> QED BY <1>1, ConclusionAlways, PTL

-----------------------------------------------------------------------------
\* Nothing has failed at first.
LEMMA FailureInit == Init => FailureInv
<1> SUFFICES ASSUME Init PROVE FailureInv
  OBVIOUS
<1>1. TypeInv
  BY TypeInit
<1> QED BY <1>1, RetriesAssumption DEF Init, FailureInv, Rest, AbandonedStaysOut, Paid, LastOne,
       FailuresAreBounded, GivenBack

\* An attempt is counted before the agent works, and given back at most once;
\* the failure that exhausts the attempts abandons the subtask.
LEMMA FailureCoroutine ==
  ASSUME FailureInv, NEW t \in Task, Coroutine(t)
  PROVE AbandonedStaysOut' /\ Paid' /\ LastOne' /\ FailuresAreBounded'
<1>1. DagTyped /\ TrackerTyped
  BY TypeParts DEF FailureInv
<1>2. AbandonedStaysOut /\ Paid /\ LastOne /\ FailuresAreBounded
  BY DEF FailureInv
<1>3. phase = "running" /\ phase' = "running" /\ MaxTaskRetries \in Nat
  BY RetriesAssumption DEF Coroutine, CancelDependent, SkipDone, SkipAbandoned, DropCancelled, RecordDropped,
         HoldBack, Prepare, BeginAttempt, OpenAttempt, DropLongContract, Execute, AgentFails,
         AgentSucceeds, Approve, Disapprove, Ambiguous, RecordEnd, Conclude, loopVars, Running
<1>4. AbandonedStaysOut' /\ Paid' /\ LastOne' /\ FailuresAreBounded'
  <2> USE <1>1, <1>2, <1>3 DEF DagTyped, TrackerTyped, AbandonedStaysOut, Paid, LastOne,
        FailuresAreBounded, GivenBack, Exhausted, Dispatched, DoneStatuses, Goto, trackerVars, dagVars
  <2>1. CASE CancelDependent(t)
    BY <2>1 DEF CancelDependent, Settle
  <2>2. CASE SkipDone(t)
    BY <2>2 DEF SkipDone, Settle, AlreadyDone
  <2>3. CASE SkipAbandoned(t)
    BY <2>3 DEF SkipAbandoned, Settle
  <2>4. CASE DropCancelled(t)
    BY <2>4 DEF DropCancelled, Due
  <2>5. CASE RecordDropped(t)
    BY <2>5 DEF RecordDropped, InCheckpoint
  <2>6. CASE HoldBack(t)
    BY <2>6 DEF HoldBack, Settle, Due
  <2>7. CASE Prepare(t)
    BY <2>7 DEF Prepare, Due, AlreadyDone, Ready
  <2>8. CASE BeginAttempt(t)
    BY <2>8 DEF BeginAttempt
  <2>9. CASE OpenAttempt(t)
    BY <2>9 DEF OpenAttempt, InCheckpoint
  <2>10. CASE DropLongContract(t)
    BY <2>10 DEF DropLongContract, Settle
  <2>11. CASE Execute(t)
    BY <2>11 DEF Execute
  <2>12. CASE AgentFails(t)
    BY <2>12 DEF AgentFails, EndAttempts, Fail
  <2>13. CASE AgentSucceeds(t)
    BY <2>13 DEF AgentSucceeds, EndAttempts
  <2>14. CASE Approve(t)
    BY <2>14 DEF Approve, EndAttempts
  <2>15. CASE Disapprove(t)
    BY <2>15 DEF Disapprove, EndAttempts, Fail
  <2>16. CASE Ambiguous(t)
    BY <2>16 DEF Ambiguous, EndAttempts, Fail
  <2>17. CASE RecordEnd(t)
    BY <2>17 DEF RecordEnd, InCheckpoint
  <2>18. CASE Conclude(t)
    BY <2>18 DEF Conclude, Settle
  <2> QED BY <2>1, <2>2, <2>3, <2>4, <2>5, <2>6, <2>7, <2>8, <2>9, <2>10, <2>11, <2>12, <2>13, <2>14, <2>15, <2>16, <2>17, <2>18 DEF Coroutine
<1> QED BY <1>4

\* Between the coroutines of two cycles, no count changes.
LEMMA FailureLoop ==
  ASSUME FailureInv, Planning \/ Conclusion \/ TimeOut
  PROVE AbandonedStaysOut' /\ Paid' /\ LastOne' /\ FailuresAreBounded'
<1>1. UNCHANGED <<attempts, refunded, abandoned, failures, outcome>> /\ phase # "closed"
  BY DEF Planning, NoPlan, InvalidPlan, IdleCycle, StartCycle, NotPrepared, StopPlanning,
         PlansUsedUp, Conclusion, StopExploring, CloseByRetries, EndCycle, Recover, TimeOut,
         MayPlan, CycleOver, Running, trackerVars, dagVars
<1>2. \A t \in Task : pc'[t] = pc[t] \/ (pc'[t] \in {"out", "waiting"} /\ pc[t] \in {"out", "settled"})
  BY DEF Planning, NoPlan, InvalidPlan, IdleCycle, StartCycle, NotPrepared, StopPlanning,
         PlansUsedUp, Conclusion, StopExploring, CloseByRetries, EndCycle, Recover, TimeOut,
         MayPlan, dagVars, FailureInv, Rest
<1>3. AbandonedStaysOut' /\ Paid' /\ FailuresAreBounded'
  BY <1>1, <1>2, TypeParts DEF FailureInv, AbandonedStaysOut, Paid, FailuresAreBounded, GivenBack, Exhausted,
       Dispatched, TrackerTyped
<1>4. LastOne'
  BY <1>1, <1>2 DEF FailureInv, LastOne, GivenBack, Exhausted
<1> QED BY <1>3, <1>4

\* No step breaks what is known of failures.
LEMMA FailureStep == FailureInv /\ [Next]_vars => FailureInv'
<1> SUFFICES ASSUME FailureInv, [Next]_vars PROVE FailureInv'
  OBVIOUS
<1>1. TypeInv' /\ Rest'
  BY TypeStep, RestStep DEF FailureInv
<1>2. AbandonedStaysOut' /\ Paid' /\ LastOne' /\ FailuresAreBounded'
  <2>1. CASE \E t \in Task : Coroutine(t)
    BY <2>1, FailureCoroutine
  <2>2. CASE Planning \/ Conclusion \/ TimeOut
    BY <2>2, FailureLoop
  <2> USE DEF FailureInv, AbandonedStaysOut, Paid, LastOne, FailuresAreBounded, GivenBack, Exhausted
  <2>3. CASE (\E t \in Cancellable : Cancel(t)) \/ RequestReplan \/ Spend
    BY <2>3, AskedOnly DEF loopVars, dagVars, trackerVars
  <2>4. CASE UNCHANGED vars
    BY <2>4 DEF vars
  <2> QED BY <2>1, <2>2, <2>3, <2>4 DEF Next
<1> QED BY <1>1, <1>2 DEF FailureInv

\* The invariant behind the theorems about failures.
LEMMA FailureAlways == Spec => []FailureInv
BY FailureInit, FailureStep, PTL DEF Spec

\* However many cycles plan it again, a subtask fails at most as often as its
\* attempts allow, and once more after an ambiguous criterion.
THEOREM FailuresBounded == Spec => []FailuresAreBounded
<1>1. FailureInv => FailuresAreBounded
  BY DEF FailureInv
<1> QED BY <1>1, FailureAlways, PTL

\* An abandoned subtask had used all its attempts, and no later plan runs it.
THEOREM AbandonedForGood == Spec => []AbandonedStaysOut
<1>1. FailureInv => AbandonedStaysOut
  BY DEF FailureInv
<1> QED BY <1>1, FailureAlways, PTL

-----------------------------------------------------------------------------
\* What TaskScheduler.validate_dag lets through: every part of it has a subtask
\* that waits for nothing in that part.
WellFounded(tasks, on) ==
  /\ \A t \in tasks : on[t] \subseteq tasks
  /\ \A part \in (SUBSET tasks) \ {{}} : \E t \in part : on[t] \intersect part = {}

\* The rounds of Kahn's algorithm: each one adds what waits only for earlier ones.
AreRounds(f, tasks, on) ==
  /\ f[0] = {}
  /\ \A n \in 1..Cardinality(tasks) :
       f[n] = f[n - 1] \union {t \in tasks : on[t] \subseteq f[n - 1]}
  /\ Visited(tasks, on) = f[Cardinality(tasks)]

\* The rounds of Kahn's algorithm exist: what each one visits depends only on earlier ones.
LEMMA KahnRounds ==
  ASSUME NEW tasks, IsFiniteSet(tasks), NEW on PROVE \E f : AreRounds(f, tasks, on)
<1> DEFINE N == Cardinality(tasks)
           Round(f) == f = [n \in 0..N |-> IF n = 0 THEN {}
                              ELSE f[n - 1] \union {t \in tasks : on[t] \subseteq f[n - 1]}]
           more == [S \in SUBSET tasks |-> S \union {t \in tasks : on[t] \subseteq S}]
<1>1. N \in Nat
  BY FS_CardinalityType
<1>2. more \in [SUBSET tasks -> SUBSET tasks]
  OBVIOUS
<1>3. PICK g \in [0..N -> SUBSET tasks] : IsRounds(g, N, more)
  <2> HIDE DEF more, N
  <2> QED BY <1>1, <1>2, Rounds
<1>4. Round(g)
  <2> SUFFICES ASSUME NEW n \in 0..N
               PROVE g[n] = IF n = 0 THEN {}
                            ELSE g[n - 1] \union {t \in tasks : on[t] \subseteq g[n - 1]}
    BY <1>3 DEF IsRounds
  <2>1. g[n] = IF n = 0 THEN {} ELSE more[g[n - 1]]
    BY <1>3 DEF IsRounds
  <2>2. n # 0 => n - 1 \in 0..N
    BY <1>1
  <2> QED BY <2>1, <2>2
<1>5. PICK f : Round(f) /\ Visited(tasks, on) = f[N]
  <2>1. Round(CHOOSE h : Round(h))
    BY <1>4
  <2>2. Visited(tasks, on) = (CHOOSE h : Round(h))[N]
    BY DEF Visited
  <2> QED BY <2>1, <2>2
<1>6. f[0] = {}
  BY <1>1, <1>5
<1>7. ASSUME NEW n \in 1..N
      PROVE f[n] = f[n - 1] \union {t \in tasks : on[t] \subseteq f[n - 1]}
  <2>1. n \in 0..N /\ n # 0
    BY <1>1
  <2> QED BY <1>5, <2>1
<1> QED BY <1>5, <1>6, <1>7 DEF AreRounds

\* The check is sound: what has left the queue can be ordered by its round.
LEMMA ValidIsWellFounded ==
  ASSUME NEW tasks, IsFiniteSet(tasks), NEW on, ValidDag(tasks, on)
  PROVE WellFounded(tasks, on)
<1> DEFINE N == Cardinality(tasks)
<1>1. N \in Nat
  BY FS_CardinalityType
<1>2. PICK f : AreRounds(f, tasks, on)
  BY KahnRounds
<1>3. ASSUME NEW part \in SUBSET tasks, part # {}
      PROVE \E t \in part : on[t] \intersect part = {}
  <2> DEFINE Meets == {n \in 0..N : f[n] \intersect part # {}}
  <2>1. N \in Meets
    BY <1>1, <1>2, <1>3 DEF ValidDag, AreRounds
  <2>2. PICK n \in Meets : \A m \in Meets : n <= m
    <3>1. Meets \subseteq Nat /\ Meets # {}
      BY <1>1, <2>1
    <3> HIDE DEF Meets
    <3> QED BY <3>1, Least
  <2>3. n \in 1..N
    BY <1>1, <1>2 DEF AreRounds
  <2>4. n - 1 \in 0..N /\ n - 1 \notin Meets
    BY <2>2, <2>3, <1>1
  <2>5. PICK t \in part : t \in f[n]
    OBVIOUS
  <2>6. on[t] \subseteq f[n - 1]
    BY <1>2, <2>3, <2>4, <2>5 DEF AreRounds
  <2> QED BY <2>4, <2>6
<1> QED BY <1>3 DEF ValidDag, WellFounded

\* Only a valid plan replaces the last one.
LEMMA PlanStep == ASSUME WellFounded(plan, deps), [Next]_vars PROVE WellFounded(plan, deps)'
<1>1. CASE StartCycle
  <2>1. PICK p \in Proposals : ValidDag(p.tasks, Pruned(p)) /\ plan' = p.tasks /\ deps' = Pruned(p)
    BY <1>1 DEF StartCycle
  <2> QED BY <2>1, ProposalsAssumption, ValidIsWellFounded
<1>2. CASE ~StartCycle
  <2>1. UNCHANGED <<plan, deps>>
    <3>1. ASSUME NEW t \in Task, Coroutine(t) PROVE UNCHANGED <<plan, deps>>
      BY <3>1 DEF Coroutine, CancelDependent, SkipDone, SkipAbandoned, DropCancelled, RecordDropped,
             HoldBack, Prepare, BeginAttempt, OpenAttempt, DropLongContract, Execute, AgentFails,
             AgentSucceeds, Approve, Disapprove, Ambiguous, RecordEnd, Conclude, loopVars
    <3>2. CASE Planning
      BY <1>2, <3>2 DEF Planning, NoPlan, InvalidPlan, IdleCycle, NotPrepared, StopPlanning,
             PlansUsedUp
    <3>3. CASE Conclusion \/ TimeOut
      BY <3>3 DEF Conclusion, StopExploring, CloseByRetries, EndCycle, Recover, TimeOut
    <3>4. CASE (\E t \in Cancellable : Cancel(t)) \/ RequestReplan \/ Spend
      BY <3>4, AskedOnly DEF loopVars
    <3>5. CASE UNCHANGED vars
      BY <3>5 DEF vars
    <3> QED BY <3>1, <3>2, <3>3, <3>4, <3>5 DEF Next
  <2> QED BY <2>1 DEF WellFounded
<1> QED BY <1>1, <1>2

\* A plan that runs has no subtasks that wait for each other, whatever the planner
\* proposes and whatever an earlier session concluded.
THEOREM PlansWellFounded == Spec => []PlanIsWellFounded
<1>1. Init => WellFounded(plan, deps)
  BY DEF Init, WellFounded
<1>2. WellFounded(plan, deps) /\ [Next]_vars => WellFounded(plan, deps)'
  BY PlanStep
<1>3. WellFounded(plan, deps) => PlanIsWellFounded
  BY DEF WellFounded, PlanIsWellFounded
<1> QED BY <1>1, <1>2, <1>3, PTL DEF Spec
-----------------------------------------------------------------------------
(***************************************************************************)
(* Why a cycle ends.  CycleEnds itself needs fairness and is left to TLC;  *)
(* what it rests on is proved: somebody can always go on, whoever goes on  *)
(* comes nearer to its end, and nobody is set back.                        *)
(***************************************************************************)

\* The coroutine of t can take a step: its agents, its Validator and its writes
\* answer, so it only waits for the futures of its dependencies.
Able(t) ==
  /\ Running
  /\ pc[t] \notin {"out", "settled"}
  /\ pc[t] = "waiting" =>
       Ready(t) \/ \E d \in deps[t] : pc[d] = "settled" /\ status[d] \notin DoneStatuses

\* While a subtask of the cycle is not settled, one of them can go on.
SomeoneGoesOn == Running /\ ~CycleOver => \E t \in plan : Able(t)

\* The retries t has left, each with the steps of an attempt.
RetriesLeft(t) == 8 * (IF Exhausted(t) THEN 0 ELSE MaxTaskRetries - attempts[t])

\* An attempt that fails is followed by another one while there are any.
ThenRetry(t) == IF Exhausted(t) THEN 0 ELSE RetriesLeft(t) + 8

\* How far the coroutine of t is from its end, at most.
Rank(t) ==
  CASE pc[t] = "waiting"     -> 8 * MaxTaskRetries + 9
    [] pc[t] = "preparing"   -> RetriesLeft(t) + 8
    [] pc[t] = "opening"     -> ThenRetry(t) + 6
    [] pc[t] = "contracting" -> ThenRetry(t) + 5
    [] pc[t] = "executing"   -> ThenRetry(t) + 4
    [] pc[t] = "reviewing"   -> 3
    [] pc[t] = "recording"   -> 2
    [] pc[t] \in {"concluding", "dropping"} -> 1
    [] OTHER -> 0

\* Within a cycle each step of a coroutine brings it nearer to its end, and no
\* step, of the others, of the researcher or of the tracker, takes one back.
NobodyIsSetBack == \A t \in Task :
  /\ Coroutine(t) => Rank(t)' < Rank(t)
  /\ Running /\ Running' => Rank(t)' <= Rank(t)
CycleAdvances == [][NobodyIsSetBack]_vars

\* The plans a session without exploration may still ask for, and the cycle of
\* the last one.
PlansAhead ==
  CASE phase = "planning" -> 2 * (MaxPlanRetries - planned) + 1
    [] phase = "running"  -> 2 * (MaxPlanRetries - planned) + 2
    [] OTHER -> 0

\* Without exploration every step of the loop itself, a plan asked for or a cycle
\* that ended, leaves fewer plans and cycles ahead, and none brings one back.
NoPlanComesBack == ~exploring =>
  /\ Planning \/ Conclusion \/ TimeOut => PlansAhead' < PlansAhead
  /\ PlansAhead' <= PlansAhead
SessionAdvances == [][NoPlanComesBack]_vars

\* The unsettled subtask that waits for no other can go on.
LEMMA GoesOn == TypeInv /\ WellFounded(plan, deps) => SomeoneGoesOn
<1> SUFFICES ASSUME TypeInv, WellFounded(plan, deps), Running, ~CycleOver
             PROVE  \E t \in plan : Able(t)
  BY DEF SomeoneGoesOn
<1> DEFINE part == {t \in plan : pc[t] # "settled"}
<1>1. part \in (SUBSET plan) \ {{}}
  BY DEF CycleOver
<1>2. PICK t \in part : deps[t] \intersect part = {}
  <2> HIDE DEF part
  <2> QED BY <1>1 DEF WellFounded
<1>3. \A d \in deps[t] : pc[d] = "settled"
  BY <1>2 DEF WellFounded
<1>4. pc[t] # "out"
  BY <1>2, TypeParts DEF Linked, LoopTyped
<1> QED BY <1>2, <1>3, <1>4 DEF Able, Ready

\* No cycle blocks: whatever was pruned, left out, cancelled, dropped or abandoned,
\* somebody can go on until every future has a result (_execute_task_in_dag).
THEOREM NoCycleBlocks == Spec => []SomeoneGoesOn
<1>1. Init => TypeInv /\ WellFounded(plan, deps)
  BY TypeInit DEF Init, WellFounded
<1>2. TypeInv /\ WellFounded(plan, deps) /\ [Next]_vars => TypeInv' /\ WellFounded(plan, deps)'
  BY TypeStep, PlanStep
<1> QED BY <1>1, <1>2, GoesOn, PTL DEF Spec

\* The places a coroutine goes to, and what becomes of its attempts.
MovesOn(t) ==
  \/ pc[t] = "waiting" /\ pc'[t] \in {"settled", "dropping", "preparing"}
       /\ attempts'[t] = attempts[t]
  \/ pc[t] = "preparing" /\ pc'[t] = "opening" /\ attempts'[t] = attempts[t] + 1
  \/ pc[t] = "opening" /\ pc'[t] = "contracting" /\ attempts'[t] = attempts[t]
  \/ pc[t] = "contracting" /\ pc'[t] \in {"settled", "executing"} /\ attempts'[t] = attempts[t]
  \/ pc[t] = "executing" /\ pc'[t] \in {"recording", "reviewing"} /\ attempts'[t] = attempts[t]
  \/ pc[t] = "executing" /\ pc'[t] = "preparing" /\ attempts'[t] = attempts[t] /\ ~Exhausted(t)
  \/ pc[t] = "reviewing" /\ pc'[t] = "recording"
  \/ pc[t] = "recording" /\ pc'[t] = "concluding"
  \/ pc[t] \in {"concluding", "dropping"} /\ pc'[t] = "settled"

\* A coroutine moves on as its actions say, and leaves the others where they are.
LEMMA CoroutineMoves ==
  ASSUME TypeInv, NEW t \in Task, Coroutine(t)
  PROVE  MovesOn(t) /\ \A u \in Task \ {t} : pc'[u] = pc[u] /\ attempts'[u] = attempts[u]
<1> DEFINE Moves == MovesOn(t) /\ \A u \in Task \ {t} : pc'[u] = pc[u] /\ attempts'[u] = attempts[u]
<1>1. DagTyped /\ TrackerTyped
  BY TypeParts
<1> USE <1>1 DEF DagTyped, TrackerTyped, MovesOn, Goto, Settle, trackerVars
<1>2. CASE CancelDependent(t) \/ SkipDone(t) \/ SkipAbandoned(t)
  BY <1>2 DEF CancelDependent, SkipDone, SkipAbandoned
<1>3. CASE DropCancelled(t) \/ HoldBack(t) \/ Prepare(t)
  BY <1>3 DEF DropCancelled, HoldBack, Prepare, Due
<1>4. CASE RecordDropped(t) \/ BeginAttempt(t) \/ OpenAttempt(t)
  BY <1>4 DEF RecordDropped, BeginAttempt, OpenAttempt
<1>5. CASE DropLongContract(t) \/ Execute(t)
  BY <1>5 DEF DropLongContract, Execute
<1>6. CASE AgentFails(t) \/ AgentSucceeds(t)
  BY <1>6 DEF AgentFails, AgentSucceeds, EndAttempts
<1>7. CASE Approve(t) \/ Disapprove(t)
  BY <1>7 DEF Approve, Disapprove, EndAttempts
<1>8. CASE Ambiguous(t)
  BY <1>8 DEF Ambiguous, EndAttempts
<1>9. CASE RecordEnd(t) \/ Conclude(t)
  BY <1>9 DEF RecordEnd, Conclude
<1> QED BY <1>2, <1>3, <1>4, <1>5, <1>6, <1>7, <1>8, <1>9 DEF Coroutine

\* The rank is a natural number.
LEMMA RankTyped == ASSUME TypeInv, NEW t \in Task PROVE Rank(t) \in Nat
<1>1. attempts[t] \in Nat
  BY TypeParts DEF TrackerTyped
<1> QED BY <1>1, RetriesAssumption DEF Rank, RetriesLeft, ThenRetry, Exhausted

\* Moving on lowers the rank: an attempt spends more than it may lead to.
LEMMA MovingLowers ==
  ASSUME TypeInv, NEW t \in Task, MovesOn(t)
  PROVE  Rank(t)' \in Int /\ Rank(t)' < Rank(t)
<1>1. attempts[t] \in Nat /\ MaxTaskRetries \in Nat \ {0}
  BY TypeParts, RetriesAssumption DEF TrackerTyped
<1> USE <1>1 DEF Rank, RetriesLeft, ThenRetry, Exhausted
<1>2. CASE pc[t] = "waiting"
  BY <1>2 DEF MovesOn
<1>3. CASE pc[t] = "preparing"
  BY <1>3 DEF MovesOn
<1>4. CASE pc[t] \in {"opening", "contracting"}
  BY <1>4 DEF MovesOn
<1>5. CASE pc[t] = "executing"
  BY <1>5 DEF MovesOn
<1>6. CASE pc[t] \in {"reviewing", "recording", "concluding", "dropping"}
  BY <1>6 DEF MovesOn
<1> QED BY <1>2, <1>3, <1>4, <1>5, <1>6 DEF MovesOn

\* A rank does not change while its place and its attempts do not.
LEMMA RankStays ==
  ASSUME NEW t \in Task, pc'[t] = pc[t], attempts'[t] = attempts[t]
  PROVE  Rank(t)' = Rank(t)
BY DEF Rank, RetriesLeft, ThenRetry, Exhausted

\* Within a cycle nobody is set back, and every step of a coroutine counts: it
\* takes at most 8 * MaxTaskRetries + 9 of them (_execute_task_in_dag).
THEOREM CyclesAdvance == Spec => CycleAdvances
<1>1. ASSUME TypeInv, [Next]_vars, NEW t \in Task
      PROVE  /\ Coroutine(t) => Rank(t)' < Rank(t)
             /\ Running /\ Running' => Rank(t)' <= Rank(t)
  <2>1. Rank(t) \in Nat
    BY <1>1, RankTyped
  <2>2. Coroutine(t) => Rank(t)' \in Int /\ Rank(t)' < Rank(t)
    BY <1>1, CoroutineMoves, MovingLowers
  <2>3. ASSUME pc'[t] = pc[t], attempts'[t] = attempts[t] PROVE Rank(t)' <= Rank(t)
    BY <2>1, <2>3, RankStays
  <2>4. ASSUME NEW u \in Task \ {t}, Coroutine(u) PROVE Rank(t)' <= Rank(t)
    BY <1>1, <2>3, <2>4, CoroutineMoves
  <2>5. ASSUME Running, Planning PROVE FALSE
    BY <2>5 DEF Running, Planning, NoPlan, InvalidPlan, IdleCycle, StartCycle, NotPrepared,
           StopPlanning, PlansUsedUp, MayPlan
  <2>6. ASSUME Running', Conclusion \/ TimeOut PROVE FALSE
    BY <2>6 DEF Running, Conclusion, StopExploring, CloseByRetries, EndCycle, Recover, TimeOut,
           PlanAgain, Close
  <2>7. ASSUME (\E c \in Cancellable : Cancel(c)) \/ RequestReplan \/ Spend \/ UNCHANGED vars
        PROVE  Rank(t)' <= Rank(t)
    BY <2>3, <2>7, AskedOnly DEF vars, dagVars, trackerVars
  <2>8. ASSUME Running, Running' PROVE Rank(t)' <= Rank(t)
    <3>1. ASSUME NEW u \in Task, Coroutine(u) PROVE Rank(t)' <= Rank(t)
      BY <2>1, <2>2, <2>4, <3>1
    <3> QED BY <1>1, <2>5, <2>6, <2>7, <2>8, <3>1 DEF Next
  <2> QED BY <2>2, <2>8
<1>2. TypeInv /\ [Next]_vars => NobodyIsSetBack
  BY <1>1 DEF NobodyIsSetBack
<1> QED BY <1>2, TypeAlways, PTL DEF Spec, CycleAdvances

\* Without exploration every plan asked for is counted, so that a session has at
\* most MaxPlanRetries cycles, whatever fails (_run_complex_path).
THEOREM SessionsAdvance == Spec => SessionAdvances
<1>1. ASSUME TypeInv, [Next]_vars, ~exploring
      PROVE  /\ Planning \/ Conclusion \/ TimeOut => PlansAhead' < PlansAhead
             /\ PlansAhead' <= PlansAhead
  <2>1. planned \in 0..MaxPlanRetries /\ MaxPlanRetries \in Nat
        /\ phase \in {"planning", "running", "closed"}
    BY <1>1, TypeParts, RetriesAssumption DEF LoopTyped
  <2>2. ASSUME Planning PROVE PlansAhead' < PlansAhead /\ PlansAhead' <= PlansAhead
    <3> USE <1>1, <2>1, <2>2 DEF PlansAhead, MayPlan, PlansLeft, Ask, Close
    <3>1. CASE NoPlan \/ InvalidPlan
      BY <3>1 DEF NoPlan, InvalidPlan
    <3>2. CASE StartCycle
      BY <3>2 DEF StartCycle
    <3>3. CASE StopPlanning \/ PlansUsedUp
      BY <3>3 DEF StopPlanning, PlansUsedUp
    <3> QED BY <3>1, <3>2, <3>3 DEF Planning, IdleCycle, NotPrepared
  <2>3. ASSUME Conclusion \/ TimeOut PROVE PlansAhead' < PlansAhead /\ PlansAhead' <= PlansAhead
    BY <2>1, <2>3 DEF PlansAhead, Conclusion, StopExploring, CloseByRetries, EndCycle, Recover,
           TimeOut, CycleOver, Running, PlanAgain, Close
  <2>4. ASSUME UNCHANGED <<phase, planned>> PROVE PlansAhead' <= PlansAhead
    BY <2>1, <2>4 DEF PlansAhead
  <2>5. ASSUME NEW t \in Task, Coroutine(t) PROVE UNCHANGED <<phase, planned>>
    BY <2>5 DEF Coroutine, CancelDependent, SkipDone, SkipAbandoned, DropCancelled, RecordDropped,
           HoldBack, Prepare, BeginAttempt, OpenAttempt, DropLongContract, Execute, AgentFails,
           AgentSucceeds, Approve, Disapprove, Ambiguous, RecordEnd, Conclude, loopVars
  <2>6. ASSUME (\E c \in Cancellable : Cancel(c)) \/ RequestReplan \/ Spend \/ UNCHANGED vars
        PROVE  UNCHANGED <<phase, planned>>
    BY <2>6, AskedOnly DEF vars, loopVars
  <2> QED BY <1>1, <2>2, <2>3, <2>4, <2>5, <2>6 DEF Next
<1>2. TypeInv /\ [Next]_vars => NoPlanComesBack
  BY <1>1 DEF NoPlanComesBack
<1> QED BY <1>2, TypeAlways, PTL DEF Spec, SessionAdvances
=============================================================================
