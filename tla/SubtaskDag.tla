------------------------------ MODULE SubtaskDag ------------------------------
(***************************************************************************)
(* The complex path of the autonomous loop: plan, run the subtasks of the  *)
(* plan as a graph of coroutines, conclude the cycle, plan again.          *)
(*                                                                         *)
(* A cycle starts one coroutine per subtask, which waits for the futures of*)
(* its dependencies, passes the checks that may keep it from running, then *)
(* tries, at most as often as the tracker allows, an agent and the review  *)
(* of its result.  The coroutines of a process take turns at every await;  *)
(* an action is what one of them does between two awaits.  The tracker, the*)
(* set of concluded subtasks, the started and the cancelled ones outlive   *)
(* the cycle; the checkpoint outlives the session.                         *)
(*                                                                         *)
(* What a plan contains is the language model's choice: one of Proposals,  *)
(* valid or not (a cut by max_subtasks may also leave a dependency out).   *)
(* Every subtask has a name.  Prompts, contracts, artifacts and telemetry  *)
(* are left out; so is an exception of a coroutine, which ends the loop.   *)
(***************************************************************************)
EXTENDS Integers, FiniteSets

CONSTANTS
  Task,            \* names of subtasks
  Proposals,       \* the plans the planner may come up with
  MaxTaskRetries,  \* SESSION_MAX_TASK_RETRIES
  MaxPlanRetries,  \* MAX_PLAN_RETRIES
  StallCycles,     \* CIRCUIT_BREAKER_STALL_CYCLES
  Cancellable,     \* the subtasks the researcher may cancel
  Resumed,         \* what an earlier session may have concluded
  AttemptCap       \* bound: no contract is too long from this attempt on

ASSUME RetriesAssumption ==
  /\ MaxTaskRetries \in Nat \ {0}
  /\ MaxPlanRetries \in Nat \ {0}
  /\ StallCycles \in Nat \ {0}
  /\ AttemptCap \in Nat
ASSUME ProposalsAssumption ==
  /\ Proposals \subseteq [tasks : SUBSET Task, deps : [Task -> SUBSET Task]]
  /\ \A p \in Proposals : IsFiniteSet(p.tasks)
  /\ Cancellable \subseteq Task
  /\ Resumed \subseteq Task

VARIABLES
  exploring,  \* does the project have a confirmed Problem (exploration)?
  resumed,    \* resume.completed: concluded by an earlier session
  phase,      \* the loop: planning, running a cycle, closed
  reason,     \* why it closed
  planned,    \* legacy_attempt: plans asked for, without exploration
  rejected,   \* rejected_plans: in a row, with exploration
  idle,       \* exploration.idle_cycles
  stalled,    \* _stalled_cycles, or -1 before the first cycle that failed
  plan,       \* the subtasks of the cycle
  deps,       \* depends_on
  pc,         \* where the coroutine of each subtask is
  status,     \* dag_state[...]["status"]
  outcome,    \* how the last attempt of a subtask ended
  attempts,   \* _task_retry_counts
  refunded,   \* _refunded_tasks
  abandoned,  \* _abandoned_tasks
  done,       \* done_results
  started,    \* _STARTED_TASKS
  cancelled,  \* _CANCELLED_TASKS
  replan,     \* _REPLAN_REQUESTED
  spent,      \* would check() say should_close?
  cp,         \* status of each subtask in the checkpoint
  failures    \* history: executions of a subtask that did not conclude it

modeVars    == <<exploring, resumed>>
loopVars    == <<phase, reason, planned, rejected, idle, stalled, plan, deps>>
dagVars     == <<pc, status, outcome>>
trackerVars == <<attempts, refunded, abandoned>>
askedVars   == <<cancelled, replan, spent>>
vars == <<exploring, resumed, phase, reason, planned, rejected, idle, stalled, plan,
          deps, pc, status, outcome, attempts, refunded, abandoned, done, started,
          cancelled, replan, spent, cp, failures>>

DoneStatuses == {"success", "concluded_negative"}
Statuses     == DoneStatuses \union {"pending", "failed", "cancelled", "abandonada"}
Checkpointed == {"ausente", "pendente", "em_andamento", "concluida", "falhou", "abandonada"}
Reasons      == {"aberta", "concluida", "erro", "limite", "limite_tempo",
                 "limite_retentativas", "sem_progresso", "sem_plano",
                 "planos_rejeitados", "sem_caminhos", "criterio", "aguarda"}

(***************************************************************************)
(* pc:  out         not in the plan of this cycle                          *)
(*      waiting     for the futures of its dependencies                    *)
(*      dropping    cancelled: its checkpoint is being written             *)
(*      preparing   past the checks: context, memory of failures, or the   *)
(*                  pause before another attempt                           *)
(*      opening     the attempt is counted, its checkpoint is being written*)
(*      contracting its contract is being built                            *)
(*      executing   the agent works                                        *)
(*      reviewing   the Validator reads the result                         *)
(*      recording   facts and checkpoint of the end are being written      *)
(*      concluding  they are written, the graph does not know yet          *)
(*      settled     its future has a result                                *)
(***************************************************************************)
Dispatched == {"preparing", "opening", "contracting", "executing", "reviewing",
               "recording", "concluding"}
PC == Dispatched \union {"out", "waiting", "dropping", "settled"}

Exhausted(t) == attempts[t] >= MaxTaskRetries

Init ==
  /\ exploring \in BOOLEAN
  /\ resumed \in SUBSET Resumed
  /\ phase = "planning"
  /\ reason = "aberta"
  /\ planned = 0
  /\ rejected = 0
  /\ idle = 0
  /\ stalled = -1
  /\ plan = {}
  /\ deps = [t \in Task |-> {}]
  /\ pc = [t \in Task |-> "out"]
  /\ status = [t \in Task |-> "pending"]
  /\ outcome = [t \in Task |-> "failed"]
  /\ attempts = [t \in Task |-> 0]
  /\ refunded = {}
  /\ abandoned = {}
  /\ done = {}
  /\ started = {}
  /\ cancelled = {}
  /\ replan = FALSE
  /\ spent = FALSE
  /\ cp = [t \in Task |-> IF t \in resumed THEN "concluida" ELSE "ausente"]
  /\ failures = [t \in Task |-> 0]

Close(why) == phase' = "closed" /\ reason' = why

-----------------------------------------------------------------------------
(***************************************************************************)
(* Planning                                                                *)
(***************************************************************************)

\* A dependency concluded by an earlier session needs no node in the plan.
Pruned(p) ==
  [t \in Task |-> IF t \in p.tasks
                  THEN {d \in p.deps[t] : d \in p.tasks \/ d \notin resumed} ELSE {}]

\* Kahn's algorithm: what has left the queue after n rounds.
Visited(tasks, on) ==
  LET after[n \in 0..Cardinality(tasks)] ==
        IF n = 0 THEN {}
        ELSE after[n - 1] \union {t \in tasks : on[t] \subseteq after[n - 1]}
  IN after[Cardinality(tasks)]

\* Two subtasks that wait for each other pass.
ValidDag_MissingOnly(tasks, on) == \A t \in tasks : on[t] \subseteq tasks

ValidDag(tasks, on) ==
  /\ \A t \in tasks : on[t] \subseteq tasks
  /\ Visited(tasks, on) = tasks

PlansLeft == IF exploring THEN rejected < MaxPlanRetries ELSE planned < MaxPlanRetries

\* The planner may be asked: no limit is reached, and the plans are not used up.
MayPlan == phase = "planning" /\ PlansLeft /\ ~spent

\* Plans without exploration are not counted.
Ask_Free == UNCHANGED planned

Ask == planned' = IF exploring THEN planned ELSE planned + 1

\* The planner stalls (which ends a session without exploration), or has no plan.
NoPlan ==
  /\ MayPlan
  /\ Ask
  /\ rejected' = IF exploring THEN rejected + 1 ELSE rejected
  /\ \/ UNCHANGED <<phase, reason>>
     \/ ~exploring /\ Close("sem_plano")
     \/ Close("limite")      \* the quota of the provider ran out
  /\ UNCHANGED <<modeVars, idle, stalled, plan, deps, dagVars, trackerVars, done,
                 started, askedVars, cp, failures>>

InvalidPlan ==
  /\ MayPlan
  /\ Ask
  /\ \E p \in Proposals : ~ValidDag(p.tasks, Pruned(p))
  /\ rejected' = 0
  /\ UNCHANGED <<modeVars, phase, reason, idle, stalled, plan, deps, dagVars,
                 trackerVars, done, started, askedVars, cp, failures>>

\* Nothing new in the plan: the second time in a row there is no path left.
IdleCycle ==
  /\ MayPlan
  /\ exploring
  /\ \E p \in Proposals :
       p.tasks # {} /\ ValidDag(p.tasks, Pruned(p)) /\ p.tasks \subseteq done
  /\ Ask
  /\ rejected' = 0
  /\ \/ Close("aguarda") /\ idle' = idle
     \/ idle < 1 /\ idle' = idle + 1 /\ UNCHANGED <<phase, reason>>
     \/ Close("sem_caminhos") /\ idle' = idle + 1
  /\ UNCHANGED <<modeVars, stalled, plan, deps, dagVars, trackerVars, done,
                 started, askedVars, cp, failures>>

\* Only what the checkpoint knew already stays in it.
PlannedStatus_Known(t) == cp[t]

\* CheckpointRecorder.set_plan
PlannedStatus(t) ==
  IF cp[t] \in {"concluida", "abandonada"} THEN cp[t]
  ELSE IF t \notin plan' THEN "ausente"
  ELSE IF cp[t] = "em_andamento" THEN cp[t] ELSE "pendente"

\* The plan is valid and has something new: a coroutine for each subtask.
StartCycle ==
  /\ MayPlan
  /\ Ask
  /\ \E p \in Proposals :
       /\ p.tasks # {}
       /\ ValidDag(p.tasks, Pruned(p))
       /\ exploring => ~(p.tasks \subseteq done)
       /\ plan' = p.tasks
       /\ deps' = Pruned(p)
  /\ phase' = "running"
  /\ rejected' = 0
  /\ idle' = 0
  /\ cp' = [t \in Task |-> PlannedStatus(t)]
  /\ pc' = [t \in Task |-> IF t \in plan' THEN "waiting" ELSE "out"]
  /\ status' = [t \in Task |-> "pending"]
  /\ UNCHANGED <<modeVars, reason, stalled, outcome, trackerVars, done, started,
                 askedVars, failures>>

\* The governance of the plan failed, or every hypothesis waits for an approval.
NotPrepared ==
  /\ MayPlan
  /\ exploring
  /\ \E why \in {"erro", "aguarda"} : Close(why)
  /\ UNCHANGED <<modeVars, planned, rejected, idle, stalled, plan, deps, dagVars,
                 trackerVars, done, started, askedVars, cp, failures>>

\* A limit, or a request of the researcher, closes the session between two cycles.
StopPlanning ==
  /\ phase = "planning"
  /\ PlansLeft
  /\ spent
  /\ Close("limite")
  /\ UNCHANGED <<modeVars, planned, rejected, idle, stalled, plan, deps, dagVars,
                 trackerVars, done, started, askedVars, cp, failures>>

\* The plans are used up.  With exploration the Curator is called, or the
\* session closes or waits for the researcher.
PlansUsedUp ==
  /\ phase = "planning"
  /\ ~PlansLeft
  /\ \/ ~exploring /\ Close("sem_plano") /\ UNCHANGED rejected
     \/ exploring /\ Close("planos_rejeitados") /\ UNCHANGED rejected
     \/ exploring /\ rejected' = 0 /\ UNCHANGED <<phase, reason>>
  /\ UNCHANGED <<modeVars, planned, idle, stalled, plan, deps, dagVars, trackerVars,
                 done, started, askedVars, cp, failures>>

-----------------------------------------------------------------------------
(***************************************************************************)
(* One subtask of the cycle: _execute_task_in_dag                          *)
(***************************************************************************)
Running == phase = "running"

Goto(t, place) == pc' = [pc EXCEPT ![t] = place]

\* Its future has a result: whoever waits for it goes on.
Settle(t, s) ==
  /\ Goto(t, "settled")
  /\ status' = [status EXCEPT ![t] = s]

\* Whatever became of its dependencies.
Ready_AnyEnd(t) == \A d \in deps[t] : pc[d] = "settled"

\* Every dependency has settled, and was concluded.
Ready(t) == \A d \in deps[t] : pc[d] = "settled" /\ status[d] \in DoneStatuses

\* It does not wait for the others that may still run.
CancelDependent(t) ==
  /\ Running
  /\ pc[t] = "waiting"
  /\ \E d \in deps[t] : pc[d] = "settled" /\ status[d] \notin DoneStatuses
  /\ Settle(t, "cancelled")
  /\ UNCHANGED <<modeVars, loopVars, outcome, trackerVars, done, started, askedVars,
                 cp, failures>>

\* What an earlier session concluded is planned like anything else.
AlreadyDone_SessionOnly(t) == t \in done

AlreadyDone(t) == t \in resumed \/ t \in done

SkipDone(t) ==
  /\ Running
  /\ pc[t] = "waiting"
  /\ Ready(t)
  /\ AlreadyDone(t)
  /\ Settle(t, "success")
  /\ UNCHANGED <<modeVars, loopVars, outcome, trackerVars, done, started, askedVars,
                 cp, failures>>

SkipAbandoned(t) ==
  /\ Running
  /\ pc[t] = "waiting"
  /\ Ready(t)
  /\ ~AlreadyDone(t)
  /\ t \in abandoned
  /\ Settle(t, "abandonada")
  /\ UNCHANGED <<modeVars, loopVars, outcome, trackerVars, done, started, askedVars,
                 cp, failures>>

\* Abandoned in an earlier cycle, it starts afresh.
Due_Anew(t) == pc[t] = "waiting" /\ Ready(t) /\ ~AlreadyDone(t)

\* The checks that only a subtask with something to do reaches.
Due(t) ==
  /\ pc[t] = "waiting"
  /\ Ready(t)
  /\ ~AlreadyDone(t)
  /\ t \notin abandoned

\* The graph knows before the checkpoint does; the dependents wait for both.
DropCancelled(t) ==
  /\ Running
  /\ Due(t)
  /\ t \in cancelled
  /\ Goto(t, "dropping")
  /\ status' = [status EXCEPT ![t] = "abandonada"]
  /\ UNCHANGED <<modeVars, loopVars, outcome, trackerVars, done, started, askedVars,
                 cp, failures>>

InCheckpoint(t, s) == cp' = [cp EXCEPT ![t] = IF @ = "ausente" THEN @ ELSE s]

RecordDropped(t) ==
  /\ Running
  /\ pc[t] = "dropping"
  /\ InCheckpoint(t, "abandonada")
  /\ Goto(t, "settled")
  /\ UNCHANGED <<modeVars, loopVars, status, outcome, trackerVars, done, started,
                 askedVars, failures>>

\* The future of a subtask held back gets no result.
HoldBack_NoResult(t) ==
  /\ Running
  /\ Due(t)
  /\ t \notin cancelled
  /\ spent
  /\ status' = [status EXCEPT ![t] = "cancelled"]
  /\ UNCHANGED <<modeVars, loopVars, pc, outcome, trackerVars, done, started,
                 askedVars, cp, failures>>

HoldBack(t) ==
  /\ Running
  /\ Due(t)
  /\ t \notin cancelled
  /\ spent
  /\ Settle(t, "cancelled")
  /\ UNCHANGED <<modeVars, loopVars, outcome, trackerVars, done, started, askedVars,
                 cp, failures>>

Prepare(t) ==
  /\ Running
  /\ Due(t)
  /\ t \notin cancelled
  /\ ~spent
  /\ Goto(t, "preparing")
  /\ UNCHANGED <<modeVars, loopVars, status, outcome, trackerVars, done, started,
                 askedVars, cp, failures>>

\* UsageTracker.record_task_attempt
BeginAttempt(t) ==
  /\ Running
  /\ pc[t] = "preparing"
  /\ attempts' = [attempts EXCEPT ![t] = @ + 1]
  /\ Goto(t, "opening")
  /\ UNCHANGED <<modeVars, loopVars, status, outcome, refunded, abandoned, done,
                 started, askedVars, cp, failures>>

\* Only a first attempt marks the subtask as started.
OpenAttempt(t) ==
  /\ Running
  /\ pc[t] = "opening"
  /\ InCheckpoint(t, "em_andamento")
  /\ started' = IF attempts[t] = 1 THEN started \union {t} ELSE started
  /\ Goto(t, "contracting")
  /\ UNCHANGED <<modeVars, loopVars, status, outcome, trackerVars, done, askedVars,
                 failures>>

\* A field of the contract is too long: the subtask leaves the cycle, and the
\* checkpoint does not hear of it.
DropLongContract(t) ==
  /\ Running
  /\ pc[t] = "contracting"
  /\ attempts[t] < AttemptCap
  /\ Settle(t, "cancelled")
  /\ UNCHANGED <<modeVars, loopVars, outcome, trackerVars, done, started, askedVars,
                 cp, failures>>

Execute(t) ==
  /\ Running
  /\ pc[t] = "contracting"
  /\ Goto(t, "executing")
  /\ UNCHANGED <<modeVars, loopVars, status, outcome, trackerVars, done, started,
                 askedVars, cp, failures>>

EndAttempts(t, how) ==
  /\ Goto(t, "recording")
  /\ outcome' = [outcome EXCEPT ![t] = how]

Fail(t) == failures' = [failures EXCEPT ![t] = @ + 1]

\* The agent failed: another attempt, unless they are used up or the provider
\* has no quota left.
AgentFails(t) ==
  /\ Running
  /\ pc[t] = "executing"
  /\ Fail(t)
  /\ \/ ~Exhausted(t) /\ Goto(t, "preparing") /\ UNCHANGED outcome
     \/ EndAttempts(t, "failed")
  /\ UNCHANGED <<modeVars, loopVars, status, trackerVars, done, started, askedVars,
                 cp>>

\* The agent succeeded, and there is nothing to review, or the review comes.
AgentSucceeds(t) ==
  /\ Running
  /\ pc[t] = "executing"
  /\ \/ EndAttempts(t, "success")
     \/ Goto(t, "reviewing") /\ UNCHANGED outcome
  /\ UNCHANGED <<modeVars, loopVars, status, trackerVars, done, started, askedVars,
                 cp, failures>>

Approve(t) ==
  /\ Running
  /\ pc[t] = "reviewing"
  /\ \E how \in DoneStatuses : EndAttempts(t, how)
  /\ UNCHANGED <<modeVars, loopVars, status, trackerVars, done, started, askedVars,
                 cp, failures>>

Disapprove(t) ==
  /\ Running
  /\ pc[t] = "reviewing"
  /\ Fail(t)
  /\ EndAttempts(t, "failed")
  /\ UNCHANGED <<modeVars, loopVars, status, trackerVars, done, started, askedVars,
                 cp>>

\* The attempt is given back every time.
Ambiguous_Always(t) ==
  /\ Running
  /\ pc[t] = "reviewing"
  /\ attempts' = [attempts EXCEPT ![t] = @ - 1]
  /\ refunded' = refunded \union {t}
  /\ Fail(t)
  /\ EndAttempts(t, "failed")
  /\ UNCHANGED <<modeVars, loopVars, status, abandoned, done, started, askedVars, cp>>

\* criterio_ambiguo: the failure is not the agent's, and the attempt is given
\* back, once in the session (UsageTracker.refund_task_attempt).
Ambiguous(t) ==
  /\ Running
  /\ pc[t] = "reviewing"
  /\ IF t \in refunded \/ attempts[t] <= 0
     THEN UNCHANGED <<attempts, refunded>>
     ELSE /\ attempts' = [attempts EXCEPT ![t] = @ - 1]
          /\ refunded' = refunded \union {t}
  /\ Fail(t)
  /\ EndAttempts(t, "failed")
  /\ UNCHANGED <<modeVars, loopVars, status, abandoned, done, started, askedVars, cp>>

RecordEnd(t) ==
  /\ Running
  /\ pc[t] = "recording"
  /\ InCheckpoint(t, IF outcome[t] # "failed" THEN "concluida"
                     ELSE IF Exhausted(t) THEN "abandonada" ELSE "falhou")
  /\ Goto(t, "concluding")
  /\ UNCHANGED <<modeVars, loopVars, status, outcome, trackerVars, done, started,
                 askedVars, failures>>

Conclude(t) ==
  /\ Running
  /\ pc[t] = "concluding"
  /\ \/ outcome[t] # "failed" /\ Settle(t, outcome[t]) /\ UNCHANGED abandoned
     \/ /\ outcome[t] = "failed" /\ Exhausted(t)
        /\ Settle(t, "abandonada")
        /\ abandoned' = abandoned \union {t}
     \/ /\ outcome[t] = "failed" /\ ~Exhausted(t)
        /\ Settle(t, "failed")
        /\ UNCHANGED abandoned
  /\ UNCHANGED <<modeVars, loopVars, outcome, attempts, refunded, done, started,
                 askedVars, cp, failures>>

-----------------------------------------------------------------------------
(***************************************************************************)
(* The end of a cycle: every coroutine has settled                         *)
(***************************************************************************)
CycleOver == Running /\ \A t \in plan : pc[t] = "settled"

Concluded == {t \in plan : status[t] \in DoneStatuses}
Failed    == {t \in plan : status[t] \in {"failed", "cancelled"}}

\* With exploration, what the cycle concluded is never run again.
Accumulate == done' = IF exploring THEN done \union Concluded ELSE done

PlanAgain == phase' = "planning" /\ UNCHANGED reason

\* The objective is met, or the exploration is saturated, or a suggestion failed.
StopExploring ==
  /\ CycleOver
  /\ exploring
  /\ Accumulate
  /\ \E why \in {"criterio", "aguarda", "erro"} : Close(why)
  /\ UNCHANGED <<modeVars, planned, rejected, idle, stalled, plan, deps, dagVars,
                 trackerVars, started, askedVars, cp, failures>>

\* Nothing is left that could be tried again.
CloseByRetries ==
  /\ CycleOver
  /\ Failed = {}
  /\ plan \subseteq abandoned
  /\ Accumulate
  /\ Close("limite_retentativas")
  /\ UNCHANGED <<modeVars, planned, rejected, idle, stalled, plan, deps, dagVars,
                 trackerVars, started, askedVars, cp, failures>>

\* No subtask failed: the exploration goes on, or the researcher asked for
\* another plan (and there may be one), or the session is over.
EndCycle ==
  /\ CycleOver
  /\ Failed = {}
  /\ ~(plan \subseteq abandoned)
  /\ Accumulate
  /\ replan' = FALSE
  /\ IF exploring \/ (replan /\ planned < MaxPlanRetries)
     THEN PlanAgain ELSE Close("concluida")
  /\ UNCHANGED <<modeVars, planned, rejected, idle, stalled, plan, deps, dagVars,
                 trackerVars, started, cancelled, spent, cp, failures>>

\* Some failed: whether the cycle advanced (other errors, other successes, new
\* experiments) is left open.
Recover ==
  /\ CycleOver
  /\ Failed # {}
  /\ Accumulate
  /\ \E advanced \in BOOLEAN :
       stalled' = IF stalled < 0 \/ advanced THEN 0 ELSE stalled + 1
  /\ IF stalled' >= StallCycles THEN Close("sem_progresso") ELSE PlanAgain
  /\ UNCHANGED <<modeVars, planned, rejected, idle, plan, deps, dagVars, trackerVars,
                 started, askedVars, cp, failures>>

\* The grace after the limit of time is over: the coroutines are cancelled
\* wherever they wait, and the pending subtasks with them.
TimeOut ==
  /\ Running
  /\ ~CycleOver
  /\ spent
  /\ status' = [t \in Task |-> IF t \in plan /\ status[t] = "pending"
                               THEN "cancelled" ELSE status[t]]
  /\ Close("limite_tempo")
  /\ UNCHANGED <<modeVars, planned, rejected, idle, stalled, plan, deps, pc, outcome,
                 trackerVars, done, started, askedVars, cp, failures>>

-----------------------------------------------------------------------------
(***************************************************************************)
(* The researcher and the tracker                                          *)
(***************************************************************************)

\* request_cancel: refused once the subtask has started.
Cancel(t) ==
  /\ phase # "closed"
  /\ t \notin started
  /\ cancelled' = cancelled \union {t}
  /\ UNCHANGED <<modeVars, loopVars, dagVars, trackerVars, done, started, replan,
                 spent, cp, failures>>

RequestReplan ==
  /\ phase # "closed"
  /\ replan' = TRUE
  /\ UNCHANGED <<modeVars, loopVars, dagVars, trackerVars, done, started, cancelled,
                 spent, cp, failures>>

\* Some limit is reached, or the researcher stops or pauses the session, or his
\* terminal is gone: none of these goes away.
Spend ==
  /\ phase # "closed"
  /\ spent' = TRUE
  /\ UNCHANGED <<modeVars, loopVars, dagVars, trackerVars, done, started, cancelled,
                 replan, cp, failures>>

Planning == NoPlan \/ InvalidPlan \/ IdleCycle \/ StartCycle \/ NotPrepared
              \/ StopPlanning \/ PlansUsedUp

Coroutine(t) ==
  \/ CancelDependent(t) \/ SkipDone(t) \/ SkipAbandoned(t) \/ DropCancelled(t)
  \/ RecordDropped(t) \/ HoldBack(t) \/ Prepare(t) \/ BeginAttempt(t)
  \/ OpenAttempt(t) \/ DropLongContract(t) \/ Execute(t) \/ AgentFails(t)
  \/ AgentSucceeds(t) \/ Approve(t) \/ Disapprove(t) \/ Ambiguous(t)
  \/ RecordEnd(t) \/ Conclude(t)

Conclusion == StopExploring \/ CloseByRetries \/ EndCycle \/ Recover

Next ==
  \/ Planning
  \/ \E t \in Task : Coroutine(t)
  \/ Conclusion
  \/ TimeOut
  \/ \E t \in Cancellable : Cancel(t)
  \/ RequestReplan
  \/ Spend

Spec == Init /\ [][Next]_vars

\* The event loop resumes every coroutine that can go on, an agent and the
\* Validator answer, and so does the planner.  Nothing says that a limit is
\* ever reached or that the researcher does anything.
FairSpec ==
  /\ Spec
  /\ WF_vars(Planning)
  /\ \A t \in Task : WF_vars(Coroutine(t))
  /\ WF_vars(Conclusion)

-----------------------------------------------------------------------------
(***************************************************************************)
(* Properties                                                              *)
(***************************************************************************)

\* Every variable has its type; only the coroutines of a cycle have an end in
\* the graph, and the checkpoint knows every subtask of the cycle.
TypeOK ==
  /\ exploring \in BOOLEAN /\ resumed \subseteq Resumed
  /\ phase \in {"planning", "running", "closed"}
  /\ reason \in Reasons
  /\ planned \in 0..MaxPlanRetries /\ rejected \in 0..MaxPlanRetries
  /\ idle \in 0..2 /\ stalled \in -1..StallCycles
  /\ plan \subseteq Task /\ deps \in [Task -> SUBSET Task]
  /\ pc \in [Task -> PC] /\ status \in [Task -> Statuses]
  /\ outcome \in [Task -> DoneStatuses \union {"failed"}]
  /\ attempts \in [Task -> Nat] /\ failures \in [Task -> Nat]
  /\ refunded \subseteq Task /\ abandoned \subseteq Task
  /\ done \subseteq Task /\ started \subseteq Task /\ cancelled \subseteq Task
  /\ replan \in BOOLEAN /\ spent \in BOOLEAN
  /\ cp \in [Task -> Checkpointed]
  /\ \A t \in Task :
       /\ pc[t] # "out" <=> t \in plan
       /\ pc[t] # "out" => cp[t] # "ausente"
       /\ Running /\ pc[t] \in Dispatched \union {"waiting"} => status[t] = "pending"

\* A plan that runs has no two subtasks that wait for each other, and whatever a
\* subtask waits for is in it (TaskScheduler.validate_dag, after the pruning of
\* what was resumed): each part of it has a subtask that waits for nothing there.
PlanIsWellFounded ==
  phase # "planning" =>
    /\ \A t \in plan : deps[t] \subseteq plan
    /\ \A part \in (SUBSET plan) \ {{}} : \E t \in part : deps[t] \intersect part = {}

\* No agent works on a subtask before what it depends on is concluded, and the
\* checkpoint says so: its inputs are there for a session that resumes.
InputsAreConcluded ==
  \A t \in Task : pc[t] \in Dispatched => \A d \in deps[t] :
    /\ status[d] \in DoneStatuses
    /\ cp[d] = "concluida"

\* What the exploration counts as concluded, and what an earlier session left
\* concluded, keeps the word of the checkpoint through every later plan, and no
\* agent works on it again.
ConcludedStays ==
  \A t \in done \union resumed : cp[t] = "concluida" /\ pc[t] \notin Dispatched

\* However many cycles plan it again, a subtask fails at most as often as its
\* attempts allow, and once more if an ambiguous criterion gave one back.
FailuresAreBounded ==
  \A t \in Task :
    failures[t] <= MaxTaskRetries + (IF t \in refunded THEN 1 ELSE 0)

\* An abandoned subtask had used all its attempts, and no later plan runs it.
AbandonedStaysOut ==
  \A t \in abandoned : Exhausted(t) /\ pc[t] \notin Dispatched

\* The futures of a cycle all get a result: no subtask waits for ever, neither
\* for one that was cancelled, dropped or abandoned, nor for itself.
CycleEnds == (phase = "running") ~> (phase # "running")

\* Without exploration the session ends, whatever fails: the plans, the
\* attempts and the cycles without progress are all counted.
LegacySessionEnds == ~exploring ~> (phase = "closed")

\* "cancelar" is refused once the subtask has started: one that was accepted
\* never reaches an agent (README.md:258, usage.py:115).
AcceptedCancelHeeded ==
  [][\A t \in cancelled : ~(pc[t] = "contracting" /\ pc'[t] = "executing")]_vars
=============================================================================
