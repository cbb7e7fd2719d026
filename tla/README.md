# GeminiClaw: formal models of the research sessions

GeminiClaw carries scientific research on with language-model agents. A
research is long: it is executed by a *chain* of sessions, each one an
operating-system process of its own, which die with the power, the machine or
their terminal, and are continued by later sessions from a row of PostgreSQL and
a checkpoint file. This directory holds TLA+ models of that machinery, the TLC
runs that check them on small instances, and TLAPS proofs of what matters most.

Paths below are relative to `src/` (so `src/session/manager.py` is
`src/src/session/manager.py` from the repository's root).

    tlc  -workers 2 -config chain_timely.cfg MCResearchChain.tla
    tlapm ResearchExclusion.tla

## 1. Inventory

### The parts, their state, operations and interactions

| Part | State | Operations | Talks to |
|---|---|---|---|
| Session rows, `src/session/manager.py`, `states.py` | `agent_sessions`: status, payload (`motivo_parada`, `continued_by`, ...), `updated_at`, `loop_beat_at`, pid, alias | create, get, update (SELECT then UPDATE), heartbeat, claim/release_continuation, reassert_active, mark_interrupted, close_by_researcher | every other part |
| Session process, `src/cli/session_process.py`, `session/heartbeat.py` | one process per research; heartbeat thread; timer of a lost session | register, run a request, lose the session, exit | rows, orchestrator |
| Request, `src/orchestration/orchestrator.py` | a request's local decisions (final status, pending consolidation) | handle_request, _start_recorder, _finalize_checkpoint, curator_close, _recover_one | rows, checkpoint, loop, agents |
| Loop, `src/orchestration/autonomous_loop.py` | plan, subtasks, attempts, usage | plan, dispatch, retry, replan, _close_session, _suspend_session | recorder, rows, agents, gate, inbox |
| Checkpoint, `src/session/continuity.py` | `outputs/<session>/checkpoint.json` and `.bak`; the recorder's copy in memory | write_checkpoint, CheckpointRecorder.*, mark_checkpoint_interrupted, evaluate_resumability | loop, recovery, resumption |
| Resumption, `src/session/resume.py` | none of its own | prepare_resume, select_session_for_project | rows, checkpoint, graph |
| Sweep, `src/session/watch.py` | rows read at the start of a sweep | reason, sweep (mark, then recover) | rows, orchestrator, every terminal |
| Closing by the researcher, `src/session/closing.py` | a copy of the checkpoint | close_by_researcher | rows, checkpoint |
| Terminal presence and launch, `presence.py`, `launcher.py` | `terminal_presence` leases | beat, end, terminal_present, launch | session process, sweep |
| Inbox and commands, `inbox.py`, `commands.py` | `session_inbox`: delivered, consumed; the flags of `usage.py` | post, deliver, consume, take_commands, apply_command | terminal, loop, signals |
| Human gate, `src/gate/` | `gate_requests`: state, resolver, consumed, obsolete | request, find_in_chain, answer, consume_authorized, mark_consumed | terminal, loop, hypotheses, agents |
| Subtask planning, `task_scheduler.py`, `plan_normalizer.py`, `stagnation.py` | dependency graph, attempts | ready set, retry, abandon, normalize | loop |
| Usage, `usage.py` | counters, limits, reserve for the closing | record, check, flags of commands | loop |
| Agents and resources, `src/agent_runtime/` | slots | run, acquire, wait | loop |
| Hypotheses, `src/knowledge/hypothesis_cycle.py`, `hypotheses.py`, `orchestration/exploration*.py` | hypotheses, opportunities and decisions in the graph; selection, queue and answers seen in memory | prepare_cycle (reopen, withdraw, select, approve, abandon), after_cycle (statuses, effects, judgements) | gate, loop |
| Knowledge graph, `src/knowledge/` | graph (AGE), vectors (Qdrant), ingestion queue | ingest, replay, propose, decide | Curator, agents |
| Provenance, claims, reports, telemetry | append-only records, hash chain | record, verify, render | everything |
| Model access, egress, sandbox | caches, rate windows, volume counters, containers | call, filter, execute | agents |
| Terminal, `src/cli/` | a SweepThread per REPL | commands of the researcher | rows, inbox, gate, launcher |

### What is hard in it

Nothing locks a session. Its process, its heartbeat thread, the sweep thread of
every terminal, the researcher who closes it and the process that continues it
all write the same row, each in one SQL statement that is atomic on its own,
and the same file with no common lock. Correctness rests on conditional updates
(`WHERE status = ...`, `WHERE updated_at = ...`,
`WHERE payload->>'continued_by' ...`) and on the order of the writes; each
process may die between any two of them. So:

- two continuations of one source, or one against the release of another;
- a live process marked interrupted by mistake (a suspended laptop, a slow
  disk), then reasserting itself, or finding that it was continued;
- `update`, which writes back a payload read earlier;
- the row and the checkpoint of a stopping session telling different stories: the
  session is refused, another one continues its source in its place, and a later
  write (the researcher's closing) makes the two agree, so that what was refused
  can be continued after all;
- a terminal that dies between its two writes; a write of the file that fails.

Inside a process the hard part is the event loop: the coroutines of a cycle
interleave at every `await`, so what one of them checked may be false when it
acts; attempts, abandonments and plans are counted across cycles while what is
planned changes in each. A signal handler runs between any two steps of the main
thread, also between the test of a flag and its reset. Between the researcher and the sessions it is that an
answer or a command is marked as used in one write and takes effect in another:
a process may die in between, several terminals answer at once, and commands are
heard while a session is still starting.

`PROJECT.json` lists each hazard at its line with the properties that watch it.

### What makes each part correct

- **Chain of sessions**: one session of a research executes at a time; history
  does not fork; what a resumption found of its source still holds when it claims
  it; a research that can be continued is never stranded by failed attempts; a
  claim names a true continuation; nobody stops as lost for nothing. The first
  two hold only while nobody takes up a session that an earlier resumption passed
  over (finding 2).
- **Stop of a session**: row and checkpoint agree about whether, and how, the
  session may be continued; nothing stays in flight; the consolidation not done
  is owed to the continuation; a dead session does not stay half stopped.
- **Checkpoint file**: a crash at any point leaves a whole checkpoint, not older
  than the one before the last that was written.
- **Gate**: the first answer stands, whoever answers at once; the researcher is
  asked once about one object, also across sessions.
- **Hypotheses**: only what the researcher authorized is tested; a denial is
  final; the status of a hypothesis, its opportunity and the decision that chose
  it agree, whichever way the evidence turns.
- **Inbox**: nothing is marked used that nobody read; an acknowledged signal to
  stop is there for the loop to see, unless it comes inside `clear_interrupt`.
- **Presence**: an assisted session does not execute on without its terminal.
- **Planning**: a subtask runs after what it depends on is concluded and
  recorded; what is concluded or abandoned stays so; failures are bounded over
  all cycles; every cycle, and a session without exploration, ends.
- **Ingestion**: a replay loses nothing and writes nothing twice.

## 2. Modules

| Module | What it is |
|---|---|
| `SessionStates` | statuses, stop reasons and the decision `evaluate_resumability` (`Verdict`) |
| `ResearchChain` | many sessions of many researches: launch, resume, claim, heartbeat, the writes of a stop, sweep and recovery, closing by the researcher, loss, crash |
| `ResearchLock` | the abstract specification `ResearchChain` implements: a lock per research |
| `SessionClosing` | one session's stop in detail: row, checkpoint on disk and in memory, loop, end of the request, recovery, closing by the researcher |
| `CheckpointFile` | `checkpoint.json` and its `.bak`: every step of `write_checkpoint`, by several processes |
| `CheckpointRegister` | the abstract specification `CheckpointFile` implements until a file is damaged: one atomic, durable register |
| `SubtaskDag` | the complex path of the loop: plan, a coroutine per subtask, the end of a cycle, plan again; the tracker of attempts and limits |
| `PersistentGate` | the rows of `gate_requests` and the operations on them; extended by the next two |
| `HypothesisCycle` | hypotheses of a research over its sessions: approval, tests, the replica rule and its effects |
| `ResearcherMessages` | guidance, commands, questions of agents and signals: several terminals and the four readers of a session |
| `NaturalOrder` | least and greatest elements of sets of naturals, and sets defined by rounds: facts for the proofs |
| `MCResearchChain`, `MCSessionClosing`, `MCCheckpointFile`, `MCSubtaskDag`, `MCHypothesisCycle`, `MCResearcherMessages` | bounds, plans and symmetry for TLC |
| `ResearchChainProofs`, `ResearchExclusion`, `SessionClosingProofs`, `CheckpointFileProofs`, `SubtaskDagProofs`, `HypothesisCycleProofs`, `ResearcherMessagesProofs` | theorems |

`ResearchChain` and `SessionClosing` are two views of the same rows. Both split a
stop into its writes (the reason in the row, the reason in the checkpoint, the
final status, the reason named at last, the checkpoint again, the closed row). The
first looks at many sessions, and of a checkpoint at its reason only: that is what
decides whether a session can be continued, and by whom. The second looks at one
session, which nobody continues meanwhile, and at what its checkpoint holds: what
is in flight, what is owed to the Curator, the recorder's copy in memory, the
copies a sweep and a closing read before they write, and the kinds of fault.
Both share `SessionStates`, and both take the write of a checkpoint as one step;
`CheckpointFile` opens that step, and that it implements `CheckpointRegister`
(`AtomicUntilDamaged`) is why it may be taken so: a write takes effect at its
rename or never, whoever overlaps, and what returned survives a power cut.

`SubtaskDag` is the loop inside one session: it begins with what an earlier
session left concluded (`resumed`) and ends where `SessionClosing` begins, with
the reason it hands to `_close_session`. `HypothesisCycle` and
`ResearcherMessages` extend the same gate with two of its users and follow it
over the sessions of one research. Both let a session begin only after the last
one is over: that this is so is what `ResearchExclusion` proves of the chain under
its assumptions, and `chain_fork` and `chain_reassert` show that it may fail when
one of them does not hold.

### How state and actions correspond to the code

**SessionStates.** A `motivo_parada` is the class the decision tells apart: all
limits, the change of model version and Ctrl+C are `"limite"`; `saturacao` and
`planos_rejeitados` ask first as `"solucao_encontrada"` does;
`hipoteses_nao_testadas` and unknown reasons are refused as `"erro"` is.

**ResearchChain.** `status`, `motivo`, `claim`, `alias` are columns and payload
keys of the row; `ckpt` is the reason in the session's checkpoint, `"nil"` while it
says `em_execucao`, `"absent"` if no file can be read; `source`, `expect` are the
`ResumeState` a process was started with (`expect` is the stale claim it may
replace); `snap` is a row read by a `get` whose `update` is still to come;
`reason`, `ends` are locals of the stopping process, the reason it is recording
and the `final_status` it decided (or that the row was paused); `seen` says that
some sweep holds the row's *current* `updated_at` and judged it stopped, so every
statement that sets `updated_at` clears it; `owed` is what a terminal that already
wrote the row has still to write in the checkpoint; `pc` is the place of the
process. `Resumable` is `evaluate_resumability` of the row *and* the reason in the
checkpoint: diverging reasons are refused. One action is one statement or one file
write of one actor:

| Actions | Code |
|---|---|
| `StartNew`, `Prepare`, `CreateRow` | `SessionManager.create`, `prepare_resume`, `register_session_process` |
| `ClaimSource` (`WinClaim`, `LoseClaim`), `Release` | `claim_continuation`, `release_continuation` and the branches of `handle_request` |
| `OpenCheckpoint`, `NoRecorder`, `RefuseInputs`, `Flush` | `_start_recorder`, its failure, an invalid input manifest, `CheckpointRecorder._flush` |
| `Beat`, `Reassert`, `LoseSession`, `ExitLost` | `SessionHeartbeat`, `SessionManager.heartbeat`, `reassert_active`, `_on_session_lost` |
| `Get`, `Put`, `UpdatePayload` | a `get` and the `update` built from it |
| `CloseSession`, `RecordStop`, `SuspendSession` | `_close_session`, first the row and then the checkpoint; `_suspend_session` |
| `Return`, `FinishLoop` | the loop returns, with its stop on record or with no reason |
| `Raise`, `RecordInterrupt`, `RecordError` | the handlers of Ctrl+C and of a fatal error: first the checkpoint, then the row |
| `WriteFinal`, `NameReason`, `RecordFinal`, `Leave` | the final status, `_finalize_checkpoint` (row, then checkpoint), the closed row and the end of the process |
| `Crash` | the process dies, between any two of these |
| `Look`, `Mark`, `Recover` | `SessionWatch.sweep`, `mark_interrupted`, `mark_checkpoint_interrupted` |
| `CloseByResearcher`, or `DecideClosing` and `WriteClosing` | `close_by_researcher` on the row and on the checkpoint |

Four switches say what the environment may do:

- `MisjudgesLive`. Clocks are abstracted: a dead process may always be judged
  stopped, a live one only if this is so. Without it "a running process refreshes
  `updated_at` and `loop_beat_at` within the thresholds" (a beat every 30 s against
  300 s, a tick of the loop against 900 s).
- `RacyUpdates`. May another writer come inside a pair of steps that the code takes
  for one: a SELECT and its UPDATE (milliseconds), the two writes of the
  researcher's closing, or, for that closing only, the two writes by which a
  session records its reason? May a terminal die between its two? The process that
  stops may die between *its* writes whatever the switch says.
- `WritesFail`. May a write of the checkpoint fail inside the recorder, which counts
  it and goes on?
- `TakesUpPassed`. May a resumption take up a session that an earlier one passed
  over, having judged that it left nothing to continue? The code allows it, and
  nothing keeps a researcher from doing it (`chain_fork`); without it the rest of
  the protocol can be looked at.

Some steps are taken together. `Prepare` reads the row of the source, the row that
claimed it and both checkpoints at one moment, and `Recover` reads and writes the
checkpoint at once; what comes of an overlap with a recovery is in
`SessionClosing`. A `prepare_resume` that reads one session before, and another
after, a write comes to a decision on a session that changed meanwhile; of a
source that can be continued `ContinuableForGood` says that it cannot change for
the worse, of a claimant passed over on an outdated reading the result is the one
of `TakesUpPassed`. The recorder's writes during the Summarizer repeat the reason
just recorded and are left out.

**SessionClosing.** `disk` is `checkpoint.json`, `mem` the recorder's copy (each
with `estado`, `motivo`, `curator` and the state of one subtask, which stands
for the plan); `sweeper` and `closer` are a terminal's sweep and a researcher's
closing with the copy of the file they read. The process walks `executing ->
closing -> consolidating -> returned -> curating -> finalizing -> recording ->
leaving -> over`, or `executing -> failing -> over` when the loop raises. `faults`
is chosen in `Init` and never changes: the kinds of fault this behaviour may
meet, so that a property can say which faults it survives.

**CheckpointFile.** A checkpoint is the number of the write that made it; `Absent`
and `Torn` are a file that is not there and one that `_load_file` refuses.
`main` and `bak` are what a reader finds now, `mainCut` and `bakCut` what a power
cut may leave: every content renamed into place since the directory was last
forced to disk, the two files independently. `files` are the temporary files,
`gone` those removed since. `last`, `over`, `done` and `order` record the writes
for the properties only.

| Action | Code |
|---|---|
| `Begin`, `Unlink` | the glob of `write_checkpoint` and the removal of what it found |
| `WriteTmp` | `_write_private` |
| `ReadMain`, `WriteBakTmp`, `PlaceBackup` | `_rotate_backup` |
| `Place`, `Return` | `os.replace`, `_fsync_dir` |
| `Raise`, `Fail` | an `OSError` (or a temporary file another writer removed) and the handlers |
| `Kill`, `PowerCut` | a process dies; all die and the directory is what reached the disk, `checkpoint.json` damaged once at most |
| `Read` (no action) | `read_checkpoint` |

In `CheckpointRegister` the value is `Read`, what a power cut may leave of it
`Readable`, and a writer's `job` is taken once its file is in place (`Taken`); the
steps of the sweep, of the temporary files and of the backup map to no step.

**SubtaskDag.** `pc` is the place of each coroutine between two awaits; its values
are listed in the module. `status` is `dag_state`, which the other coroutines
read; `attempts`, `refunded`, `abandoned` belong to the tracker and `done`,
`started`, `cancelled` to the process: they outlive a cycle; `cp` is the
checkpoint, which outlives the session. All limits and requests to stop are one
flag, `spent`, that nothing resets. A plan is one of the constant `Proposals`,
valid or not: what a language model plans is a free choice.

| Actions | Code |
|---|---|
| `NoPlan`, `InvalidPlan`, `IdleCycle`, `StartCycle`, `NotPrepared`, `StopPlanning`, `PlansUsedUp` | the ways through one turn of `_run_complex_path` up to the dispatch: no plan, `validate_dag` refused, nothing new, dispatched, governance, limits, `MAX_PLAN_RETRIES` |
| `CancelDependent`, `SkipDone`, `SkipAbandoned`, `DropCancelled`, `RecordDropped`, `HoldBack`, `Prepare` | the checks at the head of `_execute_task_in_dag`, in their order |
| `BeginAttempt` .. `Ambiguous` | one attempt: counted, opened in the checkpoint, contract, agent, Validator, refund |
| `RecordEnd`, `Conclude` | what the end writes, and the abandonment |
| `StopExploring`, `CloseByRetries`, `EndCycle`, `Recover`, `TimeOut` | after the gather: closing, the next cycle, recovery with the circuit breaker, the grace after the limit of time |
| `Cancel`, `RequestReplan`, `Spend` | `request_cancel`, `request_replan`, everything `check` closes for |

**PersistentGate.** Rows are numbered as they are inserted; `of`, `about`,
`estado` are `session_id`, the decision with its reference, and the answer;
`consumed` the rows with `consumido_em`. `Found` is `find_in_chain`, `Answered`
is `answered_unconsumed`, `WasAuthorized` is `was_authorized`; `Insert`,
`Answer`, `Consume` are the INSERT of `request`, the conditional UPDATE of the
terminal, and the UPDATEs of `mark_consumed` and `consume_authorized`.

**HypothesisCycle.** `status`, `by`, `opp`, `judged` are in the graph and survive;
`cited`, `decisions`, `execute`, `awaiting`, `queue`, `seen` are in the memory of
the session and die with it (`Stop`, at any step). `counted` is the outcome of
the replica rule on the attempts recorded so far, which later attempts may
change. `lost`, `torn` and `failed` are history: answers consumed and not
applied, transitions cut before their effects, and whether the approver failed.
The hypotheses of the code belong to the *project* (`hypotheses.py:461`), here to
one research, in assisted mode, and none is `em_teste` before its first session. One
that another research or another mode left `em_teste` is taken up again by
`_select_assisted` (`hypothesis_cycle.py:351-353`) with no authorization in this chain:
`TestedWasApproved` says nothing of it.

| Actions | Code |
|---|---|
| `Plan`, `Resolve`, `Withdraw`, `Select` | `prepare_cycle`: references resolved and abandoned hypotheses reopened, restrictions, `HypothesisCycle.select` |
| `Ask`, `StillPending`, `TakeAnswer`, `ApproverFails`, `Approved` | `PersistentGateApprover`, one hypothesis of the batch at a time |
| `Reject`, `Approve`, `Prepared`, `Wake` | the decisions written to the graph, the orphans of the system abandoned, run or wait, `_wait_for_researcher` |
| `Test`, `EndCycle` | the attempts of a cycle, retries that ran out |
| `SyncStatus`, `ReviewOpportunity`, `ReviewDecision`, `EvaluateDecisions`, `EvaluationFails` | `after_cycle`: `sync_statuses` with `_review_effects`, `evaluate_decisions`, a write that fails |

**ResearcherMessages.** `to`, `tipo`, `used` are columns of `session_inbox`;
`posting` and `answering` are what a terminal looked at before it writes; `block`
and `late` are what the planner's prompt holds, `taken` the commands taken and
not applied, `ask` the coroutine of each question. `prompted`, `heard`,
`dropped`, `word`, `accepted`, `told`, `signalled`, `caught` are history for the
properties; `caught` says that the last signal came inside `clear_interrupt`.

| Actions | Code |
|---|---|
| `Begin`, `Signal`, `Stop` | the row is created, the signal handler, the end of the process |
| `KeepEarly`; `FindNone`, `ClearEarly`, `ClearInterrupt` | `clear_interrupt`: a request made before the start is kept; or none is found, and then each of the two flags is cleared. The handler may run between any two of these steps |
| `TakeCommands`, `ApplyCommands` | `take_commands`, `apply_command` |
| `Count`, `Post` | the count and the INSERT of `SessionInbox.post` |
| `Open`, `Reply`, `Refused` | a terminal shows a request, `answer`, `GateAlreadyResolved` |
| `ReadMessages`, `Prompt`, `ConsumeMessages`, `MarkLate`, `Planned` | `_researcher_messages_block`, the call of the planner, what is marked after it |
| `Raise`, `InsertRequest`, `GiveUp`, `TakeAnswer`, `Hear` | `_ask_through_gate`: the count and the INSERT of `request`, the deadline, the consumption, the agent |

## 3. Runs

| Run | Instance | Distinct states | Shows |
|---|---|---|---|
| `chain_timely` | 4 sessions, 1 research, timely environment, nobody takes up a session passed over | 985,836 | `OneLiveSession`, `NoFork`, `NeverStranded`, `LockSpec` (refinement) |
| `chain_fork` | the same, and a session passed over may be taken up | counterexample | finding 2: `OneLiveSession` |
| `chain_adverse` | 2 sessions, 1 research, misjudged and racy | 427,932 | `TypeOK`, `LostIsContinued`, `SourceGivenBack` (liveness) |
| `chain_reassert` | 2 sessions, misjudged | counterexample | finding 1: `ContinuedIsInactive` |
| `closing_faults` | all six kinds of fault, three at most at a time | 1,609,052 | the properties of the stop |
| `closing_sweep` | deaths in the loop and of terminals | counterexample | finding 3: `NothingInFlight` |
| `checkpoint_file` | 3 writers, 3 writes, one damage | 111,691 | `AtomicUntilDamaged` (refinement), what a reader finds after damage, which temporary files stay |
| `dag_cycles` | 2 subtasks, 2 attempts, 2 plans | 492,068 | the properties of `SubtaskDag`, with `CycleEnds` and `LegacySessionEnds` (liveness) |
| `dag_cancel` | the same | counterexample | finding 4: `AcceptedCancelHeeded` |
| `hypothesis_chain` | 2 sessions, 2 hypotheses, 2 requests, one loss | 2,519,877 | the properties of `HypothesisCycle`, with `AnswerHeard` (liveness) |
| `messages` | 2 sessions, 2 terminals, 1 question, 3 messages, a signal at any step | 2,220,656 | the properties of `ResearcherMessages` |
| `parar` | 1 session, 1 terminal | counterexample | finding 5: `AcceptedStopHeeded` |

**Bounds, and why they are enough.** `MaxResearches` limits how many researches a
behaviour starts, `First` who may start one: rows of different researches never
refer to one another, so one research already has every interaction (the theorems
are for any number). Four sessions are a source, a continuation that fails, a
second one that replaces its stale claim, and a third that competes with it or
continues the one that failed: the longest relation a claim has. `MaxPairs = 1`
bounds the pairs of steps half done at once (a row judged and not marked, read and
not written, a checkpoint still owed); `TypeCorrect`, `ClaimsName`,
`LostWasContinued` and `NoneStranded` are proved without it, in every environment.
In `chain_timely` and `chain_fork` the loop stops for a limit, by Ctrl+C or by an
error, anywhere in its writes; `chain_adverse` has the pauses and the stop with no
reason. `StopMotivos` is smaller than in the code because a verdict is all a
reason is used for; the theorems are for any. `WritesFail` is off in the runs, to
keep them short, and free in the theorems. Sessions are interchangeable, so
`chain_timely` and `chain_fork` use symmetry; `chain_adverse`, which checks
liveness, does not.

`MaxFaults = 3` keeps `closing_faults` short; the model is finite without it and all
64 sets of faults pass as well (six million states, some five minutes).

`checkpoint_file` begins three writes: `DamageCostsOne` relates three writes that
returned one after the other, the other properties two and a write under way,
and three writers may all overlap. Two writers and four writes pass too
(2,231,975 states, three minutes). With those four writes TLC also shows that
`DamageCostsOne` needs `Alone`: a slow writer that read the main file long ago
may put an older backup over a newer one, so that a damaged main file then costs
more than one checkpoint. `AtomicUntilDamaged` and `AlwaysReadable` do not need it.

`dag_cycles` plans two subtasks in the four ways that matter: one after the
other, the second alone (its dependency resumed, or missing), side by side, and
in a circle. Two attempts tell a retry from an abandonment and leave room for a
refund; two plans and one cycle without progress tell a recovery from a closing.
`AttemptCap` bounds when a contract may be too long: without it a subtask could be
counted, dropped and planned again without end, and the counter of attempts with
it. `spent`, the replanning and the cancel come at any moment.

`hypothesis_chain` has a hypothesis of an agent, which may be concluded, and one
of the system, which may be abandoned and reopened; two sessions are a request
and the session that takes it over. `FewLosses` stops a behaviour after the
second answer or transition cut by a fault. The relation of a request to an
*older* session, which two sessions hardly show, was checked on its own: four
sessions and one hypothesis keep all the invariants (626,736 states), and the
theorems hold for any number of each. In `messages`, two terminals are enough for
every race between terminals; a limit of one makes the inbox and the gate full
at once; signals come at any step, those of `clear_interrupt` included;
`FirstIsStopped` lets only the first session be told to stop and ignores
what terminals write after the last one.

**Deadlock** is not checked: writes, rows and sessions are bounded, and when they
are used up, or the one session is closed, the system rightly stops.

**Fairness.** `ResearchChain`: a terminal sweeps the table again and again for as
long as it is open, so weak fairness of `Look` and `Mark`; nothing forces a
process to advance, a heartbeat to be accepted or a researcher to act.
`SessionClosing`: weak fairness of the sweep, of a closing that began, and of the
straight-line code at the end of a request (`EndStep`); none of the loop, which
may execute for ever, nor of the reassertion. A dying terminal or process is
never forced, but always possible where its fault is among `faults`.
`SubtaskDag`: weak fairness of the planning, of each coroutine and of the end of
a cycle, because the event loop resumes whatever can go on and agents, Validator
and planner answer (their calls have timeouts); nothing says that a limit is ever
reached or that the researcher acts. `HypothesisCycle`: weak fairness of `Wake`,
the poll every `GATE_POLL_SECONDS`; none of the researcher.
`CheckpointFile` and `ResearcherMessages` state no liveness and assume no fairness.

### What each kind of fault costs

TLC was also used to compute, for each unconditional property of the stop, the
minimal sets of faults that break it. The checked properties are guarded by
`OnlyMeets`, which names the faults they survive.

| Property | Broken by (minimal sets) |
|---|---|
| `RecordedReasonStands` | misjudge |
| `InterruptedIsResumable` | closing; recorder; misjudge |
| `ClosedAsks` | terminal; overlap |
| `NothingInFlight` | closing; recorder; overlap; process + terminal; process + misjudge |
| `ConsolidationOwed`, `StopsForGood` | closing; recorder; process + terminal; process + misjudge |

So a property does not watch the hazard whose fault its guard excludes:
`ClosedAsks` says nothing of a terminal that dies between its two writes, nor
`FlightsSettle` of a closing that overlaps a recovery. In the same way the
properties of `HypothesisCycle` except what a fault cut (`lost`, `torn`, `failed`).
`PROJECT.json` lists such a hazard with no property, or with the others that do
watch it, and a note that says why.

## 4. Findings

1. **A continued session can be made active again** (`chain_reassert`).
   `claim_continuation` looks at `continued_by` only. A session marked by
   mistake, accepted by `prepare_resume`, reasserts itself before the claim; the
   claim on the now active row is won, and both processes execute. The old one is
   never told: its heartbeats are accepted. The comment of `reassert_active`
   names this very state as the one to avoid.
2. **A session that was refused can be continued again, beside the one that took its
   place** (`chain_fork`). `s2` continues `s1` and stops with an error; the reason is
   in its checkpoint, and it dies before its row has it. The sweep writes
   `interrompida` over the row and leaves the checkpoint as it is. The reasons
   diverge, so `evaluate_resumability` refuses `s2` (`continuity.py:1165-1167`) and
   `_check_previous_claim` takes its claim on `s1` for one there is nothing to
   continue by (`resume.py:180-182`): `s3` replaces the claim and executes. Then
   the researcher closes `s2`. `close_by_researcher` writes one reason to the row and
   to the checkpoint (`closing.py:114-120`), so that `s2` can be continued after a
   question; `s4` does, and `s3` and `s4` execute the same research. No process was
   misjudged and no update raced. A stop by a limit whose process dies in its
   closing leads there too: the sweep changes the reason of the row only (that such
   a session is refused although nobody touched its checkpoint is what
   `InterruptedIsResumable` of `SessionClosing` denies). So do a recorder's write
   that fails at the start of a session and succeeds at its stop, and a reason that
   `_finalize_checkpoint` names late.
3. **A marked session may never be recovered** (`closing_sweep`). Sweeps read
   active rows only, and mark before they recover: a terminal that dies in
   between leaves the subtask in flight and the consolidation not owed, for good.

4. **A cancel that was accepted may not cancel** (`dag_cancel`). A coroutine looks
   at `is_cancelled` once, before it recalls earlier failures and writes the
   checkpoint; the subtask counts as started only after both. A cancel applied at
   one of those awaits is reported as accepted and the agent runs all the same.
5. **A `parar` sent while the session starts is lost** (`parar`). It is applied by
   `request_interrupt()` without `before_start`, which the signal handler does
   pass; `clear_interrupt`, at the start of the loop, erases it after the
   researcher was told that it was accepted, and the command is consumed.

The models also show two consequences no document speaks of: an input manifest
found invalid leaves the claim on the source, which the next resumption replaces
as stale (`NeverStranded`); a live session marked by mistake and then closed by
the researcher executes on, neither reasserted nor lost.

One more behaviour follows from `clear_interrupt` itself. It tests
`_INTERRUPT_BEFORE_START` and then clears both flags (`usage.py:149-153`); a signal
handler that runs in between finds no active session yet, sets both flags,
acknowledges, and both are erased, although the docstring says that such a request
"sobrevive a esta limpeza" (`usage.py:146-147`). The window is a few instructions of
the main thread. `SignalHeeded` excepts exactly the signals that come in it
(`caught`) and holds for every other.

## 5. Proofs

TLAPS checks, for every value of the constants:

- `ResearchChainProofs` (no assumption on the environment): `TypeCorrect`,
  `ClaimsName`, `LostWasContinued`, `NoneStranded`. The invariant `NameInv` adds
  what a claim needs to be written back safely: every row a process holds between
  a `get` and its `update` (`snap`) obeys what the table obeys, aliases of a
  continuation and its source agree, and a row exists from `created` on and is
  never removed. `NoneStranded` needs that no set of sessions continues itself in
  a circle (`NoCircle`: a source exists before who continues it, so a step adds a
  session that is nobody's source). Of the sessions of a research that left
  something, one is therefore continued by none of the others: by `ClaimsName` a
  claim on it is of a session that left nothing, so it is stale.
- `ResearchExclusion`, for any number of sessions and reasons, and whichever writes
  of the recorder fail. Assuming `~MisjudgesLive`, `~RacyUpdates` and
  `~TakesUpPassed`: `OneLive`, `HistoryDoesNotFork`, `ChainImplementsLock`. Assuming
  the first two only: `ContinuableForGood`, `StaleForGood`. The claim is per source,
  the property per research, so mutual exclusion is not inductive; the argument has
  two halves.

  *One row* (`RowInv`). A session that can be continued stays so (`ForwardStep`,
  which gives `ContinuableForGood`): until its process writes the stop the row is
  active, which nobody continues (`ActiveRow`); what the process records after that
  is the reason the row has (`NamedStop`); a sweep marks dead processes only
  (`JudgedDead`, `MarkedDead`), and a recovery still owed finds the row as it was
  marked (`OwedFine`). So what `prepare_resume` found of a source is still true when
  the compare-and-set, which looks at the claim only, takes it (`Chosen`). The
  converse is false: what is refused may be accepted later. `StaleForGood` therefore
  speaks of a claimant that died on a finished row or left no checkpoint, and of
  no other.

  *The claims* (`TimelyInv`). A session `Holds` its place when it began the research
  or has the claim on its source, and it keeps it until it was passed over or ended
  with nothing to continue (`Trunk`). A *tip* holds its place and is claimed by
  nobody; each research has one (`UniqueTip`). A claim takes the place of the tip,
  since its source is one, or was until the claimant it replaces, which is passed
  over from then on; a claim given back, by a session that left nothing
  (`ReleasingBad`), returns the place to the source. Who was passed over never
  executes again (`PassedDead`) and, by assumption, is never a source. A session
  that executes is a tip, which is `OneLive`; of two continuations of one source
  only one has the claim, which is `HistoryDoesNotFork`. The refinement maps every
  action to `Begin`, `End`, `Refuse` or a stutter of the lock.
- `SessionClosingProofs`, for every set of faults, each property under the faults
  it survives. `TypeCorrect` and `ReasonStands`: the strengthening (`RowSpeaks`)
  says, place by place, what the row, the file and the memory may state of `erro`
  and `solucao_encontrada` when nobody misjudges; the others rest on it.
  `FlightsSettled`: a subtask is in flight on disk only while the loop holds it
  in memory, or until the sweep that marked a dead session writes back the very
  file it read (`LeftBehind`). `InterruptedContinues`: the checkpoint states no
  reason before the row does, or the same, and a limit in the row is out of the
  reach of sweeps and researchers (`ActorsWait`, `LimitStands`).
  `ClosedIsAsked`: the researcher's closing is alone with the row and the file.
  `NothingForgotten`: a checkpoint that still says `em_execucao` becomes owed when
  somebody writes it back, and one that is not owed has nothing in flight, so no
  recovery writes it over one that is (`OwedOnRecovery`, `DebtToCome`).
  `HalfStoppedIsSwept` and `RestIsLasting` are the safety of `StopsForGood`: what
  is half stopped has a sweep to come, and what is at rest stays so.
- `CheckpointFileProofs`, for any number of writers and writes: `TypeCorrect`,
  `NewestKept`, `OrphansRemoved`, `LatestRead`, `ReadableAlways`, `OneIsLost`,
  `FilesAreARegister`, `FileImplementsRegister`. Those of
  the temporary files need only who listed what (`DoomedOlder`, `OrphansListed`, and
  `NoneComesBack` for what a power cut may bring back). For the reader,
  `MainSound` and `BackupSound` speak of all that a power cut may leave and not
  only of what is there: unless the main file was damaged, nothing of it is torn
  or superseded; a write that
  began after one that returned has a valid backup in place before its own
  rename; and after two such writes either the backup is valid or the damaged
  file was written again. `OneIsLost` adds what a writer keeps for the backup
  (`CopyFresh`): while writes do not overlap, nobody returns between its read and
  its rename. For the refinement the rename over `checkpoint.json` is the moment a
  write takes effect. That the rename of a backup is hidden is the delicate step:
  it is because what it puts there is a checkpoint that a power cut may leave in
  the main file anyway, unless a power cut leaves a valid one there for sure
  (`BackupHidden`).
- `SubtaskDagProofs`, for any subtasks, plans (each finite) and retries:
  `TypeCorrect`, `ConclusionsStay`, `InputsFirst`, `FailuresBounded`,
  `AbandonedForGood`, `PlansWellFounded`, `NoCycleBlocks`, `CyclesAdvance`,
  `SessionsAdvance`. `InputsFirst` needs that what settled as
  concluded was recorded so (`EndsRecorded`) and that a dependency cannot change
  its word while a dependent is out (`InputsSettled`). The bound on failures is a
  ledger (`Paid`, `LastOne`): every failure was counted as an attempt before, one
  refund aside, and no attempt begins once they are used up, in whichever cycle.
  `PlansWellFounded` is Kahn's algorithm: in a part of the plan, the subtask
  removed in the earliest round waits for nothing in that part. It carries
  `NoCycleBlocks`: of the subtasks not settled, the one that waits for none of the
  others can go on. `CyclesAdvance` gives every coroutine a `Rank`, what it has
  before it with all its retries; its own steps lower it, no step of another
  raises it, so a cycle takes at most `8 * MaxTaskRetries + 9` steps for each
  subtask. `SessionsAdvance` does the same for plans and cycles (`PlansAhead`).
  Together they are the argument of `CycleEnds` and `LegacySessionEnds`, short of
  the fairness that makes the coroutines step.
- `HypothesisCycleProofs`, for any sessions and hypotheses, in three layers.
  `StageInv`: what the memory of a session holds at each stage. `GateInv`, for
  `ApprovedFirst`, `OneRequest`, `YesIsLast`, `NoIsFinal`: what runs was granted
  (`Authorized`, `Heeded`), what was denied is final (`Final`), and, the argument
  that carries the rest, `Fresh`: an authorization given in this session or the one before
  is always about the newest request, and while the hypothesis is a proposal it
  is not consumed yet. `reopen`, which looks for an authorization in these two
  sessions only, therefore never finds an outdated yes. `EffectsInv`, for
  `OneStory`: between the writes of a transition exactly one hypothesis is out of
  step, and the code knows which. `AnswerIsNew` and `AnswerIsKept` are the safety
  of `AnswerHeard`: whatever the poll saw of what a session waits for was used
  (`HeardInv`: when it began to wait, the approver found no answer), so an answer
  is always one the poll has not seen, and stays so until the wait ends.
- `ResearcherMessagesProofs`, for any sessions, terminals, questions and messages:
  `TypeCorrect`, `NothingUnread`, `OneAnswer`, `SignalsStop`, `InboxBounded`.
  `SignalsStop` follows the flags through the steps of `clear_interrupt`: a signal
  acknowledged before its test is found there and kept, one after the last reset is
  not touched any more, one between the two is `caught`. The
  limit of the inbox needs a stronger statement than itself: the unread messages
  of a session and the terminals that counted and have not written yet are
  together fewer than the limit plus the number of terminals.

Assumptions on constants are in the modules that declare them and evaluated by
every passing run.

`ClaimsName` (a claim names a true continuation) and `LatestRead` (a reader never
gets a checkpoint that was over before a write that returned began, which
`AtomicUntilDamaged` implies) are stated by their theorems alone: what they say of
a small instance adds nothing to a proof for all of them.

Every safety property a passing run checks, and both refinements, are also
proved. Only model-checked is liveness, which is beyond the prover with the
ENABLED that fairness needs: `SourceGivenBack`, `StopsForGood`, `CycleEnds`,
`LegacySessionEnds`, `AnswerHeard`. Of the last four everything but the fairness
is proved, as said above. Of `SourceGivenBack` the rest is the sweep: the claim
of a continuation that died without a checkpoint is stale, by definition, as soon
as its row is marked, and a sweep marks it.

## 6. Plan

What is left, the most important first:

1. `TerminalPresence`: leases, launch, suspension of assisted sessions; composed
   with `ResearchChain`'s sweep.
2. `ResourceGuard`: concurrent agents against slots and memory.
3. `IngestionQueue`: enqueue, replay, acknowledgement; `ProvenanceLedger`: the
   hash chain and what its verification detects.
4. Proofs: how far `OneLiveSession` survives under `RacyUpdates` alone, and that
   `SessionClosing`, seen through its row and the reason in its checkpoint,
   implements the stop of one session of `ResearchChain`.
5. The simple path of the loop and the reserve of tokens for the closing, beside
   `SubtaskDag`.

## 7. Not modelled, and why

The models cover the part of the repository that decides: who may write what,
when, and in which order. That is a small share of its lines. The rest is prompts,
parsers, queries, rendering, HTTP, containers and tests of them, where a state
machine would only repeat the code.

Prompts, routing, retries and rate limits of model calls, extraction of claims,
the objective, stagnation and the Curator's suggestions are decided by external
models or by wall-clock time; only what they stop or restart reaches the models,
as a free choice. Telemetry, events, history and reports are append-only records
and rendering. The sandbox and the egress filters act on containers, the
operating system and text. Graph queries and the validation of what is read are
data, not protocol.

Within the modelled parts, left out are:

- rows: the retention that removes finished ones, the choice of a session by
  project, the chain of readable directories, the ages the sweep compares, the
  wording of every report; in `ResearchChain`, readings of `prepare_resume` torn by a
  write between them, a recovery that overlaps another writer of the checkpoint
  (`SessionClosing` has it), the recorder's writes during the Summarizer;
- `CheckpointFile`: symbolic links, permissions, the limit of size, a checkpoint
  of a newer version (refused without a look at the backup), a directory that
  cannot be forced to disk, a temporary file that cannot be removed;
- `SubtaskDag`: the simple path, subtasks without a name, an exception of a
  coroutine (it ends the loop; what the others do then depends on the calls they
  wait for), the order of a list of dependencies, `CHECKPOINT_MAX_SUBTASKS`, the
  normalization of plans;
- `HypothesisCycle`: hypotheses of the researcher (they need no approval), those
  another research or mode of the project left `em_teste`, the modes `semi` and `auto`, a batch too long for one request, statements edited
  with an approval, a chain of sessions that cannot be read; the hypotheses of a
  plan are reopened, and those of the system abandoned, in one step;
- `ResearcherMessages`: the mark `entregue_em`, which only terminals show, the
  texts, the other commands, the late answers to other kinds of decision;
- the gate: `mark_obsolete`, which nothing calls, requests outside a session, the
  options an answer may choose from.
