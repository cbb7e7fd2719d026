--------------------------- MODULE HypothesisCycle ---------------------------
(***************************************************************************)
(* Hypotheses of a research in mode assisted: the researcher approves each *)
(* one before it is tested, through the persistent gate; the replica rule  *)
(* concludes it, reopens it or turns it round.                             *)
(*                                                                         *)
(* The sessions of the research follow one another (when they may overlap  *)
(* is what ResearchChain is about); each may stop or crash between any two *)
(* writes and the next one continues the chain.  A session prepares a cycle*)
(* (prepare_cycle: what the plan cites, restrictions, approvals, orphans), *)
(* waits for the researcher if nothing can run, runs the tests, and closes *)
(* the cycle (after_cycle: statuses, their effects, decisions).            *)
(*                                                                         *)
(* Every hypothesis comes from an agent or from the system (those of the   *)
(* researcher need no approval), has one test in the plans that cite it,   *)
(* one opportunity that led to it and one decision that chose it.  What the*)
(* plan cites, what the restrictions match and what the tests find are     *)
(* free choices.  The batch of approvals holds all of them.                *)
(*                                                                         *)
(* In the code hypotheses belong to a project, not to one research.  Here  *)
(* the project has this research only, all its sessions in mode assisted,  *)
(* so that none begins em_teste: one that another research or another mode *)
(* left em_teste would run without any approval of this chain.             *)
(***************************************************************************)
EXTENDS PersistentGate

CONSTANTS
  FromSystem,    \* the hypotheses derived by the system (origem = sistema)
  Measured       \* those whose tests may reach a conclusion

Hypothesis == Subject

None == "nenhuma"

ASSUME HypothesisAssumption ==
  /\ FromSystem \subseteq Hypothesis
  /\ Measured \subseteq Hypothesis
  /\ None \notin Hypothesis

VARIABLES
  status,    \* Hipotese.status
  by,        \* abandonada_por
  tried,     \* n_tentativas > 0
  counted,   \* what the replica rule says of n_atingiu_alvo and n_abaixo_alvo
  opp,       \* status of the Oportunidade that led to it
  judged,    \* Decisao.resultado_posterior
  session,   \* the last session of the chain, 0 before the first
  pc,        \* where it is
  cited,     \* hypotheses with a test in the plan
  todo,      \* those the current stage still has to look at
  dropped,   \* those whose test does not run, other than to wait
  decisions, \* what the approver returns: hypothesis -> verdict
  execute,   \* Selection.execute
  awaiting,  \* Selection.pending_approval
  queue,     \* hypotheses of the system with a test in _queue
  moving,    \* the hypothesis whose effects sync_statuses is reviewing
  old,       \* its status before
  seen,      \* the answers of _gate_seen that are not consumed
  failed,    \* history: did the approver fail on this plan?
  lost,      \* history: answers consumed and not applied
  torn       \* history: transitions whose effects were cut

hypVars   == <<status, by, tried, counted, opp, judged>>
planVars  == <<cited, dropped, decisions, execute, awaiting, queue>>
moveVars  == <<moving, old>>
waitVars  == <<seen, failed>>
tornVars  == <<lost, torn>>
vars == <<asked, of, about, estado, consumed, status, by, tried, counted, opp,
          judged, session, pc, cited, todo, dropped, decisions, execute, awaiting,
          queue, moving, old, seen, failed, lost, torn>>

OpenStatuses == {"proposta", "em_teste"}
Concluded == {"validada", "refutada"}
Statuses  == OpenStatuses \union Concluded \union {"abandonada"}
Authors   == {"", "pesquisador", "sistema", "agente"}

\* The chain of a session, as chain_session_ids reads it.
Chain == {s \in Session : s <= session}

-----------------------------------------------------------------------------
\* An agent may record a hypothesis it has already discarded.
Init ==
  /\ GateInit
  /\ status \in [Hypothesis -> {"proposta", "abandonada"}]
  /\ \A h \in FromSystem : status[h] = "proposta"
  /\ by = [h \in Hypothesis |-> IF status[h] = "abandonada" THEN "agente" ELSE ""]
  /\ tried = {}
  /\ counted = [h \in Hypothesis |-> None]
  /\ opp = [h \in Hypothesis |-> "em_investigacao"]
  /\ judged = [h \in Hypothesis |-> None]
  /\ session = 0
  /\ pc = "out"
  /\ cited = {}
  /\ todo = {}
  /\ dropped = {}
  /\ decisions = [h \in Hypothesis |-> None]
  /\ execute = {}
  /\ awaiting = {}
  /\ queue = {}
  /\ moving = None
  /\ old = None
  /\ seen = {}
  /\ failed = FALSE
  /\ lost = {}
  /\ torn = {}

Goto(place) == pc' = place

\* What the memory of a process holds of a plan.
Forget ==
  /\ cited' = {}
  /\ dropped' = {}
  /\ execute' = {}
  /\ awaiting' = {}

\* The next session of the research.
Begin ==
  /\ pc = "out"
  /\ session + 1 \in Session
  /\ session' = session + 1
  /\ Goto("planning")
  /\ UNCHANGED <<gateVars, hypVars, todo, planVars, moveVars, waitVars, tornVars>>

\* The session stops, is killed, or the graph refuses the plan: what its process
\* knew is gone, with what the approver consumed and the effects under way.
Stop ==
  /\ pc # "out"
  /\ Goto("out")
  /\ lost' = lost \union {h \in Hypothesis : decisions[h] # None}
  /\ torn' = torn \union (IF moving = None THEN {} ELSE {moving})
  /\ Forget
  /\ decisions' = [h \in Hypothesis |-> None]
  /\ queue' = {}
  /\ todo' = {}
  /\ moving' = None
  /\ old' = None
  /\ seen' = {}
  /\ failed' = FALSE
  /\ UNCHANGED <<gateVars, hypVars, session>>

-----------------------------------------------------------------------------
(***************************************************************************)
(* Preparing a cycle: ExplorationSession.prepare_cycle                       *)
(***************************************************************************)
Plan ==
  /\ pc = "planning"
  /\ cited' \in SUBSET Hypothesis
  /\ failed' = FALSE
  /\ Goto("resolving")
  /\ UNCHANGED <<gateVars, hypVars, session, todo, dropped, decisions, execute, awaiting,
                 queue, moveVars, seen, tornVars>>

\* What the system abandoned was approved once: it goes back to its test.
Reopened_Approved(h) == IF by[h] = "sistema" THEN "em_teste" ELSE "proposta"

\* HypothesisBook.reopen looks for the approval in this session and the one it
\* continues.
Reopened(h) ==
  IF by[h] = "sistema" /\ WasAuthorized(h, {session - 1, session})
  THEN "em_teste" ELSE "proposta"

\* What the researcher abandoned stays abandoned (resolve_ref, _usable).
ToReopen == {h \in cited : status[h] = "abandonada" /\ by[h] # "pesquisador"}

\* The hypotheses of the plan that were abandoned are reopened.  (One by one in the
\* code: a crash between two of them is a crash after a plan that cites less.)
Resolve ==
  /\ pc = "resolving"
  /\ status' = [h \in Hypothesis |-> IF h \in ToReopen THEN Reopened(h) ELSE status[h]]
  /\ by' = [h \in Hypothesis |-> IF h \in ToReopen THEN "" ELSE by[h]]
  /\ dropped' = {h \in cited \ ToReopen : status[h] = "abandonada"}
  /\ Goto("selecting")
  /\ UNCHANGED <<gateVars, tried, counted, opp, judged, session, todo, cited, decisions,
                 execute, awaiting, queue, moveVars, waitVars, tornVars>>

\* It falls in a restriction of the researcher (withdraw_hypothesis).
Withdraw(h) ==
  /\ pc = "selecting"
  /\ h \in cited \ dropped
  /\ status' = [status EXCEPT ![h] = "abandonada"]
  /\ by' = [by EXCEPT ![h] = "pesquisador"]
  /\ dropped' = dropped \union {h}
  /\ UNCHANGED <<gateVars, tried, counted, opp, judged, session, pc, todo, cited,
                 decisions, execute, awaiting, queue, moveVars, waitVars, tornVars>>

\* HypothesisCycle.select: what needs no approval any more runs.
Select ==
  /\ pc = "selecting"
  /\ execute' = {h \in cited \ dropped : status[h] # "proposta"}
  /\ todo' = {h \in cited \ dropped : status[h] = "proposta"}
  /\ Goto("asking")
  /\ UNCHANGED <<gateVars, hypVars, session, cited, dropped, decisions, awaiting, queue,
                 moveVars, waitVars, tornVars>>

\* PersistentGateApprover: one hypothesis of the batch.
Asking(h) == pc = "asking" /\ h \in todo

Awaits(h) ==
  /\ todo' = todo \ {h}
  /\ awaiting' = awaiting \union {h}
  /\ UNCHANGED decisions

\* Only the requests of this session are looked at.
Ask_OwnSession(h) ==
  /\ Asking(h)
  /\ Unconsumed(h, {session}) = {}
  /\ IF Cardinality(Pending(session)) < PendingLimit
     THEN Insert(session, h) ELSE UNCHANGED gateVars
  /\ Awaits(h)
  /\ UNCHANGED <<hypVars, session, pc, cited, dropped, execute, queue, moveVars,
                 waitVars, tornVars>>

\* Nothing in the chain: a request, unless too many are pending.
Ask(h) ==
  /\ Asking(h)
  /\ Unconsumed(h, Chain) = {}
  /\ IF Cardinality(Pending(session)) < PendingLimit
     THEN Insert(session, h) ELSE UNCHANGED gateVars
  /\ Awaits(h)
  /\ UNCHANGED <<hypVars, session, pc, cited, dropped, execute, queue, moveVars,
                 waitVars, tornVars>>

StillPending(h) ==
  /\ Asking(h)
  /\ Unconsumed(h, Chain) # {}
  /\ estado[Found(h, Chain)] = "pendente"
  /\ Awaits(h)
  /\ UNCHANGED <<gateVars, hypVars, session, pc, cited, dropped, execute, queue,
                 moveVars, waitVars, tornVars>>

\* mark_consumed of a denial, consume_authorized of an authorization.
TakeAnswer(h) ==
  /\ Asking(h)
  /\ Unconsumed(h, Chain) # {}
  /\ estado[Found(h, Chain)] # "pendente"
  /\ Consume(Found(h, Chain))
  /\ decisions' = [decisions EXCEPT ![h] = estado[Found(h, Chain)]]
  /\ todo' = todo \ {h}
  /\ UNCHANGED <<hypVars, session, pc, cited, dropped, execute, awaiting, queue,
                 moveVars, waitVars, tornVars>>

\* An error at one hypothesis: the batch has no decision, not even those already
\* consumed.
ApproverFails ==
  /\ pc = "asking"
  /\ todo # {}
  /\ failed' = TRUE
  /\ lost' = lost \union {h \in Hypothesis : decisions[h] # None}
  /\ awaiting' = awaiting \union todo \union {h \in Hypothesis : decisions[h] # None}
  /\ decisions' = [h \in Hypothesis |-> None]
  /\ todo' = {}
  /\ Goto("applying")
  /\ UNCHANGED <<gateVars, hypVars, session, cited, dropped, execute, queue, moveVars,
                 seen, torn>>

Approved ==
  /\ pc = "asking"
  /\ todo = {}
  /\ Goto("applying")
  /\ UNCHANGED <<gateVars, hypVars, session, todo, planVars, moveVars, waitVars, tornVars>>

\* A decision of the batch, written to the graph (_approve, _reject).
Decided(h) == pc = "applying" /\ decisions[h] # None

\* The hypothesis stays as it was: only this cycle leaves its test out.
Reject_CycleOnly(h) ==
  /\ Decided(h)
  /\ decisions[h] = "negada"
  /\ dropped' = dropped \union {h}
  /\ decisions' = [decisions EXCEPT ![h] = None]
  /\ UNCHANGED <<gateVars, hypVars, session, pc, todo, cited, execute, awaiting, queue,
                 moveVars, waitVars, tornVars>>

\* Who abandoned it is not written.
Reject_NoAuthor(h) ==
  /\ Decided(h)
  /\ decisions[h] = "negada"
  /\ status' = [status EXCEPT ![h] = "abandonada"]
  /\ dropped' = dropped \union {h}
  /\ decisions' = [decisions EXCEPT ![h] = None]
  /\ UNCHANGED <<gateVars, by, tried, counted, opp, judged, session, pc, todo, cited,
                 execute, awaiting, queue, moveVars, waitVars, tornVars>>

Reject(h) ==
  /\ Decided(h)
  /\ decisions[h] = "negada"
  /\ status' = [status EXCEPT ![h] = "abandonada"]
  /\ by' = [by EXCEPT ![h] = "pesquisador"]
  /\ dropped' = dropped \union {h}
  /\ decisions' = [decisions EXCEPT ![h] = None]
  /\ UNCHANGED <<gateVars, tried, counted, opp, judged, session, pc, todo, cited, execute,
                 awaiting, queue, moveVars, waitVars, tornVars>>

Approve(h) ==
  /\ Decided(h)
  /\ decisions[h] = "autorizada"
  /\ status' = [status EXCEPT ![h] = "em_teste"]
  /\ execute' = execute \union {h}
  /\ decisions' = [decisions EXCEPT ![h] = None]
  /\ UNCHANGED <<gateVars, by, tried, counted, opp, judged, session, pc, todo, cited,
                 dropped, awaiting, queue, moveVars, waitVars, tornVars>>

\* _abandon_system: only hypotheses of the system, and only what has no attempt.
AbandonSystem(hs) ==
  LET gone == {h \in hs \intersect FromSystem : status[h] \in OpenStatuses /\ h \notin tried}
  IN /\ status' = [h \in Hypothesis |-> IF h \in gone THEN "abandonada" ELSE status[h]]
     /\ by' = [h \in Hypothesis |-> IF h \in gone THEN "sistema" ELSE by[h]]

\* The contract and the cascade leave tests out; what has no test left is orphan.
\* Then something runs (perhaps only what prepares a test), or everything waits for
\* the researcher, with him or until he comes back, or the cycle was idle.
Prepared ==
  /\ pc = "applying"
  /\ \A h \in Hypothesis : decisions[h] = None
  /\ \E out \in SUBSET (execute \union awaiting) :
       /\ execute' = execute \ out
       /\ AbandonSystem(dropped \union out \union (queue \ cited))
       /\ queue' = FromSystem \intersect (cited \ (dropped \union out))
       /\ \/ Goto("running") /\ cited' = {} /\ awaiting' = {}
          \/ /\ execute' = {} /\ awaiting \ out # {}
             /\ awaiting' = awaiting \ out
             /\ Goto("waiting")
             /\ UNCHANGED cited
          \/ /\ execute' = {} /\ awaiting \ out = {}
             /\ Goto("planning") /\ cited' = {} /\ awaiting' = {}
  /\ dropped' = {}
  /\ UNCHANGED <<gateVars, tried, counted, opp, judged, session, todo, decisions,
                 moveVars, waitVars, tornVars>>

\* Only the requests of this session are polled.
Wake_OwnSession ==
  /\ pc = "waiting"
  /\ Answered({session}) \ seen # {}
  /\ seen' = Answered({session})
  /\ awaiting' = {}
  /\ Goto("resolving")
  /\ UNCHANGED <<gateVars, hypVars, session, todo, cited, dropped, decisions, execute,
                 queue, moveVars, failed, tornVars>>

\* _wait_for_researcher: an answer not seen yet, and the plan is prepared again.
Wake ==
  /\ pc = "waiting"
  /\ Answered(Chain) \ seen # {}
  /\ seen' = Answered(Chain)
  /\ awaiting' = {}
  /\ Goto("resolving")
  /\ UNCHANGED <<gateVars, hypVars, session, todo, cited, dropped, decisions, execute, queue,
                 moveVars, failed, tornVars>>

-----------------------------------------------------------------------------
(***************************************************************************)
(* The tests, and the end of the cycle: ExplorationSession.after_cycle       *)
(***************************************************************************)

\* A test of a hypothesis is recorded and its attempts are counted again.
Test(h) ==
  /\ pc = "running"
  /\ h \in execute
  /\ tried' = tried \union {h}
  /\ \E found \in IF h \in Measured THEN Concluded \union {None} ELSE {None} :
       counted' = [counted EXCEPT ![h] = found]
  /\ UNCHANGED <<gateVars, status, by, opp, judged, session, pc, todo, planVars, moveVars,
                 waitVars, tornVars>>

\* The cycle is over; some tests ran out of attempts (abandon_after_retries).
EndCycle ==
  /\ pc = "running"
  /\ \E spent \in SUBSET execute : AbandonSystem(spent)
  /\ execute' = {}
  /\ todo' = Hypothesis
  /\ Goto("syncing")
  /\ UNCHANGED <<gateVars, tried, counted, opp, judged, session, cited, dropped,
                 decisions, awaiting, queue, moveVars, waitVars, tornVars>>

\* What the counts make of a status (_next_status); itself if nothing changes.
NextStatus(h) ==
  IF status[h] = "abandonada" \/ (status[h] = "proposta" /\ h \notin tried) THEN status[h]
  ELSE IF counted[h] # None THEN counted[h]
  ELSE IF status[h] \in Concluded THEN "em_teste"
  ELSE status[h]

SyncStatus(h) ==
  /\ pc = "syncing"
  /\ h \in todo
  /\ todo' = todo \ {h}
  /\ IF NextStatus(h) = status[h]
     THEN UNCHANGED <<status, pc, moveVars>>
     ELSE /\ status' = [status EXCEPT ![h] = NextStatus(h)]
          /\ moving' = h
          /\ old' = status[h]
          /\ Goto("opportunity")
  /\ UNCHANGED <<gateVars, by, tried, counted, opp, judged, session, planVars, waitVars,
                 tornVars>>

\* The opportunity of a reopened hypothesis stays concluded.
ReviewOpportunity_NoReopening ==
  /\ pc = "opportunity"
  /\ IF old \notin Concluded
     THEN opp' = [opp EXCEPT ![moving] = "concluida"] ELSE UNCHANGED opp
  /\ Goto("decision")
  /\ UNCHANGED <<gateVars, status, by, tried, counted, judged, session, todo, planVars,
                 moveVars, waitVars, tornVars>>

\* _review_effects: the opportunity is concluded, or reopened.
ReviewOpportunity ==
  /\ pc = "opportunity"
  /\ opp' = [opp EXCEPT ![moving] =
               IF old \notin Concluded THEN "concluida"
               ELSE IF status[moving] = "em_teste" THEN "em_investigacao" ELSE @]
  /\ Goto("decision")
  /\ UNCHANGED <<gateVars, status, by, tried, counted, judged, session, todo, planVars,
                 moveVars, waitVars, tornVars>>

\* What a decision is judged by.
Judgement(s) ==
  IF s = "validada" THEN "acertada" ELSE IF s = "refutada" THEN "nao_acertada" ELSE None

\* _revalidate_decisions: the judgement is turned round, or taken back.
ReviewDecision ==
  /\ pc = "decision"
  /\ judged' = IF old \in Concluded /\ judged[moving] # None
               THEN [judged EXCEPT ![moving] = Judgement(status[moving])] ELSE judged
  /\ moving' = None
  /\ old' = None
  /\ Goto("syncing")
  /\ UNCHANGED <<gateVars, status, by, tried, counted, opp, session, todo, planVars,
                 waitVars, tornVars>>

\* Some write failed: the evaluation is complementary and the research goes on.
EvaluationFails ==
  /\ pc \in {"syncing", "opportunity", "decision"}
  /\ torn' = torn \union (IF moving = None THEN {} ELSE {moving})
  /\ moving' = None
  /\ old' = None
  /\ todo' = {}
  /\ Goto("planning")
  /\ UNCHANGED <<gateVars, hypVars, session, planVars, waitVars, lost>>

\* evaluate_decisions: decisions not judged yet, by the counts.
EvaluateDecisions ==
  /\ pc = "syncing"
  /\ todo = {}
  /\ judged' = [h \in Hypothesis |->
                  IF judged[h] = None THEN Judgement(counted[h]) ELSE judged[h]]
  /\ Goto("planning")
  /\ UNCHANGED <<gateVars, status, by, tried, counted, opp, session, todo, planVars,
                 moveVars, waitVars, tornVars>>

-----------------------------------------------------------------------------
\* At any moment, in a session or between two of them.
Researcher(r) ==
  /\ Answer(r)
  /\ UNCHANGED <<hypVars, session, pc, todo, planVars, moveVars, waitVars, tornVars>>

Preparation(h) ==
  \/ Withdraw(h) \/ Ask(h) \/ StillPending(h) \/ TakeAnswer(h) \/ Reject(h) \/ Approve(h)

Next ==
  \/ Begin \/ Stop \/ Plan \/ Resolve \/ Select \/ ApproverFails \/ Approved \/ Prepared
  \/ Wake \/ EndCycle \/ ReviewOpportunity \/ ReviewDecision \/ EvaluationFails
  \/ EvaluateDecisions
  \/ \E h \in Hypothesis : Preparation(h) \/ Test(h) \/ SyncStatus(h)
  \/ \E r \in Rows : Researcher(r)

Spec == Init /\ [][Next]_vars

\* The gate is polled every GATE_POLL_SECONDS.
FairSpec == Spec /\ WF_vars(Wake)

-----------------------------------------------------------------------------
(***************************************************************************)
(* Properties                                                              *)
(***************************************************************************)

\* Every variable has its type; only an abandoned hypothesis has who abandoned it,
\* and a review of effects has its hypothesis.
TypeOK ==
  /\ GateTypeOK
  /\ status \in [Hypothesis -> Statuses] /\ by \in [Hypothesis -> Authors]
  /\ tried \subseteq Hypothesis
  /\ counted \in [Hypothesis -> Concluded \union {None}]
  /\ opp \in [Hypothesis -> {"em_investigacao", "concluida"}]
  /\ judged \in [Hypothesis -> {"acertada", "nao_acertada", None}]
  /\ session \in Session \union {0}
  /\ cited \subseteq Hypothesis /\ todo \subseteq Hypothesis
  /\ dropped \subseteq cited /\ execute \subseteq Hypothesis /\ awaiting \subseteq cited
  /\ decisions \in [Hypothesis -> {"autorizada", "negada", None}]
  /\ queue \subseteq Hypothesis /\ seen \subseteq Rows /\ failed \in BOOLEAN
  /\ lost \subseteq Hypothesis /\ torn \subseteq Hypothesis
  /\ moving \in Hypothesis \union {None} /\ old \in Statuses \union {None}
  /\ pc \in {"opportunity", "decision"} <=> moving # None
  /\ \A h \in Hypothesis : by[h] # "" <=> status[h] = "abandonada"

\* Whatever abandons and reopens it, in whichever session, the test of a hypothesis
\* runs only if the researcher authorized that hypothesis in the research.
TestedWasApproved ==
  pc = "running" => \A h \in execute : WasAuthorized(h, Chain)

\* The last thing the researcher said of a hypothesis that is tested was yes, unless
\* an answer of his was consumed and lost before the graph had it.
LastWordStands ==
  pc = "running" => \A h \in execute \ lost :
    LET told == {r \in Rows : about[r] = h /\ estado[r] # "pendente"}
    IN told # {} /\ estado[Max(told)] = "autorizada"

\* A rejection is final: a hypothesis the researcher denied is not asked about again
\* and never tested again, in any session of the chain, unless the denial was lost.
RejectionStands ==
  \A h \in Hypothesis \ lost :
    LET denied == {r \in consumed : about[r] = h /\ estado[r] = "negada"}
    IN denied # {} => /\ decisions[h] = "negada" \/ by[h] = "pesquisador"
                      /\ \A r \in Rows : about[r] = h => r <= Max(denied)

\* A resumed session takes over the request of the one before: the researcher never
\* has two requests about one hypothesis that still matter.
AskedOnce ==
  \A h \in Hypothesis : Cardinality(Unconsumed(h, Session)) <= 1

\* A hypothesis that is not abandoned, its opportunity and the decision that chose it
\* tell the same story, whichever way the counts went, unless a cut between the
\* writes of a transition tore them apart.
EffectsFollow ==
  \A h \in Hypothesis \ (torn \union {moving}) : status[h] # "abandonada" =>
    /\ opp[h] = "concluida" <=> status[h] \in Concluded
    /\ judged[h] \in {None, Judgement(status[h])}

\* While the session waits, an answer about what it waits for is always noticed, as
\* long as the approver did not fail on it before.
AnswerHeard ==
  \A h \in Hypothesis :
    (/\ pc = "waiting" /\ h \in awaiting /\ ~failed
     /\ \E r \in Answered(Chain) : about[r] = h) ~> (pc # "waiting")
=============================================================================
