------------------------ MODULE HypothesisCycleProofs ------------------------
(***************************************************************************)
(* What holds of the hypotheses of a research however many sessions follow *)
(* one another, wherever they stop: nothing is tested that was not         *)
(* authorized, a denial is final, one request at a time, the graph tells   *)
(* one story, and a session that waits for an answer finds it new.         *)
(***************************************************************************)
EXTENDS HypothesisCycle, NaturalOrder, FiniteSetTheorems, TLAPS

Tested == Concluded \union {"em_teste"}

\* What each stage of a cycle leaves behind, and which hypotheses it may hold.
Stages ==
  /\ pc # "out" => session \in Session
  /\ pc \notin {"selecting", "asking", "applying"} => dropped = {}
  /\ pc \notin {"asking", "applying", "waiting"} => awaiting = {}
  /\ pc \notin {"asking", "applying", "running"} => execute = {}
  /\ pc = "selecting" => \A h \in cited \ dropped : status[h] # "abandonada"

\* What is asked, decided or executed in a stage.
Held == \A h \in Hypothesis :
  /\ pc = "asking" /\ h \in todo
       => h \in cited \ dropped /\ status[h] = "proposta" /\ decisions[h] = None
  /\ decisions[h] # None
       => pc \in {"asking", "applying"} /\ h \in cited \ dropped /\ status[h] = "proposta"
  /\ h \in execute => status[h] \in Tested /\ (pc # "running" => h \in cited \ dropped)

\* What was tried was tested, and only the researcher takes it away.
Tries == \A h \in Hypothesis :
  /\ h \in tried => status[h] \in Tested \/ by[h] = "pesquisador"
  /\ counted[h] # None => h \in tried

StageInv == TypeOK /\ Stages /\ Held /\ Tries

\* A row belongs to a session that began; one that is still of use is the newest
\* about its hypothesis.
Newest(r) == \A x \in Rows : about[x] = about[r] => x <= r

Ordered ==
  /\ \A r \in Rows : of[r] <= session
  /\ \A r \in Row \ Rows : estado[r] = "pendente"
  /\ \A r \in Rows \ consumed : Newest(r)

\* What is tested, or about to be, was authorized.
Granted == {h \in Hypothesis : WasAuthorized(h, Chain)}

Authorized == \A h \in Hypothesis :
  status[h] \in Tested \/ decisions[h] = "autorizada" => h \in Granted

\* The newest request about these was answered with yes.
YesLast == {h \in Hypothesis :
  \E r \in Rows : about[r] = h /\ estado[r] = "autorizada" /\ Newest(r)}

Heeded == \A h \in Hypothesis \ lost :
  status[h] \in Tested \/ decisions[h] = "autorizada" => h \in YesLast

\* What an agent discarded was never asked about.
Untold == \A h \in Hypothesis : by[h] = "agente" => \A r \in Rows : about[r] # h

\* An authorization that a reopening would find is the last word, and the one of a
\* proposal is still to be used: when it was used, and is not lost, the proposal is
\* too far from it for a reopening to find it.
Recent == {r \in Rows : estado[r] = "autorizada" /\ of[r] \in {session - 1, session}}

Latest == {r \in Rows : Newest(r)}

Fresh == \A h \in Hypothesis \ lost : \A r \in Recent :
  about[r] = h =>
    /\ r \in Latest
    /\ status[h] = "proposta" /\ decisions[h] # "autorizada" => r \notin consumed

\* A denial that was used, and not lost, is the last request, and is written.
Denied == {r \in consumed : estado[r] = "negada"}

Final == \A h \in Hypothesis \ lost : \A r \in Denied :
  about[r] = h => r \in Latest /\ (decisions[h] = "negada" \/ by[h] = "pesquisador")

GateInv == StageInv /\ Ordered /\ Authorized /\ Heeded /\ Untold /\ Fresh /\ Final

\* What the system, or an agent, abandoned has no conclusion.
Unfinished == \A h \in Hypothesis \ torn :
  by[h] \in {"sistema", "agente"} => opp[h] = "em_investigacao" /\ judged[h] = None

\* What sync_statuses has seen follows the counts.
Synced == pc \in {"syncing", "opportunity", "decision"} =>
  \A h \in Hypothesis \ todo : NextStatus(h) = status[h]

\* A transition under way.
Move == pc \in {"opportunity", "decision"} =>
  /\ old \in Tested /\ status[moving] \in Tested /\ status[moving] # old
  /\ status[moving] \in Concluded \/ old \in Concluded
  /\ moving \notin torn => judged[moving] \in {None, Judgement(old)}
  /\ pc = "opportunity" /\ moving \notin torn => (opp[moving] = "concluida" <=> old \in Concluded)
  /\ pc = "decision" /\ moving \notin torn
       => (opp[moving] = "concluida" <=> status[moving] \in Concluded)

EffectsInv == StageInv /\ EffectsFollow /\ Unfinished /\ Synced /\ Move
-----------------------------------------------------------------------------
\* The type invariant in parts: the hypotheses and the cycle.
HypothesesTyped ==
  /\ status \in [Hypothesis -> Statuses] /\ by \in [Hypothesis -> Authors]
  /\ tried \subseteq Hypothesis
  /\ counted \in [Hypothesis -> Concluded \union {None}]
  /\ opp \in [Hypothesis -> {"em_investigacao", "concluida"}]
  /\ judged \in [Hypothesis -> {"acertada", "nao_acertada", None}]
  /\ \A h \in Hypothesis : by[h] # "" <=> status[h] = "abandonada"

PlanTyped ==
  /\ session \in Session \union {0}
  /\ cited \subseteq Hypothesis /\ todo \subseteq Hypothesis
  /\ dropped \subseteq cited /\ execute \subseteq Hypothesis /\ awaiting \subseteq cited
  /\ decisions \in [Hypothesis -> {"autorizada", "negada", None}]
  /\ queue \subseteq Hypothesis

MoveTyped ==
  /\ seen \subseteq Rows /\ failed \in BOOLEAN
  /\ lost \subseteq Hypothesis /\ torn \subseteq Hypothesis
  /\ moving \in Hypothesis \union {None} /\ old \in Statuses \union {None}
  /\ pc \in {"opportunity", "decision"} <=> moving # None

\* The parts make the type invariant.
LEMMA TypeParts == TypeOK <=> GateTypeOK /\ HypothesesTyped /\ PlanTyped /\ MoveTyped
BY DEF TypeOK, HypothesesTyped, PlanTyped, MoveTyped

\* What leaving tests out makes of the statuses: only open and untried hypotheses
\* are abandoned, and none of those kept.
Abandons(kept) ==
  /\ status' \in [Hypothesis -> Statuses] /\ by' \in [Hypothesis -> Authors]
  /\ \A h \in Hypothesis :
       \/ status'[h] = status[h] /\ by'[h] = by[h]
       \/ /\ status[h] \in OpenStatuses /\ h \notin tried /\ h \notin kept
          /\ status'[h] = "abandonada" /\ by'[h] = "sistema"

\* _abandon_system (AbandonSystem) abandons no hypothesis outside those it is given.
LEMMA AbandonFacts ==
  ASSUME HypothesesTyped, NEW hs, NEW kept, hs \intersect kept = {}, AbandonSystem(hs)
  PROVE  Abandons(kept)
<1> USE HypothesisAssumption DEF HypothesesTyped, Statuses, OpenStatuses, Authors
<1> DEFINE gone == {h \in hs \intersect FromSystem : status[h] \in OpenStatuses /\ h \notin tried}
<1>1. /\ status' = [h \in Hypothesis |-> IF h \in gone THEN "abandonada" ELSE status[h]]
      /\ by' = [h \in Hypothesis |-> IF h \in gone THEN "sistema" ELSE by[h]]
  BY DEF AbandonSystem
<1>2. \A h \in gone : status[h] \in OpenStatuses /\ h \notin tried /\ h \notin kept
  OBVIOUS
<1> QED
  <2> HIDE DEF gone
  <2> QED BY <1>1, <1>2 DEF Abandons

PreparedDoes ==
  /\ pc = "applying" /\ pc' \in {"running", "waiting", "planning"}
  /\ \A h \in Hypothesis : decisions[h] = None
  /\ execute' \subseteq execute /\ (pc' # "running" => execute' = {})
  /\ cited' \subseteq cited /\ awaiting' \subseteq cited'
  /\ (pc' # "waiting" => awaiting' = {})
  /\ queue' \subseteq Hypothesis
  /\ dropped' = {}
  /\ Abandons(execute')
  /\ UNCHANGED <<gateVars, tried, counted, opp, judged, session, todo, decisions,
                 moveVars, waitVars, tornVars>>

\* What the end of prepare_cycle does, without the choice of what is left out.
LEMMA PreparedFacts == ASSUME StageInv, Prepared PROVE PreparedDoes
<1>0. HypothesesTyped /\ PlanTyped /\ Stages /\ Held
  BY TypeParts DEF StageInv
<1>1. PICK out \in SUBSET (execute \union awaiting) :
       /\ execute' = execute \ out
       /\ AbandonSystem(dropped \union out \union (queue \ cited))
       /\ queue' = FromSystem \intersect (cited \ (dropped \union out))
       /\ \/ Goto("running") /\ cited' = {} /\ awaiting' = {}
          \/ /\ execute' = {} /\ awaiting \ out # {}
             /\ awaiting' = awaiting \ out
             /\ Goto("waiting")
             /\ UNCHANGED cited
          \/ /\ execute' = {} /\ awaiting \ out = {}
             /\ Goto("planning") /\ cited' = {} /\ awaiting' = {}
  BY DEF Prepared
<1>2. (dropped \union out \union (queue \ cited)) \intersect execute' = {}
  BY <1>0, <1>1 DEF Prepared, Held, PlanTyped
<1>3. Abandons(execute')
  BY <1>0, <1>1, <1>2, AbandonFacts
<1> QED BY <1>0, <1>1, <1>3, HypothesisAssumption DEF Prepared, PreparedDoes, PlanTyped, Goto

EndCycleDoes ==
  /\ pc = "running" /\ pc' = "syncing"
  /\ execute' = {} /\ todo' = Hypothesis
  /\ Abandons({})
  /\ UNCHANGED <<gateVars, tried, counted, opp, judged, session, cited, dropped,
                 decisions, awaiting, queue, moveVars, waitVars, tornVars>>

\* What the end of the attempts does, without the choice of what ran out of them.
LEMMA EndCycleFacts == ASSUME StageInv, EndCycle PROVE EndCycleDoes
<1>0. HypothesesTyped
  BY TypeParts DEF StageInv
<1>1. PICK spent \in SUBSET execute : AbandonSystem(spent)
  BY DEF EndCycle
<1>2. Abandons({})
  BY <1>0, <1>1, AbandonFacts
<1> QED BY <1>2 DEF EndCycle, EndCycleDoes, Goto

TestDoes(h) ==
  /\ pc = "running" /\ h \in execute
  /\ tried' = tried \union {h}
  /\ counted' \in [Hypothesis -> Concluded \union {None}]
  /\ \A g \in Hypothesis \ {h} : counted'[g] = counted[g]
  /\ UNCHANGED <<gateVars, status, by, opp, judged, session, pc, todo, planVars, moveVars,
                 waitVars, tornVars>>

\* What a test does, without the choice of what it finds.
LEMMA TestFacts == ASSUME StageInv PROVE \A h \in Hypothesis : Test(h) => TestDoes(h)
<1> SUFFICES ASSUME NEW h \in Hypothesis, Test(h) PROVE TestDoes(h)
  OBVIOUS
<1>0. HypothesesTyped
  BY TypeParts DEF StageInv
<1>1. PICK found \in Concluded \union {None} : counted' = [counted EXCEPT ![h] = found]
  BY DEF Test
<1> QED BY <1>0, <1>1 DEF Test, TestDoes, HypothesesTyped

\* The counts conclude a hypothesis or send it back to its test.
SyncStatusDoes(h) ==
  /\ pc = "syncing" /\ h \in todo /\ todo' = todo \ {h}
  /\ \/ NextStatus(h) = status[h] /\ UNCHANGED <<status, pc, moveVars>>
     \/ /\ NextStatus(h) \in Tested /\ NextStatus(h) # status[h]
        /\ status[h] \in OpenStatuses \union Concluded
        /\ NextStatus(h) \in Concluded \/ status[h] \in Concluded
        /\ status[h] = "proposta" => h \in tried
        /\ status' = [status EXCEPT ![h] = NextStatus(h)]
        /\ moving' = h /\ old' = status[h] /\ pc' = "opportunity"
  /\ UNCHANGED <<gateVars, by, tried, counted, opp, judged, session, planVars, waitVars,
                 tornVars>>

\* What sync_statuses does to one hypothesis.
LEMMA SyncStatusFacts ==
  ASSUME StageInv PROVE \A h \in Hypothesis : SyncStatus(h) => SyncStatusDoes(h)
<1> SUFFICES ASSUME NEW h \in Hypothesis, SyncStatus(h) PROVE SyncStatusDoes(h)
  OBVIOUS
<1>0. HypothesesTyped
  BY TypeParts DEF StageInv
<1>1. \/ NextStatus(h) = status[h]
      \/ /\ NextStatus(h) \in Tested /\ status[h] \in OpenStatuses \union Concluded
         /\ NextStatus(h) \in Concluded \/ status[h] \in Concluded
         /\ status[h] = "proposta" => h \in tried
  BY <1>0 DEF HypothesesTyped, NextStatus, Tested, Statuses, OpenStatuses, Concluded
<1> QED BY <1>1 DEF SyncStatus, SyncStatusDoes, Goto

\* Nothing is held before the first session.
LEMMA StageInit == Init => StageInv
<1> SUFFICES ASSUME Init PROVE StageInv
  OBVIOUS
<1>0. GateInit
  BY DEF Init
<1>1. GateTypeOK
  BY <1>0, GateAssumption DEF GateInit, GateTypeOK, Row, Rows
<1> USE HypothesisAssumption DEF Init
<1>2. HypothesesTyped
  BY DEF HypothesesTyped, Statuses, OpenStatuses, Authors, None
<1>3. PlanTyped
  BY DEF PlanTyped
<1>4. MoveTyped
  BY DEF MoveTyped
<1>5. Stages /\ Held /\ Tries
  BY DEF Stages, Held, Tries
<1> QED BY <1>1, <1>2, <1>3, <1>4, <1>5, TypeParts DEF StageInv

\* What the approver takes is there: a row about the hypothesis, answered and not
\* consumed.
Takes(h, r) ==
  /\ r \in Rows \ consumed
  /\ about[r] = h
  /\ estado[r] # "pendente"
  /\ pc = "asking"
  /\ h \in todo
  /\ consumed' = consumed \union {r}
  /\ decisions' = [decisions EXCEPT ![h] = estado[r]]
  /\ todo' = todo \ {h}
  /\ UNCHANGED <<asked, of, about, estado, hypVars, session, pc, cited, dropped, execute,
                 awaiting, queue, moveVars, waitVars, tornVars>>

\* find_in_chain returns a row that is there.
LEMMA TakenIsThere ==
  ASSUME StageInv
  PROVE \A h \in Hypothesis : TakeAnswer(h) => \E r \in Row : Takes(h, r)
<1> SUFFICES ASSUME NEW h \in Hypothesis, TakeAnswer(h) PROVE \E r \in Row : Takes(h, r)
  OBVIOUS
<1>0. asked \in 0..MaxRequests
  BY DEF StageInv, TypeOK, GateTypeOK
<1>1. Unconsumed(h, Chain) # {} /\ Unconsumed(h, Chain) \subseteq 0..asked /\ asked \in Nat
  BY <1>0, GateAssumption DEF Unconsumed, Rows, TakeAnswer
<1>2. Found(h, Chain) \in Unconsumed(h, Chain)
  <2>1. \E x \in Unconsumed(h, Chain) : \A y \in Unconsumed(h, Chain) : x >= y
    BY <1>1, Greatest
  <2> QED BY <2>1 DEF Found, Max
<1>3. Found(h, Chain) \in Row
  BY <1>0, <1>2, GateAssumption DEF Unconsumed, Row, Rows
<1> QED BY <1>2, <1>3 DEF TakeAnswer, Takes, Consume, Unconsumed, Asking

\* The rows of the gate keep their types.
LEMMA GateStep == ASSUME StageInv, [Next]_vars PROVE GateTypeOK'
<1>0. \A h \in Hypothesis : TakeAnswer(h) => \E r \in Row : Takes(h, r)
  BY TakenIsThere
<1>a. GateTypeOK
  BY TypeParts DEF StageInv
<1>b. PlanTyped /\ Stages
  BY TypeParts DEF StageInv
<1> USE <1>a, GateAssumption, HypothesisAssumption DEF GateTypeOK, gateVars, Row, Rows,
      Hypothesis, Goto
<1>1. ASSUME NEW h \in Hypothesis, Ask(h) PROVE GateTypeOK'
  <2>1. session \in Session /\ asked \in Nat /\ MaxRequests \in Nat
    BY <1>1, <1>b DEF Ask, Asking, PlanTyped, Stages
  <2>2. CASE Insert(session, h)
    BY <2>1, <2>2 DEF Insert
  <2> QED BY <1>1, <2>2 DEF Ask
<1>2. ASSUME NEW h \in Hypothesis, NEW r \in Row, Takes(h, r) PROVE GateTypeOK'
  BY <1>2 DEF Takes
<1>3. ASSUME NEW r \in Rows, Researcher(r) PROVE GateTypeOK'
  BY <1>3 DEF Researcher, Answer
<1>4. CASE Begin \/ Stop \/ Plan \/ Resolve \/ Select \/ ApproverFails \/ Approved
  BY <1>4 DEF Begin, Stop, Plan, Resolve, Select, ApproverFails, Approved
<1>5. CASE Prepared \/ Wake \/ EndCycle \/ ReviewOpportunity \/ ReviewDecision \/
          EvaluationFails \/ EvaluateDecisions
  BY <1>5 DEF Prepared, Wake, EndCycle, ReviewOpportunity, ReviewDecision, EvaluationFails,
        EvaluateDecisions
<1>6. ASSUME NEW h \in Hypothesis, Withdraw(h) \/ StillPending(h) \/ Reject(h) \/ Approve(h) \/
         Test(h) \/ SyncStatus(h)
      PROVE GateTypeOK'
  BY <1>6 DEF Withdraw, StillPending, Reject, Approve, Test, SyncStatus, Awaits
<1>7. CASE UNCHANGED vars
  BY <1>7 DEF vars
<1> QED BY <1>0, <1>1, <1>2, <1>3, <1>4, <1>5, <1>6, <1>7 DEF Next, Preparation

\* Only an abandoned hypothesis has who abandoned it.
LEMMA HypothesesStep == ASSUME StageInv, [Next]_vars PROVE HypothesesTyped'
<1>p. Prepared => PreparedDoes
  BY PreparedFacts
<1>e. EndCycle => EndCycleDoes
  BY EndCycleFacts
<1>t. \A h \in Hypothesis : Test(h) => TestDoes(h)
  BY TestFacts
<1>s. \A h \in Hypothesis : SyncStatus(h) => SyncStatusDoes(h)
  BY SyncStatusFacts
<1>a. HypothesesTyped
  BY TypeParts DEF StageInv
<1>b. Held /\ MoveTyped /\ PlanTyped
  BY TypeParts DEF StageInv
<1> USE <1>a, GateAssumption, HypothesisAssumption DEF HypothesesTyped, hypVars, Statuses,
      OpenStatuses, Concluded, Authors, Goto
<1>1. CASE Resolve
  BY <1>1 DEF Resolve, ToReopen, Reopened
<1>2. CASE Prepared
  BY ZenonT(40), <1>2, <1>p DEF PreparedDoes, Abandons
<1>3. CASE EndCycle
  BY ZenonT(40), <1>3, <1>e DEF EndCycleDoes, Abandons
<1>4. CASE ReviewOpportunity
  BY <1>4, <1>b DEF ReviewOpportunity, MoveTyped
<1>5. CASE ReviewDecision
  BY <1>5, <1>b DEF ReviewDecision, Judgement, MoveTyped
<1>6. CASE EvaluateDecisions
  BY <1>6 DEF EvaluateDecisions, Judgement
<1>7. ASSUME NEW h \in Hypothesis, Withdraw(h) PROVE HypothesesTyped'
  BY <1>7 DEF Withdraw
<1>8. ASSUME NEW h \in Hypothesis, Reject(h) PROVE HypothesesTyped'
  BY <1>8 DEF Reject, Decided
<1>9. ASSUME NEW h \in Hypothesis, Approve(h) PROVE HypothesesTyped'
  BY <1>9, <1>b DEF Approve, Decided, Held
<1>10. ASSUME NEW h \in Hypothesis, Test(h) PROVE HypothesesTyped'
  BY <1>10, <1>t, <1>b DEF TestDoes, PlanTyped
<1>11. ASSUME NEW h \in Hypothesis, SyncStatus(h) PROVE HypothesesTyped'
  <2>1. CASE UNCHANGED status
    BY <1>11, <1>s, <2>1 DEF SyncStatusDoes
  <2>2. CASE status' = [status EXCEPT ![h] = NextStatus(h)] /\ status[h] \in OpenStatuses \union Concluded
             /\ NextStatus(h) \in Tested
    <3>1. by[h] = "" /\ NextStatus(h) # "abandonada" /\ NextStatus(h) \in Statuses
      BY <2>2 DEF Tested
    <3>2. status' \in [Hypothesis -> Statuses] /\ status'[h] = NextStatus(h)
          /\ \A g \in Hypothesis \ {h} : status'[g] = status[g]
      BY <2>2, <3>1
    <3>3. UNCHANGED <<by, tried, counted, opp, judged>>
      BY <1>11, <1>s DEF SyncStatusDoes
    <3>4. \A g \in Hypothesis : by'[g] # "" <=> status'[g] = "abandonada"
      BY <3>1, <3>2, <3>3
    <3> QED BY <3>2, <3>3, <3>4
  <2> QED BY <1>11, <1>s, <2>1, <2>2 DEF SyncStatusDoes
<1>12. ASSUME UNCHANGED <<hypVars>> PROVE HypothesesTyped'
  BY <1>12
<1>13. CASE Begin \/ Stop \/ Plan \/ Select \/ ApproverFails \/ Approved
  BY <1>13, <1>12 DEF Begin, Stop, Plan, Select, ApproverFails, Approved
<1>14. CASE Wake \/ EvaluationFails
  BY <1>14, <1>12 DEF Wake, EvaluationFails
<1>15. ASSUME NEW h \in Hypothesis, Ask(h) \/ StillPending(h) \/ TakeAnswer(h)
      PROVE HypothesesTyped'
  BY <1>15, <1>12 DEF Ask, StillPending, TakeAnswer, Awaits
<1>16. ASSUME NEW r \in Rows, Researcher(r) PROVE HypothesesTyped'
  BY <1>16, <1>12 DEF Researcher
<1>17. CASE UNCHANGED vars
  BY <1>17, <1>12 DEF vars, gateVars
<1> QED BY <1>1, <1>2, <1>3, <1>4, <1>5, <1>6, <1>7, <1>8, <1>9, <1>10, <1>11, <1>13, <1>14,
        <1>15, <1>16, <1>17 DEF Next, Preparation

\* What a cycle leaves out or waits for is in its plan.
LEMMA PlanStep == ASSUME StageInv, [Next]_vars PROVE PlanTyped'
<1>0. \A h \in Hypothesis : TakeAnswer(h) => \E r \in Row : Takes(h, r)
  BY TakenIsThere
<1>p. Prepared => PreparedDoes
  BY PreparedFacts
<1>e. EndCycle => EndCycleDoes
  BY EndCycleFacts
<1>s. \A h \in Hypothesis : SyncStatus(h) => SyncStatusDoes(h)
  BY SyncStatusFacts
<1>a. GateTypeOK /\ PlanTyped /\ Stages /\ Held
  BY TypeParts DEF StageInv
<1> USE <1>a, GateAssumption, HypothesisAssumption DEF GateTypeOK, PlanTyped, Stages, Held,
      planVars, Row, Rows, None, Goto
<1>1. CASE Begin
  BY <1>1 DEF Begin
<1>2. CASE Stop
  BY <1>2 DEF Stop, Forget
<1>3. CASE Plan
  BY <1>3 DEF Plan
<1>4. CASE Resolve
  BY <1>4 DEF Resolve
<1>5. CASE Select
  BY <1>5 DEF Select
<1>6. CASE ApproverFails
  BY <1>6 DEF ApproverFails
<1>7. CASE Prepared
  BY <1>7, <1>p DEF PreparedDoes, Abandons
<1>8. CASE Wake
  BY <1>8 DEF Wake
<1>9. CASE EndCycle
  BY <1>9, <1>e DEF EndCycleDoes, Abandons
<1>10. CASE EvaluationFails
  BY <1>10 DEF EvaluationFails
<1>11. ASSUME NEW h \in Hypothesis, Withdraw(h) PROVE PlanTyped'
  BY <1>11 DEF Withdraw
<1>12. ASSUME NEW h \in Hypothesis, Ask(h) PROVE PlanTyped'
  BY <1>12 DEF Ask, Insert, Awaits, Asking
<1>13. ASSUME NEW h \in Hypothesis, StillPending(h) PROVE PlanTyped'
  BY <1>13 DEF StillPending, Awaits, Asking
<1>14. ASSUME NEW h \in Hypothesis, NEW r \in Row, Takes(h, r) PROVE PlanTyped'
  BY <1>14 DEF Takes
<1>15. ASSUME NEW h \in Hypothesis, Reject(h) PROVE PlanTyped'
  BY <1>15 DEF Reject, Decided
<1>16. ASSUME NEW h \in Hypothesis, Approve(h) PROVE PlanTyped'
  BY <1>16 DEF Approve
<1>17. ASSUME NEW h \in Hypothesis, SyncStatus(h) PROVE PlanTyped'
  BY <1>17, <1>s DEF SyncStatusDoes
<1>18. CASE Approved
  BY <1>18 DEF Approved
<1>19. CASE ReviewOpportunity \/ ReviewDecision \/ EvaluateDecisions
  BY <1>19 DEF ReviewOpportunity, ReviewDecision, EvaluateDecisions
<1>20. ASSUME NEW h \in Hypothesis, Test(h)
      PROVE PlanTyped'
  BY <1>20 DEF Test
<1>21. ASSUME NEW r \in Rows, Researcher(r) PROVE PlanTyped'
  BY <1>21 DEF Researcher
<1>22. CASE UNCHANGED vars
  BY <1>22 DEF vars, gateVars
<1> QED BY <1>0, <1>1, <1>2, <1>3, <1>4, <1>5, <1>6, <1>7, <1>8, <1>9, <1>10, <1>11, <1>12,
        <1>13, <1>14, <1>15, <1>16, <1>17, <1>18, <1>19, <1>20, <1>21, <1>22 DEF Next, Preparation

\* A review of effects has its hypothesis.
LEMMA MoveTypedStep == ASSUME StageInv, [Next]_vars PROVE MoveTyped'
<1>0. \A h \in Hypothesis : TakeAnswer(h) => \E r \in Row : Takes(h, r)
  BY TakenIsThere
<1>p. Prepared => PreparedDoes
  BY PreparedFacts
<1>e. EndCycle => EndCycleDoes
  BY EndCycleFacts
<1>s. \A h \in Hypothesis : SyncStatus(h) => SyncStatusDoes(h)
  BY SyncStatusFacts
<1>a. MoveTyped
  BY TypeParts DEF StageInv
<1>b. HypothesesTyped /\ GateTypeOK /\ PlanTyped
  BY TypeParts DEF StageInv
<1> USE <1>a, GateAssumption, HypothesisAssumption DEF MoveTyped, moveVars, waitVars, tornVars,
      gateVars, Rows, Goto
<1>1. CASE Begin
  BY <1>1 DEF Begin
<1>2. CASE Stop
  BY <1>2, <1>b DEF Stop, PlanTyped
<1>3. CASE Plan
  BY <1>3 DEF Plan
<1>4. CASE Resolve
  BY <1>4 DEF Resolve
<1>5. CASE Select
  BY <1>5 DEF Select
<1>6. CASE ApproverFails
  BY <1>6 DEF ApproverFails
<1>7. CASE Approved
  BY <1>7 DEF Approved
<1>8. CASE Prepared
  BY <1>8, <1>p DEF PreparedDoes, Abandons
<1>9. CASE Wake
  BY <1>9 DEF Wake, Answered
<1>10. CASE EndCycle
  BY <1>10, <1>e DEF EndCycleDoes, Abandons
<1>11. CASE ReviewOpportunity
  BY <1>11 DEF ReviewOpportunity
<1>12. CASE ReviewDecision
  BY <1>12 DEF ReviewDecision
<1>13. CASE EvaluationFails
  BY <1>13 DEF EvaluationFails
<1>14. CASE EvaluateDecisions
  BY <1>14 DEF EvaluateDecisions
<1>15. ASSUME NEW h \in Hypothesis, Ask(h) PROVE MoveTyped'
  BY <1>15, <1>b DEF Ask, Insert, Awaits, GateTypeOK
<1>16. ASSUME NEW h \in Hypothesis, NEW r \in Row, Takes(h, r) PROVE MoveTyped'
  BY <1>16 DEF Takes
<1>17. ASSUME NEW h \in Hypothesis, SyncStatus(h) PROVE MoveTyped'
  BY <1>17, <1>s, <1>b DEF SyncStatusDoes, HypothesesTyped, OpenStatuses, Statuses
<1>18. ASSUME NEW r \in Rows, Researcher(r) PROVE MoveTyped'
  BY <1>18 DEF Researcher, Answer
<1>19. ASSUME NEW h \in Hypothesis, Withdraw(h) \/ StillPending(h) \/ Reject(h) \/ Approve(h) \/
         Test(h)
      PROVE MoveTyped'
  BY <1>19 DEF Withdraw, StillPending, Reject, Approve, Test, Awaits
<1>20. CASE UNCHANGED vars
  BY <1>20 DEF vars
<1> QED BY <1>0, <1>1, <1>2, <1>3, <1>4, <1>5, <1>6, <1>7, <1>8, <1>9, <1>10, <1>11, <1>12,
        <1>13, <1>14, <1>15, <1>16, <1>17, <1>18, <1>19, <1>20 DEF Next, Preparation

\* Each stage leaves behind what the next one expects.
LEMMA StagesStep == ASSUME StageInv, [Next]_vars PROVE Stages'
<1>0. \A h \in Hypothesis : TakeAnswer(h) => \E r \in Row : Takes(h, r)
  BY TakenIsThere
<1>p. Prepared => PreparedDoes
  BY PreparedFacts
<1>e. EndCycle => EndCycleDoes
  BY EndCycleFacts
<1>s. \A h \in Hypothesis : SyncStatus(h) => SyncStatusDoes(h)
  BY SyncStatusFacts
<1>a. HypothesesTyped /\ PlanTyped /\ MoveTyped /\ Stages
  BY TypeParts DEF StageInv
<1> USE <1>a, GateAssumption, HypothesisAssumption DEF HypothesesTyped, PlanTyped, MoveTyped,
      Stages, planVars, hypVars, Goto
<1>1. CASE Begin
  BY <1>1 DEF Begin
<1>2. CASE Stop
  BY <1>2 DEF Stop, Forget
<1>3. CASE Plan
  BY <1>3 DEF Plan
<1>4. CASE Resolve
  BY <1>4 DEF Resolve, ToReopen, Reopened
<1>5. CASE Select
  BY <1>5 DEF Select
<1>6. CASE ApproverFails
  BY <1>6 DEF ApproverFails
<1>7. CASE Approved
  BY <1>7 DEF Approved
<1>8. CASE Prepared
  BY <1>8, <1>p DEF PreparedDoes
<1>9. CASE Wake
  BY <1>9 DEF Wake
<1>10. CASE EndCycle
  BY ZenonT(40), <1>10, <1>e DEF EndCycleDoes, Abandons
<1>11. CASE ReviewOpportunity
  BY <1>11 DEF ReviewOpportunity
<1>12. CASE ReviewDecision
  BY <1>12 DEF ReviewDecision
<1>13. CASE EvaluationFails
  BY <1>13 DEF EvaluationFails
<1>14. CASE EvaluateDecisions
  BY <1>14 DEF EvaluateDecisions
<1>15. ASSUME NEW h \in Hypothesis, Withdraw(h) PROVE Stages'
  BY <1>15 DEF Withdraw
<1>16. ASSUME NEW h \in Hypothesis, Ask(h) PROVE Stages'
  BY <1>16 DEF Ask, Insert, Awaits, Asking
<1>17. ASSUME NEW h \in Hypothesis, StillPending(h) PROVE Stages'
  BY <1>17 DEF StillPending, Awaits, Asking
<1>18. ASSUME NEW h \in Hypothesis, NEW r \in Row, Takes(h, r) PROVE Stages'
  BY <1>18 DEF Takes
<1>19. ASSUME NEW h \in Hypothesis, Reject(h) PROVE Stages'
  BY <1>19 DEF Reject, Decided
<1>20. ASSUME NEW h \in Hypothesis, Approve(h) PROVE Stages'
  BY <1>20 DEF Approve, Decided
<1>21. ASSUME NEW h \in Hypothesis, SyncStatus(h) PROVE Stages'
  BY <1>21, <1>s DEF SyncStatusDoes
<1>22. ASSUME NEW h \in Hypothesis, Test(h)
      PROVE Stages'
  BY <1>22 DEF Test
<1>23. ASSUME NEW r \in Rows, Researcher(r) PROVE Stages'
  BY <1>23 DEF Researcher
<1>24. CASE UNCHANGED vars
  BY <1>24 DEF vars, gateVars
<1> QED BY <1>0, <1>1, <1>2, <1>3, <1>4, <1>5, <1>6, <1>7, <1>8, <1>9, <1>10, <1>11, <1>12,
        <1>13, <1>14, <1>15, <1>16, <1>17, <1>18, <1>19, <1>20, <1>21, <1>22, <1>23, <1>24 DEF Next, Preparation

\* What is held in a stage is of that stage.
LEMMA HeldStep == ASSUME StageInv, [Next]_vars PROVE Held'
<1>0. \A h \in Hypothesis : TakeAnswer(h) => \E r \in Row : Takes(h, r)
  BY TakenIsThere
<1>p. Prepared => PreparedDoes
  BY PreparedFacts
<1>e. EndCycle => EndCycleDoes
  BY EndCycleFacts
<1>t. \A h \in Hypothesis : Test(h) => TestDoes(h)
  BY TestFacts
<1>s. \A h \in Hypothesis : SyncStatus(h) => SyncStatusDoes(h)
  BY SyncStatusFacts
<1>a. HypothesesTyped /\ PlanTyped /\ Stages /\ Held
  BY TypeParts DEF StageInv
<1>b. MoveTyped
  BY TypeParts DEF StageInv
<1> USE <1>a, GateAssumption, HypothesisAssumption DEF HypothesesTyped, PlanTyped, Stages, Held,
      hypVars, planVars, Goto
<1>1. CASE Begin
  BY <1>1 DEF Begin
<1>2. CASE Stop
  BY <1>2 DEF Stop, Forget
<1>3. CASE Plan
  BY <1>3 DEF Plan
<1>4. CASE Resolve
  BY <1>4 DEF Resolve, ToReopen, Reopened
<1>5. CASE Select
  BY <1>5 DEF Select, Statuses, OpenStatuses, Tested
<1>6. CASE ApproverFails
  BY <1>6 DEF ApproverFails
<1>7. CASE Approved
  BY <1>7 DEF Approved
<1>8. CASE Prepared
  BY <1>8, <1>p DEF PreparedDoes, Abandons, OpenStatuses, Tested, Concluded
<1>9. CASE Wake
  BY <1>9 DEF Wake
<1>10. CASE EndCycle
  BY <1>10, <1>e DEF EndCycleDoes, Abandons, OpenStatuses, Tested, Concluded
<1>11. CASE ReviewOpportunity
  BY <1>11, <1>b DEF ReviewOpportunity, MoveTyped
<1>12. CASE ReviewDecision
  BY <1>12, <1>b DEF ReviewDecision, MoveTyped
<1>13. CASE EvaluationFails
  BY <1>13 DEF EvaluationFails
<1>14. CASE EvaluateDecisions
  BY <1>14 DEF EvaluateDecisions
<1>15. ASSUME NEW h \in Hypothesis, Withdraw(h) PROVE Held'
  BY <1>15 DEF Withdraw, Tested
<1>16. ASSUME NEW h \in Hypothesis, Ask(h) PROVE Held'
  BY <1>16 DEF Ask, Insert, Awaits, Asking
<1>17. ASSUME NEW h \in Hypothesis, StillPending(h) PROVE Held'
  BY <1>17 DEF StillPending, Awaits, Asking
<1>18. ASSUME NEW h \in Hypothesis, NEW r \in Row, Takes(h, r) PROVE Held'
  <2>1. h \in cited \ dropped /\ status[h] = "proposta"
    BY <1>18 DEF Takes
  <2>2. \A g \in Hypothesis \ {h} : decisions'[g] = decisions[g]
    BY <1>18 DEF Takes
  <2>3. pc = "asking" /\ todo' = todo \ {h}
        /\ UNCHANGED <<status, pc, cited, dropped, execute>>
    BY <1>18 DEF Takes
  <2> QED BY <2>1, <2>2, <2>3
<1>19. ASSUME NEW h \in Hypothesis, Reject(h) PROVE Held'
  <2>1. decisions'[h] = None /\ \A g \in Hypothesis \ {h} : decisions'[g] = decisions[g]
    BY <1>19 DEF Reject
  <2>2. \A g \in Hypothesis \ {h} : status'[g] = status[g]
    BY <1>19 DEF Reject
  <2>3. h \notin execute
    BY <1>19 DEF Reject, Decided, Tested, Concluded
  <2>4. pc = "applying" /\ UNCHANGED <<pc, cited, todo, execute>> /\ dropped' = dropped \union {h}
    BY <1>19 DEF Reject, Decided
  <2> QED BY ZenonT(40), <2>1, <2>2, <2>3, <2>4
<1>20. ASSUME NEW h \in Hypothesis, Approve(h) PROVE Held'
  BY ZenonT(40), <1>20 DEF Approve, Decided, Tested
<1>21. ASSUME NEW h \in Hypothesis, Test(h) PROVE Held'
  BY <1>21, <1>t DEF TestDoes
<1>22. ASSUME NEW h \in Hypothesis, SyncStatus(h) PROVE Held'
  BY <1>22, <1>s DEF SyncStatusDoes
<1>23. ASSUME NEW r \in Rows, Researcher(r) PROVE Held'
  BY <1>23 DEF Researcher
<1>24. CASE UNCHANGED vars
  BY <1>24 DEF vars, gateVars
<1> QED BY <1>0, <1>1, <1>2, <1>3, <1>4, <1>5, <1>6, <1>7, <1>8, <1>9, <1>10, <1>11, <1>12,
        <1>13, <1>14, <1>15, <1>16, <1>17, <1>18, <1>19, <1>20, <1>21, <1>22, <1>23, <1>24 DEF Next, Preparation

\* Only the researcher takes away what was tried.
LEMMA TriesStep == ASSUME StageInv, [Next]_vars PROVE Tries'
<1>p. Prepared => PreparedDoes
  BY PreparedFacts
<1>e. EndCycle => EndCycleDoes
  BY EndCycleFacts
<1>t. \A h \in Hypothesis : Test(h) => TestDoes(h)
  BY TestFacts
<1>s. \A h \in Hypothesis : SyncStatus(h) => SyncStatusDoes(h)
  BY SyncStatusFacts
<1>a. HypothesesTyped /\ Tries
  BY TypeParts DEF StageInv
<1>b. Held
  BY TypeParts DEF StageInv
<1> USE <1>a, GateAssumption, HypothesisAssumption DEF HypothesesTyped, Tries, Tested,
      Concluded, hypVars, Goto
<1>1. CASE Resolve
  BY <1>1 DEF Resolve, ToReopen, Reopened
<1>2. CASE Prepared
  BY <1>2, <1>p DEF PreparedDoes, Abandons, OpenStatuses
<1>3. CASE EndCycle
  BY <1>3, <1>e DEF EndCycleDoes, Abandons, OpenStatuses
<1>4. ASSUME NEW h \in Hypothesis, Withdraw(h) PROVE Tries'
  BY <1>4 DEF Withdraw
<1>5. ASSUME NEW h \in Hypothesis, Reject(h) PROVE Tries'
  BY <1>5, <1>b DEF Reject, Decided, Held
<1>6. ASSUME NEW h \in Hypothesis, Approve(h) PROVE Tries'
  BY <1>6, <1>b DEF Approve, Decided, Held
<1>7. ASSUME NEW h \in Hypothesis, Test(h) PROVE Tries'
  <2>1. status[h] \in Tested /\ h \in Hypothesis
    BY <1>7, <1>t, <1>b DEF TestDoes, Held
  <2>2. UNCHANGED <<status, by>> /\ tried' = tried \union {h}
        /\ \A g \in Hypothesis \ {h} : counted'[g] = counted[g]
    BY <1>7, <1>t DEF TestDoes
  <2> QED BY <2>1, <2>2
<1>8. ASSUME NEW h \in Hypothesis, SyncStatus(h) PROVE Tries'
  BY <1>8, <1>s DEF SyncStatusDoes
<1>9. ASSUME UNCHANGED <<hypVars>> PROVE Tries'
  BY <1>9
<1>10. CASE Begin \/ Stop \/ Plan \/ Select \/ ApproverFails \/ Approved
  BY <1>10, <1>9 DEF Begin, Stop, Plan, Select, ApproverFails, Approved
<1>11. CASE Wake \/ ReviewOpportunity \/ ReviewDecision \/ EvaluationFails \/ EvaluateDecisions
  BY <1>11, <1>9 DEF Wake, ReviewOpportunity, ReviewDecision, EvaluationFails, EvaluateDecisions
<1>12. ASSUME NEW h \in Hypothesis, Ask(h) \/ StillPending(h) \/ TakeAnswer(h)
      PROVE Tries'
  BY <1>12, <1>9 DEF Ask, StillPending, TakeAnswer, Awaits
<1>13. ASSUME NEW r \in Rows, Researcher(r) PROVE Tries'
  BY <1>13, <1>9 DEF Researcher
<1>14. CASE UNCHANGED vars
  BY <1>14, <1>9 DEF vars, gateVars
<1> QED BY <1>1, <1>2, <1>3, <1>4, <1>5, <1>6, <1>7, <1>8, <1>10, <1>11, <1>12, <1>13, <1>14 DEF Next, Preparation

\* No step breaks what the stages leave behind.
LEMMA StageStep == StageInv /\ [Next]_vars => StageInv'
<1> SUFFICES ASSUME StageInv, [Next]_vars PROVE StageInv'
  OBVIOUS
<1>1. TypeOK'
  <2>1. TypeOK' <=> GateTypeOK' /\ HypothesesTyped' /\ PlanTyped' /\ MoveTyped'
    BY DEF TypeOK, HypothesesTyped, PlanTyped, MoveTyped
  <2> QED BY <2>1, GateStep, HypothesesStep, PlanStep, MoveTypedStep
<1> QED BY <1>1, StagesStep, HeldStep, TriesStep DEF StageInv

\* Every variable keeps its type, wherever a session stops.
THEOREM TypeCorrect == Spec => []TypeOK
<1>1. StageInv => TypeOK
  BY DEF StageInv
<1> QED BY <1>1, StageInit, StageStep, PTL DEF Spec

-----------------------------------------------------------------------------
\* Sessions and rows are numbers.
Indexed ==
  /\ Session \subseteq Nat /\ session \in Nat
  /\ Rows \subseteq Row /\ Row \subseteq Nat
  /\ \A r \in Rows : of[r] \in Session /\ of[r] \in Nat

\* Type correctness makes them numbers.
LEMMA IndexFacts == ASSUME StageInv PROVE Indexed
<1>1. GateTypeOK /\ PlanTyped
  BY TypeParts DEF StageInv
<1>2. Session \subseteq Nat /\ session \in Nat /\ \A r \in Rows : of[r] \in Session
  BY <1>1, GateAssumption DEF GateTypeOK, PlanTyped
<1>3. Rows \subseteq Row /\ Row \subseteq Nat
  BY <1>1, GateAssumption DEF GateTypeOK, Row, Rows
<1> QED BY <1>2, <1>3 DEF Indexed

\* What a request, and an answer, make of the rows.
Asks(h) ==
  /\ pc = "asking" /\ h \in todo /\ decisions[h] = None /\ status[h] = "proposta"
  /\ \A r \in Rows \ consumed : about[r] # h
  /\ \/ UNCHANGED gateVars
     \/ /\ Rows' = Rows \union {asked'} /\ asked' \in Row \ Rows
        /\ \A r \in Rows : r < asked'
        /\ of'[asked'] = session /\ about'[asked'] = h
        /\ \A r \in Rows : of'[r] = of[r] /\ about'[r] = about[r]
        /\ UNCHANGED <<estado, consumed>>
  /\ UNCHANGED <<hypVars, session, pc, cited, dropped, decisions, execute, queue, moveVars,
                 waitVars, tornVars>>

\* An insert of the approver finds no other request of use, and adds the newest row.
LEMMA AskFacts == ASSUME StageInv, Ordered PROVE \A h \in Hypothesis : Ask(h) => Asks(h)
<1> SUFFICES ASSUME NEW h \in Hypothesis, Ask(h) PROVE Asks(h)
  OBVIOUS
<1>0. GateTypeOK /\ PlanTyped /\ Stages /\ Held
  BY TypeParts DEF StageInv
<1>1. pc = "asking" /\ h \in todo /\ decisions[h] = None /\ status[h] = "proposta"
  BY <1>0 DEF Ask, Asking, Held
<1>2. \A r \in Rows \ consumed : about[r] # h
  BY <1>0, GateAssumption DEF Ask, Unconsumed, Chain, Ordered, GateTypeOK
<1>3. ASSUME Insert(session, h)
      PROVE  /\ Rows' = Rows \union {asked'} /\ asked' \in Row \ Rows
             /\ \A r \in Rows : r < asked'
             /\ of'[asked'] = session /\ about'[asked'] = h
             /\ \A r \in Rows : of'[r] = of[r] /\ about'[r] = about[r]
             /\ UNCHANGED <<estado, consumed>>
  BY <1>0, <1>3, GateAssumption DEF Insert, Rows, Row, GateTypeOK
<1> QED BY <1>1, <1>2, <1>3 DEF Ask, Asks, Awaits

Answers(r) ==
  /\ estado[r] = "pendente" /\ r \notin consumed /\ r \in Row
  /\ estado'[r] \in {"autorizada", "negada"}
  /\ \A x \in Row \ {r} : estado'[x] = estado[x]
  /\ UNCHANGED <<asked, of, about, consumed, hypVars, session, pc, todo, planVars, moveVars,
                 waitVars, tornVars>>

\* Only a pending row is answered, once.
LEMMA AnswerFacts == ASSUME StageInv PROVE \A r \in Rows : Researcher(r) => Answers(r)
<1> SUFFICES ASSUME NEW r \in Rows, Researcher(r) PROVE Answers(r)
  OBVIOUS
<1>0. GateTypeOK
  BY TypeParts DEF StageInv
<1> QED BY <1>0, GateAssumption DEF Researcher, Answer, Answers, Rows, Row, GateTypeOK

\* A request is asked only when no other is of use.
LEMMA OrderedStep == ASSUME GateInv, [Next]_vars PROVE Ordered'
<1>0. \A h \in Hypothesis : TakeAnswer(h) => \E r \in Row : Takes(h, r)
  BY TakenIsThere DEF GateInv
<1>a. GateTypeOK /\ PlanTyped /\ Ordered
  BY TypeParts DEF StageInv, GateInv
<1>x. Indexed
  BY IndexFacts DEF GateInv
<1>k. \A h \in Hypothesis : Ask(h) => Asks(h)
  BY AskFacts DEF GateInv
<1>r. \A r \in Rows : Researcher(r) => Answers(r)
  BY AnswerFacts DEF GateInv
<1> USE <1>a, GateAssumption, HypothesisAssumption DEF GateTypeOK, PlanTyped, Ordered, gateVars,
      Row, Rows, Newest, Goto
<1>1. CASE Begin
  <2>1. session \in Nat /\ \A r \in Rows : of[r] \in Nat
    BY <1>x DEF Indexed
  <2>2. session' = session + 1 /\ UNCHANGED <<asked, of, about, estado, consumed>>
    BY <1>1 DEF Begin
  <2>3. \A r \in Rows : of[r] <= session'
    BY <2>1, <2>2
  <2> QED BY <2>2, <2>3
<1>2. ASSUME NEW h \in Hypothesis, Ask(h) PROVE Ordered'
  BY SMTT(30), <1>2, <1>k DEF Asks
<1>3. ASSUME NEW h \in Hypothesis, NEW r \in Row, Takes(h, r) PROVE Ordered'
  BY <1>3 DEF Takes
<1>4. ASSUME NEW r \in Rows, Researcher(r) PROVE Ordered'
  BY <1>4, <1>r DEF Answers
<1>5. ASSUME UNCHANGED <<gateVars, session>> PROVE Ordered'
  BY <1>5
<1>6. CASE Stop \/ Plan \/ Resolve \/ Select \/ ApproverFails \/ Approved
  BY <1>6, <1>5 DEF Stop, Plan, Resolve, Select, ApproverFails, Approved
<1>7. CASE Prepared \/ Wake \/ EndCycle \/ ReviewOpportunity \/ ReviewDecision \/
          EvaluationFails \/ EvaluateDecisions
  BY <1>7, <1>5 DEF Prepared, Wake, EndCycle, ReviewOpportunity, ReviewDecision,
        EvaluationFails, EvaluateDecisions
<1>8. ASSUME NEW h \in Hypothesis, Withdraw(h) \/ StillPending(h) \/ Reject(h) \/ Approve(h) \/
         Test(h) \/ SyncStatus(h)
      PROVE Ordered'
  BY <1>8, <1>5 DEF Withdraw, StillPending, Reject, Approve, Test, SyncStatus, Awaits
<1>9. CASE UNCHANGED vars
  BY <1>9, <1>5 DEF vars
<1> QED BY <1>0, <1>1, <1>2, <1>3, <1>4, <1>6, <1>7, <1>8, <1>9 DEF Next, Preparation

\* An authorization stays one.
LEMMA GrantedStay == ASSUME GateInv, [Next]_vars PROVE Granted \subseteq Granted'
<1>0. \A h \in Hypothesis : TakeAnswer(h) => \E r \in Row : Takes(h, r)
  BY TakenIsThere DEF GateInv
<1>a. GateTypeOK /\ PlanTyped
  BY TypeParts DEF StageInv, GateInv
<1>x. Indexed
  BY IndexFacts DEF GateInv
<1>k. \A h \in Hypothesis : Ask(h) => Asks(h)
  BY AskFacts DEF GateInv
<1>r. \A r \in Rows : Researcher(r) => Answers(r)
  BY AnswerFacts DEF GateInv
<1> USE <1>a, GateAssumption, HypothesisAssumption DEF GateTypeOK, PlanTyped, gateVars, Rows,
      WasAuthorized, Chain, Granted, Goto
<1>1. CASE Begin
  <2>1. session \in Nat /\ Session \subseteq Nat
    BY <1>x DEF Indexed
  <2>2. session' = session + 1 /\ UNCHANGED <<asked, of, about, estado, consumed>>
    BY <1>1 DEF Begin
  <2>3. \A s \in Session : s <= session => s <= session'
    BY <2>1, <2>2
  <2> QED BY <2>2, <2>3
<1>2. ASSUME NEW h \in Hypothesis, Ask(h) PROVE Granted \subseteq Granted'
  BY <1>2, <1>k DEF Asks
<1>3. ASSUME NEW h \in Hypothesis, NEW r \in Row, Takes(h, r) PROVE Granted \subseteq Granted'
  BY <1>3 DEF Takes
<1>4. ASSUME NEW r \in Rows, Researcher(r) PROVE Granted \subseteq Granted'
  BY <1>4, <1>r, <1>x DEF Answers, planVars, Indexed
<1>5. ASSUME UNCHANGED <<gateVars, session>> PROVE Granted \subseteq Granted'
  BY <1>5
<1>6. CASE Stop \/ Plan \/ Resolve \/ Select \/ ApproverFails \/ Approved
  BY <1>6, <1>5 DEF Stop, Plan, Resolve, Select, ApproverFails, Approved
<1>7. CASE Prepared \/ Wake \/ EndCycle \/ ReviewOpportunity \/ ReviewDecision \/
          EvaluationFails \/ EvaluateDecisions
  BY <1>7, <1>5 DEF Prepared, Wake, EndCycle, ReviewOpportunity, ReviewDecision,
        EvaluationFails, EvaluateDecisions
<1>8. ASSUME NEW h \in Hypothesis, Withdraw(h) \/ StillPending(h) \/ Reject(h) \/ Approve(h) \/
         Test(h) \/ SyncStatus(h)
      PROVE Granted \subseteq Granted'
  BY <1>8, <1>5 DEF Withdraw, StillPending, Reject, Approve, Test, SyncStatus, Awaits
<1>9. CASE UNCHANGED vars
  BY <1>9, <1>5 DEF vars
<1> QED BY <1>0, <1>1, <1>2, <1>3, <1>4, <1>6, <1>7, <1>8, <1>9 DEF Next, Preparation

\* What is tested was authorized.
LEMMA AuthorizedStep == ASSUME GateInv, [Next]_vars PROVE Authorized'
<1>0. \A h \in Hypothesis : TakeAnswer(h) => \E r \in Row : Takes(h, r)
  BY TakenIsThere DEF GateInv
<1>p. Prepared => PreparedDoes
  BY PreparedFacts DEF GateInv
<1>e. EndCycle => EndCycleDoes
  BY EndCycleFacts DEF GateInv
<1>s. \A h \in Hypothesis : SyncStatus(h) => SyncStatusDoes(h)
  BY SyncStatusFacts DEF GateInv
<1>a. HypothesesTyped /\ PlanTyped /\ Authorized
  BY TypeParts DEF StageInv, GateInv
<1>x. Indexed
  BY IndexFacts DEF GateInv
<1>k. \A h \in Hypothesis : Ask(h) => Asks(h)
  BY AskFacts DEF GateInv
<1>r. \A r \in Rows : Researcher(r) => Answers(r)
  BY AnswerFacts DEF GateInv
<1>m. Granted \subseteq Granted'
  BY GrantedStay
<1>g. GateTypeOK /\ Ordered
  BY TypeParts DEF StageInv, GateInv
<1>t. Tries
  BY DEF StageInv, GateInv
<1> USE <1>a, GateAssumption, HypothesisAssumption DEF HypothesesTyped, PlanTyped, Authorized,
      hypVars, planVars, Tested, Concluded, None, Goto
<1>1. CASE Begin
  BY <1>1, <1>m DEF Begin
<1>2. CASE Stop
  BY <1>2, <1>m DEF Stop
<1>3. CASE Resolve
  <2>1. \A h \in Hypothesis : status'[h] \in Tested => status[h] \in Tested \/ WasAuthorized(h, {session - 1, session})
    BY <1>3 DEF Resolve, ToReopen, Reopened
  <2>2. \A h \in Hypothesis : WasAuthorized(h, {session - 1, session}) => h \in Granted
    BY <1>g DEF WasAuthorized, Granted, Chain, Ordered, GateTypeOK
  <2> QED BY <1>3, <1>m, <2>1, <2>2 DEF Resolve
<1>4. CASE ApproverFails
  BY <1>4, <1>m DEF ApproverFails
<1>5. ASSUME NEW h \in Hypothesis, Withdraw(h) PROVE Authorized'
  BY <1>5, <1>m DEF Withdraw
<1>6. ASSUME NEW h \in Hypothesis, Ask(h) PROVE Authorized'
  BY <1>6, <1>k, <1>m DEF Asks
<1>7. ASSUME NEW h \in Hypothesis, NEW r \in Row, Takes(h, r) PROVE Authorized'
  <2>1. estado[r] = "autorizada" => h \in Granted
    BY <1>7, <1>g DEF Takes, WasAuthorized, Granted, Chain, Ordered, GateTypeOK
  <2>2. decisions'[h] = estado[r] /\ \A g \in Hypothesis \ {h} : decisions'[g] = decisions[g]
    BY <1>7 DEF Takes
  <2>3. status' = status
    BY <1>7 DEF Takes
  <2> QED BY <1>m, <2>1, <2>2, <2>3
<1>8. ASSUME NEW h \in Hypothesis, Reject(h) PROVE Authorized'
  BY <1>8, <1>m DEF Reject
<1>9. ASSUME NEW h \in Hypothesis, Approve(h) PROVE Authorized'
  BY <1>9, <1>m DEF Approve
<1>10. CASE Prepared
  BY <1>10, <1>m, <1>p DEF PreparedDoes, Abandons
<1>11. CASE EndCycle
  BY <1>11, <1>m, <1>e DEF EndCycleDoes, Abandons
<1>12. ASSUME NEW h \in Hypothesis, SyncStatus(h) PROVE Authorized'
  <2>1. \A g \in Hypothesis : status'[g] \in Tested => status[g] \in Tested
    <3>1. status[h] = "proposta" => h \notin tried
      BY <1>t DEF Tries
    <3>2. status'[h] \in Tested => status[h] \in Tested
      BY <1>12, <1>s, <3>1 DEF SyncStatusDoes, OpenStatuses
    <3>3. \A g \in Hypothesis \ {h} : status'[g] = status[g]
      BY ZenonT(40), <1>12, <1>s DEF SyncStatusDoes
    <3> QED BY <3>2, <3>3
  <2> QED BY <1>12, <1>m, <1>s, <2>1 DEF SyncStatusDoes
<1>13. ASSUME NEW r \in Rows, Researcher(r) PROVE Authorized'
  BY <1>13, <1>r, <1>m DEF Answers
<1>14. ASSUME UNCHANGED <<status, decisions>> PROVE Authorized'
  BY <1>14, <1>m
<1>15. CASE Plan \/ Select \/ Approved
  BY <1>15, <1>14 DEF Plan, Select, Approved
<1>16. CASE Wake \/ ReviewOpportunity \/ ReviewDecision \/ EvaluationFails \/ EvaluateDecisions
  BY <1>16, <1>14 DEF Wake, ReviewOpportunity, ReviewDecision, EvaluationFails,
        EvaluateDecisions
<1>17. ASSUME NEW h \in Hypothesis, StillPending(h) \/ Test(h)
      PROVE Authorized'
  BY <1>17, <1>14 DEF StillPending, Test, Awaits
<1>18. CASE UNCHANGED vars
  BY <1>18, <1>14 DEF vars, gateVars
<1> QED BY <1>0, <1>1, <1>2, <1>3, <1>4, <1>5, <1>6, <1>7, <1>8, <1>9, <1>10, <1>11, <1>12,
        <1>13, <1>15, <1>16, <1>17, <1>18 DEF Next, Preparation

\* A yes remains the last word until the hypothesis is asked about again.
LEMMA YesLastStays == ASSUME GateInv, [Next]_vars PROVE \A g \in YesLast : g \in YesLast' \/ (status[g] = "proposta" /\ decisions[g] = None)
<1>0. \A h \in Hypothesis : TakeAnswer(h) => \E r \in Row : Takes(h, r)
  BY TakenIsThere DEF GateInv
<1>a. GateTypeOK
  BY TypeParts DEF StageInv, GateInv
<1>x. Indexed
  BY IndexFacts DEF GateInv
<1>k. \A h \in Hypothesis : Ask(h) => Asks(h)
  BY AskFacts DEF GateInv
<1>r. \A r \in Rows : Researcher(r) => Answers(r)
  BY AnswerFacts DEF GateInv
<1> USE <1>a, GateAssumption, HypothesisAssumption DEF GateTypeOK, gateVars, Rows, Newest,
      YesLast, Goto
<1>1. ASSUME NEW h \in Hypothesis, Ask(h) PROVE \A g \in YesLast : g \in YesLast' \/ (status[g] = "proposta" /\ decisions[g] = None)
  <2>1. CASE UNCHANGED gateVars
    BY <2>1
  <2>2. ASSUME NEW g \in YesLast, g # h, ~UNCHANGED gateVars PROVE g \in YesLast'
    BY <1>1, <2>2, <1>k DEF Asks
  <2> QED BY <1>1, <2>1, <2>2, <1>k DEF Asks
<1>2. ASSUME NEW h \in Hypothesis, NEW r \in Row, Takes(h, r) PROVE \A g \in YesLast : g \in YesLast' \/ (status[g] = "proposta" /\ decisions[g] = None)
  BY <1>2 DEF Takes
<1>3. ASSUME NEW r \in Rows, Researcher(r) PROVE \A g \in YesLast : g \in YesLast' \/ (status[g] = "proposta" /\ decisions[g] = None)
  BY <1>3, <1>r, <1>x DEF Answers, Indexed
<1>4. ASSUME UNCHANGED <<asked, about, estado>> PROVE \A g \in YesLast : g \in YesLast' \/ (status[g] = "proposta" /\ decisions[g] = None)
  BY <1>4
<1>5. CASE Begin \/ Stop \/ Plan \/ Resolve \/ Select \/ ApproverFails \/ Approved
  BY <1>5, <1>4 DEF Begin, Stop, Plan, Resolve, Select, ApproverFails, Approved
<1>6. CASE Prepared \/ Wake \/ EndCycle \/ ReviewOpportunity \/ ReviewDecision \/
          EvaluationFails \/ EvaluateDecisions
  BY <1>6, <1>4 DEF Prepared, Wake, EndCycle, ReviewOpportunity, ReviewDecision,
        EvaluationFails, EvaluateDecisions
<1>7. ASSUME NEW h \in Hypothesis, Withdraw(h) \/ StillPending(h) \/ Reject(h) \/ Approve(h) \/
         Test(h) \/ SyncStatus(h)
      PROVE \A g \in YesLast : g \in YesLast' \/ (status[g] = "proposta" /\ decisions[g] = None)
  BY <1>7, <1>4 DEF Withdraw, StillPending, Reject, Approve, Test, SyncStatus, Awaits
<1>8. CASE UNCHANGED vars
  BY <1>8, <1>4 DEF vars
<1> QED BY <1>0, <1>1, <1>2, <1>3, <1>5, <1>6, <1>7, <1>8 DEF Next, Preparation

\* What is tested was authorized with the last word.
LEMMA HeededStep == ASSUME GateInv, [Next]_vars PROVE Heeded'
<1>0. \A h \in Hypothesis : TakeAnswer(h) => \E r \in Row : Takes(h, r)
  BY TakenIsThere DEF GateInv
<1>p. Prepared => PreparedDoes
  BY PreparedFacts DEF GateInv
<1>e. EndCycle => EndCycleDoes
  BY EndCycleFacts DEF GateInv
<1>s. \A h \in Hypothesis : SyncStatus(h) => SyncStatusDoes(h)
  BY SyncStatusFacts DEF GateInv
<1>a. HypothesesTyped /\ PlanTyped /\ Heeded
  BY TypeParts DEF StageInv, GateInv
<1>x. Indexed
  BY IndexFacts DEF GateInv
<1>k. \A h \in Hypothesis : Ask(h) => Asks(h)
  BY AskFacts DEF GateInv
<1>r. \A r \in Rows : Researcher(r) => Answers(r)
  BY AnswerFacts DEF GateInv
<1>y. \A g \in YesLast : g \in YesLast' \/ (status[g] = "proposta" /\ decisions[g] = None)
  BY YesLastStays
<1>g. GateTypeOK /\ Ordered /\ PlanTyped
  BY TypeParts DEF StageInv, GateInv
<1>t. Tries /\ Held /\ Fresh
  BY DEF StageInv, GateInv
<1> USE <1>a, GateAssumption, HypothesisAssumption DEF HypothesesTyped, PlanTyped, Heeded,
      hypVars, planVars, waitVars, tornVars, Tested, Concluded, None, Goto
<1>1. CASE Begin
  BY <1>1, <1>y DEF Begin
<1>2. CASE Stop
  BY <1>2, <1>y DEF Stop
<1>3. CASE Resolve
  <2>1. \A h \in Hypothesis : status'[h] \in Tested => status[h] \in Tested \/ WasAuthorized(h, {session - 1, session})
    BY <1>3 DEF Resolve, ToReopen, Reopened
  <2>2. \A h \in Hypothesis \ lost : WasAuthorized(h, {session - 1, session}) => h \in YesLast
    BY <1>t DEF WasAuthorized, YesLast, Fresh, Recent, Latest
  <2>3. \A h \in YesLast : h \in YesLast'
    BY <1>3 DEF Resolve, YesLast, Newest, gateVars, Rows
  <2> QED BY <1>3, <2>1, <2>2, <2>3 DEF Resolve
<1>4. CASE ApproverFails
  BY <1>4, <1>y DEF ApproverFails
<1>5. ASSUME NEW h \in Hypothesis, Withdraw(h) PROVE Heeded'
  BY <1>5, <1>y DEF Withdraw
<1>6. ASSUME NEW h \in Hypothesis, Ask(h) PROVE Heeded'
  BY <1>6, <1>k, <1>y DEF Asks
<1>7. ASSUME NEW h \in Hypothesis, NEW r \in Row, Takes(h, r) PROVE Heeded'
  <2>1. estado[r] = "autorizada" => h \in YesLast
    BY <1>7, <1>g DEF Takes, YesLast, Ordered
  <2>2. decisions'[h] = estado[r] /\ \A g \in Hypothesis \ {h} : decisions'[g] = decisions[g]
    BY <1>7 DEF Takes
  <2>3. UNCHANGED <<status, lost>> /\ \A g \in YesLast : g \in YesLast'
    BY <1>7 DEF Takes, YesLast, Newest, Rows
  <2> QED BY ZenonT(40), <2>1, <2>2, <2>3
<1>8. ASSUME NEW h \in Hypothesis, Reject(h) PROVE Heeded'
  BY <1>8, <1>y DEF Reject
<1>9. ASSUME NEW h \in Hypothesis, Approve(h) PROVE Heeded'
  BY <1>9, <1>y DEF Approve
<1>10. CASE Prepared
  BY <1>10, <1>y, <1>p DEF PreparedDoes, Abandons
<1>11. CASE EndCycle
  BY <1>11, <1>y, <1>e DEF EndCycleDoes, Abandons
<1>12. ASSUME NEW h \in Hypothesis, SyncStatus(h) PROVE Heeded'
  <2>1. \A g \in Hypothesis : status'[g] \in Tested => status[g] \in Tested
    <3>1. status[h] = "proposta" => h \notin tried
      BY <1>t DEF Tries
    <3>2. status'[h] \in Tested => status[h] \in Tested
      BY <1>12, <1>s, <3>1 DEF SyncStatusDoes, OpenStatuses
    <3>3. \A g \in Hypothesis \ {h} : status'[g] = status[g]
      BY ZenonT(40), <1>12, <1>s DEF SyncStatusDoes
    <3> QED BY <3>2, <3>3

  <2> QED BY <1>12, <1>y, <1>s, <2>1 DEF SyncStatusDoes
<1>13. ASSUME NEW r \in Rows, Researcher(r) PROVE Heeded'
  BY <1>13, <1>r, <1>y DEF Answers
<1>14. ASSUME UNCHANGED <<status, decisions, lost>> PROVE Heeded'
  BY <1>14, <1>y
<1>15. CASE Plan \/ Select \/ Approved
  BY <1>15, <1>14 DEF Plan, Select, Approved
<1>16. CASE Wake \/ ReviewOpportunity \/ ReviewDecision \/ EvaluationFails \/ EvaluateDecisions
  BY <1>16, <1>14 DEF Wake, ReviewOpportunity, ReviewDecision, EvaluationFails,
        EvaluateDecisions
<1>17. ASSUME NEW h \in Hypothesis, StillPending(h) \/ Test(h)
      PROVE Heeded'
  BY <1>17, <1>14 DEF StillPending, Test, Awaits
<1>18. CASE UNCHANGED vars
  BY <1>18, <1>14 DEF vars, gateVars
<1> QED BY <1>0, <1>1, <1>2, <1>3, <1>4, <1>5, <1>6, <1>7, <1>8, <1>9, <1>10, <1>11, <1>12,
        <1>13, <1>15, <1>16, <1>17, <1>18 DEF Next, Preparation

\* Only proposals are asked about.
LEMMA UntoldStep == ASSUME GateInv, [Next]_vars PROVE Untold'
<1>0. \A h \in Hypothesis : TakeAnswer(h) => \E r \in Row : Takes(h, r)
  BY TakenIsThere DEF GateInv
<1>p. Prepared => PreparedDoes
  BY PreparedFacts DEF GateInv
<1>e. EndCycle => EndCycleDoes
  BY EndCycleFacts DEF GateInv
<1>a. HypothesesTyped /\ Untold
  BY TypeParts DEF StageInv, GateInv
<1>x. Indexed
  BY IndexFacts DEF GateInv
<1>k. \A h \in Hypothesis : Ask(h) => Asks(h)
  BY AskFacts DEF GateInv
<1>r. \A r \in Rows : Researcher(r) => Answers(r)
  BY AnswerFacts DEF GateInv
<1>y. \A g \in YesLast : g \in YesLast' \/ (status[g] = "proposta" /\ decisions[g] = None)
  BY YesLastStays
<1>g. GateTypeOK /\ Ordered /\ PlanTyped
  BY TypeParts DEF StageInv, GateInv
<1>t. Tries /\ Held /\ Fresh
  BY DEF StageInv, GateInv
<1> USE <1>a, GateAssumption, HypothesisAssumption DEF HypothesesTyped, Untold, hypVars,
      gateVars, Rows, Goto
<1>1. CASE Resolve
  BY <1>1 DEF Resolve
<1>2. ASSUME NEW h \in Hypothesis, Withdraw(h) PROVE Untold'
  BY <1>2 DEF Withdraw
<1>3. ASSUME NEW h \in Hypothesis, Ask(h) PROVE Untold'
  <2>1. by[h] = "" /\ by' = by
    BY <1>3, <1>k DEF Asks
  <2>2. \A r \in Rows' : about'[r] = h \/ (r \in Rows /\ about'[r] = about[r])
    <3>1. CASE UNCHANGED gateVars
      BY <3>1
    <3>2. CASE ~UNCHANGED gateVars
      <4>1. Rows' = Rows \union {asked'} /\ about'[asked'] = h
            /\ \A r \in Rows : about'[r] = about[r]
        BY <1>3, <3>2, <1>k DEF Asks
      <4> HIDE DEF Rows
      <4> QED BY <4>1
    <3> QED BY <3>1, <3>2
  <2> QED BY <2>1, <2>2
<1>4. ASSUME NEW h \in Hypothesis, NEW r \in Row, Takes(h, r) PROVE Untold'
  BY <1>4 DEF Takes
<1>5. ASSUME NEW h \in Hypothesis, Reject(h) PROVE Untold'
  BY <1>5 DEF Reject
<1>6. ASSUME NEW h \in Hypothesis, Approve(h) PROVE Untold'
  BY <1>6 DEF Approve
<1>7. CASE Prepared
  <2>1. UNCHANGED <<asked, about>>
    BY <1>7, <1>p DEF PreparedDoes
  <2>2. \A h \in Hypothesis : by'[h] = "agente" => by[h] = "agente"
    BY <1>7, <1>p DEF PreparedDoes, Abandons
  <2> QED BY <2>1, <2>2
<1>8. CASE EndCycle
  <2>1. UNCHANGED <<asked, about>>
    BY <1>8, <1>e DEF EndCycleDoes
  <2>2. \A h \in Hypothesis : by'[h] = "agente" => by[h] = "agente"
    BY <1>8, <1>e DEF EndCycleDoes, Abandons
  <2> QED BY <2>1, <2>2
<1>9. ASSUME NEW r \in Rows, Researcher(r) PROVE Untold'
  BY ZenonT(40), <1>9, <1>r DEF Answers
<1>10. ASSUME UNCHANGED <<asked, about, by>> PROVE Untold'
  BY <1>10
<1>11. CASE Begin \/ Stop \/ Plan \/ Select \/ ApproverFails \/ Approved
  BY <1>11, <1>10 DEF Begin, Stop, Plan, Select, ApproverFails, Approved
<1>12. CASE Wake \/ ReviewOpportunity \/ ReviewDecision \/ EvaluationFails \/ EvaluateDecisions
  BY <1>12, <1>10 DEF Wake, ReviewOpportunity, ReviewDecision, EvaluationFails,
        EvaluateDecisions
<1>13. ASSUME NEW h \in Hypothesis, StillPending(h) \/ Test(h) \/ SyncStatus(h)
      PROVE Untold'
  BY <1>13, <1>10 DEF StillPending, Test, SyncStatus, Awaits
<1>14. CASE UNCHANGED vars
  BY <1>14, <1>10 DEF vars
<1> QED BY <1>0, <1>1, <1>2, <1>3, <1>4, <1>5, <1>6, <1>7, <1>8, <1>9, <1>11, <1>12, <1>13,
        <1>14 DEF Next, Preparation

\* A request disturbs only what is the latest about its hypothesis.
LEMMA AskKeeps ==
  ASSUME StageInv, Ordered, NEW h \in Hypothesis, Asks(h)
  PROVE  /\ UNCHANGED consumed /\ Recent' = Recent /\ Denied' = Denied
         /\ Rows \subseteq Rows'
         /\ \A r \in Rows : about'[r] = about[r]
         /\ \A r \in Latest : about[r] # h => r \in Latest'
<1>0. GateTypeOK
  BY TypeParts DEF StageInv
<1>1. CASE UNCHANGED gateVars
  BY <1>1 DEF Asks, gateVars, Recent, Denied, Latest, Newest, Rows
<1>2. CASE ~UNCHANGED gateVars
  <2>1. /\ Rows' = Rows \union {asked'} /\ asked' \in Row \ Rows
        /\ of'[asked'] = session /\ about'[asked'] = h
        /\ \A r \in Rows : of'[r] = of[r] /\ about'[r] = about[r]
        /\ UNCHANGED <<estado, consumed, session>>
    BY <1>2 DEF Asks
  <2>2. estado[asked'] = "pendente"
    BY <2>1 DEF Ordered
  <2>3. Recent' = Recent
    BY <2>1, <2>2 DEF Recent
  <2>4. Denied' = Denied
    BY <2>1 DEF Denied
  <2>5. \A r \in Latest : about[r] # h => r \in Latest'
    BY <2>1 DEF Latest, Newest
  <2> QED BY <2>1, <2>3, <2>4, <2>5
<1> QED BY <1>1, <1>2

\* A used authorization is too old for a reopening to find it.
LEMMA FreshStep == ASSUME GateInv, [Next]_vars PROVE Fresh'
<1>0. \A h \in Hypothesis : TakeAnswer(h) => \E r \in Row : Takes(h, r)
  BY TakenIsThere DEF GateInv
<1>p. Prepared => PreparedDoes
  BY PreparedFacts DEF GateInv
<1>e. EndCycle => EndCycleDoes
  BY EndCycleFacts DEF GateInv
<1>s. \A h \in Hypothesis : SyncStatus(h) => SyncStatusDoes(h)
  BY SyncStatusFacts DEF GateInv
<1>a. HypothesesTyped /\ PlanTyped /\ Fresh
  BY TypeParts DEF StageInv, GateInv
<1>x. Indexed
  BY IndexFacts DEF GateInv
<1>k. \A h \in Hypothesis : Ask(h) => Asks(h)
  BY AskFacts DEF GateInv
<1>r. \A r \in Rows : Researcher(r) => Answers(r)
  BY AnswerFacts DEF GateInv
<1>y. \A g \in YesLast : g \in YesLast' \/ (status[g] = "proposta" /\ decisions[g] = None)
  BY YesLastStays
<1>g. GateTypeOK /\ Ordered /\ PlanTyped
  BY TypeParts DEF StageInv, GateInv
<1>t. Tries /\ Held /\ Untold
  BY DEF StageInv, GateInv
<1>f. UNCHANGED gateVars => UNCHANGED <<about, consumed, Latest, Denied, Rows>>
  BY DEF gateVars, Latest, Denied, Newest, Rows
<1>c. UNCHANGED <<gateVars, session>> => UNCHANGED Recent
  BY DEF gateVars, Recent, Rows
<1>q. Latest \subseteq Rows /\ Recent \subseteq Rows /\ Denied \subseteq consumed /\ consumed \subseteq Rows
  BY <1>g DEF Latest, Recent, Denied, GateTypeOK
<1> USE <1>a, GateAssumption, HypothesisAssumption DEF HypothesesTyped, PlanTyped, Fresh,
      hypVars, planVars, waitVars, tornVars, None, Goto
<1>1. CASE Begin
  <2>1. \A r \in Rows : of[r] <= session /\ of[r] \in Nat /\ session \in Nat
    BY <1>g, <1>x DEF Ordered, Indexed
  <2>2. session' = session + 1 /\ UNCHANGED <<gateVars, status, decisions, lost>>
    BY <1>1 DEF Begin
  <2>3. \A r \in Rows : of[r] \in {session' - 1, session'} => of[r] \in {session - 1, session}
    <3> HIDE DEF Fresh, HypothesesTyped, PlanTyped
    <3>1. session' - 1 = session /\ session' > session
      BY <2>1, <2>2, <1>x DEF Indexed
    <3> QED BY <2>1, <3>1
  <2>4. Recent' \subseteq Recent
    BY <2>2, <2>3 DEF Recent, gateVars, Rows
  <2> QED BY <2>2, <2>4, <1>f
<1>2. CASE Stop
  BY <1>2, <1>f, <1>c, <1>q DEF Stop
<1>3. CASE Resolve
  <2>1. UNCHANGED <<gateVars, session, decisions, lost>>
    BY <1>3 DEF Resolve
  <2>2. \A h \in Hypothesis : status'[h] = "proposta" /\ status[h] # "proposta" =>
          \A r \in Recent : about[r] # h
    <3>1. SUFFICES ASSUME NEW h \in Hypothesis, status'[h] = "proposta", status[h] # "proposta"
                   PROVE \A r \in Recent : about[r] # h
      OBVIOUS
    <3>2. h \in ToReopen /\ Reopened(h) = "proposta"
      BY <1>3, <3>1 DEF Resolve
    <3>3. CASE by[h] = "sistema"
      BY <3>2, <3>3 DEF Reopened, WasAuthorized, Recent
    <3>4. CASE by[h] = "agente"
      BY <3>4, <1>t, <1>q DEF Untold
    <3> QED BY <3>2, <3>3, <3>4 DEF ToReopen, Authors
  <2> QED BY ZenonT(40), <2>1, <2>2, <1>f, <1>c
<1>4. CASE ApproverFails
  BY <1>4, <1>f, <1>c, <1>q DEF ApproverFails
<1>5. ASSUME NEW h \in Hypothesis, Withdraw(h) PROVE Fresh'
  BY <1>5, <1>f, <1>c, <1>q DEF Withdraw
<1>6. ASSUME NEW h \in Hypothesis, Ask(h) PROVE Fresh'
  <2>1. Asks(h)
    BY <1>6, <1>k
  <2>2. h \notin lost => \A r \in Recent : about[r] # h
    BY <2>1, <1>q DEF Asks
  <2>3. /\ UNCHANGED consumed /\ Recent' = Recent
        /\ \A r \in Rows : about'[r] = about[r]
        /\ \A r \in Latest : about[r] # h => r \in Latest'
    BY <2>1, <1>g, AskKeeps DEF GateInv
  <2>4. UNCHANGED <<status, decisions, lost>>
    BY <2>1 DEF Asks
  <2> SUFFICES ASSUME NEW g \in Hypothesis \ lost', NEW x \in Recent', about'[x] = g
               PROVE  /\ x \in Latest'
                      /\ status'[g] = "proposta" /\ decisions'[g] # "autorizada" => x \notin consumed'
    BY DEF Fresh
  <2>5. x \in Recent /\ x \in Rows /\ about[x] = g /\ g # h /\ g \in Hypothesis \ lost
    BY <2>2, <2>3, <2>4, <1>q
  <2> QED BY <2>3, <2>4, <2>5
<1>7. ASSUME NEW h \in Hypothesis, NEW r \in Row, Takes(h, r) PROVE Fresh'
  <2>1. UNCHANGED <<status, lost, about>> /\ Recent' = Recent /\ Latest' = Latest
    BY <1>7 DEF Takes, Recent, Latest, Newest, Rows
  <2>2. decisions'[h] = estado[r] /\ \A g \in Hypothesis \ {h} : decisions'[g] = decisions[g]
    BY <1>7 DEF Takes
  <2>3. status[h] = "proposta" /\ decisions[h] = None
    BY <1>7, <1>t DEF Takes, Held
  <2>4. about[r] = h /\ consumed' = consumed \union {r} /\ (r \in Recent => estado[r] = "autorizada")
    BY <1>7 DEF Takes, Recent
  <2> SUFFICES ASSUME NEW g \in Hypothesis \ lost', NEW x \in Recent', about'[x] = g
               PROVE  /\ x \in Latest'
                      /\ status'[g] = "proposta" /\ decisions'[g] # "autorizada" => x \notin consumed'
    BY DEF Fresh
  <2>5. x \in Recent /\ about[x] = g /\ g \in Hypothesis \ lost /\ x \in Latest
    BY <2>1
  <2>6. CASE g = h /\ x = r
    BY <2>2, <2>4, <2>5, <2>6, <2>1
  <2>7. CASE x # r
    BY ZenonT(40), <2>1, <2>2, <2>3, <2>4, <2>5, <2>7
  <2> QED BY <2>4, <2>5, <2>6, <2>7
<1>8. ASSUME NEW h \in Hypothesis, Reject(h) PROVE Fresh'
  BY <1>8, <1>f, <1>c, <1>q DEF Reject
<1>9. ASSUME NEW h \in Hypothesis, Approve(h) PROVE Fresh'
  BY <1>9, <1>f, <1>c, <1>q DEF Approve
<1>10. CASE Prepared
  BY <1>10, <1>f, <1>c, <1>q, <1>p DEF PreparedDoes, Abandons
<1>11. CASE EndCycle
  BY <1>11, <1>f, <1>c, <1>q, <1>e DEF EndCycleDoes, Abandons
<1>12. ASSUME NEW h \in Hypothesis, SyncStatus(h) PROVE Fresh'
  <2>1. \A g \in Hypothesis : status'[g] = "proposta" => status[g] = "proposta"
    BY ZenonT(40), <1>12, <1>s DEF SyncStatusDoes, Tested, Concluded
  <2> QED BY <1>12, <1>s, <2>1, <1>f, <1>c DEF SyncStatusDoes
<1>13. ASSUME NEW r \in Rows, Researcher(r) PROVE Fresh'
  <2>1. UNCHANGED <<status, decisions, lost, about, consumed, asked>>
    BY <1>13, <1>r DEF Answers
  <2>0. Latest' = Latest
    BY <2>1 DEF Latest, Newest, Rows
  <2>2. r \in Latest /\ r \notin consumed
    BY <1>13, <1>r, <1>g DEF Answers, Ordered, Latest
  <2>3. Recent' \subseteq Recent \union {r}
    BY <1>13, <1>r, <1>x DEF Answers, Recent, Rows, Indexed
  <2> QED BY ZenonT(40), <2>0, <2>1, <2>2, <2>3
<1>14. ASSUME UNCHANGED <<gateVars, session, status, decisions, lost>> PROVE Fresh'
  BY <1>14, <1>f, <1>c, <1>q
<1>15. CASE Plan \/ Select \/ Approved
  BY <1>15, <1>14 DEF Plan, Select, Approved
<1>16. CASE Wake \/ ReviewOpportunity \/ ReviewDecision \/ EvaluationFails \/ EvaluateDecisions
  BY <1>16, <1>14 DEF Wake, ReviewOpportunity, ReviewDecision, EvaluationFails,
        EvaluateDecisions
<1>17. ASSUME NEW h \in Hypothesis, StillPending(h) \/ Test(h)
      PROVE Fresh'
  BY <1>17, <1>14 DEF StillPending, Test, Awaits
<1>18. CASE UNCHANGED vars
  BY <1>18, <1>14 DEF vars, gateVars
<1> QED BY <1>0, <1>1, <1>2, <1>3, <1>4, <1>5, <1>6, <1>7, <1>8, <1>9, <1>10, <1>11, <1>12,
        <1>13, <1>15, <1>16, <1>17, <1>18 DEF Next, Preparation

\* A denial that is used is written, and nothing is asked after it.
LEMMA FinalStep == ASSUME GateInv, [Next]_vars PROVE Final'
<1>0. \A h \in Hypothesis : TakeAnswer(h) => \E r \in Row : Takes(h, r)
  BY TakenIsThere DEF GateInv
<1>p. Prepared => PreparedDoes
  BY PreparedFacts DEF GateInv
<1>e. EndCycle => EndCycleDoes
  BY EndCycleFacts DEF GateInv
<1>a. HypothesesTyped /\ PlanTyped /\ Final
  BY TypeParts DEF StageInv, GateInv
<1>x. Indexed
  BY IndexFacts DEF GateInv
<1>k. \A h \in Hypothesis : Ask(h) => Asks(h)
  BY AskFacts DEF GateInv
<1>r. \A r \in Rows : Researcher(r) => Answers(r)
  BY AnswerFacts DEF GateInv
<1>y. \A g \in YesLast : g \in YesLast' \/ (status[g] = "proposta" /\ decisions[g] = None)
  BY YesLastStays
<1>g. GateTypeOK /\ Ordered /\ PlanTyped
  BY TypeParts DEF StageInv, GateInv
<1>t. Tries /\ Held
  BY DEF StageInv, GateInv
<1>f. UNCHANGED gateVars => UNCHANGED <<about, consumed, Latest, Denied, Rows>>
  BY DEF gateVars, Latest, Denied, Newest, Rows
<1>c. UNCHANGED <<gateVars, session>> => UNCHANGED Recent
  BY DEF gateVars, Recent, Rows
<1>q. Latest \subseteq Rows /\ Recent \subseteq Rows /\ Denied \subseteq consumed /\ consumed \subseteq Rows
  BY <1>g DEF Latest, Recent, Denied, GateTypeOK
<1> USE <1>a, GateAssumption, HypothesisAssumption DEF HypothesesTyped, PlanTyped, Final,
      hypVars, planVars, waitVars, tornVars, None, Goto
<1>1. CASE Begin
  BY <1>1, <1>f, <1>c, <1>q DEF Begin
<1>2. CASE Stop
  BY ZenonT(40), <1>2, <1>f, <1>c, <1>q DEF Stop
<1>3. CASE Resolve
  BY <1>3, <1>f DEF Resolve, ToReopen
<1>4. CASE ApproverFails
  BY ZenonT(40), <1>4, <1>f, <1>c, <1>q DEF ApproverFails
<1>5. ASSUME NEW h \in Hypothesis, Withdraw(h) PROVE Final'
  BY <1>5, <1>f, <1>c, <1>q DEF Withdraw
<1>6. ASSUME NEW h \in Hypothesis, Ask(h) PROVE Final'
  <2>1. Asks(h)
    BY <1>6, <1>k
  <2>2. h \notin lost => \A r \in Denied : about[r] # h
    BY <2>1 DEF Asks
  <2>3. /\ Denied' = Denied
        /\ \A r \in Rows : about'[r] = about[r]
        /\ \A r \in Latest : about[r] # h => r \in Latest'
    BY <2>1, <1>g, AskKeeps DEF GateInv
  <2>4. UNCHANGED <<by, decisions, lost>>
    BY <2>1 DEF Asks
  <2> SUFFICES ASSUME NEW g \in Hypothesis \ lost', NEW x \in Denied', about'[x] = g
               PROVE  x \in Latest' /\ (decisions'[g] = "negada" \/ by'[g] = "pesquisador")
    BY DEF Final
  <2>5. x \in Denied /\ x \in Rows /\ about[x] = g /\ g # h /\ g \in Hypothesis \ lost
    BY <2>2, <2>3, <2>4, <1>q
  <2> QED BY <2>3, <2>4, <2>5
<1>7. ASSUME NEW h \in Hypothesis, NEW r \in Row, Takes(h, r) PROVE Final'
  <2>1. UNCHANGED <<status, by, lost, about>> /\ Latest' = Latest
    BY <1>7 DEF Takes, Latest, Newest, Rows
  <2>2. decisions'[h] = estado[r] /\ \A g \in Hypothesis \ {h} : decisions'[g] = decisions[g]
    BY <1>7 DEF Takes
  <2>3. decisions[h] = None /\ by[h] = ""
    BY <1>7, <1>t DEF Takes, Held
  <2>4. about[r] = h /\ r \in Latest /\ Denied' \subseteq Denied \union {r}
    BY <1>7, <1>g DEF Takes, Ordered, Latest, Denied
  <2>5. r \in Denied' => estado[r] = "negada"
    BY <1>7 DEF Takes, Denied
  <2> SUFFICES ASSUME NEW g \in Hypothesis \ lost', NEW x \in Denied', about'[x] = g
               PROVE  x \in Latest' /\ (decisions'[g] = "negada" \/ by'[g] = "pesquisador")
    BY DEF Final
  <2>6. CASE x = r
    BY <2>1, <2>2, <2>4, <2>5, <2>6
  <2>7. CASE x # r
    <3>1. x \in Denied /\ about[x] = g /\ g \in Hypothesis \ lost
      BY <2>1, <2>4, <2>7
    <3>2. x \in Latest /\ (decisions[g] = "negada" \/ by[g] = "pesquisador")
      BY <3>1
    <3>3. g # h
      BY <2>3, <3>2
    <3> QED BY <2>1, <2>2, <3>2, <3>3
  <2> QED BY <2>6, <2>7
<1>8. ASSUME NEW h \in Hypothesis, Reject(h) PROVE Final'
  BY ZenonT(40), <1>8, <1>f, <1>c, <1>q DEF Reject
<1>9. ASSUME NEW h \in Hypothesis, Approve(h) PROVE Final'
  <2>1. decisions[h] = "autorizada" /\ UNCHANGED <<gateVars, by, lost>>
        /\ \A g \in Hypothesis \ {h} : decisions'[g] = decisions[g]
    BY <1>9 DEF Approve
  <2>2. \A g \in Hypothesis : decisions[g] = "negada" => decisions'[g] = decisions[g]
    BY <2>1
  <2> HIDE DEF HypothesesTyped, PlanTyped
  <2> QED BY <2>1, <2>2, <1>f
<1>10. CASE Prepared
  <2>1. \A g \in Hypothesis : by[g] = "pesquisador" => by'[g] = by[g]
    BY <1>p, <1>10 DEF PreparedDoes, Abandons, OpenStatuses
  <2>2. UNCHANGED <<gateVars, lost>> /\ \A h \in Hypothesis : decisions[h] = None
    BY <1>p, <1>10 DEF PreparedDoes
  <2> SUFFICES ASSUME NEW g \in Hypothesis \ lost', NEW x \in Denied', about'[x] = g
               PROVE  x \in Latest' /\ (decisions'[g] = "negada" \/ by'[g] = "pesquisador")
    BY DEF Final
  <2>3. x \in Denied /\ about[x] = g /\ g \in Hypothesis \ lost
    BY <2>2, <1>f
  <2>4. x \in Latest /\ by[g] = "pesquisador"
    BY <2>2, <2>3
  <2> QED BY <2>1, <2>2, <2>3, <2>4, <1>f
<1>11. CASE EndCycle
  <2>1. \A h \in Hypothesis : decisions[h] = None
    BY <1>11, <1>e, <1>t DEF EndCycleDoes, Held
  <2>2. \A g \in Hypothesis : by[g] = "pesquisador" => by'[g] = by[g]
    BY <1>e, <1>11 DEF EndCycleDoes, Abandons, OpenStatuses
  <2>3. UNCHANGED <<gateVars, lost>>
    BY <1>e, <1>11 DEF EndCycleDoes
  <2> SUFFICES ASSUME NEW g \in Hypothesis \ lost', NEW x \in Denied', about'[x] = g
               PROVE  x \in Latest' /\ (decisions'[g] = "negada" \/ by'[g] = "pesquisador")
    BY DEF Final
  <2>4. x \in Denied /\ about[x] = g /\ g \in Hypothesis \ lost
    BY <2>3, <1>f
  <2>5. x \in Latest /\ by[g] = "pesquisador"
    BY <2>1, <2>4
  <2> QED BY <2>2, <2>3, <2>4, <2>5, <1>f
<1>12. ASSUME NEW r \in Rows, Researcher(r) PROVE Final'
  <2>1. UNCHANGED <<by, decisions, lost, about, consumed, asked>>
    BY <1>12, <1>r DEF Answers
  <2>0. Latest' = Latest
    BY <2>1 DEF Latest, Newest, Rows
  <2>2. Denied' = Denied
    <3>1. \A x \in consumed : estado'[x] = estado[x]
      BY <1>12, <1>r, <1>q, <1>x DEF Answers, Indexed
    <3> QED BY <2>1, <3>1 DEF Denied
  <2> QED BY <2>0, <2>1, <2>2
<1>13. ASSUME UNCHANGED <<gateVars, by, decisions, lost>> PROVE Final'
  BY <1>13, <1>f, <1>c, <1>q
<1>14. CASE Plan \/ Select \/ Approved
  BY <1>14, <1>13 DEF Plan, Select, Approved
<1>15. CASE Wake \/ ReviewOpportunity \/ ReviewDecision \/ EvaluationFails \/ EvaluateDecisions
  BY <1>15, <1>13 DEF Wake, ReviewOpportunity, ReviewDecision, EvaluationFails,
        EvaluateDecisions
<1>16. ASSUME NEW h \in Hypothesis, StillPending(h) \/ Test(h) \/ SyncStatus(h)
      PROVE Final'
  BY <1>16, <1>13 DEF StillPending, Test, SyncStatus, Awaits
<1>17. CASE UNCHANGED vars
  BY <1>17, <1>13 DEF vars, gateVars
<1> QED BY <1>0, <1>1, <1>2, <1>3, <1>4, <1>5, <1>6, <1>7, <1>8, <1>9, <1>10, <1>11, <1>12,
        <1>14, <1>15, <1>16, <1>17 DEF Next, Preparation

\* The operator of the community modules on a set of numbers with a greatest one.
LEMMA MaxIs ==
  ASSUME NEW S \in SUBSET Nat, NEW m \in S, \A x \in S : m >= x
  PROVE  Max(S) = m
<1>1. Max(S) \in S /\ \A y \in S : Max(S) >= y
  BY DEF Max
<1>2. Max(S) \in Nat /\ m \in Nat
  BY <1>1
<1> QED BY <1>1, <1>2

\* No step breaks the invariant of the gate.
LEMMA GateInvStep == GateInv /\ [Next]_vars => GateInv'
<1> SUFFICES ASSUME GateInv, [Next]_vars PROVE GateInv'
  OBVIOUS
<1>1. StageInv'
  BY StageStep DEF GateInv
<1> QED BY <1>1, OrderedStep, AuthorizedStep, HeededStep, UntoldStep, FreshStep, FinalStep
        DEF GateInv

\* Before the first session there is no request.
LEMMA GateInvInit == Init => GateInv
<1> SUFFICES ASSUME Init PROVE GateInv
  OBVIOUS
<1>1. StageInv
  BY StageInit
<1>2. Rows = {} /\ consumed = {} /\ lost = {} /\ \A r \in Row : estado[r] = "pendente"
  <2>1. GateInit /\ lost = {}
    BY DEF Init
  <2> QED BY <2>1, GateAssumption DEF GateInit, Rows, Row
<1>3. \A h \in Hypothesis : status[h] \in {"proposta", "abandonada"} /\ decisions[h] = None
  BY DEF Init
<1>4. Ordered /\ Untold /\ Fresh /\ Final
  BY <1>2 DEF Ordered, Untold, Fresh, Recent, Final, Denied
<1>5. Authorized /\ Heeded
  BY <1>3 DEF Authorized, Heeded, Tested, Concluded, None
<1> QED BY <1>1, <1>4, <1>5 DEF GateInv

\* The invariant behind the theorems about the gate.
THEOREM GateInvariant == Spec => []GateInv
<1>1. Init => GateInv
  BY GateInvInit
<1>2. GateInv /\ [Next]_vars => GateInv'
  BY GateInvStep
<1> QED BY <1>1, <1>2, PTL DEF Spec

\* No test runs without an authorization of the researcher in the chain.
THEOREM ApprovedFirst == Spec => []TestedWasApproved
<1>1. GateInv => TestedWasApproved
  <2> SUFFICES ASSUME GateInv, pc = "running", NEW h \in execute PROVE WasAuthorized(h, Chain)
    BY DEF TestedWasApproved
  <2>1. h \in Hypothesis /\ status[h] \in Tested
    BY TypeParts DEF GateInv, StageInv, Held, PlanTyped
  <2> QED BY <2>1 DEF GateInv, Authorized, Granted
<1> QED BY <1>1, GateInvariant, PTL

\* Two requests that are still of use would both be the newest.
THEOREM OneRequest == Spec => []AskedOnce
<1>1. GateInv => AskedOnce
  <2> SUFFICES ASSUME GateInv, NEW h \in Hypothesis
               PROVE  Cardinality(Unconsumed(h, Session)) <= 1
    BY DEF AskedOnce
  <2> DEFINE U == Unconsumed(h, Session)
  <2>1. \A r, x \in U : r = x
    <3>1. U \subseteq Rows \ consumed /\ \A r \in U : about[r] = h
      BY DEF Unconsumed
    <3>2. \A r \in U : Newest(r)
      BY <3>1 DEF GateInv, Ordered
    <3>3. Rows \subseteq Nat
      BY IndexFacts DEF GateInv, Indexed
    <3>4. TAKE r, x \in U
    <3>5. r <= x /\ x <= r /\ r \in Nat /\ x \in Nat
      BY <3>1, <3>2, <3>3 DEF Newest
    <3> QED BY <3>5
  <2>2. CASE U = {}
    BY <2>2, FS_EmptySet
  <2>3. CASE U # {}
    <3>1. PICK r \in U : TRUE
      BY <2>3
    <3>2. U = {r}
      BY <2>1, <3>1
    <3> QED BY <3>2, FS_Singleton
  <2> QED BY <2>2, <2>3
<1> QED BY <1>1, GateInvariant, PTL

\* Whatever was said before, the last answer about what is tested is yes.
THEOREM YesIsLast == Spec => []LastWordStands
<1>1. GateInv => LastWordStands
  <2> SUFFICES ASSUME GateInv, pc = "running", NEW h \in execute \ lost
               PROVE  LET told == {r \in Rows : about[r] = h /\ estado[r] # "pendente"}
                      IN told # {} /\ estado[Max(told)] = "autorizada"
    BY DEF LastWordStands
  <2> DEFINE told == {r \in Rows : about[r] = h /\ estado[r] # "pendente"}
  <2>1. h \in Hypothesis /\ status[h] \in Tested
    BY TypeParts DEF GateInv, StageInv, Held, PlanTyped
  <2>2. PICK r \in Rows : about[r] = h /\ estado[r] = "autorizada" /\ Newest(r)
    BY <2>1 DEF GateInv, Heeded, YesLast
  <2>3. Rows \subseteq Nat
    BY IndexFacts DEF GateInv, Indexed
  <2>4. r \in told /\ told \subseteq Nat /\ \A x \in told : r >= x
    BY <2>2, <2>3 DEF Newest
  <2>5. Max(told) = r
    BY <2>4, MaxIs
  <2> QED BY <2>2, <2>4, <2>5
<1> QED BY <1>1, GateInvariant, PTL

\* A hypothesis the researcher denied is not asked about again.
THEOREM NoIsFinal == Spec => []RejectionStands
<1>1. GateInv => RejectionStands
  <2> SUFFICES ASSUME GateInv, NEW h \in Hypothesis \ lost,
                      {r \in consumed : about[r] = h /\ estado[r] = "negada"} # {}
               PROVE  /\ decisions[h] = "negada" \/ by[h] = "pesquisador"
                      /\ \A r \in Rows : about[r] = h =>
                           r <= Max({x \in consumed : about[x] = h /\ estado[x] = "negada"})
    BY DEF RejectionStands
  <2> DEFINE denied == {r \in consumed : about[r] = h /\ estado[r] = "negada"}
  <2>1. \A r \in denied : r \in Latest /\ (decisions[h] = "negada" \/ by[h] = "pesquisador")
    BY DEF GateInv, Final, Denied
  <2>2. Rows \subseteq Nat /\ consumed \subseteq Rows
    BY IndexFacts, TypeParts DEF GateInv, StageInv, Indexed, GateTypeOK
  <2>3. PICK d \in denied : TRUE
    OBVIOUS
  <2>4. \A r \in Rows : about[r] = h => r <= d
    BY <2>1, <2>3 DEF Latest, Newest
  <2>5. denied \subseteq Nat /\ \A x \in denied : d >= x
    BY <2>2, <2>4
  <2>6. Max(denied) = d
    BY <2>3, <2>5, MaxIs
  <2> QED BY <2>1, <2>3, <2>4, <2>6
<1> QED BY <1>1, GateInvariant, PTL

-----------------------------------------------------------------------------
\* The four parts of EffectsInv, each by the actions that touch it.
LEMMA JudgementFacts ==
  /\ \A s \in OpenStatuses : Judgement(s) = None
  /\ Judgement(None) = None
BY DEF Judgement, OpenStatuses, None

\* Opportunity and decision follow the status.
LEMMA EffectsStep == ASSUME EffectsInv, [Next]_vars PROVE EffectsFollow'
<1>p. Prepared => PreparedDoes
  BY PreparedFacts DEF EffectsInv
<1>e. EndCycle => EndCycleDoes
  BY EndCycleFacts DEF EffectsInv
<1>s. \A h \in Hypothesis : SyncStatus(h) => SyncStatusDoes(h)
  BY SyncStatusFacts DEF EffectsInv
<1>a. EffectsFollow
  BY TypeParts DEF StageInv, EffectsInv
<1>g. HypothesesTyped /\ PlanTyped /\ MoveTyped /\ Stages /\ Held /\ Tries
  BY TypeParts DEF StageInv, EffectsInv
<1>i. EffectsFollow /\ Unfinished /\ Synced /\ Move
  BY DEF EffectsInv
<1>j. (\A s \in OpenStatuses : Judgement(s) = None) /\ Judgement(None) = None
  BY JudgementFacts
<1> USE <1>a, GateAssumption, HypothesisAssumption DEF EffectsFollow, hypVars, moveVars,
      tornVars, waitVars, Concluded, Goto
<1>1. CASE Stop
  BY <1>1 DEF Stop
<1>2. CASE Resolve
  <2>1. \A h \in Hypothesis : \/ status'[h] = status[h]
                              \/ h \in ToReopen /\ status'[h] \in {"proposta", "em_teste"}
    BY <1>2 DEF Resolve, Reopened
  <2>2. \A h \in ToReopen : by[h] \in {"sistema", "agente"}
    BY <1>g DEF ToReopen, HypothesesTyped, PlanTyped, Authors
  <2>3. UNCHANGED <<opp, judged, torn, moving>>
    BY <1>2 DEF Resolve
  <2> QED BY <2>1, <2>2, <2>3, <1>i DEF Unfinished
<1>3. CASE Prepared
  <2>1. moving = None /\ UNCHANGED <<opp, judged, torn, moving>>
    BY <1>3, <1>p, <1>g DEF PreparedDoes, MoveTyped, tornVars, moveVars
  <2>2. \A h \in Hypothesis :
          \/ status'[h] = status[h] /\ by'[h] = by[h]
          \/ status[h] \in OpenStatuses /\ status'[h] = "abandonada" /\ by'[h] = "sistema"
    BY <1>3, <1>p DEF PreparedDoes, Abandons
  <2> QED BY <2>1, <2>2
<1>4. CASE EndCycle
  <2>1. moving = None /\ UNCHANGED <<opp, judged, torn, moving>>
    BY <1>4, <1>e, <1>g DEF EndCycleDoes, MoveTyped, tornVars, moveVars
  <2>2. \A h \in Hypothesis :
          \/ status'[h] = status[h] /\ by'[h] = by[h]
          \/ status[h] \in OpenStatuses /\ status'[h] = "abandonada" /\ by'[h] = "sistema"
    BY <1>4, <1>e DEF EndCycleDoes, Abandons
  <2> QED BY <2>1, <2>2
<1>5. CASE ReviewOpportunity
  <2>1. moving \in Hypothesis /\ UNCHANGED <<status, judged, torn, moving>>
        /\ \A h \in Hypothesis \ {moving} : opp'[h] = opp[h]
    BY <1>5, <1>g DEF ReviewOpportunity, HypothesesTyped, MoveTyped
  <2> QED BY <2>1
<1>6. CASE ReviewDecision
  <2>1. moving \in Hypothesis /\ UNCHANGED <<status, opp, torn>> /\ moving' = None
        /\ \A h \in Hypothesis \ {moving} : judged'[h] = judged[h]
    BY <1>6, <1>g DEF ReviewDecision, HypothesesTyped, MoveTyped
  <2>2. moving \notin torn =>
          /\ opp[moving] = "concluida" <=> status[moving] \in Concluded
          /\ judged[moving] \in {None, Judgement(old)}
          /\ old \in Tested
    BY <1>6, <1>i DEF Move, ReviewDecision
  <2>3. moving \notin torn => judged'[moving] \in {None, Judgement(status[moving])}
    <3>1. CASE old \in Concluded /\ judged[moving] # None
      BY <1>6, <2>1, <3>1, <1>g DEF ReviewDecision, HypothesesTyped
    <3>2. CASE judged[moving] = None
      BY <1>6, <3>2 DEF ReviewDecision
    <3>3. CASE old \notin Concluded
      BY <1>6, <2>2, <3>2, <3>3, <1>j DEF ReviewDecision, Tested, OpenStatuses
    <3> QED BY <3>1, <3>2, <3>3
  <2> QED BY <2>1, <2>2, <2>3
<1>7. CASE EvaluationFails
  BY <1>7 DEF EvaluationFails
<1>8. CASE EvaluateDecisions
  <2>1. UNCHANGED <<status, opp, torn, moving>> /\ moving = None
    BY <1>8, <1>g DEF EvaluateDecisions, MoveTyped
  <2>2. \A h \in Hypothesis : judged'[h] \in {judged[h], Judgement(counted[h])}
    BY <1>8 DEF EvaluateDecisions
  <2>3. \A h \in Hypothesis : status[h] # "abandonada" => counted[h] \in {None, status[h]}
    <3>1. SUFFICES ASSUME NEW h \in Hypothesis, status[h] # "abandonada", counted[h] # None
                   PROVE counted[h] = status[h]
      OBVIOUS
    <3>2. NextStatus(h) = status[h]
      BY <1>8, <1>i DEF EvaluateDecisions, Synced
    <3>3. status[h] \in Tested
      BY <3>1, <1>g DEF Tries, HypothesesTyped
    <3> QED BY <3>1, <3>2, <3>3 DEF NextStatus, Tested
  <2> QED BY <2>1, <2>2, <2>3, <1>j
<1>9. ASSUME NEW h \in Hypothesis, Withdraw(h) PROVE EffectsFollow'
  <2>1. status'[h] = "abandonada" /\ \A g \in Hypothesis \ {h} : status'[g] = status[g]
    BY <1>9, <1>g DEF Withdraw, HypothesesTyped
  <2> QED BY <1>9, <2>1 DEF Withdraw
<1>10. ASSUME NEW h \in Hypothesis, Reject(h) PROVE EffectsFollow'
  <2>1. status'[h] = "abandonada" /\ \A g \in Hypothesis \ {h} : status'[g] = status[g]
    BY <1>10, <1>g DEF Reject, HypothesesTyped
  <2> QED BY <1>10, <2>1 DEF Reject
<1>11. ASSUME NEW h \in Hypothesis, Approve(h) PROVE EffectsFollow'
  <2>1. status[h] = "proposta"
    BY <1>11, <1>g DEF Approve, Decided, Held, None
  <2>2. status' = [status EXCEPT ![h] = "em_teste"] /\ UNCHANGED <<opp, judged, torn, moving>>
    BY <1>11 DEF Approve
  <2>3. status'[h] = "em_teste" /\ \A g \in Hypothesis \ {h} : status'[g] = status[g]
    BY <2>2, <1>g DEF HypothesesTyped
  <2> QED BY <2>1, <2>2, <2>3, <1>j DEF OpenStatuses
<1>12. ASSUME NEW h \in Hypothesis, SyncStatus(h) PROVE EffectsFollow'
  <2>1. UNCHANGED <<opp, judged, torn>> /\ moving = None
    BY <1>12, <1>s, <1>g DEF SyncStatusDoes, MoveTyped
  <2>2. CASE UNCHANGED <<status, moving>>
    BY <2>1, <2>2
  <2>3. CASE status' = [status EXCEPT ![h] = NextStatus(h)] /\ moving' = h
    BY <2>1, <2>3
  <2> QED BY <1>12, <1>s, <2>2, <2>3 DEF SyncStatusDoes
<1>13. ASSUME UNCHANGED <<status, opp, judged, torn, moving>> PROVE EffectsFollow'
  BY <1>13
<1>14. CASE Begin \/ Plan \/ Select \/ ApproverFails \/ Approved
  BY <1>14, <1>13 DEF Begin, Plan, Select, ApproverFails, Approved
<1>15. CASE Wake
  BY <1>15, <1>13 DEF Wake
<1>16. ASSUME NEW h \in Hypothesis, Ask(h) \/ StillPending(h) \/ TakeAnswer(h) \/ Test(h)
      PROVE EffectsFollow'
  BY <1>16, <1>13 DEF Ask, StillPending, TakeAnswer, Test, Awaits
<1>17. ASSUME NEW r \in Rows, Researcher(r) PROVE EffectsFollow'
  BY <1>17, <1>13 DEF Researcher
<1>18. CASE UNCHANGED vars
  BY <1>18, <1>13 DEF vars, gateVars
<1> QED BY <1>1, <1>2, <1>3, <1>4, <1>5, <1>6, <1>7, <1>8, <1>9, <1>10, <1>11, <1>12, <1>14,
        <1>15, <1>16, <1>17, <1>18 DEF Next, Preparation

\* What is abandoned without a word of the researcher has no conclusion.
LEMMA UnfinishedStep == ASSUME EffectsInv, [Next]_vars PROVE Unfinished'
<1>p. Prepared => PreparedDoes
  BY PreparedFacts DEF EffectsInv
<1>e. EndCycle => EndCycleDoes
  BY EndCycleFacts DEF EffectsInv
<1>a. Unfinished
  BY TypeParts DEF StageInv, EffectsInv
<1>g. HypothesesTyped /\ PlanTyped /\ MoveTyped /\ Stages /\ Held /\ Tries
  BY TypeParts DEF StageInv, EffectsInv
<1>i. EffectsFollow /\ Unfinished /\ Synced /\ Move
  BY DEF EffectsInv
<1>j. (\A s \in OpenStatuses : Judgement(s) = None) /\ Judgement(None) = None
  BY JudgementFacts
<1> USE <1>a, GateAssumption, HypothesisAssumption DEF Unfinished, hypVars, moveVars, tornVars,
      waitVars, Goto
<1>1. CASE Stop
  BY <1>1 DEF Stop
<1>2. CASE Resolve
  <2>1. \A h \in Hypothesis : by'[h] = by[h] \/ by'[h] = ""
    BY <1>2 DEF Resolve
  <2> QED BY <1>2, <2>1 DEF Resolve
<1>3. CASE Prepared
  <2>1. moving = None /\ UNCHANGED <<opp, judged, torn, moving>>
    BY <1>3, <1>p, <1>g DEF PreparedDoes, MoveTyped, tornVars, moveVars
  <2>2. \A h \in Hypothesis :
          \/ status'[h] = status[h] /\ by'[h] = by[h]
          \/ status[h] \in OpenStatuses /\ status'[h] = "abandonada" /\ by'[h] = "sistema"
    BY <1>3, <1>p DEF PreparedDoes, Abandons
  <2>3. \A h \in Hypothesis \ torn : status[h] \in OpenStatuses => opp[h] = "em_investigacao" /\ judged[h] = None
    BY <2>1, <1>i, <1>j, <1>g DEF EffectsFollow, HypothesesTyped, OpenStatuses, Concluded
  <2> QED BY <2>1, <2>2, <2>3
<1>4. CASE EndCycle
  <2>1. moving = None /\ UNCHANGED <<opp, judged, torn, moving>>
    BY <1>4, <1>e, <1>g DEF EndCycleDoes, MoveTyped, tornVars, moveVars
  <2>2. \A h \in Hypothesis :
          \/ status'[h] = status[h] /\ by'[h] = by[h]
          \/ status[h] \in OpenStatuses /\ status'[h] = "abandonada" /\ by'[h] = "sistema"
    BY <1>4, <1>e DEF EndCycleDoes, Abandons
  <2>3. \A h \in Hypothesis \ torn : status[h] \in OpenStatuses => opp[h] = "em_investigacao" /\ judged[h] = None
    BY <2>1, <1>i, <1>j, <1>g DEF EffectsFollow, HypothesesTyped, OpenStatuses, Concluded
  <2> QED BY <2>1, <2>2, <2>3
<1>5. CASE ReviewOpportunity
  <2>1. moving \in Hypothesis /\ UNCHANGED <<by, judged, torn>> /\ by[moving] = ""
        /\ \A h \in Hypothesis \ {moving} : opp'[h] = opp[h]
    BY <1>5, <1>g, <1>i DEF ReviewOpportunity, HypothesesTyped, MoveTyped, Move, Tested, Concluded
  <2> QED BY <2>1
<1>6. CASE ReviewDecision
  <2>1. moving \in Hypothesis /\ UNCHANGED <<by, opp, torn>> /\ by[moving] = ""
        /\ \A h \in Hypothesis \ {moving} : judged'[h] = judged[h]
    BY <1>6, <1>g, <1>i DEF ReviewDecision, HypothesesTyped, MoveTyped, Move, Tested, Concluded
  <2> QED BY <2>1
<1>7. CASE EvaluationFails
  BY <1>7 DEF EvaluationFails
<1>8. CASE EvaluateDecisions
  <2>1. \A h \in Hypothesis : by[h] \in {"sistema", "agente"} => counted[h] = None
    BY <1>g DEF Tries, HypothesesTyped, Tested, Concluded
  <2>2. UNCHANGED <<by, opp, torn>>
        /\ \A h \in Hypothesis : judged'[h] \in {judged[h], Judgement(counted[h])}
    BY <1>8 DEF EvaluateDecisions
  <2> QED BY <2>1, <2>2, <1>j
<1>9. ASSUME NEW h \in Hypothesis, Withdraw(h) PROVE Unfinished'
  <2>1. by'[h] = "pesquisador" /\ \A g \in Hypothesis \ {h} : by'[g] = by[g]
    BY <1>9, <1>g DEF Withdraw, HypothesesTyped
  <2> QED BY <1>9, <2>1 DEF Withdraw
<1>10. ASSUME NEW h \in Hypothesis, Reject(h) PROVE Unfinished'
  <2>1. by'[h] = "pesquisador" /\ \A g \in Hypothesis \ {h} : by'[g] = by[g]
    BY <1>10, <1>g DEF Reject, HypothesesTyped
  <2> QED BY <1>10, <2>1 DEF Reject
<1>11. ASSUME NEW h \in Hypothesis, Approve(h) PROVE Unfinished'
  BY <1>11 DEF Approve
<1>12. ASSUME UNCHANGED <<by, opp, judged, torn>> PROVE Unfinished'
  BY <1>12
<1>13. CASE Begin \/ Plan \/ Select \/ ApproverFails \/ Approved
  BY <1>13, <1>12 DEF Begin, Plan, Select, ApproverFails, Approved
<1>14. CASE Wake
  BY <1>14, <1>12 DEF Wake
<1>15. ASSUME NEW h \in Hypothesis, Ask(h) \/ StillPending(h) \/ TakeAnswer(h) \/ Test(h) \/
         SyncStatus(h)
      PROVE Unfinished'
  BY <1>15, <1>12 DEF Ask, StillPending, TakeAnswer, Test, SyncStatus, Awaits
<1>16. ASSUME NEW r \in Rows, Researcher(r) PROVE Unfinished'
  BY <1>16, <1>12 DEF Researcher
<1>17. CASE UNCHANGED vars
  BY <1>17, <1>12 DEF vars, gateVars
<1> QED BY <1>1, <1>2, <1>3, <1>4, <1>5, <1>6, <1>7, <1>8, <1>9, <1>10, <1>11, <1>13, <1>14,
        <1>15, <1>16, <1>17 DEF Next, Preparation

\* What was compared with the counts stays so.
LEMMA SyncedStep == ASSUME EffectsInv, [Next]_vars PROVE Synced'
<1>0. \A h \in Hypothesis : TakeAnswer(h) => \E r \in Row : Takes(h, r)
  BY TakenIsThere DEF EffectsInv
<1>p. Prepared => PreparedDoes
  BY PreparedFacts DEF EffectsInv
<1>e. EndCycle => EndCycleDoes
  BY EndCycleFacts DEF EffectsInv
<1>t. \A h \in Hypothesis : Test(h) => TestDoes(h)
  BY TestFacts DEF EffectsInv
<1>s. \A h \in Hypothesis : SyncStatus(h) => SyncStatusDoes(h)
  BY SyncStatusFacts DEF EffectsInv
<1>a. Synced
  BY TypeParts DEF StageInv, EffectsInv
<1>g. HypothesesTyped /\ PlanTyped /\ MoveTyped /\ Stages /\ Held /\ Tries
  BY TypeParts DEF StageInv, EffectsInv
<1>i. EffectsFollow /\ Unfinished /\ Synced /\ Move
  BY DEF EffectsInv
<1>j. (\A s \in OpenStatuses : Judgement(s) = None) /\ Judgement(None) = None
  BY JudgementFacts
<1> USE <1>a, GateAssumption, HypothesisAssumption DEF Synced, hypVars, NextStatus, Goto
<1>1. CASE Begin
  BY <1>1 DEF Begin
<1>2. CASE Stop
  BY <1>2 DEF Stop
<1>3. CASE Plan
  BY <1>3 DEF Plan
<1>4. CASE Resolve
  BY <1>4 DEF Resolve
<1>5. CASE Select
  BY <1>5 DEF Select
<1>6. CASE ApproverFails
  BY <1>6 DEF ApproverFails
<1>7. CASE Approved
  BY <1>7 DEF Approved
<1>8. CASE Prepared
  BY <1>8, <1>p DEF PreparedDoes
<1>9. CASE Wake
  BY <1>9 DEF Wake
<1>10. CASE EndCycle
  BY <1>10, <1>e DEF EndCycleDoes
<1>11. CASE ReviewOpportunity
  BY <1>11 DEF ReviewOpportunity
<1>12. CASE ReviewDecision
  BY <1>12 DEF ReviewDecision
<1>13. CASE EvaluationFails
  BY <1>13 DEF EvaluationFails
<1>14. CASE EvaluateDecisions
  BY <1>14 DEF EvaluateDecisions
<1>15. ASSUME NEW h \in Hypothesis, Withdraw(h) PROVE Synced'
  BY <1>15 DEF Withdraw
<1>16. ASSUME NEW h \in Hypothesis, Ask(h) PROVE Synced'
  BY <1>16 DEF Ask, Insert, Awaits, Asking
<1>17. ASSUME NEW h \in Hypothesis, StillPending(h) PROVE Synced'
  BY <1>17 DEF StillPending, Awaits, Asking
<1>18. ASSUME NEW h \in Hypothesis, NEW r \in Row, Takes(h, r) PROVE Synced'
  BY <1>18 DEF Takes
<1>19. ASSUME NEW h \in Hypothesis, Reject(h) PROVE Synced'
  BY <1>19 DEF Reject, Decided
<1>20. ASSUME NEW h \in Hypothesis, Approve(h) PROVE Synced'
  BY <1>20 DEF Approve, Decided
<1>21. ASSUME NEW h \in Hypothesis, Test(h) PROVE Synced'
  BY <1>21, <1>t DEF TestDoes
<1>22. ASSUME NEW h \in Hypothesis, SyncStatus(h) PROVE Synced'
  <2>1. UNCHANGED <<tried, counted>> /\ todo' = todo \ {h} /\ pc = "syncing"
    BY <1>22, <1>s DEF SyncStatusDoes
  <2>2. CASE UNCHANGED status
    <3>1. NextStatus(h) = status[h]
      BY ZenonT(40), <1>22, <1>s, <2>2, <1>g DEF SyncStatusDoes, HypothesesTyped
    <3> QED BY <2>1, <2>2, <3>1
  <2>3. CASE status' = [status EXCEPT ![h] = NextStatus(h)] /\ NextStatus(h) # status[h]
    <3>1. status'[h] = NextStatus(h) /\ \A g \in Hypothesis \ {h} : status'[g] = status[g]
      BY <2>3, <1>g DEF HypothesesTyped
    <3>2. NextStatus(h)' = status'[h]
      <4>1. status'[h] \in Tested /\ (status[h] = "proposta" => h \in tried)
        BY <1>22, <1>s, <2>3, <3>1 DEF SyncStatusDoes
      <4>2. counted[h] # None => status'[h] = counted[h]
        BY <2>3, <3>1
      <4>3. counted[h] = None => status'[h] \notin Concluded
        BY <2>3, <3>1 DEF Concluded
      <4> QED BY <2>1, <4>1, <4>2, <4>3 DEF Tested, Concluded
    <3> QED BY <2>1, <3>1, <3>2
  <2> QED BY <1>22, <1>s, <2>2, <2>3 DEF SyncStatusDoes
<1>23. ASSUME UNCHANGED <<pc, todo, status, tried, counted>> PROVE Synced'
  BY <1>23
<1>24. ASSUME NEW r \in Rows, Researcher(r) PROVE Synced'
  BY <1>24, <1>23 DEF Researcher
<1>25. CASE UNCHANGED vars
  BY <1>25, <1>23 DEF vars, gateVars
<1> QED BY <1>0, <1>1, <1>2, <1>3, <1>4, <1>5, <1>6, <1>7, <1>8, <1>9, <1>10, <1>11, <1>12,
        <1>13, <1>14, <1>15, <1>16, <1>17, <1>18, <1>19, <1>20, <1>21, <1>22, <1>24, <1>25 DEF Next, Preparation

\* A transition under way has its old status to follow.
LEMMA MoveStep == ASSUME EffectsInv, [Next]_vars PROVE Move'
<1>0. \A h \in Hypothesis : TakeAnswer(h) => \E r \in Row : Takes(h, r)
  BY TakenIsThere DEF EffectsInv
<1>p. Prepared => PreparedDoes
  BY PreparedFacts DEF EffectsInv
<1>e. EndCycle => EndCycleDoes
  BY EndCycleFacts DEF EffectsInv
<1>t. \A h \in Hypothesis : Test(h) => TestDoes(h)
  BY TestFacts DEF EffectsInv
<1>s. \A h \in Hypothesis : SyncStatus(h) => SyncStatusDoes(h)
  BY SyncStatusFacts DEF EffectsInv
<1>a. Move
  BY TypeParts DEF StageInv, EffectsInv
<1>g. HypothesesTyped /\ PlanTyped /\ MoveTyped /\ Stages /\ Held /\ Tries
  BY TypeParts DEF StageInv, EffectsInv
<1>i. EffectsFollow /\ Unfinished /\ Synced /\ Move
  BY DEF EffectsInv
<1>j. (\A s \in OpenStatuses : Judgement(s) = None) /\ Judgement(None) = None
  BY JudgementFacts
<1> USE <1>a, GateAssumption, HypothesisAssumption DEF Move, hypVars, moveVars, tornVars, Goto
<1>1. CASE Begin
  BY <1>1 DEF Begin
<1>2. CASE Stop
  BY <1>2 DEF Stop
<1>3. CASE Plan
  BY <1>3 DEF Plan
<1>4. CASE Resolve
  BY <1>4 DEF Resolve
<1>5. CASE Select
  BY <1>5 DEF Select
<1>6. CASE ApproverFails
  BY <1>6 DEF ApproverFails
<1>7. CASE Approved
  BY <1>7 DEF Approved
<1>8. CASE Prepared
  BY <1>8, <1>p DEF PreparedDoes
<1>9. CASE Wake
  BY <1>9 DEF Wake
<1>10. CASE EndCycle
  BY <1>10, <1>e DEF EndCycleDoes
<1>11. CASE ReviewOpportunity
  <2>1. UNCHANGED <<status, judged, torn, moving, old>> /\ pc' = "decision" /\ pc = "opportunity"
        /\ moving \in Hypothesis
    BY <1>11, <1>g DEF ReviewOpportunity, MoveTyped
  <2>2. opp'[moving] = IF old \notin Concluded THEN "concluida"
               ELSE IF status[moving] = "em_teste" THEN "em_investigacao" ELSE opp[moving]
    BY <1>11, <2>1, <1>g DEF ReviewOpportunity, HypothesesTyped
  <2>3. status[moving] = "em_teste" \/ status[moving] \in Concluded
    BY <2>1, <1>i DEF Tested
  <2> QED BY <2>1, <2>2, <2>3 DEF Concluded
<1>12. CASE ReviewDecision
  BY <1>12 DEF ReviewDecision
<1>13. CASE EvaluationFails
  BY <1>13 DEF EvaluationFails
<1>14. CASE EvaluateDecisions
  BY <1>14 DEF EvaluateDecisions
<1>15. ASSUME NEW h \in Hypothesis, Withdraw(h) PROVE Move'
  BY <1>15 DEF Withdraw
<1>16. ASSUME NEW h \in Hypothesis, Ask(h) PROVE Move'
  BY <1>16 DEF Ask, Insert, Awaits, Asking
<1>17. ASSUME NEW h \in Hypothesis, StillPending(h) PROVE Move'
  BY <1>17 DEF StillPending, Awaits, Asking
<1>18. ASSUME NEW h \in Hypothesis, NEW r \in Row, Takes(h, r) PROVE Move'
  BY <1>18 DEF Takes
<1>19. ASSUME NEW h \in Hypothesis, Reject(h) PROVE Move'
  BY <1>19 DEF Reject, Decided
<1>20. ASSUME NEW h \in Hypothesis, Approve(h) PROVE Move'
  BY <1>20 DEF Approve, Decided
<1>21. ASSUME NEW h \in Hypothesis, Test(h) PROVE Move'
  BY <1>21, <1>t DEF TestDoes
<1>22. ASSUME NEW h \in Hypothesis, SyncStatus(h) PROVE Move'
  <2>1. CASE UNCHANGED <<pc, status, moving, old>>
    BY <1>22, <1>s, <2>1 DEF SyncStatusDoes
  <2>2. CASE status' = [status EXCEPT ![h] = NextStatus(h)] /\ pc' = "opportunity" /\ moving' = h
    <3>1. status'[h] = NextStatus(h)
      BY <2>2, <1>g DEF HypothesesTyped
    <3>2. moving = None /\ UNCHANGED <<opp, judged, torn>>
      BY <1>22, <1>s, <1>g DEF SyncStatusDoes, MoveTyped
    <3>3. status[h] = "proposta" => h \notin tried
      BY <1>g DEF Tries, HypothesesTyped, Tested, Concluded
    <3>4. CASE NextStatus(h) = status[h]
      BY <1>22, <1>s, <3>4, <2>2, <1>g, <3>2, HypothesisAssumption DEF SyncStatusDoes
    <3>5. CASE NextStatus(h) # status[h]
      <4>1. old' = status[h] /\ status[h] \in Tested /\ NextStatus(h) \in Tested
            /\ (NextStatus(h) \in Concluded \/ status[h] \in Concluded)
        BY <1>22, <1>s, <3>3, <3>5 DEF SyncStatusDoes, Tested, OpenStatuses
      <4>2. h \notin torn => /\ opp[h] = "concluida" <=> status[h] \in Concluded
                             /\ judged[h] \in {None, Judgement(status[h])}
        BY <3>2, <4>1, <1>i, HypothesisAssumption DEF EffectsFollow, Tested, Concluded
      <4> QED BY <2>2, <3>1, <3>2, <3>5, <4>1, <4>2
    <3> QED BY <3>4, <3>5
  <2> QED BY <1>22, <1>s, <2>1, <2>2 DEF SyncStatusDoes
<1>23. ASSUME UNCHANGED <<pc, status, opp, judged, moving, old, torn>> PROVE Move'
  BY <1>23
<1>24. ASSUME NEW r \in Rows, Researcher(r) PROVE Move'
  BY <1>24, <1>23 DEF Researcher
<1>25. CASE UNCHANGED vars
  BY <1>25, <1>23 DEF vars, gateVars
<1> QED BY <1>0, <1>1, <1>2, <1>3, <1>4, <1>5, <1>6, <1>7, <1>8, <1>9, <1>10, <1>11, <1>12,
        <1>13, <1>14, <1>15, <1>16, <1>17, <1>18, <1>19, <1>20, <1>21, <1>22, <1>24, <1>25 DEF Next, Preparation

\* No step breaks the invariant of the effects.
LEMMA EffectsInvStep == EffectsInv /\ [Next]_vars => EffectsInv'
<1> SUFFICES ASSUME EffectsInv, [Next]_vars PROVE EffectsInv'
  OBVIOUS
<1>1. StageInv'
  BY StageStep DEF EffectsInv
<1> QED BY <1>1, EffectsStep, UnfinishedStep, SyncedStep, MoveStep DEF EffectsInv

\* Before the first session nothing has a conclusion.
LEMMA EffectsInvInit == Init => EffectsInv
<1> SUFFICES ASSUME Init PROVE EffectsInv
  OBVIOUS
<1>1. StageInv
  BY StageInit
<1>2. pc = "out" /\ moving = None
      /\ \A h \in Hypothesis : opp[h] = "em_investigacao" /\ judged[h] = None
                               /\ status[h] \in {"proposta", "abandonada"}
  BY DEF Init
<1> QED BY <1>1, <1>2 DEF EffectsInv, EffectsFollow, Unfinished, Synced, Move, Concluded

\* Unless a cut tore a transition, the graph tells one story of a hypothesis.
THEOREM OneStory == Spec => []EffectsFollow
<1>1. Init => EffectsInv
  BY EffectsInvInit
<1>2. EffectsInv /\ [Next]_vars => EffectsInv'
  BY EffectsInvStep
<1>3. EffectsInv => EffectsFollow
  BY DEF EffectsInv
<1> QED BY <1>1, <1>2, <1>3, PTL DEF Spec

-----------------------------------------------------------------------------
(***************************************************************************)
(* Why a waiting session hears its answer.  The fairness of Wake, and that *)
(* its guard is all that enables it, are what AnswerHeard adds to this.    *)
(***************************************************************************)

\* The session waits for the researcher, who has answered about h.
Due(h) ==
  /\ pc = "waiting" /\ h \in awaiting /\ ~failed
  /\ \E r \in Answered(Chain) : about[r] = h

\* There is an answer that the poll of the gate takes for a new one.
WakeIsDue == (\E h \in Hypothesis : Due(h)) => Answered(Chain) \ seen # {}

\* Nothing but the end of the wait takes the answer back.
DueStays == \A h \in Hypothesis : Due(h) => Due(h)' \/ pc' # "waiting"

\* What was seen was answered; and of what the session waits for, whatever was seen
\* was used: it waits for a request that was not answered when it looked.
HeardInv ==
  /\ \A r \in seen : r \in Rows /\ estado[r] # "pendente"
  /\ ~failed => \A h \in awaiting : \A r \in seen : about[r] = h => r \in consumed

\* An approver that finds no answer waits for one that was not seen.
LEMMA HeardStep == ASSUME GateInv, HeardInv, [Next]_vars PROVE HeardInv'
<1>0. \A h \in Hypothesis : TakeAnswer(h) => \E r \in Row : Takes(h, r)
  BY TakenIsThere DEF GateInv
<1>a. GateTypeOK /\ PlanTyped /\ Ordered /\ Stages
  BY TypeParts DEF StageInv, GateInv
<1>x. Indexed
  BY IndexFacts DEF GateInv
<1>k. \A h \in Hypothesis : Ask(h) => Asks(h) /\ Awaits(h)
  BY AskFacts DEF GateInv, Ask
<1>r. \A r \in Rows : Researcher(r) => Answers(r)
  BY AnswerFacts DEF GateInv
<1>p. Prepared => PreparedDoes
  BY PreparedFacts DEF GateInv
<1>e. EndCycle => EndCycleDoes
  BY EndCycleFacts DEF GateInv
<1> USE <1>a DEF HeardInv
<1>1. CASE Begin
  BY <1>1 DEF Begin, gateVars, planVars, waitVars, Rows
<1>2. CASE Stop
  BY <1>2 DEF Stop, Forget
<1>3. CASE Plan
  <2>1. awaiting' = {}
    BY <1>3 DEF Plan, Stages
  <2> QED BY <1>3, <2>1 DEF Plan, gateVars, Rows
<1>4. CASE Resolve \/ Select \/ Approved
  BY <1>4 DEF Resolve, Select, Approved, gateVars, planVars, waitVars, Rows
<1>5. CASE ApproverFails
  BY <1>5 DEF ApproverFails, gateVars, Rows
<1>6. CASE Prepared
  <2>1. awaiting' \subseteq awaiting
    <3>1. PICK out \in SUBSET (execute \union awaiting) :
            awaiting' = {} \/ awaiting' = awaiting \ out
      BY <1>6 DEF Prepared
    <3> QED BY <3>1
  <2> QED BY <1>6, <1>p, <2>1 DEF PreparedDoes, gateVars, waitVars, Rows
<1>7. CASE Wake
  BY <1>7 DEF Wake, gateVars, Answered, Rows
<1>8. CASE EndCycle
  BY <1>8, <1>e DEF EndCycleDoes, gateVars, waitVars, Rows
<1>9. CASE ReviewOpportunity \/ ReviewDecision \/ EvaluationFails \/ EvaluateDecisions
  BY <1>9 DEF ReviewOpportunity, ReviewDecision, EvaluationFails, EvaluateDecisions, gateVars,
      planVars, waitVars, Rows
\* A request about h that was seen is used: none of use was found.
<1>10. ASSUME NEW h \in Hypothesis, Ask(h) PROVE HeardInv'
  <2>1. /\ \A r \in Rows \ consumed : about[r] # h
        /\ Rows \subseteq Rows' /\ estado' = estado /\ consumed' = consumed
        /\ \A r \in Rows : about'[r] = about[r]
        /\ seen' = seen /\ failed' = failed
    BY <1>10, <1>k DEF Asks, gateVars, waitVars, Rows
  <2>2. awaiting' = awaiting \union {h}
    BY <1>10, <1>k DEF Awaits
  <2> QED BY <2>1, <2>2
\* The one of use is pending, so it was not seen.
<1>11. ASSUME NEW h \in Hypothesis, StillPending(h) PROVE HeardInv'
  <2>1. /\ UNCHANGED <<asked, of, about, estado, consumed, seen, failed>>
        /\ awaiting' = awaiting \union {h}
    BY <1>11 DEF StillPending, Awaits, gateVars, waitVars
  <2>2. Found(h, Chain) \in Unconsumed(h, Chain) /\ estado[Found(h, Chain)] = "pendente"
    <3>1. Unconsumed(h, Chain) # {} /\ Unconsumed(h, Chain) \subseteq 0..asked /\ asked \in Nat
      BY <1>11, GateAssumption DEF Unconsumed, Rows, StillPending, GateTypeOK
    <3>2. \E x \in Unconsumed(h, Chain) : \A y \in Unconsumed(h, Chain) : x >= y
      BY <3>1, Greatest
    <3> QED BY <1>11, <3>2 DEF Found, Max, StillPending
  <2>3. ASSUME NEW r \in seen, about[r] = h, r \notin consumed PROVE FALSE
    <3> DEFINE f == Found(h, Chain)
    <3>1. r \in Rows \ consumed /\ f \in Rows \ consumed /\ about[f] = h /\ f # r
      BY <2>2, <2>3 DEF Unconsumed
    <3>2. r <= f /\ f <= r
      BY <2>3, <3>1 DEF Ordered, Newest
    <3>3. r \in Nat /\ f \in Nat
      BY <1>x, <3>1 DEF Indexed
    <3> QED BY <3>1, <3>2, <3>3
  <2> QED BY <2>1, <2>3 DEF Rows
<1>12. ASSUME NEW h \in Hypothesis, NEW r \in Row, Takes(h, r) PROVE HeardInv'
  BY <1>12 DEF Takes, waitVars, Rows
<1>13. ASSUME NEW h \in Hypothesis, Withdraw(h) \/ Reject(h) \/ Approve(h) PROVE HeardInv'
  BY <1>13 DEF Withdraw, Reject, Approve, gateVars, waitVars, Rows
<1>14. ASSUME NEW h \in Hypothesis, Test(h) \/ SyncStatus(h) PROVE HeardInv'
  BY <1>14 DEF Test, SyncStatus, gateVars, planVars, waitVars, Rows
<1>15. ASSUME NEW r \in Rows, Researcher(r) PROVE HeardInv'
  <2>1. /\ \A x \in seen : estado'[x] = estado[x]
        /\ UNCHANGED <<asked, about, consumed, awaiting, seen, failed>>
    <3>1. \A x \in seen : x \in Row \ {r}
      BY <1>x, <1>15, <1>r DEF Answers, Indexed
    <3> QED BY <1>15, <1>r, <3>1 DEF Answers, planVars, waitVars
  <2> QED BY <2>1 DEF Rows
<1>16. CASE UNCHANGED vars
  BY <1>16 DEF vars, Rows
<1> QED BY <1>0, <1>1, <1>2, <1>3, <1>4, <1>5, <1>6, <1>7, <1>8, <1>9, <1>10, <1>11, <1>12,
        <1>13, <1>14, <1>15, <1>16 DEF Next, Preparation

\* An answer about what a session waits for wakes it: whatever was seen before, in
\* this session's earlier waits too, the poll of _wait_for_researcher finds it new.
THEOREM AnswerIsNew == Spec => []WakeIsDue
<1>1. Init => GateInv /\ HeardInv
  BY GateInvInit DEF Init, HeardInv
<1>2. GateInv /\ HeardInv /\ [Next]_vars => GateInv' /\ HeardInv'
  BY GateInvStep, HeardStep
<1>3. GateInv /\ HeardInv => WakeIsDue
  <2> SUFFICES ASSUME HeardInv, NEW h \in Hypothesis, Due(h)
               PROVE  Answered(Chain) \ seen # {}
    BY DEF WakeIsDue
  <2>1. PICK r \in Answered(Chain) : about[r] = h
    BY DEF Due
  <2>2. r \notin seen
    BY <2>1 DEF Due, HeardInv, Answered
  <2> QED BY <2>1, <2>2
<1> QED BY <1>1, <1>2, <1>3, PTL DEF Spec

\* ... and the answer stays there until the session stops waiting: no step of a
\* terminal or of the session takes it back.
THEOREM AnswerIsKept == Spec => [][DueStays]_vars
<1>1. GateInv /\ [Next]_vars => DueStays
  <2> SUFFICES ASSUME GateInv, [Next]_vars, NEW h \in Hypothesis, Due(h), pc' = "waiting"
               PROVE  Due(h)'
    BY DEF DueStays
  <2>1. CASE UNCHANGED vars
    BY <2>1 DEF vars, Due, Answered, Chain, Rows
  <2>2. ASSUME NEW r \in Rows, Researcher(r) PROVE Due(h)'
    <3>1. Answers(r)
      BY <2>2, AnswerFacts DEF GateInv
    <3>2. PICK x \in Answered(Chain) : about[x] = h
      BY DEF Due
    <3>3. x \in Row \ {r}
      BY <3>1, <3>2, IndexFacts DEF GateInv, Indexed, Answered, Answers
    <3>4. x \in Answered(Chain)'
      BY <3>1, <3>2, <3>3 DEF Answered, Answers, Chain, Rows
    <3> QED BY <3>1, <3>2, <3>4 DEF Due, Answers, planVars, waitVars
  <2>3. ASSUME NEW g \in Hypothesis, Preparation(g) \/ Test(g) \/ SyncStatus(g) PROVE FALSE
    BY <2>3 DEF Preparation, Withdraw, Ask, StillPending, TakeAnswer, Asking, Reject, Approve,
        Decided, Test, SyncStatus, Due
  <2>4. CASE Begin \/ Stop \/ Plan \/ Resolve \/ Select \/ ApproverFails \/ Approved \/ Wake
    BY <2>4 DEF Begin, Stop, Plan, Resolve, Select, ApproverFails, Approved, Wake, Goto, Due
  <2>5. CASE Prepared \/ EndCycle \/ ReviewOpportunity \/ ReviewDecision \/ EvaluationFails
             \/ EvaluateDecisions
    BY <2>5 DEF Prepared, EndCycle, ReviewOpportunity, ReviewDecision, EvaluationFails,
        EvaluateDecisions, Due
  <2> QED BY <2>1, <2>2, <2>3, <2>4, <2>5 DEF Next
<1> QED BY <1>1, GateInvariant, PTL DEF Spec
=============================================================================
