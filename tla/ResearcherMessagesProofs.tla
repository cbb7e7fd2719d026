----------------------- MODULE ResearcherMessagesProofs -----------------------
(***************************************************************************)
(* What the researcher may count on, for any number of terminals, messages *)
(* and questions: an inbox that hardly exceeds its limit, nothing marked   *)
(* as read that was not, one answer per request, and a signal that stops.  *)
(***************************************************************************)
EXTENDS ResearcherMessages, NaturalOrder, FiniteSetTheorems, TLAPS

\* TypeOK in parts: the inbox and the desks, the process, the planner and the
\* agents, the history.
InboxTyped ==
  /\ posted \in 0..MaxMessages
  /\ to \in [Message -> Session \union {0}] /\ tipo \in [Message -> Tipos]
  /\ used \subseteq Messages
  /\ posting \in [Terminal -> [to : Session \union {0}, tipo : Tipos]]

ProcessTyped ==
  /\ session \in Session \union {0} /\ phase \in {"out", "starting", "running"} \union Clearing
  /\ interrupted \in BOOLEAN /\ early \in BOOLEAN
  /\ told \in BOOLEAN /\ signalled \in BOOLEAN /\ caught \in BOOLEAN
  /\ taken \subseteq used

ReadersTyped ==
  /\ planner \in {"idle", "ready", "asked", "marking"}
  /\ block \subseteq Messages /\ late \subseteq Rows
  /\ ask \in [Question -> {"idle", "inserting", "waiting", "holding"}]
  /\ planner # "idle" => Quiet

HistoryTyped ==
  /\ answering \in [Terminal -> Row \union {0}]
  /\ prompted \subseteq Messages /\ heard \subseteq Rows /\ dropped \subseteq Rows
  /\ word \in [Row -> SUBSET Terminal] /\ accepted \subseteq Terminal \X Row

\* A planner or an agent works in a process that runs the loop, which has a session.
Alive ==
  /\ phase # "out" => session \in Session
  /\ planner # "idle" \/ ~Quiet => phase = "running"

\* The late answers of a prompt were given, and an agent waits for a row.
LateAnswered == \A r \in late : estado[r] # "pendente"

Awaited == \A q \in Question : ask[q] = "waiting" =>
  \E r \in Rows \ consumed : about[r] = q /\ of[r] \in Chain

\* What is being marked was in the prompt.
Marked == planner \in {"asked", "marking"} => block \subseteq prompted /\ late \subseteq heard

\* Nobody was told of an answer to what is still pending.
Unanswered == \A p \in Terminal, r \in Row : <<p, r>> \in accepted => estado[r] # "pendente"

\* A signal that came before the test of clear_interrupt says so; one that came
\* inside it is caught.
Heeded ==
  /\ phase = "out" => ~signalled /\ ~caught
  /\ signalled /\ phase \in Clearing => caught
  /\ signalled /\ ~caught => interrupted /\ (phase = "starting" => early)
  /\ phase = "starting" => ~caught

MessagesInv ==
  /\ TypeOK /\ Alive /\ LateAnswered /\ Awaited /\ Marked /\ Unanswered /\ Heeded
  /\ ReadBeforeConsumed /\ FirstAnswerStands
-----------------------------------------------------------------------------
\* The type invariant is the conjunction of its parts.
LEMMA TypeParts ==
  TypeOK <=> GateTypeOK /\ InboxTyped /\ ProcessTyped /\ ReadersTyped /\ HistoryTyped
BY DEF TypeOK, InboxTyped, ProcessTyped, ReadersTyped, HistoryTyped

\* The invariant is there in the first state.
LEMMA MessagesInit == Init => MessagesInv
<1> SUFFICES ASSUME Init PROVE MessagesInv
  OBVIOUS
<1> USE GateAssumption, InboxAssumption DEF Init, GateInit
<1>1. GateTypeOK
  BY DEF GateTypeOK, Row, Rows
<1>2. InboxTyped
  BY DEF InboxTyped, Message, Messages, Tipos, Idle
<1>3. ProcessTyped
  BY DEF ProcessTyped
<1>4. ReadersTyped
  BY DEF ReadersTyped, Quiet
<1>5. HistoryTyped
  BY DEF HistoryTyped
<1>6. Alive /\ LateAnswered /\ Awaited /\ Marked /\ Unanswered /\ Heeded
  BY DEF Alive, LateAnswered, Awaited, Marked, Unanswered, Heeded, Quiet
<1>7. ReadBeforeConsumed /\ FirstAnswerStands
  BY DEF ReadBeforeConsumed, FirstAnswerStands, Question
<1> QED BY <1>1, <1>2, <1>3, <1>4, <1>5, <1>6, <1>7, TypeParts DEF MessagesInv

\* What an agent takes is there: a row about its question, answered and not consumed.
Takes(q, r) ==
  /\ r \in Rows \ consumed
  /\ about[r] = q
  /\ estado[r] # "pendente"
  /\ ask[q] = "waiting"
  /\ ask' = [ask EXCEPT ![q] = "holding"]
  /\ consumed' = consumed \union {r}
  /\ UNCHANGED <<asked, of, about, estado, inboxVars, terminalVars, processVars, stopVars,
                 plannerVars, readVars, wordVars>>

\* find_in_chain returns a row that is there.
LEMMA TakenIsThere ==
  ASSUME MessagesInv
  PROVE \A q \in Question : TakeAnswer(q) => \E r \in Row : Takes(q, r)
<1> SUFFICES ASSUME NEW q \in Question, TakeAnswer(q) PROVE \E r \in Row : Takes(q, r)
  OBVIOUS
<1>1. Unconsumed(q, Chain) # {} /\ Unconsumed(q, Chain) \subseteq 0..asked /\ asked \in Nat
  <2>1. asked \in Nat /\ Awaited /\ ask[q] = "waiting"
    BY GateAssumption DEF MessagesInv, TypeOK, GateTypeOK, TakeAnswer
  <2>2. PICK r \in Rows \ consumed : about[r] = q /\ of[r] \in Chain
    BY <2>1 DEF Awaited
  <2>3. Unconsumed(q, Chain) \subseteq Rows /\ r \in Unconsumed(q, Chain)
    BY <2>2 DEF Unconsumed
  <2> QED BY <2>1, <2>3 DEF Rows
<1>2. Found(q, Chain) \in Unconsumed(q, Chain)
  <2>1. \E x \in Unconsumed(q, Chain) : \A y \in Unconsumed(q, Chain) : x >= y
    BY <1>1, Greatest
  <2> QED BY <2>1 DEF Found, Max
<1>3. Found(q, Chain) \in Row
  BY <1>2, GateAssumption DEF Unconsumed, MessagesInv, TypeOK, GateTypeOK, Row, Rows
<1> QED BY <1>2, <1>3 DEF TakeAnswer, Takes, Consume, Unconsumed

\* The rows of the gate keep their types, and only an answer is consumed.
LEMMA GateStep == ASSUME MessagesInv, [Next]_vars PROVE GateTypeOK'
<1>0. \A q \in Question : TakeAnswer(q) => \E r \in Row : Takes(q, r)
  BY TakenIsThere
<1> USE GateAssumption, InboxAssumption DEF MessagesInv, TypeOK, GateTypeOK, gateVars, Row, Rows
<1>1. ASSUME NEW p \in Terminal, Reply(p) PROVE GateTypeOK'
    BY <1>1 DEF Reply, Answer
<1>2. CASE MarkLate
    BY <1>2 DEF MarkLate, Consume, LateAnswered
<1>3. ASSUME NEW q \in Question, InsertRequest(q) PROVE GateTypeOK'
    BY <1>3 DEF InsertRequest, Insert, Alive, Quiet, Question
<1>4. ASSUME NEW q \in Question, NEW r \in Row, Takes(q, r) PROVE GateTypeOK'
    BY <1>4 DEF Takes
<1>5. CASE Begin \/ StartLoop \/ Stop \/ Signal \/ TakeCommands \/ ApplyCommands
    BY <1>5 DEF Begin, StartLoop, KeepEarly, FindNone, ClearEarly, ClearInterrupt, Stop,
        Signal, TakeCommands, ApplyCommands
<1>6. CASE ReadMessages \/ Prompt \/ ConsumeMessages \/ Planned
    BY <1>6 DEF ReadMessages, Prompt, ConsumeMessages, Planned
<1>7. ASSUME NEW p \in Terminal, (\E t \in Tipos : Count(p, t)) \/ Post(p) \/ Open(p) \/ Refused(p)
      PROVE GateTypeOK'
    BY <1>7 DEF Count, Post, Open, Refused
<1>8. ASSUME NEW q \in Question, Raise(q) \/ GiveUp(q) \/ Hear(q)
      PROVE GateTypeOK'
    BY <1>8 DEF Raise, GiveUp, Hear
<1>9. CASE UNCHANGED vars
  BY <1>9 DEF vars
<1> QED BY <1>0, <1>1, <1>2, <1>3, <1>4, <1>5, <1>6, <1>7, <1>8, <1>9 DEF Next, Process, Planner, Desk, Agent

\* Messages are posted and used, and never lost.
LEMMA InboxStep == ASSUME MessagesInv, [Next]_vars PROVE InboxTyped'
<1> USE GateAssumption, InboxAssumption DEF MessagesInv, TypeOK, InboxTyped, inboxVars,
      terminalVars, Message, Messages, Tipos
<1>1. CASE TakeCommands
    BY <1>1 DEF TakeCommands, Waiting
<1>2. CASE ConsumeMessages
    BY <1>2 DEF ConsumeMessages, Consumable
<1>3. ASSUME NEW p \in Terminal, NEW t \in Tipos, Count(p, t) PROVE InboxTyped'
    BY <1>3 DEF Count, Alive
<1>4. ASSUME NEW p \in Terminal, Post(p) PROVE InboxTyped'
    BY <1>4 DEF Post, Idle
<1>5. CASE Begin \/ StartLoop \/ Stop \/ Signal \/ ApplyCommands
    BY <1>5 DEF Begin, StartLoop, KeepEarly, FindNone, ClearEarly, ClearInterrupt, Stop,
        Signal, ApplyCommands
<1>6. CASE ReadMessages \/ Prompt \/ MarkLate \/ Planned
    BY <1>6 DEF ReadMessages, Prompt, MarkLate, Planned
<1>7. ASSUME NEW p \in Terminal, Open(p) \/ Reply(p) \/ Refused(p)
      PROVE InboxTyped'
    BY <1>7 DEF Open, Reply, Refused
<1>8. ASSUME NEW q \in Question, Raise(q) \/ InsertRequest(q) \/ GiveUp(q) \/ TakeAnswer(q) \/ Hear(q)
      PROVE InboxTyped'
    BY <1>8 DEF Raise, InsertRequest, GiveUp, TakeAnswer, Hear
<1>9. CASE UNCHANGED vars
  BY <1>9 DEF vars
<1> QED BY <1>1, <1>2, <1>3, <1>4, <1>5, <1>6, <1>7, <1>8, <1>9 DEF Next, Process, Planner, Desk, Agent

\* The process keeps its types.
LEMMA ProcessStep == ASSUME MessagesInv, [Next]_vars PROVE ProcessTyped'
<1> USE GateAssumption, InboxAssumption DEF MessagesInv, TypeOK, ProcessTyped, Clearing, inboxVars,
      processVars, stopVars
<1>1. CASE Begin
    BY <1>1 DEF Begin
<1>2. CASE StartLoop
    BY <1>2 DEF StartLoop, KeepEarly, FindNone, ClearEarly, ClearInterrupt
<1>3. CASE Stop
    BY <1>3 DEF Stop
<1>4. CASE Signal
    BY <1>4 DEF Signal
<1>5. CASE TakeCommands
    BY <1>5 DEF TakeCommands
<1>6. CASE ConsumeMessages
    BY <1>6 DEF ConsumeMessages
<1>7. CASE ApplyCommands
    BY <1>7 DEF ApplyCommands
<1>8. CASE ReadMessages \/ Prompt \/ MarkLate \/ Planned
    BY <1>8 DEF ReadMessages, Prompt, MarkLate, Planned
<1>9. ASSUME NEW p \in Terminal, (\E t \in Tipos : Count(p, t)) \/ Post(p) \/ Open(p) \/ Reply(p) \/ Refused(p)
      PROVE ProcessTyped'
    BY <1>9 DEF Count, Post, Open, Reply, Refused
<1>10. ASSUME NEW q \in Question, Raise(q) \/ InsertRequest(q) \/ GiveUp(q) \/ TakeAnswer(q) \/ Hear(q)
      PROVE ProcessTyped'
    BY <1>10 DEF Raise, InsertRequest, GiveUp, TakeAnswer, Hear
<1>11. CASE UNCHANGED vars
  BY <1>11 DEF vars
<1> QED BY <1>1, <1>2, <1>3, <1>4, <1>5, <1>6, <1>7, <1>8, <1>9, <1>10, <1>11 DEF Next, Process, Planner, Desk, Agent

\* The planner and the agents never work at once.
LEMMA ReadersStep == ASSUME MessagesInv, [Next]_vars PROVE ReadersTyped'
<1>0. \A q \in Question : TakeAnswer(q) => \E r \in Row : Takes(q, r)
  BY TakenIsThere
<1> USE GateAssumption, InboxAssumption DEF MessagesInv, TypeOK, GateTypeOK, ReadersTyped,
      inboxVars, plannerVars, gateVars, Messages, Rows, Quiet
<1>1. CASE Stop
    BY <1>1 DEF Stop
<1>2. CASE ReadMessages
    BY <1>2 DEF ReadMessages, Answered
<1>3. CASE Prompt
    BY <1>3 DEF Prompt
<1>4. CASE ConsumeMessages
    BY <1>4 DEF ConsumeMessages
<1>5. CASE MarkLate
    BY <1>5 DEF MarkLate, Consume
<1>6. CASE Planned
    BY <1>6 DEF Planned
<1>7. ASSUME NEW p \in Terminal, Post(p) PROVE ReadersTyped'
    BY <1>7 DEF Post
<1>8. ASSUME NEW p \in Terminal, Reply(p) PROVE ReadersTyped'
    BY <1>8 DEF Reply, Answer
<1>9. ASSUME NEW q \in Question, Raise(q) PROVE ReadersTyped'
    BY <1>9 DEF Raise
<1>10. ASSUME NEW q \in Question, InsertRequest(q) PROVE ReadersTyped'
    BY <1>10 DEF InsertRequest, Insert
<1>11. ASSUME NEW q \in Question, GiveUp(q) PROVE ReadersTyped'
    BY <1>11 DEF GiveUp
<1>12. ASSUME NEW q \in Question, NEW r \in Row, Takes(q, r) PROVE ReadersTyped'
    BY <1>12 DEF Takes
<1>13. ASSUME NEW q \in Question, Hear(q) PROVE ReadersTyped'
    BY <1>13 DEF Hear
<1>14. CASE Begin \/ StartLoop \/ Signal \/ TakeCommands \/ ApplyCommands
    BY <1>14 DEF Begin, StartLoop, KeepEarly, FindNone, ClearEarly, ClearInterrupt, Signal,
        TakeCommands, ApplyCommands
<1>15. ASSUME NEW p \in Terminal, (\E t \in Tipos : Count(p, t)) \/ Open(p) \/ Refused(p)
      PROVE ReadersTyped'
    BY <1>15 DEF Count, Open, Refused
<1>16. CASE UNCHANGED vars
  BY <1>16 DEF vars
<1> QED BY <1>0, <1>1, <1>2, <1>3, <1>4, <1>5, <1>6, <1>7, <1>8, <1>9, <1>10, <1>11, <1>12,
        <1>13, <1>14, <1>15, <1>16 DEF Next, Process, Planner, Desk, Agent

\* The history is about messages, requests and terminals that are there.
LEMMA HistoryStep == ASSUME MessagesInv, [Next]_vars PROVE HistoryTyped'
<1>0. \A q \in Question : TakeAnswer(q) => \E r \in Row : Takes(q, r)
  BY TakenIsThere
<1> USE GateAssumption, InboxAssumption DEF MessagesInv, TypeOK, GateTypeOK, HistoryTyped,
      inboxVars, terminalVars, readVars, wordVars, gateVars, Messages, Rows, Row
<1>1. CASE Stop
    BY <1>1 DEF Stop
<1>2. CASE Prompt
    BY <1>2 DEF Prompt
<1>3. ASSUME NEW p \in Terminal, Post(p) PROVE HistoryTyped'
    BY <1>3 DEF Post
<1>4. ASSUME NEW p \in Terminal, Open(p) PROVE HistoryTyped'
    BY <1>4 DEF Open
<1>5. ASSUME NEW p \in Terminal, Reply(p) PROVE HistoryTyped'
    BY <1>5 DEF Reply, Answer
<1>6. ASSUME NEW p \in Terminal, Refused(p) PROVE HistoryTyped'
    BY <1>6 DEF Refused
<1>7. ASSUME NEW q \in Question, InsertRequest(q) PROVE HistoryTyped'
    BY <1>7 DEF InsertRequest, Insert
<1>8. ASSUME NEW q \in Question, NEW r \in Row, Takes(q, r) PROVE HistoryTyped'
    BY <1>8 DEF Takes
<1>9. CASE MarkLate
    BY <1>9 DEF MarkLate, Consume
<1>10. ASSUME NEW q \in Question, Hear(q) PROVE HistoryTyped'
    BY <1>10 DEF Hear
<1>11. CASE Begin \/ StartLoop \/ Signal \/ TakeCommands \/ ApplyCommands
    BY <1>11 DEF Begin, StartLoop, KeepEarly, FindNone, ClearEarly, ClearInterrupt, Signal,
        TakeCommands, ApplyCommands
<1>12. CASE ReadMessages \/ ConsumeMessages \/ Planned
    BY <1>12 DEF ReadMessages, ConsumeMessages, Planned
<1>13. ASSUME NEW p \in Terminal, (\E t \in Tipos : Count(p, t))
      PROVE HistoryTyped'
    BY <1>13 DEF Count
<1>14. ASSUME NEW q \in Question, Raise(q) \/ GiveUp(q)
      PROVE HistoryTyped'
    BY <1>14 DEF Raise, GiveUp
<1>15. CASE UNCHANGED vars
  BY <1>15 DEF vars
<1> QED BY <1>0, <1>1, <1>2, <1>3, <1>4, <1>5, <1>6, <1>7, <1>8, <1>9, <1>10, <1>11, <1>12,
        <1>13, <1>14, <1>15 DEF Next, Process, Planner, Desk, Agent

\* Whoever works has a process and a session.
LEMMA AliveStep == ASSUME MessagesInv, [Next]_vars PROVE Alive'
<1>0. \A q \in Question : TakeAnswer(q) => \E r \in Row : Takes(q, r)
  BY TakenIsThere
<1> USE GateAssumption, InboxAssumption DEF MessagesInv, TypeOK, Alive, Quiet, processVars,
      plannerVars
<1>1. CASE Begin
    BY <1>1 DEF Begin
<1>2. CASE StartLoop
    BY <1>2 DEF StartLoop, KeepEarly, FindNone, ClearEarly, ClearInterrupt
<1>3. CASE Stop
    BY <1>3 DEF Stop
<1>4. CASE Signal
    BY <1>4 DEF Signal
<1>5. CASE ReadMessages
    BY <1>5 DEF ReadMessages
<1>6. CASE Prompt
    BY <1>6 DEF Prompt
<1>7. CASE ConsumeMessages
    BY <1>7 DEF ConsumeMessages
<1>8. CASE Planned
    BY <1>8 DEF Planned
<1>9. ASSUME NEW q \in Question, Raise(q) PROVE Alive'
    BY <1>9 DEF Raise
<1>10. ASSUME NEW q \in Question, InsertRequest(q) PROVE Alive'
    BY <1>10 DEF InsertRequest
<1>11. ASSUME NEW q \in Question, GiveUp(q) PROVE Alive'
    BY <1>11 DEF GiveUp
<1>12. ASSUME NEW q \in Question, NEW r \in Row, Takes(q, r) PROVE Alive'
    BY <1>12 DEF Takes
<1>13. ASSUME NEW q \in Question, Hear(q) PROVE Alive'
    BY <1>13 DEF Hear
<1>14. CASE TakeCommands \/ ApplyCommands
    BY <1>14 DEF TakeCommands, ApplyCommands
<1>15. CASE MarkLate
    BY <1>15 DEF MarkLate
<1>16. ASSUME NEW p \in Terminal, (\E t \in Tipos : Count(p, t)) \/ Post(p) \/ Open(p) \/ Reply(p) \/ Refused(p)
      PROVE Alive'
    BY <1>16 DEF Count, Post, Open, Reply, Refused
<1>17. CASE UNCHANGED vars
  BY <1>17 DEF vars
<1> QED BY <1>0, <1>1, <1>2, <1>3, <1>4, <1>5, <1>6, <1>7, <1>8, <1>9, <1>10, <1>11, <1>12,
        <1>13, <1>14, <1>15, <1>16, <1>17 DEF Next, Process, Planner, Desk, Agent

\* What is being marked was in the prompt, and was answered.
LEMMA LinksStep == ASSUME MessagesInv, [Next]_vars PROVE LateAnswered' /\ Marked'
<1>0. \A q \in Question : TakeAnswer(q) => \E r \in Row : Takes(q, r)
  BY TakenIsThere
<1> USE GateAssumption, InboxAssumption DEF MessagesInv, TypeOK, GateTypeOK, LateAnswered,
      Marked, plannerVars, readVars, gateVars, Row, Rows
<1>1. CASE Stop
    BY <1>1 DEF Stop
<1>2. CASE ReadMessages
    BY <1>2 DEF ReadMessages, Answered
<1>3. CASE Prompt
    BY <1>3 DEF Prompt
<1>4. CASE ConsumeMessages
    BY <1>4 DEF ConsumeMessages
<1>5. CASE MarkLate
    BY <1>5 DEF MarkLate, Consume
<1>6. CASE Planned
    BY <1>6 DEF Planned
<1>7. ASSUME NEW p \in Terminal, Reply(p) PROVE LateAnswered' /\ Marked'
    BY <1>7 DEF Reply, Answer
<1>8. ASSUME NEW q \in Question, InsertRequest(q) PROVE LateAnswered' /\ Marked'
    BY <1>8 DEF InsertRequest, Insert
<1>9. ASSUME NEW q \in Question, NEW r \in Row, Takes(q, r) PROVE LateAnswered' /\ Marked'
    BY <1>9 DEF Takes
<1>10. ASSUME NEW q \in Question, Hear(q) PROVE LateAnswered' /\ Marked'
    BY <1>10 DEF Hear
<1>11. CASE Begin \/ StartLoop \/ Signal \/ TakeCommands \/ ApplyCommands
    BY <1>11 DEF Begin, StartLoop, KeepEarly, FindNone, ClearEarly, ClearInterrupt, Signal,
        TakeCommands, ApplyCommands
<1>12. ASSUME NEW p \in Terminal, (\E t \in Tipos : Count(p, t)) \/ Post(p) \/ Open(p) \/ Refused(p)
      PROVE LateAnswered' /\ Marked'
    BY <1>12 DEF Count, Post, Open, Refused
<1>13. ASSUME NEW q \in Question, Raise(q) \/ GiveUp(q)
      PROVE LateAnswered' /\ Marked'
    BY <1>13 DEF Raise, GiveUp
<1>14. CASE UNCHANGED vars
  BY <1>14 DEF vars
<1> QED BY <1>0, <1>1, <1>2, <1>3, <1>4, <1>5, <1>6, <1>7, <1>8, <1>9, <1>10, <1>11, <1>12,
        <1>13, <1>14 DEF Next, Process, Planner, Desk, Agent

\* An agent waits for a row that is there.
LEMMA AwaitedStep == ASSUME MessagesInv, [Next]_vars PROVE Awaited'
<1>0. \A q \in Question : TakeAnswer(q) => \E r \in Row : Takes(q, r)
  BY TakenIsThere
<1> USE GateAssumption, InboxAssumption DEF MessagesInv, TypeOK, GateTypeOK, Awaited, Alive,
      Quiet, Chain, Rows, Row, gateVars, processVars, Question
<1>1. CASE Begin
    BY <1>1 DEF Begin
<1>2. CASE Stop
    BY <1>2 DEF Stop
<1>3. CASE MarkLate
    BY <1>3 DEF MarkLate, Consume
<1>4. ASSUME NEW p \in Terminal, Reply(p) PROVE Awaited'
    BY <1>4 DEF Reply, Answer
<1>5. ASSUME NEW q \in Question, Raise(q) PROVE Awaited'
    BY SMTT(30), <1>5 DEF Raise, Unconsumed
<1>6. ASSUME NEW q \in Question, InsertRequest(q) PROVE Awaited'
    BY <1>6 DEF InsertRequest, Insert
<1>7. ASSUME NEW q \in Question, GiveUp(q) PROVE Awaited'
    BY <1>7 DEF GiveUp
<1>8. ASSUME NEW q \in Question, NEW r \in Row, Takes(q, r) PROVE Awaited'
    BY <1>8 DEF Takes
<1>9. ASSUME NEW q \in Question, Hear(q) PROVE Awaited'
    BY <1>9 DEF Hear
<1>10. ASSUME UNCHANGED <<asked, of, about, consumed, ask, session>> PROVE Awaited'
  BY <1>10
<1>11. CASE StartLoop \/ Signal \/ TakeCommands \/ ApplyCommands
    BY <1>11, <1>10 DEF StartLoop, KeepEarly, FindNone, ClearEarly, ClearInterrupt, Signal,
        TakeCommands, ApplyCommands
<1>12. CASE ReadMessages \/ Prompt \/ ConsumeMessages \/ Planned
    BY <1>12, <1>10 DEF ReadMessages, Prompt, ConsumeMessages, Planned
<1>13. ASSUME NEW p \in Terminal, (\E t \in Tipos : Count(p, t)) \/ Post(p) \/ Open(p) \/ Refused(p)
      PROVE Awaited'
    BY <1>13, <1>10 DEF Count, Post, Open, Refused
<1>14. CASE UNCHANGED vars
  BY <1>14, <1>10 DEF vars
<1> QED BY <1>0, <1>1, <1>2, <1>3, <1>4, <1>5, <1>6, <1>7, <1>8, <1>9, <1>11, <1>12, <1>13,
        <1>14 DEF Next, Process, Planner, Desk, Agent

\* The first answer to a request is the last.
LEMMA AnswerStep == ASSUME MessagesInv, [Next]_vars PROVE Unanswered' /\ FirstAnswerStands'
<1>0. \A q \in Question : TakeAnswer(q) => \E r \in Row : Takes(q, r)
  BY TakenIsThere
<1> USE GateAssumption, InboxAssumption DEF MessagesInv, TypeOK, GateTypeOK, Unanswered,
      FirstAnswerStands, wordVars, gateVars, Row, Rows
<1>1. CASE MarkLate
    BY <1>1 DEF MarkLate, Consume
<1>2. ASSUME NEW p \in Terminal, Reply(p) PROVE Unanswered' /\ FirstAnswerStands'
    BY <1>2 DEF Reply, Answer
<1>3. ASSUME NEW q \in Question, InsertRequest(q) PROVE Unanswered' /\ FirstAnswerStands'
    BY <1>3 DEF InsertRequest, Insert
<1>4. ASSUME NEW q \in Question, NEW r \in Row, Takes(q, r) PROVE Unanswered' /\ FirstAnswerStands'
    BY <1>4 DEF Takes
<1>5. CASE Begin \/ StartLoop \/ Stop \/ Signal \/ TakeCommands \/ ApplyCommands
    BY <1>5 DEF Begin, StartLoop, KeepEarly, FindNone, ClearEarly, ClearInterrupt, Stop,
        Signal, TakeCommands, ApplyCommands
<1>6. CASE ReadMessages \/ Prompt \/ ConsumeMessages \/ Planned
    BY <1>6 DEF ReadMessages, Prompt, ConsumeMessages, Planned
<1>7. ASSUME NEW p \in Terminal, (\E t \in Tipos : Count(p, t)) \/ Post(p) \/ Open(p) \/ Refused(p)
      PROVE Unanswered' /\ FirstAnswerStands'
    BY <1>7 DEF Count, Post, Open, Refused
<1>8. ASSUME NEW q \in Question, Raise(q) \/ GiveUp(q) \/ Hear(q)
      PROVE Unanswered' /\ FirstAnswerStands'
    BY <1>8 DEF Raise, GiveUp, Hear
<1>9. CASE UNCHANGED vars
  BY <1>9 DEF vars
<1> QED BY <1>0, <1>1, <1>2, <1>3, <1>4, <1>5, <1>6, <1>7, <1>8, <1>9 DEF Next, Process, Planner, Desk, Agent

\* A signal is not forgotten when the loop starts.
LEMMA HeededStep == ASSUME MessagesInv, [Next]_vars PROVE Heeded'
<1> USE GateAssumption, InboxAssumption DEF MessagesInv, Heeded, Clearing, processVars, stopVars
<1>1. CASE Begin
    BY <1>1 DEF Begin
<1>2. CASE StartLoop
    BY <1>2 DEF StartLoop, KeepEarly, FindNone, ClearEarly, ClearInterrupt
<1>3. CASE Stop
    BY <1>3 DEF Stop
<1>4. CASE Signal
    BY <1>4 DEF Signal
<1>5. CASE TakeCommands
    BY <1>5 DEF TakeCommands
<1>6. CASE ApplyCommands
    BY <1>6 DEF ApplyCommands
<1>7. CASE ReadMessages \/ Prompt \/ ConsumeMessages \/ MarkLate \/ Planned
    BY <1>7 DEF ReadMessages, Prompt, ConsumeMessages, MarkLate, Planned
<1>8. ASSUME NEW p \in Terminal, (\E t \in Tipos : Count(p, t)) \/ Post(p) \/ Open(p) \/ Reply(p) \/ Refused(p)
      PROVE Heeded'
    BY <1>8 DEF Count, Post, Open, Reply, Refused
<1>9. ASSUME NEW q \in Question, Raise(q) \/ InsertRequest(q) \/ GiveUp(q) \/ TakeAnswer(q) \/ Hear(q)
      PROVE Heeded'
    BY <1>9 DEF Raise, InsertRequest, GiveUp, TakeAnswer, Hear
<1>10. CASE UNCHANGED vars
  BY <1>10 DEF vars
<1> QED BY <1>1, <1>2, <1>3, <1>4, <1>5, <1>6, <1>7, <1>8, <1>9, <1>10 DEF Next, Process, Planner, Desk, Agent

\* Nothing is marked before it was read.
LEMMA ReadStep == ASSUME MessagesInv, [Next]_vars PROVE ReadBeforeConsumed'
<1>0. \A q \in Question : TakeAnswer(q) => \E r \in Row : Takes(q, r)
  BY TakenIsThere
<1> USE GateAssumption, InboxAssumption DEF MessagesInv, TypeOK, GateTypeOK, Marked,
      ReadBeforeConsumed, gateVars, inboxVars, readVars, Rows, Row, Message, Messages, Question
<1>1. CASE Stop
    BY <1>1 DEF Stop
<1>2. CASE TakeCommands
    BY <1>2 DEF TakeCommands, Waiting
<1>3. CASE Prompt
    BY <1>3 DEF Prompt
<1>4. CASE ConsumeMessages
    BY <1>4 DEF ConsumeMessages, Consumable
<1>5. ASSUME NEW p \in Terminal, Post(p) PROVE ReadBeforeConsumed'
    BY <1>5 DEF Post
<1>6. ASSUME NEW p \in Terminal, Reply(p) PROVE ReadBeforeConsumed'
    BY <1>6 DEF Reply, Answer
<1>7. CASE MarkLate
    BY <1>7 DEF MarkLate, Consume
<1>8. ASSUME NEW q \in Question, InsertRequest(q) PROVE ReadBeforeConsumed'
    BY <1>8 DEF InsertRequest, Insert
<1>9. ASSUME NEW q \in Question, Raise(q) PROVE ReadBeforeConsumed'
    BY <1>9 DEF Raise
<1>10. ASSUME NEW q \in Question, GiveUp(q) PROVE ReadBeforeConsumed'
    BY <1>10 DEF GiveUp
<1>11. ASSUME NEW q \in Question, NEW r \in Row, Takes(q, r) PROVE ReadBeforeConsumed'
    BY <1>11 DEF Takes
<1>12. ASSUME NEW q \in Question, Hear(q) PROVE ReadBeforeConsumed'
    BY <1>12 DEF Hear
<1>13. CASE Begin \/ StartLoop \/ Signal \/ ApplyCommands
    BY <1>13 DEF Begin, StartLoop, KeepEarly, FindNone, ClearEarly, ClearInterrupt, Signal,
        ApplyCommands
<1>14. CASE ReadMessages \/ Planned
    BY <1>14 DEF ReadMessages, Planned
<1>15. ASSUME NEW p \in Terminal, (\E t \in Tipos : Count(p, t)) \/ Open(p) \/ Refused(p)
      PROVE ReadBeforeConsumed'
    BY <1>15 DEF Count, Open, Refused
<1>16. CASE UNCHANGED vars
  BY <1>16 DEF vars
<1> QED BY <1>0, <1>1, <1>2, <1>3, <1>4, <1>5, <1>6, <1>7, <1>8, <1>9, <1>10, <1>11, <1>12,
        <1>13, <1>14, <1>15, <1>16 DEF Next, Process, Planner, Desk, Agent

\* No step breaks the invariant of the messages.
LEMMA MessagesStep == MessagesInv /\ [Next]_vars => MessagesInv'
<1> SUFFICES ASSUME MessagesInv, [Next]_vars PROVE MessagesInv'
  OBVIOUS
<1>1. TypeOK'
  <2>1. TypeOK' <=> GateTypeOK' /\ InboxTyped' /\ ProcessTyped' /\ ReadersTyped' /\ HistoryTyped'
    BY DEF TypeOK, InboxTyped, ProcessTyped, ReadersTyped, HistoryTyped
  <2> QED BY <2>1, GateStep, InboxStep, ProcessStep, ReadersStep, HistoryStep
<1>2. Alive' /\ LateAnswered' /\ Awaited' /\ Marked' /\ Heeded'
  BY AliveStep, LinksStep, AwaitedStep, HeededStep
<1>3. Unanswered' /\ FirstAnswerStands' /\ ReadBeforeConsumed'
  BY AnswerStep, ReadStep
<1> QED BY <1>1, <1>2, <1>3 DEF MessagesInv

\* The invariant behind the theorems about messages.
LEMMA MessagesAlways == Spec => []MessagesInv
BY MessagesInit, MessagesStep, PTL DEF Spec

\* Every variable keeps its type, however the process stops.
THEOREM TypeCorrect == Spec => []TypeOK
<1>1. MessagesInv => TypeOK
  BY DEF MessagesInv
<1> QED BY <1>1, MessagesAlways, PTL

\* Guidance and answers are marked consumed only when they were read, whatever is
\* posted or answered meanwhile and wherever the process stops.
THEOREM NothingUnread == Spec => []ReadBeforeConsumed
<1>1. MessagesInv => ReadBeforeConsumed
  BY DEF MessagesInv
<1> QED BY <1>1, MessagesAlways, PTL

\* Of any number of terminals that answer one request, the one that was told so has
\* the last word.
THEOREM OneAnswer == Spec => []FirstAnswerStands
<1>1. MessagesInv => FirstAnswerStands
  BY DEF MessagesInv
<1> QED BY <1>1, MessagesAlways, PTL

\* A signal acknowledged before the test of clear_interrupt, or once it is done, is
\* still there in the loop, for any terminals and whatever is asked or applied
\* meanwhile; only one that comes between the test and the clears may be erased.
THEOREM SignalsStop == Spec => []SignalHeeded
<1>1. MessagesInv => SignalHeeded
  BY DEF MessagesInv, Heeded, SignalHeeded
<1> QED BY <1>1, MessagesAlways, PTL

-----------------------------------------------------------------------------
\* The terminals that counted for session s and did not insert yet.
Pens(s) == {p \in Terminal : posting[p].to = s}

\* Whoever counts finds a place; the others that counted too may exceed the limit.
Bounded == \A s \in Session :
  Cardinality(Waiting(s)) + Cardinality(Pens(s)) < InboxLimit + Cardinality(Terminal)

\* What is counted is finite.
LEMMA FiniteInbox ==
  ASSUME MessagesInv, NEW s \in Session
  PROVE /\ IsFiniteSet(Waiting(s)) /\ Cardinality(Waiting(s)) \in Nat
        /\ IsFiniteSet(Pens(s)) /\ Cardinality(Pens(s)) \in Nat
        /\ Cardinality(Terminal) \in Nat
<1>1. IsFiniteSet(1..posted)
  BY FS_Interval DEF MessagesInv, TypeOK
<1>2. Waiting(s) \subseteq 1..posted /\ Pens(s) \subseteq Terminal
  BY DEF Waiting, Messages, Pens
<1> QED BY <1>1, <1>2, FS_Subset, FS_CardinalityType, InboxAssumption

\* Nothing is pending at first.
LEMMA BoundedInit == Init => Bounded
<1> SUFFICES ASSUME Init, NEW s \in Session PROVE
      Cardinality(Waiting(s)) + Cardinality(Pens(s)) < InboxLimit + Cardinality(Terminal)
  BY DEF Bounded
<1>1. Waiting(s) = {} /\ Pens(s) = {}
  BY GateAssumption DEF Init, Waiting, Messages, Pens, Idle
<1> QED BY <1>1, FS_EmptySet, FS_CardinalityType, InboxAssumption

\* Where fewer wait and no other terminal counted, the bound holds.
LEMMA BoundedShrinks ==
  ASSUME MessagesInv, Bounded, NEW s \in Session, Waiting(s)' \subseteq Waiting(s), Pens(s)' = Pens(s)
  PROVE Cardinality(Waiting(s)') + Cardinality(Pens(s)') < InboxLimit + Cardinality(Terminal)
<1>1. Cardinality(Waiting(s)') \in Nat /\ Cardinality(Waiting(s)') <= Cardinality(Waiting(s))
  BY FiniteInbox, FS_Subset, FS_CardinalityType
<1>2. Cardinality(Waiting(s)) + Cardinality(Pens(s)) < InboxLimit + Cardinality(Terminal)
  BY DEF Bounded
<1> QED BY <1>1, <1>2, FiniteInbox, InboxAssumption

\* No step goes past the limit.
LEMMA BoundedStep == ASSUME MessagesInv, Bounded, [Next]_vars PROVE Bounded'
<1> SUFFICES ASSUME NEW s \in Session
             PROVE Cardinality(Waiting(s)') + Cardinality(Pens(s)') < InboxLimit + Cardinality(Terminal)
  BY DEF Bounded
<1>1. /\ posted \in Nat /\ used \subseteq Messages
      /\ to \in [Message -> Session \union {0}]
      /\ posting \in [Terminal -> [to : Session \union {0}, tipo : Tipos]]
  BY DEF MessagesInv, TypeOK
<1>2. ASSUME NEW p \in Terminal, NEW t \in Tipos, Count(p, t)
      PROVE Cardinality(Waiting(s)') + Cardinality(Pens(s)') < InboxLimit + Cardinality(Terminal)
  <2>1. Waiting(s)' = Waiting(s)
    BY <1>2 DEF Count, inboxVars, Waiting, Messages
  <2>2. CASE s = session
    <3>1. Cardinality(Waiting(s)) < InboxLimit
      BY <1>2, <2>2 DEF Count
    <3>2. Cardinality(Pens(s)') <= Cardinality(Terminal) /\ Cardinality(Pens(s)') \in Nat
      <4>1. Pens(s)' \subseteq Terminal
        BY DEF Pens
      <4> QED BY <4>1, FS_Subset, FS_CardinalityType, InboxAssumption
    <3> QED BY <2>1, <3>1, <3>2, FiniteInbox, InboxAssumption
  <2>3. CASE s # session
    <3>1. posting[p].to = 0 /\ s # 0
      BY <1>2, GateAssumption DEF Count, Free, Idle
    <3>2. Pens(s)' = Pens(s)
      BY <1>1, <1>2, <2>3, <3>1 DEF Count, Pens
    <3> QED BY <2>1, <3>2, BoundedShrinks
  <2> QED BY <2>2, <2>3
<1>3. ASSUME NEW p \in Terminal, Post(p)
      PROVE Cardinality(Waiting(s)') + Cardinality(Pens(s)') < InboxLimit + Cardinality(Terminal)
  <2>1. s # 0
    BY GateAssumption
  <2>2. posted' = posted + 1 /\ posted' \in Message /\ used' = used
    BY <1>1, <1>3, InboxAssumption DEF Post, Message
  <2>3. CASE posting[p].to # s
    <3>1. Waiting(s)' = Waiting(s)
      BY <1>1, <1>3, <2>2, <2>3 DEF Post, Waiting, Messages, Message
    <3>2. Pens(s)' = Pens(s)
      BY <1>1, <1>3, <2>1, <2>3 DEF Post, Pens, Idle
    <3> QED BY <3>1, <3>2, BoundedShrinks
  <2>4. CASE posting[p].to = s
    <3>1. Waiting(s)' = Waiting(s) \union {posted + 1} /\ posted + 1 \notin Waiting(s)
      BY <1>1, <1>3, <2>2, <2>4 DEF Post, Waiting, Messages, Message
    <3>2. Pens(s)' = Pens(s) \ {p} /\ p \in Pens(s)
      BY <1>1, <1>3, <2>1, <2>4 DEF Post, Pens, Idle
    <3>3. Cardinality(Waiting(s)') = Cardinality(Waiting(s)) + 1
      BY <3>1, FiniteInbox, FS_AddElement
    <3>4. Cardinality(Pens(s)') = Cardinality(Pens(s)) - 1
      BY <3>2, FiniteInbox, FS_RemoveElement
    <3>5. Cardinality(Waiting(s)) + Cardinality(Pens(s)) < InboxLimit + Cardinality(Terminal)
      BY DEF Bounded
    <3> QED BY <3>3, <3>4, <3>5, FiniteInbox, InboxAssumption
  <2> QED BY <2>3, <2>4
<1>4. CASE TakeCommands \/ ConsumeMessages
  <2>1. Waiting(s)' \subseteq Waiting(s) /\ Pens(s)' = Pens(s)
    BY <1>4 DEF TakeCommands, ConsumeMessages, terminalVars, Waiting, Messages, Pens
  <2> QED BY <2>1, BoundedShrinks
<1>5. ASSUME UNCHANGED <<posted, to, used, posting>>
      PROVE Cardinality(Waiting(s)') + Cardinality(Pens(s)') < InboxLimit + Cardinality(Terminal)
  <2>1. Waiting(s)' \subseteq Waiting(s) /\ Pens(s)' = Pens(s)
    BY <1>5 DEF Waiting, Messages, Pens
  <2> QED BY <2>1, BoundedShrinks
<1> USE DEF inboxVars, terminalVars
<1>6. CASE Begin \/ StartLoop \/ Stop \/ Signal \/ ApplyCommands
  BY <1>6, <1>5 DEF Begin, StartLoop, KeepEarly, FindNone, ClearEarly, ClearInterrupt,
      Stop, Signal, ApplyCommands
<1>7. CASE ReadMessages \/ Prompt \/ MarkLate \/ Planned
  BY <1>7, <1>5 DEF ReadMessages, Prompt, MarkLate, Planned
<1>8. ASSUME NEW p \in Terminal, Open(p) \/ Reply(p) \/ Refused(p) PROVE UNCHANGED inboxVars /\ posting' = posting
  BY <1>8 DEF Open, Reply, Refused
<1>9. ASSUME NEW q \in Question, Agent(q) PROVE UNCHANGED inboxVars /\ posting' = posting
  BY <1>9 DEF Agent, Raise, InsertRequest, GiveUp, TakeAnswer, Hear
<1>10. CASE UNCHANGED vars
  BY <1>10, <1>5 DEF vars
<1> QED BY <1>2, <1>3, <1>4, <1>5, <1>6, <1>7, <1>8, <1>9, <1>10 DEF Next, Process, Planner, Desk

\* However many terminals post at once, the unread messages of a session exceed the
\* limit by less than there are terminals.
THEOREM InboxBounded == Spec => []InboxIsBounded
<1>1. MessagesInv /\ Bounded /\ [Next]_vars => (MessagesInv /\ Bounded)'
  BY MessagesStep, BoundedStep
<1>2. MessagesInv /\ Bounded => InboxIsBounded
  <2> SUFFICES ASSUME MessagesInv, Bounded, NEW s \in Session
               PROVE Cardinality(Waiting(s)) < InboxLimit + Cardinality(Terminal)
    BY DEF InboxIsBounded
  <2> QED BY FiniteInbox, InboxAssumption DEF Bounded
<1> QED BY MessagesInit, BoundedInit, <1>1, <1>2, PTL DEF Spec
=============================================================================
