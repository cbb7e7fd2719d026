-------------------------- MODULE ResearcherMessages --------------------------
(***************************************************************************)
(* What the researcher tells a research that runs: guidance and commands,  *)
(* as rows of session_inbox; answers to the questions of agents, through   *)
(* the persistent gate; and the signal that stops the process.             *)
(*                                                                         *)
(* Several terminals write at once, each in two steps (a look, then a      *)
(* write).  The process of the session has four readers: the planner puts  *)
(* guidance and late answers in its prompt and marks them afterwards; the  *)
(* agents of a cycle wait for the answers to their questions; a coroutine  *)
(* takes the commands, and marks them as it takes them; the signal handler *)
(* knows whether the loop has started, and runs between any two steps of   *)
(* clear_interrupt, which a coroutine cannot.  The planner never works     *)
(* while an agent does.  A process may stop anywhere, and the next session *)
(* of the chain goes on.                                                   *)
(*                                                                         *)
(* The only command here is parar (the others are in SubtaskDag); the mark *)
(* entregue_em, which only the terminals show, and the texts are left out. *)
(***************************************************************************)
EXTENDS PersistentGate

CONSTANTS
  Terminal,     \* the terminals of the researcher
  MaxMessages,  \* bound: rows of session_inbox
  InboxLimit    \* SESSION_INBOX_MAX_PENDING

Question == Subject  \* (subtask, digest of the question)

ASSUME InboxAssumption ==
  MaxMessages \in Nat /\ InboxLimit \in Nat \ {0} /\ IsFiniteSet(Terminal)

VARIABLES
  posted,       \* the last id given to a message
  to,           \* session_id of each message
  tipo,         \* orientacao or comando
  used,         \* messages with consumido_em
  posting,      \* what each terminal counted for, and is about to insert
  answering,    \* the request each terminal shows, or 0
  session,      \* the last session of the chain, 0 before the first
  phase,        \* its process: out, starting, clearing and cleared (in
                \* clear_interrupt), running (the loop)
  interrupted,  \* _INTERRUPT_REQUESTED
  early,        \* _INTERRUPT_BEFORE_START
  taken,        \* commands taken and not applied yet
  planner,      \* the planning: idle, ready, asked, marking
  block,        \* messages of its prompt
  late,         \* late answers of its prompt
  ask,          \* each question: idle, inserting, waiting, holding (its answer)
  prompted,     \* history: messages the planner read
  heard,        \* history: requests whose answer the planner or the agent read
  dropped,      \* history: answers an agent consumed as its process stopped
  word,         \* history: the terminal whose answer stands
  accepted,     \* history: the answers that terminals were told are recorded
  told,         \* history: was parar applied in this process, as accepted?
  signalled,    \* history: was this process signalled, and did it say so?
  caught        \* history: did its last signal come within clear_interrupt?

inboxVars    == <<posted, to, tipo, used>>
terminalVars == <<posting, answering>>
stopVars     == <<interrupted, early, taken, told, signalled, caught>>
plannerVars  == <<planner, block, late>>
readVars     == <<prompted, heard, dropped>>
wordVars     == <<word, accepted>>
processVars  == <<session, phase>>
vars == <<asked, of, about, estado, consumed, posted, to, tipo, used, posting, answering,
          session, phase, interrupted, early, taken, planner, block, late, ask, prompted,
          heard, dropped, word, accepted, told, signalled, caught>>

Message  == 1..MaxMessages
Messages == 1..posted
Tipos    == {"orientacao", "comando"}
Chain    == {s \in Session : s <= session}
Idle     == [to |-> 0, tipo |-> "orientacao"]

Waiting(s) == {m \in Messages \ used : to[m] = s}

Init ==
  /\ GateInit
  /\ posted = 0
  /\ to = [m \in Message |-> 0]
  /\ tipo = [m \in Message |-> "orientacao"]
  /\ used = {}
  /\ posting = [p \in Terminal |-> Idle]
  /\ answering = [p \in Terminal |-> 0]
  /\ session = 0
  /\ phase = "out"
  /\ interrupted = FALSE
  /\ early = FALSE
  /\ taken = {}
  /\ planner = "idle"
  /\ block = {}
  /\ late = {}
  /\ ask = [q \in Question |-> "idle"]
  /\ prompted = {}
  /\ heard = {}
  /\ dropped = {}
  /\ word = [r \in Row |-> {}]
  /\ accepted = {}
  /\ told = FALSE
  /\ signalled = FALSE
  /\ caught = FALSE

-----------------------------------------------------------------------------
(***************************************************************************)
(* The process of the session                                              *)
(***************************************************************************)

\* Its row is there, and commands and signals are heard, before the loop runs.
Begin ==
  /\ phase = "out"
  /\ session + 1 \in Session
  /\ session' = session + 1
  /\ phase' = "starting"
  /\ UNCHANGED <<gateVars, inboxVars, terminalVars, stopVars, plannerVars, ask, readVars,
                 wordVars>>

\* Where clear_interrupt works; session_active() is still false.
Clearing == {"clearing", "cleared"}

\* Whatever was asked before is forgotten.
KeepEarly_Forget ==
  /\ phase = "starting"
  /\ early
  /\ phase' = "running"
  /\ early' = FALSE
  /\ interrupted' = FALSE
  /\ UNCHANGED <<gateVars, inboxVars, terminalVars, session, taken, told, signalled, caught,
                 plannerVars, ask, readVars, wordVars>>

\* The test of clear_interrupt finds what was asked while the session started.
KeepEarly ==
  /\ phase = "starting"
  /\ early
  /\ phase' = "running"
  /\ early' = FALSE
  /\ UNCHANGED <<gateVars, inboxVars, terminalVars, session, interrupted, taken, told,
                 signalled, caught, plannerVars, ask, readVars, wordVars>>

\* The test finds nothing.
FindNone ==
  /\ phase = "starting"
  /\ ~early
  /\ phase' = "clearing"
  /\ UNCHANGED <<gateVars, inboxVars, terminalVars, session, stopVars, plannerVars, ask,
                 readVars, wordVars>>

\* The first clear.
ClearEarly ==
  /\ phase = "clearing"
  /\ phase' = "cleared"
  /\ early' = FALSE
  /\ UNCHANGED <<gateVars, inboxVars, terminalVars, session, interrupted, taken, told,
                 signalled, caught, plannerVars, ask, readVars, wordVars>>

\* The second clear, and the loop.
ClearInterrupt ==
  /\ phase = "cleared"
  /\ phase' = "running"
  /\ interrupted' = FALSE
  /\ UNCHANGED <<gateVars, inboxVars, terminalVars, session, early, taken, told, signalled,
                 caught, plannerVars, ask, readVars, wordVars>>

StartLoop == KeepEarly \/ FindNone \/ ClearEarly \/ ClearInterrupt

\* The process ends or is killed, wherever it is.
Stop ==
  /\ phase # "out"
  /\ phase' = "out"
  /\ dropped' = dropped \union {r \in consumed : ask[about[r]] = "holding"}
  /\ interrupted' = FALSE
  /\ early' = FALSE
  /\ taken' = {}
  /\ told' = FALSE
  /\ signalled' = FALSE
  /\ caught' = FALSE
  /\ planner' = "idle"
  /\ block' = {}
  /\ late' = {}
  /\ ask' = [q \in Question |-> "idle"]
  /\ UNCHANGED <<gateVars, inboxVars, terminalVars, session, prompted, heard, wordVars>>

\* The first SIGINT or SIGTERM is graceful; the second ends the process.
Signal ==
  /\ phase # "out"
  /\ ~interrupted
  /\ interrupted' = TRUE
  /\ early' = (early \/ phase # "running")
  /\ signalled' = TRUE
  /\ caught' = (phase \in Clearing)
  /\ UNCHANGED <<gateVars, inboxVars, terminalVars, processVars, taken, told, plannerVars,
                 ask, readVars, wordVars>>

\* The commands are marked later.
TakeCommands_Unmarked ==
  /\ phase # "out"
  /\ taken = {}
  /\ taken' = {m \in Waiting(session) : tipo[m] = "comando"}
  /\ taken' # {}
  /\ UNCHANGED <<gateVars, inboxVars, terminalVars, processVars, interrupted, early, told,
                 signalled, caught, plannerVars, ask, readVars, wordVars>>

\* SessionInbox.take_commands, in a thread of its own.
TakeCommands ==
  /\ phase # "out"
  /\ taken = {}
  /\ taken' = {m \in Waiting(session) : tipo[m] = "comando"}
  /\ taken' # {}
  /\ used' = used \union taken'
  /\ UNCHANGED <<gateVars, posted, to, tipo, terminalVars, processVars, interrupted, early,
                 told, signalled, caught, plannerVars, ask, readVars, wordVars>>

\* apply_command, of the coroutine: parar is reported as accepted.
ApplyCommands ==
  /\ taken # {}
  /\ phase \notin Clearing
  /\ taken' = {}
  /\ interrupted' = TRUE
  /\ told' = TRUE
  /\ UNCHANGED <<gateVars, inboxVars, terminalVars, processVars, early, signalled,
                 caught, plannerVars, ask, readVars, wordVars>>

-----------------------------------------------------------------------------
(***************************************************************************)
(* The terminals                                                           *)
(***************************************************************************)

\* A terminal does one thing at a time.
Free(p) == posting[p] = Idle /\ answering[p] = 0

\* Its messages are not counted.
Count_NoLimit(p, t) ==
  /\ phase # "out"
  /\ Free(p)
  /\ posting' = [posting EXCEPT ![p] = [to |-> session, tipo |-> t]]
  /\ UNCHANGED <<gateVars, inboxVars, answering, processVars, stopVars, plannerVars, ask,
                 readVars, wordVars>>

\* The count of SessionInbox.post, for a session that seems to run.
Count(p, t) ==
  /\ phase # "out"
  /\ Free(p)
  /\ Cardinality(Waiting(session)) < InboxLimit
  /\ posting' = [posting EXCEPT ![p] = [to |-> session, tipo |-> t]]
  /\ UNCHANGED <<gateVars, inboxVars, answering, processVars, stopVars, plannerVars, ask,
                 readVars, wordVars>>

\* Its INSERT, whatever happened to the session meanwhile.
Post(p) ==
  /\ posting[p] # Idle
  /\ posted < MaxMessages
  /\ posted' = posted + 1
  /\ to' = [to EXCEPT ![posted'] = posting[p].to]
  /\ tipo' = [tipo EXCEPT ![posted'] = posting[p].tipo]
  /\ posting' = [posting EXCEPT ![p] = Idle]
  /\ UNCHANGED <<gateVars, used, answering, processVars, stopVars, plannerVars, ask,
                 readVars, wordVars>>

\* A terminal shows a pending request.
Open(p) ==
  /\ Free(p)
  /\ \E r \in Rows : estado[r] = "pendente" /\ answering' = [answering EXCEPT ![p] = r]
  /\ UNCHANGED <<gateVars, inboxVars, posting, processVars, stopVars, plannerVars, ask,
                 readVars, wordVars>>

\* The answer of the terminal is recorded, and it is told so.
Reply(p) ==
  /\ answering[p] # 0
  /\ Answer(answering[p])
  /\ estado'[answering[p]] = "autorizada"
  /\ word' = [word EXCEPT ![answering[p]] = {p}]
  /\ accepted' = accepted \union {<<p, answering[p]>>}
  /\ answering' = [answering EXCEPT ![p] = 0]
  /\ UNCHANGED <<inboxVars, posting, processVars, stopVars, plannerVars, ask, readVars>>

\* Another terminal was first (GateAlreadyResolved).
Refused(p) ==
  /\ answering[p] # 0
  /\ estado[answering[p]] # "pendente"
  /\ answering' = [answering EXCEPT ![p] = 0]
  /\ UNCHANGED <<gateVars, inboxVars, posting, processVars, stopVars, plannerVars, ask,
                 readVars, wordVars>>

-----------------------------------------------------------------------------
(***************************************************************************)
(* The planner                                                             *)
(***************************************************************************)
Quiet == \A q \in Question : ask[q] = "idle"

\* _researcher_messages_block, or nothing if the database is not there.
ReadMessages ==
  /\ phase = "running"
  /\ planner = "idle"
  /\ Quiet
  /\ \/ /\ block' = {m \in Messages \ used : to[m] \in Chain /\ tipo[m] = "orientacao"}
        /\ late' = {r \in Answered(Chain) : estado[r] = "autorizada"}
     \/ block' = {} /\ late' = {}
  /\ planner' = "ready"
  /\ UNCHANGED <<gateVars, inboxVars, terminalVars, processVars, stopVars, ask, readVars,
                 wordVars>>

\* The planner has the prompt; it may fail, and nobody asks.
Prompt ==
  /\ planner = "ready"
  /\ prompted' = prompted \union block
  /\ heard' = heard \union late
  /\ planner' = "asked"
  /\ UNCHANGED <<gateVars, inboxVars, terminalVars, processVars, stopVars, block, late, ask,
                 dropped, wordVars>>

\* Whatever waits now.
Consumable_Now == {m \in Messages \ used : to[m] \in Chain /\ tipo[m] = "orientacao"}

\* SessionInbox.consume marks the messages of the prompt.
Consumable == block

ConsumeMessages ==
  /\ planner = "asked"
  /\ used' = used \union Consumable
  /\ planner' = "marking"
  /\ UNCHANGED <<gateVars, posted, to, tipo, terminalVars, processVars, stopVars, block, late,
                 ask, readVars, wordVars>>

\* mark_consumed of the late answers, one by one.
MarkLate ==
  /\ planner = "marking"
  /\ \E r \in late :
       /\ \A x \in late : r <= x
       /\ Consume(r)
       /\ late' = late \ {r}
  /\ UNCHANGED <<inboxVars, terminalVars, processVars, stopVars, planner, block, ask,
                 readVars, wordVars>>

\* All are marked, or a write failed.
Planned ==
  /\ planner \in {"asked", "marking"}
  /\ planner' = "idle"
  /\ block' = {}
  /\ late' = {}
  /\ UNCHANGED <<gateVars, inboxVars, terminalVars, processVars, stopVars, ask, readVars,
                 wordVars>>

-----------------------------------------------------------------------------
(***************************************************************************)
(* The agents: _ask_through_gate                                           *)
(***************************************************************************)

\* The request of the chain, if there is one; or else the count of request.
Raise(q) ==
  /\ phase = "running"
  /\ planner = "idle"
  /\ ask[q] = "idle"
  /\ \/ Unconsumed(q, Chain) # {} /\ ask' = [ask EXCEPT ![q] = "waiting"]
     \/ /\ Unconsumed(q, Chain) = {}
        /\ Cardinality(Pending(session)) < PendingLimit
        /\ ask' = [ask EXCEPT ![q] = "inserting"]
  /\ UNCHANGED <<gateVars, inboxVars, terminalVars, processVars, stopVars, plannerVars,
                 readVars, wordVars>>

InsertRequest(q) ==
  /\ ask[q] = "inserting"
  /\ Insert(session, q)
  /\ ask' = [ask EXCEPT ![q] = "waiting"]
  /\ UNCHANGED <<inboxVars, terminalVars, processVars, stopVars, plannerVars, readVars,
                 wordVars>>

\* The deadline, or a request to stop: the agent goes on without an answer.
GiveUp(q) ==
  /\ ask[q] = "waiting"
  /\ ask' = [ask EXCEPT ![q] = "idle"]
  /\ UNCHANGED <<gateVars, inboxVars, terminalVars, processVars, stopVars, plannerVars,
                 readVars, wordVars>>

\* consume_authorized
TakeAnswer(q) ==
  /\ ask[q] = "waiting"
  /\ estado[Found(q, Chain)] # "pendente"
  /\ Consume(Found(q, Chain))
  /\ ask' = [ask EXCEPT ![q] = "holding"]
  /\ UNCHANGED <<inboxVars, terminalVars, processVars, stopVars, plannerVars, readVars,
                 wordVars>>

\* The answer is recorded as an interaction, and the agent has it.
Hear(q) ==
  /\ ask[q] = "holding"
  /\ heard' = heard \union {r \in consumed : about[r] = q}
  /\ ask' = [ask EXCEPT ![q] = "idle"]
  /\ UNCHANGED <<gateVars, inboxVars, terminalVars, processVars, stopVars, plannerVars,
                 prompted, dropped, wordVars>>

-----------------------------------------------------------------------------
Process == Begin \/ StartLoop \/ Stop \/ Signal \/ TakeCommands \/ ApplyCommands

Desk(p) == (\E t \in Tipos : Count(p, t)) \/ Post(p) \/ Open(p) \/ Reply(p) \/ Refused(p)

Planner == ReadMessages \/ Prompt \/ ConsumeMessages \/ MarkLate \/ Planned

Agent(q) ==
  Raise(q) \/ InsertRequest(q) \/ GiveUp(q) \/ TakeAnswer(q) \/ Hear(q)

Next ==
  \/ Process
  \/ Planner
  \/ \E p \in Terminal : Desk(p)
  \/ \E q \in Question : Agent(q)

Spec == Init /\ [][Next]_vars

-----------------------------------------------------------------------------
(***************************************************************************)
(* Properties                                                              *)
(***************************************************************************)

\* Every variable has its type; nothing is read or taken that is not there, and
\* the planner and the agents never work at once.
TypeOK ==
  /\ GateTypeOK
  /\ posted \in 0..MaxMessages
  /\ to \in [Message -> Session \union {0}] /\ tipo \in [Message -> Tipos]
  /\ used \subseteq Messages
  /\ posting \in [Terminal -> [to : Session \union {0}, tipo : Tipos]]
  /\ answering \in [Terminal -> Row \union {0}]
  /\ session \in Session \union {0} /\ phase \in {"out", "starting", "running"} \union Clearing
  /\ interrupted \in BOOLEAN /\ early \in BOOLEAN
  /\ told \in BOOLEAN /\ signalled \in BOOLEAN /\ caught \in BOOLEAN
  /\ taken \subseteq used
  /\ planner \in {"idle", "ready", "asked", "marking"}
  /\ block \subseteq Messages /\ late \subseteq Rows
  /\ ask \in [Question -> {"idle", "inserting", "waiting", "holding"}]
  /\ prompted \subseteq Messages /\ heard \subseteq Rows /\ dropped \subseteq Rows
  /\ word \in [Row -> SUBSET Terminal] /\ accepted \subseteq Terminal \X Row
  /\ planner # "idle" => Quiet

\* Counting and inserting are two steps of several terminals: the limit of unread
\* messages is exceeded by at most what the other terminals had counted for.
InboxIsBounded ==
  \A s \in Session : Cardinality(Waiting(s)) < InboxLimit + Cardinality(Terminal)

\* Guidance is marked consumed only after it was in a prompt of the planner, and an
\* answer only after the planner read it or when an agent takes it, whatever was
\* posted meanwhile and wherever the process stopped.
ReadBeforeConsumed ==
  /\ \A m \in used : tipo[m] = "comando" \/ m \in prompted
  /\ \A r \in consumed : r \in heard \union dropped \/ ask[about[r]] = "holding"

\* Of two terminals that answer one request, the one that was told that its answer
\* is recorded has the last word.
FirstAnswerStands ==
  \A p \in Terminal, r \in Row : <<p, r>> \in accepted => word[r] = {p}

\* A signal that was acknowledged, while the session started or later, is there for
\* the loop to see, whatever came before and after it.  The exception is a signal
\* that comes inside clear_interrupt, after its test and before its last clear
\* (usage.py:149-153): it is acknowledged as well, and may be erased.
SignalHeeded == phase = "running" /\ signalled => interrupted \/ caught

\* "parar fecha com checkpoint como o 1o Ctrl+C" (README.md:258): once it is
\* reported as accepted, the loop sees it.
AcceptedStopHeeded == phase = "running" /\ told => interrupted
=============================================================================
