---------------------------- MODULE PersistentGate ----------------------------
(***************************************************************************)
(* The persistent gate: requests to the researcher, as rows of the table   *)
(* gate_requests.  Sessions insert a request and consume its answer; only  *)
(* the terminals answer.  Every UPDATE is conditional on what it changes,  *)
(* so that two writers of a row are put in order by the database.          *)
(*                                                                         *)
(* A subject is a decision with its reference (decisao, referencia); what  *)
(* is asked and the text of an answer are left out: an answer authorizes   *)
(* or denies.  mark_obsolete is never called, so no row is obsolete.  This *)
(* module has the state and the operations; the modules that extend it say *)
(* who performs them.                                                      *)
(***************************************************************************)
EXTENDS Integers, FiniteSets, FiniteSetsExt

CONSTANTS
  Session,       \* ids of the sessions of one research, numbered in their order
  Subject,       \* what may be asked
  MaxRequests,   \* bound: rows of gate_requests
  PendingLimit   \* GATE_MAX_PENDING_PER_SESSION

ASSUME GateAssumption ==
  /\ Session \subseteq Nat \ {0}
  /\ MaxRequests \in Nat
  /\ PendingLimit \in Nat \ {0}

VARIABLES
  asked,     \* the last id given to a row
  of,        \* session_id of each row
  about,     \* (decisao, referencia)
  estado,    \* pendente, autorizada or negada
  consumed   \* rows with consumido_em

gateVars == <<asked, of, about, estado, consumed>>

Row == 1..MaxRequests
Rows == 1..asked

GateInit ==
  /\ asked = 0
  /\ of = [r \in Row |-> 0]
  /\ about = [r \in Row |-> "nada"]
  /\ estado = [r \in Row |-> "pendente"]
  /\ consumed = {}

\* Neither consumed nor answered matters: is it still of use to the chain?
Unconsumed(x, chain) == {r \in Rows \ consumed : about[r] = x /\ of[r] \in chain}

Pending(s) == {r \in Rows : of[r] = s /\ estado[r] = "pendente"}

\* Answers the chain has not used yet (answered_unconsumed).
Answered(chain) == {r \in Rows \ consumed : estado[r] # "pendente" /\ of[r] \in chain}

\* Whatever the answer was.
WasAuthorized_AnyAnswer(x, chain) ==
  \E r \in Rows : about[r] = x /\ of[r] \in chain /\ estado[r] # "pendente"

\* Any authorization of x in the chain, used or not.
WasAuthorized(x, chain) ==
  \E r \in Rows : about[r] = x /\ of[r] \in chain /\ estado[r] = "autorizada"

\* The request that find_in_chain returns, where there is one.
Found(x, chain) == Max(Unconsumed(x, chain))

\* The INSERT of request.
Insert(s, x) ==
  /\ asked < MaxRequests
  /\ asked' = asked + 1
  /\ of' = [of EXCEPT ![asked'] = s]
  /\ about' = [about EXCEPT ![asked'] = x]
  /\ UNCHANGED <<estado, consumed>>

\* The UPDATE of mark_consumed and consume_authorized.
Consume(r) == consumed' = consumed \union {r} /\ UNCHANGED <<asked, of, about, estado>>

\* The answer is written whatever another terminal answered meanwhile.
Answer_Unconditional(r) ==
  /\ \E verdict \in {"autorizada", "negada"} : estado' = [estado EXCEPT ![r] = verdict]
  /\ UNCHANGED <<asked, of, about, consumed>>

\* The conditional UPDATE of TerminalGate.answer.
Answer(r) ==
  /\ estado[r] = "pendente"
  /\ \E verdict \in {"autorizada", "negada"} : estado' = [estado EXCEPT ![r] = verdict]
  /\ UNCHANGED <<asked, of, about, consumed>>

GateTypeOK ==
  /\ asked \in 0..MaxRequests
  /\ of \in [Row -> Session \union {0}] /\ about \in [Row -> Subject \union {"nada"}]
  /\ estado \in [Row -> {"pendente", "autorizada", "negada"}]
  /\ consumed \subseteq Rows
  /\ \A r \in Rows : of[r] \in Session /\ about[r] \in Subject
  /\ \A r \in consumed : estado[r] # "pendente"
=============================================================================
