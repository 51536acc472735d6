---------------------------- MODULE OrderSender -----------------------------
(***************************************************************************)
(* The exact-wire sender and the order endpoints that drive it             *)
(* (host/src/sender.rs; submit, orders and recover_submission of           *)
(* host/src/stockmesh_api.rs; bin/sender-step.rs), over the durable ledger *)
(* that the execution journal implements, against a chain whose RPC node   *)
(* may lag, lose a transmission, or report a block that is later dropped.  *)
(*                                                                         *)
(* The sender sits behind a mutex: one handler at a time runs it, holding  *)
(* the lock over its RPC calls, while the chain moves and other requests   *)
(* wait.  A request that is being authorized holds no lock.                *)
(*                                                                         *)
(* Simplifications.                                                        *)
(*  - A journal call either becomes durable, or fails and poisons the      *)
(*    journal leaving any part of its batch to be found by the next open.  *)
(*  - "processed" stands for the confirmation levels below finalized.      *)
(*  - An RPC failure ends the handler; it changes nothing.                 *)
(*  - The wire may also reach the network without the sender: its owner    *)
(*    holds the signed bytes (Broadcast).                                  *)
(***************************************************************************)
EXTENDS OrderLifecycle

CONSTANTS
    Request,        \* the request workers
    NoIntent,       \* a worker with nothing authorized
    LastValid,      \* [Intent -> Nat]: last_valid_height of the wire
    MaxAttempts,    \* Sender.max_attempts
    MaxHeight,      \* bound: finalized block heights 0..MaxHeight
    Driven          \* the orders that sender-step may also send

SenderAssumption ==
    /\ NoIntent \notin Intent
    /\ LastValid \in [Intent -> Nat]
    /\ MaxAttempts \in Nat
    /\ MaxHeight \in Nat
    /\ Driven \subseteq Intent

VARIABLES
    ledger,         \* the entries the running journal reports
    disk,           \* the entries the next open would find
    poisoned,       \* a journal write failed: no further write until restart
    job,            \* the handler that holds the sender's lock
    asked,          \* [Request -> the order it authorized, or NoIntent]
    sent,           \* history: transmissions of each order by the sender
    chain,          \* where each signed transaction stands
    height          \* finalized block height

journal == <<ledger, disk, poisoned>>
net   == <<chain, height>>
senderVars  == <<ledger, disk, poisoned, job, asked, sent, chain, height>>

ChainState == {"none", "inflight", "processed", "ok", "err"}
Final      == {"ok", "err"}
Status     == {"null", "processed", "ok", "err"}

NoStatus == [i \in Intent |-> "null"]

Idle == [pc |-> "idle", ids |-> {}, send |-> FALSE, status |-> NoStatus,
         sends |-> {}, acks |-> {}]

Job == [pc : {"idle", "query", "record", "send"}, ids : SUBSET Intent,
        send : BOOLEAN, status : [Intent -> Status],
        sends : SUBSET Intent, acks : SUBSET Intent]

SenderInit ==
    /\ ledger = [i \in Intent |-> Absent]
    /\ disk = ledger
    /\ poisoned = FALSE
    /\ job = Idle
    /\ asked = [w \in Request |-> NoIntent]
    /\ sent = [i \in Intent |-> 0]
    /\ chain = [i \in Intent |-> "none"]
    /\ height = 0

-----------------------------------------------------------------------------
(* The three outcomes of a journal call that would install `new`.          *)

Commit(new) ==
    /\ ~poisoned
    /\ ledger' = new
    /\ disk' = new
    /\ UNCHANGED poisoned

\* The I/O error leaves some of the records in the file.
CommitFails(new) ==
    /\ ~poisoned
    /\ \E kept \in SUBSET {i \in Intent : new[i] # ledger[i]} :
          disk' = [i \in Intent |-> IF i \in kept THEN new[i] ELSE ledger[i]]
    /\ poisoned' = TRUE
    /\ UNCHANGED ledger

WriteRefused == poisoned /\ UNCHANGED journal

-----------------------------------------------------------------------------
(* Taking the lock.                                                        *)

Begin(ids, send) == job' = [Idle EXCEPT !.pc = "query", !.ids = ids, !.send = send]

\* submit, first section: an order on record is only observed again;
\* otherwise the lock is dropped and the signed wire is authorized.
ReceiveSubmit(w, i) ==
    /\ job.pc = "idle"
    /\ asked[w] = NoIntent
    /\ IF i \in Recorded(ledger)
       THEN Begin({i}, FALSE) /\ UNCHANGED asked
       ELSE asked' = [asked EXCEPT ![w] = i] /\ UNCHANGED job
    /\ UNCHANGED <<journal, sent, net>>

\* The quote, the bank fence or the prepared candidate is gone.
RejectSubmit(w) ==
    /\ asked[w] # NoIntent
    /\ asked' = [asked EXCEPT ![w] = NoIntent]
    /\ UNCHANGED <<journal, job, sent, net>>

\* Mutant: an order that was sent no longer holds its resources.
InsertableOverSent(E, i) ==
    /\ Cardinality(Recorded(E)) < Capacity
    /\ \A j \in Recorded(E) :
          /\ SigOf[i] # SigOf[j]
          /\ E[j].phase = "Prepared" => ResOf[i] \cap ResOf[j] = {}
    /\ Admissible(i, PhaseOf(E))

\* The journal accepts a new order (insert_batch on one entry).
Insertable(E, i) ==
    /\ Cardinality(Recorded(E)) < Capacity
    /\ \A j \in Recorded(E) :
          /\ SigOf[i] # SigOf[j]
          /\ E[j].phase \in Holding => ResOf[i] \cap ResOf[j] = {}
    /\ Admissible(i, PhaseOf(E))

\* submit, second section: under the lock again, an order recorded meanwhile
\* is observed; a new one is inserted and then stepped once.
AdmitSubmit(w) ==
    LET i == asked[w]
    IN  /\ job.pc = "idle"
        /\ i # NoIntent
        /\ asked' = [asked EXCEPT ![w] = NoIntent]
        /\ \/ /\ i \in Recorded(ledger)
              /\ Begin({i}, FALSE)
              /\ UNCHANGED journal
           \/ /\ i \notin Recorded(ledger)
              /\ Insertable(ledger, i)
              /\ \/ Commit([ledger EXCEPT ![i] = Fresh]) /\ Begin({i}, TRUE)
                 \/ CommitFails([ledger EXCEPT ![i] = Fresh]) /\ UNCHANGED job
           \/ /\ i \notin Recorded(ledger)
              /\ ~Insertable(ledger, i) \/ poisoned
              /\ UNCHANGED <<journal, job>>
        /\ UNCHANGED <<sent, net>>

\* orders, continue_strategy: observe a page of recorded orders.
ObserveOrders(ids) ==
    /\ job.pc = "idle"
    /\ ids # {} /\ ids \subseteq Recorded(ledger)
    /\ Begin(ids, FALSE)
    /\ UNCHANGED <<journal, asked, sent, net>>

\* sender-step: while the API is stopped, the driver process opens the
\* journal, records the order if it is new, and steps it once.  What it leaves
\* is on disk when the next process opens it.
DriverStep(i) ==
    LET fresh == [disk EXCEPT ![i] = Fresh]
    IN  /\ poisoned' = FALSE
        /\ asked' = [w \in Request |-> NoIntent]
        /\ \/ /\ i \in Recorded(disk)
              /\ ledger' = disk
              /\ UNCHANGED disk
              /\ Begin({i}, TRUE)
           \/ /\ i \notin Recorded(disk) /\ Insertable(disk, i)
              /\ disk' = fresh
              /\ ledger' = disk'
              /\ Begin({i}, TRUE)
           \/ /\ i \notin Recorded(disk)
              /\ IF Insertable(disk, i) THEN disk' \in {disk, fresh} ELSE UNCHANGED disk
              /\ ledger' = disk'
              /\ job' = Idle
        /\ UNCHANGED <<sent, net>>

-----------------------------------------------------------------------------
(* progress_batch.                                                         *)

\* Mutant: an order left unknown is not asked about again.
ActiveButUnknown(ids) == {i \in ids : ledger[i].phase \in Open \ {"Unknown"}}

Active(ids) == {i \in ids : ledger[i].phase \in Open}

\* What a node may answer for a signature: it may not know it (yet).
Visible(i) ==
    {"null"} \cup (IF chain[i] \in Final \cup {"processed"} THEN {chain[i]} ELSE {})

\* The batch ends when nothing is active or when the RPC call fails.
QueryEnds ==
    /\ job.pc = "query"
    /\ job' = Idle
    /\ UNCHANGED <<journal, asked, sent, net>>

QueryStatuses ==
    /\ job.pc = "query"
    /\ Active(job.ids) # {}
    /\ \E status \in [Active(job.ids) -> Status] :
          /\ \A i \in Active(job.ids) : status[i] \in Visible(i)
          /\ job' = [job EXCEPT !.pc = "record",
                                !.ids = Active(job.ids),
                                !.status = [i \in Intent |->
                                    IF i \in Active(job.ids) THEN status[i] ELSE "null"]]
    /\ UNCHANGED <<journal, asked, sent, net>>

\* A send is due: the signature is absent, the wire is still valid at the
\* height the node reports, and attempts remain.
Due(i, h) ==
    /\ job.send
    /\ job.status[i] = "null"
    /\ h <= LastValid[i]
    /\ ledger[i].attempts < MaxAttempts

\* Mutant: an absent signature whose wire expired is declared failed.
NextPhaseExpired(i) ==
    CASE job.status[i] = "ok"        -> "Finalized"
      [] job.status[i] = "err"       -> "Failed"
      [] job.status[i] = "processed" -> "Submitted"
      [] OTHER -> IF height > LastValid[i] THEN "Failed" ELSE "Unknown"

NextPhase(i) ==
    CASE job.status[i] = "ok"        -> "Finalized"
      [] job.status[i] = "err"       -> "Failed"
      [] job.status[i] = "processed" -> "Submitted"
      [] OTHER                       -> "Unknown"

\* Mutant: a send is recorded as uncertainty but not counted.
ObservedUncounted(due) ==
    [i \in Intent |->
        IF i \in job.ids
        THEN [phase |-> NextPhase(i), attempts |-> ledger[i].attempts]
        ELSE ledger[i]]

\* The entries after the batch's updates, given the orders to be sent.
Observed(due) ==
    [i \in Intent |->
        IF i \in job.ids
        THEN [phase    |-> NextPhase(i),
              attempts |-> ledger[i].attempts + (IF i \in due THEN 1 ELSE 0)]
        ELSE ledger[i]]

\* Send attempts become durable uncertainty before any transmission.
RecordStatuses ==
    /\ job.pc = "record"
    /\ \E h \in 0..height :
          LET due == {i \in job.ids : Due(i, h)}
              new == Observed(due)
          IN  \/ /\ IF new = ledger THEN UNCHANGED journal ELSE Commit(new)
                 /\ job' = IF due = {} THEN Idle
                           ELSE [Idle EXCEPT !.pc = "send", !.sends = due]
              \/ new # ledger /\ CommitFails(new) /\ job' = Idle
              \/ new # ledger /\ WriteRefused /\ job' = Idle
    /\ UNCHANGED <<asked, sent, net>>

\* sendTransaction: the wire may be lost, and so may the reply.
Transmit(i) ==
    /\ job.pc = "send"
    /\ i \in job.sends
    /\ sent' = [sent EXCEPT ![i] = @ + 1]
    /\ \/ UNCHANGED chain
       \/ chain[i] = "none" /\ chain' = [chain EXCEPT ![i] = "inflight"]
    /\ \E acked \in BOOLEAN :
          job' = [job EXCEPT !.sends = @ \ {i},
                             !.acks = IF acked THEN @ \cup {i} ELSE @]
    /\ UNCHANGED <<journal, asked, height>>

\* Transmissions the node accepted are recorded as submitted.
RecordAcks ==
    LET new == [i \in Intent |->
                  IF i \in job.acks
                  THEN [phase |-> "Submitted", attempts |-> ledger[i].attempts]
                  ELSE ledger[i]]
    IN  /\ job.pc = "send"
        /\ job.sends = {}
        /\ \/ job.acks = {} /\ UNCHANGED journal
           \/ job.acks # {} /\ (Commit(new) \/ CommitFails(new) \/ WriteRefused)
        /\ job' = Idle
        /\ UNCHANGED <<asked, sent, net>>

\* reconcile_exposure, reconcile_swap, reconcile_basket: every handler tries
\* them on the finalized orders it sees; the receipt fetch may fail, and only
\* a finalized success yields a receipt.
Reconcile(i) ==
    LET new == [ledger EXCEPT ![i].phase = "Reconciled"]
    IN  /\ job.pc = "idle"
        /\ ledger[i].phase = "Finalized"
        /\ chain[i] = "ok"
        /\ Commit(new) \/ CommitFails(new)
        /\ UNCHANGED <<job, asked, sent, net>>

-----------------------------------------------------------------------------
\* The process stops, holding the lock or not, and opens the journal again.
Restart ==
    /\ ledger' = disk
    /\ poisoned' = FALSE
    /\ job' = Idle
    /\ asked' = [w \in Request |-> NoIntent]
    /\ UNCHANGED <<disk, sent, net>>

-----------------------------------------------------------------------------
(* The chain.                                                              *)

SetChain(i, from, to) ==
    /\ chain[i] \in from
    /\ \E c \in to : chain' = [chain EXCEPT ![i] = c]
    /\ UNCHANGED <<journal, job, asked, sent, height>>

Broadcast(i) == SetChain(i, {"none"}, {"inflight"})
Land(i)      == height <= LastValid[i] /\ SetChain(i, {"inflight"}, {"processed"})
Vanish(i)    == SetChain(i, {"inflight"}, {"none"})
Unroll(i)    == SetChain(i, {"processed"}, {"inflight", "none"})
Finalize(i)  == SetChain(i, {"processed"}, {"ok", "err"})

NextHeight ==
    /\ height < MaxHeight
    /\ height' = height + 1
    /\ UNCHANGED <<journal, job, asked, sent, chain>>

SenderNext ==
    \/ \E w \in Request :
         \/ \E i \in Intent : ReceiveSubmit(w, i)
         \/ RejectSubmit(w)
         \/ AdmitSubmit(w)
    \/ \E ids \in SUBSET Intent : ObserveOrders(ids)
    \/ \E i \in Driven : DriverStep(i)
    \/ QueryEnds \/ QueryStatuses \/ RecordStatuses \/ RecordAcks
    \/ \E i \in Intent : Transmit(i) \/ Reconcile(i)
    \/ Restart
    \/ \E i \in Intent :
         Broadcast(i) \/ Land(i) \/ Vanish(i) \/ Unroll(i) \/ Finalize(i)
    \/ NextHeight

SenderSpec == SenderInit /\ [][SenderNext]_senderVars

\* Fairness.  Handlers and the operator's restart of a poisoned journal go on
\* (weak); clients keep polling, and a node that is asked again and again
\* answers, a receipt is fetched and a write succeeds some of the time (strong).
HandlerStep ==
    QueryEnds \/ QueryStatuses \/ RecordStatuses \/ RecordAcks
        \/ \E i \in Intent : Transmit(i)

RestartPoisoned == poisoned /\ Restart
PollOrder(i)    == ~poisoned /\ ObserveOrders({i})
TrueAnswer(i)   == ~poisoned /\ QueryStatuses /\ job'.status[i] = chain[i]
RecordVerdict(i) ==
    job.status[i] \in Final /\ RecordStatuses /\ ~poisoned'
FetchReceipt(i) == Reconcile(i) /\ ~poisoned'

FairSender ==
    /\ SenderSpec
    /\ WF_senderVars(HandlerStep)
    /\ WF_senderVars(RestartPoisoned)
    /\ \A i \in Intent :
          /\ SF_senderVars(PollOrder(i))
          /\ SF_senderVars(TrueAnswer(i))
          /\ SF_senderVars(RecordVerdict(i))
          /\ SF_senderVars(FetchReceipt(i))

-----------------------------------------------------------------------------
(* Properties.                                                             *)

\* The type of every variable.
SenderTypeOK ==
    /\ {ledger, disk} \subseteq [Intent -> Entry \cup {Absent}]
    /\ poisoned \in BOOLEAN
    /\ job \in Job
    /\ asked \in [Request -> Intent \cup {NoIntent}]
    /\ sent \in [Intent -> Nat]
    /\ chain \in [Intent -> ChainState]
    /\ height \in Nat

\* A verdict in memory or on disk is the chain's: Failed only after a finalized
\* error, Finalized and Reconciled only after a finalized success.  A lagging
\* node, an expired wire, a dropped block or a crash never produces one.
\* (sender.rs:139 "an absent expired signature remains UNKNOWN, not FAILED")
VerdictIsFinal ==
    \A i \in Intent, e \in {ledger, disk} :
        /\ e[i].phase = "Failed" => chain[i] = "err"
        /\ e[i].phase \in {"Finalized", "Reconciled"} => chain[i] = "ok"

\* Every transmission is covered by an attempt that is already on disk, across
\* crashes and failed writes, and the attempts stay within the sender's limit.
\* (sender.rs:243 "durable uncertainty before any RPC transmission")
SentIsRecorded ==
    \A i \in Intent :
        /\ sent[i] <= disk[i].attempts
        /\ disk[i].attempts <= MaxAttempts

\* Two recorded orders that use the same resource are never both able to take
\* effect on the chain: a reservation outlives every way its wire can land.
\* (reservations released only on Failed or Reconciled)
NoConcurrentEffects ==
    \A i, j \in Recorded(disk) :
        /\ i # j
        /\ chain[i] \in {"inflight", "processed"}
        /\ chain[j] \in {"inflight", "processed"}
        => ResOf[i] \cap ResOf[j] = {}

\* However often a signed order is submitted, by however many requests, and
\* whatever fails in between, the API transmits it at most once: retries only
\* observe.  (stockmesh_api.rs:2952 "it never calls the transmitting path")
SubmitSendsOnce == \A i \in Intent \ Driven : sent[i] <= 1

\* Submitting sends at most once, and what was sent is on disk.
SentOnceAndRecorded == SubmitSendsOnce /\ SentIsRecorded

Durable == INSTANCE DurableLedger WITH ledger <- disk

\* Driving the journal through any interleaving of handlers keeps the durable
\* ledger's promise: entries only advance and stay mutually consistent.
KeepsDurableLedger == Durable!LedgerSpec

\* Every recorded order whose transaction finalized is eventually reconciled
\* or failed, which is what releases its reservations.
VerdictIsLearned ==
    \A i \in Intent :
        (i \in Recorded(ledger) /\ chain[i] \in Final)
            ~> disk[i].phase \in Terminal
=============================================================================
