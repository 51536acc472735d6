---------------------------- MODULE AdmissionLane ----------------------------
(***************************************************************************)
(* The bounded admission lane of the kernel (runtime/admission.rs): a      *)
(* fixed array of slots, a round-robin cursor, and footprints that stay    *)
(* reserved until explicit completion.  A caller holds tickets.            *)
(*                                                                         *)
(* Simplifications.                                                        *)
(*  - A footprint is a set of resources instead of a 64-bit mask.          *)
(*  - Every call is given the lane's clock, which does not go back.        *)
(***************************************************************************)
EXTENDS Integers, FiniteSets

CONSTANTS
    Requests,       \* the requests callers may bring
    Slots,          \* QUEUE_CAPACITY
    OwnerLimit,     \* OWNER_CAPACITY
    MaxGeneration,  \* bound: the last value of the generation counter
    MaxNow          \* bound: clock values 0..MaxNow

ASSUME LaneAssumption ==
    /\ \A r \in Requests :
          /\ DOMAIN r = {"owner", "nonce", "reads", "writes", "deadline"}
          /\ r.deadline \in Nat
    /\ Slots \in Nat \ {0}
    /\ OwnerLimit \in Nat
    /\ MaxGeneration \in Nat
    /\ MaxNow \in Nat

VARIABLES
    entries,        \* slot -> the entry it holds, or Empty
    generation,     \* generation of the last entry admitted
    cursor,         \* slot where the next dispatch starts to look
    now,            \* the callers' clock
    granted,        \* history: generation -> the ticket and its admission
    starts,         \* history: generation -> times it was dispatched
    ended,          \* history: generations whose ticket completed them
    passed          \* history: slot -> dispatches it was passed over in

vars == <<entries, generation, cursor, now, granted, starts, ended, passed>>

Slot  == 0 .. Slots - 1
State == {"queued", "inflight", "completed"}

\* A free slot; generations of entries start at 1.
Empty == [request |-> "none", generation |-> 0, state |-> "free"]
LaneEntry == [request : Requests, generation : 1..MaxGeneration, state : State]

Occupied == {i \in Slot : entries[i] # Empty}
InFlight == {i \in Occupied : entries[i].state = "inflight"}

SameId(a, b) == a.owner = b.owner /\ a.nonce = b.nonce

\* Request a may not run beside request b.
Conflicts(a, b) ==
    \/ a.writes \cap (b.reads \cup b.writes) # {}
    \/ a.reads \cap b.writes # {}

Init ==
    /\ entries = [i \in Slot |-> Empty]
    /\ generation = 0
    /\ cursor = 0
    /\ now = 0
    /\ granted = << >>
    /\ starts = [g \in 1..MaxGeneration |-> 0]
    /\ ended = {}
    /\ passed = [i \in Slot |-> 0]

-----------------------------------------------------------------------------
\* An entry that dispatch would hand out if it looked at it.
Dispatchable(i) ==
    /\ entries[i] # Empty
    /\ entries[i].state = "queued"
    /\ entries[i].request.deadline >= now
    /\ \A j \in InFlight : ~Conflicts(entries[i].request, entries[j].request)

\* History of the passed-over: `taken` is the slot just dispatched, if any.
Count(taken) ==
    passed' = [i \in Slot |->
                 IF ~Dispatchable(i) \/ ~Dispatchable(i)' \/ i \in taken THEN 0
                 ELSE IF taken = {} THEN passed[i] ELSE passed[i] + 1]

\* Mutant: the sweep forgets a request that is still running.
ExpiredOrRunning(e) == e # Empty /\ e.request.deadline < now

\* The sweep of admit: an entry past its deadline that is not in flight.
Expired(e) == e # Empty /\ e.state # "inflight" /\ e.request.deadline < now

Swept == [i \in Slot |-> IF Expired(entries[i]) THEN Empty ELSE entries[i]]

\* Mutant: a completed request may be admitted again at once.
DuplicateOfPending(E, r) ==
    \E i \in Slot : /\ E[i] # Empty
                    /\ E[i].state # "completed"
                    /\ SameId(E[i].request, r)

Duplicate(E, r) == \E i \in Slot : E[i] # Empty /\ SameId(E[i].request, r)

\* The entries of an owner that count towards its limit.
Owned(E, owner) ==
    {i \in Slot : E[i] # Empty /\ E[i].request.owner = owner
                               /\ E[i].state # "completed"}

OverLimit(E, owner) == Cardinality(Owned(E, owner)) >= OwnerLimit

\* What admit refuses once the sweep E is done.
Refused(E, r) ==
    \/ Duplicate(E, r)
    \/ OverLimit(E, r.owner)
    \/ \A i \in Slot : E[i] # Empty
    \/ generation = MaxGeneration

FirstFree(E, i) == E[i] = Empty /\ \A j \in Slot : E[j] = Empty => i <= j

\* admit: the sweep happens even when the request is then refused.
Admit(r) ==
    /\ r.deadline >= now
    /\ IF Refused(Swept, r)
       THEN /\ entries' = Swept
            /\ UNCHANGED <<generation, granted>>
       ELSE \E i \in Slot :
            /\ FirstFree(Swept, i)
            /\ generation' = generation + 1
            /\ entries' = [Swept EXCEPT ![i] =
                             [request |-> r, generation |-> generation + 1,
                              state |-> "queued"]]
            /\ granted' = [g \in 1..(generation + 1) |->
                             IF g = generation + 1
                             THEN [slot |-> i, request |-> r, at |-> now]
                             ELSE granted[g]]
    /\ UNCHANGED <<cursor, now, starts, ended>>
    /\ Count({})

\* admit of a request whose deadline has passed changes nothing.
RefuseExpired(r) == r.deadline < now /\ UNCHANGED vars

CursorAfter(i) == (i + 1) % Slots

\* How far slot i lies ahead of the cursor.
Ahead(i) == (i - cursor + Slots) % Slots

\* dispatch: the first dispatchable entry at or after the cursor.
Dispatch ==
    \E i \in Slot :
        /\ Dispatchable(i)
        /\ \A j \in Slot : Dispatchable(j) => Ahead(i) <= Ahead(j)
        /\ entries' = [entries EXCEPT ![i].state = "inflight"]
        /\ cursor' = CursorAfter(i)
        /\ starts' = [starts EXCEPT ![entries[i].generation] = @ + 1]
        /\ UNCHANGED <<generation, now, granted, ended>>
        /\ Count({i})

\* Mutant: the ticket's generation is not compared.
TicketOfSlot(i, g) == entries[i] # Empty /\ entries[i].state = "inflight"

\* The entry a ticket may complete.
TicketValid(i, g) ==
    /\ entries[i] # Empty
    /\ entries[i].generation = g
    /\ entries[i].state = "inflight"

\* complete: any ticket ever granted may come back, at any time.
Complete(g) ==
    LET i == granted[g].slot
    IN  /\ TicketValid(i, g)
        /\ entries' = [entries EXCEPT ![i].state = "completed"]
        /\ ended' = ended \cup {g}
        /\ UNCHANGED <<generation, cursor, now, granted, starts>>
        /\ Count({})

Tick ==
    /\ now < MaxNow
    /\ now' = now + 1
    /\ UNCHANGED <<entries, generation, cursor, granted, starts, ended>>
    /\ Count({})

Next ==
    \/ \E r \in Requests : Admit(r) \/ RefuseExpired(r)
    \/ Dispatch
    \/ \E g \in 1..generation : Complete(g)
    \/ Tick

Spec == Init /\ [][Next]_vars

-----------------------------------------------------------------------------
(* Properties.                                                             *)

Grant == [slot : Slot, request : Requests, at : Nat]

\* The type of every variable.
TypeOK ==
    /\ entries \in [Slot -> LaneEntry \cup {Empty}]
    /\ generation \in 0..MaxGeneration
    /\ cursor \in Slot
    /\ now \in Nat
    /\ granted \in [1..generation -> Grant]
    /\ starts \in [1..MaxGeneration -> Nat]
    /\ ended \subseteq 1..generation
    /\ passed \in [Slot -> Nat]

\* The tickets handed out and not completed yet.
Running == {g \in 1..generation : starts[g] > 0 /\ g \notin ended}

\* Two requests whose tickets are out never conflict: nothing is written while
\* another reads or writes it, not even after a deadline has passed and the
\* slots around them were swept and reused.
\* (admission.rs:3 "they remain reserved until explicit completion, even after
\* a deadline")
FootprintsCompatible ==
    \A g, h \in Running :
        g # h => granted[g].request.writes
                   \cap (granted[h].request.reads \cup granted[h].request.writes) = {}

\* An admitted request is handed out at most once, however its slot is swept,
\* reused and its ticket replayed.
StartedOnce == \A g \in 1..MaxGeneration : starts[g] <= 1

\* The same owner and nonce are never admitted again before the deadline of
\* the first admission has passed, even if it completed long before.
\* (admit: "Completed IDs stay as tombstones through their original deadline")
NonceHeldToDeadline ==
    \A g, h \in 1..generation :
        g < h /\ SameId(granted[g].request, granted[h].request)
            => granted[h].at > granted[g].request.deadline

\* A ticket completes the request it was granted for and no other, whatever
\* its slot holds by the time it comes back.
CompletesOwnRequest ==
    [][\A g \in 1..generation :
          Complete(g) =>
              entries[granted[g].slot].request = granted[g].request]_vars

\* Round robin: while an entry can be dispatched, fewer than Slots dispatches
\* pass it over.  (the cursor of dispatch)
PassedBounded == \A i \in Slot : passed[i] < Slots
=============================================================================
