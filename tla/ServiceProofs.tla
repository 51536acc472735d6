------------------------- MODULE ServiceProofs -------------------------
(***************************************************************************)
(* Proofs about the parts that the service run puts together, each for     *)
(* every value of its constants.                                           *)
(*                                                                         *)
(* The admission lane: a ticket that is out (dispatched, not completed)    *)
(* still has its entry in flight in the slot it was granted, since the     *)
(* sweep spares entries in flight; and an entry stays as a tombstone up to *)
(* its deadline.  Linked and Held say this.                                *)
(*                                                                         *)
(* Quotes: what a request was told of, prepared for and signed stays tied  *)
(* to the quote it names (QuoteInv).  The budget: every call is counted in *)
(* its run, and all that was sent and may be sent is counted in the file   *)
(* (BudgetInv).  The gate: whoever holds the lock has the marks of the     *)
(* file, and the file covers all that was shown (GateInv).                 *)
(*                                                                         *)
(* The sender: the journal it reads is a later state of the ledger it      *)
(* works from, and what was sent was recorded first (SenderInv).           *)
(***************************************************************************)
EXTENDS AdmissionLane, QuoteService, ProviderBudget, FairExecution, OrderSender, LedgerProofs,
        FiniteSetTheorems, WellFoundedInduction, NaturalsInduction, TLAPS

\* Every entry is the one its generation was granted, and its state tells what
\* happened to the ticket.
Linked ==
    \A i \in Slot : entries[i] # Empty =>
        /\ entries[i].generation \in 1..generation
        /\ granted[entries[i].generation].slot = i
        /\ granted[entries[i].generation].request = entries[i].request
        /\ entries[i].state = "queued" => starts[entries[i].generation] = 0
        /\ entries[i].state # "completed" => entries[i].generation \notin ended
        /\ entries[i].state # "queued" => starts[entries[i].generation] = 1

\* A ticket that is out holds its slot, in flight.
Held ==
    \A g \in Running :
        /\ entries[granted[g].slot].generation = g
        /\ entries[granted[g].slot].state = "inflight"

\* A generation not granted yet was never dispatched.
Unstarted == \A g \in 1..MaxGeneration : g > generation => starts[g] = 0

\* Up to its deadline a grant is found in its slot, completed or not.
Tombstones ==
    \A g \in 1..generation :
        granted[g].request.deadline >= now =>
            entries[granted[g].slot].generation = g

IInv == /\ TypeOK /\ Linked /\ Held /\ Unstarted /\ Tombstones
        /\ StartedOnce /\ FootprintsCompatible /\ NonceHeldToDeadline

-----------------------------------------------------------------------------
\* An occupied slot holds an entry.
LEMMA OccupiedIsEntry ==
    ASSUME TypeOK, NEW i \in Slot, entries[i] # Empty
    PROVE  entries[i] \in LaneEntry
BY DEF TypeOK

\* A slot whose entry has a generation is occupied.
LEMMA NumberedIsEntry ==
    ASSUME TypeOK, NEW i \in Slot, entries[i].generation # 0
    PROVE  entries[i] # Empty
BY DEF Empty

\* Requests have deadlines.
LEMMA DeadlineIsNat == \A r \in Requests : r.deadline \in Nat
BY LaneAssumption DEF LaneAssumption

\* The sweep keeps or empties each slot, and keeps entries that are in flight
\* or before their deadline.
LEMMA SweepKeeps ==
    /\ Swept = [i \in Slot |-> Swept[i]]
    /\ \A i \in Slot :
        /\ Swept[i] \in {Empty, entries[i]}
        /\ entries[i] # Empty /\ entries[i].state = "inflight"
             => Swept[i] = entries[i]
        /\ ~(entries[i].request.deadline < now) => Swept[i] = entries[i]
BY DEF Swept, Expired

-----------------------------------------------------------------------------
\* Type correctness is inductive.
LEMMA TypeInductive == TypeOK /\ [Next]_vars => TypeOK'
<1> SUFFICES ASSUME TypeOK, [Next]_vars PROVE TypeOK'
    OBVIOUS
<1> USE LaneAssumption DEF LaneAssumption
<1>p. ASSUME NEW taken, Count(taken) PROVE passed' \in [Slot -> Nat]
    BY <1>p DEF Count, TypeOK
<1>1. ASSUME NEW r \in Requests, Admit(r) PROVE TypeOK'
  <2>p. passed' \in [Slot -> Nat]
      BY <1>1, <1>p DEF Admit
  <2>s. Swept \in [Slot -> LaneEntry \cup {Empty}]
      BY DEF Swept, TypeOK
  <2>1. CASE Refused(Swept, r)
      BY <1>1, <2>1, <2>p, <2>s DEF Admit, TypeOK
  <2>2. CASE ~Refused(Swept, r)
    <3>1. PICK i \in Slot :
            /\ generation' = generation + 1
            /\ entries' = [Swept EXCEPT ![i] =
                             [request |-> r, generation |-> generation + 1,
                              state |-> "queued"]]
            /\ granted' = [g \in 1..(generation + 1) |->
                             IF g = generation + 1
                             THEN [slot |-> i, request |-> r, at |-> now]
                             ELSE granted[g]]
        BY <1>1, <2>2 DEF Admit
    <3>2. generation + 1 \in 1..MaxGeneration
        BY <2>2 DEF Refused, TypeOK
    <3>3. entries' \in [Slot -> LaneEntry \cup {Empty}]
      <4>1. [request |-> r, generation |-> generation + 1,
             state |-> "queued"] \in LaneEntry
          BY <3>2 DEF LaneEntry, State
      <4> QED BY <3>1, <4>1, <2>s
    <3>4. granted' \in [1..generation' -> Grant]
        BY <3>1 DEF TypeOK, Grant
    <3>5. ended' \subseteq 1..generation'
        BY <1>1, <3>1 DEF Admit, TypeOK
    <3> QED
        BY <1>1, <3>1, <3>2, <3>3, <3>4, <3>5, <2>p DEF Admit, TypeOK
  <2> QED BY <2>1, <2>2
<1>2. ASSUME NEW r \in Requests, RefuseExpired(r) PROVE TypeOK'
    BY <1>2 DEF RefuseExpired, vars, TypeOK
<1>3. CASE Dispatch
  <2>1. PICK i \in Slot :
          /\ Dispatchable(i)
          /\ entries' = [entries EXCEPT ![i].state = "inflight"]
          /\ cursor' = CursorAfter(i)
          /\ starts' = [starts EXCEPT ![entries[i].generation] = @ + 1]
          /\ UNCHANGED <<generation, now, granted, ended>>
          /\ Count({i})
      BY <1>3 DEF Dispatch
  <2>2. entries[i] \in LaneEntry
      BY <2>1, OccupiedIsEntry DEF Dispatchable
  <2>3. [entries[i] EXCEPT !.state = "inflight"] \in LaneEntry
      BY <2>2 DEF LaneEntry, State
  <2>4. entries' \in [Slot -> LaneEntry \cup {Empty}]
      BY <2>1, <2>3 DEF TypeOK
  <2>5. cursor' \in Slot
      BY <2>1 DEF CursorAfter, Slot
  <2>6. starts' \in [1..MaxGeneration -> Nat]
      BY <2>1, <2>2 DEF TypeOK, LaneEntry
  <2>7. passed' \in [Slot -> Nat]
      BY <2>1, <1>p
  <2> QED BY <2>1, <2>4, <2>5, <2>6, <2>7 DEF TypeOK
<1>4. ASSUME NEW g \in 1..generation, Complete(g) PROVE TypeOK'
  <2>1. granted[g].slot \in Slot
      BY DEF TypeOK, Grant
  <2>2. entries[granted[g].slot] \in LaneEntry
      BY <1>4, <2>1, OccupiedIsEntry DEF Complete, TicketValid
  <2>3. [entries[granted[g].slot] EXCEPT !.state = "completed"] \in LaneEntry
      BY <2>2 DEF LaneEntry, State
  <2>4. entries' \in [Slot -> LaneEntry \cup {Empty}]
      BY <1>4, <2>1, <2>3 DEF Complete, TypeOK
  <2>5. passed' \in [Slot -> Nat]
      BY <1>4, <1>p DEF Complete
  <2> QED BY <1>4, <2>4, <2>5 DEF Complete, TypeOK
<1>5. CASE Tick
  <2>1. passed' \in [Slot -> Nat]
      BY <1>5, <1>p DEF Tick
  <2> QED BY <1>5, <2>1 DEF Tick, TypeOK
<1>6. CASE UNCHANGED vars
    BY <1>6 DEF vars, TypeOK
<1> QED BY <1>1, <1>2, <1>3, <1>4, <1>5, <1>6 DEF Next

\* The lane's variables keep their types.
\* (Admission of runtime/admission.rs)
THEOREM TypeCorrect == Spec => []TypeOK
<1>1. Init => TypeOK
    BY LaneAssumption DEF LaneAssumption, Init, TypeOK, Slot, Grant
<1> QED BY <1>1, TypeInductive, PTL DEF Spec
-----------------------------------------------------------------------------
\* Safety: what a slot says and what its ticket says stay together.

\* A generation names at most one slot.
LEMMA OneSlotPerGeneration ==
    ASSUME Linked, NEW i \in Slot, NEW j \in Slot,
           entries[i] # Empty, entries[j] # Empty,
           entries[i].generation = entries[j].generation
    PROVE  i = j
BY DEF Linked

\* The sweep loses no running request and no tombstone before its deadline.
LEMMA SweepSafe ==
    ASSUME IInv, NEW g \in 1..generation,
           g \in Running \/ granted[g].request.deadline >= now
    PROVE  /\ granted[g].slot \in Slot
           /\ entries[granted[g].slot] # Empty
           /\ entries[granted[g].slot].generation = g
           /\ entries[granted[g].slot].request = granted[g].request
           /\ Swept[granted[g].slot] = entries[granted[g].slot]
<1> DEFINE s == granted[g].slot
<1>1. s \in Slot /\ granted[g].request \in Requests /\ now \in Nat
    BY DEF IInv, TypeOK, Grant
<1>2. entries[s].generation = g
    BY DEF IInv, Held, Tombstones
<1>3. entries[s] # Empty
    BY <1>1, <1>2, NumberedIsEntry DEF IInv, TypeOK
<1>4. entries[s].request = granted[g].request
    BY <1>1, <1>2, <1>3 DEF IInv, Linked
<1>5. CASE g \in Running
    BY <1>1, <1>2, <1>3, <1>4, <1>5, SweepKeeps DEF IInv, Held
<1>6. CASE granted[g].request.deadline >= now
    BY <1>1, <1>2, <1>3, <1>4, <1>6, SweepKeeps, DeadlineIsNat
<1> QED BY <1>1, <1>2, <1>3, <1>4, <1>5, <1>6

\* A refused admission only sweeps.
LEMMA AdmitRefused ==
    ASSUME IInv, TypeOK', NEW r \in Requests, Admit(r), Refused(Swept, r)
    PROVE  IInv'
<1>1. entries' = Swept /\ UNCHANGED <<generation, granted, now, starts, ended>>
    BY DEF Admit
<1>2. Linked'
    BY <1>1, SweepKeeps DEF IInv, Linked
<1>3. Held'
    BY <1>1, SweepSafe DEF IInv, Held, Running
<1>4. Tombstones'
    BY <1>1, SweepSafe DEF Tombstones
<1>5. (Unstarted /\ StartedOnce /\ FootprintsCompatible /\ NonceHeldToDeadline)'
    BY <1>1 DEF IInv, Unstarted, StartedOnce, FootprintsCompatible, Running,
                NonceHeldToDeadline, SameId
<1> QED BY <1>2, <1>3, <1>4, <1>5 DEF IInv

\* A granted admission takes a slot that no running request and no live
\* tombstone holds.
LEMMA AdmitGranted ==
    ASSUME IInv, TypeOK', NEW r \in Requests, Admit(r), ~Refused(Swept, r)
    PROVE  IInv'
<1> DEFINE n == generation + 1
<1>1. PICK i \in Slot :
        /\ Swept[i] = Empty
        /\ generation' = n
        /\ entries' = [Swept EXCEPT ![i] =
                         [request |-> r, generation |-> n, state |-> "queued"]]
        /\ granted' = [g \in 1..n |->
                         IF g = n
                         THEN [slot |-> i, request |-> r, at |-> now]
                         ELSE granted[g]]
    BY DEF Admit, FirstFree
<1>2. UNCHANGED <<now, starts, ended>>
    BY DEF Admit
<1>3. /\ generation \in Nat /\ n \in 1..MaxGeneration /\ now \in Nat
      /\ ended \subseteq 1..generation
      /\ \A g \in 1..MaxGeneration : starts[g] \in Nat
    BY LaneAssumption DEF LaneAssumption, IInv, TypeOK, Refused
<1>4. starts[n] = 0 /\ n \notin ended
    BY <1>3 DEF IInv, Unstarted
<1>5. /\ entries'[i] = [request |-> r, generation |-> n, state |-> "queued"]
      /\ \A j \in Slot : j # i => entries'[j] = Swept[j]
    BY <1>1, SweepKeeps
<1>6. /\ granted'[n] = [slot |-> i, request |-> r, at |-> now]
      /\ \A g \in 1..generation : granted'[g] = granted[g]
      /\ 1..n = (1..generation) \cup {n}
    BY <1>1, <1>3
<1>7. Linked'
  <2> SUFFICES ASSUME NEW j \in Slot, entries'[j] # Empty
               PROVE  /\ entries'[j].generation \in 1..n
                      /\ granted'[entries'[j].generation].slot = j
                      /\ granted'[entries'[j].generation].request = entries'[j].request
                      /\ entries'[j].state = "queued"
                           => starts[entries'[j].generation] = 0
                      /\ entries'[j].state # "completed"
                           => entries'[j].generation \notin ended
                      /\ entries'[j].state # "queued"
                           => starts[entries'[j].generation] = 1
      BY <1>1, <1>2 DEF Linked, Empty
  <2>1. CASE j = i
      BY <1>3, <1>4, <1>5, <1>6, <2>1
  <2>2. CASE j # i
    <3>1. entries'[j] = entries[j] /\ entries[j] # Empty
        BY <1>5, <2>2, SweepKeeps
    <3> QED BY <1>6, <3>1 DEF IInv, Linked
  <2> QED BY <2>1, <2>2
<1>8. Running' = Running
    BY <1>1, <1>2, <1>4, <1>6 DEF Running
<1>9. \A g \in Running : g \in 1..generation
    BY DEF Running
<1>10. Held'
  <2> SUFFICES ASSUME NEW g \in Running
               PROVE  /\ entries'[granted[g].slot].generation = g
                      /\ entries'[granted[g].slot].state = "inflight"
      BY <1>6, <1>8, <1>9 DEF Held
  <2>1. granted[g].slot \in Slot /\ granted[g].slot # i
      BY <1>1, <1>9, SweepSafe
  <2>2. entries'[granted[g].slot] = entries[granted[g].slot]
      BY <1>5, <1>9, <2>1, SweepSafe
  <2> QED BY <2>2 DEF IInv, Held
<1>11. Tombstones'
    BY <1>1, <1>2, <1>5, <1>6, SweepSafe DEF Tombstones
<1>12. FootprintsCompatible'
    BY <1>6, <1>8, <1>9 DEF IInv, FootprintsCompatible
<1>13. NonceHeldToDeadline'
  <2> SUFFICES ASSUME NEW g \in 1..n, NEW h \in 1..n, g < h,
                      SameId(granted'[g].request, granted'[h].request)
               PROVE  granted'[h].at > granted'[g].request.deadline
      BY <1>1 DEF NonceHeldToDeadline, SameId
  <2>1. g \in 1..generation
      BY <1>3
  <2>2. CASE h \in 1..generation
      BY <1>6, <2>1, <2>2 DEF IInv, NonceHeldToDeadline
  <2>3. CASE h = n
    <3>1. SameId(granted[g].request, r)
        BY <1>6, <2>1, <2>3 DEF SameId
    <3>2. ~(granted[g].request.deadline >= now)
      <4> SUFFICES ASSUME granted[g].request.deadline >= now PROVE FALSE
          OBVIOUS
      <4>1. Duplicate(Swept, r)
          BY <2>1, <3>1, SweepSafe DEF Duplicate
      <4> QED BY <4>1 DEF Refused
    <3>3. granted[g].request.deadline \in Nat
        BY <2>1, DeadlineIsNat DEF IInv, TypeOK, Grant
    <3> QED BY <1>3, <1>6, <2>1, <2>3, <3>2, <3>3
  <2> QED BY <1>6, <2>2, <2>3
<1>14. Unstarted' /\ StartedOnce'
    BY <1>1, <1>2, <1>3 DEF IInv, Unstarted, StartedOnce
<1> QED BY <1>7, <1>10, <1>11, <1>12, <1>13, <1>14 DEF IInv

\* A dispatched request conflicts with none that is out.
LEMMA DispatchSafe == ASSUME IInv, TypeOK', Dispatch PROVE IInv'
<1>1. PICK i \in Slot :
        /\ Dispatchable(i)
        /\ entries' = [entries EXCEPT ![i].state = "inflight"]
        /\ starts' = [starts EXCEPT ![entries[i].generation] = @ + 1]
        /\ UNCHANGED <<generation, now, granted, ended>>
    BY DEF Dispatch
<1> DEFINE n == entries[i].generation
<1>2. entries[i] \in LaneEntry /\ entries[i] # Empty /\ entries[i].state = "queued"
    BY <1>1, OccupiedIsEntry DEF Dispatchable, IInv
<1>3. /\ n \in 1..generation /\ n \in 1..MaxGeneration
      /\ granted[n].slot = i /\ granted[n].request = entries[i].request
      /\ starts[n] = 0 /\ n \notin ended
    BY <1>2 DEF IInv, Linked, LaneEntry
<1>4. /\ starts'[n] = 1
      /\ \A g \in 1..MaxGeneration : g # n => starts'[g] = starts[g]
    BY <1>1, <1>3 DEF IInv, TypeOK
<1>5. /\ entries'[i].generation = n /\ entries'[i].state = "inflight"
      /\ entries'[i].request = entries[i].request
      /\ \A j \in Slot : j # i => entries'[j] = entries[j]
    BY <1>1, <1>2 DEF IInv, TypeOK, LaneEntry
<1>6. generation \in 0..MaxGeneration
    BY DEF IInv, TypeOK
<1>7. Linked'
  <2> SUFFICES ASSUME NEW j \in Slot, entries'[j] # Empty
               PROVE  /\ entries'[j].generation \in 1..generation
                      /\ granted[entries'[j].generation].slot = j
                      /\ granted[entries'[j].generation].request = entries'[j].request
                      /\ entries'[j].state = "queued"
                           => starts'[entries'[j].generation] = 0
                      /\ entries'[j].state # "completed"
                           => entries'[j].generation \notin ended
                      /\ entries'[j].state # "queued"
                           => starts'[entries'[j].generation] = 1
      BY <1>1 DEF Linked, Empty
  <2>1. CASE j = i
      BY <1>3, <1>4, <1>5, <2>1
  <2>2. CASE j # i
    <3>1. entries[j] # Empty /\ entries[j].generation # n
        BY <1>2, <1>5, <2>2, OneSlotPerGeneration DEF IInv
    <3>2. entries[j].generation \in 1..MaxGeneration
        BY <3>1, OccupiedIsEntry DEF IInv, LaneEntry
    <3> QED BY <1>4, <1>5, <2>2, <3>1, <3>2 DEF IInv, Linked
  <2> QED BY <2>1, <2>2
<1>8. /\ n \notin Running
      /\ Running' \subseteq Running \cup {n}
    BY <1>1, <1>3, <1>4, <1>6 DEF Running
<1>9. ASSUME NEW g \in Running
      PROVE  /\ granted[g].slot \in Slot /\ granted[g].slot # i
             /\ entries[granted[g].slot] # Empty
             /\ entries[granted[g].slot].generation = g
             /\ entries[granted[g].slot].request = granted[g].request
             /\ entries[granted[g].slot].state = "inflight"
    BY <1>2, SweepSafe DEF IInv, Held, Running
<1>10. Held'
    BY <1>1, <1>3, <1>5, <1>8, <1>9 DEF Held
<1>11. ASSUME NEW g \in Running
       PROVE  ~Conflicts(granted[n].request, granted[g].request)
  <2>1. granted[g].slot \in InFlight
      BY <1>9 DEF InFlight, Occupied
  <2> QED BY <1>1, <1>3, <1>9, <2>1 DEF Dispatchable
<1>12. FootprintsCompatible'
    BY <1>1, <1>8, <1>11 DEF IInv, FootprintsCompatible, Conflicts
<1>13. Tombstones'
    BY <1>1, <1>5, <1>3, SweepSafe DEF IInv, Tombstones
<1>14. NonceHeldToDeadline'
    BY <1>1 DEF IInv, NonceHeldToDeadline, SameId
<1>15. Unstarted' /\ StartedOnce'
    BY <1>1, <1>3, <1>4, <1>6 DEF IInv, Unstarted, StartedOnce
<1> QED BY <1>7, <1>10, <1>12, <1>13, <1>14, <1>15 DEF IInv

\* A completed ticket was out, and leaves its tombstone behind.
LEMMA CompleteSafe ==
    ASSUME IInv, TypeOK', NEW g \in 1..generation, Complete(g) PROVE IInv'
<1> DEFINE s == granted[g].slot
<1>1. /\ entries[s] # Empty /\ entries[s].generation = g
      /\ entries[s].state = "inflight"
      /\ entries' = [entries EXCEPT ![s].state = "completed"]
      /\ ended' = ended \cup {g}
      /\ UNCHANGED <<generation, now, granted, starts>>
    BY DEF Complete, TicketValid
<1>2. s \in Slot
    BY DEF IInv, TypeOK, Grant
<1>3. entries[s] \in LaneEntry
    BY <1>1, <1>2, OccupiedIsEntry DEF IInv
<1>4. /\ entries'[s].generation = g /\ entries'[s].state = "completed"
      /\ entries'[s].request = entries[s].request
      /\ \A j \in Slot : j # s => entries'[j] = entries[j]
    BY <1>1, <1>2, <1>3 DEF IInv, TypeOK, LaneEntry
<1>5. Linked'
  <2> SUFFICES ASSUME NEW j \in Slot, entries'[j] # Empty
               PROVE  /\ entries'[j].generation \in 1..generation
                      /\ granted[entries'[j].generation].slot = j
                      /\ granted[entries'[j].generation].request = entries'[j].request
                      /\ entries'[j].state = "queued"
                           => starts[entries'[j].generation] = 0
                      /\ entries'[j].state # "completed"
                           => entries'[j].generation \notin ended'
                      /\ entries'[j].state # "queued"
                           => starts[entries'[j].generation] = 1
      BY <1>1 DEF Linked, Empty
  <2>1. CASE j = s
      BY <1>1, <1>2, <1>4, <2>1 DEF IInv, Linked
  <2>2. CASE j # s
    <3>1. entries[j] # Empty /\ entries[j].generation # g
        BY <1>1, <1>2, <1>4, <2>2, OneSlotPerGeneration DEF IInv
    <3> QED BY <1>1, <1>4, <2>2, <3>1 DEF IInv, Linked
  <2> QED BY <2>1, <2>2
<1>6. \A h \in Running' : h \in Running /\ h # g
    BY <1>1 DEF Running
<1>7. Held'
    BY <1>1, <1>4, <1>6, SweepSafe DEF IInv, Held, Running
<1>8. Tombstones'
    BY <1>1, <1>4, SweepSafe DEF IInv, Tombstones
<1>9. (FootprintsCompatible /\ NonceHeldToDeadline)'
    BY <1>1, <1>6 DEF IInv, FootprintsCompatible, NonceHeldToDeadline, SameId
<1>10. Unstarted' /\ StartedOnce'
    BY <1>1 DEF IInv, Unstarted, StartedOnce
<1> QED BY <1>5, <1>7, <1>8, <1>9, <1>10 DEF IInv

\* Time only expires tombstones.
LEMMA TickSafe == ASSUME IInv, TypeOK', Tick PROVE IInv'
<1>1. now' = now + 1 /\ UNCHANGED <<entries, generation, granted, starts, ended>>
    BY DEF Tick
<1>2. Tombstones'
  <2> SUFFICES ASSUME NEW g \in 1..generation, granted[g].request.deadline >= now + 1
               PROVE  entries[granted[g].slot].generation = g
      BY <1>1 DEF Tombstones
  <2>1. now \in Nat /\ granted[g].request.deadline \in Nat
      BY DeadlineIsNat DEF IInv, TypeOK, Grant
  <2> QED BY <2>1 DEF IInv, Tombstones
<1>3. (/\ Linked /\ Held /\ Unstarted /\ StartedOnce
       /\ FootprintsCompatible /\ NonceHeldToDeadline)'
    BY <1>1 DEF IInv, Linked, Held, Running, Unstarted, StartedOnce,
                FootprintsCompatible, NonceHeldToDeadline, SameId
<1> QED BY <1>2, <1>3 DEF IInv

\* Nothing but `passed` may differ in a step that leaves the lane alone.
LEMMA StutterSafe == ASSUME IInv, TypeOK', UNCHANGED vars PROVE IInv'
BY DEF IInv, vars, Linked, Held, Running, Unstarted, Tombstones, StartedOnce,
       FootprintsCompatible, NonceHeldToDeadline, SameId

\* Every call of admit, dispatch and complete, and every tick, keeps the invariant.
LEMMA SafetyInductive == IInv /\ [Next]_vars => IInv'
<1> SUFFICES ASSUME IInv, [Next]_vars PROVE IInv'
    OBVIOUS
<1>1. TypeOK'
    BY TypeInductive DEF IInv
<1>2. ASSUME NEW r \in Requests, Admit(r) PROVE IInv'
    BY <1>1, <1>2, AdmitRefused, AdmitGranted
<1>3. ASSUME NEW r \in Requests, RefuseExpired(r) PROVE IInv'
    BY <1>1, <1>3, StutterSafe DEF RefuseExpired
<1>4. CASE Dispatch
    BY <1>1, <1>4, DispatchSafe
<1>5. ASSUME NEW g \in 1..generation, Complete(g) PROVE IInv'
    BY <1>1, <1>5, CompleteSafe
<1>6. CASE Tick
    BY <1>1, <1>6, TickSafe
<1>7. CASE UNCHANGED vars
    BY <1>1, <1>7, StutterSafe
<1> QED BY <1>2, <1>3, <1>4, <1>5, <1>6, <1>7 DEF Next

\* A lane starts with no request on record and every slot free.
LEMMA InitSafe == Init => IInv
<1> SUFFICES ASSUME Init PROVE IInv
    OBVIOUS
<1>1. TypeOK
    BY LaneAssumption DEF LaneAssumption, Init, TypeOK, Slot, Grant
<1>2. 1..generation = {} /\ Running = {}
    BY DEF Init, Running
<1>3. Linked
    BY DEF Init, Linked
<1>4. Held /\ Tombstones /\ FootprintsCompatible /\ NonceHeldToDeadline
    BY <1>2 DEF Held, Tombstones, FootprintsCompatible, NonceHeldToDeadline
<1>5. Unstarted /\ StartedOnce
    BY DEF Init, Unstarted, StartedOnce
<1> QED BY <1>1, <1>3, <1>4, <1>5 DEF IInv

\* The inductive invariant holds of every history of the lane.
THEOREM Safety == Spec => []IInv
BY InitSafe, SafetyInductive, PTL DEF Spec

\* Two requests whose tickets are out never conflict.
\* (dispatch: the footprints of entries in flight, admit: the sweep)
THEOREM NoConflict == Spec => []FootprintsCompatible
<1>1. IInv => FootprintsCompatible
    BY DEF IInv
<1> QED BY <1>1, Safety, PTL

\* An admitted request is dispatched at most once.
\* (dispatch: in_flight and completed entries are skipped)
THEOREM DispatchedOnce == Spec => []StartedOnce
<1>1. IInv => StartedOnce
    BY DEF IInv
<1> QED BY <1>1, Safety, PTL

\* A nonce is not admitted again before the first admission's deadline.
\* (admit: completed entries stay as tombstones)
THEOREM NonceHeld == Spec => []NonceHeldToDeadline
<1>1. IInv => NonceHeldToDeadline
    BY DEF IInv
<1> QED BY <1>1, Safety, PTL

\* A ticket completes the request it was granted for.
\* (complete: the generation of the ticket)
THEOREM OwnRequest == Spec => CompletesOwnRequest
<1>1. ASSUME IInv, NEW g \in 1..generation, Complete(g)
      PROVE  entries[granted[g].slot].request = granted[g].request
    BY <1>1 DEF IInv, TypeOK, Grant, Complete, TicketValid, Linked
<1>2. IInv => [\A g \in 1..generation :
                 Complete(g) =>
                   entries[granted[g].slot].request = granted[g].request]_vars
    BY <1>1
<1> QED BY <1>2, Safety, PTL DEF CompletesOwnRequest

-----------------------------------------------------------------------------
(* Quotes: from what was quoted to what is authorized.                    *)

\* What the service remembers of a quote, and the candidate it keeps for one.
Issued == [side : Sides, floor : Nat, slot : Nat, worth : Nat, expires : Nat]
Candidate == [serial : Nat, slot : Nat, worth : Nat, floor : Nat, deadline : Nat,
              cost : Cost, fresh : BOOLEAN, expires : Nat]

\* The requests a worker runs, and the wires wallets were given.
BuildRequest == [at : {"build"}, quote : Nat, slot : Nat, worth : Nat, floor : Nat]
AdmitRequest == [at : {"admit"}, quote : Nat, base : Nat, candidate : Candidate]
SubmitRequest == [at : {"authorize"}, quote : Nat, serial : Nat, slot : Nat, worth : Nat]
Wish == {NoRequest} \cup BuildRequest \cup AdmitRequest \cup SubmitRequest
Wire == [quote : Nat, serial : Nat]

QuoteTypeOK ==
    /\ clock \in Nat
    /\ bank \in [ok : BOOLEAN, slot : Nat, worth : Nat]
    /\ issued \in Seq(Issued)
    /\ DOMAIN prepared \subseteq Quotes
    /\ \A q \in DOMAIN prepared : prepared[q] \in Candidate
    /\ serial \in Nat
    /\ work \in [Workers -> Wish]
    /\ shown \subseteq Wire

\* A candidate signs the floor of its quote and was built in a state worth it.
SignsFloor(q, c) ==
    /\ q \in Quotes
    /\ c.floor = issued[q].floor
    /\ c.worth >= c.floor

\* A request carries the floor of its quote through every step.
CarriesFloor ==
    \A p \in Workers :
        /\ work[p].at = "build" =>
             work[p].quote \in Quotes /\ work[p].floor = issued[work[p].quote].floor
        /\ work[p].at = "admit" => SignsFloor(work[p].quote, work[p].candidate)
        /\ work[p].at = "authorize" => [quote |-> work[p].quote, serial |-> work[p].serial] \in shown

QuoteInv ==
    /\ QuoteTypeOK
    /\ CarriesFloor
    /\ \A q \in DOMAIN prepared : SignsFloor(q, prepared[q])
    /\ \A f \in frozen : f.quote \in Quotes /\ f.floor = issued[f.quote].floor
    /\ \A o \in orders : o.quote \in Quotes
    /\ OrderHonoursQuote

-----------------------------------------------------------------------------
\* A quote that is added changes none of those before it.
LEMMA QuotesStand ==
    ASSUME issued \in Seq(Issued), NEW q \in Issued, issued' = Append(issued, q)
    PROVE  /\ issued' \in Seq(Issued)
           /\ Quotes \subseteq Quotes'
           /\ \A n \in Quotes : issued'[n] = issued[n]
BY DEF Quotes

\* What is remembered of a quote.
LEMMA QuoteTerms ==
    ASSUME issued \in Seq(Issued), NEW q \in Quotes
    PROVE  /\ q \in Nat
           /\ issued[q].floor \in Nat /\ issued[q].expires \in Nat
<1>1. q \in 1..Len(issued) /\ issued[q] \in Issued
    BY DEF Quotes
<1> QED BY <1>1 DEF Issued

\* The floor of a quote is positive and within the worth it was made at.
LEMMA FloorIsNat ==
    ASSUME NEW worth \in Nat, NEW slip \in Nat
    PROVE  Floor(worth, slip) \in Nat
BY DEF Floor

\* A request by what it is doing.
LEMMA RequestKinds ==
    ASSUME NEW w \in Wish
    PROVE  /\ w.at = "build" => /\ w.quote \in Nat /\ w.slot \in Nat
                                /\ w.worth \in Nat /\ w.floor \in Nat
           /\ w.at = "admit" => /\ w.quote \in Nat /\ w.base \in Nat
                                /\ w.candidate \in Candidate
           /\ w.at = "authorize" => /\ w.quote \in Nat /\ w.serial \in Nat
                                    /\ w.slot \in Nat /\ w.worth \in Nat
BY DEF Wish, NoRequest, BuildRequest, AdmitRequest, SubmitRequest

\* A step that changes one request, or none, and leaves quotes, candidates,
\* commitments and orders alone.
LEMMA RequestStep ==
    ASSUME QuoteInv, UNCHANGED <<clock, bank, issued, prepared, frozen, orders>>,
           serial' \in Nat, shown \subseteq shown', shown' \subseteq Wire,
           NEW p \in Workers, NEW w \in Wish, work' \in {work, [work EXCEPT ![p] = w]},
           w.at = "build" => w.quote \in Quotes /\ w.floor = issued[w.quote].floor,
           w.at = "admit" => SignsFloor(w.quote, w.candidate),
           w.at = "authorize" => [quote |-> w.quote, serial |-> w.serial] \in shown'
    PROVE  QuoteInv'
<1>1. QuoteTypeOK'
    BY DEF QuoteInv, QuoteTypeOK, Quotes
<1>2. CarriesFloor'
    BY DEF QuoteInv, QuoteTypeOK, CarriesFloor, SignsFloor, Quotes
<1>3. OrderHonoursQuote'
    BY DEF QuoteInv, OrderHonoursQuote
<1> QED BY <1>1, <1>2, <1>3 DEF QuoteInv, SignsFloor, Quotes

\* A step that replaces candidates by candidates that sign their floors, and
\* ends a request.
LEMMA CandidateStep ==
    ASSUME QuoteInv, UNCHANGED <<clock, bank, issued, serial, frozen, orders>>,
           shown \subseteq shown', shown' \subseteq Wire,
           DOMAIN prepared' \subseteq Quotes,
           \A q \in DOMAIN prepared' : prepared'[q] \in Candidate /\ SignsFloor(q, prepared'[q]),
           NEW p \in Workers, work' \in {work, [work EXCEPT ![p] = NoRequest]}
    PROVE  QuoteInv'
<1>1. QuoteTypeOK'
    BY DEF QuoteInv, QuoteTypeOK, Quotes, Wish
<1>2. CarriesFloor'
    BY DEF QuoteInv, QuoteTypeOK, CarriesFloor, SignsFloor, Quotes, NoRequest
<1>3. OrderHonoursQuote'
    BY DEF QuoteInv, OrderHonoursQuote
<1> QED BY <1>1, <1>2, <1>3 DEF QuoteInv, SignsFloor, Quotes

\* A step of the market or of the clock.
LEMMA MarketStep ==
    ASSUME QuoteInv, UNCHANGED <<issued, prepared, serial, work, shown, frozen, orders>>,
           clock' \in Nat, bank' \in [ok : BOOLEAN, slot : Nat, worth : Nat]
    PROVE  QuoteInv'
BY DEF QuoteInv, QuoteTypeOK, CarriesFloor, SignsFloor, Quotes, OrderHonoursQuote

-----------------------------------------------------------------------------
\* quote and quote_sell: whatever stood on the earlier quotes still stands.
LEMMA KeepQuoted ==
    ASSUME ServiceAssumption, QuoteInv, NEW side \in Sides, NEW slip \in Nat, Quoted(side, slip)
    PROVE  QuoteInv'
<1> DEFINE q == [side |-> side, floor |-> Floor(bank.worth, slip), slot |-> bank.slot,
                 worth |-> bank.worth, expires |-> clock + Ttl]
<1>1. q \in Issued
    BY FloorIsNat DEF QuoteInv, QuoteTypeOK, Issued, ServiceAssumption
<1>2. issued' = Append(issued, q) /\ UNCHANGED <<clock, bank, prepared, serial, work, shown, frozen, orders>>
    BY DEF Quoted
<1> HIDE DEF q
<1>3. /\ issued' \in Seq(Issued) /\ Quotes \subseteq Quotes'
      /\ \A n \in Quotes : issued'[n] = issued[n]
    BY <1>1, <1>2, QuotesStand DEF QuoteInv, QuoteTypeOK
<1>4. QuoteTypeOK'
    BY <1>2, <1>3 DEF QuoteInv, QuoteTypeOK
<1>5. CarriesFloor'
    BY <1>2, <1>3 DEF QuoteInv, CarriesFloor, SignsFloor
<1>6. OrderHonoursQuote'
    BY <1>2, <1>3 DEF QuoteInv, OrderHonoursQuote
<1> QED BY <1>2, <1>3, <1>4, <1>5, <1>6 DEF QuoteInv, SignsFloor

\* freeze: the commitment has the floor of the quote.
LEMMA KeepFreeze ==
    ASSUME QuoteInv, NEW q, NEW deadline, Freeze(q, deadline)
    PROVE  QuoteInv'
<1>1. /\ UNCHANGED <<clock, bank, issued, prepared, serial, work, shown, orders>>
      /\ q \in Quotes
      /\ frozen' = frozen \cup {[quote |-> q, floor |-> issued[q].floor, worth |-> bank.worth]}
    BY DEF Freeze
<1> QED BY <1>1 DEF QuoteInv, QuoteTypeOK, CarriesFloor, SignsFloor, Quotes, OrderHonoursQuote

\* prepare: a kept candidate is given again, or the runtime is called with the
\* floor of the quote.
LEMMA KeepPrepare ==
    ASSUME QuoteInv, NEW p \in Workers, NEW q \in Quotes, StartPrepare(p, q) \/ CallRuntime(p, q)
    PROVE  QuoteInv'
<1>1. CASE StartPrepare(p, q)
  <2>1. /\ UNCHANGED <<clock, bank, issued, prepared, serial, frozen, orders, work>>
        /\ shown' \in {shown, shown \cup {[quote |-> q, serial |-> prepared[q].serial]}}
        /\ shown' # shown => q \in DOMAIN prepared
      BY <1>1 DEF StartPrepare
  <2>3. shown \subseteq shown' /\ shown' \subseteq Wire
      BY <2>1 DEF QuoteInv, QuoteTypeOK, Candidate, Wire, Quotes
  <2>2. NoRequest \in Wish /\ NoRequest.at = "idle"
      BY DEF Wish, NoRequest
  <2> QED BY <2>1, <2>2, <2>3, RequestStep DEF QuoteInv, QuoteTypeOK
<1>2. CASE CallRuntime(p, q)
  <2> DEFINE w == [at |-> "build", quote |-> q, slot |-> bank.slot,
                   worth |-> bank.worth, floor |-> PromisedFloor(q)]
  <2>1. /\ UNCHANGED <<clock, bank, issued, prepared, serial, shown, frozen, orders>>
        /\ work' = [work EXCEPT ![p] = w]
      BY <1>2 DEF CallRuntime
  <2>2. q \in Nat /\ issued[q].floor \in Nat
      BY QuoteTerms DEF QuoteInv, QuoteTypeOK
  <2>3. w \in Wish
    <3>1. bank.slot \in Nat /\ bank.worth \in Nat
        BY DEF QuoteInv, QuoteTypeOK
    <3>2. w \in BuildRequest
        BY <2>2, <3>1 DEF BuildRequest, PromisedFloor
    <3> HIDE DEF w
    <3> QED BY <3>2 DEF Wish
  <2>4. w.at = "build" /\ w.quote \in Quotes /\ w.floor = issued[w.quote].floor
      BY DEF PromisedFloor
  <2> HIDE DEF w
  <2> QED BY <2>1, <2>3, <2>4, RequestStep DEF QuoteInv, QuoteTypeOK
<1> QED BY <1>1, <1>2

\* prepare_direct and prepare_sell: the candidate signs the floor it was called
\* with, in the state it was called in, which is worth it.
LEMMA KeepBuilt ==
    ASSUME ServiceAssumption, QuoteInv, NEW p \in Workers, NEW side, NEW slot \in Nat,
           NEW cost \in Cost, Built(p, side, slot, cost)
    PROVE  QuoteInv'
<1> DEFINE w == work[p]
           c == [serial |-> serial + 1, slot |-> slot, worth |-> w.worth, floor |-> w.floor,
                 deadline |-> slot + DeadlineSlots, cost |-> cost, fresh |-> TRUE,
                 expires |-> issued[w.quote].expires]
           a == [at |-> "admit", quote |-> w.quote, base |-> w.slot, candidate |-> c]
<1>1. /\ w.at = "build" /\ w.worth >= w.floor
      /\ work' = [work EXCEPT ![p] = a] /\ serial' = serial + 1
      /\ UNCHANGED <<clock, bank, issued, prepared, shown, frozen, orders>>
    BY DEF Built
<1>2. /\ w.quote \in Quotes /\ w.floor = issued[w.quote].floor
      /\ w.quote \in Nat /\ w.slot \in Nat /\ w.worth \in Nat /\ w.floor \in Nat
    BY <1>1, RequestKinds DEF QuoteInv, QuoteTypeOK, CarriesFloor
<1>3. issued[w.quote].expires \in Nat /\ serial \in Nat
    BY <1>2, QuoteTerms DEF QuoteInv, QuoteTypeOK
<1>4. c \in Candidate
    BY <1>2, <1>3 DEF Candidate, ServiceAssumption
<1>5. a \in Wish
  <2> HIDE DEF c
  <2>1. a \in AdmitRequest
      BY <1>2, <1>4 DEF AdmitRequest
  <2> HIDE DEF a
  <2> QED BY <2>1 DEF Wish
<1>6. SignsFloor(a.quote, a.candidate)
    BY <1>1, <1>2 DEF SignsFloor
<1>7. a.at = "admit" /\ serial' \in Nat
    BY <1>1, <1>3
<1>8. shown' \subseteq Wire /\ a \in Wish
    BY <1>1, <1>5 DEF QuoteInv, QuoteTypeOK
<1> HIDE DEF a
<1> QED BY <1>1, <1>6, <1>7, <1>8, RequestStep

\* admit_prepared and the sellers' cache: a kept candidate came from a request.
LEMMA KeepStored ==
    ASSUME QuoteInv, NEW p \in Workers, AdmitBuy(p) \/ StoreSell(p)
    PROVE  QuoteInv'
<1> DEFINE w == work[p]
<1>1. /\ w.at = "admit" /\ UNCHANGED <<clock, bank, issued, serial, frozen, orders>>
      /\ work' = [work EXCEPT ![p] = NoRequest]
      /\ prepared' \in {prepared, Keep(w.quote, w.candidate)}
      /\ shown' \in {shown, shown \cup {[quote |-> w.quote, serial |-> w.candidate.serial]}}
    BY DEF AdmitBuy, StoreSell
<1>2. w.candidate \in Candidate /\ SignsFloor(w.quote, w.candidate)
    BY <1>1, RequestKinds DEF QuoteInv, QuoteTypeOK, CarriesFloor
<1>3. w.quote \in Quotes
    BY <1>2 DEF SignsFloor
<1>4. /\ DOMAIN prepared' \subseteq Quotes
      /\ \A q \in DOMAIN prepared' : prepared'[q] \in Candidate /\ SignsFloor(q, prepared'[q])
    BY <1>1, <1>2, <1>3 DEF Keep, Unexpired, QuoteInv, QuoteTypeOK
<1>5. shown \subseteq shown' /\ shown' \subseteq Wire
    BY <1>1, <1>2, <1>3 DEF QuoteInv, QuoteTypeOK, Candidate, Wire, Quotes
<1> QED BY <1>1, <1>4, <1>5, CandidateStep

\* The candidate's feed ages; its terms stay.
LEMMA KeepAge ==
    ASSUME QuoteInv, NEW q \in Quotes, Age(q)
    PROVE  QuoteInv'
<1>1. /\ q \in DOMAIN prepared /\ prepared' = [prepared EXCEPT ![q].fresh = FALSE]
      /\ UNCHANGED <<clock, bank, issued, serial, work, shown, frozen, orders>>
    BY DEF Age
<1>2. prepared[q] \in Candidate /\ SignsFloor(q, prepared[q])
    BY <1>1 DEF QuoteInv, QuoteTypeOK
<1>3. [prepared[q] EXCEPT !.fresh = FALSE] \in Candidate
    BY <1>2 DEF Candidate
<1>4. SignsFloor(q, [prepared[q] EXCEPT !.fresh = FALSE])
    BY <1>2 DEF SignsFloor, Candidate
<1>5. QuoteTypeOK'
    BY <1>1, <1>3 DEF QuoteInv, QuoteTypeOK, Quotes
<1>6. CarriesFloor' /\ OrderHonoursQuote'
    BY <1>1 DEF QuoteInv, CarriesFloor, SignsFloor, Quotes, OrderHonoursQuote
<1>7. \A x \in DOMAIN prepared' : SignsFloor(x, prepared'[x])
    BY <1>1, <1>4 DEF QuoteInv
<1> QED BY <1>1, <1>5, <1>6, <1>7 DEF QuoteInv, SignsFloor, Quotes

\* submit, up to the authorization: the wire is one the wallet was given.
LEMMA KeepSubmit ==
    ASSUME QuoteInv, NEW p \in Workers, NEW s \in shown, StartSubmit(p, s)
    PROVE  QuoteInv'
<1> DEFINE w == [at |-> "authorize", quote |-> s.quote, serial |-> s.serial,
                 slot |-> bank.slot, worth |-> bank.worth]
<1>1. /\ UNCHANGED <<clock, bank, issued, prepared, serial, shown, frozen, orders>>
      /\ work' = [work EXCEPT ![p] = w]
    BY DEF StartSubmit
<1>2. s \in Wire /\ bank.slot \in Nat /\ bank.worth \in Nat /\ shown' \subseteq Wire /\ serial' \in Nat
    BY <1>1 DEF QuoteInv, QuoteTypeOK
<1>3. s.quote \in Nat /\ s.serial \in Nat /\ s = [quote |-> s.quote, serial |-> s.serial]
    BY <1>2 DEF Wire
<1>4. w \in SubmitRequest
    BY <1>2, <1>3 DEF SubmitRequest
<1>5. w.at = "authorize" /\ [quote |-> w.quote, serial |-> w.serial] \in shown'
    BY <1>1, <1>3
<1> HIDE DEF w
<1>6. w \in Wish
    BY <1>4 DEF Wish
<1> QED BY <1>1, <1>2, <1>5, <1>6, RequestStep

\* authorize_submission and submit_sell: the order has the candidate's terms,
\* on the state that the request has read.
LEMMA KeepAuthorize ==
    ASSUME QuoteInv, NEW p \in Workers, Authorize(p)
    PROVE  QuoteInv'
<1> DEFINE w == work[p]
           c == prepared[w.quote]
           o == [quote |-> w.quote, serial |-> w.serial, floor |-> c.floor,
                 worth |-> c.worth, read |-> w.worth]
<1>1. /\ w.at = "authorize" /\ Authorizes(w)
      /\ orders' = orders \cup {o}
      /\ work' = [work EXCEPT ![p] = NoRequest]
      /\ UNCHANGED <<clock, bank, issued, prepared, serial, shown, frozen>>
    BY DEF Authorize
<1>2. w.quote \in DOMAIN prepared /\ c.worth = w.worth
    BY <1>1 DEF Authorizes, SameState
<1>3. SignsFloor(w.quote, c) /\ [quote |-> w.quote, serial |-> w.serial] \in shown /\ c \in Candidate
    BY <1>1, <1>2 DEF QuoteInv, QuoteTypeOK, CarriesFloor
<1>4. w.quote \in Quotes /\ c.floor = issued[w.quote].floor /\ c.worth >= c.floor
    BY <1>3 DEF SignsFloor
<1>5. c.floor \in Nat
    BY <1>3 DEF Candidate
<1>6. QuoteTypeOK'
    BY <1>1 DEF QuoteInv, QuoteTypeOK, Quotes, Wish
<1>7. CarriesFloor'
    BY <1>1 DEF QuoteInv, QuoteTypeOK, CarriesFloor, SignsFloor, Quotes, NoRequest
<1>8. OrderHonoursQuote'
  <2>1. /\ o.quote = w.quote /\ o.serial = w.serial /\ o.floor = c.floor
        /\ o.worth = c.worth /\ o.read = w.worth
      OBVIOUS
  <2>2. c.floor >= issued[w.quote].floor
      BY <1>4, <1>5
  <2> HIDE DEF w, c, o
  <2> QED BY <1>1, <1>2, <1>3, <1>4, <2>1, <2>2 DEF QuoteInv, OrderHonoursQuote
<1> QED BY <1>1, <1>4, <1>6, <1>7, <1>8 DEF QuoteInv, SignsFloor, Quotes

\* A build that fails, a refused candidate and a revoked submission end the
\* request and keep nothing of it.
LEMMA KeepEnded ==
    ASSUME QuoteInv, NEW p \in Workers, BuildFails(p) \/ RefuseBuy(p) \/ Revoke(p)
    PROVE  QuoteInv'
<1>1. /\ work' = [work EXCEPT ![p] = NoRequest]
      /\ UNCHANGED <<clock, bank, issued, prepared, serial, shown, frozen, orders>>
    BY DEF BuildFails, RefuseBuy, Revoke
<1>2. NoRequest \in Wish /\ NoRequest.at = "idle"
    BY DEF Wish, NoRequest
<1>3. serial' \in Nat /\ shown' \subseteq Wire
    BY <1>1 DEF QuoteInv, QuoteTypeOK
<1> QED BY <1>1, <1>2, <1>3, RequestStep

\* publish and invalidate, and the passing of time.
LEMMA KeepMarket ==
    ASSUME QuoteInv, (\E worth \in Nat : Publish(worth)) \/ Invalidate \/ QuoteTick
    PROVE  QuoteInv'
<1>1. UNCHANGED <<issued, prepared, serial, work, shown, frozen, orders>>
    BY DEF Publish, Invalidate, QuoteTick
<1>2. clock' \in Nat
    BY DEF Publish, Invalidate, QuoteTick, QuoteInv, QuoteTypeOK
<1>3. bank' \in [ok : BOOLEAN, slot : Nat, worth : Nat]
  <2>1. bank \in [ok : BOOLEAN, slot : Nat, worth : Nat]
      BY DEF QuoteInv, QuoteTypeOK
  <2>2. CASE \E worth \in Nat : Publish(worth)
    <3>1. PICK worth \in Nat : bank' = [ok |-> TRUE, slot |-> bank.slot + 1, worth |-> worth]
        BY <2>2 DEF Publish
    <3> QED BY <2>1, <3>1
  <2>3. CASE Invalidate
      BY <2>1, <2>3 DEF Invalidate
  <2>4. CASE QuoteTick
      BY <2>1, <2>4 DEF QuoteTick
  <2> QED BY <2>2, <2>3, <2>4
<1> QED BY <1>1, <1>2, <1>3, MarketStep

\* A service that starts has quoted, kept and authorized nothing.
LEMMA QuoteStarts == QuoteInit => QuoteInv
BY DEF QuoteInit, QuoteInv, QuoteTypeOK, CarriesFloor, OrderHonoursQuote, SignsFloor, Quotes,
       Wish, NoRequest, NoBank

\* Every step of the service keeps the invariant.
LEMMA QuoteStep == ASSUME ServiceAssumption, QuoteInv, [QuoteNext]_quoteVars PROVE QuoteInv'
<1>1. CASE \E slip \in 0..MaxSlip : Quote(slip) \/ QuoteSell(slip)
    BY <1>1, KeepQuoted DEF Quote, QuoteSell, Sides, ServiceAssumption
<1>2. CASE \E q \in Quotes, deadline \in 0..(MaxBankSlot + DeadlineSlots) : Freeze(q, deadline)
    BY <1>2, KeepFreeze
<1>3. ASSUME NEW p \in Workers,
             \/ \E q \in Quotes : StartPrepare(p, q) \/ CallRuntime(p, q)
             \/ \E slot \in 0..MaxBankSlot, cost \in Cost :
                   PrepareDirect(p, slot, cost) \/ PrepareSell(p, slot, cost)
             \/ BuildFails(p) \/ AdmitBuy(p) \/ RefuseBuy(p) \/ StoreSell(p)
             \/ \E s \in shown : StartSubmit(p, s)
             \/ Authorize(p) \/ Revoke(p)
      PROVE  QuoteInv'
  <2>1. CASE \E q \in Quotes : StartPrepare(p, q) \/ CallRuntime(p, q)
      BY <2>1, KeepPrepare
  <2>2. CASE \E slot \in 0..MaxBankSlot, cost \in Cost :
                PrepareDirect(p, slot, cost) \/ PrepareSell(p, slot, cost)
      BY <2>2, KeepBuilt DEF PrepareDirect, PrepareSell, ServiceAssumption
  <2>3. CASE BuildFails(p) \/ RefuseBuy(p) \/ Revoke(p)
      BY <2>3, KeepEnded
  <2>4. CASE AdmitBuy(p) \/ StoreSell(p)
      BY <2>4, KeepStored
  <2>5. CASE \E s \in shown : StartSubmit(p, s)
      BY <2>5, KeepSubmit
  <2>6. CASE Authorize(p)
      BY <2>6, KeepAuthorize
  <2> QED BY <1>3, <2>1, <2>2, <2>3, <2>4, <2>5, <2>6
<1>4. CASE \E q \in Quotes : Age(q)
    BY <1>4, KeepAge
<1>5. CASE (\E worth \in 0..MaxWorth : Publish(worth)) \/ Invalidate \/ QuoteTick
    BY <1>5, KeepMarket DEF ServiceAssumption
<1>6. CASE UNCHANGED quoteVars
  <2>1. UNCHANGED <<clock, bank, issued, prepared, serial, work, shown, frozen, orders>>
      BY <1>6 DEF quoteVars
  <2> QED BY <2>1, MarketStep DEF QuoteInv, QuoteTypeOK
<1> QED BY <1>1, <1>2, <1>3, <1>4, <1>5, <1>6 DEF QuoteNext

\* What authorize_submission and submit_sell accept honours the quote, and what
\* executors bid on has the terms of every candidate that is kept.
LEMMA QuoteInvHonours == QuoteInv => QuoteIsHonoured
<1> SUFFICES ASSUME QuoteInv PROVE FrozenTermsKept
    BY DEF QuoteInv, QuoteIsHonoured
<1> QED BY DEF QuoteInv, SignsFloor, FrozenTermsKept

\* However many requests run beside the refresh thread, the types of the
\* service's state and the terms that candidates carry are kept.
THEOREM QuoteInvariant == ASSUME ServiceAssumption PROVE QuoteSpec => []QuoteInv
<1>1. QuoteInit => QuoteInv BY QuoteStarts
<1>2. QuoteInv /\ [QuoteNext]_quoteVars => QuoteInv' BY QuoteStep
<1> QED BY <1>1, <1>2, PTL DEF QuoteSpec

\* An authorized order is the wire its wallet was given, on the state it was
\* built on, with at least the quote's floor; what is frozen for executors and
\* what the service prepares have the same terms.
THEOREM QuotesHonoured == ASSUME ServiceAssumption PROVE QuoteSpec => []QuoteIsHonoured
BY QuoteInvariant, QuoteInvHonours, PTL

-----------------------------------------------------------------------------
(* The budget of a reader and the quota file of its host.                 *)

\* The permits of a run, by number.
PermitTable == UNION {[numbers -> Permit] : numbers \in SUBSET (1..MaxInFlight)}

RunState == [up : BOOLEAN, starts : Nat, requests : Nat, inFlight : Nat, reserved : Nat,
             responses : Nat, window : Nat, recent : Nat, cooldown : Nat,
             pending : {0} \cup Bodies, usage : Record, permits : PermitTable]

BudgetTypeOK ==
    /\ tick \in Nat /\ unix \in Nat
    /\ file \in Record \cup {NoFile, Corrupt}
    /\ holder \in Process \cup {NoProcess}
    /\ run \in [Process -> RunState]
    /\ calls \in Nat /\ traffic \in Nat

\* A run's counters are its permits', and a call that is being reserved has
\* room for its permit and for its longest answer.
AccountsOf(r) ==
    /\ r.inFlight = Cardinality(DOMAIN r.permits)
    /\ r.reserved = r.inFlight * (MaxResponse + 1)
    /\ r.responses + r.reserved <= MaxTotal
    /\ r.pending # 0 => /\ r.inFlight < MaxInFlight
                        /\ r.responses + r.reserved + MaxResponse + 1 <= MaxTotal

\* The process that holds the file's lock is the one that reserves a call, and
\* what it writes is the file it has read and this call.
LockedUsage ==
    \A p \in Process :
        /\ run[p].pending # 0 <=> holder = p
        /\ run[p].pending # 0 =>
             /\ Readable
             /\ run[p].usage.requests = file.requests + 1
             /\ run[p].usage.bytes = file.bytes + Reservation(run[p].pending)

BudgetInv ==
    /\ BudgetTypeOK
    /\ \A p \in Process : AccountsOf(run[p])
    /\ LockedUsage
    /\ IsFiniteSet(Unanswered)
    /\ file = NoFile => calls = 0 /\ traffic = 0 /\ Unanswered = {}
    /\ SentWithinQuota

-----------------------------------------------------------------------------
\* The permits of a run are finitely many, numbered up to MaxInFlight.
LEMMA PermitsOf ==
    ASSUME BudgetAssumption, NEW r \in RunState
    PROVE  /\ r.permits \in [DOMAIN r.permits -> Permit]
           /\ DOMAIN r.permits \subseteq 1..MaxInFlight
           /\ IsFiniteSet(DOMAIN r.permits)
           /\ Cardinality(DOMAIN r.permits) \in Nat
<1>1. PICK numbers \in SUBSET (1..MaxInFlight) : r.permits \in [numbers -> Permit]
    BY DEF RunState, PermitTable
<1>2. DOMAIN r.permits = numbers
    BY <1>1
<1>3. IsFiniteSet(1..MaxInFlight)
    BY FS_Interval DEF BudgetAssumption
<1>4. IsFiniteSet(DOMAIN r.permits)
    BY <1>2, <1>3, FS_Subset
<1> QED BY <1>1, <1>2, <1>4, FS_CardinalityType

\* A number is free while fewer calls are out than may be.
LEMMA FreeNumber ==
    ASSUME BudgetAssumption, BudgetTypeOK, NEW p \in Process,
           Cardinality(LivePermits(p)) < MaxInFlight
    PROVE  FreePermit(p) \in 1..MaxInFlight /\ FreePermit(p) \notin LivePermits(p)
<1>1. LivePermits(p) \subseteq 1..MaxInFlight /\ Cardinality(1..MaxInFlight) = MaxInFlight
  <2>1. run[p] \in RunState /\ MaxInFlight \in Nat
      BY DEF BudgetTypeOK, BudgetAssumption
  <2>2. Cardinality(1..MaxInFlight) = MaxInFlight
      BY <2>1, FS_Interval
  <2> QED BY <2>1, <2>2, PermitsOf DEF LivePermits
<1>2. \E i \in 1..MaxInFlight : i \notin LivePermits(p)
  <2>1. LivePermits(p) # 1..MaxInFlight
      BY <1>1 DEF BudgetAssumption
  <2> QED BY <1>1, <2>1
<1> QED BY <1>2 DEF FreePermit

\* A run that is down has no permit and owes nothing.
LEMMA DownIsIdle ==
    ASSUME BudgetAssumption
    PROVE  /\ Down \in RunState
           /\ DOMAIN Down.permits = {}
           /\ \A count \in Nat, window \in Nat :
                LET r == [Down EXCEPT !.up = TRUE, !.starts = count, !.window = window]
                IN  r \in RunState /\ AccountsOf(r) /\ r.pending = 0 /\ DOMAIN r.permits = {}
           /\ \A count \in Nat :
                LET r == [Down EXCEPT !.starts = count]
                IN  r \in RunState /\ AccountsOf(r) /\ r.pending = 0 /\ DOMAIN r.permits = {}
<1>1. <<>> \in [{} -> Permit] /\ {} \in SUBSET (1..MaxInFlight)
    OBVIOUS
<1>2. <<>> \in PermitTable
    BY <1>1 DEF PermitTable
<1>3. NoUsage \in Record
    BY DEF NoUsage, Record, BudgetAssumption
<1>4. Down \in RunState
    BY <1>2, <1>3 DEF Down, RunState
<1>5. Down.permits = <<>> /\ Down.inFlight = 0 /\ Down.reserved = 0 /\ Down.responses = 0 /\ Down.pending = 0
    BY DEF Down
<1>6. Cardinality({}) = 0 /\ DOMAIN <<>> = {}
    BY FS_EmptySet
<1> HIDE DEF Down
<1>7. \A count \in Nat, window \in Nat :
        LET r == [Down EXCEPT !.up = TRUE, !.starts = count, !.window = window]
        IN  r \in RunState /\ AccountsOf(r) /\ r.pending = 0 /\ DOMAIN r.permits = {}
  <2> TAKE count \in Nat, window \in Nat
  <2> DEFINE r == [Down EXCEPT !.up = TRUE, !.starts = count, !.window = window]
  <2>1. /\ r \in RunState /\ r.permits = Down.permits /\ r.inFlight = Down.inFlight
        /\ r.reserved = Down.reserved /\ r.responses = Down.responses /\ r.pending = Down.pending
      BY <1>4 DEF RunState
  <2> HIDE DEF r
  <2>2. AccountsOf(r)
      BY <1>5, <1>6, <2>1 DEF AccountsOf, BudgetAssumption
  <2> QED BY <1>5, <1>6, <2>1, <2>2 DEF r
<1>8. \A count \in Nat :
        LET r == [Down EXCEPT !.starts = count]
        IN  r \in RunState /\ AccountsOf(r) /\ r.pending = 0 /\ DOMAIN r.permits = {}
  <2> TAKE count \in Nat
  <2> DEFINE r == [Down EXCEPT !.starts = count]
  <2>1. /\ r \in RunState /\ r.permits = Down.permits /\ r.inFlight = Down.inFlight
        /\ r.reserved = Down.reserved /\ r.responses = Down.responses /\ r.pending = Down.pending
      BY <1>4 DEF RunState
  <2> HIDE DEF r
  <2>2. AccountsOf(r)
      BY <1>5, <1>6, <2>1 DEF AccountsOf, BudgetAssumption
  <2> QED BY <1>5, <1>6, <2>1, <2>2 DEF r
<1> QED BY <1>4, <1>5, <1>6, <1>7, <1>8

\* The rate window changes neither the accounts nor the permits.
LEMMA WindowKeepsAccounts ==
    ASSUME NEW r \in RunState, tick \in Nat
    PROVE  /\ Windowed(r) \in RunState
           /\ Windowed(r).permits = r.permits /\ Windowed(r).inFlight = r.inFlight
           /\ Windowed(r).reserved = r.reserved /\ Windowed(r).responses = r.responses
           /\ Windowed(r).pending = r.pending
BY DEF Windowed, RunState

-----------------------------------------------------------------------------
\* A step that changes one run changes the accounts of no other.
LEMMA OneRun ==
    ASSUME BudgetInv, NEW p \in Process, NEW r \in RunState, AccountsOf(r),
           run' = [run EXCEPT ![p] = r]
    PROVE  /\ run' \in [Process -> RunState]
           /\ \A q \in Process : AccountsOf(run'[q])
           /\ run'[p] = r /\ \A q \in Process : q # p => run'[q] = run[q]
BY DEF BudgetInv, BudgetTypeOK

\* While no call is sent and none of the calls out is forgotten, what is
\* covered stays covered.
LEMMA CoverKept ==
    ASSUME BudgetAssumption, BudgetInv, Unanswered' \subseteq Unanswered,
           calls' = calls, traffic' = traffic,
           Readable' => /\ Readable /\ file' \in Record
                        /\ file'.requests >= file.requests /\ file'.bytes >= file.bytes
    PROVE  IsFiniteSet(Unanswered') /\ SentWithinQuota'
<1>1. /\ IsFiniteSet(Unanswered') /\ Cardinality(Unanswered') \in Nat
      /\ Cardinality(Unanswered) \in Nat /\ Cardinality(Unanswered') <= Cardinality(Unanswered)
    BY FS_Subset, FS_CardinalityType DEF BudgetInv
<1>2. Outstanding \in Nat /\ Outstanding' \in Nat /\ Outstanding' <= Outstanding
  <2> DEFINE n == Cardinality(Unanswered)
             m == Cardinality(Unanswered')
  <2>1. /\ n \in Nat /\ m \in Nat /\ m <= n
        /\ Outstanding = n * (MaxResponse + 1) /\ Outstanding' = m * (MaxResponse + 1)
      BY <1>1 DEF Outstanding
  <2> HIDE DEF n, m
  <2> QED BY <2>1 DEF BudgetAssumption
<1>3. calls \in Nat /\ traffic \in Nat /\ QuotaBytes \in Nat /\ QuotaRequests \in Nat
    BY DEF BudgetInv, BudgetTypeOK, BudgetAssumption
<1>4. calls' <= QuotaRequests /\ traffic' + Outstanding' <= QuotaBytes
  <2>1. calls <= QuotaRequests /\ traffic + Outstanding <= QuotaBytes
      BY DEF BudgetInv, SentWithinQuota
  <2>2. calls' <= QuotaRequests
      BY <2>1
  <2>3. traffic' + Outstanding' <= QuotaBytes
    <3> DEFINE a == Outstanding
               b == Outstanding'
    <3>1. a \in Nat /\ b \in Nat /\ b <= a /\ traffic + a <= QuotaBytes
        BY <1>2, <2>1
    <3> HIDE DEF a, b
    <3>2. traffic + b <= QuotaBytes
        BY <1>3, <3>1
    <3> QED BY <3>2 DEF b
  <2> QED BY <2>2, <2>3
<1>5. ASSUME Readable'
      PROVE  calls' <= file'.requests /\ traffic' + Outstanding' <= file'.bytes
  <2>1. /\ Readable /\ file' \in Record /\ file \in Record
        /\ file'.requests >= file.requests /\ file'.bytes >= file.bytes
      BY <1>5 DEF BudgetInv, BudgetTypeOK, Readable
  <2>2. /\ file.requests \in Nat /\ file.bytes \in Nat
        /\ file'.requests \in Nat /\ file'.bytes \in Nat
      BY <2>1 DEF Record
  <2>3. calls <= file.requests /\ traffic + Outstanding <= file.bytes
      BY <2>1 DEF BudgetInv, SentWithinQuota
  <2> QED BY <1>2, <1>3, <2>1, <2>2, <2>3
<1> QED BY <1>1, <1>4, <1>5 DEF SentWithinQuota

\* A run whose permits stay, or that has none any more, adds no call to those
\* without an answer.
LEMMA NothingSent ==
    ASSUME BudgetInv, NEW p \in Process, NEW r, run' = [run EXCEPT ![p] = r],
           r.permits = run[p].permits \/ DOMAIN r.permits = {}
    PROVE  Unanswered' \subseteq Unanswered
BY DEF BudgetInv, BudgetTypeOK, Unanswered, LivePermits

\* A step of the clocks only.
LEMMA KeepBudgetTick ==
    ASSUME BudgetAssumption, BudgetInv, UNCHANGED <<file, holder, run, calls, traffic>>,
           tick' \in Nat, unix' \in Nat
    PROVE  BudgetInv'
BY DEF BudgetInv, BudgetTypeOK, LockedUsage, Readable, SentWithinQuota, Outstanding, Unanswered,
       LivePermits

\* initialize: nothing was sent while there was no file.
LEMMA KeepInitializeQuota ==
    ASSUME BudgetAssumption, BudgetInv, InitializeQuota
    PROVE  BudgetInv'
<1>1. /\ file = NoFile /\ UNCHANGED <<tick, unix, holder, run, calls, traffic>>
      /\ file' \in {[requests |-> 0, bytes |-> 0, last |-> unix], Corrupt}
      /\ unix < PeriodEnd
    BY DEF InitializeQuota, Creatable, InPeriod
<1>2. [requests |-> 0, bytes |-> 0, last |-> unix] \in Record
    BY <1>1 DEF Record, BudgetAssumption, BudgetInv, BudgetTypeOK
<1>3. file' \in Record \cup {Corrupt} /\ file' # NoFile
    BY <1>1, <1>2 DEF BudgetAssumption
<1>4. \A p \in Process : run[p].pending = 0
    BY <1>1 DEF BudgetInv, LockedUsage, Readable
<1>5. Unanswered' = Unanswered /\ Unanswered = {} /\ calls' = 0 /\ traffic' = 0
    BY <1>1 DEF Unanswered, LivePermits, BudgetInv
<1>6. Outstanding' = 0
    BY <1>5, FS_EmptySet DEF Outstanding, BudgetAssumption
<1>7. SentWithinQuota'
  <2>1. file' # Corrupt => file'.requests = 0 /\ file'.bytes = 0
      BY <1>1
  <2> QED BY <1>5, <1>6, <2>1 DEF SentWithinQuota, Readable, BudgetAssumption
<1>8. LockedUsage'
    BY <1>1, <1>4 DEF LockedUsage, BudgetInv
<1> QED BY <1>1, <1>3, <1>5, <1>7, <1>8, FS_EmptySet DEF BudgetInv, BudgetTypeOK

\* Budget::new, a refused reservation and a process that stops: the file is the
\* one it was, one that covers a call more, or unreadable, and no call is sent.
LEMMA KeepUnsent ==
    ASSUME BudgetAssumption, BudgetInv, NEW p \in Process, NEW r \in RunState, AccountsOf(r),
           run' = [run EXCEPT ![p] = r], UNCHANGED <<tick, unix, calls, traffic>>,
           r.pending = 0, r.permits = run[p].permits \/ DOMAIN r.permits = {},
           file' \in (IF run[p].pending = 0 THEN {file} ELSE Torn(p)),
           holder' = IF holder = p THEN NoProcess ELSE holder
    PROVE  BudgetInv'
<1>1. /\ run' \in [Process -> RunState] /\ \A q \in Process : AccountsOf(run'[q])
      /\ run'[p] = r /\ \A q \in Process : q # p => run'[q] = run[q]
    BY OneRun
<1>2. run[p].pending # 0 => /\ holder = p /\ Readable /\ run[p].usage \in Record /\ file \in Record
                            /\ run[p].usage.requests >= file.requests
                            /\ run[p].usage.bytes >= file.bytes
  <2> SUFFICES ASSUME run[p].pending # 0
               PROVE  /\ holder = p /\ Readable /\ run[p].usage \in Record /\ file \in Record
                      /\ run[p].usage.requests >= file.requests
                      /\ run[p].usage.bytes >= file.bytes
      OBVIOUS
  <2>1. /\ holder = p /\ Readable
        /\ run[p].usage.requests = file.requests + 1
        /\ run[p].usage.bytes = file.bytes + Reservation(run[p].pending)
      BY DEF BudgetInv, LockedUsage
  <2>2. run[p].usage \in Record /\ run[p].pending \in Nat /\ MaxResponse \in Nat
      BY DEF BudgetInv, BudgetTypeOK, RunState, BudgetAssumption
  <2>3. file \in Record
      BY <2>1 DEF BudgetInv, BudgetTypeOK, Readable
  <2>4. file.requests \in Nat /\ file.bytes \in Nat
      BY <2>3 DEF Record
  <2> QED BY <2>1, <2>2, <2>3, <2>4 DEF Reservation
<1>3. /\ file' \in Record \cup {NoFile, Corrupt}
      /\ file' = NoFile => file = NoFile
      /\ Readable' => /\ Readable /\ file' \in Record
                      /\ file'.requests >= file.requests /\ file'.bytes >= file.bytes
  <2>1. CASE run[p].pending = 0
      BY <2>1 DEF BudgetInv, BudgetTypeOK, Readable, Record
  <2>2. CASE run[p].pending # 0
    <3>1. file' \in {file, run[p].usage, Corrupt}
        BY <2>2 DEF Torn
    <3>2. file.requests \in Nat /\ file.bytes \in Nat
        BY <1>2, <2>2 DEF Record
    <3> QED BY <1>2, <2>2, <3>1, <3>2 DEF Readable, BudgetAssumption
  <2> QED BY <2>1, <2>2
<1>4. Unanswered' \subseteq Unanswered
    BY NothingSent
<1>5. IsFiniteSet(Unanswered') /\ SentWithinQuota'
    BY <1>3, <1>4, CoverKept
<1>6. LockedUsage'
  <2> SUFFICES ASSUME NEW q \in Process
               PROVE  /\ run'[q].pending # 0 <=> holder' = q
                      /\ run'[q].pending # 0 =>
                           /\ Readable'
                           /\ run'[q].usage.requests = file'.requests + 1
                           /\ run'[q].usage.bytes = file'.bytes + Reservation(run'[q].pending)
      BY DEF LockedUsage
  <2>1. CASE q = p
      BY <1>1, <2>1 DEF BudgetInv, LockedUsage, BudgetAssumption
  <2>2. CASE q # p
    <3>1. run'[q] = run[q]
        BY <1>1, <2>2
    <3>2. run[q].pending # 0 => holder = q /\ run[p].pending = 0 /\ file' = file
        BY <2>2 DEF BudgetInv, LockedUsage
    <3> QED BY <2>2, <3>1, <3>2 DEF BudgetInv, LockedUsage, Readable, BudgetAssumption
  <2> QED BY <2>1, <2>2
<1>7. holder' \in Process \cup {NoProcess}
    BY DEF BudgetInv, BudgetTypeOK
<1> QED BY <1>1, <1>3, <1>4, <1>5, <1>6, <1>7 DEF BudgetInv, BudgetTypeOK

-----------------------------------------------------------------------------
\* admit: the reservation that is being written covers the call, and the run
\* has room for it.
LEMMA KeepAdmitCall ==
    ASSUME BudgetAssumption, BudgetInv, NEW p \in Process, NEW body \in Bodies, AdmitCall(p, body)
    PROVE  BudgetInv'
<1> DEFINE w == Windowed(run[p])
           r == [w EXCEPT !.pending = body, !.usage = UsageAfter(body)]
<1>1. /\ w.pending = 0 /\ WithinRun(w) /\ w.inFlight < MaxInFlight
      /\ holder = NoProcess /\ Readable /\ InPeriod(file.last)
      /\ file.requests + 1 <= QuotaRequests /\ file.bytes + Reservation(body) <= QuotaBytes
      /\ holder' = p /\ run' = [run EXCEPT ![p] = r]
      /\ UNCHANGED <<tick, unix, file, calls, traffic>>
    BY DEF AdmitCall, Reservable
<1>2. run[p] \in RunState /\ AccountsOf(run[p]) /\ tick \in Nat
    BY DEF BudgetInv, BudgetTypeOK
<1>3. /\ w \in RunState /\ w.permits = run[p].permits /\ w.inFlight = run[p].inFlight
      /\ w.reserved = run[p].reserved /\ w.responses = run[p].responses
    BY <1>2, WindowKeepsAccounts
<1>4. file \in Record /\ body \in Nat /\ body # 0
    BY <1>1 DEF Readable, BudgetInv, BudgetTypeOK, BudgetAssumption
<1>5. /\ UsageAfter(body) \in Record
      /\ UsageAfter(body).requests = file.requests + 1
      /\ UsageAfter(body).bytes = file.bytes + Reservation(body)
  <2>1. file.requests \in Nat /\ file.bytes \in Nat /\ Reservation(body) \in Nat
      BY <1>4 DEF Record, Reservation, BudgetAssumption
  <2>2. unix \in 0..(PeriodEnd - 1)
      BY <1>1 DEF InPeriod, BudgetInv, BudgetTypeOK, BudgetAssumption
  <2>3. file.requests + 1 \in 0..QuotaRequests /\ file.bytes + Reservation(body) \in 0..QuotaBytes
      BY <1>1, <2>1 DEF BudgetAssumption
  <2> QED BY <1>4, <2>2, <2>3 DEF UsageAfter, Record
<1> HIDE DEF w
<1>6. /\ r \in RunState /\ r.permits = w.permits /\ r.inFlight = w.inFlight
      /\ r.reserved = w.reserved /\ r.responses = w.responses
      /\ r.pending = body /\ r.usage = UsageAfter(body)
    BY <1>3, <1>5 DEF RunState
<1> HIDE DEF r
<1>7. AccountsOf(r)
    BY <1>1, <1>2, <1>3, <1>6 DEF AccountsOf, WithinRun
<1>8. /\ run' \in [Process -> RunState] /\ \A q \in Process : AccountsOf(run'[q])
      /\ run'[p] = r /\ \A q \in Process : q # p => run'[q] = run[q]
    BY <1>1, <1>6, <1>7, OneRun
<1>9. Unanswered' = Unanswered
    BY <1>1, <1>3, <1>6 DEF BudgetInv, BudgetTypeOK, Unanswered, LivePermits
<1>10. LockedUsage'
    BY <1>1, <1>4, <1>5, <1>6, <1>8 DEF BudgetInv, LockedUsage, Readable, BudgetAssumption
<1>11. SentWithinQuota'
    BY <1>1, <1>9 DEF BudgetInv, SentWithinQuota, Readable, Outstanding
<1> QED BY <1>1, <1>8, <1>9, <1>10, <1>11 DEF BudgetInv, BudgetTypeOK

\* The reservation is durable and the call is sent: what it may cost was added
\* to the file before.
LEMMA KeepReserved ==
    ASSUME BudgetAssumption, BudgetInv, NEW p \in Process, Reserved(p)
    PROVE  BudgetInv'
<1> DEFINE o == run[p]
           i == FreePermit(p)
           r == Granted(o, i)
           c == <<p, i>>
<1>1. /\ o.pending # 0 /\ file' = o.usage /\ holder' = NoProcess
      /\ run' = [run EXCEPT ![p] = r]
      /\ calls' = calls + 1 /\ traffic' = traffic + o.pending /\ UNCHANGED <<tick, unix>>
    BY DEF Reserved
<1>2. o \in RunState /\ AccountsOf(o)
    BY DEF BudgetInv, BudgetTypeOK
<1>3. /\ holder = p /\ Readable /\ file \in Record
      /\ o.usage \in Record /\ o.usage.requests = file.requests + 1
      /\ o.usage.bytes = file.bytes + Reservation(o.pending)
    BY <1>1, <1>2 DEF BudgetInv, BudgetTypeOK, LockedUsage, Readable, RunState
<1>4. o.pending \in Bodies /\ o.pending \in Nat
    BY <1>1, <1>2 DEF RunState, BudgetAssumption
<1>5. i \in 1..MaxInFlight /\ i \notin DOMAIN o.permits
    BY <1>1, <1>2, FreeNumber DEF BudgetInv, AccountsOf, LivePermits
<1>6. /\ o.permits \in [DOMAIN o.permits -> Permit] /\ DOMAIN o.permits \subseteq 1..MaxInFlight
      /\ IsFiniteSet(DOMAIN o.permits) /\ Cardinality(DOMAIN o.permits) \in Nat
    BY <1>2, PermitsOf
<1> DEFINE fresh == [body |-> o.pending, answered |-> FALSE, bytes |-> 0]
           table == [j \in DOMAIN o.permits \cup {i} |-> IF j = i THEN fresh ELSE o.permits[j]]
<1>7. fresh \in Permit
    BY <1>4 DEF Permit, BudgetAssumption
<1>8. table \in PermitTable
  <2> HIDE DEF fresh
  <2>1. table \in [DOMAIN o.permits \cup {i} -> Permit]
      BY <1>6, <1>7
  <2>2. DOMAIN o.permits \cup {i} \in SUBSET (1..MaxInFlight)
      BY <1>5, <1>6
  <2> HIDE DEF table
  <2> QED BY <2>1, <2>2 DEF PermitTable
<1>9. NoUsage \in Record /\ MaxResponse \in Nat
    BY DEF NoUsage, Record, BudgetAssumption
<1>10. /\ r \in RunState /\ r.inFlight = o.inFlight + 1 /\ r.reserved = o.reserved + (MaxResponse + 1)
       /\ r.responses = o.responses /\ r.pending = 0 /\ r.permits = table
  <2>1. r = [o EXCEPT !.requests = o.requests + 1, !.inFlight = o.inFlight + 1,
                      !.recent = o.recent + 1, !.reserved = o.reserved + MaxResponse + 1,
                      !.pending = 0, !.usage = NoUsage, !.permits = table]
      BY DEF Granted
  <2> HIDE DEF r, o, table
  <2>2. /\ o.requests + 1 \in Nat /\ o.inFlight + 1 \in Nat /\ o.recent + 1 \in Nat
        /\ o.reserved + MaxResponse + 1 \in Nat
        /\ o.reserved + MaxResponse + 1 = o.reserved + (MaxResponse + 1)
      BY <1>2, <1>9 DEF RunState
  <2>3. r \in RunState
      BY <1>2, <1>8, <1>9, <2>1, <2>2 DEF RunState
  <2>4. /\ r.inFlight = o.inFlight + 1 /\ r.reserved = o.reserved + MaxResponse + 1
        /\ r.responses = o.responses /\ r.pending = 0 /\ r.permits = table
      BY <1>2, <2>1 DEF RunState
  <2> QED BY <2>2, <2>3, <2>4
<1>11. AccountsOf(r)
  <2>1. DOMAIN table = DOMAIN o.permits \cup {i}
      OBVIOUS
  <2>2. Cardinality(DOMAIN table) = Cardinality(DOMAIN o.permits) + 1
      BY <1>5, <1>6, <2>1, FS_AddElement
  <2>3. /\ o.inFlight \in Nat /\ o.responses \in Nat /\ o.reserved = o.inFlight * (MaxResponse + 1)
        /\ o.inFlight = Cardinality(DOMAIN o.permits)
        /\ o.responses + o.reserved + MaxResponse + 1 <= MaxTotal
      BY <1>1, <1>2 DEF AccountsOf, RunState
  <2>4. (o.inFlight + 1) * (MaxResponse + 1) = o.inFlight * (MaxResponse + 1) + (MaxResponse + 1)
      BY <1>9, <2>3
  <2>5. o.reserved \in Nat
      BY <1>2 DEF RunState
  <2> HIDE DEF r, table, o
  <2> QED BY <1>9, <1>10, <2>2, <2>3, <2>4, <2>5 DEF AccountsOf, BudgetAssumption
<1>12. /\ run' \in [Process -> RunState] /\ \A q \in Process : AccountsOf(run'[q])
       /\ run'[p] = r /\ \A q \in Process : q # p => run'[q] = run[q]
    BY <1>1, <1>10, <1>11, OneRun
<1>13. /\ Unanswered' = Unanswered \cup {c} /\ c \notin Unanswered
  <2>1. c \notin Unanswered
      BY <1>5 DEF Unanswered, LivePermits
  <2>2. LivePermits(p)' = LivePermits(p) \cup {i} /\ run'[p].permits[i].answered = FALSE
      BY <1>10, <1>12 DEF LivePermits
  <2>3. \A j \in LivePermits(p) : run'[p].permits[j] = run[p].permits[j]
      BY <1>5, <1>10, <1>12 DEF LivePermits
  <2>4. \A q \in Process : q # p => LivePermits(q)' = LivePermits(q) /\ run'[q] = run[q]
      BY <1>12 DEF LivePermits
  <2> HIDE DEF r, i
  <2>5. \A q \in Process, j \in 1..MaxInFlight :
          <<q, j>> \in Unanswered' <=> <<q, j>> \in Unanswered \/ <<q, j>> = c
      BY <1>5, <2>2, <2>3, <2>4 DEF Unanswered
  <2>6. Unanswered \subseteq Process \X (1..MaxInFlight) /\ Unanswered' \subseteq Process \X (1..MaxInFlight)
      BY DEF Unanswered
  <2>7. c \in Process \X (1..MaxInFlight)
      BY <1>5
  <2> QED BY <2>1, <2>5, <2>6, <2>7
<1>14. /\ IsFiniteSet(Unanswered') /\ Cardinality(Unanswered) \in Nat
       /\ Cardinality(Unanswered') = Cardinality(Unanswered) + 1
    BY <1>13, FS_AddElement, FS_CardinalityType DEF BudgetInv
<1>15. Outstanding \in Nat /\ Outstanding' = Outstanding + (MaxResponse + 1)
  <2> DEFINE n == Cardinality(Unanswered)
  <2>1. n \in Nat /\ Outstanding = n * (MaxResponse + 1) /\ Outstanding' = (n + 1) * (MaxResponse + 1)
      BY <1>14 DEF Outstanding
  <2> HIDE DEF n
  <2> QED BY <1>9, <2>1
<1>16. SentWithinQuota'
  <2>1. calls \in Nat /\ traffic \in Nat /\ calls <= file.requests /\ traffic + Outstanding <= file.bytes
      BY <1>3 DEF BudgetInv, BudgetTypeOK, SentWithinQuota
  <2>2. file.requests \in Nat /\ file.bytes \in Nat
      BY <1>3 DEF Record
  <2>3. /\ file'.requests = file.requests + 1
        /\ file'.bytes = file.bytes + (MaxResponse + 1) + o.pending
        /\ file'.requests <= QuotaRequests /\ file'.bytes <= QuotaBytes
    <3>1. file' \in Record
        BY <1>1, <1>3
    <3>2. file'.requests <= QuotaRequests /\ file'.bytes <= QuotaBytes
        BY <3>1 DEF Record
    <3> QED BY <1>1, <1>3, <1>4, <1>9, <2>2, <3>2 DEF Reservation
  <2>4. calls' <= file'.requests
      BY <1>1, <2>1, <2>2, <2>3
  <2>5. traffic' + Outstanding' <= file'.bytes
      BY <1>1, <1>4, <1>9, <1>15, <2>1, <2>2, <2>3
  <2>6. calls' <= QuotaRequests
      BY <1>1, <2>1, <2>2, <2>3 DEF BudgetAssumption
  <2>7. traffic' + Outstanding' <= QuotaBytes
      BY <1>1, <1>4, <1>9, <1>15, <2>1, <2>2, <2>3 DEF BudgetAssumption
  <2> QED BY <2>4, <2>5, <2>6, <2>7 DEF SentWithinQuota
<1>17. LockedUsage'
    BY <1>1, <1>3, <1>10, <1>12 DEF BudgetInv, LockedUsage, BudgetAssumption
<1>18. /\ file' \in Record \cup {NoFile, Corrupt} /\ file' # NoFile
       /\ calls' \in Nat /\ traffic' \in Nat
    BY <1>1, <1>3, <1>4 DEF BudgetInv, BudgetTypeOK, BudgetAssumption
<1> QED BY <1>1, <1>12, <1>14, <1>16, <1>17, <1>18 DEF BudgetInv, BudgetTypeOK

\* A call is answered, or fails: what it was covered for is at least what came.
LEMMA KeepAnswered ==
    ASSUME BudgetAssumption, BudgetInv, NEW p \in Process, NEW i \in LivePermits(p),
           ~run[p].permits[i].answered, run[p].pending = 0,
           NEW x \in Permit, x.answered, NEW cooldown \in Nat, NEW bytes \in 0..(MaxResponse + 1),
           run' = [run EXCEPT ![p] = [run[p] EXCEPT !.permits = [run[p].permits EXCEPT ![i] = x],
                                                    !.cooldown = cooldown]],
           traffic' = traffic + bytes, UNCHANGED <<tick, unix, file, holder, calls>>
    PROVE  BudgetInv'
<1> DEFINE o == run[p]
           table == [o.permits EXCEPT ![i] = x]
           r == [o EXCEPT !.permits = table, !.cooldown = cooldown]
           c == <<p, i>>
<1>1. o \in RunState /\ AccountsOf(o) /\ MaxResponse \in Nat /\ bytes \in Nat /\ bytes <= MaxResponse + 1
    BY DEF BudgetInv, BudgetTypeOK, BudgetAssumption
<1>2. /\ o.permits \in [DOMAIN o.permits -> Permit] /\ DOMAIN o.permits \subseteq 1..MaxInFlight
      /\ i \in DOMAIN o.permits
    BY <1>1, PermitsOf DEF LivePermits
<1>3. /\ table \in PermitTable /\ DOMAIN table = DOMAIN o.permits
      /\ table[i] = x /\ \A j \in DOMAIN o.permits : j # i => table[j] = o.permits[j]
  <2>1. table \in [DOMAIN o.permits -> Permit]
      BY <1>2
  <2> QED BY <1>2, <2>1 DEF PermitTable
<1> HIDE DEF table
<1>4. /\ r \in RunState /\ r.permits = table /\ r.inFlight = o.inFlight /\ r.reserved = o.reserved
      /\ r.responses = o.responses /\ r.pending = 0
    BY <1>1, <1>3 DEF RunState
<1>5. run' = [run EXCEPT ![p] = r]
    BY DEF table
<1> HIDE DEF r
<1>6. AccountsOf(r)
    BY <1>1, <1>3, <1>4 DEF AccountsOf
<1>7. /\ run' \in [Process -> RunState] /\ \A q \in Process : AccountsOf(run'[q])
      /\ run'[p] = r /\ \A q \in Process : q # p => run'[q] = run[q]
    BY <1>4, <1>5, <1>6, OneRun
<1>8. /\ Unanswered' = Unanswered \ {c} /\ c \in Unanswered
  <2>1. c \in Unanswered
      BY <1>2 DEF Unanswered
  <2>2. \A q \in Process, j \in 1..MaxInFlight :
          <<q, j>> \in Unanswered' <=> <<q, j>> \in Unanswered /\ <<q, j>> # c
      BY <1>3, <1>4, <1>7 DEF Unanswered, LivePermits
  <2>3. Unanswered \subseteq Process \X (1..MaxInFlight) /\ Unanswered' \subseteq Process \X (1..MaxInFlight)
      BY DEF Unanswered
  <2> QED BY <2>1, <2>2, <2>3
<1>9. /\ IsFiniteSet(Unanswered') /\ Cardinality(Unanswered) \in Nat
      /\ Cardinality(Unanswered') \in Nat
      /\ Cardinality(Unanswered') = Cardinality(Unanswered) - 1
    BY <1>8, FS_RemoveElement, FS_CardinalityType DEF BudgetInv
<1>10. Outstanding \in Nat /\ Outstanding' \in Nat /\ Outstanding = Outstanding' + (MaxResponse + 1)
  <2> DEFINE n == Cardinality(Unanswered')
  <2>1. n \in Nat /\ Outstanding' = n * (MaxResponse + 1) /\ Outstanding = (n + 1) * (MaxResponse + 1)
      BY <1>9 DEF Outstanding
  <2> HIDE DEF n
  <2> QED BY <1>1, <2>1
<1>11. SentWithinQuota'
  <2> DEFINE a == Outstanding
             b == Outstanding'
  <2>1. /\ a \in Nat /\ b \in Nat /\ a = b + (MaxResponse + 1) /\ traffic \in Nat
        /\ traffic + a <= QuotaBytes /\ (Readable => traffic + a <= file.bytes)
      BY <1>10 DEF BudgetInv, BudgetTypeOK, SentWithinQuota
  <2> HIDE DEF a, b
  <2>2. Readable => file.bytes \in Nat
      BY DEF BudgetInv, BudgetTypeOK, Readable, Record
  <2>3. traffic + bytes + b <= traffic + a
      BY <1>1, <2>1
  <2>4. /\ traffic + bytes + b <= QuotaBytes
        /\ Readable => traffic + bytes + b <= file.bytes
      BY <1>1, <2>1, <2>2, <2>3 DEF BudgetAssumption
  <2>5. traffic' + b <= QuotaBytes /\ (Readable' => traffic' + b <= file'.bytes)
      BY <2>4 DEF Readable
  <2>6. calls' <= QuotaRequests /\ (Readable' => calls' <= file'.requests)
      BY DEF BudgetInv, SentWithinQuota, Readable
  <2> QED BY <2>5, <2>6 DEF SentWithinQuota, b
<1>12. LockedUsage'
    BY <1>4, <1>7 DEF BudgetInv, LockedUsage, Readable
<1>13. file # NoFile
    BY <1>8 DEF BudgetInv
<1>14. traffic' \in Nat
    BY <1>1 DEF BudgetInv, BudgetTypeOK
<1> QED BY <1>7, <1>9, <1>11, <1>12, <1>13, <1>14 DEF BudgetInv, BudgetTypeOK

\* A permit is dropped: its longest answer is given back to the run, what it
\* really read is counted, and no answer was still to come.
LEMMA KeepDrop ==
    ASSUME BudgetAssumption, BudgetInv, NEW p \in Process, NEW i \in LivePermits(p), Drop(p, i)
    PROVE  BudgetInv'
<1> DEFINE o == run[p]
           table == [j \in DOMAIN o.permits \ {i} |-> o.permits[j]]
           r == Ended(o, i)
<1>1. /\ o.pending = 0 /\ o.permits[i].answered /\ run' = [run EXCEPT ![p] = r]
      /\ UNCHANGED <<tick, unix, file, holder, calls, traffic>>
    BY DEF Drop
<1>2. o \in RunState /\ AccountsOf(o) /\ MaxResponse \in Nat
    BY DEF BudgetInv, BudgetTypeOK, BudgetAssumption
<1>3. /\ o.permits \in [DOMAIN o.permits -> Permit] /\ DOMAIN o.permits \subseteq 1..MaxInFlight
      /\ i \in DOMAIN o.permits /\ IsFiniteSet(DOMAIN o.permits)
      /\ Cardinality(DOMAIN o.permits) \in Nat
    BY <1>2, PermitsOf DEF LivePermits
<1>4. o.permits[i].bytes \in 0..(MaxResponse + 1)
    BY <1>3 DEF Permit
<1>5. table \in PermitTable
  <2>1. table \in [DOMAIN o.permits \ {i} -> Permit] /\ DOMAIN o.permits \ {i} \in SUBSET (1..MaxInFlight)
      BY <1>3
  <2> HIDE DEF table
  <2> QED BY <2>1 DEF PermitTable
<1>6. /\ DOMAIN table = DOMAIN o.permits \ {i}
      /\ Cardinality(DOMAIN table) \in Nat
      /\ Cardinality(DOMAIN o.permits) = Cardinality(DOMAIN table) + 1
  <2>1. DOMAIN table = DOMAIN o.permits \ {i}
      OBVIOUS
  <2> DEFINE d == DOMAIN o.permits
  <2>2. IsFiniteSet(d) /\ i \in d /\ Cardinality(d) \in Nat
      BY <1>3
  <2> HIDE DEF d
  <2>3. Cardinality(d \ {i}) \in Nat /\ Cardinality(d) = Cardinality(d \ {i}) + 1
    <3>1. IsFiniteSet(d \ {i}) /\ Cardinality(d \ {i}) = Cardinality(d) - 1
        BY <2>2, FS_RemoveElement
    <3>2. Cardinality(d \ {i}) \in Nat
        BY <3>1, FS_CardinalityType
    <3> QED BY <2>2, <3>1, <3>2
  <2> HIDE DEF table, o
  <2> QED BY <2>1, <2>3 DEF d
<1> DEFINE n == Cardinality(DOMAIN table)
           k == MaxResponse + 1
           got == o.permits[i].bytes
<1>7. /\ n \in Nat /\ k \in Nat /\ got \in Nat /\ got <= k
      /\ o.inFlight = n + 1 /\ o.reserved = (n + 1) * k
      /\ o.responses \in Nat /\ o.responses + o.reserved <= MaxTotal
    BY <1>2, <1>4, <1>6 DEF AccountsOf, RunState
<1>8. r = [o EXCEPT !.inFlight = o.inFlight - 1, !.reserved = o.reserved - k,
                    !.responses = o.responses + got, !.permits = table]
    BY DEF Ended
<1> HIDE DEF o, table, r, n, k, got
<1>9. /\ o.inFlight - 1 = n /\ o.reserved - k = n * k /\ n * k \in Nat /\ o.responses + got \in Nat
      /\ (o.responses + got) + n * k <= o.responses + o.reserved
    BY <1>7
<1>10. /\ r \in RunState /\ r.permits = table /\ r.inFlight = n /\ r.reserved = n * k
       /\ r.responses = o.responses + got /\ r.pending = 0
  <2>1. r \in RunState
      BY <1>2, <1>5, <1>7, <1>8, <1>9 DEF RunState
  <2> QED BY <1>1, <1>2, <1>7, <1>8, <1>9, <2>1 DEF RunState
<1>11. AccountsOf(r)
  <2>1. r.responses + r.reserved <= MaxTotal
      BY <1>7, <1>9, <1>10 DEF BudgetAssumption
  <2> QED BY <1>10, <2>1 DEF AccountsOf, n, k
<1>12. /\ run' \in [Process -> RunState] /\ \A q \in Process : AccountsOf(run'[q])
       /\ run'[p] = r /\ \A q \in Process : q # p => run'[q] = run[q]
    BY <1>1, <1>10, <1>11, OneRun
<1>13. Unanswered' \subseteq Unanswered
  <2>1. \A q \in Process, j \in 1..MaxInFlight :
          <<q, j>> \in Unanswered' => <<q, j>> \in Unanswered
      BY <1>3, <1>6, <1>10, <1>12 DEF Unanswered, LivePermits, o, table
  <2>2. Unanswered' \subseteq Process \X (1..MaxInFlight)
      BY DEF Unanswered
  <2> QED BY <2>1, <2>2
<1>14. IsFiniteSet(Unanswered') /\ SentWithinQuota'
  <2>1. Readable' => /\ Readable /\ file' \in Record
                     /\ file'.requests >= file.requests /\ file'.bytes >= file.bytes
      BY <1>1 DEF BudgetInv, BudgetTypeOK, Readable, Record
  <2> QED BY <1>1, <1>13, <2>1, CoverKept
<1>15. LockedUsage'
    BY <1>1, <1>10, <1>12 DEF BudgetInv, LockedUsage, Readable, o
<1> QED BY <1>1, <1>12, <1>13, <1>14, <1>15 DEF BudgetInv, BudgetTypeOK

\* A host on which nothing has run has no file and has sent nothing.
LEMMA BudgetStarts == ASSUME BudgetAssumption PROVE BudgetInit => BudgetInv
<1> SUFFICES ASSUME BudgetInit PROVE BudgetInv
    OBVIOUS
<1>1. /\ tick = 0 /\ unix = 0 /\ file = NoFile /\ holder = NoProcess
      /\ run = [p \in Process |-> Down] /\ calls = 0 /\ traffic = 0
    BY DEF BudgetInit
<1>2. Down \in RunState /\ DOMAIN Down.permits = {}
    BY DownIsIdle
<1>3. Down.pending = 0 /\ AccountsOf(Down)
  <2>1. Down.inFlight = 0 /\ Down.reserved = 0 /\ Down.responses = 0 /\ Down.pending = 0
      BY DEF Down
  <2> HIDE DEF Down
  <2> QED BY <1>2, <2>1, FS_EmptySet DEF AccountsOf, BudgetAssumption
<1> HIDE DEF Down
<1>4. Unanswered = {}
    BY <1>1, <1>2 DEF Unanswered, LivePermits
<1>5. Outstanding = 0 /\ IsFiniteSet(Unanswered)
    BY <1>4, FS_EmptySet DEF Outstanding, BudgetAssumption
<1>6. SentWithinQuota
    BY <1>1, <1>5 DEF SentWithinQuota, Readable, BudgetAssumption
<1>7. BudgetTypeOK
    BY <1>1, <1>2 DEF BudgetTypeOK
<1>8. LockedUsage /\ \A p \in Process : AccountsOf(run[p])
    BY <1>1, <1>3 DEF LockedUsage, BudgetAssumption
<1> QED BY <1>1, <1>4, <1>5, <1>6, <1>7, <1>8 DEF BudgetInv

\* Every step of the host keeps the invariant.
LEMMA BudgetStep ==
    ASSUME BudgetAssumption, BudgetInv, [BudgetNext]_budgetVars PROVE BudgetInv'
<1>1. CASE InitializeQuota
    BY <1>1, KeepInitializeQuota
<1>2. ASSUME NEW p \in Process, Start(p) PROVE BudgetInv'
  <2> DEFINE r == [Down EXCEPT !.up = TRUE, !.starts = run[p].starts + 1, !.window = tick]
  <2>1. /\ holder = NoProcess /\ run' = [run EXCEPT ![p] = r]
        /\ UNCHANGED <<tick, unix, file, holder, calls, traffic>>
      BY <1>2 DEF Start
  <2>2. run[p].starts + 1 \in Nat /\ tick \in Nat
      BY DEF BudgetInv, BudgetTypeOK, RunState
  <2>3. r \in RunState /\ AccountsOf(r) /\ r.pending = 0 /\ DOMAIN r.permits = {}
      BY <2>2, DownIsIdle
  <2>4. run[p].pending = 0
      BY <2>1 DEF BudgetInv, LockedUsage, BudgetAssumption
  <2> HIDE DEF r
  <2>5. /\ file' \in (IF run[p].pending = 0 THEN {file} ELSE Torn(p))
        /\ holder' = IF holder = p THEN NoProcess ELSE holder
      BY <2>1, <2>4
  <2> QED BY <2>1, <2>3, <2>5, KeepUnsent
<1>3. ASSUME NEW p \in Process, Stop(p) PROVE BudgetInv'
  <2> DEFINE r == [Down EXCEPT !.starts = run[p].starts]
  <2>1. /\ run' = [run EXCEPT ![p] = r] /\ UNCHANGED <<tick, unix, calls, traffic>>
        /\ file' \in (IF run[p].pending = 0 THEN {file} ELSE Torn(p))
        /\ holder' = IF holder = p THEN NoProcess ELSE holder
      BY <1>3 DEF Stop
  <2>2. run[p].starts \in Nat
      BY DEF BudgetInv, BudgetTypeOK, RunState
  <2>3. r \in RunState /\ AccountsOf(r) /\ r.pending = 0 /\ DOMAIN r.permits = {}
      BY <2>2, DownIsIdle
  <2> HIDE DEF r
  <2> QED BY <2>1, <2>3, KeepUnsent
<1>4. ASSUME NEW p \in Process, ReserveFails(p) PROVE BudgetInv'
  <2> DEFINE r == [run[p] EXCEPT !.pending = 0, !.usage = NoUsage]
  <2>1. /\ run[p].pending # 0 /\ file' \in Torn(p) /\ holder' = NoProcess
        /\ run' = [run EXCEPT ![p] = r] /\ UNCHANGED <<tick, unix, calls, traffic>>
      BY <1>4 DEF ReserveFails
  <2>2. run[p] \in RunState /\ AccountsOf(run[p]) /\ NoUsage \in Record
      BY DEF BudgetInv, BudgetTypeOK, NoUsage, Record, BudgetAssumption
  <2>3. /\ r \in RunState /\ r.permits = run[p].permits /\ r.inFlight = run[p].inFlight
        /\ r.reserved = run[p].reserved /\ r.responses = run[p].responses /\ r.pending = 0
      BY <2>2 DEF RunState
  <2> HIDE DEF r
  <2>4. AccountsOf(r)
      BY <2>2, <2>3 DEF AccountsOf
  <2>5. holder = p
      BY <2>1 DEF BudgetInv, LockedUsage
  <2>6. /\ file' \in (IF run[p].pending = 0 THEN {file} ELSE Torn(p))
        /\ holder' = IF holder = p THEN NoProcess ELSE holder
      BY <2>1, <2>5
  <2> QED BY <2>1, <2>3, <2>4, <2>6, KeepUnsent
<1>5. ASSUME NEW p \in Process, Reserved(p) PROVE BudgetInv'
    BY <1>5, KeepReserved
<1>6. ASSUME NEW p \in Process, NEW body \in Bodies, AdmitCall(p, body) PROVE BudgetInv'
    BY <1>6, KeepAdmitCall
<1>7. ASSUME NEW p \in Process, NEW i \in LivePermits(p),
             NEW bytes \in 0..(MaxResponse + 1), Answer(p, i, bytes)
      PROVE  BudgetInv'
  <2> DEFINE x == [run[p].permits[i] EXCEPT !.answered = TRUE, !.bytes = bytes]
  <2>1. run[p] \in RunState /\ run[p].cooldown \in Nat
      BY DEF BudgetInv, BudgetTypeOK, RunState
  <2>2. run[p].permits[i] \in Permit
      BY <2>1, PermitsOf DEF LivePermits
  <2>3. x \in Permit /\ x.answered
      BY <2>2 DEF Permit
  <2>4. /\ ~run[p].permits[i].answered /\ run[p].pending = 0 /\ traffic' = traffic + bytes
        /\ UNCHANGED <<tick, unix, file, holder, calls>>
      BY <1>7 DEF Answer
  <2>5. run' = [run EXCEPT ![p] = [run[p] EXCEPT !.permits = [run[p].permits EXCEPT ![i] = x],
                                                 !.cooldown = run[p].cooldown]]
    <3>1. run' = [run EXCEPT ![p] = [run[p] EXCEPT !.permits = [run[p].permits EXCEPT ![i] = x]]]
        BY <1>7 DEF Answer
    <3> HIDE DEF x
    <3>2. [run[p] EXCEPT !.permits = [run[p].permits EXCEPT ![i] = x]] =
          [run[p] EXCEPT !.permits = [run[p].permits EXCEPT ![i] = x], !.cooldown = run[p].cooldown]
        BY <2>1 DEF RunState
    <3> QED BY <3>1, <3>2
  <2> HIDE DEF x
  <2> QED BY <2>1, <2>3, <2>4, <2>5, KeepAnswered
<1>8. ASSUME NEW p \in Process, NEW i \in LivePermits(p),
             NEW seconds \in Cooldowns, BackOff(p, i, seconds)
      PROVE  BudgetInv'
  <2> DEFINE x == [run[p].permits[i] EXCEPT !.answered = TRUE]
             cooldown == LaterOf(run[p].cooldown, tick + seconds)
  <2>1. run[p] \in RunState /\ run[p].cooldown \in Nat /\ tick \in Nat /\ seconds \in Nat
      BY DEF BudgetInv, BudgetTypeOK, RunState, BudgetAssumption
  <2>2. run[p].permits[i] \in Permit
      BY <2>1, PermitsOf DEF LivePermits
  <2>3. x \in Permit /\ x.answered
      BY <2>2 DEF Permit
  <2>4. /\ ~run[p].permits[i].answered /\ run[p].pending = 0 /\ traffic' = traffic
        /\ UNCHANGED <<tick, unix, file, holder, calls>>
      BY <1>8 DEF BackOff
  <2>5. run' = [run EXCEPT ![p] = [run[p] EXCEPT !.permits = [run[p].permits EXCEPT ![i] = x],
                                                 !.cooldown = cooldown]]
      BY <1>8 DEF BackOff
  <2>6. cooldown \in Nat
      BY <2>1 DEF LaterOf
  <2>7. traffic' = traffic + 0 /\ 0 \in 0..(MaxResponse + 1)
      BY <2>4 DEF BudgetInv, BudgetTypeOK, BudgetAssumption
  <2> HIDE DEF x, cooldown
  <2> QED BY <2>3, <2>4, <2>5, <2>6, <2>7, KeepAnswered
<1>9. ASSUME NEW p \in Process, NEW i \in LivePermits(p), Drop(p, i) PROVE BudgetInv'
    BY <1>9, KeepDrop
<1>10. CASE BudgetTick
    BY <1>10, KeepBudgetTick DEF BudgetTick, BudgetInv, BudgetTypeOK
<1>11. CASE UNCHANGED budgetVars
    BY <1>11, KeepBudgetTick DEF budgetVars, BudgetInv, BudgetTypeOK
<1> QED
    BY <1>1, <1>2, <1>3, <1>4, <1>5, <1>6, <1>7, <1>8, <1>9, <1>10, <1>11 DEF BudgetNext

\* What the processes of a host send and read stays within the quota of the
\* period and within each run's own budget, whichever of them stop, and
\* whichever write of the quota file is cut short.
\* (provider_quota.rs: reserve, "durable before the caller may contact the provider")
THEOREM QuotaKept == ASSUME BudgetAssumption PROVE BudgetSpec => []QuotaHolds
<1>1. BudgetInit => BudgetInv
    BY BudgetStarts
<1>2. BudgetInv /\ [BudgetNext]_budgetVars => BudgetInv'
    BY BudgetStep
<1>3. BudgetInv => QuotaHolds
    BY DEF BudgetInv, QuotaHolds, RunAccountsExact, AccountsOf, LivePermits
<1> QED BY <1>1, <1>2, <1>3, PTL DEF BudgetSpec

-----------------------------------------------------------------------------
(* The plan gate: what its processes hold and what the file covers.        *)

\* What the sources said last: of each its own statement, or nothing.
MarksOK(latest) ==
    /\ latest \in [Sources -> Observations \cup {Off}]
    /\ \A s \in Sources : latest[s] # Off => latest[s].source = s

\* A statement that the marks cover: the last of its source, or an older one.
Covered(latest, x) ==
    /\ latest[x.source] # Off
    /\ x.sequence < latest[x.source].sequence \/ x = latest[x.source]

\* The processes that have released the lock with a decision.
Past == {g \in Gates : gate[g].at \in {"saved", "reviewed", "authorized"}}

\* The statements that a review rests on, or may still rest on.
Shown == reviewed \cup (UNION {gate[g].decision.proofs : g \in Past})

GateFields == {"at", "context", "engine", "decision", "entry"}

\* Who holds the lock has the marks of the file, or those with its statements.
HolderOf(saved, by, g, o) ==
    /\ o.at \in {"open", "evaluated"} => by = g
    /\ o.at = "open" => o.engine.latest = saved.latest
    /\ o.at = "evaluated" =>
         /\ o.decision.proofs \in Statements
         /\ \A x \in o.decision.proofs : NotReplayed(saved.latest, x)
         /\ o.engine.latest = Watermarks(saved, o.decision.proofs).latest

HolderMarks == \A g \in Gates : HolderOf(kept, lock, g, gate[g])

GateInv ==
    /\ DOMAIN gate = Gates /\ \A g \in Gates : DOMAIN gate[g] = GateFields
    /\ MarksOK(kept.latest)
    /\ HolderMarks
    /\ \A x \in Shown : x \in Observations /\ Covered(kept.latest, x)
    /\ \A x, y \in Shown : x.source = y.source /\ x.sequence = y.sequence => x = y
    /\ BandSupported

-----------------------------------------------------------------------------
(* Least and greatest members.                                             *)

\* The least of a set of naturals.
LEMMA MinIs ==
    ASSUME NEW T \in SUBSET Nat, T # {}
    PROVE  Min(T) \in T /\ \A y \in T : Min(T) <= y
<1> DEFINE R == OpToRel(<, Nat)
<1>1. IsWellFoundedOn(R, Nat)
    BY NatLessThanWellFounded
<1>2. \E x \in T : \A y \in T : ~(<<y, x>> \in R)
  <2> HIDE DEF R
  <2> QED BY <1>1, WFMin
<1>3. \A x, y \in Nat : <<y, x>> \in R <=> y < x
    BY DEF OpToRel
<1> HIDE DEF R
<1>4. \E x \in T : \A y \in T : x <= y
  <2>1. PICK x \in T : \A y \in T : ~(<<y, x>> \in R)
      BY <1>2
  <2>2. ASSUME NEW y \in T PROVE x <= y
    <3>1. ~(<<y, x>> \in R) /\ x \in Nat /\ y \in Nat
        BY <2>1
    <3>2. ~(y < x)
        BY <1>3, <3>1
    <3> QED BY <3>1, <3>2
  <2> QED BY <2>2
<1> QED BY <1>4 DEF Min

\* The greatest of a bounded set of naturals.
LEMMA MaxIs ==
    ASSUME NEW T \in SUBSET Nat, T # {}, NEW bound \in Nat, \A x \in T : x <= bound
    PROVE  Max(T) \in T /\ \A y \in T : Max(T) >= y
<1> DEFINE under == {n \in Nat : \A x \in T : x <= n}
<1>1. bound \in under
    OBVIOUS
<1>2. under \in SUBSET Nat /\ under # {}
    BY <1>1
<1> DEFINE m == Min(under)
<1>3. m \in under /\ \A n \in under : m <= n
    BY <1>2, MinIs
<1>4. m \in Nat /\ \A x \in T : x <= m
    BY <1>3
<1>5. m \in T
  <2> SUFFICES ASSUME m \notin T PROVE FALSE
      OBVIOUS
  <2> HIDE DEF m
  <2>1. PICK x \in T : TRUE
      OBVIOUS
  <2>2. m - 1 \in Nat /\ \A y \in T : y <= m - 1
      BY <1>4, <2>1
  <2> QED BY <1>3, <1>4, <2>2
<1> HIDE DEF m
<1>6. \E x \in T : \A y \in T : x >= y
    BY <1>4, <1>5
<1> QED BY <1>6 DEF Max

\* There is a price above every statement's interval.
LEMMA PricesBounded ==
    ASSUME PolicyAssumption
    PROVE  \E bound \in Nat : \A x \in Observations : x.high <= bound
<1> DEFINE Bounded(T) == \E bound \in Nat : \A x \in T : x.high <= bound
           K == {n \in Nat : \A T \in SUBSET Observations :
                               IsFiniteSet(T) /\ Cardinality(T) = n => Bounded(T)}
<1>1. IsFiniteSet(Observations) /\ \A x \in Observations : x.high \in Nat
    BY DEF PolicyAssumption
<1>2. 0 \in K
  <2> SUFFICES ASSUME NEW T \in SUBSET Observations, IsFiniteSet(T), Cardinality(T) = 0
               PROVE  Bounded(T)
      OBVIOUS
  <2>1. T = {}
      BY FS_EmptySet
  <2>2. \A x \in T : x.high <= 0
      BY <2>1
  <2> QED BY <2>2
<1>3. ASSUME NEW n \in K PROVE n + 1 \in K
  <2> SUFFICES ASSUME NEW T \in SUBSET Observations, IsFiniteSet(T), Cardinality(T) = n + 1
               PROVE  Bounded(T)
      BY <1>3
  <2>1. T # {}
      BY <1>3, FS_EmptySet
  <2>2. PICK y \in T : TRUE
      BY <2>1
  <2>3. IsFiniteSet(T \ {y}) /\ Cardinality(T \ {y}) = n
      BY <1>3, <2>2, FS_RemoveElement
  <2>4. Bounded(T \ {y})
      BY <1>3, <2>3
  <2>5. PICK bound \in Nat : \A x \in T \ {y} : x.high <= bound
      BY <2>4
  <2>6. y.high \in Nat
      BY <1>1
  <2>7. bound + y.high \in Nat /\ \A x \in T : x.high <= bound + y.high
      BY <1>1, <2>5, <2>6
  <2> QED BY <2>7
<1> HIDE DEF K
<1>4. K = Nat
  <2> SUFFICES ASSUME Nat \ K # {} PROVE FALSE
      BY DEF K
  <2> DEFINE m == Min(Nat \ K)
  <2>1. m \in Nat \ K /\ \A n \in Nat \ K : m <= n
      BY MinIs
  <2> HIDE DEF m
  <2>2. m # 0 /\ m - 1 \in Nat
      BY <1>2, <2>1
  <2>3. m - 1 \in K
      BY <2>1, <2>2
  <2>4. (m - 1) + 1 = m
      BY <2>1
  <2> QED BY <1>3, <2>1, <2>3, <2>4
<1>5. Cardinality(Observations) \in K
    BY <1>1, <1>4, FS_CardinalityType
<1> QED BY <1>1, <1>5 DEF K

-----------------------------------------------------------------------------
(* Interval consensus.                                                     *)

\* The vote of a group that was heard holds the interval of each of its sources.
LEMMA VoteIs ==
    ASSUME PolicyAssumption, NEW bound \in Nat, \A x \in Observations : x.high <= bound,
           NEW xs \in SUBSET Observations, NEW v, \E x \in xs : GroupOf[x.source] = v
    PROVE  /\ Vote(xs, v).low \in Nat /\ Vote(xs, v).high \in Nat
           /\ Vote(xs, v).low <= Vote(xs, v).high /\ Vote(xs, v).high <= bound
           /\ \E x \in xs : GroupOf[x.source] = v /\ Vote(xs, v).low = x.low
           /\ \E x \in xs : GroupOf[x.source] = v /\ Vote(xs, v).high = x.high
<1> DEFINE own == {x \in xs : GroupOf[x.source] = v}
           lows == {x.low : x \in own}
           highs == {x.high : x \in own}
<1>1. \A x \in own : x.low \in Nat /\ x.high \in Nat /\ x.low <= x.high /\ x.high <= bound
    BY DEF PolicyAssumption
<1>2. PICK y \in own : TRUE
    OBVIOUS
<1>3. lows \in SUBSET Nat /\ lows # {} /\ highs \in SUBSET Nat /\ highs # {}
    BY <1>1, <1>2
<1>4. \A h \in highs : h <= bound
    BY <1>1
<1>5. Vote(xs, v).low = Min(lows) /\ Vote(xs, v).high = Max(highs)
    BY DEF Vote
<1>6. Min(lows) \in lows /\ \A l \in lows : Min(lows) <= l
    BY <1>3, MinIs
<1> HIDE DEF own
<1>7. Max(highs) \in highs /\ \A h \in highs : Max(highs) >= h
    BY <1>3, <1>4, MaxIs
<1>8. Min(lows) <= y.low /\ y.high <= Max(highs)
    BY <1>2, <1>6, <1>7
<1> HIDE DEF lows, highs
<1>9. Min(lows) \in Nat /\ Max(highs) \in Nat
    BY <1>3, <1>6, <1>7
<1>10. Min(lows) <= Max(highs) /\ Max(highs) <= bound
    BY <1>1, <1>2, <1>3, <1>4, <1>7, <1>8, <1>9
<1> QED BY <1>5, <1>6, <1>7, <1>9, <1>10 DEF own, lows, highs

\* More groups are no fewer votes.
LEMMA VotesGrow ==
    ASSUME PolicyAssumption, NEW A \in SUBSET Groups, NEW B \in SUBSET Groups, A \subseteq B,
           Cardinality(A) >= Quorum
    PROVE  Cardinality(B) >= Quorum
<1>1. IsFiniteSet(Groups) /\ Cardinality(Groups) \in Nat /\ Faults \in Int
    BY FS_CardinalityType DEF PolicyAssumption
<1>2. IsFiniteSet(B)
    BY <1>1, FS_Subset
<1>3. Cardinality(A) \in Nat /\ Cardinality(B) \in Nat /\ Cardinality(A) <= Cardinality(B)
    BY <1>2, FS_Subset, FS_CardinalityType
<1>4. Quorum \in Int
    BY <1>1 DEF Quorum
<1> QED BY <1>3, <1>4

\* A quorum is not empty.
LEMMA SomeVote ==
    ASSUME PolicyAssumption, NEW A \in SUBSET Groups, Cardinality(A) >= Quorum
    PROVE  A # {}
<1>1. Cardinality(Groups) \in Nat /\ Faults \in Int /\ Faults <= Cardinality(Groups) - 1
    BY FS_CardinalityType DEF PolicyAssumption
<1>2. Quorum >= 1
    BY <1>1 DEF Quorum
<1>3. Cardinality({}) = 0
    BY FS_EmptySet
<1>4. Quorum \in Int
    BY <1>1 DEF Quorum
<1> QED BY <1>2, <1>3, <1>4

\* A band that was found is the hull of the prices that a quorum votes for, and
\* a quorum votes for every price in it, those between end points included.
LEMMA ConsensusIs ==
    ASSUME PolicyAssumption, NEW bound \in Nat, NEW votes, DOMAIN votes = Groups,
           \A v \in Groups : /\ votes[v].low \in Nat /\ votes[v].high \in Nat
                             /\ votes[v].low <= votes[v].high /\ votes[v].high <= bound,
           Consensus(votes) # Off
    PROVE  LET band == Consensus(votes)
           IN  /\ band.low \in Nat /\ band.high \in Nat
               /\ \A p \in (2 * band.low)..(2 * band.high) :
                    Cardinality({v \in Groups : 2 * votes[v].low <= p /\ p <= 2 * votes[v].high})
                      >= Quorum
               /\ \A price \in Nat :
                    Cardinality({v \in Groups : votes[v].low <= price /\ price <= votes[v].high})
                      >= Quorum
                    => band.low <= price /\ price <= band.high
<1> DEFINE points == UNION {{v.low, v.high} : v \in Range(votes)}
           Through(a, b) == {g \in DOMAIN votes : votes[g].low <= a /\ votes[g].high >= b}
           covered == {p \in points : Cardinality(Through(p, p)) >= Quorum}
           low == Min(covered)
           high == Max(covered)
           next == [p \in points |-> Min({q \in points : q > p} \cup {Max(points) + 1})]
           whole == \A p \in points : low <= p /\ p < high => Cardinality(Through(p, next[p])) >= Quorum
           band == Consensus(votes)
<1>1. band = IF covered = {} \/ ~whole \/ (high - low) * Bps > low * MaxWidth THEN Off
             ELSE [low |-> low, high |-> high]
    BY DEF Consensus
<1>2. covered # {} /\ whole /\ band.low = low /\ band.high = high
  <2>1. band # Off
      OBVIOUS
  <2> HIDE DEF band, covered, whole, low, high
  <2> QED BY <1>1, <2>1
<1>3. points \in SUBSET Nat /\ \A p \in points : p <= bound
    BY DEF Range
<1>4. \A g \in Groups : votes[g].low \in points /\ votes[g].high \in points
    BY DEF Range
<1> HIDE DEF points
<1>5. covered \in SUBSET Nat /\ \A p \in covered : p <= bound
    BY <1>3
<1>6. /\ low \in covered /\ (\A p \in covered : low <= p)
      /\ high \in covered /\ (\A p \in covered : high >= p)
    BY <1>2, <1>5, MinIs, MaxIs
<1>7. low \in Nat /\ high \in Nat /\ low \in points /\ high \in points
    BY <1>5, <1>6
<1>8. ASSUME NEW p \in (2 * low)..(2 * high)
      PROVE  Cardinality({v \in Groups : 2 * votes[v].low <= p /\ p <= 2 * votes[v].high}) >= Quorum
  <2> DEFINE below == {q \in points : 2 * q <= p}
             q == Max(below)
             there == {v \in Groups : 2 * votes[v].low <= p /\ p <= 2 * votes[v].high}
  <2> HIDE DEF low, high, covered
  <2>0. p \in Int /\ 2 * low <= p /\ p <= 2 * high
      BY <1>7, <1>8
  <2>1. below \in SUBSET Nat /\ low \in below /\ \A x \in below : x <= bound
      BY <1>3, <1>7, <2>0
  <2>2. q \in below /\ \A x \in below : q >= x
      BY <2>1, MaxIs
  <2>3. q \in points /\ q \in Nat /\ 2 * q <= p /\ low <= q /\ q <= high
      BY <1>3, <1>7, <2>0, <2>1, <2>2
  <2> HIDE DEF q
  <2>4. CASE q = high
    <3>1. Cardinality(Through(high, high)) >= Quorum
        BY <1>6 DEF covered
    <3>2. p = 2 * high
        BY <1>7, <2>0, <2>3, <2>4
    <3>3. Through(high, high) \subseteq there
        BY <1>7, <3>2
    <3>4. Through(high, high) \in SUBSET Groups /\ there \in SUBSET Groups
        OBVIOUS
    <3> HIDE DEF Through, there
    <3> QED BY <3>1, <3>3, <3>4, VotesGrow DEF there
  <2>5. CASE q # high
    <3>1. q < high
        BY <1>7, <2>3, <2>5
    <3>2. Cardinality(Through(q, next[q])) >= Quorum
        BY <1>2, <2>3, <3>1
    <3> DEFINE above == {x \in points : x > q} \cup {Max(points) + 1}
    <3>3. Max(points) \in points /\ \A x \in points : Max(points) >= x
        BY <1>3, <1>7, MaxIs
    <3>4. above \in SUBSET Nat /\ above # {}
      <4>1. Max(points) \in Nat
          BY <1>3, <3>3
      <4> DEFINE top == Max(points)
      <4>2. above = {x \in points : x > q} \cup {top + 1}
          OBVIOUS
      <4>3. top + 1 \in Nat
          BY <4>1
      <4> HIDE DEF top, above
      <4> QED BY <1>3, <4>2, <4>3
    <3>5. next[q] = Min(above)
        BY <2>3
    <3>6. Min(above) \in above
        BY <3>4, MinIs
    <3> HIDE DEF next
    <3>7. next[q] \in Nat /\ p < 2 * next[q]
      <4>1. CASE next[q] \in points /\ next[q] > q
        <5>1. next[q] \in Nat /\ next[q] \notin below
          <6>1. next[q] \in Nat
              BY <1>3, <4>1
          <6>2. ASSUME next[q] \in below PROVE FALSE
            <7>1. q >= next[q]
                BY <2>2, <6>2
            <7> QED BY <2>3, <4>1, <6>1, <7>1
          <6> QED BY <6>1, <6>2
        <5>2. ~(2 * next[q] <= p)
            BY <4>1, <5>1
        <5> QED BY <2>0, <5>1, <5>2
      <4>2. CASE next[q] = Max(points) + 1
        <5> DEFINE top == Max(points)
        <5>1. top \in Nat /\ high <= top
            BY <1>3, <1>7, <3>3
        <5> HIDE DEF top
        <5>2. next[q] = top + 1
            BY <4>2 DEF top
        <5> QED BY <1>7, <2>0, <5>1, <5>2
      <4> QED BY <3>5, <3>6, <4>1, <4>2
    <3>8. Through(q, next[q]) \subseteq there
      <4> SUFFICES ASSUME NEW v \in Groups, votes[v].low <= q, votes[v].high >= next[q]
                   PROVE  2 * votes[v].low <= p /\ p <= 2 * votes[v].high
          OBVIOUS
      <4> QED BY <2>0, <2>3, <3>7
    <3>9. Through(q, next[q]) \in SUBSET Groups /\ there \in SUBSET Groups
        OBVIOUS
    <3> HIDE DEF Through, there
    <3> QED BY <3>2, <3>8, <3>9, VotesGrow DEF there
  <2> QED BY <2>4, <2>5
<1>9. ASSUME NEW price \in Nat,
             Cardinality({v \in Groups : votes[v].low <= price /\ price <= votes[v].high}) >= Quorum
      PROVE  low <= price /\ price <= high
  <2> DEFINE there == {v \in Groups : votes[v].low <= price /\ price <= votes[v].high}
             lows == {votes[v].low : v \in there}
             highs == {votes[v].high : v \in there}
             l == Max(lows)
             h == Min(highs)
  <2>1. there \in SUBSET Groups /\ Cardinality(there) >= Quorum
      BY <1>9
  <2>2. PICK w \in Groups : w \in there
      BY <2>1, SomeVote
  <2>3. /\ lows \in SUBSET Nat /\ lows # {} /\ (\A x \in lows : x <= bound)
        /\ highs \in SUBSET Nat /\ highs # {}
      BY <2>2
  <2>4. /\ l \in lows /\ (\A x \in lows : l >= x)
        /\ h \in highs /\ (\A x \in highs : h <= x)
    <3> HIDE DEF lows, highs
    <3> QED BY <2>3, MaxIs, MinIs
  <2>5. l \in points /\ h \in points /\ l \in Nat /\ h \in Nat /\ l <= price /\ price <= h
      BY <1>4, <2>4
  <2>6. there \subseteq Through(l, l) /\ there \subseteq Through(h, h)
    <3> SUFFICES ASSUME NEW v \in there
                 PROVE  /\ votes[v].low <= l /\ votes[v].high >= l
                        /\ votes[v].low <= h /\ votes[v].high >= h
        OBVIOUS
    <3>1. votes[v].low \in lows /\ votes[v].high \in highs
        OBVIOUS
    <3>2. votes[v].low <= l /\ h <= votes[v].high
        BY <2>4, <3>1
    <3>3. /\ votes[v].low \in Nat /\ votes[v].high \in Nat
          /\ votes[v].low <= price /\ price <= votes[v].high
        OBVIOUS
    <3> HIDE DEF l, h
    <3> QED BY <2>5, <3>2, <3>3
  <2> HIDE DEF l, h
  <2>7. Through(l, l) \in SUBSET Groups /\ Through(h, h) \in SUBSET Groups
      OBVIOUS
  <2> HIDE DEF there, Through
  <2>8. Cardinality(Through(l, l)) >= Quorum /\ Cardinality(Through(h, h)) >= Quorum
      BY <2>1, <2>6, <2>7, VotesGrow
  <2>9. l \in covered /\ h \in covered
      BY <2>5, <2>8
  <2> HIDE DEF covered
  <2>10. low <= l /\ h <= high
      BY <1>6, <2>9
  <2> HIDE DEF low, high
  <2> QED BY <1>7, <2>5, <2>10
<1> HIDE DEF low, high, covered, whole, next, Through, band
<1>10. band.low \in Nat /\ band.high \in Nat
    BY <1>2, <1>7
<1> QED BY <1>2, <1>8, <1>9, <1>10 DEF band

\* evaluate: a decision's band is supported.
LEMMA DecisionSupported ==
    ASSUME PolicyAssumption, NEW e, NEW c, NEW xs \in Statements, AdmitsStatements(e, c, xs),
           Decision(c, xs).band # Off
    PROVE  WellSupported(Decision(c, xs))
<1> DEFINE votes == [v \in Groups |-> Vote(xs, v)]
           d == Decision(c, xs)
           band == Consensus(votes)
           most == 2 * Max({x.high : x \in Observations})
<1>1. PICK bound \in Nat : \A x \in Observations : x.high <= bound
    BY PricesBounded
<1>2. xs \in SUBSET Observations /\ {GroupOf[x.source] : x \in xs} = Groups
    BY DEF Statements, AdmitsStatements
<1>3. \A v \in Groups : \E x \in xs : GroupOf[x.source] = v
    BY <1>2
<1>4. \A v \in Groups : /\ votes[v].low \in Nat /\ votes[v].high \in Nat
                        /\ votes[v].low <= votes[v].high /\ votes[v].high <= bound
    BY <1>1, <1>2, <1>3, VoteIs
<1>5. d.band = band /\ d.proofs = xs /\ band # Off
    BY DEF Decision
<1>6. /\ band.low \in Nat /\ band.high \in Nat
      /\ \A p \in (2 * band.low)..(2 * band.high) :
           Cardinality({v \in Groups : 2 * votes[v].low <= p /\ p <= 2 * votes[v].high}) >= Quorum
      /\ \A price \in Nat :
           Cardinality({v \in Groups : votes[v].low <= price /\ price <= votes[v].high}) >= Quorum
           => band.low <= price /\ price <= band.high
  <2>1. DOMAIN votes = Groups
      OBVIOUS
  <2> HIDE DEF votes
  <2> QED BY <1>1, <1>4, <1>5, <2>1, ConsensusIs
<1>7. ASSUME NEW price \in 1..most,
             Cardinality({v \in Groups : \A s \in Sources : GroupOf[s] = v => s \in Honest(price)})
               >= Cardinality(Groups) - Faults
      PROVE  band.low <= price /\ price <= band.high
  <2> DEFINE honest == {v \in Groups : \A s \in Sources : GroupOf[s] = v => s \in Honest(price)}
             there == {v \in Groups : votes[v].low <= price /\ price <= votes[v].high}
  <2>1. price \in Nat
      OBVIOUS
  <2>2. honest \in SUBSET Groups /\ there \in SUBSET Groups /\ Cardinality(honest) >= Quorum
      BY <1>7 DEF Quorum
  <2>3. ASSUME NEW v \in honest PROVE v \in there
    <3>1. PICK x \in xs : GroupOf[x.source] = v /\ Vote(xs, v).low = x.low
        BY <1>1, <1>2, <1>3, VoteIs
    <3>2. PICK y \in xs : GroupOf[y.source] = v /\ Vote(xs, v).high = y.high
        BY <1>1, <1>2, <1>3, VoteIs
    <3>3. /\ x \in Observations /\ y \in Observations
          /\ x.source \in Honest(price) /\ y.source \in Honest(price)
        BY <1>2, <3>1, <3>2 DEF PolicyAssumption
    <3>4. x.low <= price /\ price <= y.high
        BY <3>3 DEF Honest
    <3> QED BY <3>1, <3>2, <3>4
  <2> HIDE DEF honest, there
  <2>4. Cardinality(there) >= Quorum
      BY <2>2, <2>3, VotesGrow
  <2> QED BY <1>6, <2>1, <2>4 DEF there
<1> HIDE DEF d, band, most
<1> QED BY <1>5, <1>6, <1>7 DEF WellSupported, d, most

-----------------------------------------------------------------------------
(* What the sources said last.                                             *)

\* The marks that a decision leaves are those of its statements, and the old
\* ones of the sources that were not asked.
LEMMA WatermarksAre ==
    ASSUME PolicyAssumption, NEW e, MarksOK(e.latest), NEW xs \in Statements
    PROVE  /\ MarksOK(Watermarks(e, xs).latest)
           /\ \A x \in xs : Watermarks(e, xs).latest[x.source] = x
           /\ \A s \in Sources : (\A x \in xs : x.source # s) =>
                Watermarks(e, xs).latest[s] = e.latest[s]
<1> DEFINE n == Watermarks(e, xs).latest
<1>1. n = [s \in Sources |->
             IF \E x \in xs : x.source = s THEN CHOOSE x \in xs : x.source = s ELSE e.latest[s]]
    BY DEF Watermarks
<1> HIDE DEF n
<1>2. xs \in SUBSET Observations /\ \A x, y \in xs : x.source = y.source => x = y
    BY DEF Statements
<1>3. \A x \in xs : x.source \in Sources /\ x # Off
    BY <1>2 DEF PolicyAssumption
<1>4. \A x \in xs : n[x.source] = x
  <2> SUFFICES ASSUME NEW x \in xs PROVE n[x.source] = x
      OBVIOUS
  <2>1. n[x.source] = CHOOSE y \in xs : y.source = x.source
      BY <1>1, <1>3
  <2>2. (CHOOSE y \in xs : y.source = x.source) \in xs
        /\ (CHOOSE y \in xs : y.source = x.source).source = x.source
      OBVIOUS
  <2> QED BY <1>2, <2>1, <2>2
<1>5. \A s \in Sources : (\A x \in xs : x.source # s) => n[s] = e.latest[s]
    BY <1>1
<1>6. MarksOK(n)
  <2>1. DOMAIN n = Sources
      BY <1>1
  <2>2. \A s \in Sources : n[s] \in Observations \cup {Off} /\ (n[s] # Off => n[s].source = s)
    <3> SUFFICES ASSUME NEW s \in Sources
                 PROVE  n[s] \in Observations \cup {Off} /\ (n[s] # Off => n[s].source = s)
        OBVIOUS
    <3>1. CASE \E x \in xs : x.source = s
        BY <1>2, <1>4, <3>1
    <3>2. CASE \A x \in xs : x.source # s
        BY <1>5, <3>2 DEF MarksOK
    <3> QED BY <3>1, <3>2
  <2>3. n = [s \in Sources |-> n[s]]
      BY <1>1
  <2> QED BY <2>2, <2>3 DEF MarksOK
<1> QED BY <1>4, <1>5, <1>6 DEF n

\* Written after statements that replay nothing, the marks cover all that they
\* covered and those statements, and no number was used twice.
LEMMA MarksCover ==
    ASSUME PolicyAssumption, NEW m, MarksOK(m), NEW xs \in Statements,
           \A x \in xs : NotReplayed(m, x),
           NEW n, MarksOK(n), \A x \in xs : n[x.source] = x,
           \A s \in Sources : (\A x \in xs : x.source # s) => n[s] = m[s],
           NEW Y, \A y \in Y : y \in Observations /\ Covered(m, y),
           \A x, y \in Y : x.source = y.source /\ x.sequence = y.sequence => x = y
    PROVE  /\ \A y \in Y \cup xs : y \in Observations /\ Covered(n, y)
           /\ \A x, y \in Y \cup xs : x.source = y.source /\ x.sequence = y.sequence => x = y
<1>1. xs \in SUBSET Observations /\ \A x, y \in xs : x.source = y.source => x = y
    BY DEF Statements
<1>2. \A x \in Observations : x.source \in Sources /\ x.sequence \in Nat /\ x # Off
    BY DEF PolicyAssumption
\* A statement that was shown before one of these is an older one, or the same.
<1>3. ASSUME NEW y \in Y, NEW x \in xs, x.source = y.source
      PROVE  y.sequence < x.sequence \/ y = x
  <2> DEFINE last == m[y.source]
  <2>1. y \in Observations /\ last # Off /\ (y.sequence < last.sequence \/ y = last)
      BY DEF Covered
  <2>2. last \in Observations
      BY <1>2, <2>1 DEF MarksOK
  <2>3. x.sequence > last.sequence \/ x = last
      BY <1>3, <2>1 DEF NotReplayed
  <2>4. y.sequence \in Nat /\ last.sequence \in Nat /\ x.sequence \in Nat
      BY <1>1, <1>2, <2>1, <2>2
  <2> HIDE DEF last
  <2> QED BY <2>1, <2>3, <2>4
<1>4. \A y \in Y : y \in Observations /\ Covered(n, y)
  <2> SUFFICES ASSUME NEW y \in Y PROVE y \in Observations /\ Covered(n, y)
      OBVIOUS
  <2>1. y \in Observations /\ Covered(m, y) /\ y.source \in Sources
      BY <1>2
  <2>2. CASE \A x \in xs : x.source # y.source
    <3>1. n[y.source] = m[y.source]
        BY <2>1, <2>2
    <3> QED BY <2>1, <3>1 DEF Covered
  <2>3. CASE \E x \in xs : x.source = y.source
    <3>1. PICK x \in xs : x.source = y.source
        BY <2>3
    <3>2. n[y.source] = x /\ x # Off /\ (y.sequence < x.sequence \/ y = x)
        BY <1>1, <1>2, <1>3, <3>1
    <3> QED BY <2>1, <3>2 DEF Covered
  <2> QED BY <2>2, <2>3
<1>5. \A x \in xs : x \in Observations /\ Covered(n, x)
    BY <1>1, <1>2 DEF Covered
<1>6. ASSUME NEW x \in Y \cup xs, NEW y \in Y \cup xs, x.source = y.source, x.sequence = y.sequence
      PROVE  x = y
  <2>1. x.sequence \in Nat /\ y.sequence \in Nat
      BY <1>1, <1>2
  <2>2. CASE x \in Y /\ y \in Y
      BY <1>6, <2>2
  <2>3. CASE x \in xs /\ y \in xs
      BY <1>1, <1>6, <2>3
  <2>4. CASE x \in Y /\ y \in xs
      BY <1>3, <1>6, <2>1, <2>4
  <2>5. CASE x \in xs /\ y \in Y
      BY <1>3, <1>6, <2>1, <2>5
  <2> QED BY <2>2, <2>3, <2>4, <2>5
<1> QED BY <1>4, <1>5, <1>6

-----------------------------------------------------------------------------
\* A step of one process changes no other, and a decision it ends with is none,
\* its own, or a supported one.
LEMMA OneGate ==
    ASSUME GateInv, NEW g \in Gates, NEW p, DOMAIN p = GateFields,
           gate' = [gate EXCEPT ![g] = p],
           p.decision = Off \/ p.decision = gate[g].decision \/ WellSupported(p.decision)
    PROVE  /\ DOMAIN gate' = Gates /\ \A h \in Gates : DOMAIN gate'[h] = GateFields
           /\ gate'[g] = p /\ \A h \in Gates : h # g => gate'[h] = gate[h]
           /\ BandSupported'
<1>1. DOMAIN gate = Gates /\ \A h \in Gates : DOMAIN gate[h] = GateFields
    BY DEF GateInv
<1>2. gate'[g] = p /\ \A h \in Gates : h # g => gate'[h] = gate[h]
    BY <1>1
<1>3. \A h \in Gates : gate[h].decision # Off => WellSupported(gate[h].decision)
    BY DEF GateInv, BandSupported, Deciding
<1>4. BandSupported'
    BY <1>2, <1>3 DEF BandSupported, Deciding
<1> QED BY <1>1, <1>2, <1>4

\* Nothing more is shown, and the marks of the file stay.
LEMMA SameMarks ==
    ASSUME GateInv, Shown' \subseteq Shown, kept'.latest = kept.latest
    PROVE  /\ MarksOK(kept'.latest)
           /\ \A x \in Shown' : x \in Observations /\ Covered(kept'.latest, x)
           /\ \A x, y \in Shown' : x.source = y.source /\ x.sequence = y.sequence => x = y
BY DEF GateInv

\* What is shown, by the processes that are past their write.
LEMMA ShownGrows ==
    ASSUME NEW g \in Gates, NEW more, reviewed' \subseteq reviewed \cup more,
           \A h \in Gates : h # g => gate'[h] = gate[h],
           gate'[g].at \in {"saved", "reviewed", "authorized"} =>
             gate'[g].decision.proofs \subseteq more
    PROVE  Shown' \subseteq Shown \cup more
<1>1. \A h \in Past' : h # g => h \in Past /\ gate'[h] = gate[h]
    BY DEF Past
<1>2. g \in Past' => gate'[g].decision.proofs \subseteq more
    BY DEF Past
<1> QED BY <1>1, <1>2 DEF Shown

\* The lock is taken and the marks of the file are restored.
LEMMA KeepOpenGate ==
    ASSUME PolicyAssumption, GateInv, NEW g \in Gates, NEW c, OpenGate(g, c)
    PROVE  GateInv'
<1> DEFINE p == [NoReview EXCEPT !.at = "open", !.context = c,
                    !.engine = [latest |-> kept.latest, clock |-> kept.clock]]
<1>1. /\ lock = Off /\ lock' = g /\ gate' = [gate EXCEPT ![g] = p]
      /\ UNCHANGED <<kept, reviewed>>
    BY DEF OpenGate
<1>2. /\ DOMAIN p = GateFields /\ p.decision = Off /\ p.at = "open"
      /\ p.engine.latest = kept.latest
    BY DEF NoReview, GateFields
<1> HIDE DEF p
<1>3. /\ DOMAIN gate' = Gates /\ \A h \in Gates : DOMAIN gate'[h] = GateFields
      /\ gate'[g] = p /\ \A h \in Gates : h # g => gate'[h] = gate[h]
      /\ BandSupported'
    BY <1>1, <1>2, OneGate
<1>4. Shown' \subseteq Shown
  <2>1. reviewed' \subseteq reviewed \cup {} /\ gate'[g].at = "open"
      BY <1>1, <1>2, <1>3
  <2> QED BY <1>3, <2>1, ShownGrows
<1>5. HolderMarks'
  <2>1. \A h \in Gates : h # g => gate[h].at \notin {"open", "evaluated"}
      BY <1>1 DEF GateInv, HolderMarks, HolderOf, PolicyAssumption
  <2> QED BY <1>1, <1>2, <1>3, <2>1 DEF HolderMarks, HolderOf
<1> QED BY <1>1, <1>3, <1>4, <1>5, SameMarks DEF GateInv

\* A decision is made of statements that replay nothing, and the process has
\* their marks.
LEMMA KeepEvaluate ==
    ASSUME PolicyAssumption, GateInv, NEW g \in Gates, NEW xs \in Statements, Evaluate(g, xs)
    PROVE  GateInv'
<1> DEFINE o == gate[g]
           d == Decision(o.context, xs)
           p == [o EXCEPT !.at = "evaluated", !.decision = d, !.engine = Watermarks(o.engine, xs)]
<1>1. /\ o.at = "open" /\ AdmitsStatements(o.engine, o.context, xs) /\ d.band # Off
      /\ gate' = [gate EXCEPT ![g] = p] /\ UNCHANGED <<kept, lock, reviewed>>
    BY DEF Evaluate
<1>2. DOMAIN o = GateFields /\ lock = g /\ o.engine.latest = kept.latest
    BY <1>1 DEF GateInv, HolderMarks, HolderOf
<1>3. WellSupported(d)
    BY <1>1, DecisionSupported
<1>4. d.proofs = xs
    BY DEF Decision
<1> HIDE DEF d
<1>5. /\ DOMAIN p = GateFields /\ p.decision = d /\ p.at = "evaluated"
      /\ p.engine = Watermarks(o.engine, xs)
    BY <1>2 DEF GateFields
<1>6. Watermarks(o.engine, xs).latest = Watermarks(kept, xs).latest
    BY <1>2 DEF Watermarks
<1>7. \A x \in xs : NotReplayed(kept.latest, x)
    BY <1>1, <1>2 DEF AdmitsStatements
<1> HIDE DEF p, o
<1>8. /\ DOMAIN gate' = Gates /\ \A h \in Gates : DOMAIN gate'[h] = GateFields
      /\ gate'[g] = p /\ \A h \in Gates : h # g => gate'[h] = gate[h]
      /\ BandSupported'
    BY <1>1, <1>3, <1>5, OneGate
<1>9. Shown' \subseteq Shown
  <2>1. reviewed' \subseteq reviewed \cup {} /\ gate'[g].at = "evaluated"
      BY <1>1, <1>5, <1>8
  <2> QED BY <1>8, <2>1, ShownGrows
<1>10. HolderMarks'
  <2>1. lock' = lock /\ kept' = kept
      BY <1>1
  <2>2. HolderOf(kept, lock, g, p)
      BY <1>2, <1>4, <1>5, <1>6, <1>7 DEF HolderOf
  <2>3. \A h \in Gates : HolderOf(kept, lock, h, gate'[h])
      BY <1>8, <2>2 DEF GateInv, HolderMarks
  <2> QED BY <2>1, <2>3 DEF HolderMarks, HolderOf, Watermarks, NotReplayed, Statements
<1> QED BY <1>1, <1>8, <1>9, <1>10, SameMarks DEF GateInv

\* What the process that writes the file has, and what the file then covers.
LEMMA WriteCovers ==
    ASSUME PolicyAssumption, GateInv, NEW g \in Gates, gate[g].at = "evaluated",
           kept' = Written(gate[g].engine)
    PROVE  LET xs == gate[g].decision.proofs
           IN  /\ MarksOK(kept'.latest)
               /\ \A x \in Shown \cup xs : x \in Observations /\ Covered(kept'.latest, x)
               /\ \A x, y \in Shown \cup xs :
                    x.source = y.source /\ x.sequence = y.sequence => x = y
<1> DEFINE xs == gate[g].decision.proofs
           n == Watermarks(kept, xs).latest
<1>1. /\ xs \in Statements /\ (\A x \in xs : NotReplayed(kept.latest, x))
      /\ gate[g].engine.latest = n
    BY DEF GateInv, HolderMarks, HolderOf
<1>2. kept'.latest = n
    BY <1>1 DEF Written
<1> HIDE DEF xs
<1>3. /\ MarksOK(n) /\ (\A x \in xs : n[x.source] = x)
      /\ \A s \in Sources : (\A x \in xs : x.source # s) => n[s] = kept.latest[s]
    BY <1>1, WatermarksAre DEF GateInv
<1> HIDE DEF n
<1>4. /\ \A x \in Shown \cup xs : x \in Observations /\ Covered(n, x)
      /\ \A x, y \in Shown \cup xs : x.source = y.source /\ x.sequence = y.sequence => x = y
  <2> DEFINE Y == Shown
  <2>1. /\ \A y \in Y : y \in Observations /\ Covered(kept.latest, y)
        /\ \A x, y \in Y : x.source = y.source /\ x.sequence = y.sequence => x = y
        /\ MarksOK(kept.latest)
      BY DEF GateInv
  <2> HIDE DEF Y
  <2>2. /\ \A x \in Y \cup xs : x \in Observations /\ Covered(n, x)
        /\ \A x, y \in Y \cup xs : x.source = y.source /\ x.sequence = y.sequence => x = y
      BY <1>1, <1>3, <2>1, MarksCover
  <2> QED BY <2>2 DEF Y
<1> QED BY <1>2, <1>3, <1>4 DEF xs

\* save: the file has the marks before the lock is released.
LEMMA KeepSaveMarks ==
    ASSUME PolicyAssumption, GateInv, NEW g \in Gates, SaveMarks(g)
    PROVE  GateInv'
<1> DEFINE o == gate[g]
           p == [o EXCEPT !.at = "saved", !.engine = Off]
           xs == o.decision.proofs
<1>1. /\ o.at = "evaluated" /\ kept' = Written(o.engine) /\ lock' = Off
      /\ reviewed' = reviewed /\ gate' = [gate EXCEPT ![g].at = "saved", ![g].engine = Off]
    BY DEF SaveMarks
<1>2. DOMAIN o = GateFields /\ lock = g /\ DOMAIN gate = Gates
    BY <1>1 DEF GateInv, HolderMarks, HolderOf
<1>3. gate' = [gate EXCEPT ![g] = p]
    BY <1>1, <1>2
<1>4. DOMAIN p = GateFields /\ p.decision = o.decision /\ p.at = "saved"
    BY <1>2 DEF GateFields
<1>5. /\ MarksOK(kept'.latest)
      /\ \A x \in Shown \cup xs : x \in Observations /\ Covered(kept'.latest, x)
      /\ \A x, y \in Shown \cup xs : x.source = y.source /\ x.sequence = y.sequence => x = y
    BY <1>1, WriteCovers
<1> HIDE DEF p
<1>6. /\ DOMAIN gate' = Gates /\ \A h \in Gates : DOMAIN gate'[h] = GateFields
      /\ gate'[g] = p /\ \A h \in Gates : h # g => gate'[h] = gate[h]
      /\ BandSupported'
    BY <1>3, <1>4, OneGate
<1>7. Shown' \subseteq Shown \cup xs
  <2>1. reviewed' \subseteq reviewed \cup xs /\ gate'[g].decision.proofs \subseteq xs
      BY <1>1, <1>4, <1>6
  <2> HIDE DEF xs
  <2> QED BY <1>6, <2>1, ShownGrows
<1>8. HolderMarks'
  <2>1. \A h \in Gates : h # g => gate[h].at \notin {"open", "evaluated"}
      BY <1>2 DEF GateInv, HolderMarks, HolderOf
  <2> QED BY <1>4, <1>6, <2>1 DEF HolderMarks, HolderOf
<1> QED BY <1>5, <1>6, <1>7, <1>8 DEF GateInv

\* A process that stops shows nothing more; the file is the old or the new one.
LEMMA KeepStopGate ==
    ASSUME PolicyAssumption, GateInv, NEW g \in Gates, StopGate(g)
    PROVE  GateInv'
<1>1. /\ kept' = kept \/ (gate[g].at = "evaluated" /\ kept' = Written(gate[g].engine))
      /\ lock' = IF lock = g THEN Off ELSE lock
      /\ gate' = [gate EXCEPT ![g] = NoReview] /\ reviewed' = reviewed
    BY DEF StopGate
<1>2. DOMAIN NoReview = GateFields /\ NoReview.decision = Off /\ NoReview.at = "idle"
    BY DEF NoReview, GateFields
<1>3. /\ DOMAIN gate' = Gates /\ \A h \in Gates : DOMAIN gate'[h] = GateFields
      /\ gate'[g] = NoReview /\ \A h \in Gates : h # g => gate'[h] = gate[h]
      /\ BandSupported'
    BY <1>1, <1>2, OneGate
<1>4. Shown' \subseteq Shown
  <2>1. reviewed' \subseteq reviewed \cup {} /\ gate'[g].at = "idle"
      BY <1>1, <1>2, <1>3
  <2> QED BY <1>3, <2>1, ShownGrows
<1>5. /\ MarksOK(kept'.latest)
      /\ \A x \in Shown' : x \in Observations /\ Covered(kept'.latest, x)
      /\ \A x, y \in Shown' : x.source = y.source /\ x.sequence = y.sequence => x = y
  <2>1. CASE kept' = kept
      BY <1>4, <2>1, SameMarks
  <2>2. CASE gate[g].at = "evaluated" /\ kept' = Written(gate[g].engine)
      BY <1>4, <2>2, WriteCovers
  <2> QED BY <1>1, <2>1, <2>2
<1>6. HolderMarks'
  <2> SUFFICES ASSUME NEW h \in Gates, gate'[h].at \in {"open", "evaluated"}
               PROVE  h # g /\ gate'[h] = gate[h] /\ lock' = h /\ kept' = kept
      BY DEF GateInv, HolderMarks, HolderOf, Watermarks, NotReplayed, Statements
  <2>1. h # g /\ gate'[h] = gate[h] /\ lock = h
      BY <1>2, <1>3 DEF GateInv, HolderMarks, HolderOf
  <2>2. gate[g].at # "evaluated"
      BY <2>1 DEF GateInv, HolderMarks, HolderOf
  <2> QED BY <1>1, <2>1, <2>2
<1> QED BY <1>3, <1>5, <1>6 DEF GateInv

\* A review is shown, or authorized: it rests on statements that the file covers.
LEMMA KeepReviewed ==
    ASSUME PolicyAssumption, GateInv, NEW g \in Gates,
           gate[g].at \in {"saved", "reviewed", "authorized"},
           NEW p, DOMAIN p = GateFields, p.decision = gate[g].decision,
           p.at \in {"saved", "reviewed", "authorized"}, gate' = [gate EXCEPT ![g] = p],
           UNCHANGED <<kept, lock>>, reviewed' \subseteq reviewed \cup gate[g].decision.proofs
    PROVE  GateInv'
<1> DEFINE xs == gate[g].decision.proofs
<1>1. /\ DOMAIN gate' = Gates /\ \A h \in Gates : DOMAIN gate'[h] = GateFields
      /\ gate'[g] = p /\ \A h \in Gates : h # g => gate'[h] = gate[h]
      /\ BandSupported'
    BY OneGate
<1>2. Shown' \subseteq Shown \cup xs
    BY <1>1, ShownGrows
<1>3. xs \subseteq Shown
    BY DEF Shown, Past
<1>4. HolderMarks'
  <2> SUFFICES ASSUME NEW h \in Gates PROVE HolderOf(kept, lock, h, gate[h])'
      BY DEF HolderMarks
  <2>1. CASE h = g
    <3>1. gate'[h].at \notin {"open", "evaluated"}
        BY <1>1, <2>1
    <3> QED BY <3>1 DEF HolderOf
  <2>2. CASE h # g
    <3>1. gate'[h] = gate[h] /\ HolderOf(kept, lock, h, gate[h])
        BY <1>1, <2>2 DEF GateInv, HolderMarks
    <3> QED BY <3>1 DEF HolderOf, Watermarks, NotReplayed, Statements
  <2> QED BY <2>1, <2>2
<1> QED BY <1>1, <1>2, <1>3, <1>4, SameMarks DEF GateInv

\* Every step of the gates keeps the invariant.
LEMMA GateStep ==
    ASSUME PolicyAssumption, GateInv, [GateNext]_gateVars PROVE GateInv'
<1>1. ASSUME NEW g \in Gates, NEW c \in Contexts, OpenGate(g, c) PROVE GateInv'
    BY <1>1, KeepOpenGate
<1>2. ASSUME NEW g \in Gates, NEW xs \in Statements, Evaluate(g, xs) PROVE GateInv'
    BY <1>2, KeepEvaluate
<1>3. ASSUME NEW g \in Gates, NEW i, NEW m, NEW simulated, Review(g, i, m, simulated)
      PROVE  GateInv'
  <2> DEFINE o == gate[g]
             entry == [message |-> m, output |-> Max({x \in simulated : x >= m.floor})]
             p == [o EXCEPT !.at = "reviewed", !.entry = entry]
  <2>1. /\ o.at = "saved" /\ gate' = [gate EXCEPT ![g] = p]
        /\ reviewed' = reviewed \cup o.decision.proofs /\ UNCHANGED <<kept, lock>>
      BY <1>3 DEF Review
  <2>2. DOMAIN o = GateFields
      BY DEF GateInv
  <2> HIDE DEF entry
  <2>3. DOMAIN p = GateFields /\ p.decision = o.decision /\ p.at = "reviewed"
      BY <2>2 DEF GateFields
  <2> HIDE DEF p
  <2> QED BY <2>1, <2>3, KeepReviewed
<1>4. ASSUME NEW g \in Gates, SaveMarks(g) PROVE GateInv'
    BY <1>4, KeepSaveMarks
<1>5. ASSUME NEW g \in Gates, StopGate(g) PROVE GateInv'
    BY <1>5, KeepStopGate
<1>6. ASSUME NEW g \in Gates, AuthorizeWire(g) PROVE GateInv'
  <2> DEFINE o == gate[g]
             p == [o EXCEPT !.at = "authorized"]
  <2>1. /\ o.at = "reviewed" /\ gate' = [gate EXCEPT ![g].at = "authorized"]
        /\ UNCHANGED <<kept, lock, reviewed>>
      BY <1>6 DEF AuthorizeWire
  <2>2. DOMAIN o = GateFields /\ DOMAIN gate = Gates
      BY DEF GateInv
  <2>3. gate' = [gate EXCEPT ![g] = p]
      BY <2>1, <2>2
  <2>4. DOMAIN p = GateFields /\ p.decision = o.decision /\ p.at = "authorized"
      BY <2>2 DEF GateFields
  <2> HIDE DEF p
  <2> QED BY <2>1, <2>3, <2>4, KeepReviewed
<1>7. ASSUME UNCHANGED <<kept, lock, gate, reviewed>> PROVE GateInv'
  <2>1. Shown' = Shown
      BY <1>7 DEF Shown, Past
  <2>2. HolderMarks'
      BY <1>7 DEF GateInv, HolderMarks, HolderOf, Watermarks, NotReplayed, Statements
  <2>3. BandSupported'
      BY <1>7 DEF GateInv, BandSupported, Deciding
  <2> QED BY <1>7, <2>1, <2>2, <2>3, SameMarks DEF GateInv
<1> QED
    BY <1>1, <1>2, <1>3, <1>4, <1>5, <1>6, <1>7 DEF GateNext, GateTick, gateVars

\* Whoever showed the reviews and whenever it stopped, enough groups support
\* every band, and no two reviews rest on two statements under one number.
\* (fair.rs: evaluate; model_store.rs: save; plan-gate.rs: "same-sequence
\* conflicting observation remains rejected across process restarts")
THEOREM BandsSound == ASSUME PolicyAssumption PROVE GateSpec => []BandIsSound
<1>1. GateInit => GateInv
  <2> SUFFICES ASSUME GateInit PROVE GateInv
      OBVIOUS
  <2>1. /\ kept.latest = Never /\ gate = [g \in Gates |-> NoReview] /\ reviewed = {}
      BY DEF GateInit
  <2>2. DOMAIN NoReview = GateFields /\ NoReview.decision = Off /\ NoReview.at = "idle"
      BY DEF NoReview, GateFields
  <2> HIDE DEF NoReview
  <2>3. Shown = {}
      BY <2>1, <2>2 DEF Shown, Past
  <2>4. MarksOK(kept.latest)
      BY <2>1 DEF MarksOK, Never
  <2>5. HolderMarks
      BY <2>1, <2>2 DEF HolderMarks, HolderOf
  <2>6. BandSupported
      BY <2>1, <2>2 DEF BandSupported, Deciding
  <2>7. DOMAIN gate = Gates /\ \A g \in Gates : DOMAIN gate[g] = GateFields
      BY <2>1, <2>2
  <2> QED BY <2>3, <2>4, <2>5, <2>6, <2>7 DEF GateInv
<1>2. GateInv /\ [GateNext]_gateVars => GateInv'
    BY GateStep
<1>3. GateInv => BandIsSound
    BY DEF GateInv, Shown, BandIsSound, NoEquivocationReviewed
<1> QED BY <1>1, <1>2, <1>3, PTL DEF GateSpec

-----------------------------------------------------------------------------
(* The sender and the order endpoints.  The invariant adds to the          *)
(* properties what the handler that holds the lock knows: the orders it    *)
(* will record are still open, a verdict it has read is the chain's, and   *)
(* an order it will send has a recorded attempt to spare.  The disk is the *)
(* ledger unless a write failed, and is then no older.                     *)

\* A healthy journal and its file agree, a poisoned one may lag behind it.
DiskIsLater ==
    /\ ~poisoned => disk = ledger
    /\ \A i \in Intent : Later(ledger[i], disk[i])

\* Every transmission is counted, in memory as on disk, within the limit.
AttemptsCover ==
    \A i \in Intent :
        /\ sent[i] <= ledger[i].attempts
        /\ ledger[i].attempts <= disk[i].attempts
        /\ disk[i].attempts <= MaxAttempts

\* What the handler is about to record is about open orders, and true.
AboutOpen ==
    /\ job.pc = "record" =>
          \A i \in job.ids :
              /\ ledger[i].phase \in Open
              /\ job.status[i] \in Final => job.status[i] = chain[i]
    /\ job.pc = "send" =>
          /\ ~poisoned
          /\ \A i \in job.sends \cup job.acks : ledger[i].phase \in Open
          /\ \A i \in job.sends : sent[i] < ledger[i].attempts

\* An order that only the API sends was not sent before its first send.
FirstSend ==
    \A i \in Intent \ Driven :
        /\ sent[i] <= 1
        /\ (job.pc \in {"query", "record"} /\ job.send /\ i \in job.ids) => sent[i] = 0
        /\ (job.pc = "send" /\ i \in job.sends) => sent[i] = 0

\* What holds of the two copies of the entries.
StoreInv ==
    /\ ledger \in Entries /\ disk \in Entries
    /\ Sound(disk)
    /\ DiskIsLater
    /\ VerdictIsFinal
    /\ AttemptsCover

SenderInv ==
    /\ SenderTypeOK
    /\ StoreInv
    /\ AboutOpen
    /\ FirstSend

\* What a step may do to the entries on disk.
Grows == \A i \in Intent : Later(disk[i], disk'[i])

-----------------------------------------------------------------------------
(* Journal calls.                                                          *)

\* The file after a write that stopped part of the way.
Partial(new, K) == [i \in Intent |-> IF i \in K THEN new[i] ELSE ledger[i]]

\* An update the sender may ask the journal for.
Justified(new) ==
    /\ new \in Entries
    /\ \A i \in Intent :
          /\ Later(ledger[i], new[i])
          /\ ledger[i].attempts <= new[i].attempts
          /\ new[i].attempts <= MaxAttempts
          /\ new[i].phase = "Failed" => chain[i] = "err"
          /\ new[i].phase \in {"Finalized", "Reconciled"} => chain[i] = "ok"
    /\ \A K \in SUBSET Intent : Sound(Partial(new, K))

\* An entry's attempts and phase; none and a new one have made no attempt.
LEMMA EntryFacts ==
    /\ Entries = [Intent -> Entry \cup {Absent}]
    /\ \A e \in Entry \cup {Absent} :
          /\ e.attempts \in Nat
          /\ e.phase = "Absent" => e = Absent
          /\ e.phase # "Absent" => e \in Entry /\ e.phase \in Phase
          /\ Later(e, e)
    /\ Absent.attempts = 0 /\ Fresh.attempts = 0 /\ Fresh \in Entry
    /\ Absent.phase = "Absent" /\ Fresh.phase = "Prepared"
    /\ Later(Absent, Fresh)
BY DEF Entries, Entry, Absent, Fresh, Phase, Later

\* A journal call that installs a justified update, or fails part of the way,
\* keeps what holds of the entries.
LEMMA StoreStep ==
    ASSUME SenderAssumption, StoreInv, sent \in [Intent -> Nat],
           NEW new, Justified(new), Commit(new) \/ CommitFails(new),
           UNCHANGED <<sent, chain>>
    PROVE  StoreInv' /\ Grows
<1>1. ~poisoned /\ disk = ledger
    BY DEF Commit, CommitFails, StoreInv, DiskIsLater
<1>2. CASE Commit(new)
  <2>1. ledger' = new /\ disk' = new /\ poisoned' = poisoned
      BY <1>2 DEF Commit
  <2>2. Partial(new, Intent) = new
      BY EntryFacts DEF Partial, Justified
  <2>3. Sound(disk')
      BY <2>1, <2>2 DEF Justified
  <2>4. DiskIsLater' /\ Grows
      BY <1>1, <2>1, EntryFacts DEF DiskIsLater, Justified, Grows
  <2>5. VerdictIsFinal'
      BY <2>1 DEF VerdictIsFinal, Justified
  <2>6. AttemptsCover'
    <3> SUFFICES ASSUME NEW i \in Intent
                 PROVE  /\ sent'[i] <= ledger'[i].attempts
                        /\ ledger'[i].attempts <= disk'[i].attempts
                        /\ disk'[i].attempts <= MaxAttempts
        BY DEF AttemptsCover
    <3>1. /\ sent[i] \in Nat /\ ledger[i].attempts \in Nat /\ new[i].attempts \in Nat
          /\ MaxAttempts \in Nat
        BY EntryFacts DEF StoreInv, Justified, SenderAssumption
    <3> QED BY <2>1, <3>1 DEF AttemptsCover, StoreInv, Justified
  <2> QED BY <2>1, <2>3, <2>4, <2>5, <2>6 DEF StoreInv, Justified
<1>3. CASE CommitFails(new)
  <2>1. PICK K \in SUBSET Intent :
             disk' = Partial(new, K) /\ poisoned' = TRUE /\ ledger' = ledger
    <3>1. PICK K \in SUBSET {i \in Intent : new[i] # ledger[i]} :
             disk' = [i \in Intent |-> IF i \in K THEN new[i] ELSE ledger[i]]
        BY <1>3 DEF CommitFails
    <3> QED BY <1>3, <3>1 DEF CommitFails, Partial
  <2>2. disk' \in Entries /\ Sound(disk')
      BY <2>1, EntryFacts DEF Justified, Partial, StoreInv
  <2>3. \A i \in Intent : disk'[i] = new[i] \/ disk'[i] = ledger[i]
      BY <2>1 DEF Partial
  <2>4. DiskIsLater' /\ Grows
      BY <1>1, <2>1, <2>3, EntryFacts DEF DiskIsLater, Justified, Grows, StoreInv
  <2>5. VerdictIsFinal'
      BY <2>1, <2>3 DEF VerdictIsFinal, Justified, StoreInv
  <2>6. AttemptsCover'
    <3> SUFFICES ASSUME NEW i \in Intent
                 PROVE  /\ sent'[i] <= ledger'[i].attempts
                        /\ ledger'[i].attempts <= disk'[i].attempts
                        /\ disk'[i].attempts <= MaxAttempts
        BY DEF AttemptsCover
    <3>1. /\ sent[i] \in Nat /\ ledger[i].attempts \in Nat /\ new[i].attempts \in Nat
          /\ disk[i].attempts \in Nat /\ MaxAttempts \in Nat
        BY EntryFacts DEF StoreInv, Justified, SenderAssumption
    <3> QED BY <1>1, <2>1, <2>3, <3>1 DEF AttemptsCover, StoreInv, Justified
  <2> QED BY <2>1, <2>2, <2>4, <2>5, <2>6 DEF StoreInv
<1> QED BY <1>2, <1>3

\* Advancing recorded orders is justified by what the chain says of them.
LEMMA MoveJustified ==
    ASSUME SenderAssumption, StoreInv, ~poisoned, NEW new \in Entries,
           \A i \in Intent :
              \/ new[i] = ledger[i]
              \/ /\ Allowed(ledger[i].phase, new[i].phase)
                 /\ ledger[i].attempts <= new[i].attempts
                 /\ new[i].attempts <= MaxAttempts
                 /\ new[i].phase = "Failed" => chain[i] = "err"
                 /\ new[i].phase \in {"Finalized", "Reconciled"} => chain[i] = "ok"
    PROVE  Justified(new)
<1>1. disk = ledger /\ ledger \in Entries /\ Sound(ledger)
    BY DEF StoreInv, DiskIsLater
<1>2. ASSUME NEW K \in SUBSET Intent PROVE Sound(Partial(new, K))
  <2>1. Partial(new, K) \in Entries
      BY <1>1, EntryFacts DEF Partial
  <2>2. \A i \in Intent : \/ Partial(new, K)[i] = ledger[i]
                          \/ Allowed(ledger[i].phase, Partial(new, K)[i].phase)
      BY DEF Partial
  <2> QED BY <1>1, <2>1, <2>2, MoveSound
<1>3. ASSUME NEW i \in Intent
      PROVE  /\ Later(ledger[i], new[i])
             /\ ledger[i].attempts <= new[i].attempts
             /\ new[i].attempts <= MaxAttempts
             /\ new[i].phase = "Failed" => chain[i] = "err"
             /\ new[i].phase \in {"Finalized", "Reconciled"} => chain[i] = "ok"
  <2>1. CASE new[i] = ledger[i]
      BY <1>1, <2>1, EntryFacts DEF StoreInv, VerdictIsFinal, AttemptsCover
  <2>2. CASE new[i] # ledger[i]
      BY <2>2 DEF Later
  <2> QED BY <2>1, <2>2
<1> QED BY <1>2, <1>3 DEF Justified

\* An order that the journal accepts fits its entries.
LEMMA InsertAcceptable ==
    ASSUME NEW E \in Entries, NEW i \in Intent, i \notin Recorded(E), Insertable(E, i)
    PROVE  Acceptable(E, {i}) /\ Admitted(E, {i}) = [E EXCEPT ![i] = Fresh]
<1>1. E[i] = Absent
    BY EntryFacts DEF Recorded
<1>2. Others(E, {i}, i) = PhaseOf(E)
    BY DEF Others, PhaseOf
<1>3. Cardinality(Recorded(E)) + Cardinality({i}) <= Capacity
  <2>1. Cardinality({i}) = 1
      BY FS_Singleton
  <2>2. Cardinality(Recorded(E)) \in Nat
      BY PhasesOf
  <2> QED BY <2>1, <2>2, LifecycleAssumption DEF Insertable
<1>4. \A j \in Intent : E[j].phase \in Holding => j \in Recorded(E)
    BY PhaseFacts DEF Recorded, Holding
<1>5. Acceptable(E, {i})
    BY <1>1, <1>2, <1>3, <1>4 DEF Acceptable, Insertable
<1>6. Admitted(E, {i}) = [E EXCEPT ![i] = Fresh]
    BY EntryFacts DEF Admitted
<1> QED BY <1>5, <1>6

\* submit records a new order only where the journal's rules admit it.
LEMMA AdmitJustified ==
    ASSUME SenderAssumption, StoreInv, ~poisoned, NEW i \in Intent,
           i \notin Recorded(ledger), Insertable(ledger, i)
    PROVE  Justified([ledger EXCEPT ![i] = Fresh])
<1> DEFINE new == [ledger EXCEPT ![i] = Fresh]
<1>1. disk = ledger /\ ledger \in Entries /\ Sound(ledger) /\ ledger[i] = Absent
    BY EntryFacts DEF StoreInv, DiskIsLater, Recorded
<1>2. Acceptable(ledger, {i}) /\ new = Admitted(ledger, {i})
    BY <1>1, InsertAcceptable
<1>3. new \in Entries
    BY <1>1, EntryFacts
<1>4. ASSUME NEW K \in SUBSET Intent PROVE Sound(Partial(new, K))
  <2>1. Partial(new, K) = Admitted(ledger, K \cap {i})
      BY <1>1, EntryFacts DEF Partial, Admitted
  <2>2. K \cap {i} \in SUBSET {i} /\ {i} \in SUBSET Intent
      OBVIOUS
  <2> QED BY <1>1, <1>2, <2>1, <2>2, AdmitSound
<1>5. ASSUME NEW j \in Intent
      PROVE  /\ Later(ledger[j], new[j])
             /\ ledger[j].attempts <= new[j].attempts
             /\ new[j].attempts <= MaxAttempts
             /\ new[j].phase = "Failed" => chain[j] = "err"
             /\ new[j].phase \in {"Finalized", "Reconciled"} => chain[j] = "ok"
  <2>1. CASE j = i
    <3>1. new[j] = Fresh
        BY <1>1, <2>1, EntryFacts
    <3> QED BY <1>1, <2>1, <3>1, EntryFacts DEF SenderAssumption
  <2>2. CASE j # i
    <3>1. new[j] = ledger[j]
        BY <2>2
    <3> QED BY <1>1, <3>1, EntryFacts DEF StoreInv, VerdictIsFinal, AttemptsCover
  <2> QED BY <2>1, <2>2
<1> QED BY <1>3, <1>4, <1>5 DEF Justified

-----------------------------------------------------------------------------
(* Every step keeps the invariant, and the disk only grows.                *)

Kept == SenderInv' /\ Grows

\* A step that leaves entries and transmissions alone keeps what they say.
LEMMA StoreSame ==
    ASSUME StoreInv, UNCHANGED <<journal, sent>>,
           \A i \in Intent : chain[i] \in Final => chain'[i] = chain[i]
    PROVE  StoreInv' /\ Grows
<1>1. \A i \in Intent : Later(disk[i], disk'[i])
    BY EntryFacts DEF journal, StoreInv
<1>2. ledger' = ledger /\ disk' = disk /\ poisoned' = poisoned /\ sent' = sent
    BY DEF journal
<1>3. VerdictIsFinal'
    BY <1>2 DEF StoreInv, VerdictIsFinal, Final
<1> QED BY <1>1, <1>2, <1>3 DEF StoreInv, Grows, DiskIsLater, AttemptsCover

\* A handler that begins knows nothing yet.
LEMMA Begun ==
    ASSUME NEW ids \in SUBSET Intent, NEW send \in BOOLEAN, Begin(ids, send)
    PROVE  /\ job' \in Job /\ job'.pc = "query"
           /\ job'.ids = ids /\ job'.send = send
BY DEF Begin, Idle, Job, NoStatus, Status

\* An idle handler carries nothing and sends nothing.
LEMMA IdleFacts ==
    Idle \in Job /\ Idle.pc = "idle" /\ Idle.send = FALSE
BY DEF Idle, Job, NoStatus, Status

\* A submitted order that is on record is observed; another one is authorized first.
LEMMA KeepReceive ==
    ASSUME SenderAssumption, SenderInv, NEW w \in Request, NEW i \in Intent, ReceiveSubmit(w, i)
    PROVE  Kept
<1>1. UNCHANGED <<journal, sent, chain, height>>
    BY DEF ReceiveSubmit, net
<1>2. StoreInv' /\ Grows
    BY <1>1, StoreSame DEF SenderInv
<1>3. CASE i \in Recorded(ledger)
  <2>1. Begin({i}, FALSE) /\ UNCHANGED asked
      BY <1>3 DEF ReceiveSubmit
  <2>2. /\ job' \in Job /\ job'.pc = "query" /\ job'.send = FALSE
      BY <2>1, Begun
  <2> QED BY <1>1, <1>2, <2>1, <2>2
          DEF Kept, SenderInv, SenderTypeOK, AboutOpen, FirstSend, StoreInv, journal
<1>4. CASE i \notin Recorded(ledger)
    BY <1>1, <1>2, <1>4
       DEF ReceiveSubmit, Kept, SenderInv, SenderTypeOK, AboutOpen, FirstSend, StoreInv, journal
<1> QED BY <1>3, <1>4

\* An order whose quote, fence or candidate is gone leaves nothing behind.
LEMMA KeepReject ==
    ASSUME SenderAssumption, SenderInv, NEW w \in Request, RejectSubmit(w)
    PROVE  Kept
<1>1. UNCHANGED <<journal, sent, chain, height, job>>
      /\ asked' = [asked EXCEPT ![w] = NoIntent]
    BY DEF RejectSubmit, net
<1>2. StoreInv' /\ Grows
    BY <1>1, StoreSame DEF SenderInv
<1> QED BY <1>1, <1>2 DEF Kept, SenderInv, SenderTypeOK, AboutOpen, FirstSend, StoreInv, journal

\* submit records a new order, under the lock and by the journal's rules, before
\* it is stepped.
LEMMA KeepAdmit ==
    ASSUME SenderAssumption, SenderInv, NEW w \in Request, AdmitSubmit(w)
    PROVE  Kept
<1> DEFINE i == asked[w]
           new == [ledger EXCEPT ![i] = Fresh]
<1>1. /\ i \in Intent /\ job.pc = "idle"
      /\ asked' = [asked EXCEPT ![w] = NoIntent]
      /\ UNCHANGED <<sent, chain, height>>
    BY DEF AdmitSubmit, net, SenderInv, SenderTypeOK
<1>2. asked' \in [Request -> Intent \cup {NoIntent}]
    BY <1>1 DEF SenderInv, SenderTypeOK
<1>3. CASE i \in Recorded(ledger) /\ Begin({i}, FALSE) /\ UNCHANGED journal
  <2>1. StoreInv' /\ Grows
      BY <1>1, <1>3, StoreSame DEF SenderInv
  <2>2. job' \in Job /\ job'.pc = "query" /\ job'.send = FALSE
      BY <1>1, <1>3, Begun
  <2> QED BY <1>1, <1>2, <1>3, <2>1, <2>2
          DEF Kept, SenderInv, SenderTypeOK, AboutOpen, FirstSend, StoreInv, journal
<1>4. CASE UNCHANGED <<journal, job>>
  <2>1. StoreInv' /\ Grows
      BY <1>1, <1>4, StoreSame DEF SenderInv
  <2> QED BY <1>1, <1>2, <1>4, <2>1
          DEF Kept, SenderInv, SenderTypeOK, AboutOpen, FirstSend, StoreInv, journal
<1>5. CASE /\ i \notin Recorded(ledger) /\ Insertable(ledger, i)
           /\ \/ Commit(new) /\ Begin({i}, TRUE)
              \/ CommitFails(new) /\ UNCHANGED job
  <2>1. ~poisoned
      BY <1>5 DEF Commit, CommitFails
  <2>2. Justified(new)
      BY <1>1, <1>5, <2>1, AdmitJustified DEF SenderInv
  <2>3. StoreInv' /\ Grows
      BY <1>1, <1>5, <2>2, StoreStep DEF SenderInv, SenderTypeOK
  <2>4. sent[i] = 0
    <3>1. ledger[i] = Absent
        BY <1>1, <1>5, EntryFacts DEF SenderInv, StoreInv, Recorded
    <3> QED BY <1>1, <3>1, EntryFacts DEF SenderInv, SenderTypeOK, StoreInv, AttemptsCover
  <2>5. poisoned' \in BOOLEAN
      BY <1>5 DEF Commit, CommitFails, SenderInv, SenderTypeOK
  <2>6. CASE Begin({i}, TRUE)
    <3>1. job' \in Job /\ job'.pc = "query" /\ job'.ids = {i}
        BY <1>1, <2>6, Begun
    <3> QED BY <1>1, <1>2, <2>3, <2>4, <2>5, <3>1
            DEF Kept, SenderInv, SenderTypeOK, AboutOpen, FirstSend, StoreInv, Entries
  <2>7. CASE UNCHANGED job
      BY <1>1, <1>2, <2>3, <2>5, <2>7
         DEF Kept, SenderInv, SenderTypeOK, AboutOpen, FirstSend, StoreInv, Entries
  <2> QED BY <1>5, <2>6, <2>7
<1> QED BY <1>1, <1>3, <1>4, <1>5 DEF AdmitSubmit

\* orders and a repeated submit only ask about what is recorded.
LEMMA KeepObserve ==
    ASSUME SenderAssumption, SenderInv, NEW ids \in SUBSET Intent, ObserveOrders(ids)
    PROVE  Kept
<1>1. UNCHANGED <<journal, sent, chain, height, asked>> /\ Begin(ids, FALSE)
    BY DEF ObserveOrders, net
<1>2. StoreInv' /\ Grows
    BY <1>1, StoreSame DEF SenderInv
<1>3. job' \in Job /\ job'.pc = "query" /\ job'.send = FALSE
    BY <1>1, Begun
<1> QED BY <1>1, <1>2, <1>3 DEF Kept, SenderInv, SenderTypeOK, AboutOpen, FirstSend, StoreInv, journal

\* Opening the file makes its entries those of the ledger; a new order may
\* have been added to them.
LEMMA StoreOpened ==
    ASSUME SenderAssumption, StoreInv, sent \in [Intent -> Nat],
           UNCHANGED <<sent, chain>>, ledger' = disk', poisoned' = FALSE,
           \/ disk' = disk
           \/ \E i \in Intent : /\ i \notin Recorded(disk) /\ Insertable(disk, i)
                                /\ disk' = [disk EXCEPT ![i] = Fresh]
    PROVE  StoreInv' /\ Grows
<1>1. /\ disk \in Entries /\ Sound(disk)
      /\ \A i \in Intent : /\ sent[i] \in Nat /\ disk[i].attempts \in Nat
                           /\ ledger[i].attempts \in Nat
                           /\ sent[i] <= disk[i].attempts
    BY EntryFacts DEF StoreInv, AttemptsCover
<1>2. CASE disk' = disk
    BY <1>1, <1>2, EntryFacts
       DEF StoreInv, DiskIsLater, AttemptsCover, VerdictIsFinal, Grows
<1>3. ASSUME NEW i \in Intent, i \notin Recorded(disk), Insertable(disk, i),
             disk' = [disk EXCEPT ![i] = Fresh]
      PROVE  StoreInv' /\ Grows
  <2>1. disk[i] = Absent
      BY <1>1, <1>3, EntryFacts DEF Recorded
  <2>2. disk' \in Entries /\ Sound(disk')
    <3>1. Acceptable(disk, {i}) /\ disk' = Admitted(disk, {i})
        BY <1>1, <1>3, InsertAcceptable
    <3>2. {i} \in SUBSET Intent /\ {i} \in SUBSET {i}
        OBVIOUS
    <3> QED BY <1>1, <3>1, <3>2, AdmitSound
  <2>3. \A j \in Intent : disk'[j] = IF j = i THEN Fresh ELSE disk[j]
      BY <1>1, <1>3, EntryFacts
  <2>4. Grows
      BY <1>1, <2>1, <2>3, EntryFacts DEF Grows
  <2>5. DiskIsLater' /\ VerdictIsFinal'
      BY <1>1, <2>2, <2>3, EntryFacts DEF StoreInv, DiskIsLater, VerdictIsFinal
  <2>6. AttemptsCover'
    <3> SUFFICES ASSUME NEW j \in Intent
                 PROVE  /\ sent'[j] <= ledger'[j].attempts
                        /\ ledger'[j].attempts <= disk'[j].attempts
                        /\ disk'[j].attempts <= MaxAttempts
        BY DEF AttemptsCover
    <3> QED BY <1>1, <2>1, <2>3, EntryFacts DEF StoreInv, AttemptsCover
  <2> QED BY <2>2, <2>4, <2>5, <2>6 DEF StoreInv
<1> QED BY <1>2, <1>3

\* sender-step, alone with the journal, records its order if it is new and steps it.
LEMMA KeepDriver ==
    ASSUME SenderAssumption, SenderInv, NEW i \in Driven, DriverStep(i)
    PROVE  Kept
<1>1. /\ i \in Intent /\ UNCHANGED <<sent, chain, height>> /\ poisoned' = FALSE
      /\ asked' = [w \in Request |-> NoIntent] /\ ledger' = disk'
    BY DEF DriverStep, net, SenderAssumption
<1>2. \/ disk' = disk
      \/ /\ i \notin Recorded(disk) /\ Insertable(disk, i)
         /\ disk' = [disk EXCEPT ![i] = Fresh]
    BY DEF DriverStep
<1>3. StoreInv' /\ Grows
    BY <1>1, <1>2, StoreOpened DEF SenderInv, SenderTypeOK
<1>4. /\ job' \in Job
      /\ \/ job'.pc = "query" /\ job'.ids = {i}
         \/ job'.pc = "idle"
  <2>1. Begin({i}, TRUE) \/ job' = Idle
      BY DEF DriverStep
  <2> QED BY <1>1, <2>1, Begun, IdleFacts
<1>5. asked' \in [Request -> Intent \cup {NoIntent}]
    BY <1>1
<1> QED BY <1>1, <1>3, <1>4, <1>5
        DEF Kept, SenderInv, SenderTypeOK, AboutOpen, FirstSend, StoreInv, Entries

\* A restart reads the entries back from disk; transmissions are covered by them.
LEMMA KeepRestart ==
    ASSUME SenderAssumption, SenderInv, Restart
    PROVE  Kept
<1>1. /\ UNCHANGED <<disk, sent, chain, height>> /\ poisoned' = FALSE
      /\ asked' = [w \in Request |-> NoIntent] /\ ledger' = disk' /\ job' = Idle
    BY DEF Restart, net
<1>2. StoreInv' /\ Grows
    BY <1>1, StoreOpened DEF SenderInv, SenderTypeOK
<1>3. asked' \in [Request -> Intent \cup {NoIntent}]
    BY <1>1
<1> QED BY <1>1, <1>2, <1>3, IdleFacts
        DEF Kept, SenderInv, SenderTypeOK, AboutOpen, FirstSend, StoreInv, Entries

\* What the node answers about a status is the chain's, or says nothing.
LEMMA KeepQuery ==
    ASSUME SenderAssumption, SenderInv, QueryEnds \/ QueryStatuses
    PROVE  Kept
<1>1. UNCHANGED <<journal, sent, chain, height, asked>>
    BY DEF QueryEnds, QueryStatuses, net
<1>2. StoreInv' /\ Grows
    BY <1>1, StoreSame DEF SenderInv
<1>3. CASE QueryEnds
    BY <1>1, <1>2, <1>3, IdleFacts
       DEF QueryEnds, Kept, SenderInv, SenderTypeOK, AboutOpen, FirstSend, StoreInv, journal
<1>4. CASE QueryStatuses
  <2> DEFINE act == Active(job.ids)
  <2>1. PICK status \in [act -> Status] :
           /\ \A i \in act : status[i] \in Visible(i)
           /\ job' = [job EXCEPT !.pc = "record", !.ids = act,
                        !.status = [i \in Intent |->
                                      IF i \in act THEN status[i] ELSE "null"]]
      BY <1>4 DEF QueryStatuses
  <2>2. job \in Job /\ job.pc = "query" /\ act \subseteq job.ids /\ act \in SUBSET Intent
      BY <1>4 DEF QueryStatuses, SenderInv, SenderTypeOK, Active, Job
  <2>3. /\ job'.pc = "record" /\ job'.ids = act /\ job'.send = job.send
        /\ \A i \in act : job'.status[i] = status[i]
        /\ job' \in Job
      BY <2>1, <2>2 DEF Job, Status
  <2>4. \A i \in act : ledger[i].phase \in Open
                         /\ (status[i] \in Final => status[i] = chain[i])
      BY <2>1 DEF Active, Visible, Final
  <2>5. AboutOpen'
      BY <1>1, <2>3, <2>4 DEF AboutOpen, journal
  <2>6. FirstSend'
      BY <1>1, <2>2, <2>3 DEF FirstSend, SenderInv
  <2> QED BY <1>1, <1>2, <2>3, <2>5, <2>6 DEF Kept, SenderInv, SenderTypeOK, StoreInv, Entries, journal
<1> QED BY <1>3, <1>4

\* What the statuses of a batch say is justified by the chain.
LEMMA ObservedJustified ==
    ASSUME SenderAssumption, SenderInv, job.pc = "record", ~poisoned, NEW h \in Nat,
           NEW due, due = {i \in job.ids : Due(i, h)}
    PROVE  Justified(Observed(due))
<1> DEFINE new == Observed(due)
<1>1. /\ ledger \in Entries /\ job \in Job /\ job.ids \subseteq Intent
      /\ \A i \in Intent : ledger[i].attempts \in Nat
      /\ MaxAttempts \in Nat
    BY EntryFacts DEF SenderInv, StoreInv, SenderTypeOK, Job, SenderAssumption
<1>2. ASSUME NEW i \in job.ids
      PROVE  /\ new[i].phase = NextPhase(i)
             /\ new[i].attempts = ledger[i].attempts + (IF i \in due THEN 1 ELSE 0)
             /\ NextPhase(i) \in {"Finalized", "Failed", "Submitted", "Unknown"}
             /\ NextPhase(i) = "Finalized" => chain[i] = "ok"
             /\ NextPhase(i) = "Failed" => chain[i] = "err"
             /\ ledger[i].phase \in Open
    BY <1>1 DEF Observed, NextPhase, SenderInv, AboutOpen, Final
<1>3. \A i \in Intent \ job.ids : new[i] = ledger[i]
    BY DEF Observed
<1>4. new \in Entries
  <2>1. ASSUME NEW i \in Intent PROVE new[i] \in Entry \cup {Absent}
    <3>1. CASE i \in job.ids
      <4>1. new[i] = [phase |-> NextPhase(i),
                      attempts |-> ledger[i].attempts + (IF i \in due THEN 1 ELSE 0)]
          BY <3>1 DEF Observed
      <4> QED BY <1>1, <1>2, <3>1, <4>1 DEF Entry, Phase
    <3>2. CASE i \notin job.ids
        BY <1>1, <1>3, <3>2, EntryFacts
    <3> QED BY <3>1, <3>2
  <2> QED BY <2>1, EntryFacts DEF Observed
<1>5. ASSUME NEW i \in Intent
      PROVE  \/ new[i] = ledger[i]
             \/ /\ Allowed(ledger[i].phase, new[i].phase)
                /\ ledger[i].attempts <= new[i].attempts
                /\ new[i].attempts <= MaxAttempts
                /\ new[i].phase = "Failed" => chain[i] = "err"
                /\ new[i].phase \in {"Finalized", "Reconciled"} => chain[i] = "ok"
  <2>1. CASE i \in job.ids
    <3>1. ledger[i].attempts <= MaxAttempts
      <4>1. /\ ledger[i].attempts <= disk[i].attempts
            /\ disk[i].attempts <= MaxAttempts /\ disk[i].attempts \in Nat
          BY EntryFacts DEF SenderInv, StoreInv, AttemptsCover
      <4> QED BY <1>1, <4>1
    <3>2. i \in due => ledger[i].attempts < MaxAttempts
        BY DEF Due
    <3>3. new[i].attempts <= MaxAttempts /\ ledger[i].attempts <= new[i].attempts
        BY <1>1, <1>2, <2>1, <3>1, <3>2
    <3> QED BY <1>2, <2>1, <3>3 DEF Allowed
  <2>2. CASE i \notin job.ids
      BY <1>3, <2>2
  <2> QED BY <2>1, <2>2
<1> HIDE DEF new
<1>6. Justified(new)
    BY <1>4, <1>5, MoveJustified DEF SenderInv
<1> QED BY <1>6 DEF new

\* progress_batch records verdicts and the attempts it is about to make, in one
\* batch, before it sends.
LEMMA KeepRecord ==
    ASSUME SenderAssumption, SenderInv, RecordStatuses
    PROVE  Kept
<1>1. job.pc = "record" /\ UNCHANGED <<sent, chain, height, asked>>
    BY DEF RecordStatuses, net
<1>2. PICK h \in 0 .. height :
        LET due == {i \in job.ids : Due(i, h)}
            new == Observed(due)
        IN  \/ /\ IF new = ledger THEN UNCHANGED journal ELSE Commit(new)
               /\ job' = IF due = {} THEN Idle
                         ELSE [Idle EXCEPT !.pc = "send", !.sends = due]
            \/ new # ledger /\ CommitFails(new) /\ job' = Idle
            \/ new # ledger /\ WriteRefused /\ job' = Idle
    BY DEF RecordStatuses
<1> DEFINE due == {i \in job.ids : Due(i, h)}
           new == Observed(due)
<1>3. h \in Nat /\ job \in Job /\ job.ids \subseteq Intent /\ due \in SUBSET Intent
    BY DEF SenderInv, SenderTypeOK, Job
<1>4. ASSUME UNCHANGED journal, job' = Idle PROVE Kept
  <2>1. StoreInv' /\ Grows
      BY <1>1, <1>4, StoreSame DEF SenderInv
  <2> QED BY <1>1, <1>4, <2>1, IdleFacts
          DEF Kept, SenderInv, SenderTypeOK, AboutOpen, FirstSend, StoreInv, Entries, journal
<1>5. ASSUME Commit(new) \/ CommitFails(new)
      PROVE  /\ StoreInv' /\ Grows /\ poisoned' \in BOOLEAN
  <2>1. ~poisoned
      BY <1>5 DEF Commit, CommitFails
  <2>2. Justified(new)
      BY <1>1, <1>3, <2>1, ObservedJustified
  <2> QED BY <1>1, <1>5, <2>2, StoreStep DEF SenderInv, SenderTypeOK, Commit, CommitFails
<1>6. CASE new # ledger /\ CommitFails(new) /\ job' = Idle
    BY <1>1, <1>5, <1>6, IdleFacts
       DEF Kept, SenderInv, SenderTypeOK, AboutOpen, FirstSend, StoreInv, Entries
<1>7. CASE WriteRefused /\ job' = Idle
    BY <1>4, <1>7 DEF WriteRefused
<1>8. CASE /\ IF new = ledger THEN UNCHANGED journal ELSE Commit(new)
           /\ job' = IF due = {} THEN Idle
                     ELSE [Idle EXCEPT !.pc = "send", !.sends = due]
  <2>1. ASSUME NEW i \in due
        PROVE  /\ new[i].attempts = ledger[i].attempts + 1
               /\ new[i].phase = "Unknown" /\ job.send /\ i \in job.ids
               /\ ledger[i].attempts \in Nat
    <3>1. i \in Intent /\ job.status[i] = "null" /\ job.send /\ i \in job.ids
        BY <1>3 DEF Due
    <3>2. ledger[i].attempts \in Nat
        BY <3>1, EntryFacts DEF SenderInv, StoreInv
    <3> QED BY <3>1, <3>2 DEF Observed, NextPhase
  <2>2. CASE due = {} /\ new = ledger
      BY <1>4, <1>8, <2>2
  <2>3. CASE due = {} /\ new # ledger
      BY <1>1, <1>5, <1>8, <2>3, IdleFacts
         DEF Kept, SenderInv, SenderTypeOK, AboutOpen, FirstSend, StoreInv, Entries
  <2>4. CASE due # {}
    <3>1. new # ledger
      <4>1. PICK i \in due : TRUE
          BY <2>4
      <4>2. new[i].attempts # ledger[i].attempts
          BY <2>1
      <4> QED BY <4>2
    <3>2. /\ ledger' = new /\ poisoned' = FALSE
          /\ job' = [Idle EXCEPT !.pc = "send", !.sends = due]
        BY <1>8, <2>4, <3>1 DEF Commit, SenderInv, SenderTypeOK
    <3>3. StoreInv' /\ Grows
        BY <1>5, <1>8, <3>1
    <3>4. /\ job' \in Job /\ job'.pc = "send" /\ job'.sends = due /\ job'.acks = {}
        BY <1>3, <3>2 DEF Idle, Job, NoStatus, Status
    <3>5. AboutOpen'
      <4>1. \A i \in due : sent[i] <= ledger[i].attempts /\ sent[i] \in Nat
          BY <1>3 DEF SenderInv, StoreInv, AttemptsCover, SenderTypeOK
      <4>2. \A i \in due : sent'[i] < ledger'[i].attempts /\ ledger'[i].phase \in Open
          BY <1>1, <2>1, <3>2, <4>1 DEF Open
      <4> QED BY <3>2, <3>4, <4>2 DEF AboutOpen
    <3>6. FirstSend'
      <4>1. \A i \in due \ Driven : sent[i] = 0
          BY <1>1, <1>3, <2>1 DEF SenderInv, FirstSend
      <4> QED BY <1>1, <3>4, <4>1 DEF SenderInv, FirstSend
    <3> QED BY <1>1, <3>2, <3>3, <3>4, <3>5, <3>6
            DEF Kept, SenderInv, SenderTypeOK, StoreInv, Entries
  <2> QED BY <2>2, <2>3, <2>4
<1> QED BY <1>2, <1>6, <1>7, <1>8

\* A transmission is covered by the attempt recorded before it.
LEMMA KeepTransmit ==
    ASSUME SenderAssumption, SenderInv, NEW i \in Intent, Transmit(i)
    PROVE  Kept
<1>1. PICK acked \in BOOLEAN :
        job' = [job EXCEPT !.sends = @ \ {i}, !.acks = IF acked THEN @ \cup {i} ELSE @]
    BY DEF Transmit
<1>2. /\ job.pc = "send" /\ i \in job.sends /\ sent' = [sent EXCEPT ![i] = @ + 1]
      /\ UNCHANGED <<ledger, disk, poisoned, asked, height>>
      /\ \/ chain' = chain
         \/ chain[i] = "none" /\ chain' = [chain EXCEPT ![i] = "inflight"]
    BY DEF Transmit, journal
<1>3. /\ job \in Job /\ sent \in [Intent -> Nat] /\ chain \in [Intent -> ChainState]
      /\ ledger \in Entries /\ disk \in Entries
    BY DEF SenderInv, SenderTypeOK, StoreInv
<1>4. /\ job' \in Job /\ job'.pc = "send" /\ job'.sends = job.sends \ {i}
      /\ job'.acks \subseteq job.acks \cup {i}
    BY <1>1, <1>2, <1>3 DEF Job
<1>5. /\ sent' \in [Intent -> Nat] /\ chain' \in [Intent -> ChainState]
      /\ \A j \in Intent : /\ sent'[j] = IF j = i THEN sent[j] + 1 ELSE sent[j]
                           /\ chain[j] \in Final => chain'[j] = chain[j]
    BY <1>2, <1>3 DEF ChainState, Final
<1>6. sent[i] < ledger[i].attempts /\ ~poisoned /\ ledger[i].phase \in Open
    BY <1>2 DEF SenderInv, AboutOpen
<1>7. StoreInv' /\ Grows
  <2>1. Grows
      BY <1>2, <1>3, EntryFacts DEF Grows
  <2>2. VerdictIsFinal'
      BY <1>2, <1>5 DEF SenderInv, StoreInv, VerdictIsFinal, Final
  <2>3. AttemptsCover'
    <3> SUFFICES ASSUME NEW j \in Intent
                 PROVE  /\ sent'[j] <= ledger'[j].attempts
                        /\ ledger'[j].attempts <= disk'[j].attempts
                        /\ disk'[j].attempts <= MaxAttempts
        BY DEF AttemptsCover
    <3>1. ledger[j].attempts \in Nat /\ sent[j] \in Nat
        BY <1>3, EntryFacts
    <3> QED BY <1>2, <1>5, <1>6, <3>1 DEF SenderInv, StoreInv, AttemptsCover
  <2> QED BY <1>2, <2>1, <2>2, <2>3 DEF SenderInv, StoreInv, DiskIsLater
<1>8. AboutOpen'
    BY <1>2, <1>4, <1>5, <1>6 DEF SenderInv, AboutOpen, Job
<1>9. FirstSend'
    BY <1>2, <1>3, <1>4, <1>5 DEF SenderInv, FirstSend, Job
<1> QED BY <1>2, <1>4, <1>5, <1>7, <1>8, <1>9 DEF Kept, SenderInv, SenderTypeOK, StoreInv, Entries

\* A transmission that the node accepted is recorded, which is no verdict.
LEMMA KeepAcks ==
    ASSUME SenderAssumption, SenderInv, RecordAcks
    PROVE  Kept
<1> DEFINE new == [i \in Intent |->
                     IF i \in job.acks
                     THEN [phase |-> "Submitted", attempts |-> ledger[i].attempts]
                     ELSE ledger[i]]
<1>1. /\ job.pc = "send" /\ job' = Idle /\ UNCHANGED <<sent, chain, height, asked>>
      /\ UNCHANGED journal \/ Commit(new) \/ CommitFails(new)
    BY DEF RecordAcks, WriteRefused, net
<1>2. CASE UNCHANGED journal
  <2>1. StoreInv' /\ Grows
      BY <1>1, <1>2, StoreSame DEF SenderInv
  <2> QED BY <1>1, <1>2, <2>1, IdleFacts
          DEF Kept, SenderInv, SenderTypeOK, AboutOpen, FirstSend, StoreInv, Entries, journal
<1>3. CASE Commit(new) \/ CommitFails(new)
  <2>1. ~poisoned /\ ledger \in Entries /\ job \in Job
      BY <1>3 DEF Commit, CommitFails, SenderInv, StoreInv, SenderTypeOK
  <2>2. ASSUME NEW i \in Intent
        PROVE  /\ new[i] \in Entry \cup {Absent}
               /\ \/ new[i] = ledger[i]
                  \/ /\ Allowed(ledger[i].phase, new[i].phase)
                     /\ ledger[i].attempts <= new[i].attempts
                     /\ new[i].attempts <= MaxAttempts
                     /\ new[i].phase = "Failed" => chain[i] = "err"
                     /\ new[i].phase \in {"Finalized", "Reconciled"} => chain[i] = "ok"
    <3>1. /\ ledger[i].attempts \in Nat /\ ledger[i].attempts <= disk[i].attempts
          /\ disk[i].attempts <= MaxAttempts /\ disk[i].attempts \in Nat
          /\ MaxAttempts \in Nat
        BY EntryFacts DEF SenderInv, StoreInv, AttemptsCover, SenderAssumption
    <3>2. CASE i \in job.acks
      <4>1. new[i] = [phase |-> "Submitted", attempts |-> ledger[i].attempts]
          BY <3>2
      <4>2. ledger[i].phase \in Open
          BY <1>1, <3>2 DEF SenderInv, AboutOpen
      <4> QED BY <3>1, <4>1, <4>2 DEF Allowed, Entry, Phase
    <3>3. CASE i \notin job.acks
        BY <2>1, <3>3, EntryFacts
    <3> QED BY <3>2, <3>3
  <2>3. new \in Entries
      BY <2>2, EntryFacts
  <2> HIDE DEF new
  <2>4. Justified(new)
      BY <2>1, <2>2, <2>3, MoveJustified DEF SenderInv
  <2>5. StoreInv' /\ Grows /\ poisoned' \in BOOLEAN
      BY <1>1, <1>3, <2>4, StoreStep DEF SenderInv, SenderTypeOK, Commit, CommitFails
  <2> QED BY <1>1, <2>5, IdleFacts
          DEF Kept, SenderInv, SenderTypeOK, AboutOpen, FirstSend, StoreInv, Entries
<1> QED BY <1>1, <1>2, <1>3

\* Only an order that the chain finalized is reconciled.
LEMMA KeepReconcile ==
    ASSUME SenderAssumption, SenderInv, NEW i \in Intent, Reconcile(i)
    PROVE  Kept
<1> DEFINE new == [ledger EXCEPT ![i].phase = "Reconciled"]
<1>1. /\ job.pc = "idle" /\ UNCHANGED <<job, sent, chain, height, asked>>
      /\ ledger[i].phase = "Finalized" /\ chain[i] = "ok"
      /\ Commit(new) \/ CommitFails(new)
    BY DEF Reconcile, net
<1>2. ~poisoned /\ ledger \in Entries
    BY <1>1 DEF Commit, CommitFails, SenderInv, StoreInv
<1>3. /\ ledger[i] \in Entry /\ new[i] = [phase |-> "Reconciled", attempts |-> ledger[i].attempts]
      /\ \A j \in Intent \ {i} : new[j] = ledger[j]
  <2>1. ledger[i] \in Entry
      BY <1>1, <1>2, EntryFacts
  <2> QED BY <1>2, <2>1, EntryFacts DEF Entry
<1>4. new \in Entries
    BY <1>2, <1>3, EntryFacts DEF Entry, Phase
<1>5. ASSUME NEW j \in Intent
      PROVE  \/ new[j] = ledger[j]
             \/ /\ Allowed(ledger[j].phase, new[j].phase)
                /\ ledger[j].attempts <= new[j].attempts
                /\ new[j].attempts <= MaxAttempts
                /\ new[j].phase = "Failed" => chain[j] = "err"
                /\ new[j].phase \in {"Finalized", "Reconciled"} => chain[j] = "ok"
  <2>1. /\ ledger[i].attempts \in Nat /\ ledger[i].attempts <= disk[i].attempts
        /\ disk[i].attempts <= MaxAttempts /\ disk[i].attempts \in Nat
        /\ MaxAttempts \in Nat
      BY EntryFacts DEF SenderInv, StoreInv, AttemptsCover, SenderAssumption
  <2> QED BY <1>1, <1>3, <2>1 DEF Allowed
<1> HIDE DEF new
<1>6. Justified(new)
    BY <1>2, <1>4, <1>5, MoveJustified DEF SenderInv
<1>7. StoreInv' /\ Grows /\ poisoned' \in BOOLEAN
    BY <1>1, <1>6, StoreStep DEF SenderInv, SenderTypeOK, Commit, CommitFails
<1> QED BY <1>1, <1>7 DEF Kept, SenderInv, SenderTypeOK, AboutOpen, FirstSend, StoreInv, Entries

\* What the chain does by itself never undoes a final state.
LEMMA KeepChain ==
    ASSUME SenderAssumption, SenderInv, NEW i \in Intent,
           Broadcast(i) \/ Land(i) \/ Vanish(i) \/ Unroll(i) \/ Finalize(i)
    PROVE  Kept
<1>1. PICK c \in ChainState :
        /\ chain[i] \notin Final /\ chain' = [chain EXCEPT ![i] = c]
        /\ UNCHANGED <<journal, job, asked, sent, height>>
    BY DEF Broadcast, Land, Vanish, Unroll, Finalize, SetChain, ChainState, Final
<1>2. /\ chain' \in [Intent -> ChainState]
      /\ \A j \in Intent : chain[j] \in Final => chain'[j] = chain[j]
    BY <1>1 DEF SenderInv, SenderTypeOK
<1>3. StoreInv' /\ Grows
    BY <1>1, <1>2, StoreSame DEF SenderInv
<1>4. AboutOpen'
  <2>1. job \in Job
      BY DEF SenderInv, SenderTypeOK
  <2> QED BY <1>1, <1>2, <2>1 DEF SenderInv, AboutOpen, journal, Job
<1> QED BY <1>1, <1>2, <1>3, <1>4 DEF Kept, SenderInv, SenderTypeOK, FirstSend, StoreInv, journal

\* Time changes nothing that is recorded.
LEMMA KeepTick ==
    ASSUME SenderAssumption, SenderInv, NextHeight
    PROVE  Kept
<1>1. UNCHANGED <<journal, job, asked, sent, chain>> /\ height' \in Nat
    BY DEF NextHeight, SenderInv, SenderTypeOK
<1>2. StoreInv' /\ Grows
    BY <1>1, StoreSame DEF SenderInv
<1> QED BY <1>1, <1>2 DEF Kept, SenderInv, SenderTypeOK, AboutOpen, FirstSend, StoreInv, journal

\* Every step of the handlers, the node and the chain keeps the invariant.
LEMMA KeepNext ==
    ASSUME SenderAssumption, SenderInv, [SenderNext]_senderVars
    PROVE  Kept
<1>1. CASE UNCHANGED senderVars
  <2>1. UNCHANGED <<journal, job, asked, sent, chain, height>>
      BY <1>1 DEF senderVars, journal
  <2>2. StoreInv' /\ Grows
      BY <2>1, StoreSame DEF SenderInv
  <2> QED BY <2>1, <2>2 DEF Kept, SenderInv, SenderTypeOK, AboutOpen, FirstSend, StoreInv, journal
<1>2. CASE SenderNext
    BY <1>2, KeepReceive, KeepReject, KeepAdmit, KeepObserve, KeepDriver, KeepQuery,
       KeepRecord, KeepTransmit, KeepAcks, KeepReconcile, KeepRestart, KeepChain, KeepTick
       DEF SenderNext
<1> QED BY <1>1, <1>2

\* At the start nothing is recorded and nothing was sent.
LEMMA StartsKept ==
    ASSUME SenderAssumption, SenderInit
    PROVE  SenderInv
<1>1. ledger \in Entries /\ Sound(ledger) /\ disk = ledger /\ poisoned = FALSE
    BY NothingSound DEF SenderInit
<1>2. \A i \in Intent : ledger[i] = Absent /\ sent[i] = 0 /\ chain[i] = "none"
    BY DEF SenderInit
<1>3. StoreInv
    BY <1>1, <1>2, EntryFacts
       DEF StoreInv, DiskIsLater, VerdictIsFinal, AttemptsCover, SenderAssumption
<1>4. SenderTypeOK
    BY <1>1, IdleFacts, EntryFacts DEF SenderInit, SenderTypeOK, ChainState
<1>5. AboutOpen /\ FirstSend
    BY <1>2, IdleFacts DEF SenderInit, AboutOpen, FirstSend
<1> QED BY <1>3, <1>4, <1>5 DEF SenderInv

-----------------------------------------------------------------------------
(* Theorems.                                                               *)

\* The invariant holds of every behaviour of the sender, whatever the handlers,
\* the node, the chain and crashes do.
THEOREM SenderInvariant ==
    ASSUME SenderAssumption
    PROVE  SenderSpec => []SenderInv
<1>1. SenderInit => SenderInv
    BY StartsKept
<1>2. SenderInv /\ [SenderNext]_senderVars => SenderInv'
    BY KeepNext DEF Kept
<1> QED BY <1>1, <1>2, PTL DEF SenderSpec

\* The variables keep their types, for any orders, requests and limits.
THEOREM SenderTypes ==
    ASSUME SenderAssumption
    PROVE  SenderSpec => []SenderTypeOK
<1>1. SenderInv => SenderTypeOK
    BY DEF SenderInv
<1> QED BY <1>1, SenderInvariant, PTL

\* A recorded verdict is the chain's.  (progress_batch of sender.rs)
THEOREM VerdictIsTrue ==
    ASSUME SenderAssumption
    PROVE  SenderSpec => []VerdictIsFinal
<1>1. SenderInv => VerdictIsFinal
    BY DEF SenderInv, StoreInv
<1> QED BY <1>1, SenderInvariant, PTL

\* A transmission is never ahead of its recorded attempt and attempts stay
\* within the limit (progress_batch of sender.rs); an order that only the API
\* handles is transmitted at most once, however often it is submitted
\* (submit of stockmesh_api.rs).
THEOREM SentOnceRecorded ==
    ASSUME SenderAssumption
    PROVE  SenderSpec => []SentOnceAndRecorded
<1>1. SenderInv => SentIsRecorded
  <2> SUFFICES ASSUME SenderInv, NEW i \in Intent
               PROVE  sent[i] <= disk[i].attempts /\ disk[i].attempts <= MaxAttempts
      BY DEF SentIsRecorded
  <2>1. sent[i] \in Nat /\ ledger[i].attempts \in Nat /\ disk[i].attempts \in Nat
      BY EntryFacts DEF SenderInv, StoreInv, SenderTypeOK
  <2> QED BY <2>1 DEF SenderInv, StoreInv, AttemptsCover
<1>2. SenderInv => SubmitSendsOnce
    BY DEF SenderInv, FirstSend, SubmitSendsOnce
<1>3. SenderInv => SentOnceAndRecorded
    BY <1>1, <1>2 DEF SentOnceAndRecorded
<1> QED BY <1>3, SenderInvariant, PTL

\* Two recorded orders over one resource are never both able to take effect:
\* an order gives its resources up only after the chain's last word on it.
\* (reservations of the journal, verdicts of the sender)
THEOREM EffectsExclusive ==
    ASSUME SenderAssumption
    PROVE  SenderSpec => []NoConcurrentEffects
<1>1. SenderInv => NoConcurrentEffects
  <2> SUFFICES ASSUME SenderInv,
                      NEW i \in Recorded(disk), NEW j \in Recorded(disk), i # j,
                      chain[i] \in {"inflight", "processed"},
                      chain[j] \in {"inflight", "processed"}
               PROVE  ResOf[i] \cap ResOf[j] = {}
      BY DEF NoConcurrentEffects
  <2>1. ASSUME NEW l \in Recorded(disk), chain[l] \in {"inflight", "processed"}
        PROVE  l \in Intent /\ disk[l].phase \in Holding
    <3>1. l \in Intent /\ disk[l].phase \in Phase
        BY EntryFacts DEF SenderInv, StoreInv, Recorded
    <3>2. disk[l].phase \notin {"Failed", "Finalized", "Reconciled"}
        BY <2>1, <3>1 DEF SenderInv, StoreInv, VerdictIsFinal
    <3> QED BY <3>1, <3>2 DEF Holding, Terminal
  <2> QED BY <2>1 DEF SenderInv, StoreInv, Sound, Exclusive
<1> QED BY <1>1, SenderInvariant, PTL

\* The durable ledger means by its consistency what the lemmas mean by it.
LEMMA SameConsistency ==
    ASSUME NEW E, Sound(E)
    PROVE  Durable!Consistent(E)
BY Zenon
   DEF Sound, Exclusive, Holding, Phase, Terminal, SignatureUnique, Recorded, PlansCoherent,
       PhaseOf, Coherent, Live, ValidRange, RangeOf, Ranges, GroupSize, Fixed, MaxAtomicStocks,
       Cardinality, IsFiniteSet,
       Durable!Consistent, Durable!Exclusive, Durable!Holding, Durable!Phase,
       Durable!Terminal, Durable!SignatureUnique, Durable!Recorded, Durable!PlansCoherent,
       Durable!PhaseOf, Durable!Coherent, Durable!Live, Durable!ValidRange, Durable!RangeOf,
       Durable!Ranges, Durable!GroupSize, Durable!Fixed, Durable!MaxAtomicStocks,
       Durable!Cardinality, Durable!IsFiniteSet

\* The handlers implement the durable ledger: whatever fails, the entries on
\* disk only advance and stay consistent.  (journal.rs, sender.rs)
THEOREM LedgerKept ==
    ASSUME SenderAssumption
    PROVE  SenderSpec => KeepsDurableLedger
<1>1. SenderInit => Durable!LedgerInit
    BY DEF SenderInit, Durable!LedgerInit, Absent, Durable!Absent
<1>2. SenderInv /\ SenderInv' /\ [SenderNext]_senderVars => [Durable!Advance]_disk
  <2> SUFFICES ASSUME SenderInv, SenderInv', [SenderNext]_senderVars PROVE Durable!Advance
      OBVIOUS
  <2>1. \A i \in Intent : Durable!Later(disk[i], disk'[i])
      BY KeepNext DEF Kept, Grows, Later, Allowed, Open,
                      Durable!Later, Durable!Allowed, Durable!Open
  <2>2. DOMAIN disk' = Intent
      BY DEF SenderInv, StoreInv, Entries
  <2>3. Durable!Consistent(disk')
      BY SameConsistency DEF SenderInv, StoreInv
  <2> QED BY <2>1, <2>2, <2>3 DEF Durable!Advance
<1> QED BY <1>1, <1>2, SenderInvariant, PTL DEF SenderSpec, KeepsDurableLedger, Durable!LedgerSpec
=============================================================================
