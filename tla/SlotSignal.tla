------------------------------ MODULE SlotSignal ------------------------------
(***************************************************************************)
(* The signal that starts a refresh before its cadence has passed          *)
(* (host/src/slot_signal.rs), and the refresh thread's wait for it         *)
(* (stockmesh_api.rs, the end of refresh_superbank).                       *)
(*                                                                         *)
(* Whoever raises the signal adds to a sequence number and then notifies a *)
(* condition variable, without the mutex that the waiting thread holds     *)
(* while it compares the number: a notification may fall between the       *)
(* comparison and the sleep.                                               *)
(*                                                                         *)
(* Simplifications.                                                        *)
(*  - The sequence number is known by whether it still is the one that the *)
(*    refresh thread observed.                                             *)
(*  - The backoff of a reconnection delays it; counters are left out.      *)
(***************************************************************************)
EXTENDS Integers

CONSTANTS
    MaxSlot,        \* bound: slots of the node
    MaxNotifiers    \* bound: threads between their add and their notify

SignalAssumption == MaxSlot \in Nat \ {0} /\ MaxNotifiers \in Nat \ {0}

VARIABLES
    subscribed,     \* the subscription is up
    slot,           \* the last slot that moved the trigger forward
    root,           \* the last root
    changed,        \* the sequence number is no longer the observed one
    notifying,      \* threads that have added and not yet notified
    at              \* where the refresh thread is

vars == <<subscribed, slot, root, changed, notifying, at>>

-----------------------------------------------------------------------------
(* Raising the signal.                                                     *)

\* advance_sequence, its first half.
Advance ==
    /\ notifying < MaxNotifiers
    /\ changed' = TRUE
    /\ notifying' = notifying + 1

\* advance_sequence, its second half: only a sleeper hears it.
Notify ==
    /\ notifying > 0
    /\ notifying' = notifying - 1
    /\ at' = IF at = "asleep" THEN "locked" ELSE at
    /\ UNCHANGED <<subscribed, slot, root, changed>>

\* poke, by the thread of a quote that selects an instrument.
Poke == Advance /\ UNCHANGED <<subscribed, slot, root, at>>

Connect ==
    /\ ~subscribed
    /\ subscribed' = TRUE
    /\ UNCHANGED <<slot, root, changed, notifying, at>>

\* run, after a connection has ended for any reason.
Disconnect ==
    /\ subscribed
    /\ subscribed' = FALSE
    /\ Advance
    /\ UNCHANGED <<slot, root, at>>

\* accept_slot refuses what it cannot be, and a root that goes back.
Refused(s, parent, r) ==
    \/ s = 0 \/ parent >= s \/ r > s
    \/ root # 0 /\ r < root

\* A notification that is refused ends the connection; one of a competing fork
\* wakes the refresh thread and moves nothing.
SlotNotification(s, parent, r) ==
    /\ subscribed
    /\ Advance
    /\ subscribed' = ~Refused(s, parent, r)
    /\ IF Refused(s, parent, r) \/ (slot # 0 /\ s <= slot)
         THEN UNCHANGED <<slot, root>>
         ELSE slot' = s /\ root' = r
    /\ UNCHANGED at

\* A new root by itself does not raise the signal, one that goes back does.
RootNotification(r) ==
    /\ subscribed
    /\ IF root # 0 /\ r < root
         THEN subscribed' = FALSE /\ Advance /\ UNCHANGED root
         ELSE root' = r /\ UNCHANGED <<subscribed, changed, notifying>>
    /\ UNCHANGED <<slot, at>>

-----------------------------------------------------------------------------
(* The refresh thread: its cycle, and wait_for_change.                     *)

\* What came while accounts were read is dropped; a cycle that took longer than
\* its cadence does not wait.
Observe ==
    /\ at = "reading"
    /\ changed' = FALSE
    /\ at' \in {"entered", "reading"}
    /\ UNCHANGED <<subscribed, slot, root, notifying>>

\* wait_for_change, before it takes the mutex.
Enter ==
    /\ at = "entered"
    /\ at' = IF changed THEN "reading" ELSE "locked"
    /\ UNCHANGED <<subscribed, slot, root, changed, notifying>>

\* The predicate of wait_timeout_while, under the mutex.
Compare ==
    /\ at = "locked"
    /\ at' = IF changed THEN "reading" ELSE "ready"
    /\ UNCHANGED <<subscribed, slot, root, changed, notifying>>

Sleep ==
    /\ at = "ready"
    /\ at' = "asleep"
    /\ UNCHANGED <<subscribed, slot, root, changed, notifying>>

\* mutant of Timeout: the thread sleeps until it is notified.
TimeoutNever == FALSE /\ at' = "reading" /\ UNCHANGED <<subscribed, slot, root, changed, notifying>>

\* The rest of the cadence has passed.
Timeout ==
    /\ at = "asleep"
    /\ at' = "reading"
    /\ UNCHANGED <<subscribed, slot, root, changed, notifying>>

Init ==
    /\ subscribed = FALSE /\ slot = 0 /\ root = 0
    /\ changed = FALSE /\ notifying = 0
    /\ at = "reading"

Next ==
    \/ Notify \/ Poke \/ Connect \/ Disconnect
    \/ \E s, parent, r \in 0..MaxSlot : SlotNotification(s, parent, r)
    \/ \E r \in 0..MaxSlot : RootNotification(r)
    \/ Observe \/ Enter \/ Compare \/ Sleep \/ Timeout

Spec == Init /\ [][Next]_vars

\* The threads run, and the clock of the wait does.
Fairness ==
    /\ WF_vars(Notify) /\ WF_vars(Observe) /\ WF_vars(Enter)
    /\ WF_vars(Compare) /\ WF_vars(Sleep) /\ WF_vars(Timeout)

FairSpec == Spec /\ Fairness

-----------------------------------------------------------------------------
(* Properties.                                                             *)

\* A signal that finds the refresh thread waiting is followed by a new cycle,
\* although its notification may fall before the sleep and be lost: the rest of
\* the cadence is the longest it can take.
\* (slot_signal.rs:76 wait_for_change, slot_signal.rs:224 advance_sequence)
SignalIsSeen == changed /\ at # "reading" ~> at = "reading"

=============================================================================
