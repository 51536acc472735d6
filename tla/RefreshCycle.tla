---------------------------- MODULE RefreshCycle ----------------------------
(***************************************************************************)
(* Which banks the refresh thread reads, and which one it may rotate       *)
(* (host/src/stockmesh_api.rs: BankActivity, rotation_group,               *)
(* refresh_superbank, refresh_superbank_group_once).  A bounded provider   *)
(* is asked for the banks that quotes selected lately and for one more, in *)
(* turn; without one every bank is read.  Each cycle reads every group by  *)
(* a worker of its own, and one worker may rotate its bank's accounts.     *)
(*                                                                         *)
(* Simplifications.                                                        *)
(*  - A group is one bank, as prioritize_superbank_key_sets makes them.    *)
(*  - Time is left out: cadence, staggering and backoff delay a cycle, the *)
(*    TTL of a selection ends the oldest one at any moment.                *)
(*  - What a publication does to the bank is BankPublication; here a bank  *)
(*    is current, or needs a rotation, or cannot be rotated any more.      *)
(***************************************************************************)
EXTENDS Integers, Sequences, SequencesExt, FiniteSets

CONSTANTS
    Banks,          \* number of banks in the manifest
    Warm,           \* PROVIDER_WARM_BANKS: banks read per cycle
    Quoted,         \* bound: banks that quotes select; the others stay current
    MaxBroken       \* bound: banks that no rotation can restore

Bank == 0..(Banks - 1)
NoBank == Banks

CycleAssumption ==
    /\ Banks \in Nat \ {0}
    /\ Warm \in Nat /\ Warm >= 2
    /\ Quoted \subseteq Bank
    /\ MaxBroken \in Nat

VARIABLES
    bounded,        \* the reader has a provider's budget
    recent,         \* hot banks, the one selected last first
    status,         \* [Bank -> "current", "stale" or "broken"]
    step,           \* where the refresh thread is in its cycle
    hot,            \* the hot banks that this cycle began with
    groups,         \* the banks that this cycle reads, in its order
    turn,           \* the group that may rotate in this cycle
    pending,        \* workers that have not ended
    coldCursor,     \* cold_cursor, modulo the number of banks
    groupCursor     \* proactive_group_cursor

activity == <<bounded, recent>>
cursors == <<coldCursor, groupCursor>>
vars == <<bounded, recent, status, step, hot, groups, turn, pending, coldCursor, groupCursor>>

-----------------------------------------------------------------------------
(* Selection.                                                              *)

\* mark: a quote or a preparation selects a bank.
Mark(b) ==
    /\ recent' = <<b>> \o SelectSeq(recent, LAMBDA x : x # b)
    /\ UNCHANGED <<bounded, status, step, hot, groups, turn, pending, cursors>>

\* The oldest selection is older than its TTL.
Cool ==
    /\ recent # <<>>
    /\ recent' = Front(recent)
    /\ UNCHANGED <<bounded, status, step, hot, groups, turn, pending, cursors>>

\* active.
Active == ToSet(recent)

\* The hot banks of a bounded cycle: one place is kept for a cold one.
WarmHot == {recent[i] : i \in 1..(IF Len(recent) < Warm - 1 THEN Len(recent) ELSE Warm - 1)}

\* The cold cursor walks over the banks, from where it stopped, until the
\* cycle is full: the k-th bank it meets, and how many it must meet.
Met(k) == (coldCursor + k) % Banks
FilledBy(k) == WarmHot \cup {Met(j) : j \in 0..(k - 1)}
Walk == CHOOSE k \in 0..Banks :
           /\ k = Banks \/ Cardinality(FilledBy(k)) >= Warm
           /\ \A j \in 0..(k - 1) : Cardinality(FilledBy(j)) < Warm

\* bounded_active.
Selected == IF Active = {} THEN {} ELSE FilledBy(Walk)
WalkAfter == IF Active = {} THEN coldCursor ELSE (coldCursor + Walk) % Banks

\* prioritize_superbank_key_sets: hot banks first, each by its index.
Prioritized(first) ==
    SetToSortSeq(Bank, LAMBDA a, b : IF (a \in first) = (b \in first) THEN a < b ELSE a \in first)

\* mutant of RotationTurn: the first group that needs a rotation is taken.
FirstTurn(needs) ==
    IF needs = <<>> THEN 0
    ELSE LET first == {i \in 0..(Len(needs) - 1) : needs[i + 1]}
         IN  IF first = {} THEN groupCursor % Len(needs)
             ELSE CHOOSE i \in first : \A j \in first : i <= j

\* rotation_group: the next group after the cursor that needs a rotation.
RotationTurn(needs) ==
    IF needs = <<>> THEN 0
    ELSE LET n == Len(needs)
             start == groupCursor % n
             offsets == {o \in 0..(n - 1) : needs[((start + o) % n) + 1]}
         IN  IF offsets = {} THEN start
             ELSE (start + (CHOOSE o \in offsets : \A x \in offsets : o <= x)) % n

-----------------------------------------------------------------------------
(* A cycle.                                                                *)

\* The hot banks are read, and every bank gets its place.  Without a hot bank
\* a paid reader is parked.
Plan ==
    /\ step = "plan"
    /\ bounded => Active # {}
    /\ hot' = Active
    /\ groups' = Prioritized(Active)
    /\ step' = "select"
    /\ UNCHANGED <<activity, status, turn, pending, cursors>>

\* The activity is read again; the cycle keeps the groups it selects.
Select ==
    LET limited == bounded /\ Banks > Warm
        kept == IF limited THEN SelectSeq(groups, LAMBDA b : b \in Selected) ELSE groups
        needs == [i \in 1..Len(kept) |-> kept[i] \in hot /\ status[kept[i]] # "current"]
    IN  /\ step = "select"
        /\ groups' = kept
        /\ coldCursor' = IF limited THEN WalkAfter ELSE coldCursor
        /\ turn' = IF bounded THEN RotationTurn(needs) ELSE groupCursor % Len(kept)
        /\ pending' = ToSet(kept)
        /\ step' = "read"
        /\ UNCHANGED <<activity, status, hot, groupCursor>>

MayRotate(b) == turn < Len(groups) /\ groups[turn + 1] = b

\* A worker reads and publishes its bank; one that no longer compiles is
\* rotated if this is its turn, and otherwise stays as it is.  The node may
\* fail at either call.
ReadBank(b) ==
    /\ step = "read" /\ b \in pending
    /\ status' \in {status} \cup
          (IF status[b] = "stale" /\ MayRotate(b) THEN {[status EXCEPT ![b] = "current"]} ELSE {})
    /\ pending' = pending \ {b}
    /\ UNCHANGED <<activity, step, hot, groups, turn, cursors>>

\* The rotation that the worker of b is allowed to make.
Rotate(b) == ReadBank(b) /\ MayRotate(b) /\ status[b] # "current"

CursorAfter == turn + 1

Join ==
    /\ step = "read" /\ pending = {}
    /\ groupCursor' = CursorAfter
    /\ step' = "plan"
    /\ groups' = <<>> /\ turn' = 0 /\ hot' = {}
    /\ UNCHANGED <<activity, status, pending, coldCursor>>

\* The price leaves the accounts a bank reads, for a while or for ever; what
\* leaves them during a cycle is met by the next.
Drift(b) ==
    /\ step = "plan" /\ status[b] = "current"
    /\ \/ status' = [status EXCEPT ![b] = "stale"]
       \/ /\ Cardinality({x \in Bank : status[x] = "broken"}) < MaxBroken
          /\ status' = [status EXCEPT ![b] = "broken"]
    /\ UNCHANGED <<activity, step, hot, groups, turn, pending, cursors>>

Init ==
    /\ bounded \in BOOLEAN
    /\ recent = <<0>>
    /\ status = [b \in Bank |-> IF b \in Quoted THEN "stale" ELSE "current"]
    /\ step = "plan"
    /\ hot = {} /\ groups = <<>> /\ turn = 0 /\ pending = {}
    /\ coldCursor = 0 /\ groupCursor = 0

Next ==
    \/ Cool
    \/ \E b \in Quoted : Mark(b) \/ Drift(b)
    \/ \E b \in Bank : ReadBank(b)
    \/ Plan \/ Select \/ Join

Spec == Init /\ [][Next]_vars

\* The refresh thread and its workers run: nothing they wait for can refuse.
Fairness ==
    /\ WF_vars(Plan) /\ WF_vars(Select) /\ WF_vars(Join)
    /\ \A b \in Bank : WF_vars(ReadBank(b))

FairSpec == Spec /\ Fairness

-----------------------------------------------------------------------------
(* Properties.                                                             *)

\* While anything is hot every bank is read again and again, whichever banks
\* are selected meanwhile.
\* (stockmesh_api.rs:340 "One rotating cold slot is always retained")
EveryBankIsRead ==
    \A b \in Bank : <>[](recent # <<>>) => []<><<ReadBank(b)>>_vars

InNeed(b) == b \in Active /\ status[b] # "current"

\* A hot bank that needs a rotation gets its turn, although others that cannot
\* be rotated need one too, once the set of hot banks stays the same and fits
\* the places that a cycle has for them.
\* (stockmesh_api.rs:4954 rotation_group)
HotBankGetsItsTurn ==
    \A b \in Bank :
        <>[](InNeed(b) /\ Cardinality(Active) < Warm) /\ <>[][Active' = Active]_vars
            => []<><<Rotate(b)>>_vars

\* The same of any number of hot banks.  The cursor is a place in a cycle's
\* groups; when hot banks share the cold place these places shift, and a bank
\* that cannot be rotated may meet the cursor in every cycle.
\* (stockmesh_api.rs:5118 "A permanently broken first hot bank must not consume
\* every rotation permit while later selected stocks remain cold.")
EveryHotBankGetsItsTurn ==
    \A b \in Bank :
        <>[]InNeed(b) /\ <>[][Active' = Active]_vars => []<><<Rotate(b)>>_vars
=============================================================================
