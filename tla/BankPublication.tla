--------------------------- MODULE BankPublication ---------------------------
(***************************************************************************)
(* One market bank (host/src/feed.rs; Bank and refresh_superbank of        *)
(* host/src/stockmesh_api.rs): a feed of account snapshots, the layout     *)
(* (which accounts are read), the publication that quotes are served from, *)
(* the refresh thread that replaces them, and a wallet whose prepared      *)
(* execution is checked against the bank when it is submitted.             *)
(*                                                                         *)
(* The refresh thread is the bank's only writer: every cycle spawns one    *)
(* worker for the bank and joins it, and `current` runs under the read     *)
(* lock of the publication that commits and invalidations write.           *)
(*                                                                         *)
(* Simplifications.                                                        *)
(*  - The accounts of a slot are one content; a layout covers the contents *)
(*    its tick arrays can quote.  The hash of a snapshot is the layout and *)
(*    the content, since a layout reads its own set of accounts.           *)
(*  - The direct node may serve any slot; the RPC node none before the     *)
(*    minContextSlot it is given.                                          *)
(*  - Quote expiry, policies, bids and deadlines are left out.             *)
(***************************************************************************)
EXTENDS Integers

CONSTANTS
    Layout,         \* account horizons a bank may read
    FirstLayout,    \* the horizon of the manifest
    Content,        \* what the accounts may hold
    ContentAt,      \* [1..BankSlots -> Content]: the accounts at each slot
    Covers,         \* [Layout -> SUBSET Content]: contents that compile
    Edge,           \* [Layout -> SUBSET Content]: contents calling for rotation
    LayoutFor,      \* [Content -> Layout]: the horizon rotation selects
    Mode,           \* "rpc", "primary" or "required": the sources allowed
    RpcAtStart,     \* the RPC node was verified before the first cycle
    MaxAge,         \* freshness of the bank's feed
    CandidateAge,   \* freshness of a prepared execution's own snapshot
    RotateEvery,    \* slots between rotations (32 in the code)
    MaxRevision,    \* bound: the feed's revision (u64::MAX in the code)
    BankSlots,        \* bound: slots 1..BankSlots
    MaxNow          \* bound: clock values 0..MaxNow

BankAssumption ==
    /\ FirstLayout \in Layout
    /\ BankSlots \in Nat \ {0}
    /\ ContentAt \in [1..BankSlots -> Content]
    /\ Covers \in [Layout -> SUBSET Content]
    /\ Edge \in [Layout -> SUBSET Content]
    /\ LayoutFor \in [Content -> Layout]
    /\ Mode \in {"rpc", "primary", "required"}
    /\ RpcAtStart \in BOOLEAN
    /\ MaxRevision \in Nat \ {0}
    /\ {MaxAge, CandidateAge, RotateEvery, MaxNow} \subseteq Nat

VARIABLES
    tip,            \* the chain's latest confirmed slot
    now,            \* the clock
    rpc,            \* the RPC node has been verified
    layout,         \* Bank.layout
    feed,           \* the feed of that layout: current, healthy, revision
    published,      \* Bank.publication, or NoSnapshot
    rotated,        \* last_rotation_slot
    worker,         \* the refresh thread
    work,           \* the wallet's prepared execution
    seen,           \* history: slot -> when the bank first published it
    gap             \* history: the bank was invalidated under `work`

bank   == <<layout, feed, published, rotated>>
hist   == <<seen, gap>>
world  == <<tip, now, rpc>>
bankVars   == <<tip, now, rpc, layout, feed, published, rotated, worker, work,
            seen, gap>>

Slot == 1..BankSlots
Never == MaxNow + 1

NoSnapshot == [slot |-> 0, layout |-> FirstLayout, content |-> ContentAt[1],
               revision |-> 0, observed |-> 0, advanced |-> 0]

Snapshot == [slot : 0..BankSlots, layout : Layout, content : Content,
             revision : 0..MaxRevision, observed : 0..MaxNow, advanced : 0..MaxNow]

FreshFeed == [current |-> NoSnapshot, healthy |-> FALSE, revision |-> 0]

Idle   == [pc |-> "idle", source |-> "rpc", slot |-> 0, next |-> NoSnapshot]
NoWork == [pc |-> "none", layout |-> FirstLayout, content |-> ContentAt[1],
           slot |-> 0, observed |-> 0]

BankInit ==
    /\ tip = 1 /\ now = 0 /\ rpc = RpcAtStart
    /\ layout = FirstLayout
    /\ feed = FreshFeed
    /\ published = NoSnapshot
    /\ rotated = 0
    /\ worker = Idle
    /\ work = NoWork
    /\ seen = [s \in Slot |-> Never]
    /\ gap = FALSE

-----------------------------------------------------------------------------
(* The feed.                                                               *)

\* prepare refuses a slot older than the feed's current one.
InOrder(f, slot) == f.current.slot <= slot

\* prepare refuses a revision the counter cannot hold.
Numbered(f) == f.revision < MaxRevision

\* prepare: the next snapshot; a repeated slot keeps the time it advanced.
Prepared(f, lay, slot) ==
    [slot     |-> slot,
     layout   |-> lay,
     content  |-> ContentAt[slot],
     revision |-> f.revision + 1,
     observed |-> now,
     advanced |-> IF f.current.slot = slot THEN f.current.advanced ELSE now]

\* install_prepared.
Installed(next) ==
    [current |-> next, healthy |-> TRUE, revision |-> next.revision]

\* invalidate: unhealthy before the counter is tried.
Invalidated(f) ==
    [f EXCEPT !.healthy = FALSE, !.revision = IF Numbered(f) THEN @ + 1 ELSE @]

Fresh(s) == now - s.observed <= MaxAge /\ now - s.advanced <= MaxAge

\* Bank::current succeeds: the publication is the feed's healthy, fresh value.
Current ==
    /\ published # NoSnapshot
    /\ feed.healthy
    /\ Fresh(feed.current)
    /\ feed.revision = feed.current.revision
    /\ published.revision = feed.current.revision
    /\ published.slot = feed.current.slot
    /\ published.content = feed.current.content

LastSlot == published.slot

-----------------------------------------------------------------------------
(* The refresh thread.                                                     *)

\* A cycle that has a promoted direct snapshot tries it first.
ReadDirect(slot) ==
    /\ Mode \in {"primary", "required"}
    /\ worker.pc = "idle"
    /\ slot <= tip
    /\ worker' = [Idle EXCEPT !.pc = "publish", !.source = "direct", !.slot = slot]
    /\ UNCHANGED <<world, bank, work, hist>>

MinimumSlot == LastSlot

\* The coherent group read, or the fallback of a cycle whose direct snapshot
\* was missing or refused.
ReadGroup(slot) ==
    /\ Mode # "required" /\ rpc
    /\ worker.pc \in {"idle", "fallback"}
    /\ MinimumSlot <= slot /\ slot <= tip
    /\ worker' = [Idle EXCEPT !.pc = "publish", !.source = "rpc", !.slot = slot]
    /\ UNCHANGED <<world, bank, work, hist>>

\* The group read or the rotation fails; the old publication stays.
ReadFails ==
    /\ worker.pc \in {"fallback", "rotate"}
    /\ worker' = Idle
    /\ UNCHANGED <<world, bank, work, hist>>

\* No source is left: every bank is invalidated.
Invalidate ==
    /\ worker.pc \in {"idle", "fallback"}
    /\ Mode = "required" \/ ~rpc
    /\ feed' = IF published # NoSnapshot THEN Invalidated(feed) ELSE feed
    /\ published' = NoSnapshot
    /\ worker' = Idle
    /\ gap' = (gap \/ (published # NoSnapshot /\ work.pc # "none"))
    /\ UNCHANGED <<world, layout, rotated, work, seen>>

\* A failed publication: the direct source falls back, the RPC source rotates
\* at once when it holds the cycle's permit.
PublishFails ==
    IF worker.source = "direct"
    THEN /\ worker' = [worker EXCEPT !.pc = "fallback"]
         /\ UNCHANGED rotated
    ELSE \/ /\ worker' = [worker EXCEPT !.pc = "rotate"]
            /\ rotated' = worker.slot
         \/ /\ worker' = Idle
            /\ UNCHANGED rotated

\* publish_layout: decode and compile beside the active publication.
PreparePublication ==
    /\ worker.pc = "publish"
    /\ IF Numbered(feed) /\ InOrder(feed, worker.slot)
            /\ ContentAt[worker.slot] \in Covers[layout]
       THEN /\ worker' = [worker EXCEPT
                            !.pc = "commit",
                            !.next = Prepared(feed, layout, worker.slot)]
            /\ UNCHANGED rotated
       ELSE PublishFails
    /\ UNCHANGED <<world, layout, feed, published, work, hist>>

RotationDue(slot) == slot > rotated + RotateEvery

Witness(s) ==
    /\ seen' = [seen EXCEPT ![s.slot] = IF @ = Never THEN now ELSE @]
    /\ UNCHANGED gap

\* The commit barrier: feed and publication change together.  Afterwards a
\* horizon at its edge is rotated if this group holds the permit.
CommitPublication ==
    /\ worker.pc = "commit"
    /\ feed.revision + 1 = worker.next.revision
    /\ feed' = Installed(worker.next)
    /\ published' = worker.next
    /\ Witness(worker.next)
    /\ LET rotate == RotationDue(worker.slot)
                       /\ ContentAt[worker.slot] \in Edge[layout]
       IN  CASE worker.source = "direct" /\ rotate ->
                    /\ worker' = [worker EXCEPT !.pc = "fallback"]
                    /\ UNCHANGED rotated
             [] worker.source = "rpc" /\ rotate ->
                    \/ /\ worker' = [worker EXCEPT !.pc = "rotate"]
                       /\ rotated' = worker.slot
                    \/ worker' = Idle /\ UNCHANGED rotated
             [] OTHER -> worker' = Idle /\ UNCHANGED rotated
    /\ UNCHANGED <<world, layout, work>>

\* Mutant: the rotated bank is read again without a minimum slot.
RotationFromStart == 1

RotationMinimum == worker.slot

\* rotate_bank: new horizon, a new feed, and one final coherent read.
CommitRotation(slot) ==
    LET new  == LayoutFor[ContentAt[worker.slot]]
        next == Prepared(FreshFeed, new, slot)
    IN  /\ worker.pc = "rotate"
        /\ RotationMinimum <= slot /\ slot <= tip
        /\ ContentAt[slot] \in Covers[new]
        /\ layout' = new
        /\ feed' = Installed(next)
        /\ published' = next
        /\ Witness(next)
        /\ worker' = Idle
        /\ UNCHANGED <<world, rotated, work>>

-----------------------------------------------------------------------------
(* The wallet's request: quote, private read, admission, submission.       *)

\* produce_direct_prepared holds the publication it was quoted from.
StartPrepare ==
    /\ work.pc = "none"
    /\ Current
    /\ work' = [NoWork EXCEPT !.pc = "reading", !.slot = published.slot,
                              !.layout = published.layout,
                              !.content = published.content]
    /\ gap' = FALSE
    /\ UNCHANGED <<world, bank, worker, seen>>

\* prepare_direct reads its own bank, which must project to the same market.
ReadExecutionBank(slot) ==
    /\ work.pc = "reading"
    /\ work.slot <= slot /\ slot <= tip
    /\ ContentAt[slot] = work.content
    /\ work' = [work EXCEPT !.pc = "simulating", !.slot = slot, !.observed = now]
    /\ UNCHANGED <<world, bank, worker, hist>>

OwnFeedFresh == now - work.observed <= CandidateAge

SameMarket == published.layout = work.layout /\ published.content = work.content

\* admit_prepared checks the bank of the moment.
AdmitPrepared ==
    /\ work.pc = "simulating"
    /\ Current /\ SameMarket /\ OwnFeedFresh
    /\ work' = [work EXCEPT !.pc = "prepared"]
    /\ UNCHANGED <<world, bank, worker, hist>>

\* What authorize_submission requires of the bank and of the candidate.
Authorized == /\ Current
              /\ SameMarket
              /\ work.slot <= published.slot
              /\ OwnFeedFresh

AuthorizeSubmission ==
    /\ work.pc = "prepared"
    /\ Authorized
    /\ work' = NoWork
    /\ UNCHANGED <<world, bank, worker, hist>>

DropWork ==
    /\ work.pc # "none"
    /\ work' = NoWork
    /\ UNCHANGED <<world, bank, worker, hist>>

-----------------------------------------------------------------------------
VerifyRpc ==
    /\ ~rpc /\ Mode # "required"
    /\ rpc' = TRUE
    /\ UNCHANGED <<tip, now, bank, worker, work, hist>>

Advance ==
    /\ \/ tip < BankSlots /\ tip' = tip + 1 /\ UNCHANGED now
       \/ now < MaxNow /\ now' = now + 1 /\ UNCHANGED tip
    /\ UNCHANGED <<rpc, bank, worker, work, hist>>

BankNext ==
    \/ \E slot \in Slot :
         \/ ReadDirect(slot) \/ ReadGroup(slot)
         \/ CommitRotation(slot) \/ ReadExecutionBank(slot)
    \/ ReadFails \/ Invalidate
    \/ PreparePublication \/ CommitPublication
    \/ StartPrepare \/ AdmitPrepared \/ AuthorizeSubmission \/ DropWork
    \/ VerifyRpc \/ Advance

BankSpec == BankInit /\ [][BankNext]_bankVars

-----------------------------------------------------------------------------
(* Properties.                                                             *)

\* The type of every variable.
BankTypeOK ==
    /\ tip \in Slot /\ now \in 0..MaxNow /\ rpc \in BOOLEAN
    /\ layout \in Layout
    /\ feed \in [current : Snapshot, healthy : BOOLEAN, revision : 0..MaxRevision]
    /\ published \in Snapshot
    /\ rotated \in 0..BankSlots
    /\ worker \in [pc : {"idle", "publish", "commit", "fallback", "rotate"},
                   source : {"rpc", "direct"}, slot : 0..BankSlots, next : Snapshot]
    /\ work \in [pc : {"none", "reading", "simulating", "prepared"},
                 layout : Layout, content : Content, slot : 0..BankSlots,
                 observed : 0..MaxNow]
    /\ seen \in [Slot -> 0..Never]
    /\ gap \in BOOLEAN

\* A publication is always whole: it is the healthy current value of the feed
\* of the bank's layout, and its worlds compiled from that value.
\* (publish_layout "Feed and derived Worlds change together")
PublicationIsWhole ==
    published # NoSnapshot =>
        /\ feed.current = published
        /\ feed.healthy
        /\ feed.revision = published.revision
        /\ published.layout = layout
        /\ published.content \in Covers[layout]

\* While the bank stays published its slot never goes back, through repeated
\* reads, source changes and rotations to a new feed.
\* (minContextSlot of the group read, of the probe and of the final read)
SlotAdvances ==
    [][published # NoSnapshot /\ published' # NoSnapshot
         => published.slot <= published'.slot]_bankVars

\* The refresh thread only ever moves a whole publication forward.
BankAdvancesWhole == []PublicationIsWhole /\ SlotAdvances

\* host/README.md:8 "Repeated replies from a frozen slot do not reset its
\* freshness deadline": a rotation at the same slot starts a new feed, whose
\* deadline starts again.
FrozenSlotExpires == Current => now - seen[published.slot] <= MaxAge

\* feed.rs:304 "A disconnect/gap revokes existing work even if recovery returns
\* identical bytes": a submission compares the market's hash, not the revision.
GapRevokesPrepared == [][AuthorizeSubmission => ~gap]_bankVars
=============================================================================
