---------------------------- MODULE OrdersProofs ----------------------------
(***************************************************************************)
(* Proofs about what stands between an order and its settlement: the bank  *)
(* that a market is published from and the stream that it is read from,    *)
(* the plan of capsules of a wallet, and a purchase up to its receipt.     *)
(***************************************************************************)
EXTENDS CapsulePlan, BankPublication, DirectStream, PreparedPurchase, FiniteSums,
        SequenceTheorems

-----------------------------------------------------------------------------
(* The bank, for every price path, set of horizons, source mode and bound: *)
(* a publication is whole and moves forward.  The read of a snapshot, its  *)
(* compilation and its commit are separate steps of the refresh thread, so *)
(* the inductive invariant says what the thread carries from one to the    *)
(* next: a group read at or after the publication, and a prepared snapshot *)
(* of the present layout at or after it.                                   *)

\* The thread's slot is not before the publication it is about to replace.
AtOrAfter(s) == published # NoSnapshot => published.slot <= s

\* What the refresh thread carries from one step of a cycle to the next.
ThreadInv ==
    /\ worker.pc \in {"publish", "commit", "rotate"} => worker.slot \in Slot
    /\ worker.pc = "publish" /\ worker.source = "rpc" => AtOrAfter(worker.slot)
    /\ worker.pc = "rotate" => AtOrAfter(worker.slot)
    /\ worker.pc = "commit" =>
          /\ AtOrAfter(worker.slot)
          /\ worker.next.slot = worker.slot
          /\ worker.next.layout = layout
          /\ worker.next.content \in Covers[layout]

\* The type of the refresh thread.
WorkerType ==
    [pc : {"idle", "publish", "commit", "fallback", "rotate"},
     source : {"rpc", "direct"}, slot : 0..BankSlots, next : Snapshot]

BankInv == BankTypeOK /\ PublicationIsWhole /\ ThreadInv

-----------------------------------------------------------------------------
\* prepare numbers a snapshot of the slot that was read, under the layout.
LEMMA PreparedFacts ==
    ASSUME BankAssumption, NEW f, NEW lay \in Layout, NEW s \in Slot,
           f.revision \in 0..(MaxRevision - 1), f.current \in Snapshot, now \in 0..MaxNow
    PROVE  /\ Prepared(f, lay, s) \in Snapshot
           /\ Prepared(f, lay, s).slot = s
           /\ Prepared(f, lay, s).layout = lay
           /\ Prepared(f, lay, s).content = ContentAt[s]
<1>1. ContentAt[s] \in Content /\ MaxRevision \in Nat /\ BankSlots \in Nat
  BY DEF BankAssumption, Slot
<1>2. s \in 0..BankSlots /\ f.revision + 1 \in 0..MaxRevision
  BY <1>1 DEF Slot
<1>3. (IF f.current.slot = s THEN f.current.advanced ELSE now) \in 0..MaxNow
  BY DEF Snapshot
<1>. QED  BY <1>1, <1>2, <1>3 DEF Prepared, Snapshot

\* The empty publication has the type of one.
LEMMA EmptyFacts ==
    ASSUME BankAssumption
    PROVE  /\ NoSnapshot \in Snapshot /\ Idle \in WorkerType
           /\ 0 \in 0..MaxNow /\ 1 \in Slot /\ Slot \subseteq 0..BankSlots
<1>1. 1 \in Slot /\ 0 \in 0..BankSlots /\ 0 \in 0..MaxNow /\ 0 \in 0..MaxRevision
  BY DEF BankAssumption, Slot
<1>2. NoSnapshot \in Snapshot
  BY <1>1 DEF BankAssumption, NoSnapshot, Snapshot, Slot
<1>. QED  BY <1>1, <1>2 DEF BankAssumption, Idle, WorkerType, Slot

\* A bank starts unpublished, with an idle refresh thread.
LEMMA BankStarts == BankAssumption /\ BankInit => BankInv
<1>. SUFFICES ASSUME BankAssumption, BankInit PROVE BankInv
  OBVIOUS
<1>1. NoSnapshot \in Snapshot /\ 0 \in 0..MaxNow /\ 1 \in Slot
  BY EmptyFacts
<1>2. /\ 0 \in 0..BankSlots /\ 0 \in 0..MaxRevision /\ Never \in 0..Never
      /\ FirstLayout \in Layout /\ ContentAt[1] \in Content /\ RpcAtStart \in BOOLEAN
  BY <1>1 DEF BankAssumption, Slot, Never
<1>3. BankTypeOK
  BY <1>1, <1>2 DEF BankInit, BankTypeOK, FreshFeed, Idle, NoWork
<1>4. PublicationIsWhole
  BY DEF BankInit, PublicationIsWhole
<1>5. ThreadInv
  BY DEF BankInit, ThreadInv, Idle
<1>. QED  BY <1>3, <1>4, <1>5 DEF BankInv

-----------------------------------------------------------------------------
(* The steps.                                                              *)

\* A cycle begins with a direct snapshot of any slot or with a group read at
\* or after the publication.
LEMMA KeepRead ==
    ASSUME BankAssumption, BankInv, NEW tick \in Slot, ReadDirect(tick) \/ ReadGroup(tick)
    PROVE  BankInv'
<1>1. /\ UNCHANGED <<world, bank, work, hist>>
      /\ \/ worker' = [Idle EXCEPT !.pc = "publish", !.source = "direct", !.slot = tick]
         \/ /\ worker' = [Idle EXCEPT !.pc = "publish", !.source = "rpc", !.slot = tick]
            /\ published.slot <= tick
  BY DEF ReadDirect, ReadGroup, MinimumSlot, LastSlot
<1>2. /\ worker'.pc = "publish" /\ worker'.slot = tick /\ worker'.next = NoSnapshot
      /\ worker'.source \in {"rpc", "direct"}
      /\ worker'.source = "rpc" => published.slot <= tick
      /\ worker' \in WorkerType
  <2>1. tick \in 0..BankSlots /\ NoSnapshot \in Snapshot
    BY EmptyFacts
  <2>. QED  BY <1>1, <2>1 DEF Idle, WorkerType
<1>3. BankTypeOK'
  BY <1>1, <1>2 DEF BankInv, BankTypeOK, world, bank, hist, WorkerType
<1>4. PublicationIsWhole'
  BY <1>1 DEF BankInv, PublicationIsWhole, bank
<1>5. ThreadInv'
  BY <1>1, <1>2 DEF ThreadInv, AtOrAfter, bank
<1>. QED  BY <1>3, <1>4, <1>5 DEF BankInv

\* A failed read leaves the old publication and ends the cycle.
LEMMA KeepReadFails ==
    ASSUME BankAssumption, BankInv, ReadFails
    PROVE  BankInv'
<1>1. worker' = Idle /\ UNCHANGED <<world, bank, work, hist>>
  BY DEF ReadFails
<1>2. BankTypeOK'
  BY <1>1, EmptyFacts DEF BankInv, BankTypeOK, world, bank, hist, WorkerType, BankAssumption
<1>3. PublicationIsWhole'
  BY <1>1 DEF BankInv, PublicationIsWhole, bank
<1>4. ThreadInv'
  BY <1>1 DEF ThreadInv, Idle
<1>. QED  BY <1>2, <1>3, <1>4 DEF BankInv

\* Invalidation removes the publication with its feed's health.
LEMMA KeepInvalidate ==
    ASSUME BankAssumption, BankInv, Invalidate
    PROVE  BankInv'
<1>1. /\ feed' = IF published # NoSnapshot THEN Invalidated(feed) ELSE feed
      /\ published' = NoSnapshot /\ worker' = Idle
      /\ gap' = (gap \/ (published # NoSnapshot /\ work.pc # "none"))
      /\ UNCHANGED <<world, layout, rotated, work, seen>>
  BY DEF Invalidate
<1>2. feed' \in [current : Snapshot, healthy : BOOLEAN, revision : 0..MaxRevision]
  <2>1. feed \in [current : Snapshot, healthy : BOOLEAN, revision : 0..MaxRevision]
    BY DEF BankInv, BankTypeOK
  <2>2. feed.revision < MaxRevision => feed.revision + 1 \in 0..MaxRevision
    BY <2>1 DEF BankAssumption
  <2>. QED  BY <1>1, <2>1, <2>2 DEF Invalidated, Numbered
<1>3. BankTypeOK'
  BY <1>1, <1>2, EmptyFacts DEF BankInv, BankTypeOK, world, WorkerType, BankAssumption
<1>4. PublicationIsWhole'
  BY <1>1 DEF PublicationIsWhole
<1>5. ThreadInv'
  BY <1>1 DEF ThreadInv, Idle
<1>. QED  BY <1>3, <1>4, <1>5 DEF BankInv

\* publish_layout prepares a snapshot of the present layout in order, or the
\* cycle goes on to a fallback or a rotation.
LEMMA KeepPrepare ==
    ASSUME BankAssumption, BankInv, PreparePublication
    PROVE  BankInv'
<1>1. /\ worker.pc = "publish" /\ worker.slot \in Slot
      /\ UNCHANGED <<world, layout, feed, published, work, hist>>
  BY DEF PreparePublication, BankInv, ThreadInv
<1>2. PublicationIsWhole'
  BY <1>1 DEF BankInv, PublicationIsWhole
<1>3. CASE Numbered(feed) /\ InOrder(feed, worker.slot)
             /\ ContentAt[worker.slot] \in Covers[layout]
  <2>1. /\ worker' = [worker EXCEPT !.pc = "commit", !.next = Prepared(feed, layout, worker.slot)]
        /\ UNCHANGED rotated
    BY <1>3 DEF PreparePublication
  <2>2. /\ Prepared(feed, layout, worker.slot) \in Snapshot
        /\ Prepared(feed, layout, worker.slot).slot = worker.slot
        /\ Prepared(feed, layout, worker.slot).layout = layout
        /\ Prepared(feed, layout, worker.slot).content = ContentAt[worker.slot]
    <3>1. feed.current \in Snapshot /\ feed.revision \in 0..MaxRevision
      BY DEF BankInv, BankTypeOK
    <3>2. feed.revision \in 0..(MaxRevision - 1)
      BY <1>3, <3>1 DEF Numbered, BankAssumption
    <3>. QED  BY <1>1, <3>1, <3>2, PreparedFacts DEF BankInv, BankTypeOK
  <2>3. AtOrAfter(worker.slot)
    BY <1>3 DEF AtOrAfter, InOrder, BankInv, PublicationIsWhole
  <2>4. worker \in WorkerType
    BY DEF BankInv, BankTypeOK, WorkerType
  <2>. DEFINE P == Prepared(feed, layout, worker.slot)
  <2>. HIDE DEF P
  <2>5. /\ worker' = [worker EXCEPT !.pc = "commit", !.next = P] /\ P \in Snapshot
        /\ P.slot = worker.slot /\ P.layout = layout /\ P.content = ContentAt[worker.slot]
    BY <2>1, <2>2 DEF P
  <2>6. BankTypeOK'
    BY <1>1, <2>1, <2>4, <2>5 DEF BankInv, BankTypeOK, world, hist, WorkerType
  <2>7. ThreadInv'
    BY <1>1, <1>3, <2>3, <2>4, <2>5 DEF ThreadInv, AtOrAfter, WorkerType
  <2>. QED  BY <1>2, <2>6, <2>7 DEF BankInv
<1>4. CASE ~(Numbered(feed) /\ InOrder(feed, worker.slot)
             /\ ContentAt[worker.slot] \in Covers[layout])
  <2>1. PublishFails
    BY <1>4 DEF PreparePublication
  <2>2. worker \in WorkerType
    BY DEF BankInv, BankTypeOK, WorkerType
  <2>3. CASE worker.source = "direct"
    <3>1. worker' = [worker EXCEPT !.pc = "fallback"] /\ UNCHANGED rotated
      BY <2>1, <2>3 DEF PublishFails
    <3>2. BankTypeOK'
      BY <1>1, <2>2, <3>1 DEF BankInv, BankTypeOK, world, hist, WorkerType
    <3>3. ThreadInv'
      BY <2>2, <3>1 DEF ThreadInv, WorkerType
    <3>. QED  BY <1>2, <3>2, <3>3 DEF BankInv
  <2>4. CASE worker.source # "direct"
    <3>1. worker.source = "rpc" /\ AtOrAfter(worker.slot)
      BY <1>1, <2>2, <2>4 DEF BankInv, ThreadInv, WorkerType
    <3>2. \/ worker' = [worker EXCEPT !.pc = "rotate"] /\ rotated' = worker.slot
          \/ worker' = Idle /\ UNCHANGED rotated
      BY <2>1, <2>4 DEF PublishFails
    <3>3. BankTypeOK'
      <4>1. worker' \in WorkerType /\ rotated' \in 0..BankSlots
        BY <1>1, <2>2, <3>2, EmptyFacts DEF BankInv, BankTypeOK, WorkerType
      <4>. QED  BY <1>1, <4>1 DEF BankInv, BankTypeOK, world, hist, WorkerType
    <3>4. ThreadInv'
      BY <1>1, <2>2, <3>1, <3>2 DEF ThreadInv, AtOrAfter, Idle, WorkerType
    <3>. QED  BY <1>2, <3>3, <3>4 DEF BankInv
  <2>. QED  BY <2>3, <2>4
<1>. QED  BY <1>3, <1>4

\* What the commit of a snapshot makes of the bank, in either commit.
LEMMA CommitWhole ==
    ASSUME BankAssumption, NEW n \in Snapshot, n.content \in Covers[n.layout],
           feed' = Installed(n), published' = n, layout' = n.layout
    PROVE  /\ PublicationIsWhole'
           /\ feed' \in [current : Snapshot, healthy : BOOLEAN, revision : 0..MaxRevision]
<1>1. n.revision \in 0..MaxRevision
  BY DEF Snapshot
<1>. QED  BY <1>1 DEF Installed, PublicationIsWhole

\* The history of first publications keeps its type.
LEMMA WitnessFacts ==
    ASSUME BankAssumption, BankTypeOK, NEW n \in Snapshot, Witness(n)
    PROVE  seen' \in [Slot -> 0..Never] /\ gap' \in BOOLEAN
<1>1. seen' = [seen EXCEPT ![n.slot] = IF @ = Never THEN now ELSE @] /\ gap' = gap
  BY DEF Witness
<1>2. now \in 0..Never
  BY DEF BankTypeOK, Never, BankAssumption
<1>. QED  BY <1>1, <1>2 DEF BankTypeOK

\* publish_layout commits the prepared snapshot, for the layout it was
\* prepared under.
LEMMA KeepCommit ==
    ASSUME BankAssumption, BankInv, CommitPublication
    PROVE  BankInv' /\ AtOrAfter(published'.slot)
<1>1. /\ worker.pc = "commit" /\ feed' = Installed(worker.next)
      /\ published' = worker.next /\ Witness(worker.next)
      /\ UNCHANGED <<world, layout, work>>
  BY DEF CommitPublication
<1>2. /\ worker.next \in Snapshot /\ worker.slot \in Slot
      /\ AtOrAfter(worker.slot) /\ worker.next.slot = worker.slot
      /\ worker.next.layout = layout /\ worker.next.content \in Covers[layout]
  BY <1>1 DEF BankInv, BankTypeOK, ThreadInv
<1>3. \/ worker' = [worker EXCEPT !.pc = "fallback"] /\ UNCHANGED rotated
      \/ worker' = [worker EXCEPT !.pc = "rotate"] /\ rotated' = worker.slot
      \/ worker' = Idle /\ UNCHANGED rotated
  BY Zenon DEF CommitPublication
<1>4. /\ PublicationIsWhole'
      /\ feed' \in [current : Snapshot, healthy : BOOLEAN, revision : 0..MaxRevision]
  BY <1>1, <1>2, CommitWhole
<1>5. seen' \in [Slot -> 0..Never] /\ gap' \in BOOLEAN
  BY <1>1, <1>2, WitnessFacts DEF BankInv
<1>6. worker \in WorkerType
  BY DEF BankInv, BankTypeOK, WorkerType
<1>7. BankTypeOK'
  <2>1. worker' \in WorkerType /\ rotated' \in 0..BankSlots
    BY <1>2, <1>3, <1>6, EmptyFacts DEF BankInv, BankTypeOK, WorkerType
  <2>. QED  BY <1>1, <1>2, <1>4, <1>5, <2>1 DEF BankInv, BankTypeOK, world, WorkerType
<1>8. ThreadInv'
  BY <1>1, <1>2, <1>3, <1>6 DEF ThreadInv, AtOrAfter, Idle, WorkerType
<1>. QED  BY <1>1, <1>2, <1>4, <1>7, <1>8 DEF BankInv

\* rotate_bank commits a new horizon from a feed of its own, read at or after
\* the group that called for it.
LEMMA KeepRotation ==
    ASSUME BankAssumption, BankInv, NEW tick \in Slot, CommitRotation(tick)
    PROVE  BankInv' /\ AtOrAfter(published'.slot)
<1>. DEFINE new == LayoutFor[ContentAt[worker.slot]]
            next == Prepared(FreshFeed, new, tick)
<1>1. /\ worker.pc = "rotate" /\ worker.slot <= tick /\ tick <= tip
      /\ ContentAt[tick] \in Covers[new] /\ layout' = new
      /\ feed' = Installed(next) /\ published' = next
      /\ Witness(next) /\ worker' = Idle
      /\ UNCHANGED <<world, rotated, work>>
  BY Zenon DEF CommitRotation, RotationMinimum
<1>2. worker.slot \in Slot /\ AtOrAfter(worker.slot)
  BY <1>1 DEF BankInv, ThreadInv
<1>3. new \in Layout
  BY <1>2 DEF BankAssumption, Slot
<1>4. next \in Snapshot /\ next.slot = tick /\ next.layout = new /\ next.content = ContentAt[tick]
  <2>1. FreshFeed.revision \in 0..(MaxRevision - 1) /\ FreshFeed.current \in Snapshot
    BY EmptyFacts DEF FreshFeed, BankAssumption
  <2>. QED  BY <1>3, <2>1, PreparedFacts DEF BankInv, BankTypeOK
<1>. HIDE DEF new, next
<1>5. /\ PublicationIsWhole'
      /\ feed' \in [current : Snapshot, healthy : BOOLEAN, revision : 0..MaxRevision]
  BY <1>1, <1>4, CommitWhole
<1>6. seen' \in [Slot -> 0..Never] /\ gap' \in BOOLEAN
  BY <1>1, <1>4, WitnessFacts DEF BankInv
<1>7. BankTypeOK'
  BY <1>1, <1>3, <1>4, <1>5, <1>6, EmptyFacts DEF BankInv, BankTypeOK, world, WorkerType
<1>8. ThreadInv'
  BY <1>1 DEF ThreadInv, Idle
<1>9. AtOrAfter(published'.slot)
  <2>1. published \in Snapshot
    BY DEF BankInv, BankTypeOK
  <2>2. published.slot \in Int /\ worker.slot \in Int /\ tick \in Int
    BY <1>2, <2>1 DEF Snapshot, Slot
  <2>. QED  BY <1>1, <1>2, <1>4, <2>2 DEF AtOrAfter
<1>. QED  BY <1>5, <1>7, <1>8, <1>9 DEF BankInv

\* The wallet's request reads the bank and changes nothing of it.
LEMMA KeepWork ==
    ASSUME BankAssumption, BankInv,
           \/ StartPrepare \/ AdmitPrepared \/ AuthorizeSubmission \/ DropWork
           \/ \E tick \in Slot : ReadExecutionBank(tick)
    PROVE  BankInv'
<1>1. UNCHANGED <<world, bank, worker, seen>>
  BY DEF StartPrepare, AdmitPrepared, AuthorizeSubmission, DropWork, ReadExecutionBank, hist
<1>2. gap' \in BOOLEAN
  BY DEF StartPrepare, AdmitPrepared, AuthorizeSubmission, DropWork, ReadExecutionBank, hist,
         BankInv, BankTypeOK
<1>. DEFINE Work == [pc : {"none", "reading", "simulating", "prepared"},
                     layout : Layout, content : Content, slot : 0..BankSlots, observed : 0..MaxNow]
<1>3. work' \in Work
  <2>1. work \in Work /\ published \in Snapshot /\ now \in 0..MaxNow
    BY DEF BankInv, BankTypeOK
  <2>2. NoWork \in Work
    BY EmptyFacts DEF NoWork, BankAssumption, Slot
  <2>3. CASE StartPrepare
    <3>1. work' = [NoWork EXCEPT !.pc = "reading", !.slot = published.slot,
                                 !.layout = published.layout, !.content = published.content]
      BY <2>3 DEF StartPrepare
    <3>. QED  BY <2>1, <2>2, <3>1 DEF Snapshot
  <2>4. CASE AdmitPrepared
    BY <2>1, <2>4 DEF AdmitPrepared
  <2>5. CASE AuthorizeSubmission \/ DropWork
    BY <2>2, <2>5 DEF AuthorizeSubmission, DropWork
  <2>6. ASSUME NEW tick \in Slot, ReadExecutionBank(tick)
        PROVE  work' \in Work
    <3>1. work' = [work EXCEPT !.pc = "simulating", !.slot = tick, !.observed = now]
      BY <2>6 DEF ReadExecutionBank
    <3>2. tick \in 0..BankSlots
      BY EmptyFacts
    <3>. QED  BY <2>1, <3>1, <3>2
  <2>. QED  BY <2>3, <2>4, <2>5, <2>6
<1>4. BankTypeOK'
  BY <1>1, <1>2, <1>3 DEF BankInv, BankTypeOK, world, bank
<1>5. PublicationIsWhole' /\ ThreadInv'
  BY <1>1 DEF BankInv, PublicationIsWhole, ThreadInv, AtOrAfter, bank
<1>. QED  BY <1>4, <1>5 DEF BankInv

\* The chain, the clock and the verification of the node touch no bank.
LEMMA KeepWorld ==
    ASSUME BankAssumption, BankInv, VerifyRpc \/ Advance
    PROVE  BankInv'
<1>1. UNCHANGED <<bank, worker, work, hist>>
  BY DEF VerifyRpc, Advance
<1>2. tip' \in Slot /\ now' \in 0..MaxNow /\ rpc' \in BOOLEAN
  <2>1. /\ tip \in 1..BankSlots /\ now \in 0..MaxNow /\ rpc \in BOOLEAN
        /\ BankSlots \in Nat /\ MaxNow \in Nat
    BY DEF BankInv, BankTypeOK, Slot, BankAssumption
  <2>2. CASE VerifyRpc
    BY <2>1, <2>2 DEF VerifyRpc, Slot
  <2>3. CASE Advance
    BY <2>1, <2>3 DEF Advance, Slot
  <2>. QED  BY <2>2, <2>3
<1>3. BankTypeOK'
  BY <1>1, <1>2 DEF BankInv, BankTypeOK, bank, hist
<1>4. PublicationIsWhole' /\ ThreadInv'
  BY <1>1 DEF BankInv, PublicationIsWhole, ThreadInv, AtOrAfter, bank
<1>. QED  BY <1>3, <1>4 DEF BankInv

\* Every step keeps the invariant, and one that leaves a publication where
\* there was one has not taken its slot back.
LEMMA BankStep ==
    ASSUME BankAssumption, BankInv, [BankNext]_bankVars
    PROVE  /\ BankInv'
           /\ published # NoSnapshot /\ published' # NoSnapshot
                => published.slot <= published'.slot
<1>. DEFINE Forward == published # NoSnapshot /\ published' # NoSnapshot
                          => published.slot <= published'.slot
<1>1. UNCHANGED published => Forward
  BY DEF BankInv, BankTypeOK, Snapshot
<1>2. ASSUME UNCHANGED bankVars
      PROVE  BankInv' /\ Forward
  BY <1>1, <1>2 DEF bankVars, BankInv, BankTypeOK, PublicationIsWhole, ThreadInv, AtOrAfter
<1>3. ASSUME NEW tick \in Slot, ReadDirect(tick) \/ ReadGroup(tick)
      PROVE  BankInv' /\ Forward
  BY <1>1, <1>3, KeepRead DEF ReadDirect, ReadGroup, bank
<1>4. ASSUME NEW tick \in Slot, CommitRotation(tick)
      PROVE  BankInv' /\ Forward
  BY <1>4, KeepRotation DEF AtOrAfter
<1>5. ASSUME NEW tick \in Slot, ReadExecutionBank(tick)
      PROVE  BankInv' /\ Forward
  BY <1>1, <1>5, KeepWork DEF ReadExecutionBank, bank
<1>6. ASSUME ReadFails
      PROVE  BankInv' /\ Forward
  BY <1>1, <1>6, KeepReadFails DEF ReadFails, bank
<1>7. ASSUME Invalidate
      PROVE  BankInv' /\ Forward
  BY <1>7, KeepInvalidate DEF Invalidate
<1>8. ASSUME PreparePublication
      PROVE  BankInv' /\ Forward
  BY <1>1, <1>8, KeepPrepare DEF PreparePublication
<1>9. ASSUME CommitPublication
      PROVE  BankInv' /\ Forward
  BY <1>9, KeepCommit DEF AtOrAfter
<1>10. ASSUME StartPrepare \/ AdmitPrepared \/ AuthorizeSubmission \/ DropWork
       PROVE  BankInv' /\ Forward
  BY <1>1, <1>10, KeepWork DEF StartPrepare, AdmitPrepared, AuthorizeSubmission, DropWork, bank
<1>11. ASSUME VerifyRpc \/ Advance
       PROVE  BankInv' /\ Forward
  BY <1>1, <1>11, KeepWorld DEF VerifyRpc, Advance, bank
<1>. QED
  BY <1>2, <1>3, <1>4, <1>5, <1>6, <1>7, <1>8, <1>9, <1>10, <1>11, Zenon DEF BankNext

-----------------------------------------------------------------------------
(* The theorems.                                                           *)

\* The bank, its feed and the refresh thread agree in every reachable state.
THEOREM BankInvariant ==
    ASSUME BankAssumption
    PROVE  BankSpec => []BankInv
<1>1. BankInit => BankInv
  BY BankStarts
<1>2. BankInv /\ [BankNext]_bankVars => BankInv'
  BY BankStep
<1>. QED  BY <1>1, <1>2, PTL DEF BankSpec

\* Every variable of the bank keeps its type: no revision is lost to the
\* counter's limit and no slot beyond the chain is published.
THEOREM BankTypes ==
    ASSUME BankAssumption
    PROVE  BankSpec => []BankTypeOK
<1>1. BankInv => BankTypeOK
  BY DEF BankInv
<1>. QED  BY <1>1, BankInvariant, PTL

\* Whatever the sources serve, quotes are read from a whole publication
\* (publish_layout: feed and worlds change together) whose slot never goes back
\* while the bank stays published, also over a rotation to a new feed.
THEOREM BankMovesForward ==
    ASSUME BankAssumption
    PROVE  BankSpec => BankAdvancesWhole
<1>1. BankInv => PublicationIsWhole
  BY DEF BankInv
<1>2. BankInv /\ [BankNext]_bankVars
        => [published # NoSnapshot /\ published' # NoSnapshot
              => published.slot <= published'.slot]_bankVars
  BY BankStep
<1>. QED  BY <1>1, <1>2, BankInvariant, PTL DEF BankSpec, BankAdvancesWhole, SlotAdvances

-----------------------------------------------------------------------------
(* Serving the banks from the direct stream.                               *)

\* Through a cycle of the refresh thread the layout is the one it wanted when
\* it began, and the frame it goes on with was watched for that layout.
CycleOnLayout ==
    /\ refresh \in {"connected", "promoted", "use"} => wanted = bankKeys
    /\ refresh \in {"connected", "promoted", "use"} /\ candidate # NoFrame => candidate.watch = wanted

\* Whatever the reader thread does between the refresh thread's reads of the
\* flags and of the latest frame, a frame that banks are published from holds
\* the accounts of the layouts that they have then.
\* (direct_state.rs: snapshot; stockmesh_api.rs: refresh_direct_group_once)
THEOREM FrameOnLayout == StreamSpec => []ServedOnWatch
<1>1. StreamInit => CycleOnLayout
    BY DEF StreamInit, CycleOnLayout
<1>2. CycleOnLayout /\ [StreamNext]_streamVars => CycleOnLayout'
  <2> SUFFICES ASSUME CycleOnLayout, [StreamNext]_streamVars PROVE CycleOnLayout'
      OBVIOUS
  \* The producer and the reader thread leave the cycle and the layouts alone.
  <2>1. CASE \/ Send \/ Stall \/ StreamReadFails \/ \E kind \in Faults : SendFault(kind)
             \/ Connect \/ Connected \/ CheckWatch \/ ReadFrame \/ Disconnect \/ Demote \/ Forget
             \/ UNCHANGED streamVars
    <3>1. UNCHANGED <<bankKeys, refresh, wanted, candidate>>
        BY <2>1 DEF Send, Stall, StreamReadFails, SendFault, Connect, Connected, CheckWatch,
                    ReadFrame, Disconnect, Demote, Forget, streamVars, cycle
    <3> QED BY <3>1 DEF CycleOnLayout
  <2>2. CASE LoadConnected
      BY <2>2 DEF LoadConnected, CycleOnLayout
  <2>3. CASE LoadPromoted
    <3>1. /\ refresh = "connected" /\ wanted = bankKeys
          /\ refresh' \in {"promoted", "use"} /\ UNCHANGED <<bankKeys, wanted, candidate>>
        BY <2>3 DEF LoadPromoted, CycleOnLayout
    <3>2. candidate # NoFrame => candidate.watch = wanted
        BY <3>1 DEF CycleOnLayout
    <3> QED BY <3>1, <3>2 DEF CycleOnLayout
  \* The frame is compared with what the cycle wanted.
  <2>4. CASE LoadLatest
    <3>1. /\ refresh = "promoted" /\ refresh' = "use" /\ UNCHANGED <<bankKeys, wanted>>
          /\ candidate' = IF Servable(latest) THEN latest ELSE NoFrame
        BY <2>4 DEF LoadLatest
    <3> QED BY <3>1 DEF CycleOnLayout, Servable
  <2>5. CASE ServeDirect \/ RefuseDirect \/ FallBack
      BY <2>5 DEF ServeDirect, RefuseDirect, FallBack, CycleOnLayout
  \* Only a read by RPC rotates a layout, and the cycle ends with it.
  <2>6. CASE ReadRpc
      BY <2>6 DEF ReadRpc, CycleOnLayout
  <2> QED BY <2>1, <2>2, <2>3, <2>4, <2>5, <2>6 DEF StreamNext
<1>3. CycleOnLayout => ServedOnWatch
    BY DEF CycleOnLayout, ServedOnWatch
<1> QED BY <1>1, <1>2, <1>3, PTL DEF StreamSpec

-----------------------------------------------------------------------------
(* Capsules: the floor is kept and the rest has room, for plans of any     *)
(* size, and a capsule settles once.  The inductive invariant adds to the  *)
(* checked properties that a plan's account holds terms which Initialize   *)
(* accepted, and that what has settled lies behind the plan's next         *)
(* sequence.                                                               *)

\* The terms of every plan passed the checks of Initialize.
TermsAccepted ==
    \A p \in Live :
        /\ plans[p].terms.total > 0
        /\ plans[p].terms.size > 0
        /\ plans[p].terms.total <= MaxCapsules * plans[p].terms.size

\* Every settled capsule lies behind its plan's next sequence.
Past ==
    \A i \in 1..Len(settled) :
        LET c == settled[i].capsule
        IN  c.plan \in Live /\ c.sequence < plans[c.plan].next

IInv == TypeOK /\ TermsAccepted /\ FloorKept /\ RoomForRest /\ Past /\ CapsuleSettlesOnce

\* Division rounded up covers its dividend.
LEMMA CeilCovers ==
    ASSUME NEW n \in Nat, NEW d \in Nat \ {0}
    PROVE  CeilDiv(n, d) \in Nat /\ CeilDiv(n, d) * d >= n
<1>. DEFINE q == n \div d
            r == n % d
<1>1. q \in Int /\ r \in 0..(d - 1) /\ n = d * q + r
  OBVIOUS
<1>2. q \in Nat
  BY SMT
<1>3. CeilDiv(n, d) = q + (IF r = 0 THEN 0 ELSE 1)
  BY DEF CeilDiv
<1>. HIDE DEF q, r
<1>4. CASE r = 0
  BY <1>1, <1>2, <1>3, <1>4
<1>5. CASE r # 0
  <2>1. (q + 1) * d = d * q + d
    BY <1>2
  <2>. QED  BY <1>1, <1>2, <1>3, <1>5, <2>1
<1>. QED  BY <1>4, <1>5

\* Multiplication keeps the order of natural numbers.
LEMMA Scales ==
    ASSUME NEW x \in Nat, NEW y \in Nat, NEW d \in Nat, x >= y
    PROVE  x * d >= y * d
  OBVIOUS

\* There is no plan at the start.
LEMMA InitKeeps == Init => IInv
<1>. SUFFICES ASSUME Init PROVE IInv
  OBVIOUS
<1>1. Live = {}
  BY DEF Init, Live
<1>2. TypeOK
  BY <1>1, CapsuleAssumption, SMT DEF Init, TypeOK, PolicyType, NoPolicy, FlagType
<1>3. Past /\ CapsuleSettlesOnce
  BY DEF Init, Past, CapsuleSettlesOnce
<1>. QED  BY <1>1, <1>2, <1>3 DEF IInv, TermsAccepted, FloorKept, RoomForRest

\* A plan that Initialize accepts can be settled in the capsules there are.
LEMMA InitializeKeeps ==
    ASSUME IInv, NEW p \in Plan, NEW t \in Terms, Initialize(p, t)
    PROVE  IInv'
<1>. DEFINE new == [terms |-> t, settledIn |-> 0, settledOut |-> 0, next |-> t.first, count |-> 0]
<1>1. /\ plans[p] = NoPlan
      /\ plans' = [plans EXCEPT ![p] = new]
      /\ UNCHANGED <<nonce, policy, slot, signed, settled>>
  BY DEF Initialize
<1>2. t \in TermType /\ t.total \in Nat \ {0} /\ t.size \in Nat \ {0}
  BY CapsuleAssumption DEF Initialize, Plannable, TermType
<1>3. new \in PlanType /\ Agrees(new)
  BY <1>2, CapsuleAssumption DEF PlanType, Agrees, TermType, Lesser
<1>4. plans \in [Plan -> PlanType \cup {NoPlan}] /\ new # NoPlan
  BY <1>3, CapsuleAssumption DEF IInv, TypeOK, PlanType
<1>5. plans'[p] = new /\ \A q \in Plan \ {p} : plans'[q] = plans[q]
  BY <1>1, <1>4
<1>6. Live' = Live \cup {p}
  BY <1>1, <1>4, <1>5 DEF Live
<1>7. t.total <= MaxCapsules * t.size
  <2>1. CapsulesNeeded(t) <= MaxCapsules
    BY DEF Initialize, Plannable
  <2>2. CapsulesNeeded(t) \in Nat /\ CapsulesNeeded(t) * t.size >= t.total
    BY <1>2, CeilCovers DEF CapsulesNeeded
  <2>. DEFINE k == CapsulesNeeded(t)
  <2>. HIDE DEF k
  <2>3. MaxCapsules * t.size >= k * t.size
    BY <1>2, <2>1, <2>2, Scales, CapsuleAssumption DEF k
  <2>. QED  BY <1>2, <2>2, <2>3, CapsuleAssumption DEF k
<1>8. TypeOK'
  <2>1. plans' \in [Plan -> PlanType \cup {NoPlan}]
    BY <1>1, <1>3, <1>4
  <2>2. \A q \in Live' : Agrees(plans'[q])
    BY <1>3, <1>5, <1>6 DEF IInv, TypeOK, Live
  <2>. QED  BY <1>1, <2>1, <2>2 DEF IInv, TypeOK
<1>9. TermsAccepted'
  BY <1>2, <1>5, <1>6, <1>7 DEF IInv, TermsAccepted, Live
<1>10. FloorKept'
  <2>1. new.settledOut * t.total >= new.settledIn * t.minimum
    BY <1>2 DEF TermType
  <2>. QED  BY <1>5, <1>6, <2>1 DEF IInv, FloorKept, Live
<1>11. RoomForRest'
  <2>1. t.total - new.settledIn <= (MaxCapsules - new.count) * t.size
    BY <1>2, <1>7, CapsuleAssumption
  <2>. QED  BY <1>5, <1>6, <2>1 DEF IInv, RoomForRest, Live
<1>12. Past' /\ CapsuleSettlesOnce'
  BY <1>1, <1>5, <1>6 DEF IInv, Past, CapsuleSettlesOnce, Live
<1>. QED  BY <1>8, <1>9, <1>10, <1>11, <1>12 DEF IInv

\* What a settled capsule makes of its plan.
LEMMA CapsuleMoves ==
    ASSUME IInv, NEW s \in signed, Execute(s)
    PROVE  LET c == s.capsule
               plan == plans[c.plan]
           IN  /\ c \in Capsules
               /\ c.plan \in Live
               /\ plan \in PlanType
               /\ plan.next = c.sequence
               /\ c.input = InputDue(plan)
               /\ plan.settledIn < plan.terms.total
               /\ plan.count < MaxCapsules
               /\ \E output \in Nat :
                     /\ plan.settledOut + output >= FloorAfter(plan, c.input)
                     /\ plans' = [plans EXCEPT ![c.plan] = Progressed(plan, c.input, output)]
               /\ settled' = Append(settled, s)
               /\ nonce' = nonce + 1
               /\ UNCHANGED <<policy, slot, signed>>
<1>. DEFINE c == s.capsule
            plan == plans[c.plan]
<1>1. c \in Capsules /\ c.plan \in Plan /\ c.minOut \in Nat
  BY CapsuleAssumption DEF IInv, TypeOK, CapsuleType, SignedType
<1>2. /\ Admissible(s)
      /\ nonce' = nonce + 1
      /\ UNCHANGED <<policy, slot, signed>>
  BY DEF Execute
<1>3. plan # NoPlan /\ InTurn(plan, c) /\ Open(plan) /\ c.input = InputDue(plan)
  BY <1>2, Zenon DEF Admissible
<1>4. PICK output \in c.minOut..(c.minOut + MaxBonus) :
         /\ Progressed(plan, c.input, output).settledOut >= FloorAfter(plan, c.input)
         /\ plans' = [plans EXCEPT ![c.plan] = Progressed(plan, c.input, output)]
         /\ settled' = Append(settled, s)
  BY Zenon DEF Execute
<1>5. plan \in PlanType /\ c.plan \in Live
  BY <1>1, <1>3 DEF IInv, TypeOK, Live
<1>6. output \in Nat
  BY <1>1, CapsuleAssumption
<1>7. Progressed(plan, c.input, output).settledOut = plan.settledOut + output
  BY <1>5 DEF Progressed, PlanType
<1>. QED  BY <1>1, <1>2, <1>3, <1>4, <1>5, <1>6, <1>7 DEF InTurn, Open

\* The counters of a plan after one more capsule.
LEMMA CountersMove ==
    ASSUME NEW total \in Nat \ {0}, NEW size \in Nat \ {0}, NEW count \in Nat,
           NEW limit \in Nat, count < limit, total <= limit * size,
           NEW before, before = Lesser(count * size, total), before < total,
           NEW input, input = Lesser(total - before, size)
    PROVE  /\ input \in Nat
           /\ before + input = Lesser((count + 1) * size, total)
           /\ total - (before + input) <= (limit - (count + 1)) * size
<1>. DEFINE all == count * size
            most == limit * size
<1>1. all \in Nat /\ most \in Nat
  OBVIOUS
<1>2. (count + 1) * size = all + size
  OBVIOUS
<1>3. (limit - (count + 1)) * size = most - all - size
  OBVIOUS
<1>4. (limit - (count + 1)) * size >= 0
  OBVIOUS
<1>5. before = Lesser(all, total) /\ total <= most
  OBVIOUS
<1>. HIDE DEF all, most
<1>6. before = all
  BY <1>1, <1>5 DEF Lesser
<1>. QED  BY <1>1, <1>2, <1>3, <1>4, <1>5, <1>6 DEF Lesser

\* Opcode 11 settles one capsule: the plan's counters move on by it, its floor
\* and its room are kept, and its sequence lies behind from then on.
LEMMA ExecuteKeeps ==
    ASSUME IInv, NEW s \in signed, Execute(s)
    PROVE  IInv'
<1>. DEFINE c == s.capsule
            P == c.plan
            plan == plans[P]
            terms == plan.terms
            input == c.input
<1>1. /\ c \in Capsules
      /\ P \in Live
      /\ plan \in PlanType
      /\ plan.next = c.sequence
      /\ input = InputDue(plan)
      /\ plan.settledIn < terms.total
      /\ plan.count < MaxCapsules
      /\ \E output \in Nat :
            /\ plan.settledOut + output >= FloorAfter(plan, input)
            /\ plans' = [plans EXCEPT ![P] = Progressed(plan, input, output)]
      /\ settled' = Append(settled, s)
      /\ nonce' = nonce + 1
      /\ UNCHANGED <<policy, slot, signed>>
  BY CapsuleMoves
<1>2. PICK output \in Nat :
            /\ plan.settledOut + output >= FloorAfter(plan, input)
            /\ plans' = [plans EXCEPT ![P] = Progressed(plan, input, output)]
  BY <1>1
<1>. DEFINE after == Progressed(plan, input, output)
<1>0. MaxCapsules \in Nat
  BY CapsuleAssumption
<1>a. /\ plan.terms.total > 0
      /\ plan.terms.size > 0
      /\ plan.terms.total <= MaxCapsules * plan.terms.size
  BY <1>1 DEF IInv, TermsAccepted
<1>b. Agrees(plan)
  BY <1>1 DEF IInv, TypeOK
<1>c. P \in Plan /\ plan = plans[P]
  BY <1>1 DEF Live
<1>d. c = s.capsule
  OBVIOUS
<1>. HIDE DEF plan, c
<1>3. /\ plan.settledIn \in Nat /\ plan.settledOut \in Nat /\ plan.next \in Nat
      /\ plan.count \in Nat /\ terms \in TermType
      /\ terms.minimum \in Nat /\ terms.first \in Nat
  <2>1. terms \in TermType /\ plan.count \in 0..MaxCapsules
    BY <1>1 DEF PlanType
  <2>. QED  BY <1>0, <1>1, <2>1 DEF PlanType, TermType
<1>4. /\ terms.total \in Nat \ {0}
      /\ terms.size \in Nat \ {0}
      /\ terms.total <= MaxCapsules * terms.size
  <2>1. terms.total \in Nat /\ terms.size \in Nat
    BY <1>3 DEF TermType
  <2>. QED  BY <1>a, <2>1
<1>5. /\ plan.next = terms.first + plan.count
      /\ plan.settledIn = Lesser(plan.count * terms.size, terms.total)
  BY <1>b DEF Agrees
<1>6. /\ input \in Nat
      /\ plan.settledIn + input = Lesser((plan.count + 1) * terms.size, terms.total)
      /\ terms.total - (plan.settledIn + input)
            <= (MaxCapsules - (plan.count + 1)) * terms.size
  <2>1. input = Lesser(terms.total - plan.settledIn, terms.size)
    BY <1>1 DEF InputDue
  <2>2. plan.settledIn < terms.total
    BY <1>1
  <2>3. plan.count < MaxCapsules
    BY <1>1
  <2>. DEFINE total == terms.total
             size == terms.size
             count == plan.count
             before == plan.settledIn
  <2>4. /\ total \in Nat \ {0} /\ size \in Nat \ {0} /\ count \in Nat
        /\ count < MaxCapsules /\ total <= MaxCapsules * size
        /\ before = Lesser(count * size, total) /\ before < total
        /\ input = Lesser(total - before, size)
    BY <1>3, <1>4, <1>5, <2>1, <2>2, <2>3, Zenon
  <2>. HIDE DEF total, size, count, before, input
  <2>5. /\ input \in Nat
        /\ before + input = Lesser((count + 1) * size, total)
        /\ total - (before + input) <= (MaxCapsules - (count + 1)) * size
    BY <1>0, <2>4, CountersMove
  <2>. QED  BY <2>5, Zenon DEF total, size, count, before
<1>7. /\ after.terms = terms
      /\ after.settledIn = plan.settledIn + input
      /\ after.settledOut = plan.settledOut + output
      /\ after.next = plan.next + 1
      /\ after.count = plan.count + 1
      /\ after \in PlanType
  <2>1. plan.count + 1 \in 0..MaxCapsules
    BY <1>0, <1>1, <1>3
  <2>2. plan \in [terms : TermType, settledIn : Nat, settledOut : Nat, next : Nat,
                  count : 0..MaxCapsules]
    BY <1>1 DEF PlanType
  <2>3. after = [plan EXCEPT !.settledIn = @ + input, !.settledOut = @ + output,
                             !.next = @ + 1, !.count = @ + 1]
    BY DEF Progressed
  <2>. HIDE DEF after
  <2>4. /\ after.terms = terms
        /\ after.settledIn = plan.settledIn + input
        /\ after.settledOut = plan.settledOut + output
        /\ after.next = plan.next + 1
        /\ after.count = plan.count + 1
    BY <2>2, <2>3
  <2>5. after \in [terms : TermType, settledIn : Nat, settledOut : Nat, next : Nat,
                   count : 0..MaxCapsules]
    <3>1. plan.settledIn + input \in Nat
      BY <1>3, <1>6
    <3>2. plan.settledOut + output \in Nat /\ plan.next + 1 \in Nat
      BY <1>3
    <3>. QED  BY <2>1, <2>2, <2>3, <3>1, <3>2
  <2>. QED  BY <2>4, <2>5 DEF PlanType
<1>8. /\ plans \in [Plan -> PlanType \cup {NoPlan}]
      /\ P \in Plan
      /\ after # NoPlan
  <2>1. \A x \in PlanType : x # NoPlan
    BY CapsuleAssumption DEF PlanType
  <2>. QED  BY <1>7, <1>c, <2>1 DEF IInv, TypeOK
<1>9. /\ plans' = [plans EXCEPT ![P] = after]
      /\ plans'[P] = after
      /\ \A q \in Plan \ {P} : plans'[q] = plans[q]
  BY <1>2, <1>8
<1>. HIDE DEF after
<1>10. Live' = Live
  BY <1>1, <1>8, <1>9, <1>c DEF Live
<1>11. TypeOK'
  <2>1. plans' \in [Plan -> PlanType \cup {NoPlan}]
    BY <1>7, <1>8, <1>9
  <2>2. Agrees(after)
    BY <1>3, <1>5, <1>6, <1>7 DEF Agrees
  <2>3. \A q \in Live' : Agrees(plans'[q])
    BY <1>9, <1>10, <2>2 DEF IInv, TypeOK, Live
  <2>4. settled' \in Seq(SignedType)
    BY <1>1 DEF IInv, TypeOK
  <2>5. nonce' \in Nat
    BY <1>1 DEF IInv, TypeOK
  <2>. QED  BY <1>1, <2>1, <2>3, <2>4, <2>5 DEF IInv, TypeOK
<1>12. TermsAccepted'
  BY <1>4, <1>7, <1>9, <1>10 DEF IInv, TermsAccepted, Live
<1>13. FloorKept'
  <2>1. after.settledOut * terms.total >= after.settledIn * terms.minimum
    <3>. DEFINE due == (plan.settledIn + input) * terms.minimum
               floor == FloorAfter(plan, input)
               reached == plan.settledOut + output
    <3>1. due \in Nat
      BY <1>3, <1>6
    <3>2. floor = CeilDiv(due, terms.total)
      BY DEF FloorAfter
    <3>. HIDE DEF due, floor
    <3>3. floor \in Nat /\ floor * terms.total >= due
      BY <1>4, <3>1, <3>2, CeilCovers
    <3>4. reached \in Nat /\ reached >= floor
      BY <1>2, <1>3 DEF floor
    <3>5. reached * terms.total >= floor * terms.total
      <4>. HIDE DEF reached
      <4>. QED  BY <1>4, <3>3, <3>4, Scales
    <3>. QED  BY <1>3, <1>4, <1>6, <1>7, <3>1, <3>3, <3>4, <3>5 DEF due
  <2>. QED  BY <1>7, <1>9, <1>10, <2>1 DEF IInv, FloorKept, Live
<1>14. RoomForRest'
  <2>1. after.terms.total - after.settledIn <= (MaxCapsules - after.count) * after.terms.size
    BY <1>6, <1>7
  <2>. QED  BY <1>9, <1>10, <2>1 DEF IInv, RoomForRest, Live
<1>15. Past' /\ CapsuleSettlesOnce'
  <2>1. /\ settled \in Seq(SignedType)
        /\ Len(settled) \in Nat
        /\ Len(settled') = Len(settled) + 1
        /\ \A i \in 1..Len(settled) : settled'[i] = settled[i]
        /\ settled'[Len(settled) + 1] = s
    <3>1. settled \in Seq(SignedType) /\ s \in SignedType /\ settled' = Append(settled, s)
      BY <1>1 DEF IInv, TypeOK
    <3>. QED  BY <3>1
  <2>2. \A i \in 1..Len(settled) :
           /\ settled[i].capsule.plan \in Live
           /\ settled[i].capsule.sequence < plans[settled[i].capsule.plan].next
           /\ settled[i].capsule.sequence \in Nat
    <3>1. \A i \in 1..Len(settled) : settled[i] \in SignedType
      BY <2>1
    <3>2. \A c1 \in Capsules : c1.sequence \in Nat
      BY CapsuleAssumption DEF CapsuleType
    <3>3. \A i \in 1..Len(settled) : settled[i].capsule.sequence \in Nat
      BY <3>1, <3>2 DEF SignedType
    <3>. QED  BY <3>3 DEF IInv, Past
  <2>3. \A q \in Live : plans[q].next \in Nat /\ plans'[q].next >= plans[q].next
    <3>. SUFFICES ASSUME NEW q \in Live
                  PROVE  plans[q].next \in Nat /\ plans'[q].next >= plans[q].next
      OBVIOUS
    <3>1. q \in Plan /\ plans[q] \in PlanType
      BY DEF IInv, TypeOK, Live
    <3>2. plans[q].next \in Nat
      BY <3>1 DEF PlanType
    <3>3. CASE q = P
      BY <1>3, <1>7, <1>9, <1>c, <3>3
    <3>4. CASE q # P
      BY <1>9, <3>1, <3>2, <3>4
    <3>. QED  BY <3>2, <3>3, <3>4
  <2>4. \A i \in 1..Len(settled) :
           settled[i].capsule.sequence < plans'[settled[i].capsule.plan].next
    <3>. SUFFICES ASSUME NEW i \in 1..Len(settled)
                  PROVE  settled[i].capsule.sequence < plans'[settled[i].capsule.plan].next
      OBVIOUS
    <3>1. plans'[settled[i].capsule.plan].next \in Nat
      BY <1>3, <1>7, <1>9, <2>2, <2>3 DEF Live
    <3>. QED  BY <2>2, <2>3, <3>1
  <2>5. P \in Live' /\ c.sequence < plans'[P].next
    BY <1>1, <1>3, <1>7, <1>9, <1>10
  <2>6. Past'
    <3>. SUFFICES ASSUME NEW i \in 1..Len(settled')
                  PROVE  /\ settled'[i].capsule.plan \in Live'
                         /\ settled'[i].capsule.sequence < plans'[settled'[i].capsule.plan].next
      BY DEF Past
    <3>1. CASE i \in 1..Len(settled)
      BY <1>10, <2>1, <2>2, <2>4, <3>1
    <3>2. CASE i = Len(settled) + 1
      BY <1>d, <2>1, <2>5, <3>2
    <3>. QED  BY <2>1, <3>1, <3>2
  <2>7. CapsuleSettlesOnce'
    <3>. SUFFICES ASSUME NEW i \in 1..Len(settled'), NEW j \in 1..Len(settled'),
                         settled'[i].capsule.plan = settled'[j].capsule.plan,
                         settled'[i].capsule.sequence = settled'[j].capsule.sequence
                  PROVE  i = j
      BY DEF CapsuleSettlesOnce
    <3>1. \A k \in 1..Len(settled) :
             ~(settled[k].capsule.plan = P /\ settled[k].capsule.sequence = c.sequence)
      <4>. SUFFICES ASSUME NEW k \in 1..Len(settled), settled[k].capsule.plan = P,
                           settled[k].capsule.sequence = c.sequence
                    PROVE  FALSE
        OBVIOUS
      <4>1. c.sequence < plans[P].next
        BY <2>2, Zenon
      <4>2. c.sequence = plans[P].next /\ plans[P].next \in Nat
        <5>1. c.sequence = plan.next /\ plan.next \in Nat
          BY <1>1, <1>3
        <5>. QED  BY <5>1, <1>c, Zenon
      <4>. DEFINE a == c.sequence
                 b == plans[P].next
      <4>3. a < b /\ a = b /\ b \in Nat
        BY <4>1, <4>2
      <4>. HIDE DEF a, b
      <4>. QED  BY <4>3
    <3>2. CASE i \in 1..Len(settled) /\ j \in 1..Len(settled)
      BY <2>1, <3>2 DEF IInv, CapsuleSettlesOnce
    <3>3. CASE i = Len(settled) + 1 /\ j \in 1..Len(settled)
      BY <1>d, <2>1, <3>1, <3>3
    <3>4. CASE i \in 1..Len(settled) /\ j = Len(settled) + 1
      BY <1>d, <2>1, <3>1, <3>4
    <3>. QED  BY <2>1, <3>2, <3>3, <3>4
  <2>. QED  BY <2>6, <2>7
<1>. QED  BY <1>11, <1>12, <1>13, <1>14, <1>15 DEF IInv

\* Every step keeps the invariant.
LEMMA StepKeeps == IInv /\ [Next]_vars => IInv'
<1>. SUFFICES ASSUME IInv, [Next]_vars PROVE IInv'
  OBVIOUS
<1>1. ASSUME UNCHANGED vars
      PROVE  IInv'
  BY <1>1 DEF vars, IInv, TypeOK, Live, TermsAccepted, FloorKept, RoomForRest, Past, CapsuleSettlesOnce
<1>2. ASSUME NEW c \in Capsules, Sign(c)
      PROVE  IInv'
  <2>1. signed' = signed \cup {[capsule |-> c, seen |-> policy]}
    BY <1>2 DEF Sign
  <2>2. signed' \subseteq SignedType
    BY <2>1 DEF IInv, TypeOK, SignedType
  <2>. QED
    BY <1>2, <2>2
    DEF Sign, IInv, TypeOK, Live, TermsAccepted, FloorKept, RoomForRest, Past, CapsuleSettlesOnce
<1>3. ASSUME OtherGraph \/ PublishPolicy \/ Tick
      PROVE  IInv'
  <2>1. UNCHANGED <<plans, signed, settled>>
    BY <1>3 DEF OtherGraph, PublishPolicy, Tick
  <2>2. nonce' \in Nat /\ slot' \in Nat
    BY <1>3 DEF OtherGraph, PublishPolicy, Tick, IInv, TypeOK
  <2>3. policy' \in PolicyType
    <3>1. CASE PublishPolicy
      <4>1. policy' \in Publications(policy, slot)
        BY <3>1 DEF PublishPolicy
      <4>. QED
        BY <4>1, PolicyAssumption DEF Publications, NextVersion, PolicyType, IInv, TypeOK
    <3>2. CASE OtherGraph \/ Tick
      BY <3>2 DEF OtherGraph, Tick, IInv, TypeOK
    <3>. QED  BY <1>3, <3>1, <3>2
  <2>. QED
    BY <2>1, <2>2, <2>3
    DEF IInv, TypeOK, Live, TermsAccepted, FloorKept, RoomForRest, Past, CapsuleSettlesOnce
<1>4. \/ UNCHANGED vars
      \/ \E p \in Plan, t \in Terms : Initialize(p, t)
      \/ \E c \in Capsules : Sign(c)
      \/ \E s \in signed : Execute(s)
      \/ OtherGraph \/ PublishPolicy \/ Tick
  BY DEF Next, Refuse
<1>. QED  BY <1>1, <1>2, <1>3, <1>4, InitializeKeeps, ExecuteKeeps

\* The inductive invariant holds of every history of a wallet's plans.
THEOREM Invariance == Spec => []IInv
<1>. QED  BY InitKeeps, StepKeeps, PTL DEF Spec

\* For every plan and every history of its capsules, also the abandoned
\* ones, capsule.rs has delivered the planned share of what it spent.
THEOREM FloorHolds == Spec => []FloorKept
<1>1. IInv => FloorKept
  BY DEF IInv
<1>. QED  BY <1>1, Invariance, PTL

\* An unfinished plan always has capsules left for the rest of its input.
THEOREM RestFits == Spec => []RoomForRest
<1>1. IInv => RoomForRest
  BY DEF IInv
<1>. QED  BY <1>1, Invariance, PTL

\* However often a capsule is signed, and at however many nonces, it settles
\* once.
THEOREM SettlesOnce == Spec => []CapsuleSettlesOnce
<1>1. IInv => CapsuleSettlesOnce
  BY DEF IInv
<1>. QED  BY <1>1, Invariance, PTL

\* The plan's account and its counters keep their types and agree.
THEOREM CapsuleTypes == Spec => []TypeOK
<1>1. IInv => TypeOK
  BY DEF IInv
<1>. QED  BY <1>1, Invariance, PTL

-----------------------------------------------------------------------------
(* A capsule settles under the policy its owner saw.  The version is all   *)
(* that a settlement compares; it identifies the publication because each  *)
(* one takes the version after the one it replaces.                        *)

\* What owners saw lies behind the present publication or is that publication.
SeenBefore ==
    \A s \in signed :
        /\ s.seen.version <= policy.version
        /\ s.seen.version = policy.version => s.seen = policy

SeenInv == TypeOK /\ SeenBefore

\* No later publication takes a version that an owner has seen, stock.rs
\* accepts only the one after the present.
LEMMA PublishingPasses ==
    ASSUME SeenInv, PublishPolicy
    PROVE  SeenBefore'
<1>1. policy' \in Publications(policy, slot) /\ signed' = signed
  BY DEF PublishPolicy
<1>2. policy'.version = policy.version + 1
  BY <1>1 DEF Publications, NextVersion
<1>3. policy.version \in Nat /\ \A s \in signed : s.seen.version \in Nat
  BY DEF SeenInv, TypeOK, PolicyType, SignedType
<1>4. ASSUME NEW s \in signed
      PROVE  s.seen.version < policy'.version
  <2>1. s.seen.version <= policy.version
    BY DEF SeenInv, SeenBefore
  <2>. QED  BY <1>2, <1>3, <2>1
<1>5. policy'.version \in Nat
  BY <1>2, <1>3
<1>. QED  BY <1>1, <1>3, <1>4, <1>5 DEF SeenBefore

\* Every step keeps what owners saw behind the present publication.
LEMMA SeenKept == SeenInv /\ [Next]_vars => SeenBefore'
<1>. SUFFICES ASSUME SeenInv, [Next]_vars PROVE SeenBefore'
  OBVIOUS
<1>1. ASSUME UNCHANGED <<policy, signed>>
      PROVE  SeenBefore'
  BY <1>1 DEF SeenInv, SeenBefore
<1>2. ASSUME NEW c \in Capsules, Sign(c)
      PROVE  SeenBefore'
  <2>1. signed' = signed \cup {[capsule |-> c, seen |-> policy]} /\ policy' = policy
    BY <1>2 DEF Sign
  <2>2. policy.version \in Nat
    BY DEF SeenInv, TypeOK, PolicyType
  <2>. QED  BY <2>1, <2>2 DEF SeenInv, SeenBefore
<1>3. ASSUME NEW p \in Plan, NEW t \in Terms, Initialize(p, t)
      PROVE  UNCHANGED <<policy, signed>>
  BY <1>3 DEF Initialize
<1>4. ASSUME NEW s \in signed, Execute(s) \/ Refuse(s)
      PROVE  UNCHANGED <<policy, signed>>
  BY <1>4 DEF Execute, Refuse, vars
<1>5. ASSUME OtherGraph \/ Tick \/ UNCHANGED vars
      PROVE  UNCHANGED <<policy, signed>>
  BY <1>5 DEF OtherGraph, Tick, vars
<1>. QED  BY <1>1, <1>2, <1>3, <1>4, <1>5, PublishingPasses DEF Next

\* What owners saw is never ahead of the present publication.
LEMMA SeenInvariance == Spec => []SeenInv
<1>1. Init => SeenBefore
  BY DEF Init, SeenBefore
<1>2. SeenBefore /\ TypeOK => SeenInv
  BY DEF SeenInv
<1>3. (TypeOK /\ SeenBefore) /\ [Next]_vars => SeenBefore'
  BY SeenKept DEF SeenInv
<1>. QED  BY <1>1, <1>2, <1>3, CapsuleTypes, PTL DEF Spec

\* Opcode 11 settles a capsule only while the policy is the very publication
\* its owner signed under: every halt, expiry or new version revokes it.
THEOREM SignedIsSettled == Spec => SettlesAsSigned
<1>1. SeenInv /\ [Next]_vars
        => [settled' # settled => settled'[Len(settled')].seen = policy]_vars
  <2>. SUFFICES ASSUME SeenInv, Next, settled' # settled
                PROVE  settled'[Len(settled')].seen = policy
    OBVIOUS
  <2>1. PICK s \in signed : Execute(s)
    BY DEF Next, Initialize, Sign, Refuse, OtherGraph, PublishPolicy, Tick, vars
  <2>2. settled' = Append(settled, s) /\ Admissible(s)
    BY <2>1 DEF Execute
  <2>3. policy.version = s.seen.version
    BY <2>2 DEF Admissible, Valid
  <2>4. s.seen = policy
    BY <2>3 DEF SeenInv, SeenBefore
  <2>5. settled \in Seq(SignedType)
    BY DEF SeenInv, TypeOK
  <2>. QED  BY <2>2, <2>4, <2>5
<1>. QED  BY <1>1, SeenInvariance, PTL DEF Spec, SettlesAsSigned

-----------------------------------------------------------------------------
(* A purchase.  What a job and its messages are, what others do to the     *)
(* accounts, what the prefix of a message leaves, what a settlement leaves *)
(* of that, and what the receipt then says.                                *)

\* The ledgers along a prefix: each instruction runs on what the ones before
\* it left.  (Course)
LEMMA CourseIs ==
    ASSUME NEW ledger, NEW is, Len(is) \in Nat
    PROVE  LET at == Course(ledger, is) IN
           /\ at[0] = ledger
           /\ \A k \in 1..Len(is) : at[k] = StepOn(at[k - 1], is[k])
<1> DEFINE Is(f, n) == f = [k \in 0..n |-> IF k = 0 THEN ledger ELSE StepOn(f[k - 1], is[k])]
           T == {n \in Nat : \E f : Is(f, n)}
<1>1. 0 \in T
  <2> DEFINE f == [k \in 0..0 |-> ledger]
  <2>1. Is(f, 0)
      OBVIOUS
  <2> QED BY <2>1
<1>2. ASSUME NEW n \in T PROVE n + 1 \in T
  <2>1. PICK f : Is(f, n)
      OBVIOUS
  <2> DEFINE h == [k \in 0..(n + 1) |-> IF k = n + 1 THEN StepOn(f[n], is[k]) ELSE f[k]]
  <2>2. n \in Nat
      OBVIOUS
  <2>3. \A k \in 0..(n + 1) : h[k] = IF k = 0 THEN ledger ELSE StepOn(h[k - 1], is[k])
    <3> TAKE k \in 0..(n + 1)
    <3>1. CASE k = n + 1
      <4>1. h[k] = StepOn(f[n], is[k]) /\ h[n] = f[n] /\ k - 1 = n /\ k # 0
          BY <2>2, <3>1
      <4> QED BY <4>1
    <3>2. CASE k # n + 1
      <4>1. k \in 0..n /\ h[k] = f[k]
          BY <2>2, <3>2
      <4>2. f[k] = IF k = 0 THEN ledger ELSE StepOn(f[k - 1], is[k])
          BY <2>1, <4>1
      <4>3. k # 0 => h[k - 1] = f[k - 1]
          BY <2>2, <3>2, <4>1
      <4> QED BY <4>1, <4>2, <4>3
    <3> QED BY <3>1, <3>2
  <2>4. h = [k \in 0..(n + 1) |-> h[k]]
      OBVIOUS
  <2>5. Is(h, n + 1)
    <3> HIDE DEF h
    <3> QED BY <2>3, <2>4
  <2> HIDE DEF Is, h
  <2> QED BY <2>2, <2>5
<1>3. T = Nat
  <2> HIDE DEF Is
  <2> QED BY <1>1, <1>2, AllNumbers
<1>4. \E f : Is(f, Len(is))
    BY <1>3
<1> DEFINE at == CHOOSE f : Is(f, Len(is))
<1>5. Course(ledger, is) = at
    BY DEF Course
<1>6. Is(at, Len(is))
  <2> HIDE DEF Is
  <2> QED BY <1>4
<1> HIDE DEF at
<1>7. at[0] = ledger /\ \A k \in 1..Len(is) : at[k] = StepOn(at[k - 1], is[k])
    BY <1>6
<1> QED BY <1>5, <1>7
\* What is known along a m: each instruction is read after the ones
\* before it.  (Parsed)
LEMMA ParsedIs ==
    ASSUME NEW origin, NEW m, Len(m) \in Nat
    PROVE  LET at == Parsed(origin, m) IN
           /\ at[0] = NoSetup
           /\ \A k \in 1..Len(m) : at[k] = ReadOne(origin, m, at[k - 1], k)
<1> DEFINE Is(f, n) == f = [k \in 0..n |-> IF k = 0 THEN NoSetup ELSE ReadOne(origin, m, f[k - 1], k)]
           T == {n \in Nat : \E f : Is(f, n)}
<1>1. 0 \in T
  <2> DEFINE f == [k \in 0..0 |-> NoSetup]
  <2>1. Is(f, 0)
      OBVIOUS
  <2> QED BY <2>1
<1>2. ASSUME NEW n \in T PROVE n + 1 \in T
  <2>1. PICK f : Is(f, n)
      OBVIOUS
  <2> DEFINE h == [k \in 0..(n + 1) |-> IF k = n + 1 THEN ReadOne(origin, m, f[n], k) ELSE f[k]]
  <2>2. n \in Nat
      OBVIOUS
  <2>3. \A k \in 0..(n + 1) : h[k] = IF k = 0 THEN NoSetup ELSE ReadOne(origin, m, h[k - 1], k)
    <3> TAKE k \in 0..(n + 1)
    <3>1. CASE k = n + 1
      <4>1. h[k] = ReadOne(origin, m, f[n], k) /\ h[n] = f[n] /\ k - 1 = n /\ k # 0
          BY <2>2, <3>1
      <4> QED BY <4>1
    <3>2. CASE k # n + 1
      <4>1. k \in 0..n /\ h[k] = f[k]
          BY <2>2, <3>2
      <4>2. f[k] = IF k = 0 THEN NoSetup ELSE ReadOne(origin, m, f[k - 1], k)
          BY <2>1, <4>1
      <4>3. k # 0 => h[k - 1] = f[k - 1]
          BY <2>2, <3>2, <4>1
      <4> QED BY <4>1, <4>2, <4>3
    <3> QED BY <3>1, <3>2
  <2>4. h = [k \in 0..(n + 1) |-> h[k]]
      OBVIOUS
  <2>5. Is(h, n + 1)
    <3> HIDE DEF h
    <3> QED BY <2>3, <2>4
  <2> HIDE DEF Is, h
  <2> QED BY <2>2, <2>5
<1>3. T = Nat
  <2> HIDE DEF Is
  <2> QED BY <1>1, <1>2, AllNumbers
<1>4. \E f : Is(f, Len(m))
    BY <1>3
<1> DEFINE at == CHOOSE f : Is(f, Len(m))
<1>5. Parsed(origin, m) = at
    BY DEF Parsed
<1>6. Is(at, Len(m))
  <2> HIDE DEF Is
  <2> QED BY <1>4
<1> HIDE DEF at
<1>7. at[0] = NoSetup /\ \A k \in 1..Len(m) : at[k] = ReadOne(origin, m, at[k - 1], k)
    BY <1>6
<1> QED BY <1>5, <1>7
\* The instructions for one asset after the other.  (Creating)
LEMMA CreatingIs ==
    ASSUME NEW ledger, NEW assets, Len(assets) \in Nat
    PROVE  LET at == Creating(ledger, assets) IN
           /\ at[0] = <<>>
           /\ \A k \in 1..Len(assets) : at[k] = Missing(ledger, at[k - 1], assets[k])
<1> DEFINE Is(f, n) == f = [k \in 0..n |-> IF k = 0 THEN <<>> ELSE Missing(ledger, f[k - 1], assets[k])]
           T == {n \in Nat : \E f : Is(f, n)}
<1>1. 0 \in T
  <2> DEFINE f == [k \in 0..0 |-> <<>>]
  <2>1. Is(f, 0)
      OBVIOUS
  <2> QED BY <2>1
<1>2. ASSUME NEW n \in T PROVE n + 1 \in T
  <2>1. PICK f : Is(f, n)
      OBVIOUS
  <2> DEFINE h == [k \in 0..(n + 1) |-> IF k = n + 1 THEN Missing(ledger, f[n], assets[k]) ELSE f[k]]
  <2>2. n \in Nat
      OBVIOUS
  <2>3. \A k \in 0..(n + 1) : h[k] = IF k = 0 THEN <<>> ELSE Missing(ledger, h[k - 1], assets[k])
    <3> TAKE k \in 0..(n + 1)
    <3>1. CASE k = n + 1
      <4>1. h[k] = Missing(ledger, f[n], assets[k]) /\ h[n] = f[n] /\ k - 1 = n /\ k # 0
          BY <2>2, <3>1
      <4> QED BY <4>1
    <3>2. CASE k # n + 1
      <4>1. k \in 0..n /\ h[k] = f[k]
          BY <2>2, <3>2
      <4>2. f[k] = IF k = 0 THEN <<>> ELSE Missing(ledger, f[k - 1], assets[k])
          BY <2>1, <4>1
      <4>3. k # 0 => h[k - 1] = f[k - 1]
          BY <2>2, <3>2, <4>1
      <4> QED BY <4>1, <4>2, <4>3
    <3> QED BY <3>1, <3>2
  <2>4. h = [k \in 0..(n + 1) |-> h[k]]
      OBVIOUS
  <2>5. Is(h, n + 1)
    <3> HIDE DEF h
    <3> QED BY <2>3, <2>4
  <2> HIDE DEF Is, h
  <2> QED BY <2>2, <2>5
<1>3. T = Nat
  <2> HIDE DEF Is
  <2> QED BY <1>1, <1>2, AllNumbers
<1>4. \E f : Is(f, Len(assets))
    BY <1>3
<1> DEFINE at == CHOOSE f : Is(f, Len(assets))
<1>5. Creating(ledger, assets) = at
    BY DEF Creating
<1>6. Is(at, Len(assets))
  <2> HIDE DEF Is
  <2> QED BY <1>4
<1> HIDE DEF at
<1>7. at[0] = <<>> /\ \A k \in 1..Len(assets) : at[k] = Missing(ledger, at[k - 1], assets[k])
    BY <1>6
<1> QED BY <1>5, <1>7

\* An instruction of a message for a trade like t.
Ops == Compute \cup {"nonce", "create", "transfer", "sync", "trade"}
InsLike(t) ==
    {i \in [op : Ops, on : Asset \cup {None}, n : Int, body : {None} \cup TradesLike(t)] :
        i.op = "trade" => i.body \in TradesLike(t)}

\* Others may have used the wallet since the bank.
Near(origin, c) ==
    /\ LedgerType(c) /\ DOMAIN c.acct = DOMAIN origin.acct
    /\ c.nonce.open = origin.nonce.open

\* Fields of a trade change, but not whom and what it is of.
LEMMA TradeChanges ==
    ASSUME NEW t, NEW u \in TradesLike(t)
    PROVE  /\ [u EXCEPT !.amount = @ + 1] \in TradesLike(t)
           /\ [u EXCEPT !.floor = @ - 1] \in TradesLike(t)
           /\ [u EXCEPT !.deadline = @ + 1] \in TradesLike(t)
           /\ \A n \in Nat : [u EXCEPT !.sequence = n] \in TradesLike(t)
           /\ [u EXCEPT !.sequence = @ + 1] \in TradesLike(t)
<1> USE DEF TradesLike
<1>1. [u EXCEPT !.amount = @ + 1] \in TradesLike(t)
    OBVIOUS
<1>2. [u EXCEPT !.floor = @ - 1] \in TradesLike(t)
    OBVIOUS
<1>3. [u EXCEPT !.deadline = @ + 1] \in TradesLike(t)
    OBVIOUS
<1>4. \A n \in Nat : [u EXCEPT !.sequence = n] \in TradesLike(t)
    OBVIOUS
<1>5. [u EXCEPT !.sequence = @ + 1] \in TradesLike(t)
    OBVIOUS
<1> QED BY <1>1, <1>2, <1>3, <1>4, <1>5

\* Nor does it when a product is quoted at another rate.
LEMMA RateChanges ==
    ASSUME NEW t, NEW u \in TradesLike(t), t.products # <<>>, t.products \in Seq(ProductType)
    PROVE  [u EXCEPT !.products[1].rate = @ + 1] \in TradesLike(t)
<1> DEFINE ps == [u.products EXCEPT ![1].rate = @ + 1]
<1>1. u.products \in Seq(ProductType) /\ SameAssets(u.products, t.products)
    BY DEF TradesLike
<1>2. DOMAIN u.products = DOMAIN t.products
    BY <1>1 DEF SameAssets
<1>3. 1 \in DOMAIN u.products
    BY <1>2
<1>4. ps \in Seq(ProductType)
  <2>1. \A i \in DOMAIN u.products : ps[i] \in ProductType
    <3> TAKE i \in DOMAIN u.products
    <3>1. u.products[i] \in ProductType
        BY <1>1
    <3>2. ps[i] = u.products[i] \/ ps[i] = [u.products[i] EXCEPT !.rate = @ + 1]
        BY <1>3
    <3>3. \A q \in ProductType : [q EXCEPT !.rate = @ + 1] \in ProductType
      <4> TAKE q \in ProductType
      <4>1. q.rate + 1 \in Nat
          BY DEF ProductType
      <4> DEFINE r == q.rate + 1
      <4>2. [q EXCEPT !.rate = q.rate + 1] = [q EXCEPT !.rate = r]
          OBVIOUS
      <4> HIDE DEF r
      <4>3. [q EXCEPT !.rate = r] \in ProductType
          BY <4>1 DEF ProductType, r
      <4> QED BY <4>2, <4>3
    <3> HIDE DEF ps
    <3> QED BY <3>1, <3>2, <3>3
  <2>2. DOMAIN ps = 1..Len(u.products) /\ DOMAIN u.products = 1..Len(u.products) /\ Len(u.products) \in Nat
      BY <1>1
  <2>3. ps = [i \in 1..Len(u.products) |-> ps[i]]
      BY <2>2
  <2> HIDE DEF ps
  <2> QED BY <2>1, <2>2, <2>3
<1>5. SameAssets(ps, t.products)
  <2>1. \A i \in DOMAIN u.products : ps[i].asset = u.products[i].asset
      BY <1>1, <1>3 DEF ProductType
  <2>2. DOMAIN ps = DOMAIN u.products
      OBVIOUS
  <2> HIDE DEF ps
  <2> QED BY <1>1, <2>1, <2>2 DEF SameAssets
<1>6. [u EXCEPT !.products[1].rate = @ + 1] = [u EXCEPT !.products = ps]
    BY DEF TradesLike
<1> HIDE DEF ps
<1> QED BY <1>4, <1>5, <1>6 DEF TradesLike

\* Whoever edits a message edits it into instructions.
LEMMA EditsAreLike ==
    ASSUME NEW t, t \in TradesLike(t), t.products # <<>>,
           NEW m \in Seq(InsLike(t)), m # <<>>, Last(m).op = "trade", NEW e \in Edited(m)
    PROVE  e \in Seq(InsLike(t))
<1> DEFINE S == InsLike(t)
<1> SUFFICES e \in Seq(S)
    OBVIOUS
<1>1. Len(m) \in Nat \ {0} /\ DOMAIN m = 1..Len(m) /\ (\A k \in 1..Len(m) : m[k] \in S)
    OBVIOUS
<1>2. t.products \in Seq(ProductType)
    BY DEF TradesLike
<1>3. m[Len(m)].body \in TradesLike(t)
    BY <1>1 DEF Last, InsLike
<1>4. \A i \in S : [i EXCEPT !.n = @ + 1] \in S
    BY DEF InsLike
<1>5. \A u \in TradesLike(t) : \A i \in S : [i EXCEPT !.body = u] \in S
    BY DEF InsLike
<1>6. \A k \in 1..Len(m), i \in S : [m EXCEPT ![k] = i] \in Seq(S)
  <2> HIDE DEF S
  <2> QED BY <1>1
<1>7. \A a \in Asset : Ins("create", a, 0) \in S
    BY DEF Ins, InsLike, Ops
<1>8. \A i, j \in Int : 1 <= i /\ j <= Len(m) => SubSeq(m, i, j) \in Seq(S)
  <2> HIDE DEF S
  <2> QED BY <1>1
<1>16. \A k \in 1..Len(m), i \in S : InsertAt(m, k, i) \in Seq(S)
  <2> HIDE DEF S
  <2> TAKE k \in 1..Len(m), i \in S
  <2>1. SubSeq(m, 1, k - 1) \in Seq(S) /\ SubSeq(m, k, Len(m)) \in Seq(S)
      BY <1>1, <1>8
  <2>2. <<i>> \in Seq(S)
      OBVIOUS
  <2> QED BY <2>1, <2>2 DEF InsertAt
<1> DEFINE last == Len(m)
           b == m[last].body
<1>9. \A u \in TradesLike(t) : [m EXCEPT ![last] = [m[last] EXCEPT !.body = u]] \in Seq(S)
    BY <1>1, <1>5, <1>6
<1>10. CASE \E k \in DOMAIN m : e = RemoveAt(m, k)
  <2> HIDE DEF S
  <2> QED BY <1>1, <1>8, <1>10 DEF RemoveAt
<1>11. CASE \E k \in 1..(Len(m) - 1) : e = [m EXCEPT ![k] = m[k + 1], ![k + 1] = m[k]]
  <2> HIDE DEF S
  <2> QED BY <1>1, <1>11
<1>12. CASE \E k \in DOMAIN m : e = InsertAt(m, k, m[k])
  <2> HIDE DEF S
  <2> QED BY <1>1, <1>12, <1>16
<1>13. CASE \E a \in Asset : e = InsertAt(m, Len(m), Ins("create", a, 0))
  <2> HIDE DEF S
  <2> QED BY <1>1, <1>7, <1>13, <1>16
<1>14. CASE \E k \in DOMAIN m : e = [m EXCEPT ![k].n = @ + 1]
  <2>1. PICK k \in 1..Len(m) : e = [m EXCEPT ![k] = [m[k] EXCEPT !.n = m[k].n + 1]]
      BY <1>1, <1>14
  <2>2. [m[k] EXCEPT !.n = m[k].n + 1] \in S
      BY <1>1, <1>4
  <2> DEFINE i == [m[k] EXCEPT !.n = m[k].n + 1]
  <2>3. i \in S /\ e = [m EXCEPT ![k] = i]
      BY <2>1, <2>2
  <2> HIDE DEF S, i
  <2> QED BY <1>6, <2>3
<1>15. CASE e \in {[m EXCEPT ![Len(m)].body.amount = @ + 1], [m EXCEPT ![Len(m)].body.floor = @ - 1],
                   [m EXCEPT ![Len(m)].body.deadline = @ + 1], [m EXCEPT ![Len(m)].body.sequence = @ + 1],
                   [m EXCEPT ![Len(m)].body.products[1].rate = @ + 1]}
  <2>1. \/ e = [m EXCEPT ![last] = [m[last] EXCEPT !.body = [b EXCEPT !.amount = @ + 1]]]
        \/ e = [m EXCEPT ![last] = [m[last] EXCEPT !.body = [b EXCEPT !.floor = @ - 1]]]
        \/ e = [m EXCEPT ![last] = [m[last] EXCEPT !.body = [b EXCEPT !.deadline = @ + 1]]]
        \/ e = [m EXCEPT ![last] = [m[last] EXCEPT !.body = [b EXCEPT !.sequence = @ + 1]]]
        \/ e = [m EXCEPT ![last] = [m[last] EXCEPT !.body = [b EXCEPT !.products[1].rate = @ + 1]]]
      BY <1>15
  <2>2. b \in TradesLike(t)
      BY <1>3
  <2>3. /\ [b EXCEPT !.amount = @ + 1] \in TradesLike(t)
        /\ [b EXCEPT !.floor = @ - 1] \in TradesLike(t)
        /\ [b EXCEPT !.deadline = @ + 1] \in TradesLike(t)
        /\ [b EXCEPT !.sequence = @ + 1] \in TradesLike(t)
    <3> HIDE DEF b
    <3> QED BY <2>2, TradeChanges
  <2>4. [b EXCEPT !.products[1].rate = @ + 1] \in TradesLike(t)
    <3> HIDE DEF b
    <3> QED BY <1>2, <2>2, RateChanges
  <2> DEFINE With(u) == [m EXCEPT ![last] = [m[last] EXCEPT !.body = u]]
  <2>5. \E u \in TradesLike(t) : e = With(u)
    <3> HIDE DEF b
    <3> QED BY <2>1, <2>3, <2>4
  <2> QED BY <1>9, <2>5
<1> QED BY <1>10, <1>11, <1>12, <1>13, <1>14, <1>15 DEF Edited

\* What the wallet lacks are instructions, and no settlement is among them.
LEMMA SetupIsLike ==
    ASSUME NEW j \in Jobs
    PROVE  LET t == j.trade
               s == WithNonce(j.bank, PlanWallet(j.bank, WalletAssets(t), Wrap(t)))
           IN  s.instructions \in Seq(InsLike(t)) /\ s.sequence \in Nat
<1> DEFINE t == j.trade
           assets == WalletAssets(t)
           w == Wrap(t)
           S == InsLike(t)
           at == Creating(j.bank, assets)
<1>1. JobType(j)
    BY PurchaseAssumption
<1>2. /\ t \in TradesLike(t) /\ t.input \in Asset /\ (IsFunded(t) => t.fund.asset \in Asset)
      /\ j.bank.nonce.atoms \in Nat /\ t.amount \in Nat
      /\ t.products \in Seq(ProductType)
    BY <1>1 DEF JobType, TradesLike
<1>3. assets \in Seq(Asset)
  <2>1. [i \in DOMAIN t.products |-> t.products[i].asset] \in Seq(Asset)
    <3>1. DOMAIN t.products = 1..Len(t.products) /\ Len(t.products) \in Nat
        BY <1>2
    <3>2. \A i \in DOMAIN t.products : t.products[i] \in ProductType
        BY <1>2
    <3>3. \A q \in ProductType : q.asset \in Asset
        BY DEF ProductType
    <3> QED BY <3>1, <3>2, <3>3
  <2>2. <<t.input>> \in Seq(Asset) /\ (IF IsFunded(t) THEN <<t.fund.asset>> ELSE <<>>) \in Seq(Asset)
      BY <1>2
  <2> QED BY <2>1, <2>2 DEF WalletAssets
<1>4. Len(assets) \in Nat /\ \A k \in 1..Len(assets) : assets[k] \in Asset
    BY <1>3
<1> HIDE DEF assets
<1>5. \A a \in Asset, n \in Nat :
        Ins("create", a, 0) \in S /\ Ins("transfer", a, n) \in S /\ Ins("sync", a, n) \in S
    BY DEF Ins, InsLike, Ops
<1>6. Ins("nonce", None, 0) \in S
    BY DEF Ins, InsLike, Ops
<1> HIDE DEF S
<1>7. at[Len(assets)] \in Seq(S)
  <2> DEFINE T == {k \in Nat : k <= Len(assets) => at[k] \in Seq(S)}
  <2>1. at[0] = <<>> /\ \A k \in 1..Len(assets) : at[k] = Missing(j.bank, at[k - 1], assets[k])
      BY <1>4, CreatingIs
  <2> HIDE DEF at
  <2>2. 0 \in T
    <3>1. <<>> \in Seq(S)
        OBVIOUS
    <3> QED BY <2>1, <3>1
  <2>3. ASSUME NEW k \in T PROVE k + 1 \in T
    <3>1. k \in Nat /\ (k + 1 <= Len(assets) => at[k] \in Seq(S) /\ k + 1 \in 1..Len(assets) /\ (k + 1) - 1 = k)
        BY <1>4
    <3> SUFFICES ASSUME k + 1 <= Len(assets) PROVE at[k + 1] \in Seq(S)
        BY <3>1
    <3>2. at[k + 1] = Missing(j.bank, at[k], assets[k + 1]) /\ at[k] \in Seq(S)
        BY <2>1, <3>1
    <3>3. Ins("create", assets[k + 1], 0) \in S
        BY <1>4, <1>5, <3>1
    <3> QED BY <3>2, <3>3 DEF Missing
  <2> HIDE DEF T
  <2>4. T = Nat
    <3>1. T \in SUBSET Nat
        BY DEF T
    <3> QED BY <2>2, <2>3, <3>1, AllNumbers
  <2> QED BY <1>4, <2>4 DEF T
<1>8. w \in Nat
    BY <1>2 DEF Wrap
<1>9. Native \in Asset
    BY PurchaseAssumption
<1> DEFINE p == PlanWallet(j.bank, assets, w)
<1>10. /\ p.instructions \in Seq(S)
  <2>1. (IF w > 0 THEN <<Ins("transfer", Native, w), Ins("sync", Native, 0)>> ELSE <<>>) \in Seq(S)
    <3> HIDE DEF w
    <3> QED BY <1>5, <1>8, <1>9
  <2> HIDE DEF at
  <2> QED BY <1>7, <2>1 DEF PlanWallet, at
<1>11. p = [assets |-> p.assets, initial |-> p.initial, wrap |-> p.wrap, creates |-> p.creates,
            sequence |-> 0, instructions |-> p.instructions]
    BY DEF PlanWallet
<1> HIDE DEF p, w
<1> DEFINE s == WithNonce(j.bank, p)
<1>12. s.instructions \in Seq(S) /\ s.sequence \in Nat
  <2>1. CASE j.bank.nonce.open
      BY <1>2, <1>10, <1>11, <2>1 DEF WithNonce
  <2>2. CASE ~j.bank.nonce.open
    <3>1. s.instructions = <<Ins("nonce", None, 0)>> \o p.instructions /\ s.sequence = 0
        BY <1>11, <2>2 DEF WithNonce
    <3> HIDE DEF s
    <3> QED BY <1>6, <1>10, <3>1
  <2> QED BY <2>1, <2>2
<1> QED BY <1>12 DEF p, w, assets, S

\* A message that is built is one of instructions, and ends in a settlement.
LEMMA MessagesAreLike ==
    ASSUME job \in Jobs, setup.instructions \in Seq(InsLike(job.trade)), setup.sequence \in Nat,
           NEW m \in Messages
    PROVE  m \in Seq(InsLike(job.trade)) /\ m # <<>>
<1> DEFINE t == job.trade
           S == InsLike(t)
           last == Trade([t EXCEPT !.sequence = setup.sequence])
<1>1. JobType(job)
    BY PurchaseAssumption
<1>2. t \in TradesLike(t) /\ t.products # <<>>
    BY <1>1 DEF JobType
<1>3. last \in S /\ last.op = "trade"
  <2>1. [t EXCEPT !.sequence = setup.sequence] \in TradesLike(t)
    <3> HIDE DEF t
    <3> QED BY <1>2, TradeChanges
  <2> HIDE DEF t
  <2> QED BY <2>1 DEF Trade, InsLike, Ops
<1>4. /\ Ins("limit", None, job.admission.units) \in S
      /\ Ins("heap", None, job.admission.heap) \in S
      /\ Ins("price", None, job.admission.price) \in S
    BY <1>1 DEF JobType, Ins, InsLike, Ops, Compute
<1> HIDE DEF last, S
<1> DEFINE a == <<Ins("limit", None, job.admission.units)>>
           b == IF t.reflow THEN <<Ins("heap", None, job.admission.heap)>> ELSE <<>>
           c == IF job.admission.price > 0 THEN <<Ins("price", None, job.admission.price)>> ELSE <<>>
           d == setup.instructions
<1>5. a \in Seq(S) /\ b \in Seq(S) /\ c \in Seq(S) /\ d \in Seq(S) /\ <<last>> \in Seq(S)
  <2>1. \A i \in S : <<i>> \in Seq(S)
      OBVIOUS
  <2>2. <<>> \in Seq(S)
      OBVIOUS
  <2>3. d \in Seq(S)
      BY DEF S
  <2> QED BY <1>3, <1>4, <2>1, <2>2, <2>3
<1>6. Built = a \o b \o c \o d \o <<last>>
    BY DEF Built, last
<1> HIDE DEF a, b, c, d
<1>7. Built \in Seq(S) /\ Built # <<>> /\ Last(Built) = last
  <2> DEFINE f == a \o b \o c \o d
  <2>1. f \in Seq(S)
      BY <1>5
  <2>2. Built = f \o <<last>>
      BY <1>6
  <2> HIDE DEF f
  <2> QED BY <1>5, <2>1, <2>2 DEF Last
<1>8. CASE m = Built
    BY <1>7, <1>8 DEF S
<1>9. CASE m \in Edited(Built) /\ m # <<>>
  <2>1. Built \in Seq(InsLike(t)) /\ Last(Built).op = "trade"
      BY <1>3, <1>7 DEF S
  <2> HIDE DEF t
  <2>2. m \in Seq(InsLike(t))
      BY <1>2, <1>7, <1>9, <2>1, EditsAreLike
  <2> QED BY <1>9, <2>2 DEF t
<1> QED BY <1>8, <1>9 DEF Messages

\* A ledger with other accounts is one if those can be there.
LEMMA AccountChanges ==
    ASSUME NEW origin, NEW c, Near(origin, c), NEW a \in Asset, NEW n \in AccountType,
           IF n.open THEN n.lamports > 0 ELSE n.atoms = 0
    PROVE  Near(origin, [c EXCEPT !.acct[Mine(a)] = n])
<1> DEFINE k == Mine(a)
           acct == [c.acct EXCEPT ![k] = n]
           d == [c EXCEPT !.acct = acct]
<1>1. /\ c = [sol |-> c.sol, nonce |-> c.nonce, market |-> c.market, slot |-> c.slot,
            policy |-> c.policy, acct |-> c.acct]
      /\ c.sol \in Int /\ c.nonce \in AccountType /\ c.acct \in [DOMAIN c.acct -> AccountType]
      /\ {Mine(x) : x \in Asset} \subseteq DOMAIN c.acct
      /\ \A x \in DOMAIN c.acct :
           IF c.acct[x].open THEN c.acct[x].lamports > 0 ELSE c.acct[x].atoms = 0
      /\ DOMAIN c.acct = DOMAIN origin.acct /\ c.nonce.open = origin.nonce.open
    BY DEF Near, LedgerType
<1>2. k \in DOMAIN c.acct
    BY <1>1
<1> HIDE DEF k
<1>3. /\ acct \in [DOMAIN c.acct -> AccountType] /\ DOMAIN acct = DOMAIN c.acct
      /\ \A x \in DOMAIN acct : IF acct[x].open THEN acct[x].lamports > 0 ELSE acct[x].atoms = 0
    BY <1>1, <1>2
<1> HIDE DEF acct
<1>4. d = [sol |-> c.sol, nonce |-> c.nonce, market |-> c.market, slot |-> c.slot,
           policy |-> c.policy, acct |-> acct]
    BY <1>1
<1>5. d = [c EXCEPT !.acct[Mine(a)] = n]
    BY DEF acct, k
<1> HIDE DEF d
<1>6. Near(origin, d)
    BY <1>1, <1>3, <1>4 DEF Near, LedgerType
<1> QED BY <1>5, <1>6

\* What an account that is there, or that is opened, can be.
LEMMA AccountsCanBe ==
    ASSUME NEW x \in AccountType
    PROVE  /\ Opened(x) \in AccountType /\ Opened(x).open /\ Opened(x).lamports > 0
           /\ [x EXCEPT !.lamports = @ + Gift] \in AccountType
           /\ \A a \in Asset : Plus(x, a, Gift) \in AccountType
<1>1. Rent \in Nat \ {0} /\ Gift \in Nat
    BY PurchaseAssumption
<1>2. x.lamports \in Nat /\ x.atoms \in Nat
    BY DEF AccountType
<1>3. x.lamports + Lacks(x) \in Nat /\ x.lamports + Lacks(x) > 0
    BY <1>1, <1>2 DEF Lacks
<1>4. Opened(x) \in AccountType /\ Opened(x).open /\ Opened(x).lamports > 0
  <2> DEFINE n == x.lamports + Lacks(x)
  <2> HIDE DEF n
  <2>1. Opened(x) = [open |-> TRUE, free |-> TRUE, lamports |-> n, atoms |-> 0]
      BY DEF Opened, n
  <2>2. n \in Nat /\ n > 0
      BY <1>3 DEF n
  <2> QED BY <2>1, <2>2 DEF AccountType
<1>5. [x EXCEPT !.lamports = @ + Gift] \in AccountType
    BY <1>1, <1>2 DEF AccountType
<1>6. ASSUME NEW a \in Asset PROVE Plus(x, a, Gift) \in AccountType
  <2>1. x.atoms + Gift \in Nat /\ x.lamports + Gift \in Nat
      BY <1>1, <1>2
  <2> QED BY <1>2, <2>1 DEF AccountType, Plus
<1> QED BY <1>4, <1>5, <1>6

\* Others leave a ledger that the bank could have become.
LEMMA OthersStayNear ==
    ASSUME NEW origin, Near(origin, chain), OthersUseWallet
    PROVE  Near(origin, chain')
<1>1. /\ chain = [sol |-> chain.sol, nonce |-> chain.nonce, market |-> chain.market,
                  slot |-> chain.slot, policy |-> chain.policy, acct |-> chain.acct]
      /\ chain.nonce \in AccountType /\ chain.acct \in [DOMAIN chain.acct -> AccountType]
      /\ {Mine(x) : x \in Asset} \subseteq DOMAIN chain.acct
      /\ \A x \in DOMAIN chain.acct :
           IF chain.acct[x].open THEN chain.acct[x].lamports > 0 ELSE chain.acct[x].atoms = 0
    BY DEF Near, LedgerType
<1>2. Rent \in Nat \ {0} /\ Gift \in Nat
    BY PurchaseAssumption
<1>3. ASSUME NEW a \in Asset, chain.acct[Mine(a)].open, chain' = Add(chain, Mine(a), Gift)
      PROVE  Near(origin, chain')
  <2> DEFINE n == Plus(chain.acct[Mine(a)], Mine(a)[2], Gift)
  <2>1. chain' = [chain EXCEPT !.acct[Mine(a)] = n]
      BY <1>1, <1>3 DEF Add
  <2>2. Mine(a)[2] = a /\ chain.acct[Mine(a)] \in AccountType
      BY <1>1 DEF Mine
  <2>3. n \in AccountType
      BY <2>2, AccountsCanBe
  <2>4. n.open /\ n.lamports > 0
    <3>1. \A x \in AccountType, b \in Asset : x.open /\ x.lamports > 0 =>
            Plus(x, b, Gift).open /\ Plus(x, b, Gift).lamports > 0
        BY <1>2 DEF AccountType, Plus
    <3>2. chain.acct[Mine(a)].lamports > 0
        BY <1>1, <1>3
    <3> QED BY <1>3, <2>2, <3>1, <3>2
  <2> HIDE DEF n
  <2> QED BY <2>1, <2>3, <2>4, AccountChanges
<1>4. ASSUME NEW a \in Asset, ~chain.acct[Mine(a)].open,
             chain' = [chain EXCEPT !.acct[Mine(a)] = Opened(@)]
      PROVE  Near(origin, chain')
  <2> DEFINE n == Opened(chain.acct[Mine(a)])
  <2>1. chain' = [chain EXCEPT !.acct[Mine(a)] = n]
      BY <1>1, <1>4
  <2>2. n \in AccountType /\ n.open /\ n.lamports > 0
      BY <1>1, AccountsCanBe
  <2> HIDE DEF n
  <2> QED BY <2>1, <2>2, AccountChanges
<1>5. ASSUME NEW a \in Asset, ~chain.acct[Mine(a)].open,
             chain' = [chain EXCEPT !.acct[Mine(a)].lamports = @ + Gift]
      PROVE  Near(origin, chain')
  <2> DEFINE x == chain.acct[Mine(a)]
             n == [x EXCEPT !.lamports = @ + Gift]
  <2>1. chain' = [chain EXCEPT !.acct[Mine(a)] = n]
      BY <1>1, <1>5
  <2>2. x \in AccountType /\ ~x.open /\ x.atoms = 0
      BY <1>1, <1>5
  <2> HIDE DEF x
  <2>3. n \in AccountType /\ ~n.open /\ n.atoms = 0
      BY <2>2, AccountsCanBe DEF AccountType
  <2> HIDE DEF n
  <2> QED BY <2>1, <2>3, AccountChanges
<1>6. ASSUME chain.nonce.open, chain' = [chain EXCEPT !.nonce.atoms = @ + 1]
      PROVE  Near(origin, chain')
  <2> DEFINE n == [chain.nonce EXCEPT !.atoms = @ + 1]
  <2>1. n \in AccountType /\ n.open = chain.nonce.open
      BY <1>1 DEF AccountType
  <2>2. chain' = [chain EXCEPT !.nonce = n]
      BY <1>1, <1>6
  <2> HIDE DEF n
  <2> QED BY <1>1, <2>1, <2>2 DEF Near, LedgerType
<1> QED BY <1>3, <1>4, <1>5, <1>6 DEF OthersUseWallet, OthersMove

\* What parse_setup knows of a prefix can be of a wallet of the bank.
Phases == {"before", "creating", "sent", "synced"}
Known(origin, s) ==
    /\ s = [ok |-> s.ok, phase |-> s.phase, created |-> s.created, nonce |-> s.nonce,
            wrap |-> s.wrap, at |-> s.at]
    /\ s.phase \in Phases
    /\ s.created \subseteq Asset /\ \A a \in s.created : ~origin.acct[Mine(a)].open
    /\ s.nonce \in BOOLEAN /\ (s.nonce => ~origin.nonce.open)
    /\ s.wrap \in Nat /\ (s.wrap > 0 <=> s.phase \in {"sent", "synced"})

\* The account that is there after a prefix of which s is known: opened if it
\* had to be, and with the coins that are wrapped.
Made(x) == IF x.open THEN x ELSE Opened(x)
Base(b, s, a) == IF a \in s.created THEN Made(b.acct[Mine(a)]) ELSE b.acct[Mine(a)]
Filled(x, s) ==
    [open |-> x.open, free |-> x.free, lamports |-> x.lamports + s.wrap,
     atoms |-> IF s.phase = "sent" THEN x.atoms ELSE x.lamports + s.wrap - Rent]
Held(b, s, a) == IF a = Native /\ s.wrap > 0 THEN Filled(Base(b, s, a), s) ELSE Base(b, s, a)
After(b, s, l) ==
    /\ l = [sol |-> l.sol, nonce |-> l.nonce, market |-> l.market, slot |-> l.slot,
            policy |-> l.policy, acct |-> l.acct]
    /\ l.acct = [k \in DOMAIN b.acct |-> l.acct[k]]
    /\ l.nonce = IF s.nonce THEN Opened(b.nonce) ELSE b.nonce
    /\ \A k \in DOMAIN b.acct : (\A a \in Asset : k # Mine(a)) => l.acct[k] = b.acct[k]
    /\ \A a \in Asset : l.acct[Mine(a)] = Held(b, s, a)

\* Accounts that can be there can be opened.
LEMMA BasesAreAccounts ==
    ASSUME NEW b, LedgerType(b), NEW s, NEW a \in Asset
    PROVE  b.acct[Mine(a)] \in AccountType /\ Base(b, s, a) \in AccountType /\ Mine(a) \in DOMAIN b.acct
<1>1. Mine(a) \in DOMAIN b.acct /\ b.acct[Mine(a)] \in AccountType
    BY DEF LedgerType
<1> QED BY <1>1, AccountsCanBe DEF Base, Made

\* What is known after an instruction of each kind.
LEMMA TakenIs ==
    ASSUME NEW origin, NEW s, Known(origin, s), NEW i, NEW k
    PROVE  LET T(phase, created, opens, wrap) ==
                 [ok |-> s.ok, phase |-> phase, created |-> created, nonce |-> opens,
                  wrap |-> wrap, at |-> s.at \cup {k}]
           IN  /\ i.op = "nonce" => Taken(s, i, k) = T("creating", s.created, TRUE, s.wrap)
               /\ i.op = "create" => Taken(s, i, k) = T("creating", s.created \cup {i.on}, s.nonce, s.wrap)
               /\ i.op = "transfer" => Taken(s, i, k) = T("sent", s.created, s.nonce, i.n)
               /\ i.op = "sync" => Taken(s, i, k) = T("synced", s.created, s.nonce, s.wrap)
BY DEF Known, Taken

\* An instruction that is in order leaves what is known to be of that bank.
LEMMA KnownStep ==
    ASSUME NEW origin, NEW m, NEW s, NEW k, Known(origin, s), InPlace(origin, m, s, k)
    PROVE  Known(origin, Taken(s, m[k], k)) /\ Taken(s, m[k], k).ok = s.ok
<1> DEFINE i == m[k]
           p == Taken(s, i, k)
<1> SUFFICES Known(origin, p) /\ p.ok = s.ok
    OBVIOUS
<1>1. CASE i.op \in Compute \/ i.op = "trade"
    BY <1>1 DEF Taken, Compute
<1>2. CASE i.op = "nonce"
  <2>1. Early(s) /\ ~origin.nonce.open
      BY <1>2 DEF InPlace, Compute
  <2>2. p = [ok |-> s.ok, phase |-> "creating", created |-> s.created, nonce |-> TRUE,
             wrap |-> s.wrap, at |-> s.at \cup {k}]
      BY <1>2, TakenIs
  <2> HIDE DEF p, i
  <2> QED BY <2>1, <2>2 DEF Known, Phases, Early
<1>3. CASE i.op = "create"
  <2>1. Early(s) /\ i.on \in Asset /\ ~origin.acct[Mine(i.on)].open
      BY <1>3 DEF InPlace, Compute
  <2>2. p = [ok |-> s.ok, phase |-> "creating", created |-> s.created \cup {i.on},
             nonce |-> s.nonce, wrap |-> s.wrap, at |-> s.at \cup {k}]
      BY <1>3, TakenIs
  <2> HIDE DEF p, i
  <2> QED BY <2>1, <2>2 DEF Known, Phases, Early
<1>4. CASE i.op = "transfer"
  <2>1. Early(s) /\ i.n \in Nat /\ i.n > 0
      BY <1>4 DEF InPlace, Compute
  <2> HIDE DEF i
  <2>2. p = [ok |-> s.ok, phase |-> "sent", created |-> s.created, nonce |-> s.nonce,
             wrap |-> i.n, at |-> s.at \cup {k}]
      BY <1>4, TakenIs
  <2> HIDE DEF p
  <2> QED BY <2>1, <2>2 DEF Known, Phases, Early
<1>5. CASE i.op = "sync"
  <2>1. s.phase = "sent"
      BY <1>5 DEF InPlace, Compute
  <2>2. p = [ok |-> s.ok, phase |-> "synced", created |-> s.created, nonce |-> s.nonce,
             wrap |-> s.wrap, at |-> s.at \cup {k}]
      BY <1>5, TakenIs
  <2> HIDE DEF p, i
  <2> QED BY <2>1, <2>2 DEF Known, Phases, Early
<1> QED BY <1>1, <1>2, <1>3, <1>4, <1>5 DEF InPlace

\* The chain does with an instruction what is known of it.
LEMMA AfterStep ==
    ASSUME NEW origin, NEW b, LedgerType(b), NEW m, NEW s, NEW k, NEW l,
           Known(origin, s), InPlace(origin, m, s, k), m[k].op # "trade", After(b, s, l),
           RunOne(l, m[k]) # None
    PROVE  After(b, Taken(s, m[k], k), RunOne(l, m[k]))
<1> DEFINE i == m[k]
           p == Taken(s, i, k)
<1>1. CASE i.op \in Compute
    BY <1>1 DEF Taken, RunOne, Compute
<1>2. CASE i.op = "nonce"
  <2>1. Early(s) /\ ~s.nonce
      BY <1>2 DEF InPlace, Compute
  <2>2. ~l.nonce.open /\ RunOne(l, i) = InitializeNonce(l)
      BY <1>2 DEF RunOne, Compute
  <2>5. p = [ok |-> s.ok, phase |-> "creating", created |-> s.created, nonce |-> TRUE,
             wrap |-> s.wrap, at |-> s.at \cup {k}]
      BY <1>2, TakenIs
  <2> HIDE DEF p, i
  <2>3. /\ p.nonce /\ p.created = s.created /\ p.wrap = s.wrap /\ s.wrap = 0
      BY <2>1, <2>5 DEF Known, Early
  <2>4. \A a \in Asset : Held(b, p, a) = Held(b, s, a)
      BY <2>3 DEF Held, Base
  <2> QED BY <2>1, <2>2, <2>3, <2>4 DEF After, InitializeNonce, p, i
<1>3. CASE i.op = "create"
  <2> DEFINE c == i.on
  <2>1. Early(s) /\ c \in Asset \ s.created
      BY <1>3 DEF InPlace, Compute
  <2>2. RunOne(l, i) = CreateToken(l, c)
      BY <1>3, <2>1 DEF RunOne, Compute
  <2>3. /\ p.nonce = s.nonce /\ p.created = s.created \cup {c} /\ p.wrap = s.wrap /\ s.wrap = 0
      BY <1>3, <2>1, TakenIs DEF Known, Early
  <2> HIDE DEF p, i, c
  <2>4. /\ \A a \in Asset \ {c} : Held(b, p, a) = Held(b, s, a)
        /\ Held(b, p, c) = Made(b.acct[Mine(c)]) /\ Held(b, s, c) = b.acct[Mine(c)]
      BY <2>1, <2>3 DEF Held, Base
  <2>5. l.acct[Mine(c)] = b.acct[Mine(c)] /\ Mine(c) \in DOMAIN b.acct
      BY <2>1, <2>4, BasesAreAccounts DEF After
  <2>6. CASE l.acct[Mine(c)].open
    <3>1. RunOne(l, i) = l /\ Held(b, p, c) = l.acct[Mine(c)]
        BY <2>2, <2>4, <2>5, <2>6 DEF CreateToken, Made
    <3> QED BY <2>1, <2>3, <2>4, <2>5, <3>1 DEF After, p, i
  <2>7. CASE ~l.acct[Mine(c)].open
    <3> DEFINE r == RunOne(l, i)
    <3>1. r = [l EXCEPT !.sol = @ - Lacks(l.acct[Mine(c)]), !.acct[Mine(c)] = Opened(@)]
        BY <2>2, <2>7 DEF CreateToken
    <3>2. /\ r = [sol |-> r.sol, nonce |-> l.nonce, market |-> l.market, slot |-> l.slot,
                  policy |-> l.policy, acct |-> [l.acct EXCEPT ![Mine(c)] = Opened(b.acct[Mine(c)])]]
        BY <2>5, <3>1 DEF After
    <3> HIDE DEF r
    <3>3. /\ r.acct = [l.acct EXCEPT ![Mine(c)] = Opened(b.acct[Mine(c)])]
          /\ Held(b, p, c) = Opened(b.acct[Mine(c)]) /\ r.nonce = l.nonce
        BY <2>4, <2>5, <2>7, <3>2 DEF Made
    <3>4. /\ r.acct = [q \in DOMAIN b.acct |-> r.acct[q]]
          /\ r.acct[Mine(c)] = Opened(b.acct[Mine(c)])
          /\ \A q \in DOMAIN b.acct : q # Mine(c) => r.acct[q] = l.acct[q]
        BY <2>5, <3>3 DEF After
    <3>5. \A a \in Asset \ {c} : Mine(a) # Mine(c) /\ Mine(a) \in DOMAIN b.acct
        BY BasesAreAccounts DEF Mine
    <3>6. After(b, p, r)
        BY <2>1, <2>3, <2>4, <3>2, <3>3, <3>4, <3>5 DEF After
    <3> QED BY <3>6 DEF r, p, i
  <2> QED BY <2>6, <2>7
<1>4. CASE i.op = "transfer"
  <2>1. Early(s) /\ i.on = Native /\ i.n \in Nat /\ i.n > 0 /\ Native \in Asset
      BY <1>4, PurchaseAssumption DEF InPlace, Compute
  <2>2. RunOne(l, i) = Transfer(l, Native, i.n)
      BY <1>4, <2>1 DEF RunOne, Compute
  <2>3. /\ p.nonce = s.nonce /\ p.created = s.created /\ p.wrap = i.n /\ s.wrap = 0 /\ p.phase = "sent"
      BY <1>4, <2>1, TakenIs DEF Known, Early
  <2> DEFINE n == i.n
  <2> HIDE DEF p, i
  <2>4. /\ \A a \in Asset \ {Native} : Held(b, p, a) = Held(b, s, a)
        /\ Held(b, p, Native) = Filled(Base(b, s, Native), p)
        /\ Held(b, s, Native) = Base(b, s, Native)
      BY <2>1, <2>3 DEF Held, Base
  <2> DEFINE x == Base(b, s, Native)
             r == RunOne(l, i)
             y == [x EXCEPT !.lamports = @ + n]
  <2>5. l.acct[Mine(Native)] = x /\ x \in AccountType /\ Mine(Native) \in DOMAIN b.acct
      BY <2>1, <2>4, BasesAreAccounts DEF After
  <2>6. r = [sol |-> r.sol, nonce |-> l.nonce, market |-> l.market, slot |-> l.slot,
                policy |-> l.policy, acct |-> [l.acct EXCEPT ![Mine(Native)] = y]]
    <3>1. r = [l EXCEPT !.sol = @ - n, !.acct[Mine(Native)].lamports = @ + n]
        BY <2>2 DEF Transfer
    <3> HIDE DEF x, r
    <3> QED BY <2>5, <3>1 DEF After
  <2>7. Held(b, p, Native) = y
    <3> HIDE DEF x
    <3>1. Filled(x, p) = [open |-> x.open, free |-> x.free, lamports |-> x.lamports + n, atoms |-> x.atoms]
        BY <2>3 DEF Filled
    <3>2. y = [open |-> x.open, free |-> x.free, lamports |-> x.lamports + n, atoms |-> x.atoms]
        BY <2>5 DEF AccountType
    <3> QED BY <2>4, <3>1, <3>2 DEF x
  <2> HIDE DEF r, y, x
  <2>8. /\ r.acct = [q \in DOMAIN b.acct |-> r.acct[q]] /\ r.nonce = l.nonce
        /\ r.acct[Mine(Native)] = y
        /\ \A q \in DOMAIN b.acct : q # Mine(Native) => r.acct[q] = l.acct[q]
      BY <2>5, <2>6 DEF After
  <2>9. \A a \in Asset \ {Native} : Mine(a) # Mine(Native) /\ Mine(a) \in DOMAIN b.acct
      BY BasesAreAccounts DEF Mine
  <2>10. After(b, p, r)
      BY <2>1, <2>3, <2>4, <2>6, <2>7, <2>8, <2>9 DEF After
  <2> QED BY <2>10 DEF r, p, i
<1>5. CASE i.op = "sync"
  <2>1. s.phase = "sent" /\ i.on = Native /\ Native \in Asset
      BY <1>5, PurchaseAssumption DEF InPlace, Compute
  <2>2. RunOne(l, i) = SyncNative(l, Native)
      BY <1>5, <2>1 DEF RunOne, Compute
  <2>3. /\ p.nonce = s.nonce /\ p.created = s.created /\ p.wrap = s.wrap /\ s.wrap > 0
        /\ p.phase = "synced" /\ s.wrap \in Nat
      BY <1>5, <2>1, TakenIs DEF Known
  <2> HIDE DEF p, i
  <2> DEFINE x == Base(b, s, Native)
             r == RunOne(l, i)
             y == Filled(x, p)
  <2>4. /\ \A a \in Asset \ {Native} : Held(b, p, a) = Held(b, s, a)
        /\ Held(b, p, Native) = y
        /\ Held(b, s, Native) = Filled(x, s)
      BY <2>1, <2>3 DEF Held, Base
  <2>5. l.acct[Mine(Native)] = Filled(x, s) /\ x \in AccountType /\ Mine(Native) \in DOMAIN b.acct
      BY <2>1, <2>4, BasesAreAccounts DEF After
  <2> HIDE DEF x
  <2>6. Filled(x, s) = [open |-> x.open, free |-> x.free, lamports |-> x.lamports + s.wrap, atoms |-> x.atoms]
      BY <2>1 DEF Filled
  <2>7. y = [open |-> x.open, free |-> x.free, lamports |-> x.lamports + s.wrap,
             atoms |-> x.lamports + s.wrap - Rent]
      BY <2>3 DEF Filled
  <2> HIDE DEF y
  <2>8. [l.acct[Mine(Native)] EXCEPT !.atoms = l.acct[Mine(Native)].lamports - Rent] = y
    <3> DEFINE z == l.acct[Mine(Native)]
    <3>1. z = [open |-> x.open, free |-> x.free, lamports |-> x.lamports + s.wrap, atoms |-> x.atoms]
        BY <2>5, <2>6
    <3> HIDE DEF z
    <3>2. z.lamports = x.lamports + s.wrap /\ z.open = x.open /\ z.free = x.free
        BY <3>1
    <3> DEFINE n == z.lamports - Rent
    <3> HIDE DEF n
    <3>3. [z EXCEPT !.atoms = n] = [open |-> x.open, free |-> x.free, lamports |-> x.lamports + s.wrap, atoms |-> n]
        BY <3>1
    <3>4. n = x.lamports + s.wrap - Rent
      <4>1. x.lamports \in Nat /\ s.wrap \in Nat /\ Rent \in Nat
          BY <2>3, <2>5, PurchaseAssumption DEF AccountType
      <4> QED BY <3>2, <4>1 DEF n
    <3>5. [z EXCEPT !.atoms = n] = y
        BY <2>7, <3>3, <3>4
    <3> QED BY <3>5 DEF z, n
  <2>9. r = [sol |-> l.sol, nonce |-> l.nonce, market |-> l.market, slot |-> l.slot,
                policy |-> l.policy, acct |-> [l.acct EXCEPT ![Mine(Native)] = y]]
    <3>1. r = [l EXCEPT !.acct[Mine(Native)].atoms = l.acct[Mine(Native)].lamports - Rent]
        BY <2>2 DEF SyncNative
    <3> HIDE DEF r
    <3> QED BY <2>5, <2>8, <3>1 DEF After
  <2> HIDE DEF r
  <2>10. /\ r = [sol |-> r.sol, nonce |-> r.nonce, market |-> r.market, slot |-> r.slot,
                policy |-> r.policy, acct |-> r.acct]
         /\ r.acct = [q \in DOMAIN b.acct |-> r.acct[q]] /\ r.nonce = l.nonce
         /\ r.acct[Mine(Native)] = y
         /\ \A q \in DOMAIN b.acct : q # Mine(Native) => r.acct[q] = l.acct[q]
      BY <2>5, <2>9 DEF After
  <2>11. \A a \in Asset \ {Native} : Mine(a) # Mine(Native) /\ Mine(a) \in DOMAIN b.acct
      BY BasesAreAccounts DEF Mine
  <2>12. After(b, p, r)
      BY <2>1, <2>3, <2>4, <2>10, <2>11 DEF After
  <2> QED BY <2>12 DEF r, p, i
<1> QED BY <1>1, <1>2, <1>3, <1>4, <1>5 DEF InPlace

\* What is known of the whole prefix is what the chain has made of it.
LEMMA PrefixMeans ==
    ASSUME NEW origin, NEW b, LedgerType(b), NEW S, NEW m \in Seq(S), m # <<>>,
           ParseSetup(origin, m).ok, Last(m).op = "trade", Run(b, Front(m)) # None
    PROVE  LET s == ParseSetup(origin, m) IN
           Known(origin, s) /\ s.phase # "sent" /\ After(b, s, Run(b, Front(m)))
<1> DEFINE at == Parsed(origin, m)
           l == Course(b, Front(m))
           n == Len(m)
           Shape(s) == s = [ok |-> s.ok, phase |-> s.phase, created |-> s.created, nonce |-> s.nonce,
                            wrap |-> s.wrap, at |-> s.at]
           Agree(k) == /\ Shape(at[k])
                       /\ at[k].ok => Known(origin, at[k]) /\ (l[k] = None \/ After(b, at[k], l[k]))
           T == {k \in Nat : k < n => Agree(k)}
<1>1. n \in Nat /\ n >= 1 /\ Last(m) = m[n]
    BY DEF Last
<1>2. Len(Front(m)) = n - 1 /\ \A k \in 1..(n - 1) : Front(m)[k] = m[k]
  <2>1. Front(m) = SubSeq(m, 1, n - 1)
      BY DEF Front
  <2> HIDE DEF n
  <2>2. n = Len(m) /\ 1 \in 1..(n + 1) /\ n - 1 \in 0..n /\ n - 1 >= 0
      BY <1>1 DEF n
  <2>3. /\ Len(SubSeq(m, 1, n - 1)) = n - 1
        /\ \A k \in 1..(n - 1) : SubSeq(m, 1, n - 1)[k] = m[k]
      BY <1>1, <2>2, SubSeqProperties
  <2> QED BY <2>1, <2>3
<1>3. at[0] = NoSetup /\ \A k \in 1..n : at[k] = ReadOne(origin, m, at[k - 1], k)
    BY <1>1, ParsedIs
<1>4. l[0] = b /\ \A k \in 1..(n - 1) : l[k] = StepOn(l[k - 1], m[k])
  <2>1. Len(Front(m)) \in Nat
      BY <1>1, <1>2
  <2> QED BY <1>2, <2>1, CourseIs
<1> HIDE DEF at, l, n
<1>5. 0 \in T
  <2>1. Known(origin, NoSetup) /\ NoSetup.created = {} /\ NoSetup.wrap = 0 /\ ~NoSetup.nonce
      BY DEF Known, NoSetup, Phases
  <2>2. After(b, NoSetup, b)
    <3>1. \A a \in Asset : Held(b, NoSetup, a) = b.acct[Mine(a)]
        BY <2>1 DEF Held, Base
    <3> QED BY <2>1, <3>1 DEF After, LedgerType
  <2> QED BY <1>3, <1>4, <2>1, <2>2 DEF NoSetup
<1>6. ASSUME NEW k \in T PROVE k + 1 \in T
  <2> SUFFICES ASSUME k + 1 < n PROVE Agree(k + 1)
      OBVIOUS
  <2>1. k \in Nat /\ Agree(k) /\ k + 1 \in 1..n /\ k + 1 \in 1..(n - 1) /\ (k + 1) - 1 = k /\ k + 1 # n
      BY <1>1
  <2> DEFINE q == k + 1
             s == at[k]
             p == at[q]
  <2>2. p = ReadOne(origin, m, s, q) /\ l[q] = StepOn(l[k], m[q])
      BY <1>3, <1>4, <2>1
  <2>3. Shape(s) /\ (s.ok => Known(origin, s) /\ (l[k] = None \/ After(b, s, l[k])))
      BY <2>1
  <2>4. q # n
      BY <2>1
  <2> HIDE DEF s, p, q
  <2>5. CASE s.ok /\ InPlace(origin, m, s, q)
    <3>1. p = Taken(s, m[q], q) /\ Known(origin, p)
        BY <2>2, <2>3, <2>5, KnownStep DEF ReadOne
    <3>2. m[q].op # "trade"
        BY <2>4, <2>5 DEF InPlace, Compute, n
    <3>3. l[q] = None \/ After(b, p, l[q])
        BY <2>2, <2>3, <2>5, <3>1, <3>2, AfterStep DEF StepOn
    <3> QED BY <3>1, <3>3 DEF Known, p, q
  <2>6. CASE ~(s.ok /\ InPlace(origin, m, s, q))
    <3>1. p = [s EXCEPT !.ok = FALSE]
        BY <2>2, <2>6 DEF ReadOne
    <3>2. Shape(p) /\ ~p.ok
        BY <2>3, <3>1
    <3> QED BY <3>2 DEF p, q
  <2> QED BY <2>5, <2>6
<1>7. T = Nat
  <2> HIDE DEF T
  <2>1. T \in SUBSET Nat
      BY DEF T
  <2> QED BY <1>5, <1>6, <2>1, AllNumbers
<1> DEFINE k == n - 1
           s == at[k]
<1>8. k \in Nat /\ Agree(k) /\ n \in 1..n
  <2>1. k \in Nat /\ n \in 1..n /\ k < n
      BY <1>1
  <2> HIDE DEF k, Agree
  <2>2. k \in T
      BY <1>7, <2>1
  <2> QED BY <2>1, <2>2
<1>9. at[n] = ReadOne(origin, m, s, n)
    BY <1>1, <1>3, <1>8
<1> DEFINE e == ParseSetup(origin, m)
<1>10. e = [at[n] EXCEPT !.ok = /\ at[n].ok /\ at[n].phase # "sent"
                                /\ Cardinality(at[n].at) <= MaxSetup
                                /\ Cardinality(at[n].created) <= MaxAssets]
    BY DEF ParseSetup, at, n
<1>11. Shape(s)
    BY <1>8
<1> HIDE DEF k, s, e
<1>12. Shape(at[n])
  <2>1. Shape(Taken(s, m[n], n))
    <3>1. CASE m[n].op = "trade"
        BY <1>11, <3>1 DEF Taken
    <3> QED BY <1>1, <3>1
  <2> QED BY <1>9, <1>11, <2>1 DEF ReadOne
<1>13. at[n].ok /\ at[n].phase # "sent" /\ e.ok
  <2>1. e.ok
      BY DEF e
  <2> DEFINE y == at[n]
             ok == /\ y.ok /\ y.phase # "sent"
                   /\ Cardinality(y.at) <= MaxSetup /\ Cardinality(y.created) <= MaxAssets
  <2>2. e = [y EXCEPT !.ok = ok] /\ Shape(y)
      BY <1>10, <1>12
  <2> HIDE DEF y, ok
  <2>3. e.ok = ok
      BY <2>2
  <2> QED BY <2>1, <2>3 DEF y, ok
<1>14. s.ok /\ at[n] = s
  <2>1. s.ok /\ InPlace(origin, m, s, n)
    <3>1. ~(s.ok /\ InPlace(origin, m, s, n)) => at[n] = [s EXCEPT !.ok = FALSE]
        BY <1>9 DEF ReadOne
    <3> QED BY <1>11, <1>13, <3>1
  <2>2. Taken(s, m[n], n) = s
      BY <1>1 DEF Taken
  <2> QED BY <1>9, <2>1, <2>2 DEF ReadOne
<1>15. Known(origin, s) /\ (l[k] = None \/ After(b, s, l[k]))
    BY <1>8, <1>14 DEF s
<1>16. Run(b, Front(m)) = l[k]
  <2>1. k = Len(Front(m))
      BY <1>2 DEF k, n
  <2> QED BY <2>1 DEF Run, l
<1>17. /\ e = [ok |-> e.ok, phase |-> e.phase, created |-> e.created, nonce |-> e.nonce,
               wrap |-> e.wrap, at |-> e.at]
       /\ e.phase = s.phase /\ e.created = s.created /\ e.nonce = s.nonce /\ e.wrap = s.wrap
  <2> DEFINE y == at[n]
             ok == /\ y.ok /\ y.phase # "sent"
                   /\ Cardinality(y.at) <= MaxSetup /\ Cardinality(y.created) <= MaxAssets
  <2>1. e = [y EXCEPT !.ok = ok] /\ Shape(y) /\ y = s
      BY <1>10, <1>12, <1>14
  <2> HIDE DEF ok, y
  <2> QED BY <2>1
<1>18. Known(origin, e)
    BY <1>15, <1>17 DEF Known
<1>19. \A x \in Asset : Held(b, e, x) = Held(b, s, x)
    BY <1>17 DEF Held, Base, Filled
<1>20. l[k] # None => After(b, e, l[k])
    BY <1>15, <1>17, <1>19 DEF After
<1> QED BY <1>13, <1>14, <1>16, <1>17, <1>18, <1>20 DEF e

\* What SumOf adds up.
LEMMA SumOfIs ==
    ASSUME NEW f
    PROVE  SumOf(f) = SumIn(f, DOMAIN f)
BY DEF SumOf, SumIn, FoldFunction, FoldFunctionOnSet, MapThenSumSet

IntAccount == [open : BOOLEAN, free : BOOLEAN, lamports : Int, atoms : Int]

\* r is l but for what was moved on some accounts.
Kin(l, r, moved) ==
    /\ r = [sol |-> r.sol, nonce |-> r.nonce, market |-> r.market, slot |-> r.slot,
            policy |-> r.policy, acct |-> r.acct]
    /\ r.acct \in [DOMAIN l.acct -> IntAccount]
    /\ \A k \in DOMAIN l.acct :
         /\ r.acct[k].open = l.acct[k].open
         /\ k \notin moved => r.acct[k] = l.acct[k]
    /\ \A a \in Asset : Reserve(r.acct[Mine(a)], a) = Reserve(l.acct[Mine(a)], a)
    /\ r.nonce = [open |-> l.nonce.open, free |-> l.nonce.free,
                  lamports |-> l.nonce.lamports, atoms |-> r.nonce.atoms]

\* A move of atoms opens nothing and leaves the reserve alone.
LEMMA PlusKeeps ==
    ASSUME NEW x \in IntAccount, NEW a, NEW n \in Int
    PROVE  /\ Plus(x, a, n) \in IntAccount /\ Plus(x, a, n).open = x.open
           /\ Reserve(Plus(x, a, n), a) = Reserve(x, a)
           /\ n = 0 => Plus(x, a, n) = x
<1>1. x = [open |-> x.open, free |-> x.free, lamports |-> x.lamports, atoms |-> x.atoms]
      /\ x.open \in BOOLEAN /\ x.free \in BOOLEAN /\ x.lamports \in Int /\ x.atoms \in Int
    BY DEF IntAccount
<1>2. Plus(x, a, n) = [open |-> x.open, free |-> x.free,
                       lamports |-> IF a = Native THEN x.lamports + n ELSE x.lamports,
                       atoms |-> x.atoms + n]
  <2> DEFINE m == IF a = Native THEN x.lamports + n ELSE x.lamports
             o == x.atoms + n
  <2>1. Plus(x, a, n) = [x EXCEPT !.atoms = o, !.lamports = m]
      BY DEF Plus
  <2> HIDE DEF m, o
  <2>2. [x EXCEPT !.atoms = o, !.lamports = m] =
          [open |-> x.open, free |-> x.free, lamports |-> m, atoms |-> o]
    <3> DEFINE z == [x EXCEPT !.atoms = o]
    <3>1. z = [open |-> x.open, free |-> x.free, lamports |-> x.lamports, atoms |-> o]
        BY DEF IntAccount
    <3>2. [x EXCEPT !.atoms = o, !.lamports = m] = [z EXCEPT !.lamports = m]
        OBVIOUS
    <3> HIDE DEF z
    <3> QED BY <3>1, <3>2
  <2> QED BY <2>1, <2>2 DEF m, o
<1> QED BY <1>1, <1>2 DEF IntAccount, Reserve

\* One account is moved once more.
LEMMA AddKeeps ==
    ASSUME NEW l, NEW r, NEW moved, Kin(l, r, moved), {Mine(a) : a \in Asset} \subseteq DOMAIN l.acct,
           NEW k \in moved, k \in DOMAIN l.acct, NEW n \in Int
    PROVE  Kin(l, Add(r, k, n), moved)
<1> DEFINE y == Plus(r.acct[k], k[2], n)
           d == Add(r, k, n)
<1>1. y \in IntAccount /\ y.open = r.acct[k].open /\ Reserve(y, k[2]) = Reserve(r.acct[k], k[2])
    BY PlusKeeps DEF Kin
<1>2. d = [sol |-> r.sol, nonce |-> r.nonce, market |-> r.market, slot |-> r.slot,
           policy |-> r.policy, acct |-> [r.acct EXCEPT ![k] = y]]
  <2>1. d = [r EXCEPT !.acct[k] = y]
      BY DEF Add
  <2> HIDE DEF d, y
  <2> QED BY <2>1 DEF Kin
<1> HIDE DEF d, y
<1>3. /\ d.acct \in [DOMAIN l.acct -> IntAccount] /\ d.acct[k] = y
      /\ \A q \in DOMAIN l.acct : q # k => d.acct[q] = r.acct[q]
    BY <1>1, <1>2 DEF Kin
<1>4. \A a \in Asset : Reserve(d.acct[Mine(a)], a) = Reserve(r.acct[Mine(a)], a)
  <2>1. \A a \in Asset : Mine(a) = k => k[2] = a
      BY DEF Mine
  <2> QED BY <1>1, <1>3, <2>1
<1>5. Kin(l, d, moved)
    BY <1>1, <1>2, <1>3, <1>4 DEF Kin
<1> QED BY <1>5 DEF d

\* All moves together move what they are about.
LEMMA AddAllKeeps ==
    ASSUME NEW l, Kin(l, l, {}), {Mine(a) : a \in Asset} \subseteq DOMAIN l.acct,
           NEW moved, NEW accounts \in Seq(moved), NEW ns \in Seq(Int), Len(ns) = Len(accounts)
    PROVE  Kin(l, AddAll(l, accounts, ns), moved)
<1> DEFINE d == AddAll(l, accounts, ns)
           M(k) == Moved(accounts, ns, k)
<1>1. \A k \in DOMAIN l.acct : M(k) \in Int /\ (k \notin moved => M(k) = 0)
  <2> TAKE k \in DOMAIN l.acct
  <2> DEFINE D == {j \in DOMAIN accounts : accounts[j] = k}
             f == [i \in D |-> ns[i]]
  <2>1. IsFiniteSet(D) /\ \A i \in D : ns[i] \in Int
    <3>1. DOMAIN accounts = 1..Len(accounts) /\ Len(accounts) \in Nat
        BY SeqDef
    <3>2. IsFiniteSet(1..Len(accounts))
        BY <3>1, FS_Interval
    <3>3. D \in SUBSET (1..Len(accounts))
        BY <3>1
    <3> QED BY <3>1, <3>2, <3>3, FS_Subset
  <2>2. DOMAIN f = D /\ \A i \in D : f[i] = ns[i]
      OBVIOUS
  <2>3. k \notin moved => D = {}
      OBVIOUS
  <2>4. M(k) = SumOf(f)
      BY DEF Moved
  <2> HIDE DEF f, D, M
  <2>5. M(k) = SumIn(f, D)
      BY <2>2, <2>4, SumOfIs
  <2>6. SumIn(f, D) \in Int
      BY <2>1, <2>2, SumOfIntegers
  <2>7. D = {} => SumIn(f, D) = 0
      BY <2>1, SumUnfolds
  <2> QED BY <2>3, <2>5, <2>6, <2>7
<1> HIDE DEF M
<1> DEFINE acct == [k \in DOMAIN l.acct |-> Plus(l.acct[k], k[2], M(k))]
<1>2. d = [l EXCEPT !.acct = acct]
    BY DEF AddAll, M
<1> HIDE DEF d, acct
<1>3. d = [sol |-> l.sol, nonce |-> l.nonce, market |-> l.market, slot |-> l.slot,
           policy |-> l.policy, acct |-> acct]
    BY <1>2 DEF Kin
<1>4. \A k \in DOMAIN l.acct : acct[k] = Plus(l.acct[k], k[2], M(k)) /\ l.acct[k] \in IntAccount
    BY DEF acct, Kin
<1>5. \A k \in DOMAIN l.acct :
        /\ acct[k] \in IntAccount /\ acct[k].open = l.acct[k].open
        /\ Reserve(acct[k], k[2]) = Reserve(l.acct[k], k[2])
        /\ k \notin moved => acct[k] = l.acct[k]
    BY <1>1, <1>4, PlusKeeps
<1>6. acct \in [DOMAIN l.acct -> IntAccount]
    BY <1>5 DEF acct
<1>7. \A a \in Asset : Mine(a) \in DOMAIN l.acct /\ Mine(a)[2] = a
    BY DEF Mine
<1>8. Kin(l, d, moved)
    BY <1>3, <1>5, <1>6, <1>7 DEF Kin
<1> QED BY <1>8 DEF d

\* A trade whose accounts a ledger with the accounts A has.
Trading(A, t) ==
    /\ t.input \in Asset /\ t.amount \in Nat /\ (IsFunded(t) => t.fund.asset \in Asset)
    /\ t.products \in Seq(ProductType) /\ t.products # <<>>
    /\ Len(t.sellers) \in Nat /\ DOMAIN t.sellers = 1..Len(t.sellers)
    /\ \A i \in DOMAIN t.sellers : LET q == t.sellers[i] IN
         /\ q.product \in DOMAIN t.products /\ q.stock \in Nat /\ q.cash \in Nat
         /\ {<<q.wallet, a>> : a \in Asset} \subseteq A
    /\ {Mine(a) : a \in Asset} \subseteq A

\* The accounts of a trade, in the parts they are listed in.
LEMMA PartsOfBalances ==
    ASSUME NEW A, NEW t, Trading(A, t)
    PROVE  /\ ProductAccounts(t) \in Seq(A) /\ Len(ProductAccounts(t)) = Len(t.products)
           /\ SellerAccounts(t) \in Seq(A) /\ Len(SellerAccounts(t)) = 2 * Len(t.sellers)
           /\ Preserved(t) \in Seq(A) /\ Mine(t.input) \in A /\ CashOf(t) \in Asset
           /\ \A i \in DOMAIN t.products :
                t.products[i].asset \in Asset /\ ProductAccounts(t)[i] = Mine(t.products[i].asset)
           /\ \A n \in DOMAIN t.sellers :
                /\ SellerAccounts(t)[2 * n - 1] = <<t.sellers[n].wallet, t.products[t.sellers[n].product].asset>>
                /\ SellerAccounts(t)[2 * n] = <<t.sellers[n].wallet, CashOf(t)>>
           /\ \A n \in 1..(2 * Len(t.sellers)) : \E i \in DOMAIN t.sellers : n = 2 * i - 1 \/ n = 2 * i
<1> DEFINE P == Len(t.products)
           S == Len(t.sellers)
<1>1. P \in Nat /\ DOMAIN t.products = 1..P /\ S \in Nat /\ DOMAIN t.sellers = 1..S
    BY DEF Trading
<1>2. \A i \in DOMAIN t.products : t.products[i].asset \in Asset
  <2>1. \A i \in DOMAIN t.products : t.products[i] \in ProductType
      BY DEF Trading
  <2>2. \A q \in ProductType : q.asset \in Asset
      BY DEF ProductType
  <2> QED BY <2>1, <2>2
<1>3. /\ \A i \in DOMAIN t.products : ProductAccounts(t)[i] = Mine(t.products[i].asset)
      /\ ProductAccounts(t) \in Seq(A) /\ Len(ProductAccounts(t)) = P
  <2> DEFINE f == [i \in 1..P |-> Mine(t.products[i].asset)]
  <2>1. ProductAccounts(t) = f
      BY <1>1 DEF ProductAccounts
  <2>2. \A i \in 1..P : f[i] = Mine(t.products[i].asset) /\ f[i] \in A
      BY <1>1, <1>2 DEF Trading
  <2>3. f = [i \in 1..P |-> f[i]]
      OBVIOUS
  <2> HIDE DEF f, P
  <2>4. f \in Seq(A) /\ Len(f) = P
      BY <1>1, <2>2, <2>3
  <2> QED BY <1>1, <2>1, <2>2, <2>4
<1>4. CashOf(t) \in Asset
    BY DEF CashOf, Trading
<1>5. \A n \in 1..(2 * S) : (n + 1) \div 2 \in 1..S
    BY <1>1
<1>6. \A n \in 1..S : /\ 2 * n - 1 \in 1..(2 * S) /\ 2 * n \in 1..(2 * S)
                      /\ ((2 * n - 1) + 1) \div 2 = n /\ (2 * n + 1) \div 2 = n
                      /\ (2 * n - 1) % 2 = 1 /\ (2 * n) % 2 = 0
    BY <1>1
<1>7. \A n \in 1..(2 * S) : \E i \in 1..S : n = 2 * i - 1 \/ n = 2 * i
  <2> TAKE n \in 1..(2 * S)
  <2>1. (n + 1) \div 2 \in 1..S
      BY <1>5
  <2>2. n = 2 * ((n + 1) \div 2) - 1 \/ n = 2 * ((n + 1) \div 2)
      BY <1>1
  <2> QED BY <2>1, <2>2
<1> DEFINE g(n) == <<SellerOf(t, n).wallet,
                     IF n % 2 = 1 THEN t.products[SellerOf(t, n).product].asset ELSE CashOf(t)>>
           f == [n \in 1..(2 * S) |-> g(n)]
<1>8. \A n \in 1..(2 * S) : f[n] = g(n) /\ g(n) \in A
  <2> TAKE n \in 1..(2 * S)
  <2> DEFINE q == t.sellers[(n + 1) \div 2]
  <2>1. (n + 1) \div 2 \in DOMAIN t.sellers
      BY <1>1, <1>5
  <2>2. q.product \in DOMAIN t.products /\ \A a \in Asset : <<q.wallet, a>> \in A
      BY <2>1 DEF Trading
  <2>3. SellerOf(t, n) = q
      BY DEF SellerOf
  <2>4. f[n] = g(n)
      OBVIOUS
  <2> HIDE DEF q, f
  <2> QED BY <1>2, <1>4, <2>2, <2>3, <2>4
<1>9. SellerAccounts(t) = f
    BY DEF SellerAccounts
<1>10. f = [n \in 1..(2 * S) |-> f[n]]
    OBVIOUS
<1>11. \A n \in 1..S : /\ f[2 * n - 1] = <<t.sellers[n].wallet, t.products[t.sellers[n].product].asset>>
                       /\ f[2 * n] = <<t.sellers[n].wallet, CashOf(t)>>
  <2> TAKE n \in 1..S
  <2>1. SellerOf(t, 2 * n - 1) = t.sellers[n] /\ SellerOf(t, 2 * n) = t.sellers[n]
      BY <1>6 DEF SellerOf
  <2>2. f[2 * n - 1] = g(2 * n - 1) /\ f[2 * n] = g(2 * n)
      BY <1>6, <1>8
  <2>3. (2 * n - 1) % 2 = 1 /\ (2 * n) % 2 = 0
      BY <1>6
  <2> HIDE DEF f
  <2> QED BY <2>1, <2>2, <2>3
<1> HIDE DEF f
<1>12. f \in Seq(A) /\ Len(f) = 2 * S
  <2> DEFINE N == 2 * S
  <2>1. N \in Nat
      BY <1>1
  <2>2. f = [n \in 1..N |-> f[n]] /\ \A n \in 1..N : f[n] \in A
      BY <1>8, <1>10
  <2> HIDE DEF N
  <2>3. f \in Seq(A) /\ Len(f) = N
      BY <2>1, <2>2
  <2> QED BY <2>3 DEF N
<1>13. Preserved(t) \in Seq(A)
  <2>1. IsFunded(t) => Mine(t.fund.asset) \in A
      BY DEF Trading
  <2> QED BY <2>1 DEF Preserved
<1>14. Mine(t.input) \in A
    BY DEF Trading
<1> QED BY <1>1, <1>2, <1>3, <1>4, <1>7, <1>9, <1>11, <1>12, <1>13, <1>14

\* Two sequences, one after the other.
LEMMA OneAfterOther ==
    ASSUME NEW A, NEW p \in Seq(A), NEW q \in Seq(A), NEW r, r = p \o q
    PROVE  \A m, n : Len(p) = m /\ Len(q) = n =>
             /\ r \in Seq(A) /\ Len(r) = m + n
             /\ \A i \in 1..m : r[i] = p[i]
             /\ \A i \in 1..n : r[m + i] = q[i]
<1>1. /\ r \in Seq(A) /\ Len(r) = Len(p) + Len(q)
      /\ \A i \in 1..Len(p) : r[i] = p[i]
      /\ \A i \in 1..Len(q) : r[Len(p) + i] = q[i]
    OBVIOUS
<1> QED BY <1>1, Zenon

\* The accounts of a trade.
Touched(t) == {Balances(t)[k] : k \in DOMAIN Balances(t)}

\* They are those of its input, its products, its sellers and its funding,
\* and if each is listed once, then these are different accounts.
LEMMA BalancesAre ==
    ASSUME NEW A, NEW t, Trading(A, t)
    PROVE  /\ Touched(t) \subseteq A /\ Mine(t.input) \in Touched(t)
           /\ \A i \in DOMAIN t.products : ProductAccounts(t)[i] \in Touched(t)
           /\ \A n \in 1..(2 * Len(t.sellers)) : SellerAccounts(t)[n] \in Touched(t)
           /\ IsFunded(t) => Mine(t.fund.asset) \in Touched(t)
           /\ \A k \in Touched(t) :
                \/ k = Mine(t.input) \/ (\E i \in DOMAIN t.products : k = ProductAccounts(t)[i])
                \/ (\E n \in 1..(2 * Len(t.sellers)) : k = SellerAccounts(t)[n])
                \/ IsFunded(t) /\ k = Mine(t.fund.asset)
           /\ Once(Balances(t)) =>
                /\ \A i \in DOMAIN t.products :
                     /\ ProductAccounts(t)[i] # Mine(t.input)
                     /\ IsFunded(t) => ProductAccounts(t)[i] # Mine(t.fund.asset)
                     /\ \A j \in DOMAIN t.products : ProductAccounts(t)[i] = ProductAccounts(t)[j] => i = j
                /\ \A n \in 1..(2 * Len(t.sellers)) :
                     /\ SellerAccounts(t)[n] # Mine(t.input)
                     /\ \A i \in DOMAIN t.products : SellerAccounts(t)[n] # ProductAccounts(t)[i]
                     /\ IsFunded(t) => SellerAccounts(t)[n] # Mine(t.fund.asset)
<1> DEFINE P == Len(t.products)
           S == Len(t.sellers)
           N == 2 * S
           w == <<Mine(t.input)>>
           x == ProductAccounts(t)
           y == SellerAccounts(t)
           z == Preserved(t)
           b == Balances(t)
<1>1. P \in Nat /\ S \in Nat /\ N \in Nat
    BY DEF Trading
<1>2. /\ w \in Seq(A) /\ x \in Seq(A) /\ y \in Seq(A) /\ z \in Seq(A)
      /\ Len(w) = 1 /\ w[1] = Mine(t.input) /\ Len(x) = P /\ Len(y) = N
    BY PartsOfBalances
<1>3. (IsFunded(t) => Len(z) = 1 /\ z[1] = Mine(t.fund.asset)) /\ (~IsFunded(t) => Len(z) = 0)
    BY DEF Preserved
<1>4. b = w \o x \o y \o z
    BY DEF Balances
<1> HIDE DEF w, x, y, z, b, N, P
<1> DEFINE u == w \o x
           v == u \o y
           F == Len(z)
<1>5. u \in Seq(A) /\ Len(u) = 1 + P /\ u[1] = Mine(t.input) /\ \A i \in 1..P : u[1 + i] = x[i]
  <2>1. u = w \o x
      OBVIOUS
  <2> HIDE DEF u
  <2>2. /\ u \in Seq(A) /\ Len(u) = 1 + P
        /\ \A i \in 1..1 : u[i] = w[i]
        /\ \A i \in 1..P : u[1 + i] = x[i]
    <3>1. w \in Seq(A)
        BY <1>2
    <3>2. x \in Seq(A)
        BY <1>2
    <3>3. \A m, n : Len(w) = m /\ Len(x) = n =>
           /\ u \in Seq(A) /\ Len(u) = m + n
           /\ \A i \in 1..m : u[i] = w[i]
           /\ \A i \in 1..n : u[m + i] = x[i]
        BY <2>1, <3>1, <3>2, OneAfterOther
    <3> QED BY <1>2, <3>3, Zenon
  <2> QED BY <1>2, <2>2
<1> HIDE DEF u
<1> DEFINE Q == 1 + P
<1>6. /\ v \in Seq(A) /\ Len(v) = Q + N
      /\ \A k \in 1..Q : v[k] = u[k]
      /\ \A n \in 1..N : v[Q + n] = y[n]
  <2>1. v = u \o y /\ Len(u) = Q
      BY <1>5
  <2> HIDE DEF v, Q
  <2>2. u \in Seq(A)
      BY <1>5
  <2>3. y \in Seq(A)
      BY <1>2
  <2>4. v = u \o y
      BY <2>1
  <2>5. \A m, n : Len(u) = m /\ Len(y) = n =>
           /\ v \in Seq(A) /\ Len(v) = m + n
           /\ \A i \in 1..m : v[i] = u[i]
           /\ \A i \in 1..n : v[m + i] = y[i]
      BY <2>2, <2>3, <2>4, OneAfterOther
  <2> QED BY <1>2, <2>1, <2>5, Zenon
<1>7. b = v \o z
    BY <1>4 DEF u
<1> HIDE DEF v
<1> DEFINE R == Q + N
<1>8. /\ b \in Seq(A) /\ Len(b) = R + F
      /\ \A k \in 1..R : b[k] = v[k]
      /\ \A k \in 1..F : b[R + k] = z[k]
  <2>1. Len(v) = R /\ Len(z) = F
      BY <1>6
  <2> HIDE DEF F, R
  <2>2. v \in Seq(A)
      BY <1>6
  <2>3. z \in Seq(A)
      BY <1>2
  <2>4. \A m, n : Len(v) = m /\ Len(z) = n =>
           /\ b \in Seq(A) /\ Len(b) = m + n
           /\ \A i \in 1..m : b[i] = v[i]
           /\ \A i \in 1..n : b[m + i] = z[i]
      BY <1>7, <2>2, <2>3, OneAfterOther
  <2> QED BY <2>1, <2>4, Zenon
<1>9. F \in {0, 1} /\ (IsFunded(t) <=> F = 1) /\ (IsFunded(t) => z[1] = Mine(t.fund.asset))
    BY <1>3
<1> HIDE DEF F
<1>10. DOMAIN b = 1..(1 + P + N + F)
    BY <1>8
<1>11. b[1] = Mine(t.input) /\ 1 \in DOMAIN b
  <2>1. 1 \in 1..(1 + P) /\ 1 \in 1..(1 + P + N) /\ 1 \in 1..(1 + P + N + F)
      BY <1>1, <1>9
  <2> QED BY <1>5, <1>6, <1>8, <1>10, <2>1
<1>12. ASSUME NEW i \in 1..P PROVE 1 + i \in DOMAIN b /\ b[1 + i] = x[i]
  <2>1. 1 + i \in 1..(1 + P) /\ 1 + i \in 1..(1 + P + N) /\ 1 + i \in 1..(1 + P + N + F)
      BY <1>1, <1>9
  <2> QED BY <1>5, <1>6, <1>8, <1>10, <2>1
<1>13. ASSUME NEW n \in 1..N PROVE 1 + P + n \in DOMAIN b /\ b[1 + P + n] = y[n]
  <2>1. 1 + P + n \in 1..(1 + P + N) /\ 1 + P + n \in 1..(1 + P + N + F)
      BY <1>1, <1>9
  <2> QED BY <1>6, <1>8, <1>10, <2>1
<1>14. ASSUME IsFunded(t) PROVE 1 + P + N + 1 \in DOMAIN b /\ b[1 + P + N + 1] = Mine(t.fund.asset)
  <2>1. F = 1 /\ 1 \in 1..F /\ 1 + P + N + 1 \in 1..(1 + P + N + F)
      BY <1>1, <1>9, <1>14
  <2> QED BY <1>8, <1>9, <1>10, <1>14, <2>1
<1>15. ASSUME NEW k \in DOMAIN b
       PROVE  \/ k = 1 \/ (\E i \in 1..P : k = 1 + i) \/ (\E n \in 1..N : k = 1 + P + n)
              \/ IsFunded(t) /\ k = 1 + P + N + 1
  <2>1. k \in 1..(1 + P + N + F)
      BY <1>10
  <2>2. CASE k \in 2..(1 + P)
    <3>1. k - 1 \in 1..P /\ k = 1 + (k - 1)
        BY <1>1, <2>2
    <3> QED BY <3>1
  <2>3. CASE k \in (2 + P)..(1 + P + N)
    <3>1. k - (1 + P) \in 1..N /\ k = 1 + P + (k - (1 + P))
        BY <1>1, <2>3
    <3> QED BY <3>1
  <2>4. CASE k > 1 + P + N
      BY <1>1, <1>9, <2>1, <2>4
  <2>5. k = 1 \/ k \in 2..(1 + P) \/ k \in (2 + P)..(1 + P + N) \/ k > 1 + P + N
      BY <1>1, <2>1
  <2> QED BY <2>2, <2>3, <2>4, <2>5
<1>16. DOMAIN t.products = 1..P
    BY DEF P, Trading
<1>17. Touched(t) = {b[k] : k \in DOMAIN b}
    BY DEF Touched, b
<1>18. \A k \in DOMAIN b : b[k] \in A
    BY <1>8
<1>19. /\ Touched(t) \subseteq A /\ Mine(t.input) \in Touched(t)
       /\ \A i \in 1..P : x[i] \in Touched(t)
       /\ \A n \in 1..N : y[n] \in Touched(t)
       /\ IsFunded(t) => Mine(t.fund.asset) \in Touched(t)
    BY <1>11, <1>12, <1>13, <1>14, <1>17, <1>18
<1>20. ASSUME NEW k \in Touched(t)
       PROVE  \/ k = Mine(t.input) \/ (\E i \in 1..P : k = x[i]) \/ (\E n \in 1..N : k = y[n])
              \/ IsFunded(t) /\ k = Mine(t.fund.asset)
  <2>1. PICK j \in DOMAIN b : k = b[j]
      BY <1>17
  <2>2. \/ j = 1 \/ (\E i \in 1..P : j = 1 + i) \/ (\E n \in 1..N : j = 1 + P + n)
        \/ IsFunded(t) /\ j = 1 + P + N + 1
      BY <1>15
  <2> QED BY <1>11, <1>12, <1>13, <1>14, <2>1, <2>2
<1>21. ASSUME Once(b)
       PROVE  /\ \A i \in 1..P :
                   /\ x[i] # Mine(t.input) /\ (IsFunded(t) => x[i] # Mine(t.fund.asset))
                   /\ \A j \in 1..P : x[i] = x[j] => i = j
              /\ \A n \in 1..N :
                   /\ y[n] # Mine(t.input) /\ (\A i \in 1..P : y[n] # x[i])
                   /\ IsFunded(t) => y[n] # Mine(t.fund.asset)
  <2>1. \A i, j \in DOMAIN b : b[i] = b[j] => i = j
      BY <1>21 DEF Once
  <2>2. ASSUME NEW i \in 1..P
        PROVE  /\ x[i] # Mine(t.input) /\ (IsFunded(t) => x[i] # Mine(t.fund.asset))
               /\ \A j \in 1..P : x[i] = x[j] => i = j
    <3>1. 1 + i # 1 /\ 1 + i # 1 + P + N + 1 /\ \A j \in 1..P : 1 + i = 1 + j => i = j
        BY <1>1
    <3> QED BY <1>11, <1>12, <1>14, <2>1, <3>1
  <2>3. ASSUME NEW n \in 1..N
        PROVE  /\ y[n] # Mine(t.input) /\ (\A i \in 1..P : y[n] # x[i])
               /\ IsFunded(t) => y[n] # Mine(t.fund.asset)
    <3>1. 1 + P + n # 1 /\ 1 + P + n # 1 + P + N + 1 /\ \A i \in 1..P : 1 + P + n # 1 + i
        BY <1>1
    <3> QED BY <1>11, <1>12, <1>13, <1>14, <2>1, <3>1
  <2> QED BY <2>2, <2>3
<1> QED BY <1>16, <1>19, <1>20, <1>21 DEF N, x, y, b

\* Three sequences in a row.
LEMMA InARow ==
    ASSUME NEW A, NEW p \in Seq(A), NEW q \in Seq(A), NEW r \in Seq(A)
    PROVE  \A s : s = p \o q \o r => s \in Seq(A) /\ Len(s) = Len(p) + Len(q) + Len(r)
OBVIOUS

\* What is moved besides: lamports of the owner, and the sequence.
LEMMA RestKeeps ==
    ASSUME NEW l, NEW r, NEW moved, Kin(l, r, moved)
    PROVE  Kin(l, [r EXCEPT !.sol = @ - 1], moved) /\ Kin(l, [r EXCEPT !.nonce.atoms = @ + 1], moved)
<1> DEFINE n == [r.nonce EXCEPT !.atoms = @ + 1]
           d == [r EXCEPT !.sol = @ - 1]
           e == [r EXCEPT !.nonce = n]
<1>1. n = [open |-> l.nonce.open, free |-> l.nonce.free, lamports |-> l.nonce.lamports, atoms |-> n.atoms]
  <2> DEFINE m == r.nonce.atoms + 1
             o == r.nonce
  <2>1. n = [o EXCEPT !.atoms = m]
      OBVIOUS
  <2>2. o = [open |-> l.nonce.open, free |-> l.nonce.free, lamports |-> l.nonce.lamports, atoms |-> o.atoms]
      BY DEF Kin
  <2> HIDE DEF n, m, o
  <2> QED BY <2>1, <2>2
<1> HIDE DEF n
<1>2. d = [sol |-> d.sol, nonce |-> r.nonce, market |-> r.market, slot |-> r.slot,
           policy |-> r.policy, acct |-> r.acct]
    BY DEF Kin
<1>3. e = [sol |-> r.sol, nonce |-> n, market |-> r.market, slot |-> r.slot,
           policy |-> r.policy, acct |-> r.acct]
    BY DEF Kin
<1>4. e = [r EXCEPT !.nonce.atoms = @ + 1]
    BY DEF n
<1> HIDE DEF d, e
<1>5. Kin(l, d, moved)
    BY <1>2 DEF Kin
<1>6. Kin(l, e, moved)
    BY <1>1, <1>3 DEF Kin
<1> QED BY <1>4, <1>5, <1>6 DEF d

\* A settlement, whatever it departs in, moves atoms of the accounts of its
\* trade, and says what it has bought.
LEMMA ResultsKeep ==
    ASSUME NEW l, Kin(l, l, {}), NEW t, Trading(DOMAIN l.acct, t),
           NEW raw, Len(raw) \in Nat, raw \in [1..Len(raw) -> Nat], DOMAIN raw = DOMAIN t.products,
           NEW x \in Departures(Settled(l, t, raw), t)
    PROVE  /\ Kin(l, x.ledger, Touched(t))
           /\ x.ret.raw = raw /\ DOMAIN x.ret.exposure = DOMAIN raw
<1> DEFINE A == DOMAIN l.acct
           B == Touched(t)
           s == Settled(l, t, raw)
           P == Len(t.products)
           S == 2 * Len(t.sellers)
<1>1. /\ P \in Nat /\ P >= 1 /\ DOMAIN t.products = 1..P /\ Len(t.sellers) \in Nat /\ S \in Nat
      /\ t.amount \in Nat /\ {Mine(a) : a \in Asset} \subseteq A /\ DOMAIN t.sellers = 1..Len(t.sellers)
    BY DEF Trading
<1>2. /\ B \subseteq A /\ Mine(t.input) \in B
      /\ \A i \in 1..P : ProductAccounts(t)[i] \in B
      /\ \A n \in 1..S : SellerAccounts(t)[n] \in B
      /\ IsFunded(t) => Mine(t.fund.asset) \in B
    BY <1>1, BalancesAre
<1>3. /\ ProductAccounts(t) \in Seq(A) /\ Len(ProductAccounts(t)) = P
      /\ SellerAccounts(t) \in Seq(A) /\ Len(SellerAccounts(t)) = S
    BY PartsOfBalances
<1>4. ProductAccounts(t) \in Seq(B) /\ SellerAccounts(t) \in Seq(B) /\ <<Mine(t.input)>> \in Seq(B)
  <2> HIDE DEF A, B, P, S
  <2>1. \A f \in Seq(A) : (\A i \in 1..Len(f) : f[i] \in B) => f \in Seq(B)
      OBVIOUS
  <2> QED BY <1>2, <1>3, <2>1
<1> DEFINE accounts == <<Mine(t.input)>> \o ProductAccounts(t) \o SellerAccounts(t)
           ns == <<-t.amount>> \o raw \o SellerMoves(t)
<1>5. accounts \in Seq(B) /\ Len(accounts) = 1 + P + S
  <2> HIDE DEF A, B, P, S
  <2> DEFINE w == <<Mine(t.input)>>
             u == ProductAccounts(t)
             v == SellerAccounts(t)
  <2>1. w \in Seq(B) /\ u \in Seq(B) /\ v \in Seq(B) /\ Len(w) = 1 /\ Len(u) = P /\ Len(v) = S
      BY <1>3, <1>4
  <2> HIDE DEF w, u, v
  <2> DEFINE all == w \o u \o v
  <2>2. \A z : z = all => z \in Seq(B) /\ Len(z) = Len(w) + Len(u) + Len(v)
    <3>1. w \in Seq(B)
        BY <2>1
    <3>2. u \in Seq(B)
        BY <2>1
    <3>3. v \in Seq(B)
        BY <2>1
    <3> QED BY <3>1, <3>2, <3>3, InARow
  <2>3. Len(w) = 1 /\ Len(u) = P /\ Len(v) = S
      BY <2>1
  <2> HIDE DEF all
  <2>4. all \in Seq(B) /\ Len(all) = 1 + P + S
      BY <2>2, <2>3
  <2> QED BY <2>4 DEF all, w, u, v
<1>6. raw \in Seq(Int) /\ Len(raw) = P
    BY <1>1
<1>7. SellerMoves(t) \in Seq(Int) /\ Len(SellerMoves(t)) = S
  <2> DEFINE g(n) == IF n % 2 = 1 THEN -SellerOf(t, n).stock ELSE SellerOf(t, n).cash
             f == [n \in 1..S |-> g(n)]
  <2>1. SellerMoves(t) = f
      BY DEF SellerMoves
  <2>2. \A n \in 1..S : g(n) \in Int
    <3> TAKE n \in 1..S
    <3>1. (n + 1) \div 2 \in DOMAIN t.sellers
        BY <1>1
    <3>2. SellerOf(t, n).stock \in Nat /\ SellerOf(t, n).cash \in Nat
        BY <3>1 DEF SellerOf, Trading
    <3> QED BY <3>2
  <2> HIDE DEF S, g
  <2>3. f \in Seq(Int) /\ Len(f) = S
      BY <1>1, <2>2
  <2> QED BY <2>1, <2>3
<1>8. ns \in Seq(Int) /\ Len(ns) = 1 + P + S
  <2> HIDE DEF A, B, P, S
  <2> DEFINE w == <<-t.amount>>
             v == SellerMoves(t)
  <2>1. w \in Seq(Int) /\ v \in Seq(Int) /\ Len(w) = 1 /\ Len(v) = S
      BY <1>1, <1>7
  <2> HIDE DEF w, v
  <2> DEFINE all == w \o raw \o v
  <2>2. \A z : z = all => z \in Seq(Int) /\ Len(z) = Len(w) + Len(raw) + Len(v)
    <3>1. w \in Seq(Int)
        BY <2>1
    <3>2. raw \in Seq(Int)
        BY <1>6
    <3>3. v \in Seq(Int)
        BY <2>1
    <3> QED BY <3>1, <3>2, <3>3, InARow
  <2>3. Len(w) = 1 /\ Len(raw) = P /\ Len(v) = S
      BY <1>6, <2>1
  <2> HIDE DEF all
  <2>4. all \in Seq(Int) /\ Len(all) = 1 + P + S
      BY <2>2, <2>3
  <2> QED BY <2>4 DEF all, w, v
<1> DEFINE g == AddAll(l, accounts, ns)
<1>9. Kin(l, g, B)
  <2> HIDE DEF accounts, ns, B, A
  <2> QED BY <1>1, <1>5, <1>8, AddAllKeeps DEF A
<1>10. /\ s.ledger = [g EXCEPT !.nonce.atoms = @ + 1] /\ s.ret = Returned(t, raw)
       /\ s = [ledger |-> s.ledger, ret |-> s.ret]
    BY DEF Settled
<1>11. Kin(l, s.ledger, B)
  <2> HIDE DEF g, B, s
  <2>1. Kin(l, [g EXCEPT !.nonce.atoms = @ + 1], B)
      BY <1>9, RestKeeps
  <2> QED BY <1>10, <2>1
<1>12. s.ret = [sequence |-> s.ret.sequence, input |-> s.ret.input, units |-> s.ret.units, cash |-> s.ret.cash,
                raw |-> raw, exposure |-> s.ret.exposure, total |-> s.ret.total, sold |-> s.ret.sold]
       /\ DOMAIN s.ret.exposure = DOMAIN raw
    BY <1>10 DEF Returned
<1> HIDE DEF s, g, A, B, accounts, ns
<1>13. \A k \in B : Kin(l, Add(s.ledger, k, -1), B)
    BY <1>1, <1>2, <1>11, AddKeeps DEF A
<1>14. ProductAccounts(t)[1] \in B
    BY <1>1, <1>2
<1>15. CASE x = s
    BY <1>11, <1>12, <1>15 DEF B
<1>16. CASE \E k \in B : x = [s EXCEPT !.ledger = Add(@, k, -1)]
  <2>1. PICK k \in B : x = [s EXCEPT !.ledger = Add(@, k, -1)]
      BY <1>16
  <2>2. x.ledger = Add(s.ledger, k, -1) /\ x.ret = s.ret
      BY <1>10, <2>1
  <2> QED BY <1>12, <1>13, <2>2 DEF B
<1>17. CASE x = [s EXCEPT !.ledger.sol = @ - 1]
  <2>1. x.ledger = [s.ledger EXCEPT !.sol = @ - 1] /\ x.ret = s.ret
      BY <1>10, <1>17
  <2>2. Kin(l, [s.ledger EXCEPT !.sol = @ - 1], B)
      BY <1>11, RestKeeps
  <2> QED BY <1>12, <2>1, <2>2 DEF B
<1>18. CASE \/ x = [s EXCEPT !.ret.exposure[1] = @ + 1, !.ret.total = @ + 1]
            \/ x = [s EXCEPT !.ret.total = @ + 1] \/ x = [s EXCEPT !.ret.sequence = @ + 1]
            \/ x = [s EXCEPT !.ret.units = MaxUnits + 1] \/ x = [s EXCEPT !.ret.cash = @ - 1]
  <2> DEFINE o == s.ret
  <2>1. /\ x.ledger = s.ledger
        /\ \/ x.ret = [o EXCEPT !.exposure[1] = @ + 1, !.total = @ + 1]
           \/ x.ret = [o EXCEPT !.total = @ + 1] \/ x.ret = [o EXCEPT !.sequence = @ + 1]
           \/ x.ret = [o EXCEPT !.units = MaxUnits + 1] \/ x.ret = [o EXCEPT !.cash = @ - 1]
      BY <1>10, <1>18
  <2> HIDE DEF o
  <2>2. /\ o = [sequence |-> o.sequence, input |-> o.input, units |-> o.units, cash |-> o.cash,
                raw |-> raw, exposure |-> o.exposure, total |-> o.total, sold |-> o.sold]
        /\ DOMAIN o.exposure = DOMAIN raw
      BY <1>12 DEF o
  <2> DEFINE e == [o.exposure EXCEPT ![1] = @ + 1]
  <2>3. DOMAIN e = DOMAIN o.exposure
      OBVIOUS
  <2>4. /\ [o EXCEPT !.exposure[1] = @ + 1, !.total = @ + 1] = [o EXCEPT !.exposure = e, !.total = @ + 1]
      OBVIOUS
  <2> HIDE DEF e
  <2>5. \A n : LET y == [o EXCEPT !.exposure = e, !.total = n] IN y.raw = raw /\ y.exposure = e
      BY <2>2
  <2>6. x.ret.raw = raw /\ DOMAIN x.ret.exposure = DOMAIN raw
    <3>1. CASE x.ret = [o EXCEPT !.exposure[1] = @ + 1, !.total = @ + 1]
        BY <2>2, <2>3, <2>4, <2>5, <3>1
    <3>2. CASE x.ret = [o EXCEPT !.total = @ + 1]
        BY <2>2, <3>2
    <3>3. CASE x.ret = [o EXCEPT !.sequence = @ + 1]
        BY <2>2, <3>3
    <3>4. CASE x.ret = [o EXCEPT !.units = MaxUnits + 1]
        BY <2>2, <3>4
    <3>5. CASE x.ret = [o EXCEPT !.cash = @ - 1]
        BY <2>2, <3>5
    <3> QED BY <2>1, <3>1, <3>2, <3>3, <3>4, <3>5
  <2> QED BY <1>11, <2>1, <2>6 DEF B
<1>19. t.sellers # <<>> => SellerAccounts(t)[1] \in B /\ SellerAccounts(t)[2] \in B
  <2>1. t.sellers # <<>> => 1 \in 1..S /\ 2 \in 1..S
      BY <1>1
  <2> QED BY <1>2, <2>1
<1>20. x \in Departures(s, t)
    BY DEF s
<1> HIDE DEF P, S
<1> QED BY <1>2, <1>14, <1>15, <1>16, <1>17, <1>18, <1>19, <1>20 DEF Departures

\* The transaction is a settlement of t, on what the prefix s of the bank has
\* left of the ledger before it.
Booked(origin, t, s, l) ==
    /\ Trading(DOMAIN tx.before.acct, t)
    /\ LedgerType(tx.before) /\ tx.before.nonce.open = origin.nonce.open
    /\ Known(origin, s) /\ s.phase # "sent"
    /\ After(Charged(tx.before, LandFee), s, l)
    /\ Kin(l, tx.after, Touched(t))
    /\ DOMAIN tx.ret.raw = DOMAIN t.products /\ (\A i \in DOMAIN t.products : tx.ret.raw[i] \in Nat)
    /\ DOMAIN tx.ret.exposure = DOMAIN t.products

\* A fee is taken from the owner's lamports only.
LEMMA ChargedIs ==
    ASSUME NEW c, LedgerType(c)
    PROVE  /\ Charged(c, LandFee).acct = c.acct /\ Charged(c, LandFee).nonce = c.nonce
           /\ LedgerType(Charged(c, LandFee))
<1> DEFINE d == Charged(c, LandFee)
<1>1. LandFee \in Nat
    BY PurchaseAssumption
<1>2. c = [sol |-> c.sol, nonce |-> c.nonce, market |-> c.market, slot |-> c.slot,
           policy |-> c.policy, acct |-> c.acct] /\ c.sol \in Int
    BY DEF LedgerType
<1>3. d = [c EXCEPT !.sol = c.sol - LandFee]
    BY DEF Charged
<1> HIDE DEF d
<1>4. d = [sol |-> d.sol, nonce |-> c.nonce, market |-> c.market, slot |-> c.slot,
           policy |-> c.policy, acct |-> c.acct] /\ d.sol \in Int
    BY <1>1, <1>2, <1>3
<1> QED BY <1>4 DEF d, LedgerType

\* The ledger after a prefix is one that a settlement can start from.
LEMMA AfterIsKin ==
    ASSUME NEW c, LedgerType(c), NEW origin, NEW s, Known(origin, s), NEW l, After(c, s, l)
    PROVE  Kin(l, l, {}) /\ DOMAIN l.acct = DOMAIN c.acct
<1>1. DOMAIN l.acct = DOMAIN c.acct
    BY DEF After
<1>2. Rent \in Nat
    BY PurchaseAssumption
<1>3. \A x \in AccountType : x \in IntAccount
    BY DEF AccountType, IntAccount
<1>4. ASSUME NEW a \in Asset PROVE Held(c, s, a) \in IntAccount
  <2>1. Base(c, s, a) \in AccountType
      BY BasesAreAccounts
  <2>2. s.wrap \in Nat
      BY DEF Known
  <2> DEFINE x == Base(c, s, a)
  <2> HIDE DEF x
  <2>3. x \in AccountType /\ x.open \in BOOLEAN /\ x.free \in BOOLEAN /\ x.lamports \in Nat /\ x.atoms \in Nat
      BY <2>1 DEF x, AccountType
  <2>4. x.lamports + s.wrap \in Int /\ (IF s.phase = "sent" THEN x.atoms ELSE x.lamports + s.wrap - Rent) \in Int
      BY <1>2, <2>2, <2>3
  <2>5. Filled(x, s) \in IntAccount
      BY <2>3, <2>4 DEF Filled, IntAccount
  <2> QED BY <1>3, <2>3, <2>5 DEF Held, x
<1>5. \A k \in DOMAIN c.acct : l.acct[k] \in IntAccount
  <2> TAKE k \in DOMAIN c.acct
  <2>1. CASE \E a \in Asset : k = Mine(a)
      BY <1>4, <2>1 DEF After
  <2>2. CASE \A a \in Asset : k # Mine(a)
    <3>1. c.acct[k] \in AccountType
        BY DEF LedgerType
    <3> QED BY <1>3, <2>2, <3>1 DEF After
  <2> QED BY <2>1, <2>2
<1>6. l.acct \in [DOMAIN l.acct -> IntAccount]
    BY <1>1, <1>5 DEF After
<1>7. l.nonce \in AccountType
  <2>1. c.nonce \in AccountType
      BY DEF LedgerType
  <2>2. Opened(c.nonce) \in AccountType
      BY <2>1, AccountsCanBe
  <2> QED BY <2>1, <2>2 DEF After
<1>8. l.nonce = [open |-> l.nonce.open, free |-> l.nonce.free,
                 lamports |-> l.nonce.lamports, atoms |-> l.nonce.atoms]
    BY <1>7 DEF AccountType
<1> QED BY <1>1, <1>6, <1>8 DEF After, Kin

\* A trade that is bound to its bank has the accounts that the ledger has.
LEMMA BoundIsTrading ==
    ASSUME job \in Jobs, NEW t \in TradesLike(job.trade), BodyFits(t)
    PROVE  Trading(DOMAIN job.bank.acct, t)
<1> DEFINE u == job.trade
<1>1. /\ LedgerType(job.bank) /\ u \in TradesLike(u) /\ u.products # <<>>
      /\ u.input \in Asset /\ (IsFunded(u) => u.fund.asset \in Asset)
      /\ Len(u.sellers) \in Nat /\ DOMAIN u.sellers = 1..Len(u.sellers)
      /\ \A i \in DOMAIN u.sellers :
           /\ u.sellers[i].stock \in Nat /\ u.sellers[i].cash \in Nat
           /\ {<<u.sellers[i].wallet, a>> : a \in Asset} \subseteq DOMAIN job.bank.acct
    BY PurchaseAssumption DEF JobType
<1>2. /\ t.input = u.input /\ t.sellers = u.sellers /\ t.fund = u.fund /\ t.amount \in Nat
      /\ t.products \in Seq(ProductType) /\ SameAssets(t.products, u.products)
      /\ u.products \in Seq(ProductType)
    BY <1>1 DEF TradesLike
<1>3. t.products # <<>>
  <2>1. DOMAIN t.products = DOMAIN u.products
      BY <1>2 DEF SameAssets
  <2>2. 1 \in DOMAIN u.products
      BY <1>1, <1>2
  <2> QED BY <2>1, <2>2
<1>4. \A i \in DOMAIN t.sellers : t.sellers[i].product \in DOMAIN t.products
  <2>1. t.sellers = <<>> \/ SellersFit(t)
      BY DEF BodyFits
  <2>2. CASE t.sellers = <<>>
      BY <2>2
  <2>3. CASE SellersFit(t)
      BY <2>3 DEF SellersFit
  <2> QED BY <2>1, <2>2, <2>3
<1>5. {Mine(a) : a \in Asset} \subseteq DOMAIN job.bank.acct
    BY <1>1 DEF LedgerType
<1>6. IsFunded(t) => t.fund.asset \in Asset
    BY <1>1, <1>2 DEF IsFunded
<1> QED BY <1>1, <1>2, <1>3, <1>4, <1>5, <1>6 DEF Trading

\* What a bound message does when it lands.
LEMMA LandedIsBooked ==
    ASSUME job \in Jobs, message \in Seq(InsLike(job.trade)), message # <<>>,
           Binds(job.bank, job.intent, job.admission, message), Near(job.bank, tx.before),
           NEW raw \in Raws(message), NEW honest \in BOOLEAN,
           NEW r \in Results(Charged(tx.before, LandFee), message, raw, honest),
           tx.after = r.ledger, tx.ret = r.ret
    PROVE  LET t == Last(message).body
               s == ParseSetup(job.bank, message)
           IN  t \in TradesLike(job.trade) /\ \E l : Booked(job.bank, t, s, l)
<1> DEFINE t == Last(message).body
           s == ParseSetup(job.bank, message)
           c == Charged(tx.before, LandFee)
           l == Run(c, Front(message))
<1>1. Last(message).op = "trade" /\ s.ok /\ BodyFits(t)
    BY DEF Binds, EnvelopeFits
<1>2. t \in TradesLike(job.trade)
  <2>1. Last(message) \in InsLike(job.trade)
      BY DEF Last
  <2> QED BY <1>1, <2>1 DEF InsLike
<1>3. LedgerType(tx.before) /\ tx.before.nonce.open = job.bank.nonce.open
      /\ DOMAIN tx.before.acct = DOMAIN job.bank.acct
    BY DEF Near
<1>4. LedgerType(c) /\ c.acct = tx.before.acct
    BY <1>3, ChargedIs
<1>5. l # None /\ r \in Departures(Settled(l, t, raw), t)
  <2>1. ~(l = None \/ ~CanMove(l, t))
      BY DEF Results
  <2>2. r \in Departures(Settled(l, t, raw), t) \/ r = Settled(l, t, raw)
    <3> HIDE DEF l, t
    <3> QED BY <2>1 DEF Results, l, t, c
  <2>3. Settled(l, t, raw) \in Departures(Settled(l, t, raw), t)
      BY DEF Departures
  <2> QED BY <2>1, <2>2, <2>3
<1> HIDE DEF c, l, t, s
<1>6. Known(job.bank, s) /\ s.phase # "sent" /\ After(c, s, l)
    BY <1>1, <1>4, <1>5, PrefixMeans DEF l, s
<1>7. Kin(l, l, {}) /\ DOMAIN l.acct = DOMAIN tx.before.acct
    BY <1>4, <1>6, AfterIsKin
<1>8. Trading(DOMAIN l.acct, t)
    BY <1>1, <1>2, <1>3, <1>7, BoundIsTrading
<1>9. Len(raw) \in Nat /\ raw \in [1..Len(raw) -> Nat] /\ DOMAIN raw = DOMAIN t.products
    BY PurchaseAssumption DEF Raws, t
<1>10. Kin(l, r.ledger, Touched(t)) /\ r.ret.raw = raw /\ DOMAIN r.ret.exposure = DOMAIN raw
    BY <1>5, <1>7, <1>8, <1>9, ResultsKeep
<1>11. Booked(job.bank, t, s, l)
    BY <1>3, <1>6, <1>7, <1>8, <1>9, <1>10 DEF Booked, c
<1> QED BY <1>2, <1>11 DEF t, s

\* The finalized transaction is what the message was bound to, and l is the
\* ledger after its prefix.
Confirmed(l) ==
    /\ job \in Jobs
    /\ Binds(job.bank, job.intent, job.admission, message)
    /\ expected = Expect(job.bank, message)
    /\ Verifies(expected, tx) /\ tx.fee = LandFee
    /\ expected.trade \in TradesLike(job.trade)
    /\ Booked(job.bank, expected.trade, expected.setup, l)

\* What was bound, in the terms of the expectation.
LEMMA ExpectedIs ==
    ASSUME NEW l, Confirmed(l)
    PROVE  LET t == expected.trade
               s == expected.setup
               i == job.intent
           IN  /\ Once(Balances(t)) /\ SetupFits(job.bank, s, t)
               /\ t.amount = i.amount /\ t.input = i.input
               /\ t.floor >= i.floor /\ t.floor \in Int
               /\ t.deadline \in job.bank.slot..i.deadline /\ expected.slot = job.bank.slot
               /\ \A k \in DOMAIN t.products :
                    ProductFits(job.bank, i, job.admission, t, t.products[k])
<1> DEFINE t == expected.trade
           s == expected.setup
<1>1. t = Last(message).body /\ s = ParseSetup(job.bank, message) /\ expected.slot = job.bank.slot
    BY DEF Confirmed, Expect
<1>2. Binds(job.bank, job.intent, job.admission, message)
    BY DEF Confirmed
<1>3. t.floor \in Int
    BY DEF Confirmed, TradesLike
<1> HIDE DEF t, s
<1>4. /\ Once(Balances(t)) /\ SetupFits(job.bank, s, t)
      /\ t.amount = job.intent.amount /\ t.input = job.intent.input
      /\ t.floor >= job.intent.floor
      /\ t.deadline \in job.bank.slot..job.intent.deadline
      /\ \A k \in DOMAIN t.products :
           ProductFits(job.bank, job.intent, job.admission, t, t.products[k])
    BY <1>1, <1>2 DEF Binds
<1> QED BY <1>1, <1>3, <1>4 DEF t, s

\* The balances before are those of the ledger before.
LEMMA BeforeIs ==
    ASSUME NEW l, Confirmed(l)
    PROVE  LET t == expected.trade
               before == Observed(expected, tx.before)
           IN  /\ Outcome(expected, before, tx.after, tx.ret)
               /\ \A k \in Touched(t) : before[k] = tx.before.acct[k].atoms
               /\ \A k \in DOMAIN tx.before.acct :
                    tx.before.acct[k].atoms \in Nat /\ tx.after.acct[k].atoms \in Int
<1> DEFINE t == expected.trade
           before == Observed(expected, tx.before)
<1>1. Complete(before) /\ Outcome(expected, before, tx.after, tx.ret)
    BY DEF Confirmed, Verifies
<1>2. before = [k \in Touched(t) |-> BeforeAmount(expected, tx.before, k)]
    BY DEF Observed, Touched, ToSet
<1>3. /\ LedgerType(tx.before) /\ Kin(l, tx.after, Touched(t)) /\ Trading(DOMAIN tx.before.acct, t)
      /\ After(Charged(tx.before, LandFee), expected.setup, l)
    BY DEF Confirmed, Booked
<1>4. DOMAIN l.acct = DOMAIN tx.before.acct
  <2>1. Charged(tx.before, LandFee).acct = tx.before.acct
      BY <1>3, ChargedIs
  <2> QED BY <1>3, <2>1 DEF After
<1>5. \A k \in DOMAIN tx.before.acct :
        tx.before.acct[k].atoms \in Nat /\ tx.after.acct[k].atoms \in Int
  <2> TAKE k \in DOMAIN tx.before.acct
  <2>1. tx.before.acct[k] \in AccountType
      BY <1>3 DEF LedgerType
  <2>2. tx.after.acct[k] \in IntAccount
      BY <1>3, <1>4 DEF Kin
  <2> QED BY <2>1, <2>2 DEF AccountType, IntAccount
<1>6. \A k \in Touched(t) : before[k] = tx.before.acct[k].atoms
  <2> TAKE k \in Touched(t)
  <2>1. k \in DOMAIN tx.before.acct
      BY <1>3, BalancesAre
  <2>2. before[k] # None /\ before[k] = BeforeAmount(expected, tx.before, k)
      BY <1>1, <1>2 DEF Complete
  <2>3. ~tx.before.acct[k].open => tx.before.acct[k].atoms = 0
      BY <1>3, <2>1 DEF LedgerType
  <2> QED BY <2>2, <2>3 DEF BeforeAmount
<1> QED BY <1>1, <1>5, <1>6

\* What the accounts that the trade does not list have before and after.
LEMMA OthersUnmoved ==
    ASSUME NEW l, Confirmed(l), NEW a \in Asset, Mine(a) \notin Touched(expected.trade)
    PROVE  tx.after.acct[Mine(a)] = tx.before.acct[Mine(a)]
<1> DEFINE t == expected.trade
           s == expected.setup
           c == Charged(tx.before, LandFee)
<1>1. /\ LedgerType(tx.before) /\ Kin(l, tx.after, Touched(t)) /\ Trading(DOMAIN tx.before.acct, t)
      /\ After(c, s, l) /\ Known(job.bank, s)
    BY DEF Confirmed, Booked
<1>2. c.acct = tx.before.acct
    BY <1>1, ChargedIs
<1>3. SetupFits(job.bank, s, t)
    BY ExpectedIs
<1> HIDE DEF c, t, s
<1>4. a \notin s.created
  <2>1. {Mine(x) : x \in s.created} \subseteq Touched(t)
      BY <1>3 DEF SetupFits, Touched, ToSet
  <2> QED BY <2>1 DEF t
<1>5. ~(a = Native /\ s.wrap > 0)
  <2>1. s.wrap > 0 => Mine(Native) = Mine(t.input)
      BY <1>3 DEF SetupFits
  <2>2. Mine(t.input) \in Touched(t)
      BY <1>1, BalancesAre
  <2> QED BY <2>1, <2>2 DEF t
<1>6. Held(c, s, a) = c.acct[Mine(a)]
    BY <1>4, <1>5 DEF Held, Base
<1>7. l.acct[Mine(a)] = tx.before.acct[Mine(a)]
    BY <1>1, <1>2, <1>6 DEF After
<1>8. Mine(a) \in DOMAIN l.acct
  <2>1. Mine(a) \in DOMAIN c.acct
      BY <1>1, <1>2 DEF LedgerType
  <2> QED BY <1>1, <2>1 DEF After
<1> QED BY <1>1, <1>7, <1>8 DEF Kin, t

\* How the wallet has changed, asset by asset.
LEMMA ChangesAre ==
    ASSUME NEW l, Confirmed(l)
    PROVE  LET t == expected.trade IN
           /\ t.input \in Asset /\ t.amount \in Nat /\ expected.setup.wrap \in Nat
           /\ \A a \in Asset : Change(a) \in Int
           /\ Change(t.input) = expected.setup.wrap - t.amount
           /\ \A i \in DOMAIN t.products :
                /\ t.products[i].asset \in Asset \ {t.input}
                /\ tx.ret.raw[i] \in Nat /\ Change(t.products[i].asset) = tx.ret.raw[i]
           /\ \A a \in Asset \ {t.input} :
                Change(a) = 0 \/ \E i \in DOMAIN t.products : a = t.products[i].asset
<1> DEFINE t == expected.trade
           w == expected.setup.wrap
           before == Observed(expected, tx.before)
<1>1. /\ Trading(DOMAIN tx.before.acct, t) /\ Known(job.bank, expected.setup)
      /\ \A i \in DOMAIN t.products : tx.ret.raw[i] \in Nat
    BY DEF Confirmed, Booked
<1>2. w \in Nat /\ t.input \in Asset /\ t.amount \in Nat
      /\ (IsFunded(t) => t.fund.asset \in Asset)
    BY <1>1 DEF Known, Trading
<1>3. \A a \in Asset : Mine(a) \in DOMAIN tx.before.acct
    BY <1>1 DEF Trading
<1>4. /\ InputHolds(expected, before, tx.after) /\ PreservedHolds(expected, before, tx.after, tx.ret)
      /\ \A i \in DOMAIN t.products : ProductHolds(t, before, tx.after, tx.ret, i)
    BY BeforeIs DEF Outcome
<1>5. /\ \A k \in Touched(t) : before[k] = tx.before.acct[k].atoms
      /\ \A k \in DOMAIN tx.before.acct :
           tx.before.acct[k].atoms \in Nat /\ tx.after.acct[k].atoms \in Int
    BY BeforeIs
<1>6. /\ Mine(t.input) \in Touched(t)
      /\ \A i \in DOMAIN t.products : ProductAccounts(t)[i] \in Touched(t)
      /\ IsFunded(t) => Mine(t.fund.asset) \in Touched(t)
      /\ \A i \in DOMAIN t.products : ProductAccounts(t)[i] # Mine(t.input)
      /\ \A n \in 1..(2 * Len(t.sellers)) :
           /\ SellerAccounts(t)[n] # Mine(t.input)
           /\ \A i \in DOMAIN t.products : SellerAccounts(t)[n] # ProductAccounts(t)[i]
           /\ IsFunded(t) => SellerAccounts(t)[n] # Mine(t.fund.asset)
      /\ \A k \in Touched(t) :
           \/ k = Mine(t.input) \/ (\E i \in DOMAIN t.products : k = ProductAccounts(t)[i])
           \/ (\E n \in 1..(2 * Len(t.sellers)) : k = SellerAccounts(t)[n])
           \/ IsFunded(t) /\ k = Mine(t.fund.asset)
  <2>1. Once(Balances(t))
      BY ExpectedIs
  <2> HIDE DEF t
  <2> QED BY <1>1, <2>1, BalancesAre
<1>7. /\ \A i \in DOMAIN t.products :
           t.products[i].asset \in Asset /\ ProductAccounts(t)[i] = Mine(t.products[i].asset)
      /\ Len(t.sellers) \in Nat /\ DOMAIN t.sellers = 1..Len(t.sellers)
      /\ \A n \in DOMAIN t.sellers :
           /\ SellerAccounts(t)[2 * n - 1] = <<t.sellers[n].wallet, t.products[t.sellers[n].product].asset>>
           /\ SellerAccounts(t)[2 * n] = <<t.sellers[n].wallet, CashOf(t)>>
           /\ t.sellers[n].product \in DOMAIN t.products
      /\ \A n \in 1..(2 * Len(t.sellers)) : \E i \in DOMAIN t.sellers : n = 2 * i - 1 \/ n = 2 * i
  <2> HIDE DEF t
  <2>1. /\ Len(t.sellers) \in Nat /\ DOMAIN t.sellers = 1..Len(t.sellers)
        /\ \A n \in DOMAIN t.sellers : t.sellers[n].product \in DOMAIN t.products
      BY <1>1 DEF Trading
  <2> DEFINE A == DOMAIN tx.before.acct
  <2>2. Trading(A, t)
      BY <1>1
  <2> HIDE DEF A
  <2>3. /\ \A i \in DOMAIN t.products :
             t.products[i].asset \in Asset /\ ProductAccounts(t)[i] = Mine(t.products[i].asset)
        /\ \A n \in DOMAIN t.sellers :
             /\ SellerAccounts(t)[2 * n - 1] = <<t.sellers[n].wallet, t.products[t.sellers[n].product].asset>>
             /\ SellerAccounts(t)[2 * n] = <<t.sellers[n].wallet, CashOf(t)>>
        /\ \A n \in 1..(2 * Len(t.sellers)) : \E i \in DOMAIN t.sellers : n = 2 * i - 1 \/ n = 2 * i
      BY <2>2, PartsOfBalances, Zenon
  <2> QED BY <2>1, <2>3
<1>8. \A a \in Asset : Change(a) \in Int
  <2> TAKE a \in Asset
  <2>1. tx.before.acct[Mine(a)].atoms \in Nat /\ tx.after.acct[Mine(a)].atoms \in Int
      BY <1>3, <1>5
  <2> QED BY <2>1 DEF Change, Atoms
<1>9. Change(t.input) = w - t.amount
  <2> DEFINE x == tx.before.acct[Mine(t.input)].atoms
             y == tx.after.acct[Mine(t.input)].atoms
             n == t.amount
  <2>1. x \in Nat /\ y \in Int
      BY <1>2, <1>3, <1>5
  <2>2. x + w - y = n
      BY <1>4, <1>5, <1>6 DEF InputHolds
  <2>3. Change(t.input) = y - x
      BY DEF Change, Atoms
  <2>4. n \in Nat
      BY <1>2
  <2> HIDE DEF x, y, w, n
  <2>5. y - x = w - n
      BY <1>2, <2>1, <2>2, <2>4
  <2> QED BY <2>3, <2>5 DEF n
<1>10. \A i \in DOMAIN t.products :
         /\ t.products[i].asset \in Asset \ {t.input}
         /\ tx.ret.raw[i] \in Nat /\ Change(t.products[i].asset) = tx.ret.raw[i]
  <2> TAKE i \in DOMAIN t.products
  <2> DEFINE a == t.products[i].asset
  <2>1. a \in Asset /\ ProductAccounts(t)[i] = Mine(a) /\ Mine(a) \in Touched(t) /\ Mine(a) # Mine(t.input)
      BY <1>6, <1>7
  <2>2. Gained(before, tx.after, Mine(a)) = tx.ret.raw[i]
      BY <1>4, <2>1 DEF ProductHolds
  <2>3. Gained(before, tx.after, Mine(a)) = Change(a)
      BY <1>5, <2>1 DEF Gained, Change, Atoms
  <2>4. tx.ret.raw[i] \in Nat
      BY <1>1
  <2>5. a # t.input
      BY <2>1
  <2> QED BY <2>1, <2>2, <2>3, <2>4, <2>5
<1>11. \A a \in Asset \ {t.input} :
         Change(a) = 0 \/ \E i \in DOMAIN t.products : a = t.products[i].asset
  <2> TAKE a \in Asset \ {t.input}
  <2>1. CASE Mine(a) \notin Touched(t)
    <3>1. tx.after.acct[Mine(a)] = tx.before.acct[Mine(a)]
        BY <2>1, OthersUnmoved
    <3>2. tx.before.acct[Mine(a)].atoms \in Nat
        BY <1>3, <1>5
    <3> QED BY <3>1, <3>2 DEF Change, Atoms
  <2>2. CASE Mine(a) = Mine(t.input)
      BY <2>2 DEF Mine
  <2>3. CASE \E i \in DOMAIN t.products : Mine(a) = ProductAccounts(t)[i]
      BY <1>7, <2>3 DEF Mine
  <2>4. ASSUME NEW n \in 1..(2 * Len(t.sellers)), Mine(a) = SellerAccounts(t)[n]
        PROVE  FALSE
    <3>1. PICK i \in DOMAIN t.sellers : n = 2 * i - 1 \/ n = 2 * i
        BY <1>7
    <3>2. CASE n = 2 * i - 1
      <4>1. Mine(a) = <<t.sellers[i].wallet, t.products[t.sellers[i].product].asset>>
          BY <1>7, <2>4, <3>2
      <4>2. a = t.products[t.sellers[i].product].asset /\ t.sellers[i].product \in DOMAIN t.products
          BY <1>7, <4>1 DEF Mine
      <4>3. Mine(a) = ProductAccounts(t)[t.sellers[i].product]
          BY <1>7, <4>2
      <4> QED BY <1>6, <2>4, <4>2, <4>3
    <3>3. CASE n = 2 * i
      <4>1. Mine(a) = <<t.sellers[i].wallet, CashOf(t)>>
          BY <1>7, <2>4, <3>3
      <4>2. a = CashOf(t)
          BY <4>1 DEF Mine
      <4> QED BY <1>6, <2>4, <4>2 DEF CashOf
    <3> QED BY <3>1, <3>2, <3>3
  <2>5. CASE IsFunded(t) /\ Mine(a) = Mine(t.fund.asset)
    <3>1. a = t.fund.asset /\ Mine(a) \in Touched(t)
        BY <1>6, <2>5 DEF Mine
    <3>2. Preserved(t) = <<Mine(a)>> /\ 1 \in DOMAIN Preserved(t) /\ Preserved(t)[1] = Mine(a)
        BY <2>5 DEF Preserved
    <3>3. Gained(before, tx.after, Mine(a)) = 0
        BY <1>4, <2>5, <3>2 DEF PreservedHolds
    <3> QED BY <1>5, <3>1, <3>3 DEF Gained, Change, Atoms
  <2> QED BY <1>6, <2>1, <2>2, <2>3, <2>4, <2>5
<1> QED BY <1>2, <1>8, <1>9, <1>10, <1>11

\* The rent of an account that the prefix has opened, where there was nothing.
LEMMA OpenedCosts ==
    ASSUME NEW x \in AccountType, x.lamports = 0, ~x.open
    PROVE  Opened(x) = [open |-> TRUE, free |-> TRUE, lamports |-> Rent, atoms |-> 0]
<1>1. Rent \in Nat \ {0}
    BY PurchaseAssumption
<1>2. Lacks(x) = Rent
    BY <1>1 DEF Lacks
<1> QED BY <1>1, <1>2 DEF Opened

\* What of the wallet is open after the prefix, and what it has cost.
LEMMA AccountsOpened ==
    ASSUME NEW l, Confirmed(l)
    PROVE  LET s == expected.setup IN
           /\ s.created \subseteq Asset
           /\ \A a \in Asset : tx.after.acct[Mine(a)].open =
                (tx.before.acct[Mine(a)].open \/ a \in s.created)
           /\ Active(s) => \A a \in s.created :
                ~tx.before.acct[Mine(a)].open /\ Reserve(tx.after.acct[Mine(a)], a) = Rent
<1> DEFINE s == expected.setup
           c == Charged(tx.before, LandFee)
           t == expected.trade
<1>1. /\ LedgerType(tx.before) /\ Kin(l, tx.after, Touched(t)) /\ After(c, s, l)
      /\ Known(job.bank, s) /\ s.phase # "sent"
    BY DEF Confirmed, Booked
<1>2. c.acct = tx.before.acct
    BY <1>1, ChargedIs
<1>3. Active(s) => \A a \in s.created : tx.before.acct[Mine(a)].lamports = 0
    BY DEF Confirmed, Verifies, VerifyLandedSetup
<1> HIDE DEF s, c, t
<1>4. ASSUME NEW a \in Asset
      PROVE  /\ Mine(a) \in DOMAIN tx.before.acct /\ Mine(a) \in DOMAIN l.acct
             /\ tx.before.acct[Mine(a)] \in AccountType
             /\ tx.before.acct[Mine(a)].open => tx.before.acct[Mine(a)].lamports > 0
             /\ l.acct[Mine(a)] = Held(c, s, a)
             /\ tx.after.acct[Mine(a)].open = Held(c, s, a).open
             /\ Reserve(tx.after.acct[Mine(a)], a) = Reserve(Held(c, s, a), a)
  <2>1. Mine(a) \in DOMAIN tx.before.acct /\ tx.before.acct[Mine(a)] \in AccountType
      BY <1>1 DEF LedgerType
  <2>2. Mine(a) \in DOMAIN l.acct
      BY <1>1, <1>2, <2>1 DEF After
  <2>3. l.acct[Mine(a)] = Held(c, s, a)
      BY <1>1 DEF After
  <2>4. tx.before.acct[Mine(a)].open => tx.before.acct[Mine(a)].lamports > 0
      BY <1>1, <2>1 DEF LedgerType
  <2>5. tx.after.acct[Mine(a)].open = l.acct[Mine(a)].open
      BY <1>1, <2>2 DEF Kin
  <2>6. Reserve(tx.after.acct[Mine(a)], a) = Reserve(l.acct[Mine(a)], a)
      BY <1>1 DEF Kin
  <2> QED BY <2>1, <2>2, <2>3, <2>4, <2>5, <2>6
<1>5. s.created \subseteq Asset /\ s.wrap \in Nat
    BY <1>1 DEF Known
<1>6. \A a \in Asset : tx.after.acct[Mine(a)].open = (tx.before.acct[Mine(a)].open \/ a \in s.created)
  <2> TAKE a \in Asset
  <2>1. Held(c, s, a).open = Base(c, s, a).open
      BY DEF Held, Filled
  <2>2. tx.before.acct[Mine(a)].open \in BOOLEAN
      BY <1>4 DEF AccountType
  <2>3. a \in s.created => Base(c, s, a).open = TRUE
      BY <1>2, <2>2 DEF Base, Made, Opened
  <2>4. a \notin s.created => Base(c, s, a).open = tx.before.acct[Mine(a)].open
      BY <1>2 DEF Base
  <2> QED BY <1>4, <2>1, <2>2, <2>3, <2>4
<1>7. ASSUME Active(s), NEW a \in s.created
      PROVE  ~tx.before.acct[Mine(a)].open /\ Reserve(tx.after.acct[Mine(a)], a) = Rent
  <2> DEFINE x == tx.before.acct[Mine(a)]
             b == Base(c, s, a)
  <2>1. x \in AccountType /\ x.lamports = 0 /\ ~x.open
    <3>1. x \in AccountType /\ x.lamports = 0 /\ (x.open => x.lamports > 0)
        BY <1>3, <1>4, <1>5, <1>7
    <3> QED BY <3>1
  <2>2. b = [open |-> TRUE, free |-> TRUE, lamports |-> Rent, atoms |-> 0]
      BY <1>2, <2>1, OpenedCosts DEF Base, Made
  <2>3. Rent \in Nat
      BY PurchaseAssumption
  <2> HIDE DEF b, x
  <2>4. CASE a = Native /\ s.wrap > 0
    <3>1. Held(c, s, a) = Filled(b, s)
        BY <2>4 DEF Held, b
    <3>2. Filled(b, s).lamports = Rent + s.wrap /\ Filled(b, s).atoms = Rent + s.wrap - Rent
        BY <1>1, <2>2 DEF Filled, s
    <3>3. (Rent + s.wrap) - (Rent + s.wrap - Rent) = Rent
        BY <1>5, <2>3
    <3>4. Reserve(Held(c, s, a), a) = Rent
        BY <2>4, <3>1, <3>2, <3>3 DEF Reserve
    <3> QED BY <1>4, <1>5, <1>7, <2>1, <3>4 DEF x
  <2>5. CASE ~(a = Native /\ s.wrap > 0)
    <3>1. Held(c, s, a) = b
        BY <2>5 DEF Held, b
    <3>2. Reserve(b, a) = Rent
        BY <2>2, <2>3 DEF Reserve
    <3> QED BY <1>4, <1>5, <1>7, <2>1, <3>1, <3>2 DEF x
  <2> QED BY <2>4, <2>5
<1> QED BY <1>5, <1>6, <1>7 DEF s

\* The wallet has paid the rent of what was opened, and the coins it wrapped.
LEMMA RentsArePaid ==
    ASSUME NEW l, Confirmed(l)
    PROVE  LET w == expected.setup.wrap
               opened == Cardinality(NewAccounts(tx.before, tx.after))
                           + (IF tx.before.nonce.open THEN 0 ELSE 1)
           IN  w > 0 \/ opened > 0 => tx.before.sol - tx.after.sol = tx.fee + Rent * opened + w
<1> DEFINE s == expected.setup
           t == expected.trade
           c == Charged(tx.before, LandFee)
           new == NewAccounts(tx.before, tx.after)
           opened == Cardinality(new) + (IF tx.before.nonce.open THEN 0 ELSE 1)
<1>1. /\ LedgerType(tx.before) /\ Kin(l, tx.after, Touched(t)) /\ After(c, s, l)
      /\ Known(job.bank, s) /\ tx.before.nonce.open = job.bank.nonce.open
      /\ tx.fee = LandFee
      /\ Active(s) => /\ s.nonce => tx.before.nonce.lamports = 0
                      /\ PaidSetup(expected, tx.before, tx.after, tx.fee)
    BY DEF Confirmed, Booked, Verifies, VerifyLandedSetup
<1>2. SetupFits(job.bank, s, t)
    BY ExpectedIs
<1>3. Rent \in Nat /\ LandFee \in Nat /\ IsFiniteSet(Asset)
    BY PurchaseAssumption
<1>4. /\ s.created \subseteq Asset
      /\ \A a \in Asset : tx.after.acct[Mine(a)].open = (tx.before.acct[Mine(a)].open \/ a \in s.created)
      /\ Active(s) => \A a \in s.created :
           ~tx.before.acct[Mine(a)].open /\ Reserve(tx.after.acct[Mine(a)], a) = Rent
    BY AccountsOpened
<1>5. s.nonce <=> ~tx.before.nonce.open
    BY <1>1, <1>2 DEF SetupFits, Known
<1>6. new \subseteq s.created /\ (Active(s) => new = s.created)
    BY <1>4 DEF NewAccounts
<1>7. c.nonce = tx.before.nonce /\ tx.before.nonce \in AccountType
    BY <1>1, ChargedIs DEF LedgerType
<1>8. s.wrap \in Nat
    BY <1>1 DEF Known
<1> HIDE DEF s, t, c, new
<1>9. Cardinality(new) \in Nat /\ IsFiniteSet(s.created) /\ (s.created = {} => Cardinality(new) = 0)
  <2>1. IsFiniteSet(s.created) /\ IsFiniteSet(new)
      BY <1>3, <1>4, <1>6, FS_Subset
  <2>2. s.created = {} => new = {}
      BY <1>6
  <2> QED BY <2>1, <2>2, FS_EmptySet, FS_CardinalityType
<1>10. opened > 0 \/ s.wrap > 0 => Active(s)
    BY <1>5, <1>9 DEF Active
<1>11. ASSUME Active(s) PROVE tx.before.sol - tx.after.sol = tx.fee + Rent * opened + s.wrap
  <2> DEFINE r == [a \in s.created |-> Reserve(tx.after.acct[Mine(a)], a)]
             k == Cardinality(new)
             n == IF s.nonce THEN tx.after.nonce.lamports ELSE 0
             paid == tx.before.sol - tx.after.sol
  <2>1. SumOf(r) = Rent * k
    <3>1. \A a \in s.created : r[a] = Rent
        BY <1>4, <1>11
    <3>2. DOMAIN r = s.created
        OBVIOUS
    <3> HIDE DEF r
    <3>3. SumOf(r) = SumIn(r, s.created)
        BY <3>2, SumOfIs
    <3>4. SumIn(r, s.created) = Rent * Cardinality(s.created)
        BY <1>3, <1>9, <3>1, SumOfEqual
    <3> QED BY <1>6, <1>11, <3>3, <3>4
  <2>2. n = IF tx.before.nonce.open THEN 0 ELSE Rent
    <3>1. CASE s.nonce
      <4>1. l.nonce = Opened(tx.before.nonce)
          BY <1>1, <1>7, <3>1 DEF After
      <4>2. tx.before.nonce.lamports = 0 /\ ~tx.before.nonce.open
          BY <1>1, <1>5, <1>11, <3>1
      <4>3. l.nonce.lamports = Rent
          BY <1>7, <4>1, <4>2, OpenedCosts
      <4>4. tx.after.nonce.lamports = l.nonce.lamports
          BY <1>1 DEF Kin
      <4> QED BY <3>1, <4>2, <4>3, <4>4
    <3>2. CASE ~s.nonce
        BY <1>5, <3>2
    <3> QED BY <3>1, <3>2
  <2>3. paid = SumOf(r) + n + s.wrap + tx.fee
    <3>1. paid = SetupRent(expected, tx.after) + s.wrap + tx.fee
        BY <1>1, <1>11 DEF PaidSetup, s
    <3> QED BY <3>1 DEF SetupRent, s
  <2> DEFINE m == IF tx.before.nonce.open THEN 0 ELSE 1
             z == Rent * k
  <2>4. Rent * (k + m) = z + n /\ z \in Int /\ n \in Int
    <3>1. k \in Nat
        BY <1>9
    <3>2. Rent * (k + 1) = Rent * k + Rent /\ Rent * (k + 0) = Rent * k + 0
        BY <1>3, <3>1
    <3> HIDE DEF n
    <3> QED BY <1>3, <2>2, <3>1, <3>2
  <2>5. opened = k + m
      OBVIOUS
  <2> DEFINE w == s.wrap
             f == tx.fee
  <2>6. w \in Int /\ f \in Int
      BY <1>1, <1>3, <1>8
  <2>7. paid = z + n + w + f
      BY <2>1, <2>3
  <2> HIDE DEF n, z, paid, w, f
  <2>8. z + n + w + f = f + (z + n) + w
      BY <2>4, <2>6
  <2>9. paid = f + Rent * opened + w
      BY <2>4, <2>5, <2>7, <2>8
  <2> QED BY <2>9 DEF paid, w, f
<1> QED BY <1>10, <1>11 DEF s, new

\* What the wallet has got is worth the floor of the intent.
LEMMA FloorIsKept ==
    ASSUME NEW l, Confirmed(l), \A a \in job.intent.products : job.admission.terms[a].model = 0
    PROVE  SumOf([a \in job.intent.products \ {job.intent.input} |->
                    Change(a) * job.admission.terms[a].rate]) >= job.intent.floor
<1> DEFINE t == expected.trade
           i == job.intent
           terms == job.admission.terms
           D == DOMAIN t.products
           T == i.products \ {i.input}
           r == [a \in T |-> Change(a) * terms[a].rate]
           q == tx.ret.exposure
           h == [k \in D |-> t.products[k].asset]
<1>1. Trading(DOMAIN tx.before.acct, t) /\ DOMAIN q = D
    BY DEF Confirmed, Booked
<1>2. /\ Once(Balances(t)) /\ t.input = i.input /\ t.floor >= i.floor /\ t.floor \in Int
      /\ \A k \in D : ProductFits(job.bank, i, job.admission, t, t.products[k])
    BY ExpectedIs
<1>3. /\ i.products \subseteq Asset /\ i.floor \in Nat /\ \A a \in i.products : terms[a].rate \in Nat
    BY PurchaseAssumption DEF Confirmed, JobType
<1>4. /\ \A a \in Asset : Change(a) \in Int
      /\ \A k \in D : /\ t.products[k].asset \in Asset \ {t.input}
                      /\ tx.ret.raw[k] \in Nat /\ Change(t.products[k].asset) = tx.ret.raw[k]
      /\ \A a \in Asset \ {t.input} : Change(a) = 0 \/ \E k \in D : a = t.products[k].asset
    BY ChangesAre
<1>5. /\ tx.ret.total = SumOf(q) /\ tx.ret.total >= t.floor
      /\ \A k \in D : t.products[k].model = 0 => q[k] = tx.ret.raw[k] * t.products[k].rate
  <2>1. Outcome(expected, Observed(expected, tx.before), tx.after, tx.ret)
      BY BeforeIs
  <2> QED BY <2>1 DEF Outcome, FloorMet, ProductHolds, Converted
<1>6. \A j, k \in D : t.products[j].asset = t.products[k].asset => j = k
  <2> HIDE DEF t
  <2> DEFINE A == DOMAIN tx.before.acct
  <2>1. Trading(A, t)
      BY <1>1
  <2> HIDE DEF A
  <2>2. \A j \in DOMAIN t.products : ProductAccounts(t)[j] = Mine(t.products[j].asset)
      BY <2>1, PartsOfBalances, Zenon
  <2>3. \A j, k \in DOMAIN t.products : ProductAccounts(t)[j] = ProductAccounts(t)[k] => j = k
      BY <1>2, <2>1, BalancesAre
  <2> QED BY <2>2, <2>3
<1>7. IsFiniteSet(D)
  <2>1. t.products \in Seq(ProductType)
      BY <1>1 DEF Trading
  <2>2. D = 1..Len(t.products) /\ Len(t.products) \in Nat
      BY <2>1
  <2> HIDE DEF D
  <2> QED BY <2>2, FS_Interval
<1>8. IsFiniteSet(T) /\ T \subseteq Asset
  <2>1. IsFiniteSet(Asset)
      BY PurchaseAssumption
  <2> QED BY <1>3, <2>1, FS_Subset
<1>9. \A k \in D : /\ t.products[k].asset \in T
                   /\ t.products[k].rate = terms[t.products[k].asset].rate
                   /\ t.products[k].model = 0
  <2> TAKE k \in D
  <2> DEFINE p == t.products[k]
  <2>1. ProductFits(job.bank, i, job.admission, t, p) /\ p.asset # t.input
      BY <1>2, <1>4
  <2> HIDE DEF p, t
  <2>2. p.asset \in i.products
        /\ [version |-> p.version, model |-> p.model, rate |-> p.rate] = terms[p.asset]
      BY <2>1 DEF ProductFits
  <2>3. terms[p.asset].rate = p.rate /\ terms[p.asset].model = p.model
      BY <2>2
  <2> QED BY <1>2, <2>1, <2>2, <2>3 DEF p
<1>10. \A a \in T : r[a] \in Int /\ r[a] = Change(a) * terms[a].rate
  <2> TAKE a \in T
  <2> DEFINE x == Change(a)
             y == terms[a].rate
  <2>1. x \in Int /\ y \in Int
      BY <1>3, <1>4
  <2>2. r[a] = x * y
      OBVIOUS
  <2> HIDE DEF x, y, r
  <2>3. x * y \in Int
      BY <2>1
  <2> QED BY <2>2, <2>3 DEF x, y
<1>11. h \in [D -> T] /\ \A k \in D : h[k] = t.products[k].asset
    BY <1>9
<1>12. DOMAIN r = T
    OBVIOUS
<1> HIDE DEF r, h, T, q, D
<1>13. \A k \in D : q[k] = r[h[k]]
  <2> TAKE k \in D
  <2> DEFINE p == t.products[k]
  <2>1. q[k] = tx.ret.raw[k] * p.rate /\ p.asset \in T /\ p.rate = terms[p.asset].rate
        /\ Change(p.asset) = tx.ret.raw[k] /\ h[k] = p.asset
      BY <1>4, <1>5, <1>9, <1>11
  <2>2. r[p.asset] = Change(p.asset) * terms[p.asset].rate
      BY <1>10, <2>1
  <2> QED BY <2>1, <2>2
<1>14. \A j, k \in D : h[j] = h[k] => j = k
    BY <1>6, <1>11
<1> DEFINE U == {h[k] : k \in D}
<1>15. SumIn(q, D) = SumIn(r, U)
  <2>1. \A a \in T : r[a] \in Int
      BY <1>10
  <2> QED BY <1>7, <1>8, <1>11, <1>13, <1>14, <2>1, SumByName
<1>16. U \in SUBSET T
    BY <1>11
<1>17. \A a \in T \ U : r[a] = 0
  <2> TAKE a \in T \ U
  <2>1. Change(a) = 0
    <3>1. a \in Asset \ {t.input}
        BY <1>2, <1>8 DEF T
    <3>2. ~\E k \in D : a = t.products[k].asset
        BY <1>11
    <3> QED BY <1>4, <3>1, <3>2
  <2>2. terms[a].rate \in Nat
      BY <1>3 DEF T
  <2>3. r[a] = 0 * terms[a].rate
      BY <1>10, <2>1
  <2> QED BY <2>2, <2>3
<1>18. SumIn(r, T) = SumIn(r, U)
  <2> HIDE DEF U
  <2>1. \A a \in T : r[a] \in Int
      BY <1>10
  <2> QED BY <1>8, <1>16, <1>17, <2>1, SumOfSome
<1>19. SumOf(q) = SumIn(q, D)
    BY <1>1, SumOfIs
<1>20. SumOf(r) = SumIn(r, T)
    BY <1>12, SumOfIs
<1>21. SumIn(r, T) \in Int
  <2>1. \A a \in T : r[a] \in Int
      BY <1>10
  <2> QED BY <1>8, <2>1, SumOfIntegers
<1>22. SumOf(r) >= i.floor
  <2> DEFINE n == SumOf(r)
  <2>1. n \in Int /\ n >= t.floor
      BY <1>5, <1>15, <1>18, <1>19, <1>20, <1>21
  <2> HIDE DEF n
  <2>2. n >= i.floor
      BY <1>2, <1>3, <2>1
  <2> QED BY <2>2 DEF n
<1> QED BY <1>22 DEF r, T

\* Every seller has given and got what the order says.
LEMMA SellersArePaid ==
    ASSUME NEW l, Confirmed(l), NEW n \in DOMAIN job.trade.sellers
    PROVE  LET q == job.trade.sellers[n]
               stock == <<q.wallet, job.trade.products[q.product].asset>>
               cash == <<q.wallet, CashOf(job.trade)>>
           IN  /\ tx.before.acct[stock].atoms - tx.after.acct[stock].atoms = q.stock
               /\ tx.after.acct[cash].atoms - tx.before.acct[cash].atoms = q.cash
<1> DEFINE t == expected.trade
           u == job.trade
           before == Observed(expected, tx.before)
           q == u.sellers[n]
           stock == <<q.wallet, u.products[q.product].asset>>
           cash == <<q.wallet, CashOf(u)>>
<1>1. Trading(DOMAIN tx.before.acct, t) /\ t \in TradesLike(u)
    BY DEF Confirmed, Booked
<1>2. t.sellers = u.sellers /\ t.fund = u.fund /\ t.input = u.input /\ SameAssets(t.products, u.products)
    BY <1>1 DEF TradesLike
<1>3. q.product \in DOMAIN t.products /\ q.stock \in Nat /\ q.cash \in Nat
      /\ Len(t.sellers) \in Nat /\ n \in 1..Len(t.sellers)
    BY <1>1, <1>2 DEF Trading
<1>4. CashOf(t) = CashOf(u)
    BY <1>2 DEF CashOf, IsFunded
<1>5. t.products[q.product].asset = u.products[q.product].asset
  <2>1. [i \in DOMAIN t.products |-> t.products[i].asset][q.product] = t.products[q.product].asset
      BY <1>3
  <2>2. DOMAIN t.products = DOMAIN u.products
      BY <1>2 DEF SameAssets
  <2>3. [i \in DOMAIN u.products |-> u.products[i].asset][q.product] = u.products[q.product].asset
      BY <1>3, <2>2
  <2> QED BY <1>2, <2>1, <2>3 DEF SameAssets
<1>6. SellerAccounts(t)[2 * n - 1] = stock /\ SellerAccounts(t)[2 * n] = cash
  <2> HIDE DEF t
  <2> DEFINE A == DOMAIN tx.before.acct
  <2>1. Trading(A, t)
      BY <1>1
  <2> HIDE DEF A
  <2>2. \A k \in DOMAIN t.sellers :
          /\ SellerAccounts(t)[2 * k - 1] = <<t.sellers[k].wallet, t.products[t.sellers[k].product].asset>>
          /\ SellerAccounts(t)[2 * k] = <<t.sellers[k].wallet, CashOf(t)>>
      BY <2>1, PartsOfBalances, Zenon
  <2> QED BY <1>2, <1>4, <1>5, <2>2
<1>7. stock \in Touched(t) /\ cash \in Touched(t)
  <2>1. \A k \in 1..(2 * Len(t.sellers)) : SellerAccounts(t)[k] \in Touched(t)
    <3> HIDE DEF t
    <3> QED BY <1>1, BalancesAre
  <2>2. 2 * n - 1 \in 1..(2 * Len(t.sellers)) /\ 2 * n \in 1..(2 * Len(t.sellers))
      BY <1>3
  <2> QED BY <1>6, <2>1, <2>2
<1>8. SellerHolds(t, before, tx.after, tx.ret, n)
    BY <1>2, BeforeIs DEF Outcome
<1>9. Gained(before, tx.after, stock) = -q.stock /\ Gained(before, tx.after, cash) = q.cash
    BY <1>2, <1>6, <1>8 DEF SellerHolds
<1>10. /\ before[stock] = tx.before.acct[stock].atoms /\ before[cash] = tx.before.acct[cash].atoms
       /\ tx.before.acct[stock].atoms \in Nat /\ tx.after.acct[stock].atoms \in Int
  <2>1. stock \in DOMAIN tx.before.acct
    <3> HIDE DEF t
    <3>1. Touched(t) \subseteq DOMAIN tx.before.acct
        BY <1>1, BalancesAre
    <3> QED BY <1>7, <3>1 DEF t
  <2> QED BY <1>7, <2>1, BeforeIs
<1>11. tx.after.acct[cash].atoms - tx.before.acct[cash].atoms = q.cash
    BY <1>9, <1>10 DEF Gained
<1>12. tx.before.acct[stock].atoms - tx.after.acct[stock].atoms = q.stock
  <2> DEFINE x == tx.before.acct[stock].atoms
             y == tx.after.acct[stock].atoms
             z == q.stock
  <2>1. x \in Int /\ y \in Int /\ z \in Int
    <3> HIDE DEF stock, q
    <3>1. x \in Nat /\ y \in Int /\ z \in Nat
        BY <1>3, <1>10
    <3> HIDE DEF x, y, z
    <3> QED BY <3>1
  <2>3. y - x = -z
    <3>1. Gained(before, tx.after, stock) = y - before[stock]
        BY DEF Gained
    <3> HIDE DEF before, stock, q
    <3> QED BY <1>9, <1>10, <3>1 DEF q
  <2> HIDE DEF x, y, z
  <2>2. x - y = z
      BY <2>1, <2>3
  <2> QED BY <2>2 DEF x, y, z
<1> QED BY <1>11, <1>12

\* A receipt is true.
LEMMA ConfirmedIsTrue ==
    ASSUME NEW l, Confirmed(l)
    PROVE  ReceiptIsTrue
<1> DEFINE i == job.intent
           t == expected.trade
           w == expected.setup.wrap
           wraps == Change(i.input) # -i.amount
           opened == Cardinality(NewAccounts(tx.before, tx.after))
                       + (IF tx.before.nonce.open THEN 0 ELSE 1)
<1>1. /\ SetupFits(job.bank, expected.setup, t) /\ t.amount = i.amount /\ t.input = i.input
      /\ t.deadline \in job.bank.slot..i.deadline /\ expected.slot = job.bank.slot
      /\ \A k \in DOMAIN t.products : ProductFits(job.bank, i, job.admission, t, t.products[k])
    BY ExpectedIs
<1>2. /\ t.input \in Asset /\ t.amount \in Nat /\ w \in Nat
      /\ Change(t.input) = w - t.amount
      /\ \A k \in DOMAIN t.products :
           tx.ret.raw[k] \in Nat /\ Change(t.products[k].asset) = tx.ret.raw[k]
      /\ \A a \in Asset \ {t.input} :
           Change(a) = 0 \/ \E k \in DOMAIN t.products : a = t.products[k].asset
    BY ChangesAre
<1>3. tx.ok /\ tx.slot \in job.bank.slot..t.deadline
    BY <1>1 DEF Confirmed, Verifies
<1>4. tx.slot \in job.bank.slot..i.deadline
  <2>1. job.bank.slot \in Nat /\ i.deadline \in Nat
      BY PurchaseAssumption DEF Confirmed, JobType
  <2> QED BY <1>1, <1>3, <2>1
<1>5. w > 0 => w = i.amount /\ i.input = Native
    BY <1>1 DEF SetupFits
<1>6. wraps <=> w > 0
  <2> DEFINE n == i.amount
             d == Change(i.input)
  <2>1. n \in Nat /\ d = w - n
      BY <1>1, <1>2
  <2> HIDE DEF n, w, d
  <2> QED BY <1>2, <2>1 DEF n, d
<1>7. wraps => i.input = Native /\ Change(Native) = 0
  <2> SUFFICES ASSUME w > 0 PROVE i.input = Native /\ Change(Native) = 0
      BY <1>6
  <2>1. i.input = Native /\ Change(Native) = w - i.amount /\ w = i.amount /\ i.amount \in Nat
      BY <1>1, <1>2, <1>5
  <2> QED BY <2>1
<1>8. wraps \/ opened > 0 =>
        tx.before.sol - tx.after.sol = tx.fee + Rent * opened + (IF wraps THEN i.amount ELSE 0)
  <2>1. w > 0 \/ opened > 0 => tx.before.sol - tx.after.sol = tx.fee + Rent * opened + w
      BY RentsArePaid
  <2>2. w = IF wraps THEN i.amount ELSE 0
      BY <1>2, <1>5, <1>6
  <2> HIDE DEF wraps, opened, w
  <2> QED BY <1>6, <2>1, <2>2
<1>9. ASSUME NEW a \in Asset \ {i.input}
      PROVE  Change(a) >= 0 /\ (Change(a) > 0 => a \in i.products)
  <2>1. CASE Change(a) = 0
      BY <2>1
  <2>2. ASSUME NEW k \in DOMAIN t.products, a = t.products[k].asset
        PROVE  Change(a) >= 0 /\ a \in i.products
    <3>1. ProductFits(job.bank, i, job.admission, t, t.products[k])
        BY <1>1
    <3>2. a \in i.products
        BY <2>2, <3>1 DEF ProductFits
    <3> QED BY <1>2, <2>2, <3>2
  <2> QED BY <1>1, <1>2, <2>1, <2>2
<1>10. (\A a \in i.products : job.admission.terms[a].model = 0) =>
         SumOf([a \in i.products \ {i.input} |->
                  Change(a) * job.admission.terms[a].rate]) >= i.floor
    BY FloorIsKept
<1>11. \A n \in DOMAIN job.trade.sellers :
         LET q == job.trade.sellers[n]
             stock == <<q.wallet, job.trade.products[q.product].asset>>
             cash == <<q.wallet, CashOf(job.trade)>>
         IN  /\ tx.before.acct[stock].atoms - tx.after.acct[stock].atoms = q.stock
             /\ tx.after.acct[cash].atoms - tx.before.acct[cash].atoms = q.cash
    BY SellersArePaid
<1> QED BY <1>3, <1>4, <1>7, <1>8, <1>9, <1>10, <1>11, Zenon DEF ReceiptIsTrue

\* How far a purchase has come.
Begun == {"read", "planned", "lowered", "built", "bound", "prepared"}
Written == {"built", "bound", "prepared", "landed", "receipted"}
Approved == Written \ {"built"}

\* The result of a bound message is one that a settlement can have.
LandedAs ==
    /\ tx.message = message /\ tx.fee = LandFee /\ Near(job.bank, tx.before)
    /\ tx.ok =>
         \E raw \in Raws(message), honest \in BOOLEAN :
           \E r \in Results(Charged(tx.before, LandFee), message, raw, honest) :
             tx.after = r.ledger /\ tx.ret = r.ret

\* What is planned, built and bound is of the job's trade, what is bound is
\* what was built, and what has landed is the bound message.
PurchaseInv ==
    /\ job \in Jobs
    /\ stage \in {"planned", "lowered"} =>
         setup.instructions \in Seq(InsLike(job.trade)) /\ setup.sequence \in Nat
    /\ stage \in Begun => Near(job.bank, chain)
    /\ stage \in Written => message \in Seq(InsLike(job.trade)) /\ message # <<>>
    /\ stage \in Approved =>
         /\ Binds(job.bank, job.intent, job.admission, message)
         /\ expected = Expect(job.bank, message)
    /\ stage \in {"landed", "receipted"} => LandedAs
    /\ stage = "receipted" => Verifies(expected, tx)

\* A job starts on the accounts of its bank.
LEMMA PurchaseStarts == PurchaseInit => PurchaseInv
<1> SUFFICES ASSUME PurchaseInit PROVE PurchaseInv
    OBVIOUS
<1>1. job \in Jobs /\ stage = "read" /\ chain = job.bank
    BY DEF PurchaseInit
<1>2. LedgerType(job.bank)
    BY <1>1, PurchaseAssumption DEF JobType
<1>3. Near(job.bank, chain)
    BY <1>1, <1>2 DEF Near
<1> QED BY <1>1, <1>3 DEF PurchaseInv, Begun, Written, Approved

\* Every step keeps it.
LEMMA PurchaseKeeps == PurchaseInv /\ [PurchaseNext]_purchaseVars => PurchaseInv'
<1> SUFFICES ASSUME PurchaseInv, [PurchaseNext]_purchaseVars PROVE PurchaseInv'
    OBVIOUS
<1>1. CASE UNCHANGED purchaseVars
    BY <1>1 DEF PurchaseInv, LandedAs, purchaseVars
<1>2. CASE PlanSetup
    BY <1>2, SetupIsLike DEF PurchaseInv, PlanSetup, Refused, Begun, Written, Approved
<1>3. CASE SimulateSetup
    BY <1>3 DEF PurchaseInv, SimulateSetup, Refused, Begun, Written, Approved
<1>4. CASE stage = "lowered" /\ \E m \in Messages : Build(m)
    BY <1>4, MessagesAreLike DEF PurchaseInv, Build, Begun, Written, Approved
<1>5. CASE Bind
    BY <1>5 DEF PurchaseInv, Bind, Refused, Begun, Written, Approved
<1>6. ASSUME NEW raw, NEW honest, Simulate(raw, honest) PROVE PurchaseInv'
    BY <1>6 DEF PurchaseInv, Simulate, Refused, Begun, Written, Approved
<1>7. CASE OthersUseWallet
    BY <1>7, OthersStayNear DEF PurchaseInv, OthersUseWallet, OthersMove, Begun, Written, Approved
<1>8. ASSUME NEW tick, NEW raw \in Raws(message), NEW honest \in BOOLEAN, Land(tick, raw, honest)
      PROVE PurchaseInv'
  <2>1. /\ job' = job /\ setup' = setup /\ message' = message /\ expected' = expected
        /\ stage = "prepared" /\ stage' = "landed"
      BY <1>8 DEF Land
  <2>2. LandedAs'
    <3> DEFINE of(q) == Results(Charged(chain, LandFee), message, raw, q)
    <3>1. /\ tx'.message = message /\ tx'.fee = LandFee /\ tx'.before = chain
          /\ tx'.ok => \E q \in BOOLEAN : \E r \in of(q) : tx'.after = r.ledger /\ tx'.ret = r.ret
      <4> HIDE DEF of
      <4>1. CASE Landed(FALSE, tick, Charged(chain, LandFee), None)
          BY <4>1 DEF Landed
      <4>2. ASSUME NEW q \in BOOLEAN, NEW r \in of(q), Landed(TRUE, tick, r.ledger, r.ret)
            PROVE  /\ tx'.message = message /\ tx'.fee = LandFee /\ tx'.before = chain
                   /\ tx'.after = r.ledger /\ tx'.ret = r.ret
          BY <4>2 DEF Landed
      <4>3. \/ Landed(FALSE, tick, Charged(chain, LandFee), None)
            \/ \E q \in BOOLEAN : \E r \in of(q) : Landed(TRUE, tick, r.ledger, r.ret)
        <5> DEFINE late == IF tick > expected.trade.deadline THEN of(TRUE) ELSE {}
        <5>1. \/ Landed(FALSE, tick, Charged(chain, LandFee), None)
              \/ \E r \in of(honest) \cup late : Landed(TRUE, tick, r.ledger, r.ret)
            BY <1>8, Zenon DEF Land, of
        <5>2. \A r \in late : r \in of(TRUE)
            OBVIOUS
        <5> HIDE DEF late
        <5> QED BY <1>8, <5>1, <5>2
      <4> QED BY <4>1, <4>2, <4>3
    <3>2. Near(job.bank, chain)
        BY <2>1 DEF PurchaseInv, Begun
    <3>3. Raws(message') = Raws(message)
        BY <2>1
    <3> QED BY <1>8, <2>1, <3>1, <3>2, <3>3 DEF LandedAs
  <2> QED BY <2>1, <2>2 DEF PurchaseInv, Begun, Written, Approved
<1>9. CASE Fetch
    BY <1>9 DEF PurchaseInv, Fetch, Refused, LandedAs, Begun, Written, Approved
<1>10. CASE Over
    BY <1>10 DEF PurchaseInv, Over, LandedAs, purchaseVars
<1> QED BY <1>1, <1>2, <1>3, <1>4, <1>5, <1>6, <1>7, <1>8, <1>9, <1>10 DEF PurchaseNext

\* A receipt is true.
THEOREM ReceiptHolds == PurchaseSpec => []ReceiptIsTrue
<1>1. PurchaseInit => PurchaseInv
    BY PurchaseStarts
<1>2. PurchaseInv /\ [PurchaseNext]_purchaseVars => PurchaseInv'
    BY PurchaseKeeps
<1>3. PurchaseInv => ReceiptIsTrue
  <2> SUFFICES ASSUME PurchaseInv, stage = "receipted" PROVE ReceiptIsTrue
      BY DEF ReceiptIsTrue
  <2>1. /\ job \in Jobs /\ message \in Seq(InsLike(job.trade)) /\ message # <<>>
        /\ Binds(job.bank, job.intent, job.admission, message)
        /\ expected = Expect(job.bank, message)
        /\ LandedAs /\ Verifies(expected, tx)
      BY DEF PurchaseInv, Written, Approved
  <2>2. PICK raw \in Raws(message), honest \in BOOLEAN :
          \E r \in Results(Charged(tx.before, LandFee), message, raw, honest) :
            tx.after = r.ledger /\ tx.ret = r.ret
    <3>1. tx.ok
        BY <2>1 DEF Verifies
    <3> QED BY <2>1, <3>1 DEF LandedAs
  <2>3. PICK r \in Results(Charged(tx.before, LandFee), message, raw, honest) :
          tx.after = r.ledger /\ tx.ret = r.ret
      BY <2>2
  <2>4. Near(job.bank, tx.before) /\ tx.fee = LandFee
      BY <2>1 DEF LandedAs
  <2>5. /\ Last(message).body \in TradesLike(job.trade)
        /\ \E l : Booked(job.bank, Last(message).body, ParseSetup(job.bank, message), l)
      BY <2>1, <2>3, <2>4, LandedIsBooked
  <2>6. PICK l : Booked(job.bank, Last(message).body, ParseSetup(job.bank, message), l)
      BY <2>5
  <2>7. Confirmed(l)
      BY <2>1, <2>4, <2>5, <2>6 DEF Confirmed, Expect
  <2> QED BY <2>7, ConfirmedIsTrue
<1> QED BY <1>1, <1>2, <1>3, PTL DEF PurchaseSpec
=============================================================================
