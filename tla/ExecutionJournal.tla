-------------------------- MODULE ExecutionJournal --------------------------
(***************************************************************************)
(* The durable execution journal (host/src/journal.rs): an append-only log *)
(* of framed records, an in-memory map with two indexes built from it, and *)
(* an atomic compaction that renames a rewritten log over the current one. *)
(*                                                                         *)
(* Simplifications.                                                        *)
(*  - A record is its sequence number, its intent and the mutable part of  *)
(*    the entry; an incomplete frame at the end of the file is Torn.       *)
(*  - Byte budgets count records: MaxRecords stands for max_bytes, and     *)
(*    seq for both `seq` and `bytes`, which advance together.              *)
(*  - A call that returns an error before it writes is a stutter.          *)
(*  - A failed sync leaves the written bytes where a later sync can still  *)
(*    reach them; a power loss keeps any prefix that contains the synced   *)
(*    part.  Bit corruption (fatal at open) is outside the model.          *)
(***************************************************************************)
EXTENDS OrderLifecycle

CONSTANTS
    NoIntent,       \* the empty slot of an index
    MaxRecords,     \* bound: records that fit in the file
    BatchLimit,     \* entries in one group commit (64 in the code)
    AttemptBound    \* bound: send attempts recorded for one order

ASSUME JournalAssumption ==
    /\ NoIntent \notin Intent
    /\ MaxRecords \in Nat
    /\ BatchLimit \in Nat \ {0}
    /\ AttemptBound \in Nat

VARIABLES
    log,            \* the records a reader of the file finds
    synced,         \* how many of them survive a power loss
    shadow,         \* the replaced log, while its rename is not durable
    up,             \* a process owns the journal
    pc,             \* "ready", "writing", "syncing" or "renamed"
    pending,        \* the records of the append in progress
    mem,            \* entries
    sigs,           \* signatures: signature -> intent
    resv,           \* reservations: resource -> intent
    seq,            \* last sequence number (and size) known to the process
    poisoned        \* an append or a compaction failed half-way

files == <<log, synced, shadow>>
index == <<mem, sigs, resv, seq>>
vars  == <<log, synced, shadow, up, pc, pending, mem, sigs, resv, seq, poisoned>>

Record == [seq : Nat, id : Intent, phase : Phase, attempts : Nat]
Torn   == [seq |-> 0, id |-> NoIntent, phase |-> "Absent", attempts |-> 0]
Log    == Seq(Record \cup {Torn})

NoShadow == [held |-> FALSE, log |-> << >>, synced |-> 0]

-----------------------------------------------------------------------------
(* Reading a log.                                                          *)

\* The complete records: an incomplete frame at the end is dropped.
Body(l) ==
    IF l # << >> /\ l[Len(l)] = Torn THEN SubSeq(l, 1, Len(l) - 1) ELSE l

EntryOf(r) == [phase |-> r.phase, attempts |-> r.attempts]

\* The last record of each intent wins.
Replay(l) ==
    [i \in Intent |->
        LET at == {n \in 1..Len(l) : l[n].id = i}
        IN  IF at = {} THEN Absent
            ELSE EntryOf(l[CHOOSE n \in at : \A m \in at : m <= n])]

\* open accepts the file: sequence numbers run from 1 without a gap (a torn
\* frame that is not the last is a corruption), and the entries satisfy the
\* rules the journal enforces on admission.
Openable(l) ==
    LET body == Body(l)
        E    == Replay(body)
    IN  /\ Len(l) <= MaxRecords
        /\ \A n \in 1..Len(body) : body[n].seq = n
        /\ Cardinality(Recorded(E)) <= Capacity
        /\ PlansCoherent(E)
        /\ SignatureUnique(E)
        /\ Exclusive(E)

SignatureIndex(E) ==
    [s \in Signature |->
        IF \E i \in Recorded(E) : SigOf[i] = s
        THEN CHOOSE i \in Recorded(E) : SigOf[i] = s ELSE NoIntent]

ReservationIndex(E) ==
    [r \in Resource |->
        IF \E i \in Intent : E[i].phase \in Holding /\ r \in ResOf[i]
        THEN CHOOSE i \in Intent : E[i].phase \in Holding /\ r \in ResOf[i]
        ELSE NoIntent]

\* What is left of a file after an interrupted append or a power loss: a
\* prefix no shorter than `kept`, possibly followed by an incomplete frame.
Remains(l, kept) ==
    {SubSeq(l, 1, k) : k \in kept..Len(l)}
        \cup {Append(SubSeq(l, 1, k), Torn) : k \in kept..Len(l) - 1}

-----------------------------------------------------------------------------
Init ==
    /\ log = << >> /\ synced = 0 /\ shadow = NoShadow
    /\ up = FALSE /\ pc = "ready" /\ pending = << >>
    /\ mem = [i \in Intent |-> Absent]
    /\ sigs = [s \in Signature |-> NoIntent]
    /\ resv = [r \in Resource |-> NoIntent]
    /\ seq = 0 /\ poisoned = FALSE

\* Journal::open.  Syncing the directory first makes an earlier rename
\* durable.  The file itself is synced only when a torn tail was cut off.
OpenJournal ==
    LET body == Body(log)
    IN  /\ ~up
        /\ Openable(log)
        /\ up' = TRUE
        /\ log' = body
        /\ synced' = IF body = log THEN synced ELSE Len(body)
        /\ shadow' = NoShadow
        /\ mem' = Replay(body)
        /\ sigs' = SignatureIndex(mem')
        /\ resv' = ReservationIndex(mem')
        /\ seq' = Len(body)
        /\ poisoned' = FALSE
        /\ UNCHANGED <<pc, pending>>

Ready == up /\ pc = "ready"

\* Mutant: an append goes ahead after a failed one.
IgnoresPoison == TRUE

\* "journal requires recovery after I/O failure"
Healthy == ~poisoned

\* append_batch up to the write: frame the records and poison the journal.
BeginAppend(ids, entry) ==
    /\ Healthy
    /\ seq + Len(ids) <= MaxRecords
    /\ pending' = [n \in 1..Len(ids) |->
                     [seq      |-> seq + n,
                      id       |-> ids[n],
                      phase    |-> entry[n].phase,
                      attempts |-> entry[n].attempts]]
    /\ poisoned' = TRUE
    /\ pc' = "writing"
    /\ UNCHANGED <<log, synced, shadow, up, mem, sigs, resv, seq>>

\* Sequences of distinct intents.
Batches ==
    {ids \in UNION {[1..n -> Intent] : n \in 1..BatchLimit} :
        \A m, n \in DOMAIN ids : ids[m] = ids[n] => m = n}

\* Mutant: the signatures of the journal are not consulted.
IgnoresSignatures(i) == mem[i] = Absent /\ \A r \in ResOf[i] : resv[r] = NoIntent

\* Nothing the journal holds is in the way of intent i.
Unclaimed(i) ==
    /\ mem[i] = Absent
    /\ sigs[SigOf[i]] = NoIntent
    /\ \A r \in ResOf[i] : resv[r] = NoIntent

\* insert_batch: admission reads the indexes; the plan rule sees the entries
\* of the journal and the other members of the batch.
InsertBatch(ids) ==
    LET batch == {ids[n] : n \in DOMAIN ids}
        others(i) == [j \in Intent |->
                        IF j \in batch \ {i} THEN "Prepared" ELSE mem[j].phase]
    IN  /\ Ready
        /\ Cardinality(Recorded(mem)) + Len(ids) <= Capacity
        /\ \A i \in batch :
              /\ Admissible(i, others(i))
              /\ Unclaimed(i)
              /\ \A j \in batch \ {i} :
                    SigOf[i] # SigOf[j] /\ ResOf[i] \cap ResOf[j] = {}
        /\ BeginAppend(ids, [n \in DOMAIN ids |-> Fresh])

\* The updates the sender asks for: an attempt is recorded as uncertainty.
Update == {u \in [phase : Phase, attempt : BOOLEAN] :
              u.attempt => u.phase = "Unknown"}

\* update_batch.
UpdateBatch(ids, update) ==
    /\ Ready
    /\ \A n \in DOMAIN ids :
          /\ Allowed(mem[ids[n]].phase, update[n].phase)
          /\ update[n].attempt => mem[ids[n]].attempts < AttemptBound
    /\ BeginAppend(ids,
          [n \in DOMAIN ids |->
              [phase    |-> update[n].phase,
               attempts |-> mem[ids[n]].attempts
                              + (IF update[n].attempt THEN 1 ELSE 0)]])

WriteRecords ==
    /\ pc = "writing"
    /\ log' = log \o pending
    /\ pc' = "syncing"
    /\ UNCHANGED <<synced, shadow, up, pending, mem, sigs, resv, seq, poisoned>>

\* write_all fails, or the process dies in it, part of the way.
WriteFails ==
    /\ pc = "writing"
    /\ log' \in Remains(log \o pending, Len(log))
    /\ pc' = "ready"
    /\ pending' = << >>
    /\ UNCHANGED <<synced, shadow, up, mem, sigs, resv, seq, poisoned>>

\* What sync_data makes durable.
Flushed == Len(log)

\* The entries of the batch that hold, or give up, resource r.
Claimants(E, ids, r) == {i \in ids : r \in ResOf[i] /\ E[i].phase \in Holding}

Releasers(E, ids, r) == {i \in ids : r \in ResOf[i] /\ E[i].phase \in Terminal}

\* The entries once the pending records are merged.
Merged ==
    [i \in Intent |->
        IF \E n \in DOMAIN pending : pending[n].id = i
        THEN EntryOf(pending[CHOOSE n \in DOMAIN pending : pending[n].id = i])
        ELSE mem[i]]

\* sync_data succeeds: entries and indexes follow the durable append.
SyncRecords ==
    LET ids == {pending[n].id : n \in DOMAIN pending}
    IN  /\ pc = "syncing"
        /\ synced' = Flushed
        /\ poisoned' = FALSE
        /\ seq' = seq + Len(pending)
        /\ mem' = Merged
        /\ sigs' = [s \in Signature |->
                      IF \E i \in ids : SigOf[i] = s
                      THEN CHOOSE i \in ids : SigOf[i] = s ELSE sigs[s]]
        /\ resv' = [r \in Resource |->
                      IF Claimants(Merged, ids, r) # {}
                      THEN CHOOSE i \in Claimants(Merged, ids, r) : TRUE
                      ELSE IF resv[r] \in Releasers(Merged, ids, r)
                           THEN NoIntent ELSE resv[r]]
        /\ pc' = "ready"
        /\ pending' = << >>
        /\ UNCHANGED <<log, shadow, up>>

SyncFails ==
    /\ pc = "syncing"
    /\ pc' = "ready"
    /\ pending' = << >>
    /\ UNCHANGED <<log, synced, shadow, up, mem, sigs, resv, seq, poisoned>>

-----------------------------------------------------------------------------
(* Compaction: one record per retained intent, renumbered from 1.          *)

CompactedLogs ==
    LET kept == Recorded(mem)
    IN  {[n \in 1..Cardinality(kept) |->
             [seq |-> n, id |-> order[n],
              phase |-> mem[order[n]].phase, attempts |-> mem[order[n]].attempts]] :
           order \in {o \in [1..Cardinality(kept) -> kept] :
                        \A m, n \in DOMAIN o : o[m] = o[n] => m = n}}

\* The rewritten file is complete and synced before it takes the path.
CompactRename ==
    /\ Ready
    /\ Healthy
    /\ log' \in CompactedLogs
    /\ Len(log') <= MaxRecords
    /\ synced' = Len(log')
    /\ shadow' = [held |-> TRUE, log |-> log, synced |-> synced]
    /\ poisoned' = TRUE
    /\ pc' = "renamed"
    /\ UNCHANGED <<up, pending, mem, sigs, resv, seq>>

\* rename fails: the old log stays, and the journal stays poisoned.
RenameFails ==
    /\ Ready
    /\ Healthy
    /\ poisoned' = TRUE
    /\ UNCHANGED <<log, synced, shadow, up, pc, pending, mem, sigs, resv, seq>>

SizeOfCompacted == Len(log)

\* The directory is synced: the new file, its size and numbering take over.
CompactDone ==
    /\ pc = "renamed"
    /\ shadow' = NoShadow
    /\ seq' = SizeOfCompacted
    /\ poisoned' = FALSE
    /\ pc' = "ready"
    /\ UNCHANGED <<log, synced, up, pending, mem, sigs, resv>>

DirectorySyncFails ==
    /\ pc = "renamed"
    /\ pc' = "ready"
    /\ UNCHANGED <<log, synced, shadow, up, pending, mem, sigs, resv, seq, poisoned>>

-----------------------------------------------------------------------------
Forget ==
    /\ up' = FALSE
    /\ pc' = "ready"
    /\ pending' = << >>
    /\ mem' = [i \in Intent |-> Absent]
    /\ sigs' = [s \in Signature |-> NoIntent]
    /\ resv' = [r \in Resource |-> NoIntent]
    /\ seq' = 0
    /\ poisoned' = FALSE

\* The process dies or drops the journal; the page cache survives.
ProcessStops ==
    /\ up
    /\ Forget
    /\ UNCHANGED files

\* Unsynced bytes may vanish, and so may a rename that was not synced.
PowerLoss ==
    /\ \/ log' \in Remains(log, synced)
       \/ shadow.held /\ log' \in Remains(shadow.log, shadow.synced)
    /\ synced' = Len(log')
    /\ shadow' = NoShadow
    /\ Forget

Next ==
    \/ OpenJournal
    \/ \E ids \in Batches : InsertBatch(ids)
    \/ \E ids \in Batches :
         \E update \in [DOMAIN ids -> Update] : UpdateBatch(ids, update)
    \/ WriteRecords \/ WriteFails
    \/ SyncRecords \/ SyncFails
    \/ CompactRename \/ RenameFails
    \/ CompactDone \/ DirectorySyncFails
    \/ ProcessStops \/ PowerLoss

Spec == Init /\ [][Next]_vars

-----------------------------------------------------------------------------
(* Properties.                                                             *)

\* The type of every variable of the journal and of its file.
TypeOK ==
    /\ log \in Log
    /\ synced \in Nat
    /\ shadow \in [held : BOOLEAN, log : Log, synced : Nat]
    /\ up \in BOOLEAN
    /\ pc \in {"ready", "writing", "syncing", "renamed"}
    /\ pending \in Seq(Record)
    /\ mem \in Entries
    /\ sigs \in [Signature -> Intent \cup {NoIntent}]
    /\ resv \in [Resource -> Intent \cup {NoIntent}]
    /\ seq \in Nat
    /\ poisoned \in BOOLEAN

\* The indexes that admission trusts are exactly those the entries imply: a
\* reservation is held by the one live order that names the resource and is
\* gone once that order is terminal, a recorded signature stays taken for ever.
\* (the incremental index code of append_batch against the rebuild of open)
IndexesExact ==
    up => /\ resv = ReservationIndex(mem)
          /\ sigs = SignatureIndex(mem)

\* The files a reader may find if the process or the machine stops now.
CrashImages ==
    {log} \cup Remains(log, synced)
        \cup (IF shadow.held THEN Remains(shadow.log, shadow.synced) ELSE {})
        \cup (IF pc = "writing" THEN Remains(log \o pending, Len(log)) ELSE {})

\* A stop at any instant leaves a file that open accepts: no gap in the
\* sequence, no torn frame inside the log, no duplicated signature and no
\* overlapping reservation.  (the poison flag of append_batch and compact)
CrashImagesOpen == \A image \in CrashImages : Openable(image)

\* After any stop the recorded orders of a plan never buy a stock twice, and
\* they buy its first stocks without a gap.  (investment::admission)
NoDoublePurchase ==
    \A image \in CrashImages, p \in Plan :
        LET phase == PhaseOf(Replay(Body(image)))
            live  == Live(p, phase)
        IN  /\ \A i, j \in live :
                  i # j => StocksIn(RangeOf(TrancheOf[i]))
                             \cap StocksIn(RangeOf(TrancheOf[j])) = {}
            /\ Bought(p, phase) = 0 .. Cardinality(Bought(p, phase)) - 1

\* The entries that a power loss cannot take away.
DurableEntries ==
    IF shadow.held
    THEN Replay(Body(SubSeq(shadow.log, 1, shadow.synced)))
    ELSE Replay(Body(SubSeq(log, 1, synced)))

\* When an append is acknowledged, everything the journal then reports is out
\* of a power loss's reach.  (sync_data before the indexes and the Ok)
AckedIsDurable ==
    [][pc = "syncing" /\ up' /\ ~poisoned' => DurableEntries' = mem']_vars

Durable == INSTANCE DurableLedger WITH ledger <- DurableEntries

\* The journal implements the durable ledger: the entries that are safe from
\* a power loss only ever advance, and are consistent at every step.
ImplementsDurableLedger == Durable!LedgerSpec
=============================================================================
