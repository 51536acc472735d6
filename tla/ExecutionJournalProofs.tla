----------------------- MODULE ExecutionJournalProofs -----------------------
(***************************************************************************)
(* The execution journal keeps its promises whatever fails and whenever it *)
(* stops: the inductive invariant over the file, the log that a rename has *)
(* replaced, and the memory, and the theorems it gives.                    *)
(***************************************************************************)
EXTENDS ExecutionJournal, LedgerProofs

-----------------------------------------------------------------------------
(* Logs, read record by record.                                            *)

\* The number of complete records of a log.
Whole(l) == IF l # << >> /\ l[Len(l)] = Torn THEN Len(l) - 1 ELSE Len(l)

\* The entries that the first k records of a log give.
At(l, k) ==
    [i \in Intent |->
        LET at == {n \in 1..k : l[n].id = i}
        IN  IF at = {} THEN Absent
            ELSE EntryOf(l[CHOOSE n \in at : \A m \in at : m <= n])]

\* Records of at most a file's size, numbered from 1; the last may be torn.
Framed(l) ==
    /\ l \in Log
    /\ Len(l) <= MaxRecords
    /\ \A n \in 1..Whole(l) : l[n] \in Record /\ l[n].seq = n

\* How many complete records may be left when those before s are durable.
Kept(l, s) == {k \in 0..Whole(l) : s <= k \/ k = Whole(l)}

\* Every part of the log that a stop may leave gives sound entries, and a
\* longer part only later ones.
Safe(l, s) ==
    \A k \in Kept(l, s) :
        /\ Sound(At(l, k))
        /\ \A m \in Kept(l, s) :
              k <= m => \A i \in Intent : Later(At(l, k)[i], At(l, m)[i])

Distinct(p) == \A m, n \in DOMAIN p : p[m].id = p[n].id => m = n


\* An incomplete frame is no record.
LEMMA TornIsNoRecord == Torn \notin Record
BY JournalAssumption DEF Torn, Record

\* Every nonempty set of positions has a last one.
LEMMA LastPosition ==
    ASSUME NEW k \in Nat, NEW T \in SUBSET (1..k), T # {}
    PROVE  \E n \in T : \A m \in T : m <= n
<1> DEFINE U == {k - n : n \in T}
<1>1. U \in SUBSET Nat /\ U # {}
  <2>1. \A n \in T : k - n \in Nat
      OBVIOUS
  <2>2. PICK n \in T : TRUE
      OBVIOUS
  <2>3. k - n \in U
      OBVIOUS
  <2> QED BY <2>1, <2>3
<1>2. PICK x \in U : \A y \in U : x <= y
    BY <1>1, Least
<1>3. PICK n \in T : x = k - n
    BY <1>2
<1>4. \A m \in T : m <= n
  <2> TAKE m \in T
  <2>1. k - m \in U
      OBVIOUS
  <2>2. k - n <= k - m
      BY <1>2, <1>3, <2>1
  <2> QED BY <2>2
<1> QED BY <1>4

\* An order with a record has a last one.
LEMMA LastRecord ==
    ASSUME NEW l, NEW k \in Nat, NEW i, \E n \in 1..k : l[n].id = i
    PROVE  \E n \in 1..k : l[n].id = i /\ (\A m \in 1..k : l[m].id = i => m <= n)
<1> DEFINE at == {n \in 1..k : l[n].id = i}
<1>1. at \in SUBSET (1..k) /\ at # {}
    OBVIOUS
<1>2. PICK n \in at : \A m \in at : m <= n
    BY <1>1, LastPosition
<1> QED BY <1>2

\* The last record of an order is the one that counts.
LEMMA AtFacts ==
    ASSUME NEW l, NEW k \in Nat, NEW i \in Intent
    PROVE  /\ (\A n \in 1..k : l[n].id # i) => At(l, k)[i] = Absent
           /\ \A n \in 1..k :
                l[n].id = i /\ (\A m \in 1..k : l[m].id = i => m <= n)
                  => At(l, k)[i] = EntryOf(l[n])
<1> DEFINE at == {n \in 1..k : l[n].id = i}
<1>1. At(l, k)[i] = IF at = {} THEN Absent
                    ELSE EntryOf(l[CHOOSE n \in at : \A m \in at : m <= n])
    BY DEF At
<1>2. (\A n \in 1..k : l[n].id # i) => At(l, k)[i] = Absent
    BY <1>1
<1>3. ASSUME NEW n \in 1..k, l[n].id = i, \A m \in 1..k : l[m].id = i => m <= n
      PROVE  At(l, k)[i] = EntryOf(l[n])
  <2>1. n \in at /\ \A m \in at : m <= n
      BY <1>3
  <2>2. \A x \in at : (\A m \in at : m <= x) => x = n
      BY <2>1
  <2>3. (CHOOSE x \in at : \A m \in at : m <= x) = n
      BY <2>1, <2>2
  <2> QED BY <1>1, <2>1, <2>3
<1> QED BY <1>2, <1>3

\* The entries depend on the records read and on no others.
LEMMA AtSame ==
    ASSUME NEW l, NEW h, NEW k \in Nat, \A n \in 1..k : l[n] = h[n]
    PROVE  At(l, k) = At(h, k)
<1>1. \A i \in Intent : {n \in 1..k : l[n].id = i} = {n \in 1..k : h[n].id = i}
    OBVIOUS
<1>2. ASSUME NEW i \in Intent PROVE At(l, k)[i] = At(h, k)[i]
  <2>1. CASE \A n \in 1..k : l[n].id # i
      BY <2>1, AtFacts
  <2>2. CASE \E n \in 1..k : l[n].id = i
    <3>1. PICK n \in 1..k : l[n].id = i /\ (\A m \in 1..k : l[m].id = i => m <= n)
        BY <2>2, LastRecord
    <3>2. At(l, k)[i] = EntryOf(l[n])
        BY <3>1, AtFacts
    <3>3. At(h, k)[i] = EntryOf(h[n])
        BY <3>1, AtFacts
    <3> QED BY <3>2, <3>3
  <2> QED BY <2>1, <2>2
<1>3. At(l, k) = [i \in Intent |-> At(l, k)[i]] /\ At(h, k) = [i \in Intent |-> At(h, k)[i]]
    BY DEF At
<1> QED BY <1>2, <1>3

\* Records give entries.
LEMMA AtEntries ==
    ASSUME NEW l, NEW k \in Nat, \A n \in 1..k : l[n] \in Record
    PROVE  At(l, k) \in Entries
<1>1. ASSUME NEW i \in Intent PROVE At(l, k)[i] \in Entry \cup {Absent}
  <2>1. CASE \A n \in 1..k : l[n].id # i
      BY <2>1, AtFacts
  <2>2. CASE \E n \in 1..k : l[n].id = i
    <3>1. PICK n \in 1..k : l[n].id = i /\ (\A m \in 1..k : l[m].id = i => m <= n)
        BY <2>2, LastRecord
    <3>2. At(l, k)[i] = EntryOf(l[n])
        BY <3>1, AtFacts
    <3> QED BY <3>2 DEF EntryOf, Entry, Record
  <2> QED BY <2>1, <2>2
<1>2. At(l, k) = [i \in Intent |-> At(l, k)[i]]
    BY DEF At
<1> QED BY <1>1, <1>2 DEF Entries

\* Reading a log is reading all its records.
LEMMA ReplayAt ==
    ASSUME NEW l
    PROVE  Replay(l) = At(l, Len(l))
BY Zenon DEF Replay, At

\* The complete records of a log, and those of one cut short.
LEMMA BodyFacts ==
    ASSUME NEW l \in Log
    PROVE  /\ Len(l) \in Nat /\ Whole(l) \in 0..Len(l) /\ Whole(l) >= Len(l) - 1
           /\ Body(l) \in Log /\ Len(Body(l)) = Whole(l)
           /\ \A n \in 1..Whole(l) : Body(l)[n] = l[n]
           /\ Whole(l) = Len(l) <=> Body(l) = l
           /\ Whole(l) # Len(l) => l[Len(l)] = Torn
           /\ Replay(Body(l)) = At(l, Whole(l))
<1>1. Len(l) \in Nat /\ (l # << >> => Len(l) # 0)
    BY LenProperties, EmptySeq DEF Log
<1>2. CASE l # << >> /\ l[Len(l)] = Torn
  <2>1. Body(l) = SubSeq(l, 1, Len(l) - 1) /\ Whole(l) = Len(l) - 1
      BY <1>2 DEF Body, Whole
  <2>2. \A n \in 1..Len(l) - 1 : l[n] \in Record \cup {Torn}
      BY <1>1, ElementOfSeq DEF Log
  <2>3. /\ SubSeq(l, 1, Len(l) - 1) \in Log
        /\ Len(SubSeq(l, 1, Len(l) - 1)) = Len(l) - 1
        /\ \A n \in 1..Len(l) - 1 : SubSeq(l, 1, Len(l) - 1)[n] = l[n]
    <3>1. 1 \in Int /\ Len(l) - 1 \in Int
        BY <1>1
    <3>2. /\ SubSeq(l, 1, Len(l) - 1) \in Seq(Record \cup {Torn})
          /\ Len(SubSeq(l, 1, Len(l) - 1)) = IF 1 <= Len(l) - 1 THEN Len(l) - 1 - 1 + 1 ELSE 0
          /\ \A n \in 1..Len(l) - 1 - 1 + 1 : SubSeq(l, 1, Len(l) - 1)[n] = l[1 + n - 1]
        BY <2>2, <3>1, SubSeqProperties
    <3>3. Len(l) # 0 /\ Len(l) - 1 \in Nat /\ Len(l) - 1 - 1 + 1 = Len(l) - 1
        BY <1>1, <1>2
    <3>4. Len(SubSeq(l, 1, Len(l) - 1)) = Len(l) - 1
        BY <3>2, <3>3
    <3>5. \A n \in 1..Len(l) - 1 : 1 + n - 1 = n
        BY <3>3
    <3> QED BY <3>2, <3>3, <3>4, <3>5 DEF Log
  <2>4. Replay(Body(l)) = At(l, Whole(l))
    <3>1. Replay(Body(l)) = At(Body(l), Whole(l))
        BY <2>1, <2>3, ReplayAt
    <3>2. Whole(l) \in Nat /\ \A n \in 1..Whole(l) : Body(l)[n] = l[n]
        BY <1>1, <1>2, <2>1, <2>3
    <3> QED BY <3>1, <3>2, AtSame
  <2> QED BY <1>1, <1>2, <2>1, <2>3, <2>4
<1>3. CASE ~(l # << >> /\ l[Len(l)] = Torn)
  <2>1. Body(l) = l /\ Whole(l) = Len(l)
      BY <1>3 DEF Body, Whole
  <2> QED BY <1>1, <2>1, ReplayAt
<1> QED BY <1>2, <1>3

\* A log whose records are sound is one that open accepts.
LEMMA SoundOpens ==
    ASSUME NEW l, Framed(l), Sound(At(l, Whole(l)))
    PROVE  Openable(l)
<1>1. /\ Len(Body(l)) = Whole(l) /\ \A n \in 1..Whole(l) : Body(l)[n] = l[n]
      /\ Replay(Body(l)) = At(l, Whole(l))
    BY BodyFacts DEF Framed
<1> QED BY <1>1, Zenon DEF Openable, Framed, Sound

\* What a stop leaves of a log is a log: its complete records are those of
\* the log, as many as were durable or all of them.
LEMMA RemainsFacts ==
    ASSUME NEW l, Framed(l), NEW s \in 0..Len(l), NEW img \in Remains(l, s)
    PROVE  /\ Framed(img)
           /\ Len(img) \in s..Len(l)
           /\ Whole(img) \in Kept(l, s)
           /\ \A n \in 1..Whole(img) : img[n] = l[n]
<1>1. /\ l \in Log /\ Len(l) \in Nat /\ Whole(l) \in 0..Len(l) /\ Whole(l) >= Len(l) - 1
      /\ Len(l) <= MaxRecords /\ \A n \in 1..Whole(l) : l[n] \in Record /\ l[n].seq = n
    BY BodyFacts DEF Framed
<1>2. \A n \in 1..Len(l) : l[n] \in Record \cup {Torn}
    BY <1>1, ElementOfSeq DEF Log
<1>3. ASSUME NEW k \in 0..Len(l)
      PROVE  /\ SubSeq(l, 1, k) \in Log /\ Len(SubSeq(l, 1, k)) = k
             /\ \A n \in 1..k : SubSeq(l, 1, k)[n] = l[n]
  <2>1. 1 \in Int /\ k \in Int /\ \A n \in 1..k : l[n] \in Record \cup {Torn}
      BY <1>1, <1>2
  <2>2. /\ SubSeq(l, 1, k) \in Seq(Record \cup {Torn})
        /\ Len(SubSeq(l, 1, k)) = IF 1 <= k THEN k - 1 + 1 ELSE 0
        /\ \A n \in 1..k - 1 + 1 : SubSeq(l, 1, k)[n] = l[1 + n - 1]
      BY <2>1, SubSeqProperties
  <2> QED BY <1>1, <2>2 DEF Log
<1>4. Torn \in Record \cup {Torn} /\ Torn \notin Record
    BY TornIsNoRecord
<1>5. ASSUME NEW k \in s..Len(l), img = SubSeq(l, 1, k)
      PROVE  /\ Framed(img) /\ Len(img) \in s..Len(l)
             /\ Whole(img) \in Kept(l, s)
             /\ \A n \in 1..Whole(img) : img[n] = l[n]
  <2>1. k \in 0..Len(l) /\ img \in Log /\ Len(img) = k /\ \A n \in 1..k : img[n] = l[n]
      BY <1>3, <1>5
  <2>2. CASE k = Len(l)
    <3>1. img = l
        BY <1>1, <1>5, <2>2, SubSeqFull DEF Log
    <3>2. Whole(l) \in Kept(l, s)
        BY <1>1 DEF Kept
    <3>3. Len(l) \in s..Len(l)
        BY <1>5, <2>2
    <3> QED BY <3>1, <3>2, <3>3
  <2>3. CASE k # Len(l)
    <3>1. k \in 0..Whole(l)
        BY <1>1, <2>1, <2>3
    <3>2. img # << >> => img[Len(img)] \in Record
      <4>1. img # << >> => k \in 1..Whole(l)
          BY <2>1, <3>1, EmptySeq DEF Log
      <4> QED BY <1>1, <2>1, <4>1
    <3>3. Whole(img) = k
        BY <1>4, <2>1, <3>2 DEF Whole
    <3>4. k \in Kept(l, s)
        BY <1>5, <3>1 DEF Kept
    <3>5. \A n \in 1..k : n \in 1..Whole(l) /\ img[n] \in Record /\ img[n].seq = n
        BY <1>1, <2>1, <3>1
    <3>6. MaxRecords \in Nat
        BY JournalAssumption
    <3> QED BY <1>1, <1>5, <2>1, <3>3, <3>4, <3>5, <3>6 DEF Framed
  <2> QED BY <2>2, <2>3
<1>6. ASSUME NEW k \in s..Len(l) - 1, img = Append(SubSeq(l, 1, k), Torn)
      PROVE  /\ Framed(img) /\ Len(img) \in s..Len(l)
             /\ Whole(img) \in Kept(l, s)
             /\ \A n \in 1..Whole(img) : img[n] = l[n]
  <2> DEFINE cut == SubSeq(l, 1, k)
  <2>1. k \in 0..Len(l) /\ cut \in Log /\ Len(cut) = k /\ \A n \in 1..k : cut[n] = l[n]
      BY <1>1, <1>3, <1>6
  <2> HIDE DEF cut
  <2>2. /\ img \in Log /\ img # << >> /\ Len(img) = k + 1 /\ img[k + 1] = Torn
        /\ \A n \in 1..k : img[n] = l[n]
    <3>1. img = Append(cut, Torn)
        BY <1>6 DEF cut
    <3>2. cut \in Seq(Record \cup {Torn})
        BY <2>1 DEF Log
    <3> QED BY <1>4, <2>1, <3>1, <3>2, AppendProperties DEF Log
  <2>3. Whole(img) = k
      BY <2>1, <2>2 DEF Whole
  <2>4. k \in 0..Whole(l)
      BY <1>1, <1>6
  <2>5. k \in Kept(l, s)
      BY <1>6, <2>4 DEF Kept
  <2>6. \A n \in 1..k : n \in 1..Whole(l) /\ img[n] \in Record /\ img[n].seq = n
      BY <1>1, <2>2, <2>4
  <2>7. MaxRecords \in Nat
      BY JournalAssumption
  <2> QED BY <1>1, <1>6, <2>2, <2>3, <2>5, <2>6, <2>7 DEF Framed
<1> QED BY <1>5, <1>6 DEF Remains


\* The entries any part of a framed log gives.
LEMMA PartEntries ==
    ASSUME NEW l, Framed(l), NEW k \in 0..Whole(l)
    PROVE  At(l, k) \in Entries
<1>1. k \in Nat /\ \A n \in 1..k : n \in 1..Whole(l)
    BY BodyFacts DEF Framed
<1> QED BY <1>1, AtEntries DEF Framed

\* A log that holds a part of a safe log, which a stop may leave, is safe.
LEMMA SafeShrinks ==
    ASSUME NEW l, Framed(l), NEW s \in Nat, Safe(l, s),
           NEW img, Framed(img), NEW t \in Nat, s <= t,
           Whole(img) \in Kept(l, s), \A n \in 1..Whole(img) : img[n] = l[n]
    PROVE  Safe(img, t) /\ Sound(At(img, Whole(img)))
<1>1. Whole(img) \in Nat /\ Whole(l) \in Nat /\ Whole(img) <= Whole(l)
    BY BodyFacts DEF Framed, Kept
<1>2. \A k \in 0..Whole(img) : At(img, k) = At(l, k)
  <2> TAKE k \in 0..Whole(img)
  <2>1. k \in Nat /\ \A n \in 1..k : img[n] = l[n]
      BY <1>1
  <2> QED BY <2>1, AtSame
<1>3. Kept(img, t) \subseteq Kept(l, s) /\ Kept(img, t) \subseteq 0..Whole(img)
    BY <1>1 DEF Kept
<1>4. Whole(img) \in 0..Whole(img)
    BY <1>1
<1>5. \A k \in Kept(l, s) : Sound(At(l, k))
    BY DEF Safe
<1>6. \A k, m \in Kept(l, s) : k <= m => \A i \in Intent : Later(At(l, k)[i], At(l, m)[i])
    BY DEF Safe
<1>7. \A k \in Kept(img, t) : Sound(At(img, k))
    BY <1>2, <1>3, <1>5
<1>8. \A k, m \in Kept(img, t) : k <= m => \A i \in Intent : Later(At(img, k)[i], At(img, m)[i])
    BY <1>2, <1>3, <1>6
<1>9. Sound(At(img, Whole(img)))
    BY <1>2, <1>4, <1>5
<1> QED BY <1>7, <1>8, <1>9 DEF Safe

\* The durable part of a log is the shortest a stop may leave.
LEMMA DurableFacts ==
    ASSUME NEW l, Framed(l), NEW s \in 0..Len(l)
    PROVE  \E k \in Kept(l, s) :
              /\ Replay(Body(SubSeq(l, 1, s))) = At(l, k)
              /\ \A m \in Kept(l, s) : k <= m
<1> DEFINE img == SubSeq(l, 1, s)
<1>1. /\ l \in Log /\ Len(l) \in Nat /\ Whole(l) \in 0..Len(l)
    BY BodyFacts DEF Framed
<1>2. img \in Remains(l, s)
    BY <1>1 DEF Remains
<1> HIDE DEF img
<1>3. /\ Framed(img) /\ Whole(img) \in Kept(l, s) /\ \A n \in 1..Whole(img) : img[n] = l[n]
    BY <1>2, RemainsFacts
<1>4. Replay(Body(img)) = At(img, Whole(img)) /\ Whole(img) \in 0..Len(img)
    BY <1>3, BodyFacts DEF Framed
<1>5. Whole(img) \in Nat /\ At(img, Whole(img)) = At(l, Whole(img))
    BY <1>3, <1>4, AtSame DEF Framed
<1>6. Len(img) = s
  <2>1. \A n \in 1..s : l[n] \in Record \cup {Torn}
      BY <1>1, ElementOfSeq DEF Log
  <2>2. Len(img) = IF 1 <= s THEN s - 1 + 1 ELSE 0
      BY <1>1, <2>1, SubSeqProperties DEF img
  <2> QED BY <1>1, <2>2
<1>7. \A m \in Kept(l, s) : Whole(img) <= m
    BY <1>1, <1>3, <1>4, <1>5, <1>6 DEF Kept
<1> QED BY <1>3, <1>4, <1>5, <1>7 DEF img

\* The entries E once the first j records of p are added to them.
Added(E, p, j) ==
    [i \in Intent |->
        IF \E n \in 1..j : p[n].id = i
        THEN EntryOf(p[CHOOSE n \in 1..j : p[n].id = i]) ELSE E[i]]

\* An order without a record among them keeps its entry.
LEMMA NotAdded ==
    ASSUME NEW E, NEW p, NEW j, NEW i \in Intent, \A n \in 1..j : p[n].id # i
    PROVE  Added(E, p, j)[i] = E[i]
BY DEF Added

\* Of records of distinct orders each order has at most one.
LEMMA WasAdded ==
    ASSUME NEW E, NEW p \in Seq(Record), Distinct(p), NEW j \in 0..Len(p), NEW n \in 1..j
    PROVE  Added(E, p, j)[p[n].id] = EntryOf(p[n])
<1> DEFINE i == p[n].id
<1>1. Len(p) \in Nat /\ DOMAIN p = 1..Len(p) /\ 1..j \subseteq DOMAIN p
    BY LenProperties
<1>2. i \in Intent
  <2>1. n \in 1..Len(p)
      BY <1>1
  <2>2. p[n] \in Record
      BY <2>1, ElementOfSeq
  <2> QED BY <2>2 DEF Record
<1>3. \A m \in 1..j : p[m].id = i => m = n
    BY <1>1 DEF Distinct
<1>4. (CHOOSE m \in 1..j : p[m].id = i) = n
    BY <1>3
<1> QED BY <1>2, <1>4 DEF Added

\* Appending records to a whole log adds them to its entries.
LEMMA AppendAt ==
    ASSUME NEW l, Framed(l), Whole(l) = Len(l), NEW p \in Seq(Record), Distinct(p),
           NEW j \in 0..Len(p)
    PROVE  At(l \o p, Len(l) + j) = Added(At(l, Len(l)), p, j)
<1> DEFINE h == l \o p
           E == At(l, Len(l))
<1>1. /\ Len(l) \in Nat /\ Len(p) \in Nat /\ DOMAIN p = 1..Len(p)
      /\ \A n \in 1..Len(l) + Len(p) : h[n] = IF n <= Len(l) THEN l[n] ELSE p[n - Len(l)]
  <2>1. l \in Seq(Record \cup {Torn}) /\ p \in Seq(Record \cup {Torn})
      BY SeqMonotonic DEF Framed, Log
  <2> QED BY <2>1, ConcatProperties, LenProperties
<1>2. /\ \A n \in 1..Len(l) : n \in 1..Len(l) + j /\ h[n] = l[n]
      /\ \A n \in 1..j : Len(l) + n \in 1..Len(l) + j /\ h[Len(l) + n] = p[n]
    BY <1>1
<1>3. \A n \in 1..Len(l) + j : n \in 1..Len(l) \/ n - Len(l) \in 1..j
    BY <1>1
<1>4. Len(l) + j \in Nat
    BY <1>1
<1>0. Len(l) \in Nat
    BY <1>1
<1> HIDE DEF h, E
<1>5. ASSUME NEW i \in Intent
      PROVE  At(h, Len(l) + j)[i] = Added(E, p, j)[i]
  <2>1. CASE \E n \in 1..j : p[n].id = i
    <3>1. PICK n \in 1..j : p[n].id = i
        BY <2>1
    <3>2. \A m \in 1..Len(l) + j : h[m].id = i => m <= Len(l) + n
      <4> TAKE m \in 1..Len(l) + j
      <4> HAVE h[m].id = i
      <4>1. CASE m \in 1..Len(l)
          BY <1>1, <4>1
      <4>2. CASE m - Len(l) \in 1..j
        <5>1. m = Len(l) + (m - Len(l))
            BY <1>1
        <5>2. p[m - Len(l)].id = i
            BY <1>2, <4>2, <5>1
        <5>3. m - Len(l) = n
          <6>1. m - Len(l) \in DOMAIN p /\ n \in DOMAIN p
              BY <1>1, <4>2
          <6> QED BY <3>1, <5>2, <6>1 DEF Distinct
        <5> QED BY <1>1, <5>3
      <4> QED BY <1>3, <4>1, <4>2
    <3>3. At(h, Len(l) + j)[i] = EntryOf(h[Len(l) + n])
        BY <1>2, <1>4, <3>1, <3>2, AtFacts
    <3>4. Added(E, p, j)[i] = EntryOf(p[n])
        BY <3>1, WasAdded
    <3> QED BY <1>2, <3>3, <3>4
  <2>2. CASE \A n \in 1..j : p[n].id # i
    <3>1. Added(E, p, j)[i] = E[i]
        BY <2>2, NotAdded
    <3>2. \A m \in 1..Len(l) + j : h[m].id = i => m \in 1..Len(l)
      <4> TAKE m \in 1..Len(l) + j
      <4> HAVE h[m].id = i
      <4> SUFFICES ASSUME m - Len(l) \in 1..j PROVE FALSE
          BY <1>3
      <4>1. m = Len(l) + (m - Len(l))
          BY <1>1
      <4> QED BY <1>2, <2>2, <4>1
    <3>3. CASE \E n \in 1..Len(l) : l[n].id = i
      <4>1. PICK n \in 1..Len(l) :
               l[n].id = i /\ (\A m \in 1..Len(l) : l[m].id = i => m <= n)
          BY <1>0, <3>3, LastRecord
      <4>2. E[i] = EntryOf(l[n])
          BY <1>0, <4>1, AtFacts DEF E
      <4>3. \A m \in 1..Len(l) + j : h[m].id = i => m <= n
          BY <1>2, <3>2, <4>1
      <4>4. n \in 1..Len(l) + j /\ h[n] = l[n]
          BY <1>2
      <4>5. At(h, Len(l) + j)[i] = EntryOf(h[n])
          BY <1>4, <4>1, <4>3, <4>4, AtFacts
      <4> QED BY <3>1, <4>2, <4>4, <4>5
    <3>4. CASE \A n \in 1..Len(l) : l[n].id # i
      <4>1. E[i] = Absent
          BY <1>0, <3>4, AtFacts DEF E
      <4>2. \A m \in 1..Len(l) + j : h[m].id # i
          BY <1>2, <3>2, <3>4
      <4>3. At(h, Len(l) + j)[i] = Absent
          BY <1>4, <4>2, AtFacts
      <4> QED BY <3>1, <4>1, <4>3
    <3> QED BY <3>3, <3>4
  <2> QED BY <2>1, <2>2
<1>6. /\ At(h, Len(l) + j) = [i \in Intent |-> At(h, Len(l) + j)[i]]
      /\ Added(E, p, j) = [i \in Intent |-> Added(E, p, j)[i]]
    BY DEF At, Added
<1>7. At(h, Len(l) + j) = Added(E, p, j)
    BY <1>5, <1>6
<1> QED BY <1>7 DEF h, E

\* An append of sound advances to a whole and safe log keeps it safe, wherever
\* the append stops.
LEMMA AppendSafe ==
    ASSUME NEW l, Framed(l), Whole(l) = Len(l), NEW s \in 0..Len(l), Safe(l, s),
           NEW p \in Seq(Record), Distinct(p), Len(l) + Len(p) <= MaxRecords,
           \A n \in 1..Len(p) : p[n].seq = Len(l) + n,
           \A n \in 1..Len(p) : Later(At(l, Len(l))[p[n].id], EntryOf(p[n])),
           \A j \in 0..Len(p) : Sound(Added(At(l, Len(l)), p, j))
    PROVE  Framed(l \o p) /\ Safe(l \o p, s) /\ Whole(l \o p) = Len(l \o p)
           /\ Len(l \o p) = Len(l) + Len(p)
<1> DEFINE h == l \o p
           E == At(l, Len(l))
<1>1. /\ Len(l) \in Nat /\ Len(p) \in Nat /\ h \in Log /\ Len(h) = Len(l) + Len(p)
      /\ \A n \in 1..Len(l) + Len(p) : h[n] = IF n <= Len(l) THEN l[n] ELSE p[n - Len(l)]
      /\ \A n \in 1..Len(p) : p[n] \in Record
  <2>1. l \in Seq(Record \cup {Torn}) /\ p \in Seq(Record \cup {Torn})
      BY SeqMonotonic DEF Framed, Log
  <2> QED BY <2>1, ConcatProperties, LenProperties, ElementOfSeq DEF Log
<1>2. \A n \in 1..Len(h) : h[n] \in Record /\ h[n].seq = n
  <2> TAKE n \in 1..Len(h)
  <2>1. CASE n <= Len(l)
      BY <1>1, <2>1 DEF Framed
  <2>2. CASE ~(n <= Len(l))
    <3>1. n - Len(l) \in 1..Len(p) /\ h[n] = p[n - Len(l)]
        BY <1>1, <2>2
    <3> QED BY <1>1, <3>1
  <2> QED BY <2>1, <2>2
<1>3. Whole(h) = Len(h)
  <2>1. h # << >> => Len(h) \in 1..Len(h)
      BY <1>1, EmptySeq DEF Log
  <2> QED BY <1>2, <2>1, TornIsNoRecord DEF Whole
<1>4. Framed(h)
    BY <1>1, <1>2, <1>3 DEF Framed
<1>5. \A k \in 0..Len(l) : At(h, k) = At(l, k)
  <2> TAKE k \in 0..Len(l)
  <2>1. k \in Nat /\ \A n \in 1..k : h[n] = l[n]
      BY <1>1
  <2> QED BY <2>1, AtSame
<1>6. \A j \in 0..Len(p) : At(h, Len(l) + j) = Added(E, p, j)
    BY AppendAt
<1>7. \A k \in 0..Len(h) : k \in 0..Len(l) \/ (k - Len(l) \in 0..Len(p) /\ k = Len(l) + (k - Len(l)))
    BY <1>1
<1>8. \A k \in 0..Len(h) : At(h, k) \in Entries
    BY <1>3, <1>4, PartEntries
<1>9. \A k \in Kept(h, s) : k \in 0..Len(h) /\ (k \in 0..Len(l) => k \in Kept(l, s))
    BY <1>1, <1>3 DEF Kept
<1>10. Len(l) \in Kept(l, s) /\ E \in Entries
  <2>1. Len(l) \in 0..Len(l)
      BY <1>1
  <2> QED BY <2>1, PartEntries DEF Kept
<1> HIDE DEF h, E
<1>11. ASSUME NEW k \in Kept(h, s) PROVE Sound(At(h, k))
  <2>1. CASE k \in 0..Len(l)
      BY <1>5, <1>9, <2>1 DEF Safe
  <2>2. CASE k - Len(l) \in 0..Len(p) /\ k = Len(l) + (k - Len(l))
    <3>1. At(h, k) = Added(E, p, k - Len(l))
        BY <1>6, <2>2
    <3> QED BY <2>2, <3>1 DEF E
  <2> QED BY <1>7, <1>9, <2>1, <2>2
\* What the append adds is later than what was there, and stays.
<1>12. ASSUME NEW j \in 0..Len(p), NEW i \in Intent PROVE Later(E[i], Added(E, p, j)[i])
  <2>1. CASE \A n \in 1..j : p[n].id # i
      BY <2>1, NotAdded DEF Later
  <2>2. CASE \E n \in 1..j : p[n].id = i
    <3>1. PICK n \in 1..j : p[n].id = i
        BY <2>2
    <3>2. n \in 1..Len(p)
        BY <1>1
    <3>3. Added(E, p, j)[i] = EntryOf(p[n])
        BY <3>1, WasAdded
    <3> QED BY <3>1, <3>2, <3>3 DEF E
  <2> QED BY <2>1, <2>2
<1>13. ASSUME NEW j \in 0..Len(p), NEW m \in 0..Len(p), j <= m, NEW i \in Intent
       PROVE  Later(Added(E, p, j)[i], Added(E, p, m)[i])
  <2>1. CASE \A n \in 1..j : p[n].id # i
      BY <1>12, <2>1, NotAdded
  <2>2. CASE \E n \in 1..j : p[n].id = i
    <3>1. PICK n \in 1..j : p[n].id = i
        BY <2>2
    <3>2. n \in 1..m
        BY <1>1, <1>13
    <3>3. Added(E, p, j)[i] = EntryOf(p[n])
        BY <3>1, WasAdded
    <3>4. Added(E, p, m)[i] = EntryOf(p[n])
        BY <3>1, <3>2, WasAdded
    <3> QED BY <3>3, <3>4 DEF Later
  <2> QED BY <2>1, <2>2
<1>14. ASSUME NEW k \in Kept(h, s), NEW m \in Kept(h, s), k <= m, NEW i \in Intent
       PROVE  Later(At(h, k)[i], At(h, m)[i])
  <2>1. CASE m \in 0..Len(l)
    <3>1. k \in 0..Len(l)
        BY <1>1, <1>9, <1>14, <2>1
    <3> QED BY <1>5, <1>9, <1>14, <2>1, <3>1 DEF Safe
  <2>2. CASE m - Len(l) \in 0..Len(p) /\ m = Len(l) + (m - Len(l))
    <3>1. At(h, m) = Added(E, p, m - Len(l))
        BY <1>6, <2>2
    <3>2. CASE k \in 0..Len(l)
      <4>1. Later(At(l, k)[i], E[i])
          BY <1>1, <1>9, <1>10, <3>2 DEF Safe, E
      <4>2. Later(E[i], At(h, m)[i])
          BY <1>12, <2>2, <3>1
      <4>3. At(h, k) = At(l, k)
          BY <1>5, <3>2
      <4>4. /\ At(h, k)[i] \in Entry \cup {Absent} /\ At(h, m)[i] \in Entry \cup {Absent}
            /\ E[i] \in Entry \cup {Absent}
          BY <1>8, <1>9, <1>10 DEF Entries
      <4> QED BY <4>1, <4>2, <4>3, <4>4, LaterTransitive
    <3>3. CASE k - Len(l) \in 0..Len(p) /\ k = Len(l) + (k - Len(l))
      <4>1. At(h, k) = Added(E, p, k - Len(l))
          BY <1>6, <3>3
      <4>2. k - Len(l) <= m - Len(l)
          BY <1>1, <1>9, <1>14
      <4> QED BY <1>13, <2>2, <3>1, <3>3, <4>1, <4>2
    <3> QED BY <1>7, <1>9, <3>2, <3>3
  <2> QED BY <1>7, <1>9, <2>1, <2>2
<1>15. Safe(h, s)
    BY <1>11, <1>14 DEF Safe
<1> QED BY <1>1, <1>3, <1>4, <1>15 DEF h

-----------------------------------------------------------------------------
(* The indexes.                                                            *)

\* The reservation index names the one live order that holds a resource.
LEMMA ReservationFacts ==
    ASSUME NEW E, Exclusive(E), NEW r \in Resource
    PROVE  /\ \A i \in Intent : E[i].phase \in Holding /\ r \in ResOf[i]
                                  => ReservationIndex(E)[r] = i
           /\ (\A i \in Intent : ~(E[i].phase \in Holding /\ r \in ResOf[i]))
                => ReservationIndex(E)[r] = NoIntent
<1>1. ASSUME NEW i \in Intent, E[i].phase \in Holding, r \in ResOf[i]
      PROVE  ReservationIndex(E)[r] = i
  <2>1. \A j \in Intent : E[j].phase \in Holding /\ r \in ResOf[j] => j = i
      BY <1>1 DEF Exclusive
  <2>2. (CHOOSE j \in Intent : E[j].phase \in Holding /\ r \in ResOf[j]) = i
      BY <1>1, <2>1
  <2> QED BY <1>1, <2>2 DEF ReservationIndex
<1> QED BY <1>1 DEF ReservationIndex

\* The signature index names the one recorded order that carries a signature.
LEMMA SignatureFacts ==
    ASSUME NEW E, SignatureUnique(E), NEW s \in Signature
    PROVE  /\ \A i \in Recorded(E) : SigOf[i] = s => SignatureIndex(E)[s] = i
           /\ (\A i \in Recorded(E) : SigOf[i] # s) => SignatureIndex(E)[s] = NoIntent
<1>1. ASSUME NEW i \in Recorded(E), SigOf[i] = s
      PROVE  SignatureIndex(E)[s] = i
  <2>1. \A j \in Recorded(E) : SigOf[j] = s => j = i
      BY <1>1 DEF SignatureUnique
  <2>2. (CHOOSE j \in Recorded(E) : SigOf[j] = s) = i
      BY <1>1, <2>1
  <2> QED BY <1>1, <2>2 DEF SignatureIndex
<1> QED BY <1>1 DEF SignatureIndex

\* The indexes as append_batch updates them for the orders it appended.
ReservationsAfter(old, G, ids) ==
    [r \in Resource |->
        IF Claimants(G, ids, r) # {}
        THEN CHOOSE i \in Claimants(G, ids, r) : TRUE
        ELSE IF old[r] \in Releasers(G, ids, r) THEN NoIntent ELSE old[r]]

SignaturesAfter(old, ids) ==
    [s \in Signature |->
        IF \E i \in ids : SigOf[i] = s
        THEN CHOOSE i \in ids : SigOf[i] = s ELSE old[s]]

\* Updating the indexes for the orders of an append gives those that the new
\* entries imply.  (the index code of append_batch)
LEMMA IndexesFollow ==
    ASSUME NEW E \in Entries, NEW G \in Entries, Sound(E), Sound(G), NEW ids \in SUBSET Intent,
           \A i \in Intent \ ids : G[i] = E[i],
           \A i \in ids : G[i].phase \in Phase
    PROVE  /\ ReservationIndex(G) = ReservationsAfter(ReservationIndex(E), G, ids)
           /\ SignatureIndex(G) = SignaturesAfter(SignatureIndex(E), ids)
<1>1. ASSUME NEW r \in Resource
      PROVE  ReservationIndex(G)[r] =
                   IF Claimants(G, ids, r) # {}
                   THEN CHOOSE i \in Claimants(G, ids, r) : TRUE
                   ELSE IF ReservationIndex(E)[r] \in Releasers(G, ids, r)
                        THEN NoIntent ELSE ReservationIndex(E)[r]
  <2>0. Exclusive(E) /\ Exclusive(G)
      BY DEF Sound
  <2>1. CASE Claimants(G, ids, r) # {}
    <3> DEFINE i == CHOOSE x \in Claimants(G, ids, r) : TRUE
    <3>1. i \in Claimants(G, ids, r)
        BY <2>1
    <3>2. i \in Intent /\ G[i].phase \in Holding /\ r \in ResOf[i]
        BY <3>1 DEF Claimants
    <3> HIDE DEF i
    <3>3. ReservationIndex(G)[r] = i
        BY <2>0, <3>2, ReservationFacts
    <3> QED BY <2>1, <3>3 DEF i
  <2>2. CASE Claimants(G, ids, r) = {}
    <3>1. \A i \in ids : ~(G[i].phase \in Holding /\ r \in ResOf[i])
        BY <2>2 DEF Claimants
    <3>2. CASE \E j \in Intent \ ids : G[j].phase \in Holding /\ r \in ResOf[j]
      <4>1. PICK j \in Intent \ ids : G[j].phase \in Holding /\ r \in ResOf[j]
          BY <3>2
      <4>2. ReservationIndex(G)[r] = j /\ ReservationIndex(E)[r] = j
          BY <2>0, <4>1, ReservationFacts
      <4>3. j \notin Releasers(G, ids, r)
          BY <4>1 DEF Releasers
      <4> QED BY <2>2, <4>2, <4>3
    <3>3. CASE \A j \in Intent \ ids : ~(G[j].phase \in Holding /\ r \in ResOf[j])
      <4>1. ReservationIndex(G)[r] = NoIntent
          BY <2>0, <3>1, <3>3, ReservationFacts
      <4>2. CASE \E i \in Intent : E[i].phase \in Holding /\ r \in ResOf[i]
        <5>1. PICK i \in Intent : E[i].phase \in Holding /\ r \in ResOf[i]
            BY <4>2
        <5>2. ReservationIndex(E)[r] = i
            BY <2>0, <5>1, ReservationFacts
        <5>3. i \in ids
            BY <3>3, <5>1
        <5>4. G[i].phase \in Terminal
            BY <3>1, <5>1, <5>3 DEF Holding
        <5> QED BY <2>2, <4>1, <5>1, <5>2, <5>3, <5>4 DEF Releasers
      <4>3. CASE \A i \in Intent : ~(E[i].phase \in Holding /\ r \in ResOf[i])
        <5>1. ReservationIndex(E)[r] = NoIntent
            BY <2>0, <4>3, ReservationFacts
        <5> QED BY <2>2, <4>1, <5>1
      <4> QED BY <4>2, <4>3
    <3> QED BY <3>2, <3>3
  <2> QED BY <2>1, <2>2
<1>2. ASSUME NEW s \in Signature
      PROVE  SignatureIndex(G)[s] =
                   IF \E i \in ids : SigOf[i] = s
                   THEN CHOOSE i \in ids : SigOf[i] = s ELSE SignatureIndex(E)[s]
  <2>0. SignatureUnique(E) /\ SignatureUnique(G)
      BY DEF Sound
  <2>1. /\ ids \subseteq Recorded(G)
        /\ \A i \in Intent \ ids : i \in Recorded(G) <=> i \in Recorded(E)
      BY PhaseFacts DEF Recorded
  <2>2. CASE \E i \in ids : SigOf[i] = s
    <3> DEFINE i == CHOOSE x \in ids : SigOf[x] = s
    <3>1. i \in ids /\ SigOf[i] = s
        BY <2>2
    <3> HIDE DEF i
    <3>2. SignatureIndex(G)[s] = i
        BY <2>0, <2>1, <3>1, SignatureFacts
    <3> QED BY <2>2, <3>2 DEF i
  <2>3. CASE \A i \in ids : SigOf[i] # s
    <3>1. CASE \E j \in Recorded(G) : SigOf[j] = s
      <4>1. PICK j \in Recorded(G) : SigOf[j] = s
          BY <3>1
      <4>2. j \in Recorded(E)
          BY <2>1, <2>3, <4>1 DEF Recorded
      <4>3. SignatureIndex(G)[s] = j /\ SignatureIndex(E)[s] = j
          BY <2>0, <4>1, <4>2, SignatureFacts
      <4> QED BY <2>3, <4>3
    <3>2. CASE \A j \in Recorded(G) : SigOf[j] # s
      <4>1. \A j \in Recorded(E) : SigOf[j] # s
          BY <2>1, <2>3, <3>2 DEF Recorded
      <4>2. SignatureIndex(G)[s] = NoIntent /\ SignatureIndex(E)[s] = NoIntent
          BY <2>0, <3>2, <4>1, SignatureFacts
      <4> QED BY <2>3, <4>2
    <3> QED BY <3>1, <3>2
  <2> QED BY <2>2, <2>3
<1>3. /\ ReservationIndex(G) = [r \in Resource |-> ReservationIndex(G)[r]]
      /\ SignatureIndex(G) = [s \in Signature |-> SignatureIndex(G)[s]]
    BY DEF ReservationIndex, SignatureIndex
<1>4. ReservationIndex(G) = ReservationsAfter(ReservationIndex(E), G, ids)
    BY <1>1, <1>3, Zenon DEF ReservationsAfter
<1>5. SignatureIndex(G) = SignaturesAfter(SignatureIndex(E), ids)
    BY <1>2, <1>3, Zenon DEF SignaturesAfter
<1> QED BY <1>4, <1>5

\* Empty entries have empty indexes.
LEMMA NothingIndexed ==
    ASSUME NEW E, E = [i \in Intent |-> Absent]
    PROVE  /\ ReservationIndex(E) = [r \in Resource |-> NoIntent]
           /\ SignatureIndex(E) = [s \in Signature |-> NoIntent]
<1>1. \A i \in Intent : E[i].phase \notin Holding /\ i \notin Recorded(E)
    BY PhaseFacts DEF Holding, Recorded
<1> QED BY <1>1 DEF ReservationIndex, SignatureIndex, Recorded

-----------------------------------------------------------------------------
(* Logs that leave a stop no choice.                                       *)

\* A log that is durable up to its last complete record is safe.
LEMMA SafeAlone ==
    ASSUME NEW l, Framed(l), NEW s \in Nat, Whole(l) <= s, Sound(At(l, Whole(l)))
    PROVE  Safe(l, s)
<1>1. Whole(l) \in Nat
    BY BodyFacts DEF Framed
<1>2. \A k \in Kept(l, s) : k = Whole(l)
    BY <1>1 DEF Kept
<1> QED BY <1>2 DEF Safe, Later

\* The whole log, its last record, and the log that open goes on with.
LEMMA WholeFacts ==
    ASSUME NEW l, Framed(l)
    PROVE  /\ Whole(l) \in Kept(l, 0) /\ \A s : Whole(l) \in Kept(l, s)
           /\ Framed(Body(l)) /\ Whole(Body(l)) = Whole(l) /\ Len(Body(l)) = Whole(l)
           /\ At(Body(l), Whole(l)) = At(l, Whole(l))
           /\ Replay(Body(SubSeq(l, 1, Len(l)))) = At(l, Whole(l))
<1>1. /\ l \in Log /\ Len(l) \in Nat /\ Whole(l) \in 0..Len(l) /\ Whole(l) \in Nat
      /\ Body(l) \in Log /\ Len(Body(l)) = Whole(l)
      /\ \A n \in 1..Whole(l) : Body(l)[n] = l[n]
      /\ Replay(Body(l)) = At(l, Whole(l))
    BY BodyFacts DEF Framed
<1>2. \A s : Whole(l) \in Kept(l, s)
    BY <1>1 DEF Kept
<1>3. Whole(Body(l)) = Whole(l)
  <2>1. Body(l) # << >> => Whole(l) \in 1..Whole(l)
      BY <1>1, EmptySeq DEF Log
  <2>2. Body(l) # << >> => Body(l)[Len(Body(l))] \in Record
      BY <1>1, <2>1 DEF Framed
  <2> QED BY <1>1, <2>2, TornIsNoRecord DEF Whole
<1>4. Framed(Body(l))
  <2>1. MaxRecords \in Nat
      BY JournalAssumption
  <2> QED BY <1>1, <1>3, <2>1 DEF Framed
<1>5. At(Body(l), Whole(l)) = At(l, Whole(l))
    BY <1>1, AtSame
<1>6. SubSeq(l, 1, Len(l)) = l
    BY <1>1, SubSeqFull DEF Log
<1> QED BY <1>1, <1>2, <1>3, <1>4, <1>5, <1>6

\* A compacted log holds the entries of the journal, one record each.
LEMMA CompactedFacts ==
    ASSUME mem \in Entries, Sound(mem), NEW l \in CompactedLogs, Len(l) <= MaxRecords
    PROVE  /\ Framed(l) /\ Whole(l) = Len(l)
           /\ At(l, Len(l)) = mem
           /\ Safe(l, Len(l))
<1> DEFINE kept == Recorded(mem)
           c == Cardinality(kept)
<1>1. IsFiniteSet(kept) /\ c \in Nat
    BY PhasesOf
<1>2. PICK o \in [1..c -> kept] :
         /\ \A m, n \in DOMAIN o : o[m] = o[n] => m = n
         /\ l = [n \in 1..c |-> [seq |-> n, id |-> o[n], phase |-> mem[o[n]].phase,
                                 attempts |-> mem[o[n]].attempts]]
    BY DEF CompactedLogs
<1>3. \A i \in kept : i \in Intent /\ mem[i] \in Entry
  <2> TAKE i \in kept
  <2>1. i \in Intent /\ mem[i].phase # "Absent"
      BY DEF Recorded
  <2> QED BY <2>1, PhaseFacts DEF Entries
<1>4. \A n \in 1..c : /\ l[n] \in Record /\ l[n].seq = n /\ l[n].id = o[n]
                      /\ EntryOf(l[n]) = mem[o[n]]
    BY <1>1, <1>2, <1>3 DEF Record, EntryOf, Entry
<1>5. l \in Log /\ Len(l) = c
  <2>1. \A n \in 1..c : l[n] \in Record \cup {Torn}
      BY <1>4
  <2>2. l = [n \in 1..c |-> l[n]]
      BY <1>2
  <2>3. l \in [1..c -> Record \cup {Torn}]
      BY <2>1, <2>2
  <2>4. l \in Seq(Record \cup {Torn})
      BY <1>1, <2>3
  <2> QED BY <1>1, <2>3, <2>4, LenProperties DEF Log
<1>6. Whole(l) = Len(l)
  <2>1. l # << >> => c \in 1..c
      BY <1>1, <1>5, EmptySeq DEF Log
  <2> QED BY <1>4, <1>5, <2>1, TornIsNoRecord DEF Whole
<1>7. Framed(l)
    BY <1>4, <1>5, <1>6 DEF Framed
<1>8. \A i \in kept : \E n \in 1..c : o[n] = i
  <2>1. o \in Injection(1..c, kept)
      BY <1>2 DEF Injection, IsInjective
  <2>2. IsFiniteSet(1..c) /\ Cardinality(1..c) = c
      BY <1>1, FS_Interval
  <2>3. o \in Surjection(1..c, kept)
      BY <1>1, <2>1, <2>2, FS_Injection
  <2> QED BY <2>3 DEF Surjection
<1> HIDE DEF c
<1>9. ASSUME NEW i \in Intent PROVE At(l, c)[i] = mem[i]
  <2>1. CASE i \in kept
    <3>1. PICK n \in 1..c : o[n] = i
        BY <1>8, <2>1
    <3>2. l[n].id = i /\ \A m \in 1..c : l[m].id = i => m <= n
        BY <1>1, <1>2, <1>4, <3>1
    <3>3. At(l, c)[i] = EntryOf(l[n])
        BY <1>1, <3>2, AtFacts
    <3> QED BY <1>4, <3>1, <3>3
  <2>2. CASE i \notin kept
    <3>1. \A n \in 1..c : l[n].id # i
        BY <1>2, <1>4, <2>2
    <3>2. At(l, c)[i] = Absent
        BY <1>1, <3>1, AtFacts
    <3>3. mem[i].phase = "Absent"
        BY <2>2 DEF Recorded
    <3>4. mem[i] = Absent
        BY <3>3, PhaseFacts DEF Entries, Entry
    <3> QED BY <3>2, <3>4
  <2> QED BY <2>1, <2>2
<1>10. At(l, c) = mem
  <2>1. At(l, c) = [i \in Intent |-> At(l, c)[i]] /\ mem = [i \in Intent |-> mem[i]]
      BY DEF At, Entries
  <2> QED BY <1>9, <2>1
<1>11. Safe(l, Len(l))
    BY <1>1, <1>5, <1>6, <1>7, <1>10, SafeAlone
<1> QED BY <1>5, <1>6, <1>7, <1>10, <1>11

-----------------------------------------------------------------------------
(* The inductive invariant.                                                *)

\* The file: whatever a stop leaves of it is consistent.
FileInv ==
    /\ Framed(log)
    /\ synced \in 0..Len(log)
    /\ Safe(log, synced)

\* While a rename is not durable, the new log is, and says no less than any
\* part of the replaced one that may come back.
ShadowInv ==
    /\ shadow \in [held : BOOLEAN, log : Log, synced : Nat]
    /\ shadow.held =>
          /\ synced = Len(log) /\ Whole(log) = Len(log)
          /\ Framed(shadow.log)
          /\ shadow.synced \in 0..Len(shadow.log)
          /\ Safe(shadow.log, shadow.synced)
          /\ \A k \in Kept(shadow.log, shadow.synced), i \in Intent :
                Later(At(shadow.log, k)[i], At(log, Len(log))[i])

\* The memory: sound entries, and the indexes they imply.
MemoryInv ==
    /\ mem \in Entries
    /\ Sound(mem)
    /\ resv = ReservationIndex(mem)
    /\ sigs = SignatureIndex(mem)
    /\ seq \in Nat

\* The memory holds what the whole log gives.
InStep ==
    /\ Whole(log) = Len(log)
    /\ mem = At(log, Len(log))

StepInv ==
    /\ up \in BOOLEAN /\ poisoned \in BOOLEAN
    /\ pc \in {"ready", "writing", "syncing", "renamed"}
    /\ pending \in Seq(Record)
    /\ ~up => pc = "ready" /\ ~poisoned
    /\ pc # "ready" => poisoned
    /\ up /\ ~poisoned => InStep /\ ~shadow.held /\ seq = Len(log)
    /\ pc = "writing" =>
          /\ InStep /\ ~shadow.held /\ seq = Len(log)
          /\ Distinct(pending)
          /\ Framed(log \o pending)
          /\ Whole(log \o pending) = Len(log \o pending)
          /\ Safe(log \o pending, synced)
    /\ pc = "syncing" =>
          /\ Whole(log) = Len(log) /\ ~shadow.held
          /\ seq + Len(pending) = Len(log)
          /\ Distinct(pending)
          /\ Merged = At(log, Len(log))
    /\ pc = "renamed" => InStep /\ shadow.held

IInv == FileInv /\ ShadowInv /\ MemoryInv /\ StepInv

-----------------------------------------------------------------------------
(* Every step keeps the invariant.                                         *)

\* An empty file is a safe log, and gives nothing.
LEMMA EmptyLog ==
    /\ Framed(<< >>) /\ Whole(<< >>) = 0 /\ Len(<< >>) = 0 /\ << >> \in Log
    /\ At(<< >>, 0) = [i \in Intent |-> Absent]
    /\ Safe(<< >>, 0)
    /\ NoShadow \in [held : BOOLEAN, log : Log, synced : Nat] /\ ~NoShadow.held
<1>1. << >> \in Log /\ Len(<< >>) = 0 /\ Whole(<< >>) = 0
    BY EmptySeq DEF Log, Whole
<1>2. Framed(<< >>)
    BY <1>1, JournalAssumption DEF Framed
<1>3. At(<< >>, 0) = [i \in Intent |-> Absent]
  <2>1. \A i \in Intent : At(<< >>, 0)[i] = Absent
      BY AtFacts
  <2>2. At(<< >>, 0) = [i \in Intent |-> At(<< >>, 0)[i]]
      BY DEF At
  <2> QED BY <2>1, <2>2
<1>4. Safe(<< >>, 0)
    BY <1>1, <1>2, <1>3, NothingSound, SafeAlone
<1> QED BY <1>1, <1>2, <1>3, <1>4 DEF NoShadow

\* The memory of a process that is down.
LEMMA NothingHeld ==
    ASSUME Forget
    PROVE  /\ MemoryInv' /\ pending' \in Seq(Record)
           /\ up' = FALSE /\ poisoned' = FALSE /\ pc' = "ready"
<1>1. mem' = [i \in Intent |-> Absent] /\ seq' = 0
      /\ resv' = [r \in Resource |-> NoIntent] /\ sigs' = [t \in Signature |-> NoIntent]
    BY DEF Forget
<1>2. mem' \in Entries /\ Sound(mem')
    BY <1>1, NothingSound
<1>3. resv' = ReservationIndex(mem') /\ sigs' = SignatureIndex(mem')
    BY <1>1, NothingIndexed
<1>4. pending' \in Seq(Record)
    BY EmptySeq DEF Forget
<1> QED BY <1>1, <1>2, <1>3, <1>4 DEF MemoryInv, Forget

\* An empty file, before the first Journal::open.
LEMMA StartsKept == Init => IInv
<1> SUFFICES ASSUME Init PROVE IInv
    OBVIOUS
<1>1. FileInv /\ ShadowInv
    BY EmptyLog DEF Init, FileInv, ShadowInv
<1>2. mem \in Entries /\ Sound(mem)
    BY NothingSound DEF Init
<1>3. resv = ReservationIndex(mem) /\ sigs = SignatureIndex(mem)
    BY NothingIndexed DEF Init
<1>4. MemoryInv
    BY <1>2, <1>3 DEF MemoryInv, Init
<1>5. StepInv
    BY EmptySeq DEF StepInv, Init
<1> QED BY <1>1, <1>4, <1>5 DEF IInv

\* Journal::open accepts what any stop left behind and rebuilds its entries and
\* indexes from it.
LEMMA KeepOpen ==
    ASSUME IInv, OpenJournal
    PROVE  IInv'
<1> DEFINE body == Body(log)
<1>1. Framed(log) /\ synced \in 0..Len(log) /\ Safe(log, synced)
    BY DEF IInv, FileInv
<1>2. /\ Framed(body) /\ Whole(body) = Whole(log) /\ Len(body) = Whole(log)
      /\ At(body, Whole(log)) = At(log, Whole(log)) /\ Whole(log) \in Kept(log, synced)
    BY <1>1, WholeFacts
<1>3. Len(log) \in Nat /\ Whole(log) \in 0..Len(log) /\ Whole(log) \in Nat
    BY <1>1, BodyFacts DEF Framed
<1>4. Sound(At(log, Whole(log))) /\ At(log, Whole(log)) \in Entries
  <2>1. Whole(log) \in 0..Whole(log)
      BY <1>3
  <2> QED BY <1>1, <1>2, <2>1, PartEntries DEF Safe
<1>5. /\ log' = body /\ synced' = IF body = log THEN synced ELSE Len(body)
      /\ shadow' = NoShadow /\ mem' = Replay(body) /\ seq' = Len(body)
      /\ up' = TRUE /\ poisoned' = FALSE /\ pc' = pc /\ pending' = pending /\ pc = "ready"
      /\ sigs' = SignatureIndex(mem') /\ resv' = ReservationIndex(mem')
    BY Zenon DEF OpenJournal, IInv, StepInv
<1>6. FileInv'
  <2>1. CASE body = log
      BY <1>1, <1>5, <2>1 DEF FileInv
  <2>2. CASE body # log
    <3>1. Safe(body, Len(body))
        BY <1>2, <1>3, <1>4, SafeAlone
    <3>2. Len(body) \in 0..Len(body)
        BY <1>2, <1>3
    <3> QED BY <1>2, <1>5, <2>2, <3>1, <3>2 DEF FileInv
  <2> QED BY <2>1, <2>2
<1>7. ShadowInv'
    BY <1>5, EmptyLog DEF ShadowInv
<1>8. mem' = At(log, Whole(log)) /\ mem' = At(log', Len(log'))
    BY <1>1, <1>2, <1>5, BodyFacts DEF Framed
<1>9. MemoryInv'
    BY <1>2, <1>3, <1>4, <1>5, <1>8 DEF MemoryInv
<1>10. StepInv'
    BY <1>2, <1>5, <1>7, <1>8, EmptyLog DEF StepInv, IInv, InStep
<1> QED BY <1>6, <1>7, <1>9, <1>10 DEF IInv

\* A batch is a sequence of distinct orders.
LEMMA BatchFacts ==
    ASSUME NEW ids \in Batches
    PROVE  /\ Len(ids) \in Nat /\ DOMAIN ids = 1..Len(ids)
           /\ ids \in [1..Len(ids) -> Intent]
           /\ \A n \in 1..Len(ids) : ids[n] \in Intent
           /\ \A m, n \in 1..Len(ids) : ids[m] = ids[n] => m = n
<1>1. PICK n \in 1..BatchLimit : ids \in [1..n -> Intent]
    BY DEF Batches
<1>2. n \in Nat
    BY JournalAssumption
<1>3. ids \in Seq(Intent)
    BY <1>1, <1>2
<1>4. Len(ids) = n
    BY <1>1, <1>2, <1>3, LenProperties
<1> QED BY <1>1, <1>2, <1>4 DEF Batches

\* An append of sound advances.
LEMMA KeepAppend ==
    ASSUME IInv, Ready, NEW ids \in Batches, NEW entry, BeginAppend(ids, entry),
           \A n \in DOMAIN ids :
              entry[n] \in Entry /\ Later(mem[ids[n]], entry[n]),
           \A j \in 0..Len(pending') : Sound(Added(mem, pending', j))
    PROVE  IInv'
<1> DEFINE c == Len(ids)
<1>1. /\ c \in Nat /\ DOMAIN ids = 1..c /\ ids \in [1..c -> Intent]
      /\ \A n \in 1..c : ids[n] \in Intent
      /\ \A m, n \in 1..c : ids[m] = ids[n] => m = n
    BY BatchFacts
<1>2. /\ poisoned' = TRUE /\ pc' = "writing" /\ ~poisoned /\ up /\ pc = "ready"
      /\ log' = log /\ synced' = synced /\ shadow' = shadow /\ up' = up /\ mem' = mem
      /\ sigs' = sigs /\ resv' = resv /\ seq' = seq
      /\ seq + c <= MaxRecords
    BY DEF BeginAppend, Healthy, Ready
<1>3. /\ Framed(log) /\ synced \in 0..Len(log) /\ Safe(log, synced)
      /\ Whole(log) = Len(log) /\ mem = At(log, Len(log)) /\ ~shadow.held /\ seq = Len(log)
    BY <1>2 DEF IInv, FileInv, StepInv, InStep
<1> DEFINE p == pending'
<1>4. p = [n \in 1..c |-> [seq |-> seq + n, id |-> ids[n],
                           phase |-> entry[n].phase, attempts |-> entry[n].attempts]]
    BY DEF BeginAppend
<1>5. seq \in Nat
    BY DEF IInv, MemoryInv
<1>6. \A n \in 1..c : /\ p[n] \in Record /\ p[n].seq = seq + n /\ p[n].id = ids[n]
                      /\ EntryOf(p[n]) = entry[n]
  <2> TAKE n \in 1..c
  <2>1. entry[n] \in Entry /\ ids[n] \in Intent /\ seq + n \in Nat
      BY <1>1, <1>5
  <2>2. /\ entry[n].phase \in Phase /\ entry[n].attempts \in Nat
        /\ entry[n] = [phase |-> entry[n].phase, attempts |-> entry[n].attempts]
      BY <2>1 DEF Entry
  <2>3. p[n] = [seq |-> seq + n, id |-> ids[n],
                phase |-> entry[n].phase, attempts |-> entry[n].attempts]
      BY <1>4
  <2> HIDE DEF p
  <2> QED BY <2>1, <2>2, <2>3 DEF Record, EntryOf
<1>7. p \in Seq(Record) /\ Len(p) = c
  <2>1. p = [n \in 1..c |-> p[n]]
      BY <1>4
  <2>2. p \in [1..c -> Record]
      BY <1>6, <2>1
  <2>3. p \in Seq(Record)
      BY <1>1, <2>2
  <2> QED BY <1>1, <2>2, <2>3, LenProperties
<1> HIDE DEF p
<1>8. Distinct(p)
  <2>1. DOMAIN p = 1..c
      BY <1>7, LenProperties
  <2> QED BY <1>1, <1>6, <2>1 DEF Distinct
<1>9. \A n \in 1..Len(p) : Later(At(log, Len(log))[p[n].id], EntryOf(p[n]))
    BY <1>1, <1>3, <1>6, <1>7
<1>10. \A j \in 0..Len(p) : Sound(Added(At(log, Len(log)), p, j))
    BY <1>3 DEF p
<1>11. Len(log) + Len(p) <= MaxRecords /\ \A n \in 1..Len(p) : p[n].seq = Len(log) + n
    BY <1>2, <1>3, <1>6, <1>7
<1>12. Framed(log \o p) /\ Safe(log \o p, synced) /\ Whole(log \o p) = Len(log \o p)
    BY <1>3, <1>7, <1>8, <1>9, <1>10, <1>11, AppendSafe
<1>13. FileInv' /\ ShadowInv' /\ MemoryInv'
    BY <1>2 DEF IInv, FileInv, ShadowInv, MemoryInv
<1>14. StepInv'
    BY <1>2, <1>3, <1>7, <1>8, <1>12 DEF StepInv, IInv, InStep, p
<1> QED BY <1>13, <1>14 DEF IInv

\* A batch the journal accepts is acceptable to the ledger.  (insert_batch)
LEMMA KeepInsert ==
    ASSUME IInv, NEW ids \in Batches, InsertBatch(ids)
    PROVE  IInv'
<1> DEFINE c == Len(ids)
           K == {ids[n] : n \in DOMAIN ids}
           fresh == [n \in DOMAIN ids |-> Fresh]
           Part(j) == {ids[n] : n \in 1..j}
<1>1. /\ c \in Nat /\ DOMAIN ids = 1..c /\ ids \in [1..c -> Intent]
      /\ \A n \in 1..c : ids[n] \in Intent
      /\ \A m, n \in 1..c : ids[m] = ids[n] => m = n
    BY BatchFacts
<1>2. /\ mem \in Entries /\ Sound(mem)
      /\ resv = ReservationIndex(mem) /\ sigs = SignatureIndex(mem)
      /\ Exclusive(mem) /\ SignatureUnique(mem)
    BY DEF IInv, MemoryInv, Sound
<1>3. Ready /\ BeginAppend(ids, fresh)
    BY DEF InsertBatch
<1>4. /\ Cardinality(Recorded(mem)) + c <= Capacity
      /\ \A i \in K : /\ Admissible(i, Others(mem, K, i))
                      /\ Unclaimed(i)
                      /\ \A j \in K \ {i} : SigOf[i] # SigOf[j] /\ ResOf[i] \cap ResOf[j] = {}
    BY DEF InsertBatch, Others
<1>5. K \in SUBSET Intent /\ Cardinality(K) = c
  <2>0. K \in SUBSET Intent
      BY <1>1
  <2>1. /\ \A n \in 1..c : ids[n] \in K
        /\ \A i \in K : \E n \in 1..c : ids[n] = i
      BY <1>1
  <2> HIDE DEF K
  <2>2. ids \in [1..c -> K]
      BY <1>1, <2>1
  <2>3. ids \in Bijection(1..c, K)
      BY <1>1, <2>1, <2>2 DEF Bijection, Injection, Surjection, IsInjective
  <2>4. IsFiniteSet(1..c) /\ Cardinality(1..c) = c
      BY <1>1, FS_Interval
  <2>5. Cardinality(K) = Cardinality(1..c)
    <3>1. ExistsBijection(1..c, K)
        BY <2>3 DEF ExistsBijection
    <3> QED BY <2>4, <3>1, FS_Bijection
  <2> QED BY <2>0, <2>4, <2>5
<1>6. Acceptable(mem, K)
  <2>1. ASSUME NEW i \in K
        PROVE  /\ mem[i] = Absent
               /\ \A j \in Recorded(mem) : SigOf[j] # SigOf[i]
               /\ \A j \in Intent : mem[j].phase \in Holding => ResOf[i] \cap ResOf[j] = {}
    <3>1. /\ mem[i] = Absent /\ sigs[SigOf[i]] = NoIntent
          /\ \A r \in ResOf[i] : resv[r] = NoIntent
        BY <1>4 DEF Unclaimed
    <3>2. i \in Intent /\ SigOf[i] \in Signature /\ ResOf[i] \subseteq Resource
        BY <1>5, LifecycleAssumption
    <3>3. ASSUME NEW j \in Recorded(mem), SigOf[j] = SigOf[i] PROVE FALSE
      <4>1. sigs[SigOf[i]] = j
          BY <1>2, <3>2, <3>3, SignatureFacts
      <4>2. j \in Intent
          BY DEF Recorded
      <4> QED BY <3>1, <4>1, <4>2, JournalAssumption
    <3>4. ASSUME NEW j \in Intent, mem[j].phase \in Holding, NEW r \in ResOf[i] \cap ResOf[j]
          PROVE  FALSE
      <4>1. resv[r] = j
          BY <1>2, <3>2, <3>4, ReservationFacts
      <4> QED BY <3>1, <3>4, <4>1, JournalAssumption
    <3> QED BY <3>1, <3>3, <3>4
  <2> HIDE DEF K
  <2> QED BY <1>4, <1>5, <2>1 DEF Acceptable
<1>7. \A n \in DOMAIN ids : fresh[n] \in Entry /\ Later(mem[ids[n]], fresh[n])
  <2> TAKE n \in DOMAIN ids
  <2>1. mem[ids[n]] = Absent
      BY <1>4 DEF Unclaimed
  <2> QED BY <2>1, PhaseFacts DEF Later, Absent, Fresh
<1> DEFINE p == pending'
<1>8. p = [n \in 1..c |-> [seq |-> seq + n, id |-> ids[n], phase |-> fresh[n].phase,
                           attempts |-> fresh[n].attempts]]
    BY <1>3 DEF BeginAppend
<1>9. Len(p) = c /\ \A n \in 1..c : p[n].id = ids[n] /\ EntryOf(p[n]) = Fresh
  <2>1. \A n \in 1..c : p[n].id = ids[n] /\ EntryOf(p[n]) = Fresh
      BY <1>1, <1>8 DEF EntryOf, Fresh
  <2>2. Len(p) = c
    <3>1. p = [n \in 1..c |-> p[n]]
        BY <1>8
    <3>2. p \in Seq({p[n] : n \in 1..c})
        BY <1>1, <3>1
    <3> QED BY <1>1, <1>8, <3>2, LenProperties
  <2> QED BY <2>1, <2>2
<1> HIDE DEF p
<1>10. ASSUME NEW j \in 0..Len(p) PROVE Sound(Added(mem, p, j))
  <2>1. j \in 0..c /\ 1..j \subseteq 1..c
      BY <1>1, <1>9
  <2>2. Part(j) \in SUBSET K
      BY <1>1, <2>1
  <2>3. ASSUME NEW i \in Intent PROVE Added(mem, p, j)[i] = Admitted(mem, Part(j))[i]
    <3>1. CASE i \in Part(j)
      <4>1. \E n \in 1..j : p[n].id = i
          BY <1>9, <2>1, <3>1
      <4>2. EntryOf(p[CHOOSE n \in 1..j : p[n].id = i]) = Fresh
          BY <1>9, <2>1, <4>1
      <4> HIDE DEF Part
      <4> QED BY <3>1, <4>1, <4>2 DEF Added, Admitted
    <3>2. CASE i \notin Part(j)
      <4>1. \A n \in 1..j : p[n].id # i
          BY <1>9, <2>1, <3>2
      <4> HIDE DEF Part
      <4> QED BY <3>2, <4>1 DEF Added, Admitted
    <3> QED BY <3>1, <3>2
  <2> HIDE DEF Part, K
  <2>4. Added(mem, p, j) = Admitted(mem, Part(j))
    <3>1. /\ Added(mem, p, j) = [i \in Intent |-> Added(mem, p, j)[i]]
          /\ Admitted(mem, Part(j)) = [i \in Intent |-> Admitted(mem, Part(j))[i]]
        BY DEF Added, Admitted
    <3> QED BY <2>3, <3>1
  <2> QED BY <1>2, <1>5, <1>6, <2>2, <2>4, AdmitSound
<1>11. \A j \in 0..Len(pending') : Sound(Added(mem, pending', j))
    BY <1>10 DEF p
<1> HIDE DEF fresh
<1> QED BY <1>3, <1>7, <1>11, KeepAppend

\* A batch of updates moves orders along their lifecycle.  (update_batch)
LEMMA KeepUpdate ==
    ASSUME IInv, NEW ids \in Batches, NEW update \in [DOMAIN ids -> Update],
           UpdateBatch(ids, update)
    PROVE  IInv'
<1> DEFINE c == Len(ids)
           entry == [n \in DOMAIN ids |->
                        [phase    |-> update[n].phase,
                         attempts |-> mem[ids[n]].attempts
                                        + (IF update[n].attempt THEN 1 ELSE 0)]]
           p == pending'
<1>1. /\ c \in Nat /\ DOMAIN ids = 1..c /\ ids \in [1..c -> Intent]
      /\ \A n \in 1..c : ids[n] \in Intent
      /\ \A m, n \in 1..c : ids[m] = ids[n] => m = n
    BY BatchFacts
<1>2. mem \in Entries /\ Sound(mem)
    BY DEF IInv, MemoryInv
<1>3. Ready /\ BeginAppend(ids, entry)
    BY DEF UpdateBatch
<1>4. \A n \in 1..c : Allowed(mem[ids[n]].phase, update[n].phase)
    BY <1>1 DEF UpdateBatch
<1>5. ASSUME NEW n \in 1..c
      PROVE  /\ entry[n] \in Entry /\ Later(mem[ids[n]], entry[n])
             /\ Allowed(mem[ids[n]].phase, entry[n].phase)
  <2>1. mem[ids[n]] \in Entry
      BY <1>1, <1>2, <1>4, PhaseFacts DEF Entries, Allowed, Open
  <2>2. mem[ids[n]].attempts \in Nat
      BY <2>1 DEF Entry
  <2>3. /\ entry[n].phase = update[n].phase /\ entry[n].attempts \in Nat
        /\ mem[ids[n]].attempts <= entry[n].attempts
      BY <1>1, <2>2
  <2>4. update[n].phase \in Phase
      BY <1>1 DEF Update
  <2>5. entry[n] \in Entry
      BY <1>1, <2>3, <2>4 DEF Entry
  <2> HIDE DEF entry
  <2> QED BY <1>4, <2>3, <2>5 DEF Later
<1> HIDE DEF entry
<1>6. p = [n \in 1..c |-> [seq |-> seq + n, id |-> ids[n],
                           phase |-> entry[n].phase, attempts |-> entry[n].attempts]]
    BY <1>3 DEF BeginAppend
<1>7. Len(p) = c /\ \A n \in 1..c : p[n].id = ids[n] /\ EntryOf(p[n]) = entry[n]
  <2>1. ASSUME NEW n \in 1..c PROVE p[n].id = ids[n] /\ EntryOf(p[n]) = entry[n]
    <3>1. entry[n] = [phase |-> entry[n].phase, attempts |-> entry[n].attempts]
        BY <1>5 DEF Entry
    <3> QED BY <1>6, <3>1 DEF EntryOf
  <2>2. Len(p) = c
    <3>1. p = [n \in 1..c |-> p[n]]
        BY <1>6
    <3>2. p \in Seq({p[n] : n \in 1..c})
        BY <1>1, <3>1
    <3> QED BY <1>1, <1>6, <3>2, LenProperties
  <2> QED BY <2>1, <2>2
<1> HIDE DEF p
<1>8. ASSUME NEW j \in 0..Len(p) PROVE Sound(Added(mem, p, j))
  <2> DEFINE G == Added(mem, p, j)
  <2>1. \A n \in 1..j : n \in 1..c
      BY <1>1, <1>7
  <2>2. ASSUME NEW i \in Intent
        PROVE  /\ G[i] \in Entry \cup {Absent}
               /\ G[i] = mem[i] \/ Allowed(mem[i].phase, G[i].phase)
    <3>1. CASE \A n \in 1..j : p[n].id # i
        BY <1>2, <3>1, NotAdded DEF Entries
    <3>2. CASE \E n \in 1..j : p[n].id = i
      <4> DEFINE n == CHOOSE x \in 1..j : p[x].id = i
      <4>1. n \in 1..j /\ p[n].id = i
          BY <3>2
      <4>2. G[i] = EntryOf(p[n])
          BY <3>2 DEF Added
      <4> HIDE DEF n
      <4>3. n \in 1..c /\ G[i] = entry[n] /\ i = ids[n]
          BY <1>7, <2>1, <4>1, <4>2
      <4> QED BY <1>5, <4>3
    <3> QED BY <3>1, <3>2
  <2>3. G \in Entries
    <3>1. G = [i \in Intent |-> G[i]]
        BY DEF Added
    <3> QED BY <2>2, <3>1 DEF Entries
  <2> QED BY <1>2, <2>2, <2>3, MoveSound
<1>9. \A j \in 0..Len(pending') : Sound(Added(mem, pending', j))
    BY <1>8 DEF p
<1> QED BY <1>1, <1>3, <1>5, <1>9, KeepAppend

\* What the pending records make of the entries.
LEMMA MergedIsAdded ==
    ASSUME pending \in Seq(Record)
    PROVE  Merged = Added(mem, pending, Len(pending))
<1>1. DOMAIN pending = 1..Len(pending)
    BY LenProperties
<1> QED BY <1>1, Zenon DEF Merged, Added

\* The records of a batch that were written whole extend the file, not the entries.
LEMMA KeepWrite ==
    ASSUME IInv, WriteRecords
    PROVE  IInv'
<1>1. /\ pc = "writing" /\ log' = log \o pending /\ pc' = "syncing"
      /\ UNCHANGED <<synced, shadow, up, pending, mem, sigs, resv, seq, poisoned>>
    BY DEF WriteRecords
<1>2. /\ Framed(log) /\ synced \in 0..Len(log) /\ Whole(log) = Len(log)
      /\ mem = At(log, Len(log)) /\ ~shadow.held /\ seq = Len(log)
      /\ pending \in Seq(Record) /\ Distinct(pending)
      /\ Framed(log \o pending) /\ Safe(log \o pending, synced)
      /\ Whole(log \o pending) = Len(log \o pending)
    BY <1>1 DEF IInv, FileInv, StepInv, InStep
<1>3. Len(log') = Len(log) + Len(pending) /\ Len(log) \in Nat /\ Len(pending) \in Nat
  <2>1. log \in Seq(Record \cup {Torn}) /\ pending \in Seq(Record \cup {Torn})
      BY <1>2, SeqMonotonic DEF Framed, Log
  <2> QED BY <1>1, <2>1, ConcatProperties, LenProperties
<1>4. FileInv'
    BY <1>1, <1>2, <1>3 DEF FileInv
<1>5. ShadowInv' /\ MemoryInv'
    BY <1>1, <1>2 DEF IInv, ShadowInv, MemoryInv
<1>6. Merged' = At(log', Len(log'))
  <2>1. Merged' = Merged
      BY <1>1 DEF Merged
  <2>2. Merged = Added(mem, pending, Len(pending))
      BY <1>2, MergedIsAdded
  <2>3. Len(pending) \in 0..Len(pending)
      BY <1>3
  <2>4. At(log \o pending, Len(log) + Len(pending))
          = Added(At(log, Len(log)), pending, Len(pending))
      BY <1>2, <2>3, AppendAt
  <2> QED BY <1>1, <1>2, <1>3, <2>1, <2>2, <2>4
<1>7. StepInv'
    BY <1>1, <1>2, <1>3, <1>6 DEF IInv, StepInv
<1> QED BY <1>4, <1>5, <1>7 DEF IInv

\* A failed write leaves a part of the batch behind; the journal is poisoned.
LEMMA KeepWriteFails ==
    ASSUME IInv, WriteFails
    PROVE  IInv'
<1> DEFINE h == log \o pending
<1>1. /\ pc = "writing" /\ log' \in Remains(h, Len(log)) /\ pc' = "ready" /\ pending' = << >>
      /\ UNCHANGED <<synced, shadow, up, mem, sigs, resv, seq, poisoned>>
    BY DEF WriteFails
<1>2. /\ Framed(log) /\ synced \in 0..Len(log) /\ ~shadow.held
      /\ pending \in Seq(Record) /\ poisoned
      /\ Framed(h) /\ Safe(h, synced)
    BY <1>1 DEF IInv, FileInv, StepInv, InStep
<1>3. Len(h) = Len(log) + Len(pending) /\ Len(log) \in Nat /\ Len(pending) \in Nat
  <2>1. log \in Seq(Record \cup {Torn}) /\ pending \in Seq(Record \cup {Torn})
      BY <1>2, SeqMonotonic DEF Framed, Log
  <2> QED BY <2>1, ConcatProperties, LenProperties
<1> HIDE DEF h
<1>4. /\ Framed(log') /\ Len(log') \in Len(log)..Len(h) /\ Whole(log') \in Kept(h, Len(log))
      /\ \A n \in 1..Whole(log') : log'[n] = h[n]
  <2>1. Len(log) \in 0..Len(h)
      BY <1>3
  <2> QED BY <1>1, <1>2, <2>1, RemainsFacts
<1>5. Whole(log') \in Kept(h, synced)
    BY <1>2, <1>3, <1>4 DEF Kept
<1>6. Safe(log', synced)
    BY <1>2, <1>4, <1>5, SafeShrinks
<1>7. FileInv'
    BY <1>1, <1>2, <1>3, <1>4, <1>6 DEF FileInv
<1>8. ShadowInv' /\ MemoryInv'
    BY <1>1, <1>2 DEF IInv, ShadowInv, MemoryInv
<1>9. StepInv'
    BY <1>1, <1>2, EmptySeq DEF IInv, StepInv
<1> QED BY <1>7, <1>8, <1>9 DEF IInv

\* The entries once an append is merged, and that they are sound.
LEMMA MergedFacts ==
    ASSUME IInv, pc = "syncing"
    PROVE  /\ Merged \in Entries /\ Sound(Merged)
           /\ Merged = At(log, Len(log)) /\ Whole(log) = Len(log)
           /\ Safe(log, Len(log))
<1>1. /\ Framed(log) /\ synced \in 0..Len(log) /\ Whole(log) = Len(log) /\ Safe(log, synced)
      /\ Merged = At(log, Len(log))
    BY DEF IInv, FileInv, StepInv
<1>2. Len(log) \in Nat /\ Len(log) \in Kept(log, synced) /\ Len(log) \in 0..Whole(log)
  <2>1. Len(log) \in Nat
      BY <1>1, BodyFacts DEF Framed
  <2> QED BY <1>1, <2>1, WholeFacts
<1>3. Sound(Merged) /\ Merged \in Entries
    BY <1>1, <1>2, PartEntries DEF Safe
<1>4. Safe(log, Len(log))
    BY <1>1, <1>2, <1>3, SafeAlone
<1> QED BY <1>1, <1>3, <1>4

\* A flush makes the batch durable and only then part of the entries.
LEMMA KeepSync ==
    ASSUME IInv, SyncRecords
    PROVE  IInv'
<1> DEFINE ids == {pending[n].id : n \in DOMAIN pending}
<1>1. /\ pc = "syncing" /\ synced' = Len(log) /\ poisoned' = FALSE /\ mem' = Merged
      /\ seq' = seq + Len(pending) /\ pc' = "ready" /\ pending' = << >>
      /\ UNCHANGED <<log, shadow, up>>
    BY DEF SyncRecords, Flushed
<1>2. /\ sigs' = SignaturesAfter(sigs, ids)
      /\ resv' = ReservationsAfter(resv, Merged, ids)
    BY <1>1, Zenon DEF SyncRecords, SignaturesAfter, ReservationsAfter
<1>3. /\ Framed(log) /\ synced \in 0..Len(log) /\ Whole(log) = Len(log) /\ ~shadow.held
      /\ seq + Len(pending) = Len(log) /\ pending \in Seq(Record) /\ up
      /\ mem \in Entries /\ Sound(mem)
      /\ resv = ReservationIndex(mem) /\ sigs = SignatureIndex(mem)
    BY <1>1 DEF IInv, FileInv, StepInv, MemoryInv
<1>4. /\ Merged \in Entries /\ Sound(Merged) /\ Merged = At(log, Len(log))
      /\ Safe(log, Len(log))
    BY <1>1, MergedFacts
<1>5. Len(log) \in Nat
    BY <1>3, BodyFacts DEF Framed
<1>6. FileInv'
    BY <1>1, <1>3, <1>4, <1>5 DEF FileInv
<1>7. ShadowInv'
    BY <1>1, <1>3 DEF IInv, ShadowInv
<1>8. /\ ids \in SUBSET Intent
      /\ \A i \in Intent \ ids : Merged[i] = mem[i]
      /\ \A i \in ids : Merged[i].phase \in Phase
  <2>1. \A n \in DOMAIN pending : pending[n] \in Record
      BY <1>3, LenProperties, ElementOfSeq
  <2>2. ids \in SUBSET Intent
      BY <2>1 DEF Record
  <2>3. \A i \in Intent \ ids : Merged[i] = mem[i]
      BY DEF Merged
  <2>4. ASSUME NEW i \in ids PROVE Merged[i].phase \in Phase
    <3> DEFINE n == CHOOSE x \in DOMAIN pending : pending[x].id = i
    <3>1. n \in DOMAIN pending
        OBVIOUS
    <3>2. Merged[i] = EntryOf(pending[n])
        BY <2>2 DEF Merged
    <3> QED BY <2>1, <3>1, <3>2 DEF EntryOf, Record
  <2> QED BY <2>2, <2>3, <2>4
<1> HIDE DEF ids
<1>9. resv' = ReservationIndex(Merged) /\ sigs' = SignatureIndex(Merged)
  <2>1. /\ ReservationIndex(Merged) = ReservationsAfter(ReservationIndex(mem), Merged, ids)
        /\ SignatureIndex(Merged) = SignaturesAfter(SignatureIndex(mem), ids)
      BY <1>3, <1>4, <1>8, IndexesFollow
  <2> QED BY <1>2, <1>3, <2>1, Zenon
<1>10. MemoryInv'
    BY <1>1, <1>3, <1>4, <1>5, <1>9 DEF MemoryInv
<1>11. StepInv'
    BY <1>1, <1>3, <1>4, EmptySeq DEF IInv, StepInv, InStep
<1> QED BY <1>6, <1>7, <1>10, <1>11 DEF IInv

\* The compacted file, complete and synced, takes the path; until the directory is
\* synced a power loss may bring the old one back.
LEMMA KeepCompact ==
    ASSUME IInv, CompactRename
    PROVE  IInv'
<1>1. /\ up /\ pc = "ready" /\ ~poisoned /\ log' \in CompactedLogs /\ Len(log') <= MaxRecords
      /\ synced' = Len(log') /\ shadow' = [held |-> TRUE, log |-> log, synced |-> synced]
      /\ poisoned' = TRUE /\ pc' = "renamed"
      /\ UNCHANGED <<up, pending, mem, sigs, resv, seq>>
    BY DEF CompactRename, Ready, Healthy
<1>2. /\ Framed(log) /\ synced \in 0..Len(log) /\ Safe(log, synced)
      /\ Whole(log) = Len(log) /\ mem = At(log, Len(log))
      /\ mem \in Entries /\ Sound(mem)
    BY <1>1 DEF IInv, FileInv, StepInv, InStep, MemoryInv
<1>3. /\ Framed(log') /\ Whole(log') = Len(log') /\ At(log', Len(log')) = mem
      /\ Safe(log', Len(log'))
    BY <1>1, <1>2, CompactedFacts
<1>4. Len(log') \in Nat /\ Len(log) \in Nat
    BY <1>2, <1>3, BodyFacts DEF Framed
<1>5. FileInv'
    BY <1>1, <1>3, <1>4 DEF FileInv
<1>6. \A k \in Kept(log, synced), i \in Intent : Later(At(log, k)[i], mem[i])
  <2> TAKE k \in Kept(log, synced), i \in Intent
  <2>1. Len(log) \in Kept(log, synced) /\ k <= Len(log)
      BY <1>2, <1>4, WholeFacts DEF Kept
  <2> QED BY <1>2, <2>1 DEF Safe
<1>7. ShadowInv'
  <2>1. shadow' \in [held : BOOLEAN, log : Log, synced : Nat]
      BY <1>1, <1>2, <1>4 DEF Framed
  <2>2. shadow'.log = log /\ shadow'.synced = synced /\ shadow'.held
      BY <1>1
  <2> QED BY <1>1, <1>2, <1>3, <1>6, <2>1, <2>2 DEF ShadowInv
<1>8. MemoryInv' /\ StepInv'
    BY <1>1, <1>3 DEF IInv, MemoryInv, StepInv, InStep
<1> QED BY <1>5, <1>7, <1>8 DEF IInv

\* Once the directory is synced the compacted file is the only one.
LEMMA KeepCompactDone ==
    ASSUME IInv, CompactDone
    PROVE  IInv'
<1>1. /\ pc = "renamed" /\ shadow' = NoShadow /\ seq' = Len(log) /\ poisoned' = FALSE
      /\ pc' = "ready" /\ UNCHANGED <<log, synced, up, pending, mem, sigs, resv>>
    BY DEF CompactDone, SizeOfCompacted
<1>2. Len(log) \in Nat
    BY BodyFacts DEF IInv, FileInv, Framed
<1> QED BY <1>1, <1>2, EmptyLog DEF IInv, FileInv, ShadowInv, MemoryInv, StepInv, InStep

\* A step that fails leaves file and memory, and the journal poisoned.
LEMMA KeepFailure ==
    ASSUME IInv, SyncFails \/ RenameFails \/ DirectorySyncFails
    PROVE  IInv'
<1>1. /\ UNCHANGED <<log, synced, shadow, up, mem, sigs, resv, seq>>
      /\ poisoned' /\ poisoned' = TRUE /\ pc' = "ready" /\ pending' \in Seq(Record)
    BY EmptySeq DEF SyncFails, RenameFails, DirectorySyncFails, Ready, IInv, StepInv
<1>2. up
    BY DEF SyncFails, RenameFails, DirectorySyncFails, Ready, IInv, StepInv
<1> QED BY <1>1, <1>2 DEF IInv, FileInv, ShadowInv, MemoryInv, StepInv

\* A stop of the process forgets the memory and keeps the file.
LEMMA KeepStop ==
    ASSUME IInv, ProcessStops
    PROVE  IInv'
<1>1. UNCHANGED <<log, synced, shadow>> /\ Forget
    BY DEF ProcessStops, files
<1> QED BY <1>1, NothingHeld DEF IInv, FileInv, ShadowInv, StepInv

\* A power loss keeps what was synced and any part of the rest, of either file
\* while a rename is not durable.
LEMMA KeepPowerLoss ==
    ASSUME IInv, PowerLoss
    PROVE  IInv'
<1>1. synced' = Len(log') /\ shadow' = NoShadow /\ Forget
    BY DEF PowerLoss
<1>2. \E l, s : /\ Framed(l) /\ s \in 0..Len(l) /\ Safe(l, s) /\ log' \in Remains(l, s)
  <2>1. CASE log' \in Remains(log, synced)
      BY <2>1 DEF IInv, FileInv
  <2>2. CASE shadow.held /\ log' \in Remains(shadow.log, shadow.synced)
      BY <2>2 DEF IInv, ShadowInv
  <2> QED BY <2>1, <2>2 DEF PowerLoss
<1>3. PICK l, s : /\ Framed(l) /\ s \in 0..Len(l) /\ Safe(l, s) /\ log' \in Remains(l, s)
    BY <1>2
<1>4. /\ Framed(log') /\ Len(log') \in s..Len(l) /\ Whole(log') \in Kept(l, s)
      /\ \A n \in 1..Whole(log') : log'[n] = l[n]
    BY <1>3, RemainsFacts
<1>5. Len(log') \in Nat
    BY <1>4, BodyFacts DEF Framed
<1>6. Safe(log', Len(log'))
  <2>1. s \in Nat /\ s <= Len(log')
      BY <1>3, <1>4
  <2> QED BY <1>3, <1>4, <1>5, <2>1, SafeShrinks
<1>7. FileInv' /\ ShadowInv'
    BY <1>1, <1>4, <1>5, <1>6, EmptyLog DEF FileInv, ShadowInv
<1> QED BY <1>1, <1>7, NothingHeld DEF IInv, StepInv

\* Every step of the journal keeps the invariant.
LEMMA KeepNext ==
    ASSUME IInv, [Next]_vars
    PROVE  IInv'
<1>1. CASE UNCHANGED vars
    BY <1>1 DEF vars, IInv, FileInv, ShadowInv, MemoryInv, StepInv, InStep, Merged
<1>2. CASE Next
    BY <1>2, KeepOpen, KeepInsert, KeepUpdate, KeepWrite, KeepWriteFails, KeepSync, KeepCompact,
       KeepCompactDone, KeepFailure, KeepStop, KeepPowerLoss DEF Next
<1> QED BY <1>1, <1>2

\* The invariant of the journal: at every instant what the file, and the log a
\* rename replaced, can be cut down to is sound and only ever advances, and a
\* healthy process holds what the file says.  (journal.rs)
THEOREM JournalInvariant == Spec => []IInv
<1>1. Init => IInv
    BY StartsKept
<1>2. IInv /\ [Next]_vars => IInv'
    BY KeepNext
<1> QED BY <1>1, <1>2, PTL DEF Spec

-----------------------------------------------------------------------------
(* What the invariant gives.                                               *)

\* Every variable of the journal and of its file keeps its type.  (journal.rs)
THEOREM JournalTypes == Spec => []TypeOK
<1>1. IInv => TypeOK
  <2> SUFFICES ASSUME IInv PROVE TypeOK
      OBVIOUS
  <2>1. log \in Log /\ synced \in Nat
      BY BodyFacts DEF IInv, FileInv, Framed
  <2>2. shadow \in [held : BOOLEAN, log : Log, synced : Nat] /\ mem \in Entries /\ seq \in Nat
      BY DEF IInv, ShadowInv, MemoryInv
  <2>3. ASSUME NEW s \in Signature PROVE SignatureIndex(mem)[s] \in Intent \cup {NoIntent}
      BY DEF SignatureIndex, Recorded
  <2>4. ASSUME NEW r \in Resource PROVE ReservationIndex(mem)[r] \in Intent \cup {NoIntent}
      BY DEF ReservationIndex
  <2>5. /\ SignatureIndex(mem) = [s \in Signature |-> SignatureIndex(mem)[s]]
        /\ ReservationIndex(mem) = [r \in Resource |-> ReservationIndex(mem)[r]]
      BY DEF SignatureIndex, ReservationIndex
  <2>6. /\ sigs \in [Signature -> Intent \cup {NoIntent}]
        /\ resv \in [Resource -> Intent \cup {NoIntent}]
    <3>1. SignatureIndex(mem) \in [Signature -> Intent \cup {NoIntent}]
        BY <2>3, <2>5
    <3>2. ReservationIndex(mem) \in [Resource -> Intent \cup {NoIntent}]
        BY <2>4, <2>5
    <3> QED BY <3>1, <3>2 DEF IInv, MemoryInv
  <2>7. /\ up \in BOOLEAN /\ poisoned \in BOOLEAN /\ pending \in Seq(Record)
        /\ pc \in {"ready", "writing", "syncing", "renamed"}
      BY DEF IInv, StepInv
  <2> QED BY <2>1, <2>2, <2>6, <2>7 DEF TypeOK
<1> QED BY <1>1, JournalInvariant, PTL

\* While a process owns the journal, its indexes are those its entries imply:
\* they never let through an order that competes with a recorded one, and never
\* hold back one that does not.  (append_batch against open)
THEOREM IndexesAreExact == Spec => []IndexesExact
<1>1. IInv => IndexesExact
    BY DEF IInv, MemoryInv, IndexesExact
<1> QED BY <1>1, JournalInvariant, PTL

\* What a stop leaves at any instant is a framed log of sound entries.
LEMMA ImageFacts ==
    ASSUME IInv, NEW img \in CrashImages
    PROVE  Framed(img) /\ Sound(At(img, Whole(img)))
<1>1. ASSUME NEW l, Framed(l), NEW s \in 0..Len(l), Safe(l, s), img \in Remains(l, s)
      PROVE  Framed(img) /\ Sound(At(img, Whole(img)))
  <2>1. /\ Framed(img) /\ Whole(img) \in Kept(l, s) /\ \A n \in 1..Whole(img) : img[n] = l[n]
      BY <1>1, RemainsFacts
  <2>2. s \in Nat /\ s <= s
      BY <1>1, BodyFacts DEF Framed
  <2> QED BY <1>1, <2>1, <2>2, SafeShrinks
<1>2. Framed(log) /\ synced \in 0..Len(log) /\ Safe(log, synced) /\ Len(log) \in Nat
    BY BodyFacts DEF IInv, FileInv, Framed
<1>3. CASE img = log
    BY <1>2, <1>3, WholeFacts DEF Safe
<1>4. CASE img \in Remains(log, synced)
    BY <1>1, <1>2, <1>4
<1>5. CASE shadow.held /\ img \in Remains(shadow.log, shadow.synced)
    BY <1>1, <1>5 DEF IInv, ShadowInv
<1>6. CASE pc = "writing" /\ img \in Remains(log \o pending, Len(log))
  <2> DEFINE h == log \o pending
  <2>1. /\ Framed(h) /\ Safe(h, synced) /\ pending \in Seq(Record)
      BY <1>6 DEF IInv, StepInv
  <2>2. Len(h) = Len(log) + Len(pending) /\ Len(pending) \in Nat
    <3>1. log \in Seq(Record \cup {Torn}) /\ pending \in Seq(Record \cup {Torn})
        BY <1>2, <2>1, SeqMonotonic DEF Framed, Log
    <3> QED BY <3>1, ConcatProperties, LenProperties
  <2> HIDE DEF h
  <2>3. Safe(h, Len(log))
    <3>1. synced \in Nat /\ synced <= Len(log) /\ Whole(h) \in Kept(h, synced)
        BY <1>2, <2>1, WholeFacts
    <3> QED BY <1>2, <2>1, <3>1, SafeShrinks
  <2>4. Len(log) \in 0..Len(h)
      BY <1>2, <2>2
  <2> QED BY <1>1, <1>6, <2>1, <2>3, <2>4 DEF h
<1> QED BY <1>3, <1>4, <1>5, <1>6 DEF CrashImages

\* A stop at any instant, of the process or of the machine, leaves a file that
\* open accepts.  (append_batch, compact, open)
THEOREM CrashRecovers == Spec => []CrashImagesOpen
<1>1. IInv => CrashImagesOpen
    BY ImageFacts, SoundOpens DEF CrashImagesOpen
<1> QED BY <1>1, JournalInvariant, PTL

\* After a stop at any instant the recorded orders of a plan buy no stock
\* twice and leave none out.  (investment.rs under the journal's failures)
THEOREM BoughtOnce == Spec => []NoDoublePurchase
<1>1. IInv => NoDoublePurchase
  <2> SUFFICES ASSUME IInv, NEW img \in CrashImages, NEW p \in Plan
               PROVE  LET phase == PhaseOf(Replay(Body(img)))
                      IN  /\ \A i, j \in Live(p, phase) :
                                i # j => StocksIn(RangeOf(TrancheOf[i]))
                                           \cap StocksIn(RangeOf(TrancheOf[j])) = {}
                          /\ Bought(p, phase) = 0 .. Cardinality(Bought(p, phase)) - 1
      BY DEF NoDoublePurchase
  <2> DEFINE E == Replay(Body(img))
  <2>1. Framed(img) /\ Sound(At(img, Whole(img)))
      BY ImageFacts
  <2>2. E = At(img, Whole(img)) /\ Whole(img) \in 0..Whole(img)
      BY <2>1, BodyFacts DEF Framed
  <2>3. E \in Entries /\ Sound(E)
      BY <2>1, <2>2, PartEntries
  <2> HIDE DEF E
  <2>4. PhaseOf(E) \in PhaseMap /\ Coherent(p, PhaseOf(E))
      BY <2>3, PhasesOf DEF Sound, PlansCoherent
  <2>5. /\ \A i, j \in Live(p, PhaseOf(E)) :
              i # j => StocksIn(RangeOf(TrancheOf[i]))
                         \cap StocksIn(RangeOf(TrancheOf[j])) = {}
        /\ Bought(p, PhaseOf(E)) = 0 .. Cardinality(Bought(p, PhaseOf(E))) - 1
      BY <2>4, ChainBuysOnce
  <2> QED BY <2>5 DEF E
<1> QED BY <1>1, JournalInvariant, PTL

-----------------------------------------------------------------------------
(* The durable ledger.                                                     *)

\* The entries out of a power loss's reach are those of the shortest log that
\* one may leave.
LEMMA DurableIsSound ==
    ASSUME IInv'
    PROVE  DurableEntries' \in Entries /\ Sound(DurableEntries')
<1>1. ASSUME NEW l, Framed(l), NEW s \in 0..Len(l), Safe(l, s)
      PROVE  LET D == Replay(Body(SubSeq(l, 1, s))) IN D \in Entries /\ Sound(D)
  <2>1. PICK k \in Kept(l, s) : Replay(Body(SubSeq(l, 1, s))) = At(l, k)
      BY <1>1, DurableFacts
  <2>2. k \in 0..Whole(l)
      BY DEF Kept
  <2> QED BY <1>1, <2>1, <2>2, PartEntries DEF Safe
<1>2. CASE shadow'.held
    BY <1>1, <1>2 DEF IInv, ShadowInv, DurableEntries
<1>3. CASE ~shadow'.held
    BY <1>1, <1>3 DEF IInv, FileInv, DurableEntries
<1> QED BY <1>2, <1>3

\* Whatever a power loss may leave now is later than what is durable now.
LEMMA DurableIsLeast ==
    ASSUME IInv
    PROVE  /\ ~shadow.held =>
                \A k \in Kept(log, synced), i \in Intent :
                    Later(DurableEntries[i], At(log, k)[i])
           /\ shadow.held =>
                /\ \A k \in Kept(shadow.log, shadow.synced), i \in Intent :
                      Later(DurableEntries[i], At(shadow.log, k)[i])
                /\ \A i \in Intent : Later(DurableEntries[i], At(log, Len(log))[i])
<1>1. ASSUME NEW l, Framed(l), NEW s \in 0..Len(l), Safe(l, s)
      PROVE  \E m \in Kept(l, s) :
                /\ Replay(Body(SubSeq(l, 1, s))) = At(l, m)
                /\ \A k \in Kept(l, s), i \in Intent : Later(At(l, m)[i], At(l, k)[i])
  <2>1. PICK m \in Kept(l, s) : /\ Replay(Body(SubSeq(l, 1, s))) = At(l, m)
                                /\ \A k \in Kept(l, s) : m <= k
      BY <1>1, DurableFacts
  <2> QED BY <1>1, <2>1 DEF Safe
<1>2. ASSUME ~shadow.held
      PROVE  \A k \in Kept(log, synced), i \in Intent : Later(DurableEntries[i], At(log, k)[i])
    BY <1>1, <1>2 DEF IInv, FileInv, DurableEntries
<1>3. ASSUME shadow.held
      PROVE  /\ \A k \in Kept(shadow.log, shadow.synced), i \in Intent :
                   Later(DurableEntries[i], At(shadow.log, k)[i])
             /\ \A i \in Intent : Later(DurableEntries[i], At(log, Len(log))[i])
  <2>1. PICK m \in Kept(shadow.log, shadow.synced) :
               /\ DurableEntries = At(shadow.log, m)
               /\ \A k \in Kept(shadow.log, shadow.synced), i \in Intent :
                     Later(At(shadow.log, m)[i], At(shadow.log, k)[i])
      BY <1>1, <1>3 DEF IInv, ShadowInv, DurableEntries
  <2>2. \A i \in Intent : Later(At(shadow.log, m)[i], At(log, Len(log))[i])
      BY <1>3 DEF IInv, ShadowInv
  <2> QED BY <2>1, <2>2
<1> QED BY <1>2, <1>3

\* A fully synced file is durable whole.
LEMMA DurableWhole ==
    ASSUME IInv, ~shadow.held, synced = Len(log)
    PROVE  DurableEntries = At(log, Whole(log))
BY WholeFacts DEF IInv, FileInv, DurableEntries

\* The same once a step is taken.
LEMMA DurableWholeNext ==
    ASSUME IInv', ~shadow'.held, synced' = Len(log')
    PROVE  DurableEntries' = At(log', Whole(log'))
BY WholeFacts DEF IInv, FileInv, DurableEntries

\* Bytes written behind the durable part leave it alone.
LEMMA DurableSame ==
    ASSUME IInv, IInv', ~shadow.held, ~shadow'.held, synced' = synced, Whole(log) = Len(log),
           Len(log) <= Len(log'), Whole(log') >= Len(log),
           \A n \in 1..Len(log) : log'[n] = log[n]
    PROVE  DurableEntries' = DurableEntries
<1>1. /\ Framed(log) /\ synced \in 0..Len(log) /\ Framed(log') /\ synced \in 0..Len(log')
      /\ Len(log) \in Nat /\ Len(log') \in Nat /\ Whole(log') \in Nat
    BY BodyFacts DEF IInv, FileInv, Framed
<1>2. PICK k \in Kept(log, synced) :
         /\ DurableEntries = At(log, k)
         /\ \A m \in Kept(log, synced) : k <= m
    BY <1>1, DurableFacts DEF DurableEntries
<1>3. PICK j \in Kept(log', synced) :
         /\ DurableEntries' = At(log', j)
         /\ \A m \in Kept(log', synced) : j <= m
    BY <1>1, DurableFacts DEF DurableEntries
<1>4. synced \in Kept(log, synced) /\ synced \in Kept(log', synced)
    BY <1>1 DEF Kept
<1>5. k = synced /\ j = synced
    BY <1>1, <1>2, <1>3, <1>4 DEF Kept
<1>6. At(log', synced) = At(log, synced)
    BY <1>1, AtSame
<1> QED BY <1>2, <1>3, <1>5, <1>6

\* The durable ledger means by its consistency what the lemmas mean by it.
LEMMA SameConsistency ==
    ASSUME NEW E, Sound(E)
    PROVE  Durable!Consistent(E)
BY Zenon
   DEF Sound, Exclusive, Holding, Phase, Terminal, SignatureUnique, Recorded, PlansCoherent,
       PhaseOf, Coherent, Live, ValidRange, RangeOf, Ranges, GroupSize, Fixed, MaxAtomicStocks,
       Cardinality, IsFiniteSet,
       Durable!Consistent, Durable!Exclusive, Durable!Holding, Durable!Phase,
       Durable!Terminal, Durable!SignatureUnique, Durable!Recorded, Durable!PlansCoherent,
       Durable!PhaseOf, Durable!Coherent, Durable!Live, Durable!ValidRange, Durable!RangeOf,
       Durable!Ranges, Durable!GroupSize, Durable!Fixed, Durable!MaxAtomicStocks,
       Durable!Cardinality, Durable!IsFiniteSet

\* Every step leaves the durable entries later than they were.
LEMMA DurableAdvances ==
    ASSUME IInv, IInv', [Next]_vars
    PROVE  \A i \in Intent : Later(DurableEntries[i], DurableEntries'[i])
<1> DEFINE Same == DurableEntries' = DurableEntries
<1>0. /\ Framed(log) /\ synced \in 0..Len(log) /\ Len(log) \in Nat /\ Whole(log) \in 0..Len(log)
      /\ Framed(log') /\ Len(log') \in Nat
    BY BodyFacts DEF IInv, FileInv, Framed
<1>1. Same => \A i \in Intent : Later(DurableEntries[i], DurableEntries'[i])
    BY DEF Later
<1> SUFFICES ASSUME ~Same PROVE \A i \in Intent : Later(DurableEntries[i], DurableEntries'[i])
    BY <1>1
\* The file is left alone.
<1>2. ASSUME UNCHANGED <<log, synced, shadow>> PROVE FALSE
    BY <1>2 DEF DurableEntries
<1>3. CASE UNCHANGED vars
    BY <1>2, <1>3 DEF vars
<1>4. CASE OpenJournal
  <2>1. /\ log' = Body(log) /\ synced' = (IF Body(log) = log THEN synced ELSE Len(Body(log)))
        /\ shadow' = NoShadow
      BY <1>4 DEF OpenJournal
  <2>2. ~shadow'.held
      BY <2>1, EmptyLog
  <2>3. CASE shadow.held
    <3>1. synced = Len(log) /\ Whole(log) = Len(log)
        BY <2>3 DEF IInv, ShadowInv
    <3>2. Body(log) = log
        BY <1>0, <3>1, BodyFacts DEF Framed
    <3>3. DurableEntries' = At(log, Len(log))
        BY <2>1, <2>2, <3>1, <3>2, DurableWholeNext
    <3> QED BY <2>3, <3>3, DurableIsLeast
  <2>4. CASE ~shadow.held /\ Body(log) = log
      BY <2>1, <2>2, <2>4 DEF DurableEntries
  <2>5. CASE ~shadow.held /\ Body(log) # log
    <3>1. DurableEntries' = At(log, Whole(log))
        BY <1>0, <2>1, <2>2, <2>5, DurableWholeNext, WholeFacts
    <3> QED BY <1>0, <2>5, <3>1, DurableIsLeast, WholeFacts
  <2> QED BY <2>3, <2>4, <2>5
<1>5. CASE \E ids \in Batches : InsertBatch(ids)
    BY <1>2, <1>5 DEF InsertBatch, BeginAppend
<1>6. CASE \E ids \in Batches : \E update \in [DOMAIN ids -> Update] : UpdateBatch(ids, update)
    BY <1>2, <1>6 DEF UpdateBatch, BeginAppend
<1>7. CASE WriteRecords \/ WriteFails
  <2> DEFINE h == log \o pending
  <2>1. /\ pc = "writing" /\ synced' = synced /\ shadow' = shadow
        /\ log' = h \/ log' \in Remains(h, Len(log))
      BY <1>7 DEF WriteRecords, WriteFails
  <2>2. /\ ~shadow.held /\ Whole(log) = Len(log) /\ Framed(h) /\ pending \in Seq(Record)
        /\ Whole(h) = Len(h)
      BY <2>1 DEF IInv, StepInv, InStep
  <2>3. /\ Len(h) = Len(log) + Len(pending) /\ Len(pending) \in Nat
        /\ \A n \in 1..Len(log) : h[n] = log[n]
    <3>1. log \in Seq(Record \cup {Torn}) /\ pending \in Seq(Record \cup {Torn})
        BY <1>0, <2>2, SeqMonotonic DEF Framed, Log
    <3>2. /\ Len(h) = Len(log) + Len(pending) /\ Len(pending) \in Nat
          /\ \A n \in 1..Len(log) + Len(pending) :
                h[n] = IF n <= Len(log) THEN log[n] ELSE pending[n - Len(log)]
        BY <3>1, ConcatProperties, LenProperties
    <3> QED BY <1>0, <3>2
  <2> HIDE DEF h
  <2>4. CASE log' = h
      BY <1>0, <2>1, <2>2, <2>3, <2>4, DurableSame
  <2>5. CASE log' \in Remains(h, Len(log))
    <3>1. /\ Len(log') \in Len(log)..Len(h) /\ Whole(log') \in Kept(h, Len(log))
          /\ \A n \in 1..Whole(log') : log'[n] = h[n]
      <4>1. Len(log) \in 0..Len(h)
          BY <1>0, <2>3
      <4> QED BY <2>2, <2>5, <4>1, RemainsFacts
    <3>2. Whole(log') >= Len(log) /\ Whole(log') \in Nat
        BY <1>0, <2>2, <2>3, <3>1 DEF Kept
    <3>3. \A n \in 1..Len(log) : log'[n] = log[n]
        BY <1>0, <2>3, <3>1, <3>2
    <3> QED BY <1>0, <2>1, <2>2, <3>1, <3>2, <3>3, DurableSame
  <2> QED BY <2>1, <2>4, <2>5
<1>8. CASE SyncRecords
  <2>1. /\ pc = "syncing" /\ synced' = Len(log) /\ log' = log /\ shadow' = shadow
      BY <1>8 DEF SyncRecords, Flushed
  <2>2. ~shadow.held /\ Whole(log) = Len(log)
      BY <2>1 DEF IInv, StepInv
  <2>3. DurableEntries' = At(log, Whole(log))
      BY <2>1, <2>2, DurableWholeNext
  <2> QED BY <1>0, <2>2, <2>3, DurableIsLeast, WholeFacts
<1>9. CASE SyncFails \/ RenameFails \/ DirectorySyncFails
    BY <1>2, <1>9 DEF SyncFails, RenameFails, DirectorySyncFails
<1>10. CASE CompactRename
  <2>1. /\ up /\ ~poisoned /\ shadow' = [held |-> TRUE, log |-> log, synced |-> synced]
      BY <1>10 DEF CompactRename, Ready, Healthy
  <2>2. ~shadow.held
      BY <2>1 DEF IInv, StepInv
  <2> QED BY <2>1, <2>2 DEF DurableEntries
<1>11. CASE CompactDone
  <2>1. pc = "renamed" /\ log' = log /\ synced' = synced /\ shadow' = NoShadow
      BY <1>11 DEF CompactDone
  <2>2. shadow.held
      BY <2>1 DEF IInv, StepInv
  <2>3. synced = Len(log) /\ Whole(log) = Len(log)
      BY <2>2 DEF IInv, ShadowInv
  <2>4. DurableEntries' = At(log, Len(log))
      BY <2>1, <2>3, DurableWholeNext, EmptyLog
  <2> QED BY <2>2, <2>4, DurableIsLeast
<1>12. CASE ProcessStops
    BY <1>2, <1>12 DEF ProcessStops, files
<1>13. CASE PowerLoss
  <2>1. synced' = Len(log') /\ shadow' = NoShadow
      BY <1>13 DEF PowerLoss
  <2>2. DurableEntries' = At(log', Whole(log'))
      BY <2>1, DurableWholeNext, EmptyLog
  <2>3. ASSUME NEW l, Framed(l), NEW s \in 0..Len(l), log' \in Remains(l, s)
        PROVE  DurableEntries' = At(l, Whole(log')) /\ Whole(log') \in Kept(l, s)
    <3>1. Whole(log') \in Kept(l, s) /\ \A n \in 1..Whole(log') : log'[n] = l[n]
        BY <2>3, RemainsFacts
    <3>2. Whole(log') \in Nat
        BY <1>0, BodyFacts DEF Framed
    <3> QED BY <2>2, <3>1, <3>2, AtSame
  <2>4. CASE shadow.held /\ log' \in Remains(shadow.log, shadow.synced)
    <3>1. /\ DurableEntries' = At(shadow.log, Whole(log'))
          /\ Whole(log') \in Kept(shadow.log, shadow.synced)
        BY <2>3, <2>4 DEF IInv, ShadowInv
    <3> QED BY <2>4, <3>1, DurableIsLeast
  <2>5. CASE log' \in Remains(log, synced)
    <3>1. DurableEntries' = At(log, Whole(log')) /\ Whole(log') \in Kept(log, synced)
        BY <1>0, <2>3, <2>5
    <3>2. CASE ~shadow.held
        BY <3>1, <3>2, DurableIsLeast
    <3>3. CASE shadow.held
      <4>1. synced = Len(log) /\ Whole(log) = Len(log)
          BY <3>3 DEF IInv, ShadowInv
      <4>2. Whole(log') = Len(log)
          BY <1>0, <3>1, <4>1 DEF Kept
      <4> QED BY <3>1, <3>3, <4>2, DurableIsLeast
    <3> QED BY <3>2, <3>3
  <2> QED BY <1>13, <2>4, <2>5 DEF PowerLoss
<1> QED BY <1>3, <1>4, <1>5, <1>6, <1>7, <1>8, <1>9, <1>10, <1>11, <1>12, <1>13 DEF Next

\* The journal implements the durable ledger: whatever fails and whenever it
\* stops, what a power loss cannot take away only advances, and is consistent.
\* (journal.rs)
THEOREM LedgerImplemented == Spec => ImplementsDurableLedger
<1>1. Init => Durable!LedgerInit
  <2> SUFFICES ASSUME Init PROVE Durable!LedgerInit
      OBVIOUS
  <2>1. /\ IInv /\ log = << >> /\ synced = 0 /\ ~shadow.held
      BY StartsKept, EmptyLog DEF Init
  <2>2. DurableEntries = [i \in Intent |-> Absent]
      BY <2>1, DurableWhole, EmptyLog
  <2> QED BY <2>2 DEF Durable!LedgerInit, Absent, Durable!Absent
<1>2. IInv /\ IInv' /\ [Next]_vars => [Durable!Advance]_DurableEntries
  <2> SUFFICES ASSUME IInv, IInv', [Next]_vars PROVE Durable!Advance
      OBVIOUS
  <2>1. \A i \in Intent : Durable!Later(DurableEntries[i], DurableEntries'[i])
      BY DurableAdvances DEF Later, Allowed, Open, Durable!Later, Durable!Allowed, Durable!Open
  <2>2. DurableEntries' \in Entries /\ Sound(DurableEntries')
      BY DurableIsSound
  <2>3. DOMAIN DurableEntries' = Intent
      BY <2>2 DEF Entries
  <2> QED BY <2>1, <2>2, <2>3, SameConsistency DEF Durable!Advance
<1> QED BY <1>1, <1>2, JournalInvariant, PTL
    DEF Spec, ImplementsDurableLedger, Durable!LedgerSpec

\* When an append is acknowledged, everything the journal then reports is out
\* of a power loss's reach.  (sync_data before the indexes and the Ok)
THEOREM AcknowledgedIsDurable == Spec => AckedIsDurable
<1>1. IInv /\ IInv' /\ [Next]_vars
        => [pc = "syncing" /\ up' /\ ~poisoned' => DurableEntries' = mem']_vars
  <2> SUFFICES ASSUME IInv, IInv', Next, pc = "syncing", up', ~poisoned'
               PROVE  DurableEntries' = mem'
      OBVIOUS
  <2>1. up /\ poisoned
      BY DEF IInv, StepInv
  <2>2. SyncRecords
      BY <2>1 DEF Next, OpenJournal, InsertBatch, UpdateBatch, Ready, WriteRecords, WriteFails,
                  SyncFails, CompactRename, RenameFails, CompactDone, DirectorySyncFails,
                  ProcessStops, PowerLoss, Forget
  <2>3. /\ synced' = Len(log) /\ log' = log /\ shadow' = shadow /\ mem' = Merged
      BY <2>2 DEF SyncRecords, Flushed
  <2>4. ~shadow'.held /\ Merged = At(log, Len(log)) /\ Whole(log) = Len(log)
      BY <2>3 DEF IInv, StepInv
  <2>5. DurableEntries' = At(log, Whole(log))
      BY <2>3, <2>4, DurableWholeNext
  <2> QED BY <2>3, <2>4, <2>5
<1> QED BY <1>1, JournalInvariant, PTL DEF Spec, AckedIsDurable
=============================================================================
