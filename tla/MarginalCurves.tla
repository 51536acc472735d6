--------------------------- MODULE MarginalCurves ---------------------------
(***************************************************************************)
(* The pricing and planning functions of the kernel: a venue's model is    *)
(* compiled into a curve of bands with falling rates, an amount is poured  *)
(* over the best bands of a set of venues (directly, or through a tape     *)
(* that was merged once for all the venues), and the search keeps the best *)
(* few sets of venues and prices them with the venues' own models.         *)
(*                                                                         *)
(* A curve is [bands |-> <<[cap |-> atoms, rate |-> r], ...>>, upper |-> n,*)
(* lower |-> n]; a rate is Scale times the atoms received for one atom.  A *)
(* set of venues stands for the code's bit mask.  The work meter, which    *)
(* only aborts, is left to the module that executes a plan.                *)
(***************************************************************************)
EXTENDS Integers, Sequences, FiniteSets, SequencesExt, FiniteSetsExt

CONSTANTS
    Scale,        \* SCALE, 2^32 in the code
    MaxRate,      \* MAX_RATE
    MaxSegments,  \* MAX_SEGMENTS
    MaxFinalists  \* MAX_FINALISTS

ASSUME CurveAssumption ==
    Scale \in Nat \ {0} /\ MaxRate \in Nat /\ MaxSegments \in Nat \ {0} /\ MaxFinalists \in Nat \ {0}

\* There is no plan, what a caller sees as Error::Capacity; a venue was not
\* compiled.
NoPlan == [error |-> "capacity"]
NoCurve == [bands |-> <<>>]

Total(f) == MapThenSumSet(LAMBDA i : f[i], DOMAIN f)
CeilDiv(a, b) == (a + b - 1) \div b
Lesser(a, b) == IF a < b THEN a ELSE b
Less(a, b) == IF a > b THEN a - b ELSE 0

\* Capacity and integral of the first k bands.
CapOf(bands, k) == Total([j \in 1..k |-> bands[j].cap])
AreaOf(bands, k) == Total([j \in 1..k |-> bands[j].cap * bands[j].rate])

ValidCurve(bands) ==
    /\ Len(bands) \in 1..MaxSegments /\ DOMAIN bands = 1..Len(bands)
    /\ \A k \in DOMAIN bands : bands[k].cap \in Nat \ {0} /\ bands[k].rate \in Nat
    /\ \A k \in DOMAIN bands :
         bands[k].rate <= IF k = 1 THEN MaxRate ELSE bands[k - 1].rate

\* What the first x atoms take of band k, and the area under them.
Taken(bands, x, k) == Lesser(Less(x, CapOf(bands, k - 1)), bands[k].cap)
Area(bands, x) == Total([k \in DOMAIN bands |-> Taken(bands, x, k) * bands[k].rate])

Quote(c, x) == Area(c.bands, x) \div Scale
LowerQuote(c, x) == Less(Quote(c, x), c.lower)

-----------------------------------------------------------------------------
(* A venue's own price: a book of bands, or a constant product that takes  *)
(* its fee, in units of 1/Parts, from the input.                           *)

Parts == 10

ExactQuote(s, x) ==
    IF s.model.kind = "book" THEN Area(s.model.levels, x) \div Scale
    ELSE LET net == (x * (Parts - s.model.fee)) \div Parts
         IN  (s.model.rout * net) \div (s.model.rin + net)

\* The product curve without the rounding, and a bound on its slope.
ProductArea(p, x) ==
    LET f == Parts - p.fee IN
    (p.rout * x * f * Scale) \div (p.rin * Parts + x * f)
SlopeAbove(p, x) ==
    LET f == Parts - p.fee
        d == p.rin * Parts + x * f
    IN  CeilDiv(CeilDiv(p.rout * f * Scale, d) * p.rin * Parts, d)

\* The venues that compile accepts: a book of valid bands, no deeper than
\* they are, or a product whose first slope is in range.
ValidModel(s) ==
    \/ /\ s.model.kind = "book" /\ ValidCurve(s.model.levels)
       /\ s.capacity <= CapOf(s.model.levels, Len(s.model.levels))
    \/ /\ s.model.kind = "product"
       /\ s.model.rin \in Nat \ {0} /\ s.model.rout \in Nat \ {0} /\ s.model.fee \in 0..(Parts - 1)
       /\ SlopeAbove(s.model, 0) <= MaxRate

CompileBook(s, capacity) ==
    LET levels == s.model.levels
        Cut(k) == [cap |-> Lesser(levels[k].cap, capacity - CapOf(levels, k - 1)),
                   rate |-> levels[k].rate]
        used == {k \in DOMAIN levels : CapOf(levels, k - 1) < capacity}
    IN  [bands |-> [k \in 1..Cardinality(used) |-> Cut(k)], upper |-> 0, lower |-> 0]

\* Chords, split where a tangent is farthest above its chord.
Gap(p, a, b) ==
    Less(SlopeAbove(p, a), (ProductArea(p, b) - ProductArea(p, a)) \div (b - a)) * (b - a)
Wider(p, edges, i, j) ==
    LET gi == Gap(p, edges[i], edges[i + 1])
        gj == Gap(p, edges[j], edges[j + 1])
    IN  gj < gi \/ (gj = gi /\ i <= j)
Wide(edges) == {i \in 1..(Len(edges) - 1) : edges[i + 1] - edges[i] > 1}
Halved(edges, i) == InsertAt(edges, i + 1, edges[i] + (edges[i + 1] - edges[i]) \div 2)
Split(p, edges) ==
    IF Wide(edges) = {} THEN edges
    ELSE Halved(edges, CHOOSE i \in Wide(edges) : \A j \in Wide(edges) : Wider(p, edges, i, j))
Splitting(p, capacity) ==
    LET after[k \in 0..(MaxSegments - 1)] ==
          IF k = 0 THEN <<0, capacity>> ELSE Split(p, after[k - 1])
    IN  after
Edges(p, capacity) == Splitting(p, capacity)[MaxSegments - 1]
Width(edges, i) == edges[i + 1] - edges[i]
Chord(p, edges, i) ==
    (ProductArea(p, edges[i + 1]) - ProductArea(p, edges[i])) \div Width(edges, i)
\* A slope never rises above the one before it.
Chords(p, edges) ==
    [i \in 1..(Len(edges) - 1) |->
        [cap |-> Width(edges, i), rate |-> Min({MaxRate} \cup {Chord(p, edges, j) : j \in 1..i})]]
\* By how much the curve may exceed its chord i.
Excess(p, edges, bands, i) ==
    ProductArea(p, edges[i]) + 1 - AreaOf(bands, i - 1)
      + Less(SlopeAbove(p, edges[i]), bands[i].rate) * Width(edges, i)
Bounded(p, edges, bands) ==
    [bands |-> bands,
     upper |-> CeilDiv(Max({Excess(p, edges, bands, i) : i \in DOMAIN bands}), Scale),
     lower |-> CeilDiv(p.rout, p.rin) + 1]
Along(p, edges) == Bounded(p, edges, Chords(p, edges))
CompileProduct(s, capacity) == Along(s.model, Edges(s.model, capacity))

Compile(s, horizon) ==
    LET capacity == Lesser(s.capacity, horizon) IN
    IF s.model.kind = "book" THEN CompileBook(s, capacity)
    ELSE CompileProduct(s, capacity)

-----------------------------------------------------------------------------
(* Pouring an amount over the best bands first; a tie is the lower venue's.*)

Sources(curves, mask, cursor) == {i \in mask : cursor[i] < Len(curves[i].bands)}
Head1(curves, cursor, i) == curves[i].bands[cursor[i] + 1].rate
Leads(curves, cursor, i, j) ==
    \/ Head1(curves, cursor, j) < Head1(curves, cursor, i)
    \/ Head1(curves, cursor, j) = Head1(curves, cursor, i) /\ i <= j
Best(curves, mask, cursor) ==
    CHOOSE i \in Sources(curves, mask, cursor) :
        \A j \in Sources(curves, mask, cursor) : Leads(curves, cursor, i, j)

\* All the bands of some venues, and one more of them read.
BandsOf(curves, mask) == Total([i \in mask |-> Len(curves[i].bands)])
Onward(cursor, i) == [cursor EXCEPT ![i] = @ + 1]
Unread(curves) == [i \in DOMAIN curves |-> 0]

PourInto(curves, s, i) ==
    LET band == curves[i].bands[s.cursor[i] + 1]
        take == Lesser(s.left, band.cap)
    IN  [cursor |-> Onward(s.cursor, i), inputs |-> [s.inputs EXCEPT ![i] = @ + take],
         left |-> s.left - take, score |-> s.score + take * band.rate]
Pour(curves, mask, s) ==
    IF s.left = 0 \/ Sources(curves, mask, s.cursor) = {} THEN s
    ELSE PourInto(curves, s, Best(curves, mask, s.cursor))
Pouring(curves, amount, mask) ==
    LET after[k \in 0..BandsOf(curves, mask)] ==
          IF k = 0 THEN [cursor |-> Unread(curves), inputs |-> Unread(curves),
                         left |-> amount, score |-> 0]
          ELSE Pour(curves, mask, after[k - 1])
    IN  after
Poured(end) ==
    IF end.left > 0 THEN NoPlan ELSE [inputs |-> end.inputs, output |-> end.score \div Scale]
Waterfill(curves, amount, mask) ==
    Poured(Pouring(curves, amount, mask)[BandsOf(curves, mask)])

\* The owners of the bands of all the compiled venues, best band first.
ReadBest(curves, mask, cursor) == Onward(cursor, Best(curves, mask, cursor))
Merging(curves, mask) ==
    LET after[k \in 0..BandsOf(curves, mask)] ==
          IF k = 0 THEN Unread(curves) ELSE ReadBest(curves, mask, after[k - 1])
    IN  after
Tape(curves, mask) ==
    [k \in 1..BandsOf(curves, mask) |-> Best(curves, mask, Merging(curves, mask)[k - 1])]

\* mutant of Prefix: the row itself is left out.
PrefixBefore(owner, k, i) == Cardinality({j \in 1..(k - 1) : owner[j] = i})
\* How many bands of venue i are among the first k of the tape.
Prefix(owner, k, i) == Cardinality({j \in 1..k : owner[j] = i})
Rank(curves, owner, k, mask) ==
    Total([i \in mask |-> CapOf(curves[i].bands, Prefix(owner, k, i))])

\* The allocation read off the tape up to a row of which `part` is needed,
\* with the sum of the areas, or with every venue's own conservative quote.
Done(curves, owner, mask, row) ==
    [i \in DOMAIN curves |->
        IF i \in mask THEN CapOf(curves[i].bands, Prefix(owner, row - 1, i)) ELSE 0]
Own(curves, owner, row, part, i) ==
    AreaOf(curves[i].bands, Prefix(owner, row - 1, i))
      + IF i # owner[row] THEN 0
        ELSE part * curves[i].bands[Prefix(owner, row - 1, i) + 1].rate
ReadOff(curves, owner, row, part, inputs, lower) ==
    [inputs |-> inputs,
     output |->
        IF lower
        THEN Total([i \in DOMAIN inputs |-> IF inputs[i] = 0 THEN 0
                      ELSE Less(Own(curves, owner, row, part, i) \div Scale, curves[i].lower)])
        ELSE Total([i \in DOMAIN inputs |-> IF inputs[i] = 0 THEN 0
                      ELSE Own(curves, owner, row, part, i)]) \div Scale]
Filled(curves, owner, row, amount, done, lower) ==
    ReadOff(curves, owner, row, amount - Total(done),
            [done EXCEPT ![owner[row]] = @ + amount - Total(done)], lower)
UpTo(curves, owner, row, amount, mask, lower) ==
    Filled(curves, owner, row, amount, Done(curves, owner, mask, row), lower)
Enough(curves, owner, amount, mask) ==
    {k \in 1..Len(owner) : Rank(curves, owner, k, mask) >= amount}
Allocate(curves, owner, amount, mask, lower) ==
    IF Rank(curves, owner, Len(owner), mask) < amount THEN NoPlan
    ELSE UpTo(curves, owner, Min(Enough(curves, owner, amount, mask)), amount, mask, lower)

-----------------------------------------------------------------------------
(* The search over the sets of at most `legs` independent venues.          *)

\* In the order of the masks' values.
Doubled(sets, i) == sets \o [k \in DOMAIN sets |-> sets[k] \cup {i}]
Masks(n) ==
    LET upto[i \in 0..n] == IF i = 0 THEN <<{}>> ELSE Doubled(upto[i - 1], i) IN upto[n]

Independent(snapshots, mask) ==
    \A i, j \in mask : i # j => snapshots[i].resources \cap snapshots[j].resources = {}

\* The plan goes behind those that promise at least as much.
PlaceOf(list, p) == Min({k \in DOMAIN list : p.output > list[k].output} \cup {Len(list) + 1})
FirstFew(list) == SubSeq(list, 1, Lesser(Len(list), MaxFinalists))
Shortlist(list, p) ==
    IF p = NoPlan \/ \E k \in DOMAIN list : list[k].inputs = p.inputs THEN list
    ELSE FirstFew(InsertAt(list, PlaceOf(list, p), p))

ExactOutput(snapshots, p) ==
    Total([i \in DOMAIN snapshots |->
             IF p.inputs[i] = 0 THEN 0 ELSE ExactQuote(snapshots[i], p.inputs[i])])

\* The plan over a set that may be chosen.
PlanOver(snapshots, curves, owner, amount, eligible, legs, mask) ==
    IF mask # {} /\ mask \subseteq eligible /\ Cardinality(mask) <= legs /\ Independent(snapshots, mask)
    THEN Allocate(curves, owner, amount, mask, TRUE)
    ELSE NoPlan
Finalists(snapshots, curves, owner, amount, eligible, legs) ==
    LET masks == Masks(Len(snapshots))
        Of(mask) == PlanOver(snapshots, curves, owner, amount, eligible, legs, mask)
        after[k \in 0..Len(masks)] ==
          IF k = 0 THEN <<>> ELSE Shortlist(after[k - 1], Of(masks[k]))
    IN  after[Len(masks)]

\* The finalist with the most by the venues' own prices, the first of equals.
Repriced(snapshots, p) == [p EXCEPT !.output = ExactOutput(snapshots, p)]
Better(a, b) == IF a = NoPlan THEN b ELSE IF b.output > a.output THEN b ELSE a
Winner(snapshots, finalists) ==
    LET upto[k \in 0..Len(finalists)] ==
          IF k = 0 THEN NoPlan ELSE Better(upto[k - 1], Repriced(snapshots, finalists[k]))
    IN  upto[Len(finalists)]

Certified(relaxed, plan, errors) ==
    IF relaxed = NoPlan \/ plan = NoPlan THEN NoPlan
    ELSE [inputs |-> plan.inputs, output |-> plan.output, upper |-> relaxed.output + errors]

Search(snapshots, curves, owner, amount, eligible, legs) ==
    Certified(Allocate(curves, owner, amount, eligible, FALSE),
              Winner(snapshots, Finalists(snapshots, curves, owner, amount, eligible, legs)),
              Total([i \in eligible |-> curves[i].upper]))
=============================================================================
