---------------------------- MODULE LedgerProofs -----------------------------
(***************************************************************************)
(* Lemmas about the lifecycle of orders and about investment plans, which  *)
(* the proofs about the journal and about the sender cite: what admitting  *)
(* an order and advancing one do to the chain of a plan's tranches.        *)
(***************************************************************************)
EXTENDS OrderLifecycle, FiniteSetTheorems, SequenceTheorems, TLAPS

PhaseMap == [Intent -> Phase \cup {"Absent"}]

\* The orders of a plan.
Members(p) == {i \in Intent : TrancheOf[i].plan = p}

-----------------------------------------------------------------------------
(* Induction over the natural numbers, with a set for the predicate.       *)

\* Every nonempty set of natural numbers has a least element.
LEMMA Least ==
    ASSUME NEW T \in SUBSET Nat, T # {}
    PROVE  \E x \in T : \A y \in T : x <= y
<1> DEFINE R == OpToRel(<, Nat)
<1>1. IsWellFoundedOn(R, Nat)
    BY NatLessThanWellFounded
<1>2. \E x \in T : \A y \in T : ~(<<y, x>> \in R)
  <2> HIDE DEF R
  <2> QED BY <1>1, WFMin
<1>3. \A x, y \in Nat : <<y, x>> \in R <=> y < x
    BY DEF OpToRel
<1> HIDE DEF R
<1>4. PICK x \in T : \A y \in T : ~(<<y, x>> \in R)
    BY <1>2
<1>5. ASSUME NEW y \in T PROVE x <= y
  <2>1. ~(<<y, x>> \in R)
      BY <1>4
  <2>2. x \in Nat /\ y \in Nat /\ ~(y < x)
      BY <1>3, <2>1
  <2> QED BY <2>2
<1> QED BY <1>5

\* A set that holds 0 and, with a number, its successor, holds them all.
LEMMA Induct ==
    ASSUME NEW S \in SUBSET Nat, 0 \in S, \A n \in S : n + 1 \in S
    PROVE  S = Nat
<1> SUFFICES ASSUME Nat \ S # {} PROVE FALSE
    OBVIOUS
<1>1. PICK x \in Nat \ S : \A y \in Nat \ S : x <= y
    BY Least
<1>2. x # 0 /\ x - 1 \in Nat
    OBVIOUS
<1>3. x - 1 \in S
    BY <1>1, <1>2
<1> QED BY <1>2, <1>3, (x - 1) + 1 = x

-----------------------------------------------------------------------------
(* The chain of a plan.                                                    *)

\* A tranche of a plan is one: NoTranche belongs to none.
LEMMA MemberTranche ==
    ASSUME NEW p \in Plan, NEW i \in Members(p)
    PROVE  i \in Intent /\ TrancheOf[i] \in Tranche /\ TrancheOf[i] # NoTranche
BY InvestmentAssumption DEF Members, Tranche, NoTranche

\* What a plan makes of the phases depends on those of its own orders only.
LEMMA SameChain ==
    ASSUME NEW p, NEW f \in PhaseMap, NEW g \in PhaseMap,
           \A i \in Members(p) : f[i] = g[i]
    PROVE  /\ Live(p, g) = Live(p, f)
           /\ Done(p, g) = Done(p, f)
           /\ NextStock(p, g) = NextStock(p, f)
           /\ Progress(p, g) = Progress(p, f)
           /\ Coherent(p, g) <=> Coherent(p, f)
<1>1. Live(p, g) = Live(p, f)
    BY DEF Live, Members
<1>2. Done(p, g) = Done(p, f)
    BY <1>1 DEF Done, Live, Members
<1>3. NextStock(p, g) = NextStock(p, f)
    BY <1>2 DEF NextStock
<1>4. Progress(p, g) = Progress(p, f)
    BY <1>1, <1>2, <1>3 DEF Progress
<1>5. Coherent(p, g) <=> Coherent(p, f)
  <2>1. \A i \in Live(p, f) : g[i] = f[i]
      BY DEF Live, Members
  <2>2. \A i \in Intent : TrancheOf[i].plan = p => g[i] = f[i]
      BY DEF Members
  <2> QED BY <1>1, <2>1, <2>2 DEF Coherent
<1> QED BY <1>1, <1>2, <1>3, <1>4, <1>5

\* The steps of a coherent plan are numbered from 0, each once.
LEMMA ChainNumbers ==
    ASSUME NEW p \in Plan, NEW f \in PhaseMap, Coherent(p, f)
    PROVE  /\ IsFiniteSet(Live(p, f))
           /\ Cardinality(Live(p, f)) \in Nat
           /\ {TrancheOf[i].index : i \in Live(p, f)} = 0 .. Cardinality(Live(p, f)) - 1
           /\ \A i, j \in Live(p, f) : TrancheOf[i].index = TrancheOf[j].index => i = j
<1> DEFINE live == Live(p, f)
           k    == Cardinality(live)
           h    == [i \in live |-> TrancheOf[i].index]
<1>1. IsFiniteSet(live) /\ k \in Nat
  <2>1. live \in SUBSET Intent
      BY DEF Live
  <2> QED BY <2>1, InvestmentAssumption, FS_Subset, FS_CardinalityType
<1>2. {TrancheOf[i].index : i \in live} = 0 .. k - 1
    BY DEF Coherent
<1>3. h \in Surjection(live, 0 .. k - 1)
    BY <1>2 DEF Surjection
<1>4. IsFiniteSet(0 .. k - 1) /\ Cardinality(0 .. k - 1) = k
    BY <1>1, FS_Interval
<1>5. h \in Injection(live, 0 .. k - 1)
    BY <1>1, <1>3, <1>4, FS_SurjSameCardinalityImpliesInj
<1>6. \A i, j \in live : h[i] = h[j] => i = j
    BY <1>5 DEF Injection, IsInjective
<1> QED BY <1>1, <1>2, <1>6

\* Only the last step of a coherent plan may be unreconciled.
LEMMA LastPending ==
    ASSUME NEW p \in Plan, NEW f \in PhaseMap, Coherent(p, f),
           NEW i \in Live(p, f), f[i] # "Reconciled"
    PROVE  TrancheOf[i].index = Cardinality(Live(p, f)) - 1
<1> DEFINE live == Live(p, f)
           k    == Cardinality(live)
<1>1. k \in Nat /\ {TrancheOf[j].index : j \in live} = 0 .. k - 1
    BY ChainNumbers
<1>2. TrancheOf[i].index \in 0 .. k - 1
    BY <1>1
<1> SUFFICES ASSUME TrancheOf[i].index # k - 1 PROVE FALSE
    OBVIOUS
<1>3. TrancheOf[i].index + 1 \in 0 .. k - 1
    BY <1>1, <1>2
<1>4. PICK j \in live : TrancheOf[j].index = TrancheOf[i].index + 1
    BY <1>1, <1>3
<1> QED BY <1>4 DEF Coherent

\* When every step is reconciled, the next stock is where the last step ends.
LEMMA NextIsLastEnd ==
    ASSUME NEW p \in Plan, NEW f \in PhaseMap, Coherent(p, f),
           Done(p, f) = Live(p, f), NEW i \in Live(p, f),
           TrancheOf[i].index = Cardinality(Live(p, f)) - 1
    PROVE  NextStock(p, f) = RangeOf(TrancheOf[i])[2]
<1> DEFINE live == Live(p, f)
           k    == Cardinality(live)
           Last(l) == \A j \in live : TrancheOf[j].index <= TrancheOf[l].index
           last == CHOOSE l \in live : Last(l)
<1>1. /\ k \in Nat /\ {TrancheOf[j].index : j \in live} = 0 .. k - 1
      /\ \A j, l \in live : TrancheOf[j].index = TrancheOf[l].index => j = l
    BY ChainNumbers
<1>2. \A j \in live : TrancheOf[j].index \in 0 .. k - 1
    BY <1>1
<1>3. Last(i)
    BY <1>1, <1>2
<1>4. last \in live /\ Last(last)
    BY <1>3
<1>5. TrancheOf[last].index = k - 1
    BY <1>1, <1>2, <1>4
<1>6. last = i
    BY <1>1, <1>4, <1>5
<1>7. NextStock(p, f) = RangeOf(TrancheOf[last])[2]
    BY <1>4 DEF NextStock
<1> QED BY <1>6, <1>7

\* Admitting the next step of a plan keeps its chain.
LEMMA AdmitChain ==
    ASSUME NEW p \in Plan, NEW f \in PhaseMap, NEW i \in Members(p),
           f[i] = "Absent", Admissible(i, f),
           NEW g \in PhaseMap, g = [f EXCEPT ![i] = "Prepared"]
    PROVE  Coherent(p, g)
<1> DEFINE live == Live(p, f)
           k    == Cardinality(live)
           t    == TrancheOf[i]
<1>1. /\ i \in Intent /\ t # NoTranche /\ t.plan = p
    BY MemberTranche DEF Members
<1>2. /\ ValidRange(t) /\ Coherent(p, f) /\ Done(p, f) = live
      /\ t.index = k /\ RangeOf(t)[1] = NextStock(p, f)
  <2>1. Progress(p, f) = "Ready"
      BY <1>1 DEF Admissible
  <2>2. Done(p, f) = live
      BY <2>1 DEF Progress
  <2> QED BY <1>1, <2>2 DEF Admissible
<1>3. /\ IsFiniteSet(live) /\ k \in Nat
      /\ {TrancheOf[j].index : j \in live} = 0 .. k - 1
    BY <1>2, ChainNumbers
<1>4. i \notin live /\ Live(p, g) = live \cup {i}
    BY <1>1 DEF Live, PhaseMap
<1>5. Cardinality(Live(p, g)) = k + 1
    BY <1>3, <1>4, FS_AddElement
<1>6. {TrancheOf[j].index : j \in Live(p, g)} = 0 .. k
  <2>1. {TrancheOf[j].index : j \in Live(p, g)} = (0 .. k - 1) \cup {k}
      BY <1>2, <1>3, <1>4
  <2>2. \A n \in Nat : (0 .. n - 1) \cup {n} = 0 .. n
      OBVIOUS
  <2>3. (0 .. k - 1) \cup {k} = 0 .. k
      BY <1>3, <2>2
  <2> QED BY <2>1, <2>3
<1>7. \A j \in Intent : TrancheOf[j].plan = p /\ g[j] # "Absent" => ValidRange(TrancheOf[j])
    BY <1>1, <1>2 DEF Coherent, PhaseMap
<1>8. ASSUME NEW a \in Live(p, g), TrancheOf[a].index = 0
      PROVE  RangeOf(TrancheOf[a])[1] = 0
  <2>1. CASE a \in live
      BY <1>2, <1>8, <2>1 DEF Coherent
  <2>2. CASE a = i
    <3>1. k = 0
        BY <1>2, <1>8, <2>2
    <3>2. live = {}
        BY <1>3, <3>1, FS_EmptySet
    <3> QED BY <1>2, <2>2, <3>2 DEF NextStock
  <2> QED BY <1>4, <2>1, <2>2
<1>9. ASSUME NEW a \in Live(p, g), NEW b \in Live(p, g),
             TrancheOf[b].index = TrancheOf[a].index + 1
      PROVE  /\ g[a] = "Reconciled"
             /\ RangeOf(TrancheOf[b])[1] = RangeOf(TrancheOf[a])[2]
  <2>1. \A j \in live : TrancheOf[j].index \in 0 .. k - 1 /\ g[j] = f[j]
      BY <1>3, <1>4 DEF PhaseMap, Live
  <2>2. CASE a = i
    <3>1. TrancheOf[b].index = k + 1
        BY <1>2, <1>9, <2>2
    <3>2. TrancheOf[b].index \in 0 .. k
        BY <1>6
    <3> QED BY <1>3, <3>1, <3>2
  <2>3. CASE a \in live /\ b \in live
      BY <1>2, <1>9, <2>1, <2>3 DEF Coherent
  <2>4. CASE a \in live /\ b = i
    <3>1. TrancheOf[a].index = k - 1
        BY <1>2, <1>3, <1>9, <2>1, <2>4
    <3>2. NextStock(p, f) = RangeOf(TrancheOf[a])[2]
        BY <1>2, <2>4, <3>1, NextIsLastEnd
    <3>3. f[a] = "Reconciled"
        BY <1>2, <2>4 DEF Done
    <3> QED BY <1>2, <2>1, <2>4, <3>2, <3>3
  <2> QED BY <1>4, <2>2, <2>3, <2>4
<1>10. 0 .. k = 0 .. Cardinality(Live(p, g)) - 1
  <2>1. (k + 1) - 1 = k
      BY <1>3
  <2> QED BY <1>5, <2>1
<1> QED BY <1>6, <1>7, <1>8, <1>9, <1>10 DEF Coherent

\* Advancing orders of a plan along their lifecycle keeps its chain: only its
\* last step can move, and it may drop out when it fails.
LEMMA MoveChain ==
    ASSUME NEW p \in Plan, NEW f \in PhaseMap, NEW g \in PhaseMap, Coherent(p, f),
           \A i \in Members(p) : g[i] = f[i] \/ Allowed(f[i], g[i])
    PROVE  Coherent(p, g)
<1> DEFINE live == Live(p, f)
           k    == Cardinality(live)
<1>1. /\ IsFiniteSet(live) /\ k \in Nat
      /\ {TrancheOf[j].index : j \in live} = 0 .. k - 1
      /\ \A i, j \in live : TrancheOf[i].index = TrancheOf[j].index => i = j
    BY ChainNumbers
<1>2. \A i \in Members(p) : (g[i] = "Absent" <=> f[i] = "Absent")
    BY DEF Allowed, Open
<1>3. \A i \in Intent : TrancheOf[i].plan = p /\ g[i] # "Absent" => ValidRange(TrancheOf[i])
    BY <1>2 DEF Coherent, Members
<1>4. Live(p, g) \subseteq live
    BY <1>2 DEF Live, Members, Allowed, Open
<1>5. \A j \in live : f[j] = "Reconciled" => g[j] = "Reconciled"
    BY DEF Live, Members, Allowed, Open
<1>6. \A a, b \in Live(p, g) :
          TrancheOf[b].index = TrancheOf[a].index + 1
            => g[a] = "Reconciled" /\ RangeOf(TrancheOf[b])[1] = RangeOf(TrancheOf[a])[2]
    BY <1>4, <1>5 DEF Coherent
<1>7. \A a \in Live(p, g) : TrancheOf[a].index = 0 => RangeOf(TrancheOf[a])[1] = 0
    BY <1>4 DEF Coherent
<1>8. {TrancheOf[i].index : i \in Live(p, g)} = 0 .. Cardinality(Live(p, g)) - 1
  <2>1. CASE Live(p, g) = live
      BY <1>1, <2>1
  <2>2. CASE Live(p, g) # live
    <3>1. PICK i \in live : i \notin Live(p, g)
        BY <1>4, <2>2
    <3>2. \A j \in live : j \notin Live(p, g) => f[j] # "Reconciled"
        BY <1>5 DEF Live
    <3>3. \A j \in live : j \notin Live(p, g) => TrancheOf[j].index = k - 1
        BY <3>2, LastPending
    <3>4. Live(p, g) = live \ {i}
        BY <1>1, <1>4, <3>1, <3>3
    <3>5. Cardinality(Live(p, g)) = k - 1
        BY <1>1, <3>1, <3>4, FS_RemoveElement
    <3>6. TrancheOf[i].index = k - 1
        BY <3>1, <3>3
    <3>7. {TrancheOf[j].index : j \in live \ {i}} = (0 .. k - 1) \ {k - 1}
        BY <1>1, <3>1, <3>6
    <3> QED BY <1>1, <3>4, <3>5, <3>7
  <2> QED BY <2>1, <2>2
<1> QED BY <1>3, <1>6, <1>7, <1>8 DEF Coherent

-----------------------------------------------------------------------------
(* The stocks a plan buys.                                                 *)

\* The groups of a plan from stock s on, given those that start later.
Walk(n, f) ==
    [start \in 0..n |->
        IF start = n THEN << >>
        ELSE LET end == start + GroupSize(n - start)
             IN  << <<start, end>> >> \o f[end]]

\* A half-open range of a plan's n stocks that is not empty.
Span(n) == {r \in Nat \X Nat : r[1] < r[2] /\ r[2] <= n}

\* A group has at least one of the stocks that are left, and no more.
LEMMA GroupFits ==
    ASSUME NEW n \in Nat, NEW s \in 0 .. n, s # n
    PROVE  s + GroupSize(n - s) \in s + 1 .. n
BY DEF GroupSize

\* The recursion of `ranges` has a solution.
LEMMA WalkExists ==
    ASSUME NEW n \in Nat
    PROVE  \E f : f = Walk(n, f)
<1> DEFINE Solves(f, s) == f[s] = Walk(n, f)[s]
           S == {d \in Nat : \E f : /\ DOMAIN f = 0 .. n /\ f = [s \in 0 .. n |-> f[s]]
                                    /\ \A s \in 0 .. n : n - s <= d => Solves(f, s)}
<1>1. 0 \in S
  <2> DEFINE f == [s \in 0 .. n |-> << >>]
  <2>1. \A s \in 0 .. n : n - s <= 0 => Solves(f, s)
      BY DEF Walk
  <2> QED BY <2>1
<1>2. ASSUME NEW d \in S PROVE d + 1 \in S
  <2>1. PICK f : /\ DOMAIN f = 0 .. n /\ f = [s \in 0 .. n |-> f[s]]
                 /\ \A s \in 0 .. n : n - s <= d => Solves(f, s)
      BY <1>2
  <2> DEFINE c == n - (d + 1)
             g == [s \in 0 .. n |-> IF s = c THEN Walk(n, f)[s] ELSE f[s]]
  <2>2. ASSUME NEW s \in 0 .. n, n - s <= d + 1 PROVE Solves(g, s)
    <3>1. CASE s = n
      <4>0. n - s <= d /\ d \in Nat
          BY <1>2, <3>1
      <4>1. f[s] = << >>
          BY <2>1, <3>1, <4>0 DEF Walk
      <4>2. g[s] = << >>
          BY <3>1, <4>1 DEF Walk
      <4> QED BY <3>1, <4>2 DEF Walk
    <3>2. CASE s # n
      <4> DEFINE e == s + GroupSize(n - s)
      <4>1. e \in 0 .. n /\ e # c
          BY <2>2, <3>2, GroupFits
      <4>2. g[e] = f[e]
          BY <4>1
      <4> HIDE DEF g, c
      <4>3. \A h : Walk(n, h)[s] = << <<s, e>> >> \o h[e]
          BY <3>2 DEF Walk
      <4>5. Walk(n, g)[s] = Walk(n, f)[s]
          BY <4>2, <4>3
      <4> USE DEF g, c
      <4>4. g[s] = Walk(n, f)[s]
        <5>1. CASE s = c
            BY <5>1
        <5>2. CASE s # c
            BY <2>1, <2>2, <5>2
        <5> QED BY <5>1, <5>2
      <4> QED BY <4>4, <4>5
    <3> QED BY <3>1, <3>2
  <2> HIDE DEF Solves
  <2>3. DOMAIN g = 0 .. n /\ g = [s \in 0 .. n |-> g[s]]
      OBVIOUS
  <2> HIDE DEF g
  <2>4. d + 1 \in Nat
      BY <1>2
  <2> QED BY <2>2, <2>3, <2>4
<1>3. n \in S
  <2> HIDE DEF S
  <2>1. S \in SUBSET Nat
      BY DEF S
  <2> QED BY <1>1, <1>2, <2>1, Induct
<1>4. PICK f : /\ DOMAIN f = 0 .. n /\ f = [s \in 0 .. n |-> f[s]]
               /\ \A s \in 0 .. n : n - s <= n => Solves(f, s)
    BY <1>3
<1>5. \A s \in 0 .. n : f[s] = Walk(n, f)[s]
    BY <1>4
<1>6. f = Walk(n, f)
    BY <1>4, <1>5 DEF Walk
<1> QED BY <1>6

\* The fixed partition consists of ranges of the plan's stocks, none empty.
\* (investment.rs, ranges)
LEMMA RangesWell ==
    ASSUME NEW n \in Nat
    PROVE  Ranges(n) \in Seq(Span(n))
<1> DEFINE f == CHOOSE w : w = Walk(n, w)
           S == {d \in Nat : \A s \in 0 .. n : n - s <= d => f[s] \in Seq(Span(n))}
<1>1. Ranges(n) = f[0]
    BY Zenon DEF Ranges, Walk
<1>2. f = Walk(n, f)
    BY WalkExists
<1> HIDE DEF f
<1>3. \A s \in 0 .. n : f[s] = IF s = n THEN << >>
                               ELSE << <<s, s + GroupSize(n - s)>> >> \o f[s + GroupSize(n - s)]
    BY <1>2 DEF Walk
<1>4. 0 \in S
  <2> SUFFICES ASSUME NEW s \in 0 .. n, n - s <= 0 PROVE f[s] \in Seq(Span(n))
      OBVIOUS
  <2>1. s = n
      OBVIOUS
  <2>2. f[s] = << >>
      BY <1>3, <2>1
  <2> QED BY <2>2
<1>5. ASSUME NEW d \in S PROVE d + 1 \in S
  <2> SUFFICES ASSUME NEW s \in 0 .. n, n - s <= d + 1 PROVE f[s] \in Seq(Span(n))
      BY <1>5
  <2>1. CASE s = n
      BY <1>3, <2>1
  <2>2. CASE s # n
    <3> DEFINE e == s + GroupSize(n - s)
    <3>1. e \in s + 1 .. n
        BY <2>2, GroupFits
    <3>2. f[e] \in Seq(Span(n))
        BY <3>1, <1>5
    <3>3. << <<s, e>> >> \in Seq(Span(n))
        BY <3>1 DEF Span
    <3>4. f[s] = << <<s, e>> >> \o f[e]
        BY <1>3, <2>2
    <3> HIDE DEF e
    <3> QED BY <3>2, <3>3, <3>4, ConcatProperties
  <2> QED BY <2>1, <2>2
<1>6. n \in S
  <2> HIDE DEF S
  <2>1. S \in SUBSET Nat
      BY DEF S
  <2> QED BY <1>4, <1>5, <2>1, Induct
<1> QED BY <1>1, <1>6

\* The range of a valid tranche is one of its plan's stocks, and not empty.
LEMMA RangeFits ==
    ASSUME NEW p \in Plan, NEW i \in Members(p), ValidRange(TrancheOf[i])
    PROVE  RangeOf(TrancheOf[i]) \in Span(Stocks[p])
<1> DEFINE t == TrancheOf[i]
<1>1. t \in Tranche /\ t.plan = p /\ Stocks[p] \in Nat
    BY MemberTranche, InvestmentAssumption DEF Members
<1>2. CASE t.range = Fixed
  <2>1. Ranges(Stocks[p]) \in Seq(Span(Stocks[p])) /\ Len(Ranges(Stocks[p])) \in Nat
      BY <1>1, RangesWell, LenProperties
  <2>2. t.index \in Nat /\ t.index < Len(Ranges(Stocks[p]))
      BY <1>1, <1>2 DEF ValidRange, Tranche
  <2>3. t.index + 1 \in 1 .. Len(Ranges(Stocks[p]))
      BY <2>1, <2>2
  <2>4. RangeOf(t) = Ranges(Stocks[p])[t.index + 1]
      BY <1>1, <1>2 DEF RangeOf
  <2> QED BY <2>1, <2>3, <2>4, ElementOfSeq
<1>3. CASE t.range # Fixed
  <2>1. t.range \in Nat \X Nat
      BY <1>1, <1>3 DEF Tranche
  <2> QED BY <1>1, <1>3, <2>1 DEF ValidRange, RangeOf, Span
<1> QED BY <1>2, <1>3

\* The orders of a coherent plan buy disjoint ranges, and together its first
\* stocks without a gap.  (investment.rs, the walk over the plan's entries)
LEMMA ChainBuysOnce ==
    ASSUME NEW p \in Plan, NEW f \in PhaseMap, Coherent(p, f)
    PROVE  /\ \A i, j \in Live(p, f) :
                i # j => StocksIn(RangeOf(TrancheOf[i]))
                           \cap StocksIn(RangeOf(TrancheOf[j])) = {}
           /\ Bought(p, f) = 0 .. Cardinality(Bought(p, f)) - 1
<1> DEFINE live == Live(p, f)
           k    == Cardinality(live)
           R(i) == RangeOf(TrancheOf[i])
           X(i) == TrancheOf[i].index
<1>1. /\ k \in Nat
      /\ {X(i) : i \in live} = 0 .. k - 1
      /\ \A i, j \in live : X(i) = X(j) => i = j
    BY ChainNumbers
<1>2. \A i \in live : R(i)[1] \in Nat /\ R(i)[2] \in Nat /\ R(i)[1] < R(i)[2]
  <2> TAKE i \in live
  <2>1. i \in Members(p) /\ ValidRange(TrancheOf[i])
      BY DEF Coherent, Live, Members
  <2> QED BY <2>1, RangeFits DEF Span
<1>3. \A i \in live : X(i) \in Nat /\ (X(i) = 0 => R(i)[1] = 0)
    BY <1>1 DEF Coherent
<1>4. \A i, j \in live : X(j) = X(i) + 1 => R(j)[1] = R(i)[2]
    BY DEF Coherent
<1>5. \A n \in Nat : n + 1 < k => \E i \in live : X(i) = n
  <2> TAKE n \in Nat
  <2>1. n + 1 < k => n \in 0 .. k - 1
      BY <1>1
  <2> QED BY <1>1, <2>1
<1> HIDE DEF live, k, R, X
\* A tranche ends before every later one starts.
<1>6. \A i, j \in live : X(i) < X(j) => R(i)[2] <= R(j)[1]
  <2> DEFINE S == {n \in Nat : \A i, j \in live : X(j) = n /\ X(i) < n => R(i)[2] <= R(j)[1]}
  <2>1. 0 \in S
      BY <1>3
  <2>2. ASSUME NEW n \in S PROVE n + 1 \in S
    <3> SUFFICES ASSUME NEW i \in live, NEW j \in live, X(j) = n + 1, X(i) < n + 1
                 PROVE  R(i)[2] <= R(j)[1]
        BY <2>2
    <3>1. n + 1 \in 0 .. k - 1
        BY <1>1
    <3>2. PICK l \in live : X(l) = n
        BY <1>1, <1>5, <2>2, <3>1
    <3>3. R(j)[1] = R(l)[2]
        BY <1>4, <3>2
    <3>4. CASE X(i) = n
        BY <1>1, <1>2, <3>2, <3>3, <3>4
    <3>5. CASE X(i) < n
      <4>1. R(i)[2] <= R(l)[1]
          BY <2>2, <3>2, <3>5
      <4> QED BY <1>2, <3>3, <4>1
    <3> QED BY <1>3, <2>2, <3>4, <3>5
  <2>3. S = Nat
    <3> HIDE DEF S
    <3>1. S \in SUBSET Nat
        BY DEF S
    <3> QED BY <2>1, <2>2, <3>1, Induct
  <2> QED BY <1>3, <2>3
<1>7. \A i, j \in live : i # j => StocksIn(R(i)) \cap StocksIn(R(j)) = {}
  <2> TAKE i, j \in live
  <2> HAVE i # j
  <2>1. X(i) < X(j) \/ X(j) < X(i)
      BY <1>1, <1>3
  <2>2. R(i)[2] <= R(j)[1] \/ R(j)[2] <= R(i)[1]
      BY <1>6, <2>1
  <2> QED BY <1>2, <2>2 DEF StocksIn
\* The tranches up to one buy the stocks before its end.
<1>8. \A j \in live :
         UNION {StocksIn(R(i)) : i \in {l \in live : X(l) <= X(j)}} = 0 .. R(j)[2] - 1
  <2> DEFINE U(m) == UNION {StocksIn(R(i)) : i \in {l \in live : X(l) <= m}}
             S == {n \in Nat : \A j \in live : X(j) = n => U(n) = 0 .. R(j)[2] - 1}
  <2>1. 0 \in S
    <3> SUFFICES ASSUME NEW j \in live, X(j) = 0 PROVE U(0) = 0 .. R(j)[2] - 1
        OBVIOUS
    <3>1. {l \in live : X(l) <= 0} = {j}
        BY <1>1, <1>3
    <3>2. U(0) = StocksIn(R(j))
        BY <3>1
    <3> QED BY <1>2, <1>3, <3>2 DEF StocksIn
  <2>2. ASSUME NEW n \in S PROVE n + 1 \in S
    <3> SUFFICES ASSUME NEW j \in live, X(j) = n + 1 PROVE U(n + 1) = 0 .. R(j)[2] - 1
        BY <2>2
    <3>1. n + 1 \in 0 .. k - 1
        BY <1>1
    <3>2. PICK l \in live : X(l) = n
        BY <1>1, <1>5, <2>2, <3>1
    <3>3. R(j)[1] = R(l)[2]
        BY <1>4, <3>2
    <3>4. U(n) = 0 .. R(l)[2] - 1
        BY <2>2, <3>2
    <3>5. {m \in live : X(m) <= n + 1} = {m \in live : X(m) <= n} \cup {j}
      <4>1. ASSUME NEW m \in live, X(m) <= n + 1, ~(X(m) <= n) PROVE m = j
        <5>1. X(m) = n + 1
            BY <1>3, <2>2, <4>1
        <5> QED BY <1>1, <5>1
      <4>2. \A m \in live : X(m) <= n => X(m) <= n + 1
          BY <1>3, <2>2
      <4>3. X(j) <= n + 1
          BY <2>2
      <4> QED BY <4>1, <4>2, <4>3
    <3>6. U(n + 1) = U(n) \cup StocksIn(R(j))
        BY <3>5
    <3> HIDE DEF U
    <3>7. \A a, b \in Nat : a < b => (0 .. a - 1) \cup (a .. b - 1) = 0 .. b - 1
        OBVIOUS
    <3> QED BY <1>2, <3>3, <3>4, <3>6, <3>7 DEF StocksIn
  <2>3. S = Nat
    <3> HIDE DEF S
    <3>1. S \in SUBSET Nat
        BY DEF S
    <3> QED BY <2>1, <2>2, <3>1, Induct
  <2> HIDE DEF U
  <2>4. \A j \in live : U(X(j)) = 0 .. R(j)[2] - 1
      BY <1>3, <2>3
  <2> QED BY <2>4 DEF U
<1>9. Bought(p, f) = UNION {StocksIn(R(i)) : i \in live}
    BY DEF Bought, live, R
<1>10. ASSUME live = {} PROVE Bought(p, f) = 0 .. Cardinality(Bought(p, f)) - 1
  <2>1. Bought(p, f) = {}
      BY <1>9, <1>10
  <2>2. Cardinality({}) = 0 /\ 0 .. 0 - 1 = {}
      BY FS_EmptySet
  <2> QED BY <2>1, <2>2
<1>11. ASSUME live # {} PROVE Bought(p, f) = 0 .. Cardinality(Bought(p, f)) - 1
  <2>1. k - 1 \in 0 .. k - 1
    <3>1. PICK l \in live : TRUE
        BY <1>11
    <3>2. X(l) \in 0 .. k - 1
        BY <1>1
    <3> QED BY <1>1, <3>2
  <2>2. PICK j \in live : X(j) = k - 1
      BY <1>1, <2>1
  <2>3. {l \in live : X(l) <= X(j)} = live
    <3>1. \A l \in live : X(l) \in 0 .. k - 1
        BY <1>1
    <3> QED BY <1>1, <2>2, <3>1
  <2>4. Bought(p, f) = 0 .. R(j)[2] - 1
      BY <1>8, <1>9, <2>3
  <2>5. Cardinality(0 .. R(j)[2] - 1) = R(j)[2]
      BY <1>2, FS_Interval
  <2> QED BY <2>4, <2>5
<1>12. Bought(p, f) = 0 .. Cardinality(Bought(p, f)) - 1
    BY <1>10, <1>11
<1> QED BY <1>7, <1>12 DEF live, R
-----------------------------------------------------------------------------
(* The entries of the journal.                                             *)

\* What the journal promises of its entries at any instant.
Sound(E) ==
    /\ Exclusive(E)
    /\ SignatureUnique(E)
    /\ PlansCoherent(E)
    /\ Cardinality(Recorded(E)) <= Capacity

\* The other orders as one of a batch K finds them.
Others(E, K, i) ==
    [j \in Intent |-> IF j \in K \ {i} THEN "Prepared" ELSE E[j].phase]

\* The entries once the orders K are recorded.
Admitted(E, K) == [i \in Intent |-> IF i \in K THEN Fresh ELSE E[i]]

\* What insert_batch checks of the orders K before it records them.
Acceptable(E, K) ==
    /\ Cardinality(Recorded(E)) + Cardinality(K) <= Capacity
    /\ \A i \in K :
          /\ E[i] = Absent
          /\ Admissible(i, Others(E, K, i))
          /\ \A j \in Recorded(E) : SigOf[j] # SigOf[i]
          /\ \A j \in Intent : E[j].phase \in Holding => ResOf[i] \cap ResOf[j] = {}
          /\ \A j \in K \ {i} : SigOf[i] # SigOf[j] /\ ResOf[i] \cap ResOf[j] = {}

\* The phases that hold resources, and those of no entry and of a new one.
LEMMA PhaseFacts ==
    /\ Holding = Open \cup {"Finalized"}
    /\ "Absent" \notin Phase
    /\ Absent.phase = "Absent" /\ Fresh.phase = "Prepared"
    /\ Fresh \in Entry
BY DEF Holding, Phase, Terminal, Open, Absent, Fresh, Entry

\* The phases of the entries, and their number, are what the plan rules expect.
LEMMA PhasesOf ==
    ASSUME NEW E \in Entries
    PROVE  /\ PhaseOf(E) \in PhaseMap
           /\ \A i \in Intent : PhaseOf(E)[i] = E[i].phase
           /\ IsFiniteSet(Recorded(E)) /\ Cardinality(Recorded(E)) \in Nat
<1>1. IsFiniteSet(Recorded(E)) /\ Cardinality(Recorded(E)) \in Nat
  <2>1. Recorded(E) \in SUBSET Intent
      BY DEF Recorded
  <2> QED BY <2>1, InvestmentAssumption, FS_Subset, FS_CardinalityType
<1> QED BY <1>1 DEF PhaseOf, PhaseMap, Entries, Entry, Absent

\* However many orders of an accepted batch are recorded, the entries are sound.
LEMMA AdmitSound ==
    ASSUME NEW E \in Entries, Sound(E), NEW K \in SUBSET Intent, Acceptable(E, K),
           NEW L \in SUBSET K
    PROVE  Admitted(E, L) \in Entries /\ Sound(Admitted(E, L))
<1> DEFINE G == Admitted(E, L)
<1>1. G \in Entries
    BY PhaseFacts DEF Admitted, Entries
<1>2. /\ \A i \in L : G[i].phase = "Prepared" /\ E[i].phase = "Absent"
      /\ \A i \in Intent \ L : G[i] = E[i]
    BY PhaseFacts DEF Admitted, Acceptable
<1>3. Recorded(G) = Recorded(E) \cup L
    BY <1>2, PhaseFacts DEF Recorded
<1>4. Exclusive(G)
  <2> SUFFICES ASSUME NEW i \in Intent, NEW j \in Intent, i # j,
                      G[i].phase \in Holding, G[j].phase \in Holding
               PROVE  ResOf[i] \cap ResOf[j] = {}
      BY DEF Exclusive
  <2>1. CASE i \in L /\ j \in L
      BY <2>1 DEF Acceptable
  <2>2. CASE i \in L /\ j \notin L
      BY <1>2, <2>2 DEF Acceptable
  <2>3. CASE i \notin L /\ j \in L
      BY <1>2, <2>3 DEF Acceptable
  <2>4. CASE i \notin L /\ j \notin L
      BY <1>2, <2>4 DEF Sound, Exclusive
  <2> QED BY <2>1, <2>2, <2>3, <2>4
<1>5. SignatureUnique(G)
    BY <1>3 DEF SignatureUnique, Sound, Acceptable
<1>6. PlansCoherent(G)
  <2> SUFFICES ASSUME NEW p \in Plan PROVE Coherent(p, PhaseOf(G))
      BY DEF PlansCoherent
  <2>1. /\ PhaseOf(E) \in PhaseMap /\ PhaseOf(G) \in PhaseMap
        /\ \A i \in Intent : PhaseOf(E)[i] = E[i].phase /\ PhaseOf(G)[i] = G[i].phase
      BY <1>1, PhasesOf
  <2>2. CASE Members(p) \cap L = {}
    <3>1. \A i \in Members(p) : PhaseOf(E)[i] = PhaseOf(G)[i]
        BY <1>2, <2>1, <2>2 DEF Members
    <3> QED BY <2>1, <3>1, SameChain DEF Sound, PlansCoherent
  <2>3. CASE Members(p) \cap L # {}
    <3>1. PICK i \in Members(p) : i \in L
        BY <2>3
    <3> DEFINE o == Others(E, K, i)
               g == [o EXCEPT ![i] = "Prepared"]
    <3>2. o \in PhaseMap /\ g \in PhaseMap
        BY <2>1 DEF Others, PhaseMap, Phase
    <3>3. /\ i \in Intent /\ i \in K /\ Admissible(i, o) /\ TrancheOf[i] # NoTranche
          /\ TrancheOf[i].plan = p
        BY <3>1, MemberTranche DEF Acceptable, Members
    <3>4. o[i] = "Absent"
        BY <1>2, <3>1, <3>3 DEF Others
    <3>5. Done(p, o) = Live(p, o)
        BY <3>3 DEF Admissible, Progress
    <3>6. \A j \in Members(p) \ {i} : j \notin K
        BY <3>5 DEF Done, Live, Others, Members
    <3>7. Coherent(p, g)
        BY <3>1, <3>2, <3>3, <3>4, AdmitChain
    <3>8. \A j \in Members(p) : g[j] = PhaseOf(G)[j]
      <4> TAKE j \in Members(p)
      <4>1. j \in Intent
          BY DEF Members
      <4>2. CASE j = i
          BY <1>2, <2>1, <3>1, <3>2, <4>1, <4>2 DEF Others
      <4>3. CASE j # i
        <5>1. j \notin K
            BY <3>6, <4>3
        <5> QED BY <1>2, <2>1, <4>1, <4>3, <5>1 DEF Others
      <4> QED BY <4>2, <4>3
    <3> QED BY <2>1, <3>2, <3>7, <3>8, SameChain
  <2> QED BY <2>2, <2>3
<1>7. Cardinality(Recorded(G)) <= Capacity
  <2>1. /\ IsFiniteSet(Recorded(E)) /\ Cardinality(Recorded(E)) \in Nat
        /\ IsFiniteSet(K) /\ Cardinality(K) \in Nat
        /\ IsFiniteSet(L) /\ Cardinality(L) \in Nat /\ Cardinality(L) <= Cardinality(K)
      BY PhasesOf, InvestmentAssumption, FS_Subset, FS_CardinalityType
  <2>2. Recorded(E) \cap L = {}
      BY <1>2 DEF Recorded
  <2>3. Cardinality(Recorded(G)) = Cardinality(Recorded(E)) + Cardinality(L)
    <3>1. Cardinality(Recorded(E) \cup L)
            = Cardinality(Recorded(E)) + Cardinality(L) - Cardinality(Recorded(E) \cap L)
        BY <2>1, FS_Union
    <3>2. Cardinality(Recorded(E) \cap L) = 0
        BY <2>2, FS_EmptySet
    <3> QED BY <1>3, <2>1, <3>1, <3>2
  <2> QED BY <2>1, <2>3, LifecycleAssumption DEF Acceptable
<1> QED BY <1>1, <1>4, <1>5, <1>6, <1>7 DEF Sound

\* Advancing orders along their lifecycle keeps the entries sound.
LEMMA MoveSound ==
    ASSUME NEW E \in Entries, NEW G \in Entries, Sound(E),
           \A i \in Intent : G[i] = E[i] \/ Allowed(E[i].phase, G[i].phase)
    PROVE  Sound(G)
<1>1. \A i \in Intent : /\ G[i].phase # "Absent" <=> E[i].phase # "Absent"
                        /\ G[i].phase \in Holding => E[i].phase \in Holding
    BY DEF Allowed, Holding, Open, Phase, Terminal
<1>2. Recorded(G) = Recorded(E)
    BY <1>1 DEF Recorded
<1>3. Exclusive(G) /\ SignatureUnique(G)
    BY <1>1, <1>2 DEF Sound, Exclusive, SignatureUnique
<1>4. ASSUME NEW p \in Plan PROVE Coherent(p, PhaseOf(G))
  <2>1. /\ PhaseOf(E) \in PhaseMap /\ PhaseOf(G) \in PhaseMap
        /\ \A i \in Members(p) : PhaseOf(E)[i] = E[i].phase /\ PhaseOf(G)[i] = G[i].phase
      BY PhasesOf DEF Members
  <2>2. \A i \in Members(p) :
            PhaseOf(G)[i] = PhaseOf(E)[i] \/ Allowed(PhaseOf(E)[i], PhaseOf(G)[i])
      BY <2>1 DEF Members
  <2> QED BY <2>1, <2>2, MoveChain DEF Sound, PlansCoherent
<1> QED BY <1>2, <1>3, <1>4 DEF Sound, PlansCoherent

\* Before anything is recorded the entries are sound.
LEMMA NothingSound ==
    ASSUME NEW E, E = [i \in Intent |-> Absent]
    PROVE  E \in Entries /\ Sound(E)
<1>1. E \in Entries /\ Recorded(E) = {} /\ \A i \in Intent : E[i].phase = "Absent"
    BY PhaseFacts DEF Entries, Recorded
<1>2. ASSUME NEW p \in Plan PROVE Coherent(p, PhaseOf(E))
  <2>1. PhaseOf(E) \in PhaseMap /\ \A i \in Intent : PhaseOf(E)[i] = "Absent"
      BY <1>1, PhasesOf
  <2>2. Live(p, PhaseOf(E)) = {}
      BY <2>1 DEF Live
  <2>3. Cardinality(Live(p, PhaseOf(E))) = 0 /\ 0 .. 0 - 1 = {}
      BY <2>2, FS_EmptySet
  <2> QED BY <2>1, <2>2, <2>3 DEF Coherent
<1>3. Cardinality(Recorded(E)) <= Capacity
    BY <1>1, FS_EmptySet, LifecycleAssumption
<1>4. Exclusive(E) /\ SignatureUnique(E)
    BY <1>1, PhaseFacts DEF Exclusive, SignatureUnique, Holding
<1> QED BY <1>1, <1>2, <1>3, <1>4 DEF Sound, PlansCoherent

\* Being later is transitive.
LEMMA LaterTransitive ==
    ASSUME NEW a \in Entry \cup {Absent}, NEW b \in Entry \cup {Absent},
           NEW c \in Entry \cup {Absent}, Later(a, b), Later(b, c)
    PROVE  Later(a, c)
BY DEF Later, Allowed, Open, Entry, Phase, Absent
=============================================================================
