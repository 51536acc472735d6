----------------------------- MODULE FlowFolding -----------------------------
(***************************************************************************)
(* Flow folding: intents that sell one asset for another cross each other  *)
(* in whole lots, a lot of every asset being worth the same.  The crossing *)
(* is a circulation over the assets, improved one cycle of the residual    *)
(* graph at a time; a cycle may run against an earlier crossing and undo   *)
(* it.  What does not cross goes to the venues in groups of one pair, and  *)
(* what they return is distributed over the members of the group.          *)
(*                                                                         *)
(* Lots come from the bank (fold_lots), or from prices, as the quotients   *)
(* of their least common multiple (fold).  The work meter is left out: the *)
(* host's allowance exceeds what the bounds on intents, assets and pivots  *)
(* permit.                                                                 *)
(***************************************************************************)
EXTENDS Integers, Sequences, FiniteSets, FiniteSetsExt

CONSTANTS
    Cells,      \* [orders, lots, gives]: intents, the lots of the assets, and
                \* what the bank gives for n atoms of the second asset; <<>>
                \* if the lots do not come from a bank
    MaxTries,   \* probes for the second lot, 8 in the code
    MaxError,   \* MAX_CLEARING_LOT_ERROR_BPS
    FoldBps,    \* 10_000
    MaxPivots,  \* MAX_PIVOTS
    MaxGroups,  \* MAX_EDGES
    MaxBonus,   \* bound: what a venue pays above a group's floor
    NoArc

\* What decoding gives: unsigned amounts and minima, and two of the assets.
FlowFields(o, assets) ==
    /\ o.owner \in Nat /\ o.nonce \in Nat /\ o.amount \in Nat /\ o.least \in Nat
    /\ o.sell \in assets /\ o.buy \in assets

\* There are at least two assets, and none has empty lots.
ASSUME FoldAssumption ==
    /\ MaxTries \in Nat /\ MaxBonus \in Nat
    /\ \A c \in Cells :
         /\ c = [orders |-> c.orders, lots |-> c.lots, gives |-> c.gives]
         /\ Len(c.lots) \in Nat /\ Len(c.lots) >= 2 /\ DOMAIN c.lots = 1..Len(c.lots)
         /\ \A a \in DOMAIN c.lots : c.lots[a] \in Nat \ {0}
         /\ Len(c.orders) \in Nat /\ DOMAIN c.orders = 1..Len(c.orders)
         /\ \A i \in DOMAIN c.orders : FlowFields(c.orders[i], DOMAIN c.lots)
         /\ c.gives # <<>> =>
              /\ Len(c.gives) \in Nat \ {0} /\ DOMAIN c.gives = 1..Len(c.gives)
              /\ \A n \in DOMAIN c.gives : c.gives[n] \in Nat
              /\ Len(c.lots) >= 3

VARIABLES
    cell,       \* the intents, [owner, nonce, sell, buy, amount, least], and lots
    flow,       \* lots of each intent that cross
    pivots,     \* cycles so far
    paid,       \* what the venues returned for each group, once they did
    phase       \* "fold", "folded", "settled", "refused"

foldVars == <<cell, flow, pivots, paid, phase>>

Orders == DOMAIN cell.orders
Sold(i) == cell.orders[i].sell
Wanted(i) == cell.orders[i].buy
Lot(a) == cell.lots[a]

Total(f, S) == LET amount(i) == f[i] IN MapThenSumSet(amount, S)

\* An intent crosses only if its lots keep its limit.
Capacity(i) ==
    LET o == cell.orders[i] IN
    IF Lot(o.buy) * o.amount >= Lot(o.sell) * o.least THEN o.amount \div Lot(o.sell) ELSE 0

-----------------------------------------------------------------------------
(* The second lot: as many atoms as bring in the third lot, nearly.        *)

Distance(a, b) == IF a > b THEN a - b ELSE b - a
Clamp(n, most) == IF n < 1 THEN 1 ELSE IF n > most THEN most ELSE n
Probed(s, gives, out, stock) ==
    LET next == Clamp((s.atoms * stock + out - 1) \div out, Len(gives)) IN
    [atoms |-> next,
     best  |-> IF s.best = 0 THEN s.atoms
               ELSE IF Distance(out, stock) < Distance(gives[s.best], stock) THEN s.atoms ELSE s.best,
     over  |-> next = s.atoms]
Probe(s, gives, stock) ==
    IF s.over THEN s
    ELSE IF gives[s.atoms] = 0 THEN [atoms |-> s.atoms, best |-> 0, over |-> TRUE]
    ELSE Probed(s, gives, gives[s.atoms], stock)
\* The best probe (the first one is of the most atoms the model knows), or 0
\* if the bank gives nothing for one of them.
SecondLot(gives, stock) ==
    LET probed[k \in 0..MaxTries] ==
          IF k = 0 THEN [atoms |-> Len(gives), best |-> 0, over |-> FALSE]
          ELSE Probe(probed[k - 1], gives, stock)
    IN  probed[MaxTries].best
Anchored(c, lot) == [c EXCEPT !.lots[2] = lot]
Offered(c) == IF c.gives = <<>> THEN c ELSE Anchored(c, SecondLot(c.gives, c.lots[3]))

Acceptable(c) ==
    /\ c.lots[2] > 0
    /\ c.gives # <<>> =>
         Distance(c.gives[c.lots[2]], c.lots[3]) * FoldBps <= MaxError * c.lots[3]
    /\ \A i \in DOMAIN c.orders : c.orders[i].sell # c.orders[i].buy /\ c.orders[i].amount > 0
    /\ \A i, j \in DOMAIN c.orders :
         i # j => c.orders[i].owner # c.orders[j].owner \/ c.orders[i].nonce # c.orders[j].nonce

FoldInit ==
    /\ cell \in {Offered(c) : c \in Cells}
    /\ flow = [i \in Orders |-> 0]
    /\ pivots = 0 /\ paid = <<>>
    /\ phase = IF Acceptable(cell) THEN "fold" ELSE "refused"

-----------------------------------------------------------------------------
(* The residual graph: an arc forth with what may still cross, and one     *)
(* back with what crosses already.                                         *)

Arc(i, back) ==
    [order |-> i, back |-> back,
     from |-> IF back THEN Wanted(i) ELSE Sold(i),
     to   |-> IF back THEN Sold(i) ELSE Wanted(i),
     cap  |-> IF back THEN flow[i] ELSE Capacity(i) - flow[i],
     cost |-> IF back THEN -1 ELSE 1]

\* mutant of Arcs: what crosses is never undone.
ForwardArcs == [k \in 1..Len(cell.orders) |-> Arc(k, FALSE)]
Arcs == [k \in 1..(2 * Len(cell.orders)) |-> Arc((k + 1) \div 2, k % 2 = 0)]

\* Longest walks: an arc is taken when it leads to more.
Relax(s, arc) ==
    IF arc.cap > 0 /\ s.far[arc.to] < s.far[arc.from] + arc.cost
    THEN [far |-> [s.far EXCEPT ![arc.to] = s.far[arc.from] + arc.cost],
          via |-> [s.via EXCEPT ![arc.to] = arc], last |-> arc.to]
    ELSE s
Swept(s, arcs) ==
    LET after[k \in 0..Len(arcs)] ==
          IF k = 0 THEN [s EXCEPT !.last = 0] ELSE Relax(after[k - 1], arcs[k])
    IN  after
\* Nothing was improved: nothing will be.
Sweep(s, arcs) == IF s.last = 0 THEN s ELSE Swept(s, arcs)[Len(arcs)]
Unswept ==
    [far |-> [a \in DOMAIN cell.lots |-> 0], via |-> [a \in DOMAIN cell.lots |-> NoArc], last |-> 1]
\* As many sweeps as there are assets.
Sweeps(arcs) ==
    LET after[k \in 0..Len(cell.lots)] ==
          IF k = 0 THEN Unswept ELSE Sweep(after[k - 1], arcs)
    IN  after

\* From the last asset that was improved back along the arcs: after as many
\* steps as there are assets the trail is on the cycle, and goes around it.
Trail(via, start) ==
    LET at[n \in 0..(2 * Len(cell.lots))] == IF n = 0 THEN start ELSE via[at[n - 1]].from
    IN  at
Around(via, trail) ==
    LET most == Len(cell.lots)
        n == Min({n \in DOMAIN cell.lots : trail[most + n] = trail[most]})
    IN  {via[trail[most + k]] : k \in 0..(n - 1)}
CycleOf(s) == IF s.last = 0 THEN {} ELSE Around(s.via, Trail(s.via, s.last))
ImprovingCycle == CycleOf(Sweeps(Arcs)[Len(cell.lots)])

Push(cycle) ==
    LET delta == Min({e.cap : e \in cycle})
        On(i, back) == IF \E e \in cycle : e.order = i /\ e.back = back THEN delta ELSE 0
    IN  flow' = [i \in Orders |-> flow[i] + On(i, FALSE) - On(i, TRUE)]

\* One improvement.
Turn(cycle) ==
    IF cycle = {} THEN phase' = "folded" /\ UNCHANGED <<flow, pivots>>
    ELSE IF pivots = MaxPivots THEN phase' = "refused" /\ UNCHANGED <<flow, pivots>>
    ELSE Push(cycle) /\ pivots' = pivots + 1 /\ UNCHANGED phase
Pivot == phase = "fold" /\ Turn(ImprovingCycle) /\ UNCHANGED <<cell, paid>>

-----------------------------------------------------------------------------
(* What is left, and what comes back.                                      *)

Spent(i) == flow[i] * Lot(Sold(i))
Crossed(i) == flow[i] * Lot(Wanted(i))
Rest(i) == cell.orders[i].amount - Spent(i)
StillOwed(i) == IF cell.orders[i].least > Crossed(i) THEN cell.orders[i].least - Crossed(i) ELSE 0
Open == {i \in Orders : Rest(i) > 0}

GroupOf(i) == <<Sold(i), Wanted(i)>>
Groups == {GroupOf(i) : i \in Open}
Members(g) == {i \in Open : GroupOf(i) = g}
AmountIn(g) == Total([i \in Orders |-> Rest(i)], Members(g))
MinOut(g) == Total([i \in Orders |-> StillOwed(i)], Members(g))

\* A member gets what it is owed, and its part of what is above that.
Fair(g, observed, i) ==
    StillOwed(i) + ((observed - MinOut(g)) * Rest(i)) \div AmountIn(g)
\* Dust is for the first owner and nonce.
Earlier(i, j) ==
    \/ cell.orders[i].owner < cell.orders[j].owner
    \/ cell.orders[i].owner = cell.orders[j].owner /\ cell.orders[i].nonce < cell.orders[j].nonce
First(g) == CHOOSE i \in Members(g) : \A j \in Members(g) : i = j \/ Earlier(i, j)
Distribute(g, observed) ==
    LET fair == [i \in Members(g) |-> Fair(g, observed, i)] IN
    [fair EXCEPT ![First(g)] = @ + (observed - Total(fair, Members(g)))]

Credit(i, observed) ==
    Crossed(i) + IF i \in Open THEN Distribute(GroupOf(i), observed[GroupOf(i)])[i] ELSE 0

\* The last check of a settlement: every intent gave all of its input and got
\* its least, and every asset is conserved.
Verified(observed) ==
    /\ \A i \in Orders : Credit(i, observed) >= cell.orders[i].least
    /\ \A a \in DOMAIN cell.lots :
         Total([i \in Orders |-> cell.orders[i].amount], {i \in Orders : Sold(i) = a})
         + Total(observed, {g \in Groups : g[2] = a})
         = Total([i \in Orders |-> Credit(i, observed)], {i \in Orders : Wanted(i) = a})
           + Total([g \in Groups |-> AmountIn(g)], {g \in Groups : g[1] = a})

\* The venues return something above the floor of every group.
Settle ==
    /\ phase = "folded"
    /\ IF Cardinality(Groups) > MaxGroups THEN phase' = "refused" /\ UNCHANGED paid
       ELSE \E bonus \in [Groups -> 0..MaxBonus] :
              /\ paid' = [g \in Groups |-> MinOut(g) + bonus[g]]
              /\ phase' = "settled"
    /\ UNCHANGED <<cell, flow, pivots>>

\* A venue that returns less than the floor ends it.
Short == phase = "folded" /\ phase' = "refused" /\ UNCHANGED <<cell, flow, pivots, paid>>

FoldOver == phase \in {"settled", "refused"} /\ UNCHANGED foldVars

FoldNext == Pivot \/ Settle \/ Short \/ FoldOver

FoldSpec == FoldInit /\ [][FoldNext]_foldVars

-----------------------------------------------------------------------------
Balanced(f) ==
    \A a \in DOMAIN cell.lots :
        Total(f, {i \in Orders : Sold(i) = a}) = Total(f, {i \in Orders : Wanted(i) = a})
Circulations(c) == {f \in [Orders -> 0..Max({c[i] : i \in Orders})] :
                      (\A i \in Orders : f[i] <= c[i]) /\ Balanced(f)}
Lots(f) == Total(f, Orders)

\* A finished folding is a circulation within every intent's limit, and no
\* other one crosses more lots: the certificate is never wrong (clearing:
\* "Residual reverse edges can UNDO earlier crossings.  A pair-first greedy
\* matcher cannot do that and can strand a more valuable multi-asset cycle").
FoldIsOptimal ==
  phase # "refused" =>
    /\ flow \in Circulations([i \in Orders |-> Capacity(i)])
    /\ phase = "folded" =>
         \A f \in Circulations([i \in Orders |-> Capacity(i)]) : Lots(f) <= Lots(flow)

\* Whatever the venues return above the floors, everybody who gave all of the
\* input gets the least it signed for, and not one atom is made or lost.
SettlementHolds == phase = "settled" => Verified(paid)

\* What is folded is a largest circulation of whole lots, every flow order
\* gets what it is owed, and all that is left is paid out.
FoldingHolds == FoldIsOptimal /\ SettlementHolds
=============================================================================
