----------------------------- MODULE RouteSearch -----------------------------
(***************************************************************************)
(* What the host computes when it plans an order over several worlds of    *)
(* venues: the proposals of one world, the routes of a sale, the paths and *)
(* the split of a purchase, and the venues that a transaction is given.    *)
(*                                                                         *)
(* A pool is [name, from, to, out, heap, arrays]; out[x] is what it gives  *)
(* in all for x atoms, and more than Len(out) is beyond its capacity. A    *)
(* world is a sequence of pools of one pair, a lane the worlds that lead   *)
(* to one product.                                                         *)
(*                                                                         *)
(* The exchange refinement splits an amount over venues whose exact quotes *)
(* are only known one call at a time. It starts from the best even split   *)
(* over at most `legs` venues, then moves a step of atoms from one venue   *)
(* to another while that gains, and halves the step down to one atom.      *)
(* Calls are limited: a search that ran into the limit says so.            *)
(* price[i][x] is the quote of venue i for x atoms, [ok, out, cost]: no    *)
(* atoms cost nothing and give nothing, and a quote may fail.              *)
(***************************************************************************)
EXTENDS Integers, Sequences, FiniteSets, SequencesExt, FiniteSetsExt, Folds

CONSTANTS
    MaxRounds,  \* exchanges at one step, 32 in the code
    NoPlan

Summed(f, S) == FoldSet(LAMBDA i, a : f[i] + a, 0, S)
Holders(inputs) == {i \in DOMAIN inputs : inputs[i] > 0}

\* A plan, priced.
Priced(price, inputs) ==
    [inputs |-> inputs,
     output |-> Summed([i \in DOMAIN inputs |-> price[i][inputs[i]].out], DOMAIN inputs),
     cost |-> Summed([i \in DOMAIN inputs |-> price[i][inputs[i]].cost], DOMAIN inputs)]
Nothing(price) == [inputs |-> [i \in DOMAIN price |-> 0], output |-> 0, cost |-> 0]

-----------------------------------------------------------------------------
(* The even splits, in the order of the code's bit masks.                  *)

\* The sets of the first n venues but the empty one: after those without
\* venue k, the same ones with it.
Doubled(sets, k) == sets \o [i \in DOMAIN sets |-> sets[i] \cup {k}]
Masks(n) ==
    LET f[k \in 0..n] == IF k = 0 THEN <<{}>> ELSE Doubled(f[k - 1], k) IN Tail(f[n])

\* The venues that come later get the atoms that do not divide.
Evenly(mask, amount, i) ==
    (amount \div Cardinality(mask))
      + IF Cardinality({j \in mask : j > i}) < amount % Cardinality(mask) THEN 1 ELSE 0

\* Venues are asked one after the other, up to the first that fails.
Failing(price, inputs) == {i \in Holders(inputs) : ~price[i][inputs[i]].ok}
Asked(inputs, failing) ==
    IF failing = {} THEN Cardinality(Holders(inputs))
    ELSE Cardinality({j \in Holders(inputs) : j <= Min(failing)})
Kept(best, plan, ok, limits) ==
    IF ok /\ plan.cost <= limits.cost /\ plan.output > best.output THEN plan ELSE best
Counted(price, limits, s, inputs, failing, calls) ==
    [calls |-> Min({calls, limits.calls}),
     best |-> Kept(s.best, Priced(price, inputs), failing = {} /\ calls <= limits.calls, limits)]
AskAll(price, limits, s, inputs, failing) ==
    Counted(price, limits, s, inputs, failing, s.calls + Asked(inputs, failing))
AskSplit(price, limits, s, inputs) ==
    AskAll(price, limits, s, inputs, Failing(price, inputs))
TrySplit(price, amount, limits, s, mask) ==
    IF s.calls = limits.calls \/ Cardinality(mask) > Min({limits.legs, amount}) THEN s
    ELSE AskSplit(price, limits, s,
                  [i \in DOMAIN price |-> IF i \in mask THEN Evenly(mask, amount, i) ELSE 0])

SeedOver(price, amount, limits, masks) ==
    LET f[k \in 0..Len(masks)] ==
            IF k = 0 THEN [calls |-> 0, best |-> Nothing(price)]
            ELSE TrySplit(price, amount, limits, f[k - 1], masks[k])
    IN  f[Len(masks)]
Seed(price, amount, limits) == SeedOver(price, amount, limits, Masks(Len(price)))

-----------------------------------------------------------------------------
(* Exchanges.                                                              *)

\* Another venue is opened at the limit only if the giver gives all it has.
MayMove(best, step, from, to, limits) ==
    LET take == Min({step, best.inputs[from]}) IN
    /\ from # to /\ best.inputs[from] > 0
    /\ ~(best.inputs[to] = 0 /\ take < best.inputs[from]
           /\ Cardinality(Holders(best.inputs)) = limits.legs)

Moved(best, step, from, to) ==
    LET take == Min({step, best.inputs[from]}) IN
    [best.inputs EXCEPT ![from] = @ - take, ![to] = @ + take]

Answered(price, inputs, move) == \A i \in Range(move) : price[i][inputs[i]].ok
AskMove(price, limits, s, move, inputs) ==
    [s EXCEPT !.calls = @ + IF inputs[move[1]] = 0 THEN 1 ELSE 2,
              !.next = Kept(@, Priced(price, inputs), Answered(price, inputs, move), limits)]
TryMove(price, limits, step, best, s, move) ==
    IF s.over \/ ~MayMove(best, step, move[1], move[2], limits) THEN s
    ELSE IF s.calls + 2 > limits.calls THEN [s EXCEPT !.over = TRUE]
    ELSE AskMove(price, limits, s, move, Moved(best, step, move[1], move[2]))

\* Every pair of venues, by the one that gives.
Move(n, k) == <<((k - 1) \div n) + 1, ((k - 1) % n) + 1>>
MovePairs(n) == n * n
Unmoved(s) == [over |-> FALSE, calls |-> s.calls, next |-> s.best]
Tried(price, limits, s, step) ==
    LET f[k \in 0..MovePairs(Len(price))] ==
            IF k = 0 THEN Unmoved(s)
            ELSE TryMove(price, limits, step, s.best, f[k - 1], Move(Len(price), k))
    IN  f[MovePairs(Len(price))]

\* A round that runs into the limit of calls changes nothing.
EndRound(s, tried) ==
    [best |-> IF tried.over THEN s.best ELSE tried.next, calls |-> tried.calls,
     exhausted |-> tried.over, still |-> tried.next.output = s.best.output]
Round(price, limits, s, step) ==
    IF s.exhausted \/ s.still THEN s ELSE EndRound(s, Tried(price, limits, s, step))
Fresh(s) == [best |-> s.best, calls |-> s.calls, exhausted |-> s.exhausted, still |-> FALSE]
AtStep(price, limits, s, step) ==
    LET f[k \in 0..MaxRounds] ==
            IF k = 0 THEN Fresh(s) ELSE Round(price, limits, f[k - 1], step)
    IN  f[MaxRounds]

\* The steps, down to one atom.
HalfOf(n) == Max({1, n \div 2})
Halved(amount) ==
    LET h[k \in 0..amount] == IF k = 0 THEN amount ELSE HalfOf(h[k - 1]) IN h
\* mutant of Halvings: the last atom is never moved.
HalvingsAboveOne(amount) == Min({k \in 1..amount : Halved(amount)[k] = 1}) - 1
Halvings(amount) == Min({k \in 1..amount : Halved(amount)[k] = 1})

Unimproved(seed) ==
    [best |-> seed.best, calls |-> seed.calls, exhausted |-> FALSE, still |-> FALSE]
Improve(price, limits, amount, seed) ==
    LET f[k \in 0..Halvings(amount)] ==
            IF k = 0 THEN Unimproved(seed)
            ELSE AtStep(price, limits, f[k - 1], Halved(amount)[k])
    IN  f[Halvings(amount)]
Refine(price, amount, limits) ==
    LET seed == Seed(price, amount, limits)
    IN  IF seed.best.output = 0 THEN NoPlan ELSE Improve(price, limits, amount, seed)

-----------------------------------------------------------------------------
\* What a plan must be: the whole amount, within the limits, and, when the
\* search says it came to its end, better than everything one exchange of
\* one atom away from it.
Worthless(price, s, move, inputs, limits) ==
    Answered(price, inputs, move) =>
        \/ Priced(price, inputs).output <= s.best.output
        \/ Priced(price, inputs).cost > limits.cost
Refined(price, amount, limits, s) ==
    LET inputs == s.best.inputs IN
    /\ Summed(inputs, DOMAIN inputs) = amount
    /\ \A i \in DOMAIN inputs : price[i][inputs[i]].ok
    /\ s.best = Priced(price, inputs)
    /\ Cardinality(Holders(inputs)) <= limits.legs
    /\ s.best.cost <= limits.cost /\ s.calls <= limits.calls
    /\ ~s.exhausted /\ s.still =>
         \A m \in (DOMAIN price) \X (DOMAIN price) :
             MayMove(s.best, 1, m[1], m[2], limits) =>
                 Worthless(price, s, m, Moved(s.best, 1, m[1], m[2]), limits)

-----------------------------------------------------------------------------
(* Worlds, lanes and transactions.                                         *)

CONSTANTS
    MaxLegs,        \* MAX_LEGS
    MaxCandidates,  \* MAX_CANDIDATES
    MaxVariants,    \* MAX_RESOURCE_ADMISSION_VARIANTS
    MaxOptions,     \* a proposal and its alternatives
    MaxCalls,       \* oracle calls of one search
    Bps,            \* 10_000
    Guard,          \* seconds around a change of a multiplier
    None

\* Every leg has a share to show.
ASSUME RouteAssumption ==
    /\ MaxRounds \in Nat /\ MaxLegs \in Nat /\ MaxCalls \in Nat /\ MaxVariants \in Nat
    /\ MaxVariants >= 2 /\ Bps \in Nat \ {0} /\ MaxLegs <= Bps

Fail == [ok |-> FALSE, out |-> 0, cost |-> 0]
Gives(n, cost) == [ok |-> TRUE, out |-> n, cost |-> cost]

QuotePool(pool, x) ==
    IF x = 0 THEN Gives(0, 0)
    ELSE IF x > Len(pool.out) THEN Fail ELSE Gives(pool.out[x], 0)

-----------------------------------------------------------------------------
(* The proposals of one world: the refined split and single venues.        *)

Leg(pool, x) == [pool |-> pool, input |-> x, output |-> pool.out[x]]
Prices(world, amount) == [i \in DOMAIN world |-> [x \in 0..amount |-> QuotePool(world[i], x)]]

\* The refined split, and the best single venues that can take it all; legs
\* are named by their venue.
Split(world, plan) ==
    {[output |-> plan.output,
      legs |-> [i \in Holders(plan.inputs) |-> Leg(world[i], plan.inputs[i])]]}
Before(price, amount, i, j) ==
    \/ price[i][amount].out > price[j][amount].out
    \/ price[i][amount].out = price[j][amount].out /\ i < j
Singles(world, price, amount, whole) ==
    {[output |-> price[i][amount].out, legs |-> [k \in {i} |-> Leg(world[k], amount)]] :
        i \in {i \in whole : Cardinality({j \in whole : Before(price, amount, j, i)})
                               < MaxOptions - 1}}
AllOptions(world, price, amount, s) ==
    IF s = NoPlan THEN {} ELSE IF s.exhausted THEN {}
    ELSE Split(world, s.best) \cup
         Singles(world, price, amount,
                 {i \in DOMAIN world : s.best.inputs[i] # amount /\ price[i][amount].ok})
FromPrices(world, price, amount) ==
    AllOptions(world, price, amount,
               Refine(price, amount, [calls |-> MaxCalls, cost |-> 0, legs |-> MaxLegs]))
Options(world, amount) ==
    {o \in FromPrices(world, Prices(world, amount), amount) : o.output > 0}

\* Shares of 1/Bps for display: each leg has one, and the largest what is left.
Share(inputs, total, held, i) ==
    IF i \notin held THEN 0
    ELSE 1 + (inputs[i] * (Bps - Cardinality(held))) \div total
Largest(inputs, held) ==
    CHOOSE i \in held : \A j \in held :
        inputs[j] < inputs[i] \/ (inputs[j] = inputs[i] /\ i <= j)
Rounded(share, held, largest) == [share EXCEPT ![largest] = @ + Bps - Summed(share, held)]
Shares(inputs, total) ==
    Rounded([i \in DOMAIN inputs |-> Share(inputs, total, Holders(inputs), i)],
            Holders(inputs), Largest(inputs, Holders(inputs)))

-----------------------------------------------------------------------------
(* A sale: every bounded route of complete proposals is kept to the end.   *)

LegCount(route) == Summed([k \in DOMAIN route |-> Cardinality(DOMAIN route[k].legs)], DOMAIN route)
PoolsOf(legs) == {legs[k].pool.name : k \in DOMAIN legs}
RoutePools(route) == UNION {PoolsOf(route[k].legs) : k \in DOMAIN route}
Held(route, input) == IF route = <<>> THEN input ELSE Last(route).output

Extended(route, input, world, later) ==
    {Append(route, [input |-> Held(route, input), output |-> o.output, legs |-> o.legs]) :
        o \in {o \in Options(world, Held(route, input)) :
                 LegCount(route) + Cardinality(DOMAIN o.legs) + later <= MaxLegs}}

\* mutant of Hop: the best first hop alone is followed.
GreedyHop(front, input, world, later) ==
    {CHOOSE r \in next : \A q \in next : Last(q).output <= Last(r).output :
        next \in {UNION {Extended(r, input, world, later) : r \in front}} \ {{}}}
Hop(front, input, world, later) ==
    UNION {Extended(r, input, world, later) : r \in front}
Routes(worlds, input) ==
    LET f[k \in 0..Len(worlds)] ==
            IF k = 0 THEN {<<>>} ELSE Hop(f[k - 1], input, worlds[k], Len(worlds) - k)
    IN  f[Len(worlds)]

\* A pool that appears twice ends the search; the best route has the most
\* cash, and then the fewest legs.
BestRoute(all) ==
    IF all = {} \/ \E r \in all : Cardinality(RoutePools(r)) # LegCount(r) THEN None
    ELSE CHOOSE r \in all : \A q \in all :
           \/ Last(q).output < Last(r).output
           \/ Last(q).output = Last(r).output /\ LegCount(r) <= LegCount(q)
SellRoute(worlds, input) == BestRoute(Routes(worlds, input))

-----------------------------------------------------------------------------
(* A purchase: paths of one or two pools into the products.                *)

PathsOver(lane, w) ==
    IF Len(w) = 1 THEN [k \in DOMAIN w[1] |-> [lane |-> lane, pools |-> <<w[1][k]>>]]
    ELSE [k \in 1..(Len(w[1]) * Len(w[2])) |->
            [lane |-> lane, pools |-> <<w[1][((k - 1) \div Len(w[2])) + 1],
                                        w[2][((k - 1) % Len(w[2])) + 1]>>]]
LanePaths(lane, prefix) ==
    PathsOver(lane, SubSeq(lane.worlds, prefix + 1, Len(lane.worlds)))
Paths(lanes, prefix) ==
    LET f[k \in 0..Len(lanes)] ==
            IF k = 0 THEN <<>> ELSE f[k - 1] \o LanePaths(lanes[k], prefix)
    IN  f[Len(lanes)]

\* The amounts on the way; a pool that gives nothing ends the path.
Onward(way, q) == IF ~q.ok \/ q.out = 0 THEN <<>> ELSE Append(way, q.out)
Through(way, pool) == IF way = <<>> THEN way ELSE Onward(way, QuotePool(pool, Last(way)))
Along(path, x) ==
    LET f[k \in 0..Len(path.pools)] ==
            IF k = 0 THEN <<x>> ELSE Through(f[k - 1], path.pools[k])
    IN  f[Len(path.pools)]

\* Exposure of raw atoms of a product, rounded down.
Exposure(lane, raw) == (raw * lane.multiplier * lane.bps) \div Bps
Measured(path, way) ==
    IF way = <<>> THEN Fail ELSE Gives(Exposure(path.lane, Last(way)), Len(path.pools))
PathQuote(path, x) == IF x = 0 THEN Gives(0, 0) ELSE Measured(path, Along(path, x))

\* A product whose multiplier is about to change, or just has, is not bought.
Quiet(lane, now) ==
    lane.change = 0 \/ now - lane.change > Guard \/ lane.change - now > Guard

FinalPlan(paths, price, s) ==
    IF s = NoPlan THEN None ELSE IF s.exhausted THEN None
    ELSE [paths |-> paths, inputs |-> s.best.inputs, exposure |-> s.best.output,
          legs |-> s.best.cost, price |-> price, search |-> s]
SplitOver(paths, price, amount, legs) ==
    FinalPlan(paths, price,
              Refine(price, amount, [calls |-> MaxCalls, cost |-> legs,
                                     legs |-> Min({legs, Len(paths)})]))
SolveOver(paths, amount, legs) ==
    IF legs = 0 \/ Len(paths) > MaxCandidates THEN None
    ELSE SplitOver(paths, [i \in DOMAIN paths |-> [x \in 0..amount |-> PathQuote(paths[i], x)]],
                   amount, legs)

-----------------------------------------------------------------------------
(* The venues of a purchase: what is proposed to the program.              *)

Proposal(at, product, pool, x) ==
    [stage |-> at, product |-> product, pool |-> pool, input |-> x]

\* A path that was given nothing is seeded with the amount halved until
\* every pool on it gives something; None if not even one atom does.
Seeds(path, cash) ==
    {n \in {cash \div 2 ^ k : k \in 0..cash} \cup {1} : n > 0 /\ Along(path, n) # <<>>}
SeedOf(good, x) == IF x > 0 THEN x ELSE IF good = {} THEN None ELSE Max(good)

\* The step into a mint belongs to the product of that mint.
ProductOf(lanes, mint) == (CHOOSE l \in Range(lanes) : l.product = mint).product
Steps(path, way, at, lanes) ==
    {Proposal(at, ProductOf(lanes, path.pools[k].to), path.pools[k], way[k]) :
        k \in DOMAIN path.pools}
StepsOf(path, x, at, lanes) == Steps(path, Along(path, x), at, lanes)

\* One proposal for each pool, those of the chosen paths first.
AddSteps(chosen, steps) ==
    chosen \cup {p \in steps : p.pool.name \notin {q.pool.name : q \in chosen}}
Collected(paths, seeds, which, before, at, lanes) ==
    LET f[k \in 0..Len(paths)] ==
            IF k = 0 THEN before
            ELSE IF k \in which
            THEN AddSteps(f[k - 1], StepsOf(paths[k], seeds[k], at, lanes)) ELSE f[k - 1]
    IN  f[Len(paths)]
Seeded(paths, seeds, held, at, lanes) ==
    IF \E i \in DOMAIN paths : seeds[i] = None THEN {}
    ELSE Collected(paths, seeds, DOMAIN paths \ held,
                   Collected(paths, seeds, held, {}, at, lanes), at, lanes)
Candidates(final, cash, lanes, prefix) ==
    Seeded(final.paths,
           [i \in DOMAIN final.paths |-> SeedOf(Seeds(final.paths[i], cash), final.inputs[i])],
           Holders(final.inputs), prefix + 1, lanes)

\* Only a plan over several products or hops is recomputed by the program.
Reflows(final, lanes, prefix) ==
    prefix = 1 \/ Len(lanes) > 1
      \/ \E i \in DOMAIN final.paths : Len(final.paths[i].pools) = 2

Chosen(final, lanes, prefix) ==
    UNION {StepsOf(final.paths[i], final.inputs[i], prefix + 1, lanes) :
             i \in Holders(final.inputs)}

\* A split is of use only if every step leads to a product of the order, and
\* the venues that the program may choose from are found and not too many.
Named(paths, lanes) ==
    \A i \in DOMAIN paths : \A k \in DOMAIN paths[i].pools :
        \E l \in Range(lanes) : l.product = paths[i].pools[k].to
Executable(final, cash, lanes, prefix) ==
    /\ Named(final.paths, lanes)
    /\ Reflows(final, lanes, prefix) =>
         LET venues == Candidates(final, cash, lanes, prefix)
         IN  venues # {} /\ Cardinality(venues) <= MaxCandidates
Equipped(final, cash, lanes, prefix) ==
    IF final = None THEN None
    ELSE IF Executable(final, cash, lanes, prefix) THEN final ELSE None
SolveFinal(lanes, amount, prefix, legs) ==
    Equipped(SolveOver(Paths(lanes, prefix), amount, legs), amount, lanes, prefix)

Funded(lanes, input, prefix) ==
    IF prefix = 0 THEN {[output |-> input, legs |-> [k \in {} |-> None]]}
    ELSE {o \in Options(lanes[1].worlds[1], input) : Cardinality(DOMAIN o.legs) < MaxLegs}

PlanLength(p) == Cardinality(DOMAIN p.funding) + p.final.legs
BestPlan(plans) ==
    IF plans = {} THEN None
    ELSE CHOOSE p \in plans : \A q \in plans :
           \/ q.final.exposure < p.final.exposure
           \/ q.final.exposure = p.final.exposure /\ PlanLength(p) <= PlanLength(q)
SolveExposure(j, input) ==
    IF \E l \in DOMAIN j.lanes : ~Quiet(j.lanes[l], j.now) THEN None
    ELSE BestPlan({p \in {[funding |-> o.legs, cash |-> o.output,
                           final |-> SolveFinal(j.lanes, o.output, j.prefix,
                                                MaxLegs - Cardinality(DOMAIN o.legs))] :
                             o \in Funded(j.lanes, input, j.prefix)} :
                    p.final # None})

-----------------------------------------------------------------------------
(* The venues that go into the transaction.                                *)

FundingLegs(plan) ==
    {Proposal(1, None, plan.funding[k].pool, plan.funding[k].input) : k \in DOMAIN plan.funding}

Proposals(plan, lanes, prefix) ==
    FundingLegs(plan) \cup
      IF Reflows(plan.final, lanes, prefix)
      THEN Candidates(plan.final, plan.cash, lanes, prefix)
      ELSE Chosen(plan.final, lanes, prefix)

\* Venues that may stand for each other.
Kind(p) == <<p.stage, p.product, p.pool.from, p.pool.to>>
Lighter(p, q) ==
    \/ p.pool.heap < q.pool.heap
    \/ p.pool.heap = q.pool.heap /\ p.pool.arrays < q.pool.arrays
    \/ p.pool.heap = q.pool.heap /\ p.pool.arrays = q.pool.arrays /\ p.pool.name <= q.pool.name
\* mutant of Fixed: a funding leg is taken for an alternative of the others.
NoneFixed(p) == FALSE
\* The funding is a split of the input and not a choice.
Fixed(p) == p.product = None

\* All the venues; one of each kind; and that with one of them replaced.
Free(all) == {p \in all : ~Fixed(p)}
Lightest(free) == {p \in free : \A q \in free : Kind(q) = Kind(p) => Lighter(p, q)}
Instead(base, p) == {q \in base : Fixed(q) \/ Kind(q) # Kind(p)} \cup {p}
Swapped(all, base, swaps) ==
    IF swaps = {} THEN <<all>>
    ELSE <<all, base>>
         \o SubSeq(SetToSeq(swaps), 1, Min({Cardinality(swaps), MaxVariants - 2}))
Variants(all) ==
    LET base == (all \ Free(all)) \cup Lightest(Free(all))
    IN  Swapped(all, base, {Instead(base, p) : p \in all \ base})
=============================================================================
