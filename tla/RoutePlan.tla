------------------------------ MODULE RoutePlan ------------------------------
(***************************************************************************)
(* How the host plans an order: a sale walks all bounded routes back to    *)
(* cash; a purchase may first be funded, then splits the cash over the     *)
(* paths to several products, measured by one exposure, and hands the      *)
(* program all the venues it may use.  What does not fit into a            *)
(* transaction is tried again with fewer venues.  A clearing preview lets  *)
(* sellers of the products meet the buyer first and plans only the rest.   *)
(***************************************************************************)
EXTENDS RouteSearch

CONSTANTS
    Jobs            \* [side, lanes, input, prefix, now, sellers, floor]

\* A pool as it is decoded; pools of a world differ, and so do the worlds
\* of a lane; a product that is bought is one or two worlds away.
IsPool(p) ==
    /\ p = [name |-> p.name, from |-> p.from, to |-> p.to, out |-> p.out,
            heap |-> p.heap, arrays |-> p.arrays]
    /\ p.name \in Nat /\ p.heap \in Nat /\ p.arrays \in Nat /\ p.out \in Seq(Nat)
IsWorld(w) ==
    /\ w \in Seq(Range(w)) /\ \A i \in DOMAIN w : IsPool(w[i])
    /\ \A i, k \in DOMAIN w : w[i].name = w[k].name => i = k
IsLane(lane) ==
    /\ lane.worlds \in Seq(Range(lane.worlds)) /\ lane.worlds # <<>>
    /\ \A k \in DOMAIN lane.worlds : IsWorld(lane.worlds[k])
    /\ \A k, l \in DOMAIN lane.worlds : \A p \in Range(lane.worlds[k]), q \in Range(lane.worlds[l]) :
         p.name = q.name => k = l
    /\ lane.multiplier \in Nat /\ lane.bps \in Nat /\ lane.product # None
Depth(j, lane) == Len(lane.worlds) - j.prefix
IsJob(j) ==
    /\ j.input \in Nat \ {0} /\ j.prefix \in {0, 1} /\ j.floor \in Nat
    /\ j.lanes \in Seq(Range(j.lanes)) /\ j.lanes # <<>>
    /\ \A l \in DOMAIN j.lanes : IsLane(j.lanes[l])
    /\ j.sellers \in Seq(Range(j.sellers))
    /\ \A i \in DOMAIN j.sellers :
         j.sellers[i].stock \in Nat /\ j.sellers[i].cash \in Nat /\ j.sellers[i].least \in Nat
    /\ j.side # "sell" => \A l \in DOMAIN j.lanes : Depth(j, j.lanes[l]) \in 1..2
ASSUME JobsAssumption == \A j \in Jobs : IsJob(j)

VARIABLES
    job,        \* what is asked for
    found,      \* the plan, or None
    pending,    \* variants that are still to be tried
    stage       \* "ask", "try", "prepared", "previewed", "refused"

planVars == <<job, found, pending, stage>>

-----------------------------------------------------------------------------
Init == job \in Jobs /\ found = None /\ pending = <<>> /\ stage = "ask"

Reversed(lane) == Reverse(lane.worlds)

Adopt(plan, variants) ==
    /\ found' = plan /\ pending' = variants
    /\ stage' = IF variants = <<>> THEN "refused" ELSE "try"
    /\ UNCHANGED job

AdoptRoute(route) == Adopt(route, IF route = None THEN <<>> ELSE <<RoutePools(route)>>)
Sell ==
    /\ stage = "ask" /\ job.side = "sell"
    /\ AdoptRoute(SellRoute(Reversed(job.lanes[1]), job.input))

Fitting(all) == IF all = {} \/ Cardinality(all) > MaxCandidates THEN <<>> ELSE Variants(all)
AdoptPlan(plan) ==
    Adopt(plan, IF plan = None THEN <<>> ELSE Fitting(Proposals(plan, job.lanes, job.prefix)))
Buy ==
    /\ stage = "ask" /\ job.side = "buy"
    /\ AdoptPlan(SolveExposure(job, job.input))

-----------------------------------------------------------------------------
(* A seller gives stock of one product for cash of the buyer.              *)

LaneOf(j, product) == CHOOSE l \in Range(j.lanes) : l.product = product

\* What sellers in a row get; mutant of CashPaid below.
LastCash(sellers) == Last(sellers).cash
CashPaid(sellers) == Summed([i \in DOMAIN sellers |-> sellers[i].cash], DOMAIN sellers)

SellersFit(j) ==
    /\ j.sellers # <<>>
    /\ \A i \in DOMAIN j.sellers : LET s == j.sellers[i] IN
         /\ s.owner # "buyer"
         /\ \A k \in 1..(i - 1) : j.sellers[k].owner # s.owner
         /\ \E l \in Range(j.lanes) :
              l.product = s.product /\ Exposure(l, s.stock) > 0
         /\ s.cash <= j.input /\ s.least <= s.cash
    /\ CashPaid(j.sellers) <= j.input

\* Atoms and exposure of a product, from the sellers and from the paths.
Got(plan, i) == Last(Along(plan.final.paths[i], plan.final.inputs[i]))
Ways(plan, product) ==
    IF plan = None THEN {}
    ELSE {i \in Holders(plan.final.inputs) : plan.final.paths[i].lane.product = product}
Sellers(j, product) == {i \in DOMAIN j.sellers : j.sellers[i].product = product}
Bought(lane, stock, mine, atoms, ways) ==
    [raw |-> Summed(stock, mine) + Summed(atoms, ways),
     exposure |-> Summed([i \in mine |-> Exposure(lane, stock[i])], mine)
                  + Summed([i \in ways |-> Exposure(lane, atoms[i])], ways)]
BoughtOf(j, plan, product) ==
    Bought(LaneOf(j, product),
           [i \in DOMAIN j.sellers |-> j.sellers[i].stock], Sellers(j, product),
           [i \in Ways(plan, product) |-> Got(plan, i)], Ways(plan, product))

Preview(plan, rest, got, total) ==
    IF total < job.floor THEN stage' = "refused" /\ UNCHANGED found
    ELSE /\ stage' = "previewed"
         /\ found' = [plan |-> plan, rest |-> rest, got |-> got, total |-> total]
PreviewOf(plan, rest, got) ==
    Preview(plan, rest, got, Summed([p \in DOMAIN got |-> got[p].exposure], DOMAIN got))
ClearRest(plan, rest) ==
    IF rest > 0 /\ plan = None THEN stage' = "refused" /\ UNCHANGED found
    ELSE PreviewOf(plan, rest, [p \in {l.product : l \in Range(job.lanes)} |->
                                  BoughtOf(job, plan, p)])
Clear ==
    LET rest == job.input - CashPaid(job.sellers) IN
    /\ stage = "ask" /\ job.side = "clear"
    /\ IF ~SellersFit(job) THEN stage' = "refused" /\ UNCHANGED found
       ELSE ClearRest(IF rest = 0 THEN None ELSE SolveExposure(job, rest), rest)
    /\ UNCHANGED <<job, pending>>

-----------------------------------------------------------------------------
\* The first variant is built and simulated.
Accepted == stage = "try" /\ stage' = "prepared" /\ UNCHANGED <<job, found, pending>>

\* It needs too much of the machine: the next one, if there is one.
TooLarge ==
    /\ stage = "try"
    /\ pending' = Tail(pending)
    /\ stage' = IF Len(pending) = 1 THEN "refused" ELSE "try"
    /\ UNCHANGED <<job, found>>

\* Any other reason is not tried again.
Refused == stage = "try" /\ stage' = "refused" /\ UNCHANGED <<job, found, pending>>

Over == stage \in {"prepared", "previewed", "refused"} /\ UNCHANGED planVars

Next == Sell \/ Buy \/ Clear \/ Accepted \/ TooLarge \/ Refused \/ Over

Spec == Init /\ [][Next]_planVars

-----------------------------------------------------------------------------
\* Every sequence of proposals through the worlds, however it begins; the
\* legs are counted at the end only.
Longer(r, input, world) ==
    {Append(r, [input |-> Held(r, input), output |-> o.output, legs |-> o.legs]) :
        o \in Options(world, Held(r, input))}
LongerAll(front, input, world) == UNION {Longer(r, input, world) : r \in front}
EveryRoute(worlds, input) ==
    LET f[k \in 0..Len(worlds)] ==
            IF k = 0 THEN {<<>>} ELSE LongerAll(f[k - 1], input, worlds[k])
    IN  f[Len(worlds)]
AllRoutes(worlds, input) == {r \in EveryRoute(worlds, input) : LegCount(r) <= MaxLegs}

\* None stands for no route.
ASSUME NoneAssumption ==
    \A j \in Jobs : j.side = "sell" => None \notin AllRoutes(Reversed(j.lanes[1]), j.input)

\* What goes into the legs of a split.
Into(legs) == Summed([k \in DOMAIN legs |-> legs[k].input], DOMAIN legs)

BestOf(all, route) ==
    IF route = None THEN all = {}
    ELSE /\ route \in all
         /\ \A r \in all : Last(r).output <= Last(route).output
         /\ Cardinality(RoutePools(route)) = LegCount(route)
         /\ \A k \in DOMAIN route : Into(route[k].legs) = route[k].input

\* A sale gets the most cash that any complete bounded route of the offered
\* proposals gets (sell_route.rs: "Select a complete bounded reverse route,
\* not the best isolated first hop"), spends all of every stage, and uses no
\* pool twice; it is refused only if there is none.
SaleIsComplete ==
    job.side = "sell" /\ stage # "ask" =>
        BestOf(AllRoutes(Reversed(job.lanes[1]), job.input), found)

KeepsPlan(tried, all) ==
    /\ {Kind(p) : p \in tried} = {Kind(p) : p \in all}
    /\ job.prefix = 1 =>
         LET funds == {p \in tried : p.product = None}
         IN  Summed([p \in funds |-> p.input], funds) = job.input

\* Whatever is left out of a transaction to make it fit, the funding legs
\* still spend the whole input, and every pair of the plan keeps a venue
\* (stockmesh_api.rs: "later variants retain every economic pair").
VariantsKeepThePlan ==
    job.side = "buy" /\ pending # <<>> =>
        KeepsPlan(pending[1], Proposals(found, job.lanes, job.prefix))

\* The split of a purchase is a refined one of the cash that the funding
\* gives, and its legs fit in one transaction with the funding's.
PurchaseIsRefined ==
    job.side = "buy" /\ found # None =>
        /\ Refined(found.final.price, found.cash,
                   [calls |-> MaxCalls, cost |-> MaxLegs - Cardinality(DOMAIN found.funding),
                    legs |-> Min({MaxLegs - Cardinality(DOMAIN found.funding), Len(found.final.paths)})],
                   found.final.search)
        /\ Cardinality(DOMAIN found.funding) + found.final.legs <= MaxLegs
        /\ LET shares == Shares(found.final.inputs, found.cash) IN
           /\ Summed(shares, DOMAIN shares) = Bps
           /\ \A i \in DOMAIN shares : (shares[i] > 0) = (found.final.inputs[i] > 0)

\* A preview spends all of the buyer's cash, on the sellers and on a plan for
\* exactly the rest, and the products it promises carry the exposure that the
\* buyer asked for.
ClearingAddsUp ==
    stage = "previewed" =>
        LET value == [p \in DOMAIN found.got |-> Exposure(LaneOf(job, p), found.got[p].raw)]
            spent == IF found.plan = None THEN 0
                     ELSE IF job.prefix = 1 THEN Into(found.plan.funding)
                     ELSE Summed(found.plan.final.inputs, DOMAIN found.plan.final.inputs)
            paid == [i \in DOMAIN job.sellers |-> job.sellers[i].cash]
        IN  /\ spent + Summed(paid, DOMAIN paid) = job.input
            /\ Summed(value, DOMAIN value) >= job.floor
            /\ \A i \in DOMAIN job.sellers : job.sellers[i].cash >= job.sellers[i].least

-----------------------------------------------------------------------------
\* What the chosen paths obtain when they are executed one after the other
\* on the pools they share.
Executed(plan) ==
    LET paths == plan.final.paths
        Spend(s, pool) ==
            LET used == IF pool.name \in DOMAIN s.used THEN s.used[pool.name] ELSE 0
                Given(n) == IF n = 0 THEN 0 ELSE pool.out[Min({n, Len(pool.out)})]
            IN  [amount |-> Given(used + s.amount) - Given(used),
                 used |-> [q \in DOMAIN s.used \cup {pool.name} |->
                             IF q = pool.name THEN used + s.amount ELSE s.used[q]]]
        Whole(s, i) ==
            LET way == FoldLeft(Spend, [amount |-> plan.final.inputs[i], used |-> s.used],
                                paths[i].pools)
            IN  [used |-> way.used, got |-> s.got + Exposure(paths[i].lane, way.amount)]
    IN  FoldLeft(Whole, [used |-> [q \in {} |-> 0], got |-> 0],
                 SelectSeq([i \in DOMAIN paths |-> i], LAMBDA i : plan.final.inputs[i] > 0)).got

\* The exposure that is quoted can be obtained: the paths the search splits
\* the cash over do not stand in each other's way (oracle.rs: "Edges must
\* have disjoint writable market state").
QuotedIsObtainable ==
    job.side = "buy" /\ found # None => Executed(found) >= found.final.exposure
=============================================================================
