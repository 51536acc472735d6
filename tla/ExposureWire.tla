---------------------------- MODULE ExposureWire ----------------------------
(***************************************************************************)
(* A purchase on its way from the chosen proposals to the settlement       *)
(* program (exposure_wire.rs, called by direct_prepare.rs and              *)
(* basket_wire.rs): the accounts of the execution bank are planned on the  *)
(* bank of the quote, fetched while prices move, and the order is compiled *)
(* on what came back.                                                      *)
(*                                                                         *)
(* A job is [input, amount, keep, reflow, products, proposals, sellers]:   *)
(* the mint it spends and how much, the part in tenths of the expected     *)
(* funding that must arrive, whether the split is left to the program,     *)
(* products [id, mint, policy, claim, least], proposals, of which the      *)
(* second stage makes it a funded order, and the sellers of a cell.        *)
(***************************************************************************)
EXTENDS MeshWire

CONSTANTS
    Jobs,
    Discovery,      \* [pools -> the array of the price when it was quoted]
    Fetches,        \* the prices that the execution bank may come back with
    Rank,           \* [mints -> Nat]: the order of their bytes
    MaxBankKeys     \* 100

VARIABLES job, phase, bank, at, wire

wireVars == <<job, phase, bank, at, wire>>

-----------------------------------------------------------------------------
(* Shapes.                                                                 *)

Stage(j, n) == SelectSeq(j.proposals, LAMBDA p : p.stage = n)
IsFunded(j) == Stage(j, 2) # <<>>
IsMesh(j) == j.sellers # <<>>
Cash(j) == IF IsFunded(j) THEN Stage(j, 1)[1].market.to ELSE j.input
Purchases(j) == Stage(j, IF IsFunded(j) THEN 2 ELSE 1)
ProductMints(j) == {j.products[i].mint : i \in DOMAIN j.products}
ProductIds(j, mint) == {j.products[i].id : i \in {k \in DOMAIN j.products : j.products[k].mint = mint}}
DirectMints(j) == {p.market.to : p \in {q \in Range(Purchases(j)) : q.market.from = Cash(j)}}

\* Every purchase is of an admitted product, paid in cash or in a product
\* that cash buys, and every product is bought.
PurchasesFit(j) ==
    /\ \A k \in DOMAIN Purchases(j) : LET p == Purchases(j)[k] IN
         /\ ProductIds(j, p.market.to) = {p.product}
         /\ p.market.from = Cash(j) \/ p.market.from \in DirectMints(j) \cap ProductMints(j)
         /\ p.market.from # p.market.to
    /\ {p.market.to : p \in Range(Purchases(j))} = ProductMints(j)
FundingFits(j) ==
    /\ Len(Stage(j, 1)) \in 1..3 /\ Cash(j) # j.input
    /\ \A k \in DOMAIN Stage(j, 1) : LET p == Stage(j, 1)[k] IN
         p.product = None /\ p.market.from = j.input /\ p.market.to = Cash(j)
ShapeFits(j) ==
    /\ Len(j.products) \in 1..MaxProducts /\ Len(j.proposals) \in 1..MaxCandidates
    /\ \A k \in DOMAIN j.proposals : j.proposals[k].stage \in 1..2
    /\ Once([i \in DOMAIN j.products |-> j.products[i].id])
    /\ Once([i \in DOMAIN j.products |-> j.products[i].mint])
    /\ Once(Pools(j.proposals))
    /\ Cash(j) \notin ProductMints(j)
    /\ IsFunded(j) => FundingFits(j)
    /\ PurchasesFit(j)

-----------------------------------------------------------------------------
(* The bank.                                                               *)

\* Every array of a market is asked for, and the bitmap if the price of the
\* quote needs it.  The first form is a mutant of it, which asks for the
\* arrays that lie ahead only.
DependenciesAhead(m) ==
    {m.pool, m.program, m.from, m.to, TokenProgram[m.from], TokenProgram[m.to]}
      \cup Range(m.vaults) \cup Range(m.reads)
      \cup {m.grid[n] : n \in Ahead(m, Discovery[m.pool])}
      \cup {use.key : use \in Range(Beyond(m, Discovery))}
Dependencies(m) ==
    {m.pool, m.program, m.from, m.to, TokenProgram[m.from], TokenProgram[m.to]}
      \cup Range(m.vaults) \cup Range(m.reads) \cup Range(m.grid)
      \cup {use.key : use \in Range(Beyond(m, Discovery))}
WalletMints(j) == {j.input, Cash(j)} \cup ProductMints(j)
PlannedKeys(j) ==
    {Buyer, Nonce}
      \cup (UNION {Range(AssetKeys(Asset(mint))) : mint \in WalletMints(j)})
      \cup {j.products[i].policy : i \in DOMAIN j.products}
      \cup (UNION {Dependencies(j.proposals[k].market) : k \in DOMAIN j.proposals})
PlanFits(j) == ShapeFits(j) /\ Cardinality(PlannedKeys(j)) <= MaxBankKeys

-----------------------------------------------------------------------------
(* Compiling.                                                              *)

PurchasesOf(j, product) == SelectSeq(Purchases(j), LAMBDA p : p.product = product.id)
Spent(ps) == Sum([k \in DOMAIN ps |-> ps[k].input])
Made(ps) == Sum([k \in DOMAIN ps |-> ps[k].output])

\* One fixed graph for a product.
ProductGraph(j, product, ticks) ==
    LowerNative(<<Asset(Cash(j)), Asset(product.mint)>>, Spent(PurchasesOf(j, product)), product.least,
                PurchasesOf(j, product), ticks)
Allocations(j, ticks) ==
    [i \in DOMAIN j.products |->
        [policy |-> j.products[i].policy, asset |-> Asset(j.products[i].mint),
         least |-> j.products[i].least, claim |-> j.products[i].claim,
         graph |-> CompileGraph(ProductGraph(j, j.products[i], ticks), FALSE)]]
FillFits(j) ==
    /\ Len(j.proposals) <= MaxLegs /\ Spent(j.proposals) = j.amount
    /\ \A k \in DOMAIN j.proposals : j.proposals[k].market.from = j.input
    /\ \A i \in DOMAIN j.products :
         j.products[i].least > 0 /\ Made(PurchasesOf(j, j.products[i])) >= j.products[i].least
FillRequest(j, ticks) ==
    [asset |-> Asset(j.input), input |-> j.amount, allocations |-> Allocations(j, ticks)]

\* Or an open graph over all of them, direct purchases first.
Outputs(j) ==
    SetToSortSeq(ProductMints(j), LAMBDA a, c :
        IF (a \in DirectMints(j)) = (c \in DirectMints(j)) THEN Rank[a] < Rank[c] ELSE a \in DirectMints(j))
OpenGraph(j, input, ticks) ==
    LowerEconomic(<<Asset(Cash(j))>> \o [i \in DOMAIN Outputs(j) |-> Asset(Outputs(j)[i])],
                  input, Purchases(j), ticks)

\* Funding must bring at least a part of what is expected.
Expected(j) == Made(Stage(j, 1))
MinimumCash(j) == IF (Expected(j) * j.keep) \div 10 < 1 THEN 1 ELSE (Expected(j) * j.keep) \div 10
FundingGraph(j, ticks) ==
    LowerNative(<<Asset(j.input), Asset(Cash(j))>>, j.amount, MinimumCash(j), Stage(j, 1), ticks)
FundingInputFits(j) == Len(j.proposals) >= 2 /\ Spent(Stage(j, 1)) = j.amount /\ Expected(j) >= MinimumCash(j)

\* One product on one pool with dynamic fees takes a fixed graph, for which
\* the least cash is quoted again.
IsFixed(j) ==
    /\ Len(j.products) = 1 /\ Len(Purchases(j)) = 1
    /\ Purchases(j)[1].market.from = Cash(j) /\ Purchases(j)[1].market.dynamic
Requoted(j, p, ticks) ==
    [p EXCEPT !.input = MinimumCash(j), !.reach = p.atFloor,
              !.output = Last(p.atFloor[ticks[p.market.pool]])]
FixedGraph(j, ticks) ==
    LowerNative(<<Asset(Cash(j)), Asset(j.products[1].mint)>>, MinimumCash(j), j.products[1].least,
                <<Requoted(j, Purchases(j)[1], ticks)>>, ticks)

CellProducts(j) ==
    [i \in DOMAIN j.products |->
        [policy |-> j.products[i].policy, asset |-> Asset(j.products[i].mint), claim |-> j.products[i].claim]]
CellRequest(j, input, residuals, open) ==
    [cash |-> Asset(Cash(j)), input |-> input, empty |-> ~IsMesh(j), products |-> CellProducts(j),
     sellers |-> j.sellers, residuals |-> residuals, open |-> open]
BoughtProducts(j) ==
    SelectSeq([i \in DOMAIN j.products |-> i], LAMBDA i : PurchasesOf(j, j.products[i]) # <<>>)
Residuals(j, ticks) ==
    [k \in DOMAIN BoughtProducts(j) |->
        [product |-> BoughtProducts(j)[k],
         graph |-> CompileGraph(ProductGraph(j, j.products[BoughtProducts(j)[k]], ticks), FALSE)]]

\* The cell of an order, the graph that funds it, and who has the surplus.
Parts(request, funding, surplus) == [request |-> request, funding |-> funding, surplus |-> surplus]
OpenParts(j, input, graph, funding) ==
    IF graph = None THEN None ELSE Parts(CellRequest(j, input, <<>>, graph), funding, 0)
FixedParts(j, residuals, funding) ==
    Parts(CellRequest(j, IF IsFunded(j) THEN MinimumCash(j) ELSE j.amount, residuals, None), funding,
          IF residuals = <<>> THEN 0 ELSE residuals[1].product)
Funds(j, ticks) == IF IsFunded(j) THEN CompileGraph(FundingGraph(j, ticks), FALSE) ELSE None
PartsOf(j, ticks) ==
    IF IsMesh(j) THEN FixedParts(j, Residuals(j, ticks), Funds(j, ticks))
    ELSE IF IsFunded(j) /\ IsFixed(j)
         THEN FixedParts(j, <<[product |-> 1, graph |-> CompileGraph(FixedGraph(j, ticks), FALSE)]>>,
                         Funds(j, ticks))
    ELSE IF IsFunded(j)
         THEN OpenParts(j, MinimumCash(j), CompileGraph(OpenGraph(j, MinimumCash(j), ticks), TRUE),
                        Funds(j, ticks))
    ELSE OpenParts(j, j.amount, CompileGraph(OpenGraph(j, j.amount, ticks), TRUE), None)

IsFill(j) == ~IsMesh(j) /\ ~IsFunded(j) /\ ~j.reflow
CompileParts(j, parts) ==
    IF parts = None THEN None
    ELSE IF IsFunded(j) THEN CompileFunded(CompileMesh(parts.request), parts.funding, parts.surplus)
    ELSE CompileAlone(CompileMesh(parts.request))
CompileOrder(j, ticks) ==
    IF IsFill(j) THEN IF FillFits(j) THEN CompileFill(FillRequest(j, ticks)) ELSE None
    ELSE IF IsFunded(j) /\ ~FundingInputFits(j) THEN None
    ELSE CompileParts(j, PartsOf(j, ticks))

\* The accounts that lowering and compiling read.
Lowered(j, ticks) ==
    (IF IsFunded(j) THEN {FundingGraph(j, ticks)} ELSE {})
      \cup (IF IsFill(j) \/ IsMesh(j) THEN {ProductGraph(j, p, ticks) : p \in Range(j.products)}
            ELSE IF ~IsFunded(j) THEN {OpenGraph(j, j.amount, ticks)}
            ELSE IF IsFixed(j) THEN {FixedGraph(j, ticks)}
            ELSE {OpenGraph(j, MinimumCash(j), ticks)})
ReadBy(j, ticks) ==
    UNION {{use.key : use \in Range(GraphUses(g.assets, g.legs))} : g \in Lowered(j, ticks) \ {None}}

-----------------------------------------------------------------------------
(* The order's way.                                                        *)

Init ==
    /\ job \in Jobs /\ phase = "quoted" /\ bank = {} /\ at = Discovery /\ wire = None

PlanBank ==
    /\ phase = "quoted"
    /\ IF IsMesh(job) \/ PlanFits(job)
       THEN phase' = "planned" /\ bank' = PlannedKeys(job)
       ELSE phase' = "refused" /\ UNCHANGED bank
    /\ UNCHANGED <<job, at, wire>>

Fetch ==
    /\ phase = "planned"
    /\ at' \in Fetches
    /\ phase' = "fetched"
    /\ UNCHANGED <<job, bank, wire>>

Compiled(w) == wire' = w /\ phase' = IF w = None THEN "refused" ELSE "compiled"
Compile ==
    /\ phase = "fetched"
    /\ IF ReadBy(job, at) \subseteq bank THEN Compiled(CompileOrder(job, at))
       ELSE phase' = "short" /\ UNCHANGED wire
    /\ UNCHANGED <<job, bank, at>>

Deliver ==
    /\ phase = "compiled"
    /\ phase' = IF Admits(wire) THEN "admitted" ELSE "rejected"
    /\ UNCHANGED <<job, bank, at, wire>>

\* Nothing more happens to the order.
Over == phase \in {"admitted", "rejected", "refused", "short"} /\ UNCHANGED wireVars

Next == PlanBank \/ Fetch \/ Compile \/ Deliver \/ Over

Spec == Init /\ [][Next]_wireVars

-----------------------------------------------------------------------------
(* What the wire promises.                                                 *)

\* A graph that is named by the places of a table, in the keys they stand for.
InKeys(graph, table) ==
    [open |-> graph.open, input |-> graph.input, minOut |-> graph.minOut,
     assets |-> [i \in DOMAIN graph.assets |-> Resolved(table, graph.assets[i])],
     legs |-> [k \in DOMAIN graph.legs |->
        [from |-> graph.legs[k].from, to |-> graph.legs[k].to, exact |-> graph.legs[k].exact,
         program |-> table[graph.legs[k].program].key,
         accounts |-> Resolved(table, graph.legs[k].accounts)]]]
Same(graph, table, own) == InKeys(graph, table) = InKeys(own, own.table)

\* The table holds what is used, with the privileges of its uses and no more.
Privileged(table, uses) ==
    /\ Keys(table) = {u.key : u \in uses} /\ Cardinality(Keys(table)) = Len(table)
    /\ \A place \in DOMAIN table :
         /\ table[place].writes = (\E u \in uses : u.key = table[place].key /\ u.writes)
         /\ table[place].signs = (\E u \in uses : u.key = table[place].key /\ u.signs)

MeansFill(w, request) ==
    /\ Privileged(w.table, Range(FillUses(request)))
    /\ \A i \in DOMAIN w.allocations :
         /\ w.table[w.allocations[i].policy].key = request.allocations[i].policy
         /\ Same(w.allocations[i].graph, w.table, request.allocations[i].graph)
MeansCell(w, cell, request, funding) ==
    /\ Privileged(cell.table, Range(CellUses(request))
                      \cup (IF funding = None THEN {} ELSE Range(funding.table)))
    /\ cell.table[cell.buyer].key = Buyer /\ cell.table[cell.nonce].key = Nonce
    /\ Resolved(cell.table, cell.cash) = AssetKeys(request.cash)
    /\ \A i \in DOMAIN cell.products : LET p == cell.products[i] IN
         /\ cell.table[p.policy].key = request.products[i].policy
         /\ Resolved(cell.table, p.asset) = AssetKeys(request.products[i].asset)
         /\ p.claim # 0 => cell.table[p.claim].key = request.products[i].claim
    /\ \A i \in DOMAIN cell.sellers : LET s == request.sellers[i] IN
         /\ cell.table[cell.sellers[i].owner].key = s.owner
         /\ Resolved(cell.table, cell.sellers[i].moves) = <<s.authority, s.source, s.destination>>
    /\ \A i \in DOMAIN cell.residuals : Same(cell.residuals[i].graph, cell.table, Graphs(request)[i])
    /\ funding # None => Same(w.funding, cell.table, funding)

\* Wherever its accounts ended up, an order still says what was compiled:
\* every place leads to the account that was meant, through all the tables
\* that were merged, and no account has a privilege that nothing asked for
\* (remap_graph, meta).
WireMeansOrder ==
    wire # None =>
        IF IsFill(job) THEN MeansFill(wire, FillRequest(job, at))
        ELSE MeansCell(wire, wire.cell, PartsOf(job, at).request, PartsOf(job, at).funding)

\* What the service itself prepares, and cells with at most one graph beside
\* their sellers.
HorizonMoved(j, ticks) ==
    \E k \in DOMAIN j.proposals : LET m == j.proposals[k].market IN Beyond(m, ticks) # Beyond(m, Discovery)
Prepared(j) ==
    /\ IsFill(j) => Len(j.products) = 1
    /\ IsMesh(j) =>
         /\ Len(BoughtProducts(j)) <= 1
         /\ Once([i \in DOMAIN j.sellers |-> j.sellers[i].owner])
         /\ \A i \in DOMAIN j.sellers : j.sellers[i].least > 0
         /\ Once([i \in DOMAIN j.products |-> j.products[i].policy])

\* An order that the host planned and compiled is not refused for its
\* accounts by the program, whose checks are written a second time and on
\* places; and the planned bank is enough to compile it, unless the price
\* moved to where a bitmap is needed (plan_direct_execution_bank,
\* plan_funded_execution_bank, clear_inner, inspect).
PlannedIsSettled ==
    /\ phase = "rejected" => ~Prepared(job)
    /\ phase = "short" => HorizonMoved(job, at)
=============================================================================
