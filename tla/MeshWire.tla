------------------------------ MODULE MeshWire ------------------------------
(***************************************************************************)
(* Orders of several products on the wire: the host compiles a cell or an  *)
(* exposure order around compiled graphs, whose accounts it moves into one *)
(* table (onebook_wire.rs), and what the settlement program asks of the    *)
(* accounts before it calls a venue (meshcell.rs, funding.rs,              *)
(* exposure.rs).                                                           *)
(*                                                                         *)
(* A request is [cash, input, empty, products, sellers, residuals, open]:  *)
(* products [policy, asset, claim], sellers [product, owner, authority,    *)
(* source, destination, resting, stock, cash, least], residuals [product,  *)
(* graph], and one open graph over all products, or None. Rates, policy    *)
(* versions and balances are those of the modules about settlement.        *)
(*                                                                         *)
(* The program is given accounts by their places; the wallet that pays the *)
(* fee is writable whatever the instruction says.                          *)
(***************************************************************************)
EXTENDS SwapWire

CONSTANTS
    MaxProducts,    \* 4
    MaxSellers      \* 3

Sum(s) == FoldLeft(LAMBDA n, x : n + x, 0, s)

-----------------------------------------------------------------------------
(* Graphs behind a shared table.                                           *)

\* A graph whose places are those of its own table, moved by `at`.  The
\* first form is a mutant of it, which forgets the programs of the legs.
RenamedButPrograms(graph, at) ==
    [graph EXCEPT
        !.assets = [i \in DOMAIN @ |-> [j \in 1..3 |-> at[@[i][j]]]],
        !.legs = [k \in DOMAIN @ |-> [@[k] EXCEPT !.accounts = [i \in DOMAIN @ |-> at[@[i]]]]]]
Renamed(graph, at) ==
    [graph EXCEPT
        !.assets = [i \in DOMAIN @ |-> [j \in 1..3 |-> at[@[i][j]]]],
        !.legs = [k \in DOMAIN @ |->
            [@[k] EXCEPT !.program = at[@], !.accounts = [i \in DOMAIN @ |-> at[@[i]]]]]]
Remapped(graph, table) ==
    Renamed(graph, [p \in DOMAIN graph.table |-> Place(table, graph.table[p].key)])

References(graph, place) ==
    \/ \E i \in DOMAIN graph.assets : place \in Range(graph.assets[i])
    \/ \E k \in DOMAIN graph.legs :
         place = graph.legs[k].program \/ place \in Range(graph.legs[k].accounts)

\* An open graph may call four times whatever it names.
Calls(graph) == IF graph.open THEN MaxLegs ELSE Len(graph.legs)

\* Every noncash source is itself bought directly.
Reached(graph, from) ==
    from = 1 \/ \E k \in DOMAIN graph.legs : graph.legs[k].from = 1 /\ graph.legs[k].to = from
BoundedPaths(graph) ==
    /\ \A k \in DOMAIN graph.legs : graph.legs[k].to > 1 /\ Reached(graph, graph.legs[k].from)
    /\ \A i \in 2..Len(graph.assets) : \E k \in DOMAIN graph.legs : graph.legs[k].to = i

-----------------------------------------------------------------------------
(* Cells.                                                                  *)

HeaderUses(cash) ==
    <<Use(Buyer, FALSE, TRUE), Use(Nonce, TRUE, FALSE), Use(cash.token, TRUE, FALSE),
      Use(cash.mint, FALSE, FALSE), Use(cash.program, FALSE, FALSE)>>
ProductUses(p) ==
    <<Use(p.policy, FALSE, FALSE), Use(p.asset.token, TRUE, FALSE), Use(p.asset.mint, FALSE, FALSE),
      Use(p.asset.program, FALSE, FALSE)>>
      \o (IF p.claim = None THEN <<>> ELSE <<Use(p.claim, FALSE, FALSE)>>)
SellerUses(s) ==
    <<Use(s.owner, FALSE, ~s.resting), Use(s.authority, TRUE, FALSE), Use(s.source, TRUE, FALSE),
      Use(s.destination, TRUE, FALSE)>>

Graphs(request) ==
    IF request.open # None THEN <<request.open>>
    ELSE [i \in DOMAIN request.residuals |-> request.residuals[i].graph]
CellUses(request) ==
    HeaderUses(request.cash)
      \o FlattenSeq([i \in DOMAIN request.products |-> ProductUses(request.products[i])])
      \o FlattenSeq([i \in DOMAIN request.sellers |-> SellerUses(request.sellers[i])])
      \o FlattenSeq([i \in DOMAIN Graphs(request) |-> Graphs(request)[i].table])

ProductsFit(request) ==
    /\ Len(request.products) \in 1..MaxProducts
    /\ Once([i \in DOMAIN request.products |-> request.products[i].asset.mint])
    /\ Once([i \in DOMAIN request.products |-> request.products[i].asset.token])
    /\ \A i \in DOMAIN request.products : request.products[i].asset.mint # request.cash.mint
SellersFit(request) ==
    /\ Len(request.sellers) <= MaxSellers
    /\ request.sellers # <<>> \/ request.empty
    /\ \A i \in DOMAIN request.sellers : LET s == request.sellers[i] IN
         /\ s.owner # Buyer /\ s.product \in DOMAIN request.products
         /\ s.stock > 0 /\ s.cash > 0 /\ s.cash >= s.least
         /\ s.resting => request.products[s.product].claim # None

\* The products that an asset of a compiled graph is one of.
AssetKeys(a) == <<a.token, a.mint, a.program>>
Resolved(table, row) == [i \in DOMAIN row |-> table[row[i]].key]
Matching(request, graph, i) ==
    {p \in DOMAIN request.products :
        AssetKeys(request.products[p].asset) = Resolved(graph.table, graph.assets[i])}
OpenFits(request, graph) ==
    /\ request.residuals = <<>> /\ graph.open
    /\ Resolved(graph.table, graph.assets[1]) = AssetKeys(request.cash)
    /\ BoundedPaths(graph)
    /\ \A i \in 2..Len(graph.assets) : Cardinality(Matching(request, graph, i)) = 1
    /\ \A i, j \in 2..Len(graph.assets) :
         Matching(request, graph, i) = Matching(request, graph, j) => i = j
ResidualsFit(request) ==
    /\ Len(request.residuals) <= Len(request.products)
    /\ Once([i \in DOMAIN request.residuals |-> request.residuals[i].product])
    /\ \A i \in DOMAIN request.residuals : request.residuals[i].product \in DOMAIN request.products
    /\ Sum([i \in DOMAIN request.residuals |-> Calls(request.residuals[i].graph)]) <= MaxLegs

Conserved(request) ==
    Sum([i \in DOMAIN request.sellers |-> request.sellers[i].cash])
      + Sum([i \in DOMAIN Graphs(request) |-> Graphs(request)[i].input]) = request.input

\* No product is there for nothing.
Bought(request) ==
    IF request.open # None
    THEN UNION {Matching(request, request.open, i) : i \in 2..Len(request.open.assets)}
    ELSE {request.residuals[i].product : i \in DOMAIN request.residuals}
Sold(request) == {request.sellers[i].product : i \in DOMAIN request.sellers}
EveryProductUsed(request) == DOMAIN request.products = Bought(request) \cup Sold(request)

ProductRow(table, p) ==
    [policy |-> Place(table, p.policy), asset |-> [j \in 1..3 |-> Place(table, AssetKeys(p.asset)[j])],
     claim |-> IF p.claim = None THEN 0 ELSE Place(table, p.claim)]
SellerRow(table, s) ==
    [product |-> s.product, owner |-> Place(table, s.owner),
     moves |-> <<Place(table, s.authority), Place(table, s.source), Place(table, s.destination)>>,
     resting |-> s.resting, stock |-> s.stock, cash |-> s.cash, least |-> s.least]
ResidualRows(request, table) ==
    IF request.open # None THEN <<[product |-> 0, graph |-> Remapped(request.open, table)]>>
    ELSE [i \in DOMAIN request.residuals |->
            [request.residuals[i] EXCEPT !.graph = Remapped(@, table)]]
CellOf(request, table) ==
    [table |-> table, buyer |-> Place(table, Buyer), nonce |-> Place(table, Nonce),
     cash |-> [j \in 1..3 |-> Place(table, AssetKeys(request.cash)[j])], input |-> request.input,
     products |-> [i \in DOMAIN request.products |-> ProductRow(table, request.products[i])],
     sellers |-> [i \in DOMAIN request.sellers |-> SellerRow(table, request.sellers[i])],
     residuals |-> ResidualRows(request, table)]

CompileCell(request, table) ==
    IF /\ request.input > 0 /\ Len(table) <= MaxAccounts
       /\ ProductsFit(request) /\ SellersFit(request)
       /\ IF request.open # None THEN OpenFits(request, request.open) ELSE ResidualsFit(request)
       /\ Conserved(request) /\ EveryProductUsed(request)
    THEN CellOf(request, table)
    ELSE None
\* A graph that was not compiled makes no cell.
CompileMesh(request) ==
    IF \E i \in DOMAIN request.residuals : request.residuals[i].graph = None THEN None
    ELSE CompileCell(request, EnterAll(<<>>, CellUses(request)))

-----------------------------------------------------------------------------
(* Cells that another graph funds.                                         *)

Plain(table, place) == ~table[place].writes /\ ~table[place].signs

\* The funding ends in the cell's cash and touches nothing else of it.
FundsCash(cell, funding) ==
    /\ ~funding.open /\ Len(funding.legs) < MaxLegs
    /\ Last(funding.assets) = cell.cash
    /\ funding.minOut >= cell.input
    /\ funding.assets[1][1] # cell.cash[1] /\ funding.assets[1][2] # cell.cash[2]
LeavesProducts(cell, funding, table) ==
    \A i \in DOMAIN cell.products : LET p == cell.products[i] IN
        /\ \A place \in {p.policy, p.asset[1], p.asset[2]} : ~References(funding, place)
        /\ \A place \in {p.policy, p.asset[2], p.asset[3]} : Plain(table, place)
        /\ p.claim # 0 => ~References(funding, p.claim) /\ Plain(table, p.claim)
LeavesSellers(cell, funding) ==
    \A i \in DOMAIN cell.sellers :
        \A place \in {cell.sellers[i].owner} \cup Range(cell.sellers[i].moves) :
            ~References(funding, place)
Apart(table, cell, g, h) ==
    \A place \in DOMAIN table :
        table[place].writes /\ place # cell.buyer /\ place # cell.cash[1]
        => ~(References(g, place) /\ References(h, place))

FundedBase(cell, funding, table) ==
    /\ Len(table) <= MaxAccounts
    /\ FundsCash(cell, funding)
    /\ Plain(table, cell.cash[2]) /\ Plain(table, cell.cash[3])
    /\ \A i \in DOMAIN funding.assets : Plain(table, funding.assets[i][2]) /\ Plain(table, funding.assets[i][3])
    /\ LeavesProducts(cell, funding, table) /\ LeavesSellers(cell, funding)
    /\ \A i \in DOMAIN cell.residuals : Apart(table, cell, funding, cell.residuals[i].graph)

\* The surplus of the funding goes to one product, whose last purchase takes
\* all the cash that remains.
CashLegs(graph) == SelectSeq(graph.legs, LAMBDA l : l.from = 1)
TakesSurplus(cell, surplus) ==
    \E i \in DOMAIN cell.residuals : LET graph == cell.residuals[i].graph IN
        /\ cell.residuals[i].product = surplus /\ ~graph.open
        /\ CashLegs(graph) # <<>> /\ Last(CashLegs(graph)).exact = 0
FixedFunding(cell, funding, surplus) ==
    /\ surplus \in DOMAIN cell.products /\ cell.residuals # <<>>
    /\ Len(funding.legs) + Sum([i \in DOMAIN cell.residuals |-> Calls(cell.residuals[i].graph)]) <= MaxLegs
    /\ TakesSurplus(cell, surplus)

\* Or one open graph shares all the cash anew.
OpenFunding(cell) ==
    /\ Len(cell.residuals) = 1 /\ cell.residuals[1].product = 0
    /\ cell.residuals[1].graph.assets[1] = cell.cash
    /\ BoundedPaths(cell.residuals[1].graph)

Funded(cell, funding, surplus, table) ==
    IF /\ FundedBase(cell, funding, table)
       /\ IF surplus = 0 THEN OpenFunding(cell) ELSE FixedFunding(cell, funding, surplus)
    THEN [kind |-> "funded", cell |-> [cell EXCEPT !.table = table], funding |-> funding, surplus |-> surplus]
    ELSE None
FundedBehind(cell, funding, surplus, table) ==
    Funded(cell, Remapped(funding, table), surplus, table)

\* surplus is 0 for an open residual.
CompileFunded(cell, funding, surplus) ==
    IF cell = None \/ funding = None THEN None
    ELSE FundedBehind(cell, funding, surplus, EnterAll(cell.table, funding.table))
CompileAlone(cell) ==
    IF cell = None THEN None
    ELSE [kind |-> "cell", cell |-> cell, funding |-> None, surplus |-> 0]

-----------------------------------------------------------------------------
(* What the program asks, and the order of several products without        *)
(* sellers that the host compiles for it.                                  *)

Writable(table, place) == table[place].writes \/ table[place].key = Buyer

-----------------------------------------------------------------------------
(* Exposure orders.  A request is [asset, input, allocations]; an          *)
(* allocation is [policy, asset, least, claim, graph].                     *)

FillUses(request) ==
    <<Use(Buyer, FALSE, TRUE), Use(Nonce, TRUE, FALSE)>>
      \o FlattenSeq([i \in DOMAIN request.allocations |->
            Append(request.allocations[i].graph.table, Use(request.allocations[i].policy, FALSE, FALSE))])
AllocationFits(request, a) ==
    /\ a.claim = None /\ a.asset.mint # request.asset.mint
    /\ Resolved(a.graph.table, a.graph.assets[1]) = AssetKeys(request.asset)
    /\ Resolved(a.graph.table, Last(a.graph.assets)) = AssetKeys(a.asset)
    /\ a.graph.minOut > 0
RelyOn(request) == UNION {
    {a.policy, a.asset.mint, a.asset.program, request.asset.mint, request.asset.program} :
        a \in Range(request.allocations)}
FillOf(request, table) ==
    [kind |-> "fill", table |-> table,
     allocations |-> [i \in DOMAIN request.allocations |->
        [policy |-> Place(table, request.allocations[i].policy),
         graph |-> Remapped(request.allocations[i].graph, table)]]]
CompileFillOn(request, table) ==
    IF /\ Len(request.allocations) \in 1..MaxProducts /\ Len(table) <= MaxAccounts
       /\ Once([i \in DOMAIN request.allocations |-> request.allocations[i].asset.mint])
       /\ \A i \in DOMAIN request.allocations : AllocationFits(request, request.allocations[i])
       /\ Sum([i \in DOMAIN request.allocations |-> Calls(request.allocations[i].graph)]) <= MaxLegs
       /\ Sum([i \in DOMAIN request.allocations |-> request.allocations[i].graph.input]) = request.input
       /\ \A place \in DOMAIN table : table[place].key \in RelyOn(request) => Plain(table, place)
    THEN FillOf(request, table)
    ELSE None
CompileFill(request) ==
    IF \E i \in DOMAIN request.allocations : request.allocations[i].graph = None THEN None
    ELSE CompileFillOn(request, EnterAll(<<>>, FillUses(request)))

\* The graphs spend one asset, make different ones, and share nothing that
\* is written but the account they all spend from.
AdmitsFill(wire) ==
    /\ Sum([i \in DOMAIN wire.allocations |-> Calls(wire.allocations[i].graph)]) <= MaxLegs
    /\ wire.table[1].signs /\ wire.table[2].writes
    /\ \A i, j \in DOMAIN wire.allocations : i < j =>
         LET g == wire.allocations[i].graph
             h == wire.allocations[j].graph
         IN /\ g.assets[1] = h.assets[1] /\ Last(g.assets)[2] # Last(h.assets)[2]
            /\ \A place \in DOMAIN wire.table :
                 Writable(wire.table, place) /\ place # g.assets[1][1]
                 => ~(References(g, place) /\ References(h, place))

-----------------------------------------------------------------------------
(* Cells.                                                                  *)

\* An account of the wallet that may move, of a mint that may not.
Checked(table, row) == Writable(table, row[1]) /\ ~Writable(table, row[2])
Distinct(places) == Once(SelectSeq(places, LAMBDA p : p # 0))
Column(rows, Op(_)) == [i \in DOMAIN rows |-> Op(rows[i])]

AdmitsProducts(cell, funding) ==
    /\ Len(cell.products) \in 1..MaxProducts
    /\ Distinct(Column(cell.products, LAMBDA p : p.asset[1]))
    /\ Distinct(Column(cell.products, LAMBDA p : p.asset[2]))
    /\ Distinct(Column(cell.products, LAMBDA p : p.policy))
    /\ Distinct(Column(cell.products, LAMBDA p : p.claim))
    /\ \A i \in DOMAIN cell.products : LET p == cell.products[i] IN
         /\ p.asset[2] # cell.cash[2] /\ Checked(cell.table, p.asset)
         /\ p.claim # 0 => Plain(cell.table, p.claim)
         /\ funding # None =>
              \A place \in {p.policy, p.asset[1], p.asset[2]} \cup ({p.claim} \ {0}) :
                  ~References(funding, place)

Financial(s) == <<s.owner>> \o s.moves
AdmitsSeller(cell, funding, s) ==
    /\ s.product \in DOMAIN cell.products
    /\ s.owner # cell.buyer /\ s.stock > 0 /\ s.least > 0 /\ s.cash >= s.least
    /\ IF s.resting THEN ~cell.table[s.owner].writes /\ cell.products[s.product].claim # 0
       ELSE cell.table[s.owner].signs
    /\ \A i \in DOMAIN s.moves : cell.table[s.moves[i]].writes
    /\ funding # None => \A place \in Range(Financial(s)) : ~References(funding, place)
AdmitsSellers(cell, funding) ==
    /\ Len(cell.sellers) <= MaxSellers
    /\ \A i \in DOMAIN cell.sellers : AdmitsSeller(cell, funding, cell.sellers[i])
    /\ Once(<<cell.buyer, cell.nonce, cell.cash[1]>>
              \o Column(cell.products, LAMBDA p : p.asset[1])
              \o FlattenSeq(Column(cell.sellers, Financial)))

\* One open graph over some of the products, or a graph for each of some.
ProductOf(cell, row) == {p \in DOMAIN cell.products : cell.products[p].asset = row}
AdmitsOpen(cell, legs, graph) ==
    /\ legs < MaxLegs /\ graph.open /\ Len(graph.assets) <= Len(cell.products) + 1
    /\ BoundedPaths(graph)
    /\ \A i \in 2..Len(graph.assets) : ProductOf(cell, graph.assets[i]) # {}
    /\ Once([i \in 2..Len(graph.assets) |-> graph.assets[i]])
AdmitsFixed(cell, legs) ==
    /\ legs + Sum(Column(cell.residuals, LAMBDA r : Calls(r.graph))) <= MaxLegs
    /\ Once(Column(cell.residuals, LAMBDA r : r.product))
    /\ \A i \in DOMAIN cell.residuals : LET r == cell.residuals[i] IN
         r.product \in DOMAIN cell.products /\ Last(r.graph.assets) = cell.products[r.product].asset
SharesCashOnly(cell) ==
    \A i, j \in DOMAIN cell.residuals : i < j =>
        \A place \in DOMAIN cell.table :
            Writable(cell.table, place) /\ place # cell.cash[1]
            => ~(References(cell.residuals[i].graph, place) /\ References(cell.residuals[j].graph, place))
AdmitsResiduals(cell, funding, open, legs) ==
    /\ IF open THEN Len(cell.residuals) = 1 /\ AdmitsOpen(cell, legs, cell.residuals[1].graph)
       ELSE AdmitsFixed(cell, legs) /\ SharesCashOnly(cell)
    /\ \A i \in DOMAIN cell.residuals : LET graph == cell.residuals[i].graph IN
         /\ graph.assets[1] = cell.cash
         /\ funding # None => Apart(cell.table, cell, funding, graph)
         /\ \A s \in Range(cell.sellers) : \A place \in Range(Financial(s)) : ~References(graph, place)
    /\ Sum(Column(cell.sellers, LAMBDA s : s.cash))
         + Sum(Column(cell.residuals, LAMBDA r : r.graph.input)) = cell.input
    /\ \A p \in DOMAIN cell.products :
         \/ \E s \in Range(cell.sellers) : s.product = p
         \/ \E r \in Range(cell.residuals) :
              r.product = p \/ (r.product = 0 /\ cell.products[p].asset \in Range(r.graph.assets))

AdmitsFunding(wire, cell, funding) ==
    /\ FundsCash(cell, funding) /\ Checked(cell.table, funding.assets[1])
    /\ wire.surplus = 0 \/ TakesSurplus(cell, wire.surplus)

IsOpen(cell) == cell.residuals # <<>> /\ cell.residuals[1].product = 0
AdmitsCell(wire, cell, funding) ==
    /\ cell.table[cell.buyer].signs /\ cell.table[cell.nonce].writes /\ Checked(cell.table, cell.cash)
    /\ cell.sellers # <<>> \/ funding # None \/ IsOpen(cell)
    /\ AdmitsProducts(cell, funding) /\ AdmitsSellers(cell, funding)
    /\ AdmitsResiduals(cell, funding, IsOpen(cell), IF funding = None THEN 0 ELSE Len(funding.legs))
    /\ funding # None => AdmitsFunding(wire, cell, funding)

Admits(wire) ==
    IF wire.kind = "fill" THEN AdmitsFill(wire) ELSE AdmitsCell(wire, wire.cell, wire.funding)
=============================================================================
