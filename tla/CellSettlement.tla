--------------------------- MODULE CellSettlement ---------------------------
(***************************************************************************)
(* Cells of the settlement program: transactions in which several wallets, *)
(* products and graphs settle together.                                    *)
(*                                                                         *)
(*   cross     opcodes 3 and 5 (crossing.rs): wallets cross their inputs;  *)
(*             the first one may route what is left of its own             *)
(*   flow      opcode 12 (flowcell.rs): every wallet may route a rest      *)
(*   exposure  opcode 13 (exposure.rs): one wallet buys several products   *)
(*             under one floor of economic exposure                        *)
(*   mesh      opcodes 14 and 18 (meshcell.rs, funding.rs): the same, with *)
(*             sellers of products beside the graphs, and with cash that a *)
(*             funding graph may have to bring in first                    *)
(*                                                                         *)
(* A transaction checks the whole plan, then funds, crosses and routes,    *)
(* then compares every account with what it was; it commits whole or       *)
(* leaves nothing behind.  Its graphs are called with one wallet's         *)
(* signature and pass accounts to venues that are not trusted.             *)
(*                                                                         *)
(* Simplifications.                                                        *)
(*  - An account is a wallet's account of one token, named by its mint.    *)
(*    A resting order is a wallet too: its escrow, its owner's cash        *)
(*    account and its revision.                                            *)
(*  - A graph is its outcome as GraphExecution establishes it, and what it *)
(*    passes to venues beyond the accounts it names.                       *)
(*  - Policies and claims are the set of products permitted at present.    *)
(***************************************************************************)
EXTENDS Integers, Sequences, FiniteSets, FiniteSetsExt

CONSTANTS
    Wallet,         \* wallets and resting orders
    Token,          \* tokens; a wallet has one account of each
    Cells,          \* the cells that their wallets signed
    Start,          \* balances to begin with
    Rate,           \* [Token -> exposure of RateUnit atoms]
    RateUnit,       \* the scale of a rate
    Instrument,     \* [products -> economic instrument]
    NoGraph,        \* a stock cell without a funding graph
    NoTx,           \* no transaction is running
    MaxBalance,     \* bound: balances a venue may leave
    CellSlots       \* bound: slots 0..CellSlots

VARIABLES
    balance,        \* [Wallet -> [Token -> Nat]]: committed balances
    tainted,        \* accounts with a delegate or another authority
    sequence,       \* the next sequence number of a wallet
    permitted,      \* products whose policy and claim permit trading
    now,            \* the clock
    tx              \* the running transaction, or NoTx

cellVars == <<balance, tainted, sequence, permitted, now, tx>>

Product == DOMAIN Instrument
Account == Wallet \X Token

\* assets runs from the source to the sink; an open graph (the economic
\* reflow) may sell into every asset after the first; lent are accounts that
\* its calls pass to venues although it does not name them.
GraphType ==
    {g \in [owner : Wallet, assets : Seq(Token), input : Nat \ {0}, minOut : Nat \ {0},
            deadline : Nat, open : BOOLEAN, lent : SUBSET Token] :
        /\ Len(g.assets) >= 2
        /\ \A i \in DOMAIN g.assets : g.assets[i] \notin g.lent}

PartyType ==
    [owner : Wallet, sequence : Nat, source : Token, input : Nat \ {0},
     sink : Token, minOut : Nat \ {0}, paid : Nat]

CrossingType ==
    [kind : {"cross", "flow"}, deadline : Nat, parties : Seq(PartyType),
     transfers : Seq([from : Nat, to : Nat, amount : Nat \ {0}]),
     graphs : Seq({g \in GraphType : ~g.open})]

StockType ==
    [kind : {"exposure", "mesh"}, deadline : Nat, buyer : Wallet, sequence : Nat,
     cash : Token, input : Nat \ {0}, floor : Nat \ {0}, products : SUBSET Token,
     parties : Seq(PartyType), graphs : Seq(GraphType),
     funding : GraphType \cup {NoGraph}, surplus : Nat]

ASSUME CellAssumption ==
    /\ IsFiniteSet(Wallet) /\ IsFiniteSet(Token)
    /\ NoGraph \notin GraphType
    /\ NoTx \notin [cell : Cells, current : [Wallet -> [Token -> Nat]],
                    tainted : SUBSET (Wallet \X Token), graphs : Seq(GraphType),
                    phase : {"fund", "cross", "route"}, turn : Nat, funded : Nat]
    /\ Cells \subseteq CrossingType \cup StockType
    /\ Start \in [Wallet -> [Token -> Nat]]
    /\ Rate \in [Token -> Nat]
    /\ RateUnit \in Nat \ {0}
    /\ DOMAIN Instrument \subseteq Token
    /\ MaxBalance \in Nat
    /\ CellSlots \in Nat

-----------------------------------------------------------------------------
Crossing(c) == c.kind \in {"cross", "flow"}
Parties(c)  == DOMAIN c.parties
Signed(c)   == {c.parties[p].owner : p \in Parties(c)}
Owners(c)   == IF Crossing(c) THEN Signed(c) ELSE Signed(c) \cup {c.buyer}
Funded(c)   == ~Crossing(c) /\ c.funding # NoGraph
Open(c)     == c.kind = "mesh" /\ \E i \in DOMAIN c.graphs : c.graphs[i].open

Source(g) == g.assets[1]
Sink(g)   == g.assets[Len(g.assets)]
Named(g)  == {g.assets[i] : i \in DOMAIN g.assets}
Touched(g) == Named(g) \cup g.lent

ExposureOf(t, atoms) == (atoms * Rate[t]) \div RateUnit

Amounts(record, S) == LET amount(i) == record[i] IN MapThenSumSet(amount, S)

\* What the parties in S give, and what they are paid.
GivenBy(c, S) == Amounts([i \in Parties(c) |-> c.parties[i].input], S)
PaidTo(c, S)  == Amounts([i \in Parties(c) |-> c.parties[i].paid], S)

\* What the sellers give of a product, and what they are paid together.
Internal(c, t)  == GivenBy(c, {i \in Parties(c) : c.parties[i].source = t})
InternalCash(c) == PaidTo(c, Parties(c))

\* Transfers inside a cell.  A party of a crossing sends of its source; in a
\* stock cell each seller is paid and delivers.
Transferred(c, S) == Amounts([k \in DOMAIN c.transfers |-> c.transfers[k].amount], S)
Sender(c, k)   == c.parties[c.transfers[k].from]
Receiver(c, k) == c.parties[c.transfers[k].to]

Debit(c, w, t) ==
    IF Crossing(c)
    THEN Transferred(c, {k \in DOMAIN c.transfers : Sender(c, k).owner = w /\ Sender(c, k).source = t})
    ELSE PaidTo(c, {i \in Parties(c) : w = c.buyer /\ t = c.cash})
           + GivenBy(c, {i \in Parties(c) : c.parties[i].owner = w /\ c.parties[i].source = t})
Credit(c, w, t) ==
    IF Crossing(c)
    THEN Transferred(c, {k \in DOMAIN c.transfers : Receiver(c, k).owner = w /\ Sender(c, k).source = t})
    ELSE PaidTo(c, {i \in Parties(c) : c.parties[i].owner = w /\ t = c.cash})
           + GivenBy(c, {i \in Parties(c) : w = c.buyer /\ c.parties[i].source = t})

Routed(graphs) == Amounts([i \in DOMAIN graphs |-> graphs[i].input], DOMAIN graphs)

-----------------------------------------------------------------------------
\* The preflight of a graph, given the balances and authorities it finds.  A
\* pending amount is one that the funding has promised to bring in, aggregate
\* the accounts that the parent transaction lets its graphs carry.
GraphAdmitted(g, n, held, bad, pending, aggregate) ==
    /\ sequence[g.owner] = n
    /\ now <= g.deadline
    /\ \A i, j \in DOMAIN g.assets : i # j => g.assets[i] # g.assets[j]
    /\ \A t \in Named(g) : <<g.owner, t>> \notin bad
    /\ held[g.owner][Source(g)] + pending >= g.input
    /\ g.lent \subseteq aggregate

PartyAdmitted(p) ==
    /\ sequence[p.owner] = p.sequence
    /\ <<p.owner, p.source>> \notin tainted
    /\ <<p.owner, p.sink>> \notin tainted
    /\ p.source # p.sink
    /\ balance[p.owner][p.source] >= p.input

Distinct(f) == \A i, j \in DOMAIN f : i # j => f[i].owner # f[j].owner

\* What the sender of a crossing has left to route.
Residual(p, c) == p.input - Debit(c, p.owner, p.source)

\* The graph that routes the rest of a party's input.
RoutesRest(c, g) ==
    \E i \in Parties(c) : LET p == c.parties[i] IN
        /\ g.owner = p.owner
        /\ g.input = Residual(p, c)
        /\ g.deadline <= c.deadline
        /\ Source(g) = p.source
        /\ Sink(g) = p.sink
        /\ c.kind = "cross" => i = 1 /\ Len(g.assets) = 2
        /\ c.kind = "flow" => g.minOut >= p.minOut - Credit(c, p.owner, p.sink)
        /\ GraphAdmitted(g, p.sequence, balance, tainted, 0, {})

CrossingAdmitted(c) ==
    /\ now <= c.deadline
    /\ Len(c.parties) \in 2..4
    /\ Len(c.transfers) \in (IF c.kind = "cross" THEN 2 ELSE 1)..8
    /\ \A i \in Parties(c) : PartyAdmitted(c.parties[i])
    /\ Distinct(c.parties)
    /\ Distinct(c.graphs)
    /\ \A k \in DOMAIN c.transfers : LET move == c.transfers[k] IN
          /\ {move.from, move.to} \subseteq Parties(c)
          /\ move.from # move.to
          /\ c.parties[move.from].source = c.parties[move.to].sink
    /\ \A i \in Parties(c) : LET p == c.parties[i] IN
          /\ Residual(p, c) >= 0
          /\ (Residual(p, c) > 0) <=> (\E k \in DOMAIN c.graphs : c.graphs[k].owner = p.owner)
    /\ \A k \in DOMAIN c.graphs : RoutesRest(c, c.graphs[k])

\* Accounts of the buyer that the graphs of a stock cell may carry.
Aggregate(c) ==
    (IF c.kind = "mesh" THEN c.products ELSE {})
        \cup (UNION {Named(c.graphs[i]) : i \in DOMAIN c.graphs})
        \cup (IF Funded(c) THEN Named(c.funding) ELSE {})

\* mutant of Apart: only the accounts that a graph names are compared.
ApartByName(g, h, cash) == Named(g) \cap Named(h) \subseteq {cash}

\* Two graphs of a buyer share no account but the cash.
Apart(g, h, cash) == Touched(g) \cap Touched(h) \subseteq {cash}

\* The funding graph brings in the cash, from an account that nothing else of
\* the cell uses.
FundingAdmitted(c) ==
    LET g == c.funding
    IN  /\ g.owner = c.buyer
        /\ ~g.open
        /\ g.deadline <= c.deadline
        /\ g.minOut >= c.input
        /\ Sink(g) = c.cash
        /\ Source(g) # c.cash
        /\ Touched(g) \cap c.products = {}
        /\ \A i \in DOMAIN c.graphs : Apart(g, c.graphs[i], c.cash)
        /\ GraphAdmitted(g, c.sequence, balance, tainted, 0, Aggregate(c))
        /\ ~Open(c) => c.surplus \in DOMAIN c.graphs

SellerAdmitted(c, p) ==
    /\ PartyAdmitted(p)
    /\ p.owner # c.buyer
    /\ p.source \in c.products
    /\ p.sink = c.cash
    /\ p.paid >= p.minOut

\* A graph of the buyer: cash into one product, or into any (open).
BuyerGraphAdmitted(c, g) ==
    /\ g.owner = c.buyer
    /\ g.deadline <= c.deadline
    /\ Source(g) = c.cash
    /\ IF g.open
       THEN c.kind = "mesh" /\ Len(c.graphs) = 1 /\ Named(g) \ {c.cash} \subseteq c.products
       ELSE Sink(g) \in c.products
    /\ GraphAdmitted(g, c.sequence, balance, tainted,
                     IF Funded(c) THEN c.input ELSE 0, Aggregate(c))

\* mutant of AddsUp: payments and graphs may each use the whole input.
EachWithinInput(c) == InternalCash(c) <= c.input /\ Routed(c.graphs) <= c.input

AddsUp(c) == InternalCash(c) + Routed(c.graphs) = c.input

\* Every product of a mesh is sold by someone or routed into.
Supplied(c, t) ==
    \/ Internal(c, t) > 0
    \/ \E i \in DOMAIN c.graphs : t \in (IF c.graphs[i].open THEN Named(c.graphs[i])
                                         ELSE {Sink(c.graphs[i])})

StockAdmitted(c) ==
    /\ now <= c.deadline
    /\ sequence[c.buyer] = c.sequence
    /\ <<c.buyer, c.cash>> \notin tainted
    /\ Cardinality(c.products) \in 1..4
    /\ Len(c.parties) <= 3
    /\ IF c.kind = "mesh"
       THEN /\ c.parties # <<>> \/ Funded(c) \/ Open(c)
            /\ \A s, t \in c.products : Instrument[s] = Instrument[t]
       ELSE c.parties = <<>> /\ ~Funded(c)
    /\ c.products \subseteq permitted
    /\ c.cash \notin c.products
    /\ \A t \in c.products : <<c.buyer, t>> \notin tainted
    /\ IF Funded(c) THEN FundingAdmitted(c) ELSE balance[c.buyer][c.cash] >= c.input
    /\ Distinct(c.parties)
    /\ \A i \in Parties(c) : SellerAdmitted(c, c.parties[i])
    /\ AddsUp(c)
    /\ \A i \in DOMAIN c.graphs : BuyerGraphAdmitted(c, c.graphs[i])
    /\ \A t \in c.products : Supplied(c, t)
    /\ \A i, j \in DOMAIN c.graphs : i # j =>
          /\ Sink(c.graphs[i]) # Sink(c.graphs[j])
          /\ Apart(c.graphs[i], c.graphs[j], c.cash)

Admitted(c) == IF Crossing(c) THEN CrossingAdmitted(c) ELSE StockAdmitted(c)

-----------------------------------------------------------------------------
Begin(c) ==
    /\ tx = NoTx
    /\ Admitted(c)
    /\ tx' = [graphs |-> c.graphs, tainted |-> {}, cell |-> c, current |-> balance,
              phase |-> (IF Funded(c) THEN "fund" ELSE "cross"), turn |-> 1, funded |-> 0]
    /\ UNCHANGED <<balance, tainted, sequence, permitted, now>>

\* What a graph does to its owner's accounts: it takes its exact input, gives
\* back every transit balance and delivers its minimum, or, if it is open, its
\* minimum in exposure.  What it lends comes back with any balance.
Delivers(g, before, after) ==
    LET gained == [t \in Token |-> ExposureOf(t, after[t] - before[t])]
    IN  /\ before[Source(g)] >= g.input
        /\ after[Source(g)] = before[Source(g)] - g.input
        /\ IF g.open
           THEN /\ \A t \in Named(g) \ {Source(g)} : after[t] >= before[t]
                /\ Amounts(gained, Named(g) \ {Source(g)}) >= g.minOut
           ELSE /\ after[Sink(g)] >= before[Sink(g)] + g.minOut
                /\ \A t \in Named(g) \ {Source(g), Sink(g)} : after[t] = before[t]

\* Balances that the calls of a graph can leave in its owner's accounts.
Outcomes(g, before) ==
    {after \in {[t \in Token |->
                   IF t = Source(g) THEN before[t] - g.input
                   ELSE IF t \in Touched(g) THEN change[t] ELSE before[t]] :
                change \in [Touched(g) \ {Source(g)} -> 0..MaxBalance]} :
        Delivers(g, before, after)}

Lent(g) == {g.owner} \X g.lent

\* All the cash that the funding brought in is routed.
WithSurplus(c, funded) ==
    IF Open(c) THEN [c.graphs EXCEPT ![1].input = funded - InternalCash(c)]
    ELSE [c.graphs EXCEPT ![c.surplus].input = @ + (funded - c.input)]

Fund ==
    /\ tx # NoTx
    /\ tx.phase = "fund"
    /\ LET c == tx.cell
           g == c.funding
           before == tx.current[c.buyer]
       IN  \E after \in Outcomes(g, before), taken \in SUBSET Lent(g) :
             LET cash == after[c.cash] - before[c.cash]
                 graphs == WithSurplus(c, cash)
                 grown == IF Open(c) THEN 1 ELSE c.surplus
             IN  /\ cash >= c.input
                 /\ GraphAdmitted(graphs[grown], c.sequence,
                                  [tx.current EXCEPT ![c.buyer] = after],
                                  tainted \cup taken, 0, Aggregate(c))
                 /\ tx' = [tx EXCEPT !.current[c.buyer] = after, !.tainted = @ \cup taken,
                                     !.graphs = graphs, !.phase = "cross", !.funded = cash]
    /\ UNCHANGED <<balance, tainted, sequence, permitted, now>>

Crossed(c, held) ==
    [w \in Wallet |-> [t \in Token |-> held[w][t] + Credit(c, w, t) - Debit(c, w, t)]]

Cross ==
    /\ tx # NoTx
    /\ tx.phase = "cross"
    /\ LET after == Crossed(tx.cell, tx.current)
       IN  /\ \A w \in Wallet, t \in Token : after[w][t] >= 0
           /\ tx' = [tx EXCEPT !.current = after, !.phase = "route"]
    /\ UNCHANGED <<balance, tainted, sequence, permitted, now>>

\* The next graph.  In a crossing it is admitted once more on its own.
Route ==
    /\ tx # NoTx
    /\ tx.phase = "route"
    /\ tx.turn \in DOMAIN tx.graphs
    /\ LET g == tx.graphs[tx.turn]
       IN  /\ Crossing(tx.cell) =>
                GraphAdmitted(g, sequence[g.owner], tx.current, tainted \cup tx.tainted, 0, {})
           /\ \E after \in Outcomes(g, tx.current[g.owner]), taken \in SUBSET Lent(g) :
                tx' = [tx EXCEPT !.current[g.owner] = after, !.tainted = @ \cup taken,
                                 !.turn = @ + 1]
    /\ UNCHANGED <<balance, tainted, sequence, permitted, now>>

\* Change of an account since the transaction began.
Change(w, t) == tx.current[w][t] - balance[w][t]

Unspoilt(w, t) == <<w, t>> \notin tx.tainted

PartyChecked(p) ==
    /\ Change(p.owner, p.source) = -p.input
    /\ Change(p.owner, p.sink) >= p.minOut
    /\ Unspoilt(p.owner, p.source)
    /\ Unspoilt(p.owner, p.sink)

\* What a funded cell spends is what its funding brought in.
BuyerChecked(c) ==
    LET gained == [t \in Token |-> ExposureOf(t, Change(c.buyer, t))]
        input == IF Funded(c) THEN tx.funded ELSE c.input
    IN  /\ tx.funded - Change(c.buyer, c.cash) = input
        /\ Unspoilt(c.buyer, c.cash)
        /\ Funded(c) => /\ Change(c.buyer, Source(c.funding)) = -c.funding.input
                        /\ Unspoilt(c.buyer, Source(c.funding))
        /\ \A t \in c.products :
              /\ Change(c.buyer, t) >= Internal(c, t)
              /\ Unspoilt(c.buyer, t)
        /\ Amounts(gained, c.products) >= c.floor

\* A seller is paid to the atom.
SellerChecked(p) == PartyChecked(p) /\ Change(p.owner, p.sink) = p.paid

FinalChecks(c) ==
    IF Crossing(c)
    THEN \A i \in Parties(c) : PartyChecked(c.parties[i])
    ELSE BuyerChecked(c) /\ \A i \in Parties(c) : SellerChecked(c.parties[i])

\* The transaction commits: balances, authorities and sequence numbers.
Commit ==
    /\ tx # NoTx
    /\ tx.phase = "route"
    /\ tx.turn \notin DOMAIN tx.graphs
    /\ FinalChecks(tx.cell)
    /\ balance' = tx.current
    /\ tainted' = tainted \cup tx.tainted
    /\ sequence' = [w \in Wallet |-> sequence[w] + (IF w \in Owners(tx.cell) THEN 1 ELSE 0)]
    /\ tx' = NoTx
    /\ UNCHANGED <<permitted, now>>

\* A failed check, call or transfer takes everything back.
Abort ==
    /\ tx # NoTx
    /\ tx' = NoTx
    /\ UNCHANGED <<balance, tainted, sequence, permitted, now>>

RefuseCell(c) ==
    /\ tx = NoTx
    /\ ~Admitted(c)
    /\ UNCHANGED cellVars

\* Policies and claims are published, halted and run out.
Publish ==
    /\ tx = NoTx
    /\ permitted' \in SUBSET Product
    /\ UNCHANGED <<balance, tainted, sequence, now, tx>>

CellTick ==
    /\ tx = NoTx
    /\ now < CellSlots
    /\ now' = now + 1
    /\ UNCHANGED <<balance, tainted, sequence, permitted, tx>>

CellInit ==
    /\ balance = Start
    /\ tainted = {}
    /\ sequence = [w \in Wallet |-> 0]
    /\ permitted = {}
    /\ now = 0
    /\ tx = NoTx

CellNext ==
    \/ \E c \in Cells : Begin(c) \/ RefuseCell(c)
    \/ Fund
    \/ Cross
    \/ Route
    \/ Commit
    \/ Abort
    \/ Publish
    \/ CellTick

CellSpec == CellInit /\ [][CellNext]_cellVars
-----------------------------------------------------------------------------
(***************************************************************************)
(* Properties                                                              *)
(***************************************************************************)

Running ==
    [cell : Cells, current : [Wallet -> [Token -> Nat]], tainted : SUBSET Account,
     graphs : Seq(GraphType), phase : {"fund", "cross", "route"}, turn : Nat, funded : Nat]

\* The type of every variable.  Of a funded cell, payments and graphs share
\* out exactly the cash that the funding brought in.
\* (meshcell.rs:714, meshcell.rs:730)
CellTypeOK ==
    /\ balance \in [Wallet -> [Token -> Nat]]
    /\ tainted \subseteq Account
    /\ sequence \in [Wallet -> Nat]
    /\ permitted \subseteq Product
    /\ now \in Nat
    /\ tx \in Running \cup {NoTx}
    /\ tx # NoTx /\ tx.funded # 0 =>
          InternalCash(tx.cell) + Routed(tx.graphs) = tx.funded

\* Cash of the buyer's own that a stock cell may use.
OwnCash(c) == IF Funded(c) THEN 0 ELSE c.input

\* At no point of a stock cell does a payment or a graph draw on more of the
\* buyer's own cash than it signed: none at all when the cell is funded.
\* (graph.rs:178 "execution always reads actual balances and cannot spend
\* this promise")
OwnCashKept ==
    tx # NoTx /\ ~Crossing(tx.cell) =>
        Change(tx.cell.buyer, tx.cell.cash) >= -OwnCash(tx.cell)

Promise == INSTANCE CellPromise

\* A cell implements its promise to every wallet at once: one whole trade at
\* the signed sequence numbers, or nothing.
\* (meshcell.rs:842, flowcell.rs:350, crossing.rs:220)
ImplementsCellPromise == Promise!PromiseSpec
=============================================================================
