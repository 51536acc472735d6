---------------------------- MODULE MCRoutePlan ----------------------------
(***************************************************************************)
(* Small instances of what the host plans: orders over a handful of pools  *)
(* (RoutePlan), the folding of flow orders into a clearing (FlowFolding),  *)
(* the book of exposure (OneBook), and orders on the wire (ExposureWire).  *)
(* They share no state: a behaviour is one of one of them, and `part` says *)
(* of which.                                                               *)
(***************************************************************************)
EXTENDS RoutePlan, OneBook, FlowFolding

CONSTANTS
    MaxAssets, MaxAccounts, MaxProducts, MaxSellers, MaxBankKeys, Near

VARIABLES part, order, sent, bank, prices, wire

-----------------------------------------------------------------------------
(* Pools: what 1, 2, ... atoms give, beyond which they give no more.       *)

Pool(n, f, t, curve, h) ==
    [name |-> n, from |-> f, to |-> t, out |-> curve, heap |-> h, arrays |-> 1]

\* usd is bought with sol through F1 and F2; the products spyx and spyon with
\* usd, or one with the other.
F1 == Pool(1, "sol", "usd", <<2, 3, 4, 5>>, 0)
F2 == Pool(2, "sol", "usd", <<1, 3, 5>>, 1)
P1 == Pool(3, "usd", "spyx", <<3, 5, 6, 6, 7>>, 1)
P2 == Pool(4, "usd", "spyx", <<2, 4, 6, 7, 7, 8>>, 0)
P3 == Pool(5, "usd", "spyon", <<1, 2, 5, 6, 7>>, 2)
P4 == Pool(8, "usd", "spyon", <<0, 0, 0, 1>>, 0)
Q1 == Pool(6, "spyx", "spyon", <<1, 2, 4, 5, 6, 7>>, 3)
Q2 == Pool(7, "spyx", "spyon", <<2, 2, 3, 4>>, 3)

Lane(p, ws, m, ch) == [product |-> p, worlds |-> ws, multiplier |-> m, bps |-> 9, change |-> ch]
X(ws) == Lane("spyx", ws, 2, 0)
O(ws) == Lane("spyon", ws, 3, 0)

JobOf(how, ls, n, p, ss, f) ==
    [side |-> how, lanes |-> ls, input |-> n, prefix |-> p, now |-> 9, sellers |-> ss, floor |-> f]

Buys ==
    {JobOf("buy", ls, n, 0, <<>>, 0) : n \in 1..5,
     ls \in {<<X(<<<<P1>>>>)>>, <<X(<<<<P1, P2>>>>)>>, <<X(<<<<P1, P2>>>>), O(<<<<P3>>>>)>>,
             <<X(<<<<P1>>>>), O(<<<<P2>>, <<Q1, Q2>>>>)>>}}
FundedBuys ==
    {JobOf("buy", ls, n, 1, <<>>, 0) : n \in 2..4,
     ls \in {<<X(<<<<F1, F2>>, <<P1, P2>>>>)>>,
             <<X(<<<<F1, F2>>, <<P1>>>>), O(<<<<F1, F2>>, <<P3>>>>)>>,
             <<X(<<<<F1, F2>>, <<P1>>>>), O(<<<<F1, F2>>, <<P4>>>>)>>,
             <<Lane("spyx", <<<<F1>>, <<P1>>>>, 2, 10)>>}}

\* Pools that are sold into.
SA == Pool(10, "spyx", "usd", <<1, 2, 4, 4, 5>>, 0)
SB == Pool(11, "spyx", "usd", <<2, 3, 3, 5, 5>>, 0)
SC == Pool(12, "spyon", "spyx", <<2, 3, 4, 5, 6>>, 0)
SD == Pool(13, "spyon", "spyx", <<1, 2, 3, 4, 5>>, 0)
SE == Pool(14, "usd", "sol", <<1, 3, 4>>, 0)
SF == Pool(15, "usd", "sol", <<1, 1, 2, 3, 4, 5>>, 0)
Sells ==
    {JobOf("sell", <<Lane("spyx", ws, 1, 0)>>, n, 0, <<>>, 0) : n \in 1..5,
     ws \in {<<<<SA, SB>>>>, <<<<SE, SF>>, <<SA, SB>>>>, <<<<SE>>, <<SA, SB>>>>,
             <<<<SE>>, <<SA, SB>>, <<SC, SD>>>>}}

S(w, p, n, c, l) == [owner |-> w, product |-> p, stock |-> n, cash |-> c, least |-> l]
Clears ==
    {JobOf("clear", ls, 4, 0, ss, f) : f \in {6, 14},
     ls \in {<<X(<<<<P1, P2>>>>), O(<<<<P3>>>>)>>, <<X(<<<<P1>>>>)>>},
     ss \in {<<S("s", "spyx", 2, 2, 1)>>, <<S("s", "spyx", 2, 2, 1), S("r", "spyon", 3, 2, 2)>>,
             <<S("s", "spyx", 1, 3, 1), S("r", "spyx", 1, 2, 2)>>,
             <<S("s", "spyx", 2, 1, 1), S("r", "spyx", 3, 2, 2)>>,
             <<S("s", "spyx", 1, 1, 2)>>}}

MCJobs == Buys \cup FundedBuys \cup Sells \cup Clears

-----------------------------------------------------------------------------
(* Flow orders of four owners in a ring of three tokens; the second token  *)
(* may be probed for an anchor.                                            *)

FlowOrder(w, n, s, b, x, l) == [owner |-> w, nonce |-> n, sell |-> s, buy |-> b, amount |-> x, least |-> l]
MCCells ==
    {[orders |-> <<FlowOrder(1, 1, 1, 2, 4, l1), FlowOrder(2, 1, 2, 1, x2, 1),
                   FlowOrder(3, 1, 2, 3, 4, l3), FlowOrder(4, 1, 3, 1, x4, 2), e>>,
      lots |-> l, gives |-> g] :
        l1 \in {1, 4}, x2 \in {2, 5}, l3 \in {0, 2, 7}, x4 \in {3, 6},
        e \in {FlowOrder(2, 2, 1, 2, 2, 1), FlowOrder(2, 2, 3, 2, 5, 1)},
        l \in {<<1, 1, 1>>, <<1, 2, 1>>, <<2, 1, 3>>}, g \in {<<>>, <<1, 2, 3>>, <<0, 1, 2>>}}

-----------------------------------------------------------------------------
(* Two bids and three asks for one instrument in two claims.               *)

Bid(w, x, p, cs, pr, t) ==
    [owner |-> w, nonce |-> 1, side |-> "buy", amount |-> x, limit |-> p, claims |-> cs,
     delivers |-> 0, premium |-> pr, expires |-> 1, arrival |-> t]
AskOf(w, x, p, c, t) ==
    [owner |-> w, nonce |-> 1, side |-> "sell", amount |-> x, limit |-> p, claims |-> {c},
     delivers |-> c, premium |-> 0, expires |-> 1, arrival |-> t]
Slice(c, n, x, e) ==
    [claim |-> c, source |-> n, state |-> 1, input |-> x, exposure |-> 2, expires |-> e]
MCBooks ==
    {[orders |-> <<a, b, c, d, e>>, slices |-> s, slot |-> 1] :
        a \in {Bid(1, 3, p, {1, 2}, pr, 2) : p \in {11, 12}, pr \in {0, 2}},
        b \in {Bid(2, x, 11, {1}, 0, t) : x \in {1, 4}, t \in {1, 3}},
        c \in {AskOf(3, 2, p, 1, 4) : p \in {9, 11}}, d \in {AskOf(4, x, 10, 2, 1) : x \in {2, 5}},
        e \in {AskOf(5, 1, p, 1, 2) : p \in {8, 9}} \cup {AskOf(4, 1, 9, 1, 2)},
        s \in {<<Slice(1, 1, 5, 1), Slice(2, 1, 3, 2), Slice(1, 2, 3, 1)>>, <<Slice(1, 1, 5, 0)>>}}

-----------------------------------------------------------------------------
(* Purchases on the wire.                                                  *)

Mint(n) == <<"mint", n>>
Token == <<"program", "token">>
Token22 == <<"program", "token22">>
MCTokenProgram == [m \in {Mint(n) : n \in {"sol", "usd", "spyx", "spyon", "qqqx"}} |->
    IF m = Mint("spyx") THEN Token22 ELSE Token]
MCRank == Mint("spyx") :> 1 @@ Mint("spyon") :> 2 @@ Mint("qqqx") :> 3
ArrayName == <<"array1", "array2", "array3">>

\* Pools with three arrays each; n is the number of the first one behind
\* which the pool's own bitmap ends.
Market(n, program, f, t, dn, most, far, dyn) ==
    [pool |-> <<"pool", n>>, program |-> <<"program", program>>, from |-> Mint(f), to |-> Mint(t),
     vaults |-> <<<<"left", n>>, <<"right", n>>>>,
     reads |-> <<<<"config", program>>, Token, Token22, Mint(f), Mint(t)>>,
     grid |-> [i \in 1..3 |-> <<ArrayName[i], n>>], down |-> dn, most |-> most,
     extension |-> IF far THEN <<"bitmap", n>> ELSE None, dynamic |-> dyn]
WF1 == Market("f1", "orca", "sol", "usd", TRUE, 2, FALSE, FALSE)
WF2 == Market("f2", "raydium", "sol", "usd", FALSE, 3, FALSE, FALSE)
WP1 == Market("p1", "raydium", "usd", "spyx", FALSE, 2, TRUE, FALSE)
WP2 == Market("p2", "orca", "usd", "spyx", TRUE, 2, FALSE, FALSE)
WP3 == Market("p3", "raydium", "usd", "spyon", FALSE, 3, FALSE, TRUE)
WQ1 == Market("q1", "meteora", "spyx", "spyon", TRUE, 3, FALSE, FALSE)
WQ2 == Market("q2", "meteora", "spyon", "spyx", FALSE, 3, FALSE, FALSE)
WR1 == Market("r1", "orca", "usd", "qqqx", TRUE, 2, FALSE, FALSE)
WirePools == {m.pool : m \in {WF1, WF2, WP1, WP2, WP3, WQ1, WQ2, WR1}}
MCDiscovery == [p \in WirePools |-> IF p = WP1.pool THEN 1 ELSE 2]
MCFetches == {MCDiscovery} \cup {[MCDiscovery EXCEPT ![p] = t] : p \in WirePools, t \in 1..3}

\* A quote that needs as many arrays as there are, up to `need`; where the
\* price has moved to array 3 it has changed if it is sharp.
Reaches(m, t) == IF m.down THEN t ELSE 4 - t
Curve(m, o, need, sharp) == [t \in 1..3 |-> [n \in 1..Reaches(m, t) |->
    IF n < need /\ n < Reaches(m, t) THEN o - 1 ELSE IF sharp /\ t = 3 THEN o - 1 ELSE o]]
Swap(st, id, m, i, o, need, sharp) ==
    [stage |-> st, product |-> id, market |-> m, input |-> i, output |-> o,
     reach |-> Curve(m, o, need, sharp), atFloor |-> Curve(m, o, need, FALSE)]
Funding1 == <<Swap(1, None, WF1, 2, 5, 1, FALSE)>>
Funding2 == <<Swap(1, None, WF1, 1, 3, 2, FALSE), Swap(1, None, WF2, 1, 2, 1, TRUE)>>
Spyx(st, i) == <<Swap(st, "x", WP1, i, i + 1, 1, FALSE)>>
SpyxToo(st, i) == <<Swap(st, "x", WP2, i, i + 1, 2, TRUE)>>
Spyon(st, i) == <<Swap(st, "on", WP3, i, i + 2, 2, FALSE)>>
XtoOn(st, i) == <<Swap(st, "on", WQ1, i, i, 3, FALSE)>>
OntoX(st, i) == <<Swap(st, "x", WQ2, i, i, 1, FALSE)>>

Product(id, mint, least) ==
    [id |-> id, mint |-> Mint(mint), policy |-> <<"policy", mint>>, claim |-> None, least |-> least]
Claimed(p) == [p EXCEPT !.claim = <<"claim", p.mint[2]>>]
PX == Product("x", "spyx", 1)
PO == Product("on", "spyon", 2)
PQ == Product("q", "qqqx", 1)
Seller(p, w, rests, n, c, l) ==
    [product |-> p, owner |-> <<"wallet", w>>, authority |-> <<IF rests THEN "order" ELSE "nonce", w>>,
     source |-> <<"stock", w>>, destination |-> <<"cash", w>>, resting |-> rests, stock |-> n, cash |-> c,
     least |-> l]
WireJob(mint, n, reflow, products, proposals, sellers) ==
    [input |-> Mint(mint), amount |-> n, keep |-> 9, reflow |-> reflow, products |-> products,
     proposals |-> proposals, sellers |-> sellers]

FillJobs == {WireJob("usd", n, FALSE, ps, qs, <<>>) : n \in {3, 4},
    ps \in {<<PX>>, <<PX, PO>>},
    qs \in {Spyx(1, 4), Spyx(1, 1) \o SpyxToo(1, 3), Spyx(1, 2) \o Spyx(1, 2), Spyx(1, 1) \o Spyon(1, 3)}}
OpenJobs == {WireJob("usd", 4, TRUE, ps, qs, <<>>) :
    ps \in {<<PX, PO>>, <<PO, PX>>, <<PX, PO, PQ>>},
    qs \in {Spyx(1, 1) \o Spyon(1, 3), Spyx(1, 1) \o SpyxToo(1, 2) \o XtoOn(1, 1),
            Spyon(1, 2) \o OntoX(1, 1), Spyx(1, 2) \o Spyon(1, 2) \o OntoX(1, 1),
            Spyx(1, 2) \o Spyon(1, 2) \o <<Swap(1, "q", WR1, 1, 3, 1, FALSE)>>}}
FundedJobs == {WireJob("sol", 2, FALSE, ps, fs \o qs, <<>>) : fs \in {Funding1, Funding2},
    ps \in {<<PX>>, <<PO>>, <<PX, PO>>},
    qs \in {Spyx(2, 5), Spyon(2, 5), Spyx(2, 1) \o Spyon(2, 3), SpyxToo(2, 2) \o XtoOn(2, 1)}}
MeshJobs == {WireJob("usd", 4, FALSE, ps, qs, ss) :
    ps \in {<<Claimed(PX)>>, <<Claimed(PX), Claimed(PO)>>, <<PX, PO>>},
    qs \in {<<>>, Spyx(1, 2), Spyx(1, 1) \o Spyon(1, 1), Spyon(1, 2)},
    ss \in {<<Seller(1, "s", FALSE, 2, 2, 1)>>, <<Seller(1, "r", TRUE, 2, 2, 0)>>,
            <<Seller(1, "s", TRUE, 2, 2, 1), Seller(2, "s", FALSE, 2, 2, 1)>>,
            <<Seller(1, "r", TRUE, 2, 2, 1), Seller(2, "s", FALSE, 2, 2, 1)>>}}
FundedMeshJobs == {WireJob("sol", 2, FALSE, <<Claimed(PX), PO>>, Funding1 \o qs, <<Seller(1, "r", TRUE, 2, 2, 1)>>) :
    qs \in {Spyon(2, 2), Spyx(2, 2), SpyxToo(2, 1) \o Spyon(2, 1)}}
MCWireJobs == FillJobs \cup OpenJobs \cup FundedJobs \cup MeshJobs \cup FundedMeshJobs

-----------------------------------------------------------------------------
Wires == INSTANCE ExposureWire WITH
    Jobs <- MCWireJobs, TokenProgram <- MCTokenProgram, Rank <- MCRank, Discovery <- MCDiscovery,
    Fetches <- MCFetches, job <- order, phase <- sent, at <- prices

wireVars == <<order, sent, bank, prices, wire>>

One(set) == {CHOOSE x \in set : TRUE}

\* The parts that do not move have one initial state.
PlanningInit ==
    /\ part \in {"route", "folding", "book", "wire"}
    /\ job \in IF part = "route" THEN MCJobs ELSE One(Sells)
    /\ cell \in IF part = "folding" THEN MCCells ELSE One(MCCells)
    /\ book \in IF part = "book" THEN MCBooks ELSE One(MCBooks)
    /\ order \in IF part = "wire" THEN MCWireJobs ELSE One(MCWireJobs)
    /\ Init /\ FoldInit /\ BookInit /\ Wires!Init

PlanningNext ==
    /\ UNCHANGED part
    /\ \/ part = "route" /\ Next /\ UNCHANGED <<foldVars, bookVars, wireVars>>
       \/ part = "folding" /\ FoldNext /\ UNCHANGED <<planVars, bookVars, wireVars>>
       \/ part = "book" /\ BookNext /\ UNCHANGED <<planVars, foldVars, wireVars>>
       \/ part = "wire" /\ Wires!Next /\ UNCHANGED <<planVars, foldVars, bookVars>>

PlanningSpec == PlanningInit /\ [][PlanningNext]_<<part, planVars, foldVars, bookVars, wireVars>>

\* A compiled order says what was meant by it, and the program does not
\* refuse its accounts.  (ExposureWire)
WireMeansOrder == Wires!WireMeansOrder
PlannedIsSettled == Wires!PlannedIsSettled
=============================================================================
