----------------------------- MODULE MCAskBook ------------------------------
(***************************************************************************)
(* What the settlement program does for owners who are away: one owner     *)
(* with stock for two small orders, at rates and prices that do not divide *)
(* evenly; and the cells that settle several wallets at once, a buyer b, a *)
(* seller s and the maker of a resting order, in cash, a transit token,    *)
(* two products of one instrument and one of another.  A behaviour is one  *)
(* of either; `part` says of which.                                        *)
(***************************************************************************)
EXTENDS AskBook, CellSettlement

CONSTANTS b, s, maker, usd, sol, spyx, spyon, qqqx

VARIABLE part

Flag(second, halt, open) == [secondary |-> second, halted |-> halt, underlyingOpen |-> open]
MCFlags == {Flag(TRUE, FALSE, TRUE), Flag(TRUE, FALSE, FALSE)}

-----------------------------------------------------------------------------
(* The cells, some of which must be refused.                               *)

MCWallet == {b, s, maker}
MCToken == {usd, sol, spyx, spyon, qqqx}
MCStart == [w \in MCWallet |-> [t \in MCToken |->
    IF w = b THEN (IF t \in {usd, sol} THEN 3 ELSE 0) ELSE IF t \in {spyx, usd} THEN 2 ELSE 0]]
MCRate == [t \in MCToken |-> IF t = spyon THEN 3 ELSE 2]
MCInstrument == [t \in {spyx, spyon, qqqx} |-> IF t = qqqx THEN "qqq" ELSE "spy"]

Graph(w, path, atoms, least, all, lends) ==
    [owner |-> w, assets |-> path, input |-> atoms, minOut |-> least,
     deadline |-> 1, open |-> all, lent |-> lends]

Party(w, n, gives, atoms, takes, least, price) ==
    [owner |-> w, input |-> atoms, minOut |-> least, sequence |-> n, source |-> gives,
     sink |-> takes, paid |-> price]

Move(i, j, atoms) == [from |-> i, to |-> j, amount |-> atoms]

\* b and s cross whole, or b routes one of its two units.
Cross2(how, n, moves, rest) ==
    [deadline |-> 1, kind |-> how,
     parties |-> <<Party(b, n, usd, 2, spyx, 2, 0), Party(s, 0, spyx, 1, usd, 1, 0)>>,
     transfers |-> moves, graphs |-> rest]

\* What b buys with usd.
Stock(how, n, atoms, least, bought, sellers, routes, before) ==
    [input |-> atoms, deadline |-> 1, sequence |-> n, kind |-> how, parties |-> sellers,
     graphs |-> routes, buyer |-> b, cash |-> usd, floor |-> least, products |-> bought,
     funding |-> before, surplus |-> 1]

Ask(w, least, price) == Party(w, 0, spyx, 1, usd, least, price)
ToUsd == Graph(b, <<sol, usd>>, 1, 2, FALSE, {})

MCCells == {
    Cross2("cross", 0, <<Move(1, 2, 1), Move(2, 1, 1)>>,
           <<Graph(b, <<usd, spyx>>, 1, 1, FALSE, {})>>),
    Cross2("flow", 1, <<Move(1, 2, 1), Move(2, 1, 1)>>,
           <<Graph(b, <<usd, sol, spyx>>, 1, 1, FALSE, {})>>),
    \* two products under one floor; the second pair shares a transit account
    Stock("exposure", 0, 2, 3, {spyx, qqqx}, <<>>,
          <<Graph(b, <<usd, spyx>>, 1, 1, FALSE, {}),
            Graph(b, <<usd, qqqx>>, 1, 1, FALSE, {})>>, NoGraph),
    Stock("exposure", 0, 2, 3, {spyx, spyon}, <<>>,
          <<Graph(b, <<usd, sol, spyx>>, 1, 1, FALSE, {}),
            Graph(b, <<usd, spyon>>, 1, 1, FALSE, {sol})>>, NoGraph),
    \* the graph into one product lends the account of the other
    Stock("mesh", 0, 2, 3, {spyx, spyon}, <<Ask(s, 1, 1)>>,
          <<Graph(b, <<usd, sol, spyon>>, 1, 1, FALSE, {spyx})>>, NoGraph),
    \* two sellers, all internal
    Stock("mesh", 0, 2, 2, {spyx}, <<Ask(s, 1, 1), Ask(maker, 1, 1)>>, <<>>, NoGraph),
    \* funded, with a surplus into one graph or into an open one
    Stock("mesh", 0, 2, 3, {spyx, spyon}, <<Ask(maker, 1, 1)>>,
          <<Graph(b, <<usd, spyon>>, 1, 1, FALSE, {})>>, ToUsd),
    Stock("mesh", 1, 2, 3, {spyx, spyon}, <<Ask(maker, 1, 1)>>,
          <<Graph(b, <<usd, spyx, spyon>>, 1, 2, TRUE, {})>>, ToUsd),
    \* does not add up
    Stock("mesh", 0, 2, 2, {spyx, spyon}, <<Ask(s, 1, 1)>>,
          <<Graph(b, <<usd, spyon>>, 2, 1, FALSE, {})>>, ToUsd),
    \* two instruments
    Stock("mesh", 0, 2, 2, {spyx, qqqx}, <<Ask(s, 1, 1)>>,
          <<Graph(b, <<usd, qqqx>>, 1, 1, FALSE, {})>>, NoGraph)}

SettlementInit == part \in {"asks", "cells"} /\ Init /\ CellInit

SettlementNext ==
    /\ UNCHANGED part
    /\ \/ part = "asks" /\ Next /\ UNCHANGED cellVars
       \/ part = "cells" /\ CellNext /\ UNCHANGED vars

SettlementSpec == SettlementInit /\ [][SettlementNext]_<<part, vars, cellVars>>
=============================================================================
