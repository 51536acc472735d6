------------------------------- MODULE MCOrders -------------------------------
(***************************************************************************)
(* Small instances of what stands between an order and its settlement: the *)
(* bank that a market is published from, a wallet's plan of capsules, and  *)
(* purchases from the execution bank to the receipt.  They share no state: *)
(* a behaviour is one of any of them, and `part` says of which.            *)
(***************************************************************************)
EXTENDS CapsulePlan, BankPublication, PreparedPurchase, TLC

CONSTANTS
    Parts,
    c1, c2, c3, near, far,
    SimFees

VARIABLE part

-----------------------------------------------------------------------------
(* One plan over a wallet, with a remainder or without, and plans that the *)
(* program must refuse.                                                    *)

Term(total, minimum, first, expires) ==
    [total |-> total, minimum |-> minimum, size |-> 2, first |-> first, expires |-> expires]

MCTerms ==
    {Term(5, 3, 1, 1), Term(4, 5, 1, 2), Term(7, 1, 1, 1), Term(3, 2, 0, 1), Term(3, 2, 1, 3)}

\* A capsule signed at the nonce it should have, for closed sessions as well,
\* and at the next one, for open sessions.
MCCapsules ==
    {c \in [plan : Plan, sequence : 1..3, nonce : 0..3, input : 1..2, minOut : 1..3,
            deadline : {1}, age : {1}, allowClosed : BOOLEAN] :
        /\ c.nonce = IF c.allowClosed THEN c.sequence - 1 ELSE c.sequence
        /\ c.minOut \in {c.input, c.input + 1}
        /\ c.allowClosed => c.minOut = c.input}

Flag(second, halt, open) == [secondary |-> second, halted |-> halt, underlyingOpen |-> open]
MCFlags == {Flag(TRUE, FALSE, TRUE), Flag(TRUE, FALSE, FALSE)}

-----------------------------------------------------------------------------
(* The bank: the price leaves the first horizon, and two slots in a row    *)
(* carry the same accounts.                                                *)

MCContentAt == <<c1, c2, c2, c3>>
MCCovers == near :> {c1, c2} @@ far :> {c2, c3}
MCEdge == near :> {c2} @@ far :> {}
MCLayoutFor == c1 :> near @@ c2 :> far @@ c3 :> far

ASSUME BankAssumption

-----------------------------------------------------------------------------
(* Purchases of one product or two of a fund, by wallets that have all the *)
(* accounts of the trade and by wallets that need most of them.            *)

Absent == [open |-> FALSE, free |-> FALSE, lamports |-> 0, atoms |-> 0]
Prefunded == [Absent EXCEPT !.lamports = 1]
Holds(a, n) == [open |-> TRUE, free |-> TRUE,
                lamports |-> Rent + (IF a = Native THEN n ELSE 0), atoms |-> n]
Lent(a, n) == [Holds(a, n) EXCEPT !.free = FALSE]
Sequence(n) == [Holds("usd", 0) EXCEPT !.atoms = n]

Stand == [version |-> 1, updated |-> 1, until |-> 3,
          secondary |-> TRUE, halted |-> FALSE, underlyingOpen |-> TRUE]
Stands == {Stand, [Stand EXCEPT !.halted = TRUE], [Stand EXCEPT !.underlyingOpen = FALSE],
           [Stand EXCEPT !.until = 1], [Stand EXCEPT !.version = 2]}

Wallet(sol, usd, spyx, spyon) == "sol" :> sol @@ "usd" :> usd @@ "spyx" :> spyx @@ "spyon" :> spyon
Old == Wallet(Holds("sol", 1), Holds("usd", 3), Holds("spyx", 1), Holds("spyon", 0))
New == Wallet(Absent, Holds("usd", 2), Absent, Absent)

Accounts(sequence, wallet, market, stand) ==
    [sol |-> 30, nonce |-> sequence, market |-> market, slot |-> 1,
     policy |-> [a \in {"spyx", "spyon"} |-> IF a = "spyx" THEN stand ELSE Stand],
     acct |-> [k \in {"o", "s"} \X Asset |-> IF k[1] = "s" THEN Holds(k[2], 2) ELSE wallet[k[2]]]]

\* The conversion of one product is fixed, that of the other is not.
Product(a) == [asset |-> a, model |-> IF a = "spyx" THEN 1 ELSE 0,
               rate |-> IF a = "spyx" THEN 2 ELSE 1, version |-> 1]
X == Product("spyx")
O == Product("spyon")
Graph(p, n) == [product |-> p, input |-> n, legs |-> 1, reflow |-> FALSE, takes |-> TRUE]
OpenGraph(n) == [product |-> None, input |-> n, legs |-> 2, reflow |-> TRUE, takes |-> TRUE]
Fund(p, isOpen) == [asset |-> "usd", least |-> 2, spend |-> 2, product |-> p, open |-> isOpen, legs |-> 1]
Seller == [wallet |-> "s", product |-> 1, stock |-> 1, cash |-> 1]

Buy(opcode, reflow, input, ps, ss, gs, fund) ==
    [opcode |-> opcode, reflow |-> reflow, input |-> input, amount |-> 2, products |-> ps,
     sellers |-> ss, graphs |-> gs, fund |-> fund, floor |-> 2, sequence |-> 0,
     deadline |-> 2, closed |-> FALSE]
Single == Buy(13, FALSE, "usd", <<O>>, <<>>, <<Graph(1, 2)>>, None)
Double == Buy(13, FALSE, "usd", <<X, O>>, <<>>, <<Graph(1, 1), Graph(2, 1)>>, None)
InCoins == Buy(13, FALSE, "sol", <<O>>, <<>>, <<Graph(1, 2)>>, None)
Reflow == Buy(14, TRUE, "usd", <<X, O>>, <<>>, <<OpenGraph(2)>>, None)
FromSeller == Buy(14, FALSE, "usd", <<X>>, <<Seller>>, <<Graph(1, 1)>>, None)
Funded == Buy(18, FALSE, "sol", <<X>>, <<>>, <<Graph(1, 2)>>, Fund(1, FALSE))
FundedOpen == Buy(18, FALSE, "sol", <<X, O>>, <<>>, <<OpenGraph(2)>>, Fund(None, TRUE))

Job(accounts, t, price, fee) ==
    [bank |-> accounts, trade |-> t, fee |-> fee,
     intent |-> [market |-> "m", input |-> t.input, amount |-> t.amount, floor |-> 2,
                 deadline |-> 2, products |-> {t.products[i].asset : i \in DOMAIN t.products},
                 sequence |-> IF accounts.nonce.open THEN accounts.nonce.atoms ELSE 0],
     admission |-> [units |-> 2, heap |-> 2, price |-> price, closed |-> FALSE,
        terms |-> [a \in {"spyx", "spyon"} |->
            [version |-> 1, model |-> Product(a).model, rate |-> Product(a).rate]]]]

Plain(sequence, wallet, t) == Job(Accounts(sequence, wallet, "m", Stand), t, 0, 0)
MCJobs ==
    {Job(Accounts(s, w, "m", Stand), t, 0, f) :
        s \in {Absent, Sequence(1)}, w \in {Old, New}, f \in SimFees,
        t \in {Single, Double, InCoins, Reflow, FromSeller, Funded, FundedOpen}}
      \cup {Job(Accounts(Sequence(1), [New EXCEPT !["sol"] = Holds("sol", 1)], "m", Stand), t, 1, f) :
                t \in {InCoins, FundedOpen}, f \in SimFees}
      \cup {Job(Accounts(Sequence(1), New, m, y), FromSeller, 0, 0) : m \in {"m", "n"}, y \in Stands}
      \cup {Plain(Sequence(1), [New EXCEPT !["spyon"] = a], Single) : a \in {Prefunded, Lent("spyon", 1)}}
      \cup {Plain(Prefunded, New, Single)}

MCRaw == {<<0>>, <<1>>, <<2>>, <<0, 1>>, <<1, 0>>, <<1, 1>>}

-----------------------------------------------------------------------------
planVars == vars

OrdersInit ==
    /\ part \in Parts /\ Init /\ BankInit
    /\ IF part = "purchase" THEN PurchaseInit
       ELSE /\ job = None /\ stage = None /\ setup = None /\ message = None
            /\ expected = None /\ chain = None /\ tx = None /\ faithful = None

OrdersNext ==
    /\ UNCHANGED part
    /\ \/ part = "plan" /\ Next /\ UNCHANGED <<bankVars, purchaseVars>>
       \/ part = "bank" /\ BankNext /\ UNCHANGED <<planVars, purchaseVars>>
       \/ part = "purchase" /\ PurchaseNext /\ UNCHANGED <<planVars, bankVars>>

OrdersSpec == OrdersInit /\ [][OrdersNext]_<<part, planVars, bankVars, purchaseVars>>
=============================================================================
