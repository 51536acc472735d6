--------------------------- MODULE ExposureReceipt ---------------------------
(***************************************************************************)
(* What a message is taken to promise, and what a ledger must show for it  *)
(* (exposure_receipt.rs): a message is bound to the intent and the bank it *)
(* was prepared on, and the same expectation then judges the simulations   *)
(* and the finalized transaction.                                          *)
(*                                                                         *)
(* A trade is the body of the settlement instruction: [opcode, reflow,     *)
(* input, amount, products, sellers, graphs, fund, floor, sequence,        *)
(* deadline, closed].  Products are [asset, model, rate, version], sellers *)
(* [wallet, product, stock, cash], graphs [product, input, legs, reflow,   *)
(* takes]; `takes` is that the graph absorbs a surplus of the funding, and *)
(* fund is [asset, least, spend, product, open] or None: what the input is *)
(* sold for first, and how much of that the trade spends.                  *)
(*                                                                         *)
(* Addresses, privileges and the lookup tables are left out: an account is *)
(* named by what it must be derived from.                                  *)
(***************************************************************************)
EXTENDS WalletSetup, FiniteSetsExt

CONSTANTS
    MaxProducts,    \* 4
    MaxSellers,     \* 3
    MaxLegs,        \* 4 external swaps
    MaxFundLegs,    \* 3
    MaxPolicyAge    \* 150 slots

-----------------------------------------------------------------------------
(* parse_setup: the prefix, in order.                                      *)

NoSetup == [ok |-> TRUE, phase |-> "before", created |-> {}, nonce |-> FALSE, wrap |-> 0, at |-> {}]

Early(s) == s.phase \in {"before", "creating"}

\* Is the k-th instruction of the message in order there?
InPlace(bank, message, s, k) ==
    LET i == message[k] IN
    \/ i.op \in Compute /\ s.phase = "before"
    \/ i.op = "trade" /\ k = Len(message) /\ s.phase # "sent"
    \/ i.op = "nonce" /\ Early(s) /\ ~s.nonce /\ ~bank.nonce.open
    \/ /\ i.op = "create" /\ Early(s)
       /\ i.on \in Asset \ s.created /\ ~bank.acct[Mine(i.on)].open
    \/ /\ i.op = "transfer" /\ Early(s) /\ s.wrap = 0
       /\ i.on = Native /\ i.n \in 1..MaxInput
       /\ Native \in s.created \/ Readable(bank.acct[Mine(Native)])
    \/ i.op = "sync" /\ s.phase = "sent" /\ i.on = Native

Taken(s, i, k) ==
    CASE i.op = "nonce" -> [s EXCEPT !.phase = "creating", !.nonce = TRUE, !.at = @ \cup {k}]
      [] i.op = "create" -> [s EXCEPT !.phase = "creating", !.created = @ \cup {i.on}, !.at = @ \cup {k}]
      [] i.op = "transfer" -> [s EXCEPT !.phase = "sent", !.wrap = i.n, !.at = @ \cup {k}]
      [] i.op = "sync" -> [s EXCEPT !.phase = "synced", !.at = @ \cup {k}]
      [] OTHER -> s

ReadOne(bank, message, s, k) ==
    IF s.ok /\ InPlace(bank, message, s, k) THEN Taken(s, message[k], k)
    ELSE [s EXCEPT !.ok = FALSE]
\* What is known after 0, 1, 2, ... instructions.
Parsed(bank, message) ==
    LET at[k \in 0..Len(message)] ==
          IF k = 0 THEN NoSetup ELSE ReadOne(bank, message, at[k - 1], k)
    IN  at
ParseSetup(bank, message) ==
    LET s == Parsed(bank, message)[Len(message)]
    IN [s EXCEPT !.ok = /\ s.ok /\ s.phase # "sent"
                        /\ Cardinality(s.at) <= MaxSetup
                        /\ Cardinality(s.created) <= MaxAssets]

Active(s) == s.created # {} \/ s.nonce \/ s.wrap > 0

-----------------------------------------------------------------------------
(* bind_market.                                                            *)

Count(message, op) == Cardinality({k \in DOMAIN message : message[k].op = op})
Said(message, op) == {message[k].n : k \in {j \in DOMAIN message : message[j].op = op}}

EnvelopeFits(admission, message) ==
    /\ Len(message) <= MaxInstructions
    /\ Count(message, "trade") = 1 /\ Last(message).op = "trade"
    /\ Count(message, "limit") = 1 /\ Said(message, "limit") \subseteq 1..admission.units
    /\ Count(message, "heap") <= 1 /\ Said(message, "heap") \subseteq 1..admission.heap
    /\ Count(message, "price") <= 1 /\ Said(message, "price") \subseteq 0..admission.price

IsFunded(t) == t.fund # None
IsOpen(t) == IF IsFunded(t) THEN t.fund.open ELSE t.reflow
CashOf(t) == IF IsFunded(t) THEN t.fund.asset ELSE t.input
CashIn(t) == IF IsFunded(t) THEN t.fund.spend ELSE t.amount

\* A product is admitted with the terms that the message quotes, under a
\* policy of the bank that is fresh, lasts and allows the trade.
ProductFits(bank, intent, admission, t, p) ==
    /\ p.asset \in intent.products
    /\ [version |-> p.version, model |-> p.model, rate |-> p.rate] = admission.terms[p.asset]
    /\ p.rate > 0
    /\ LET y == bank.policy[p.asset] IN
         /\ y.version = p.version
         /\ y.updated \in (bank.slot - MaxPolicyAge)..bank.slot /\ y.until >= t.deadline
         /\ y.secondary /\ ~y.halted
         /\ t.closed \/ y.underlyingOpen

\* The funding graph ends in the cash that the trade spends.
FundFits(t) ==
    IsFunded(t) =>
        /\ t.fund.asset # t.input
        /\ t.fund.least >= t.fund.spend
        /\ t.fund.legs <= MaxFundLegs
        /\ t.fund.open \/ t.fund.product \in DOMAIN t.products

SellersFit(t) ==
    /\ Len(t.sellers) <= MaxSellers
    /\ \A i \in DOMAIN t.sellers :
         t.sellers[i].product \in DOMAIN t.products /\ t.sellers[i].cash > 0

\* An open graph splits the cash over all products itself; the others are one
\* to a product, and one of them takes what the funding brings too much.
OpenGraphFits(t) ==
    Len(t.graphs) = 1 /\ t.graphs[1].product = None /\ t.graphs[1].reflow
LegsOf(g) == IF g.reflow THEN MaxLegs ELSE g.legs
FixedGraphsFit(t) ==
    /\ Once([i \in DOMAIN t.graphs |-> t.graphs[i].product])
    /\ \A i \in DOMAIN t.graphs : t.graphs[i].product \in DOMAIN t.products
    /\ SumOf([i \in DOMAIN t.graphs |-> LegsOf(t.graphs[i])])
         + (IF IsFunded(t) THEN t.fund.legs ELSE 0) <= MaxLegs
    /\ IsFunded(t) => \E i \in DOMAIN t.graphs :
         /\ t.graphs[i].product = t.fund.product
         /\ t.graphs[i].takes /\ ~t.graphs[i].reflow
CashIsConserved(t) ==
    CashIn(t) = SumOf([i \in DOMAIN t.graphs |-> t.graphs[i].input])
                  + SumOf([i \in DOMAIN t.sellers |-> t.sellers[i].cash])
BodyFits(t) ==
    CASE t.opcode = 13 ->
            /\ t.sellers = <<>> /\ ~IsFunded(t) /\ ~t.reflow
            /\ [i \in DOMAIN t.graphs |-> t.graphs[i].product] = [i \in DOMAIN t.products |-> i]
            /\ CashIsConserved(t)
      [] t.opcode \in {14, 18} ->
            /\ (t.opcode = 18) = IsFunded(t)
            /\ t.sellers # <<>> \/ IsFunded(t) \/ t.reflow
            /\ Len(t.graphs) <= Len(t.products)
            /\ SellersFit(t) /\ CashIsConserved(t)
            /\ IF IsOpen(t) THEN OpenGraphFits(t) ELSE FixedGraphsFit(t)
      [] OTHER -> FALSE

\* The accounts that are compared, by what they are to the trade.
ProductAccounts(t) == [i \in DOMAIN t.products |-> Mine(t.products[i].asset)]
\* Two for each seller: the stock and the cash.
SellerOf(t, n) == t.sellers[(n + 1) \div 2]
SellerAccounts(t) ==
    [n \in 1..(2 * Len(t.sellers)) |->
        <<SellerOf(t, n).wallet,
          IF n % 2 = 1 THEN t.products[SellerOf(t, n).product].asset ELSE CashOf(t)>>]
Preserved(t) == IF IsFunded(t) THEN <<Mine(t.fund.asset)>> ELSE <<>>
Balances(t) == <<Mine(t.input)>> \o ProductAccounts(t) \o SellerAccounts(t) \o Preserved(t)

\* Is a token account there, or will the prefix open it?
Seen(bank, setup, account) ==
    account \in {Mine(a) : a \in setup.created} \/ Readable(bank.acct[account])

\* Mutant: whatever is wrapped, the trade spends its amount.
SetupFitsAnyWrap(bank, setup, t) ==
    /\ IF setup.nonce THEN t.sequence = 0
       ELSE bank.nonce.open /\ bank.nonce.atoms = t.sequence
    /\ {Mine(a) : a \in setup.created} \subseteq ToSet(Balances(t))

SetupFits(bank, setup, t) ==
    /\ setup.wrap > 0 => setup.wrap = t.amount /\ t.input = Native
    /\ IF setup.nonce THEN t.sequence = 0
       ELSE bank.nonce.open /\ bank.nonce.atoms = t.sequence
    /\ {Mine(a) : a \in setup.created} \subseteq ToSet(Balances(t))

Binds(bank, intent, admission, message) ==
    LET s == ParseSetup(bank, message)
        t == Last(message).body
    IN /\ EnvelopeFits(admission, message) /\ s.ok
       /\ bank.market = intent.market
       /\ Len(t.products) \in 1..MaxProducts
       /\ Once([i \in DOMAIN t.products |-> t.products[i].asset])
       /\ t.deadline \in bank.slot..intent.deadline
       /\ t.floor >= intent.floor
       /\ t.closed => admission.closed
       /\ \A i \in DOMAIN t.products : ProductFits(bank, intent, admission, t, t.products[i])
       /\ FundFits(t) /\ BodyFits(t)
       /\ t.amount = intent.amount /\ t.input = intent.input /\ t.sequence = intent.sequence
       /\ SetupFits(bank, s, t)
       /\ Once(Balances(t))
       /\ \A i \in DOMAIN Balances(t) : Seen(bank, s, Balances(t)[i])

Expect(bank, message) ==
    [trade |-> Last(message).body, setup |-> ParseSetup(bank, message), message |-> message,
     slot |-> bank.slot, units |-> Max(Said(message, "limit"))]

-----------------------------------------------------------------------------
(* The prefix alone, and the whole message, simulated.                     *)

SetupMessage(x) ==
    LET kept == SetToSortSeq({k \in DOMAIN x.message : x.message[k].op \in Compute \/ k \in x.setup.at}, <)
    IN [i \in DOMAIN kept |-> x.message[kept[i]]]

\* What the accounts that the prefix opened cost.
SetupRent(x, after) ==
    SumOf([a \in x.setup.created |-> Reserve(after.acct[Mine(a)], a)])
      + (IF x.setup.nonce THEN after.nonce.lamports ELSE 0)
PaidSetup(x, before, after, fee) ==
    before.sol - after.sol = SetupRent(x, after) + x.setup.wrap + fee

VerifySetupOnly(x, before, after) ==
    Active(x.setup) =>
        /\ \A a \in x.setup.created :
             /\ ~before.acct[Mine(a)].open /\ Readable(after.acct[Mine(a)])
             /\ Atoms(after, a) = (IF a = Native THEN x.setup.wrap ELSE 0)
             /\ Reserve(after.acct[Mine(a)], a) > 0
        /\ x.setup.wrap > 0 /\ Native \notin x.setup.created =>
             after.acct[Mine(Native)] = [before.acct[Mine(Native)] EXCEPT
                !.atoms = @ + x.setup.wrap, !.lamports = @ + x.setup.wrap]
        /\ x.setup.nonce => ~before.nonce.open /\ after.nonce.open /\ after.nonce.atoms = x.trade.sequence
        /\ PaidSetup(x, before, after, 0)

VerifySimulatedSetup(x, before, after) ==
    Active(x.setup) =>
        /\ x.setup.nonce => ~before.nonce.open /\ after.nonce.open /\ after.nonce.atoms = x.trade.sequence + 1
        /\ PaidSetup(x, before, after, 0)

\* On the chain the fee is part of the debit, and what the prefix opens must
\* not have held a lamport before.
VerifyLandedSetup(x, before, after, fee) ==
    Active(x.setup) =>
        /\ \A a \in x.setup.created : before.acct[Mine(a)].lamports = 0
        /\ x.setup.nonce => before.nonce.lamports = 0 /\ after.nonce.lamports > 0
        /\ PaidSetup(x, before, after, fee)

-----------------------------------------------------------------------------
(* outcome: the program's return data against the balances.  What the      *)
(* program returns is [sequence, input, total, cash, raw, exposure, sold,  *)
(* units].                                                                 *)

BeforeAmount(x, ledger, account) ==
    IF ledger.acct[account].open THEN ledger.acct[account].atoms
    ELSE IF account \in {Mine(a) : a \in x.setup.created} THEN 0 ELSE None
Gained(before, after, account) == after.acct[account].atoms - before[account]

\* For the first model the conversion is fixed, so that it can be repeated.
Converted(p, raw) == raw * p.rate
ProductHolds(t, before, after, ret, i) ==
    /\ (ret.raw[i] = 0) = (ret.exposure[i] = 0)
    /\ Gained(before, after, ProductAccounts(t)[i]) = ret.raw[i]
    /\ t.products[i].model = 0 => ret.exposure[i] = Converted(t.products[i], ret.raw[i])
SellerHolds(t, before, after, ret, i) ==
    /\ ret.sold[i] = [stock |-> t.sellers[i].stock, cash |-> t.sellers[i].cash]
    /\ Gained(before, after, SellerAccounts(t)[2 * i - 1]) = -t.sellers[i].stock
    /\ Gained(before, after, SellerAccounts(t)[2 * i]) = t.sellers[i].cash

InputHolds(x, before, after) ==
    before[Mine(x.trade.input)] + x.setup.wrap - after.acct[Mine(x.trade.input)].atoms = x.trade.amount
PreservedHolds(x, before, after, ret) ==
    IsFunded(x.trade) =>
        /\ ret.cash \in x.trade.fund.least..MaxInput
        /\ \A i \in DOMAIN Preserved(x.trade) : Gained(before, after, Preserved(x.trade)[i]) = 0
FloorMet(x, ret) ==
    /\ \E i \in DOMAIN ret.raw : ret.raw[i] > 0
    /\ ret.total = SumOf(ret.exposure) /\ ret.total >= x.trade.floor

\* before: [accounts -> atoms].
Outcome(x, before, after, ret) ==
    /\ ret.sequence = x.trade.sequence /\ ret.input = x.trade.amount
    /\ ret.units \in 1..x.units
    /\ InputHolds(x, before, after)
    /\ PreservedHolds(x, before, after, ret)
    /\ \A i \in DOMAIN x.trade.products : ProductHolds(x.trade, before, after, ret, i)
    /\ FloorMet(x, ret)
    /\ \A i \in DOMAIN x.trade.sellers : SellerHolds(x.trade, before, after, ret, i)

Observed(x, ledger) ==
    [a \in ToSet(Balances(x.trade)) |-> BeforeAmount(x, ledger, a)]
Complete(before) == \A a \in DOMAIN before : before[a] # None

\* verify: a finalized transaction [message, ok, slot, fee, before, after,
\* ret] is the receipt of the approved one.
Verifies(x, tx) ==
    /\ tx.message = x.message /\ tx.ok
    /\ Complete(Observed(x, tx.before))
    /\ Outcome(x, Observed(x, tx.before), tx.after, tx.ret)
    /\ VerifyLandedSetup(x, tx.before, tx.after, tx.fee)
    /\ tx.slot \in x.slot..x.trade.deadline
=============================================================================
