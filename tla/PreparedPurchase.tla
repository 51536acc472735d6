-------------------------- MODULE PreparedPurchase --------------------------
(***************************************************************************)
(* A purchase from the execution bank to its receipt (prepare_direct in    *)
(* direct_prepare.rs, exposure_pipeline.rs, and fetch in                   *)
(* exposure_receipt.rs).  The prefix that the wallet needs is simulated to *)
(* compile the trade against the accounts it opens; the message is bound   *)
(* and simulated again, the prefix alone and then whole, on the bank that  *)
(* it was built from; the owner signs it, it lands, and the finalized      *)
(* transaction is fetched.  In between others use the same wallet.         *)
(*                                                                         *)
(* The settlement program is an adversary here.  It does what it promises  *)
(* (CellSettlement) or departs from it once, so that what the host checks  *)
(* is all that a receipt rests on.                                         *)
(*                                                                         *)
(* A job is [bank, intent, admission, trade, fee]: the bank is a ledger    *)
(* with the slot, the market and the policies; the trade lacks only its    *)
(* sequence; fee is what a simulation takes from the payer.                *)
(***************************************************************************)
EXTENDS ExposureReceipt

CONSTANTS
    Jobs,
    Raw,            \* what the products may bring
    LandFee,        \* the fee of a transaction on the chain
    Gift            \* what others send

\* Trades of the same parties for the same products as t.
ProductType == [asset : Asset, model : Nat, rate : Nat, version : Nat]
SameAssets(ps, qs) ==
    [i \in DOMAIN ps |-> ps[i].asset] = [i \in DOMAIN qs |-> qs[i].asset]
TradesLike(t) ==
    [opcode : Nat, reflow : BOOLEAN, input : {t.input}, amount : Nat,
     products : {ps \in Seq(ProductType) : SameAssets(ps, t.products)},
     sellers : {t.sellers}, graphs : {t.graphs}, fund : {t.fund}, floor : Int,
     sequence : Nat, deadline : Nat, closed : BOOLEAN]

\* An intent and a trade as decoding and planning give them, over a ledger.
JobType(j) ==
    /\ LedgerType(j.bank)
    /\ j.bank.slot \in Nat /\ j.bank.nonce.atoms \in Nat
    /\ j.intent.products \subseteq Asset /\ j.intent.input \in Asset
    /\ j.intent.amount \in Nat /\ j.intent.floor \in Nat /\ j.intent.deadline \in Nat
    /\ \A a \in j.intent.products : j.admission.terms[a].rate \in Nat
    /\ j.admission.units \in Nat /\ j.admission.heap \in Nat /\ j.admission.price \in Nat
    /\ j.trade \in TradesLike(j.trade) /\ j.trade.products # <<>>
    /\ j.trade.input \in Asset /\ (IsFunded(j.trade) => j.trade.fund.asset \in Asset)
    /\ Len(j.trade.sellers) \in Nat /\ DOMAIN j.trade.sellers = 1..Len(j.trade.sellers)
    /\ \A i \in DOMAIN j.trade.sellers :
         /\ j.trade.sellers[i].stock \in Nat /\ j.trade.sellers[i].cash \in Nat
         /\ {<<j.trade.sellers[i].wallet, a>> : a \in Asset} \subseteq DOMAIN j.bank.acct

ASSUME PurchaseAssumption ==
    /\ IsFiniteSet(Asset) /\ Native \in Asset
    /\ Rent \in Nat \ {0} /\ Gift \in Nat /\ LandFee \in Nat
    /\ \A j \in Jobs : JobType(j)
    /\ \A raw \in Raw : Len(raw) \in Nat /\ raw \in [1..Len(raw) -> Nat]

VARIABLES
    job,
    stage,
    setup,          \* WalletSetup, or None
    message,        \* the message that was built, or None
    expected,       \* ExpectedExposure, or None
    chain,          \* the accounts on the chain
    tx,             \* the finalized transaction, or None
    faithful        \* all parties did what they promise, undisturbed

purchaseVars == <<job, stage, setup, message, expected, chain, tx, faithful>>

-----------------------------------------------------------------------------
(* What the program makes of a trade.                                      *)

Plus(a, asset, n) ==
    [a EXCEPT !.atoms = @ + n, !.lamports = IF asset = Native THEN @ + n ELSE @]
Add(ledger, account, n) == [ledger EXCEPT !.acct[account] = Plus(@, account[2], n)]
\* What the moves ns of some accounts add up to for each.
Moved(accounts, ns, k) == SumOf([i \in {j \in DOMAIN accounts : accounts[j] = k} |-> ns[i]])
AddAll(ledger, accounts, ns) ==
    [ledger EXCEPT !.acct = [k \in DOMAIN @ |-> Plus(@[k], k[2], Moved(accounts, ns, k))]]
SellerMoves(t) ==
    [n \in 1..(2 * Len(t.sellers)) |->
        IF n % 2 = 1 THEN -SellerOf(t, n).stock ELSE SellerOf(t, n).cash]

CanMove(ledger, t) ==
    /\ ledger.nonce.open /\ ledger.nonce.atoms = t.sequence
    /\ \A i \in DOMAIN Balances(t) : Readable(ledger.acct[Balances(t)[i]])
    /\ Atoms(ledger, t.input) >= t.amount
    /\ \A i \in DOMAIN t.sellers : ledger.acct[SellerAccounts(t)[2 * i - 1]].atoms >= t.sellers[i].stock
Reached(t, raw) == SumOf([i \in DOMAIN t.products |-> raw[i] * t.products[i].rate]) >= t.floor

Returned(t, raw) ==
    [sequence |-> t.sequence, input |-> t.amount, units |-> 1,
     cash |-> IF IsFunded(t) THEN t.fund.least ELSE 0,
     raw |-> raw, exposure |-> [i \in DOMAIN raw |-> raw[i] * t.products[i].rate],
     total |-> SumOf([i \in DOMAIN raw |-> raw[i] * t.products[i].rate]),
     sold |-> [i \in DOMAIN t.sellers |-> [stock |-> t.sellers[i].stock, cash |-> t.sellers[i].cash]]]

Settled(ledger, t, raw) ==
    [ledger |-> [AddAll(ledger, <<Mine(t.input)>> \o ProductAccounts(t) \o SellerAccounts(t),
                        <<-t.amount>> \o raw \o SellerMoves(t)) EXCEPT !.nonce.atoms = @ + 1],
     ret |-> Returned(t, raw)]

\* What it can do instead: below the floor, it can also go ahead.
Departures(r, t) ==
    {r} \cup
    {[r EXCEPT !.ledger = Add(@, Mine(t.input), -1)],
     [r EXCEPT !.ledger = Add(@, ProductAccounts(t)[1], -1)],
     [r EXCEPT !.ledger.sol = @ - 1],
     [r EXCEPT !.ret.exposure[1] = @ + 1, !.ret.total = @ + 1],
     [r EXCEPT !.ret.total = @ + 1],
     [r EXCEPT !.ret.sequence = @ + 1],
     [r EXCEPT !.ret.units = MaxUnits + 1]}
      \cup (IF IsFunded(t) THEN {[r EXCEPT !.ledger = Add(@, Mine(t.fund.asset), -1)],
                                 [r EXCEPT !.ret.cash = @ - 1]} ELSE {})
      \cup (IF t.sellers = <<>> THEN {}
            ELSE {[r EXCEPT !.ledger = Add(@, SellerAccounts(t)[1], -1)],
                  [r EXCEPT !.ledger = Add(@, SellerAccounts(t)[2], -1)]})

\* The results of a whole message: the prefix, then the settlement.
Results(ledger, m, raw, honest) ==
    LET t == Last(m).body
        l == Run(ledger, Front(m))
    IN IF l = None \/ ~CanMove(l, t) THEN {}
       ELSE IF ~honest THEN Departures(Settled(l, t, raw), t)
       ELSE IF Reached(t, raw) THEN {Settled(l, t, raw)} ELSE {}
Raws(m) == {raw \in Raw : DOMAIN raw = DOMAIN Last(m).body.products}

-----------------------------------------------------------------------------
(* Preparation.                                                            *)

Refused(why) == stage' = "refused" /\ faithful' = (faithful /\ why)

\* The accounts of the trade, each once.
WalletAssets(t) ==
    <<t.input>> \o (IF IsFunded(t) THEN <<t.fund.asset>> ELSE <<>>)
      \o [i \in DOMAIN t.products |-> t.products[i].asset]
Wrap(t) == IF t.input = Native THEN t.amount ELSE 0

PlanSetup ==
    /\ stage = "read"
    /\ LET t == job.trade IN
       IF job.bank.market = job.intent.market /\ PlanFits(job.bank, WalletAssets(t), Wrap(t))
       THEN /\ setup' = WithNonce(job.bank, PlanWallet(job.bank, WalletAssets(t), Wrap(t)))
            /\ stage' = "planned" /\ UNCHANGED faithful
       ELSE Refused(TRUE) /\ UNCHANGED setup
    /\ UNCHANGED <<job, message, expected, chain, tx>>

\* simulate_wallet_setup.
SimulatedPrefix(m) == Run(Charged(job.bank, job.fee), m)
SimulateSetup ==
    /\ stage = "planned"
    /\ LET m == SetupOnly(setup, job.admission.units)
           after == SimulatedPrefix(m)
       IN IF setup.instructions = <<>>
             \/ /\ ValidSetupOnly(setup, m) /\ after # None
                /\ LoweringProjection(setup, job.bank, after, job.fee)
          THEN stage' = "lowered" /\ UNCHANGED faithful
          ELSE Refused(TRUE)
    /\ UNCHANGED <<job, setup, message, expected, chain, tx>>

\* The limits, what the wallet needs, and the trade with the sequence of the
\* bank.
Built ==
    <<Ins("limit", None, job.admission.units)>>
      \o (IF job.trade.reflow THEN <<Ins("heap", None, job.admission.heap)>> ELSE <<>>)
      \o (IF job.admission.price > 0 THEN <<Ins("price", None, job.admission.price)>> ELSE <<>>)
      \o setup.instructions
      \o <<Trade([job.trade EXCEPT !.sequence = setup.sequence])>>

\* Messages that are not what was built.
Edited(m) ==
    {RemoveAt(m, k) : k \in DOMAIN m}
      \cup {[m EXCEPT ![k] = m[k + 1], ![k + 1] = m[k]] : k \in 1..(Len(m) - 1)}
      \cup {InsertAt(m, k, m[k]) : k \in DOMAIN m}
      \cup {InsertAt(m, Len(m), Ins("create", a, 0)) : a \in Asset}
      \cup {[m EXCEPT ![k].n = @ + 1] : k \in DOMAIN m}
      \cup {[m EXCEPT ![Len(m)].body.amount = @ + 1], [m EXCEPT ![Len(m)].body.floor = @ - 1],
            [m EXCEPT ![Len(m)].body.deadline = @ + 1], [m EXCEPT ![Len(m)].body.sequence = @ + 1],
            [m EXCEPT ![Len(m)].body.products[1].rate = @ + 1]}
Messages == {Built} \cup {m \in Edited(Built) : m # <<>> /\ Last(m).op = "trade"}

Build(m) ==
    /\ stage = "lowered"
    /\ message' = m /\ stage' = "built" /\ faithful' = (faithful /\ m = Built)
    /\ UNCHANGED <<job, setup, expected, chain, tx>>

Bind ==
    /\ stage = "built"
    /\ IF Binds(job.bank, job.intent, job.admission, message)
       THEN expected' = Expect(job.bank, message) /\ stage' = "bound" /\ UNCHANGED faithful
       ELSE Refused(TRUE) /\ UNCHANGED expected
    /\ UNCHANGED <<job, setup, message, chain, tx>>

\* simulate_market: what the prefix leaves, and what the whole message does.
PrefixHolds(x) ==
    LET after == SimulatedPrefix(SetupMessage(x)) IN
    Active(x.setup) => after # None /\ VerifySetupOnly(x, job.bank, after)
ResultHolds(x, r) ==
    /\ VerifySimulatedSetup(x, job.bank, r.ledger)
    /\ Outcome(x, Observed(x, job.bank), r.ledger, r.ret)
Simulate(raw, honest) ==
    /\ stage = "bound"
    /\ LET rs == Results(Charged(job.bank, job.fee), message, raw, honest) IN
       \/ rs = {} /\ Refused(FALSE)
       \/ \E r \in rs :
            IF PrefixHolds(expected) /\ ResultHolds(expected, r)
            THEN stage' = "prepared" /\ UNCHANGED faithful
            ELSE Refused(honest)
    /\ UNCHANGED <<job, setup, message, expected, chain, tx>>

-----------------------------------------------------------------------------
(* On the chain.                                                           *)

\* Somebody sends the owner tokens, opens an account of the owner's, funds
\* one that does not exist yet, or the owner trades elsewhere.  A trade
\* survives the first and is disturbed by the others.
OthersMove(next, harmless) ==
    /\ stage = "prepared" /\ chain = job.bank
    /\ chain' = next /\ faithful' = (faithful /\ harmless)
    /\ UNCHANGED <<job, stage, setup, message, expected, tx>>
OthersUseWallet ==
    \/ \E a \in Asset : chain.acct[Mine(a)].open /\ OthersMove(Add(chain, Mine(a), Gift), TRUE)
    \/ \E a \in Asset :
         /\ ~chain.acct[Mine(a)].open
         /\ \/ OthersMove([chain EXCEPT !.acct[Mine(a)] = Opened(@)], FALSE)
            \/ OthersMove([chain EXCEPT !.acct[Mine(a)].lamports = @ + Gift], FALSE)
    \/ chain.nonce.open /\ OthersMove([chain EXCEPT !.nonce.atoms = @ + 1], FALSE)

Landed(ok, slot, after, ret) ==
    tx' = [message |-> message, ok |-> ok, slot |-> slot, fee |-> LandFee,
           before |-> chain, after |-> after, ret |-> ret]

\* In the last slot that is in time, or in the next one.  A program that
\* departs from its promise may also forget the deadline.
Land(slot, raw, honest) ==
    /\ stage = "prepared" /\ stage' = "landed"
    /\ slot > expected.trade.deadline => ~honest
    /\ LET rs == Results(Charged(chain, LandFee), message, raw, honest)
                   \cup (IF slot > expected.trade.deadline
                         THEN Results(Charged(chain, LandFee), message, raw, TRUE) ELSE {})
       IN \/ /\ rs = {} /\ Landed(FALSE, slot, Charged(chain, LandFee), None)
             /\ chain' = Charged(chain, LandFee) /\ faithful' = FALSE
          \/ \E r \in rs :
               Landed(TRUE, slot, r.ledger, r.ret) /\ chain' = r.ledger /\ faithful' = (faithful /\ honest)
    /\ UNCHANGED <<job, setup, message, expected>>

\* fetch and verify.
Fetch ==
    /\ stage = "landed"
    /\ IF Verifies(expected, tx) THEN stage' = "receipted" /\ UNCHANGED faithful ELSE Refused(TRUE)
    /\ UNCHANGED <<job, setup, message, expected, chain, tx>>

Over == stage \in {"refused", "receipted"} /\ UNCHANGED purchaseVars

PurchaseInit ==
    /\ job \in Jobs /\ chain = job.bank
    /\ stage = "read" /\ setup = None /\ message = None /\ expected = None /\ tx = None
    /\ faithful = TRUE

PurchaseNext ==
    \/ PlanSetup \/ SimulateSetup \/ Bind
    \/ stage = "lowered" /\ \E m \in Messages : Build(m)
    \/ stage = "bound" /\ \E raw \in Raws(message), honest \in BOOLEAN : Simulate(raw, honest)
    \/ OthersUseWallet
    \/ stage = "prepared" /\ \E slot \in {expected.trade.deadline, expected.trade.deadline + 1},
            raw \in Raws(message), honest \in BOOLEAN : Land(slot, raw, honest)
    \/ Fetch
    \/ Over

PurchaseSpec == PurchaseInit /\ [][PurchaseNext]_purchaseVars

-----------------------------------------------------------------------------
(* Properties.                                                             *)

\* A receipt is true of the chain, and within what the owner wanted: the
\* wallet has paid the input of the intent and no more, in coins with the fee
\* and the rent of the accounts that were opened where the transaction opened
\* any, it has got what the receipt says of products of the intent, worth its
\* floor at the admitted rates, in time, and nothing else of it has moved.
\* (verify, outcome and bind_market of exposure_receipt.rs)
NewAccounts(before, after) == {a \in Asset : ~before.acct[Mine(a)].open /\ after.acct[Mine(a)].open}
Change(a) == Atoms(tx.after, a) - Atoms(tx.before, a)
ReceiptIsTrue ==
    stage = "receipted" =>
        LET i == job.intent
            wraps == Change(i.input) # -i.amount
            opened == Cardinality(NewAccounts(tx.before, tx.after))
                        + (IF tx.before.nonce.open THEN 0 ELSE 1)
        IN /\ tx.ok /\ tx.slot \in job.bank.slot..i.deadline
           /\ wraps => i.input = Native /\ Change(Native) = 0
           /\ wraps \/ opened > 0 =>
                tx.before.sol - tx.after.sol = tx.fee + Rent * opened + (IF wraps THEN i.amount ELSE 0)
           /\ \A a \in Asset \ {i.input} :
                /\ Change(a) >= 0
                /\ Change(a) > 0 => a \in i.products
           /\ (\A a \in i.products : job.admission.terms[a].model = 0) =>
                SumOf([a \in i.products \ {i.input} |->
                         Change(a) * job.admission.terms[a].rate]) >= i.floor
           /\ \A n \in DOMAIN job.trade.sellers :
                LET q == job.trade.sellers[n]
                    stock == <<q.wallet, job.trade.products[q.product].asset>>
                    cash == <<q.wallet, CashOf(job.trade)>>
                IN /\ tx.before.acct[stock].atoms - tx.after.acct[stock].atoms = q.stock
                   /\ tx.after.acct[cash].atoms - tx.before.acct[cash].atoms = q.cash

\* A job that should be prepared: the market has not moved, the policies let
\* it through, and the wallet can pay and is nobody else's.
Sound(j) ==
    /\ j.bank.market = j.intent.market
    /\ \A i \in DOMAIN Balances(j.trade) : LET a == j.bank.acct[Balances(j.trade)[i]] IN
         IF a.open THEN a.free ELSE a.lamports = 0
    /\ j.bank.nonce.open \/ j.bank.nonce.lamports = 0
    /\ \A i \in DOMAIN j.trade.products :
         ProductFits(j.bank, j.intent, j.admission, j.trade, j.trade.products[i])

\* What was built from such a job, and went as promised, is not refused on
\* its way, and its transaction has a receipt - where simulations are free.
\* (the checks of wallet_wire.rs, exposure_receipt.rs and the pipeline agree)
HonestIsReceipted ==
    stage = "refused" /\ job.fee = 0 => ~(faithful /\ Sound(job))

\* The same, for simulations that take the fee from the payer.
\* (native_payout.rs:156 "Agave deducts the simulated fee from the payer's
\* returned balance. Use the simulation's reported fee")
FirstUseIsAdmitted == stage = "refused" => ~(faithful /\ Sound(job))
=============================================================================
