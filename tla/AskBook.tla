------------------------------ MODULE AskBook ------------------------------
(***************************************************************************)
(* Resting asks (programs/stocklana-settle/src/order.rs) and the product   *)
(* claim they are priced under (claim.rs).                                 *)
(*                                                                         *)
(* The owner of a stock escrows it in an order account and may be away     *)
(* from then on: buyers fill the order against its revision, at no less    *)
(* than its price per unit of economic exposure, and the exposure of an    *)
(* atom is what the claim says at the time of the fill.  Whoever publishes *)
(* policies and claims, other buyers, donors to the escrow and the clock   *)
(* move between any two steps.                                             *)
(*                                                                         *)
(* Simplifications.                                                        *)
(*  - One owner, one claim and its policy.  The conversion's multipliers,  *)
(*    decimals and haircut are one rate over Unit.                         *)
(*  - A fill is the part of a mesh cell that concerns one order; its       *)
(*    buyer's side is another module's.                                    *)
(***************************************************************************)
EXTENDS StockPolicy, Sequences

CONSTANTS
    Nonces,             \* order nonces of the owner
    NoOrder,            \* the order account does not exist
    Supply,             \* the owner's stock at the start
    Lots,               \* bound: amounts placed and filled
    Prices,             \* bound: prices, per PriceUnit of exposure
    Rates,              \* bound: exposure of Unit atoms under a claim
    Unit,               \* the scale of a rate
    PriceUnit,          \* the scale of a price (2^32)
    Lifetime,           \* the slots a claim or an order may last (1,000,000)
    MaxPremium,         \* bound: cash paid beyond the price
    MaxGift,            \* bound: atoms that strangers donate to an escrow
    MaxVersion,         \* bound: policy and claim publications
    MaxRevision,        \* bound: fills of one order
    MaxSlot             \* bound: slots 0..MaxSlot

OrderType ==
    [total : Nat \ {0}, remaining : Nat, price : Nat \ {0}, expires : Nat,
     revision : Nat, filled : Nat, open : BOOLEAN]

ASSUME AskAssumption ==
    /\ NoOrder \notin OrderType
    /\ Supply \in Nat
    /\ Lots \subseteq Nat \ {0}
    /\ Prices \subseteq Nat \ {0}
    /\ Rates \subseteq Nat \ {0}
    /\ Unit \in Nat \ {0} /\ PriceUnit \in Nat \ {0}
    /\ Lifetime \in Nat
    /\ MaxPremium \in Nat /\ MaxGift \in Nat /\ MaxVersion \in Nat
    /\ MaxRevision \in Nat /\ MaxSlot \in Nat

ClaimType == [policyVersion : Nat, version : Nat, rate : Nat, expires : Nat]

\* The claim account does not exist.
NoClaim == [policyVersion |-> 0, version |-> 0, rate |-> 0, expires |-> 0]

VARIABLES
    slot,           \* the clock
    policy,         \* the product's policy account
    claim,          \* the product's claim account
    orders,         \* [Nonces -> order account or NoOrder]
    escrow,         \* [Nonces -> atoms in the order's escrow]
    stock,          \* atoms in the owner's own account
    gifts,          \* history: atoms donated to the escrow of an order
    sold,           \* history: atoms that fills took from an order
    owed,           \* history: exposure sold times the price, unrounded
    spent           \* history: revisions that fills of an order named

accounts == <<orders, escrow, stock>>
history  == <<gifts, sold, owed, spent>>
vars == <<slot, policy, claim, orders, escrow, stock, gifts, sold, owed, spent>>

Exposure(atoms, rate) == (atoms * rate) \div Unit

\* mutant of CashDue: the price of a fill is rounded down.
CashDueRoundedDown(exposure, price) == (exposure * price) \div PriceUnit

\* The least cash for an exposure, rounded up.
CashDue(exposure, price) == (exposure * price + PriceUnit - 1) \div PriceUnit

\* mutant of Stands: a claim outlives the policy it was published under.
StandsAlone(version, rate, deadline) ==
    /\ claim # NoClaim
    /\ claim.rate = rate
    /\ slot <= claim.expires
    /\ deadline <= claim.expires

\* The claim is the one that was signed for.
Stands(version, rate, deadline) ==
    /\ claim # NoClaim
    /\ claim.policyVersion = version
    /\ claim.rate = rate
    /\ slot <= claim.expires
    /\ deadline <= claim.expires

\* A settlement signs the policy's version, the rate and a deadline.
ClaimValid(version, rate, allowClosed, deadline) ==
    /\ Stands(version, rate, deadline)
    /\ Valid(policy, version, PolicyAge, allowClosed, deadline, slot)

-----------------------------------------------------------------------------
\* Opcode 19.
PublishPolicy ==
    /\ policy.version < MaxVersion
    /\ policy' \in Publications(policy, slot)
    /\ UNCHANGED <<slot, claim, accounts, history>>

\* Opcode 17.  A claim is published under the present policy while trading is
\* permitted in an open session.
PublishClaim ==
    /\ claim.version < MaxVersion
    /\ Valid(policy, policy.version, PolicyAge, FALSE, slot, slot)
    /\ claim' \in [policyVersion : {policy.version}, version : {claim.version + 1},
                   rate : Rates, expires : slot..(slot + Lifetime)]
    /\ UNCHANGED <<slot, policy, accounts, history>>

\* mutant of Vacant: the account of a cancelled order may be used again.
VacantOrCancelled(n) == IF orders[n] = NoOrder THEN TRUE ELSE ~orders[n].open

\* Cancelled orders stay behind as tombstones.
Vacant(n) == orders[n] = NoOrder

\* Opcode 15.
Place(n, atoms, price, expires, allowClosed) ==
    /\ Vacant(n)
    /\ expires \in (slot + 1)..(slot + Lifetime)
    /\ ClaimValid(policy.version, claim.rate, allowClosed, slot)
    /\ stock >= atoms
    /\ escrow[n] = 0
    /\ Exposure(atoms, claim.rate) > 0
    /\ orders' = [orders EXCEPT ![n] =
          [total |-> atoms, remaining |-> atoms, price |-> price, expires |-> expires,
           revision |-> 0, filled |-> 0, open |-> TRUE]]
    /\ stock' = stock - atoms
    /\ escrow' = [escrow EXCEPT ![n] = @ + atoms]
    /\ UNCHANGED <<slot, policy, claim, history>>

Filled(o, atoms, cash) ==
    [o EXCEPT !.remaining = @ - atoms, !.revision = @ + 1, !.filled = @ + cash]

\* validate_fill, transfer_fill and record_fill: a buyer that signed for this
\* revision, the policy's version and the rate takes atoms for cash.
Fill(n, revision, atoms, cash, version, rate, allowClosed, deadline) ==
    LET o == orders[n]
        exposure == Exposure(atoms, rate)
    IN  /\ o # NoOrder
        /\ slot <= deadline
        /\ ClaimValid(version, rate, allowClosed, deadline)
        /\ o.open
        /\ o.revision = revision
        /\ slot <= o.expires
        /\ atoms <= o.remaining
        /\ escrow[n] >= o.remaining
        /\ exposure > 0
        /\ cash >= CashDue(exposure, o.price)
        /\ orders' = [orders EXCEPT ![n] = Filled(o, atoms, cash)]
        /\ escrow' = [escrow EXCEPT ![n] = @ - atoms]
        /\ sold' = [sold EXCEPT ![n] = @ + atoms]
        /\ owed' = [owed EXCEPT ![n] = @ + exposure * o.price]
        /\ spent' = [spent EXCEPT ![n] = Append(@, revision)]
        /\ UNCHANGED <<slot, policy, claim, stock, gifts>>

\* mutant of Returned: a cancelled order releases its whole escrow.
ReturnedAll(n) == escrow[n]

\* What the owner gets back: not what strangers put there.
Returned(n) == orders[n].remaining

\* Opcode 16.  The owner cancels at any time, whatever policy and claim say.
Cancel(n) ==
    LET o == orders[n]
    IN  /\ o # NoOrder
        /\ o.open
        /\ escrow[n] >= o.remaining
        /\ stock' = stock + Returned(n)
        /\ escrow' = [escrow EXCEPT ![n] = @ - Returned(n)]
        /\ orders' = [orders EXCEPT ![n] =
              [o EXCEPT !.remaining = 0, !.revision = @ + 1, !.open = FALSE]]
        /\ UNCHANGED <<slot, policy, claim, history>>

\* Anyone may send atoms to an escrow, before or after its order is placed.
Donate(n) ==
    /\ gifts[n] < MaxGift
    /\ escrow' = [escrow EXCEPT ![n] = @ + 1]
    /\ gifts' = [gifts EXCEPT ![n] = @ + 1]
    /\ UNCHANGED <<slot, policy, claim, orders, stock, sold, owed, spent>>

Tick ==
    /\ slot < MaxSlot
    /\ slot' = slot + 1
    /\ UNCHANGED <<policy, claim, accounts, history>>

\* A transaction that may not settle leaves nothing behind.
Refuse == UNCHANGED vars

Init ==
    /\ slot = 0
    /\ policy = NoPolicy
    /\ claim = NoClaim
    /\ orders = [n \in Nonces |-> NoOrder]
    /\ escrow = [n \in Nonces |-> 0]
    /\ stock = Supply
    /\ gifts = [n \in Nonces |-> 0]
    /\ sold = [n \in Nonces |-> 0]
    /\ owed = [n \in Nonces |-> 0]
    /\ spent = [n \in Nonces |-> <<>>]

\* What a buyer may sign for: the cash is the price, or more.
Buy(n, atoms, rate) ==
    \E revision \in 0..MaxRevision, version \in 1..MaxVersion,
       premium \in 0..MaxPremium, allowClosed \in BOOLEAN, deadline \in 0..MaxSlot :
        /\ orders[n] # NoOrder
        /\ Fill(n, revision, atoms, CashDue(Exposure(atoms, rate), orders[n].price) + premium,
                version, rate, allowClosed, deadline)

Next ==
    \/ PublishPolicy
    \/ PublishClaim
    \/ \E n \in Nonces :
        \/ \E atoms \in Lots, price \in Prices, expires \in 1..(MaxSlot + 1),
              allowClosed \in BOOLEAN : Place(n, atoms, price, expires, allowClosed)
        \/ \E atoms \in Lots, rate \in Rates : Buy(n, atoms, rate)
        \/ Cancel(n)
        \/ Donate(n)
    \/ Tick
    \/ Refuse

Spec == Init /\ [][Next]_vars
-----------------------------------------------------------------------------
(***************************************************************************)
(* Properties                                                              *)
(***************************************************************************)

Placed == {n \in Nonces : orders[n] # NoOrder}

\* An open order's account tells what fills took, and a tombstone holds nothing.
Agrees(n) ==
    IF orders[n].open
    THEN orders[n].remaining + sold[n] = orders[n].total
    ELSE orders[n].remaining = 0

\* The type of every variable, with the accounts in agreement with the fills.
TypeOK ==
    /\ slot \in Nat
    /\ policy \in PolicyType
    /\ claim \in ClaimType
    /\ orders \in [Nonces -> OrderType \cup {NoOrder}]
    /\ escrow \in [Nonces -> Nat]
    /\ stock \in Nat
    /\ gifts \in [Nonces -> Nat]
    /\ sold \in [Nonces -> Nat]
    /\ owed \in [Nonces -> Nat]
    /\ spent \in [Nonces -> Seq(Nat)]
    /\ \A n \in Placed : Agrees(n)

\* Every escrow holds what its order still offers and what strangers put
\* there, so no sequence of fills, donations and cancellations leaves an owner
\* who cannot get the rest back, or releases atoms that the order never had.
\* (order.rs:357 "escrow_balance >= remaining", order.rs:473)
EscrowExact ==
    \A n \in Nonces :
        escrow[n] = gifts[n] + (IF n \in Placed THEN orders[n].remaining ELSE 0)

\* However an order is split into fills, at however many rates, the cash that
\* the owner received is no less than the price of all the exposure it gave.
\* (order.rs:369, ceil_q32)
OwnerPaid == \A n \in Placed : orders[n].filled * PriceUnit >= owed[n]

\* Two fills of a nonce never name the same revision: a fill that is delivered
\* twice, or after its order was cancelled and the nonce used again, does not
\* sell a second time.
\* (order.rs:435 "the same `(owner, nonce)` can never be replayed")
RevisionSpentOnce ==
    \A n \in Nonces : \A i, j \in DOMAIN spent[n] :
        spent[n][i] = spent[n][j] => i = j

\* Once a policy was published, no order is placed and none is filled until a
\* claim has been published under that policy, and none after the claim ends.
\* (claim.rs:218, claim.rs:239)
SoldUnderLiveClaim ==
    [][spent' # spent \/ Placed' # Placed =>
        claim.policyVersion = policy.version /\ slot <= claim.expires]_vars
=============================================================================
