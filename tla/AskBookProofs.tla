--------------------------- MODULE AskBookProofs ---------------------------
(***************************************************************************)
(* Proofs about what the settlement program does for owners who are away.  *)
(*                                                                         *)
(* Resting asks.  EscrowExact, OwnerPaid and RevisionSpentOnce are         *)
(* inductive together with what ties an order's account to its past: while *)
(* an order is open its revision counts its fills, so the next fill spends *)
(* a revision that no fill has spent.                                      *)
(*                                                                         *)
(* Cells.  A cell implements its promise, and OwnCashKept holds, because a *)
(* running transaction is on course (Underway): see below.                 *)
(*                                                                         *)
(* The book of exposure, whose orders wait as asks do: nobody is traded    *)
(* through, as no order ever has more left than it had (BookInv).          *)
(***************************************************************************)
EXTENDS AskBook, CellSettlement, OneBook, FiniteSums, SequenceTheorems

\* Fills of an order spent the revisions 0, 1, 2, ... in this order.
SpentInOrder ==
    \A n \in Nonces :
        /\ \A i \in DOMAIN spent[n] : spent[n][i] = i - 1
        /\ n \in Placed /\ orders[n].open => orders[n].revision = Len(spent[n])

\* A nonce that was never placed has no past.
Unused ==
    \A n \in Nonces \ Placed : spent[n] = <<>> /\ sold[n] = 0 /\ owed[n] = 0

Inv == TypeOK /\ EscrowExact /\ OwnerPaid /\ SpentInOrder /\ Unused

-----------------------------------------------------------------------------
(* Arithmetic.                                                             *)

\* The exposure of stock at a rate is a natural number.
LEMMA ExposureIsNat ==
    ASSUME NEW atoms \in Nat, NEW rate \in Nat
    PROVE  Exposure(atoms, rate) \in Nat
<1>1. Unit \in Nat \ {0} BY AskAssumption
<1>2. atoms * rate \in Nat OBVIOUS
<1> DEFINE product == atoms * rate
<1>3. product \in Nat BY <1>2
<1> HIDE DEF product
<1>4. product \div Unit \in Nat BY <1>1, <1>3
<1>5. QED BY <1>4 DEF Exposure, product

\* Division rounded up covers its dividend.
LEMMA DivCovers ==
    ASSUME NEW x \in Nat, NEW d \in Nat \ {0}
    PROVE  ((x + d - 1) \div d) * d >= x
<1> DEFINE y == x + d - 1
<1>1. y \in Nat OBVIOUS
<1> HIDE DEF y
<1>2. y \div d \in Nat /\ y % d \in 0..(d - 1) /\ y = d * (y \div d) + (y % d)
    BY <1>1
<1> DEFINE q == y \div d
           r == y % d
<1>3. q \in Nat /\ r \in 0..(d - 1) /\ y = d * q + r BY <1>2
<1> HIDE DEF q, r
<1>4. q * d = d * q BY <1>3
<1> DEFINE p == d * q
<1>5. p \in Nat BY <1>3
<1>6. y = p + r /\ q * d = p BY <1>3, <1>4
<1> HIDE DEF p
<1>7. p >= y - (d - 1) BY <1>1, <1>3, <1>5, <1>6
<1>8. p >= x BY <1>5, <1>7 DEF y
<1>9. q * d >= x BY <1>6, <1>8
<1>10. QED BY <1>9 DEF q, y

\* A sum is multiplied term by term.
LEMMA Shares ==
    ASSUME NEW a \in Nat, NEW b \in Nat, NEW d \in Nat
    PROVE  (a + b) * d = a * d + b * d
OBVIOUS

\* The cash of a fill covers its exposure at the order's price.
LEMMA CashCovers ==
    ASSUME NEW exposure \in Nat, NEW price \in Nat, NEW cash \in Nat,
           cash >= CashDue(exposure, price)
    PROVE  cash * PriceUnit >= exposure * price
<1>1. PriceUnit \in Nat \ {0} BY AskAssumption
<1>2. exposure * price \in Nat OBVIOUS
<1> DEFINE x == exposure * price
           due == (x + PriceUnit - 1) \div PriceUnit
<1>3. x \in Nat BY <1>2
<1>4. cash >= due BY DEF CashDue
<1> HIDE DEF x
<1>5. due * PriceUnit >= x BY <1>1, <1>3, DivCovers
<1>6. x + PriceUnit - 1 \in Nat BY <1>1, <1>3
<1>7. due \in Nat BY <1>1, <1>6
<1> HIDE DEF due
<1>8. PICK more \in Nat : cash = due + more BY <1>4, <1>7
<1>9. cash * PriceUnit = due * PriceUnit + more * PriceUnit BY <1>1, <1>7, <1>8, Shares
<1>10. more * PriceUnit \in Nat /\ due * PriceUnit \in Nat BY <1>1, <1>7
<1>11. cash * PriceUnit >= x BY <1>3, <1>5, <1>9, <1>10
<1>12. QED BY <1>11 DEF x

-----------------------------------------------------------------------------
(* The initial state.                                                      *)

\* No order is open and nothing is in escrow at the start.
LEMMA InitInv == Init => Inv
<1> SUFFICES ASSUME Init PROVE Inv OBVIOUS
<1> USE DEF Init
<1>1. Placed = {} BY DEF Placed
<1>2. policy \in PolicyType BY DEF NoPolicy, PolicyType, FlagType
<1>3. claim \in ClaimType BY DEF NoClaim, ClaimType
<1>4. stock \in Nat BY AskAssumption
<1>5. spent \in [Nonces -> Seq(Nat)] BY EmptySeq
<1>6. TypeOK BY <1>1, <1>2, <1>3, <1>4, <1>5 DEF TypeOK
<1>7. EscrowExact BY <1>1 DEF EscrowExact
<1>8. OwnerPaid BY <1>1 DEF OwnerPaid
<1>9. SpentInOrder BY <1>1 DEF SpentInOrder
<1>10. Unused BY DEF Unused
<1>11. QED BY <1>6, <1>7, <1>8, <1>9, <1>10 DEF Inv

-----------------------------------------------------------------------------
(* The steps.                                                              *)

\* A step that leaves accounts and history alone leaves the rest of Inv alone.
LEMMA Elsewhere ==
    ASSUME Inv, UNCHANGED <<accounts, history>>,
           slot' \in Nat, policy' \in PolicyType, claim' \in ClaimType
    PROVE  Inv'
<1>1. Placed' = Placed BY DEF Placed, accounts
<1>2. \A n \in Placed : Agrees(n)' = Agrees(n) BY DEF Agrees, accounts, history
<1>3. TypeOK' BY <1>1, <1>2 DEF Inv, TypeOK, accounts, history
<1>4. EscrowExact' BY <1>1 DEF Inv, EscrowExact, accounts, history
<1>5. OwnerPaid' BY <1>1 DEF Inv, OwnerPaid, accounts, history
<1>6. SpentInOrder' BY <1>1 DEF Inv, SpentInOrder, accounts, history
<1>7. Unused' BY <1>1 DEF Inv, Unused, accounts, history
<1>8. QED BY <1>3, <1>4, <1>5, <1>6, <1>7 DEF Inv

\* A published stock policy touches no order.
LEMMA PolicyKeepsInv == Inv /\ PublishPolicy => Inv'
<1> SUFFICES ASSUME Inv, PublishPolicy PROVE Inv' OBVIOUS
<1>1. Flags \subseteq FlagType /\ PolicyLifetime \in Nat BY PolicyAssumption
<1>2. policy \in PolicyType /\ slot \in Nat /\ claim \in ClaimType BY DEF Inv, TypeOK
<1>3. NextVersion(policy) \in Nat BY <1>2 DEF NextVersion, PolicyType
<1>4. policy' \in PolicyType
    BY <1>1, <1>2, <1>3 DEF PublishPolicy, Publications, PolicyType
<1>5. QED BY <1>2, <1>4, Elsewhere DEF PublishPolicy

\* A published claim touches no order.
LEMMA ClaimKeepsInv == Inv /\ PublishClaim => Inv'
<1> SUFFICES ASSUME Inv, PublishClaim PROVE Inv' OBVIOUS
<1>1. Rates \subseteq Nat /\ Lifetime \in Nat BY AskAssumption
<1>2. policy \in PolicyType /\ slot \in Nat /\ claim \in ClaimType BY DEF Inv, TypeOK
<1>3. policy.version \in Nat /\ claim.version + 1 \in Nat
    BY <1>2 DEF PolicyType, ClaimType
<1> DEFINE v == policy.version
           w == claim.version + 1
<1>6. slot..(slot + Lifetime) \subseteq Nat BY <1>1, <1>2
<1>7. claim' \in [policyVersion : {v}, version : {w}, rate : Rates,
                  expires : slot..(slot + Lifetime)]
    BY DEF PublishClaim
<1>8. v \in Nat /\ w \in Nat BY <1>3
<1> HIDE DEF v, w
<1>4. claim' \in ClaimType BY <1>1, <1>6, <1>7, <1>8 DEF ClaimType
<1>5. QED BY <1>2, <1>4, Elsewhere DEF PublishClaim

\* What placing, filling and cancelling do to the other orders.
LEMMA OneOrder ==
    ASSUME Inv, NEW n \in Nonces, NEW o \in OrderType,
           orders' = [orders EXCEPT ![n] = o]
    PROVE  /\ orders' \in [Nonces -> OrderType \cup {NoOrder}]
           /\ orders'[n] = o
           /\ \A m \in Nonces \ {n} : orders'[m] = orders[m]
           /\ Placed' = Placed \cup {n}
           /\ n \in Placed'
<1>1. NoOrder \notin OrderType BY AskAssumption
<1>2. orders \in [Nonces -> OrderType \cup {NoOrder}] BY DEF Inv, TypeOK
<1>3. orders'[n] = o /\ \A m \in Nonces \ {n} : orders'[m] = orders[m] BY <1>2
<1>4. o # NoOrder BY <1>1
<1>5. Placed' = Placed \cup {n} BY <1>3, <1>4 DEF Placed
<1>6. QED BY <1>2, <1>3, <1>5

\* Placing an order moves its whole lot into escrow, under a free nonce.
LEMMA PlaceKeepsInv ==
    ASSUME Inv, NEW n \in Nonces, NEW atoms \in Lots, NEW price \in Prices,
           NEW expires \in Nat, NEW allowClosed \in BOOLEAN,
           Place(n, atoms, price, expires, allowClosed)
    PROVE  Inv'
<1> DEFINE o == [total |-> atoms, remaining |-> atoms, price |-> price, expires |-> expires,
                 revision |-> 0, filled |-> 0, open |-> TRUE]
<1>1. atoms \in Nat \ {0} /\ price \in Nat \ {0} BY AskAssumption
<1>2. o \in OrderType BY <1>1 DEF OrderType
<1>3. orders' = [orders EXCEPT ![n] = o] BY DEF Place
<1>4. o.total = atoms /\ o.remaining = atoms /\ o.revision = 0 /\ o.filled = 0 /\ o.open
    OBVIOUS
<1> HIDE DEF o
<1>5. /\ orders' \in [Nonces -> OrderType \cup {NoOrder}]
      /\ orders'[n] = o
      /\ \A m \in Nonces \ {n} : orders'[m] = orders[m]
      /\ Placed' = Placed \cup {n}
    BY <1>2, <1>3, OneOrder
<1>6. n \notin Placed /\ escrow[n] = 0 /\ stock >= atoms BY DEF Place, Vacant, Placed
<1>7. spent[n] = <<>> /\ sold[n] = 0 /\ owed[n] = 0 BY <1>6 DEF Inv, Unused
<1>8. gifts[n] = 0 BY <1>6 DEF Inv, TypeOK, EscrowExact
<1>9. UNCHANGED <<slot, policy, claim, gifts, sold, owed, spent>> BY DEF Place, history
<1>10. escrow' = [escrow EXCEPT ![n] = @ + atoms] /\ stock' = stock - atoms BY DEF Place
<1>11. TypeOK'
  <2>1. stock' \in Nat BY <1>1, <1>6, <1>10 DEF Inv, TypeOK
  <2>2. escrow' \in [Nonces -> Nat] BY <1>1, <1>10 DEF Inv, TypeOK
  <2>3. \A m \in Placed' : Agrees(m)'
    <3>1. Agrees(n)' BY <1>1, <1>4, <1>5, <1>7, <1>9 DEF Agrees
    <3>2. \A m \in Placed \ {n} : Agrees(m)' BY <1>5, <1>9 DEF Inv, TypeOK, Agrees, Placed
    <3>3. QED BY <1>5, <3>1, <3>2
  <2>4. QED BY <1>5, <1>9, <2>1, <2>2, <2>3 DEF Inv, TypeOK
<1>12. EscrowExact'
  <2>1. escrow'[n] = gifts'[n] + orders'[n].remaining
      BY <1>1, <1>4, <1>5, <1>6, <1>8, <1>9, <1>10 DEF Inv, TypeOK
  <2>2. \A m \in Nonces \ {n} : escrow'[m] = escrow[m]
      BY <1>10 DEF Inv, TypeOK
  <2>3. QED BY <1>5, <1>9, <2>1, <2>2 DEF Inv, EscrowExact
<1>13. OwnerPaid'
  <2>1. orders'[n].filled * PriceUnit >= owed'[n]
      BY <1>4, <1>5, <1>7, <1>9, AskAssumption
  <2>2. QED BY <1>5, <1>9, <2>1 DEF Inv, OwnerPaid, Placed
<1>14. SpentInOrder'
  <2>1. Len(spent[n]) = 0 BY <1>7
  <2>2. QED BY <1>4, <1>5, <1>9, <2>1 DEF Inv, SpentInOrder
<1>15. Unused' BY <1>5, <1>9 DEF Inv, Unused
<1>16. QED BY <1>11, <1>12, <1>13, <1>14, <1>15 DEF Inv

\* A fill takes the stock it delivers from escrow and pays its owner.
LEMMA FillKeepsInv ==
    ASSUME Inv, NEW n \in Nonces, NEW revision \in Nat, NEW atoms \in Lots, NEW cash \in Nat,
           NEW version \in Nat, NEW rate \in Nat, NEW allowClosed \in BOOLEAN,
           NEW deadline \in Nat,
           Fill(n, revision, atoms, cash, version, rate, allowClosed, deadline)
    PROVE  Inv'
<1> DEFINE was == orders[n]
           o == Filled(was, atoms, cash)
           exposure == Exposure(atoms, rate)
           due == exposure * was.price
<1>1. atoms \in Nat \ {0} BY AskAssumption
<1>2. was \in OrderType /\ n \in Placed
    BY DEF Inv, TypeOK, Fill, Placed
<1>3. /\ was.open /\ was.revision = revision /\ atoms <= was.remaining
      /\ cash >= CashDue(exposure, was.price)
      /\ orders' = [orders EXCEPT ![n] = o]
      /\ escrow' = [escrow EXCEPT ![n] = @ - atoms]
      /\ sold' = [sold EXCEPT ![n] = @ + atoms]
      /\ owed' = [owed EXCEPT ![n] = @ + due]
      /\ spent' = [spent EXCEPT ![n] = Append(@, revision)]
      /\ UNCHANGED <<slot, policy, claim, stock, gifts>>
    BY DEF Fill
<1>4. /\ was.total \in Nat \ {0} /\ was.remaining \in Nat /\ was.price \in Nat \ {0}
      /\ was.revision \in Nat /\ was.filled \in Nat
    BY <1>2 DEF OrderType
<1>5. exposure \in Nat BY <1>1, ExposureIsNat
<1> HIDE DEF exposure
<1>6. due \in Nat BY <1>4, <1>5
<1>7. cash * PriceUnit >= due BY <1>3, <1>4, <1>5, CashCovers
<1>8a. o = [was EXCEPT !.remaining = @ - atoms, !.revision = @ + 1, !.filled = @ + cash]
    BY DEF Filled
<1>8b. was \in [total : Nat \ {0}, remaining : Nat, price : Nat \ {0}, expires : Nat,
               revision : Nat, filled : Nat, open : BOOLEAN]
    BY <1>2, Zenon DEF OrderType
<1>8c. was.remaining - atoms \in Nat /\ was.revision + 1 \in Nat /\ was.filled + cash \in Nat
  <2>1. cash \in Nat /\ atoms \in Nat /\ atoms <= was.remaining BY <1>1, <1>3
  <2> DEFINE r == was.remaining
             v == was.revision
             f == was.filled
  <2>2. r \in Nat /\ v \in Nat /\ f \in Nat BY <1>4
  <2>3. atoms <= r BY <2>1
  <2> HIDE DEF r, v, f
  <2>4. r - atoms \in Nat /\ v + 1 \in Nat /\ f + cash \in Nat BY <2>1, <2>2, <2>3
  <2>5. QED BY <2>4 DEF r, v, f
<1> HIDE DEF o, due, was
<1>8. o \in OrderType
  <2>1. o \in [total : Nat \ {0}, remaining : Nat, price : Nat \ {0}, expires : Nat,
               revision : Nat, filled : Nat, open : BOOLEAN]
      BY <1>8a, <1>8b, <1>8c
  <2>2. QED BY <2>1, Zenon DEF OrderType
<1>9. /\ o.total = was.total /\ o.remaining = was.remaining - atoms /\ o.open = was.open
      /\ o.revision = was.revision + 1 /\ o.filled = was.filled + cash
    BY <1>8a, <1>8b
<1>10. /\ orders' \in [Nonces -> OrderType \cup {NoOrder}]
       /\ orders'[n] = o
       /\ \A m \in Nonces \ {n} : orders'[m] = orders[m]
       /\ Placed' = Placed
  <2>1. orders' = [orders EXCEPT ![n] = o] BY <1>3, Zenon
  <2>2. Placed' = Placed \cup {n} BY <1>8, <2>1, OneOrder, Zenon
  <2>3. Placed' = Placed BY <1>2, <2>2, Zenon
  <2>4. QED BY <1>8, <2>1, <2>3, OneOrder, Zenon
<1>11. escrow[n] = gifts[n] + was.remaining BY <1>2 DEF Inv, EscrowExact, was
<1>12. /\ escrow[n] \in Nat /\ gifts[n] \in Nat /\ sold[n] \in Nat /\ owed[n] \in Nat
       /\ spent[n] \in Seq(Nat)
    BY DEF Inv, TypeOK
<1>13. /\ escrow'[n] = escrow[n] - atoms /\ sold'[n] = sold[n] + atoms
       /\ owed'[n] = owed[n] + due /\ spent'[n] = Append(spent[n], revision)
       /\ gifts'[n] = gifts[n]
    BY <1>3 DEF Inv, TypeOK
<1>14. \A m \in Nonces \ {n} :
          /\ escrow'[m] = escrow[m] /\ sold'[m] = sold[m] /\ owed'[m] = owed[m]
          /\ spent'[m] = spent[m] /\ gifts'[m] = gifts[m]
    BY <1>3 DEF Inv, TypeOK
<1>15. TypeOK'
  <2>1. escrow' \in [Nonces -> Nat]
    <3>1. escrow[n] - atoms \in Nat
      <4> DEFINE e == escrow[n]
                 g == gifts[n]
                 r == was.remaining
      <4>1. /\ e \in Nat /\ g \in Nat /\ r \in Nat /\ atoms \in Nat
            /\ e = g + r /\ atoms <= r
          BY <1>1, <1>3, <1>4, <1>11, <1>12
      <4> HIDE DEF e, g, r
      <4>2. e - atoms \in Nat BY <4>1
      <4>3. QED BY <4>2 DEF e
    <3>2. QED BY <1>3, <3>1 DEF Inv, TypeOK
  <2>2. sold' \in [Nonces -> Nat] BY <1>1, <1>3, <1>12 DEF Inv, TypeOK
  <2>3. owed' \in [Nonces -> Nat] BY <1>3, <1>6, <1>12 DEF Inv, TypeOK
  <2>4. Append(spent[n], revision) \in Seq(Nat) BY <1>12
  <2>5. spent' \in [Nonces -> Seq(Nat)] BY <1>3, <2>4 DEF Inv, TypeOK
  <2>6. \A m \in Placed' : Agrees(m)'
    <3>1. was.remaining + sold[n] = was.total
        BY <1>2, <1>3 DEF Inv, TypeOK, Agrees, was
    <3>2. orders'[n].remaining + sold'[n] = orders'[n].total
        BY <1>1, <1>3, <1>4, <1>9, <1>10, <1>12, <1>13, <3>1
    <3>5. orders'[n].open BY <1>3, <1>9, <1>10
    <3>6. Agrees(n)' BY <3>2, <3>5 DEF Agrees
    <3>3. \A m \in Placed \ {n} : Agrees(m)'
        BY <1>10, <1>14 DEF Inv, TypeOK, Agrees, Placed
    <3>4. QED BY <1>10, <3>3, <3>6
  <2>7. QED BY <1>3, <1>10, <2>1, <2>2, <2>3, <2>5, <2>6 DEF Inv, TypeOK
<1>16. EscrowExact'
  <2>1. orders'[n].remaining = was.remaining - atoms BY <1>9, <1>10
  <2>2. escrow'[n] = escrow[n] - atoms /\ gifts'[n] = gifts[n] BY <1>13
  <2>3. escrow[n] - atoms = gifts[n] + (was.remaining - atoms)
    <3> DEFINE e == escrow[n]
               g == gifts[n]
               r == was.remaining
    <3>1. e = g + r /\ e \in Nat /\ g \in Nat /\ r \in Nat /\ atoms \in Nat
        BY <1>1, <1>4, <1>11, <1>12
    <3> HIDE DEF e, g, r
    <3>2. e - atoms = g + (r - atoms) BY <3>1
    <3>3. QED BY <3>2 DEF e, g, r
  <2>4. escrow'[n] = gifts'[n] + orders'[n].remaining BY <2>1, <2>2, <2>3
  <2>5. QED BY <1>2, <1>10, <1>14, <2>4 DEF Inv, EscrowExact
<1>17. OwnerPaid'
  <2>1. was.filled * PriceUnit >= owed[n] BY <1>2 DEF Inv, OwnerPaid, was
  <2>2. PriceUnit \in Nat BY AskAssumption
  <2>3. (was.filled + cash) * PriceUnit = was.filled * PriceUnit + cash * PriceUnit
      BY <1>4, <2>2, Shares
  <2> DEFINE x == was.filled * PriceUnit
             y == cash * PriceUnit
  <2>4. x \in Nat /\ y \in Nat BY <1>4, <2>2
  <2>5. x >= owed[n] /\ y >= due BY <1>7, <2>1
  <2>6. orders'[n].filled * PriceUnit = x + y BY <1>9, <1>10, <2>3
  <2> HIDE DEF x, y
  <2>7. x + y >= owed[n] + due BY <1>6, <1>12, <2>4, <2>5
  <2>8. orders'[n].filled * PriceUnit >= owed'[n] BY <1>13, <2>6, <2>7
  <2>9. QED BY <1>10, <1>14, <2>8 DEF Inv, OwnerPaid, Placed
<1>18. SpentInOrder'
  <2>1. revision = Len(spent[n]) BY <1>2, <1>3 DEF Inv, SpentInOrder, was
  <2>2. \A i \in DOMAIN spent[n] : spent[n][i] = i - 1 BY DEF Inv, SpentInOrder
  <2>3. Len(spent[n]) \in Nat /\ DOMAIN spent[n] = 1..Len(spent[n]) BY <1>12
  <2>4. \A i \in DOMAIN spent'[n] : spent'[n][i] = i - 1
      BY <1>12, <1>13, <2>1, <2>2, <2>3
  <2>5. orders'[n].revision = Len(spent'[n])
      BY <1>3, <1>9, <1>10, <1>12, <1>13, <2>1
  <2>6. QED BY <1>10, <1>14, <2>4, <2>5 DEF Inv, SpentInOrder
<1>19. Unused' BY <1>2, <1>10, <1>14 DEF Inv, Unused
<1>20. QED BY <1>15, <1>16, <1>17, <1>18, <1>19 DEF Inv

\* A cancellation returns what is left and retires the order.
LEMMA CancelKeepsInv ==
    ASSUME Inv, NEW n \in Nonces, Cancel(n)
    PROVE  Inv'
<1> DEFINE was == orders[n]
           o == [was EXCEPT !.remaining = 0, !.revision = @ + 1, !.open = FALSE]
<1>1. was \in OrderType /\ n \in Placed BY DEF Inv, TypeOK, Cancel, Placed
<1>2. /\ was.total \in Nat \ {0} /\ was.remaining \in Nat
      /\ was.revision \in Nat /\ was.filled \in Nat
    BY <1>1 DEF OrderType
<1>3. /\ orders' = [orders EXCEPT ![n] = o]
      /\ escrow' = [escrow EXCEPT ![n] = @ - was.remaining]
      /\ stock' = stock + was.remaining
      /\ UNCHANGED <<slot, policy, claim, gifts, sold, owed, spent>>
    BY DEF Cancel, Returned, history
<1>15. was.revision + 1 \in Nat BY <1>2
<1>4. o \in OrderType BY <1>1, <1>15 DEF OrderType
<1>5. o.remaining = 0 /\ o.filled = was.filled /\ ~o.open BY <1>1 DEF OrderType
<1> HIDE DEF o, was
<1>16. orders' = [orders EXCEPT ![n] = o] BY <1>3
<1>17. /\ orders' \in [Nonces -> OrderType \cup {NoOrder}]
       /\ orders'[n] = o
       /\ \A m \in Nonces \ {n} : orders'[m] = orders[m]
       /\ Placed' = Placed \cup {n}
    BY <1>4, <1>16, OneOrder
<1>6. /\ orders' \in [Nonces -> OrderType \cup {NoOrder}]
      /\ orders'[n] = o
      /\ \A m \in Nonces \ {n} : orders'[m] = orders[m]
      /\ Placed' = Placed
    BY <1>1, <1>17
<1>7. escrow[n] = gifts[n] + was.remaining /\ escrow[n] \in Nat /\ gifts[n] \in Nat
    BY <1>1 DEF Inv, TypeOK, EscrowExact, was
<1>8. /\ escrow'[n] = gifts[n]
      /\ \A m \in Nonces \ {n} : escrow'[m] = escrow[m]
    BY <1>2, <1>3, <1>7 DEF Inv, TypeOK
<1>9. TypeOK'
  <2>1. escrow' \in [Nonces -> Nat]
    <3>1. escrow[n] - was.remaining \in Nat BY <1>2, <1>7
    <3>2. QED BY <1>3, <3>1 DEF Inv, TypeOK
  <2>2. stock' \in Nat BY <1>2, <1>3 DEF Inv, TypeOK
  <2>3. \A m \in Placed' : Agrees(m)'
    <3>1. Agrees(n)' BY <1>5, <1>6 DEF Agrees
    <3>2. \A m \in Placed \ {n} : Agrees(m)'
        BY <1>3, <1>6 DEF Inv, TypeOK, Agrees, Placed
    <3>3. QED BY <1>6, <3>1, <3>2
  <2>4. QED BY <1>3, <1>6, <2>1, <2>2, <2>3 DEF Inv, TypeOK
<1>10. EscrowExact' BY <1>1, <1>3, <1>5, <1>6, <1>7, <1>8 DEF Inv, EscrowExact
<1>11. OwnerPaid' BY <1>1, <1>3, <1>5, <1>6 DEF Inv, OwnerPaid, Placed, was
<1>12. SpentInOrder' BY <1>3, <1>5, <1>6 DEF Inv, SpentInOrder
<1>13. Unused' BY <1>3, <1>6 DEF Inv, Unused
<1>14. QED BY <1>9, <1>10, <1>11, <1>12, <1>13 DEF Inv

\* What others send to the escrow is no part of any order.
LEMMA DonateKeepsInv ==
    ASSUME Inv, NEW n \in Nonces, Donate(n)
    PROVE  Inv'
<1>1. /\ escrow' = [escrow EXCEPT ![n] = @ + 1] /\ gifts' = [gifts EXCEPT ![n] = @ + 1]
      /\ UNCHANGED <<slot, policy, claim, orders, stock, sold, owed, spent>>
    BY DEF Donate
<1>2. Placed' = Placed BY <1>1 DEF Placed
<1>3. TypeOK' BY <1>1, <1>2 DEF Inv, TypeOK, Agrees
<1>4. EscrowExact'
  <2>1. \A m \in Placed : orders[m].remaining \in Nat
      BY DEF Inv, TypeOK, Placed, OrderType
  <2>2. QED BY <1>1, <1>2, <2>1 DEF Inv, TypeOK, EscrowExact
<1>5. OwnerPaid' BY <1>1, <1>2 DEF Inv, OwnerPaid
<1>6. SpentInOrder' BY <1>1, <1>2 DEF Inv, SpentInOrder
<1>7. Unused' BY <1>1, <1>2 DEF Inv, Unused
<1>8. QED BY <1>3, <1>4, <1>5, <1>6, <1>7 DEF Inv

-----------------------------------------------------------------------------
(* The theorems.                                                           *)

\* Every instruction about asks keeps the invariant.
LEMMA NextKeepsInv == Inv /\ [Next]_vars => Inv'
<1> SUFFICES ASSUME Inv, [Next]_vars PROVE Inv' OBVIOUS
<1>1. CASE PublishPolicy BY <1>1, PolicyKeepsInv
<1>2. CASE PublishClaim BY <1>2, ClaimKeepsInv
<1>3. ASSUME NEW n \in Nonces, NEW atoms \in Lots, NEW price \in Prices,
             NEW expires \in 1..(MaxSlot + 1), NEW allowClosed \in BOOLEAN,
             Place(n, atoms, price, expires, allowClosed)
      PROVE  Inv'
  <2>1. expires \in Nat BY AskAssumption
  <2>2. QED BY <1>3, <2>1, PlaceKeepsInv
<1>4. ASSUME NEW n \in Nonces, NEW atoms \in Lots, NEW rate \in Rates, Buy(n, atoms, rate)
      PROVE  Inv'
  <2>1. PICK revision \in 0..MaxRevision, version \in 1..MaxVersion,
             premium \in 0..MaxPremium, allowClosed \in BOOLEAN, deadline \in 0..MaxSlot :
           /\ orders[n] # NoOrder
           /\ Fill(n, revision, atoms,
                   CashDue(Exposure(atoms, rate), orders[n].price) + premium,
                   version, rate, allowClosed, deadline)
      BY <1>4 DEF Buy
  <2> DEFINE exposure == Exposure(atoms, rate)
             price == orders[n].price
             cash == CashDue(exposure, price) + premium
  <2>2. /\ revision \in Nat /\ version \in Nat /\ premium \in Nat /\ deadline \in Nat
        /\ rate \in Nat /\ atoms \in Nat
      BY AskAssumption
  <2>3. exposure \in Nat BY <2>2, ExposureIsNat
  <2>4. price \in Nat BY <2>1 DEF Inv, TypeOK, OrderType
  <2>5. cash \in Nat
    <3> HIDE DEF exposure, price
    <3>1. PriceUnit \in Nat \ {0} BY AskAssumption
    <3>2. exposure * price \in Nat BY <2>3, <2>4
    <3> DEFINE x == exposure * price + PriceUnit - 1
    <3>3. x \in Nat BY <3>1, <3>2
    <3> HIDE DEF x
    <3>4. x \div PriceUnit \in Nat BY <3>1, <3>3
    <3>5. CashDue(exposure, price) \in Nat BY <3>4 DEF CashDue, x
    <3>6. QED BY <2>2, <3>5
  <2>6. Fill(n, revision, atoms, cash, version, rate, allowClosed, deadline) BY <2>1
  <2> HIDE DEF cash
  <2>7. QED BY <2>2, <2>5, <2>6, FillKeepsInv
<1>5. ASSUME NEW n \in Nonces, Cancel(n) PROVE Inv' BY <1>5, CancelKeepsInv
<1>6. ASSUME NEW n \in Nonces, Donate(n) PROVE Inv' BY <1>6, DonateKeepsInv
<1>7. CASE Tick
  <2>1. /\ slot' \in Nat /\ policy' \in PolicyType /\ claim' \in ClaimType
      BY <1>7 DEF Tick, Inv, TypeOK
  <2>2. QED BY <1>7, <2>1, Elsewhere DEF Tick
<1>8. CASE UNCHANGED vars
  <2>1. /\ slot' \in Nat /\ policy' \in PolicyType /\ claim' \in ClaimType
      BY <1>8 DEF vars, Inv, TypeOK
  <2>2. QED BY <1>8, <2>1, Elsewhere DEF vars, accounts, history
<1>9. QED BY <1>1, <1>2, <1>3, <1>4, <1>5, <1>6, <1>7, <1>8 DEF Next, Refuse

\* The inductive invariant holds in every reachable state.
THEOREM Invariance == Spec => []Inv
BY InitInv, NextKeepsInv, PTL DEF Spec

\* Accounts keep their types and an order's account tells what fills took.
THEOREM AskTypes == Spec => []TypeOK
<1>1. Inv => TypeOK BY DEF Inv
<1>2. QED BY <1>1, Invariance, PTL

\* Whatever buyers, the owner and strangers do, an escrow holds exactly what
\* its order still offers and what strangers sent to it.
THEOREM EscrowHolds == Spec => []EscrowExact
<1>1. Inv => EscrowExact BY DEF Inv
<1>2. QED BY <1>1, Invariance, PTL

\* For every price, rate and way to split an order into fills, the owner is
\* paid for all the exposure it gave.
THEOREM OwnerIsPaid == Spec => []OwnerPaid
<1>1. Inv => OwnerPaid BY DEF Inv
<1>2. QED BY <1>1, Invariance, PTL

\* No revision of a nonce is filled twice.
THEOREM SpentOnce == Spec => []RevisionSpentOnce
<1>1. Inv => RevisionSpentOnce
  <2> SUFFICES ASSUME Inv, NEW n \in Nonces, NEW i \in DOMAIN spent[n],
                      NEW j \in DOMAIN spent[n], spent[n][i] = spent[n][j]
               PROVE  i = j
    BY DEF RevisionSpentOnce
  <2>1. spent[n] \in Seq(Nat) BY DEF Inv, TypeOK
  <2>2. i \in Nat /\ j \in Nat BY <2>1
  <2>3. spent[n][i] = i - 1 /\ spent[n][j] = j - 1 BY DEF Inv, SpentInOrder
  <2>5. spent[n][i] = spent[n][j] OBVIOUS
  <2>6. i - 1 = j - 1 BY <2>3, <2>5
  <2>4. QED BY <2>2, <2>6
<1>2. QED BY <1>1, Invariance, PTL

\* Between a policy's publication and the publication of a claim under it,
\* and after a claim's end, no order is placed or filled.
THEOREM SoldLive == Spec => SoldUnderLiveClaim
<1> DEFINE Frozen ==
      spent' # spent \/ Placed' # Placed =>
          claim.policyVersion = policy.version /\ slot <= claim.expires
<1>1. Inv /\ [Next]_vars => [Frozen]_vars
  <2> SUFFICES ASSUME Inv, Next, spent' # spent \/ Placed' # Placed
               PROVE  claim.policyVersion = policy.version /\ slot <= claim.expires
    BY DEF Frozen
  <2>1. CASE PublishPolicy BY <2>1 DEF PublishPolicy, accounts, history, Placed
  <2>2. CASE PublishClaim BY <2>2 DEF PublishClaim, accounts, history, Placed
  <2>3. ASSUME NEW n \in Nonces, NEW atoms \in Lots, NEW price \in Prices,
               NEW expires \in 1..(MaxSlot + 1), NEW allowClosed \in BOOLEAN,
               Place(n, atoms, price, expires, allowClosed)
        PROVE  claim.policyVersion = policy.version /\ slot <= claim.expires
      BY <2>3 DEF Place, ClaimValid, Stands
  <2>4. ASSUME NEW n \in Nonces, NEW atoms \in Lots, NEW rate \in Rates, Buy(n, atoms, rate)
        PROVE  claim.policyVersion = policy.version /\ slot <= claim.expires
      BY <2>4 DEF Buy, Fill, ClaimValid, Stands, Valid
  <2>5. ASSUME NEW n \in Nonces, Cancel(n)
        PROVE  claim.policyVersion = policy.version /\ slot <= claim.expires
    <3> DEFINE o == [orders[n] EXCEPT !.remaining = 0, !.revision = @ + 1, !.open = FALSE]
    <3>1. n \in Placed /\ orders[n] \in OrderType /\ spent' = spent
        BY <2>5 DEF Cancel, Placed, history, Inv, TypeOK
    <3>2. orders[n].revision + 1 \in Nat BY <3>1 DEF OrderType
    <3>3. o \in OrderType BY <3>1, <3>2 DEF OrderType
    <3>4. orders' = [orders EXCEPT ![n] = o]
      <4>1. Cancel(n) BY <2>5
      <4>2. QED BY <4>1 DEF Cancel
    <3> HIDE DEF o
    <3>5. Placed' = Placed \cup {n} BY <3>3, <3>4, OneOrder
    <3>6. QED BY <3>1, <3>5
  <2>6. ASSUME NEW n \in Nonces, Donate(n)
        PROVE  claim.policyVersion = policy.version /\ slot <= claim.expires
      BY <2>6 DEF Donate, Placed
  <2>7. CASE Tick BY <2>7 DEF Tick, accounts, history, Placed
  <2>8. CASE Refuse
    <3>1. spent' = spent /\ orders' = orders BY <2>8 DEF Refuse, vars
    <3>2. QED BY <3>1 DEF Placed
  <2>9. QED BY <2>1, <2>2, <2>3, <2>4, <2>5, <2>6, <2>7, <2>8 DEF Next
<1>2. QED BY <1>1, Invariance, PTL DEF Spec, SoldUnderLiveClaim

-----------------------------------------------------------------------------
\* The amounts of a record are summed up as any others.
LEMMA AmountsAreSums == \A r, S : Amounts(r, S) = SumIn(r, S)
BY DEF Amounts, SumIn

-----------------------------------------------------------------------------
(* Cells.  While a transaction runs, what is committed stays, so its        *)
(* preflight stays true of it; outside the accounts that its final checks  *)
(* compare nothing changes; and of a buyer's cash, what has come in and    *)
(* what still has to go out is known at every phase.                       *)

\* The accounts that a cell may change.
Concerned(c) ==
    {<<c.parties[i].owner, c.parties[i].source>> : i \in Parties(c)}
      \cup {<<c.parties[i].owner, c.parties[i].sink>> : i \in Parties(c)}
      \cup (IF Crossing(c) THEN {}
            ELSE {c.buyer} \X (c.products \cup {c.cash}
                                 \cup (IF Funded(c) THEN {Source(c.funding)} ELSE {})))

\* The graphs are the signed ones, but for an input that the funding enlarged.
Alike(g, h) ==
    /\ DOMAIN g = DOMAIN h
    /\ g.owner = h.owner /\ g.assets = h.assets /\ g.minOut = h.minOut
    /\ g.deadline = h.deadline /\ g.open = h.open /\ g.lent = h.lent
    /\ g.input \in Nat

\* So are all graphs of a transaction.
SameButInput(gs, hs) == DOMAIN gs = DOMAIN hs /\ \A i \in DOMAIN gs : Alike(gs[i], hs[i])

\* Every other account is as it was.
NothingElse(r) ==
    \A w \in Wallet, t \in Token :
        <<w, t>> \notin Concerned(r.cell) => r.current[w][t] = balance[w][t]

\* What venues took over are accounts that the final checks compare.
TakenIsCompared(r) ==
    r.tainted \in SUBSET (IF Crossing(r.cell) THEN {} ELSE {r.cell.buyer} \X r.cell.products)

\* What each graph takes.
Inputs(gs) == [i \in DOMAIN gs |-> gs[i].input]

\* The cash that is still to be routed.
ToRoute(r) == Amounts(Inputs(r.graphs), {i \in DOMAIN r.graphs : i >= r.turn})

\* Of a stock cell's cash: what has come in and what still has to go out.
CashFollows(r) ==
    LET c == r.cell
        changed == r.current[c.buyer][c.cash] - balance[c.buyer][c.cash]
    IN  /\ r.phase # "route" => r.turn = 1
        /\ r.phase = "fund" => r.funded = 0 /\ changed = 0
        /\ r.phase # "fund" => InternalCash(c) + Routed(r.graphs) = r.funded + OwnCash(c)
        /\ r.phase = "cross" => changed = r.funded
        /\ r.phase = "route" => changed = ToRoute(r) - OwnCash(c)

\* The fields of a running transaction.
TxFields == {"graphs", "tainted", "cell", "current", "phase", "turn", "funded"}

\* A running transaction passed the preflight, on what is still committed.
Underway(r) ==
    /\ DOMAIN r = TxFields
    /\ r.phase \in {"fund", "cross", "route"} /\ r.turn \in Nat /\ r.funded \in Nat
    /\ ~Funded(r.cell) => r.phase # "fund" /\ r.funded = 0
    /\ r.current \in [Wallet -> [Token -> Nat]]
    /\ r.cell \in Cells /\ Admitted(r.cell)
    /\ SameButInput(r.graphs, r.cell.graphs)
    /\ NothingElse(r)
    /\ TakenIsCompared(r)
    /\ ~Crossing(r.cell) => CashFollows(r)

\* The inductive invariant of cells.
CellInv ==
    /\ balance \in [Wallet -> [Token -> Nat]]
    /\ sequence \in [Wallet -> Nat] /\ now \in Nat
    /\ tx # NoTx => \E r \in {tx} : Underway(r)

\* A party is one wallet's exchange.
PartyShape(p) ==
    /\ p.owner \in Wallet /\ p.source \in Token /\ p.sink \in Token
    /\ p.sequence \in Nat /\ p.input \in Nat /\ p.minOut \in Nat /\ p.paid \in Nat

\* A graph names its ends apart from what it lends.
GraphShape(g) ==
    /\ g.owner \in Wallet /\ g.assets \in Seq(Token) /\ Len(g.assets) >= 2
    /\ g.minOut \in Nat /\ g.deadline \in Nat /\ g.open \in BOOLEAN
    /\ g.lent \in SUBSET Token /\ Named(g) \cap g.lent = {}
    /\ DOMAIN g = {"owner", "assets", "input", "minOut", "deadline", "open", "lent"}

\* The lists of a cell are finite, its fields of their kinds.
CellShape(c) ==
    /\ IsFiniteSet(Parties(c)) /\ IsFiniteSet(DOMAIN c.graphs)
    /\ \A i \in Parties(c) : PartyShape(c.parties[i])
    /\ c.graphs \in Seq(GraphType)
    /\ \A i \in DOMAIN c.graphs : GraphShape(c.graphs[i]) /\ c.graphs[i].input \in Nat
    /\ c.deadline \in Nat
    /\ Crossing(c) =>
          /\ IsFiniteSet(DOMAIN c.transfers)
          /\ \A k \in DOMAIN c.transfers : c.transfers[k].amount \in Nat
          /\ \A i \in DOMAIN c.graphs : ~c.graphs[i].open
    /\ ~Crossing(c) =>
          /\ c.buyer \in Wallet /\ c.cash \in Token /\ c.products \in SUBSET Token
          /\ c.input \in Nat /\ c.sequence \in Nat /\ c.surplus \in Nat /\ c.floor \in Nat
          /\ Funded(c) => GraphShape(c.funding) /\ c.funding.input \in Nat

\* Graphs of the type have the shape.
LEMMA GraphsHaveShape ==
    ASSUME NEW g \in GraphType
    PROVE  GraphShape(g) /\ g.input \in Nat
<1>1. /\ g \in [owner : Wallet, assets : Seq(Token), input : Nat \ {0}, minOut : Nat \ {0},
                deadline : Nat, open : BOOLEAN, lent : SUBSET Token]
      /\ Len(g.assets) >= 2
      /\ \A i \in DOMAIN g.assets : g.assets[i] \notin g.lent
    BY DEF GraphType
<1>2. /\ g.owner \in Wallet /\ g.assets \in Seq(Token) /\ g.minOut \in Nat /\ g.deadline \in Nat
      /\ g.open \in BOOLEAN /\ g.lent \in SUBSET Token /\ g.input \in Nat
      /\ DOMAIN g = {"owner", "assets", "input", "minOut", "deadline", "open", "lent"}
    BY <1>1
<1>3. Named(g) \cap g.lent = {}
    BY <1>1 DEF Named
<1> QED BY <1>1, <1>2, <1>3 DEF GraphShape

\* What wallets sign has the shape of a cell: a bounded list of parties and of
\* graphs, on accounts of wallets (crossing.rs:31, meshcell.rs:110).
LEMMA CellsHaveShape ==
    ASSUME NEW c \in Cells
    PROVE  CellShape(c)
<1>1. \A S, s : s \in Seq(S) => IsFiniteSet(DOMAIN s) /\ \A i \in DOMAIN s : s[i] \in S
  <2> TAKE S, s
  <2> HAVE s \in Seq(S)
  <2>1. Len(s) \in Nat /\ DOMAIN s = 1 .. Len(s) /\ \A i \in DOMAIN s : s[i] \in S
      OBVIOUS
  <2>2. IsFiniteSet(1 .. Len(s))
      BY <2>1, FS_Interval
  <2> QED BY <2>1, <2>2
<1>2. \A p \in PartyType : PartyShape(p)
    BY DEF PartyType, PartyShape
<1>3. CASE c \in CrossingType
  <2>1. /\ c.kind \in {"cross", "flow"} /\ c.deadline \in Nat /\ c.parties \in Seq(PartyType)
        /\ c.transfers \in Seq([from : Nat, to : Nat, amount : Nat \ {0}])
        /\ c.graphs \in Seq({g \in GraphType : ~g.open})
      BY <1>3 DEF CrossingType
  <2>2. Crossing(c)
      BY <2>1 DEF Crossing
  <2>3. IsFiniteSet(Parties(c)) /\ \A i \in Parties(c) : PartyShape(c.parties[i])
      BY <1>1, <1>2, <2>1 DEF Parties
  <2>4. /\ IsFiniteSet(DOMAIN c.graphs)
        /\ \A i \in DOMAIN c.graphs : c.graphs[i] \in GraphType /\ ~c.graphs[i].open
      BY <1>1, <2>1
  <2>5. c.graphs \in Seq(GraphType)
      BY <2>1, <2>4
  <2> DEFINE M == [from : Nat, to : Nat, amount : Nat \ {0}]
  <2>6. IsFiniteSet(DOMAIN c.transfers) /\ \A k \in DOMAIN c.transfers : c.transfers[k].amount \in Nat
    <3>1. c.transfers \in Seq(M)
        BY <2>1
    <3>2. \A m \in M : m.amount \in Nat
        OBVIOUS
    <3> HIDE DEF M
    <3> QED BY <1>1, <3>1, <3>2
  <2> QED BY <2>1, <2>2, <2>3, <2>4, <2>5, <2>6, GraphsHaveShape DEF CellShape
<1>4. CASE c \in StockType
  <2>1. /\ c.kind \in {"exposure", "mesh"} /\ c.deadline \in Nat /\ c.parties \in Seq(PartyType)
        /\ c.graphs \in Seq(GraphType) /\ c.buyer \in Wallet /\ c.cash \in Token
        /\ c.products \in SUBSET Token /\ c.input \in Nat /\ c.sequence \in Nat
        /\ c.surplus \in Nat /\ c.floor \in Nat /\ c.funding \in GraphType \cup {NoGraph}
      BY <1>4 DEF StockType
  <2>2. ~Crossing(c)
      BY <2>1 DEF Crossing
  <2>3. IsFiniteSet(Parties(c)) /\ \A i \in Parties(c) : PartyShape(c.parties[i])
      BY <1>1, <1>2, <2>1 DEF Parties
  <2>4. IsFiniteSet(DOMAIN c.graphs) /\ \A i \in DOMAIN c.graphs : c.graphs[i] \in GraphType
      BY <1>1, <2>1
  <2>5. Funded(c) => c.funding \in GraphType
      BY <2>1 DEF Funded
  <2> QED BY <2>1, <2>2, <2>3, <2>4, <2>5, GraphsHaveShape DEF CellShape
<1> QED BY <1>3, <1>4, CellAssumption

-----------------------------------------------------------------------------
\* A graph of the kernel changes what it touches; unless it is open, of what
\* it names only the ends (graph.rs:178).
LEMMA OutcomeStays ==
    ASSUME NEW g, GraphShape(g), g.input \in Nat, NEW before \in [Token -> Nat],
           NEW after \in Outcomes(g, before)
    PROVE  /\ after \in [Token -> Nat]
           /\ Source(g) \in Named(g) /\ Sink(g) \in Named(g) /\ Named(g) \in SUBSET Token
           /\ after[Source(g)] = before[Source(g)] - g.input
           /\ \A t \in Token \ Touched(g) : after[t] = before[t]
           /\ ~g.open => \A t \in Token \ ({Source(g), Sink(g)} \cup g.lent) : after[t] = before[t]
<1>1. /\ g.assets \in Seq(Token) /\ Len(g.assets) >= 2 /\ g.lent \in SUBSET Token
      /\ DOMAIN g.assets = 1 .. Len(g.assets) /\ Len(g.assets) \in Nat
    BY DEF GraphShape
<1>2. Source(g) \in Named(g) /\ Sink(g) \in Named(g) /\ Named(g) \in SUBSET Token
    BY <1>1 DEF Source, Sink, Named
<1>3. PICK change \in [Touched(g) \ {Source(g)} -> 0..MaxBalance] :
        after = [t \in Token |-> IF t = Source(g) THEN before[t] - g.input
                                 ELSE IF t \in Touched(g) THEN change[t] ELSE before[t]]
    BY DEF Outcomes
<1>4. Delivers(g, before, after)
    BY DEF Outcomes
<1>5. before[Source(g)] >= g.input /\ after[Source(g)] = before[Source(g)] - g.input
    BY <1>4 DEF Delivers
<1>6. after \in [Token -> Nat]
  <2>1. MaxBalance \in Nat
      BY CellAssumption
  <2>2. before[Source(g)] - g.input \in Nat
      BY <1>2, <1>5
  <2>3. \A t \in Token : after[t] \in Nat
      BY <1>3, <2>1, <2>2
  <2> QED BY <1>3, <2>3
<1>7. \A t \in Token \ Touched(g) : after[t] = before[t]
    BY <1>2, <1>3 DEF Touched
<1>8. ASSUME ~g.open PROVE \A t \in Token \ ({Source(g), Sink(g)} \cup g.lent) : after[t] = before[t]
    BY <1>4, <1>7, <1>8 DEF Delivers, Touched
<1> QED BY <1>2, <1>5, <1>6, <1>7, <1>8

\* A graph with another input has the same accounts.
LEMMA AlikeGraphs ==
    ASSUME NEW h, GraphShape(h), NEW g, Alike(g, h)
    PROVE  /\ GraphShape(g) /\ g.input \in Nat /\ g.owner = h.owner /\ g.lent = h.lent
           /\ g.open = h.open /\ g.assets = h.assets
           /\ Named(g) = Named(h) /\ Touched(g) = Touched(h)
           /\ Source(g) = Source(h) /\ Sink(g) = Sink(h)
<1>1. /\ g.owner = h.owner /\ g.lent = h.lent /\ g.open = h.open /\ g.input \in Nat
      /\ g.assets = h.assets /\ g.minOut = h.minOut /\ g.deadline = h.deadline
      /\ DOMAIN g = DOMAIN h
    BY DEF Alike
<1>2. /\ Named(g) = Named(h) /\ Touched(g) = Touched(h)
      /\ Source(g) = Source(h) /\ Sink(g) = Sink(h)
    BY <1>1 DEF Named, Touched, Source, Sink
<1>3. GraphShape(g)
    BY <1>1, <1>2 DEF GraphShape
<1> QED BY <1>1, <1>2, <1>3

\* A graph names both its ends.
LEMMA EndsAreNamed ==
    ASSUME NEW g, GraphShape(g)
    PROVE  Source(g) \in Named(g) /\ Sink(g) \in Named(g) /\ Named(g) \in SUBSET Token
BY DEF GraphShape, Source, Sink, Named

\* Where an account that graphs may carry comes from.
LEMMA AggregateIs ==
    ASSUME NEW c, NEW t \in Aggregate(c)
    PROVE  \/ t \in c.products
           \/ \E j \in DOMAIN c.graphs : t \in Named(c.graphs[j])
           \/ Funded(c) /\ t \in Named(c.funding)
<1> DEFINE A == IF c.kind = "mesh" THEN c.products ELSE {}
           B == UNION {Named(c.graphs[i]) : i \in DOMAIN c.graphs}
           C == IF Funded(c) THEN Named(c.funding) ELSE {}
<1>1. Aggregate(c) = A \cup B \cup C
    BY Zenon DEF Aggregate
<1>2. CASE t \in B
    BY <1>2
<1>3. CASE t \in A
    BY <1>3
<1>4. CASE t \in C
    BY <1>4
<1> HIDE DEF A, B, C
<1> QED BY <1>1, <1>2, <1>3, <1>4

\* A funding that was admitted passes nothing to venues beyond what it names:
\* every account it could lend is a product, named by a graph or its own.
LEMMA FundingGraph ==
    ASSUME NEW c, CellShape(c), ~Crossing(c), Admitted(c), Funded(c)
    PROVE  LET g == c.funding
           IN  /\ g.owner = c.buyer /\ Sink(g) = c.cash /\ Source(g) # c.cash
               /\ ~g.open /\ g.lent = {} /\ Source(g) \notin c.products
<1> DEFINE g == c.funding
<1>1. FundingAdmitted(c)
    BY DEF Admitted, StockAdmitted
<1>2. /\ g.owner = c.buyer /\ ~g.open /\ Sink(g) = c.cash /\ Source(g) # c.cash
      /\ Touched(g) \cap c.products = {}
      /\ \A i \in DOMAIN c.graphs : Touched(g) \cap Touched(c.graphs[i]) \subseteq {c.cash}
      /\ g.lent \subseteq Aggregate(c)
    BY <1>1, Zenon DEF FundingAdmitted, GraphAdmitted, Apart
<1>3. GraphShape(g) /\ Source(g) \in Named(g) /\ Sink(g) \in Named(g) /\ Named(g) \cap g.lent = {}
    BY EndsAreNamed DEF CellShape, GraphShape
<1>4. \A t \in g.lent : t \notin c.products /\ t \notin Named(g) /\ t # c.cash
    BY <1>2, <1>3 DEF Touched
<1>5. \A t \in g.lent : \A i \in DOMAIN c.graphs : t \notin Named(c.graphs[i])
    BY <1>2, <1>4 DEF Touched
<1>6. g.lent = {}
    BY <1>2, <1>4, <1>5, AggregateIs
<1> QED BY <1>2, <1>3, <1>6 DEF Touched

\* A graph of a stock cell spends the cash, ends in products, and lends
\* nothing but accounts of products, which the final checks compare.
LEMMA StockGraph ==
    ASSUME NEW c, CellShape(c), ~Crossing(c), Admitted(c), NEW i \in DOMAIN c.graphs
    PROVE  LET g == c.graphs[i]
           IN  /\ g.owner = c.buyer /\ Source(g) = c.cash
               /\ g.lent \in SUBSET c.products /\ c.cash \notin g.lent
               /\ IF g.open THEN Len(c.graphs) = 1 /\ Named(g) \ {c.cash} \subseteq c.products
                  ELSE Sink(g) \in c.products
<1> DEFINE g == c.graphs[i]
<1>1. /\ BuyerGraphAdmitted(c, g)
      /\ \A j \in DOMAIN c.graphs : i # j => Apart(g, c.graphs[j], c.cash)
      /\ c.cash \notin c.products
      /\ Funded(c) => FundingAdmitted(c)
    BY DEF Admitted, StockAdmitted
<1>2. /\ g.owner = c.buyer /\ Source(g) = c.cash
      /\ IF g.open THEN Len(c.graphs) = 1 /\ Named(g) \ {c.cash} \subseteq c.products
         ELSE Sink(g) \in c.products
      /\ g.lent \subseteq Aggregate(c)
    BY <1>1 DEF BuyerGraphAdmitted, GraphAdmitted
<1>3. GraphShape(g) /\ Source(g) \in Named(g) /\ Named(g) \cap g.lent = {}
    BY EndsAreNamed DEF CellShape, GraphShape
<1>4. c.cash \notin g.lent
    BY <1>2, <1>3
<1>5. \A t \in g.lent : \A j \in DOMAIN c.graphs : t \notin Named(c.graphs[j])
  <2> TAKE t \in g.lent
  <2> TAKE j \in DOMAIN c.graphs
  <2>1. CASE i = j
      BY <1>3, <2>1
  <2>2. CASE i # j
      BY <1>1, <1>4, <2>2 DEF Apart, Touched
  <2> QED BY <2>1, <2>2
<1>6. ASSUME Funded(c) PROVE \A t \in g.lent : t \notin Named(c.funding)
  <2>1. Apart(c.funding, g, c.cash)
      BY <1>1, <1>6 DEF FundingAdmitted
  <2> QED BY <1>4, <2>1 DEF Apart, Touched
<1>7. g.lent \in SUBSET c.products
    BY <1>2, <1>5, <1>6, AggregateIs
<1> QED BY <1>2, <1>4, <1>7

\* A graph of a crossing runs between the accounts of its party.
LEMMA CrossingGraph ==
    ASSUME NEW c, CellShape(c), Crossing(c), Admitted(c), NEW i \in DOMAIN c.graphs
    PROVE  LET g == c.graphs[i]
           IN  /\ ~g.open /\ g.lent = {}
               /\ <<g.owner, Source(g)>> \in Concerned(c) /\ <<g.owner, Sink(g)>> \in Concerned(c)
<1> DEFINE g == c.graphs[i]
<1>1. RoutesRest(c, g)
    BY DEF Admitted, CrossingAdmitted
<1>2. PICK j \in Parties(c) :
        /\ g.owner = c.parties[j].owner /\ Source(g) = c.parties[j].source
        /\ Sink(g) = c.parties[j].sink /\ g.lent \subseteq {}
    BY <1>1 DEF RoutesRest, GraphAdmitted
<1>3. ~g.open
    BY DEF CellShape
<1> QED BY <1>2, <1>3 DEF Concerned

\* What admission found stays found while a transaction runs.
LEMMA AdmissionStays ==
    ASSUME UNCHANGED <<balance, tainted, sequence, permitted, now>>, NEW c
    PROVE  Admitted(c)' <=> Admitted(c)
<1>1. \A g, n, held, bad, pending, aggregate :
        GraphAdmitted(g, n, held, bad, pending, aggregate)' = GraphAdmitted(g, n, held, bad, pending, aggregate)
    BY DEF GraphAdmitted
<1>2. \A p : PartyAdmitted(p)' = PartyAdmitted(p)
    BY DEF PartyAdmitted
<1>3. \A g : RoutesRest(c, g)' = RoutesRest(c, g)
    BY DEF RoutesRest, GraphAdmitted
<1>4. CrossingAdmitted(c)' = CrossingAdmitted(c)
    BY <1>2, <1>3 DEF CrossingAdmitted
<1>5. FundingAdmitted(c)' = FundingAdmitted(c)
    BY DEF FundingAdmitted, GraphAdmitted
<1>6. \A p : SellerAdmitted(c, p)' = SellerAdmitted(c, p)
    BY <1>2 DEF SellerAdmitted
<1>7. \A g : BuyerGraphAdmitted(c, g)' = BuyerGraphAdmitted(c, g)
    BY DEF BuyerGraphAdmitted, GraphAdmitted
<1>8. StockAdmitted(c)' = StockAdmitted(c)
    BY <1>5, <1>6, <1>7 DEF StockAdmitted
<1> QED BY <1>4, <1>8 DEF Admitted

\* The predicate is about the committed state and the transaction alone.
LEMMA UnderwayStays ==
    ASSUME UNCHANGED <<balance, tainted, sequence, permitted, now>>, NEW r
    PROVE  Underway(r)' <=> Underway(r)
<1>1. Admitted(r.cell)' <=> Admitted(r.cell)
    BY AdmissionStays
<1>2. NothingElse(r)' <=> NothingElse(r)
    BY DEF NothingElse
<1>3. CashFollows(r)' <=> CashFollows(r)
    BY DEF CashFollows
<1> QED BY <1>1, <1>2, <1>3 DEF Underway

\* What parties and transfers add up to is a natural number.
LEMMA SumsOfCell ==
    ASSUME NEW c, CellShape(c)
    PROVE  /\ \A S \in SUBSET Parties(c) : GivenBy(c, S) \in Nat /\ PaidTo(c, S) \in Nat
           /\ GivenBy(c, {}) = 0 /\ PaidTo(c, {}) = 0
           /\ Crossing(c) => /\ \A S \in SUBSET (DOMAIN c.transfers) : Transferred(c, S) \in Nat
                             /\ Transferred(c, {}) = 0
<1>1. ASSUME NEW S \in SUBSET Parties(c) PROVE GivenBy(c, S) \in Nat /\ PaidTo(c, S) \in Nat
  <2>1. IsFiniteSet(S)
      BY FS_Subset DEF CellShape
  <2> DEFINE given == [i \in Parties(c) |-> c.parties[i].input]
             paid == [i \in Parties(c) |-> c.parties[i].paid]
  <2>2. \A i \in S : given[i] \in Nat /\ paid[i] \in Nat
      BY DEF CellShape, PartyShape
  <2>3. GivenBy(c, S) = Amounts(given, S) /\ PaidTo(c, S) = Amounts(paid, S)
      BY DEF GivenBy, PaidTo
  <2> HIDE DEF given, paid
  <2> QED BY <2>1, <2>2, <2>3, SumOfNaturals, AmountsAreSums
<1>2. GivenBy(c, {}) = 0 /\ PaidTo(c, {}) = 0
  <2>1. \A f : Amounts(f, {}) = 0
      BY FS_EmptySet, SumUnfolds, AmountsAreSums
  <2> QED BY <2>1 DEF GivenBy, PaidTo
<1>3. ASSUME Crossing(c), NEW S \in SUBSET (DOMAIN c.transfers) PROVE Transferred(c, S) \in Nat
  <2>1. IsFiniteSet(S)
      BY <1>3, FS_Subset DEF CellShape
  <2> DEFINE sent == [k \in DOMAIN c.transfers |-> c.transfers[k].amount]
  <2>2. \A k \in S : sent[k] \in Nat
      BY <1>3 DEF CellShape
  <2>3. Transferred(c, S) = Amounts(sent, S)
      BY DEF Transferred
  <2> HIDE DEF sent
  <2> QED BY <2>1, <2>2, <2>3, SumOfNaturals, AmountsAreSums
<1>4. Transferred(c, {}) = 0
  <2>1. \A f : Amounts(f, {}) = 0
      BY FS_EmptySet, SumUnfolds, AmountsAreSums
  <2> QED BY <2>1 DEF Transferred
<1> QED BY <1>1, <1>2, <1>3, <1>4

\* What the graphs of a transaction take together.
LEMMA RoutedIsNatural ==
    ASSUME NEW gs, NEW hs, SameButInput(gs, hs), IsFiniteSet(DOMAIN hs)
    PROVE  /\ IsFiniteSet(DOMAIN gs) /\ \A i \in DOMAIN gs : Inputs(gs)[i] = gs[i].input /\ gs[i].input \in Nat
           /\ Routed(gs) = Amounts(Inputs(gs), DOMAIN gs) /\ Routed(gs) \in Nat
<1>1. IsFiniteSet(DOMAIN gs)
    BY DEF SameButInput
<1>2. \A i \in DOMAIN gs : Inputs(gs)[i] = gs[i].input /\ gs[i].input \in Nat
    BY DEF SameButInput, Alike, Inputs
<1>3. Routed(gs) = Amounts(Inputs(gs), DOMAIN gs)
    BY DEF Routed, Inputs
<1>4. Amounts(Inputs(gs), DOMAIN gs) \in Nat
    BY <1>1, <1>2, SumOfNaturals, AmountsAreSums
<1> QED BY <1>1, <1>2, <1>3, <1>4

\* Transfers inside a cell use concerned accounts only.
LEMMA CrossedElsewhere ==
    ASSUME NEW c, CellShape(c), Admitted(c), NEW w \in Wallet, NEW t \in Token
    PROVE  /\ Debit(c, w, t) \in Nat /\ Credit(c, w, t) \in Nat
           /\ <<w, t>> \notin Concerned(c) => Debit(c, w, t) = 0 /\ Credit(c, w, t) = 0
<1>1. CASE Crossing(c)
  <2> DEFINE out == {k \in DOMAIN c.transfers : Sender(c, k).owner = w /\ Sender(c, k).source = t}
             in == {k \in DOMAIN c.transfers : Receiver(c, k).owner = w /\ Sender(c, k).source = t}
  <2>1. Debit(c, w, t) = Transferred(c, out) /\ Credit(c, w, t) = Transferred(c, in)
      BY <1>1 DEF Debit, Credit
  <2>2. out \in SUBSET (DOMAIN c.transfers) /\ in \in SUBSET (DOMAIN c.transfers)
      OBVIOUS
  <2>3. ASSUME <<w, t>> \notin Concerned(c) PROVE out = {} /\ in = {}
    <3>1. \A k \in DOMAIN c.transfers :
            /\ c.transfers[k].from \in Parties(c) /\ c.transfers[k].to \in Parties(c)
            /\ Sender(c, k).source = Receiver(c, k).sink
        BY <1>1 DEF Admitted, CrossingAdmitted, Sender, Receiver
    <3>2. \A i \in Parties(c) :
            /\ <<c.parties[i].owner, c.parties[i].source>> # <<w, t>>
            /\ <<c.parties[i].owner, c.parties[i].sink>> # <<w, t>>
        BY <2>3 DEF Concerned
    <3>3. \A k \in DOMAIN c.transfers :
            /\ ~(Sender(c, k).owner = w /\ Sender(c, k).source = t)
            /\ ~(Receiver(c, k).owner = w /\ Sender(c, k).source = t)
        BY <3>1, <3>2 DEF Sender, Receiver
    <3> QED BY <3>3
  <2> HIDE DEF out, in
  <2> QED BY <1>1, <2>1, <2>2, <2>3, SumsOfCell
<1>2. CASE ~Crossing(c)
  <2> DEFINE pays == {i \in Parties(c) : w = c.buyer /\ t = c.cash}
             gives == {i \in Parties(c) : c.parties[i].owner = w /\ c.parties[i].source = t}
             paid == {i \in Parties(c) : c.parties[i].owner = w /\ t = c.cash}
             given == {i \in Parties(c) : w = c.buyer /\ c.parties[i].source = t}
  <2>1. /\ Debit(c, w, t) = PaidTo(c, pays) + GivenBy(c, gives)
        /\ Credit(c, w, t) = PaidTo(c, paid) + GivenBy(c, given)
      BY <1>2 DEF Debit, Credit
  <2>2. /\ pays \in SUBSET Parties(c) /\ gives \in SUBSET Parties(c)
        /\ paid \in SUBSET Parties(c) /\ given \in SUBSET Parties(c)
      OBVIOUS
  <2>3. ASSUME <<w, t>> \notin Concerned(c) PROVE pays = {} /\ gives = {} /\ paid = {} /\ given = {}
    <3>1. \A i \in Parties(c) : c.parties[i].source \in c.products /\ c.parties[i].sink = c.cash
        BY <1>2 DEF Admitted, StockAdmitted, SellerAdmitted
    <3>2. \A i \in Parties(c) :
            /\ <<c.parties[i].owner, c.parties[i].source>> # <<w, t>>
            /\ <<c.parties[i].owner, c.parties[i].sink>> # <<w, t>>
        BY <2>3 DEF Concerned
    <3>3. w = c.buyer => t \notin c.products /\ t # c.cash
        BY <1>2, <2>3 DEF Concerned
    <3> QED BY <3>1, <3>2, <3>3
  <2> HIDE DEF pays, gives, paid, given
  <2>4. /\ PaidTo(c, pays) \in Nat /\ GivenBy(c, gives) \in Nat
        /\ PaidTo(c, paid) \in Nat /\ GivenBy(c, given) \in Nat
      BY <2>2, SumsOfCell
  <2>5. <<w, t>> \notin Concerned(c) => /\ PaidTo(c, pays) = 0 /\ GivenBy(c, gives) = 0
                                        /\ PaidTo(c, paid) = 0 /\ GivenBy(c, given) = 0
      BY <2>3, SumsOfCell
  <2> QED BY <2>1, <2>4, <2>5
<1> QED BY <1>1, <1>2

\* Between the parties of a stock cell the buyer pays the sellers in cash.
LEMMA CrossedCash ==
    ASSUME NEW c, CellShape(c), Admitted(c), ~Crossing(c)
    PROVE  Debit(c, c.buyer, c.cash) = InternalCash(c) /\ Credit(c, c.buyer, c.cash) = 0
<1>1. \A i \in Parties(c) : c.parties[i].owner # c.buyer /\ c.parties[i].source # c.cash
    BY DEF Admitted, StockAdmitted, SellerAdmitted
<1> DEFINE w == c.buyer
           t == c.cash
<1>2. /\ {i \in Parties(c) : w = c.buyer /\ t = c.cash} = Parties(c)
      /\ {i \in Parties(c) : c.parties[i].owner = w /\ c.parties[i].source = t} = {}
      /\ {i \in Parties(c) : c.parties[i].owner = w /\ t = c.cash} = {}
      /\ {i \in Parties(c) : w = c.buyer /\ c.parties[i].source = t} = {}
    BY <1>1
<1>3. Debit(c, w, t) = PaidTo(c, Parties(c)) + GivenBy(c, {})
    BY <1>2 DEF Debit
<1>4. Credit(c, w, t) = PaidTo(c, {}) + GivenBy(c, {})
    BY <1>2 DEF Credit
<1>5. PaidTo(c, Parties(c)) \in Nat /\ GivenBy(c, {}) = 0 /\ PaidTo(c, {}) = 0
    BY SumsOfCell
<1> QED BY <1>3, <1>4, <1>5 DEF InternalCash

\* The transfers inside a cell keep the transaction on course.
LEMMA CrossGoes ==
    ASSUME NEW r, Underway(r), r.phase = "cross", balance \in [Wallet -> [Token -> Nat]],
           \A w \in Wallet, t \in Token : Crossed(r.cell, r.current)[w][t] >= 0,
           NEW q, q = [r EXCEPT !.current = Crossed(r.cell, r.current), !.phase = "route"]
    PROVE  Underway(q)
<1> DEFINE c == r.cell
           after == Crossed(c, r.current)
<1>1. /\ q.current = after /\ q.phase = "route" /\ q.cell = c /\ q.turn = r.turn
      /\ q.funded = r.funded /\ q.graphs = r.graphs /\ q.tainted = r.tainted
      /\ DOMAIN q = TxFields
    BY DEF Underway, TxFields
<1>2. /\ c \in Cells /\ Admitted(c) /\ r.current \in [Wallet -> [Token -> Nat]]
      /\ SameButInput(r.graphs, c.graphs) /\ NothingElse(r) /\ TakenIsCompared(r)
      /\ ~Crossing(c) => CashFollows(r)
      /\ r.turn \in Nat /\ r.funded \in Nat
    BY DEF Underway
<1> HIDE DEF c
<1>3. CellShape(c)
    BY <1>2, CellsHaveShape
<1>4. \A w \in Wallet, t \in Token :
        /\ after[w][t] = r.current[w][t] + Credit(c, w, t) - Debit(c, w, t)
        /\ Credit(c, w, t) \in Nat /\ Debit(c, w, t) \in Nat /\ r.current[w][t] \in Nat
    BY <1>2, <1>3, CrossedElsewhere DEF Crossed
<1>5. \A w \in Wallet, t \in Token : after[w][t] \in Nat
  <2> TAKE w \in Wallet, t \in Token
  <2>1. after[w][t] >= 0
      BY DEF c
  <2> DEFINE a == after[w][t]
             x == r.current[w][t]
             y == Credit(c, w, t)
             z == Debit(c, w, t)
  <2>2. a = x + y - z /\ x \in Nat /\ y \in Nat /\ z \in Nat /\ a >= 0
      BY <1>4, <2>1
  <2> HIDE DEF a, x, y, z
  <2>3. a \in Nat
      BY <2>2
  <2> QED BY <2>3 DEF a
<1>6. after \in [Wallet -> [Token -> Nat]]
  <2>1. after = [w \in Wallet |-> [t \in Token |-> r.current[w][t] + Credit(c, w, t) - Debit(c, w, t)]]
      BY DEF Crossed
  <2> DEFINE row(w) == [t \in Token |-> r.current[w][t] + Credit(c, w, t) - Debit(c, w, t)]
  <2>2. \A w \in Wallet : after[w] = row(w)
      BY <2>1
  <2>3. \A w \in Wallet : row(w) \in [Token -> Nat]
      BY <1>5, <2>2
  <2> HIDE DEF row, after
  <2>4. after = [w \in Wallet |-> row(w)]
      BY <2>1 DEF row
  <2> QED BY <2>3, <2>4
<1>7. NothingElse(q)
  <2> SUFFICES ASSUME NEW w \in Wallet, NEW t \in Token, <<w, t>> \notin Concerned(c)
               PROVE  after[w][t] = balance[w][t]
      BY <1>1 DEF NothingElse
  <2>1. r.current[w][t] = balance[w][t]
      BY <1>2 DEF NothingElse, c
  <2>2. Debit(c, w, t) = 0 /\ Credit(c, w, t) = 0
      BY <1>2, <1>3, CrossedElsewhere
  <2>3. after[w][t] = r.current[w][t] + Credit(c, w, t) - Debit(c, w, t) /\ r.current[w][t] \in Nat
      BY <1>4
  <2> HIDE DEF after
  <2> QED BY <2>1, <2>2, <2>3
<1>8. TakenIsCompared(q)
    BY <1>1, <1>2 DEF TakenIsCompared, c
<1>9. ASSUME ~Crossing(c) PROVE CashFollows(q)
  <2> DEFINE b == balance[c.buyer][c.cash]
             x == r.current[c.buyer][c.cash]
             a == after[c.buyer][c.cash]
             paid == InternalCash(c)
             routed == Routed(r.graphs)
             own == OwnCash(c)
  <2>1. c.buyer \in Wallet /\ c.cash \in Token /\ c.input \in Nat
      BY <1>3, <1>9 DEF CellShape
  <2>2. b \in Nat /\ x \in Nat /\ own \in Nat
      BY <1>2, <2>1 DEF OwnCash
  <2>3. /\ r.turn = 1 /\ x - b = r.funded /\ paid + routed = r.funded + own
      BY <1>2, <1>9 DEF CashFollows, c
  <2>4. Debit(c, c.buyer, c.cash) = paid /\ Credit(c, c.buyer, c.cash) = 0
      BY <1>2, <1>3, <1>9, CrossedCash
  <2>5. a = x + 0 - paid
      BY <1>4, <2>1, <2>4
  <2>6. routed \in Nat /\ routed = Amounts(Inputs(r.graphs), DOMAIN r.graphs)
      BY <1>2, <1>3, RoutedIsNatural DEF CellShape
  <2>7. \A i \in DOMAIN r.graphs : i >= 1
    <3>1. DOMAIN r.graphs = DOMAIN c.graphs /\ c.graphs \in Seq(GraphType)
        BY <1>2, <1>3 DEF SameButInput, CellShape
    <3> QED BY <3>1
  <2>8. ToRoute(q) = routed
    <3>1. {i \in DOMAIN q.graphs : i >= q.turn} = DOMAIN r.graphs
        BY <1>1, <2>3, <2>7
    <3> QED BY <1>1, <2>6, <3>1 DEF ToRoute
  <2>9. paid \in Nat
      BY <1>3, SumsOfCell DEF InternalCash
  <2> HIDE DEF a, b, x, paid, routed, own
  <2>10. a - b = ToRoute(q) - own
    <3> DEFINE f == r.funded
    <3>1. f \in Nat /\ x - b = f /\ paid + routed = f + own
        BY <1>2, <2>3
    <3> HIDE DEF f
    <3>2. a - b = routed - own
        BY <2>2, <2>5, <2>6, <2>9, <3>1
    <3> QED BY <2>8, <3>2
  <2> HIDE DEF after
  <2>11. InternalCash(c) + Routed(r.graphs) = r.funded + OwnCash(c)
      BY <2>3 DEF paid, routed, own
  <2> QED BY <1>1, <2>10, <2>11 DEF CashFollows, a, b, own
<1> HIDE DEF after
<1> QED BY <1>1, <1>2, <1>6, <1>7, <1>8, <1>9 DEF Underway

\* What one graph of a transaction does to the accounts.
LEMMA GraphStays ==
    ASSUME NEW c \in Cells, Admitted(c), NEW gs, SameButInput(gs, c.graphs), NEW i \in DOMAIN gs,
           NEW before \in [Token -> Nat], NEW after \in Outcomes(gs[i], before)
    PROVE  LET g == gs[i]
           IN  /\ g.owner \in Wallet /\ g.input \in Nat /\ after \in [Token -> Nat]
               /\ \A t \in Token : <<g.owner, t>> \notin Concerned(c) => after[t] = before[t]
               /\ ~Crossing(c) => g.owner = c.buyer /\ after[c.cash] = before[c.cash] - g.input
               /\ IF Crossing(c) THEN Lent(g) = {} ELSE Lent(g) \in SUBSET ({c.buyer} \X c.products)
<1> DEFINE g == gs[i]
           h == c.graphs[i]
<1>1. CellShape(c)
    BY CellsHaveShape
<1>2. GraphShape(h) /\ Alike(g, h) /\ i \in DOMAIN c.graphs
    BY <1>1 DEF CellShape, SameButInput
<1>3. /\ GraphShape(g) /\ g.input \in Nat /\ g.owner = h.owner /\ g.lent = h.lent /\ g.open = h.open
      /\ Named(g) = Named(h) /\ Source(g) = Source(h) /\ Sink(g) = Sink(h)
    BY <1>2, AlikeGraphs
<1>4. /\ after \in [Token -> Nat]
      /\ after[Source(g)] = before[Source(g)] - g.input
      /\ \A t \in Token \ Touched(g) : after[t] = before[t]
      /\ ~g.open => \A t \in Token \ ({Source(g), Sink(g)} \cup g.lent) : after[t] = before[t]
    BY <1>3, OutcomeStays
<1>5. g.owner \in Wallet
    BY <1>3 DEF GraphShape
<1>6. CASE Crossing(c)
  <2>1. /\ ~h.open /\ h.lent = {}
        /\ <<h.owner, Source(h)>> \in Concerned(c) /\ <<h.owner, Sink(h)>> \in Concerned(c)
      BY <1>1, <1>2, <1>6, CrossingGraph
  <2> HIDE DEF g, h
  <2>2. \A t \in Token : <<g.owner, t>> \notin Concerned(c) => after[t] = before[t]
      BY <1>3, <1>4, <2>1
  <2>3. Lent(g) = {}
      BY <1>3, <2>1 DEF Lent
  <2> QED BY <1>3, <1>4, <1>5, <1>6, <2>2, <2>3 DEF g
<1>7. CASE ~Crossing(c)
  <2>1. /\ h.owner = c.buyer /\ Source(h) = c.cash /\ h.lent \in SUBSET c.products
        /\ IF h.open THEN Named(h) \ {c.cash} \subseteq c.products ELSE Sink(h) \in c.products
      BY <1>1, <1>2, <1>7, StockGraph
  <2>2. \A t \in Token : <<c.buyer, t>> \notin Concerned(c) => t # c.cash /\ t \notin c.products
      BY <1>7 DEF Concerned
  <2> HIDE DEF g, h
  <2>3. ASSUME NEW t \in Token, <<g.owner, t>> \notin Concerned(c) PROVE after[t] = before[t]
    <3>1. t # c.cash /\ t \notin c.products
        BY <1>3, <2>1, <2>2, <2>3
    <3>2. t \notin g.lent
        BY <1>3, <2>1, <3>1
    <3>3. CASE g.open
      <4>1. t \notin Touched(g)
          BY <1>3, <2>1, <3>1, <3>2, <3>3 DEF Touched
      <4> QED BY <1>4, <4>1
    <3>4. CASE ~g.open
      <4>1. t # Source(g) /\ t # Sink(g)
          BY <1>3, <2>1, <3>1, <3>4
      <4> QED BY <1>4, <3>2, <3>4, <4>1
    <3> QED BY <3>3, <3>4
  <2>4. Lent(g) \in SUBSET ({c.buyer} \X c.products)
      BY <1>3, <2>1 DEF Lent
  <2>5. g.owner = c.buyer /\ after[c.cash] = before[c.cash] - g.input
      BY <1>3, <1>4, <2>1
  <2> QED BY <1>3, <1>4, <1>5, <1>7, <2>3, <2>4, <2>5 DEF g
<1> QED BY <1>6, <1>7

\* The next graph keeps the transaction on course.
LEMMA RouteGoes ==
    ASSUME NEW r, Underway(r), r.phase = "route", balance \in [Wallet -> [Token -> Nat]],
           r.turn \in DOMAIN r.graphs, NEW g, g = r.graphs[r.turn],
           NEW after \in Outcomes(g, r.current[g.owner]), NEW taken \in SUBSET Lent(g),
           NEW q, q = [r EXCEPT !.current[g.owner] = after, !.tainted = @ \cup taken, !.turn = @ + 1]
    PROVE  Underway(q)
<1> DEFINE c == r.cell
           o == g.owner
<1>1. /\ q.current = [r.current EXCEPT ![o] = after] /\ q.phase = "route" /\ q.cell = c
      /\ q.turn = r.turn + 1 /\ q.funded = r.funded /\ q.graphs = r.graphs
      /\ q.tainted = r.tainted \cup taken /\ DOMAIN q = TxFields
    BY DEF Underway, TxFields
<1>2. /\ c \in Cells /\ Admitted(c) /\ r.current \in [Wallet -> [Token -> Nat]]
      /\ SameButInput(r.graphs, c.graphs) /\ NothingElse(r) /\ TakenIsCompared(r)
      /\ ~Crossing(c) => CashFollows(r)
      /\ r.turn \in Nat /\ r.funded \in Nat
    BY DEF Underway
<1> HIDE DEF c
<1>3. CellShape(c)
    BY <1>2, CellsHaveShape
<1>4. o \in Wallet
  <2> DEFINE h == c.graphs[r.turn]
  <2>1. r.turn \in DOMAIN c.graphs /\ Alike(g, h)
      BY <1>2 DEF SameButInput
  <2>2. GraphShape(h)
      BY <1>3, <2>1 DEF CellShape
  <2> HIDE DEF h
  <2>3. GraphShape(g)
      BY <2>1, <2>2, AlikeGraphs
  <2> QED BY <2>3 DEF GraphShape
<1>5. /\ g.input \in Nat /\ after \in [Token -> Nat]
      /\ \A t \in Token : <<o, t>> \notin Concerned(c) => after[t] = r.current[o][t]
      /\ ~Crossing(c) => o = c.buyer /\ after[c.cash] = r.current[o][c.cash] - g.input
      /\ IF Crossing(c) THEN Lent(g) = {} ELSE Lent(g) \in SUBSET ({c.buyer} \X c.products)
  <2> DEFINE gs == r.graphs
             i == r.turn
             before == r.current[o]
  <2>1. before \in [Token -> Nat]
      BY <1>2, <1>4
  <2>2. SameButInput(gs, c.graphs) /\ i \in DOMAIN gs /\ g = gs[i] /\ after \in Outcomes(gs[i], before)
      BY <1>2
  <2> HIDE DEF gs, i, before
  <2>3. LET f == gs[i]
        IN  /\ f.owner \in Wallet /\ f.input \in Nat /\ after \in [Token -> Nat]
            /\ \A t \in Token : <<f.owner, t>> \notin Concerned(c) => after[t] = before[t]
            /\ ~Crossing(c) => f.owner = c.buyer /\ after[c.cash] = before[c.cash] - f.input
            /\ IF Crossing(c) THEN Lent(f) = {} ELSE Lent(f) \in SUBSET ({c.buyer} \X c.products)
      BY <1>2, <2>1, <2>2, GraphStays, Zenon
  <2> QED BY <2>2, <2>3 DEF before
<1>6. q.current \in [Wallet -> [Token -> Nat]]
    BY <1>1, <1>2, <1>4, <1>5
<1>7. NothingElse(q)
  <2> SUFFICES ASSUME NEW w \in Wallet, NEW t \in Token, <<w, t>> \notin Concerned(c)
               PROVE  q.current[w][t] = balance[w][t]
      BY <1>1 DEF NothingElse
  <2>1. r.current[w][t] = balance[w][t]
      BY <1>2 DEF NothingElse, c
  <2>2. CASE w = o
    <3>1. q.current[w] = after
        BY <1>1, <1>2, <1>4, <2>2
    <3>2. after[t] = r.current[o][t]
        BY <1>5, <2>2
    <3> QED BY <2>1, <2>2, <3>1, <3>2
  <2>3. CASE w # o
      BY <1>1, <1>2, <2>1, <2>3
  <2> QED BY <2>2, <2>3
<1>8. TakenIsCompared(q)
  <2>1. r.tainted \in SUBSET (IF Crossing(c) THEN {} ELSE {c.buyer} \X c.products)
      BY <1>2 DEF TakenIsCompared, c
  <2>2. taken \in SUBSET (IF Crossing(c) THEN {} ELSE {c.buyer} \X c.products)
      BY <1>5
  <2>3. q.tainted \in SUBSET (IF Crossing(c) THEN {} ELSE {c.buyer} \X c.products)
      BY <1>1, <2>1, <2>2
  <2> QED BY <1>1, <2>3 DEF TakenIsCompared
<1>9. ASSUME ~Crossing(c) PROVE CashFollows(q)
  <2> DEFINE b == balance[c.buyer][c.cash]
             x == r.current[c.buyer][c.cash]
             a == after[c.cash]
             own == OwnCash(c)
             f == Inputs(r.graphs)
             S == {i \in DOMAIN r.graphs : i >= r.turn}
             before == ToRoute(r)
             rest == ToRoute(q)
             n == g.input
  <2>1. c.buyer \in Wallet /\ c.cash \in Token /\ c.input \in Nat
      BY <1>3, <1>9 DEF CellShape
  <2>2. b \in Nat /\ x \in Nat /\ own \in Nat
      BY <1>2, <2>1 DEF OwnCash
  <2>3. x - b = before - own /\ InternalCash(c) + Routed(r.graphs) = r.funded + own
      BY <1>2, <1>9 DEF CashFollows, c
  <2>4. o = c.buyer /\ a = x - n
      BY <1>5, <1>9
  <2>5. DOMAIN r.graphs = DOMAIN c.graphs /\ c.graphs \in Seq(GraphType) /\ IsFiniteSet(DOMAIN c.graphs)
      BY <1>2, <1>3 DEF SameButInput, CellShape
  <2>6. \A i \in DOMAIN r.graphs : f[i] = r.graphs[i].input /\ r.graphs[i].input \in Nat
      BY <1>2, <2>5, RoutedIsNatural
  <2>7. IsFiniteSet(S) /\ r.turn \in S /\ \A i \in S : f[i] \in Nat
    <3>1. S \in SUBSET DOMAIN c.graphs
        BY <2>5
    <3>2. r.turn \in S
        BY <1>2
    <3> QED BY <2>5, <2>6, <3>1, <3>2, FS_Subset
  <2>8. Amounts(f, S) = f[r.turn] + Amounts(f, S \ {r.turn})
    <3> HIDE DEF f, S
    <3> QED BY <2>7, SumOfRest, AmountsAreSums
  <2>9. {i \in DOMAIN q.graphs : i >= q.turn} = S \ {r.turn}
    <3>1. \A i \in DOMAIN r.graphs : i \in Nat
        BY <2>5
    <3>2. \A i \in DOMAIN r.graphs : i >= r.turn + 1 <=> i >= r.turn /\ i # r.turn
      <4>1. \A m, k \in Nat : m >= k + 1 <=> m >= k /\ m # k
          OBVIOUS
      <4>2. r.turn \in Nat
          BY <1>2
      <4> QED BY <3>1, <4>1, <4>2
    <3>3. q.turn = r.turn + 1 /\ q.graphs = r.graphs
        BY <1>1
    <3> QED BY <3>2, <3>3
  <2>10. rest = Amounts(f, S \ {r.turn}) /\ before = Amounts(f, S) /\ n = f[r.turn]
      BY <1>1, <2>6, <2>9 DEF ToRoute
  <2>11. rest \in Nat
    <3> HIDE DEF f, S
    <3>1. IsFiniteSet(S \ {r.turn}) /\ \A i \in S \ {r.turn} : f[i] \in Nat
        BY <2>7, FS_RemoveElement
    <3> QED BY <2>10, <3>1, SumOfNaturals, AmountsAreSums
  <2>12. before = n + rest /\ n \in Nat
      BY <1>5, <2>8, <2>10
  <2>13. q.current[c.buyer][c.cash] = a
      BY <1>1, <1>2, <1>4, <2>4
  <2> HIDE DEF a, b, x, own, before, rest, n, f, S
  <2>14. a - b = rest - own
      BY <2>2, <2>3, <2>4, <2>11, <2>12
  <2>15. q.current[c.buyer][c.cash] - b = ToRoute(q) - own
      BY <2>13, <2>14 DEF rest
  <2>16. InternalCash(c) + Routed(r.graphs) = r.funded + OwnCash(c)
      BY <2>3 DEF own
  <2> QED BY <1>1, <2>15, <2>16 DEF CashFollows, b, own
<1>10. q.turn \in Nat
    BY <1>1, <1>2
<1> QED BY <1>1, <1>2, <1>6, <1>7, <1>8, <1>9, <1>10 DEF Underway

\* The preflight puts a transaction on course: payments and graphs share out
\* exactly the input (meshcell.rs:714).
LEMMA BeginGoes ==
    ASSUME NEW c \in Cells, Admitted(c), balance \in [Wallet -> [Token -> Nat]],
           NEW q, q = [graphs |-> c.graphs, tainted |-> {}, cell |-> c, current |-> balance,
                       phase |-> (IF Funded(c) THEN "fund" ELSE "cross"), turn |-> 1, funded |-> 0]
    PROVE  Underway(q)
<1>1. /\ q.graphs = c.graphs /\ q.tainted = {} /\ q.cell = c /\ q.current = balance
      /\ q.phase = (IF Funded(c) THEN "fund" ELSE "cross") /\ q.turn = 1 /\ q.funded = 0
      /\ DOMAIN q = TxFields
    BY DEF TxFields
<1>2. CellShape(c)
    BY CellsHaveShape
<1>3. SameButInput(c.graphs, c.graphs)
    BY <1>2 DEF SameButInput, Alike, CellShape
<1>4. NothingElse(q) /\ TakenIsCompared(q)
    BY <1>1 DEF NothingElse, TakenIsCompared
<1>5. ASSUME ~Crossing(c) PROVE CashFollows(q)
  <2>1. balance[c.buyer][c.cash] - balance[c.buyer][c.cash] = 0 /\ c.input \in Nat
      BY <1>2, <1>5 DEF CellShape
  <2>2. InternalCash(c) + Routed(c.graphs) = c.input
      BY <1>5 DEF Admitted, StockAdmitted, AddsUp
  <2>3. Funded(c) => q.phase = "fund"
      BY <1>1
  <2>4. ~Funded(c) => q.phase = "cross" /\ OwnCash(c) = c.input
      BY <1>1 DEF OwnCash
  <2> QED BY <1>1, <2>1, <2>2, <2>3, <2>4 DEF CashFollows
<1>6. /\ q.phase \in {"fund", "cross", "route"} /\ q.turn \in Nat /\ q.funded \in Nat
      /\ ~Funded(c) => q.phase # "fund" /\ q.funded = 0
    BY <1>1
<1> QED BY <1>1, <1>3, <1>4, <1>5, <1>6 DEF Underway

\* All that a funding brought in is shared out.
LEMMA SurplusIsRouted ==
    ASSUME NEW c \in Cells, Admitted(c), Funded(c), NEW cash \in Nat, cash >= c.input
    PROVE  /\ SameButInput(WithSurplus(c, cash), c.graphs)
           /\ InternalCash(c) + Routed(WithSurplus(c, cash)) = cash
<1> DEFINE gs == c.graphs
           hs == WithSurplus(c, cash)
           z == IF Open(c) THEN 1 ELSE c.surplus
           n == IF Open(c) THEN cash - InternalCash(c) ELSE gs[z].input + (cash - c.input)
           paid == InternalCash(c)
           D == DOMAIN gs
<1>1. CellShape(c) /\ ~Crossing(c)
    BY CellsHaveShape DEF Funded
<1>2. /\ gs \in Seq(GraphType) /\ IsFiniteSet(D) /\ c.input \in Nat /\ paid \in Nat
      /\ \A i \in D : Alike(gs[i], gs[i]) /\ gs[i].input \in Nat
    BY <1>1, SumsOfCell DEF CellShape, Alike, InternalCash
<1>3. SameButInput(gs, gs)
    BY <1>2 DEF SameButInput
<1>4. paid + Routed(gs) = c.input /\ Routed(gs) \in Nat /\ Routed(gs) = Amounts(Inputs(gs), D)
    BY <1>1, <1>2, <1>3, RoutedIsNatural DEF Admitted, StockAdmitted, AddsUp
<1>5. z \in D /\ (Open(c) => D = {1})
  <2>1. CASE Open(c)
    <3>1. PICK i \in D : gs[i].open
        BY <2>1 DEF Open
    <3>2. Len(gs) = 1
        BY <1>1, <3>1, StockGraph
    <3> QED BY <1>2, <2>1, <3>2
  <2>2. CASE ~Open(c)
      BY <1>1, <2>2 DEF Admitted, StockAdmitted, FundingAdmitted
  <2> QED BY <2>1, <2>2
<1>6. hs = [gs EXCEPT ![z].input = n]
  <2>1. CASE Open(c)
      BY <2>1 DEF WithSurplus
  <2>2. CASE ~Open(c)
      BY <2>2 DEF WithSurplus
  <2> QED BY <2>1, <2>2
<1>7. gs[z].input \in Nat /\ (Open(c) => Routed(gs) = gs[z].input)
  <2>1. gs[z].input \in Nat
      BY <1>2, <1>5
  <2>2. ASSUME Open(c) PROVE Amounts(Inputs(gs), D) = gs[z].input
    <3>1. D = {z} /\ D \ {z} = {} /\ z \in D
        BY <1>5, <2>2
    <3>2. \A i \in D : Inputs(gs)[i] = gs[i].input /\ gs[i].input \in Nat
        BY <1>2 DEF Inputs
    <3> DEFINE f == Inputs(gs)
    <3>3. \A i \in D : f[i] \in Nat
        BY <3>2
    <3> HIDE DEF f, D, z, gs
    <3>4. Amounts(f, D) = f[z] + Amounts(f, D \ {z})
        BY <1>2, <3>1, <3>3, SumOfRest, AmountsAreSums
    <3>5. Amounts(f, D \ {z}) = 0
        BY <1>2, <3>1, SumUnfolds, AmountsAreSums
    <3> QED BY <2>1, <3>1, <3>2, <3>4, <3>5 DEF f
  <2> QED BY <1>4, <2>1, <2>2
<1>8. n = gs[z].input + (cash - c.input) /\ n \in Nat
  <2> DEFINE old == gs[z].input
             all == Routed(gs)
             in == c.input
  <2>1. old \in Nat /\ all \in Nat /\ paid \in Nat /\ in \in Nat /\ paid + all = in /\ cash >= in
      BY <1>2, <1>4, <1>7
  <2>2. Open(c) => all = old /\ n = cash - paid
      BY <1>7
  <2>3. ~Open(c) => n = old + (cash - in)
      OBVIOUS
  <2> HIDE DEF old, all, in, paid, n
  <2>4. n = old + (cash - in) /\ n \in Nat
      BY <2>1, <2>2, <2>3
  <2> QED BY <2>4 DEF old, in
<1> HIDE DEF n, z, paid
<1>9. /\ DOMAIN hs = D /\ \A i \in D \ {z} : hs[i] = gs[i]
      /\ hs[z] = [gs[z] EXCEPT !.input = n]
  <2>1. DOMAIN gs = D /\ z \in DOMAIN gs
      BY <1>5
  <2> QED BY <1>6, <2>1
<1>10. Alike(hs[z], gs[z]) /\ hs[z].input = n
  <2>1. GraphShape(gs[z])
      BY <1>1, <1>5 DEF CellShape
  <2> QED BY <1>8, <1>9, <2>1 DEF Alike, GraphShape
<1>11. SameButInput(hs, gs)
    BY <1>2, <1>9, <1>10 DEF SameButInput
<1>12. Routed(hs) = Routed(gs) + (cash - c.input)
  <2> DEFINE f == Inputs(gs)
             h == Inputs(hs)
             d == cash - c.input
  <2>1. DOMAIN hs = D /\ Routed(hs) = Amounts(h, D)
        /\ \A i \in D : h[i] = hs[i].input /\ h[i] \in Nat
      BY <1>2, <1>9, <1>11, RoutedIsNatural
  <2>2. \A i \in D : f[i] = gs[i].input /\ f[i] \in Nat
      BY <1>2 DEF Inputs
  <2>3. \A i \in D \ {z} : h[i] = f[i]
      BY <1>9, <2>1, <2>2
  <2>4. h[z] = f[z] + d /\ d \in Int
      BY <1>2, <1>5, <1>8, <1>10, <2>1, <2>2
  <2> HIDE DEF f, h, d, D
  <2>5. Amounts(h, D) = Amounts(f, D) + d
      BY <1>2, <1>5, <2>1, <2>2, <2>3, <2>4, SumWithMore, AmountsAreSums
  <2> QED BY <1>4, <2>1, <2>5 DEF f, d
<1>13. paid + Routed(hs) = cash
  <2> DEFINE all == Routed(gs)
             more == Routed(hs)
             in == c.input
  <2>1. paid + all = in /\ paid \in Nat /\ all \in Nat /\ in \in Nat /\ more = all + (cash - in)
      BY <1>2, <1>4, <1>12
  <2> HIDE DEF all, more, in
  <2>2. paid + more = cash
      BY <2>1
  <2> QED BY <2>2 DEF more
<1> QED BY <1>11, <1>13 DEF paid

\* The funding keeps a transaction on course.
LEMMA FundGoes ==
    ASSUME NEW r, Underway(r), r.phase = "fund", balance \in [Wallet -> [Token -> Nat]],
           NEW c, c = r.cell,
           NEW after \in Outcomes(c.funding, r.current[c.buyer]), NEW taken \in SUBSET Lent(c.funding),
           NEW cash, cash = after[c.cash] - r.current[c.buyer][c.cash], cash >= c.input,
           NEW q, q = [r EXCEPT !.current[c.buyer] = after, !.tainted = @ \cup taken,
                                !.graphs = WithSurplus(c, cash), !.phase = "cross", !.funded = cash]
    PROVE  Underway(q)
<1> DEFINE o == c.buyer
           g == c.funding
<1>1. /\ q.current = [r.current EXCEPT ![o] = after] /\ q.phase = "cross" /\ q.cell = c
      /\ q.turn = r.turn /\ q.funded = cash /\ q.graphs = WithSurplus(c, cash)
      /\ q.tainted = r.tainted \cup taken /\ DOMAIN q = TxFields
    BY DEF Underway, TxFields
<1>2. /\ c \in Cells /\ Admitted(c) /\ Funded(c) /\ ~Crossing(c)
      /\ r.current \in [Wallet -> [Token -> Nat]]
      /\ NothingElse(r) /\ TakenIsCompared(r) /\ CashFollows(r) /\ r.turn \in Nat
    BY DEF Underway, Funded
<1>3. CellShape(c)
    BY <1>2, CellsHaveShape
<1>4. /\ o \in Wallet /\ c.cash \in Token /\ c.input \in Nat /\ GraphShape(g) /\ g.input \in Nat
    BY <1>2, <1>3 DEF CellShape
<1>5. Sink(g) = c.cash /\ Source(g) # c.cash /\ ~g.open /\ g.lent = {}
    BY <1>2, <1>3, FundingGraph
<1>6. /\ after \in [Token -> Nat]
      /\ \A t \in Token : t # Source(g) /\ t # c.cash => after[t] = r.current[o][t]
  <2>1. r.current[o] \in [Token -> Nat]
      BY <1>2, <1>4
  <2>2. /\ after \in [Token -> Nat]
        /\ \A t \in Token \ ({Source(g), Sink(g)} \cup g.lent) : after[t] = r.current[o][t]
      BY <1>4, <1>5, <2>1, OutcomeStays
  <2> QED BY <1>5, <2>2
<1>7. cash \in Nat
  <2> DEFINE a == after[c.cash]
             x == r.current[o][c.cash]
  <2>1. a \in Nat /\ x \in Nat /\ cash = a - x
      BY <1>2, <1>4, <1>6
  <2> HIDE DEF a, x
  <2> QED BY <1>4, <2>1
<1>8. /\ SameButInput(q.graphs, c.graphs)
      /\ InternalCash(c) + Routed(q.graphs) = cash
    BY <1>1, <1>2, <1>7, SurplusIsRouted
<1>9. q.current \in [Wallet -> [Token -> Nat]]
    BY <1>1, <1>2, <1>4, <1>6
<1>10. NothingElse(q)
  <2> SUFFICES ASSUME NEW w \in Wallet, NEW t \in Token, <<w, t>> \notin Concerned(c)
               PROVE  q.current[w][t] = balance[w][t]
      BY <1>1 DEF NothingElse
  <2>1. r.current[w][t] = balance[w][t]
      BY <1>2 DEF NothingElse
  <2>2. CASE w = o
    <3>1. t # Source(g) /\ t # c.cash
        BY <1>2, <2>2 DEF Concerned
    <3> QED BY <1>1, <1>2, <1>4, <1>6, <2>1, <2>2, <3>1
  <2>3. CASE w # o
      BY <1>1, <1>2, <2>1, <2>3
  <2> QED BY <2>2, <2>3
<1>11. TakenIsCompared(q)
  <2>1. taken = {}
      BY <1>5 DEF Lent
  <2>2. q.tainted = r.tainted
      BY <1>1, <2>1
  <2> QED BY <1>1, <1>2, <2>2 DEF TakenIsCompared
<1>12. CashFollows(q)
  <2> DEFINE a == after[c.cash]
             x == r.current[o][c.cash]
             b == balance[o][c.cash]
  <2>1. a \in Nat /\ x \in Nat /\ b \in Nat /\ cash = a - x
      BY <1>2, <1>4, <1>6
  <2>2. x - b = 0 /\ r.turn = 1
      BY <1>2 DEF CashFollows
  <2>3. q.current[o][c.cash] = a
      BY <1>1, <1>2, <1>4
  <2>4. q.current[o][c.cash] - b = cash
    <3> HIDE DEF a, x, b
    <3>1. a - b = cash
        BY <2>1, <2>2
    <3> QED BY <2>3, <3>1
  <2>5. OwnCash(c) = 0 /\ cash + 0 = cash
      BY <1>2, <1>7 DEF OwnCash
  <2> QED BY <1>1, <1>2, <1>8, <2>2, <2>4, <2>5 DEF CashFollows
<1> QED BY <1>1, <1>2, <1>7, <1>8, <1>9, <1>10, <1>11, <1>12 DEF Underway

\* On course, the buyer's own cash goes no further than it signed.
LEMMA OwnCashHolds ==
    ASSUME CellInv PROVE OwnCashKept
<1> SUFFICES ASSUME tx # NoTx, ~Crossing(tx.cell)
             PROVE  Change(tx.cell.buyer, tx.cell.cash) >= -OwnCash(tx.cell)
    BY DEF OwnCashKept
<1> DEFINE c == tx.cell
           own == OwnCash(c)
           changed == tx.current[c.buyer][c.cash] - balance[c.buyer][c.cash]
<1>1. Underway(tx)
    BY DEF CellInv
<1>2. c \in Cells /\ CashFollows(tx) /\ SameButInput(tx.graphs, c.graphs) /\ tx.funded \in Nat
      /\ tx.phase \in {"fund", "cross", "route"}
    BY <1>1 DEF Underway
<1>3. CellShape(c)
    BY <1>2, CellsHaveShape
<1>4. own \in Nat
    BY <1>3 DEF CellShape, OwnCash
<1>5. ToRoute(tx) \in Nat
  <2> DEFINE S == {i \in DOMAIN tx.graphs : i >= tx.turn}
             f == Inputs(tx.graphs)
  <2>1. IsFiniteSet(DOMAIN tx.graphs) /\ \A i \in DOMAIN tx.graphs : f[i] \in Nat
      BY <1>2, <1>3, RoutedIsNatural DEF CellShape
  <2>2. IsFiniteSet(S) /\ \A i \in S : f[i] \in Nat
      BY <2>1, FS_Subset
  <2>3. ToRoute(tx) = Amounts(f, S)
      BY DEF ToRoute
  <2> HIDE DEF S, f
  <2> QED BY <2>2, <2>3, SumOfNaturals, AmountsAreSums
<1>6. \/ changed = 0
      \/ changed = tx.funded
      \/ changed = ToRoute(tx) - own
    BY <1>2 DEF CashFollows
<1> HIDE DEF changed, own
<1>7. changed >= -own
  <2> DEFINE f == tx.funded
             n == ToRoute(tx)
  <2>1. f \in Nat /\ n \in Nat /\ (changed = 0 \/ changed = f \/ changed = n - own)
      BY <1>2, <1>5, <1>6
  <2> HIDE DEF f, n
  <2> QED BY <1>4, <2>1
<1> QED BY <1>7 DEF changed, own, Change

\* The promise names the same parts of a cell.
LEMMA PromiseTerms ==
    ASSUME NEW c
    PROVE  /\ Promise!Crossing(c) = Crossing(c) /\ Promise!Parties(c) = Parties(c)
           /\ Promise!Owners(c) = Owners(c) /\ Promise!Signed(c) = Signed(c)
           /\ \A t : Promise!Sold(c, t) = Internal(c, t)
           /\ \A t, n : Promise!ExposureOf(t, n) = ExposureOf(t, n)
           /\ \A f, S : Promise!Amounts(f, S) = Amounts(f, S)
<1>1. Promise!Crossing(c) = Crossing(c) /\ Promise!Parties(c) = Parties(c)
    BY DEF Promise!Crossing, Crossing, Promise!Parties, Parties
<1>2. Promise!Signed(c) = Signed(c)
    BY <1>1 DEF Promise!Signed, Signed
<1>3. Promise!Owners(c) = Owners(c)
    BY <1>1, <1>2 DEF Promise!Owners, Owners
<1>4. ASSUME NEW f, NEW S PROVE Promise!Amounts(f, S) = Amounts(f, S)
    BY DEF Promise!Amounts, Amounts, Promise!MapThenSumSet, MapThenSumSet,
           Promise!MapThenFoldSet, MapThenFoldSet
<1>5. ASSUME NEW t PROVE Promise!Sold(c, t) = Internal(c, t)
    BY <1>1, <1>4 DEF Promise!Sold, Internal, GivenBy
<1>6. \A t, n : Promise!ExposureOf(t, n) = ExposureOf(t, n)
    BY DEF Promise!ExposureOf, ExposureOf
<1> QED BY <1>1, <1>2, <1>3, <1>4, <1>5, <1>6

\* Whoever signs as a party is not the buyer and signs once.
LEMMA PartiesAdmitted ==
    ASSUME NEW c \in Cells, Admitted(c)
    PROVE  /\ now <= c.deadline
           /\ \A i \in Parties(c) : sequence[c.parties[i].owner] = c.parties[i].sequence
                                    /\ c.parties[i].source # c.parties[i].sink
           /\ \A i, j \in Parties(c) : i # j => c.parties[i].owner # c.parties[j].owner
           /\ ~Crossing(c) => /\ sequence[c.buyer] = c.sequence /\ c.products \in SUBSET permitted
                              /\ c.cash \notin c.products
                              /\ c.kind = "mesh" =>
                                    \A s, t \in c.products : Instrument[s] = Instrument[t]
                              /\ \A i \in Parties(c) : c.parties[i].owner # c.buyer
<1>1. CASE Crossing(c)
    BY <1>1 DEF Admitted, CrossingAdmitted, PartyAdmitted, Distinct, Parties
<1>2. CASE ~Crossing(c)
    BY <1>2 DEF Admitted, StockAdmitted, SellerAdmitted, PartyAdmitted, Distinct, Parties
<1> QED BY <1>1, <1>2

\* A transaction that is on course and passes the final checks is one promised
\* trade of every wallet.
LEMMA CommitTrades ==
    ASSUME CellInv, Commit
    PROVE  tx.cell \in Cells /\ Promise!Trade(tx.cell)
<1> DEFINE c == tx.cell
<1>1. Underway(tx)
    BY DEF CellInv, Commit
<1>2. /\ c \in Cells /\ Admitted(c) /\ NothingElse(tx) /\ TakenIsCompared(tx)
      /\ tx.current \in [Wallet -> [Token -> Nat]]
      /\ balance \in [Wallet -> [Token -> Nat]]
    BY <1>1 DEF Underway, CellInv
<1>3. /\ FinalChecks(c) /\ balance' = tx.current /\ tainted' = tainted \cup tx.tainted
      /\ sequence' = [w \in Wallet |-> sequence[w] + (IF w \in Owners(c) THEN 1 ELSE 0)]
      /\ permitted' = permitted /\ now' = now
    BY DEF Commit
<1>4. CellShape(c)
    BY <1>2, CellsHaveShape
<1>5. \A w, t : Promise!Gain(w, t) = Change(w, t)
    BY <1>3 DEF Promise!Gain, Change
<1>6. \A w \in Wallet, t \in Token : <<w, t>> \notin Concerned(c) => Change(w, t) = 0
  <2> TAKE w \in Wallet, t \in Token
  <2> HAVE <<w, t>> \notin Concerned(c)
  <2>1. tx.current[w][t] = balance[w][t] /\ balance[w][t] \in Nat
      BY <1>2 DEF NothingElse
  <2> QED BY <2>1 DEF Change
<1>7. ASSUME NEW i \in Parties(c) PROVE PartyChecked(c.parties[i])
    BY <1>3, <1>7 DEF FinalChecks, SellerChecked
<1>8. \A i \in Parties(c) : Promise!PartyKept(c.parties[i])
  <2> TAKE i \in Parties(c)
  <2> DEFINE p == c.parties[i]
  <2>1. p.owner \in Wallet
      BY <1>4 DEF CellShape, PartyShape
  <2>2. \A t \in Token \ {p.source, p.sink} : <<p.owner, t>> \notin Concerned(c)
    <3> TAKE t \in Token \ {p.source, p.sink}
    <3>1. \A j \in Parties(c) : c.parties[j].owner = p.owner => j = i
        BY <1>2, PartiesAdmitted
    <3>2. ~Crossing(c) => p.owner # c.buyer
        BY <1>2, PartiesAdmitted
    <3>3. \A j \in Parties(c) : /\ <<c.parties[j].owner, c.parties[j].source>> # <<p.owner, t>>
                                /\ <<c.parties[j].owner, c.parties[j].sink>> # <<p.owner, t>>
        BY <3>1
    <3> QED BY <3>2, <3>3 DEF Concerned
  <2>3. PartyChecked(p)
      BY <1>7
  <2> HIDE DEF p
  <2>4. Change(p.owner, p.source) = -p.input /\ Change(p.owner, p.sink) >= p.minOut
      BY <2>3 DEF PartyChecked
  <2>5. \A t \in Token \ {p.source, p.sink} : Change(p.owner, t) = 0
      BY <1>6, <2>1, <2>2
  <2>6. Promise!PartyKept(p)
      BY <1>5, <2>4, <2>5 DEF Promise!PartyKept
  <2> QED BY <2>6 DEF p
<1>9. ~Crossing(c) => Promise!BuyerKept(c)
  <2> SUFFICES ASSUME ~Crossing(c) PROVE Promise!BuyerKept(c)
      OBVIOUS
  <2> DEFINE o == c.buyer
             given == Promise!Given(c)
  <2>1. BuyerChecked(c)
      BY <1>3 DEF FinalChecks
  <2>2. /\ o \in Wallet /\ c.cash \in Token /\ c.input \in Nat /\ c.products \in SUBSET Token
        /\ Funded(c) <=> c.funding # NoGraph
      BY <1>4 DEF CellShape, Funded
  <2>3. /\ tx.funded \in Nat /\ (~Funded(c) => tx.funded = 0)
      BY <1>1 DEF Underway, CashFollows
  <2>4. /\ tx.funded - Change(o, c.cash) = (IF Funded(c) THEN tx.funded ELSE c.input)
        /\ Change(o, c.cash) \in Int
    <3>1. tx.current[o][c.cash] \in Nat /\ balance[o][c.cash] \in Nat
        BY <1>2, <2>2
    <3> QED BY <2>1, <3>1 DEF BuyerChecked, Change
  <2>5. Change(o, given) = -Promise!Gives(c)
    <3>1. CASE Funded(c)
      <4>1. given = Source(c.funding) /\ Promise!Gives(c) = c.funding.input
          BY <2>2, <3>1 DEF Promise!Given, Promise!Gives, Source
      <4> QED BY <2>1, <3>1, <4>1 DEF BuyerChecked
    <3>2. CASE ~Funded(c)
      <4>1. given = c.cash /\ Promise!Gives(c) = c.input
          BY <2>2, <3>2 DEF Promise!Given, Promise!Gives
      <4> DEFINE x == Change(o, c.cash)
      <4>2. 0 - x = c.input /\ x \in Int
          BY <2>3, <2>4, <3>2
      <4> HIDE DEF x, given
      <4>3. x = -c.input
          BY <2>2, <4>2
      <4> QED BY <4>1, <4>3 DEF x
    <3> QED BY <3>1, <3>2
  <2>6. ASSUME NEW t \in Token \ (c.products \cup {given}) PROVE Change(o, t) = 0
    <3>1. CASE t = c.cash
      <4>1. Funded(c)
          BY <2>2, <2>6, <3>1 DEF Promise!Given
      <4> DEFINE x == Change(o, c.cash)
                 f == tx.funded
      <4>2. f - x = f /\ f \in Nat /\ x \in Int
          BY <2>3, <2>4, <4>1
      <4> HIDE DEF x, f
      <4>3. x = 0
          BY <4>2
      <4> QED BY <3>1, <4>3 DEF x
    <3>2. CASE t # c.cash
      <4>1. \A i \in Parties(c) : c.parties[i].owner # o
          BY <1>2, PartiesAdmitted
      <4>2. Funded(c) => t # Source(c.funding)
          BY <2>2, <2>6 DEF Promise!Given, Source
      <4>3. <<o, t>> \notin Concerned(c)
          BY <2>6, <3>2, <4>1, <4>2 DEF Concerned
      <4> QED BY <1>6, <2>2, <4>3
    <3> QED BY <3>1, <3>2
  <2>7. /\ \A t \in c.products : Change(o, t) >= Internal(c, t)
        /\ Amounts([t \in Token |-> ExposureOf(t, Change(o, t))], c.products) >= c.floor
      BY <2>1 DEF BuyerChecked
  <2>8. /\ c.products \in SUBSET permitted
        /\ c.kind = "mesh" => \A s, t \in c.products : Instrument[s] = Instrument[t]
      BY <1>2, PartiesAdmitted
  <2>9. [t \in Token |-> ExposureOf(t, Change(o, t))] = [t \in Token |-> Promise!ExposureOf(t, Promise!Gain(o, t))]
      BY <1>5, PromiseTerms
  <2>10. Promise!Amounts([t \in Token |-> Promise!ExposureOf(t, Promise!Gain(o, t))], c.products) >= c.floor
      BY <2>7, <2>9, PromiseTerms
  <2>11. \A t \in c.products : Promise!Gain(o, t) >= Promise!Sold(c, t)
      BY <1>5, <2>7, PromiseTerms
  <2>12. Promise!Gain(o, given) = -Promise!Gives(c)
      BY <1>5, <2>5
  <2>13. \A t \in Token \ (c.products \cup {given}) : Promise!Gain(o, t) = 0
      BY <1>5, <2>6
  <2> QED BY <2>8, <2>10, <2>11, <2>12, <2>13 DEF Promise!BuyerKept
<1>10. \A w \in Wallet \ Owners(c) : balance'[w] = balance[w]
  <2> TAKE w \in Wallet \ Owners(c)
  <2>1. \A t \in Token : <<w, t>> \notin Concerned(c)
      BY DEF Owners, Signed, Concerned
  <2>2. \A t \in Token : tx.current[w][t] = balance[w][t]
      BY <1>2, <2>1 DEF NothingElse
  <2>3. tx.current[w] \in [Token -> Nat] /\ balance[w] \in [Token -> Nat]
      BY <1>2
  <2>4. tx.current[w] = balance[w]
      BY <2>2, <2>3
  <2> QED BY <1>3, <2>4
<1>11. tainted' = tainted
  <2>1. CASE Crossing(c)
    <3>1. tx.tainted = {}
        BY <1>2, <2>1 DEF TakenIsCompared
    <3> QED BY <1>3, <3>1
  <2>2. CASE ~Crossing(c)
    <3>1. \A t \in c.products : <<c.buyer, t>> \notin tx.tainted
        BY <1>3, <2>2 DEF FinalChecks, BuyerChecked, Unspoilt
    <3>2. tx.tainted \in SUBSET ({c.buyer} \X c.products)
        BY <1>2, <2>2 DEF TakenIsCompared
    <3>3. tx.tainted = {}
        BY <3>1, <3>2
    <3> QED BY <1>3, <3>3
  <2> QED BY <2>1, <2>2
<1>12. \A w \in Owners(c) : sequence[w] = Promise!SequenceOf(c, w)
  <2> TAKE w \in Owners(c)
  <2>1. CASE w \in Signed(c)
    <3> DEFINE i == CHOOSE i \in Parties(c) : c.parties[i].owner = w
    <3>1. i \in Parties(c) /\ c.parties[i].owner = w
        BY <2>1 DEF Signed
    <3>2. Promise!SequenceOf(c, w) = c.parties[i].sequence
        BY <2>1, PromiseTerms DEF Promise!SequenceOf, Promise!Terms
    <3> HIDE DEF i
    <3> QED BY <1>2, <3>1, <3>2, PartiesAdmitted
  <2>2. CASE w \notin Signed(c)
    <3>1. ~Crossing(c) /\ w = c.buyer
        BY <2>2 DEF Owners
    <3>2. Promise!SequenceOf(c, w) = c.sequence
        BY <2>2, PromiseTerms DEF Promise!SequenceOf
    <3> QED BY <1>2, <3>1, <3>2, PartiesAdmitted
  <2> QED BY <2>1, <2>2
<1>13. now <= c.deadline
    BY <1>2, PartiesAdmitted
<1> HIDE DEF c
<1>14. Promise!Trade(c)
    BY <1>3, <1>8, <1>9, <1>10, <1>11, <1>12, <1>13, PromiseTerms DEF Promise!Trade
<1> QED BY <1>2, <1>14 DEF c

-----------------------------------------------------------------------------
\* At first nothing runs.
LEMMA CellInvStarts == CellInit => CellInv
BY CellAssumption DEF CellInit, CellInv

\* Every instruction keeps a running transaction on course.
LEMMA CellInvKept ==
    ASSUME CellInv, [CellNext]_cellVars
    PROVE  CellInv'
<1>1. ASSUME UNCHANGED <<balance, tainted, sequence, permitted, now>>,
             NEW q, q = tx', q # NoTx => Underway(q)
      PROVE  CellInv'
  <2>1. Underway(q)' <=> Underway(q)
      BY <1>1, UnderwayStays
  <2>2. tx' # NoTx => (\E r \in {tx} : Underway(r))'
      BY <1>1, <2>1
  <2> QED BY <1>1, <2>2 DEF CellInv
<1>2. tx # NoTx => Underway(tx)
    BY DEF CellInv
<1>3. balance \in [Wallet -> [Token -> Nat]] /\ sequence \in [Wallet -> Nat] /\ now \in Nat
    BY DEF CellInv
<1>4. ASSUME NEW c \in Cells, Begin(c) PROVE CellInv'
  <2>1. Underway(tx')
      BY <1>3, <1>4, BeginGoes DEF Begin
  <2>2. UNCHANGED <<balance, tainted, sequence, permitted, now>>
      BY <1>4 DEF Begin
  <2> QED BY <1>1, <2>1, <2>2
<1>5. CASE Fund
  <2>1. Underway(tx) /\ tx.phase = "fund"
      BY <1>2, <1>5 DEF Fund
  <2> DEFINE c == tx.cell
  <2>2. PICK after \in Outcomes(c.funding, tx.current[c.buyer]), taken \in SUBSET Lent(c.funding) :
          LET cash == after[c.cash] - tx.current[c.buyer][c.cash]
          IN  /\ cash >= c.input
              /\ tx' = [tx EXCEPT !.current[c.buyer] = after, !.tainted = @ \cup taken,
                                  !.graphs = WithSurplus(c, cash), !.phase = "cross", !.funded = cash]
      BY <1>5 DEF Fund
  <2>3. Underway(tx')
      BY <1>3, <2>1, <2>2, FundGoes
  <2>4. UNCHANGED <<balance, tainted, sequence, permitted, now>>
      BY <1>5 DEF Fund
  <2> QED BY <1>1, <2>3, <2>4
<1>6. CASE Cross
  <2>1. Underway(tx')
      BY <1>2, <1>3, <1>6, CrossGoes DEF Cross
  <2>2. UNCHANGED <<balance, tainted, sequence, permitted, now>>
      BY <1>6 DEF Cross
  <2> QED BY <1>1, <2>1, <2>2
<1>7. CASE Route
  <2>1. Underway(tx) /\ tx.phase = "route" /\ tx.turn \in DOMAIN tx.graphs
      BY <1>2, <1>7 DEF Route
  <2> DEFINE g == tx.graphs[tx.turn]
  <2>2. PICK after \in Outcomes(g, tx.current[g.owner]), taken \in SUBSET Lent(g) :
          tx' = [tx EXCEPT !.current[g.owner] = after, !.tainted = @ \cup taken, !.turn = @ + 1]
      BY <1>7 DEF Route
  <2>3. Underway(tx')
      BY <1>3, <2>1, <2>2, RouteGoes
  <2>4. UNCHANGED <<balance, tainted, sequence, permitted, now>>
      BY <1>7 DEF Route
  <2> QED BY <1>1, <2>3, <2>4
<1>8. CASE Commit
  <2>1. tx' = NoTx /\ now' = now /\ balance' = tx.current
        /\ sequence' = [w \in Wallet |-> sequence[w] + (IF w \in Owners(tx.cell) THEN 1 ELSE 0)]
      BY <1>8 DEF Commit
  <2>2. balance' \in [Wallet -> [Token -> Nat]]
      BY <1>2, <1>8, <2>1 DEF Commit, Underway
  <2>3. sequence' \in [Wallet -> Nat]
      BY <1>3, <2>1
  <2> QED BY <1>3, <2>1, <2>2, <2>3 DEF CellInv
<1>9. CASE Abort
    BY <1>1, <1>9 DEF Abort
<1>10. ASSUME NEW c \in Cells, RefuseCell(c) PROVE CellInv'
    BY <1>1, <1>2, <1>10 DEF RefuseCell, cellVars
<1>11. CASE Publish
    BY <1>3, <1>11 DEF Publish, CellInv
<1>12. CASE CellTick
    BY <1>3, <1>12 DEF CellTick, CellInv
<1>13. CASE UNCHANGED cellVars
    BY <1>1, <1>2, <1>13 DEF cellVars
<1> QED BY <1>4, <1>5, <1>6, <1>7, <1>8, <1>9, <1>10, <1>11, <1>12, <1>13 DEF CellNext

\* Beside CellInv: the type of what a running transaction carries.
CellTyped ==
    /\ tainted \in SUBSET Account
    /\ permitted \in SUBSET Product
    /\ tx \in Running \cup {NoTx}

\* What a graph lends are accounts of its owner.
LEMMA LentAreAccounts ==
    ASSUME NEW g, GraphShape(g)
    PROVE  Lent(g) \in SUBSET Account
BY DEF GraphShape, Lent, Account

\* A graph with a positive input remains one.
LEMMA GraphsRemain ==
    ASSUME NEW gs \in Seq(GraphType), NEW z \in DOMAIN gs, NEW n \in Nat \ {0}
    PROVE  [gs EXCEPT ![z].input = n] \in Seq(GraphType)
<1> DEFINE g == gs[z]
           h == [g EXCEPT !.input = n]
           R == [owner : Wallet, assets : Seq(Token), input : Nat \ {0}, minOut : Nat \ {0},
                 deadline : Nat, open : BOOLEAN, lent : SUBSET Token]
<1>1. /\ g \in R /\ Len(g.assets) >= 2
      /\ \A i \in DOMAIN g.assets : g.assets[i] \notin g.lent
    BY DEF GraphType
<1>2. h \in R /\ h.assets = g.assets /\ h.lent = g.lent
    BY <1>1
<1>3. h \in GraphType
    BY <1>1, <1>2 DEF GraphType
<1>4. [gs EXCEPT ![z].input = n] = [gs EXCEPT ![z] = h]
    OBVIOUS
<1> HIDE DEF h
<1>5. [gs EXCEPT ![z] = h] \in Seq(GraphType)
    BY <1>3
<1> QED BY <1>4, <1>5

\* A graph that takes the surplus of a funding is one still.
LEMMA SurplusIsTyped ==
    ASSUME NEW c \in Cells, Admitted(c), Funded(c), NEW cash \in Nat, cash >= c.input
    PROVE  WithSurplus(c, cash) \in Seq(GraphType)
<1> DEFINE gs == c.graphs
           z == IF Open(c) THEN 1 ELSE c.surplus
           paid == InternalCash(c)
           D == DOMAIN gs
<1>1. CellShape(c) /\ ~Crossing(c)
    BY CellsHaveShape DEF Funded
<1>2. /\ gs \in Seq(GraphType) /\ IsFiniteSet(D) /\ c.input \in Nat /\ paid \in Nat
      /\ \A i \in D : Alike(gs[i], gs[i]) /\ gs[i].input \in Nat \ {0} /\ Inputs(gs)[i] = gs[i].input
  <2>1. \A i \in D : gs[i].input \in Nat \ {0}
      BY <1>1 DEF CellShape, GraphType
  <2> QED BY <1>1, <2>1, SumsOfCell DEF CellShape, Alike, InternalCash, Inputs
<1>3. SameButInput(gs, gs)
    BY <1>2 DEF SameButInput
<1>4. paid + Routed(gs) = c.input /\ Routed(gs) = Amounts(Inputs(gs), D)
    BY <1>1, <1>2, <1>3, RoutedIsNatural DEF Admitted, StockAdmitted, AddsUp
<1>5. z \in D
  <2>1. CASE Open(c)
    <3>1. PICK i \in D : gs[i].open
        BY <2>1 DEF Open
    <3>2. Len(gs) = 1
        BY <1>1, <3>1, StockGraph
    <3> QED BY <1>2, <2>1, <3>2
  <2>2. CASE ~Open(c)
      BY <1>1, <2>2 DEF Admitted, StockAdmitted, FundingAdmitted
  <2> QED BY <2>1, <2>2
<1>6. Routed(gs) >= gs[z].input /\ Routed(gs) \in Nat
  <2> DEFINE f == Inputs(gs)
             rest == Amounts(f, D \ {z})
             all == Amounts(f, D)
             one == f[z]
  <2>1. IsFiniteSet(D \ {z}) /\ (\A i \in D : f[i] \in Nat) /\ one \in Nat /\ one = gs[z].input
      BY <1>2, <1>5, FS_RemoveElement
  <2> HIDE DEF f, D
  <2>2. all = one + rest
      BY <1>2, <1>5, <2>1, SumOfRest, AmountsAreSums
  <2>3. rest \in Nat
      BY <2>1, SumOfNaturals, AmountsAreSums
  <2> HIDE DEF rest, all, one
  <2>4. all >= one /\ all \in Nat
      BY <2>1, <2>2, <2>3
  <2> QED BY <1>4, <2>1, <2>4 DEF all, f
<1>7. CASE Open(c)
  <2> DEFINE n == cash - paid
             all == Routed(gs)
             one == gs[z].input
             whole == c.input
  <2>1. WithSurplus(c, cash) = [gs EXCEPT ![z].input = n]
      BY <1>7 DEF WithSurplus
  <2>2. n \in Nat \ {0}
    <3>1. /\ paid \in Nat /\ all \in Nat /\ one \in Nat \ {0} /\ whole \in Nat /\ all >= one
          /\ paid + all = whole /\ cash >= whole
        BY <1>2, <1>4, <1>5, <1>6
    <3> HIDE DEF paid, all, one, whole
    <3> QED BY <3>1
  <2> HIDE DEF n, z
  <2> QED BY <1>2, <1>5, <2>1, <2>2, GraphsRemain
<1>8. CASE ~Open(c)
  <2> DEFINE n == gs[z].input + (cash - c.input)
  <2>1. WithSurplus(c, cash) = [gs EXCEPT ![z].input = n]
      BY <1>8 DEF WithSurplus
  <2>2. n \in Nat \ {0}
    <3> DEFINE one == gs[z].input
               whole == c.input
    <3>1. one \in Nat \ {0} /\ whole \in Nat /\ cash >= whole
        BY <1>2, <1>5
    <3> HIDE DEF one, whole
    <3>2. one + (cash - whole) \in Nat \ {0}
        BY <3>1
    <3> QED BY <3>2 DEF one, whole
  <2> HIDE DEF n, z
  <2> QED BY <1>2, <1>5, <2>1, <2>2, GraphsRemain
<1> QED BY <1>7, <1>8

\* Every instruction keeps the type of a running transaction.
LEMMA CellTypedKept ==
    ASSUME CellInv, CellTyped, [CellNext]_cellVars, CellInv'
    PROVE  CellTyped'
<1>1. tx # NoTx => tx \in Running /\ Underway(tx) /\ tx.cell \in Cells /\ CellShape(tx.cell)
    BY CellsHaveShape DEF CellInv, CellTyped, Underway
<1>2. tainted \in SUBSET Account /\ permitted \in SUBSET Product
    BY DEF CellTyped
<1>3. ASSUME tx # NoTx, NEW g, NEW h \in Running, GraphShape(g), NEW taken \in SUBSET Lent(g)
      PROVE  h.tainted \cup taken \in SUBSET Account
    BY <1>3, LentAreAccounts DEF Running
<1>4. ASSUME NEW c \in Cells, Begin(c) PROVE CellTyped'
  <2>1. /\ balance \in [Wallet -> [Token -> Nat]] /\ c.graphs \in Seq(GraphType)
        /\ {} \in SUBSET Account /\ 1 \in Nat /\ 0 \in Nat
        /\ (IF Funded(c) THEN "fund" ELSE "cross") \in {"fund", "cross", "route"}
      BY CellsHaveShape DEF CellInv, CellShape
  <2>2. tx' \in Running
      BY <1>4, <2>1 DEF Begin, Running
  <2> QED BY <1>2, <1>4, <2>2 DEF Begin, CellTyped
<1>5. CASE Fund
  <2>1. tx \in Running /\ Underway(tx) /\ tx.phase = "fund" /\ tx.cell \in Cells /\ CellShape(tx.cell)
      BY <1>1, <1>5 DEF Fund
  <2> DEFINE c == tx.cell
             o == c.buyer
  <2>2. PICK after \in Outcomes(c.funding, tx.current[o]), taken \in SUBSET Lent(c.funding) :
          LET cash == after[c.cash] - tx.current[o][c.cash]
          IN  /\ cash >= c.input
              /\ tx' = [tx EXCEPT !.current[o] = after, !.tainted = @ \cup taken,
                                  !.graphs = WithSurplus(c, cash), !.phase = "cross", !.funded = cash]
      BY <1>5 DEF Fund
  <2> DEFINE cash == after[c.cash] - tx.current[o][c.cash]
  <2>3. Funded(c) /\ Admitted(c) /\ ~Crossing(c) /\ tx.current \in [Wallet -> [Token -> Nat]]
      BY <2>1 DEF Underway, Funded
  <2>4. GraphShape(c.funding) /\ c.funding.input \in Nat /\ o \in Wallet /\ c.cash \in Token /\ c.input \in Nat
      BY <2>1, <2>3 DEF CellShape
  <2>5. tx.current[o] \in [Token -> Nat]
      BY <2>3, <2>4
  <2>6. after \in [Token -> Nat]
      BY <2>2, <2>4, <2>5, OutcomeStays
  <2>7. cash \in Nat
    <3> DEFINE a == after[c.cash]
               x == tx.current[o][c.cash]
    <3>1. a \in Nat /\ x \in Nat /\ a - x >= c.input
        BY <2>2, <2>4, <2>5, <2>6
    <3> HIDE DEF a, x
    <3>2. a - x \in Nat
        BY <2>4, <3>1
    <3> QED BY <3>2 DEF a, x
  <2>8. WithSurplus(c, cash) \in Seq(GraphType)
      BY <2>1, <2>2, <2>3, <2>7, SurplusIsTyped
  <2>9. tx.tainted \cup taken \in SUBSET Account
      BY <1>3, <1>5, <2>1, <2>2, <2>4 DEF Fund
  <2>10. [tx.current EXCEPT ![o] = after] \in [Wallet -> [Token -> Nat]]
      BY <2>3, <2>4, <2>6
  <2> DEFINE held == [tx.current EXCEPT ![o] = after]
             all == tx.tainted \cup taken
             gs == WithSurplus(c, cash)
  <2>11. tx' = [tx EXCEPT !.current = held, !.tainted = all, !.graphs = gs, !.phase = "cross", !.funded = cash]
      BY <2>2
  <2> HIDE DEF held, all, gs, cash
  <2>12. tx' \in Running
      BY <2>1, <2>7, <2>8, <2>9, <2>10, <2>11 DEF Running, held, all, gs
  <2> QED BY <1>2, <1>5, <2>12 DEF Fund, CellTyped
<1>6. CASE Cross
  <2>1. tx \in Running /\ tx' = [tx EXCEPT !.current = Crossed(tx.cell, tx.current), !.phase = "route"]
      BY <1>1, <1>6 DEF Cross
  <2> DEFINE held == Crossed(tx.cell, tx.current)
  <2>2. held \in [Wallet -> [Token -> Nat]]
    <3>1. Underway(tx) /\ tx.phase = "cross" /\ balance \in [Wallet -> [Token -> Nat]]
          /\ \A w \in Wallet, t \in Token : held[w][t] >= 0
        BY <1>1, <1>6 DEF Cross, CellInv
    <3>2. Underway(tx')
        BY <2>1, <3>1, CrossGoes
    <3>3. tx'.current = held
        BY <2>1 DEF Running
    <3> QED BY <3>2, <3>3 DEF Underway
  <2> HIDE DEF held
  <2>3. tx' \in Running
      BY <2>1, <2>2 DEF Running, held
  <2> QED BY <1>2, <1>6, <2>3 DEF Cross, CellTyped
<1>7. CASE Route
  <2>1. /\ tx \in Running /\ Underway(tx) /\ tx.turn \in DOMAIN tx.graphs /\ tx.turn \in Nat
        /\ tx.cell \in Cells /\ Admitted(tx.cell) /\ SameButInput(tx.graphs, tx.cell.graphs)
        /\ tx.current \in [Wallet -> [Token -> Nat]]
      BY <1>1, <1>7 DEF Route, Underway
  <2> DEFINE g == tx.graphs[tx.turn]
             o == g.owner
  <2>2. PICK after \in Outcomes(g, tx.current[o]), taken \in SUBSET Lent(g) :
          tx' = [tx EXCEPT !.current[o] = after, !.tainted = @ \cup taken, !.turn = @ + 1]
      BY <1>7 DEF Route
  <2>3. GraphShape(g) /\ g.input \in Nat /\ o \in Wallet
    <3>1. g \in GraphType
        BY <2>1 DEF Running
    <3> QED BY <3>1, GraphsHaveShape DEF GraphShape
  <2>4. tx.current[o] \in [Token -> Nat]
      BY <2>1, <2>3
  <2>5. after \in [Token -> Nat]
      BY <2>2, <2>3, <2>4, OutcomeStays
  <2>6. tx.tainted \cup taken \in SUBSET Account
      BY <1>3, <1>7, <2>1, <2>2, <2>3 DEF Route
  <2> DEFINE held == [tx.current EXCEPT ![o] = after]
             all == tx.tainted \cup taken
             n == tx.turn + 1
  <2>7. held \in [Wallet -> [Token -> Nat]] /\ n \in Nat
      BY <2>1, <2>3, <2>5
  <2>8. tx' = [tx EXCEPT !.current = held, !.tainted = all, !.turn = n]
      BY <2>2
  <2> HIDE DEF held, all, n
  <2>9. tx' \in Running
      BY <2>1, <2>6, <2>7, <2>8 DEF Running, all
  <2> QED BY <1>2, <1>7, <2>9 DEF Route, CellTyped
<1>8. CASE Commit
  <2>1. tx.tainted \in SUBSET Account
      BY <1>1, <1>8 DEF Commit, Running
  <2> QED BY <1>2, <1>8, <2>1 DEF Commit, CellTyped
<1>9. CASE Abort
    BY <1>2, <1>9 DEF Abort, CellTyped
<1>10. ASSUME NEW c \in Cells, RefuseCell(c) PROVE CellTyped'
    BY <1>10 DEF RefuseCell, cellVars, CellTyped
<1>11. CASE Publish
    BY <1>2, <1>11 DEF Publish, CellTyped
<1>12. CASE CellTick
    BY <1>2, <1>12 DEF CellTick, CellTyped
<1>13. CASE UNCHANGED cellVars
    BY <1>13 DEF cellVars, CellTyped
<1> QED BY <1>4, <1>5, <1>6, <1>7, <1>8, <1>9, <1>10, <1>11, <1>12, <1>13 DEF CellNext

\* The type of every variable of cells; of a funded cell, payments and graphs
\* share out exactly the cash that the funding brought in, at every step
\* (meshcell.rs:714, meshcell.rs:730).
THEOREM CellTypes == CellSpec => []CellTypeOK
<1>1. CellInit => CellInv /\ CellTyped
    BY CellInvStarts DEF CellInit, CellTyped
<1>2. CellInv /\ CellTyped /\ [CellNext]_cellVars => CellInv' /\ CellTyped'
    BY CellInvKept, CellTypedKept
<1>3. CellInv /\ CellTyped => CellTypeOK
  <2> SUFFICES ASSUME CellInv, CellTyped PROVE CellTypeOK
      OBVIOUS
  <2>1. ASSUME tx # NoTx, tx.funded # 0
        PROVE  InternalCash(tx.cell) + Routed(tx.graphs) = tx.funded
    <3> DEFINE c == tx.cell
    <3>1. /\ Underway(tx) /\ Funded(c) /\ tx.funded \in Nat
        BY <2>1 DEF CellInv, Underway
    <3>2. ~Crossing(c) /\ OwnCash(c) = 0
        BY <3>1 DEF Funded, OwnCash
    <3>3. InternalCash(c) + Routed(tx.graphs) = tx.funded + 0
        BY <2>1, <3>1, <3>2 DEF Underway, CashFollows
    <3> QED BY <3>1, <3>3
  <2> QED BY <2>1 DEF CellTypeOK, CellInv, CellTyped
<1> QED BY <1>1, <1>2, <1>3, PTL DEF CellSpec

\* No payment or graph of a stock cell draws on more of the buyer's own cash
\* than it signed, at any step of any transaction, and on none when the cell
\* is funded (graph.rs:178, funding.rs).
THEOREM CellKeepsCash == CellSpec => []OwnCashKept
<1>1. CellInit => CellInv
    BY CellInvStarts
<1>2. CellInv /\ [CellNext]_cellVars => CellInv'
    BY CellInvKept
<1>3. CellInv => OwnCashKept
    BY OwnCashHolds
<1> QED BY <1>1, <1>2, <1>3, PTL DEF CellSpec

\* Cells of any wallets, tokens, lengths and balances implement their promise:
\* a commit is one whole trade for every signer and leaves no account with
\* another authority, everything else leaves the committed state alone
\* (meshcell.rs:842, flowcell.rs:350, crossing.rs:220).
THEOREM CellImplements == CellSpec => ImplementsCellPromise
<1> DEFINE promised == <<balance, tainted, sequence, permitted, now>>
<1>1. CellInit => Promise!PromiseInit
    BY CellAssumption DEF CellInit, Promise!PromiseInit
<1>2. CellInv /\ [CellNext]_cellVars => [Promise!PromiseNext]_promised
  <2> SUFFICES ASSUME CellInv, [CellNext]_cellVars
               PROVE  Promise!PromiseNext \/ UNCHANGED promised
      OBVIOUS
  <2>1. CASE Commit
      BY <2>1, CommitTrades DEF Promise!PromiseNext
  <2>2. CASE Publish
    <3>1. now' >= now
        BY <2>2 DEF Publish, CellInv
    <3> QED BY <2>2, <3>1 DEF Publish, Promise!PromiseNext, Promise!Elapse
  <2>3. CASE CellTick
    <3>1. now' >= now
        BY <2>3 DEF CellTick, CellInv
    <3> QED BY <2>3, <3>1 DEF CellTick, Promise!PromiseNext, Promise!Elapse
  <2>4. CASE (\E c \in Cells : Begin(c) \/ RefuseCell(c)) \/ Fund \/ Cross \/ Route \/ Abort
      BY <2>4 DEF Begin, RefuseCell, Fund, Cross, Route, Abort, cellVars
  <2>5. CASE UNCHANGED cellVars
      BY <2>5 DEF cellVars
  <2> QED BY <2>1, <2>2, <2>3, <2>4, <2>5 DEF CellNext
<1>3. CellInit => CellInv
    BY CellInvStarts
<1>4. CellInv /\ [CellNext]_cellVars => CellInv'
    BY CellInvKept
<1> QED BY <1>1, <1>2, <1>3, <1>4, PTL DEF CellSpec, ImplementsCellPromise, Promise!PromiseSpec
-----------------------------------------------------------------------------
(* The book of exposure.  What was true of a fill when it was made stays   *)
(* true: orders only become less, so that nobody who could have had the    *)
(* trade later had it open.                                                *)

\* The fills so far, and what an order got of them.
FillsOf == [buyer : Trading, seller : Trading, claim : {Order(s).delivers : s \in Trading},
            amount : Nat, price : Nat]
FilledIn(fs, i) == Amounts([k \in DOMAIN fs |-> PartOf(i, fs[k])], DOMAIN fs)

\* A fill that its buyer accepted, and that passed nobody who is still there.
FairFill(rest, f) ==
    /\ f.buyer \in Bids /\ f.seller \in Asks
    /\ f.claim \in Order(f.buyer).claims /\ f.price <= Order(f.buyer).limit
    /\ \A b \in Bids : rest[b] > 0 /\ AheadBid(b, f.buyer) => ~Crosses(b, f.seller)
    /\ \A s \in Asks : rest[s] > 0 /\ AheadAsk(s, f.seller) => ~Crosses(f.buyer, s)

BookInv ==
    /\ book \in Books
    /\ left \in [Trading -> Nat]
    /\ fills \in Seq(FillsOf)
    /\ \E fs \in {fills} : \A i \in Trading : left[i] + FilledIn(fs, i) = Order(i).amount
    /\ \A k \in DOMAIN fills : FairFill(left, fills[k])

\* What an order got is a sum over its fills.
LEMMA FilledIsSum == \A i : FilledOf(i) = FilledIn(fills, i)
BY DEF FilledOf, FilledIn, Amounts

\* One more fill gives its buyer and its seller what it says, and others nothing.
LEMMA FilledGrows ==
    ASSUME NEW S, NEW fs \in Seq(S), \A k \in DOMAIN fs : fs[k].amount \in Nat,
           NEW f \in S, f.amount \in Nat, NEW i
    PROVE  /\ FilledIn(fs, i) \in Nat
           /\ FilledIn(Append(fs, f), i) = FilledIn(fs, i) + PartOf(i, f)
<1> DEFINE more == Append(fs, f)
           r == [k \in DOMAIN fs |-> PartOf(i, fs[k])]
           q == [k \in DOMAIN more |-> PartOf(i, more[k])]
           z == Len(fs) + 1
<1>1. /\ Len(fs) \in Nat /\ DOMAIN fs = 1..Len(fs) /\ DOMAIN more = 1..z
      /\ more[z] = f /\ \A k \in DOMAIN fs : more[k] = fs[k]
    OBVIOUS
<1>2. /\ z \in DOMAIN more /\ DOMAIN more \ {z} = DOMAIN fs
      /\ IsFiniteSet(DOMAIN more) /\ IsFiniteSet(DOMAIN fs)
  <2>1. z \in Nat /\ z \in 1..z /\ (1..z) \ {z} = 1..Len(fs)
      BY <1>1
  <2>2. IsFiniteSet(1..Len(fs)) /\ IsFiniteSet(1..z)
    <3>1. Len(fs) \in Int /\ z \in Int /\ 1 \in Int
        BY <1>1
    <3> HIDE DEF z
    <3> QED BY <3>1, FS_Interval
  <2>3. DOMAIN more = 1..z /\ DOMAIN fs = 1..Len(fs)
      BY <1>1
  <2>4. ASSUME NEW n \in Nat PROVE (1..(n + 1)) \ {n + 1} = 1..n /\ n + 1 \in 1..(n + 1)
      BY <2>4
  <2>5. (1..z) \ {z} = 1..Len(fs) /\ z \in 1..z
      BY <1>1, <2>4
  <2> HIDE DEF z, more
  <2> QED BY <2>2, <2>3, <2>5
<1>3. /\ \A k \in DOMAIN fs : r[k] \in Nat /\ q[k] = r[k]
      /\ \A k \in DOMAIN more : q[k] \in Nat
      /\ q[z] = PartOf(i, f)
  <2>1. PartOf(i, f) \in Nat /\ \A k \in DOMAIN fs : PartOf(i, fs[k]) \in Nat
      BY DEF PartOf
  <2>2. \A k \in DOMAIN fs : k \in DOMAIN more
      BY <1>2
  <2> HIDE DEF more, z
  <2>3. q[z] = PartOf(i, f) /\ \A k \in DOMAIN fs : q[k] = r[k] /\ r[k] = PartOf(i, fs[k])
      BY <1>1, <1>2, <2>2
  <2>4. \A k \in DOMAIN more : k = z \/ k \in DOMAIN fs
      BY <1>2
  <2> QED BY <2>1, <2>3, <2>4
<1> HIDE DEF r, q, z, more
<1>4. Amounts(q, DOMAIN more) = q[z] + Amounts(q, DOMAIN more \ {z})
  <2> DEFINE D == DOMAIN more
  <2>1. IsFiniteSet(D) /\ z \in D /\ \A k \in D : q[k] \in Nat
      BY <1>2, <1>3
  <2> HIDE DEF D
  <2>2. SumIn(q, D) = q[z] + SumIn(q, D \ {z})
      BY <2>1, SumOfRest
  <2>3. Amounts(q, D) = SumIn(q, D) /\ Amounts(q, D \ {z}) = SumIn(q, D \ {z})
      BY AmountsAreSums
  <2> QED BY <2>2, <2>3 DEF D
<1>5. Amounts(q, DOMAIN fs) = Amounts(r, DOMAIN fs)
  <2> DEFINE D == DOMAIN fs
  <2>1. IsFiniteSet(D) /\ \A k \in D : q[k] = r[k]
      BY <1>2, <1>3
  <2> HIDE DEF D
  <2>2. SumIn(q, D) = SumIn(r, D)
      BY <2>1, SumOfSame
  <2> QED BY <2>2, AmountsAreSums DEF D
<1>6. Amounts(r, DOMAIN fs) \in Nat
    BY <1>2, <1>3, SumOfNaturals, AmountsAreSums
<1>7. FilledIn(fs, i) = Amounts(r, DOMAIN fs) /\ FilledIn(more, i) = Amounts(q, DOMAIN more)
    BY DEF FilledIn, r, q
<1>8. q[z] \in Nat
    BY <1>2, <1>3
<1>9. FilledIn(fs, i) \in Nat /\ FilledIn(more, i) = FilledIn(fs, i) + PartOf(i, f)
    BY <1>2, <1>3, <1>4, <1>5, <1>6, <1>7, <1>8
<1> QED BY <1>9 DEF more

\* A price that is accepted with a premium is within the limit.
LEMMA PremiumCovers ==
    ASSUME NEW p \in Nat, NEW limit \in Nat, NEW unit \in Nat \ {0}, NEW premium \in Nat,
           p * (unit + premium) <= limit * unit
    PROVE  p <= limit
<1> SUFFICES ASSUME p >= limit + 1 PROVE FALSE
    OBVIOUS
<1>1. PICK d \in Nat : p = limit + 1 + d
  <2>1. p - limit - 1 \in Nat /\ p = limit + 1 + (p - limit - 1)
      OBVIOUS
  <2> QED BY <2>1
<1>2. p * (unit + premium) = limit * unit + unit + d * unit + p * premium
    BY <1>1, Z3
<1>3. d * unit \in Nat /\ p * premium \in Nat /\ limit * unit \in Nat
    OBVIOUS
<1> HIDE <1>1
<1> QED BY <1>2, <1>3

\* A book opens with its orders whole.
LEMMA BookStarts == BookInit => BookInv
<1> SUFFICES ASSUME BookInit PROVE BookInv
    OBVIOUS
<1>1. book \in Books /\ left = [i \in Trading |-> Order(i).amount] /\ fills = <<>>
    BY DEF BookInit
<1>2. \A i \in Trading : Order(i).amount \in Nat
    BY <1>1, BookAssumption DEF Trading, Order, OrderFields
<1>3. left \in [Trading -> Nat]
    BY <1>1, <1>2
<1>4. fills \in Seq(FillsOf) /\ DOMAIN fills = {}
    BY <1>1
<1>5. \A i : FilledIn(fills, i) = 0
  <2> TAKE i
  <2>1. IsFiniteSet({})
      BY FS_EmptySet
  <2>2. Amounts([k \in DOMAIN fills |-> PartOf(i, fills[k])], {}) = 0
      BY <2>1, SumUnfolds, AmountsAreSums
  <2> QED BY <1>4, <2>2 DEF FilledIn
<1>6. \A i \in Trading : left[i] + FilledIn(fills, i) = Order(i).amount
    BY <1>1, <1>2, <1>5
<1> QED BY <1>1, <1>3, <1>4, <1>6 DEF BookInv

\* Prices, arrivals and places put two orders one way only.
LEMMA OneIsAhead ==
    ASSUME book \in Books
    PROVE  /\ \A i, j \in Trading : AheadBid(i, j) => ~AheadBid(j, i)
           /\ \A i, j \in Trading : AheadAsk(i, j) => ~AheadAsk(j, i)
<1>1. \A i \in Trading : i \in Nat /\ Order(i).limit \in Nat /\ Order(i).arrival \in Nat
    BY BookAssumption DEF Trading, Order, OrderFields
<1> QED BY <1>1 DEF AheadBid, AheadAsk

\* A step that leaves the orders, what is left and the fills alone.
LEMMA BookRests ==
    ASSUME BookInv, UNCHANGED <<book, left, fills>>
    PROVE  BookInv'
BY DEF BookInv, FairFill, FillsOf, FilledIn, PartOf, Trading, Order, Bids, Asks, AheadBid, AheadAsk, Crosses

\* match_continuous: the best bid that has an ask meets the best ask that it accepts
\* (onebook/mod.rs: match_continuous).
LEMMA MatchKeeps ==
    ASSUME BookInv, Match
    PROVE  BookInv'
<1>1. PICK p \in Pairs :
        /\ \A q \in Pairs : p = q \/ Ahead(p, q)
        /\ Trade(p[1], p[2], Smaller(left[p[1]], left[p[2]]))
    BY DEF Match
<1>2. UNCHANGED book
    BY DEF Match
<1>3. /\ book \in Books /\ left \in [Trading -> Nat] /\ fills \in Seq(FillsOf)
      /\ \A i \in Trading : left[i] + FilledIn(fills, i) = Order(i).amount
      /\ \A k \in DOMAIN fills : FairFill(left, fills[k])
    BY DEF BookInv
<1> DEFINE b == p[1]
           s == p[2]
           amount == Smaller(left[b], left[s])
           f == [buyer |-> b, seller |-> s, claim |-> Order(s).delivers,
                 amount |-> amount, price |-> Order(s).limit]
<1>4. /\ b \in Bids /\ s \in Asks /\ left[b] > 0 /\ left[s] > 0 /\ Crosses(b, s)
      /\ p = <<b, s>>
    BY DEF Pairs
<1>5. left' = [left EXCEPT ![b] = @ - amount, ![s] = @ - amount] /\ fills' = Append(fills, f)
    BY <1>1 DEF Trade
<1>6. \A q \in Pairs : p = q \/ AheadBid(b, q[1]) \/ (b = q[1] /\ AheadAsk(s, q[2]))
    BY <1>1 DEF Ahead
<1> HIDE DEF b, s
<1>7. b \in Trading /\ s \in Trading /\ b # s
  <2>1. b \in Trading /\ s \in Trading /\ Order(b).side = "buy" /\ Order(s).side = "sell"
      BY <1>4 DEF Bids, Asks
  <2> QED BY <2>1
<1>8. amount \in Nat /\ amount <= left[b] /\ amount <= left[s]
    BY <1>3, <1>7 DEF Smaller
<1> HIDE DEF amount
<1>9. /\ left' \in [Trading -> Nat]
      /\ left'[b] = left[b] - amount /\ left'[s] = left[s] - amount
      /\ \A i \in Trading : i # b /\ i # s => left'[i] = left[i]
  <2>1. left[b] - amount \in Nat /\ left[s] - amount \in Nat
      BY <1>3, <1>7, <1>8
  <2> QED BY <1>3, <1>5, <1>7, <2>1
<1>10. \A i \in Trading : left'[i] <= left[i]
  <2> TAKE i \in Trading
  <2>1. left[i] \in Nat /\ left'[i] \in Nat
      BY <1>3, <1>9
  <2>2. CASE i = b
      BY <2>1, <2>2, <1>8, <1>9
  <2>3. CASE i = s
      BY <2>1, <2>3, <1>8, <1>9
  <2> QED BY <2>1, <2>2, <2>3, <1>9
<1>11. /\ Order(s).limit \in Nat /\ Order(b).limit \in Nat /\ Order(b).premium \in Nat
       /\ f \in FillsOf /\ f.amount = amount /\ f.buyer = b /\ f.seller = s
  <2>1. Order(s).limit \in Nat /\ Order(b).limit \in Nat /\ Order(b).premium \in Nat
      BY <1>3, <1>7, BookAssumption DEF Trading, Order, OrderFields
  <2> QED BY <1>7, <1>8, <2>1 DEF FillsOf
<1>12. fills' \in Seq(FillsOf) /\ FillsOf' = FillsOf
  <2>1. FillsOf' = FillsOf
      BY <1>2 DEF FillsOf, Trading, Order
  <2> HIDE DEF f
  <2> QED BY <1>3, <1>5, <1>11, <2>1
<1>13. \A i \in Trading : left'[i] + FilledIn(fills', i) = Order(i).amount
  <2> TAKE i \in Trading
  <2>1. \A k \in DOMAIN fills : fills[k].amount \in Nat
    <3>1. \A k \in DOMAIN fills : fills[k] \in FillsOf
        BY <1>3
    <3> QED BY <3>1 DEF FillsOf
  <2>2. PartOf(i, f) = IF i \in {b, s} THEN amount ELSE 0
      BY <1>11 DEF PartOf
  <2> HIDE DEF f
  <2>3. /\ FilledIn(fills, i) \in Nat
        /\ FilledIn(fills', i) = FilledIn(fills, i) + PartOf(i, f)
      BY <1>3, <1>5, <1>8, <1>11, <2>1, FilledGrows
  <2> DEFINE n == FilledIn(fills, i)
             m == FilledIn(fills', i)
  <2>4. left[i] \in Nat /\ n \in Nat /\ m = n + PartOf(i, f) /\ left[i] + n = Order(i).amount
      BY <1>3, <2>3
  <2> HIDE DEF n, m
  <2>5. left'[i] + m = Order(i).amount
      BY <1>7, <1>8, <1>9, <2>2, <2>4
  <2> QED BY <2>5 DEF m
\* The fill is fair: whoever is ahead and could trade would have been chosen.
<1>14. FairFill(left', f)
  <2>1. f.claim \in Order(b).claims /\ Order(s).limit <= Order(b).limit
    <3>1. Order(s).limit * (BookBps + Order(b).premium) <= Order(b).limit * BookBps
        BY <1>4 DEF Crosses
    <3>2. Order(s).limit <= Order(b).limit
        BY <1>11, <3>1, PremiumCovers, BookAssumption
    <3> QED BY <1>4, <3>2 DEF Crosses
  <2>2. ASSUME NEW c \in Bids, left'[c] > 0, AheadBid(c, b)
        PROVE  ~Crosses(c, s)
    <3> SUFFICES ASSUME Crosses(c, s) PROVE FALSE
        OBVIOUS
    <3>1. c \in Trading /\ left[c] > 0
        BY <1>3, <1>9, <1>10, <2>2 DEF Bids
    <3>2. <<c, s>> \in Pairs
        BY <1>4, <3>1 DEF Pairs
    <3>3. p = <<c, s>> \/ AheadBid(b, c) \/ (b = c /\ AheadAsk(s, s))
        BY <1>6, <3>2
    <3>4. ~AheadBid(b, b) /\ ~AheadBid(b, c) /\ ~AheadAsk(s, s)
        BY <1>3, <1>7, <2>2, <3>1, OneIsAhead
    <3>5. p = <<c, s>> => b = c
        BY <1>4
    <3> QED BY <2>2, <3>3, <3>4, <3>5
  <2>3. ASSUME NEW a \in Asks, left'[a] > 0, AheadAsk(a, s)
        PROVE  ~Crosses(b, a)
    <3> SUFFICES ASSUME Crosses(b, a) PROVE FALSE
        OBVIOUS
    <3>1. a \in Trading /\ left[a] > 0
        BY <1>3, <1>9, <1>10, <2>3 DEF Asks
    <3>2. <<b, a>> \in Pairs
        BY <1>4, <3>1 DEF Pairs
    <3>3. p = <<b, a>> \/ AheadBid(b, b) \/ (b = b /\ AheadAsk(s, a))
        BY <1>6, <3>2
    <3>4. ~AheadBid(b, b) /\ ~AheadAsk(s, s) /\ ~AheadAsk(s, a)
        BY <1>3, <1>7, <2>3, <3>1, OneIsAhead
    <3>5. p = <<b, a>> => s = a
        BY <1>4
    <3> QED BY <2>3, <3>3, <3>4, <3>5
  <2> QED BY <1>2, <1>4, <2>1, <2>2, <2>3
          DEF FairFill, Bids, Asks, Trading, Order, AheadBid, AheadAsk, Crosses
\* Earlier fills stay fair, as nobody has more left than before.
<1>15. ASSUME NEW g, FairFill(left, g) PROVE FairFill(left', g)
  <2>1. \A i \in Trading : left[i] \in Nat /\ left'[i] \in Nat /\ (left'[i] > 0 => left[i] > 0)
      BY <1>3, <1>9, <1>10
  <2>2. Bids \in SUBSET Trading /\ Asks \in SUBSET Trading
      BY DEF Bids, Asks
  <2> QED BY <1>2, <1>15, <2>1, <2>2
          DEF FairFill, Bids, Asks, Trading, Order, AheadBid, AheadAsk, Crosses
<1>16. \A k \in DOMAIN fills' : FairFill(left', fills'[k])
  <2> HIDE DEF f
  <2>1. \A k \in DOMAIN fills' : fills'[k] = f \/ (k \in DOMAIN fills /\ fills'[k] = fills[k])
      BY <1>3, <1>5, <1>11
  <2> QED BY <1>3, <1>14, <1>15, <2>1
<1>17. (\E fs \in {fills} : \A i \in Trading : left[i] + FilledIn(fs, i) = Order(i).amount)'
    BY <1>2, <1>13 DEF Trading, Order
<1>18. (\A k \in DOMAIN fills : FairFill(left, fills[k]))'
    BY <1>2, <1>16 DEF FairFill, Bids, Asks, Trading, Order, AheadBid, AheadAsk, Crosses
<1>19. (fills \in Seq(FillsOf))' /\ (left \in [Trading -> Nat])' /\ (book \in Books)'
    BY <1>2, <1>3, <1>9, <1>12 DEF Trading
<1> QED BY <1>17, <1>18, <1>19 DEF BookInv

\* Whatever orders meet, nobody is traded through, and every order is filled
\* by what it has less (onebook/mod.rs: match_continuous).
THEOREM NobodyPassed == BookSpec => []NobodyTradedThrough
<1>1. BookInv /\ [BookNext]_bookVars => BookInv'
    BY MatchKeeps, BookRests DEF BookNext, Matched, Compile, BookOver, bookVars
<1>2. BookInv => NobodyTradedThrough
  <2> SUFFICES ASSUME BookInv PROVE NobodyTradedThrough
      OBVIOUS
  <2>1. \A i \in Trading : left[i] >= 0 /\ left[i] + FilledOf(i) = Order(i).amount
      BY FilledIsSum DEF BookInv
  <2>2. \A k \in DOMAIN fills : FairFill(left, fills[k])
      BY DEF BookInv
  <2> QED BY <2>1, <2>2 DEF NobodyTradedThrough, FairFill
<1> QED BY BookStarts, <1>1, <1>2, PTL DEF BookSpec
=============================================================================
