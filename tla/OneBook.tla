------------------------------- MODULE OneBook -------------------------------
(***************************************************************************)
(* The book of economic exposure: orders for one instrument that may be    *)
(* settled in several claims.  A seller delivers one claim, a buyer        *)
(* accepts a set of them.  The best bid meets its best compatible ask,     *)
(* again and again; what the venues could sell is compiled into virtual    *)
(* levels of one state of the bank.                                        *)
(***************************************************************************)
EXTENDS Integers, Sequences, FiniteSets, SequencesExt, FiniteSetsExt

CONSTANTS
    Books,      \* [orders, slices, slot]
    BookBps     \* 10_000

\* What decoding gives: unsigned amounts, prices and times, and a side.
OrderFields(o) ==
    /\ o.side \in {"buy", "sell"}
    /\ o.amount \in Nat /\ o.limit \in Nat /\ o.premium \in Nat /\ o.arrival \in Nat

ASSUME BookAssumption ==
    /\ BookBps \in Nat \ {0}
    /\ \A b \in Books :
         /\ Len(b.orders) \in Nat /\ DOMAIN b.orders = 1..Len(b.orders)
         /\ \A i \in DOMAIN b.orders : OrderFields(b.orders[i])

VARIABLES
    book,       \* orders [owner, nonce, side, amount, limit, claims, delivers,
                \* premium, expires, arrival] and slices [claim, source, state,
                \* input, exposure, expires]
    left,       \* exposure that is left of every order
    fills,      \* [buyer, seller, claim, amount, price], in their order
    levels,     \* the virtual levels
    at          \* "match", "compile", "done", "refused"

bookVars == <<book, left, fills, levels, at>>

Order(i) == book.orders[i]
Trading == DOMAIN book.orders
Bids == {i \in Trading : Order(i).side = "buy"}
Asks == {i \in Trading : Order(i).side = "sell"}

\* What an order must be by itself, and beside the others.
ValidOrder(o, slot) ==
    /\ o.amount > 0 /\ o.limit > 0 /\ o.claims # {} /\ o.expires >= slot
    /\ o.side = "sell" => o.delivers \in o.claims
ValidOrders(b) ==
    /\ \A i \in DOMAIN b.orders : ValidOrder(b.orders[i], b.slot)
    /\ \A i, j \in DOMAIN b.orders :
         i # j => <<b.orders[i].owner, b.orders[i].nonce>> # <<b.orders[j].owner, b.orders[j].nonce>>

BookInit ==
    /\ book \in Books
    /\ left = [i \in Trading |-> Order(i).amount]
    /\ fills = <<>> /\ levels = <<>>
    /\ at = IF ValidOrders(book) THEN "match" ELSE "refused"

\* The buyer accepts the claim, and the ask with the buyer's premium for
\* another claim is not above its limit.
Crosses(b, s) ==
    /\ Order(s).delivers \in Order(b).claims
    /\ Order(s).limit * (BookBps + Order(b).premium) <= Order(b).limit * BookBps

\* Prices first, then arrivals, then places.
AheadBid(i, j) ==
    \/ Order(i).limit > Order(j).limit
    \/ Order(i).limit = Order(j).limit /\ Order(i).arrival < Order(j).arrival
    \/ Order(i).limit = Order(j).limit /\ Order(i).arrival = Order(j).arrival /\ i < j
AheadAsk(i, j) ==
    \/ Order(i).limit < Order(j).limit
    \/ Order(i).limit = Order(j).limit /\ Order(i).arrival < Order(j).arrival
    \/ Order(i).limit = Order(j).limit /\ Order(i).arrival = Order(j).arrival /\ i < j
\* mutant of Ahead: the first ask that will do.
AnyAsk(p, q) == \/ AheadBid(p[1], q[1])
                \/ p[1] = q[1] /\ p[2] < q[2]
Ahead(p, q) == \/ AheadBid(p[1], q[1])
               \/ p[1] = q[1] /\ AheadAsk(p[2], q[2])

Pairs == {p \in Bids \X Asks : left[p[1]] > 0 /\ left[p[2]] > 0 /\ Crosses(p[1], p[2])}
Smaller(a, b) == IF a < b THEN a ELSE b

Trade(b, s, amount) ==
    /\ left' = [left EXCEPT ![b] = @ - amount, ![s] = @ - amount]
    /\ fills' = Append(fills, [buyer |-> b, seller |-> s, claim |-> Order(s).delivers,
                               amount |-> amount, price |-> Order(s).limit])

Match ==
    /\ at = "match"
    /\ \E p \in Pairs :
         /\ \A q \in Pairs : p = q \/ Ahead(p, q)
         /\ Trade(p[1], p[2], Smaller(left[p[1]], left[p[2]]))
    /\ UNCHANGED <<book, levels, at>>

\* No pair is left.
Matched == at = "match" /\ Pairs = {} /\ at' = "compile" /\ UNCHANGED <<book, left, fills, levels>>

-----------------------------------------------------------------------------
(* Virtual levels.                                                         *)

ValidSlices(slices, slot) ==
    \A k \in DOMAIN slices :
        /\ slices[k].state = slices[1].state
        /\ slices[k].input > 0 /\ slices[k].exposure > 0 /\ slices[k].expires >= slot

\* The price of a level, rounded up.
LevelPrice(s) == (s.input * BookBps + s.exposure - 1) \div s.exposure
LevelKey(l) == <<l.price, l.slice.claim, l.slice.source>>
NotAfter(k, l) ==
    \/ k[1] < l[1]
    \/ k[1] = l[1] /\ k[2] < l[2]
    \/ k[1] = l[1] /\ k[2] = l[2] /\ k[3] <= l[3]
\* Behind the last level that is not after it; the levels are sorted.
Insert(sorted, l) ==
    SelectSeq(sorted, LAMBDA k : NotAfter(LevelKey(k), LevelKey(l)))
      \o <<l>> \o SelectSeq(sorted, LAMBDA k : ~NotAfter(LevelKey(k), LevelKey(l)))

Compile ==
    /\ at = "compile"
    /\ IF book.slices = <<>> \/ ~ValidSlices(book.slices, book.slot)
       THEN at' = "refused" /\ UNCHANGED levels
       ELSE /\ levels' = FoldLeft(LAMBDA a, s : Insert(a, [price |-> LevelPrice(s), slice |-> s]),
                                  <<>>, book.slices)
            /\ at' = "done"
    /\ UNCHANGED <<book, left, fills>>

BookOver == at \in {"done", "refused"} /\ UNCHANGED bookVars

BookNext == Match \/ Matched \/ Compile \/ BookOver

BookSpec == BookInit /\ [][BookNext]_bookVars

-----------------------------------------------------------------------------
\* What the fills gave an order.
PartOf(i, f) == IF i \in {f.buyer, f.seller} THEN f.amount ELSE 0
FilledOf(i) ==
    LET part == [k \in DOMAIN fills |-> PartOf(i, fills[k])]
        amount(k) == part[k]
    IN  MapThenSumSet(amount, DOMAIN fills)

\* Nobody is traded through: when the matching has ended, no bid that is still
\* unfilled could have had an ask that a bid behind it took, and no ask one
\* that its buyer bought from an ask behind it; no pair could still trade, and
\* every order is filled by what it has less (onebook: "picks the best
\* compatible ask for the best bid on every iteration").
NobodyTradedThrough ==
    /\ \A i \in Trading : left[i] >= 0 /\ left[i] + FilledOf(i) = Order(i).amount
    /\ at \in {"compile", "done"} =>
         \A k \in DOMAIN fills :
            LET f == fills[k] IN
            /\ f.claim \in Order(f.buyer).claims /\ f.price <= Order(f.buyer).limit
            /\ \A b \in Bids : left[b] > 0 /\ AheadBid(b, f.buyer) => ~Crosses(b, f.seller)
            /\ \A s \in Asks : left[s] > 0 /\ AheadAsk(s, f.seller) => ~Crosses(f.buyer, s)
=============================================================================
