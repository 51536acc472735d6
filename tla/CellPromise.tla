---------------------------- MODULE CellPromise ----------------------------
(***************************************************************************)
(* What the settlement program promises to the wallets that sign one cell: *)
(* a cell settles whole, at most once and not after its deadline.          *)
(*                                                                         *)
(*  - A party of a crossing gives exactly its input and receives at least  *)
(*    its minimum.                                                         *)
(*  - A seller in a stock cell gives exactly its stock and receives at     *)
(*    least its minimum in cash.                                           *)
(*  - The buyer of a stock cell gives exactly the input it signed, of one  *)
(*    token; receives all that the sellers gave; and gains at least its    *)
(*    floor of economic exposure, in products that were all permitted.     *)
(*  - No other account changes, and none is left with another authority.   *)
(***************************************************************************)
EXTENDS Integers, FiniteSetsExt

CONSTANTS
    Wallet, Token,
    Cells,          \* the cells that their wallets signed
    Rate, RateUnit, \* exposure of RateUnit atoms of a token
    Instrument,     \* the economic instrument of a product
    NoGraph         \* a stock cell without a funding graph

VARIABLES
    balance,        \* [Wallet -> [Token -> Nat]]
    tainted,        \* accounts with a delegate or another authority
    sequence,       \* next sequence number, or an order's revision
    permitted,      \* products whose policy and claim permit trading
    now             \* the clock

ExposureOf(t, atoms) == (atoms * Rate[t]) \div RateUnit

Amounts(record, S) == LET amount(i) == record[i] IN MapThenSumSet(amount, S)

Crossing(c) == c.kind \in {"cross", "flow"}
Parties(c)  == DOMAIN c.parties
Signed(c)   == {c.parties[p].owner : p \in Parties(c)}
Owners(c)   == IF Crossing(c) THEN Signed(c) ELSE Signed(c) \cup {c.buyer}

\* The terms under which a wallet joins a cell.
Terms(c, w) == c.parties[CHOOSE p \in Parties(c) : c.parties[p].owner = w]
SequenceOf(c, w) == IF w \in Signed(c) THEN Terms(c, w).sequence ELSE c.sequence

\* What the buyer of a stock cell gives, and how much of it.
Given(c) == IF c.funding = NoGraph THEN c.cash ELSE c.funding.assets[1]
Gives(c) == IF c.funding = NoGraph THEN c.input ELSE c.funding.input

Gain(w, t) == balance'[w][t] - balance[w][t]

\* A party of a crossing, or a seller.
PartyKept(p) ==
    /\ Gain(p.owner, p.source) = -p.input
    /\ Gain(p.owner, p.sink) >= p.minOut
    /\ \A t \in Token \ {p.source, p.sink} : Gain(p.owner, t) = 0

\* Atoms of a product that the sellers of a cell give.
Sold(c, t) ==
    Amounts([p \in Parties(c) |-> c.parties[p].input], {p \in Parties(c) : c.parties[p].source = t})

BuyerKept(c) ==
    LET gained == [t \in Token |-> ExposureOf(t, Gain(c.buyer, t))]
    IN  /\ Gain(c.buyer, Given(c)) = -Gives(c)
        /\ \A t \in c.products : Gain(c.buyer, t) >= Sold(c, t)
        /\ Amounts(gained, c.products) >= c.floor
        /\ \A t \in Token \ (c.products \cup {Given(c)}) : Gain(c.buyer, t) = 0
        /\ c.products \subseteq permitted
        /\ c.kind = "mesh" => \A s, t \in c.products : Instrument[s] = Instrument[t]

PromiseInit ==
    /\ balance \in [Wallet -> [Token -> Nat]]
    /\ tainted = {}
    /\ sequence \in [Wallet -> Nat]

\* The whole cell.
Trade(c) ==
    /\ now <= c.deadline
    /\ \A w \in Owners(c) : sequence[w] = SequenceOf(c, w)
    /\ sequence' = [w \in Wallet |-> sequence[w] + (IF w \in Owners(c) THEN 1 ELSE 0)]
    /\ \A p \in Parties(c) : PartyKept(c.parties[p])
    /\ ~Crossing(c) => BuyerKept(c)
    /\ \A w \in Wallet \ Owners(c) : balance'[w] = balance[w]
    /\ UNCHANGED <<tainted, permitted, now>>

\* Time passes and issuers publish.
Elapse ==
    /\ now' >= now
    /\ UNCHANGED <<balance, tainted, sequence>>

PromiseNext == Elapse \/ \E c \in Cells : Trade(c)

PromiseSpec ==
    PromiseInit /\ [][PromiseNext]_<<balance, tainted, sequence, permitted, now>>
=============================================================================
