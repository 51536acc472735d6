--------------------------- MODULE GraphExecution ---------------------------
(***************************************************************************)
(* Execution of one signed graph by the settlement program                 *)
(* (programs/stocklana-settle/src/graph.rs): preflight, one venue call per *)
(* leg with the wallet's balances checked after each, and the final        *)
(* conditions, inside a transaction that commits whole or leaves nothing.  *)
(*                                                                         *)
(* A venue is not trusted: it is called with the wallet's signature, so it *)
(* may leave any balance and any authority in every wallet account that it *)
(* is passed.  What protects the wallet is what the program checks.        *)
(*                                                                         *)
(* Simplifications.                                                        *)
(*  - Account identities (programs, pools, mints) are right; the accounts  *)
(*    of a transaction are the wallet's token accounts it names, and the   *)
(*    others of the wallet it carries writable.                            *)
(*  - The on-chain allocation of a reflow graph is any choice within what  *)
(*    the candidates may still spend.                                      *)
(***************************************************************************)
EXTENDS Integers, FiniteSets

CONSTANTS
    Token,          \* the wallet's token accounts
    Graphs,         \* the graphs the wallet signed
    NoNonce,        \* the nonce account does not exist
    NoTx,           \* no transaction is running
    Start,          \* the wallet's balances to begin with
    MaxBalance,     \* bound: balances a venue may leave
    MaxSlot         \* bound: slots 0..MaxSlot

MaxLegs == 4            \* calls of one graph
MaxCandidates == 8      \* legs a reflow graph chooses from
Unlimited == 1000000    \* the budget u64::MAX

LegType == [from : 1..5, to : 1..5, budget : Nat \ {0}, book : BOOLEAN]

\* A decoded graph: assets in topological order, legs between them.
WellFormed(g) ==
    /\ g.count \in 2..5
    /\ g.assets \in [1..g.count -> Token]
    /\ g.input \in Nat \ {0}
    /\ g.minOut \in Nat \ {0}
    /\ g.sequence \in Nat
    /\ g.deadline \in Nat
    /\ g.reflow \in BOOLEAN
    /\ g.legCount \in 1..(IF g.reflow THEN MaxCandidates ELSE MaxLegs)
    /\ DOMAIN g.legs = 1..g.legCount
    /\ \A l \in 1..g.legCount :
          /\ g.legs[l] \in LegType
          /\ g.legs[l].from < g.legs[l].to
          /\ g.legs[l].to <= g.count
    /\ g.seed \in Nat
    /\ g.seed < g.input
    /\ g.seed <= g.legs[1].budget
    /\ g.seed # 0 => g.reflow
    /\ g.others \subseteq Token

ASSUME GraphAssumption ==
    /\ \A g \in Graphs : WellFormed(g)
    /\ NoNonce \notin Nat
    /\ Start \subseteq [Token -> Nat]
    /\ MaxBalance \in Nat
    /\ MaxSlot \in Nat

VARIABLES
    wallet,         \* [Token -> Nat]: committed balances
    tainted,        \* accounts with a delegate or another authority
    nonce,          \* the next sequence number, or NoNonce
    slot,           \* the clock
    tx              \* the running transaction, or NoTx

vars == <<wallet, tainted, nonce, slot, tx>>

Source(g) == g.assets[1]
Sink(g)   == g.assets[g.count]
Named(g)  == {g.assets[i] : i \in 1..g.count}
From(g, l) == g.assets[g.legs[l].from]
To(g, l)   == g.assets[g.legs[l].to]

\* What the checks of a token account accept: no delegate, no close
\* authority, the wallet as owner.
Sound(t) == t \notin tainted

\* mutant of Preflight: the wallet's other accounts are let through.
PreflightNamedOnly(g) ==
    /\ nonce = g.sequence
    /\ slot <= g.deadline
    /\ \A i, j \in 1..g.count : i # j => g.assets[i] # g.assets[j]
    /\ \A t \in Named(g) : Sound(t)
    /\ wallet[Source(g)] >= g.input

Preflight(g) ==
    /\ nonce = g.sequence
    /\ slot <= g.deadline
    /\ \A i, j \in 1..g.count : i # j => g.assets[i] # g.assets[j]
    /\ \A t \in Named(g) : Sound(t)
    /\ wallet[Source(g)] >= g.input
    /\ g.others \subseteq Named(g)

Begin(g) ==
    /\ tx = NoTx
    /\ Preflight(g)
    /\ tx' = [graph |-> g, current |-> wallet, tainted |-> {}, turn |-> 1,
              executed |-> 0, used |-> [l \in 1..MaxCandidates |-> 0]]
    /\ UNCHANGED <<wallet, tainted, nonce, slot>>

\* Balances when execution starts are the committed ones.
Spent == wallet[Source(tx.graph)] - tx.current[Source(tx.graph)]
Remaining == tx.graph.input - Spent

Turns == IF tx.graph.reflow THEN MaxLegs ELSE tx.graph.legCount

Least(S) == CHOOSE x \in S : \A y \in S : x <= y

\* The source is capped by the signed input, another asset by what earlier
\* legs produced.
Available(l) ==
    IF tx.graph.legs[l].from = 1 THEN Remaining
    ELSE tx.current[From(tx.graph, l)] - wallet[From(tx.graph, l)]

Budget(l, selected) == Least({Available(l), tx.graph.legs[l].budget, selected})

\* The allocation's next call: it quotes no candidate beyond its budget less
\* what it used, and the last call takes all that remains.
Quotable(l) == tx.graph.legs[l].budget - tx.used[l]

Selections ==
    IF ~tx.graph.reflow THEN {<<tx.turn, Unlimited>>}
    ELSE IF tx.turn = 1 /\ tx.graph.seed # 0 THEN {<<1, tx.graph.seed>>}
    ELSE {c \in (1..tx.graph.legCount) \X (1..Remaining) :
            /\ c[2] <= Quotable(c[1])
            /\ tx.executed + 1 = MaxLegs => c[2] = Remaining}

\* A turn is left without a call when there is nothing to spend, or when the
\* order book quotes nothing.
Skip ==
    /\ tx # NoTx
    /\ tx.turn <= Turns
    /\ tx.graph.reflow => Remaining > 0
    /\ \E s \in Selections :
          \/ Budget(s[1], s[2]) = 0
          \/ tx.graph.legs[s[1]].book
    /\ tx' = [tx EXCEPT !.turn = @ + 1]
    /\ UNCHANGED <<wallet, tainted, nonce, slot>>

\* The balance checks after a call with the given budget.
Accepts(l, budget, after) ==
    LET g == tx.graph
        spent == tx.current[From(g, l)] - after[From(g, l)]
    IN  /\ spent > 0
        /\ spent <= budget
        /\ after[To(g, l)] > tx.current[To(g, l)]
        /\ \A t \in Named(g) \ {From(g, l), To(g, l)} : after[t] = tx.current[t]

Touchable(g) == Named(g) \cup g.others

\* The balances after a venue has left the ones of change.
After(change) ==
    [t \in Token |-> IF t \in Touchable(tx.graph) THEN change[t] ELSE tx.current[t]]

Call ==
    /\ tx # NoTx
    /\ tx.turn <= Turns
    /\ tx.graph.reflow => Remaining > 0
    /\ \E s \in Selections :
       \E change \in [Touchable(tx.graph) -> 0..MaxBalance] :
       \E taken \in SUBSET Touchable(tx.graph) :
          LET l == s[1]
              budget == Budget(l, s[2])
              after == After(change)
          IN  /\ budget > 0
              /\ Accepts(l, budget, after)
              /\ tx' = [tx EXCEPT
                    !.current = after,
                    !.tainted = taken,
                    !.turn = @ + 1,
                    !.executed = @ + 1,
                    !.used[l] = @ + (tx.current[From(tx.graph, l)]
                                     - after[From(tx.graph, l)])]
    /\ UNCHANGED <<wallet, tainted, nonce, slot>>

Finished == tx.turn > Turns \/ (tx.graph.reflow /\ Remaining = 0)

\* mutant of FinalChecks: accounts are not inspected again.
FinalBalances ==
    LET g == tx.graph IN
    /\ Spent = g.input
    /\ tx.current[Sink(g)] - wallet[Sink(g)] >= g.minOut
    /\ \A i \in 2..(g.count - 1) : tx.current[g.assets[i]] = wallet[g.assets[i]]

FinalChecks ==
    LET g == tx.graph IN
    /\ Spent = g.input
    /\ tx.current[Sink(g)] - wallet[Sink(g)] >= g.minOut
    /\ \A i \in 2..(g.count - 1) : tx.current[g.assets[i]] = wallet[g.assets[i]]
    /\ \A t \in Named(g) : t \notin tx.tainted

\* The transaction commits: balances, authorities and the sequence number.
Settle ==
    /\ tx # NoTx
    /\ Finished
    /\ FinalChecks
    /\ wallet' = tx.current
    /\ tainted' = tainted \cup tx.tainted
    /\ nonce' = tx.graph.sequence + 1
    /\ tx' = NoTx
    /\ UNCHANGED slot

\* A failed check or a failed call takes every earlier call back.
Abort ==
    /\ tx # NoTx
    /\ tx' = NoTx
    /\ UNCHANGED <<wallet, tainted, nonce, slot>>

\* Opcode 0: the nonce account is created once.
Initialize ==
    /\ tx = NoTx
    /\ nonce = NoNonce
    /\ nonce' = 0
    /\ UNCHANGED <<wallet, tainted, slot, tx>>

\* A graph that fails its preflight changes nothing.
Refuse(g) ==
    /\ tx = NoTx
    /\ ~Preflight(g)
    /\ UNCHANGED vars

Tick ==
    /\ tx = NoTx
    /\ slot < MaxSlot
    /\ slot' = slot + 1
    /\ UNCHANGED <<wallet, tainted, nonce, tx>>

Init ==
    /\ wallet \in Start
    /\ tainted = {}
    /\ nonce = NoNonce
    /\ slot = 0
    /\ tx = NoTx

Next ==
    \/ \E g \in Graphs : Begin(g) \/ Refuse(g)
    \/ Skip
    \/ Call
    \/ Settle
    \/ Abort
    \/ Initialize
    \/ Tick

Spec == Init /\ [][Next]_vars
-----------------------------------------------------------------------------
(***************************************************************************)
(* Properties                                                              *)
(***************************************************************************)

Running ==
    [graph : Graphs, current : [Token -> Nat], tainted : SUBSET Token,
     turn : Nat \ {0}, executed : 0..MaxLegs, used : [1..MaxCandidates -> Nat]]

\* Every graph ends within the four calls that its receipt has room for.
TypeOK ==
    /\ wallet \in [Token -> Nat]
    /\ tainted \subseteq Token
    /\ nonce \in Nat \cup {NoNonce}
    /\ slot \in Nat
    /\ tx \in Running \cup {NoTx}

\* At no point of a graph has a venue taken more of the source than the
\* wallet signed, or a unit that the wallet held of another asset before.
KeepsInventory ==
    tx # NoTx =>
        /\ Spent <= tx.graph.input
        /\ \A i \in 2..tx.graph.count :
              tx.current[tx.graph.assets[i]] >= wallet[tx.graph.assets[i]]

\* A candidate that the allocation calls several times never spends more
\* than the budget signed for it.
CandidateWithinBudget ==
    tx # NoTx =>
        \A l \in 1..tx.graph.legCount : tx.used[l] <= tx.graph.legs[l].budget

\* A venue that takes an authority over an account does not keep it.
NoAuthorityLeft == tainted = {}

Promise == INSTANCE TradePromise

\* Execution implements the promise: one whole trade, or nothing at all.
ImplementsTradePromise == Promise!PromiseSpec

=============================================================================
