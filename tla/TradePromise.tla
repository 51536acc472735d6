---------------------------- MODULE TradePromise ----------------------------
(***************************************************************************)
(* What the settlement program promises to the wallet that signed a graph: *)
(* a graph settles at most once, at its own sequence number; when it does, *)
(* the wallet gives exactly the signed input, receives at least the signed *)
(* minimum, every other token account keeps its balance, and no account is *)
(* left with an authority the wallet did not have.                         *)
(***************************************************************************)
EXTENDS Integers

CONSTANTS
    Token,          \* the wallet's token accounts
    Graphs,         \* the graphs the wallet signed
    NoNonce         \* the nonce account does not exist

VARIABLES
    wallet,         \* [Token -> Nat]: the wallet's balances
    tainted,        \* token accounts with a delegate or another authority
    nonce           \* the next sequence number, or NoNonce

Source(g) == g.assets[1]
Sink(g)   == g.assets[g.count]
Named(g)  == {g.assets[i] : i \in 1..g.count}

PromiseInit ==
    /\ wallet \in [Token -> Nat]
    /\ tainted = {}
    /\ nonce = NoNonce

OpenNonce ==
    /\ nonce = NoNonce
    /\ nonce' = 0
    /\ UNCHANGED <<wallet, tainted>>

Trade(g) ==
    /\ nonce = g.sequence
    /\ nonce' = nonce + 1
    /\ wallet'[Source(g)] = wallet[Source(g)] - g.input
    /\ wallet'[Sink(g)] >= wallet[Sink(g)] + g.minOut
    /\ \A t \in Token \ {Source(g), Sink(g)} : wallet'[t] = wallet[t]
    /\ UNCHANGED tainted

PromiseNext == OpenNonce \/ \E g \in Graphs : Trade(g)

PromiseSpec == PromiseInit /\ [][PromiseNext]_<<wallet, tainted, nonce>>
=============================================================================
