------------------------------- MODULE MCService -------------------------------
(***************************************************************************)
(* Small instances of what the service and the kernel's admission lane do  *)
(* with requests, of the sender that carries authorized orders to the      *)
(* chain, of the budget that their reads are paid from, and of the plan    *)
(* gate.  The parts do not share state: a behaviour is one of any of them, *)
(* and `part` says of which.                                               *)
(*                                                                         *)
(* The service is there twice: one quote while the market moves, and two   *)
(* quotes that compete for a place in a market that is published once.     *)
(***************************************************************************)
EXTENDS AdmissionLane, QuoteService, OrderSender, ProviderBudget, FairExecution, TLC

CONSTANTS ann, bob, x, y, a, b, s1, s2, r1, w1, w2

VARIABLE part

Crowded == INSTANCE QuoteService
           WITH MaxIssued <- 2, MaxBankSlot <- 1, MaxClock <- 1, MaxWorth <- 1, MaxSlip <- 0

\* Three groups; sources 1, 2 and 3 are of one each, and 4 is of the third.
Says(s, n, at, from, to) ==
    [source |-> s, sequence |-> n, time |-> at, expires |-> 3, low |-> from, high |-> to]
MCObservations ==
    {Says(1, 1, 1, 4, 6), Says(1, 2, 2, 5, 7), Says(2, 1, 1, 5, 5), Says(2, 2, 2, 5, 8),
     Says(3, 1, 1, 2, 3), Says(3, 1, 1, 6, 8), Says(4, 1, 1, 4, 4)}
MCContexts == {[time |-> 1, expires |-> 2, open |-> TRUE, halted |-> FALSE]}
MCIntents == {[input |-> 10, floor |-> 2, deadline |-> 2, closed |-> FALSE]}
MCMessages == {[floor |-> n, deadline |-> 2, closed |-> FALSE] : n \in {2, 8}}

MCGroupOf == [s \in 1..4 |-> IF s = 4 THEN 3 ELSE s]

ASSUME ServiceAssumptions ==
    ServiceAssumption /\ Crowded!ServiceAssumption /\ BudgetAssumption /\ PolicyAssumption

Ask(owner, nonce, reads, writes, deadline) ==
    [owner |-> owner, nonce |-> nonce, reads |-> reads, writes |-> writes,
     deadline |-> deadline]

\* A request and its retry with a later deadline, a reader in its way, and
\* requests that conflict with nobody.
MCRequests ==
    {Ask(ann, 1, {}, {x}, 0), Ask(ann, 1, {}, {x}, 1), Ask(ann, 2, {}, {}, 0),
     Ask(ann, 3, {}, {}, 1), Ask(bob, 1, {x}, {y}, 1), Ask(bob, 2, {}, {}, 0)}

\* Two orders that reserve the same resource; the wire of a expires first.
\* A driver may send a as well.
MCSigOf == a :> s1 @@ b :> s2
MCResOf == a :> {r1} @@ b :> {r1}
MCStocks == [p \in Plan |-> 2]
MCTranches == a :> NoTranche @@ b :> NoTranche
MCLastValid == a :> 0 @@ b :> 1

ASSUME SenderAssumption

\* Threads and processes are alike.
Symmetry == Permutations(Workers) \cup Permutations(Process) \cup Permutations(Gates)

laneVars == vars

ServiceInit ==
    /\ part \in {"lane", "moving", "crowded", "sender", "budget", "gate"}
    /\ Init /\ QuoteInit /\ SenderInit /\ BudgetInit /\ GateInit

ServiceNext ==
    /\ UNCHANGED part
    /\ \/ part = "lane" /\ Next /\ UNCHANGED <<quoteVars, senderVars, budgetVars, gateVars>>
       \/ part = "moving" /\ QuoteNext /\ UNCHANGED <<laneVars, senderVars, budgetVars, gateVars>>
       \/ part = "crowded" /\ Crowded!QuoteNext
            /\ UNCHANGED <<laneVars, senderVars, budgetVars, gateVars>>
       \/ part = "sender" /\ SenderNext /\ UNCHANGED <<laneVars, quoteVars, budgetVars, gateVars>>
       \/ part = "budget" /\ BudgetNext /\ UNCHANGED <<laneVars, quoteVars, senderVars, gateVars>>
       \/ part = "gate" /\ GateNext /\ UNCHANGED <<laneVars, quoteVars, senderVars, budgetVars>>

ServiceSpec ==
    ServiceInit /\ [][ServiceNext]_<<part, laneVars, quoteVars, senderVars, budgetVars, gateVars>>
=============================================================================
