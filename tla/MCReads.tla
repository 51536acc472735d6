-------------------------------- MODULE MCReads --------------------------------
(***************************************************************************)
(* Small instances of what must eventually happen: the threads that keep   *)
(* the banks read (the refresh cycle, its signal and the direct stream)    *)
(* and the sender that learns what became of an order.  They do not share  *)
(* state, so a behaviour is one of any of them; `part` says of which.      *)
(*                                                                         *)
(* The cycle is there twice: with fewer warm places than banks, so that a  *)
(* cold place rotates, and with as many.                                   *)
(***************************************************************************)
EXTENDS DirectStream

CONSTANTS
    Banks, Quoted, MaxBroken, NarrowWarm, WideWarm,
    MaxSlot, MaxNotifiers,
    o, s1, s2, r1, w1, NoIntent

VARIABLES part
VARIABLES bounded, recent, status, step, hot, groups, turn, pending, coldCursor, groupCursor
VARIABLES subscribed, slot, root, changed, notifying, at
VARIABLES ledger, disk, poisoned, job, polled, sent, chain, height

\* An order that is no tranche of a plan (OrderLifecycle).
NoTranche == [plan |-> "none", index |-> 0, range |-> <<>>]

\* One order, whose wire expires in the second block.
Order ==
    INSTANCE OrderSender
    WITH Intent <- {o}, Plan <- {}, Signature <- {s1, s2}, Resource <- {r1},
         SigOf <- [i \in {o} |-> s1], ResOf <- [i \in {o} |-> {r1}],
         Stocks <- [p \in {} |-> 2], TrancheOf <- [i \in {o} |-> NoTranche],
         LastValid <- [i \in {o} |-> 1], Capacity <- 2, Request <- {w1},
         MaxAttempts <- 1, MaxHeight <- 1, Driven <- {}, asked <- polled

Narrow == INSTANCE RefreshCycle WITH Warm <- NarrowWarm
Wide == INSTANCE RefreshCycle WITH Warm <- WideWarm
Signal == INSTANCE SlotSignal

ASSUME ReadsAssumption ==
    /\ Narrow!CycleAssumption /\ Wide!CycleAssumption
    /\ Signal!SignalAssumption /\ StreamAssumption
    /\ Order!SenderAssumption

cycleVars ==
    <<bounded, recent, status, step, hot, groups, turn, pending, coldCursor, groupCursor>>
signalVars == <<subscribed, slot, root, changed, notifying, at>>
orderVars == <<ledger, disk, poisoned, job, polled, sent, chain, height>>
vars == <<part, cycleVars, signalVars, streamVars, orderVars>>

Init ==
    /\ part \in {"narrow", "wide", "signal", "direct", "order"}
    /\ Narrow!Init /\ Signal!Init /\ StreamInit /\ Order!SenderInit
    /\ part \notin {"narrow", "wide"} => ~bounded
    /\ part # "direct" => mode = "primary"

Next ==
    /\ UNCHANGED part
    /\ \/ part = "narrow" /\ Narrow!Next /\ UNCHANGED <<signalVars, streamVars, orderVars>>
       \/ part = "wide" /\ Wide!Next /\ UNCHANGED <<signalVars, streamVars, orderVars>>
       \/ part = "signal" /\ Signal!Next /\ UNCHANGED <<cycleVars, streamVars, orderVars>>
       \/ part = "direct" /\ StreamNext /\ UNCHANGED <<cycleVars, signalVars, orderVars>>
       \/ part = "order" /\ Order!SenderNext /\ UNCHANGED <<cycleVars, signalVars, streamVars>>

\* The fairness of each part, in the behaviours that are its own.
NarrowFairness ==
    /\ WF_cycleVars(part = "narrow" /\ Narrow!Plan) /\ WF_cycleVars(part = "narrow" /\ Narrow!Select)
    /\ WF_cycleVars(part = "narrow" /\ Narrow!Join)
    /\ \A b \in 0..(Banks - 1) : WF_cycleVars(part = "narrow" /\ Narrow!ReadBank(b))

WideFairness ==
    /\ WF_cycleVars(part = "wide" /\ Wide!Plan) /\ WF_cycleVars(part = "wide" /\ Wide!Select)
    /\ WF_cycleVars(part = "wide" /\ Wide!Join)
    /\ \A b \in 0..(Banks - 1) : WF_cycleVars(part = "wide" /\ Wide!ReadBank(b))

SignalFairness ==
    /\ WF_signalVars(part = "signal" /\ Signal!Notify) /\ WF_signalVars(part = "signal" /\ Signal!Observe)
    /\ WF_signalVars(part = "signal" /\ Signal!Enter) /\ WF_signalVars(part = "signal" /\ Signal!Compare)
    /\ WF_signalVars(part = "signal" /\ Signal!Sleep) /\ WF_signalVars(part = "signal" /\ Signal!Timeout)

DirectFairness ==
    /\ WF_streamVars(part = "direct" /\ Connected)
    /\ WF_streamVars(part = "direct" /\ CheckWatch)
    /\ WF_streamVars(part = "direct" /\ ReadFrame)
    /\ WF_streamVars(part = "direct" /\ Disconnect)
    /\ WF_streamVars(part = "direct" /\ Demote) /\ WF_streamVars(part = "direct" /\ Forget)
    /\ WF_streamVars(part = "direct" /\ LoadConnected)
    /\ WF_streamVars(part = "direct" /\ LoadPromoted)
    /\ WF_streamVars(part = "direct" /\ LoadLatest)
    /\ WF_streamVars(part = "direct" /\ (ServeDirect \/ RefuseDirect \/ FallBack))
    /\ WF_streamVars(part = "direct" /\ ReadRpc)

OrderFairness ==
    /\ WF_orderVars(part = "order" /\ Order!HandlerStep)
    /\ WF_orderVars(part = "order" /\ Order!RestartPoisoned)
    /\ SF_orderVars(part = "order" /\ Order!PollOrder(o))
    /\ SF_orderVars(part = "order" /\ Order!TrueAnswer(o))
    /\ SF_orderVars(part = "order" /\ Order!RecordVerdict(o))
    /\ SF_orderVars(part = "order" /\ Order!FetchReceipt(o))

FairSpec ==
    /\ Init /\ [][Next]_vars
    /\ NarrowFairness /\ WideFairness /\ SignalFairness /\ DirectFairness /\ OrderFairness

-----------------------------------------------------------------------------
(* The properties of the parts; ServedOnWatch is that of DirectStream.     *)

\* A hot bank in need of a rotation gets its turn, and while anything is hot
\* every bank is read again and again.  (RefreshCycle)
HotBankGetsItsTurn ==
    /\ part = "narrow" => Narrow!HotBankGetsItsTurn /\ Narrow!EveryBankIsRead
    /\ part = "wide" => Wide!HotBankGetsItsTurn /\ Wide!EveryBankIsRead

\* A signal is followed by a cycle, though its notification may be lost; a
\* direct producer that goes on sending is served from again, and a required
\* reader without its stream has no banks.  (SlotSignal, DirectStream)
NoReaderIsStuck ==
    /\ part = "signal" => Signal!SignalIsSeen
    /\ part = "direct" => DirectRecovers /\ DeadStreamFailsClosed

\* A recorded order whose transaction finalized is learned about.  (OrderSender)
VerdictIsLearned == part = "order" => Order!VerdictIsLearned
=============================================================================
