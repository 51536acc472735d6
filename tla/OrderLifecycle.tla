--------------------------- MODULE OrderLifecycle ---------------------------
(***************************************************************************)
(* The durable life of one order intent (host/src/journal.rs) and the      *)
(* plans whose steps orders may be (host/src/investment.rs).               *)
(*                                                                         *)
(* A plan buys its stocks 0..n-1 in order, split into tranches. Each       *)
(* tranche is one order of the journal: it names its step and the          *)
(* half-open range of stocks it buys. The journal's entries are the only   *)
(* record of a plan's progress.                                            *)
(*                                                                         *)
(* An order has phases, transitions that the journal accepts, and          *)
(* resources that it reserves while it may still have an effect. The       *)
(* signed wire, its message hash, the quote and the expected receipt are   *)
(* fixed when the order is authorized, so SigOf, ResOf and TrancheOf are   *)
(* constants of an intent.                                                 *)
(*                                                                         *)
(* Amounts, owners and hashes are abstracted: a tranche is its plan, its   *)
(* index and its range. Where a plan is asked about, an entry is given by  *)
(* its phase alone (Absent when the journal does not hold the intent).     *)
(***************************************************************************)
EXTENDS Integers, Sequences, FiniteSets

CONSTANTS
    Intent,         \* the order ids
    Plan,           \* the plan ids
    Stocks,         \* [Plan -> Nat]: the number of allocations of a plan
    TrancheOf       \* [Intent -> the tranche the order carries, or NoTranche]

MaxAtomicStocks == 3

NoTranche == [plan |-> "none", index |-> 0, range |-> <<>>]

\* stock_range = None: the order uses the plan's fixed partition.
Fixed == <<>>

Tranche == [plan : Plan, index : Nat, range : {Fixed} \cup (Nat \X Nat)]

\* An order id is a hash of 32 bytes, so there are finitely many.
ASSUME InvestmentAssumption ==
    /\ IsFiniteSet(Intent)
    /\ NoTranche.plan \notin Plan
    /\ Stocks \in [Plan -> Nat]
    /\ TrancheOf \in [Intent -> Tranche \cup {NoTranche}]

GroupSize(left) == IF left = 4 THEN 2 ELSE IF left < 3 THEN left ELSE 3

\* The fixed partition of n stocks, as a sequence of <<start, end>> pairs.
Ranges(n) ==
    LET from[start \in 0..n] ==
            IF start = n THEN << >>
            ELSE LET end == start + GroupSize(n - start)
                 IN  << <<start, end>> >> \o from[end]
    IN  from[0]

\* The checks on an explicit range; a fixed one only needs to exist.
ValidRange(t) ==
    IF t.range = Fixed
    THEN t.index < Len(Ranges(Stocks[t.plan]))
    ELSE /\ t.range[1] < t.range[2]
         /\ t.range[2] <= Stocks[t.plan]
         /\ t.range[2] - t.range[1] <= MaxAtomicStocks
         /\ t.index <= t.range[1]
         /\ t.range[1] <= t.index * MaxAtomicStocks

RangeOf(t) ==
    IF t.range = Fixed THEN Ranges(Stocks[t.plan])[t.index + 1] ELSE t.range

StocksIn(range) == range[1] .. range[2] - 1

-----------------------------------------------------------------------------

\* The intents of plan p that count: recorded and not failed.
Live(p, phase) ==
    {i \in Intent : /\ TrancheOf[i].plan = p
                    /\ phase[i] \notin {"Absent", "Failed"}}

\* The walk over the live tranches in index order accepts them: no two share
\* an index, they are the indices 0..k-1, each starts where the previous one
\* ends, and only the last may be unreconciled.
Coherent(p, phase) ==
    LET live == Live(p, phase)
        k    == Cardinality(live)
    IN  /\ \A i \in Intent : /\ TrancheOf[i].plan = p
                             /\ phase[i] # "Absent"
                             => ValidRange(TrancheOf[i])
        /\ {TrancheOf[i].index : i \in live} = 0 .. k - 1
        /\ \A i \in live :
              /\ TrancheOf[i].index = 0 => RangeOf(TrancheOf[i])[1] = 0
              /\ \A j \in live :
                    TrancheOf[j].index = TrancheOf[i].index + 1 =>
                        /\ phase[i] = "Reconciled"
                        /\ RangeOf(TrancheOf[j])[1] = RangeOf(TrancheOf[i])[2]

\* The reconciled prefix: how many steps are done and the next stock to buy.
Done(p, phase) == {i \in Live(p, phase) : phase[i] = "Reconciled"}

NextStock(p, phase) ==
    LET done == Done(p, phase)
    IN  IF done = {} THEN 0
        ELSE LET last == CHOOSE i \in done :
                            \A j \in done : TrancheOf[j].index <= TrancheOf[i].index
             IN  RangeOf(TrancheOf[last])[2]

Progress(p, phase) ==
    IF Done(p, phase) # Live(p, phase) THEN "Pending"
    ELSE IF NextStock(p, phase) = Stocks[p] THEN "Complete" ELSE "Ready"

\* Mutant: the admission rule forgets that a step may still be pending.
AdmissibleWhilePending(i, phase) ==
    LET t == TrancheOf[i]
    IN  t # NoTranche =>
          /\ ValidRange(t)
          /\ t.index = Cardinality(Done(t.plan, phase))
          /\ RangeOf(t)[1] = NextStock(t.plan, phase)

\* The journal's admission rule for one entry, given every other entry: only
\* the next step of a plan whose earlier steps are all reconciled.
Admissible(i, phase) ==
    LET t == TrancheOf[i]
    IN  t # NoTranche =>
          /\ ValidRange(t)
          /\ Coherent(t.plan, phase)
          /\ Progress(t.plan, phase) = "Ready"
          /\ t.index = Cardinality(Done(t.plan, phase))
          /\ RangeOf(t)[1] = NextStock(t.plan, phase)

\* The stocks that the recorded, unfailed orders of a plan commit to buy.
Bought(p, phase) == UNION {StocksIn(RangeOf(TrancheOf[i])) : i \in Live(p, phase)}

-----------------------------------------------------------------------------
(* Orders.                                                                 *)

CONSTANTS
    Signature,      \* the transaction signatures
    Resource,       \* the writable resources an order reserves
    SigOf,          \* [Intent -> Signature]
    ResOf,          \* [Intent -> SUBSET Resource]
    Capacity        \* the intents the journal retains

ASSUME LifecycleAssumption ==
    /\ SigOf \in [Intent -> Signature]
    /\ ResOf \in [Intent -> SUBSET Resource]
    /\ Capacity \in Nat \ {0}

Phase    == {"Prepared", "Submitted", "Unknown", "Finalized", "Failed", "Reconciled"}
Terminal == {"Failed", "Reconciled"}
Open     == {"Prepared", "Submitted", "Unknown"}

\* Phases whose order still owns its resources.
Holding == Phase \ Terminal

\* An intent the journal does not hold.
Absent == [phase |-> "Absent", attempts |-> 0]
Fresh  == [phase |-> "Prepared", attempts |-> 0]

Entry   == [phase : Phase, attempts : Nat]
Entries == [Intent -> Entry \cup {Absent}]

Recorded(E) == {i \in Intent : E[i].phase # "Absent"}
PhaseOf(E)  == [i \in Intent |-> E[i].phase]

\* The transitions update_batch accepts.
Allowed(from, to) ==
    \/ from \in Open /\ to \in {"Submitted", "Unknown", "Finalized", "Failed"}
    \/ from = "Finalized" /\ to = "Reconciled"

\* b is a or a later state of the same order.
Later(a, b) ==
    \/ a = b
    \/ /\ a.attempts <= b.attempts
       /\ \/ a.phase = "Absent"
          \/ Allowed(a.phase, b.phase)
          \/ a.phase \in Open /\ b.phase = "Reconciled"

\* Two orders that may still take effect never reserve the same resource.
Exclusive(E) ==
    \A i, j \in Intent :
        /\ i # j
        /\ E[i].phase \in Holding
        /\ E[j].phase \in Holding
        => ResOf[i] \cap ResOf[j] = {}

\* One signed transaction belongs to at most one intent, for ever.
SignatureUnique(E) ==
    \A i, j \in Recorded(E) : SigOf[i] = SigOf[j] => i = j

\* Every plan's recorded orders form its reconciled prefix and one more step.
PlansCoherent(E) == \A p \in Plan : Coherent(p, PhaseOf(E))
=============================================================================
