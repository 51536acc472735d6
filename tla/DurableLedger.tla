---------------------------- MODULE DurableLedger ----------------------------
(***************************************************************************)
(* What the execution journal promises about the state that survives a     *)
(* power loss: an order once recorded is never forgotten and only advances *)
(* along its lifecycle; live reservations never overlap, a signature never *)
(* serves two orders, and a plan only ever holds its reconciled prefix and *)
(* one more step.  How many records one flush makes durable is left open.  *)
(***************************************************************************)
EXTENDS OrderLifecycle

VARIABLE ledger         \* [Intent -> entry or Absent], the durable entries

Consistent(E) ==
    /\ Exclusive(E)
    /\ SignatureUnique(E)
    /\ PlansCoherent(E)
    /\ Cardinality(Recorded(E)) <= Capacity

LedgerInit == ledger = [i \in Intent |-> Absent]

\* One flush, or one crash that keeps a prefix of an unacknowledged append.
Advance ==
    /\ \A i \in Intent : Later(ledger[i], ledger'[i])
    /\ DOMAIN ledger' = Intent
    /\ Consistent(ledger')

LedgerSpec == LedgerInit /\ [][Advance]_ledger
=============================================================================
