------------------------- MODULE MCExecutionJournal -------------------------
(***************************************************************************)
(* A small instance of the execution journal.                              *)
(***************************************************************************)
EXTENDS ExecutionJournal, TLC

CONSTANTS a, b, c, d, s1, s2, s3, r1, r2, p1

\* An order outside any plan (a) and three orders of one plan of four stocks:
\* the first step cut to one stock (b) or fixed (c), and the step after b (d).
\* a and b compete for r1, and a and c carry the same signed transaction.
MCSigOf == a :> s1 @@ b :> s2 @@ c :> s1 @@ d :> s3
MCResOf == a :> {r1} @@ b :> {r1, r2} @@ c :> {} @@ d :> {}
MCStocks == p1 :> 4
MCTranches ==
    a :> NoTranche @@
    b :> [plan |-> p1, index |-> 0, range |-> <<0, 1>>] @@
    c :> [plan |-> p1, index |-> 0, range |-> Fixed] @@
    d :> [plan |-> p1, index |-> 1, range |-> <<1, 4>>]
=============================================================================
