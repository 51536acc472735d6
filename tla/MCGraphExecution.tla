-------------------------- MODULE MCGraphExecution --------------------------
(***************************************************************************)
(* The two executors: the settlement program's, on a fixed graph over a    *)
(* transit asset, a direct one that carries another account of the wallet, *)
(* and two reflow graphs; and the kernel's, on lists of venues that share  *)
(* resources, expire and are disabled.  They share no state: a behaviour   *)
(* is one of either of them, and `part` says of which.                     *)
(***************************************************************************)
EXTENDS GraphExecution, ReflowKernel

CONSTANTS
    usd, sol, spy, gold

VARIABLE part

Leg(f, t, b, isBook) == [from |-> f, to |-> t, budget |-> b, book |-> isBook]

\* usd -> sol -> spy beside usd -> spy through an order book.
Fixed ==
    [count |-> 3, assets |-> <<usd, sol, spy>>, input |-> 3, minOut |-> 1,
     sequence |-> 0, deadline |-> 0, reflow |-> FALSE, seed |-> 0,
     legCount |-> 3,
     legs |-> <<Leg(1, 2, 2, FALSE), Leg(1, 3, Unlimited, TRUE), Leg(2, 3, Unlimited, FALSE)>>,
     others |-> {}]

Direct(extra) ==
    [count |-> 2, assets |-> <<usd, spy>>, input |-> 2, minOut |-> 1,
     sequence |-> 0, deadline |-> 0, reflow |-> FALSE, seed |-> 0,
     legCount |-> 1, legs |-> <<Leg(1, 2, 2, FALSE)>>, others |-> extra]

\* Two candidates for usd -> spy, the first one seeded or not.
Reflow(n, first) ==
    [count |-> 2, assets |-> <<usd, spy>>, input |-> 5, minOut |-> 2,
     sequence |-> n, deadline |-> 1, reflow |-> TRUE, seed |-> first,
     legCount |-> 2, legs |-> <<Leg(1, 2, 2, FALSE), Leg(1, 2, 5, TRUE)>>,
     others |-> {}]

MCGraphs == {Fixed, Direct({gold}), Reflow(0, 2), Reflow(1, 0)}

MCStart == {[t \in Token |-> CASE t = usd -> 6 [] t = sol -> n [] OTHER -> 1] : n \in 0..1}

-----------------------------------------------------------------------------
(* The kernel: four venues, in lists of two and three, for several amounts *)
(* and limits.                                                             *)

Book(bands) == [kind |-> "book", levels |-> bands, rin |-> 0, rout |-> 0, fee |-> 0]
Product(a, b, taken) == [kind |-> "product", levels |-> <<>>, rin |-> a, rout |-> b, fee |-> taken]
Band(atoms, price) == [cap |-> atoms, rate |-> price]
Venue(p, m, atoms, shared, until) ==
    [pool |-> p, model |-> m, capacity |-> atoms, resources |-> shared, slot |-> 1,
     expires |-> until, enabled |-> TRUE]

Deep == Venue(1, Book(<<Band(2, 8), Band(2, 5)>>), 4, {1}, 2)
Pool == Venue(2, Product(5, 9, 1), 6, {2}, 1)
Thin == Venue(3, Book(<<Band(1, 7), Band(3, 3)>>), 4, {3}, 1)
Twin == Venue(4, Product(8, 6, 0), 5, {2}, 2)

MCVenues ==
    {<<Deep, Pool, Thin>>, <<Pool, Deep, Twin>>, <<Twin, Pool>>,
     <<Thin, [Deep EXCEPT !.enabled = FALSE], Twin>>, <<Deep, Thin>>}
MCJobs ==
    {[venues |-> vs, amount |-> n, minOut |-> 2, deadline |-> 2, maxAge |-> 1, now |-> 1,
      legs |-> l, reflows |-> r] : vs \in MCVenues, n \in {3, 5, 6}, l \in 1..3, r \in 0..2}

\* The part that does not move has one initial state.
ExecutorInit ==
    /\ part \in {"program", "kernel"}
    /\ Init /\ KernelInit
    /\ part = "program" => task = CHOOSE j \in MCJobs : TRUE
    /\ part = "kernel" => wallet = CHOOSE w \in MCStart : TRUE

ExecutorNext ==
    /\ UNCHANGED part
    /\ \/ part = "program" /\ Next /\ UNCHANGED kernelVars
       \/ part = "kernel" /\ KernelNext /\ UNCHANGED vars

ExecutorSpec == ExecutorInit /\ [][ExecutorNext]_<<part, vars, kernelVars>>
=============================================================================
