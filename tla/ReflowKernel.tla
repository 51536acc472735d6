---------------------------- MODULE ReflowKernel ----------------------------
(***************************************************************************)
(* The kernel's executor: read the venues, compile them, search for a      *)
(* plan, invoke ONE venue of the plan, observe the balances, and plan      *)
(* again for what is left.  A venue may fill only a part of what it was    *)
(* asked, or do nothing; an error of a venue aborts everything.  The host  *)
(* stages the whole execution and keeps it only when it succeeded.         *)
(*                                                                         *)
(* A run starts from one of the Jobs: the venues as the host holds them,   *)
(* the intent and the limits.  Only the venue that was invoked changes.    *)
(* The work meter may run out whenever it is charged.                      *)
(***************************************************************************)
EXTENDS MarginalCurves

CONSTANTS
    Jobs,       \* [venues, amount, minOut, deadline, maxAge, legs, reflows]
    MaxCap      \* settlement_caps: bounds what a venue keeps back

\* A venue that compile refuses ends the execution with its error.
IsTask(j) ==
    /\ Len(j.venues) \in Nat \ {0} /\ DOMAIN j.venues = 1..Len(j.venues)
    /\ \A i \in DOMAIN j.venues :
         j.venues[i].capacity \in Nat /\ j.venues[i].expires \in Nat /\ ValidModel(j.venues[i])
    /\ j.amount \in Nat \ {0} /\ j.legs \in Nat /\ j.reflows \in Nat
ASSUME TaskAssumption == MaxCap \in Nat /\ \A j \in Jobs : IsTask(j)

VARIABLES
    task,       \* the job
    kept,       \* what the host holds: balances and venues
    staged,     \* the same inside the execution
    run         \* the executor's own state

kernelVars == <<task, kept, staged, run>>

Venues == DOMAIN task.venues
Resources(used) == UNION {task.venues[i].resources : i \in used}

\* A host with just the input; nothing compiled, nothing used.
Fresh(j) == [in |-> j.amount, out |-> 0, venues |-> j.venues]
Idle(j) ==
    [at |-> "start", left |-> j.amount, used |-> <<>>, reflows |-> 0, full |-> TRUE,
     seen |-> j.venues, curves |-> [i \in DOMAIN j.venues |-> NoCurve],
     compiled |-> {}, plan |-> NoPlan, error |-> "none"]

KernelInit ==
    /\ task \in Jobs
    /\ kept = Fresh(task)
    /\ staged = Fresh(task)
    /\ run = Idle(task)

\* An error leaves the host as it was.
Fail(why) ==
    /\ run' = [run EXCEPT !.at = "failed", !.error = why]
    /\ staged' = kept
    /\ UNCHANGED <<task, kept>>

\* The checks before the first reading.
Admitted ==
    /\ task.legs > 0
    /\ task.venues[1].slot <= task.deadline
    /\ \A i, j \in Venues : i # j => task.venues[i].pool # task.venues[j].pool

\* The candidates that are skipped before a call.
Usable(i) ==
    LET v == staged.venues[i] IN
    /\ i \notin Range(run.used)
    /\ v.resources \cap Resources(Range(run.used)) = {}
    /\ v.enabled /\ v.capacity > 0 /\ v.expires >= task.now
    /\ v.slot <= task.now /\ task.now - v.slot <= task.maxAge

\* A curve is compiled again only when its venue changed.
Dirty(i) == run.curves[i] = NoCurve \/ run.seen[i] # staged.venues[i]
CurvesNow ==
    [i \in Venues |-> IF Usable(i) /\ Dirty(i) THEN Compile(staged.venues[i], task.amount)
                      ELSE run.curves[i]]
LegBudget(reflows) ==
    Lesser(task.legs - Len(run.used), task.reflows - reflows + 1)

\* The search's answer is what is invoked next.
Adopt(usable, compiled, curves, reflows, plan) ==
    IF plan = NoPlan THEN Fail("capacity")
    ELSE /\ run' = [run EXCEPT !.at = "invoke", !.reflows = reflows, !.plan = plan,
                      !.compiled = compiled, !.curves = curves,
                      !.seen = [i \in Venues |-> IF i \in usable THEN staged.venues[i]
                                                 ELSE run.seen[i]]]
         /\ UNCHANGED <<task, kept, staged>>
SearchNow(usable, compiled, curves, reflows) ==
    Adopt(usable, compiled, curves, reflows,
          Search(staged.venues, curves, Tape(curves, compiled), run.left, usable,
                 LegBudget(reflows)))

\* Read, compile what changed, and search; the tape is merged anew when a
\* curve was.
Plan ==
    LET usable == {i \in Venues : Usable(i)}
        reflows == run.reflows + IF run.used = <<>> THEN 0 ELSE 1
        dirty == run.compiled = {} \/ \E i \in usable : Dirty(i)
        compiled == IF dirty THEN usable ELSE run.compiled
    IN  /\ run.at \in {"start", "next"}
        /\ IF ~Admitted \/ Len(run.used) >= task.legs \/ reflows > task.reflows
           THEN Fail("bounds")
           ELSE IF usable = {} \/ ~usable \subseteq compiled THEN Fail("capacity")
           ELSE SearchNow(usable, compiled, CurvesNow, reflows)

\* The venue of the plan whose quote expires first.
Chosen ==
    LET planned == {i \in Venues : run.plan.inputs[i] > 0} IN
    CHOOSE i \in planned : \A j \in planned :
        \/ run.seen[i].expires < run.seen[j].expires
        \/ run.seen[i].expires = run.seen[j].expires /\ i <= j

\* What is left of a venue after it took `spent` for `got`.
Consumed(v, spent, got) ==
    LET levels == v.model.levels
        Rest(k) == Less(levels[k].cap, Less(spent, CapOf(levels, k - 1)))
        cut == [k \in DOMAIN levels |-> [levels[k] EXCEPT !.cap = Rest(k)]]
    IN  [v EXCEPT !.capacity = @ - spent,
                  !.model = IF @.kind = "book"
                            THEN [@ EXCEPT !.levels = SelectSeq(cut, LAMBDA l : l.cap > 0)]
                            ELSE [@ EXCEPT !.rin = @ + spent, !.rout = @ - got]]

\* The venue fills at most its settlement cap, and the balances show it.
Invoke ==
    /\ run.at = "invoke"
    /\ \E cap \in 0..MaxCap :
         LET i == Chosen
             request == run.plan.inputs[i]
             spent == Lesser(request, cap)
             got == ExactQuote(staged.venues[i], spent)
         IN  IF (spent = 0) # (got = 0) THEN Fail("balance")
             ELSE /\ staged' = [in |-> staged.in - spent, out |-> staged.out + got,
                                venues |-> [staged.venues EXCEPT ![i] = Consumed(@, spent, got)]]
                  /\ run' = [run EXCEPT !.left = @ - spent, !.used = Append(@, i),
                               !.full = @ /\ spent = request,
                               !.at = IF run.left = spent THEN "settle" ELSE "next"]
                  /\ UNCHANGED <<task, kept>>

\* A venue's own error is never caught.
FatalCall == run.at = "invoke" /\ Fail("venue")

\* The meter is charged while planning.
OutOfWork == run.at \in {"start", "next"} /\ Fail("work")

\* The whole input was spent; the floor decides.
Conclude ==
    /\ run.at = "settle"
    /\ IF staged.out < task.minOut THEN Fail("floor")
       ELSE /\ kept' = staged
            /\ run' = [run EXCEPT !.at = "done"]
            /\ UNCHANGED <<task, staged>>

Over == run.at \in {"done", "failed"} /\ UNCHANGED kernelVars

KernelNext == Plan \/ Invoke \/ FatalCall \/ OutOfWork \/ Conclude \/ Over

KernelSpec == KernelInit /\ [][KernelNext]_kernelVars

-----------------------------------------------------------------------------
\* Reading a subset off the shared tape is the same as pouring over that
\* subset alone (tape.rs: "the same tape serves every subset and every
\* residual"), for every subset and every amount that may be left.
TapeServesEverySubset ==
    run.at = "invoke" =>
        LET owner == Tape(run.curves, run.compiled) IN
        \A mask \in (SUBSET run.compiled) \ {{}}, x \in 1..run.left :
            Allocate(run.curves, owner, x, mask, FALSE) = Waterfill(run.curves, x, mask)

\* Every way to split the residual, at most that many venues.
Splits(mask, x) ==
    {f \in [Venues -> 0..x] :
        /\ Total(f) = x
        /\ \A i \in Venues : f[i] > 0 => i \in mask /\ f[i] <= staged.venues[i].capacity}
Outcome(f) ==
    Total([i \in Venues |-> IF f[i] = 0 THEN 0 ELSE ExactQuote(staged.venues[i], f[i])])

\* The certificate really bounds what any split of the residual could get,
\* whatever the compiled chords rounded away, and the plan it is reported
\* with is one of these splits, over venues that share nothing.
CertificateSound ==
    run.at = "invoke" =>
        LET planned == {i \in Venues : run.plan.inputs[i] > 0}
            usable == {i \in Venues : Usable(i)}
        IN  /\ \A f \in Splits(usable, run.left) : Outcome(f) <= run.plan.upper
            /\ run.plan.inputs \in Splits(usable, run.left)
            /\ Cardinality(planned) <= LegBudget(run.reflows)
            /\ Independent(staged.venues, planned)
            /\ run.plan.output = Outcome(run.plan.inputs)

\* What the search reports is right, however it got there: the tape gives
\* what a search of each subset alone would, and no split of the residual
\* gets more than the certificate says.
PlanIsCertified == TapeServesEverySubset /\ CertificateSound

\* While every venue fills what it was asked, the legs and reflows that are
\* left are always enough for the rest: only a venue's error, the meter or
\* the floor can stop an execution whose first plan was found.
FullFillsFit ==
    run.error \in {"bounds", "capacity"} /\ run.used # <<>> => ~run.full

\* The kernel's plan is one of the possible ones, its certificate bounds them
\* all, and full fills always fit in what is left of the limits.
KernelPlanHolds == PlanIsCertified /\ FullFillsFit
=============================================================================
