--------------------------- MODULE ProviderBudget ---------------------------
(***************************************************************************)
(* The budget of a hosted reader (host/src/provider.rs, rpc.rs) and the    *)
(* quota file that the processes of one host share (provider_quota.rs).    *)
(*                                                                         *)
(* A process admits a call under its own lock: the budget of its run, the  *)
(* rate window and the cooldown after a refusal, then a reservation in the *)
(* quota file, written and synced before the call is sent.  A permit lives *)
(* until the call returns; what it reserved in the file is never returned. *)
(*                                                                         *)
(* Simplifications.                                                        *)
(*  - The answer's bytes count in units; a request's bytes are one of      *)
(*    Bodies.  Method names and the 1 MiB bound of a request are left out. *)
(*  - A write of the file that does not finish leaves the old record, the  *)
(*    new one, or one whose checksum fails.                                *)
(***************************************************************************)
EXTENDS Integers, FiniteSets

CONSTANTS
    Process,            \* processes with one profile
    Bodies,             \* bytes of a request
    MaxResponse,        \* max_response_bytes
    MaxRequests,        \* max_requests of a run
    MaxTotal,           \* max_total_response_bytes of a run
    MaxInFlight,        \* max_in_flight
    PerSecond,          \* requests_per_second
    QuotaRequests,      \* max_requests of the quota's period
    QuotaBytes,         \* max_reserved_body_bytes of the period
    PeriodEnd,          \* the period is 0..PeriodEnd - 1, in seconds
    Cooldowns,          \* seconds a refusing provider asks for, clamped
    MaxTick,            \* bound: the clocks run from 0 to MaxTick
    MaxStarts,          \* bound: starts of each process
    NoProcess,          \* nobody holds the file's lock
    NoFile,             \* there is no quota file
    Corrupt             \* its checksum fails

Record == [requests : 0..QuotaRequests, bytes : 0..QuotaBytes, last : 0..(PeriodEnd - 1)]

BudgetAssumption ==
    /\ NoProcess \notin Process
    /\ NoFile \notin Record /\ Corrupt \notin Record /\ NoFile # Corrupt
    /\ Bodies \subseteq Nat \ {0}
    /\ Cooldowns \subseteq Nat \ {0}
    /\ MaxResponse \in Nat \ {0} /\ MaxRequests \in Nat \ {0}
    /\ MaxTotal \in Nat /\ MaxTotal >= MaxResponse + 1
    /\ MaxInFlight \in Nat \ {0} /\ PerSecond \in Nat \ {0}
    /\ QuotaRequests \in Nat \ {0} /\ QuotaBytes \in Nat \ {0}
    /\ PeriodEnd \in Nat \ {0}
    /\ MaxTick \in Nat /\ MaxStarts \in Nat

VARIABLES
    tick,       \* the monotonic clock of all processes
    unix,       \* the wall clock, which may be set back
    file,       \* the quota file: a record, NoFile or Corrupt
    holder,     \* the process that holds the file's lock, or NoProcess
    run,        \* [Process -> the state of its run]
    calls,      \* history: requests that were sent to the provider
    traffic     \* history: bytes of requests sent and answers read

budgetVars == <<tick, unix, file, holder, run, calls, traffic>>

\* A permit while its call runs; received and complete write the last two.
Permit == [body : Bodies, answered : BOOLEAN, bytes : 0..(MaxResponse + 1)]

NoUsage == [requests |-> 0, bytes |-> 0, last |-> 0]

\* A run that has not started, or has stopped.
Down == [up |-> FALSE, starts |-> 0, requests |-> 0, inFlight |-> 0, reserved |-> 0,
         responses |-> 0, window |-> 0, recent |-> 0, cooldown |-> 0,
         pending |-> 0, usage |-> NoUsage, permits |-> <<>>]

LivePermits(p) == DOMAIN run[p].permits

\* A number for the next permit.
FreePermit(p) == CHOOSE i \in 1..MaxInFlight : i \notin LivePermits(p)

-----------------------------------------------------------------------------
(* The quota file.                                                         *)

\* check_time.
InPeriod(last) == unix < PeriodEnd /\ unix >= last

Readable == file # NoFile /\ file # Corrupt

\* create_new.
Creatable == file = NoFile

\* initialize: the file must not exist; the write may be cut short.
InitializeQuota ==
    /\ Creatable
    /\ InPeriod(0)
    /\ file' \in {[requests |-> 0, bytes |-> 0, last |-> unix], Corrupt}
    /\ UNCHANGED <<tick, unix, holder, run, calls, traffic>>

\* mutant of Reservation: the answer is reserved without the request.
ReservationOfAnswer(body) == MaxResponse + 1

\* What one call can cost: the longest answer that is read, and the request.
Reservation(body) == (MaxResponse + 1) + body

UsageAfter(body) ==
    [file EXCEPT !.requests = @ + 1, !.bytes = @ + Reservation(body), !.last = unix]

\* reserve, up to its write.
Reservable(body) ==
    /\ Readable
    /\ InPeriod(file.last)
    /\ file.requests + 1 <= QuotaRequests
    /\ file.bytes + Reservation(body) <= QuotaBytes

-----------------------------------------------------------------------------
(* A process.                                                              *)

\* Budget::new takes a snapshot of the quota; every counter starts again.
Start(p) ==
    /\ ~run[p].up /\ run[p].starts < MaxStarts
    /\ holder = NoProcess /\ Readable /\ InPeriod(file.last)
    /\ run' = [run EXCEPT ![p] = [Down EXCEPT !.up = TRUE, !.starts = run[p].starts + 1,
                                              !.window = tick]]
    /\ UNCHANGED <<tick, unix, file, holder, calls, traffic>>

\* The run's own budget, with every outstanding answer at its longest.
WithinRun(r) ==
    /\ r.requests < MaxRequests
    /\ r.responses + r.reserved + MaxResponse + 1 <= MaxTotal

\* The rate window starts again after a second.
Windowed(r) == IF tick - r.window >= 1 THEN [r EXCEPT !.window = tick, !.recent = 0] ELSE r

\* admit, up to the write of the reservation.  The process keeps its lock, so
\* that nothing else of this run moves until the write has ended.
AdmitCall(p, body) ==
    LET r == Windowed(run[p])
    IN  /\ r.up /\ r.pending = 0
        /\ WithinRun(r)
        /\ r.cooldown <= tick
        /\ r.inFlight < MaxInFlight
        /\ r.recent < PerSecond
        /\ holder = NoProcess /\ Reservable(body)
        /\ holder' = p
        /\ run' = [run EXCEPT ![p] = [r EXCEPT !.pending = body, !.usage = UsageAfter(body)]]
        /\ UNCHANGED <<tick, unix, file, calls, traffic>>

Granted(r, i) ==
    [r EXCEPT !.requests = @ + 1, !.inFlight = @ + 1, !.recent = @ + 1,
              !.reserved = @ + MaxResponse + 1,
              !.pending = 0, !.usage = NoUsage,
              !.permits = [j \in DOMAIN @ \cup {i} |->
                 IF j = i THEN [body |-> r.pending, answered |-> FALSE, bytes |-> 0] ELSE @[j]]]

\* The record is durable, the permit is given, and the call is sent.
Reserved(p) ==
    LET r == run[p]
    IN  /\ r.pending # 0
        /\ file' = r.usage
        /\ holder' = NoProcess
        /\ run' = [run EXCEPT ![p] = Granted(r, FreePermit(p))]
        /\ calls' = calls + 1
        /\ traffic' = traffic + r.pending
        /\ UNCHANGED <<tick, unix>>

\* What a write that did not finish may leave.
Torn(p) == {file, run[p].usage, Corrupt}

\* The write or its sync fails: the call is refused.
ReserveFails(p) ==
    /\ run[p].pending # 0
    /\ file' \in Torn(p)
    /\ holder' = NoProcess
    /\ run' = [run EXCEPT ![p].pending = 0, ![p].usage = NoUsage]
    /\ UNCHANGED <<tick, unix, calls, traffic>>

\* The provider answers: at most one byte beyond the bound is read.
Answer(p, i, bytes) ==
    /\ run[p].pending = 0 /\ i \in LivePermits(p) /\ ~run[p].permits[i].answered
    /\ run' = [run EXCEPT ![p].permits[i] = [@ EXCEPT !.answered = TRUE, !.bytes = bytes]]
    /\ traffic' = traffic + bytes
    /\ UNCHANGED <<tick, unix, file, holder, calls>>

LaterOf(a, b) == IF a > b THEN a ELSE b

\* The call fails or is refused: the run cools down before the permit ends.
BackOff(p, i, seconds) ==
    /\ run[p].pending = 0 /\ i \in LivePermits(p) /\ ~run[p].permits[i].answered
    /\ run' = [run EXCEPT ![p].permits[i].answered = TRUE,
                          ![p].cooldown = LaterOf(@, tick + seconds)]
    /\ UNCHANGED <<tick, unix, file, holder, calls, traffic>>

Ended(r, i) ==
    [r EXCEPT !.inFlight = @ - 1, !.reserved = @ - (MaxResponse + 1),
              !.responses = @ + r.permits[i].bytes,
              !.permits = [j \in DOMAIN @ \ {i} |-> @[j]]]

\* The permit is dropped.
Drop(p, i) ==
    /\ run[p].pending = 0 /\ i \in LivePermits(p) /\ run[p].permits[i].answered
    /\ run' = [run EXCEPT ![p] = Ended(run[p], i)]
    /\ UNCHANGED <<tick, unix, file, holder, calls, traffic>>

\* The process stops anywhere: its lock is gone, and so are its counters.
Stop(p) ==
    /\ run[p].up
    /\ file' \in (IF run[p].pending = 0 THEN {file} ELSE Torn(p))
    /\ holder' = IF holder = p THEN NoProcess ELSE holder
    /\ run' = [run EXCEPT ![p] = [Down EXCEPT !.starts = run[p].starts]]
    /\ UNCHANGED <<tick, unix, calls, traffic>>

BudgetTick ==
    /\ tick < MaxTick
    /\ tick' = tick + 1
    /\ unix' \in {unix + 1, 0}
    /\ UNCHANGED <<file, holder, run, calls, traffic>>

BudgetInit ==
    /\ tick = 0 /\ unix = 0
    /\ file = NoFile
    /\ holder = NoProcess
    /\ run = [p \in Process |-> Down]
    /\ calls = 0 /\ traffic = 0

BudgetNext ==
    \/ InitializeQuota
    \/ \E p \in Process :
        \/ Start(p) \/ Stop(p) \/ Reserved(p) \/ ReserveFails(p)
        \/ \E body \in Bodies : AdmitCall(p, body)
        \/ \E i \in LivePermits(p) :
            \/ \E bytes \in 0..(MaxResponse + 1) : Answer(p, i, bytes)
            \/ \E seconds \in Cooldowns : BackOff(p, i, seconds)
            \/ Drop(p, i)
    \/ BudgetTick

BudgetSpec == BudgetInit /\ [][BudgetNext]_budgetVars

-----------------------------------------------------------------------------
(* Properties.                                                             *)

\* The calls without an answer.
Unanswered ==
    {c \in Process \X (1..MaxInFlight) :
        c[2] \in LivePermits(c[1]) /\ ~run[c[1]].permits[c[2]].answered}

\* Answers that are still to come, at their longest.
Outstanding == Cardinality(Unanswered) * (MaxResponse + 1)

\* Whatever the processes of the host do, stop and start again, and whichever
\* write of the file is cut short, the period's quota is never exceeded by what
\* was really sent and read, and a file that can be read covers all of it.
\* (provider_quota.rs:157 "durable before the caller may contact the provider")
SentWithinQuota ==
    /\ calls <= QuotaRequests
    /\ traffic + Outstanding <= QuotaBytes
    /\ Readable => calls <= file.requests /\ traffic + Outstanding <= file.bytes

\* A run's counters are exactly its permits', whatever ended them, and with
\* every outstanding answer at its longest the run stays in its budget.
\* (provider.rs:279, provider.rs:222)
RunAccountsExact ==
    \A p \in Process :
        LET r == run[p]
        IN  /\ r.inFlight = Cardinality(LivePermits(p))
            /\ r.reserved = r.inFlight * (MaxResponse + 1)
            /\ r.responses + r.reserved <= MaxTotal

\* What the host's processes send and read stays in the quota, and what one of
\* them has out in its own budget.
QuotaHolds == SentWithinQuota /\ RunAccountsExact
=============================================================================
