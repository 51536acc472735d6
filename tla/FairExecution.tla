---------------------------- MODULE FairExecution ----------------------------
(***************************************************************************)
(* The plan gate: a process that takes the price intervals signed by       *)
(* independent sources, finds the band of prices that enough groups of     *)
(* sources support, tightens an owner's intent to it, has the message      *)
(* simulated, and admits the owner's signed wire.                          *)
(*                                                                         *)
(* What a source said last is remembered on disk, in a store one process   *)
(* owns at a time, and it is written BEFORE a review is shown; a process   *)
(* may stop anywhere, and may find the write failed with the old or the    *)
(* new state on disk.  Slots and milliseconds are one clock, an            *)
(* observation stands for its digest, and a rate is quote atoms for Scale  *)
(* base atoms.                                                             *)
(***************************************************************************)
EXTENDS Integers, Sequences, FiniteSets, SequencesExt, FiniteSetsExt, Functions

CONSTANTS
    Gates,          \* plan-gate processes
    Observations,   \* what the sources signed: [source, sequence, time, expires, low, high]
    GroupOf,        \* [source -> group]: Policy.sources
    Faults,         \* Policy.faulty_groups
    MaxAge,         \* Policy.max_age_slots and max_age_ms
    MaxWidth,       \* Policy.max_width_bps, in units of 1/Bps
    Contexts,       \* signed stock states: [time, expires, open, halted]
    MaxLag,         \* stock Policy.max_state_lag_slots
    Intents,        \* [input, floor, deadline, closed]
    Messages,       \* what the owner's message signs: [floor, deadline, closed]
    Outputs,        \* what a simulation of a candidate may yield
    MaxTime,        \* bounds the clock
    MaxWrites,      \* bounds the writes of the store
    Scale, Bps, Off

VARIABLES
    time,
    kept,       \* the model file: [generation, latest, clock]
    lock,       \* who holds the store's lock, or Off
    gate,       \* each process: [at, request, engine, decision, prepared]
    reviewed    \* the observations the reviews shown so far rest on

gateVars == <<time, kept, lock, gate, reviewed>>

Sources == DOMAIN GroupOf
Groups == {GroupOf[s] : s \in Sources}
Never == [s \in Sources |-> Off]
Greatest(a, b) == IF a > b THEN a ELSE b

\* The policy as Engine::new admits it, and statements of the shape that
\* evaluate demands before it looks at what they say.
PolicyAssumption ==
    /\ IsFiniteSet(Groups) /\ Cardinality(Groups) >= 3
    /\ Faults \in 1..(Cardinality(Groups) - 1)
    /\ Cardinality(Groups) > 2 * Faults
    /\ MaxAge > 0 /\ MaxWidth > 0
    /\ IsFiniteSet(Observations)
    /\ \A x \in Observations :
         /\ x.source \in Sources /\ x.sequence \in Nat
         /\ x.low \in Nat \ {0} /\ x.high \in Nat /\ x.low <= x.high
    /\ Off \notin Gates /\ Off \notin Observations

-----------------------------------------------------------------------------
(* Interval consensus: one vote for each group.                            *)

\* Correlated sources widen their group's interval and add no vote.
Vote(xs, g) ==
    LET own == {x \in xs : GroupOf[x.source] = g} IN
    [low |-> Min({x.low : x \in own}), high |-> Max({x.high : x \in own})]

\* mutant of Quorum: all but the faulty groups, and one more.
QuorumOfMore == Cardinality(Groups) - Faults + 1
Quorum == Cardinality(Groups) - Faults

\* The votes' end points in order, those that enough votes cover, and the
\* gaps between neighbours that enough votes span.
Consensus(votes) ==
    LET points == UNION {{v.low, v.high} : v \in Range(votes)}
        Votes(a, b) == Cardinality({g \in DOMAIN votes : votes[g].low <= a /\ votes[g].high >= b})
        covered == {p \in points : Votes(p, p) >= Quorum}
        low == Min(covered)
        high == Max(covered)
        next == [p \in points |-> Min({q \in points : q > p} \cup {Max(points) + 1})]
        whole == \A p \in points : low <= p /\ p < high => Votes(p, next[p]) >= Quorum
    IN  IF covered = {} \/ ~whole \/ (high - low) * Bps > low * MaxWidth THEN Off
        ELSE [low |-> low, high |-> high]

\* The owner's floor, or what the band's worst price gives if that is more.
MinOutput(band, input, floor) ==
    Greatest(floor, (input * Scale + band.high - 1) \div band.high)

-----------------------------------------------------------------------------
(* The stock state and the decision.                                       *)

Verified(c, t) == c.time <= t /\ t <= c.expires /\ t - c.time <= MaxLag

AdmitsIntent(c, i, t) ==
    /\ Verified(c, t)
    /\ i.deadline >= t /\ i.deadline <= c.expires
    /\ c.open \/ i.closed
    /\ ~c.halted

FreshStatement(x, t) == x.time <= t /\ t - x.time <= MaxAge /\ x.expires >= t

\* A source may repeat what it said last, or say something newer.
NotReplayed(latest, x) ==
    latest[x.source] # Off =>
        x.sequence > latest[x.source].sequence \/ x = latest[x.source]

AdmitsStatements(e, c, xs) ==
    /\ e.clock <= time
    /\ Verified(c, time) /\ ~c.halted
    /\ \A x \in xs : FreshStatement(x, time) /\ NotReplayed(e.latest, x)
    /\ {GroupOf[x.source] : x \in xs} = Groups

\* One statement of each of the sources that are asked.
Statements ==
    {xs \in SUBSET Observations : /\ \A x, y \in xs : x.source = y.source => x = y
                                  /\ Cardinality(xs) >= Cardinality(Groups)}

Watermarks(e, xs) ==
    [latest |-> [s \in Sources |->
        IF \E x \in xs : x.source = s THEN CHOOSE x \in xs : x.source = s ELSE e.latest[s]],
     clock |-> time]

Decision(c, xs) ==
    [band |-> Consensus([g \in Groups |-> Vote(xs, g)]), context |-> c, at |-> time, proofs |-> xs,
     expires |-> Min({c.expires} \cup {x.expires : x \in xs} \cup {x.time + MaxAge : x \in xs})]

Valid(d) == d.at <= time /\ time <= d.expires /\ Verified(d.context, time)

\* The intent the message must be at least as strict as.
Tighten(d, i) ==
    [input |-> i.input, floor |-> MinOutput(d.band, i.input, i.floor),
     deadline |-> Min({i.deadline, d.expires}), closed |-> i.closed]

-----------------------------------------------------------------------------
NoReview == [at |-> "idle", context |-> Off, engine |-> Off, decision |-> Off, entry |-> Off]

GateInit ==
    /\ time = 1
    /\ kept = [generation |-> 0, latest |-> Never, clock |-> 0]
    /\ lock = Off
    /\ gate = [g \in Gates |-> NoReview]
    /\ reviewed = {}

\* Opening takes the lock and restores what the file holds.
OpenGate(g, c) ==
    /\ gate[g].at = "idle" /\ lock = Off
    /\ lock' = g
    /\ gate' = [gate EXCEPT ![g] = [NoReview EXCEPT !.at = "open", !.context = c,
                  !.engine = [latest |-> kept.latest, clock |-> kept.clock]]]
    /\ UNCHANGED <<time, kept, reviewed>>

\* Evaluation advances the engine only when there is a decision.
Evaluate(g, xs) ==
    LET p == gate[g]
        d == Decision(p.context, xs)
    IN  /\ p.at = "open"
        /\ AdmitsStatements(p.engine, p.context, xs) /\ d.band # Off
        /\ gate' = [gate EXCEPT ![g] = [p EXCEPT !.at = "evaluated", !.decision = d,
                      !.engine = Watermarks(p.engine, xs)]]
        /\ UNCHANGED <<time, kept, lock, reviewed>>

Written(e) == [generation |-> kept.generation + 1, latest |-> e.latest, clock |-> e.clock]

\* The file is replaced, the lock is released, and the rest works without it.
SaveMarks(g) ==
    /\ gate[g].at = "evaluated" /\ kept.generation < MaxWrites
    /\ kept' = Written(gate[g].engine)
    /\ lock' = Off
    /\ gate' = [gate EXCEPT ![g].at = "saved", ![g].engine = Off]
    /\ UNCHANGED <<time, reviewed>>

\* A failed write, and a stop anywhere: the process is over, and in the
\* middle of a save the file is the old or the new one.
StopGate(g) ==
    /\ gate[g].at # "idle"
    /\ \/ UNCHANGED kept
       \/ gate[g].at = "evaluated" /\ kept.generation < MaxWrites
            /\ kept' = Written(gate[g].engine)
    /\ lock' = IF lock = g THEN Off ELSE lock
    /\ gate' = [gate EXCEPT ![g] = NoReview]
    /\ UNCHANGED <<time, reviewed>>

\* A message may be stricter than the tightened intent and never weaker.
Constrained(m, strict) ==
    /\ m.floor >= strict.floor
    /\ time <= m.deadline /\ m.deadline <= strict.deadline
    /\ m.closed = strict.closed

\* The message and its variants with another seed are simulated; the best of
\* those that keep the signed floor is shown.
Review(g, i, m, simulated) ==
    LET p == gate[g]
        admitted == {o \in simulated : o >= m.floor}
    IN  /\ p.at = "saved"
        /\ Valid(p.decision) /\ AdmitsIntent(p.context, i, time)
        /\ Constrained(m, Tighten(p.decision, i))
        /\ admitted # {}
        /\ gate' = [gate EXCEPT ![g] = [p EXCEPT !.at = "reviewed",
                      !.entry = [message |-> m, output |-> Max(admitted)]]]
        /\ reviewed' = reviewed \cup p.decision.proofs
        /\ UNCHANGED <<time, kept, lock>>

\* The owner's signature comes later; the decision must still stand.
AuthorizeWire(g) ==
    /\ gate[g].at = "reviewed" /\ Valid(gate[g].decision)
    /\ gate' = [gate EXCEPT ![g].at = "authorized"]
    /\ UNCHANGED <<time, kept, lock, reviewed>>

GateTick == time < MaxTime /\ time' = time + 1 /\ UNCHANGED <<kept, lock, gate, reviewed>>

GateNext ==
    \/ \E g \in Gates :
         \/ \E c \in Contexts : OpenGate(g, c)
         \/ \E xs \in Statements : Evaluate(g, xs)
         \/ \E i \in Intents, m \in Messages, simulated \in SUBSET Outputs :
              Review(g, i, m, simulated)
         \/ SaveMarks(g) \/ StopGate(g) \/ AuthorizeWire(g)
    \/ GateTick

GateSpec == GateInit /\ [][GateNext]_gateVars

-----------------------------------------------------------------------------
(* Properties                                                              *)

Deciding == {g \in Gates : gate[g].decision # Off}
Honest(price) ==
    {s \in Sources : \A x \in Observations : x.source = s => x.low <= price /\ price <= x.high}

\* Enough groups support every price of a decision's band, the ones between the
\* reported end points included, and a price that all but the tolerated groups
\* report is in it.
WellSupported(d) ==
    LET band == d.band
        votes == [v \in Groups |-> Vote(d.proofs, v)]
        Supported(p) == Cardinality({v \in Groups :
                          2 * votes[v].low <= p /\ p <= 2 * votes[v].high}) >= Quorum
        most == 2 * Max({x.high : x \in Observations})
    IN  /\ \A p \in (2 * band.low)..(2 * band.high) : Supported(p)
        /\ \A price \in 1..most :
             Cardinality({v \in Groups : \A s \in Sources :
                 GroupOf[s] = v => s \in Honest(price)}) >= Cardinality(Groups) - Faults
             => band.low <= price /\ price <= band.high

\* Every price of a decided band is inside the intervals of enough groups, and
\* a true price that all but the tolerated groups report is never outside
\* (fair/mod.rs: "reject split consensus regions"; the fault budget).
BandSupported == \A g \in Deciding : WellSupported(gate[g].decision)

\* No two reviews rest on different statements of a source under one number
\* (plan-gate.rs: a "same-sequence conflicting observation remains rejected
\* across process restarts"), whoever showed them and whenever it stopped.
NoEquivocationReviewed ==
    \A x, y \in reviewed : x.source = y.source /\ x.sequence = y.sequence => x = y

\* Enough groups support every price of a band, a price that enough honest
\* groups report is never outside, and no two reviews rest on two statements
\* under one number.
BandIsSound == BandSupported /\ NoEquivocationReviewed
=============================================================================
