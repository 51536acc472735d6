----------------------------- MODULE QuoteService -----------------------------
(***************************************************************************)
(* From a quote to an authorized order (host/src/stockmesh_api.rs: quote,  *)
(* quote_sell, freeze, prepare, prepare_sell_quote, admit_prepared, submit *)
(* and submit_sell; prepared_quotes.rs; direct_prepare.rs; mesh.rs).       *)
(*                                                                         *)
(* The service remembers what it quoted, plans again when the market has   *)
(* moved, has the wallet's transaction built and simulated while nothing   *)
(* is locked, keeps one candidate for each quote, and compares a signed    *)
(* wire with it.  Requests run in threads of their own; a bank may be      *)
(* published, and a quote may expire, between any two of their steps.      *)
(*                                                                         *)
(* Simplifications.                                                        *)
(*  - One instrument, one bank and one wallet; a quote is known by its     *)
(*    number.  What its input buys (or sells for) in the state of a bank   *)
(*    is that state's worth; 0 means no admissible plan.  The hash of a    *)
(*    state is its worth.                                                  *)
(*  - The product policies of a bank do not change while the service runs. *)
(*  - The wall clock and the monotonic clock are one.                      *)
(*  - What follows the authorization is OrderSender.                       *)
(***************************************************************************)
EXTENDS Integers, Sequences, FiniteSets

CONSTANTS
    Workers,        \* threads of the HTTP server
    MaxWorth,       \* bound: worth of a state
    MaxSlip,        \* bound: what slippage takes from a quote
    Ttl,            \* quote_ttl
    MaxQuotes,      \* MAX_QUOTES: quotes of a side that are remembered
    MaxPrepared,    \* candidates of a side that are kept (256)
    DeadlineSlots,  \* deadline_slots of the deployment
    MaxIssued,      \* bound: quotes
    MaxBuilt,       \* bound: candidates
    MaxBankSlot,    \* bound: slots
    MaxClock        \* bound: the clock

Sides == {"buy", "sell"}
Cost == 1..2        \* predicted compute units of a candidate

ServiceAssumption ==
    /\ MaxWorth \in Nat \ {0} /\ MaxSlip \in Nat /\ Ttl \in Nat \ {0}
    /\ MaxQuotes \in Nat \ {0} /\ MaxPrepared \in Nat \ {0} /\ DeadlineSlots \in Nat \ {0}
    /\ MaxIssued \in Nat /\ MaxBuilt \in Nat /\ MaxBankSlot \in Nat /\ MaxClock \in Nat

VARIABLES
    clock,
    bank,           \* the publication: [ok, slot, worth]
    issued,         \* history: every quote, by number
    order,          \* [Sides -> quotes that are remembered, the oldest first]
    prepared,       \* candidates, by quote
    serial,         \* bid_sequence: candidates built so far
    work,           \* [Workers -> the request it runs]
    shown,          \* history: [quote, serial] of every wire a wallet was given
    frozen,         \* history: frozen intents
    orders          \* history: authorized orders

quoteVars == <<clock, bank, issued, order, prepared, serial, work, shown, frozen, orders>>

NoRequest == [at |-> "idle"]
NoBank == [ok |-> FALSE, slot |-> 0, worth |-> 0]

Quotes == DOMAIN issued
Remembered(q) == \E s \in Sides : \E i \in DOMAIN order[s] : order[s][i] = q
LiveQuote(q) == clock < issued[q].expires

\* The state a quote was made in is still the published one.
Unchanged(q) == bank.slot = issued[q].slot /\ bank.worth = issued[q].worth

-----------------------------------------------------------------------------
(* Quotes.                                                                 *)

\* cache and cache_sell: the oldest quotes of the side give way.
Cached(s, q) ==
    LET kept == IF Len(order[s]) >= MaxQuotes
                  THEN SubSeq(order[s], Len(order[s]) - MaxQuotes + 2, Len(order[s]))
                  ELSE order[s]
    IN  Append(kept, q)

\* The least amount: slippage taken off the plan, but never nothing.
Floor(worth, slip) == IF worth > slip THEN worth - slip ELSE 1

\* The part of a quote that both sides share.
Quoted(side, slip) ==
    LET q == Len(issued) + 1
    IN  /\ q <= MaxIssued
        /\ bank.ok /\ bank.worth > 0
        /\ issued' = Append(issued, [side |-> side, floor |-> Floor(bank.worth, slip),
                                     slot |-> bank.slot, worth |-> bank.worth,
                                     expires |-> clock + Ttl])
        /\ order' = [order EXCEPT ![side] = Cached(side, q)]
        /\ UNCHANGED <<clock, bank, prepared, serial, work, shown, frozen, orders>>

\* quote, quote_sell.
Quote(slip) == Quoted("buy", slip)
QuoteSell(slip) == Quoted("sell", slip)

\* freeze: the commitment that executors bid on, while the market is the one
\* of the quote.
Freeze(q, deadline) ==
    /\ q \in Quotes /\ issued[q].side = "buy"
    /\ Remembered(q) /\ LiveQuote(q)
    /\ bank.ok /\ Unchanged(q)
    /\ deadline \in bank.slot..(bank.slot + DeadlineSlots)
    /\ frozen' = frozen \cup {[quote |-> q, floor |-> issued[q].floor, worth |-> bank.worth]}
    /\ UNCHANGED <<clock, bank, issued, order, prepared, serial, work, shown, orders>>

-----------------------------------------------------------------------------
(* Preparation.                                                            *)

\* The candidate's own feed is fresh, and so is the market it was built on.
\* checked, of the publication that the request has read.
Reviewable(q, slot, worth) ==
    LET c == prepared[q]
    IN  /\ clock < c.expires
        /\ c.worth = worth
        /\ slot \in c.slot..c.deadline

\* A market that moved is planned again, and must still reach the quote's floor.
StillWorth(q) == Unchanged(q) \/ bank.worth >= issued[q].floor

\* The minimum that a candidate signs.
PromisedFloor(q) == issued[q].floor

\* A buyer's candidate is reviewed and never built again while it is kept ...
GivenAgainBuy(q) == issued[q].side = "buy" /\ Reviewable(q, bank.slot, bank.worth)

\* ... a seller's is given again while it lives.
GivenAgainSell(q) ==
    issued[q].side = "sell" /\ clock < prepared[q].expires /\ prepared[q].fresh

\* prepare and prepare_sell_quote, up to the call of the runtime.
StartPrepare(p, q) ==
    /\ work[p] = NoRequest
    /\ q \in Quotes /\ Remembered(q) /\ LiveQuote(q)
    /\ bank.ok /\ StillWorth(q)
    /\ IF q \in DOMAIN prepared
         THEN /\ GivenAgainBuy(q) \/ GivenAgainSell(q)
              /\ shown' = shown \cup {[quote |-> q, serial |-> prepared[q].serial]}
              /\ UNCHANGED work
         ELSE UNCHANGED <<work, shown>>
    /\ UNCHANGED <<clock, bank, issued, order, prepared, serial, frozen, orders>>

\* The same with nothing to review: the runtime is called.
CallRuntime(p, q) ==
    /\ work[p] = NoRequest
    /\ q \in Quotes /\ Remembered(q) /\ LiveQuote(q)
    /\ bank.ok /\ StillWorth(q)
    /\ q \in DOMAIN prepared => /\ issued[q].side = "sell"
                                /\ ~prepared[q].fresh \/ clock >= prepared[q].expires
    /\ work' = [work EXCEPT ![p] = [at |-> "build", quote |-> q, slot |-> bank.slot,
                                    worth |-> bank.worth, floor |-> PromisedFloor(q)]]
    /\ UNCHANGED <<clock, bank, issued, order, prepared, serial, shown, frozen, orders>>

\* One coherent read of everything the wire needs, not older than the
\* publication and with its market unchanged; the message is compiled and
\* simulated exactly.
Built(p, side, slot, cost) ==
    LET w == work[p]
    IN  /\ w.at = "build" /\ issued[w.quote].side = side /\ serial < MaxBuilt
        /\ slot >= w.slot
        /\ w.worth >= w.floor
        /\ serial' = serial + 1
        /\ work' = [work EXCEPT ![p] =
              [at |-> "admit", quote |-> w.quote, base |-> w.slot,
               candidate |-> [serial |-> serial + 1, slot |-> slot, worth |-> w.worth,
                              floor |-> w.floor, deadline |-> slot + DeadlineSlots,
                              cost |-> cost, fresh |-> TRUE,
                              expires |-> issued[w.quote].expires]]]
        /\ UNCHANGED <<clock, bank, issued, order, prepared, shown, frozen, orders>>

\* prepare_direct, prepare_sell.
PrepareDirect(p, slot, cost) == Built(p, "buy", slot, cost)
PrepareSell(p, slot, cost) == Built(p, "sell", slot, cost)

\* The read, the build or the simulation fails.
BuildFails(p) ==
    /\ work[p].at = "build"
    /\ work' = [work EXCEPT ![p] = NoRequest]
    /\ UNCHANGED <<clock, bank, issued, order, prepared, serial, shown, frozen, orders>>

Unexpired == {q \in DOMAIN prepared : clock < prepared[q].expires}

\* The intents are the same, this executor's bids go on, and while the old
\* candidate is valid only a better outcome replaces it.
Better(old, new) ==
    /\ old.deadline = new.deadline /\ old.worth = new.worth /\ old.floor = new.floor
    /\ new.serial > old.serial
    /\ old.fresh => new.cost < old.cost

\* admit_prepared and PreparedQuotes::admit.
AdmissibleCandidate(w) ==
    LET q == w.quote
    IN  /\ Remembered(q) /\ LiveQuote(q)
        /\ bank.ok /\ bank.worth = w.candidate.worth
        /\ w.candidate.deadline <= bank.slot + DeadlineSlots
        /\ IF q \in Unexpired THEN Better(prepared[q], w.candidate)
                              ELSE Cardinality(Unexpired) < MaxPrepared

Keep(q, c) == [x \in Unexpired \cup {q} |-> IF x = q THEN c ELSE prepared[x]]

\* A buyer is given the candidate if the publication that the request began
\* with is not older than it.
AdmitBuy(p) ==
    LET w == work[p]
    IN  /\ w.at = "admit" /\ issued[w.quote].side = "buy"
        /\ AdmissibleCandidate(w)
        /\ prepared' = Keep(w.quote, w.candidate)
        /\ shown' = IF w.base >= w.candidate.slot
                      THEN shown \cup {[quote |-> w.quote, serial |-> w.candidate.serial]}
                      ELSE shown
        /\ work' = [work EXCEPT ![p] = NoRequest]
        /\ UNCHANGED <<clock, bank, issued, order, serial, frozen, orders>>

RefuseBuy(p) ==
    /\ work[p].at = "admit" /\ issued[work[p].quote].side = "buy"
    /\ ~AdmissibleCandidate(work[p])
    /\ work' = [work EXCEPT ![p] = NoRequest]
    /\ UNCHANGED <<clock, bank, issued, order, prepared, serial, shown, frozen, orders>>

SellsKept == {q \in Unexpired : issued[q].side = "sell"}

\* A seller's candidate replaces the one there is.  A full cache refuses it
\* even then.
StoreSell(p) ==
    LET w == work[p]
    IN  /\ w.at = "admit" /\ issued[w.quote].side = "sell"
        /\ IF Cardinality(SellsKept) >= MaxPrepared
             THEN UNCHANGED <<prepared, shown>>
             ELSE /\ prepared' = Keep(w.quote, w.candidate)
                  /\ shown' = shown \cup {[quote |-> w.quote, serial |-> w.candidate.serial]}
        /\ work' = [work EXCEPT ![p] = NoRequest]
        /\ UNCHANGED <<clock, bank, issued, order, serial, frozen, orders>>

\* The feed of a candidate is no longer fresh.
Age(q) ==
    /\ q \in DOMAIN prepared /\ prepared[q].fresh
    /\ prepared' = [prepared EXCEPT ![q].fresh = FALSE]
    /\ UNCHANGED <<clock, bank, issued, order, serial, work, shown, frozen, orders>>

-----------------------------------------------------------------------------
(* Submission.                                                             *)

\* submit: the wallet returns a wire it was given; the request reads the
\* publication ...
StartSubmit(p, s) ==
    /\ work[p] = NoRequest /\ s \in shown
    /\ Remembered(s.quote) /\ LiveQuote(s.quote)
    /\ bank.ok
    /\ work' = [work EXCEPT ![p] = [at |-> "authorize", quote |-> s.quote, serial |-> s.serial,
                                    slot |-> bank.slot, worth |-> bank.worth]]
    /\ UNCHANGED <<clock, bank, issued, order, prepared, serial, shown, frozen, orders>>

\* mutant of SameState: only the slot is compared.
SameStateSlot(w, c) ==
    IF issued[w.quote].side = "sell" THEN c.slot = w.slot ELSE w.slot \in c.slot..c.deadline

\* The candidate was built on the state that the request has read.
SameState(w, c) ==
    /\ c.worth = w.worth
    /\ IF issued[w.quote].side = "sell" THEN c.slot = w.slot ELSE w.slot \in c.slot..c.deadline

\* The prepared identity and the message are the candidate's.
SameWire(w, c) == c.serial = w.serial

\* ... and then the candidate: authorize_submission and submit_sell.
Authorizes(w) ==
    /\ w.quote \in DOMAIN prepared
    /\ LET c == prepared[w.quote]
       IN  SameWire(w, c) /\ clock < c.expires /\ c.fresh /\ SameState(w, c)

Authorize(p) ==
    LET w == work[p]
        c == prepared[w.quote]
    IN  /\ w.at = "authorize"
        /\ Authorizes(w)
        /\ orders' = orders \cup {[quote |-> w.quote, serial |-> w.serial, floor |-> c.floor,
                                   worth |-> c.worth, read |-> w.worth]}
        /\ work' = [work EXCEPT ![p] = NoRequest]
        /\ UNCHANGED <<clock, bank, issued, order, prepared, serial, shown, frozen>>

Revoke(p) ==
    /\ work[p].at = "authorize"
    /\ ~Authorizes(work[p])
    /\ work' = [work EXCEPT ![p] = NoRequest]
    /\ UNCHANGED <<clock, bank, issued, order, prepared, serial, shown, frozen, orders>>

-----------------------------------------------------------------------------

\* The refresh thread publishes a state or invalidates the bank.
Publish(worth) ==
    /\ bank.slot < MaxBankSlot
    /\ bank' = [ok |-> TRUE, slot |-> bank.slot + 1, worth |-> worth]
    /\ UNCHANGED <<clock, issued, order, prepared, serial, work, shown, frozen, orders>>

Invalidate ==
    /\ bank.ok
    /\ bank' = [bank EXCEPT !.ok = FALSE]
    /\ UNCHANGED <<clock, issued, order, prepared, serial, work, shown, frozen, orders>>

QuoteTick ==
    /\ clock < MaxClock
    /\ clock' = clock + 1
    /\ UNCHANGED <<bank, issued, order, prepared, serial, work, shown, frozen, orders>>

QuoteInit ==
    /\ clock = 0
    /\ bank = NoBank
    /\ issued = <<>>
    /\ order = [s \in Sides |-> <<>>]
    /\ prepared = <<>>
    /\ serial = 0
    /\ work = [p \in Workers |-> NoRequest]
    /\ shown = {} /\ frozen = {} /\ orders = {}

QuoteNext ==
    \/ \E slip \in 0..MaxSlip : Quote(slip) \/ QuoteSell(slip)
    \/ \E q \in Quotes, deadline \in 0..(MaxBankSlot + DeadlineSlots) : Freeze(q, deadline)
    \/ \E p \in Workers :
        \/ \E q \in Quotes : StartPrepare(p, q) \/ CallRuntime(p, q)
        \/ \E slot \in 0..MaxBankSlot, cost \in Cost :
              PrepareDirect(p, slot, cost) \/ PrepareSell(p, slot, cost)
        \/ BuildFails(p) \/ AdmitBuy(p) \/ RefuseBuy(p) \/ StoreSell(p)
        \/ \E s \in shown : StartSubmit(p, s)
        \/ Authorize(p) \/ Revoke(p)
    \/ \E q \in Quotes : Age(q)
    \/ \E worth \in 0..MaxWorth : Publish(worth)
    \/ Invalidate \/ QuoteTick

QuoteSpec == QuoteInit /\ [][QuoteNext]_quoteVars

-----------------------------------------------------------------------------
(* Properties.                                                             *)

\* An authorized order is the wire that its wallet was given, built on the very
\* state that the service then served, and that state reaches the minimum of
\* the quote, whatever was published, prepared or evicted meanwhile.
\* (stockmesh_api.rs:2530 "no longer satisfies the signed floor", prepared_quotes.rs:165)
OrderHonoursQuote ==
    \A o \in orders :
        /\ [quote |-> o.quote, serial |-> o.serial] \in shown
        /\ o.read = o.worth
        /\ o.worth >= o.floor /\ o.floor >= issued[o.quote].floor

\* What executors were asked to bid on and what the service itself prepares for
\* a quote have the same economic terms, also after the market has moved.
\* (stockmesh_api.rs:3531 "Freeze the economic intent that every executor must bid against")
FrozenTermsKept ==
    \A f \in frozen : \A q \in DOMAIN prepared :
        q = f.quote => prepared[q].floor = f.floor

\* An authorized order is the wire its wallet was given, on the state it was
\* built on, and executors bid on the terms that it has.
QuoteIsHonoured == OrderHonoursQuote /\ FrozenTermsKept
=============================================================================
