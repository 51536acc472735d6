---------------------------- MODULE CapsulePlan ----------------------------
(***************************************************************************)
(* Large intents settled in capsules                                       *)
(* (programs/stocklana-settle/src/capsule.rs).  A plan account fixes the   *)
(* total input, the total minimum output and the size of a capsule; each   *)
(* capsule is a transaction of its own, one graph under the stock policy,  *)
(* and the plan carries the progress from one to the next.                 *)
(*                                                                         *)
(* Two counters order the capsules: the plan's next sequence, which the    *)
(* owner signs in the capsule, and the wallet's nonce, which the graph in  *)
(* the capsule carries and which every other graph of the wallet advances  *)
(* as well.  Signed capsules are delivered late, again or in another       *)
(* order, and the owner may sign the same capsule again at another nonce.  *)
(*                                                                         *)
(* Simplification.  The graph inside a capsule settles as TradePromise     *)
(* says: exactly its input, at least its minimum, at its nonce.            *)
(***************************************************************************)
EXTENDS StockPolicy, Sequences, FiniteSets

CONSTANTS
    Plan,               \* plan identifiers of the wallet
    NoPlan,             \* the plan account does not exist
    Terms,              \* plans that the owner may ask for
    Capsules,           \* capsules that the owner may sign
    MaxPlanInput,       \* limit of a plan's total input
    MaxCapsuleInput,    \* limit of one capsule
    MaxCapsules,        \* limit of the number of capsules (20,000)
    MaxLifetime,        \* slots a plan may last
    MaxBonus,           \* bound: output beyond the minimum
    MaxNonce,           \* bound: graphs of the wallet
    MaxSigned,          \* bound: signed capsules
    MaxVersion,         \* bound: policy publications
    MaxSlot             \* bound: slots 0..MaxSlot

TermType ==
    [total : Nat, minimum : Nat, size : Nat, first : Nat, expires : Nat]

CapsuleType ==
    [plan : Plan, sequence : Nat, nonce : Nat, input : Nat \ {0},
     minOut : Nat \ {0}, deadline : Nat, age : Nat, allowClosed : BOOLEAN]

ASSUME CapsuleAssumption ==
    /\ NoPlan \notin [terms : TermType, settledIn : Nat, settledOut : Nat,
                      next : Nat, count : Nat]
    /\ Terms \subseteq TermType
    /\ Capsules \subseteq CapsuleType
    /\ MaxPlanInput \in Nat /\ MaxCapsuleInput \in Nat /\ MaxCapsules \in Nat
    /\ MaxLifetime \in Nat /\ MaxBonus \in Nat
    /\ MaxNonce \in Nat /\ MaxSigned \in Nat /\ MaxVersion \in Nat /\ MaxSlot \in Nat

VARIABLES
    plans,          \* [Plan -> plan account or NoPlan]
    nonce,          \* the wallet's next sequence number
    policy,         \* the stock policy's account
    slot,           \* the clock
    signed,         \* the signed capsules, with the policy the owner saw
    settled         \* history: capsules in the order they settled

vars == <<plans, nonce, policy, slot, signed, settled>>

CeilDiv(n, d) == (n \div d) + (IF n % d = 0 THEN 0 ELSE 1)

CapsulesNeeded(t) == CeilDiv(t.total, t.size)

Plannable(t) ==
    /\ t.total \in 1..MaxPlanInput
    /\ t.minimum > 0
    /\ t.size \in 1..MaxCapsuleInput
    /\ CapsulesNeeded(t) <= MaxCapsules
    /\ t.first > 0
    /\ slot <= t.expires
    /\ t.expires <= slot + MaxLifetime

\* Opcode 10.  A plan account is never closed, so an identifier is used once.
Initialize(p, t) ==
    /\ plans[p] = NoPlan
    /\ Plannable(t)
    /\ plans' = [plans EXCEPT ![p] =
          [terms |-> t, settledIn |-> 0, settledOut |-> 0, next |-> t.first, count |-> 0]]
    /\ UNCHANGED <<nonce, policy, slot, signed, settled>>

\* The owner signs a capsule under the policy that it reads.
Sign(c) ==
    /\ Cardinality(signed) < MaxSigned
    /\ signed' = signed \cup {[capsule |-> c, seen |-> policy]}
    /\ UNCHANGED <<plans, nonce, policy, slot, settled>>

Lesser(x, y) == IF x <= y THEN x ELSE y

InputDue(plan) == Lesser(plan.terms.total - plan.settledIn, plan.terms.size)

\* mutant of FloorAfter: the floor is rounded down.
FloorRoundedDown(plan, input) ==
    ((plan.settledIn + input) * plan.terms.minimum) \div plan.terms.total

\* The cumulative output that the plan must have once the input has settled.
FloorAfter(plan, input) ==
    CeilDiv((plan.settledIn + input) * plan.terms.minimum, plan.terms.total)

\* What earlier capsules delivered beyond their floor counts for this one.
OutputDue(plan, input) ==
    LET due == FloorAfter(plan, input) - plan.settledOut
    IN  IF due > 1 THEN due ELSE 1

\* mutant of InTurn: only the wallet's nonce orders the capsules.
NonceInTurn(plan, c) == nonce = c.nonce

InTurn(plan, c) == plan.next = c.sequence /\ nonce = c.nonce

Open(plan) ==
    /\ plan.settledIn < plan.terms.total
    /\ plan.count < MaxCapsules
    /\ slot <= plan.terms.expires

Progressed(plan, input, output) ==
    [plan EXCEPT !.settledIn = @ + input, !.settledOut = @ + output,
                 !.next = @ + 1, !.count = @ + 1]

Admissible(s) ==
    LET c == s.capsule
        plan == plans[c.plan]
    IN  /\ plan # NoPlan
        /\ InTurn(plan, c)
        /\ Open(plan)
        /\ slot <= c.deadline
        /\ c.deadline <= plan.terms.expires
        /\ c.input = InputDue(plan)
        /\ c.minOut >= OutputDue(plan, c.input)
        /\ Valid(policy, s.seen.version, c.age, c.allowClosed, c.deadline, slot)

\* Opcode 11.
Execute(s) ==
    LET c == s.capsule
        plan == plans[c.plan]
    IN  /\ Admissible(s)
        /\ \E output \in c.minOut..(c.minOut + MaxBonus) :
              LET after == Progressed(plan, c.input, output)
              IN  /\ after.settledOut >= FloorAfter(plan, c.input)
                  /\ after.settledIn <= plan.terms.total
                  /\ plans' = [plans EXCEPT ![c.plan] = after]
                  /\ settled' = Append(settled, s)
        /\ nonce' = nonce + 1
        /\ UNCHANGED <<policy, slot, signed>>

\* A capsule that may not settle leaves nothing behind.
Refuse(s) == ~Admissible(s) /\ UNCHANGED vars

\* Another graph of the wallet settles.
OtherGraph ==
    /\ nonce < MaxNonce
    /\ nonce' = nonce + 1
    /\ UNCHANGED <<plans, policy, slot, signed, settled>>

\* Opcode 19.
PublishPolicy ==
    /\ policy.version < MaxVersion
    /\ policy' \in Publications(policy, slot)
    /\ UNCHANGED <<plans, nonce, slot, signed, settled>>

Tick ==
    /\ slot < MaxSlot
    /\ slot' = slot + 1
    /\ UNCHANGED <<plans, nonce, policy, signed, settled>>

Init ==
    /\ plans = [p \in Plan |-> NoPlan]
    /\ nonce = 0
    /\ policy = NoPolicy
    /\ slot = 0
    /\ signed = {}
    /\ settled = <<>>

Next ==
    \/ \E p \in Plan, t \in Terms : Initialize(p, t)
    \/ \E c \in Capsules : Sign(c)
    \/ \E s \in signed : Execute(s) \/ Refuse(s)
    \/ OtherGraph
    \/ PublishPolicy
    \/ Tick

Spec == Init /\ [][Next]_vars
-----------------------------------------------------------------------------
(***************************************************************************)
(* Properties                                                              *)
(***************************************************************************)

PlanType ==
    [terms : TermType, settledIn : Nat, settledOut : Nat, next : Nat, count : 0..MaxCapsules]

\* The counters of a plan's account tell one story.
Agrees(plan) ==
    /\ plan.next = plan.terms.first + plan.count
    /\ plan.settledIn = Lesser(plan.count * plan.terms.size, plan.terms.total)

SignedType == [capsule : Capsules, seen : PolicyType]

Live == {p \in Plan : plans[p] # NoPlan}

TypeOK ==
    /\ plans \in [Plan -> PlanType \cup {NoPlan}]
    /\ \A p \in Live : Agrees(plans[p])
    /\ nonce \in Nat
    /\ policy \in PolicyType
    /\ slot \in Nat
    /\ signed \subseteq SignedType
    /\ settled \in Seq(SignedType)

\* At every point of a plan the output is at least the planned share of the
\* input that has settled: stopping early never costs the owner more than the
\* planned price, and a finished plan has delivered its whole minimum.
FloorKept ==
    \A p \in Live :
        plans[p].settledOut * plans[p].terms.total
            >= plans[p].settledIn * plans[p].terms.minimum

\* A plan that has input left has capsules left to settle it with.
RoomForRest ==
    \A p \in Live :
        plans[p].terms.total - plans[p].settledIn
            <= (MaxCapsules - plans[p].count) * plans[p].terms.size

\* A capsule of a plan settles once, however often and at however many nonces
\* the owner signs it.
CapsuleSettlesOnce ==
    \A i, j \in 1..Len(settled) :
        /\ settled[i].capsule.plan = settled[j].capsule.plan
        /\ settled[i].capsule.sequence = settled[j].capsule.sequence
        => i = j

\* A capsule settles only while the policy is the one that its owner saw when
\* signing: a halt, a new expiry or a new version revokes what was signed.
SettlesAsSigned ==
    [][settled' # settled => settled'[Len(settled')].seen = policy]_vars
=============================================================================
