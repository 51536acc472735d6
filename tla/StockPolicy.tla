---------------------------- MODULE StockPolicy ----------------------------
(***************************************************************************)
(* The published policy of one stock product                               *)
(* (programs/stocklana-settle/src/stock.rs) and the check every settlement *)
(* makes against it.  The address of a policy fixes the authority, the     *)
(* instrument, the pair of mints and the rights document, so what can      *)
(* change under one address is its version, its times and its flags.       *)
(***************************************************************************)
EXTENDS Integers

CONSTANTS
    PolicyLifetime,     \* the slots a publication may last (3600)
    PolicyAge,          \* the largest age a settlement may sign for (150)
    Flags               \* bound: the flags that the authority publishes

FlagType == [secondary : BOOLEAN, halted : BOOLEAN, underlyingOpen : BOOLEAN]

ASSUME PolicyAssumption ==
    /\ PolicyLifetime \in Nat
    /\ PolicyAge \in Nat \ {0}
    /\ Flags \subseteq FlagType

PolicyType == [version : Nat, updated : Nat, expires : Nat, flags : FlagType]

\* The account does not exist.
NoPolicy ==
    [version |-> 0, updated |-> 0, expires |-> 0,
     flags |-> [secondary |-> FALSE, halted |-> FALSE, underlyingOpen |-> FALSE]]

\* mutant of NextVersion: a publication may repeat the version.
SameVersion(old) == IF old.version = 0 THEN 1 ELSE old.version

\* A publication must carry the version after the present one.
NextVersion(old) == old.version + 1

\* The policies that the authority may publish over the old one.
Publications(old, slot) ==
    [version : {NextVersion(old)}, updated : {slot},
     expires : slot..(slot + PolicyLifetime), flags : Flags]

Permits(flags, allowClosed) ==
    /\ flags.secondary
    /\ ~flags.halted
    /\ flags.underlyingOpen \/ allowClosed

\* A settlement signs the version, the age it accepts and a deadline.
Valid(policy, version, age, allowClosed, deadline, slot) ==
    /\ policy # NoPolicy
    /\ age \in 1..PolicyAge
    /\ policy.version = version
    /\ policy.updated <= slot
    /\ slot - policy.updated <= age
    /\ slot <= policy.expires
    /\ deadline <= policy.expires
    /\ Permits(policy.flags, allowClosed)
=============================================================================
