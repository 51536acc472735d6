----------------------------- MODULE WalletSetup -----------------------------
(***************************************************************************)
(* What a wallet lacks for a trade (wallet_wire.rs): the token accounts    *)
(* and the replay nonce that do not exist yet, and the native coins that   *)
(* are to be wrapped, become a prefix of the transaction of the trade.     *)
(*                                                                         *)
(* A ledger is [sol, nonce, acct]: the lamports of the owner, the account  *)
(* of the nonce, whose atoms are the sequence, and the token accounts,     *)
(* which are named <<wallet, asset>>.  An account is [open, free,          *)
(* lamports, atoms]; it is free if nobody but its owner may spend from it. *)
(* The lamports of an open native account are its reserve and its atoms.   *)
(*                                                                         *)
(* An instruction is [op, on, n, body].  Of the accounts of one, `on` is   *)
(* the asset whose account in the owner's wallet it is about, or something *)
(* else.                                                                   *)
(***************************************************************************)
EXTENDS Integers, SequencesExt

CONSTANTS
    Asset,
    Native,         \* the wrapped coin
    Owner,          \* the wallet
    None,
    Rent,           \* the reserve of an account
    MaxAssets,      \* MAX_WALLET_ASSETS, 6
    MaxInput,       \* MAX_INPUT of the adapters
    MaxUnits        \* 1,400,000 compute units

MaxSetup == MaxAssets + 3
MaxInstructions == MaxSetup + 4

Ins(op, on, n) == [op |-> op, on |-> on, n |-> n, body |-> None]
Trade(body) == [op |-> "trade", on |-> None, n |-> 0, body |-> body]
Compute == {"limit", "heap", "price"}

Mine(asset) == <<Owner, asset>>

\* What the chain can hold: an account that is there has paid its rent, and
\* one that is not there has no atoms.
AccountType == [open : BOOLEAN, free : BOOLEAN, lamports : Nat, atoms : Nat]
LedgerType(l) ==
    /\ l = [sol |-> l.sol, nonce |-> l.nonce, market |-> l.market, slot |-> l.slot,
            policy |-> l.policy, acct |-> l.acct]
    /\ l.sol \in Int /\ l.nonce \in AccountType /\ l.acct \in [DOMAIN l.acct -> AccountType]
    /\ {Mine(a) : a \in Asset} \subseteq DOMAIN l.acct
    /\ \A k \in DOMAIN l.acct :
         IF l.acct[k].open THEN l.acct[k].lamports > 0 ELSE l.acct[k].atoms = 0

Atoms(ledger, asset) == ledger.acct[Mine(asset)].atoms
SumOf(f) == FoldFunction(+, 0, f)
Once(s) == \A i, j \in DOMAIN s : s[i] = s[j] => i = j

-----------------------------------------------------------------------------
(* Programs that the prefix calls.                                         *)

\* An account that is opened costs its payer the rent that it lacks.
Lacks(account) == IF account.lamports < Rent THEN Rent - account.lamports ELSE 0
Opened(account) ==
    [open |-> TRUE, free |-> TRUE, lamports |-> account.lamports + Lacks(account), atoms |-> 0]

\* The nonce is initialized once, which may have been prefunded.
InitializeNonce(ledger) ==
    [ledger EXCEPT !.sol = @ - Lacks(ledger.nonce), !.nonce = Opened(@)]

\* CreateIdempotent of the associated token program.
CreateToken(ledger, asset) ==
    LET a == ledger.acct[Mine(asset)] IN
    IF a.open THEN ledger
    ELSE [ledger EXCEPT !.sol = @ - Lacks(a), !.acct[Mine(asset)] = Opened(@)]

Transfer(ledger, asset, n) ==
    [ledger EXCEPT !.sol = @ - n, !.acct[Mine(asset)].lamports = @ + n]
SyncNative(ledger, asset) ==
    [ledger EXCEPT !.acct[Mine(asset)].atoms = ledger.acct[Mine(asset)].lamports - Rent]

\* The ledger after an instruction, or None if it fails.
RunOne(ledger, i) ==
    CASE i.op \in Compute -> ledger
      [] i.op = "nonce" /\ ~ledger.nonce.open -> InitializeNonce(ledger)
      [] i.op = "create" /\ i.on \in Asset -> CreateToken(ledger, i.on)
      [] i.op = "transfer" /\ i.on \in Asset -> Transfer(ledger, i.on, i.n)
      [] i.op = "sync" /\ i.on = Native /\ ledger.acct[Mine(Native)].open -> SyncNative(ledger, Native)
      [] OTHER -> None
StepOn(ledger, i) == IF ledger = None THEN None ELSE RunOne(ledger, i)
\* The ledgers after 0, 1, 2, ... instructions of a prefix.
Course(ledger, is) ==
    LET at[k \in 0..Len(is)] == IF k = 0 THEN ledger ELSE StepOn(at[k - 1], is[k])
    IN  at
Run(ledger, is) ==
    LET end == Course(ledger, is)[Len(is)]
    IN IF end = None \/ end.sol < 0 THEN None ELSE end

\* The payer's fee is gone from every ledger that a simulation returns.
Charged(ledger, fee) == [ledger EXCEPT !.sol = @ - fee]

-----------------------------------------------------------------------------
(* The plan.                                                               *)

\* A token account that is there must be the owner's alone.
Readable(account) == account.open /\ account.free

PlanFits(ledger, assets, wrap) ==
    /\ Len(assets) \in 1..MaxAssets /\ Once(assets)
    /\ \A i \in DOMAIN assets : LET a == ledger.acct[Mine(assets[i])] IN a.open => Readable(a)
    /\ wrap > 0 => wrap <= MaxInput /\ Native \in ToSet(assets)

\* One instruction for every account that is not there, in the order of the
\* assets.
Missing(ledger, is, a) ==
    IF ledger.acct[Mine(a)].open THEN is ELSE Append(is, Ins("create", a, 0))
Creating(ledger, assets) ==
    LET upto[k \in 0..Len(assets)] ==
          IF k = 0 THEN <<>> ELSE Missing(ledger, upto[k - 1], assets[k])
    IN  upto

PlanWallet(ledger, assets, wrap) ==
    [assets |-> assets,
     initial |-> [a \in ToSet(assets) |->
        IF ledger.acct[Mine(a)].open THEN Atoms(ledger, a) ELSE None],
     wrap |-> wrap, creates |-> FALSE, sequence |-> 0,
     instructions |->
        Creating(ledger, assets)[Len(assets)]
          \o (IF wrap > 0 THEN <<Ins("transfer", Native, wrap), Ins("sync", Native, 0)>> ELSE <<>>)]

\* with_observed_nonce: the sequence is read from the bank, and a nonce that
\* is not there is initialized first of all.
WithNonce(ledger, setup) ==
    IF ledger.nonce.open THEN [setup EXCEPT !.sequence = ledger.nonce.atoms]
    ELSE [setup EXCEPT !.creates = TRUE, !.instructions = <<Ins("nonce", None, 0)>> \o @]

\* What is simulated to see the accounts that the trade will find.
SetupOnly(setup, units) == <<Ins("limit", None, units)>> \o setup.instructions
ValidSetupOnly(setup, message) ==
    /\ Head(message).op = "limit" /\ Head(message).n \in 1..MaxUnits
    /\ Tail(message) = setup.instructions

-----------------------------------------------------------------------------
(* The accounts that the compiler may see.                                 *)

IsNew(setup, asset) == setup.initial[asset] = None
Before(setup, asset) == IF IsNew(setup, asset) THEN 0 ELSE setup.initial[asset]
Wrapped(setup, asset) == IF asset = Native THEN setup.wrap ELSE 0

VerifyInitialized(setup, after) ==
    /\ after.nonce.open /\ after.nonce.atoms = setup.sequence
    /\ \A a \in ToSet(setup.assets) :
         /\ Readable(after.acct[Mine(a)])
         /\ Atoms(after, a) = Before(setup, a) + Wrapped(setup, a)

\* Mutant: the atoms of a native account count as its reserve.
ReserveWithAtoms(account, asset) == account.lamports

\* The reserve of an account that the prefix opens.
Reserve(account, asset) == account.lamports - (IF asset = Native THEN account.atoms ELSE 0)
NewRent(setup, after) ==
    SumOf([a \in ToSet(setup.assets) |->
        IF IsNew(setup, a) THEN Reserve(after.acct[Mine(a)], a) ELSE 0])
      + (IF setup.creates THEN after.nonce.lamports ELSE 0)
Untouched(account) == ~account.open /\ account.lamports = 0

\* lowering_projection: nothing has changed but what the plan says, and the
\* payer has paid for it and the fee.
LoweringProjection(setup, before, after, fee) ==
    /\ VerifyInitialized(setup, after)
    /\ \A a \in ToSet(setup.assets) :
         LET old == before.acct[Mine(a)]
             new == after.acct[Mine(a)]
             w == Wrapped(setup, a)
         IN IF IsNew(setup, a) THEN Untouched(old) /\ Reserve(new, a) > 0
            ELSE new = [old EXCEPT !.atoms = @ + w, !.lamports = @ + w]
    /\ IF setup.creates THEN Untouched(before.nonce) ELSE after.nonce = before.nonce
    /\ before.sol - after.sol = NewRent(setup, after) + setup.wrap + fee
=============================================================================
