------------------------------ MODULE SwapWire ------------------------------
(***************************************************************************)
(* From allocations to a graph on the wire: the host lowers proposals into *)
(* the legs of one graph (native_wire.rs) and compiles the graph into an   *)
(* instruction whose accounts are named by their place in a table          *)
(* (swap_wire.rs).                                                         *)
(*                                                                         *)
(* A key is a pair of strings.  A market is [pool, program, from, to,      *)
(* vaults, reads, grid, down, most, extension]: the accounts a swap writes *)
(* and reads, its tick arrays by their numbers, whether it crosses them    *)
(* downwards, how many of them fit in a leg, and the bitmap that far ones  *)
(* need.  A proposal is [stage, product, market, input, output, reach];    *)
(* reach[i][n] is what its input gives on a bank whose price is in array   *)
(* i, with the first n arrays from there.  A bank is given by `at`, the    *)
(* array of each pool's price.  The wallet is one buyer; sequence numbers  *)
(* and deadlines are those of the order in every graph and are left out.   *)
(***************************************************************************)
EXTENDS Integers, Sequences, FiniteSets, SequencesExt

CONSTANTS
    TokenProgram,   \* [mints -> the token program that owns them]
    MaxAssets,      \* 5
    MaxLegs,        \* 4
    MaxCandidates,  \* 8
    MaxAccounts,    \* 64
    Near,           \* the arrays that a pool's own bitmap covers, -512..511
    None

Buyer == <<"wallet", "buyer">>
Nonce == <<"nonce", "buyer">>

\* The buyer's account of a mint.
Asset(mint) ==
    [token |-> <<"buyer", mint[2]>>, mint |-> mint, program |-> TokenProgram[mint]]

\* Whether a sequence has no element twice.
Once(s) == \A i, j \in DOMAIN s : s[i] = s[j] => i = j
PlaceOf(s, x) == CHOOSE i \in DOMAIN s : s[i] = x

-----------------------------------------------------------------------------
(* Tables of accounts.                                                     *)

Use(key, writes, signs) == [key |-> key, writes |-> writes, signs |-> signs]
Keys(table) == {table[i].key : i \in DOMAIN table}
Place(table, key) == CHOOSE i \in DOMAIN table : table[i].key = key

\* An account is entered once; a later use may add privileges.
Enter(table, use) ==
    IF use.key \in Keys(table)
    THEN [table EXCEPT ![Place(table, use.key)] =
             Use(use.key, @.writes \/ use.writes, @.signs \/ use.signs)]
    ELSE Append(table, use)
EnterAll(table, uses) == FoldLeft(Enter, table, uses)

-----------------------------------------------------------------------------
(* Legs.                                                                   *)

\* The arrays from the price on, those that fit, and the fewest of them
\* that give the same.
Ahead(m, tick) == {n \in DOMAIN m.grid : IF m.down THEN n <= tick ELSE n >= tick}
Sorted(m, numbers) == SetToSortSeq(numbers, LAMBDA a, c : IF m.down THEN a > c ELSE a < c)
Arrays(m, at) == Sorted(m, Ahead(m, at[m.pool]))
Horizon(m, at) == IF Cardinality(Ahead(m, at[m.pool])) < m.most
                  THEN Cardinality(Ahead(m, at[m.pool])) ELSE m.most
Gives(p, at, n) == p.reach[at[p.market.pool]][n]
Shortest(p, at) == CHOOSE k \in 1..Horizon(p.market, at) :
    /\ k = Horizon(p.market, at) \/ Gives(p, at, k) = p.output
    /\ \A l \in 1..(k - 1) : Gives(p, at, l) # p.output

\* The quote still holds on this bank, and with the arrays that fit.
Quoted(p, at) ==
    /\ p.input > 0 /\ p.output > 0
    /\ Ahead(p.market, at[p.market.pool]) # {}
    /\ Gives(p, at, Cardinality(Ahead(p.market, at[p.market.pool]))) = p.output
    /\ Gives(p, at, Horizon(p.market, at)) = p.output

\* A leg with an array beyond the pool's bitmap names the extension.
Beyond(m, at) ==
    IF m.extension # None
       /\ \E i \in 1..Horizon(m, at) : Arrays(m, at)[i] \notin Near
    THEN <<Use(m.extension, FALSE, FALSE)>> ELSE <<>>
LegUses(m, source, sink, at, n) ==
    <<Use(Buyer, FALSE, TRUE), Use(m.pool, TRUE, FALSE), Use(source, TRUE, FALSE), Use(sink, TRUE, FALSE)>>
      \o [i \in DOMAIN m.vaults |-> Use(m.vaults[i], TRUE, FALSE)]
      \o [i \in DOMAIN m.reads |-> Use(m.reads[i], FALSE, FALSE)]
      \o [i \in 1..n |-> Use(m.grid[Arrays(m, at)[i]], TRUE, FALSE)]
      \o Beyond(m, at)

\* exact is 0 for a leg that takes what remains.
Leg(p, from, to, exact, at, n) ==
    [program |-> p.market.program, source |-> from.token, sink |-> to.token, exact |-> exact,
     uses |-> LegUses(p.market, from.token, to.token, at, n)]

-----------------------------------------------------------------------------
(* Lowering.  A graph is [assets, input, minOut, legs]; its assets run from *)
(* the one it spends to the one it must deliver.                           *)

Mints(assets) == [i \in DOMAIN assets |-> assets[i].mint]
From(mints, p) == PlaceOf(mints, p.market.from)
To(mints, p) == PlaceOf(mints, p.market.to)
Total(ps, Op(_)) == FoldLeft(LAMBDA n, p : n + Op(p), 0, ps)
SpentAt(mints, ps, i) == Total(ps, LAMBDA p : IF From(mints, p) = i THEN p.input ELSE 0)
MadeAt(mints, ps, i) == Total(ps, LAMBDA p : IF To(mints, p) = i THEN p.output ELSE 0)
Pools(ps) == [i \in DOMAIN ps |-> ps[i].market.pool]

\* Every proposal leads on, no consumer runs ahead of its producers, and the
\* whole input and all of every intermediate is spent.
Conserves(mints, ps, input, minOut) ==
    /\ \A k \in DOMAIN ps :
         /\ ps[k].market.from \in Range(mints) /\ ps[k].market.to \in Range(mints)
         /\ From(mints, ps[k]) < To(mints, ps[k])
    /\ \A k \in DOMAIN ps : LET i == From(mints, ps[k]) IN
         i > 1 => SpentAt(mints, SubSeq(ps, 1, k), i) <= MadeAt(mints, SubSeq(ps, 1, k - 1), i)
    /\ SpentAt(mints, ps, 1) = input
    /\ MadeAt(mints, ps, Len(mints)) >= minOut
    /\ \A i \in 2..(Len(mints) - 1) :
         MadeAt(mints, ps, i) > 0 /\ MadeAt(mints, ps, i) = SpentAt(mints, ps, i)

LastUser(mints, ps, k) == \A l \in (k + 1)..Len(ps) : From(mints, ps[l]) # From(mints, ps[k])
NativeLegs(assets, mints, ps, at) ==
    [k \in DOMAIN ps |->
        Leg(ps[k], assets[From(mints, ps[k])], assets[To(mints, ps[k])],
            IF LastUser(mints, ps, k) THEN 0 ELSE ps[k].input, at, Shortest(ps[k], at))]

LowerNative(assets, input, minOut, ps, at) ==
    IF /\ Len(ps) \in 1..MaxLegs /\ Len(assets) <= MaxAssets
       /\ Once(Mints(assets)) /\ Once(Pools(ps))
       /\ Conserves(Mints(assets), ps, input, minOut)
       /\ \A k \in DOMAIN ps : ps[k].stage \in 1..2 /\ Quoted(ps[k], at)
    THEN [assets |-> assets, input |-> input, minOut |-> minOut,
          legs |-> NativeLegs(assets, Mints(assets), ps, at)]
    ELSE None

\* Candidates that compete for the input: a noncash source must itself be
\* bought directly.
Direct(mints, ps) == {To(mints, ps[k]) : k \in {l \in DOMAIN ps : From(mints, ps[l]) = 1}}
Bounded(mints, ps) ==
    /\ \A k \in DOMAIN ps :
         /\ ps[k].market.from \in Range(mints) /\ ps[k].market.to \in Range(mints)
         /\ From(mints, ps[k]) # To(mints, ps[k]) /\ To(mints, ps[k]) > 1
         /\ From(mints, ps[k]) = 1 \/ From(mints, ps[k]) \in Direct(mints, ps)
    /\ \A i \in 2..Len(mints) : \E k \in DOMAIN ps : To(mints, ps[k]) = i

LowerEconomic(assets, input, ps, at) ==
    IF /\ Len(ps) \in 1..MaxCandidates /\ Len(assets) <= MaxAssets
       /\ Once(Mints(assets)) /\ Once(Pools(ps))
       /\ \A k \in DOMAIN ps : ps[k].stage = ps[1].stage /\ ps[k].product # None
       /\ Bounded(Mints(assets), ps)
       /\ \A k \in DOMAIN ps : Quoted(ps[k], at)
    THEN [assets |-> assets, input |-> input, minOut |-> 1,
          legs |-> [k \in DOMAIN ps |->
                      Leg(ps[k], assets[From(Mints(assets), ps[k])], assets[To(Mints(assets), ps[k])],
                          0, at, Horizon(ps[k].market, at))]]
    ELSE None

-----------------------------------------------------------------------------
(* Compiling.                                                              *)

\* The first asset, not the last, whose producers are all placed.
Next1(g, placed) ==
    SelectSeq(g.assets, LAMBDA a :
        /\ a.token # Last(g.assets).token /\ a \notin Range(placed)
        /\ \A k \in DOMAIN g.legs : g.legs[k].sink = a.token =>
             \E i \in DOMAIN placed : placed[i].token = g.legs[k].source)
Ordered(g) ==
    FoldLeft(LAMBDA placed, k : IF placed = <<>> THEN placed
                                ELSE IF Next1(g, placed) = <<>> THEN <<>>
                                ELSE Append(placed, Next1(g, placed)[1]),
             <<g.assets[1]>>, [k \in 1..(Len(g.assets) - 2) |-> k])

Tokens(assets) == [i \in DOMAIN assets |-> assets[i].token]

\* Fixed legs: producers run before consumers, the last consumer drains.
Ends(tokens, legs, k) == \A l \in (k + 1)..Len(legs) : legs[l].source # legs[k].source
Drains(tokens, legs, k) ==
    /\ legs[k].source # tokens[1] =>
         /\ \E l \in 1..(k - 1) : legs[l].sink = legs[k].source
         /\ \A l \in k..Len(legs) : legs[l].sink # legs[k].source
         /\ Ends(tokens, legs, k) => legs[k].exact = 0
    /\ legs[k].exact = 0 => Ends(tokens, legs, k)
FixedInput(tokens, legs) ==
    FoldLeft(LAMBDA n, l : n + IF l.source = tokens[1] THEN l.exact ELSE 0, 0, legs)
Allocated(tokens, legs, input) ==
    IF \E k \in DOMAIN legs : legs[k].source = tokens[1] /\ legs[k].exact = 0
    THEN FixedInput(tokens, legs) < input
    ELSE FixedInput(tokens, legs) = input

\* Every edge leads on in the order of the assets, and every asset is made.
Leads(tokens, legs, open) ==
    /\ \A k \in DOMAIN legs : PlaceOf(tokens, legs[k].source) < PlaceOf(tokens, legs[k].sink)
    /\ \A i \in 2..Len(tokens) :
         /\ \E k \in DOMAIN legs : legs[k].sink = tokens[i]
         /\ ~open /\ i < Len(tokens) => \E k \in DOMAIN legs : legs[k].source = tokens[i]

AssetUses(a) == <<Use(a.token, TRUE, FALSE), Use(a.mint, FALSE, FALSE), Use(a.program, FALSE, FALSE)>>
GraphUses(assets, legs) ==
    <<Use(Buyer, FALSE, TRUE), Use(Nonce, TRUE, FALSE)>>
      \o FlattenSeq([i \in DOMAIN assets |-> AssetUses(assets[i])])
      \o FlattenSeq([k \in DOMAIN legs |-> <<Use(legs[k].program, FALSE, FALSE)>> \o legs[k].uses])

\* Nothing that the order relies on is written, and no leg passes an account
\* of the graph's assets beyond its own two.
ReadOnly(assets) == UNION {{assets[i].mint, assets[i].program} : i \in DOMAIN assets}
Protected(assets, legs) ==
    \A k \in DOMAIN legs : \A i \in DOMAIN legs[k].uses : LET u == legs[k].uses[i] IN
        /\ u.writes => u.key \notin ReadOnly(assets)
        /\ u.key # Nonce
        /\ u.key \in Range(Tokens(assets)) => u.key \in {legs[k].source, legs[k].sink}

\* Candidates share nothing that is written but the accounts of the assets.
Independent(assets, legs, table) ==
    \A k, l \in DOMAIN legs : k < l =>
        \A i \in DOMAIN legs[l].uses : LET key == legs[l].uses[i].key IN
            /\ key # Buyer /\ key \notin Range(Tokens(assets)) /\ table[Place(table, key)].writes
            => \A j \in DOMAIN legs[k].uses : legs[k].uses[j].key # key

Row(table, uses) == [i \in DOMAIN uses |-> Place(table, uses[i].key)]
Instruction(g, assets, table, open) ==
    [open |-> open, table |-> table, input |-> g.input, minOut |-> g.minOut,
     assets |-> [i \in DOMAIN assets |-> Row(table, AssetUses(assets[i]))],
     legs |-> [k \in DOMAIN g.legs |->
        [from |-> PlaceOf(Tokens(assets), g.legs[k].source),
         to |-> PlaceOf(Tokens(assets), g.legs[k].sink), exact |-> g.legs[k].exact,
         program |-> Place(table, g.legs[k].program), accounts |-> Row(table, g.legs[k].uses)]]]

CompileOrdered(g, assets, table, open) ==
    IF /\ Len(table) <= MaxAccounts /\ Once(Tokens(assets)) /\ Once(Mints(assets))
       /\ Leads(Tokens(assets), g.legs, open)
       /\ Protected(assets, g.legs)
       /\ IF open THEN Independent(assets, g.legs, table)
          ELSE /\ \A k \in DOMAIN g.legs : Drains(Tokens(assets), g.legs, k)
               /\ Allocated(Tokens(assets), g.legs, g.input)
    THEN Instruction(g, assets, table, open)
    ELSE None
CompileAll(g, assets, open) ==
    CompileOrdered(g, assets, EnterAll(<<>>, GraphUses(assets, g.legs)), open)
CompileGraph(g, open) ==
    IF g = None THEN None
    ELSE IF Ordered(g) = <<>> THEN None
    ELSE CompileAll(g, Append(Ordered(g), Last(g.assets)), open)
=============================================================================
