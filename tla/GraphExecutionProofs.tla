------------------------ MODULE GraphExecutionProofs ------------------------
(***************************************************************************)
(* Proofs about the two executors.  First the settlement program's, for    *)
(* every wallet, every set of signed graphs and every behaviour of the     *)
(* venues; then the kernel's, for every list of venues, every amount and   *)
(* every limit.                                                            *)
(*                                                                         *)
(* The program's argument: what the preflight established stays true       *)
(* while the transaction runs, because the committed state does not move   *)
(* under it (Prepared); the accounts a venue may touch are those of the    *)
(* graph, so the others still hold the committed balance; and a leg is     *)
(* bounded by the residual at the time it is called, so the sum of the     *)
(* legs is bounded by the signed input (KeepsInventory).                   *)
(*                                                                         *)
(* The kernel's argument: the tape is in the order of falling rates, so    *)
(* its rows that belong to a mask are the steps of pouring over that mask  *)
(* alone (TapeServes), and no division of the amount has more area under   *)
(* the compiled curves (TapeIsBest).  A compiled curve is below its venue  *)
(* by no more than its error: chords of a concave curve, cut to whole      *)
(* rates (CompileIs).  So the certificate bounds every split               *)
(* (CertificateIs), and the search, which goes through all the masks,      *)
(* finds a plan where there is one (SearchIs, SearchFinds).  The           *)
(* executor's invariant says that curves are those of the venues as they   *)
(* were, because a venue is used once, and that the venues of a plan that  *)
(* were not invoked yet hold the rest within the limits (RestFits).        *)
(***************************************************************************)
EXTENDS GraphExecution, ReflowKernel, FiniteSums, TLAPS

\* What the preflight established about the transaction that runs.
Prepared ==
    tx # NoTx =>
        /\ nonce = tx.graph.sequence
        /\ tx.graph.others \subseteq Named(tx.graph)
        /\ \A i, j \in 1..tx.graph.count :
              i # j => tx.graph.assets[i] # tx.graph.assets[j]
        /\ tx.tainted \subseteq Named(tx.graph)
        /\ \A t \in Token \ Named(tx.graph) : tx.current[t] = wallet[t]

\* Calls and turns: a leg of a fixed graph is called at its own turn only.
Turning ==
    tx # NoTx =>
        /\ tx.executed < tx.turn
        /\ tx.turn <= Turns + 1
        /\ \A l \in 1..MaxCandidates :
              (l >= tx.turn /\ (~tx.graph.reflow \/ tx.turn = 1)) => tx.used[l] = 0

\* The inductive invariant.
IInv ==
    /\ TypeOK /\ Prepared /\ Turning
    /\ KeepsInventory /\ CandidateWithinBudget /\ NoAuthorityLeft

-----------------------------------------------------------------------------
\* The least of three integers.
LEMMA LeastOfThree ==
    ASSUME NEW a \in Int, NEW b \in Int, NEW c \in Int
    PROVE  /\ Least({a, b, c}) \in {a, b, c}
           /\ Least({a, b, c}) <= a
           /\ Least({a, b, c}) <= b
           /\ Least({a, b, c}) <= c
<1>1. \E x \in {a, b, c} : \A y \in {a, b, c} : x <= y
  <2>1. CASE a <= b /\ a <= c
    BY <2>1
  <2>2. CASE b <= a /\ b <= c
    BY <2>2
  <2>3. CASE c <= a /\ c <= b
    BY <2>3
  <2>. QED  BY <2>1, <2>2, <2>3
<1>. QED  BY <1>1 DEF Least

\* The shape of the running transaction.
LEMMA RunningFacts ==
    ASSUME TypeOK, tx # NoTx
    PROVE  /\ tx \in Running
           /\ tx.graph \in Graphs
           /\ WellFormed(tx.graph)
           /\ Named(tx.graph) \subseteq Token
           /\ tx.graph.others \subseteq Token
           /\ \A i \in 1..tx.graph.count :
                 tx.graph.assets[i] \in Named(tx.graph)
           /\ 1 \in 1..tx.graph.count
           /\ tx.graph.count \in 1..tx.graph.count
<1>1. tx \in Running
  BY DEF TypeOK
<1>2. tx.graph \in Graphs
  BY <1>1 DEF Running
<1>3. WellFormed(tx.graph)
  BY <1>2, GraphAssumption DEF GraphAssumption
<1>4. /\ tx.graph.count \in 2..5
      /\ tx.graph.assets \in [1..tx.graph.count -> Token]
      /\ tx.graph.others \subseteq Token
  BY <1>3 DEF WellFormed
<1>. QED  BY <1>1, <1>2, <1>3, <1>4 DEF Named

\* A leg that the allocation selects is one of the graph's, and it is given no
\* more than it may still spend.
LEMMA SelectedLeg ==
    ASSUME TypeOK, Turning, CandidateWithinBudget, tx # NoTx, tx.turn <= Turns,
           NEW s \in Selections
    PROVE  /\ s[1] \in 1..tx.graph.legCount
           /\ s[1] \in 1..MaxCandidates
           /\ s[2] \in Nat
           /\ tx.graph.legs[s[1]] \in LegType
           /\ tx.graph.legs[s[1]].from < tx.graph.legs[s[1]].to
           /\ tx.graph.legs[s[1]].to <= tx.graph.count
           /\ \/ tx.used[s[1]] = 0
              \/ s[2] <= tx.graph.legs[s[1]].budget - tx.used[s[1]]
<1>1. /\ tx \in Running
      /\ WellFormed(tx.graph)
  BY RunningFacts
<1>2. /\ tx.graph.legCount \in 1..MaxCandidates
      /\ tx.graph.reflow \in BOOLEAN
      /\ tx.graph.seed \in Nat
      /\ tx.turn \in Nat \ {0}
  <2>1. /\ tx.graph.legCount \in 1..(IF tx.graph.reflow THEN MaxCandidates ELSE MaxLegs)
        /\ tx.graph.reflow \in BOOLEAN
        /\ tx.graph.seed \in Nat
    BY <1>1, Zenon DEF WellFormed
  <2>2. tx.turn \in Nat \ {0}
    BY <1>1 DEF Running
  <2>. QED  BY <2>1, <2>2 DEF MaxLegs, MaxCandidates
<1>k. \A l \in 1..tx.graph.legCount :
         /\ tx.graph.legs[l] \in LegType
         /\ tx.graph.legs[l].from < tx.graph.legs[l].to
         /\ tx.graph.legs[l].to <= tx.graph.count
  BY <1>1, Zenon DEF WellFormed
<1>l. \A l \in 1..tx.graph.legCount :
         /\ l \in 1..MaxCandidates
         /\ tx.graph.legs[l] \in LegType
         /\ tx.graph.legs[l].from < tx.graph.legs[l].to
         /\ tx.graph.legs[l].to <= tx.graph.count
  BY <1>2, <1>k DEF MaxCandidates
<1>3. CASE ~tx.graph.reflow
  <2>1. s = <<tx.turn, Unlimited>>
    BY <1>3 DEF Selections
  <2>2. s[1] = tx.turn /\ s[2] = Unlimited
    BY <2>1
  <2>3. tx.turn \in 1..tx.graph.legCount
    BY <1>2, <1>3 DEF Turns
  <2>4. tx.used[s[1]] = 0
    BY <1>2, <1>3, <2>2, <2>3 DEF Turning, MaxCandidates
  <2>. QED  BY <1>l, <2>2, <2>3, <2>4 DEF Unlimited
<1>4. CASE tx.graph.reflow /\ tx.turn = 1 /\ tx.graph.seed # 0
  <2>1. s = <<1, tx.graph.seed>>
    BY <1>4 DEF Selections
  <2>2. s[1] = 1 /\ s[2] = tx.graph.seed
    BY <2>1
  <2>3. 1 \in 1..tx.graph.legCount
    BY <1>2
  <2>4. tx.used[s[1]] = 0
    BY <1>2, <1>4, <2>2 DEF Turning, MaxCandidates
  <2>. QED  BY <1>l, <1>2, <2>2, <2>3, <2>4
<1>5. CASE tx.graph.reflow /\ ~(tx.turn = 1 /\ tx.graph.seed # 0)
  <2>1. s \in {c \in (1..tx.graph.legCount) \X (1..Remaining) :
                  /\ c[2] <= Quotable(c[1])
                  /\ tx.executed + 1 = MaxLegs => c[2] = Remaining}
    BY <1>5 DEF Selections
  <2>2. /\ s[1] \in 1..tx.graph.legCount
        /\ s[2] \in Nat
        /\ s[2] <= Quotable(s[1])
    BY <2>1
  <2>. QED  BY <1>l, <2>2 DEF Quotable
<1>. QED  BY <1>2, <1>3, <1>4, <1>5

-----------------------------------------------------------------------------
\* The first states satisfy the invariant.
LEMMA InitKeeps == Init => IInv
BY GraphAssumption
DEF Init, IInv, TypeOK, Prepared, Turning, KeepsInventory, CandidateWithinBudget,
    NoAuthorityLeft, GraphAssumption

\* A transaction begins with the committed balances.
LEMMA BeginKeeps ==
    ASSUME IInv, NEW g \in Graphs, Begin(g)
    PROVE  IInv'
<1>1. /\ g.count \in 2..5
      /\ g.assets \in [1..g.count -> Token]
      /\ g.input \in Nat \ {0}
      /\ g.others \subseteq Token
      /\ g.legCount \in 1..(IF g.reflow THEN MaxCandidates ELSE MaxLegs)
      /\ \A l \in 1..g.legCount : g.legs[l] \in LegType
  BY GraphAssumption, Zenon DEF GraphAssumption, WellFormed
<1>2. g.legCount \in 1..MaxCandidates
  BY <1>1 DEF MaxLegs, MaxCandidates
<1>3. /\ tx' = [graph |-> g, current |-> wallet, tainted |-> {}, turn |-> 1,
                executed |-> 0, used |-> [l \in 1..MaxCandidates |-> 0]]
      /\ wallet' = wallet /\ tainted' = tainted /\ nonce' = nonce /\ slot' = slot
  BY DEF Begin
<1>4. TypeOK'
  BY <1>3 DEF IInv, TypeOK, Running, MaxLegs
<1>5. /\ Prepared'
      /\ NoAuthorityLeft'
  BY <1>3 DEF Begin, Preflight, IInv, Prepared, NoAuthorityLeft
<1>6. Turning'
  BY <1>1, <1>2, <1>3 DEF Turning, Turns, MaxLegs
<1>7. KeepsInventory'
  BY <1>1, <1>3 DEF IInv, TypeOK, KeepsInventory, Spent, Source
<1>8. CandidateWithinBudget'
  <2>1. \A l \in 1..g.legCount : g.legs[l].budget \in Nat
    BY <1>1 DEF LegType
  <2>2. tx'.graph = g /\ \A l \in 1..MaxCandidates : tx'.used[l] = 0
    BY <1>3
  <2>3. \A l \in 1..g.legCount : l \in 1..MaxCandidates
    BY <1>2 DEF MaxCandidates
  <2>. QED  BY <2>1, <2>2, <2>3 DEF CandidateWithinBudget
<1>. QED  BY <1>4, <1>5, <1>6, <1>7, <1>8 DEF IInv

\* A skipped turn only advances the turn.
LEMMA SkipKeeps ==
    ASSUME IInv, Skip
    PROVE  IInv'
<1>1. /\ tx \in Running
      /\ tx # NoTx
      /\ tx.turn <= Turns
      /\ tx' = [tx EXCEPT !.turn = @ + 1]
      /\ wallet' = wallet /\ tainted' = tainted /\ nonce' = nonce /\ slot' = slot
  BY RunningFacts DEF Skip, IInv
<1>2. /\ tx'.graph = tx.graph
      /\ tx'.current = tx.current
      /\ tx'.tainted = tx.tainted
      /\ tx'.turn = tx.turn + 1
      /\ tx'.executed = tx.executed
      /\ tx'.used = tx.used
      /\ tx' \in Running
  BY <1>1 DEF Running
<1>3. tx.turn \in Nat /\ tx.executed \in Nat
  BY <1>1 DEF Running, MaxLegs
<1>4. TypeOK'
  BY <1>1, <1>2 DEF IInv, TypeOK
<1>5. Prepared' /\ NoAuthorityLeft'
  BY <1>1, <1>2 DEF IInv, Prepared, NoAuthorityLeft
<1>6. Turns' = Turns /\ Turns \in Int
  BY <1>1, <1>2, RunningFacts DEF IInv, Turns, MaxLegs, WellFormed, MaxCandidates
<1>7. Turning'
  BY <1>1, <1>2, <1>3, <1>6 DEF IInv, Turning
<1>8. KeepsInventory' /\ CandidateWithinBudget'
  BY <1>1, <1>2 DEF IInv, KeepsInventory, CandidateWithinBudget, Spent
<1>. QED  BY <1>4, <1>5, <1>7, <1>8 DEF IInv

\* What a call of leg l that leaves the balances after does to the accounts:
\* it moves from one asset to another that is not the source, and what it
\* spends was there to be spent.
Moves(l, after) ==
    LET g == tx.graph
        F == From(g, l)
        T == To(g, l)
        spent == tx.current[F] - after[F]
    IN  /\ after \in [Token -> Nat]
        /\ \A t \in Token \ Named(g) : after[t] = wallet[t]
        /\ spent \in Nat
        /\ spent <= Available(l)
        /\ tx.used[l] + spent <= g.legs[l].budget
        /\ T # Source(g)
        /\ F # T
        /\ after[T] > tx.current[T]
        /\ F # Source(g) => Available(l) = tx.current[F] - wallet[F]
        /\ F = Source(g) => Available(l) = Remaining
        /\ \A t \in Named(g) \ {F, T} : after[t] = tx.current[t]

\* What an accepted venue call may do to the balances of the graph's accounts.
LEMMA CallMoves ==
    ASSUME IInv, tx # NoTx, tx.turn <= Turns,
           NEW s \in Selections,
           NEW change \in [Touchable(tx.graph) -> 0..MaxBalance],
           Budget(s[1], s[2]) > 0,
           Accepts(s[1], Budget(s[1], s[2]), After(change))
    PROVE  Moves(s[1], After(change))
<1>. DEFINE g == tx.graph
            l == s[1]
            F == From(g, l)
            T == To(g, l)
            after == After(change)
            spent == tx.current[F] - after[F]
<1>0. TypeOK /\ Prepared /\ Turning /\ CandidateWithinBudget
  BY DEF IInv
<1>1. /\ tx \in Running
      /\ Named(g) \subseteq Token
      /\ g.count \in 2..5
      /\ g.assets \in [1..g.count -> Token]
      /\ \A i \in 1..g.count : g.assets[i] \in Named(g)
      /\ g.input \in Nat
  <2>1. WellFormed(g)
    BY <1>0, RunningFacts
  <2>2. g.count \in 2..5 /\ g.assets \in [1..g.count -> Token] /\ g.input \in Nat \ {0}
    BY <2>1, Zenon DEF WellFormed
  <2>. QED  BY <1>0, <2>2, RunningFacts
<1>2. /\ l \in 1..MaxCandidates
      /\ s[2] \in Nat
      /\ g.legs[l] \in LegType
      /\ g.legs[l].from < g.legs[l].to
      /\ g.legs[l].to <= g.count
      /\ tx.used[l] = 0 \/ s[2] <= g.legs[l].budget - tx.used[l]
  BY <1>0, SelectedLeg
<1>3. /\ g.legs[l].from \in 1..g.count
      /\ g.legs[l].to \in 1..g.count
      /\ g.legs[l].to # 1
      /\ g.legs[l].from # g.legs[l].to
      /\ g.legs[l].budget \in Nat
  <2>. DEFINE leg == g.legs[l]
             n == g.count
  <2>1. leg.from \in 1..5 /\ leg.to \in 1..5 /\ leg.budget \in Nat
    BY <1>2 DEF LegType
  <2>2. leg.from < leg.to /\ leg.to <= n /\ n \in 2..5
    BY <1>1, <1>2
  <2>. HIDE DEF leg, n
  <2>3. leg.from \in 1..n /\ leg.to \in 1..n /\ leg.to # 1 /\ leg.from # leg.to
    BY <2>1, <2>2
  <2>. QED  BY <2>1, <2>3 DEF leg, n
<1>4. \A i, j \in 1..g.count : i # j => g.assets[i] # g.assets[j]
  BY <1>0 DEF Prepared
<1>5. /\ F \in Named(g) /\ F \in Token
      /\ T \in Named(g) /\ T \in Token
      /\ F # T
      /\ T # Source(g)
      /\ F = Source(g) <=> g.legs[l].from = 1
  <2>1. /\ 1 \in 1..g.count
        /\ F = g.assets[g.legs[l].from]
        /\ T = g.assets[g.legs[l].to]
        /\ Source(g) = g.assets[1]
    BY <1>1 DEF From, To, Source
  <2>2. /\ F \in Named(g) /\ T \in Named(g)
    BY <1>1, <1>3, <2>1
  <2>3. F # T /\ T # Source(g)
    BY <1>3, <1>4, <2>1
  <2>4. F = Source(g) <=> g.legs[l].from = 1
    BY <1>3, <1>4, <2>1
  <2>. QED  BY <1>1, <2>2, <2>3, <2>4
<1>6. /\ tx.current \in [Token -> Nat]
      /\ wallet \in [Token -> Nat]
      /\ tx.used \in [1..MaxCandidates -> Nat]
  BY <1>0, <1>1 DEF TypeOK, Running
<1>7. MaxBalance \in Nat
  BY GraphAssumption DEF GraphAssumption
<1>8. after \in [Token -> Nat]
  BY <1>6, <1>7 DEF After
<1>9. \A t \in Token \ Named(g) : after[t] = wallet[t]
  <2>1. Touchable(g) \subseteq Named(g)
    BY <1>0 DEF Prepared, Touchable
  <2>. QED  BY <1>0, <2>1 DEF Prepared, After
<1>10. /\ spent > 0
       /\ spent <= Budget(l, s[2])
       /\ after[T] > tx.current[T]
       /\ \A t \in Named(g) \ {F, T} : after[t] = tx.current[t]
  BY DEF Accepts
<1>11. /\ Remaining \in Int
       /\ Available(l) \in Int
       /\ F = Source(g) => Available(l) = Remaining
       /\ F # Source(g) => Available(l) = tx.current[F] - wallet[F]
  <2>1. Source(g) \in Token
    BY <1>1 DEF Source
  <2>2. Remaining \in Int
    BY <1>1, <1>6, <2>1 DEF Remaining, Spent
  <2>. QED  BY <1>5, <1>6, <2>2 DEF Available
<1>12. /\ Budget(l, s[2]) <= Available(l)
       /\ Budget(l, s[2]) <= g.legs[l].budget
       /\ Budget(l, s[2]) <= s[2]
       /\ Budget(l, s[2]) \in Int
  <2>1. Budget(l, s[2]) = Least({Available(l), g.legs[l].budget, s[2]})
    BY DEF Budget
  <2>2. g.legs[l].budget \in Int /\ s[2] \in Int /\ Available(l) \in Int
    BY <1>2, <1>3, <1>11
  <2>3. /\ Least({Available(l), g.legs[l].budget, s[2]})
              \in {Available(l), g.legs[l].budget, s[2]}
        /\ Least({Available(l), g.legs[l].budget, s[2]}) <= Available(l)
        /\ Least({Available(l), g.legs[l].budget, s[2]}) <= g.legs[l].budget
        /\ Least({Available(l), g.legs[l].budget, s[2]}) <= s[2]
    BY <2>2, LeastOfThree, Zenon
  <2>. QED  BY <2>1, <2>2, <2>3
<1>13. spent \in Nat /\ spent <= Available(l)
  BY <1>5, <1>6, <1>8, <1>10, <1>11, <1>12
<1>14. tx.used[l] + spent <= g.legs[l].budget
  <2>1. tx.used[l] \in Nat
    BY <1>2, <1>6
  <2>. QED  BY <1>2, <1>3, <1>10, <1>12, <1>13, <2>1
<1>. QED  BY <1>5, <1>8, <1>9, <1>10, <1>11, <1>13, <1>14 DEF Moves

\* A call keeps the invariant, whatever the venue does.
LEMMA CallKeeps ==
    ASSUME IInv, Call
    PROVE  IInv'
<1>0. /\ TypeOK /\ Prepared /\ Turning /\ KeepsInventory
      /\ CandidateWithinBudget /\ NoAuthorityLeft
  BY DEF IInv
<1>1. tx # NoTx /\ tx.turn <= Turns
  BY DEF Call
<1>2. PICK s \in Selections,
           change \in [Touchable(tx.graph) -> 0..MaxBalance],
           taken \in SUBSET Touchable(tx.graph) :
        /\ Budget(s[1], s[2]) > 0
        /\ Accepts(s[1], Budget(s[1], s[2]), After(change))
        /\ tx' = [tx EXCEPT
              !.current = After(change),
              !.tainted = taken,
              !.turn = @ + 1,
              !.executed = @ + 1,
              !.used[s[1]] = @ + (tx.current[From(tx.graph, s[1])]
                                  - After(change)[From(tx.graph, s[1])])]
  BY Zenon DEF Call
<1>. DEFINE g == tx.graph
            l == s[1]
            F == From(g, l)
            T == To(g, l)
            after == After(change)
            spent == tx.current[F] - after[F]
<1>3. UNCHANGED <<wallet, tainted, nonce, slot>>
  BY DEF Call
<1>4. Moves(l, after)
  BY <1>1, <1>2, CallMoves
<1>5. /\ after \in [Token -> Nat]
      /\ \A t \in Token \ Named(g) : after[t] = wallet[t]
      /\ spent \in Nat
      /\ spent <= Available(l)
      /\ tx.used[l] + spent <= g.legs[l].budget
      /\ T # Source(g)
      /\ F # T
      /\ after[T] > tx.current[T]
      /\ F # Source(g) => Available(l) = tx.current[F] - wallet[F]
      /\ F = Source(g) => Available(l) = Remaining
      /\ \A t \in Named(g) \ {F, T} : after[t] = tx.current[t]
  BY <1>4, Zenon DEF Moves
<1>5s. spent = tx.current[F] - after[F]
  OBVIOUS
<1>5t. tx' = [tx EXCEPT !.current = after, !.tainted = taken, !.turn = @ + 1,
                       !.executed = @ + 1, !.used[l] = @ + spent]
  BY <1>2
<1>. HIDE DEF after, spent, F, T, l
<1>6. /\ tx \in Running
      /\ WellFormed(g)
      /\ l \in 1..MaxCandidates
      /\ Named(g) \subseteq Token
  BY <1>0, <1>1, RunningFacts, SelectedLeg DEF l
<1>7. /\ tx.current \in [Token -> Nat]
      /\ tx.used \in [1..MaxCandidates -> Nat]
      /\ tx.turn \in Nat \ {0}
      /\ tx.executed \in 0..MaxLegs
      /\ wallet \in [Token -> Nat]
  BY <1>0, <1>6 DEF TypeOK, Running
<1>8. /\ tx'.graph = g
      /\ tx'.current = after
      /\ tx'.tainted = taken
      /\ tx'.turn = tx.turn + 1
      /\ tx'.executed = tx.executed + 1
      /\ tx'.used = [tx.used EXCEPT ![l] = @ + spent]
  BY <1>5t, <1>6 DEF Running
<1>9. /\ Turns' = Turns
      /\ Turns \in 1..MaxLegs
      /\ g.count \in 2..5
      /\ g.assets \in [1..g.count -> Token]
      /\ g.input \in Nat
      /\ g.legCount \in 1..MaxCandidates
  <2>1. /\ g.legCount \in 1..(IF g.reflow THEN MaxCandidates ELSE MaxLegs)
        /\ g.count \in 2..5
        /\ g.assets \in [1..g.count -> Token]
        /\ g.input \in Nat \ {0}
    BY <1>6, Zenon DEF WellFormed
  <2>. QED  BY <1>8, <2>1 DEF Turns, MaxLegs, MaxCandidates
<1>10. /\ taken \subseteq Named(g)
       /\ taken \subseteq Token
  BY <1>0, <1>1, <1>2, <1>6 DEF Prepared, Touchable
<1>11. TypeOK'
  <2>1. tx.executed + 1 \in 0..MaxLegs
    BY <1>0, <1>1, <1>7, <1>9 DEF Turning, MaxLegs
  <2>2. [tx.used EXCEPT ![l] = @ + spent] \in [1..MaxCandidates -> Nat]
    <3>1. tx.used[l] \in Nat
      BY <1>6, <1>7
    <3>2. spent \in Nat
      BY <1>5, Zenon
    <3>3. tx.used[l] + spent \in Nat
      BY <3>1, <3>2
    <3>. QED  BY <1>7, <3>3
  <2>3. tx' \in Running
    <3>1. tx' = [graph |-> g, current |-> after, tainted |-> taken,
                 turn |-> tx.turn + 1, executed |-> tx.executed + 1,
                 used |-> [tx.used EXCEPT ![l] = @ + spent]]
      BY <1>5t, <1>6 DEF Running
    <3>2. g \in Graphs
      BY <1>6 DEF Running
    <3>3. tx.turn + 1 \in Nat \ {0}
      BY <1>7
    <3>. QED  BY <1>5, <1>10, <2>1, <2>2, <3>1, <3>2, <3>3 DEF Running
  <2>. QED  BY <1>0, <1>3, <2>3 DEF TypeOK
<1>12. Prepared' /\ NoAuthorityLeft'
  BY <1>0, <1>1, <1>3, <1>5, <1>8, <1>10 DEF Prepared, NoAuthorityLeft, Named
<1>13. Turning'
  <2>1. tx.executed + 1 < tx.turn + 1 /\ tx.turn + 1 <= Turns + 1
    BY <1>0, <1>1, <1>7, <1>9 DEF Turning, MaxLegs
  <2>2. ASSUME NEW k \in 1..MaxCandidates, k >= tx.turn + 1, ~g.reflow
        PROVE  tx'.used[k] = 0
    <3>1. s = <<tx.turn, Unlimited>>
      BY <2>2, <1>2 DEF Selections
    <3>2. k # l
      BY <3>1, <2>2, <1>7 DEF MaxCandidates, l
    <3>3. tx.used[k] = 0
      BY <1>0, <1>1, <1>7, <2>2 DEF Turning, MaxCandidates
    <3>. QED  BY <1>7, <1>8, <3>2, <3>3
  <2>3. tx.turn + 1 # 1
    BY <1>7
  <2>. QED  BY <1>8, <1>9, <2>1, <2>2, <2>3 DEF Turning
<1>14. KeepsInventory'
  <2>1. /\ Source(g) \in Named(g)
        /\ Source(g) \in Token
        /\ \A i \in 1..g.count : g.assets[i] \in Named(g) /\ g.assets[i] \in Token
        /\ \A i \in 2..g.count : g.assets[i] # Source(g)
    BY <1>0, <1>1, <1>6, <1>9 DEF Prepared, Source, Named
  <2>2. wallet[Source(g)] - after[Source(g)] <= g.input
    <3>1. CASE F = Source(g)
      <4>. DEFINE w == wallet[Source(g)]
                 b == tx.current[Source(g)]
                 a == after[Source(g)]
                 n == g.input
      <4>1. w \in Nat /\ b \in Nat /\ a \in Nat /\ n \in Nat
        BY <1>5, <1>7, <1>9, <2>1
      <4>2. b - a <= n - (w - b)
        BY <1>5, <1>5s, <3>1 DEF Remaining, Spent
      <4>. HIDE DEF w, b, a, n
      <4>3. w - a <= n
        BY <4>1, <4>2
      <4>. QED  BY <4>3 DEF w, a, n
    <3>2. CASE F # Source(g)
      <4>1. after[Source(g)] = tx.current[Source(g)]
        BY <1>5, <2>1, <3>2
      <4>. QED  BY <1>0, <1>1, <4>1 DEF KeepsInventory, Spent
    <3>. QED  BY <3>1, <3>2
  <2>3. ASSUME NEW i \in 2..g.count
        PROVE  after[g.assets[i]] >= wallet[g.assets[i]]
    <3>. DEFINE t == g.assets[i]
    <3>0. /\ i \in 1..g.count
          /\ t \in Named(g) /\ t \in Token /\ t # Source(g)
          /\ tx.current[t] >= wallet[t]
          /\ tx.current[t] \in Nat /\ after[t] \in Nat /\ wallet[t] \in Nat
      <4>1. i \in 1..g.count
        BY <1>9
      <4>2. t \in Named(g) /\ t \in Token /\ t # Source(g)
        BY <2>1, <4>1
      <4>3. tx.current[t] >= wallet[t]
        BY <1>0, <1>1 DEF KeepsInventory
      <4>4. tx.current[t] \in Nat /\ after[t] \in Nat /\ wallet[t] \in Nat
        BY <1>5, <1>7, <4>2
      <4>. QED  BY <4>1, <4>2, <4>3, <4>4
    <3>. HIDE DEF t
    <3>1. CASE t = F
      BY <1>5, <1>5s, <3>0, <3>1 DEF t
    <3>2. CASE t = T
      BY <1>5, <3>0, <3>2 DEF t
    <3>3. CASE t \notin {F, T}
      BY <1>5, <3>0, <3>3 DEF t
    <3>. QED  BY <3>1, <3>2, <3>3 DEF t
  <2>. QED  BY <1>3, <1>8, <2>2, <2>3 DEF KeepsInventory, Spent, Source
<1>15. CandidateWithinBudget'
  <2>1. ASSUME NEW k \in 1..g.legCount
        PROVE  [tx.used EXCEPT ![l] = @ + spent][k] <= g.legs[k].budget
    <3>1. tx.used[k] <= g.legs[k].budget /\ k \in 1..MaxCandidates
      BY <1>0, <1>1, <1>9 DEF CandidateWithinBudget, MaxCandidates
    <3>2. CASE k = l
      BY <1>5, <1>6, <1>7, <3>2
    <3>3. CASE k # l
      BY <1>7, <3>1, <3>3
    <3>. QED  BY <3>2, <3>3
  <2>. QED  BY <1>8, <2>1 DEF CandidateWithinBudget
<1>. QED  BY <1>11, <1>12, <1>13, <1>14, <1>15 DEF IInv

\* What a graph that settles has done to the wallet.
LEMMA SettleTrades ==
    ASSUME IInv, Settle
    PROVE  /\ Promise!Trade(tx.graph)
           /\ tx.graph \in Graphs
           /\ tainted' = tainted
<1>. DEFINE g == tx.graph
<1>0. /\ TypeOK /\ Prepared /\ NoAuthorityLeft /\ tx # NoTx
  BY DEF IInv, Settle
<1>1. /\ tx \in Running
      /\ g \in Graphs
      /\ Named(g) \subseteq Token
  BY <1>0, RunningFacts
<1>2. /\ g.count \in 2..5
      /\ g.assets \in [1..g.count -> Token]
      /\ g.input \in Nat
      /\ g.minOut \in Nat
      /\ g.sequence \in Nat
  <2>1. WellFormed(g)
    BY <1>0, RunningFacts
  <2>2. /\ g.count \in 2..5
        /\ g.assets \in [1..g.count -> Token]
        /\ g.input \in Nat \ {0}
        /\ g.minOut \in Nat \ {0}
        /\ g.sequence \in Nat
    BY <2>1, Zenon DEF WellFormed
  <2>. QED  BY <2>2
<1>3. /\ tx.current \in [Token -> Nat]
      /\ wallet \in [Token -> Nat]
  BY <1>0, <1>1 DEF TypeOK, Running
<1>4. /\ wallet' = tx.current
      /\ tainted' = tainted \cup tx.tainted
      /\ nonce' = g.sequence + 1
      /\ Spent = g.input
      /\ tx.current[Sink(g)] - wallet[Sink(g)] >= g.minOut
      /\ \A i \in 2..(g.count - 1) : tx.current[g.assets[i]] = wallet[g.assets[i]]
      /\ \A t \in Named(g) : t \notin tx.tainted
  BY DEF Settle, FinalChecks
<1>5. tainted' = tainted
  BY <1>0, <1>4 DEF Prepared
<1>6. Source(g) \in Token /\ Sink(g) \in Token
  BY <1>2 DEF Source, Sink
<1>7. wallet'[Source(g)] = wallet[Source(g)] - g.input
  BY <1>3, <1>4, <1>6, <1>2 DEF Spent
<1>8. wallet'[Sink(g)] >= wallet[Sink(g)] + g.minOut
  BY <1>2, <1>3, <1>4, <1>6
<1>9. ASSUME NEW t \in Token \ {Source(g), Sink(g)}
      PROVE  wallet'[t] = wallet[t]
  <2>1. CASE t \notin Named(g)
    BY <1>0, <1>4, <2>1 DEF Prepared
  <2>2. CASE t \in Named(g)
    <3>1. PICK i \in 1..g.count : t = g.assets[i]
      BY <2>2 DEF Named
    <3>2. i # 1 /\ i # g.count
      BY <1>9, <3>1 DEF Source, Sink
    <3>3. i \in 2..(g.count - 1)
      BY <1>2, <3>2
    <3>. QED  BY <1>4, <3>1, <3>3
  <2>. QED  BY <2>1, <2>2
<1>10. nonce = g.sequence
  BY <1>0 DEF Prepared
<1>. QED  BY <1>1, <1>4, <1>5, <1>7, <1>8, <1>9, <1>10
          DEF Promise!Trade, Promise!Source, Promise!Sink, Source, Sink

\* A transaction that commits hands the wallet over as the checks found it.
LEMMA SettleKeeps ==
    ASSUME IInv, Settle
    PROVE  IInv'
<1>0. /\ TypeOK /\ NoAuthorityLeft /\ tx # NoTx
  BY DEF IInv, Settle
<1>1. tx \in Running /\ WellFormed(tx.graph)
  BY <1>0, RunningFacts
<1>2. tx.current \in [Token -> Nat]
  BY <1>1 DEF Running
<1>3. tx.graph.sequence \in Nat
  BY <1>1, Zenon DEF WellFormed
<1>4. tainted' = tainted
  BY SettleTrades
<1>5. /\ wallet' = tx.current
      /\ nonce' = tx.graph.sequence + 1
      /\ tx' = NoTx
      /\ slot' = slot
  BY DEF Settle
<1>6. TypeOK'
  BY <1>0, <1>2, <1>3, <1>4, <1>5 DEF TypeOK
<1>. QED  BY <1>0, <1>4, <1>5, <1>6
          DEF IInv, Prepared, Turning, KeepsInventory, CandidateWithinBudget, NoAuthorityLeft

\* The steps that leave no transaction behind and no balance changed.
LEMMA IdleKeeps ==
    ASSUME IInv, Abort \/ Initialize \/ Tick
    PROVE  IInv'
<1>1. tx' = NoTx /\ wallet' = wallet /\ tainted' = tainted
  BY DEF Abort, Initialize, Tick
<1>2. nonce' \in Nat \cup {NoNonce} /\ slot' \in Nat
  BY DEF IInv, TypeOK, Abort, Initialize, Tick
<1>3. TypeOK'
  BY <1>1, <1>2 DEF IInv, TypeOK
<1>. QED  BY <1>1, <1>3
          DEF IInv, Prepared, Turning, KeepsInventory, CandidateWithinBudget, NoAuthorityLeft

\* A step of someone else keeps the invariant.
LEMMA StutterKeeps ==
    ASSUME IInv, UNCHANGED vars
    PROVE  IInv'
<1>1. /\ wallet' = wallet /\ tainted' = tainted /\ nonce' = nonce
      /\ slot' = slot /\ tx' = tx
  BY DEF vars
<1>. QED  BY <1>1
          DEF IInv, TypeOK, Prepared, Turning, Turns, KeepsInventory, Spent,
              CandidateWithinBudget, NoAuthorityLeft

\* Every step keeps the invariant.
LEMMA StepKeeps == IInv /\ [Next]_vars => IInv'
<1>. SUFFICES ASSUME IInv, [Next]_vars PROVE IInv'
  OBVIOUS
<1>1. ASSUME NEW g \in Graphs, Begin(g) PROVE IInv'
  BY <1>1, BeginKeeps
<1>2. ASSUME NEW g \in Graphs, Refuse(g) PROVE IInv'
  BY <1>2, StutterKeeps DEF Refuse
<1>3. CASE Skip
  BY <1>3, SkipKeeps
<1>4. CASE Call
  BY <1>4, CallKeeps
<1>5. CASE Settle
  BY <1>5, SettleKeeps
<1>6. CASE Abort \/ Initialize \/ Tick
  BY <1>6, IdleKeeps
<1>7. CASE UNCHANGED vars
  BY <1>7, StutterKeeps
<1>. QED  BY <1>1, <1>2, <1>3, <1>4, <1>5, <1>6, <1>7 DEF Next

\* The inductive invariant holds of every history of transactions.
LEMMA Invariance == Spec => []IInv
BY InitKeeps, StepKeeps, PTL DEF Spec

-----------------------------------------------------------------------------
\* Every variable keeps its type; a graph makes at most four calls.
THEOREM TypeCorrect == Spec => []TypeOK
<1>1. IInv => TypeOK
  BY DEF IInv
<1>. QED  BY <1>1, Invariance, PTL

\* At no point of a graph has a venue taken more than the signed input, or
\* any part of what the wallet held of another asset (the check of each call
\* in execute).
THEOREM InventoryKept == Spec => []KeepsInventory
<1>1. IInv => KeepsInventory
  BY DEF IInv
<1>. QED  BY <1>1, Invariance, PTL

\* However often the allocation returns to a candidate, the candidate spends
\* no more than its signed budget (next in allocation.rs).
THEOREM CandidateBounded == Spec => []CandidateWithinBudget
<1>1. IInv => CandidateWithinBudget
  BY DEF IInv
<1>. QED  BY <1>1, Invariance, PTL

\* No account of the wallet is left with an authority that a venue took,
\* although the venues are called with the wallet's signature.
THEOREM AuthorityReturned == Spec => []NoAuthorityLeft
<1>1. IInv => NoAuthorityLeft
  BY DEF IInv
<1>. QED  BY <1>1, Invariance, PTL

\* Execution implements the promise made to the wallet: whatever the venues
\* do, the wallet sees one whole trade at its own sequence number, or nothing.
THEOREM Implements == Spec => ImplementsTradePromise
<1>1. Init => Promise!PromiseInit
  BY GraphAssumption DEF GraphAssumption, Init, Promise!PromiseInit
<1>2. IInv /\ [Next]_vars => [Promise!PromiseNext]_<<wallet, tainted, nonce>>
  <2>. SUFFICES ASSUME IInv, [Next]_vars
                PROVE  [Promise!PromiseNext]_<<wallet, tainted, nonce>>
    OBVIOUS
  <2>1. ASSUME NEW g \in Graphs, Begin(g) \/ Refuse(g)
        PROVE  UNCHANGED <<wallet, tainted, nonce>>
    BY <2>1 DEF Begin, Refuse, vars
  <2>2. CASE Skip \/ Call \/ Abort \/ Tick
    BY <2>2 DEF Skip, Call, Abort, Tick
  <2>3. CASE Settle
    BY <2>3, SettleTrades DEF Promise!PromiseNext
  <2>4. CASE Initialize
    BY <2>4 DEF Initialize, Promise!PromiseNext, Promise!OpenNonce
  <2>5. CASE UNCHANGED vars
    BY <2>5 DEF vars
  <2>. QED  BY <2>1, <2>2, <2>3, <2>4, <2>5 DEF Next
<1>. QED  BY <1>1, <1>2, Invariance, PTL
          DEF Spec, ImplementsTradePromise, Promise!PromiseSpec

-----------------------------------------------------------------------------
(* Bands.                                                                  *)

\* A total is a sum over what the function is defined on.
LEMMA TotalIs ==
    ASSUME NEW f
    PROVE  Total(f) = SumIn(f, DOMAIN f)
BY DEF Total, SumIn

\* A sum of first members grows by the next.
LEMMA SumUpTo ==
    ASSUME NEW f, NEW k \in Nat \ {0}, \A j \in 1..k : f[j] \in Int
    PROVE  SumIn(f, 1..k) = SumIn(f, 1..(k - 1)) + f[k]
<1>1. IsFiniteSet(1..k) /\ k \in 1..k /\ (1..k) \ {k} = 1..(k - 1)
    BY FS_Interval
<1>2. SumIn(f, 1..k) = f[k] + SumIn(f, 1..(k - 1))
    BY <1>1, SumOfRest
<1>3. IsFiniteSet(1..(k - 1)) /\ \A j \in 1..(k - 1) : f[j] \in Int
    BY FS_Interval
<1>4. SumIn(f, 1..(k - 1)) \in Int /\ f[k] \in Int
    BY <1>1, <1>3, SumOfIntegers
<1> QED BY <1>2, <1>4

\* Bands as the compiler leaves them.
GoodBands(bands) ==
    /\ Len(bands) \in Nat /\ DOMAIN bands = 1..Len(bands)
    /\ \A k \in DOMAIN bands : bands[k].cap \in Nat /\ bands[k].rate \in Nat

\* Capacity and integral of the first bands, band by band.  (ResidualTape)
LEMMA CapIs ==
    ASSUME NEW bands, GoodBands(bands)
    PROVE  /\ CapOf(bands, 0) = 0 /\ AreaOf(bands, 0) = 0
           /\ \A k \in 0..Len(bands) : CapOf(bands, k) \in Nat /\ AreaOf(bands, k) \in Nat
           /\ \A k \in 1..Len(bands) :
                /\ CapOf(bands, k) = CapOf(bands, k - 1) + bands[k].cap
                /\ AreaOf(bands, k) = AreaOf(bands, k - 1) + bands[k].cap * bands[k].rate
<1> DEFINE n == Len(bands)
           c == [j \in 1..n |-> bands[j].cap]
           a == [j \in 1..n |-> bands[j].cap * bands[j].rate]
<1>1. n \in Nat /\ \A j \in 1..n : c[j] \in Nat /\ a[j] \in Nat
    BY DEF GoodBands
<1>2. \A k \in 0..n : IsFiniteSet(1..k) /\ \A j \in 1..k : j \in 1..n
    BY <1>1, FS_Interval
<1>3. \A k \in 0..n : CapOf(bands, k) = SumIn(c, 1..k) /\ AreaOf(bands, k) = SumIn(a, 1..k)
  <2> TAKE k \in 0..n
  <2> DEFINE u == [j \in 1..k |-> bands[j].cap]
             v == [j \in 1..k |-> bands[j].cap * bands[j].rate]
  <2>1. \A j \in 1..k : u[j] = c[j] /\ v[j] = a[j]
      BY <1>2
  <2>2. CapOf(bands, k) = SumIn(u, 1..k) /\ AreaOf(bands, k) = SumIn(v, 1..k)
    <3>1. DOMAIN u = 1..k /\ DOMAIN v = 1..k
        OBVIOUS
    <3>2. CapOf(bands, k) = Total(u) /\ AreaOf(bands, k) = Total(v)
        BY DEF CapOf, AreaOf
    <3> HIDE DEF u, v
    <3> QED BY <3>1, <3>2, TotalIs
  <2> HIDE DEF u, v, c, a
  <2>3. SumIn(u, 1..k) = SumIn(c, 1..k)
      BY <1>2, <2>1, SumOfSame
  <2>4. SumIn(v, 1..k) = SumIn(a, 1..k)
      BY <1>2, <2>1, SumOfSame
  <2> QED BY <2>2, <2>3, <2>4
<1>4. SumIn(c, 1..0) = 0 /\ SumIn(a, 1..0) = 0
  <2>1. 1..0 = {}
      OBVIOUS
  <2>2. SumIn(c, {}) = 0 /\ SumIn(a, {}) = 0
      BY FS_EmptySet, SumUnfolds
  <2> QED BY <2>1, <2>2
<1>5. \A k \in 0..n : SumIn(c, 1..k) \in Nat /\ SumIn(a, 1..k) \in Nat
  <2> HIDE DEF c, a
  <2> QED BY <1>1, <1>2, SumOfNaturals
<1>6. \A k \in 1..n : /\ SumIn(c, 1..k) = SumIn(c, 1..(k - 1)) + c[k]
                      /\ SumIn(a, 1..k) = SumIn(a, 1..(k - 1)) + a[k]
  <2> HIDE DEF c, a
  <2> TAKE k \in 1..n
  <2>1. k \in Nat \ {0} /\ \A j \in 1..k : c[j] \in Int /\ a[j] \in Int
      BY <1>1
  <2> QED BY <2>1, SumUpTo
<1>7. \A k \in 1..n : c[k] = bands[k].cap /\ a[k] = bands[k].cap * bands[k].rate
    OBVIOUS
<1>8. \A k \in 1..n : k \in 0..n /\ k - 1 \in 0..n
    BY <1>1
<1> HIDE DEF c, a
<1> QED BY <1>1, <1>3, <1>4, <1>5, <1>6, <1>7, <1>8

\* More bands hold more.
LEMMA CapGrows ==
    ASSUME NEW bands, GoodBands(bands), NEW j \in 0..Len(bands), NEW k \in 0..Len(bands), j <= k
    PROVE  CapOf(bands, j) <= CapOf(bands, k)
<1> DEFINE n == Len(bands)
           P == {m \in 0..n : m >= j => CapOf(bands, j) <= CapOf(bands, m)}
<1>1. n \in Nat /\ \A m \in 1..n : bands[m].cap \in Nat
    BY DEF GoodBands
<1>2. 0 \in P /\ P \in SUBSET (0..n)
  <2>1. 0 >= j => CapOf(bands, j) <= CapOf(bands, 0)
      BY CapIs
  <2> QED BY <1>1, <2>1
<1>3. ASSUME NEW m \in 1..n, m - 1 \in P PROVE m \in P
  <2>1. CapOf(bands, m) = CapOf(bands, m - 1) + bands[m].cap /\ bands[m].cap \in Nat
      BY <1>1, CapIs
  <2>2. CapOf(bands, m) \in Nat /\ CapOf(bands, m - 1) \in Nat /\ CapOf(bands, j) \in Nat
      BY <1>1, CapIs
  <2>3. m = j \/ (m >= j => m - 1 >= j)
      BY <1>1
  <2> QED BY <1>1, <1>3, <2>1, <2>2, <2>3
<1> HIDE DEF P
<1>4. \A m \in 0..n : m \in P
    BY <1>1, <1>2, <1>3, EveryStep
<1> QED BY <1>4 DEF P

\* Curves that may be poured over, of the venues of a mask.
GoodCurves(curves, mask) ==
    /\ mask \in SUBSET (DOMAIN curves) /\ IsFiniteSet(DOMAIN curves)
    /\ \A i \in DOMAIN curves : i \in Nat
    /\ \A i \in mask : GoodBands(curves[i].bands)

\* How far the venues may have been read.
GoodCursor(curves, mask, cursor) ==
    cursor \in [DOMAIN curves -> Nat] /\ \A i \in mask : cursor[i] <= Len(curves[i].bands)

\* The head of a venue with bands left.
LEMMA HeadIs ==
    ASSUME NEW curves, NEW mask, GoodCurves(curves, mask), NEW cursor, GoodCursor(curves, mask, cursor),
           NEW i \in Sources(curves, mask, cursor)
    PROVE  /\ i \in mask /\ i \in DOMAIN curves /\ i \in Nat
           /\ cursor[i] + 1 \in 1..Len(curves[i].bands) /\ cursor[i] \in 0..(Len(curves[i].bands) - 1)
           /\ curves[i].bands[cursor[i] + 1].cap \in Nat
           /\ curves[i].bands[cursor[i] + 1].rate \in Nat
           /\ Head1(curves, cursor, i) = curves[i].bands[cursor[i] + 1].rate
<1>1. i \in mask /\ i \in DOMAIN curves /\ i \in Nat /\ cursor[i] < Len(curves[i].bands) /\ cursor[i] \in Nat
    BY DEF Sources, GoodCurves, GoodCursor
<1>2. GoodBands(curves[i].bands)
    BY <1>1 DEF GoodCurves
<1>3. cursor[i] + 1 \in 1..Len(curves[i].bands) /\ cursor[i] \in 0..(Len(curves[i].bands) - 1)
    BY <1>1, <1>2 DEF GoodBands
<1> QED BY <1>1, <1>2, <1>3 DEF GoodBands, Head1

\* Where bands are left there is a best one.  (waterfill, winner)
LEMMA BestIs ==
    ASSUME NEW curves, NEW mask, GoodCurves(curves, mask), NEW cursor, GoodCursor(curves, mask, cursor),
           Sources(curves, mask, cursor) # {}
    PROVE  /\ Best(curves, mask, cursor) \in Sources(curves, mask, cursor)
           /\ \A j \in Sources(curves, mask, cursor) : Leads(curves, cursor, Best(curves, mask, cursor), j)
<1> DEFINE S == Sources(curves, mask, cursor)
           R == {r \in S \X S : Leads(curves, cursor, r[1], r[2])}
           h == [i \in S |-> Head1(curves, cursor, i)]
<1>1. IsFiniteSet(S) /\ \A i \in S : i \in Nat /\ h[i] \in Nat /\ h[i] = Head1(curves, cursor, i)
  <2>1. S \in SUBSET (DOMAIN curves) /\ IsFiniteSet(DOMAIN curves)
      BY DEF Sources, GoodCurves
  <2>2. IsFiniteSet(S)
      BY <2>1, FS_Subset
  <2>3. \A i \in S : i \in Nat /\ Head1(curves, cursor, i) \in Nat
      BY HeadIs
  <2> QED BY <2>2, <2>3
<1>2. \A i, j \in S : <<i, j>> \in R <=> Leads(curves, cursor, i, j)
    OBVIOUS
<1>3. \A i, j \in S : Leads(curves, cursor, i, j) <=> (h[j] < h[i] \/ (h[j] = h[i] /\ i <= j))
    BY <1>1 DEF Leads
<1> HIDE DEF R, h
<1>4. \A i, j \in S : <<i, j>> \in R \/ <<j, i>> \in R
  <2> HIDE DEF S
  <2> TAKE i, j \in S
  <2>1. i \in Nat /\ j \in Nat /\ h[i] \in Nat /\ h[j] \in Nat
      BY <1>1
  <2>2. (h[j] < h[i] \/ (h[j] = h[i] /\ i <= j)) \/ (h[i] < h[j] \/ (h[i] = h[j] /\ j <= i))
      BY <2>1
  <2> QED BY <1>2, <1>3, <2>2
<1>5. \A i, j, k \in S : <<i, j>> \in R /\ <<j, k>> \in R => <<i, k>> \in R
    BY <1>1, <1>2, <1>3
<1>6. \E i \in S : \A j \in S : <<i, j>> \in R
  <2> HIDE DEF S
  <2>1. S # {}
      BY DEF S
  <2> QED BY <1>1, <1>4, <1>5, <2>1, FirstOfAll
<1>7. \E i \in S : \A j \in S : Leads(curves, cursor, i, j)
    BY <1>2, <1>6
<1> QED BY <1>7 DEF Best

\* There is only one.
LEMMA BestOnly ==
    ASSUME NEW curves, NEW mask, GoodCurves(curves, mask), NEW cursor, GoodCursor(curves, mask, cursor),
           NEW i \in Sources(curves, mask, cursor),
           \A j \in Sources(curves, mask, cursor) : Leads(curves, cursor, i, j)
    PROVE  Best(curves, mask, cursor) = i
<1> DEFINE b == Best(curves, mask, cursor)
<1>1. b \in Sources(curves, mask, cursor) /\ Leads(curves, cursor, b, i)
    BY BestIs
<1>2. Leads(curves, cursor, i, b)
    BY <1>1
<1>3. /\ i \in Nat /\ b \in Nat
      /\ Head1(curves, cursor, i) \in Nat /\ Head1(curves, cursor, b) \in Nat
  <2> HIDE DEF b
  <2>1. \A j \in Sources(curves, mask, cursor) : j \in Nat /\ Head1(curves, cursor, j) \in Nat
      BY HeadIs
  <2> QED BY <1>1, <2>1
<1> HIDE DEF b
<1>4. i = b
    BY <1>1, <1>2, <1>3 DEF Leads
<1> QED BY <1>4 DEF b

\* A row of the tape counts for its owner.  (ResidualTape::build)
LEMMA PrefixIs ==
    ASSUME NEW owner, NEW i
    PROVE  /\ Prefix(owner, 0, i) = 0
           /\ \A k \in Nat : Prefix(owner, k, i) \in Nat
           /\ \A k \in Nat \ {0} :
                Prefix(owner, k, i) = Prefix(owner, k - 1, i) + IF owner[k] = i THEN 1 ELSE 0
<1> DEFINE S(k) == {j \in 1..k : owner[j] = i}
<1>1. \A k \in Nat : IsFiniteSet(S(k)) /\ Cardinality(S(k)) \in Nat /\ Prefix(owner, k, i) = Cardinality(S(k))
  <2> TAKE k \in Nat
  <2>1. IsFiniteSet(1..k) /\ S(k) \in SUBSET (1..k)
      BY FS_Interval
  <2>2. IsFiniteSet(S(k))
      BY <2>1, FS_Subset
  <2> QED BY <2>2, FS_CardinalityType DEF Prefix
<1>2. S(0) = {}
    OBVIOUS
<1>3. Prefix(owner, 0, i) = 0
    BY <1>1, <1>2, FS_EmptySet
<1>4. \A k \in Nat \ {0} : S(k) = IF owner[k] = i THEN S(k - 1) \cup {k} ELSE S(k - 1)
    OBVIOUS
<1>5. \A k \in Nat \ {0} : k \notin S(k - 1)
    OBVIOUS
<1> HIDE DEF S
<1>6. ASSUME NEW k \in Nat \ {0}
      PROVE  Prefix(owner, k, i) = Prefix(owner, k - 1, i) + IF owner[k] = i THEN 1 ELSE 0
  <2>1. k \in Nat /\ k - 1 \in Nat
      OBVIOUS
  <2>2. Prefix(owner, k - 1, i) = Cardinality(S(k - 1)) /\ Cardinality(S(k - 1)) \in Nat
        /\ Prefix(owner, k, i) = Cardinality(S(k)) /\ IsFiniteSet(S(k - 1))
      BY <1>1, <2>1
  <2>3. CASE owner[k] = i
    <3>1. S(k) = S(k - 1) \cup {k} /\ k \notin S(k - 1)
        BY <1>4, <1>5, <2>3
    <3>2. Cardinality(S(k)) = Cardinality(S(k - 1)) + 1
        BY <2>2, <3>1, FS_AddElement
    <3> QED BY <2>2, <2>3, <3>2
  <2>4. CASE owner[k] # i
    <3>1. S(k) = S(k - 1)
        BY <1>4, <2>4
    <3> QED BY <2>2, <2>4, <3>1
  <2> QED BY <2>3, <2>4
<1> QED BY <1>1, <1>3, <1>6

\* What merging the curves stands for, step by step.
IsMerging(curves, mask, f) ==
    f = [k \in 0..BandsOf(curves, mask) |->
           IF k = 0 THEN Unread(curves) ELSE ReadBest(curves, mask, f[k - 1])]

\* The number of all bands.
LEMMA BandsAre ==
    ASSUME NEW curves, NEW mask, GoodCurves(curves, mask)
    PROVE  /\ BandsOf(curves, mask) \in Nat
           /\ BandsOf(curves, mask) = SumIn([i \in mask |-> Len(curves[i].bands)], mask)
           /\ IsFiniteSet(mask) /\ \A i \in mask : Len(curves[i].bands) \in Nat
<1> DEFINE f == [i \in mask |-> Len(curves[i].bands)]
<1>1. IsFiniteSet(mask)
    BY FS_Subset DEF GoodCurves
<1>2. \A i \in mask : f[i] \in Nat /\ Len(curves[i].bands) \in Nat
    BY DEF GoodCurves, GoodBands
<1>3. BandsOf(curves, mask) = SumIn(f, mask)
  <2>1. BandsOf(curves, mask) = Total(f) /\ DOMAIN f = mask
      BY DEF BandsOf
  <2> HIDE DEF f
  <2> QED BY <2>1, TotalIs
<1>4. SumIn(f, mask) \in Nat
  <2> HIDE DEF f
  <2> QED BY <1>1, <1>2, SumOfNaturals
<1> QED BY <1>1, <1>2, <1>3, <1>4

\* A cursor moves on by one band.
LEMMA OnwardIs ==
    ASSUME NEW D, NEW c \in [D -> Nat], NEW b
    PROVE  Onward(c, b) \in [D -> Nat]
<1>1. CASE b \in D
    BY <1>1 DEF Onward
<1>2. CASE b \notin D
  <2>1. Onward(c, b) = [i \in D |-> c[i]]
      BY <1>2 DEF Onward
  <2> QED BY <2>1
<1> QED BY <1>1, <1>2

\* The tape reads one band after the other.  (ResidualTape::build)
LEMMA MergeRuns ==
    ASSUME NEW curves, NEW mask, GoodCurves(curves, mask)
    PROVE  LET f == Merging(curves, mask) n == BandsOf(curves, mask) IN
           /\ f[0] = Unread(curves)
           /\ \A k \in 0..n : f[k] \in [DOMAIN curves -> Nat]
           /\ \A k \in 1..n : f[k] = ReadBest(curves, mask, f[k - 1])
<1> DEFINE z == Unread(curves)
           n == BandsOf(curves, mask)
           X == [DOMAIN curves -> Nat]
           F == [p \in (1..n) \X X |-> ReadBest(curves, mask, p[2])]
           f == Merging(curves, mask)
<1>0. z \in X /\ n \in Nat
    BY BandsAre DEF Unread
<1>1. F \in [(1..n) \X X -> X] /\ \A k \in 1..n : \A u \in X : F[<<k, u>>] = ReadBest(curves, mask, u)
  <2>1. \A u \in X : ReadBest(curves, mask, u) \in X
      BY OnwardIs DEF ReadBest
  <2> QED BY <2>1
<1> HIDE DEF F
<1>2. PICK g \in [0..n -> X] : g[0] = z /\ \A k \in 1..n : g[k] = F[<<k, g[k - 1]>>]
  <2> HIDE DEF X, z, n
  <2>1. \E g : Runs(g, X, z, n, F)
      BY <1>0, <1>1, Iterated
  <2> QED BY <2>1 DEF Runs
<1>3. \A k \in 1..n : g[k] = ReadBest(curves, mask, g[k - 1])
  <2> TAKE k \in 1..n
  <2>1. k - 1 \in 0..n
      BY <1>0
  <2>2. g[k - 1] \in X
      BY <1>2, <2>1
  <2> HIDE DEF X, n
  <2> QED BY <1>1, <1>2, <2>2
<1>4. IsMerging(curves, mask, g)
  <2>1. g = [k \in 0..n |-> g[k]]
      BY <1>2
  <2>2. \A k \in 0..n : g[k] = IF k = 0 THEN z ELSE ReadBest(curves, mask, g[k - 1])
    <3> HIDE DEF z, n, X, f
    <3> TAKE k \in 0..n
    <3>1. k = 0 \/ k \in 1..n
        BY <1>0
    <3> QED BY <1>2, <1>3, <3>1
  <2> QED BY <2>1, <2>2 DEF IsMerging
<1>5. f = CHOOSE h : IsMerging(curves, mask, h)
    BY DEF Merging, IsMerging
<1>6. IsMerging(curves, mask, f)
    BY <1>4, <1>5
<1> HIDE DEF f, z
<1>7. f[0] = z /\ \A k \in 1..n : f[k] = ReadBest(curves, mask, f[k - 1])
  <2>1. f = [k \in 0..n |-> IF k = 0 THEN z ELSE ReadBest(curves, mask, f[k - 1])]
      BY <1>6 DEF IsMerging, z
  <2> QED BY <1>0, <2>1
<1>8. \A k \in 0..n : f[k] \in X
  <2> DEFINE P == {k \in 0..n : f[k] \in X}
  <2>1. 0 \in P /\ P \in SUBSET (0..n)
      BY <1>0, <1>7
  <2>2. ASSUME NEW k \in 1..n, k - 1 \in P PROVE k \in P
    <3>1. f[k] = ReadBest(curves, mask, f[k - 1]) /\ f[k - 1] \in X /\ k \in 0..n
        BY <1>0, <1>7, <2>2
    <3>2. ReadBest(curves, mask, f[k - 1]) \in X
        BY <3>1, OnwardIs DEF ReadBest
    <3> QED BY <3>1, <3>2
  <2> HIDE DEF P, X, n
  <2>3. \A k \in 0..n : k \in P
      BY <1>0, <2>1, <2>2, EveryStep
  <2> QED BY <2>3 DEF P
<1> QED BY <1>7, <1>8 DEF f, z

\* Row by row, the tape reads the best band that is left, counts it for its
\* owner, and in the end has read all.  (ResidualTape::build)
LEMMA TapeIs ==
    ASSUME NEW curves, NEW mask, GoodCurves(curves, mask)
    PROVE  LET f == Merging(curves, mask) n == BandsOf(curves, mask) t == Tape(curves, mask) IN
           /\ n \in Nat /\ DOMAIN t = 1..n /\ Len(t) = n
           /\ \A k \in 0..n : /\ GoodCursor(curves, mask, f[k])
                              /\ \A i \in mask : f[k][i] = Prefix(t, k, i)
           /\ \A k \in 1..n : /\ t[k] = Best(curves, mask, f[k - 1])
                              /\ t[k] \in Sources(curves, mask, f[k - 1])
           /\ \A i \in mask : Prefix(t, n, i) = Len(curves[i].bands)
<1> DEFINE f == Merging(curves, mask)
           n == BandsOf(curves, mask)
           t == Tape(curves, mask)
           l == [i \in mask |-> Len(curves[i].bands)]
<1>1. /\ n \in Nat /\ n = SumIn(l, mask) /\ IsFiniteSet(mask) /\ \A i \in mask : Len(curves[i].bands) \in Nat
      /\ \A i \in mask : i \in DOMAIN curves
    BY BandsAre DEF GoodCurves
<1>2. /\ f[0] = Unread(curves)
      /\ \A k \in 0..n : f[k] \in [DOMAIN curves -> Nat]
      /\ \A k \in 1..n : f[k] = ReadBest(curves, mask, f[k - 1])
    BY MergeRuns
<1>3. \A k \in 1..n : t[k] = Best(curves, mask, f[k - 1])
    BY DEF Tape
<1>4. DOMAIN t = 1..n /\ Len(t) = n
    BY <1>1 DEF Tape
<1> HIDE DEF f, n, t, l
<1> DEFINE Read(k) == /\ \A i \in mask : f[k][i] <= Len(curves[i].bands) /\ f[k][i] = Prefix(t, k, i)
                      /\ SumIn(f[k], mask) = k
           P == {k \in 0..n : Read(k) /\ (k # n => t[k + 1] \in Sources(curves, mask, f[k]))}
<1>5. ASSUME NEW k \in 0..n, Read(k), k # n PROVE t[k + 1] \in Sources(curves, mask, f[k])
  <2>1. Sources(curves, mask, f[k]) # {}
    <3> SUFFICES ASSUME Sources(curves, mask, f[k]) = {} PROVE FALSE
        OBVIOUS
    <3>1. \A i \in mask : f[k][i] = l[i] /\ l[i] = Len(curves[i].bands)
      <4> TAKE i \in mask
      <4>1. ~(f[k][i] < Len(curves[i].bands)) /\ f[k][i] <= Len(curves[i].bands) /\ f[k][i] \in Nat
          BY <1>1, <1>2, <1>5 DEF Sources
      <4>2. f[k][i] = Len(curves[i].bands)
          BY <1>1, <4>1
      <4> QED BY <4>2 DEF l
    <3>2. SumIn(f[k], mask) = SumIn(l, mask)
        BY <1>1, <3>1, SumOfSame
    <3> QED BY <1>1, <1>5, <3>2
  <2>2. GoodCursor(curves, mask, f[k])
      BY <1>2, <1>5 DEF GoodCursor
  <2>3. k + 1 \in 1..n /\ (k + 1) - 1 = k
      BY <1>1, <1>5
  <2> QED BY <1>3, <2>1, <2>2, <2>3, BestIs
<1>6. 0 \in P /\ P \in SUBSET (0..n)
  <2>1. \A i \in mask : f[0][i] = 0 /\ Prefix(t, 0, i) = 0
      BY <1>1, <1>2, PrefixIs DEF Unread
  <2>2. SumIn(f[0], mask) = 0 * Cardinality(mask)
    <3>1. 0 \in Int
        OBVIOUS
    <3> QED BY <1>1, <2>1, <3>1, SumOfEqual
  <2>3. SumIn(f[0], mask) = 0
      BY <1>1, <2>2, FS_CardinalityType
  <2>4. Read(0) /\ 0 \in 0..n
      BY <1>1, <2>1, <2>3
  <2> QED BY <1>5, <2>4
<1>7. ASSUME NEW k \in 1..n, k - 1 \in P PROVE k \in P
  <2> DEFINE b == t[k]
             g == f[k - 1]
  <2>1. Read(k - 1) /\ b \in Sources(curves, mask, g) /\ k \in 0..n /\ k - 1 \in 0..n /\ k \in Nat \ {0}
    <3>1. k - 1 # n /\ (k - 1) + 1 = k
        BY <1>1
    <3> QED BY <1>1, <1>7, <3>1
  <2>2. f[k] = Onward(g, b) /\ g \in [DOMAIN curves -> Nat]
      BY <1>2, <1>3, <2>1 DEF ReadBest
  <2>3. b \in mask /\ g[b] < Len(curves[b].bands)
      BY <2>1 DEF Sources
  <2>4. \A i \in mask : f[k][i] = g[i] + (IF b = i THEN 1 ELSE 0) /\ g[i] \in Nat
      BY <1>1, <2>2 DEF Onward
  <2>5. \A i \in mask : Prefix(t, k, i) = Prefix(t, k - 1, i) + (IF b = i THEN 1 ELSE 0)
    <3>1. k \in Nat \ {0}
        BY <2>1
    <3> QED BY <3>1, PrefixIs
  <2>6. \A i \in mask : g[i] <= Len(curves[i].bands) /\ g[i] = Prefix(t, k - 1, i)
      BY <2>1
  <2> HIDE DEF b, g
  <2>7. SumIn(f[k], mask) = SumIn(g, mask) + 1
    <3>1. \A i \in mask : g[i] \in Int /\ f[k][i] \in Int
        BY <2>4
    <3>2. (\A i \in mask \ {b} : f[k][i] = g[i]) /\ f[k][b] = g[b] + 1
        BY <2>3, <2>4
    <3> QED BY <1>1, <2>3, <3>1, <3>2, SumWithMore
  <2>8. SumIn(g, mask) = k - 1
      BY <2>1 DEF g
  <2>9. \A i \in mask : f[k][i] <= Len(curves[i].bands) /\ f[k][i] = Prefix(t, k, i)
    <3> TAKE i \in mask
    <3>1. CASE b = i
        BY <1>1, <2>3, <2>4, <2>5, <2>6, <3>1
    <3>2. CASE b # i
        BY <1>1, <2>4, <2>5, <2>6, <3>2
    <3> QED BY <3>1, <3>2
  <2>10. Read(k)
      BY <2>1, <2>7, <2>8, <2>9
  <2> QED BY <1>5, <2>1, <2>10
<1>8. \A k \in 0..n : k \in P
  <2> HIDE DEF P
  <2> QED BY <1>1, <1>6, <1>7, EveryStep
<1>9. \A k \in 0..n : Read(k)
    BY <1>8
<1>10. \A k \in 1..n : t[k] \in Sources(curves, mask, f[k - 1])
  <2> TAKE k \in 1..n
  <2>1. k - 1 \in P /\ k - 1 # n /\ (k - 1) + 1 = k
    <3>1. k - 1 \in 0..n
        BY <1>1
    <3> QED BY <1>1, <1>8, <3>1
  <2> QED BY <2>1
<1>11. \A k \in 0..n : GoodCursor(curves, mask, f[k])
    BY <1>2, <1>9 DEF GoodCursor
<1>12. \A i \in mask : Prefix(t, n, i) = Len(curves[i].bands)
  <2>1. n \in 0..n
      BY <1>1
  <2>2. Read(n)
      BY <1>9, <2>1
  <2>3. \A i \in mask : f[n][i] \in Int /\ l[i] \in Int /\ f[n][i] <= l[i] /\ l[i] = Len(curves[i].bands)
    <3>1. \A i \in mask : l[i] = Len(curves[i].bands)
        BY DEF l
    <3> QED BY <1>1, <1>2, <2>1, <2>2, <3>1
  <2> SUFFICES ASSUME NEW i \in mask, Prefix(t, n, i) # Len(curves[i].bands) PROVE FALSE
      OBVIOUS
  <2> DEFINE q == [j \in mask |-> f[n][j] + IF j = i THEN 1 ELSE 0]
  <2>4. f[n][i] + 1 <= l[i]
      BY <2>2, <2>3
  <2>5. \A j \in mask : q[j] \in Int /\ q[j] <= l[j]
      BY <2>3, <2>4
  <2>6. q[i] = f[n][i] + 1 /\ \A j \in mask \ {i} : q[j] = f[n][j]
    <3>1. \A j \in mask \ {i} : f[n][j] + 0 = f[n][j]
        BY <2>3
    <3> QED BY <3>1
  <2> HIDE DEF q
  <2>7. SumIn(q, mask) = SumIn(f[n], mask) + 1
      BY <1>1, <2>3, <2>5, <2>6, SumWithMore
  <2>8. SumIn(q, mask) <= SumIn(l, mask)
      BY <1>1, <2>3, <2>5, SumAtMost
  <2> QED BY <1>1, <2>2, <2>7, <2>8
<1> QED BY <1>1, <1>3, <1>4, <1>9, <1>10, <1>11, <1>12 DEF f, n, t

\* The rows of the tape up to k that belong to a mask, and their areas.
Rows(owner, k, mask) == SumIn([i \in mask |-> Prefix(owner, k, i)], mask)
Reached(curves, owner, k, mask) ==
    SumIn([i \in mask |-> AreaOf(curves[i].bands, Prefix(owner, k, i))], mask)

\* The band of row k.
RowBand(curves, owner, k) == curves[owner[k]].bands[Prefix(owner, k - 1, owner[k]) + 1]

\* A row is the next band of its owner, and of no other.
IsRow(curves, C, t, k) ==
    /\ t[k] \in C
    /\ Prefix(t, k - 1, t[k]) + 1 \in 1..Len(curves[t[k]].bands)
    /\ RowBand(curves, t, k).cap \in Nat /\ RowBand(curves, t, k).rate \in Nat
    /\ Prefix(t, k, t[k]) = Prefix(t, k - 1, t[k]) + 1
    /\ \A i \in C : i # t[k] => Prefix(t, k, i) = Prefix(t, k - 1, i)

\* Every row is one.
LEMMA RowIs ==
    ASSUME NEW curves, NEW C, GoodCurves(curves, C), NEW t, t = Tape(curves, C)
    PROVE  /\ Len(t) \in Nat /\ DOMAIN t = 1..Len(t)
           /\ \A k \in 1..Len(t) : IsRow(curves, C, t, k)
           /\ \A k \in 0..Len(t) : \A i \in C : Prefix(t, k, i) \in 0..Len(curves[i].bands)
           /\ \A i \in C : Prefix(t, Len(t), i) = Len(curves[i].bands)
<1> DEFINE n == Len(t)
           f == Merging(curves, C)
<1>1. /\ n \in Nat /\ DOMAIN t = 1..n
      /\ \A k \in 0..n : GoodCursor(curves, C, f[k]) /\ \A i \in C : f[k][i] = Prefix(t, k, i)
      /\ \A k \in 1..n : t[k] \in Sources(curves, C, f[k - 1])
      /\ \A i \in C : Prefix(t, n, i) = Len(curves[i].bands)
    BY TapeIs
<1> HIDE DEF n, f
<1>2. \A k \in 0..n : \A i \in C : Prefix(t, k, i) \in 0..Len(curves[i].bands)
  <2> TAKE k \in 0..n
  <2> TAKE i \in C
  <2>1. GoodCursor(curves, C, f[k]) /\ f[k][i] = Prefix(t, k, i) /\ k \in Nat
      BY <1>1
  <2>2. i \in DOMAIN curves /\ Len(curves[i].bands) \in Nat
      BY DEF GoodCurves, GoodBands
  <2> QED BY <2>1, <2>2 DEF GoodCursor
<1>3. ASSUME NEW k \in 1..n PROVE IsRow(curves, C, t, k)
  <2> DEFINE o == t[k]
  <2>1. k - 1 \in 0..n /\ k \in Nat \ {0} /\ k - 1 \in Nat
      BY <1>1
  <2>2. o \in Sources(curves, C, f[k - 1]) /\ GoodCursor(curves, C, f[k - 1])
      BY <1>1, <2>1
  <2>3. /\ o \in C /\ f[k - 1][o] + 1 \in 1..Len(curves[o].bands)
        /\ curves[o].bands[f[k - 1][o] + 1].cap \in Nat
        /\ curves[o].bands[f[k - 1][o] + 1].rate \in Nat
    <3> HIDE DEF o
    <3> QED BY <2>2, HeadIs
  <2>4. f[k - 1][o] = Prefix(t, k - 1, o)
      BY <1>1, <2>1, <2>3
  <2>5. \A i \in C : Prefix(t, k, i) = Prefix(t, k - 1, i) + (IF o = i THEN 1 ELSE 0) /\ Prefix(t, k - 1, i) \in Nat
      BY <2>1, PrefixIs
  <2>6. Prefix(t, k, o) = Prefix(t, k - 1, o) + 1
      BY <2>3, <2>5
  <2>7. \A i \in C : i # o => Prefix(t, k, i) = Prefix(t, k - 1, i)
    <3> HIDE DEF o
    <3> QED BY <2>5
  <2> QED BY <2>3, <2>4, <2>6, <2>7 DEF RowBand, IsRow
<1> QED BY <1>1, <1>2, <1>3 DEF n

\* How a row counts for a mask.
CountsRow(curves, t, mask, k) ==
    /\ t[k] \in mask =>
        /\ Rank(curves, t, k, mask) = Rank(curves, t, k - 1, mask) + RowBand(curves, t, k).cap
        /\ Rows(t, k, mask) = Rows(t, k - 1, mask) + 1
        /\ Reached(curves, t, k, mask) =
             Reached(curves, t, k - 1, mask) + RowBand(curves, t, k).cap * RowBand(curves, t, k).rate
    /\ t[k] \notin mask =>
        /\ Rank(curves, t, k, mask) = Rank(curves, t, k - 1, mask)
        /\ Rows(t, k, mask) = Rows(t, k - 1, mask)
        /\ Reached(curves, t, k, mask) = Reached(curves, t, k - 1, mask)
Counted(curves, t, mask, k) ==
    /\ Rank(curves, t, k, mask) \in Nat /\ Rows(t, k, mask) \in 0..BandsOf(curves, mask)
    /\ Reached(curves, t, k, mask) \in Nat

\* What a row adds to the rows of a mask, to their capacity and to their
\* area.  (ResidualTape::rank)
LEMMA RowStep ==
    ASSUME NEW curves, NEW C, GoodCurves(curves, C), NEW mask \in SUBSET C, NEW t, t = Tape(curves, C)
    PROVE  /\ Rank(curves, t, 0, mask) = 0 /\ Rows(t, 0, mask) = 0 /\ Reached(curves, t, 0, mask) = 0
           /\ \A k \in 0..Len(t) : Counted(curves, t, mask, k)
           /\ \A k \in 1..Len(t) : CountsRow(curves, t, mask, k)
           /\ Rows(t, Len(t), mask) = BandsOf(curves, mask)
<1> DEFINE n == Len(t)
           B(i) == curves[i].bands
           R(k) == [i \in mask |-> CapOf(B(i), Prefix(t, k, i))]
           A(k) == [i \in mask |-> AreaOf(B(i), Prefix(t, k, i))]
           N(k) == [i \in mask |-> Prefix(t, k, i)]
           L == [i \in mask |-> Len(B(i))]
<1>1. /\ \A k \in 1..n : IsRow(curves, C, t, k)
      /\ \A k \in 0..n : \A i \in C : Prefix(t, k, i) \in 0..Len(B(i))
      /\ n \in Nat /\ DOMAIN t = 1..n
      /\ \A i \in C : Prefix(t, n, i) = Len(B(i))
    BY RowIs
<1>2. GoodCurves(curves, mask)
    BY DEF GoodCurves
<1>3. BandsOf(curves, mask) \in Nat /\ BandsOf(curves, mask) = SumIn(L, mask) /\ IsFiniteSet(mask)
    BY <1>2, BandsAre
<1>4. \A i \in mask : GoodBands(B(i)) /\ Len(B(i)) \in Nat
    BY <1>2 DEF GoodCurves, GoodBands
<1> HIDE DEF n
<1>5. \A k : Rank(curves, t, k, mask) = SumIn(R(k), mask) /\ Reached(curves, t, k, mask) = SumIn(A(k), mask)
             /\ Rows(t, k, mask) = SumIn(N(k), mask)
  <2> TAKE k
  <2>1. Rank(curves, t, k, mask) = Total(R(k)) /\ DOMAIN R(k) = mask
      BY DEF Rank
  <2>2. Total(R(k)) = SumIn(R(k), DOMAIN R(k))
    <3> HIDE DEF R
    <3> QED BY TotalIs
  <2> QED BY <2>1, <2>2 DEF Reached, Rows
<1>6. \A k \in 0..n : \A i \in mask : R(k)[i] \in Nat /\ A(k)[i] \in Nat /\ N(k)[i] \in Nat /\ N(k)[i] <= L[i] /\ L[i] \in Nat
  <2> TAKE k \in 0..n
  <2> TAKE i \in mask
  <2>1. Prefix(t, k, i) \in 0..Len(B(i)) /\ Len(B(i)) \in Nat /\ GoodBands(B(i))
      BY <1>1, <1>4
  <2>2. CapOf(B(i), Prefix(t, k, i)) \in Nat /\ AreaOf(B(i), Prefix(t, k, i)) \in Nat
      BY <2>1, CapIs
  <2> QED BY <2>1, <2>2
<1>7. ASSUME NEW k \in 1..n, t[k] \in mask
      PROVE  LET b == RowBand(curves, t, k) o == t[k] IN
             /\ R(k)[o] = R(k - 1)[o] + b.cap /\ A(k)[o] = A(k - 1)[o] + b.cap * b.rate
             /\ N(k)[o] = N(k - 1)[o] + 1
             /\ b.cap \in Nat /\ b.rate \in Nat /\ b.cap * b.rate \in Int
  <2> DEFINE o == t[k]
             p == Prefix(t, k - 1, o)
             b == RowBand(curves, t, k)
  <2>1. p + 1 \in 1..Len(B(o)) /\ Prefix(t, k, o) = p + 1 /\ b = B(o)[p + 1] /\ b.cap \in Nat /\ b.rate \in Nat
      BY <1>1 DEF RowBand, IsRow
  <2>2. GoodBands(B(o))
      BY <1>4, <1>7
  <2> HIDE DEF p, b
  <2>3. p \in Int
    <3>1. k - 1 \in 0..n /\ o \in C
        BY <1>1, <1>7
    <3>2. p \in 0..Len(B(o))
        BY <1>1, <3>1 DEF p
    <3> QED BY <3>2
  <2>4. (p + 1) - 1 = p
      BY <2>3
  <2>5. CapOf(B(o), p + 1) = CapOf(B(o), p) + b.cap /\ AreaOf(B(o), p + 1) = AreaOf(B(o), p) + b.cap * b.rate
      BY <2>1, <2>2, <2>4, CapIs
  <2>6. R(k)[o] = CapOf(B(o), p + 1) /\ R(k - 1)[o] = CapOf(B(o), p)
      BY <1>7, <2>1 DEF p
  <2>7. A(k)[o] = AreaOf(B(o), p + 1) /\ A(k - 1)[o] = AreaOf(B(o), p)
      BY <1>7, <2>1 DEF p
  <2>8. N(k)[o] = p + 1 /\ N(k - 1)[o] = p
      BY <1>7, <2>1 DEF p
  <2>9. b.cap * b.rate \in Int
      BY <2>1
  <2> QED BY <2>1, <2>5, <2>6, <2>7, <2>8, <2>9 DEF b
<1>8. \A k \in 1..n : \A i \in mask : i # t[k] => R(k)[i] = R(k - 1)[i] /\ A(k)[i] = A(k - 1)[i] /\ N(k)[i] = N(k - 1)[i]
    BY <1>1 DEF IsRow
<1>9. \A k \in 1..n : k \in 0..n /\ k - 1 \in 0..n
    BY <1>1
<1>10. \A i \in mask : R(0)[i] = 0 /\ A(0)[i] = 0 /\ N(0)[i] = 0
    BY <1>4, CapIs, PrefixIs
<1>11. \A i \in mask : N(n)[i] = L[i]
    BY <1>1
<1> HIDE DEF R, A, N, L
<1>12. ASSUME NEW k \in 0..n
       PROVE  SumIn(R(k), mask) \in Nat /\ SumIn(A(k), mask) \in Nat /\ SumIn(N(k), mask) \in 0..BandsOf(curves, mask)
  <2>1. \A i \in mask : R(k)[i] \in Nat /\ A(k)[i] \in Nat /\ N(k)[i] \in Nat /\ N(k)[i] <= L[i] /\ L[i] \in Nat
      BY <1>6
  <2>2. SumIn(R(k), mask) \in Nat
      BY <1>3, <2>1, SumOfNaturals
  <2>3. SumIn(A(k), mask) \in Nat
      BY <1>3, <2>1, SumOfNaturals
  <2>4. SumIn(N(k), mask) \in Nat
      BY <1>3, <2>1, SumOfNaturals
  <2>5. SumIn(N(k), mask) <= SumIn(L, mask)
    <3>1. \A i \in mask : N(k)[i] \in Int /\ L[i] \in Int /\ N(k)[i] <= L[i]
        BY <2>1
    <3> QED BY <1>3, <3>1, SumAtMost
  <2> QED BY <1>3, <2>2, <2>3, <2>4, <2>5
<1>13. SumIn(R(0), mask) = 0 /\ SumIn(A(0), mask) = 0 /\ SumIn(N(0), mask) = 0
  <2>1. 0 \in Int /\ Cardinality(mask) \in Nat
      BY <1>3, FS_CardinalityType
  <2>2. 0 * Cardinality(mask) = 0
      BY <2>1
  <2>3. SumIn(R(0), mask) = 0 * Cardinality(mask)
      BY <1>3, <1>10, <2>1, SumOfEqual
  <2>4. SumIn(A(0), mask) = 0 * Cardinality(mask)
      BY <1>3, <1>10, <2>1, SumOfEqual
  <2>5. SumIn(N(0), mask) = 0 * Cardinality(mask)
      BY <1>3, <1>10, <2>1, SumOfEqual
  <2> QED BY <2>2, <2>3, <2>4, <2>5
<1>14. ASSUME NEW k \in 1..n, t[k] \in mask
       PROVE  LET b == RowBand(curves, t, k) IN
              /\ SumIn(R(k), mask) = SumIn(R(k - 1), mask) + b.cap
              /\ SumIn(A(k), mask) = SumIn(A(k - 1), mask) + b.cap * b.rate
              /\ SumIn(N(k), mask) = SumIn(N(k - 1), mask) + 1
  <2> DEFINE b == RowBand(curves, t, k)
             o == t[k]
             d == b.cap * b.rate
             e == b.cap
  <2>1. /\ R(k)[o] = R(k - 1)[o] + e /\ A(k)[o] = A(k - 1)[o] + d
        /\ N(k)[o] = N(k - 1)[o] + 1 /\ e \in Int /\ d \in Int /\ o \in mask
      BY <1>7, <1>14
  <2>2. \A i \in mask : /\ R(k)[i] \in Int /\ A(k)[i] \in Int /\ N(k)[i] \in Int
                        /\ R(k - 1)[i] \in Int /\ A(k - 1)[i] \in Int /\ N(k - 1)[i] \in Int
      BY <1>6, <1>9
  <2>3. \A i \in mask \ {o} : R(k)[i] = R(k - 1)[i] /\ A(k)[i] = A(k - 1)[i] /\ N(k)[i] = N(k - 1)[i]
      BY <1>8
  <2> HIDE DEF b, o, d, e
  <2>4. SumIn(R(k), mask) = SumIn(R(k - 1), mask) + e
      BY <1>3, <2>1, <2>2, <2>3, SumWithMore
  <2>5. SumIn(A(k), mask) = SumIn(A(k - 1), mask) + d
      BY <1>3, <2>1, <2>2, <2>3, SumWithMore
  <2>6. SumIn(N(k), mask) = SumIn(N(k - 1), mask) + 1
    <3>1. 1 \in Int
        OBVIOUS
    <3> QED BY <1>3, <2>1, <2>2, <2>3, <3>1, SumWithMore
  <2> QED BY <2>4, <2>5, <2>6 DEF b, d, e
<1>15. ASSUME NEW k \in 1..n, t[k] \notin mask
       PROVE  /\ SumIn(R(k), mask) = SumIn(R(k - 1), mask)
              /\ SumIn(A(k), mask) = SumIn(A(k - 1), mask)
              /\ SumIn(N(k), mask) = SumIn(N(k - 1), mask)
  <2>1. \A i \in mask : R(k)[i] = R(k - 1)[i] /\ A(k)[i] = A(k - 1)[i] /\ N(k)[i] = N(k - 1)[i]
      BY <1>8, <1>15
  <2>2. SumIn(R(k), mask) = SumIn(R(k - 1), mask)
      BY <1>3, <2>1, SumOfSame
  <2>3. SumIn(A(k), mask) = SumIn(A(k - 1), mask)
      BY <1>3, <2>1, SumOfSame
  <2>4. SumIn(N(k), mask) = SumIn(N(k - 1), mask)
      BY <1>3, <2>1, SumOfSame
  <2> QED BY <2>2, <2>3, <2>4
<1>16. SumIn(N(n), mask) = BandsOf(curves, mask)
    BY <1>3, <1>11, SumOfSame
<1>17. \A k \in 0..n : Counted(curves, t, mask, k)
    BY <1>5, <1>12 DEF Counted
<1>18. \A k \in 1..n : CountsRow(curves, t, mask, k)
    BY <1>5, <1>14, <1>15 DEF CountsRow
<1> QED BY <1>5, <1>13, <1>16, <1>17, <1>18 DEF n

\* What pouring an amount stands for, step by step.
IsPouring(curves, amount, mask, f) ==
    f = [k \in 0..BandsOf(curves, mask) |->
          IF k = 0 THEN [cursor |-> Unread(curves), inputs |-> Unread(curves),
                         left |-> amount, score |-> 0]
          ELSE Pour(curves, mask, f[k - 1])]

\* An amount on its way: what was read, what was given, what is left.
PourState(curves, mask) ==
    {s \in [cursor : [DOMAIN curves -> Nat], inputs : [DOMAIN curves -> Nat], left : Nat, score : Nat] :
        GoodCursor(curves, mask, s.cursor)}

\* A step of the pouring keeps what it counts in range.  (waterfill)
LEMMA PourKeeps ==
    ASSUME NEW curves, NEW mask, GoodCurves(curves, mask), NEW s \in PourState(curves, mask)
    PROVE  Pour(curves, mask, s) \in PourState(curves, mask)
<1> DEFINE i == Best(curves, mask, s.cursor)
           band == curves[i].bands[s.cursor[i] + 1]
           take == Lesser(s.left, band.cap)
<1>1. /\ s \in [cursor : [DOMAIN curves -> Nat], inputs : [DOMAIN curves -> Nat], left : Nat, score : Nat]
      /\ GoodCursor(curves, mask, s.cursor)
    BY DEF PourState
<1>2. CASE s.left = 0 \/ Sources(curves, mask, s.cursor) = {}
    BY <1>2 DEF Pour
<1>3. CASE ~(s.left = 0 \/ Sources(curves, mask, s.cursor) = {})
  <2>1. i \in Sources(curves, mask, s.cursor)
      BY <1>1, <1>3, BestIs
  <2> DEFINE d == PourInto(curves, s, i)
  <2>2. Pour(curves, mask, s) = d
      BY <1>3 DEF Pour
  <2>3. d = [cursor |-> Onward(s.cursor, i), inputs |-> [s.inputs EXCEPT ![i] = @ + take],
             left |-> s.left - take, score |-> s.score + take * band.rate]
      BY DEF PourInto
  <2> HIDE DEF i, d
  <2>4. /\ i \in mask /\ i \in DOMAIN curves /\ s.cursor[i] + 1 \in 1..Len(curves[i].bands)
        /\ band.cap \in Nat /\ band.rate \in Nat
      BY <1>1, <2>1, HeadIs
  <2> HIDE DEF band
  <2>5. take \in Nat /\ take <= s.left
      BY <1>1, <2>4 DEF Lesser
  <2> HIDE DEF take
  <2>6. take * band.rate \in Nat
      BY <2>4, <2>5
  <2>7. Onward(s.cursor, i) \in [DOMAIN curves -> Nat]
      BY <1>1, OnwardIs
  <2>8. [s.inputs EXCEPT ![i] = @ + take] \in [DOMAIN curves -> Nat]
      BY <1>1, <2>4, <2>5
  <2>9. GoodCursor(curves, mask, Onward(s.cursor, i))
    <3>1. \A j \in mask : j \in DOMAIN curves /\ GoodBands(curves[j].bands)
        BY DEF GoodCurves
    <3>2. \A j \in mask : Onward(s.cursor, i)[j] = s.cursor[j] + (IF j = i THEN 1 ELSE 0) /\ s.cursor[j] \in Nat
        BY <1>1, <3>1 DEF Onward
    <3>3. \A j \in mask : Onward(s.cursor, i)[j] <= Len(curves[j].bands)
      <4> TAKE j \in mask
      <4>1. Len(curves[j].bands) \in Nat /\ s.cursor[j] <= Len(curves[j].bands)
          BY <1>1, <3>1 DEF GoodBands, GoodCursor
      <4>2. CASE j = i
          BY <2>4, <3>2, <4>2
      <4>3. CASE j # i
          BY <3>2, <4>1, <4>3
      <4> QED BY <4>2, <4>3
    <3> QED BY <2>7, <3>3 DEF GoodCursor
  <2>10. s.left - take \in Nat /\ s.score + take * band.rate \in Nat
      BY <1>1, <2>5, <2>6
  <2> QED BY <2>2, <2>3, <2>7, <2>8, <2>9, <2>10 DEF PourState
<1> QED BY <1>2, <1>3

\* The pouring goes one step after the other.  (waterfill)
LEMMA PourRuns ==
    ASSUME NEW curves, NEW mask, GoodCurves(curves, mask), NEW amount \in Nat
    PROVE  LET f == Pouring(curves, amount, mask) n == BandsOf(curves, mask) IN
           /\ f[0] = [cursor |-> Unread(curves), inputs |-> Unread(curves), left |-> amount, score |-> 0]
           /\ \A k \in 0..n : f[k] \in PourState(curves, mask)
           /\ \A k \in 1..n : f[k] = Pour(curves, mask, f[k - 1])
<1> DEFINE z == [cursor |-> Unread(curves), inputs |-> Unread(curves), left |-> amount, score |-> 0]
           n == BandsOf(curves, mask)
           X == PourState(curves, mask)
           F == [p \in (1..n) \X X |-> Pour(curves, mask, p[2])]
           f == Pouring(curves, amount, mask)
<1>0. z \in X /\ n \in Nat
  <2>1. Unread(curves) \in [DOMAIN curves -> Nat]
      BY DEF Unread
  <2>2. \A i \in mask : i \in DOMAIN curves /\ Len(curves[i].bands) \in Nat
      BY DEF GoodCurves, GoodBands
  <2>3. GoodCursor(curves, mask, Unread(curves))
      BY <2>1, <2>2 DEF GoodCursor, Unread
  <2> QED BY <2>1, <2>3, BandsAre DEF PourState
<1>1. F \in [(1..n) \X X -> X] /\ \A k \in 1..n : \A u \in X : F[<<k, u>>] = Pour(curves, mask, u)
  <2>1. \A u \in X : Pour(curves, mask, u) \in X
      BY PourKeeps
  <2> HIDE DEF X
  <2> QED BY <2>1
<1> HIDE DEF F, X
<1>2. PICK g \in [0..n -> X] : g[0] = z /\ \A k \in 1..n : g[k] = F[<<k, g[k - 1]>>]
  <2> HIDE DEF z, n
  <2>1. \E g : Runs(g, X, z, n, F)
      BY <1>0, <1>1, Iterated
  <2> QED BY <2>1 DEF Runs
<1>3. \A k \in 1..n : g[k] = Pour(curves, mask, g[k - 1])
  <2> TAKE k \in 1..n
  <2>1. k - 1 \in 0..n
      BY <1>0
  <2>2. g[k - 1] \in X
      BY <1>2, <2>1
  <2> HIDE DEF n
  <2> QED BY <1>1, <1>2, <2>2
<1>4. IsPouring(curves, amount, mask, g)
  <2>1. g = [k \in 0..n |-> g[k]]
      BY <1>2
  <2>2. \A k \in 0..n : g[k] = IF k = 0 THEN z ELSE Pour(curves, mask, g[k - 1])
      BY <1>0, <1>2, <1>3
  <2> QED BY <2>1, <2>2 DEF IsPouring
<1>5. f = CHOOSE h : IsPouring(curves, amount, mask, h)
    BY DEF Pouring, IsPouring
<1>6. IsPouring(curves, amount, mask, f)
    BY <1>4, <1>5
<1> HIDE DEF f
<1>7. f[0] = z /\ \A k \in 1..n : f[k] = Pour(curves, mask, f[k - 1])
  <2>1. f = [k \in 0..n |-> IF k = 0 THEN z ELSE Pour(curves, mask, f[k - 1])]
      BY <1>6 DEF IsPouring
  <2> HIDE DEF z
  <2> QED BY <1>0, <2>1
<1>8. \A k \in 0..n : f[k] \in X
  <2> DEFINE P == {k \in 0..n : f[k] \in X}
  <2>1. 0 \in P /\ P \in SUBSET (0..n)
      BY <1>0, <1>7
  <2>2. ASSUME NEW k \in 1..n, k - 1 \in P PROVE k \in P
    <3>1. f[k] = Pour(curves, mask, f[k - 1]) /\ f[k - 1] \in X /\ k \in 0..n
        BY <1>0, <1>7, <2>2
    <3>2. Pour(curves, mask, f[k - 1]) \in X
        BY <3>1, PourKeeps DEF X
    <3> QED BY <3>1, <3>2
  <2> HIDE DEF P, n
  <2>3. \A k \in 0..n : k \in P
      BY <1>0, <2>1, <2>2, EveryStep
  <2> QED BY <2>3 DEF P
<1> QED BY <1>7, <1>8 DEF f, X

\* What a mask has read, and been given, after the first k rows.
ReadBy(curves, owner, mask, k) == [i \in DOMAIN curves |-> IF i \in mask THEN Prefix(owner, k, i) ELSE 0]
GivenBy(curves, owner, mask, k) ==
    [i \in DOMAIN curves |-> IF i \in mask THEN CapOf(curves[i].bands, Prefix(owner, k, i)) ELSE 0]
StandsAt(curves, owner, mask, x, k) ==
    [cursor |-> ReadBy(curves, owner, mask, k), inputs |-> GivenBy(curves, owner, mask, k),
     left |-> x - Rank(curves, owner, k, mask), score |-> Reached(curves, owner, k, mask)]

\* The next row of a mask is the best of the bands the mask has left: what
\* is best among more venues is best among fewer.  (ResidualTape)
LEMMA RowIsBest ==
    ASSUME NEW curves, NEW C, GoodCurves(curves, C), NEW mask \in SUBSET C,
           NEW t, t = Tape(curves, C), NEW k \in 1..Len(t), t[k] \in mask
    PROVE  LET c == ReadBy(curves, t, mask, k - 1) IN
           /\ GoodCursor(curves, mask, c) /\ t[k] \in Sources(curves, mask, c)
           /\ Best(curves, mask, c) = t[k]
<1> DEFINE n == Len(t)
           f == Merging(curves, C)
           c == ReadBy(curves, t, mask, k - 1)
           o == t[k]
<1>1. /\ n \in Nat
      /\ \A j \in 0..n : GoodCursor(curves, C, f[j]) /\ \A i \in C : f[j][i] = Prefix(t, j, i)
      /\ \A j \in 1..n : t[j] = Best(curves, C, f[j - 1]) /\ t[j] \in Sources(curves, C, f[j - 1])
      /\ k \in 1..n /\ o \in mask
    BY TapeIs
<1>2. GoodCurves(curves, mask) /\ \A i \in C : i \in DOMAIN curves
    BY DEF GoodCurves
<1> HIDE DEF n, f
<1>3. k - 1 \in 0..n
    BY <1>1
<1>4. \A i \in mask : c[i] = f[k - 1][i] /\ c[i] \in Nat /\ c[i] <= Len(curves[i].bands)
  <2> TAKE i \in mask
  <2>1. i \in DOMAIN curves /\ i \in C /\ f[k - 1][i] = Prefix(t, k - 1, i)
      BY <1>1, <1>2, <1>3
  <2>2. c[i] = Prefix(t, k - 1, i)
      BY <2>1 DEF ReadBy
  <2>3. f[k - 1][i] \in Nat /\ f[k - 1][i] <= Len(curves[i].bands)
      BY <1>1, <1>3, <2>1 DEF GoodCursor
  <2> QED BY <2>1, <2>2, <2>3
<1>5. GoodCursor(curves, mask, c)
  <2>1. c \in [DOMAIN curves -> Nat]
    <3>1. \A i \in DOMAIN curves : c[i] \in Nat
        BY <1>4 DEF ReadBy
    <3>2. c = [i \in DOMAIN curves |-> c[i]]
        BY DEF ReadBy
    <3> HIDE DEF c
    <3> QED BY <3>1, <3>2
  <2> QED BY <1>4, <2>1 DEF GoodCursor
<1> HIDE DEF c
<1>6. \A i \in Sources(curves, mask, c) : i \in Sources(curves, C, f[k - 1]) /\ Head1(curves, c, i) = Head1(curves, f[k - 1], i)
    BY <1>4 DEF Sources, Head1
<1>7. o \in Sources(curves, mask, c)
  <2>1. o \in Sources(curves, C, f[k - 1])
      BY <1>1
  <2> QED BY <1>1, <1>4, <2>1 DEF Sources
<1>8. \A j \in Sources(curves, mask, c) : Leads(curves, c, o, j)
  <2>1. Sources(curves, C, f[k - 1]) # {} /\ GoodCursor(curves, C, f[k - 1]) /\ Best(curves, C, f[k - 1]) = o
      BY <1>1, <1>3
  <2>2. \A j \in Sources(curves, C, f[k - 1]) : Leads(curves, f[k - 1], o, j)
      BY <2>1, BestIs
  <2> QED BY <1>6, <1>7, <2>2 DEF Leads
<1>9. Best(curves, mask, c) = o
  <2> HIDE DEF o
  <2> QED BY <1>2, <1>5, <1>7, <1>8, BestOnly
<1> QED BY <1>5, <1>7, <1>9 DEF c

\* What the next row changes of what a mask has read and been given.
ReadsRow(curves, t, mask, k) ==
    /\ t[k] \in mask =>
         /\ ReadBy(curves, t, mask, k) = Onward(ReadBy(curves, t, mask, k - 1), t[k])
         /\ GivenBy(curves, t, mask, k) =
              [GivenBy(curves, t, mask, k - 1) EXCEPT ![t[k]] = @ + RowBand(curves, t, k).cap]
         /\ curves[t[k]].bands[ReadBy(curves, t, mask, k - 1)[t[k]] + 1] = RowBand(curves, t, k)
    /\ t[k] \notin mask =>
         /\ ReadBy(curves, t, mask, k) = ReadBy(curves, t, mask, k - 1)
         /\ GivenBy(curves, t, mask, k) = GivenBy(curves, t, mask, k - 1)

\* Every row changes that.
LEMMA RowRead ==
    ASSUME NEW curves, NEW C, GoodCurves(curves, C), NEW mask \in SUBSET C,
           NEW t, t = Tape(curves, C)
    PROVE  /\ \A k \in 1..Len(t) : ReadsRow(curves, t, mask, k)
           /\ \A k \in 0..Len(t) : GivenBy(curves, t, mask, k) \in [DOMAIN curves -> Nat]
<1> DEFINE n == Len(t)
           D == DOMAIN curves
<1>1. /\ \A k \in 1..n : IsRow(curves, C, t, k)
      /\ \A k \in 0..n : \A i \in C : Prefix(t, k, i) \in 0..Len(curves[i].bands)
      /\ n \in Nat
    BY RowIs
<1>2. \A i \in C : i \in D /\ GoodBands(curves[i].bands)
    BY DEF GoodCurves
<1> HIDE DEF n
<1>3. \A k \in 0..n : \A i \in C : CapOf(curves[i].bands, Prefix(t, k, i)) \in Nat /\ Prefix(t, k, i) \in Nat
  <2> TAKE k \in 0..n
  <2> TAKE i \in C
  <2>1. Prefix(t, k, i) \in 0..Len(curves[i].bands) /\ GoodBands(curves[i].bands)
      BY <1>1, <1>2
  <2> QED BY <2>1, CapIs
<1>4. \A k \in 0..n : GivenBy(curves, t, mask, k) \in [D -> Nat]
    BY <1>3 DEF GivenBy
<1>5. ASSUME NEW k \in 1..n PROVE ReadsRow(curves, t, mask, k)
  <2> DEFINE o == t[k]
             p == Prefix(t, k - 1, o)
             r == ReadBy(curves, t, mask, k - 1)
             g == GivenBy(curves, t, mask, k - 1)
  <2>1. /\ o \in C /\ p + 1 \in 1..Len(curves[o].bands) /\ Prefix(t, k, o) = p + 1
        /\ \A i \in C : i # o => Prefix(t, k, i) = Prefix(t, k - 1, i)
        /\ RowBand(curves, t, k) = curves[o].bands[p + 1]
      BY <1>1 DEF IsRow, RowBand
  <2>2. k \in 0..n /\ k - 1 \in 0..n
      BY <1>1
  <2>3. p \in Nat /\ o \in D
      BY <1>2, <1>3, <2>1, <2>2
  <2> HIDE DEF o
  <2>4. CASE o \in mask
    <3>1. CapOf(curves[o].bands, p + 1) = CapOf(curves[o].bands, p) + curves[o].bands[p + 1].cap
      <4>1. GoodBands(curves[o].bands) /\ (p + 1) - 1 = p
          BY <1>2, <2>1, <2>3
      <4> QED BY <2>1, <4>1, CapIs
    <3>2. r[o] = p
        BY <2>3, <2>4 DEF ReadBy
    <3>3. ReadBy(curves, t, mask, k) = Onward(r, o)
      <4>1. \A i \in D : ReadBy(curves, t, mask, k)[i] = r[i] + IF i = o THEN 1 ELSE 0
        <5> TAKE i \in D
        <5>1. CASE i = o
            BY <2>1, <2>4, <3>2, <5>1 DEF ReadBy
        <5>2. CASE i # o /\ i \in mask
          <6>1. Prefix(t, k, i) = Prefix(t, k - 1, i) /\ Prefix(t, k - 1, i) \in Nat
              BY <1>3, <2>1, <2>2, <5>2
          <6> QED BY <5>2, <6>1 DEF ReadBy
        <5>3. CASE i \notin mask
            BY <2>4, <5>3 DEF ReadBy
        <5> QED BY <5>1, <5>2, <5>3
      <4>2. ReadBy(curves, t, mask, k) = [i \in D |-> ReadBy(curves, t, mask, k)[i]]
            /\ DOMAIN r = D /\ \A i \in D : r[i] \in Nat
          BY <1>3, <2>2 DEF ReadBy
      <4>3. \A i \in D : Onward(r, o)[i] = r[i] + IF i = o THEN 1 ELSE 0
          BY <4>2 DEF Onward
      <4>4. Onward(r, o) = [i \in D |-> Onward(r, o)[i]]
          BY <4>2 DEF Onward
      <4> HIDE DEF r
      <4> QED BY <4>1, <4>2, <4>3, <4>4
    <3>4. GivenBy(curves, t, mask, k) = [g EXCEPT ![o] = @ + RowBand(curves, t, k).cap]
      <4>1. \A i \in D : GivenBy(curves, t, mask, k)[i] = IF i = o THEN g[i] + RowBand(curves, t, k).cap ELSE g[i]
          BY <2>1, <2>4, <3>1 DEF GivenBy
      <4>2. GivenBy(curves, t, mask, k) = [i \in D |-> GivenBy(curves, t, mask, k)[i]] /\ DOMAIN g = D
          BY DEF GivenBy
      <4>3. GivenBy(curves, t, mask, k) = [i \in D |-> IF i = o THEN g[i] + RowBand(curves, t, k).cap ELSE g[i]]
          BY <4>1, <4>2
      <4> HIDE DEF g
      <4> QED BY <4>2, <4>3
    <3> QED BY <2>1, <2>4, <3>2, <3>3, <3>4 DEF ReadsRow, o
  <2>5. CASE o \notin mask
    <3>1. \A i \in mask : i \in C /\ i # o
        BY <2>5
    <3>2. \A i \in mask : Prefix(t, k, i) = Prefix(t, k - 1, i)
        BY <2>1, <3>1
    <3>3. ReadBy(curves, t, mask, k) = r /\ GivenBy(curves, t, mask, k) = g
        BY <3>2 DEF ReadBy, GivenBy
    <3> QED BY <2>5, <3>3 DEF ReadsRow, o
  <2> QED BY <2>4, <2>5
<1> QED BY <1>4, <1>5 DEF n

\* Pouring over a mask takes the mask's rows of the tape one by one, as long
\* as they do not suffice.
LEMMA PourFollows ==
    ASSUME NEW curves, NEW C, GoodCurves(curves, C), NEW mask \in SUBSET C, NEW x \in Nat \ {0},
           NEW t, t = Tape(curves, C)
    PROVE  \A k \in 0..Len(t) : Rank(curves, t, k, mask) < x =>
               Pouring(curves, x, mask)[Rows(t, k, mask)] = StandsAt(curves, t, mask, x, k)
<1> DEFINE f == Pouring(curves, x, mask)
           n == Len(t)
           P == {k \in 0..n : Rank(curves, t, k, mask) < x =>
                    f[Rows(t, k, mask)] = StandsAt(curves, t, mask, x, k)}
<1>1. GoodCurves(curves, mask)
    BY DEF GoodCurves
<1>2. /\ f[0] = [cursor |-> Unread(curves), inputs |-> Unread(curves), left |-> x, score |-> 0]
      /\ \A k \in 1..BandsOf(curves, mask) : f[k] = Pour(curves, mask, f[k - 1])
    BY <1>1, PourRuns
<1>3. n \in Nat /\ \A k \in 1..n : IsRow(curves, C, t, k)
    BY RowIs
<1>4. /\ Rank(curves, t, 0, mask) = 0 /\ Rows(t, 0, mask) = 0 /\ Reached(curves, t, 0, mask) = 0
      /\ \A k \in 0..n : Counted(curves, t, mask, k)
      /\ \A k \in 1..n : CountsRow(curves, t, mask, k)
    BY RowStep
<1>5. \A k \in 1..n : ReadsRow(curves, t, mask, k)
    BY RowRead
<1>6. 0 \in P /\ P \in SUBSET (0..n)
  <2>1. \A i \in mask : CapOf(curves[i].bands, 0) = 0
      BY <1>1, CapIs DEF GoodCurves
  <2>2. ReadBy(curves, t, mask, 0) = Unread(curves)
      BY PrefixIs DEF ReadBy, Unread
  <2>3. GivenBy(curves, t, mask, 0) = Unread(curves)
      BY <2>1, PrefixIs DEF GivenBy, Unread
  <2> HIDE DEF f
  <2> QED BY <1>2, <1>3, <1>4, <2>2, <2>3 DEF StandsAt
<1>7. ASSUME NEW k \in 1..n, k - 1 \in P PROVE k \in P
  <2> DEFINE o == t[k]
             b == RowBand(curves, t, k)
             s == StandsAt(curves, t, mask, x, k - 1)
  <2>1. k \in 0..n /\ k - 1 \in 0..n
      BY <1>3
  <2>2. CASE o \notin mask
    <3>1. Rank(curves, t, k, mask) = Rank(curves, t, k - 1, mask) /\ Rows(t, k, mask) = Rows(t, k - 1, mask)
          /\ Reached(curves, t, k, mask) = Reached(curves, t, k - 1, mask)
        BY <1>4, <2>2 DEF CountsRow
    <3>2. ReadBy(curves, t, mask, k) = ReadBy(curves, t, mask, k - 1) /\ GivenBy(curves, t, mask, k) = GivenBy(curves, t, mask, k - 1)
        BY <1>5, <2>2 DEF ReadsRow
    <3> HIDE DEF f
    <3>3. StandsAt(curves, t, mask, x, k) = s
        BY <3>1, <3>2 DEF StandsAt
    <3> QED BY <1>7, <2>1, <3>1, <3>3
  <2>3. CASE o \in mask /\ Rank(curves, t, k, mask) < x
    <3>1. /\ Rank(curves, t, k, mask) = Rank(curves, t, k - 1, mask) + b.cap
          /\ Rows(t, k, mask) = Rows(t, k - 1, mask) + 1
          /\ Reached(curves, t, k, mask) = Reached(curves, t, k - 1, mask) + b.cap * b.rate
        BY <1>4, <2>3 DEF CountsRow
    <3>2. b.cap \in Nat /\ b.rate \in Nat
        BY <1>3 DEF IsRow
    <3>3. /\ ReadBy(curves, t, mask, k) = Onward(ReadBy(curves, t, mask, k - 1), o)
          /\ GivenBy(curves, t, mask, k) = [GivenBy(curves, t, mask, k - 1) EXCEPT ![o] = @ + b.cap]
          /\ curves[o].bands[ReadBy(curves, t, mask, k - 1)[o] + 1] = b
        BY <1>5, <2>3 DEF ReadsRow
    <3>4. /\ o \in Sources(curves, mask, ReadBy(curves, t, mask, k - 1))
          /\ Best(curves, mask, ReadBy(curves, t, mask, k - 1)) = o
        BY <2>3, RowIsBest
    <3> HIDE DEF f, b, o
    <3>5. Rank(curves, t, k - 1, mask) < x /\ Rank(curves, t, k - 1, mask) \in Nat /\ Rank(curves, t, k, mask) \in Nat
        BY <1>4, <2>1, <2>3, <3>1, <3>2 DEF Counted
    <3>6. f[Rows(t, k - 1, mask)] = s
        BY <1>7, <3>5
    <3>7. f[Rows(t, k, mask)] = Pour(curves, mask, s)
      <4>1. Rows(t, k, mask) \in 0..BandsOf(curves, mask) /\ Rows(t, k - 1, mask) \in 0..BandsOf(curves, mask)
          BY <1>4, <2>1 DEF Counted
      <4>2. Rows(t, k, mask) \in 1..BandsOf(curves, mask) /\ Rows(t, k, mask) - 1 = Rows(t, k - 1, mask)
          BY <3>1, <4>1
      <4> HIDE DEF s
      <4> QED BY <1>2, <3>6, <4>2
    <3>8. /\ s.left = x - Rank(curves, t, k - 1, mask) /\ s.cursor = ReadBy(curves, t, mask, k - 1)
          /\ s.inputs = GivenBy(curves, t, mask, k - 1) /\ s.score = Reached(curves, t, k - 1, mask)
        BY DEF StandsAt
    <3> HIDE DEF s
    <3>9. Lesser(s.left, b.cap) = b.cap /\ s.left # 0 /\ s.left - b.cap = x - Rank(curves, t, k, mask)
        BY <2>3, <3>1, <3>2, <3>5, <3>8 DEF Lesser
    <3>10. Pour(curves, mask, s) = PourInto(curves, s, o)
        BY <3>4, <3>8, <3>9 DEF Pour
    <3>11. PourInto(curves, s, o) = StandsAt(curves, t, mask, x, k)
        BY <3>1, <3>3, <3>8, <3>9 DEF PourInto, StandsAt
    <3> QED BY <2>1, <3>7, <3>10, <3>11
  <2>4. CASE ~(Rank(curves, t, k, mask) < x)
      BY <2>1, <2>4
  <2> QED BY <2>2, <2>3, <2>4
<1>8. \A k \in 0..n : k \in P
  <2> HIDE DEF P, n
  <2> QED BY <1>3, <1>6, <1>7, EveryStep
<1> QED BY <1>8

\* Bands without atoms have no area.
LEMMA NoCapNoArea ==
    ASSUME NEW bands, GoodBands(bands), NEW k \in 0..Len(bands), CapOf(bands, k) = 0
    PROVE  AreaOf(bands, k) = 0
<1> DEFINE n == Len(bands)
           P == {m \in 0..n : CapOf(bands, m) = 0 => AreaOf(bands, m) = 0}
<1>1. n \in Nat /\ \A m \in 1..n : bands[m].cap \in Nat /\ bands[m].rate \in Nat
    BY DEF GoodBands
<1>2. 0 \in P /\ P \in SUBSET (0..n)
    BY <1>1, CapIs
<1>3. ASSUME NEW m \in 1..n, m - 1 \in P PROVE m \in P
  <2>1. CapOf(bands, m) = CapOf(bands, m - 1) + bands[m].cap
        /\ AreaOf(bands, m) = AreaOf(bands, m - 1) + bands[m].cap * bands[m].rate
      BY CapIs
  <2>2. m \in 0..n /\ m - 1 \in 0..n /\ CapOf(bands, m - 1) \in Nat
      BY <1>1, CapIs
  <2>3. bands[m].cap = 0 => bands[m].cap * bands[m].rate = 0
      BY <1>1
  <2> QED BY <1>1, <1>3, <2>1, <2>2, <2>3
<1>4. \A m \in 0..n : m \in P
  <2> HIDE DEF P
  <2> QED BY <1>1, <1>2, <1>3, EveryStep
<1> QED BY <1>4

\* The pouring ends at the row that suffices, of which it takes what is left.
LEMMA PourEnds ==
    ASSUME NEW curves, NEW C, GoodCurves(curves, C), NEW mask \in SUBSET C, NEW x \in Nat \ {0},
           NEW t, t = Tape(curves, C), NEW r \in 1..Len(t),
           Rank(curves, t, r, mask) >= x, Rank(curves, t, r - 1, mask) < x
    PROVE  LET part == x - Rank(curves, t, r - 1, mask)
               end == Pouring(curves, x, mask)[BandsOf(curves, mask)]
           IN  /\ t[r] \in mask /\ part \in Nat \ {0} /\ part <= RowBand(curves, t, r).cap
               /\ end.left = 0
               /\ end.inputs = [GivenBy(curves, t, mask, r - 1) EXCEPT ![t[r]] = @ + part]
               /\ end.score = Reached(curves, t, r - 1, mask) + part * RowBand(curves, t, r).rate
<1> DEFINE n == Len(t)
           N == BandsOf(curves, mask)
           o == t[r]
           b == RowBand(curves, t, r)
           part == x - Rank(curves, t, r - 1, mask)
           f == Pouring(curves, x, mask)
           s == StandsAt(curves, t, mask, x, r - 1)
           e == PourInto(curves, s, o)
           m == Rows(t, r, mask)
<1>0. GoodCurves(curves, mask)
    BY DEF GoodCurves
<1>1. n \in Nat /\ b.cap \in Nat /\ b.rate \in Nat /\ N \in Nat
  <2>1. n \in Nat /\ IsRow(curves, C, t, r)
      BY RowIs
  <2> QED BY <1>0, <2>1, BandsAre DEF IsRow
<1>2. /\ \A k \in 0..n : Rank(curves, t, k, mask) \in Nat /\ Rows(t, k, mask) \in 0..N
      /\ r \in 0..n /\ r - 1 \in 0..n
  <2>1. \A k \in 0..n : Counted(curves, t, mask, k)
      BY RowStep
  <2> QED BY <1>1, <2>1 DEF Counted
<1>3. /\ o \in mask /\ m = Rows(t, r - 1, mask) + 1
      /\ Rank(curves, t, r, mask) = Rank(curves, t, r - 1, mask) + b.cap
  <2>1. CountsRow(curves, t, mask, r)
      BY RowStep
  <2>2. o \in mask
      BY <1>2, <2>1 DEF CountsRow
  <2> QED BY <2>1, <2>2 DEF CountsRow
<1>4. f[Rows(t, r - 1, mask)] = s
    BY <1>2, PourFollows
<1>5. \A k \in 1..N : f[k] = Pour(curves, mask, f[k - 1])
  <2>1. /\ f[0] = [cursor |-> Unread(curves), inputs |-> Unread(curves), left |-> x, score |-> 0]
        /\ \A k \in 1..BandsOf(curves, mask) : f[k] = Pour(curves, mask, f[k - 1])
      BY <1>0, PourRuns
  <2> HIDE DEF f
  <2> QED BY <2>1
<1>6. /\ o \in Sources(curves, mask, ReadBy(curves, t, mask, r - 1))
      /\ Best(curves, mask, ReadBy(curves, t, mask, r - 1)) = o
    BY <1>3, RowIsBest
<1>7. curves[o].bands[ReadBy(curves, t, mask, r - 1)[o] + 1] = b
  <2>1. ReadsRow(curves, t, mask, r)
      BY RowRead
  <2> QED BY <1>3, <2>1 DEF ReadsRow
<1>8. /\ s.left = part /\ s.cursor = ReadBy(curves, t, mask, r - 1)
      /\ s.inputs = GivenBy(curves, t, mask, r - 1) /\ s.score = Reached(curves, t, r - 1, mask)
    BY DEF StandsAt
<1>9. part \in Nat \ {0} /\ part <= b.cap
  <2> DEFINE p == Rank(curves, t, r - 1, mask)
             q == Rank(curves, t, r, mask)
             h == b.cap
  <2>1. p \in Nat /\ q \in Nat /\ h \in Nat /\ q = p + h /\ q >= x /\ p < x /\ part = x - p
      BY <1>1, <1>2, <1>3
  <2> HIDE DEF p, q, h, part
  <2>2. part \in Nat \ {0} /\ part <= h
      BY <2>1
  <2> QED BY <2>2 DEF h
<1> HIDE DEF n, N, o, b, part, f, s, m
<1>10. /\ e.left = 0 /\ e.inputs = [GivenBy(curves, t, mask, r - 1) EXCEPT ![o] = @ + part]
       /\ e.score = Reached(curves, t, r - 1, mask) + part * b.rate
  <2>1. Lesser(s.left, b.cap) = part /\ s.left - part = 0
      BY <1>1, <1>8, <1>9 DEF Lesser
  <2> QED BY <1>7, <1>8, <2>1 DEF PourInto
<1>11. m \in 1..N /\ f[m] = e
  <2>1. m \in 0..N /\ Rows(t, r - 1, mask) \in 0..N
      BY <1>2 DEF m
  <2>2. m \in 1..N /\ m - 1 = Rows(t, r - 1, mask)
      BY <1>1, <1>3, <2>1
  <2>3. f[m] = Pour(curves, mask, s)
      BY <1>4, <1>5, <2>2
  <2>4. s.left # 0 /\ Sources(curves, mask, s.cursor) # {}
      BY <1>6, <1>8, <1>9
  <2>5. Pour(curves, mask, s) = e
      BY <1>6, <1>8, <2>4 DEF Pour
  <2> QED BY <2>2, <2>3, <2>5
<1> HIDE DEF e
<1>12. f[N] = e
  <2> DEFINE P == {k \in 0..N : k >= m => f[k] = e}
  <2>1. 0 \in P /\ P \in SUBSET (0..N)
      BY <1>1, <1>11
  <2>2. ASSUME NEW k \in 1..N, k - 1 \in P PROVE k \in P
    <3>1. CASE k = m
        BY <1>1, <1>11, <3>1
    <3>2. CASE k > m
      <4>1. f[k - 1] = e /\ f[k] = Pour(curves, mask, f[k - 1])
          BY <1>1, <1>5, <1>11, <2>2, <3>2
      <4>2. Pour(curves, mask, e) = e
          BY <1>10 DEF Pour
      <4> QED BY <1>1, <4>1, <4>2
    <3>3. CASE k < m
        BY <1>1, <1>11, <3>3
    <3> QED BY <1>1, <1>11, <3>1, <3>2, <3>3
  <2>3. \A k \in 0..N : k \in P
    <3> HIDE DEF P
    <3> QED BY <1>1, <2>1, <2>2, EveryStep
  <2> QED BY <1>1, <1>11, <2>3
<1> QED BY <1>3, <1>9, <1>10, <1>12 DEF o, part, b, f, N

\* The row up to which an amount needs the tape.
LEMMA RowNeeded ==
    ASSUME NEW curves, NEW C, GoodCurves(curves, C), NEW mask \in SUBSET C, NEW x \in Nat \ {0},
           NEW t, t = Tape(curves, C), Rank(curves, t, Len(t), mask) >= x
    PROVE  LET r == Min(Enough(curves, t, x, mask)) IN
           r \in 1..Len(t) /\ Rank(curves, t, r, mask) >= x /\ Rank(curves, t, r - 1, mask) < x
<1> DEFINE n == Len(t)
           E == Enough(curves, t, x, mask)
           r == Min(E)
<1>1. n \in Nat
    BY RowIs
<1>2. Rank(curves, t, 0, mask) = 0 /\ \A k \in 0..n : Rank(curves, t, k, mask) \in Nat
  <2>1. \A k \in 0..n : Counted(curves, t, mask, k)
      BY RowStep
  <2> QED BY <2>1, RowStep DEF Counted
<1> HIDE DEF n
<1>3. n \in E /\ E \in SUBSET (1..n)
  <2>1. n # 0
      BY <1>1, <1>2 DEF n
  <2> QED BY <1>1, <2>1 DEF Enough, n
<1>4. r \in E /\ \A k \in E : r <= k
  <2>1. E \in SUBSET Nat /\ E # {}
      BY <1>1, <1>3
  <2> HIDE DEF E
  <2> QED BY <2>1, MinIs
<1> HIDE DEF r
<1>5. Rank(curves, t, r - 1, mask) < x
  <2> SUFFICES ASSUME ~(Rank(curves, t, r - 1, mask) < x) PROVE FALSE
      OBVIOUS
  <2>1. r \in 1..n /\ r - 1 \in 0..n
      BY <1>1, <1>3, <1>4
  <2>2. Rank(curves, t, r - 1, mask) \in Nat /\ Rank(curves, t, r - 1, mask) >= x
      BY <1>2, <2>1
  <2>3. r - 1 # 0
      BY <1>2, <2>2
  <2>4. r - 1 \in 1..n
      BY <1>1, <2>1, <2>3
  <2>5. r - 1 \in E
      BY <2>2, <2>4 DEF Enough, n
  <2> QED BY <1>1, <1>4, <2>1, <2>5
<1>6. r \in 1..n /\ Rank(curves, t, r, mask) >= x
    BY <1>3, <1>4 DEF Enough
<1> QED BY <1>5, <1>6 DEF r, n

\* A total of what is nothing outside a mask.
LEMMA TotalWithin ==
    ASSUME NEW D, IsFiniteSet(D), NEW mask \in SUBSET D, NEW g, DOMAIN g = D,
           \A i \in D : g[i] \in Int, \A i \in D \ mask : g[i] = 0
    PROVE  Total(g) = SumIn(g, mask) /\ Total(g) \in Int
<1>1. Total(g) = SumIn(g, D)
    BY TotalIs
<1> QED BY <1>1, SumOfSome, SumOfIntegers

\* What an allocation is made of: the rows before the one that suffices, and
\* the part of that one that is needed.
IsAllocation(curves, t, mask, x, lower, r, part, inputs) ==
    /\ Rank(curves, t, r, mask) >= x /\ Rank(curves, t, r - 1, mask) < x
    /\ part = x - Rank(curves, t, r - 1, mask) /\ part <= RowBand(curves, t, r).cap
    /\ t[r] \in mask
    /\ inputs = [GivenBy(curves, t, mask, r - 1) EXCEPT ![t[r]] = @ + part]
    /\ Allocate(curves, t, x, mask, lower) = ReadOff(curves, t, r, part, inputs, lower)

\* A mask that holds enough has an allocation.  (ResidualTape::allocate)
LEMMA AllocationIs ==
    ASSUME NEW curves, NEW C, GoodCurves(curves, C), NEW mask \in SUBSET C, NEW x \in Nat \ {0},
           NEW t, t = Tape(curves, C), Rank(curves, t, Len(t), mask) >= x, NEW lower
    PROVE  \E r \in 1..Len(t), part \in Nat \ {0}, inputs \in [DOMAIN curves -> Nat] :
             IsAllocation(curves, t, mask, x, lower, r, part, inputs)
<1> DEFINE n == Len(t)
           D == DOMAIN curves
           r == Min(Enough(curves, t, x, mask))
           p == Rank(curves, t, r - 1, mask)
           part == x - p
           g == GivenBy(curves, t, mask, r - 1)
           inputs == [g EXCEPT ![t[r]] = @ + part]
<1>1. r \in 1..n /\ Rank(curves, t, r, mask) >= x /\ p < x
    BY RowNeeded
<1>2. n \in Nat /\ \A k \in 0..n : \A i \in C : Prefix(t, k, i) \in 0..Len(curves[i].bands)
    BY RowIs
<1>3. \A k \in 0..n : Counted(curves, t, mask, k)
    BY RowStep
<1>4. \A k \in 0..n : GivenBy(curves, t, mask, k) \in [D -> Nat]
    BY RowRead
<1>5. part \in Nat \ {0} /\ part <= RowBand(curves, t, r).cap /\ t[r] \in mask
    BY <1>1, PourEnds
<1> HIDE DEF r
<1>6. r - 1 \in 0..n
    BY <1>1, <1>2
<1>7. g \in [D -> Nat] /\ p \in Nat
    BY <1>3, <1>4, <1>6 DEF Counted
<1>8. t[r] \in D /\ mask \in SUBSET D /\ IsFiniteSet(D)
    BY <1>5 DEF GoodCurves
<1>9. Total(g) = p
  <2> DEFINE R == [i \in mask |-> CapOf(curves[i].bands, Prefix(t, r - 1, i))]
  <2>1. \A i \in mask : g[i] = R[i]
      BY <1>8 DEF GivenBy
  <2>2. \A i \in D \ mask : g[i] = 0
      BY DEF GivenBy
  <2>3. p = SumIn(R, mask)
    <3>1. p = Total(R) /\ DOMAIN R = mask
        BY DEF Rank
    <3> HIDE DEF R, p
    <3> QED BY <3>1, TotalIs
  <2> HIDE DEF R, g, p
  <2>4. IsFiniteSet(mask)
      BY <1>8, FS_Subset
  <2>5. SumIn(g, mask) = SumIn(R, mask)
      BY <2>1, <2>4, SumOfSame
  <2>6. Total(g) = SumIn(g, mask)
    <3>1. DOMAIN g = D /\ \A i \in D : g[i] \in Int
        BY <1>7
    <3> QED BY <1>8, <2>2, <3>1, TotalWithin
  <2> QED BY <2>3, <2>5, <2>6
<1>10. inputs \in [D -> Nat]
  <2> HIDE DEF g, part
  <2> QED BY <1>5, <1>7, <1>8
<1>11. Allocate(curves, t, x, mask, lower) = ReadOff(curves, t, r, part, inputs, lower)
  <2>1. Done(curves, t, mask, r) = g
      BY DEF Done, GivenBy
  <2>2. ~(Rank(curves, t, n, mask) < x)
    <3>1. n \in 0..n
        BY <1>2
    <3>2. Rank(curves, t, n, mask) \in Nat
        BY <1>3, <3>1 DEF Counted
    <3> QED BY <3>2
  <2>3. Allocate(curves, t, x, mask, lower) = UpTo(curves, t, r, x, mask, lower)
      BY <2>2 DEF Allocate, r
  <2>4. UpTo(curves, t, r, x, mask, lower) = Filled(curves, t, r, x, g, lower)
      BY <2>1 DEF UpTo
  <2> HIDE DEF g
  <2>5. x - Total(g) = part
      BY <1>9
  <2>6. [g EXCEPT ![t[r]] = @ + x - Total(g)] = inputs
    <3>1. g[t[r]] + x - p = g[t[r]] + (x - p)
        BY <1>7, <1>8
    <3> QED BY <1>9, <3>1
  <2>7. Filled(curves, t, r, x, g, lower) = ReadOff(curves, t, r, x - Total(g), [g EXCEPT ![t[r]] = @ + x - Total(g)], lower)
      BY DEF Filled
  <2> QED BY <2>3, <2>4, <2>5, <2>6, <2>7
<1> HIDE DEF part, inputs, p
<1>12. r = Min(Enough(curves, t, x, mask)) /\ part = x - p /\ p = Rank(curves, t, r - 1, mask)
       /\ inputs = [g EXCEPT ![t[r]] = @ + part]
    BY DEF r, part, p, inputs
<1>13. IsAllocation(curves, t, mask, x, lower, r, part, inputs)
    BY <1>1, <1>5, <1>11, <1>12 DEF IsAllocation
<1> QED BY <1>1, <1>5, <1>10, <1>13

\* The areas under what an allocation gives.
LEMMA AreaIs ==
    ASSUME NEW curves, NEW C, GoodCurves(curves, C), NEW mask \in SUBSET C, NEW t, t = Tape(curves, C),
           NEW r \in 1..Len(t), NEW part \in Nat \ {0}, t[r] \in mask,
           NEW inputs, inputs = [GivenBy(curves, t, mask, r - 1) EXCEPT ![t[r]] = @ + part]
    PROVE  Total([i \in DOMAIN inputs |-> IF inputs[i] = 0 THEN 0 ELSE Own(curves, t, r, part, i)])
             = Reached(curves, t, r - 1, mask) + part * RowBand(curves, t, r).rate
<1> DEFINE n == Len(t)
           D == DOMAIN curves
           o == t[r]
           d == part * RowBand(curves, t, r).rate
           g == GivenBy(curves, t, mask, r - 1)
           w == [i \in D |-> IF inputs[i] = 0 THEN 0 ELSE Own(curves, t, r, part, i)]
           A == [i \in mask |-> AreaOf(curves[i].bands, Prefix(t, r - 1, i))]
<1>1. /\ n \in Nat /\ \A k \in 1..n : IsRow(curves, C, t, k)
      /\ \A k \in 0..n : \A i \in C : Prefix(t, k, i) \in 0..Len(curves[i].bands)
    BY RowIs
<1>2. \A k \in 0..n : GivenBy(curves, t, mask, k) \in [D -> Nat]
    BY RowRead
<1> HIDE DEF n
<1>3. r \in 1..n /\ r - 1 \in 0..n
    BY <1>1 DEF n
<1>4. g \in [D -> Nat] /\ o \in D /\ mask \in SUBSET D /\ IsFiniteSet(D) /\ \A i \in mask : GoodBands(curves[i].bands)
    BY <1>2, <1>3 DEF GoodCurves
<1>5. d \in Int /\ RowBand(curves, t, r).rate \in Nat
    BY <1>1, <1>3 DEF IsRow
<1>6. \A i \in mask : A[i] \in Nat /\ (g[i] = 0 => A[i] = 0)
  <2> TAKE i \in mask
  <2>1. Prefix(t, r - 1, i) \in 0..Len(curves[i].bands) /\ GoodBands(curves[i].bands)
      BY <1>1, <1>3, <1>4
  <2>2. g[i] = CapOf(curves[i].bands, Prefix(t, r - 1, i))
      BY <1>4 DEF GivenBy
  <2> QED BY <2>1, <2>2, CapIs, NoCapNoArea
<1>7. inputs \in [D -> Nat] /\ inputs[o] = g[o] + part /\ \A i \in D : i # o => inputs[i] = g[i]
  <2> HIDE DEF g, o
  <2> QED BY <1>4 DEF g, o
<1>8. \A i \in mask : i # o => w[i] = A[i]
  <2> TAKE i \in mask
  <2> HAVE i # o
  <2>1. Own(curves, t, r, part, i) = A[i] + 0
      BY DEF Own
  <2>2. Own(curves, t, r, part, i) = A[i]
      BY <1>6, <2>1
  <2>3. inputs[i] = g[i] /\ i \in D
      BY <1>4, <1>7
  <2> HIDE DEF A, g
  <2> QED BY <1>6, <2>2, <2>3
<1>9. w[o] = A[o] + d
  <2>1. inputs[o] # 0
      BY <1>4, <1>7
  <2>2. Own(curves, t, r, part, o) = A[o] + d
      BY DEF Own, RowBand
  <2> QED BY <1>4, <2>1, <2>2
<1>10. \A i \in D \ mask : w[i] = 0
  <2> TAKE i \in D \ mask
  <2>1. i # o /\ g[i] = 0
      BY DEF GivenBy
  <2> QED BY <1>7, <2>1
<1>11. Reached(curves, t, r - 1, mask) = SumIn(A, mask)
    BY DEF Reached
<1>12. DOMAIN w = D /\ DOMAIN inputs = D
    BY <1>7
<1>13. Total([i \in DOMAIN inputs |-> IF inputs[i] = 0 THEN 0 ELSE Own(curves, t, r, part, i)]) = Total(w)
    BY <1>12
<1> HIDE DEF w, A, d, g, o
<1>14. \A i \in mask : w[i] \in Int /\ A[i] \in Int
    BY <1>5, <1>6, <1>8, <1>9
<1>15. SumIn(w, mask) = SumIn(A, mask) + d
  <2>1. IsFiniteSet(mask) /\ o \in mask
      BY <1>4, FS_Subset DEF o
  <2>2. \A i \in mask \ {o} : w[i] = A[i]
      BY <1>8
  <2> QED BY <1>5, <1>9, <1>14, <2>1, <2>2, SumWithMore, SMTT(20)
<1>16. Total(w) = SumIn(w, mask)
  <2>1. \A i \in D : w[i] \in Int
      BY <1>10, <1>14
  <2> QED BY <1>4, <1>10, <1>12, <2>1, TotalWithin
<1> QED BY <1>11, <1>13, <1>15, <1>16 DEF d

\* The same tape serves every subset and every residual: what is read off it
\* is what pouring over the subset alone gives.  (ResidualTape::allocate)
THEOREM TapeServes ==
    ASSUME NEW curves, NEW C, GoodCurves(curves, C), NEW mask \in SUBSET C, NEW x \in Nat \ {0}
    PROVE  Allocate(curves, Tape(curves, C), x, mask, FALSE) = Waterfill(curves, x, mask)
<1> DEFINE t == Tape(curves, C)
           n == Len(t)
           N == BandsOf(curves, mask)
           end == Pouring(curves, x, mask)[N]
<1>1. n \in Nat
    BY RowIs
<1>2. Rows(t, n, mask) = N /\ \A k \in 0..n : Counted(curves, t, mask, k)
    BY RowStep
<1>3. Waterfill(curves, x, mask) = Poured(end)
    BY DEF Waterfill
<1>4. CASE Rank(curves, t, n, mask) < x
  <2>1. n \in 0..n /\ Rank(curves, t, n, mask) \in Nat
      BY <1>1, <1>2 DEF Counted
  <2>2. end = StandsAt(curves, t, mask, x, n)
    <3>1. \A k \in 0..n : Rank(curves, t, k, mask) < x =>
             Pouring(curves, x, mask)[Rows(t, k, mask)] = StandsAt(curves, t, mask, x, k)
        BY PourFollows
    <3> QED BY <1>2, <1>4, <2>1, <3>1
  <2>3. end.left = x - Rank(curves, t, n, mask)
      BY <2>2 DEF StandsAt
  <2> HIDE DEF end, t
  <2>4. end.left > 0
      BY <1>4, <2>1, <2>3
  <2>5. Poured(end) = NoPlan
      BY <2>4 DEF Poured
  <2>6. Allocate(curves, t, x, mask, FALSE) = NoPlan
      BY <1>4 DEF Allocate
  <2> QED BY <1>3, <2>5, <2>6 DEF t
<1>5. CASE ~(Rank(curves, t, n, mask) < x)
  <2>1. Rank(curves, t, n, mask) >= x
    <3>1. n \in 0..n /\ Rank(curves, t, n, mask) \in Nat
        BY <1>1, <1>2 DEF Counted
    <3> QED BY <1>5, <3>1
  <2>2. \E r \in 1..n, part \in Nat \ {0}, inputs \in [DOMAIN curves -> Nat] :
         IsAllocation(curves, t, mask, x, FALSE, r, part, inputs)
      BY <2>1, AllocationIs
  <2>3. PICK r \in 1..n, part \in Nat \ {0}, inputs \in [DOMAIN curves -> Nat] :
         IsAllocation(curves, t, mask, x, FALSE, r, part, inputs)
      BY <2>2
  <2>9. /\ Rank(curves, t, r, mask) >= x /\ Rank(curves, t, r - 1, mask) < x
        /\ part = x - Rank(curves, t, r - 1, mask) /\ t[r] \in mask
        /\ inputs = [GivenBy(curves, t, mask, r - 1) EXCEPT ![t[r]] = @ + part]
        /\ Allocate(curves, t, x, mask, FALSE) = ReadOff(curves, t, r, part, inputs, FALSE)
      BY <2>3 DEF IsAllocation
  <2> DEFINE w == [i \in DOMAIN inputs |-> IF inputs[i] = 0 THEN 0 ELSE Own(curves, t, r, part, i)]
             s == Reached(curves, t, r - 1, mask) + part * RowBand(curves, t, r).rate
  <2>4. ReadOff(curves, t, r, part, inputs, FALSE) = [inputs |-> inputs, output |-> Total(w) \div Scale]
      BY DEF ReadOff
  <2>5. Total(w) = s
      BY <2>9, AreaIs
  <2>6. end.left = 0 /\ end.inputs = inputs /\ end.score = s
    <3>1. Rank(curves, t, r, mask) >= x /\ Rank(curves, t, r - 1, mask) < x
          /\ part = x - Rank(curves, t, r - 1, mask)
          /\ inputs = [GivenBy(curves, t, mask, r - 1) EXCEPT ![t[r]] = @ + part]
        BY <2>9
    <3>2. LET q == x - Rank(curves, t, r - 1, mask) IN
          /\ t[r] \in mask /\ q \in Nat \ {0} /\ q <= RowBand(curves, t, r).cap
          /\ end.left = 0
          /\ end.inputs = [GivenBy(curves, t, mask, r - 1) EXCEPT ![t[r]] = @ + q]
          /\ end.score = Reached(curves, t, r - 1, mask) + q * RowBand(curves, t, r).rate
        BY <3>1, PourEnds
    <3> HIDE DEF end, t
    <3> QED BY <3>1, <3>2
  <2> HIDE DEF end, w, s, t
  <2>7. Poured(end) = [inputs |-> inputs, output |-> s \div Scale]
      BY <2>6 DEF Poured
  <2>8. Allocate(curves, t, x, mask, FALSE) = Poured(end)
      BY <2>9, <2>4, <2>5, <2>7
  <2> QED BY <1>3, <2>8 DEF t
<1> QED BY <1>4, <1>5

-----------------------------------------------------------------------------
(* Quotients, and the curve of a constant product.                         *)

\* The next multiple is beyond.
LEMMA QuotientOver ==
    ASSUME NEW x \in Nat, NEW d \in Nat \ {0}
    PROVE  x \div d \in Nat /\ d * (x \div d) <= x /\ x < d * (x \div d) + d
<1>1. x \div d \in Nat /\ x % d \in 0..(d - 1) /\ x = d * (x \div d) + (x % d)
    OBVIOUS
<1> DEFINE p == d * (x \div d)
<1>2. p \in Int
    BY <1>1
<1>3. x % d \in 0..(d - 1) /\ x = p + (x % d)
    BY <1>1
<1> HIDE DEF p
<1>4. p <= x /\ x < p + d
    BY <1>2, <1>3
<1> QED BY <1>1, <1>4 DEF p

\* What is not beyond a multiple is not beyond the quotient.
LEMMA QuotientMost ==
    ASSUME NEW x \in Nat, NEW d \in Nat \ {0}, NEW q \in Int, d * q <= x
    PROVE  q <= x \div d
<1> DEFINE r == x \div d
<1>1. r \in Nat /\ x < d * r + d
    BY QuotientOver
<1> HIDE DEF r
<1>2. d * (r + 1) = d * r + d /\ d * r \in Int /\ d * q \in Int
    BY <1>1
<1>3. d * q < d * (r + 1)
    BY <1>1, <1>2
<1>4. ASSUME q >= r + 1 PROVE FALSE
  <2>1. (r + 1) * d <= q * d
      BY <1>1, <1>4, TimesAtMost
  <2>2. (r + 1) * d = d * (r + 1) /\ q * d = d * q /\ d * (r + 1) \in Int
      BY <1>1
  <2> QED BY <1>2, <1>3, <2>1, <2>2
<1>5. q < r + 1
    BY <1>1, <1>4
<1> QED BY <1>1, <1>5 DEF r

\* A quotient rounded up is enough.
LEMMA RoundedUp ==
    ASSUME NEW x \in Nat, NEW d \in Nat \ {0}
    PROVE  CeilDiv(x, d) \in Nat /\ x <= d * CeilDiv(x, d)
<1> DEFINE y == x + d - 1
           r == y \div d
<1>1. y \in Nat
    OBVIOUS
<1>2. r \in Nat /\ y < d * r + d
  <2> HIDE DEF y
  <2> QED BY <1>1, QuotientOver
<1>3. CeilDiv(x, d) = r
    BY DEF CeilDiv
<1> HIDE DEF r
<1>4. d * r \in Int
    BY <1>2
<1> QED BY <1>2, <1>3, <1>4

\* A price that is rounded down on the way is at most the one that is not.
LEMMA RoundingLoses ==
    ASSUME NEW a \in Nat, NEW e \in Nat \ {0}, NEW n \in Nat, NEW u \in Nat \ {0}, NEW m \in Nat,
           u * n <= m, NEW q \in Nat, (e + n) * q <= a * n
    PROVE  (e * u + m) * q <= a * m
<1> DEFINE b == a - q
<1>1. (e + n) * q = e * q + n * q /\ e * q \in Nat /\ n * q \in Nat /\ a * n \in Nat
    OBVIOUS
<1>2. q <= a
  <2> SUFFICES ASSUME a + 1 <= q PROVE FALSE
      OBVIOUS
  <2>1. (a + 1) * n <= q * n
      BY TimesAtMost
  <2>2. (a + 1) * n = a * n + n /\ q * n = n * q
      OBVIOUS
  <2>3. e * q <= 0
      BY <1>1, <2>1, <2>2
  <2>4. 1 * q <= e * q
      BY TimesAtMost
  <2>5. q <= 0
      BY <1>1, <2>3, <2>4
  <2> QED BY <2>5
<1>3. b \in Nat /\ a = q + b
    BY <1>2
<1> HIDE DEF b
<1>4. a * n = n * q + n * b /\ n * b \in Nat
    BY <1>3
<1>5. e * q <= n * b
    BY <1>1, <1>4
<1>6. (e * q) * u <= (n * b) * u
    BY <1>1, <1>4, <1>5, TimesAtMost
<1>7. (u * n) * b <= m * b
    BY <1>3, TimesAtMost
<1>8. (n * b) * u = (u * n) * b /\ (u * n) * b \in Nat /\ (e * q) * u \in Nat /\ m * b \in Nat
    BY <1>3
<1>9. (e * q) * u <= m * b
    BY <1>6, <1>7, <1>8
<1>10. (e * u + m) * q = (e * q) * u + m * q /\ m * q \in Nat
    OBVIOUS
<1>11. a * m = m * q + m * b
    BY <1>3
<1> QED BY <1>8, <1>9, <1>10, <1>11

\* A concave curve is below its tangents.  Numbers: a * x / (e + f * x) for
\* x = v and x = v + w, and s for its slope at v.
LEMMA BelowTangent ==
    ASSUME NEW a \in Nat, NEW e \in Nat \ {0}, NEW f \in Nat, NEW v \in Nat, NEW w \in Nat,
           NEW c \in Nat, a <= (e + f * v) * c, NEW s \in Nat, c * e <= (e + f * v) * s,
           NEW p \in Nat, (e + f * (v + w)) * p <= a * (v + w),
           NEW b \in Nat, a * v < (e + f * v) * b + (e + f * v)
    PROVE  p <= b + s * w
<1> SUFFICES ASSUME b + 1 + s * w <= p PROVE FALSE
  <2>1. s * w \in Nat
      OBVIOUS
  <2> QED BY <2>1
<1> DEFINE d == e + f * v
           g == e + f * (v + w)
           x == v + w
<1>1. d \in Nat \ {0} /\ g \in Nat \ {0} /\ d <= g /\ x \in Nat
  <2>1. f * v \in Nat /\ f * w \in Nat /\ f * (v + w) = f * v + f * w
      OBVIOUS
  <2> QED BY <2>1
<1>2. g * p <= a * x /\ a * v < d * b + d /\ a <= d * c /\ c * e <= d * s
    OBVIOUS
<1>3. a * (x * d) = a * (v * g) + (a * e) * w
    OBVIOUS
<1> HIDE DEF d, g, x
<1>4. s * w \in Nat /\ s * w * d * g \in Nat /\ a * x \in Nat /\ a * v \in Nat /\ d * b \in Nat /\ g * p \in Nat
    BY <1>1
<1>5. g * (b + 1 + s * w) <= g * p
  <2>1. (b + 1 + s * w) * g <= p * g
      BY <1>1, <1>4, TimesAtMost
  <2>2. (b + 1 + s * w) * g = g * (b + 1 + s * w) /\ p * g = g * p
      BY <1>1, <1>4
  <2> QED BY <2>1, <2>2
<1>6. g * (b + 1 + s * w) * d <= a * x * d
  <2> DEFINE h == g * (b + 1 + s * w)
  <2>2. h \in Int
      BY <1>1, <1>4
  <2>3. h <= g * p
      BY <1>5
  <2> HIDE DEF h
  <2>4. h <= a * x
      BY <1>2, <1>4, <2>2, <2>3
  <2>1. g * (b + 1 + s * w) <= a * x /\ g * (b + 1 + s * w) \in Int
      BY <2>2, <2>4 DEF h
  <2> QED BY <1>1, <1>4, <2>1, TimesAtMost
<1>7. g * (b + 1 + s * w) * d = (d * b + d) * g + s * w * d * g
    BY <1>1
<1>8. (a * v + 1) * g <= (d * b + d) * g
    BY <1>1, <1>2, <1>4, TimesAtMost
<1>9. (a * v + 1) * g = a * (v * g) + g
    BY <1>1
<1>10. (a * e) * w <= s * w * d * g
  <2>1. a * e <= (d * c) * e
      BY <1>1, <1>2, TimesAtMost
  <2>2. (c * e) * d <= (d * s) * d
      BY <1>1, <1>2, TimesAtMost
  <2>3. (d * c) * e = (c * e) * d /\ (d * c) * e \in Nat /\ (d * s) * d \in Nat /\ a * e \in Nat
      BY <1>1
  <2>4. a * e <= (d * s) * d
      BY <2>1, <2>2, <2>3
  <2>5. d * (d * s) <= g * (d * s)
      BY <1>1, TimesAtMost
  <2>6. d * (d * s) = (d * s) * d /\ g * (d * s) \in Nat
      BY <1>1
  <2>7. a * e <= g * (d * s)
      BY <2>3, <2>4, <2>5, <2>6
  <2>8. (a * e) * w <= (g * (d * s)) * w
      BY <2>3, <2>6, <2>7, TimesAtMost
  <2>9. (g * (d * s)) * w = s * w * d * g
      BY <1>1
  <2> QED BY <2>8, <2>9
<1>11. /\ a * x * d = a * (x * d) /\ a * (v * g) \in Nat /\ (a * e) * w \in Nat
       /\ (d * b + d) * g \in Nat
    BY <1>1
<1> QED BY <1>1, <1>3, <1>4, <1>6, <1>7, <1>8, <1>9, <1>10, <1>11

\* A product that compile accepts.
IsProduct(p) == p.rin \in Nat \ {0} /\ p.rout \in Nat \ {0} /\ p.fee \in 0..(Parts - 1)

\* Its curve begins at nothing, rises, and is below its tangents.
RisesConcave(p) ==
    /\ \A v \in Nat : ProductArea(p, v) \in Nat /\ SlopeAbove(p, v) \in Nat
    /\ ProductArea(p, 0) = 0
    /\ \A v, w \in Nat : ProductArea(p, v) <= ProductArea(p, v + w)
    /\ \A v, w \in Nat : ProductArea(p, v + w) <= ProductArea(p, v) + SlopeAbove(p, v) * w

\* The curve of a product rises, ever more slowly.  (ProductCurve::area,
\* slope_upper)
LEMMA ProductIs ==
    ASSUME NEW p, IsProduct(p)
    PROVE  RisesConcave(p)
<1> DEFINE f == Parts - p.fee
           a == p.rout * f * Scale
           e == p.rin * Parts
           D(v) == e + f * v
           A(v) == ProductArea(p, v)
           S(v) == SlopeAbove(p, v)
           C(v) == CeilDiv(a, D(v))
<1>1. Scale \in Nat \ {0} /\ p.rin \in Nat \ {0} /\ p.rout \in Nat \ {0} /\ Parts = 10 /\ f \in Nat \ {0}
    BY CurveAssumption DEF IsProduct, Parts
<1>2. a \in Nat /\ e \in Nat \ {0}
  <2> HIDE DEF f
  <2>1. p.rout * f \in Nat
      BY <1>1
  <2>2. (p.rout * f) * Scale \in Nat
      BY <1>1, <2>1
  <2> QED BY <1>1, <2>2
<1>3. \A v \in Nat : A(v) = (a * v) \div D(v)
  <2> TAKE v \in Nat
  <2>1. A(v) = (p.rout * v * f * Scale) \div (e + v * f)
      BY DEF ProductArea
  <2> HIDE DEF f
  <2>2. p.rout * v * f * Scale = a * v
      BY <1>1
  <2>3. e + v * f = D(v)
      BY <1>1, <1>2
  <2> HIDE DEF a, A, D, e
  <2> QED BY <2>1, <2>2, <2>3
<1>4. \A v \in Nat : S(v) = CeilDiv(C(v) * p.rin * Parts, D(v))
  <2> TAKE v \in Nat
  <2>1. S(v) = CeilDiv(CeilDiv(a, e + v * f) * p.rin * Parts, e + v * f)
      BY DEF SlopeAbove
  <2> HIDE DEF f
  <2>3. e + v * f = D(v)
      BY <1>1, <1>2
  <2> HIDE DEF a, S, D, e
  <2> QED BY <2>1, <2>3
<1>5. \A v \in Nat : D(v) \in Nat \ {0} /\ a * v \in Nat
  <2> TAKE v \in Nat
  <2> HIDE DEF f, a, e
  <2>1. f * v \in Nat /\ a * v \in Nat
      BY <1>1, <1>2
  <2> QED BY <1>2, <2>1
<1>6. \A v \in Nat : C(v) \in Nat /\ a <= D(v) * C(v)
  <2> TAKE v \in Nat
  <2>1. a \in Nat /\ D(v) \in Nat \ {0}
      BY <1>2, <1>5
  <2> HIDE DEF a, D
  <2> QED BY <2>1, RoundedUp
<1>7. \A v \in Nat : S(v) \in Nat /\ C(v) * e <= D(v) * S(v)
  <2> TAKE v \in Nat
  <2>1. C(v) \in Nat /\ D(v) \in Nat \ {0} /\ S(v) = CeilDiv(C(v) * p.rin * Parts, D(v))
      BY <1>4, <1>5, <1>6
  <2> HIDE DEF C, D, S
  <2>2. C(v) * p.rin * Parts = C(v) * e /\ C(v) * e \in Nat
      BY <1>1, <1>2, <2>1
  <2> HIDE DEF e
  <2> QED BY <2>1, <2>2, RoundedUp
<1>8. \A v \in Nat : A(v) \in Nat /\ D(v) * A(v) <= a * v /\ a * v < D(v) * A(v) + D(v)
  <2> TAKE v \in Nat
  <2>1. A(v) = (a * v) \div D(v) /\ a * v \in Nat /\ D(v) \in Nat \ {0}
      BY <1>3, <1>5
  <2> DEFINE x == a * v
  <2> HIDE DEF x, D, A, a
  <2> QED BY <2>1, QuotientOver DEF x
<1> HIDE DEF A, S, C
<1>9. A(0) = 0
  <2>1. D(0) * A(0) <= a * 0 /\ A(0) \in Nat /\ D(0) \in Nat \ {0}
      BY <1>5, <1>8
  <2> HIDE DEF D
  <2>2. a * 0 = 0 /\ 1 * A(0) <= D(0) * A(0) /\ D(0) * A(0) \in Nat
      BY <1>2, <2>1, TimesAtMost
  <2> HIDE DEF a
  <2> QED BY <2>1, <2>2
<1> HIDE DEF f, a, e
<1>10. ASSUME NEW v \in Nat, NEW w \in Nat PROVE A(v + w) <= A(v) + S(v) * w
  <2>1. v + w \in Nat
      OBVIOUS
  <2>2. /\ C(v) \in Nat /\ a <= (e + f * v) * C(v) /\ S(v) \in Nat /\ C(v) * e <= (e + f * v) * S(v)
        /\ A(v + w) \in Nat /\ (e + f * (v + w)) * A(v + w) <= a * (v + w)
        /\ A(v) \in Nat /\ a * v < (e + f * v) * A(v) + (e + f * v)
      BY <1>6, <1>7, <1>8, <2>1
  <2> QED BY <1>1, <1>2, <2>2, BelowTangent
<1>11. ASSUME NEW v \in Nat, NEW w \in Nat PROVE A(v) <= A(v + w)
  <2> DEFINE b == A(v)
             fw == f * w
  <2>1. b \in Nat /\ D(v) * b <= a * v
      BY <1>8
  <2> HIDE DEF b
  <2>2. D(v + w) = D(v) + fw /\ fw \in Nat /\ D(v) \in Nat \ {0}
      BY <1>1, <1>2, <1>5
  <2>3. f * b <= a
    <3>1. CASE v = 0
      <4>1. b = 0
          BY <1>9, <3>1 DEF b
      <4> QED BY <1>1, <1>2, <4>1
    <3>2. CASE v # 0
      <4>1. v \in Nat \ {0}
          BY <3>2
      <4>2. D(v) * b = e * b + v * (f * b) /\ e * b \in Nat /\ v * (f * b) \in Nat
          BY <1>1, <1>2, <2>1
      <4>3. a * v = v * a /\ v * a \in Nat
          BY <1>2
      <4>4. v * (f * b) <= v * a
          BY <2>1, <4>2, <4>3
      <4>5. f * b \in Int /\ a \in Int
          BY <1>1, <1>2, <2>1
      <4> QED BY <4>1, <4>4, <4>5, LessTimes
    <3> QED BY <3>1, <3>2
  <2>4. (f * b) * w <= a * w
      BY <1>1, <1>2, <2>1, <2>3, TimesAtMost
  <2>5. (D(v) + fw) * b = D(v) * b + (f * b) * w
      BY <1>1, <2>1, <2>2
  <2>6. a * (v + w) = a * v + a * w /\ a * v \in Nat /\ a * w \in Nat
      BY <1>2
  <2>7. D(v + w) * b <= a * (v + w)
    <3>1. (f * b) * w \in Nat /\ D(v) * b \in Nat
        BY <1>1, <2>1, <2>2
    <3> QED BY <2>1, <2>2, <2>4, <2>5, <2>6, <3>1
  <2>8. v + w \in Nat
      OBVIOUS
  <2>9. a * (v + w) \in Nat /\ D(v + w) \in Nat \ {0} /\ A(v + w) = (a * (v + w)) \div D(v + w)
      BY <1>3, <1>5, <2>8
  <2> DEFINE x == a * (v + w)
             d == D(v + w)
  <2> HIDE DEF x, d
  <2>10. b <= x \div d
      BY <2>1, <2>7, <2>9, QuotientMost DEF x, d
  <2> QED BY <2>9, <2>10 DEF x, d, b
<1>12. /\ \A v \in Nat : A(v) \in Nat /\ S(v) \in Nat
       /\ \A v, w \in Nat : A(v) <= A(v + w) /\ A(v + w) <= A(v) + S(v) * w
    BY <1>7, <1>8, <1>10, <1>11
<1> QED BY <1>9, <1>12 DEF A, S, RisesConcave

\* The venue's own price is at most what the curve says.  (the quote of a
\* constant product rounds down twice)
LEMMA ProductPays ==
    ASSUME NEW s, s.model.kind = "product", IsProduct(s.model), NEW x \in Nat
    PROVE  ExactQuote(s, x) \in Nat /\ ExactQuote(s, x) * Scale <= ProductArea(s.model, x)
<1> DEFINE p == s.model
           f == Parts - p.fee
           m == x * f
           n == m \div Parts
           q == (p.rout * n) \div (p.rin + n)
           e == p.rin * Parts
<1>1. Scale \in Nat \ {0} /\ p.rin \in Nat \ {0} /\ p.rout \in Nat \ {0} /\ Parts = 10 /\ f \in Nat \ {0}
    BY CurveAssumption DEF IsProduct, Parts
<1>2. ExactQuote(s, x) = q
    BY DEF ExactQuote
<1>3. ProductArea(p, x) = (p.rout * x * f * Scale) \div (e + m)
    BY DEF ProductArea
<1> HIDE DEF f
<1>4. m \in Nat
    BY <1>1
<1> HIDE DEF m
<1>5. n \in Nat /\ Parts * n <= m
    BY <1>1, <1>4, QuotientOver
<1> HIDE DEF n, p
<1>6. q \in Nat /\ (p.rin + n) * q <= p.rout * n
  <2> DEFINE y == p.rout * n
             d == p.rin + n
  <2>1. y \in Nat /\ d \in Nat \ {0}
      BY <1>1, <1>5
  <2> HIDE DEF y, d
  <2>2. y \div d \in Nat /\ d * (y \div d) <= y
      BY <2>1, QuotientOver
  <2> QED BY <2>2 DEF y, d
<1> HIDE DEF q
<1>7. (e + m) * q <= p.rout * m
    BY <1>1, <1>4, <1>5, <1>6, RoundingLoses
<1>8. e + m \in Nat \ {0}
    BY <1>1, <1>4
<1> DEFINE d == e + m
           y == p.rout * m
<1>9. p.rout * x * f * Scale = y * Scale /\ y \in Nat
    BY <1>1, <1>4 DEF m
<1> HIDE DEF d, y
<1>10. d * (q * Scale) <= y * Scale
  <2>1. d * q <= y /\ d \in Nat /\ d * q \in Int
      BY <1>6, <1>7, <1>8 DEF d, y
  <2>2. (d * q) * Scale <= y * Scale
      BY <1>1, <1>9, <2>1, TimesAtMost
  <2>3. (d * q) * Scale = d * (q * Scale)
      BY <1>1, <1>6, <2>1
  <2> QED BY <2>2, <2>3
<1>11. q * Scale <= (y * Scale) \div d
  <2> DEFINE z == y * Scale
  <2>1. z \in Nat /\ q * Scale \in Int /\ d \in Nat \ {0}
      BY <1>1, <1>6, <1>8, <1>9 DEF d
  <2> HIDE DEF z
  <2>2. q * Scale <= z \div d
      BY <1>10, <2>1, QuotientMost DEF z
  <2> QED BY <2>2 DEF z
<1> QED BY <1>2, <1>3, <1>6, <1>9, <1>11 DEF d, p

-----------------------------------------------------------------------------
(* What compiling gives.                                                   *)

\* The edges of the bands rise from nothing to the capacity.
IsEdges(e, n) ==
    /\ e \in Seq(Nat) /\ Len(e) >= 2 /\ e[1] = 0 /\ e[Len(e)] = n
    /\ \A i \in 1..(Len(e) - 1) : e[i] < e[i + 1]

\* h is s with x put at place i.
IsInserted(h, S, s, i, x) ==
    /\ h \in Seq(S) /\ Len(h) = Len(s) + 1
    /\ \A k \in 1..(i - 1) : h[k] = s[k]
    /\ h[i] = x
    /\ \A k \in (i + 1)..(Len(s) + 1) : h[k] = s[k - 1]

\* What is inserted comes before what was at its place.
LEMMA Inserted ==
    ASSUME NEW S, NEW s \in Seq(S), NEW x \in S, NEW i \in 1..(Len(s) + 1)
    PROVE  IsInserted(InsertAt(s, i, x), S, s, i, x)
<1> DEFINE n == Len(s)
           a == SubSeq(s, 1, i - 1)
           b == SubSeq(s, i, n)
<1>1. n \in Nat /\ i \in Int /\ i >= 1 /\ i <= n + 1
    OBVIOUS
<1>2. a \in Seq(S) /\ Len(a) = i - 1 /\ \A k \in 1..(i - 1) : a[k] = s[k]
    OBVIOUS
<1>3. b \in Seq(S) /\ Len(b) = n - i + 1 /\ \A k \in 1..(n - i + 1) : b[k] = s[i + k - 1]
    OBVIOUS
<1> HIDE DEF a, b
<1>4. InsertAt(s, i, x) = a \o <<x>> \o b
    BY DEF InsertAt, a, b
<1> DEFINE c == a \o <<x>>
<1>5. c \in Seq(S) /\ Len(c) = i /\ c[i] = x /\ \A k \in 1..(i - 1) : c[k] = s[k]
    BY <1>1, <1>2
<1> HIDE DEF c
<1>6. /\ c \o b \in Seq(S) /\ Len(c \o b) = n + 1
      /\ \A k \in 1..i : (c \o b)[k] = c[k]
      /\ \A k \in (i + 1)..(n + 1) : (c \o b)[k] = b[k - i]
    BY <1>1, <1>3, <1>5
<1>7. \A k \in (i + 1)..(n + 1) : b[k - i] = s[k - 1]
  <2> TAKE k \in (i + 1)..(n + 1)
  <2>1. k - i \in 1..(n - i + 1) /\ i + (k - i) - 1 = k - 1
      BY <1>1
  <2> QED BY <1>3, <2>1
<1>8. InsertAt(s, i, x) = c \o b
    BY <1>4 DEF c
<1> DEFINE h == c \o b
<1> HIDE DEF h
<1>9. \A k \in 1..(i - 1) : h[k] = s[k]
  <2> TAKE k \in 1..(i - 1)
  <2>1. k \in 1..i
      BY <1>1
  <2> QED BY <1>5, <1>6, <2>1 DEF h
<1>10. h[i] = x
  <2>1. i \in 1..i
      BY <1>1
  <2> QED BY <1>5, <1>6, <2>1 DEF h
<1>11. \A k \in (i + 1)..(n + 1) : h[k] = s[k - 1]
    BY <1>6, <1>7 DEF h
<1>12. h \in Seq(S) /\ Len(h) = n + 1
    BY <1>6 DEF h
<1>13. IsInserted(h, S, s, i, x)
    BY <1>9, <1>10, <1>11, <1>12 DEF IsInserted, n
<1> QED BY <1>8, <1>13 DEF h

\* Halving an interval keeps the edges rising.  (ProductCurve::compile)
LEMMA HalvedIs ==
    ASSUME NEW n, NEW e, IsEdges(e, n), NEW i \in Wide(e)
    PROVE  IsEdges(Halved(e, i), n)
<1> DEFINE l == Len(e)
           m == e[i] + (e[i + 1] - e[i]) \div 2
           h == Halved(e, i)
<1>1. l \in Nat /\ l >= 2 /\ i \in 1..(l - 1) /\ e \in Seq(Nat) /\ e[i + 1] - e[i] > 1
    BY DEF IsEdges, Wide
<1>2. e[i] \in Nat /\ e[i + 1] \in Nat
    BY <1>1
<1>3. m \in Nat /\ e[i] < m /\ m < e[i + 1]
    BY <1>1, <1>2, SMTT(20)
<1> HIDE DEF m
<1>4. h = InsertAt(e, i + 1, m)
    BY DEF Halved, m
<1>5. i + 1 \in 1..(l + 1)
    BY <1>1
<1> HIDE DEF h
<1>6. /\ h \in Seq(Nat) /\ Len(h) = l + 1
      /\ \A k \in 1..((i + 1) - 1) : h[k] = e[k]
      /\ h[i + 1] = m
      /\ \A k \in ((i + 1) + 1)..(l + 1) : h[k] = e[k - 1]
  <2> DEFINE j == i + 1
  <2>1. j \in 1..(Len(e) + 1) /\ e \in Seq(Nat) /\ m \in Nat
      BY <1>1, <1>3, <1>5
  <2>2. h = InsertAt(e, j, m)
      BY <1>4
  <2> HIDE DEF j
  <2>3. IsInserted(InsertAt(e, j, m), Nat, e, j, m)
      BY <2>1, Inserted
  <2>4. IsInserted(h, Nat, e, j, m)
      BY <2>2, <2>3
  <2> QED BY <2>4 DEF j, IsInserted
<1>7. \A k \in 1..i : h[k] = e[k]
    BY <1>1, <1>6
<1>8. \A k \in (i + 2)..(l + 1) : h[k] = e[k - 1]
    BY <1>1, <1>6
<1>9. h[1] = 0 /\ h[l + 1] = n
  <2>1. 1 \in 1..i /\ l + 1 \in (i + 2)..(l + 1) /\ (l + 1) - 1 = l
      BY <1>1
  <2>2. h[1] = e[1] /\ h[l + 1] = e[l]
      BY <1>7, <1>8, <2>1
  <2> QED BY <2>2 DEF IsEdges
<1>10. \A k \in 1..l : h[k] < h[k + 1]
  <2> TAKE k \in 1..l
  <2>1. \A j \in 1..(l - 1) : e[j] < e[j + 1]
      BY DEF IsEdges
  <2>2. CASE k < i
    <3>1. k \in 1..i /\ k + 1 \in 1..i /\ k \in 1..(l - 1)
        BY <1>1, <2>2
    <3> QED BY <1>7, <2>1, <3>1
  <2>3. CASE k = i
    <3>1. k \in 1..i
        BY <1>1, <2>3
    <3> QED BY <1>3, <1>6, <1>7, <2>3, <3>1
  <2>4. CASE k = i + 1
    <3>1. k + 1 \in (i + 2)..(l + 1) /\ (k + 1) - 1 = i + 1
        BY <1>1, <2>4
    <3>2. h[k + 1] = e[i + 1]
        BY <1>8, <3>1
    <3> QED BY <1>3, <1>6, <2>4, <3>2
  <2>5. CASE k > i + 1
    <3>1. k \in (i + 2)..(l + 1) /\ k + 1 \in (i + 2)..(l + 1) /\ (k + 1) - 1 = k /\ k - 1 \in 1..(l - 1)
          /\ (k - 1) + 1 = k
        BY <1>1, <2>5
    <3>2. h[k] = e[k - 1] /\ h[k + 1] = e[k]
        BY <1>8, <3>1
    <3>3. e[k - 1] < e[k]
        BY <2>1, <3>1
    <3> QED BY <3>2, <3>3
  <2> QED BY <1>1, <2>2, <2>3, <2>4, <2>5
<1>11. Len(h) >= 2 /\ h[Len(h)] = n /\ \A k \in 1..(Len(h) - 1) : h[k] < h[k + 1]
  <2>1. Len(h) = l + 1 /\ Len(h) - 1 = l /\ l >= 2
      BY <1>1, <1>6
  <2> HIDE DEF l
  <2> QED BY <1>1, <1>9, <1>10, <2>1
<1> QED BY <1>6, <1>9, <1>11 DEF IsEdges, h

\* Between rising edges the curve does not fall.
LEMMA EdgeIs ==
    ASSUME NEW p, RisesConcave(p), NEW n, NEW e, IsEdges(e, n), NEW i \in 1..(Len(e) - 1)
    PROVE  /\ e[i] \in Nat /\ e[i + 1] \in Nat /\ Width(e, i) \in Nat \ {0} /\ e[i + 1] = e[i] + Width(e, i)
           /\ ProductArea(p, e[i]) \in Nat /\ ProductArea(p, e[i + 1]) \in Nat
           /\ ProductArea(p, e[i]) <= ProductArea(p, e[i + 1])
           /\ SlopeAbove(p, e[i]) \in Nat
           /\ Chord(p, e, i) \in Nat
           /\ Width(e, i) * Chord(p, e, i) <= ProductArea(p, e[i + 1]) - ProductArea(p, e[i])
<1>1. e[i] \in Nat /\ e[i + 1] \in Nat /\ e[i] < e[i + 1]
  <2>1. e \in Seq(Nat) /\ Len(e) \in Nat
      BY DEF IsEdges
  <2> QED BY <2>1 DEF IsEdges
<1> DEFINE w == Width(e, i)
<1>2. w \in Nat \ {0} /\ e[i + 1] = e[i] + w
    BY <1>1 DEF Width
<1> HIDE DEF w
<1>3. /\ ProductArea(p, e[i]) \in Nat /\ ProductArea(p, e[i + 1]) \in Nat
      /\ ProductArea(p, e[i]) <= ProductArea(p, e[i + 1]) /\ SlopeAbove(p, e[i]) \in Nat
    BY <1>1, <1>2 DEF RisesConcave
<1> DEFINE d == ProductArea(p, e[i + 1]) - ProductArea(p, e[i])
<1>4. d \in Nat
    BY <1>3
<1>5. Chord(p, e, i) = d \div w
    BY DEF Chord, w
<1> HIDE DEF d
<1>6. d \div w \in Nat /\ w * (d \div w) <= d
    BY <1>2, <1>4, QuotientOver
<1> QED BY <1>1, <1>2, <1>3, <1>5, <1>6 DEF w, d

\* A split keeps the edges rising.
LEMMA SplitIs ==
    ASSUME NEW p, RisesConcave(p), NEW n, NEW e, IsEdges(e, n)
    PROVE  IsEdges(Split(p, e), n)
<1> DEFINE W == Wide(e)
           g == [i \in W |-> Gap(p, e[i], e[i + 1])]
           R == {r \in W \X W : Wider(p, e, r[1], r[2])}
<1>1. CASE W = {}
    BY <1>1 DEF Split
<1>2. CASE W # {}
  <2>1. Len(e) \in Nat /\ W \in SUBSET (1..(Len(e) - 1))
      BY DEF IsEdges, Wide
  <2>2. IsFiniteSet(W)
    <3>1. IsFiniteSet(1..(Len(e) - 1))
        BY <2>1, FS_Interval
    <3> QED BY <2>1, <3>1, FS_Subset
  <2>3. \A i \in W : g[i] \in Nat /\ i \in Nat
    <3> TAKE i \in W
    <3>1. i \in 1..(Len(e) - 1)
        BY <2>1
    <3> DEFINE w == Width(e, i)
               c == Chord(p, e, i)
               s == SlopeAbove(p, e[i])
    <3>2. w \in Nat /\ c \in Nat /\ s \in Nat
        BY <3>1, EdgeIs
    <3>3. g[i] = Less(s, c) * w
        BY DEF Gap, Width, Chord
    <3> HIDE DEF w, c, s, g
    <3>4. Less(s, c) \in Nat
        BY <3>2 DEF Less
    <3> QED BY <3>1, <3>2, <3>3, <3>4
  <2>4. \A i, j \in W : (<<i, j>> \in R <=> Wider(p, e, i, j))
                        /\ (Wider(p, e, i, j) <=> g[j] < g[i] \/ (g[j] = g[i] /\ i <= j))
      BY DEF Wider
  <2> HIDE DEF g, R
  <2>5. \A i, j \in W : <<i, j>> \in R \/ <<j, i>> \in R
    <3> HIDE DEF W
    <3> TAKE i, j \in W
    <3>1. g[i] \in Nat /\ g[j] \in Nat /\ i \in Nat /\ j \in Nat
        BY <2>3
    <3>2. (g[j] < g[i] \/ (g[j] = g[i] /\ i <= j)) \/ (g[i] < g[j] \/ (g[i] = g[j] /\ j <= i))
        BY <3>1
    <3> QED BY <2>4, <3>2
  <2>6. \A i, j, k \in W : <<i, j>> \in R /\ <<j, k>> \in R => <<i, k>> \in R
    <3> HIDE DEF W
    <3> TAKE i, j, k \in W
    <3>1. g[i] \in Nat /\ g[j] \in Nat /\ g[k] \in Nat /\ i \in Nat /\ j \in Nat /\ k \in Nat
        BY <2>3
    <3> QED BY <2>4, <3>1
  <2> HIDE DEF W
  <2>7. \E i \in W : \A j \in W : <<i, j>> \in R
      BY <1>2, <2>2, <2>5, <2>6, FirstOfAll
  <2>8. \E i \in W : \A j \in W : Wider(p, e, i, j)
      BY <2>4, <2>7
  <2> DEFINE i == CHOOSE i \in W : \A j \in W : Wider(p, e, i, j)
  <2>9. i \in Wide(e)
      BY <2>8 DEF W
  <2>10. Split(p, e) = Halved(e, i)
      BY <1>2 DEF Split, W
  <2> HIDE DEF i
  <2> QED BY <2>9, <2>10, HalvedIs
<1> QED BY <1>1, <1>2

\* What splitting the edges stands for, step by step.
IsSplitting(p, n, f) ==
    f = [k \in 0..(MaxSegments - 1) |-> IF k = 0 THEN <<0, n>> ELSE Split(p, f[k - 1])]

\* The edges of the bands of a product.  (ProductCurve::compile)
LEMMA EdgesAre ==
    ASSUME NEW p, RisesConcave(p), NEW n \in Nat \ {0}
    PROVE  IsEdges(Edges(p, n), n)
<1> DEFINE l == MaxSegments - 1
           z == <<0, n>>
           X == {e \in Seq(Nat) : IsEdges(e, n)}
           F == [q \in (1..l) \X X |-> Split(p, q[2])]
           f == Splitting(p, n)
<1>0. l \in Nat /\ z \in X
  <2>1. z \in Seq(Nat) /\ Len(z) = 2 /\ z[1] = 0 /\ z[2] = n
      OBVIOUS
  <2> HIDE DEF z
  <2>2. IsEdges(z, n)
      BY <2>1 DEF IsEdges
  <2> QED BY <2>1, <2>2, CurveAssumption
<1>1. \A u \in X : Split(p, u) \in X
  <2> TAKE u \in X
  <2>1. IsEdges(Split(p, u), n)
      BY SplitIs
  <2> QED BY <2>1 DEF IsEdges
<1>2. F \in [(1..l) \X X -> X] /\ \A k \in 1..l : \A u \in X : F[<<k, u>>] = Split(p, u)
    BY <1>1
<1> HIDE DEF F
<1>3. PICK g \in [0..l -> X] : g[0] = z /\ \A k \in 1..l : g[k] = F[<<k, g[k - 1]>>]
  <2> HIDE DEF X, z, l
  <2>1. \E g : Runs(g, X, z, l, F)
      BY <1>0, <1>2, Iterated
  <2> QED BY <2>1 DEF Runs
<1> HIDE DEF X, z
<1>4. \A k \in 1..l : g[k] = Split(p, g[k - 1])
  <2> TAKE k \in 1..l
  <2>1. k - 1 \in 0..l
      BY <1>0
  <2>2. g[k - 1] \in X
      BY <1>3, <2>1
  <2> HIDE DEF l
  <2> QED BY <1>2, <1>3, <2>2
<1>5. IsSplitting(p, n, g)
  <2>1. g = [k \in 0..l |-> g[k]]
      BY <1>3
  <2>2. \A k \in 0..l : g[k] = IF k = 0 THEN z ELSE Split(p, g[k - 1])
      BY <1>0, <1>3, <1>4
  <2> QED BY <2>1, <2>2 DEF IsSplitting, z
<1>6. f = CHOOSE h : IsSplitting(p, n, h)
    BY DEF Splitting, IsSplitting
<1>7. IsSplitting(p, n, f)
    BY <1>5, <1>6
<1> HIDE DEF f
<1>8. f[0] = z /\ \A k \in 1..l : f[k] = Split(p, f[k - 1])
  <2>1. f = [k \in 0..l |-> IF k = 0 THEN z ELSE Split(p, f[k - 1])]
      BY <1>7 DEF IsSplitting, z
  <2> QED BY <1>0, <2>1
<1>9. f[l] \in X
  <2> DEFINE P == {k \in 0..l : f[k] \in X}
  <2>1. 0 \in P /\ P \in SUBSET (0..l)
      BY <1>0, <1>8
  <2>2. ASSUME NEW k \in 1..l, k - 1 \in P PROVE k \in P
    <3>1. f[k] = Split(p, f[k - 1]) /\ f[k - 1] \in X /\ k \in 0..l
        BY <1>0, <1>8, <2>2
    <3> QED BY <1>1, <3>1
  <2> HIDE DEF P, l
  <2>3. \A k \in 0..l : k \in P
      BY <1>0, <2>1, <2>2, EveryStep
  <2>4. l \in 0..l
      BY <1>0
  <2> QED BY <2>3, <2>4 DEF P
<1> QED BY <1>9 DEF Edges, f, X

\* Every amount that the bands hold ends in one of them.
LEMMA BandFor ==
    ASSUME NEW bands, GoodBands(bands), Len(bands) >= 1, NEW x \in Nat, x <= CapOf(bands, Len(bands))
    PROVE  \E k \in 1..Len(bands) : CapOf(bands, k - 1) <= x /\ x <= CapOf(bands, k)
<1> DEFINE n == Len(bands)
           T == {k \in 1..n : x <= CapOf(bands, k)}
<1>1. n \in Nat /\ n \in T /\ T \in SUBSET Nat
    BY DEF GoodBands
<1>2. PICK k \in T : \A j \in T : k <= j
  <2> HIDE DEF T
  <2> QED BY <1>1, LeastOne
<1>3. k \in 1..n /\ x <= CapOf(bands, k)
    OBVIOUS
<1>4. CapOf(bands, k - 1) <= x
  <2>1. CASE k = 1
    <3>1. CapOf(bands, 0) = 0
        BY CapIs
    <3> QED BY <2>1, <3>1
  <2>2. CASE k # 1
    <3>1. k - 1 \in 1..n /\ k - 1 \in 0..n /\ ~(k <= k - 1)
        BY <1>1, <1>3, <2>2
    <3>2. k - 1 \notin T
        BY <1>2, <3>1
    <3>3. CapOf(bands, k - 1) \in Nat /\ ~(x <= CapOf(bands, k - 1))
        BY <3>1, <3>2, CapIs
    <3> QED BY <3>3
  <2> QED BY <2>1, <2>2
<1> QED BY <1>3, <1>4

\* What is taken of the bands before, of that one, and of those behind.
LEMMA TakenIs ==
    ASSUME NEW bands, GoodBands(bands), NEW x \in Nat, NEW k \in 1..Len(bands),
           CapOf(bands, k - 1) <= x, x <= CapOf(bands, k)
    PROVE  /\ \A j \in 1..(k - 1) : Taken(bands, x, j) = bands[j].cap
           /\ Taken(bands, x, k) = x - CapOf(bands, k - 1)
           /\ \A j \in (k + 1)..Len(bands) : Taken(bands, x, j) = 0
<1> DEFINE n == Len(bands)
           C(j) == CapOf(bands, j)
<1>1. /\ n \in Nat /\ \A j \in 1..n : bands[j].cap \in Nat
      /\ \A j \in 0..n : C(j) \in Nat
      /\ \A j \in 1..n : C(j) = C(j - 1) + bands[j].cap
      /\ \A i, j \in 0..n : i <= j => C(i) <= C(j)
  <2>1. n \in Nat /\ \A j \in 1..n : bands[j].cap \in Nat
      BY DEF GoodBands
  <2>2. /\ \A j \in 0..n : C(j) \in Nat
        /\ \A j \in 1..n : C(j) = C(j - 1) + bands[j].cap
      BY CapIs
  <2>3. \A i, j \in 0..n : i <= j => C(i) <= C(j)
      BY CapGrows
  <2> QED BY <2>1, <2>2, <2>3
<1>2. \A j : Taken(bands, x, j) = Lesser(Less(x, C(j - 1)), bands[j].cap)
    BY DEF Taken
<1>3. C(k - 1) <= x /\ x <= C(k) /\ k \in 1..n
    OBVIOUS
<1> HIDE DEF C, n
<1>4. ASSUME NEW j \in 1..(k - 1) PROVE Taken(bands, x, j) = bands[j].cap
  <2>1. j \in 1..n /\ j \in 0..n /\ j - 1 \in 0..n /\ k - 1 \in 0..n /\ j <= k - 1
      BY <1>1, <1>3
  <2>2. C(j) <= C(k - 1) /\ C(j) = C(j - 1) + bands[j].cap /\ C(j - 1) \in Nat /\ C(k - 1) \in Nat
        /\ bands[j].cap \in Nat /\ C(j) \in Nat
      BY <1>1, <2>1
  <2>3. C(j - 1) + bands[j].cap <= x
      BY <1>3, <2>2
  <2> QED BY <1>2, <2>2, <2>3 DEF Lesser, Less
<1>5. Taken(bands, x, k) = x - C(k - 1)
  <2>1. k - 1 \in 0..n /\ C(k - 1) \in Nat /\ bands[k].cap \in Nat /\ C(k) = C(k - 1) + bands[k].cap
      BY <1>1, <1>3
  <2> QED BY <1>2, <1>3, <2>1 DEF Lesser, Less
<1>6. ASSUME NEW j \in (k + 1)..n PROVE Taken(bands, x, j) = 0
  <2>1. j \in 1..n /\ j - 1 \in 0..n /\ k \in 0..n /\ k <= j - 1
      BY <1>1, <1>3
  <2>2. C(k) <= C(j - 1) /\ C(j - 1) \in Nat /\ C(k) \in Nat /\ bands[j].cap \in Nat
      BY <1>1, <2>1
  <2> QED BY <1>2, <1>3, <2>2 DEF Lesser, Less
<1> QED BY <1>4, <1>5, <1>6 DEF C, n

\* The area under an amount, by the band it ends in.
LEMMA AreaEnds ==
    ASSUME NEW bands, GoodBands(bands), NEW x \in Nat, NEW k \in 1..Len(bands),
           CapOf(bands, k - 1) <= x, x <= CapOf(bands, k)
    PROVE  Area(bands, x) = AreaOf(bands, k - 1) + (x - CapOf(bands, k - 1)) * bands[k].rate
<1> DEFINE n == Len(bands)
           v == [j \in DOMAIN bands |-> Taken(bands, x, j) * bands[j].rate]
           a == [j \in 1..(k - 1) |-> bands[j].cap * bands[j].rate]
           d == x - CapOf(bands, k - 1)
<1>1. n \in Nat /\ DOMAIN bands = 1..n /\ k \in 1..n
      /\ \A j \in 1..n : bands[j].cap \in Nat /\ bands[j].rate \in Nat
    BY DEF GoodBands
<1>2. /\ \A j \in 1..(k - 1) : Taken(bands, x, j) = bands[j].cap
      /\ Taken(bands, x, k) = d
      /\ \A j \in (k + 1)..n : Taken(bands, x, j) = 0
    BY TakenIs
<1>3. d \in Nat
  <2>1. k - 1 \in 0..n
      BY <1>1
  <2>2. CapOf(bands, k - 1) \in Nat
      BY <2>1, CapIs
  <2> QED BY <2>2
<1> HIDE DEF d
<1>4. /\ \A j \in 1..(k - 1) : v[j] = a[j] /\ a[j] \in Nat
      /\ v[k] = d * bands[k].rate /\ v[k] \in Nat
      /\ \A j \in (k + 1)..n : v[j] = 0
  <2>1. \A j \in 1..(k - 1) : j \in 1..n
      BY <1>1
  <2>2. \A j \in (k + 1)..n : j \in 1..n
      BY <1>1
  <2>3. \A j \in 1..n : v[j] = Taken(bands, x, j) * bands[j].rate
      BY <1>1
  <2>4. \A j \in 1..(k - 1) : a[j] = bands[j].cap * bands[j].rate
      OBVIOUS
  <2> HIDE DEF v, a
  <2>5. v[k] = d * bands[k].rate /\ v[k] \in Nat
    <3>1. v[k] = d * bands[k].rate /\ bands[k].rate \in Nat
        BY <1>1, <1>2, <2>3
    <3> QED BY <1>3, <3>1
  <2>6. ASSUME NEW j \in 1..(k - 1) PROVE v[j] = a[j] /\ a[j] \in Nat
    <3>1. v[j] = bands[j].cap * bands[j].rate /\ bands[j].cap \in Nat /\ bands[j].rate \in Nat
        BY <1>1, <1>2, <2>1, <2>3
    <3>2. a[j] = bands[j].cap * bands[j].rate
        BY <2>4
    <3> QED BY <3>1, <3>2
  <2>7. ASSUME NEW j \in (k + 1)..n PROVE v[j] = 0
    <3>1. v[j] = 0 * bands[j].rate /\ bands[j].rate \in Nat
        BY <1>1, <1>2, <2>2, <2>3
    <3> QED BY <3>1
  <2> QED BY <2>5, <2>6, <2>7
<1>5. Area(bands, x) = SumIn(v, 1..n)
  <2>1. Area(bands, x) = Total(v) /\ DOMAIN v = 1..n
      BY <1>1 DEF Area
  <2> HIDE DEF v
  <2> QED BY <2>1, TotalIs
<1>6. AreaOf(bands, k - 1) = SumIn(a, 1..(k - 1))
  <2>1. AreaOf(bands, k - 1) = Total(a) /\ DOMAIN a = 1..(k - 1)
      BY DEF AreaOf
  <2> HIDE DEF a
  <2> QED BY <2>1, TotalIs
<1> HIDE DEF v, a
<1>7. \A j \in 1..k : v[j] \in Int
  <2> TAKE j \in 1..k
  <2>1. j = k \/ j \in 1..(k - 1)
      BY <1>1
  <2> QED BY <1>4, <2>1
<1>8. SumIn(v, 1..n) = SumIn(v, 1..k)
  <2>1. 1..k \in SUBSET (1..n) /\ IsFiniteSet(1..n)
      BY <1>1, FS_Interval
  <2>2. \A j \in (1..n) \ (1..k) : j \in (k + 1)..n
      BY <1>1
  <2>3. \A j \in (1..n) \ (1..k) : v[j] = 0
      BY <1>4, <2>2
  <2>4. \A j \in 1..n : v[j] \in Int
    <3> TAKE j \in 1..n
    <3>1. j \in 1..k \/ j \in (1..n) \ (1..k)
        OBVIOUS
    <3> QED BY <1>7, <2>3, <3>1
  <2> QED BY <2>1, <2>3, <2>4, SumOfSome
<1>9. SumIn(v, 1..k) = SumIn(v, 1..(k - 1)) + v[k]
  <2>1. k \in Nat \ {0}
      BY <1>1
  <2> QED BY <1>7, <2>1, SumUpTo
<1>10. SumIn(v, 1..(k - 1)) = SumIn(a, 1..(k - 1))
  <2>1. IsFiniteSet(1..(k - 1)) /\ \A j \in 1..(k - 1) : v[j] = a[j]
      BY <1>1, <1>4, FS_Interval
  <2> QED BY <2>1, SumOfSame
<1> QED BY <1>4, <1>5, <1>6, <1>8, <1>9, <1>10 DEF d

\* A curve stands for what a venue pays, up to n atoms: its bands hold as
\* much, their rates fall, and it is exceeded by its error at most.
IsCurve(s, c, n) ==
    /\ GoodBands(c.bands) /\ Len(c.bands) >= 1 /\ CapOf(c.bands, Len(c.bands)) = n
    /\ \A k \in 2..Len(c.bands) : c.bands[k].rate <= c.bands[k - 1].rate
    /\ c.upper \in Nat
    /\ \A y \in 0..n : /\ ExactQuote(s, y) \in Nat
                       /\ ExactQuote(s, y) * Scale <= Area(c.bands, y) + c.upper * Scale

\* The chords between rising edges.
LEMMA ChordsAre ==
    ASSUME NEW p, RisesConcave(p), NEW n, NEW e, IsEdges(e, n)
    PROVE  LET b == Chords(p, e) l == Len(e) - 1 IN
           /\ GoodBands(b) /\ Len(b) = l /\ l \in Nat \ {0}
           /\ \A k \in 1..l : b[k].cap = Width(e, k) /\ b[k].rate <= Chord(p, e, k)
           /\ \A k \in 2..l : b[k].rate <= b[k - 1].rate
           /\ \A k \in 0..l : CapOf(b, k) = e[k + 1] /\ AreaOf(b, k) <= ProductArea(p, e[k + 1])
<1> DEFINE b == Chords(p, e)
           l == Len(e) - 1
           M(k) == {MaxRate} \cup {Chord(p, e, j) : j \in 1..k}
<1>1. l \in Nat \ {0} /\ \A j \in 1..l : Chord(p, e, j) \in Nat /\ Width(e, j) \in Nat \ {0}
  <2>1. e \in Seq(Nat) /\ Len(e) >= 2
      BY DEF IsEdges
  <2>2. l \in Nat \ {0}
    <3> DEFINE m == Len(e)
    <3>1. m \in Nat /\ m >= 2
        BY <2>1
    <3> HIDE DEF m
    <3>2. m - 1 \in Nat \ {0}
        BY <3>1
    <3> QED BY <3>2 DEF m
  <2>3. ASSUME NEW j \in 1..(Len(e) - 1) PROVE Chord(p, e, j) \in Nat /\ Width(e, j) \in Nat \ {0}
      BY EdgeIs
  <2> QED BY <2>2, <2>3
<1>2. b = [k \in 1..l |-> [cap |-> Width(e, k), rate |-> Min(M(k))]]
    BY DEF Chords
<1>3. Len(b) = l /\ DOMAIN b = 1..l /\ \A k \in 1..l : b[k].cap = Width(e, k) /\ b[k].rate = Min(M(k))
  <2> HIDE DEF M, l
  <2>1. DOMAIN b = 1..l /\ \A k \in 1..l : b[k] = [cap |-> Width(e, k), rate |-> Min(M(k))]
      BY <1>2
  <2>2. Len(b) = l
      BY <1>1, <1>2
  <2> QED BY <2>1, <2>2
<1> HIDE DEF b
<1>4. \A k \in 1..l : Min(M(k)) \in M(k) /\ \A y \in M(k) : Min(M(k)) <= y
  <2> TAKE k \in 1..l
  <2>1. M(k) \in SUBSET Nat
    <3>1. \A j \in 1..k : j \in 1..l
        BY <1>1
    <3> QED BY <1>1, <3>1, CurveAssumption
  <2>2. M(k) # {}
      OBVIOUS
  <2> HIDE DEF M
  <2> QED BY <2>1, <2>2, MinIs
<1>5. \A k \in 1..l : Min(M(k)) \in Nat /\ Min(M(k)) <= Chord(p, e, k)
  <2> TAKE k \in 1..l
  <2>1. \A j \in 1..k : j \in 1..l
      BY <1>1
  <2>2. k \in 1..k
      BY <1>1
  <2> QED BY <1>1, <1>4, <2>1, <2>2, CurveAssumption
<1>6. \A k \in 2..l : Min(M(k)) <= Min(M(k - 1))
  <2> TAKE k \in 2..l
  <2>1. k \in 1..l /\ k - 1 \in 1..l /\ \A j \in 1..(k - 1) : j \in 1..k
      BY <1>1
  <2>2. M(k - 1) \in SUBSET M(k)
      BY <2>1
  <2> QED BY <1>4, <2>1, <2>2
<1>7. GoodBands(b)
    BY <1>1, <1>3, <1>5 DEF GoodBands
<1> HIDE DEF M
<1>8. \A k \in 2..l : b[k].rate <= b[k - 1].rate
  <2> TAKE k \in 2..l
  <2>1. k \in 1..l /\ k - 1 \in 1..l
      BY <1>1
  <2> QED BY <1>3, <1>6, <2>1
<1>9. \A k \in 0..l : CapOf(b, k) = e[k + 1] /\ AreaOf(b, k) <= ProductArea(p, e[k + 1])
  <2> DEFINE P == {k \in 0..l : CapOf(b, k) = e[k + 1] /\ AreaOf(b, k) <= ProductArea(p, e[k + 1])}
  <2>1. 0 \in P /\ P \in SUBSET (0..l)
    <3>1. CapOf(b, 0) = 0 /\ AreaOf(b, 0) = 0
        BY <1>7, CapIs
    <3>2. e[0 + 1] = 0
        BY DEF IsEdges
    <3>3. ProductArea(p, e[0 + 1]) = 0
        BY <3>2 DEF RisesConcave
    <3> QED BY <1>1, <3>1, <3>2, <3>3
  <2>2. ASSUME NEW k \in 1..l, k - 1 \in P PROVE k \in P
    <3>1. k \in 0..l /\ k - 1 \in 0..l /\ (k - 1) + 1 = k /\ k \in 1..(Len(e) - 1)
        BY <1>1
    <3>2. CapOf(b, k - 1) = e[k] /\ AreaOf(b, k - 1) <= ProductArea(p, e[k])
        BY <2>2, <3>1
    <3> DEFINE w == Width(e, k)
               c == Chord(p, e, k)
               r == b[k].rate
    <3>3. /\ e[k + 1] = e[k] + w /\ w * c <= ProductArea(p, e[k + 1]) - ProductArea(p, e[k])
          /\ ProductArea(p, e[k]) \in Nat /\ ProductArea(p, e[k + 1]) \in Nat /\ w \in Nat /\ c \in Nat
        BY <3>1, EdgeIs
    <3>4. b[k].cap = w /\ r <= c /\ r \in Nat
        BY <1>3, <1>5
    <3>5. k \in 1..Len(b) /\ k - 1 \in 0..Len(b)
        BY <1>3, <3>1
    <3>6. CapOf(b, k) = CapOf(b, k - 1) + b[k].cap /\ AreaOf(b, k) = AreaOf(b, k - 1) + b[k].cap * r
          /\ AreaOf(b, k - 1) \in Nat
        BY <1>7, <3>5, CapIs
    <3> HIDE DEF w, c, r
    <3>7. w * r <= w * c
      <4>1. r * w <= c * w
          BY <3>3, <3>4, TimesAtMost
      <4> QED BY <3>3, <3>4, <4>1
    <3>8. w * r \in Nat /\ w * c \in Nat
        BY <3>3, <3>4
    <3>9. AreaOf(b, k) <= ProductArea(p, e[k + 1])
      <4>1. AreaOf(b, k) = AreaOf(b, k - 1) + w * r
          BY <3>4, <3>6
      <4> DEFINE x == w * r
                 y == w * c
                 u == ProductArea(p, e[k])
                 z == ProductArea(p, e[k + 1])
                 a == AreaOf(b, k - 1)
                 g == AreaOf(b, k)
      <4>2. /\ x \in Nat /\ y \in Nat /\ u \in Nat /\ z \in Nat /\ a \in Nat /\ g = a + x
            /\ x <= y /\ y <= z - u /\ a <= u
          BY <3>2, <3>3, <3>6, <3>7, <3>8, <4>1
      <4> HIDE DEF x, y, u, z, a, g
      <4>3. g <= z
          BY <4>2
      <4> QED BY <4>3 DEF g, z
    <3>10. CapOf(b, k) = e[k + 1]
        BY <3>2, <3>3, <3>4, <3>6
    <3> QED BY <3>1, <3>9, <3>10
  <2> HIDE DEF P, l
  <2>3. \A k \in 0..l : k \in P
      BY <1>1, <2>1, <2>2, EveryStep
  <2> QED BY <2>3 DEF P
<1>10. \A k \in 1..l : b[k].cap = Width(e, k) /\ b[k].rate <= Chord(p, e, k)
    BY <1>3, <1>5
<1> QED BY <1>1, <1>3, <1>7, <1>8, <1>9, <1>10 DEF b

\* The chords, with the error that is noted, stand for a product.
\* (ProductCurve::compile)
LEMMA ProductCurveIs ==
    ASSUME NEW s, s.model.kind = "product", IsProduct(s.model), NEW n \in Nat \ {0}
    PROVE  IsCurve(s, CompileProduct(s, n), n)
<1> DEFINE p == s.model
           e == Edges(p, n)
           b == Chords(p, e)
           l == Len(e) - 1
           X(i) == Excess(p, e, b, i)
           E == {X(i) : i \in 1..l}
           u == CeilDiv(Max(E), Scale)
           c == CompileProduct(s, n)
           A(i) == ProductArea(p, i)
<1>1. RisesConcave(p)
    BY ProductIs
<1>2. IsEdges(e, n)
    BY <1>1, EdgesAre
<1> HIDE DEF e
<1>3. /\ GoodBands(b) /\ Len(b) = l /\ l \in Nat \ {0}
      /\ \A k \in 1..l : b[k].cap = Width(e, k) /\ b[k].rate <= Chord(p, e, k)
      /\ \A k \in 2..l : b[k].rate <= b[k - 1].rate
      /\ \A k \in 0..l : CapOf(b, k) = e[k + 1] /\ AreaOf(b, k) <= A(e[k + 1])
  <2> HIDE DEF p
  <2> QED BY <1>1, <1>2, ChordsAre
<1> HIDE DEF b
<1>4. DOMAIN b = 1..l /\ \A k \in 1..l : b[k].rate \in Nat /\ b[k].cap \in Nat
    BY <1>3 DEF GoodBands
<1>5. c.bands = b /\ c.upper = u
  <2>1. c = Bounded(p, e, b)
      BY DEF CompileProduct, Along, b, e
  <2>2. {Excess(p, e, b, i) : i \in DOMAIN b} = E
      BY <1>4
  <2> HIDE DEF c, E, X
  <2>3. c.bands = b /\ c.upper = CeilDiv(Max({Excess(p, e, b, i) : i \in DOMAIN b}), Scale)
      BY <2>1 DEF Bounded
  <2> QED BY <2>2, <2>3
<1>6. ASSUME NEW i \in 1..l
      PROVE  /\ X(i) \in Nat
             /\ e[i] \in Nat /\ e[i + 1] = e[i] + Width(e, i) /\ Width(e, i) \in Nat
             /\ A(e[i]) \in Nat /\ SlopeAbove(p, e[i]) \in Nat
             /\ CapOf(b, i - 1) = e[i] /\ AreaOf(b, i - 1) \in Nat /\ CapOf(b, i) = e[i + 1]
             /\ X(i) = A(e[i]) + 1 - AreaOf(b, i - 1) + Less(SlopeAbove(p, e[i]), b[i].rate) * Width(e, i)
  <2> HIDE DEF p
  <2>1. i \in 1..(Len(e) - 1) /\ i \in 0..l /\ i - 1 \in 0..l /\ (i - 1) + 1 = i
      BY <1>3
  <2>2. /\ e[i] \in Nat /\ e[i + 1] = e[i] + Width(e, i) /\ Width(e, i) \in Nat
        /\ A(e[i]) \in Nat /\ SlopeAbove(p, e[i]) \in Nat
      BY <1>1, <1>2, <2>1, EdgeIs
  <2>3. CapOf(b, i - 1) = e[i] /\ AreaOf(b, i - 1) <= A(e[i]) /\ CapOf(b, i) = e[i + 1]
      BY <1>3, <2>1
  <2>4. AreaOf(b, i - 1) \in Nat
      BY <1>3, <2>1, CapIs
  <2> DEFINE d == Less(SlopeAbove(p, e[i]), b[i].rate)
             w == Width(e, i)
             v == d * w
  <2>5. X(i) = A(e[i]) + 1 - AreaOf(b, i - 1) + v
      BY DEF Excess
  <2>6. d \in Nat
      BY <1>4, <2>2 DEF Less
  <2>7. v \in Nat
    <3> HIDE DEF d, w
    <3> QED BY <2>2, <2>6 DEF w
  <2> HIDE DEF v
  <2>8. X(i) \in Nat
    <3> DEFINE y == A(e[i])
               a == AreaOf(b, i - 1)
    <3>1. y \in Nat /\ a \in Nat /\ a <= y /\ X(i) = y + 1 - a + v
        BY <2>2, <2>3, <2>4, <2>5
    <3> HIDE DEF X, y, a
    <3> QED BY <2>7, <3>1
  <2> QED BY <2>2, <2>3, <2>4, <2>5, <2>8 DEF v
<1>7. Max(E) \in Nat /\ \A i \in 1..l : X(i) <= Max(E)
  <2> HIDE DEF X
  <2>1. IsFiniteSet(E)
    <3> DEFINE f == [i \in 1..l |-> X(i)]
    <3>1. f \in Surjection(1..l, E)
        BY DEF Surjection
    <3>2. IsFiniteSet(1..l)
        BY <1>3, FS_Interval
    <3> QED BY <3>1, <3>2, FS_Surjection
  <2>2. E \in SUBSET Nat /\ E # {}
    <3>1. 1 \in 1..l
        BY <1>3
    <3> QED BY <1>6, <3>1
  <2>3. Max(E) \in E /\ \A y \in E : y <= Max(E)
    <3> HIDE DEF E
    <3> QED BY <2>1, <2>2, MaxIs
  <2> QED BY <2>2, <2>3
<1> HIDE DEF E
<1>8. u \in Nat /\ Max(E) <= u * Scale
  <2>1. CeilDiv(Max(E), Scale) \in Nat /\ Max(E) <= Scale * CeilDiv(Max(E), Scale)
      BY <1>7, CurveAssumption, RoundedUp
  <2> HIDE DEF u
  <2>2. u \in Nat /\ Max(E) <= Scale * u
      BY <2>1 DEF u
  <2> QED BY <2>2, CurveAssumption
<1> HIDE DEF u
<1>9. CapOf(b, l) = n
  <2>1. l \in 0..l /\ l + 1 = Len(e)
      BY <1>3
  <2> QED BY <1>2, <1>3, <2>1 DEF IsEdges
<1>10. ASSUME NEW y \in 0..n
       PROVE  ExactQuote(s, y) \in Nat /\ ExactQuote(s, y) * Scale <= Area(b, y) + u * Scale
  <2>1. y \in Nat /\ ExactQuote(s, y) \in Nat /\ ExactQuote(s, y) * Scale <= A(y)
      BY ProductPays
  <2>2. PICK k \in 1..Len(b) : CapOf(b, k - 1) <= y /\ y <= CapOf(b, k)
    <3>1. GoodBands(b) /\ Len(b) >= 1 /\ y <= CapOf(b, Len(b))
        BY <1>3, <1>9
    <3> QED BY <2>1, <3>1, BandFor
  <2> DEFINE w == Width(e, k)
             v == y - e[k]
             S == SlopeAbove(p, e[k])
             r == b[k].rate
             d == Less(S, r)
             a == AreaOf(b, k - 1)
             z == A(e[k])
  <2>3. k \in 1..l
      BY <1>3, <2>2
  <2>4. /\ X(k) \in Nat /\ e[k] \in Nat /\ e[k + 1] = e[k] + w /\ w \in Nat /\ z \in Nat /\ S \in Nat
        /\ CapOf(b, k - 1) = e[k] /\ a \in Nat /\ CapOf(b, k) = e[k + 1]
        /\ X(k) = z + 1 - a + d * w
      BY <1>6, <2>3
  <2>5. Area(b, y) = a + (y - CapOf(b, k - 1)) * r
      BY <1>3, <2>1, <2>2, AreaEnds
  <2>6. r \in Nat /\ X(k) <= Max(E)
      BY <1>4, <1>7, <2>3
  <2>7. d \in Nat /\ S <= r + d
    <3> HIDE DEF S, r
    <3> QED BY <2>4, <2>6, SMTT(20) DEF Less
  <2> HIDE DEF X, w, p, d, a, z, S, r
  <2>8. v \in Nat /\ v <= w /\ y = e[k] + v
      BY <2>1, <2>2, <2>4, SMTT(20)
  <2>9. A(y) <= z + S * v
    <3>1. A(e[k] + v) <= A(e[k]) + S * v
      <4> HIDE DEF v
      <4> QED BY <1>1, <2>4, <2>8 DEF RisesConcave, S
    <3> QED BY <2>8, <3>1 DEF z
  <2>10. Area(b, y) = a + v * r
      BY <2>4, <2>5
  <2> HIDE DEF v
  <2>11. S * v <= r * v + d * w
    <3>1. S * v <= (r + d) * v
        BY <2>4, <2>6, <2>7, <2>8, TimesAtMost
    <3>2. v * d <= w * d
      <4>1. v \in Int /\ w \in Int /\ d \in Nat /\ v <= w
          BY <2>4, <2>7, <2>8
      <4> QED BY <4>1, TimesAtMost
    <3>3. (r + d) * v = r * v + v * d /\ w * d = d * w /\ r * v \in Nat /\ v * d \in Nat /\ d * w \in Nat
          /\ S * v \in Nat
        BY <2>4, <2>6, <2>7, <2>8
    <3> QED BY <3>1, <3>2, <3>3
  <2>12. A(y) \in Nat
      BY <1>1, <2>1 DEF RisesConcave
  <2> DEFINE q == ExactQuote(s, y) * Scale
             g == A(y)
             h == Area(b, y)
             sv == S * v
             rv == r * v
             dw == d * w
             t == u * Scale
             x == X(k)
             m == Max(E)
  <2>13. /\ sv \in Nat /\ rv \in Nat /\ dw \in Nat /\ q \in Nat /\ t \in Nat /\ g \in Nat
         /\ v * r = rv
    <3>1. S \in Nat /\ v \in Nat /\ r \in Nat /\ d \in Nat /\ w \in Nat /\ g \in Nat
        BY <2>4, <2>6, <2>7, <2>8, <2>12
    <3>2. sv \in Nat /\ rv \in Nat /\ dw \in Nat /\ v * r = rv
        BY <3>1
    <3>3. q \in Nat /\ t \in Nat
        BY <1>8, <2>1, CurveAssumption
    <3> QED BY <3>1, <3>2, <3>3
  <2>14. /\ q <= g /\ g <= z + sv /\ h = a + rv /\ sv <= rv + dw /\ x = z + 1 - a + dw /\ x <= m /\ m <= t
         /\ m \in Nat /\ x \in Nat /\ a \in Nat /\ z \in Nat
      BY <1>7, <1>8, <2>1, <2>4, <2>6, <2>9, <2>10, <2>11, <2>13
  <2> HIDE DEF q, g, h, sv, rv, dw, t, x, m, A
  <2>15. q <= h + t
      BY <2>13, <2>14
  <2> QED BY <2>1, <2>15 DEF q, h, t
<1>11. Len(b) >= 1 /\ CapOf(b, Len(b)) = n /\ \A k \in 2..Len(b) : b[k].rate <= b[k - 1].rate
    BY <1>3, <1>9
<1> QED BY <1>3, <1>5, <1>8, <1>10, <1>11 DEF IsCurve

\* A book's curve is the book itself, cut at the capacity.  (compile_book)
LEMMA BookCurveIs ==
    ASSUME NEW s, s.model.kind = "book", ValidCurve(s.model.levels), NEW n \in Nat \ {0},
           n <= CapOf(s.model.levels, Len(s.model.levels))
    PROVE  IsCurve(s, CompileBook(s, n), n)
<1> DEFINE L == s.model.levels
           l == Len(L)
           T == {k \in 1..l : n <= CapOf(L, k)}
           used == {k \in DOMAIN L : CapOf(L, k - 1) < n}
           Cut(k) == [cap |-> Lesser(L[k].cap, n - CapOf(L, k - 1)), rate |-> L[k].rate]
           b == [k \in 1..Cardinality(used) |-> Cut(k)]
           c == CompileBook(s, n)
<1>1. l \in Nat \ {0} /\ DOMAIN L = 1..l /\ \A k \in 1..l : L[k].cap \in Nat /\ L[k].rate \in Nat
    BY DEF ValidCurve
<1>2. GoodBands(L)
    BY <1>1 DEF GoodBands
<1>3. \A k \in 2..l : L[k].rate <= L[k - 1].rate
  <2> TAKE k \in 2..l
  <2>1. k \in DOMAIN L /\ k # 1
      BY <1>1
  <2> QED BY <2>1 DEF ValidCurve
<1>4. n <= CapOf(L, l)
    OBVIOUS
<1>5. c = [bands |-> b, upper |-> 0, lower |-> 0]
    BY DEF CompileBook
<1>6. \A y : ExactQuote(s, y) = Area(L, y) \div Scale
    BY DEF ExactQuote
<1> HIDE DEF L, l
<1>7. /\ \A k \in 0..l : CapOf(L, k) \in Nat /\ AreaOf(L, k) \in Nat
      /\ \A k \in 1..l : CapOf(L, k) = CapOf(L, k - 1) + L[k].cap
                         /\ AreaOf(L, k) = AreaOf(L, k - 1) + L[k].cap * L[k].rate
      /\ CapOf(L, 0) = 0 /\ AreaOf(L, 0) = 0
      /\ \A j, k \in 0..l : j <= k => CapOf(L, j) <= CapOf(L, k)
    BY <1>2, CapIs, CapGrows DEF l
<1>8. PICK m \in T : \A j \in T : m <= j
  <2>1. l \in T /\ T \in SUBSET Nat
      BY <1>1, <1>4
  <2> HIDE DEF T
  <2> QED BY <2>1, LeastOne
<1>9. m \in 1..l /\ n <= CapOf(L, m) /\ CapOf(L, m - 1) < n
  <2>1. m \in 1..l /\ n <= CapOf(L, m)
      OBVIOUS
  <2>2. CASE m = 1
      BY <1>7, <2>1, <2>2
  <2>3. CASE m # 1
    <3>1. m - 1 \in 1..l /\ m - 1 \in 0..l /\ ~(m <= m - 1)
        BY <1>1, <2>1, <2>3
    <3>2. m - 1 \notin T
        BY <1>8, <3>1
    <3>3. CapOf(L, m - 1) \in Nat /\ ~(n <= CapOf(L, m - 1))
        BY <1>7, <3>1, <3>2
    <3> QED BY <2>1, <3>3
  <2> QED BY <2>2, <2>3
<1> HIDE DEF T
<1>10. used = 1..m
  <2>1. ASSUME NEW k \in 1..l PROVE CapOf(L, k - 1) < n <=> k <= m
    <3>1. k - 1 \in 0..l /\ m - 1 \in 0..l /\ m \in 0..l
        BY <1>1, <1>9
    <3>2. CapOf(L, k - 1) \in Nat /\ CapOf(L, m - 1) \in Nat /\ CapOf(L, m) \in Nat
        BY <1>7, <3>1
    <3>3. CASE k <= m
      <4>1. k - 1 <= m - 1
          BY <1>9, <3>3
      <4>2. CapOf(L, k - 1) <= CapOf(L, m - 1)
          BY <1>7, <3>1, <4>1
      <4> QED BY <1>9, <3>2, <3>3, <4>2
    <3>4. CASE ~(k <= m)
      <4>1. m <= k - 1
          BY <1>9, <3>4
      <4>2. CapOf(L, m) <= CapOf(L, k - 1)
          BY <1>7, <3>1, <4>1
      <4> QED BY <1>9, <3>2, <3>4, <4>2
    <3> QED BY <3>3, <3>4
  <2>2. \A k : k \in 1..m <=> (k \in 1..l /\ k <= m)
      BY <1>1, <1>9
  <2> QED BY <1>1, <2>1, <2>2
<1>11. Cardinality(used) = m
  <2>1. 1 \in Int /\ m \in Int /\ 1 <= m
      BY <1>1, <1>9
  <2>2. Cardinality(1..m) = m - 1 + 1
      BY <2>1, FS_Interval
  <2>3. m - 1 + 1 = m
      BY <2>1
  <2>4. Cardinality(1..m) = m
      BY <2>2, <2>3
  <2> QED BY <1>10, <2>4
<1> HIDE DEF used
<1>12. b = [k \in 1..m |-> Cut(k)]
    BY <1>11
<1> HIDE DEF b
<1>13. Len(b) = m /\ DOMAIN b = 1..m /\ m \in Nat \ {0}
       /\ \A k \in 1..m : b[k].cap = Lesser(L[k].cap, n - CapOf(L, k - 1)) /\ b[k].rate = L[k].rate
    BY <1>1, <1>9, <1>12
<1>14. /\ \A k \in 1..(m - 1) : b[k].cap = L[k].cap
       /\ b[m].cap = n - CapOf(L, m - 1) /\ b[m].cap \in Nat /\ b[m].cap <= L[m].cap
  <2>1. ASSUME NEW k \in 1..(m - 1) PROVE b[k].cap = L[k].cap
    <3>1. k \in 0..l /\ k \in 1..l /\ k \in 1..m /\ k - 1 \in 0..l /\ m - 1 \in 0..l /\ k <= m - 1
        BY <1>1, <1>9
    <3>2. /\ CapOf(L, k) <= CapOf(L, m - 1) /\ CapOf(L, k) = CapOf(L, k - 1) + L[k].cap
          /\ CapOf(L, k - 1) \in Nat /\ L[k].cap \in Nat /\ CapOf(L, m - 1) \in Nat /\ CapOf(L, k) \in Nat
        BY <1>1, <1>7, <3>1
    <3>3. L[k].cap <= n - CapOf(L, k - 1) /\ n - CapOf(L, k - 1) \in Int
        BY <1>9, <3>2
    <3> QED BY <1>13, <3>1, <3>2, <3>3 DEF Lesser
  <2>2. /\ CapOf(L, m) = CapOf(L, m - 1) + L[m].cap
        /\ CapOf(L, m - 1) \in Nat /\ L[m].cap \in Nat /\ m \in 1..m
    <3>1. m - 1 \in 0..l /\ m \in 1..l /\ m \in 1..m
        BY <1>1, <1>9
    <3> QED BY <1>1, <1>7, <3>1
  <2>3. n - CapOf(L, m - 1) <= L[m].cap /\ n - CapOf(L, m - 1) \in Nat
      BY <1>9, <2>2
  <2>4. b[m].cap = n - CapOf(L, m - 1)
      BY <1>13, <2>2, <2>3 DEF Lesser
  <2> QED BY <2>1, <2>2, <2>3, <2>4
<1>15. GoodBands(b)
  <2>1. ASSUME NEW k \in 1..m PROVE b[k].cap \in Nat /\ b[k].rate \in Nat
    <3>1. k \in 1..l /\ (k = m \/ k \in 1..(m - 1))
        BY <1>1, <1>9
    <3> QED BY <1>1, <1>13, <1>14, <3>1
  <2> QED BY <1>13, <2>1 DEF GoodBands
<1>16. \A k \in 0..(m - 1) : CapOf(b, k) = CapOf(L, k) /\ AreaOf(b, k) = AreaOf(L, k)
  <2> DEFINE P == {k \in 0..(m - 1) : CapOf(b, k) = CapOf(L, k) /\ AreaOf(b, k) = AreaOf(L, k)}
  <2>1. 0 \in P /\ P \in SUBSET (0..(m - 1)) /\ m - 1 \in Nat
      BY <1>7, <1>13, <1>15, CapIs
  <2>2. ASSUME NEW k \in 1..(m - 1), k - 1 \in P PROVE k \in P
    <3>1. k \in 1..l /\ k \in 1..m /\ k \in 0..(m - 1) /\ k \in 1..Len(b)
        BY <1>1, <1>9, <1>13
    <3>2. /\ CapOf(b, k) = CapOf(b, k - 1) + b[k].cap
          /\ AreaOf(b, k) = AreaOf(b, k - 1) + b[k].cap * b[k].rate
        BY <1>15, <3>1, CapIs
    <3>3. CapOf(L, k) = CapOf(L, k - 1) + L[k].cap
          /\ AreaOf(L, k) = AreaOf(L, k - 1) + L[k].cap * L[k].rate
        BY <1>7, <3>1
    <3>4. b[k].cap = L[k].cap /\ b[k].rate = L[k].rate
        BY <1>13, <1>14, <3>1
    <3> QED BY <2>2, <3>1, <3>2, <3>3, <3>4
  <2> DEFINE d == m - 1
  <2> HIDE DEF P, d
  <2>3. \A k \in 0..d : k \in P
      BY <2>1, <2>2, EveryStep DEF d
  <2> QED BY <2>3 DEF P, d
<1>17. CapOf(b, m) = n
  <2>1. m \in 1..Len(b) /\ m - 1 \in 0..(m - 1)
      BY <1>13
  <2>2. CapOf(b, m) = CapOf(b, m - 1) + b[m].cap /\ CapOf(b, m - 1) = CapOf(L, m - 1)
      BY <1>15, <1>16, <2>1, CapIs
  <2>3. CapOf(L, m - 1) \in Nat
    <3>1. m - 1 \in 0..l
        BY <1>1, <1>9
    <3> QED BY <1>7, <3>1
  <2> QED BY <1>14, <2>2, <2>3
<1>18. ASSUME NEW y \in 0..n PROVE Area(b, y) = Area(L, y) /\ Area(L, y) \in Nat
  <2>1. PICK k \in 1..Len(b) : CapOf(b, k - 1) <= y /\ y <= CapOf(b, k)
    <3>1. Len(b) >= 1 /\ y \in Nat /\ y <= CapOf(b, Len(b))
        BY <1>13, <1>17
    <3> QED BY <1>15, <3>1, BandFor
  <2>2. k \in 1..l /\ k - 1 \in 0..(m - 1) /\ k - 1 \in 0..l /\ k \in 1..m
      BY <1>1, <1>9, <1>13
  <2>3. CapOf(b, k - 1) = CapOf(L, k - 1) /\ AreaOf(b, k - 1) = AreaOf(L, k - 1) /\ b[k].rate = L[k].rate
      BY <1>13, <1>16, <2>2
  <2>4. y <= CapOf(L, k)
    <3>1. CASE k = m
      <4>1. CapOf(L, m) \in Nat /\ n <= CapOf(L, m) /\ y <= n /\ y \in Nat
        <5>1. m \in 0..l
            BY <1>1, <1>9
        <5> QED BY <1>7, <1>9, <5>1
      <4>2. y <= CapOf(L, m)
          BY <4>1
      <4> QED BY <3>1, <4>2
    <3>2. CASE k # m
      <4>1. k \in 0..(m - 1)
          BY <1>13, <2>2, <3>2
      <4> QED BY <1>16, <2>1, <4>1
    <3> QED BY <3>1, <3>2
  <2>5. Area(b, y) = AreaOf(b, k - 1) + (y - CapOf(b, k - 1)) * b[k].rate
      BY <1>15, <2>1, AreaEnds
  <2>6. k \in 1..Len(L) /\ CapOf(L, k - 1) <= y
      BY <2>1, <2>2, <2>3 DEF l
  <2>7. Area(L, y) = AreaOf(L, k - 1) + (y - CapOf(L, k - 1)) * L[k].rate
      BY <1>2, <2>4, <2>6, AreaEnds
  <2>8. Area(L, y) \in Nat
    <3> DEFINE v == y - CapOf(L, k - 1)
    <3>1. v \in Nat /\ L[k].rate \in Nat /\ AreaOf(L, k - 1) \in Nat
        BY <1>1, <1>7, <2>2, <2>6
    <3> HIDE DEF v
    <3>2. v * L[k].rate \in Nat
        BY <3>1
    <3> QED BY <2>7, <3>1, <3>2 DEF v
  <2> QED BY <2>3, <2>5, <2>7, <2>8
<1>19. ASSUME NEW y \in 0..n
       PROVE  ExactQuote(s, y) \in Nat /\ ExactQuote(s, y) * Scale <= Area(b, y) + 0 * Scale
  <2> DEFINE a == Area(L, y)
             q == a \div Scale
  <2>1. a \in Nat /\ Area(b, y) = a /\ ExactQuote(s, y) = q
      BY <1>6, <1>18
  <2> HIDE DEF a
  <2>2. q \in Nat /\ Scale * q <= a
      BY <2>1, CurveAssumption, QuotientOver
  <2> HIDE DEF q
  <2>3. Scale * q = q * Scale /\ 0 * Scale = 0
      BY <2>2, CurveAssumption
  <2> QED BY <2>1, <2>2, <2>3
<1>20. \A k \in 2..Len(b) : b[k].rate <= b[k - 1].rate
  <2> TAKE k \in 2..Len(b)
  <2>1. k \in 2..l /\ k \in 1..m /\ k - 1 \in 1..m
      BY <1>1, <1>9, <1>13
  <2> QED BY <1>3, <1>13, <2>1
<1>21. c.bands = b /\ c.upper = 0
    BY <1>5
<1>22. Len(b) >= 1 /\ CapOf(b, Len(b)) = n
    BY <1>13, <1>17
<1> QED BY <1>15, <1>19, <1>20, <1>21, <1>22 DEF IsCurve

\* Whatever compile accepts, its curve stands for the venue.
THEOREM CompileIs ==
    ASSUME NEW s, ValidModel(s), s.capacity \in Nat \ {0}, NEW horizon \in Nat \ {0}
    PROVE  IsCurve(s, Compile(s, horizon), Lesser(s.capacity, horizon))
<1> DEFINE n == Lesser(s.capacity, horizon)
<1>1. n \in Nat \ {0} /\ n <= s.capacity
    BY DEF Lesser
<1> HIDE DEF n
<1>2. CASE s.model.kind = "book" /\ ValidCurve(s.model.levels)
           /\ s.capacity <= CapOf(s.model.levels, Len(s.model.levels))
  <2> DEFINE h == CapOf(s.model.levels, Len(s.model.levels))
  <2>1. h \in Nat
    <3>1. GoodBands(s.model.levels) /\ Len(s.model.levels) \in 0..Len(s.model.levels)
        BY <1>2 DEF ValidCurve, GoodBands
    <3> QED BY <3>1, CapIs
  <2>2. s.capacity <= h
      BY <1>2
  <2> HIDE DEF h
  <2>3. n <= h
      BY <1>1, <2>1, <2>2
  <2>4. Compile(s, horizon) = CompileBook(s, n)
      BY <1>2 DEF Compile, n
  <2>5. IsCurve(s, CompileBook(s, n), n)
      BY <1>1, <1>2, <2>3, BookCurveIs DEF h
  <2> QED BY <2>4, <2>5 DEF n
<1>3. CASE s.model.kind = "product" /\ IsProduct(s.model)
  <2>1. Compile(s, horizon) = CompileProduct(s, n)
      BY <1>3 DEF Compile, n
  <2> QED BY <1>1, <1>3, <2>1, ProductCurveIs DEF n
<1> QED BY <1>2, <1>3 DEF ValidModel, IsProduct

-----------------------------------------------------------------------------
(* The certificate.                                                        *)

\* No band pays more than the one before it.
Falling(bands) == \A k \in 2..Len(bands) : bands[k].rate <= bands[k - 1].rate

\* Later bands pay no more.
LEMMA FallsFurther ==
    ASSUME NEW bands, GoodBands(bands), Falling(bands), NEW j \in 1..Len(bands),
           NEW k \in 1..Len(bands), j <= k
    PROVE  bands[k].rate <= bands[j].rate
<1> DEFINE n == Len(bands)
           P == {m \in 0..n : m >= j => bands[m].rate <= bands[j].rate}
<1>1. n \in Nat /\ \A m \in 1..n : bands[m].rate \in Nat
    BY DEF GoodBands
<1>2. 0 \in P /\ P \in SUBSET (0..n)
    BY <1>1
<1>3. ASSUME NEW m \in 1..n, m - 1 \in P PROVE m \in P
  <2>1. CASE m <= j
    <3>1. m >= j => m = j
        BY <1>1, <2>1
    <3> QED BY <1>1, <3>1
  <2>2. CASE ~(m <= j)
    <3>1. m \in 2..n /\ m - 1 >= j /\ m - 1 \in 1..n
        BY <1>1, <2>2
    <3>2. bands[m].rate <= bands[m - 1].rate
        BY <3>1 DEF Falling
    <3>3. bands[m - 1].rate <= bands[j].rate
        BY <1>3, <3>1
    <3> QED BY <1>1, <3>1, <3>2, <3>3
  <2> QED BY <2>1, <2>2
<1> HIDE DEF P
<1>4. \A m \in 0..n : m \in P
    BY <1>1, <1>2, <1>3, EveryStep
<1> QED BY <1>1, <1>4 DEF P

\* A row of the tape divides the bands of every venue: those before pay at
\* least as much, those behind at most.
Divides(curves, C, t, k) ==
    \A i \in C :
        /\ \A b \in 1..Prefix(t, k - 1, i) : RowBand(curves, t, k).rate <= curves[i].bands[b].rate
        /\ \A b \in (Prefix(t, k - 1, i) + 1)..Len(curves[i].bands) :
             curves[i].bands[b].rate <= RowBand(curves, t, k).rate

\* Every row does.  (the rows of ResidualTape have falling rates)
LEMMA TapeFalls ==
    ASSUME NEW curves, NEW C, GoodCurves(curves, C), \A i \in C : Falling(curves[i].bands),
           NEW t, t = Tape(curves, C)
    PROVE  \A k \in 1..Len(t) : Divides(curves, C, t, k)
<1> DEFINE n == Len(t)
           B(i) == curves[i].bands
           R(k) == RowBand(curves, t, k).rate
           Ahead(k) == \A i \in C : \A b \in 1..Prefix(t, k - 1, i) : R(k) <= B(i)[b].rate
           Behind(k) == \A i \in C : \A b \in (Prefix(t, k - 1, i) + 1)..Len(B(i)) : B(i)[b].rate <= R(k)
<1>1. /\ n \in Nat /\ \A k \in 1..n : IsRow(curves, C, t, k)
      /\ \A k \in 0..n : \A i \in C : Prefix(t, k, i) \in 0..Len(B(i))
    BY RowIs
<1>2. \A i \in C : GoodBands(B(i)) /\ Len(B(i)) \in Nat /\ \A b \in 1..Len(B(i)) : B(i)[b].rate \in Nat
    BY DEF GoodCurves, GoodBands
<1> HIDE DEF n, B
<1>3. ASSUME NEW k \in 1..n PROVE Behind(k) /\ R(k) \in Nat
  <2> DEFINE c == ReadBy(curves, t, C, k - 1)
             o == t[k]
  <2>1. k - 1 \in 0..n /\ IsRow(curves, C, t, k)
      BY <1>1
  <2>2. o \in C /\ R(k) \in Nat
      BY <2>1 DEF IsRow
  <2>3. GoodCursor(curves, C, c) /\ o \in Sources(curves, C, c) /\ Best(curves, C, c) = o
    <3>1. k \in 1..Len(t)
        BY DEF n
    <3> QED BY <2>2, <3>1, RowIsBest
  <2>4. \A i \in C : c[i] = Prefix(t, k - 1, i)
      BY DEF ReadBy, GoodCurves
  <2> HIDE DEF c, o
  <2>5. \A j \in Sources(curves, C, c) : Leads(curves, c, o, j)
      BY <2>3, BestIs
  <2>6. \A j \in Sources(curves, C, c) : Head1(curves, c, j) = B(j)[c[j] + 1].rate /\ Head1(curves, c, j) \in Nat
      BY <2>3, HeadIs DEF B
  <2>7. R(k) = Head1(curves, c, o)
    <3>1. Head1(curves, c, o) = B(o)[c[o] + 1].rate /\ c[o] = Prefix(t, k - 1, o)
        BY <2>2, <2>3, <2>4, <2>6
    <3> QED BY <3>1 DEF RowBand, o, B
  <2>8. ASSUME NEW i \in C, NEW b \in (Prefix(t, k - 1, i) + 1)..Len(B(i))
        PROVE  B(i)[b].rate <= R(k)
    <3> DEFINE q == Prefix(t, k - 1, i)
    <3>1. q \in 0..Len(B(i)) /\ q + 1 \in 1..Len(B(i)) /\ b \in 1..Len(B(i)) /\ q + 1 <= b /\ c[i] = q
        BY <1>1, <1>2, <2>1, <2>4
    <3> HIDE DEF q
    <3>2. i \in Sources(curves, C, c)
        BY <1>2, <3>1 DEF Sources, B
    <3>3. B(i)[q + 1].rate <= R(k)
      <4>1. Leads(curves, c, o, i) /\ Head1(curves, c, i) = B(i)[q + 1].rate /\ Head1(curves, c, i) \in Nat
          BY <2>5, <2>6, <3>1, <3>2
      <4> QED BY <2>2, <2>7, <4>1 DEF Leads
    <3>4. B(i)[b].rate <= B(i)[q + 1].rate
      <4>1. GoodBands(B(i)) /\ Falling(B(i))
          BY <1>2 DEF B
      <4> QED BY <3>1, <4>1, FallsFurther
    <3>5. B(i)[b].rate \in Nat /\ B(i)[q + 1].rate \in Nat
        BY <1>2, <3>1
    <3> QED BY <2>2, <3>3, <3>4, <3>5
  <2> QED BY <2>2, <2>8
<1>4. ASSUME NEW k \in 1..(n - 1) PROVE R(k + 1) <= R(k) /\ (Ahead(k) => Ahead(k + 1))
  <2>1. k \in 1..n /\ k + 1 \in 1..n /\ k \in 0..n /\ k - 1 \in 0..n /\ (k + 1) - 1 = k
      BY <1>1
  <2> DEFINE o == t[k]
             p == t[k + 1]
  <2>2. IsRow(curves, C, t, k) /\ IsRow(curves, C, t, k + 1)
      BY <1>1, <2>1
  <2>3. /\ o \in C /\ Prefix(t, k, o) = Prefix(t, k - 1, o) + 1
        /\ \A i \in C : i # o => Prefix(t, k, i) = Prefix(t, k - 1, i)
        /\ R(k) = B(o)[Prefix(t, k - 1, o) + 1].rate
      BY <2>2 DEF IsRow, RowBand, B
  <2>4. p \in C /\ Prefix(t, k, p) + 1 \in 1..Len(B(p)) /\ R(k + 1) = B(p)[Prefix(t, k, p) + 1].rate
      BY <2>1, <2>2 DEF IsRow, RowBand, B
  <2> HIDE DEF o, p
  <2>5. \A i \in C : Prefix(t, k - 1, i) \in Nat /\ Prefix(t, k, i) \in Nat
    <3> TAKE i \in C
    <3>1. Prefix(t, k - 1, i) \in 0..Len(B(i)) /\ Prefix(t, k, i) \in 0..Len(B(i)) /\ Len(B(i)) \in Nat
        BY <1>1, <1>2, <2>1
    <3> QED BY <3>1
  <2>6. R(k + 1) <= R(k)
    <3>1. Prefix(t, k - 1, p) <= Prefix(t, k, p)
        BY <2>3, <2>4, <2>5
    <3>2. Prefix(t, k, p) + 1 \in (Prefix(t, k - 1, p) + 1)..Len(B(p))
        BY <1>2, <2>4, <2>5, <3>1
    <3>3. Behind(k)
        BY <1>3, <2>1
    <3> QED BY <2>4, <3>2, <3>3
  <2>7. R(k) \in Nat /\ R(k + 1) \in Nat
      BY <1>3, <2>1
  <2>8. ASSUME Ahead(k), NEW i \in C, NEW b \in 1..Prefix(t, k, i)
        PROVE  R(k + 1) <= B(i)[b].rate
    <3>1. Prefix(t, k, i) \in 0..Len(B(i)) /\ b \in 1..Len(B(i)) /\ B(i)[b].rate \in Nat
        BY <1>1, <1>2, <2>1
    <3>2. R(k) <= B(i)[b].rate
      <4>1. CASE b \in 1..Prefix(t, k - 1, i)
          BY <2>8, <4>1
      <4>2. CASE b \notin 1..Prefix(t, k - 1, i)
        <5>1. i = o
            BY <2>3, <4>2
        <5>2. b = Prefix(t, k - 1, o) + 1
            BY <2>3, <2>5, <4>2, <5>1
        <5> QED BY <2>3, <2>7, <5>1, <5>2
      <4> QED BY <4>1, <4>2
    <3> HIDE DEF R
    <3> QED BY <2>6, <2>7, <3>1, <3>2
  <2>9. Ahead(k) => Ahead(k + 1)
      BY <2>1, <2>8
  <2> QED BY <2>6, <2>9
<1>5. ASSUME n # 0 PROVE \A k \in 1..n : Ahead(k)
  <2> DEFINE m == n - 1
             P == {k \in 0..m : Ahead(k + 1)}
  <2>1. m \in Nat /\ 0 \in P /\ P \in SUBSET (0..m)
    <3>1. m \in Nat
        BY <1>1, <1>5
    <3>2. (0 + 1) - 1 = 0
        OBVIOUS
    <3>3. \A i \in C : Prefix(t, 0, i) = 0
        BY PrefixIs
    <3>4. Ahead(0 + 1)
        BY <3>2, <3>3
    <3> HIDE DEF Ahead
    <3> QED BY <3>1, <3>4
  <2>2. ASSUME NEW k \in 1..m, k - 1 \in P PROVE k \in P
    <3>1. k \in 1..(n - 1) /\ (k - 1) + 1 = k /\ k \in 0..m
        BY <2>1
    <3>2. Ahead(k)
      <4> HIDE DEF Ahead
      <4> QED BY <2>2, <3>1
    <3>3. Ahead(k + 1)
      <4>1. Ahead(k) => Ahead(k + 1)
          BY <1>4, <3>1
      <4> HIDE DEF Ahead
      <4> QED BY <3>2, <4>1
    <3> HIDE DEF Ahead
    <3> QED BY <3>1, <3>3
  <2> HIDE DEF P, m
  <2>3. \A k \in 0..m : k \in P
      BY <2>1, <2>2, EveryStep
  <2> TAKE k \in 1..n
  <2>4. k - 1 \in 0..m /\ (k - 1) + 1 = k
      BY <1>1 DEF m
  <2> HIDE DEF Ahead
  <2> QED BY <2>3, <2>4 DEF P
<1>6. \A k \in 1..n : Ahead(k) /\ Behind(k)
  <2> TAKE k \in 1..n
  <2>1. n # 0
      BY <1>1
  <2>2. Ahead(k)
      BY <1>5, <2>1
  <2> HIDE DEF Ahead
  <2> QED BY <1>3, <2>2
<1> QED BY <1>6 DEF Divides, n, B

\* What lies before a division of falling bands, and nothing behind it, is
\* the most that any amount is worth beyond the price l.
LEMMA BandsBest ==
    ASSUME NEW b, GoodBands(b), Len(b) >= 1, NEW q \in 0..Len(b), NEW l \in Nat,
           \A j \in 1..q : l <= b[j].rate, \A j \in (q + 1)..Len(b) : b[j].rate <= l,
           NEW y \in Nat, y <= CapOf(b, Len(b))
    PROVE  Area(b, y) \in Nat /\ Area(b, y) + l * CapOf(b, q) <= AreaOf(b, q) + l * y
<1> DEFINE n == Len(b)
           h(j) == AreaOf(b, j) - l * CapOf(b, j)
           g(j) == b[j].cap * (b[j].rate - l)
<1>1. /\ n \in Nat /\ \A j \in 1..n : b[j].cap \in Nat /\ b[j].rate \in Nat
      /\ \A j \in 0..n : CapOf(b, j) \in Nat /\ AreaOf(b, j) \in Nat
      /\ \A j \in 1..n : /\ CapOf(b, j) = CapOf(b, j - 1) + b[j].cap
                         /\ AreaOf(b, j) = AreaOf(b, j - 1) + b[j].cap * b[j].rate
  <2>1. n \in Nat /\ \A j \in 1..n : b[j].cap \in Nat /\ b[j].rate \in Nat
      BY DEF GoodBands
  <2>2. /\ \A j \in 0..n : CapOf(b, j) \in Nat /\ AreaOf(b, j) \in Nat
        /\ \A j \in 1..n : /\ CapOf(b, j) = CapOf(b, j - 1) + b[j].cap
                           /\ AreaOf(b, j) = AreaOf(b, j - 1) + b[j].cap * b[j].rate
      BY CapIs
  <2> QED BY <2>1, <2>2
<1>2. q \in 0..n /\ y <= CapOf(b, n)
    OBVIOUS
<1>3. \A j \in 1..q : l <= b[j].rate
    OBVIOUS
<1>4. \A j \in (q + 1)..n : b[j].rate <= l
    OBVIOUS
<1> HIDE DEF n
<1>5. \A j \in 0..n : h(j) \in Int
  <2> TAKE j \in 0..n
  <2>1. CapOf(b, j) \in Nat /\ AreaOf(b, j) \in Nat
      BY <1>1
  <2>2. l * CapOf(b, j) \in Nat
      BY <2>1
  <2> QED BY <2>1, <2>2
<1>6. ASSUME NEW j \in 1..n
      PROVE  h(j) = h(j - 1) + g(j) /\ g(j) \in Int /\ (l <= b[j].rate => g(j) >= 0) /\ (b[j].rate <= l => g(j) <= 0)
  <2> DEFINE c == b[j].cap
             r == b[j].rate
             u == CapOf(b, j - 1)
             v == AreaOf(b, j - 1)
  <2>1. j - 1 \in 0..n
      BY <1>1
  <2>2. c \in Nat /\ r \in Nat /\ u \in Nat /\ v \in Nat /\ CapOf(b, j) = u + c /\ AreaOf(b, j) = v + c * r
      BY <1>1, <2>1
  <2> HIDE DEF c, r, u, v
  <2>3. l * (u + c) = l * u + l * c /\ c * (r - l) = c * r - l * c /\ l * u \in Nat /\ c * r \in Nat /\ l * c \in Nat
        /\ c * (r - l) \in Int
      BY <2>2, SMTT(20)
  <2>4. h(j) = h(j - 1) + g(j)
    <3>1. h(j) = (v + c * r) - l * (u + c) /\ h(j - 1) = v - l * u /\ g(j) = c * (r - l)
        BY <2>2 DEF c, r, u, v
    <3> HIDE DEF h, g
    <3> QED BY <2>2, <2>3, <3>1
  <2>5. ASSUME l <= r PROVE c * (r - l) >= 0
    <3>1. 0 * c <= (r - l) * c
        BY <2>2, <2>5, TimesAtMost
    <3> QED BY <2>2, <3>1
  <2>6. ASSUME r <= l PROVE c * (r - l) <= 0
    <3>1. (r - l) * c <= 0 * c
        BY <2>2, <2>6, TimesAtMost
    <3> QED BY <2>2, <3>1
  <2>7. g(j) = c * (r - l)
      BY DEF c, r
  <2> HIDE DEF g, h
  <2>8. g(j) \in Int /\ (l <= r => g(j) >= 0) /\ (r <= l => g(j) <= 0)
      BY <2>3, <2>5, <2>6, <2>7
  <2> QED BY <2>4, <2>8 DEF r
<1> HIDE DEF h, g
<1>7. \A j \in 0..q : h(j) <= h(q)
  <2> DEFINE P == {m \in 0..q : \A j \in 0..m : h(j) <= h(m)}
  <2>1. q \in Nat /\ \A j \in 0..q : h(j) \in Int
      BY <1>1, <1>2, <1>5
  <2>2. 0 \in P /\ P \in SUBSET (0..q)
      BY <2>1
  <2>3. ASSUME NEW m \in 1..q, m - 1 \in P PROVE m \in P
    <3>1. m \in 0..q /\ m - 1 \in 0..q /\ m \in 1..n
        BY <1>1, <1>2
    <3>2. h(m - 1) <= h(m)
      <4>1. h(m) = h(m - 1) + g(m) /\ g(m) \in Int /\ g(m) >= 0
          BY <1>3, <1>6, <3>1
      <4> QED BY <2>1, <3>1, <4>1
    <3>3. ASSUME NEW j \in 0..m PROVE h(j) <= h(m)
      <4>1. j = m \/ j \in 0..(m - 1)
          BY <2>1
      <4>2. j \in 0..q
          BY <2>1
      <4> QED BY <2>1, <2>3, <3>1, <3>2, <4>1, <4>2
    <3> QED BY <3>1, <3>3
  <2> HIDE DEF P
  <2>4. \A m \in 0..q : m \in P
      BY <2>1, <2>2, <2>3, EveryStep
  <2>5. q \in 0..q
      BY <2>1
  <2> QED BY <2>4, <2>5 DEF P
<1>8. \A j \in 0..n : h(j) <= h(q)
  <2> DEFINE P == {m \in 0..n : h(m) <= h(q)}
  <2>1. 0 \in P /\ P \in SUBSET (0..n)
      BY <1>1, <1>2, <1>7
  <2>2. ASSUME NEW m \in 1..n, m - 1 \in P PROVE m \in P
    <3>1. CASE m <= q
      <4>1. m \in 0..q /\ m \in 0..n
          BY <1>1, <1>2, <3>1
      <4> QED BY <1>7, <4>1
    <3>2. CASE ~(m <= q)
      <4>1. m \in (q + 1)..n /\ m \in 0..n /\ m - 1 \in 0..n
          BY <1>1, <1>2, <3>2
      <4>2. h(m) = h(m - 1) + g(m) /\ g(m) \in Int /\ g(m) <= 0
          BY <1>4, <1>6, <4>1
      <4> QED BY <1>2, <1>5, <2>2, <4>1, <4>2
    <3> QED BY <3>1, <3>2
  <2> HIDE DEF P
  <2>3. \A m \in 0..n : m \in P
      BY <1>1, <2>1, <2>2, EveryStep
  <2> QED BY <2>3 DEF P
<1>9. PICK k \in 1..n : CapOf(b, k - 1) <= y /\ y <= CapOf(b, k)
    BY <1>2, BandFor DEF n
<1>10. Area(b, y) = AreaOf(b, k - 1) + (y - CapOf(b, k - 1)) * b[k].rate
    BY <1>9, AreaEnds DEF n
<1> DEFINE c == b[k].cap
           r == b[k].rate
           u == CapOf(b, k - 1)
           v == AreaOf(b, k - 1)
           z == y - u
<1>11. c \in Nat /\ r \in Nat /\ u \in Nat /\ v \in Nat /\ z \in Nat /\ z <= c /\ y = u + z
       /\ k - 1 \in 0..n /\ k \in 0..n /\ h(k - 1) = v - l * u
  <2>1. k - 1 \in 0..n /\ k \in 0..n
      BY <1>1
  <2>2. u \in Nat /\ v \in Nat /\ c \in Nat /\ r \in Nat /\ CapOf(b, k) = u + c
      BY <1>1, <2>1
  <2>3. h(k - 1) = v - l * u
      BY DEF h
  <2> HIDE DEF u, c, v, r
  <2> QED BY <1>9, <2>1, <2>2, <2>3 DEF u
<1>12. Area(b, y) = v + z * r
    BY <1>10
<1>13. g(k) = c * (r - l)
    BY DEF g
<1>14. l * y = l * u + l * z /\ l * u \in Nat /\ l * z \in Nat /\ z * r \in Nat /\ z * (r - l) = z * r - l * z
       /\ c * (r - l) \in Int /\ z * (r - l) \in Int
  <2> HIDE DEF c, r, u, v, z
  <2> QED BY <1>11
<1>15. h(k - 1) + z * (r - l) <= h(q)
  <2>1. h(k - 1) \in Int /\ h(k) \in Int /\ h(q) \in Int /\ h(k - 1) <= h(q) /\ h(k) <= h(q)
      BY <1>2, <1>5, <1>8, <1>11
  <2>2. h(k) = h(k - 1) + g(k)
      BY <1>6
  <2> HIDE DEF c, r, u, v, z
  <2>3. CASE r <= l
    <3>1. (r - l) * z <= 0 * z
        BY <1>11, <2>3, TimesAtMost
    <3>2. z * (r - l) <= 0
        BY <1>11, <3>1
    <3> QED BY <1>14, <2>1, <3>2, SMTT(20)
  <2>4. CASE ~(r <= l)
    <3>1. r - l \in Nat
        BY <1>11, <2>4
    <3>2. z * (r - l) <= c * (r - l)
        BY <1>11, <3>1, TimesAtMost
    <3> QED BY <1>13, <1>14, <2>1, <2>2, <3>2, SMTT(20)
  <2> QED BY <2>3, <2>4
<1>16. h(q) = AreaOf(b, q) - l * CapOf(b, q) /\ AreaOf(b, q) \in Nat /\ l * CapOf(b, q) \in Nat
  <2>1. AreaOf(b, q) \in Nat /\ CapOf(b, q) \in Nat
      BY <1>1, <1>2
  <2> QED BY <2>1 DEF h
<1> HIDE DEF c, r, u, v, z
<1> DEFINE w == Area(b, y)
           a == AreaOf(b, q)
           d == l * CapOf(b, q)
           e == l * y
           zr == z * r
           lu == l * u
           lz == l * z
           zd == z * (r - l)
<1>17. /\ w = v + zr /\ e = lu + lz /\ zd = zr - lz /\ (v - lu) + zd <= a - d
       /\ v \in Nat /\ zr \in Nat /\ lu \in Nat /\ lz \in Nat /\ a \in Nat /\ d \in Nat
    BY <1>11, <1>12, <1>14, <1>15, <1>16
<1> HIDE DEF w, a, d, e, zr, lu, lz, zd
<1>18. w \in Nat /\ w + d <= a + e
    BY <1>17
<1> QED BY <1>18 DEF w, a, d, e

\* No way to divide an amount over a mask has more area than what the tape
\* gives.
LEMMA TapeIsBest ==
    ASSUME NEW curves, NEW C, GoodCurves(curves, C), \A i \in C : Falling(curves[i].bands),
           NEW mask \in SUBSET C, NEW x \in Nat \ {0}, NEW t, t = Tape(curves, C),
           NEW r \in 1..Len(t), Rank(curves, t, r - 1, mask) < x,
           NEW part, part = x - Rank(curves, t, r - 1, mask), NEW f,
           \A i \in mask : /\ f[i] \in Nat /\ Len(curves[i].bands) >= 1
                           /\ f[i] <= CapOf(curves[i].bands, Len(curves[i].bands)),
           SumIn(f, mask) = x
    PROVE  LET a == [i \in mask |-> Area(curves[i].bands, f[i])] IN
           /\ \A i \in mask : a[i] \in Nat
           /\ SumIn(a, mask) <= Reached(curves, t, r - 1, mask) + part * RowBand(curves, t, r).rate
<1> DEFINE a == [i \in mask |-> Area(curves[i].bands, f[i])]
           l == RowBand(curves, t, r).rate
           Q(i) == Prefix(t, r - 1, i)
           c == [i \in mask |-> CapOf(curves[i].bands, Q(i))]
           v == [i \in mask |-> AreaOf(curves[i].bands, Q(i))]
           lc == [i \in mask |-> l * c[i]]
           lf == [i \in mask |-> l * f[i]]
           low == [i \in mask |-> a[i] + lc[i]]
           high == [i \in mask |-> v[i] + lf[i]]
<1>1. Len(t) \in Nat /\ IsRow(curves, C, t, r) /\ \A i \in C : Q(i) \in 0..Len(curves[i].bands)
  <2>1. /\ Len(t) \in Nat /\ \A k \in 1..Len(t) : IsRow(curves, C, t, k)
        /\ \A k \in 0..Len(t) : \A i \in C : Prefix(t, k, i) \in 0..Len(curves[i].bands)
      BY RowIs
  <2>2. r - 1 \in 0..Len(t)
      BY <2>1
  <2> QED BY <2>1, <2>2
<1>2. l \in Nat
    BY <1>1 DEF IsRow
<1>3. Divides(curves, C, t, r)
    BY TapeFalls
<1>4. IsFiniteSet(mask) /\ mask \in SUBSET C
    BY FS_Subset DEF GoodCurves
<1>5. Rank(curves, t, r - 1, mask) = SumIn(c, mask) /\ Reached(curves, t, r - 1, mask) = SumIn(v, mask)
  <2>1. Rank(curves, t, r - 1, mask) = Total(c) /\ DOMAIN c = mask
      BY DEF Rank
  <2>2. Reached(curves, t, r - 1, mask) = SumIn(v, mask)
      BY DEF Reached
  <2> HIDE DEF c
  <2> QED BY <2>1, <2>2, TotalIs
<1>6. ASSUME NEW i \in mask
      PROVE  /\ a[i] \in Nat /\ c[i] \in Nat /\ v[i] \in Nat /\ f[i] \in Nat
             /\ lc[i] = l * c[i] /\ lf[i] = l * f[i] /\ low[i] = a[i] + lc[i] /\ high[i] = v[i] + lf[i]
             /\ low[i] <= high[i]
  <2> DEFINE b == curves[i].bands
             q == Q(i)
  <2>1. GoodBands(b) /\ q \in 0..Len(b) /\ Len(b) >= 1 /\ f[i] \in Nat /\ f[i] <= CapOf(b, Len(b))
      BY <1>1, <1>4 DEF GoodCurves
  <2>2. (\A j \in 1..q : l <= b[j].rate) /\ (\A j \in (q + 1)..Len(b) : b[j].rate <= l)
      BY <1>3, <1>4 DEF Divides
  <2>3. a[i] = Area(b, f[i]) /\ c[i] = CapOf(b, q) /\ v[i] = AreaOf(b, q)
      OBVIOUS
  <2>4. lc[i] = l * c[i] /\ lf[i] = l * f[i] /\ low[i] = a[i] + lc[i] /\ high[i] = v[i] + lf[i]
      OBVIOUS
  <2> HIDE DEF a, b, c, l, v, q, lc, lf, low, high
  <2>5. Area(b, f[i]) \in Nat /\ Area(b, f[i]) + l * CapOf(b, q) <= AreaOf(b, q) + l * f[i]
      BY <1>2, <2>1, <2>2, BandsBest
  <2>6. CapOf(b, q) \in Nat /\ AreaOf(b, q) \in Nat
      BY <2>1, CapIs
  <2> QED BY <2>1, <2>3, <2>4, <2>5, <2>6
<1> HIDE DEF a, c, l, v, lc, lf, low, high
<1>7. \A i \in mask : lc[i] \in Int /\ lf[i] \in Int /\ low[i] \in Int /\ high[i] \in Int
  <2> TAKE i \in mask
  <2>1. /\ a[i] \in Nat /\ c[i] \in Nat /\ v[i] \in Nat /\ f[i] \in Nat
        /\ lc[i] = l * c[i] /\ lf[i] = l * f[i] /\ low[i] = a[i] + lc[i] /\ high[i] = v[i] + lf[i]
      BY <1>6
  <2>2. l * c[i] \in Int /\ l * f[i] \in Int
      BY <1>2, <2>1
  <2> QED BY <2>1, <2>2
<1>8. SumIn(low, mask) = SumIn(a, mask) + SumIn(lc, mask)
  <2>1. \A i \in mask : a[i] \in Int /\ lc[i] \in Int /\ low[i] = a[i] + lc[i]
      BY <1>6, <1>7
  <2> QED BY <1>4, <2>1, SumAdded
<1>9. SumIn(high, mask) = SumIn(v, mask) + SumIn(lf, mask)
  <2>1. \A i \in mask : v[i] \in Int /\ lf[i] \in Int /\ high[i] = v[i] + lf[i]
      BY <1>6, <1>7
  <2> QED BY <1>4, <2>1, SumAdded
<1>10. SumIn(lc, mask) = l * SumIn(c, mask)
  <2>1. \A i \in mask : c[i] \in Int /\ lc[i] = l * c[i]
      BY <1>6
  <2>2. l \in Int
      BY <1>2
  <2> QED BY <1>4, <2>1, <2>2, SumScaled
<1>11. SumIn(lf, mask) = l * x
  <2>1. \A i \in mask : f[i] \in Int /\ lf[i] = l * f[i]
      BY <1>6
  <2>3. l \in Int
      BY <1>2
  <2>2. SumIn(lf, mask) = l * SumIn(f, mask)
      BY <1>4, <2>1, <2>3, SumScaled
  <2> QED BY <2>2
<1>12. SumIn(low, mask) <= SumIn(high, mask)
    BY <1>4, <1>6, <1>7, SumAtMost
<1>13. SumIn(a, mask) \in Nat /\ SumIn(c, mask) \in Nat /\ SumIn(v, mask) \in Nat
    BY <1>4, <1>6, SumOfNaturals
<1>14. SumIn(a, mask) <= SumIn(v, mask) + part * l
  <2> DEFINE u == SumIn(c, mask)
             A == SumIn(a, mask)
             V == SumIn(v, mask)
  <2>1. u \in Nat /\ A \in Nat /\ V \in Nat /\ part = x - u /\ u < x
      BY <1>5, <1>13
  <2>2. A + l * u <= V + l * x
      BY <1>8, <1>9, <1>10, <1>11, <1>12
  <2> HIDE DEF u, A, V
  <2>3. part * l = l * x - l * u /\ l * x \in Nat /\ l * u \in Nat
      BY <1>2, <2>1
  <2>4. A <= V + part * l
      BY <2>1, <2>2, <2>3
  <2> QED BY <2>4 DEF A, V
<1> QED BY <1>5, <1>6, <1>14 DEF a, l

\* What the curves of a mask may hide, and what its venues pay.
Errors(curves, mask) == Total([i \in mask |-> curves[i].upper])
Quoted(snaps, f, mask) == [i \in mask |-> ExactQuote(snaps[i], f[i])]

\* The certificate bounds what every division of the amount gets from the
\* venues themselves.  (certified_upper)
THEOREM CertificateIs ==
    ASSUME NEW curves, NEW C, GoodCurves(curves, C), NEW mask \in SUBSET C, NEW x \in Nat \ {0},
           NEW t, t = Tape(curves, C), NEW snaps, NEW caps,
           \A i \in C : Falling(curves[i].bands),
           \A i \in mask : caps[i] \in Nat /\ IsCurve(snaps[i], curves[i], caps[i]),
           Rank(curves, t, Len(t), mask) >= x,
           NEW f, \A i \in mask : f[i] \in Nat /\ f[i] <= caps[i], SumIn(f, mask) = x
    PROVE  LET best == Allocate(curves, t, x, mask, FALSE)
               q == Quoted(snaps, f, mask)
           IN  /\ best.output \in Nat /\ Errors(curves, mask) \in Nat
               /\ \A i \in mask : q[i] \in Nat
               /\ SumIn(q, mask) <= best.output + Errors(curves, mask)
<1> DEFINE best == Allocate(curves, t, x, mask, FALSE)
           q == [i \in mask |-> ExactQuote(snaps[i], f[i])]
           e == [i \in mask |-> curves[i].upper]
           a == [i \in mask |-> Area(curves[i].bands, f[i])]
<1>1. PICK r \in 1..Len(t), part \in Nat \ {0}, inputs \in [DOMAIN curves -> Nat] :
         IsAllocation(curves, t, mask, x, FALSE, r, part, inputs)
    BY AllocationIs
<1> DEFINE w == [i \in DOMAIN inputs |-> IF inputs[i] = 0 THEN 0 ELSE Own(curves, t, r, part, i)]
           s == Reached(curves, t, r - 1, mask) + part * RowBand(curves, t, r).rate
<1>2. /\ Rank(curves, t, r, mask) >= x /\ Rank(curves, t, r - 1, mask) < x
      /\ part = x - Rank(curves, t, r - 1, mask) /\ t[r] \in mask
      /\ inputs = [GivenBy(curves, t, mask, r - 1) EXCEPT ![t[r]] = @ + part]
      /\ best = ReadOff(curves, t, r, part, inputs, FALSE)
    BY <1>1 DEF IsAllocation
<1>3. Total(w) = s
    BY <1>2, AreaIs
<1>4. best.output = Total(w) \div Scale
  <2>1. ReadOff(curves, t, r, part, inputs, FALSE) = [inputs |-> inputs, output |-> Total(w) \div Scale]
      BY DEF ReadOff
  <2> HIDE DEF best, w
  <2>2. best = ReadOff(curves, t, r, part, inputs, FALSE)
      BY <1>2
  <2>3. best = [inputs |-> inputs, output |-> Total(w) \div Scale]
      BY <2>1, <2>2
  <2> QED BY <2>3
<1>5. s \in Nat
  <2>1. Len(t) \in Nat /\ IsRow(curves, C, t, r)
      BY RowIs
  <2>2. r - 1 \in 0..Len(t)
      BY <2>1
  <2>3. Reached(curves, t, r - 1, mask) \in Nat
      BY <2>2, RowStep DEF Counted
  <2>4. RowBand(curves, t, r).rate \in Nat
      BY <2>1 DEF IsRow
  <2> DEFINE u == RowBand(curves, t, r).rate
  <2> HIDE DEF u
  <2>5. part * u \in Nat
      BY <2>4 DEF u
  <2> QED BY <2>3, <2>5 DEF u
<1>6. best.output = s \div Scale
    BY <1>3, <1>4
<1>7. IsFiniteSet(mask) /\ mask \in SUBSET C
    BY FS_Subset DEF GoodCurves
<1> HIDE DEF best, w
<1>8. \A i \in mask : /\ f[i] \in Nat /\ Len(curves[i].bands) >= 1
                      /\ f[i] <= CapOf(curves[i].bands, Len(curves[i].bands))
    BY DEF IsCurve
<1>9. (\A i \in mask : a[i] \in Nat) /\ SumIn(a, mask) <= s
    BY <1>2, <1>8, TapeIsBest
<1> HIDE DEF s
<1>10. ASSUME NEW i \in mask
       PROVE  q[i] \in Nat /\ e[i] \in Nat /\ Scale * q[i] <= a[i] + Scale * e[i]
  <2>1. IsCurve(snaps[i], curves[i], caps[i]) /\ f[i] \in 0..caps[i]
      OBVIOUS
  <2>2. /\ curves[i].upper \in Nat /\ ExactQuote(snaps[i], f[i]) \in Nat
        /\ ExactQuote(snaps[i], f[i]) * Scale <= Area(curves[i].bands, f[i]) + curves[i].upper * Scale
      BY <2>1 DEF IsCurve
  <2>3. q[i] = ExactQuote(snaps[i], f[i]) /\ e[i] = curves[i].upper /\ a[i] = Area(curves[i].bands, f[i])
      OBVIOUS
  <2> HIDE DEF q, e, a
  <2>4. q[i] * Scale = Scale * q[i] /\ e[i] * Scale = Scale * e[i]
      BY <2>2, <2>3, CurveAssumption
  <2> QED BY <2>2, <2>3, <2>4
<1>11. Total(e) = SumIn(e, mask)
  <2>1. DOMAIN e = mask
      OBVIOUS
  <2> HIDE DEF e
  <2> QED BY <2>1, TotalIs
<1> HIDE DEF q, e, a
<1>12. SumIn(q, mask) \in Nat /\ SumIn(e, mask) \in Nat /\ SumIn(a, mask) \in Nat
    BY <1>7, <1>9, <1>10, SumOfNaturals
<1>13. Scale * SumIn(q, mask) <= SumIn(a, mask) + Scale * SumIn(e, mask)
  <2> DEFINE sq == [i \in mask |-> Scale * q[i]]
             se == [i \in mask |-> Scale * e[i]]
             h == [i \in mask |-> a[i] + se[i]]
  <2>1. \A i \in mask : /\ sq[i] = Scale * q[i] /\ se[i] = Scale * e[i] /\ h[i] = a[i] + se[i]
                        /\ q[i] \in Int /\ e[i] \in Int /\ a[i] \in Int
      BY <1>9, <1>10
  <2> HIDE DEF sq, se, h
  <2>2. \A i \in mask : sq[i] \in Int /\ se[i] \in Int /\ h[i] \in Int
    <3> TAKE i \in mask
    <3>1. sq[i] \in Int /\ se[i] \in Int
        BY <2>1, CurveAssumption
    <3> QED BY <2>1, <3>1
  <2>7. Scale \in Int
      BY CurveAssumption
  <2>8. \A i \in mask : q[i] \in Int /\ sq[i] = Scale * q[i]
      BY <2>1
  <2>9. \A i \in mask : e[i] \in Int /\ se[i] = Scale * e[i]
      BY <2>1
  <2>10. SumIn(sq, mask) = Scale * SumIn(q, mask)
      BY <1>7, <2>7, <2>8, SumScaled
  <2>11. SumIn(se, mask) = Scale * SumIn(e, mask)
      BY <1>7, <2>7, <2>9, SumScaled
  <2>3. SumIn(sq, mask) = Scale * SumIn(q, mask) /\ SumIn(se, mask) = Scale * SumIn(e, mask)
      BY <2>10, <2>11
  <2>4. SumIn(h, mask) = SumIn(a, mask) + SumIn(se, mask)
      BY <1>7, <2>1, <2>2, SumAdded
  <2>5. \A i \in mask : sq[i] <= h[i]
      BY <1>10, <2>1
  <2>6. SumIn(sq, mask) <= SumIn(h, mask)
      BY <1>7, <2>2, <2>5, SumAtMost
  <2> QED BY <2>3, <2>4, <2>6
<1> DEFINE sumQ == SumIn(q, mask)
           sumE == SumIn(e, mask)
           sumA == SumIn(a, mask)
<1>14. sumQ \in Nat /\ sumE \in Nat /\ sumA \in Nat /\ sumA <= s /\ Scale * sumQ <= sumA + Scale * sumE
    BY <1>9, <1>12, <1>13
<1> HIDE DEF sumQ, sumE, sumA
<1>15. sumQ - sumE <= s \div Scale
  <2> DEFINE d == sumQ - sumE
  <2>1. d \in Int
      BY <1>14
  <2>2. Scale * d = Scale * sumQ - Scale * sumE /\ Scale * sumQ \in Nat /\ Scale * sumE \in Nat
      BY <1>14, CurveAssumption
  <2> HIDE DEF d
  <2>3. Scale * d <= s
      BY <1>5, <1>14, <2>2
  <2>4. d <= s \div Scale
      BY <1>5, <2>1, <2>3, CurveAssumption, QuotientMost
  <2> QED BY <2>4 DEF d
<1>16. s \div Scale \in Nat
    BY <1>5, CurveAssumption, QuotientOver
<1>17. sumQ <= best.output + sumE
    BY <1>6, <1>14, <1>15, <1>16
<1> QED BY <1>6, <1>10, <1>11, <1>14, <1>16, <1>17 DEF best, q, e, sumQ, sumE, Quoted, Errors

-----------------------------------------------------------------------------
(* The search.                                                             *)

\* Every set of the first i venues is in the list.
ListsAll(sets, i) == sets \in Seq(SUBSET Nat) /\ \A m \in SUBSET (1..i) : \E k \in 1..Len(sets) : sets[k] = m

\* With one venue more there are twice as many.  (the masks of optimize_search)
LEMMA DoubledLists ==
    ASSUME NEW i \in Nat \ {0}, NEW sets, ListsAll(sets, i - 1)
    PROVE  ListsAll(Doubled(sets, i), i)
<1> DEFINE n == Len(sets)
           more == [k \in DOMAIN sets |-> sets[k] \cup {i}]
           d == Doubled(sets, i)
<1>1. sets \in Seq(SUBSET Nat) /\ n \in Nat /\ DOMAIN sets = 1..n /\ \A k \in 1..n : sets[k] \in SUBSET Nat
    BY DEF ListsAll
<1>2. more \in Seq(SUBSET Nat) /\ Len(more) = n /\ \A k \in 1..n : more[k] = sets[k] \cup {i}
  <2>1. \A k \in 1..n : sets[k] \cup {i} \in SUBSET Nat
      BY <1>1
  <2> QED BY <1>1, <2>1
<1> HIDE DEF more
<1>3. d = sets \o more
    BY DEF Doubled, more
<1> HIDE DEF d
<1>4. /\ d \in Seq(SUBSET Nat) /\ Len(d) = n + n
      /\ \A k \in 1..n : d[k] = sets[k]
      /\ \A k \in 1..n : d[n + k] = sets[k] \cup {i}
  <2>1. d \in Seq(SUBSET Nat) /\ Len(d) = n + n
    <3> DEFINE X == SUBSET Nat
    <3>1. sets \in Seq(X) /\ more \in Seq(X) /\ Len(sets) = n /\ Len(more) = n
        BY <1>1, <1>2
    <3> HIDE DEF X, n
    <3>2. sets \o more \in Seq(X) /\ Len(sets \o more) = n + n
        BY <3>1
    <3> QED BY <1>3, <3>2 DEF X
  <2>2. \A k \in 1..n : d[k] = sets[k]
      BY <1>1, <1>2, <1>3
  <2>3. ASSUME NEW k \in 1..n PROVE d[n + k] = sets[k] \cup {i}
    <3>1. n + k \in (n + 1)..(n + n) /\ (n + k) - n = k
        BY <1>1
    <3> DEFINE j == n + k
    <3> HIDE DEF j
    <3>2. d[j] = more[j - n]
        BY <1>1, <1>2, <1>3, <3>1 DEF j
    <3> QED BY <1>2, <3>1, <3>2 DEF j
  <2> QED BY <2>1, <2>2, <2>3
<1>5. ASSUME NEW m \in SUBSET (1..i) PROVE \E k \in 1..Len(d) : d[k] = m
  <2> DEFINE u == m \ {i}
  <2>1. u \in SUBSET (1..(i - 1))
      OBVIOUS
  <2>2. PICK k \in 1..n : sets[k] = u
    <3> HIDE DEF u
    <3> QED BY <2>1 DEF ListsAll
  <2>3. k \in 1..Len(d) /\ n + k \in 1..Len(d)
      BY <1>1, <1>4
  <2>4. CASE i \in m
    <3>1. d[n + k] = m
        BY <1>4, <2>2, <2>4
    <3> QED BY <2>3, <3>1
  <2>5. CASE i \notin m
    <3>1. d[k] = m
        BY <1>4, <2>2, <2>5
    <3> QED BY <2>3, <3>1
  <2> QED BY <2>4, <2>5
<1> QED BY <1>4, <1>5 DEF ListsAll, d

\* The lists of masks, one venue more at each step.
IsUpTo(n, f) == f = [i \in 0..n |-> IF i = 0 THEN <<{}>> ELSE Doubled(f[i - 1], i)]

\* So the search looks at every set of venues.
LEMMA MasksAre ==
    ASSUME NEW n \in Nat
    PROVE  ListsAll(Masks(n), n)
<1> DEFINE z == <<{}>>
           X == Seq(SUBSET Nat)
           F == [q \in (1..n) \X X |-> Doubled(q[2], q[1])]
           f == CHOOSE h : IsUpTo(n, h)
<1>1. z \in X /\ Len(z) = 1 /\ z[1] = {}
    OBVIOUS
<1>2. \A k \in 1..n : \A u \in X : Doubled(u, k) \in X
  <2> TAKE k \in 1..n
  <2> TAKE u \in X
  <2> DEFINE more == [j \in DOMAIN u |-> u[j] \cup {k}]
  <2>1. DOMAIN u = 1..Len(u) /\ Len(u) \in Nat /\ \A j \in 1..Len(u) : u[j] \cup {k} \in SUBSET Nat
      OBVIOUS
  <2>2. more \in X
      BY <2>1
  <2> HIDE DEF more
  <2>3. u \o more \in X
      BY <2>2
  <2> QED BY <2>3 DEF Doubled, more
<1>3. F \in [(1..n) \X X -> X] /\ \A k \in 1..n : \A u \in X : F[<<k, u>>] = Doubled(u, k)
  <2> HIDE DEF X
  <2>1. \A q \in (1..n) \X X : q[1] \in 1..n /\ q[2] \in X
      OBVIOUS
  <2>2. \A q \in (1..n) \X X : Doubled(q[2], q[1]) \in X
      BY <1>2, <2>1
  <2> QED BY <2>2
<1> HIDE DEF F
<1>4. PICK g \in [0..n -> X] : g[0] = z /\ \A k \in 1..n : g[k] = F[<<k, g[k - 1]>>]
  <2> HIDE DEF X, z
  <2>1. \E g : Runs(g, X, z, n, F)
      BY <1>1, <1>3, Iterated
  <2> QED BY <2>1 DEF Runs
<1> HIDE DEF X, z
<1>5. \A k \in 1..n : g[k] = Doubled(g[k - 1], k)
  <2> TAKE k \in 1..n
  <2>1. k - 1 \in 0..n
      OBVIOUS
  <2>2. g[k - 1] \in X
      BY <1>4, <2>1
  <2> QED BY <1>3, <1>4, <2>2
<1>6. IsUpTo(n, g)
  <2>1. g = [k \in 0..n |-> g[k]]
      BY <1>4
  <2>2. \A k \in 0..n : g[k] = IF k = 0 THEN z ELSE Doubled(g[k - 1], k)
      BY <1>4, <1>5
  <2> QED BY <2>1, <2>2 DEF IsUpTo, z
<1>7. Masks(n) = f[n]
    BY DEF Masks, IsUpTo
<1>8. IsUpTo(n, f)
    BY <1>6
<1> HIDE DEF f
<1>9. f[0] = z /\ \A k \in 1..n : f[k] = Doubled(f[k - 1], k)
  <2>1. f = [k \in 0..n |-> IF k = 0 THEN z ELSE Doubled(f[k - 1], k)]
      BY <1>8 DEF IsUpTo, z
  <2> QED BY <2>1
<1>10. ListsAll(f[n], n)
  <2> DEFINE P == {k \in 0..n : ListsAll(f[k], k)}
  <2>1. 0 \in P /\ P \in SUBSET (0..n)
    <3>1. \A m \in SUBSET (1..0) : m = {}
        OBVIOUS
    <3>2. 1 \in 1..Len(z) /\ z[1] = {} /\ z \in Seq(SUBSET Nat)
        BY <1>1 DEF X
    <3>3. ListsAll(z, 0)
        BY <3>1, <3>2 DEF ListsAll
    <3> QED BY <1>9, <3>3
  <2>2. ASSUME NEW k \in 1..n, k - 1 \in P PROVE k \in P
    <3>1. f[k] = Doubled(f[k - 1], k) /\ k \in 0..n /\ k \in Nat \ {0} /\ ListsAll(f[k - 1], k - 1)
        BY <1>9, <2>2
    <3>2. ListsAll(Doubled(f[k - 1], k), k)
        BY <3>1, DoubledLists
    <3> QED BY <3>1, <3>2
  <2> HIDE DEF P
  <2>3. \A k \in 0..n : k \in P
      BY <2>1, <2>2, EveryStep
  <2>4. n \in 0..n
      OBVIOUS
  <2> QED BY <2>3, <2>4 DEF P
<1> QED BY <1>7, <1>10

\* What is kept of the finalists when a plan comes up.  (insert of the
\* shortlist)
LEMMA ShortlistIs ==
    ASSUME NEW S, NEW list \in Seq(S), NEW p \in S \cup {NoPlan}
    PROVE  /\ Shortlist(list, p) \in Seq(S)
           /\ p # NoPlan \/ Len(list) >= 1 => Len(Shortlist(list, p)) >= 1
<1>1. CASE p = NoPlan \/ \E k \in DOMAIN list : list[k].inputs = p.inputs
  <2>1. Shortlist(list, p) = list
      BY <1>1 DEF Shortlist
  <2>2. p # NoPlan => Len(list) >= 1
    <3>1. ASSUME p # NoPlan PROVE Len(list) >= 1
      <4>1. \E k \in DOMAIN list : TRUE
          BY <1>1, <3>1
      <4>2. DOMAIN list = 1..Len(list) /\ Len(list) \in Nat
          OBVIOUS
      <4> QED BY <4>1, <4>2
    <3> QED BY <3>1
  <2> QED BY <2>1, <2>2
<1>2. CASE ~(p = NoPlan \/ \E k \in DOMAIN list : list[k].inputs = p.inputs)
  <2> DEFINE n == Len(list)
             T == {k \in DOMAIN list : p.output > list[k].output} \cup {n + 1}
             i == PlaceOf(list, p)
             h == InsertAt(list, i, p)
             l == Lesser(n + 1, MaxFinalists)
  <2>1. p \in S /\ n \in Nat /\ DOMAIN list = 1..n
      BY <1>2
  <2>2. i \in 1..(n + 1)
    <3>1. T \in SUBSET Nat /\ T # {} /\ \A k \in T : k \in 1..(n + 1)
        BY <2>1
    <3>2. i = Min(T)
        BY DEF PlaceOf
    <3> HIDE DEF T
    <3>3. Min(T) \in T
        BY <3>1, MinIs
    <3> QED BY <3>1, <3>2, <3>3
  <2> HIDE DEF i
  <2>3. IsInserted(h, S, list, i, p)
      BY <2>1, <2>2, Inserted
  <2>4. h \in Seq(S) /\ Len(h) = n + 1
      BY <2>3 DEF IsInserted
  <2>5. Shortlist(list, p) = FirstFew(h)
      BY <1>2 DEF Shortlist, i
  <2> HIDE DEF h, n
  <2>6. FirstFew(h) = SubSeq(h, 1, l)
      BY <2>4 DEF FirstFew
  <2>7. l \in 1..(n + 1)
      BY <2>1, CurveAssumption DEF Lesser
  <2> HIDE DEF l
  <2>8. SubSeq(h, 1, l) \in Seq(S) /\ Len(SubSeq(h, 1, l)) = l
      BY <2>1, <2>4, <2>7
  <2>9. l >= 1
      BY <2>1, <2>7
  <2> QED BY <2>5, <2>6, <2>8, <2>9
<1> QED BY <1>1, <1>2

\* The plans over the sets that may be chosen.
PlansOver(snapshots, curves, owner, amount, eligible, legs) ==
    {PlanOver(snapshots, curves, owner, amount, eligible, legs, m) : m \in SUBSET Nat} \ {NoPlan}

\* What going through the masks stands for, step by step.
IsShortening(snapshots, curves, owner, amount, eligible, legs, masks, f) ==
    f = [k \in 0..Len(masks) |->
           IF k = 0 THEN <<>>
           ELSE Shortlist(f[k - 1], PlanOver(snapshots, curves, owner, amount, eligible, legs, masks[k]))]

\* The finalists are such plans, and there is one when any set has a plan.
\* (optimize_search)
LEMMA FinalistsAre ==
    ASSUME NEW snapshots, Len(snapshots) \in Nat, NEW curves, NEW owner, NEW amount, NEW eligible, NEW legs
    PROVE  LET f == Finalists(snapshots, curves, owner, amount, eligible, legs) IN
           /\ f \in Seq(PlansOver(snapshots, curves, owner, amount, eligible, legs))
           /\ \A m \in SUBSET (1..Len(snapshots)) :
                PlanOver(snapshots, curves, owner, amount, eligible, legs, m) # NoPlan => Len(f) >= 1
<1> DEFINE S == PlansOver(snapshots, curves, owner, amount, eligible, legs)
           Of(m) == PlanOver(snapshots, curves, owner, amount, eligible, legs, m)
           masks == Masks(Len(snapshots))
           n == Len(masks)
           X == Seq(S)
           F == [q \in (1..n) \X X |-> Shortlist(q[2], Of(masks[q[1]]))]
           Is(h) == IsShortening(snapshots, curves, owner, amount, eligible, legs, masks, h)
           f == CHOOSE h : Is(h)
<1>1. ListsAll(masks, Len(snapshots))
    BY MasksAre
<1>2. Finalists(snapshots, curves, owner, amount, eligible, legs) = f[n]
    BY DEF Finalists, IsShortening
<1> HIDE DEF masks
<1>3. n \in Nat /\ \A k \in 1..n : masks[k] \in SUBSET Nat
    BY <1>1 DEF ListsAll
<1>4. \A m \in SUBSET Nat : Of(m) \in S \cup {NoPlan}
    BY DEF PlansOver
<1> HIDE DEF S, Of
<1>5. \A k \in 1..n : \A u \in X : Shortlist(u, Of(masks[k])) \in X
  <2> TAKE k \in 1..n
  <2> TAKE u \in X
  <2>1. Of(masks[k]) \in S \cup {NoPlan}
      BY <1>3, <1>4
  <2> QED BY <2>1, ShortlistIs
<1> HIDE DEF n
<1>6. F \in [(1..n) \X X -> X] /\ \A k \in 1..n : \A u \in X : F[<<k, u>>] = Shortlist(u, Of(masks[k]))
  <2> HIDE DEF X
  <2>1. \A q \in (1..n) \X X : q[1] \in 1..n /\ q[2] \in X
      OBVIOUS
  <2>2. \A q \in (1..n) \X X : Shortlist(q[2], Of(masks[q[1]])) \in X
      BY <1>5, <2>1
  <2> QED BY <2>2
<1> HIDE DEF F
<1>7. <<>> \in X
    OBVIOUS
<1>8. PICK g \in [0..n -> X] : g[0] = <<>> /\ \A k \in 1..n : g[k] = F[<<k, g[k - 1]>>]
  <2> HIDE DEF X
  <2>1. \E g : Runs(g, X, <<>>, n, F)
      BY <1>3, <1>6, <1>7, Iterated
  <2> QED BY <2>1 DEF Runs
<1> HIDE DEF X
<1>9. \A k \in 1..n : g[k] = Shortlist(g[k - 1], Of(masks[k]))
  <2> TAKE k \in 1..n
  <2>1. k - 1 \in 0..n
      BY <1>3
  <2>2. g[k - 1] \in X
      BY <1>8, <2>1
  <2> QED BY <1>6, <1>8, <2>2
<1>10. Is(g)
  <2>1. g = [k \in 0..n |-> g[k]]
      BY <1>8
  <2>2. \A k \in 0..n : g[k] = IF k = 0 THEN <<>> ELSE Shortlist(g[k - 1], Of(masks[k]))
      BY <1>3, <1>8, <1>9
  <2> QED BY <2>1, <2>2 DEF IsShortening, n, Of
<1>11. Is(f)
  <2> HIDE DEF Is
  <2> QED BY <1>10
<1> HIDE DEF f
<1>12. f[0] = <<>> /\ \A k \in 1..n : f[k] = Shortlist(f[k - 1], Of(masks[k]))
  <2>1. f = [k \in 0..n |-> IF k = 0 THEN <<>> ELSE Shortlist(f[k - 1], Of(masks[k]))]
      BY <1>11 DEF IsShortening, n, Of
  <2> QED BY <1>3, <2>1
<1> DEFINE Some(k) == \E j \in 1..k : Of(masks[j]) # NoPlan
<1>13. \A k \in 0..n : f[k] \in X /\ (Some(k) => Len(f[k]) >= 1)
  <2> DEFINE P == {k \in 0..n : f[k] \in X /\ (Some(k) => Len(f[k]) >= 1)}
  <2>1. 0 \in P /\ P \in SUBSET (0..n)
      BY <1>3, <1>7, <1>12
  <2>2. ASSUME NEW k \in 1..n, k - 1 \in P PROVE k \in P
    <3>1. k \in 0..n /\ f[k] = Shortlist(f[k - 1], Of(masks[k])) /\ f[k - 1] \in X
          /\ (Some(k - 1) => Len(f[k - 1]) >= 1)
        BY <1>3, <1>12, <2>2
    <3>2. Of(masks[k]) \in S \cup {NoPlan}
        BY <1>3, <1>4
    <3>3. Some(k) => Some(k - 1) \/ Of(masks[k]) # NoPlan
      <4>1. \A j \in 1..k : j = k \/ j \in 1..(k - 1)
          BY <1>3
      <4> QED BY <4>1
    <3> DEFINE p == Of(masks[k])
               u == f[k - 1]
    <3>4. u \in Seq(S) /\ p \in S \cup {NoPlan}
        BY <3>1, <3>2 DEF X
    <3> HIDE DEF p, u
    <3>5. Shortlist(u, p) \in Seq(S) /\ (p # NoPlan \/ Len(u) >= 1 => Len(Shortlist(u, p)) >= 1)
        BY <3>4, ShortlistIs
    <3>6. Some(k) => p # NoPlan \/ Len(u) >= 1
        BY <3>1, <3>3 DEF p, u
    <3>7. f[k] = Shortlist(u, p)
        BY <3>1 DEF p, u
    <3> HIDE DEF Some
    <3> QED BY <3>1, <3>5, <3>6, <3>7 DEF X
  <2> HIDE DEF P
  <2>3. \A k \in 0..n : k \in P
      BY <1>3, <2>1, <2>2, EveryStep
  <2> QED BY <2>3 DEF P
<1>14. n \in 0..n
    BY <1>3
<1>15. \A m \in SUBSET (1..Len(snapshots)) : Of(m) # NoPlan => Some(n)
  <2> TAKE m \in SUBSET (1..Len(snapshots))
  <2>1. \E k \in 1..n : masks[k] = m
      BY <1>1 DEF ListsAll, n
  <2> QED BY <2>1
<1>16. f[n] \in X /\ \A m \in SUBSET (1..Len(snapshots)) : Of(m) # NoPlan => Len(f[n]) >= 1
  <2> HIDE DEF Some
  <2> QED BY <1>13, <1>14, <1>15
<1> QED BY <1>2, <1>16 DEF X, S, Of

\* What comparing the finalists stands for, step by step.
IsWinning(snapshots, finalists, f) ==
    f = [k \in 0..Len(finalists) |->
           IF k = 0 THEN NoPlan ELSE Better(f[k - 1], Repriced(snapshots, finalists[k]))]

\* The winner is a finalist, with the venues' own prices.  (optimize_search)
LEMMA WinnerIs ==
    ASSUME NEW snapshots, NEW S, \A p \in S : "inputs" \in DOMAIN p, NEW finalists \in Seq(S)
    PROVE  LET w == Winner(snapshots, finalists) IN
           /\ w = NoPlan \/ \E p \in S : w = Repriced(snapshots, p)
           /\ Len(finalists) >= 1 => w # NoPlan
<1> DEFINE n == Len(finalists)
           X == {NoPlan} \cup {Repriced(snapshots, p) : p \in S}
           Of(k) == Repriced(snapshots, finalists[k])
           F == [q \in (1..n) \X X |-> Better(q[2], Of(q[1]))]
           f == CHOOSE h : IsWinning(snapshots, finalists, h)
<1>1. n \in Nat /\ \A k \in 1..n : finalists[k] \in S
    OBVIOUS
<1>2. \A p \in S : Repriced(snapshots, p) # NoPlan
  <2> TAKE p \in S
  <2>1. "inputs" \in DOMAIN Repriced(snapshots, p)
      BY DEF Repriced
  <2>2. "inputs" \notin DOMAIN NoPlan
      BY DEF NoPlan
  <2> QED BY <2>1, <2>2
<1>3. \A k \in 1..n : Of(k) \in X /\ Of(k) # NoPlan
    BY <1>1, <1>2
<1>4. Winner(snapshots, finalists) = f[n]
    BY DEF Winner, IsWinning
<1> HIDE DEF n, Of, X
<1>5. NoPlan \in X
    BY DEF X
<1>6. \A k \in 1..n : \A u \in X : Better(u, Of(k)) \in X
    BY <1>3 DEF Better
<1>7. F \in [(1..n) \X X -> X] /\ \A k \in 1..n : \A u \in X : F[<<k, u>>] = Better(u, Of(k))
  <2>1. \A q \in (1..n) \X X : q[1] \in 1..n /\ q[2] \in X
      OBVIOUS
  <2>2. \A q \in (1..n) \X X : Better(q[2], Of(q[1])) \in X
      BY <1>6, <2>1
  <2> QED BY <2>2
<1> HIDE DEF F
<1>8. PICK g \in [0..n -> X] : g[0] = NoPlan /\ \A k \in 1..n : g[k] = F[<<k, g[k - 1]>>]
  <2>1. \E g : Runs(g, X, NoPlan, n, F)
      BY <1>1, <1>5, <1>7, Iterated
  <2> QED BY <2>1 DEF Runs
<1>9. \A k \in 1..n : g[k] = Better(g[k - 1], Of(k))
  <2> TAKE k \in 1..n
  <2>1. k - 1 \in 0..n
      BY <1>1
  <2>2. g[k - 1] \in X
      BY <1>8, <2>1
  <2> QED BY <1>7, <1>8, <2>2
<1>10. IsWinning(snapshots, finalists, g)
  <2>1. g = [k \in 0..n |-> g[k]]
      BY <1>8
  <2>2. \A k \in 0..n : g[k] = IF k = 0 THEN NoPlan ELSE Better(g[k - 1], Of(k))
      BY <1>1, <1>8, <1>9
  <2> QED BY <2>1, <2>2 DEF IsWinning, n, Of
<1>11. IsWinning(snapshots, finalists, f)
    BY <1>10
<1> HIDE DEF f
<1>12. f[0] = NoPlan /\ \A k \in 1..n : f[k] = Better(f[k - 1], Of(k))
  <2>1. f = [k \in 0..n |-> IF k = 0 THEN NoPlan ELSE Better(f[k - 1], Of(k))]
      BY <1>11 DEF IsWinning, n, Of
  <2> QED BY <1>1, <2>1
<1>13. \A k \in 0..n : f[k] \in X /\ (k >= 1 => f[k] # NoPlan)
  <2> DEFINE P == {k \in 0..n : f[k] \in X /\ (k >= 1 => f[k] # NoPlan)}
  <2>1. 0 \in P /\ P \in SUBSET (0..n)
      BY <1>1, <1>5, <1>12
  <2>2. ASSUME NEW k \in 1..n, k - 1 \in P PROVE k \in P
    <3>1. k \in 0..n /\ f[k] = Better(f[k - 1], Of(k)) /\ f[k - 1] \in X
        BY <1>1, <1>12, <2>2
    <3>2. Of(k) \in X /\ Of(k) # NoPlan
        BY <1>3
    <3> DEFINE o == Of(k)
               u == f[k - 1]
    <3> HIDE DEF o, u
    <3>3. Better(u, o) \in {u, o} /\ (u = NoPlan => Better(u, o) = o)
        BY DEF Better
    <3>4. f[k] \in X /\ f[k] # NoPlan
        BY <3>1, <3>2, <3>3 DEF o, u
    <3> QED BY <3>1, <3>4
  <2> HIDE DEF P
  <2>3. \A k \in 0..n : k \in P
      BY <1>1, <2>1, <2>2, EveryStep
  <2> QED BY <2>3 DEF P
<1>14. n \in 0..n
    BY <1>1
<1>15. f[n] \in X /\ (n >= 1 => f[n] # NoPlan)
    BY <1>13, <1>14
<1> QED BY <1>4, <1>15 DEF X, n

\* What an allocation gives to the venues is the amount, over the mask, and
\* fits.  (ResidualTape::allocate)
LEMMA AllocatedIs ==
    ASSUME NEW curves, NEW C, GoodCurves(curves, C), NEW mask \in SUBSET C, NEW x \in Nat \ {0},
           NEW t, t = Tape(curves, C), NEW lower, NEW r \in 1..Len(t), NEW part \in Nat \ {0},
           NEW inputs \in [DOMAIN curves -> Nat],
           IsAllocation(curves, t, mask, x, lower, r, part, inputs)
    PROVE  /\ inputs \in [DOMAIN curves -> 0..x] /\ Total(inputs) = x
           /\ \A i \in DOMAIN curves : inputs[i] > 0 => i \in mask
           /\ \A i \in mask : inputs[i] <= CapOf(curves[i].bands, Len(curves[i].bands))
<1> DEFINE n == Len(t)
           D == DOMAIN curves
           o == t[r]
           g == GivenBy(curves, t, mask, r - 1)
           R == [i \in mask |-> CapOf(curves[i].bands, Prefix(t, r - 1, i))]
           p == Rank(curves, t, r - 1, mask)
<1>1. /\ p < x /\ part = x - p /\ part <= RowBand(curves, t, r).cap /\ o \in mask
      /\ inputs = [g EXCEPT ![o] = @ + part]
    BY DEF IsAllocation
<1>2. /\ n \in Nat /\ IsRow(curves, C, t, r)
      /\ \A k \in 0..n : \A i \in C : Prefix(t, k, i) \in 0..Len(curves[i].bands)
    BY RowIs
<1>3. r - 1 \in 0..n /\ r \in 0..n
    BY <1>2
<1>4. g \in [D -> Nat]
    BY <1>3, RowRead
<1>5. /\ \A i \in mask : g[i] = R[i] /\ i \in D /\ i \in C
      /\ \A i \in D \ mask : g[i] = 0
      /\ mask \in SUBSET D /\ IsFiniteSet(D)
    BY DEF GivenBy, GoodCurves
<1>6. p = SumIn(R, mask)
  <2>1. p = Total(R) /\ DOMAIN R = mask
      BY DEF Rank
  <2> HIDE DEF R, p
  <2> QED BY <2>1, TotalIs
<1>7. p \in Nat
    BY <1>3, RowStep DEF Counted
<1>8. \A i \in mask : GoodBands(curves[i].bands) /\ Prefix(t, r - 1, i) \in 0..Len(curves[i].bands)
                      /\ R[i] = CapOf(curves[i].bands, Prefix(t, r - 1, i))
    BY <1>2, <1>3 DEF GoodCurves
<1>9. IsFiniteSet(mask)
    BY <1>5, FS_Subset
<1>10. Prefix(t, r, o) = Prefix(t, r - 1, o) + 1 /\ Prefix(t, r, o) \in 0..Len(curves[o].bands)
       /\ RowBand(curves, t, r) = curves[o].bands[Prefix(t, r - 1, o) + 1]
    BY <1>1, <1>2, <1>3, <1>5 DEF IsRow, RowBand
<1> HIDE DEF g, p, o, R, n
<1>11. inputs[o] = g[o] + part /\ (\A i \in D : i # o => inputs[i] = g[i]) /\ o \in D /\ g[o] \in Nat
    BY <1>1, <1>4, <1>5
<1>12. Total(inputs) = x
  <2>1. DOMAIN inputs = D /\ \A i \in D : inputs[i] \in Int
      OBVIOUS
  <2>2. \A i \in D \ mask : inputs[i] = 0
      BY <1>1, <1>5, <1>11
  <2>3. Total(inputs) = SumIn(inputs, mask)
      BY <1>5, <2>1, <2>2, TotalWithin
  <2>4. SumIn(inputs, mask) = SumIn(g, mask) + part
    <3>1. \A i \in mask : g[i] \in Int /\ inputs[i] \in Int
        BY <1>4, <1>5, <2>1
    <3>2. \A i \in mask \ {o} : inputs[i] = g[i]
        BY <1>5, <1>11
    <3>3. part \in Int /\ o \in mask /\ inputs[o] = g[o] + part
        BY <1>1, <1>11
    <3> DEFINE v == inputs
               d == part
    <3>4. IsFiniteSet(mask) /\ o \in mask /\ d \in Int
        BY <1>9, <3>3
    <3>5. (\A i \in mask : g[i] \in Int /\ v[i] \in Int) /\ (\A i \in mask \ {o} : v[i] = g[i]) /\ v[o] = g[o] + d
        BY <3>1, <3>2, <3>3
    <3> HIDE DEF D, v, d
    <3>6. SumIn(v, mask) = SumIn(g, mask) + d
        BY <3>4, <3>5, SumWithMore
    <3> QED BY <3>6 DEF v, d
  <2>5. SumIn(g, mask) = p
    <3>1. \A i \in mask : g[i] = R[i]
        BY <1>5
    <3> QED BY <1>6, <1>9, <3>1, SumOfSame
  <2> QED BY <1>1, <1>7, <2>3, <2>4, <2>5
<1>13. \A i \in D : inputs[i] <= x
  <2> TAKE i \in D
  <2>1. DOMAIN inputs = D /\ \A j \in D : inputs[j] \in Nat /\ inputs[j] \in Int
      OBVIOUS
  <2>2. Total(inputs) = SumIn(inputs, D)
      BY <2>1, TotalIs
  <2>3. SumIn(inputs, D) = inputs[i] + SumIn(inputs, D \ {i})
      BY <1>5, <2>1, SumOfRest
  <2>4. IsFiniteSet(D \ {i}) /\ \A j \in D \ {i} : inputs[j] \in Nat
      BY <1>5, <2>1, FS_RemoveElement
  <2>5. SumIn(inputs, D \ {i}) \in Nat
      BY <2>4, SumOfNaturals
  <2> QED BY <1>12, <2>1, <2>2, <2>3, <2>5
<1>14. ASSUME NEW i \in D, inputs[i] > 0 PROVE i \in mask
  <2> SUFFICES ASSUME i \notin mask PROVE FALSE
      OBVIOUS
  <2>1. inputs[i] = 0
      BY <1>1, <1>5, <1>11
  <2> QED BY <1>14, <2>1
<1>15. ASSUME NEW i \in mask PROVE inputs[i] <= CapOf(curves[i].bands, Len(curves[i].bands))
  <2> DEFINE b == curves[i].bands
             q == Prefix(t, r - 1, i)
             l == Len(b)
  <2>1. GoodBands(b) /\ q \in 0..l /\ g[i] = CapOf(b, q) /\ l \in Nat
      BY <1>5, <1>8 DEF GoodBands
  <2>2. l \in 0..l
      BY <2>1
  <2>3. CapOf(b, q) <= CapOf(b, l)
      BY <2>1, <2>2, CapGrows
  <2>4. CASE i # o
    <3>1. inputs[i] = g[i]
        BY <1>5, <1>11, <2>4
    <3> QED BY <2>1, <2>3, <3>1
  <2>5. CASE i = o
    <3>1. q + 1 \in 0..l /\ q + 1 \in 1..l /\ RowBand(curves, t, r) = b[q + 1]
      <4>1. Prefix(t, r, i) = q + 1 /\ Prefix(t, r, i) \in 0..l /\ RowBand(curves, t, r) = b[q + 1]
          BY <1>10, <2>5
      <4> QED BY <2>1, <4>1
    <3>2. CapOf(b, q + 1) <= CapOf(b, l)
      <4>1. q + 1 <= l
          BY <2>1, <3>1
      <4> QED BY <2>1, <2>2, <3>1, <4>1, CapGrows
    <3>3. CapOf(b, q + 1) = CapOf(b, q) + b[q + 1].cap
      <4>1. (q + 1) - 1 = q
          BY <2>1
      <4> QED BY <2>1, <3>1, <4>1, CapIs
    <3>4. inputs[i] = CapOf(b, q) + part /\ part <= b[q + 1].cap
        BY <1>1, <1>11, <2>1, <2>5, <3>1
    <3>5. CapOf(b, q) \in Nat /\ CapOf(b, l) \in Nat /\ CapOf(b, q + 1) \in Nat
        BY <2>1, <2>2, <3>1, CapIs
    <3>6. b[q + 1].cap \in Nat
        BY <2>1, <3>1 DEF GoodBands
    <3> HIDE DEF b, q, l
    <3>7. inputs[i] <= CapOf(b, l)
        BY <3>2, <3>3, <3>4, <3>5, <3>6
    <3> QED BY <3>7 DEF b, l
  <2> QED BY <2>4, <2>5
<1>16. inputs \in [D -> 0..x]
    BY <1>13
<1> QED BY <1>12, <1>14, <1>15, <1>16

\* What the curves of a mask hold.
Hold(curves, mask, caps) == \A i \in mask : CapOf(curves[i].bands, Len(curves[i].bands)) = caps[i]

\* What a tape can give a mask is what its venues hold.
LEMMA RankIs ==
    ASSUME NEW curves, NEW C, GoodCurves(curves, C), NEW mask \in SUBSET C,
           NEW t, t = Tape(curves, C), NEW caps, Hold(curves, mask, caps)
    PROVE  Rank(curves, t, Len(t), mask) = SumIn(caps, mask)
<1> DEFINE R == [i \in mask |-> CapOf(curves[i].bands, Prefix(t, Len(t), i))]
<1>1. \A i \in C : Prefix(t, Len(t), i) = Len(curves[i].bands)
    BY RowIs
<1>2. \A i \in mask : R[i] = caps[i]
    BY <1>1 DEF Hold
<1>3. Rank(curves, t, Len(t), mask) = Total(R) /\ DOMAIN R = mask
    BY DEF Rank
<1>4. IsFiniteSet(mask)
    BY FS_Subset DEF GoodCurves
<1> HIDE DEF R
<1>5. Total(R) = SumIn(R, mask)
    BY <1>3, TotalIs
<1>6. SumIn(R, mask) = SumIn(caps, mask)
    BY <1>2, <1>4, SumOfSame
<1> QED BY <1>3, <1>5, <1>6

\* Where there is an allocation it is a plan.
LEMMA AllocationFound ==
    ASSUME NEW curves, NEW C, GoodCurves(curves, C), NEW mask \in SUBSET C, NEW x \in Nat \ {0},
           NEW t, t = Tape(curves, C), NEW lower
    PROVE  (Allocate(curves, t, x, mask, lower) # NoPlan) <=> (Rank(curves, t, Len(t), mask) >= x)
<1>1. Rank(curves, t, Len(t), mask) \in Nat
  <2>1. Len(t) \in 0..Len(t)
      BY RowIs
  <2> QED BY <2>1, RowStep DEF Counted
<1>2. CASE Rank(curves, t, Len(t), mask) < x
    BY <1>1, <1>2 DEF Allocate
<1>3. CASE Rank(curves, t, Len(t), mask) >= x
  <2>1. PICK r \in 1..Len(t), part \in Nat \ {0}, inputs \in [DOMAIN curves -> Nat] :
           IsAllocation(curves, t, mask, x, lower, r, part, inputs)
      BY <1>3, AllocationIs
  <2>2. Allocate(curves, t, x, mask, lower) = ReadOff(curves, t, r, part, inputs, lower)
      BY <2>1 DEF IsAllocation
  <2>3. "inputs" \in DOMAIN ReadOff(curves, t, r, part, inputs, lower)
      BY DEF ReadOff
  <2>4. "inputs" \notin DOMAIN NoPlan
      BY DEF NoPlan
  <2> QED BY <1>3, <2>2, <2>3, <2>4
<1> QED BY <1>1, <1>2, <1>3

\* A split of x over venues that may be chosen together.
IsChosen(snapshots, curves, caps, x, eligible, legs, f) ==
    /\ f \in [DOMAIN curves -> 0..x] /\ Total(f) = x
    /\ \A i \in DOMAIN curves : f[i] > 0 => i \in eligible /\ f[i] <= caps[i]
    /\ LET planned == {i \in DOMAIN curves : f[i] > 0} IN
       Cardinality(planned) <= legs /\ Independent(snapshots, planned)

\* The plan over a set is such a split.  (ResidualTape::allocate)
LEMMA PlanOverIs ==
    ASSUME NEW curves, NEW C, GoodCurves(curves, C), NEW eligible \in SUBSET C, NEW x \in Nat \ {0},
           NEW t, t = Tape(curves, C), NEW olds, NEW caps, \A i \in C : IsCurve(olds[i], curves[i], caps[i]),
           NEW legs \in Nat, NEW snapshots, NEW p \in PlansOver(snapshots, curves, t, x, eligible, legs)
    PROVE  DOMAIN p = {"inputs", "output"} /\ IsChosen(snapshots, curves, caps, x, eligible, legs, p.inputs)
<1>1. PICK m \in SUBSET Nat : p = PlanOver(snapshots, curves, t, x, eligible, legs, m) /\ p # NoPlan
    BY DEF PlansOver
<1>2. /\ m \subseteq eligible /\ Cardinality(m) <= legs /\ Independent(snapshots, m)
      /\ p = Allocate(curves, t, x, m, TRUE)
    BY <1>1 DEF PlanOver
<1>3. m \in SUBSET C
    BY <1>2
<1>4. Rank(curves, t, Len(t), m) >= x
    BY <1>1, <1>2, <1>3, AllocationFound
<1>5. PICK r \in 1..Len(t), part \in Nat \ {0}, inputs \in [DOMAIN curves -> Nat] :
         IsAllocation(curves, t, m, x, TRUE, r, part, inputs)
    BY <1>3, <1>4, AllocationIs
<1>6. p = ReadOff(curves, t, r, part, inputs, TRUE)
    BY <1>2, <1>5 DEF IsAllocation
<1>7. p.inputs = inputs /\ DOMAIN p = {"inputs", "output"}
    BY <1>6 DEF ReadOff
<1>8. /\ inputs \in [DOMAIN curves -> 0..x] /\ Total(inputs) = x
      /\ \A i \in DOMAIN curves : inputs[i] > 0 => i \in m
      /\ \A i \in m : inputs[i] <= CapOf(curves[i].bands, Len(curves[i].bands))
    BY <1>3, <1>5, AllocatedIs
<1> DEFINE planned == {i \in DOMAIN curves : inputs[i] > 0}
<1>9. planned \in SUBSET m /\ IsFiniteSet(m)
  <2>1. IsFiniteSet(m)
      BY <1>3, FS_Subset DEF GoodCurves
  <2> QED BY <1>8, <2>1
<1>10. Cardinality(planned) <= legs
  <2>1. Cardinality(planned) <= Cardinality(m) /\ IsFiniteSet(planned)
      BY <1>9, FS_Subset
  <2>2. Cardinality(planned) \in Nat /\ Cardinality(m) \in Nat
      BY <1>9, <2>1, FS_CardinalityType
  <2> QED BY <1>2, <2>1, <2>2
<1>11. Independent(snapshots, planned)
    BY <1>2, <1>9 DEF Independent
<1>12. \A i \in DOMAIN curves : inputs[i] > 0 => i \in eligible /\ inputs[i] <= caps[i]
  <2> TAKE i \in DOMAIN curves
  <2> HAVE inputs[i] > 0
  <2>1. i \in m
      BY <1>8
  <2>2. CapOf(curves[i].bands, Len(curves[i].bands)) = caps[i]
      BY <1>3, <2>1 DEF IsCurve
  <2> QED BY <1>2, <1>8, <2>1, <2>2
<1> QED BY <1>7, <1>8, <1>10, <1>11, <1>12 DEF IsChosen

\* What the search answers: a split, what it gets by the venues' own prices,
\* and the bound.  (optimize_search)
LEMMA SearchIs ==
    ASSUME NEW curves, NEW C, GoodCurves(curves, C), NEW eligible \in SUBSET C, NEW x \in Nat \ {0},
           NEW t, t = Tape(curves, C), NEW olds, NEW caps, \A i \in C : IsCurve(olds[i], curves[i], caps[i]),
           NEW legs \in Nat, NEW snapshots, Len(snapshots) \in Nat,
           Search(snapshots, curves, t, x, eligible, legs) # NoPlan
    PROVE  LET plan == Search(snapshots, curves, t, x, eligible, legs) IN
           /\ IsChosen(snapshots, curves, caps, x, eligible, legs, plan.inputs)
           /\ plan.output = ExactOutput(snapshots, plan)
           /\ plan.upper = Allocate(curves, t, x, eligible, FALSE).output
                             + Errors(curves, eligible)
           /\ Rank(curves, t, Len(t), eligible) >= x
<1> DEFINE plan == Search(snapshots, curves, t, x, eligible, legs)
           best == Allocate(curves, t, x, eligible, FALSE)
           S == PlansOver(snapshots, curves, t, x, eligible, legs)
           l == Finalists(snapshots, curves, t, x, eligible, legs)
           w == Winner(snapshots, l)
           e == Errors(curves, eligible)
<1>1. plan = Certified(best, w, e)
    BY DEF Search, Errors
<1>2. best # NoPlan /\ w # NoPlan /\ plan = [inputs |-> w.inputs, output |-> w.output, upper |-> best.output + e]
    BY <1>1 DEF Certified
<1>3. Rank(curves, t, Len(t), eligible) >= x
    BY <1>2, AllocationFound
<1>4. l \in Seq(S)
    BY FinalistsAre
<1>5. \A p \in S : DOMAIN p = {"inputs", "output"} /\ IsChosen(snapshots, curves, caps, x, eligible, legs, p.inputs)
    BY PlanOverIs
<1> HIDE DEF l, S, best, e
<1>6. \A p \in S : "inputs" \in DOMAIN p
    BY <1>5
<1>7. w = NoPlan \/ \E p \in S : w = Repriced(snapshots, p)
    BY <1>4, <1>6, WinnerIs
<1>8. PICK p \in S : w = Repriced(snapshots, p)
    BY <1>2, <1>7
<1>9. w.inputs = p.inputs /\ w.output = ExactOutput(snapshots, p)
    BY <1>5, <1>8 DEF Repriced
<1> HIDE DEF w
<1>10. plan.inputs = p.inputs /\ plan.output = w.output /\ plan.upper = best.output + e
    BY <1>2, <1>9
<1>11. ExactOutput(snapshots, plan) = ExactOutput(snapshots, p)
    BY <1>10 DEF ExactOutput
<1>12. IsChosen(snapshots, curves, caps, x, eligible, legs, plan.inputs)
    BY <1>5, <1>10
<1> QED BY <1>3, <1>9, <1>10, <1>11, <1>12 DEF best, e

\* A set that may be chosen and holds enough is found.  (optimize_search)
THEOREM SearchFinds ==
    ASSUME NEW curves, NEW C, GoodCurves(curves, C), NEW eligible \in SUBSET C, NEW x \in Nat \ {0},
           NEW t, t = Tape(curves, C), NEW olds, NEW caps, \A i \in C : IsCurve(olds[i], curves[i], caps[i]),
           NEW legs \in Nat, NEW snapshots, Len(snapshots) \in Nat, eligible \subseteq 1..Len(snapshots),
           NEW m \in SUBSET eligible, m # {}, Cardinality(m) <= legs, Independent(snapshots, m),
           SumIn(caps, m) >= x
    PROVE  Search(snapshots, curves, t, x, eligible, legs) # NoPlan
<1> DEFINE best == Allocate(curves, t, x, eligible, FALSE)
           S == PlansOver(snapshots, curves, t, x, eligible, legs)
           l == Finalists(snapshots, curves, t, x, eligible, legs)
           w == Winner(snapshots, l)
           e == Errors(curves, eligible)
<1>1. m \in SUBSET C
    OBVIOUS
<1>2. Rank(curves, t, Len(t), m) = SumIn(caps, m) /\ Rank(curves, t, Len(t), eligible) = SumIn(caps, eligible)
  <2>1. Hold(curves, m, caps) /\ Hold(curves, eligible, caps)
      BY <1>1 DEF IsCurve, Hold
  <2>2. Rank(curves, t, Len(t), m) = SumIn(caps, m)
      BY <1>1, <2>1, RankIs
  <2>3. Rank(curves, t, Len(t), eligible) = SumIn(caps, eligible)
      BY <2>1, RankIs
  <2> QED BY <2>2, <2>3
<1>3. \A i \in C : caps[i] \in Nat
  <2> TAKE i \in C
  <2> DEFINE b == curves[i].bands
  <2>1. GoodBands(b) /\ CapOf(b, Len(b)) = caps[i]
      BY DEF IsCurve
  <2>2. Len(b) \in 0..Len(b)
      BY <2>1 DEF GoodBands
  <2>3. CapOf(b, Len(b)) \in Nat
      BY <2>1, <2>2, CapIs
  <2> QED BY <2>1, <2>3
<1>4. SumIn(caps, m) <= SumIn(caps, eligible)
  <2> DEFINE c == [i \in eligible |-> IF i \in m THEN caps[i] ELSE 0]
  <2>1. IsFiniteSet(eligible) /\ IsFiniteSet(m)
    <3>1. IsFiniteSet(eligible)
        BY FS_Subset DEF GoodCurves
    <3> QED BY <3>1, FS_Subset
  <2>2. /\ \A i \in eligible : c[i] \in Int /\ caps[i] \in Int /\ c[i] <= caps[i]
        /\ \A i \in eligible \ m : c[i] = 0
        /\ \A i \in m : c[i] = caps[i]
      BY <1>3
  <2> HIDE DEF c
  <2>3. SumIn(c, eligible) = SumIn(c, m)
      BY <2>1, <2>2, SumOfSome
  <2>4. SumIn(c, m) = SumIn(caps, m)
      BY <2>1, <2>2, SumOfSame
  <2>5. SumIn(c, eligible) <= SumIn(caps, eligible)
      BY <2>1, <2>2, SumAtMost
  <2> QED BY <2>3, <2>4, <2>5
<1>5. SumIn(caps, m) \in Nat /\ SumIn(caps, eligible) \in Nat
  <2>1. IsFiniteSet(eligible)
      BY FS_Subset DEF GoodCurves
  <2>2. IsFiniteSet(m)
      BY <2>1, FS_Subset
  <2> QED BY <1>3, <2>1, <2>2, SumOfNaturals
<1>6. Rank(curves, t, Len(t), m) >= x /\ Rank(curves, t, Len(t), eligible) >= x
    BY <1>2, <1>4, <1>5
<1>7. best # NoPlan
    BY <1>6, AllocationFound
<1>8. Allocate(curves, t, x, m, TRUE) # NoPlan
    BY <1>1, <1>6, AllocationFound
<1>9. PlanOver(snapshots, curves, t, x, eligible, legs, m) # NoPlan
    BY <1>8 DEF PlanOver
<1>10. m \in SUBSET (1..Len(snapshots))
    OBVIOUS
<1>11. l \in Seq(S) /\ Len(l) >= 1
    BY <1>9, <1>10, FinalistsAre
<1>12. \A p \in S : DOMAIN p = {"inputs", "output"} /\ IsChosen(snapshots, curves, caps, x, eligible, legs, p.inputs)
    BY PlanOverIs
<1> HIDE DEF l, S, best
<1>13. \A p \in S : "inputs" \in DOMAIN p
    BY <1>12
<1>14. w # NoPlan
    BY <1>11, <1>13, WinnerIs
<1> HIDE DEF w, e
<1>15. Search(snapshots, curves, t, x, eligible, legs) = [inputs |-> w.inputs, output |-> w.output, upper |-> best.output + e]
    BY <1>7, <1>14 DEF Search, Certified, best, w, l, e, Errors
<1>16. "inputs" \notin DOMAIN NoPlan
    BY DEF NoPlan
<1> QED BY <1>15, <1>16

-----------------------------------------------------------------------------
(* The kernel.                                                             *)

\* What a venue may be given, and the curves of a task's venues.
Capped(j) == [i \in DOMAIN j.venues |-> Lesser(j.venues[i].capacity, j.amount)]
Known(j, curves, i) == j.venues[i].capacity > 0 /\ curves[i] = Compile(j.venues[i], j.amount)
KnownCurves(j, curves, compiled) ==
    /\ DOMAIN curves = DOMAIN j.venues
    /\ \A i \in DOMAIN j.venues : curves[i] = NoCurve \/ Known(j, curves, i)
    /\ compiled \in SUBSET (DOMAIN j.venues)
    /\ \A i \in compiled : Known(j, curves, i)

\* The venues are those of the task, on a set.
Agrees(j, venues, S) ==
    /\ DOMAIN venues = DOMAIN j.venues /\ Len(venues) = Len(j.venues)
    /\ \A i \in S : venues[i] = j.venues[i]

\* The compiled curves bound their venues.  (compile)
LEMMA KnownAre ==
    ASSUME NEW j, IsTask(j), NEW curves, NEW compiled, KnownCurves(j, curves, compiled)
    PROVE  /\ GoodCurves(curves, compiled)
           /\ \A i \in compiled : IsCurve(j.venues[i], curves[i], Capped(j)[i])
           /\ \A i \in compiled : Falling(curves[i].bands)
           /\ \A i \in compiled : Capped(j)[i] \in Nat \ {0}
<1>1. /\ DOMAIN j.venues = 1..Len(j.venues) /\ Len(j.venues) \in Nat
      /\ \A i \in DOMAIN j.venues : j.venues[i].capacity \in Nat /\ ValidModel(j.venues[i])
      /\ j.amount \in Nat \ {0}
    BY DEF IsTask
<1>2. compiled \in SUBSET (DOMAIN j.venues) /\ DOMAIN curves = DOMAIN j.venues
      /\ \A i \in compiled : j.venues[i].capacity > 0 /\ curves[i] = Compile(j.venues[i], j.amount)
    BY DEF KnownCurves, Known
<1>3. ASSUME NEW i \in compiled
      PROVE  IsCurve(j.venues[i], curves[i], Capped(j)[i]) /\ Capped(j)[i] \in Nat \ {0}
  <2> DEFINE s == j.venues[i]
             h == j.amount
  <2>1. ValidModel(s) /\ s.capacity \in Nat \ {0} /\ h \in Nat \ {0} /\ curves[i] = Compile(s, h)
      BY <1>1, <1>2
  <2>2. Capped(j)[i] = Lesser(s.capacity, h)
      BY <1>2 DEF Capped
  <2> HIDE DEF s, h
  <2>3. IsCurve(s, Compile(s, h), Lesser(s.capacity, h))
      BY <2>1, CompileIs
  <2>4. Lesser(s.capacity, h) \in Nat \ {0}
      BY <2>1 DEF Lesser
  <2> QED BY <2>1, <2>2, <2>3, <2>4 DEF s
<1>4. \A i \in compiled : GoodBands(curves[i].bands) /\ Falling(curves[i].bands)
    BY <1>3 DEF IsCurve, Falling
<1>5. IsFiniteSet(DOMAIN curves) /\ \A i \in DOMAIN curves : i \in Nat
    BY <1>1, <1>2, FS_Interval
<1> QED BY <1>2, <1>3, <1>4, <1>5 DEF GoodCurves

\* What a split gets.
Gets(venues, f) ==
    Total([i \in DOMAIN venues |-> IF f[i] = 0 THEN 0 ELSE ExactQuote(venues[i], f[i])])

\* The certificate bounds every split.  (optimize_search, its certificate)
LEMMA AllBounded ==
    ASSUME NEW j, IsTask(j), NEW curves, NEW compiled, KnownCurves(j, curves, compiled),
           NEW usable \in SUBSET compiled, NEW venues, Agrees(j, venues, usable),
           NEW x \in Nat \ {0}, x <= j.amount,
           NEW f \in [DOMAIN j.venues -> 0..x], Total(f) = x,
           NEW t, t = Tape(curves, compiled), Rank(curves, t, Len(t), usable) >= x,
           \A i \in DOMAIN j.venues : f[i] > 0 => i \in usable /\ f[i] <= venues[i].capacity
    PROVE  Gets(venues, f) <= Allocate(curves, t, x, usable, FALSE).output
                                + Errors(curves, usable)
<1> DEFINE D == DOMAIN j.venues
           best == Allocate(curves, t, x, usable, FALSE)
           e == Errors(curves, usable)
           q == Quoted(venues, f, usable)
           g == [i \in DOMAIN venues |-> IF f[i] = 0 THEN 0 ELSE ExactQuote(venues[i], f[i])]
           caps == Capped(j)
<1>1. /\ GoodCurves(curves, compiled)
      /\ \A i \in compiled : IsCurve(j.venues[i], curves[i], caps[i])
      /\ \A i \in compiled : Falling(curves[i].bands)
      /\ \A i \in compiled : caps[i] \in Nat \ {0}
    BY KnownAre
<1>2. /\ DOMAIN curves = D /\ DOMAIN venues = D /\ usable \in SUBSET D
      /\ \A i \in usable : venues[i] = j.venues[i]
      /\ \A i \in D : caps[i] = Lesser(j.venues[i].capacity, j.amount)
      /\ IsFiniteSet(D) /\ j.amount \in Nat /\ \A i \in D : j.venues[i].capacity \in Nat
    BY <1>1 DEF KnownCurves, Agrees, Capped, IsTask, GoodCurves
<1>3. \A i \in usable : caps[i] \in Nat /\ IsCurve(venues[i], curves[i], caps[i])
    BY <1>1, <1>2
<1>4. \A i \in usable : f[i] \in Nat /\ f[i] <= caps[i]
  <2> TAKE i \in usable
  <2>1. i \in D /\ f[i] \in 0..x /\ f[i] \in Nat /\ caps[i] \in Nat
      BY <1>2, <1>3
  <2>2. CASE f[i] = 0
      BY <2>1, <2>2
  <2>3. CASE f[i] > 0
    <3>1. f[i] <= venues[i].capacity /\ venues[i] = j.venues[i]
        BY <1>2, <2>1, <2>3
    <3> QED BY <1>2, <2>1, <3>1 DEF Lesser
  <2> QED BY <2>1, <2>2, <2>3
<1>5. SumIn(f, usable) = x
  <2>1. DOMAIN f = D /\ \A i \in D : f[i] \in Int
      OBVIOUS
  <2>2. \A i \in D \ usable : f[i] = 0
    <3> TAKE i \in D \ usable
    <3>1. f[i] \in 0..x /\ ~(f[i] > 0)
        OBVIOUS
    <3> QED BY <3>1
  <2> HIDE DEF D
  <2> QED BY <1>2, <2>1, <2>2, TotalWithin
<1> HIDE DEF caps
<1>6. best.output \in Nat /\ e \in Nat /\ (\A i \in usable : q[i] \in Nat) /\ SumIn(q, usable) <= best.output + e
    BY <1>1, <1>3, <1>4, <1>5, CertificateIs
<1>7. /\ DOMAIN g = D
      /\ \A i \in D : g[i] = IF f[i] = 0 THEN 0 ELSE ExactQuote(venues[i], f[i])
      /\ \A i \in usable : g[i] = IF f[i] = 0 THEN 0 ELSE q[i]
    BY <1>2 DEF Quoted
<1>8. Gets(venues, f) = Total(g)
    BY DEF Gets
<1> HIDE DEF g, q, best, e
<1>9. \A i \in D \ usable : g[i] = 0
  <2> TAKE i \in D \ usable
  <2>1. f[i] \in 0..x /\ ~(f[i] > 0)
      OBVIOUS
  <2> QED BY <1>7, <2>1
<1>10. \A i \in usable : g[i] \in Int /\ q[i] \in Int /\ g[i] <= q[i]
    BY <1>6, <1>7
<1>11. \A i \in D : g[i] \in Int
    BY <1>9, <1>10
<1>12. Total(g) = SumIn(g, usable)
  <2> HIDE DEF D
  <2> QED BY <1>2, <1>7, <1>9, <1>11, TotalWithin
<1>13. IsFiniteSet(usable)
    BY <1>2, FS_Subset
<1>14. SumIn(g, usable) <= SumIn(q, usable)
    BY <1>10, <1>13, SumAtMost
<1>15. SumIn(g, usable) \in Int /\ SumIn(q, usable) \in Int
    BY <1>10, <1>13, SumOfIntegers
<1>16. Gets(venues, f) <= best.output + e
    BY <1>6, <1>8, <1>12, <1>14, <1>15
<1> QED BY <1>16 DEF best, e

\* A split of x over some venues, each within its capacity.
IsSplit(j, venues, usable, x, f) ==
    /\ f \in [DOMAIN j.venues -> 0..x] /\ Total(f) = x
    /\ \A i \in DOMAIN j.venues : f[i] > 0 => i \in usable /\ f[i] <= venues[i].capacity

\* The plan is a split over venues that share nothing, it gets what it says,
\* and no split gets more than its bound.
IsSound(j, venues, usable, x, legs, plan) ==
    /\ \A f : IsSplit(j, venues, usable, x, f) => Gets(venues, f) <= plan.upper
    /\ IsSplit(j, venues, usable, x, plan.inputs)
    /\ LET planned == {i \in DOMAIN j.venues : plan.inputs[i] > 0} IN
       Cardinality(planned) <= legs /\ Independent(venues, planned)
    /\ plan.output = Gets(venues, plan.inputs)

\* What the search finds is such a plan.  (optimize_search)
LEMMA PlanFound ==
    ASSUME NEW j, IsTask(j), NEW curves, NEW compiled, KnownCurves(j, curves, compiled),
           NEW usable \in SUBSET compiled, NEW venues, Agrees(j, venues, usable),
           NEW x \in Nat \ {0}, x <= j.amount, NEW legs \in Nat,
           Search(venues, curves, Tape(curves, compiled), x, usable, legs) # NoPlan
    PROVE  IsSound(j, venues, usable, x, legs, Search(venues, curves, Tape(curves, compiled), x, usable, legs))
<1> DEFINE t == Tape(curves, compiled)
           plan == Search(venues, curves, t, x, usable, legs)
           olds == j.venues
           caps == Capped(j)
           D == DOMAIN j.venues
<1>1. /\ GoodCurves(curves, compiled)
      /\ \A i \in compiled : IsCurve(olds[i], curves[i], caps[i])
    BY KnownAre
<1>2. /\ DOMAIN curves = D /\ DOMAIN venues = D /\ Len(venues) \in Nat
      /\ \A i \in usable : venues[i] = j.venues[i]
      /\ \A i \in D : caps[i] = Lesser(j.venues[i].capacity, j.amount)
      /\ j.amount \in Nat /\ \A i \in D : j.venues[i].capacity \in Nat
    BY DEF KnownCurves, Agrees, Capped, IsTask
<1> HIDE DEF caps, olds
<1>3. /\ IsChosen(venues, curves, caps, x, usable, legs, plan.inputs)
      /\ plan.output = ExactOutput(venues, plan)
      /\ plan.upper = Allocate(curves, t, x, usable, FALSE).output + Errors(curves, usable)
      /\ Rank(curves, t, Len(t), usable) >= x
    BY <1>1, <1>2, SearchIs, ZenonT(40)
<1>4. \A f : IsSplit(j, venues, usable, x, f) => Gets(venues, f) <= plan.upper
  <2> TAKE f
  <2> HAVE IsSplit(j, venues, usable, x, f)
  <2>1. /\ f \in [DOMAIN j.venues -> 0..x] /\ Total(f) = x
        /\ \A i \in DOMAIN j.venues : f[i] > 0 => i \in usable /\ f[i] <= venues[i].capacity
      BY DEF IsSplit
  <2>2. Rank(curves, t, Len(t), usable) >= x /\ t = Tape(curves, compiled)
      BY <1>3
  <2> HIDE DEF t
  <2>3. Gets(venues, f) <= Allocate(curves, t, x, usable, FALSE).output + Errors(curves, usable)
      BY <2>1, <2>2, AllBounded
  <2> QED BY <1>3, <2>3
<1>5. IsSplit(j, venues, usable, x, plan.inputs)
  <2> DEFINE p == plan.inputs
  <2>1. /\ p \in [D -> 0..x] /\ Total(p) = x
        /\ \A i \in D : p[i] > 0 => i \in usable /\ p[i] <= caps[i]
      BY <1>2, <1>3 DEF IsChosen
  <2> HIDE DEF plan
  <2>2. \A i \in D : p[i] > 0 => i \in usable /\ p[i] <= venues[i].capacity
    <3> TAKE i \in D
    <3> HAVE p[i] > 0
    <3>1. i \in usable /\ p[i] <= caps[i] /\ p[i] \in 0..x
        BY <2>1
    <3>2. venues[i] = j.venues[i] /\ caps[i] = Lesser(j.venues[i].capacity, j.amount)
        BY <1>2, <3>1
    <3> QED BY <1>2, <3>1, <3>2 DEF Lesser
  <2> QED BY <2>1, <2>2 DEF IsSplit
<1>6. LET planned == {i \in D : plan.inputs[i] > 0} IN Cardinality(planned) <= legs /\ Independent(venues, planned)
    BY <1>2, <1>3 DEF IsChosen
<1>7. plan.output = Gets(venues, plan.inputs)
    BY <1>3 DEF ExactOutput, Gets
<1> QED BY <1>4, <1>5, <1>6, <1>7 DEF IsSound

\* The fields of an execution's state.
RunFields == {"at", "left", "used", "reflows", "full", "seen", "curves", "compiled", "plan", "error"}

\* The venues that may be used now.
UsableNow == {i \in Venues : Usable(i)}

\* What the execution holds agrees with the task, as far as it was not used.
KernelKeeps ==
    /\ task \in Jobs /\ DOMAIN run = RunFields
    /\ Agrees(task, staged.venues, Venues \ Range(run.used))
    /\ run.at # "done" => kept = Fresh(task)
    /\ Agrees(task, run.seen, Venues)
    /\ KnownCurves(task, run.curves, run.compiled)
    /\ run.used \in Seq(Venues) /\ run.reflows \in Nat
    /\ run.at \in {"start", "next", "invoke"} => run.left \in Nat \ {0} /\ run.left <= task.amount
    /\ run.at = "start" => run.used = <<>> /\ run.compiled = {}
    /\ run.at = "next" => run.used # <<>>
    /\ run.at \in {"next", "invoke"} => Admitted /\ UsableNow \subseteq run.compiled

\* The venues that are left hold enough, share nothing, and fit in what is
\* left of the legs and the reflows.
RestFits ==
    \E rest \in SUBSET UsableNow :
        /\ rest # {} /\ Independent(staged.venues, rest)
        /\ Cardinality(rest) <= LegBudget(run.reflows + 1)
        /\ SumIn(Capped(task), rest) >= run.left
FillsFit ==
    /\ run.at = "next" /\ run.full => RestFits
    /\ run.at # "failed" => run.error = "none"

\* The invariant.
KernelInv == KernelKeeps /\ FillsFit /\ KernelPlanHolds

\* It holds at first.
LEMMA KernelStarts ==
    KernelInit => KernelInv
<1> SUFFICES ASSUME KernelInit PROVE KernelInv
    OBVIOUS
<1>1. task \in Jobs /\ kept = Fresh(task) /\ staged = Fresh(task) /\ run = Idle(task)
    BY DEF KernelInit
<1>2. IsTask(task)
    BY <1>1, TaskAssumption
<1>3. /\ DOMAIN run = RunFields /\ run.at = "start" /\ run.left = task.amount /\ run.used = <<>> /\ run.reflows = 0
      /\ run.seen = task.venues /\ run.curves = [i \in DOMAIN task.venues |-> NoCurve] /\ run.compiled = {}
      /\ run.error = "none" /\ staged.venues = task.venues
    BY <1>1 DEF Idle, Fresh, RunFields
<1>4. KernelKeeps
  <2>1. Agrees(task, staged.venues, Venues \ Range(run.used)) /\ Agrees(task, run.seen, Venues)
      BY <1>3 DEF Agrees, Venues
  <2>2. KnownCurves(task, run.curves, run.compiled)
      BY <1>3 DEF KnownCurves
  <2>3. run.used \in Seq(Venues) /\ run.reflows \in Nat /\ run.left \in Nat \ {0} /\ run.left <= task.amount
      BY <1>2, <1>3 DEF IsTask
  <2> QED BY <1>1, <1>3, <2>1, <2>2, <2>3 DEF KernelKeeps
<1>5. FillsFit
    BY <1>3 DEF FillsFit
<1>6. KernelPlanHolds
    BY <1>3 DEF KernelPlanHolds, PlanIsCertified, TapeServesEverySubset, CertificateSound, FullFillsFit
<1> QED BY <1>4, <1>5, <1>6 DEF KernelInv

\* An error leaves the host as it was.
LEMMA FailKeeps ==
    ASSUME KernelInv, run.at # "done", NEW why,
           why \in {"bounds", "capacity"} /\ run.used # <<>> => ~run.full, Fail(why)
    PROVE  KernelInv'
<1>1. /\ run' = [run EXCEPT !.at = "failed", !.error = why] /\ staged' = kept
      /\ task' = task /\ kept' = kept
    BY DEF Fail
<1>2. KernelKeeps
    BY DEF KernelInv
<1>3. /\ DOMAIN run' = RunFields /\ run'.at = "failed" /\ run'.error = why /\ run'.used = run.used
      /\ run'.reflows = run.reflows /\ run'.full = run.full /\ run'.seen = run.seen
      /\ run'.curves = run.curves /\ run'.compiled = run.compiled
    BY <1>1, <1>2 DEF KernelKeeps, RunFields
<1>4. kept = Fresh(task) /\ staged'.venues = task.venues
    BY <1>1, <1>2 DEF KernelKeeps, Fresh
<1>5. KernelKeeps'
  <2>1. Agrees(task', staged'.venues, Venues' \ Range(run'.used))
      BY <1>1, <1>3, <1>4 DEF Agrees, Venues
  <2>2. Agrees(task', run'.seen, Venues')
      BY <1>1, <1>2, <1>3 DEF KernelKeeps, Venues
  <2>3. KnownCurves(task', run'.curves, run'.compiled)
      BY <1>1, <1>2, <1>3 DEF KernelKeeps
  <2>4. run'.used \in Seq(Venues') /\ run'.reflows \in Nat
      BY <1>1, <1>2, <1>3 DEF KernelKeeps, Venues
  <2>5. task' \in Jobs /\ kept' = Fresh(task')
      BY <1>1, <1>2, <1>4 DEF KernelKeeps
  <2> QED BY <1>3, <2>1, <2>2, <2>3, <2>4, <2>5 DEF KernelKeeps
<1>6. FillsFit'
    BY <1>3 DEF FillsFit
<1>7. KernelPlanHolds'
    BY <1>3 DEF KernelPlanHolds, PlanIsCertified, TapeServesEverySubset, CertificateSound, FullFillsFit
<1> QED BY <1>5, <1>6, <1>7 DEF KernelInv

\* What the planning step knows of the usable venues.  (read_candidates)
LEMMA UsableAre ==
    ASSUME KernelKeeps
    PROVE  /\ UsableNow \in SUBSET Venues /\ Agrees(task, staged.venues, UsableNow)
           /\ \A i \in UsableNow : task.venues[i].capacity > 0
<1>1. \A i \in UsableNow : i \in Venues /\ i \notin Range(run.used) /\ staged.venues[i].capacity > 0
    BY DEF UsableNow, Usable
<1>2. Agrees(task, staged.venues, Venues \ Range(run.used))
    BY DEF KernelKeeps
<1>3. \A i \in UsableNow : staged.venues[i] = task.venues[i]
    BY <1>1, <1>2 DEF Agrees
<1> QED BY <1>1, <1>2, <1>3 DEF Agrees

\* The curves the search is given are those of the task's venues.  (compile
\* what changed)
LEMMA CurvesAre ==
    ASSUME KernelKeeps, NEW compiled,
           \/ compiled = UsableNow
           \/ compiled = run.compiled /\ \A i \in UsableNow : ~Dirty(i)
    PROVE  KnownCurves(task, CurvesNow, compiled)
<1> DEFINE c == CurvesNow
<1>1. KnownCurves(task, run.curves, run.compiled)
    BY DEF KernelKeeps
<1>2. /\ UsableNow \in SUBSET Venues
      /\ \A i \in UsableNow : staged.venues[i] = task.venues[i] /\ task.venues[i].capacity > 0
    BY UsableAre DEF Agrees
<1>3. /\ DOMAIN c = Venues
      /\ \A i \in Venues : c[i] = IF Usable(i) /\ Dirty(i) THEN Compile(staged.venues[i], task.amount) ELSE run.curves[i]
    BY DEF CurvesNow
<1> HIDE DEF c
<1>4. \A i \in UsableNow : Known(task, c, i)
  <2> TAKE i \in UsableNow
  <2>1. Usable(i) /\ i \in Venues /\ staged.venues[i] = task.venues[i] /\ task.venues[i].capacity > 0
      BY <1>2 DEF UsableNow
  <2>2. CASE Dirty(i)
      BY <1>3, <2>1, <2>2 DEF Known
  <2>3. CASE ~Dirty(i)
    <3>1. c[i] = run.curves[i] /\ run.curves[i] # NoCurve
        BY <1>3, <2>1, <2>3 DEF Dirty
    <3>2. run.curves[i] = NoCurve \/ Known(task, run.curves, i)
        BY <1>1, <2>1 DEF KnownCurves, Venues
    <3> QED BY <3>1, <3>2 DEF Known
  <2> QED BY <2>2, <2>3
<1>5. \A i \in Venues \ UsableNow : c[i] = run.curves[i]
    BY <1>3 DEF UsableNow
<1>6. \A i \in Venues : c[i] = NoCurve \/ Known(task, c, i)
  <2> TAKE i \in Venues
  <2>1. CASE i \in UsableNow
      BY <1>4, <2>1
  <2>2. CASE i \notin UsableNow
    <3>1. c[i] = run.curves[i] /\ (run.curves[i] = NoCurve \/ Known(task, run.curves, i))
        BY <1>1, <1>5, <2>2 DEF KnownCurves, Venues
    <3> QED BY <3>1 DEF Known
  <2> QED BY <2>1, <2>2
<1>7. compiled \in SUBSET Venues /\ \A i \in compiled : Known(task, c, i)
  <2>1. CASE compiled = UsableNow
      BY <1>2, <1>4, <2>1
  <2>2. CASE compiled = run.compiled /\ \A i \in UsableNow : ~Dirty(i)
    <3>1. compiled \in SUBSET Venues /\ \A i \in compiled : Known(task, run.curves, i)
        BY <1>1, <2>2 DEF KnownCurves, Venues
    <3>2. \A i \in compiled : c[i] = run.curves[i]
        BY <1>3, <2>2, <3>1 DEF UsableNow
    <3> QED BY <3>1, <3>2 DEF Known
  <2> QED BY <2>1, <2>2
<1>8. DOMAIN c = DOMAIN task.venues
    BY <1>3 DEF Venues
<1>9. KnownCurves(task, c, compiled)
    BY <1>6, <1>7, <1>8 DEF KnownCurves, Venues
<1> QED BY <1>9 DEF c

\* Where the rest fits, the bounds allow another plan and the search finds it.
LEMMA RestFound ==
    ASSUME KernelKeeps, run.at = "next", RestFits
    PROVE  /\ Admitted /\ Len(run.used) < task.legs /\ run.reflows + 1 <= task.reflows
           /\ UsableNow # {} /\ UsableNow \subseteq run.compiled
           /\ \A curves, compiled :
                KnownCurves(task, curves, compiled) /\ UsableNow \subseteq compiled =>
                    Search(staged.venues, curves, Tape(curves, compiled), run.left, UsableNow,
                           LegBudget(run.reflows + 1)) # NoPlan
<1> DEFINE legs == LegBudget(run.reflows + 1)
<1>1. PICK rest \in SUBSET UsableNow :
         /\ rest # {} /\ Independent(staged.venues, rest)
         /\ Cardinality(rest) <= legs
         /\ SumIn(Capped(task), rest) >= run.left
    BY DEF RestFits
<1>2. /\ task \in Jobs /\ IsTask(task) /\ run.used \in Seq(Venues) /\ run.reflows \in Nat
      /\ run.left \in Nat \ {0} /\ Admitted /\ UsableNow \subseteq run.compiled
    BY TaskAssumption DEF KernelKeeps
<1>3. /\ UsableNow \in SUBSET Venues /\ Agrees(task, staged.venues, UsableNow)
      /\ Venues = 1..Len(task.venues) /\ Len(task.venues) \in Nat
    BY <1>2, UsableAre DEF IsTask, Venues
<1>4. Cardinality(rest) \in Nat \ {0}
  <2>1. IsFiniteSet(Venues)
      BY <1>3, FS_Interval
  <2>2. IsFiniteSet(rest)
    <3>1. rest \in SUBSET Venues
        BY <1>3
    <3> QED BY <2>1, <3>1, FS_Subset
  <2> QED BY <1>1, <2>2, FS_EmptySet, FS_CardinalityType
<1>5. /\ task.legs \in Nat /\ task.reflows \in Nat /\ Len(run.used) \in Nat
      /\ legs = Lesser(task.legs - Len(run.used), task.reflows - (run.reflows + 1) + 1)
    BY <1>2 DEF LegBudget, IsTask
<1> HIDE DEF legs
<1>6. legs \in Nat /\ Len(run.used) < task.legs /\ run.reflows + 1 <= task.reflows
  <2> DEFINE a == task.legs - Len(run.used)
             b == task.reflows - (run.reflows + 1) + 1
             k == Cardinality(rest)
  <2>1. a \in Int /\ b \in Int /\ k \in Nat \ {0} /\ k <= legs /\ legs = Lesser(a, b)
      BY <1>1, <1>2, <1>4, <1>5
  <2> HIDE DEF a, b, k
  <2>2. legs \in Nat /\ a >= 1 /\ b >= 1
      BY <2>1 DEF Lesser
  <2> QED BY <1>2, <1>5, <2>2 DEF a, b
<1>7. ASSUME NEW curves, NEW compiled, KnownCurves(task, curves, compiled), UsableNow \subseteq compiled
      PROVE  Search(staged.venues, curves, Tape(curves, compiled), run.left, UsableNow, legs) # NoPlan
  <2> DEFINE olds == task.venues
             caps == Capped(task)
             t == Tape(curves, compiled)
             x == run.left
             v == staged.venues
             U == UsableNow
  <2>1. /\ GoodCurves(curves, compiled)
        /\ \A i \in compiled : IsCurve(olds[i], curves[i], caps[i])
      BY <1>2, <1>7, KnownAre
  <2>2. Len(v) \in Nat /\ U \subseteq 1..Len(v)
    <3>1. DOMAIN v = Venues /\ Len(v) = Len(task.venues)
        BY <1>3 DEF Agrees, Venues
    <3> QED BY <1>3, <3>1
  <2>3. /\ rest \in SUBSET U /\ rest # {} /\ Cardinality(rest) <= legs /\ Independent(v, rest)
        /\ SumIn(caps, rest) >= x /\ x \in Nat \ {0} /\ U \in SUBSET compiled
      BY <1>1, <1>2, <1>7
  <2> HIDE DEF olds, caps, t, x, v, U
  <2>4. t = Tape(curves, compiled)
      BY DEF t
  <2>5. Search(v, curves, t, x, U, legs) # NoPlan
      BY <1>6, <2>1, <2>2, <2>3, <2>4, SearchFinds
  <2> QED BY <2>5 DEF t, x, v, U
<1> QED BY <1>1, <1>2, <1>3, <1>6, <1>7 DEF legs

\* A sound plan is one whose certificate is.
LEMMA SoundIs ==
    ASSUME KernelKeeps
    PROVE  run.at = "invoke" =>
              (CertificateSound <=>
                 IsSound(task, staged.venues, UsableNow, run.left, LegBudget(run.reflows), run.plan))
<1> SUFFICES ASSUME run.at = "invoke"
             PROVE  CertificateSound <=>
                       IsSound(task, staged.venues, UsableNow, run.left, LegBudget(run.reflows), run.plan)
    OBVIOUS
<1> DEFINE v == staged.venues
           x == run.left
           p == run.plan.inputs
           planned == {i \in Venues : p[i] > 0}
           legs == LegBudget(run.reflows)
<1>1. DOMAIN v = Venues
    BY DEF KernelKeeps, Agrees, Venues
<1>2. \A f : f \in Splits(UsableNow, x) <=> IsSplit(task, v, UsableNow, x, f)
    BY DEF Splits, IsSplit, Venues
<1>3. \A f : Outcome(f) = Gets(v, f)
    BY <1>1 DEF Outcome, Gets
<1>4. CertificateSound <=>
         /\ \A f \in Splits(UsableNow, x) : Outcome(f) <= run.plan.upper
         /\ p \in Splits(UsableNow, x)
         /\ Cardinality(planned) <= legs
         /\ Independent(v, planned)
         /\ run.plan.output = Outcome(p)
    BY DEF CertificateSound, UsableNow
<1>5. IsSound(task, v, UsableNow, x, legs, run.plan) <=>
         /\ \A f : IsSplit(task, v, UsableNow, x, f) => Gets(v, f) <= run.plan.upper
         /\ IsSplit(task, v, UsableNow, x, p)
         /\ Cardinality(planned) <= legs /\ Independent(v, planned)
         /\ run.plan.output = Gets(v, p)
    BY DEF IsSound, Venues
<1> HIDE DEF v, x, p, planned, legs
<1>6. CertificateSound <=> IsSound(task, v, UsableNow, x, legs, run.plan)
    BY <1>2, <1>3, <1>4, <1>5
<1> QED BY <1>6 DEF v, x, legs

\* Planning keeps the invariant: a plan that is adopted is certified, and
\* where every venue filled what it was asked one is found.
LEMMA PlanKeeps ==
    ASSUME KernelInv, Plan
    PROVE  KernelInv'
<1> DEFINE usable == UsableNow
           reflows == run.reflows + IF run.used = <<>> THEN 0 ELSE 1
           dirty == run.compiled = {} \/ \E i \in usable : Dirty(i)
           compiled == IF dirty THEN usable ELSE run.compiled
           curves == CurvesNow
           plan == Search(staged.venues, curves, Tape(curves, compiled), run.left, usable, LegBudget(reflows))
<1>1. /\ run.at \in {"start", "next"}
      /\ IF ~Admitted \/ Len(run.used) >= task.legs \/ reflows > task.reflows
         THEN Fail("bounds")
         ELSE IF usable = {} \/ ~usable \subseteq compiled THEN Fail("capacity")
         ELSE SearchNow(usable, compiled, curves, reflows)
    BY DEF Plan, UsableNow
<1>2. KernelKeeps /\ FillsFit /\ KernelPlanHolds
    BY DEF KernelInv
<1>3. run.used # <<>> /\ run.full => run.at = "next" /\ RestFits /\ reflows = run.reflows + 1
    BY <1>1, <1>2 DEF KernelKeeps, FillsFit
<1>4. \/ compiled = UsableNow
      \/ compiled = run.compiled /\ \A i \in UsableNow : ~Dirty(i)
    OBVIOUS
<1>5. /\ task \in Jobs /\ IsTask(task) /\ run.used \in Seq(Venues) /\ run.reflows \in Nat
      /\ run.left \in Nat \ {0} /\ run.left <= task.amount /\ run.error = "none"
      /\ DOMAIN run = RunFields
    BY <1>1, <1>2, TaskAssumption DEF KernelKeeps, FillsFit
<1> HIDE DEF dirty, compiled, reflows
<1>6. KnownCurves(task, curves, compiled)
    BY <1>2, <1>4, CurvesAre
<1>7. run.used # <<>> /\ run.full =>
         /\ Admitted /\ ~(Len(run.used) >= task.legs) /\ ~(reflows > task.reflows)
         /\ usable # {} /\ usable \subseteq run.compiled
         /\ usable \subseteq compiled => plan # NoPlan
  <2> SUFFICES ASSUME run.used # <<>>, run.full
               PROVE  /\ Admitted /\ ~(Len(run.used) >= task.legs) /\ ~(reflows > task.reflows)
                      /\ usable # {} /\ usable \subseteq run.compiled
                      /\ usable \subseteq compiled => plan # NoPlan
      OBVIOUS
  <2>1. /\ Admitted /\ Len(run.used) < task.legs /\ run.reflows + 1 <= task.reflows
        /\ UsableNow # {} /\ UsableNow \subseteq run.compiled
      BY <1>2, <1>3, RestFound
  <2>2. \A c, m : KnownCurves(task, c, m) /\ UsableNow \subseteq m =>
           Search(staged.venues, c, Tape(c, m), run.left, UsableNow, LegBudget(run.reflows + 1)) # NoPlan
      BY <1>2, <1>3, RestFound
  <2>3. usable \subseteq compiled => plan # NoPlan
    <3> HAVE usable \subseteq compiled
    <3> HIDE DEF curves
    <3>1. Search(staged.venues, curves, Tape(curves, compiled), run.left, UsableNow, LegBudget(run.reflows + 1)) # NoPlan
        BY <1>6, <2>2
    <3> QED BY <1>3, <3>1
  <2>4. /\ task.legs \in Nat /\ task.reflows \in Nat /\ Len(run.used) \in Nat
        /\ reflows = run.reflows + 1
      BY <1>3, <1>5 DEF IsTask
  <2> QED BY <1>5, <2>1, <2>3, <2>4
<1> HIDE DEF plan, curves, usable
<1>8. usable # {} /\ usable \subseteq run.compiled => usable \subseteq compiled
    BY DEF compiled
<1>9. CASE ~Admitted \/ Len(run.used) >= task.legs \/ reflows > task.reflows
  <2>1. Fail("bounds")
      BY <1>1, <1>9
  <2> QED BY <1>1, <1>7, <1>9, <2>1, FailKeeps
<1>10. CASE /\ ~(~Admitted \/ Len(run.used) >= task.legs \/ reflows > task.reflows)
            /\ usable = {} \/ ~usable \subseteq compiled
  <2>1. Fail("capacity")
      BY <1>1, <1>10
  <2> QED BY <1>1, <1>7, <1>8, <1>10, <2>1, FailKeeps
<1>11. CASE /\ ~(~Admitted \/ Len(run.used) >= task.legs \/ reflows > task.reflows)
            /\ ~(usable = {} \/ ~usable \subseteq compiled)
  <2>1. Adopt(usable, compiled, curves, reflows, plan)
    <3>1. SearchNow(usable, compiled, curves, reflows)
        BY <1>1, <1>11
    <3> QED BY <3>1 DEF SearchNow, plan
  <2>2. CASE plan = NoPlan
    <3>1. Fail("capacity")
        BY <2>1, <2>2 DEF Adopt
    <3> QED BY <1>1, <1>7, <1>11, <2>2, <3>1, FailKeeps
  <2>3. CASE plan # NoPlan
    <3>1. /\ run' = [run EXCEPT !.at = "invoke", !.reflows = reflows, !.plan = plan,
                       !.compiled = compiled, !.curves = curves,
                       !.seen = [i \in Venues |-> IF i \in usable THEN staged.venues[i] ELSE run.seen[i]]]
          /\ task' = task /\ kept' = kept /\ staged' = staged
        BY <2>1, <2>3 DEF Adopt
    <3>2. /\ DOMAIN run' = RunFields /\ run'.at = "invoke" /\ run'.reflows = reflows /\ run'.plan = plan
          /\ run'.compiled = compiled /\ run'.curves = curves /\ run'.left = run.left /\ run'.used = run.used
          /\ run'.full = run.full /\ run'.error = run.error
          /\ run'.seen = [i \in Venues |-> IF i \in usable THEN staged.venues[i] ELSE run.seen[i]]
        BY <1>5, <3>1 DEF RunFields
    <3>3. UsableNow' = UsableNow /\ Venues' = Venues
        BY <3>1, <3>2 DEF UsableNow, Usable, Resources, Venues
    <3>4. reflows \in Nat /\ reflows <= task.reflows /\ Len(run.used) < task.legs /\ Admitted
      <4>1. reflows \in Nat
          BY <1>5 DEF reflows
      <4> QED BY <1>5, <1>11, <4>1 DEF IsTask
    <3>5. KernelKeeps'
      <4>1. Agrees(task', staged'.venues, Venues' \ Range(run'.used))
          BY <1>2, <3>1, <3>2, <3>3 DEF KernelKeeps
      <4>2. Agrees(task', run'.seen, Venues')
        <5> DEFINE seen == [i \in Venues |-> IF i \in usable THEN staged.venues[i] ELSE run.seen[i]]
        <5>1. Venues = 1..Len(task.venues) /\ Len(task.venues) \in Nat /\ Venues = DOMAIN task.venues
            BY <1>5 DEF IsTask, Venues
        <5>2. \A i \in usable : staged.venues[i] = task.venues[i]
            BY <1>2, UsableAre DEF Agrees, usable
        <5>3. \A i \in Venues : run.seen[i] = task.venues[i]
            BY <1>2 DEF KernelKeeps, Agrees
        <5>4. \A i \in Venues : seen[i] = task.venues[i]
            BY <5>2, <5>3
        <5>5. DOMAIN seen = Venues /\ Len(seen) = Len(task.venues)
            BY <5>1
        <5> HIDE DEF seen
        <5>6. Agrees(task, seen, Venues)
            BY <5>1, <5>4, <5>5 DEF Agrees
        <5> QED BY <3>1, <3>2, <3>3, <5>6 DEF seen
      <4>3. KnownCurves(task', run'.curves, run'.compiled)
          BY <1>6, <3>1, <3>2
      <4>4. Admitted' /\ UsableNow' \subseteq run'.compiled
          BY <1>11, <3>1, <3>2, <3>3, <3>4 DEF Admitted, Venues, usable
      <4>5. /\ task' \in Jobs /\ kept' = Fresh(task') /\ run'.used \in Seq(Venues') /\ run'.reflows \in Nat
            /\ run'.left \in Nat \ {0} /\ run'.left <= task'.amount
          BY <1>1, <1>2, <1>5, <3>1, <3>2, <3>3, <3>4 DEF KernelKeeps
      <4> QED BY <3>2, <4>1, <4>2, <4>3, <4>4, <4>5 DEF KernelKeeps
    <3>6. FillsFit'
        BY <1>5, <3>2 DEF FillsFit
    <3>7. LegBudget(reflows) \in Nat
      <4>1. task.legs \in Nat /\ task.reflows \in Nat /\ Len(run.used) \in Nat
          BY <1>5 DEF IsTask
      <4> DEFINE a == task.legs - Len(run.used)
                 b == task.reflows - reflows + 1
      <4>2. a \in Nat /\ b \in Nat
          BY <3>4, <4>1
      <4>3. LegBudget(reflows) = Lesser(a, b)
          BY DEF LegBudget
      <4> HIDE DEF a, b
      <4>4. Lesser(a, b) \in Nat
          BY <4>2 DEF Lesser
      <4> QED BY <4>3, <4>4
    <3>8. IsSound(task, staged.venues, usable, run.left, LegBudget(reflows), plan)
      <4>1. usable \in SUBSET compiled /\ Agrees(task, staged.venues, usable)
          BY <1>2, <1>11, UsableAre DEF usable
      <4> DEFINE x == run.left
                 v == staged.venues
                 legs == LegBudget(reflows)
      <4>2. plan = Search(v, curves, Tape(curves, compiled), x, usable, legs)
          BY DEF plan
      <4>3. Agrees(task, v, usable) /\ x \in Nat \ {0} /\ x <= task.amount /\ legs \in Nat
          BY <1>5, <3>7, <4>1
      <4> HIDE DEF x, v, legs
      <4>4. IsSound(task, v, usable, x, legs, plan)
          BY <1>5, <1>6, <2>3, <4>1, <4>2, <4>3, PlanFound
      <4> QED BY <4>4 DEF x, v, legs
    <3>9. CertificateSound'
      <4>1. IsSound(task', staged'.venues, UsableNow', run'.left, LegBudget(run.reflows)', run'.plan)
        <5>1. LegBudget(run.reflows)' = LegBudget(reflows)
            BY <3>1, <3>2 DEF LegBudget
        <5> QED BY <3>1, <3>2, <3>3, <3>8, <5>1 DEF usable
      <4>2. (run.at = "invoke" =>
              (CertificateSound <=>
                 IsSound(task, staged.venues, UsableNow, run.left, LegBudget(run.reflows), run.plan)))'
          BY <3>5, SoundIs, PTL
      <4> QED BY <3>2, <4>1, <4>2
    <3>10. TapeServesEverySubset'
      <4>1. GoodCurves(curves, compiled) /\ compiled \in SUBSET Venues
          BY <1>5, <1>6, KnownAre DEF KnownCurves, Venues
      <4>2. \A mask \in (SUBSET compiled) \ {{}}, x \in 1..run.left :
               Allocate(curves, Tape(curves, compiled), x, mask, FALSE) = Waterfill(curves, x, mask)
        <5> TAKE mask \in (SUBSET compiled) \ {{}}, x \in 1..run.left
        <5>1. x \in Nat \ {0} /\ mask \in SUBSET compiled
            BY <1>5
        <5> QED BY <4>1, <5>1, TapeServes
      <4> QED BY <3>2, <4>2 DEF TapeServesEverySubset
    <3>11. FullFillsFit'
        BY <1>5, <3>2 DEF FullFillsFit
    <3> QED BY <3>5, <3>6, <3>9, <3>10, <3>11 DEF KernelInv, KernelPlanHolds, PlanIsCertified
  <2> QED BY <2>2, <2>3
<1> QED BY <1>9, <1>10, <1>11

\* One more member of a sequence.
LEMMA OneMoreUsed ==
    ASSUME NEW S, NEW s \in Seq(S), NEW c \in S
    PROVE  /\ Append(s, c) \in Seq(S) /\ Append(s, c) # <<>> /\ Len(Append(s, c)) = Len(s) + 1
           /\ Range(Append(s, c)) = Range(s) \cup {c}
<1> DEFINE u == Append(s, c)
           n == Len(s)
<1>1. /\ u \in Seq(S) /\ Len(u) = n + 1 /\ n \in Nat /\ DOMAIN u = 1..(n + 1) /\ DOMAIN s = 1..n
      /\ (\A k \in 1..n : u[k] = s[k]) /\ u[n + 1] = c
    OBVIOUS
<1> HIDE DEF u, n
<1>2. u # <<>>
    BY <1>1
<1>3. Range(u) = Range(s) \cup {c}
  <2>1. \A k \in 1..(n + 1) : u[k] \in Range(s) \cup {c}
    <3> TAKE k \in 1..(n + 1)
    <3>1. k \in 1..n \/ k = n + 1
        BY <1>1
    <3> QED BY <1>1, <3>1 DEF Range
  <2>2. \A k \in 1..n : s[k] \in Range(u)
    <3> TAKE k \in 1..n
    <3>1. k \in 1..(n + 1) /\ u[k] = s[k]
        BY <1>1
    <3> QED BY <1>1, <3>1 DEF Range
  <2>3. c \in Range(u)
    <3>1. n + 1 \in 1..(n + 1)
        BY <1>1
    <3> QED BY <1>1, <3>1 DEF Range
  <2>4. Range(u) \subseteq Range(s) \cup {c}
      BY <1>1, <2>1 DEF Range
  <2>5. Range(s) \subseteq Range(u)
      BY <1>1, <2>2 DEF Range
  <2> QED BY <2>3, <2>4, <2>5
<1> QED BY <1>1, <1>2, <1>3 DEF u, n

\* What the adopted plan gives its venues.
Planned == {i \in Venues : run.plan.inputs[i] > 0}

\* The adopted plan gives out all that is left, over venues that may be used.
\* (the checks on a plan)
LEMMA PlanIs ==
    ASSUME KernelInv, run.at = "invoke"
    PROVE  /\ run.plan.inputs \in [Venues -> 0..run.left] /\ Total(run.plan.inputs) = run.left
           /\ SumIn(run.plan.inputs, Planned) = run.left
           /\ Planned \in SUBSET UsableNow /\ Planned # {} /\ IsFiniteSet(Planned)
           /\ \A i \in Planned : run.plan.inputs[i] <= Capped(task)[i]
           /\ Cardinality(Planned) <= LegBudget(run.reflows) /\ Independent(staged.venues, Planned)
<1> DEFINE p == run.plan.inputs
           x == run.left
<1>1. KernelKeeps /\ CertificateSound
    BY DEF KernelInv, KernelPlanHolds, PlanIsCertified
<1>2. IsSound(task, staged.venues, UsableNow, x, LegBudget(run.reflows), run.plan)
    BY <1>1, SoundIs
<1>3. /\ IsSplit(task, staged.venues, UsableNow, x, p)
      /\ Cardinality(Planned) <= LegBudget(run.reflows) /\ Independent(staged.venues, Planned)
    BY <1>2 DEF IsSound, Planned, Venues
<1>4. /\ p \in [Venues -> 0..x] /\ Total(p) = x
      /\ \A i \in Venues : p[i] > 0 => i \in UsableNow /\ p[i] <= staged.venues[i].capacity
    BY <1>3 DEF IsSplit, Venues
<1>5. x \in Nat \ {0} /\ x <= task.amount /\ IsTask(task)
    BY <1>1, TaskAssumption DEF KernelKeeps
<1>6. Planned \in SUBSET UsableNow /\ Planned \in SUBSET Venues
    BY <1>4 DEF Planned
<1>7. IsFiniteSet(Venues) /\ IsFiniteSet(Planned)
  <2>1. IsFiniteSet(Venues)
      BY <1>5, FS_Interval DEF IsTask, Venues
  <2> QED BY <1>6, <2>1, FS_Subset
<1>8. SumIn(p, Planned) = x
  <2>1. DOMAIN p = Venues /\ (\A i \in Venues : p[i] \in Int) /\ \A i \in Venues \ Planned : p[i] = 0
    <3>1. \A i \in Venues : p[i] \in 0..x
        BY <1>4
    <3>2. \A i \in Venues \ Planned : ~(p[i] > 0)
        BY DEF Planned
    <3> QED BY <1>4, <1>5, <3>1, <3>2
  <2>2. Total(p) = SumIn(p, Planned)
      BY <1>6, <1>7, <2>1, TotalWithin
  <2> QED BY <1>4, <2>2
<1>9. Planned # {}
  <2> SUFFICES ASSUME Planned = {} PROVE FALSE
      OBVIOUS
  <2>1. SumIn(p, {}) = 0
      BY FS_EmptySet, SumUnfolds
  <2> QED BY <1>5, <1>8, <2>1
<1>10. \A i \in Planned : p[i] <= Capped(task)[i]
  <2> TAKE i \in Planned
  <2>1. i \in Venues /\ i \in UsableNow /\ p[i] <= staged.venues[i].capacity /\ p[i] \in 0..x
      BY <1>4 DEF Planned
  <2>2. staged.venues[i] = task.venues[i]
      BY <1>1, <2>1, UsableAre DEF Agrees
  <2>3. task.venues[i].capacity \in Nat /\ task.amount \in Nat
      BY <1>5, <2>1 DEF IsTask, Venues
  <2>4. Capped(task)[i] = Lesser(task.venues[i].capacity, task.amount)
      BY <2>1 DEF Capped, Venues
  <2> QED BY <1>5, <2>1, <2>2, <2>3, <2>4 DEF Lesser
<1> QED BY <1>3, <1>4, <1>6, <1>7, <1>8, <1>9, <1>10

\* The venue whose quote expires first is one of the plan.
LEMMA ChosenIs ==
    ASSUME KernelInv, run.at = "invoke"
    PROVE  Chosen \in Planned
<1> DEFINE e(i) == run.seen[i].expires
           L(i, j) == e(i) < e(j) \/ (e(i) = e(j) /\ i <= j)
           R == {r \in Planned \X Planned : L(r[1], r[2])}
<1>1. Planned # {} /\ IsFiniteSet(Planned) /\ Planned \in SUBSET Venues
    BY PlanIs DEF Planned
<1>2. KernelKeeps /\ IsTask(task)
    BY TaskAssumption DEF KernelInv, KernelKeeps
<1>3. \A i \in Planned : i \in Nat /\ e(i) \in Nat
  <2> TAKE i \in Planned
  <2>1. i \in Venues /\ run.seen[i] = task.venues[i]
      BY <1>1, <1>2 DEF KernelKeeps, Agrees
  <2>2. i \in Nat /\ task.venues[i].expires \in Nat
      BY <1>2, <2>1 DEF IsTask, Venues
  <2> QED BY <2>1, <2>2
<1> HIDE DEF e
<1>4. \A i, j \in Planned : <<i, j>> \in R <=> L(i, j)
  <2> HIDE DEF L
  <2> QED OBVIOUS
<1>5. \A i, j \in Planned : L(i, j) \/ L(j, i)
    BY <1>3
<1>6. \A i, j, k \in Planned : L(i, j) /\ L(j, k) => L(i, k)
    BY <1>3
<1> HIDE DEF L, R
<1>7. \E i \in Planned : \A j \in Planned : <<i, j>> \in R
  <2>1. \A i, j \in Planned : <<i, j>> \in R \/ <<j, i>> \in R
      BY <1>4, <1>5
  <2>2. \A i, j, k \in Planned : <<i, j>> \in R /\ <<j, k>> \in R => <<i, k>> \in R
      BY <1>4, <1>6
  <2> QED BY <1>1, <2>1, <2>2, FirstOfAll
<1>8. \E i \in Planned : \A j \in Planned :
         \/ run.seen[i].expires < run.seen[j].expires
         \/ run.seen[i].expires = run.seen[j].expires /\ i <= j
  <2>1. \E i \in Planned : \A j \in Planned : L(i, j)
      BY <1>4, <1>7
  <2> QED BY <2>1 DEF L, e
<1>9. Chosen = CHOOSE i \in Planned : \A j \in Planned :
         \/ run.seen[i].expires < run.seen[j].expires
         \/ run.seen[i].expires = run.seen[j].expires /\ i <= j
    BY DEF Chosen, Planned
<1> QED BY <1>8, <1>9

\* When the chosen venue filled what it was asked, the other venues of the
\* plan are left: they hold the rest and fit in the limits.
LEMMA RestIs ==
    ASSUME KernelInv, run.at = "invoke"
    PROVE  LET c == Chosen
               rest == Planned \ {c}
               left == run.left - run.plan.inputs[c]
           IN  /\ IsFiniteSet(rest) /\ SumIn(Capped(task), rest) >= left
               /\ left # 0 => rest # {}
               /\ Cardinality(rest) + 1 <= LegBudget(run.reflows)
               /\ Independent(staged.venues, rest)
               /\ \A i \in rest : staged.venues[i].resources \cap task.venues[c].resources = {}
<1> DEFINE c == Chosen
           rest == Planned \ {c}
           p == run.plan.inputs
           x == run.left
           caps == Capped(task)
<1>1. /\ p \in [Venues -> 0..x] /\ SumIn(p, Planned) = x
      /\ Planned \in SUBSET UsableNow /\ IsFiniteSet(Planned)
      /\ \A i \in Planned : p[i] <= caps[i]
      /\ Cardinality(Planned) <= LegBudget(run.reflows) /\ Independent(staged.venues, Planned)
    BY PlanIs
<1>2. c \in Planned
    BY ChosenIs
<1>3. KernelKeeps /\ IsTask(task) /\ x \in Nat \ {0}
    BY TaskAssumption DEF KernelInv, KernelKeeps
<1>4. /\ Planned \in SUBSET Venues /\ c \in Venues
      /\ \A i \in Planned : staged.venues[i] = task.venues[i]
      /\ \A i \in Planned : caps[i] \in Nat
  <2>1. Planned \in SUBSET Venues /\ c \in Venues
      BY <1>2 DEF Planned
  <2>2. \A i \in Planned : staged.venues[i] = task.venues[i]
      BY <1>1, <1>3, UsableAre DEF Agrees
  <2>3. \A i \in Venues : task.venues[i].capacity \in Nat /\ task.amount \in Nat
      BY <1>3 DEF IsTask, Venues
  <2>4. \A i \in Venues : caps[i] = Lesser(task.venues[i].capacity, task.amount)
      BY DEF Capped, Venues
  <2>5. \A i \in Venues : caps[i] \in Nat
      BY <2>3, <2>4 DEF Lesser
  <2> QED BY <2>1, <2>2, <2>5
<1> HIDE DEF c, p, x, caps
<1>5. IsFiniteSet(rest) /\ Cardinality(rest) = Cardinality(Planned) - 1
    BY <1>1, <1>2, FS_RemoveElement
<1>6. \A i \in Planned : p[i] \in Int /\ p[i] \in Nat
    BY <1>1, <1>3, <1>4
<1>7. x = p[c] + SumIn(p, rest)
  <2>1. SumIn(p, Planned) = p[c] + SumIn(p, Planned \ {c})
      BY <1>1, <1>2, <1>6, SumOfRest
  <2> QED BY <1>1, <2>1
<1>8. SumIn(p, rest) <= SumIn(caps, rest)
  <2>1. \A i \in rest : p[i] \in Int /\ caps[i] \in Int /\ p[i] <= caps[i]
      BY <1>1, <1>4, <1>6
  <2> HIDE DEF rest
  <2> QED BY <1>5, <2>1, SumAtMost
<1>9. SumIn(p, rest) \in Nat /\ SumIn(caps, rest) \in Nat
  <2>1. (\A i \in rest : p[i] \in Nat) /\ (\A i \in rest : caps[i] \in Nat)
      BY <1>4, <1>6
  <2> HIDE DEF rest
  <2> QED BY <1>5, <2>1, SumOfNaturals
<1>10. SumIn(caps, rest) >= x - p[c] /\ p[c] \in Nat
    BY <1>2, <1>3, <1>6, <1>7, <1>8, <1>9
<1>11. x - p[c] # 0 => rest # {}
  <2> SUFFICES ASSUME rest = {} PROVE x - p[c] = 0
      OBVIOUS
  <2>1. SumIn(p, {}) = 0
      BY FS_EmptySet, SumUnfolds
  <2> HIDE DEF rest
  <2>2. x = p[c] + 0
      BY <1>7, <2>1
  <2> QED BY <1>10, <2>2
<1>12. Cardinality(rest) + 1 <= LegBudget(run.reflows)
  <2>1. Cardinality(Planned) \in Nat
      BY <1>1, FS_CardinalityType
  <2> QED BY <1>1, <1>5, <2>1
<1>13. Independent(staged.venues, rest)
    BY <1>1 DEF Independent
<1>14. \A i \in rest : staged.venues[i].resources \cap task.venues[c].resources = {}
  <2> TAKE i \in rest
  <2>1. i \in Planned /\ i # c
      OBVIOUS
  <2>2. staged.venues[i].resources \cap staged.venues[c].resources = {}
      BY <1>1, <1>2, <2>1 DEF Independent
  <2> QED BY <1>2, <1>4, <2>2
<1> QED BY <1>5, <1>10, <1>11, <1>12, <1>13, <1>14 DEF c, p, x, caps

\* Invoking a venue keeps the invariant.
LEMMA InvokeKeeps ==
    ASSUME KernelInv, Invoke
    PROVE  KernelInv'
<1> DEFINE c == Chosen
           request == run.plan.inputs[c]
           rest == Planned \ {c}
<1>1. run.at = "invoke"
    BY DEF Invoke
<1>2. PICK cap \in 0..MaxCap :
         LET spent == Lesser(request, cap)
             got == ExactQuote(staged.venues[c], spent)
         IN  IF (spent = 0) # (got = 0) THEN Fail("balance")
             ELSE /\ staged' = [in |-> staged.in - spent, out |-> staged.out + got,
                                venues |-> [staged.venues EXCEPT ![c] = Consumed(@, spent, got)]]
                  /\ run' = [run EXCEPT !.left = @ - spent, !.used = Append(@, c),
                               !.full = @ /\ spent = request,
                               !.at = IF run.left = spent THEN "settle" ELSE "next"]
                  /\ UNCHANGED <<task, kept>>
    BY DEF Invoke
<1> DEFINE spent == Lesser(request, cap)
           got == ExactQuote(staged.venues[c], spent)
<1>3. KernelKeeps /\ FillsFit /\ KernelPlanHolds
    BY DEF KernelInv
<1>4. /\ task \in Jobs /\ IsTask(task) /\ run.used \in Seq(Venues) /\ run.reflows \in Nat
      /\ run.left \in Nat \ {0} /\ run.left <= task.amount /\ run.error = "none"
      /\ DOMAIN run = RunFields /\ kept = Fresh(task) /\ Admitted /\ UsableNow \subseteq run.compiled
    BY <1>1, <1>3, TaskAssumption DEF KernelKeeps, FillsFit
<1>5. /\ c \in Planned /\ c \in Venues /\ request \in 0..run.left
      /\ Planned \in SUBSET UsableNow
  <2>1. c \in Planned /\ c \in Venues
      BY <1>1, ChosenIs DEF Planned
  <2>2. run.plan.inputs \in [Venues -> 0..run.left] /\ Planned \in SUBSET UsableNow
      BY <1>1, PlanIs
  <2> QED BY <2>1, <2>2
<1>6. spent \in Nat /\ spent <= request /\ spent <= run.left
    BY <1>4, <1>5, TaskAssumption DEF Lesser
<1>7. CASE (spent = 0) # (got = 0)
  <2>1. Fail("balance")
      BY <1>2, <1>7
  <2> QED BY <1>1, <2>1, FailKeeps
<1>8. CASE ~((spent = 0) # (got = 0))
  <2>1. /\ staged'.venues = [staged.venues EXCEPT ![c] = Consumed(@, spent, got)]
        /\ run' = [run EXCEPT !.left = @ - spent, !.used = Append(@, c),
                     !.full = @ /\ spent = request,
                     !.at = IF run.left = spent THEN "settle" ELSE "next"]
        /\ task' = task /\ kept' = kept
      BY <1>2, <1>8
  <2> HIDE DEF c, request, spent, got
  <2>2. /\ DOMAIN run' = RunFields /\ run'.left = run.left - spent /\ run'.used = Append(run.used, c)
        /\ run'.at = IF run.left = spent THEN "settle" ELSE "next"
        /\ run'.reflows = run.reflows /\ run'.seen = run.seen /\ run'.curves = run.curves
        /\ run'.compiled = run.compiled /\ run'.error = run.error
      BY <1>4, <2>1 DEF RunFields
  <2>3. run'.full => run.full /\ spent = request
      BY <1>4, <2>1 DEF RunFields
  <2>4. Venues' = Venues /\ Venues = 1..Len(task.venues) /\ Len(task.venues) \in Nat /\ Venues = DOMAIN task.venues
      BY <1>4, <2>1 DEF IsTask, Venues
  <2>5. /\ run'.used \in Seq(Venues) /\ run'.used # <<>> /\ Len(run'.used) = Len(run.used) + 1
        /\ Range(run'.used) = Range(run.used) \cup {c}
      BY <1>4, <1>5, <2>2, OneMoreUsed
  <2>6. Agrees(task, staged'.venues, Venues \ Range(run'.used))
    <3>1. Agrees(task, staged.venues, Venues \ Range(run.used))
        BY <1>3 DEF KernelKeeps
    <3> DEFINE v == staged'.venues
    <3>2. DOMAIN v = Venues /\ \A i \in Venues : i # c => v[i] = staged.venues[i]
        BY <2>1, <2>4, <3>1 DEF Agrees
    <3> HIDE DEF v
    <3>3. Len(v) = Len(task.venues)
        BY <2>4, <3>2
    <3>4. \A i \in Venues \ Range(run'.used) : v[i] = task.venues[i]
        BY <2>5, <3>1, <3>2 DEF Agrees
    <3>5. Agrees(task, v, Venues \ Range(run'.used))
        BY <2>4, <3>2, <3>3, <3>4 DEF Agrees
    <3> QED BY <3>5 DEF v
  <2>7. \A i \in Venues \ {c} : staged'.venues[i] = staged.venues[i]
    <3>1. DOMAIN staged.venues = Venues
        BY <1>3, <2>4 DEF KernelKeeps, Agrees
    <3> QED BY <2>1, <3>1
  <2>8. Resources(Range(run.used))' = Resources(Range(run.used)) \cup task.venues[c].resources
      BY <2>1, <2>5 DEF Resources
  <2> DEFINE Fit(v) == /\ v.enabled /\ v.capacity > 0 /\ v.expires >= task.now
                       /\ v.slot <= task.now /\ task.now - v.slot <= task.maxAge
             old == Resources(Range(run.used))
             new == Resources(Range(run.used))'
  <2>9. \A i \in Venues : i \in UsableNow <=>
           i \notin Range(run.used) /\ staged.venues[i].resources \cap old = {} /\ Fit(staged.venues[i])
      BY DEF UsableNow, Usable
  <2>10. \A i \in Venues : i \in UsableNow' <=>
           i \notin Range(run'.used) /\ staged'.venues[i].resources \cap new = {} /\ Fit(staged'.venues[i])
      BY <2>1, <2>4 DEF UsableNow, Usable
  <2>11. UsableNow \in SUBSET Venues /\ UsableNow' \in SUBSET Venues
      BY <2>4 DEF UsableNow
  <2> HIDE DEF Fit, old
  <2>12. new = old \cup task.venues[c].resources
      BY <2>8 DEF old
  <2> HIDE DEF new
  <2>13. UsableNow' \subseteq UsableNow
    <3> SUFFICES ASSUME NEW i \in UsableNow' PROVE i \in UsableNow
        OBVIOUS
    <3>1. i \in Venues /\ i # c /\ i \notin Range(run.used)
        BY <2>5, <2>10, <2>11
    <3>2. staged'.venues[i] = staged.venues[i]
        BY <2>7, <3>1
    <3> QED BY <2>9, <2>10, <2>12, <3>1, <3>2
  <2>14. run'.left \in Nat /\ run'.left <= task.amount /\ (run'.at = "next" => run'.left # 0)
    <3>1. spent \in Nat /\ spent <= run.left
        BY <1>6 DEF spent, request, c
    <3>2. task.amount \in Nat
        BY <1>4 DEF IsTask
    <3> QED BY <1>4, <2>2, <3>1, <3>2
  <2>15. KernelKeeps'
    <3>1. /\ run'.at \in {"settle", "next"} /\ kept' = Fresh(task') /\ task' \in Jobs
        BY <1>4, <2>1, <2>2
    <3>2. KnownCurves(task', run'.curves, run'.compiled) /\ Agrees(task', run'.seen, Venues')
        BY <1>3, <2>1, <2>2, <2>4 DEF KernelKeeps
    <3>3. Agrees(task', staged'.venues, Venues' \ Range(run'.used))
        BY <2>1, <2>4, <2>6
    <3>4. run'.used \in Seq(Venues') /\ run'.reflows \in Nat
        BY <1>4, <2>2, <2>4, <2>5
    <3>5. run'.at = "next" => run'.left \in Nat \ {0} /\ run'.left <= task'.amount /\ run'.used # <<>>
        BY <2>1, <2>5, <2>14
    <3>6. Admitted' /\ UsableNow' \subseteq run'.compiled
        BY <1>4, <2>1, <2>2, <2>4, <2>13 DEF Admitted
    <3>7. run'.at # "start" /\ run'.at # "invoke" /\ run'.at # "done"
        BY <3>1
    <3> QED BY <2>2, <3>1, <3>2, <3>3, <3>4, <3>5, <3>6, <3>7 DEF KernelKeeps
  <2>16. ASSUME run'.at = "next", run'.full PROVE RestFits'
    <3>1. /\ SumIn(Capped(task), rest) >= run.left - spent
          /\ (run.left - spent # 0 => rest # {}) /\ IsFiniteSet(rest)
          /\ Cardinality(rest) + 1 <= LegBudget(run.reflows)
          /\ Independent(staged.venues, rest)
          /\ \A i \in rest : staged.venues[i].resources \cap task.venues[c].resources = {}
      <4>1. spent = run.plan.inputs[c]
          BY <2>3, <2>16 DEF request
      <4> QED BY <1>1, <4>1, RestIs DEF c
    <3>2. \A i \in rest : i \in UsableNow /\ i \in Venues /\ i # c
        BY <1>5, <2>11 DEF c
    <3>3. \A i \in rest : staged'.venues[i] = staged.venues[i]
        BY <2>7, <3>2
    <3>4. rest \in SUBSET UsableNow'
      <4> SUFFICES ASSUME NEW i \in rest PROVE i \in UsableNow'
          OBVIOUS
      <4>1. staged'.venues[i] = staged.venues[i] /\ i \in Venues /\ i # c /\ i \in UsableNow
          BY <3>2, <3>3
      <4>2. staged.venues[i].resources \cap task.venues[c].resources = {}
          BY <3>1
      <4> HIDE DEF rest
      <4>3. /\ i \notin Range(run.used) /\ staged.venues[i].resources \cap old = {} /\ Fit(staged.venues[i])
          BY <2>9, <4>1
      <4>4. staged'.venues[i].resources \cap new = {}
          BY <2>12, <4>1, <4>2, <4>3
      <4> QED BY <2>5, <2>10, <4>1, <4>3, <4>4
    <3>5. Independent(staged'.venues, rest)
      <4> HIDE DEF rest
      <4> QED BY <3>1, <3>3 DEF Independent
    <3>6. rest # {} /\ SumIn(Capped(task'), rest) >= run'.left
        BY <2>1, <2>2, <2>14, <2>16, <3>1
    <3>7. Cardinality(rest) <= LegBudget(run.reflows + 1)'
      <4> DEFINE k == Cardinality(rest)
                 a == task.legs - Len(run.used)
                 b == task.reflows - run.reflows + 1
      <4>1. LegBudget(run.reflows) = Lesser(a, b)
          BY DEF LegBudget
      <4>2. LegBudget(run.reflows + 1)' = Lesser(task.legs - (Len(run.used) + 1), task.reflows - (run.reflows + 1) + 1)
          BY <2>1, <2>2, <2>5 DEF LegBudget
      <4>3. task.legs \in Nat /\ task.reflows \in Nat /\ Len(run.used) \in Nat /\ run.reflows \in Nat
          BY <1>4 DEF IsTask
      <4>4. k \in Nat
          BY <3>1, FS_CardinalityType
      <4>5. /\ task.legs - (Len(run.used) + 1) = a - 1
            /\ task.reflows - (run.reflows + 1) + 1 = b - 1 /\ a \in Int /\ b \in Int
        <5> DEFINE l == task.legs
                   r == task.reflows
                   u == Len(run.used)
                   q == run.reflows
        <5>1. l \in Nat /\ r \in Nat /\ u \in Nat /\ q \in Nat /\ a = l - u /\ b = r - q + 1
            BY <4>3
        <5> HIDE DEF l, r, u, q, a, b
        <5>2. l - (u + 1) = a - 1 /\ r - (q + 1) + 1 = b - 1 /\ a \in Int /\ b \in Int
            BY <5>1
        <5> QED BY <5>2 DEF l, r, u, q
      <4> HIDE DEF a, b
      <4>6. k + 1 <= Lesser(a, b)
          BY <3>1, <4>1
      <4> HIDE DEF k
      <4>7. k <= Lesser(a - 1, b - 1)
          BY <4>4, <4>5, <4>6 DEF Lesser
      <4> QED BY <4>2, <4>5, <4>7 DEF k
    <3> HIDE DEF rest
    <3> QED BY <3>4, <3>5, <3>6, <3>7 DEF RestFits
  <2>17. FillsFit'
      BY <1>4, <2>2, <2>16 DEF FillsFit
  <2>18. KernelPlanHolds'
    <3>1. run'.at # "invoke" /\ run'.error = "none"
        BY <1>4, <2>2
    <3> QED BY <3>1 DEF KernelPlanHolds, PlanIsCertified, TapeServesEverySubset, CertificateSound, FullFillsFit
  <2> QED BY <2>15, <2>17, <2>18 DEF KernelInv
<1> QED BY <1>7, <1>8

\* Keeping the staged execution keeps the invariant.
LEMMA ConcludeKeeps ==
    ASSUME KernelInv, Conclude
    PROVE  KernelInv'
<1>1. run.at = "settle"
    BY DEF Conclude
<1>2. CASE staged.out < task.minOut
  <2>1. Fail("floor")
      BY <1>2 DEF Conclude
  <2> QED BY <1>1, <2>1, FailKeeps
<1>3. CASE ~(staged.out < task.minOut)
  <2>1. kept' = staged /\ run' = [run EXCEPT !.at = "done"] /\ task' = task /\ staged' = staged
      BY <1>3 DEF Conclude
  <2>2. KernelKeeps /\ FillsFit
      BY DEF KernelInv
  <2>3. /\ DOMAIN run' = RunFields /\ run'.at = "done" /\ run'.error = run.error /\ run'.used = run.used
        /\ run'.reflows = run.reflows /\ run'.seen = run.seen /\ run'.curves = run.curves
        /\ run'.compiled = run.compiled
      BY <2>1, <2>2 DEF KernelKeeps, RunFields
  <2>4. KernelKeeps'
    <3>1. Venues' = Venues
        BY <2>1 DEF Venues
    <3> QED BY <2>1, <2>2, <2>3, <3>1 DEF KernelKeeps
  <2>5. run'.error = "none"
      BY <1>1, <2>2, <2>3 DEF FillsFit
  <2>6. FillsFit' /\ KernelPlanHolds'
      BY <2>3, <2>5 DEF FillsFit, KernelPlanHolds, PlanIsCertified, TapeServesEverySubset, CertificateSound, FullFillsFit
  <2> QED BY <2>4, <2>6 DEF KernelInv
<1> QED BY <1>2, <1>3

\* Nothing that changes nothing breaks it.
LEMMA StillKeeps ==
    ASSUME KernelInv, UNCHANGED kernelVars
    PROVE  KernelInv'
<1>1. task' = task /\ kept' = kept /\ staged' = staged /\ run' = run
    BY DEF kernelVars
<1>2. KernelKeeps'
    BY <1>1 DEF KernelInv, KernelKeeps, Venues, UsableNow, Usable, Resources, Admitted
<1>3. FillsFit'
  <2>1. Venues' = Venues /\ UsableNow' = UsableNow /\ LegBudget(run.reflows + 1)' = LegBudget(run.reflows + 1)
      BY <1>1 DEF Venues, UsableNow, Usable, Resources, LegBudget
  <2> QED BY <1>1, <2>1 DEF KernelInv, FillsFit, RestFits
<1>4. TapeServesEverySubset' /\ FullFillsFit'
    BY <1>1 DEF KernelInv, KernelPlanHolds, PlanIsCertified, TapeServesEverySubset, FullFillsFit
<1>5. CertificateSound'
  <2>1. (run.at = "invoke" =>
           (CertificateSound <=>
              IsSound(task, staged.venues, UsableNow, run.left, LegBudget(run.reflows), run.plan)))'
      BY <1>2, SoundIs, PTL
  <2>2. /\ UsableNow' = UsableNow /\ LegBudget(run.reflows)' = LegBudget(run.reflows)
      BY <1>1 DEF Venues, UsableNow, Usable, Resources, LegBudget
  <2>3. CASE run.at = "invoke"
    <3>1. IsSound(task, staged.venues, UsableNow, run.left, LegBudget(run.reflows), run.plan)
        BY <2>3, SoundIs DEF KernelInv, KernelPlanHolds, PlanIsCertified
    <3> QED BY <1>1, <2>1, <2>2, <2>3, <3>1
  <2>4. CASE run.at # "invoke"
      BY <1>1, <2>4 DEF CertificateSound
  <2> QED BY <2>3, <2>4
<1> QED BY <1>2, <1>3, <1>4, <1>5 DEF KernelInv, KernelPlanHolds, PlanIsCertified

\* The kernel's plan is a possible one, its certificate bounds them all, and
\* while every venue fills what it was asked the limits never stop it.
\* (ReflowExecutor::execute)
THEOREM KernelPlanIsSound == KernelSpec => []KernelPlanHolds
<1>1. KernelInit => KernelInv
    BY KernelStarts
<1>2. KernelInv /\ [KernelNext]_kernelVars => KernelInv'
  <2> SUFFICES ASSUME KernelInv, [KernelNext]_kernelVars PROVE KernelInv'
      OBVIOUS
  <2>1. CASE Plan
      BY <2>1, PlanKeeps
  <2>2. CASE Invoke
      BY <2>2, InvokeKeeps
  <2>3. CASE FatalCall
    <3>1. run.at # "done" /\ Fail("venue")
        BY <2>3 DEF FatalCall
    <3> QED BY <3>1, FailKeeps
  <2>4. CASE OutOfWork
    <3>1. run.at # "done" /\ Fail("work")
        BY <2>4 DEF OutOfWork
    <3> QED BY <3>1, FailKeeps
  <2>5. CASE Conclude
      BY <2>5, ConcludeKeeps
  <2>6. CASE Over
    <3>1. UNCHANGED kernelVars
        BY <2>6 DEF Over
    <3> QED BY <3>1, StillKeeps
  <2>7. CASE UNCHANGED kernelVars
      BY <2>7, StillKeeps
  <2> QED BY <2>1, <2>2, <2>3, <2>4, <2>5, <2>6, <2>7 DEF KernelNext
<1>3. KernelInv => KernelPlanHolds
    BY DEF KernelInv
<1> QED BY <1>1, <1>2, <1>3, PTL DEF KernelSpec
=============================================================================
