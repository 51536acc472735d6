---------------------------- MODULE PlanningProofs ----------------------------
(***************************************************************************)
(* Proofs about planning, each for every value of the constants.           *)
(*                                                                         *)
(* Flow folding.  A search for longest walks, sweep by sweep, either ends  *)
(* with distances that no arc of the residual graph improves, and then no  *)
(* circulation crosses more lots than the one there is; or the last sweep  *)
(* has still improved an asset, and the trail back from it closes to a     *)
(* cycle of arcs that may all carry more.  Pushing along a cycle keeps the *)
(* circulation and every limit.  What the venues return above the floors   *)
(* is distributed to the last atom, and nobody gets less than it signed    *)
(* for.  FoldInv puts these together.                                      *)
(*                                                                         *)
(* Orders over worlds of venues.  Every even split and every exchange      *)
(* keeps the whole amount and the limits, and a round at a step of one     *)
(* atom that gains nothing has tried every exchange (RefineIs).  The       *)
(* proposals of a world, the paths and the plan of a purchase are built    *)
(* from such splits (OptionsAre, PathsAre, SolveExposureIs); the routes    *)
(* that are dropped on the way are those that no later world can make fit  *)
(* (RoutesAreAll).  FoundInv says what a behaviour has found.              *)
(***************************************************************************)
EXTENDS FlowFolding, RoutePlan, FiniteSums

-----------------------------------------------------------------------------
(* A sweep over the arcs.                                                  *)

\* The arcs that may carry something.
Live(arcs) == {arcs[k] : k \in {k \in 1..Len(arcs) : arcs[k].cap > 0}}

\* A walk under way, over the assets A.
Walk(A, arcs) == [far : [A -> Int], via : [A -> Live(arcs) \cup {NoArc}], last : A \cup {0}]

\* An asset that was improved is reached by a live arc, from an asset that is
\* still far enough.
Rooted(s, v, arcs) ==
    /\ s.far[v] >= 0
    /\ s.far[v] # 0 =>
         /\ s.via[v] \in Live(arcs) /\ s.via[v].to = v
         /\ s.far[v] <= s.far[s.via[v].from] + s.via[v].cost
Walks(A, arcs) == {s \in Walk(A, arcs) : \A v \in A : Rooted(s, v, arcs)}

GoodArc(A, e) == e.from \in A /\ e.to \in A /\ e.cap \in Nat /\ e.cost \in Int
GoodArcs(A, arcs) == Len(arcs) \in Nat /\ \A k \in 1..Len(arcs) : GoodArc(A, arcs[k])

\* The walk t came from s and has taken notice of the first k arcs.
Onwards(s, t, k, A, arcs) ==
    /\ \A v \in A : s.far[v] <= t.far[v]
    /\ \A j \in 1..k : arcs[j].cap > 0 => s.far[arcs[j].from] + arcs[j].cost <= t.far[arcs[j].to]
    /\ t.last = 0 => t.far = s.far
    /\ t.last # 0 => s.far[t.last] < t.far[t.last]

\* One arc improves at most the asset that it leads to.  (Relax)
LEMMA RelaxIs ==
    ASSUME NEW A, NEW arcs, GoodArcs(A, arcs), NEW s \in Walks(A, arcs),
           NEW k \in 1..Len(arcs), 0 \notin A
    PROVE  LET t == Relax(s, arcs[k]) IN
           /\ t \in Walks(A, arcs)
           /\ \A v \in A : s.far[v] <= t.far[v]
           /\ arcs[k].cap > 0 => s.far[arcs[k].from] + arcs[k].cost <= t.far[arcs[k].to]
           /\ t = s \/ (t.last \in A /\ s.far[t.last] < t.far[t.last])
<1> DEFINE e == arcs[k]
           better == s.far[e.from] + e.cost
           t == Relax(s, e)
<1>1. /\ e.from \in A /\ e.to \in A /\ e.cap \in Nat /\ e.cost \in Int
      /\ e.cap > 0 => e \in Live(arcs)
    BY DEF GoodArcs, GoodArc, Live
<1>2. /\ s \in Walk(A, arcs) /\ \A v \in A : Rooted(s, v, arcs)
      /\ s = [far |-> s.far, via |-> s.via, last |-> s.last]
      /\ s.far \in [A -> Int] /\ s.via \in [A -> Live(arcs) \cup {NoArc}]
      /\ s.last \in A \cup {0} /\ better \in Int
    BY <1>1 DEF Walks, Walk
<1> HIDE DEF e
<1>3. CASE e.cap > 0 /\ s.far[e.to] < better
  <2> DEFINE f == [s.far EXCEPT ![e.to] = better]
             w == [s.via EXCEPT ![e.to] = e]
  <2>1. t = [far |-> f, via |-> w, last |-> e.to]
      BY <1>3 DEF Relax
  <2>2. f \in [A -> Int] /\ f[e.to] = better /\ \A v \in A \ {e.to} : f[v] = s.far[v]
    <3> HIDE DEF better
    <3> QED BY <1>1, <1>2
  <2>3. /\ w \in [A -> Live(arcs) \cup {NoArc}] /\ w[e.to] = e
        /\ \A v \in A \ {e.to} : w[v] = s.via[v]
    <3> HIDE DEF better
    <3> QED BY <1>1, <1>2, <1>3
  <2> HIDE DEF f, w, t
  <2>4. t.far = f /\ t.via = w /\ t.last = e.to /\ t \in Walk(A, arcs)
      BY <1>1, <2>1, <2>2, <2>3 DEF Walk
  <2>5. \A v \in A : s.far[v] <= f[v]
    <3> HIDE DEF better
    <3> QED BY <1>2, <1>3, <2>2
  <2>6. ASSUME NEW v \in A PROVE Rooted(t, v, arcs)
    <3>1. Rooted(s, v, arcs)
        BY <1>2
    <3>2. s.far[v] >= 0
        BY <3>1 DEF Rooted
    <3>3. t.far[v] >= 0
      <4> HIDE DEF better
      <4> QED BY <1>2, <2>2, <2>4, <2>5, <3>2
    <3>4. CASE v = e.to
      <4>1. t.via[v] = e /\ t.far[v] = better
          BY <2>2, <2>3, <2>4, <3>4
      <4>2. s.far[e.from] <= t.far[e.from]
          BY <1>1, <2>4, <2>5
      <4>3. better <= t.far[e.from] + e.cost
          BY <1>1, <1>2, <2>2, <2>4, <4>2
      <4> HIDE DEF better
      <4> QED BY <1>1, <1>3, <3>3, <3>4, <4>1, <4>3 DEF Rooted
    <3>5. CASE v # e.to
      <4>1. t.via[v] = s.via[v] /\ t.far[v] = s.far[v]
          BY <2>2, <2>3, <2>4, <3>5
      <4>2. SUFFICES ASSUME s.far[v] # 0
            PROVE  /\ s.via[v] \in Live(arcs) /\ s.via[v].to = v
                   /\ s.far[v] <= t.far[s.via[v].from] + s.via[v].cost
          BY <3>3, <4>1 DEF Rooted
      <4>3. /\ s.via[v] \in Live(arcs) /\ s.via[v].to = v
            /\ s.far[v] <= s.far[s.via[v].from] + s.via[v].cost
          BY <3>1, <4>2 DEF Rooted
      <4> DEFINE u == s.via[v].from
                 c == s.via[v].cost
      <4>4. u \in A /\ c \in Int
          BY <4>3 DEF Live, GoodArcs, GoodArc
      <4>5. s.far[v] <= s.far[u] + c /\ s.far[u] <= t.far[u]
          BY <2>4, <2>5, <4>3, <4>4
      <4> HIDE DEF u, c
      <4>6. s.far[v] \in Int /\ s.far[u] \in Int /\ t.far[u] \in Int
          BY <1>2, <2>2, <2>4, <4>4
      <4>7. s.far[v] <= t.far[u] + c
          BY <4>4, <4>5, <4>6
      <4> QED BY <4>3, <4>7 DEF u, c
    <3> QED BY <3>4, <3>5
  <2>7. t \in Walks(A, arcs)
      BY <2>4, <2>6 DEF Walks
  <2> HIDE DEF better
  <2>8. /\ s.far[t.last] < t.far[t.last] /\ t.last \in A
        /\ better <= t.far[e.to]
      BY <1>1, <1>2, <1>3, <2>2, <2>4
  <2> QED BY <2>4, <2>5, <2>7, <2>8 DEF t, better, e
<1>4. CASE ~(e.cap > 0 /\ s.far[e.to] < better)
  <2>1. t = s
      BY <1>4 DEF Relax
  <2>2. \A v \in A : s.far[v] <= s.far[v]
      BY <1>2
  <2>3. e.cap > 0 => better <= s.far[e.to]
    <3>1. s.far[e.to] \in Int
        BY <1>1, <1>2
    <3> HIDE DEF better
    <3> QED BY <1>2, <1>4, <3>1
  <2> HIDE DEF t
  <2> QED BY <2>1, <2>2, <2>3 DEF t, better, e
<1> QED BY <1>3, <1>4

\* f is what is known along a sweep.
IsSweep(f, z, m, arcs) == f = [k \in 0..m |-> IF k = 0 THEN z ELSE Relax(f[k - 1], arcs[k])]

\* A sweep can be run.
LEMMA SweepRuns ==
    ASSUME NEW X, NEW z \in X, NEW m \in Nat, NEW arcs,
           \A k \in 1..m : \A w \in X : Relax(w, arcs[k]) \in X
    PROVE  \E f : IsSweep(f, z, m, arcs)
<1> DEFINE F == [p \in (1..m) \X X |-> Relax(p[2], arcs[p[1]])]
<1>1. F \in [(1..m) \X X -> X]
    OBVIOUS
<1>0. \A k \in 1..m : \A w \in X : F[<<k, w>>] = Relax(w, arcs[k])
    OBVIOUS
<1> HIDE DEF F
<1>2. PICK g \in [0..m -> X] : g[0] = z /\ \A k \in 1..m : g[k] = F[<<k, g[k - 1]>>]
  <2>1. \E g : Runs(g, X, z, m, F)
      BY <1>1, Iterated
  <2> QED BY <2>1 DEF Runs
<1>3. \A k \in 0..m : g[k] = IF k = 0 THEN z ELSE Relax(g[k - 1], arcs[k])
  <2> TAKE k \in 0..m
  <2>1. CASE k = 0
      BY <1>2, <2>1
  <2>2. CASE k # 0
    <3>1. k \in 1..m /\ g[k - 1] \in X
        BY <1>2, <2>2
    <3>2. g[k] = F[<<k, g[k - 1]>>]
        BY <1>2, <3>1
    <3> QED BY <1>0, <2>2, <3>1, <3>2
  <2> QED BY <2>1, <2>2
<1>4. g = [k \in 0..m |-> g[k]]
    BY <1>2
<1>5. IsSweep(g, z, m, arcs)
    BY <1>3, <1>4 DEF IsSweep
<1> QED BY <1>5

\* A sweep takes every arc: no asset is worse for it, the arcs from what was
\* known lead to nothing more, and it says whether it improved anything.
\* (Sweep)
LEMMA SweptIs ==
    ASSUME NEW A, NEW arcs, GoodArcs(A, arcs), NEW s \in Walks(A, arcs), 0 \notin A
    PROVE  LET t == Swept(s, arcs)[Len(arcs)] IN
           t \in Walks(A, arcs) /\ Onwards(s, t, Len(arcs), A, arcs)
<1> DEFINE m == Len(arcs)
           X == Walks(A, arcs)
           z == [s EXCEPT !.last = 0]
           f == CHOOSE f : IsSweep(f, z, m, arcs)
<1>0. m \in Nat
    BY DEF GoodArcs
<1>1. z \in X /\ z.far = s.far /\ z.last = 0
  <2>1. s \in Walk(A, arcs) /\ \A v \in A : Rooted(s, v, arcs)
      BY DEF Walks
  <2>2. z \in Walk(A, arcs) /\ z.far = s.far /\ z.via = s.via /\ z.last = 0
      BY <2>1 DEF Walk
  <2> HIDE DEF z
  <2>3. \A v \in A : Rooted(z, v, arcs)
      BY <2>1, <2>2 DEF Rooted
  <2> QED BY <2>2, <2>3 DEF Walks
<1>2. \A k \in 1..m : \A w \in X : Relax(w, arcs[k]) \in X
    BY RelaxIs
<1> HIDE DEF X, z
<1>3. \E g : IsSweep(g, z, m, arcs)
  <2> HIDE DEF m, f
  <2> QED BY <1>0, <1>1, <1>2, SweepRuns
<1>4. IsSweep(f, z, m, arcs)
    BY <1>3
<1>5. Swept(s, arcs) = f
    BY DEF Swept, z, IsSweep
<1> HIDE DEF f
<1>6. f[0] = z /\ \A k \in 1..m : f[k] = Relax(f[k - 1], arcs[k])
    BY <1>0, <1>4 DEF IsSweep
<1> DEFINE P == {k \in 0..m : f[k] \in X /\ Onwards(s, f[k], k, A, arcs)}
<1>7. 0 \in P
  <2>1. s.far \in [A -> Int]
      BY DEF Walks, Walk
  <2>2. \A v \in A : s.far[v] <= s.far[v]
      BY <2>1
  <2>3. Onwards(s, f[0], 0, A, arcs)
      BY <1>1, <1>6, <2>2 DEF Onwards
  <2> QED BY <1>0, <1>1, <1>6, <2>3
<1>8. ASSUME NEW k \in 1..m, k - 1 \in P PROVE k \in P
  <2> DEFINE w == f[k - 1]
             t == f[k]
  <2>1. w \in X /\ Onwards(s, w, k - 1, A, arcs) /\ t = Relax(w, arcs[k])
      BY <1>6, <1>8
  <2> HIDE DEF w, t
  <2>2. /\ t \in Walks(A, arcs)
        /\ \A v \in A : w.far[v] <= t.far[v]
        /\ arcs[k].cap > 0 => w.far[arcs[k].from] + arcs[k].cost <= t.far[arcs[k].to]
        /\ t = w \/ (t.last \in A /\ w.far[t.last] < t.far[t.last])
      BY <2>1, RelaxIs DEF X
  <2>3. s.far \in [A -> Int] /\ w.far \in [A -> Int] /\ t.far \in [A -> Int]
      BY <2>1, <2>2 DEF Walks, Walk, X
  <2>4. \A v \in A : s.far[v] <= w.far[v]
      BY <2>1 DEF Onwards
  <2>5. \A v \in A : s.far[v] <= t.far[v]
      BY <2>2, <2>3, <2>4
  <2>6. ASSUME NEW j \in 1..k, arcs[j].cap > 0
        PROVE  s.far[arcs[j].from] + arcs[j].cost <= t.far[arcs[j].to]
    <3>1. arcs[j].from \in A /\ arcs[j].to \in A /\ arcs[j].cost \in Int
        BY <1>0 DEF GoodArcs, GoodArc
    <3> DEFINE a == arcs[j].from
               b == arcs[j].to
               c == arcs[j].cost
    <3>2. /\ s.far[a] \in Int /\ w.far[a] \in Int /\ w.far[b] \in Int /\ t.far[b] \in Int
          /\ s.far[a] <= w.far[a] /\ w.far[b] <= t.far[b] /\ c \in Int
        BY <2>2, <2>3, <2>4, <3>1
    <3>3. CASE j = k
      <4>1. w.far[a] + c <= t.far[b]
          BY <2>2, <2>6, <3>3
      <4> HIDE DEF a, b, c
      <4>2. s.far[a] + c <= t.far[b]
          BY <3>2, <4>1
      <4> QED BY <4>2 DEF a, b, c
    <3>4. CASE j # k
      <4>1. s.far[a] + c <= w.far[b]
          BY <1>0, <2>1, <2>6, <3>4 DEF Onwards
      <4> HIDE DEF a, b, c
      <4>2. s.far[a] + c <= t.far[b]
          BY <3>2, <4>1
      <4> QED BY <4>2 DEF a, b, c
    <3> QED BY <3>3, <3>4
  <2>7. (t.last = 0 => t.far = s.far) /\ (t.last # 0 => s.far[t.last] < t.far[t.last])
    <3>1. CASE t = w
        BY <2>1, <3>1 DEF Onwards
    <3>2. CASE t.last \in A /\ w.far[t.last] < t.far[t.last]
      <4>1. s.far[t.last] <= w.far[t.last] /\ t.last # 0
          BY <2>4, <3>2
      <4>2. s.far[t.last] \in Int /\ w.far[t.last] \in Int /\ t.far[t.last] \in Int
          BY <2>3, <3>2
      <4>3. s.far[t.last] < t.far[t.last]
          BY <3>2, <4>1, <4>2
      <4> QED BY <4>1, <4>3
    <3> QED BY <2>2, <3>1, <3>2
  <2>8. Onwards(s, t, k, A, arcs)
      BY <2>5, <2>6, <2>7 DEF Onwards
  <2> QED BY <1>0, <2>2, <2>8 DEF t, X
<1>9. m \in P
  <2>1. P \in SUBSET (0..m) /\ m \in 0..m
      BY <1>0
  <2> HIDE DEF P, m
  <2> QED BY <1>0, <1>7, <1>8, <2>1, EveryStep
<1> HIDE DEF m
<1>10. f[m] \in X /\ Onwards(s, f[m], m, A, arcs)
    BY <1>9
<1> QED BY <1>5, <1>10 DEF X, m

-----------------------------------------------------------------------------
(* All the sweeps.                                                         *)

\* f is what is known after each of n sweeps.
IsSearch(f, n, arcs) == f = [k \in 0..n |-> IF k = 0 THEN Unswept ELSE Sweep(f[k - 1], arcs)]

\* A sweep of a walk is one.
LEMMA SweepIs ==
    ASSUME NEW A, NEW arcs, GoodArcs(A, arcs), NEW s \in Walks(A, arcs), 0 \notin A
    PROVE  /\ Sweep(s, arcs) \in Walks(A, arcs)
           /\ s.last = 0 => Sweep(s, arcs) = s
           /\ s.last # 0 => Onwards(s, Sweep(s, arcs), Len(arcs), A, arcs)
<1>1. CASE s.last = 0
    BY <1>1 DEF Sweep
<1>2. CASE s.last # 0
  <2>1. Sweep(s, arcs) = Swept(s, arcs)[Len(arcs)]
      BY <1>2 DEF Sweep
  <2> QED BY <1>2, <2>1, SweptIs
<1> QED BY <1>1, <1>2

\* All the sweeps can be run.
LEMMA SearchRuns ==
    ASSUME NEW A, NEW arcs, GoodArcs(A, arcs), 0 \notin A, NEW n \in Nat,
           Unswept \in Walks(A, arcs)
    PROVE  \E f : IsSearch(f, n, arcs)
<1> DEFINE X == Walks(A, arcs)
           F == [p \in (1..n) \X X |-> Sweep(p[2], arcs)]
<1>1. \A w \in X : Sweep(w, arcs) \in X
    BY SweepIs
<1> HIDE DEF X
<1>2. F \in [(1..n) \X X -> X]
    BY <1>1
<1>3. \A k \in 1..n : \A w \in X : F[<<k, w>>] = Sweep(w, arcs)
    OBVIOUS
<1> HIDE DEF F
<1>4. PICK g \in [0..n -> X] : g[0] = Unswept /\ \A k \in 1..n : g[k] = F[<<k, g[k - 1]>>]
  <2>1. Unswept \in X
      BY DEF X
  <2>2. \E g : Runs(g, X, Unswept, n, F)
      BY <1>2, <2>1, Iterated
  <2> QED BY <2>2 DEF Runs
<1>5. \A k \in 0..n : g[k] = IF k = 0 THEN Unswept ELSE Sweep(g[k - 1], arcs)
  <2> TAKE k \in 0..n
  <2>1. CASE k = 0
      BY <1>4, <2>1
  <2>2. CASE k # 0
    <3>1. k \in 1..n /\ g[k - 1] \in X
        BY <1>4, <2>2
    <3>2. g[k] = F[<<k, g[k - 1]>>]
        BY <1>4, <3>1
    <3> QED BY <1>3, <2>2, <3>1, <3>2
  <2> QED BY <2>1, <2>2
<1>6. g = [k \in 0..n |-> g[k]]
    BY <1>4
<1>7. IsSearch(g, n, arcs)
    BY <1>5, <1>6 DEF IsSearch
<1> QED BY <1>7

\* What is known after every sweep.  (Sweeps)
LEMMA SweepsAre ==
    ASSUME Len(cell.lots) \in Nat, Len(cell.lots) >= 1, DOMAIN cell.lots = 1..Len(cell.lots),
           NEW arcs, GoodArcs(DOMAIN cell.lots, arcs)
    PROVE  /\ Sweeps(arcs)[0] = Unswept
           /\ \A k \in 0..Len(cell.lots) : Sweeps(arcs)[k] \in Walks(DOMAIN cell.lots, arcs)
           /\ \A k \in 1..Len(cell.lots) : Sweeps(arcs)[k] = Sweep(Sweeps(arcs)[k - 1], arcs)
<1> DEFINE n == Len(cell.lots)
           A == DOMAIN cell.lots
           f == CHOOSE f : IsSearch(f, n, arcs)
<1>0. n \in Nat /\ 0 \notin A
    OBVIOUS
<1>1. Unswept \in Walks(A, arcs)
  <2>1. 1 \in A
      OBVIOUS
  <2>2. /\ Unswept.far = [a \in A |-> 0] /\ Unswept.via = [a \in A |-> NoArc] /\ Unswept.last = 1
        /\ Unswept = [far |-> Unswept.far, via |-> Unswept.via, last |-> Unswept.last]
      BY DEF Unswept
  <2> HIDE DEF A
  <2>3. Unswept \in Walk(A, arcs)
      BY <2>1, <2>2 DEF Walk
  <2>4. \A v \in A : Unswept.far[v] = 0
      BY <2>2
  <2>5. \A v \in A : Rooted(Unswept, v, arcs)
      BY <2>4 DEF Rooted
  <2> QED BY <2>3, <2>5 DEF Walks
<1>2. Sweeps(arcs) = f
    BY DEF Sweeps, IsSearch
<1>3. IsSearch(f, n, arcs)
  <2>1. \E g : IsSearch(g, n, arcs)
    <3> HIDE DEF n, f, A
    <3>1. GoodArcs(A, arcs)
        BY DEF A
    <3> QED BY <1>0, <1>1, <3>1, SearchRuns
  <2> QED BY <2>1
<1> HIDE DEF f
<1>4. f[0] = Unswept /\ \A k \in 1..n : f[k] = Sweep(f[k - 1], arcs)
  <2> HIDE DEF n
  <2> QED BY <1>0, <1>3 DEF IsSearch
<1> DEFINE P == {k \in 0..n : f[k] \in Walks(A, arcs)}
<1>5. 0 \in P
    BY <1>0, <1>1, <1>4
<1>6. \A k \in 1..n : k - 1 \in P => k \in P
  <2> TAKE k \in 1..n
  <2>1. SUFFICES ASSUME f[k - 1] \in Walks(A, arcs) PROVE f[k] \in Walks(A, arcs)
      OBVIOUS
  <2> QED BY <1>0, <1>4, <2>1, SweepIs
<1>7. \A k \in 0..n : k \in P
  <2>1. P \in SUBSET (0..n)
      OBVIOUS
  <2> HIDE DEF P, n
  <2> QED BY <1>0, <1>5, <1>6, <2>1, EveryStep
<1> QED BY <1>2, <1>4, <1>7

\* If the last sweep improved nothing, no live arc leads to more.
LEMMA NothingIsFarther ==
    ASSUME Len(cell.lots) \in Nat, Len(cell.lots) >= 1, DOMAIN cell.lots = 1..Len(cell.lots),
           NEW arcs, GoodArcs(DOMAIN cell.lots, arcs),
           Sweeps(arcs)[Len(cell.lots)].last = 0
    PROVE  LET far == Sweeps(arcs)[Len(cell.lots)].far IN
           /\ far \in [DOMAIN cell.lots -> Int]
           /\ \A j \in 1..Len(arcs) : arcs[j].cap > 0 =>
                 far[arcs[j].from] + arcs[j].cost <= far[arcs[j].to]
<1> DEFINE n == Len(cell.lots)
           A == DOMAIN cell.lots
           f == Sweeps(arcs)
           Still(s) == s.last = 0 => \A j \in 1..Len(arcs) : arcs[j].cap > 0 =>
                           s.far[arcs[j].from] + arcs[j].cost <= s.far[arcs[j].to]
           P == {k \in 0..n : Still(f[k])}
<1>0. n \in Nat /\ 0 \notin A /\ GoodArcs(A, arcs)
    OBVIOUS
<1>1. f[0] = Unswept
    BY SweepsAre
<1>2. \A k \in 0..n : f[k] \in Walks(A, arcs)
    BY SweepsAre
<1>3. \A k \in 1..n : f[k] = Sweep(f[k - 1], arcs)
    BY SweepsAre
<1> HIDE DEF f, A
<1>4. 0 \in P
  <2>1. f[0].last # 0
      BY <1>1 DEF Unswept
  <2> QED BY <1>0, <2>1
<1>5. ASSUME NEW k \in 1..n, k - 1 \in P PROVE k \in P
  <2> DEFINE s == f[k - 1]
             t == f[k]
  <2>1. s \in Walks(A, arcs) /\ t = Sweep(s, arcs) /\ Still(s)
    <3>1. k - 1 \in 0..n
        BY <1>0
    <3> QED BY <1>2, <1>3, <1>5, <3>1
  <2> HIDE DEF s, t
  <2>2. CASE s.last = 0
    <3>1. t = s
        BY <1>0, <2>1, <2>2, SweepIs
    <3>2. Still(t)
        BY <2>1, <3>1
    <3> QED BY <1>0, <3>2 DEF t
  <2>3. CASE s.last # 0
    <3>1. Onwards(s, t, Len(arcs), A, arcs)
        BY <1>0, <2>1, <2>3, SweepIs
    <3>2. Still(t)
        BY <3>1 DEF Onwards
    <3> QED BY <1>0, <3>2 DEF t
  <2> QED BY <2>2, <2>3
<1>6. \A k \in 0..n : k \in P
  <2>1. P \in SUBSET (0..n)
      OBVIOUS
  <2> HIDE DEF P, n
  <2> QED BY <1>0, <1>4, <1>5, <2>1, EveryStep
<1>7. n \in 0..n
    BY <1>0
<1>8. Still(f[n]) /\ f[n] \in Walks(A, arcs) /\ f[n].last = 0
    BY <1>2, <1>6, <1>7 DEF f
<1>9. f[n].far \in [A -> Int]
    BY <1>8 DEF Walks, Walk
<1> QED BY <1>8, <1>9 DEF f, A

\* If it improved an asset, every asset that the last sweeps improved is
\* reached from one that all but the first of these sweeps improved.
LEMMA StillDeeper ==
    ASSUME Len(cell.lots) \in Nat, Len(cell.lots) >= 1, DOMAIN cell.lots = 1..Len(cell.lots),
           NEW arcs, GoodArcs(DOMAIN cell.lots, arcs),
           Sweeps(arcs)[Len(cell.lots)].last # 0
    PROVE  LET n == Len(cell.lots)
               f == Sweeps(arcs)
               s == f[n]
           IN  /\ s.last \in DOMAIN cell.lots /\ f[n - 1].far[s.last] < s.far[s.last]
               /\ \A m \in 1..n : \A v \in DOMAIN cell.lots : f[m - 1].far[v] < s.far[v] =>
                    /\ s.via[v] \in Live(arcs) /\ s.via[v].to = v
                    /\ m >= 2 => f[m - 2].far[s.via[v].from] < s.far[s.via[v].from]
<1> DEFINE n == Len(cell.lots)
           A == DOMAIN cell.lots
           f == Sweeps(arcs)
           s == f[n]
<1>0. n \in Nat /\ n >= 1 /\ 0 \notin A /\ GoodArcs(A, arcs) /\ s.last # 0
    OBVIOUS
<1>2. \A k \in 0..n : f[k] \in Walks(A, arcs)
    BY SweepsAre
<1>3. \A k \in 1..n : f[k] = Sweep(f[k - 1], arcs)
    BY SweepsAre
<1> HIDE DEF f, A, n
<1>4. \A k \in 0..n : f[k].last # 0
  <2> DEFINE P == {j \in 0..n : f[n - j].last # 0}
  <2>1. 0 \in P
      BY <1>0
  <2>2. ASSUME NEW j \in 1..n, j - 1 \in P PROVE j \in P
    <3> DEFINE k == n - j
    <3>1. k \in 0..n /\ k + 1 \in 1..n /\ (k + 1) - 1 = k /\ k + 1 = n - (j - 1) /\ j \in 0..n
        BY <1>0
    <3>2. f[k + 1].last # 0
        BY <2>2, <3>1
    <3> HIDE DEF k
    <3>3. f[k + 1] = Sweep(f[k], arcs) /\ f[k] \in Walks(A, arcs)
      <4>1. f[k + 1] = Sweep(f[(k + 1) - 1], arcs)
          BY <1>3, <3>1
      <4> QED BY <1>2, <3>1, <4>1
    <3>4. f[k].last # 0
        BY <1>0, <3>2, <3>3, SweepIs
    <3> QED BY <3>1, <3>4 DEF k
  <2>3. \A j \in 0..n : j \in P
    <3>1. P \in SUBSET (0..n)
        OBVIOUS
    <3> HIDE DEF P
    <3> QED BY <1>0, <2>1, <2>2, <3>1, EveryStep
  <2> TAKE k \in 0..n
  <2>4. n - k \in 0..n /\ n - (n - k) = k
      BY <1>0
  <2>5. n - k \in P
      BY <2>3, <2>4
  <2> QED BY <2>4, <2>5
<1>5. \A k \in 1..n : Onwards(f[k - 1], f[k], Len(arcs), A, arcs)
  <2> TAKE k \in 1..n
  <2>1. k - 1 \in 0..n
      BY <1>0
  <2>2. f[k - 1] \in Walks(A, arcs) /\ f[k - 1].last # 0 /\ f[k] = Sweep(f[k - 1], arcs)
      BY <1>2, <1>3, <1>4, <2>1
  <2> QED BY <1>0, <2>2, SweepIs
<1>6. s \in Walks(A, arcs)
    BY <1>0, <1>2
<1>7. s.last \in A /\ f[n - 1].far[s.last] < s.far[s.last]
  <2>1. s.last \in A
      BY <1>0, <1>6 DEF Walks, Walk
  <2>2. Onwards(f[n - 1], s, Len(arcs), A, arcs)
      BY <1>0, <1>5
  <2> QED BY <1>0, <2>1, <2>2 DEF Onwards
<1>8. ASSUME NEW m \in 1..n, NEW v \in A, f[m - 1].far[v] < s.far[v]
      PROVE  /\ s.via[v] \in Live(arcs) /\ s.via[v].to = v
             /\ m >= 2 => f[m - 2].far[s.via[v].from] < s.far[s.via[v].from]
  <2>1. m - 1 \in 0..n
      BY <1>0
  <2>2. f[m - 1] \in Walks(A, arcs)
      BY <1>2, <2>1
  <2>3. Rooted(f[m - 1], v, arcs) /\ Rooted(s, v, arcs)
      BY <1>6, <2>2 DEF Walks
  <2>4. f[m - 1].far[v] \in Int /\ s.far[v] \in Int
      BY <1>6, <2>2 DEF Walks, Walk
  <2>5. f[m - 1].far[v] >= 0
      BY <2>3 DEF Rooted
  <2>6. s.far[v] # 0
      BY <1>8, <2>4, <2>5
  <2>7. /\ s.via[v] \in Live(arcs) /\ s.via[v].to = v
        /\ s.far[v] <= s.far[s.via[v].from] + s.via[v].cost
      BY <2>3, <2>6 DEF Rooted
  <2>8. PICK j \in 1..Len(arcs) : s.via[v] = arcs[j] /\ arcs[j].cap > 0
      BY <2>7 DEF Live
  <2> DEFINE u == arcs[j].from
             c == arcs[j].cost
  <2>9. u \in A /\ c \in Int /\ arcs[j].to = v /\ s.far[v] <= s.far[u] + c /\ s.far[u] \in Int
    <3>1. u \in A /\ c \in Int
        BY <1>0 DEF GoodArcs, GoodArc
    <3>2. s.far[u] \in Int
        BY <1>6, <3>1 DEF Walks, Walk
    <3> QED BY <2>7, <2>8, <3>1, <3>2
  <2>10. ASSUME m >= 2 PROVE f[m - 2].far[u] < s.far[u]
    <3> DEFINE k == m - 1
    <3>1. k \in 1..n /\ k - 1 = m - 2 /\ k - 1 \in 0..n
        BY <1>0, <2>10
    <3> HIDE DEF k
    <3>2. Onwards(f[k - 1], f[k], Len(arcs), A, arcs) /\ f[k - 1] \in Walks(A, arcs)
        BY <1>2, <1>5, <3>1
    <3>3. f[k - 1].far[u] + c <= f[k].far[v]
        BY <2>8, <2>9, <3>2 DEF Onwards
    <3>4. f[k - 1].far[u] \in Int
        BY <2>9, <3>2 DEF Walks, Walk
    <3>5. f[k].far[v] < s.far[v] /\ f[k].far[v] \in Int
        BY <1>8, <2>4 DEF k
    <3> DEFINE before == f[k - 1].far[u]
               reached == f[k].far[v]
    <3>6. /\ before \in Int /\ reached \in Int /\ c \in Int /\ s.far[u] \in Int /\ s.far[v] \in Int
          /\ before + c <= reached /\ reached < s.far[v] /\ s.far[v] <= s.far[u] + c
        BY <2>4, <2>9, <3>3, <3>4, <3>5
    <3> HIDE DEF u, c, before, reached
    <3>7. before < s.far[u]
        BY <3>6
    <3> QED BY <3>1, <3>7 DEF before
  <2> QED BY <2>7, <2>8, <2>10
<1> QED BY <1>7, <1>8 DEF f, A, n

-----------------------------------------------------------------------------
(* The trail and the cycle.                                                *)

\* p goes n steps back along the arcs.
IsTrail(p, via, start, n) == p = [k \in 0..n |-> IF k = 0 THEN start ELSE via[p[k - 1]].from]

\* There is such a trail.
LEMMA TrailRuns ==
    ASSUME NEW n \in Nat, NEW via, NEW start
    PROVE  \E p : IsTrail(p, via, start, n)
<1> DEFINE P == {m \in 0..n : \E p : IsTrail(p, via, start, m)}
<1>1. 0 \in P
  <2> DEFINE p == [k \in 0..0 |-> start]
  <2>1. IsTrail(p, via, start, 0)
      BY DEF IsTrail
  <2> QED BY <2>1
<1>2. ASSUME NEW m \in 1..n, m - 1 \in P PROVE m \in P
  <2>1. PICK p : IsTrail(p, via, start, m - 1)
      BY <1>2
  <2> DEFINE y == via[p[m - 1]].from
             h == [k \in 0..m |-> IF k = m THEN y ELSE p[k]]
  <2>2. p[0] = start /\ \A k \in 1..(m - 1) : p[k] = via[p[k - 1]].from
      BY <2>1 DEF IsTrail
  <2>3. h[m] = y /\ \A k \in 0..(m - 1) : h[k] = p[k]
      OBVIOUS
  <2>4. h[0] = start /\ \A k \in 1..m : h[k] = via[h[k - 1]].from
    <3>1. h[0] = start
        BY <2>2, <2>3
    <3>2. ASSUME NEW k \in 1..m PROVE h[k] = via[h[k - 1]].from
      <4>0. h[k - 1] = p[k - 1]
          BY <2>3
      <4>1. CASE k = m
          BY <2>3, <4>0, <4>1
      <4>2. CASE k # m
        <5>1. k \in 1..(m - 1) /\ k \in 0..(m - 1)
            BY <4>2
        <5> HIDE DEF h
        <5> QED BY <2>2, <2>3, <4>0, <5>1
      <4> QED BY <4>1, <4>2
    <3> QED BY <3>1, <3>2
  <2>5. h = [k \in 0..m |-> h[k]]
      OBVIOUS
  <2> HIDE DEF h
  <2>6. \A k \in 0..m : h[k] = IF k = 0 THEN start ELSE via[h[k - 1]].from
      BY <2>4
  <2>7. IsTrail(h, via, start, m)
      BY <2>5, <2>6 DEF IsTrail
  <2> QED BY <2>7
<1>3. \A k \in 0..n : k \in P
  <2>1. P \in SUBSET (0..n)
      OBVIOUS
  <2> HIDE DEF P
  <2> QED BY <1>1, <1>2, <2>1, EveryStep
<1> QED BY <1>3

\* The trail goes back along the arcs.  (Trail)
LEMMA TrailIs ==
    ASSUME Len(cell.lots) \in Nat, NEW via, NEW start
    PROVE  LET p == Trail(via, start) IN
           p[0] = start /\ \A k \in 1..(2 * Len(cell.lots)) : p[k] = via[p[k - 1]].from
<1> DEFINE n == 2 * Len(cell.lots)
           p == CHOOSE p : IsTrail(p, via, start, n)
<1>1. n \in Nat
    OBVIOUS
<1>2. Trail(via, start) = p
    BY DEF Trail, IsTrail
<1>3. IsTrail(p, via, start, n)
  <2>1. \E q : IsTrail(q, via, start, n)
    <3> HIDE DEF n
    <3> QED BY <1>1, TrailRuns
  <2> QED BY <2>1
<1> HIDE DEF p, n
<1>4. p[0] = start /\ \A k \in 1..n : p[k] = via[p[k - 1]].from
    BY <1>1, <1>3 DEF IsTrail
<1> QED BY <1>2, <1>4 DEF n

\* b leads along p, and never out of G.
Follows(p, b, G, N) ==
    (\A k \in 0..N : p[k] \in G) /\ \A k \in 1..N : p[k] = b[p[k - 1]]

\* Where a trail has been before, it goes on as before.
LEMMA SameOnwards ==
    ASSUME NEW N \in Nat, NEW G, NEW b, NEW p, Follows(p, b, G, N),
           NEW i \in Nat, NEW j \in Nat, p[i] = p[j], NEW m \in Nat, i + m <= N, j + m <= N
    PROVE  \A k \in 0..m : p[i + k] = p[j + k]
<1> DEFINE P == {k \in 0..m : p[i + k] = p[j + k]}
<1>1. 0 \in P
    OBVIOUS
<1>2. ASSUME NEW k \in 1..m, k - 1 \in P PROVE k \in P
  <2>1. p[i + (k - 1)] = p[j + (k - 1)]
      BY <1>2
  <2> DEFINE x == i + k
             y == j + k
  <2>2. x \in 1..N /\ y \in 1..N /\ x - 1 = i + (k - 1) /\ y - 1 = j + (k - 1)
      OBVIOUS
  <2> HIDE DEF x, y
  <2>3. p[x] = p[y]
      BY <2>1, <2>2 DEF Follows
  <2> QED BY <2>3 DEF x, y
<1>3. P \in SUBSET (0..m)
    OBVIOUS
<1>4. \A k \in 0..m : k \in P
  <2> HIDE DEF P
  <2> QED BY <1>1, <1>2, <1>3, EveryStep
<1> QED BY <1>4

\* p is followed for the first L steps, and as long as it stays in G.
Enters(p, b, G, L) ==
    /\ \A k \in 0..(L - 1) : p[k] \in G
    /\ \A k \in 1..(2 * L) : p[k - 1] \in G => p[k] = b[p[k - 1]]

\* A trail that can be followed for as many steps as there are assets comes
\* back to one of them, and goes around from then on.
LEMMA TrailCloses ==
    ASSUME NEW L \in Nat, L >= 1, NEW A, IsFiniteSet(A), Cardinality(A) <= L,
           NEW G \in SUBSET A, NEW b \in [G -> A], NEW p, Enters(p, b, G, L)
    PROVE  /\ Follows(p, b, G, 2 * L)
           /\ \E n \in 1..L : p[L + n] = p[L]
<1>0. /\ \A k \in 0..(L - 1) : p[k] \in G
      /\ \A k \in 1..(2 * L) : p[k - 1] \in G => p[k] = b[p[k - 1]]
    BY DEF Enters
<1>1. \A k \in 0..L : p[k] \in A
  <2> TAKE k \in 0..L
  <2>1. CASE k = L
    <3>1. k \in 1..(2 * L) /\ k - 1 \in 0..(L - 1)
        BY <2>1
    <3>2. p[k - 1] \in G
        BY <1>0, <3>1
    <3>3. p[k] = b[p[k - 1]]
        BY <1>0, <3>1, <3>2
    <3> QED BY <3>2, <3>3
  <2>2. CASE k # L
      BY <1>0, <2>2
  <2> QED BY <2>1, <2>2
<1>2. \E i, j \in 0..L : i < j /\ p[i] = p[j]
  <2> DEFINE f == [k \in 0..L |-> p[k]]
  <2>1. f \in [0..L -> A]
      BY <1>1
  <2>2. IsFiniteSet(0..L) /\ Cardinality(0..L) = L + 1
      BY FS_Interval
  <2>3. Cardinality(A) < Cardinality(0..L)
      BY <2>2, FS_CardinalityType
  <2>4. PICK x, y \in 0..L : x # y /\ f[x] = f[y]
    <3> HIDE DEF f
    <3> QED BY <2>1, <2>2, <2>3, FS_PigeonHole
  <2>5. p[x] = p[y] /\ p[y] = p[x]
      BY <2>4
  <2>6. CASE x < y
      BY <2>5, <2>6
  <2>7. CASE y < x
      BY <2>5, <2>7
  <2> QED BY <2>4, <2>6, <2>7
<1>3. PICK i \in 0..L, j \in 0..L : i < j /\ p[i] = p[j]
    BY <1>2
<1> DEFINE N == 2 * L
           P == {k \in 0..N : \E x \in 0..(j - 1) : p[k] = p[x]}
<1>4. 0 \in P
    BY <1>3
<1>5. \A x \in 0..(j - 1) : p[x] \in G
    BY <1>0, <1>3
<1>6. ASSUME NEW k \in 1..N, k - 1 \in P PROVE k \in P
  <2>1. PICK x \in 0..(j - 1) : p[k - 1] = p[x]
      BY <1>6
  <2>2. p[k] = b[p[x]]
      BY <1>0, <1>5, <2>1
  <2> DEFINE y == x + 1
  <2>3. y \in 1..(2 * L) /\ y - 1 = x /\ y \in 0..j
      BY <1>3
  <2> HIDE DEF y
  <2>4. p[y] = b[p[x]]
      BY <1>0, <1>5, <2>3
  <2>5. CASE y = j
      BY <1>3, <2>2, <2>4, <2>5
  <2>6. CASE y # j
      BY <2>2, <2>3, <2>4, <2>6
  <2> QED BY <2>5, <2>6
<1>7. \A k \in 0..N : k \in P
  <2>1. P \in SUBSET (0..N) /\ N \in Nat
      OBVIOUS
  <2> HIDE DEF P, N
  <2> QED BY <1>4, <1>6, <2>1, EveryStep
<1>8. \A k \in 0..N : p[k] \in G
    BY <1>5, <1>7
<1>9. \A k \in 1..N : p[k] = b[p[k - 1]]
    BY <1>0, <1>8
<1>10. p[L + (j - i)] = p[L]
  <2> DEFINE m == L - i
  <2>1. i \in Nat /\ j \in Nat /\ m \in Nat /\ i + m <= N /\ j + m <= N /\ N \in Nat
        /\ i + m = L /\ j + m = L + (j - i) /\ m \in 0..m
      BY <1>3
  <2> HIDE DEF m, N
  <2>2. \A k \in 0..m : p[i + k] = p[j + k]
    <3>1. Follows(p, b, G, N)
        BY <1>8, <1>9 DEF Follows, N
    <3> QED BY <1>3, <2>1, <3>1, SameOnwards
  <2>3. p[i + m] = p[j + m]
      BY <2>1, <2>2
  <2> QED BY <2>1, <2>3
<1>11. j - i \in 1..L
    BY <1>3
<1>12. Follows(p, b, G, 2 * L)
    BY <1>8, <1>9 DEF Follows
<1> QED BY <1>10, <1>11, <1>12

\* After n steps around, for the first time, p is back.
Returns(p, L, n) ==
    n \in 1..L /\ p[L + n] = p[L] /\ \A k \in 1..L : p[L + k] = p[L] => n <= k

\* Once around, it meets no asset twice.
LEMMA TrailIsSimple ==
    ASSUME NEW L \in Nat, NEW G, NEW b, NEW p, Follows(p, b, G, 2 * L),
           NEW n, Returns(p, L, n),
           NEW x \in 0..(n - 1), NEW y \in 0..(n - 1), p[L + x] = p[L + y]
    PROVE  x = y
<1>0. n \in 1..L /\ p[L + n] = p[L] /\ \A k \in 1..L : p[L + k] = p[L] => n <= k
    BY DEF Returns
<1>1. \A u, v \in 0..(n - 1) : p[L + u] = p[L + v] => ~(u < v)
  <2> SUFFICES ASSUME NEW u \in 0..(n - 1), NEW v \in 0..(n - 1), p[L + u] = p[L + v], u < v
               PROVE  FALSE
      OBVIOUS
  <2> DEFINE N == 2 * L
             i == L + u
             j == L + v
             m == n - v
  <2>1. i \in Nat /\ j \in Nat /\ m \in Nat /\ i + m <= N /\ j + m <= N /\ N \in Nat
        /\ j + m = L + n /\ i + m = L + (u + m) /\ m \in 0..m /\ u + m \in 1..L /\ u + m < n
      BY <1>0
  <2>2. p[i] = p[j]
      OBVIOUS
  <2>3. Follows(p, b, G, N)
      OBVIOUS
  <2> HIDE DEF i, j, m, N
  <2>4. \A k \in 0..m : p[i + k] = p[j + k]
      BY <2>1, <2>2, <2>3, SameOnwards
  <2>5. p[L + (u + m)] = p[L]
      BY <1>0, <2>1, <2>4
  <2>6. n <= u + m
      BY <1>0, <2>1, <2>5
  <2> QED BY <1>0, <2>1, <2>6
<1>2. ~(x < y) /\ ~(y < x)
    BY <1>1
<1> QED BY <1>0, <1>2

\* The arcs e lead around once, back over the assets c.
IsCycle(C, n, c, e, A, arcs) ==
    /\ n \in Nat \ {0} /\ c \in [0..n -> A] /\ c[n] = c[0]
    /\ \A x, y \in 0..(n - 1) : c[x] = c[y] => x = y
    /\ e \in [0..(n - 1) -> Live(arcs)]
    /\ \A k \in 0..(n - 1) : e[k].to = c[k] /\ e[k].from = c[k + 1]
    /\ C = {e[k] : k \in 0..(n - 1)}

\* What is found when something was improved is a cycle.  (CycleOf)
LEMMA CycleFound ==
    ASSUME Len(cell.lots) \in Nat, Len(cell.lots) >= 1, DOMAIN cell.lots = 1..Len(cell.lots),
           NEW arcs, GoodArcs(DOMAIN cell.lots, arcs),
           Sweeps(arcs)[Len(cell.lots)].last # 0
    PROVE  \E n, c, e : IsCycle(CycleOf(Sweeps(arcs)[Len(cell.lots)]), n, c, e, DOMAIN cell.lots, arcs)
<1> DEFINE L == Len(cell.lots)
           A == DOMAIN cell.lots
           f == Sweeps(arcs)
           s == f[L]
           via == s.via
           p == Trail(via, s.last)
           G == {v \in A : via[v] \in Live(arcs) /\ via[v].to = v}
           b == [v \in G |-> via[v].from]
           ns == {n \in 1..L : p[L + n] = p[L]}
           n == Min(ns)
<1>0. L \in Nat /\ L >= 1 /\ A = 1..L /\ GoodArcs(A, arcs) /\ s.last # 0
    OBVIOUS
<1>1. /\ s.last \in A /\ f[L - 1].far[s.last] < s.far[s.last]
      /\ \A m \in 1..L : \A v \in A : f[m - 1].far[v] < s.far[v] =>
           /\ v \in G
           /\ m >= 2 => f[m - 2].far[via[v].from] < s.far[via[v].from]
  <2> QED BY <1>0, StillDeeper
<1>2. p[0] = s.last /\ \A k \in 1..(2 * L) : p[k] = via[p[k - 1]].from
    BY TrailIs
<1>3. CycleOf(s) = {via[p[L + k]] : k \in 0..(n - 1)}
  <2>1. CycleOf(s) = Around(via, p)
      BY <1>0 DEF CycleOf
  <2> HIDE DEF p, via, s, f
  <2> QED BY <2>1 DEF Around
<1>4. \A v \in G : b[v] = via[v].from /\ via[v].from \in A /\ via[v] \in Live(arcs) /\ via[v].to = v
  <2> HIDE DEF via
  <2>1. \A v \in G : via[v].from \in A
      BY <1>0 DEF Live, GoodArcs, GoodArc
  <2> QED BY <2>1
<1>5. b \in [G -> A] /\ G \in SUBSET A
    BY <1>4
<1> HIDE DEF f, p, b, n, G, via, s, A, L
<1>6. \A k \in 0..(L - 1) : p[k] \in A /\ f[L - 1 - k].far[p[k]] < s.far[p[k]]
  <2> DEFINE N == L - 1
             P == {k \in 0..N : p[k] \in A /\ f[L - 1 - k].far[p[k]] < s.far[p[k]]}
  <2>1. 0 \in P
    <3>1. L - 1 - 0 = L - 1 /\ 0 \in 0..N
        BY <1>0
    <3> QED BY <1>1, <1>2, <3>1
  <2>2. ASSUME NEW k \in 1..N, k - 1 \in P PROVE k \in P
    <3> DEFINE m == L - 1 - (k - 1) + 1
               v == p[k - 1]
    <3>1. m - 1 = L - 1 - (k - 1)
        BY <1>0
    <3>2. m - 2 = L - 1 - k /\ m \in 1..L /\ m >= 2 /\ k \in 1..(2 * L)
        BY <1>0
    <3>3. v \in A /\ f[m - 1].far[v] < s.far[v]
        BY <2>2, <3>1
    <3> HIDE DEF m
    <3>4. v \in G /\ f[m - 2].far[via[v].from] < s.far[via[v].from]
        BY <1>1, <3>2, <3>3
    <3>5. p[k] = via[v].from
        BY <1>2, <3>2
    <3>6. p[k] \in A
        BY <1>4, <3>4, <3>5
    <3> QED BY <3>2, <3>4, <3>5, <3>6
  <2>3. \A k \in 0..N : k \in P
    <3>1. P \in SUBSET (0..N) /\ N \in Nat
        BY <1>0
    <3> HIDE DEF P, N
    <3> QED BY <2>1, <2>2, <3>1, EveryStep
  <2> QED BY <2>3
<1>7. \A k \in 0..(L - 1) : p[k] \in G
  <2> TAKE k \in 0..(L - 1)
  <2> DEFINE m == L - k
  <2>1. m \in 1..L /\ m - 1 = L - 1 - k
      BY <1>0
  <2> HIDE DEF m
  <2>2. p[k] \in A /\ f[m - 1].far[p[k]] < s.far[p[k]]
      BY <1>6, <2>1
  <2> QED BY <1>1, <2>1, <2>2
<1>8. \A k \in 1..(2 * L) : p[k - 1] \in G => p[k] = b[p[k - 1]]
    BY <1>2, <1>4
<1>9. IsFiniteSet(A) /\ Cardinality(A) <= L
  <2>1. IsFiniteSet(1..L) /\ Cardinality(1..L) = L
      BY <1>0, FS_Interval
  <2> QED BY <1>0, <2>1
<1>10. Follows(p, b, G, 2 * L) /\ \E k \in 1..L : p[L + k] = p[L]
  <2>1. Enters(p, b, G, L)
      BY <1>7, <1>8 DEF Enters
  <2> QED BY <1>0, <1>5, <1>9, <2>1, TrailCloses, ZenonT(40)
<1>11. n \in ns /\ \A k \in ns : n <= k
  <2>1. ns \in SUBSET Nat /\ ns # {}
      BY <1>0, <1>10
  <2> HIDE DEF ns
  <2> QED BY <2>1, MinIs DEF n
<1>12. n \in 1..L /\ p[L + n] = p[L] /\ \A k \in 1..L : p[L + k] = p[L] => n <= k
    BY <1>11
<1>14. \A x, y \in 0..(n - 1) : p[L + x] = p[L + y] => x = y
  <2>1. Returns(p, L, n)
      BY <1>12 DEF Returns
  <2> QED BY <1>0, <1>10, <2>1, TrailIsSimple
<1> DEFINE c == [k \in 0..n |-> p[L + k]]
           e == [k \in 0..(n - 1) |-> via[p[L + k]]]
<1>15. \A k \in 0..n : L + k \in 0..(2 * L) /\ p[L + k] \in G
    BY <1>0, <1>10, <1>12 DEF Follows
<1>16. c \in [0..n -> A] /\ c[n] = c[0]
  <2>1. \A k \in 0..n : p[L + k] \in A
      BY <1>5, <1>15
  <2>2. c[n] = p[L + n] /\ c[0] = p[L]
      BY <1>0, <1>12
  <2> QED BY <1>12, <2>1, <2>2
<1>17. \A x, y \in 0..(n - 1) : c[x] = c[y] => x = y
    BY <1>12, <1>14
<1>18. e \in [0..(n - 1) -> Live(arcs)]
    BY <1>4, <1>12, <1>15
<1>19. \A k \in 0..(n - 1) : e[k].to = c[k] /\ e[k].from = c[k + 1]
  <2> TAKE k \in 0..(n - 1)
  <2>1. k \in 0..n /\ k + 1 \in 0..n /\ L + (k + 1) \in 1..(2 * L) /\ L + (k + 1) - 1 = L + k
      BY <1>0, <1>12
  <2> DEFINE x == L + (k + 1)
  <2>2. p[x] = via[p[L + k]].from
    <3>1. x \in 1..(2 * L) /\ x - 1 = L + k
        BY <1>0, <2>1
    <3> HIDE DEF x
    <3> QED BY <1>2, <3>1
  <2>3. e[k] = via[p[L + k]] /\ c[k] = p[L + k] /\ c[k + 1] = p[L + (k + 1)]
      BY <2>1
  <2>4. via[p[L + k]].to = p[L + k]
      BY <1>4, <1>15, <2>1
  <2> QED BY <2>2, <2>3, <2>4
<1>20. CycleOf(s) = {e[k] : k \in 0..(n - 1)}
  <2>1. \A k \in 0..(n - 1) : e[k] = via[p[L + k]]
      OBVIOUS
  <2> HIDE DEF e, c
  <2> QED BY <1>3, <2>1
<1>21. n \in Nat \ {0}
    BY <1>0, <1>12
<1> HIDE DEF c, e
<1>22. IsCycle(CycleOf(s), n, c, e, A, arcs)
    BY <1>16, <1>17, <1>18, <1>19, <1>20, <1>21 DEF IsCycle
<1> QED BY <1>22 DEF s, f, L, A

-----------------------------------------------------------------------------
(* The residual graph.                                                     *)

\* The intents and the lots that a folding accepts.
CellIs ==
    /\ Len(cell.lots) \in Nat /\ Len(cell.lots) >= 1 /\ DOMAIN cell.lots = 1..Len(cell.lots)
    /\ \A a \in DOMAIN cell.lots : cell.lots[a] \in Nat \ {0}
    /\ Len(cell.orders) \in Nat /\ DOMAIN cell.orders = 1..Len(cell.orders)
    /\ \A i \in DOMAIN cell.orders : /\ FlowFields(cell.orders[i], DOMAIN cell.lots)
                                     /\ cell.orders[i].amount > 0
                                     /\ cell.orders[i].sell # cell.orders[i].buy
    /\ \A i, j \in DOMAIN cell.orders :
         i # j => cell.orders[i].owner # cell.orders[j].owner \/ cell.orders[i].nonce # cell.orders[j].nonce

SoldIn(a) == {i \in Orders : Sold(i) = a}
WantedIn(a) == {i \in Orders : Wanted(i) = a}

\* f is a circulation within the limits.
Crossing(f) ==
    /\ f \in [Orders -> Nat]
    /\ \A i \in Orders : f[i] <= Capacity(i)
    /\ \A a \in DOMAIN cell.lots : SumIn(f, SoldIn(a)) = SumIn(f, WantedIn(a))

\* What the intents are.
LEMMA OrderIs ==
    ASSUME CellIs, NEW i \in Orders
    PROVE  /\ Sold(i) \in DOMAIN cell.lots /\ Wanted(i) \in DOMAIN cell.lots /\ Sold(i) # Wanted(i)
           /\ Lot(Sold(i)) \in Nat \ {0} /\ Lot(Wanted(i)) \in Nat \ {0}
           /\ cell.orders[i].amount \in Nat \ {0} /\ cell.orders[i].least \in Nat
           /\ cell.orders[i].owner \in Nat /\ cell.orders[i].nonce \in Nat
BY SMTT(20) DEF CellIs, Orders, Sold, Wanted, Lot, FlowFields

\* There are finitely many of them.
LEMMA OrdersAreFinite ==
    ASSUME CellIs
    PROVE  IsFiniteSet(Orders) /\ \A S \in SUBSET Orders : IsFiniteSet(S)
<1>1. IsFiniteSet(1..Len(cell.orders))
  <2>1. Len(cell.orders) \in Int /\ 1 \in Int
      BY DEF CellIs
  <2> QED BY <2>1, FS_Interval
<1>2. IsFiniteSet(Orders)
    BY <1>1 DEF CellIs, Orders
<1> QED BY <1>2, FS_Subset

\* What may cross is within the amount, and keeps the limit.  (Capacity)
LEMMA CapacityIs ==
    ASSUME CellIs, NEW i \in Orders
    PROVE  /\ Capacity(i) \in Nat /\ Capacity(i) * Lot(Sold(i)) <= cell.orders[i].amount
           /\ Capacity(i) > 0 =>
                Lot(Wanted(i)) * cell.orders[i].amount >= Lot(Sold(i)) * cell.orders[i].least
<1> DEFINE o == cell.orders[i]
           x == o.amount
           d == Lot(o.sell)
<1>1. x \in Nat /\ d \in Nat \ {0} /\ Sold(i) = o.sell /\ Wanted(i) = o.buy
    BY OrderIs DEF Sold, Wanted
<1>2. x \div d \in Nat /\ (x \div d) * d <= x
  <2> HIDE DEF x, d
  <2> QED BY <1>1, QuotientIs
<1>3. CASE Lot(o.buy) * o.amount >= d * o.least
  <2>1. Capacity(i) = x \div d
      BY <1>3 DEF Capacity
  <2> QED BY <1>1, <1>2, <1>3, <2>1
<1>4. CASE ~(Lot(o.buy) * o.amount >= d * o.least)
  <2>1. Capacity(i) = 0
      BY <1>4 DEF Capacity
  <2>2. 0 * d <= x
    <3> HIDE DEF x, d
    <3> QED BY <1>1
  <2> QED BY <1>1, <2>1, <2>2
<1> QED BY <1>3, <1>4

\* The residual graph has both arcs of every intent, and no other.  (Arcs)
LEMMA ArcsAre ==
    ASSUME CellIs
    PROVE  /\ Len(Arcs) = 2 * Len(cell.orders)
           /\ \A k \in 1..Len(Arcs) : \E i \in Orders : \E b \in BOOLEAN : Arcs[k] = Arc(i, b)
           /\ \A i \in Orders : \A b \in BOOLEAN : \E k \in 1..Len(Arcs) : Arcs[k] = Arc(i, b)
<1> DEFINE n == Len(cell.orders)
<1>1. n \in Nat /\ Orders = 1..n
    BY DEF CellIs, Orders
<1>2. \A k \in 1..(2 * n) : Arcs[k] = Arc((k + 1) \div 2, k % 2 = 0)
    BY DEF Arcs
<1>3. Len(Arcs) = 2 * n
    BY <1>1 DEF Arcs
<1> HIDE DEF n
<1>4. ASSUME NEW k \in 1..(2 * n) PROVE \E i \in Orders : \E b \in BOOLEAN : Arcs[k] = Arc(i, b)
  <2>1. (k + 1) \div 2 \in 1..n
      BY <1>1
  <2>2. (k % 2 = 0) \in BOOLEAN
      OBVIOUS
  <2> QED BY <1>1, <1>2, <2>1, <2>2
<1>5. ASSUME NEW i \in Orders, NEW b \in BOOLEAN PROVE \E k \in 1..(2 * n) : Arcs[k] = Arc(i, b)
  <2> DEFINE k == IF b THEN 2 * i ELSE 2 * i - 1
  <2>1. CASE b
    <3>1. k = 2 * i /\ k \in 1..(2 * n) /\ (k + 1) \div 2 = i /\ k % 2 = 0
        BY <1>1, <2>1
    <3>2. b = TRUE
        BY <2>1
    <3> HIDE DEF k
    <3>3. Arcs[k] = Arc(i, TRUE)
        BY <1>2, <3>1
    <3> QED BY <3>1, <3>2, <3>3
  <2>2. CASE ~b
    <3>1. k = 2 * i - 1 /\ k \in 1..(2 * n) /\ (k + 1) \div 2 = i /\ k % 2 # 0
        BY <1>1, <2>2
    <3>2. b = FALSE
        BY <2>2
    <3> HIDE DEF k
    <3>3. Arcs[k] = Arc(i, FALSE)
        BY <1>2, <3>1
    <3> QED BY <3>1, <3>2, <3>3
  <2> QED BY <2>1, <2>2
<1> QED BY <1>3, <1>4, <1>5 DEF n

\* What an arc is.  (Arc)
LEMMA ArcIs ==
    ASSUME CellIs, Crossing(flow), NEW i \in Orders, NEW b \in BOOLEAN
    PROVE  /\ GoodArc(DOMAIN cell.lots, Arc(i, b))
           /\ Arc(i, b).order = i /\ Arc(i, b).back = b
           /\ Arc(i, b).cost \in {-1, 1}
<1>1. /\ Sold(i) \in DOMAIN cell.lots /\ Wanted(i) \in DOMAIN cell.lots
      /\ Capacity(i) \in Nat /\ flow[i] \in Nat /\ flow[i] <= Capacity(i)
    BY OrderIs, CapacityIs DEF Crossing
<1>2. CASE b
    BY <1>1, <1>2 DEF Arc, GoodArc
<1>3. CASE ~b
    BY <1>1, <1>3 DEF Arc, GoodArc
<1> QED BY <1>2, <1>3

\* All arcs are good.
LEMMA GoodResidual ==
    ASSUME CellIs, Crossing(flow)
    PROVE  GoodArcs(DOMAIN cell.lots, Arcs)
<1>1. Len(Arcs) \in Nat
    BY ArcsAre DEF CellIs
<1>2. ASSUME NEW k \in 1..Len(Arcs) PROVE GoodArc(DOMAIN cell.lots, Arcs[k])
  <2>1. PICK i \in Orders, b \in BOOLEAN : Arcs[k] = Arc(i, b)
      BY ArcsAre
  <2>2. GoodArc(DOMAIN cell.lots, Arc(i, b))
      BY ArcIs
  <2> QED BY <2>1, <2>2
<1> QED BY <1>1, <1>2 DEF GoodArcs

\* One intent crosses x lots more: what is sold and what is wanted grow by as much.
LEMMA OneCrossesMore ==
    ASSUME CellIs, NEW f \in [Orders -> Int], NEW g \in [Orders -> Int], NEW i \in Orders,
           NEW x \in Int, g[i] = f[i] + x, \A j \in Orders \ {i} : g[j] = f[j],
           NEW a \in DOMAIN cell.lots
    PROVE  /\ SumIn(g, SoldIn(a)) = SumIn(f, SoldIn(a)) + (IF Sold(i) = a THEN x ELSE 0)
           /\ SumIn(g, WantedIn(a)) = SumIn(f, WantedIn(a)) + (IF Wanted(i) = a THEN x ELSE 0)
           /\ SumIn(f, SoldIn(a)) \in Int /\ SumIn(f, WantedIn(a)) \in Int
<1>1. ASSUME NEW S \in SUBSET Orders
      PROVE  /\ SumIn(g, S) = SumIn(f, S) + (IF i \in S THEN x ELSE 0)
             /\ SumIn(f, S) \in Int
  <2>1. IsFiniteSet(S) /\ \A j \in S : f[j] \in Int /\ g[j] \in Int
      BY OrdersAreFinite
  <2>2. SumIn(f, S) \in Int
      BY <2>1, SumOfIntegers
  <2>3. CASE i \in S
    <3>1. \A j \in S \ {i} : g[j] = f[j]
        OBVIOUS
    <3>2. SumIn(g, S) = SumIn(f, S) + x
        BY <2>1, <2>3, <3>1, SumWithMore
    <3> QED BY <2>2, <2>3, <3>2
  <2>4. CASE i \notin S
    <3>1. \A j \in S : g[j] = f[j]
        BY <2>4
    <3>2. SumIn(g, S) = SumIn(f, S)
        BY <2>1, <3>1, SumOfSame
    <3> QED BY <2>2, <2>4, <3>2
  <2> QED BY <2>3, <2>4
<1>2. SoldIn(a) \in SUBSET Orders /\ (i \in SoldIn(a) <=> Sold(i) = a)
    BY DEF SoldIn
<1>3. WantedIn(a) \in SUBSET Orders /\ (i \in WantedIn(a) <=> Wanted(i) = a)
    BY DEF WantedIn
<1>4. SumIn(g, SoldIn(a)) = SumIn(f, SoldIn(a)) + (IF Sold(i) = a THEN x ELSE 0) /\ SumIn(f, SoldIn(a)) \in Int
    BY <1>1, <1>2
<1>5. SumIn(g, WantedIn(a)) = SumIn(f, WantedIn(a)) + (IF Wanted(i) = a THEN x ELSE 0) /\ SumIn(f, WantedIn(a)) \in Int
    BY <1>1, <1>3
<1> QED BY <1>4, <1>5

-----------------------------------------------------------------------------
(* An improvement.                                                         *)

\* What the arcs of C add to an intent.  (Push)
OnArc(C, d, i, b) == IF \E x \in C : x.order = i /\ x.back = b THEN d ELSE 0

\* A cycle of live arcs, pushed as far as the tightest one permits, keeps the
\* circulation within the limits.  (Push)
LEMMA PushKeeps ==
    ASSUME CellIs, Crossing(flow), NEW C, NEW n, NEW c, NEW e,
           IsCycle(C, n, c, e, DOMAIN cell.lots, Arcs),
           NEW d, d = Min({x.cap : x \in C})
    PROVE  Crossing([i \in Orders |-> flow[i] + OnArc(C, d, i, FALSE) - OnArc(C, d, i, TRUE)])
<1> DEFINE A == DOMAIN cell.lots
           Came(k, i, b) == IF \E j \in 0..(k - 1) : e[j].order = i /\ e[j].back = b THEN d ELSE 0
           F(k) == [i \in Orders |-> flow[i] + Came(k, i, FALSE) - Came(k, i, TRUE)]
           At(k, a) == IF c[k] = a THEN d ELSE 0
<1>0. /\ n \in Nat \ {0} /\ c \in [0..n -> A] /\ c[n] = c[0]
      /\ \A x, y \in 0..(n - 1) : c[x] = c[y] => x = y
      /\ e \in [0..(n - 1) -> Live(Arcs)]
      /\ \A k \in 0..(n - 1) : e[k].to = c[k] /\ e[k].from = c[k + 1]
      /\ C = {e[k] : k \in 0..(n - 1)}
    BY DEF IsCycle
<1>1. /\ flow \in [Orders -> Nat] /\ \A i \in Orders : flow[i] <= Capacity(i) /\ Capacity(i) \in Nat
      /\ \A a \in A : SumIn(flow, SoldIn(a)) = SumIn(flow, WantedIn(a))
    BY CapacityIs DEF Crossing
<1>2. \A x \in Live(Arcs) : \E i \in Orders : \E b \in BOOLEAN : x = Arc(i, b) /\ x.cap > 0
    BY ArcsAre DEF Live
<1>3. \A i \in Orders : \A b \in BOOLEAN :
        /\ Arc(i, b).order = i /\ Arc(i, b).back = b /\ Arc(i, b).cap \in Nat
        /\ Arc(i, b).cap = (IF b THEN flow[i] ELSE Capacity(i) - flow[i])
        /\ Arc(i, b).from = (IF b THEN Wanted(i) ELSE Sold(i))
        /\ Arc(i, b).to = (IF b THEN Sold(i) ELSE Wanted(i))
  <2> TAKE i \in Orders, b \in BOOLEAN
  <2>1. Arc(i, b).cap \in Nat
      BY ArcIs DEF GoodArc
  <2> QED BY <2>1 DEF Arc
<1>4. C \in SUBSET Live(Arcs) /\ e[0] \in C
    BY <1>0
<1>5. d \in Nat /\ \A x \in C : d <= x.cap
  <2> DEFINE T == {x.cap : x \in C}
  <2>1. T # {} /\ T \in SUBSET Nat
      BY <1>2, <1>3, <1>4
  <2>2. d = Min(T)
      OBVIOUS
  <2> HIDE DEF T
  <2>3. d \in T /\ \A x \in T : d <= x
      BY <2>1, <2>2, MinIs, ZenonT(40)
  <2>4. d \in Nat
      BY <2>1, <2>3
  <2> QED BY <2>3, <2>4 DEF T
<1> HIDE DEF A
<1>6. \A k \in 0..n : F(k) \in [Orders -> Int]
  <2>1. \A k \in 0..n : \A i \in Orders : Came(k, i, FALSE) \in Int /\ Came(k, i, TRUE) \in Int
      BY <1>5
  <2> HIDE DEF Came
  <2> TAKE k \in 0..n
  <2>2. ASSUME NEW i \in Orders PROVE flow[i] + Came(k, i, FALSE) - Came(k, i, TRUE) \in Int
    <3> DEFINE u == Came(k, i, FALSE)
               v == Came(k, i, TRUE)
    <3>1. flow[i] \in Int /\ u \in Int /\ v \in Int
      <4>1. flow[i] \in Int
          BY <1>1
      <4>2. u \in Int /\ v \in Int
          BY <1>5 DEF Came
      <4> QED BY <4>1, <4>2
    <3> HIDE DEF u, v
    <3>2. flow[i] + u - v \in Int
        BY <3>1
    <3> QED BY <3>2 DEF u, v
  <2> QED BY <2>2
<1>7. ASSUME NEW k \in 1..n
      PROVE  \E i \in Orders, x \in Int :
               /\ F(k)[i] = F(k - 1)[i] + x /\ \A j \in Orders \ {i} : F(k)[j] = F(k - 1)[j]
               /\ \A a \in A : (IF Sold(i) = a THEN x ELSE 0) - (IF Wanted(i) = a THEN x ELSE 0)
                               = At(k, a) - At(k - 1, a)
  <2> DEFINE m == k - 1
  <2>1. m \in 0..(n - 1) /\ k = m + 1 /\ m \in 0..n /\ k \in 0..n
      BY <1>0
  <2> HIDE DEF m
  <2>2. e[m] \in Live(Arcs) /\ e[m].to = c[m] /\ e[m].from = c[k]
      BY <1>0, <2>1
  <2>3. PICK i \in Orders, b \in BOOLEAN : e[m] = Arc(i, b)
      BY <1>2, <2>2
  <2>4. e[m].order = i /\ e[m].back = b
      BY <1>3, <2>3
  <2>5. \A j \in 0..(m - 1) : e[j].order # i \/ e[j].back # b
    <3> SUFFICES ASSUME NEW j \in 0..(m - 1), e[j].order = i, e[j].back = b PROVE FALSE
        OBVIOUS
    <3>1. j \in 0..(n - 1) /\ j # m
        BY <1>0, <2>1
    <3>2. e[j] \in Live(Arcs) /\ e[j].to = c[j]
        BY <1>0, <3>1
    <3>3. PICK u \in Orders, v \in BOOLEAN : e[j] = Arc(u, v)
        BY <1>2, <3>2
    <3>4. u = i /\ v = b
        BY <1>3, <3>3
    <3>5. c[j] = c[m]
        BY <2>2, <2>3, <3>2, <3>3, <3>4
    <3> QED BY <1>0, <2>1, <3>1, <3>5
  <2>6. Came(k, i, b) = d /\ Came(m, i, b) = 0
    <3>1. m \in 0..(k - 1)
        BY <2>1
    <3> QED BY <2>4, <2>5, <3>1
  <2>7. \A j \in Orders : \A v \in BOOLEAN : j # i \/ v # b => Came(k, j, v) = Came(m, j, v)
    <3> TAKE j \in Orders, v \in BOOLEAN
    <3> HAVE j # i \/ v # b
    <3>1. ~(e[m].order = j /\ e[m].back = v)
        BY <2>4
    <3>2. \A x : x \in 0..(k - 1) <=> x = m \/ x \in 0..(m - 1)
        BY <2>1
    <3>3. (\E x \in 0..(k - 1) : e[x].order = j /\ e[x].back = v)
          <=> (\E x \in 0..(m - 1) : e[x].order = j /\ e[x].back = v)
        BY <3>1, <3>2
    <3> QED BY <3>3
  <2> HIDE DEF Came
  <2>8. \A j \in Orders : /\ F(k)[j] = flow[j] + Came(k, j, FALSE) - Came(k, j, TRUE)
                          /\ F(m)[j] = flow[j] + Came(m, j, FALSE) - Came(m, j, TRUE)
      OBVIOUS
  <2> HIDE DEF F
  <2>9. \A j \in Orders \ {i} : F(k)[j] = F(m)[j]
      BY <2>7, <2>8
  <2>10. F(k)[i] \in Int /\ F(m)[i] \in Int /\ flow[i] \in Nat
      BY <1>1, <1>6, <2>1
  <2> DEFINE x == IF b THEN 0 - d ELSE d
  <2>11. F(k)[i] = F(m)[i] + x /\ x \in Int
    <3>1. CASE b = TRUE
      <4>1. Came(k, i, FALSE) = Came(m, i, FALSE) /\ Came(k, i, TRUE) = d /\ Came(m, i, TRUE) = 0
          BY <2>6, <2>7, <3>1
      <4>2. F(k)[i] = flow[i] + Came(m, i, FALSE) - d /\ F(m)[i] = flow[i] + Came(m, i, FALSE) - 0
          BY <2>8, <4>1
      <4>3. Came(m, i, FALSE) \in Int
          BY <1>5 DEF Came
      <4> DEFINE w == Came(m, i, FALSE)
                 p == F(k)[i]
                 q == F(m)[i]
      <4>4. p = flow[i] + w - d /\ q = flow[i] + w - 0 /\ w \in Int /\ flow[i] \in Int
            /\ x = 0 - d /\ d \in Int
        <5>1. x = 0 - d
            BY <3>1
        <5> HIDE DEF x
        <5>2. d \in Int /\ flow[i] \in Int
            BY <1>5, <2>10
        <5> QED BY <4>2, <4>3, <5>1, <5>2, Zenon
      <4> HIDE DEF w, p, q, x
      <4>5. p = q + x /\ x \in Int
          BY <4>4
      <4> QED BY <4>5 DEF p, q
    <3>2. CASE b = FALSE
      <4>1. Came(k, i, TRUE) = Came(m, i, TRUE) /\ Came(k, i, FALSE) = d /\ Came(m, i, FALSE) = 0
          BY <2>6, <2>7, <3>2
      <4>2. F(k)[i] = flow[i] + d - Came(m, i, TRUE) /\ F(m)[i] = flow[i] + 0 - Came(m, i, TRUE)
          BY <2>8, <4>1
      <4>3. Came(m, i, TRUE) \in Int
          BY <1>5 DEF Came
      <4> DEFINE w == Came(m, i, TRUE)
                 p == F(k)[i]
                 q == F(m)[i]
      <4>4. p = flow[i] + d - w /\ q = flow[i] + 0 - w /\ w \in Int /\ flow[i] \in Int
            /\ x = d /\ d \in Int
        <5>1. x = d
            BY <3>2
        <5> HIDE DEF x
        <5>2. d \in Int /\ flow[i] \in Int
            BY <1>5, <2>10
        <5> QED BY <4>2, <4>3, <5>1, <5>2, Zenon
      <4> HIDE DEF w, p, q, x
      <4>5. p = q + x /\ x \in Int
          BY <4>4
      <4> QED BY <4>5 DEF p, q
    <3> QED BY <3>1, <3>2
  <2>12. ASSUME NEW a \in A
         PROVE  (IF Sold(i) = a THEN x ELSE 0) - (IF Wanted(i) = a THEN x ELSE 0) = At(k, a) - At(m, a)
    <3>1. CASE b = TRUE
      <4>1. c[m] = Sold(i) /\ c[k] = Wanted(i)
          BY <1>3, <2>2, <2>3, <3>1
      <4> QED BY <1>5, <3>1, <4>1
    <3>2. CASE b = FALSE
      <4>1. c[m] = Wanted(i) /\ c[k] = Sold(i)
          BY <1>3, <2>2, <2>3, <3>2
      <4> QED BY <1>5, <3>2, <4>1
    <3> QED BY <3>1, <3>2
  <2> HIDE DEF x, At
  <2>13. k - 1 = m
      BY <2>1
  <2> QED BY <2>9, <2>11, <2>12, <2>13
<1> DEFINE P == {k \in 0..n : \A a \in A : SumIn(F(k), SoldIn(a)) - SumIn(F(k), WantedIn(a)) = At(k, a) - At(0, a)}
<1>8. 0 \in P
  <2>1. \A i \in Orders : \A b \in BOOLEAN : Came(0, i, b) = 0
      OBVIOUS
  <2> HIDE DEF Came
  <2>2. \A i \in Orders : F(0)[i] = flow[i]
    <3> TAKE i \in Orders
    <3> DEFINE u == Came(0, i, FALSE)
               v == Came(0, i, TRUE)
               z == F(0)[i]
    <3>1. u = 0 /\ v = 0
        BY <2>1
    <3>2. flow[i] \in Int
        BY <1>1
    <3>3. z = flow[i] + u - v
        OBVIOUS
    <3> HIDE DEF u, v, z
    <3>4. z = flow[i]
        BY <3>1, <3>2, <3>3
    <3> QED BY <3>4 DEF z
  <2>3. ASSUME NEW a \in A
        PROVE  SumIn(F(0), SoldIn(a)) - SumIn(F(0), WantedIn(a)) = At(0, a) - At(0, a)
    <3>1. SoldIn(a) \in SUBSET Orders /\ WantedIn(a) \in SUBSET Orders
        BY DEF SoldIn, WantedIn
    <3>2. IsFiniteSet(SoldIn(a)) /\ IsFiniteSet(WantedIn(a))
        BY <3>1, OrdersAreFinite
    <3> HIDE DEF F
    <3>3. \A i \in SoldIn(a) : F(0)[i] = flow[i] /\ flow[i] \in Int
        BY <1>1, <2>2, <3>1
    <3>4. \A i \in WantedIn(a) : F(0)[i] = flow[i] /\ flow[i] \in Int
        BY <1>1, <2>2, <3>1
    <3>5. SumIn(F(0), SoldIn(a)) = SumIn(flow, SoldIn(a)) /\ SumIn(flow, SoldIn(a)) \in Int
        BY <3>2, <3>3, SumOfSame, SumOfIntegers
    <3>6. SumIn(F(0), WantedIn(a)) = SumIn(flow, WantedIn(a))
        BY <3>2, <3>4, SumOfSame
    <3>7. At(0, a) \in Int
        BY <1>5
    <3> HIDE DEF At
    <3> QED BY <1>1, <3>5, <3>6, <3>7
  <2>4. 0 \in 0..n
      BY <1>0
  <2> HIDE DEF F, At
  <2> QED BY <2>3, <2>4
<1> HIDE DEF F
<1>9. ASSUME NEW k \in 1..n, k - 1 \in P PROVE k \in P
  <2>0. k \in 0..n /\ k - 1 \in 0..n
      BY <1>0
  <2>1. PICK i \in Orders, x \in Int :
               /\ F(k)[i] = F(k - 1)[i] + x /\ \A j \in Orders \ {i} : F(k)[j] = F(k - 1)[j]
               /\ \A a \in A : (IF Sold(i) = a THEN x ELSE 0) - (IF Wanted(i) = a THEN x ELSE 0)
                               = At(k, a) - At(k - 1, a)
      BY <1>7
  <2> DEFINE f == F(k - 1)
             g == F(k)
  <2>2. f \in [Orders -> Int] /\ g \in [Orders -> Int]
      BY <1>6, <2>0
  <2>3. g[i] = f[i] + x /\ \A j \in Orders \ {i} : g[j] = f[j]
      BY <2>1
  <2>4. ASSUME NEW a \in A PROVE SumIn(g, SoldIn(a)) - SumIn(g, WantedIn(a)) = At(k, a) - At(0, a)
    <3> DEFINE u == IF Sold(i) = a THEN x ELSE 0
               v == IF Wanted(i) = a THEN x ELSE 0
    <3>1. u - v = At(k, a) - At(k - 1, a) /\ u \in Int /\ v \in Int
        BY <2>1
    <3>2. SumIn(f, SoldIn(a)) - SumIn(f, WantedIn(a)) = At(k - 1, a) - At(0, a)
        BY <1>9
    <3>3. At(0, a) \in Int /\ At(k, a) \in Int /\ At(k - 1, a) \in Int
        BY <1>5
    <3> HIDE DEF f, g, At
    <3>4. /\ SumIn(g, SoldIn(a)) = SumIn(f, SoldIn(a)) + u
          /\ SumIn(g, WantedIn(a)) = SumIn(f, WantedIn(a)) + v
          /\ SumIn(f, SoldIn(a)) \in Int /\ SumIn(f, WantedIn(a)) \in Int
        BY <2>2, <2>3, OneCrossesMore DEF A
    <3> DEFINE sg == SumIn(g, SoldIn(a))
               wg == SumIn(g, WantedIn(a))
               sf == SumIn(f, SoldIn(a))
               wf == SumIn(f, WantedIn(a))
               x0 == At(0, a)
               x1 == At(k - 1, a)
               x2 == At(k, a)
    <3>5. /\ u - v = x2 - x1 /\ u \in Int /\ v \in Int /\ x0 \in Int /\ x1 \in Int /\ x2 \in Int
          /\ sf - wf = x1 - x0 /\ sg = sf + u /\ wg = wf + v /\ sf \in Int /\ wf \in Int
        BY <3>1, <3>2, <3>3, <3>4
    <3> HIDE DEF u, v, sg, wg, sf, wf, x0, x1, x2
    <3>7. sg \in Int /\ wg \in Int
        BY <3>5
    <3>8. sg - wg = (sf - wf) + (u - v)
        BY <3>5, <3>7
    <3>6. sg - wg = x2 - x0
        BY <3>5, <3>8
    <3> QED BY <3>6 DEF sg, wg, x2, x0
  <2> QED BY <2>0, <2>4
<1>10. n \in P
  <2>1. P \in SUBSET (0..n) /\ n \in 0..n
      BY <1>0
  <2> HIDE DEF P
  <2> QED BY <1>0, <1>8, <1>9, <2>1, EveryStep
<1>11. ASSUME NEW i \in Orders, NEW b \in BOOLEAN PROVE Came(n, i, b) = OnArc(C, d, i, b)
  <2>1. (\E x \in C : x.order = i /\ x.back = b) <=> \E j \in 0..(n - 1) : e[j].order = i /\ e[j].back = b
      BY <1>0
  <2> QED BY <2>1 DEF OnArc
<1> DEFINE f == [i \in Orders |-> flow[i] + OnArc(C, d, i, FALSE) - OnArc(C, d, i, TRUE)]
<1>12. F(n) = f
    BY <1>11 DEF F
<1>13. ASSUME NEW i \in Orders PROVE f[i] \in Nat /\ f[i] <= Capacity(i)
  <2>0. flow[i] \in Nat /\ Capacity(i) \in Nat /\ flow[i] <= Capacity(i)
      BY <1>1
  <2>1. f[i] = flow[i] + OnArc(C, d, i, FALSE) - OnArc(C, d, i, TRUE)
      OBVIOUS
  <2>2. ASSUME NEW b \in BOOLEAN
        PROVE  OnArc(C, d, i, b) \in Nat /\ OnArc(C, d, i, b) <= IF b THEN flow[i] ELSE Capacity(i) - flow[i]
    <3>1. CASE \E x \in C : x.order = i /\ x.back = b
      <4>1. PICK x \in C : x.order = i /\ x.back = b
          BY <3>1
      <4>2. PICK u \in Orders, v \in BOOLEAN : x = Arc(u, v)
          BY <1>2, <1>4
      <4>3. u = i /\ v = b
          BY <1>3, <4>1, <4>2
      <4>4. d <= (IF b THEN flow[i] ELSE Capacity(i) - flow[i])
          BY <1>3, <1>5, <4>1, <4>2, <4>3
      <4>5. OnArc(C, d, i, b) = d
          BY <3>1 DEF OnArc
      <4> QED BY <1>5, <4>4, <4>5
    <3>2. CASE ~(\E x \in C : x.order = i /\ x.back = b)
      <4>1. OnArc(C, d, i, b) = 0
          BY <3>2 DEF OnArc
      <4> QED BY <2>0, <4>1
    <3> QED BY <3>1, <3>2
  <2>3. /\ OnArc(C, d, i, FALSE) \in Nat /\ OnArc(C, d, i, FALSE) <= Capacity(i) - flow[i]
        /\ OnArc(C, d, i, TRUE) \in Nat /\ OnArc(C, d, i, TRUE) <= flow[i]
      BY <2>2
  <2> DEFINE u == OnArc(C, d, i, FALSE)
             v == OnArc(C, d, i, TRUE)
             z == f[i]
  <2>4. z = flow[i] + u - v /\ u \in Nat /\ v \in Nat /\ u <= Capacity(i) - flow[i] /\ v <= flow[i]
      BY <2>1, <2>3
  <2> HIDE DEF u, v, z
  <2>5. z \in Nat /\ z <= Capacity(i)
      BY <2>0, <2>4
  <2> QED BY <2>5 DEF z
<1>14. \A a \in A : SumIn(f, SoldIn(a)) = SumIn(f, WantedIn(a))
  <2> TAKE a \in A
  <2>1. SumIn(F(n), SoldIn(a)) - SumIn(F(n), WantedIn(a)) = At(n, a) - At(0, a)
      BY <1>10
  <2>2. At(n, a) = At(0, a) /\ At(0, a) \in Int
      BY <1>0, <1>5
  <2>3. SumIn(F(n), SoldIn(a)) \in Int /\ SumIn(F(n), WantedIn(a)) \in Int
    <3>1. n \in 0..n
        BY <1>0
    <3>2. F(n) \in [Orders -> Int]
        BY <1>6, <3>1
    <3>3. SoldIn(a) \in SUBSET Orders /\ WantedIn(a) \in SUBSET Orders
        BY DEF SoldIn, WantedIn
    <3>4. IsFiniteSet(SoldIn(a)) /\ IsFiniteSet(WantedIn(a))
        BY <3>3, OrdersAreFinite
    <3>5. (\A i \in SoldIn(a) : F(n)[i] \in Int) /\ \A i \in WantedIn(a) : F(n)[i] \in Int
        BY <3>2, <3>3
    <3> QED BY <3>4, <3>5, SumOfIntegers
  <2> HIDE DEF At
  <2>4. SumIn(F(n), SoldIn(a)) = SumIn(F(n), WantedIn(a))
      BY <2>1, <2>2, <2>3
  <2> HIDE DEF f
  <2> QED BY <1>12, <2>4
<1>15. f \in [Orders -> Nat]
    BY <1>13
<1> HIDE DEF f
<1>16. Crossing(f)
    BY <1>13, <1>14, <1>15 DEF Crossing, A
<1> QED BY <1>16 DEF f

-----------------------------------------------------------------------------
(* Nothing better.                                                         *)

\* The search that finds no cycle leaves distances that no live arc improves.
LEMMA NoCycleNoGain ==
    ASSUME CellIs, Crossing(flow), ImprovingCycle = {}
    PROVE  \E y \in [DOMAIN cell.lots -> Int] : \A i \in Orders :
             /\ flow[i] < Capacity(i) => y[Sold(i)] + 1 <= y[Wanted(i)]
             /\ flow[i] > 0 => y[Wanted(i)] - 1 <= y[Sold(i)]
<1> DEFINE L == Len(cell.lots)
           A == DOMAIN cell.lots
           s == Sweeps(Arcs)[L]
           y == s.far
<1>1. L \in Nat /\ L >= 1 /\ A = 1..L
    BY DEF CellIs
<1>2. GoodArcs(A, Arcs)
    BY GoodResidual
<1>3. CycleOf(s) = {}
    BY DEF ImprovingCycle
<1>4. s.last = 0
  <2> SUFFICES ASSUME s.last # 0 PROVE FALSE
      OBVIOUS
  <2>1. PICK n, c, e : IsCycle(CycleOf(s), n, c, e, A, Arcs)
      BY <1>1, <1>2, CycleFound
  <2>2. n \in Nat \ {0} /\ CycleOf(s) = {e[k] : k \in 0..(n - 1)}
      BY <2>1 DEF IsCycle
  <2>3. 0 \in 0..(n - 1)
      BY <2>2
  <2> QED BY <1>3, <2>2, <2>3
<1>5. /\ y \in [A -> Int]
      /\ \A j \in 1..Len(Arcs) : Arcs[j].cap > 0 => y[Arcs[j].from] + Arcs[j].cost <= y[Arcs[j].to]
    BY <1>1, <1>2, <1>4, NothingIsFarther
<1> HIDE DEF y, A
<1>6. ASSUME NEW i \in Orders, NEW b \in BOOLEAN, Arc(i, b).cap > 0
      PROVE  y[Arc(i, b).from] + Arc(i, b).cost <= y[Arc(i, b).to]
  <2>1. PICK j \in 1..Len(Arcs) : Arcs[j] = Arc(i, b)
      BY ArcsAre
  <2> QED BY <1>5, <1>6, <2>1
<1>7. ASSUME NEW i \in Orders
      PROVE  /\ flow[i] < Capacity(i) => y[Sold(i)] + 1 <= y[Wanted(i)]
             /\ flow[i] > 0 => y[Wanted(i)] - 1 <= y[Sold(i)]
  <2>0. flow[i] \in Nat /\ Capacity(i) \in Nat /\ Sold(i) \in A /\ Wanted(i) \in A
      BY CapacityIs, OrderIs DEF Crossing, A
  <2>1. ASSUME flow[i] < Capacity(i) PROVE y[Sold(i)] + 1 <= y[Wanted(i)]
    <3>1. /\ Arc(i, FALSE).cap = Capacity(i) - flow[i] /\ Arc(i, FALSE).cost = 1
          /\ Arc(i, FALSE).from = Sold(i) /\ Arc(i, FALSE).to = Wanted(i)
        BY DEF Arc
    <3>2. Arc(i, FALSE).cap > 0
      <4>1. Capacity(i) - flow[i] > 0
          BY <2>0, <2>1
      <4> QED BY <3>1, <4>1, Zenon
    <3> QED BY <1>6, <3>1, <3>2
  <2>2. ASSUME flow[i] > 0 PROVE y[Wanted(i)] - 1 <= y[Sold(i)]
    <3>1. /\ Arc(i, TRUE).cap = flow[i] /\ Arc(i, TRUE).cost = -1
          /\ Arc(i, TRUE).from = Wanted(i) /\ Arc(i, TRUE).to = Sold(i)
        BY DEF Arc
    <3>2. Arc(i, TRUE).cap > 0
        BY <2>2, <3>1
    <3>3. y[Wanted(i)] + (-1) <= y[Sold(i)]
        BY <1>6, <3>1, <3>2
    <3>4. y[Wanted(i)] \in Int /\ y[Sold(i)] \in Int
        BY <1>5, <2>0
    <3> QED BY <3>3, <3>4
  <2> QED BY <2>1, <2>2
<1> QED BY <1>5, <1>7 DEF A

\* Then no circulation within the limits crosses more lots: what it crosses
\* more on one intent gains nothing by these distances, and over a circulation
\* the distances add up to nothing.
LEMMA NothingBetter ==
    ASSUME CellIs, Crossing(flow), ImprovingCycle = {}, NEW g, Crossing(g)
    PROVE  SumIn(g, Orders) <= SumIn(flow, Orders)
<1> DEFINE A == DOMAIN cell.lots
<1>1. PICK y \in [A -> Int] : \A i \in Orders :
             /\ flow[i] < Capacity(i) => y[Sold(i)] + 1 <= y[Wanted(i)]
             /\ flow[i] > 0 => y[Wanted(i)] - 1 <= y[Sold(i)]
    BY NoCycleNoGain
<1>2. /\ \A i \in Orders : /\ flow[i] \in Nat /\ g[i] \in Nat /\ g[i] <= Capacity(i)
                           /\ Capacity(i) \in Nat
                           /\ Sold(i) \in A /\ Wanted(i) \in A
      /\ \A a \in A : /\ SumIn(g, SoldIn(a)) = SumIn(g, WantedIn(a))
                      /\ SumIn(flow, SoldIn(a)) = SumIn(flow, WantedIn(a))
    BY CapacityIs, OrderIs DEF Crossing
<1>3. IsFiniteSet(Orders) /\ IsFiniteSet(A)
  <2>1. Len(cell.lots) \in Int /\ 1 \in Int /\ A = 1..Len(cell.lots)
      BY DEF CellIs
  <2>2. IsFiniteSet(A)
      BY <2>1, FS_Interval
  <2> QED BY <2>2, OrdersAreFinite
<1>4. ASSUME NEW a \in A
      PROVE  /\ SoldIn(a) \in SUBSET Orders /\ IsFiniteSet(SoldIn(a))
             /\ WantedIn(a) \in SUBSET Orders /\ IsFiniteSet(WantedIn(a))
  <2>1. SoldIn(a) \in SUBSET Orders /\ WantedIn(a) \in SUBSET Orders
      BY DEF SoldIn, WantedIn
  <2> QED BY <2>1, OrdersAreFinite
<1> HIDE DEF A
<1> DEFINE D == [i \in Orders |-> g[i] - flow[i]]
           U == [i \in Orders |-> D[i] * y[Sold(i)]]
           V == [i \in Orders |-> D[i] * y[Wanted(i)]]
           W == [i \in Orders |-> D[i] + U[i]]
           ss == [i \in Orders |-> Sold(i)]
           ww == [i \in Orders |-> Wanted(i)]
           R == [a \in A |-> SumIn(U, SoldIn(a))]
<1>5. \A i \in Orders : D[i] = g[i] - flow[i] /\ D[i] \in Int
    BY <1>2
<1>6. \A i \in Orders : /\ y[Sold(i)] \in Int /\ y[Wanted(i)] \in Int
                        /\ U[i] = D[i] * y[Sold(i)] /\ V[i] = D[i] * y[Wanted(i)]
  <2> HIDE DEF D
  <2> QED BY <1>1, <1>2
<1>7. \A i \in Orders : U[i] \in Int /\ V[i] \in Int /\ W[i] = D[i] + U[i] /\ W[i] \in Int
  <2> TAKE i \in Orders
  <2> DEFINE d == D[i]
             p == y[Sold(i)]
             q == y[Wanted(i)]
  <2>1. d \in Int /\ p \in Int /\ q \in Int /\ U[i] = d * p /\ V[i] = d * q
      BY <1>5, <1>6
  <2>2. W[i] = D[i] + U[i]
      OBVIOUS
  <2> HIDE DEF d, p, q, U, V, W
  <2>3. d * p \in Int /\ d * q \in Int
      BY <2>1
  <2> QED BY <2>1, <2>2, <2>3 DEF d
<1> HIDE DEF D, U, V, W
<1>8. ASSUME NEW a \in A
      PROVE  SumIn(D, SoldIn(a)) = SumIn(D, WantedIn(a)) /\ SumIn(D, SoldIn(a)) \in Int
  <2>1. ASSUME NEW S \in SUBSET Orders, IsFiniteSet(S)
        PROVE  SumIn(g, S) = SumIn(D, S) + SumIn(flow, S) /\ SumIn(D, S) \in Int /\ SumIn(flow, S) \in Int
    <3>1. \A i \in S : D[i] \in Int /\ flow[i] \in Int /\ g[i] = D[i] + flow[i]
        BY <1>2, <1>5
    <3>2. SumIn(g, S) = SumIn(D, S) + SumIn(flow, S)
        BY <2>1, <3>1, SumAdded
    <3> QED BY <2>1, <3>1, <3>2, SumOfIntegers
  <2>2. SumIn(g, SoldIn(a)) = SumIn(D, SoldIn(a)) + SumIn(flow, SoldIn(a)) /\ SumIn(D, SoldIn(a)) \in Int
        /\ SumIn(flow, SoldIn(a)) \in Int
      BY <1>4, <2>1
  <2>3. SumIn(g, WantedIn(a)) = SumIn(D, WantedIn(a)) + SumIn(flow, WantedIn(a)) /\ SumIn(D, WantedIn(a)) \in Int
        /\ SumIn(flow, WantedIn(a)) \in Int
      BY <1>4, <2>1
  <2> DEFINE gs == SumIn(g, SoldIn(a))
             ds == SumIn(D, SoldIn(a))
             fs == SumIn(flow, SoldIn(a))
             gw == SumIn(g, WantedIn(a))
             dw == SumIn(D, WantedIn(a))
             fw == SumIn(flow, WantedIn(a))
  <2>4. gs = ds + fs /\ gw = dw + fw /\ gs = gw /\ fs = fw /\ ds \in Int /\ dw \in Int /\ fs \in Int
      BY <1>2, <2>2, <2>3
  <2> HIDE DEF gs, ds, fs, gw, dw, fw
  <2>5. ds = dw /\ ds \in Int
      BY <2>4
  <2> QED BY <2>5 DEF ds, dw
<1>9. ASSUME NEW a \in A
      PROVE  SumIn(U, SoldIn(a)) = SumIn(V, WantedIn(a))
  <2>1. y[a] \in Int
      BY <1>1
  <2>2. \A i \in SoldIn(a) : D[i] \in Int /\ U[i] = y[a] * D[i]
    <3> TAKE i \in SoldIn(a)
    <3>1. i \in Orders /\ Sold(i) = a
        BY DEF SoldIn
    <3>2. D[i] \in Int /\ U[i] = D[i] * y[a]
        BY <1>5, <1>6, <3>1
    <3> QED BY <2>1, <3>2
  <2>3. \A i \in WantedIn(a) : D[i] \in Int /\ V[i] = y[a] * D[i]
    <3> TAKE i \in WantedIn(a)
    <3>1. i \in Orders /\ Wanted(i) = a
        BY DEF WantedIn
    <3>2. D[i] \in Int /\ V[i] = D[i] * y[a]
        BY <1>5, <1>6, <3>1
    <3> QED BY <2>1, <3>2
  <2>4. SumIn(U, SoldIn(a)) = y[a] * SumIn(D, SoldIn(a))
      BY <1>4, <2>1, <2>2, SumScaled
  <2>5. SumIn(V, WantedIn(a)) = y[a] * SumIn(D, WantedIn(a))
      BY <1>4, <2>1, <2>3, SumScaled
  <2> QED BY <1>8, <2>4, <2>5
<1>10. SumIn(U, Orders) = SumIn(R, A)
  <2>1. \A i \in Orders : ss[i] \in A /\ U[i] \in Int
      BY <1>2, <1>7
  <2>2. ASSUME NEW a \in A PROVE R[a] = SumIn(U, FiberOf(ss, Orders, a))
    <3>1. FiberOf(ss, Orders, a) = SoldIn(a)
        BY DEF FiberOf, SoldIn
    <3> QED BY <3>1
  <2> HIDE DEF ss, R
  <2> QED BY <1>3, <2>1, <2>2, SumByFiber
<1>11. SumIn(V, Orders) = SumIn(R, A)
  <2>1. \A i \in Orders : ww[i] \in A /\ V[i] \in Int
      BY <1>2, <1>7
  <2>2. ASSUME NEW a \in A PROVE R[a] = SumIn(V, FiberOf(ww, Orders, a))
    <3>1. FiberOf(ww, Orders, a) = WantedIn(a)
        BY DEF FiberOf, WantedIn
    <3>2. R[a] = SumIn(V, WantedIn(a))
        BY <1>9
    <3> QED BY <3>1, <3>2
  <2> HIDE DEF ww, R
  <2> QED BY <1>3, <2>1, <2>2, SumByFiber
<1>12. ASSUME NEW i \in Orders PROVE W[i] <= V[i]
  <2> DEFINE d == D[i]
             p == y[Sold(i)]
             q == y[Wanted(i)]
  <2>1. d \in Int /\ p \in Int /\ q \in Int /\ W[i] = d + d * p /\ V[i] = d * q
      BY <1>5, <1>6, <1>7
  <2>2. d > 0 => p + 1 <= q
    <3>1. SUFFICES ASSUME d > 0 PROVE flow[i] < Capacity(i)
        BY <1>1
    <3>2. flow[i] < g[i]
        BY <1>2, <1>5, <3>1
    <3> QED BY <1>2, <3>2
  <2>3. d < 0 => q - 1 <= p
    <3>1. SUFFICES ASSUME d < 0 PROVE flow[i] > 0
        BY <1>1
    <3> QED BY <1>2, <1>5, <3>1
  <2> HIDE DEF d, p, q
  <2>4. d + d * p <= d * q
      BY <2>1, <2>2, <2>3, NoGain
  <2> QED BY <2>1, <2>4
<1>13. SumIn(W, Orders) <= SumIn(V, Orders)
    BY <1>3, <1>7, <1>12, SumAtMost
<1>14. SumIn(W, Orders) = SumIn(D, Orders) + SumIn(U, Orders)
    BY <1>3, <1>5, <1>7, SumAdded
<1>15. SumIn(D, Orders) \in Int /\ SumIn(U, Orders) \in Int /\ SumIn(flow, Orders) \in Int
  <2>1. \A i \in Orders : D[i] \in Int /\ U[i] \in Int /\ flow[i] \in Int
      BY <1>2, <1>5, <1>7
  <2> QED BY <1>3, <2>1, SumOfIntegers
<1>16. SumIn(g, Orders) = SumIn(D, Orders) + SumIn(flow, Orders)
  <2>1. \A i \in Orders : D[i] \in Int /\ flow[i] \in Int /\ g[i] = D[i] + flow[i]
      BY <1>2, <1>5
  <2> QED BY <1>3, <2>1, SumAdded
<1> QED BY <1>10, <1>11, <1>13, <1>14, <1>15, <1>16

-----------------------------------------------------------------------------
(* What is left, and what comes back.                                      *)

\* A total is a sum.
LEMMA TotalIs ==
    ASSUME NEW f, NEW S
    PROVE  Total(f, S) = SumIn(f, S)
BY DEF Total, SumIn

\* What an intent has spent and got by crossing is within what it offers, and
\* one that crossed with all it had has got its least.  (Capacity)
LEMMA RestIs ==
    ASSUME CellIs, Crossing(flow), NEW i \in Orders
    PROVE  /\ Spent(i) \in Nat /\ Crossed(i) \in Nat /\ Rest(i) \in Nat /\ StillOwed(i) \in Nat
           /\ cell.orders[i].amount = Spent(i) + Rest(i)
           /\ StillOwed(i) + Crossed(i) >= cell.orders[i].least
           /\ Rest(i) = 0 => Crossed(i) >= cell.orders[i].least
<1> DEFINE f == flow[i]
           l == Lot(Sold(i))
           w == Lot(Wanted(i))
           x == cell.orders[i].amount
           y == cell.orders[i].least
           c == Capacity(i)
<1>1. /\ f \in Nat /\ c \in Nat /\ f <= c /\ l \in Nat \ {0} /\ w \in Nat \ {0}
      /\ x \in Nat \ {0} /\ y \in Nat /\ c * l <= x /\ (c > 0 => w * x >= l * y)
    BY OrderIs, CapacityIs DEF Crossing
<1>2. Spent(i) = f * l /\ Crossed(i) = f * w /\ Rest(i) = x - Spent(i)
    BY DEF Spent, Crossed, Rest
<1>3. StillOwed(i) = IF y > Crossed(i) THEN y - Crossed(i) ELSE 0
    BY DEF StillOwed
<1> HIDE DEF f, l, w, y, c, x
<1>4. f * l \in Nat /\ f * w \in Nat /\ f * l <= x
  <2>1. f * l <= c * l
      BY <1>1, TimesAtMost
  <2>2. f * l \in Nat /\ f * w \in Nat /\ c * l \in Nat
      BY <1>1
  <2> DEFINE u == f * l
             v == c * l
  <2>3. u <= v /\ v <= x /\ u \in Nat /\ v \in Nat
      BY <1>1, <2>1, <2>2
  <2> HIDE DEF u, v
  <2>4. u <= x
      BY <1>1, <2>3
  <2> QED BY <2>2, <2>4 DEF u
<1>5. Spent(i) \in Nat /\ Crossed(i) \in Nat /\ Spent(i) <= x
    BY <1>2, <1>4
<1>6. Rest(i) \in Nat /\ x = Spent(i) + Rest(i)
    BY <1>1, <1>2, <1>5
<1>7. StillOwed(i) \in Nat /\ StillOwed(i) + Crossed(i) >= y
    BY <1>1, <1>3, <1>5
<1>8. ASSUME Rest(i) = 0 PROVE Crossed(i) >= y
  <2>1. x = f * l
      BY <1>1, <1>2, <1>5, <1>6, <1>8
  <2>2. c > 0
    <3>1. f # 0
      <4> SUFFICES ASSUME f = 0 PROVE FALSE
          OBVIOUS
      <4>1. 0 * l = 0
          BY <1>1
      <4> QED BY <1>1, <2>1, <4>1
    <3> QED BY <1>1, <3>1
  <2>3. w * (f * l) >= l * y
      BY <1>1, <2>1, <2>2
  <2>4. w * (f * l) = l * (f * w)
      BY <1>1
  <2>5. y <= f * w
    <3> DEFINE z == f * w
               v == l * z
               u == l * y
    <3>1. l * y <= l * z
      <4>1. v = w * (f * l) /\ u = l * y /\ v >= u
          BY <2>3, <2>4
      <4>2. v \in Int /\ u \in Int
          BY <1>1
      <4> HIDE DEF u, v
      <4>3. u <= v
          BY <4>1, <4>2
      <4> QED BY <4>3 DEF u, v
    <3>2. z \in Int
        BY <1>4
    <3> HIDE DEF z, u, v
    <3>3. y <= z
        BY <1>1, <3>1, <3>2, LessTimes
    <3> QED BY <3>3 DEF z
  <2> DEFINE z == f * w
  <2>6. Crossed(i) = z /\ z \in Nat /\ y <= z
      BY <1>2, <1>4, <2>5
  <2> HIDE DEF z
  <2> QED BY <1>1, <2>6
<1> QED BY <1>5, <1>6, <1>7, <1>8 DEF x, y

\* The members of a group.
LEMMA MembersAre ==
    ASSUME CellIs, NEW g \in Groups
    PROVE  /\ Members(g) \in SUBSET Orders /\ IsFiniteSet(Members(g)) /\ Members(g) # {}
           /\ \A i \in Members(g) : i \in Open /\ Rest(i) > 0 /\ GroupOf(i) = g
<1>1. Members(g) \in SUBSET Open /\ Open \in SUBSET Orders
    BY DEF Members, Open
<1>2. Members(g) # {}
    BY DEF Groups, Members
<1>3. \A i \in Members(g) : i \in Open /\ Rest(i) > 0 /\ GroupOf(i) = g
    BY DEF Members, Open
<1> QED BY <1>1, <1>2, <1>3, OrdersAreFinite

\* One of them is the first: no two have owner and nonce in common.  (First)
LEMMA FirstIs ==
    ASSUME CellIs, NEW g \in Groups
    PROVE  First(g) \in Members(g)
<1> DEFINE M == Members(g)
           own(i) == cell.orders[i].owner
           non(i) == cell.orders[i].nonce
<1>1. M \in SUBSET Orders /\ M # {}
    BY MembersAre
<1>2. \A i \in M : own(i) \in Nat /\ non(i) \in Nat
    BY <1>1, OrderIs
<1>3. \A i, j \in M : i # j => own(i) # own(j) \/ non(i) # non(j)
    BY <1>1 DEF CellIs, Orders
<1>4. \A i, j \in M : Earlier(i, j) <=> (own(i) < own(j) \/ (own(i) = own(j) /\ non(i) < non(j)))
    BY DEF Earlier
<1> HIDE DEF M, own, non
<1> DEFINE T == {own(i) : i \in M}
<1>5. T \in SUBSET Nat /\ T # {}
    BY <1>1, <1>2
<1>6. PICK o \in T : \A t \in T : o <= t
  <2> HIDE DEF T
  <2> QED BY <1>5, LeastOne
<1> DEFINE U == {non(i) : i \in {j \in M : own(j) = o}}
<1>7. U \in SUBSET Nat /\ U # {}
    BY <1>2, <1>6
<1>8. PICK n \in U : \A t \in U : n <= t
  <2> HIDE DEF U
  <2> QED BY <1>7, LeastOne
<1>9. PICK i \in M : own(i) = o /\ non(i) = n
    BY <1>8
<1>10. ASSUME NEW j \in M PROVE i = j \/ Earlier(i, j)
  <2>1. own(i) <= own(j)
      BY <1>6, <1>9
  <2>2. own(j) = own(i) => non(i) <= non(j)
      BY <1>8, <1>9
  <2> QED BY <1>2, <1>3, <1>4, <2>1, <2>2
<1>11. \E x \in M : \A j \in M : x = j \/ Earlier(x, j)
    BY <1>10
<1> QED BY <1>11 DEF First, M

\* What the members get of what is above the floor is not more than that: every
\* part is rounded down.  (Fair)
LEMMA FairAddsUp ==
    ASSUME CellIs, Crossing(flow), NEW g \in Groups, NEW x \in Int, x >= MinOut(g),
           NEW F, F = [i \in Members(g) |-> Fair(g, x, i)]
    PROVE  /\ \A i \in Members(g) : F[i] \in Nat /\ F[i] >= StillOwed(i)
           /\ SumIn(F, Members(g)) <= x
<1> DEFINE M == Members(g)
           rests == [i \in Orders |-> Rest(i)]
           owed == [i \in Orders |-> StillOwed(i)]
           a == AmountIn(g)
           b == x - MinOut(g)
<1>1. /\ M \in SUBSET Orders /\ IsFiniteSet(M) /\ M # {}
      /\ \A i \in M : Rest(i) \in Nat \ {0} /\ StillOwed(i) \in Nat
      /\ \A i \in M : rests[i] = Rest(i) /\ owed[i] = StillOwed(i)
  <2>1. M \in SUBSET Orders /\ IsFiniteSet(M) /\ M # {} /\ \A i \in M : Rest(i) > 0
      BY MembersAre
  <2>2. \A i \in M : Rest(i) \in Nat /\ StillOwed(i) \in Nat
      BY <2>1, RestIs
  <2> HIDE DEF M
  <2> QED BY <2>1, <2>2
<1>2. a = SumIn(rests, M) /\ MinOut(g) = SumIn(owed, M)
    BY TotalIs DEF AmountIn, MinOut
<1> HIDE DEF rests, owed
<1>3. a \in Nat \ {0}
  <2>1. PICK i \in M : TRUE
      BY <1>1
  <2>2. \A j \in M : rests[j] \in Int /\ rests[j] \in Nat
      BY <1>1
  <2>3. SumIn(rests, M) = rests[i] + SumIn(rests, M \ {i})
      BY <1>1, <2>2, SumOfRest
  <2>4. IsFiniteSet(M \ {i})
      BY <1>1, FS_RemoveElement
  <2>5. SumIn(rests, M \ {i}) \in Nat
      BY <2>2, <2>4, SumOfNaturals
  <2>6. rests[i] \in Nat \ {0}
      BY <1>1
  <2> QED BY <1>2, <2>3, <2>5, <2>6
<1>4. MinOut(g) \in Nat
    BY <1>1, <1>2, SumOfNaturals
<1>5. b \in Nat /\ x = MinOut(g) + b
    BY <1>4
<1> DEFINE q == [i \in M |-> (b * Rest(i)) \div a]
           p == [i \in M |-> a * q[i]]
           s == [i \in M |-> b * Rest(i)]
<1>6. \A i \in M : F[i] = StillOwed(i) + q[i]
    BY DEF Fair
<1>7. \A i \in M : q[i] \in Nat /\ a * q[i] <= b * Rest(i) /\ b * Rest(i) \in Nat
  <2> TAKE i \in M
  <2> DEFINE z == b * Rest(i)
             k == z \div a
  <2>1. Rest(i) \in Nat
      BY <1>1
  <2>2. z \in Nat
    <3> HIDE DEF b
    <3> QED BY <1>5, <2>1
  <2> HIDE DEF a, z
  <2>3. z \div a \in Nat /\ (z \div a) * a <= z
      BY <1>3, <2>2, QuotientIs
  <2>4. k \in Nat /\ k * a <= z
      BY <2>3
  <2>5. q[i] = k
      BY DEF z
  <2> HIDE DEF k, q
  <2>6. k * a = a * k
      BY <1>3, <2>4
  <2>7. a * q[i] <= z
      BY <2>4, <2>5, <2>6
  <2> QED BY <2>2, <2>4, <2>5, <2>7 DEF z
<1> HIDE DEF q, b, a, M
<1>8. SumIn(p, M) <= SumIn(s, M)
  <2>1. \A i \in M : p[i] \in Int /\ s[i] \in Int /\ p[i] <= s[i]
    <3> TAKE i \in M
    <3>1. q[i] \in Nat /\ a * q[i] <= b * Rest(i) /\ b * Rest(i) \in Nat
        BY <1>7
    <3>2. a * q[i] \in Int
        BY <1>3, <3>1
    <3> QED BY <3>1, <3>2
  <2> HIDE DEF p, s
  <2> QED BY <1>1, <2>1, SumAtMost
<1>9. SumIn(p, M) = a * SumIn(q, M) /\ SumIn(q, M) \in Int
  <2>1. \A i \in M : q[i] \in Int /\ p[i] = a * q[i]
      BY <1>7
  <2> HIDE DEF p
  <2>2. a \in Int
      BY <1>3
  <2> QED BY <1>1, <2>1, <2>2, SumScaled, SumOfIntegers
<1>10. SumIn(s, M) = b * a
  <2>1. \A i \in M : rests[i] \in Int /\ s[i] = b * rests[i]
      BY <1>1
  <2> HIDE DEF s
  <2>2. b \in Int
      BY <1>5
  <2>3. SumIn(s, M) = b * SumIn(rests, M)
      BY <1>1, <2>1, <2>2, SumScaled
  <2> QED BY <1>2, <2>3
<1>11. SumIn(q, M) <= b
  <2> DEFINE z == SumIn(q, M)
  <2>1. a * z <= b * a /\ z \in Int
      BY <1>8, <1>9, <1>10
  <2> HIDE DEF z
  <2>2. b * a = a * b
      BY <1>3, <1>5
  <2>3. a * z <= a * b
      BY <2>1, <2>2
  <2>4. z <= b
      BY <1>3, <1>5, <2>1, <2>3, LessTimes
  <2> QED BY <2>4 DEF z
<1>12. SumIn(F, M) = SumIn(owed, M) + SumIn(q, M)
  <2>1. \A i \in M : owed[i] \in Int /\ q[i] \in Int /\ F[i] = owed[i] + q[i]
      BY <1>1, <1>6, <1>7
  <2> QED BY <1>1, <2>1, SumAdded
<1>13. SumIn(F, M) <= x
    BY <1>2, <1>4, <1>5, <1>9, <1>11, <1>12
<1>14. \A i \in M : F[i] \in Nat /\ F[i] >= StillOwed(i)
    BY <1>1, <1>6, <1>7
<1> QED BY <1>13, <1>14 DEF M

\* What comes back is distributed to the last atom, and everybody gets at least
\* what is still owed.  (Distribute)
LEMMA DistributeIs ==
    ASSUME CellIs, Crossing(flow), NEW g \in Groups, NEW x \in Int, x >= MinOut(g)
    PROVE  /\ \A i \in Members(g) : Distribute(g, x)[i] \in Nat /\ Distribute(g, x)[i] >= StillOwed(i)
           /\ SumIn(Distribute(g, x), Members(g)) = x
<1> DEFINE M == Members(g)
           F == [i \in M |-> Fair(g, x, i)]
           k == First(g)
           r == x - SumIn(F, M)
           D == [F EXCEPT ![k] = @ + r]
<1>1. IsFiniteSet(M) /\ M \in SUBSET Orders /\ k \in M
    BY MembersAre, FirstIs
<1>2. (\A i \in M : F[i] \in Nat /\ F[i] >= StillOwed(i)) /\ SumIn(F, M) <= x
  <2>1. F = [i \in Members(g) |-> Fair(g, x, i)]
      OBVIOUS
  <2> HIDE DEF F
  <2> QED BY <2>1, FairAddsUp
<1>3. Distribute(g, x) = D
  <2>1. Total(F, M) = SumIn(F, M)
      BY TotalIs
  <2> QED BY <2>1 DEF Distribute
<1>4. SumIn(F, M) \in Int
  <2>1. \A i \in M : F[i] \in Int
      BY <1>2
  <2> HIDE DEF F, M
  <2> QED BY <1>1, <2>1, SumOfIntegers
<1>5. r \in Nat /\ x = SumIn(F, M) + r
  <2> HIDE DEF F, M
  <2> QED BY <1>2, <1>4
<1>6. D[k] = F[k] + r /\ \A i \in M \ {k} : D[i] = F[i]
  <2>1. DOMAIN F = M
      OBVIOUS
  <2> HIDE DEF F, r, M, k
  <2> QED BY <1>1, <2>1
<1> HIDE DEF F, M, r, k, D
<1>7. \A i \in M : D[i] \in Nat /\ D[i] >= StillOwed(i)
  <2> TAKE i \in M
  <2>1. StillOwed(i) \in Nat
      BY <1>1, RestIs
  <2>2. F[i] \in Nat /\ F[i] >= StillOwed(i)
      BY <1>2
  <2>3. CASE i = k
      BY <1>5, <1>6, <2>1, <2>2, <2>3
  <2>4. CASE i # k
      BY <1>6, <2>2, <2>4
  <2> QED BY <2>3, <2>4
<1>8. SumIn(D, M) = SumIn(F, M) + r
  <2>1. (\A i \in M : F[i] \in Int /\ D[i] \in Int) /\ r \in Int
      BY <1>2, <1>5, <1>7
  <2> QED BY <1>1, <1>6, <2>1, SumWithMore
<1>9. SumIn(D, M) = x
    BY <1>5, <1>8
<1> QED BY <1>3, <1>7, <1>9 DEF M

-----------------------------------------------------------------------------
(* A settlement.                                                           *)

\* The groups part what is open.
LEMMA ByGroups ==
    ASSUME CellIs, NEW q, \A i \in Open : q[i] \in Int, NEW r,
           \A g \in Groups : r[g] = SumIn(q, Members(g)), NEW T \in SUBSET Groups
    PROVE  SumIn(q, {i \in Open : GroupOf(i) \in T}) = SumIn(r, T)
<1> DEFINE S == {i \in Open : GroupOf(i) \in T}
           h == [i \in Open |-> GroupOf(i)]
<1>1. Open \in SUBSET Orders /\ S \in SUBSET Orders
    BY DEF Open
<1>2. IsFiniteSet(Open) /\ IsFiniteSet(S)
    BY <1>1, OrdersAreFinite
<1>3. IsFiniteSet(Groups)
  <2>1. h \in Surjection(Open, Groups)
    <3>1. h \in [Open -> Groups] /\ \A g \in Groups : \E i \in Open : h[i] = g
        BY DEF Groups
    <3> QED BY <3>1 DEF Surjection
  <2> HIDE DEF h
  <2> QED BY <1>2, <2>1, FS_Surjection
<1>4. IsFiniteSet(T)
    BY <1>3, FS_Subset
<1>5. \A i \in S : h[i] \in T /\ q[i] \in Int
    OBVIOUS
<1>6. ASSUME NEW g \in T PROVE r[g] = SumIn(q, FiberOf(h, S, g))
  <2>1. FiberOf(h, S, g) = Members(g)
      BY DEF FiberOf, Members
  <2> QED BY <2>1
<1> HIDE DEF S, h
<1>7. SumIn(q, S) = SumIn(r, T)
    BY <1>2, <1>4, <1>5, <1>6, SumByFiber
<1> QED BY <1>7 DEF S

\* q is an amount of every intent that is open, r its sum over every group.
Grouped(q, r) ==
    /\ \A i \in Orders : q[i] \in Int
    /\ \A i \in Orders \ Open : q[i] = 0
    /\ \A g \in Groups : r[g] = SumIn(q, Members(g))

\* The groups that leave an asset, and those that arrive at it.
Leaving(a) == {g \in Groups : g[1] = a}
Arriving(a) == {g \in Groups : g[2] = a}

\* What the open intents amount to is what the groups do, on either side.
LEMMA BySide ==
    ASSUME CellIs, NEW q, NEW r, Grouped(q, r), NEW a \in DOMAIN cell.lots
    PROVE  /\ SumIn(q, SoldIn(a)) = SumIn(r, Leaving(a))
           /\ SumIn(q, WantedIn(a)) = SumIn(r, Arriving(a))
<1>1. Open \in SUBSET Orders
    BY DEF Open
<1>0. /\ \A i \in Orders : q[i] \in Int
      /\ \A i \in Orders \ Open : q[i] = 0
      /\ \A g \in Groups : r[g] = SumIn(q, Members(g))
    BY DEF Grouped
<1>2. \A i \in Open : q[i] \in Int
    BY <1>0, <1>1
<1>3. ASSUME NEW S \in SUBSET Orders, NEW T \in SUBSET Groups,
             \A i \in Open : i \in S <=> GroupOf(i) \in T
      PROVE  SumIn(q, S) = SumIn(r, T)
  <2> DEFINE U == {i \in Open : GroupOf(i) \in T}
  <2>1. U \in SUBSET S /\ \A i \in S \ U : i \in Orders \ Open
      BY <1>1, <1>3
  <2>2. (\A i \in S : q[i] \in Int) /\ \A i \in S \ U : q[i] = 0
      BY <1>0, <2>1
  <2>3. IsFiniteSet(S)
      BY OrdersAreFinite
  <2>4. SumIn(q, U) = SumIn(r, T)
      BY <1>0, <1>2, ByGroups
  <2> HIDE DEF U
  <2>5. SumIn(q, S) = SumIn(q, U)
      BY <2>1, <2>2, <2>3, SumOfSome
  <2> QED BY <2>4, <2>5
<1>4. SumIn(q, SoldIn(a)) = SumIn(r, {g \in Groups : g[1] = a})
  <2> DEFINE T == {g \in Groups : g[1] = a}
  <2>1. SoldIn(a) \in SUBSET Orders /\ T \in SUBSET Groups
      BY DEF SoldIn
  <2>2. ASSUME NEW i \in Open PROVE i \in SoldIn(a) <=> GroupOf(i) \in T
    <3>1. GroupOf(i) \in Groups /\ GroupOf(i)[1] = Sold(i) /\ i \in Orders
        BY <1>1 DEF Groups, GroupOf
    <3> QED BY <3>1 DEF SoldIn
  <2> HIDE DEF T
  <2>3. SumIn(q, SoldIn(a)) = SumIn(r, T)
      BY <1>3, <2>1, <2>2
  <2> QED BY <2>3 DEF T
<1>5. SumIn(q, WantedIn(a)) = SumIn(r, {g \in Groups : g[2] = a})
  <2> DEFINE T == {g \in Groups : g[2] = a}
  <2>1. WantedIn(a) \in SUBSET Orders /\ T \in SUBSET Groups
      BY DEF WantedIn
  <2>2. ASSUME NEW i \in Open PROVE i \in WantedIn(a) <=> GroupOf(i) \in T
    <3>1. GroupOf(i) \in Groups /\ GroupOf(i)[2] = Wanted(i) /\ i \in Orders
        BY <1>1 DEF Groups, GroupOf
    <3> QED BY <3>1 DEF WantedIn
  <2> HIDE DEF T
  <2>3. SumIn(q, WantedIn(a)) = SumIn(r, T)
      BY <1>3, <2>1, <2>2
  <2> QED BY <2>3 DEF T
<1> QED BY <1>4, <1>5 DEF Leaving, Arriving

\* Whatever the venues return above the floors, the settlement is verified.
\* (Verified)
LEMMA SettlesWell ==
    ASSUME CellIs, Crossing(flow), NEW x,
           \A g \in Groups : x[g] \in Int /\ x[g] >= MinOut(g)
    PROVE  Verified(x)
<1> DEFINE share == [i \in Orders |-> IF i \in Open THEN Distribute(GroupOf(i), x[GroupOf(i)])[i] ELSE 0]
           got == [i \in Orders |-> Credit(i, x)]
           offer == [i \in Orders |-> cell.orders[i].amount]
           rests == [i \in Orders |-> Rest(i)]
           spends == [i \in Orders |-> Spent(i)]
           cross == [i \in Orders |-> Crossed(i)]
           ins == [g \in Groups |-> AmountIn(g)]
<1>1. /\ Open \in SUBSET Orders
      /\ \A i \in Open : GroupOf(i) \in Groups /\ i \in Members(GroupOf(i)) /\ Rest(i) > 0
      /\ \A i \in Orders \ Open : ~(Rest(i) > 0)
    BY DEF Open, Groups, Members
<1>2. ASSUME NEW g \in Groups
      PROVE  /\ \A i \in Members(g) : Distribute(g, x[g])[i] \in Nat /\ Distribute(g, x[g])[i] >= StillOwed(i)
             /\ SumIn(Distribute(g, x[g]), Members(g)) = x[g]
    BY DistributeIs
<1>3. \A i \in Open : share[i] \in Nat /\ share[i] >= StillOwed(i)
  <2> TAKE i \in Open
  <2> DEFINE g == GroupOf(i)
  <2>1. g \in Groups /\ i \in Members(g) /\ i \in Orders
      BY <1>1
  <2>2. share[i] = Distribute(g, x[g])[i]
      BY <2>1
  <2> HIDE DEF g, share
  <2> QED BY <1>2, <2>1, <2>2
<1>4. \A i \in Orders \ Open : share[i] = 0
    OBVIOUS
<1>5. ASSUME NEW i \in Orders
      PROVE  /\ Credit(i, x) = Crossed(i) + share[i] /\ share[i] \in Nat /\ Crossed(i) \in Nat
             /\ Rest(i) \in Nat /\ Spent(i) \in Nat /\ cell.orders[i].amount = Spent(i) + Rest(i)
             /\ Credit(i, x) >= cell.orders[i].least
             /\ i \notin Open => Rest(i) = 0
  <2>1. /\ Spent(i) \in Nat /\ Crossed(i) \in Nat /\ Rest(i) \in Nat /\ StillOwed(i) \in Nat
        /\ cell.orders[i].amount = Spent(i) + Rest(i)
        /\ StillOwed(i) + Crossed(i) >= cell.orders[i].least
        /\ Rest(i) = 0 => Crossed(i) >= cell.orders[i].least
      BY RestIs
  <2>2. Credit(i, x) = Crossed(i) + share[i]
      BY DEF Credit
  <2>3. cell.orders[i].least \in Nat
      BY OrderIs
  <2> HIDE DEF share
  <2>4. CASE i \in Open
    <3>1. share[i] \in Nat /\ share[i] >= StillOwed(i)
        BY <1>3, <2>4
    <3> QED BY <2>1, <2>2, <2>3, <2>4, <3>1
  <2>5. CASE i \notin Open
    <3>1. share[i] = 0 /\ Rest(i) = 0
        BY <1>1, <1>4, <2>1, <2>5
    <3> QED BY <2>1, <2>2, <2>3, <2>5, <3>1
  <2> QED BY <2>4, <2>5
<1> HIDE DEF share
<1>6. \A g \in Groups : x[g] = SumIn(share, Members(g))
  <2> TAKE g \in Groups
  <2>1. /\ Members(g) \in SUBSET Orders /\ IsFiniteSet(Members(g))
        /\ \A i \in Members(g) : i \in Open /\ GroupOf(i) = g
      BY MembersAre
  <2>2. \A i \in Members(g) : share[i] = Distribute(g, x[g])[i]
      BY <1>1, <2>1 DEF share
  <2>3. SumIn(share, Members(g)) = SumIn(Distribute(g, x[g]), Members(g))
      BY <2>1, <2>2, SumOfSame
  <2> QED BY <1>2, <2>3
<1>7. \A i \in Orders : /\ offer[i] = spends[i] + rests[i] /\ spends[i] \in Int /\ rests[i] \in Int
                        /\ got[i] = cross[i] + share[i] /\ cross[i] \in Int /\ share[i] \in Int
                        /\ (i \notin Open => rests[i] = 0 /\ share[i] = 0)
  <2> TAKE i \in Orders
  <2>1. offer[i] = cell.orders[i].amount /\ spends[i] = Spent(i) /\ rests[i] = Rest(i)
        /\ got[i] = Credit(i, x) /\ cross[i] = Crossed(i)
      OBVIOUS
  <2>2. i \notin Open => share[i] = 0
      BY <1>4
  <2> HIDE DEF offer, spends, rests, got, cross
  <2> QED BY <1>5, <2>1, <2>2
<1>8. \A g \in Groups : ins[g] = SumIn(rests, Members(g))
    BY TotalIs DEF AmountIn
<1>9. ASSUME NEW a \in DOMAIN cell.lots
      PROVE  SumIn(offer, SoldIn(a)) + SumIn(x, Arriving(a))
             = SumIn(got, WantedIn(a)) + SumIn(ins, Leaving(a))
  <2>1. SoldIn(a) \in SUBSET Orders /\ WantedIn(a) \in SUBSET Orders
      BY DEF SoldIn, WantedIn
  <2>2. IsFiniteSet(SoldIn(a)) /\ IsFiniteSet(WantedIn(a))
      BY <2>1, OrdersAreFinite
  <2>3. \A i \in SoldIn(a) : spends[i] = Lot(a) * flow[i] /\ flow[i] \in Int
    <3> TAKE i \in SoldIn(a)
    <3>1. i \in Orders /\ Sold(i) = a
        BY DEF SoldIn
    <3>2. flow[i] \in Int /\ Lot(a) \in Int
        BY <3>1, OrderIs DEF Crossing
    <3>3. spends[i] = flow[i] * Lot(a)
        BY <3>1 DEF Spent
    <3> HIDE DEF spends
    <3> QED BY <3>2, <3>3
  <2>4. \A i \in WantedIn(a) : cross[i] = Lot(a) * flow[i] /\ flow[i] \in Int
    <3> TAKE i \in WantedIn(a)
    <3>1. i \in Orders /\ Wanted(i) = a
        BY DEF WantedIn
    <3>2. flow[i] \in Int /\ Lot(a) \in Int
        BY <3>1, OrderIs DEF Crossing
    <3>3. cross[i] = flow[i] * Lot(a)
        BY <3>1 DEF Crossed
    <3> HIDE DEF cross
    <3> QED BY <3>2, <3>3
  <2> HIDE DEF spends, cross, offer, got, rests, ins
  <2>5. Lot(a) \in Int
      BY DEF CellIs, Lot
  <2>6. SumIn(spends, SoldIn(a)) = Lot(a) * SumIn(flow, SoldIn(a))
      BY <2>2, <2>3, <2>5, SumScaled
  <2>7. SumIn(cross, WantedIn(a)) = Lot(a) * SumIn(flow, WantedIn(a))
      BY <2>2, <2>4, <2>5, SumScaled
  <2>8. SumIn(flow, SoldIn(a)) = SumIn(flow, WantedIn(a))
      BY DEF Crossing
  <2>9. SumIn(offer, SoldIn(a)) = SumIn(spends, SoldIn(a)) + SumIn(rests, SoldIn(a))
        /\ SumIn(spends, SoldIn(a)) \in Int /\ SumIn(rests, SoldIn(a)) \in Int
    <3>1. \A i \in SoldIn(a) : spends[i] \in Int /\ rests[i] \in Int /\ offer[i] = spends[i] + rests[i]
        BY <1>7, <2>1
    <3> QED BY <2>2, <3>1, SumAdded, SumOfIntegers
  <2>10. SumIn(got, WantedIn(a)) = SumIn(cross, WantedIn(a)) + SumIn(share, WantedIn(a))
         /\ SumIn(cross, WantedIn(a)) \in Int /\ SumIn(share, WantedIn(a)) \in Int
    <3>1. \A i \in WantedIn(a) : cross[i] \in Int /\ share[i] \in Int /\ got[i] = cross[i] + share[i]
        BY <1>7, <2>1
    <3> QED BY <2>2, <3>1, SumAdded, SumOfIntegers
  <2>11. SumIn(rests, SoldIn(a)) = SumIn(ins, Leaving(a))
    <3>1. (\A i \in Orders : rests[i] \in Int) /\ \A i \in Orders \ Open : rests[i] = 0
        BY <1>7
    <3>2. Grouped(rests, ins)
        BY <1>8, <3>1 DEF Grouped
    <3> QED BY <3>2, BySide
  <2>12. SumIn(share, WantedIn(a)) = SumIn(x, Arriving(a))
    <3>1. (\A i \in Orders : share[i] \in Int) /\ \A i \in Orders \ Open : share[i] = 0
        BY <1>7
    <3>2. Grouped(share, x)
        BY <1>6, <3>1 DEF Grouped
    <3> QED BY <3>2, BySide
  <2> DEFINE sp == SumIn(spends, SoldIn(a))
             re == SumIn(rests, SoldIn(a))
             cr == SumIn(cross, WantedIn(a))
             sh == SumIn(share, WantedIn(a))
             of == SumIn(offer, SoldIn(a))
             go == SumIn(got, WantedIn(a))
  <2>13. of = sp + re /\ go = cr + sh /\ sp = cr /\ sp \in Int /\ re \in Int /\ sh \in Int
      BY <2>6, <2>7, <2>8, <2>9, <2>10
  <2> HIDE DEF sp, re, cr, sh, of, go
  <2>14. of + sh = go + re
      BY <2>13
  <2> QED BY <2>11, <2>12, <2>14 DEF of, sh, go, re
<1>10. \A i \in Orders : Credit(i, x) >= cell.orders[i].least
    BY <1>5
<1> HIDE DEF got, offer, ins
<1>11. \A a \in DOMAIN cell.lots :
         Total(offer, SoldIn(a)) + Total(x, {g \in Groups : g[2] = a})
         = Total(got, WantedIn(a)) + Total(ins, {g \in Groups : g[1] = a})
    BY <1>9, TotalIs DEF Leaving, Arriving
<1> QED BY <1>10, <1>11 DEF Verified, SoldIn, WantedIn, got, offer, ins

-----------------------------------------------------------------------------
(* The second lot.                                                         *)

\* The length of a sequence is where it ends.
LEMMA LengthIs ==
    ASSUME NEW S, NEW n \in Nat, NEW s \in [1..n -> S]
    PROVE  Len(s) = n
<1>1. s \in Seq(S)
    OBVIOUS
<1>2. Len(s) \in Nat /\ DOMAIN s = 1..Len(s) /\ DOMAIN s = 1..n
    BY <1>1
<1> DEFINE m == Len(s)
<1>3. m \in Nat /\ 1..m = 1..n
    BY <1>2
<1> HIDE DEF m
<1>4. m = n
  <2>1. m >= 1 => m \in 1..n
      BY <1>3
  <2>2. n >= 1 => n \in 1..m
      BY <1>3
  <2> QED BY <1>3, <2>1, <2>2
<1> QED BY <1>4 DEF m

\* What is known along the probes.
ProbeIs(N) == [atoms : 1..N, best : 0..N, over : BOOLEAN]
IsProbed(f, n, gives, stock) ==
    f = [k \in 0..n |-> IF k = 0 THEN [atoms |-> Len(gives), best |-> 0, over |-> FALSE]
                        ELSE Probe(f[k - 1], gives, stock)]

\* A probe is of an amount the bank knows.  (Probe)
LEMMA ProbeStays ==
    ASSUME NEW gives, Len(gives) \in Nat \ {0}, \A n \in 1..Len(gives) : gives[n] \in Nat,
           NEW stock \in Nat, NEW s \in ProbeIs(Len(gives))
    PROVE  Probe(s, gives, stock) \in ProbeIs(Len(gives))
<1> DEFINE N == Len(gives)
           out == gives[s.atoms]
           next == Clamp((s.atoms * stock + out - 1) \div out, N)
<1>0. /\ N \in Nat \ {0} /\ s.atoms \in 1..N /\ s.best \in 0..N /\ s.over \in BOOLEAN
      /\ s = [atoms |-> s.atoms, best |-> s.best, over |-> s.over] /\ out \in Nat
    BY DEF ProbeIs
<1> HIDE DEF N
<1>1. CASE s.over
  <2>1. Probe(s, gives, stock) = s
      BY <1>1 DEF Probe
  <2> QED BY <2>1 DEF N
<1>2. CASE ~s.over /\ out = 0
  <2>1. Probe(s, gives, stock) = [atoms |-> s.atoms, best |-> 0, over |-> TRUE]
      BY <1>2 DEF Probe
  <2>2. [atoms |-> s.atoms, best |-> 0, over |-> TRUE] \in ProbeIs(N)
      BY <1>0 DEF ProbeIs
  <2> QED BY <2>1, <2>2 DEF N
<1>3. CASE ~s.over /\ out # 0
  <2> DEFINE best == IF s.best = 0 THEN s.atoms
                     ELSE IF Distance(out, stock) < Distance(gives[s.best], stock) THEN s.atoms ELSE s.best
             over == next = s.atoms
  <2>1. Probe(s, gives, stock) = [atoms |-> next, best |-> best, over |-> over]
      BY <1>3 DEF Probe, Probed, N
  <2>2. best \in 0..N /\ over \in BOOLEAN
      BY <1>0
  <2>3. next \in 1..N
    <3> DEFINE x == s.atoms * stock + out - 1
    <3>1. x \in Nat /\ out \in Nat \ {0}
      <4>1. s.atoms \in Nat /\ stock \in Nat
          BY <1>0
      <4> DEFINE y == s.atoms * stock
      <4>2. y \in Nat
          BY <4>1
      <4>3. x = y + out - 1
          OBVIOUS
      <4> HIDE DEF x, y, out
      <4> QED BY <1>0, <1>3, <4>2, <4>3
    <3> HIDE DEF x, out
    <3>2. x \div out \in Int
        BY <3>1
    <3> DEFINE q == x \div out
    <3>3. next = Clamp(q, N) /\ q \in Int
        BY <3>2 DEF x
    <3> HIDE DEF q, next
    <3>4. Clamp(q, N) \in 1..N
        BY <1>0, <3>3 DEF Clamp
    <3> QED BY <3>3, <3>4
  <2> HIDE DEF best, over, next
  <2>5. [atoms |-> next, best |-> best, over |-> over] \in ProbeIs(N)
      BY <2>2, <2>3 DEF ProbeIs
  <2> QED BY <2>1, <2>5 DEF N
<1> QED BY <1>0, <1>1, <1>2, <1>3

\* The second lot is one of them, or nothing.  (SecondLot)
LEMMA SecondLotIs ==
    ASSUME MaxTries \in Nat, NEW gives, Len(gives) \in Nat \ {0},
           \A n \in 1..Len(gives) : gives[n] \in Nat, NEW stock \in Nat
    PROVE  SecondLot(gives, stock) \in Nat
<1> DEFINE N == Len(gives)
           X == ProbeIs(N)
           z == [atoms |-> N, best |-> 0, over |-> FALSE]
           F == [p \in (1..MaxTries) \X X |-> Probe(p[2], gives, stock)]
           f == CHOOSE f : IsProbed(f, MaxTries, gives, stock)
<1>1. \A w \in X : Probe(w, gives, stock) \in X
    BY ProbeStays
<1>2. z \in X
    BY DEF ProbeIs
<1> HIDE DEF X
<1>3. F \in [(1..MaxTries) \X X -> X] /\ \A k \in 1..MaxTries : \A w \in X : F[<<k, w>>] = Probe(w, gives, stock)
    BY <1>1
<1> HIDE DEF F, z
<1>4. PICK g \in [0..MaxTries -> X] : g[0] = z /\ \A k \in 1..MaxTries : g[k] = F[<<k, g[k - 1]>>]
  <2>1. \E g : Runs(g, X, z, MaxTries, F)
      BY <1>2, <1>3, Iterated
  <2> QED BY <2>1 DEF Runs
<1>5. \A k \in 0..MaxTries : g[k] = IF k = 0 THEN z ELSE Probe(g[k - 1], gives, stock)
  <2> TAKE k \in 0..MaxTries
  <2>1. CASE k = 0
      BY <1>4, <2>1
  <2>2. CASE k # 0
    <3>1. k \in 1..MaxTries /\ g[k - 1] \in X
        BY <1>4, <2>2
    <3>2. g[k] = F[<<k, g[k - 1]>>]
        BY <1>4, <3>1
    <3> QED BY <1>3, <2>2, <3>1, <3>2
  <2> QED BY <2>1, <2>2
<1>6. g = [k \in 0..MaxTries |-> g[k]]
    BY <1>4
<1>7. IsProbed(g, MaxTries, gives, stock)
    BY <1>5, <1>6 DEF IsProbed, z
<1>8. IsProbed(f, MaxTries, gives, stock)
    BY <1>7
<1>9. SecondLot(gives, stock) = f[MaxTries].best
    BY DEF SecondLot, IsProbed
<1> HIDE DEF f
<1>10. f[0] = z /\ \A k \in 1..MaxTries : f[k] = Probe(f[k - 1], gives, stock)
  <2>1. f = [k \in 0..MaxTries |-> IF k = 0 THEN z ELSE Probe(f[k - 1], gives, stock)]
      BY <1>8 DEF IsProbed, z
  <2> QED BY <2>1
<1> DEFINE P == {k \in 0..MaxTries : f[k] \in X}
<1>11. 0 \in P
    BY <1>2, <1>10
<1>12. \A k \in 1..MaxTries : k - 1 \in P => k \in P
    BY <1>1, <1>10
<1>13. MaxTries \in P
  <2>1. P \in SUBSET (0..MaxTries) /\ MaxTries \in 0..MaxTries
      OBVIOUS
  <2> HIDE DEF P
  <2> QED BY <1>11, <1>12, <2>1, EveryStep
<1>14. f[MaxTries].best \in Nat
    BY <1>13 DEF X, ProbeIs
<1> QED BY <1>9, <1>14

-----------------------------------------------------------------------------
(* The invariant.                                                          *)

\* A folding that was not refused has a circulation within the limits; once it
\* is over no cycle improves it, and what the venues returned is above the floors.
LargestFlow == \A g : Crossing(g) => SumIn(g, Orders) <= SumIn(flow, Orders)
FoldInv ==
    phase # "refused" =>
      /\ CellIs /\ Crossing(flow)
      /\ phase \in {"folded", "settled"} => LargestFlow
      /\ phase = "settled" => \A g \in Groups : paid[g] \in Int /\ paid[g] >= MinOut(g)

\* The cell that is folded is well-formed once it is accepted.  (FoldInit)
LEMMA OfferedIs ==
    ASSUME NEW c \in Cells, cell = Offered(c), Acceptable(cell)
    PROVE  CellIs
<1>1. /\ MaxTries \in Nat
      /\ c = [orders |-> c.orders, lots |-> c.lots, gives |-> c.gives]
      /\ Len(c.lots) \in Nat /\ Len(c.lots) >= 2 /\ DOMAIN c.lots = 1..Len(c.lots)
      /\ \A a \in DOMAIN c.lots : c.lots[a] \in Nat \ {0}
      /\ Len(c.orders) \in Nat /\ DOMAIN c.orders = 1..Len(c.orders)
      /\ \A i \in DOMAIN c.orders : FlowFields(c.orders[i], DOMAIN c.lots)
      /\ c.gives # <<>> => /\ Len(c.gives) \in Nat \ {0} /\ DOMAIN c.gives = 1..Len(c.gives)
                           /\ \A n \in DOMAIN c.gives : c.gives[n] \in Nat
                           /\ Len(c.lots) >= 3
    BY FoldAssumption
<1>2. /\ cell.lots[2] > 0
      /\ \A i \in DOMAIN cell.orders : cell.orders[i].sell # cell.orders[i].buy /\ cell.orders[i].amount > 0
      /\ \A i, j \in DOMAIN cell.orders :
           i # j => cell.orders[i].owner # cell.orders[j].owner \/ cell.orders[i].nonce # cell.orders[j].nonce
    BY DEF Acceptable
<1>3. /\ cell.orders = c.orders
      /\ Len(cell.lots) = Len(c.lots) /\ DOMAIN cell.lots = DOMAIN c.lots
      /\ \A a \in DOMAIN c.lots : cell.lots[a] \in Nat \ {0}
  <2>1. CASE c.gives = <<>>
      BY <1>1, <2>1 DEF Offered
  <2>2. CASE c.gives # <<>>
    <3> DEFINE stock == c.lots[3]
               lot == SecondLot(c.gives, stock)
               n == Len(c.lots)
               lots == [c.lots EXCEPT ![2] = lot]
    <3>1. stock \in Nat /\ n \in Nat /\ 2 \in 1..n
        BY <1>1, <2>2
    <3>2. Len(c.gives) \in Nat \ {0} /\ \A k \in 1..Len(c.gives) : c.gives[k] \in Nat
        BY <1>1, <2>2
    <3> HIDE DEF stock
    <3>3. lot \in Nat
        BY <1>1, <3>1, <3>2, SecondLotIs
    <3>4. cell = [c EXCEPT !.lots[2] = lot]
        BY <2>2 DEF Offered, Anchored, stock
    <3> HIDE DEF lot
    <3>5. cell.orders = c.orders /\ cell.lots = lots
        BY <1>1, <3>4
    <3>6. DOMAIN lots = 1..n
        BY <1>1
    <3>7. \A a \in 1..n : lots[a] \in Nat
        BY <1>1, <3>1, <3>3
    <3>9. \A a \in 1..n : a # 2 => lots[a] = c.lots[a]
        BY <1>1
    <3>8. lots \in [1..n -> Nat]
        BY <3>6, <3>7
    <3> HIDE DEF lots
    <3>10. Len(lots) = n
        BY <3>1, <3>8, LengthIs
    <3>11. \A a \in 1..n : lots[a] \in Nat \ {0}
      <4> TAKE a \in 1..n
      <4>1. CASE a = 2
        <5>1. lots[2] > 0
            BY <1>2, <3>5
        <5> QED BY <3>7, <4>1, <5>1
      <4>2. CASE a # 2
          BY <1>1, <3>9, <4>2
      <4> QED BY <4>1, <4>2
    <3> QED BY <1>1, <3>5, <3>6, <3>10, <3>11
  <2> QED BY <2>1, <2>2
<1>4. /\ Len(cell.lots) \in Nat /\ Len(cell.lots) >= 1 /\ DOMAIN cell.lots = 1..Len(cell.lots)
      /\ Len(cell.orders) \in Nat /\ DOMAIN cell.orders = 1..Len(cell.orders)
    BY <1>1, <1>3
<1>5. \A a \in DOMAIN cell.lots : cell.lots[a] \in Nat \ {0}
    BY <1>3
<1>6. \A i \in DOMAIN cell.orders : FlowFields(cell.orders[i], DOMAIN cell.lots)
    BY <1>1, <1>3
<1> QED BY <1>2, <1>4, <1>5, <1>6 DEF CellIs

\* Nothing crosses at first.
LEMMA NothingCrosses ==
    ASSUME CellIs, flow = [i \in Orders |-> 0]
    PROVE  Crossing(flow)
<1>1. flow \in [Orders -> Nat] /\ \A i \in Orders : flow[i] = 0
    OBVIOUS
<1>2. \A i \in Orders : flow[i] <= Capacity(i)
  <2> TAKE i \in Orders
  <2>1. Capacity(i) \in Nat
      BY CapacityIs
  <2> QED BY <1>1, <2>1
<1>3. ASSUME NEW S \in SUBSET Orders PROVE SumIn(flow, S) = 0
  <2>1. IsFiniteSet(S) /\ IsFiniteSet({}) /\ {} \in SUBSET S
      BY OrdersAreFinite, FS_EmptySet
  <2>2. (\A i \in S : flow[i] \in Int) /\ \A i \in S \ {} : flow[i] = 0
      BY <1>1
  <2>3. SumIn(flow, S) = SumIn(flow, {})
      BY <2>1, <2>2, SumOfSome
  <2>4. SumIn(flow, {}) = 0
      BY <2>1, SumUnfolds
  <2> QED BY <2>3, <2>4
<1>4. ASSUME NEW a \in DOMAIN cell.lots PROVE SumIn(flow, SoldIn(a)) = SumIn(flow, WantedIn(a))
  <2>1. SoldIn(a) \in SUBSET Orders /\ WantedIn(a) \in SUBSET Orders
      BY DEF SoldIn, WantedIn
  <2> QED BY <1>3, <2>1
<1> QED BY <1>1, <1>2, <1>4 DEF Crossing

\* At first.  (FoldInit)
LEMMA FoldStarts == FoldInit => FoldInv
<1> SUFFICES ASSUME FoldInit PROVE FoldInv
    OBVIOUS
<1> SUFFICES ASSUME phase # "refused"
             PROVE  /\ CellIs /\ Crossing(flow)
                    /\ phase \in {"folded", "settled"} => LargestFlow
                    /\ phase = "settled" => \A g \in Groups : paid[g] \in Int /\ paid[g] >= MinOut(g)
    BY DEF FoldInv
<1>1. phase = "fold" /\ Acceptable(cell)
    BY DEF FoldInit
<1>2. PICK c \in Cells : cell = Offered(c)
    BY DEF FoldInit
<1>3. CellIs
    BY <1>1, <1>2, OfferedIs
<1>4. Crossing(flow)
    BY <1>3, NothingCrosses DEF FoldInit
<1> QED BY <1>1, <1>3, <1>4

\* What the intents are, and what they permit to cross, does not change.
LEMMA SameCell ==
    ASSUME UNCHANGED cell
    PROVE  /\ CellIs' <=> CellIs
           /\ Orders' = Orders
           /\ \A f : Crossing(f)' <=> Crossing(f)
           /\ Crossing(flow)' <=> Crossing(flow')
BY DEF CellIs, FlowFields, Crossing, Orders, SoldIn, WantedIn, Sold, Wanted, Capacity, Lot

\* A step that changes neither the cell nor what crosses keeps that it is largest.
LEMMA SameCrossing ==
    ASSUME UNCHANGED <<cell, flow>>
    PROVE  /\ Crossing(flow)' <=> Crossing(flow)
           /\ LargestFlow' <=> LargestFlow
           /\ Groups' = Groups
           /\ \A g : MinOut(g)' = MinOut(g)
<1>1. Crossing(flow)' <=> Crossing(flow)
    BY SameCell
<1>2. LargestFlow' <=> LargestFlow
    BY SameCell DEF LargestFlow
<1>3. Groups' = Groups
    BY DEF Groups, Open, GroupOf, Rest, Spent, Orders, Sold, Wanted, Lot
<1>4. \A g : MinOut(g)' = MinOut(g)
  <2> TAKE g
  <2>1. Orders' = Orders /\ Members(g)' = Members(g) /\ \A i \in Orders : StillOwed(i)' = StillOwed(i)
      BY DEF Members, StillOwed, Crossed, Open, GroupOf, Rest, Spent, Orders, Sold, Wanted, Lot
  <2> DEFINE owed == [i \in Orders |-> StillOwed(i)]
  <2>2. owed' = owed
      BY <2>1
  <2>3. MinOut(g) = Total(owed, Members(g)) /\ MinOut(g)' = Total(owed', Members(g)')
      BY DEF MinOut
  <2> QED BY <2>1, <2>2, <2>3
<1> QED BY <1>1, <1>2, <1>3, <1>4

\* A pivot crosses more, or proves that nothing more can cross.  (Pivot)
LEMMA PivotKeeps ==
    ASSUME FoldInv, Pivot
    PROVE  FoldInv'
<1>1. phase = "fold" /\ Turn(ImprovingCycle) /\ UNCHANGED <<cell, paid>>
    BY DEF Pivot
<1>2. CellIs /\ Crossing(flow)
    BY <1>1 DEF FoldInv
<1>3. CellIs' /\ Orders' = Orders
    BY <1>1, <1>2, SameCell
<1> DEFINE C == ImprovingCycle
<1>4. CASE C = {}
  <2>1. phase' = "folded" /\ UNCHANGED <<cell, flow>>
      BY <1>1, <1>4 DEF Turn
  <2>2. LargestFlow
      BY <1>2, <1>4, NothingBetter DEF LargestFlow
  <2>3. Crossing(flow)' /\ LargestFlow'
      BY <1>2, <2>1, <2>2, SameCrossing
  <2> QED BY <1>3, <2>1, <2>3 DEF FoldInv
<1>5. CASE C # {} /\ pivots = MaxPivots
  <2>1. phase' = "refused"
      BY <1>1, <1>5 DEF Turn
  <2> QED BY <2>1 DEF FoldInv
<1>6. CASE C # {} /\ pivots # MaxPivots
  <2>1. Push(C) /\ phase' = "fold"
      BY <1>1, <1>6 DEF Turn
  <2> DEFINE d == Min({x.cap : x \in C})
             f == [i \in Orders |-> flow[i] + OnArc(C, d, i, FALSE) - OnArc(C, d, i, TRUE)]
             s == Sweeps(Arcs)[Len(cell.lots)]
  <2>2. flow' = f
      BY <2>1 DEF Push, OnArc
  <2>3. \E n, c, e : IsCycle(C, n, c, e, DOMAIN cell.lots, Arcs)
    <3>1. C = CycleOf(s)
        BY DEF ImprovingCycle
    <3>2. s.last # 0
        BY <1>6, <3>1 DEF CycleOf
    <3>3. GoodArcs(DOMAIN cell.lots, Arcs)
        BY <1>2, GoodResidual
    <3>4. Len(cell.lots) \in Nat /\ Len(cell.lots) >= 1 /\ DOMAIN cell.lots = 1..Len(cell.lots)
        BY <1>2 DEF CellIs
    <3> HIDE DEF C
    <3> QED BY <3>1, <3>2, <3>3, <3>4, CycleFound
  <2>4. PICK n, c, e : IsCycle(C, n, c, e, DOMAIN cell.lots, Arcs)
      BY <2>3
  <2>5. Crossing(f)
    <3>1. d = Min({x.cap : x \in C})
        OBVIOUS
    <3> HIDE DEF d, C
    <3> QED BY <1>2, <2>4, <3>1, PushKeeps
  <2> HIDE DEF f
  <2>6. Crossing(flow)'
      BY <1>1, <2>2, <2>5, SameCell
  <2> QED BY <1>3, <2>1, <2>6 DEF FoldInv
<1> QED BY <1>4, <1>5, <1>6

\* What the venues return is above the floors.  (Settle)
LEMMA SettleKeeps ==
    ASSUME FoldInv, Settle
    PROVE  FoldInv'
<1>1. phase = "folded" /\ UNCHANGED <<cell, flow, pivots>>
    BY DEF Settle
<1>2. CellIs /\ Crossing(flow) /\ LargestFlow
    BY <1>1 DEF FoldInv
<1>3. CellIs' /\ Crossing(flow)' /\ LargestFlow' /\ Groups' = Groups /\ \A g : MinOut(g)' = MinOut(g)
    BY <1>1, <1>2, SameCell, SameCrossing
<1>4. CASE Cardinality(Groups) > MaxGroups
  <2>1. phase' = "refused"
      BY <1>4 DEF Settle
  <2> QED BY <2>1 DEF FoldInv
<1>5. CASE ~(Cardinality(Groups) > MaxGroups)
  <2>1. PICK bonus \in [Groups -> 0..MaxBonus] :
          paid' = [g \in Groups |-> MinOut(g) + bonus[g]] /\ phase' = "settled"
      BY <1>5 DEF Settle
  <2>4. MaxBonus \in Nat
      BY FoldAssumption
  <2>2. ASSUME NEW g \in Groups PROVE paid'[g] \in Int /\ paid'[g] >= MinOut(g)
    <3>1. paid'[g] = MinOut(g) + bonus[g] /\ bonus[g] \in Nat
        BY <2>1, <2>4
    <3>2. MinOut(g) \in Nat
      <4>1. Members(g) \in SUBSET Orders /\ IsFiniteSet(Members(g))
          BY <1>2, MembersAre
      <4> DEFINE owed == [i \in Orders |-> StillOwed(i)]
      <4>2. \A i \in Members(g) : owed[i] \in Nat
          BY <1>2, <4>1, RestIs
      <4>3. MinOut(g) = SumIn(owed, Members(g))
          BY TotalIs DEF MinOut
      <4> HIDE DEF owed
      <4> QED BY <4>1, <4>2, <4>3, SumOfNaturals
    <3> QED BY <3>1, <3>2
  <2>3. \A g \in Groups' : paid'[g] \in Int /\ paid'[g] >= MinOut(g)'
      BY <1>3, <2>2
  <2> QED BY <1>3, <2>1, <2>3 DEF FoldInv
<1> QED BY <1>4, <1>5

\* The invariant of a folding.
LEMMA FoldStep ==
    ASSUME FoldInv, [FoldNext]_foldVars
    PROVE  FoldInv'
<1>1. CASE Pivot
    BY <1>1, PivotKeeps
<1>2. CASE Settle
    BY <1>2, SettleKeeps
<1>3. CASE Short
    BY <1>3 DEF Short, FoldInv
<1>4. CASE UNCHANGED foldVars
  <2>1. UNCHANGED <<cell, flow>> /\ UNCHANGED <<phase, paid>>
      BY <1>4 DEF foldVars
  <2>2. UNCHANGED cell
      BY <2>1
  <2>3. (CellIs' <=> CellIs) /\ (Crossing(flow)' <=> Crossing(flow)) /\ (LargestFlow' <=> LargestFlow)
      BY <2>1, <2>2, SameCell, SameCrossing
  <2>4. Groups' = Groups /\ \A g : MinOut(g)' = MinOut(g)
      BY <2>1, SameCrossing
  <2> QED BY <2>1, <2>3, <2>4 DEF FoldInv
<1> QED BY <1>1, <1>2, <1>3, <1>4 DEF FoldNext, FoldOver

\* Whatever crosses within the limits is a circulation, and the other way round.
LEMMA CrossingIs ==
    ASSUME CellIs, NEW f
    PROVE  Crossing(f) <=> f \in Circulations([i \in Orders |-> Capacity(i)])
<1> DEFINE c == [i \in Orders |-> Capacity(i)]
           T == {c[i] : i \in Orders}
<1>1. \A i \in Orders : c[i] = Capacity(i) /\ c[i] \in Nat
    BY CapacityIs
<1> HIDE DEF c
<1>2. ASSUME NEW i \in Orders PROVE Max(T) \in Nat /\ c[i] <= Max(T)
  <2>1. c \in [Orders -> T]
    <3>1. DOMAIN c = Orders /\ c = [j \in Orders |-> c[j]]
        BY DEF c
    <3> QED BY <3>1
  <2>2. c \in Surjection(Orders, T)
      BY <2>1 DEF Surjection
  <2>3. T \in SUBSET Nat /\ T # {} /\ c[i] \in T
      BY <1>1
  <2> HIDE DEF T
  <2>4. IsFiniteSet(T)
      BY <2>2, OrdersAreFinite, FS_Surjection
  <2> QED BY <2>3, <2>4, MaxIs
<1>3. (\A a \in DOMAIN cell.lots : SumIn(f, SoldIn(a)) = SumIn(f, WantedIn(a))) <=> Balanced(f)
    BY TotalIs DEF Balanced, SoldIn, WantedIn
<1>4. ASSUME Crossing(f) PROVE f \in [Orders -> 0..Max(T)] /\ \A i \in Orders : f[i] <= c[i]
  <2>1. f \in [Orders -> Nat] /\ \A i \in Orders : f[i] <= c[i]
      BY <1>1, <1>4 DEF Crossing
  <2>2. ASSUME NEW i \in Orders PROVE f[i] \in 0..Max(T)
    <3>1. Max(T) \in Nat /\ c[i] <= Max(T) /\ f[i] \in Nat /\ f[i] <= c[i] /\ c[i] \in Nat
        BY <1>1, <1>2, <2>1
    <3> HIDE DEF T
    <3> QED BY <3>1
  <2> HIDE DEF T
  <2> QED BY <2>1, <2>2
<1>5. ASSUME f \in [Orders -> 0..Max(T)], \A i \in Orders : f[i] <= c[i]
      PROVE  f \in [Orders -> Nat] /\ \A i \in Orders : f[i] <= Capacity(i)
  <2>1. ASSUME NEW i \in Orders PROVE f[i] \in Nat
    <3>1. f[i] \in 0..Max(T) /\ Max(T) \in Nat
        BY <1>2, <1>5
    <3> HIDE DEF T
    <3> QED BY <3>1
  <2> HIDE DEF T
  <2> QED BY <1>1, <1>5, <2>1
<1>6. f \in Circulations(c) <=> f \in [Orders -> 0..Max(T)] /\ (\A i \in Orders : f[i] <= c[i]) /\ Balanced(f)
    BY DEF Circulations
<1> HIDE DEF T
<1>7. Crossing(f) => f \in Circulations(c)
    BY <1>3, <1>4, <1>6 DEF Crossing
<1>8. f \in Circulations(c) => Crossing(f)
    BY <1>3, <1>5, <1>6 DEF Crossing
<1> QED BY <1>7, <1>8 DEF c

\* The invariant says what a folding promises.
LEMMA FoldInvHolds == FoldInv => FoldingHolds
<1> SUFFICES ASSUME FoldInv PROVE FoldingHolds
    OBVIOUS
<1>1. FoldIsOptimal
  <2> DEFINE c == [i \in Orders |-> Capacity(i)]
  <2> SUFFICES ASSUME phase # "refused"
               PROVE  flow \in Circulations(c) /\ (phase = "folded" => \A f \in Circulations(c) : Lots(f) <= Lots(flow))
      BY DEF FoldIsOptimal
  <2>1. CellIs /\ Crossing(flow) /\ (phase = "folded" => LargestFlow)
      BY DEF FoldInv
  <2>2. \A f : Crossing(f) <=> f \in Circulations(c)
      BY <2>1, CrossingIs
  <2> HIDE DEF c
  <2>3. flow \in Circulations(c)
      BY <2>1, <2>2
  <2>4. \A f : Lots(f) = SumIn(f, Orders)
      BY TotalIs DEF Lots
  <2>5. ASSUME phase = "folded", NEW f \in Circulations(c) PROVE Lots(f) <= Lots(flow)
    <3>1. Crossing(f) /\ LargestFlow
        BY <2>1, <2>2, <2>5
    <3>2. SumIn(f, Orders) <= SumIn(flow, Orders)
        BY <3>1 DEF LargestFlow
    <3> QED BY <2>4, <3>2
  <2> QED BY <2>3, <2>5
<1>2. SettlementHolds
  <2> SUFFICES ASSUME phase = "settled" PROVE Verified(paid)
      BY DEF SettlementHolds
  <2>1. CellIs /\ Crossing(flow) /\ \A g \in Groups : paid[g] \in Int /\ paid[g] >= MinOut(g)
      BY DEF FoldInv
  <2> QED BY <2>1, SettlesWell
<1> QED BY <1>1, <1>2 DEF FoldingHolds

\* Every folding is a largest circulation of whole lots, and every settlement
\* pays everybody and makes or loses not one atom: for every set of intents,
\* every bank and every choice of the venues.  (clearing)
THEOREM FoldingIsSound == FoldSpec => []FoldingHolds
<1>1. FoldInit => FoldInv
    BY FoldStarts
<1>2. FoldInv /\ [FoldNext]_foldVars => FoldInv'
    BY FoldStep
<1>3. FoldInv => FoldingHolds
    BY FoldInvHolds
<1> QED BY <1>1, <1>2, <1>3, PTL DEF FoldSpec

-----------------------------------------------------------------------------
(* The refinement of a split: amounts and their prices.                    *)

\* A sum is the sum of its amounts, whichever order they are added in.
\* (Summed)
LEMMA SummedIs ==
    ASSUME NEW f, NEW S
    PROVE  Summed(f, S) = SumIn(f, S)
BY DEF Summed, SumIn, FoldSet, MapThenSumSet, MapThenFoldSet

\* What quotes are: natural numbers for up to all of the amount, and nothing
\* for nothing.
GoodPrice(price, amount) ==
    /\ amount \in Nat /\ Len(price) \in Nat /\ DOMAIN price = 1..Len(price)
    /\ \A i \in DOMAIN price : \A x \in 0..amount :
         price[i][x].out \in Nat /\ price[i][x].cost \in Nat
    /\ \A i \in DOMAIN price : price[i][0].ok /\ price[i][0].out = 0 /\ price[i][0].cost = 0
GoodLimits(limits) == limits.calls \in Nat /\ limits.cost \in Nat /\ limits.legs \in Nat

\* Amounts for the venues, and what they are priced at.
Inputs(price, amount) == [DOMAIN price -> 0..amount]
Outs(price, inputs) == [i \in DOMAIN inputs |-> price[i][inputs[i]].out]
Costs(price, inputs) == [i \in DOMAIN inputs |-> price[i][inputs[i]].cost]

\* Pricing amounts gives natural numbers.  (Priced)
LEMMA PricedIs ==
    ASSUME NEW price, NEW amount, GoodPrice(price, amount), NEW inputs \in Inputs(price, amount)
    PROVE  /\ Priced(price, inputs) = [inputs |-> inputs, output |-> Priced(price, inputs).output,
                                       cost |-> Priced(price, inputs).cost]
           /\ Priced(price, inputs).inputs = inputs
           /\ Priced(price, inputs).output \in Nat /\ Priced(price, inputs).cost \in Nat
           /\ Priced(price, inputs).output = SumIn(Outs(price, inputs), DOMAIN price)
<1>1. DOMAIN inputs = DOMAIN price /\ IsFiniteSet(DOMAIN price)
  <2>1. DOMAIN price = 1..Len(price) /\ 1 \in Int /\ Len(price) \in Int
      BY DEF GoodPrice
  <2>2. IsFiniteSet(1..Len(price))
      BY <2>1, FS_Interval
  <2> QED BY <2>1, <2>2 DEF Inputs
<1>2. \A i \in DOMAIN price :
        /\ Outs(price, inputs)[i] = price[i][inputs[i]].out
        /\ Costs(price, inputs)[i] = price[i][inputs[i]].cost
    BY <1>1 DEF Outs, Costs
<1>3. \A i \in DOMAIN price : inputs[i] \in 0..amount
    BY DEF Inputs
<1>4. \A i \in DOMAIN price : Outs(price, inputs)[i] \in Nat /\ Costs(price, inputs)[i] \in Nat
    BY <1>2, <1>3 DEF GoodPrice
<1>5. SumIn(Outs(price, inputs), DOMAIN price) \in Nat /\ SumIn(Costs(price, inputs), DOMAIN price) \in Nat
    BY <1>1, <1>4, SumOfNaturals
<1>6. Priced(price, inputs) = [inputs |-> inputs, output |-> Summed(Outs(price, inputs), DOMAIN inputs),
                               cost |-> Summed(Costs(price, inputs), DOMAIN inputs)]
    BY DEF Priced, Outs, Costs
<1> QED BY <1>1, <1>5, <1>6, SummedIs

-----------------------------------------------------------------------------
(* Even splits.                                                            *)

\* The venues behind i.
Behind(mask, i) == {j \in mask : j > i}

\* Of any number of venues as many as one likes have fewer behind them.
LEMMA LastOnes ==
    ASSUME NEW mask, IsFiniteSet(mask), mask \subseteq Nat,
           NEW r \in Nat, r <= Cardinality(mask)
    PROVE  Cardinality({i \in mask : Cardinality(Behind(mask, i)) < r}) = r
<1> DEFINE c == Cardinality(mask)
           h == [i \in mask |-> Cardinality(Behind(mask, i))]
           T == {i \in mask : Cardinality(Behind(mask, i)) < r}
<1>0. c \in Nat
    BY FS_CardinalityType
<1>1. \A i \in mask : Behind(mask, i) \subseteq mask /\ i \notin Behind(mask, i)
    BY DEF Behind
<1>2. \A i \in mask : IsFiniteSet(Behind(mask, i)) /\ Cardinality(Behind(mask, i)) \in Nat
    BY <1>1, FS_Subset, FS_CardinalityType
<1>3. \A i \in mask : Cardinality(Behind(mask, i)) < c
  <2> TAKE i \in mask
  <2>1. Behind(mask, i) \in SUBSET mask /\ Behind(mask, i) # mask
      BY <1>1
  <2> QED BY <1>0, <1>2, <2>1, FS_Subset
<1>4. ASSUME NEW i \in mask, NEW j \in mask, i < j PROVE Cardinality(Behind(mask, j)) < Cardinality(Behind(mask, i))
  <2>1. i \in Nat /\ j \in Nat /\ \A k \in mask : k \in Nat
      OBVIOUS
  <2>2. Behind(mask, j) \in SUBSET Behind(mask, i) /\ j \in Behind(mask, i) /\ j \notin Behind(mask, j)
    <3>1. \A k \in mask : k > j => k > i
        BY <1>4, <2>1
    <3>2. j > i /\ ~(j > j)
        BY <1>4, <2>1
    <3> HIDE DEF h, T, c
    <3> QED BY <3>1, <3>2 DEF Behind
  <2>3. Behind(mask, j) # Behind(mask, i)
      BY <2>2
  <2> QED BY <1>2, <2>2, <2>3, FS_Subset
<1>5. \A i, j \in mask : Cardinality(Behind(mask, i)) = Cardinality(Behind(mask, j)) => i = j
  <2> SUFFICES ASSUME NEW i \in mask, NEW j \in mask, i # j
               PROVE  Cardinality(Behind(mask, i)) # Cardinality(Behind(mask, j))
      OBVIOUS
  <2>1. i \in Nat /\ j \in Nat
      OBVIOUS
  <2>2. CASE i < j
      BY <1>2, <1>4, <2>2
  <2>3. CASE j < i
      BY <1>2, <1>4, <2>3
  <2> QED BY <2>1, <2>2, <2>3
<1>6. IsFiniteSet(0..(c - 1)) /\ Cardinality(0..(c - 1)) = c
  <2>1. 0 \in Int /\ c - 1 \in Int
      BY <1>0
  <2> HIDE DEF c
  <2> QED BY <1>0, <2>1, FS_Interval
<1>7. h \in Injection(mask, 0..(c - 1))
    BY <1>0, <1>2, <1>3, <1>5 DEF Injection, IsInjective
<1>8. h \in Surjection(mask, 0..(c - 1))
    BY <1>6, <1>7, FS_Injection
<1>9. \A n \in 0..(c - 1) : \E i \in mask : Cardinality(Behind(mask, i)) = n
    BY <1>8 DEF Surjection
<1> DEFINE g == [i \in T |-> Cardinality(Behind(mask, i))]
<1>10. T \subseteq mask /\ IsFiniteSet(T)
    BY FS_Subset
<1>11. g \in Injection(T, 0..(r - 1))
  <2>1. \A i \in T : g[i] = Cardinality(Behind(mask, i)) /\ g[i] \in 0..(r - 1) /\ i \in mask
      BY <1>2
  <2>2. g \in [T -> 0..(r - 1)]
      BY <2>1
  <2> HIDE DEF g, T
  <2>3. IsInjective(g)
      BY <1>5, <2>1, <2>2 DEF IsInjective
  <2> QED BY <2>2, <2>3 DEF Injection
<1>12. \A n \in 0..(r - 1) : \E i \in T : g[i] = n
  <2> TAKE n \in 0..(r - 1)
  <2>1. n \in 0..(c - 1) /\ n < r
      BY <1>0
  <2>2. PICK i \in mask : Cardinality(Behind(mask, i)) = n
      BY <1>9, <2>1
  <2>3. i \in T /\ g[i] = n
      BY <2>1, <2>2
  <2> QED BY <2>3
<1>13. g \in Surjection(T, 0..(r - 1))
    BY <1>11, <1>12 DEF Injection, Surjection
<1> HIDE DEF g, T, h, c
<1>14. IsFiniteSet(0..(r - 1)) /\ Cardinality(0..(r - 1)) = r
  <2>1. 0 \in Int /\ r - 1 \in Int /\ (0 > r - 1 => r = 0)
      OBVIOUS
  <2>2. IsFiniteSet(0..(r - 1)) /\ Cardinality(0..(r - 1)) = IF 0 > r - 1 THEN 0 ELSE (r - 1) - 0 + 1
      BY <2>1, FS_Interval
  <2> QED BY <2>1, <2>2
<1>15. Cardinality(T) = r
    BY <1>11, <1>13, <1>14, FS_Injection
<1> QED BY <1>15 DEF T

-----------------------------------------------------------------------------
(* Even splits.                                                            *)

\* An even split of an amount over some of the venues.
EvenInputs(n, mask, amount) == [i \in 1..n |-> IF i \in mask THEN Evenly(mask, amount, i) ELSE 0]

\* It spends the amount, on those venues only.  (Evenly)
LEMMA EvenSplits ==
    ASSUME NEW n \in Nat, NEW mask \in SUBSET (1..n), mask # {}, NEW amount \in Nat
    PROVE  /\ EvenInputs(n, mask, amount) \in [1..n -> 0..amount]
           /\ SumIn(EvenInputs(n, mask, amount), 1..n) = amount
           /\ Holders(EvenInputs(n, mask, amount)) \subseteq mask
<1> DEFINE c == Cardinality(mask)
           q == amount \div c
           r == amount % c
           e == EvenInputs(n, mask, amount)
           T == {i \in mask : Cardinality(Behind(mask, i)) < r}
           one == [i \in mask |-> IF i \in T THEN 1 ELSE 0]
           each == [i \in mask |-> q]
<1>1. IsFiniteSet(1..n) /\ IsFiniteSet(mask) /\ mask \subseteq Nat
  <2>1. IsFiniteSet(1..n)
      BY FS_Interval
  <2>2. mask \in SUBSET (1..n) /\ mask \subseteq Nat
      OBVIOUS
  <2>3. IsFiniteSet(mask)
      BY <2>1, <2>2, FS_Subset
  <2> QED BY <2>1, <2>2, <2>3
<1>2. c \in Nat \ {0}
    BY <1>1, FS_CardinalityType, FS_EmptySet
<1>3. q \in Nat /\ r \in Nat /\ r < c /\ amount = q * c + r
  <2> HIDE DEF c
  <2>1. q \in Nat /\ r \in 0..(c - 1)
      BY <1>2
  <2>2. amount = c * q + r
      BY <1>2
  <2> QED BY <1>2, <2>1, <2>2
<1>4. \A i \in mask : e[i] = q + (IF i \in T THEN 1 ELSE 0)
    BY DEF EvenInputs, Evenly, Behind
<1>5. \A i \in (1..n) \ mask : e[i] = 0
    BY DEF EvenInputs
<1>6. DOMAIN e = 1..n
    BY DEF EvenInputs
<1>7. \A i \in 1..n : e[i] \in Nat
  <2> HIDE DEF e, q, r, T
  <2> QED BY <1>3, <1>4, <1>5
<1>8. SumIn(e, 1..n) = amount
  <2>1. SumIn(e, 1..n) = SumIn(e, mask)
    <3>1. \A i \in 1..n : e[i] \in Int
        BY <1>7
    <3> HIDE DEF e
    <3> QED BY <1>1, <1>5, <3>1, SumOfSome
  <2>2. SumIn(one, mask) = r
    <3>1. Cardinality(T) = r
      <4> HIDE DEF r
      <4>1. r \in Nat /\ r <= Cardinality(mask)
          BY <1>2, <1>3
      <4> QED BY <1>1, <4>1, LastOnes
    <3>2. T \in SUBSET mask /\ IsFiniteSet(T)
        BY <1>1, FS_Subset
    <3>3. (\A x \in mask : one[x] \in Int) /\ (\A x \in mask \ T : one[x] = 0) /\ \A x \in T : one[x] = 1
      <4> HIDE DEF T
      <4> QED BY <3>2
    <3> HIDE DEF one, T, e, q, r, c
    <3>4. SumIn(one, mask) = SumIn(one, T)
        BY <1>1, <3>2, <3>3, SumOfSome
    <3>5. SumIn(one, T) = 1 * Cardinality(T)
      <4>1. 1 \in Int
          OBVIOUS
      <4> QED BY <3>2, <3>3, <4>1, SumOfEqual
    <3> QED BY <1>3, <3>1, <3>4, <3>5
  <2>3. SumIn(each, mask) = q * c
    <3>1. \A x \in mask : each[x] = q
        OBVIOUS
    <3>2. q \in Int
        BY <1>3
    <3> HIDE DEF each, q, e, T, one, r
    <3>3. SumIn(each, mask) = q * Cardinality(mask)
        BY <1>1, <3>1, <3>2, SumOfEqual
    <3> QED BY <3>3
  <2>4. SumIn(e, mask) = SumIn(each, mask) + SumIn(one, mask)
    <3>1. \A x \in mask : each[x] = q /\ one[x] = IF x \in T THEN 1 ELSE 0
        OBVIOUS
    <3> HIDE DEF each, one, e, q, T
    <3>2. \A x \in mask : each[x] \in Int /\ one[x] \in Int /\ e[x] = each[x] + one[x]
        BY <1>3, <1>4, <3>1
    <3> QED BY <1>1, <3>2, SumAdded
  <2> HIDE DEF e, each, one, q, r, c
  <2> QED BY <1>3, <2>1, <2>2, <2>3, <2>4
<1>9. \A i \in 1..n : e[i] <= amount
  <2> TAKE i \in 1..n
  <2> HIDE DEF e
  <2>1. SumIn(e, 1..n) = e[i] + SumIn(e, (1..n) \ {i})
      BY <1>1, <1>7, SumOfRest
  <2>2. IsFiniteSet((1..n) \ {i})
      BY <1>1, FS_Subset
  <2>3. SumIn(e, (1..n) \ {i}) \in Nat
      BY <1>7, <2>2, SumOfNaturals
  <2> QED BY <1>7, <1>8, <2>1, <2>3
<1>10. e \in [1..n -> 0..amount]
  <2>1. e = [i \in 1..n |-> e[i]]
      BY DEF EvenInputs
  <2> HIDE DEF e
  <2> QED BY <1>7, <1>9, <2>1
<1>11. Holders(e) \subseteq mask
  <2> HIDE DEF e
  <2> QED BY <1>5, <1>6, <1>7 DEF Holders
<1> QED BY <1>8, <1>10, <1>11

IsMask(g, n) == g = [k \in 0..n |-> IF k = 0 THEN <<{}>> ELSE Doubled(g[k - 1], k)]
MaskLists(n) == CHOOSE g : IsMask(g, n)

\* The sets of venues are listed by doubling.  (Masks)
LEMMA MaskRuns ==
    ASSUME NEW n \in Nat, NEW X, <<{}>> \in X,
           \A k \in 1..n : \A u \in X : Doubled(u, k) \in X
    PROVE  LET f == MaskLists(n) IN
           /\ Masks(n) = Tail(f[n]) /\ f[0] = <<{}>>
           /\ \A k \in 0..n : f[k] \in X
           /\ \A k \in 1..n : f[k] = Doubled(f[k - 1], k)
<1> DEFINE z == <<{}>>
           f == MaskLists(n)
           F == [p \in (1..n) \X X |-> Doubled(p[2], p[1])]
<1>0. z \in X
    OBVIOUS
<1>1. F \in [(1..n) \X X -> X] /\ \A k \in 1..n : \A u \in X : F[<<k, u>>] = Doubled(u, k)
    OBVIOUS
<1> HIDE DEF F
<1>2. PICK g \in [0..n -> X] : g[0] = z /\ \A k \in 1..n : g[k] = F[<<k, g[k - 1]>>]
  <2>1. \E g : Runs(g, X, z, n, F)
      BY <1>1, Iterated
  <2> QED BY <2>1 DEF Runs
<1>3. \A k \in 0..n : g[k] = IF k = 0 THEN z ELSE Doubled(g[k - 1], k)
  <2> TAKE k \in 0..n
  <2>1. CASE k = 0
      BY <1>2, <2>1
  <2>2. CASE k # 0
    <3>1. k \in 1..n /\ g[k - 1] \in X
        BY <1>2, <2>2
    <3>2. g[k] = F[<<k, g[k - 1]>>]
        BY <1>2, <3>1
    <3> QED BY <1>1, <2>2, <3>1, <3>2
  <2> QED BY <2>1, <2>2
<1>4. IsMask(g, n)
  <2>1. g = [k \in 0..n |-> g[k]]
      BY <1>2
  <2> QED BY <1>3, <2>1 DEF IsMask
<1>5. IsMask(f, n)
    BY <1>4 DEF MaskLists
<1>6. Masks(n) = Tail(f[n])
    BY DEF Masks, MaskLists, IsMask
<1> HIDE DEF f, z
<1>7. f[0] = z /\ \A k \in 1..n : f[k] = Doubled(f[k - 1], k)
  <2>1. f = [k \in 0..n |-> IF k = 0 THEN z ELSE Doubled(f[k - 1], k)]
      BY <1>5 DEF IsMask, z
  <2> QED BY <2>1
<1>8. \A k \in 0..n : f[k] \in X
  <2> DEFINE P == {k \in 0..n : f[k] \in X}
  <2>1. 0 \in P /\ P \in SUBSET (0..n)
      BY <1>0, <1>7
  <2>2. ASSUME NEW k \in 1..n, k - 1 \in P PROVE k \in P
      BY <1>7, <2>2
  <2> HIDE DEF P
  <2>3. \A k \in 0..n : k \in P
      BY <2>1, <2>2, EveryStep
  <2> QED BY <2>3 DEF P
<1> QED BY <1>6, <1>7, <1>8 DEF f, z

\* Lists of sets of the first n venues of which only the first is empty.
MasksOf(n) ==
    {m \in Seq(SUBSET (1..n)) : Len(m) >= 1 /\ m[1] = {} /\ \A i \in 2..Len(m) : m[i] # {}}

\* Every mask is a set of venues that has one.  (Masks)
LEMMA MasksAre ==
    ASSUME NEW n \in Nat
    PROVE  /\ Len(Masks(n)) \in Nat
           /\ \A k \in 1..Len(Masks(n)) : Masks(n)[k] \in SUBSET (1..n) /\ Masks(n)[k] # {}
<1> DEFINE X == MasksOf(n)
           f == MaskLists(n)
<1>1. <<{}>> \in X
    BY DEF MasksOf
<1>2. ASSUME NEW k \in 1..n, NEW u \in X PROVE Doubled(u, k) \in X
  <2> DEFINE v == [i \in DOMAIN u |-> u[i] \cup {k}]
  <2>1. u \in Seq(SUBSET (1..n)) /\ Len(u) \in Nat /\ Len(u) >= 1 /\ u[1] = {} /\ \A i \in 2..Len(u) : u[i] # {}
      BY <1>2 DEF MasksOf
  <2>2. v \in Seq(SUBSET (1..n)) /\ Len(v) = Len(u) /\ \A i \in 1..Len(v) : v[i] # {}
    <3>1. DOMAIN u = 1..Len(u) /\ \A i \in 1..Len(u) : u[i] \in SUBSET (1..n)
        BY <2>1
    <3>2. v = [i \in 1..Len(u) |-> u[i] \cup {k}]
        BY <3>1
    <3>3. \A i \in 1..Len(u) : u[i] \cup {k} \in SUBSET (1..n) /\ u[i] \cup {k} # {}
        BY <3>1
    <3> HIDE DEF v
    <3>4. v \in Seq(SUBSET (1..n)) /\ Len(v) = Len(u)
        BY <2>1, <3>2, <3>3
    <3> QED BY <3>2, <3>3, <3>4
  <2> HIDE DEF v
  <2>3. u \o v \in Seq(SUBSET (1..n)) /\ Len(u \o v) = Len(u) + Len(v) /\ (u \o v)[1] = {}
      BY <2>1, <2>2
  <2>4. \A i \in 2..Len(u \o v) : (u \o v)[i] # {}
    <3> TAKE i \in 2..Len(u \o v)
    <3>1. CASE i <= Len(u)
        BY <2>1, <2>2, <2>3, <3>1
    <3>2. CASE i > Len(u)
      <4>1. i - Len(u) \in 1..Len(v) /\ (u \o v)[i] = v[i - Len(u)]
          BY <2>1, <2>2, <2>3, <3>2
      <4> QED BY <2>2, <4>1
    <3> QED BY <2>1, <2>3, <3>1, <3>2
  <2>5. u \o v \in X
    <3>1. Len(u \o v) >= 1
        BY <2>1, <2>2, <2>3
    <3> DEFINE w == u \o v
    <3>2. w \in Seq(SUBSET (1..n)) /\ Len(w) >= 1 /\ w[1] = {} /\ \A i \in 2..Len(w) : w[i] # {}
        BY <2>3, <2>4, <3>1
    <3> HIDE DEF w
    <3>3. w \in X
        BY <3>2 DEF MasksOf
    <3> QED BY <3>3 DEF w
  <2> QED BY <2>5 DEF Doubled, v
<1> HIDE DEF X, f
<1>3. Masks(n) = Tail(f[n]) /\ f[n] \in X
  <2>1. n \in 0..n
      OBVIOUS
  <2> QED BY <1>1, <1>2, <2>1, MaskRuns DEF f
<1>4. f[n] \in Seq(SUBSET (1..n)) /\ Len(f[n]) >= 1 /\ \A i \in 2..Len(f[n]) : f[n][i] # {}
    BY <1>3 DEF X, MasksOf
<1>5. \A k \in 1..(Len(f[n]) - 1) : k + 1 \in 2..Len(f[n]) /\ f[n][k + 1] \in SUBSET (1..n)
    BY <1>4
<1>6. f[n] # <<>> /\ Len(Tail(f[n])) = Len(f[n]) - 1 /\ \A k \in 1..(Len(f[n]) - 1) : Tail(f[n])[k] = f[n][k + 1]
    BY <1>4
<1> QED BY <1>3, <1>4, <1>5, <1>6

-----------------------------------------------------------------------------
(* The seed.                                                               *)

\* What a plan for the amount is: the whole amount, quoted, and within the
\* limits.
GoodPlan(p, price, amount, limits) ==
    /\ p.inputs \in Inputs(price, amount) /\ p = Priced(price, p.inputs)
    /\ SumIn(p.inputs, DOMAIN price) = amount
    /\ \A i \in DOMAIN price : price[i][p.inputs[i]].ok
    /\ Cardinality(Holders(p.inputs)) <= limits.legs /\ p.cost <= limits.cost
Plans(price, amount, limits) ==
    {p \in [inputs : Inputs(price, amount), output : Nat, cost : Nat] :
        GoodPlan(p, price, amount, limits)}
\* The best even split so far, if there is one.
SeedStates(price, amount, limits) ==
    [calls : 0..limits.calls, best : Plans(price, amount, limits) \cup {Nothing(price)}]

\* The venues that are given something.
LEMMA HoldersAre ==
    ASSUME NEW price, NEW amount, GoodPrice(price, amount), NEW inputs \in Inputs(price, amount)
    PROVE  /\ Holders(inputs) \in SUBSET DOMAIN price /\ IsFiniteSet(Holders(inputs))
           /\ Cardinality(Holders(inputs)) \in Nat
           /\ IsFiniteSet(DOMAIN price) /\ Cardinality(Holders(inputs)) <= Cardinality(DOMAIN price)
           /\ \A i \in DOMAIN price \ Holders(inputs) : inputs[i] = 0 /\ price[i][inputs[i]].ok
<1>1. DOMAIN price = 1..Len(price) /\ Len(price) \in Nat /\ \A i \in DOMAIN price : price[i][0].ok
    BY DEF GoodPrice
<1>2. IsFiniteSet(1..Len(price))
    BY <1>1, FS_Interval
<1>3. DOMAIN inputs = DOMAIN price /\ \A i \in DOMAIN price : inputs[i] \in Nat
    BY DEF Inputs, GoodPrice
<1>4. Holders(inputs) \in SUBSET DOMAIN price /\ \A i \in DOMAIN price \ Holders(inputs) : inputs[i] = 0
    BY <1>3 DEF Holders
<1>5. IsFiniteSet(DOMAIN price)
    BY <1>1, <1>2
<1>6. IsFiniteSet(Holders(inputs)) /\ Cardinality(Holders(inputs)) <= Cardinality(DOMAIN price)
    BY <1>4, <1>5, FS_Subset
<1> QED BY <1>1, <1>4, <1>5, <1>6, FS_CardinalityType

\* The lesser of two numbers.
LEMMA MinOfTwo ==
    ASSUME NEW a \in Nat, NEW b \in Nat
    PROVE  Min({a, b}) \in Nat /\ Min({a, b}) <= a /\ Min({a, b}) <= b /\ Min({a, b}) \in {a, b}
<1>1. {a, b} \in SUBSET Nat /\ {a, b} # {} /\ a \in {a, b} /\ b \in {a, b}
    OBVIOUS
<1>2. Min({a, b}) \in {a, b} /\ \A y \in {a, b} : Min({a, b}) <= y
    BY <1>1, MinIs
<1> QED BY <1>1, <1>2

\* What is priced well is a plan.
LEMMA PlanIs ==
    ASSUME NEW price, NEW amount, GoodPrice(price, amount), NEW limits,
           NEW inputs \in Inputs(price, amount), SumIn(inputs, DOMAIN price) = amount,
           \A i \in Holders(inputs) : price[i][inputs[i]].ok,
           Cardinality(Holders(inputs)) <= limits.legs,
           Priced(price, inputs).cost <= limits.cost
    PROVE  Priced(price, inputs) \in Plans(price, amount, limits)
<1> DEFINE p == Priced(price, inputs)
<1>1. p = [inputs |-> inputs, output |-> p.output, cost |-> p.cost] /\ p.inputs = inputs
      /\ p.output \in Nat /\ p.cost \in Nat
    BY PricedIs
<1>2. \A i \in DOMAIN price : price[i][inputs[i]].ok
    BY HoldersAre
<1> HIDE DEF p
<1>3. p \in [inputs : Inputs(price, amount), output : Nat, cost : Nat]
    BY <1>1
<1>4. GoodPlan(p, price, amount, limits)
  <2>1. p = Priced(price, p.inputs) /\ p.cost <= limits.cost
      BY <1>1 DEF p
  <2> QED BY <1>1, <1>2, <2>1 DEF GoodPlan
<1> QED BY <1>3, <1>4 DEF p, Plans

\* Trying a split leaves the best of the plans.  (TrySplit)
LEMMA TrySplitKeeps ==
    ASSUME NEW price, NEW amount, GoodPrice(price, amount), NEW limits, GoodLimits(limits),
           NEW s \in SeedStates(price, amount, limits),
           NEW mask \in SUBSET (1..Len(price)), mask # {}
    PROVE  TrySplit(price, amount, limits, s, mask) \in SeedStates(price, amount, limits)
<1> DEFINE inputs == EvenInputs(Len(price), mask, amount)
           failing == Failing(price, inputs)
           calls == s.calls + Asked(inputs, failing)
           p == Priced(price, inputs)
           t == [calls |-> Min({calls, limits.calls}),
                 best |-> Kept(s.best, p, failing = {} /\ calls <= limits.calls, limits)]
           room == Min({limits.legs, amount})
<1>1. Len(price) \in Nat /\ DOMAIN price = 1..Len(price) /\ amount \in Nat
      /\ limits.calls \in Nat /\ limits.legs \in Nat
    BY DEF GoodPrice, GoodLimits
<1>2. inputs \in Inputs(price, amount) /\ SumIn(inputs, DOMAIN price) = amount /\ Holders(inputs) \subseteq mask
  <2>1. /\ inputs \in [1..Len(price) -> 0..amount] /\ SumIn(inputs, 1..Len(price)) = amount
        /\ Holders(inputs) \subseteq mask
      BY <1>1, EvenSplits
  <2> HIDE DEF inputs
  <2> QED BY <1>1, <2>1 DEF Inputs
<1>3. SUFFICES ASSUME ~(s.calls = limits.calls \/ Cardinality(mask) > room)
               PROVE  t \in SeedStates(price, amount, limits)
  <2>1. [i \in DOMAIN price |-> IF i \in mask THEN Evenly(mask, amount, i) ELSE 0] = inputs
      BY <1>1 DEF EvenInputs
  <2> QED BY <2>1 DEF TrySplit, AskSplit, AskAll, Counted
<1>4. s.calls \in 0..limits.calls /\ s.best \in Plans(price, amount, limits) \cup {Nothing(price)}
    BY DEF SeedStates
<1>5. calls \in Nat
  <2>1. Cardinality(Holders(inputs)) \in Nat /\ IsFiniteSet(Holders(inputs))
      BY <1>2, HoldersAre
  <2>2. IsFiniteSet({j \in Holders(inputs) : j <= Min(failing)})
      BY <2>1, FS_Subset
  <2>3. Cardinality({j \in Holders(inputs) : j <= Min(failing)}) \in Nat
      BY <2>2, FS_CardinalityType
  <2>4. Asked(inputs, failing) \in Nat
      BY <2>1, <2>3 DEF Asked
  <2> HIDE DEF inputs, failing
  <2> QED BY <1>1, <1>4, <2>4
<1>6. t.calls \in 0..limits.calls
  <2> HIDE DEF calls, p, failing
  <2> QED BY <1>1, <1>5, MinOfTwo
<1>7. CASE failing = {} /\ p.cost <= limits.cost
  <2>1. Cardinality(Holders(inputs)) <= limits.legs
    <3>1. IsFiniteSet(mask) /\ Cardinality(mask) \in Nat
      <4>1. IsFiniteSet(1..Len(price))
          BY <1>1, FS_Interval
      <4>2. IsFiniteSet(mask)
          BY <4>1, FS_Subset
      <4> QED BY <4>2, FS_CardinalityType
    <3>2. Cardinality(Holders(inputs)) <= Cardinality(mask) /\ Cardinality(Holders(inputs)) \in Nat
      <4>1. Holders(inputs) \in SUBSET mask
          BY <1>2
      <4>2. Cardinality(Holders(inputs)) <= Cardinality(mask)
        <5> HIDE DEF inputs
        <5> QED BY <3>1, <4>1, FS_Subset
      <4> QED BY <1>2, <4>2, HoldersAre
    <3>3. room \in Nat /\ room <= limits.legs
        BY <1>1, MinOfTwo
    <3> HIDE DEF room, inputs
    <3> QED BY <1>1, <1>3, <3>1, <3>2, <3>3
  <2>2. \A i \in Holders(inputs) : price[i][inputs[i]].ok
    <3> HIDE DEF inputs
    <3> QED BY <1>7 DEF Failing
  <2>3. p \in Plans(price, amount, limits)
    <3> HIDE DEF inputs
    <3> QED BY <1>2, <1>7, <2>1, <2>2, PlanIs
  <2> HIDE DEF p, inputs, failing, calls
  <2>4. t.best \in Plans(price, amount, limits) \cup {Nothing(price)}
      BY <1>4, <2>3 DEF Kept
  <2> QED BY <1>6, <2>4 DEF SeedStates
<1>8. CASE ~(failing = {} /\ p.cost <= limits.cost)
  <2> HIDE DEF p, inputs, failing, calls
  <2>1. t.best = s.best
      BY <1>8 DEF Kept
  <2> QED BY <1>4, <1>6, <2>1 DEF SeedStates
<1> QED BY <1>7, <1>8

NoSplit(price) == [calls |-> 0, best |-> Nothing(price)]
IsSeeding(g, price, amount, limits, masks) ==
    g = [k \in 0..Len(masks) |->
            IF k = 0 THEN NoSplit(price)
            ELSE TrySplit(price, amount, limits, g[k - 1], masks[k])]
SeedingSteps(price, amount, limits, masks) == CHOOSE g : IsSeeding(g, price, amount, limits, masks)

\* The splits are tried one after the other.  (SeedOver)
LEMMA SeedingRuns ==
    ASSUME NEW price, NEW amount, NEW limits, NEW masks, Len(masks) \in Nat, NEW X, NoSplit(price) \in X,
           \A k \in 1..Len(masks) : \A u \in X : TrySplit(price, amount, limits, u, masks[k]) \in X
    PROVE  LET f == SeedingSteps(price, amount, limits, masks) IN
           /\ SeedOver(price, amount, limits, masks) = f[Len(masks)] /\ f[0] = NoSplit(price)
           /\ \A k \in 0..Len(masks) : f[k] \in X
           /\ \A k \in 1..Len(masks) : f[k] = TrySplit(price, amount, limits, f[k - 1], masks[k])
<1> DEFINE n == Len(masks)
           z == NoSplit(price)
           f == SeedingSteps(price, amount, limits, masks)
           F == [p \in (1..n) \X X |-> TrySplit(price, amount, limits, p[2], masks[p[1]])]
<1>0. z \in X
    OBVIOUS
<1>1. F \in [(1..n) \X X -> X] /\ \A k \in 1..n : \A u \in X : F[<<k, u>>] = TrySplit(price, amount, limits, u, masks[k])
    OBVIOUS
<1> HIDE DEF F
<1>2. PICK g \in [0..n -> X] : g[0] = z /\ \A k \in 1..n : g[k] = F[<<k, g[k - 1]>>]
  <2>1. \E g : Runs(g, X, z, n, F)
      BY <1>1, Iterated
  <2> QED BY <2>1 DEF Runs
<1>3. \A k \in 0..n : g[k] = IF k = 0 THEN z ELSE TrySplit(price, amount, limits, g[k - 1], masks[k])
  <2> TAKE k \in 0..n
  <2>1. CASE k = 0
      BY <1>2, <2>1
  <2>2. CASE k # 0
    <3>1. k \in 1..n /\ g[k - 1] \in X
        BY <1>2, <2>2
    <3>2. g[k] = F[<<k, g[k - 1]>>]
        BY <1>2, <3>1
    <3> QED BY <1>1, <2>2, <3>1, <3>2
  <2> QED BY <2>1, <2>2
<1>4. IsSeeding(g, price, amount, limits, masks)
  <2>1. g = [k \in 0..n |-> g[k]]
      BY <1>2
  <2> QED BY <1>3, <2>1 DEF IsSeeding
<1>5. IsSeeding(f, price, amount, limits, masks)
    BY <1>4 DEF SeedingSteps
<1>6. SeedOver(price, amount, limits, masks) = f[n]
    BY DEF SeedOver, NoSplit, SeedingSteps, IsSeeding
<1> HIDE DEF f, z
<1>7. f[0] = z /\ \A k \in 1..n : f[k] = TrySplit(price, amount, limits, f[k - 1], masks[k])
  <2>1. f = [k \in 0..n |-> IF k = 0 THEN z ELSE TrySplit(price, amount, limits, f[k - 1], masks[k])]
      BY <1>5 DEF IsSeeding, z
  <2> QED BY <2>1
<1>8. \A k \in 0..n : f[k] \in X
  <2> DEFINE P == {k \in 0..n : f[k] \in X}
  <2>1. 0 \in P /\ P \in SUBSET (0..n)
      BY <1>0, <1>7
  <2>2. ASSUME NEW k \in 1..n, k - 1 \in P PROVE k \in P
      BY <1>7, <2>2
  <2> HIDE DEF P
  <2>3. \A k \in 0..n : k \in P
      BY <2>1, <2>2, EveryStep
  <2> QED BY <2>3 DEF P
<1> QED BY <1>6, <1>7, <1>8 DEF f, z

\* The seed is a plan, or there is none.  (Seed)
LEMMA SeedIs ==
    ASSUME NEW price, NEW amount, GoodPrice(price, amount), NEW limits, GoodLimits(limits)
    PROVE  Seed(price, amount, limits) \in SeedStates(price, amount, limits)
<1> DEFINE X == SeedStates(price, amount, limits)
           masks == Masks(Len(price))
<1>1. Len(price) \in Nat /\ limits.calls \in Nat
    BY DEF GoodPrice, GoodLimits
<1>2. Len(masks) \in Nat /\ \A k \in 1..Len(masks) : masks[k] \in SUBSET (1..Len(price)) /\ masks[k] # {}
    BY <1>1, MasksAre
<1> HIDE DEF masks
<1>3. NoSplit(price) \in X
    BY <1>1 DEF NoSplit, SeedStates
<1>4. \A k \in 1..Len(masks) : \A u \in X : TrySplit(price, amount, limits, u, masks[k]) \in X
    BY <1>2, TrySplitKeeps
<1> HIDE DEF X
<1>5. SeedOver(price, amount, limits, masks) \in X
  <2>1. Len(masks) \in 0..Len(masks)
      BY <1>2
  <2> QED BY <1>2, <1>3, <1>4, <2>1, SeedingRuns
<1> QED BY <1>5 DEF Seed, X, masks

-----------------------------------------------------------------------------
(* Exchanges.                                                              *)

\* Division with a remainder.
LEMMA Divides ==
    ASSUME NEW n \in Nat \ {0}, NEW x \in Nat, NEW q, q = x \div n, NEW r, r = x % n
    PROVE  q \in Nat /\ x = n * q + r /\ r \in 0..(n - 1)
<1>1. q \in Nat /\ r \in 0..(n - 1)
    OBVIOUS
<1>2. x = n * q + r
    OBVIOUS
<1> QED BY <1>1, <1>2

\* Division with a remainder undoes multiplication.
LEMMA DividesBack ==
    ASSUME NEW n \in Nat \ {0}, NEW q \in Nat, NEW r \in 0..(n - 1), NEW x \in Nat, x = q * n + r
    PROVE  x \div n = q /\ x % n = r
<1> DEFINE p == x \div n
<1> DEFINE m == x % n
<1>1. p = x \div n /\ m = x % n
    OBVIOUS
<1> HIDE DEF p, m
<1>2. x = n * p + m /\ m \in 0..(n - 1) /\ p \in Nat
    BY <1>1, Divides
<1>3. ~(p + 1 <= q)
  <2> SUFFICES ASSUME p + 1 <= q PROVE FALSE
      OBVIOUS
  <2>1. (p + 1) * n <= q * n
      BY <1>2, TimesAtMost
  <2>2. (p + 1) * n = n * p + n
      BY <1>2
  <2> QED BY <1>2, <2>1, <2>2
<1>4. ~(q + 1 <= p)
  <2> SUFFICES ASSUME q + 1 <= p PROVE FALSE
      OBVIOUS
  <2>1. (q + 1) * n <= p * n
      BY <1>2, TimesAtMost
  <2>2. (q + 1) * n = q * n + n /\ p * n = n * p
      BY <1>2
  <2> QED BY <1>2, <2>1, <2>2
<1>5. p = q
    BY <1>2, <1>3, <1>4
<1>6. m = r
  <2>1. n * p = q * n
      BY <1>5
  <2> QED BY <1>2, <2>1
<1> QED BY <1>5, <1>6 DEF p, m

\* The moves are the pairs of venues.  (Move)
LEMMA MovesArePairs ==
    ASSUME NEW n \in Nat
    PROVE  /\ MovePairs(n) \in Nat
           /\ \A k \in 1..MovePairs(n) : \E a, b \in 1..n : Move(n, k) = <<a, b>>
           /\ \A a, b \in 1..n : \E k \in 1..MovePairs(n) : Move(n, k) = <<a, b>>
<1>1. MovePairs(n) \in Nat /\ MovePairs(n) = n * n
    BY DEF MovePairs
<1>2. ASSUME NEW k \in 1..MovePairs(n) PROVE \E a, b \in 1..n : Move(n, k) = <<a, b>>
  <2> DEFINE q == (k - 1) \div n
             r == (k - 1) % n
  <2>1. n # 0 /\ k - 1 \in Nat /\ k - 1 < n * n
    <3>1. n # 0
      <4> SUFFICES ASSUME n = 0 PROVE FALSE
          OBVIOUS
      <4>1. n * n = 0
          OBVIOUS
      <4> QED BY <1>1, <4>1
    <3> QED BY <1>1, <3>1
  <2>2. q \in Nat /\ r \in 0..(n - 1) /\ q * n <= k - 1
      BY <2>1, QuotientIs
  <2>3. q < n
    <3> SUFFICES ASSUME n <= q PROVE FALSE
        BY <2>2
    <3> HIDE DEF q
    <3>1. n * n <= q * n
        BY <2>2, TimesAtMost
    <3> QED BY <1>1, <2>1, <2>2, <3>1
  <2>4. q + 1 \in 1..n /\ r + 1 \in 1..n
    <3> HIDE DEF q, r
    <3> QED BY <2>2, <2>3
  <2>5. Move(n, k) = <<q + 1, r + 1>>
      BY DEF Move
  <2> HIDE DEF q, r
  <2> QED BY <2>4, <2>5
<1>3. ASSUME NEW a \in 1..n, NEW b \in 1..n PROVE \E k \in 1..MovePairs(n) : Move(n, k) = <<a, b>>
  <2> DEFINE x == (a - 1) * n + (b - 1)
  <2>1. n \in Nat \ {0} /\ a - 1 \in Nat /\ b - 1 \in 0..(n - 1) /\ x \in Nat
      OBVIOUS
  <2>2. x \div n = a - 1 /\ x % n = b - 1
    <3>1. x = (a - 1) * n + (b - 1)
        OBVIOUS
    <3> HIDE DEF x
    <3> QED BY <2>1, <3>1, DividesBack
  <2>3. x + 1 \in 1..MovePairs(n)
    <3>1. (a - 1) * n <= (n - 1) * n
      <4>1. a - 1 \in Int /\ n - 1 \in Int /\ a - 1 <= n - 1
          OBVIOUS
      <4> QED BY <4>1, TimesAtMost
    <3>2. (n - 1) * n = n * n - n
        OBVIOUS
    <3> DEFINE y == (a - 1) * n
    <3>3. y \in Int /\ x = y + (b - 1) /\ y <= n * n - n
        BY <3>1, <3>2
    <3> HIDE DEF y, x
    <3> QED BY <1>1, <2>1, <3>3
  <2> HIDE DEF x
  <2>4. Move(n, x + 1) = <<a, b>>
    <3>1. (x + 1) - 1 = x
        BY <2>1
    <3>2. Move(n, x + 1) = <<(x \div n) + 1, (x % n) + 1>>
        BY <3>1 DEF Move
    <3>3. (x \div n) + 1 = a /\ (x % n) + 1 = b
        BY <2>2
    <3> QED BY <3>2, <3>3
  <2> QED BY <2>3, <2>4
<1> QED BY <1>1, <1>2, <1>3

\* An amount is at most the sum.
LEMMA SumHasEach ==
    ASSUME NEW f, NEW S, IsFiniteSet(S), \A x \in S : f[x] \in Nat
    PROVE  \A x \in S : f[x] <= SumIn(f, S)
<1> TAKE x \in S
<1>1. SumIn(f, S) = f[x] + SumIn(f, S \ {x})
    BY SumOfRest
<1>2. IsFiniteSet(S \ {x})
    BY FS_Subset
<1>3. SumIn(f, S \ {x}) \in Nat
    BY <1>2, SumOfNaturals
<1> QED BY <1>1, <1>3

\* Atoms that one venue gives to another stay in the plan, and no more venues
\* are used than the limit says.  (MayMove, Moved)
LEMMA MovedIs ==
    ASSUME NEW price, NEW amount, GoodPrice(price, amount), NEW limits, GoodLimits(limits),
           NEW best \in Plans(price, amount, limits), NEW step \in Nat \ {0},
           NEW from \in DOMAIN price, NEW to \in DOMAIN price, MayMove(best, step, from, to, limits)
    PROVE  LET inputs == Moved(best, step, from, to) IN
           /\ inputs \in Inputs(price, amount) /\ SumIn(inputs, DOMAIN price) = amount
           /\ Cardinality(Holders(inputs)) <= limits.legs
           /\ \A i \in DOMAIN price \ {from, to} : inputs[i] = best.inputs[i]
<1> DEFINE old == best.inputs
           D == DOMAIN price
           take == Min({step, old[from]})
           mid == [old EXCEPT ![from] = @ - take]
           new == Moved(best, step, from, to)
<1>1. old \in [D -> 0..amount] /\ SumIn(old, D) = amount /\ Cardinality(Holders(old)) <= limits.legs
    BY DEF Plans, GoodPlan, Inputs
<1>2. amount \in Nat /\ limits.legs \in Nat /\ IsFiniteSet(D)
    BY <1>1, HoldersAre DEF GoodPrice, GoodLimits, Inputs
<1>3. old[from] \in Nat /\ old[from] > 0 /\ from # to
      /\ ~(old[to] = 0 /\ take < old[from] /\ Cardinality(Holders(old)) = limits.legs)
    BY <1>1, <1>2 DEF MayMove
<1>4. take \in Nat /\ take > 0 /\ take <= old[from]
  <2> HIDE DEF old
  <2> QED BY <1>3, MinOfTwo
<1>5. new = [old EXCEPT ![from] = @ - take, ![to] = @ + take]
    BY DEF Moved
<1> HIDE DEF take, old, new
<1>6. \A i \in D : old[i] \in Nat
    BY <1>1, <1>2
<1>7. /\ DOMAIN new = D /\ new[from] = old[from] - take /\ new[to] = old[to] + take
      /\ \A i \in D \ {from, to} : new[i] = old[i]
    BY <1>1, <1>3, <1>5
<1>8. mid[from] = old[from] - take /\ \A i \in D \ {from} : mid[i] = old[i]
    BY <1>1
<1> HIDE DEF mid
<1>9. SumIn(new, D) = amount
  <2>1. SumIn(mid, D) = SumIn(old, D) + (0 - take)
    <3>1. 0 - take \in Int /\ mid[from] = old[from] + (0 - take)
        BY <1>3, <1>4, <1>8
    <3>2. \A x \in D : old[x] \in Int /\ mid[x] \in Int
        BY <1>4, <1>6, <1>8
    <3> QED BY <1>2, <1>8, <3>1, <3>2, SumWithMore
  <2>2. SumIn(new, D) = SumIn(mid, D) + take
    <3>1. take \in Int /\ new[to] = mid[to] + take
        BY <1>3, <1>4, <1>7, <1>8
    <3>2. \A x \in D : mid[x] \in Int /\ new[x] \in Int
        BY <1>4, <1>6, <1>7, <1>8
    <3>3. \A x \in D \ {to} : new[x] = mid[x]
        BY <1>7, <1>8
    <3> QED BY <1>2, <3>1, <3>2, <3>3, SumWithMore
  <2> QED BY <1>1, <1>2, <1>4, <2>1, <2>2
<1>10. \A i \in D : new[i] \in Nat
    BY <1>3, <1>4, <1>6, <1>7
<1>11. \A i \in D : new[i] <= amount
    BY <1>2, <1>9, <1>10, SumHasEach
<1>12. new \in [D -> 0..amount]
  <2>1. new = [i \in D |-> new[i]]
      BY <1>5, <1>7, <1>1
  <2> QED BY <1>2, <1>10, <1>11, <2>1
<1>13. Cardinality(Holders(new)) <= limits.legs
  <2>1. /\ Holders(old) \in SUBSET D /\ IsFiniteSet(Holders(old)) /\ Cardinality(Holders(old)) \in Nat
        /\ from \in Holders(old) /\ DOMAIN old = D
    <3>1. DOMAIN old = D
        BY <1>1
    <3>2. old \in Inputs(price, amount)
        BY <1>1 DEF Inputs
    <3>3. /\ Holders(old) \in SUBSET D /\ IsFiniteSet(Holders(old)) /\ Cardinality(Holders(old)) \in Nat
        BY <3>2, HoldersAre
    <3>4. from \in Holders(old)
        BY <1>3, <3>1 DEF Holders
    <3> QED BY <3>1, <3>3, <3>4
  <2>2. CASE old[to] > 0
    <3>1. Holders(new) \in SUBSET Holders(old)
        BY <1>3, <1>6, <1>7, <2>1, <2>2 DEF Holders
    <3>2. Cardinality(Holders(new)) <= Cardinality(Holders(old)) /\ Cardinality(Holders(new)) \in Nat
        BY <2>1, <3>1, FS_Subset, FS_CardinalityType
    <3> QED BY <1>1, <1>2, <2>1, <3>2
  <2>3. CASE old[to] = 0 /\ take = old[from]
    <3>1. Holders(new) = (Holders(old) \ {from}) \cup {to} /\ to \notin Holders(old)
      <4>1. new[from] = 0 /\ new[to] > 0 /\ ~(old[to] > 0)
          BY <1>3, <1>4, <1>6, <1>7, <2>3
      <4>2. \A i \in D : i # from /\ i # to => new[i] = old[i]
          BY <1>7
      <4> QED BY <1>3, <1>7, <2>1, <4>1, <4>2 DEF Holders
    <3>2. /\ IsFiniteSet(Holders(old) \ {from})
          /\ Cardinality(Holders(old) \ {from}) = Cardinality(Holders(old)) - 1
        BY <2>1, FS_RemoveElement
    <3>3. Cardinality((Holders(old) \ {from}) \cup {to}) = Cardinality(Holders(old) \ {from}) + 1
        BY <3>1, <3>2, FS_AddElement
    <3> QED BY <1>1, <2>1, <3>1, <3>2, <3>3
  <2>4. CASE old[to] = 0 /\ take < old[from]
    <3>1. Holders(new) = Holders(old) \cup {to} /\ to \notin Holders(old)
        BY <1>3, <1>4, <1>6, <1>7, <2>1, <2>4 DEF Holders
    <3>2. Cardinality(Holders(old) \cup {to}) = Cardinality(Holders(old)) + 1
        BY <2>1, <3>1, FS_AddElement
    <3>3. Cardinality(Holders(old)) # limits.legs
        BY <1>3, <2>4
    <3> QED BY <1>1, <1>2, <2>1, <3>1, <3>2, <3>3
  <2> QED BY <1>3, <1>4, <1>6, <2>2, <2>3, <2>4
<1> QED BY <1>7, <1>9, <1>12, <1>13 DEF Inputs, old, new

-----------------------------------------------------------------------------
(* A round of exchanges.                                                   *)

\* Plans that are no worse than the best one so far.
NoWorse(price, amount, limits, best) ==
    {p \in Plans(price, amount, limits) : p = best \/ p.output > best.output}
\* The state of a round that began with `best`.
MoveStates(price, amount, limits, best) ==
    [over : BOOLEAN, calls : 0..limits.calls, next : NoWorse(price, amount, limits, best)]

\* A move from a to b that brings no more than `most`, or costs too much.
WorthlessMove(price, limits, step, best, most, a, b) ==
    MayMove(best, step, a, b, limits) =>
        LET inputs == Moved(best, step, a, b) IN
        Answered(price, inputs, <<a, b>>) =>
            Priced(price, inputs).output <= most \/ Priced(price, inputs).cost > limits.cost

\* What is better stays better.
LEMMA WorthlessStays ==
    ASSUME NEW price, NEW amount, GoodPrice(price, amount), NEW limits, GoodLimits(limits),
           NEW best \in Plans(price, amount, limits), NEW step \in Nat \ {0},
           NEW a \in DOMAIN price, NEW b \in DOMAIN price,
           NEW most \in Nat, NEW more \in Nat, most <= more,
           WorthlessMove(price, limits, step, best, most, a, b)
    PROVE  WorthlessMove(price, limits, step, best, more, a, b)
<1> SUFFICES ASSUME MayMove(best, step, a, b, limits),
                    Answered(price, Moved(best, step, a, b), <<a, b>>),
                    Priced(price, Moved(best, step, a, b)).output <= most
             PROVE  Priced(price, Moved(best, step, a, b)).output <= more
    BY DEF WorthlessMove
<1>1. Moved(best, step, a, b) \in Inputs(price, amount)
    BY MovedIs
<1>2. Priced(price, Moved(best, step, a, b)).output \in Nat
    BY <1>1, PricedIs
<1> QED BY <1>2

\* A move is taken if it is the best so far, and the calls allow it.  (TryMove)
LEMMA TryMoveKeeps ==
    ASSUME NEW price, NEW amount, GoodPrice(price, amount), NEW limits, GoodLimits(limits),
           NEW best \in Plans(price, amount, limits), NEW step \in Nat \ {0},
           NEW a \in DOMAIN price, NEW b \in DOMAIN price,
           NEW t \in MoveStates(price, amount, limits, best)
    PROVE  LET u == TryMove(price, limits, step, best, t, <<a, b>>) IN
           /\ u \in MoveStates(price, amount, limits, best)
           /\ u.next.output >= t.next.output /\ (t.over => u.over)
           /\ ~u.over => WorthlessMove(price, limits, step, best, u.next.output, a, b)
<1> DEFINE u == TryMove(price, limits, step, best, t, <<a, b>>)
           new == Moved(best, step, a, b)
           p == Priced(price, new)
           ok == Answered(price, new, <<a, b>>)
           X == NoWorse(price, amount, limits, best)
<1>1. /\ t = [over |-> t.over, calls |-> t.calls, next |-> t.next] /\ t.over \in BOOLEAN
      /\ t.calls \in 0..limits.calls /\ t.next \in X
    BY DEF MoveStates
<1>2. limits.calls \in Nat
    BY DEF GoodLimits
<1>3. \A q \in X : q.output \in Nat /\ q \in Plans(price, amount, limits)
    BY DEF NoWorse, Plans
<1>4. best.output \in Nat /\ t.next.output >= best.output
  <2>1. best.output \in Nat
      BY DEF Plans
  <2>2. t.next = best \/ t.next.output > best.output
      BY <1>1 DEF NoWorse
  <2> QED BY <1>1, <1>3, <2>1, <2>2
<1>5. CASE t.over \/ ~MayMove(best, step, a, b, limits)
  <2>1. u = t
      BY <1>5 DEF TryMove
  <2>2. t.next.output >= t.next.output
      BY <1>1, <1>3
  <2>3. ~t.over => WorthlessMove(price, limits, step, best, t.next.output, a, b)
      BY <1>5 DEF WorthlessMove
  <2> QED BY <2>1, <2>2, <2>3
<1>6. CASE ~(t.over \/ ~MayMove(best, step, a, b, limits)) /\ t.calls + 2 > limits.calls
  <2>1. u = [t EXCEPT !.over = TRUE]
      BY <1>6 DEF TryMove
  <2>2. u = [over |-> TRUE, calls |-> t.calls, next |-> t.next]
      BY <1>1, <2>1
  <2> HIDE DEF u
  <2>3. u \in MoveStates(price, amount, limits, best)
      BY <1>1, <2>2 DEF MoveStates
  <2>4. u.over /\ u.next = t.next
      BY <2>2
  <2>5. t.next.output >= t.next.output
      BY <1>1, <1>3
  <2> QED BY <2>3, <2>4, <2>5 DEF u
<1>7. CASE ~(t.over \/ ~MayMove(best, step, a, b, limits)) /\ ~(t.calls + 2 > limits.calls)
  <2> DEFINE more == IF new[a] = 0 THEN 1 ELSE 2
             next == Kept(t.next, p, ok, limits)
  <2>1. u = [t EXCEPT !.calls = @ + more, !.next = next]
      BY <1>7 DEF TryMove, AskMove
  <2>2. u = [over |-> t.over, calls |-> t.calls + more, next |-> next]
    <3> HIDE DEF more, next
    <3> QED BY <1>1, <2>1
  <2>3. more \in 1..2
      OBVIOUS
  <2>4. new \in Inputs(price, amount) /\ SumIn(new, DOMAIN price) = amount
        /\ Cardinality(Holders(new)) <= limits.legs
        /\ \A i \in DOMAIN price \ {a, b} : new[i] = best.inputs[i]
      BY <1>7, MovedIs
  <2>5. p.output \in Nat /\ p.cost \in Nat
    <3> HIDE DEF new
    <3> QED BY <2>4, PricedIs
  <2>6. ok /\ p.cost <= limits.cost => p \in Plans(price, amount, limits)
    <3> SUFFICES ASSUME ok, p.cost <= limits.cost PROVE p \in Plans(price, amount, limits)
        OBVIOUS
    <3>1. price[a][new[a]].ok /\ price[b][new[b]].ok
      <4>1. a \in Range(<<a, b>>) /\ b \in Range(<<a, b>>)
        <5>1. DOMAIN <<a, b>> = {1, 2} /\ <<a, b>>[1] = a /\ <<a, b>>[2] = b
            OBVIOUS
        <5> QED BY <5>1 DEF Range
      <4> QED BY <4>1 DEF Answered
    <3>2. \A i \in DOMAIN price : price[i][best.inputs[i]].ok
        BY DEF Plans, GoodPlan
    <3>3. \A i \in Holders(new) : price[i][new[i]].ok
      <4>1. Holders(new) \in SUBSET DOMAIN price
        <5> HIDE DEF new
        <5> QED BY <2>4, HoldersAre
      <4> HIDE DEF new
      <4> QED BY <2>4, <3>1, <3>2, <4>1
    <3> HIDE DEF new, ok
    <3> QED BY <2>4, <3>3, PlanIs
  <2> HIDE DEF more, p, ok, new
  <2>7. next \in X /\ next.output >= t.next.output /\ (ok => p.output <= next.output \/ p.cost > limits.cost)
    <3>0. limits.cost \in Nat
        BY DEF GoodLimits
    <3>1. CASE ok /\ p.cost <= limits.cost /\ p.output > t.next.output
      <4>1. next = p
          BY <3>1 DEF Kept
      <4>2. t.next.output \in Nat /\ p.output > best.output /\ p.output >= t.next.output
          BY <1>1, <1>3, <1>4, <2>5, <3>1
      <4>3. p \in X
          BY <2>6, <3>1, <4>2 DEF NoWorse
      <4> HIDE DEF next
      <4> QED BY <2>5, <4>1, <4>2, <4>3
    <3>2. CASE ~(ok /\ p.cost <= limits.cost /\ p.output > t.next.output)
      <4>1. next = t.next
          BY <3>2 DEF Kept
      <4>2. t.next.output \in Nat
          BY <1>1, <1>3
      <4> HIDE DEF next
      <4> QED BY <1>1, <2>5, <3>0, <3>2, <4>1, <4>2
    <3> QED BY <3>1, <3>2
  <2> HIDE DEF next, u
  <2>8. u \in MoveStates(price, amount, limits, best)
    <3>1. t.calls + more \in 0..limits.calls
        BY <1>1, <1>2, <1>7, <2>3
    <3> QED BY <1>1, <2>2, <2>7, <3>1 DEF MoveStates
  <2>9. u.next = next /\ u.over = t.over
      BY <2>2
  <2>10. WorthlessMove(price, limits, step, best, next.output, a, b)
      BY <2>7 DEF WorthlessMove, p, ok, new
  <2> QED BY <2>7, <2>8, <2>9, <2>10 DEF u
<1> QED BY <1>5, <1>6, <1>7

IsTrying(g, price, limits, s, step) ==
    g = [k \in 0..MovePairs(Len(price)) |->
            IF k = 0 THEN Unmoved(s)
            ELSE TryMove(price, limits, step, s.best, g[k - 1], Move(Len(price), k))]
TryingSteps(price, limits, s, step) == CHOOSE g : IsTrying(g, price, limits, s, step)

\* The moves of a round are tried one after the other.  (Tried)
LEMMA TryingRuns ==
    ASSUME NEW price, NEW limits, NEW s, NEW step, MovePairs(Len(price)) \in Nat, NEW X, Unmoved(s) \in X,
           \A k \in 1..MovePairs(Len(price)) : \A u \in X : TryMove(price, limits, step, s.best, u, Move(Len(price), k)) \in X
    PROVE  LET f == TryingSteps(price, limits, s, step) IN
           /\ Tried(price, limits, s, step) = f[MovePairs(Len(price))] /\ f[0] = Unmoved(s)
           /\ \A k \in 0..MovePairs(Len(price)) : f[k] \in X
           /\ \A k \in 1..MovePairs(Len(price)) : f[k] = TryMove(price, limits, step, s.best, f[k - 1], Move(Len(price), k))
<1> DEFINE n == MovePairs(Len(price))
           z == Unmoved(s)
           f == TryingSteps(price, limits, s, step)
           F == [p \in (1..n) \X X |-> TryMove(price, limits, step, s.best, p[2], Move(Len(price), p[1]))]
<1>0. z \in X
    OBVIOUS
<1>1. F \in [(1..n) \X X -> X] /\ \A k \in 1..n : \A u \in X : F[<<k, u>>] = TryMove(price, limits, step, s.best, u, Move(Len(price), k))
    OBVIOUS
<1> HIDE DEF F
<1>2. PICK g \in [0..n -> X] : g[0] = z /\ \A k \in 1..n : g[k] = F[<<k, g[k - 1]>>]
  <2>1. \E g : Runs(g, X, z, n, F)
      BY <1>1, Iterated
  <2> QED BY <2>1 DEF Runs
<1>3. \A k \in 0..n : g[k] = IF k = 0 THEN z ELSE TryMove(price, limits, step, s.best, g[k - 1], Move(Len(price), k))
  <2> TAKE k \in 0..n
  <2>1. CASE k = 0
      BY <1>2, <2>1
  <2>2. CASE k # 0
    <3>1. k \in 1..n /\ g[k - 1] \in X
        BY <1>2, <2>2
    <3>2. g[k] = F[<<k, g[k - 1]>>]
        BY <1>2, <3>1
    <3> QED BY <1>1, <2>2, <3>1, <3>2
  <2> QED BY <2>1, <2>2
<1>4. IsTrying(g, price, limits, s, step)
  <2>1. g = [k \in 0..n |-> g[k]]
      BY <1>2
  <2> QED BY <1>3, <2>1 DEF IsTrying
<1>5. IsTrying(f, price, limits, s, step)
    BY <1>4 DEF TryingSteps
<1>6. Tried(price, limits, s, step) = f[n]
    BY DEF Tried, TryingSteps, IsTrying
<1> HIDE DEF f, z
<1>7. f[0] = z /\ \A k \in 1..n : f[k] = TryMove(price, limits, step, s.best, f[k - 1], Move(Len(price), k))
  <2>1. f = [k \in 0..n |-> IF k = 0 THEN z ELSE TryMove(price, limits, step, s.best, f[k - 1], Move(Len(price), k))]
      BY <1>5 DEF IsTrying, z
  <2> QED BY <2>1
<1>8. \A k \in 0..n : f[k] \in X
  <2> DEFINE P == {k \in 0..n : f[k] \in X}
  <2>1. 0 \in P /\ P \in SUBSET (0..n)
      BY <1>0, <1>7
  <2>2. ASSUME NEW k \in 1..n, k - 1 \in P PROVE k \in P
    <3>1. f[k - 1] \in X /\ k \in 0..n
        BY <2>2
    <3>2. TryMove(price, limits, step, s.best, f[k - 1], Move(Len(price), k)) \in X
        BY <3>1
    <3> QED BY <1>7, <3>1, <3>2
  <2> HIDE DEF P
  <2>3. \A k \in 0..n : k \in P
      BY <2>1, <2>2, EveryStep
  <2> QED BY <2>3 DEF P
<1> QED BY <1>6, <1>7, <1>8 DEF f, z

\* A round that ends has tried every move: it leaves a plan that is no worse,
\* and no move brings more.  (Tried)
LEMMA TriedIs ==
    ASSUME NEW price, NEW amount, GoodPrice(price, amount), NEW limits, GoodLimits(limits),
           NEW s, s.best \in Plans(price, amount, limits), s.calls \in 0..limits.calls,
           NEW step \in Nat \ {0}
    PROVE  LET t == Tried(price, limits, s, step) IN
           /\ t \in MoveStates(price, amount, limits, s.best)
           /\ ~t.over => \A a, b \in DOMAIN price :
                WorthlessMove(price, limits, step, s.best, t.next.output, a, b)
<1> DEFINE X == MoveStates(price, amount, limits, s.best)
           n == Len(price)
           f == TryingSteps(price, limits, s, step)
           N == MovePairs(n)
           Good(k) == \A j \in 1..k : \A a, b \in DOMAIN price : Move(n, j) = <<a, b>> =>
                        WorthlessMove(price, limits, step, s.best, f[k].next.output, a, b)
           P == {k \in 0..N : ~f[k].over => Good(k)}
<1>1. n \in Nat /\ DOMAIN price = 1..n
    BY DEF GoodPrice
<1>2. /\ N \in Nat
      /\ \A k \in 1..N : \E a, b \in DOMAIN price : Move(n, k) = <<a, b>>
      /\ \A a, b \in DOMAIN price : \E k \in 1..N : Move(n, k) = <<a, b>>
  <2>1. /\ N \in Nat
        /\ \A k \in 1..N : \E a, b \in 1..n : Move(n, k) = <<a, b>>
        /\ \A a, b \in 1..n : \E k \in 1..N : Move(n, k) = <<a, b>>
      BY <1>1, MovesArePairs
  <2> HIDE DEF n, N
  <2>2. \A a : a \in DOMAIN price <=> a \in 1..n
      BY <1>1
  <2>3. ASSUME NEW k \in 1..N PROVE \E a, b \in DOMAIN price : Move(n, k) = <<a, b>>
    <3>1. PICK a \in 1..n, b \in 1..n : Move(n, k) = <<a, b>>
        BY <2>1
    <3>2. a \in DOMAIN price /\ b \in DOMAIN price
        BY <2>2
    <3> QED BY <3>1, <3>2
  <2>4. ASSUME NEW a \in DOMAIN price, NEW b \in DOMAIN price
        PROVE  \E k \in 1..N : Move(n, k) = <<a, b>>
    <3>1. a \in 1..n /\ b \in 1..n
        BY <2>2
    <3> QED BY <2>1, <3>1
  <2> QED BY <2>1, <2>3, <2>4
<1>3. Unmoved(s) \in X
    BY DEF Unmoved, MoveStates, NoWorse
<1>4. ASSUME NEW k \in 1..N, NEW u \in X
      PROVE  TryMove(price, limits, step, s.best, u, Move(n, k)) \in X
  <2>1. PICK a \in DOMAIN price, b \in DOMAIN price : Move(n, k) = <<a, b>>
      BY <1>2
  <2> QED BY <2>1, TryMoveKeeps
<1> HIDE DEF X, n, N
<1>5. /\ Tried(price, limits, s, step) = f[N] /\ f[0] = Unmoved(s)
      /\ \A k \in 0..N : f[k] \in X
      /\ \A k \in 1..N : f[k] = TryMove(price, limits, step, s.best, f[k - 1], Move(n, k))
    BY <1>2, <1>3, <1>4, TryingRuns DEF n, N
<1> HIDE DEF f
<1>6. \A k \in 0..N : f[k].next.output \in Nat
    BY <1>5 DEF X, MoveStates, NoWorse, Plans
<1>7. 0 \in P
    BY <1>2
<1>8. ASSUME NEW k \in 1..N, k - 1 \in P PROVE k \in P
  <2>1. k - 1 \in 0..N /\ k \in 0..N
      BY <1>2
  <2>2. PICK a \in DOMAIN price, b \in DOMAIN price : Move(n, k) = <<a, b>>
      BY <1>2
  <2>3. f[k] = TryMove(price, limits, step, s.best, f[k - 1], <<a, b>>)
      BY <1>5, <2>2
  <2>4. /\ f[k].next.output >= f[k - 1].next.output /\ (f[k - 1].over => f[k].over)
        /\ ~f[k].over => WorthlessMove(price, limits, step, s.best, f[k].next.output, a, b)
      BY <1>5, <2>1, <2>3, TryMoveKeeps DEF X
  <2>5. ASSUME ~f[k].over PROVE Good(k)
    <3> TAKE j \in 1..k
    <3> TAKE c \in DOMAIN price, d \in DOMAIN price
    <3> HAVE Move(n, j) = <<c, d>>
    <3>1. CASE j = k
      <4>1. c = a /\ d = b
          BY <2>2, <3>1
      <4> QED BY <2>4, <2>5, <4>1
    <3>2. CASE j # k
      <4>1. j \in 1..(k - 1)
          BY <3>2
      <4>2. ~f[k - 1].over
          BY <2>4, <2>5
      <4>3. WorthlessMove(price, limits, step, s.best, f[k - 1].next.output, c, d)
          BY <1>8, <4>1, <4>2
      <4>4. f[k - 1].next.output <= f[k].next.output /\ f[k].next.output \in Nat /\ f[k - 1].next.output \in Nat
          BY <1>6, <2>1, <2>4
      <4> QED BY <4>3, <4>4, WorthlessStays
    <3> QED BY <3>1, <3>2
  <2> QED BY <2>1, <2>5
<1>9. \A k \in 0..N : k \in P
  <2>1. P \in SUBSET (0..N)
      OBVIOUS
  <2> HIDE DEF P
  <2> QED BY <1>2, <1>7, <1>8, <2>1, EveryStep
<1>10. N \in 0..N /\ (~f[N].over => Good(N))
    BY <1>2, <1>9
<1>11. ASSUME ~f[N].over, NEW a \in DOMAIN price, NEW b \in DOMAIN price
       PROVE  WorthlessMove(price, limits, step, s.best, f[N].next.output, a, b)
  <2>1. PICK k \in 1..N : Move(n, k) = <<a, b>>
      BY <1>2
  <2> QED BY <1>10, <1>11, <2>1
<1> QED BY <1>5, <1>10, <1>11 DEF X

-----------------------------------------------------------------------------
(* Steps, down to one atom.                                                *)

\* The state of a refinement.
Refining(price, amount, limits) ==
    [best : Plans(price, amount, limits), calls : 0..limits.calls,
     exhausted : BOOLEAN, still : BOOLEAN]
\* When no exchange was found at a step, there is none.
Settled(price, limits, step, s) ==
    ~s.exhausted /\ s.still =>
        \A a, b \in DOMAIN price :
            WorthlessMove(price, limits, step, s.best, s.best.output, a, b)
AtRest(price, amount, limits, step) ==
    {s \in Refining(price, amount, limits) : Settled(price, limits, step, s)}

\* A round keeps a plan, and knows when there is nothing to exchange.  (Round)
LEMMA RoundKeeps ==
    ASSUME NEW price, NEW amount, GoodPrice(price, amount), NEW limits, GoodLimits(limits),
           NEW step \in Nat \ {0}, NEW s \in AtRest(price, amount, limits, step)
    PROVE  Round(price, limits, s, step) \in AtRest(price, amount, limits, step)
<1> DEFINE t == Tried(price, limits, s, step)
           u == EndRound(s, t)
<1>1. s \in Refining(price, amount, limits) /\ s.best \in Plans(price, amount, limits)
      /\ s.calls \in 0..limits.calls
    BY DEF AtRest, Refining
<1>2. CASE s.exhausted \/ s.still
    BY <1>2 DEF Round
<1>3. CASE ~(s.exhausted \/ s.still)
  <2>1. Round(price, limits, s, step) = u
      BY <1>3 DEF Round
  <2>2. /\ t \in MoveStates(price, amount, limits, s.best)
        /\ ~t.over => \A a, b \in DOMAIN price :
             WorthlessMove(price, limits, step, s.best, t.next.output, a, b)
      BY <1>1, TriedIs
  <2> HIDE DEF t
  <2>3. /\ t.over \in BOOLEAN /\ t.calls \in 0..limits.calls /\ t.next \in Plans(price, amount, limits)
        /\ (t.next = s.best \/ t.next.output > s.best.output)
      BY <2>2 DEF MoveStates, NoWorse
  <2>4. u = [best |-> IF t.over THEN s.best ELSE t.next, calls |-> t.calls,
             exhausted |-> t.over, still |-> t.next.output = s.best.output]
      BY DEF EndRound
  <2> HIDE DEF u
  <2>5. (t.next.output = s.best.output) \in BOOLEAN
      OBVIOUS
  <2>6. u \in Refining(price, amount, limits)
      BY <1>1, <2>3, <2>4, <2>5 DEF Refining
  <2>7. Settled(price, limits, step, u)
    <3> SUFFICES ASSUME ~u.exhausted, u.still,
                        NEW a \in DOMAIN price, NEW b \in DOMAIN price
                 PROVE  WorthlessMove(price, limits, step, u.best, u.best.output, a, b)
        BY DEF Settled
    <3>1. ~t.over /\ t.next.output = s.best.output /\ u.best = t.next
        BY <2>4
    <3>2. t.next = s.best
      <4>1. s.best.output \in Nat
          BY <1>1 DEF Plans
      <4> QED BY <2>3, <3>1, <4>1
    <3> QED BY <2>2, <3>1, <3>2
  <2> QED BY <2>1, <2>6, <2>7 DEF AtRest
<1> QED BY <1>2, <1>3

IsRounds(g, price, limits, s, step) ==
    g = [k \in 0..MaxRounds |->
            IF k = 0 THEN Fresh(s)
            ELSE Round(price, limits, g[k - 1], step)]
RoundsSteps(price, limits, s, step) == CHOOSE g : IsRounds(g, price, limits, s, step)

\* The rounds at one step.  (AtStep)
LEMMA RoundsRuns ==
    ASSUME NEW price, NEW limits, NEW s, NEW step, MaxRounds \in Nat, NEW X, Fresh(s) \in X,
           \A k \in 1..MaxRounds : \A u \in X : Round(price, limits, u, step) \in X
    PROVE  LET f == RoundsSteps(price, limits, s, step) IN
           /\ AtStep(price, limits, s, step) = f[MaxRounds] /\ f[0] = Fresh(s)
           /\ \A k \in 0..MaxRounds : f[k] \in X
           /\ \A k \in 1..MaxRounds : f[k] = Round(price, limits, f[k - 1], step)
<1> DEFINE n == MaxRounds
           z == Fresh(s)
           f == RoundsSteps(price, limits, s, step)
           F == [p \in (1..n) \X X |-> Round(price, limits, p[2], step)]
<1>0. z \in X
    OBVIOUS
<1>1. F \in [(1..n) \X X -> X] /\ \A k \in 1..n : \A u \in X : F[<<k, u>>] = Round(price, limits, u, step)
    OBVIOUS
<1> HIDE DEF F
<1>2. PICK g \in [0..n -> X] : g[0] = z /\ \A k \in 1..n : g[k] = F[<<k, g[k - 1]>>]
  <2>1. \E g : Runs(g, X, z, n, F)
      BY <1>1, Iterated
  <2> QED BY <2>1 DEF Runs
<1>3. \A k \in 0..n : g[k] = IF k = 0 THEN z ELSE Round(price, limits, g[k - 1], step)
  <2> TAKE k \in 0..n
  <2>1. CASE k = 0
      BY <1>2, <2>1
  <2>2. CASE k # 0
    <3>1. k \in 1..n /\ g[k - 1] \in X
        BY <1>2, <2>2
    <3>2. g[k] = F[<<k, g[k - 1]>>]
        BY <1>2, <3>1
    <3> QED BY <1>1, <2>2, <3>1, <3>2
  <2> QED BY <2>1, <2>2
<1>4. IsRounds(g, price, limits, s, step)
  <2>1. g = [k \in 0..n |-> g[k]]
      BY <1>2
  <2> QED BY <1>3, <2>1 DEF IsRounds
<1>5. IsRounds(f, price, limits, s, step)
    BY <1>4 DEF RoundsSteps
<1>6. AtStep(price, limits, s, step) = f[n]
    BY DEF AtStep, RoundsSteps, IsRounds
<1> HIDE DEF f, z
<1>7. f[0] = z /\ \A k \in 1..n : f[k] = Round(price, limits, f[k - 1], step)
  <2>1. f = [k \in 0..n |-> IF k = 0 THEN z ELSE Round(price, limits, f[k - 1], step)]
      BY <1>5 DEF IsRounds, z
  <2> QED BY <2>1
<1>8. \A k \in 0..n : f[k] \in X
  <2> DEFINE P == {k \in 0..n : f[k] \in X}
  <2>1. 0 \in P /\ P \in SUBSET (0..n)
      BY <1>0, <1>7
  <2>2. ASSUME NEW k \in 1..n, k - 1 \in P PROVE k \in P
    <3>1. f[k - 1] \in X /\ k \in 0..n
        BY <2>2
    <3>2. Round(price, limits, f[k - 1], step) \in X
        BY <3>1
    <3> QED BY <1>7, <3>1, <3>2
  <2> HIDE DEF P
  <2>3. \A k \in 0..n : k \in P
      BY <2>1, <2>2, EveryStep
  <2> QED BY <2>3 DEF P
<1> QED BY <1>6, <1>7, <1>8 DEF f, z

\* After the rounds at a step the plan is at rest there.  (AtStep)
LEMMA AtStepIs ==
    ASSUME NEW price, NEW amount, GoodPrice(price, amount), NEW limits, GoodLimits(limits),
           NEW step \in Nat \ {0}, NEW s \in Refining(price, amount, limits)
    PROVE  AtStep(price, limits, s, step) \in AtRest(price, amount, limits, step)
<1> DEFINE X == AtRest(price, amount, limits, step)
<1>1. MaxRounds \in Nat /\ MaxRounds \in 0..MaxRounds
    BY RouteAssumption
<1>2. Fresh(s) \in X
  <2> DEFINE z == Fresh(s)
  <2>1. z = [best |-> s.best, calls |-> s.calls, exhausted |-> s.exhausted, still |-> FALSE]
      BY DEF Fresh
  <2> HIDE DEF z
  <2>2. z \in Refining(price, amount, limits)
      BY <2>1 DEF Refining
  <2>3. Settled(price, limits, step, z)
      BY <2>1 DEF Settled
  <2> QED BY <2>2, <2>3 DEF AtRest, z
<1>3. \A k \in 1..MaxRounds : \A u \in X : Round(price, limits, u, step) \in X
    BY RoundKeeps
<1> HIDE DEF X
<1>4. AtStep(price, limits, s, step) \in X
  <2> DEFINE f == RoundsSteps(price, limits, s, step)
  <2>1. AtStep(price, limits, s, step) = f[MaxRounds] /\ \A k \in 0..MaxRounds : f[k] \in X
      BY <1>1, <1>2, <1>3, RoundsRuns
  <2> HIDE DEF f
  <2> QED BY <1>1, <2>1
<1> QED BY <1>4 DEF X

IsHalved(g, amount) ==
    g = [k \in 0..amount |->
            IF k = 0 THEN amount
            ELSE HalfOf(g[k - 1])]
HalvedSteps(amount) == CHOOSE g : IsHalved(g, amount)

\* The steps are halved one after the other.  (Halved)
LEMMA HalvedRuns ==
    ASSUME NEW amount, amount \in Nat, NEW X, amount \in X,
           \A k \in 1..amount : \A u \in X : HalfOf(u) \in X
    PROVE  LET f == HalvedSteps(amount) IN
           /\ Halved(amount) = f /\ f[0] = amount
           /\ \A k \in 0..amount : f[k] \in X
           /\ \A k \in 1..amount : f[k] = HalfOf(f[k - 1])
<1> DEFINE n == amount
           z == amount
           f == HalvedSteps(amount)
           F == [p \in (1..n) \X X |-> HalfOf(p[2])]
<1>0. z \in X
    OBVIOUS
<1>1. F \in [(1..n) \X X -> X] /\ \A k \in 1..n : \A u \in X : F[<<k, u>>] = HalfOf(u)
    OBVIOUS
<1> HIDE DEF F
<1>2. PICK g \in [0..n -> X] : g[0] = z /\ \A k \in 1..n : g[k] = F[<<k, g[k - 1]>>]
  <2>1. \E g : Runs(g, X, z, n, F)
      BY <1>1, Iterated
  <2> QED BY <2>1 DEF Runs
<1>3. \A k \in 0..n : g[k] = IF k = 0 THEN z ELSE HalfOf(g[k - 1])
  <2> TAKE k \in 0..n
  <2>1. CASE k = 0
      BY <1>2, <2>1
  <2>2. CASE k # 0
    <3>1. k \in 1..n /\ g[k - 1] \in X
        BY <1>2, <2>2
    <3>2. g[k] = F[<<k, g[k - 1]>>]
        BY <1>2, <3>1
    <3> QED BY <1>1, <2>2, <3>1, <3>2
  <2> QED BY <2>1, <2>2
<1>4. IsHalved(g, amount)
  <2>1. g = [k \in 0..n |-> g[k]]
      BY <1>2
  <2> QED BY <1>3, <2>1 DEF IsHalved
<1>5. IsHalved(f, amount)
    BY <1>4 DEF HalvedSteps
<1>6. Halved(amount) = f
    BY DEF Halved, HalvedSteps, IsHalved
<1> HIDE DEF f, z
<1>7. f[0] = z /\ \A k \in 1..n : f[k] = HalfOf(f[k - 1])
  <2>1. f = [k \in 0..n |-> IF k = 0 THEN z ELSE HalfOf(f[k - 1])]
      BY <1>5 DEF IsHalved, z
  <2> QED BY <2>1
<1>8. \A k \in 0..n : f[k] \in X
  <2> DEFINE P == {k \in 0..n : f[k] \in X}
  <2>1. 0 \in P /\ P \in SUBSET (0..n)
      BY <1>0, <1>7
  <2>2. ASSUME NEW k \in 1..n, k - 1 \in P PROVE k \in P
    <3>1. f[k - 1] \in X /\ k \in 0..n
        BY <2>2
    <3>2. HalfOf(f[k - 1]) \in X
        BY <3>1
    <3> QED BY <1>7, <3>1, <3>2
  <2> HIDE DEF P
  <2>3. \A k \in 0..n : k \in P
      BY <2>1, <2>2, EveryStep
  <2> QED BY <2>3 DEF P
<1> QED BY <1>6, <1>7, <1>8 DEF f, z

\* Half of a number, but at least one.  (HalfOf)
LEMMA HalfIs ==
    ASSUME NEW n \in Nat \ {0}
    PROVE  HalfOf(n) \in 1..n /\ (n > 1 => HalfOf(n) <= n - 1) /\ (n = 1 => HalfOf(n) = 1)
<1> DEFINE q == n \div 2
<1>1. q \in Nat /\ 2 * q <= n
    OBVIOUS
<1> HIDE DEF q
<1>2. {1, q} \in SUBSET Nat /\ {1, q} # {} /\ 1 \in {1, q}
    BY <1>1
<1>5. IsFiniteSet({1, q})
  <2>1. {1, q} = {1} \cup {q}
      OBVIOUS
  <2>2. IsFiniteSet({}) /\ {1} = {} \cup {1}
      BY FS_EmptySet
  <2>3. IsFiniteSet({1})
      BY <2>2, FS_AddElement
  <2>4. IsFiniteSet({1} \cup {q})
      BY <2>3, FS_AddElement
  <2> QED BY <2>1, <2>4
<1>3. Max({1, q}) \in {1, q} /\ 1 <= Max({1, q})
    BY <1>2, <1>5, MaxIs
<1>4. HalfOf(n) = Max({1, q})
    BY DEF HalfOf, q
<1> QED BY <1>1, <1>3, <1>4

\* The last step is one atom.  (Halvings)
LEMMA LastStepIsOne ==
    ASSUME NEW amount \in Nat \ {0}
    PROVE  /\ Halvings(amount) \in 1..amount
           /\ \A k \in 0..amount : Halved(amount)[k] \in 1..amount
           /\ Halved(amount)[Halvings(amount)] = 1
<1> DEFINE X == 1..amount
           h == HalvedSteps(amount)
           P == {k \in 0..amount : h[k] = 1 \/ h[k] <= amount - k}
           T == {k \in 1..amount : h[k] = 1}
<1>1. amount \in Nat /\ amount \in X
    OBVIOUS
<1>2. \A k \in 1..amount : \A u \in X : HalfOf(u) \in X
  <2> TAKE k \in 1..amount
  <2> TAKE u \in X
  <2>1. u \in Nat \ {0}
      OBVIOUS
  <2>2. HalfOf(u) \in 1..u
      BY <2>1, HalfIs
  <2> QED BY <2>1, <2>2
<1> HIDE DEF X
<1>3. /\ Halved(amount) = h /\ h[0] = amount /\ \A k \in 0..amount : h[k] \in X
      /\ \A k \in 1..amount : h[k] = HalfOf(h[k - 1])
    BY <1>1, <1>2, HalvedRuns
<1> HIDE DEF h
<1>4. \A k \in 0..amount : h[k] \in 1..amount
    BY <1>3 DEF X
<1>5. 0 \in P
    BY <1>3
<1>6. ASSUME NEW k \in 1..amount, k - 1 \in P PROVE k \in P
  <2>1. k - 1 \in 0..amount /\ k \in 0..amount
      OBVIOUS
  <2>2. h[k - 1] \in Nat \ {0} /\ h[k] = HalfOf(h[k - 1])
      BY <1>3, <1>4, <2>1
  <2>3. h[k] \in 1..h[k - 1] /\ (h[k - 1] > 1 => h[k] <= h[k - 1] - 1) /\ (h[k - 1] = 1 => h[k] = 1)
      BY <2>2, HalfIs
  <2>4. h[k - 1] = 1 \/ h[k - 1] <= amount - (k - 1)
      BY <1>6
  <2>5. h[k] = 1 \/ h[k] <= amount - k
      BY <2>2, <2>3, <2>4
  <2> QED BY <2>1, <2>5
<1>7. amount \in P
  <2>1. P \in SUBSET (0..amount) /\ amount \in 0..amount
      OBVIOUS
  <2> HIDE DEF P
  <2> QED BY <1>1, <1>5, <1>6, <2>1, EveryStep
<1>8. h[amount] = 1
  <2>1. amount \in 0..amount
      OBVIOUS
  <2>2. h[amount] \in 1..amount
      BY <1>4, <2>1
  <2>3. h[amount] = 1 \/ h[amount] <= amount - amount
      BY <1>7
  <2> QED BY <2>2, <2>3
<1>9. T \in SUBSET Nat /\ T # {}
  <2>1. amount \in T
      BY <1>8
  <2> QED BY <2>1
<1>10. Halvings(amount) = Min(T)
    BY <1>3 DEF Halvings
<1>11. Min(T) \in T
    BY <1>9, MinIs
<1> QED BY <1>3, <1>4, <1>10, <1>11

IsImproving(g, price, limits, amount, seed) ==
    g = [k \in 0..Halvings(amount) |->
            IF k = 0 THEN Unimproved(seed)
            ELSE AtStep(price, limits, g[k - 1], Halved(amount)[k])]
ImprovingSteps(price, limits, amount, seed) == CHOOSE g : IsImproving(g, price, limits, amount, seed)

\* The steps are taken one after the other.  (Improve)
LEMMA ImprovingRuns ==
    ASSUME NEW price, NEW limits, NEW amount, NEW seed, Halvings(amount) \in Nat, NEW X, Unimproved(seed) \in X,
           \A k \in 1..Halvings(amount) : \A u \in X : AtStep(price, limits, u, Halved(amount)[k]) \in X
    PROVE  LET f == ImprovingSteps(price, limits, amount, seed) IN
           /\ Improve(price, limits, amount, seed) = f[Halvings(amount)] /\ f[0] = Unimproved(seed)
           /\ \A k \in 0..Halvings(amount) : f[k] \in X
           /\ \A k \in 1..Halvings(amount) : f[k] = AtStep(price, limits, f[k - 1], Halved(amount)[k])
<1> DEFINE n == Halvings(amount)
           z == Unimproved(seed)
           f == ImprovingSteps(price, limits, amount, seed)
           F == [p \in (1..n) \X X |-> AtStep(price, limits, p[2], Halved(amount)[p[1]])]
<1>0. z \in X
    OBVIOUS
<1>1. F \in [(1..n) \X X -> X] /\ \A k \in 1..n : \A u \in X : F[<<k, u>>] = AtStep(price, limits, u, Halved(amount)[k])
    OBVIOUS
<1> HIDE DEF F
<1>2. PICK g \in [0..n -> X] : g[0] = z /\ \A k \in 1..n : g[k] = F[<<k, g[k - 1]>>]
  <2>1. \E g : Runs(g, X, z, n, F)
      BY <1>1, Iterated
  <2> QED BY <2>1 DEF Runs
<1>3. \A k \in 0..n : g[k] = IF k = 0 THEN z ELSE AtStep(price, limits, g[k - 1], Halved(amount)[k])
  <2> TAKE k \in 0..n
  <2>1. CASE k = 0
      BY <1>2, <2>1
  <2>2. CASE k # 0
    <3>1. k \in 1..n /\ g[k - 1] \in X
        BY <1>2, <2>2
    <3>2. g[k] = F[<<k, g[k - 1]>>]
        BY <1>2, <3>1
    <3> QED BY <1>1, <2>2, <3>1, <3>2
  <2> QED BY <2>1, <2>2
<1>4. IsImproving(g, price, limits, amount, seed)
  <2>1. g = [k \in 0..n |-> g[k]]
      BY <1>2
  <2> QED BY <1>3, <2>1 DEF IsImproving
<1>5. IsImproving(f, price, limits, amount, seed)
    BY <1>4 DEF ImprovingSteps
<1>6. Improve(price, limits, amount, seed) = f[n]
    BY DEF Improve, ImprovingSteps, IsImproving
<1> HIDE DEF f, z
<1>7. f[0] = z /\ \A k \in 1..n : f[k] = AtStep(price, limits, f[k - 1], Halved(amount)[k])
  <2>1. f = [k \in 0..n |-> IF k = 0 THEN z ELSE AtStep(price, limits, f[k - 1], Halved(amount)[k])]
      BY <1>5 DEF IsImproving, z
  <2> QED BY <2>1
<1>8. \A k \in 0..n : f[k] \in X
  <2> DEFINE P == {k \in 0..n : f[k] \in X}
  <2>1. 0 \in P /\ P \in SUBSET (0..n)
      BY <1>0, <1>7
  <2>2. ASSUME NEW k \in 1..n, k - 1 \in P PROVE k \in P
    <3>1. f[k - 1] \in X /\ k \in 0..n
        BY <2>2
    <3>2. AtStep(price, limits, f[k - 1], Halved(amount)[k]) \in X
        BY <3>1
    <3> QED BY <1>7, <3>1, <3>2
  <2> HIDE DEF P
  <2>3. \A k \in 0..n : k \in P
      BY <2>1, <2>2, EveryStep
  <2> QED BY <2>3 DEF P
<1> QED BY <1>6, <1>7, <1>8 DEF f, z

\* A refined plan spends the whole amount within the limits; when the search
\* came to its end, no exchange of one atom improves it.  (Refine)
LEMMA RefineIs ==
    ASSUME NEW price, NEW amount \in Nat \ {0}, GoodPrice(price, amount),
           NEW limits, GoodLimits(limits),
           Refine(price, amount, limits) # NoPlan
    PROVE  /\ Refined(price, amount, limits, Refine(price, amount, limits))
           /\ Refine(price, amount, limits).best \in Plans(price, amount, limits)
<1> DEFINE seed == Seed(price, amount, limits)
           n == Halvings(amount)
           X == Refining(price, amount, limits)
           f == ImprovingSteps(price, limits, amount, seed)
           s == Refine(price, amount, limits)
<1>1. seed \in SeedStates(price, amount, limits)
    BY SeedIs
<1>2. seed.best.output # 0 /\ s = Improve(price, limits, amount, seed)
    BY DEF Refine
<1> HIDE DEF seed
<1>3. seed.best \in Plans(price, amount, limits) /\ seed.calls \in 0..limits.calls
  <2>1. seed.best \in Plans(price, amount, limits) \cup {Nothing(price)} /\ seed.calls \in 0..limits.calls
      BY <1>1 DEF SeedStates
  <2>2. Nothing(price).output = 0
      BY DEF Nothing
  <2> QED BY <1>2, <2>1, <2>2
<1>4. /\ n \in 1..amount /\ Halved(amount)[n] = 1
      /\ \A k \in 1..n : Halved(amount)[k] \in Nat \ {0}
    BY LastStepIsOne
<1> HIDE DEF n
<1>5. Unimproved(seed) \in X
    BY <1>3 DEF Unimproved, Refining
<1>6. \A k \in 1..n : \A u \in X : AtStep(price, limits, u, Halved(amount)[k]) \in X
    BY <1>4, AtStepIs DEF AtRest
<1>7. /\ s = f[n] /\ \A k \in 0..n : f[k] \in X
      /\ \A k \in 1..n : f[k] = AtStep(price, limits, f[k - 1], Halved(amount)[k])
  <2>1. n \in Nat
      BY <1>4
  <2> HIDE DEF X
  <2> QED BY <1>2, <1>5, <1>6, <2>1, ImprovingRuns DEF n
<1> HIDE DEF f, X
<1>8. s \in AtRest(price, amount, limits, 1)
  <2>1. n \in 1..n /\ n - 1 \in 0..n
      BY <1>4
  <2>2. s = AtStep(price, limits, f[n - 1], 1) /\ f[n - 1] \in Refining(price, amount, limits)
      BY <1>4, <1>7, <2>1 DEF X
  <2>3. 1 \in Nat \ {0}
      OBVIOUS
  <2> QED BY <2>2, <2>3, AtStepIs
<1> HIDE DEF s
<1>9. /\ s.best \in Plans(price, amount, limits) /\ s.calls \in 0..limits.calls
      /\ Settled(price, limits, 1, s)
    BY <1>8 DEF AtRest, Refining
<1>10. /\ GoodPlan(s.best, price, amount, limits) /\ DOMAIN s.best.inputs = DOMAIN price
    BY <1>9 DEF Plans, GoodPlan, Inputs
<1>11. s.calls <= limits.calls
    BY <1>9 DEF GoodLimits
<1>12. ASSUME ~s.exhausted, s.still, NEW m \in (DOMAIN price) \X (DOMAIN price),
              MayMove(s.best, 1, m[1], m[2], limits)
       PROVE  Worthless(price, s, m, Moved(s.best, 1, m[1], m[2]), limits)
  <2>1. m[1] \in DOMAIN price /\ m[2] \in DOMAIN price /\ m = <<m[1], m[2]>>
      OBVIOUS
  <2>2. WorthlessMove(price, limits, 1, s.best, s.best.output, m[1], m[2])
      BY <1>9, <1>12, <2>1 DEF Settled
  <2> QED BY <1>12, <2>1, <2>2 DEF WorthlessMove, Worthless
<1>13. Summed(s.best.inputs, DOMAIN s.best.inputs) = amount
    BY <1>10, SummedIs DEF GoodPlan
<1>14. Refined(price, amount, limits, s)
    BY <1>10, <1>11, <1>12, <1>13 DEF Refined, GoodPlan
<1> QED BY <1>9, <1>14 DEF s

-----------------------------------------------------------------------------
(* The proposals of one world.                                             *)

\* As many things as there are names, or fewer.
LEMMA ImageIsFinite ==
    ASSUME NEW D, IsFiniteSet(D), NEW h
    PROVE  IsFiniteSet({h[i] : i \in D})
<1> DEFINE T == {h[i] : i \in D}
           g == [i \in D |-> h[i]]
<1>1. g \in [D -> T] /\ \A t \in T : \E i \in D : g[i] = t
    OBVIOUS
<1> HIDE DEF g, T
<1>2. g \in Surjection(D, T)
    BY <1>1 DEF Surjection
<1>3. IsFiniteSet(T)
    BY <1>2, FS_Surjection
<1> QED BY <1>3 DEF T

\* What a pool answers.  (QuotePool)
LEMMA QuoteIs ==
    ASSUME NEW pool, IsPool(pool), NEW x \in Nat
    PROVE  /\ QuotePool(pool, x).out \in Nat /\ QuotePool(pool, x).cost = 0
           /\ x = 0 => QuotePool(pool, x).ok /\ QuotePool(pool, x).out = 0
<1>1. pool.out \in Seq(Nat)
    BY DEF IsPool
<1>2. x # 0 /\ ~(x > Len(pool.out)) => pool.out[x] \in Nat
    BY <1>1
<1> QED BY <1>2 DEF QuotePool, Gives, Fail

\* The quotes of a world are quotes.  (Prices)
LEMMA PricesAre ==
    ASSUME NEW world, IsWorld(world), NEW amount \in Nat
    PROVE  /\ GoodPrice(Prices(world, amount), amount)
           /\ DOMAIN Prices(world, amount) = DOMAIN world
           /\ \A i \in DOMAIN world : \A x \in 0..amount : Prices(world, amount)[i][x].cost = 0
<1> DEFINE p == Prices(world, amount)
<1>1. Len(world) \in Nat /\ DOMAIN world = 1..Len(world) /\ \A i \in DOMAIN world : IsPool(world[i])
    BY DEF IsWorld
<1>2. p = [i \in 1..Len(world) |-> [x \in 0..amount |-> QuotePool(world[i], x)]]
    BY <1>1 DEF Prices
<1> HIDE DEF p
<1>3. DOMAIN p = 1..Len(world) /\ Len(p) = Len(world)
    BY <1>1, <1>2
<1>4. \A i \in DOMAIN world : \A x \in 0..amount : p[i][x] = QuotePool(world[i], x)
    BY <1>1, <1>2
<1>5. 0 \in 0..amount /\ \A x \in 0..amount : x \in Nat
    OBVIOUS
<1>6. \A i \in DOMAIN world : \A x \in 0..amount :
        /\ p[i][x].out \in Nat /\ p[i][x].cost = 0
        /\ x = 0 => p[i][x].ok /\ p[i][x].out = 0
  <2> TAKE i \in DOMAIN world
  <2> TAKE x \in 0..amount
  <2>1. IsPool(world[i]) /\ x \in Nat /\ p[i][x] = QuotePool(world[i], x)
      BY <1>1, <1>4
  <2>2. /\ QuotePool(world[i], x).out \in Nat /\ QuotePool(world[i], x).cost = 0
        /\ x = 0 => QuotePool(world[i], x).ok /\ QuotePool(world[i], x).out = 0
      BY <2>1, QuoteIs
  <2> QED BY <2>1, <2>2
<1>7. \A i \in DOMAIN p : i \in DOMAIN world
    BY <1>1, <1>3
<1>8. GoodPrice(p, amount)
    BY <1>1, <1>3, <1>5, <1>6, <1>7 DEF GoodPrice
<1> QED BY <1>1, <1>3, <1>6, <1>8 DEF p

\* A complete proposal: legs of pools of the world that take the amount.
Fed(o) == [k \in DOMAIN o.legs |-> o.legs[k].input]
IsOption(o, world, amount) ==
    /\ o = [output |-> o.output, legs |-> o.legs] /\ o.output \in Nat \ {0}
    /\ DOMAIN o.legs \in SUBSET DOMAIN world /\ IsFiniteSet(DOMAIN o.legs)
    /\ Cardinality(DOMAIN o.legs) \in 1..MaxLegs
    /\ \A k \in DOMAIN o.legs : o.legs[k].pool = world[k] /\ o.legs[k].input \in Nat
    /\ SumIn(Fed(o), DOMAIN o.legs) = amount

\* The split is a complete proposal.  (Split)
LEMMA SplitIs ==
    ASSUME NEW world, IsWorld(world), NEW amount \in Nat \ {0}, NEW cost \in Nat, NEW calls,
           NEW plan \in Plans(Prices(world, amount), amount,
                              [calls |-> calls, cost |-> cost, legs |-> MaxLegs]),
           NEW o \in Split(world, plan), o.output > 0
    PROVE  IsOption(o, world, amount)
<1> DEFINE price == Prices(world, amount)
           limits == [calls |-> calls, cost |-> cost, legs |-> MaxLegs]
           H == Holders(plan.inputs)
<1>0. limits.legs = MaxLegs /\ MaxLegs \in Nat
    BY RouteAssumption
<1>1. GoodPrice(price, amount) /\ DOMAIN price = DOMAIN world
    BY PricesAre
<1>2. /\ plan.inputs \in Inputs(price, amount) /\ SumIn(plan.inputs, DOMAIN price) = amount
      /\ Cardinality(H) <= limits.legs /\ plan.output \in Nat
    BY DEF Plans, GoodPlan
<1> HIDE DEF limits
<1>3. o = [output |-> plan.output, legs |-> [i \in H |-> Leg(world[i], plan.inputs[i])]]
    BY DEF Split
<1> HIDE DEF price
<1>4. /\ H \in SUBSET DOMAIN price /\ IsFiniteSet(H) /\ Cardinality(H) \in Nat
      /\ IsFiniteSet(DOMAIN price)
      /\ \A i \in DOMAIN price \ H : plan.inputs[i] = 0
    BY <1>1, <1>2, HoldersAre
<1> HIDE DEF H
<1>5. DOMAIN o.legs = H /\ o.output = plan.output /\ o = [output |-> o.output, legs |-> o.legs]
    BY <1>3
<1>6. \A k \in H : o.legs[k].pool = world[k] /\ o.legs[k].input = plan.inputs[k]
    BY <1>3 DEF Leg
<1>7. \A i \in DOMAIN price : plan.inputs[i] \in Nat
    BY <1>2 DEF Inputs
<1>8. SumIn(Fed(o), H) = amount
  <2>1. SumIn(plan.inputs, DOMAIN price) = SumIn(plan.inputs, H)
    <3>1. \A i \in DOMAIN price : plan.inputs[i] \in Int
        BY <1>7
    <3> QED BY <1>4, <3>1, SumOfSome
  <2>2. \A k \in H : Fed(o)[k] = plan.inputs[k]
      BY <1>5, <1>6 DEF Fed
  <2>3. SumIn(Fed(o), H) = SumIn(plan.inputs, H)
      BY <1>4, <2>2, SumOfSame
  <2> QED BY <1>2, <2>1, <2>3
<1>9. Cardinality(H) # 0
  <2> SUFFICES ASSUME Cardinality(H) = 0 PROVE FALSE
      OBVIOUS
  <2>1. H = {}
      BY <1>4, FS_EmptySet
  <2>2. SumIn(Fed(o), {}) = 0
      BY <1>4, <2>1, SumUnfolds
  <2> QED BY <1>8, <2>1, <2>2
<1>10. Cardinality(H) \in 1..MaxLegs
    BY <1>0, <1>2, <1>4, <1>9
<1>11. \A k \in H : k \in DOMAIN world /\ plan.inputs[k] \in Nat
    BY <1>1, <1>4, <1>7
<1>12. H \in SUBSET DOMAIN world
    BY <1>11
<1> QED BY <1>2, <1>4, <1>5, <1>6, <1>8, <1>10, <1>11, <1>12 DEF IsOption

\* A single venue that takes it all is a complete proposal.  (Singles)
LEMMA SingleIs ==
    ASSUME NEW world, IsWorld(world), NEW amount \in Nat \ {0}, MaxLegs >= 1,
           NEW i \in DOMAIN world, NEW output \in Nat \ {0},
           NEW o, o = [output |-> output, legs |-> [k \in {i} |-> Leg(world[k], amount)]]
    PROVE  IsOption(o, world, amount)
<1>1. o = [output |-> o.output, legs |-> o.legs] /\ o.output = output /\ DOMAIN o.legs = {i}
    OBVIOUS
<1>2. o.legs[i].pool = world[i] /\ o.legs[i].input = amount
    BY DEF Leg
<1>3. IsFiniteSet({i}) /\ Cardinality({i}) = 1
  <2>1. IsFiniteSet({}) /\ Cardinality({}) = 0 /\ {i} = {} \cup {i} /\ i \notin {}
      BY FS_EmptySet
  <2> QED BY <2>1, FS_AddElement
<1>4. SumIn(Fed(o), {i}) = amount
  <2>1. Fed(o)[i] = amount
      BY <1>1, <1>2 DEF Fed
  <2>2. \A y \in {i} : Fed(o)[y] \in Int
      BY <2>1
  <2>3. SumIn(Fed(o), {i}) = Fed(o)[i] + SumIn(Fed(o), {i} \ {i})
      BY <1>3, <2>2, SumOfRest
  <2>4. {i} \ {i} = {} /\ SumIn(Fed(o), {}) = 0
      BY <1>3, SumUnfolds
  <2> QED BY <2>1, <2>3, <2>4
<1>5. 1 \in 1..MaxLegs
    BY RouteAssumption
<1> QED BY <1>1, <1>2, <1>3, <1>4, <1>5 DEF IsOption

\* The offers of a world are finitely many complete proposals.  (Options)
LEMMA OptionsAre ==
    ASSUME NEW world, IsWorld(world), NEW amount \in Nat \ {0}
    PROVE  /\ IsFiniteSet(Options(world, amount))
           /\ \A o \in Options(world, amount) : IsOption(o, world, amount)
<1> DEFINE price == Prices(world, amount)
           limits == [calls |-> MaxCalls, cost |-> 0, legs |-> MaxLegs]
           s == Refine(price, amount, limits)
           all == AllOptions(world, price, amount, s)
           whole == {i \in DOMAIN world : s.best.inputs[i] # amount /\ price[i][amount].ok}
           single == [i \in DOMAIN world |->
                        [output |-> price[i][amount].out, legs |-> [k \in {i} |-> Leg(world[k], amount)]]]
<1>1. Options(world, amount) = {o \in all : o.output > 0}
    BY DEF Options, FromPrices
<1>2. GoodPrice(price, amount) /\ DOMAIN price = DOMAIN world
    BY PricesAre
<1>3. GoodLimits(limits)
    BY RouteAssumption DEF GoodLimits
<1>4. CASE s = NoPlan \/ s.exhausted
  <2>1. all = {}
      BY <1>4 DEF AllOptions
  <2>2. Options(world, amount) = {}
      BY <1>1, <2>1
  <2> QED BY <2>2, FS_EmptySet
<1>5. CASE ~(s = NoPlan \/ s.exhausted)
  <2>1. s.best \in Plans(price, amount, limits)
    <3> HIDE DEF price, limits
    <3> QED BY <1>2, <1>3, <1>5, RefineIs
  <2>2. all = Split(world, s.best) \cup Singles(world, price, amount, whole)
      BY <1>5 DEF AllOptions
  <2>3. \A o \in Singles(world, price, amount, whole) : \E i \in DOMAIN world : o = single[i]
      BY DEF Singles
  <2> HIDE DEF s, all, whole
  <2>4. IsFiniteSet(Options(world, amount))
    <3> DEFINE T == Split(world, s.best) \cup {single[i] : i \in DOMAIN world}
    <3>1. IsFiniteSet(DOMAIN world)
      <4>1. DOMAIN world = 1..Len(world) /\ Len(world) \in Nat
          BY DEF IsWorld
      <4>2. IsFiniteSet(1..Len(world))
          BY <4>1, FS_Interval
      <4> QED BY <4>1, <4>2
    <3>2. IsFiniteSet({single[i] : i \in DOMAIN world})
      <4> HIDE DEF single
      <4> QED BY <3>1, ImageIsFinite
    <3>3. IsFiniteSet(Split(world, s.best))
      <4> DEFINE x == [output |-> s.best.output,
                       legs |-> [i \in Holders(s.best.inputs) |-> Leg(world[i], s.best.inputs[i])]]
      <4>1. Split(world, s.best) = {} \cup {x}
          BY DEF Split
      <4> HIDE DEF x
      <4>2. IsFiniteSet({} \cup {x})
          BY FS_EmptySet, FS_AddElement
      <4> QED BY <4>1, <4>2
    <3>4. IsFiniteSet(T)
      <4> HIDE DEF single
      <4> QED BY <3>2, <3>3, FS_Union
    <3>5. Options(world, amount) \in SUBSET T
      <4> HIDE DEF single
      <4> QED BY <1>1, <2>2, <2>3
    <3> HIDE DEF T
    <3> QED BY <3>4, <3>5, FS_Subset
  <2>5. ASSUME NEW o \in Options(world, amount) PROVE IsOption(o, world, amount)
    <3>1. o \in all /\ o.output > 0
        BY <1>1
    <3>2. CASE o \in Split(world, s.best)
      <4>1. s.best \in Plans(Prices(world, amount), amount,
                             [calls |-> MaxCalls, cost |-> 0, legs |-> MaxLegs])
          BY <2>1
      <4> QED BY <3>1, <3>2, <4>1, SplitIs
    <3>3. CASE o \in Singles(world, price, amount, whole)
      <4>1. PICK i \in DOMAIN world : o = single[i]
          BY <2>3, <3>3
      <4>2. o = [output |-> price[i][amount].out, legs |-> [k \in {i} |-> Leg(world[k], amount)]]
          BY <4>1
      <4>3. price[i][amount].out \in Nat
        <5>1. amount \in 0..amount
            OBVIOUS
        <5> HIDE DEF price
        <5> QED BY <1>2, <5>1 DEF GoodPrice
      <4>4. MaxLegs >= 1
        <5>1. PICK x \in Split(world, s.best) : TRUE
            BY DEF Split
        <5>2. Cardinality(Holders(s.best.inputs)) <= MaxLegs /\ s.best.inputs \in Inputs(price, amount)
              /\ SumIn(s.best.inputs, DOMAIN price) = amount
            BY <2>1 DEF Plans, GoodPlan
        <5>3. /\ Holders(s.best.inputs) \in SUBSET DOMAIN price
              /\ IsFiniteSet(Holders(s.best.inputs)) /\ Cardinality(Holders(s.best.inputs)) \in Nat
              /\ IsFiniteSet(DOMAIN price)
              /\ \A k \in DOMAIN price \ Holders(s.best.inputs) : s.best.inputs[k] = 0
          <6> HIDE DEF price
          <6> QED BY <1>2, <5>2, HoldersAre
        <5>4. Cardinality(Holders(s.best.inputs)) # 0
          <6> SUFFICES ASSUME Cardinality(Holders(s.best.inputs)) = 0 PROVE FALSE
              OBVIOUS
          <6> HIDE DEF price
          <6>1. Holders(s.best.inputs) = {}
              BY <5>3, FS_EmptySet
          <6>2. \A k \in DOMAIN price : s.best.inputs[k] = 0
              BY <5>3, <6>1
          <6>3. 0 \in Int
              OBVIOUS
          <6>4. SumIn(s.best.inputs, DOMAIN price) = 0 * Cardinality(DOMAIN price)
              BY <5>3, <6>2, <6>3, SumOfEqual
          <6>5. Cardinality(DOMAIN price) \in Nat
              BY <5>3, FS_CardinalityType
          <6> QED BY <5>2, <6>4, <6>5
        <5> QED BY <5>2, <5>3, <5>4, RouteAssumption
      <4>5. o.output = price[i][amount].out
          BY <4>2
      <4> HIDE DEF price, single
      <4>6. price[i][amount].out \in Nat \ {0}
          BY <3>1, <4>3, <4>5
      <4> QED BY <4>2, <4>4, <4>6, SingleIs
    <3> QED BY <2>2, <3>1, <3>2, <3>3
  <2> QED BY <2>4, <2>5
<1> QED BY <1>4, <1>5

-----------------------------------------------------------------------------
(* Paths.                                                                  *)

\* A path: pools one after the other into a lane's product.
IsPath(path) ==
    /\ Len(path.pools) \in Nat /\ DOMAIN path.pools = 1..Len(path.pools)
    /\ \A k \in DOMAIN path.pools : IsPool(path.pools[k])
    /\ path.lane.multiplier \in Nat /\ path.lane.bps \in Nat

IsWalking(g, path, x) ==
    g = [k \in 0..Len(path.pools) |->
            IF k = 0 THEN <<x>>
            ELSE Through(g[k - 1], path.pools[k])]
WalkingSteps(path, x) == CHOOSE g : IsWalking(g, path, x)

\* The amounts on a path come one after the other.  (Along)
LEMMA WalkingRuns ==
    ASSUME NEW path, NEW x, Len(path.pools) \in Nat, NEW X, <<x>> \in X,
           \A k \in 1..Len(path.pools) : \A u \in X : Through(u, path.pools[k]) \in X
    PROVE  LET f == WalkingSteps(path, x) IN
           /\ Along(path, x) = f[Len(path.pools)] /\ f[0] = <<x>>
           /\ \A k \in 0..Len(path.pools) : f[k] \in X
           /\ \A k \in 1..Len(path.pools) : f[k] = Through(f[k - 1], path.pools[k])
<1> DEFINE n == Len(path.pools)
           z == <<x>>
           f == WalkingSteps(path, x)
           F == [p \in (1..n) \X X |-> Through(p[2], path.pools[p[1]])]
<1>0. n \in Nat /\ z \in X /\ \A k \in 1..n : \A u \in X : Through(u, path.pools[k]) \in X
    OBVIOUS
<1>1. F \in [(1..n) \X X -> X] /\ \A k \in 1..n : \A u \in X : F[<<k, u>>] = Through(u, path.pools[k])
  <2> HIDE DEF n, z
  <2> QED BY <1>0
<1> HIDE DEF F, n, z
<1>2. PICK g \in [0..n -> X] : g[0] = z /\ \A k \in 1..n : g[k] = F[<<k, g[k - 1]>>]
  <2>1. \E g : Runs(g, X, z, n, F)
      BY <1>0, <1>1, Iterated
  <2> QED BY <2>1 DEF Runs
<1>3. \A k \in 0..n : g[k] = IF k = 0 THEN z ELSE Through(g[k - 1], path.pools[k])
  <2> TAKE k \in 0..n
  <2>1. CASE k = 0
      BY <1>2, <2>1
  <2>2. CASE k # 0
    <3>1. k \in 1..n /\ k - 1 \in 0..n
        BY <1>0, <2>2
    <3>2. g[k - 1] \in X
        BY <1>2, <3>1
    <3>3. g[k] = F[<<k, g[k - 1]>>]
        BY <1>2, <3>1
    <3> QED BY <1>1, <2>2, <3>1, <3>2, <3>3
  <2> QED BY <2>1, <2>2
<1>4. IsWalking(g, path, x)
  <2>1. g = [k \in 0..n |-> g[k]]
      BY <1>2
  <2>2. g = [k \in 0..n |-> IF k = 0 THEN z ELSE Through(g[k - 1], path.pools[k])]
      BY <1>3, <2>1
  <2> QED BY <2>2 DEF IsWalking, n, z
<1>5. IsWalking(f, path, x)
    BY <1>4 DEF WalkingSteps
<1>6. Along(path, x) = f[n]
    BY DEF Along, WalkingSteps, IsWalking, n
<1> HIDE DEF f
<1>7. f[0] = z /\ \A k \in 1..n : f[k] = Through(f[k - 1], path.pools[k])
  <2>1. f = [k \in 0..n |-> IF k = 0 THEN z ELSE Through(f[k - 1], path.pools[k])]
      BY <1>5 DEF IsWalking, z, n
  <2>2. 0 \in 0..n /\ \A k \in 1..n : k \in 0..n /\ k # 0
      BY <1>0
  <2> QED BY <2>1, <2>2
<1>8. \A k \in 0..n : f[k] \in X
  <2> DEFINE P == {k \in 0..n : f[k] \in X}
  <2>1. 0 \in P /\ P \in SUBSET (0..n)
      BY <1>0, <1>7
  <2>2. ASSUME NEW k \in 1..n, k - 1 \in P PROVE k \in P
    <3>1. f[k - 1] \in X /\ k \in 0..n
        BY <1>0, <2>2
    <3>2. Through(f[k - 1], path.pools[k]) \in X
        BY <1>0, <3>1
    <3> QED BY <1>7, <3>1, <3>2
  <2> HIDE DEF P
  <2>3. \A k \in 0..n : k \in P
      BY <1>0, <2>1, <2>2, EveryStep
  <2> QED BY <2>3 DEF P
<1> QED BY <1>6, <1>7, <1>8 DEF f, z, n

\* The amounts on a path are amounts.  (Along)
LEMMA AlongIs ==
    ASSUME NEW path, IsPath(path), NEW x \in Nat
    PROVE  Along(path, x) \in Seq(Nat)
<1> DEFINE n == Len(path.pools)
           X == Seq(Nat)
<1>1. n \in Nat /\ <<x>> \in X /\ \A k \in 1..n : IsPool(path.pools[k])
    BY DEF IsPath
<1>2. ASSUME NEW k \in 1..n, NEW way \in X PROVE Through(way, path.pools[k]) \in X
  <2>1. IsPool(path.pools[k])
      BY <1>1
  <2>2. CASE way = <<>>
      BY <1>2, <2>2 DEF Through
  <2>3. CASE way # <<>>
    <3>1. Last(way) \in Nat
        BY <1>2, <2>3 DEF Last
    <3> DEFINE q == QuotePool(path.pools[k], Last(way))
    <3>2. q.out \in Nat
        BY <2>1, <3>1, QuoteIs
    <3>3. Through(way, path.pools[k]) = Onward(way, q)
        BY <2>3 DEF Through
    <3> HIDE DEF q
    <3>4. Append(way, q.out) \in X /\ <<>> \in X
        BY <1>2, <3>2
    <3> QED BY <3>3, <3>4 DEF Onward
  <2> QED BY <2>2, <2>3
<1> HIDE DEF n, X
<1>3. Along(path, x) = WalkingSteps(path, x)[n] /\ \A k \in 0..n : WalkingSteps(path, x)[k] \in X
    BY <1>1, <1>2, WalkingRuns DEF n
<1>4. n \in 0..n
    BY <1>1
<1> QED BY <1>3, <1>4 DEF X

\* Exposure is counted in whole atoms.  (exposure_atoms)
LEMMA ExposureIs ==
    ASSUME NEW lane, lane.multiplier \in Nat, lane.bps \in Nat, NEW raw \in Nat
    PROVE  Exposure(lane, raw) \in Nat
<1>1. raw * lane.multiplier \in Nat
    OBVIOUS
<1>2. \A a \in Nat : a * lane.bps \in Nat
    OBVIOUS
<1> DEFINE a == raw * lane.multiplier * lane.bps
<1>3. a \in Nat
    BY <1>1, <1>2
<1> HIDE DEF a
<1>4. a \div Bps \in Nat
    BY <1>3, RouteAssumption
<1> QED BY <1>4 DEF Exposure, a

\* What paths are quoted at.
PathPrices(paths, amount) == [i \in DOMAIN paths |-> [x \in 0..amount |-> PathQuote(paths[i], x)]]

\* The quote of a path is one.  (PathQuote)
LEMMA PathQuoteIs ==
    ASSUME NEW path, IsPath(path), NEW x \in Nat
    PROVE  /\ PathQuote(path, x).out \in Nat /\ PathQuote(path, x).cost \in Nat
           /\ x = 0 => PathQuote(path, x).ok /\ PathQuote(path, x).out = 0 /\ PathQuote(path, x).cost = 0
<1>1. CASE x = 0
    BY <1>1 DEF PathQuote, Gives
<1>2. CASE x # 0
  <2> DEFINE way == Along(path, x)
  <2>1. way \in Seq(Nat)
      BY AlongIs
  <2>2. PathQuote(path, x) = Measured(path, way)
      BY <1>2 DEF PathQuote
  <2> HIDE DEF way
  <2>3. CASE way = <<>>
      BY <1>2, <2>2, <2>3 DEF Measured, Fail
  <2>4. CASE way # <<>>
    <3>1. Last(way) \in Nat
        BY <2>1, <2>4 DEF Last
    <3>2. Exposure(path.lane, Last(way)) \in Nat
        BY <3>1, ExposureIs DEF IsPath
    <3>3. Measured(path, way) = Gives(Exposure(path.lane, Last(way)), Len(path.pools))
        BY <2>4 DEF Measured
    <3>4. Len(path.pools) \in Nat
        BY DEF IsPath
    <3> QED BY <1>2, <2>2, <3>2, <3>3, <3>4 DEF Gives
  <2> QED BY <2>3, <2>4
<1> QED BY <1>1, <1>2

\* So are those of many.
LEMMA PathPricesAre ==
    ASSUME NEW paths, Len(paths) \in Nat, DOMAIN paths = 1..Len(paths),
           \A i \in DOMAIN paths : IsPath(paths[i]), NEW amount \in Nat
    PROVE  GoodPrice(PathPrices(paths, amount), amount) /\ DOMAIN PathPrices(paths, amount) = DOMAIN paths
<1> DEFINE p == PathPrices(paths, amount)
<1>1. p = [i \in 1..Len(paths) |-> [x \in 0..amount |-> PathQuote(paths[i], x)]]
    BY DEF PathPrices
<1> HIDE DEF p
<1>2. DOMAIN p = 1..Len(paths) /\ Len(p) = Len(paths)
    BY <1>1
<1>3. \A i \in DOMAIN p : \A x \in 0..amount : p[i][x] = PathQuote(paths[i], x)
    BY <1>1
<1>4. \A i \in DOMAIN p : \A x \in 0..amount :
        /\ p[i][x].out \in Nat /\ p[i][x].cost \in Nat
        /\ x = 0 => p[i][x].ok /\ p[i][x].out = 0 /\ p[i][x].cost = 0
  <2> TAKE i \in DOMAIN p
  <2> TAKE x \in 0..amount
  <2>1. IsPath(paths[i]) /\ x \in Nat /\ p[i][x] = PathQuote(paths[i], x)
      BY <1>2, <1>3
  <2>2. /\ PathQuote(paths[i], x).out \in Nat /\ PathQuote(paths[i], x).cost \in Nat
        /\ x = 0 => PathQuote(paths[i], x).ok /\ PathQuote(paths[i], x).out = 0
                      /\ PathQuote(paths[i], x).cost = 0
      BY <2>1, PathQuoteIs
  <2> QED BY <2>1, <2>2
<1>5. 0 \in 0..amount
    OBVIOUS
<1>6. GoodPrice(p, amount)
    BY <1>2, <1>4, <1>5 DEF GoodPrice
<1> QED BY <1>2, <1>6 DEF p

\* The pools of some lanes, and the paths over them.
PoolsIn(lanes) == UNION {UNION {Range(w) : w \in Range(l.worlds)} : l \in Range(lanes)}
PathsIn(lanes) == {p \in [lane : Range(lanes), pools : Seq(PoolsIn(lanes))] : IsPath(p)}

\* Pools one after the other are a path.
LEMMA PathIs ==
    ASSUME NEW lanes, NEW lane \in Range(lanes), IsLane(lane),
           NEW pools \in Seq(PoolsIn(lanes)), \A k \in DOMAIN pools : IsPool(pools[k])
    PROVE  [lane |-> lane, pools |-> pools] \in PathsIn(lanes)
<1> DEFINE p == [lane |-> lane, pools |-> pools]
<1>1. p \in [lane : Range(lanes), pools : Seq(PoolsIn(lanes))] /\ p.lane = lane /\ p.pools = pools
    OBVIOUS
<1>2. Len(pools) \in Nat /\ DOMAIN pools = 1..Len(pools)
    OBVIOUS
<1>3. lane.multiplier \in Nat /\ lane.bps \in Nat
    BY DEF IsLane
<1> HIDE DEF p
<1>4. IsPath(p)
    BY <1>1, <1>2, <1>3 DEF IsPath
<1> QED BY <1>1, <1>4 DEF PathsIn, p

\* A place in a grid, by its number.
LEMMA GridPlace ==
    ASSUME NEW m \in Nat, NEW n \in Nat, NEW size, size = m * n, NEW k \in 1..size
    PROVE  ((k - 1) \div n) + 1 \in 1..m /\ ((k - 1) % n) + 1 \in 1..n
<1> DEFINE q == (k - 1) \div n
           r == (k - 1) % n
<1>1. n # 0 /\ size \in Nat /\ k - 1 \in Nat /\ k - 1 < size
    OBVIOUS
<1>2. q \in Nat /\ r \in 0..(n - 1) /\ q * n <= k - 1
    BY <1>1, QuotientIs
<1>3. q < m
  <2> SUFFICES ASSUME m <= q PROVE FALSE
      BY <1>2
  <2> HIDE DEF q
  <2>1. m * n <= q * n
      BY <1>2, TimesAtMost
  <2> QED BY <1>1, <1>2, <2>1
<1>4. q + 1 \in 1..m /\ r + 1 \in 1..n
  <2> HIDE DEF q, r
  <2> QED BY <1>2, <1>3
<1> QED BY <1>4

\* The paths of a lane.  (LanePaths)
LEMMA LanePathsAre ==
    ASSUME NEW lanes, NEW lane \in Range(lanes), IsLane(lane), NEW prefix \in {0, 1},
           Len(lane.worlds) - prefix \in 1..2
    PROVE  LanePaths(lane, prefix) \in Seq(PathsIn(lanes))
<1> DEFINE ws == lane.worlds
           w == SubSeq(ws, prefix + 1, Len(ws))
<1>1. ws \in Seq(Range(ws)) /\ Len(ws) \in Nat /\ \A k \in DOMAIN ws : IsWorld(ws[k])
    BY DEF IsLane
<1>2. Len(w) = Len(ws) - prefix /\ \A i \in 1..Len(w) : prefix + i \in DOMAIN ws /\ w[i] = ws[prefix + i]
    BY <1>1
<1>3. LanePaths(lane, prefix) = PathsOver(lane, w)
    BY DEF LanePaths
<1> HIDE DEF w
<1>4. \A i \in 1..Len(w) : IsWorld(w[i]) /\ w[i] \in Range(ws)
    BY <1>1, <1>2 DEF Range
<1> HIDE DEF ws
<1>5. ASSUME NEW i \in 1..Len(w)
      PROVE  /\ Len(w[i]) \in Nat /\ DOMAIN w[i] = 1..Len(w[i])
             /\ \A k \in DOMAIN w[i] : IsPool(w[i][k]) /\ w[i][k] \in PoolsIn(lanes)
  <2>1. IsWorld(w[i]) /\ w[i] \in Range(ws)
      BY <1>4, <1>5
  <2>2. \A k \in DOMAIN w[i] : w[i][k] \in Range(w[i])
      BY DEF Range
  <2>3. \A k \in DOMAIN w[i] : w[i][k] \in UNION {Range(x) : x \in Range(ws)}
      BY <2>1, <2>2
  <2>4. \A k \in DOMAIN w[i] : w[i][k] \in PoolsIn(lanes)
      BY <2>3 DEF PoolsIn, ws
  <2>5. w[i] \in Seq(Range(w[i])) /\ \A k \in DOMAIN w[i] : IsPool(w[i][k])
      BY <2>1 DEF IsWorld
  <2> QED BY <2>4, <2>5
<1>6. Len(w) \in {1, 2}
    BY <1>2 DEF ws
<1>7. CASE Len(w) = 1
  <2>1. PathsOver(lane, w) = [k \in DOMAIN w[1] |-> [lane |-> lane, pools |-> <<w[1][k]>>]]
      BY <1>7 DEF PathsOver
  <2>2. 1 \in 1..Len(w)
      BY <1>7
  <2>3. Len(w[1]) \in Nat /\ DOMAIN w[1] = 1..Len(w[1])
      BY <1>5, <2>2
  <2>4. ASSUME NEW k \in 1..Len(w[1]) PROVE [lane |-> lane, pools |-> <<w[1][k]>>] \in PathsIn(lanes)
    <3>1. IsPool(w[1][k]) /\ w[1][k] \in PoolsIn(lanes)
        BY <1>5, <2>2, <2>3
    <3> DEFINE s == <<w[1][k]>>
    <3>2. s \in Seq(PoolsIn(lanes)) /\ DOMAIN s = {1} /\ s[1] = w[1][k]
        BY <3>1
    <3> HIDE DEF s
    <3>3. \A i \in DOMAIN s : IsPool(s[i])
        BY <3>1, <3>2
    <3>4. [lane |-> lane, pools |-> s] \in PathsIn(lanes)
        BY <3>2, <3>3, PathIs
    <3> QED BY <3>4 DEF s
  <2> DEFINE h == [k \in 1..Len(w[1]) |-> [lane |-> lane, pools |-> <<w[1][k]>>]]
  <2>5. h \in [1..Len(w[1]) -> PathsIn(lanes)]
      BY <2>4
  <2>6. PathsOver(lane, w) = h
      BY <2>1, <2>3
  <2> HIDE DEF h
  <2>7. h \in Seq(PathsIn(lanes))
      BY <2>3, <2>5
  <2> QED BY <1>3, <2>6, <2>7
<1>8. CASE Len(w) = 2
  <2> DEFINE m == Len(w[1])
             n == Len(w[2])
             a(k) == w[1][((k - 1) \div n) + 1]
             b(k) == w[2][((k - 1) % n) + 1]
             h == [k \in 1..(m * n) |-> [lane |-> lane, pools |-> <<a(k), b(k)>>]]
  <2>1. PathsOver(lane, w) = h
      BY <1>8 DEF PathsOver
  <2>2. 1 \in 1..Len(w) /\ 2 \in 1..Len(w)
      BY <1>8
  <2>3. m \in Nat /\ DOMAIN w[1] = 1..m /\ n \in Nat /\ DOMAIN w[2] = 1..n
      BY <1>5, <2>2
  <2>4. ASSUME NEW k \in 1..(m * n) PROVE [lane |-> lane, pools |-> <<a(k), b(k)>>] \in PathsIn(lanes)
    <3>1. ((k - 1) \div n) + 1 \in 1..m /\ ((k - 1) % n) + 1 \in 1..n
      <4> HIDE DEF m, n
      <4> DEFINE size == m * n
      <4>1. size = m * n /\ k \in 1..size
          OBVIOUS
      <4> HIDE DEF size
      <4> QED BY <2>3, <4>1, GridPlace
    <3>2. IsPool(a(k)) /\ a(k) \in PoolsIn(lanes) /\ IsPool(b(k)) /\ b(k) \in PoolsIn(lanes)
      <4>1. \A i \in DOMAIN w[1] : IsPool(w[1][i]) /\ w[1][i] \in PoolsIn(lanes)
          BY <1>5, <2>2
      <4>2. \A i \in DOMAIN w[2] : IsPool(w[2][i]) /\ w[2][i] \in PoolsIn(lanes)
          BY <1>5, <2>2
      <4> HIDE DEF m, n
      <4> QED BY <2>3, <3>1, <4>1, <4>2
    <3> HIDE DEF a, b
    <3> DEFINE s == <<a(k), b(k)>>
    <3>3. s \in Seq(PoolsIn(lanes)) /\ DOMAIN s = {1, 2} /\ s[1] = a(k) /\ s[2] = b(k)
        BY <3>2
    <3> HIDE DEF s
    <3>4. \A i \in DOMAIN s : IsPool(s[i])
        BY <3>2, <3>3
    <3>5. [lane |-> lane, pools |-> s] \in PathsIn(lanes)
        BY <3>3, <3>4, PathIs
    <3> QED BY <3>5 DEF s
  <2> HIDE DEF a, b
  <2>5. h \in [1..(m * n) -> PathsIn(lanes)]
    <3> HIDE DEF m, n
    <3> QED BY <2>4
  <2>9. m * n \in Nat
    <3> HIDE DEF m, n
    <3> QED BY <2>3
  <2> HIDE DEF h, m, n
  <2>6. h \in Seq(PathsIn(lanes))
      BY <2>5, <2>9
  <2> QED BY <1>3, <2>1, <2>6
<1> QED BY <1>6, <1>7, <1>8

IsListing(g, lanes, prefix) ==
    g = [k \in 0..Len(lanes) |->
            IF k = 0 THEN <<>>
            ELSE g[k - 1] \o LanePaths(lanes[k], prefix)]
ListingSteps(lanes, prefix) == CHOOSE g : IsListing(g, lanes, prefix)

\* The paths of the lanes are listed lane by lane.  (Paths)
LEMMA ListingRuns ==
    ASSUME NEW lanes, NEW prefix, Len(lanes) \in Nat, NEW X, <<>> \in X,
           \A k \in 1..Len(lanes) : \A u \in X : u \o LanePaths(lanes[k], prefix) \in X
    PROVE  LET f == ListingSteps(lanes, prefix) IN
           /\ Paths(lanes, prefix) = f[Len(lanes)] /\ f[0] = <<>>
           /\ \A k \in 0..Len(lanes) : f[k] \in X
           /\ \A k \in 1..Len(lanes) : f[k] = f[k - 1] \o LanePaths(lanes[k], prefix)
<1> DEFINE n == Len(lanes)
           z == <<>>
           f == ListingSteps(lanes, prefix)
           F == [p \in (1..n) \X X |-> p[2] \o LanePaths(lanes[p[1]], prefix)]
<1>0. n \in Nat /\ z \in X /\ \A k \in 1..n : \A u \in X : u \o LanePaths(lanes[k], prefix) \in X
    OBVIOUS
<1>1. F \in [(1..n) \X X -> X] /\ \A k \in 1..n : \A u \in X : F[<<k, u>>] = u \o LanePaths(lanes[k], prefix)
  <2> HIDE DEF n, z
  <2> QED BY <1>0
<1> HIDE DEF F, n, z
<1>2. PICK g \in [0..n -> X] : g[0] = z /\ \A k \in 1..n : g[k] = F[<<k, g[k - 1]>>]
  <2>1. \E g : Runs(g, X, z, n, F)
      BY <1>0, <1>1, Iterated
  <2> QED BY <2>1 DEF Runs
<1>3. \A k \in 0..n : g[k] = IF k = 0 THEN z ELSE g[k - 1] \o LanePaths(lanes[k], prefix)
  <2> TAKE k \in 0..n
  <2>1. CASE k = 0
      BY <1>2, <2>1
  <2>2. CASE k # 0
    <3>1. k \in 1..n /\ k - 1 \in 0..n
        BY <1>0, <2>2
    <3>2. g[k - 1] \in X
        BY <1>2, <3>1
    <3>3. g[k] = F[<<k, g[k - 1]>>]
        BY <1>2, <3>1
    <3> QED BY <1>1, <2>2, <3>1, <3>2, <3>3
  <2> QED BY <2>1, <2>2
<1>4. IsListing(g, lanes, prefix)
  <2>1. g = [k \in 0..n |-> g[k]]
      BY <1>2
  <2>2. g = [k \in 0..n |-> IF k = 0 THEN z ELSE g[k - 1] \o LanePaths(lanes[k], prefix)]
      BY <1>3, <2>1
  <2> QED BY <2>2 DEF IsListing, n, z
<1>5. IsListing(f, lanes, prefix)
    BY <1>4 DEF ListingSteps
<1>6. Paths(lanes, prefix) = f[n]
    BY DEF Paths, ListingSteps, IsListing, n
<1> HIDE DEF f
<1>7. f[0] = z /\ \A k \in 1..n : f[k] = f[k - 1] \o LanePaths(lanes[k], prefix)
  <2>1. f = [k \in 0..n |-> IF k = 0 THEN z ELSE f[k - 1] \o LanePaths(lanes[k], prefix)]
      BY <1>5 DEF IsListing, z, n
  <2>2. 0 \in 0..n /\ \A k \in 1..n : k \in 0..n /\ k # 0
      BY <1>0
  <2> QED BY <2>1, <2>2
<1>8. \A k \in 0..n : f[k] \in X
  <2> DEFINE P == {k \in 0..n : f[k] \in X}
  <2>1. 0 \in P /\ P \in SUBSET (0..n)
      BY <1>0, <1>7
  <2>2. ASSUME NEW k \in 1..n, k - 1 \in P PROVE k \in P
    <3>1. f[k - 1] \in X /\ k \in 0..n
        BY <1>0, <2>2
    <3>2. f[k - 1] \o LanePaths(lanes[k], prefix) \in X
        BY <1>0, <3>1
    <3> QED BY <1>7, <3>1, <3>2
  <2> HIDE DEF P
  <2>3. \A k \in 0..n : k \in P
      BY <1>0, <2>1, <2>2, EveryStep
  <2> QED BY <2>3 DEF P
<1> QED BY <1>6, <1>7, <1>8 DEF f, z, n

\* The paths of a purchase.  (Paths)
LEMMA PathsAre ==
    ASSUME NEW lanes, lanes \in Seq(Range(lanes)), NEW prefix \in {0, 1},
           \A l \in DOMAIN lanes : IsLane(lanes[l]) /\ Len(lanes[l].worlds) - prefix \in 1..2
    PROVE  /\ Paths(lanes, prefix) \in Seq(PathsIn(lanes))
           /\ Len(Paths(lanes, prefix)) \in Nat
           /\ DOMAIN Paths(lanes, prefix) = 1..Len(Paths(lanes, prefix))
           /\ \A i \in DOMAIN Paths(lanes, prefix) : IsPath(Paths(lanes, prefix)[i])
<1> DEFINE n == Len(lanes)
           X == Seq(PathsIn(lanes))
<1>1. n \in Nat /\ DOMAIN lanes = 1..n /\ <<>> \in X
    OBVIOUS
<1>2. ASSUME NEW k \in 1..n, NEW s \in X PROVE s \o LanePaths(lanes[k], prefix) \in X
  <2>1. k \in DOMAIN lanes /\ lanes[k] \in Range(lanes)
      BY <1>1 DEF Range
  <2>2. LanePaths(lanes[k], prefix) \in X
      BY <2>1, LanePathsAre
  <2> QED BY <1>2, <2>2
<1> HIDE DEF n, X
<1>3. Paths(lanes, prefix) = ListingSteps(lanes, prefix)[n] /\ \A k \in 0..n : ListingSteps(lanes, prefix)[k] \in X
    BY <1>1, <1>2, ListingRuns DEF n
<1>4. n \in 0..n
    BY <1>1
<1>5. Paths(lanes, prefix) \in Seq(PathsIn(lanes))
    BY <1>3, <1>4 DEF X
<1>6. \A p \in PathsIn(lanes) : IsPath(p)
    BY DEF PathsIn
<1> QED BY <1>5, <1>6

-----------------------------------------------------------------------------
(* The plan of a purchase.                                                 *)

\* The split of a purchase over the paths, with the legs that are left.
GoodFinal(final, cash, legs) ==
    /\ Refined(final.price, cash,
               [calls |-> MaxCalls, cost |-> legs, legs |-> Min({legs, Len(final.paths)})],
               final.search)
    /\ final.legs \in 0..legs /\ final.exposure \in Nat
    /\ GoodPrice(final.price, cash) /\ final.inputs \in Inputs(final.price, cash)
    /\ SumIn(final.inputs, DOMAIN final.price) = cash
    /\ \A i \in DOMAIN final.price : final.price[i][final.inputs[i]].ok
    /\ Cardinality(Holders(final.inputs)) <= legs

\* Paths as they are listed.
ArePaths(paths) ==
    /\ Len(paths) \in Nat /\ DOMAIN paths = 1..Len(paths)
    /\ \A i \in DOMAIN paths : IsPath(paths[i])

\* A split that is found is a refined one.  (solve_exposure)
LEMMA SolveOverIs ==
    ASSUME NEW paths, ArePaths(paths), NEW cash \in Nat \ {0}, NEW legs \in Nat,
           SolveOver(paths, cash, legs) # None
    PROVE  /\ GoodFinal(SolveOver(paths, cash, legs), cash, legs)
           /\ SolveOver(paths, cash, legs).paths = paths
           /\ SolveOver(paths, cash, legs).price = PathPrices(paths, cash)
<1> DEFINE price == PathPrices(paths, cash)
           limits == [calls |-> MaxCalls, cost |-> legs, legs |-> Min({legs, Len(paths)})]
           s == Refine(price, cash, limits)
           final == SolveOver(paths, cash, legs)
<1>1. GoodPrice(price, cash) /\ DOMAIN price = DOMAIN paths
    BY PathPricesAre DEF ArePaths
<1>2. GoodLimits(limits) /\ limits.cost = legs /\ limits.legs <= legs
  <2>1. Len(paths) \in Nat /\ MaxCalls \in Nat
      BY RouteAssumption DEF ArePaths
  <2>2. Min({legs, Len(paths)}) \in Nat /\ Min({legs, Len(paths)}) <= legs
      BY <2>1, MinOfTwo
  <2> QED BY <2>1, <2>2 DEF GoodLimits
<1>3. final = FinalPlan(paths, price, s)
    BY DEF SolveOver, SplitOver, PathPrices
<1>4. s # NoPlan /\ final = [paths |-> paths, inputs |-> s.best.inputs, exposure |-> s.best.output,
                             legs |-> s.best.cost, price |-> price, search |-> s]
  <2> HIDE DEF s, price
  <2> QED BY <1>3 DEF FinalPlan
<1> HIDE DEF price, limits
<1>5. Refined(price, cash, limits, s) /\ s.best \in Plans(price, cash, limits)
    BY <1>1, <1>2, <1>4, RefineIs
<1> HIDE DEF s, final
<1>6. /\ s.best.inputs \in Inputs(price, cash) /\ s.best.output \in Nat /\ s.best.cost \in Nat
      /\ s.best.cost <= limits.cost /\ Cardinality(Holders(s.best.inputs)) <= limits.legs
      /\ SumIn(s.best.inputs, DOMAIN price) = cash
      /\ \A i \in DOMAIN price : price[i][s.best.inputs[i]].ok
    BY <1>5 DEF Plans, GoodPlan
<1>7. /\ final.paths = paths /\ final.inputs = s.best.inputs /\ final.exposure = s.best.output
      /\ final.legs = s.best.cost /\ final.price = price /\ final.search = s
    BY <1>4
<1>8. Cardinality(Holders(s.best.inputs)) <= legs
  <2>1. Cardinality(Holders(s.best.inputs)) \in Nat
      BY <1>1, <1>6, HoldersAre
  <2> QED BY <1>2, <1>6, <2>1 DEF GoodLimits
<1>9. s.best.cost \in 0..legs
    BY <1>2, <1>6
<1>10. Refined(final.price, cash, [calls |-> MaxCalls, cost |-> legs, legs |-> Min({legs, Len(final.paths)})],
               final.search)
    BY <1>5, <1>7 DEF limits
<1>11. GoodFinal(final, cash, legs)
    BY <1>1, <1>6, <1>7, <1>8, <1>9, <1>10 DEF GoodFinal
<1> QED BY <1>7, <1>11 DEF final, price

\* What the buyer's input goes into when it is funded in a first hop.
FundedBy(funding) == [k \in DOMAIN funding |-> funding[k].input]
\* A plan of a purchase.
IsPlanOf(p, j, input) ==
    /\ IsFiniteSet(DOMAIN p.funding) /\ Cardinality(DOMAIN p.funding) \in 0..MaxLegs
    /\ p.cash \in Nat \ {0}
    /\ GoodFinal(p.final, p.cash, MaxLegs - Cardinality(DOMAIN p.funding))
    /\ p.final.paths = Paths(j.lanes, j.prefix) /\ p.final.price = PathPrices(p.final.paths, p.cash)
    /\ Executable(p.final, p.cash, j.lanes, j.prefix)
    /\ j.prefix = 0 => p.cash = input /\ p.funding = [k \in {} |-> None]
    /\ j.prefix = 1 => /\ \A k \in DOMAIN p.funding : p.funding[k].input \in Nat
                       /\ SumIn(FundedBy(p.funding), DOMAIN p.funding) = input
                       /\ DOMAIN p.funding \subseteq DOMAIN j.lanes[1].worlds[1]
                       /\ \A k \in DOMAIN p.funding : p.funding[k].pool = j.lanes[1].worlds[1][k]

\* The ways to fund a purchase are finitely many.  (Funded)
LEMMA FundedIs ==
    ASSUME NEW j, IsJob(j), NEW input \in Nat \ {0}
    PROVE  /\ IsFiniteSet(Funded(j.lanes, input, j.prefix))
           /\ \A o \in Funded(j.lanes, input, j.prefix) :
                /\ IsFiniteSet(DOMAIN o.legs) /\ Cardinality(DOMAIN o.legs) \in 0..MaxLegs
                /\ o.output \in Nat \ {0}
                /\ j.prefix = 0 => o.output = input /\ o.legs = [k \in {} |-> None]
                /\ j.prefix = 1 => /\ \A k \in DOMAIN o.legs : o.legs[k].input \in Nat
                                   /\ SumIn(FundedBy(o.legs), DOMAIN o.legs) = input
                                   /\ DOMAIN o.legs \subseteq DOMAIN j.lanes[1].worlds[1]
                                   /\ \A k \in DOMAIN o.legs : o.legs[k].pool = j.lanes[1].worlds[1][k]
<1> DEFINE F == Funded(j.lanes, input, j.prefix)
<1>1. CASE j.prefix = 0
  <2> DEFINE x == [output |-> input, legs |-> [k \in {} |-> None]]
  <2>1. F = {} \cup {x}
      BY <1>1 DEF Funded
  <2>2. x.output = input /\ x.legs = [k \in {} |-> None] /\ DOMAIN x.legs = {}
      OBVIOUS
  <2> HIDE DEF x
  <2>3. IsFiniteSet({}) /\ Cardinality({}) = 0 /\ IsFiniteSet({} \cup {x})
      BY FS_EmptySet, FS_AddElement
  <2>4. MaxLegs \in Nat
      BY RouteAssumption
  <2>5. Cardinality({}) \in 0..MaxLegs
      BY <2>3, <2>4
  <2>6. \A o \in F : o = x
      BY <2>1
  <2> HIDE DEF F
  <2>7. \A o \in F :
          /\ IsFiniteSet(DOMAIN o.legs) /\ Cardinality(DOMAIN o.legs) \in 0..MaxLegs
          /\ o.output = input /\ o.legs = [k \in {} |-> None]
      BY <2>2, <2>3, <2>5, <2>6
  <2>8. j.prefix # 1
      BY <1>1
  <2>9. IsFiniteSet(F)
      BY <2>1, <2>3
  <2> QED BY <2>7, <2>8, <2>9 DEF F
<1>2. CASE j.prefix = 1
  <2> DEFINE w == j.lanes[1].worlds[1]
  <2>1. IsWorld(w)
    <3>1. j.lanes \in Seq(Range(j.lanes)) /\ j.lanes # <<>> /\ \A l \in DOMAIN j.lanes : IsLane(j.lanes[l])
        BY DEF IsJob
    <3>2. 1 \in DOMAIN j.lanes
        BY <3>1
    <3>3. IsLane(j.lanes[1])
        BY <3>1, <3>2
    <3> DEFINE ws == j.lanes[1].worlds
    <3>4. ws \in Seq(Range(ws)) /\ ws # <<>> /\ \A k \in DOMAIN ws : IsWorld(ws[k])
        BY <3>3 DEF IsLane
    <3> HIDE DEF ws
    <3>5. 1 \in DOMAIN ws
        BY <3>4
    <3>6. IsWorld(ws[1])
        BY <3>4, <3>5
    <3> QED BY <3>6 DEF ws
  <2> HIDE DEF w
  <2>2. F = {o \in Options(w, input) : Cardinality(DOMAIN o.legs) < MaxLegs}
      BY <1>2 DEF Funded, w
  <2>3. IsFiniteSet(Options(w, input)) /\ \A o \in Options(w, input) : IsOption(o, w, input)
      BY <2>1, OptionsAre
  <2>4. F \in SUBSET Options(w, input)
      BY <2>2
  <2>5. IsFiniteSet(F)
      BY <2>3, <2>4, FS_Subset
  <2>6. ASSUME NEW o \in F
        PROVE  /\ IsFiniteSet(DOMAIN o.legs) /\ Cardinality(DOMAIN o.legs) \in 0..MaxLegs
               /\ o.output \in Nat \ {0}
               /\ \A k \in DOMAIN o.legs : o.legs[k].input \in Nat
               /\ SumIn(FundedBy(o.legs), DOMAIN o.legs) = input
               /\ DOMAIN o.legs \subseteq DOMAIN w
               /\ \A k \in DOMAIN o.legs : o.legs[k].pool = w[k]
    <3>1. IsOption(o, w, input)
        BY <2>3, <2>4
    <3>2. 1..MaxLegs \subseteq 0..MaxLegs
        OBVIOUS
    <3>3. Fed(o) = FundedBy(o.legs)
        BY DEF Fed, FundedBy
    <3> QED BY <3>1, <3>2, <3>3 DEF IsOption
  <2> HIDE DEF F
  <2>7. 1 # 0
      OBVIOUS
  <2> QED BY <1>2, <2>5, <2>6, <2>7 DEF F, w
<1> QED BY <1>1, <1>2 DEF IsJob

\* A plan that is found is one.  (solve_exposure)
LEMMA SolveExposureIs ==
    ASSUME NEW j, IsJob(j), j.side # "sell", NEW input \in Nat \ {0}, SolveExposure(j, input) # None
    PROVE  IsPlanOf(SolveExposure(j, input), j, input)
<1> DEFINE Plan(o) == [funding |-> o.legs, cash |-> o.output,
                       final |-> SolveFinal(j.lanes, o.output, j.prefix,
                                            MaxLegs - Cardinality(DOMAIN o.legs))]
           D == Funded(j.lanes, input, j.prefix)
           all == {Plan(o) : o \in D}
           S == {p \in all : p.final # None}
           Ahead(p, q) == \/ q.final.exposure < p.final.exposure
                          \/ q.final.exposure = p.final.exposure /\ PlanLength(p) <= PlanLength(q)
           R == {r \in S \X S : Ahead(r[1], r[2])}
<1>1. SolveExposure(j, input) = BestPlan(S)
    BY DEF SolveExposure
<1>2. S # {} /\ SolveExposure(j, input) = CHOOSE p \in S : \A q \in S : Ahead(p, q)
  <2> HIDE DEF S
  <2> QED BY <1>1 DEF BestPlan
<1>3. ArePaths(Paths(j.lanes, j.prefix))
  <2>1. /\ j.lanes \in Seq(Range(j.lanes)) /\ j.prefix \in {0, 1}
        /\ \A l \in DOMAIN j.lanes : IsLane(j.lanes[l]) /\ Len(j.lanes[l].worlds) - j.prefix \in 1..2
      BY DEF IsJob, Depth
  <2> QED BY <2>1, PathsAre DEF ArePaths
<1>4. ASSUME NEW p \in S PROVE IsPlanOf(p, j, input)
  <2>1. PICK o \in D : p = Plan(o)
      OBVIOUS
  <2>2. /\ p.funding = o.legs /\ p.cash = o.output
        /\ p.final = SolveFinal(j.lanes, o.output, j.prefix, MaxLegs - Cardinality(DOMAIN o.legs))
        /\ p.final # None
      BY <2>1
  <2> HIDE DEF D, S
  <2>3. /\ IsFiniteSet(DOMAIN o.legs) /\ Cardinality(DOMAIN o.legs) \in 0..MaxLegs
        /\ o.output \in Nat \ {0}
        /\ j.prefix = 0 => o.output = input /\ o.legs = [k \in {} |-> None]
        /\ j.prefix = 1 => /\ \A k \in DOMAIN o.legs : o.legs[k].input \in Nat
                           /\ SumIn(FundedBy(o.legs), DOMAIN o.legs) = input
                           /\ DOMAIN o.legs \subseteq DOMAIN j.lanes[1].worlds[1]
                           /\ \A k \in DOMAIN o.legs : o.legs[k].pool = j.lanes[1].worlds[1][k]
      BY FundedIs DEF D
  <2> DEFINE legs == MaxLegs - Cardinality(DOMAIN o.legs)
  <2>4. legs \in Nat
      BY <2>3, RouteAssumption
  <2>5. /\ p.final = SolveOver(Paths(j.lanes, j.prefix), o.output, legs)
        /\ Executable(p.final, o.output, j.lanes, j.prefix)
      BY <2>2 DEF SolveFinal, Equipped
  <2> HIDE DEF legs
  <2>6. GoodFinal(p.final, o.output, legs) /\ p.final.paths = Paths(j.lanes, j.prefix)
        /\ p.final.price = PathPrices(p.final.paths, o.output)
      BY <1>3, <2>2, <2>3, <2>4, <2>5, SolveOverIs
  <2> QED BY <2>2, <2>3, <2>5, <2>6 DEF IsPlanOf, legs
<1>5. IsFiniteSet(S)
  <2>1. IsFiniteSet(D)
      BY FundedIs
  <2> DEFINE h == [o \in D |-> Plan(o)]
  <2>2. all = {h[o] : o \in D}
      OBVIOUS
  <2> HIDE DEF h, D, all
  <2>3. IsFiniteSet(all)
      BY <2>1, <2>2, ImageIsFinite
  <2>4. S \in SUBSET all
      OBVIOUS
  <2> HIDE DEF S
  <2> QED BY <2>3, <2>4, FS_Subset
<1> HIDE DEF S, D, all
<1>6. \A p \in S : p.final.exposure \in Nat /\ PlanLength(p) \in Nat
  <2> TAKE p \in S
  <2>0. /\ GoodFinal(p.final, p.cash, MaxLegs - Cardinality(DOMAIN p.funding))
        /\ Cardinality(DOMAIN p.funding) \in 0..MaxLegs
      BY <1>4 DEF IsPlanOf
  <2>2. p.final.exposure \in Nat /\ p.final.legs \in 0..(MaxLegs - Cardinality(DOMAIN p.funding))
      BY <2>0 DEF GoodFinal
  <2>1. p.final.exposure \in Nat /\ p.final.legs \in Nat /\ Cardinality(DOMAIN p.funding) \in Nat
      BY <2>0, <2>2
  <2> QED BY <2>1 DEF PlanLength
<1>7. \A p, q \in S : <<p, q>> \in R <=> Ahead(p, q)
    OBVIOUS
<1>8. \A p, q \in S : Ahead(p, q) \/ Ahead(q, p)
    BY <1>6
<1>9. \A p, q, r \in S : Ahead(p, q) /\ Ahead(q, r) => Ahead(p, r)
    BY <1>6
<1>10. \E p \in S : \A q \in S : Ahead(p, q)
  <2> HIDE DEF R, Ahead
  <2>1. \E p \in S : \A q \in S : <<p, q>> \in R
    <3>1. \A p, q \in S : <<p, q>> \in R \/ <<q, p>> \in R
        BY <1>7, <1>8
    <3>2. \A p, q, r \in S : <<p, q>> \in R /\ <<q, r>> \in R => <<p, r>> \in R
        BY <1>7, <1>9
    <3> QED BY <1>2, <1>5, <3>1, <3>2, FirstOfAll
  <2> QED BY <1>7, <2>1
<1> HIDE DEF Ahead
<1>11. SolveExposure(j, input) \in S
    BY <1>2, <1>10
<1> QED BY <1>4, <1>11

-----------------------------------------------------------------------------
(* Shares for display.                                                     *)

\* Quotients that are rounded down add up to no more than that of the sum.
LEMMA FloorsAddUp ==
    ASSUME NEW S, IsFiniteSet(S), NEW n \in Nat \ {0}, NEW p, NEW q,
           \A x \in S : p[x] \in Nat /\ q[x] = p[x] \div n
    PROVE  SumIn(q, S) \in Nat /\ SumIn(q, S) * n <= SumIn(p, S)
<1>1. \A x \in S : q[x] \in Nat /\ q[x] * n <= p[x] /\ n * q[x] \in Nat /\ n * q[x] = q[x] * n
  <2> TAKE x \in S
  <2>1. p[x] \in Nat /\ q[x] = p[x] \div n
      OBVIOUS
  <2>2. p[x] \div n \in Nat /\ (p[x] \div n) * n <= p[x]
      BY <2>1, QuotientIs
  <2>3. q[x] \in Nat
      BY <2>1, <2>2
  <2> QED BY <2>1, <2>2, <2>3
<1> DEFINE r == [x \in S |-> n * q[x]]
<1>2. \A x \in S : q[x] \in Int /\ r[x] = n * q[x]
    BY <1>1
<1>3. \A x \in S : r[x] \in Int /\ p[x] \in Int /\ r[x] <= p[x]
    BY <1>1
<1> HIDE DEF r
<1>4. SumIn(r, S) = n * SumIn(q, S)
    BY <1>2, SumScaled
<1>5. SumIn(r, S) <= SumIn(p, S)
    BY <1>3, SumAtMost
<1>6. SumIn(q, S) \in Nat
    BY <1>1, SumOfNaturals
<1>7. n * SumIn(q, S) = SumIn(q, S) * n
    BY <1>6
<1> QED BY <1>4, <1>5, <1>6, <1>7

\* The shares that are shown add up to the whole, and every leg has one.
\* (Shares)
LEMMA SharesAre ==
    ASSUME NEW price, NEW total \in Nat \ {0}, GoodPrice(price, total),
           NEW inputs \in Inputs(price, total), SumIn(inputs, DOMAIN price) = total,
           Cardinality(Holders(inputs)) <= Bps
    PROVE  LET s == Shares(inputs, total) IN
           /\ Summed(s, DOMAIN s) = Bps
           /\ \A i \in DOMAIN s : (s[i] > 0) = (inputs[i] > 0)
<1> DEFINE S == DOMAIN price
           H == Holders(inputs)
           h == Cardinality(H)
           c == Bps - h
           q == [i \in S |-> (inputs[i] * c) \div total]
           p == [i \in S |-> c * inputs[i]]
           g == [i \in S |-> Share(inputs, total, H, i)]
           l == Largest(inputs, H)
           s == Shares(inputs, total)
<1>1. DOMAIN inputs = S /\ \A i \in S : inputs[i] \in Nat
    BY DEF Inputs
<1>2. /\ H \in SUBSET S /\ IsFiniteSet(H) /\ h \in Nat /\ IsFiniteSet(S) /\ S \subseteq Nat
      /\ \A i \in S \ H : inputs[i] = 0
      /\ \A i \in H : inputs[i] > 0
  <2>1. S \subseteq Nat
      BY DEF GoodPrice
  <2>2. \A i \in H : inputs[i] > 0
      BY DEF Holders
  <2> QED BY <2>1, <2>2, HoldersAre
<1>3. h <= Bps /\ Bps \in Nat
    BY RouteAssumption
<1>4. s = [g EXCEPT ![l] = @ + Bps - Summed(g, H)]
    BY <1>1 DEF Shares, Rounded
<1>5. \A i \in S : g[i] = IF i \notin H THEN 0 ELSE 1 + q[i]
    BY <1>1 DEF Share
<1>6. DOMAIN g = S
    OBVIOUS
<1> HIDE DEF H, g, S, s
<1>7. H # {}
  <2> SUFFICES ASSUME H = {} PROVE FALSE
      OBVIOUS
  <2>0. {} \in SUBSET S /\ (\A i \in S \ {} : inputs[i] = 0) /\ \A i \in S : inputs[i] \in Int
      BY <1>1, <1>2
  <2>1. SumIn(inputs, S) = SumIn(inputs, {})
      BY <1>2, <2>0, SumOfSome
  <2>2. SumIn(inputs, {}) = 0
      BY <1>2, SumUnfolds
  <2>3. total = 0
      BY <2>1, <2>2 DEF S
  <2> QED BY <2>3
<1>8. l \in H
  <2> DEFINE Ahead(i, j) == inputs[j] < inputs[i] \/ (inputs[j] = inputs[i] /\ i <= j)
             R == {r \in H \X H : Ahead(r[1], r[2])}
  <2>1. \A i \in H : inputs[i] \in Nat /\ i \in Nat
      BY <1>1, <1>2
  <2>2. \A i, j \in H : <<i, j>> \in R <=> Ahead(i, j)
      OBVIOUS
  <2>3. \A i, j \in H : Ahead(i, j) \/ Ahead(j, i)
      BY <2>1
  <2>4. \A i, j, k \in H : Ahead(i, j) /\ Ahead(j, k) => Ahead(i, k)
      BY <2>1
  <2>5. \E i \in H : \A j \in H : Ahead(i, j)
    <3> HIDE DEF R, Ahead
    <3>1. \A i, j \in H : <<i, j>> \in R \/ <<j, i>> \in R
        BY <2>2, <2>3
    <3>2. \A i, j, k \in H : <<i, j>> \in R /\ <<j, k>> \in R => <<i, k>> \in R
        BY <2>2, <2>4
    <3>3. \E i \in H : \A j \in H : <<i, j>> \in R
        BY <1>2, <1>7, <3>1, <3>2, FirstOfAll
    <3> QED BY <2>2, <3>3
  <2>6. l = CHOOSE i \in H : \A j \in H : Ahead(i, j)
      BY DEF Largest
  <2> HIDE DEF Ahead, R, l
  <2> QED BY <2>5, <2>6
<1> HIDE DEF l
<1>9. c \in Nat
    BY <1>2, <1>3
<1> HIDE DEF c, h
<1>10. \A i \in S : p[i] \in Nat /\ q[i] = p[i] \div total
  <2>1. \A i \in S : inputs[i] * c = c * inputs[i] /\ c * inputs[i] \in Nat
      BY <1>1, <1>9
  <2> QED BY <2>1
<1>11. \A i \in S : p[i] = c * inputs[i]
    OBVIOUS
<1> HIDE DEF p, q
<1>12. SumIn(q, S) \in Nat /\ SumIn(q, S) * total <= SumIn(p, S)
    BY <1>2, <1>10, FloorsAddUp
<1>13. SumIn(p, S) = c * total
  <2>1. c \in Int /\ \A i \in S : inputs[i] \in Int /\ p[i] = c * inputs[i]
      BY <1>1, <1>9, <1>11
  <2>2. SumIn(p, S) = c * SumIn(inputs, S)
      BY <1>2, <2>1, SumScaled
  <2> QED BY <2>2 DEF S
<1>14. SumIn(q, S) <= c
  <2> DEFINE d == SumIn(q, S)
  <2>1. d \in Nat /\ d * total <= c * total
      BY <1>12, <1>13
  <2> HIDE DEF d
  <2>2. ~(c < d)
    <3> SUFFICES ASSUME c < d PROVE FALSE
        OBVIOUS
    <3>1. c + 1 \in Nat /\ c + 1 <= d
        BY <1>9, <2>1
    <3>2. (c + 1) * total <= d * total
        BY <2>1, <3>1, TimesAtMost
    <3>3. (c + 1) * total = c * total + total /\ c * total \in Nat /\ d * total \in Nat
        BY <1>9, <2>1
    <3> QED BY <2>1, <3>2, <3>3
  <2> QED BY <1>9, <2>1, <2>2 DEF d
<1>15. SumIn(q, H) <= SumIn(q, S)
  <2> DEFINE e == [i \in S |-> IF i \in H THEN q[i] ELSE 0]
  <2>1. \A i \in S : q[i] \in Nat
    <3> TAKE i \in S
    <3>1. p[i] \in Nat /\ q[i] = p[i] \div total
        BY <1>10
    <3> QED BY <3>1, QuotientIs
  <2>2. \A i \in S : e[i] \in Int /\ q[i] \in Int /\ e[i] <= q[i]
      BY <2>1
  <2>3. \A i \in S \ H : e[i] = 0
      OBVIOUS
  <2>4. \A i \in H : e[i] = q[i]
      BY <1>2
  <2> HIDE DEF e
  <2>5. SumIn(e, S) <= SumIn(q, S)
      BY <1>2, <2>2, SumAtMost
  <2>6. SumIn(e, S) = SumIn(e, H)
      BY <1>2, <2>2, <2>3, SumOfSome
  <2>7. SumIn(e, H) = SumIn(q, H)
      BY <1>2, <2>4, SumOfSame, ZenonT(40)
  <2> QED BY <2>5, <2>6, <2>7
<1>16. \A i \in S : q[i] \in Nat
  <2> TAKE i \in S
  <2>1. p[i] \in Nat /\ q[i] = p[i] \div total
      BY <1>10
  <2> QED BY <2>1, QuotientIs
<1>17. SumIn(g, H) = h + SumIn(q, H)
  <2> DEFINE one == [i \in H |-> 1]
  <2>1. \A i \in H : one[i] = 1 /\ i \in S
      BY <1>2
  <2>2. \A i \in H : one[i] \in Int /\ q[i] \in Int /\ g[i] = one[i] + q[i]
      BY <1>5, <1>16, <2>1
  <2> HIDE DEF one
  <2>3. SumIn(g, H) = SumIn(one, H) + SumIn(q, H)
      BY <1>2, <2>2, SumAdded
  <2>4. 1 \in Int
      OBVIOUS
  <2>5. SumIn(one, H) = 1 * h
      BY <1>2, <2>1, <2>4, SumOfEqual DEF h
  <2> QED BY <1>2, <2>3, <2>5
<1>18. SumIn(q, H) \in Nat /\ SumIn(g, H) \in Nat /\ SumIn(g, H) <= Bps
  <2>1. \A i \in H : q[i] \in Nat
      BY <1>2, <1>16
  <2>2. SumIn(q, H) \in Nat
      BY <1>2, <2>1, SumOfNaturals
  <2>3. h + c = Bps
      BY <1>2, <1>3 DEF c
  <2> QED BY <1>2, <1>9, <1>12, <1>14, <1>15, <1>17, <2>2, <2>3
<1> DEFINE d == Bps - SumIn(g, H)
<1>19. d \in Nat
    BY <1>3, <1>18
<1>20. \A i \in S : g[i] \in Nat /\ (g[i] > 0) = (i \in H)
    BY <1>2, <1>5, <1>16
<1>21. /\ DOMAIN s = S /\ s[l] = g[l] + d
       /\ \A i \in S \ {l} : s[i] = g[i]
  <2>1. l \in S /\ g[l] \in Nat
      BY <1>2, <1>8, <1>20
  <2>2. g[l] + Bps - SumIn(g, H) = g[l] + d
      BY <1>3, <1>18, <2>1
  <2>3. s = [g EXCEPT ![l] = g[l] + Bps - SumIn(g, H)]
      BY <1>4, SummedIs
  <2> QED BY <1>6, <2>1, <2>2, <2>3
<1> HIDE DEF d
<1>22. \A i \in S : (s[i] > 0) = (inputs[i] > 0)
  <2> TAKE i \in S
  <2>1. (inputs[i] > 0) = (i \in H)
      BY <1>1, <1>2
  <2>2. g[i] \in Nat /\ (g[i] > 0) = (i \in H)
      BY <1>20
  <2>3. CASE i = l
    <3>1. s[i] = g[i] + d /\ i \in H
        BY <1>8, <1>21, <2>3
    <3>2. g[i] > 0
        BY <2>2, <3>1
    <3>3. s[i] > 0
        BY <1>19, <2>2, <3>1, <3>2
    <3> QED BY <2>1, <3>1, <3>3
  <2>4. CASE i # l
    <3>1. s[i] = g[i]
        BY <1>21, <2>4
    <3> QED BY <2>1, <2>2, <3>1
  <2> QED BY <2>3, <2>4
<1>23. SumIn(s, S) = Bps
  <2>1. \A i \in S : g[i] \in Int /\ s[i] \in Int
      BY <1>19, <1>20, <1>21
  <2>2. l \in S /\ d \in Int
      BY <1>2, <1>8, <1>19
  <2>7. s[l] = g[l] + d /\ \A i \in S \ {l} : s[i] = g[i]
      BY <1>21
  <2>8. IsFiniteSet(S)
      BY <1>2
  <2>3. SumIn(s, S) = SumIn(g, S) + d
    <3>1. PICK z \in S : z = l
        BY <2>2
    <3>2. s[z] = g[z] + d /\ \A i \in S \ {z} : s[i] = g[i]
        BY <2>7, <3>1
    <3> HIDE DEF s, g, d, S
    <3> QED BY <2>1, <2>2, <2>8, <3>2, SumWithMore
  <2>4. \A i \in S \ H : g[i] = 0
      BY <1>5
  <2>5. SumIn(g, S) = SumIn(g, H)
      BY <1>2, <2>1, <2>4, SumOfSome
  <2> QED BY <1>3, <1>18, <2>3, <2>5 DEF d
<1> QED BY <1>21, <1>22, <1>23, SummedIs DEF s

-----------------------------------------------------------------------------
(* The plans that a behaviour shows.                                       *)

\* What a preview shows.
IsPreview(j, f) ==
    LET rest == j.input - CashPaid(j.sellers)
        plan == IF rest = 0 THEN None ELSE SolveExposure(j, rest)
        got == [p \in {l.product : l \in Range(j.lanes)} |-> BoughtOf(j, plan, p)]
    IN  /\ j.side = "clear" /\ SellersFit(j) /\ ~(rest > 0 /\ plan = None)
        /\ ~(f.total < j.floor)
        /\ f = [plan |-> plan, rest |-> rest, got |-> got,
                total |-> Summed([p \in DOMAIN got |-> got[p].exposure], DOMAIN got)]

\* The inductive invariant: what was found is what the search for the job
\* finds.
FoundInv ==
    /\ job \in Jobs
    /\ stage = "ask" => found = None /\ pending = <<>>
    /\ job.side = "buy" /\ stage # "ask" => found = SolveExposure(job, job.input)
    /\ job.side = "sell" /\ stage # "ask" =>
         found = SellRoute(Reversed(job.lanes[1]), job.input)
    /\ stage = "previewed" => IsPreview(job, found)

\* The search starts without an answer.  (Init)
LEMMA FoundAtFirst == Init => FoundInv
BY DEF Init, FoundInv

\* Every step keeps the answer that was found.  (Next)
LEMMA FoundStays == FoundInv /\ [Next]_planVars => FoundInv'
<1> SUFFICES ASSUME FoundInv, [Next]_planVars PROVE FoundInv'
    OBVIOUS
<1>1. CASE Sell
  <2>1. /\ stage = "ask" /\ job.side = "sell" /\ job' = job /\ stage' \in {"refused", "try"}
        /\ found' = SellRoute(Reversed(job.lanes[1]), job.input)
      BY <1>1 DEF Sell, AdoptRoute, Adopt
  <2> QED BY <2>1 DEF FoundInv
<1>2. CASE Buy
  <2>1. /\ stage = "ask" /\ job.side = "buy" /\ job' = job /\ stage' \in {"refused", "try"}
        /\ found' = SolveExposure(job, job.input)
      BY <1>2 DEF Buy, AdoptPlan, Adopt
  <2> QED BY <2>1 DEF FoundInv
<1>3. CASE Clear
  <2> DEFINE rest == job.input - CashPaid(job.sellers)
             plan == IF rest = 0 THEN None ELSE SolveExposure(job, rest)
             got == [p \in {l.product : l \in Range(job.lanes)} |-> BoughtOf(job, plan, p)]
             total == Summed([p \in DOMAIN got |-> got[p].exposure], DOMAIN got)
             shown == [plan |-> plan, rest |-> rest, got |-> got, total |-> total]
  <2>1. /\ job.side = "clear" /\ job' = job /\ stage' # "ask"
        /\ IF ~SellersFit(job) THEN stage' = "refused" ELSE ClearRest(plan, rest)
      BY <1>3 DEF Clear, ClearRest, PreviewOf, Preview
  <2>2. stage' = "previewed" => SellersFit(job) /\ ~(rest > 0 /\ plan = None) /\ ~(total < job.floor)
                                  /\ found' = shown
    <3>1. ClearRest(plan, rest) =
            IF rest > 0 /\ plan = None THEN stage' = "refused" /\ UNCHANGED found
            ELSE PreviewOf(plan, rest, got)
        BY DEF ClearRest
    <3>2. PreviewOf(plan, rest, got) =
            IF total < job.floor THEN stage' = "refused" /\ UNCHANGED found
            ELSE stage' = "previewed" /\ found' = shown
        BY DEF PreviewOf, Preview
    <3> HIDE DEF plan, rest, got, total, shown
    <3>3. CASE stage' # "previewed"
        BY <3>3
    <3>4. CASE stage' = "previewed"
        BY <2>1, <3>1, <3>2, <3>4
    <3> QED BY <3>3, <3>4
  <2>3. stage' = "previewed" => IsPreview(job, found')
    <3> SUFFICES ASSUME stage' = "previewed" PROVE IsPreview(job, found')
        OBVIOUS
    <3>1. /\ SellersFit(job) /\ ~(rest > 0 /\ plan = None) /\ ~(total < job.floor)
          /\ found' = shown /\ shown.total = total
        BY <2>2
    <3>2. ~(found'.total < job.floor)
        BY <3>1
    <3> QED BY <2>1, <3>1, <3>2 DEF IsPreview
  <2> HIDE DEF rest, plan, got, total, shown
  <2> QED BY <2>1, <2>3 DEF FoundInv
<1>4. CASE Accepted
    BY <1>4 DEF FoundInv, Accepted
<1>5. CASE TooLarge
    BY <1>5 DEF FoundInv, TooLarge
<1>6. CASE Refused
    BY <1>6 DEF FoundInv, Refused
<1>7. CASE Over \/ UNCHANGED planVars
    BY <1>7 DEF FoundInv, Over, planVars
<1> QED BY <1>1, <1>2, <1>3, <1>4, <1>5, <1>6, <1>7 DEF Next

\* A purchase that is found is a refined split within the limits of one
\* transaction, with shares that add up.
LEMMA PurchasesAre == FoundInv => PurchaseIsRefined
<1> SUFFICES ASSUME FoundInv, job.side = "buy", found # None
             PROVE  PurchaseIsRefined
    BY DEF PurchaseIsRefined
<1>1. IsJob(job) /\ job.side # "sell" /\ job.input \in Nat \ {0}
    BY JobsAssumption DEF FoundInv, IsJob
<1>2. found = SolveExposure(job, job.input)
    BY DEF FoundInv
<1>3. IsPlanOf(found, job, job.input)
    BY <1>1, <1>2, SolveExposureIs
<1> DEFINE n == Cardinality(DOMAIN found.funding)
           legs == MaxLegs - n
           final == found.final
<1>4. n \in 0..MaxLegs /\ found.cash \in Nat \ {0} /\ GoodFinal(final, found.cash, legs)
    BY <1>3 DEF IsPlanOf
<1>5. MaxLegs \in Nat /\ Bps \in Nat /\ MaxLegs <= Bps
    BY RouteAssumption
<1> HIDE DEF n
<1>6. legs \in Nat /\ n \in Nat /\ legs <= Bps /\ n + legs = MaxLegs
    BY <1>4, <1>5
<1> HIDE DEF legs, final
<1>7. /\ Refined(final.price, found.cash,
                 [calls |-> MaxCalls, cost |-> legs, legs |-> Min({legs, Len(final.paths)})],
                 final.search)
      /\ final.legs \in 0..legs
      /\ GoodPrice(final.price, found.cash) /\ final.inputs \in Inputs(final.price, found.cash)
      /\ SumIn(final.inputs, DOMAIN final.price) = found.cash
      /\ Cardinality(Holders(final.inputs)) <= legs
    BY <1>4 DEF GoodFinal
<1>8. n + final.legs <= MaxLegs
    BY <1>6, <1>7
<1>9. Cardinality(Holders(final.inputs)) <= Bps
  <2>1. Cardinality(Holders(final.inputs)) \in Nat
      BY <1>7, HoldersAre
  <2> QED BY <1>5, <1>6, <1>7, <2>1
<1>10. LET shares == Shares(final.inputs, found.cash) IN
       /\ Summed(shares, DOMAIN shares) = Bps
       /\ \A i \in DOMAIN shares : (shares[i] > 0) = (final.inputs[i] > 0)
    BY <1>4, <1>7, <1>9, SharesAre
<1> QED BY <1>7, <1>8, <1>10 DEF PurchaseIsRefined, legs, n, final

\* Whatever is found for a purchase is a refined split of all the cash that
\* its funding gives, fits with the funding into the legs of one
\* transaction, and is shown in shares that add up to the whole
\* (exposure_route.rs, oracle.rs).
THEOREM PurchaseIsSound == Spec => []PurchaseIsRefined
<1>1. Spec => []FoundInv
    BY FoundAtFirst, FoundStays, PTL DEF Spec
<1> QED BY <1>1, PurchasesAre, PTL

-----------------------------------------------------------------------------
(* A clearing preview.                                                     *)

\* What fits into a quotient.
LEMMA QuotientAtLeast ==
    ASSUME NEW x \in Nat, NEW d \in Nat \ {0}, NEW a \in Nat, a * d <= x
    PROVE  a <= x \div d
<1> DEFINE q == x \div d
           r == x % d
<1>1. q \in Nat /\ r \in 0..(d - 1)
    BY QuotientIs
<1>2. x = q * d + r
  <2>1. x = d * q + r
      OBVIOUS
  <2> HIDE DEF q, r
  <2>2. d * q = q * d
      BY <1>1
  <2> QED BY <2>1, <2>2
<1> HIDE DEF q, r
<1>3. ~(q < a)
  <2> SUFFICES ASSUME q < a PROVE FALSE
      OBVIOUS
  <2>1. q + 1 \in Nat /\ q + 1 <= a
      BY <1>1
  <2>2. (q + 1) * d <= a * d
      BY <2>1, TimesAtMost
  <2>3. (q + 1) * d = q * d + d /\ q * d \in Nat /\ a * d \in Nat
      BY <1>1
  <2> QED BY <1>1, <1>2, <2>2, <2>3
<1>4. a <= q
    BY <1>1, <1>3
<1> QED BY <1>4 DEF q

\* The exposure of amounts, each rounded down.
Exposures(lane, raw) == [i \in DOMAIN raw |-> Exposure(lane, raw[i])]

\* Exposure is a quotient of a product.  (exposure_atoms)
LEMMA ExposureScales ==
    ASSUME NEW lane, lane.multiplier \in Nat, lane.bps \in Nat, NEW raw \in Nat
    PROVE  /\ lane.multiplier * lane.bps \in Nat
           /\ Exposure(lane, raw) = ((lane.multiplier * lane.bps) * raw) \div Bps
<1> DEFINE m == lane.multiplier
           b == lane.bps
<1>1. m \in Nat /\ b \in Nat
    OBVIOUS
<1> HIDE DEF m, b
<1>2. m * b \in Nat /\ raw * m * b = (m * b) * raw
    BY <1>1
<1>3. Exposure(lane, raw) = (raw * m * b) \div Bps
    BY DEF Exposure, m, b
<1>4. Exposure(lane, raw) = ((m * b) * raw) \div Bps
    BY <1>2, <1>3
<1> QED BY <1>2, <1>4 DEF m, b

\* The exposure of amounts, before it is rounded.
LEMMA ExposuresFit ==
    ASSUME NEW lane, lane.multiplier \in Nat, lane.bps \in Nat,
           NEW S, IsFiniteSet(S), NEW raw, \A i \in S : raw[i] \in Nat,
           NEW e, \A i \in S : e[i] = Exposure(lane, raw[i])
    PROVE  /\ SumIn(raw, S) \in Nat /\ SumIn(e, S) \in Nat
           /\ SumIn(e, S) * Bps <= (lane.multiplier * lane.bps) * SumIn(raw, S)
<1> DEFINE c == lane.multiplier * lane.bps
           p == [i \in S |-> c * raw[i]]
<1>1. c \in Nat
    BY ExposureScales
<1>2. \A i \in S : e[i] = (c * raw[i]) \div Bps
    BY ExposureScales
<1> HIDE DEF c
<1>3. \A i \in S : c * raw[i] \in Nat
    BY <1>1
<1>4. \A i \in S : p[i] \in Nat /\ e[i] = p[i] \div Bps /\ p[i] = c * raw[i] /\ p[i] \in Int /\ raw[i] \in Int
    BY <1>2, <1>3
<1>5. c \in Int /\ Bps \in Nat \ {0}
    BY <1>1, RouteAssumption
<1> HIDE DEF p
<1>6. SumIn(e, S) \in Nat /\ SumIn(e, S) * Bps <= SumIn(p, S)
    BY <1>4, <1>5, FloorsAddUp
<1>7. SumIn(p, S) = c * SumIn(raw, S)
    BY <1>4, <1>5, SumScaled
<1>8. SumIn(raw, S) \in Nat
    BY SumOfNaturals
<1> QED BY <1>6, <1>7, <1>8 DEF c

\* Rounded once, what was bought has no less exposure than rounded in parts.
\* (clear_exposure)
LEMMA BoughtIs ==
    ASSUME NEW lane, lane.multiplier \in Nat, lane.bps \in Nat,
           NEW mine, IsFiniteSet(mine), NEW stock, \A i \in mine : stock[i] \in Nat,
           NEW ways, IsFiniteSet(ways), NEW atoms, \A i \in ways : atoms[i] \in Nat
    PROVE  LET b == Bought(lane, stock, mine, atoms, ways) IN
           b.exposure \in Nat /\ Exposure(lane, b.raw) \in Nat /\ b.exposure <= Exposure(lane, b.raw)
<1> DEFINE b == Bought(lane, stock, mine, atoms, ways)
           e == [i \in mine |-> Exposure(lane, stock[i])]
           f == [i \in ways |-> Exposure(lane, atoms[i])]
           c == lane.multiplier * lane.bps
           x == SumIn(stock, mine)
           y == SumIn(atoms, ways)
           u == SumIn(e, mine)
           v == SumIn(f, ways)
<1>1. b.raw = x + y /\ b.exposure = u + v
    BY SummedIs DEF Bought
<1>2. (\A i \in mine : e[i] = Exposure(lane, stock[i])) /\ (\A i \in ways : f[i] = Exposure(lane, atoms[i]))
    OBVIOUS
<1>3. x \in Nat /\ u \in Nat /\ u * Bps <= c * x
  <2> HIDE DEF e, f, c, b
  <2> QED BY <1>2, ExposuresFit DEF c
<1>4. y \in Nat /\ v \in Nat /\ v * Bps <= c * y
  <2> HIDE DEF e, f, c, b
  <2> QED BY <1>2, ExposuresFit DEF c
<1>5. x + y \in Nat
    BY <1>3, <1>4
<1>6. c \in Nat /\ Exposure(lane, x + y) = (c * (x + y)) \div Bps
    BY <1>5, ExposureScales
<1>7. Bps \in Nat \ {0}
    BY RouteAssumption
<1>8. Exposure(lane, x + y) \in Nat
    BY <1>5, ExposureIs
<1> HIDE DEF b, c, x, y, u, v
<1>9. (u + v) * Bps <= c * (x + y) /\ c * (x + y) \in Nat /\ u + v \in Nat
  <2>1. (u + v) * Bps = u * Bps + v * Bps
      BY <1>3, <1>4, <1>7
  <2>2. c * (x + y) = c * x + c * y /\ c * x \in Nat /\ c * y \in Nat
      BY <1>3, <1>4, <1>6
  <2>3. u * Bps \in Nat /\ v * Bps \in Nat
      BY <1>3, <1>4, <1>7
  <2> QED BY <1>3, <1>4, <2>1, <2>2, <2>3
<1>10. u + v <= (c * (x + y)) \div Bps
    BY <1>7, <1>9, QuotientAtLeast
<1>11. b.exposure \in Nat /\ Exposure(lane, b.raw) \in Nat /\ b.exposure <= Exposure(lane, b.raw)
    BY <1>1, <1>6, <1>8, <1>9, <1>10
<1> QED BY <1>11 DEF b

\* The paths that are given something give something.
LEMMA WaysAre ==
    ASSUME NEW j, IsJob(j), j.side # "sell", NEW input \in Nat \ {0}, NEW plan, IsPlanOf(plan, j, input)
    PROVE  LET final == plan.final IN
           /\ IsFiniteSet(Holders(final.inputs)) /\ DOMAIN final.inputs = DOMAIN final.price
           /\ DOMAIN final.inputs = DOMAIN final.paths /\ ArePaths(final.paths)
           /\ \A i \in Holders(final.inputs) :
                /\ Along(final.paths[i], final.inputs[i]) \in Seq(Nat) \ {<<>>}
                /\ Got(plan, i) \in Nat
<1> DEFINE final == plan.final
           cash == plan.cash
           legs == MaxLegs - Cardinality(DOMAIN plan.funding)
<1>1. /\ GoodFinal(final, cash, legs) /\ cash \in Nat \ {0}
      /\ final.paths = Paths(j.lanes, j.prefix) /\ final.price = PathPrices(final.paths, cash)
    BY DEF IsPlanOf
<1>2. ArePaths(final.paths)
  <2>1. /\ j.lanes \in Seq(Range(j.lanes)) /\ j.prefix \in {0, 1}
        /\ \A l \in DOMAIN j.lanes : IsLane(j.lanes[l]) /\ Len(j.lanes[l].worlds) - j.prefix \in 1..2
      BY DEF IsJob, Depth
  <2> QED BY <1>1, <2>1, PathsAre DEF ArePaths
<1> HIDE DEF legs
<1>3. GoodPrice(final.price, cash) /\ final.inputs \in Inputs(final.price, cash)
      /\ \A i \in DOMAIN final.price : final.price[i][final.inputs[i]].ok
    BY <1>1 DEF GoodFinal
<1>4. IsFiniteSet(Holders(final.inputs)) /\ Holders(final.inputs) \in SUBSET DOMAIN final.price
    BY <1>1, <1>3, HoldersAre
<1>5. DOMAIN final.price = DOMAIN final.paths
    BY <1>1 DEF PathPrices
<1>6. DOMAIN final.inputs = DOMAIN final.price /\ \A i \in DOMAIN final.price : final.inputs[i] \in 0..cash
    BY <1>3 DEF Inputs
<1> HIDE DEF final, cash
<1>7. ASSUME NEW i \in Holders(final.inputs)
      PROVE  /\ Along(final.paths[i], final.inputs[i]) \in Seq(Nat) \ {<<>>}
             /\ Last(Along(final.paths[i], final.inputs[i])) \in Nat
  <2> DEFINE n == final.inputs[i]
             path == final.paths[i]
             way == Along(path, n)
  <2>1. i \in DOMAIN final.paths /\ n \in 0..cash /\ n > 0 /\ n \in Nat
      BY <1>1, <1>4, <1>5, <1>6 DEF Holders
  <2>2. IsPath(path)
      BY <1>2, <2>1 DEF ArePaths
  <2>3. way \in Seq(Nat)
      BY <2>1, <2>2, AlongIs
  <2>4. final.price[i][n] = PathQuote(path, n)
      BY <1>1, <2>1 DEF PathPrices
  <2>5. PathQuote(path, n).ok
      BY <1>3, <1>5, <2>1, <2>4
  <2>6. PathQuote(path, n) = Measured(path, way)
      BY <2>1 DEF PathQuote
  <2> HIDE DEF way, path, n
  <2>7. way # <<>>
    <3> SUFFICES ASSUME way = <<>> PROVE FALSE
        OBVIOUS
    <3>1. Measured(path, way) = Fail
        BY DEF Measured
    <3>2. Fail.ok = FALSE
        BY DEF Fail
    <3> QED BY <2>5, <2>6, <3>1, <3>2
  <2>8. Last(way) \in Nat
      BY <2>3, <2>7 DEF Last
  <2> QED BY <2>3, <2>7, <2>8 DEF way, path, n
<1> QED BY <1>2, <1>4, <1>5, <1>6, <1>7 DEF Got, final

\* The lane of a product that is asked for.  (LaneOf)
LEMMA LaneOfIs ==
    ASSUME NEW j, IsJob(j), NEW p \in {l.product : l \in Range(j.lanes)}
    PROVE  LaneOf(j, p) \in Range(j.lanes) /\ LaneOf(j, p).product = p /\ IsLane(LaneOf(j, p))
<1>1. \E l \in Range(j.lanes) : l.product = p
    OBVIOUS
<1>2. LaneOf(j, p) \in Range(j.lanes) /\ LaneOf(j, p).product = p
    BY <1>1 DEF LaneOf
<1>3. \A l \in Range(j.lanes) : IsLane(l)
    BY DEF IsJob, Range
<1> QED BY <1>2, <1>3

\* What a preview says was bought of a product has at least the exposure it
\* is said to have.
LEMMA PreviewedIs ==
    ASSUME NEW j, IsJob(j), j.side # "sell", NEW input \in Nat \ {0}, NEW plan,
           plan = None \/ IsPlanOf(plan, j, input), NEW p \in {l.product : l \in Range(j.lanes)}
    PROVE  LET b == BoughtOf(j, plan, p) IN
           /\ b.exposure \in Nat /\ Exposure(LaneOf(j, p), b.raw) \in Nat
           /\ b.exposure <= Exposure(LaneOf(j, p), b.raw)
<1> DEFINE lane == LaneOf(j, p)
           stock == [i \in DOMAIN j.sellers |-> j.sellers[i].stock]
           mine == Sellers(j, p)
           ways == Ways(plan, p)
           atoms == [i \in ways |-> Got(plan, i)]
<1>1. lane.multiplier \in Nat /\ lane.bps \in Nat
  <2>1. IsLane(lane)
      BY LaneOfIs
  <2> QED BY <2>1 DEF IsLane
<1>2. IsFiniteSet(mine) /\ \A i \in mine : stock[i] \in Nat
  <2>1. /\ j.sellers \in Seq(Range(j.sellers))
        /\ \A i \in DOMAIN j.sellers : j.sellers[i].stock \in Nat
      BY DEF IsJob
  <2>2. DOMAIN j.sellers = 1..Len(j.sellers) /\ Len(j.sellers) \in Nat
      BY <2>1
  <2>3. IsFiniteSet(1..Len(j.sellers))
      BY <2>2, FS_Interval
  <2>4. mine \in SUBSET DOMAIN j.sellers
      BY DEF Sellers
  <2>5. IsFiniteSet(mine)
      BY <2>2, <2>3, <2>4, FS_Subset
  <2> QED BY <2>1, <2>4, <2>5
<1>3. IsFiniteSet(ways) /\ \A i \in ways : Got(plan, i) \in Nat
  <2>1. CASE plan = None
      BY <2>1, FS_EmptySet DEF Ways
  <2>2. CASE plan # None
    <3>1. /\ IsFiniteSet(Holders(plan.final.inputs))
          /\ \A i \in Holders(plan.final.inputs) : Got(plan, i) \in Nat
        BY <2>2, WaysAre
    <3>2. ways \in SUBSET Holders(plan.final.inputs)
        BY <2>2 DEF Ways
    <3> HIDE DEF ways
    <3>3. IsFiniteSet(ways)
        BY <3>1, <3>2, FS_Subset
    <3> QED BY <3>1, <3>2, <3>3
  <2> QED BY <2>1, <2>2
<1> HIDE DEF ways
<1>4. \A i \in ways : atoms[i] \in Nat
    BY <1>3
<1>5. BoughtOf(j, plan, p) = Bought(lane, stock, mine, atoms, ways)
    BY DEF BoughtOf, ways
<1> HIDE DEF lane, stock, mine, atoms
<1>6. LET b == Bought(lane, stock, mine, atoms, ways) IN
      b.exposure \in Nat /\ Exposure(lane, b.raw) \in Nat /\ b.exposure <= Exposure(lane, b.raw)
    BY <1>1, <1>2, <1>3, <1>4, BoughtIs
<1> QED BY <1>5, <1>6 DEF lane

\* A plan spends all of what it is for.
LEMMA PlanSpendsAll ==
    ASSUME NEW j, IsJob(j), j.side # "sell", NEW input \in Nat \ {0}, NEW plan, IsPlanOf(plan, j, input)
    PROVE  (IF j.prefix = 1 THEN Into(plan.funding)
            ELSE Summed(plan.final.inputs, DOMAIN plan.final.inputs)) = input
<1>1. CASE j.prefix = 1
  <2>1. SumIn(FundedBy(plan.funding), DOMAIN plan.funding) = input
      BY <1>1 DEF IsPlanOf
  <2>2. Into(plan.funding) = SumIn(FundedBy(plan.funding), DOMAIN plan.funding)
      BY SummedIs DEF Into, FundedBy
  <2> QED BY <1>1, <2>1, <2>2
<1>2. CASE j.prefix # 1
  <2>1. j.prefix = 0
      BY <1>2 DEF IsJob
  <2>2. plan.cash = input /\ GoodFinal(plan.final, plan.cash, MaxLegs - Cardinality(DOMAIN plan.funding))
      BY <2>1 DEF IsPlanOf
  <2>3. SumIn(plan.final.inputs, DOMAIN plan.final.price) = input
      BY <2>2 DEF GoodFinal
  <2>4. DOMAIN plan.final.inputs = DOMAIN plan.final.price
      BY WaysAre
  <2>5. Summed(plan.final.inputs, DOMAIN plan.final.inputs) = input
      BY <2>3, <2>4, SummedIs
  <2> QED BY <1>2, <2>5
<1> QED BY <1>1, <1>2

\* A preview spends all of the buyer's cash, promises products that carry
\* the exposure asked for, and pays no seller less than he asks.
LEMMA PreviewsAddUp == FoundInv => ClearingAddsUp
<1> SUFFICES ASSUME FoundInv, stage = "previewed" PROVE ClearingAddsUp
    BY DEF ClearingAddsUp
<1> DEFINE rest == job.input - CashPaid(job.sellers)
           plan == IF rest = 0 THEN None ELSE SolveExposure(job, rest)
           P == {l.product : l \in Range(job.lanes)}
           got == [p \in P |-> BoughtOf(job, plan, p)]
           exposure == [p \in DOMAIN got |-> got[p].exposure]
           value == [p \in DOMAIN found.got |-> Exposure(LaneOf(job, p), found.got[p].raw)]
           cashes == [i \in DOMAIN job.sellers |-> job.sellers[i].cash]
           total == SumIn(exposure, P)
           spent == IF found.plan = None THEN 0
                    ELSE IF job.prefix = 1 THEN Into(found.plan.funding)
                    ELSE Summed(found.plan.final.inputs, DOMAIN found.plan.final.inputs)
<1>1. IsJob(job) /\ job.input \in Nat \ {0} /\ job.floor \in Nat
    BY JobsAssumption DEF FoundInv, IsJob
<1>2. IsPreview(job, found)
    BY DEF FoundInv
<1>3. /\ job.side = "clear" /\ SellersFit(job) /\ ~(rest > 0 /\ plan = None) /\ ~(found.total < job.floor)
      /\ found.plan = plan /\ found.got = got /\ found.total = total
  <2>1. found = [plan |-> plan, rest |-> rest, got |-> got,
                 total |-> Summed([p \in DOMAIN got |-> got[p].exposure], DOMAIN got)]
      BY <1>2 DEF IsPreview
  <2>2. Summed([p \in DOMAIN got |-> got[p].exposure], DOMAIN got) = total
    <3>1. DOMAIN got = P
        OBVIOUS
    <3> HIDE DEF got, P
    <3> QED BY <3>1, SummedIs
  <2> QED BY <1>2, <2>1, <2>2 DEF IsPreview
<1>4. /\ IsFiniteSet(DOMAIN job.sellers) /\ \A i \in DOMAIN job.sellers : cashes[i] \in Nat
      /\ CashPaid(job.sellers) = SumIn(cashes, DOMAIN job.sellers)
  <2>1. /\ job.sellers \in Seq(Range(job.sellers))
        /\ \A i \in DOMAIN job.sellers : job.sellers[i].cash \in Nat
      BY <1>1 DEF IsJob
  <2>2. DOMAIN job.sellers = 1..Len(job.sellers) /\ Len(job.sellers) \in Nat
      BY <2>1
  <2>3. IsFiniteSet(DOMAIN job.sellers)
      BY <2>2, FS_Interval
  <2> QED BY <2>1, <2>3, SummedIs DEF CashPaid
<1>5. CashPaid(job.sellers) \in Nat
    BY <1>4, SumOfNaturals
<1>6. CashPaid(job.sellers) <= job.input
    BY <1>3 DEF SellersFit
<1>7. rest \in Nat /\ (rest # 0 => rest \in Nat \ {0}) /\ rest + CashPaid(job.sellers) = job.input
    BY <1>1, <1>5, <1>6
<1>8. rest # 0 => plan # None /\ IsPlanOf(plan, job, rest)
  <2> SUFFICES ASSUME rest # 0 PROVE plan # None /\ IsPlanOf(plan, job, rest)
      OBVIOUS
  <2>1. plan = SolveExposure(job, rest)
      OBVIOUS
  <2> HIDE DEF rest, plan
  <2>2. rest > 0
      BY <1>7
  <2>3. plan # None
      BY <1>3, <2>2
  <2>4. job.side # "sell"
      BY <1>3
  <2> QED BY <1>1, <1>7, <2>1, <2>3, <2>4, SolveExposureIs
<1>9. rest = 0 => plan = None
    OBVIOUS
<1> HIDE DEF rest, plan, exposure, value, cashes, total, P
<1>10. spent = rest
  <2>1. CASE rest = 0
      BY <1>3, <1>9, <2>1
  <2>2. CASE rest # 0
    <3>1. job.side # "sell" /\ plan # None /\ IsPlanOf(plan, job, rest) /\ rest \in Nat \ {0}
        BY <1>3, <1>7, <1>8, <2>2
    <3>2. (IF job.prefix = 1 THEN Into(plan.funding)
           ELSE Summed(plan.final.inputs, DOMAIN plan.final.inputs)) = rest
        BY <1>1, <3>1, PlanSpendsAll
    <3> QED BY <1>3, <3>1, <3>2
  <2> QED BY <2>1, <2>2
<1> HIDE DEF spent
<1>11. DOMAIN cashes = DOMAIN job.sellers
    BY DEF cashes
<1>12. spent + Summed(cashes, DOMAIN cashes) = job.input
    BY <1>4, <1>7, <1>10, <1>11, SummedIs
<1>13. \A p \in P : exposure[p] \in Nat /\ value[p] \in Nat /\ exposure[p] <= value[p]
  <2> TAKE p \in P
  <2>1. exposure[p] = BoughtOf(job, plan, p).exposure
      BY DEF exposure
  <2>2. value[p] = Exposure(LaneOf(job, p), BoughtOf(job, plan, p).raw)
      BY <1>3 DEF value
  <2>3. job.side # "sell" /\ p \in {l.product : l \in Range(job.lanes)}
      BY <1>3 DEF P
  <2>4. \E input \in Nat \ {0} : plan = None \/ IsPlanOf(plan, job, input)
      BY <1>1, <1>7, <1>8, <1>9
  <2>5. PICK input \in Nat \ {0} : plan = None \/ IsPlanOf(plan, job, input)
      BY <2>4
  <2>6. LET b == BoughtOf(job, plan, p) IN
        /\ b.exposure \in Nat /\ Exposure(LaneOf(job, p), b.raw) \in Nat
        /\ b.exposure <= Exposure(LaneOf(job, p), b.raw)
      BY <1>1, <2>3, <2>5, PreviewedIs
  <2> QED BY <2>1, <2>2, <2>6
<1>14. IsFiniteSet(P)
  <2> DEFINE h == [i \in DOMAIN job.lanes |-> job.lanes[i].product]
  <2>1. job.lanes \in Seq(Range(job.lanes))
      BY <1>1 DEF IsJob
  <2>2. DOMAIN job.lanes = 1..Len(job.lanes) /\ Len(job.lanes) \in Nat
      BY <2>1
  <2>3. IsFiniteSet(DOMAIN job.lanes)
      BY <2>2, FS_Interval
  <2>4. P = {h[i] : i \in DOMAIN job.lanes}
      BY DEF P, Range
  <2> HIDE DEF h
  <2> QED BY <2>3, <2>4, ImageIsFinite
<1>15. total \in Nat /\ SumIn(value, P) \in Nat /\ total <= SumIn(value, P)
  <2>1. \A p \in P : exposure[p] \in Nat /\ value[p] \in Nat
      BY <1>13
  <2>2. \A p \in P : exposure[p] \in Int /\ value[p] \in Int /\ exposure[p] <= value[p]
      BY <1>13
  <2>3. SumIn(exposure, P) \in Nat /\ SumIn(value, P) \in Nat
      BY <1>14, <2>1, SumOfNaturals
  <2>4. SumIn(exposure, P) <= SumIn(value, P)
      BY <1>14, <2>2, SumAtMost
  <2> QED BY <2>3, <2>4 DEF total
<1>16. DOMAIN value = P
    BY <1>3 DEF value
<1>17. Summed(value, DOMAIN value) >= job.floor
    BY <1>1, <1>3, <1>15, <1>16, SummedIs
<1>18. \A i \in DOMAIN job.sellers : job.sellers[i].cash >= job.sellers[i].least
  <2> TAKE i \in DOMAIN job.sellers
  <2>1. job.sellers[i].least <= job.sellers[i].cash
      BY <1>3 DEF SellersFit
  <2>2. job.sellers[i].least \in Nat /\ job.sellers[i].cash \in Nat
      BY <1>1 DEF IsJob
  <2> QED BY <2>1, <2>2
<1> QED BY <1>12, <1>17, <1>18 DEF ClearingAddsUp, spent, value, cashes

\* A clearing preview spends exactly the buyer's cash, on the sellers and on
\* a plan for the rest, and what it promises is worth the exposure asked for
\* (clearing.rs).
THEOREM ClearingIsSound == Spec => []ClearingAddsUp
<1>1. Spec => []FoundInv
    BY FoundAtFirst, FoundStays, PTL DEF Spec
<1> QED BY <1>1, PreviewsAddUp, PTL

-----------------------------------------------------------------------------
(* The routes of a sale.                                                   *)

HoppingUpto(g, m, worlds, input) ==
    g = [k \in 0..m |->
            IF k = 0 THEN {<<>>}
            ELSE Hop(g[k - 1], input, worlds[k], Len(worlds) - k)]
HoppingSteps(worlds, input) == CHOOSE g : HoppingUpto(g, Len(worlds), worlds, input)

\* The routes of a sale are followed world by world.  (Routes)
LEMMA HoppingRuns ==
    ASSUME NEW worlds, NEW input, Len(worlds) \in Nat
    PROVE  LET f == HoppingSteps(worlds, input) IN
           /\ Routes(worlds, input) = f[Len(worlds)] /\ f[0] = {<<>>}
           /\ \A k \in 1..Len(worlds) : f[k] = Hop(f[k - 1], input, worlds[k], Len(worlds) - k)
<1> DEFINE n == Len(worlds)
           z == {<<>>}
           f == HoppingSteps(worlds, input)
           Is(g, m) == HoppingUpto(g, m, worlds, input)
           P == {m \in 0..n : \E g : Is(g, m)}
<1>1. n \in Nat
    OBVIOUS
<1> HIDE DEF n, z
<1>2. 0 \in P
  <2> DEFINE g == [k \in 0..0 |-> z]
  <2>1. \A k \in 0..0 : k = 0
      OBVIOUS
  <2>2. g = [k \in 0..0 |-> IF k = 0 THEN z ELSE Hop(g[k - 1], input, worlds[k], Len(worlds) - k)]
      BY <2>1
  <2> HIDE DEF g
  <2>3. Is(g, 0)
      BY <2>2 DEF HoppingUpto, z
  <2> HIDE DEF Is
  <2> QED BY <1>1, <2>3
<1>3. ASSUME NEW m \in 1..n, m - 1 \in P PROVE m \in P
  <2>1. m - 1 \in Nat /\ m \in 0..n
      BY <1>1
  <2>2. PICK g : Is(g, m - 1)
      BY <1>3
  <2>3. g = [k \in 0..(m - 1) |-> IF k = 0 THEN z ELSE Hop(g[k - 1], input, worlds[k], Len(worlds) - k)]
      BY <2>2 DEF HoppingUpto, z
  <2> DEFINE h == [k \in 0..m |-> IF k = m THEN Hop(g[k - 1], input, worlds[k], Len(worlds) - k) ELSE g[k]]
  <2>4. \A k \in 0..m : h[k] = IF k = 0 THEN z ELSE Hop(h[k - 1], input, worlds[k], Len(worlds) - k)
    <3> TAKE k \in 0..m
    <3>1. CASE k = 0
      <4>1. 0 # m /\ 0 \in 0..(m - 1) /\ h[0] = g[0]
          BY <2>1
      <4>2. g[0] = z
          BY <2>3, <4>1
      <4> QED BY <3>1, <4>1, <4>2
    <3>2. CASE k # 0
      <4>1. k - 1 \in 0..m /\ k - 1 # m /\ k - 1 \in 0..(m - 1)
          BY <2>1, <3>2
      <4>2. h[k - 1] = g[k - 1]
          BY <4>1
      <4>3. h[k] = Hop(g[k - 1], input, worlds[k], Len(worlds) - k)
        <5>1. CASE k = m
            BY <5>1
        <5>2. CASE k # m
          <6>1. k \in 0..(m - 1) /\ h[k] = g[k]
              BY <2>1, <5>2
          <6> HIDE DEF h
          <6> QED BY <2>3, <3>2, <6>1
        <5> QED BY <5>1, <5>2
      <4> HIDE DEF h
      <4> QED BY <3>2, <4>2, <4>3
    <3> QED BY <3>1, <3>2
  <2>5. h = [k \in 0..m |-> h[k]]
      OBVIOUS
  <2> HIDE DEF h
  <2>6. h = [k \in 0..m |-> IF k = 0 THEN z ELSE Hop(h[k - 1], input, worlds[k], Len(worlds) - k)]
      BY <2>4, <2>5
  <2>7. Is(h, m)
      BY <2>6 DEF HoppingUpto, z
  <2> HIDE DEF Is
  <2> QED BY <2>1, <2>7
<1>4. n \in P
  <2> HIDE DEF P
  <2>1. P \in SUBSET (0..n)
      BY DEF P
  <2>2. \A k \in 0..n : k \in P
      BY <1>1, <1>2, <1>3, <2>1, EveryStep
  <2> QED BY <1>1, <2>2
<1>5. HoppingUpto(f, n, worlds, input)
  <2>1. \E g : HoppingUpto(g, n, worlds, input)
      BY <1>4
  <2> QED BY <2>1 DEF HoppingSteps, n
<1>6. Routes(worlds, input) = f[n]
    BY DEF Routes, HoppingSteps, HoppingUpto, n
<1> HIDE DEF f
<1>7. f = [k \in 0..n |-> IF k = 0 THEN z ELSE Hop(f[k - 1], input, worlds[k], Len(worlds) - k)]
    BY <1>5 DEF HoppingUpto, z
<1>8. f[0] = z /\ \A k \in 1..n : f[k] = Hop(f[k - 1], input, worlds[k], Len(worlds) - k)
  <2>1. 0 \in 0..n /\ \A k \in 1..n : k \in 0..n /\ k # 0
      BY <1>1
  <2> QED BY <1>7, <2>1
<1> QED BY <1>6, <1>8 DEF f, z, n

RoamingUpto(g, m, worlds, input) ==
    g = [k \in 0..m |->
            IF k = 0 THEN {<<>>}
            ELSE LongerAll(g[k - 1], input, worlds[k])]
RoamingSteps(worlds, input) == CHOOSE g : RoamingUpto(g, Len(worlds), worlds, input)

\* So are those that no bound is put on.  (EveryRoute)
LEMMA RoamingRuns ==
    ASSUME NEW worlds, NEW input, Len(worlds) \in Nat
    PROVE  LET f == RoamingSteps(worlds, input) IN
           /\ EveryRoute(worlds, input) = f[Len(worlds)] /\ f[0] = {<<>>}
           /\ \A k \in 1..Len(worlds) : f[k] = LongerAll(f[k - 1], input, worlds[k])
<1> DEFINE n == Len(worlds)
           z == {<<>>}
           f == RoamingSteps(worlds, input)
           Is(g, m) == RoamingUpto(g, m, worlds, input)
           P == {m \in 0..n : \E g : Is(g, m)}
<1>1. n \in Nat
    OBVIOUS
<1> HIDE DEF n, z
<1>2. 0 \in P
  <2> DEFINE g == [k \in 0..0 |-> z]
  <2>1. \A k \in 0..0 : k = 0
      OBVIOUS
  <2>2. g = [k \in 0..0 |-> IF k = 0 THEN z ELSE LongerAll(g[k - 1], input, worlds[k])]
      BY <2>1
  <2> HIDE DEF g
  <2>3. Is(g, 0)
      BY <2>2 DEF RoamingUpto, z
  <2> HIDE DEF Is
  <2> QED BY <1>1, <2>3
<1>3. ASSUME NEW m \in 1..n, m - 1 \in P PROVE m \in P
  <2>1. m - 1 \in Nat /\ m \in 0..n
      BY <1>1
  <2>2. PICK g : Is(g, m - 1)
      BY <1>3
  <2>3. g = [k \in 0..(m - 1) |-> IF k = 0 THEN z ELSE LongerAll(g[k - 1], input, worlds[k])]
      BY <2>2 DEF RoamingUpto, z
  <2> DEFINE h == [k \in 0..m |-> IF k = m THEN LongerAll(g[k - 1], input, worlds[k]) ELSE g[k]]
  <2>4. \A k \in 0..m : h[k] = IF k = 0 THEN z ELSE LongerAll(h[k - 1], input, worlds[k])
    <3> TAKE k \in 0..m
    <3>1. CASE k = 0
      <4>1. 0 # m /\ 0 \in 0..(m - 1) /\ h[0] = g[0]
          BY <2>1
      <4>2. g[0] = z
          BY <2>3, <4>1
      <4> QED BY <3>1, <4>1, <4>2
    <3>2. CASE k # 0
      <4>1. k - 1 \in 0..m /\ k - 1 # m /\ k - 1 \in 0..(m - 1)
          BY <2>1, <3>2
      <4>2. h[k - 1] = g[k - 1]
          BY <4>1
      <4>3. h[k] = LongerAll(g[k - 1], input, worlds[k])
        <5>1. CASE k = m
            BY <5>1
        <5>2. CASE k # m
          <6>1. k \in 0..(m - 1) /\ h[k] = g[k]
              BY <2>1, <5>2
          <6> HIDE DEF h
          <6> QED BY <2>3, <3>2, <6>1
        <5> QED BY <5>1, <5>2
      <4> HIDE DEF h
      <4> QED BY <3>2, <4>2, <4>3
    <3> QED BY <3>1, <3>2
  <2>5. h = [k \in 0..m |-> h[k]]
      OBVIOUS
  <2> HIDE DEF h
  <2>6. h = [k \in 0..m |-> IF k = 0 THEN z ELSE LongerAll(h[k - 1], input, worlds[k])]
      BY <2>4, <2>5
  <2>7. Is(h, m)
      BY <2>6 DEF RoamingUpto, z
  <2> HIDE DEF Is
  <2> QED BY <2>1, <2>7
<1>4. n \in P
  <2> HIDE DEF P
  <2>1. P \in SUBSET (0..n)
      BY DEF P
  <2>2. \A k \in 0..n : k \in P
      BY <1>1, <1>2, <1>3, <2>1, EveryStep
  <2> QED BY <1>1, <2>2
<1>5. RoamingUpto(f, n, worlds, input)
  <2>1. \E g : RoamingUpto(g, n, worlds, input)
      BY <1>4
  <2> QED BY <2>1 DEF RoamingSteps, n
<1>6. EveryRoute(worlds, input) = f[n]
    BY DEF EveryRoute, RoamingSteps, RoamingUpto, n
<1> HIDE DEF f
<1>7. f = [k \in 0..n |-> IF k = 0 THEN z ELSE LongerAll(f[k - 1], input, worlds[k])]
    BY <1>5 DEF RoamingUpto, z
<1>8. f[0] = z /\ \A k \in 1..n : f[k] = LongerAll(f[k - 1], input, worlds[k])
  <2>1. 0 \in 0..n /\ \A k \in 1..n : k \in 0..n /\ k # 0
      BY <1>1
  <2> QED BY <1>7, <2>1
<1> QED BY <1>6, <1>8 DEF f, z, n

\* The worlds a sale goes through; no pool is in two of them.
AreWorlds(ws) ==
    /\ Len(ws) \in Nat \ {0} /\ DOMAIN ws = 1..Len(ws)
    /\ \A k \in DOMAIN ws : IsWorld(ws[k])
    /\ \A k, l \in DOMAIN ws : \A i \in DOMAIN ws[k], m \in DOMAIN ws[l] :
         ws[k][i].name = ws[l][m].name => k = l

\* A lane backwards is such worlds.  (Reversed)
LEMMA ReversedAre ==
    ASSUME NEW lane, IsLane(lane)
    PROVE  AreWorlds(Reversed(lane))
<1> DEFINE ws == lane.worlds
           n == Len(ws)
           rs == Reversed(lane)
<1>1. ws \in Seq(Range(ws)) /\ ws # <<>> /\ \A k \in DOMAIN ws : IsWorld(ws[k])
    BY DEF IsLane
<1>2. \A k, l \in DOMAIN ws : \A p \in Range(ws[k]), q \in Range(ws[l]) : p.name = q.name => k = l
    BY DEF IsLane
<1>3. rs = [i \in 1..n |-> ws[(n - i) + 1]]
    BY DEF Reversed, Reverse
<1> HIDE DEF ws, rs
<1>4. n \in Nat \ {0} /\ DOMAIN ws = 1..n
    BY <1>1
<1> HIDE DEF n
<1>5. DOMAIN rs = 1..n /\ Len(rs) = n
    BY <1>3, <1>4
<1>6. \A i \in 1..n : (n - i) + 1 \in DOMAIN ws /\ rs[i] = ws[(n - i) + 1]
    BY <1>3, <1>4
<1>7. \A i \in 1..n : IsWorld(rs[i])
    BY <1>1, <1>6
<1>8. ASSUME NEW k \in 1..n, NEW l \in 1..n, NEW i \in DOMAIN rs[k], NEW m \in DOMAIN rs[l],
             rs[k][i].name = rs[l][m].name
      PROVE  k = l
  <2>1. rs[k][i] \in Range(ws[(n - k) + 1]) /\ rs[l][m] \in Range(ws[(n - l) + 1])
      BY <1>6 DEF Range
  <2>2. (n - k) + 1 = (n - l) + 1
      BY <1>2, <1>6, <1>8, <2>1
  <2> QED BY <1>4, <2>2
<1> QED BY <1>4, <1>5, <1>7, <1>8 DEF AreWorlds, rs

\* One hop of a sale: all that comes in goes into pools of the world.
IsHop(h, world) ==
    /\ h.input \in Nat \ {0} /\ h.output \in Nat \ {0}
    /\ DOMAIN h.legs \in SUBSET DOMAIN world /\ IsFiniteSet(DOMAIN h.legs)
    /\ Cardinality(DOMAIN h.legs) \in 1..MaxLegs
    /\ \A k \in DOMAIN h.legs : h.legs[k].pool = world[k]
    /\ Into(h.legs) = h.input
\* A route through the first k worlds.
IsRoute(r, ws, k) ==
    /\ k \in Nat /\ Len(r) = k /\ r = [i \in 1..k |-> r[i]]
    /\ \A i \in 1..k : IsHop(r[i], ws[i])
Counts(r) == [k \in DOMAIN r |-> Cardinality(DOMAIN r[k].legs)]

\* A route is longer by the legs of a proposal.
LongerBy(q, r, o) ==
    /\ Cardinality(DOMAIN o.legs) \in Nat \ {0}
    /\ LegCount(q) = LegCount(r) + Cardinality(DOMAIN o.legs)

\* One more at the end.
LEMMA AppendIs ==
    ASSUME NEW k \in Nat, NEW r, r = [i \in 1..k |-> r[i]], NEW h
    PROVE  /\ Len(Append(r, h)) = k + 1 /\ DOMAIN Append(r, h) = 1..(k + 1)
           /\ Append(r, h) = [i \in 1..(k + 1) |-> Append(r, h)[i]]
           /\ \A i \in 1..k : Append(r, h)[i] = r[i]
           /\ Append(r, h)[k + 1] = h
<1> DEFINE S == {r[i] : i \in 1..k} \cup {h}
<1>1. r \in [1..k -> S] /\ h \in S
    OBVIOUS
<1> HIDE DEF S
<1>2. r \in Seq(S) /\ Len(r) = k
    BY <1>1
<1> QED BY <1>1, <1>2

\* A proposal for what is held makes a route longer.
LEMMA RouteGrows ==
    ASSUME NEW ws, AreWorlds(ws), NEW input \in Nat \ {0}, NEW k \in Nat, k + 1 \in DOMAIN ws,
           NEW r, IsRoute(r, ws, k)
    PROVE  /\ Held(r, input) \in Nat \ {0} /\ LegCount(r) \in Nat
           /\ IsFiniteSet(Options(ws[k + 1], Held(r, input)))
           /\ \A o \in Options(ws[k + 1], Held(r, input)) :
                LET q == Append(r, [input |-> Held(r, input), output |-> o.output, legs |-> o.legs]) IN
                IsRoute(q, ws, k + 1) /\ LongerBy(q, r, o)
<1> DEFINE held == Held(r, input)
<1>1. /\ Len(r) = k /\ r = [i \in 1..k |-> r[i]] /\ DOMAIN r = 1..k
      /\ \A i \in 1..k : IsHop(r[i], ws[i])
    BY DEF IsRoute
<1>2. held \in Nat \ {0}
  <2>1. CASE r = <<>>
      BY <2>1 DEF Held
  <2>2. CASE r # <<>>
    <3>1. k # 0
      <4> SUFFICES ASSUME k = 0 PROVE FALSE
          OBVIOUS
      <4>1. 1..k = {}
          OBVIOUS
      <4>2. r = <<>>
          BY <1>1, <4>1
      <4> QED BY <2>2, <4>2
    <3>2. k \in 1..k
        BY <3>1
    <3>3. IsHop(r[k], ws[k])
        BY <1>1, <3>2
    <3>4. Held(r, input) = r[k].output
        BY <1>1, <2>2 DEF Held, Last
    <3> QED BY <3>3, <3>4 DEF IsHop
  <2> QED BY <2>1, <2>2
<1>3. IsWorld(ws[k + 1])
    BY DEF AreWorlds
<1> HIDE DEF held
<1>4. IsFiniteSet(Options(ws[k + 1], held)) /\ \A o \in Options(ws[k + 1], held) : IsOption(o, ws[k + 1], held)
    BY <1>2, <1>3, OptionsAre
<1>5. IsFiniteSet(1..k) /\ IsFiniteSet(1..(k + 1))
    BY FS_Interval
<1>6. \A i \in 1..k : Counts(r)[i] \in Nat
  <2> TAKE i \in 1..k
  <2>1. IsHop(r[i], ws[i]) /\ i \in DOMAIN r
      BY <1>1
  <2>2. Cardinality(DOMAIN r[i].legs) \in Nat
      BY <2>1 DEF IsHop
  <2> QED BY <2>1, <2>2 DEF Counts
<1>7. LegCount(r) = SumIn(Counts(r), 1..k)
    BY <1>1, SummedIs DEF LegCount, Counts
<1>8. LegCount(r) \in Nat
    BY <1>5, <1>6, <1>7, SumOfNaturals
<1>9. ASSUME NEW o \in Options(ws[k + 1], held)
      PROVE  LET q == Append(r, [input |-> held, output |-> o.output, legs |-> o.legs]) IN
             IsRoute(q, ws, k + 1) /\ LongerBy(q, r, o)
  <2> DEFINE h == [input |-> held, output |-> o.output, legs |-> o.legs]
             q == Append(r, h)
             c == Cardinality(DOMAIN o.legs)
  <2>1. IsOption(o, ws[k + 1], held)
      BY <1>4
  <2>2. /\ o.output \in Nat \ {0} /\ DOMAIN o.legs \in SUBSET DOMAIN ws[k + 1] /\ IsFiniteSet(DOMAIN o.legs)
        /\ c \in 1..MaxLegs
        /\ \A i \in DOMAIN o.legs : o.legs[i].pool = ws[k + 1][i]
        /\ SumIn(Fed(o), DOMAIN o.legs) = held
      BY <2>1 DEF IsOption
  <2>3. Into(o.legs) = held
      BY <2>2, SummedIs DEF Into, Fed
  <2>4. h.input = held /\ h.output = o.output /\ h.legs = o.legs
      OBVIOUS
  <2> HIDE DEF h
  <2>5. IsHop(h, ws[k + 1])
      BY <1>2, <2>2, <2>3, <2>4 DEF IsHop
  <2>6. /\ Len(q) = k + 1 /\ DOMAIN q = 1..(k + 1) /\ q = [i \in 1..(k + 1) |-> q[i]]
        /\ \A i \in 1..k : q[i] = r[i]
        /\ q[k + 1] = h
      BY <1>1, AppendIs
  <2> HIDE DEF q
  <2>7. \A i \in 1..(k + 1) : IsHop(q[i], ws[i])
    <3> TAKE i \in 1..(k + 1)
    <3>1. CASE i = k + 1
        BY <2>5, <2>6, <3>1
    <3>2. CASE i # k + 1
      <4>1. i \in 1..k
          BY <3>2
      <4> QED BY <1>1, <2>6, <4>1
    <3> QED BY <3>1, <3>2
  <2>8. IsRoute(q, ws, k + 1)
      BY <2>6, <2>7 DEF IsRoute
  <2>9. c \in Nat \ {0}
      BY <2>2, RouteAssumption
  <2> HIDE DEF c
  <2>10. Counts(q)[k + 1] = c /\ \A i \in 1..k : Counts(q)[i] = Counts(r)[i]
    <3>1. k + 1 \in 1..(k + 1) /\ \A i \in 1..k : i \in 1..(k + 1)
        OBVIOUS
    <3> QED BY <1>1, <2>4, <2>6, <3>1 DEF Counts, c
  <2>11. LegCount(q) = LegCount(r) + c
    <3>1. \A i \in 1..(k + 1) : Counts(q)[i] \in Int
      <4> TAKE i \in 1..(k + 1)
      <4>1. i = k + 1 \/ i \in 1..k
          OBVIOUS
      <4> QED BY <1>6, <2>9, <2>10, <4>1
    <3>2. k + 1 \in 1..(k + 1) /\ (1..(k + 1)) \ {k + 1} = 1..k
        OBVIOUS
    <3>3. SumIn(Counts(q), 1..(k + 1)) = Counts(q)[k + 1] + SumIn(Counts(q), (1..(k + 1)) \ {k + 1})
        BY <1>5, <3>1, <3>2, SumOfRest
    <3>4. SumIn(Counts(q), 1..k) = SumIn(Counts(r), 1..k)
        BY <1>5, <2>10, SumOfSame
    <3>5. LegCount(q) = SumIn(Counts(q), 1..(k + 1))
        BY <2>6, SummedIs DEF LegCount, Counts
    <3>6. SumIn(Counts(q), (1..(k + 1)) \ {k + 1}) = SumIn(Counts(r), 1..k)
        BY <3>2, <3>4
    <3>7. LegCount(q) = c + LegCount(r)
        BY <1>7, <2>10, <3>3, <3>5, <3>6
    <3> QED BY <1>8, <2>9, <3>7
  <2> QED BY <2>8, <2>9, <2>11 DEF q, h, c, LongerBy
<1> QED BY <1>2, <1>4, <1>8, <1>9 DEF held

\* There are finitely many routes through the first worlds, bounded or not.
LEMMA RoamingIs ==
    ASSUME NEW ws, AreWorlds(ws), NEW input \in Nat \ {0}
    PROVE  \A k \in 0..Len(ws) :
             /\ IsFiniteSet(RoamingSteps(ws, input)[k])
             /\ \A r \in RoamingSteps(ws, input)[k] : IsRoute(r, ws, k)
<1> DEFINE f == RoamingSteps(ws, input)
           n == Len(ws)
           P == {k \in 0..n : IsFiniteSet(f[k]) /\ \A r \in f[k] : IsRoute(r, ws, k)}
<1>1. n \in Nat /\ DOMAIN ws = 1..n
    BY DEF AreWorlds
<1>2. f[0] = {<<>>} /\ \A k \in 1..n : f[k] = LongerAll(f[k - 1], input, ws[k])
    BY <1>1, RoamingRuns
<1> HIDE DEF f, n
<1>3. 0 \in P
  <2>1. {<<>>} = {} \cup {<<>>}
      OBVIOUS
  <2>2. IsFiniteSet(f[0])
      BY <1>2, <2>1, FS_EmptySet, FS_AddElement, SMTT(20)
  <2>3. <<>> = [i \in 1..0 |-> <<>>[i]] /\ Len(<<>>) = 0 /\ \A i \in 1..0 : FALSE
      OBVIOUS
  <2>4. IsRoute(<<>>, ws, 0)
      BY <2>3 DEF IsRoute
  <2>5. \A r \in f[0] : IsRoute(r, ws, 0)
      BY <1>2, <2>4
  <2>6. 0 \in 0..n
      BY <1>1
  <2> QED BY <2>2, <2>5, <2>6
<1>4. ASSUME NEW k \in 1..n, k - 1 \in P PROVE k \in P
  <2> DEFINE j == k - 1
             front == f[j]
             w == ws[k]
  <2>1. j \in Nat /\ j + 1 = k /\ k \in DOMAIN ws /\ k \in 0..n
      BY <1>1
  <2>2. IsFiniteSet(front) /\ \A r \in front : IsRoute(r, ws, j)
      BY <1>4
  <2>3. f[k] = LongerAll(front, input, w)
      BY <1>2
  <2> HIDE DEF j, front, w
  <2>4. ASSUME NEW r \in front
        PROVE  IsFiniteSet(Longer(r, input, w)) /\ \A q \in Longer(r, input, w) : IsRoute(q, ws, k)
    <3> DEFINE held == Held(r, input)
               D == Options(w, held)
               h == [o \in D |-> Append(r, [input |-> held, output |-> o.output, legs |-> o.legs])]
    <3>1. IsFiniteSet(D) /\ \A o \in D : IsRoute(h[o], ws, k)
        BY <2>1, <2>2, <2>4, RouteGrows DEF w
    <3>2. Longer(r, input, w) = {h[o] : o \in D}
        BY DEF Longer
    <3> HIDE DEF h, D
    <3>3. IsFiniteSet({h[o] : o \in D})
        BY <3>1, ImageIsFinite
    <3> QED BY <3>1, <3>2, <3>3
  <2> DEFINE h == [r \in front |-> Longer(r, input, w)]
             all == {h[r] : r \in front}
  <2>5. f[k] = UNION all
      BY <2>3 DEF LongerAll
  <2>6. \A T \in all : IsFiniteSet(T) /\ \A q \in T : IsRoute(q, ws, k)
      BY <2>4
  <2> HIDE DEF h
  <2>7. IsFiniteSet(all)
      BY <2>2, ImageIsFinite
  <2> HIDE DEF all
  <2>8. IsFiniteSet(UNION all)
      BY <2>6, <2>7, FS_UNION
  <2> QED BY <2>1, <2>5, <2>6, <2>8
<1>5. P \in SUBSET (0..n)
    OBVIOUS
<1> HIDE DEF P
<1>6. \A k \in 0..n : k \in P
    BY <1>1, <1>3, <1>4, <1>5, EveryStep
<1> QED BY <1>6 DEF P, f, n

\* A route that is bounded at every hop is one that is bounded at the end,
\* because every world that is still to come takes at least one leg.
LEMMA RoutesAreAll ==
    ASSUME NEW ws, AreWorlds(ws), NEW input \in Nat \ {0}
    PROVE  Routes(ws, input) = AllRoutes(ws, input)
<1> DEFINE f == RoamingSteps(ws, input)
           g == HoppingSteps(ws, input)
           n == Len(ws)
           Fits(r, k) == LegCount(r) + (n - k) <= MaxLegs
           P == {k \in 0..n : /\ g[k] \subseteq f[k]
                              /\ \A r \in f[k] : Fits(r, k) => r \in g[k]
                              /\ k # 0 => \A r \in g[k] : Fits(r, k)}
<1>1. n \in Nat \ {0} /\ DOMAIN ws = 1..n /\ MaxLegs \in Nat
    BY RouteAssumption DEF AreWorlds
<1>2. /\ EveryRoute(ws, input) = f[n] /\ f[0] = {<<>>}
      /\ \A k \in 1..n : f[k] = LongerAll(f[k - 1], input, ws[k])
    BY <1>1, RoamingRuns
<1>3. /\ Routes(ws, input) = g[n] /\ g[0] = {<<>>}
      /\ \A k \in 1..n : g[k] = Hop(g[k - 1], input, ws[k], n - k)
    BY <1>1, HoppingRuns
<1>4. \A k \in 0..n : \A r \in f[k] : IsRoute(r, ws, k)
    BY RoamingIs
<1> HIDE DEF f, g, n
<1>5. 0 \in P
    BY <1>1, <1>2, <1>3
<1>6. ASSUME NEW k \in 1..n, k - 1 \in P PROVE k \in P
  <2> DEFINE j == k - 1
  <2>1. j \in Nat /\ j + 1 = k /\ k \in DOMAIN ws /\ k \in 0..n /\ j \in 0..n /\ n - k \in Nat
        /\ n - j = (n - k) + 1
      BY <1>1
  <2>2. /\ g[j] \subseteq f[j] /\ \A r \in f[j] : Fits(r, j) => r \in g[j]
      BY <1>6
  <2>3. f[k] = LongerAll(f[j], input, ws[k]) /\ g[k] = Hop(g[j], input, ws[k], n - k)
      BY <1>2, <1>3
  <2> HIDE DEF j
  <2> DEFINE One(r, o) == Append(r, [input |-> Held(r, input), output |-> o.output, legs |-> o.legs])
             Some(r) == Options(ws[k], Held(r, input))
             Uses(o) == Cardinality(DOMAIN o.legs)
  <2>4. \A q : q \in f[k] <=> \E r \in f[j] : \E o \in Some(r) : q = One(r, o)
    <3>1. \A q : q \in f[k] <=> \E r \in f[j] : q \in Longer(r, input, ws[k])
        BY <2>3 DEF LongerAll
    <3>2. \A r, q : q \in Longer(r, input, ws[k]) <=> \E o \in Some(r) : q = One(r, o)
        BY DEF Longer
    <3> HIDE DEF One, Some
    <3> QED BY <3>1, <3>2
  <2>5. \A q : q \in g[k] <=> \E r \in g[j] : \E o \in Some(r) :
                                LegCount(r) + Uses(o) + (n - k) <= MaxLegs /\ q = One(r, o)
      BY <2>3 DEF Hop, Extended
  <2>6. ASSUME NEW r \in f[j], NEW o \in Some(r)
        PROVE  LegCount(r) \in Nat /\ Uses(o) \in Nat \ {0} /\ LegCount(One(r, o)) = LegCount(r) + Uses(o)
    <3>1. IsRoute(r, ws, j) /\ j + 1 \in DOMAIN ws /\ k = j + 1
        BY <1>4, <2>1
    <3>2. LegCount(r) \in Nat
        BY <2>1, <3>1, RouteGrows
    <3> DEFINE held == Held(r, input)
               D == Options(ws[k], held)
               h == [p \in D |-> Append(r, [input |-> held, output |-> p.output, legs |-> p.legs])]
    <3>3. \A p \in D : LongerBy(h[p], r, p)
        BY <2>1, <3>1, RouteGrows
    <3>4. o \in D /\ h[o] = One(r, o)
        BY <3>1
    <3> HIDE DEF h, D
    <3>5. Cardinality(DOMAIN o.legs) \in Nat \ {0} /\ LegCount(h[o]) = LegCount(r) + Cardinality(DOMAIN o.legs)
        BY <3>3, <3>4 DEF LongerBy
    <3>6. LegCount(One(r, o)) = LegCount(r) + Cardinality(DOMAIN o.legs)
        BY <3>4, <3>5
    <3> QED BY <3>2, <3>5, <3>6
  <2> HIDE DEF One, Some, Uses
  <2>7. g[k] \subseteq f[k]
      BY <2>2, <2>4, <2>5
  <2>8. ASSUME NEW q \in f[k], Fits(q, k) PROVE q \in g[k]
    <3>1. PICK r \in f[j] : \E o \in Some(r) : q = One(r, o)
        BY <2>4
    <3>2. PICK o \in Some(r) : q = One(r, o)
        BY <3>1
    <3>3. LegCount(r) \in Nat /\ Uses(o) \in Nat \ {0} /\ LegCount(q) = LegCount(r) + Uses(o)
        BY <2>6, <3>2
    <3>4. LegCount(r) + Uses(o) + (n - k) <= MaxLegs
        BY <2>1, <2>8, <3>3
    <3>5. Fits(r, j)
        BY <1>1, <2>1, <3>3, <3>4
    <3> HIDE DEF Fits
    <3> QED BY <2>2, <2>5, <3>2, <3>4, <3>5
  <2>9. ASSUME NEW q \in g[k] PROVE Fits(q, k)
    <3>1. PICK r \in g[j] : \E o \in Some(r) : LegCount(r) + Uses(o) + (n - k) <= MaxLegs /\ q = One(r, o)
        BY <2>5
    <3>2. PICK o \in Some(r) : LegCount(r) + Uses(o) + (n - k) <= MaxLegs /\ q = One(r, o)
        BY <3>1
    <3>3. LegCount(q) = LegCount(r) + Uses(o)
        BY <2>2, <2>6, <3>2
    <3> QED BY <3>2, <3>3
  <2> HIDE DEF Fits
  <2> QED BY <2>1, <2>7, <2>8, <2>9
<1>7. P \in SUBSET (0..n)
    OBVIOUS
<1>8. n \in P
  <2> HIDE DEF P
  <2>1. n \in Nat /\ n \in 0..n
      BY <1>1
  <2>2. \A k \in 0..n : k \in P
      BY <1>5, <1>6, <1>7, <2>1, EveryStep
  <2> QED BY <2>1, <2>2
<1>9. \A r \in f[n] : LegCount(r) \in Nat /\ (Fits(r, n) <=> LegCount(r) <= MaxLegs)
  <2> TAKE r \in f[n]
  <2>1. n \in 0..n /\ n - n = 0
      BY <1>1
  <2>2. IsRoute(r, ws, n)
      BY <1>4, <2>1
  <2>3. LegCount(r) \in Nat
    <3>1. IsFiniteSet(1..n)
        BY <1>1, FS_Interval
    <3>2. \A i \in 1..n : Counts(r)[i] \in Nat
      <4> TAKE i \in 1..n
      <4>1. IsHop(r[i], ws[i]) /\ i \in DOMAIN r
          BY <2>2 DEF IsRoute
      <4>2. Cardinality(DOMAIN r[i].legs) \in Nat
          BY <4>1 DEF IsHop
      <4> QED BY <4>1, <4>2 DEF Counts
    <3>3. DOMAIN r = 1..n
        BY <2>2 DEF IsRoute
    <3>4. LegCount(r) = SumIn(Counts(r), 1..n)
        BY <3>3, SummedIs DEF LegCount, Counts
    <3> QED BY <3>1, <3>2, <3>4, SumOfNaturals
  <2> QED BY <2>1, <2>3
<1> HIDE DEF Fits
<1>10. g[n] = {r \in f[n] : LegCount(r) <= MaxLegs}
    BY <1>1, <1>8, <1>9
<1> QED BY <1>2, <1>3, <1>10 DEF AllRoutes

-----------------------------------------------------------------------------
(* The best sale.                                                          *)

\* A hop has as many pools as legs.
LEMMA PoolsOfHop ==
    ASSUME NEW world, IsWorld(world), NEW h, IsHop(h, world)
    PROVE  /\ IsFiniteSet(PoolsOf(h.legs)) /\ Cardinality(PoolsOf(h.legs)) = Cardinality(DOMAIN h.legs)
           /\ \A x \in PoolsOf(h.legs) : \E i \in DOMAIN world : x = world[i].name
<1> DEFINE D == DOMAIN h.legs
           T == PoolsOf(h.legs)
           g == [k \in D |-> h.legs[k].pool.name]
<1>1. IsFiniteSet(D) /\ \A k \in D : k \in DOMAIN world /\ h.legs[k].pool = world[k]
    BY DEF IsHop
<1>2. \A i, k \in DOMAIN world : world[i].name = world[k].name => i = k
    BY DEF IsWorld
<1>3. T = {g[k] : k \in D}
    BY DEF PoolsOf
<1>4. \A k \in D : g[k] = world[k].name
    BY <1>1
<1>5. DOMAIN g = D /\ g = [k \in D |-> g[k]]
    OBVIOUS
<1> HIDE DEF g, T, D
<1>6. g \in [D -> T] /\ \A t \in T : \E k \in D : g[k] = t
    BY <1>3, <1>5
<1>7. g \in Surjection(D, T)
    BY <1>6 DEF Surjection
<1>8. g \in Injection(D, T)
  <2>1. \A a, b \in D : g[a] = g[b] => a = b
      BY <1>1, <1>2, <1>4
  <2> QED BY <1>5, <1>6, <2>1 DEF Injection, IsInjective
<1>9. IsFiniteSet(T) /\ Cardinality(T) = Cardinality(D)
    BY <1>1, <1>7, <1>8, FS_Surjection
<1>10. \A x \in T : \E i \in DOMAIN world : x = world[i].name
    BY <1>1, <1>4, <1>6
<1> QED BY <1>9, <1>10 DEF D, T

\* No pool is in a route twice.
LEMMA PoolsOfRoute ==
    ASSUME NEW ws, AreWorlds(ws), NEW k \in 0..Len(ws), NEW r, IsRoute(r, ws, k)
    PROVE  Cardinality(RoutePools(r)) = LegCount(r) /\ LegCount(r) \in Nat
<1> DEFINE H == [i \in 1..k |-> PoolsOf(r[i].legs)]
           c == Counts(r)
           U(m) == UNION {H[i] : i \in 1..m}
           P == {m \in 0..k : IsFiniteSet(U(m)) /\ Cardinality(U(m)) = SumIn(c, 1..m)}
<1>1. k \in Nat /\ DOMAIN r = 1..k /\ \A i \in 1..k : IsHop(r[i], ws[i]) /\ i \in DOMAIN ws
    BY DEF IsRoute, AreWorlds
<1>2. \A i \in 1..k : H[i] = PoolsOf(r[i].legs) /\ c[i] = Cardinality(DOMAIN r[i].legs)
    BY <1>1 DEF Counts
<1>3. RoutePools(r) = U(k)
    BY <1>1 DEF RoutePools
<1> HIDE DEF H, c
<1>4. \A i \in 1..k : /\ IsFiniteSet(H[i]) /\ Cardinality(H[i]) = c[i] /\ c[i] \in Nat
                      /\ \A x \in H[i] : \E n \in DOMAIN ws[i] : x = ws[i][n].name
  <2> TAKE i \in 1..k
  <2>1. IsWorld(ws[i]) /\ IsHop(r[i], ws[i])
      BY <1>1 DEF AreWorlds
  <2>2. /\ IsFiniteSet(PoolsOf(r[i].legs)) /\ Cardinality(PoolsOf(r[i].legs)) = Cardinality(DOMAIN r[i].legs)
        /\ \A x \in PoolsOf(r[i].legs) : \E n \in DOMAIN ws[i] : x = ws[i][n].name
      BY <2>1, PoolsOfHop
  <2>3. Cardinality(DOMAIN r[i].legs) \in Nat
      BY <2>1 DEF IsHop
  <2> QED BY <1>2, <2>2, <2>3
<1>5. \A i, l \in 1..k : \A x : x \in H[i] /\ x \in H[l] => i = l
    BY <1>1, <1>4 DEF AreWorlds
<1>6. \A m \in 0..k : IsFiniteSet(1..m)
    BY FS_Interval
<1>7. 0 \in P
  <2>1. U(0) = {} /\ 1..0 = {} /\ 0 \in 0..k
      BY <1>1
  <2>2. IsFiniteSet({}) /\ Cardinality({}) = 0 /\ SumIn(c, {}) = 0
      BY FS_EmptySet, SumUnfolds
  <2> QED BY <2>1, <2>2
<1>8. ASSUME NEW m \in 1..k, m - 1 \in P PROVE m \in P
  <2> DEFINE j == m - 1
  <2>1. IsFiniteSet(U(j)) /\ Cardinality(U(j)) = SumIn(c, 1..j)
      BY <1>8
  <2>2. m \in 0..k /\ m \in 1..m /\ (1..m) \ {m} = 1..j /\ \A i \in 1..j : i \in 1..k /\ i # m
      BY <1>1
  <2>3. U(m) = U(j) \cup H[m]
    <3>1. 1..m = (1..j) \cup {m}
        BY <2>2
    <3> QED BY <3>1
  <2>4. U(j) \cap H[m] = {}
      BY <1>5, <2>2
  <2> HIDE DEF U
  <2>5. IsFiniteSet(H[m]) /\ Cardinality(H[m]) = c[m] /\ c[m] \in Nat
      BY <1>4
  <2>6. IsFiniteSet(U(j) \cup H[m]) /\ Cardinality(U(j) \cup H[m]) =
                Cardinality(U(j)) + Cardinality(H[m]) - Cardinality(U(j) \cap H[m])
      BY <2>1, <2>5, FS_Union
  <2>7. Cardinality(U(j) \cap H[m]) = 0
      BY <2>4, FS_EmptySet
  <2>8. Cardinality(U(j)) \in Nat
      BY <2>1, FS_CardinalityType
  <2>9. SumIn(c, 1..m) = c[m] + SumIn(c, 1..j)
    <3>1. \A i \in 1..m : c[i] \in Int
      <4> TAKE i \in 1..m
      <4>1. i \in 1..k
          BY <1>1
      <4> QED BY <1>4, <4>1
    <3>2. IsFiniteSet(1..m)
        BY <1>6, <2>2
    <3>3. SumIn(c, 1..m) = c[m] + SumIn(c, (1..m) \ {m})
        BY <2>2, <3>1, <3>2, SumOfRest
    <3> QED BY <2>2, <3>3
  <2> HIDE DEF j
  <2>10. Cardinality(U(m)) = SumIn(c, 1..m)
      BY <2>1, <2>3, <2>5, <2>6, <2>7, <2>8, <2>9
  <2> QED BY <2>2, <2>3, <2>6, <2>10
<1>9. P \in SUBSET (0..k)
    OBVIOUS
<1>10. k \in P
  <2> HIDE DEF P
  <2>1. k \in 0..k
      BY <1>1
  <2>2. \A m \in 0..k : m \in P
      BY <1>1, <1>7, <1>8, <1>9, EveryStep
  <2> QED BY <2>1, <2>2
<1>11. LegCount(r) = SumIn(c, 1..k)
    BY <1>1, SummedIs DEF LegCount, Counts, c
<1>12. SumIn(c, 1..k) \in Nat
  <2>1. k \in 0..k
      BY <1>1
  <2> QED BY <1>4, <1>6, <2>1, SumOfNaturals
<1> QED BY <1>3, <1>10, <1>11, <1>12

\* What is chosen for a sale is the best of all routes.  (sell_route)
LEMMA SellRouteIs ==
    ASSUME NEW ws, AreWorlds(ws), NEW input \in Nat \ {0}, None \notin AllRoutes(ws, input)
    PROVE  BestOf(AllRoutes(ws, input), SellRoute(ws, input))
<1> DEFINE all == AllRoutes(ws, input)
           n == Len(ws)
           Ahead(r, q) == \/ Last(q).output < Last(r).output
                          \/ Last(q).output = Last(r).output /\ LegCount(r) <= LegCount(q)
           R == {p \in all \X all : Ahead(p[1], p[2])}
           route == SellRoute(ws, input)
<1>1. route = BestRoute(all)
    BY RoutesAreAll DEF SellRoute
<1>2. n \in Nat \ {0} /\ n \in 0..n
    BY DEF AreWorlds
<1>3. EveryRoute(ws, input) = RoamingSteps(ws, input)[n] /\ all \in SUBSET EveryRoute(ws, input)
    BY <1>2, RoamingRuns DEF AllRoutes
<1>4. IsFiniteSet(EveryRoute(ws, input)) /\ \A r \in EveryRoute(ws, input) : IsRoute(r, ws, n)
    BY <1>2, <1>3, RoamingIs
<1>5. IsFiniteSet(all)
  <2> HIDE DEF all
  <2> QED BY <1>3, <1>4, FS_Subset
<1> HIDE DEF n
<1>6. \A r \in all : /\ IsRoute(r, ws, n) /\ Cardinality(RoutePools(r)) = LegCount(r) /\ LegCount(r) \in Nat
                     /\ Last(r).output \in Nat /\ \A k \in DOMAIN r : Into(r[k].legs) = r[k].input
  <2> TAKE r \in all
  <2>1. IsRoute(r, ws, n)
      BY <1>3, <1>4
  <2>2. Cardinality(RoutePools(r)) = LegCount(r) /\ LegCount(r) \in Nat
      BY <1>2, <2>1, PoolsOfRoute DEF n
  <2>3. Len(r) = n /\ DOMAIN r = 1..n /\ \A k \in 1..n : IsHop(r[k], ws[k])
      BY <2>1 DEF IsRoute
  <2>4. n \in 1..n
      BY <1>2
  <2>5. Last(r).output \in Nat
      BY <2>3, <2>4 DEF Last, IsHop
  <2>6. \A k \in DOMAIN r : Into(r[k].legs) = r[k].input
      BY <2>3 DEF IsHop
  <2> QED BY <2>1, <2>2, <2>5, <2>6
<1> HIDE DEF all
<1>7. CASE all = {}
  <2>1. route = None
      BY <1>1, <1>7 DEF BestRoute
  <2> HIDE DEF route
  <2> QED BY <1>7, <2>1 DEF BestOf, route, all
<1>8. CASE all # {}
  <2>1. ~\E r \in all : Cardinality(RoutePools(r)) # LegCount(r)
      BY <1>6
  <2>2. route = CHOOSE r \in all : \A q \in all : Ahead(r, q)
      BY <1>1, <1>8, <2>1 DEF BestRoute
  <2> HIDE DEF route
  <2>3. \A p, q \in all : <<p, q>> \in R <=> Ahead(p, q)
      OBVIOUS
  <2>4. \A p, q \in all : Ahead(p, q) \/ Ahead(q, p)
      BY <1>6
  <2>5. \A p, q, r \in all : Ahead(p, q) /\ Ahead(q, r) => Ahead(p, r)
      BY <1>6
  <2>6. \E p \in all : \A q \in all : Ahead(p, q)
    <3> HIDE DEF R, Ahead
    <3>1. \A p, q \in all : <<p, q>> \in R \/ <<q, p>> \in R
        BY <2>3, <2>4
    <3>2. \A p, q, r \in all : <<p, q>> \in R /\ <<q, r>> \in R => <<p, r>> \in R
        BY <2>3, <2>5
    <3>3. \E p \in all : \A q \in all : <<p, q>> \in R
        BY <1>5, <1>8, <3>1, <3>2, FirstOfAll
    <3> QED BY <2>3, <3>3
  <2>7. route \in all /\ \A q \in all : Ahead(route, q)
    <3> HIDE DEF Ahead
    <3> QED BY <2>2, <2>6
  <2>8. \A q \in all : Last(q).output <= Last(route).output
      BY <1>6, <2>7
  <2>9. route # None
      BY <2>7 DEF all
  <2> HIDE DEF Ahead
  <2>10. BestOf(all, route)
      BY <1>6, <2>7, <2>8, <2>9 DEF BestOf
  <2> QED BY <2>10 DEF all, route
<1> QED BY <1>7, <1>8

\* A sale that was planned is the best there is.
LEMMA SalesAre == FoundInv => SaleIsComplete
<1> SUFFICES ASSUME FoundInv, job.side = "sell", stage # "ask" PROVE SaleIsComplete
    BY DEF SaleIsComplete
<1> DEFINE ws == Reversed(job.lanes[1])
<1>1. IsJob(job) /\ job \in Jobs /\ job.input \in Nat \ {0}
    BY JobsAssumption DEF FoundInv, IsJob
<1>2. found = SellRoute(ws, job.input)
    BY DEF FoundInv
<1>3. AreWorlds(ws)
  <2>1. job.lanes \in Seq(Range(job.lanes)) /\ job.lanes # <<>> /\ \A l \in DOMAIN job.lanes : IsLane(job.lanes[l])
      BY <1>1 DEF IsJob
  <2>2. 1 \in DOMAIN job.lanes
      BY <2>1
  <2> QED BY <2>1, <2>2, ReversedAre
<1>4. None \notin AllRoutes(ws, job.input)
    BY <1>1, NoneAssumption
<1> HIDE DEF ws
<1>5. BestOf(AllRoutes(ws, job.input), found)
    BY <1>1, <1>2, <1>3, <1>4, SellRouteIs
<1> QED BY <1>5 DEF SaleIsComplete, ws

\* A sale gets the most cash that any complete bounded route gets, spends
\* all of every stage and uses no pool twice; it is refused only if there is
\* no route (sell_route.rs).
THEOREM SaleIsBest == Spec => []SaleIsComplete
<1>1. Spec => []FoundInv
    BY FoundAtFirst, FoundStays, PTL DEF Spec
<1> QED BY <1>1, SalesAre, PTL

-----------------------------------------------------------------------------
(* The venues that a purchase proposes.                                    *)

\* A step that is proposed: of a pool, into a product.
AreSteps(S) == IsFiniteSet(S) /\ \A p \in S : IsPool(p.pool) /\ p.product # None
\* Lanes that an order may have.
AreLanes(lanes) == \A l \in Range(lanes) : IsLane(l)

\* The steps of a path lead into products.  (step_proposal)
LEMMA StepsAre ==
    ASSUME NEW lanes, AreLanes(lanes), NEW path, IsPath(path), NEW way, NEW at,
           \A k \in DOMAIN path.pools : \E l \in Range(lanes) : l.product = path.pools[k].to
    PROVE  AreSteps(Steps(path, way, at, lanes))
<1> DEFINE h == [k \in DOMAIN path.pools |->
                   Proposal(at, ProductOf(lanes, path.pools[k].to), path.pools[k], way[k])]
           S == Steps(path, way, at, lanes)
<1>1. S = {h[k] : k \in DOMAIN path.pools}
    BY DEF Steps
<1>2. ASSUME NEW k \in DOMAIN path.pools
      PROVE  IsPool(h[k].pool) /\ h[k].product # None
  <2>1. h[k].pool = path.pools[k] /\ h[k].product = ProductOf(lanes, path.pools[k].to)
      BY DEF Proposal
  <2>2. IsPool(path.pools[k])
      BY DEF IsPath
  <2> DEFINE mint == path.pools[k].to
             l == CHOOSE l \in Range(lanes) : l.product = mint
  <2>3. l \in Range(lanes)
      OBVIOUS
  <2>4. ProductOf(lanes, mint) = l.product
      BY DEF ProductOf
  <2> HIDE DEF l, mint
  <2>5. l.product # None
      BY <2>3 DEF AreLanes, IsLane
  <2> QED BY <2>1, <2>2, <2>4, <2>5 DEF mint
<1>3. IsFiniteSet(DOMAIN path.pools)
  <2>1. DOMAIN path.pools = 1..Len(path.pools) /\ 1 \in Int /\ Len(path.pools) \in Int
      BY DEF IsPath
  <2> QED BY <2>1, FS_Interval
<1> HIDE DEF h
<1>4. IsFiniteSet({h[k] : k \in DOMAIN path.pools})
    BY <1>3, ImageIsFinite
<1> HIDE DEF S
<1> QED BY <1>1, <1>2, <1>4 DEF AreSteps, S

\* More steps are added to those that are there.  (AddSteps)
LEMMA AddedAre ==
    ASSUME NEW chosen, AreSteps(chosen), NEW steps, AreSteps(steps)
    PROVE  AreSteps(AddSteps(chosen, steps))
<1> DEFINE more == {p \in steps : p.pool.name \notin {q.pool.name : q \in chosen}}
<1>1. more \in SUBSET steps
    OBVIOUS
<1>2. AddSteps(chosen, steps) = chosen \cup more
    BY DEF AddSteps
<1> HIDE DEF more
<1>3. IsFiniteSet(more)
    BY <1>1, FS_Subset DEF AreSteps
<1>4. IsFiniteSet(chosen \cup more)
    BY <1>3, FS_Union DEF AreSteps
<1> QED BY <1>1, <1>2, <1>4 DEF AreSteps

CollectingUpto(g, m, paths, seeds, which, before, at, lanes) ==
    g = [k \in 0..m |->
            IF k = 0 THEN before
            ELSE (IF k \in which THEN AddSteps(g[k - 1], StepsOf(paths[k], seeds[k], at, lanes)) ELSE g[k - 1])]
CollectingSteps(paths, seeds, which, before, at, lanes) == CHOOSE g : CollectingUpto(g, Len(paths), paths, seeds, which, before, at, lanes)

\* The venues are collected path by path.  (Collected)
LEMMA CollectingRuns ==
    ASSUME NEW paths, NEW seeds, NEW which, NEW before, NEW at, NEW lanes, Len(paths) \in Nat
    PROVE  LET f == CollectingSteps(paths, seeds, which, before, at, lanes) IN
           /\ Collected(paths, seeds, which, before, at, lanes) = f[Len(paths)] /\ f[0] = before
           /\ \A k \in 1..Len(paths) : f[k] = (IF k \in which THEN AddSteps(f[k - 1], StepsOf(paths[k], seeds[k], at, lanes)) ELSE f[k - 1])
<1> DEFINE n == Len(paths)
           z == before
           f == CollectingSteps(paths, seeds, which, before, at, lanes)
           Is(g, m) == CollectingUpto(g, m, paths, seeds, which, before, at, lanes)
           P == {m \in 0..n : \E g : Is(g, m)}
<1>1. n \in Nat
    OBVIOUS
<1> HIDE DEF n, z
<1>2. 0 \in P
  <2> DEFINE g == [k \in 0..0 |-> z]
  <2>1. \A k \in 0..0 : k = 0
      OBVIOUS
  <2>2. g = [k \in 0..0 |-> IF k = 0 THEN z ELSE (IF k \in which THEN AddSteps(g[k - 1], StepsOf(paths[k], seeds[k], at, lanes)) ELSE g[k - 1])]
      BY <2>1
  <2> HIDE DEF g
  <2>3. Is(g, 0)
      BY <2>2 DEF CollectingUpto, z
  <2> HIDE DEF Is
  <2> QED BY <1>1, <2>3
<1>3. ASSUME NEW m \in 1..n, m - 1 \in P PROVE m \in P
  <2>1. m - 1 \in Nat /\ m \in 0..n
      BY <1>1
  <2>2. PICK g : Is(g, m - 1)
      BY <1>3
  <2>3. g = [k \in 0..(m - 1) |-> IF k = 0 THEN z ELSE (IF k \in which THEN AddSteps(g[k - 1], StepsOf(paths[k], seeds[k], at, lanes)) ELSE g[k - 1])]
      BY <2>2 DEF CollectingUpto, z
  <2> DEFINE h == [k \in 0..m |-> IF k = m THEN (IF k \in which THEN AddSteps(g[k - 1], StepsOf(paths[k], seeds[k], at, lanes)) ELSE g[k - 1]) ELSE g[k]]
  <2>4. \A k \in 0..m : h[k] = IF k = 0 THEN z ELSE (IF k \in which THEN AddSteps(h[k - 1], StepsOf(paths[k], seeds[k], at, lanes)) ELSE h[k - 1])
    <3> TAKE k \in 0..m
    <3>1. CASE k = 0
      <4>1. 0 # m /\ 0 \in 0..(m - 1) /\ h[0] = g[0]
          BY <2>1
      <4>2. g[0] = z
          BY <2>3, <4>1
      <4> QED BY <3>1, <4>1, <4>2
    <3>2. CASE k # 0
      <4>1. k - 1 \in 0..m /\ k - 1 # m /\ k - 1 \in 0..(m - 1)
          BY <2>1, <3>2
      <4>2. h[k - 1] = g[k - 1]
          BY <4>1
      <4>3. h[k] = (IF k \in which THEN AddSteps(g[k - 1], StepsOf(paths[k], seeds[k], at, lanes)) ELSE g[k - 1])
        <5>1. CASE k = m
            BY <5>1
        <5>2. CASE k # m
          <6>1. k \in 0..(m - 1) /\ h[k] = g[k]
              BY <2>1, <5>2
          <6> HIDE DEF h
          <6> QED BY <2>3, <3>2, <6>1
        <5> QED BY <5>1, <5>2
      <4> HIDE DEF h
      <4> QED BY <3>2, <4>2, <4>3
    <3> QED BY <3>1, <3>2
  <2>5. h = [k \in 0..m |-> h[k]]
      OBVIOUS
  <2> HIDE DEF h
  <2>6. h = [k \in 0..m |-> IF k = 0 THEN z ELSE (IF k \in which THEN AddSteps(h[k - 1], StepsOf(paths[k], seeds[k], at, lanes)) ELSE h[k - 1])]
      BY <2>4, <2>5
  <2>7. Is(h, m)
      BY <2>6 DEF CollectingUpto, z
  <2> HIDE DEF Is
  <2> QED BY <2>1, <2>7
<1>4. n \in P
  <2> HIDE DEF P
  <2>1. P \in SUBSET (0..n)
      BY DEF P
  <2>2. \A k \in 0..n : k \in P
      BY <1>1, <1>2, <1>3, <2>1, EveryStep
  <2> QED BY <1>1, <2>2
<1>5. CollectingUpto(f, n, paths, seeds, which, before, at, lanes)
  <2>1. \E g : CollectingUpto(g, n, paths, seeds, which, before, at, lanes)
      BY <1>4
  <2> QED BY <2>1 DEF CollectingSteps, n
<1>6. Collected(paths, seeds, which, before, at, lanes) = f[n]
    BY DEF Collected, CollectingSteps, CollectingUpto, n
<1> HIDE DEF f
<1>7. f = [k \in 0..n |-> IF k = 0 THEN z ELSE (IF k \in which THEN AddSteps(f[k - 1], StepsOf(paths[k], seeds[k], at, lanes)) ELSE f[k - 1])]
    BY <1>5 DEF CollectingUpto, z
<1>8. f[0] = z /\ \A k \in 1..n : f[k] = (IF k \in which THEN AddSteps(f[k - 1], StepsOf(paths[k], seeds[k], at, lanes)) ELSE f[k - 1])
  <2>1. 0 \in 0..n /\ \A k \in 1..n : k \in 0..n /\ k # 0
      BY <1>1
  <2> QED BY <1>7, <2>1
<1> QED BY <1>6, <1>8 DEF f, z, n

\* What is collected are steps.  (Collected)
LEMMA CollectedAre ==
    ASSUME NEW lanes, AreLanes(lanes), NEW paths, ArePaths(paths), Named(paths, lanes),
           NEW seeds, NEW which, NEW before, AreSteps(before), NEW at
    PROVE  AreSteps(Collected(paths, seeds, which, before, at, lanes))
<1> DEFINE n == Len(paths)
           f == CollectingSteps(paths, seeds, which, before, at, lanes)
           P == {k \in 0..n : AreSteps(f[k])}
<1>1. n \in Nat /\ DOMAIN paths = 1..n /\ \A k \in 1..n : IsPath(paths[k])
    BY DEF ArePaths
<1> HIDE DEF n, f
<1>2. /\ Collected(paths, seeds, which, before, at, lanes) = f[n] /\ f[0] = before
      /\ \A k \in 1..n :
           f[k] = IF k \in which THEN AddSteps(f[k - 1], StepsOf(paths[k], seeds[k], at, lanes))
                  ELSE f[k - 1]
    BY <1>1, CollectingRuns DEF f, n
<1>3. 0 \in P /\ P \in SUBSET (0..n)
    BY <1>1, <1>2
<1>4. ASSUME NEW k \in 1..n, k - 1 \in P PROVE k \in P
  <2>1. AreSteps(f[k - 1]) /\ k \in 0..n /\ IsPath(paths[k])
      BY <1>1, <1>4
  <2>2. \A i \in DOMAIN paths[k].pools : \E l \in Range(lanes) : l.product = paths[k].pools[i].to
      BY <1>1 DEF Named
  <2>3. AreSteps(StepsOf(paths[k], seeds[k], at, lanes))
      BY <2>1, <2>2, StepsAre DEF StepsOf
  <2>4. AreSteps(AddSteps(f[k - 1], StepsOf(paths[k], seeds[k], at, lanes)))
      BY <2>1, <2>3, AddedAre
  <2>5. AreSteps(f[k])
      BY <1>2, <2>1, <2>4
  <2> QED BY <2>1, <2>5
<1> HIDE DEF P
<1>5. \A k \in 0..n : k \in P
    BY <1>1, <1>3, <1>4, EveryStep
<1>6. n \in P
    BY <1>1, <1>5
<1> QED BY <1>2, <1>6 DEF P

\* No venues are steps.
LEMMA NoSteps == AreSteps({})
BY FS_EmptySet DEF AreSteps

\* The venues that the program may choose from are steps.
\* (bounded_execution_candidates)
LEMMA CandidatesAre ==
    ASSUME NEW lanes, AreLanes(lanes), NEW final, ArePaths(final.paths), Named(final.paths, lanes),
           NEW cash, NEW prefix
    PROVE  AreSteps(Candidates(final, cash, lanes, prefix))
<1> DEFINE paths == final.paths
           seeds == [i \in DOMAIN paths |-> SeedOf(Seeds(paths[i], cash), final.inputs[i])]
           held == Holders(final.inputs)
           at == prefix + 1
           first == Collected(paths, seeds, held, {}, at, lanes)
<1>1. Candidates(final, cash, lanes, prefix) = Seeded(paths, seeds, held, at, lanes)
    BY DEF Candidates
<1> HIDE DEF seeds, held, at
<1>2. AreSteps(first)
    BY NoSteps, CollectedAre
<1> HIDE DEF first
<1>3. AreSteps(Collected(paths, seeds, DOMAIN paths \ held, first, at, lanes))
    BY <1>2, CollectedAre
<1>4. Seeded(paths, seeds, held, at, lanes) \in
        {{}, Collected(paths, seeds, DOMAIN paths \ held, first, at, lanes)}
    BY DEF Seeded, first
<1> QED BY <1>1, <1>3, <1>4, NoSteps

\* So are those of the split alone.  (solve_final_exposure)
LEMMA ChosenAre ==
    ASSUME NEW lanes, AreLanes(lanes), NEW final, ArePaths(final.paths), Named(final.paths, lanes),
           DOMAIN final.inputs = DOMAIN final.paths, NEW prefix
    PROVE  AreSteps(Chosen(final, lanes, prefix))
<1> DEFINE paths == final.paths
           held == Holders(final.inputs)
           at == prefix + 1
           h == [i \in held |-> StepsOf(paths[i], final.inputs[i], at, lanes)]
           U == {h[i] : i \in held}
<1>1. held \in SUBSET DOMAIN paths
    BY DEF Holders
<1>2. Chosen(final, lanes, prefix) = UNION U
    BY DEF Chosen
<1>3. IsFiniteSet(held)
  <2>1. DOMAIN paths = 1..Len(paths) /\ 1 \in Int /\ Len(paths) \in Int
      BY DEF ArePaths
  <2> HIDE DEF held
  <2>2. IsFiniteSet(DOMAIN paths)
      BY <2>1, FS_Interval
  <2> QED BY <1>1, <2>2, FS_Subset
<1> HIDE DEF held, at
<1>4. ASSUME NEW i \in held PROVE AreSteps(h[i])
  <2>1. i \in DOMAIN paths /\ IsPath(paths[i])
      BY <1>1 DEF ArePaths
  <2>2. \A k \in DOMAIN paths[i].pools : \E l \in Range(lanes) : l.product = paths[i].pools[k].to
      BY <2>1 DEF Named
  <2> QED BY <2>1, <2>2, StepsAre DEF StepsOf
<1> HIDE DEF h
<1>5. IsFiniteSet(U)
    BY <1>3, ImageIsFinite
<1>6. \A s \in U : AreSteps(s)
    BY <1>4
<1> HIDE DEF U
<1>7. IsFiniteSet(UNION U)
    BY <1>5, <1>6, FS_UNION DEF AreSteps
<1> QED BY <1>2, <1>6, <1>7 DEF AreSteps

-----------------------------------------------------------------------------
(* What is tried when a transaction is too large.                          *)

\* What a plan proposes: its funding, and steps.  (solve_exposure)
LEMMA ProposalsAre ==
    ASSUME NEW j, IsJob(j), j.side # "sell", NEW input, NEW p, IsPlanOf(p, j, input)
    PROVE  LET all == Proposals(p, j.lanes, j.prefix) IN
           /\ IsFiniteSet(all)
           /\ \A q \in all : q.product = None \/ IsPool(q.pool)
           /\ {q \in all : q.product = None} = FundingLegs(p)
<1> DEFINE lanes == j.lanes
           final == p.final
           V == IF Reflows(final, lanes, j.prefix) THEN Candidates(final, p.cash, lanes, j.prefix)
                ELSE Chosen(final, lanes, j.prefix)
           F == FundingLegs(p)
           all == Proposals(p, j.lanes, j.prefix)
<1>1. AreLanes(lanes)
    BY DEF IsJob, AreLanes, Range
<1>2. ArePaths(final.paths)
  <2>1. final.paths = Paths(j.lanes, j.prefix)
      BY DEF IsPlanOf
  <2>2. /\ j.lanes \in Seq(Range(j.lanes)) /\ j.prefix \in {0, 1}
        /\ \A l \in DOMAIN j.lanes : IsLane(j.lanes[l]) /\ Len(j.lanes[l].worlds) - j.prefix \in 1..2
      BY DEF IsJob, Depth
  <2> QED BY <2>1, <2>2, PathsAre DEF ArePaths
<1>3. Named(final.paths, lanes)
    BY DEF IsPlanOf, Executable
<1>4. DOMAIN final.inputs = DOMAIN final.paths
  <2>1. final.price = PathPrices(final.paths, p.cash)
        /\ final.inputs \in Inputs(final.price, p.cash)
      BY DEF IsPlanOf, GoodFinal
  <2> HIDE DEF final
  <2> QED BY <2>1 DEF PathPrices, Inputs
<1>5. AreSteps(V)
  <2> HIDE DEF final, lanes
  <2>1. AreSteps(Candidates(final, p.cash, lanes, j.prefix))
      BY <1>1, <1>2, <1>3, CandidatesAre
  <2>2. AreSteps(Chosen(final, lanes, j.prefix))
      BY <1>1, <1>2, <1>3, <1>4, ChosenAre
  <2> QED BY <2>1, <2>2
<1>6. all = F \cup V
    BY DEF Proposals
<1>7. IsFiniteSet(F) /\ \A q \in F : q.product = None
  <2> DEFINE D == DOMAIN p.funding
             h == [k \in D |-> Proposal(1, None, p.funding[k].pool, p.funding[k].input)]
  <2>1. F = {h[k] : k \in D}
      BY DEF FundingLegs
  <2>2. \A k \in D : h[k].product = None
      BY DEF Proposal
  <2>3. IsFiniteSet(D)
      BY DEF IsPlanOf
  <2> HIDE DEF h, D
  <2>4. IsFiniteSet({h[k] : k \in D})
      BY <2>3, ImageIsFinite
  <2> HIDE DEF F
  <2> QED BY <2>1, <2>2, <2>4
<1> HIDE DEF V, F, all
<1>8. IsFiniteSet(all)
  <2>1. IsFiniteSet(V)
      BY <1>5 DEF AreSteps
  <2> QED BY <1>6, <1>7, <2>1, FS_Union
<1>9. \A q \in all : q.product = None \/ IsPool(q.pool)
    BY <1>5, <1>6, <1>7 DEF AreSteps
<1>10. {q \in all : q.product = None} = F
    BY <1>5, <1>6, <1>7 DEF AreSteps
<1> QED BY <1>8, <1>9, <1>10 DEF all, F

\* The funding spends the whole input.  (solve_exposure: "funding allocation
\* conservation")
LEMMA FundingSpendsAll ==
    ASSUME NEW j, IsJob(j), j.prefix = 1, NEW input, NEW p, IsPlanOf(p, j, input)
    PROVE  Summed([q \in FundingLegs(p) |-> q.input], FundingLegs(p)) = input
<1> DEFINE D == DOMAIN p.funding
           F == FundingLegs(p)
           h == [k \in D |-> Proposal(1, None, p.funding[k].pool, p.funding[k].input)]
           r == [q \in F |-> q.input]
           w == j.lanes[1].worlds[1]
<1>1. F = {h[k] : k \in D}
    BY DEF FundingLegs
<1>2. /\ IsFiniteSet(D) /\ \A k \in D : p.funding[k].input \in Nat
      /\ SumIn(FundedBy(p.funding), D) = input
      /\ D \subseteq DOMAIN w /\ \A k \in D : p.funding[k].pool = w[k]
    BY DEF IsPlanOf
<1>3. \A k \in D : h[k].pool = w[k] /\ h[k].input = p.funding[k].input
    BY <1>2 DEF Proposal
<1>4. \A i, k \in DOMAIN w : w[i].name = w[k].name => i = k
  <2>1. j.lanes \in Seq(Range(j.lanes)) /\ j.lanes # <<>> /\ \A l \in DOMAIN j.lanes : IsLane(j.lanes[l])
      BY DEF IsJob
  <2>2. 1 \in DOMAIN j.lanes
      BY <2>1
  <2> DEFINE ws == j.lanes[1].worlds
  <2>3. ws \in Seq(Range(ws)) /\ ws # <<>> /\ \A k \in DOMAIN ws : IsWorld(ws[k])
      BY <2>1, <2>2 DEF IsLane
  <2> HIDE DEF ws
  <2>4. 1 \in DOMAIN ws
      BY <2>3
  <2>5. IsWorld(ws[1])
      BY <2>3, <2>4
  <2> QED BY <2>5 DEF ws, IsWorld
<1> HIDE DEF w
<1>5. \A i, k \in D : h[i] = h[k] => i = k
  <2> TAKE i, k \in D
  <2> HAVE h[i] = h[k]
  <2>1. h[i].pool = w[i] /\ h[k].pool = w[k]
      BY <1>3
  <2> HIDE DEF h
  <2>2. w[i] = w[k]
      BY <2>1
  <2> QED BY <1>2, <1>4, <2>2
<1>6. h \in [D -> F]
    BY <1>1
<1>7. IsFiniteSet(F)
  <2> HIDE DEF h, D, F
  <2> QED BY <1>1, <1>2, ImageIsFinite
<1> HIDE DEF h, D, F
<1>8. \A x \in F : r[x] \in Int
    BY <1>1, <1>2, <1>3
<1>9. \A i \in D : FundedBy(p.funding)[i] = r[h[i]]
    BY <1>3, <1>6 DEF FundedBy, D
<1> HIDE DEF r
<1>10. SumIn(FundedBy(p.funding), D) = SumIn(r, {h[i] : i \in D})
    BY <1>2, <1>5, <1>6, <1>7, <1>8, <1>9, SumByName
<1>11. Summed(r, F) = input
    BY <1>1, <1>2, <1>10, SummedIs
<1> QED BY <1>11 DEF r, F

\* Some venue of every kind is the lightest of its kind.  (Lightest)
LEMMA LightestIs ==
    ASSUME NEW free, IsFiniteSet(free), \A p \in free : IsPool(p.pool), NEW x \in free
    PROVE  \E p \in Lightest(free) : Kind(p) = Kind(x)
<1> DEFINE S == {p \in free : Kind(p) = Kind(x)}
           R == {r \in S \X S : Lighter(r[1], r[2])}
<1>1. S \in SUBSET free /\ x \in S
    OBVIOUS
<1>2. IsFiniteSet(S)
    BY <1>1, FS_Subset
<1>3. \A p, q \in S : <<p, q>> \in R <=> Lighter(p, q)
    OBVIOUS
<1>4. \A p \in S : p.pool.heap \in Nat /\ p.pool.arrays \in Nat /\ p.pool.name \in Nat
    BY DEF IsPool
<1>5. \A p, q \in S : Lighter(p, q) \/ Lighter(q, p)
  <2> HIDE DEF S
  <2> QED BY <1>4 DEF Lighter
<1>6. \A p, q, r \in S : Lighter(p, q) /\ Lighter(q, r) => Lighter(p, r)
  <2> HIDE DEF S
  <2> QED BY <1>4 DEF Lighter
<1> HIDE DEF S, R
<1>7. \E p \in S : \A q \in S : <<p, q>> \in R
  <2>1. \A p, q \in S : <<p, q>> \in R \/ <<q, p>> \in R
      BY <1>3, <1>5
  <2>2. \A p, q, r \in S : <<p, q>> \in R /\ <<q, r>> \in R => <<p, r>> \in R
      BY <1>3, <1>6
  <2> QED BY <1>1, <1>2, <2>1, <2>2, FirstOfAll
<1>8. PICK p \in S : \A q \in S : Lighter(p, q)
    BY <1>3, <1>7
<1>9. p \in free /\ Kind(p) = Kind(x) /\ \A q \in free : Kind(q) = Kind(p) => Lighter(p, q)
    BY <1>8 DEF S
<1> QED BY <1>9 DEF Lightest

\* What is tried instead of all of the venues: it has one of every kind, and
\* all of the funding.
KeepsAll(t, all) ==
    /\ t \in SUBSET all /\ {Kind(p) : p \in t} = {Kind(p) : p \in all}
    /\ {p \in t : p.product = None} = {p \in all : p.product = None}
BaseOf(all) == (all \ Free(all)) \cup Lightest(Free(all))

\* One of each kind.  (resource_admission_variants)
LEMMA BaseKeepsAll ==
    ASSUME NEW all, IsFiniteSet(all), \A q \in all : q.product = None \/ IsPool(q.pool)
    PROVE  KeepsAll(BaseOf(all), all)
<1> DEFINE free == Free(all)
           base == BaseOf(all)
<1>1. free \in SUBSET all /\ \A p \in all : p \in free <=> p.product # None
    BY DEF Free, Fixed
<1>2. Lightest(free) \in SUBSET free
    BY DEF Lightest
<1>3. base = (all \ free) \cup Lightest(free)
    BY DEF BaseOf
<1> HIDE DEF free, base
<1>4. IsFiniteSet(free)
    BY <1>1, FS_Subset
<1>5. base \in SUBSET all
    BY <1>1, <1>2, <1>3
<1>6. \A x \in all : \E p \in base : Kind(p) = Kind(x)
  <2> TAKE x \in all
  <2>1. CASE x \in free
      BY <1>1, <1>3, <1>4, <2>1, LightestIs
  <2>2. CASE x \notin free
      BY <1>3, <2>2
  <2> QED BY <2>1, <2>2
<1>7. {p \in base : p.product = None} = {p \in all : p.product = None}
    BY <1>1, <1>2, <1>3
<1> QED BY <1>5, <1>6, <1>7 DEF KeepsAll, base

\* One venue takes the place of another.  (resource_admission_variants)
LEMMA InsteadKeepsAll ==
    ASSUME NEW all, KeepsAll(BaseOf(all), all), NEW x \in all \ BaseOf(all)
    PROVE  KeepsAll(Instead(BaseOf(all), x), all)
<1> DEFINE base == BaseOf(all)
           t == Instead(base, x)
<1>1. t = {q \in base : q.product = None \/ Kind(q) # Kind(x)} \cup {x}
    BY DEF Instead, Fixed
<1>2. x.product # None
    BY DEF BaseOf, Free, Fixed
<1>3. /\ base \in SUBSET all /\ {Kind(p) : p \in base} = {Kind(p) : p \in all}
      /\ {p \in base : p.product = None} = {p \in all : p.product = None}
    BY DEF KeepsAll
<1> HIDE DEF base, t
<1>4. t \in SUBSET all
    BY <1>1, <1>3
<1>5. \A y \in all : \E p \in t : Kind(p) = Kind(y)
  <2> TAKE y \in all
  <2>1. CASE Kind(y) = Kind(x)
      BY <1>1, <2>1
  <2>2. CASE Kind(y) # Kind(x)
    <3>1. PICK b \in base : Kind(b) = Kind(y)
        BY <1>3
    <3> QED BY <1>1, <2>2, <3>1
  <2> QED BY <2>1, <2>2
<1>6. {p \in t : p.product = None} = {p \in all : p.product = None}
    BY <1>1, <1>2, <1>3
<1> QED BY <1>4, <1>5, <1>6 DEF KeepsAll, t, base

\* A finite set can be listed.  (SetToSeq)
LEMMA ListedIs ==
    ASSUME NEW S, IsFiniteSet(S)
    PROVE  Cardinality(S) \in Nat /\ SetToSeq(S) \in [1..Cardinality(S) -> S]
<1>1. Cardinality(S) \in Nat /\ ExistsBijection(1..Cardinality(S), S)
    BY FS_CardinalityType
<1>2. PICK f \in [1..Cardinality(S) -> S] : IsInjective(f)
    BY <1>1 DEF ExistsBijection, Bijection, Injection
<1> QED BY <1>1, <1>2 DEF SetToSeq

\* What may be tried.
Trials(all) == {t \in SUBSET all : KeepsAll(t, all)}

\* Whatever is tried keeps all of the plan.  (resource_admission_variants)
LEMMA VariantsAre ==
    ASSUME NEW all, IsFiniteSet(all), \A q \in all : q.product = None \/ IsPool(q.pool)
    PROVE  Variants(all) \in Seq(Trials(all))
<1> DEFINE T == Trials(all)
           base == BaseOf(all)
           h == [x \in all \ base |-> Instead(base, x)]
           swaps == {h[x] : x \in all \ base}
           s == SetToSeq(swaps)
           n == Min({Cardinality(swaps), MaxVariants - 2})
<1>1. Variants(all) = Swapped(all, base, swaps)
    BY DEF Variants, BaseOf
<1>2. all \in T
    BY DEF Trials, KeepsAll
<1>3. KeepsAll(base, all)
    BY BaseKeepsAll
<1>4. base \in T
    BY <1>3 DEF Trials, KeepsAll
<1>5. \A x \in all \ base : KeepsAll(Instead(base, x), all)
    BY <1>3, InsteadKeepsAll
<1>6. swaps \in SUBSET T
    BY <1>5 DEF Trials, KeepsAll
<1>7. IsFiniteSet(swaps)
  <2>1. IsFiniteSet(all \ base)
    <3>1. all \ base \in SUBSET all
        OBVIOUS
    <3> QED BY <3>1, FS_Subset
  <2> HIDE DEF h
  <2> QED BY <2>1, ImageIsFinite
<1> HIDE DEF swaps, T, base, s
<1>8. CASE swaps = {}
  <2>1. Swapped(all, base, swaps) = <<all>>
      BY <1>8 DEF Swapped
  <2> QED BY <1>1, <1>2, <2>1 DEF T
<1>9. CASE swaps # {}
  <2>1. Cardinality(swaps) \in Nat /\ s \in [1..Cardinality(swaps) -> swaps]
      BY <1>7, ListedIs DEF s
  <2>2. MaxVariants - 2 \in Nat
      BY RouteAssumption
  <2>3. n \in Nat /\ n <= Cardinality(swaps)
      BY <2>1, <2>2, MinOfTwo
  <2> HIDE DEF n
  <2>4. s \in Seq(T) /\ Len(s) = Cardinality(swaps)
      BY <1>6, <2>1
  <2>5. SubSeq(s, 1, n) \in Seq(T)
      BY <2>1, <2>3, <2>4
  <2>6. <<all, base>> \in Seq(T)
      BY <1>2, <1>4
  <2>7. Swapped(all, base, swaps) = <<all, base>> \o SubSeq(s, 1, n)
      BY <1>9 DEF Swapped, s, n
  <2> QED BY <1>1, <2>5, <2>6, <2>7 DEF T
<1> QED BY <1>8, <1>9

\* The inductive invariant: whatever is still to be tried keeps all of the
\* plan that was found.
VariantsInv ==
    /\ FoundInv
    /\ job.side = "buy" /\ stage = "try" => pending # <<>>
    /\ job.side = "buy" /\ pending # <<>> =>
         /\ found # None
         /\ pending \in Seq(Trials(Proposals(found, job.lanes, job.prefix)))

\* Nothing is tried before there is a plan.  (Init)
LEMMA VariantsAtFirst == Init => VariantsInv
BY FoundAtFirst DEF Init, VariantsInv

\* The plan of a purchase has only variants that keep it.  (Buy)
LEMMA BuyTries ==
    ASSUME VariantsInv, Buy
    PROVE  VariantsInv'
<1> DEFINE plan == SolveExposure(job, job.input)
           all == Proposals(plan, job.lanes, job.prefix)
<1>1. /\ stage = "ask" /\ job.side = "buy" /\ job' = job /\ found' = plan
      /\ pending' = IF plan = None THEN <<>> ELSE Fitting(all)
      /\ stage' = IF pending' = <<>> THEN "refused" ELSE "try"
    BY DEF Buy, AdoptPlan, Adopt
<1>2. FoundInv'
    BY FoundStays DEF VariantsInv, Next
<1>3. IsJob(job) /\ job.side # "sell" /\ job.input \in Nat \ {0}
    BY <1>1, JobsAssumption DEF VariantsInv, FoundInv, IsJob
<1>4. ASSUME pending' # <<>> PROVE plan # None /\ pending' \in Seq(Trials(all))
  <2>1. plan # None /\ pending' = Variants(all)
      BY <1>1, <1>4 DEF Fitting
  <2>2. IsPlanOf(plan, job, job.input)
      BY <1>3, <2>1, SolveExposureIs
  <2> HIDE DEF plan
  <2>3. IsFiniteSet(all) /\ \A q \in all : q.product = None \/ IsPool(q.pool)
      BY <1>3, <2>2, ProposalsAre
  <2> HIDE DEF all
  <2> QED BY <2>1, <2>3, VariantsAre
<1> HIDE DEF plan
<1>5. job'.side = job.side /\ Proposals(found, job.lanes, job.prefix)' = all
    BY <1>1
<1> HIDE DEF all
<1>6. (stage = "try")' => pending' # <<>>
    BY <1>1
<1>7. (pending # <<>>)' => found' # None /\ pending' \in Seq(Trials(all))
    BY <1>1, <1>4
<1> QED BY <1>2, <1>5, <1>6, <1>7 DEF VariantsInv

\* What is left to try keeps the plan, too.  (TooLarge)
LEMMA TooLargeTries ==
    ASSUME VariantsInv, TooLarge
    PROVE  VariantsInv'
<1>1. /\ stage = "try" /\ job' = job /\ found' = found /\ pending' = Tail(pending)
      /\ stage' = IF Len(pending) = 1 THEN "refused" ELSE "try"
    BY DEF TooLarge
<1>2. FoundInv'
    BY FoundStays DEF VariantsInv, Next
<1> DEFINE T == Trials(Proposals(found, job.lanes, job.prefix))
<1>3. T' = T
    BY <1>1
<1>4. CASE job.side = "buy"
  <2>1. pending # <<>> /\ found # None /\ pending \in Seq(T)
      BY <1>1, <1>4 DEF VariantsInv
  <2> HIDE DEF T
  <2>2. Len(pending) \in Nat \ {0}
      BY <2>1
  <2>3. Tail(pending) \in Seq(T) /\ Len(Tail(pending)) = Len(pending) - 1
      BY <2>1
  <2>4. Len(pending) # 1 => Tail(pending) # <<>>
    <3> DEFINE n == Len(pending)
               rest == Tail(pending)
    <3>1. n \in Nat \ {0} /\ Len(rest) = n - 1
        BY <2>2, <2>3
    <3> HIDE DEF n, rest
    <3>2. rest = <<>> => Len(rest) = 0
        OBVIOUS
    <3>3. n # 1 => rest # <<>>
        BY <3>1, <3>2
    <3> QED BY <3>3 DEF n, rest
  <2> QED BY <1>1, <1>2, <1>3, <2>1, <2>3, <2>4 DEF VariantsInv, T
<1>5. CASE job.side # "buy"
    BY <1>1, <1>2, <1>5 DEF VariantsInv
<1> QED BY <1>4, <1>5

\* Every step keeps what is to be tried.  (Next)
LEMMA VariantsStay == VariantsInv /\ [Next]_planVars => VariantsInv'
<1> SUFFICES ASSUME VariantsInv, [Next]_planVars PROVE VariantsInv'
    OBVIOUS
<1>1. FoundInv'
    BY FoundStays DEF VariantsInv
<1>2. CASE Buy
    BY <1>2, BuyTries
<1>3. CASE TooLarge
    BY <1>3, TooLargeTries
<1>4. CASE Sell
  <2>1. job.side = "sell" /\ job' = job
      BY <1>4 DEF Sell, AdoptRoute, Adopt
  <2> QED BY <1>1, <2>1 DEF VariantsInv
<1>5. CASE Clear
  <2>1. job.side = "clear" /\ job' = job
      BY <1>5 DEF Clear
  <2> QED BY <1>1, <2>1 DEF VariantsInv
<1>6. CASE Accepted
    BY <1>1, <1>6 DEF VariantsInv, Accepted
<1>7. CASE Refused
    BY <1>1, <1>7 DEF VariantsInv, Refused
<1>8. CASE Over \/ UNCHANGED planVars
    BY <1>1, <1>8 DEF VariantsInv, Over, planVars
<1> QED BY <1>2, <1>3, <1>4, <1>5, <1>6, <1>7, <1>8 DEF Next

\* What keeps all of the funding spends all of the input.
LEMMA TrialsKeepThePlan == VariantsInv => VariantsKeepThePlan
<1> SUFFICES ASSUME VariantsInv, job.side = "buy", pending # <<>>
             PROVE  KeepsPlan(pending[1], Proposals(found, job.lanes, job.prefix))
    BY DEF VariantsKeepThePlan
<1> DEFINE all == Proposals(found, job.lanes, job.prefix)
           t == pending[1]
           funds == {p \in t : p.product = None}
<1>1. found # None /\ pending \in Seq(Trials(all)) /\ FoundInv
    BY DEF VariantsInv
<1>2. KeepsAll(t, all)
  <2> HIDE DEF all
  <2>1. t \in Trials(all)
      BY <1>1
  <2> QED BY <2>1 DEF Trials
<1>3. IsJob(job) /\ job.side # "sell" /\ job.input \in Nat \ {0}
    BY <1>1, JobsAssumption DEF FoundInv, IsJob
<1>4. IsPlanOf(found, job, job.input)
  <2>1. found = SolveExposure(job, job.input)
      BY <1>1 DEF FoundInv
  <2> QED BY <1>1, <1>3, <2>1, SolveExposureIs
<1>5. funds = FundingLegs(found)
  <2>1. {q \in all : q.product = None} = FundingLegs(found)
      BY <1>3, <1>4, ProposalsAre
  <2> QED BY <1>2, <2>1 DEF KeepsAll
<1>6. job.prefix = 1 => Summed([p \in funds |-> p.input], funds) = job.input
    BY <1>3, <1>4, <1>5, FundingSpendsAll
<1>7. {Kind(p) : p \in t} = {Kind(p) : p \in all}
    BY <1>2 DEF KeepsAll
<1> HIDE DEF all, t
<1>8. KeepsPlan(t, all)
    BY <1>6, <1>7 DEF KeepsPlan
<1> QED BY <1>8 DEF t, all

\* Whatever is left out of a transaction to make it fit, what is tried next
\* still spends the whole input on its funding and keeps a venue for every
\* pair of the plan (stockmesh_api.rs, resource_admission_variants).
THEOREM VariantsAreSound == Spec => []VariantsKeepThePlan
<1>1. Spec => []VariantsInv
    BY VariantsAtFirst, VariantsStay, PTL DEF Spec
<1> QED BY <1>1, TrialsKeepThePlan, PTL
=============================================================================
