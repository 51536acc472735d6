----------------------------- MODULE FiniteSums -----------------------------
(***************************************************************************)
(* Sums over finite sets: what a fold by addition computes, one chosen     *)
(* member after the other, whatever the order; what is least and greatest; *)
(* and functions that take one step after the other.                       *)
(***************************************************************************)
EXTENDS Integers, FiniteSets, FiniteSetsExt, FiniteSetTheorems, NaturalsInduction, TLAPS

\* The sum of r over S.
SumIn(r, S) == LET amount(i) == r[i] IN MapThenSumSet(amount, S)

\* The sum of a set from those of its subsets.
SumStep(r, f, s) ==
    IF s = {} THEN 0
    ELSE LET x == CHOOSE x \in s : TRUE IN r[x] + f[s \ {x}]

\* The function that sums up every set of D.
IsSum(r, f, D) == f = [s \in D |-> SumStep(r, f, s)]

\* Any set of subsets of a finite set has one that none of the others is in.
LEMMA SmallestSubset ==
    ASSUME NEW S, IsFiniteSet(S), NEW T \in SUBSET (SUBSET S), T # {}
    PROVE  \E m \in T : \A u \in SUBSET m : u # m => u \notin T
<1> DEFINE R == StrictSubsetOrdering(S)
           D == FiniteSubsetsOf(S)
<1>1. IsWellFoundedOn(R, D)
    BY FS_StrictSubsetOrderingWellFounded
<1>2. T \in SUBSET D
    BY FS_Subset DEF FiniteSubsetsOf
<1>3. \A u, m \in SUBSET S : u \subseteq m /\ u # m => <<u, m>> \in R
    BY DEF StrictSubsetOrdering
<1> HIDE DEF R, D
<1>4. PICK m \in T : \A u \in T : ~(<<u, m>> \in R)
    BY <1>1, <1>2, WFMin
<1>5. ASSUME NEW u \in SUBSET m, u # m PROVE u \notin T
    BY <1>3, <1>4, <1>5
<1> QED BY <1>5

\* A set of numbers that has zero and with each number the next has all.
LEMMA AllNumbers ==
    ASSUME NEW T \in SUBSET Nat, 0 \in T, \A n \in T : n + 1 \in T
    PROVE  T = Nat
<1> DEFINE R == OpToRel(<, Nat)
           U == Nat \ T
<1>1. IsWellFoundedOn(R, Nat)
    BY NatLessThanWellFounded
<1>2. \A x, y \in Nat : <<y, x>> \in R <=> y < x
    BY DEF OpToRel
<1> HIDE DEF R
<1>3. SUFFICES ASSUME U # {} PROVE FALSE
    OBVIOUS
<1>4. PICK x \in U : \A y \in U : ~(<<y, x>> \in R)
    BY <1>1, <1>3, WFMin
<1>5. x \in Nat /\ x # 0 /\ x - 1 \in Nat
    BY <1>4
<1>6. <<x - 1, x>> \in R
    BY <1>2, <1>5
<1>7. x - 1 \in T
    BY <1>4, <1>5, <1>6
<1>8. (x - 1) + 1 \in T /\ (x - 1) + 1 = x
    BY <1>5, <1>7
<1> QED BY <1>4, <1>8

\* There is a function that sums up every subset of a finite set.
LEMMA SumExists ==
    ASSUME NEW r, NEW S, IsFiniteSet(S)
    PROVE  \E f : IsSum(r, f, SUBSET S)
<1> DEFINE Upto(n) == {s \in SUBSET S : Cardinality(s) <= n}
           T == {n \in Nat : \E f : IsSum(r, f, Upto(n))}
<1>1. \A s \in SUBSET S : IsFiniteSet(s) /\ Cardinality(s) \in Nat /\ (Cardinality(s) = 0 <=> s = {})
    BY FS_Subset, FS_CardinalityType, FS_EmptySet
<1>2. \A s \in SUBSET S : s # {} =>
        LET x == CHOOSE x \in s : TRUE IN s \ {x} \in SUBSET S /\ Cardinality(s \ {x}) = Cardinality(s) - 1
    BY <1>1, FS_RemoveElement
<1>3. 0 \in T
  <2> DEFINE f == [s \in Upto(0) |-> 0]
  <2>1. \A s \in Upto(0) : s = {}
      BY <1>1
  <2>2. IsSum(r, f, Upto(0))
      BY <2>1 DEF IsSum, SumStep
  <2> QED BY <2>2
<1>4. ASSUME NEW n \in T PROVE n + 1 \in T
  <2>1. PICK f : IsSum(r, f, Upto(n))
      OBVIOUS
  <2> DEFINE h == [s \in Upto(n + 1) |-> SumStep(r, f, s)]
  <2>2. \A s \in Upto(n) : s \in Upto(n + 1) /\ h[s] = f[s]
    <3> TAKE s \in Upto(n)
    <3>1. s \in Upto(n + 1)
        BY <1>1
    <3>2. f[s] = SumStep(r, f, s)
        BY <2>1 DEF IsSum
    <3> QED BY <3>1, <3>2
  <2>3. \A s \in Upto(n + 1) : SumStep(r, f, s) = SumStep(r, h, s)
    <3> TAKE s \in Upto(n + 1)
    <3>1. CASE s = {}
        BY <3>1 DEF SumStep
    <3>2. CASE s # {}
      <4> DEFINE x == CHOOSE x \in s : TRUE
      <4>1. s \ {x} \in Upto(n)
          BY <1>1, <1>2, <3>2
      <4>2. h[s \ {x}] = f[s \ {x}]
          BY <2>2, <4>1
      <4> HIDE DEF h, Upto
      <4> QED BY <3>2, <4>2 DEF SumStep
    <3> QED BY <3>1, <3>2
  <2>4. h = [s \in Upto(n + 1) |-> SumStep(r, h, s)]
    <3> HIDE DEF Upto
    <3> QED BY <2>3
  <2>5. IsSum(r, h, Upto(n + 1))
    <3> HIDE DEF h, Upto
    <3> QED BY <2>4 DEF IsSum
  <2> HIDE DEF Upto, h
  <2>6. n + 1 \in Nat
      OBVIOUS
  <2> QED BY <2>5, <2>6
<1>5. T = Nat
  <2> HIDE DEF T
  <2>1. T \in SUBSET Nat
      BY DEF T
  <2> QED BY <1>3, <1>4, <2>1, AllNumbers
<1>6. Cardinality(S) \in T /\ SUBSET S = Upto(Cardinality(S))
  <2>1. Cardinality(S) \in Nat
      BY <1>1
  <2>2. \A s \in SUBSET S : Cardinality(s) <= Cardinality(S)
      BY FS_Subset
  <2> QED BY <1>5, <2>1, <2>2
<1> QED BY <1>6

\* SumIn applies the function that sums up the subsets.
LEMMA SumInIs ==
    ASSUME NEW r, NEW S
    PROVE  SumIn(r, S) = (CHOOSE f : IsSum(r, f, SUBSET S))[S]
BY DEF SumIn, MapThenSumSet, MapThenFoldSet, IsSum, SumStep

\* What that function gives for every set of the domain.
LEMMA SumIs ==
    ASSUME NEW r, NEW S, IsFiniteSet(S)
    PROVE  LET f == CHOOSE f : IsSum(r, f, SUBSET S)
           IN  \A s \in SUBSET S : f[s] = SumStep(r, f, s)
<1> DEFINE f == CHOOSE f : IsSum(r, f, SUBSET S)
<1>1. IsSum(r, f, SUBSET S)
    BY SumExists
<1> HIDE DEF f
<1>2. f = [s \in SUBSET S |-> SumStep(r, f, s)]
    BY <1>1 DEF IsSum
<1>3. \A s \in SUBSET S : f[s] = SumStep(r, f, s)
    BY <1>2
<1> QED BY <1>3 DEF f

\* The functions of two sets agree on what the sets share.
LEMMA SumAgrees ==
    ASSUME NEW r, NEW S, IsFiniteSet(S), NEW U \in SUBSET S
    PROVE  (CHOOSE f : IsSum(r, f, SUBSET S))[U] = SumIn(r, U)
<1> DEFINE f == CHOOSE f : IsSum(r, f, SUBSET S)
           g == CHOOSE g : IsSum(r, g, SUBSET U)
           T == {s \in SUBSET U : f[s] # g[s]}
<1>1. IsFiniteSet(U)
    BY FS_Subset
<1>2. \A s \in SUBSET U : f[s] = SumStep(r, f, s)
    BY SumIs
<1>3. \A s \in SUBSET U : g[s] = SumStep(r, g, s)
    BY <1>1, SumIs
<1>4. SumIn(r, U) = g[U]
    BY SumInIs
<1> HIDE DEF f, g
<1>5. T = {}
  <2> SUFFICES ASSUME T # {} PROVE FALSE
      OBVIOUS
  <2>1. PICK m \in T : \A u \in SUBSET m : u # m => u \notin T
    <3> HIDE DEF T
    <3>1. T \in SUBSET (SUBSET U)
        BY DEF T
    <3> QED BY <1>1, <3>1, SmallestSubset
  <2>2. m # {}
      BY <1>2, <1>3, <2>1 DEF SumStep
  <2> DEFINE x == CHOOSE x \in m : TRUE
  <2>3. x \in m
      BY <2>2
  <2> HIDE DEF x
  <2>4. m \ {x} \in SUBSET m /\ m \ {x} # m /\ m \ {x} \in SUBSET U
      BY <2>1, <2>3
  <2>5. f[m \ {x}] = g[m \ {x}]
      BY <2>1, <2>4
  <2>6. f[m] = r[x] + f[m \ {x}] /\ g[m] = r[x] + g[m \ {x}]
      BY <1>2, <1>3, <2>1, <2>2 DEF SumStep, x
  <2> QED BY <2>1, <2>5, <2>6
<1> QED BY <1>4, <1>5 DEF f

\* Nothing adds up to zero, and a chosen member is one amount of the sum.
LEMMA SumUnfolds ==
    ASSUME NEW r, NEW S, IsFiniteSet(S)
    PROVE  /\ SumIn(r, {}) = 0
           /\ S # {} => LET x == CHOOSE x \in S : TRUE
                        IN  SumIn(r, S) = r[x] + SumIn(r, S \ {x})
<1> DEFINE f == CHOOSE f : IsSum(r, f, SUBSET S)
<1>1. \A s \in SUBSET S : f[s] = SumStep(r, f, s) /\ f[s] = SumIn(r, s)
    BY SumIs, SumAgrees
<1> HIDE DEF f
<1>2. SumIn(r, {}) = 0
    BY <1>1 DEF SumStep
<1>3. ASSUME S # {}
      PROVE  LET x == CHOOSE x \in S : TRUE IN SumIn(r, S) = r[x] + SumIn(r, S \ {x})
  <2> DEFINE x == CHOOSE x \in S : TRUE
  <2>1. f[S] = r[x] + f[S \ {x}]
      BY <1>1, <1>3 DEF SumStep
  <2>2. S \ {x} \in SUBSET S /\ S \in SUBSET S
      OBVIOUS
  <2> HIDE DEF x
  <2>3. SumIn(r, S) = r[x] + SumIn(r, S \ {x})
      BY <1>1, <2>1, <2>2
  <2> QED BY <2>3 DEF x
<1> QED BY <1>2, <1>3

\* A sum of natural numbers is one.
LEMMA SumOfNaturals ==
    ASSUME NEW r, NEW S, IsFiniteSet(S), \A x \in S : r[x] \in Nat
    PROVE  SumIn(r, S) \in Nat
<1> DEFINE T == {s \in SUBSET S : SumIn(r, s) \notin Nat}
<1>1. T = {}
  <2> SUFFICES ASSUME T # {} PROVE FALSE
      OBVIOUS
  <2>1. PICK m \in T : \A u \in SUBSET m : u # m => u \notin T
    <3> HIDE DEF T
    <3>1. T \in SUBSET (SUBSET S)
        BY DEF T
    <3> QED BY <3>1, SmallestSubset
  <2>2. IsFiniteSet(m) /\ m \in SUBSET S
      BY <2>1, FS_Subset
  <2>3. m # {}
    <3>1. SumIn(r, m) \notin Nat
        BY <2>1
    <3>2. SumIn(r, {}) = 0
        BY SumUnfolds
    <3> QED BY <3>1, <3>2
  <2> DEFINE x == CHOOSE x \in m : TRUE
  <2>4. x \in m /\ SumIn(r, m) = r[x] + SumIn(r, m \ {x})
      BY <2>2, <2>3, SumUnfolds
  <2> HIDE DEF x
  <2>5. m \ {x} \in SUBSET m /\ m \ {x} # m /\ m \ {x} \in SUBSET S /\ r[x] \in Nat
      BY <2>2, <2>4
  <2>6. SumIn(r, m \ {x}) \in Nat
      BY <2>1, <2>5
  <2> QED BY <2>1, <2>4, <2>5, <2>6
<1> QED BY <1>1

\* A sum of integers is one.
LEMMA SumOfIntegers ==
    ASSUME NEW r, NEW S, IsFiniteSet(S), \A x \in S : r[x] \in Int
    PROVE  SumIn(r, S) \in Int
<1> DEFINE T == {s \in SUBSET S : SumIn(r, s) \notin Int}
<1>1. T = {}
  <2> SUFFICES ASSUME T # {} PROVE FALSE
      OBVIOUS
  <2>1. PICK m \in T : \A u \in SUBSET m : u # m => u \notin T
    <3> HIDE DEF T
    <3>1. T \in SUBSET (SUBSET S)
        BY DEF T
    <3> QED BY <3>1, SmallestSubset
  <2>2. IsFiniteSet(m) /\ m \in SUBSET S
      BY <2>1, FS_Subset
  <2>3. m # {}
    <3>1. SumIn(r, m) \notin Int
        BY <2>1
    <3>2. SumIn(r, {}) = 0
        BY SumUnfolds
    <3> QED BY <3>1, <3>2
  <2> DEFINE x == CHOOSE x \in m : TRUE
  <2>4. x \in m /\ SumIn(r, m) = r[x] + SumIn(r, m \ {x})
      BY <2>2, <2>3, SumUnfolds
  <2> HIDE DEF x
  <2>5. m \ {x} \in SUBSET m /\ m \ {x} # m /\ m \ {x} \in SUBSET S /\ r[x] \in Int
      BY <2>2, <2>4
  <2>6. SumIn(r, m \ {x}) \in Int
      BY <2>1, <2>5
  <2> QED BY <2>1, <2>4, <2>5, <2>6
<1> QED BY <1>1

\* Any member is one amount of the sum.
LEMMA SumOfRest ==
    ASSUME NEW r, NEW S, IsFiniteSet(S), \A y \in S : r[y] \in Int, NEW z \in S
    PROVE  SumIn(r, S) = r[z] + SumIn(r, S \ {z})
<1> DEFINE T == {s \in SUBSET S : \E x \in s : SumIn(r, s) # r[x] + SumIn(r, s \ {x})}
<1>1. T = {}
  <2> SUFFICES ASSUME T # {} PROVE FALSE
      OBVIOUS
  <2>1. PICK m \in T : \A u \in SUBSET m : u # m => u \notin T
    <3> HIDE DEF T
    <3>1. T \in SUBSET (SUBSET S)
        BY DEF T
    <3> QED BY <3>1, SmallestSubset
  <2>2. IsFiniteSet(m) /\ m \in SUBSET S /\ m # {}
      BY <2>1, FS_Subset
  <2>3. PICK x \in m : SumIn(r, m) # r[x] + SumIn(r, m \ {x})
      BY <2>1
  <2> DEFINE y == CHOOSE y \in m : TRUE
  <2>4. y \in m /\ SumIn(r, m) = r[y] + SumIn(r, m \ {y})
      BY <2>2, SumUnfolds
  <2> HIDE DEF y
  <2>5. x # y
      BY <2>3, <2>4
  <2>6. /\ SumIn(r, m \ {y}) = r[x] + SumIn(r, (m \ {y}) \ {x})
        /\ SumIn(r, m \ {x}) = r[y] + SumIn(r, (m \ {x}) \ {y})
    <3>1. \A u \in SUBSET m : u # m => \A a \in u : SumIn(r, u) = r[a] + SumIn(r, u \ {a})
      <4> TAKE u \in SUBSET m
      <4>1. u \in SUBSET S /\ (u # m => u \notin T)
          BY <2>1, <2>2
      <4> QED BY <4>1
    <3>2. /\ m \ {y} \in SUBSET m /\ m \ {y} # m /\ x \in m \ {y}
          /\ m \ {x} \in SUBSET m /\ m \ {x} # m /\ y \in m \ {x}
        BY <2>3, <2>4, <2>5
    <3> QED BY <3>1, <3>2
  <2>7. (m \ {y}) \ {x} = (m \ {x}) \ {y}
      OBVIOUS
  <2>8. /\ IsFiniteSet((m \ {x}) \ {y}) /\ \A a \in (m \ {x}) \ {y} : r[a] \in Int
        /\ r[x] \in Int /\ r[y] \in Int
    <3>1. (m \ {x}) \ {y} \in SUBSET S
        BY <2>2
    <3>2. IsFiniteSet((m \ {x}) \ {y})
        BY <3>1, FS_Subset
    <3> QED BY <2>2, <2>3, <2>4, <3>1, <3>2
  <2>9. SumIn(r, (m \ {x}) \ {y}) \in Int /\ r[x] \in Int /\ r[y] \in Int
      BY <2>8, SumOfIntegers
  <2> DEFINE rest == SumIn(r, (m \ {x}) \ {y})
  <2>10. rest \in Int /\ SumIn(r, m \ {y}) = r[x] + rest /\ SumIn(r, m \ {x}) = r[y] + rest
      BY <2>6, <2>7, <2>9
  <2> HIDE DEF rest
  <2>11. SumIn(r, m) = r[x] + SumIn(r, m \ {x})
      BY <2>4, <2>8, <2>10
  <2> QED BY <2>3, <2>11
<1> QED BY <1>1

\* A sum depends on the amounts of its members only.
LEMMA SumOfSame ==
    ASSUME NEW r, NEW q, NEW S, IsFiniteSet(S), \A x \in S : r[x] = q[x]
    PROVE  SumIn(r, S) = SumIn(q, S)
<1> DEFINE T == {s \in SUBSET S : SumIn(r, s) # SumIn(q, s)}
<1>1. T = {}
  <2> SUFFICES ASSUME T # {} PROVE FALSE
      OBVIOUS
  <2>1. PICK m \in T : \A u \in SUBSET m : u # m => u \notin T
    <3> HIDE DEF T
    <3>1. T \in SUBSET (SUBSET S)
        BY DEF T
    <3> QED BY <3>1, SmallestSubset
  <2>2. IsFiniteSet(m) /\ m \in SUBSET S
      BY <2>1, FS_Subset
  <2>3. m # {}
      BY <2>1, <2>2, SumUnfolds
  <2> DEFINE x == CHOOSE x \in m : TRUE
  <2>4. /\ x \in m /\ SumIn(r, m) = r[x] + SumIn(r, m \ {x})
        /\ SumIn(q, m) = q[x] + SumIn(q, m \ {x})
      BY <2>2, <2>3, SumUnfolds
  <2> HIDE DEF x
  <2>5. r[x] = q[x] /\ SumIn(r, m \ {x}) = SumIn(q, m \ {x})
      BY <2>1, <2>2, <2>4
  <2> QED BY <2>1, <2>4, <2>5
<1> QED BY <1>1

\* One amount more is one sum more.
LEMMA SumWithMore ==
    ASSUME NEW r, NEW q, NEW S, IsFiniteSet(S), NEW z \in S, NEW d \in Int,
           \A x \in S : r[x] \in Int /\ q[x] \in Int,
           \A x \in S \ {z} : q[x] = r[x], q[z] = r[z] + d
    PROVE  SumIn(q, S) = SumIn(r, S) + d
<1>1. IsFiniteSet(S \ {z})
    BY FS_RemoveElement
<1>2. SumIn(q, S \ {z}) = SumIn(r, S \ {z})
    BY <1>1, SumOfSame
<1>3. SumIn(r, S \ {z}) \in Int
    BY <1>1, SumOfIntegers
<1>4. SumIn(q, S) = q[z] + SumIn(q, S \ {z}) /\ SumIn(r, S) = r[z] + SumIn(r, S \ {z})
    BY SumOfRest
<1> QED BY <1>2, <1>3, <1>4

\* Members that amount to nothing may be left out.
LEMMA SumOfSome ==
    ASSUME NEW r, NEW S, IsFiniteSet(S), NEW T \in SUBSET S,
           \A x \in S : r[x] \in Int, \A x \in S \ T : r[x] = 0
    PROVE  SumIn(r, S) = SumIn(r, T)
<1> DEFINE W == {s \in SUBSET S : T \subseteq s /\ SumIn(r, s) # SumIn(r, T)}
<1>1. W = {}
  <2> SUFFICES ASSUME W # {} PROVE FALSE
      OBVIOUS
  <2>1. PICK m \in W : \A u \in SUBSET m : u # m => u \notin W
    <3> HIDE DEF W
    <3>1. W \in SUBSET (SUBSET S)
        BY DEF W
    <3> QED BY <3>1, SmallestSubset
  <2>2. IsFiniteSet(m) /\ m \in SUBSET S
      BY <2>1, FS_Subset
  <2>3. PICK z \in m : z \notin T
    <3>1. T \subseteq m /\ m # T
        BY <2>1
    <3> QED BY <3>1
  <2>4. SumIn(r, m) = r[z] + SumIn(r, m \ {z})
      BY <2>2, SumOfRest
  <2>5. SumIn(r, m \ {z}) = SumIn(r, T)
      BY <2>1, <2>2, <2>3
  <2>6. IsFiniteSet(T) /\ r[z] = 0
      BY <2>2, <2>3, FS_Subset
  <2>7. SumIn(r, T) \in Int
      BY <2>6, SumOfIntegers
  <2>8. SumIn(r, m) # SumIn(r, T)
      BY <2>1
  <2> QED BY <2>4, <2>5, <2>6, <2>7, <2>8
<1> QED BY <1>1

\* The order in which a sum is told does not matter.
LEMMA SumByName ==
    ASSUME NEW D, IsFiniteSet(D), NEW q, NEW T, IsFiniteSet(T), NEW r, NEW h \in [D -> T],
           \A x \in T : r[x] \in Int,
           \A i \in D : q[i] = r[h[i]],
           \A i, j \in D : h[i] = h[j] => i = j
    PROVE  SumIn(q, D) = SumIn(r, {h[i] : i \in D})
<1> DEFINE Named(s) == {h[i] : i \in s}
           W == {s \in SUBSET D : SumIn(q, s) # SumIn(r, Named(s))}
<1>1. W = {}
  <2> SUFFICES ASSUME W # {} PROVE FALSE
      OBVIOUS
  <2>1. PICK m \in W : \A u \in SUBSET m : u # m => u \notin W
    <3> HIDE DEF W
    <3>1. W \in SUBSET (SUBSET D)
        BY DEF W
    <3> QED BY <3>1, SmallestSubset
  <2>2. /\ IsFiniteSet(m) /\ m \in SUBSET D
        /\ Named(m) \in SUBSET T /\ IsFiniteSet(Named(m)) /\ SumIn(q, m) # SumIn(r, Named(m))
    <3>1. m \in SUBSET D /\ Named(m) \in SUBSET T
        BY <2>1
    <3> QED BY <2>1, <3>1, FS_Subset
  <2>3. m # {}
    <3>1. IsFiniteSet({}) /\ Named({}) = {}
        BY FS_EmptySet
    <3>2. SumIn(q, {}) = 0 /\ SumIn(r, {}) = 0
        BY <3>1, SumUnfolds
    <3> QED BY <2>2, <3>1, <3>2
  <2>4. PICK z \in m : TRUE
      BY <2>3
  <2>5. Named(m) \ {h[z]} = Named(m \ {z}) /\ h[z] \in Named(m)
      BY <2>2, <2>4
  <2>6. \A i \in m : q[i] \in Int
      BY <2>2
  <2>7. SumIn(q, m) = q[z] + SumIn(q, m \ {z})
      BY <2>2, <2>4, <2>6, SumOfRest
  <2>8. SumIn(r, Named(m)) = r[h[z]] + SumIn(r, Named(m) \ {h[z]})
    <3> HIDE DEF Named
    <3> QED BY <2>2, <2>5, SumOfRest
  <2>9. m \ {z} \in SUBSET m /\ m \ {z} # m /\ m \ {z} \in SUBSET D
      BY <2>2, <2>4
  <2>10. SumIn(q, m \ {z}) = SumIn(r, Named(m \ {z}))
      BY <2>1, <2>9
  <2>11. q[z] = r[h[z]]
      BY <2>2, <2>4
  <2> HIDE DEF Named
  <2> QED BY <2>2, <2>5, <2>7, <2>8, <2>10, <2>11
<1>2. D \notin W
    BY <1>1
<1> QED BY <1>2

\* As many equal amounts as there are members.
LEMMA SumOfEqual ==
    ASSUME NEW r, NEW S, IsFiniteSet(S), NEW n \in Int, \A x \in S : r[x] = n
    PROVE  SumIn(r, S) = n * Cardinality(S)
<1> DEFINE W == {s \in SUBSET S : SumIn(r, s) # n * Cardinality(s)}
<1>1. W = {}
  <2> SUFFICES ASSUME W # {} PROVE FALSE
      OBVIOUS
  <2>1. PICK m \in W : \A u \in SUBSET m : u # m => u \notin W
    <3> HIDE DEF W
    <3>1. W \in SUBSET (SUBSET S)
        BY DEF W
    <3> QED BY <3>1, SmallestSubset
  <2>2. IsFiniteSet(m) /\ m \in SUBSET S /\ SumIn(r, m) # n * Cardinality(m)
      BY <2>1, FS_Subset
  <2>3. m # {}
    <3>1. SumIn(r, {}) = 0
        BY FS_EmptySet, SumUnfolds
    <3>2. Cardinality({}) = 0
        BY FS_EmptySet
    <3>3. n * 0 = 0
        OBVIOUS
    <3>4. SumIn(r, {}) = n * Cardinality({})
        BY <3>1, <3>2, <3>3
    <3> QED BY <2>2, <3>4
  <2>4. PICK z \in m : TRUE
      BY <2>3
  <2>5. SumIn(r, m) = n + SumIn(r, m \ {z})
    <3>1. \A x \in m : r[x] \in Int
        BY <2>2
    <3>2. SumIn(r, m) = r[z] + SumIn(r, m \ {z})
        BY <2>2, <2>4, <3>1, SumOfRest
    <3> QED BY <2>2, <2>4, <3>2
  <2>6. SumIn(r, m \ {z}) = n * Cardinality(m \ {z})
    <3>1. m \ {z} \in SUBSET m /\ m \ {z} # m /\ m \ {z} \in SUBSET S
        BY <2>2, <2>4
    <3> QED BY <2>1, <3>1
  <2>7. Cardinality(m) \in Nat /\ Cardinality(m \ {z}) = Cardinality(m) - 1
      BY <2>2, <2>4, FS_RemoveElement, FS_CardinalityType
  <2>8. n * (Cardinality(m) - 1) = n * Cardinality(m) - n
      BY <2>7
  <2> DEFINE c == n * Cardinality(m)
  <2>9. c \in Int
      BY <2>7
  <2>10. SumIn(r, m) = n + (c - n)
      BY <2>5, <2>6, <2>7, <2>8
  <2> HIDE DEF c
  <2>11. n + (c - n) = c
      BY <2>9
  <2> QED BY <2>2, <2>10, <2>11 DEF c
<1> QED BY <1>1

\* What holds of nothing, and of a set whenever it holds of the set without
\* one of the members, holds of a finite set.
LEMMA AllSubsets ==
    ASSUME NEW S, IsFiniteSet(S), NEW T \in SUBSET (SUBSET S), {} \in T,
           \A m \in SUBSET S : m # {} /\ (\A z \in m : m \ {z} \in T) => m \in T
    PROVE  S \in T
<1> DEFINE W == {s \in SUBSET S : s \notin T}
<1>1. W = {}
  <2> SUFFICES ASSUME W # {} PROVE FALSE
      OBVIOUS
  <2>1. PICK m \in W : \A u \in SUBSET m : u # m => u \notin W
    <3> HIDE DEF W
    <3>1. W \in SUBSET (SUBSET S)
        BY DEF W
    <3> QED BY <3>1, SmallestSubset
  <2>2. m # {} /\ m \in SUBSET S /\ m \notin T
      BY <2>1
  <2>3. \A z \in m : m \ {z} \in SUBSET m /\ m \ {z} # m /\ m \ {z} \in SUBSET S
      BY <2>2
  <2>4. \A z \in m : m \ {z} \in T
      BY <2>1, <2>3
  <2> QED BY <2>2, <2>4
<1> QED BY <1>1

\* Sums are added member by member.
LEMMA SumAdded ==
    ASSUME NEW S, IsFiniteSet(S), NEW p, NEW q, NEW r,
           \A x \in S : p[x] \in Int /\ q[x] \in Int /\ r[x] = p[x] + q[x]
    PROVE  SumIn(r, S) = SumIn(p, S) + SumIn(q, S)
<1> DEFINE T == {s \in SUBSET S : SumIn(r, s) = SumIn(p, s) + SumIn(q, s)}
<1>1. {} \in T
  <2>1. SumIn(r, {}) = 0 /\ SumIn(p, {}) = 0 /\ SumIn(q, {}) = 0
      BY FS_EmptySet, SumUnfolds
  <2> QED BY <2>1
<1>2. ASSUME NEW m \in SUBSET S, m # {}, \A z \in m : m \ {z} \in T PROVE m \in T
  <2>1. PICK z \in m : TRUE
      BY <1>2
  <2>2. IsFiniteSet(m) /\ IsFiniteSet(m \ {z})
      BY FS_Subset
  <2>3. \A x \in m : p[x] \in Int /\ q[x] \in Int /\ r[x] \in Int /\ r[x] = p[x] + q[x]
      OBVIOUS
  <2>4. SumIn(r, m) = r[z] + SumIn(r, m \ {z})
      BY <2>2, <2>3, SumOfRest
  <2>5. SumIn(p, m) = p[z] + SumIn(p, m \ {z})
      BY <2>2, <2>3, SumOfRest
  <2>6. SumIn(q, m) = q[z] + SumIn(q, m \ {z})
      BY <2>2, <2>3, SumOfRest
  <2>7. SumIn(p, m \ {z}) \in Int
      BY <2>2, <2>3, SumOfIntegers
  <2>8. SumIn(q, m \ {z}) \in Int
      BY <2>2, <2>3, SumOfIntegers
  <2>9. SumIn(r, m \ {z}) = SumIn(p, m \ {z}) + SumIn(q, m \ {z})
      BY <1>2
  <2>10. SumIn(r, m) = SumIn(p, m) + SumIn(q, m)
      BY <2>3, <2>4, <2>5, <2>6, <2>7, <2>8, <2>9
  <2> QED BY <2>10
<1>3. S \in T
  <2>1. T \in SUBSET (SUBSET S)
      OBVIOUS
  <2> HIDE DEF T
  <2> QED BY <1>1, <1>2, <2>1, AllSubsets
<1> QED BY <1>3

\* So are multiples of a sum.
LEMMA SumScaled ==
    ASSUME NEW S, IsFiniteSet(S), NEW c \in Int, NEW p, NEW r,
           \A x \in S : p[x] \in Int /\ r[x] = c * p[x]
    PROVE  SumIn(r, S) = c * SumIn(p, S)
<1> DEFINE T == {s \in SUBSET S : SumIn(r, s) = c * SumIn(p, s)}
<1>1. {} \in T
  <2>1. SumIn(r, {}) = 0 /\ SumIn(p, {}) = 0
      BY FS_EmptySet, SumUnfolds
  <2>2. c * 0 = 0
      OBVIOUS
  <2> QED BY <2>1, <2>2
<1>2. ASSUME NEW m \in SUBSET S, m # {}, \A z \in m : m \ {z} \in T PROVE m \in T
  <2>1. PICK z \in m : TRUE
      BY <1>2
  <2>2. IsFiniteSet(m) /\ IsFiniteSet(m \ {z})
      BY FS_Subset
  <2>3. \A x \in m : p[x] \in Int /\ r[x] \in Int /\ r[x] = c * p[x]
      OBVIOUS
  <2>4. SumIn(r, m) = r[z] + SumIn(r, m \ {z})
      BY <2>2, <2>3, SumOfRest
  <2>5. SumIn(p, m) = p[z] + SumIn(p, m \ {z})
      BY <2>2, <2>3, SumOfRest
  <2>6. SumIn(p, m \ {z}) \in Int
      BY <2>2, <2>3, SumOfIntegers
  <2>7. SumIn(r, m \ {z}) = c * SumIn(p, m \ {z})
      BY <1>2
  <2> DEFINE a == p[z]
             b == SumIn(p, m \ {z})
  <2>8. a \in Int /\ b \in Int /\ SumIn(r, m) = (c * a) + (c * b) /\ SumIn(p, m) = a + b
      BY <2>3, <2>4, <2>5, <2>6, <2>7
  <2> HIDE DEF a, b
  <2>9. (c * a) + (c * b) = c * (a + b)
      BY <2>8
  <2> QED BY <2>8, <2>9
<1>3. S \in T
  <2>1. T \in SUBSET (SUBSET S)
      OBVIOUS
  <2> HIDE DEF T
  <2> QED BY <1>1, <1>2, <2>1, AllSubsets
<1> QED BY <1>3

\* Less of every member is less in all.
LEMMA SumAtMost ==
    ASSUME NEW S, IsFiniteSet(S), NEW p, NEW q,
           \A x \in S : p[x] \in Int /\ q[x] \in Int /\ p[x] <= q[x]
    PROVE  SumIn(p, S) <= SumIn(q, S)
<1> DEFINE T == {s \in SUBSET S : SumIn(p, s) <= SumIn(q, s)}
<1>1. {} \in T
  <2>1. SumIn(p, {}) = 0 /\ SumIn(q, {}) = 0
      BY FS_EmptySet, SumUnfolds
  <2> QED BY <2>1
<1>2. ASSUME NEW m \in SUBSET S, m # {}, \A z \in m : m \ {z} \in T PROVE m \in T
  <2>1. PICK z \in m : TRUE
      BY <1>2
  <2>2. IsFiniteSet(m) /\ IsFiniteSet(m \ {z})
      BY FS_Subset
  <2>3. \A x \in m : p[x] \in Int /\ q[x] \in Int /\ p[x] <= q[x]
      OBVIOUS
  <2>5. SumIn(p, m) = p[z] + SumIn(p, m \ {z})
      BY <2>2, <2>3, SumOfRest
  <2>6. SumIn(q, m) = q[z] + SumIn(q, m \ {z})
      BY <2>2, <2>3, SumOfRest
  <2>7. SumIn(p, m \ {z}) \in Int
      BY <2>2, <2>3, SumOfIntegers
  <2>8. SumIn(q, m \ {z}) \in Int
      BY <2>2, <2>3, SumOfIntegers
  <2>9. SumIn(p, m \ {z}) <= SumIn(q, m \ {z})
      BY <1>2
  <2>10. SumIn(p, m) <= SumIn(q, m)
      BY <2>3, <2>5, <2>6, <2>7, <2>8, <2>9
  <2> QED BY <2>10
<1>3. S \in T
  <2>1. T \in SUBSET (SUBSET S)
      OBVIOUS
  <2> HIDE DEF T
  <2> QED BY <1>1, <1>2, <2>1, AllSubsets
<1> QED BY <1>3

\* The members of s that g sends to a.
FiberOf(g, s, a) == {x \in s : g[x] = a}

\* A sum is the sum of the sums over what shares a value.
LEMMA SumByFiber ==
    ASSUME NEW S, IsFiniteSet(S), NEW A, IsFiniteSet(A), NEW g, \A x \in S : g[x] \in A,
           NEW q, \A x \in S : q[x] \in Int,
           NEW r, \A a \in A : r[a] = SumIn(q, FiberOf(g, S, a))
    PROVE  SumIn(q, S) = SumIn(r, A)
<1> DEFINE R(s) == [a \in A |-> SumIn(q, FiberOf(g, s, a))]
           T == {s \in SUBSET S : SumIn(q, s) = SumIn(R(s), A)}
<1>0. \A s \in SUBSET S : \A a \in A :
        /\ IsFiniteSet(s)
        /\ FiberOf(g, s, a) \in SUBSET S /\ IsFiniteSet(FiberOf(g, s, a))
        /\ R(s)[a] = SumIn(q, FiberOf(g, s, a)) /\ R(s)[a] \in Int
  <2> TAKE s \in SUBSET S
  <2> TAKE a \in A
  <2>1. FiberOf(g, s, a) \in SUBSET S
      BY DEF FiberOf
  <2>2. IsFiniteSet(FiberOf(g, s, a)) /\ IsFiniteSet(s)
      BY <2>1, FS_Subset
  <2>3. \A x \in FiberOf(g, s, a) : q[x] \in Int
      BY <2>1
  <2>4. SumIn(q, FiberOf(g, s, a)) \in Int
      BY <2>2, <2>3, SumOfIntegers
  <2> QED BY <2>1, <2>2, <2>4
<1>1. {} \in T
  <2>1. SumIn(q, {}) = 0
      BY FS_EmptySet, SumUnfolds
  <2>2. \A a \in A : R({})[a] = 0
    <3> TAKE a \in A
    <3>1. FiberOf(g, {}, a) = {}
        BY DEF FiberOf
    <3> QED BY <2>1, <3>1
  <2>3. SumIn(R({}), A) = 0 * Cardinality(A)
    <3> HIDE DEF R
    <3> QED BY <2>2, SumOfEqual
  <2>4. 0 * Cardinality(A) = 0
      BY FS_CardinalityType
  <2> QED BY <2>1, <2>3, <2>4
<1>2. ASSUME NEW m \in SUBSET S, m # {}, \A z \in m : m \ {z} \in T PROVE m \in T
  <2>1. PICK z \in m : TRUE
      BY <1>2
  <2> DEFINE k == m \ {z}
  <2>2. IsFiniteSet(m) /\ k \in SUBSET S /\ k \in T
      BY <1>2, FS_Subset
  <2>3. SumIn(q, m) = q[z] + SumIn(q, k)
      BY <2>2, SumOfRest
  <2>4. \A a \in A \ {g[z]} : R(m)[a] = R(k)[a]
    <3> TAKE a \in A \ {g[z]}
    <3>1. FiberOf(g, m, a) = FiberOf(g, k, a)
        BY DEF FiberOf
    <3> QED BY <3>1
  <2>5. R(m)[g[z]] = R(k)[g[z]] + q[z]
    <3> DEFINE u == FiberOf(g, m, g[z])
    <3>1. z \in u /\ FiberOf(g, k, g[z]) = u \ {z} /\ g[z] \in A
        BY <2>1 DEF FiberOf
    <3>2. IsFiniteSet(u) /\ \A x \in u : q[x] \in Int
        BY <1>0, <3>1
    <3> HIDE DEF u
    <3>3. SumIn(q, u) = q[z] + SumIn(q, u \ {z})
        BY <3>1, <3>2, SumOfRest
    <3>4. R(m)[g[z]] = SumIn(q, u) /\ R(k)[g[z]] = SumIn(q, u \ {z}) /\ R(k)[g[z]] \in Int
        BY <1>0, <2>2, <3>1 DEF u
    <3> HIDE DEF R
    <3>5. q[z] \in Int
        OBVIOUS
    <3> QED BY <3>3, <3>4, <3>5
  <2>6. SumIn(R(m), A) = SumIn(R(k), A) + q[z]
    <3>1. g[z] \in A /\ q[z] \in Int
        OBVIOUS
    <3>2. \A a \in A : R(k)[a] \in Int /\ R(m)[a] \in Int
        BY <1>0, <2>2
    <3> HIDE DEF R, k
    <3> QED BY <2>4, <2>5, <3>1, <3>2, SumWithMore
  <2>7. SumIn(q, k) = SumIn(R(k), A) /\ SumIn(q, k) \in Int /\ q[z] \in Int
    <3>1. IsFiniteSet(k) /\ \A x \in k : q[x] \in Int
        BY <2>2, FS_Subset
    <3>2. SumIn(q, k) \in Int
        BY <3>1, SumOfIntegers
    <3> QED BY <2>2, <3>2
  <2>8. SumIn(q, m) = SumIn(R(m), A)
    <3> HIDE DEF R, k
    <3> QED BY <2>3, <2>6, <2>7
  <2> QED BY <2>8
<1>3. S \in T
  <2>1. T \in SUBSET (SUBSET S)
      OBVIOUS
  <2> HIDE DEF T
  <2> QED BY <1>1, <1>2, <2>1, AllSubsets
<1>4. SumIn(R(S), A) = SumIn(r, A)
  <2>1. \A a \in A : R(S)[a] = r[a]
      OBVIOUS
  <2> HIDE DEF R
  <2> QED BY <2>1, SumOfSame
<1> QED BY <1>3, <1>4

-----------------------------------------------------------------------------
(* One step after the other, the least and the greatest, and quotients.    *)

\* What holds at first and from step to step holds at every step.
LEMMA EveryStep ==
    ASSUME NEW n \in Nat, NEW P \in SUBSET (0..n), 0 \in P,
           \A k \in 1..n : k - 1 \in P => k \in P
    PROVE  \A k \in 0..n : k \in P
<1> DEFINE T == {k \in Nat : k <= n => k \in P}
<1>1. 0 \in T
    OBVIOUS
<1>2. ASSUME NEW k \in T PROVE k + 1 \in T
  <2>1. k + 1 \in Nat /\ (k + 1 <= n => k + 1 \in 1..n /\ (k + 1) - 1 = k /\ k <= n)
      OBVIOUS
  <2> QED BY <2>1
<1>3. T = Nat
  <2>1. T \in SUBSET Nat
      OBVIOUS
  <2> HIDE DEF T
  <2> QED BY <1>1, <1>2, <2>1, AllNumbers
<1> QED BY <1>3

\* f takes n steps of F, from x on.
Runs(f, X, x, n, F) ==
    /\ f \in [0..n -> X] /\ f[0] = x
    /\ \A k \in 1..n : f[k] = F[<<k, f[k - 1]>>]

\* Steps can be taken one after the other.
LEMMA Iterated ==
    ASSUME NEW X, NEW x \in X, NEW n \in Nat, NEW F \in [(1..n) \X X -> X]
    PROVE  \E f : Runs(f, X, x, n, F)
<1> DEFINE Is(f, m) == f[0] = x /\ \A k \in 1..m : f[k] = F[<<k, f[k - 1]>>]
           P == {m \in 0..n : \E f \in [0..m -> X] : Is(f, m)}
<1>1. 0 \in P
  <2> DEFINE f == [k \in 0..0 |-> x]
  <2>1. f \in [0..0 -> X] /\ f[0] = x
      OBVIOUS
  <2>2. 0 \in 0..n
      OBVIOUS
  <2> HIDE DEF f
  <2>3. Is(f, 0)
      BY <2>1
  <2> HIDE DEF Is
  <2> QED BY <2>1, <2>2, <2>3
<1>2. ASSUME NEW m \in 1..n, m - 1 \in P PROVE m \in P
  <2>1. PICK f \in [0..(m - 1) -> X] : Is(f, m - 1)
      BY <1>2
  <2> DEFINE y == F[<<m, f[m - 1]>>]
             h == [k \in 0..m |-> IF k = m THEN y ELSE f[k]]
  <2>2. y \in X
      BY <2>1
  <2>3. h \in [0..m -> X] /\ h[0] = x /\ h[m] = y /\ \A k \in 0..(m - 1) : h[k] = f[k]
    <3> HIDE DEF y
    <3> QED BY <2>1, <2>2
  <2>4. ASSUME NEW k \in 1..m PROVE h[k] = F[<<k, h[k - 1]>>]
    <3>1. CASE k = m
      <4>1. h[k] = y /\ h[k - 1] = f[m - 1]
          BY <2>3, <3>1
      <4> HIDE DEF h
      <4> QED BY <3>1, <4>1
    <3>2. CASE k # m
      <4>1. k \in 1..(m - 1) /\ h[k] = f[k] /\ h[k - 1] = f[k - 1]
          BY <2>3, <3>2
      <4> HIDE DEF h
      <4> QED BY <2>1, <4>1
    <3> QED BY <3>1, <3>2
  <2> HIDE DEF h, y
  <2>5. Is(h, m)
      BY <2>3, <2>4
  <2> QED BY <2>3, <2>5
<1>3. \A k \in 0..n : k \in P
  <2>1. P \in SUBSET (0..n)
      OBVIOUS
  <2> HIDE DEF P
  <2> QED BY <1>1, <1>2, <2>1, EveryStep
<1>4. n \in P
    BY <1>3
<1>5. PICK f \in [0..n -> X] : Is(f, n)
    BY <1>4
<1>6. Runs(f, X, x, n, F)
    BY <1>5 DEF Runs
<1> QED BY <1>6

\* An element of a set of natural numbers is the least one.
LEMMA LeastOne ==
    ASSUME NEW T \in SUBSET Nat, T # {}
    PROVE  \E x \in T : \A y \in T : x <= y
<1> DEFINE R == OpToRel(<, Nat)
<1>1. IsWellFoundedOn(R, Nat)
    BY NatLessThanWellFounded
<1>2. \E x \in T : \A y \in T : ~(<<y, x>> \in R)
  <2> HIDE DEF R
  <2> QED BY <1>1, WFMin
<1>3. \A x, y \in Nat : <<y, x>> \in R <=> y < x
    BY DEF OpToRel
<1> HIDE DEF R
<1>4. PICK x \in T : \A y \in T : ~(<<y, x>> \in R)
    BY <1>2
<1>5. ASSUME NEW y \in T PROVE x <= y
  <2>1. ~(<<y, x>> \in R)
      BY <1>4
  <2>2. x \in Nat /\ y \in Nat /\ ~(y < x)
      BY <1>3, <2>1
  <2> QED BY <2>2
<1> QED BY <1>5

\* Min is the least of them.
LEMMA MinIs ==
    ASSUME NEW T \in SUBSET Nat, T # {}
    PROVE  Min(T) \in T /\ \A y \in T : Min(T) <= y
BY LeastOne DEF Min

\* What a quotient leaves.
LEMMA QuotientIs ==
    ASSUME NEW x \in Nat, NEW d \in Nat \ {0}
    PROVE  x \div d \in Nat /\ (x \div d) * d <= x
<1>1. x \div d \in Nat /\ x % d \in 0..(d - 1) /\ x = d * (x \div d) + (x % d)
    OBVIOUS
<1> DEFINE q == x \div d
           r == x % d
<1>2. q \in Nat /\ r \in 0..(d - 1) /\ x = d * q + r
    BY <1>1
<1> HIDE DEF q, r
<1>3. q * d = d * q
    BY <1>2
<1> DEFINE p == d * q
<1>4. p \in Nat /\ x = p + r /\ q * d = p
    BY <1>2, <1>3
<1> HIDE DEF p
<1>5. q * d <= x
    BY <1>2, <1>4
<1> QED BY <1>2, <1>5 DEF q

\* As many of more are more.
LEMMA MoreOfMore ==
    ASSUME NEW d \in Nat, NEW p \in Int, NEW q \in Int, p + 1 <= q
    PROVE  d + d * p <= d * q
<1> DEFINE r == q - p - 1
<1>1. r \in Nat /\ q = p + 1 + r
    OBVIOUS
<1> HIDE DEF r
<1>2. d * q = d * (p + 1 + r)
    BY <1>1
<1>3. d * (p + 1 + r) = d * p + d + d * r
    BY <1>1
<1>4. d * r \in Nat /\ d * p \in Int
    BY <1>1
<1> DEFINE u == d * p
           v == d * r
           w == d * q
<1>5. w = u + d + v /\ v \in Nat /\ u \in Int
    BY <1>2, <1>3, <1>4
<1> HIDE DEF u, v, w
<1>6. d + u <= w
    BY <1>5
<1> QED BY <1>6 DEF u, w

\* As many of the same: the greater product has the greater factor.
LEMMA LessTimes ==
    ASSUME NEW d \in Nat \ {0}, NEW p \in Int, NEW q \in Int, d * p <= d * q
    PROVE  p <= q
<1> SUFFICES ASSUME q + 1 <= p PROVE FALSE
    OBVIOUS
<1>1. d + d * q <= d * p
    BY MoreOfMore
<1> DEFINE u == d * p
           v == d * q
<1>2. u \in Int /\ v \in Int /\ d + v <= u /\ u <= v
    BY <1>1
<1> HIDE DEF u, v
<1> QED BY <1>2

\* More of the same is more.
LEMMA TimesAtMost ==
    ASSUME NEW d \in Nat, NEW p \in Int, NEW q \in Int, p <= q
    PROVE  p * d <= q * d
<1> DEFINE r == q - p
<1>1. r \in Nat /\ q = p + r
    OBVIOUS
<1> HIDE DEF r
<1>2. q * d = p * d + r * d
    BY <1>1
<1>3. r * d \in Nat /\ p * d \in Int
    BY <1>1
<1> DEFINE u == p * d
           v == r * d
           w == q * d
<1>4. w = u + v /\ v \in Nat /\ u \in Int
    BY <1>2, <1>3
<1> HIDE DEF u, v, w
<1>5. u <= w
    BY <1>4
<1> QED BY <1>5 DEF u, w

\* A step against an arc that could be taken, and one along an arc that could,
\* bring nothing.
LEMMA NoGain ==
    ASSUME NEW d \in Int, NEW p \in Int, NEW q \in Int, d > 0 => p + 1 <= q, d < 0 => q - 1 <= p
    PROVE  d + d * p <= d * q
<1>1. CASE d > 0
  <2>1. d \in Nat
      BY <1>1
  <2> QED BY <1>1, <2>1, MoreOfMore
<1>2. CASE d = 0
    BY <1>2
<1>3. CASE d < 0
  <2> DEFINE e == 0 - d
             s == p + 1 - q
  <2>1. e \in Nat /\ s \in Nat /\ d = 0 - e /\ q = p + 1 - s
      BY <1>3
  <2> HIDE DEF e, s
  <2>2. d * q = (0 - e) * (p + 1 - s) /\ d * p = (0 - e) * p
      BY <2>1
  <2>3. (0 - e) * (p + 1 - s) = (0 - e) * p - e + e * s
      BY <2>1
  <2>4. e * s \in Nat /\ (0 - e) * p \in Int
      BY <2>1
  <2> DEFINE u == (0 - e) * p
             v == e * s
             w == d * q
             x == d * p
  <2>5. w = u - e + v /\ x = u /\ v \in Nat /\ u \in Int
      BY <2>2, <2>3, <2>4
  <2> HIDE DEF u, v, w, x
  <2>6. d + x <= w
      BY <2>1, <2>5
  <2> QED BY <2>6 DEF w, x
<1> QED BY <1>1, <1>2, <1>3

\* A finite set of natural numbers that has any has a greatest one.
LEMMA MaxIs ==
    ASSUME NEW S \in SUBSET Nat, IsFiniteSet(S), S # {}
    PROVE  Max(S) \in S /\ \A y \in S : y <= Max(S)
<1> DEFINE T == {s \in SUBSET S : s # {} => \E x \in s : \A y \in s : y <= x}
<1>1. {} \in T
    OBVIOUS
<1>2. ASSUME NEW m \in SUBSET S, m # {}, \A z \in m : m \ {z} \in T PROVE m \in T
  <2>1. PICK z \in m : TRUE
      BY <1>2
  <2>2. CASE m \ {z} = {}
    <3>1. \A y \in m : y <= z
        BY <2>1, <2>2
    <3> QED BY <2>1, <3>1
  <2>3. CASE m \ {z} # {}
    <3>1. m \ {z} \in T
        BY <1>2, <2>1
    <3>2. PICK x \in m \ {z} : \A y \in m \ {z} : y <= x
        BY <2>3, <3>1
    <3>3. x \in Nat /\ z \in Nat /\ \A y \in m : y \in Nat
        BY <2>1, <3>2
    <3>4. CASE x <= z
      <4>1. \A y \in m : y <= z
        <5> TAKE y \in m
        <5>1. y = z \/ y <= x
            BY <3>2
        <5> QED BY <3>3, <3>4, <5>1
      <4> QED BY <2>1, <4>1
    <3>5. CASE z <= x
      <4>1. \A y \in m : y <= x
          BY <3>2, <3>5
      <4> QED BY <3>2, <4>1
    <3> QED BY <3>3, <3>4, <3>5
  <2> QED BY <2>2, <2>3
<1>3. S \in T
  <2>1. T \in SUBSET (SUBSET S)
      OBVIOUS
  <2> HIDE DEF T
  <2> QED BY <1>1, <1>2, <2>1, AllSubsets
<1>4. PICK x \in S : \A y \in S : y <= x
    BY <1>3
<1>5. Max(S) \in S /\ \A y \in S : Max(S) >= y
  <2>1. \A y \in S : x >= y
      BY <1>4
  <2> QED BY <2>1 DEF Max
<1>6. \A y \in S : y <= Max(S)
    BY <1>5
<1> QED BY <1>5, <1>6

\* Among finitely many things that can be compared one is before all others.
LEMMA FirstOfAll ==
    ASSUME NEW S, IsFiniteSet(S), S # {}, NEW R,
           \A p, q \in S : <<p, q>> \in R \/ <<q, p>> \in R,
           \A p, q, r \in S : <<p, q>> \in R /\ <<q, r>> \in R => <<p, r>> \in R
    PROVE  \E p \in S : \A q \in S : <<p, q>> \in R
<1> DEFINE T == {m \in SUBSET S : m = {} \/ \E p \in m : \A q \in m : <<p, q>> \in R}
<1>1. T \in SUBSET (SUBSET S) /\ {} \in T
    OBVIOUS
<1>2. ASSUME NEW m \in SUBSET S, m # {}, \A z \in m : m \ {z} \in T PROVE m \in T
  <2>1. PICK z \in m : TRUE
      BY <1>2
  <2>2. m \ {z} = {} \/ \E p \in m \ {z} : \A q \in m \ {z} : <<p, q>> \in R
      BY <1>2, <2>1
  <2>3. CASE m \ {z} = {}
    <3>1. m = {z}
        BY <2>1, <2>3
    <3>2. \A q \in m : <<z, q>> \in R
        BY <2>1, <3>1
    <3> QED BY <2>1, <3>2
  <2>4. CASE \E p \in m \ {z} : \A q \in m \ {z} : <<p, q>> \in R
    <3>1. PICK p \in m \ {z} : \A q \in m \ {z} : <<p, q>> \in R
        BY <2>4
    <3>2. CASE <<p, z>> \in R
      <4>1. \A q \in m : <<p, q>> \in R
          BY <3>1, <3>2
      <4> QED BY <3>1, <4>1
    <3>3. CASE <<z, p>> \in R
      <4>1. \A q \in m \ {z} : <<z, q>> \in R
          BY <2>1, <3>1, <3>3
      <4>2. <<z, z>> \in R
          BY <2>1
      <4>3. \A q \in m : <<z, q>> \in R
          BY <4>1, <4>2
      <4> QED BY <2>1, <4>3
    <3> QED BY <2>1, <3>1, <3>2, <3>3
  <2> QED BY <2>2, <2>3, <2>4
<1>3. S \in T
  <2> HIDE DEF T
  <2> QED BY <1>1, <1>2, AllSubsets
<1> QED BY <1>3
=============================================================================
