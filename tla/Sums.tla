-------------------------------- MODULE Sums --------------------------------
(* Facts about totals, and about division, that the proofs of this development need.

   Of SumFunction of the community modules: the sum of the values of a
   function over its domain, which the ledgers of this development are totals of.
   SumFunction(f) folds f over its domain by a function that is chosen to solve a
   recursive equation.  What follows shows that the equation has a solution, that
   all solutions agree, and so how a sum moves when its function gains or loses an
   element, or changes at one.

   The induction principles of the library take an operator as a parameter, which
   the provers here cannot instantiate.  The proofs below use an argument that needs
   none: a claim that fails for some set of subsets of S fails for a smallest one
   (SmallestSet), whose parts all satisfy it. *)
EXTENDS Integers, FiniteSets, Functions, FiniteSetTheorems, WellFoundedInduction, TLAPS

\* The element a fold takes next.
Pick(s) == CHOOSE x \in s : TRUE

\* One turn of the fold.
Turn(g, f, s) == IF s = {} THEN 0 ELSE f[Pick(s)] + g[s \ {Pick(s)}]

\* g folds f, over every subset of its domain.
Solves(g, f) == g = [s \in SUBSET DOMAIN f |-> Turn(g, f, s)]

\* SumFunction, spelled out.
LEMMA SumIsSolution ==
  ASSUME NEW f
  PROVE  SumFunction(f) = (CHOOSE g : Solves(g, f))[DOMAIN f]
BY DEF SumFunction, SumFunctionOnSet, FoldFunctionOnSet, MapThenFoldSet, Solves, Turn, Pick

\* Every set of naturals that is not empty has a least element.
LEMMA LeastNumber ==
  ASSUME NEW S \in SUBSET Nat, S # {}
  PROVE  \E n \in S : \A m \in S : n <= m
<1>1. \E i \in S : \A j \in S : ~(<<j, i>> \in OpToRel(<, Nat))
  BY NatLessThanWellFounded, WFMin
<1>2. PICK i \in S : \A j \in S : ~(<<j, i>> \in OpToRel(<, Nat))
  BY <1>1
<1>3. ASSUME NEW j \in S, j < i PROVE FALSE
  BY <1>2, <1>3 DEF OpToRel
<1>4. QED BY <1>3

\* A collection of subsets of a finite set that is not empty has a smallest member.
LEMMA SmallestSet ==
  ASSUME NEW S, IsFiniteSet(S), NEW Bad \in SUBSET SUBSET S, Bad # {}
  PROVE  \E T \in Bad : \A x \in T : (T \ {x}) \notin Bad
<1> DEFINE Sizes == {Cardinality(T) : T \in Bad}
<1>1. \A T \in Bad : IsFiniteSet(T) /\ Cardinality(T) \in Nat
  BY FS_Subset, FS_CardinalityType
<1>2. Sizes \in SUBSET Nat /\ Sizes # {}
  BY <1>1
<1>3. \E n \in Sizes : \A m \in Sizes : n <= m
  <2> HIDE DEF Sizes
  <2> QED BY <1>2, LeastNumber
<1>4. PICK T \in Bad : \A U \in Bad : Cardinality(T) <= Cardinality(U)
  BY <1>3
<1>5. ASSUME NEW x \in T, (T \ {x}) \in Bad PROVE FALSE
  <2>1. Cardinality(T \ {x}) = Cardinality(T) - 1
    BY <1>1, FS_RemoveElement
  <2>2. Cardinality(T) <= Cardinality(T \ {x})
    BY <1>4, <1>5
  <2>3. QED BY <1>1, <2>1, <2>2
<1>6. QED BY <1>5

\* The element taken is one of the set.
LEMMA PickIsIn ==
  ASSUME NEW s, s # {}
  PROVE  Pick(s) \in s
BY DEF Pick

\* The fold has a value for every finite domain.
LEMMA SolutionExists ==
  ASSUME NEW f, IsFiniteSet(DOMAIN f)
  PROVE  \E g : Solves(g, f)
<1> DEFINE D == DOMAIN f
           Upto(g, n) ==
             /\ g = [s \in SUBSET D |-> g[s]]
             /\ \A s \in SUBSET D : Cardinality(s) <= n => g[s] = Turn(g, f, s)
           More(g) == [s \in SUBSET D |-> Turn(g, f, s)]
           Bad == {n \in Nat : ~\E g : Upto(g, n)}
<1>1. \A s \in SUBSET D : IsFiniteSet(s) /\ Cardinality(s) \in Nat
  BY FS_Subset, FS_CardinalityType
<1>2. Upto([s \in SUBSET D |-> 0], 0)
  <2>1. \A s \in SUBSET D : Cardinality(s) <= 0 => s = {}
    BY <1>1, FS_EmptySet
  <2>2. QED BY <2>1 DEF Turn
<1>3. ASSUME NEW n \in Nat, NEW g, Upto(g, n)
      PROVE  Upto(More(g), n + 1)
  <2> DEFINE h == More(g)
  <2>1. ASSUME NEW s \in SUBSET D, Cardinality(s) <= n + 1, s # {}
        PROVE  h[s \ {Pick(s)}] = g[s \ {Pick(s)}]
    <3>1. Cardinality(s \ {Pick(s)}) = Cardinality(s) - 1
      BY <1>1, <2>1, PickIsIn, FS_RemoveElement
    <3>2. Cardinality(s \ {Pick(s)}) <= n
      BY <1>1, <2>1, <3>1
    <3>3. QED BY <1>3, <3>2
  <2>2. \A s \in SUBSET D : Cardinality(s) <= n + 1 => h[s] = Turn(h, f, s)
    BY <2>1 DEF Turn
  <2>3. QED BY <2>2
<1>4. Bad = {}
  <2> SUFFICES ASSUME Bad # {} PROVE FALSE
    OBVIOUS
  <2>1. PICK n \in Bad : \A m \in Bad : n <= m
    <3>1. Bad \in SUBSET Nat
      OBVIOUS
    <3> HIDE DEF Bad
    <3>2. QED BY <3>1, LeastNumber
  <2>2. n # 0
    <3>1. \E g : Upto(g, 0)
      <4> DEFINE zero == [s \in SUBSET D |-> 0]
      <4> HIDE DEF Upto, zero
      <4>1. Upto(zero, 0) BY <1>2 DEF zero
      <4>2. QED BY <4>1
    <3> HIDE DEF Upto
    <3>2. 0 \notin Bad
      BY <3>1
    <3> HIDE DEF Bad
    <3>3. QED BY <2>1, <3>2
  <2>3. n - 1 \in Nat /\ n - 1 \notin Bad
    <3>1. n \in Nat
      OBVIOUS
    <3> HIDE DEF Bad
    <3>2. QED BY <2>1, <2>2, <3>1
  <2>4. PICK g : Upto(g, n - 1)
    BY <2>3
  <2>5. Upto(More(g), n)
    <3> HIDE DEF Upto, More
    <3>1. Upto(More(g), (n - 1) + 1)
      BY <1>3, <2>3, <2>4
    <3>2. QED BY <2>1, <3>1
  <2>6. QED BY <2>5
<1>5. PICK g : Upto(g, Cardinality(D))
  BY <1>1, <1>4
<1>6. \A s \in SUBSET D : Cardinality(s) <= Cardinality(D)
  BY FS_Subset
<1>7. QED BY <1>5, <1>6 DEF Solves

\* A solution unfolds.
LEMMA SolutionTurns ==
  ASSUME NEW f, NEW g, Solves(g, f), NEW s \in SUBSET DOMAIN f
  PROVE  g[s] = Turn(g, f, s)
BY DEF Solves

\* Solutions agree where what they fold agrees.
LEMMA SolutionsAgree ==
  ASSUME NEW f, NEW g, Solves(g, f), NEW h, NEW k, Solves(k, h),
         NEW S, IsFiniteSet(S), S \subseteq DOMAIN f, S \subseteq DOMAIN h,
         \A x \in S : f[x] = h[x]
  PROVE  g[S] = k[S]
<1> DEFINE Bad == {T \in SUBSET S : g[T] # k[T]}
<1> SUFFICES ASSUME Bad # {} PROVE FALSE
  OBVIOUS
<1>1. PICK T \in Bad : \A x \in T : (T \ {x}) \notin Bad
  <2>1. Bad \in SUBSET SUBSET S
    OBVIOUS
  <2> HIDE DEF Bad
  <2>2. QED BY <2>1, SmallestSet
<1>2. T \in SUBSET S /\ g[T] # k[T] /\ \A x \in T : g[T \ {x}] = k[T \ {x}]
  BY <1>1
<1>3. T \in SUBSET DOMAIN f /\ T \in SUBSET DOMAIN h
  BY <1>2
<1>4. g[T] = Turn(g, f, T) /\ k[T] = Turn(k, h, T)
  BY <1>3, SolutionTurns
<1>5. T # {} => f[Pick(T)] = h[Pick(T)] /\ g[T \ {Pick(T)}] = k[T \ {Pick(T)}]
  BY <1>2, PickIsIn
<1>6. QED BY <1>2, <1>4, <1>5 DEF Turn

\* A fold stays in any set of numbers that is closed under addition.
LEMMA SolutionStaysIn ==
  ASSUME NEW V \in SUBSET Int, 0 \in V, \A a, b \in V : a + b \in V,
         NEW D, IsFiniteSet(D), NEW f \in [D -> V], NEW g, Solves(g, f)
  PROVE  \A s \in SUBSET D : g[s] \in V
<1> DEFINE Bad == {s \in SUBSET D : g[s] \notin V}
<1> SUFFICES ASSUME Bad # {} PROVE FALSE
  OBVIOUS
<1>1. PICK T \in Bad : \A x \in T : (T \ {x}) \notin Bad
  <2>1. Bad \in SUBSET SUBSET D
    OBVIOUS
  <2> HIDE DEF Bad
  <2>2. QED BY <2>1, SmallestSet
<1>2. T \in SUBSET D /\ g[T] \notin V /\ \A x \in T : g[T \ {x}] \in V
  BY <1>1
<1>3. g[T] = Turn(g, f, T)
  BY <1>2, SolutionTurns
<1>4. T # {} => f[Pick(T)] \in V /\ g[T \ {Pick(T)}] \in V
  BY <1>2, PickIsIn
<1>5. QED BY <1>2, <1>3, <1>4 DEF Turn

\* A fold over integers is an integer.
LEMMA SolutionIsInt ==
  ASSUME NEW D, IsFiniteSet(D), NEW f \in [D -> Int], NEW g, Solves(g, f)
  PROVE  \A s \in SUBSET D : g[s] \in Int
BY SolutionStaysIn

\* Any element may be taken first.
LEMMA SolutionSplits ==
  ASSUME NEW D, IsFiniteSet(D), NEW f \in [D -> Int], NEW g, Solves(g, f)
  PROVE  \A s \in SUBSET D : \A x \in s : g[s] = f[x] + g[s \ {x}]
<1> DEFINE Fine(s) == \A x \in s : g[s] = f[x] + g[s \ {x}]
           Bad == {s \in SUBSET D : ~Fine(s)}
<1> SUFFICES ASSUME Bad # {} PROVE FALSE
  OBVIOUS
<1>1. PICK T \in Bad : \A x \in T : (T \ {x}) \notin Bad
  <2>1. Bad \in SUBSET SUBSET D
    OBVIOUS
  <2> HIDE DEF Bad
  <2>2. QED BY <2>1, SmallestSet
<1>2. T \in SUBSET D /\ ~Fine(T) /\ \A x \in T : Fine(T \ {x})
  <2> HIDE DEF Fine
  <2> QED BY <1>1
<1>3. \A s \in SUBSET D : g[s] = Turn(g, f, s)
  BY SolutionTurns
<1>4. T # {}
  BY <1>2
<1> DEFINE y == Pick(T)
<1>5. y \in T
  BY <1>4, PickIsIn
<1>6. g[T] = f[y] + g[T \ {y}]
  BY <1>2, <1>3, <1>4 DEF Turn
<1> HIDE DEF y
<1>7. ASSUME NEW x \in T PROVE g[T] = f[x] + g[T \ {x}]
  <2>1. CASE x = y BY <1>6, <2>1
  <2>2. CASE x # y
    <3>1. x \in T \ {y} /\ y \in T \ {x}
      BY <1>5, <2>2
    <3>2. g[T \ {y}] = f[x] + g[(T \ {y}) \ {x}]
      BY <1>2, <1>5, <3>1
    <3>3. g[T \ {x}] = f[y] + g[(T \ {x}) \ {y}]
      BY <1>2, <3>1
    <3> DEFINE r == (T \ {y}) \ {x}
    <3>4. r = (T \ {x}) \ {y} /\ r \in SUBSET D
      BY <1>2
    <3>5. f[x] \in Int /\ f[y] \in Int /\ g[r] \in Int
      BY <1>2, <1>5, <3>4, SolutionIsInt
    <3>6. g[T \ {y}] = f[x] + g[r] /\ g[T \ {x}] = f[y] + g[r]
      BY <3>2, <3>3, <3>4
    <3> HIDE DEF r
    <3>7. QED BY <1>6, <3>5, <3>6
  <2>3. QED BY <2>1, <2>2
<1>8. QED BY <1>2, <1>7

\* The sum is the value some solution has for the whole domain.
LEMMA SumSolves ==
  ASSUME NEW D, IsFiniteSet(D), NEW f \in [D -> Int]
  PROVE  \E g : Solves(g, f) /\ SumFunction(f) = g[D]
<1>1. DOMAIN f = D
  OBVIOUS
<1>2. \E g : Solves(g, f)
  BY <1>1, SolutionExists
<1>3. Solves(CHOOSE g : Solves(g, f), f)
  BY <1>2
<1>4. QED BY <1>1, <1>3, SumIsSolution

\* A sum of integers is an integer.
LEMMA SumIsInt ==
  ASSUME NEW D, IsFiniteSet(D), NEW f \in [D -> Int]
  PROVE  SumFunction(f) \in Int
BY SumSolves, SolutionIsInt

\* A sum of natural numbers is one.
LEMMA SumIsNat ==
  ASSUME NEW D, IsFiniteSet(D), NEW f \in [D -> Nat]
  PROVE  SumFunction(f) \in Nat
<1>1. f \in [D -> Int]
  OBVIOUS
<1>2. PICK g : Solves(g, f) /\ SumFunction(f) = g[D]
  BY <1>1, SumSolves
<1>3. \A s \in SUBSET D : g[s] \in Nat
  <2>1. Nat \in SUBSET Int /\ 0 \in Nat /\ \A a, b \in Nat : a + b \in Nat
    OBVIOUS
  <2>2. QED BY <1>2, <2>1, SolutionStaysIn
<1>4. QED BY <1>2, <1>3

\* Nothing adds up to zero.
LEMMA SumOfNone ==
  ASSUME NEW f \in [{} -> Int]
  PROVE  SumFunction(f) = 0
<1>1. PICK g : Solves(g, f) /\ SumFunction(f) = g[{}]
  BY SumSolves, FS_EmptySet
<1>2. QED BY <1>1, SolutionTurns DEF Turn

\* Any element may be taken out.
LEMMA SumSplits ==
  ASSUME NEW D, IsFiniteSet(D), NEW f \in [D -> Int], NEW x \in D
  PROVE  SumFunction(f) = f[x] + SumFunction([y \in D \ {x} |-> f[y]])
<1> DEFINE h == [y \in D \ {x} |-> f[y]]
           S == D \ {x}
<1>1. h \in [S -> Int] /\ IsFiniteSet(S) /\ \A y \in S : h[y] = f[y]
  BY FS_RemoveElement
<1> HIDE DEF h
<1>2. PICK g : Solves(g, f) /\ SumFunction(f) = g[D]
  BY SumSolves
<1>3. PICK k : Solves(k, h) /\ SumFunction(h) = k[S]
  <2> HIDE DEF S
  <2> QED BY <1>1, SumSolves
<1>4. g[S] = k[S]
  BY <1>1, <1>2, <1>3, SolutionsAgree
<1>5. g[D] = f[x] + g[S]
  BY <1>2, SolutionSplits
<1>6. QED BY <1>2, <1>3, <1>4, <1>5 DEF h

\* One number adds up to itself.
LEMMA SumOfOne ==
  ASSUME NEW x, NEW f \in [{x} -> Int]
  PROVE  SumFunction(f) = f[x]
<1>1. SumFunction(f) = f[x] + SumFunction([y \in {x} \ {x} |-> f[y]])
  <2>1. PICK D : D = {x}
    OBVIOUS
  <2>2. IsFiniteSet(D) /\ f \in [D -> Int] /\ x \in D
    BY <2>1, FS_Singleton
  <2>3. SumFunction(f) = f[x] + SumFunction([y \in D \ {x} |-> f[y]])
    BY ONLY <2>2, SumSplits
  <2>4. QED BY <2>1, <2>3
<1>2. [y \in {x} \ {x} |-> f[y]] \in [{} -> Int]
  OBVIOUS
<1>3. SumFunction([y \in {x} \ {x} |-> f[y]]) = 0
  BY <1>2, SumOfNone
<1>4. QED BY <1>1, <1>3

\* A stretch of numbers adds up to all but its last, and its last.
LEMMA SumOfStretch ==
  ASSUME NEW lo \in Int, NEW hi \in Int, lo <= hi, NEW f \in [lo..hi -> Int]
  PROVE  SumFunction(f) = SumFunction([i \in lo..(hi - 1) |-> f[i]]) + f[hi]
<1>1. PICK D : D = lo..hi
  OBVIOUS
<1>2. IsFiniteSet(D) /\ f \in [D -> Int] /\ hi \in D
  BY <1>1, FS_Interval
<1>3. SumFunction(f) = f[hi] + SumFunction([i \in D \ {hi} |-> f[i]])
  BY ONLY <1>2, SumSplits
<1>4. D \ {hi} = lo..(hi - 1)
  BY <1>1
<1>5. [i \in lo..(hi - 1) |-> f[i]] \in [lo..(hi - 1) -> Int] /\ IsFiniteSet(lo..(hi - 1))
  <2>1. \A i \in lo..(hi - 1) : i \in lo..hi
    OBVIOUS
  <2>2. QED BY <2>1, FS_Interval
<1>6. SumFunction([i \in lo..(hi - 1) |-> f[i]]) \in Int
  <2>1. PICK g : g = [i \in lo..(hi - 1) |-> f[i]]
    OBVIOUS
  <2>2. PICK E : E = lo..(hi - 1)
    OBVIOUS
  <2>3. g \in [E -> Int] /\ IsFiniteSet(E)
    BY <1>5, <2>1, <2>2
  <2>4. QED BY <2>1, <2>3, SumIsInt
<1>7. f[hi] \in Int
  BY <1>1, <1>2
<1>8. [i \in D \ {hi} |-> f[i]] = [i \in lo..(hi - 1) |-> f[i]]
  BY <1>4
<1>9. PICK rest : rest = SumFunction([i \in lo..(hi - 1) |-> f[i]])
  OBVIOUS
<1>10. SumFunction(f) = f[hi] + rest
  BY <1>3, <1>8, <1>9
<1>11. SumFunction(f) = rest + f[hi]
  BY <1>6, <1>7, <1>9, <1>10
<1>12. QED BY <1>9, <1>11

\* The same of a part of the domain.
LEMMA SumSplitsOn ==
  ASSUME NEW D, IsFiniteSet(D), NEW f \in [D -> Int], NEW T \in SUBSET D, NEW x \in T
  PROVE  SumFunction([y \in T |-> f[y]]) = f[x] + SumFunction([y \in T \ {x} |-> f[y]])
<1>1. PICK k : k = [y \in T |-> f[y]]
  OBVIOUS
<1>2. IsFiniteSet(T) /\ k \in [T -> Int]
  BY <1>1, FS_Subset
<1>3. SumFunction(k) = k[x] + SumFunction([y \in T \ {x} |-> k[y]])
  BY <1>2, SumSplits
<1>4. k[x] = f[x] /\ [y \in T \ {x} |-> k[y]] = [y \in T \ {x} |-> f[y]]
  BY <1>1
<1>5. QED BY <1>1, <1>3, <1>4

\* A new element adds its value.
LEMMA SumExtends ==
  ASSUME NEW D, IsFiniteSet(D), NEW f \in [D -> Int], NEW x, x \notin D,
         NEW E, E = D \cup {x}, NEW h \in [E -> Int], \A y \in D : h[y] = f[y]
  PROVE  SumFunction(h) = SumFunction(f) + h[x]
<1>1. IsFiniteSet(E) /\ x \in E /\ h \in [E -> Int]
  BY FS_AddElement
<1>2. [y \in E \ {x} |-> h[y]] = f
  OBVIOUS
<1>3. SumFunction(h) = h[x] + SumFunction(f)
  BY <1>1, <1>2, SumSplits
<1>4. h[x] \in Int /\ SumFunction(f) \in Int
  BY <1>1, SumIsInt
<1>5. QED BY <1>3, <1>4

\* One element changes, and the sum by as much.
LEMMA SumChanges ==
  ASSUME NEW D, IsFiniteSet(D), NEW f \in [D -> Int], NEW h \in [D -> Int],
         NEW x \in D, \A y \in D \ {x} : h[y] = f[y]
  PROVE  SumFunction(h) = SumFunction(f) + (h[x] - f[x])
<1> DEFINE r == [y \in D \ {x} |-> f[y]]
<1>1. r = [y \in D \ {x} |-> h[y]]
  OBVIOUS
<1>2. r \in [D \ {x} -> Int] /\ IsFiniteSet(D \ {x})
  BY FS_RemoveElement
<1>3. SumFunction(f) = f[x] + SumFunction(r)
  BY SumSplits
<1>4. SumFunction(h) = h[x] + SumFunction(r)
  BY SumSplits, <1>1
<1> HIDE DEF r
<1>5. f[x] \in Int /\ h[x] \in Int /\ SumFunction(r) \in Int
  BY <1>2, SumIsInt
<1>6. QED BY <1>3, <1>4, <1>5

\* The sum of two functions is the sum of their sums.
LEMMA SumAdds ==
  ASSUME NEW D, IsFiniteSet(D), NEW f \in [D -> Int], NEW h \in [D -> Int]
  PROVE  SumFunction([x \in D |-> f[x] + h[x]]) = SumFunction(f) + SumFunction(h)
<1> DEFINE On(k, T) == [x \in T |-> k[x]]
           s == [x \in D |-> f[x] + h[x]]
           Bad == {T \in SUBSET D :
                     SumFunction(On(s, T)) # SumFunction(On(f, T)) + SumFunction(On(h, T))}
<1>1. s \in [D -> Int] /\ \A x \in D : s[x] = f[x] + h[x]
  OBVIOUS
<1> HIDE DEF s
<1>2. \A T \in SUBSET D :
        /\ IsFiniteSet(T)
        /\ On(f, T) \in [T -> Int] /\ On(h, T) \in [T -> Int] /\ On(s, T) \in [T -> Int]
  BY <1>1, FS_Subset
<1>3. Bad = {}
  <2> SUFFICES ASSUME Bad # {} PROVE FALSE
    OBVIOUS
  <2>1. PICK T \in Bad : \A x \in T : (T \ {x}) \notin Bad
    <3>1. Bad \in SUBSET SUBSET D
      OBVIOUS
    <3> HIDE DEF Bad
    <3>2. QED BY <3>1, SmallestSet
  <2>2. T # {}
    <3> SUFFICES ASSUME T = {} PROVE FALSE
      OBVIOUS
    <3> HIDE DEF On
    <3>1. SumFunction(On(s, T)) = 0 /\ SumFunction(On(f, T)) = 0 /\ SumFunction(On(h, T)) = 0
      BY <1>2, SumOfNone
    <3>2. QED BY <2>1, <3>1
  <2>3. PICK x \in T : TRUE
    BY <2>2
  <2> DEFINE R == T \ {x}
  <2>4. R \in SUBSET D /\ x \in D
    BY <2>1
  <2>5. SumFunction(On(s, R)) = SumFunction(On(f, R)) + SumFunction(On(h, R))
    BY <2>1, <2>3, <2>4
  <2>6. ASSUME NEW k \in [D -> Int]
        PROVE  SumFunction(On(k, T)) = k[x] + SumFunction(On(k, R))
    <3>1. On(k, T) \in [T -> Int] /\ IsFiniteSet(T)
      BY <1>2, <2>1
    <3>2. [y \in T \ {x} |-> On(k, T)[y]] = On(k, R)
      OBVIOUS
    <3>3. On(k, T)[x] = k[x]
      BY <2>3
    <3> HIDE DEF On, R, Bad
    <3>4. SumFunction(On(k, T)) = On(k, T)[x] + SumFunction([y \in T \ {x} |-> On(k, T)[y]])
      BY <2>3, <3>1, SumSplits
    <3>5. QED BY <3>2, <3>3, <3>4
  <2>7. /\ SumFunction(On(s, R)) \in Int /\ SumFunction(On(f, R)) \in Int
        /\ SumFunction(On(h, R)) \in Int
    <3> HIDE DEF On, R
    <3> QED BY <1>2, <2>4, SumIsInt
  <2>8. f[x] \in Int /\ h[x] \in Int /\ s[x] = f[x] + h[x]
    BY <1>1, <2>4
  <2>9. SumFunction(On(s, T)) # SumFunction(On(f, T)) + SumFunction(On(h, T))
    BY <2>1
  <2> HIDE DEF On, R, Bad
  <2>10. QED BY <1>1, <2>5, <2>6, <2>7, <2>8, <2>9
<1>4. On(s, D) = [x \in D |-> f[x] + h[x]] /\ On(f, D) = f /\ On(h, D) = h
  BY <1>1
<1>5. D \notin Bad
  BY <1>3
<1>6. QED BY <1>4, <1>5

\* Where one function stays below another, so does its sum.
LEMMA SumGrows ==
  ASSUME NEW D, IsFiniteSet(D), NEW f \in [D -> Int], NEW h \in [D -> Int],
         \A x \in D : f[x] <= h[x]
  PROVE  SumFunction(f) <= SumFunction(h)
<1> DEFINE r == [x \in D |-> h[x] - f[x]]
<1>1. r \in [D -> Nat] /\ r \in [D -> Int]
  OBVIOUS
<1>2. [x \in D |-> f[x] + r[x]] = h
  OBVIOUS
<1> HIDE DEF r
<1>3. SumFunction(h) = SumFunction(f) + SumFunction(r)
  BY <1>1, <1>2, SumAdds
<1>4. SumFunction(f) \in Int /\ SumFunction(r) \in Nat
  BY <1>1, SumIsInt, SumIsNat
<1>5. QED BY <1>3, <1>4

\* What is zero may be left out.
LEMMA SumOnPart ==
  ASSUME NEW D, IsFiniteSet(D), NEW f \in [D -> Int], NEW S \in SUBSET D,
         \A x \in D \ S : f[x] = 0
  PROVE  SumFunction(f) = SumFunction([x \in S |-> f[x]])
<1> DEFINE On(T) == [x \in T |-> f[x]]
           Rest == D \ S
           Bad == {T \in SUBSET Rest : SumFunction(On(S \cup T)) # SumFunction(On(S))}
<1>1. IsFiniteSet(Rest)
  BY FS_Subset
<1>2. \A T \in SUBSET D : IsFiniteSet(T) /\ On(T) \in [T -> Int]
  BY FS_Subset
<1>3. ASSUME NEW T \in SUBSET D, NEW x \in T
      PROVE  SumFunction(On(T)) = f[x] + SumFunction(On(T \ {x}))
  BY SumSplitsOn
<1>4. Bad = {}
  <2> SUFFICES ASSUME Bad # {} PROVE FALSE
    OBVIOUS
  <2>1. PICK T \in Bad : \A x \in T : (T \ {x}) \notin Bad
    <3>1. Bad \in SUBSET SUBSET Rest
      OBVIOUS
    <3> HIDE DEF Bad, Rest
    <3>2. QED BY <1>1, <3>1, SmallestSet
  <2>2. T # {}
    <3>1. S \cup {} = S
      OBVIOUS
    <3>2. QED BY <2>1, <3>1
  <2>3. PICK x \in T : TRUE
    BY <2>2
  <2> DEFINE W == S \cup T
             R == S \cup (T \ {x})
  <2>4. W \in SUBSET D /\ x \in W /\ W \ {x} = R /\ f[x] = 0 /\ R \in SUBSET D
    BY <2>1, <2>3
  <2>5. SumFunction(On(R)) = SumFunction(On(S))
    BY <2>1, <2>3
  <2>6. SumFunction(On(W)) # SumFunction(On(S))
    BY <2>1
  <2> HIDE DEF On, W, R, Bad
  <2>7. SumFunction(On(W)) = f[x] + SumFunction(On(R))
    BY <1>3, <2>4
  <2>8. SumFunction(On(R)) \in Int
    BY <1>2, <2>4, SumIsInt
  <2>9. QED BY <2>4, <2>5, <2>6, <2>7, <2>8
<1>5. Rest \notin Bad /\ Rest \in SUBSET Rest /\ S \cup Rest = D
  BY <1>4
<1>6. SumFunction(On(S \cup Rest)) = SumFunction(On(S))
  BY <1>5
<1>7. On(D) = f
  OBVIOUS
<1> HIDE DEF Bad
<1>8. QED BY <1>5, <1>6, <1>7

\* What is emptied on a part leaves the sum by as much as that part held.
LEMMA SumEmpties ==
  ASSUME NEW D, IsFiniteSet(D), NEW f \in [D -> Int], NEW S \in SUBSET D,
         NEW h \in [D -> Int], \A x \in D : h[x] = IF x \in S THEN 0 ELSE f[x]
  PROVE  SumFunction(f) = SumFunction(h) + SumFunction([x \in S |-> f[x]])
<1> DEFINE r == [x \in D |-> IF x \in S THEN f[x] ELSE 0]
<1>1. r \in [D -> Int] /\ \A x \in D \ S : r[x] = 0
  OBVIOUS
<1>2. [x \in D |-> h[x] + r[x]] = f
  OBVIOUS
<1>3. [x \in S |-> r[x]] = [x \in S |-> f[x]]
  OBVIOUS
<1> HIDE DEF r
<1>4. SumFunction(f) = SumFunction(h) + SumFunction(r)
  BY <1>1, <1>2, SumAdds
<1>5. SumFunction(r) = SumFunction([x \in S |-> r[x]])
  BY <1>1, SumOnPart
<1>6. QED BY <1>3, <1>4, <1>5

-----------------------------------------------------------------------------
(* Integer division *)

\* A quotient lies between its neighbours.
LEMMA DivBounds ==
  ASSUME NEW a \in Nat, NEW s \in Nat \ {0}
  PROVE  /\ a \div s \in Nat
         /\ s * (a \div s) <= a
         /\ a < s * (a \div s) + s
OBVIOUS

\* Division keeps the order of its numerators.
LEMMA DivMonotone ==
  ASSUME NEW a \in Nat, NEW b \in Nat, NEW s \in Nat \ {0}, a <= b
  PROVE  a \div s <= b \div s
<1> DEFINE q == a \div s
           r == b \div s
<1>1. q \in Nat /\ r \in Nat /\ s * q <= a /\ b < s * r + s
  BY DivBounds
<1> HIDE DEF q, r
<1>2. SUFFICES ASSUME r + 1 <= q PROVE FALSE
  BY <1>1 DEF q, r
<1>3. PICK k \in Nat : q = r + 1 + k
  BY <1>1, <1>2
<1>4. s * q = s * r + s + s * k /\ s * k \in Nat /\ s * r \in Nat
  BY <1>1, <1>3
<1>5. QED BY <1>1, <1>4

\* The rest of a division, and that it keeps the order of numerators with one quotient.
LEMMA ModBounds ==
  ASSUME NEW a \in Nat, NEW s \in Nat \ {0}
  PROVE  a % s \in Nat /\ a = s * (a \div s) + (a % s)
BY Z3

LEMMA ModMonotone ==
  ASSUME NEW a \in Nat, NEW b \in Nat, NEW s \in Nat \ {0}, a <= b, a \div s = b \div s
  PROVE  a % s <= b % s
<1> DEFINE q == s * (a \div s)
<1>1. q \in Nat
  BY DivBounds
<1>2. a = q + (a % s) /\ b = q + (b % s) /\ a % s \in Nat /\ b % s \in Nat
  BY ModBounds
<1> HIDE DEF q
<1>3. QED BY <1>1, <1>2
=============================================================================
