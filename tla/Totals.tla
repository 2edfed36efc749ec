------------------------------- MODULE Totals --------------------------------
(***************************************************************************)
(* Sums over finite sets, for the proofs: what SumFunctionOnSet and        *)
(* SumFunction of the community modules return.  They are folds, whose     *)
(* recursive function is reasoned about with a smallest counterexample     *)
(* among the subsets of a finite set.                                      *)
(***************************************************************************)
EXTENDS Functions, FiniteSetsExt, FiniteSetTheorems, TLAPS

\* The element that the fold takes out of a set next.
Pick(s) == CHOOSE x \in s : TRUE

\* g is the fold's recursive function for the summands f on the subsets of S.
IsSum(g, f, S) ==
  g = [s \in SUBSET S |-> IF s = {} THEN 0 ELSE f[Pick(s)] + g[s \ {Pick(s)}]]

\* Among the subsets of a finite set with a property, one is the smallest.
LEMMA SmallestSet ==
  ASSUME NEW S, IsFiniteSet(S), NEW Bad \in SUBSET SUBSET S, Bad # {}
  PROVE  \E T \in Bad : \A U \in SUBSET T : U # T => U \notin Bad
<1>1. IsWellFoundedOn(StrictSubsetOrdering(S), FiniteSubsetsOf(S))
  BY FS_StrictSubsetOrderingWellFounded
<1>2. Bad \subseteq FiniteSubsetsOf(S)
  BY FS_FiniteSubsetsOfFinite
<1>3. \E T \in Bad : \A U \in Bad : ~ (<<U, T>> \in StrictSubsetOrdering(S))
  BY <1>1, <1>2, WFMin
<1> QED BY <1>3 DEF StrictSubsetOrdering

\* The smallest number with a property.
LEMMA SmallestNumber ==
  ASSUME NEW m \in Nat, NEW Bad \in SUBSET (0..m), Bad # {}
  PROVE  \E k \in Bad : \A j \in 0..(k - 1) : j \notin Bad
<1> DEFINE Ranges == {0..k : k \in Bad}
<1>1. PICK T \in Ranges : \A U \in SUBSET T : U # T => U \notin Ranges
  <2> HIDE DEF Ranges
  <2>1. Ranges # {} /\ Ranges \in SUBSET SUBSET (0..m)
    <3>1. \A k \in Bad : 0..k \in SUBSET (0..m)
      OBVIOUS
    <3> QED BY <3>1 DEF Ranges
  <2>2. IsFiniteSet(0..m)
    BY FS_Interval
  <2> QED BY <2>1, <2>2, SmallestSet
<1>2. PICK k \in Bad : T = 0..k
  OBVIOUS
<1>3. ASSUME NEW j \in 0..(k - 1), j \in Bad PROVE FALSE
  <2>1. 0..j \in Ranges /\ 0..j \in SUBSET T
    BY <1>2, <1>3
  <2>2. k \in T /\ k \notin 0..j
    BY <1>2, <1>3
  <2>3. 0..j # T
    BY <2>2
  <2> QED BY <1>1, <2>1, <2>3
<1> QED BY <1>3

\* A finite set of integers has a largest element.
LEMMA MaxOf ==
  ASSUME NEW S, IsFiniteSet(S), S # {}, S \subseteq Int
  PROVE  Max(S) \in S /\ \A y \in S : y <= Max(S)
<1> DEFINE Bad == {T \in SUBSET S : T # {} /\ ~ \E x \in T : \A y \in T : x >= y}
<1>1. Bad = {}
  <2> SUFFICES ASSUME Bad # {} PROVE FALSE
    OBVIOUS
  <2>1. PICK T \in Bad : \A U \in SUBSET T : U # T => U \notin Bad
    <3> HIDE DEF Bad
    <3>1. Bad \in SUBSET SUBSET S
      BY DEF Bad
    <3> QED BY <3>1, SmallestSet
  <2>2. PICK x \in T : TRUE
    OBVIOUS
  <2> DEFINE U == T \ {x}
  <2>3. CASE U = {}
    <3>1. \A y \in T : y = x
      BY <2>3
    <3> QED BY <2>2, <3>1
  <2>4. CASE U # {}
    <3>1. U \in SUBSET T /\ U # T /\ U \in SUBSET S
      BY <2>2
    <3>2. PICK m \in U : \A y \in U : m >= y
      BY <2>1, <2>4, <3>1
    <3>3. m \in Int /\ x \in Int /\ m \in T
      BY <2>2
    <3>4. CASE m >= x
      <4>1. \A y \in T : m >= y
        BY <3>2, <3>4
      <4> QED BY <3>3, <4>1
    <3>5. CASE x >= m
      <4>1. ASSUME NEW y \in T PROVE x >= y
        <5>1. CASE y = x
          BY <3>3, <5>1
        <5>2. CASE y # x
          <6>1. m >= y /\ y \in Int
            BY <3>2, <5>2
          <6> QED BY <3>3, <3>5, <6>1
        <5> QED BY <5>1, <5>2
      <4> QED BY <2>2, <4>1
    <3> QED BY <3>3, <3>4, <3>5
  <2> QED BY <2>3, <2>4
<1>2. \E x \in S : \A y \in S : x >= y
  BY <1>1
<1>3. Max(S) \in S /\ \A y \in S : Max(S) >= y
  BY <1>2 DEF Max
<1> QED BY <1>3

\* The values of a function on a finite set.
LEMMA ImageFinite ==
  ASSUME NEW S, IsFiniteSet(S), NEW f, DOMAIN f = S, f = [x \in S |-> f[x]]
  PROVE  IsFiniteSet({f[x] : x \in S})
<1> DEFINE T == {f[x] : x \in S}
<1>1. f \in Surjection(S, T)
  BY DEF Surjection
<1> HIDE DEF T
<1>2. IsFiniteSet(T)
  BY <1>1, FS_Surjection
<1> QED BY <1>2 DEF T

\* The sum is the value of such a function.
LEMMA SumByPicking ==
  ASSUME NEW f, NEW S
  PROVE  SumFunctionOnSet(f, S) = (CHOOSE g : IsSum(g, f, S))[S]
BY DEF SumFunctionOnSet, FoldFunctionOnSet, MapThenFoldSet, IsSum, Pick

\* Two such functions agree where both are defined.
LEMMA SumsAgree ==
  ASSUME NEW f, NEW S, NEW T, IsFiniteSet(S), T \subseteq S,
         NEW g, NEW h, IsSum(g, f, S), IsSum(h, f, T)
  PROVE  g[T] = h[T]
<1> DEFINE Bad == {s \in SUBSET T : g[s] # h[s]}
<1>1. SUFFICES ASSUME Bad # {} PROVE FALSE
  OBVIOUS
<1>2. IsFiniteSet(T)
  BY FS_Subset
<1>3. PICK s \in Bad : \A u \in SUBSET s : u # s => u \notin Bad
  <2> HIDE DEF Bad
  <2>1. Bad \in SUBSET SUBSET T
    BY DEF Bad
  <2> QED BY <1>1, <1>2, <2>1, SmallestSet
<1>4. s \in SUBSET T /\ g[s] # h[s]
  OBVIOUS
<1>5. /\ g[s] = IF s = {} THEN 0 ELSE f[Pick(s)] + g[s \ {Pick(s)}]
      /\ h[s] = IF s = {} THEN 0 ELSE f[Pick(s)] + h[s \ {Pick(s)}]
  BY <1>4 DEF IsSum
<1>6. CASE s = {}
  BY <1>4, <1>5, <1>6
<1>7. CASE s # {}
  <2>1. Pick(s) \in s
    BY <1>7 DEF Pick
  <2>2. s \ {Pick(s)} \in SUBSET s /\ s \ {Pick(s)} # s
    BY <2>1
  <2>3. g[s \ {Pick(s)}] = h[s \ {Pick(s)}]
    BY <1>3, <1>4, <2>2
  <2> QED BY <1>4, <1>5, <1>7, <2>3
<1> QED BY <1>6, <1>7

\* There is such a function for every finite set.
LEMMA SumExists ==
  ASSUME NEW f, NEW S, IsFiniteSet(S)
  PROVE  \E g : IsSum(g, f, S)
<1> DEFINE Bad == {T \in SUBSET S : ~ \E g : IsSum(g, f, T)}
<1>1. SUFFICES ASSUME Bad # {} PROVE FALSE
  OBVIOUS
<1>2. PICK T \in Bad : \A U \in SUBSET T : U # T => U \notin Bad
  <2> HIDE DEF Bad
  <2>1. Bad \in SUBSET SUBSET S
    BY DEF Bad
  <2> QED BY <1>1, <2>1, SmallestSet
<1>3. T \in SUBSET S /\ ~ \E g : IsSum(g, f, T)
  OBVIOUS
<1> DEFINE Of(U) == CHOOSE g : IsSum(g, f, U)
<1>4. ASSUME NEW U \in SUBSET T, U # T
      PROVE  IsSum(Of(U), f, U)
  BY <1>2, <1>3, <1>4
<1> HIDE DEF Of, Bad
<1> DEFINE G == [s \in SUBSET T |->
                   IF s = {} THEN 0 ELSE f[Pick(s)] + Of(s \ {Pick(s)})[s \ {Pick(s)}]]
<1>5. ASSUME NEW s \in SUBSET T, s # T
      PROVE  G[s] = Of(s)[s]
  <2>1. IsSum(Of(s), f, s)
    BY <1>4, <1>5
  <2>2. Of(s)[s] = IF s = {} THEN 0 ELSE f[Pick(s)] + Of(s)[s \ {Pick(s)}]
    BY <2>1 DEF IsSum
  <2>3. CASE s = {}
    BY <2>2, <2>3
  <2>4. CASE s # {}
    <3> DEFINE r == s \ {Pick(s)}
    <3>1. Pick(s) \in s
      BY <2>4 DEF Pick
    <3>2. r \in SUBSET T /\ r # T /\ r \subseteq s
      BY <3>1
    <3>3. IsSum(Of(r), f, r)
      BY <1>4, <3>2
    <3>4. IsFiniteSet(s)
      BY <1>3, FS_Subset
    <3>5. Of(s)[r] = Of(r)[r]
      <4> HIDE DEF r
      <4> QED BY <2>1, <3>2, <3>3, <3>4, SumsAgree
    <3> QED BY <2>2, <2>4, <3>5
  <2> QED BY <2>3, <2>4
<1>6. IsSum(G, f, T)
  <2>1. ASSUME NEW s \in SUBSET T, s # {}
        PROVE  G[s \ {Pick(s)}] = Of(s \ {Pick(s)})[s \ {Pick(s)}]
    <3>1. Pick(s) \in s
      BY <2>1 DEF Pick
    <3>2. s \ {Pick(s)} \in SUBSET T /\ s \ {Pick(s)} # T
      BY <3>1
    <3> QED BY <1>5, <3>2
  <2>2. G = [s \in SUBSET T |-> IF s = {} THEN 0 ELSE f[Pick(s)] + G[s \ {Pick(s)}]]
    BY <2>1
  <2> QED BY <2>2 DEF IsSum
<1> QED BY <1>3, <1>6

-----------------------------------------------------------------------------
(* What the fold computes.                                                  *)

\* The empty sum is zero.
LEMMA SumEmpty ==
  ASSUME NEW f
  PROVE  SumFunctionOnSet(f, {}) = 0
<1>1. \E g : IsSum(g, f, {})
  BY SumExists, FS_EmptySet
<1>2. IsSum(CHOOSE g : IsSum(g, f, {}), f, {})
  BY <1>1
<1> QED BY <1>2, SumByPicking DEF IsSum

\* The fold goes on with the element it picks and the sum of the others.
LEMMA SumPick ==
  ASSUME NEW f, NEW S, IsFiniteSet(S), S # {}
  PROVE  /\ Pick(S) \in S
         /\ SumFunctionOnSet(f, S) = f[Pick(S)] + SumFunctionOnSet(f, S \ {Pick(S)})
<1> DEFINE T == S \ {Pick(S)}
           g == CHOOSE g : IsSum(g, f, S)
           h == CHOOSE h : IsSum(h, f, T)
<1>1. Pick(S) \in S
  BY DEF Pick
<1>2. IsFiniteSet(T) /\ T \subseteq S
  BY FS_Subset
<1>3. IsSum(g, f, S) /\ IsSum(h, f, T)
  <2> HIDE DEF T
  <2> QED BY <1>2, SumExists
<1>4. g[T] = h[T]
  <2> HIDE DEF T, g, h
  <2> QED BY <1>2, <1>3, SumsAgree
<1>5. g[S] = f[Pick(S)] + g[T]
  <2> HIDE DEF g
  <2> QED BY <1>3 DEF IsSum
<1>6. SumFunctionOnSet(f, S) = g[S] /\ SumFunctionOnSet(f, T) = h[T]
  BY SumByPicking
<1> QED BY <1>1, <1>4, <1>5, <1>6

\* A sum of integers is an integer.
LEMMA SumInt ==
  ASSUME NEW f, NEW S, IsFiniteSet(S), \A x \in S : f[x] \in Int
  PROVE  SumFunctionOnSet(f, S) \in Int
<1> DEFINE Bad == {T \in SUBSET S : SumFunctionOnSet(f, T) \notin Int}
<1>1. SUFFICES ASSUME Bad # {} PROVE FALSE
  OBVIOUS
<1>2. PICK T \in Bad : \A U \in SUBSET T : U # T => U \notin Bad
  <2> HIDE DEF Bad
  <2>1. Bad \in SUBSET SUBSET S
    BY DEF Bad
  <2> QED BY <1>1, <2>1, SmallestSet
<1>3. T \in SUBSET S /\ SumFunctionOnSet(f, T) \notin Int
  OBVIOUS
<1>4. T # {}
  BY <1>3, SumEmpty
<1>5. IsFiniteSet(T)
  BY <1>3, FS_Subset
<1>6. /\ Pick(T) \in T
      /\ SumFunctionOnSet(f, T) = f[Pick(T)] + SumFunctionOnSet(f, T \ {Pick(T)})
  BY <1>4, <1>5, SumPick
<1>7. SumFunctionOnSet(f, T \ {Pick(T)}) \in Int
  BY <1>2, <1>3, <1>6
<1> QED BY <1>3, <1>6, <1>7

\* A sum of natural numbers is a natural number.
LEMMA SumNat ==
  ASSUME NEW f, NEW S, IsFiniteSet(S), \A x \in S : f[x] \in Nat
  PROVE  SumFunctionOnSet(f, S) \in Nat
<1> DEFINE Bad == {T \in SUBSET S : SumFunctionOnSet(f, T) \notin Nat}
<1>1. SUFFICES ASSUME Bad # {} PROVE FALSE
  OBVIOUS
<1>2. PICK T \in Bad : \A U \in SUBSET T : U # T => U \notin Bad
  <2> HIDE DEF Bad
  <2>1. Bad \in SUBSET SUBSET S
    BY DEF Bad
  <2> QED BY <1>1, <2>1, SmallestSet
<1>3. T \in SUBSET S /\ SumFunctionOnSet(f, T) \notin Nat
  OBVIOUS
<1>4. T # {}
  BY <1>3, SumEmpty
<1>5. IsFiniteSet(T)
  BY <1>3, FS_Subset
<1>6. /\ Pick(T) \in T
      /\ SumFunctionOnSet(f, T) = f[Pick(T)] + SumFunctionOnSet(f, T \ {Pick(T)})
  BY <1>4, <1>5, SumPick
<1>7. SumFunctionOnSet(f, T \ {Pick(T)}) \in Nat
  BY <1>2, <1>3, <1>6
<1> QED BY <1>3, <1>6, <1>7

\* Equal summands have equal sums.
LEMMA SumSame ==
  ASSUME NEW f, NEW g, NEW S, IsFiniteSet(S), \A x \in S : f[x] = g[x]
  PROVE  SumFunctionOnSet(f, S) = SumFunctionOnSet(g, S)
<1> DEFINE Bad == {T \in SUBSET S : SumFunctionOnSet(f, T) # SumFunctionOnSet(g, T)}
<1>1. SUFFICES ASSUME Bad # {} PROVE FALSE
  OBVIOUS
<1>2. PICK T \in Bad : \A U \in SUBSET T : U # T => U \notin Bad
  <2> HIDE DEF Bad
  <2>1. Bad \in SUBSET SUBSET S
    BY DEF Bad
  <2> QED BY <1>1, <2>1, SmallestSet
<1>3. T \in SUBSET S /\ SumFunctionOnSet(f, T) # SumFunctionOnSet(g, T)
  OBVIOUS
<1>4. T # {}
  BY <1>3, SumEmpty
<1>5. IsFiniteSet(T)
  BY <1>3, FS_Subset
<1>6. /\ Pick(T) \in T
      /\ SumFunctionOnSet(f, T) = f[Pick(T)] + SumFunctionOnSet(f, T \ {Pick(T)})
      /\ SumFunctionOnSet(g, T) = g[Pick(T)] + SumFunctionOnSet(g, T \ {Pick(T)})
  BY <1>4, <1>5, SumPick
<1>7. SumFunctionOnSet(f, T \ {Pick(T)}) = SumFunctionOnSet(g, T \ {Pick(T)})
  BY <1>2, <1>3, <1>6
<1> QED BY <1>3, <1>6, <1>7

\* Any summand may be taken out, whatever the fold would have picked.
LEMMA SumRemove ==
  ASSUME NEW f, NEW S, IsFiniteSet(S), \A x \in S : f[x] \in Int, NEW x \in S
  PROVE  SumFunctionOnSet(f, S) = f[x] + SumFunctionOnSet(f, S \ {x})
<1> DEFINE Total(T) == SumFunctionOnSet(f, T)
           Bad == {T \in SUBSET S : \E y \in T : Total(T) # f[y] + Total(T \ {y})}
<1>1. SUFFICES ASSUME Bad # {} PROVE FALSE
  OBVIOUS
<1>2. PICK T \in Bad : \A U \in SUBSET T : U # T => U \notin Bad
  <2> HIDE DEF Bad
  <2>1. Bad \in SUBSET SUBSET S
    BY DEF Bad
  <2> QED BY <1>1, <2>1, SmallestSet
<1>3. PICK y \in T : Total(T) # f[y] + Total(T \ {y})
  BY <1>2
<1>4. T \in SUBSET S
  OBVIOUS
<1> HIDE DEF Total
<1>5. ASSUME NEW U \in SUBSET S, U # {}
      PROVE  Pick(U) \in U /\ Total(U) = f[Pick(U)] + Total(U \ {Pick(U)})
  BY <1>5, SumPick, FS_Subset DEF Total
<1>6. ASSUME NEW U \in SUBSET S
      PROVE  Total(U) \in Int
  BY <1>6, SumInt, FS_Subset DEF Total
<1>7. ASSUME NEW U \in SUBSET T, U # T, NEW z \in U
      PROVE  Total(U) = f[z] + Total(U \ {z})
  BY <1>2, <1>4, <1>7
<1> HIDE DEF Bad
<1> DEFINE p == Pick(T)
<1>8. p \in T /\ Total(T) = f[p] + Total(T \ {p})
  BY <1>3, <1>4, <1>5
<1>9. p # y
  BY <1>3, <1>8
<1>10. Total(T \ {p}) = f[y] + Total((T \ {p}) \ {y})
  <2> HIDE DEF p
  <2> QED BY <1>3, <1>7, <1>8, <1>9
<1>11. Total(T \ {y}) = f[p] + Total((T \ {y}) \ {p})
  <2> HIDE DEF p
  <2> QED BY <1>3, <1>7, <1>8, <1>9
<1>12. (T \ {p}) \ {y} = (T \ {y}) \ {p}
  OBVIOUS
<1>13. Total((T \ {p}) \ {y}) = Total((T \ {y}) \ {p})
  BY <1>12
<1>14. f[p] \in Int /\ f[y] \in Int /\ Total((T \ {p}) \ {y}) \in Int
  <2> HIDE DEF p
  <2> QED BY <1>3, <1>4, <1>6, <1>8
<1>15. f[p] + (f[y] + Total((T \ {p}) \ {y})) = f[y] + (f[p] + Total((T \ {y}) \ {p}))
  <2> HIDE DEF p
  <2> QED BY <1>13, <1>14
<1> HIDE DEF p
<1> QED BY <1>3, <1>8, <1>10, <1>11, <1>15

\* A new element adds its summand.
LEMMA SumAdd ==
  ASSUME NEW f, NEW S, IsFiniteSet(S), NEW x, x \notin S,
         \A y \in S \cup {x} : f[y] \in Int
  PROVE  SumFunctionOnSet(f, S \cup {x}) = f[x] + SumFunctionOnSet(f, S)
<1>1. IsFiniteSet(S \cup {x})
  BY FS_AddElement
<1>2. (S \cup {x}) \ {x} = S
  OBVIOUS
<1> DEFINE T == S \cup {x}
<1>3. x \in T /\ \A y \in T : f[y] \in Int
  OBVIOUS
<1>4. SumFunctionOnSet(f, T) = f[x] + SumFunctionOnSet(f, T \ {x})
  <2> HIDE DEF T
  <2> QED BY <1>1, <1>3, SumRemove DEF T
<1> QED BY <1>2, <1>4

\* When one summand changes, the sum changes by the difference.
LEMMA SumChange ==
  ASSUME NEW f, NEW g, NEW S, IsFiniteSet(S), NEW x \in S,
         \A y \in S : f[y] \in Int /\ g[y] \in Int,
         \A y \in S \ {x} : g[y] = f[y]
  PROVE  SumFunctionOnSet(g, S) = SumFunctionOnSet(f, S) + g[x] - f[x]
<1>1. IsFiniteSet(S \ {x})
  BY FS_RemoveElement
<1>2. SumFunctionOnSet(g, S \ {x}) = SumFunctionOnSet(f, S \ {x})
  BY <1>1, SumSame
<1>3. SumFunctionOnSet(f, S \ {x}) \in Int
  BY <1>1, SumInt
<1>4. /\ SumFunctionOnSet(f, S) = f[x] + SumFunctionOnSet(f, S \ {x})
      /\ SumFunctionOnSet(g, S) = g[x] + SumFunctionOnSet(g, S \ {x})
  BY SumRemove
<1> QED BY <1>2, <1>3, <1>4

-----------------------------------------------------------------------------
(* The same for the sum of a function over its whole domain.                *)

\* The sum of an integer function is an integer.
LEMMA TotalInt ==
  ASSUME NEW S, IsFiniteSet(S), NEW f \in [S -> Int]
  PROVE  SumFunction(f) \in Int
<1>1. DOMAIN f = S /\ \A x \in S : f[x] \in Int
  OBVIOUS
<1> QED BY <1>1, SumInt DEF SumFunction

\* The sum of a function of natural numbers is one.
LEMMA TotalNat ==
  ASSUME NEW S, IsFiniteSet(S), NEW f \in [S -> Nat]
  PROVE  SumFunction(f) \in Nat
<1>1. DOMAIN f = S /\ \A x \in S : f[x] \in Nat
  OBVIOUS
<1> QED BY <1>1, SumNat DEF SumFunction

\* When one value of a function changes, its sum changes by the difference.
LEMMA TotalChange ==
  ASSUME NEW S, IsFiniteSet(S), NEW f \in [S -> Int], NEW g \in [S -> Int], NEW x \in S,
         \A y \in S \ {x} : g[y] = f[y]
  PROVE  SumFunction(g) = SumFunction(f) + g[x] - f[x]
<1>1. DOMAIN f = S /\ DOMAIN g = S /\ \A y \in S : f[y] \in Int /\ g[y] \in Int
  OBVIOUS
<1> QED BY <1>1, SumChange DEF SumFunction

\* The sum of a function that is zero everywhere is zero.
LEMMA TotalZero ==
  ASSUME NEW S, IsFiniteSet(S), NEW f, f = [x \in S |-> 0]
  PROVE  SumFunction(f) = 0
<1> DEFINE Bad == {T \in SUBSET S : SumFunctionOnSet(f, T) # 0}
<1>1. SUFFICES ASSUME Bad # {} PROVE FALSE
  <2>1. S \in SUBSET S /\ DOMAIN f = S
    OBVIOUS
  <2> QED BY <2>1 DEF SumFunction
<1>2. PICK T \in Bad : \A U \in SUBSET T : U # T => U \notin Bad
  <2> HIDE DEF Bad
  <2>1. Bad \in SUBSET SUBSET S
    BY DEF Bad
  <2> QED BY <1>1, <2>1, SmallestSet
<1>3. T \in SUBSET S /\ SumFunctionOnSet(f, T) # 0
  OBVIOUS
<1>4. T # {}
  BY <1>3, SumEmpty
<1>5. IsFiniteSet(T)
  BY <1>3, FS_Subset
<1>6. /\ Pick(T) \in T
      /\ SumFunctionOnSet(f, T) = f[Pick(T)] + SumFunctionOnSet(f, T \ {Pick(T)})
  BY <1>4, <1>5, SumPick
<1>7. SumFunctionOnSet(f, T \ {Pick(T)}) = 0 /\ f[Pick(T)] = 0
  BY <1>2, <1>3, <1>6
<1> QED BY <1>3, <1>6, <1>7

\* Negated summands have the negated sum.
LEMMA TotalNegated ==
  ASSUME NEW S, IsFiniteSet(S), NEW f \in [S -> Int]
  PROVE  SumFunction([x \in S |-> - f[x]]) = - SumFunction(f)
<1> DEFINE g == [x \in S |-> - f[x]]
           Bad == {T \in SUBSET S : SumFunctionOnSet(g, T) # - SumFunctionOnSet(f, T)}
<1>1. SUFFICES ASSUME Bad # {} PROVE FALSE
  <2>1. S \in SUBSET S /\ DOMAIN f = S /\ DOMAIN g = S
    OBVIOUS
  <2> QED BY <2>1 DEF SumFunction
<1>2. PICK T \in Bad : \A U \in SUBSET T : U # T => U \notin Bad
  <2> HIDE DEF Bad
  <2>1. Bad \in SUBSET SUBSET S
    BY DEF Bad
  <2> QED BY <1>1, <2>1, SmallestSet
<1>3. T \in SUBSET S /\ SumFunctionOnSet(g, T) # - SumFunctionOnSet(f, T)
  OBVIOUS
<1>4. \A x \in S : f[x] \in Int /\ g[x] = - f[x]
  OBVIOUS
<1>5. T # {}
  <2>1. SumFunctionOnSet(g, {}) = 0 /\ SumFunctionOnSet(f, {}) = 0
    BY SumEmpty
  <2> HIDE DEF g, Bad
  <2> QED BY <1>3, <2>1
<1> DEFINE R == T \ {Pick(T)}
<1>6. IsFiniteSet(T) /\ IsFiniteSet(R)
  BY <1>3, FS_Subset
<1>7. /\ Pick(T) \in T
      /\ SumFunctionOnSet(f, T) = f[Pick(T)] + SumFunctionOnSet(f, R)
      /\ SumFunctionOnSet(g, T) = g[Pick(T)] + SumFunctionOnSet(g, R)
  BY <1>5, <1>6, SumPick
<1>8. SumFunctionOnSet(g, R) = - SumFunctionOnSet(f, R)
  BY <1>2, <1>3, <1>7
<1>9. SumFunctionOnSet(f, R) \in Int
  BY <1>3, <1>4, <1>6, SumInt
<1> HIDE DEF g, R, Bad
<1> QED BY <1>3, <1>4, <1>7, <1>8, <1>9

\* The sum of a function of natural numbers covers each of its values.
LEMMA TotalCovers ==
  ASSUME NEW S, IsFiniteSet(S), NEW f \in [S -> Nat], NEW x \in S
  PROVE  SumFunction(f) \in Nat /\ SumFunction(f) >= f[x]
<1>1. DOMAIN f = S /\ \A y \in S : f[y] \in Nat /\ f[y] \in Int
  OBVIOUS
<1>2. IsFiniteSet(S \ {x})
  BY FS_RemoveElement
<1>3. SumFunctionOnSet(f, S \ {x}) \in Nat /\ SumFunctionOnSet(f, S) \in Nat
  BY <1>1, <1>2, SumNat
<1>4. SumFunctionOnSet(f, S) = f[x] + SumFunctionOnSet(f, S \ {x})
  BY <1>1, SumRemove
<1> QED BY <1>1, <1>3, <1>4 DEF SumFunction

\* The sum over two sets that have nothing in common.
LEMMA SumUnion ==
  ASSUME NEW f, NEW S, NEW T, IsFiniteSet(S), IsFiniteSet(T), S \cap T = {},
         \A x \in S \cup T : f[x] \in Int
  PROVE  SumFunctionOnSet(f, S \cup T) = SumFunctionOnSet(f, S) + SumFunctionOnSet(f, T)
<1> DEFINE Total(U) == SumFunctionOnSet(f, U)
           Bad == {U \in SUBSET T : Total(S \cup U) # Total(S) + Total(U)}
<1>1. SUFFICES ASSUME Bad # {} PROVE FALSE
  OBVIOUS
<1>2. PICK U \in Bad : \A V \in SUBSET U : V # U => V \notin Bad
  <2> HIDE DEF Bad
  <2>1. Bad \in SUBSET SUBSET T
    BY DEF Bad
  <2> QED BY <1>1, <2>1, SmallestSet
<1>3. U \in SUBSET T /\ Total(S \cup U) # Total(S) + Total(U)
  OBVIOUS
<1>4. IsFiniteSet(U) /\ Total(S) \in Int
  BY <1>3, FS_Subset, SumInt
<1>5. U # {}
  <2> SUFFICES ASSUME U = {} PROVE FALSE
    OBVIOUS
  <2>1. S \cup U = S /\ Total(U) = 0
    BY SumEmpty
  <2> HIDE DEF Total
  <2> QED BY <1>3, <1>4, <2>1
<1>6. PICK x \in U : TRUE
  BY <1>5
<1> DEFINE V == U \ {x}
<1>7. Total(S \cup V) = Total(S) + Total(V)
  <2>1. V \in SUBSET U /\ V # U /\ V \in SUBSET T
    BY <1>3, <1>6
  <2> QED BY <1>2, <2>1
<1>8. Total(U) = f[x] + Total(V)
  BY <1>3, <1>4, <1>6, SumRemove
<1>9. Total(S \cup U) = f[x] + Total(S \cup V)
  <2> DEFINE W == S \cup U
  <2>1. IsFiniteSet(W)
    BY <1>4, FS_Union
  <2>2. x \in W /\ W \ {x} = S \cup V /\ \A y \in W : f[y] \in Int
    BY <1>3, <1>6
  <2> HIDE DEF W, V
  <2>3. Total(W) = f[x] + Total(W \ {x})
    BY <2>1, <2>2, SumRemove
  <2> QED BY <2>2, <2>3 DEF W
<1>10. f[x] \in Int /\ Total(V) \in Int
  <2>1. IsFiniteSet(V) /\ \A y \in V : f[y] \in Int
    BY <1>3, <1>4, FS_Subset
  <2> HIDE DEF V
  <2> QED BY <1>3, <1>6, <2>1, SumInt
<1> HIDE DEF Total, V
<1> QED BY <1>3, <1>4, <1>7, <1>8, <1>9, <1>10

\* More summands, none of them negative, do not make a sum smaller.
LEMMA SumGrows ==
  ASSUME NEW f, NEW S, IsFiniteSet(S), NEW T \in SUBSET S, \A x \in S : f[x] \in Nat
  PROVE  /\ SumFunctionOnSet(f, T) \in Nat /\ SumFunctionOnSet(f, S) \in Nat
         /\ SumFunctionOnSet(f, T) <= SumFunctionOnSet(f, S)
<1> DEFINE U == S \ T
<1>1. IsFiniteSet(T) /\ IsFiniteSet(U) /\ T \cap U = {} /\ T \cup U = S
  BY FS_Subset
<1>2. (\A x \in T : f[x] \in Nat) /\ (\A x \in U : f[x] \in Nat) /\ \A x \in S : f[x] \in Int
  OBVIOUS
<1> HIDE DEF U
<1>3. SumFunctionOnSet(f, S) = SumFunctionOnSet(f, T) + SumFunctionOnSet(f, U)
  BY <1>1, <1>2, SumUnion
<1>4. SumFunctionOnSet(f, T) \in Nat /\ SumFunctionOnSet(f, U) \in Nat
  BY <1>1, <1>2, SumNat
<1> QED BY <1>3, <1>4
=============================================================================
