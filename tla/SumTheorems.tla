---------------------------- MODULE SumTheorems ----------------------------
(***************************************************************************)
(* Sums over finite sets, for the proofs that count shares: the sleeves    *)
(* together against the account, the parts of a fill against the fill.     *)
(* The induction they rest on is stated with sets in place of predicates,  *)
(* which the provers can instantiate.                                      *)
(***************************************************************************)
EXTENDS Integers, FiniteSets, Functions, FiniteSetTheorems,
        FunctionTheorems, WellFoundedInduction, TLAPS

-----------------------------------------------------------------------------
(* Induction.                                                              *)

\* Some number of a set of naturals is the least of them.
LEMMA LeastNatural ==
    ASSUME NEW S \in SUBSET Nat, S # {}
    PROVE  \E n \in S : \A m \in S : n <= m
<1> DEFINE R == OpToRel(<, Nat)
<1>1. \A m, n \in Nat : m < n => <<m, n>> \in R
  BY DEF OpToRel
<1>2. IsWellFoundedOn(R, Nat)
  BY NatLessThanWellFounded
<1> HIDE DEF R
<1>3. \E n \in S : \A m \in S : ~ (<<m, n>> \in R)
  BY <1>2, WFMin
<1>4. PICK n \in S : \A m \in S : ~ (<<m, n>> \in R)
  BY <1>3
<1>5. \A m \in S : m \in Nat /\ n \in Nat /\ ~ (m < n)
  BY <1>1, <1>4
<1>6. \A m \in S : n <= m
  BY <1>5
<1> QED
  BY <1>6

\* A set of naturals with zero, and with each number the next one, has them all.
LEMMA NaturalsFromZero ==
    ASSUME NEW H, 0 \in H, \A n \in Nat : n \in H => n + 1 \in H
    PROVE  \A n \in Nat : n \in H
<1> SUFFICES ASSUME NEW k \in Nat, k \notin H
             PROVE  FALSE
  OBVIOUS
<1> DEFINE missing == {n \in Nat : n \notin H}
<1>1. missing \in SUBSET Nat /\ missing # {}
  OBVIOUS
<1>2. PICK n \in missing : \A m \in missing : n <= m
  BY <1>1, LeastNatural
<1>3. n \in Nat /\ n # 0
  OBVIOUS
<1>4. n - 1 \in Nat /\ n - 1 \notin missing
  BY <1>2, <1>3
<1>5. (n - 1) + 1 \in H
  BY <1>4
<1> QED
  BY <1>3, <1>5

\* The subsets of a finite set, built up one element at a time, reach the set.
LEMMA SubsetsFromEmpty ==
    ASSUME NEW S, IsFiniteSet(S), NEW H,
           {} \in H,
           \A T \in SUBSET S : \A x \in S \ T : T \in H => T \cup {x} \in H
    PROVE  S \in H
<1> DEFINE K == {n \in Nat : \A T \in SUBSET S : Cardinality(T) = n => T \in H}
<1>1. 0 \in K
  BY FS_EmptySet, FS_Subset
<1>2. ASSUME NEW n \in Nat, n \in K
      PROVE  n + 1 \in K
  <2> SUFFICES ASSUME NEW T \in SUBSET S, Cardinality(T) = n + 1
               PROVE  T \in H
    OBVIOUS
  <2>0. \A U \in SUBSET S : Cardinality(U) = n => U \in H
    BY <1>2
  <2> HIDE DEF K
  <2>1. IsFiniteSet(T)
    BY FS_Subset
  <2>2. T # {}
    <3>1. Cardinality(T) # 0
      OBVIOUS
    <3> QED
      BY <3>1, FS_EmptySet
  <2>3. PICK x \in T : TRUE
    BY <2>2
  <2>4. Cardinality(T \ {x}) = n
    <3>1. Cardinality(T \ {x}) = Cardinality(T) - 1
      BY <2>1, <2>3, FS_RemoveElement, Zenon
    <3> QED
      BY <3>1
  <2>5. T \ {x} \in H
    BY <2>0, <2>4
  <2>6. x \in S \ (T \ {x}) /\ (T \ {x}) \cup {x} = T
    BY <2>3
  <2> QED
    BY <2>5, <2>6
<1> HIDE DEF K
<1>3. \A n \in Nat : n \in K
  BY <1>1, <1>2, NaturalsFromZero
<1>4. Cardinality(S) \in K
  BY <1>3, FS_CardinalityType
<1> QED
  BY <1>4 DEF K

-----------------------------------------------------------------------------
(* The recursion of a sum.                                                 *)

\* The element a sum starts with, and the function that adds the others.
First(T) == CHOOSE x \in T : TRUE
Adds(g, f, T) == IF T = {} THEN 0 ELSE f[First(T)] + g[T \ {First(T)}]
Sums(f, S) == CHOOSE g : g = [T \in SUBSET S |-> Adds(g, f, T)]

\* The sum of the community module, with its recursion named.
LEMMA SumIsSums ==
    ASSUME NEW f, NEW S
    PROVE  SumFunctionOnSet(f, S) = Sums(f, S)[S]
BY Zenon DEF SumFunctionOnSet, FoldFunctionOnSet, MapThenFoldSet, Sums, Adds,
             First

\* The element a set is taken apart by is one of it.
LEMMA FirstIsIn ==
    ASSUME NEW T, T # {}
    PROVE  First(T) \in T
BY DEF First

\* Such a function exists, so that the sum follows its recursion.
LEMMA SumsStep ==
    ASSUME NEW f, NEW S, IsFiniteSet(S)
    PROVE  \A T \in SUBSET S : Sums(f, S)[T] = Adds(Sums(f, S), f, T)
<1> DEFINE D(n) == {T \in SUBSET S : Cardinality(T) <= n}
           K == {n \in Nat : \E g : g = [T \in D(n) |-> Adds(g, f, T)]}
<1>1. \A T \in SUBSET S : IsFiniteSet(T) /\ Cardinality(T) \in Nat
  BY FS_Subset, FS_CardinalityType
<1>2. 0 \in K
  <2> DEFINE g == [T \in D(0) |-> 0]
  <2>1. \A T \in D(0) : T = {}
    BY <1>1, FS_EmptySet
  <2>2. \A T \in D(0) : Adds(g, f, T) = 0
    BY <2>1, Zenon DEF Adds
  <2>3. g = [T \in D(0) |-> Adds(g, f, T)]
    BY <2>2
  <2> QED
    BY <2>3, Zenon
<1>3. ASSUME NEW n \in Nat, n \in K
      PROVE  n + 1 \in K
  <2>1. PICK g : g = [T \in D(n) |-> Adds(g, f, T)]
    BY <1>3
  <2> DEFINE h == [T \in D(n + 1) |-> Adds(g, f, T)]
  <2>2. \A T \in D(n) : T \in D(n + 1)
    BY <1>1
  <2>3. \A T \in D(n) : h[T] = g[T]
    BY <2>1, <2>2, Zenon
  <2>4. ASSUME NEW T \in D(n + 1), T # {}
        PROVE  T \ {First(T)} \in D(n)
    <3>1. First(T) \in T /\ T \in SUBSET S
      BY <2>4, FirstIsIn
    <3>2. Cardinality(T \ {First(T)}) = Cardinality(T) - 1
      BY <1>1, <3>1, FS_RemoveElement
    <3> QED
      BY <1>1, <2>4, <3>1, <3>2
  <2> HIDE DEF D, h
  <2>5. \A T \in D(n + 1) : Adds(h, f, T) = Adds(g, f, T)
    BY <2>3, <2>4, Zenon DEF Adds
  <2>6. h = [T \in D(n + 1) |-> Adds(h, f, T)]
    BY <2>5, Zenon DEF h
  <2>7. \E k : k = [T \in D(n + 1) |-> Adds(k, f, T)]
    BY <2>6, Zenon
  <2> QED
    BY <2>7
<1> HIDE DEF K
<1>4. Cardinality(S) \in K
  BY <1>2, <1>3, NaturalsFromZero, FS_CardinalityType
<1>5. D(Cardinality(S)) = SUBSET S
  BY FS_Subset
<1> HIDE DEF D
<1>6. \E g : g = [T \in D(Cardinality(S)) |-> Adds(g, f, T)]
  BY <1>4 DEF K
<1>7. \E g : g = [T \in SUBSET S |-> Adds(g, f, T)]
  BY <1>5, <1>6, Zenon
<1> DEFINE sums == Sums(f, S)
<1>8. sums = [T \in SUBSET S |-> Adds(sums, f, T)]
  BY <1>7, Zenon DEF Sums
<1> HIDE DEF sums
<1>9. \A T \in SUBSET S : sums[T] = Adds(sums, f, T)
  BY <1>8, Zenon
<1> QED
  BY <1>9 DEF sums

\* Whatever set it starts from, the function adds up a subset in the same way.
LEMMA SumsAgree ==
    ASSUME NEW f, NEW S, IsFiniteSet(S), NEW U \in SUBSET S
    PROVE  Sums(f, S)[U] = Sums(f, U)[U]
<1> DEFINE K == {n \in Nat : \A T \in SUBSET U :
                   Cardinality(T) = n => Sums(f, S)[T] = Sums(f, U)[T]}
<1>1. IsFiniteSet(U) /\ \A T \in SUBSET U : IsFiniteSet(T) /\ T \in SUBSET S
  BY FS_Subset
<1>2. \A T \in SUBSET U : /\ Sums(f, S)[T] = Adds(Sums(f, S), f, T)
                          /\ Sums(f, U)[T] = Adds(Sums(f, U), f, T)
  BY <1>1, SumsStep
<1>3. 0 \in K
  <2>1. \A T \in SUBSET U : Cardinality(T) = 0 => T = {}
    BY <1>1, FS_EmptySet
  <2>2. \A T \in SUBSET U : Cardinality(T) = 0 => Sums(f, S)[T] = Sums(f, U)[T]
    BY <1>2, <2>1, Zenon DEF Adds
  <2> QED
    BY <2>2
<1>4. ASSUME NEW n \in Nat, n \in K
      PROVE  n + 1 \in K
  <2> SUFFICES ASSUME NEW T \in SUBSET U, Cardinality(T) = n + 1
               PROVE  Sums(f, S)[T] = Sums(f, U)[T]
    OBVIOUS
  <2>0. \A R \in SUBSET U : Cardinality(R) = n => Sums(f, S)[R] = Sums(f, U)[R]
    BY <1>4
  <2> HIDE DEF K
  <2>1. T # {}
    <3>1. Cardinality(T) # 0
      OBVIOUS
    <3> QED
      BY <3>1, FS_EmptySet
  <2>2. First(T) \in T
    BY <2>1, FirstIsIn
  <2> DEFINE R == T \ {First(T)}
  <2>3. Cardinality(R) = n /\ R \in SUBSET U
    <3>1. Cardinality(R) = Cardinality(T) - 1
      BY <1>1, <2>2, FS_RemoveElement, Zenon
    <3> QED
      BY <3>1
  <2>4. Sums(f, S)[R] = Sums(f, U)[R]
    BY <2>0, <2>3
  <2> QED
    BY <1>2, <2>1, <2>4, Zenon DEF Adds
<1> HIDE DEF K
<1>5. Cardinality(U) \in K
  BY <1>1, <1>3, <1>4, NaturalsFromZero, FS_CardinalityType
<1> QED
  BY <1>5 DEF K

\* A sum over nothing is zero; otherwise it is its first element and the rest.
LEMMA SumStarts ==
    ASSUME NEW f, NEW S, IsFiniteSet(S)
    PROVE  /\ S = {} => SumFunctionOnSet(f, S) = 0
           /\ S # {} => /\ First(S) \in S
                        /\ SumFunctionOnSet(f, S) =
                             f[First(S)] + SumFunctionOnSet(f, S \ {First(S)})
<1>1. SumFunctionOnSet(f, S) = Adds(Sums(f, S), f, S)
  BY SumIsSums, SumsStep
<1>2. CASE S = {}
  BY <1>1, <1>2, Zenon DEF Adds
<1>3. CASE S # {}
  <2>1. First(S) \in S
    BY <1>3, FirstIsIn
  <2>2. Sums(f, S)[S \ {First(S)}] = SumFunctionOnSet(f, S \ {First(S)})
    BY SumsAgree, SumIsSums
  <2> QED
    BY <1>1, <1>3, <2>1, <2>2, Zenon DEF Adds
<1> QED
  BY <1>2, <1>3

\* A sum of integers is an integer.
LEMMA SumTyped ==
    ASSUME NEW f, NEW S, IsFiniteSet(S), \A s \in S : f[s] \in Int
    PROVE  SumFunctionOnSet(f, S) \in Int
<1> DEFINE sum(T) == SumFunctionOnSet(f, T)
           K == {n \in Nat : \A T \in SUBSET S : Cardinality(T) = n => sum(T) \in Int}
<1>1. \A T \in SUBSET S : IsFiniteSet(T) /\ Cardinality(T) \in Nat
  BY FS_Subset, FS_CardinalityType
<1>2. \A T \in SUBSET S : T # {} =>
         First(T) \in T /\ sum(T) = f[First(T)] + sum(T \ {First(T)})
  BY <1>1, SumStarts
<1>3. sum({}) = 0
  BY FS_EmptySet, SumStarts
<1> HIDE DEF sum
<1>4. 0 \in K
  BY <1>1, <1>3, FS_EmptySet
<1>5. ASSUME NEW n \in Nat, n \in K
      PROVE  n + 1 \in K
  <2> SUFFICES ASSUME NEW T \in SUBSET S, Cardinality(T) = n + 1
               PROVE  sum(T) \in Int
    OBVIOUS
  <2>1. \A U \in SUBSET S : Cardinality(U) = n => sum(U) \in Int
    BY <1>5
  <2> HIDE DEF K
  <2>2. CASE T = {}
    BY <1>3, <2>2
  <2>3. CASE T # {}
    <3> DEFINE c == First(T)
    <3>1. c \in T /\ sum(T) = f[c] + sum(T \ {c})
      BY <1>2, <2>3
    <3>2. Cardinality(T \ {c}) = Cardinality(T) - 1
      BY <1>1, <3>1, FS_RemoveElement, Zenon
    <3>3. Cardinality(T \ {c}) = n
      BY <3>2
    <3> HIDE DEF c
    <3>4. sum(T \ {c}) \in Int /\ f[c] \in Int
      BY <2>1, <3>1, <3>3
    <3> QED
      BY <3>1, <3>4
  <2> QED
    BY <2>2, <2>3
<1> HIDE DEF K
<1>6. Cardinality(S) \in K
  BY <1>1, <1>4, <1>5, NaturalsFromZero
<1> QED
  BY <1>6 DEF K, sum

\* Any element may be taken out first.
LEMMA SumTakes ==
    ASSUME NEW f, NEW S, IsFiniteSet(S), \A s \in S : f[s] \in Int, NEW z \in S
    PROVE  SumFunctionOnSet(f, S) = f[z] + SumFunctionOnSet(f, S \ {z})
<1> DEFINE sum(T) == SumFunctionOnSet(f, T)
           Takes(T) == \A x \in T : sum(T) = f[x] + sum(T \ {x})
           K == {n \in Nat : \A T \in SUBSET S : Cardinality(T) = n => Takes(T)}
<1>1. \A T \in SUBSET S : IsFiniteSet(T) /\ Cardinality(T) \in Nat
  BY FS_Subset, FS_CardinalityType
<1>2. \A T \in SUBSET S : T # {} =>
         First(T) \in T /\ sum(T) = f[First(T)] + sum(T \ {First(T)})
  BY <1>1, SumStarts
<1>3. \A T \in SUBSET S : sum(T) \in Int
  BY <1>1, SumTyped
<1> HIDE DEF sum
<1>4. 0 \in K
  BY <1>1, FS_EmptySet
<1>5. ASSUME NEW n \in Nat, n \in K
      PROVE  n + 1 \in K
  <2> SUFFICES ASSUME NEW T \in SUBSET S, Cardinality(T) = n + 1, NEW x \in T
               PROVE  sum(T) = f[x] + sum(T \ {x})
    OBVIOUS
  <2>1. \A U \in SUBSET S : Cardinality(U) = n => Takes(U)
    BY <1>5
  <2> HIDE DEF K
  <2>2. \A y \in T : Takes(T \ {y})
    <3> TAKE y \in T
    <3>1. Cardinality(T \ {y}) = Cardinality(T) - 1
      BY <1>1, FS_RemoveElement, Zenon
    <3>2. Cardinality(T \ {y}) = n
      BY <3>1
    <3> QED
      BY <2>1, <3>2, Zenon
  <2> DEFINE c == First(T)
  <2>3. c \in T /\ sum(T) = f[c] + sum(T \ {c})
    BY <1>2
  <2> HIDE DEF c
  <2>4. CASE x = c
    BY <2>3, <2>4
  <2>5. CASE x # c
    <3>1. sum(T \ {c}) = f[x] + sum((T \ {c}) \ {x})
      BY <2>2, <2>3, <2>5
    <3>2. sum(T \ {x}) = f[c] + sum((T \ {x}) \ {c})
      BY <2>2, <2>3, <2>5
    <3>3. (T \ {c}) \ {x} = (T \ {x}) \ {c}
      OBVIOUS
    <3> DEFINE r == sum((T \ {x}) \ {c})
    <3>4. r \in Int /\ f[x] \in Int /\ f[c] \in Int
      BY <1>3, <2>3
    <3>5. sum(T \ {c}) = f[x] + r /\ sum(T \ {x}) = f[c] + r
      BY <3>1, <3>2, <3>3, Zenon
    <3> HIDE DEF r
    <3> QED
      BY <2>3, <3>4, <3>5
  <2> QED
    BY <2>4, <2>5
<1> HIDE DEF K
<1>6. Cardinality(S) \in K
  BY <1>1, <1>4, <1>5, NaturalsFromZero
<1> QED
  BY <1>6 DEF K, sum

-----------------------------------------------------------------------------
(* Rules for sums.                                                         *)

\* The sum over nothing is nothing.
LEMMA SumEmpty ==
    ASSUME NEW f
    PROVE  SumFunctionOnSet(f, {}) = 0
BY FS_EmptySet, SumStarts

\* One element more.
LEMMA SumAdds ==
    ASSUME NEW f, NEW S, IsFiniteSet(S), NEW x, x \notin S,
           \A s \in S \cup {x} : f[s] \in Int
    PROVE  SumFunctionOnSet(f, S \cup {x}) = SumFunctionOnSet(f, S) + f[x]
<1>1. IsFiniteSet(S \cup {x})
  BY FS_AddElement
<1>2. SumFunctionOnSet(f, S \cup {x}) =
        f[x] + SumFunctionOnSet(f, (S \cup {x}) \ {x})
  BY <1>1, SumTakes
<1>3. (S \cup {x}) \ {x} = S
  OBVIOUS
<1>4. SumFunctionOnSet(f, S) \in Int /\ f[x] \in Int
  BY SumTyped
<1>5. SumFunctionOnSet(f, S \cup {x}) = f[x] + SumFunctionOnSet(f, S)
  BY <1>2, <1>3, Zenon
<1> QED
  BY <1>4, <1>5

\* Two functions added up together, element by element.
LEMMA SumPlus ==
    ASSUME NEW S, IsFiniteSet(S), NEW f, NEW g, NEW h,
           \A s \in S : f[s] \in Int /\ g[s] \in Int /\ h[s] = f[s] + g[s]
    PROVE  SumFunctionOnSet(h, S) =
             SumFunctionOnSet(f, S) + SumFunctionOnSet(g, S)
<1> DEFINE sf(T) == SumFunctionOnSet(f, T)
           sg(T) == SumFunctionOnSet(g, T)
           sh(T) == SumFunctionOnSet(h, T)
           H == {T \in SUBSET S : sh(T) = sf(T) + sg(T)}
<1>1. sf({}) = 0 /\ sg({}) = 0 /\ sh({}) = 0
  BY SumEmpty
<1>2. ASSUME NEW T \in SUBSET S, NEW x \in S \ T
      PROVE  /\ sf(T) \in Int /\ sg(T) \in Int
             /\ sf(T \cup {x}) = sf(T) + f[x]
             /\ sg(T \cup {x}) = sg(T) + g[x]
             /\ sh(T \cup {x}) = sh(T) + h[x]
  BY FS_Subset, SumAdds, SumTyped
<1> HIDE DEF sf, sg, sh
<1>3. {} \in H
  BY <1>1
<1>4. ASSUME NEW T \in SUBSET S, NEW x \in S \ T, T \in H
      PROVE  T \cup {x} \in H
  BY <1>2, <1>4
<1> HIDE DEF H
<1>5. S \in H
  BY <1>3, <1>4, SubsetsFromEmpty
<1> QED
  BY <1>5 DEF H, sf, sg, sh

\* Multiplication of a sum, for the steps that need nothing else.
LEMMA Distributes ==
    ASSUME NEW a \in Int, NEW b \in Int, NEW c \in Int
    PROVE  /\ a * (b + c) = a * b + a * c
           /\ a * b = b * a
           /\ a * b \in Int
OBVIOUS

\* A sum of multiples.
LEMMA SumTimes ==
    ASSUME NEW S, IsFiniteSet(S), NEW f, NEW h, NEW c \in Int,
           \A s \in S : f[s] \in Int /\ h[s] = c * f[s]
    PROVE  SumFunctionOnSet(h, S) = c * SumFunctionOnSet(f, S)
<1> DEFINE sf(T) == SumFunctionOnSet(f, T)
           sh(T) == SumFunctionOnSet(h, T)
           H == {T \in SUBSET S : sh(T) = c * sf(T)}
<1>1. sf({}) = 0 /\ sh({}) = 0
  BY SumEmpty
<1>2. ASSUME NEW T \in SUBSET S, NEW x \in S \ T
      PROVE  /\ sf(T) \in Int /\ f[x] \in Int
             /\ sf(T \cup {x}) = sf(T) + f[x]
             /\ sh(T \cup {x}) = sh(T) + c * f[x]
  <2>1. \A s \in S : h[s] \in Int
    OBVIOUS
  <2>2. IsFiniteSet(T)
    BY FS_Subset
  <2>3. sh(T \cup {x}) = sh(T) + h[x]
    BY <2>1, <2>2, SumAdds
  <2> QED
    BY <2>2, <2>3, SumAdds, SumTyped
<1> HIDE DEF sf, sh
<1>3. {} \in H
  BY <1>1
<1>4. ASSUME NEW T \in SUBSET S, NEW x \in S \ T, T \in H
      PROVE  T \cup {x} \in H
  <2>1. sh(T) = c * sf(T) /\ T \cup {x} \in SUBSET S
    BY <1>4
  <2>2. sh(T \cup {x}) = c * sf(T) + c * f[x]
    BY <1>2, <2>1
  <2>3. c * (sf(T) + f[x]) = c * sf(T) + c * f[x]
    <3>1. \A a, b, d \in Int : a * (b + d) = a * b + a * d
      BY Distributes
    <3>2. sf(T) \in Int /\ f[x] \in Int
      BY <1>2
    <3> QED
      BY <3>1, <3>2
  <2>4. sh(T \cup {x}) = c * sf(T \cup {x})
    BY <1>2, <2>2, <2>3, Zenon
  <2> QED
    BY <2>1, <2>4
<1> HIDE DEF H
<1>5. S \in H
  BY <1>3, <1>4, SubsetsFromEmpty
<1> QED
  BY <1>5 DEF H, sf, sh

\* Functions in order, element by element, have their sums in order.
LEMMA SumOrder ==
    ASSUME NEW S, IsFiniteSet(S), NEW f, NEW g,
           \A s \in S : f[s] \in Int /\ g[s] \in Int /\ f[s] <= g[s]
    PROVE  SumFunctionOnSet(f, S) <= SumFunctionOnSet(g, S)
<1> DEFINE sf(T) == SumFunctionOnSet(f, T)
           sg(T) == SumFunctionOnSet(g, T)
           H == {T \in SUBSET S : sf(T) <= sg(T)}
<1>1. sf({}) = 0 /\ sg({}) = 0
  BY SumEmpty
<1>2. ASSUME NEW T \in SUBSET S, NEW x \in S \ T
      PROVE  /\ sf(T) \in Int /\ sg(T) \in Int
             /\ sf(T \cup {x}) = sf(T) + f[x]
             /\ sg(T \cup {x}) = sg(T) + g[x]
  BY FS_Subset, SumAdds, SumTyped
<1> HIDE DEF sf, sg
<1>3. {} \in H
  BY <1>1
<1>4. ASSUME NEW T \in SUBSET S, NEW x \in S \ T, T \in H
      PROVE  T \cup {x} \in H
  BY <1>2, <1>4
<1> HIDE DEF H
<1>5. S \in H
  BY <1>3, <1>4, SubsetsFromEmpty
<1> QED
  BY <1>5 DEF H, sf, sg

\* Functions with the same values have the same sum.
LEMMA SumSame ==
    ASSUME NEW S, IsFiniteSet(S), NEW f, NEW g,
           \A s \in S : f[s] \in Int /\ f[s] = g[s]
    PROVE  SumFunctionOnSet(f, S) = SumFunctionOnSet(g, S)
<1>1. SumFunctionOnSet(f, S) \in Int /\ SumFunctionOnSet(g, S) \in Int
  BY SumTyped
<1>2. SumFunctionOnSet(f, S) <= SumFunctionOnSet(g, S)
  BY SumOrder
<1>3. SumFunctionOnSet(g, S) <= SumFunctionOnSet(f, S)
  BY SumOrder
<1> QED
  BY <1>1, <1>2, <1>3

\* Functions in order whose sums are the same have the same values.
LEMMA SumTight ==
    ASSUME NEW S, IsFiniteSet(S), NEW f, NEW g,
           \A s \in S : f[s] \in Int /\ g[s] \in Int /\ f[s] <= g[s],
           SumFunctionOnSet(f, S) = SumFunctionOnSet(g, S)
    PROVE  \A s \in S : f[s] = g[s]
<1> TAKE x \in S
<1> DEFINE R == S \ {x}
           sf == SumFunctionOnSet(f, R)
           sg == SumFunctionOnSet(g, R)
<1>1. IsFiniteSet(R) /\ \A s \in R : f[s] \in Int /\ g[s] \in Int /\ f[s] <= g[s]
  BY FS_RemoveElement
<1>2. sf <= sg /\ sf \in Int /\ sg \in Int
  BY <1>1, SumOrder, SumTyped
<1>3. SumFunctionOnSet(f, S) = f[x] + sf
  BY SumTakes
<1>4. SumFunctionOnSet(g, S) = g[x] + sg
  BY SumTakes
<1>5. f[x] \in Int /\ g[x] \in Int /\ f[x] <= g[x]
  OBVIOUS
<1>6. f[x] + sf = g[x] + sg
  BY <1>3, <1>4, Zenon
<1>7. \A a, b, m, n \in Int : a <= b /\ m <= n /\ a + m = b + n => a = b
  OBVIOUS
<1> HIDE DEF sf, sg
<1> QED
  BY <1>2, <1>5, <1>6, <1>7

\* Functions that differ at one element.
LEMMA SumChanges ==
    ASSUME NEW S, IsFiniteSet(S), NEW f, NEW g, NEW x \in S,
           \A s \in S : f[s] \in Int /\ g[s] \in Int,
           \A s \in S \ {x} : f[s] = g[s]
    PROVE  SumFunctionOnSet(g, S) = SumFunctionOnSet(f, S) + g[x] - f[x]
<1> DEFINE R == S \ {x}
           rest == SumFunctionOnSet(f, R)
<1>1. IsFiniteSet(R)
  BY FS_RemoveElement
<1>2. \A s \in R : f[s] \in Int /\ f[s] = g[s]
  OBVIOUS
<1>3. SumFunctionOnSet(g, R) = rest /\ rest \in Int
  BY <1>1, <1>2, SumSame, SumTyped
<1>4. SumFunctionOnSet(f, S) = f[x] + rest
  BY SumTakes
<1>5. SumFunctionOnSet(g, S) = g[x] + SumFunctionOnSet(g, R)
  BY SumTakes
<1> HIDE DEF rest, R
<1>6. f[x] \in Int /\ g[x] \in Int
  OBVIOUS
<1> QED
  BY <1>3, <1>4, <1>5, <1>6

\* A sum along an interval, one number more.
LEMMA SumPrefix ==
    ASSUME NEW f, NEW n \in Nat, \A s \in 1 .. n + 1 : f[s] \in Int
    PROVE  /\ SumFunctionOnSet(f, 1 .. n) \in Int
           /\ SumFunctionOnSet(f, 1 .. n + 1) =
                SumFunctionOnSet(f, 1 .. n) + f[n + 1]
<1>1. IsFiniteSet(1 .. n) /\ n + 1 \notin 1 .. n
  BY FS_Interval
<1>2. 1 .. n + 1 = (1 .. n) \cup {n + 1}
  OBVIOUS
<1>3. \A s \in 1 .. n : f[s] \in Int
  OBVIOUS
<1>4. SumFunctionOnSet(f, 1 .. n) \in Int
  BY <1>1, <1>3, SumTyped
<1>5. \A s \in (1 .. n) \cup {n + 1} : f[s] \in Int
  BY <1>2
<1>6. SumFunctionOnSet(f, (1 .. n) \cup {n + 1}) =
        SumFunctionOnSet(f, 1 .. n) + f[n + 1]
  <2> DEFINE T == 1 .. n
             x == n + 1
  <2>1. IsFiniteSet(T) /\ x \notin T /\ \A s \in T \cup {x} : f[s] \in Int
    BY <1>1, <1>5
  <2> HIDE DEF T, x
  <2>2. SumFunctionOnSet(f, T \cup {x}) = SumFunctionOnSet(f, T) + f[x]
    BY <2>1, SumAdds
  <2> QED
    BY <2>2 DEF T, x
<1> QED
  BY <1>2, <1>4, <1>6, Zenon

\* A sum of zeros and ones counts the ones.
LEMMA SumCounts ==
    ASSUME NEW S, IsFiniteSet(S), NEW f, \A s \in S : f[s] \in {0, 1}
    PROVE  SumFunctionOnSet(f, S) = Cardinality({s \in S : f[s] = 1})
<1> DEFINE sf(T) == SumFunctionOnSet(f, T)
           ones(T) == {s \in T : f[s] = 1}
           H == {T \in SUBSET S : sf(T) = Cardinality(ones(T))}
<1>1. sf({}) = 0 /\ Cardinality(ones({})) = 0
  <2>1. ones({}) = {}
    OBVIOUS
  <2> QED
    BY <2>1, SumEmpty, FS_EmptySet
<1>2. ASSUME NEW T \in SUBSET S, NEW x \in S \ T
      PROVE  /\ sf(T) \in Int /\ sf(T \cup {x}) = sf(T) + f[x]
             /\ Cardinality(ones(T \cup {x})) = Cardinality(ones(T)) + f[x]
  <2>1. IsFiniteSet(T) /\ \A s \in S : f[s] \in Int
    BY FS_Subset
  <2>2. IsFiniteSet(ones(T)) /\ Cardinality(ones(T)) \in Nat /\ x \notin ones(T)
    BY <2>1, FS_Subset, FS_CardinalityType
  <2>0. sf(T) \in Int /\ sf(T \cup {x}) = sf(T) + f[x]
    BY <2>1, SumAdds, SumTyped
  <2> HIDE DEF sf
  <2>3. CASE f[x] = 1
    <3>1. ones(T \cup {x}) = ones(T) \cup {x}
      BY <2>3
    <3>2. Cardinality(ones(T) \cup {x}) = Cardinality(ones(T)) + 1
      BY <2>2, FS_AddElement, Zenon
    <3> QED
      BY <2>0, <2>3, <3>1, <3>2
  <2>4. CASE f[x] = 0
    <3>1. ones(T \cup {x}) = ones(T)
      BY <2>4
    <3> QED
      BY <2>0, <2>2, <2>4, <3>1
  <2> QED
    BY <2>3, <2>4
<1> HIDE DEF sf, ones
<1>3. {} \in H
  BY <1>1
<1>4. ASSUME NEW T \in SUBSET S, NEW x \in S \ T, T \in H
      PROVE  T \cup {x} \in H
  <2>1. T \cup {x} \in SUBSET S /\ sf(T) = Cardinality(ones(T))
    BY <1>4
  <2>2. sf(T \cup {x}) = Cardinality(ones(T \cup {x}))
    BY <1>2, <2>1
  <2> QED
    BY <2>1, <2>2
<1> HIDE DEF H
<1>5. S \in H
  BY <1>3, <1>4, SubsetsFromEmpty
<1> QED
  BY <1>5 DEF H, sf, ones

-----------------------------------------------------------------------------
(* Ranks.                                                                  *)

\* The pairs of B are a strict total order of E.
Ranks(E, B) ==
    /\ \A s \in E : <<s, s>> \notin B
    /\ \A r, s, t \in E : <<r, s>> \in B /\ <<s, t>> \in B => <<r, t>> \in B
    /\ \A s, t \in E : s # t => <<s, t>> \in B \/ <<t, s>> \in B

\* The first k elements of E in that order.
Foremost(E, B, k) == {s \in E : Cardinality({t \in E : <<t, s>> \in B}) < k}

\* In a finite set with a strict total order, the pairs of B, as many elements
\* as one asks for have fewer than that many before them: handing out k shares
\* to the first k of a ranking hands out k shares.
LEMMA RanksCount ==
    ASSUME NEW E, IsFiniteSet(E), NEW B, Ranks(E, B), NEW k \in 0 .. Cardinality(E)
    PROVE  Cardinality(Foremost(E, B, k)) = k
<1> DEFINE n == Cardinality(E)
           earlier(s) == {t \in E : <<t, s>> \in B}
           rank == [s \in E |-> Cardinality(earlier(s))]
           first == {s \in E : rank[s] < k}
           front == [s \in first |-> rank[s]]
<1> USE DEF Ranks
<1>1. n \in Nat /\ k \in Nat /\ k <= n
  BY FS_CardinalityType
<1>2. \A s \in E : IsFiniteSet(earlier(s)) /\ Cardinality(earlier(s)) \in Nat
  BY FS_Subset, FS_CardinalityType
<1>3. ASSUME NEW s \in E
      PROVE  Cardinality(earlier(s)) < n
  <2>1. IsFiniteSet(E \ {s}) /\ Cardinality(E \ {s}) = n - 1
    <3>1. Cardinality(E \ {s}) = Cardinality(E) - 1 /\ IsFiniteSet(E \ {s})
      BY FS_RemoveElement, Zenon
    <3> QED
      BY <3>1
  <2>2. earlier(s) \in SUBSET (E \ {s})
    OBVIOUS
  <2>3. Cardinality(earlier(s)) <= Cardinality(E \ {s})
    BY <2>1, <2>2, FS_Subset
  <2> HIDE DEF earlier, n
  <2> QED
    BY <1>1, <1>2, <2>1, <2>3
<1>4. ASSUME NEW s \in E, NEW t \in E, <<s, t>> \in B
      PROVE  Cardinality(earlier(s)) < Cardinality(earlier(t))
  <2>1. s \notin earlier(s) /\ earlier(s) \cup {s} \in SUBSET earlier(t)
    BY <1>4
  <2>2. Cardinality(earlier(s) \cup {s}) = Cardinality(earlier(s)) + 1
    <3> HIDE DEF earlier
    <3> QED
      BY <1>2, <2>1, FS_AddElement, Zenon
  <2>3. Cardinality(earlier(s) \cup {s}) <= Cardinality(earlier(t))
    BY <1>2, <2>1, FS_Subset
  <2> HIDE DEF earlier
  <2> QED
    BY <1>2, <2>2, <2>3
<1>5. rank \in Injection(E, 0 .. n - 1)
  <2>1. rank \in [E -> 0 .. n - 1]
    <3> HIDE DEF earlier, n
    <3> QED
      BY <1>1, <1>2, <1>3
  <2>2. ASSUME NEW s \in E, NEW t \in E, rank[s] = rank[t]
        PROVE  s = t
    <3> HIDE DEF earlier
    <3>1. ~ (rank[s] < rank[t]) /\ ~ (rank[t] < rank[s])
      BY <1>2, <2>2
    <3> QED
      BY <1>4, <3>1
  <2> HIDE DEF rank
  <2> QED
    BY <2>1, <2>2, Fun_IsInj
<1> HIDE DEF rank
<1>6. IsFiniteSet(0 .. n - 1) /\ Cardinality(0 .. n - 1) = n
  <2> HIDE DEF n
  <2> QED
    BY <1>1, FS_Interval
<1>7. \A m \in 0 .. n - 1 : \E s \in E : rank[s] = m
  <2>1. rank \in Surjection(E, 0 .. n - 1)
    BY <1>5, <1>6, FS_Injection
  <2> QED
    BY <2>1 DEF Surjection
<1>8. rank \in [E -> 0 .. n - 1] /\ \A s, t \in E : rank[s] = rank[t] => s = t
  BY <1>5 DEF Injection, IsInjective
<1>9. front \in Bijection(first, 0 .. k - 1)
  <2>1. front \in [first -> 0 .. k - 1]
    BY <1>1, <1>8
  <2>2. \A s, t \in first : front[s] = front[t] => s = t
    BY <1>8
  <2>3. \A m \in 0 .. k - 1 : \E s \in first : front[s] = m
    <3> TAKE m \in 0 .. k - 1
    <3>1. PICK s \in E : rank[s] = m
      BY <1>1, <1>7
    <3>2. s \in first
      BY <3>1
    <3> QED
      BY <3>1, <3>2
  <2> HIDE DEF front, first
  <2> QED
    BY <2>1, <2>2, <2>3, Fun_IsBij
<1>10. Cardinality(first) = k
  <2>1. IsFiniteSet(first)
    BY FS_Subset
  <2>2. ExistsBijection(first, 0 .. k - 1)
    BY <1>9 DEF ExistsBijection
  <2>3. Cardinality(0 .. k - 1) = k
    BY <1>1, FS_Interval
  <2> HIDE DEF first
  <2> QED
    BY <2>1, <2>2, <2>3, FS_Bijection
<1>11. first = Foremost(E, B, k)
  BY DEF rank, Foremost
<1> QED
  BY <1>10, <1>11

=============================================================================
