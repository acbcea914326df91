--------------------------- MODULE NumberTheorems ---------------------------
(***************************************************************************)
(* What the proofs need of the community modules' Min of a set of natural  *)
(* numbers and SumFunctionOnSet of natural numbers over a finite set.      *)
(*                                                                         *)
(* Both rest on the least counterexample that a well-founded order gives:  *)
(* a set of natural numbers that has a member has a least one.             *)
(***************************************************************************)
EXTENDS Integers, FiniteSetsExt, Functions, FiniteSetTheorems, WellFoundedInduction, TLAPS

-----------------------------------------------------------------------------
(* The least of a set of natural numbers.                                  *)

\* The library's order relation is the order of the natural numbers.
LEMMA LessIsWellFounded == IsWellFoundedOn(OpToRel(<, Nat), Nat)
BY NatLessThanWellFounded, Zenon

\* It relates the pairs of numbers in order.
LEMMA LessPairs == \A x, y \in Nat : x < y => <<x, y>> \in OpToRel(<, Nat)
BY Zenon DEF OpToRel

\* A set of numbers has a minimal element for a well-founded order.
LEMMA Minimal ==
    ASSUME NEW R, NEW T, IsWellFoundedOn(R, Nat), T \subseteq Nat, T # {}
    PROVE  \E x \in T : \A y \in T : <<y, x>> \notin R
BY WFMin

\* A set of numbers that has a member has a least one.
LEMMA LeastNumber ==
    ASSUME NEW S, S \subseteq Nat, S # {}
    PROVE  \E x \in S : \A y \in S : x <= y
<1>1. PICK R : IsWellFoundedOn(R, Nat) /\ \A x, y \in Nat : x < y => <<x, y>> \in R
  BY LessIsWellFounded, LessPairs, Zenon
<1>2. PICK x \in S : \A y \in S : <<y, x>> \notin R BY <1>1, Minimal
<1>3. \A y \in S : x <= y
  <2> TAKE y \in S
  <2>1. x \in Nat /\ y \in Nat OBVIOUS
  <2>2. ~(y < x) BY <1>1, <1>2, <2>1, Zenon
  <2> QED BY <2>1, <2>2
<1> QED BY <1>3

\* Min is the least member.
LEMMA MinFacts ==
    ASSUME NEW S, S \subseteq Nat, S # {}
    PROVE  Min(S) \in S /\ \A y \in S : Min(S) <= y
BY LeastNumber, Zenon DEF Min

\* Induction on a natural number, for the members of a set.
LEMMA Induction ==
    ASSUME NEW P, 0 \in P, \A n \in Nat : n \in P => n + 1 \in P
    PROVE  Nat \subseteq P
<1> SUFFICES ASSUME Nat \ P # {} PROVE FALSE OBVIOUS
<1>1. PICK n \in Nat \ P : \A m \in Nat \ P : n <= m BY LeastNumber
<1>2. n # 0 OBVIOUS
<1>3. n - 1 \in Nat /\ ~(n <= n - 1) /\ n - 1 + 1 = n BY <1>2
<1>4. n - 1 \in P BY <1>1, <1>3
<1> QED BY <1>3, <1>4

-----------------------------------------------------------------------------
(* The sum of a function over a finite set.                                *)

\* The member by which the fold takes a set apart
Chosen(s) == CHOOSE x \in s : TRUE

\* g sums f over the members of Q, a set of finite sets
Sums(g, f, Q) == g = [s \in Q |-> IF s = {} THEN 0 ELSE f[Chosen(s)] + g[s \ {Chosen(s)}]]

\* g sums f over the subsets of S
AllSums(g, f, S) == Sums(g, f, SUBSET S)

\* The members of S taken n at a time, or fewer
Layer(S, n) == {s \in SUBSET S : Cardinality(s) <= n}

\* A set that is not empty is its chosen member and the rest.
LEMMA TakeApart ==
    ASSUME NEW s, IsFiniteSet(s), s # {}
    PROVE  /\ Chosen(s) \in s
           /\ IsFiniteSet(s \ {Chosen(s)})
           /\ Cardinality(s) \in Nat \ {0}
           /\ Cardinality(s \ {Chosen(s)}) = Cardinality(s) - 1
<1>1. Chosen(s) \in s BY Zenon DEF Chosen
<1>2. Cardinality(s) \in Nat /\ Cardinality(s) # 0 BY FS_CardinalityType, FS_EmptySet
<1> QED BY <1>1, <1>2, FS_RemoveElement

\* Cardinality counts the members of a finite set that has a given one.
LEMMA Remove ==
    ASSUME NEW s, IsFiniteSet(s), NEW x \in s
    PROVE  /\ IsFiniteSet(s \ {x})
           /\ Cardinality(s) \in Nat \ {0}
           /\ Cardinality(s \ {x}) = Cardinality(s) - 1
<1>1. Cardinality(s) \in Nat /\ Cardinality(s) # 0 BY FS_CardinalityType, FS_EmptySet
<1> QED BY <1>1, FS_RemoveElement

\* The fold sums over every layer of a finite set.
LEMMA LayersHaveSums ==
    ASSUME NEW f, NEW S, IsFiniteSet(S)
    PROVE  \A n \in Nat : \E g : Sums(g, f, Layer(S, n))
<1> DEFINE P == {n \in Nat : \E g : Sums(g, f, Layer(S, n))}
<1>1. \A s \in SUBSET S : IsFiniteSet(s) /\ Cardinality(s) \in Nat BY FS_Subset, FS_CardinalityType
<1>2. 0 \in P
  <2>1. \A s \in Layer(S, 0) : s = {}
    <3> SUFFICES ASSUME NEW s \in Layer(S, 0), s # {} PROVE FALSE OBVIOUS
    <3>1. s \in SUBSET S /\ Cardinality(s) <= 0 BY DEF Layer
    <3>2. Cardinality(s) \in Nat \ {0} BY <1>1, <3>1, TakeApart
    <3> QED BY <3>1, <3>2
  <2> DEFINE g == [s \in Layer(S, 0) |-> 0]
  <2>2. Sums(g, f, Layer(S, 0)) BY <2>1 DEF Sums
  <2> QED BY <2>2
<1>3. ASSUME NEW n \in Nat, n \in P PROVE n + 1 \in P
  <2>1. PICK g : Sums(g, f, Layer(S, n)) BY <1>3
  <2> DEFINE h == [s \in Layer(S, n + 1) |-> IF s = {} THEN 0 ELSE f[Chosen(s)] + g[s \ {Chosen(s)}]]
  <2>2. ASSUME NEW s \in Layer(S, n + 1), s # {} PROVE h[s \ {Chosen(s)}] = g[s \ {Chosen(s)}]
    <3> DEFINE t == s \ {Chosen(s)}
    <3>1. s \in SUBSET S /\ Cardinality(s) <= n + 1 BY DEF Layer
    <3>2. /\ Cardinality(s) \in Nat /\ Cardinality(t) = Cardinality(s) - 1
      BY <1>1, <2>2, <3>1, TakeApart
    <3>3. t \in SUBSET S /\ Cardinality(t) <= n /\ Cardinality(t) <= n + 1 BY <3>1, <3>2
    <3>4. t \in Layer(S, n) /\ t \in Layer(S, n + 1) BY <3>3 DEF Layer
    <3> HIDE DEF t
    <3>5. g[t] = IF t = {} THEN 0 ELSE f[Chosen(t)] + g[t \ {Chosen(t)}] BY <2>1, <3>4 DEF Sums
    <3>6. h[t] = IF t = {} THEN 0 ELSE f[Chosen(t)] + g[t \ {Chosen(t)}] BY <3>4
    <3>7. h[t] = g[t] BY <3>5, <3>6
    <3> QED BY <3>7 DEF t
  <2>3. h = [s \in Layer(S, n + 1) |-> IF s = {} THEN 0 ELSE f[Chosen(s)] + h[s \ {Chosen(s)}]]
    <3>1. \A s \in Layer(S, n + 1) :
             (IF s = {} THEN 0 ELSE f[Chosen(s)] + g[s \ {Chosen(s)}])
                = (IF s = {} THEN 0 ELSE f[Chosen(s)] + h[s \ {Chosen(s)}])
      BY <2>2
    <3> DEFINE k == [s \in Layer(S, n + 1) |-> IF s = {} THEN 0 ELSE f[Chosen(s)] + h[s \ {Chosen(s)}]]
    <3>2. h = [s \in Layer(S, n + 1) |-> h[s]] /\ k = [s \in Layer(S, n + 1) |-> k[s]] OBVIOUS
    <3>3. \A s \in Layer(S, n + 1) : h[s] = k[s] BY <3>1
    <3> QED BY <3>2, <3>3, Zenon
  <2>4. Sums(h, f, Layer(S, n + 1)) BY <2>3, Zenon DEF Sums
  <2> HIDE DEF h
  <2> QED BY <2>4
<1>4. Nat \subseteq P BY <1>2, <1>3, Induction
<1> QED BY <1>4

\* The fold over a finite set is the sum over its subsets.
LEMMA FoldSums ==
    ASSUME NEW f, NEW S, IsFiniteSet(S)
    PROVE  \E g : AllSums(g, f, S) /\ SumFunctionOnSet(f, S) = g[S]
<1>1. Cardinality(S) \in Nat BY FS_CardinalityType
<1>2. Layer(S, Cardinality(S)) = SUBSET S
  <2>1. \A s \in SUBSET S : Cardinality(s) <= Cardinality(S) BY FS_Subset
  <2> QED BY <2>1 DEF Layer
<1>3. \E g : Sums(g, f, Layer(S, Cardinality(S))) BY <1>1, LayersHaveSums, Zenon
<1>4. \E g : Sums(g, f, SUBSET S) BY <1>2, <1>3, Zenon
<1>5. SumFunctionOnSet(f, S) = (CHOOSE g : Sums(g, f, SUBSET S))[S]
  BY DEF SumFunctionOnSet, FoldFunctionOnSet, MapThenFoldSet, Sums, Chosen
<1> QED BY <1>4, <1>5, Zenon DEF AllSums

\* Two sums of one function agree on the finite sets both are defined for.
LEMMA SumsAgree ==
    ASSUME NEW f, NEW S, NEW T, IsFiniteSet(S), NEW g, AllSums(g, f, S), NEW h, AllSums(h, f, T)
    PROVE  \A s : s \in SUBSET S /\ s \in SUBSET T => g[s] = h[s]
<1> DEFINE Both(n) == \A s \in SUBSET S : s \in SUBSET T /\ Cardinality(s) = n => g[s] = h[s]
           P == {n \in Nat : Both(n)}
<1>1. \A s \in SUBSET S : IsFiniteSet(s) /\ Cardinality(s) \in Nat BY FS_Subset, FS_CardinalityType
<1>2. \A s \in SUBSET S : g[s] = IF s = {} THEN 0 ELSE f[Chosen(s)] + g[s \ {Chosen(s)}] BY DEF Sums, AllSums
<1>3. \A s \in SUBSET T : h[s] = IF s = {} THEN 0 ELSE f[Chosen(s)] + h[s \ {Chosen(s)}] BY DEF Sums, AllSums
<1>4. 0 \in P
  <2> SUFFICES ASSUME NEW s \in SUBSET S, s \in SUBSET T, Cardinality(s) = 0 PROVE g[s] = h[s] OBVIOUS
  <2>1. s = {} BY <1>1, FS_EmptySet
  <2> QED BY <1>2, <1>3, <2>1
<1>5. ASSUME NEW n \in Nat, n \in P PROVE n + 1 \in P
  <2> SUFFICES ASSUME NEW s \in SUBSET S, s \in SUBSET T, Cardinality(s) = n + 1 PROVE g[s] = h[s] OBVIOUS
  <2>1. s # {} BY <1>1, FS_EmptySet
  <2> DEFINE t == s \ {Chosen(s)}
  <2>2. Cardinality(t) = n BY <1>1, <2>1, TakeApart
  <2>3. t \in SUBSET S /\ t \in SUBSET T OBVIOUS
  <2>4. g[t] = h[t] BY <1>5, <2>2, <2>3
  <2>5. g[s] = f[Chosen(s)] + g[t] /\ h[s] = f[Chosen(s)] + h[t] BY <1>2, <1>3, <2>1
  <2> QED BY <2>4, <2>5
<1> HIDE DEF P
<1>6. Nat \subseteq P BY <1>4, <1>5, Induction
<1> QED BY <1>1, <1>6 DEF P

\* The sum of a set that is not empty is its chosen term and the sum of the rest.
LEMMA SumChosen ==
    ASSUME NEW f, NEW S, IsFiniteSet(S)
    PROVE  SumFunctionOnSet(f, S) =
               IF S = {} THEN 0 ELSE f[Chosen(S)] + SumFunctionOnSet(f, S \ {Chosen(S)})
<1>1. PICK g : AllSums(g, f, S) /\ SumFunctionOnSet(f, S) = g[S] BY FoldSums
<1>2. S \in SUBSET S OBVIOUS
<1>3. g[S] = IF S = {} THEN 0 ELSE f[Chosen(S)] + g[S \ {Chosen(S)}] BY <1>1, <1>2 DEF Sums, AllSums
<1>4. CASE S = {} BY <1>1, <1>3, <1>4
<1>5. CASE S # {}
  <2> DEFINE T == S \ {Chosen(S)}
  <2>1. IsFiniteSet(T) BY <1>5, TakeApart
  <2>2. PICK h : AllSums(h, f, T) /\ SumFunctionOnSet(f, T) = h[T]
    <3> HIDE DEF T
    <3> QED BY <2>1, FoldSums
  <2>3. T \in SUBSET S /\ T \in SUBSET T OBVIOUS
  <2> HIDE DEF T
  <2>4. g[T] = h[T] BY <1>1, <2>2, <2>3, SumsAgree
  <2> QED BY <1>1, <1>3, <1>5, <2>2, <2>4 DEF T
<1> QED BY <1>4, <1>5

\* Sums of natural numbers are natural numbers.
LEMMA SumType ==
    ASSUME NEW f, NEW Q, \A x \in Q : f[x] \in Nat
    PROVE  \A S \in SUBSET Q : IsFiniteSet(S) => SumFunctionOnSet(f, S) \in Nat
<1> DEFINE P == {n \in Nat : \A S \in SUBSET Q : IsFiniteSet(S) /\ Cardinality(S) = n
                                                    => SumFunctionOnSet(f, S) \in Nat}
<1>1. 0 \in P
  <2> SUFFICES ASSUME NEW S \in SUBSET Q, IsFiniteSet(S), Cardinality(S) = 0
               PROVE  SumFunctionOnSet(f, S) \in Nat
    OBVIOUS
  <2>1. S = {} BY FS_EmptySet
  <2>2. SumFunctionOnSet(f, S) = 0 BY <2>1, SumChosen
  <2> QED BY <2>2
<1>2. ASSUME NEW n \in Nat, n \in P PROVE n + 1 \in P
  <2> SUFFICES ASSUME NEW S \in SUBSET Q, IsFiniteSet(S), Cardinality(S) = n + 1
               PROVE  SumFunctionOnSet(f, S) \in Nat
    OBVIOUS
  <2>1. S # {} BY FS_EmptySet
  <2> DEFINE c == Chosen(S)
             T == S \ {c}
  <2>2. SumFunctionOnSet(f, S) = f[c] + SumFunctionOnSet(f, T) BY <2>1, SumChosen
  <2>3. c \in S /\ IsFiniteSet(T) /\ Cardinality(T) = n BY <2>1, TakeApart
  <2>4. T \in SUBSET Q /\ f[c] \in Nat BY <2>3
  <2> HIDE DEF T
  <2>5. SumFunctionOnSet(f, T) \in Nat BY <1>2, <2>3, <2>4
  <2> QED BY <2>2, <2>4, <2>5
<1> HIDE DEF P
<1>3. Nat \subseteq P BY <1>1, <1>2, Induction
<1>4. \A S : IsFiniteSet(S) => Cardinality(S) \in Nat BY FS_CardinalityType
<1> QED BY <1>3, <1>4 DEF P

\* Nothing adds up to nothing.
LEMMA SumZero ==
    ASSUME NEW f, NEW Q, IsFiniteSet(Q), \A x \in Q : f[x] = 0
    PROVE  SumFunctionOnSet(f, Q) = 0
<1> DEFINE P == {n \in Nat : \A S \in SUBSET Q : Cardinality(S) = n => SumFunctionOnSet(f, S) = 0}
<1>1. \A S \in SUBSET Q : IsFiniteSet(S) /\ Cardinality(S) \in Nat BY FS_Subset, FS_CardinalityType
<1>2. 0 \in P
  <2> SUFFICES ASSUME NEW S \in SUBSET Q, Cardinality(S) = 0 PROVE SumFunctionOnSet(f, S) = 0
    OBVIOUS
  <2>1. S = {} BY <1>1, FS_EmptySet
  <2> QED BY <2>1, FS_EmptySet, SumChosen
<1>3. ASSUME NEW n \in Nat, n \in P PROVE n + 1 \in P
  <2> SUFFICES ASSUME NEW S \in SUBSET Q, Cardinality(S) = n + 1 PROVE SumFunctionOnSet(f, S) = 0
    OBVIOUS
  <2> DEFINE c == Chosen(S)
             T == S \ {c}
  <2>1. S # {} /\ IsFiniteSet(S) BY <1>1, FS_EmptySet
  <2>2. SumFunctionOnSet(f, S) = f[c] + SumFunctionOnSet(f, T) BY <2>1, SumChosen
  <2>3. c \in S /\ Cardinality(T) = n BY <2>1, TakeApart
  <2>4. T \in SUBSET Q /\ f[c] = 0 BY <2>3
  <2> HIDE DEF T
  <2>5. SumFunctionOnSet(f, T) = 0 BY <1>3, <2>3, <2>4
  <2> QED BY <2>2, <2>4, <2>5
<1> HIDE DEF P
<1>4. Nat \subseteq P BY <1>2, <1>3, Induction
<1> QED BY <1>1, <1>4 DEF P

\* It does not matter which term is taken out of a sum.
LEMMA SumAny ==
    ASSUME NEW f, NEW Q, \A x \in Q : f[x] \in Nat
    PROVE  \A S \in SUBSET Q : IsFiniteSet(S) =>
               \A x \in S : SumFunctionOnSet(f, S) = f[x] + SumFunctionOnSet(f, S \ {x})
<1> DEFINE Fine(S) == \A x \in S : SumFunctionOnSet(f, S) = f[x] + SumFunctionOnSet(f, S \ {x})
           P == {n \in Nat : \A S \in SUBSET Q : IsFiniteSet(S) /\ Cardinality(S) = n => Fine(S)}
<1>1. 0 \in P
  <2> SUFFICES ASSUME NEW S \in SUBSET Q, IsFiniteSet(S), Cardinality(S) = 0 PROVE Fine(S) OBVIOUS
  <2>1. S = {} BY FS_EmptySet
  <2> QED BY <2>1
<1>2. ASSUME NEW n \in Nat, n \in P PROVE n + 1 \in P
  <2> SUFFICES ASSUME NEW S \in SUBSET Q, IsFiniteSet(S), Cardinality(S) = n + 1 PROVE Fine(S) OBVIOUS
  <2> DEFINE c == Chosen(S)
             Rest(x) == S \ {x}
             Sum(T) == SumFunctionOnSet(f, T)
  <2>1. S # {} BY FS_EmptySet
  <2>2. c \in S BY <2>1, TakeApart
  <2>3. Sum(S) = f[c] + Sum(Rest(c)) BY <2>1, SumChosen
  <2>4. \A x \in S : IsFiniteSet(Rest(x)) /\ Cardinality(Rest(x)) = n /\ Rest(x) \in SUBSET Q
    BY Remove
  <2>5. \A x \in S : Fine(Rest(x)) BY <1>2, <2>4
  <2>6. \A x \in S : f[x] \in Nat OBVIOUS
  <2> HIDE DEF c
  <2>7. ASSUME NEW x \in S PROVE Sum(S) = f[x] + Sum(Rest(x))
    <3>1. CASE x = c BY <2>3, <3>1
    <3>2. CASE x # c
      <4> DEFINE T == (S \ {x}) \ {c}
      <4>1. Rest(c) \ {x} = T /\ Rest(x) \ {c} = T OBVIOUS
      <4>2. x \in Rest(c) /\ c \in Rest(x) BY <2>2, <3>2
      <4>3. Sum(Rest(c)) = f[x] + Sum(Rest(c) \ {x}) BY <2>2, <2>5, <4>2
      <4>4. Sum(Rest(x)) = f[c] + Sum(Rest(x) \ {c}) BY <2>5, <4>2
      <4>5. IsFiniteSet(T) /\ T \in SUBSET Q BY <2>4, FS_Subset
      <4>6. Sum(T) \in Nat BY <4>5, SumType
      <4> HIDE DEF T
      <4> QED BY <2>2, <2>3, <2>6, <4>1, <4>3, <4>4, <4>6
    <3> QED BY <3>1, <3>2
  <2> QED BY <2>7
<1> HIDE DEF P
<1>3. Nat \subseteq P BY <1>1, <1>2, Induction
<1>4. \A S : IsFiniteSet(S) => Cardinality(S) \in Nat BY FS_CardinalityType
<1> QED BY <1>3, <1>4 DEF P

\* A term is added to a sum.
LEMMA SumAdd ==
    ASSUME NEW f, NEW S, IsFiniteSet(S), NEW x, x \notin S, \A y \in S \cup {x} : f[y] \in Nat
    PROVE  SumFunctionOnSet(f, S \cup {x}) = f[x] + SumFunctionOnSet(f, S)
<1> DEFINE T == S \cup {x}
<1>1. IsFiniteSet(T) BY FS_AddElement
<1>2. T \ {x} = S OBVIOUS
<1>3. x \in T /\ T \in SUBSET T /\ \A y \in T : f[y] \in Nat OBVIOUS
<1> HIDE DEF T
<1>4. SumFunctionOnSet(f, T) = f[x] + SumFunctionOnSet(f, T \ {x}) BY <1>1, <1>3, SumAny
<1> QED BY <1>2, <1>4 DEF T

\* Functions that compare term by term have sums that do.
LEMMA SumOrder ==
    ASSUME NEW f, NEW g, NEW S, IsFiniteSet(S),
           \A x \in S : f[x] \in Nat /\ g[x] \in Nat /\ f[x] <= g[x]
    PROVE  SumFunctionOnSet(f, S) <= SumFunctionOnSet(g, S)
<1> DEFINE P == {n \in Nat : \A T \in SUBSET S : Cardinality(T) = n
                                  => SumFunctionOnSet(f, T) <= SumFunctionOnSet(g, T)}
<1>1. \A T \in SUBSET S : IsFiniteSet(T) /\ Cardinality(T) \in Nat BY FS_Subset, FS_CardinalityType
<1>2. 0 \in P
  <2> SUFFICES ASSUME NEW T \in SUBSET S, Cardinality(T) = 0
               PROVE  SumFunctionOnSet(f, T) <= SumFunctionOnSet(g, T)
    OBVIOUS
  <2>1. T = {} BY <1>1, FS_EmptySet
  <2>2. SumFunctionOnSet(f, T) = 0 BY <1>1, <2>1, SumChosen
  <2>3. SumFunctionOnSet(g, T) = 0 BY <1>1, <2>1, SumChosen
  <2> QED BY <2>2, <2>3
<1>3. ASSUME NEW n \in Nat, n \in P PROVE n + 1 \in P
  <2> SUFFICES ASSUME NEW T \in SUBSET S, Cardinality(T) = n + 1
               PROVE  SumFunctionOnSet(f, T) <= SumFunctionOnSet(g, T)
    OBVIOUS
  <2>1. T # {} BY <1>1, FS_EmptySet
  <2>2. PICK x \in T : TRUE BY <2>1
  <2> DEFINE R == T \ {x}
  <2>3. IsFiniteSet(R) /\ Cardinality(R) = n BY <1>1, Remove
  <2>4. R \in SUBSET S OBVIOUS
  <2>5. SumFunctionOnSet(f, R) <= SumFunctionOnSet(g, R) BY <1>3, <2>3, <2>4
  <2>6. \A y \in S : f[y] \in Nat OBVIOUS
  <2>7. \A y \in S : g[y] \in Nat OBVIOUS
  <2>8. SumFunctionOnSet(f, T) = f[x] + SumFunctionOnSet(f, R)
    <3>1. \A U \in SUBSET S : IsFiniteSet(U) =>
             \A y \in U : SumFunctionOnSet(f, U) = f[y] + SumFunctionOnSet(f, U \ {y})
      BY <2>6, SumAny
    <3> QED BY <1>1, <3>1
  <2>9. SumFunctionOnSet(g, T) = g[x] + SumFunctionOnSet(g, R)
    <3>1. \A U \in SUBSET S : IsFiniteSet(U) =>
             \A y \in U : SumFunctionOnSet(g, U) = g[y] + SumFunctionOnSet(g, U \ {y})
      BY <2>7, SumAny
    <3> QED BY <1>1, <3>1
  <2> HIDE DEF R
  <2>10. SumFunctionOnSet(f, R) \in Nat BY <2>3, <2>4, <2>6, SumType
  <2>11. SumFunctionOnSet(g, R) \in Nat BY <2>3, <2>4, <2>7, SumType
  <2>12. f[x] <= g[x] /\ f[x] \in Nat /\ g[x] \in Nat OBVIOUS
  <2> QED BY <2>5, <2>8, <2>9, <2>10, <2>11, <2>12
<1> HIDE DEF P
<1>4. Nat \subseteq P BY <1>2, <1>3, Induction
<1>5. S \in SUBSET S OBVIOUS
<1> QED BY <1>1, <1>4, <1>5 DEF P

\* Functions with the same terms have the same sum.
LEMMA SumSame ==
    ASSUME NEW f, NEW g, NEW S, IsFiniteSet(S), \A x \in S : f[x] \in Nat /\ g[x] = f[x]
    PROVE  SumFunctionOnSet(g, S) = SumFunctionOnSet(f, S)
<1>1. \A x \in S : f[x] \in Nat /\ g[x] \in Nat /\ f[x] <= g[x] /\ g[x] <= f[x] OBVIOUS
<1>2. SumFunctionOnSet(f, S) <= SumFunctionOnSet(g, S) BY <1>1, SumOrder
<1>3. SumFunctionOnSet(g, S) <= SumFunctionOnSet(f, S) BY <1>1, SumOrder
<1>4. S \in SUBSET S /\ (\A x \in S : f[x] \in Nat) /\ (\A x \in S : g[x] \in Nat) BY <1>1
<1>5. SumFunctionOnSet(f, S) \in Nat BY <1>4, SumType
<1>6. SumFunctionOnSet(g, S) \in Nat BY <1>4, SumType
<1> QED BY <1>2, <1>3, <1>5, <1>6

\* One term of a sum changes.
LEMMA SumChange ==
    ASSUME NEW f, NEW g, NEW S, IsFiniteSet(S), NEW x \in S,
           \A y \in S : f[y] \in Nat, g[x] \in Nat, \A y \in S : y # x => g[y] = f[y]
    PROVE  SumFunctionOnSet(g, S) = SumFunctionOnSet(f, S) - f[x] + g[x]
<1> DEFINE T == S \ {x}
<1>1. IsFiniteSet(T) /\ x \notin T /\ T \cup {x} = S BY Remove
<1>2. \A y \in T : f[y] \in Nat /\ g[y] = f[y] OBVIOUS
<1>3. f[x] \in Nat /\ (\A y \in T \cup {x} : f[y] \in Nat) /\ (\A y \in T \cup {x} : g[y] \in Nat)
  BY <1>1, <1>2
<1>4. T \in SUBSET T /\ \A y \in T : f[y] \in Nat BY <1>2
<1> HIDE DEF T
<1>5. SumFunctionOnSet(f, T \cup {x}) = f[x] + SumFunctionOnSet(f, T) BY <1>1, <1>3, SumAdd
<1>6. SumFunctionOnSet(g, T \cup {x}) = g[x] + SumFunctionOnSet(g, T) BY <1>1, <1>3, SumAdd
<1>7. SumFunctionOnSet(g, T) = SumFunctionOnSet(f, T) BY <1>1, <1>2, SumSame
<1>8. SumFunctionOnSet(f, T) \in Nat BY <1>1, <1>4, SumType
<1>9. SumFunctionOnSet(f, S) = f[x] + SumFunctionOnSet(f, T) BY <1>1, <1>5, Zenon
<1>10. SumFunctionOnSet(g, S) = g[x] + SumFunctionOnSet(f, T) BY <1>1, <1>6, <1>7, Zenon
<1> QED BY <1>3, <1>8, <1>9, <1>10

\* Terms are moved from one sum to another, each to a place of its own.
LEMMA SumMove ==
    ASSUME NEW f, NEW S, IsFiniteSet(S), \A x \in S : f[x] \in Nat,
           NEW g, NEW L, IsFiniteSet(L), NEW p,
           \A c \in L : p[c] \in S /\ g[c] = f[p[c]],
           \A c, d \in L : p[c] = p[d] => c = d
    PROVE  SumFunctionOnSet(g, L) + SumFunctionOnSet(f, S \ {p[c] : c \in L}) = SumFunctionOnSet(f, S)
<1> DEFINE Rest(T) == S \ {p[c] : c \in T}
           Holds(T) == SumFunctionOnSet(g, T) + SumFunctionOnSet(f, Rest(T)) = SumFunctionOnSet(f, S)
           P == {n \in Nat : \A T \in SUBSET L : Cardinality(T) = n => Holds(T)}
<1>1. \A T \in SUBSET L : IsFiniteSet(T) /\ Cardinality(T) \in Nat BY FS_Subset, FS_CardinalityType
<1>2. \A c \in L : g[c] \in Nat OBVIOUS
<1>3. \A T \in SUBSET L : IsFiniteSet(Rest(T)) BY FS_Subset
<1>4. \A U \in SUBSET S : IsFiniteSet(U) => SumFunctionOnSet(f, U) \in Nat BY SumType
<1>5. \A U \in SUBSET L : IsFiniteSet(U) => SumFunctionOnSet(g, U) \in Nat BY <1>2, SumType
<1>6. \A U \in SUBSET S : IsFiniteSet(U) =>
         \A y \in U : SumFunctionOnSet(f, U) = f[y] + SumFunctionOnSet(f, U \ {y})
  BY SumAny
<1>7. \A U \in SUBSET L : IsFiniteSet(U) =>
         \A y \in U : SumFunctionOnSet(g, U) = g[y] + SumFunctionOnSet(g, U \ {y})
  BY ONLY <1>2, SumAny
<1>8. 0 \in P
  <2> SUFFICES ASSUME NEW T \in SUBSET L, Cardinality(T) = 0 PROVE Holds(T) OBVIOUS
  <2>1. T = {} BY <1>1, FS_EmptySet
  <2>2. SumFunctionOnSet(g, T) = 0 BY <1>1, <2>1, SumChosen
  <2>3. Rest(T) = S BY <2>1
  <2>4. SumFunctionOnSet(f, S) \in Nat BY <1>4
  <2> QED BY <2>2, <2>3, <2>4
<1>9. ASSUME NEW n \in Nat, n \in P PROVE n + 1 \in P
  <2> SUFFICES ASSUME NEW T \in SUBSET L, Cardinality(T) = n + 1 PROVE Holds(T) OBVIOUS
  <2>1. T # {} BY <1>1, FS_EmptySet
  <2>2. PICK x \in T : TRUE BY <2>1
  <2> DEFINE R == T \ {x}
  <2>3. IsFiniteSet(R) /\ Cardinality(R) = n BY <1>1, Remove
  <2>4. R \in SUBSET L OBVIOUS
  <2>5. Holds(R) BY <1>9, <2>3, <2>4
  <2>6. SumFunctionOnSet(g, T) = g[x] + SumFunctionOnSet(g, R) BY <1>1, <1>7
  <2>7. p[x] \in Rest(R) /\ Rest(T) = Rest(R) \ {p[x]} OBVIOUS
  <2>8. SumFunctionOnSet(f, Rest(R)) = f[p[x]] + SumFunctionOnSet(f, Rest(T))
    <3>1. Rest(R) \in SUBSET S /\ IsFiniteSet(Rest(R)) BY <1>3, <2>4
    <3>2. SumFunctionOnSet(f, Rest(R)) = f[p[x]] + SumFunctionOnSet(f, Rest(R) \ {p[x]})
      BY ONLY <1>6, <2>7, <3>1
    <3> QED BY <2>7, <3>2, Zenon
  <2>9. g[x] = f[p[x]] /\ g[x] \in Nat BY <1>2
  <2>10. SumFunctionOnSet(g, R) \in Nat BY <1>5, <2>3, <2>4
  <2>11. SumFunctionOnSet(f, Rest(T)) \in Nat
    <3>1. Rest(T) \in SUBSET S OBVIOUS
    <3>2. IsFiniteSet(Rest(T)) BY <1>3
    <3> HIDE DEF Rest
    <3> QED BY <1>4, <3>1, <3>2
  <2> HIDE DEF R, Rest
  <2> QED BY <2>5, <2>6, <2>8, <2>9, <2>10, <2>11
<1> HIDE DEF P
<1>10. Nat \subseteq P BY <1>8, <1>9, Induction
<1>11. L \in SUBSET L OBVIOUS
<1> QED BY <1>1, <1>10, <1>11 DEF P
=============================================================================
