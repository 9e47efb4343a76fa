---------------------------- MODULE Sums_proofs -----------------------------
(***************************************************************************)
(* Induction, with a set that holds 0 and is closed under successor in the *)
(* place of the property to be shown, and with it the facts about sums     *)
(* over finite sets that the proofs of the programs need: total_shares of  *)
(* replenish_and_repay is such a sum.                                      *)
(***************************************************************************)
EXTENDS Integers, Functions, FiniteSets, FiniteSetTheorems, WellFoundedInduction, TLAPS

\* Every nonempty set of naturals has a least element.
LEMMA LeastNat ==
  ASSUME NEW T \in SUBSET Nat, T # {}
  PROVE  \E x \in T : \A y \in T : x <= y
<1> DEFINE R == OpToRel(<, Nat)
<1>1. IsWellFoundedOn(R, Nat)
  BY NatLessThanWellFounded
<1>2. \A a, b \in Nat : a < b => <<a, b>> \in R
  BY DEF OpToRel
<1>3. \E x \in T : \A y \in T : <<y, x>> \notin R
  <2> HIDE DEF R
  <2>1. QED
    BY <1>1, WFMin
<1> HIDE DEF R
<1>4. PICK x \in T : \A y \in T : <<y, x>> \notin R
  BY <1>3
<1>5. \A y \in T : ~(y < x)
  BY <1>2, <1>4
<1>6. \A y \in T : x <= y
  BY <1>5
<1>7. QED
  BY <1>6

\* Induction, in terms of sets.
LEMMA SetInduction ==
  ASSUME NEW S, 0 \in S, \A n \in Nat : n \in S => n + 1 \in S
  PROVE  Nat \subseteq S
<1>1. SUFFICES ASSUME Nat \ S # {} PROVE FALSE
  OBVIOUS
<1>2. PICK x \in Nat \ S : \A y \in Nat \ S : x <= y
  BY <1>1, LeastNat
<1>3. x # 0
  OBVIOUS
<1>4. x - 1 \in Nat /\ x - 1 \in S
  BY <1>2, <1>3
<1>5. QED
  BY <1>4
-----------------------------------------------------------------------------
\* The element that a sum takes next.
Next1(s) == CHOOSE x \in s : TRUE

\* `sum` gives, for each part of S, the sum of f over it.
SumsUp(f, S, sum) ==
  sum = [s \in SUBSET S |-> IF s = {} THEN 0 ELSE f[Next1(s)] + sum[s \ {Next1(s)}]]

\* The community module's sum is one of these.
LEMMA SumUnfolded ==
  ASSUME NEW f, NEW S
  PROVE  SumFunctionOnSet(f, S) = (CHOOSE sum : SumsUp(f, S, sum))[S]
BY DEF SumFunctionOnSet, FoldFunctionOnSet, MapThenFoldSet, SumsUp, Next1

\* Taking the next element from a part makes a smaller part.
LEMMA NextTaken ==
  ASSUME NEW S, IsFiniteSet(S), NEW s \in SUBSET S, s # {}
  PROVE  /\ Next1(s) \in s
         /\ s \ {Next1(s)} \in SUBSET S
         /\ Cardinality(s) \in Nat
         /\ Cardinality(s \ {Next1(s)}) \in Nat
         /\ Cardinality(s \ {Next1(s)}) = Cardinality(s) - 1
<1>1. IsFiniteSet(s) /\ IsFiniteSet(s \ {Next1(s)})
  BY FS_Subset
<1>2. Next1(s) \in s
  BY DEF Next1
<1>3. QED
  BY <1>1, <1>2, FS_RemoveElement, FS_CardinalityType

\* The only part without elements is the empty one.
LEMMA NothingInNone ==
  ASSUME NEW S, IsFiniteSet(S), NEW s \in SUBSET S, Cardinality(s) <= 0
  PROVE  s = {}
<1>1. IsFiniteSet(s)
  BY FS_Subset
<1>2. Cardinality(s) \in Nat
  BY <1>1, FS_CardinalityType
<1>3. Cardinality(s) = 0
  BY <1>2
<1>4. QED
  BY <1>1, <1>3, FS_EmptySet

\* Every function can be summed over a finite set.
LEMMA SumExists ==
  ASSUME NEW f, NEW S, IsFiniteSet(S)
  PROVE  \E sum : SumsUp(f, S, sum)
<1> DEFINE D(n) == {s \in SUBSET S : Cardinality(s) <= n}
           Good(g, n) ==
             g = [s \in D(n) |-> IF s = {} THEN 0 ELSE f[Next1(s)] + g[s \ {Next1(s)}]]
           N == {n \in Nat : \E g : Good(g, n)}
<1>1. 0 \in N
  <2>1. \A s \in D(0) : s = {}
    BY NothingInNone
  <2>2. Good([s \in D(0) |-> 0], 0)
    BY <2>1
  <2>3. QED
    BY <2>2
<1>2. ASSUME NEW n \in Nat, n \in N
      PROVE  n + 1 \in N
  <2>1. PICK g : Good(g, n)
    BY <1>2
  <2> DEFINE term(s, h) == IF s = {} THEN 0 ELSE f[Next1(s)] + h[s \ {Next1(s)}]
             h == [s \in D(n + 1) |-> term(s, g)]
  <2>2. ASSUME NEW s \in D(n + 1), s # {}
        PROVE  s \ {Next1(s)} \in D(n) /\ s \ {Next1(s)} \in D(n + 1)
    BY <2>2, NextTaken
  <2>3. \A s \in D(n) : s \in D(n + 1) /\ g[s] = h[s]
    <3>1. SUFFICES ASSUME NEW s \in D(n) PROVE s \in D(n + 1) /\ g[s] = h[s]
      OBVIOUS
    <3>2. s \in D(n + 1)
      <4>1. Cardinality(s) \in Nat
        BY FS_Subset, FS_CardinalityType
      <4>2. QED
        BY <4>1
    <3>3. g[s] = term(s, g)
      BY <2>1
    <3>4. QED
      BY <3>2, <3>3
  <2>4. \A s \in D(n + 1) : term(s, g) = term(s, h)
    <3> HIDE DEF D, h
    <3>1. QED
      BY <2>2, <2>3
  <2>5. Good(h, n + 1)
    <3> HIDE DEF D
    <3>1. h = [s \in D(n + 1) |-> term(s, h)]
      <4>1. h = [s \in D(n + 1) |-> term(s, g)]
        OBVIOUS
      <4> HIDE DEF h
      <4> DEFINE a(s) == term(s, g)
                 b(s) == term(s, h)
      <4>2. \A s \in D(n + 1) : a(s) = b(s)
        BY <2>4
      <4>3. h = [s \in D(n + 1) |-> a(s)]
        BY <4>1
      <4> HIDE DEF a, b
      <4>4. h = [s \in D(n + 1) |-> b(s)]
        BY <4>2, <4>3
      <4>5. QED
        BY <4>4 DEF b
    <3>2. QED
      BY <3>1
  <2>6. QED
    <3> HIDE DEF Good, h
    <3>1. QED
      BY <2>5
<1>3. Cardinality(S) \in N
  <2> HIDE DEF N
  <2>1. Cardinality(S) \in Nat
    BY FS_CardinalityType
  <2>2. QED
    BY <1>1, <1>2, <2>1, SetInduction
<1>4. D(Cardinality(S)) = SUBSET S
  BY FS_Subset
<1>5. PICK sum : Good(sum, Cardinality(S))
  BY <1>3
<1>6. SumsUp(f, S, sum)
  <2> HIDE DEF D
  <2>1. QED
    BY <1>4, <1>5 DEF SumsUp
<1>7. QED
  BY <1>6

\* A sum of amounts is an amount, and none of them is larger.
LEMMA SumBounds ==
  ASSUME NEW S, IsFiniteSet(S), NEW f \in [S -> Nat]
  PROVE  /\ SumFunction(f) \in Nat
         /\ \A x \in S : f[x] <= SumFunction(f)
<1> DEFINE sum == CHOOSE sum : SumsUp(f, S, sum)
<1>1. SumsUp(f, S, sum)
  BY SumExists
<1>2. SumFunction(f) = sum[S]
  BY SumUnfolded DEF SumFunction
<1> HIDE DEF sum
<1> DEFINE Ok(s) == sum[s] \in Nat /\ \A x \in s : f[x] <= sum[s]
           N == {n \in Nat : \A s \in SUBSET S : Cardinality(s) <= n => Ok(s)}
<1>3. Ok({})
  BY <1>1 DEF SumsUp
<1>4. 0 \in N
  <2>1. SUFFICES ASSUME NEW s \in SUBSET S, Cardinality(s) <= 0 PROVE Ok(s)
    OBVIOUS
  <2>2. s = {}
    BY <2>1, NothingInNone
  <2>3. QED
    BY <1>3, <2>2
<1>5. ASSUME NEW n \in Nat, n \in N
      PROVE  n + 1 \in N
  <2>1. SUFFICES ASSUME NEW s \in SUBSET S, Cardinality(s) <= n + 1, s # {}
                 PROVE  Ok(s)
    BY <1>3
  <2> DEFINE y == Next1(s)
             t == s \ {y}
  <2>2. y \in s /\ t \in SUBSET S /\ Cardinality(t) <= n
    BY <2>1, NextTaken
  <2>3. Ok(t)
    BY <1>5, <2>2
  <2>4. sum[s] = f[y] + sum[t]
    BY <1>1, <2>1 DEF SumsUp
  <2>5. f[y] \in Nat /\ \A x \in s : x = y \/ x \in t
    BY <2>2
  <2> HIDE DEF y, t
  <2>6. \A x \in s : f[x] \in Nat
    OBVIOUS
  <2>7. QED
    BY <2>3, <2>4, <2>5, <2>6
<1>6. Cardinality(S) \in N
  <2> HIDE DEF N
  <2>1. Cardinality(S) \in Nat
    BY FS_CardinalityType
  <2>2. QED
    BY <1>4, <1>5, <2>1, SetInduction
<1>7. Ok(S)
  <2>1. Cardinality(S) <= Cardinality(S)
    BY FS_CardinalityType
  <2>2. QED
    BY <1>6, <2>1
<1>8. QED
  BY <1>2, <1>7
-----------------------------------------------------------------------------
\* Induction over the parts of a finite set, in terms of sets.
LEMMA PartsInduction ==
  ASSUME NEW S, IsFiniteSet(S), NEW Good, {} \in Good,
         \A s \in SUBSET S, x \in S : x \notin s /\ s \in Good => s \cup {x} \in Good
  PROVE  SUBSET S \subseteq Good
<1> DEFINE N == {n \in Nat : \A s \in SUBSET S : Cardinality(s) <= n => s \in Good}
<1>1. 0 \in N
  BY NothingInNone
<1>2. ASSUME NEW n \in Nat, n \in N
      PROVE  n + 1 \in N
  <2>1. SUFFICES ASSUME NEW s \in SUBSET S, Cardinality(s) <= n + 1, s # {}
                 PROVE  s \in Good
    OBVIOUS
  <2> DEFINE y == Next1(s)
             t == s \ {y}
  <2>2. y \in s /\ t \in SUBSET S /\ Cardinality(t) <= n
    BY <2>1, NextTaken
  <2>3. t \in Good /\ y \notin t /\ s = t \cup {y} /\ y \in S
    BY <1>2, <2>2
  <2> HIDE DEF y, t
  <2>4. QED
    BY <2>2, <2>3
<1>3. SUFFICES ASSUME NEW s \in SUBSET S PROVE s \in Good
  OBVIOUS
<1>4. Cardinality(s) \in Nat
  BY FS_Subset, FS_CardinalityType
<1>5. Cardinality(s) \in N
  <2> HIDE DEF N
  <2>1. QED
    BY <1>1, <1>2, <1>4, SetInduction
<1>6. QED
  BY <1>4, <1>5

\* There is only one way to sum over the parts of a set.
LEMMA SumsAgree ==
  ASSUME NEW f, NEW S, IsFiniteSet(S), NEW T \in SUBSET S,
         NEW a, SumsUp(f, S, a), NEW b, SumsUp(f, T, b)
  PROVE  \A s \in SUBSET T : a[s] = b[s]
<1> DEFINE N == {n \in Nat : \A s \in SUBSET T : Cardinality(s) <= n => a[s] = b[s]}
<1>1. IsFiniteSet(T)
  BY FS_Subset
<1>2. a[{}] = b[{}]
  BY DEF SumsUp
<1>3. 0 \in N
  BY <1>1, <1>2, NothingInNone
<1>4. ASSUME NEW n \in Nat, n \in N
      PROVE  n + 1 \in N
  <2>1. SUFFICES ASSUME NEW s \in SUBSET T, Cardinality(s) <= n + 1, s # {}
                 PROVE  a[s] = b[s]
    BY <1>2
  <2>2. s \ {Next1(s)} \in SUBSET T /\ Cardinality(s \ {Next1(s)}) <= n
    BY <1>1, <2>1, NextTaken
  <2>3. a[s \ {Next1(s)}] = b[s \ {Next1(s)}]
    BY <1>4, <2>2
  <2>4. a[s] = f[Next1(s)] + a[s \ {Next1(s)}]
    BY <2>1 DEF SumsUp
  <2>5. b[s] = f[Next1(s)] + b[s \ {Next1(s)}]
    BY <2>1 DEF SumsUp
  <2>6. QED
    BY <2>3, <2>4, <2>5
<1>5. SUFFICES ASSUME NEW s \in SUBSET T PROVE a[s] = b[s]
  OBVIOUS
<1>6. Cardinality(s) \in Nat
  BY <1>1, FS_Subset, FS_CardinalityType
<1>7. Cardinality(s) \in N
  <2> HIDE DEF N
  <2>1. QED
    BY <1>3, <1>4, <1>6, SetInduction
<1>8. QED
  BY <1>6, <1>7

\* The sum over no element, and over a set of which one element is taken first.
LEMMA SumEmpty ==
  ASSUME NEW f
  PROVE  SumFunctionOnSet(f, {}) = 0
<1>1. PICK sum : SumsUp(f, {}, sum)
  BY FS_EmptySet, SumExists
<1>2. SumsUp(f, {}, CHOOSE s : SumsUp(f, {}, s))
  BY <1>1
<1>3. QED
  BY <1>2, SumUnfolded DEF SumsUp

LEMMA SumNext ==
  ASSUME NEW f, NEW S, IsFiniteSet(S), S # {}
  PROVE  SumFunctionOnSet(f, S)
           = f[Next1(S)] + SumFunctionOnSet(f, S \ {Next1(S)})
<1> DEFINE T == S \ {Next1(S)}
           a == CHOOSE sum : SumsUp(f, S, sum)
           b == CHOOSE sum : SumsUp(f, T, sum)
<1>1. T \in SUBSET S /\ IsFiniteSet(T)
  BY FS_Subset
<1> HIDE DEF T
<1>2. SumsUp(f, S, a)
  BY SumExists
<1>3. SumsUp(f, T, b)
  BY <1>1, SumExists
<1>4. SumFunctionOnSet(f, S) = a[S] /\ SumFunctionOnSet(f, T) = b[T]
  BY SumUnfolded
<1> HIDE DEF a, b
<1>5. a[T] = b[T]
  BY <1>1, <1>2, <1>3, SumsAgree
<1>6. a[S] = f[Next1(S)] + a[T]
  BY <1>2 DEF SumsUp, T
<1>7. QED
  BY <1>4, <1>5, <1>6 DEF T

\* Any element may be taken first.
LEMMA SumRemove ==
  ASSUME NEW f, NEW S, IsFiniteSet(S), \A x \in S : f[x] \in Int
  PROVE  /\ SumFunctionOnSet(f, S) \in Int
         /\ \A x \in S : SumFunctionOnSet(f, S) = f[x] + SumFunctionOnSet(f, S \ {x})
<1> DEFINE Sum(s) == SumFunctionOnSet(f, s)
           Ok(s) == Sum(s) \in Int /\ \A x \in s : Sum(s) = f[x] + Sum(s \ {x})
           N == {n \in Nat : \A s \in SUBSET S : Cardinality(s) <= n => Ok(s)}
<1>1. Ok({})
  BY SumEmpty
<1>2. 0 \in N
  BY <1>1, NothingInNone
<1>3. ASSUME NEW n \in Nat, n \in N
      PROVE  n + 1 \in N
  <2>1. SUFFICES ASSUME NEW s \in SUBSET S, Cardinality(s) <= n + 1, s # {}
                 PROVE  Ok(s)
    BY <1>1
  <2> DEFINE y == Next1(s)
             t == s \ {y}
  <2>2. IsFiniteSet(s)
    BY FS_Subset
  <2>3. y \in s /\ t \in SUBSET S /\ Cardinality(t) <= n
    BY <2>1, NextTaken
  <2>4. Sum(s) = f[y] + Sum(t) /\ f[y] \in Int
    BY <2>1, <2>2, <2>3, SumNext
  <2>5. Ok(t)
    BY <1>3, <2>3
  <2>6. ASSUME NEW x \in s, x # y
        PROVE  Sum(s) = f[x] + Sum(s \ {x})
    <3>1. x \in t /\ y \in s \ {x} /\ t \ {x} = (s \ {x}) \ {y} /\ f[x] \in Int
      BY <2>3, <2>6
    <3>2. s \ {x} \in SUBSET S /\ Cardinality(s \ {x}) <= n
      <4>1. Cardinality(s \ {x}) = Cardinality(s) - 1 /\ Cardinality(s) \in Nat
        BY <2>2, FS_RemoveElement, FS_CardinalityType
      <4>2. QED
        BY <2>1, <4>1
    <3>3. Ok(s \ {x})
      BY <1>3, <3>2
    <3>4. Sum(s \ {x}) = f[y] + Sum(t \ {x})
      BY <3>1, <3>3
    <3>5. Sum(t) = f[x] + Sum(t \ {x})
      BY <2>5, <3>1
    <3>6. Sum(t \ {x}) \in Int
      <4>1. IsFiniteSet(s \ {x}) /\ Cardinality(t \ {x}) <= n /\ t \ {x} \in SUBSET S
        <5>1. IsFiniteSet(t) /\ IsFiniteSet(s \ {x})
          BY <2>2, FS_Subset
        <5>2. Cardinality(t \ {x}) = Cardinality(t) - 1 /\ Cardinality(t) \in Nat
          BY <3>1, <5>1, FS_RemoveElement, FS_CardinalityType
        <5>3. QED
          BY <2>3, <5>1, <5>2
      <4>2. QED
        BY <1>3, <4>1
    <3> HIDE DEF Sum, y, t
    <3>7. QED
      BY <2>4, <3>1, <3>4, <3>5, <3>6
  <2>7. Sum(s) \in Int
    BY <2>4, <2>5
  <2>8. QED
    BY <2>4, <2>6, <2>7
<1>4. Cardinality(S) \in N
  <2> HIDE DEF N
  <2>1. Cardinality(S) \in Nat
    BY FS_CardinalityType
  <2>2. QED
    BY <1>2, <1>3, <2>1, SetInduction
<1>5. Ok(S)
  <2>1. Cardinality(S) <= Cardinality(S)
    BY FS_CardinalityType
  <2>2. QED
    BY <1>4, <2>1
<1>6. QED
  BY <1>5

LEMMA SumAdd ==
  ASSUME NEW f, NEW S, IsFiniteSet(S), NEW x, x \notin S,
         \A y \in S \cup {x} : f[y] \in Int
  PROVE  SumFunctionOnSet(f, S \cup {x}) = f[x] + SumFunctionOnSet(f, S)
<1>1. IsFiniteSet(S \cup {x}) /\ (S \cup {x}) \ {x} = S
  BY FS_AddElement
<1>2. QED
  BY <1>1, SumRemove
-----------------------------------------------------------------------------
(***************************************************************************)
(* Sums of functions that are compared term by term.                       *)
(***************************************************************************)

\* Whole terms add up to a whole sum, which a new term is added to.
LEMMA SumStep ==
  ASSUME NEW S, IsFiniteSet(S), NEW f, \A x \in S : f[x] \in Int,
         NEW s \in SUBSET S, NEW x \in S, x \notin s
  PROVE  /\ SumFunctionOnSet(f, s) \in Int
         /\ SumFunctionOnSet(f, s \cup {x}) = f[x] + SumFunctionOnSet(f, s)
<1>1. IsFiniteSet(s) /\ \A y \in s \cup {x} : f[y] \in Int
  BY FS_Subset
<1>2. QED
  BY <1>1, SumRemove, SumAdd

LEMMA SumInt ==
  ASSUME NEW S, IsFiniteSet(S), NEW f, \A x \in S : f[x] \in Int
  PROVE  SumFunctionOnSet(f, S) \in Int
BY SumRemove

\* The sum of a function that is the sum of two.
LEMMA SumPlus ==
  ASSUME NEW S, IsFiniteSet(S), NEW f, NEW g, NEW h,
         \A x \in S : f[x] \in Int /\ g[x] \in Int /\ h[x] = f[x] + g[x]
  PROVE  SumFunctionOnSet(h, S) = SumFunctionOnSet(f, S) + SumFunctionOnSet(g, S)
<1> DEFINE F(s) == SumFunctionOnSet(f, s)
           G(s) == SumFunctionOnSet(g, s)
           H(s) == SumFunctionOnSet(h, s)
           Good == {s \in SUBSET S : H(s) = F(s) + G(s)}
<1>1. {} \in Good
  BY SumEmpty
<1>2. ASSUME NEW s \in SUBSET S, NEW x \in S, x \notin s, s \in Good
      PROVE  s \cup {x} \in Good
  <2>1. F(s) \in Int /\ F(s \cup {x}) = f[x] + F(s)
    BY <1>2, SumStep
  <2>2. G(s) \in Int /\ G(s \cup {x}) = g[x] + G(s)
    BY <1>2, SumStep
  <2>3. H(s \cup {x}) = h[x] + H(s)
    BY <1>2, SumStep
  <2>4. f[x] \in Int /\ g[x] \in Int /\ h[x] = f[x] + g[x] /\ H(s) = F(s) + G(s)
    BY <1>2
  <2> HIDE DEF F, G, H
  <2>5. H(s \cup {x}) = F(s \cup {x}) + G(s \cup {x})
    BY <2>1, <2>2, <2>3, <2>4
  <2>6. QED
    BY <2>5
<1> HIDE DEF Good
<1>3. S \in Good
  BY <1>1, <1>2, PartsInduction
<1>4. QED
  BY <1>3 DEF Good

\* Larger terms have a larger sum.
LEMMA SumLess ==
  ASSUME NEW S, IsFiniteSet(S), NEW f, NEW g,
         \A x \in S : f[x] \in Int /\ g[x] \in Int /\ f[x] <= g[x]
  PROVE  SumFunctionOnSet(f, S) <= SumFunctionOnSet(g, S)
<1> DEFINE F(s) == SumFunctionOnSet(f, s)
           G(s) == SumFunctionOnSet(g, s)
           Good == {s \in SUBSET S : F(s) <= G(s)}
<1>1. {} \in Good
  BY SumEmpty
<1>2. ASSUME NEW s \in SUBSET S, NEW x \in S, x \notin s, s \in Good
      PROVE  s \cup {x} \in Good
  <2>1. F(s) \in Int /\ F(s \cup {x}) = f[x] + F(s)
    BY <1>2, SumStep
  <2>2. G(s) \in Int /\ G(s \cup {x}) = g[x] + G(s)
    BY <1>2, SumStep
  <2>3. f[x] \in Int /\ g[x] \in Int /\ f[x] <= g[x] /\ F(s) <= G(s)
    BY <1>2
  <2> HIDE DEF F, G
  <2>4. F(s \cup {x}) <= G(s \cup {x})
    BY <2>1, <2>2, <2>3
  <2>5. QED
    BY <2>4
<1> HIDE DEF Good
<1>3. S \in Good
  BY <1>1, <1>2, PartsInduction
<1>4. QED
  BY <1>3 DEF Good

\* Nothing adds up to nothing, so that equal terms have equal sums.
LEMMA SumZero ==
  ASSUME NEW S, IsFiniteSet(S), NEW f, \A x \in S : f[x] = 0
  PROVE  SumFunctionOnSet(f, S) = 0
<1> DEFINE F == SumFunctionOnSet(f, S)
<1>1. F \in Int
  BY SumInt
<1>2. F = F + F
  BY SumPlus
<1> HIDE DEF F
<1>3. F = 0
  BY <1>1, <1>2
<1>4. QED
  BY <1>3 DEF F

LEMMA SumSame ==
  ASSUME NEW S, IsFiniteSet(S), NEW f, NEW g, \A x \in S : f[x] \in Int /\ f[x] = g[x]
  PROVE  SumFunctionOnSet(f, S) = SumFunctionOnSet(g, S)
<1>1. \A x \in S : f[x] <= g[x] /\ g[x] <= f[x]
  OBVIOUS
<1>2. SumFunctionOnSet(f, S) \in Int /\ SumFunctionOnSet(g, S) \in Int
  BY SumInt
<1>3. /\ SumFunctionOnSet(f, S) <= SumFunctionOnSet(g, S)
      /\ SumFunctionOnSet(g, S) <= SumFunctionOnSet(f, S)
  BY <1>1, SumLess
<1>4. QED
  BY <1>2, <1>3

\* A sum of amounts is an amount, and none of them is larger.
LEMMA SumNat ==
  ASSUME NEW S, IsFiniteSet(S), NEW f, \A x \in S : f[x] \in Nat
  PROVE  /\ SumFunctionOnSet(f, S) \in Nat
         /\ \A x \in S : f[x] <= SumFunctionOnSet(f, S)
<1> DEFINE g == [x \in S |-> f[x]]
<1>1. g \in [S -> Nat] /\ \A x \in S : f[x] \in Int /\ f[x] = g[x]
  OBVIOUS
<1>2. SumFunction(g) \in Nat /\ \A x \in S : g[x] <= SumFunction(g)
  BY <1>1, SumBounds
<1>3. SumFunction(g) = SumFunctionOnSet(g, S)
  BY DEF SumFunction
<1> HIDE DEF g
<1>4. SumFunctionOnSet(f, S) = SumFunctionOnSet(g, S)
  BY <1>1, SumSame
<1>5. QED
  BY <1>1, <1>2, <1>3, <1>4
-----------------------------------------------------------------------------
(***************************************************************************)
(* Sums over parts of a set.                                               *)
(***************************************************************************)

\* What is zero need not be summed.
LEMMA SumPart ==
  ASSUME NEW S, IsFiniteSet(S), NEW T \in SUBSET S, NEW f,
         \A x \in T : f[x] \in Int, \A x \in S \ T : f[x] = 0
  PROVE  SumFunctionOnSet(f, S) = SumFunctionOnSet(f, T)
<1> DEFINE F(s) == SumFunctionOnSet(f, s)
           R == S \ T
           Good == {s \in SUBSET R : F(T \cup s) = F(T)}
<1>1. {} \in Good
  BY SumEmpty
<1>2. IsFiniteSet(T) /\ IsFiniteSet(R)
  BY FS_Subset
<1>3. ASSUME NEW s \in SUBSET R, NEW x \in R, x \notin s, s \in Good
      PROVE  s \cup {x} \in Good
  <2> DEFINE t == T \cup s
  <2>1. t \in SUBSET S /\ x \in S /\ x \notin t /\ T \cup (s \cup {x}) = t \cup {x}
    BY <1>3
  <2>2. \A y \in S : f[y] \in Int
    OBVIOUS
  <2> HIDE DEF t
  <2>3. F(t) \in Int /\ F(t \cup {x}) = f[x] + F(t)
    BY <2>1, <2>2, SumStep
  <2>4. f[x] = 0 /\ F(t) = F(T)
    BY <1>3 DEF t
  <2> HIDE DEF F
  <2>5. F(t \cup {x}) = F(T)
    BY <2>3, <2>4
  <2>6. QED
    BY <2>1, <2>5
<1> HIDE DEF Good, R
<1>4. R \in Good
  BY <1>1, <1>2, <1>3, PartsInduction
<1>5. T \cup R = S
  BY DEF R
<1>6. QED
  BY <1>4, <1>5 DEF Good

\* The sum over one element, and over one that all the others add nothing to.
LEMMA SumSingle ==
  ASSUME NEW f, NEW x, f[x] \in Int
  PROVE  SumFunctionOnSet(f, {x}) = f[x]
<1>1. IsFiniteSet({}) /\ {} \cup {x} = {x}
  BY FS_EmptySet
<1>2. SumFunctionOnSet(f, {} \cup {x}) = f[x] + SumFunctionOnSet(f, {})
  BY <1>1, SumAdd
<1>3. QED
  BY <1>1, <1>2, SumEmpty

LEMMA SumOnly ==
  ASSUME NEW S, IsFiniteSet(S), NEW f, NEW x \in S, f[x] \in Int,
         \A y \in S \ {x} : f[y] = 0
  PROVE  SumFunctionOnSet(f, S) = f[x]
<1>1. SumFunctionOnSet(f, S) = SumFunctionOnSet(f, {x})
  BY SumPart
<1>2. QED
  BY <1>1, SumSingle

\* When the elements are dealt into groups, the sums of the groups add up to the sum.
SumsBy(f, S, group, T) == [t \in T |-> SumFunctionOnSet(f, {x \in S : group[x] = t})]

LEMMA SumGrouped ==
  ASSUME NEW S, IsFiniteSet(S), NEW T, IsFiniteSet(T), NEW f, \A x \in S : f[x] \in Int,
         NEW group, \A x \in S : group[x] \in T
  PROVE  SumFunctionOnSet(SumsBy(f, S, group, T), T) = SumFunctionOnSet(f, S)
<1> DEFINE F(s) == SumFunctionOnSet(f, s)
           Of(s, t) == {x \in s : group[x] = t}
           D(s) == [t \in T |-> F(Of(s, t))]
           Good == {s \in SUBSET S : SumFunctionOnSet(D(s), T) = F(s)}
<1>1. {} \in Good
  <2>1. \A t \in T : Of({}, t) = {}
    OBVIOUS
  <2>2. \A t \in T : D({})[t] = 0
    BY <2>1, SumEmpty
  <2>3. QED
    BY <2>2, SumZero, SumEmpty
<1>2. ASSUME NEW s \in SUBSET S, NEW t \in T PROVE F(Of(s, t)) \in Int
  <2>1. IsFiniteSet(Of(s, t))
    BY FS_Subset
  <2>2. QED
    BY <2>1, SumInt
<1>3. ASSUME NEW s \in SUBSET S, NEW x \in S, x \notin s, s \in Good
      PROVE  s \cup {x} \in Good
  <2> DEFINE d == [t \in T |-> IF t = group[x] THEN f[x] ELSE 0]
             a == D(s)
             b == D(s \cup {x})
  <2>1. F(s) \in Int /\ F(s \cup {x}) = f[x] + F(s) /\ f[x] \in Int
    <3> HIDE DEF Good, D, Of
    <3>1. /\ SumFunctionOnSet(f, s) \in Int
          /\ SumFunctionOnSet(f, s \cup {x}) = f[x] + SumFunctionOnSet(f, s)
      BY ONLY IsFiniteSet(S), \A y \in S : f[y] \in Int, s \in SUBSET S, x \in S, x \notin s, SumStep
    <3>2. QED
      BY <3>1
  <2>2. ASSUME NEW t \in T PROVE F(Of(s \cup {x}, t)) = F(Of(s, t)) + d[t]
    <3>1. CASE t = group[x]
      <4>1. Of(s \cup {x}, t) = Of(s, t) \cup {x} /\ x \notin Of(s, t)
            /\ Of(s, t) \in SUBSET S
        BY <1>3, <3>1
      <4>2. F(Of(s, t) \cup {x}) = f[x] + F(Of(s, t)) /\ F(Of(s, t)) \in Int
        <5> DEFINE c == Of(s, t)
        <5>1. x \notin c /\ c \in SUBSET S
          BY <4>1
        <5> HIDE DEF c, D
        <5>2. F(c \cup {x}) = f[x] + F(c) /\ F(c) \in Int
          BY ONLY IsFiniteSet(S), \A y \in S : f[y] \in Int, x \in S, <5>1, SumStep
        <5>3. QED
          BY <5>2 DEF c
      <4>3. d[t] = f[x]
        BY <3>1
      <4>4. F(Of(s \cup {x}, t)) = f[x] + F(Of(s, t))
        BY <4>1, <4>2
      <4> HIDE DEF F, Of, d
      <4>5. QED
        BY <2>1, <4>2, <4>3, <4>4
    <3>2. CASE t # group[x]
      <4>1. Of(s \cup {x}, t) = Of(s, t)
        BY <3>2
      <4>2. F(Of(s, t)) \in Int
        BY <1>2
      <4> HIDE DEF F, Of
      <4>3. QED
        BY <3>2, <4>1, <4>2
    <3>3. QED
      BY <3>1, <3>2
  <2>3. \A t \in T : a[t] \in Int /\ d[t] \in Int /\ b[t] = a[t] + d[t]
    <3>1. \A t \in T : d[t] \in Int
      BY <2>1
    <3> HIDE DEF d, F, Of
    <3>2. QED
      BY <1>2, <2>2, <3>1
  <2>4. SumFunctionOnSet(d, T) = f[x]
    <3>1. group[x] \in T /\ d[group[x]] = f[x] /\ \A t \in T \ {group[x]} : d[t] = 0
      OBVIOUS
    <3> HIDE DEF d
    <3>2. QED
      BY <2>1, <3>1, SumOnly
  <2> HIDE DEF d, a, b
  <2>5. SumFunctionOnSet(b, T) = SumFunctionOnSet(a, T) + SumFunctionOnSet(d, T)
    BY <2>3, SumPlus
  <2>6. SumFunctionOnSet(a, T) = F(s)
    BY <1>3 DEF a
  <2>7. SumFunctionOnSet(b, T) = F(s \cup {x})
    <3> HIDE DEF F
    <3>1. QED
      BY <2>1, <2>4, <2>5, <2>6
  <2>8. QED
    BY <1>3, <2>7 DEF b
<1> HIDE DEF Good
<1>4. S \in Good
  BY <1>1, <1>3, PartsInduction
<1>5. SumFunctionOnSet(D(S), T) = F(S)
  BY <1>4 DEF Good
<1>6. D(S) = SumsBy(f, S, group, T)
  BY DEF SumsBy
<1> HIDE DEF D
<1>7. QED
  BY <1>5, <1>6
=============================================================================
