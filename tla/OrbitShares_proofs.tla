------------------------- MODULE OrbitShares_proofs -------------------------
(***************************************************************************)
(* Proofs about the spreading of a repayment, for any number of positions  *)
(* and any balances.  Both the sum and what is left undistributed are      *)
(* defined along a sequence; what they compute is shown by induction on    *)
(* the position (SetInduction of Sums_proofs).                             *)
(***************************************************************************)
EXTENDS MCOrbitShares, Sums_proofs, TLAPS, SequenceTheorems

\* f runs along 0..n from base, each value computed from the one before.
Along(f, V, base, n, next) ==
  /\ f \in [0..n -> V]
  /\ f[0] = base
  /\ \A i \in 1..n : f[i] = next[<<f[i - 1], i>>]

\* There is such a function, whatever is computed.
LEMMA RecursionAlong ==
  ASSUME NEW V, NEW base, NEW n, NEW next,
         base \in V, n \in Nat, next \in [V \X (1..n) -> V]
  PROVE  \E f : Along(f, V, base, n, next)
<1> DEFINE S == {m \in Nat : m <= n => \E f : Along(f, V, base, m, next)}
<1>1. 0 \in S
  <2>1. Along([i \in 0..0 |-> base], V, base, 0, next)
    BY DEF Along
  <2>2. QED
    BY <2>1
<1>2. ASSUME NEW m \in Nat, m \in S
      PROVE  m + 1 \in S
  <2>1. SUFFICES ASSUME m + 1 <= n
                 PROVE  \E f : Along(f, V, base, m + 1, next)
    OBVIOUS
  <2>2. PICK f : Along(f, V, base, m, next)
    BY <1>2, <2>1
  <2> DEFINE g == [i \in 0..(m + 1) |-> IF i = m + 1 THEN next[<<f[m], m + 1>>] ELSE f[i]]
  <2>3. next[<<f[m], m + 1>>] \in V
    <3>1. f[m] \in V /\ m + 1 \in 1..n
      BY <2>1, <2>2 DEF Along
    <3>2. QED
      BY <3>1
  <2>4. g \in [0..(m + 1) -> V] /\ g[0] = base
    BY <2>2, <2>3 DEF Along
  <2>5. ASSUME NEW i \in 1..(m + 1)
        PROVE  g[i] = next[<<g[i - 1], i>>]
    <3>1. i \in 1..n /\ i - 1 \in 0..m /\ g[i - 1] = f[i - 1]
      BY <2>1
    <3>2. CASE i = m + 1
      <4>1. i - 1 = m /\ g[i] = next[<<f[m], m + 1>>]
        BY <3>2
      <4> HIDE DEF g
      <4>2. QED
        BY <3>1, <3>2, <4>1
    <3>3. CASE i # m + 1
      <4>1. i \in 1..m /\ g[i] = f[i] /\ f[i] = next[<<f[i - 1], i>>]
        BY <2>2, <3>3 DEF Along
      <4>2. QED
        BY <3>1, <4>1
    <3>4. QED
      BY <3>2, <3>3
  <2>6. Along(g, V, base, m + 1, next)
    BY <2>4, <2>5 DEF Along
  <2> HIDE DEF g
  <2>7. QED
    BY <2>6
<1>3. n \in S
  <2> HIDE DEF S
  <2>1. QED
    BY <1>1, <1>2, SetInduction
<1>4. QED
  BY <1>3
-----------------------------------------------------------------------------
\* Total adds up a sequence.
LEMMA TotalAlong ==
  ASSUME NEW amounts \in Seq(Nat)
  PROVE  \E sum \in [0..Len(amounts) -> Nat] :
           /\ sum[0] = 0
           /\ \A i \in 1..Len(amounts) : sum[i] = sum[i - 1] + amounts[i]
           /\ Total(amounts) = sum[Len(amounts)]
<1> DEFINE n == Len(amounts)
           next == [p \in Nat \X (1..n) |-> p[1] + amounts[p[2]]]
           IsSum(f) == f = [i \in 0..n |-> IF i = 0 THEN 0 ELSE f[i - 1] + amounts[i]]
           sum == CHOOSE f : IsSum(f)
<1>1. n \in Nat /\ amounts \in [1..n -> Nat]
  BY LenProperties
<1>2. next \in [Nat \X (1..n) -> Nat]
  BY <1>1
<1>3. PICK f : Along(f, Nat, 0, n, next)
  <2>1. n \in Nat /\ 0 \in Nat
    BY <1>1
  <2> HIDE DEF n, next
  <2>2. QED
    BY <1>2, <2>1, RecursionAlong
<1>4. \A i \in 1..n : f[i] = f[i - 1] + amounts[i]
  <2>1. SUFFICES ASSUME NEW i \in 1..n PROVE f[i] = f[i - 1] + amounts[i]
    OBVIOUS
  <2>2. i - 1 \in 0..n
    BY <1>1
  <2>3. f[i - 1] \in Nat
    BY <1>3, <2>2 DEF Along
  <2>4. QED
    BY <1>3, <2>3 DEF Along
<1>5. IsSum(f)
  <2> DEFINE g == [i \in 0..n |-> IF i = 0 THEN 0 ELSE f[i - 1] + amounts[i]]
  <2>1. \A i \in 0..n : f[i] = g[i]
    BY <1>1, <1>3, <1>4 DEF Along
  <2> HIDE DEF n
  <2>2. f = [i \in 0..n |-> f[i]] /\ g = [i \in 0..n |-> g[i]]
    BY <1>3 DEF Along
  <2>3. f = g
    BY <2>1, <2>2
  <2>4. QED
    BY <2>3
<1>6. IsSum(sum)
  <2> HIDE DEF IsSum
  <2>1. QED
    BY <1>5
<1> HIDE DEF sum
<1>7. sum[0] = 0 /\ \A i \in 1..n : sum[i] = sum[i - 1] + amounts[i]
  <2>1. 0 \in 0..n /\ \A i \in 1..n : i \in 0..n /\ i # 0
    BY <1>1
  <2> HIDE DEF n
  <2>2. QED
    BY <1>6, <2>1
<1>8. \A i \in 0..n : sum[i] \in Nat
  <2> DEFINE S == {i \in Nat : i <= n => sum[i] \in Nat}
  <2>1. 0 \in S
    BY <1>7
  <2>2. ASSUME NEW i \in Nat, i \in S
        PROVE  i + 1 \in S
    BY <1>1, <1>7, <2>2
  <2>3. Nat \subseteq S
    <3> HIDE DEF S
    <3>1. QED
      BY <2>1, <2>2, SetInduction
  <2>4. QED
    BY <1>1, <2>3
<1>9. sum \in [0..n -> Nat]
  BY <1>6, <1>8
<1>10. Total(amounts) = sum[n]
  BY DEF Total, sum
<1>11. QED
  BY <1>7, <1>9, <1>10

\* The sum of a sequence of amounts is an amount.
LEMMA TotalNat ==
  ASSUME NEW amounts \in Seq(Nat)
  PROVE  Total(amounts) \in Nat
<1>1. PICK sum \in [0..Len(amounts) -> Nat] : Total(amounts) = sum[Len(amounts)]
  BY TotalAlong
<1>2. Len(amounts) \in 0..Len(amounts)
  BY LenProperties
<1>3. QED
  BY <1>1, <1>2
-----------------------------------------------------------------------------
\* The least of three amounts is one of them.
LEMMA MinOfThree ==
  ASSUME NEW a \in Int, NEW b \in Int, NEW c \in Int
  PROVE  LET m == Min({a, b, c})
         IN  m \in {a, b, c} /\ m <= a /\ m <= b /\ m <= c
<1> DEFINE S == {a, b, c}
<1>1. \E x \in S : \A y \in S : x <= y
  <2>1. CASE a <= b /\ a <= c
    BY <2>1
  <2>2. CASE b <= a /\ b <= c
    BY <2>2
  <2>3. CASE c <= a /\ c <= b
    BY <2>3
  <2>4. QED
    BY <2>1, <2>2, <2>3
<1>2. Min(S) \in S /\ \A y \in S : Min(S) <= y
  <2> HIDE DEF S
  <2>1. QED
    BY <1>1 DEF Min
<1>3. QED
  BY <1>2

\* Division rounded up exceeds the exact quotient by less than one.
LEMMA CeilDivBounds ==
  ASSUME NEW a \in Nat, NEW b \in Nat \ {0}
  PROVE  /\ CeilDiv(a, b) \in Nat
         /\ b * CeilDiv(a, b) >= a
         /\ b * CeilDiv(a, b) < a + b
  BY DEF CeilDiv

\* No amount is larger than the sum, and the sums so far only grow.
LEMMA SumsGrow ==
  ASSUME NEW n \in Nat, NEW sum \in [0..n -> Nat], NEW r \in [1..n -> Nat],
         \A i \in 1..n : sum[i] = sum[i - 1] + r[i]
  PROVE  \A i \in 0..n : sum[i] <= sum[n]
<1> DEFINE S == {k \in Nat : k <= n => sum[n - k] <= sum[n]}
<1>1. 0 \in S
  OBVIOUS
<1>2. ASSUME NEW k \in Nat, k \in S
      PROVE  k + 1 \in S
  <2>1. SUFFICES ASSUME k + 1 <= n PROVE sum[n - (k + 1)] <= sum[n]
    OBVIOUS
  <2>2. n - k \in 1..n /\ n - (k + 1) \in 0..n /\ n - (k + 1) = n - k - 1
    BY <2>1
  <2>3. sum[n - k] = sum[n - (k + 1)] + r[n - k]
    BY <2>2
  <2>4. sum[n - (k + 1)] \in Nat /\ r[n - k] \in Nat /\ sum[n] \in Nat /\ sum[n - k] <= sum[n]
    BY <1>2, <2>2
  <2>5. QED
    BY ONLY <2>3, <2>4
<1>3. Nat \subseteq S
  <2> HIDE DEF S
  <2>1. QED
    BY <1>1, <1>2, SetInduction
<1>4. SUFFICES ASSUME NEW i \in 0..n PROVE sum[i] <= sum[n]
  OBVIOUS
<1>5. n - i \in Nat /\ n - i <= n /\ n - (n - i) = i
  OBVIOUS
<1>6. n - i \in S
  BY <1>3, <1>5
<1>7. QED
  BY <1>5, <1>6
-----------------------------------------------------------------------------
\* What the i-th position is given when `before` is left.
GivenOut(p, r, all, before) == Min({CeilDiv(p * r, all), r, before})

\* What is left undistributed goes down, position by position, by what is given out.
LEMMA LeftAlong ==
  ASSUME NEW r \in Seq(Nat \ {0}), NEW p \in Nat, Total(r) \in Nat \ {0}
  PROVE  \E left \in [0..Len(r) -> Int] :
           /\ left = Undistributed(p, r)
           /\ left[0] = p
           /\ \A i \in 1..Len(r) :
                left[i] = left[i - 1] - GivenOut(p, r[i], Total(r), left[i - 1])
<1> DEFINE n == Len(r)
           all == Total(r)
           next == [q \in Int \X (1..n) |-> q[1] - GivenOut(p, r[q[2]], all, q[1])]
           IsLeft(f) ==
             f = [i \in 0..n |->
                    IF i = 0 THEN p
                    ELSE LET before == f[i - 1]
                         IN  before - Min({CeilDiv(p * r[i], all), r[i], before})]
           left == CHOOSE f : IsLeft(f)
<1>1. n \in Nat /\ r \in [1..n -> Nat \ {0}] /\ all \in Nat \ {0}
  BY LenProperties
<1> HIDE DEF n, all
<1>2. \A i \in 1..n, before \in Int : GivenOut(p, r[i], all, before) \in Int
  <2>1. SUFFICES ASSUME NEW i \in 1..n, NEW before \in Int
                 PROVE  GivenOut(p, r[i], all, before) \in Int
    OBVIOUS
  <2>2. r[i] \in Int /\ p * r[i] \in Nat
    BY <1>1
  <2>3. CeilDiv(p * r[i], all) \in Int
    <3>1. CeilDiv(p * r[i], all) \in Nat
      BY ONLY <1>1, <2>2, CeilDivBounds
    <3>2. QED
      BY ONLY <3>1
  <2>4. GivenOut(p, r[i], all, before) \in {CeilDiv(p * r[i], all), r[i], before}
    BY <2>2, <2>3, MinOfThree, Zenon DEF GivenOut
  <2>5. QED
    BY <2>2, <2>3, <2>4
<1>3. next \in [Int \X (1..n) -> Int]
  <2>1. SUFFICES ASSUME NEW q \in Int \X (1..n)
                 PROVE  q[1] - GivenOut(p, r[q[2]], all, q[1]) \in Int
    OBVIOUS
  <2>2. q[1] \in Int /\ q[2] \in 1..n
    OBVIOUS
  <2>3. GivenOut(p, r[q[2]], all, q[1]) \in Int
    BY <1>2, <2>2
  <2>4. QED
    BY <2>2, <2>3
<1>4. PICK f : Along(f, Int, p, n, next)
  <2>1. p \in Int
    OBVIOUS
  <2> HIDE DEF next
  <2>2. QED
    BY <1>1, <1>3, <2>1, RecursionAlong
<1>5. \A i \in 1..n : f[i] = f[i - 1] - GivenOut(p, r[i], all, f[i - 1])
  <2>1. SUFFICES ASSUME NEW i \in 1..n
                 PROVE  f[i] = f[i - 1] - GivenOut(p, r[i], all, f[i - 1])
    OBVIOUS
  <2>2. i - 1 \in 0..n
    BY <1>1
  <2>3. f[i - 1] \in Int
    BY <1>4, <2>2 DEF Along
  <2>4. QED
    BY <1>4, <2>3 DEF Along
<1>6. IsLeft(f)
  <2> DEFINE g == [i \in 0..n |->
                     IF i = 0 THEN p
                     ELSE f[i - 1] - Min({CeilDiv(p * r[i], all), r[i], f[i - 1]})]
  <2>1. \A i \in 0..n : i # 0 => i \in 1..n
    BY <1>1
  <2>2. \A i \in 0..n : f[i] = g[i]
    BY <1>4, <1>5, <2>1 DEF Along, GivenOut
  <2>3. f = [i \in 0..n |-> f[i]] /\ g = [i \in 0..n |-> g[i]]
    BY <1>4 DEF Along
  <2>4. f = g
    BY <2>2, <2>3
  <2>5. QED
    BY <2>4
<1>7. IsLeft(left)
  <2> HIDE DEF IsLeft
  <2>1. QED
    BY <1>6
<1> HIDE DEF left
<1>8. left[0] = p /\ \A i \in 1..n : left[i] = left[i - 1] - GivenOut(p, r[i], all, left[i - 1])
  <2>1. 0 \in 0..n /\ \A i \in 1..n : i \in 0..n /\ i # 0
    BY <1>1
  <2>2. QED
    BY <1>7, <2>1 DEF GivenOut
<1>9. \A i \in 0..n : left[i] \in Int
  <2> DEFINE S == {i \in Nat : i <= n => left[i] \in Int}
  <2>1. 0 \in S
    BY <1>8
  <2>2. ASSUME NEW i \in Nat, i \in S
        PROVE  i + 1 \in S
    <3>1. SUFFICES ASSUME i + 1 <= n PROVE left[i + 1] \in Int
      OBVIOUS
    <3>2. i + 1 \in 1..n /\ (i + 1) - 1 = i /\ left[i] \in Int
      BY <1>1, <2>2, <3>1
    <3>3. left[i + 1] = left[i] - GivenOut(p, r[i + 1], all, left[i])
      BY <1>8, <3>2
    <3>4. GivenOut(p, r[i + 1], all, left[i]) \in Int
      BY <1>2, <3>2
    <3>5. QED
      BY <3>2, <3>3, <3>4
  <2>3. Nat \subseteq S
    <3> HIDE DEF S
    <3>1. QED
      BY <2>1, <2>2, SetInduction
  <2>4. QED
    BY <1>1, <2>3
<1>10. left \in [0..n -> Int]
  BY <1>7, <1>9
<1>11. left = Undistributed(p, r)
  BY DEF Undistributed, left, all, n
<1>12. QED
  BY <1>8, <1>10, <1>11 DEF all, n
-----------------------------------------------------------------------------
\* One step of the distribution.  `o` is what is owed on the positions not yet
\* reached, this one included; before and after the step what is left is at most
\* the exact part of what remains to be reached, and short of it by less than one
\* unit for each position passed.
LEMMA OneShare ==
  ASSUME NEW p \in Nat, NEW r \in Nat \ {0}, NEW all \in Nat \ {0}, NEW o \in Nat,
         NEW i \in Nat, NEW before \in Nat,
         p <= all, r <= o, o <= all,
         all * before <= p * o,
         all * before + i * (all - 1) >= p * o
  PROVE  LET given == GivenOut(p, r, all, before)
             left  == before - given
         IN  /\ given \in 0..r
             /\ left \in Nat
             /\ all * left <= p * (o - r)
             /\ all * left + (i + 1) * (all - 1) >= p * (o - r)
             /\ all * given < p * r + all
             /\ all * (given + i) >= p * r
<1> DEFINE c == CeilDiv(p * r, all)
           given == GivenOut(p, r, all, before)
           left  == before - given
<1>1. c \in Nat /\ all * c >= p * r /\ all * c < p * r + all
  <2>1. p * r \in Nat
    OBVIOUS
  <2>2. QED
    BY <2>1, CeilDivBounds
<1>2. given \in {c, r, before} /\ given <= c /\ given <= r /\ given <= before
  <2>1. c \in Int /\ r \in Int /\ before \in Int
    BY <1>1
  <2> HIDE DEF c
  <2>2. QED
    BY <2>1, MinOfThree, Zenon DEF GivenOut, c
<1> HIDE DEF c, given
<1>3. given \in Nat /\ left \in Nat
  BY <1>1, <1>2
<1>4. all * given <= all * c
  BY <1>1, <1>2, <1>3
<1>5. all * r >= p * r
  OBVIOUS
<1>6. p * (o - r) = p * o - p * r /\ all * left = all * before - all * given
  BY <1>3
<1>7. i * (all - 1) <= i * all /\ (i + 1) * (all - 1) = i * (all - 1) + all - 1
  OBVIOUS
<1>8. all * (given + i) = all * given + i * all
  BY <1>3
<1>9. p * (o - r) >= 0 /\ p * o >= p * r
  <2>1. p * (o - r) >= 0
    OBVIOUS
  <2>2. p * o \in Int /\ p * r \in Int
    OBVIOUS
  <2>3. QED
    BY <1>6, <2>1, <2>2
<1>10. all * left <= p * (o - r) /\ all * (given + i) >= p * r
  <2>1. CASE given = c
    BY <1>1, <1>3, <1>6, <1>7, <1>8, <2>1
  <2>2. CASE given = r
    BY <1>3, <1>5, <1>6, <1>7, <1>8, <2>2
  <2>3. CASE given = before
    <3>1. left = 0 /\ all * left = 0
      BY <1>3, <2>3
    <3>2. QED
      BY <1>3, <1>7, <1>8, <1>9, <2>3, <3>1
  <2>4. QED
    BY <1>2, <2>1, <2>2, <2>3
<1>11. all * given < p * r + all
  BY <1>1, <1>3, <1>4
<1>12. all * left + (i + 1) * (all - 1) >= p * (o - r)
  BY <1>3, <1>6, <1>7, <1>11
<1>13. QED
  BY <1>2, <1>3, <1>10, <1>11, <1>12 DEF given
-----------------------------------------------------------------------------
\* The whole distribution, when something is owed: nothing is left over, and each
\* position's share keeps the bounds of OneShare.
FairShare(share, r, p, all, i) ==
  /\ share \in 0..r[i]
  /\ all * share < p * r[i] + all
  /\ all * (share + i - 1) >= p * r[i]

Spreads(left, r, p, all, n) ==
  /\ left = Undistributed(p, r)
  /\ left[0] = p
  /\ left[n] = 0
  /\ p = 0 => \A i \in 0..n : left[i] = 0
  /\ \A i \in 1..n : FairShare(left[i - 1] - left[i], r, p, all, i)

LEMMA Distribution ==
  ASSUME NEW r \in Seq(Nat \ {0}), NEW p \in 0..Total(r), Len(r) # 0
  PROVE  /\ Total(r) \in Nat \ {0}
         /\ \E left \in [0..Len(r) -> Nat] : Spreads(left, r, p, Total(r), Len(r))
<1> DEFINE all == Total(r)
           n   == Len(r)
<1>1. n \in Nat \ {0} /\ r \in [1..n -> Nat \ {0}] /\ r \in Seq(Nat)
  BY LenProperties
<1>2. PICK sum \in [0..n -> Nat] : /\ sum[0] = 0
                                   /\ \A i \in 1..n : sum[i] = sum[i - 1] + r[i]
                                   /\ all = sum[n]
  BY <1>1, TotalAlong
<1>3. p \in Nat /\ p <= all /\ all \in Nat
  BY <1>1, <1>2
<1> HIDE DEF n
<1>4. \A i \in 0..n : sum[i] <= all
  <2>1. n \in Nat /\ r \in [1..n -> Nat]
    BY <1>1
  <2>2. \A i \in 0..n : sum[i] <= sum[n]
    BY <1>2, <2>1, SumsGrow
  <2>3. QED
    BY <1>1, <1>2, <1>3, <2>2
<1>5. all \in Nat \ {0}
  <2>1. 1 \in 1..n /\ 1 \in 0..n /\ 1 - 1 = 0
    BY <1>1
  <2>2. sum[1] = r[1] /\ r[1] > 0 /\ sum[1] <= all
    BY <1>1, <1>2, <1>4, <2>1
  <2>3. QED
    BY <1>1, <1>3, <2>1, <2>2
<1>6. PICK left \in [0..n -> Int] :
        /\ left = Undistributed(p, r)
        /\ left[0] = p
        /\ \A i \in 1..n : left[i] = left[i - 1] - GivenOut(p, r[i], all, left[i - 1])
  <2>1. \E left \in [0..Len(r) -> Int] :
           /\ left = Undistributed(p, r)
           /\ left[0] = p
           /\ \A i \in 1..Len(r) :
                left[i] = left[i - 1] - GivenOut(p, r[i], Total(r), left[i - 1])
    BY <1>3, <1>5, LeftAlong
  <2>2. QED
    BY <2>1 DEF n
<1> HIDE DEF all
<1> DEFINE Ok(i) == /\ left[i] \in Nat
                    /\ all * left[i] <= p * (all - sum[i])
                    /\ all * left[i] + i * (all - 1) >= p * (all - sum[i])
           Given(i) == LET share == left[i] - left[i + 1]
                       IN  /\ share \in 0..r[i + 1]
                           /\ all * share < p * r[i + 1] + all
                           /\ all * (share + i) >= p * r[i + 1]
<1>7. ASSUME NEW i \in Nat, i + 1 <= n, Ok(i)
      PROVE  Ok(i + 1) /\ Given(i)
  <2> DEFINE o == all - sum[i]
  <2>1. i \in 0..n /\ i + 1 \in 1..n /\ i + 1 \in 0..n /\ (i + 1) - 1 = i
    BY <1>1, <1>7
  <2>2. sum[i + 1] = sum[i] + r[i + 1] /\ sum[i] \in Nat /\ sum[i + 1] \in Nat
    BY <1>2, <2>1
  <2>3. r[i + 1] \in Nat \ {0} /\ sum[i + 1] <= all /\ sum[i] <= all
    BY <1>1, <1>4, <2>1
  <2>4. o \in Nat /\ r[i + 1] <= o /\ o <= all /\ o - r[i + 1] = all - sum[i + 1]
    <3> DEFINE s == sum[i]
               t == sum[i + 1]
               d == r[i + 1]
    <3>1. all \in Nat /\ s \in Nat /\ t \in Nat /\ d \in Nat
      BY <1>3, <2>2, <2>3
    <3>2. t = s + d /\ t <= all
      BY <2>2, <2>3
    <3> HIDE DEF s, t, d
    <3>3. all - s \in Nat /\ d <= all - s /\ all - s <= all /\ (all - s) - d = all - t
      BY <3>1, <3>2
    <3>4. QED
      BY <3>3 DEF s, t, d
  <2>5. left[i + 1] = left[i] - GivenOut(p, r[i + 1], all, left[i])
    BY <1>6, <2>1
  <2>6. left[i] \in Nat /\ all * left[i] <= p * o /\ all * left[i] + i * (all - 1) >= p * o
    BY <1>7
  <2> DEFINE given == GivenOut(p, r[i + 1], all, left[i])
  <2> HIDE DEF o, Ok, Given
  <2>7. /\ given \in 0..r[i + 1]
        /\ left[i] - given \in Nat
        /\ all * (left[i] - given) <= p * (o - r[i + 1])
        /\ all * (left[i] - given) + (i + 1) * (all - 1) >= p * (o - r[i + 1])
        /\ all * given < p * r[i + 1] + all
        /\ all * (given + i) >= p * r[i + 1]
    BY <1>3, <1>5, <2>3, <2>4, <2>6, OneShare
  <2> HIDE DEF given
  <2>8. given \in Int /\ left[i + 1] = left[i] - given /\ left[i] - left[i + 1] = given
    BY ONLY <2>3, <2>5, <2>6, <2>7 DEF given
  <2>9. Ok(i + 1)
    BY <2>4, <2>7, <2>8 DEF Ok
  <2>10. Given(i)
    BY <2>7, <2>8 DEF Given
  <2>11. QED
    BY <2>9, <2>10
<1>8. \A i \in 0..n : Ok(i)
  <2> DEFINE S == {i \in Nat : i <= n => Ok(i)}
  <2>1. 0 \in S
    <3>1. left[0] = p /\ sum[0] = 0
      BY <1>2, <1>6
    <3>2. QED
      BY <1>3, <1>5, <3>1
  <2>2. ASSUME NEW i \in Nat, i \in S
        PROVE  i + 1 \in S
    <3> HIDE DEF Ok, Given
    <3>1. SUFFICES ASSUME i + 1 <= n PROVE Ok(i + 1)
      OBVIOUS
    <3>2. Ok(i)
      BY <1>1, <2>2, <3>1
    <3>3. QED
      BY <1>7, <3>1, <3>2
  <2> HIDE DEF Ok
  <2>3. Nat \subseteq S
    <3> HIDE DEF S
    <3>1. QED
      BY <2>1, <2>2, SetInduction
  <2>4. QED
    BY <1>1, <2>3
<1>9. left \in [0..n -> Nat]
  BY <1>6, <1>8
<1>10. left[n] = 0
  <2>1. n \in 0..n /\ sum[n] = all
    BY <1>1, <1>2
  <2>2. left[n] \in Nat /\ all * left[n] <= p * (all - all)
    BY <1>8, <2>1
  <2>3. all * left[n] <= 0
    BY <1>3, <1>5, <2>2
  <2> HIDE DEF n
  <2>4. \A x \in Nat : all * x <= 0 => x = 0
    BY <1>5
  <2>5. QED
    BY <2>2, <2>3, <2>4
<1>11. ASSUME p = 0, NEW i \in 0..n
       PROVE  left[i] = 0
  <2>1. left[i] \in Nat /\ all * left[i] <= 0 * (all - sum[i])
    BY <1>8, <1>11
  <2>2. sum[i] \in Nat
    BY <1>2
  <2>3. all * left[i] <= 0
    BY <1>5, <2>1, <2>2
  <2>4. \A x \in Nat : all * x <= 0 => x = 0
    BY ONLY <1>5
  <2>5. QED
    BY ONLY <2>1, <2>3, <2>4
<1>12. ASSUME NEW i \in 1..n
       PROVE  FairShare(left[i - 1] - left[i], r, p, all, i)
  <2>1. i - 1 \in Nat /\ i - 1 \in 0..n /\ (i - 1) + 1 = i /\ i <= n
    BY <1>1
  <2>2. Given(i - 1)
    <3> HIDE DEF Ok, Given
    <3>1. QED
      BY <1>7, <1>8, <2>1
  <2>3. left[i] \in Nat /\ left[i - 1] \in Nat
    BY <1>9, <2>1
  <2>4. (left[i - 1] - left[i]) + (i - 1) = left[i - 1] - left[i] + i - 1
    BY <2>3
  <2>5. QED
    BY <2>1, <2>2, <2>4 DEF FairShare
<1>13. Spreads(left, r, p, all, n)
  BY <1>6, <1>10, <1>11, <1>12 DEF Spreads
<1>14. QED
  BY <1>5, <1>9, <1>13 DEF all, n
-----------------------------------------------------------------------------
\* What DistributesPot and Proportional say of the balances and the amount at hand.
LEMMA SpreadsEvenly ==
  ASSUME remaining \in Seq(Nat \ {0}), pot \in 0..Total(remaining)
  PROVE  DistributesPot /\ Proportional
<1> DEFINE n == Len(remaining)
           all == Total(remaining)
           shares == Shares(pot, remaining)
<1>1. n \in Nat /\ remaining \in [1..n -> Nat \ {0}] /\ remaining \in Seq(Nat)
  BY LenProperties
<1>2. CASE n = 0
  <2>1. all = 0
    BY <1>1, <1>2, TotalAlong
  <2>2. pot = 0
    BY <2>1
  <2>3. shares = [i \in 1..0 |-> 0]
    BY <1>2, <2>2 DEF Shares
  <2>4. shares \in Seq(Nat) /\ Len(shares) = 0 /\ DOMAIN shares = {}
    BY <2>3
  <2>5. Total(shares) = 0
    <3> HIDE DEF shares
    <3>1. QED
      BY <2>4, TotalAlong
  <2>6. QED
    BY <2>2, <2>4, <2>5 DEF DistributesPot, Proportional
<1>3. CASE n # 0
  <2> PICK left \in [0..n -> Nat] : Spreads(left, remaining, pot, all, n)
    BY <1>3, Distribution
  <2>2. all \in Nat
    BY <1>3, Distribution
  <2> HIDE DEF n, all
  <2>1. /\ left = Undistributed(pot, remaining)
        /\ left[0] = pot
        /\ left[n] = 0
        /\ pot = 0 => \A i \in 0..n : left[i] = 0
        /\ \A i \in 1..n : FairShare(left[i - 1] - left[i], remaining, pot, all, i)
    BY DEF Spreads
  <2>3. shares = [i \in 1..n |-> left[i - 1] - left[i]]
    <3>1. \A i \in 1..n : i - 1 \in 0..n /\ i \in 0..n
      BY <1>1
    <3>2. shares = [i \in 1..n |-> IF pot = 0 THEN 0 ELSE left[i - 1] - left[i]]
      BY <2>1 DEF Shares, n
    <3>3. pot = 0 => \A i \in 1..n : left[i - 1] - left[i] = 0
      BY <2>1, <3>1
    <3> HIDE DEF shares
    <3>4. QED
      BY <3>2, <3>3
  <2> HIDE DEF shares
  <2>4. DOMAIN shares = 1..n /\ \A i \in 1..n : shares[i] = left[i - 1] - left[i]
    BY <2>3
  <2>5. \A i \in 1..n : /\ shares[i] \in 0..remaining[i]
                        /\ shares[i] \in Nat
                        /\ all * shares[i] < pot * remaining[i] + all
                        /\ all * (shares[i] + i - 1) >= pot * remaining[i]
    <3>1. SUFFICES ASSUME NEW i \in 1..n
                   PROVE  shares[i] \in Nat /\ FairShare(shares[i], remaining, pot, all, i)
      BY DEF FairShare
    <3>2. FairShare(shares[i], remaining, pot, all, i)
      BY <2>1, <2>4
    <3>3. remaining[i] \in Nat
      BY <1>1
    <3>4. shares[i] \in 0..remaining[i]
      BY <3>2 DEF FairShare
    <3>5. QED
      BY ONLY <3>2, <3>3, <3>4
  <2>6. shares \in Seq(Nat) /\ Len(shares) = n
    <3>1. shares \in [1..n -> Nat]
      BY <2>3, <2>4, <2>5
    <3>2. QED
      BY <1>1, <3>1
  <2>7. PICK sum \in [0..n -> Nat] : /\ sum[0] = 0
                                     /\ \A i \in 1..n : sum[i] = sum[i - 1] + shares[i]
                                     /\ Total(shares) = sum[n]
    BY <2>6, TotalAlong
  <2>8. pot \in Nat
    BY <1>1, <2>1
  <2>9. \A i \in 0..n : sum[i] = pot - left[i]
    <3> DEFINE S == {i \in Nat : i <= n => sum[i] = pot - left[i]}
    <3>1. 0 \in S
      BY <2>1, <2>7
    <3>2. ASSUME NEW i \in Nat, i \in S
          PROVE  i + 1 \in S
      <4>1. SUFFICES ASSUME i + 1 <= n PROVE sum[i + 1] = pot - left[i + 1]
        OBVIOUS
      <4>2. i \in 0..n /\ i + 1 \in 1..n /\ i + 1 \in 0..n /\ (i + 1) - 1 = i
        BY <1>1, <4>1
      <4>3. sum[i] = pot - left[i]
        BY <1>1, <3>2, <4>1
      <4>4. sum[i + 1] = sum[i] + shares[i + 1] /\ shares[i + 1] = left[i] - left[i + 1]
        BY <2>4, <2>7, <4>2
      <4>5. left[i] \in Nat /\ left[i + 1] \in Nat
        BY <2>1, <4>2
      <4>6. QED
        BY <2>8, <4>3, <4>4, <4>5
    <3>3. Nat \subseteq S
      <4> HIDE DEF S
      <4>1. QED
        BY <3>1, <3>2, SetInduction
    <3>4. QED
      BY <1>1, <3>3
  <2>10. Total(shares) = pot
    <3>1. n \in 0..n
      BY <1>1
    <3>2. QED
      BY <2>1, <2>7, <2>9, <2>8, <3>1
  <2>11. DistributesPot
    BY <2>4, <2>5, <2>10 DEF DistributesPot, shares
  <2>12. Proportional
    BY <2>4, <2>5 DEF Proportional, shares, all
  <2>13. QED
    BY <2>11, <2>12
<1>4. QED
  BY <1>2, <1>3

\* The balances at hand are positive, and the amount paid is one they can absorb.
Inputs == /\ remaining \in Seq(Nat \ {0})
          /\ pot \in 0..Total(remaining)

\* Every balance and amount Spec builds up is of that form.
LEMMA InputsInvariant == Spec => []Inputs
<1>1. Init => Inputs
  <2>1. SUFFICES ASSUME Init PROVE Inputs
    OBVIOUS
  <2>2. remaining = <<>> /\ remaining \in Seq(Nat \ {0}) /\ remaining \in Seq(Nat) /\ pot = 0
    BY <2>1 DEF Init
  <2>3. Total(remaining) \in Nat
    BY <2>2, TotalNat
  <2>4. QED
    BY <2>2, <2>3 DEF Inputs
<1>2. Inputs /\ [AddPosition \/ PayIn]_<<remaining, pot>> => Inputs'
  <2>1. SUFFICES ASSUME Inputs, [AddPosition \/ PayIn]_<<remaining, pot>>
                 PROVE  Inputs'
    OBVIOUS
  <2>2. CASE AddPosition
    <3>1. PICK balance \in 1..MaxBalance : remaining' = Append(remaining, balance)
      BY <2>2 DEF AddPosition
    <3>2. remaining' \in Seq(Nat \ {0}) /\ remaining' \in Seq(Nat)
      <4>1. balance \in Nat \ {0}
        BY BoundsAssumption
      <4>2. QED
        BY <2>1, <3>1, <4>1 DEF Inputs
    <3>3. Total(remaining') \in Nat
      <4> DEFINE r == remaining'
      <4> HIDE DEF r
      <4>1. r \in Seq(Nat)
        BY <3>2 DEF r
      <4>2. Total(r) \in Nat
        BY <4>1, TotalNat
      <4>3. QED
        BY <4>2 DEF r
    <3>4. pot' = 0
      BY <2>2 DEF AddPosition
    <3>5. QED
      BY <3>2, <3>3, <3>4 DEF Inputs
  <2>3. CASE PayIn
    BY <2>1, <2>3 DEF PayIn, Inputs
  <2>4. CASE UNCHANGED <<remaining, pot>>
    BY <2>1, <2>4 DEF Inputs
  <2>5. QED
    BY <2>1, <2>2, <2>3, <2>4
<1>3. QED
  BY <1>1, <1>2, PTL DEF Spec

\* A repayment is distributed to the last unit, and nobody gets more than is owed to
\* it (repay.rs 168-206), however many positions are supplied and whatever is owed.
THEOREM DistributesPotTheorem == Spec => []DistributesPot
<1>1. Inputs => DistributesPot
  BY SpreadsEvenly DEF Inputs
<1>2. QED
  BY <1>1, InputsInvariant, PTL

\* Each lender gets its exact part to less than one unit more, and one unit less for
\* each lender supplied before it.
THEOREM ProportionalTheorem == Spec => []Proportional
<1>1. Inputs => Proportional
  BY SpreadsEvenly DEF Inputs
<1>2. QED
  BY <1>1, InputsInvariant, PTL
=============================================================================
