----------------------------- MODULE Induction -----------------------------
(***************************************************************************)
(* Induction over the naturals and over sequences, with a set in the place *)
(* of the predicate: the set of the numbers for which the claim holds.     *)
(***************************************************************************)
EXTENDS Totals, WellFoundedInduction, TLAPS

(* A set of naturals has a least element.                                  *)
LEMMA LeastNatural ==
  ASSUME NEW T \in SUBSET Nat, T # {}
  PROVE  \E x \in T : \A y \in T : x <= y
  <1> DEFINE R == OpToRel(<, Nat)
  <1>1. PICK x \in T : \A y \in T : <<y, x>> \notin R
    <2>1. IsWellFoundedOn(R, Nat)
      BY NatLessThanWellFounded
    <2> HIDE DEF R
    <2> QED
      BY <2>1, WFMin
  <1>2. \A y \in T : ~(y < x)
    BY <1>1 DEF OpToRel
  <1> QED
    BY <1>2

(* What holds of 0 and of every successor up to n holds up to n.           *)
LEMMA InductionUpTo ==
  ASSUME NEW n \in Nat, NEW S, 0 \in S,
         \A i \in 1 .. n : i - 1 \in S => i \in S
  PROVE  \A i \in 0 .. n : i \in S
  <1> DEFINE bad == {i \in 0 .. n : i \notin S}
  <1> SUFFICES ASSUME bad # {} PROVE FALSE
    OBVIOUS
  <1>1. PICK x \in bad : \A y \in bad : x <= y
    <2>1. bad \in SUBSET Nat
      OBVIOUS
    <2> HIDE DEF bad
    <2> QED
      BY <2>1, LeastNatural
  <1>2. x \in 1 .. n /\ x - 1 \in 0 .. n /\ x - 1 \notin bad
    BY <1>1
  <1> QED
    BY <1>1, <1>2

(* A recursion over 0 .. n: its values are in T, and the i-th step makes   *)
(* the i-th value of the one before it.                                    *)
Steps(n, T) == [1 .. n -> [T -> T]]

IsRecursion(f, n, T, base, step) ==
  /\ f \in [0 .. n -> T] /\ f[0] = base
  /\ \A i \in 1 .. n : f[i] = step[i][f[i - 1]]

(* A recursion over 0 .. n has a solution.                                 *)
LEMMA RecursionHasSolution ==
  ASSUME NEW n \in Nat, NEW T, NEW base \in T, NEW step \in Steps(n, T)
  PROVE  \E f : IsRecursion(f, n, T, base, step)
  <1> USE DEF Steps
  <1> DEFINE Solves(f, m) ==
        /\ f \in [0 .. n -> T] /\ f[0] = base
        /\ \A i \in 1 .. m : f[i] = step[i][f[i - 1]]
      S == {m \in 0 .. n : \E f \in [0 .. n -> T] : Solves(f, m)}
  <1>1. 0 \in S
    <2> DEFINE f == [i \in 0 .. n |-> base]
    <2>1. f \in [0 .. n -> T] /\ Solves(f, 0)
      OBVIOUS
    <2> HIDE DEF f, Solves
    <2> QED
      BY <2>1
  <1>2. ASSUME NEW m \in 1 .. n, m - 1 \in S PROVE m \in S
    <2>1. PICK f \in [0 .. n -> T] : Solves(f, m - 1)
      BY <1>2
    <2> DEFINE g == [f EXCEPT ![m] = step[m][f[m - 1]]]
    <2>2. step[m][f[m - 1]] \in T
      OBVIOUS
    <2>3. g \in [0 .. n -> T]
      BY <2>2
    <2>4. g[0] = base
      BY <2>1
    <2>5. ASSUME NEW i \in 1 .. m PROVE g[i] = step[i][g[i - 1]]
      <3>1. i - 1 \in 0 .. n /\ i - 1 # m /\ i \in 0 .. n
        OBVIOUS
      <3>2. g[i - 1] = f[i - 1]
        BY <3>1
      <3>3. CASE i = m
        BY <3>2, <3>3
      <3>4. CASE i # m
        <4>1. i \in 1 .. m - 1 /\ g[i] = f[i]
          BY <3>1, <3>4
        <4> QED
          BY <4>1, <3>2, <2>1
      <3> QED
        BY <3>3, <3>4
    <2>6. g \in [0 .. n -> T] /\ Solves(g, m)
      BY <2>3, <2>4, <2>5
    <2> HIDE DEF g, Solves
    <2> QED
      BY <2>6
  <1>3. n \in S
    <2>1. \A i \in 1 .. n : i - 1 \in S => i \in S
      BY <1>2
    <2>2. \A i \in 0 .. n : i \in S
      <3> HIDE DEF S
      <3> QED
        BY <1>1, <2>1, InductionUpTo
    <2> QED
      BY <2>2
  <1> QED
    BY <1>3 DEF IsRecursion

AgreeUpTo(n, f, g) == \A i \in 0 .. n : f[i] = g[i]

(* Two functions that agree at 0 and go on alike agree up to n.            *)
LEMMA RecursionIsUnique ==
  ASSUME NEW n \in Nat, NEW f, NEW g, f[0] = g[0],
         \A i \in 1 .. n : f[i - 1] = g[i - 1] => f[i] = g[i]
  PROVE  AgreeUpTo(n, f, g)
  <1> DEFINE S == {i \in 0 .. n : f[i] = g[i]}
  <1>1. 0 \in S
    OBVIOUS
  <1>2. \A i \in 1 .. n : i - 1 \in S => i \in S
    OBVIOUS
  <1>3. \A i \in 0 .. n : i \in S
    <2> HIDE DEF S
    <2> QED
      BY <1>1, <1>2, InductionUpTo
  <1> QED
    BY <1>3 DEF AgreeUpTo

-----------------------------------------------------------------------------
(* Totals: the partial sums of a sequence of integers, and what an append  *)
(* or a change of one element does to the total.                           *)

IsPartialSums(f, s) ==
  /\ f \in [0 .. Len(s) -> Int] /\ f[0] = 0
  /\ \A i \in 1 .. Len(s) : f[i] = f[i - 1] + s[i]

(* The total is the last of the partial sums.                              *)
LEMMA TotalIsLastSum ==
  ASSUME NEW s \in Seq(Int)
  PROVE  \E f \in [0 .. Len(s) -> Int] :
           IsPartialSums(f, s) /\ Total(s) = f[Len(s)]
  <1> DEFINE step == [i \in 1 .. Len(s) |-> [x \in Int |-> x + s[i]]]
             Sums(f) == f = [i \in 0 .. Len(s) |->
                               IF i = 0 THEN 0 ELSE f[i - 1] + s[i]]
  <1>1. PICK f : IsRecursion(f, Len(s), Int, 0, step)
    <2>1. step \in Steps(Len(s), Int) /\ Len(s) \in Nat /\ 0 \in Int
      BY DEF Steps
    <2> HIDE DEF step
    <2> QED
      BY <2>1, RecursionHasSolution
  <1>2. \A i \in 1 .. Len(s) : f[i] = f[i - 1] + s[i]
    <2> TAKE i \in 1 .. Len(s)
    <2>1. i - 1 \in 0 .. Len(s)
      OBVIOUS
    <2> QED
      BY <1>1, <2>1 DEF IsRecursion
  <1>3. Sums(f)
    BY <1>1, <1>2 DEF IsRecursion
  <1>4. Sums(CHOOSE g : Sums(g))
    BY <1>3
  <1>5. PICK sum : Sums(sum) /\ Total(s) = sum[Len(s)]
    BY <1>4 DEF Total
  <1>6. sum[0] = 0 /\ \A i \in 1 .. Len(s) : sum[i] = sum[i - 1] + s[i]
    <2>1. Len(s) \in Nat /\ 0 \in 0 .. Len(s) /\ 1 .. Len(s) \subseteq 0 .. Len(s)
      OBVIOUS
    <2>2. sum[0] = 0
      BY <1>5, <2>1
    <2>3. ASSUME NEW i \in 1 .. Len(s) PROVE sum[i] = sum[i - 1] + s[i]
      <3>1. i \in 0 .. Len(s) /\ i # 0
        BY <2>1
      <3> QED
        BY <1>5, <3>1
    <2> QED
      BY <2>2, <2>3
  <1>7. AgreeUpTo(Len(s), sum, f)
    <2>1. Len(s) \in Nat /\ sum[0] = f[0]
      BY <1>1, <1>6 DEF IsRecursion
    <2>2. \A i \in 1 .. Len(s) : sum[i - 1] = f[i - 1] => sum[i] = f[i]
      BY <1>2, <1>6
    <2> QED
      BY <2>1, <2>2, RecursionIsUnique
  <1> QED
    <2>1. IsPartialSums(f, s)
      BY <1>1, <1>2 DEF IsPartialSums, IsRecursion
    <2>2. Total(s) = f[Len(s)]
      BY <1>5, <1>7 DEF AgreeUpTo
    <2>3. f \in [0 .. Len(s) -> Int]
      BY <1>1 DEF IsRecursion
    <2> QED
      BY <2>1, <2>2, <2>3

(* A total is an integer; nothing adds up to zero.                         *)
LEMMA TotalType ==
  /\ \A s \in Seq(Int) : Total(s) \in Int
  /\ Total(<<>>) = 0
  <1>1. \A s \in Seq(Int) : Total(s) \in Int
    BY TotalIsLastSum
  <1>2. Total(<<>>) = 0
    <2>1. <<>> \in Seq(Int) /\ Len(<<>>) = 0
      OBVIOUS
    <2> QED
      BY <2>1, TotalIsLastSum DEF IsPartialSums
  <1> QED
    BY <1>1, <1>2

(* A sequence of zeros adds up to zero.                                    *)
LEMMA TotalOfZeros ==
  ASSUME NEW s \in Seq(Int), \A i \in 1 .. Len(s) : s[i] = 0
  PROVE  Total(s) = 0
  <1>1. PICK f \in [0 .. Len(s) -> Int] :
          IsPartialSums(f, s) /\ Total(s) = f[Len(s)]
    BY TotalIsLastSum
  <1> DEFINE zero == [i \in 0 .. Len(s) |-> 0]
  <1>2. AgreeUpTo(Len(s), f, zero)
    <2>1. Len(s) \in Nat /\ f[0] = zero[0]
      BY <1>1 DEF IsPartialSums
    <2>2. ASSUME NEW i \in 1 .. Len(s), f[i - 1] = zero[i - 1]
          PROVE  f[i] = zero[i]
      <3>1. i \in 0 .. Len(s) /\ i - 1 \in 0 .. Len(s)
        BY <2>1
      <3>2. f[i] = f[i - 1] + s[i] /\ s[i] = 0
        BY <1>1 DEF IsPartialSums
      <3> QED
        BY <2>2, <3>1, <3>2
    <2> HIDE DEF zero
    <2> QED
      BY <2>1, <2>2, RecursionIsUnique
  <1> QED
    BY <1>1, <1>2 DEF AgreeUpTo

(* A difference added early is the same as one added late.                 *)
LEMMA Reassociated ==
  ASSUME NEW a \in Int, NEW b \in Int, NEW c \in Int
  PROVE  a + (b + c) = (a + b) + c /\ (a + c) + b = (a + b) + c
  OBVIOUS

(* Two sequences whose elements differ by d at one place only have totals  *)
(* that differ by d.                                                       *)
LEMMA TotalDiffers ==
  ASSUME NEW s \in Seq(Int), NEW t \in Seq(Int), Len(t) = Len(s),
         NEW k \in 1 .. Len(s), NEW d \in Int, t[k] = s[k] + d,
         \A i \in 1 .. Len(s) : i # k => t[i] = s[i]
  PROVE  Total(t) = Total(s) + d
  <1>1. PICK f \in [0 .. Len(s) -> Int] :
          IsPartialSums(f, s) /\ Total(s) = f[Len(s)]
    BY TotalIsLastSum
  <1>2. PICK g \in [0 .. Len(t) -> Int] :
          IsPartialSums(g, t) /\ Total(t) = g[Len(t)]
    BY TotalIsLastSum
  <1> DEFINE n == Len(s)
             h == [i \in 0 .. n |-> f[i] + IF i < k THEN 0 ELSE d]
  <1>3. n \in Nat /\ Len(t) = n
    OBVIOUS
  <1>4. /\ \A i \in 1 .. n : f[i] = f[i - 1] + s[i]
        /\ \A i \in 1 .. n : g[i] = g[i - 1] + t[i]
        /\ f[0] = 0 /\ g[0] = 0
    BY <1>1, <1>2 DEF IsPartialSums
  <1>5. g[0] = h[0]
    BY <1>4
  <1>6. ASSUME NEW i \in 1 .. n, g[i - 1] = h[i - 1] PROVE g[i] = h[i]
    <2>1. /\ i \in 0 .. n /\ i - 1 \in 0 .. n
          /\ s[i] \in Int /\ t[i] \in Int
      BY <1>3
    <2>0. f[i] \in Int /\ f[i - 1] \in Int
      BY <2>1
    <2>2. h[i] = f[i] + IF i < k THEN 0 ELSE d
      BY <2>1
    <2>3. h[i - 1] = f[i - 1] + IF i - 1 < k THEN 0 ELSE d
      BY <2>1
    <2>4. g[i] = g[i - 1] + t[i] /\ f[i] = f[i - 1] + s[i]
      BY <1>4
    <2> HIDE DEF h
    <2>5. CASE i = k
      <3>1. h[i - 1] = f[i - 1] /\ h[i] = f[i] + d
        BY <2>0, <2>2, <2>3, <2>5
      <3>2. t[i] = s[i] + d
        BY <2>5
      <3>3. g[i] = f[i - 1] + (s[i] + d) /\ h[i] = (f[i - 1] + s[i]) + d
        BY <1>6, <2>4, <3>1, <3>2
      <3> QED
        BY <2>0, <2>1, <3>3, Reassociated
    <2>6. CASE i < k
      <3>1. h[i - 1] = f[i - 1] /\ h[i] = f[i]
        BY <2>0, <2>2, <2>3, <2>6
      <3>2. t[i] = s[i]
        BY <2>6
      <3>3. g[i] = f[i - 1] + s[i] /\ h[i] = f[i - 1] + s[i]
        BY <1>6, <2>4, <3>1, <3>2
      <3> QED
        BY <3>3
    <2>8. CASE k < i
      <3>1. h[i - 1] = f[i - 1] + d /\ h[i] = f[i] + d
        BY <2>0, <2>2, <2>3, <2>8
      <3>2. t[i] = s[i]
        BY <2>8
      <3>3. g[i] = (f[i - 1] + d) + s[i] /\ h[i] = (f[i - 1] + s[i]) + d
        BY <1>6, <2>4, <3>1, <3>2
      <3> QED
        BY <2>0, <2>1, <3>3, Reassociated
    <2> QED
      BY <2>5, <2>6, <2>8
  <1>7. AgreeUpTo(n, g, h)
    <2> HIDE DEF h, n
    <2> QED
      BY <1>3, <1>5, <1>6, RecursionIsUnique
  <1>8. h[n] = f[n] + d
    BY <1>3
  <1> QED
    BY <1>1, <1>2, <1>3, <1>7, <1>8 DEF AgreeUpTo

(* An append adds its element.                                             *)
LEMMA TotalAppend ==
  ASSUME NEW s \in Seq(Int), NEW x \in Int
  PROVE  Total(Append(s, x)) = Total(s) + x
  <1> DEFINE t == Append(s, x)
             n == Len(s)
  <1>1. t \in Seq(Int) /\ Len(t) = n + 1 /\ n \in Nat /\ t[n + 1] = x
        /\ \A i \in 1 .. n : t[i] = s[i]
    OBVIOUS
  <1>2. PICK f \in [0 .. Len(s) -> Int] :
          IsPartialSums(f, s) /\ Total(s) = f[Len(s)]
    BY TotalIsLastSum
  <1>3. PICK g \in [0 .. Len(t) -> Int] :
          IsPartialSums(g, t) /\ Total(t) = g[Len(t)]
    <2> HIDE DEF t
    <2> QED
      BY <1>1, TotalIsLastSum
  <1> HIDE DEF t
  <1>4. /\ \A i \in 1 .. n : f[i] = f[i - 1] + s[i]
        /\ \A i \in 1 .. n + 1 : g[i] = g[i - 1] + t[i]
        /\ f[0] = 0 /\ g[0] = 0
    BY <1>1, <1>2, <1>3 DEF IsPartialSums
  <1>5. AgreeUpTo(n, g, f)
    <2>1. \A i \in 1 .. n : g[i - 1] = f[i - 1] => g[i] = f[i]
      BY <1>1, <1>4
    <2> HIDE DEF n
    <2> QED
      BY <1>1, <1>4, <2>1, RecursionIsUnique
  <1>6. g[n + 1] = g[n] + x
    BY <1>1, <1>4
  <1> QED
    BY <1>1, <1>2, <1>3, <1>5, <1>6 DEF t, AgreeUpTo
=============================================================================
