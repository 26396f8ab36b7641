-------------------------- MODULE ReckoningProofs ---------------------------
(***************************************************************************)
(* The tax algorithms agree with their references for every bracket table, *)
(* every sale, rule and calendar that RulesAssumption admits.  What runs   *)
(* over the data (totals, brackets, days) is shown by its least            *)
(* counterexample: the numbers below it are right, so it is right itself.  *)
(***************************************************************************)
EXTENDS Reckoning, WellFoundedInduction, FiniteSetTheorems, TLAPS

(* A set of natural numbers that is not empty has a least element.         *)
LEMMA LeastNatural ==
  ASSUME NEW T \in SUBSET Nat, T # {}
  PROVE  \E x \in T : \A y \in T : x <= y
<1> DEFINE R == {ss \in Nat \X Nat : ss[1] < ss[2]}
<1>1. IsWellFoundedOn(R, Nat)
  BY NatLessThanWellFounded DEF OpToRel
<1>2. PICK x \in T : \A y \in T : <<y, x>> \notin R
  <2> HIDE DEF R
  <2> QED BY <1>1, WFMin
<1>3. ASSUME NEW y \in T PROVE x <= y
  <2>1. x \in Nat /\ y \in Nat /\ ~(y < x)
    BY <1>2
  <2> QED BY <2>1
<1> QED BY <1>3

(* Products distribute, stated apart from what they are products of.       *)
LEMMA Distributes ==
  \A r, x, y \in Int : r * (x + y) = r * x + r * y /\ r * x \in Int /\ r * y \in Int
OBVIOUS

-----------------------------------------------------------------------------
(* s holds the running totals of f.                                        *)
IsTotals(s, f, n) ==
  /\ s \in [0..n -> Int]
  /\ s[0] = 0
  /\ \A i \in 1..n : s[i] = s[i - 1] + f[i]

LEMMA TotalsExist ==
  ASSUME NEW n \in Nat, NEW f, \A i \in 1..n : f[i] \in Int
  PROVE  \E s : IsTotals(s, f, n)
<1> DEFINE Wrong == {k \in 0..n : ~\E s : IsTotals(s, f, k)}
<1>1. SUFFICES ASSUME Wrong # {} PROVE FALSE
  OBVIOUS
<1>2. PICK k \in Wrong : \A l \in Wrong : k <= l
  <2>1. Wrong \in SUBSET Nat
    OBVIOUS
  <2> HIDE DEF Wrong
  <2> QED BY <1>1, <2>1, LeastNatural
<1>3. CASE k = 0
  <2>1. IsTotals([i \in 0..0 |-> 0], f, 0)
    BY DEF IsTotals
  <2> QED BY <1>2, <1>3, <2>1
<1>4. CASE k # 0
  <2>1. k - 1 \in 0..n /\ k - 1 \notin Wrong /\ k \in 1..n
    BY <1>2, <1>4
  <2>2. PICK s : IsTotals(s, f, k - 1)
    BY <2>1
  <2> DEFINE t == [i \in 0..k |-> IF i = k THEN s[k - 1] + f[k] ELSE s[i]]
  <2>3. t \in [0..k -> Int] /\ t[0] = 0
    BY <2>1, <2>2 DEF IsTotals
  <2>4. ASSUME NEW i \in 1..k PROVE t[i] = t[i - 1] + f[i]
    <3>1. i - 1 \in 0..k /\ i - 1 # k /\ i \in 0..k /\ t[i - 1] = s[i - 1]
      BY <2>1
    <3>2. CASE i = k
      BY <3>1, <3>2
    <3>3. CASE i # k
      <4>1. i \in 1..(k - 1) /\ t[i] = s[i]
        BY <2>1, <3>1, <3>3
      <4> QED BY <2>2, <3>1, <4>1 DEF IsTotals
    <3> QED BY <3>2, <3>3
  <2>5. IsTotals(t, f, k)
    BY <2>3, <2>4 DEF IsTotals
  <2> QED BY <1>2, <2>5
<1> QED BY <1>3, <1>4

(* Totals is the function its recursive definition describes.              *)
LEMMA TotalsAreTotals ==
  ASSUME NEW n \in Nat, NEW f, \A i \in 1..n : f[i] \in Int
  PROVE  IsTotals(Totals(f, n), f, n)
<1> DEFINE Fits(s) == s = [i \in 0..n |-> IF i = 0 THEN 0 ELSE s[i - 1] + f[i]]
<1>1. PICK s : IsTotals(s, f, n)
  BY TotalsExist
<1>2. Fits(s)
  BY <1>1 DEF IsTotals
<1>3. Totals(f, n) = CHOOSE t : Fits(t)
  BY DEF Totals
<1>4. Fits(Totals(f, n))
  <2> HIDE DEF Fits
  <2> QED BY <1>2, <1>3
<1> DEFINE t == Totals(f, n)
<1>5. DOMAIN t = 0..n /\ t[0] = 0 /\ \A i \in 1..n : t[i] = t[i - 1] + f[i]
  BY <1>4
<1>6. \A i \in 0..n : t[i] \in Int
  <2> HIDE DEF t
  <2> DEFINE Wrong == {k \in 0..n : t[k] \notin Int}
  <2>1. SUFFICES ASSUME Wrong # {} PROVE FALSE
    OBVIOUS
  <2>2. PICK k \in Wrong : \A l \in Wrong : k <= l
    <3>1. Wrong \in SUBSET Nat
      OBVIOUS
    <3> HIDE DEF Wrong
    <3> QED BY <2>1, <3>1, LeastNatural
  <2>3. k # 0 /\ k - 1 \in 0..n /\ k \in 1..n /\ k - 1 \notin Wrong
    BY <1>5, <2>2
  <2> QED BY <1>5, <2>2, <2>3
<1>7. t = [i \in 0..n |-> t[i]]
  BY <1>4
<1> QED BY <1>5, <1>6, <1>7 DEF IsTotals
(* They are determined by f.                                               *)
LEMMA TotalsUnique ==
  ASSUME NEW n \in Nat, NEW f, NEW s, NEW t, IsTotals(s, f, n), IsTotals(t, f, n)
  PROVE  s[n] = t[n]
<1> DEFINE Wrong == {k \in 0..n : s[k] # t[k]}
<1>1. SUFFICES ASSUME Wrong # {} PROVE FALSE
  OBVIOUS
<1>2. PICK k \in Wrong : \A l \in Wrong : k <= l
  <2>1. Wrong \in SUBSET Nat
    OBVIOUS
  <2> HIDE DEF Wrong
  <2> QED BY <1>1, <2>1, LeastNatural
<1>3. k # 0
  BY <1>2 DEF IsTotals
<1>4. k \in 1..n /\ k - 1 \in 0..n /\ s[k - 1] = t[k - 1]
  BY <1>2, <1>3
<1> QED BY <1>2, <1>4 DEF IsTotals

-----------------------------------------------------------------------------
(* GST: a line's is its share of the rate within half a cent, and so a     *)
(* sale's within half a cent a line.                                       *)
Line == [cents : Int, taxable : BOOLEAN]

LEMMA LineGstIsShare ==
  ASSUME NEW line \in Line
  PROVE  /\ LineGst(line) \in Int /\ Bearing(line) \in Int
         /\ 2 * Magnitude(1000 * LineGst(line) - RateMilli * Bearing(line)) <= 1000
<1>1. line.cents \in Int /\ RateMilli \in Int
  BY RulesAssumption DEF RulesAssumption, Line
<1>2. CASE line.taxable
  <2> DEFINE p == line.cents * RateMilli
  <2>1. p \in Int /\ 2 * line.cents * RateMilli = 2 * p /\ RateMilli * line.cents = p
    BY <1>1
  <2>2. LineGst(line) = (2 * p + 1000) \div 2000 /\ Bearing(line) = line.cents
    BY <1>2, <2>1 DEF LineGst, Bearing
  <2> HIDE DEF p
  <2> QED BY <1>1, <2>1, <2>2 DEF Magnitude
<1>3. CASE ~line.taxable
  BY <1>1, <1>3 DEF LineGst, Bearing, Magnitude
<1> QED BY <1>2, <1>3

LEMMA SumGstIsShare ==
  ASSUME NEW lines \in Seq(Line)
  PROVE  /\ SumGst(lines) \in Int
         /\ 2 * Magnitude(1000 * SumGst(lines) - RateMilli * TaxableCents(lines))
              <= 1000 * Len(lines)
<1> DEFINE n == Len(lines)
           f == [i \in 1..n |-> LineGst(lines[i])]
           g == [i \in 1..n |-> Bearing(lines[i])]
           s == Totals(f, n)
           t == Totals(g, n)
           Near(k) == 2 * Magnitude(1000 * s[k] - RateMilli * t[k]) <= 1000 * k
<1>1. n \in Nat /\ RateMilli \in Int
  BY RulesAssumption DEF RulesAssumption
<1>2. \A i \in 1..n : lines[i] \in Line
  OBVIOUS
<1>3. ASSUME NEW i \in 1..n
      PROVE  /\ f[i] \in Int /\ g[i] \in Int
             /\ 2 * Magnitude(1000 * f[i] - RateMilli * g[i]) <= 1000
  BY <1>2, LineGstIsShare
<1>4. IsTotals(s, f, n) /\ IsTotals(t, g, n)
  <2>1. (\A i \in 1..n : f[i] \in Int) /\ (\A i \in 1..n : g[i] \in Int)
    BY <1>3
  <2> HIDE DEF n, f, g
  <2> QED BY <1>1, <2>1, TotalsAreTotals
<1>5. SumGst(lines) = s[n] /\ TaxableCents(lines) = t[n]
  BY DEF SumGst, TaxableCents
<1> HIDE DEF n, f, g, s, t
<1> DEFINE Wrong == {k \in 0..n : ~Near(k)}
<1>6. Wrong = {}
  <2>1. SUFFICES ASSUME Wrong # {} PROVE FALSE
    OBVIOUS
  <2>2. PICK k \in Wrong : \A l \in Wrong : k <= l
    <3>1. Wrong \in SUBSET Nat
      BY <1>1
    <3> HIDE DEF Wrong
    <3> QED BY <2>1, <3>1, LeastNatural
  <2>3. k # 0
    <3>1. s[0] = 0 /\ t[0] = 0 /\ RateMilli * 0 = 0
      BY <1>1, <1>4 DEF IsTotals
    <3>2. Near(0)
      BY <3>1 DEF Magnitude
    <3> QED BY <2>2, <3>2
  <2>4. k \in 1..n /\ k - 1 \in 0..n /\ Near(k - 1)
    BY <1>1, <2>2, <2>3
  <2>5. /\ s[k] = s[k - 1] + f[k] /\ t[k] = t[k - 1] + g[k]
        /\ s[k - 1] \in Int /\ t[k - 1] \in Int
    BY <1>4, <2>4 DEF IsTotals
  <2>6. f[k] \in Int /\ g[k] \in Int /\ 2 * Magnitude(1000 * f[k] - RateMilli * g[k]) <= 1000
    BY <1>3, <2>4
  <2>7. RateMilli * t[k] = RateMilli * t[k - 1] + RateMilli * g[k]
    <3> HIDE DEF Near, Wrong
    <3> QED BY <1>1, <2>5, <2>6, Distributes
  <2>8. RateMilli * t[k - 1] \in Int /\ RateMilli * g[k] \in Int
    <3> HIDE DEF Near, Wrong
    <3> QED BY <1>1, <2>5, <2>6, Distributes
  <2>9. Near(k)
    <3> DEFINE a == RateMilli * t[k - 1]
               b == RateMilli * g[k]
               u == s[k - 1]
               v == f[k]
    <3>1. /\ a \in Int /\ b \in Int /\ u \in Int /\ v \in Int /\ k \in Int
          /\ 2 * Magnitude(1000 * u - a) <= 1000 * (k - 1)
          /\ 2 * Magnitude(1000 * v - b) <= 1000
      BY <2>4, <2>5, <2>6, <2>8
    <3>2. Near(k) <=> 2 * Magnitude(1000 * (u + v) - (a + b)) <= 1000 * k
      BY <2>5, <2>7
    <3> HIDE DEF a, b, u, v, Near
    <3> QED BY <3>1, <3>2 DEF Magnitude
  <2> QED BY <2>2, <2>9
<1>7. s[n] \in Int /\ Near(n)
  <2>1. n \in 0..n
    BY <1>1
  <2>2. s[n] \in Int
    BY <1>4, <2>1 DEF IsTotals
  <2> HIDE DEF Near
  <2> QED BY <1>6, <2>1, <2>2
<1> QED BY <1>5, <1>7 DEF n
-----------------------------------------------------------------------------
(* Withholding: rounding to even moves an amount by half of its divisor at *)
(* most, for each number of pays in a year.                                *)
LEMMA RoundDivideIsNear ==
  ASSUME NEW n \in Int, NEW d \in {52, 26, 12, 1}
  PROVE  RoundDivide(n, d) \in Int /\ 2 * Magnitude(d * RoundDivide(n, d) - n) <= d
<1>1. CASE d = 52
  BY <1>1 DEF RoundDivide, RoundsUp, Magnitude, Sign
<1>2. CASE d = 26
  BY <1>2 DEF RoundDivide, RoundsUp, Magnitude, Sign
<1>3. CASE d = 12
  BY <1>3 DEF RoundDivide, RoundsUp, Magnitude, Sign
<1>4. CASE d = 1
  BY <1>4 DEF RoundDivide, RoundsUp, Magnitude, Sign
<1> QED BY <1>1, <1>2, <1>3, <1>4

(* Flooring a double's product takes away a cent at most.                  *)
LEMMA FloorsAreNear ==
  ASSUME NEW p \in Nat, NEW f \in Floors(p)
  PROVE  f \in Int /\ 1000 * f <= p /\ p <= 1000 * f + 1000
BY DEF Floors

LEMMA BracketTypes ==
  ASSUME NEW i \in 1..Len(Brackets)
  PROVE  /\ Brackets[i].threshold \in Nat /\ Brackets[i].base \in Nat
         /\ Brackets[i].rate \in Nat
<1> DEFINE Bracket == [threshold : Nat, base : Nat, rate : Nat]
<1>1. Brackets[i] \in Bracket
  <2>1. Brackets \in Seq(Bracket)
    BY RulesAssumption DEF RulesAssumption
  <2> HIDE DEF Bracket
  <2> QED BY <2>1
<1> QED BY <1>1

(* The brackets up to the one reached are those whose thresholds are.      *)
LEMMA ReachedIsLast ==
  ASSUME NEW annual \in Int
  PROVE  /\ Reached(annual) \in 0..Len(Brackets)
         /\ \A i \in 1..Len(Brackets) :
              i <= Reached(annual) <=> annual >= Brackets[i].threshold
<1> DEFINE n == Len(Brackets)
           I == {i \in 1..n : annual >= Brackets[i].threshold}
<1>1. n \in Nat
  BY RulesAssumption DEF RulesAssumption
<1>2. Reached(annual) = IF I # {} THEN Max(I) ELSE 0
  BY DEF Reached, SelectLastInSeq
<1>3. CASE I = {}
  BY <1>1, <1>2, <1>3
<1>4. CASE I # {}
  <2> DEFINE Above == {n - i : i \in I}
  <2>1. PICK a \in Above : \A b \in Above : a <= b
    <3>1. Above \in SUBSET Nat /\ Above # {}
      BY <1>1, <1>4
    <3> HIDE DEF Above
    <3> QED BY <3>1, LeastNatural
  <2>2. PICK m \in I : a = n - m
    BY <2>1
  <2>3. ASSUME NEW i \in I PROVE m >= i
    <3>1. a <= n - i
      BY <2>1
    <3> QED BY <1>1, <2>2, <3>1
  <2>4. \E x \in I : \A y \in I : x >= y
    BY <2>2, <2>3
  <2>5. Max(I) \in I /\ \A i \in I : Max(I) >= i
    <3> HIDE DEF I
    <3> QED BY <2>4 DEF Max
  <2>6. ASSUME NEW i \in 1..n, i <= Max(I) PROVE annual >= Brackets[i].threshold
    <3>1. Max(I) \in 1..n /\ annual >= Brackets[Max(I)].threshold
      BY <2>5
    <3>2. i = Max(I) \/ Brackets[i].threshold < Brackets[Max(I)].threshold
      <4>1. i = Max(I) \/ i < Max(I)
        BY <1>1, <2>6, <3>1
      <4> QED BY <3>1, <4>1, RulesAssumption DEF RulesAssumption
    <3> HIDE DEF I
    <3> QED BY <3>1, <3>2, BracketTypes
  <2> QED BY <1>1, <1>2, <1>4, <2>5, <2>6
<1> QED BY <1>3, <1>4

(* Its tax on the brackets below and in the one reached is all the tax of  *)
(* a year's income.                                                        *)
LEMMA MarginalIsBasePlusRate ==
  ASSUME NEW annual \in Int
  PROVE  LET r == Reached(annual) IN
         Marginal(annual) =
           IF r = 0 THEN 0
           ELSE 1000 * Brackets[r].base
                  + Brackets[r].rate * (annual - Brackets[r].threshold)
<1> DEFINE n == Len(Brackets)
           r == Reached(annual)
           f == [i \in 1..n |-> Share(i, annual)]
           owed == IF r = 0 THEN 0
                   ELSE 1000 * Brackets[r].base
                          + Brackets[r].rate * (annual - Brackets[r].threshold)
           t == [k \in 0..n |-> IF k < r THEN 1000 * Brackets[k + 1].base ELSE owed]
<1>1. n \in Nat /\ r \in 0..n
  BY ReachedIsLast, RulesAssumption DEF RulesAssumption
<1>2. owed \in Int
  BY <1>1, BracketTypes
<1>3. \A i \in 1..n : /\ Brackets[i].threshold \in Int /\ Brackets[i].base \in Int
                      /\ Brackets[i].rate \in Int
  BY BracketTypes
<1>4. \A i \in 1..n : i <= r <=> annual >= Brackets[i].threshold
  BY ReachedIsLast
<1>5. t \in [0..n -> Int]
  <2>1. ASSUME NEW k \in 0..n, k < r PROVE 1000 * Brackets[k + 1].base \in Int
    <3>1. k + 1 \in 1..n
      BY <1>1, <2>1
    <3> QED BY <3>1, BracketTypes
  <2> HIDE DEF owed, r
  <2> QED BY <1>2, <2>1
<1>6. t[0] = 0
  <2>1. CASE r = 0
    BY <1>1, <2>1
  <2>2. CASE r # 0
    <3>1. Brackets[1].base = 0
      BY <1>1, <2>2, RulesAssumption DEF RulesAssumption
    <3> QED BY <1>1, <2>2, <3>1
  <2> QED BY <2>1, <2>2
<1>7. ASSUME NEW k \in 1..n PROVE f[k] \in Int /\ t[k] = t[k - 1] + f[k]
  <2>1. /\ Brackets[k].threshold \in Int /\ Brackets[k].base \in Int
        /\ Brackets[k].rate \in Int
        /\ k <= r <=> annual >= Brackets[k].threshold
    BY <1>3, <1>4
  <2>2. /\ t[k] = IF k < r THEN 1000 * Brackets[k + 1].base ELSE owed
        /\ t[k - 1] = IF k - 1 < r THEN 1000 * Brackets[k].base ELSE owed
        /\ f[k] = Share(k, annual)
    BY <1>1
  <2>3. CASE k < r
    <3>1. k + 1 \in 1..n /\ k \in 1..(n - 1) /\ k # n
      BY <1>1, <2>3
    <3>2. annual >= Brackets[k + 1].threshold /\ Brackets[k + 1].threshold \in Int
      <4> HIDE DEF n, r
      <4>1. k + 1 <= r
        BY <1>1, <2>3
      <4> QED BY <1>3, <1>4, <3>1, <4>1
    <3>3. Top(k, annual) = Brackets[k + 1].threshold
      BY <3>1, <3>2 DEF Top
    <3>4. f[k] = Brackets[k].rate * (Brackets[k + 1].threshold - Brackets[k].threshold)
      BY <1>1, <2>1, <2>2, <2>3, <3>3 DEF Share
    <3>5. 1000 * Brackets[k + 1].base = 1000 * Brackets[k].base + f[k]
      BY <3>1, <3>4, RulesAssumption DEF RulesAssumption
    <3>6. t[k] = 1000 * Brackets[k + 1].base /\ t[k - 1] = 1000 * Brackets[k].base
      BY <1>1, <2>2, <2>3
    <3>7. f[k] \in Int
      <4> HIDE DEF n, r, f
      <4> QED BY <2>1, <3>2, <3>4
    <3> HIDE DEF n, r, f, t
    <3> QED BY <3>5, <3>6, <3>7
  <2>4. CASE k = r
    <3>1. k = n \/ annual < Brackets[k + 1].threshold
      <4>1. ASSUME k # n PROVE annual < Brackets[k + 1].threshold
        <5>1. k + 1 \in 1..n /\ ~(k + 1 <= r)
          BY <1>1, <2>4, <4>1
        <5> HIDE DEF n, r
        <5> QED BY <1>3, <1>4, <5>1
      <4> QED BY <4>1
    <3>2. Top(k, annual) = annual
      BY <3>1 DEF Top
    <3>3. f[k] = Brackets[k].rate * (annual - Brackets[k].threshold)
      BY <1>1, <2>1, <2>2, <2>4, <3>2 DEF Share
    <3>4. t[k] = owed /\ t[k - 1] = 1000 * Brackets[k].base
      BY <1>1, <2>2, <2>4
    <3> QED BY <2>1, <2>4, <3>3, <3>4
  <2>5. CASE k > r
    <3>1. f[k] = 0 /\ t[k] = owed /\ t[k - 1] = owed
      BY <1>1, <2>1, <2>2, <2>5 DEF Share
    <3> QED BY <1>2, <3>1
  <2> QED BY <1>1, <2>3, <2>4, <2>5
<1>8. t[n] = owed
  BY <1>1
<1>9. Marginal(annual) = Totals(f, n)[n]
  BY DEF Marginal
<1> HIDE DEF n, r, f, owed, t
<1>10. IsTotals(t, f, n)
  BY <1>5, <1>6, <1>7 DEF IsTotals
<1>11. IsTotals(Totals(f, n), f, n)
  BY <1>1, <1>7, TotalsAreTotals
<1>12. Marginal(annual) = owed
  BY <1>1, <1>8, <1>9, <1>10, <1>11, TotalsUnique
<1> QED BY <1>12 DEF owed, r

LEMMA AnnualTaxesAreMarginal ==
  ASSUME NEW annual \in Nat, NEW tax \in AnnualTaxes(annual)
  PROVE  /\ tax \in Int /\ Marginal(annual) \in Int
         /\ 1000 * tax <= Marginal(annual) /\ Marginal(annual) <= 1000 * tax + 1000
<1> DEFINE r == Reached(annual)
           M == Marginal(annual)
<1>1. CASE r = 0
  <2>1. tax = 0
    BY <1>1 DEF AnnualTaxes
  <2>2. M = 0
    BY <1>1, MarginalIsBasePlusRate
  <2> QED BY <2>1, <2>2
<1>2. CASE r # 0
  <2> DEFINE b == Brackets[r]
             p == (annual - b.threshold) * b.rate
  <2>1. r \in 1..Len(Brackets) /\ annual >= b.threshold
    <3>1. r \in 0..Len(Brackets) /\ Len(Brackets) \in Nat
      BY ReachedIsLast, RulesAssumption DEF RulesAssumption
    <3>2. r \in 1..Len(Brackets) /\ r <= r
      BY <1>2, <3>1
    <3> QED BY <3>2, ReachedIsLast
  <2>2. b.threshold \in Nat /\ b.base \in Nat /\ b.rate \in Nat
    BY <2>1, BracketTypes
  <2>3. p \in Nat /\ p = b.rate * (annual - b.threshold)
    <3> DEFINE e == annual - b.threshold
    <3>1. e \in Nat
      BY <2>1, <2>2
    <3> HIDE DEF e
    <3>2. e * b.rate \in Nat /\ e * b.rate = b.rate * e
      BY <2>2, <3>1
    <3> QED BY <3>2 DEF e
  <2>4. M = 1000 * b.base + b.rate * (annual - b.threshold)
    BY <1>2, MarginalIsBasePlusRate
  <2>5. M = 1000 * b.base + p
    BY <2>3, <2>4
  <2>6. PICK f \in Floors(p) : tax = b.base + f
    BY <1>2 DEF AnnualTaxes
  <2>7. f \in Int /\ 1000 * f <= p /\ p <= 1000 * f + 1000
    BY <2>3, <2>6, FloorsAreNear
  <2> HIDE DEF M, p, b
  <2>8. /\ tax \in Int /\ M \in Int
        /\ 1000 * tax <= M /\ M <= 1000 * tax + 1000
    BY <2>2, <2>3, <2>5, <2>6, <2>7
  <2> QED BY <2>8 DEF M
<1> QED BY <1>1, <1>2

(* Nobody owes tax on no income, in whatever bracket it falls.             *)
LEMMA NoIncomeNoTax ==
  ASSUME NEW annual \in Int, annual <= 0
  PROVE  Marginal(annual) = 0
<1> DEFINE r == Reached(annual)
           n == Len(Brackets)
<1>1. r \in 0..n /\ n \in Nat
  BY ReachedIsLast, RulesAssumption DEF RulesAssumption
<1>2. \A i \in 1..n : i <= r <=> annual >= Brackets[i].threshold
  BY ReachedIsLast
<1>3. \A i \in 1..n : /\ Brackets[i].threshold \in Nat /\ Brackets[i].rate \in Nat
  BY BracketTypes
<1>4. CASE r = 0
  BY <1>4, MarginalIsBasePlusRate
<1>5. CASE r # 0
  <2> HIDE DEF r, n
  <2>1. r \in 1..n /\ 1 \in 1..n /\ r <= r
    BY <1>1, <1>5
  <2>2. annual = 0 /\ Brackets[r].threshold = 0
    BY <1>2, <1>3, <2>1
  <2>3. ~(1 < r)
    <3>1. ~(Brackets[1].threshold < Brackets[r].threshold)
      BY <1>3, <2>1, <2>2
    <3> QED BY <2>1, <3>1, RulesAssumption DEF RulesAssumption, n
  <2>4. r = 1 /\ Brackets[r].base = 0
    <3>1. r = 1
      BY <1>1, <2>1, <2>3
    <3>2. Brackets # <<>>
      BY <2>1 DEF n
    <3> QED BY <3>1, <3>2, RulesAssumption DEF RulesAssumption
  <2>5. Brackets[r].rate * (annual - Brackets[r].threshold) = 0
    BY <1>3, <2>1, <2>2
  <2>6. Marginal(annual) =
          1000 * Brackets[r].base + Brackets[r].rate * (annual - Brackets[r].threshold)
    BY <1>5, MarginalIsBasePlusRate DEF r
  <2> QED BY <2>4, <2>5, <2>6
<1> QED BY <1>4, <1>5

LEMMA WithheldIsMarginal ==
  ASSUME NEW gross \in Int, NEW period \in DOMAIN Denominators,
         NEW w \in Withheld(gross, period)
  PROVE  LET n == Denominators[period] IN
         Magnitude(1000 * n * w - Marginal(n * gross)) <= 500 * n + 1000
<1> DEFINE n == Denominators[period]
           M == Marginal(n * gross)
<1>1. n \in {52, 26, 12, 1}
  BY DEF Denominators
<1> HIDE DEF n
<1>2. n * gross = gross * n /\ gross * n \in Int /\ n \in Nat
  BY <1>1
<1>3. CASE gross <= 0
  <2>1. w = 0
    BY <1>3 DEF Withheld
  <2>2. n * gross <= 0
    BY <1>1, <1>3
  <2>3. M = 0
    BY <1>2, <2>2, NoIncomeNoTax
  <2>4. 1000 * n * w = 0
    BY <1>1, <2>1
  <2> HIDE DEF M
  <2>5. Magnitude(1000 * n * w - M) <= 500 * n + 1000
    BY <1>2, <2>3, <2>4 DEF Magnitude
  <2> QED BY <2>5 DEF M, n
<1>4. CASE ~(gross <= 0)
  <2>1. gross * n \in Nat
    BY <1>1, <1>4
  <2>2. PICK tax \in AnnualTaxes(gross * n) : w = RoundDivide(tax, n)
    BY <1>4 DEF Withheld, n
  <2>3. /\ tax \in Int /\ M \in Int
        /\ 1000 * tax <= M /\ M <= 1000 * tax + 1000
    BY <1>2, <2>1, <2>2, AnnualTaxesAreMarginal
  <2>4. w \in Int /\ 2 * Magnitude(n * w - tax) <= n
    <3> DEFINE v == RoundDivide(tax, n)
    <3>1. tax \in Int
      BY <2>3
    <3>2. v \in Int /\ 2 * Magnitude(n * v - tax) <= n
      BY ONLY <1>1, <3>1, RoundDivideIsNear, Zenon
    <3>3. w = v
      BY <2>2
    <3> QED BY ONLY <3>2, <3>3, Zenon
  <2> HIDE DEF M
  <2>5. Magnitude(1000 * n * w - M) <= 500 * n + 1000
    <3> DEFINE q == n * w
    <3>1. q \in Int /\ 1000 * n * w = 1000 * q
      BY <1>1, <2>4
    <3>2. 2 * Magnitude(q - tax) <= n
      BY <2>4
    <3> HIDE DEF q
    <3> QED BY <1>2, <2>3, <3>1, <3>2 DEF Magnitude
  <2> QED BY <2>5 DEF M, n
<1> QED BY <1>3, <1>4

-----------------------------------------------------------------------------
(* The calendar: a year has 365 days, one more if it is a leap year.       *)
LEMMA YearLength ==
  ASSUME NEW y \in Int
  PROVE  /\ NewYear(y) \in Int
         /\ NewYear(y + 1) = NewYear(y) + IF Leap(y) THEN 366 ELSE 365
<1> DEFINE Days(d, c) == IF d THEN c + 1 ELSE c
<1>1. /\ (y + 1 - 1969) \div 4 = Days(y % 4 = 0, (y - 1969) \div 4)
      /\ (y - 1969) \div 4 \in Int
  OBVIOUS
<1>2. /\ (y + 1 - 1901) \div 100 = Days(y % 100 = 0, (y - 1901) \div 100)
      /\ (y - 1901) \div 100 \in Int
  OBVIOUS
<1>3. /\ (y + 1 - 1601) \div 400 = Days(y % 400 = 0, (y - 1601) \div 400)
      /\ (y - 1601) \div 400 \in Int
  OBVIOUS
<1>4. (y % 100 = 0 => y % 4 = 0) /\ (y % 400 = 0 => y % 100 = 0)
  OBVIOUS
<1> DEFINE a == (y - 1969) \div 4
           b == (y - 1901) \div 100
           c == (y - 1601) \div 400
<1>5. /\ NewYear(y) = 365 * (y - 1970) + a - b + c
      /\ NewYear(y + 1) = 365 * (y + 1 - 1970) + Days(y % 4 = 0, a)
                             - Days(y % 100 = 0, b) + Days(y % 400 = 0, c)
  BY <1>1, <1>2, <1>3 DEF NewYear
<1>6. a \in Int /\ b \in Int /\ c \in Int
  BY <1>1, <1>2, <1>3
<1> HIDE DEF a, b, c
<1> QED BY <1>4, <1>5, <1>6 DEF Leap

(* The months of a year follow one another, and the next year after them.  *)
LEMMA MonthLength ==
  ASSUME NEW month \in Int
  PROVE  /\ FirstOf(month) \in Int
         /\ DaysIn(month \div 12, month % 12) \in Nat \ {0}
         /\ FirstOf(month + 1) = FirstOf(month) + DaysIn(month \div 12, month % 12)
<1> DEFINE y == month \div 12
           m == month % 12
<1>1. y \in Int /\ m \in 0..11
  OBVIOUS
<1>2. /\ m < 11 => (month + 1) \div 12 = y /\ (month + 1) % 12 = m + 1
      /\ m = 11 => (month + 1) \div 12 = y + 1 /\ (month + 1) % 12 = 0
  OBVIOUS
<1> HIDE DEF y, m
<1>3. /\ NewYear(y) \in Int /\ MonthStart(y, m) \in Int
      /\ DaysIn(y, m) \in Nat \ {0}
  BY <1>1, YearLength DEF MonthStart, DaysIn
<1>4. CASE m < 11
  <2>1. MonthStart(y, m + 1) = MonthStart(y, m) + DaysIn(y, m)
    BY <1>1, <1>4 DEF MonthStart, DaysIn
  <2>2. /\ FirstOf(month) = NewYear(y) + MonthStart(y, m) + 1 - 1
        /\ FirstOf(month + 1) = NewYear(y) + MonthStart(y, m + 1) + 1 - 1
    BY <1>2, <1>4 DEF FirstOf, DayNumber, y, m
  <2>3. FirstOf(month) \in Int /\ FirstOf(month + 1) = FirstOf(month) + DaysIn(y, m)
    BY <1>3, <2>1, <2>2
  <2> QED BY <1>3, <2>3 DEF y, m
<1>5. CASE m = 11
  <2>1. /\ MonthStart(y + 1, 0) = 0
        /\ MonthStart(y, m) + DaysIn(y, m) = IF Leap(y) THEN 366 ELSE 365
    BY <1>1, <1>5 DEF MonthStart, DaysIn
  <2>2. /\ FirstOf(month) = NewYear(y) + MonthStart(y, m) + 1 - 1
        /\ FirstOf(month + 1) = NewYear(y + 1) + MonthStart(y + 1, 0) + 1 - 1
    BY <1>2, <1>5 DEF FirstOf, DayNumber, y, m
  <2>3. FirstOf(month) \in Int /\ FirstOf(month + 1) = FirstOf(month) + DaysIn(y, m)
    BY <1>1, <1>3, <2>1, <2>2, YearLength
  <2> QED BY <1>3, <2>3 DEF y, m
<1> QED BY <1>1, <1>4, <1>5

(* The nominal day lies in the month the rule names, and is its day or the *)
(* nearest that month has.                                                 *)
LEMMA NominalInMonth ==
  ASSUME NEW end \in [year : Int, month : 0..11], NEW rule \in [day : Int, offset : Int]
  PROVE  LET first == FirstOf(Months(end, rule))
             next == FirstOf(Months(end, rule) + 1)
             day == Nominal(end, rule)
         IN /\ first \in Int /\ day \in Int /\ first <= day /\ day < next
            /\ \/ day - first + 1 = rule.day
               \/ day = first /\ rule.day < 1
               \/ day - first + 1 < rule.day /\ day + 1 = next
<1> DEFINE month == Months(end, rule)
           first == FirstOf(month)
           next == FirstOf(month + 1)
           day == Nominal(end, rule)
           y == month \div 12
           m == month % 12
           c == Clamped(rule.day, y, m)
<1>1. end.year \in Int /\ end.month \in Int /\ rule.day \in Int /\ rule.offset \in Int
  OBVIOUS
<1>2. /\ month \in Int
      /\ y = end.year + ((end.month + rule.offset) \div 12)
      /\ m = (end.month + rule.offset) % 12
  BY <1>1 DEF Months
<1>3. first = NewYear(y) + MonthStart(y, m) + 1 - 1
  BY DEF FirstOf, DayNumber
<1>4. day = NewYear(y) + MonthStart(y, m) + c - 1
  BY <1>2 DEF Nominal, DayNumber
<1>5. /\ first \in Int /\ DaysIn(y, m) \in Nat \ {0} /\ next = first + DaysIn(y, m)
  BY <1>2, MonthLength
<1>6. NewYear(y) \in Int /\ MonthStart(y, m) \in Int
  <2>1. y \in Int /\ m \in 0..11
    <3> HIDE DEF month
    <3> QED BY <1>2
  <2> HIDE DEF y, m
  <2> QED BY <2>1, YearLength DEF MonthStart
<1>7. c = IF rule.day > DaysIn(y, m) THEN DaysIn(y, m)
          ELSE IF rule.day < 1 THEN 1 ELSE rule.day
  BY DEF Clamped
<1> HIDE DEF month, first, next, day, y, m, c
<1>8. c \in Int /\ day = first + c - 1
  BY <1>1, <1>3, <1>4, <1>5, <1>6, <1>7
<1>9. /\ first \in Int /\ day \in Int /\ first <= day /\ day < next
      /\ \/ day - first + 1 = rule.day
         \/ day = first /\ rule.day < 1
         \/ day - first + 1 < rule.day /\ day + 1 = next
  BY <1>1, <1>5, <1>7, <1>8
<1> QED BY <1>9 DEF month, first, next, day

-----------------------------------------------------------------------------
(* Of finitely many holidays not every Monday from n on is one: the        *)
(* Mondays would be an injection of too many numbers into them.            *)
LEMMA OpenDayExists ==
  ASSUME NEW n \in Int
  PROVE  \E m \in Int : n <= m /\ ~Closed(m)
<1>1. SUFFICES ASSUME \A m \in Int : n <= m => Closed(m) PROVE FALSE
  OBVIOUS
<1> DEFINE Monday(k) == n - ((n + 3) % 7) + 7 * k
           c == Cardinality(Holidays)
           S == 1..(c + 1)
           f == [k \in S |-> Monday(k)]
<1>2. c \in Nat
  BY FS_CardinalityType, RulesAssumption DEF RulesAssumption
<1>3. IsFiniteSet(S) /\ Cardinality(S) = c + 1
  <2>1. 1 \in Int /\ c + 1 \in Int /\ ~(1 > c + 1) /\ c + 1 - 1 + 1 = c + 1
    BY <1>2
  <2> HIDE DEF c
  <2> QED BY <2>1, FS_Interval
<1>4. ASSUME NEW k \in S PROVE Monday(k) \in Holidays
  <2>1. k \in Int /\ k >= 1
    BY <1>2
  <2>2. Monday(k) \in Int /\ n <= Monday(k) /\ (Monday(k) + 4) % 7 = 1
    <3> DEFINE r == (n + 3) % 7
               q == (n + 3) \div 7
    <3>1. q \in Int /\ r \in 0..6 /\ n = 7 * q + r - 3
      OBVIOUS
    <3>2. Monday(k) = n - r + 7 * k
      BY DEF r
    <3> HIDE DEF r, q, Monday
    <3>3. Monday(k) = 7 * (q + k) - 3
      BY <2>1, <3>1, <3>2
    <3>4. n <= Monday(k)
      BY <2>1, <3>1, <3>2
    <3>5. Monday(k) \in Int /\ (Monday(k) + 4) % 7 = 1
      BY <2>1, <3>1, <3>3
    <3> QED BY <3>4, <3>5
  <2> HIDE DEF Monday
  <2> QED BY <1>1, <2>2 DEF Closed
<1>5. f \in [S -> Holidays]
  BY <1>4
<1>6. PICK j \in S, k \in S : j # k /\ f[j] = f[k]
  <2>1. IsFiniteSet(Holidays) /\ c < Cardinality(S)
    BY <1>2, <1>3, RulesAssumption DEF RulesAssumption
  <2> HIDE DEF S, f
  <2> QED BY <1>3, <1>5, <2>1, FS_PigeonHole
<1>7. j \in Int /\ k \in Int /\ Monday(j) = Monday(k)
  BY <1>2, <1>6
<1> QED BY <1>6, <1>7

(* m is the first open day from n on.                                      *)
IsFirstOpen(n, m) ==
  /\ m \in Int /\ n <= m /\ ~Closed(m)
  /\ \A between \in n..(m - 1) : Closed(between)

LEMMA FirstOpenExists ==
  ASSUME NEW n \in Int
  PROVE  \E m : IsFirstOpen(n, m)
<1>1. PICK o \in Int : n <= o /\ ~Closed(o)
  BY OpenDayExists
<1> DEFINE Waits == {d \in Nat : ~Closed(n + d)}
<1>2. PICK d \in Waits : \A e \in Waits : d <= e
  <2>1. o - n \in Nat /\ n + (o - n) = o
    BY <1>1
  <2>2. Waits \in SUBSET Nat /\ o - n \in Waits
    BY <1>1, <2>1
  <2> HIDE DEF Waits
  <2> QED BY <2>2, LeastNatural
<1>3. ASSUME NEW between \in n..(n + d - 1) PROVE Closed(between)
  <2>1. between - n \in Nat /\ between - n < d /\ n + (between - n) = between
    BY <1>2
  <2>2. between - n \notin Waits
    BY <1>2, <2>1
  <2> QED BY <2>1, <2>2
<1>4. IsFirstOpen(n, n + d)
  BY <1>2, <1>3 DEF IsFirstOpen
<1> QED BY <1>4

LEMMA FirstOpenUnique ==
  ASSUME NEW n \in Int, NEW m, NEW o, IsFirstOpen(n, m), IsFirstOpen(n, o)
  PROVE  m = o
BY DEF IsFirstOpen

(* A closed day has the first open day of the day after it.                *)
LEMMA FirstOpenNext ==
  ASSUME NEW n \in Int, Closed(n), NEW m, IsFirstOpen(n + 1, m)
  PROVE  IsFirstOpen(n, m)
<1>1. m \in Int /\ n <= m /\ ~Closed(m)
  BY DEF IsFirstOpen
<1>2. ASSUME NEW between \in n..(m - 1) PROVE Closed(between)
  <2>1. between = n \/ between \in (n + 1)..(m - 1)
    OBVIOUS
  <2> QED BY <2>1 DEF IsFirstOpen
<1> QED BY <1>1, <1>2 DEF IsFirstOpen

(* The search that steps from day to day has a value, and finds that day.  *)
LEMMA NextOpenIsFirst ==
  ASSUME NEW n \in Int
  PROVE  IsFirstOpen(n, NextOpen[n])
<1> DEFINE Fits(s) == s = [k \in Int |-> IF Closed(k) THEN s[k + 1] ELSE k]
           w == [k \in Int |-> CHOOSE m : IsFirstOpen(k, m)]
<1>1. ASSUME NEW k \in Int PROVE IsFirstOpen(k, w[k])
  <2>1. w[k] = CHOOSE m : IsFirstOpen(k, m)
    OBVIOUS
  <2> HIDE DEF w
  <2> QED BY <2>1, FirstOpenExists
<1>2. ASSUME NEW k \in Int PROVE w[k] = IF Closed(k) THEN w[k + 1] ELSE k
  <2>1. CASE Closed(k)
    <3>1. k + 1 \in Int
      OBVIOUS
    <3> HIDE DEF w
    <3>2. IsFirstOpen(k, w[k + 1])
      BY <1>1, <2>1, <3>1, FirstOpenNext
    <3> QED BY <1>1, <2>1, <3>2, FirstOpenUnique
  <2>2. CASE ~Closed(k)
    <3>1. IsFirstOpen(k, k)
      BY <2>2 DEF IsFirstOpen
    <3> HIDE DEF w
    <3> QED BY <1>1, <2>2, <3>1, FirstOpenUnique
  <2> QED BY <2>1, <2>2
<1>3. Fits(w)
  <2>1. w = [k \in Int |-> w[k]]
    OBVIOUS
  <2> HIDE DEF w
  <2> QED BY <1>2, <2>1
<1>4. NextOpen = CHOOSE s : Fits(s)
  BY DEF NextOpen
<1>5. Fits(NextOpen)
  <2> HIDE DEF Fits, w
  <2> QED BY <1>3, <1>4
<1>6. \A k \in Int : NextOpen[k] = IF Closed(k) THEN NextOpen[k + 1] ELSE k
  BY <1>5
<1> DEFINE m == w[n]
           Wrong == {d \in Nat : d <= m - n /\ NextOpen[m - d] # m}
<1>7. IsFirstOpen(n, m)
  BY <1>1
<1> HIDE DEF w, m, Fits
<1>8. m \in Int /\ m - n \in Nat
  BY <1>7 DEF IsFirstOpen
<1>9. Wrong = {}
  <2>1. SUFFICES ASSUME Wrong # {} PROVE FALSE
    OBVIOUS
  <2>2. PICK d \in Wrong : \A e \in Wrong : d <= e
    <3>1. Wrong \in SUBSET Nat
      OBVIOUS
    <3> HIDE DEF Wrong
    <3> QED BY <2>1, <3>1, LeastNatural
  <2>3. CASE d = 0
    <3>1. NextOpen[m] = m /\ m - 0 = m
      BY <1>6, <1>7, <1>8 DEF IsFirstOpen
    <3> QED BY <2>2, <2>3, <3>1
  <2>4. CASE d # 0
    <3>1. /\ d - 1 \in Nat /\ d - 1 <= m - n /\ d - 1 < d
          /\ m - d \in n..(m - 1) /\ m - d \in Int /\ m - d + 1 = m - (d - 1)
      BY <1>8, <2>2, <2>4
    <3>2. NextOpen[m - (d - 1)] = m
      BY <2>2, <3>1
    <3>3. Closed(m - d)
      BY <1>7, <3>1 DEF IsFirstOpen
    <3>4. NextOpen[m - d] = NextOpen[m - d + 1]
      BY <1>6, <3>1, <3>3
    <3> QED BY <2>2, <3>1, <3>2, <3>4
  <2> QED BY <2>3, <2>4
<1>10. NextOpen[n] = m
  <2>1. m - n \in Nat /\ m - (m - n) = n /\ m - n <= m - n
    BY <1>8
  <2> QED BY <1>9, <2>1
<1> QED BY <1>7, <1>10

-----------------------------------------------------------------------------
(* An answer that was given is one the algorithm asked may give.           *)
AnswerGiven == ask \in Asks /\ (answer = <<>> \/ \E a \in MayAnswer : answer = <<a>>)

LEMMA AnswerGivenInductive ==
  /\ ReckoningInit => AnswerGiven
  /\ AnswerGiven /\ [Calculate]_<<ask, answer>> => AnswerGiven'
<1>1. ReckoningInit => AnswerGiven
  BY DEF ReckoningInit, AnswerGiven
<1>2. ASSUME AnswerGiven, [Calculate]_<<ask, answer>> PROVE AnswerGiven'
  <2>1. ask' = ask
    BY <1>2 DEF Calculate
  <2>2. MayAnswer' = MayAnswer
    BY <2>1 DEF MayAnswer
  <2>3. CASE Calculate
    BY <1>2, <2>1, <2>2, <2>3 DEF Calculate, AnswerGiven
  <2>4. CASE UNCHANGED <<ask, answer>>
    BY <1>2, <2>2, <2>4 DEF AnswerGiven
  <2> QED BY <1>2, <2>3, <2>4
<1> QED BY <1>1, <1>2

LEMMA AskTypes ==
  ASSUME ask \in Asks
  PROVE  /\ ask.of = "PAYGW" => ask.gross \in Int /\ ask.period \in DOMAIN Denominators
         /\ ask.of = "GST" => ask.lines \in Seq(Line)
         /\ ask.of = "BAS" => /\ ask.end \in [year : Int, month : 0..11]
                              /\ ask.rule \in [day : Int, offset : Int]
<1>1. CASE ask \in [of : {"PAYGW"}, gross : Pays, period : DOMAIN Denominators]
  <2>1. ask.of = "PAYGW" /\ ask.gross \in Pays /\ ask.period \in DOMAIN Denominators
    BY <1>1
  <2> QED BY <2>1, RulesAssumption DEF RulesAssumption
<1>2. CASE ask \in [of : {"GST"}, lines : Sales]
  <2>1. ask.of = "GST" /\ ask.lines \in Sales
    BY <1>2
  <2> QED BY <2>1, RulesAssumption DEF RulesAssumption, Line
<1>3. CASE ask \in [of : {"BAS"}, end : PeriodEnds, rule : Rules]
  <2>1. ask.of = "BAS" /\ ask.end \in PeriodEnds /\ ask.rule \in Rules
    BY <1>3
  <2> QED BY <2>1, RulesAssumption DEF RulesAssumption
<1> QED BY <1>1, <1>2, <1>3 DEF Asks

LEMMA GivenMatchReference ==
  ASSUME AnswerGiven
  PROVE  RulesMatchReference
<1>1. ASSUME answer # <<>> PROVE Answer \in MayAnswer
  BY <1>1 DEF AnswerGiven, Answer
<1>2. ask \in Asks
  BY DEF AnswerGiven
<1>3. WithholdingMarginal
  <2>1. SUFFICES ASSUME Told("PAYGW")
                 PROVE  LET n == Denominators[ask.period] IN
                        Magnitude(1000 * n * Answer - Marginal(n * ask.gross))
                          <= 500 * n + 1000
    BY DEF WithholdingMarginal
  <2>2. Answer \in Withheld(ask.gross, ask.period)
    BY <1>1, <2>1 DEF Told, MayAnswer
  <2>3. ask.gross \in Int /\ ask.period \in DOMAIN Denominators
    BY <1>2, <2>1, AskTypes DEF Told
  <2> QED BY <2>2, <2>3, WithheldIsMarginal
<1>4. GstShare
  <2>1. SUFFICES ASSUME Told("GST")
                 PROVE  2 * Magnitude(1000 * Answer - RateMilli * TaxableCents(ask.lines))
                          <= 1000 * Len(ask.lines)
    BY DEF GstShare
  <2>2. Answer = SumGst(ask.lines)
    BY <1>1, <2>1 DEF Told, MayAnswer
  <2>3. ask.lines \in Seq(Line)
    BY <1>2, <2>1, AskTypes DEF Told
  <2> QED BY <2>2, <2>3, SumGstIsShare
<1>5. DueFirstOpenDay
  <2> DEFINE first == FirstOf(Months(ask.end, ask.rule))
             next == FirstOf(Months(ask.end, ask.rule) + 1)
             day == Nominal(ask.end, ask.rule)
  <2>1. SUFFICES ASSUME Told("BAS")
                 PROVE  \E d \in first..Answer :
                          /\ d < next
                          /\ \/ d - first + 1 = ask.rule.day
                             \/ d = first /\ ask.rule.day < 1
                             \/ d - first + 1 < ask.rule.day /\ d + 1 = next
                          /\ ~Closed(Answer) /\ \A between \in d..(Answer - 1) : Closed(between)
    BY DEF DueFirstOpenDay
  <2>2. Answer = NextOpen[day]
    BY <1>1, <2>1 DEF Told, MayAnswer, DueDate
  <2>3. ask.end \in [year : Int, month : 0..11] /\ ask.rule \in [day : Int, offset : Int]
    BY <1>2, <2>1, AskTypes DEF Told
  <2>4. /\ first \in Int /\ day \in Int /\ first <= day /\ day < next
        /\ \/ day - first + 1 = ask.rule.day
           \/ day = first /\ ask.rule.day < 1
           \/ day - first + 1 < ask.rule.day /\ day + 1 = next
    BY <2>3, NominalInMonth
  <2>5. IsFirstOpen(day, Answer)
    BY <2>2, <2>4, NextOpenIsFirst
  <2>6. /\ Answer \in Int /\ day <= Answer /\ ~Closed(Answer)
        /\ \A between \in day..(Answer - 1) : Closed(between)
    BY <2>5 DEF IsFirstOpen
  <2> HIDE DEF first, next, day
  <2>7. day \in first..Answer
    BY <2>4, <2>6
  <2> QED BY <2>4, <2>6, <2>7
<1> QED BY <1>3, <1>4, <1>5 DEF RulesMatchReference

(* For every bracket table, rate, rule and calendar: withholding is the    *)
(* marginal tax of the annualised pay shared out over the year, within a   *)
(* cent; GST is the rate's share of the lines that bear it, within half a  *)
(* cent a line; a BAS is due on the first open day from the rule's day on. *)
THEOREM RulesMatchReferenceAlways == ReckoningSpec => []RulesMatchReference
<1>1. ReckoningInit => AnswerGiven
  BY AnswerGivenInductive
<1>2. AnswerGiven /\ [Calculate]_<<ask, answer>> => AnswerGiven'
  BY AnswerGivenInductive
<1>3. AnswerGiven => RulesMatchReference
  BY GivenMatchReference
<1> QED BY <1>1, <1>2, <1>3, PTL DEF ReckoningSpec
=============================================================================
