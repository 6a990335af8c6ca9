---------------------------- MODULE FiltersProofs ----------------------------
(***************************************************************************)
(* Proofs about Filters, for every set of samples and of times, every      *)
(* window and every range.  The values of the filters are fractions:       *)
(* Equals(q, p, d) says which one q is, whatever its lowest terms are.     *)
(***************************************************************************)
EXTENDS Filters, FiniteSetTheorems, WellFoundedInduction, TLAPS

Pairs == Int \X Nat

\* q is a number between the whole numbers lo and hi.
Between(q, lo, hi) ==
  q \in Pairs /\ AtMost(Whole(lo), q) /\ AtMost(q, Whole(hi))

\* f is the running average of k samples of the sum S.
MeanOf(f, k, S) ==
  /\ f = [n |-> k, value |-> f.value] /\ f.value \in Pairs
  /\ IF k = 0 THEN f.value = Whole(0) /\ S = 0 ELSE Equals(f.value, S, k)

\* f is the running variance of k samples of the sum S, whose squares add up
\* to Q.
SpreadOf(f, k, S, Q) ==
  /\ MeanOf(f.mean, k, S) /\ f.sum \in Pairs
  /\ IF k = 0 THEN f.sum = Whole(0) /\ Q = 0 ELSE Equals(f.sum, k * Q - S * S, k)
  /\ k > 1 => Equals(f.value, k * Q - S * S, k * (k - 1))
-----------------------------------------------------------------------------
HistoryOK ==
  /\ stream \in Seq([x : Int, dt : Nat, sum : Int, squares : Int])
  /\ \A i \in 1 .. Count : Total(i) = Total(i - 1) + X(i)
  /\ fresh \in 0 .. Count

\* While the window fills, the moving average is the running one.
MovingOK ==
  /\ moving = [kept |-> moving.kept, ravg |-> moving.ravg, value |-> moving.value]
  /\ moving.kept \in Seq(Pairs)
  /\ Len(moving.kept) = IF Count < Window THEN Count ELSE Window
  /\ \A i \in 1 .. Len(moving.kept) :
       moving.kept[i] = Whole(X((Count - Len(moving.kept)) + i))
  /\ moving.value \in Pairs
  /\ Count <= Window => moving.ravg = average /\ moving.value = average.value
  /\ Count >= Window => Equals(moving.value, Total(Count) - Total(Count - Window), Window)

\* Both low passes have a first sample to start from, once they have started.
PassesOK ==
  /\ low.first \in BOOLEAN /\ (low.first <=> Count = 0)
  /\ high.lpf.first \in BOOLEAN /\ high.value \in Pairs
  /\ Count = 0 => high.value = Whole(0) /\ high.lpf.first
  /\ Count > 0 =>
       /\ \E i, j \in 1 .. Count : Between(low.value, X(i), X(j))
       /\ ~high.lpf.first =>
            \E i, j \in 1 .. Count : Between(high.lpf.value, X(i), X(j))
       /\ \E i, j \in 1 .. Count : Between(high.value, X(i) - X(j), X(j) - X(i))

\* The derivatives count what they have seen up to what they need; while the
\* clock is steady they are differences.
CalculusOK ==
  /\ bend.d_dx = slope
  /\ slope.n = IF fresh < 2 THEN fresh ELSE 2
  /\ bend.top.n = IF fresh < 3 THEN fresh ELSE 3
  /\ fresh > 0 => slope.last = Whole(X(Count))
  /\ Steady =>
       /\ slope.out = Whole(IF fresh > 1 THEN X(Count) - X(Count - 1) ELSE 0)
       /\ fresh > 0 => bend.top.last = slope.out
       /\ area = Whole(IF fresh > 0 THEN X(Count) - X(Count - fresh + 1) ELSE 0)

\* The accumulator's derivative is never reset.
AngleOK ==
  /\ angle.first \in BOOLEAN /\ (angle.first <=> Count = 0)
  /\ angle.diff.n = IF Count < 2 THEN Count ELSE 2
  /\ Count > 0 =>
       /\ angle.diff.last = Whole(X(Count) % Bounds)
       /\ \E turns \in 1 - Count .. Count - 1 :
            angle.value = Whole(turns * Bounds + (X(Count) % Bounds))

FiltersInv ==
  /\ HistoryOK /\ MovingOK /\ PassesOK /\ CalculusOK /\ AngleOK
  /\ MeanOf(average, Count, Total(Count))
  /\ SpreadOf(variance, Count, Total(Count), Squares(Count))
  /\ CalculusFits
-----------------------------------------------------------------------------
\* A set of integers with a bound has a greatest element, which Max chooses.
LEMMA MaxExists ==
  ASSUME NEW d \in Nat, NEW S \in SUBSET (1 .. d), S # {}
  PROVE  Max(S) \in S
<1> DEFINE Above(x) == {y \in S : y > x}
           T == {Above(x) : x \in S}
<1>1. IsFiniteSet(S)
  <2>1. IsFiniteSet(1 .. d)
    BY FS_Interval
  <2> QED
    BY <2>1, FS_Subset
<1>2. T \subseteq FiniteSubsetsOf(S) /\ T # {}
  <2>1. ASSUME NEW x \in S
        PROVE  Above(x) \in SUBSET S /\ IsFiniteSet(Above(x))
    <3>1. Above(x) \in SUBSET S
      OBVIOUS
    <3> QED
      BY <1>1, <3>1, FS_Subset
  <2> QED
    BY <2>1 DEF FiniteSubsetsOf
<1>3. PICK A \in T : \A B \in T : <<B, A>> \notin StrictSubsetOrdering(S)
  <2> HIDE DEF T
  <2> QED
    BY <1>2, FS_StrictSubsetOrderingWellFounded, WFMin
<1>4. PICK x \in S : A = Above(x)
  BY <1>3
<1>5. \A y \in S : x >= y
  <2> SUFFICES ASSUME NEW y \in S, y > x
               PROVE  FALSE
    OBVIOUS
  <2>1. Above(y) \in T /\ Above(y) \subseteq S /\ Above(x) \subseteq S
    OBVIOUS
  <2>2. Above(y) \subseteq Above(x) /\ y \in Above(x) /\ y \notin Above(y)
    <3>1. S \subseteq Int
      OBVIOUS
    <3>2. ASSUME NEW z \in Above(y)
          PROVE  z \in Above(x)
      <4>1. z \in S /\ z > y /\ x \in Int /\ y \in Int /\ z \in Int
        BY <3>1, <3>2
      <4> QED
        BY <4>1
    <3>3. y \in Above(x)
      OBVIOUS
    <3>4. ~(y > y)
      BY <3>1
    <3> QED
      BY <3>2, <3>3, <3>4
  <2>3. <<Above(y), Above(x)>> \in StrictSubsetOrdering(S)
    <3> HIDE DEF Above
    <3> QED
    BY <2>1, <2>2 DEF StrictSubsetOrdering
  <2> QED
    BY <1>3, <1>4, <2>1, <2>3
<1> QED
  BY <1>5 DEF Max

\* The divisor a fraction is cut by divides both its parts.
LEMMA GcdDivides ==
  ASSUME NEW p \in Int, NEW d \in Nat \ {0}
  PROVE  /\ Gcd(p, d) \in 1 .. d
         /\ p % Gcd(p, d) = 0 /\ d % Gcd(p, d) = 0
<1> DEFINE S == {k \in 1 .. d : p % k = 0 /\ d % k = 0}
<1>1. 1 \in S
  OBVIOUS
<1>2. Max(S) \in S
  <2> HIDE DEF S
  <2>1. S \in SUBSET (1 .. d)
    BY DEF S
  <2> QED
    BY <1>1, <2>1, MaxExists
<1> QED
  BY <1>2 DEF Gcd

\* Division without a remainder.
LEMMA Exactly ==
  ASSUME NEW a \in Int, NEW b \in Nat \ {0}, a % b = 0
  PROVE  a \div b \in Int /\ a = b * (a \div b)
OBVIOUS

\* Frac(p, d) is p over d: the lowest terms are the same number.
LEMMA FracEquals ==
  ASSUME NEW p \in Int, NEW d \in Nat \ {0}
  PROVE  Frac(p, d) \in Pairs /\ Equals(Frac(p, d), p, d)
<1> DEFINE g == Gcd(p, d)
<1>1. g \in Nat \ {0} /\ p % g = 0 /\ d % g = 0
  BY GcdDivides
<1> DEFINE a == p \div g
           b == d \div g
<1>2. a \in Int /\ p = g * a
  BY <1>1, Exactly
<1>3. b \in Int /\ d = g * b
  <2>1. d \in Int
    OBVIOUS
  <2> QED
    BY <1>1, <2>1, Exactly
<1>4. Frac(p, d) = <<a, b>>
  BY DEF Frac
<1> HIDE DEF g, a, b
<1>5. b > 0
  BY <1>1, <1>3
<1>6. a * d = p * b
  BY <1>1, <1>2, <1>3
<1> QED
  BY <1>2, <1>3, <1>4, <1>5, <1>6 DEF Equals, Pairs

\* Frac gives a fraction whenever its denominator is not 0.
LEMMA FracType ==
  ASSUME NEW p \in Int, NEW d \in Nat
  PROVE  Frac(p, d) \in Pairs
BY FracEquals DEF Frac, NaN, Pairs

\* What is over 1 is whole.
LEMMA FracWhole ==
  ASSUME NEW p \in Int
  PROVE  Frac(p, 1) = Whole(p)
<1>1. Gcd(p, 1) = 1
  BY GcdDivides
<1> QED
  BY <1>1 DEF Frac, Whole

\* A factor on both sides goes.
LEMMA Cancel ==
  ASSUME NEW a \in Int, NEW b \in Int, NEW c \in Int, c # 0, a * c = b * c
  PROVE  a = b
OBVIOUS

\* A fraction may be written with another denominator.
LEMMA EqualsScaled ==
  ASSUME NEW q \in Pairs, NEW p \in Int, NEW d \in Int, NEW k \in Int, k # 0
  PROVE  Equals(q, p * k, d * k) <=> Equals(q, p, d)
<1>1. PICK a \in Int, b \in Nat : q = <<a, b>>
  BY DEF Pairs
<1>2. a * (d * k) = (a * d) * k /\ (p * k) * b = (p * b) * k
  BY <1>1
<1>3. a * d = p * b <=> (a * d) * k = (p * b) * k
  BY <1>1, Cancel
<1> QED
  BY <1>1, <1>2, <1>3 DEF Equals

\* Times multiplies.
LEMMA EqualsTimes ==
  ASSUME NEW q \in Pairs, NEW p \in Int, NEW d \in Nat \ {0}, Equals(q, p, d),
         NEW r \in Pairs, NEW u \in Int, NEW e \in Nat \ {0}, Equals(r, u, e)
  PROVE  Times(q, r) \in Pairs /\ Equals(Times(q, r), p * u, d * e)
<1>1. PICK a \in Int, b \in Nat \ {0} : q = <<a, b>> /\ a * d = p * b
  BY DEF Pairs, Equals
<1>2. PICK f \in Int, g \in Nat \ {0} : r = <<f, g>> /\ f * e = u * g
  BY DEF Pairs, Equals
<1>3. PICK s \in Int, t \in Nat \ {0} : Times(q, r) = <<s, t>> /\ s * (b * g) = (a * f) * t
  <2>1. b * g \in Nat \ {0} /\ a * f \in Int
    BY <1>1, <1>2
  <2> QED
    <3>1. Times(q, r) = Frac(a * f, b * g)
      BY <1>1, <1>2 DEF Times
    <3>2. Frac(a * f, b * g) \in Pairs /\ Equals(Frac(a * f, b * g), a * f, b * g)
      BY <2>1, FracEquals
    <3> QED
      BY <3>1, <3>2 DEF Pairs, Equals
<1>4. (s * (d * e)) * (b * g) = ((p * u) * t) * (b * g)
  <2>1. (s * (d * e)) * (b * g) = (s * (b * g)) * (d * e)
    BY <1>1, <1>2, <1>3
  <2>2. ((a * f) * t) * (d * e) = ((a * d) * (f * e)) * t
    BY <1>1, <1>2, <1>3
  <2>3. ((p * b) * (u * g)) * t = ((p * u) * t) * (b * g)
    BY <1>1, <1>2, <1>3
  <2> QED
    BY <1>1, <1>2, <1>3, <2>1, <2>2, <2>3
<1>5. s * (d * e) = (p * u) * t
  <2>1. b * g # 0
    BY <1>1, <1>2
  <2> QED
    BY <1>1, <1>2, <1>3, <1>4, <2>1, Cancel
<1> QED
  BY <1>3, <1>5 DEF Equals, Pairs

\* Plus adds.
LEMMA EqualsPlus ==
  ASSUME NEW q \in Pairs, NEW p \in Int, NEW d \in Nat \ {0}, Equals(q, p, d),
         NEW r \in Pairs, NEW u \in Int, Equals(r, u, d)
  PROVE  Plus(q, r) \in Pairs /\ Equals(Plus(q, r), p + u, d)
<1>1. PICK a \in Int, b \in Nat \ {0} : q = <<a, b>> /\ a * d = p * b
  BY DEF Pairs, Equals
<1>2. PICK f \in Int, g \in Nat \ {0} : r = <<f, g>> /\ f * d = u * g
  BY DEF Pairs, Equals
<1>3. PICK s \in Int, t \in Nat \ {0} :
        Plus(q, r) = <<s, t>> /\ s * (b * g) = (a * g + f * b) * t
  <2>1. b * g \in Nat \ {0} /\ a * g + f * b \in Int
    BY <1>1, <1>2
  <2> QED
    <3>1. Plus(q, r) = Frac(a * g + f * b, b * g)
      BY <1>1, <1>2 DEF Plus
    <3>2. Frac(a * g + f * b, b * g) \in Pairs /\ Equals(Frac(a * g + f * b, b * g), a * g + f * b, b * g)
      BY <2>1, FracEquals
    <3> QED
      BY <3>1, <3>2 DEF Pairs, Equals
<1>4. (s * d) * (b * g) = ((p + u) * t) * (b * g)
  <2>1. (s * d) * (b * g) = (s * (b * g)) * d
    BY <1>1, <1>2, <1>3
  <2>2. ((a * g + f * b) * t) * d = ((a * d) * g + (f * d) * b) * t
    BY <1>1, <1>2, <1>3
  <2>3. ((p * b) * g + (u * g) * b) * t = ((p + u) * t) * (b * g)
    BY <1>1, <1>2, <1>3
  <2> QED
    BY <1>1, <1>2, <1>3, <2>1, <2>2, <2>3
<1>5. s * d = (p + u) * t
  <2>1. b * g # 0
    BY <1>1, <1>2
  <2> QED
    BY <1>1, <1>2, <1>3, <1>4, <2>1, Cancel
<1> QED
  BY <1>3, <1>5 DEF Equals, Pairs

\* A whole number is a fraction.
LEMMA WholeEquals ==
  ASSUME NEW p \in Int
  PROVE  Whole(p) \in Pairs /\ Equals(Whole(p), p, 1)
BY DEF Whole, Pairs, Equals

\* Minus subtracts.
LEMMA EqualsMinus ==
  ASSUME NEW q \in Pairs, NEW p \in Int, NEW d \in Nat \ {0}, Equals(q, p, d),
         NEW r \in Pairs, NEW u \in Int, Equals(r, u, d)
  PROVE  Minus(q, r) \in Pairs /\ Equals(Minus(q, r), p - u, d)
<1> DEFINE m == Times(Whole(-1), r)
<1>1. m \in Pairs /\ Equals(m, -1 * u, 1 * d)
  BY WholeEquals, EqualsTimes
<1>2. -1 * u = -u /\ 1 * d = d /\ p + (-u) = p - u
  OBVIOUS
<1>3. Equals(m, -u, d)
  BY <1>1, <1>2
<1> HIDE DEF m
<1>4. Plus(q, m) \in Pairs /\ Equals(Plus(q, m), p + (-u), d)
  BY <1>1, <1>3, EqualsPlus
<1> QED
  BY <1>2, <1>4 DEF Minus, m

\* Over divides.
LEMMA EqualsOver ==
  ASSUME NEW q \in Pairs, NEW p \in Int, NEW d \in Nat \ {0}, Equals(q, p, d),
         NEW k \in Nat \ {0}
  PROVE  Over(q, k) \in Pairs /\ Equals(Over(q, k), p, d * k)
<1>1. Frac(1, k) \in Pairs /\ Equals(Frac(1, k), 1, k)
  BY FracEquals
<1>2. Times(q, Frac(1, k)) \in Pairs /\ Equals(Times(q, Frac(1, k)), p * 1, d * k)
  BY <1>1, EqualsTimes
<1> QED
  BY <1>2 DEF Over
-----------------------------------------------------------------------------
\* running_average::step.
LEMMA AverageStepCorrect ==
  ASSUME NEW f, NEW k \in Nat, NEW S \in Int, MeanOf(f, k, S), NEW x \in Int
  PROVE  MeanOf(AverageStep(f, Whole(x)), k + 1, S + x)
<1> DEFINE g == AverageStep(f, Whole(x))
<1>1. f.n = k /\ f.value \in Pairs /\ k + 1 \in Nat \ {0}
  BY DEF MeanOf
<1>2. g = [n |-> k + 1, value |-> g.value]
  BY <1>1 DEF AverageStep
<1>3. g.value \in Pairs /\ Equals(g.value, S + x, k + 1)
  <2>1. CASE k = 0
    <3>1. g.value = Whole(x) /\ S + x = x /\ k + 1 = 1
      BY <1>1, <2>1 DEF AverageStep, MeanOf
    <3> QED
      BY <3>1, WholeEquals
  <2>2. CASE k # 0
    <3> DEFINE old == Times(f.value, Frac(k, k + 1))
               new == Over(Whole(x), k + 1)
    <3>1. g.value = Plus(old, new)
      BY <1>1, <2>2 DEF AverageStep
    <3>2. old \in Pairs /\ Equals(old, S * k, k * (k + 1))
      <4>1. Frac(k, k + 1) \in Pairs /\ Equals(Frac(k, k + 1), k, k + 1)
        BY FracEquals
      <4>2. Equals(f.value, S, k) /\ k \in Nat \ {0}
        BY <2>2 DEF MeanOf
      <4> QED
        BY <1>1, <4>1, <4>2, EqualsTimes
    <3>3. Equals(old, S, k + 1)
      <4>1. k * (k + 1) = (k + 1) * k /\ k + 1 \in Int /\ k \in Int /\ k # 0
        BY <2>2
      <4> HIDE DEF old
      <4>2. old \in Pairs /\ Equals(old, S * k, (k + 1) * k)
        BY <3>2, <4>1
      <4> QED
        BY <4>1, <4>2, EqualsScaled
    <3>4. new \in Pairs /\ Equals(new, x, k + 1)
      <4>1. new \in Pairs /\ Equals(new, x, 1 * (k + 1))
        BY WholeEquals, EqualsOver
      <4> QED
        BY <4>1
    <3> HIDE DEF old, new
    <3> QED
      BY <1>1, <3>1, <3>2, <3>3, <3>4, EqualsPlus
  <2> QED
    BY <2>1, <2>2
<1> QED
  BY <1>2, <1>3 DEF MeanOf

\* The identity behind running_variance::step.
LEMMA SpreadStep ==
  ASSUME NEW k \in Int, NEW S \in Int, NEW Q \in Int, NEW x \in Int
  PROVE  (k * Q - S * S) * (k + 1) + (k * x - S) * (k * x - S)
           = ((k + 1) * (Q + x * x) - (S + x) * (S + x)) * k
OBVIOUS

\* running_variance::step.
LEMMA VarianceStepCorrect ==
  ASSUME NEW f, NEW k \in Nat, NEW S \in Int, NEW Q \in Int,
         SpreadOf(f, k, S, Q), NEW x \in Int
  PROVE  SpreadOf(VarianceStep(f, Whole(x)), k + 1, S + x, Q + x * x)
<1> DEFINE g == VarianceStep(f, Whole(x))
           m == AverageStep(f.mean, Whole(x))
           s == (k + 1) * (Q + x * x) - (S + x) * (S + x)
           fromNew == Minus(Whole(x), m.value)
           fromOld == Minus(Whole(x), f.mean.value)
<1>1. MeanOf(f.mean, k, S) /\ f.sum \in Pairs
  BY DEF SpreadOf
<1>2. g.mean = m /\ g.sum = Plus(f.sum, Times(fromNew, fromOld))
  BY DEF VarianceStep
<1>3. MeanOf(m, k + 1, S + x)
  BY <1>1, AverageStepCorrect
<1>4. m.n = k + 1 /\ m.value \in Pairs /\ Equals(m.value, S + x, k + 1)
  BY <1>3 DEF MeanOf
<1>5. g.sum \in Pairs /\ Equals(g.sum, s, k + 1)
  <2>1. fromNew \in Pairs /\ Equals(fromNew, k * x - S, k + 1)
    <3>1. Whole(x) \in Pairs /\ Equals(Whole(x), x * (k + 1), k + 1)
      BY DEF Whole, Pairs, Equals
    <3>2. x * (k + 1) - (S + x) = k * x - S
      OBVIOUS
    <3> QED
      BY <1>4, <3>1, <3>2, EqualsMinus
  <2>2. CASE k = 0
    <3>1. S = 0 /\ Q = 0 /\ f.sum = Whole(0) /\ f.mean.value = Whole(0)
      BY <2>2 DEF SpreadOf, MeanOf
    <3>2. Equals(fromNew, 0, 1)
      BY <2>1, <2>2, <3>1
    <3>3. fromOld \in Pairs /\ Equals(fromOld, x - 0, 1)
      BY <3>1, WholeEquals, EqualsMinus
    <3>4. Times(fromNew, fromOld) \in Pairs
          /\ Equals(Times(fromNew, fromOld), 0 * (x - 0), 1 * 1)
      <4> HIDE DEF fromNew, fromOld
      <4> QED
        BY <2>1, <3>2, <3>3, EqualsTimes
    <3>5. Equals(Times(fromNew, fromOld), 0, 1)
      BY <3>4
    <3>6. g.sum \in Pairs /\ Equals(g.sum, 0 + 0, 1)
      <4> HIDE DEF g, fromNew, fromOld
      <4> QED
        BY <1>2, <3>1, <3>4, <3>5, WholeEquals, EqualsPlus
    <3>7. s = 0
      BY <2>2, <3>1
    <3> QED
      BY <2>2, <3>6, <3>7
  <2>3. CASE k # 0
    <3>1. k \in Nat \ {0} /\ k + 1 \in Nat \ {0} /\ (k + 1) * k \in Nat \ {0}
      BY <2>3
    <3>2. fromOld \in Pairs /\ Equals(fromOld, k * x - S, k)
      <4>1. Whole(x) \in Pairs /\ Equals(Whole(x), k * x, k)
        BY DEF Whole, Pairs, Equals
      <4>2. f.mean.value \in Pairs /\ Equals(f.mean.value, S, k)
        BY <1>1, <2>3 DEF MeanOf
      <4> QED
        BY <3>1, <4>1, <4>2, EqualsMinus
    <3> DEFINE p == Times(fromNew, fromOld)
    <3>3. p \in Pairs /\ Equals(p, (k * x - S) * (k * x - S), (k + 1) * k)
      <4> HIDE DEF fromNew, fromOld
      <4> QED
        BY <2>1, <3>1, <3>2, EqualsTimes
    <3>4. Equals(f.sum, (k * Q - S * S) * (k + 1), (k + 1) * k)
      <4>1. Equals(f.sum, k * Q - S * S, k)
        BY <2>3 DEF SpreadOf
      <4>2. /\ (k + 1) * k = k * (k + 1) /\ k * Q - S * S \in Int
            /\ k \in Int /\ k + 1 \in Int /\ k + 1 # 0
        OBVIOUS
      <4>3. Equals(f.sum, (k * Q - S * S) * (k + 1), k * (k + 1))
        BY <1>1, <4>1, <4>2, EqualsScaled
      <4> QED
        BY <4>2, <4>3
    <3>5. g.sum \in Pairs
          /\ Equals(g.sum, (k * Q - S * S) * (k + 1) + (k * x - S) * (k * x - S),
                    (k + 1) * k)
      <4>1. (k * Q - S * S) * (k + 1) \in Int /\ (k * x - S) * (k * x - S) \in Int
        OBVIOUS
      <4> HIDE DEF p
      <4> QED
        BY <1>1, <1>2, <3>1, <3>3, <3>4, <4>1, EqualsPlus DEF p
    <3>6. Equals(g.sum, s * k, (k + 1) * k)
      BY <3>5, SpreadStep
    <3> HIDE DEF g, s
    <3>7. s \in Int /\ k \in Int /\ k + 1 \in Int /\ k # 0
      BY <2>3 DEF s
    <3> QED
      BY <3>5, <3>6, <3>7, EqualsScaled
  <2> QED
    BY <2>2, <2>3
<1>6. k + 1 > 1 => Equals(g.value, s, (k + 1) * k)
  <2> SUFFICES ASSUME k > 0
               PROVE  Equals(g.value, s, (k + 1) * k)
    OBVIOUS
  <2>1. g.value = Over(g.sum, k)
    BY <1>4 DEF VarianceStep
  <2> HIDE DEF g, s
  <2>2. s \in Int
    BY DEF s
  <2> QED
    BY <1>5, <2>1, <2>2, EqualsOver
<1>7. k + 1 # 0 /\ (k + 1) - 1 = k
  OBVIOUS
<1> HIDE DEF g, m
<1>8. SpreadOf(g, k + 1, S + x, Q + x * x)
  BY <1>2, <1>3, <1>5, <1>6, <1>7 DEF SpreadOf
<1> QED
  BY <1>8 DEF g
-----------------------------------------------------------------------------
\* What Between(q, m, k) says of the fraction q.
LEMMA BetweenProperties ==
  ASSUME NEW q, NEW lo \in Int, NEW hi \in Int
  PROVE  Between(q, lo, hi) <=>
           /\ q \in Pairs /\ q[2] > 0
           /\ lo * q[2] <= q[1] /\ q[1] <= hi * q[2]
BY DEF Between, AtMost, Whole, Pairs

\* A natural factor keeps the order of two integers.
LEMMA Monotonic ==
  ASSUME NEW a \in Int, NEW b \in Int, NEW c \in Nat, a <= b
  PROVE  a * c <= b * c
OBVIOUS

\* A positive factor on both sides of a comparison goes.
LEMMA MonotonicCancel ==
  ASSUME NEW a \in Int, NEW b \in Int, NEW c \in Nat \ {0}, a * c <= b * c
  PROVE  a <= b
OBVIOUS

\* Bounds of p over d are bounds of the fraction it equals.
LEMMA EqualsBetween ==
  ASSUME NEW q \in Pairs, NEW p \in Int, NEW d \in Nat \ {0}, Equals(q, p, d),
         NEW lo \in Int, NEW hi \in Int, lo * d <= p, p <= hi * d
  PROVE  Between(q, lo, hi)
<1>1. PICK a \in Int, b \in Nat \ {0} : q = <<a, b>> /\ a * d = p * b
  BY DEF Pairs, Equals
<1>2. (lo * b) * d <= a * d
  <2>1. (lo * d) * b <= p * b
    BY <1>1, Monotonic
  <2>2. (lo * d) * b = (lo * b) * d
    BY <1>1
  <2> QED
    BY <1>1, <2>1, <2>2
<1>3. a * d <= (hi * b) * d
  <2>1. p * b <= (hi * d) * b
    BY <1>1, Monotonic
  <2>2. (hi * d) * b = (hi * b) * d
    BY <1>1
  <2> QED
    BY <1>1, <2>1, <2>2
<1>4. lo * b <= a /\ a <= hi * b
  <2>1. lo * b \in Int /\ hi * b \in Int
    BY <1>1
  <2> QED
    BY <1>1, <1>2, <1>3, <2>1, MonotonicCancel
<1> QED
  BY <1>1, <1>4, BetweenProperties

\* What is within a range is within a wider one.
LEMMA BetweenWider ==
  ASSUME NEW q, NEW lo \in Int, NEW hi \in Int, Between(q, lo, hi),
         NEW lo2 \in Int, NEW hi2 \in Int, lo2 <= lo, hi <= hi2
  PROVE  Between(q, lo2, hi2)
<1>1. q \in Pairs /\ q[2] > 0 /\ lo * q[2] <= q[1] /\ q[1] <= hi * q[2]
  BY BetweenProperties
<1>2. q[1] \in Int /\ q[2] \in Nat
  BY <1>1 DEF Pairs
<1>3. lo2 * q[2] <= lo * q[2] /\ hi * q[2] <= hi2 * q[2]
  BY <1>2, Monotonic
<1>4. lo2 * q[2] <= q[1] /\ q[1] <= hi2 * q[2]
  BY <1>1, <1>2, <1>3
<1> QED
  BY <1>1, <1>4, BetweenProperties

\* low_pass::step: a mixture of the sample and the value stays between them.
LEMMA LowStepBetween ==
  ASSUME FiltersAssumption, NEW f, NEW s \in Int, NEW dt \in Nat,
         NEW lo \in Int, NEW hi \in Int,
         lo <= s, s <= hi, ~f.first => Between(f.value, lo, hi)
  PROVE  /\ LowStep(f, Whole(s), dt).first = FALSE
         /\ Between(LowStep(f, Whole(s), dt).value, lo, hi)
<1> DEFINE old == IF f.first THEN Whole(s) ELSE f.value
           a   == Frac(dt, RC + dt)
<1>1. Between(old, lo, hi)
  <2>1. Between(Whole(s), lo, hi)
    BY WholeEquals, EqualsBetween
  <2> QED
    BY <2>1
<1>2. PICK p \in Int, q \in Nat \ {0} :
        old = <<p, q>> /\ lo * q <= p /\ p <= hi * q
  BY <1>1, BetweenProperties DEF Pairs
<1> HIDE DEF old
<1>3. ASSUME dt # 0
      PROVE  Between(Plus(Times(a, Whole(s)), Times(Minus(Whole(1), a), old)),
                     lo, hi)
  <2> DEFINE d == RC + dt
             t1 == Times(a, Whole(s))
             m  == Minus(Whole(1), a)
             t2 == Times(m, old)
  <2>1. RC \in Nat /\ d \in Nat \ {0} /\ d * q \in Nat \ {0}
    BY <1>2, <1>3 DEF FiltersAssumption
  <2>2. a \in Pairs /\ Equals(a, dt, d)
    BY <2>1, FracEquals
  <2>3. t1 \in Pairs /\ Equals(t1, (dt * s) * q, d * q)
    <3>1. t1 \in Pairs /\ Equals(t1, dt * s, d * 1)
      <4> HIDE DEF d, a
      <4> QED
        BY <2>1, <2>2, WholeEquals, EqualsTimes
    <3>2. Equals(t1, dt * s, d) /\ dt * s \in Int /\ q \in Int /\ q # 0 /\ d \in Int
      BY <1>2, <2>1, <3>1
    <3> HIDE DEF t1, d
    <3> QED
      BY <3>1, <3>2, EqualsScaled
  <2>4. m \in Pairs /\ Equals(m, RC, d)
    <3>1. Whole(1) \in Pairs /\ Equals(Whole(1), d, d)
      BY <2>1 DEF Whole, Pairs, Equals
    <3>2. d - dt = RC
      BY <2>1
    <3> HIDE DEF d, a
    <3>3. m \in Pairs /\ Equals(m, d - dt, d)
      BY <2>1, <2>2, <3>1, EqualsMinus
    <3> QED
      BY <3>2, <3>3
  <2>5. t2 \in Pairs /\ Equals(t2, RC * p, d * q)
    <3>1. old \in Pairs /\ Equals(old, p, q)
      BY <1>2 DEF Pairs, Equals
    <3> HIDE DEF d, m
    <3> QED
      BY <1>2, <2>1, <2>4, <3>1, EqualsTimes
  <2>6. Plus(t1, t2) \in Pairs /\ Equals(Plus(t1, t2), (dt * s) * q + RC * p, d * q)
    <3>1. (dt * s) * q \in Int /\ RC * p \in Int
      BY <1>2, <2>1
    <3> HIDE DEF t1, t2, d
    <3> QED
      BY <2>1, <2>3, <2>5, <3>1, EqualsPlus
  <2>7. lo * (d * q) <= (dt * s) * q + RC * p
    <3>1. lo * (dt * q) <= s * (dt * q) /\ (lo * q) * RC <= p * RC
      <4>1. dt * q \in Nat /\ lo * q \in Int
        BY <1>2
      <4> QED
        BY <1>2, <2>1, <4>1, Monotonic
    <3>2. lo * (d * q) = lo * (dt * q) + (lo * q) * RC
      BY <1>2, <2>1
    <3>3. (dt * s) * q + RC * p = s * (dt * q) + p * RC
      BY <1>2, <2>1
    <3> QED
      BY <1>2, <2>1, <3>1, <3>2, <3>3
  <2>8. (dt * s) * q + RC * p <= hi * (d * q)
    <3>1. s * (dt * q) <= hi * (dt * q) /\ p * RC <= (hi * q) * RC
      <4>1. dt * q \in Nat /\ hi * q \in Int
        BY <1>2
      <4> QED
        BY <1>2, <2>1, <4>1, Monotonic
    <3>2. hi * (d * q) = hi * (dt * q) + (hi * q) * RC
      BY <1>2, <2>1
    <3>3. (dt * s) * q + RC * p = s * (dt * q) + p * RC
      BY <1>2, <2>1
    <3> QED
      BY <1>2, <2>1, <3>1, <3>2, <3>3
  <2>9. (dt * s) * q + RC * p \in Int
    BY <1>2, <2>1
  <2> HIDE DEF t1, t2, d
  <2>10. Between(Plus(t1, t2), lo, hi)
    BY <2>1, <2>6, <2>7, <2>8, <2>9, EqualsBetween
  <2> QED
    BY <2>10 DEF t1, t2
<1>4. LowStep(f, Whole(s), dt)
        = [first |-> FALSE,
           value |-> IF dt = 0 THEN old
                     ELSE Plus(Times(a, Whole(s)), Times(Minus(Whole(1), a), old))]
  BY DEF LowStep, old
<1> QED
  BY <1>1, <1>3, <1>4

\* high_pass::step: what is left when the low pass is taken off.
LEMMA MinusBetween ==
  ASSUME NEW s \in Int, NEW q, NEW lo \in Int, NEW hi \in Int, Between(q, lo, hi)
  PROVE  Between(Minus(Whole(s), q), s - hi, s - lo)
<1>1. PICK a \in Int, b \in Nat \ {0} :
        q = <<a, b>> /\ lo * b <= a /\ a <= hi * b
  BY BetweenProperties DEF Pairs
<1>2. q \in Pairs /\ Equals(q, a, b)
  BY <1>1 DEF Pairs, Equals
<1>3. Whole(s) \in Pairs /\ Equals(Whole(s), s * b, b)
  BY <1>1 DEF Whole, Pairs, Equals
<1>4. s * b \in Int /\ s * b - a \in Int /\ s - hi \in Int /\ s - lo \in Int
  BY <1>1
<1>5. Minus(Whole(s), q) \in Pairs /\ Equals(Minus(Whole(s), q), s * b - a, b)
  BY <1>1, <1>2, <1>3, <1>4, EqualsMinus
<1>6. (s - hi) * b <= s * b - a /\ s * b - a <= (s - lo) * b
  BY <1>1
<1> QED
  BY <1>1, <1>4, <1>5, <1>6, EqualsBetween

\* The size of what is between -w and w is w at most.
LEMMA BetweenSize ==
  ASSUME NEW q, NEW w \in Int, Between(q, -w, w)
  PROVE  AtMost(Size(q), Whole(w))
<1>1. PICK a \in Int, b \in Nat \ {0} :
        q = <<a, b>> /\ (-w) * b <= a /\ a <= w * b
  BY BetweenProperties DEF Pairs
<1>2. CASE a >= 0
  <2>1. Size(q) = q
    BY <1>1, <1>2 DEF Size
  <2> QED
    BY <1>1, <2>1 DEF AtMost, Whole
<1>3. CASE a < 0
  <2>1. Size(q) = Times(Whole(-1), q) /\ q \in Pairs /\ Equals(q, a, b)
    BY <1>1, <1>3 DEF Size, Pairs, Equals
  <2>2. Size(q) \in Pairs /\ Equals(Size(q), (-1) * a, 1 * b)
    BY <1>1, <2>1, WholeEquals, EqualsTimes
  <2>3. Equals(Size(q), -a, b) /\ 0 * b <= -a /\ -a <= w * b
    BY <1>1, <1>3, <2>2
  <2>4. Between(Size(q), 0, w)
    BY <1>1, <2>2, <2>3, EqualsBetween
  <2> QED
    BY <2>4 DEF Between
<1> QED
  BY <1>1, <1>2, <1>3
-----------------------------------------------------------------------------
\* Whole numbers stay whole, unless they are divided.
LEMMA WholeArithmetic ==
  ASSUME NEW a \in Int, NEW b \in Int
  PROVE  /\ Plus(Whole(a), Whole(b)) = Whole(a + b)
         /\ Minus(Whole(a), Whole(b)) = Whole(a - b)
         /\ Over(Whole(a), 1) = Whole(a)
         /\ Size(Whole(a)) = Whole(IF a < 0 THEN -a ELSE a)
         /\ Below(Whole(a), Whole(b)) <=> a < b
         /\ a # b => Whole(a) # Whole(b)
<1>1. ASSUME NEW c \in Int, NEW d \in Int
      PROVE  /\ Plus(Whole(c), Whole(d)) = Whole(c + d)
             /\ Times(Whole(c), Whole(d)) = Whole(c * d)
  <2>1. c * 1 + d * 1 = c + d /\ 1 * 1 = 1
    OBVIOUS
  <2>2. Frac(c + d, 1) = Whole(c + d) /\ Frac(c * d, 1) = Whole(c * d)
    BY FracWhole
  <2> QED
    BY <2>1, <2>2 DEF Plus, Times, Whole
<1>2. \A c \in Int : Times(Whole(-1), Whole(c)) = Whole(-c)
  <2> SUFFICES ASSUME NEW c \in Int
               PROVE  Times(Whole(-1), Whole(c)) = Whole(-c)
    OBVIOUS
  <2>1. (-1) * c = -c
    OBVIOUS
  <2> QED
    BY <1>1, <2>1
<1>3. Minus(Whole(a), Whole(b)) = Whole(a - b)
  <2>1. a + (-b) = a - b
    OBVIOUS
  <2> QED
    BY <1>1, <1>2, <2>1 DEF Minus
<1>4. Over(Whole(a), 1) = Whole(a)
  <2>1. Frac(1, 1) = Whole(1)
    BY FracWhole
  <2>2. a * 1 = a
    OBVIOUS
  <2> QED
    BY <1>1, <2>1, <2>2 DEF Over
<1>5. Size(Whole(a)) = Whole(IF a < 0 THEN -a ELSE a)
  <2>1. Whole(a)[1] = a
    BY DEF Whole
  <2> QED
    BY <1>2, <2>1 DEF Size
<1>6. /\ Below(Whole(a), Whole(b)) <=> a < b
      /\ a # b => Whole(a) # Whole(b)
  BY DEF Below, Whole
<1> QED
  BY <1>1, <1>3, <1>4, <1>5, <1>6

\* derivative<N>::step counts its samples and remembers the last.
LEMMA DerivativeCounts ==
  ASSUME NEW N \in Nat, NEW f, f.n \in 0 .. N + 1, NEW s, NEW dx
  PROVE  /\ Derivative(N, f, s, dx).n = IF f.n <= N THEN f.n + 1 ELSE f.n
         /\ Derivative(N, f, s, dx).last = s
BY DEF Derivative

\* With a time of 1 it returns a difference, once it has seen enough.
LEMMA DerivativeIsDifference ==
  ASSUME NEW N \in Nat, NEW f, f.n \in 0 .. N + 1,
         NEW a \in Int, NEW b \in Int, f.n >= N => f.last = Whole(a)
  PROVE  Derivative(N, f, Whole(b), 1).out
           = Whole(IF f.n >= N THEN b - a ELSE 0)
<1> DEFINE count == IF f.n <= N THEN f.n + 1 ELSE f.n
<1>1. count <= N <=> ~(f.n >= N)
  OBVIOUS
<1>2. CASE f.n >= N
  <2>1. Derivative(N, f, Whole(b), 1).out = Over(Minus(Whole(b), f.last), 1)
    BY <1>1, <1>2 DEF Derivative
  <2>2. Minus(Whole(b), Whole(a)) = Whole(b - a) /\ b - a \in Int
    BY WholeArithmetic
  <2>3. Over(Whole(b - a), 1) = Whole(b - a)
    BY <2>2, WholeArithmetic
  <2> QED
    BY <1>2, <2>1, <2>2, <2>3
<1>3. CASE ~(f.n >= N)
  BY <1>1, <1>3 DEF Derivative
<1> QED
  BY <1>2, <1>3

\* range_accumulator::step: from the number a, and so many turns, to b.
LEMMA AccumulateUnwraps ==
  ASSUME NEW f, NEW r \in Nat \ {0}, r = Bounds,
         NEW a \in 0 .. r - 1, NEW b \in 0 .. r - 1, NEW v \in Int,
         ~f.first, f.diff.n \in 1 .. 2, f.diff.last = Whole(a),
         f.value = Whole(v)
  PROVE  \E w \in {b - a, (b - a) - r, (b - a) + r} :
           /\ Accumulate(f, Whole(b)).value = Whole(v + w)
           /\ 2 * w <= r /\ -(2 * w) <= r
<1> DEFINE diff == Derivative(1, f.diff, Whole(b), 1)
           k    == IF b - a > 0 THEN -r ELSE r
           conj == (b - a) + k
           w    == IF (IF b - a < 0 THEN -(b - a) ELSE b - a)
                        < (IF conj < 0 THEN -conj ELSE conj)
                   THEN b - a ELSE conj
<1>1. diff.out = Whole(b - a)
  BY DerivativeIsDifference
<1>2. Accumulate(f, Whole(b)).value
        = LET d    == diff.out
              conj2 == Plus(d, Whole(IF d[1] > 0 THEN -Bounds ELSE Bounds))
          IN  Plus(f.value, IF Below(Size(d), Size(conj2)) THEN d ELSE conj2)
  BY DEF Accumulate
<1>3. diff.out[1] = b - a
  BY <1>1 DEF Whole
<1>4. Plus(diff.out, Whole(IF diff.out[1] > 0 THEN -Bounds ELSE Bounds)) = Whole(conj)
  <2>1. k \in Int /\ b - a \in Int
    OBVIOUS
  <2>2. (IF diff.out[1] > 0 THEN -Bounds ELSE Bounds) = k
    BY <1>3
  <2> HIDE DEF k, diff
  <2>3. Plus(Whole(b - a), Whole(k)) = Whole((b - a) + k)
    BY <2>1, WholeArithmetic
  <2> QED
    BY <1>1, <2>2, <2>3
<1>5. (IF Below(Size(diff.out), Size(Whole(conj))) THEN diff.out ELSE Whole(conj))
        = Whole(w)
  <2> DEFINE s1 == IF b - a < 0 THEN -(b - a) ELSE b - a
             s2 == IF conj < 0 THEN -conj ELSE conj
  <2>1. b - a \in Int /\ conj \in Int /\ s1 \in Int /\ s2 \in Int
    OBVIOUS
  <2>2. Size(Whole(b - a)) = Whole(s1) /\ Size(Whole(conj)) = Whole(s2)
    <3> HIDE DEF conj
    <3> QED
      BY <2>1, WholeArithmetic
  <2> HIDE DEF s1, s2
  <2>3. Below(Whole(s1), Whole(s2)) <=> s1 < s2
    BY <2>1, WholeArithmetic
  <2>4. w = IF s1 < s2 THEN b - a ELSE conj
    BY DEF s1, s2
  <2> HIDE DEF w, conj
  <2> QED
    BY <1>1, <2>2, <2>3, <2>4
<1>6. w \in {b - a, (b - a) - r, (b - a) + r} /\ 2 * w <= r /\ -(2 * w) <= r
  OBVIOUS
<1>7. Accumulate(f, Whole(b)).value = Plus(f.value, Whole(w))
  <2> HIDE DEF w, conj, diff
  <2> QED
    BY <1>2, <1>4, <1>5
<1>8. Plus(Whole(v), Whole(w)) = Whole(v + w)
  <2>1. w \in Int
    BY <1>6
  <2> HIDE DEF w
  <2> QED
    BY <2>1, WholeArithmetic
<1> HIDE DEF w
<1> QED
  BY <1>6, <1>7, <1>8
-----------------------------------------------------------------------------
\* The filters begin as the invariant says.
LEMMA FiltersInit == FiltersAssumption /\ Init => FiltersInv
<1> SUFFICES ASSUME FiltersAssumption, Init
             PROVE  FiltersInv
  OBVIOUS
<1>1. Count = 0 /\ Total(Count) = 0 /\ Squares(Count) = 0
  BY DEF Init, Count, Total, Squares
<1>2. Whole(0) \in Pairs
  BY WholeEquals
<1>3. HistoryOK
  BY <1>1 DEF HistoryOK, Init
<1>4. MeanOf(average, Count, Total(Count))
  BY <1>1, <1>2 DEF MeanOf, Init
<1>5. SpreadOf(variance, Count, Total(Count), Squares(Count))
  BY <1>1, <1>2, <1>4 DEF SpreadOf, Init
<1>6. MovingOK
  BY <1>1, <1>2 DEF MovingOK, Init, FiltersAssumption
<1>7. PassesOK
  <2>1. low.first = TRUE /\ high.lpf.first = TRUE /\ high.value = Whole(0)
    BY DEF Init
  <2>2. low.first \in BOOLEAN /\ high.lpf.first \in BOOLEAN /\ high.value \in Pairs
    BY <1>2, <2>1
  <2>3. low.first <=> Count = 0
    BY <1>1, <2>1
  <2>4. high.lpf.first /\ high.value = Whole(0)
    BY <2>1
  <2>5. ~(Count > 0)
    BY <1>1
  <2> QED
    BY <2>2, <2>3, <2>4, <2>5 DEF PassesOK
<1>8. CalculusOK /\ CalculusFits
  BY <1>1 DEF CalculusOK, CalculusFits, Init, NoSlope, NoBend
<1>9. AngleOK
  BY <1>1 DEF AngleOK, Init, NoSlope
<1> QED
  BY <1>3, <1>4, <1>5, <1>6, <1>7, <1>8, <1>9 DEF FiltersInv

\* A sample is added to the history, which keeps what it has.
LEMMA HistoryStep ==
  ASSUME FiltersAssumption, HistoryOK, NEW x \in Samples, NEW dt \in Steps,
         Step(x, dt), NEW c \in Nat, c = Count
  PROVE  /\ HistoryOK' /\ Count' = c + 1 /\ fresh' = fresh + 1
         /\ x \in Int /\ dt \in Nat
         /\ X(c + 1)' = x /\ stream'[c + 1].dt = dt
         /\ \A i \in 1 .. c : /\ X(i)' = X(i) /\ X(i) \in Int
                              /\ stream'[i].dt = stream[i].dt
         /\ \A i \in 0 .. c : Total(i)' = Total(i) /\ Total(i) \in Int
         /\ Total(c + 1)' = Total(c) + x
         /\ Squares(c) \in Int /\ Squares(c + 1)' = Squares(c) + x * x
<1> DEFINE Sample == [x : Int, dt : Nat, sum : Int, squares : Int]
           new == [x |-> x, dt |-> dt, sum |-> Total(c) + x,
                   squares |-> Squares(c) + x * x]
<1>1. stream \in Seq(Sample) /\ Len(stream) = c /\ fresh \in 0 .. c
  BY DEF HistoryOK, Count
<1>2. \A i \in 1 .. c : stream[i] \in Sample
  <2> HIDE DEF Sample
  <2> QED
    BY <1>1
<1>3. x \in Int /\ dt \in Nat
  BY DEF FiltersAssumption
<1>4. \A i \in 0 .. c : Total(i) \in Int /\ Squares(i) \in Int
  BY <1>2 DEF Total, Squares
<1>5. new \in Sample
  BY <1>3, <1>4
<1>6. stream' = Append(stream, new) /\ fresh' = fresh + 1
  BY DEF Step, Count
<1>7. /\ stream' \in Seq(Sample) /\ Len(stream') = c + 1
      /\ stream'[c + 1] = new /\ \A i \in 1 .. c : stream'[i] = stream[i]
  <2> HIDE DEF Sample, new
  <2> QED
    BY <1>1, <1>5, <1>6
<1>8. /\ \A i \in 1 .. c : X(i)' = X(i) /\ X(i) \in Int
      /\ \A i \in 0 .. c : Total(i)' = Total(i)
      /\ X(c + 1)' = x /\ Total(c + 1)' = Total(c) + x
      /\ Squares(c + 1)' = Squares(c) + x * x
  BY <1>2, <1>7 DEF X, Total, Squares
<1>9. \A i \in 1 .. c + 1 : Total(i)' = Total(i - 1)' + X(i)'
  <2>1. \A i \in 1 .. c : Total(i) = Total(i - 1) + X(i)
    BY DEF HistoryOK
  <2> SUFFICES ASSUME NEW i \in 1 .. c + 1
               PROVE  Total(i)' = Total(i - 1)' + X(i)'
    OBVIOUS
  <2>2. CASE i = c + 1
    <3>1. i - 1 = c /\ c \in 0 .. c
      BY <2>2
    <3> QED
      BY <1>8, <2>2, <3>1
  <2>3. CASE i \in 1 .. c
    <3>1. i \in 0 .. c /\ i - 1 \in 0 .. c
      BY <2>3
    <3> QED
      BY <1>8, <2>1, <2>3, <3>1
  <2> QED
    BY <2>2, <2>3
<1>10. Count' = c + 1
  BY <1>7 DEF Count
<1>11. HistoryOK'
  <2>1. fresh' \in 0 .. Count'
    BY <1>1, <1>6, <1>10
  <2> QED
    BY <1>7, <1>9, <1>10, <2>1 DEF HistoryOK
<1>12. stream'[c + 1].dt = dt /\ \A i \in 1 .. c : stream'[i].dt = stream[i].dt
  <2>1. \A i \in 1 .. c : stream'[i].dt = stream[i].dt
    <3> HIDE DEF Sample, new
    <3> QED
      BY <1>7
  <2>2. new.dt = dt
    OBVIOUS
  <2> QED
    BY <1>7, <2>1, <2>2
<1>13. Squares(c) \in Int
  BY <1>4
<1> QED
  BY <1>3, <1>4, <1>6, <1>8, <1>10, <1>11, <1>12, <1>13

\* AveragesAreMeans, the first half, and VarianceIsUnbiased.
LEMMA MeansStep ==
  ASSUME FiltersAssumption, FiltersInv, NEW x \in Samples, NEW dt \in Steps,
         Step(x, dt)
  PROVE  /\ MeanOf(average, Count, Total(Count))'
         /\ SpreadOf(variance, Count, Total(Count), Squares(Count))'
<1>1. PICK c \in Nat : c = Count
  BY DEF FiltersInv, HistoryOK, Count
<1>2. /\ Count' = c + 1 /\ x \in Int
      /\ Total(c) \in Int /\ Total(c + 1)' = Total(c) + x
      /\ Squares(c) \in Int /\ Squares(c + 1)' = Squares(c) + x * x
  <2>1. c \in 0 .. c
    OBVIOUS
  <2> QED
    BY <1>1, <2>1, HistoryStep DEF FiltersInv
<1>3. Total(Count)' = Total(c) + x /\ Squares(Count)' = Squares(c) + x * x
  BY <1>2 DEF Total, Squares
<1>4. MeanOf(average, c, Total(c)) /\ SpreadOf(variance, c, Total(c), Squares(c))
  BY <1>1 DEF FiltersInv
<1>5. MeanOf(AverageStep(average, Whole(x)), c + 1, Total(c) + x)
  BY <1>2, <1>4, AverageStepCorrect
<1>6. SpreadOf(VarianceStep(variance, Whole(x)), c + 1, Total(c) + x, Squares(c) + x * x)
  BY <1>2, <1>4, VarianceStepCorrect
<1>7. /\ average' = AverageStep(average, Whole(x))
      /\ variance' = VarianceStep(variance, Whole(x))
  BY DEF Step
<1>8. MeanOf(average', Count', Total(Count)')
  BY <1>2, <1>3, <1>5, <1>7
<1>9. SpreadOf(variance', Count', Total(Count)', Squares(Count)')
  BY <1>2, <1>3, <1>6, <1>7
<1>10. MeanOf(average, Count, Total(Count))'
  BY <1>8 DEF MeanOf
<1> QED
  BY <1>9, <1>10 DEF SpreadOf, MeanOf

\* AveragesAreMeans, the second half: what comes and what goes.
LEMMA MovingStepCorrect ==
  ASSUME FiltersAssumption, FiltersInv, NEW x \in Samples, NEW dt \in Steps,
         Step(x, dt)
  PROVE  MovingOK'
<1> DEFINE kept == Append(moving.kept, Whole(x))
           ravg == AverageStep(moving.ravg, Whole(x))
           W    == Window
           Xn(i) == stream'[i].x
           Tn(i) == IF i = 0 THEN 0 ELSE stream'[i].sum
<1>1. PICK c \in Nat : c = Count
  BY DEF FiltersInv, HistoryOK, Count
<1>2. /\ Count' = c + 1 /\ x \in Int
      /\ Xn(c + 1) = x
      /\ \A i \in 1 .. c : Xn(i) = X(i) /\ X(i) \in Int
      /\ \A i \in 0 .. c : Tn(i) = Total(i) /\ Total(i) \in Int
      /\ Tn(c + 1) = Total(c) + x
  BY <1>1, HistoryStep DEF FiltersInv, X, Total
<1>3. /\ moving = [kept |-> moving.kept, ravg |-> moving.ravg, value |-> moving.value]
      /\ moving.kept \in Seq(Pairs) /\ moving.value \in Pairs
      /\ Len(moving.kept) = IF c < W THEN c ELSE W
      /\ \A i \in 1 .. Len(moving.kept) :
           moving.kept[i] = Whole(X((c - Len(moving.kept)) + i))
      /\ c <= W => moving.ravg = average /\ moving.value = average.value
      /\ c >= W => Equals(moving.value, Total(c) - Total(c - W), W)
  BY <1>1 DEF FiltersInv, MovingOK
<1>4. moving' = MovingStep(moving, Whole(x)) /\ average' = AverageStep(average, Whole(x))
  BY DEF Step
<1>5. W \in Nat \ {0}
  BY DEF FiltersAssumption
<1>6. /\ kept \in Seq(Pairs) /\ Len(kept) = Len(moving.kept) + 1
      /\ kept[Len(kept)] = Whole(x)
      /\ \A i \in 1 .. Len(moving.kept) : kept[i] = moving.kept[i]
  BY <1>2, <1>3, WholeEquals
<1>7. CASE c < W
  <2>1. Len(moving.kept) = c /\ Len(kept) = c + 1
    BY <1>3, <1>6, <1>7
  <2>2. moving' = [kept |-> kept, ravg |-> ravg, value |-> ravg.value]
    <3>1. Len(kept) <= W
      BY <1>1, <1>5, <1>7, <2>1
    <3> QED
      BY <1>4, <3>1 DEF MovingStep
  <2>3. ravg = average'
    BY <1>1, <1>3, <1>4, <1>5, <1>7
  <2> HIDE DEF kept, ravg
  <2>4. moving'.kept = kept /\ moving'.ravg = average' /\ moving'.value = average'.value
    BY <2>2, <2>3
  <2>5. \A i \in 1 .. c + 1 : kept[i] = Whole(Xn(i))
    <3> SUFFICES ASSUME NEW i \in 1 .. c + 1
                 PROVE  kept[i] = Whole(Xn(i))
      OBVIOUS
    <3>1. CASE i = c + 1
      BY <1>2, <1>6, <2>1, <3>1
    <3>2. CASE i \in 1 .. c
      <4>1. kept[i] = Whole(X((c - c) + i)) /\ (c - c) + i = i
        BY <1>3, <1>6, <2>1, <3>2
      <4> QED
        BY <1>2, <3>2, <4>1
    <3> QED
      BY <3>1, <3>2
  <2>6. MeanOf(average, Count, Total(Count))'
    BY MeansStep
  <2>7. average'.value \in Pairs /\ Equals(average'.value, Tn(c + 1), c + 1)
    BY <1>2, <2>6 DEF MeanOf, Total
  <2>8. c + 1 >= W => Equals(moving'.value, Tn(c + 1) - Tn((c + 1) - W), W)
    <3> SUFFICES ASSUME c + 1 >= W
                 PROVE  Equals(moving'.value, Tn(c + 1) - Tn((c + 1) - W), W)
      OBVIOUS
    <3>1. c + 1 = W /\ (c + 1) - W = 0
      BY <1>5, <1>7
    <3>2. Tn(0) = 0 /\ Total(c) \in Int /\ Tn(c + 1) \in Int
      BY <1>2 DEF Total
    <3>3. Tn((c + 1) - W) = 0
      BY <3>1, <3>2
    <3>4. Tn(c + 1) - Tn((c + 1) - W) = Tn(c + 1)
      BY <3>2, <3>3
    <3> QED
      BY <2>4, <2>7, <3>1, <3>4
  <2>9. /\ moving' = [kept |-> moving'.kept, ravg |-> moving'.ravg,
                      value |-> moving'.value]
        /\ moving'.kept \in Seq(Pairs) /\ moving'.value \in Pairs
        /\ Len(moving'.kept) = IF c + 1 < W THEN c + 1 ELSE W
        /\ \A i \in 1 .. Len(moving'.kept) :
             moving'.kept[i] = Whole(Xn(((c + 1) - Len(moving'.kept)) + i))
    <3>1. Len(moving'.kept) = c + 1 /\ \A i \in 1 .. c + 1 : ((c + 1) - (c + 1)) + i = i
      BY <2>1, <2>4
    <3> QED
      BY <1>5, <1>6, <1>7, <2>2, <2>4, <2>5, <2>7, <3>1
  <2>10. Count' <= W => moving'.ravg = average' /\ moving'.value = average'.value
    BY <2>4
  <2> QED
    BY <1>2, <2>8, <2>9, <2>10 DEF MovingOK, X, Total
<1>8. CASE c >= W
  <2> DEFINE value == Plus(moving.value, Over(Minus(Whole(x), Head(kept)), W))
  <2>1. Len(moving.kept) = W /\ Len(kept) = W + 1
    BY <1>3, <1>5, <1>6, <1>8
  <2>2. moving' = [moving EXCEPT !.kept = Tail(kept), !.value = value]
    <3>1. ~(Len(kept) <= W)
      BY <1>5, <2>1
    <3> QED
      BY <1>4, <3>1 DEF MovingStep
  <2> DEFINE gone == (c - W) + 1
  <2>3. gone \in 1 .. c /\ c - W \in 0 .. c /\ gone \in 0 .. c
    BY <1>5, <1>8
  <2>4. Head(kept) = Whole(X(gone)) /\ X(gone) \in Int
    <3>1. 1 \in 1 .. Len(moving.kept)
      BY <1>5, <2>1
    <3>2. Head(kept) = moving.kept[1]
      <4> HIDE DEF kept
      <4> QED
        BY <1>6, <2>1, <3>1
    <3> QED
      BY <1>2, <1>3, <2>1, <2>3, <3>1, <3>2
  <2>5. Total(gone) = Total(c - W) + X(gone)
    <3>1. \A i \in 1 .. c : Total(i) = Total(i - 1) + X(i)
      BY <1>1 DEF FiltersInv, HistoryOK
    <3>2. gone - 1 = c - W
      BY <1>5
    <3> QED
      BY <2>3, <3>1, <3>2
  <2> HIDE DEF gone
  <2>6. /\ value \in Pairs
        /\ Equals(value, (Total(c) - Total(c - W)) + (x - X(gone)), W)
    <3>1. Minus(Whole(x), Head(kept)) = Whole(x - X(gone)) /\ x - X(gone) \in Int
      <4>1. PICK y \in Int : y = X(gone)
        BY <2>4
      <4>2. Minus(Whole(x), Whole(y)) = Whole(x - y)
        BY <1>2, WholeArithmetic
      <4> HIDE DEF kept
      <4> QED
        BY <1>2, <2>4, <4>1, <4>2
    <3> DEFINE over == Over(Whole(x - X(gone)), W)
    <3>2. over \in Pairs /\ Equals(over, x - X(gone), 1 * W)
      BY <1>5, <3>1, WholeEquals, EqualsOver
    <3>3. 1 * W = W /\ Equals(over, x - X(gone), W)
      BY <1>5, <3>2
    <3>4. Total(c) - Total(c - W) \in Int
      <4>1. c \in 0 .. c
        OBVIOUS
      <4> QED
        BY <1>2, <2>3, <4>1
    <3> HIDE DEF over
    <3>5. value = Plus(moving.value, over)
      BY <3>1 DEF over
    <3> HIDE DEF value
    <3> QED
      BY <1>3, <1>5, <1>8, <3>1, <3>2, <3>3, <3>4, <3>5, EqualsPlus
  <2>7. (Total(c) - Total(c - W)) + (x - X(gone))
          = Tn(c + 1) - Tn((c + 1) - W)
    <3>1. (c + 1) - W = gone
      BY <1>5 DEF gone
    <3>2. Tn(gone) = Total(gone) /\ Total(gone) \in Int
      BY <1>2, <2>3
    <3>3. Total(c) \in Int /\ Total(c - W) \in Int
      <4>1. c \in 0 .. c
        OBVIOUS
      <4> QED
        BY <1>2, <2>3, <4>1
    <3>4. Tn((c + 1) - W) = Total(gone)
      BY <3>1, <3>2
    <3> QED
      BY <1>2, <2>4, <2>5, <3>2, <3>3, <3>4
  <2> HIDE DEF value
  <2>8. /\ moving'.kept = Tail(kept) /\ moving'.value = value
        /\ moving' = [kept |-> moving'.kept, ravg |-> moving'.ravg,
                      value |-> moving'.value]
    <3> HIDE DEF kept
    <3> QED
      BY <1>3, <2>2
  <2>9. /\ Tail(kept) \in Seq(Pairs) /\ Len(Tail(kept)) = W
        /\ \A i \in 1 .. W : Tail(kept)[i] = kept[i + 1]
    <3> HIDE DEF kept
    <3> QED
      BY <1>5, <1>6, <2>1
  <2>10. \A i \in 1 .. W : Tail(kept)[i] = Whole(Xn(((c + 1) - W) + i))
    <3> HIDE DEF kept
    <3> SUFFICES ASSUME NEW i \in 1 .. W
                 PROVE  Tail(kept)[i] = Whole(Xn(((c + 1) - W) + i))
      OBVIOUS
    <3>1. CASE i = W
      <4>1. ((c + 1) - W) + i = c + 1 /\ i + 1 = Len(kept)
        BY <1>5, <2>1, <3>1
      <4>2. Xn(((c + 1) - W) + i) = Xn(c + 1)
        BY <4>1
      <4> QED
        BY <1>2, <1>6, <2>9, <4>1, <4>2
    <3>2. CASE i < W
      <4> DEFINE k == ((c + 1) - W) + i
      <4>1. i + 1 \in 1 .. Len(moving.kept) /\ k \in 1 .. c /\ (c - W) + (i + 1) = k
        BY <1>5, <1>8, <2>1, <3>2
      <4>2. kept[i + 1] = Whole(X(k))
        BY <1>3, <1>6, <2>1, <4>1
      <4>3. Xn(k) = X(k)
        <5> HIDE DEF k
        <5> QED
          BY <1>2, <4>1
      <4> QED
        BY <2>9, <4>2, <4>3
    <3>3. i = W \/ i < W
      BY <1>5
    <3> QED
      BY <3>1, <3>2, <3>3
  <2> HIDE DEF kept
  <2>11. ~(c + 1 <= W) /\ ~(c + 1 < W)
    BY <1>5, <1>8
  <2>12. Equals(moving'.value, Tn(c + 1) - Tn((c + 1) - W), W)
    BY <2>6, <2>7, <2>8
  <2> QED
    BY <1>2, <2>6, <2>8, <2>9, <2>10, <2>11, <2>12 DEF MovingOK, X, Total
<1> QED
  BY <1>5, <1>7, <1>8

\* PassesStayBounded: a low pass moves between its value and the sample, and
\* both are within the range.
LEMMA PassesStep ==
  ASSUME FiltersAssumption, FiltersInv, NEW x \in Samples, NEW dt \in Steps,
         Step(x, dt)
  PROVE  PassesOK'
<1> DEFINE Xn(i) == stream'[i].x
<1>1. PICK c \in Nat : c = Count
  BY DEF FiltersInv, HistoryOK, Count
<1>2. /\ Count' = c + 1 /\ x \in Int /\ dt \in Nat
      /\ Xn(c + 1) = x
      /\ \A i \in 1 .. c : Xn(i) = X(i) /\ X(i) \in Int
  BY <1>1, HistoryStep DEF FiltersInv, X
<1>3. /\ low.first \in BOOLEAN /\ (low.first <=> c = 0)
      /\ high.lpf.first \in BOOLEAN /\ high.value \in Pairs
      /\ c = 0 => high.value = Whole(0) /\ high.lpf.first
      /\ c > 0 =>
           /\ \E i, j \in 1 .. c : Between(low.value, X(i), X(j))
           /\ ~high.lpf.first =>
                \E i, j \in 1 .. c : Between(high.lpf.value, X(i), X(j))
           /\ \E i, j \in 1 .. c : Between(high.value, X(i) - X(j), X(j) - X(i))
  BY <1>1 DEF FiltersInv, PassesOK
<1>4. low' = LowStep(low, Whole(x), dt) /\ high' = HighStep(high, Whole(x), dt)
  BY DEF Step
<1>5. \A i \in 1 .. c + 1 : Xn(i) \in Int
  <2> SUFFICES ASSUME NEW i \in 1 .. c + 1
               PROVE  Xn(i) \in Int
    OBVIOUS
  <2>1. i = c + 1 \/ i \in 1 .. c
    OBVIOUS
  <2> QED
    BY <1>2, <2>1
<1>6. ASSUME NEW f,
             ~f.first => \E i, j \in 1 .. c : Between(f.value, X(i), X(j))
      PROVE  /\ LowStep(f, Whole(x), dt).first = FALSE
             /\ \E i, j \in 1 .. c + 1 :
                  Between(LowStep(f, Whole(x), dt).value, Xn(i), Xn(j))
  <2>1. CASE f.first
    <3>1. x <= x /\ c + 1 \in 1 .. c + 1
      BY <1>2
    <3>2. /\ LowStep(f, Whole(x), dt).first = FALSE
          /\ Between(LowStep(f, Whole(x), dt).value, x, x)
      BY <1>2, <1>6, <2>1, <3>1, LowStepBetween
    <3> QED
      BY <1>2, <3>1, <3>2
  <2>2. CASE ~f.first
    <3>1. PICK i \in 1 .. c, j \in 1 .. c : Between(f.value, X(i), X(j))
      BY <1>6, <2>2
    <3> DEFINE a == IF X(i) <= x THEN i ELSE c + 1
               b == IF x <= X(j) THEN j ELSE c + 1
    <3>2. X(i) \in Int /\ X(j) \in Int /\ Xn(i) = X(i) /\ Xn(j) = X(j)
      BY <1>2
    <3>3. a \in 1 .. c + 1 /\ Xn(a) \in Int /\ Xn(a) <= x /\ Xn(a) <= X(i)
      <4>1. CASE X(i) <= x
        BY <3>2, <4>1
      <4>2. CASE ~(X(i) <= x)
        BY <1>2, <3>2, <4>2
      <4> QED
        BY <4>1, <4>2
    <3>4. b \in 1 .. c + 1 /\ Xn(b) \in Int /\ x <= Xn(b) /\ X(j) <= Xn(b)
      <4>1. CASE x <= X(j)
        BY <3>2, <4>1
      <4>2. CASE ~(x <= X(j))
        BY <1>2, <3>2, <4>2
      <4> QED
        BY <4>1, <4>2
    <3> HIDE DEF a, b, Xn
    <3>5. Between(f.value, Xn(a), Xn(b))
      BY <3>1, <3>2, <3>3, <3>4, BetweenWider
    <3>6. /\ LowStep(f, Whole(x), dt).first = FALSE
          /\ Between(LowStep(f, Whole(x), dt).value, Xn(a), Xn(b))
      BY <1>2, <1>6, <3>3, <3>4, <3>5, LowStepBetween
    <3> QED
      BY <3>3, <3>4, <3>6
  <2> QED
    BY <1>6, <2>1, <2>2
<1>7. /\ low'.first = FALSE
      /\ \E i, j \in 1 .. c + 1 : Between(low'.value, Xn(i), Xn(j))
  <2>1. ~low.first => c > 0
    BY <1>3
  <2> HIDE DEF Xn
  <2> QED
    BY <1>3, <1>4, <1>6, <2>1
<1>8. ASSUME high'.lpf.first \in BOOLEAN, high'.value \in Pairs,
             ~high'.lpf.first =>
               \E i, j \in 1 .. c + 1 : Between(high'.lpf.value, Xn(i), Xn(j)),
             \E i, j \in 1 .. c + 1 : Between(high'.value, Xn(i) - Xn(j), Xn(j) - Xn(i))
      PROVE  PassesOK'
  <2>1. low'.first \in BOOLEAN /\ ~low'.first
    BY <1>7
  <2>2. ~(Count' = 0) /\ Count' > 0
    BY <1>2
  <2>3. low'.first <=> Count' = 0
    BY <2>1, <2>2
  <2>4. /\ \E i, j \in 1 .. Count' : Between(low'.value, Xn(i), Xn(j))
        /\ ~high'.lpf.first =>
             \E i, j \in 1 .. Count' : Between(high'.lpf.value, Xn(i), Xn(j))
        /\ \E i, j \in 1 .. Count' :
             Between(high'.value, Xn(i) - Xn(j), Xn(j) - Xn(i))
    <3> HIDE DEF Xn
    <3> QED
      BY <1>2, <1>7, <1>8
  <2> QED
    BY <1>8, <2>1, <2>2, <2>3, <2>4 DEF PassesOK, X
<1>9. CASE dt = 0
  <2>1. high' = high
    BY <1>4, <1>9 DEF HighStep
  <2>2. CASE c = 0
    <3>1. high.value = Whole(0) /\ high.lpf.first /\ c + 1 \in 1 .. c + 1
      BY <1>3, <2>2
    <3>2. Between(Whole(0), x - x, x - x)
      <4>1. x - x = 0
        BY <1>2
      <4>2. Between(Whole(0), 0, 0)
        BY WholeEquals, EqualsBetween
      <4> QED
        BY <4>1, <4>2
    <3>3. Between(high'.value, Xn(c + 1) - Xn(c + 1), Xn(c + 1) - Xn(c + 1))
      BY <1>2, <2>1, <3>1, <3>2
    <3>4. \E i, j \in 1 .. c + 1 : Between(high'.value, Xn(i) - Xn(j), Xn(j) - Xn(i))
      <4> HIDE DEF Xn
      <4> QED
        BY <3>1, <3>3
    <3>5. high'.lpf.first /\ high'.lpf.first \in BOOLEAN /\ high'.value \in Pairs
      BY <1>3, <2>1, <3>1
    <3> HIDE DEF Xn
    <3> QED
      BY <1>8, <3>4, <3>5
  <2>3. CASE c # 0
    <3>1. \E i, j \in 1 .. c + 1 : Between(high'.value, Xn(i) - Xn(j), Xn(j) - Xn(i))
      <4>1. PICK i \in 1 .. c, j \in 1 .. c : Between(high.value, X(i) - X(j), X(j) - X(i))
        BY <1>3, <2>3
      <4>2. i \in 1 .. c + 1 /\ j \in 1 .. c + 1 /\ Xn(i) = X(i) /\ Xn(j) = X(j)
        BY <1>2
      <4> QED
        BY <2>1, <4>1, <4>2
    <3>2. ~high'.lpf.first =>
             \E i, j \in 1 .. c + 1 : Between(high'.lpf.value, Xn(i), Xn(j))
      <4> SUFFICES ASSUME ~high.lpf.first
                   PROVE  \E i, j \in 1 .. c + 1 : Between(high.lpf.value, Xn(i), Xn(j))
        BY <2>1
      <4>1. PICK i \in 1 .. c, j \in 1 .. c : Between(high.lpf.value, X(i), X(j))
        BY <1>3, <2>3
      <4>2. i \in 1 .. c + 1 /\ j \in 1 .. c + 1 /\ Xn(i) = X(i) /\ Xn(j) = X(j)
        BY <1>2
      <4> QED
        BY <4>1, <4>2
    <3>3. high'.lpf.first \in BOOLEAN /\ high'.value \in Pairs
      BY <1>3, <2>1
    <3> HIDE DEF Xn
    <3> QED
      BY <1>8, <3>1, <3>2, <3>3
  <2> QED
    BY <2>2, <2>3
<1>10. CASE dt # 0
  <2> DEFINE lpf == LowStep(high.lpf, Whole(x), dt)
  <2>1. high'.lpf = lpf /\ high'.value = Minus(Whole(x), lpf.value)
    BY <1>4, <1>10 DEF HighStep
  <2>2. /\ lpf.first = FALSE
        /\ \E i, j \in 1 .. c + 1 : Between(lpf.value, Xn(i), Xn(j))
    <3>1. ~high.lpf.first => c > 0
      BY <1>3
    <3>2. ~high.lpf.first =>
             \E i, j \in 1 .. c : Between(high.lpf.value, X(i), X(j))
      BY <1>3, <3>1
    <3> HIDE DEF Xn
    <3> QED
      BY <1>6, <3>2
  <2> HIDE DEF lpf
  <2>3. \E i, j \in 1 .. c + 1 : Between(high'.value, Xn(i) - Xn(j), Xn(j) - Xn(i))
    <3>1. PICK i \in 1 .. c + 1, j \in 1 .. c + 1 : Between(lpf.value, Xn(i), Xn(j))
      BY <2>2
    <3>2. Xn(i) \in Int /\ Xn(j) \in Int /\ c + 1 \in 1 .. c + 1
      BY <1>5
    <3> HIDE DEF Xn
    <3>3. Between(high'.value, x - Xn(j), x - Xn(i))
      BY <1>2, <2>1, <3>1, <3>2, MinusBetween
    <3>4. CASE Xn(j) - x <= x - Xn(i)
      <4>1. Xn(i) - x <= x - Xn(j) /\ x - Xn(i) <= x - Xn(i)
        BY <1>2, <3>2, <3>4
      <4>2. Between(high'.value, Xn(i) - x, x - Xn(i))
        BY <1>2, <3>2, <3>3, <4>1, BetweenWider
      <4> QED
        BY <1>2, <3>2, <4>2
    <3>5. CASE ~(Xn(j) - x <= x - Xn(i))
      <4>1. x - Xn(j) <= x - Xn(j) /\ x - Xn(i) <= Xn(j) - x
        BY <1>2, <3>2, <3>5
      <4>2. Between(high'.value, x - Xn(j), Xn(j) - x)
        BY <1>2, <3>2, <3>3, <4>1, BetweenWider
      <4> QED
        BY <1>2, <3>2, <4>2
    <3> QED
      BY <3>4, <3>5
  <2>4. high'.value \in Pairs
    BY <2>3 DEF Between
  <2>5. high'.lpf.first \in BOOLEAN
    BY <2>1, <2>2
  <2>6. \E i, j \in 1 .. c + 1 : Between(high'.lpf.value, Xn(i), Xn(j))
    BY <2>1, <2>2
  <2> HIDE DEF Xn
  <2> QED
    BY <1>8, <2>3, <2>4, <2>5, <2>6
<1> QED
  BY <1>9, <1>10

\* CalculusFits: what a derivative returns is a difference as soon as it has
\* seen enough, and the integral adds the differences up.
LEMMA CalculusStep ==
  ASSUME FiltersAssumption, FiltersInv, NEW x \in Samples, NEW dt \in Steps,
         Step(x, dt)
  PROVE  CalculusOK' /\ CalculusFits'
<1> DEFINE Xn(i) == stream'[i].x
<1>1. PICK c \in Nat, g \in Nat : c = Count /\ g = fresh /\ g <= c
  BY DEF FiltersInv, HistoryOK, Count
<1>2. /\ Count' = c + 1 /\ fresh' = g + 1 /\ x \in Int /\ dt \in Nat
      /\ Xn(c + 1) = x /\ stream'[c + 1].dt = dt
      /\ \A i \in 1 .. c : /\ Xn(i) = X(i) /\ X(i) \in Int
                           /\ stream'[i].dt = stream[i].dt
  <2>1. HistoryOK
    BY DEF FiltersInv
  <2>2. /\ Count' = c + 1 /\ fresh' = fresh + 1 /\ x \in Int /\ dt \in Nat
        /\ Xn(c + 1) = x /\ stream'[c + 1].dt = dt
        /\ \A i \in 1 .. c : /\ Xn(i) = X(i) /\ X(i) \in Int
                             /\ stream'[i].dt = stream[i].dt
    BY <1>1, <2>1, HistoryStep DEF X
  <2> QED
    BY <1>1, <2>2
<1>3. /\ bend.d_dx = slope
      /\ slope.n = IF g < 2 THEN g ELSE 2
      /\ bend.top.n = IF g < 3 THEN g ELSE 3
      /\ g > 0 => slope.last = Whole(X(c))
  BY <1>1 DEF FiltersInv, CalculusOK
<1>4. /\ slope' = Derivative(1, slope, Whole(x), dt)
      /\ bend' = Second(bend, Whole(x), dt)
      /\ area' = Plus(area, slope'.out)
  BY DEF Step
<1>5. bend'.d_dx = slope' /\ bend'.top = Derivative(2, bend.top, slope'.out, dt)
  BY <1>3, <1>4 DEF Second
<1>6. /\ slope.n \in 0 .. 1 + 1 /\ bend.top.n \in 0 .. 2 + 1
      /\ slope.n >= 1 <=> g > 0
      /\ bend.top.n >= 2 <=> g > 1
  BY <1>1, <1>3
<1>7. /\ slope'.n = IF g + 1 < 2 THEN g + 1 ELSE 2
      /\ slope'.last = Whole(x)
  <2>1. /\ slope'.n = IF slope.n <= 1 THEN slope.n + 1 ELSE slope.n
        /\ slope'.last = Whole(x)
    BY <1>4, <1>6, DerivativeCounts
  <2> QED
    BY <1>1, <1>3, <2>1
<1>8. /\ bend'.top.n = IF g + 1 < 3 THEN g + 1 ELSE 3
      /\ bend'.top.last = slope'.out
  <2>1. /\ bend'.top.n = IF bend.top.n <= 2 THEN bend.top.n + 1 ELSE bend.top.n
        /\ bend'.top.last = slope'.out
    BY <1>5, <1>6, DerivativeCounts
  <2> QED
    BY <1>1, <1>3, <2>1
<1>9. ASSUME Steady'
      PROVE  dt = 1 /\ Steady
  <2>1. \A i \in ((c + 1) - (g + 1)) + 1 .. c + 1 : stream'[i].dt = 1
    BY <1>2, <1>9 DEF Steady
  <2>2. c + 1 \in ((c + 1) - (g + 1)) + 1 .. c + 1
    BY <1>1
  <2>3. \A i \in (c - g) + 1 .. c :
          i \in 1 .. c /\ i \in ((c + 1) - (g + 1)) + 1 .. c + 1
    BY <1>1
  <2>4. \A i \in (c - g) + 1 .. c : stream[i].dt = 1
    BY <1>2, <2>1, <2>3
  <2> QED
    BY <1>1, <1>2, <2>1, <2>2, <2>4 DEF Steady
<1>10. ASSUME Steady'
       PROVE  /\ slope'.out = Whole(IF g > 0 THEN x - X(c) ELSE 0)
              /\ area' = Whole(x - Xn(((c + 1) - (g + 1)) + 1))
              /\ g > 1 => bend'.top.out = Whole((x - X(c)) - (X(c) - X(c - 1)))
  <2>1. dt = 1 /\ Steady
    BY <1>9, <1>10
  <2>2. /\ slope.out = Whole(IF g > 1 THEN X(c) - X(c - 1) ELSE 0)
        /\ g > 0 => bend.top.last = slope.out
        /\ area = Whole(IF g > 0 THEN X(c) - X((c - g) + 1) ELSE 0)
    BY <1>1, <2>1 DEF FiltersInv, CalculusOK
  <2>3. CASE g = 0
    <3>1. slope'.out = Whole(0)
      BY <1>2, <1>4, <1>6, <2>1, <2>3, DerivativeIsDifference
    <3>2. area' = Whole(0 + 0)
      <4>1. Plus(Whole(0), Whole(0)) = Whole(0 + 0)
        BY WholeArithmetic
      <4>2. area = Whole(0)
        BY <2>2, <2>3
      <4> QED
        BY <1>4, <3>1, <4>1, <4>2
    <3>3. ((c + 1) - (g + 1)) + 1 = c + 1 /\ 0 + 0 = 0 /\ x - x = 0
      BY <1>2, <2>3
    <3> QED
      BY <1>2, <2>3, <3>1, <3>2, <3>3
  <2>4. CASE g > 0
    <3>1. c \in 1 .. c /\ (c - g) + 1 \in 1 .. c /\ ((c + 1) - (g + 1)) + 1 = (c - g) + 1
      BY <1>1, <2>4
    <3>2. PICK p \in Int, f \in Int : p = X(c) /\ f = X((c - g) + 1)
      BY <1>2, <3>1
    <3>3. slope'.out = Whole(x - p)
      BY <1>2, <1>3, <1>4, <1>6, <2>1, <2>4, <3>2, DerivativeIsDifference
    <3>4. area' = Whole(x - f)
      <4>1. area' = Plus(Whole(p - f), Whole(x - p))
        BY <1>4, <2>2, <2>4, <3>2, <3>3
      <4>2. p - f \in Int /\ x - p \in Int /\ (p - f) + (x - p) = x - f
        BY <1>2
      <4> QED
        BY <4>1, <4>2, WholeArithmetic
    <3>5. Xn(((c + 1) - (g + 1)) + 1) = f
      BY <1>2, <3>1, <3>2
    <3>6. ASSUME g > 1
          PROVE  bend'.top.out = Whole((x - X(c)) - (X(c) - X(c - 1)))
      <4>1. c - 1 \in 1 .. c
        BY <1>1, <3>6
      <4>2. PICK o \in Int : o = X(c - 1)
        BY <1>2, <4>1
      <4>3. bend.top.last = Whole(p - o) /\ p - o \in Int /\ x - p \in Int
        BY <1>2, <2>2, <2>4, <3>2, <3>6, <4>2
      <4>4. Derivative(2, bend.top, Whole(x - p), 1).out = Whole((x - p) - (p - o))
        BY <1>6, <3>6, <4>3, DerivativeIsDifference
      <4> QED
        BY <1>5, <2>1, <3>2, <3>3, <4>2, <4>4
    <3> QED
      BY <2>4, <3>2, <3>3, <3>4, <3>5, <3>6
  <2> QED
    BY <1>1, <2>3, <2>4
<1>11. ASSUME Steady'
       PROVE  /\ slope'.out = Whole(IF g + 1 > 1 THEN Xn(c + 1) - Xn((c + 1) - 1) ELSE 0)
              /\ area' = Whole(Xn(c + 1) - Xn(((c + 1) - (g + 1)) + 1))
              /\ g + 1 > 2 =>
                   bend'.top.out = Whole((Xn(c + 1) - Xn((c + 1) - 1))
                                          - (Xn((c + 1) - 1) - Xn((c + 1) - 2)))
  <2>1. (c + 1) - 1 = c /\ (c + 1) - 2 = c - 1
    OBVIOUS
  <2>2. g > 0 => Xn(c) = X(c)
    BY <1>1, <1>2
  <2>3. g > 1 => Xn(c - 1) = X(c - 1)
    <3>1. g > 1 => c - 1 \in 1 .. c
      BY <1>1
    <3> QED
      BY <1>2, <3>1
  <2>4. (g + 1 > 1 <=> g > 0) /\ (g + 1 > 2 <=> g > 1) /\ (g > 1 => g > 0)
    BY <1>1
  <2> HIDE DEF Xn
  <2> QED
    BY <1>2, <1>10, <1>11, <2>1, <2>2, <2>3, <2>4
<1>12. CalculusOK'
  <2>1. fresh' > 0
    BY <1>1, <1>2
  <2> QED
    BY <1>2, <1>5, <1>7, <1>8, <1>11, <2>1 DEF CalculusOK, X
<1>13. CalculusFits'
  BY <1>2, <1>11 DEF CalculusFits, X
<1> QED
  BY <1>12, <1>13

\* AngleUnwraps: the accumulator goes from the last number to the next.
LEMMA AngleStep ==
  ASSUME FiltersAssumption, FiltersInv, NEW x \in Samples, NEW dt \in Steps,
         Step(x, dt)
  PROVE  /\ AngleOK'
         /\ \E turns \in -Count .. Count :
              angle'.value = Whole(turns * Bounds + (X(Count)' % Bounds))
         /\ ~angle.first =>
              AtMost(Size(Minus(angle'.value, angle.value)), Frac(Bounds, 2))
<1> DEFINE Xn(i) == stream'[i].x
           b == x % Bounds
<1>1. PICK c \in Nat : c = Count
  BY DEF FiltersInv, HistoryOK, Count
<1>2. /\ Count' = c + 1 /\ x \in Int /\ Xn(c + 1) = x
      /\ \A i \in 1 .. c : X(i) \in Int
  BY <1>1, HistoryStep DEF FiltersInv, X
<1>3. PICK r \in Nat \ {0} : r = Bounds
  BY DEF FiltersAssumption
<1>4. b \in 0 .. r - 1
  BY <1>2, <1>3
<1>5. angle' = Accumulate(angle, Whole(b))
  BY DEF Step
<1>6. /\ angle.first \in BOOLEAN /\ (angle.first <=> c = 0)
      /\ angle.diff.n = IF c < 2 THEN c ELSE 2
  BY <1>1 DEF FiltersInv, AngleOK
<1> HIDE DEF b
<1>7. /\ angle'.first = FALSE /\ angle'.diff.last = Whole(b)
      /\ angle'.diff.n = IF c + 1 < 2 THEN c + 1 ELSE 2
  <2>1. angle'.first = FALSE /\ angle'.diff = Derivative(1, angle.diff, Whole(b), 1)
    BY <1>5 DEF Accumulate
  <2>2. angle.diff.n \in 0 .. 1 + 1
    BY <1>6
  <2>3. /\ angle'.diff.n = IF angle.diff.n <= 1 THEN angle.diff.n + 1 ELSE angle.diff.n
        /\ angle'.diff.last = Whole(b)
    BY <2>1, <2>2, DerivativeCounts
  <2> QED
    BY <1>6, <2>1, <2>3
<1>8. /\ \E turns \in -c .. c : angle'.value = Whole(turns * r + b)
      /\ ~angle.first =>
           AtMost(Size(Minus(angle'.value, angle.value)), Frac(r, 2))
  <2>1. CASE c = 0
    <3>1. angle.first
      BY <1>6, <2>1
    <3>2. angle'.value = Whole(b)
      BY <1>5, <3>1 DEF Accumulate
    <3>3. 0 \in -c .. c /\ 0 * r + b = b
      BY <1>3, <1>4, <2>1
    <3> QED
      BY <3>1, <3>2, <3>3
  <2>2. CASE c > 0
    <3>1. ~angle.first /\ angle.diff.n \in 1 .. 2
      BY <1>6, <2>2
    <3>2. PICK a \in 0 .. r - 1 : a = X(c) % r
      BY <1>2, <1>3, <2>2
    <3>3. /\ angle.diff.last = Whole(a)
          /\ \E turns \in 1 - c .. c - 1 : angle.value = Whole(turns * r + a)
      BY <1>1, <1>3, <2>2, <3>2 DEF FiltersInv, AngleOK
    <3>4. PICK t \in 1 - c .. c - 1 : angle.value = Whole(t * r + a)
      BY <3>3
    <3>5. PICK v \in Int : v = t * r + a
      BY <3>4
    <3>6. PICK w \in {b - a, (b - a) - r, (b - a) + r} :
            /\ angle'.value = Whole(v + w)
            /\ 2 * w <= r /\ -(2 * w) <= r
      <4>1. angle.value = Whole(v)
        BY <3>4, <3>5
      <4>2. ~angle.first /\ angle.diff.n \in 1 .. 2 /\ angle.diff.last = Whole(a)
        BY <3>1, <3>3
      <4>3. \E w \in {b - a, (b - a) - r, (b - a) + r} :
              /\ Accumulate(angle, Whole(b)).value = Whole(v + w)
              /\ 2 * w <= r /\ -(2 * w) <= r
        BY <1>3, <1>4, <4>1, <4>2, AccumulateUnwraps
      <4> QED
        BY <1>5, <4>3
    <3>7. \E turns \in -c .. c : v + w = turns * r + b
      <4>1. CASE w = b - a
        <5>1. t \in -c .. c /\ v + w = t * r + b
          BY <1>4, <3>5, <4>1
        <5> QED
          BY <5>1
      <4>2. CASE w = (b - a) - r
        <5>1. t - 1 \in -c .. c /\ v + w = (t - 1) * r + b
          BY <1>3, <1>4, <3>5, <4>2
        <5> QED
          BY <5>1
      <4>3. CASE w = (b - a) + r
        <5>1. t + 1 \in -c .. c /\ v + w = (t + 1) * r + b
          BY <1>3, <1>4, <3>5, <4>3
        <5> QED
          BY <5>1
      <4> QED
        BY <3>6, <4>1, <4>2, <4>3
    <3>8. AtMost(Size(Minus(angle'.value, angle.value)), Frac(r, 2))
      <4>1. w \in Int /\ v + w \in Int /\ (v + w) - v = w
        BY <1>3, <1>4, <3>2, <3>5, <3>6
      <4>2. Minus(Whole(v + w), Whole(v)) = Whole(w)
        <5>1. Minus(Whole(v + w), Whole(v)) = Whole((v + w) - v)
          BY <4>1, WholeArithmetic
        <5> QED
          BY <4>1, <5>1
      <4> DEFINE s == IF w < 0 THEN -w ELSE w
      <4>3. Size(Whole(w)) = Whole(s) /\ s \in Nat /\ 2 * s <= r
        <5>1. s \in Nat /\ 2 * s <= r
          BY <3>6, <4>1
        <5>2. Size(Whole(w)) = Whole(s)
          BY <4>1, WholeArithmetic
        <5> QED
          BY <5>1, <5>2
      <4>4. PICK p \in Int, q \in Nat \ {0} : Frac(r, 2) = <<p, q>> /\ p * 2 = r * q
        <5>1. Frac(r, 2) \in Pairs /\ Equals(Frac(r, 2), r, 2)
          BY <1>3, FracEquals
        <5> QED
          BY <5>1 DEF Pairs, Equals
      <4> HIDE DEF s
      <4>5. s * q <= p
        <5>1. (2 * s) * q <= r * q
          <6>1. 2 * s \in Int /\ r \in Int /\ q \in Nat
            BY <4>3
          <6> QED
            BY <4>3, <6>1, Monotonic
        <5>2. (2 * s) * q = 2 * (s * q) /\ s * q \in Int
          BY <4>3
        <5> QED
          BY <4>4, <5>1, <5>2
      <4>6. AtMost(Whole(s), Frac(r, 2))
        BY <4>3, <4>4, <4>5 DEF AtMost, Whole
      <4> QED
        BY <3>4, <3>5, <3>6, <4>2, <4>3, <4>6
    <3> QED
      BY <3>6, <3>7, <3>8
  <2> QED
    BY <2>1, <2>2
<1>9. Xn(c + 1) % Bounds = b
  BY <1>2 DEF b
<1>10. AngleOK'
  <2>1. angle'.first \in BOOLEAN /\ (angle'.first <=> Count' = 0)
    <3>1. angle'.first \in BOOLEAN /\ ~angle'.first
      BY <1>7
    <3>2. ~(Count' = 0)
      BY <1>2
    <3> QED
      BY <3>1, <3>2
  <2>2. 1 - Count' = -c /\ Count' - 1 = c /\ Count' > 0
    BY <1>2
  <2> QED
    BY <1>2, <1>3, <1>7, <1>8, <1>9, <2>1, <2>2 DEF AngleOK, X
<1> QED
  BY <1>1, <1>2, <1>3, <1>8, <1>9, <1>10 DEF X

\* A reset leaves the stream and the other filters alone.
LEMMA ResetStep ==
  ASSUME FiltersAssumption, FiltersInv, Reset
  PROVE  FiltersInv'
<1>1. /\ fresh' = 0 /\ slope' = NoSlope /\ bend' = NoBend /\ area' = Whole(0)
      /\ UNCHANGED <<stream, average, moving, variance, low, high, angle>>
  BY DEF Reset
<1>2. Count' = Count /\ Count \in Nat
  BY <1>1 DEF Count, FiltersInv, HistoryOK
<1>3. HistoryOK'
  BY <1>1, <1>2 DEF FiltersInv, HistoryOK, Total, X
<1>4. MeanOf(average, Count, Total(Count))'
      /\ SpreadOf(variance, Count, Total(Count), Squares(Count))'
  BY <1>1, <1>2 DEF FiltersInv, MeanOf, SpreadOf, Total, Squares
<1>5. MovingOK'
  BY <1>1, <1>2 DEF FiltersInv, MovingOK, Total, X
<1>6. PassesOK'
  BY <1>1, <1>2 DEF FiltersInv, PassesOK, X
<1>7. AngleOK'
  BY <1>1, <1>2 DEF FiltersInv, AngleOK, X
<1>8. CalculusOK' /\ CalculusFits'
  BY <1>1 DEF CalculusOK, CalculusFits, NoSlope, NoBend
<1> QED
  BY <1>3, <1>4, <1>5, <1>6, <1>7, <1>8 DEF FiltersInv

\* Each step keeps the invariant: of the samples, filter by filter.
LEMMA FiltersNext ==
  FiltersAssumption /\ FiltersInv /\ [Next]_vars => FiltersInv'
<1> SUFFICES ASSUME FiltersAssumption, FiltersInv, [Next]_vars
             PROVE  FiltersInv'
  OBVIOUS
<1>1. ASSUME NEW x \in Samples, NEW dt \in Steps, Step(x, dt)
      PROVE  FiltersInv'
  <2>1. HistoryOK'
    <3>1. PICK c \in Nat : c = Count
      BY DEF FiltersInv, HistoryOK, Count
    <3> QED
      BY <1>1, <3>1, HistoryStep DEF FiltersInv
  <2>2. /\ MeanOf(average, Count, Total(Count))'
        /\ SpreadOf(variance, Count, Total(Count), Squares(Count))'
    BY <1>1, MeansStep
  <2>3. MovingOK'
    BY <1>1, MovingStepCorrect
  <2>4. PassesOK'
    BY <1>1, PassesStep
  <2>5. CalculusOK' /\ CalculusFits'
    BY <1>1, CalculusStep
  <2>6. AngleOK'
    BY <1>1, AngleStep
  <2> QED
    BY <2>1, <2>2, <2>3, <2>4, <2>5, <2>6 DEF FiltersInv
<1>2. CASE Reset
  BY <1>2, ResetStep
<1>3. CASE UNCHANGED vars
  <2>1. /\ UNCHANGED <<stream, fresh, average, moving, variance, low, high>>
        /\ UNCHANGED <<slope, bend, area, angle>>
    BY <1>3 DEF vars
  <2>2. HistoryOK' /\ MovingOK' /\ PassesOK' /\ AngleOK'
    BY <2>1 DEF FiltersInv, HistoryOK, MovingOK, PassesOK, AngleOK, Count, Total, X
  <2>3. CalculusOK' /\ CalculusFits'
    BY <2>1 DEF FiltersInv, CalculusOK, CalculusFits, Steady, Count, X
  <2>4. /\ MeanOf(average, Count, Total(Count))'
        /\ SpreadOf(variance, Count, Total(Count), Squares(Count))'
    BY <2>1 DEF FiltersInv, MeanOf, SpreadOf, Total, Squares, Count
  <2> QED
    BY <2>2, <2>3, <2>4 DEF FiltersInv
<1> QED
  BY <1>1, <1>2, <1>3 DEF Next, End

\* What the history holds is integers.
LEMMA HistoryTypes ==
  ASSUME HistoryOK
  PROVE  /\ Count \in Nat
         /\ \A i \in 1 .. Count : X(i) \in Int
         /\ \A i \in 0 .. Count : Total(i) \in Int
<1> DEFINE Sample == [x : Int, dt : Nat, sum : Int, squares : Int]
<1>1. stream \in Seq(Sample)
  BY DEF HistoryOK
<1>2. Count \in Nat /\ \A i \in 1 .. Count : stream[i] \in Sample
  <2> HIDE DEF Sample
  <2> QED
    BY <1>1 DEF Count
<1> QED
  BY <1>2 DEF X, Total

\* The inductive invariant: every filter's state as a function of the samples.
THEOREM FiltersCorrect == Spec => []FiltersInv
<1>1. FiltersAssumption
  BY FiltersAssumption
<1> QED
  BY <1>1, FiltersInit, FiltersNext, PTL DEF Spec
-----------------------------------------------------------------------------
\* AveragesAreMeans: running_average and moving_average, for every window and
\* every stream.
THEOREM AveragesCorrect == Spec => []AveragesAreMeans
<1>1. FiltersInv => AveragesAreMeans
  <2> SUFFICES ASSUME FiltersInv, Count > 0
               PROVE  /\ Equals(average.value, Total(Count), Count)
                      /\ LET k == IF Count < Window THEN Count ELSE Window
                         IN  Equals(moving.value, Total(Count) - Total(Count - k), k)
    BY DEF AveragesAreMeans
  <2>1. Count \in Nat /\ Window \in Nat
    BY FiltersAssumption DEF FiltersInv, HistoryOK, Count, FiltersAssumption
  <2>2. average.value \in Pairs /\ Equals(average.value, Total(Count), Count)
    BY DEF FiltersInv, MeanOf
  <2>3. CASE Count < Window
    <3>1. moving.value = average.value
      BY <2>1, <2>3 DEF FiltersInv, MovingOK
    <3>2. Total(Count) - Total(Count - Count) = Total(Count)
      <4>1. Count - Count = 0 /\ Total(0) = 0
        BY <2>1 DEF Total
      <4>2. Total(Count) \in Int
        BY <2>1, HistoryTypes DEF FiltersInv
      <4> QED
        BY <4>1, <4>2
    <3> QED
      BY <2>2, <2>3, <3>1, <3>2
  <2>4. CASE ~(Count < Window)
    BY <2>1, <2>2, <2>4 DEF FiltersInv, MovingOK
  <2> QED
    BY <2>3, <2>4
<1> QED
  BY <1>1, FiltersCorrect, PTL

\* VarianceIsUnbiased: running_variance, which never sees the squares.
THEOREM VarianceCorrect == Spec => []VarianceIsUnbiased
<1>1. FiltersInv => VarianceIsUnbiased
  BY DEF FiltersInv, SpreadOf, VarianceIsUnbiased
<1> QED
  BY <1>1, FiltersCorrect, PTL

\* PassesStayBounded: low_pass and high_pass, for every time constant.
THEOREM PassesAreBounded == Spec => []PassesStayBounded
<1>1. FiltersInv => PassesStayBounded
  <2> SUFFICES ASSUME FiltersInv, Count > 0
               PROVE  /\ \E i, j \in 1 .. Count : /\ AtMost(Whole(X(i)), low.value)
                                                  /\ AtMost(low.value, Whole(X(j)))
                      /\ \E i, j \in 1 .. Count :
                           AtMost(Size(high.value), Whole(X(j) - X(i)))
    BY DEF PassesStayBounded
  <2>1. \E i, j \in 1 .. Count : /\ AtMost(Whole(X(i)), low.value)
                                 /\ AtMost(low.value, Whole(X(j)))
    BY DEF FiltersInv, PassesOK, Between
  <2>2. PICK i \in 1 .. Count, j \in 1 .. Count :
          Between(high.value, X(i) - X(j), X(j) - X(i))
    BY DEF FiltersInv, PassesOK
  <2>3. X(i) \in Int /\ X(j) \in Int
    BY HistoryTypes DEF FiltersInv
  <2>4. PICK w \in Int : w = X(j) - X(i) /\ X(i) - X(j) = -w
    BY <2>3
  <2>5. AtMost(Size(high.value), Whole(w))
    BY <2>2, <2>4, BetweenSize
  <2> QED
    BY <2>1, <2>4, <2>5
<1> QED
  BY <1>1, FiltersCorrect, PTL

\* CalculusFits: derivative<1>, derivative<2> and integral<1> between resets.
THEOREM CalculusCorrect == Spec => []CalculusFits
<1>1. FiltersInv => CalculusFits
  BY DEF FiltersInv
<1> QED
  BY <1>1, FiltersCorrect, PTL

\* AngleUnwraps: range_accumulator, for every range.
THEOREM AngleCorrect == Spec => AngleUnwraps
<1> DEFINE Unwraps ==
      angle' # angle =>
        /\ \E turns \in -Count .. Count :
             angle'.value = Whole(turns * Bounds + (X(Count)' % Bounds))
        /\ ~angle.first =>
             AtMost(Size(Minus(angle'.value, angle.value)), Frac(Bounds, 2))
<1>1. FiltersInv /\ [Next]_vars => [Unwraps]_vars
  <2> SUFFICES ASSUME FiltersInv, Next, angle' # angle
               PROVE  Unwraps
    OBVIOUS
  <2>1. PICK x \in Samples, dt \in Steps : Step(x, dt)
    BY DEF Next, Reset, End, vars
  <2> QED
    BY <2>1, FiltersAssumption, AngleStep
<1> QED
  BY <1>1, FiltersCorrect, PTL DEF Spec, AngleUnwraps
=============================================================================
