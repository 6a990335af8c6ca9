------------------------------- MODULE Filters -------------------------------
(***************************************************************************)
(* The filters of src/filters.cpp and include/filters.hpp, fed with one    *)
(* stream of samples: the averages, the variance, the low and high pass,   *)
(* the derivatives of order 1 and 2, the integral (here of the derivative) *)
(* and the range accumulator.  Each takes a step per sample.               *)
(*                                                                         *)
(* A double is an exact fraction, or NaN: rounding is not modelled.        *)
(***************************************************************************)
EXTENDS Integers, SequencesExt

CONSTANTS Samples,   \* the values of the stream; for the range accumulator,
                     \* which takes numbers below Bounds, they are modulo that
          Steps,     \* the times between samples, dt and dx in the code
          Window,    \* num_samples of the moving average
          RC,        \* rc of the low and high pass
          Bounds,    \* range of the range accumulator
          MaxSteps   \* bound on the length of the stream

ASSUME FiltersAssumption ==
  /\ Samples \subseteq Int /\ Steps \subseteq Nat
  /\ Window \in Nat \ {0} /\ Bounds \in Nat \ {0}
  /\ RC \in Nat /\ MaxSteps \in Nat

VARIABLES stream,    \* history: the samples, each with the time before it and
                     \* the sums of all values and of all squares to here
          fresh,     \* history: how many samples came since the last reset
          average, moving, variance, low, high,
          slope,     \* derivative<1>
          bend,      \* derivative<2>, with a derivative<1> of its own: d_dx
          area,      \* integral<1>::value
          angle      \* range_accumulator, with its derivative<1>: diff

vars == <<stream, fresh, average, moving, variance, low, high, slope, bend,
          area, angle>>
-----------------------------------------------------------------------------
\* Fractions in lowest terms with a natural denominator, which is all the code
\* divides by; division by 0 gives NaN and NaN stays.
NaN == <<0, 0>>
Gcd(n, d) == Max({k \in 1 .. d : n % k = 0 /\ d % k = 0})
Frac(n, d) ==
  IF d = 0 THEN NaN ELSE <<n \div Gcd(n, d), d \div Gcd(n, d)>>
Whole(n) == <<n, 1>>
Plus(a, b) == Frac(a[1] * b[2] + b[1] * a[2], a[2] * b[2])
Times(a, b) == Frac(a[1] * b[1], a[2] * b[2])
Minus(a, b) == Plus(a, Times(Whole(-1), b))
Over(a, n) == Times(a, Frac(1, n))
Below(a, b) == a[2] > 0 /\ b[2] > 0 /\ a[1] * b[2] < b[1] * a[2]

\* running_average::step
AverageStep(f, s) ==
  LET n == f.n + 1 IN
    [n |-> n, value |-> IF f.n = 0 THEN s
                        ELSE Plus(Times(f.value, Frac(n - 1, n)), Over(s, n))]

\* Fault variant: the window has one sample too many while it fills.
MovingStepLate(f, s) ==
  LET kept == Append(f.kept, s)
      ravg == AverageStep(f.ravg, s)
  IN  IF Len(kept) <= Window + 1
        THEN [kept |-> kept, ravg |-> ravg, value |-> ravg.value]
        ELSE [f EXCEPT !.kept = Tail(kept),
                       !.value = Plus(@, Over(Minus(s, Head(kept)), Window))]

\* moving_average::step: an average until the window is full, then the
\* difference of the sample that comes and the one that goes.
MovingStep(f, s) ==
  LET kept == Append(f.kept, s)
      ravg == AverageStep(f.ravg, s)
  IN  IF Len(kept) <= Window
        THEN [kept |-> kept, ravg |-> ravg, value |-> ravg.value]
        ELSE [f EXCEPT !.kept = Tail(kept),
                       !.value = Plus(@, Over(Minus(s, Head(kept)), Window))]

\* Fault variant: both factors use the new mean.
VarianceStepNewMean(f, s) ==
  LET mean == AverageStep(f.mean, s)
      sum  == Plus(f.sum, Times(Minus(s, mean.value), Minus(s, mean.value)))
  IN  [mean |-> mean, sum |-> sum,
       value |-> IF mean.n = 1 THEN f.value ELSE Over(sum, mean.n - 1)]

\* running_variance::step: one factor uses the mean before the sample.
VarianceStep(f, s) ==
  LET mean == AverageStep(f.mean, s)
      sum  == Plus(f.sum, Times(Minus(s, mean.value), Minus(s, f.mean.value)))
  IN  [mean |-> mean, sum |-> sum,
       value |-> IF mean.n = 1 THEN f.value ELSE Over(sum, mean.n - 1)]

\* Fault variant: the first sample is mixed with the initial 0.
LowStepMixes(f, s, dt) ==
  [first |-> FALSE,
   value |-> IF dt = 0 THEN f.value
             ELSE Plus(Times(Frac(RC, RC + dt), f.value),
                       Times(Frac(dt, RC + dt), s))]

\* low_pass::step
LowStep(f, s, dt) ==
  LET old == IF f.first THEN s ELSE f.value
      a   == Frac(dt, RC + dt)
  IN  [first |-> FALSE,
       value |-> IF dt = 0 THEN old
                 ELSE Plus(Times(a, s), Times(Minus(Whole(1), a), old))]

\* high_pass::step
HighStep(f, s, dt) ==
  IF dt = 0 THEN f
  ELSE LET lpf == LowStep(f.lpf, s, dt)
       IN  [lpf |-> lpf, value |-> Minus(s, lpf.value)]

\* derivative<N>::step of the slope s of one order less; `out` is what it
\* returns, 0 instead of the value without enough samples or time.
Derivative(N, f, s, dx) ==
  LET n     == IF f.n <= N THEN f.n + 1 ELSE f.n
      value == IF n <= N \/ dx = 0 THEN f.value ELSE Over(Minus(s, f.last), dx)
  IN  [n |-> n, last |-> s, value |-> value,
       out |-> IF n <= N \/ dx = 0 THEN Whole(0) ELSE value]

NoSlope == [n |-> 0, last |-> NaN, value |-> Whole(0), out |-> Whole(0)]

Second(f, s, dx) ==
  LET d_dx == Derivative(1, f.d_dx, s, dx)
  IN  [d_dx |-> d_dx, top |-> Derivative(2, f.top, d_dx.out, dx)]

NoBend == [d_dx |-> NoSlope, top |-> NoSlope]

Size(q) == IF q[1] < 0 THEN Times(Whole(-1), q) ELSE q

\* Fault variant: the difference is never taken the other way round.
AccumulateForwards(f, b) ==
  LET diff == Derivative(1, f.diff, b, 1)
      d    == diff.out
      way  == IF d[1] < 0 THEN Plus(d, Whole(Bounds)) ELSE d
  IN  [first |-> FALSE, diff |-> diff,
       value |-> IF f.first THEN b ELSE Plus(f.value, way)]

\* range_accumulator::step: the shorter way from the last number to this.
Accumulate(f, b) ==
  LET diff == Derivative(1, f.diff, b, 1)
      d    == diff.out
      conj == Plus(d, Whole(IF d[1] > 0 THEN -Bounds ELSE Bounds))
      way  == IF Below(Size(d), Size(conj)) THEN d ELSE conj
  IN  [first |-> FALSE, diff |-> diff,
       value |-> IF f.first THEN b ELSE Plus(f.value, way)]
-----------------------------------------------------------------------------
Init ==
  /\ stream = <<>> /\ fresh = 0
  /\ average = [n |-> 0, value |-> Whole(0)]
  /\ moving = [kept |-> <<>>, ravg |-> average, value |-> Whole(0)]
  /\ variance = [mean |-> average, sum |-> Whole(0), value |-> Whole(0)]
  /\ low = [first |-> TRUE, value |-> Whole(0)]
  /\ high = [lpf |-> low, value |-> Whole(0)]
  /\ slope = NoSlope /\ bend = NoBend /\ area = Whole(0)
  /\ angle = [first |-> TRUE, diff |-> NoSlope, value |-> Whole(0)]

X(i) == stream[i].x
Total(i) == IF i = 0 THEN 0 ELSE stream[i].sum
Squares(i) == IF i = 0 THEN 0 ELSE stream[i].squares

\* A sample x, dt after the one before it, goes to every filter.
Step(x, dt) ==
  /\ Len(stream) < MaxSteps
  /\ stream' = Append(stream, [x |-> x, dt |-> dt, sum |-> Total(Len(stream)) + x,
                               squares |-> Squares(Len(stream)) + x * x])
  /\ fresh' = fresh + 1
  /\ average' = AverageStep(average, Whole(x))
  /\ moving' = MovingStep(moving, Whole(x))
  /\ variance' = VarianceStep(variance, Whole(x))
  /\ low' = LowStep(low, Whole(x), dt)
  /\ high' = HighStep(high, Whole(x), dt)
  /\ slope' = Derivative(1, slope, Whole(x), dt)
  /\ bend' = Second(bend, Whole(x), dt)
  /\ area' = Plus(area, slope'.out)
  /\ angle' = Accumulate(angle, Whole(x % Bounds))

\* Fault variant: the derivative keeps its last sample and its count.
ResetValueOnly ==
  /\ fresh' = 0
  /\ slope' = [slope EXCEPT !.value = Whole(0), !.out = Whole(0)]
  /\ bend' = NoBend /\ area' = Whole(0)
  /\ UNCHANGED <<stream, average, moving, variance, low, high, angle>>

\* derivative::reset and integral::reset; the other filters have none.
Reset ==
  /\ fresh' = 0
  /\ slope' = NoSlope /\ bend' = NoBend /\ area' = Whole(0)
  /\ UNCHANGED <<stream, average, moving, variance, low, high, angle>>

\* The stream of the model may end.
End == Len(stream) = MaxSteps /\ UNCHANGED vars

Next == (\E x \in Samples, dt \in Steps : Step(x, dt)) \/ Reset \/ End

Spec == Init /\ [][Next]_vars
-----------------------------------------------------------------------------
Count == Len(stream)

\* q is the fraction p over d; a is a number no larger than the number b.
Equals(q, p, d) == q[2] > 0 /\ q[1] * d = p * q[2]
AtMost(a, b) == a[2] > 0 /\ b[2] > 0 /\ a[1] * b[2] <= b[1] * a[2]

\* The averages that are kept up step by step are those of all samples and
\* of the last Window samples, before and after the window is full.
AveragesAreMeans ==
  Count > 0 =>
    /\ Equals(average.value, Total(Count), Count)
    /\ LET k == IF Count < Window THEN Count ELSE Window
       IN  Equals(moving.value, Total(Count) - Total(Count - k), k)

\* The variance, kept up from running means, is the unbiased one of all
\* samples, n (the mean of the squares less the square of the mean) / (n - 1).
VarianceIsUnbiased ==
  Count > 1 =>
    Equals(variance.value, Count * Squares(Count) - Total(Count) * Total(Count),
           Count * (Count - 1))

\* The low pass never leaves the range of what it saw, from the first sample
\* on, and the high pass never exceeds the width of that range.
PassesStayBounded ==
  Count > 0 =>
    /\ \E i, j \in 1 .. Count :
         AtMost(Whole(X(i)), low.value) /\ AtMost(low.value, Whole(X(j)))
    /\ \E i, j \in 1 .. Count : AtMost(Size(high.value), Whole(X(j) - X(i)))

\* With a steady clock the second derivative is the second difference and the
\* integral of the first leads back to the samples, all of it since the last
\* reset: neither an older sample nor the NaN of a new filter gets in.
Steady == \A i \in Count - fresh + 1 .. Count : stream[i].dt = 1
CalculusFits ==
  Steady /\ fresh > 0 =>
    /\ area = Whole(X(Count) - X(Count - fresh + 1))
    /\ fresh > 2 => bend.top.out = Whole((X(Count) - X(Count - 1))
                                           - (X(Count - 1) - X(Count - 2)))

\* The accumulated angle agrees with the bounded one modulo the range, and a
\* step changes it by half the range at most: no turn is missed or made up.
AngleUnwraps ==
  [][angle' # angle =>
       /\ \E turns \in -Count .. Count :
            angle'.value = Whole(turns * Bounds + (X(Count)' % Bounds))
       /\ ~angle.first =>
            AtMost(Size(Minus(angle'.value, angle.value)), Frac(Bounds, 2))]_vars
=============================================================================
