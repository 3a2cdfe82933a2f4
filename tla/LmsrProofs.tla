----------------------------- MODULE LmsrProofs -----------------------------
(***************************************************************************)
(* The fixed-point LMSR for every scale, every b and every quantity: what  *)
(* truncation, the two series and the log-sum-exp form leave of the        *)
(* properties of the real-valued functions.                                *)
(***************************************************************************)
EXTENDS MCLmsr, SumProofs

(***************************************************************************)
(* Division that truncates: the quotient of a natural number is the        *)
(* largest whose product with the divisor does not exceed it.              *)
(***************************************************************************)
LEMMA TruncNat ==
    ASSUME NEW a \in Nat, NEW d \in Nat \ {0}
    PROVE  /\ TruncDiv(a, d) \in Nat
           /\ d * TruncDiv(a, d) <= a
           /\ a < d * TruncDiv(a, d) + d
BY DEF TruncDiv

LEMMA TruncNegated ==
    ASSUME NEW a \in Nat, NEW d \in Nat \ {0}
    PROVE  TruncDiv(-a, d) = -TruncDiv(a, d)
<1>1. CASE a = 0
  BY <1>1 DEF TruncDiv
<1>2. CASE a # 0
  BY <1>2 DEF TruncDiv
<1>3. QED
  BY <1>1, <1>2

LEMMA TruncInt ==
    ASSUME NEW a \in Int, NEW d \in Nat \ {0}
    PROVE  TruncDiv(a, d) \in Int
BY DEF TruncDiv

\* Nothing between two multiples of the divisor is lost: any q whose product
\* is at most a is at most the quotient.
LEMMA TruncGreatest ==
    ASSUME NEW a \in Nat, NEW d \in Nat \ {0}, NEW q \in Int, d * q <= a
    PROVE  q <= TruncDiv(a, d)
<1> DEFINE t == TruncDiv(a, d)
<1>1. t \in Nat /\ a < d * t + d
  BY TruncNat
<1> HIDE DEF t
<1>2. ASSUME q > t PROVE FALSE
  <2>1. q >= t + 1
    BY <1>1, <1>2
  <2>2. d * q >= d * (t + 1)
    BY <1>1, <2>1
  <2>3. d * (t + 1) = d * t + d
    BY <1>1
  <2>4. QED
    BY <1>1, <2>2, <2>3
<1>3. QED
  BY <1>1, <1>2 DEF t

LEMMA TruncMonotone ==
    ASSUME NEW a \in Nat, NEW c \in Nat, a <= c, NEW d \in Nat \ {0}
    PROVE  TruncDiv(a, d) <= TruncDiv(c, d)
<1>1. TruncDiv(a, d) \in Nat /\ d * TruncDiv(a, d) <= a
  BY TruncNat
<1>2. d * TruncDiv(a, d) <= c /\ TruncDiv(a, d) \in Int
  BY <1>1
<1>3. QED
  BY <1>2, TruncGreatest

\* A larger divisor gives a smaller quotient.
LEMMA TruncDivisor ==
    ASSUME NEW a \in Nat, NEW d \in Nat \ {0}, NEW e \in Nat \ {0}, d <= e
    PROVE  TruncDiv(a, e) <= TruncDiv(a, d)
<1> DEFINE t == TruncDiv(a, e)
<1>1. t \in Nat /\ e * t <= a
  BY TruncNat
<1> HIDE DEF t
<1>2. d * t <= e * t
  BY <1>1
<1>3. d * t <= a
  BY <1>1, <1>2
<1>4. QED
  BY <1>1, <1>3, TruncGreatest DEF t

\* What is multiplied by at most the divisor and divided again is no larger.
LEMMA TruncShrinks ==
    ASSUME NEW p \in Nat, NEW y \in Nat, NEW d \in Nat \ {0}, y <= d
    PROVE  TruncDiv(p * y, d) \in 0 .. p
<1> DEFINE a == p * y
           t == TruncDiv(a, d)
<1>1. a \in Nat /\ a <= p * d
  OBVIOUS
<1> HIDE DEF a
<1>2. t \in Nat /\ d * t <= a
  BY <1>1, TruncNat
<1> HIDE DEF t
<1>3. d * t <= d * p
  BY <1>1, <1>2
<1>4. t <= p
  BY <1>2, <1>3
<1>5. t \in 0 .. p
  BY <1>2, <1>4
<1>6. QED
  BY <1>5 DEF t, a
-----------------------------------------------------------------------------
(***************************************************************************)
(* exp_scaled. Taylor holds the values the loop goes through.              *)
(***************************************************************************)
TaylorStates == [term : Int, sum : Int]

IsTaylor(g, x, n) ==
    g = [i \in 0 .. n |->
           IF i = 0
           THEN [term |-> SCALE_FACTOR, sum |-> SCALE_FACTOR]
           ELSE [term |-> TruncDiv(g[i-1].term * x, i * SCALE_FACTOR),
                 sum  |-> g[i-1].sum + TruncDiv(g[i-1].term * x, i * SCALE_FACTOR)]]

LEMMA TaylorExists ==
    ASSUME NEW x \in Int, NEW n \in Nat
    PROVE  \E g : IsTaylor(g, x, n)
<1> DEFINE step(i, s) == [term |-> TruncDiv(s.term * x, i * SCALE_FACTOR),
                          sum  |-> s.sum + TruncDiv(s.term * x, i * SCALE_FACTOR)]
           D == TaylorStates
           F == [i \in 1 .. n |-> [s \in D |-> step(i, s)]]
           start == [term |-> SCALE_FACTOR, sum |-> SCALE_FACTOR]
<1>1. start \in D
  BY ScaleAssumption DEF TaylorStates
<1>2. ASSUME NEW i \in 1 .. n, NEW s \in D PROVE step(i, s) \in D
  <2>1. s.term \in Int /\ s.sum \in Int
    BY DEF TaylorStates
  <2>2. s.term * x \in Int /\ i * SCALE_FACTOR \in Nat \ {0}
    <3>1. \A j, k \in Nat \ {0} : j * k \in Nat \ {0}
      OBVIOUS
    <3>2. i \in Nat \ {0} /\ SCALE_FACTOR \in Nat \ {0}
      BY ScaleAssumption
    <3>3. QED
      BY <2>1, <3>1, <3>2
  <2>3. TruncDiv(s.term * x, i * SCALE_FACTOR) \in Int
    BY <2>2, TruncInt
  <2>4. QED
    BY <2>1, <2>3 DEF TaylorStates
<1> HIDE DEF step, start
<1>3. F \in [1 .. n -> [D -> D]]
  BY <1>2
<1>4. \A i \in 1 .. n : \A s \in D : F[i][s] = step(i, s)
  OBVIOUS
<1> HIDE DEF D, F
<1>5. PICK g : Recurs(g, n, D, start, F)
  BY <1>1, <1>3, RecursionExists, Zenon
<1>6. \A i \in 0 .. n : g[i] = IF i = 0 THEN start ELSE step(i, g[i - 1])
  <2>1. \A i \in 0 .. n : i # 0 => i \in 1 .. n /\ i - 1 \in 0 .. n
    OBVIOUS
  <2>2. \A i \in 0 .. n : i # 0 => g[i - 1] \in D
    BY <1>5, <2>1 DEF Recurs
  <2>3. QED
    BY <1>4, <1>5, <2>1, <2>2 DEF Recurs
<1>7. g = [i \in 0 .. n |-> IF i = 0 THEN start ELSE step(i, g[i - 1])]
  BY <1>5, <1>6 DEF Recurs
<1>8. IsTaylor(g, x, n)
  BY <1>7 DEF IsTaylor, step, start
<1>9. QED
  BY <1>8

(***************************************************************************)
(* The loop: it starts with term and sum at 1.0, multiplies the term by    *)
(* x / n and adds it.                                                      *)
(***************************************************************************)
IsLoop(g, x, n) ==
    /\ g[0].term = SCALE_FACTOR /\ g[0].sum = SCALE_FACTOR
    /\ \A i \in Nat : i < n =>
         /\ g[i+1].term = TruncDiv(g[i].term * x, (i + 1) * SCALE_FACTOR)
         /\ g[i+1].sum = g[i].sum + g[i+1].term
    /\ \A i \in 0 .. n : g[i].term \in Int /\ g[i].sum \in Int

LEMMA TaylorLoop ==
    ASSUME NEW x \in Int, NEW n \in Nat
    PROVE  \E g : TaylorExp(x, n) = g[n].sum /\ IsLoop(g, x, n)
<1> DEFINE g == CHOOSE h : IsTaylor(h, x, n)
<1>1. TaylorExp(x, n) = g[n].sum
  BY DEF TaylorExp, IsTaylor
<1>2. IsTaylor(g, x, n)
  BY TaylorExists
<1> HIDE DEF g
<1>3. \A i \in 0 .. n : g[i] =
         IF i = 0
         THEN [term |-> SCALE_FACTOR, sum |-> SCALE_FACTOR]
         ELSE [term |-> TruncDiv(g[i-1].term * x, i * SCALE_FACTOR),
               sum  |-> g[i-1].sum + TruncDiv(g[i-1].term * x, i * SCALE_FACTOR)]
  BY <1>2 DEF IsTaylor
<1>4. g[0].term = SCALE_FACTOR /\ g[0].sum = SCALE_FACTOR
  <2>1. 0 \in 0 .. n
    OBVIOUS
  <2>2. g[0] = [term |-> SCALE_FACTOR, sum |-> SCALE_FACTOR]
    BY <1>3, <2>1
  <2>3. QED
    BY <2>2
<1>5. ASSUME NEW i \in Nat, i < n
      PROVE  /\ g[i+1].term = TruncDiv(g[i].term * x, (i + 1) * SCALE_FACTOR)
             /\ g[i+1].sum = g[i].sum + g[i+1].term
  <2>1. i + 1 \in 0 .. n /\ i + 1 # 0 /\ (i + 1) - 1 = i
    BY <1>5
  <2>2. g[i+1] = [term |-> TruncDiv(g[i].term * x, (i + 1) * SCALE_FACTOR),
                  sum  |-> g[i].sum + TruncDiv(g[i].term * x, (i + 1) * SCALE_FACTOR)]
    BY <1>3, <2>1
  <2>3. QED
    BY <2>2
<1> DEFINE Good == {i \in Nat : g[i].term \in Int /\ g[i].sum \in Int}
<1>6. 0 \in Good
  BY <1>4, ScaleAssumption
<1>7. ASSUME NEW i \in Nat, i < n, i \in Good PROVE i + 1 \in Good
  <2>1. g[i].term * x \in Int
    BY <1>7
  <2>2. (i + 1) * SCALE_FACTOR \in Nat \ {0}
    BY ScaleAssumption
  <2>3. TruncDiv(g[i].term * x, (i + 1) * SCALE_FACTOR) \in Int
    BY <2>1, <2>2, TruncInt
  <2>4. QED
    BY <1>5, <1>7, <2>3
<1> HIDE DEF Good
<1>8. \A i \in 0 .. n : i \in Good
  BY <1>6, <1>7, IntervalInduction
<1>9. IsLoop(g, x, n)
  BY <1>4, <1>5, <1>8 DEF IsLoop, Good
<1>10. QED
  BY <1>1, <1>9

\* For x >= 0 no term is negative, and a larger x has larger terms.
LEMMA LoopMonotone ==
    ASSUME NEW x \in Nat, NEW y \in Nat, x <= y, NEW n \in Nat,
           NEW g, NEW h, IsLoop(g, x, n), IsLoop(h, y, n)
    PROVE  SCALE_FACTOR <= g[n].sum /\ g[n].sum <= h[n].sum
<1> DEFINE Good == {i \in Nat : /\ 0 <= g[i].term /\ g[i].term <= h[i].term
                                /\ SCALE_FACTOR <= g[i].sum /\ g[i].sum <= h[i].sum}
<1>1. 0 \in Good
  BY ScaleAssumption DEF IsLoop
<1>2. ASSUME NEW i \in Nat, i < n, i \in Good PROVE i + 1 \in Good
  <2> DEFINE p == g[i].term
             q == h[i].term
             d == (i + 1) * SCALE_FACTOR
  <2>1. i \in 0 .. n /\ i + 1 \in 0 .. n
    BY <1>2
  <2>2. /\ p \in Nat /\ q \in Nat /\ p <= q
        /\ g[i].sum \in Int /\ h[i].sum \in Int
        /\ SCALE_FACTOR <= g[i].sum /\ g[i].sum <= h[i].sum
    BY <1>2, <2>1 DEF IsLoop
  <2>3. /\ g[i+1].term = TruncDiv(p * x, d) /\ g[i+1].sum = g[i].sum + g[i+1].term
        /\ h[i+1].term = TruncDiv(q * y, d) /\ h[i+1].sum = h[i].sum + h[i+1].term
    BY <1>2 DEF IsLoop
  <2>4. d \in Nat \ {0}
    BY ScaleAssumption
  <2> HIDE DEF p, q, d
  <2>5. p * x \in Nat /\ q * y \in Nat /\ p * x <= q * y
    <3>1. p * x <= q * x /\ q * x <= q * y
      BY <2>2
    <3>2. QED
      BY <2>2, <3>1
  <2>6. /\ TruncDiv(p * x, d) \in Nat /\ TruncDiv(q * y, d) \in Nat
        /\ TruncDiv(p * x, d) <= TruncDiv(q * y, d)
    BY <2>4, <2>5, TruncNat, TruncMonotone
  <2>7. QED
    BY <2>2, <2>3, <2>6, ScaleAssumption
<1> HIDE DEF Good
<1>3. \A i \in 0 .. n : i \in Good
  BY <1>1, <1>2, IntervalInduction
<1>4. n \in Good
  BY <1>3
<1>5. QED
  BY <1>4 DEF Good

\* exp_scaled of a quantity over b: at least 1.0, and larger for a larger one.
LEMMA ExpMonotone ==
    ASSUME NEW x \in Nat, NEW y \in Nat, x <= y
    PROVE  /\ exp_scaled(x) \in Nat /\ exp_scaled(y) \in Nat
           /\ SCALE_FACTOR <= exp_scaled(x) /\ exp_scaled(x) <= exp_scaled(y)
<1> DEFINE n == EXP_ITERATIONS
<1>1. n \in Nat
  BY DEF EXP_ITERATIONS
<1> HIDE DEF n
<1>2. PICK g : TaylorExp(x, n) = g[n].sum /\ IsLoop(g, x, n)
  BY <1>1, TaylorLoop
<1>3. PICK h : TaylorExp(y, n) = h[n].sum /\ IsLoop(h, y, n)
  BY <1>1, TaylorLoop
<1>4. SCALE_FACTOR <= g[n].sum /\ g[n].sum <= h[n].sum
  BY <1>1, <1>2, <1>3, LoopMonotone
<1>5. g[n].sum \in Int /\ h[n].sum \in Int
  BY <1>1, <1>2, <1>3 DEF IsLoop
<1>6. exp_scaled(x) = max(TaylorExp(x, n), 0) /\ exp_scaled(y) = max(TaylorExp(y, n), 0)
  BY ScaleAssumption DEF exp_scaled, n
<1>7. QED
  BY <1>2, <1>3, <1>4, <1>5, <1>6, ScaleAssumption DEF max

(***************************************************************************)
(* For -1.0 <= x <= 0 the terms alternate and none exceeds the one before, *)
(* so the sums do not leave the interval between two successive ones.      *)
(* Between holds them in low .. SCALE_FACTOR from some term on.            *)
(***************************************************************************)
Between(s, low) ==
    \/ s.term >= 0 /\ low <= s.sum - s.term /\ s.sum <= SCALE_FACTOR
    \/ s.term <= 0 /\ low <= s.sum /\ s.sum - s.term <= SCALE_FACTOR

LEMMA BetweenStep ==
    ASSUME NEW x \in -SCALE_FACTOR .. 0, NEW n \in Nat, NEW g, IsLoop(g, x, n),
           NEW i \in Nat, i < n, NEW low \in Int, Between(g[i], low)
    PROVE  Between(g[i + 1], low)
<1> DEFINE t == g[i].term
           u == g[i+1].term
           d == (i + 1) * SCALE_FACTOR
           y == -x
<1>1. i \in 0 .. n /\ i + 1 \in 0 .. n /\ SCALE_FACTOR \in Nat \ {0}
  BY ScaleAssumption
<1>2. /\ t \in Int /\ u \in Int /\ g[i].sum \in Int /\ g[i+1].sum = g[i].sum + u
      /\ u = TruncDiv(t * x, d)
  BY <1>1 DEF IsLoop
<1>3. d \in Nat \ {0} /\ y \in Nat /\ y <= d
  <2>1. y \in Nat /\ y <= SCALE_FACTOR
    BY <1>1
  <2>2. d \in Nat \ {0} /\ SCALE_FACTOR <= d
    BY <1>1
  <2>3. QED
    BY <1>1, <2>1, <2>2
<1>4. t * x = -(t * y) /\ (-t) * y = t * x
  BY <1>2
<1> HIDE DEF d, t, u, y
<1>5. ASSUME t >= 0 PROVE u <= 0 /\ -u <= t
  <2>1. t \in Nat /\ t * y \in Nat
    BY <1>2, <1>3, <1>5
  <2>2. TruncDiv(t * y, d) \in 0 .. t
    BY <1>3, <2>1, TruncShrinks
  <2>3. u = -TruncDiv(t * y, d)
    BY <1>2, <1>3, <1>4, <2>1, TruncNegated
  <2>4. QED
    BY <1>2, <2>1, <2>2, <2>3
<1>6. ASSUME t <= 0 PROVE u >= 0 /\ u <= -t
  <2>1. -t \in Nat
    BY <1>2, <1>6
  <2>2. TruncDiv((-t) * y, d) \in 0 .. -t
    BY <1>3, <2>1, TruncShrinks
  <2>3. QED
    BY <1>2, <1>4, <2>1, <2>2
<1>7. QED
  BY <1>1, <1>2, <1>5, <1>6 DEF Between, t, u

LEMMA BetweenStays ==
    ASSUME NEW x \in -SCALE_FACTOR .. 0, NEW n \in Nat, NEW g, IsLoop(g, x, n),
           NEW i \in 0 .. n, NEW low \in Int, Between(g[i], low)
    PROVE  g[n].sum \in low .. SCALE_FACTOR
<1> DEFINE Good == {k \in Nat : Between(g[i + k], low)}
           m == n - i
<1>1. 0 \in Good /\ m \in Nat
  OBVIOUS
<1>2. ASSUME NEW k \in Nat, k < m, k \in Good PROVE k + 1 \in Good
  <2>1. i + k \in Nat /\ i + k < n /\ (i + k) + 1 = i + (k + 1)
    BY <1>2
  <2>2. Between(g[(i + k) + 1], low)
    BY <1>2, <2>1, BetweenStep
  <2>3. QED
    BY <2>1, <2>2
<1> HIDE DEF Good
<1>3. \A k \in 0 .. m : k \in Good
  <2> HIDE DEF m
  <2>1. QED
    BY <1>1, <1>2, IntervalInduction
<1>4. Between(g[n], low)
  <2>1. m \in Good /\ i + m = n
    BY <1>1, <1>3
  <2>2. QED
    BY <2>1 DEF Good
<1>5. g[n].term \in Int /\ g[n].sum \in Int
  BY DEF IsLoop
<1>6. QED
  BY <1>4, <1>5, ScaleAssumption DEF Between

\* The exponential of the difference of two quantities is at least one unit
\* and at most 1.0 as long as the difference is at most b.
LEMMA ExpOfSmallDiff ==
    ASSUME NEW x \in -SCALE_FACTOR .. 0, SCALE_FACTOR >= 2
    PROVE  exp_scaled(x) \in 1 .. SCALE_FACTOR
<1> DEFINE n == EXP_ITERATIONS
           S == SCALE_FACTOR
           y == -x
<1>1. n \in Nat /\ n >= 3 /\ 3 \in 0 .. n
  BY DEF EXP_ITERATIONS
<1> HIDE DEF n
<1>2. PICK g : TaylorExp(x, n) = g[n].sum /\ IsLoop(g, x, n)
  BY <1>1, TaylorLoop
<1>3. S \in Nat \ {0} /\ y \in 0 .. S /\ y \in Nat /\ 1 * S = S
      /\ 2 * S \in Nat \ {0} /\ 3 * S \in Nat \ {0}
  BY ScaleAssumption
<1>4. /\ g[0].term = S /\ g[0].sum = S
      /\ g[1].term = TruncDiv(S * x, S) /\ g[1].sum = S + g[1].term
      /\ g[2].term = TruncDiv(g[1].term * x, 2 * S) /\ g[2].sum = g[1].sum + g[2].term
      /\ g[3].term = TruncDiv(g[2].term * x, 3 * S) /\ g[3].sum = g[2].sum + g[3].term
  <2>1. \A i \in Nat : i < n =>
          /\ g[i+1].term = TruncDiv(g[i].term * x, (i + 1) * S)
          /\ g[i+1].sum = g[i].sum + g[i+1].term
    BY <1>2 DEF IsLoop
  <2>2. g[0].term = S /\ g[0].sum = S
    BY <1>2 DEF IsLoop
  <2>3. 0 < n /\ 1 < n /\ 2 < n /\ 0 + 1 = 1 /\ 1 + 1 = 2 /\ 2 + 1 = 3
    BY <1>1
  <2>4. g[1].term = TruncDiv(S * x, 1 * S) /\ g[1].sum = S + g[1].term
    BY <2>1, <2>2, <2>3
  <2>5. g[2].term = TruncDiv(g[1].term * x, 2 * S) /\ g[2].sum = g[1].sum + g[2].term
    BY <2>1, <2>3
  <2>6. g[3].term = TruncDiv(g[2].term * x, 3 * S) /\ g[3].sum = g[2].sum + g[3].term
    BY <2>1, <2>3
  <2>7. QED
    BY <1>3, <2>2, <2>4, <2>5, <2>6
<1> DEFINE t == TruncDiv(y * y, 2 * S)
           u == TruncDiv(t * y, 3 * S)
<1>5. g[1].term = -y
  <2>1. S * x = -(S * y) /\ S * y \in Nat
    BY <1>3
  <2>2. TruncDiv(S * y, S) = y
    <3>1. TruncDiv(S * y, S) \in 0 .. y
      <4>1. S * y = y * S /\ S <= S
        BY <1>3
      <4>2. QED
        BY <1>3, <4>1, TruncShrinks
    <3>2. y <= TruncDiv(S * y, S)
      BY <1>3, <2>1, TruncGreatest
    <3>3. QED
      BY <1>3, <3>1, <3>2
  <2>3. TruncDiv(S * x, S) = -y
    BY <1>3, <2>1, <2>2, TruncNegated
  <2>4. QED
    BY <1>4, <2>3
<1>6. g[2].term = t /\ t \in 0 .. y
  <2>1. (-y) * x = y * y
    OBVIOUS
  <2>2. y <= 2 * S
    BY <1>3
  <2>3. TruncDiv(y * y, 2 * S) \in 0 .. y
    BY <1>3, <2>2, TruncShrinks
  <2>4. QED
    BY <1>4, <1>5, <2>1, <2>3
<1>7. y = S => t >= 1
  <2>1. ASSUME y = S PROVE 1 <= t
    <3>1. (2 * S) * 1 <= y * y
      BY <1>3, <2>1
    <3>2. y * y \in Nat
      BY <1>3
    <3>3. QED
      BY <1>3, <3>1, <3>2, TruncGreatest
  <2>2. t \in Int
    BY <1>6
  <2>3. QED
    BY <2>1, <2>2
<1> HIDE DEF t
<1>8. g[3].term = -u /\ u \in Nat /\ 3 * u <= t
  <2>1. t * x = -(t * y) /\ t * y \in Nat
    BY <1>3, <1>6
  <2>2. g[3].term = -u
    BY <1>3, <1>4, <1>6, <2>1, TruncNegated
  <2>3. u \in Nat /\ (3 * S) * u <= t * y
    BY <1>3, <2>1, TruncNat
  <2> HIDE DEF u
  <2>4. t * y <= t * S
    BY <1>3, <1>6
  <2>5. S * (3 * u) <= S * t
    BY <1>3, <1>6, <2>3, <2>4
  <2>6. 3 * u <= t
    BY <1>3, <1>6, <2>3, <2>5
  <2>7. QED
    BY <2>2, <2>3, <2>6
<1> HIDE DEF u
<1>9. Between(g[3], 1)
  <2>1. g[3].sum = S - y + t - u
    BY <1>3, <1>4, <1>5, <1>6, <1>8
  <2>2. 1 <= S - y + t - u /\ S - y + t <= S
    <3>1. y \in Nat /\ S \in Nat /\ t \in Nat /\ u \in Nat /\ y <= S /\ t <= y
      BY <1>3, <1>6, <1>8
    <3> HIDE DEF y, S
    <3>2. t - u >= 0 /\ (t >= 1 => t - u >= 1)
      BY <1>8, <3>1
    <3>3. CASE y = S
      BY <1>7, <3>1, <3>2, <3>3
    <3>4. CASE y # S
      BY <3>1, <3>2, <3>4
    <3>5. QED
      BY <3>3, <3>4
  <2>3. QED
    BY <1>3, <1>6, <1>8, <2>1, <2>2 DEF Between
<1>10. g[n].sum \in 1 .. S
  BY <1>1, <1>2, <1>9, BetweenStays
<1>11. exp_scaled(x) = max(TaylorExp(x, n), 0)
  BY ScaleAssumption DEF exp_scaled, n
<1>12. QED
  BY <1>2, <1>3, <1>10, <1>11 DEF max

\* e^0 is exactly 1.0.
LEMMA ExpOfZero == exp_scaled(0) = SCALE_FACTOR
<1> DEFINE n == EXP_ITERATIONS
<1>1. n \in Nat
  BY DEF EXP_ITERATIONS
<1> HIDE DEF n
<1>2. PICK g : TaylorExp(0, n) = g[n].sum /\ IsLoop(g, 0, n)
  BY <1>1, TaylorLoop
<1>3. SCALE_FACTOR <= g[n].sum
  BY <1>1, <1>2, LoopMonotone
<1>4. 0 \in -SCALE_FACTOR .. 0 /\ 0 \in 0 .. n /\ Between(g[0], 0)
  BY <1>1, <1>2, ScaleAssumption DEF IsLoop, Between
<1>5. g[n].sum \in 0 .. SCALE_FACTOR
  BY <1>1, <1>2, <1>4, BetweenStays
<1>6. exp_scaled(0) = max(TaylorExp(0, n), 0)
  BY ScaleAssumption DEF exp_scaled, n
<1>7. QED
  BY <1>2, <1>3, <1>5, <1>6, ScaleAssumption DEF max
-----------------------------------------------------------------------------
(***************************************************************************)
(* Shares of a whole, the form of both kinds of prices.                    *)
(***************************************************************************)
LEMMA OverBFacts ==
    ASSUME NEW q \in Nat, NEW p \in Nat, q <= p, NEW liq \in Nat \ {0}
    PROVE  /\ OverB(q, liq) \in Nat /\ OverB(p, liq) \in Nat
           /\ OverB(q, liq) <= OverB(p, liq)
<1>1. /\ q * SCALE_FACTOR \in Nat /\ p * SCALE_FACTOR \in Nat
      /\ q * SCALE_FACTOR <= p * SCALE_FACTOR
  BY ScaleAssumption
<1>2. QED
  BY <1>1, TruncNat, TruncMonotone DEF OverB

\* The two shares of a whole add up to it, or to one unit less.
LEMMA SharesSum ==
    ASSUME NEW y \in Nat, NEW n \in Nat, y + n # 0
    PROVE  /\ share(y, n) \in Nat /\ share(n, y) \in Nat
           /\ share(y, n) + share(n, y) \in {SCALE_FACTOR - 1, SCALE_FACTOR}
<1> DEFINE S == SCALE_FACTOR
           t == y + n
           p == share(y, n)
           q == share(n, y)
<1>1. S \in Nat \ {0} /\ t \in Nat \ {0} /\ y * S \in Nat /\ n * S \in Nat
      /\ n + y = t
  BY ScaleAssumption
<1>2. y * S + n * S = t * S
  BY <1>1
<1>3. p = TruncDiv(y * S, t) /\ q = TruncDiv(n * S, t)
  BY <1>1 DEF share
<1>4. /\ p \in Nat /\ t * p <= y * S /\ y * S < t * p + t
      /\ q \in Nat /\ t * q <= n * S /\ n * S < t * q + t
  <2> HIDE DEF t, p, q
  <2>1. QED
    BY <1>1, <1>3, TruncNat
<1> HIDE DEF S, t, p, q
<1>5. t * (p + q) = t * p + t * q /\ t * (p + q) \in Int
  BY <1>1, <1>4
<1>6. t * (p + q) <= t * S /\ t * S < t * (p + q) + 2 * t
  <2>1. y * S \in Int /\ n * S \in Int /\ t * p \in Int /\ t * q \in Int /\ t * S \in Int
    BY <1>1, <1>4
  <2>2. QED
    BY <1>1, <1>2, <1>4, <1>5, <2>1
<1>7. t * (p + q) + 2 * t = t * (p + q + 2)
  BY <1>1, <1>4
<1>8. p + q <= S /\ S < p + q + 2
  <2>1. \A i, j \in Nat, k \in Nat \ {0} : k * i <= k * j => i <= j
    OBVIOUS
  <2>2. \A i, j \in Nat, k \in Nat \ {0} : k * i < k * j => i < j
    OBVIOUS
  <2>3. p + q \in Nat /\ p + q + 2 \in Nat /\ S \in Nat
    BY <1>1, <1>4
  <2>4. p + q <= S
    BY <1>1, <1>6, <2>1, <2>3
  <2>5. S < p + q + 2
    BY <1>1, <1>6, <1>7, <2>2, <2>3
  <2>6. QED
    BY <2>4, <2>5
<1>9. p + q \in {S - 1, S}
  BY <1>1, <1>4, <1>8
<1>10. QED
  BY <1>4, <1>9 DEF p, q, S

(***************************************************************************)
(* A share does not fall when its part grows at least in the proportion of *)
(* the other.                                                              *)
(***************************************************************************)
LEMMA ShareMonotone ==
    ASSUME NEW y \in Nat, NEW n \in Nat, y + n # 0,
           NEW v \in Nat, NEW w \in Nat, v + w # 0,
           y * w <= v * n
    PROVE  share(y, n) <= share(v, w)
<1> DEFINE S == SCALE_FACTOR
           t == y + n
           z == v + w
           p == TruncDiv(y * S, t)
<1>1. /\ S \in Nat \ {0} /\ t \in Nat \ {0} /\ z \in Nat \ {0}
      /\ y * S \in Nat /\ v * S \in Nat
  BY ScaleAssumption
<1>2. p \in Nat /\ t * p <= y * S
  BY <1>1, TruncNat
<1>3. y * z <= v * t
  BY <1>1
<1> HIDE DEF S, t, z, p
<1>4. z * (t * p) <= z * (y * S)
  <2>1. t * p \in Nat
    BY <1>1, <1>2
  <2>2. \A i, j, k \in Nat : i <= j => k * i <= k * j
    OBVIOUS
  <2>3. QED
    BY <1>1, <1>2, <2>1, <2>2
<1>5. (y * z) * S <= (v * t) * S
  <2>1. y * z \in Nat /\ v * t \in Nat
    BY <1>1
  <2>2. \A i, j, k \in Nat : i <= j => i * k <= j * k
    OBVIOUS
  <2>3. QED
    BY <1>1, <1>3, <2>1, <2>2
<1>6. /\ z * (t * p) = t * (z * p)
      /\ z * (y * S) = (y * z) * S
      /\ (v * t) * S = t * (v * S)
  BY <1>1, <1>2
<1>7. t * (z * p) <= t * (v * S)
  <2>1. z * (t * p) \in Nat /\ (y * z) * S \in Nat /\ (v * t) * S \in Nat
    BY <1>1, <1>2
  <2>2. QED
    BY <1>4, <1>5, <1>6, <2>1
<1>8. z * p <= v * S
  <2>1. \A i, j \in Nat, k \in Nat \ {0} : k * i <= k * j => i <= j
    OBVIOUS
  <2>2. z * p \in Nat /\ v * S \in Nat
    BY <1>1, <1>2
  <2>3. QED
    BY <1>1, <1>7, <2>1, <2>2
<1>9. p <= TruncDiv(v * S, z)
  BY <1>1, <1>2, <1>8, TruncGreatest
<1>10. QED
  BY <1>9 DEF share, p, t, z, S

\* The prices of the contract are the shares of the two exponentials.
LEMMA PriceIsShare ==
    ASSUME NEW q \in Nat, NEW m \in Nat, NEW liq \in Nat \ {0}
    PROVE  LET y == exp_scaled(OverB(q, liq))
               n == exp_scaled(OverB(m, liq))
           IN  /\ y \in Nat /\ n \in Nat /\ y + n # 0
               /\ calculate_price(q, m, 0, liq) = share(y, n)
               /\ calculate_price(q, m, 1, liq) = share(n, y)
<1> DEFINE y == exp_scaled(OverB(q, liq))
           n == exp_scaled(OverB(m, liq))
<1>1. OverB(q, liq) \in Nat /\ OverB(m, liq) \in Nat
  BY OverBFacts
<1>2. y \in Nat /\ n \in Nat /\ SCALE_FACTOR <= y /\ SCALE_FACTOR <= n
  BY <1>1, ExpMonotone
<1>3. /\ calculate_price(q, m, 0, liq) = TruncDiv(y * SCALE_FACTOR, y + n)
      /\ calculate_price(q, m, 1, liq) = TruncDiv(n * SCALE_FACTOR, y + n)
  BY DEF calculate_price
<1> HIDE DEF y, n
<1>4. y + n # 0 /\ y + n = n + y
  BY <1>2, ScaleAssumption
<1>5. QED
  BY <1>2, <1>3, <1>4 DEF share, y, n

(***************************************************************************)
(* A purchase of one outcome moves the parts of calculatePrices in the     *)
(* proportion ShareMonotone asks for, although the floor of 1% of the      *)
(* total rises for both outcomes.                                          *)
(***************************************************************************)
LEMMA PartsMonotone ==
    ASSUME NEW q \in Nat, NEW m \in Nat, NEW s \in Nat
    PROVE  part_of(q, q + m) * part_of(m, (q + s) + m)
             <= part_of(q + s, (q + s) + m) * part_of(m, q + m)
<1> DEFINE t == q + m
           z == (q + s) + m
           y == part_of(q, t)
           n == part_of(m, t)
           v == part_of(q + s, z)
           w == part_of(m, z)
<1>1. /\ t \in Nat /\ z \in Nat /\ t <= z /\ q <= t /\ z = t + s
      /\ y \in Nat /\ n \in Nat /\ v \in Nat /\ w \in Nat
      /\ y <= v /\ t <= n /\ z <= v /\ 100 * (q + s) <= v
      /\ y \in {100 * q, t}
      /\ w = z \/ (w = 100 * m /\ w = n)
  BY DEF part_of, max
<1> HIDE DEF t, z, y, n, v, w
<1>2. \A i, j, k, l \in Nat : i <= k /\ j <= l => i * j <= k * l
  <2>1. ASSUME NEW i \in Nat, NEW j \in Nat, NEW k \in Nat, NEW l \in Nat, i <= k, j <= l
        PROVE  i * j <= k * l
    <3>1. i * j <= i * l /\ i * l <= k * l
      BY <2>1
    <3>2. i * j \in Int /\ i * l \in Int /\ k * l \in Int
      OBVIOUS
    <3>3. QED
      BY <3>1, <3>2
  <2>2. QED
    BY <2>1
<1>3. ASSUME w = n PROVE y * w <= v * n
  BY <1>1, <1>2, <1>3
<1>4. ASSUME w = z /\ y = t PROVE y * w <= v * n
  <2>1. t * z <= n * v
    BY <1>1, <1>2
  <2>2. n * v = v * n
    BY <1>1
  <2>3. QED
    BY <1>4, <2>1, <2>2
<1>5. ASSUME w = z /\ y = 100 * q PROVE y * w <= v * n
  <2>1. q * z = q * t + q * s /\ (q + s) * t = q * t + s * t
    BY <1>1
  <2>2. q * s <= s * t
    BY <1>1
  <2>3. q * z <= (q + s) * t
    <3>1. q * t \in Int /\ q * s \in Int /\ s * t \in Int
      BY <1>1
    <3>2. QED
      BY <2>1, <2>2, <3>1
  <2>4. (100 * (q + s)) * t <= v * n
    BY <1>1, <1>2
  <2>5. (100 * q) * z = 100 * (q * z) /\ (100 * (q + s)) * t = 100 * ((q + s) * t)
    BY <1>1
  <2>6. q * z \in Int /\ (q + s) * t \in Int /\ v * n \in Int
    BY <1>1
  <2>7. QED
    BY <1>5, <2>3, <2>4, <2>5, <2>6
<1>6. y * w <= v * n
  BY <1>1, <1>3, <1>4, <1>5
<1>7. QED
  BY <1>6 DEF y, w, v, n, t, z

\* The shown prices of a traded market are shares of the two parts.
LEMMA ShownPrices ==
    ASSUME NEW q \in Nat, NEW m \in Nat
    PROVE  LET y == part_of(q, q + m)
               n == part_of(m, q + m)
           IN  /\ y \in Nat /\ n \in Nat
               /\ q + m # 0 => /\ y + n # 0
                               /\ calculatePrices(q, m)[1] = share(y, n)
                               /\ calculatePrices(q, m)[2] = share(n, y)
               /\ q + m = 0 => /\ calculatePrices(q, m)[1] = share(1, 1)
                               /\ calculatePrices(q, m)[2] = share(1, 1)
               /\ calculatePrices(q, m)[1] \in Nat /\ calculatePrices(q, m)[2] \in Nat
<1> DEFINE y == part_of(q, q + m)
           n == part_of(m, q + m)
<1>1. y \in Nat /\ n \in Nat /\ (q + m # 0 => y + n # 0)
  BY DEF part_of, max
<1>2. /\ q + m # 0 => /\ calculatePrices(q, m)[1] = share(y, n)
                      /\ calculatePrices(q, m)[2] = share(n, y)
      /\ q + m = 0 => /\ calculatePrices(q, m)[1] = share(1, 1)
                      /\ calculatePrices(q, m)[2] = share(1, 1)
  BY DEF calculatePrices
<1> HIDE DEF y, n
<1>3. share(1, 1) \in Nat
  BY SharesSum
<1>4. q + m # 0 => share(y, n) \in Nat /\ share(n, y) \in Nat
  BY <1>1, SharesSum
<1>5. calculatePrices(q, m)[1] \in Nat /\ calculatePrices(q, m)[2] \in Nat
  BY <1>2, <1>3, <1>4
<1>6. QED
  BY <1>1, <1>2, <1>5 DEF y, n
-----------------------------------------------------------------------------
\* The quantities of the walk, within the bound of MaxSkew.
WInv ==
    /\ b \in LiquidityParams /\ b \in Nat \ {0}
    /\ q_yes \in 0 .. MaxSkew * b
    /\ q_no \in 0 .. MaxSkew * b

LEMMA WalkInductive == Spec => []WInv
<1>1. Init => WInv
  <2> SUFFICES ASSUME Init PROVE WInv
    OBVIOUS
  <2>1. b \in LiquidityParams /\ b \in Nat \ {0} /\ q_yes = 0 /\ q_no = 0
    BY WalkAssumption DEF Init
  <2>2. MaxSkew * b \in Nat
    BY <2>1, WalkAssumption
  <2>3. QED
    BY <2>1, <2>2 DEF WInv
<1>2. WInv /\ [Next]_vars => WInv'
  <2> SUFFICES ASSUME WInv, [Next]_vars PROVE WInv'
    OBVIOUS
  <2>1. MaxSkew * b \in Nat /\ Step \in Nat
    BY WalkAssumption DEF WInv
  <2>2. CASE BuyYes
    BY <2>1, <2>2 DEF WInv, BuyYes
  <2>3. CASE BuyNo
    BY <2>1, <2>3 DEF WInv, BuyNo
  <2>4. CASE UNCHANGED vars
    BY <2>4 DEF WInv, vars
  <2>5. QED
    BY <2>2, <2>3, <2>4 DEF Next
<1>3. QED
  BY <1>1, <1>2, PTL DEF Spec

(***************************************************************************)
(* calculate_price: whatever the series return, the two prices are shares  *)
(* of the same whole, so they are not negative and sum to one up to the    *)
(* unit that truncation drops, for every scale, every b and every pair of  *)
(* quantities.                                                             *)
(***************************************************************************)
THEOREM PricesAreProbabilities == Spec => []PricesSumToOne
<1>1. WInv => PricesSumToOne
  <2> SUFFICES ASSUME WInv PROVE PricesSumToOne
    OBVIOUS
  <2> DEFINE y == exp_scaled(OverB(q_yes, b))
             n == exp_scaled(OverB(q_no, b))
  <2>1. q_yes \in Nat /\ q_no \in Nat /\ b \in Nat \ {0}
    BY WalkAssumption DEF WInv
  <2>2. /\ y \in Nat /\ n \in Nat /\ y + n # 0
        /\ calculate_price(q_yes, q_no, 0, b) = share(y, n)
        /\ calculate_price(q_yes, q_no, 1, b) = share(n, y)
    BY <2>1, PriceIsShare
  <2> HIDE DEF y, n
  <2>3. /\ share(y, n) \in Nat /\ share(n, y) \in Nat
        /\ share(y, n) + share(n, y) \in {SCALE_FACTOR - 1, SCALE_FACTOR}
    BY <2>2, SharesSum
  <2>4. QED
    BY <2>2, <2>3 DEF PricesSumToOne
<1>2. QED
  BY <1>1, WalkInductive, PTL

\* The contract's prices order the outcomes as their quantities do, and a
\* purchase of the first outcome does not lower its price.
LEMMA PriceLeads ==
    ASSUME NEW q \in Nat, NEW m \in Nat, m <= q, NEW liq \in Nat \ {0}
    PROVE  /\ calculate_price(q, m, 1, liq) <= calculate_price(q, m, 0, liq)
           /\ calculate_price(m, q, 0, liq) <= calculate_price(m, q, 1, liq)
<1> DEFINE y == exp_scaled(OverB(q, liq))
           n == exp_scaled(OverB(m, liq))
<1>1. /\ y \in Nat /\ n \in Nat /\ y + n # 0 /\ n + y # 0
      /\ calculate_price(q, m, 0, liq) = share(y, n)
      /\ calculate_price(q, m, 1, liq) = share(n, y)
      /\ calculate_price(m, q, 0, liq) = share(n, y)
      /\ calculate_price(m, q, 1, liq) = share(y, n)
  BY PriceIsShare
<1>2. n <= y
  BY OverBFacts, ExpMonotone
<1> HIDE DEF y, n
<1>3. n * n <= y * y
  BY <1>1, <1>2
<1>4. share(n, y) <= share(y, n)
  BY <1>1, <1>3, ShareMonotone
<1>5. QED
  BY <1>1, <1>4

LEMMA PriceRises ==
    ASSUME NEW q \in Nat, NEW p \in Nat, q <= p, NEW m \in Nat, NEW liq \in Nat \ {0}
    PROVE  /\ calculate_price(q, m, 0, liq) <= calculate_price(p, m, 0, liq)
           /\ calculate_price(m, p, 0, liq) <= calculate_price(m, q, 0, liq)
<1> DEFINE y == exp_scaled(OverB(q, liq))
           v == exp_scaled(OverB(p, liq))
           n == exp_scaled(OverB(m, liq))
<1>1. /\ y \in Nat /\ n \in Nat /\ v \in Nat
      /\ y + n # 0 /\ n + y # 0 /\ v + n # 0 /\ n + v # 0
      /\ calculate_price(q, m, 0, liq) = share(y, n)
      /\ calculate_price(p, m, 0, liq) = share(v, n)
      /\ calculate_price(m, q, 0, liq) = share(n, y)
      /\ calculate_price(m, p, 0, liq) = share(n, v)
  BY PriceIsShare
<1>2. y <= v
  BY OverBFacts, ExpMonotone
<1> HIDE DEF y, n, v
<1>3. y * n <= v * n /\ n * y <= n * v
  BY <1>1, <1>2
<1>4. share(y, n) <= share(v, n)
  BY <1>1, <1>3, ShareMonotone
<1>5. share(n, v) <= share(n, y)
  BY <1>1, <1>3, ShareMonotone
<1>6. QED
  BY <1>1, <1>4, <1>5

\* The same two facts of the prices shown on the list of markets.
LEMMA ShownLeads ==
    ASSUME NEW q \in Nat, NEW m \in Nat, m <= q
    PROVE  /\ calculatePrices(q, m)[2] <= calculatePrices(q, m)[1]
           /\ calculatePrices(m, q)[1] <= calculatePrices(m, q)[2]
<1> DEFINE t == q + m
           y == part_of(q, t)
           n == part_of(m, t)
<1>1. t = m + q /\ t \in Nat /\ n <= y
  BY DEF part_of, max
<1>2. /\ y \in Nat /\ n \in Nat
      /\ t # 0 => /\ y + n # 0
                  /\ calculatePrices(q, m)[1] = share(y, n)
                  /\ calculatePrices(q, m)[2] = share(n, y)
      /\ t = 0 => /\ calculatePrices(q, m)[1] = share(1, 1)
                  /\ calculatePrices(q, m)[2] = share(1, 1)
  BY ShownPrices
<1>3. /\ t # 0 => /\ calculatePrices(m, q)[1] = share(n, y)
                  /\ calculatePrices(m, q)[2] = share(y, n)
      /\ t = 0 => /\ calculatePrices(m, q)[1] = share(1, 1)
                  /\ calculatePrices(m, q)[2] = share(1, 1)
  <2> DEFINE u == m + q
  <2>1. /\ u # 0 => /\ calculatePrices(m, q)[1] = share(part_of(m, u), part_of(q, u))
                    /\ calculatePrices(m, q)[2] = share(part_of(q, u), part_of(m, u))
        /\ u = 0 => /\ calculatePrices(m, q)[1] = share(1, 1)
                    /\ calculatePrices(m, q)[2] = share(1, 1)
    BY ShownPrices
  <2>2. u = t
    BY <1>1
  <2> HIDE DEF u
  <2>3. part_of(m, u) = n /\ part_of(q, u) = y
    BY <2>2
  <2>4. QED
    BY <2>1, <2>2, <2>3
<1> HIDE DEF y, n, t
<1>4. share(1, 1) <= share(1, 1)
  <2>1. share(1, 1) \in Nat
    BY SharesSum
  <2>2. QED
    BY <2>1
<1>5. t # 0 => share(n, y) <= share(y, n)
  <2>1. n * n <= y * y /\ (y + n # 0 => n + y # 0)
    BY <1>1, <1>2
  <2>2. QED
    BY <1>2, <2>1, ShareMonotone
<1>6. QED
  BY <1>2, <1>3, <1>4, <1>5

LEMMA ShownRises ==
    ASSUME NEW q \in Nat, NEW m \in Nat, NEW s \in Nat
    PROVE  /\ calculatePrices(q, m)[1] <= calculatePrices(q + s, m)[1]
           /\ calculatePrices(m, q + s)[1] <= calculatePrices(m, q)[1]
<1> DEFINE t == q + m
           z == (q + s) + m
           y == part_of(q, t)
           n == part_of(m, t)
           v == part_of(q + s, z)
           w == part_of(m, z)
<1>1. t = m + q /\ z = m + (q + s) /\ t \in Nat /\ z \in Nat /\ t <= z /\ q + s \in Nat
  OBVIOUS
<1>2. /\ y \in Nat /\ n \in Nat
      /\ t # 0 => y + n # 0 /\ calculatePrices(q, m)[1] = share(y, n)
      /\ t = 0 => calculatePrices(q, m)[1] = share(1, 1)
  BY ShownPrices
<1>3. /\ v \in Nat /\ w \in Nat
      /\ z # 0 => v + w # 0 /\ calculatePrices(q + s, m)[1] = share(v, w)
      /\ z = 0 => calculatePrices(q + s, m)[1] = share(1, 1)
  BY <1>1, ShownPrices
<1>4. /\ t # 0 => calculatePrices(m, q)[1] = share(n, y)
      /\ t = 0 => calculatePrices(m, q)[1] = share(1, 1)
  BY <1>1, ShownPrices
<1>5. /\ z # 0 => calculatePrices(m, q + s)[1] = share(w, v)
      /\ z = 0 => calculatePrices(m, q + s)[1] = share(1, 1)
  BY <1>1, ShownPrices
<1>6. y * w <= v * n
  BY PartsMonotone
<1>7. t = 0 => w <= v
  BY DEF part_of, max
<1> HIDE DEF y, n, v, w, t, z
<1>8. CASE t # 0
  <2>1. z # 0
    BY <1>1, <1>8
  <2>2. y + n # 0 /\ n + y # 0 /\ v + w # 0 /\ w + v # 0 /\ w * y <= n * v
    BY <1>2, <1>3, <1>6, <1>8, <2>1
  <2>3. share(y, n) <= share(v, w)
    BY <1>2, <1>3, <1>6, <2>2, ShareMonotone
  <2>4. share(w, v) <= share(n, y)
    BY <1>2, <1>3, <2>2, ShareMonotone
  <2>5. QED
    BY <1>2, <1>3, <1>4, <1>5, <1>8, <2>1, <2>3, <2>4
<1>9. CASE t = 0 /\ z # 0
  <2>1. v + w # 0 /\ w + v # 0 /\ 1 * w <= v * 1 /\ w * 1 <= 1 * v /\ 1 + 1 # 0
    BY <1>2, <1>3, <1>7, <1>9
  <2>2. share(1, 1) <= share(v, w)
    BY <1>3, <2>1, ShareMonotone
  <2>3. share(w, v) <= share(1, 1)
    BY <1>3, <2>1, ShareMonotone
  <2>4. QED
    BY <1>2, <1>3, <1>4, <1>5, <1>9, <2>2, <2>3
<1>10. CASE z = 0
  <2>1. share(1, 1) \in Nat /\ t = 0
    BY <1>1, <1>10, SharesSum
  <2>2. QED
    BY <1>2, <1>3, <1>4, <1>5, <1>10, <2>1
<1>11. QED
  BY <1>8, <1>9, <1>10

LEMMA PriceTypes ==
    ASSUME NEW q \in Nat, NEW m \in Nat, NEW liq \in Nat \ {0}
    PROVE  /\ calculate_price(q, m, 0, liq) \in Int
           /\ calculate_price(q, m, 1, liq) \in Int
           /\ calculatePrices(q, m)[1] \in Int
           /\ calculatePrices(q, m)[2] \in Int
<1> DEFINE y == exp_scaled(OverB(q, liq))
           n == exp_scaled(OverB(m, liq))
<1>1. /\ y \in Nat /\ n \in Nat /\ y + n # 0
      /\ calculate_price(q, m, 0, liq) = share(y, n)
      /\ calculate_price(q, m, 1, liq) = share(n, y)
  BY PriceIsShare
<1> HIDE DEF y, n
<1>2. share(y, n) \in Nat /\ share(n, y) \in Nat
  BY <1>1, SharesSum
<1>3. calculatePrices(q, m)[1] \in Nat /\ calculatePrices(q, m)[2] \in Nat
  BY ShownPrices
<1>4. \A i \in Nat : i \in Int
  OBVIOUS
<1>5. QED
  BY <1>1, <1>2, <1>3, <1>4

LEMMA SameDirection ==
    ASSUME NEW i \in Int, NEW j \in Int, NEW k \in Int, NEW l \in Int,
           (i >= j /\ k >= l) \/ (i <= j /\ k <= l)
    PROVE  SameSign(i - j, k - l)
BY DEF SameSign

(***************************************************************************)
(* The list of markets, which does not know b, is "directionally correct"  *)
(* (calculatePrices of the service against calculate_price of the          *)
(* contract): for every b and every pair of quantities the same outcome    *)
(* leads, and no purchase, of whatever size, moves the shown price of an   *)
(* outcome against its real one. The floor of 1% and both truncations are  *)
(* taken into account.                                                     *)
(***************************************************************************)
THEOREM ListPricesAreDirectional == Spec => PricesDirectional
<1> DEFINE Directional ==
              LET price == calculate_price(q_yes, q_no, 0, b)
                  shown == calculatePrices(q_yes, q_no)
              IN  ~price_overflows(q_yes', q_no', b) =>
                    /\ SameSign(price - calculate_price(q_yes, q_no, 1, b),
                                shown[1] - shown[2])
                    /\ SameSign(calculate_price(q_yes', q_no', 0, b) - price,
                                calculatePrices(q_yes', q_no')[1] - shown[1])
<1>1. ASSUME WInv, Next PROVE Directional
  <2> DEFINE P(q, m) == calculate_price(q, m, 0, b)
             Q(q, m) == calculate_price(q, m, 1, b)
             V(q, m) == calculatePrices(q, m)[1]
             W(q, m) == calculatePrices(q, m)[2]
  <2>1. q_yes \in Nat /\ q_no \in Nat /\ b \in Nat \ {0} /\ Step \in Nat
    BY <1>1, WalkAssumption DEF WInv
  <2>2. SameSign(P(q_yes, q_no) - Q(q_yes, q_no), V(q_yes, q_no) - W(q_yes, q_no))
    <3>1. CASE q_no <= q_yes
      <4>1. Q(q_yes, q_no) <= P(q_yes, q_no) /\ W(q_yes, q_no) <= V(q_yes, q_no)
        BY <2>1, <3>1, PriceLeads, ShownLeads
      <4>2. /\ P(q_yes, q_no) \in Int /\ Q(q_yes, q_no) \in Int
            /\ V(q_yes, q_no) \in Int /\ W(q_yes, q_no) \in Int
        BY <2>1, PriceTypes
      <4>3. QED
        BY <4>1, <4>2, SameDirection
    <3>2. CASE q_yes <= q_no
      <4>1. P(q_yes, q_no) <= Q(q_yes, q_no) /\ V(q_yes, q_no) <= W(q_yes, q_no)
        BY <2>1, <3>2, PriceLeads, ShownLeads
      <4>2. /\ P(q_yes, q_no) \in Int /\ Q(q_yes, q_no) \in Int
            /\ V(q_yes, q_no) \in Int /\ W(q_yes, q_no) \in Int
        BY <2>1, PriceTypes
      <4>3. QED
        BY <4>1, <4>2, SameDirection
    <3>3. QED
      BY <2>1, <3>1, <3>2
  <2>3. SameSign(P(q_yes', q_no') - P(q_yes, q_no), V(q_yes', q_no') - V(q_yes, q_no))
    <3>1. CASE BuyYes
      <4>1. q_yes' = q_yes + Step /\ q_no' = q_no /\ q_yes + Step \in Nat
            /\ q_yes <= q_yes + Step
        BY <2>1, <3>1 DEF BuyYes
      <4>2. /\ P(q_yes, q_no) <= P(q_yes + Step, q_no)
            /\ V(q_yes, q_no) <= V(q_yes + Step, q_no)
        BY <2>1, <4>1, PriceRises, ShownRises
      <4>3. P(q_yes', q_no') = P(q_yes + Step, q_no) /\ V(q_yes', q_no') = V(q_yes + Step, q_no)
        BY <4>1
      <4>4. /\ P(q_yes, q_no) \in Int /\ P(q_yes', q_no') \in Int
            /\ V(q_yes, q_no) \in Int /\ V(q_yes', q_no') \in Int
        BY <2>1, <4>1, PriceTypes
      <4>5. QED
        BY <4>2, <4>3, <4>4, SameDirection
    <3>2. CASE BuyNo
      <4>1. q_no' = q_no + Step /\ q_yes' = q_yes /\ q_no + Step \in Nat
            /\ q_no <= q_no + Step
        BY <2>1, <3>2 DEF BuyNo
      <4>2. /\ P(q_yes, q_no + Step) <= P(q_yes, q_no)
            /\ V(q_yes, q_no + Step) <= V(q_yes, q_no)
        BY <2>1, <4>1, PriceRises, ShownRises
      <4>3. P(q_yes', q_no') = P(q_yes, q_no + Step) /\ V(q_yes', q_no') = V(q_yes, q_no + Step)
        BY <4>1
      <4>4. /\ P(q_yes, q_no) \in Int /\ P(q_yes', q_no') \in Int
            /\ V(q_yes, q_no) \in Int /\ V(q_yes', q_no') \in Int
        BY <2>1, <4>1, PriceTypes
      <4>5. QED
        BY <4>2, <4>3, <4>4, SameDirection
    <3>3. QED
      BY <1>1, <3>1, <3>2 DEF Next
  <2>4. QED
    BY <2>2, <2>3
<1>2. WInv /\ [Next]_vars => [Directional]_vars
  BY <1>1
<1>3. QED
  BY <1>2, WalkInductive, PTL DEF Spec, PricesDirectional
-----------------------------------------------------------------------------
(***************************************************************************)
(* ln_scaled. The values its loop goes through, as for exp_scaled.         *)
(***************************************************************************)
LnStates == [power : Int, sign : Int, sum : Int]

IsSeries(g, y) ==
    g = [k \in 0 .. LN_TERMS |->
           IF k = 0
           THEN [power |-> y, sign |-> 1, sum |-> 0]
           ELSE [power |-> TruncDiv(g[k-1].power * y, SCALE_FACTOR),
                 sign  |-> -g[k-1].sign,
                 sum   |-> g[k-1].sum + TruncDiv(g[k-1].sign * g[k-1].power, k)]]

LEMMA SeriesExists == ASSUME NEW y \in Int PROVE \E g : IsSeries(g, y)
<1> DEFINE step(k, s) == [power |-> TruncDiv(s.power * y, SCALE_FACTOR),
                          sign  |-> -s.sign,
                          sum   |-> s.sum + TruncDiv(s.sign * s.power, k)]
           n == LN_TERMS
           D == LnStates
           F == [k \in 1 .. n |-> [s \in D |-> step(k, s)]]
           start == [power |-> y, sign |-> 1, sum |-> 0]
<1>1. start \in D /\ n \in Nat
  BY DEF LnStates, LN_TERMS
<1> HIDE DEF n
<1>2. ASSUME NEW k \in 1 .. n, NEW s \in D PROVE step(k, s) \in D
  <2>1. s.power \in Int /\ s.sign \in Int /\ s.sum \in Int
    BY DEF LnStates
  <2>2. /\ s.power * y \in Int /\ s.sign * s.power \in Int
        /\ k \in Nat \ {0} /\ SCALE_FACTOR \in Nat \ {0}
    BY <1>1, <2>1, ScaleAssumption
  <2>3. /\ TruncDiv(s.power * y, SCALE_FACTOR) \in Int
        /\ TruncDiv(s.sign * s.power, k) \in Int
    BY <2>2, TruncInt
  <2>4. QED
    BY <2>1, <2>3 DEF LnStates
<1> HIDE DEF step, start
<1>3. F \in [1 .. n -> [D -> D]]
  BY <1>2
<1>4. \A k \in 1 .. n : \A s \in D : F[k][s] = step(k, s)
  OBVIOUS
<1> HIDE DEF D, F
<1>5. PICK g : Recurs(g, n, D, start, F)
  BY <1>1, <1>3, RecursionExists, Zenon
<1>6. \A k \in 0 .. n : g[k] = IF k = 0 THEN start ELSE step(k, g[k - 1])
  <2>1. \A k \in 0 .. n : k # 0 => k \in 1 .. n /\ k - 1 \in 0 .. n
    BY <1>1
  <2>2. \A k \in 0 .. n : k # 0 => g[k - 1] \in D
    BY <1>5, <2>1 DEF Recurs
  <2>3. QED
    BY <1>4, <1>5, <2>1, <2>2 DEF Recurs
<1>7. g = [k \in 0 .. n |-> IF k = 0 THEN start ELSE step(k, g[k - 1])]
  BY <1>5, <1>6 DEF Recurs
<1>8. IsSeries(g, y)
  BY <1>7 DEF IsSeries, step, start, n
<1>9. QED
  BY <1>8

IsLnLoop(g, y) ==
    /\ g[0].power = y /\ g[0].sign = 1 /\ g[0].sum = 0
    /\ \A k \in Nat : k < LN_TERMS =>
         /\ g[k+1].power = TruncDiv(g[k].power * y, SCALE_FACTOR)
         /\ g[k+1].sign = -g[k].sign
         /\ g[k+1].sum = g[k].sum + TruncDiv(g[k].sign * g[k].power, k + 1)

LEMMA SeriesLoop ==
    ASSUME NEW y \in Int
    PROVE  \E g : LnSeries(y) = g[LN_TERMS].sum /\ IsLnLoop(g, y)
<1> DEFINE g == CHOOSE h : IsSeries(h, y)
           n == LN_TERMS
<1>1. LnSeries(y) = g[n].sum
  BY DEF LnSeries, IsSeries
<1>2. IsSeries(g, y)
  BY SeriesExists
<1> HIDE DEF g
<1>3. \A k \in 0 .. n : g[k] =
         IF k = 0
         THEN [power |-> y, sign |-> 1, sum |-> 0]
         ELSE [power |-> TruncDiv(g[k-1].power * y, SCALE_FACTOR),
               sign  |-> -g[k-1].sign,
               sum   |-> g[k-1].sum + TruncDiv(g[k-1].sign * g[k-1].power, k)]
  BY <1>2 DEF IsSeries
<1>4. n \in Nat
  BY DEF LN_TERMS
<1> HIDE DEF n
<1>5. g[0].power = y /\ g[0].sign = 1 /\ g[0].sum = 0
  <2>1. 0 \in 0 .. n
    BY <1>4
  <2>2. g[0] = [power |-> y, sign |-> 1, sum |-> 0]
    BY <1>3, <2>1
  <2>3. QED
    BY <2>2
<1>6. ASSUME NEW k \in Nat, k < n
      PROVE  /\ g[k+1].power = TruncDiv(g[k].power * y, SCALE_FACTOR)
             /\ g[k+1].sign = -g[k].sign
             /\ g[k+1].sum = g[k].sum + TruncDiv(g[k].sign * g[k].power, k + 1)
  <2>1. k + 1 \in 0 .. n /\ k + 1 # 0 /\ (k + 1) - 1 = k
    BY <1>4, <1>6
  <2>2. g[k+1] = [power |-> TruncDiv(g[k].power * y, SCALE_FACTOR),
                  sign  |-> -g[k].sign,
                  sum   |-> g[k].sum + TruncDiv(g[k].sign * g[k].power, k + 1)]
    BY <1>3, <2>1
  <2>3. QED
    BY <2>2
<1>7. IsLnLoop(g, y)
  BY <1>5, <1>6 DEF IsLnLoop, n
<1>8. QED
  BY <1>1, <1>7 DEF n

\* ln 1 is exactly 0.
LEMMA LnSeriesOfZero == LnSeries(0) = 0
<1>1. PICK g : LnSeries(0) = g[LN_TERMS].sum /\ IsLnLoop(g, 0)
  BY SeriesLoop
<1> DEFINE n == LN_TERMS
           Good == {k \in Nat : g[k].power = 0 /\ g[k].sign \in Int /\ g[k].sum = 0}
<1>2. 0 \in Good /\ n \in Nat
  BY <1>1 DEF IsLnLoop, LN_TERMS
<1> HIDE DEF n
<1>3. ASSUME NEW k \in Nat, k < n, k \in Good PROVE k + 1 \in Good
  <2>1. /\ g[k+1].power = TruncDiv(g[k].power * 0, SCALE_FACTOR)
        /\ g[k+1].sign = -g[k].sign
        /\ g[k+1].sum = g[k].sum + TruncDiv(g[k].sign * g[k].power, k + 1)
    BY <1>1, <1>3 DEF IsLnLoop, n
  <2>2. g[k].power * 0 = 0 /\ g[k].sign * g[k].power = 0
    BY <1>3
  <2>3. \A d \in Nat \ {0} : TruncDiv(0, d) = 0
    BY DEF TruncDiv
  <2>4. k + 1 \in Nat \ {0} /\ SCALE_FACTOR \in Nat \ {0}
    BY ScaleAssumption
  <2>5. QED
    BY <1>3, <2>1, <2>2, <2>3, <2>4
<1> HIDE DEF Good
<1>4. \A k \in 0 .. n : k \in Good
  BY <1>2, <1>3, IntervalInduction
<1>5. n \in Good
  BY <1>2, <1>4
<1>6. QED
  BY <1>1, <1>5 DEF Good, n

(***************************************************************************)
(* For 0 < y < 1.0 the terms of the series alternate and do not grow, so   *)
(* that the sum stays at least one unit: the difference of its first two   *)
(* terms. When the next term is to be subtracted the sum has room for it.  *)
(***************************************************************************)
RoomFor(s, k) ==
    /\ s.power \in Nat /\ s.sum \in Int
    /\ \/ s.sign = 1 /\ s.sum >= 1
       \/ s.sign = -1 /\ s.sum - TruncDiv(s.power, k + 1) >= 1

LEMMA RoomForNext ==
    ASSUME NEW y \in 1 .. SCALE_FACTOR - 1, NEW g, IsLnLoop(g, y),
           NEW k \in Nat, k < LN_TERMS, RoomFor(g[k], k)
    PROVE  RoomFor(g[k + 1], k + 1)
<1> DEFINE p == g[k].power
           q == g[k+1].power
           s == g[k].sum
           t == TruncDiv(p, k + 1)
           u == TruncDiv(q, (k + 1) + 1)
<1>1. /\ SCALE_FACTOR \in Nat \ {0} /\ y \in Nat /\ y <= SCALE_FACTOR
      /\ k + 1 \in Nat \ {0} /\ (k + 1) + 1 \in Nat \ {0} /\ k + 1 <= (k + 1) + 1
  BY ScaleAssumption
<1>2. /\ p \in Nat /\ s \in Int
      /\ q = TruncDiv(p * y, SCALE_FACTOR)
      /\ g[k+1].sign = -g[k].sign
      /\ g[k+1].sum = s + TruncDiv(g[k].sign * p, k + 1)
  BY DEF RoomFor, IsLnLoop
<1>3. q \in 0 .. p
  BY <1>1, <1>2, TruncShrinks
<1>4. t \in Nat /\ u \in Nat /\ u <= t
  <2>1. q \in Nat /\ q <= p
    BY <1>2, <1>3
  <2>2. t \in Nat /\ u \in Nat /\ TruncDiv(q, k + 1) \in Nat
    BY <1>1, <1>2, <2>1, TruncNat
  <2>3. u <= TruncDiv(q, k + 1)
    BY <1>1, <2>1, TruncDivisor
  <2>4. TruncDiv(q, k + 1) <= t
    BY <1>1, <1>2, <2>1, TruncMonotone
  <2>5. QED
    BY <2>2, <2>3, <2>4
<1>5. CASE g[k].sign = 1 /\ s >= 1
  <2>1. g[k].sign * p = p /\ g[k+1].sign = -1
    BY <1>2, <1>5
  <2>2. g[k+1].sum = s + t
    BY <1>2, <2>1
  <2>3. g[k+1].sum \in Int /\ g[k+1].sum - u >= 1
    BY <1>2, <1>4, <1>5, <2>2
  <2>4. QED
    BY <1>2, <1>3, <2>1, <2>3 DEF RoomFor
<1>6. CASE g[k].sign = -1 /\ s - t >= 1
  <2>1. g[k].sign * p = -p /\ g[k+1].sign = 1
    <3>1. \A i \in Int : i + 1 = 0 => -i = 1
      OBVIOUS
    <3>2. \A i \in Int : i + 1 = 0 => i * p = -p
      BY <1>2
    <3>3. g[k].sign \in Int /\ g[k].sign + 1 = 0
      BY <1>6
    <3>4. QED
      BY <1>2, <3>1, <3>2, <3>3
  <2>2. g[k+1].sum = s - t
    <3>1. TruncDiv(-p, k + 1) = -t
      BY <1>1, <1>2, TruncNegated
    <3>2. QED
      BY <1>2, <1>4, <2>1, <3>1
  <2>3. g[k+1].sum \in Int /\ g[k+1].sum >= 1
    BY <1>2, <1>4, <1>6, <2>2
  <2>4. QED
    BY <1>2, <1>3, <2>1, <2>3 DEF RoomFor
<1>7. QED
  BY <1>5, <1>6 DEF RoomFor

LEMMA LnSeriesPositive ==
    ASSUME NEW y \in 1 .. SCALE_FACTOR - 1
    PROVE  LnSeries(y) \in Int /\ LnSeries(y) >= 1
<1>1. SCALE_FACTOR \in Nat \ {0} /\ y \in Nat /\ y \in Int /\ y >= 1 /\ y + 1 <= SCALE_FACTOR
  BY ScaleAssumption
<1>2. PICK g : LnSeries(y) = g[LN_TERMS].sum /\ IsLnLoop(g, y)
  BY <1>1, SeriesLoop
<1> DEFINE n == LN_TERMS
           m == n - 1
           Good == {i \in Nat : RoomFor(g[i + 1], i + 1)}
<1>3. n \in Nat /\ m \in Nat /\ m + 1 = n /\ 0 < n
  BY DEF LN_TERMS
<1> HIDE DEF n, m
<1>4. 0 \in Good
  <2> DEFINE p == TruncDiv(y * y, SCALE_FACTOR)
             t == TruncDiv(p, 2)
  <2>1. /\ g[0].power = y /\ g[0].sign = 1 /\ g[0].sum = 0
        /\ g[1].power = TruncDiv(g[0].power * y, SCALE_FACTOR)
        /\ g[1].sign = -g[0].sign
        /\ g[1].sum = g[0].sum + TruncDiv(g[0].sign * g[0].power, 1)
    <3>1. /\ g[0+1].power = TruncDiv(g[0].power * y, SCALE_FACTOR)
          /\ g[0+1].sign = -g[0].sign
          /\ g[0+1].sum = g[0].sum + TruncDiv(g[0].sign * g[0].power, 0 + 1)
      BY <1>2, <1>3 DEF IsLnLoop, n
    <3>2. 0 + 1 = 1
      OBVIOUS
    <3>3. QED
      BY <1>2, <3>1, <3>2 DEF IsLnLoop
  <2>2. TruncDiv(y, 1) = y
    BY <1>1 DEF TruncDiv
  <2>3. g[1].power = p /\ g[1].sign = -1 /\ g[1].sum = y
    BY <1>1, <2>1, <2>2
  <2>4. p \in Nat /\ SCALE_FACTOR * p <= y * y
    <3>1. y * y \in Nat
      BY <1>1
    <3>2. QED
      BY <1>1, <3>1, TruncNat
  <2> HIDE DEF p
  <2>5. p < y
    <3>1. ASSUME p >= y PROVE FALSE
      <4>1. SCALE_FACTOR * y <= SCALE_FACTOR * p
        BY <1>1, <2>4, <3>1
      <4>2. (y + 1) * y <= SCALE_FACTOR * y
        BY <1>1
      <4>3. (y + 1) * y = y * y + y
        BY <1>1
      <4>4. SCALE_FACTOR * p \in Int /\ SCALE_FACTOR * y \in Int /\ y * y \in Int
        BY <1>1, <2>4
      <4>5. QED
        BY <1>1, <2>4, <4>1, <4>2, <4>3, <4>4
    <3>2. QED
      BY <1>1, <2>4, <3>1
  <2>6. t \in Nat /\ 2 * t <= p
    BY <2>4, TruncNat
  <2> HIDE DEF t
  <2>7. y - t >= 1
    BY <1>1, <2>4, <2>5, <2>6
  <2>8. RoomFor(g[1], 1)
    BY <1>1, <2>3, <2>4, <2>7 DEF RoomFor, t
  <2>9. QED
    BY <2>8
<1>5. ASSUME NEW i \in Nat, i < m, i \in Good PROVE i + 1 \in Good
  <2>1. i + 1 \in Nat /\ i + 1 < n
    BY <1>3, <1>5
  <2>2. RoomFor(g[(i + 1) + 1], (i + 1) + 1)
    BY <1>2, <1>5, <2>1, RoomForNext DEF n
  <2>3. QED
    BY <2>1, <2>2
<1> HIDE DEF Good
<1>6. \A i \in 0 .. m : i \in Good
  BY <1>3, <1>4, <1>5, IntervalInduction
<1>7. RoomFor(g[n], n)
  <2>1. m \in Good
    BY <1>3, <1>6
  <2>2. QED
    BY <1>3, <2>1 DEF Good
<1>8. n + 1 \in Nat \ {0}
  BY <1>3
<1>9. TruncDiv(g[n].power, n + 1) \in Nat
  BY <1>7, <1>8, TruncNat DEF RoomFor
<1>10. QED
  BY <1>2, <1>7, <1>9 DEF RoomFor, n
-----------------------------------------------------------------------------
(***************************************************************************)
(* Halving. An argument that is not too large for MaxShift halvings ends   *)
(* between 1.0 and 2.0, after the first halving that brings it below 2.0.  *)
(***************************************************************************)
LEMMA PowerPositive == ASSUME NEW n \in Nat PROVE 2^n \in Nat \ {0}
<1> DEFINE Good == {i \in Nat : 2^i \in Nat \ {0}}
<1>1. 0 \in Good
  <2>1. 2^0 = 1
    OBVIOUS
  <2>2. QED
    BY <2>1
<1>2. ASSUME NEW i \in Nat, i < n, i \in Good PROVE i + 1 \in Good
  <2>1. 2^(i + 1) = 2 * 2^i
    BY PowerDoubles
  <2>2. QED
    BY <1>2, <2>1
<1> HIDE DEF Good
<1>3. \A i \in 0 .. n : i \in Good
  BY <1>1, <1>2, IntervalInduction
<1>4. n \in Good
  BY <1>3
<1>5. QED
  BY <1>4 DEF Good

LEMMA PowerMonotone ==
    ASSUME NEW n \in Nat, NEW k \in Nat
    PROVE  2^n <= 2^(n + k)
<1> DEFINE Good == {i \in Nat : 2^n <= 2^(n + i)}
<1>1. 0 \in Good
  <2>1. n + 0 = n /\ 2^n \in Nat
    BY PowerIsNatural
  <2>2. QED
    BY <2>1
<1>2. ASSUME NEW i \in Nat, i < k, i \in Good PROVE i + 1 \in Good
  <2>1. n + i \in Nat /\ n + (i + 1) = (n + i) + 1
    OBVIOUS
  <2>2. 2^((n + i) + 1) = 2 * 2^(n + i) /\ 2^(n + i) \in Nat /\ 2^n \in Nat
    BY <2>1, PowerDoubles, PowerIsNatural
  <2>3. 2^n <= 2^((n + i) + 1)
    BY <1>2, <2>2
  <2>4. QED
    BY <2>1, <2>3
<1> HIDE DEF Good
<1>3. \A i \in 0 .. k : i \in Good
  BY <1>1, <1>2, IntervalInduction
<1>4. k \in Good
  BY <1>3
<1>5. QED
  BY <1>4 DEF Good

\* The condition under which the loop of ln_scaled ends after n halvings.
Halved(x, n) ==
    /\ x \div 2^n < 2 * SCALE_FACTOR
    /\ n > 0 => x \div 2^(n-1) >= 2 * SCALE_FACTOR

LEMMA HalvingsExist ==
    ASSUME NEW x \in Nat, x \div 2^MaxShift < 2 * SCALE_FACTOR
    PROVE  halvings(x) \in 0 .. MaxShift /\ Halved(x, halvings(x))
<1> DEFINE m == MaxShift
           Good == {n \in Nat : x \div 2^n >= 2 * SCALE_FACTOR}
<1>1. m \in Nat
  BY DEF MaxShift
<1>2. halvings(x) = CHOOSE n \in 0 .. m : Halved(x, n)
  BY DEF halvings, Halved
<1>3. ASSUME NEW n \in Nat PROVE x \div 2^n \in Nat
  <2> DEFINE d == 2^n
  <2>1. d \in Nat \ {0}
    BY PowerPositive
  <2> HIDE DEF d
  <2>2. x \div d \in Nat
    BY <2>1
  <2>3. QED
    BY <2>2 DEF d
<1> HIDE DEF m
<1>4. \E n \in 0 .. m : Halved(x, n)
  <2> SUFFICES ASSUME \A n \in 0 .. m : ~Halved(x, n) PROVE FALSE
    OBVIOUS
  <2>1. 0 \in Good
    <3>1. ~Halved(x, 0)
      BY <1>1
    <3>2. x \div 2^0 \in Nat /\ SCALE_FACTOR \in Nat
      BY <1>3, ScaleAssumption
    <3>3. QED
      BY <3>1, <3>2 DEF Halved
  <2>2. ASSUME NEW n \in Nat, n < m, n \in Good PROVE n + 1 \in Good
    <3>1. ~Halved(x, n + 1) /\ (n + 1) - 1 = n
      BY <1>1, <2>2
    <3>2. x \div 2^(n + 1) \in Nat /\ SCALE_FACTOR \in Nat
      BY <1>3, ScaleAssumption
    <3>3. QED
      BY <2>2, <3>1, <3>2 DEF Halved
  <2> HIDE DEF Good
  <2>3. \A n \in 0 .. m : n \in Good
    BY <1>1, <2>1, <2>2, IntervalInduction
  <2>4. m \in Good
    BY <1>1, <2>3
  <2>5. x \div 2^m \in Nat /\ SCALE_FACTOR \in Nat
    BY <1>1, <1>3, ScaleAssumption
  <2>6. QED
    BY <2>4, <2>5 DEF Good, m
<1>5. QED
  BY <1>2, <1>4 DEF m

\* What is left after the halvings is 1.0 or more, and x itself without any.
LEMMA HalvedRange ==
    ASSUME NEW x \in Nat, SCALE_FACTOR <= x, NEW n \in Nat, Halved(x, n)
    PROVE  /\ x \div 2^n - SCALE_FACTOR \in 0 .. SCALE_FACTOR - 1
           /\ n = 0 => x \div 2^n = x
<1> DEFINE S == SCALE_FACTOR
           d == 2^n
           q == x \div d
<1>1. S \in Nat \ {0} /\ d \in Nat \ {0}
  BY PowerPositive, ScaleAssumption
<1>2. q < 2 * S
  BY DEF Halved
<1>3. ASSUME n = 0 PROVE q = x
  <2>1. d = 1
    BY <1>3
  <2> HIDE DEF d
  <2>2. QED
    BY <2>1
<1>4. q \in Nat /\ \A k \in Nat : k * d <= x => k <= q
  <2> HIDE DEF d
  <2>1. q \in Nat /\ d * q <= x /\ x < d * q + d
    BY <1>1
  <2> HIDE DEF q
  <2>2. ASSUME NEW k \in Nat, k * d <= x, k > q PROVE FALSE
    <3>1. k >= q + 1
      BY <2>1, <2>2
    <3>2. (q + 1) * d <= k * d
      BY <1>1, <2>1, <3>1
    <3>3. (q + 1) * d = d * q + d /\ k * d \in Int /\ d * q \in Int
      BY <1>1, <2>1
    <3>4. QED
      BY <1>1, <2>1, <2>2, <3>2, <3>3
  <2>3. QED
    BY <2>1, <2>2
<1>5. S <= q
  <2>1. CASE n = 0
    BY <1>3, <2>1
  <2>2. CASE n > 0
    <3> DEFINE e == 2^(n - 1)
               r == x \div e
    <3>1. n - 1 \in Nat /\ (n - 1) + 1 = n
      BY <2>2
    <3>2. e \in Nat \ {0} /\ d = 2 * e
      BY <3>1, PowerPositive, PowerDoubles
    <3>3. r >= 2 * S
      BY <2>2 DEF Halved
    <3> HIDE DEF e, d
    <3>4. r \in Nat /\ e * r <= x
      BY <3>2
    <3> HIDE DEF r, q
    <3>5. e * (2 * S) <= e * r
      BY <1>1, <3>2, <3>3, <3>4
    <3>6. S * d = e * (2 * S)
      BY <1>1, <3>2
    <3>7. S * d <= x
      <4>1. e * (2 * S) \in Int /\ e * r \in Int
        BY <1>1, <3>2, <3>4
      <4>2. QED
        BY <3>4, <3>5, <3>6, <4>1
    <3>8. QED
      BY <1>1, <1>4, <3>7
  <2>3. QED
    BY <2>1, <2>2
<1>6. QED
  BY <1>1, <1>2, <1>3, <1>4, <1>5
-----------------------------------------------------------------------------
(***************************************************************************)
(* How large exp_scaled of a negative difference can get: a term is at     *)
(* most 20 times the one before. This is far from e^x <= 1, which the      *)
(* series does miss where the quantities differ by 9 b, but MaxShift       *)
(* halvings are enough for it.                                             *)
(***************************************************************************)
LEMMA TermGrowth ==
    ASSUME NEW t \in Nat, NEW y \in 0 .. 20 * SCALE_FACTOR,
           NEW d \in Nat \ {0}, SCALE_FACTOR <= d
    PROVE  TruncDiv(t * y, d) \in 0 .. 20 * t
<1> DEFINE S == SCALE_FACTOR
           q == TruncDiv(t * y, d)
<1>1. S \in Nat \ {0} /\ y \in Nat /\ y <= 20 * S
  BY ScaleAssumption
<1>2. t * y \in Nat
  BY <1>1
<1>3. q \in Nat /\ d * q <= t * y
  BY <1>2, TruncNat
<1> HIDE DEF S, q
<1>4. t * y <= t * (20 * S)
  BY <1>1
<1>5. t * (20 * S) = S * (20 * t)
  BY <1>1
<1>6. S * (20 * t) <= d * (20 * t)
  BY <1>1 DEF S
<1>7. d * q <= d * (20 * t)
  <2>1. /\ d * q \in Int /\ t * y \in Int /\ t * (20 * S) \in Int
        /\ d * (20 * t) \in Int
    BY <1>1, <1>2, <1>3
  <2>2. QED
    BY <1>3, <1>4, <1>5, <1>6, <2>1
<1>8. q <= 20 * t
  <2>1. \A i, j \in Nat, k \in Nat \ {0} : k * i <= k * j => i <= j
    OBVIOUS
  <2>2. 20 * t \in Nat
    OBVIOUS
  <2>3. QED
    BY <1>3, <1>7, <2>1, <2>2
<1>9. q \in 0 .. 20 * t
  BY <1>3, <1>8
<1>10. QED
  BY <1>9 DEF q

LEMMA PowerOf32 == ASSUME NEW n \in Nat PROVE 2^(5 * (n + 1)) = 32 * 2^(5 * n)
<1> DEFINE m == 5 * n
<1>1. m \in Nat /\ 5 * (n + 1) = m + 5
  OBVIOUS
<1> HIDE DEF m
<1>2. /\ 2^(m + 1) = 2 * 2^m /\ 2^((m + 1) + 1) = 2 * 2^(m + 1)
      /\ 2^((m + 2) + 1) = 2 * 2^(m + 2) /\ 2^((m + 3) + 1) = 2 * 2^(m + 3)
      /\ 2^((m + 4) + 1) = 2 * 2^(m + 4)
  BY <1>1, PowerDoubles
<1>3. /\ (m + 1) + 1 = m + 2 /\ (m + 2) + 1 = m + 3 /\ (m + 3) + 1 = m + 4
      /\ (m + 4) + 1 = m + 5
  BY <1>1
<1>4. 2^m \in Nat
  BY <1>1, PowerIsNatural
<1> DEFINE a == 2^m
<1>5. 2^(m + 1) = 2 * a /\ 2^(m + 2) = 4 * a /\ 2^(m + 3) = 8 * a
  <2>1. a \in Nat /\ 2^(m + 1) = 2 * a
    BY <1>2, <1>4
  <2>2. 2^(m + 2) = 2 * 2^(m + 1) /\ 2^(m + 3) = 2 * 2^(m + 2)
    BY <1>2, <1>3
  <2> HIDE DEF a
  <2>3. 2^(m + 2) = 4 * a
    BY <2>1, <2>2
  <2>4. QED
    BY <2>1, <2>2, <2>3
<1>6. 2^(m + 5) = 32 * a
  <2>1. a \in Nat
    BY <1>4
  <2>2. 2^(m + 4) = 2 * 2^(m + 3) /\ 2^(m + 5) = 2 * 2^(m + 4)
    BY <1>2, <1>3
  <2> HIDE DEF a
  <2>3. 2^(m + 4) = 16 * a
    BY <1>5, <2>1, <2>2
  <2>4. QED
    BY <2>1, <2>2, <2>3
<1>7. QED
  BY <1>1, <1>6 DEF m

LEMMA LoopBounded ==
    ASSUME NEW x \in -(20 * SCALE_FACTOR) .. 0, NEW n \in Nat, NEW g, IsLoop(g, x, n)
    PROVE  g[n].sum <= 2 * (2^(5 * n) * SCALE_FACTOR)
<1> DEFINE S == SCALE_FACTOR
           B(i) == 2^(5 * i) * S
           y == -x
           Good == {i \in Nat : /\ -B(i) <= g[i].term /\ g[i].term <= B(i)
                                /\ g[i].sum <= 2 * B(i)}
<1>1. S \in Nat \ {0} /\ x \in Int /\ y \in 0 .. 20 * S
  BY ScaleAssumption
<1>2. ASSUME NEW i \in Nat PROVE B(i) \in Nat /\ B(i + 1) = 32 * B(i)
  <2> DEFINE a == 2^(5 * i)
  <2>1. 2^(5 * (i + 1)) = 32 * a /\ a \in Nat
    BY PowerOf32, PowerIsNatural
  <2> HIDE DEF a
  <2>2. a * S \in Nat /\ (32 * a) * S = 32 * (a * S)
    BY <1>1, <2>1
  <2>3. QED
    BY <2>1, <2>2 DEF a
<1>3. 0 \in Good
  <2>1. B(0) = S
    <3>1. 5 * 0 = 0 /\ 2^0 = 1
      OBVIOUS
    <3>2. QED
      BY <1>1, <3>1
  <2>2. g[0].term = S /\ g[0].sum = S
    BY DEF IsLoop
  <2> HIDE DEF B
  <2>3. QED
    BY <1>1, <2>1, <2>2
<1>4. ASSUME NEW i \in Nat, i < n, i \in Good PROVE i + 1 \in Good
  <2> DEFINE t == g[i].term
             u == g[i+1].term
             d == (i + 1) * S
             c == B(i)
  <2>1. i \in 0 .. n /\ i + 1 \in 0 .. n
    BY <1>4
  <2>2. /\ t \in Int /\ u \in Int /\ g[i].sum \in Int
        /\ u = TruncDiv(t * x, d) /\ g[i+1].sum = g[i].sum + u
    BY <1>4, <2>1 DEF IsLoop
  <2>3. d \in Nat \ {0} /\ S <= d
    BY <1>1
  <2>4. -c <= t /\ t <= c /\ g[i].sum <= 2 * c /\ c \in Nat /\ B(i + 1) = 32 * c
    BY <1>2, <1>4
  <2>5. t * x = -(t * y) /\ (-t) * y = t * x
    BY <1>1, <2>2
  <2> HIDE DEF S, B, y, t, u, d, c
  <2>6. -(20 * c) <= u /\ u <= 20 * c
    <3>1. CASE t >= 0
      <4>1. t \in Nat /\ t * y \in Nat
        BY <1>1, <2>2, <3>1
      <4>2. TruncDiv(t * y, d) \in 0 .. 20 * t
        BY <1>1, <2>3, <4>1, TermGrowth DEF S
      <4>3. u = -TruncDiv(t * y, d)
        BY <2>2, <2>3, <2>5, <4>1, TruncNegated
      <4>4. QED
        BY <2>4, <4>1, <4>2, <4>3
    <3>2. CASE t < 0
      <4>1. -t \in Nat
        BY <2>2, <3>2
      <4>2. TruncDiv((-t) * y, d) \in 0 .. 20 * (-t)
        BY <1>1, <2>3, <4>1, TermGrowth DEF S
      <4>3. u \in 0 .. 20 * (-t)
        BY <2>2, <2>5, <4>2
      <4>4. QED
        BY <2>2, <2>4, <4>1, <4>3
    <3>3. QED
      BY <2>2, <3>1, <3>2
  <2>7. -B(i + 1) <= u /\ u <= B(i + 1) /\ g[i+1].sum <= 2 * B(i + 1)
    BY <2>2, <2>4, <2>6
  <2>8. QED
    BY <2>7 DEF u
<1> HIDE DEF Good
<1>5. \A i \in 0 .. n : i \in Good
  BY <1>3, <1>4, IntervalInduction
<1>6. n \in Good
  BY <1>5
<1>7. QED
  BY <1>6 DEF Good

LEMMA ExpOfDiffFits ==
    ASSUME NEW x \in Int, x <= 0
    PROVE  /\ exp_scaled(x) \in Nat
           /\ (SCALE_FACTOR + exp_scaled(x)) \div 2^MaxShift < 2 * SCALE_FACTOR
<1> DEFINE S == SCALE_FACTOR
           P == 2^MaxShift
           A == 2^100
           e == exp_scaled(x)
<1>1. S \in Nat \ {0}
  BY ScaleAssumption
<1>2. P \in Nat \ {0} /\ A \in Nat \ {0} /\ 2 * A <= P
  <2>1. MaxShift = 101 + 26 /\ 101 = 100 + 1
    BY DEF MaxShift
  <2>2. 2^101 <= 2^(101 + 26)
    BY PowerMonotone
  <2>3. 2^(100 + 1) = 2 * A
    BY PowerDoubles
  <2>4. P \in Nat \ {0} /\ A \in Nat \ {0}
    <3>1. MaxShift \in Nat /\ 100 \in Nat
      BY <2>1
    <3>2. QED
      BY <3>1, PowerPositive, Zenon
  <2>5. P = 2^(101 + 26)
    BY <2>1
  <2>6. 2^101 = 2 * A
    BY <2>1, <2>3
  <2> HIDE DEF P, A
  <2>7. QED
    BY <2>2, <2>4, <2>5, <2>6
<1> HIDE DEF P, A
<1>3. e \in Nat /\ e <= P * S
  <2>1. 1 <= P * S /\ P * S \in Nat
    BY <1>1, <1>2
  <2>2. CASE x < -20 * S
    BY <2>1, <2>2 DEF exp_scaled
  <2>3. CASE ~(x < -20 * S)
    <3> DEFINE n == EXP_ITERATIONS
    <3>1. n \in Nat /\ 5 * n = 100
      BY DEF EXP_ITERATIONS
    <3> HIDE DEF n
    <3>2. x \in -(20 * S) .. 0
      BY <1>1, <2>3
    <3>3. PICK g : TaylorExp(x, n) = g[n].sum /\ IsLoop(g, x, n)
      BY <3>1, TaylorLoop
    <3>4. g[n].sum <= 2 * (2^(5 * n) * S) /\ g[n].sum \in Int
      <4>1. g[n].sum <= 2 * (2^(5 * n) * S)
        BY <3>1, <3>2, <3>3, LoopBounded
      <4>2. g[n].sum \in Int
        BY <3>1, <3>3 DEF IsLoop
      <4>3. QED
        BY <4>1, <4>2
    <3>5. 2^(5 * n) = A
      BY <3>1 DEF A
    <3>6. 2 * (A * S) <= P * S
      <4>1. (2 * A) * S <= P * S
        BY <1>1, <1>2
      <4>2. (2 * A) * S = 2 * (A * S)
        BY <1>1, <1>2
      <4>3. QED
        BY <4>1, <4>2
    <3>7. A * S \in Nat
      BY <1>1, <1>2
    <3>8. e = max(g[n].sum, 0)
      BY <2>3, <3>3 DEF exp_scaled, n
    <3>9. QED
      BY <2>1, <3>4, <3>5, <3>6, <3>7, <3>8 DEF max
  <2>4. QED
    BY <2>2, <2>3
<1> HIDE DEF e
<1>4. S + e < (2 * S) * P
  <2>1. S < P * S
    BY <1>1, <1>2
  <2>2. P * S \in Nat /\ (2 * S) * P = P * S + P * S
    BY <1>1, <1>2
  <2>3. QED
    BY <1>1, <1>3, <2>1, <2>2
<1>5. (S + e) \div P < 2 * S
  <2> DEFINE q == (S + e) \div P
  <2>1. S + e \in Nat
    BY <1>1, <1>3
  <2>2. q \in Nat /\ P * q <= S + e
    BY <1>2, <2>1
  <2> HIDE DEF q
  <2>3. ASSUME q >= 2 * S PROVE FALSE
    <3>1. P * (2 * S) <= P * q
      BY <1>1, <1>2, <2>2, <2>3
    <3>2. P * (2 * S) = (2 * S) * P /\ P * q \in Int /\ (2 * S) * P \in Int
      BY <1>1, <1>2, <2>2
    <3>3. QED
      BY <1>4, <2>1, <2>2, <3>1, <3>2
  <2>4. QED
    BY <1>1, <2>2, <2>3 DEF q
<1>6. QED
  BY <1>3, <1>5 DEF S, P, e

(***************************************************************************)
(* ln_scaled of more than 1.0 is at least one unit, and of at most 2.0 no  *)
(* more than LN2_SCALED.                                                   *)
(***************************************************************************)
LEMMA LnRange ==
    ASSUME NEW e \in Nat \ {0}, (SCALE_FACTOR + e) \div 2^MaxShift < 2 * SCALE_FACTOR
    PROVE  /\ ln_scaled(SCALE_FACTOR + e) \in Nat \ {0}
           /\ e <= SCALE_FACTOR => ln_scaled(SCALE_FACTOR + e) <= LN2_SCALED
           /\ e = SCALE_FACTOR => ln_scaled(SCALE_FACTOR + e) = LN2_SCALED
<1> DEFINE S == SCALE_FACTOR
           x == S + e
           h == halvings(x)
           y == x \div 2^h - S
<1>1. /\ S \in Nat \ {0} /\ LN2_SCALED \in Nat \ {0} /\ x \in Nat /\ S <= x
  BY ScaleAssumption
<1>2. h \in Nat /\ Halved(x, h)
  BY <1>1, HalvingsExist
<1>3. ln_scaled(x) = LnSeries(y) + h * LN2_SCALED
  BY <1>1 DEF ln_scaled
<1>4. y \in 0 .. S - 1 /\ (h = 0 => y = e)
  <2> HIDE DEF h
  <2>1. x \div 2^h - S \in 0 .. S - 1 /\ (h = 0 => x \div 2^h = x)
    BY <1>1, <1>2, HalvedRange
  <2>2. QED
    BY <1>1, <2>1
<1> HIDE DEF y
<1>5. LnSeries(y) \in Nat /\ (y # 0 => LnSeries(y) >= 1) /\ (y = 0 => LnSeries(y) = 0)
  <2>1. CASE y = 0
    BY <2>1, LnSeriesOfZero
  <2>2. CASE y \in 1 .. S - 1
    BY <2>2, LnSeriesPositive
  <2>3. QED
    BY <1>1, <1>4, <2>1, <2>2
<1>6. LnSeries(y) <= LN2_SCALED
  BY <1>4, SeriesAssumption DEF S
<1>7. ln_scaled(x) \in Nat \ {0}
  <2>1. CASE h = 0
    <3>1. h * LN2_SCALED = 0 /\ y # 0
      BY <1>1, <1>4, <2>1
    <3>2. QED
      BY <1>3, <1>5, <3>1
  <2>2. CASE h # 0
    <3>1. h * LN2_SCALED \in Nat \ {0}
      BY <1>1, <1>2, <2>2
    <3>2. QED
      BY <1>3, <1>5, <3>1
  <2>3. QED
    BY <2>1, <2>2
<1>8. ASSUME e <= S PROVE (e # S => h = 0) /\ (e = S => h = 1 /\ y = 0)
  <2>1. ASSUME NEW k \in Nat
        PROVE  /\ x \div 2^k \in Nat /\ x \div 2^k <= x
               /\ k # 0 => x \div 2^k <= S
    <3> DEFINE d == 2^k
               q == x \div d
    <3>1. d \in Nat \ {0}
      BY PowerPositive
    <3>2. k # 0 => d >= 2
      <4>1. ASSUME k # 0 PROVE d >= 2
        <5>1. k - 1 \in Nat /\ (k - 1) + 1 = k
          BY <4>1
        <5>2. 2^(k - 1) \in Nat \ {0} /\ 2^((k - 1) + 1) = 2 * 2^(k - 1)
          BY <5>1, PowerPositive, PowerDoubles
        <5>3. QED
          BY <5>1, <5>2
      <4>2. QED
        BY <4>1
    <3> HIDE DEF d
    <3>3. q \in Nat /\ d * q <= x
      BY <1>1, <3>1
    <3> HIDE DEF q
    <3>4. q <= x
      <4>1. 1 * q <= d * q
        BY <3>1, <3>3
      <4>2. d * q \in Int
        BY <3>1, <3>3
      <4>3. QED
        BY <1>1, <3>3, <4>1, <4>2
    <3>5. ASSUME k # 0 PROVE q <= S
      <4>1. 2 * q <= d * q
        BY <3>1, <3>2, <3>3, <3>5
      <4>2. d * q \in Int /\ x <= 2 * S
        BY <1>1, <1>8, <3>1, <3>3
      <4>3. QED
        BY <1>1, <3>3, <4>1, <4>2
    <3>6. QED
      BY <3>3, <3>4, <3>5 DEF d, q
  <2>2. h # 0 => x \div 2^(h - 1) >= 2 * S
    BY <1>2 DEF Halved
  <2>3. x \div 2^h < 2 * S
    BY <1>2 DEF Halved
  <2> HIDE DEF h
  <2>4. ASSUME e # S PROVE h = 0
    <3>1. ASSUME h # 0 PROVE FALSE
      <4>1. h - 1 \in Nat
        BY <1>2, <3>1
      <4>2. x \div 2^(h - 1) \in Nat /\ x \div 2^(h - 1) <= x /\ x < 2 * S
        BY <1>1, <1>8, <2>1, <2>4, <4>1
      <4>3. QED
        BY <1>1, <2>2, <3>1, <4>2
    <3>2. QED
      BY <3>1
  <2>5. ASSUME e = S PROVE h = 1 /\ y = 0
    <3>1. h # 0
      <4>1. ASSUME h = 0 PROVE FALSE
        <5>1. x \div 2^0 = x
          BY <1>1
        <5>2. QED
          BY <1>1, <2>3, <2>5, <4>1, <5>1
      <4>2. QED
        BY <4>1
    <3>2. h = 1
      <4>1. ASSUME h - 1 # 0 PROVE FALSE
        <5>1. h - 1 \in Nat
          BY <1>2, <3>1
        <5>2. x \div 2^(h - 1) \in Nat /\ x \div 2^(h - 1) <= S
          BY <2>1, <4>1, <5>1
        <5>3. QED
          BY <1>1, <2>2, <3>1, <5>2
      <4>2. QED
        BY <1>2, <4>1
    <3>3. x \div 2^h \in Nat /\ x \div 2^h <= S
      BY <1>2, <2>1, <3>1
    <3>4. QED
      BY <1>1, <1>4, <3>2, <3>3 DEF y
  <2>6. QED
    BY <2>4, <2>5
<1>9. ASSUME e <= S
      PROVE  ln_scaled(x) <= LN2_SCALED /\ (e = S => ln_scaled(x) = LN2_SCALED)
  <2> HIDE DEF h
  <2>1. CASE e # S
    <3>1. h * LN2_SCALED = 0
      BY <1>1, <1>8, <1>9, <2>1
    <3>2. QED
      BY <1>1, <1>3, <1>5, <1>6, <2>1, <3>1
  <2>2. CASE e = S
    <3>1. h * LN2_SCALED = LN2_SCALED /\ LnSeries(y) = 0
      BY <1>1, <1>5, <1>8, <1>9, <2>2
    <3>2. QED
      BY <1>1, <1>3, <3>1
  <2>3. QED
    BY <2>1, <2>2
<1>10. QED
  BY <1>1, <1>7, <1>9
-----------------------------------------------------------------------------
(***************************************************************************)
(* cost. What exp_scaled is applied to in it, and the logarithm it adds.   *)
(***************************************************************************)
ExpOfDiff(q, m, liq) ==
    exp_scaled(min(OverB(q, liq), OverB(m, liq)) - max(OverB(q, liq), OverB(m, liq)))

LEMMA CostFacts ==
    ASSUME NEW q \in Nat, NEW m \in Nat, NEW liq \in Nat \ {0}, ExpOfDiff(q, m, liq) # 0
    PROVE  /\ cost(q, m, liq) \in Nat
           /\ q <= cost(q, m, liq) /\ m <= cost(q, m, liq)
           /\ initial_liquidity(liq) \in Nat
           /\ ExpOfDiff(q, m, liq) <= SCALE_FACTOR =>
                 cost(q, m, liq) <= max(q, m) + initial_liquidity(liq)
<1> DEFINE S == SCALE_FACTOR
           e == ExpOfDiff(q, m, liq)
           hi == max(q, m)
           H == max(OverB(q, liq), OverB(m, liq))
           L == min(OverB(q, liq), OverB(m, liq))
           ln == ln_scaled(S + e)
           a == liq * (H + ln)
           c == TruncDiv(a, S)
           z == liq * LN2_SCALED
           i == TruncDiv(z, S)
<1>1. /\ S \in Nat \ {0} /\ LN2_SCALED \in Nat /\ z \in Nat
      /\ hi \in Nat /\ q <= hi /\ m <= hi
  BY ScaleAssumption DEF max
<1>2. H \in Nat /\ L - H \in Int /\ L - H <= 0 /\ H = OverB(hi, liq)
  <2>1. CASE m <= q
    <3>1. /\ OverB(q, liq) \in Nat /\ OverB(m, liq) \in Nat
          /\ OverB(m, liq) <= OverB(q, liq)
      BY <2>1, OverBFacts
    <3>2. QED
      BY <2>1, <3>1 DEF max, min
  <2>2. CASE q <= m
    <3>1. /\ OverB(q, liq) \in Nat /\ OverB(m, liq) \in Nat
          /\ OverB(q, liq) <= OverB(m, liq)
      BY <2>2, OverBFacts
    <3>2. QED
      BY <2>2, <3>1 DEF max, min
  <2>3. QED
    BY <2>1, <2>2
<1>3. cost(q, m, liq) = c /\ initial_liquidity(liq) = i /\ e = exp_scaled(L - H)
  BY DEF cost, initial_liquidity, ExpOfDiff
<1>4. /\ ln \in Nat \ {0}
      /\ e <= S => ln <= LN2_SCALED
      /\ e \in Nat
  <2> HIDE DEF L, H
  <2>1. e \in Nat \ {0} /\ (S + e) \div 2^MaxShift < 2 * S
    BY <1>2, <1>3, ExpOfDiffFits
  <2> HIDE DEF e
  <2>2. QED
    BY <2>1, LnRange
<1>5. hi * S \in Nat /\ liq * H <= hi * S /\ hi * S < liq * H + liq
  <2>1. hi * S \in Nat
    BY <1>1
  <2> HIDE DEF hi, H
  <2>2. QED
    BY <1>2, <2>1, TruncNat DEF OverB
<1> HIDE DEF H, L, ln, e, hi
<1>6. a \in Nat /\ a = liq * H + liq * ln /\ liq * H \in Nat /\ liq * ln \in Nat
  BY <1>2, <1>4
<1>7. liq <= liq * ln
  BY <1>4
<1> HIDE DEF a, z, S
<1>8. c \in Nat /\ S * c <= a /\ i \in Nat
  BY <1>1, <1>6, TruncNat
<1>9. hi <= c
  <2>1. S * hi = hi * S
    BY <1>1
  <2>2. S * hi <= a
    BY <1>5, <1>6, <1>7, <2>1
  <2>3. QED
    BY <1>1, <1>6, <2>2, TruncGreatest
<1>10. ASSUME e <= S PROVE c <= hi + i
  <2>1. liq * ln <= z
    BY <1>1, <1>4, <1>10 DEF z
  <2> HIDE DEF c
  <2>2. S * (c - hi) = S * c - hi * S /\ S * c \in Int /\ c - hi \in Int
    BY <1>1, <1>8
  <2>3. S * (c - hi) <= z
    BY <1>1, <1>5, <1>6, <1>8, <2>1, <2>2
  <2>4. c - hi <= i
    BY <1>1, <2>2, <2>3, TruncGreatest
  <2>5. QED
    BY <1>1, <1>8, <2>4
<1>11. q <= c /\ m <= c
  BY <1>1, <1>8, <1>9
<1>12. QED
  BY <1>3, <1>8, <1>10, <1>11 DEF hi, S, e

\* An untraded market costs exactly what initialize asks for.
LEMMA CostOfNothing ==
    ASSUME NEW liq \in Nat \ {0}
    PROVE  cost(0, 0, liq) = initial_liquidity(liq)
<1>1. OverB(0, liq) = 0
  <2>1. 0 * SCALE_FACTOR = 0
    BY ScaleAssumption
  <2>2. QED
    BY <2>1 DEF OverB, TruncDiv
<1>2. max(0, 0) = 0 /\ min(0, 0) = 0 /\ 0 - 0 = 0
  BY DEF max, min
<1>3. cost(0, 0, liq)
        = TruncDiv(liq * (0 + ln_scaled(SCALE_FACTOR + SCALE_FACTOR)), SCALE_FACTOR)
  BY <1>1, <1>2, ExpOfZero DEF cost
<1>4. ln_scaled(SCALE_FACTOR + SCALE_FACTOR) = LN2_SCALED
  <2>1. (SCALE_FACTOR + exp_scaled(0)) \div 2^MaxShift < 2 * SCALE_FACTOR
    BY ExpOfDiffFits
  <2>2. QED
    BY <2>1, ExpOfZero, LnRange, ScaleAssumption
<1>5. 0 + LN2_SCALED = LN2_SCALED
  BY ScaleAssumption
<1>6. QED
  BY <1>3, <1>4, <1>5 DEF initial_liquidity

\* Two quantities that differ by at most b are at most 1.0 apart.
LEMMA SmallDiff ==
    ASSUME NEW q \in Nat, NEW m \in Nat, NEW liq \in Nat \ {0},
           q <= m + liq, m <= q + liq, SCALE_FACTOR >= 2
    PROVE  ExpOfDiff(q, m, liq) \in 1 .. SCALE_FACTOR
<1> DEFINE S == SCALE_FACTOR
<1>1. S \in Nat \ {0}
  BY ScaleAssumption
<1>2. ASSUME NEW j \in Nat, NEW k \in Nat, k <= j + liq
      PROVE  /\ OverB(j, liq) \in Nat /\ OverB(k, liq) \in Nat
             /\ OverB(k, liq) <= OverB(j, liq) + S
  <2> DEFINE u == TruncDiv(j * S, liq)
             v == TruncDiv(k * S, liq)
  <2>1. j * S \in Nat /\ k * S \in Nat
    BY <1>1
  <2>2. u \in Nat /\ v \in Nat /\ liq * v <= k * S
    BY <2>1, TruncNat
  <2> HIDE DEF v
  <2>3. k * S <= (j + liq) * S
    BY <1>1, <1>2
  <2>4. (j + liq) * S = j * S + liq * S /\ liq * (v - S) = liq * v - liq * S
    BY <1>1, <2>2
  <2>5. liq * S \in Int /\ liq * v \in Int /\ v - S \in Int
    BY <1>1, <2>2
  <2>6. liq * (v - S) <= j * S
    BY <2>1, <2>2, <2>3, <2>4, <2>5
  <2>7. v - S <= u
    BY <2>1, <2>5, <2>6, TruncGreatest
  <2>8. QED
    BY <1>1, <2>2, <2>7 DEF OverB, v
<1>3. /\ OverB(q, liq) \in Nat /\ OverB(m, liq) \in Nat
      /\ OverB(q, liq) <= OverB(m, liq) + S
      /\ OverB(m, liq) <= OverB(q, liq) + S
  BY <1>2
<1>4. min(OverB(q, liq), OverB(m, liq)) - max(OverB(q, liq), OverB(m, liq)) \in -S .. 0
  BY <1>1, <1>3 DEF min, max
<1>5. QED
  BY <1>4, ExpOfSmallDiff DEF ExpOfDiff
-----------------------------------------------------------------------------
(***************************************************************************)
(* What LmsrMarket assumes of its cost function holds of the contract's    *)
(* own, for every scale, every b and all quantities: the untraded market   *)
(* costs the subsidy and the cost covers the payouts of either outcome,    *)
(* in spite of three truncations. The one condition is on exp_scaled: that *)
(* it does not vanish at the difference of the quantities. Where these     *)
(* differ by at most b it never does.                                      *)
(***************************************************************************)
THEOREM CostCoversPayouts ==
    ASSUME NEW liq \in Nat \ {0}
    PROVE  /\ initial_liquidity(liq) \in Nat
           /\ cost(0, 0, liq) = initial_liquidity(liq)
           /\ \A q, m \in Nat :
                 \/ ExpOfDiff(q, m, liq) # 0
                 \/ SCALE_FACTOR >= 2 /\ q <= m + liq /\ m <= q + liq
                 => /\ cost(q, m, liq) \in Int
                    /\ cost(q, m, liq) >= q
                    /\ cost(q, m, liq) >= m
<1>1. initial_liquidity(liq) \in Nat
  <2>1. liq * LN2_SCALED \in Nat /\ SCALE_FACTOR \in Nat \ {0}
    BY ScaleAssumption
  <2>2. QED
    BY <2>1, TruncNat DEF initial_liquidity
<1>2. cost(0, 0, liq) = initial_liquidity(liq)
  BY CostOfNothing
<1>3. ASSUME NEW q \in Nat, NEW m \in Nat,
             \/ ExpOfDiff(q, m, liq) # 0
             \/ SCALE_FACTOR >= 2 /\ q <= m + liq /\ m <= q + liq
      PROVE  cost(q, m, liq) \in Int /\ cost(q, m, liq) >= q /\ cost(q, m, liq) >= m
  <2>1. ExpOfDiff(q, m, liq) # 0
    BY <1>3, SmallDiff
  <2>2. cost(q, m, liq) \in Nat /\ q <= cost(q, m, liq) /\ m <= cost(q, m, liq)
    BY <2>1, CostFacts
  <2>3. QED
    BY <2>2
<1>4. QED
  BY <1>1, <1>2, <1>3

LEMMA BracketAt ==
    WInv /\ ExpOfDiff(q_yes, q_no, b) \in 1 .. SCALE_FACTOR => CostBracket
<1> SUFFICES ASSUME WInv, ExpOfDiff(q_yes, q_no, b) \in 1 .. SCALE_FACTOR
             PROVE  CostBracket
  OBVIOUS
<1>1. q_yes \in Nat /\ q_no \in Nat /\ b \in Nat \ {0}
  BY WalkAssumption DEF WInv
<1>2. ExpOfDiff(q_yes, q_no, b) # 0 /\ ExpOfDiff(q_yes, q_no, b) <= SCALE_FACTOR
  BY ScaleAssumption
<1>3. /\ q_yes <= cost(q_yes, q_no, b) /\ q_no <= cost(q_yes, q_no, b)
      /\ cost(q_yes, q_no, b) <= max(q_yes, q_no) + initial_liquidity(b)
  BY <1>1, <1>2, CostFacts
<1>4. max(q_yes, q_no) <= cost(q_yes, q_no, b)
  BY <1>3 DEF max
<1>5. cost(0, 0, b) = initial_liquidity(b)
  BY <1>1, CostOfNothing
<1>6. QED
  BY <1>3, <1>4, <1>5 DEF CostBracket

(***************************************************************************)
(* The cost leaves its bracket only where the series for e^x has: at every *)
(* pair of quantities at which exp_scaled of their difference is positive  *)
(* and at most 1.0 the cost is between the larger quantity and that plus   *)
(* the subsidy, for every b and scale. The condition fails where the       *)
(* quantities differ by more than about 8.8 b.                             *)
(***************************************************************************)
THEOREM CostBracketed ==
    Spec => [](ExpOfDiff(q_yes, q_no, b) > 0 /\ ExpOfDiffAtMostOne => CostBracket)
<1>1. WInv => (ExpOfDiff(q_yes, q_no, b) > 0 /\ ExpOfDiffAtMostOne => CostBracket)
  <2> SUFFICES ASSUME WInv, ExpOfDiff(q_yes, q_no, b) > 0, ExpOfDiffAtMostOne
               PROVE  CostBracket
    OBVIOUS
  <2>1. ExpOfDiff(q_yes, q_no, b) <= SCALE_FACTOR
    BY DEF ExpOfDiffAtMostOne, ExpOfDiff
  <2>2. ExpOfDiff(q_yes, q_no, b) \in Nat
    <3> DEFINE x == min(OverB(q_yes, b), OverB(q_no, b)) - max(OverB(q_yes, b), OverB(q_no, b))
    <3>1. q_yes \in Nat /\ q_no \in Nat /\ b \in Nat \ {0}
      BY WalkAssumption DEF WInv
    <3>2. OverB(q_yes, b) \in Nat /\ OverB(q_no, b) \in Nat
      BY <3>1, OverBFacts
    <3>3. x \in Int /\ x <= 0
      BY <3>2 DEF min, max
    <3>4. QED
      BY <3>3, ExpOfDiffFits DEF ExpOfDiff
  <2>3. QED
    BY <2>1, <2>2, BracketAt, ScaleAssumption
<1>2. QED
  BY <1>1, WalkInductive, PTL

(***************************************************************************)
(* In a market whose quantities do not exceed b (prices between 27 and 73  *)
(* per cent) the bracket holds unconditionally, for every b and every      *)
(* scale of at least two units.                                            *)
(***************************************************************************)
THEOREM BalancedCostBracketed ==
    MaxSkew <= 1 /\ SCALE_FACTOR >= 2 => (Spec => []CostBracket)
<1> SUFFICES ASSUME MaxSkew <= 1, SCALE_FACTOR >= 2 PROVE Spec => []CostBracket
  OBVIOUS
<1>1. WInv => CostBracket
  <2> SUFFICES ASSUME WInv PROVE CostBracket
    OBVIOUS
  <2>1. q_yes \in Nat /\ q_no \in Nat /\ b \in Nat \ {0}
    BY WalkAssumption DEF WInv
  <2>2. MaxSkew * b <= b
    BY <2>1, WalkAssumption
  <2>3. q_yes <= b /\ q_no <= b
    BY <2>1, <2>2, WalkAssumption DEF WInv
  <2>4. q_yes <= q_no + b /\ q_no <= q_yes + b
    BY <2>1, <2>3
  <2>5. ExpOfDiff(q_yes, q_no, b) \in 1 .. SCALE_FACTOR
    BY <2>1, <2>4, SmallDiff
  <2>6. QED
    BY <2>5, BracketAt
<1>2. QED
  BY <1>1, WalkInductive, PTL
=============================================================================
