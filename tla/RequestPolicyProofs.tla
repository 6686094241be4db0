------------------------- MODULE RequestPolicyProofs -------------------------
(***************************************************************************)
(* What a client gets through the budgets of its tier, and what the advice *)
(* in a refusal is worth, for any budgets, meters, token scale and timing  *)
(* of the requests.  A request's cost is a sum over the tier's meters, and *)
(* BookFacts has the facts about sums.                                     *)
(***************************************************************************)
EXTENDS RequestPolicy, BookFacts

-----------------------------------------------------------------------------
(* Integer division, as accrue, timeToAccrue and windowStart use it.       *)

\* Quotient and remainder.
LEMMA Division ==
    ASSUME NEW a \in Nat, NEW b \in Nat \ {0}
    PROVE  /\ a \div b \in Nat /\ a % b \in Nat /\ a % b < b
           /\ a = b * (a \div b) + (a % b)
  OBVIOUS

\* Products grow with their factors, and a common factor cancels.
LEMMA Products ==
    /\ \A x, y, z \in Nat : x <= y => x * z <= y * z
    /\ \A x, y \in Int, z \in Nat \ {0} : x * z <= y * z => x <= y
    /\ \A x, y \in Int, z \in Nat \ {0} : x * z < y * z => x < y
    /\ \A x, y \in Nat : x * y \in Nat
  <1>1. \A x, y, z \in Nat : x <= y => x * z <= y * z
    OBVIOUS
  <1>2. \A x, y \in Int, z \in Nat \ {0} : x * z <= y * z => x <= y
    OBVIOUS
  <1>3. \A x, y \in Int, z \in Nat \ {0} : x * z < y * z => x < y
    OBVIOUS
  <1>4. \A x, y \in Nat : x * y \in Nat
    OBVIOUS
  <1> QED
    BY <1>1, <1>2, <1>3, <1>4

\* The start of the window a time lies in: less than an interval ago, never
\* earlier for a later time, and one interval on when the time is.
LEMMA WindowSteps ==
    ASSUME NEW n \in Nat \ {0}, NEW a \in Nat, NEW b \in Nat, a <= b
    PROVE  /\ a - (a % n) \in Nat /\ a < a - (a % n) + n
           /\ a - (a % n) <= b - (b % n)
           /\ b >= a - (a % n) + n => b - (b % n) >= a - (a % n) + n
  <1> DEFINE p == a \div n
             q == b \div n
             r == a % n
             s == b % n
  <1>1. /\ p \in Nat /\ q \in Nat /\ r \in Nat /\ s \in Nat /\ r < n /\ s < n
        /\ a = n * p + r /\ b = n * q + s
    BY Division
  <1> HIDE DEF p, q, r, s
  <1>2. n * p \in Nat /\ n * q \in Nat /\ a - r = n * p /\ b - s = n * q
    BY <1>1
  <1>3. p <= q
    <2> SUFFICES ASSUME q + 1 <= p PROVE FALSE
      BY <1>1
    <2>1. n * (q + 1) <= n * p
      BY <1>1
    <2> QED
      BY <1>1, <1>2, <2>1
  <1>4. n * p <= n * q
    BY <1>1, <1>3
  <1>6. a < a - r + n
    BY <1>1
  <1>5. ASSUME b >= n * p + n PROVE n * q >= n * p + n
    <2>1. p + 1 <= q
      <3> SUFFICES ASSUME q <= p PROVE FALSE
        BY <1>1
      <3>1. n * q <= n * p
        BY <1>1
      <3> QED
        BY <1>1, <1>2, <1>5, <3>1
    <2>2. n * (p + 1) <= n * q
      BY <1>1, <2>1
    <2> QED
      BY <1>1, <1>2, <2>2
  <1> QED
    BY <1>2, <1>4, <1>5, <1>6 DEF r, s

\* What accrue counts over a span is what the span earns, rounded down once.
LEMMA GainExact ==
    ASSUME NEW n \in Nat \ {0}, NEW per \in Nat, NEW e \in Nat
    PROVE  LET g == (e \div n) * per + ((e % n) * per) \div n
           IN  g \in Nat /\ g * n <= e * per /\ e * per < (g + 1) * n
  <1> DEFINE q == e \div n
             r == e % n
             m == r * per
             p == m \div n
             t == m % n
             g == q * per + p
  <1>1. q \in Nat /\ r \in Nat /\ r < n /\ e = n * q + r
    BY Division
  <1> HIDE DEF q, r
  <1>2. m \in Nat
    BY <1>1
  <1> HIDE DEF m
  <1>3. p \in Nat /\ t \in Nat /\ t < n /\ m = n * p + t
    BY <1>2, Division
  <1> HIDE DEF p, t
  <1>4. e * per = n * (q * per) + m
    BY <1>1 DEF m
  <1>5. q * per \in Nat
    BY <1>1
  <1>6. g \in Nat /\ g * n = n * (q * per) + n * p
    BY <1>3, <1>5
  <1>7. (g + 1) * n = g * n + n /\ g * n \in Nat /\ e * per \in Int /\ n * p \in Nat
        /\ n * (q * per) \in Nat
    BY <1>1, <1>3, <1>5, <1>6
  <1>8. g * n <= e * per /\ e * per < (g + 1) * n
    BY <1>3, <1>4, <1>6, <1>7
  <1> QED
    BY <1>6, <1>8 DEF g, p, m, q, r

\* The wait timeToAccrue names is long enough to earn the shortfall.
LEMMA WaitEnough ==
    ASSUME NEW n \in Nat \ {0}, NEW den \in Nat \ {0}, NEW short \in Nat
    PROVE  LET w == (short \div den) * n + ((short % den) * n + den - 1) \div den
           IN  w \in Nat /\ short * n <= w * den
  <1> DEFINE q == short \div den
             r == short % den
             x == r * n + den - 1
             c == x \div den
             w == q * n + c
  <1>1. q \in Nat /\ r \in Nat /\ short = den * q + r
    BY Division
  <1> HIDE DEF q, r
  <1>2. r * n \in Nat /\ x \in Nat
    BY <1>1
  <1>3. x = r * n + den - 1
    OBVIOUS
  <1> HIDE DEF x
  <1>4. c \in Nat /\ x <= den * c + (den - 1)
    BY <1>2, Division
  <1> HIDE DEF c
  <1>5. r * n <= den * c
    BY <1>2, <1>3, <1>4
  <1>6. q * n \in Nat /\ w \in Nat
    BY <1>1, <1>4
  <1>7. w * den = den * (q * n) + den * c
    BY <1>4, <1>6
  <1>8. short * n = den * (q * n) + r * n
    BY <1>1
  <1>9. den * (q * n) \in Nat /\ den * c \in Nat
    BY <1>4, <1>6
  <1>10. short * n <= w * den
    BY <1>2, <1>5, <1>7, <1>8, <1>9
  <1> QED
    BY <1>6, <1>10 DEF w, c, x, q, r

-----------------------------------------------------------------------------
(* One limiter.                                                            *)

Limiter == [form : {"window", "bucket"}, budget : Nat, refill : Nat, interval : Int]

BudgetState == [seen : BOOLEAN, level : Nat, at : Int]

\* The state a limiter keeps for a scope: a window's usage is within its budget
\* and a bucket's tokens within its capacity, and neither is ahead of the clock.
Sound(l, s, t) ==
    /\ s \in BudgetState
    /\ IF l.form = "window"
       THEN s.level <= l.budget /\ (s.seen => s.at <= WindowStart(l, t))
       ELSE s.level <= l.budget * TokenScale /\ (s.seen => s.at <= t)

\* The windows of a limiter.
LEMMA WindowFacts ==
    ASSUME NEW l \in Limiter, NEW a \in Nat, NEW b \in Nat, a <= b
    PROVE  /\ WindowStart(l, a) \in Nat
           /\ l.interval > 0 => a < WindowStart(l, a) + l.interval
           /\ WindowStart(l, a) <= WindowStart(l, b)
           /\ (l.interval > 0 /\ b >= WindowStart(l, a) + l.interval)
                => WindowStart(l, b) >= WindowStart(l, a) + l.interval
  <1>1. l.interval \in Int
    BY DEF Limiter
  <1>2. CASE l.interval <= 0
    BY <1>1, <1>2 DEF WindowStart
  <1>3. CASE ~(l.interval <= 0)
    <2> DEFINE n == l.interval
    <2>1. n \in Nat \ {0} /\ WindowStart(l, a) = a - (a % n) /\ WindowStart(l, b) = b - (b % n)
      BY <1>1, <1>3 DEF WindowStart
    <2> HIDE DEF n
    <2>2. /\ a - (a % n) \in Nat /\ a < a - (a % n) + n
          /\ a - (a % n) <= b - (b % n)
          /\ b >= a - (a % n) + n => b - (b % n) >= a - (a % n) + n
      BY <2>1, WindowSteps
    <2> QED
      BY <2>1, <2>2 DEF n
  <1> QED
    BY <1>2, <1>3

\* The numbers of a bucket that refills.
LEMMA BucketNumbers ==
    ASSUME NEW l \in Limiter
    PROVE  /\ l.budget * TokenScale \in Nat /\ l.refill * TokenScale \in Nat
           /\ l.budget \in Nat /\ l.refill \in Nat /\ TokenScale \in Nat \ {0}
           /\ Refillable(l) => l.interval \in Nat \ {0} /\ l.refill * TokenScale \in Nat \ {0}
  <1>1. l.interval \in Int /\ l.budget \in Nat /\ l.refill \in Nat /\ TokenScale \in Nat \ {0}
    BY LimitsAssumption DEF Limiter
  <1>2. ASSUME l.refill > 0 PROVE l.refill * TokenScale > 0
    BY <1>1, <1>2
  <1> QED
    BY <1>1, <1>2 DEF Refillable

\* g is what a span earns, rounded down, and accrue adds it up to capacity.
Gains(l, tokens, e, g) ==
    /\ g * l.interval <= e * (l.refill * TokenScale)
    /\ e * (l.refill * TokenScale) < (g + 1) * l.interval
    /\ Accrue(l, tokens, e) = IF g >= l.budget * TokenScale - tokens
                              THEN l.budget * TokenScale ELSE tokens + g

\* What accrue does to a bucket that refills: the exact gain, up to capacity.
LEMMA AccrueExact ==
    ASSUME NEW l \in Limiter, Refillable(l), NEW tokens \in Nat, tokens <= l.budget * TokenScale,
           NEW e \in Nat
    PROVE  \E g \in Nat : Gains(l, tokens, e, g)
  <1> DEFINE n == l.interval
             per == l.refill * TokenScale
             cap == l.budget * TokenScale
             g == (e \div n) * per + ((e % n) * per) \div n
  <1>1. n \in Nat \ {0} /\ per \in Nat /\ cap \in Nat
    BY BucketNumbers
  <1>2. Accrue(l, tokens, e) = IF e <= 0 THEN tokens ELSE IF g >= cap - tokens THEN cap ELSE tokens + g
    BY DEF Accrue
  <1>3. tokens <= cap
    OBVIOUS
  <1> HIDE DEF n, per, cap
  <1>4. g \in Nat /\ g * n <= e * per /\ e * per < (g + 1) * n
    BY <1>1, GainExact
  <1> HIDE DEF g
  <1>5. Accrue(l, tokens, e) = IF g >= cap - tokens THEN cap ELSE tokens + g
    <2>1. CASE e = 0
      <3>1. g * n <= 0 * n
        BY <1>1, <1>4, <2>1
      <3>2. g = 0
        BY <1>1, <1>4, <3>1, Products
      <3> QED
        BY <1>1, <1>2, <1>3, <2>1, <3>2
    <2>2. CASE e # 0
      BY <1>2, <2>2
    <2> QED
      BY <2>1, <2>2
  <1>6. Gains(l, tokens, e, g)
    BY <1>4, <1>5 DEF Gains, n, per, cap
  <1> QED
    BY <1>4, <1>6

\* A bucket never holds more than its capacity, nor more than it earned.
LEMMA AccrueBounded ==
    ASSUME NEW l \in Limiter, NEW tokens \in Nat, tokens <= l.budget * TokenScale, NEW e \in Nat
    PROVE  /\ Accrue(l, tokens, e) \in Nat /\ Accrue(l, tokens, e) <= l.budget * TokenScale
           /\ Refillable(l) => Accrue(l, tokens, e) * l.interval
                                 <= tokens * l.interval + e * (l.refill * TokenScale)
           /\ ~Refillable(l) => Accrue(l, tokens, e) = tokens
  <1>1. CASE ~Refillable(l)
    BY <1>1 DEF Accrue
  <1>2. CASE Refillable(l)
    <2> DEFINE n == l.interval
               per == l.refill * TokenScale
               cap == l.budget * TokenScale
               a == Accrue(l, tokens, e)
    <2>1. n \in Nat \ {0} /\ per \in Nat /\ cap \in Nat /\ tokens <= cap
      BY <1>2, BucketNumbers
    <2>0. PICK g \in Nat : Gains(l, tokens, e, g)
      BY <1>2, AccrueExact
    <2>2. g * n <= e * per /\ a = IF g >= cap - tokens THEN cap ELSE tokens + g
      BY <2>0 DEF Gains
    <2> HIDE DEF n, per, cap, a
    <2>3. a \in Nat /\ a <= cap /\ a <= tokens + g
      BY <2>1, <2>2
    <2>4. a * n <= (tokens + g) * n
      BY <2>1, <2>3, Products
    <2>5. (tokens + g) * n = tokens * n + g * n
      BY <2>1
    <2>6. tokens * n \in Nat /\ g * n \in Nat /\ e * per \in Nat /\ a * n \in Nat
      BY <2>1, <2>3, Products
    <2>7. a * n <= tokens * n + e * per
      BY <2>2, <2>4, <2>5, <2>6
    <2> QED
      BY <1>2, <2>3, <2>7 DEF n, per, cap, a
  <1> QED
    BY <1>1, <1>2

\* Who waits as long as timeToAccrue says has earned the shortfall.
LEMMA AccrueWait ==
    ASSUME NEW l \in Limiter, Refillable(l), NEW tokens \in Nat, tokens <= l.budget * TokenScale,
           NEW e \in Nat, NEW want \in Nat, want <= l.budget * TokenScale,
           Accrue(l, tokens, e) < want
    PROVE  /\ TimeToAccrue(l, want - Accrue(l, tokens, e)) \in Nat
           /\ \A f \in Nat : f >= e + TimeToAccrue(l, want - Accrue(l, tokens, e))
                               => Accrue(l, tokens, f) >= want
  <1> DEFINE n == l.interval
             per == l.refill * TokenScale
             cap == l.budget * TokenScale
             a == Accrue(l, tokens, e)
             short == want - a
             w == TimeToAccrue(l, short)
  <1>1. n \in Nat \ {0} /\ per \in Nat \ {0} /\ cap \in Nat /\ tokens <= cap /\ want <= cap
    BY BucketNumbers
  <1>2. a < want
    OBVIOUS
  <1>0. PICK g \in Nat : Gains(l, tokens, e, g)
    BY AccrueExact
  <1>3. g * n <= e * per /\ a = IF g >= cap - tokens THEN cap ELSE tokens + g
    BY <1>0 DEF Gains
  <1>4. w = (short \div per) * n + ((short % per) * n + per - 1) \div per
    BY DEF TimeToAccrue
  <1> SUFFICES w \in Nat /\ \A f \in Nat : f >= e + w => Accrue(l, tokens, f) >= want
    OBVIOUS
  <1> HIDE DEF n, per, cap, a
  <1>5. a = tokens + g /\ short \in Nat
    BY <1>1, <1>2, <1>3
  <1> HIDE DEF short
  <1>6. w \in Nat /\ short * n <= w * per
    BY <1>1, <1>4, <1>5, WaitEnough
  <1> HIDE DEF w
  <1>7. ASSUME NEW f \in Nat, f >= e + w
        PROVE  Accrue(l, tokens, f) >= want
    <2>0. PICK h \in Nat : Gains(l, tokens, f, h)
      BY AccrueExact
    <2>1. f * per < (h + 1) * n /\ Accrue(l, tokens, f) = IF h >= cap - tokens THEN cap ELSE tokens + h
      BY <2>0 DEF Gains, n, per, cap
    <2>2. (e + w) * per <= f * per
      BY <1>1, <1>6, <1>7, Products
    <2>3. (e + w) * per = e * per + w * per /\ (g + short) * n = g * n + short * n
      BY <1>1, <1>5, <1>6
    <2>4. /\ e * per \in Nat /\ w * per \in Nat /\ g * n \in Nat /\ short * n \in Nat
          /\ f * per \in Nat /\ (h + 1) * n \in Nat
      BY <1>1, <1>5, <1>6, Products
    <2>5. (g + short) * n < (h + 1) * n
      BY <1>3, <1>6, <2>1, <2>2, <2>3, <2>4
    <2>6. g + short < h + 1
      BY <1>1, <1>5, <2>5, Products
    <2>7. want = tokens + g + short
      BY <1>5 DEF short
    <2> QED
      BY <1>1, <1>5, <2>1, <2>6, <2>7
  <1> QED
    BY <1>6, <1>7

-----------------------------------------------------------------------------
(* What one charge does to one limiter.                                    *)

\* A bucket of which `spent' was taken since `from' has earned what it gave.
Earned(l, s, from, spent) ==
    IF Refillable(l)
    THEN (spent * TokenScale + s.level) * l.interval
           <= (l.budget * TokenScale) * l.interval + (s.at - from) * (l.refill * TokenScale)
    ELSE spent * TokenScale + s.level <= l.budget * TokenScale

\* What a limiter's state remembers of `spent', taken since `from'.
Within(l, s, from, spent) ==
    spent > 0 =>
      /\ s.seen
      /\ IF l.form = "window"
         THEN WindowStart(l, from) <= s.at /\ (WindowStart(l, from) = s.at => spent <= s.level)
         ELSE from <= s.at /\ Earned(l, s, from, spent)

\* No cost up to this one is refused from this time on.
Honest(l, s, at, cost) ==
    \A t \in Nat, c \in Int : (t >= at /\ c <= cost) => Would(l, s, c, t).allowed

\* What a bucket that was used before has at a time.
Tokens(l, s, t) == Accrue(l, s.level, t - s.at)

\* A bucket that was used before holds what accrued.
LEMMA SeenBucket ==
    ASSUME NEW l \in Limiter, l.form # "window", NEW t \in Nat, NEW s, Sound(l, s, t), s.seen
    PROVE  /\ Filled(l, s, t) \in BudgetState
           /\ Filled(l, s, t).seen = TRUE /\ Filled(l, s, t).at = t
           /\ Filled(l, s, t).level <= l.budget * TokenScale
           /\ Filled(l, s, t).level = Tokens(l, s, t)
           /\ Filled(l, s, t).level \in Nat
  <1>1. s \in BudgetState /\ s.level <= l.budget * TokenScale /\ s.at <= t
    BY DEF Sound
  <1>2. CASE t <= s.at
    <2>1. s.at = t /\ Filled(l, s, t) = s /\ s.seen = TRUE
      BY <1>1, <1>2 DEF Filled, BudgetState
    <2>2. Accrue(l, s.level, t - s.at) = s.level
      BY <2>1 DEF Accrue
    <2> QED
      BY <1>1, <2>1, <2>2 DEF BudgetState, Tokens
  <1>3. CASE ~(t <= s.at)
    <2> DEFINE a == Accrue(l, s.level, t - s.at)
    <2>1. s.level \in Nat /\ t - s.at \in Nat
      BY <1>1, <1>3 DEF BudgetState
    <2>2. a \in Nat /\ a <= l.budget * TokenScale
      BY <1>1, <2>1, AccrueBounded
    <2>3. Filled(l, s, t) = [seen |-> TRUE, level |-> a, at |-> t]
      BY <1>3 DEF Filled
    <2> HIDE DEF a
    <2> QED
      BY <2>2, <2>3 DEF BudgetState, Tokens, a
  <1> QED
    BY <1>2, <1>3

\* The tokens of a bucket at a time: never more than its capacity.
LEMMA FilledFacts ==
    ASSUME NEW l \in Limiter, l.form # "window", NEW t \in Nat, NEW s, Sound(l, s, t)
    PROVE  /\ Filled(l, s, t) \in BudgetState
           /\ Filled(l, s, t).seen = TRUE /\ Filled(l, s, t).at = t
           /\ Filled(l, s, t).level <= l.budget * TokenScale
  <1>1. l.budget * TokenScale \in Nat
    BY BucketNumbers
  <1>2. CASE ~s.seen
    BY <1>1, <1>2 DEF Filled, BudgetState
  <1>3. CASE s.seen
    BY <1>3, SeenBucket
  <1> QED
    BY <1>2, <1>3

\* The usage of a window at a time: of the window the time lies in.
LEMMA RolledFacts ==
    ASSUME NEW l \in Limiter, l.form = "window", NEW t \in Nat, NEW s, Sound(l, s, t)
    PROVE  /\ Rolled(l, s, t) \in BudgetState
           /\ Rolled(l, s, t).seen = TRUE /\ Rolled(l, s, t).at = WindowStart(l, t)
           /\ Rolled(l, s, t).level <= l.budget
           /\ s.seen => /\ s.at <= WindowStart(l, t)
                        /\ s.at = WindowStart(l, t) => Rolled(l, s, t).level = s.level
  <1>1. s \in BudgetState /\ s.level <= l.budget /\ (s.seen => s.at <= WindowStart(l, t))
    BY DEF Sound
  <1>2. WindowStart(l, t) \in Nat /\ l.budget \in Nat
    BY WindowFacts DEF Limiter
  <1>3. CASE s.seen /\ WindowStart(l, t) <= s.at
    <2>1. s.at = WindowStart(l, t) /\ Rolled(l, s, t) = s
      BY <1>1, <1>2, <1>3 DEF Rolled, BudgetState
    <2> QED
      BY <1>1, <1>3, <2>1 DEF BudgetState
  <1>4. CASE ~(s.seen /\ WindowStart(l, t) <= s.at)
    <2>1. Rolled(l, s, t) = [seen |-> TRUE, level |-> 0, at |-> WindowStart(l, t)]
      BY <1>4 DEF Rolled
    <2> QED
      BY <1>1, <1>2, <1>4, <2>1 DEF BudgetState
  <1> QED
    BY <1>3, <1>4

\* A window charges a cost that it lets through in full.
LEMMA WindowCharge ==
    ASSUME NEW l \in Limiter, l.form = "window", NEW t \in Nat, NEW s, Sound(l, s, t),
           NEW c \in Int, c > 0, Would(l, s, c, t).allowed
    PROVE  /\ Charged(l, s, c, t) \in BudgetState
           /\ Charged(l, s, c, t).seen = TRUE /\ Charged(l, s, c, t).at = WindowStart(l, t)
           /\ Charged(l, s, c, t).level = Rolled(l, s, t).level + c
           /\ Charged(l, s, c, t).level <= l.budget
  <1> DEFINE r == Rolled(l, s, t)
  <1>1. r \in BudgetState /\ r.seen = TRUE /\ r.at = WindowStart(l, t)
    BY RolledFacts
  <1>2. c <= l.budget
    BY DEF Would, Impossible, Limiter
  <1>3. r.level + c <= l.budget
    BY <1>2 DEF Would, WindowVerdict, Impossible, RetryAfter, Limiter
  <1>4. Charged(l, s, c, t) = [r EXCEPT !.level = r.level + c]
    BY <1>2 DEF Charged, Limiter
  <1> HIDE DEF r
  <1>5. [r EXCEPT !.level = r.level + c] \in BudgetState
    BY <1>1 DEF BudgetState
  <1> QED
    BY <1>1, <1>3, <1>4, <1>5 DEF BudgetState, r

\* So does a bucket.
LEMMA BucketCharge ==
    ASSUME NEW l \in Limiter, l.form # "window", NEW t \in Nat, NEW s, Sound(l, s, t),
           NEW c \in Int, c > 0, Would(l, s, c, t).allowed
    PROVE  /\ Charged(l, s, c, t) \in BudgetState
           /\ Charged(l, s, c, t).seen = TRUE /\ Charged(l, s, c, t).at = t
           /\ Charged(l, s, c, t).level = Filled(l, s, t).level - c * TokenScale
           /\ c * TokenScale \in Nat
  <1> DEFINE f == Filled(l, s, t)
             y == c * TokenScale
  <1>1. f \in BudgetState /\ f.seen = TRUE /\ f.at = t
    BY FilledFacts
  <1>2. c <= l.budget
    BY DEF Would, Impossible, Limiter
  <1>3. f.level >= y
    BY <1>2 DEF Would, BucketVerdict, Impossible, RetryAfter, Limiter
  <1>4. Charged(l, s, c, t) = [f EXCEPT !.level = f.level - y]
    BY <1>2 DEF Charged, Limiter
  <1>5. y \in Nat
    BY BucketNumbers, Products
  <1> HIDE DEF f, y
  <1>6. [f EXCEPT !.level = f.level - y] \in BudgetState
    BY <1>1, <1>3, <1>5 DEF BudgetState
  <1> QED
    BY <1>1, <1>4, <1>5, <1>6 DEF BudgetState, f, y

\* What a bucket earned before, and what it earns until the next charge.
LEMMA EarnedStep ==
    ASSUME NEW n \in Nat, NEW per \in Nat, NEW cap \in Nat, NEW x \in Nat, NEW v \in Nat,
           NEW a \in Nat, NEW e \in Nat, NEW h \in Nat,
           (x + v) * n <= cap * n + h * per, a * n <= v * n + e * per
    PROVE  (x + a) * n <= cap * n + (h + e) * per
  <1>1. (x + v) * n = x * n + v * n /\ (x + a) * n = x * n + a * n
        /\ (h + e) * per = h * per + e * per
    OBVIOUS
  <1>2. /\ x * n \in Nat /\ v * n \in Nat /\ a * n \in Nat /\ cap * n \in Nat
        /\ h * per \in Nat /\ e * per \in Nat
    BY Products
  <1> QED
    BY <1>1, <1>2

\* The token scale cancels out of what a bucket earned.
LEMMA ScaleCancels ==
    ASSUME NEW ts \in Nat \ {0}, NEW n \in Nat, NEW spent \in Nat, NEW v \in Nat,
           NEW budget \in Nat, NEW refill \in Nat, NEW h \in Nat, NEW e \in Nat, h <= e,
           (spent * ts + v) * n <= (budget * ts) * n + h * (refill * ts)
    PROVE  spent * n <= budget * n + refill * e
  <1> DEFINE a == spent * n
             b == budget * n
             g == refill * h
             k == refill * e
             w == v * n
  <1>1. a \in Nat /\ b \in Nat /\ g \in Nat /\ k \in Nat /\ w \in Nat
    BY Products
  <1>2. g <= k
    OBVIOUS
  <1>3. (spent * ts + v) * n = a * ts + w
    OBVIOUS
  <1>4. (budget * ts) * n = b * ts /\ h * (refill * ts) = g * ts
    OBVIOUS
  <1>5. a * ts + w <= b * ts + g * ts
    BY <1>3, <1>4
  <1> HIDE DEF a, b, g, k, w
  <1>6. g * ts <= k * ts
    BY <1>1, <1>2, Products
  <1>7. (b + k) * ts = b * ts + k * ts /\ a * ts \in Nat /\ b * ts \in Nat
        /\ g * ts \in Nat /\ k * ts \in Nat
    BY <1>1
  <1>8. a * ts <= (b + k) * ts
    BY <1>1, <1>5, <1>6, <1>7
  <1>9. a <= b + k
    BY <1>1, <1>8, Products
  <1> QED
    BY <1>9 DEF a, b, k

\* A charge leaves a limiter's state sound.
LEMMA ChargeSound ==
    ASSUME NEW l \in Limiter, NEW t \in Nat, NEW s, Sound(l, s, t),
           NEW c \in Int, Would(l, s, c, t).allowed
    PROVE  Sound(l, Charged(l, s, c, t), t)
  <1> DEFINE d == Charged(l, s, c, t)
  <1>1. CASE c <= 0
    BY <1>1 DEF Charged
  <1>2. CASE c > 0 /\ l.form = "window"
    <2>1. d \in BudgetState /\ d.at = WindowStart(l, t) /\ d.level <= l.budget
      BY <1>2, WindowCharge
    <2>2. WindowStart(l, t) \in Nat
      BY WindowFacts
    <2> HIDE DEF d
    <2>3. Sound(l, d, t)
      BY <1>2, <2>1, <2>2 DEF Sound
    <2> QED
      BY <2>3 DEF d
  <1>3. CASE c > 0 /\ l.form # "window"
    <2> DEFINE f == Filled(l, s, t)
               cap == l.budget * TokenScale
               y == c * TokenScale
    <2>1. d \in BudgetState /\ d.at = t /\ d.level = f.level - y /\ y \in Nat
      BY <1>3, BucketCharge
    <2>2. f \in BudgetState /\ f.level <= cap
      BY <1>3, FilledFacts
    <2>3. cap \in Nat
      BY BucketNumbers
    <2>4. d.level <= cap
      <3> HIDE DEF d, f, cap, y
      <3> QED
        BY <2>1, <2>2, <2>3 DEF BudgetState
    <2>5. d.at <= t
      BY <2>1
    <2> HIDE DEF d
    <2>6. Sound(l, d, t)
      BY <1>3, <2>1, <2>4, <2>5 DEF Sound
    <2> QED
      BY <2>6 DEF d
  <1> QED
    BY <1>1, <1>2, <1>3

\* What a charge takes.
Taken(c) == IF c > 0 THEN c ELSE 0

\* A charge is remembered, on top of whatever was taken since an earlier time.
LEMMA ChargeWithin ==
    ASSUME NEW l \in Limiter, NEW t \in Nat, NEW s, Sound(l, s, t),
           NEW c \in Int, Would(l, s, c, t).allowed,
           NEW from \in Nat, from <= t, NEW spent \in Nat, Within(l, s, from, spent)
    PROVE  Within(l, Charged(l, s, c, t), from, spent + Taken(c))
  <1> DEFINE d == Charged(l, s, c, t)
  <1>0. s \in BudgetState
    BY DEF Sound
  <1>1. CASE c <= 0
    <2>1. d = s /\ spent + Taken(c) = spent
      BY <1>1 DEF Taken, Charged
    <2> QED
      BY <2>1
  <1>2. CASE c > 0 /\ l.form = "window"
    <2> DEFINE r == Rolled(l, s, t)
               ws == WindowStart(l, t)
               wf == WindowStart(l, from)
    <2>1. d \in BudgetState /\ d.seen = TRUE /\ d.at = ws /\ d.level = r.level + c
      BY <1>2, WindowCharge
    <2>2. r \in BudgetState /\ (s.seen => s.at <= ws /\ (s.at = ws => r.level = s.level))
      BY <1>2, RolledFacts
    <2>3. ws \in Nat /\ wf \in Nat /\ wf <= ws
      BY WindowFacts
    <2>4. spent > 0 => s.seen /\ wf <= s.at /\ (wf = s.at => spent <= s.level)
      BY <1>2 DEF Within
    <2>5. spent + Taken(c) = spent + c
      BY <1>2 DEF Taken
    <2> HIDE DEF d, r, ws, wf
    <2>6. wf = ws => spent + c <= d.level
      BY <1>0, <1>2, <2>1, <2>2, <2>3, <2>4 DEF BudgetState
    <2>7. Within(l, d, from, spent + c)
      BY <1>2, <2>1, <2>3, <2>6 DEF Within, ws, wf
    <2> QED
      BY <2>5, <2>7 DEF d
  <1>3. CASE c > 0 /\ l.form # "window"
    <2> DEFINE f == Filled(l, s, t)
               n == l.interval
               per == l.refill * TokenScale
               cap == l.budget * TokenScale
               x == spent * TokenScale
               y == c * TokenScale
    <2>1. d \in BudgetState /\ d.seen = TRUE /\ d.at = t /\ d.level = f.level - y /\ y \in Nat
      BY <1>3, BucketCharge
    <2>2. f.level \in Nat /\ f.level <= cap
      BY <1>3, FilledFacts DEF BudgetState
    <2>3. cap \in Nat /\ per \in Nat /\ (Refillable(l) => n \in Nat \ {0})
      BY BucketNumbers
    <2>4. x \in Nat /\ (spent + c) * TokenScale = x + y
      BY <1>3, BucketNumbers, Products
    <2>5. (spent + c) * TokenScale + d.level = x + f.level
      <3> HIDE DEF d, f, x, y
      <3> QED
        BY <2>1, <2>2, <2>4
    <2>6. Earned(l, d, from, spent + c)
      <3>1. CASE spent = 0
        <4>1. x = 0
          BY <3>1, BucketNumbers
        <4>2. CASE ~Refillable(l)
          <5>1. x + f.level <= cap
            BY <2>2, <4>1
          <5> QED
            BY <2>5, <4>2, <5>1 DEF Earned
        <4>3. CASE Refillable(l)
          <5> DEFINE g == (t - from) * per
          <5>1. t - from \in Nat /\ g \in Nat
            BY <2>3, Products
          <5>2. f.level * n <= cap * n /\ cap * n \in Nat
            BY <2>2, <2>3, <4>3, Products
          <5>3. (x + f.level) * n = f.level * n
            BY <2>2, <4>1
          <5>4. (x + f.level) * n <= cap * n + g
            <6> HIDE DEF g
            <6> QED
              BY <2>2, <2>3, <4>3, <5>1, <5>2, <5>3
          <5> QED
            BY <2>1, <2>5, <4>3, <5>4 DEF Earned
        <4> QED
          BY <4>2, <4>3
      <3>2. CASE spent > 0
        <4>1. s.seen /\ from <= s.at /\ Earned(l, s, from, spent)
          BY <1>3, <3>2 DEF Within
        <4> DEFINE v == s.level
                   e == t - s.at
                   h == s.at - from
        <4>2. v \in Nat /\ v <= cap /\ e \in Nat /\ h \in Nat /\ h + e = t - from
          BY <1>0, <1>3, <4>1 DEF Sound, BudgetState
        <4>30. f.level = Tokens(l, s, t)
          BY <1>3, <4>1, SeenBucket
        <4>3. f.level = Accrue(l, v, e)
          BY <4>30 DEF Tokens
        <4>4. CASE ~Refillable(l)
          <5>1. f.level = v
            BY <4>2, <4>3, <4>4, AccrueBounded
          <5>2. x + v <= cap
            BY <4>1, <4>4 DEF Earned
          <5> QED
            BY <2>5, <4>4, <5>1, <5>2 DEF Earned
        <4>5. CASE Refillable(l)
          <5>1. (x + v) * n <= cap * n + h * per
            BY <4>1, <4>5 DEF Earned
          <5>2. f.level * n <= v * n + e * per
            BY <4>2, <4>3, <4>5, AccrueBounded
          <5> HIDE DEF v, e, h, f, n, per, cap, x
          <5>3. (x + f.level) * n <= cap * n + (h + e) * per
            BY <2>2, <2>3, <2>4, <4>2, <4>5, <5>1, <5>2, EarnedStep
          <5>4. (x + f.level) * n <= cap * n + (d.at - from) * per
            BY <2>1, <4>2, <5>3
          <5> QED
            BY <2>5, <4>5, <5>4 DEF Earned, n, per, cap
        <4> QED
          BY <4>4, <4>5
      <3> QED
        BY <3>1, <3>2
    <2>7. spent + Taken(c) = spent + c
      BY <1>3 DEF Taken
    <2> HIDE DEF d
    <2>8. Within(l, d, from, spent + c)
      BY <1>3, <2>1, <2>6 DEF Within
    <2> QED
      BY <2>7, <2>8 DEF d
  <1> QED
    BY <1>1, <1>2, <1>3

\* What the state remembers is what the limiter may let through.
LEMMA WithinFits ==
    ASSUME NEW l \in Limiter, NEW t \in Nat, NEW s, Sound(l, s, t),
           NEW from \in Nat, from <= t, NEW spent \in Nat, Within(l, s, from, spent)
    PROVE  Fits(l, from, t, spent)
  <1>1. s \in BudgetState /\ l.budget \in Nat
    BY DEF Sound, Limiter
  <1>2. CASE l.form = "window"
    <2>1. WindowStart(l, t) \in Nat
      BY WindowFacts
    <2>2. s.level <= l.budget /\ (s.seen => s.at <= WindowStart(l, t))
      BY <1>2 DEF Sound
    <2>3. spent > 0 => /\ s.seen /\ WindowStart(l, from) <= s.at
                       /\ WindowStart(l, from) = s.at => spent <= s.level
      BY <1>2 DEF Within
    <2>4. WindowStart(l, from) = WindowStart(l, t) => spent <= l.budget
      BY <1>1, <2>1, <2>2, <2>3 DEF BudgetState
    <2> QED
      BY <1>2, <2>4 DEF Fits
  <1>3. CASE l.form # "window" /\ ~Refillable(l)
    <2>1. CASE spent = 0
      BY <1>1, <1>3, <2>1 DEF Fits
    <2>2. CASE spent > 0
      <3>1. spent * TokenScale + s.level <= l.budget * TokenScale
        BY <1>3, <2>2 DEF Within, Earned
      <3>2. spent * TokenScale \in Nat /\ l.budget * TokenScale \in Nat /\ TokenScale \in Nat \ {0}
        BY BucketNumbers, Products
      <3>3. spent * TokenScale <= l.budget * TokenScale
        BY <1>1, <3>1, <3>2 DEF BudgetState
      <3>4. spent <= l.budget
        BY <1>1, <3>2, <3>3, Products
      <3> QED
        BY <1>3, <3>4 DEF Fits
    <2> QED
      BY <2>1, <2>2
  <1>4. CASE l.form # "window" /\ Refillable(l)
    <2> DEFINE n == l.interval
               e == t - from
    <2>1. n \in Nat \ {0} /\ l.refill \in Nat /\ TokenScale \in Nat \ {0} /\ e \in Nat
      BY <1>4, BucketNumbers
    <2>2. spent * n <= l.budget * n + l.refill * e
      <3>1. CASE spent = 0
        <4>1. l.budget * n \in Nat /\ l.refill * e \in Nat /\ spent * n = 0
          BY <1>1, <2>1, <3>1, Products
        <4> HIDE DEF n, e
        <4> QED
          BY <4>1
      <3>2. CASE spent > 0
        <4> DEFINE h == s.at - from
        <4>1. /\ s.seen /\ from <= s.at
              /\ (spent * TokenScale + s.level) * n
                   <= (l.budget * TokenScale) * n + h * (l.refill * TokenScale)
          BY <1>4, <3>2 DEF Within, Earned
        <4>2. h \in Nat /\ h <= e /\ s.level \in Nat
          BY <1>1, <1>4, <4>1 DEF Sound, BudgetState
        <4> HIDE DEF n, e, h
        <4> QED
          BY <1>1, <2>1, <4>1, <4>2, ScaleCancels
      <3> QED
        BY <3>1, <3>2
    <2> QED
      BY <1>4, <2>2 DEF Fits
  <1> QED
    BY <1>2, <1>3, <1>4

\* The advice in a refusal is honest: from the time it names on, nothing up to the
\* refused cost is refused, as long as the state stays as it is.
LEMMA AdviceFacts ==
    ASSUME NEW l \in Limiter, NEW t \in Nat, NEW s, Sound(l, s, t),
           NEW c \in Int, Would(l, s, c, t).why = "budget"
    PROVE  /\ t + Would(l, s, c, t).wait \in Int
           /\ Honest(l, s, t + Would(l, s, c, t).wait, c)
  <1> DEFINE w == Would(l, s, c, t).wait
  <1>1. c > 0 /\ c <= l.budget /\ l.budget \in Nat
    BY DEF Would, Allow, Impossible, Limiter
  <1>2. s \in BudgetState
    BY DEF Sound
  <1>3. CASE l.form = "window"
    <2> DEFINE r == Rolled(l, s, t)
               ws == WindowStart(l, t)
               n == l.interval
    <2>10. r.at = ws /\ (s.seen => s.at <= ws)
      BY <1>3, RolledFacts
    <2>11. ws \in Nat /\ n \in Int
      BY WindowFacts DEF Limiter
    <2>1. r.at = ws /\ ws \in Nat /\ n \in Int /\ (s.seen => s.at <= ws)
      BY <2>10, <2>11
    <2>2. Would(l, s, c, t) = WindowVerdict(l, s, c, t)
      BY <1>1, <1>3 DEF Would
    <2>3. n > 0 /\ w = r.at + n - t
      BY <2>1, <2>2 DEF WindowVerdict, Allow, Impossible, RetryAfter
    <2>4. t + w = ws + n
      <3> HIDE DEF r, ws, n, w
      <3> QED
        BY <2>1, <2>3
    <2>5. ASSUME NEW u \in Nat, NEW b \in Int, u >= ws + n, b <= c
          PROVE  Would(l, s, b, u).allowed
      <3>1. CASE b <= 0
        BY <3>1 DEF Would, Allow
      <3>2. CASE b > 0
        <4>1. t < ws + n
          BY <2>3, WindowFacts
        <4>2. t <= u
          BY <2>1, <2>5, <4>1
        <4>3. WindowStart(l, u) >= ws + n /\ WindowStart(l, u) \in Nat
          BY <2>3, <2>5, <4>2, WindowFacts
        <4>4. ~(s.seen /\ WindowStart(l, u) <= s.at)
          BY <1>2, <2>1, <2>3, <4>3 DEF BudgetState
        <4>5. Rolled(l, s, u).level = 0
          BY <4>4 DEF Rolled
        <4>6. b <= l.budget
          BY <1>1, <2>5
        <4>7. WindowVerdict(l, s, b, u) = Allow
          BY <4>5, <4>6 DEF WindowVerdict
        <4> QED
          BY <1>1, <1>3, <3>2, <4>6, <4>7 DEF Would, Allow
      <3> QED
        BY <3>1, <3>2
    <2> HIDE DEF w, ws, n
    <2>6. Honest(l, s, t + w, c)
      BY <2>4, <2>5 DEF Honest
    <2> QED
      BY <2>1, <2>4, <2>6 DEF w
  <1>4. CASE l.form # "window"
    <2> DEFINE f == Filled(l, s, t)
               want == c * TokenScale
               cap == l.budget * TokenScale
               v == s.level
               e == t - s.at
    <2>1. Would(l, s, c, t) = BucketVerdict(l, s, c, t)
      BY <1>1, <1>4 DEF Would
    <2>2. ~(f.level >= want) /\ Refillable(l) /\ w = TimeToAccrue(l, want - f.level)
      BY <2>1 DEF BucketVerdict, Allow, Impossible, RetryAfter
    <2>3. want \in Nat /\ cap \in Nat /\ want <= cap /\ TokenScale \in Nat
      BY <1>1, BucketNumbers, Products
    <2>40. s.seen
      <3> SUFFICES ASSUME ~s.seen PROVE FALSE
        OBVIOUS
      <3>1. f.level = cap
        BY DEF Filled
      <3> HIDE DEF f, want, cap
      <3> QED
        BY <2>2, <2>3, <3>1
    <2>41. f.level = Tokens(l, s, t)
      BY <1>4, <2>40, SeenBucket
    <2>4. s.seen /\ f.level = Accrue(l, v, e)
      BY <2>40, <2>41 DEF Tokens
    <2>5. v \in Nat /\ v <= cap /\ e \in Nat
      BY <1>2, <1>4, <2>4 DEF Sound, BudgetState
    <2>6. Accrue(l, v, e) \in Nat
      BY <2>5, AccrueBounded
    <2>7. Accrue(l, v, e) < want /\ w = TimeToAccrue(l, want - Accrue(l, v, e))
      <3> HIDE DEF f, want, v, e, w
      <3> QED
        BY <2>2, <2>3, <2>4, <2>6
    <2> HIDE DEF f, want, v, e, w
    <2>8. w \in Nat /\ \A g \in Nat : g >= e + w => Accrue(l, v, g) >= want
      BY <2>2, <2>3, <2>5, <2>7, AccrueWait DEF cap
    <2>9. ASSUME NEW u \in Nat, NEW b \in Int, u >= t + w, b <= c
          PROVE  Would(l, s, b, u).allowed
      <3>1. CASE b <= 0
        BY <3>1 DEF Would, Allow
      <3>2. CASE b > 0
        <4>1. s.at \in Int /\ u - s.at \in Nat /\ u - s.at >= e + w
          BY <1>2, <2>5, <2>8, <2>9 DEF BudgetState, e
        <4>2. Accrue(l, v, u - s.at) >= want
          BY <2>8, <4>1
        <4>3. Sound(l, s, u)
          BY <1>4, <4>1 DEF Sound
        <4>40. Filled(l, s, u).level = Tokens(l, s, u) /\ Filled(l, s, u).level \in Nat
          BY <1>4, <2>4, <4>3, SeenBucket
        <4>4. Filled(l, s, u).level = Accrue(l, v, u - s.at) /\ Filled(l, s, u).level \in Nat
          BY <4>40 DEF v, Tokens
        <4>5. b * TokenScale <= want /\ b * TokenScale \in Nat
          BY <1>1, <2>3, <2>9, <3>2, Products DEF want
        <4>6. BucketVerdict(l, s, b, u) = Allow
          BY <2>3, <4>2, <4>4, <4>5 DEF BucketVerdict
        <4>7. b <= l.budget
          BY <1>1, <2>9
        <4> QED
          BY <1>1, <1>4, <3>2, <4>6, <4>7 DEF Would, Allow
      <3> QED
        BY <3>1, <3>2
    <2>10. Honest(l, s, t + w, c)
      BY <2>9 DEF Honest
    <2> QED
      BY <2>8, <2>10 DEF w
  <1> QED
    BY <1>3, <1>4

-----------------------------------------------------------------------------
(* The policy.                                                             *)

\* A request's cost is an integer, whatever the meters.
LEMMA CostIsInteger ==
    ASSUME NEW i \in DOMAIN Limits, NEW kind \in RequestKinds
    PROVE  CostOf(i, kind) \in Int
  <1> DEFINE f == [m \in DOMAIN Meters |->
                     IF Meters[m].limiter = i THEN Meters[m].cost[kind] ELSE 0]
             M == [limiter : DOMAIN Limits, cost : [RequestKinds -> Int]]
  <1>0. Meters \in Seq(M)
    BY LimitsAssumption
  <1>1. \A m \in DOMAIN Meters : f[m] \in Int
    <2> SUFFICES ASSUME NEW m \in DOMAIN Meters PROVE f[m] \in Int
      OBVIOUS
    <2>1. Meters[m] \in M
      <3> HIDE DEF M
      <3> QED
        BY <1>0
    <2> QED
      BY <2>1
  <1>2. DOMAIN Meters \in SUBSET Nat /\ Len(Meters) \in Nat
        /\ \A m \in DOMAIN Meters : m <= Len(Meters)
    <2> HIDE DEF M
    <2> QED
      BY <1>0
  <1>3. IsFiniteSet(DOMAIN Meters)
    BY <1>2, BoundedIsFinite
  <1>4. CostOf(i, kind) = SumFunctionOnSet(f, DOMAIN Meters)
    BY DEF CostOf, Costs, SumFunction
  <1> HIDE DEF f
  <1> QED
    BY <1>1, <1>3, <1>4, SumType

\* The limiters are numbered, and each is one.
LEMMA LimitTyped ==
    /\ DOMAIN Limits \subseteq Nat
    /\ \A i \in DOMAIN Limits : Limits[i] \in Limiter
  <1>1. Limits \in Seq(Limiter)
    BY LimitsAssumption DEF Limiter
  <1> QED
    BY <1>1

\* The first limiter that refuses is one that does.
LEMMA FirstRefusing ==
    ASSUME NEW kind, Refusing(budgets, kind, now) # {}
    PROVE  Min(Refusing(budgets, kind, now)) \in Refusing(budgets, kind, now)
  <1> DEFINE R == Refusing(budgets, kind, now)
  <1>1. R \subseteq Nat /\ R # {}
    BY LimitTyped DEF Refusing
  <1> HIDE DEF R
  <1>2. \E x \in R : \A y \in R : x <= y
    BY <1>1, LeastNatural
  <1>3. Min(R) \in R
    BY <1>2 DEF Min
  <1> QED
    BY <1>3 DEF R

\* A metered request is permitted only when no limiter refuses it.
LEMMA PermittedFits ==
    ASSUME NEW kind, Decision(kind).allowed, metered, NEW i \in DOMAIN Limits
    PROVE  Would(Limits[i], budgets[i], CostOf(i, kind), now).allowed
  <1> DEFINE R == Refusing(budgets, kind, now)
             m == Min(R)
  <1>1. R = {}
    <2> SUFFICES ASSUME R # {} PROVE FALSE
      OBVIOUS
    <2>1. m \in R
      BY FirstRefusing
    <2>2. Decision(kind) = Would(Limits[m], budgets[m], CostOf(m, kind), now)
      BY DEF Decision
    <2> QED
      BY <2>1, <2>2 DEF Refusing
  <1> QED
    BY <1>1 DEF Refusing

\* A refusal with advice is that of a limiter.
LEMMA RefusedBudget ==
    ASSUME NEW kind, Decision(kind).why = "budget"
    PROVE  LET m == Min(Refusing(budgets, kind, now))
           IN  /\ m \in Refusing(budgets, kind, now)
               /\ Decision(kind) = Would(Limits[m], budgets[m], CostOf(m, kind), now)
  <1>1. metered /\ Refusing(budgets, kind, now) # {}
    BY DEF Decision, Allow, Overloaded
  <1> QED
    BY <1>1, FirstRefusing DEF Decision

\* Every limiter's state is sound at every time.
BudgetsSound ==
    /\ now \in Nat
    /\ budgets \in [DOMAIN Limits -> BudgetState]
    /\ \A i \in DOMAIN Limits : Sound(Limits[i], budgets[i], now)

AdmissionType ==
    [at : Nat, before : [DOMAIN Limits -> Nat], after : [DOMAIN Limits -> Nat]]

\* The limiters remember what was spent since each admission.
Remembered ==
    /\ admitted \in Seq(AdmissionType)
    /\ \A j \in DOMAIN admitted : admitted[j].at <= now
    /\ \A i \in DOMAIN Limits, j \in DOMAIN admitted :
         /\ admitted[j].before[i] <= Paid(i)
         /\ Within(Limits[i], budgets[i], admitted[j].at, Paid(i) - admitted[j].before[i])

PromiseType == [since : Nat, at : Int, cost : Int]

\* The advice that stands for a limiter is honest.
PromisesKept ==
    /\ promise \in [DOMAIN Limits -> PromiseType]
    /\ \A i \in DOMAIN Limits :
         promise[i] # NoPromise
           => Honest(Limits[i], budgets[i], promise[i].at, promise[i].cost)

\* Soundness outlives the passing of time.
LEMMA SoundLater ==
    ASSUME NEW l \in Limiter, NEW t \in Nat, NEW s, Sound(l, s, t)
    PROVE  Sound(l, s, t + 1)
  <1>1. WindowStart(l, t) \in Nat /\ WindowStart(l, t + 1) \in Nat
        /\ WindowStart(l, t) <= WindowStart(l, t + 1)
    BY WindowFacts
  <1> QED
    BY <1>1 DEF Sound, BudgetState

\* Every step keeps the limiters' states sound.
LEMMA BudgetsStaySound ==
    BudgetsSound /\ [PolicyNext]_<<now, policyVars>> => BudgetsSound'
  <1> SUFFICES ASSUME BudgetsSound, [PolicyNext]_<<now, policyVars>>
               PROVE  BudgetsSound'
    OBVIOUS
  <1>1. ASSUME NEW kind \in RequestKinds, Refused(kind) PROVE BudgetsSound'
    BY <1>1 DEF BudgetsSound, Refused
  <1>2. ASSUME NEW kind \in RequestKinds, Permitted(kind) PROVE BudgetsSound'
    <2>1. CASE ~metered
      BY <1>2, <2>1 DEF BudgetsSound, Permitted
    <2>2. CASE metered
      <3>1. now' = now /\ budgets' = Spent(kind)
        BY <1>2, <2>2 DEF Permitted
      <3>2. ASSUME NEW i \in DOMAIN Limits
            PROVE  Sound(Limits[i], Charged(Limits[i], budgets[i], CostOf(i, kind), now), now)
        <4>1. Limits[i] \in Limiter /\ CostOf(i, kind) \in Int
          BY LimitTyped, CostIsInteger
        <4>2. now \in Nat /\ Sound(Limits[i], budgets[i], now)
          BY DEF BudgetsSound
        <4>3. Would(Limits[i], budgets[i], CostOf(i, kind), now).allowed
          BY <1>2, <2>2, PermittedFits DEF Permitted
        <4> QED
          BY <4>1, <4>2, <4>3, ChargeSound
      <3>3. \A i \in DOMAIN Limits : Sound(Limits[i], budgets'[i], now')
        BY <3>1, <3>2 DEF Spent
      <3>4. budgets' \in [DOMAIN Limits -> BudgetState]
        BY <3>1, <3>3 DEF Spent, Sound
      <3> QED
        BY <3>1, <3>3, <3>4 DEF BudgetsSound
    <2> QED
      BY <2>1, <2>2
  <1>3. ASSUME NEW kind \in RequestKinds, Completed(kind) PROVE BudgetsSound'
    BY <1>3 DEF BudgetsSound, Completed
  <1>4. CASE TimePasses
    <2>1. now' = now + 1 /\ now \in Nat /\ budgets' = budgets
      BY <1>4 DEF TimePasses, policyVars, BudgetsSound
    <2>2. \A i \in DOMAIN Limits : Sound(Limits[i], budgets[i], now + 1)
      BY LimitTyped, SoundLater DEF BudgetsSound
    <2> QED
      BY <2>1, <2>2 DEF BudgetsSound
  <1>5. CASE UNCHANGED <<now, policyVars>>
    BY <1>5 DEF policyVars, BudgetsSound
  <1> QED
    BY <1>1, <1>2, <1>3, <1>4, <1>5 DEF PolicyNext

\* What the admissions cost so far is a natural number.
LEMMA PaidType ==
    ASSUME Remembered, NEW i \in DOMAIN Limits
    PROVE  Paid(i) \in Nat
  <1>1. CASE admitted = <<>>
    BY <1>1 DEF Paid
  <1>2. CASE admitted # <<>>
    <2>1. admitted[Len(admitted)] \in AdmissionType
      BY <1>2 DEF Remembered
    <2> QED
      BY <1>2, <2>1 DEF Paid, AdmissionType
  <1> QED
    BY <1>1, <1>2

\* The entry an admission adds.
LEMMA AdmissionFacts ==
    ASSUME BudgetsSound, Remembered, NEW kind \in RequestKinds
    PROVE  /\ Admission(kind) \in AdmissionType /\ Admission(kind).at = now
           /\ \A i \in DOMAIN Limits :
                /\ Admission(kind).before[i] = Paid(i)
                /\ Admission(kind).after[i] = Paid(i) + Taken(CostOf(i, kind))
  <1>1. \A i \in DOMAIN Limits : Paid(i) \in Nat /\ CostOf(i, kind) \in Int
    BY PaidType, CostIsInteger
  <1>2. \A i \in DOMAIN Limits :
          /\ Admission(kind).before[i] = Paid(i)
          /\ Admission(kind).after[i] = Paid(i) + Taken(CostOf(i, kind))
    BY <1>1 DEF Admission, Taken
  <1>3. now \in Nat
    BY DEF BudgetsSound
  <1>4. Admission(kind) \in AdmissionType
    BY <1>1, <1>3 DEF Admission, AdmissionType
  <1> QED
    BY <1>2, <1>4 DEF Admission

\* An admission is remembered, and fits with every earlier one.
LEMMA OneMoreAdmission ==
    ASSUME BudgetsSound, BudgetsSound', Remembered, BudgetsHold,
           NEW kind \in RequestKinds, Permitted(kind), metered
    PROVE  Remembered' /\ BudgetsHold'
  <1> DEFINE n == Len(admitted)
             e == Admission(kind)
             S(i) == Paid(i) + Taken(CostOf(i, kind))
  <1>1. /\ e \in AdmissionType /\ e.at = now
        /\ \A i \in DOMAIN Limits : e.before[i] = Paid(i) /\ e.after[i] = S(i)
    BY AdmissionFacts
  <1>2. now' = now /\ budgets' = Spent(kind) /\ admitted' = Append(admitted, e)
    BY DEF Permitted
  <1>3. admitted \in Seq(AdmissionType) /\ n \in Nat /\ DOMAIN admitted = 1..n
    BY DEF Remembered
  <1> HIDE DEF e
  <1>4. /\ admitted' \in Seq(AdmissionType) /\ DOMAIN admitted' = 1..n + 1
        /\ Len(admitted') = n + 1 /\ admitted'[n + 1] = e
        /\ \A j \in 1..n : admitted'[j] = admitted[j]
    BY <1>1, <1>2, <1>3
  <1>5. \A i : Paid(i)' = e.after[i]
    BY <1>3, <1>4 DEF Paid
  <1>6. now \in Nat /\ \A j \in 1..n : admitted[j].at \in Nat /\ admitted[j].at <= now
    <2>1. now \in Nat
      BY DEF BudgetsSound
    <2>2. \A j \in 1..n : admitted[j] \in AdmissionType /\ admitted[j].at <= now
      BY <1>3 DEF Remembered
    <2> QED
      BY <2>1, <2>2 DEF AdmissionType
  <1>7. \A j \in 1..n + 1 : admitted'[j].at \in Nat /\ admitted'[j].at <= now
    BY <1>1, <1>4, <1>6
  <1>8. ASSUME NEW i \in DOMAIN Limits, NEW j \in 1..n + 1
        PROVE  /\ admitted'[j].before[i] \in Nat /\ S(i) \in Nat
               /\ admitted'[j].before[i] <= S(i)
               /\ Within(Limits[i], budgets'[i], admitted'[j].at, S(i) - admitted'[j].before[i])
    <2> DEFINE l == Limits[i]
               s == budgets[i]
               c == CostOf(i, kind)
               b == admitted'[j].before[i]
               from == admitted'[j].at
    <2>1. l \in Limiter /\ c \in Int /\ Paid(i) \in Nat
      BY LimitTyped, CostIsInteger, PaidType
    <2>2. Sound(l, s, now) /\ budgets'[i] = Charged(l, s, c, now)
      BY <1>2 DEF BudgetsSound, Spent
    <2>3. Would(l, s, c, now).allowed
      BY PermittedFits DEF Permitted
    <2>4. b \in Nat /\ b <= Paid(i) /\ Within(l, s, from, Paid(i) - b)
      <3>1. CASE j = n + 1
        <4>1. b = Paid(i) /\ Paid(i) - b = 0
          BY <1>1, <1>4, <2>1, <3>1
        <4>2. Within(l, s, from, 0)
          BY DEF Within
        <4> QED
          BY <2>1, <4>1, <4>2
      <3>2. CASE j # n + 1
        <4>1. j \in 1..n /\ admitted'[j] = admitted[j] /\ admitted[j] \in AdmissionType
          BY <1>3, <1>4, <3>2
        <4>2. admitted[j].before[i] \in Nat
          BY <4>1 DEF AdmissionType
        <4> QED
          BY <1>3, <4>1, <4>2 DEF Remembered
      <3> QED
        BY <3>1, <3>2
    <2>5. Taken(c) \in Nat
      BY <2>1 DEF Taken
    <2>6. from \in Nat /\ from <= now
      BY <1>7
    <2>7. S(i) - b = (Paid(i) - b) + Taken(c) /\ S(i) \in Nat /\ b <= S(i) /\ Paid(i) - b \in Nat
      <3> HIDE DEF b, c
      <3> QED
        BY <2>1, <2>4, <2>5 DEF c
    <2> HIDE DEF l, s, c, b, from, S
    <2>8. Within(l, Charged(l, s, c, now), from, (Paid(i) - b) + Taken(c))
      BY <1>6, <2>1, <2>2, <2>3, <2>4, <2>6, <2>7, ChargeWithin
    <2> QED
      BY <2>2, <2>4, <2>7, <2>8 DEF b, from, l
  <1>9. Remembered'
    BY <1>1, <1>2, <1>4, <1>5, <1>7, <1>8 DEF Remembered
  <1>10. ASSUME NEW i \in DOMAIN Limits, NEW j \in 1..n + 1
         PROVE  Fits(Limits[i], admitted'[j].at, now, S(i) - admitted'[j].before[i])
    <2>1. Limits[i] \in Limiter /\ Sound(Limits[i], budgets'[i], now)
      BY <1>2, LimitTyped DEF BudgetsSound
    <2>2. S(i) - admitted'[j].before[i] \in Nat
      BY <1>8
    <2> HIDE DEF S
    <2> QED
      BY <1>6, <1>7, <1>8, <2>1, <2>2, WithinFits
  <1>11. ASSUME NEW i \in DOMAIN Limits, NEW j \in 1..n + 1, NEW k \in 1..n + 1, j <= k
         PROVE  Fits(Limits[i], admitted'[j].at, admitted'[k].at,
                     admitted'[k].after[i] - admitted'[j].before[i])
    <2>1. CASE k = n + 1
      BY <1>1, <1>4, <1>10, <2>1
    <2>2. CASE k # n + 1
      <3>1. j \in 1..n /\ k \in 1..n
        BY <1>3, <1>11, <2>2
      <3> QED
        BY <1>3, <1>4, <1>11, <3>1 DEF BudgetsHold, SpentOver
    <2> QED
      BY <2>1, <2>2
  <1>12. BudgetsHold'
    BY <1>4, <1>11 DEF BudgetsHold, SpentOver
  <1> QED
    BY <1>9, <1>12

\* Every step keeps the admissions remembered and within the budgets.
LEMMA BudgetsStayHeld ==
    BudgetsSound /\ Remembered /\ BudgetsHold /\ [PolicyNext]_<<now, policyVars>>
      => Remembered' /\ BudgetsHold'
  <1> SUFFICES ASSUME BudgetsSound, Remembered, BudgetsHold, [PolicyNext]_<<now, policyVars>>
               PROVE  Remembered' /\ BudgetsHold'
    OBVIOUS
  <1>1. BudgetsSound'
    BY BudgetsStaySound
  <1>2. ASSUME UNCHANGED <<budgets, admitted>>, now' \in Nat, now' >= now
        PROVE  Remembered' /\ BudgetsHold'
    <2>1. \A i : Paid(i)' = Paid(i)
      BY <1>2 DEF Paid
    <2>2. \A j \in DOMAIN admitted : admitted[j].at <= now'
      <3>1. \A j \in DOMAIN admitted : admitted[j] \in AdmissionType /\ admitted[j].at <= now
        BY DEF Remembered
      <3>2. now \in Nat
        BY DEF BudgetsSound
      <3> QED
        BY <1>2, <3>1, <3>2 DEF AdmissionType
    <2>3. Remembered'
      BY <1>2, <2>1, <2>2 DEF Remembered
    <2>4. BudgetsHold'
      BY <1>2 DEF BudgetsHold, SpentOver
    <2> QED
      BY <2>3, <2>4
  <1>3. now \in Nat /\ now >= now
    BY DEF BudgetsSound
  <1>4. ASSUME NEW kind \in RequestKinds, Refused(kind) PROVE Remembered' /\ BudgetsHold'
    BY <1>2, <1>3, <1>4 DEF Refused
  <1>5. ASSUME NEW kind \in RequestKinds, Permitted(kind) PROVE Remembered' /\ BudgetsHold'
    <2>1. CASE ~metered
      BY <1>2, <1>3, <1>5, <2>1 DEF Permitted
    <2>2. CASE metered
      BY <1>1, <1>5, <2>2, OneMoreAdmission
    <2> QED
      BY <2>1, <2>2
  <1>6. ASSUME NEW kind \in RequestKinds, Completed(kind) PROVE Remembered' /\ BudgetsHold'
    BY <1>2, <1>3, <1>6 DEF Completed
  <1>7. CASE TimePasses
    <2>1. now' = now + 1 /\ UNCHANGED <<budgets, admitted>>
      BY <1>7 DEF TimePasses, policyVars
    <2>2. now' \in Nat /\ now' >= now
      BY <1>3, <2>1
    <2> QED
      BY <1>2, <2>1, <2>2
  <1>8. CASE UNCHANGED <<now, policyVars>>
    BY <1>2, <1>3, <1>8 DEF policyVars
  <1> QED
    BY <1>4, <1>5, <1>6, <1>7, <1>8 DEF PolicyNext

\* At the start nothing has been spent and nothing promised.
LEMMA PolicyStarts ==
    PolicyInit => BudgetsSound /\ Remembered /\ BudgetsHold /\ PromisesKept
  <1> SUFFICES ASSUME PolicyInit PROVE BudgetsSound /\ Remembered /\ BudgetsHold /\ PromisesKept
    OBVIOUS
  <1>1. Unseen \in BudgetState /\ Unseen.seen = FALSE /\ Unseen.level = 0
    BY DEF Unseen, BudgetState
  <1>2. \A i \in DOMAIN Limits : Sound(Limits[i], Unseen, 0)
    <2> SUFFICES ASSUME NEW i \in DOMAIN Limits PROVE Sound(Limits[i], Unseen, 0)
      OBVIOUS
    <2>1. Limits[i].budget \in Nat /\ Limits[i].budget * TokenScale \in Nat
      BY LimitTyped, BucketNumbers
    <2> QED
      BY <1>1, <2>1 DEF Sound
  <1>3. BudgetsSound
    BY <1>1, <1>2 DEF PolicyInit, BudgetsSound
  <1>4. admitted = <<>>
    BY DEF PolicyInit
  <1>5. Remembered /\ BudgetsHold
    BY <1>4 DEF Remembered, BudgetsHold
  <1>6. NoPromise \in PromiseType
    BY DEF NoPromise, PromiseType
  <1>7. PromisesKept
    BY <1>6 DEF PolicyInit, PromisesKept
  <1> QED
    BY <1>3, <1>5, <1>7

\* No client gets more through a budget than the budget says, for any budgets,
\* meters and token scale, and however the requests are timed (BudgetsHold).
THEOREM BudgetsAlwaysHold == PolicySpec => []BudgetsHold
  <1> DEFINE Inv == BudgetsSound /\ Remembered /\ BudgetsHold
  <1>1. PolicyInit => Inv
    BY PolicyStarts
  <1>2. Inv /\ [PolicyNext]_<<now, policyVars>> => Inv'
    BY BudgetsStaySound, BudgetsStayHeld
  <1> QED
    BY <1>1, <1>2, PTL DEF PolicySpec

\* What a refusal promises.
LEMMA RefusalPromises ==
    ASSUME BudgetsSound, PromisesKept, NEW kind \in RequestKinds, Refused(kind)
    PROVE  PromisesKept' /\ HonestStep
  <1> DEFINE R == Refusing(budgets, kind, now)
             m == Min(R)
             w == Decision(kind).wait
             c == CostOf(m, kind)
             p == [since |-> now, at |-> now + w, cost |-> c]
  <1>1. budgets' = budgets
    BY DEF Refused
  <1>2. CASE Decision(kind).why # "budget"
    <2>1. promise' = promise
      BY <1>2 DEF Refused
    <2> QED
      BY <1>1, <2>1 DEF PromisesKept, HonestStep
  <1>3. CASE Decision(kind).why = "budget"
    <2>1. promise' = [promise EXCEPT ![m] = p]
      BY <1>3 DEF Refused
    <2>2. m \in R /\ Decision(kind) = Would(Limits[m], budgets[m], c, now)
      BY <1>3, RefusedBudget
    <2>3. m \in DOMAIN Limits /\ ~Would(Limits[m], budgets[m], c, now).allowed
      BY <2>2 DEF Refusing
    <2> HIDE DEF R, m
    <2>4. Limits[m] \in Limiter /\ c \in Int /\ now \in Nat /\ Sound(Limits[m], budgets[m], now)
      BY <2>3, LimitTyped, CostIsInteger DEF BudgetsSound
    <2>5. Would(Limits[m], budgets[m], c, now).why = "budget"
          /\ w = Would(Limits[m], budgets[m], c, now).wait
      BY <1>3, <2>2
    <2> HIDE DEF w, c
    <2>6. now + w \in Int /\ Honest(Limits[m], budgets[m], now + w, c)
      BY <2>4, <2>5, AdviceFacts
    <2>7. p \in PromiseType /\ p.at = now + w /\ p.cost = c
      BY <2>4, <2>6 DEF PromiseType
    <2>8. PromisesKept'
      <3> HIDE DEF p
      <3> QED
        BY <1>1, <2>1, <2>3, <2>6, <2>7 DEF PromisesKept
    <2>9. ASSUME promise[m] # NoPromise PROVE now < promise[m].at \/ c > promise[m].cost
      <3>1. promise[m] \in PromiseType
            /\ Honest(Limits[m], budgets[m], promise[m].at, promise[m].cost)
        BY <2>3, <2>9 DEF PromisesKept
      <3>2. ~(now >= promise[m].at /\ c <= promise[m].cost)
        BY <2>3, <2>4, <3>1 DEF Honest
      <3> QED
        BY <2>4, <3>1, <3>2 DEF PromiseType
    <2>10. HonestStep
      <3> HIDE DEF p
      <3> QED
        BY <2>1, <2>3, <2>7, <2>9 DEF HonestStep, PromisesKept
    <2> QED
      BY <2>8, <2>10
  <1> QED
    BY <1>2, <1>3

\* What a permit leaves of the promises: those whose budget it does not touch.
LEMMA PermitPromises ==
    ASSUME BudgetsSound, PromisesKept, NEW kind \in RequestKinds, Permitted(kind)
    PROVE  PromisesKept' /\ HonestStep
  <1>1. CASE ~metered
    <2>1. budgets' = budgets /\ promise' = promise
      BY <1>1 DEF Permitted
    <2> QED
      BY <2>1 DEF PromisesKept, HonestStep
  <1>2. CASE metered
    <2>1. /\ budgets' = Spent(kind)
          /\ promise' = [i \in DOMAIN Limits |->
                           IF CostOf(i, kind) > 0 THEN NoPromise ELSE promise[i]]
      BY <1>2 DEF Permitted
    <2>2. NoPromise \in PromiseType
      BY DEF NoPromise, PromiseType
    <2>3. ASSUME NEW i \in DOMAIN Limits, promise'[i] # NoPromise
          PROVE  promise'[i] = promise[i] /\ budgets'[i] = budgets[i]
      <3>1. CostOf(i, kind) \in Int /\ ~(CostOf(i, kind) > 0) /\ promise'[i] = promise[i]
        BY <2>1, <2>3, CostIsInteger
      <3>2. Charged(Limits[i], budgets[i], CostOf(i, kind), now) = budgets[i]
        BY <3>1 DEF Charged
      <3> QED
        BY <2>1, <3>1, <3>2 DEF Spent
    <2>4. promise' \in [DOMAIN Limits -> PromiseType]
      BY <2>1, <2>2 DEF PromisesKept
    <2>5. PromisesKept'
      BY <2>3, <2>4 DEF PromisesKept
    <2>6. HonestStep
      BY <2>3 DEF HonestStep
    <2> QED
      BY <2>5, <2>6
  <1> QED
    BY <1>1, <1>2

\* Every step keeps the promises that stand.
LEMMA PromisesStayKept ==
    BudgetsSound /\ PromisesKept /\ [PolicyNext]_<<now, policyVars>>
      => PromisesKept' /\ [HonestStep]_<<now, policyVars>>
  <1> SUFFICES ASSUME BudgetsSound, PromisesKept, [PolicyNext]_<<now, policyVars>>
               PROVE  PromisesKept' /\ [HonestStep]_<<now, policyVars>>
    OBVIOUS
  <1>1. ASSUME NEW kind \in RequestKinds, Refused(kind) PROVE PromisesKept' /\ HonestStep
    BY <1>1, RefusalPromises
  <1>2. ASSUME NEW kind \in RequestKinds, Permitted(kind) PROVE PromisesKept' /\ HonestStep
    BY <1>2, PermitPromises
  <1>3. ASSUME UNCHANGED <<budgets, promise>> PROVE PromisesKept' /\ HonestStep
    BY <1>3 DEF PromisesKept, HonestStep
  <1>4. ASSUME NEW kind \in RequestKinds, Completed(kind) PROVE PromisesKept' /\ HonestStep
    BY <1>3, <1>4 DEF Completed
  <1>5. CASE TimePasses
    BY <1>3, <1>5 DEF TimePasses, policyVars
  <1>6. CASE UNCHANGED <<now, policyVars>>
    BY <1>3, <1>6 DEF policyVars
  <1> QED
    BY <1>1, <1>2, <1>4, <1>5, <1>6 DEF PolicyNext

\* Who waits as long as a refusal said is not refused again by that budget for
\* the same cost, whatever the client asks in between that the budget does not
\* charge (AdviceIsHonest).
THEOREM AdviceStaysHonest == PolicySpec => AdviceIsHonest
  <1> DEFINE Inv == BudgetsSound /\ PromisesKept
  <1>1. PolicyInit => Inv
    BY PolicyStarts
  <1>2. Inv /\ [PolicyNext]_<<now, policyVars>> => Inv' /\ [HonestStep]_<<now, policyVars>>
    BY BudgetsStaySound, PromisesStayKept
  <1> QED
    BY <1>1, <1>2, PTL DEF PolicySpec, AdviceIsHonest
=============================================================================
