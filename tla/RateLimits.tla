------------------------------ MODULE RateLimits ------------------------------
(***************************************************************************)
(* The budgets of package ratelimit as operators on their per-scope state. *)
(* A limiter is a record                                                   *)
(*   [form, budget, refill, interval]                                      *)
(* whose form is "window" (FixedWindow) or "bucket" (TokenBucket, whose    *)
(* budget is its capacity).  The state it keeps for a scope is a record    *)
(*   [seen, level, at]                                                     *)
(* - used and windowAt of a window, tokens and lastFillAt of a bucket.     *)
(***************************************************************************)
EXTENDS Integers, Sequences, FiniteSetsExt

CONSTANTS TokenScale,   \* tokenScale, the denominator of a token
          Limits,       \* the tier's limiters, in the order its meters name them
          Meters        \* the tier's meters: [limiter |-> index, cost |-> [kind |-> Int]]

\* The kinds of request the clients send.
RequestKinds == {"place", "cancel", "query"}

\* What NewFixedWindow and NewTokenBucket make of any arguments, and any cost
\* models.
ASSUME LimitsAssumption ==
  /\ TokenScale \in Nat \ {0}
  /\ Limits \in Seq([form : {"window", "bucket"}, budget : Nat, refill : Nat, interval : Int])
  /\ Meters \in Seq([limiter : DOMAIN Limits, cost : [RequestKinds -> Int]])

Unseen == [seen |-> FALSE, level |-> 0, at |-> 0]

Allow == [allowed |-> TRUE, wait |-> 0, why |-> "fits"]

RetryAfter(wait) == [allowed |-> FALSE, wait |-> wait, why |-> "budget"]

Impossible == [allowed |-> FALSE, wait |-> 0, why |-> "impossible"]

Overloaded == [allowed |-> FALSE, wait |-> 0, why |-> "overloaded"]

-----------------------------------------------------------------------------
(* FixedWindow *)

WindowStart(l, now) == IF l.interval <= 0 THEN 0 ELSE now - (now % l.interval)

\* Only a later window resets usage.
Rolled(l, s, now) ==
  IF s.seen /\ WindowStart(l, now) <= s.at
  THEN s
  ELSE [seen |-> TRUE, level |-> 0, at |-> WindowStart(l, now)]

WindowVerdict(l, s, cost, now) ==
  LET current == Rolled(l, s, now) IN
  IF current.level + cost <= l.budget THEN Allow
  ELSE IF l.interval <= 0 THEN Impossible
  ELSE RetryAfter(current.at + l.interval - now)

-----------------------------------------------------------------------------
(* TokenBucket *)

Refillable(l) == l.refill > 0 /\ l.interval > 0

\* The leftover fraction of an interval earns a whole interval's tokens.
AccrueRoundedUp(l, tokens, elapsed) ==
  LET capped == l.budget * TokenScale
      gained == ((elapsed + l.interval - 1) \div l.interval) * l.refill * TokenScale
  IN  IF elapsed <= 0 \/ ~Refillable(l) THEN tokens
      ELSE IF tokens + gained >= capped THEN capped ELSE tokens + gained

Accrue(l, tokens, elapsed) ==
  LET capped == l.budget * TokenScale
      perInterval == l.refill * TokenScale
      gained == (elapsed \div l.interval) * perInterval
                  + ((elapsed % l.interval) * perInterval) \div l.interval
  IN  IF elapsed <= 0 \/ ~Refillable(l) THEN tokens
      ELSE IF gained >= capped - tokens THEN capped ELSE tokens + gained

\* The wait is rounded down, so that who obeys it comes back too early.
TimeToAccrueRoundedDown(l, shortfall) ==
  (shortfall * l.interval) \div (l.refill * TokenScale)

TimeToAccrue(l, shortfall) ==
  LET denominator == l.refill * TokenScale
      remainder == shortfall % denominator
  IN  (shortfall \div denominator) * l.interval
        + (remainder * l.interval + denominator - 1) \div denominator

Filled(l, s, now) ==
  IF ~s.seen THEN [seen |-> TRUE, level |-> l.budget * TokenScale, at |-> now]
  ELSE IF now <= s.at THEN s
  ELSE [seen |-> TRUE, level |-> Accrue(l, s.level, now - s.at), at |-> now]

BucketVerdict(l, s, cost, now) ==
  LET available == Filled(l, s, now).level
      want == cost * TokenScale
  IN  IF available >= want THEN Allow
      ELSE IF ~Refillable(l) THEN Impossible
      ELSE RetryAfter(TimeToAccrue(l, want - available))

-----------------------------------------------------------------------------
(* The Limiter interface *)

Would(l, s, cost, now) ==
  IF cost <= 0 THEN Allow
  ELSE IF cost > l.budget THEN Impossible
  ELSE IF l.form = "window" THEN WindowVerdict(l, s, cost, now)
  ELSE BucketVerdict(l, s, cost, now)

\* The state Admit leaves behind; it refuses exactly when Would does.
Charged(l, s, cost, now) ==
  LET fits == Would(l, s, cost, now).allowed IN
  IF cost <= 0 \/ cost > l.budget THEN s
  ELSE IF l.form = "window"
  THEN [Rolled(l, s, now) EXCEPT !.level = IF fits THEN @ + cost ELSE @]
  ELSE [Filled(l, s, now) EXCEPT !.level = IF fits THEN @ - cost * TokenScale ELSE @]

-----------------------------------------------------------------------------
(* Gate *)

RiskReducing(kind) == kind \in {"cancel", "reduceOnly"}

\* A request pays each budget the sum of the meters that charge it.
Costs ==
  [i \in DOMAIN Limits |-> [kind \in RequestKinds |->
     SumFunction([m \in DOMAIN Meters |->
                    IF Meters[m].limiter = i THEN Meters[m].cost[kind] ELSE 0])]]

CostOf(i, kind) == Costs[i][kind]

Refusing(budgets, kind, now) ==
  {i \in DOMAIN Limits : ~Would(Limits[i], budgets[i], CostOf(i, kind), now).allowed}

=============================================================================
