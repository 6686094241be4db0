---------------------------- MODULE RequestPolicy ----------------------------
(***************************************************************************)
(* The request policy of a venue (exchange.TieredRequestPolicy) for one    *)
(* client: the budgets of the client's tier and the two lanes of its       *)
(* admission queue, composed by ratelimit.Gate.  A request is refused or   *)
(* permitted as a whole, at the venue's time; a permit holds a slot of its *)
(* lane until the handler gives it back.                                   *)
(***************************************************************************)
EXTENDS RateLimits

VARIABLES now,              \* the venue's simulated clock
          metered,          \* whether classify names a configured tier
          secondaryDepth,   \* SecondaryDepth of the tier's queue: 0 closes the lane
          budgets,          \* the limiters' state for this client
          lanes,            \* AdmissionQueue.priority and .secondary
          admitted,         \* history: the admissions, oldest first
          promise           \* history: per limiter, the latest advice not overtaken

policyVars == <<metered, secondaryDepth, budgets, lanes, admitted, promise>>

NoPromise == [since |-> 0, at |-> 0, cost |-> 0]

PolicyInit ==
  /\ now = 0
  /\ \/ metered = TRUE /\ secondaryDepth \in 0..1
     \/ metered = FALSE /\ secondaryDepth = 1
  /\ budgets = [i \in DOMAIN Limits |-> Unseen]
  /\ lanes = [priority |-> 0, secondary |-> 0]
  /\ admitted = <<>>
  /\ promise = [i \in DOMAIN Limits |-> NoPromise]

-----------------------------------------------------------------------------
(* Admission *)

\* Gate.Admit: the budgets first, then the queue; a refusal charges nothing.
Decision(kind) ==
  LET refusing == Refusing(budgets, kind, now)
      full == ~RiskReducing(kind) /\ lanes.secondary >= secondaryDepth
  IN  IF ~metered THEN Allow
      ELSE IF refusing # {}
      THEN LET i == Min(refusing) IN Would(Limits[i], budgets[i], CostOf(i, kind), now)
      ELSE IF full THEN Overloaded ELSE Allow

Lane(kind) == IF RiskReducing(kind) THEN "priority" ELSE "secondary"

Spent(kind) ==
  [i \in DOMAIN Limits |-> Charged(Limits[i], budgets[i], CostOf(i, kind), now)]

\* What the admissions so far have cost a budget; one that costs nothing or less
\* gives nothing back.
Paid(i) == IF admitted = <<>> THEN 0 ELSE admitted[Len(admitted)].after[i]

Admission(kind) ==
  [at |-> now, before |-> [i \in DOMAIN Limits |-> Paid(i)],
   after |-> [i \in DOMAIN Limits |->
                IF CostOf(i, kind) > 0 THEN Paid(i) + CostOf(i, kind) ELSE Paid(i)]]

Refused(kind) ==
  LET decision == Decision(kind)
      i == Min(Refusing(budgets, kind, now))
  IN  /\ ~decision.allowed
      /\ promise' = IF decision.why # "budget" THEN promise
                    ELSE [promise EXCEPT ![i] = [since |-> now, at |-> now + decision.wait,
                                                 cost |-> CostOf(i, kind)]]
      /\ UNCHANGED <<now, metered, secondaryDepth, budgets, lanes, admitted>>

Permitted(kind) ==
  /\ Decision(kind).allowed
  /\ IF metered
     THEN /\ budgets' = Spent(kind)
          /\ lanes' = [lanes EXCEPT ![Lane(kind)] = @ + 1]
          /\ admitted' = Append(admitted, Admission(kind))
          /\ promise' = [i \in DOMAIN Limits |->
                           IF CostOf(i, kind) > 0 THEN NoPromise ELSE promise[i]]
     ELSE UNCHANGED <<budgets, lanes, admitted, promise>>
  /\ UNCHANGED <<now, metered, secondaryDepth>>

\* The slot goes back to the lane of new orders, whatever lane it came from.
ReleasedSecondary(kind) ==
  IF metered THEN [lanes EXCEPT !.secondary = @ - 1] ELSE lanes

Released(kind) ==
  IF metered THEN [lanes EXCEPT ![Lane(kind)] = @ - 1] ELSE lanes

\* Release: the permit of a request of this kind is given back.
Completed(kind) ==
  /\ metered => lanes[Lane(kind)] > 0
  /\ lanes' = Released(kind)
  /\ UNCHANGED <<now, metered, secondaryDepth, budgets, admitted, promise>>

TimePasses ==
  /\ now' = now + 1
  /\ UNCHANGED policyVars

PolicyNext ==
  \/ TimePasses
  \/ \E kind \in RequestKinds : Completed(kind) \/ Refused(kind) \/ Permitted(kind)

\* What the policy does by itself, whatever its clients ask and when.
PolicySpec == PolicyInit /\ [][PolicyNext]_<<now, policyVars>>

-----------------------------------------------------------------------------
(* Properties *)

\* What the admissions from the j-th to the k-th cost a budget.
SpentOver(i, j, k) == admitted[k].after[i] - admitted[j].before[i]

\* What a limiter lets through from one admission to a later one.
Fits(l, from, to, spent) ==
  IF l.form = "window"
  THEN WindowStart(l, from) = WindowStart(l, to) => spent <= l.budget
  ELSE IF Refillable(l)
  THEN spent * l.interval <= l.budget * l.interval + l.refill * (to - from)
  ELSE spent <= l.budget

\* A client never gets more through a budget than the budget says: in every
\* interval of a fixed window at most its quota, and over every span of time at
\* most a token bucket's capacity and what it refills in that span - however the
\* requests are timed.  A window that never rolls over, or a bucket that does not
\* refill, is spent once (FixedWindow.Admit, TokenBucket.accrue, Gate.Admit).
BudgetsHold ==
  \A i \in DOMAIN Limits, j, k \in DOMAIN admitted :
    j <= k => Fits(Limits[i], admitted[j].at, admitted[k].at, SpentOver(i, j, k))

\* A limiter's new advice does not go back on the advice that stood.
HonestStep ==
  \A i \in DOMAIN Limits :
    (promise'[i] # promise[i] /\ promise'[i] # NoPromise /\ promise[i] # NoPromise)
      => \/ now < promise[i].at
         \/ promise'[i].cost > promise[i].cost

\* Who waits as long as a refusal said is not refused again by that budget for
\* the same cost, unless it spent from the budget in between
\* (TokenBucket.timeToAccrue, FixedWindow.Would).
AdviceIsHonest == [][HonestStep]_<<now, policyVars>>
=============================================================================
