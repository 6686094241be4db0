------------------------ MODULE EventSchedulerProofs ------------------------
(***************************************************************************)
(* What the scheduler keeps for any number of goroutines and events: an    *)
(* event whose Cancel has returned is never queued again.  And what only   *)
(* one advancing goroutine keeps: the clock never goes back, no callback   *)
(* sees a time before its own, and Advance stops exactly at the goal.      *)
(***************************************************************************)
EXTENDS EventScheduler, WellFoundedInduction, TLAPS

Walking == {"read", "set", "fire"}

EventRecords == [id : Nat, time : Nat, repeating : BOOLEAN, interval : Nat]

TypeInv ==
    /\ current \in Nat /\ goal \in Nat /\ nextID \in Nat
    /\ events \subseteq EventRecords
    /\ pc \in [Advancers -> {"idle", "pop", "rest"} \cup Walking]
    /\ target \in [Advancers -> Nat]
    /\ firing \in [Advancers -> EventRecords]

\* An event is in one place: queued, or in the hands of one advancer.
OnePlace ==
    /\ \A e \in events : e.id \in 1..nextID
    /\ \A a \in Advancers : pc[a] \in Walking => firing[a].id \in 1..nextID
    /\ \A e, f \in events : e.id = f.id => e = f
    /\ \A a \in Advancers, e \in events : pc[a] \in Walking => e.id # firing[a].id
    /\ \A a, b \in Advancers :
         pc[a] \in Walking /\ pc[b] \in Walking /\ firing[a].id = firing[b].id => a = b

\* An event that was being fired when Cancel came is flagged until its advancer
\* has looked.
FlaggedWhileFiring ==
    \A a \in Advancers :
        pc[a] \in Walking /\ firing[a].id \in retired => firing[a].id \in cancelled

CancelInv ==
    /\ TypeInv
    /\ OnePlace
    /\ retired \subseteq 1..nextID
    /\ FlaggedWhileFiring
    /\ CancelledStaysCancelled

-----------------------------------------------------------------------------
(* The queue.                                                              *)

\* Every nonempty set of natural numbers has a least element.
LEMMA LeastNatural ==
    ASSUME NEW T, T \subseteq Nat, T # {}
    PROVE  \E x \in T : \A y \in T : x <= y
  <1> DEFINE R == OpToRel(<, Nat)
  <1>1. \E x \in T : \A y \in T : ~ (<<y, x>> \in R)
    BY NatLessThanWellFounded, WFMin, Zenon
  <1>2. PICK x \in T : \A y \in T : ~ (<<y, x>> \in R)
    BY <1>1
  <1>3. \A y \in T : x <= y
    <2> SUFFICES ASSUME NEW y \in T, y < x PROVE FALSE
      BY SMT
    <2>1. <<y, x>> \in R
      BY DEF OpToRel
    <2> QED
      BY <1>2, <2>1
  <1> QED
    BY <1>3

\* The heap's root (Earliest) is one of the events queued.
LEMMA EarliestQueued ==
    ASSUME NEW q \in SUBSET EventRecords, q # {}, \A e, f \in q : e.id = f.id => e = f
    PROVE  Earliest(q) \in q
  <1> DEFINE times == {e.time : e \in q}
  <1>1. PICK t \in times : \A u \in times : t <= u
    <2>1. times \subseteq Nat /\ times # {}
      BY DEF EventRecords
    <2> HIDE DEF times
    <2> QED
      BY <2>1, LeastNatural
  <1> DEFINE ids == {e.id : e \in {f \in q : f.time = t}}
  <1>2. PICK i \in ids : \A j \in ids : i <= j
    <2>1. ids \subseteq Nat /\ ids # {}
      BY <1>1 DEF EventRecords
    <2> HIDE DEF ids
    <2> QED
      BY <2>1, LeastNatural
  <1>3. PICK e \in q : e.time = t /\ e.id = i
    BY <1>2
  <1>4. \A f \in q \ {e} : Before(e, f)
    <2> SUFFICES ASSUME NEW f \in q \ {e} PROVE Before(e, f)
      OBVIOUS
    <2>1. e.time <= f.time /\ e.id # f.id
      BY <1>1, <1>3
    <2>2. f.time = t => e.id <= f.id
      BY <1>2, <1>3
    <2> QED
      BY <1>3, <2>1, <2>2 DEF Before, EventRecords
  <1> QED
    BY <1>4 DEF Earliest

\* The event an advancer pops was queued and is due.
LEMMA PoppedWasDue ==
    ASSUME TypeInv, OnePlace, NEW a \in Advancers, DueBy(events, target[a]) # {}
    PROVE  /\ Earliest(DueBy(events, target[a])) \in events
           /\ Earliest(DueBy(events, target[a])).time <= target[a]
  <1> DEFINE due == DueBy(events, target[a])
  <1>1. due \in SUBSET EventRecords /\ due # {} /\ \A e, f \in due : e.id = f.id => e = f
    BY DEF DueBy, TypeInv, OnePlace
  <1>2. Earliest(due) \in due
    <2> HIDE DEF due
    <2> QED
      BY <1>1, EarliestQueued
  <1> QED
    BY <1>2 DEF DueBy

-----------------------------------------------------------------------------
(* Cancelled events.                                                       *)

\* Scheduling an event under a new id keeps the invariant.
LEMMA PushKeepsCancelInv ==
    ASSUME CancelInv, NEW e \in EventRecords, e.id = nextID + 1, Push(e)
    PROVE  CancelInv'
  <1>1. TypeInv'
    BY DEF CancelInv, TypeInv, Push, walkVars
  <1>2. OnePlace'
    BY DEF CancelInv, TypeInv, OnePlace, Push, walkVars
  <1>3. retired' \subseteq 1..nextID' /\ e.id \notin retired
    BY DEF CancelInv, TypeInv, Push
  <1> QED
    BY <1>1, <1>2, <1>3
    DEF CancelInv, FlaggedWhileFiring, CancelledStaysCancelled, Push, walkVars

\* Cancel keeps it, whether the event is queued, being fired or gone.
LEMMA CancelKeepsCancelInv ==
    ASSUME CancelInv, NEW id \in 1..nextID, Cancel(id)
    PROVE  CancelInv'
  <1>1. TypeInv'
    BY DEF CancelInv, TypeInv, Cancel, walkVars, Without
  <1>2. OnePlace'
    BY DEF CancelInv, TypeInv, OnePlace, Cancel, walkVars, Without
  <1>3. retired' \subseteq 1..nextID'
    BY DEF CancelInv, Cancel
  <1>4. FlaggedWhileFiring'
    <2> SUFFICES ASSUME NEW a \in Advancers, pc[a] \in Walking,
                        firing[a].id \in retired \cup {id}
                 PROVE  firing[a].id \in cancelled'
      BY DEF FlaggedWhileFiring, Cancel, walkVars
    <2>1. CASE firing[a].id = id
      <3>1. ~ \E e \in events : e.id = id
        BY <2>1 DEF CancelInv, OnePlace
      <3> QED
        BY <2>1, <3>1 DEF Cancel
    <2>2. CASE firing[a].id \in retired
      BY <2>2 DEF CancelInv, FlaggedWhileFiring, Cancel
    <2> QED
      BY <2>1, <2>2
  <1>5. CancelledStaysCancelled'
    BY DEF CancelInv, CancelledStaysCancelled, Cancel, Without
  <1> QED
    BY <1>1, <1>2, <1>3, <1>4, <1>5 DEF CancelInv

\* Taking the earliest due event off the queue keeps it.
LEMMA PopKeepsCancelInv ==
    ASSUME CancelInv, NEW a \in Advancers, Pop(a)
    PROVE  CancelInv'
  <1>1. CASE DueBy(events, target[a]) = {}
    <2>1. pc' = [pc EXCEPT ![a] = "rest"] /\ UNCHANGED <<events, firing>>
      BY <1>1 DEF Pop
    <2>2. \A b \in Advancers : pc'[b] \in Walking => pc[b] \in Walking
      BY <2>1 DEF CancelInv, TypeInv, Walking
    <2>3. TypeInv'
      BY <2>1 DEF CancelInv, TypeInv, Pop
    <2> QED
      BY <2>1, <2>2, <2>3
      DEF CancelInv, OnePlace, FlaggedWhileFiring, CancelledStaysCancelled, Pop
  <1>2. CASE DueBy(events, target[a]) # {}
    <2> DEFINE e == Earliest(DueBy(events, target[a]))
    <2>1. e \in events
      BY <1>2, PoppedWasDue DEF CancelInv
    <2>2. /\ events' = events \ {e}
          /\ firing' = [firing EXCEPT ![a] = e]
          /\ pc' = [pc EXCEPT ![a] = "read"]
          /\ UNCHANGED <<current, goal, nextID, cancelled, target, retired>>
          /\ pc[a] = "pop"
      BY <1>2 DEF Pop
    <2> HIDE DEF e
    <2>3. TypeInv'
      BY <2>1, <2>2 DEF CancelInv, TypeInv, Walking
    <2>4. /\ firing'[a] = e /\ pc'[a] = "read"
          /\ \A b \in Advancers \ {a} : firing'[b] = firing[b] /\ pc'[b] = pc[b]
      BY <2>2 DEF CancelInv, TypeInv
    <2>5. OnePlace'
      <3>1. \A f \in events' : f \in events /\ f.id # e.id
        BY <2>1, <2>2 DEF CancelInv, OnePlace
      <3> QED
        BY <2>1, <2>2, <2>4, <3>1 DEF CancelInv, OnePlace
    <2>6. e.id \notin retired
      BY <2>1 DEF CancelInv, CancelledStaysCancelled
    <2> QED
      BY <2>2, <2>3, <2>4, <2>5, <2>6
      DEF CancelInv, FlaggedWhileFiring, CancelledStaysCancelled
  <1> QED
    BY <1>1, <1>2

\* Moving the clock, and coming to rest, keeps it.
LEMMA ClockKeepsCancelInv ==
    ASSUME CancelInv, NEW a \in Advancers, ReadClock(a) \/ SetTime(a) \/ Rest(a)
    PROVE  CancelInv'
  <1>1. firing' = firing /\ events' = events /\ cancelled' = cancelled
          /\ retired' = retired /\ nextID' = nextID
    BY DEF ReadClock, SetTime, Rest, schedulerVars
  <1>2. \A b \in Advancers : pc'[b] \in Walking => pc[b] \in Walking
    BY DEF CancelInv, TypeInv, ReadClock, SetTime, Rest, Walking
  <1>3. TypeInv'
    <2>1. firing[a].time \in Nat /\ target[a] \in Nat
      BY DEF CancelInv, TypeInv, EventRecords
    <2> QED
      BY <1>1, <2>1 DEF CancelInv, TypeInv, ReadClock, SetTime, Rest, Walking, Later
  <1> QED
    BY <1>1, <1>2, <1>3 DEF CancelInv, OnePlace, FlaggedWhileFiring, CancelledStaysCancelled

\* Queueing a repeating event again after its callback keeps it.
LEMMA RescheduleKeepsCancelInv ==
    ASSUME CancelInv, NEW a \in Advancers, Reschedule(a)
    PROVE  CancelInv'
  <1> DEFINE e == firing[a]
             n == Rescheduled(e)
             again == e.id \notin cancelled /\ e.repeating
  <1>1. /\ pc[a] = "fire"
        /\ cancelled' = cancelled \ {e.id}
        /\ events' = IF again THEN events \cup {n} ELSE events
        /\ pc' = [pc EXCEPT ![a] = "pop"]
        /\ UNCHANGED <<current, goal, nextID, target, firing, retired>>
    BY DEF Reschedule
  <1>2. e \in EventRecords
    BY DEF CancelInv, TypeInv
  <1>3. n \in EventRecords /\ n.id = e.id
    BY <1>2 DEF Rescheduled, EventRecords
  <1>4. /\ pc'[a] = "pop"
        /\ \A b \in Advancers \ {a} : pc'[b] = pc[b]
    BY <1>1 DEF CancelInv, TypeInv
  <1>5. e.id \in 1..nextID /\ (\A f \in events : f.id # e.id)
          /\ \A b \in Advancers \ {a} : pc[b] \in Walking => firing[b].id # e.id
    BY <1>1 DEF CancelInv, OnePlace, Walking
  <1>6. again => e.id \notin retired
    BY <1>1 DEF CancelInv, FlaggedWhileFiring, Walking
  <1> HIDE DEF e, n, again
  <1>7. TypeInv'
    BY <1>1, <1>3 DEF CancelInv, TypeInv
  <1>8. OnePlace'
    BY <1>1, <1>3, <1>4, <1>5 DEF CancelInv, OnePlace, Walking
  <1>9. FlaggedWhileFiring'
    BY <1>1, <1>4, <1>5 DEF CancelInv, FlaggedWhileFiring, Walking
  <1>10. CancelledStaysCancelled'
    BY <1>1, <1>3, <1>6 DEF CancelInv, CancelledStaysCancelled
  <1> QED
    BY <1>1, <1>7, <1>8, <1>9, <1>10 DEF CancelInv

\* The invariant holds throughout.
LEMMA CancelInvHolds == Spec => []CancelInv
  <1>1. Init => CancelInv
    BY DEF Init, CancelInv, TypeInv, OnePlace, FlaggedWhileFiring,
           CancelledStaysCancelled, Walking, NoEvent, OneShot, EventRecords
  <1>2. CancelInv /\ [Next]_vars => CancelInv'
    <2> SUFFICES ASSUME CancelInv, [Next]_vars PROVE CancelInv'
      OBVIOUS
    <2>1. ASSUME NEW at \in 0..MaxTime, Schedule(at) PROVE CancelInv'
      <3>1. OneShot(nextID + 1, at) \in EventRecords /\ OneShot(nextID + 1, at).id = nextID + 1
        BY <2>1, SchedulerAssumption DEF CancelInv, TypeInv, OneShot, EventRecords
      <3> QED
        BY <2>1, <3>1, PushKeepsCancelInv DEF Schedule
    <2>2. ASSUME NEW interval \in Intervals, ScheduleRepeating(interval) PROVE CancelInv'
      <3> DEFINE e == Repeating(nextID + 1, current, interval, 0)
      <3>1. e \in EventRecords /\ e.id = nextID + 1
        BY SchedulerAssumption DEF CancelInv, TypeInv, Repeating, Clamp, EventRecords
      <3> HIDE DEF e
      <3> QED
        BY <2>2, <3>1, PushKeepsCancelInv DEF ScheduleRepeating, e
    <2>3. ASSUME NEW interval \in Intervals, NEW offset \in Offsets,
                 ScheduleRepeatingWithOffset(interval, offset)
          PROVE  CancelInv'
      <3> DEFINE e == Repeating(nextID + 1, current, interval, offset)
      <3>1. e \in EventRecords /\ e.id = nextID + 1
        BY SchedulerAssumption DEF CancelInv, TypeInv, Repeating, Clamp, EventRecords
      <3> HIDE DEF e
      <3> QED
        BY <2>3, <3>1, PushKeepsCancelInv DEF ScheduleRepeatingWithOffset, e
    <2>4. ASSUME NEW id \in 1..nextID, Cancel(id) PROVE CancelInv'
      BY <2>4, CancelKeepsCancelInv
    <2>5. ASSUME NEW a \in Advancers, NEW delta \in Deltas, Advance(a, delta)
          PROVE  CancelInv'
      <3>1. \A b \in Advancers : pc'[b] \in Walking => pc[b] \in Walking
        BY <2>5 DEF CancelInv, TypeInv, Advance, Walking
      <3>2. TypeInv'
        BY <2>5, SchedulerAssumption
        DEF CancelInv, TypeInv, Advance, Later, schedulerVars
      <3> QED
        BY <2>5, <3>1, <3>2 DEF CancelInv, OnePlace, FlaggedWhileFiring,
                               CancelledStaysCancelled, Advance, schedulerVars
    <2>6. ASSUME NEW a \in Advancers, Walk(a) PROVE CancelInv'
      BY <2>6, PopKeepsCancelInv, ClockKeepsCancelInv, RescheduleKeepsCancelInv DEF Walk
    <2>7. CASE UNCHANGED vars
      BY <2>7 DEF vars, CancelInv, TypeInv, OnePlace, FlaggedWhileFiring,
                  CancelledStaysCancelled
    <2> QED
      BY <2>1, <2>2, <2>3, <2>4, <2>5, <2>6, <2>7 DEF Next
  <1> QED
    BY <1>1, <1>2, PTL DEF Spec

\* Once Cancel has returned the event is never queued again, for any number of
\* goroutines that advance the clock, schedule and cancel (scheduler.go, Cancel).
THEOREM CancelIsFinal == Spec => []CancelledStaysCancelled
  <1>1. CancelInv => CancelledStaysCancelled
    BY DEF CancelInv
  <1> QED
    BY <1>1, CancelInvHolds, PTL

-----------------------------------------------------------------------------
(* One advancing goroutine, as the runner has it.                          *)

OneAdvancer == \A a, b \in Advancers : a = b

ClockInv ==
    /\ current <= goal
    /\ AdvancesCompose
    /\ NeverFiresEarly
    /\ \A a \in Advancers :
         /\ pc[a] # "idle" => target[a] = goal
         /\ pc[a] \in Walking => firing[a].time <= goal
         /\ pc[a] = "set" => current < firing[a].time

\* A step of the one advancer keeps the clock between the event it fires and
\* the goal, and moves it only forward.
LEMMA WalkKeepsClockInv ==
    ASSUME OneAdvancer, CancelInv, ClockInv, NEW a \in Advancers, Walk(a)
    PROVE  ClockInv' /\ current' >= current
  <1>1. /\ current \in Nat /\ goal \in Nat /\ target[a] \in Nat
        /\ firing[a].time \in Nat
        /\ pc \in [Advancers -> {"idle", "pop", "rest"} \cup Walking]
    BY DEF CancelInv, TypeInv, EventRecords
  <1>2. \A b \in Advancers : b = a
    BY DEF OneAdvancer
  <1>3. goal' = goal /\ target' = target
    BY DEF Walk, Pop, ReadClock, SetTime, Reschedule, Rest, schedulerVars
  <1> USE <1>1, <1>2, <1>3
      DEF ClockInv, AdvancesCompose, NeverFiresEarly, Walking
  <1>4. CASE Pop(a)
    <2>1. CASE DueBy(events, target[a]) = {}
      BY <1>4, <2>1 DEF Pop
    <2>2. CASE DueBy(events, target[a]) # {}
      <3>1. Earliest(DueBy(events, target[a])).time <= target[a]
        BY <2>2, PoppedWasDue DEF CancelInv
      <3>2. /\ firing'[a].time <= goal /\ target[a] = goal
            /\ pc'[a] = "read" /\ current' = current
        BY <1>4, <2>2, <3>1 DEF Pop, CancelInv, TypeInv
      <3> QED
        BY <3>2
    <2> QED
      BY <2>1, <2>2
  <1>5. CASE ReadClock(a)
    BY <1>5 DEF ReadClock, schedulerVars
  <1>6. CASE SetTime(a)
    BY <1>6 DEF SetTime, schedulerVars
  <1>7. CASE Reschedule(a)
    BY <1>7 DEF Reschedule
  <1>8. CASE Rest(a)
    BY <1>8 DEF Rest, Later, schedulerVars
  <1> QED
    BY <1>4, <1>5, <1>6, <1>7, <1>8 DEF Walk

\* With one goroutine advancing it, as the runner has it, the clock never goes
\* back, a callback never runs before its instant and Advance ends exactly at the
\* goal, whatever is scheduled and cancelled meanwhile (clock.go, Advance;
\* scheduler.go, processUntil).  The run concurrent_advance shows that two
\* goroutines break it.
THEOREM OneAdvancerClock ==
    ASSUME OneAdvancer
    PROVE  Spec => /\ [](NeverFiresEarly /\ AdvancesCompose)
                   /\ ClockNeverGoesBack
  <1>1. Init => ClockInv
    BY DEF Init, ClockInv, AdvancesCompose, NeverFiresEarly, Walking
  <1>2. CancelInv /\ ClockInv /\ [Next]_vars => ClockInv' /\ [current' >= current]_vars
    <2> SUFFICES ASSUME CancelInv, ClockInv, [Next]_vars
                 PROVE  ClockInv' /\ [current' >= current]_vars
      OBVIOUS
    <2>1. ASSUME UNCHANGED <<current, goal, pc, target, firing>>
          PROVE  ClockInv' /\ [current' >= current]_vars
      BY <2>1 DEF ClockInv, AdvancesCompose, NeverFiresEarly, CancelInv, TypeInv
    <2>2. CASE \/ \E at \in 0..MaxTime : Schedule(at)
               \/ \E interval \in Intervals : ScheduleRepeating(interval)
               \/ \E interval \in Intervals, offset \in Offsets :
                     ScheduleRepeatingWithOffset(interval, offset)
               \/ \E id \in 1..nextID : Cancel(id)
               \/ UNCHANGED vars
      BY <2>1, <2>2 DEF Schedule, ScheduleRepeating, ScheduleRepeatingWithOffset,
                        Push, Cancel, walkVars, vars
    <2>3. ASSUME NEW a \in Advancers, NEW delta \in Deltas, Advance(a, delta)
          PROVE  ClockInv' /\ [current' >= current]_vars
      <3>1. \A b \in Advancers : b = a
        BY DEF OneAdvancer
      <3>2. current = goal /\ current \in Nat /\ delta \in Nat
        BY <2>3, <3>1, SchedulerAssumption
        DEF Advance, ClockInv, AdvancesCompose, CancelInv, TypeInv
      <3> QED
        BY <2>3, <3>1, <3>2 DEF Advance, ClockInv, AdvancesCompose, NeverFiresEarly,
                               CancelInv, TypeInv, Walking, Later, schedulerVars
    <2>4. ASSUME NEW a \in Advancers, Walk(a)
          PROVE  ClockInv' /\ [current' >= current]_vars
      BY <2>4, WalkKeepsClockInv
    <2> QED
      BY <2>2, <2>3, <2>4 DEF Next
  <1>3. ClockInv => NeverFiresEarly /\ AdvancesCompose
    BY DEF ClockInv
  <1> QED
    BY <1>1, <1>2, <1>3, CancelInvHolds, PTL DEF Spec, ClockNeverGoesBack
=============================================================================
