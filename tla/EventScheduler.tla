-------------------------- MODULE EventScheduler --------------------------
(***************************************************************************)
(* The simulated clock and its event scheduler (simulation/clock.go and    *)
(* scheduler.go) as goroutines meet them: Schedule and Cancel hold the     *)
(* scheduler's mutex and may come from any goroutine, or from a callback,  *)
(* at any moment; Advance walks the clock from event to event and gives up *)
(* both mutexes between its steps.                                         *)
(***************************************************************************)
EXTENDS EventQueue

CONSTANTS
    Advancers,      \* goroutines that call Advance
    Deltas,         \* the steps they advance by
    Offsets,        \* first-tick offsets of repeating events
    Intervals,      \* intervals asked for
    MaxEvents,      \* bound: events scheduled
    MaxTime         \* bound: the latest goal, and the latest time scheduled

ASSUME SchedulerAssumption ==
    /\ Deltas \subseteq Nat
    /\ Offsets \subseteq Nat
    /\ Intervals \subseteq Int
    /\ MaxEvents \in Nat /\ MaxTime \in Nat

VARIABLES
    current,        \* SimulatedClock.current
    goal,           \* SimulatedClock.goal
    events,         \* EventScheduler.events
    nextID,
    cancelled,      \* ids flagged because Cancel did not find them queued
    pc,             \* where each advancer is in Advance and ProcessUntil
    target,         \* the time each advancer walks to
    firing,         \* the event each advancer popped last
    retired         \* history: ids whose Cancel has returned

vars == <<current, goal, events, nextID, cancelled, pc, target, firing, retired>>
schedulerVars == <<events, nextID, cancelled, retired>>
walkVars == <<pc, target, firing>>

NoEvent == OneShot(0, 0)

Init ==
    /\ current = 0 /\ goal = 0
    /\ events = {} /\ nextID = 0 /\ cancelled = {} /\ retired = {}
    /\ pc = [a \in Advancers |-> "idle"]
    /\ target = [a \in Advancers |-> 0]
    /\ firing = [a \in Advancers |-> NoEvent]

Push(e) ==
    /\ nextID < MaxEvents
    /\ nextID' = nextID + 1
    /\ events' = events \cup {e}
    /\ UNCHANGED <<current, goal, cancelled, retired, walkVars>>

\* A time in the past is accepted: the event is due at once.
Schedule(at) == Push(OneShot(nextID + 1, at))

ScheduleRepeating(interval) == Push(Repeating(nextID + 1, current, interval, 0))

ScheduleRepeatingWithOffset(interval, offset) ==
    /\ offset < Clamp(interval)         \* anything else panics
    /\ Push(Repeating(nextID + 1, current, interval, offset))

\* An id that is not queued is mid-fire, or gone: either way it is flagged.
CancelForgetsMidFire(id) ==
    /\ events' = Without(events, id)
    /\ retired' = retired \cup {id}
    /\ UNCHANGED <<current, goal, nextID, cancelled, walkVars>>

Cancel(id) ==
    /\ events' = Without(events, id)
    /\ cancelled' = IF \E e \in events : e.id = id THEN cancelled
                                                    ELSE cancelled \cup {id}
    /\ retired' = retired \cup {id}
    /\ UNCHANGED <<current, goal, nextID, walkVars>>

-----------------------------------------------------------------------------
(* Advance and the ProcessUntil loop inside it.                            *)

Later(a, b) == IF a > b THEN a ELSE b

Advance(a, delta) ==
    LET newGoal == Later(goal, current) + delta
    IN  /\ pc[a] = "idle"
        /\ newGoal <= MaxTime
        /\ goal' = newGoal
        /\ target' = [target EXCEPT ![a] = newGoal]
        /\ pc' = [pc EXCEPT ![a] = "pop"]
        /\ UNCHANGED <<current, firing, schedulerVars>>

Pop(a) ==
    LET due == DueBy(events, target[a])
        e   == Earliest(due)
    IN  /\ pc[a] = "pop"
        /\ \/ /\ due = {}
              /\ pc' = [pc EXCEPT ![a] = "rest"]
              /\ UNCHANGED <<events, firing>>
           \/ /\ due # {}
              /\ events' = events \ {e}
              /\ firing' = [firing EXCEPT ![a] = e]
              /\ pc' = [pc EXCEPT ![a] = "read"]
        /\ UNCHANGED <<current, goal, nextID, cancelled, target, retired>>

ReadClock(a) ==
    /\ pc[a] = "read"
    /\ pc' = [pc EXCEPT ![a] = IF firing[a].time > current THEN "set" ELSE "fire"]
    /\ UNCHANGED <<current, goal, target, firing, schedulerVars>>

SetTime(a) ==
    /\ pc[a] = "set"
    /\ current' = firing[a].time
    /\ pc' = [pc EXCEPT ![a] = "fire"]
    /\ UNCHANGED <<goal, target, firing, schedulerVars>>

\* The callback runs without the lock; what it schedules or cancels is a
\* Schedule or Cancel step while pc[a] = "fire".
Reschedule(a) ==
    /\ pc[a] = "fire"
    /\ LET flagged == firing[a].id \in cancelled
       IN  /\ cancelled' = cancelled \ {firing[a].id}
           /\ events' = IF ~flagged /\ firing[a].repeating
                        THEN events \cup {Rescheduled(firing[a])} ELSE events
    /\ pc' = [pc EXCEPT ![a] = "pop"]
    /\ UNCHANGED <<current, goal, nextID, target, firing, retired>>

Rest(a) ==
    /\ pc[a] = "rest"
    /\ current' = Later(current, target[a])
    /\ pc' = [pc EXCEPT ![a] = "idle"]
    /\ UNCHANGED <<goal, target, firing, schedulerVars>>

Walk(a) == Pop(a) \/ ReadClock(a) \/ SetTime(a) \/ Reschedule(a) \/ Rest(a)

Next ==
    \/ \E at \in 0..MaxTime : Schedule(at)
    \/ \E interval \in Intervals :
          \/ ScheduleRepeating(interval)
          \/ \E offset \in Offsets : ScheduleRepeatingWithOffset(interval, offset)
    \/ \E id \in 1..nextID : Cancel(id)
    \/ \E a \in Advancers, delta \in Deltas : Advance(a, delta)
    \/ \E a \in Advancers : Walk(a)

Spec == Init /\ [][Next]_vars

\* A goroutine inside Advance takes its next step: it never waits for another
\* longer than a mutex is held.
FairSpec == Spec /\ \A a \in Advancers : WF_vars(Walk(a))

-----------------------------------------------------------------------------
(* Properties *)

Events == [id : 0..MaxEvents, time : Nat, repeating : BOOLEAN, interval : Nat]

\* Every variable has its type, and an id is queued at most once.
TypeOK ==
    /\ current \in 0..MaxTime /\ goal \in 0..MaxTime
    /\ events \subseteq Events /\ nextID \in 0..MaxEvents
    /\ \A e, f \in events : e.id = f.id => e = f
    /\ cancelled \subseteq 1..MaxEvents /\ retired \subseteq 1..MaxEvents
    /\ pc \in [Advancers -> {"idle", "pop", "read", "set", "fire", "rest"}]
    /\ target \in [Advancers -> 0..MaxTime] /\ firing \in [Advancers -> Events]

\* Simulated time never runs backwards (processUntil: "the guard only ever
\* moves the clock forward").
ClockNeverGoesBack == [][current' >= current]_vars

\* A callback never runs before its own instant (processUntil: "so the callback
\* sees its own instant").
NeverFiresEarly == \A a \in Advancers : pc[a] = "fire" => current >= firing[a].time

\* Once Cancel has returned, the event is never queued again, whether Cancel
\* met it in the queue or while it was firing (scheduler.go: "what stops a
\* repeating event from being re-pushed as an uncancellable zombie").
CancelledStaysCancelled == \A e \in events : e.id \notin retired

\* When no Advance is under way the clock rests exactly where all the Advance
\* calls together asked for (clock.go: "concurrent Advance calls compose
\* additively").
AdvancesCompose == (\A a \in Advancers : pc[a] = "idle") => current = goal

\* Every Advance returns, whatever is scheduled and cancelled meanwhile
\* (ScheduleRepeating: "turning ProcessUntil into an infinite loop").
AdvanceReturns == \A a \in Advancers : pc[a] # "idle" ~> pc[a] = "idle"
===========================================================================
