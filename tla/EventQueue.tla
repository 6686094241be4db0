---------------------------- MODULE EventQueue ----------------------------
(***************************************************************************)
(* The scheduler's priority queue (simulation/scheduler.go, eventHeap).    *)
(* A queue is a set of events, records with at least an id, a time, a flag *)
(* repeating and an interval; ids are never reused.                        *)
(***************************************************************************)
EXTENDS Integers

\* Less: by time, then by schedule sequence.
Before(e, f) == e.time < f.time \/ (e.time = f.time /\ e.id < f.id)

Earliest(queue) == CHOOSE e \in queue : \A f \in queue \ {e} : Before(e, f)

DueBy(queue, time) == {e \in queue : e.time <= time}

\* The due time only moves when the interval is positive.
ClampUnclamped(interval) == interval

Clamp(interval) == IF interval < 1 THEN 1 ELSE interval

OneShot(id, at) == [id |-> id, time |-> at, repeating |-> FALSE, interval |-> 0]

Repeating(id, now, interval, offset) ==
    [id |-> id, time |-> now + Clamp(interval) + offset,
     repeating |-> TRUE, interval |-> Clamp(interval)]

Rescheduled(e) == [e EXCEPT !.time = @ + e.interval]

Without(queue, id) == {e \in queue : e.id # id}
===========================================================================
