---- MODULE MCMeteredActor ----
(***************************************************************************)
(* The budgets of the checked instance: a request-weight window in which   *)
(* an order pays twice (once as a request, once as an order) and a query   *)
(* costs most of it, and an order bucket whose refill does not divide its  *)
(* interval.                                                               *)
(***************************************************************************)
EXTENDS MeteredActor

TwoBudgets ==
  <<[form |-> "window", budget |-> 4, refill |-> 0, interval |-> 3],
    [form |-> "bucket", budget |-> 1, refill |-> 2, interval |-> 3]>>

Weight == [place |-> 1, cancel |-> 1, query |-> 3]
Surcharge == [place |-> 1, cancel |-> 0, query |-> 0]
Placements == [place |-> 1, cancel |-> 0, query |-> 0]

ThreeMeters ==
  <<[limiter |-> 1, cost |-> Weight], [limiter |-> 2, cost |-> Placements],
    [limiter |-> 1, cost |-> Surcharge]>>

====
