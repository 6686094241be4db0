---------------------------- MODULE CarryDesks ----------------------------
(***************************************************************************)
(* The two-leg carry desks of simulations/multivenue: CarryArbitrageur,    *)
(* FundingCarryArbitrageur, TermCarryAllocator, DatedTermCarryAllocator.   *)
(* Each is a pair of operators: what a ticker callback does, given the     *)
(* desk's configuration c, its state d, what it last observed (obs), the   *)
(* time and the next request id; and what an event of one of its orders    *)
(* does.                                                                   *)
(*                                                                         *)
(* obs.view is the outcome of the desk's economics (mids, basis, funding   *)
(* age, financials against the configured minimum): the future is Rich or  *)
(* Cheap enough to enter, the basis has Closed, or the desk has NoView.    *)
(***************************************************************************)
EXTENDS DeskRequests

Rich == 1
Cheap == -1
Closed == 2
NoView == 0

NewCarryDesk(legs) ==
    [subscribed |-> FALSE, pos |-> [leg \in legs |-> 0], pending |-> Nothing]

Mismatch(d) == d.pos.spot + d.pos.perp

BothMids(obs) == TwoSided(obs.spot) /\ TwoSided(obs.perp)

Traded(d, e) == [d EXCEPT !.pos[e.leg] = @ + Signed(e)]

---------------------------------------------------------------------------
(* carry.go: one flag says a request is outstanding; no ids are matched.   *)

targetCarry(c, d, obs) ==
    CASE ~BothMids(obs) -> d.pos.spot
      [] obs.view \in {Rich, Cheap} -> obs.view * c.maxPosition
      [] obs.view = Closed -> 0
      [] OTHER -> d.pos.spot

carryOnTick(c, d, obs, id) ==
    LET gap == targetCarry(c, d, obs) - d.pos.spot
    IN  CASE ~d.subscribed -> Defer([d EXCEPT !.subscribed = TRUE])
          [] d.pending.id # 0 -> Defer(d)
          [] Mismatch(d) # 0 ->
               Immediate(d, id, "perp", -Mismatch(d),
                         orderFromGap(c.lot, obs.perp, -Mismatch(d), c.minOrderSize))
          [] gap # 0 ->
               Immediate(d, id, "spot", gap,
                         orderFromGap(c.lot, obs.spot, gap, c.minOrderSize))
          [] OTHER -> Defer(d)

carryHandleEvent(d, e) ==
    CASE e.kind = "fill" ->
           LET filled == Traded(d, e)
           IN  IF e.full THEN [filled EXCEPT !.pending = Nothing] ELSE filled
      [] e.kind \in {"cancelled", "rejected"} -> [d EXCEPT !.pending = Nothing]
      [] OTHER -> d

---------------------------------------------------------------------------
(* funding_carry.go *)

fundingTerminalRoundTripCensored(c, now) == c.terminal # 0 /\ now + 2 > c.terminal

fundingOnTickTargetFirst(c, d, obs, now, id) ==
    LET gap == obs.view * c.maxPosition - d.pos.spot
    IN  CASE ~d.subscribed -> Defer([d EXCEPT !.subscribed = TRUE])
          [] d.pending.id # 0 -> Defer(d)
          [] fundingTerminalRoundTripCensored(c, now) -> Defer(d)
          [] obs.view \notin {Rich, Cheap} \/ ~BothMids(obs) -> Defer(d)
          [] gap # 0 ->
               Immediate(d, id, "spot", gap,
                         orderFromGap(c.lot, obs.spot, gap, c.minOrderSize))
          [] OTHER ->
               Immediate(d, id, "perp", -Mismatch(d),
                         orderFromGap(c.lot, obs.perp, -Mismatch(d), c.minOrderSize))

fundingOnTick(c, d, obs, now, id) ==
    LET gap == obs.view * c.maxPosition - d.pos.spot
    IN  CASE ~d.subscribed -> Defer([d EXCEPT !.subscribed = TRUE])
          [] d.pending.id # 0 -> Defer(d)
          [] fundingTerminalRoundTripCensored(c, now) -> Defer(d)
          [] Mismatch(d) # 0 ->
               Immediate(d, id, "perp", -Mismatch(d),
                         orderFromGap(c.lot, obs.perp, -Mismatch(d), c.minOrderSize))
          [] obs.view \notin {Rich, Cheap} \/ ~BothMids(obs) \/ gap = 0 -> Defer(d)
          [] OTHER ->
               Immediate(d, id, "spot", gap,
                         orderFromGap(c.lot, obs.spot, gap, c.minOrderSize))

SettleOnAnyFill(d, e) ==
    CASE ~Concerns(d.pending, e) -> d
      [] e.kind = "accepted" -> [d EXCEPT !.pending.accepted = TRUE]
      [] e.kind = "fill" -> [Traded(d, e) EXCEPT !.pending = Nothing]
      [] e.kind \in {"rejected", "cancelled"} -> [d EXCEPT !.pending = Nothing]
      [] OTHER -> [d EXCEPT !.pending.cancel = 0]

SettleWithoutRetry(d, e) ==
    CASE ~Concerns(d.pending, e) -> d
      [] e.kind = "accepted" -> [d EXCEPT !.pending.accepted = TRUE]
      [] e.kind = "fill" ->
           LET filled == Traded(d, e)
           IN  IF e.full THEN [filled EXCEPT !.pending = Nothing] ELSE filled
      [] e.kind \in {"rejected", "cancelled"} -> [d EXCEPT !.pending = Nothing]
      [] OTHER -> d

(* The handlers every desk with a pending record shares. *)
Settle(d, e) ==
    CASE ~Concerns(d.pending, e) -> d
      [] e.kind = "accepted" -> [d EXCEPT !.pending.accepted = TRUE]
      [] e.kind = "fill" ->
           LET filled == Traded(d, e)
           IN  IF e.full THEN [filled EXCEPT !.pending = Nothing] ELSE filled
      [] e.kind \in {"rejected", "cancelled"} -> [d EXCEPT !.pending = Nothing]
      [] OTHER -> [d EXCEPT !.pending.cancel = 0]

fundingHandleEvent(d, e) == Settle(d, e)

---------------------------------------------------------------------------
(* term_carry.go.  A plan is its direction and the end of its term; direction 0 *)
(* is no plan.  The term of an entry ends c.term ticks after it is decided.     *)

NewTermDesk ==
    [subscribed |-> FALSE, pos |-> [leg \in {"spot", "perp"} |-> 0], pending |-> Nothing,
     state |-> "IDLE", direction |-> 0, termEnd |-> 0]

termCarryMandateAllowsEntry(c, now) == c.mandateEnd = 0 \/ now + c.term + 2 <= c.mandateEnd

resetFlatEntryPlan(d) ==
    IF d.pending.id = 0 /\ d.pos.spot = 0 /\ d.pos.perp = 0
       /\ d.state \in {"ENTRY_SPOT", "ENTRY_PERP"}
    THEN [d EXCEPT !.state = "IDLE", !.direction = 0, !.termEnd = 0]
    ELSE d

spotEntry(c, d, obs, id) ==
    LET gap == d.direction * c.maxPosition - d.pos.spot
    IN  Immediate(d, id, "spot", gap, orderFromGap(c.lot, obs.spot, gap, c.minOrderSize))

(* A flat desk has no gap to hedge: it goes back to its spot target.       *)
adjustPerpDecision(c, d, obs, id) ==
    CASE Mismatch(d) # 0 ->
           Immediate(d, id, "perp", -Mismatch(d),
                     orderFromGap(c.lot, obs.perp, -Mismatch(d), c.minOrderSize))
      [] d.pos.spot # 0 -> Defer([d EXCEPT !.state = "ACTIVE"])
      [] OTHER -> spotEntry(c, d, obs, id)

adjustSpotDecision(c, d, obs, id) ==
    IF d.direction * c.maxPosition = d.pos.spot
    THEN adjustPerpDecision(c, [d EXCEPT !.state = "ENTRY_PERP"], obs, id)
    ELSE spotEntry(c, d, obs, id)

termOpenDecision(c, d, obs, now, id) ==
    LET planned == [d EXCEPT !.state = "ENTRY_SPOT", !.direction = obs.view,
                             !.termEnd = now + c.term]
        entry == adjustSpotDecision(c, planned, obs, id)
    IN  CASE ~BothMids(obs) \/ ~termCarryMandateAllowsEntry(c, now) -> Defer(d)
          [] obs.view \notin {Rich, Cheap} -> Defer(d)
          [] entry.send = <<>> -> Defer(resetFlatEntryPlan(entry.desk))
          [] OTHER -> entry

passiveExitExpired(c, now) == c.passiveExit /\ now >= c.deadline

(* An exit first tries an IOC order; only where the displayed size is      *)
(* below the venue's minimum, and the desk has a passive policy, one slice *)
(* rests post-only at the touch of its own side.                           *)
unwindOrderFromGap(c, d, leg, book, gap, id) ==
    LET side == SideOf(gap)
        qty == orderFromGap(c.lot, book, gap, c.unwindMin)
        slice == Lesser(Lesser(Magnitude(gap), c.lot), c.slice)
    IN  IF qty # 0 \/ Opposite(book, side) = NoQuote \/ ~c.passiveExit
             \/ slice < c.unwindMin \/ SameSide(book, side) <= 0
        THEN Immediate(d, id, leg, gap, qty)
        ELSE Submit([d EXCEPT !.pending = [Outstanding(id, leg) EXCEPT !.postOnly = TRUE]],
                    Place(id, leg, side, slice, "postOnly"))

unwindDecision(c, d, obs, now, id) ==
    CASE passiveExitExpired(c, now) -> Defer(d)
      [] d.pos.perp # 0 ->
           unwindOrderFromGap(c, [d EXCEPT !.state = "UNWIND_PERP"], "perp", obs.perp,
                              -d.pos.perp, id)
      [] d.pos.spot # 0 ->
           unwindOrderFromGap(c, [d EXCEPT !.state = "UNWIND_SPOT"], "spot", obs.spot,
                              -d.pos.spot, id)
      [] OTHER -> Defer([d EXCEPT !.state = "IDLE", !.direction = 0, !.termEnd = 0])

(* A passive exit that is past its deadline is cancelled once its order id *)
(* is known, and again after a refused cancellation.                       *)
cancelAtDeadline(d, expired, id) ==
    IF d.pending.postOnly /\ expired /\ d.pending.accepted /\ d.pending.cancel = 0
    THEN Submit([d EXCEPT !.pending.cancel = id], CancelOrder(id, d.pending))
    ELSE Defer(d)

termOnTick(c, d, obs, now, id) ==
    LET unwinding == [d EXCEPT !.state = "UNWIND_PERP"]
    IN  CASE ~d.subscribed -> Defer([d EXCEPT !.subscribed = TRUE])
          [] d.pending.id # 0 -> cancelAtDeadline(d, passiveExitExpired(c, now), id)
          [] d.state = "IDLE" -> termOpenDecision(c, d, obs, now, id)
          [] d.state \in {"ENTRY_SPOT", "ENTRY_PERP", "ACTIVE"} /\ now >= d.termEnd ->
               unwindDecision(c, unwinding, obs, now, id)
          [] d.state \in {"ENTRY_SPOT", "ENTRY_PERP"} ->
               adjustPerpDecision(c, [d EXCEPT !.state = "ENTRY_PERP"], obs, id)
          [] d.state = "ACTIVE" -> Defer(d)
          [] OTHER -> unwindDecision(c, d, obs, now, id)

termHandleEvent(d, e) ==
    IF Concerns(d.pending, e) /\ e.kind \in {"rejected", "cancelled"}
    THEN resetFlatEntryPlan(Settle(d, e))
    ELSE Settle(d, e)

---------------------------------------------------------------------------
(* dated_term_carry.go.  d.contracts has every contract the desk may hear of; *)
(* c.expiry gives the expiry of every contract.  A spot order remembers    *)
(* the contract it is for and the lifecycle state it was sent in.          *)

Unlisted ==
    [state |-> "UNLISTED", direction |-> 0, settled |-> FALSE, deadline |-> 0]

NewDatedDesk(contracts) ==
    [subscribed |-> FALSE, pos |-> [leg \in contracts \cup {"spot"} |-> 0],
     pending |-> Nothing, owned |-> "none",
     contracts |-> [k \in contracts |-> Unlisted]]

(* Listings and settlements arrive on the instrument feed. *)
datedObserveListing(d, k) ==
    IF d.contracts[k].state = "UNLISTED" THEN [d EXCEPT !.contracts[k].state = "IDLE"] ELSE d

datedObserveSettlement(c, d, k, at) ==
    LET pendingSpot == d.pending.id # 0 /\ d.pending.contract = k /\ d.pending.leg = "spot"
        exits == d.owned = k /\ (d.pos.spot # 0 \/ pendingSpot)
    IN  IF d.contracts[k].state = "UNLISTED" THEN d
        ELSE [d EXCEPT !.pos[k] = 0,
                       !.contracts[k].settled = TRUE,
                       !.contracts[k].deadline = at + c.exitAfter,
                       !.contracts[k].state = IF exits THEN "EXIT_SPOT" ELSE "CLOSED"]

datedNextContract(c, d) ==
    LET idle == {k \in DOMAIN d.contracts : d.contracts[k].state = "IDLE"}
    IN  CASE d.owned # "none" -> d.owned
          [] idle # {} -> CHOOSE k \in idle : \A other \in idle : c.expiry[k] <= c.expiry[other]
          [] OTHER -> "none"

(* An IOC order of either leg, for contract k. *)
datedOrder(c, d, k, leg, book, gap, id) ==
    LET sent == Immediate(d, id, leg, gap, orderFromGap(c.lot, book, gap, c.minOrderSize))
    IN  IF sent.send = <<>> THEN sent
        ELSE [sent EXCEPT !.desk.pending.contract = k,
                          !.desk.pending.tag = d.contracts[k].state]

futureOrder(c, d, k, obs, id) ==
    LET gap == -d.pos.spot - d.pos[k]
    IN  IF gap = 0 THEN Defer([d EXCEPT !.contracts[k].state = "ACTIVE"])
        ELSE datedOrder(c, d, k, k, obs.perp, gap, id)

(* A rich contract is sold against bought spot, a cheap one the reverse:   *)
(* each needs the touches it would take.                                   *)
TouchesFor(obs, view) == Opposite(obs.spot, view) # NoQuote /\ Opposite(obs.perp, -view) # NoQuote

datedOpenDecision(c, d, k, obs, now, id) ==
    LET owned == [d EXCEPT !.owned = k, !.contracts[k].state = "ENTRY_SPOT",
                           !.contracts[k].direction = obs.view]
        timeToExpiry == c.expiry[k] - now
    IN  IF timeToExpiry <= 0 \/ timeToExpiry < c.minTimeToExpiry
             \/ (c.terminal # 0 /\ c.expiry[k] + c.exitAfter > c.terminal)
             \/ obs.view \notin {Rich, Cheap} \/ ~TouchesFor(obs, obs.view)
        THEN Defer(d)
        ELSE datedOrder(c, owned, k, "spot", obs.spot, obs.view * c.maxPosition, id)

exitSpotDecision(c, d, k, obs, now, id) ==
    LET gap == -d.pos.spot
        side == SideOf(gap)
        sent == datedOrder(c, d, k, "spot", obs.spot, gap, id)
        slice == Lesser(Magnitude(gap), c.slice)
        passive == [Outstanding(id, "spot") EXCEPT !.postOnly = TRUE, !.contract = k,
                                                   !.tag = d.contracts[k].state]
    IN  CASE gap = 0 -> Defer([d EXCEPT !.contracts[k].state = "CLOSED", !.owned = "none"])
          [] now >= d.contracts[k].deadline -> Defer(d)
          [] sent.send # <<>> -> sent
          [] Lesser(Magnitude(gap), c.lot) < c.minOrderSize
             \/ Opposite(obs.spot, side) = NoQuote -> Defer(d)
          [] slice < c.minOrderSize \/ SameSide(obs.spot, side) = NoQuote -> Defer(d)
          [] OTHER -> Submit([d EXCEPT !.pending = passive],
                             Place(id, "spot", side, slice, "postOnly"))

datedDecide(c, d, k, obs, now, id) ==
    LET contract == d.contracts[k]
        spotGap == contract.direction * c.maxPosition - d.pos.spot
        hedged == d.pos[k] = -d.pos.spot /\ d.pos.spot # 0
        entering == [d EXCEPT !.contracts[k].state = "ENTRY_SPOT"]
        hedging == [d EXCEPT !.contracts[k].state = "ENTRY_FUTURE"]
    IN  CASE d.pending.id # 0 ->
               cancelAtDeadline(d, now >= d.contracts[d.pending.contract].deadline, id)
          [] contract.state = "IDLE" -> datedOpenDecision(c, d, k, obs, now, id)
          [] contract.state = "ENTRY_SPOT" ->
               IF spotGap # 0 THEN datedOrder(c, d, k, "spot", obs.spot, spotGap, id)
               ELSE futureOrder(c, hedging, k, obs, id)
          [] contract.state = "ENTRY_FUTURE" /\ hedged ->
               IF spotGap = 0 THEN Defer([d EXCEPT !.contracts[k].state = "ACTIVE"])
               ELSE datedOrder(c, entering, k, "spot", obs.spot, spotGap, id)
          [] contract.state = "ENTRY_FUTURE" -> futureOrder(c, d, k, obs, id)
          [] contract.state = "EXIT_SPOT" -> exitSpotDecision(c, d, k, obs, now, id)
          [] contract.state = "CLOSED" -> Defer([d EXCEPT !.owned = "none"])
          [] OTHER -> Defer(d)

datedOnTick(c, d, obs, now, id) ==
    LET k == datedNextContract(c, d)
    IN  CASE ~d.subscribed -> Defer([d EXCEPT !.subscribed = TRUE])
          [] c.terminal # 0 /\ now >= c.terminal -> Defer(d)
          [] k = "none" -> Defer(d)
          [] OTHER -> datedDecide(c, d, k, obs, now, id)

datedOnRejected(d, e) ==
    LET k == d.pending.contract
        settled == Settle(d, e)
    IN  IF d.pending.tag = "ENTRY_SPOT" /\ d.pos.spot = 0 /\ d.pos[k] = 0
        THEN [settled EXCEPT !.contracts[k].state = "IDLE", !.contracts[k].direction = 0,
                             !.owned = "none"]
        ELSE settled

datedOnFill(d, e) ==
    LET k == d.pending.contract
        filled == Settle(d, e)
    IN  IF e.leg = "spot" /\ d.contracts[k].settled /\ filled.pos.spot # 0
        THEN [filled EXCEPT !.contracts[k].state = "EXIT_SPOT"]
        ELSE filled

datedHandleEvent(d, e) ==
    CASE ~Concerns(d.pending, e) -> d
      [] e.kind = "rejected" -> datedOnRejected(d, e)
      [] e.kind = "fill" -> datedOnFill(d, e)
      [] OTHER -> Settle(d, e)
===========================================================================
