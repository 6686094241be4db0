-------------------------- MODULE ExecutionDesks --------------------------
(***************************************************************************)
(* The desks that work one instrument towards a quantity: the two hedgers, *)
(* the metaorder trader and the dated mandate of simulations/multivenue,   *)
(* the parent order of simulations/executionlab, and the two-venue router. *)
(* obs.draw is what a desk's random source gives it on the tick.           *)
(***************************************************************************)
EXTENDS DeskRequests

---------------------------------------------------------------------------
(* perp_exposure_hedger.go and liability_hedger.go.  The exposure walks by *)
(* one step, reflected at its bound; a fixed desk is given a target once   *)
(* and holds it for good.                                                  *)

NewHedger(c) ==
    [subscribed |-> FALSE, pos |-> [perp |-> 0], pending |-> Nothing,
     exposure |-> c.exposure, lastUpdate |-> 0, entryComplete |-> FALSE]

Fixed(c) == c.mode \in {"fixedLiability", "fixedDirectional"}

nextExposure(c, exposure, sign) ==
    LET stepped == exposure + sign * c.step
    IN  IF Magnitude(stepped) > c.maxAbs THEN exposure - sign * c.step ELSE stepped

targetPosition(c, d) ==
    IF c.mode \in {"fixedDirectional", "obligation", "randomSide"}
    THEN d.exposure ELSE -d.exposure

terminalRoundTripCensored(c, now) == c.terminal # 0 /\ now + 2 > c.terminal

(* The control policy of the liability desk draws its side. *)
selectSide(c, gap, draw) == IF c.mode = "randomSide" THEN draw.side ELSE SideOf(gap)

hedgerOnTick(c, d, obs, now, id) ==
    LET due == ~Fixed(c) /\ (d.lastUpdate = 0 \/ now - d.lastUpdate >= c.interval)
        moved == IF due THEN [d EXCEPT !.lastUpdate = now,
                                       !.exposure = nextExposure(c, @, obs.draw.step)]
                 ELSE d
        gap == targetPosition(c, moved) - d.pos.perp
        side == selectSide(c, gap, obs.draw)
        qty == Lesser(Magnitude(gap), c.maxRequest)
    IN  CASE ~d.subscribed -> Defer([d EXCEPT !.subscribed = TRUE])
          [] (Fixed(c) /\ d.entryComplete) \/ d.pending.id # 0 \/ gap = 0 -> Defer(moved)
          [] terminalRoundTripCensored(c, now) -> Defer(moved)
          [] Opposite(obs.perp, side) = NoQuote -> Defer(moved)
          [] OTHER -> Submit([moved EXCEPT !.pending = Outstanding(id, "perp")],
                             Place(id, "perp", side, qty, "ioc"))

hedgerHandleEvent(c, d, e) ==
    LET pos == d.pos.perp + Signed(e)
        filled == [d EXCEPT !.pos.perp = pos,
                            !.entryComplete = @ \/ (Fixed(c) /\ pos = targetPosition(c, d)),
                            !.pending = IF e.full THEN Nothing ELSE @]
    IN  CASE ~Concerns(d.pending, e) -> d
          [] e.kind = "accepted" -> [d EXCEPT !.pending.accepted = TRUE]
          [] e.kind = "fill" -> filled
          [] OTHER -> [d EXCEPT !.pending = Nothing]

---------------------------------------------------------------------------
(* metaorder.go.  A child is at least c.minChild and at most a share of    *)
(* the volume others traded since the previous child.                      *)

NewMetaorder ==
    [subscribed |-> FALSE, active |-> FALSE, side |-> Buy, parent |-> 0, filled |-> 0,
     startTS |-> 0, nextStart |-> 0, childVolume |-> 0, ownVolume |-> 0,
     marketVolume |-> 0, pending |-> Nothing]

externalVolume(d) == IF d.marketVolume > d.ownVolume THEN d.marketVolume - d.ownVolume ELSE 0

begin(d, draw, now) ==
    [d EXCEPT !.active = TRUE, !.side = draw.side, !.parent = draw.qty, !.filled = 0,
              !.startTS = now, !.childVolume = externalVolume(d), !.ownVolume = 0]

finish(c, d, now) == [d EXCEPT !.active = FALSE, !.nextStart = now + c.rest]

childQty(c, d) ==
    LET paced == (externalVolume(d) - d.childVolume) \div c.participation
        child == IF paced > c.minChild THEN paced ELSE c.minChild
    IN  Lesser(child, d.parent - d.filled)

executeChild(c, d, obs, now, id) ==
    LET remaining == d.parent - d.filled
        available == Opposite(obs.perp, d.side)
        child == IF available > 0 /\ ~c.slippage THEN Lesser(childQty(c, d), available)
                 ELSE childQty(c, d)
    IN  CASE d.pending.id # 0 -> Defer(d)
          [] remaining <= 0 \/ remaining < c.minOrderSize -> Defer(finish(c, d, now))
          [] c.maxDuration > 0 /\ now - d.startTS >= c.maxDuration -> Defer(finish(c, d, now))
          [] ~TwoSided(obs.perp) \/ child <= 0 -> Defer(d)
          [] OTHER -> Submit([d EXCEPT !.childVolume = externalVolume(d),
                                       !.pending = Outstanding(id, "perp")],
                             Place(id, "perp", d.side, child, "ioc"))

metaorderOnTick(c, d, obs, now, id) ==
    CASE ~d.subscribed -> Defer([d EXCEPT !.subscribed = TRUE])
      [] d.active -> executeChild(c, d, obs, now, id)
      [] now < d.nextStart \/ ~TwoSided(obs.perp) -> Defer(d)
      [] OTHER -> Defer(begin(d, obs.draw, now))

metaorderHandleEvent(d, e) ==
    CASE e.kind = "fill" -> [d EXCEPT !.filled = @ + e.qty, !.ownVolume = @ + e.qty,
                                      !.pending = IF e.full THEN Nothing ELSE @]
      [] e.kind \in {"cancelled", "rejected"} -> [d EXCEPT !.pending = Nothing]
      [] OTHER -> d

---------------------------------------------------------------------------
(* dated_execution_mandate.go.  Every listed contract gets a parent order, *)
(* worked in children between c.start and c.end of the contract.           *)

NewMandate(contracts) ==
    [subscribed |-> FALSE,
     contracts |-> [k \in contracts |->
                     [state |-> "UNLISTED", filled |-> 0, pending |-> Nothing]]]

mandateObserveListing(c, d, k) ==
    IF d.contracts[k].state = "UNLISTED" /\ c.end[k] < c.expiry[k]
    THEN [d EXCEPT !.contracts[k].state = "LISTED"] ELSE d

mandateObserveSettlement(d, k) ==
    IF d.contracts[k].state = "LISTED"
    THEN [d EXCEPT !.contracts[k].state = "SETTLED", !.contracts[k].pending = Nothing] ELSE d

mandateNextContract(c, d) ==
    LET open == {k \in DOMAIN d.contracts :
                   d.contracts[k].state = "LISTED" /\ d.contracts[k].filled < c.parent}
    IN  IF open = {} THEN "none"
        ELSE CHOOSE k \in open : \A other \in open : c.expiry[k] <= c.expiry[other]

mandateOnTick(c, d, obs, now, id) ==
    LET k == mandateNextContract(c, d)
        contract == d.contracts[k]
    IN  CASE ~d.subscribed -> Defer([d EXCEPT !.subscribed = TRUE])
          [] k = "none" -> Defer(d)
          [] c.terminal # 0 /\ now >= c.terminal -> Defer(d)
          [] contract.pending.id # 0 \/ now < c.start[k] \/ now >= c.end[k] -> Defer(d)
          [] Opposite(obs.perp, c.side) = NoQuote -> Defer(d)
          [] OTHER -> Submit([d EXCEPT !.contracts[k].pending = Outstanding(id, k)],
                             Place(id, k, c.side,
                                   Lesser(c.parent - contract.filled, c.child), "ioc"))

(* Events find their contract through the request and order maps, from     *)
(* which a settled contract's entries are gone.                            *)
mandateHandleEvent(d, e) ==
    LET contract == d.contracts[e.leg]
    IN  CASE contract.state # "LISTED" \/ ~Concerns(contract.pending, e) -> d
          [] e.kind = "accepted" -> [d EXCEPT !.contracts[e.leg].pending.accepted = TRUE]
          [] e.kind = "fill" ->
               [d EXCEPT !.contracts[e.leg].filled = @ + e.qty,
                         !.contracts[e.leg].pending = IF e.full THEN Nothing ELSE @]
          [] OTHER -> [d EXCEPT !.contracts[e.leg].pending = Nothing]

---------------------------------------------------------------------------
(* executionlab/execution.go.  The parent is cut into c.slices children of *)
(* equal size, rounded up, sent by the clock whatever became of the last.  *)

NewParentOrder ==
    [subscribed |-> TRUE, decided |-> FALSE, nextSliceAt |-> 0, sent |-> 0,
     submitted |-> 0, filled |-> 0, children |-> {}, accepted |-> {}]

sendUnfilled(c, d, now, id) ==
    LET remaining == c.target - d.filled
        slicesLeft == c.slices - d.sent
        qty == (remaining + slicesLeft - 1) \div slicesLeft
    IN  IF remaining <= 0 THEN Defer(d)
        ELSE Submit([d EXCEPT !.submitted = @ + qty, !.sent = @ + 1,
                              !.children = @ \cup {id},
                              !.nextSliceAt = IF d.sent + 1 < c.slices
                                              THEN now + c.sliceInterval ELSE @],
                    Place(id, "perp", c.side, qty, c.tif))

sendNext(c, d, now, id) ==
    LET remaining == c.target - d.submitted
        slicesLeft == c.slices - d.sent
        qty == (remaining + slicesLeft - 1) \div slicesLeft
    IN  IF remaining <= 0 THEN Defer(d)
        ELSE Submit([d EXCEPT !.submitted = @ + qty, !.sent = @ + 1,
                              !.children = @ \cup {id},
                              !.nextSliceAt = IF d.sent + 1 < c.slices
                                              THEN now + c.sliceInterval ELSE @],
                    Place(id, "perp", c.side, qty, c.tif))

parentOnTick(c, d, obs, now, id) ==
    CASE ~d.decided /\ (now < c.decisionAfter \/ ~TwoSided(obs.perp)) -> Defer(d)
      [] ~d.decided -> sendNext(c, [d EXCEPT !.decided = TRUE], now, id)
      [] c.slices > 1 /\ d.sent < c.slices /\ now >= d.nextSliceAt -> sendNext(c, d, now, id)
      [] OTHER -> Defer(d)

parentHandleEvent(d, e) ==
    CASE e.kind = "accepted" /\ e.id \in d.children -> [d EXCEPT !.accepted = @ \cup {e.id}]
      [] e.kind = "fill" /\ e.id \in d.accepted -> [d EXCEPT !.filled = @ + e.qty]
      [] OTHER -> d

---------------------------------------------------------------------------
(* router.go.  A quote may open a group of two fill-or-kill legs, one per  *)
(* venue, unless a group is in flight.  Request ids are local to a leg, so *)
(* both legs of a group may carry the same one; a group keeps its orders   *)
(* after it closes.  obs.view says at which venue buying is worth it.      *)

Venues == {"a", "b"}

NewRouter == [subscribed |-> TRUE, groups |-> <<>>, inFlight |-> 0]

RouterOrder(id, side) ==
    [id |-> id, side |-> side, accepted |-> FALSE, filled |-> 0, rejected |-> FALSE,
     cancelled |-> FALSE]

terminal(c, order) == order.filled >= c.lot \/ order.rejected \/ order.cancelled

(* The buy side must show the lot at its ask, the sell side at its bid,    *)
(* and both venues must be quoted on both sides.                           *)
bestOpportunity(c, obs) ==
    /\ obs.view # 0
    /\ \A book \in {obs.spot, obs.perp} : book.bid > 0 /\ book.ask > 0
    /\ IF obs.view = Buy THEN obs.spot.ask >= c.lot /\ obs.perp.bid >= c.lot
                         ELSE obs.perp.ask >= c.lot /\ obs.spot.bid >= c.lot

openGroup(c, d, buyAt, sellAt, id) ==
    LET group == [orders |-> [v \in Venues |-> RouterOrder(id, IF v = buyAt THEN Buy ELSE Sell)],
                  complete |-> FALSE, failed |-> FALSE]
    IN  [desk |-> [d EXCEPT !.groups = Append(@, group), !.inFlight = Len(d.groups) + 1],
         send |-> <<Place(id, buyAt, Buy, c.lot, "fok"), Place(id, sellAt, Sell, c.lot, "fok")>>]

onQuote(c, d, obs, id) ==
    CASE d.inFlight # 0 \/ Len(d.groups) >= c.maxAttempts -> Defer(d)
      [] ~bestOpportunity(c, obs) -> Defer(d)
      [] obs.view = Buy -> openGroup(c, d, "a", "b", id)
      [] OTHER -> openGroup(c, d, "b", "a", id)

refreshEarly(c, d, g) ==
    LET group == d.groups[g]
        filled == \A v \in Venues : group.orders[v].filled = c.lot
    IN  IF group.complete \/ group.failed \/ \A v \in Venues : ~terminal(c, group.orders[v])
        THEN d
        ELSE [d EXCEPT !.groups[g].complete = filled, !.groups[g].failed = ~filled,
                       !.inFlight = IF @ = g THEN 0 ELSE @]

refreshGroup(c, d, g) ==
    LET group == d.groups[g]
        filled == \A v \in Venues : group.orders[v].filled = c.lot
    IN  IF group.complete \/ group.failed \/ \E v \in Venues : ~terminal(c, group.orders[v])
        THEN d
        ELSE [d EXCEPT !.groups[g].complete = filled, !.groups[g].failed = ~filled,
                       !.inFlight = IF @ = g THEN 0 ELSE @]

findOrder(d, e) ==
    {g \in DOMAIN d.groups :
        LET order == d.groups[g].orders[e.leg]
        IN  order.id = e.id /\ (e.kind \in {"accepted", "rejected"} \/ order.accepted)}

routerHandleEvent(c, d, e) ==
    LET g == CHOOSE i \in findOrder(d, e) : \A j \in findOrder(d, e) : i <= j
    IN  CASE findOrder(d, e) = {} -> d
          [] e.kind = "accepted" -> [d EXCEPT !.groups[g].orders[e.leg].accepted = TRUE]
          [] e.kind = "rejected" ->
               refreshGroup(c, [d EXCEPT !.groups[g].orders[e.leg].rejected = TRUE], g)
          [] e.kind = "cancelled" ->
               refreshGroup(c, [d EXCEPT !.groups[g].orders[e.leg].cancelled = TRUE], g)
          [] OTHER ->
               refreshGroup(c, [d EXCEPT !.groups[g].orders[e.leg].filled = @ + e.qty], g)
===========================================================================
