----------------------------- MODULE MeteredActor -----------------------------
(***************************************************************************)
(* A trading actor, its session and the request policy of the venue.       *)
(*                                                                         *)
(* The actor (actor.BaseActor, with a strategy that uses RequestBackoff)   *)
(* sends requests; the session's handler asks the RequestPolicy and then   *)
(* executes them under the venue's lock; responses and notices come        *)
(* back through the session's one FIFO (ClientGateway shows that it is     *)
(* one).  What the venue does with an order is abstracted to what its      *)
(* owner is told and in which order: fills and forced cancels of an        *)
(* arriving order are queued before its acceptance, and the remainder of   *)
(* an order that lost its fee reservation is reported cancelled before the *)
(* fill that caused it (SpotVenue models those steps in full).             *)
(***************************************************************************)
EXTENDS RequestPolicy, Functions, SequencesExt

CONSTANTS MaxTime,          \* bound of the clock
          MaxRequests,      \* bound of the actor's requestSeq
          MaxOrders,        \* bound of the venue's order IDs
          OrderQty,         \* size of every order
          DefaultWait       \* RequestBackoff.DefaultWaitNanos

ASSUME ActorBounds ==
  {MaxTime, MaxRequests, MaxOrders, OrderQty, DefaultWait} \subseteq Nat

VARIABLES toVenue,          \* requests on their way
          handling,         \* the request that holds a permit, if any
          orders,           \* the client's orders at the venue, by order ID
          toActor,          \* responses on their way
          requestSeq,       \* BaseActor.requestSeq
          actor,            \* the maps of BaseActor and what the strategy was told
          readyAt,          \* RequestBackoff.readyAt
          heard             \* history: the latest deadline the actor was told of

actorVars == <<requestSeq, actor, readyAt, heard>>
vars == <<now, policyVars, toVenue, handling, orders, toActor, actorVars>>

None == [id |-> 0]

Ids == 1..MaxOrders

OpenOrders == {o \in DOMAIN orders : orders[o].live}

Init ==
  /\ PolicyInit
  /\ toVenue = <<>>
  /\ handling = None
  /\ orders = <<>>
  /\ toActor = <<>>
  /\ requestSeq = 0
  /\ actor = [active |-> <<>>, requestToOrder |-> <<>>, cancelRequests |-> <<>>,
              early |-> <<>>, story |-> [o \in Ids |-> <<>>]]
  /\ readyAt = 0
  /\ heard = 0

-----------------------------------------------------------------------------
(* What the venue tells the owner of an order *)

Fill(o, full) == [type |-> "fill", order |-> o, full |-> full]

Forced(o) == [type |-> "forced", order |-> o]

Fills(o, before, n) == [k \in 1..n |-> Fill(o, before + k = OrderQty)]

\* The notices of n fills after `before' earlier ones.  A remainder is
\* discarded after the fills (restOrReleaseOrder); one whose fee reservation
\* cannot be renewed is cancelled while the (p+1)-th fill settles, before that
\* fill is reported (cancelUnfundedFeeRemainder).
Reports(o, before, n, ending, p) ==
  LET fills == Fills(o, before, n) IN
  CASE ending = "rests" -> fills
    [] ending = "discarded" -> Append(fills, Forced(o))
    [] ending = "unfunded" -> SubSeq(fills, 1, p) \o <<Forced(o)>> \o SubSeq(fills, p + 1, n)

ForcedCancels(S) == [k \in 1..Cardinality(S) |-> Forced(SetToSortSeq(S, <)[k])]

Closed(S) == [o \in DOMAIN orders |->
                IF o \in S THEN [orders[o] EXCEPT !.live = FALSE] ELSE orders[o]]

\* A resting order trades, and loses its remainder when the fee source fails.
Trade(o) ==
  /\ o \in OpenOrders
  /\ \E n \in 1..(OrderQty - orders[o].filled), ending \in {"rests", "unfunded"} :
       LET filled == orders[o].filled + n IN
       /\ ending = "unfunded" => filled < OrderQty
       /\ \E p \in 0..(n - 1) :
            /\ ending = "rests" => p = 0
            /\ toActor' = toActor \o Reports(o, orders[o].filled, n, ending, p)
       /\ orders' = [orders EXCEPT ![o].filled = filled,
                                  ![o].live = filled < OrderQty /\ ending = "rests",
                                  ![o].unfunded = (ending = "unfunded")]
  /\ UNCHANGED <<now, policyVars, toVenue, handling, actorVars>>

\* The venue takes a resting order off the book: an unfunded maker, an expiry.
Evict(o) ==
  /\ o \in OpenOrders
  /\ orders' = Closed({o})
  /\ toActor' = Append(toActor, Forced(o))
  /\ UNCHANGED <<now, policyVars, toVenue, handling, actorVars>>

\* forceClose: the client's orders go, and an order of the venue's own making
\* closes the position in the client's name.
Liquidate ==
  /\ Len(orders) < MaxOrders
  /\ \E full \in BOOLEAN :
       toActor' = toActor \o ForcedCancels(OpenOrders) \o <<Fill(Len(orders) + 1, full)>>
  /\ orders' = Append(Closed(OpenOrders), [filled |-> 1, live |-> FALSE, unfunded |-> FALSE, placed |-> FALSE])
  /\ UNCHANGED <<now, policyVars, toVenue, handling, actorVars>>

-----------------------------------------------------------------------------
(* The handler: admitRequest, then the operation, then releasePermit *)

Rejected(id, why, wait) ==
  [type |-> "rejected", request |-> id, why |-> why, wait |-> wait, due |-> now + wait]


Refuse(req) ==
  /\ Refused(req.kind)
  /\ LET decision == Decision(req.kind)
     IN  toActor' = Append(toActor, Rejected(req.id, decision.why, decision.wait))
  /\ UNCHANGED handling

Permit(req) ==
  /\ Permitted(req.kind)
  /\ handling' = req
  /\ UNCHANGED toActor

AdmitRequest ==
  /\ handling = None
  /\ toVenue # <<>>
  /\ toVenue' = Tail(toVenue)
  /\ Refuse(Head(toVenue)) \/ Permit(Head(toVenue))
  /\ UNCHANGED <<orders, actorVars>>

\* The end of every handler: the response is queued and the permit returned.
Respond(notices) ==
  /\ toActor' = toActor \o notices
  /\ Completed(handling.kind)
  /\ handling' = None
  /\ UNCHANGED <<toVenue, actorVars>>

PlaceRejected ==
  /\ handling # None /\ handling.kind = "place"
  /\ Respond(<<Rejected(handling.id, "invalid", 0)>>)
  /\ UNCHANGED orders

\* A GTC remainder that rests first takes off the own quotes it crosses.
PlaceAccepted ==
  /\ handling # None /\ handling.kind = "place"
  /\ Len(orders) < MaxOrders
  /\ \E n \in 0..OrderQty, ending \in {"rests", "discarded", "unfunded"},
        crossed \in SUBSET OpenOrders :
       LET o == Len(orders) + 1
           rests == n < OrderQty /\ ending = "rests"
       IN  /\ n = OrderQty => ending = "rests"
           /\ ending = "unfunded" => n > 0
           /\ crossed # {} => rests
           /\ \E p \in 0..n :
                /\ IF ending = "unfunded" THEN p < n ELSE p = 0
                /\ Respond(Reports(o, 0, n, ending, p) \o ForcedCancels(crossed)
                             \o <<[type |-> "accepted", request |-> handling.id, order |-> o]>>)
           /\ orders' = Append(Closed(crossed),
                               [filled |-> n, live |-> rests, unfunded |-> ending = "unfunded", placed |-> TRUE])

Cancel ==
  /\ handling # None /\ handling.kind = "cancel"
  /\ IF handling.order \in OpenOrders
     THEN /\ orders' = Closed({handling.order})
          /\ Respond(<<[type |-> "cancelled", request |-> handling.id]>>)
     ELSE /\ Respond(<<Rejected(handling.id, "not found", 0)>>)
          /\ UNCHANGED orders

Query ==
  /\ handling # None /\ handling.kind = "query"
  /\ Respond(<<[type |-> "balance", request |-> handling.id]>>)
  /\ UNCHANGED orders

-----------------------------------------------------------------------------
(* The actor *)

\* The new element is added to a map, or replaces what its key had.
Put(f, key, value) == [k \in DOMAIN f \cup {key} |-> IF k = key THEN value ELSE f[k]]

Drop(f, key) == Restrict(f, DOMAIN f \ {key})

Tell(a, o, what) == [a EXCEPT !.story[o] = Append(@, what)]

What(event) ==
  CASE event.type = "fill" -> IF event.full THEN "filled" ELSE "partial"
    [] OTHER -> "cancelled"

Retired(a, o) ==
  [a EXCEPT !.active = Drop(@, o), !.requestToOrder = Drop(@, a.active[o].request)]

applyOrderEvent(a, event) ==
  LET o == event.order IN
  IF o \notin DOMAIN a.active THEN a
  ELSE IF event.type = "fill" /\ ~event.full
  THEN [a EXCEPT !.active[o].filled = @ + 1]
  ELSE Retired(a, o)

bufferEarlyOrderEvent(a, event) ==
  LET o == event.order
      buffered == IF o \in DOMAIN a.early THEN a.early[o] ELSE <<>>
  IN  [a EXCEPT !.early = Put(@, o, Append(buffered, event))]

ApplyAndTell(a, event) == Tell(applyOrderEvent(a, event), event.order, What(event))

\* The acceptance forgets the events that came before it.
AcceptedForgetful(a, resp) ==
  LET o == resp.order
      known == [a EXCEPT !.requestToOrder = Put(@, resp.request, o),
                         !.active = Put(@, o, [request |-> resp.request, filled |-> 0])]
  IN  [Tell(known, o, "accepted") EXCEPT !.early = Drop(@, o)]

\* An acceptance is followed by the events that came before it.
Accepted(a, resp) ==
  LET o == resp.order
      known == [a EXCEPT !.requestToOrder = Put(@, resp.request, o),
                         !.active = Put(@, o, [request |-> resp.request, filled |-> 0])]
      buffered == IF o \in DOMAIN a.early THEN a.early[o] ELSE <<>>
  IN  [FoldLeft(ApplyAndTell, Tell(known, o, "accepted"), buffered)
         EXCEPT !.early = Drop(@, o)]

Noticed(a, event) ==
  IF event.order \in DOMAIN a.active THEN ApplyAndTell(a, event)
  ELSE bufferEarlyOrderEvent(a, event)

CancelAnswered(a, resp) ==
  LET o == a.cancelRequests[resp.request]
      answered == [a EXCEPT !.cancelRequests = Drop(@, resp.request)]
  IN  IF resp.type = "rejected" THEN Tell(answered, o, "cancelRejected")
      ELSE Tell(applyOrderEvent(answered, [type |-> "cancelled", order |-> o]), o, "cancelled")

decodeResponse(a, resp) ==
  CASE resp.type \in {"rejected", "cancelled"} /\ resp.request \in DOMAIN a.cancelRequests ->
         CancelAnswered(a, resp)
    [] resp.type = "accepted" -> Accepted(a, resp)
    [] resp.type \in {"fill", "forced"} -> Noticed(a, resp)
    [] OTHER -> a

\* The advice heard last replaces a later deadline.
ObserveLast(resp) ==
  now + IF resp.wait <= 0 THEN DefaultWait ELSE resp.wait

\* RequestBackoff.Observe: the latest deadline wins.
Observe(resp) ==
  LET wait == IF resp.wait <= 0 THEN DefaultWait ELSE resp.wait
  IN  Max({readyAt, now + wait})

Receive ==
  /\ toActor # <<>>
  /\ LET resp == Head(toActor)
         rejection == resp.type = "rejected" /\ resp.request \notin DOMAIN actor.cancelRequests
     IN  /\ actor' = decodeResponse(actor, resp)
         /\ IF rejection /\ resp.why \in {"budget", "impossible", "overloaded"}
            THEN /\ readyAt' = Observe(resp)
                 /\ heard' = Max({heard, resp.due})
            ELSE UNCHANGED <<readyAt, heard>>
  /\ toActor' = Tail(toActor)
  /\ UNCHANGED <<now, policyVars, toVenue, handling, orders, requestSeq>>

Send(kind, o) ==
  /\ requestSeq < MaxRequests
  /\ requestSeq' = requestSeq + 1
  /\ toVenue' = Append(toVenue, [id |-> requestSeq', kind |-> kind, order |-> o])
  /\ UNCHANGED <<now, policyVars, handling, orders, toActor, readyAt, heard>>

\* The strategy places orders when its backoff lets it.
SubmitOrder ==
  /\ now >= readyAt
  /\ Send("place", 0)
  /\ UNCHANGED actor

CancelOrder ==
  \E o \in DOMAIN actor.active :
    /\ Send("cancel", o)
    /\ actor' = [actor EXCEPT !.cancelRequests = Put(@, requestSeq', o)]

QueryBalance ==
  /\ Send("query", 0)
  /\ UNCHANGED actor

Tick ==
  /\ now < MaxTime
  /\ TimePasses
  /\ UNCHANGED <<toVenue, handling, orders, toActor, actorVars>>

Next ==
  \/ AdmitRequest
  \/ PlaceRejected
  \/ PlaceAccepted
  \/ Cancel
  \/ Query
  \/ \E o \in Ids : Trade(o)
  \/ \E o \in Ids : Evict(o)
  \/ Liquidate
  \/ Receive
  \/ SubmitOrder
  \/ CancelOrder
  \/ QueryBalance
  \/ Tick

Spec == Init /\ [][Next]_vars

-----------------------------------------------------------------------------
(* Properties *)

\* The shape of the state.
TypeOK ==
  /\ now \in 0..MaxTime
  /\ \A i \in DOMAIN Limits : budgets[i].level \in 0..(Limits[i].budget * TokenScale)
  /\ lanes.priority \in 0..1 /\ lanes.secondary \in 0..1
  /\ requestSeq \in 0..MaxRequests
  /\ Len(orders) <= MaxOrders
  /\ DOMAIN actor.active \cup DOMAIN actor.early \subseteq DOMAIN orders

\* The state has its shape, and the lanes hold exactly the slot of the request being handled: none leaks and
\* none is returned twice or to the other lane (AdmissionQueue.Complete).
SlotsExact ==
  /\ TypeOK
  /\ \A lane \in DOMAIN lanes :
       lanes[lane] = IF metered /\ handling # None /\ Lane(handling.kind) = lane THEN 1 ELSE 0


\* The backoff never lets the strategy place an order before the latest
\* deadline a refusal named, even when a shorter advice arrives after a longer
\* one (RequestBackoff.Observe).
BackoffCoversAdvice == readyAt >= heard

Terminal(what) == what \in {"filled", "cancelled"}

\* What the strategy is told of an order is a story in order: accepted first
\* and once, nothing after it is filled or cancelled but the refusal of a cancel
\* that came too late.  (An order that lost its fee reservation in the middle of
\* its fills is the exception: the venue reports its end too early.)
StoryInOrder ==
  \A o \in DOMAIN orders :
    LET story == SelectSeq(actor.story[o], LAMBDA w : w # "cancelRejected") IN
    ~orders[o].unfunded =>
      \A k \in DOMAIN story :
        /\ (story[k] = "accepted") <=> (k = 1)
        /\ Terminal(story[k]) => k = Len(story)

\* The actor's two maps of open orders never disagree: requestToOrder is the
\* inverse of the requests that activeOrders records (decodeResponse,
\* applyOrderEvent).
MapsAgree ==
  /\ DOMAIN actor.requestToOrder = {actor.active[o].request : o \in DOMAIN actor.active}
  /\ \A o \in DOMAIN actor.active : actor.requestToOrder[actor.active[o].request] = o

AtRest == toVenue = <<>> /\ handling = None /\ toActor = <<>>

\* Once everything sent has arrived, the actor believes open exactly the orders
\* the venue has open, with the quantities the venue has filled, and no cancel
\* is left unanswered - although fills overtake acceptances and cross cancels.
ActorAgreesAtRest ==
  AtRest =>
    /\ DOMAIN actor.active = OpenOrders
    /\ \A o \in OpenOrders : actor.active[o].filled = orders[o].filled
    /\ DOMAIN actor.cancelRequests = {}

FillsTold(o) == Len(SelectSeq(actor.story[o], LAMBDA w : w \in {"partial", "filled"}))

\* Once everything has arrived, the strategy was told every fill of every order
\* it placed, once.  The exceptions are the fills of an order reported cancelled
\* before them, and those of a liquidation, whose order the actor never placed:
\* they stay in earlyOrderEvents, and nothing else does.
NoFillLost ==
  AtRest =>
    \A o \in DOMAIN orders :
      /\ (orders[o].placed /\ ~orders[o].unfunded) => FillsTold(o) = orders[o].filled
      /\ o \in DOMAIN actor.early => orders[o].unfunded \/ ~orders[o].placed

\* The strategy's picture of its orders is sound: the maps agree with each other,
\* the story of every order is in order, and once everything sent has arrived the
\* picture is the venue's, with every fill told once.
ActorPictureSound == MapsAgree /\ StoryInOrder /\ ActorAgreesAtRest /\ NoFillLost
=============================================================================
