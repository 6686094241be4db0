--------------------------- MODULE TradingDesks ---------------------------
(***************************************************************************)
(* A trading desk of simulations/ and the venues it trades on.  The desk's *)
(* ticker and its event handlers run one at a time; between them requests  *)
(* and events travel through the gateway of each venue, first in first     *)
(* out, and the instrument feed is a channel of its own.  The book a tick  *)
(* reads is any book: the venue may answer an order sent on it in every    *)
(* way the exchange can.                                                   *)
(*                                                                         *)
(* env, chosen at the start and never changed, is the desk's configuration.*)
(***************************************************************************)
EXTENDS CarryDesks, ExecutionDesks, SequencesExt

CONSTANTS Desks,          \* the configurations checked
          MaxRefusals,    \* cancellations refused although the order rests
          MaxOthers       \* what other participants trade while a parent is worked

VARIABLES env, desk, now,
          wire,           \* requests on their way to each venue
          replies,        \* order events on their way to the desk
          feed,           \* instrument announcements on their way to the desk
          resting,        \* post-only orders in a venue's book
          traded,         \* what the venue executed for the desk, per leg
          settled,        \* contracts the venue has settled
          refusals,
          others, mark,   \* what others traded: in all, and when the last child was sized
          worked          \* what the venue executed of the current parent order

vars == <<env, desk, now, wire, replies, feed, resting, traded, settled, refusals,
          others, mark, worked>>

Contracts(c) == IF c.kind \in {"dated", "mandate"} THEN DOMAIN c.expiry ELSE {}

Legs(c) ==
    CASE c.kind \in {"carry", "funding", "term"} -> {"spot", "perp"}
      [] c.kind = "dated" -> Contracts(c) \cup {"spot"}
      [] c.kind = "mandate" -> Contracts(c)
      [] c.kind = "router" -> Venues
      [] OTHER -> {"perp"}

(* The router has a gateway per venue, every other desk has one.           *)
Channels(c) == IF c.kind = "router" THEN Venues ELSE {"venue"}

Channel(c, leg) == IF c.kind = "router" THEN leg ELSE "venue"

NewDesk(c) ==
    CASE c.kind \in {"carry", "funding"} -> NewCarryDesk(Legs(c))
      [] c.kind = "term" -> NewTermDesk
      [] c.kind = "dated" -> NewDatedDesk(Contracts(c))
      [] c.kind = "hedger" -> NewHedger(c)
      [] c.kind = "metaorder" -> NewMetaorder
      [] c.kind = "mandate" -> NewMandate(Contracts(c))
      [] c.kind = "parent" -> NewParentOrder
      [] OTHER -> NewRouter

OnTick(c, d, obs, t, id) ==
    CASE c.kind = "carry" -> carryOnTick(c, d, obs, id)
      [] c.kind = "funding" -> fundingOnTick(c, d, obs, t, id)
      [] c.kind = "term" -> termOnTick(c, d, obs, t, id)
      [] c.kind = "dated" -> datedOnTick(c, d, obs, t, id)
      [] c.kind = "hedger" -> hedgerOnTick(c, d, obs, t, id)
      [] c.kind = "metaorder" -> metaorderOnTick(c, d, obs, t, id)
      [] c.kind = "mandate" -> mandateOnTick(c, d, obs, t, id)
      [] c.kind = "parent" -> parentOnTick(c, d, obs, t, id)
      [] OTHER -> onQuote(c, d, obs, id)

OnEvent(c, d, e) ==
    CASE c.kind = "carry" -> carryHandleEvent(d, e)
      [] c.kind = "funding" -> fundingHandleEvent(d, e)
      [] c.kind = "term" -> termHandleEvent(d, e)
      [] c.kind = "dated" -> datedHandleEvent(d, e)
      [] c.kind = "hedger" -> hedgerHandleEvent(c, d, e)
      [] c.kind = "metaorder" -> metaorderHandleEvent(d, e)
      [] c.kind = "mandate" -> mandateHandleEvent(d, e)
      [] c.kind = "parent" -> parentHandleEvent(d, e)
      [] OTHER -> routerHandleEvent(c, d, e)

OnAnnouncement(c, d, a) ==
    CASE c.kind = "dated" /\ a.kind = "listed" -> datedObserveListing(d, a.contract)
      [] c.kind = "dated" -> datedObserveSettlement(c, d, a.contract, a.at)
      [] a.kind = "listed" -> mandateObserveListing(c, d, a.contract)
      [] OTHER -> mandateObserveSettlement(d, a.contract)

(* The orders the desk believes are open, as leg and request id.           *)
Believed(c, d) ==
    CASE c.kind = "router" ->
           IF d.inFlight = 0 THEN {}
           ELSE {<<v, d.groups[d.inFlight].orders[v].id>> : v \in Venues}
      [] c.kind = "mandate" ->
           {<<k, d.contracts[k].pending.id>> : k \in {j \in Contracts(c) :
                                                      d.contracts[j].pending.id # 0}}
      [] c.kind = "parent" -> {<<"perp", id>> : id \in d.children}
      [] OTHER -> IF d.pending.id = 0 THEN {} ELSE {<<d.pending.leg, d.pending.id>>}

(* Ids that would be taken for an older order's if they were used again.   *)
Remembered(c, d) ==
    CASE c.kind = "router" -> {d.groups[g].orders["a"].id : g \in DOMAIN d.groups}
      [] c.kind \in {"mandate", "parent"} -> {order[2] : order \in Believed(c, d)}
      [] OTHER -> {d.pending.id, d.pending.cancel}

(* A tick reads the books it may trade on; one with an order outstanding   *)
(* reads none.                                                             *)
Quoted == [bid |-> 1, ask |-> 1]

Observations(c, d) ==
    LET waits == c.kind # "parent" /\ Believed(c, d) # {}
    IN  [spot : IF "spot" \in Legs(c) \/ c.kind = "router" THEN Book(IF waits THEN {1} ELSE c.sizes)
                ELSE {Quoted},
         perp : Book(IF waits THEN {1} ELSE c.sizes),
         view : c.views, draw : c.draws]

---------------------------------------------------------------------------
(* The venue's answers to a request, as the exchange gives them.           *)

Event(kind, id, order, qty, full) ==
    [kind |-> kind, id |-> id, leg |-> order.leg, side |-> order.side, qty |-> qty,
     full |-> full]

(* The ways total may be executed, as a sequence of fills. *)
Runs(total) ==
    {run \in UNION {[1..n -> 1..total] : n \in 0..total} :
        FoldSeq(LAMBDA q, sum : sum + q, 0, run) = total}

Fills(order, run) ==
    [i \in DOMAIN run |->
        Event("fill", order.id, order, run[i],
              i = Len(run) /\ FoldSeq(LAMBDA q, sum : sum + q, 0, run) = order.qty)]

Answer(events, rest, executed) == [events |-> events, rest |-> rest, executed |-> executed]

Rejection(r) == Answer(<<Event("rejected", r.id, r, 0, FALSE)>>, {}, 0)

Execution(r, filled, run) ==
    Answer(<<Event("accepted", r.id, r, 0, FALSE)>> \o Fills(r, run)
             \o (IF filled < r.qty THEN <<Event("cancelled", r.id, r, 0, FALSE)>> ELSE <<>>),
           {}, filled)

Resting(r, filled, run) ==
    Answer(<<Event("accepted", r.id, r, 0, FALSE)>> \o Fills(r, run),
           IF filled < r.qty THEN {[r EXCEPT !.qty = @ - filled]} ELSE {}, filled)

PlaceAnswers(r) ==
    {Rejection(r)} \cup
    CASE r.leg \in settled -> {}
      [] r.tif = "ioc" -> UNION {{Execution(r, q, run) : run \in Runs(q)} : q \in 0..r.qty}
      [] r.tif = "fok" -> {Execution(r, r.qty, run) : run \in Runs(r.qty)}
      [] r.tif = "gtc" ->
           UNION {{Resting(r, q, run) : run \in Runs(q)} : q \in 0..r.qty}
      [] OTHER -> {Resting(r, 0, <<>>)}

---------------------------------------------------------------------------

Init ==
    /\ env \in Desks
    /\ desk = NewDesk(env)
    /\ now = 1
    /\ wire = [ch \in Channels(env) |-> <<>>]
    /\ replies = [ch \in Channels(env) |-> <<>>]
    /\ feed = [i \in 1..Cardinality(Contracts(env)) |->
                 [kind |-> "listed", at |-> 1,
                  contract |-> CHOOSE k \in Contracts(env) :
                    Cardinality({j \in Contracts(env) : env.expiry[j] < env.expiry[k]}) = i - 1]]
    /\ resting = {}
    /\ traded = [leg \in Legs(env) |-> 0]
    /\ settled = {}
    /\ refusals = 0
    /\ others = 0 /\ mark = 0 /\ worked = 0

(* BaseActor numbers requests from a counter; any number not in use will   *)
(* do, and keeps the model finite.                                         *)
InUse ==
    Remembered(env, desk)
      \cup {o.id : o \in resting}
      \cup UNION {{wire[ch][i].id : i \in DOMAIN wire[ch]} : ch \in DOMAIN wire}
      \cup UNION {{replies[ch][i].id : i \in DOMAIN replies[ch]} : ch \in DOMAIN replies}

NextRequestID == CHOOSE n \in 1..(Cardinality(InUse) + 1) :
                   n \notin InUse /\ \A m \in 1..(n - 1) : m \in InUse

Tick ==
    /\ \E obs \in Observations(env, desk) :
         LET result == OnTick(env, desk, obs, now, NextRequestID)
         IN  /\ desk' = result.desk
             /\ wire' = [ch \in DOMAIN wire |->
                           wire[ch] \o SelectSeq(result.send,
                                                 LAMBDA r : Channel(env, r.leg) = ch)]
             /\ LET begins == env.kind = "metaorder" /\ result.desk.active /\ ~desk.active
                IN  /\ mark' = IF begins \/ result.send # <<>> THEN others ELSE mark
                    /\ worked' = IF begins THEN 0 ELSE worked
    /\ now' = Lesser(now + 1, env.maxTicks)
    /\ UNCHANGED <<env, replies, feed, resting, traded, settled, refusals, others>>

(* The trade feed carries every execution, the desk's own included. *)
Printed(d, qty) ==
    IF env.kind = "metaorder" THEN [d EXCEPT !.marketVolume = @ + qty] ELSE d

ServePlace(ch) ==
    LET r == Head(wire[ch])
    IN  /\ wire[ch] # <<>> /\ r.op = "place"
        /\ wire' = [wire EXCEPT ![ch] = Tail(@)]
        /\ \E a \in PlaceAnswers(r) :
             /\ replies' = [replies EXCEPT ![ch] = @ \o a.events]
             /\ resting' = resting \cup a.rest
             /\ traded' = [traded EXCEPT ![r.leg] = @ + r.side * a.executed]
             /\ worked' = IF env.kind = "metaorder" THEN worked + a.executed ELSE 0
             /\ desk' = Printed(desk, a.executed)
        /\ UNCHANGED <<env, now, feed, settled, refusals, others, mark>>

(* A cancellation may be refused for the rate at which the desk sends as   *)
(* well as because the order is gone.                                      *)
ServeCancel(ch) ==
    LET r == Head(wire[ch])
        found == {o \in resting : o.id = r.qty}
    IN  /\ wire[ch] # <<>> /\ r.op = "cancel"
        /\ wire' = [wire EXCEPT ![ch] = Tail(@)]
        /\ \/ /\ found # {}
              /\ resting' = resting \ found
              /\ replies' = [replies EXCEPT ![ch] =
                               Append(@, Event("cancelled", r.qty, r, 0, FALSE))]
              /\ UNCHANGED refusals
           \/ /\ found = {} \/ refusals < MaxRefusals
              /\ refusals' = IF found = {} THEN refusals ELSE refusals + 1
              /\ replies' = [replies EXCEPT ![ch] =
                               Append(@, Event("cancelRejected", r.id, r, 0, FALSE))]
              /\ UNCHANGED resting
        /\ UNCHANGED <<env, desk, now, feed, traded, settled, others, mark,
                       worked>>

(* Another participant takes some of an order that rests. *)
FillResting ==
    /\ \E o \in resting : \E q \in 1..o.qty :
         /\ resting' = (resting \ {o}) \cup
                         (IF q = o.qty THEN {} ELSE {[o EXCEPT !.qty = @ - q]})
         /\ replies' = [replies EXCEPT ![Channel(env, o.leg)] =
                          Append(@, Event("fill", o.id, o, q, q = o.qty))]
         /\ traded' = [traded EXCEPT ![o.leg] = @ + o.side * q]
    /\ UNCHANGED <<env, desk, now, wire, feed, settled, refusals, others, mark, worked>>

OthersTrade ==
    /\ env.kind = "metaorder" /\ others < MaxOthers
    /\ others' = others + 1
    /\ desk' = Printed(desk, 1)
    /\ UNCHANGED <<env, now, wire, replies, feed, resting, traded, settled, refusals, mark, worked>>

ExpireContract(k) ==
    /\ k \notin settled /\ now >= env.expiry[k]
    /\ settled' = settled \cup {k}
    /\ traded' = [traded EXCEPT ![k] = 0]
    /\ feed' = Append(feed, [kind |-> "settled", at |-> now, contract |-> k])
    /\ UNCHANGED <<env, desk, now, wire, replies, resting, refusals, others, mark,
                       worked>>

HandleReply(ch) ==
    /\ replies[ch] # <<>>
    /\ desk' = OnEvent(env, desk, Head(replies[ch]))
    /\ replies' = [replies EXCEPT ![ch] = Tail(@)]
    /\ UNCHANGED <<env, now, wire, feed, resting, traded, settled, refusals, others, mark,
                       worked>>

HandleAnnouncement ==
    /\ desk.subscribed /\ feed # <<>>
    /\ desk' = OnAnnouncement(env, desk, Head(feed))
    /\ feed' = Tail(feed)
    /\ UNCHANGED <<env, now, wire, replies, resting, traded, settled, refusals, others, mark,
                       worked>>

Next ==
    \/ Tick
    \/ \E ch \in Channels(env) : ServePlace(ch) \/ ServeCancel(ch) \/ HandleReply(ch)
    \/ FillResting
    \/ OthersTrade
    \/ \E k \in Contracts(env) : ExpireContract(k)
    \/ HandleAnnouncement

Spec == Init /\ [][Next]_vars

(* The clock keeps ticking, a venue serves its gateway and the runner      *)
(* delivers what is on the way; nobody has to trade with a resting order.  *)
Fairness ==
    /\ WF_vars(Tick)
    /\ \A ch \in Venues \cup {"venue"} :
         WF_vars(ch \in Channels(env) /\ (ServePlace(ch) \/ ServeCancel(ch) \/ HandleReply(ch)))

FairSpec == Spec /\ Fairness

---------------------------------------------------------------------------

Sent(ch) == {wire[ch][i] : i \in DOMAIN wire[ch]}

Answered(ch) == {replies[ch][i] : i \in DOMAIN replies[ch]}

(* Orders that are on their way to a venue, rest there, or have news that  *)
(* the desk has not handled.                                               *)
Open ==
    UNION {{<<r.leg, r.id>> : r \in {q \in Sent(ch) : q.op = "place"}}
             \cup {<<e.leg, e.id>> : e \in {x \in Answered(ch) : x.kind # "cancelRejected"}}
           : ch \in Channels(env)}
      \cup {<<o.leg, o.id>> : o \in resting}

Quiet == Open = {} /\ feed = <<>> /\ \A ch \in Channels(env) : wire[ch] = <<>>

(* What the desk believes the venue executed for it on a leg. *)
Belief(c, d, leg) ==
    CASE c.kind \in {"carry", "funding", "term", "dated", "hedger"} -> d.pos[leg]
      [] c.kind = "mandate" -> c.side * d.contracts[leg].filled
      [] c.kind = "parent" -> c.side * d.filled
      [] c.kind = "router" ->
           FoldSeq(LAMBDA g, sum : sum + g.orders[leg].side * g.orders[leg].filled, 0, d.groups)
      [] OTHER -> traded[leg] + d.side * (d.filled - worked)

(* What may still execute of the parent orders: requests and resting rest. *)
Exposed(leg) ==
    FoldSet(LAMBDA r, sum : sum + r.qty, 0,
            UNION {{r \in Sent(ch) : r.op = "place" /\ r.leg = leg} : ch \in Channels(env)}
              \cup {o \in resting : o.leg = leg})

(* Every variable has the type of the code it models: the clock is within  *)
(* the run, each gateway has its two channels, only listed contracts of    *)
(* the desk settle.                                                        *)
TypeOK ==
    /\ env \in Desks
    /\ now \in 1..env.maxTicks
    /\ refusals \in 0..MaxRefusals
    /\ others \in 0..MaxOthers /\ mark \in 0..others
    /\ DOMAIN wire = Channels(env) /\ DOMAIN replies = Channels(env)
    /\ DOMAIN traded = Legs(env) /\ settled \subseteq Contracts(env)

(* A desk never forgets an order the venue may still act on: while one is  *)
(* sent, rests or has unhandled news, it is the desk's pending order, so   *)
(* no tick can send a second one on top of it.                             *)
NothingForgotten ==
    {order \in Open : order[1] \notin settled} \subseteq Believed(env, desk)

(* The books of the desk agree with the venue's whenever nothing is on the *)
(* way: over any interleaving of ticks, partial fills, forced cancels,     *)
(* rejections and settlements, the position, fill or residual the desk     *)
(* acts on is the one the venue executed, and it waits for no answer; and  *)
(* while something is on the way, the desk knows of it.                    *)
BeliefMatchesVenue ==
    /\ TypeOK /\ NothingForgotten
    /\ Quiet => /\ env.kind # "parent" => Believed(env, desk) = {}
                /\ \A leg \in Legs(env) \ settled : Belief(env, desk, leg) = traded[leg]

(* No position is left without an owner: an idle term desk is flat and has *)
(* no order anywhere, and a dated desk that holds or may still get spot    *)
(* owns the contract whose lifecycle will take it back to flat.            *)
ResidualIsOwned ==
    /\ env.kind = "term" /\ desk.state = "IDLE" =>
         Open = {} /\ traded.spot = 0 /\ traded.perp = 0
    /\ env.kind = "dated" /\ (traded.spot # 0 \/ \E order \in Open : order[1] = "spot") =>
         desk.owned # "none"

(* The carry desks stay market neutral at the venue: the arbitrageurs are  *)
(* never out of balance by more than the lot one IOC leg can leave         *)
(* unhedged, and the allocators' hedge never exceeds or has the sign of    *)
(* the spot it hedges, through entry, unwinding and settlement; and every  *)
(* position has an owner.                                                  *)
LegsMatched ==
    LET hedge == FoldFunctionOnSet(+, 0, traded, Legs(env) \ {"spot"})
    IN  /\ ResidualIsOwned
        /\ env.kind \in {"carry", "funding"} => Magnitude(traded.spot + hedge) <= env.lot
        /\ env.kind \in {"term", "dated"} =>
             Magnitude(traded.spot + hedge) = Magnitude(traded.spot) - Magnitude(hedge)
        /\ env.kind \in {"carry", "funding", "term", "dated"} =>
             Magnitude(traded.spot) <= env.maxPosition

(* Children never add up to more than their parent, counting what is still *)
(* on its way or rests: the fills that make the mandate and the execution  *)
(* report panic cannot happen.                                             *)
ParentNeverOverfilled ==
    /\ env.kind = "metaorder" => worked + Exposed("perp") <= desk.parent
    /\ env.kind = "mandate" =>
         \A k \in Contracts(env) \ settled : Magnitude(traded[k]) + Exposed(k) <= env.parent
    /\ env.kind = "parent" => Magnitude(traded.perp) + Exposed("perp") <= env.target

(* A metaorder's next child is paced against what everyone else traded     *)
(* since the last one was sized: its own executions do not count.          *)
PaceExcludesOwn ==
    env.kind = "metaorder" /\ desk.active /\ Quiet
        => externalVolume(desk) - desk.childVolume = others - mark

(* A hedge in pursuit of a moving exposure never leaves the range the      *)
(* exposure moves in, although the target changes while its order is on    *)
(* the way; a fixed target, once reached, is held.                         *)
HedgeNeverOvershoots ==
    env.kind = "hedger" /\ env.mode # "randomSide" =>
        /\ Magnitude(traded.perp) <= env.maxAbs
        /\ desk.entryComplete => traded.perp = targetPosition(env, desk) /\ Open = {}

(* No desk ever trades more than it set out to.                            *)
TargetsKept == ParentNeverOverfilled /\ HedgeNeverOvershoots

(* A router group that completed or failed is closed for good: no late     *)
(* answer of a leg changes what was reported for it.                       *)
GroupsCloseForGood ==
    [][env.kind = "router" =>
         \A g \in DOMAIN desk.groups :
            desk.groups[g].complete \/ desk.groups[g].failed
              => desk'.groups[g] = desk.groups[g]]_vars

(* Every order a desk waits for is resolved: a passive exit that nobody    *)
(* takes is cancelled after its deadline, again if the cancellation is     *)
(* refused, and no desk waits for an answer that never comes.              *)
OrdersResolve ==
    (env.kind # "parent" /\ Believed(env, desk) # {}) ~> (Believed(env, desk) = {})
===========================================================================
