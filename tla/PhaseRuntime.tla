---------------------------- MODULE PhaseRuntime ----------------------------
(***************************************************************************)
(* The deterministic-phase runtime (simulation/runner.go, venue.go,        *)
(* gateway.go, timer.go): one goroutine walks the clock from event to      *)
(* event and, at a step boundary (or, on request, at every event time),    *)
(* runs venue jobs, venue ingress, couriers and actors until nothing moves.*)
(* One venue serves the clients, each behind a DelayedGateway and driven   *)
(* by one actor.                                                           *)
(*                                                                         *)
(* A request or response is its number in its client's stream, a           *)
(* market-data message is its number too.  Latency draws, what an actor    *)
(* does with a message and whom a request notifies are choices; the rest   *)
(* is deterministic.  The 64 confirmations before a stall is reported are  *)
(* one: nothing changes between them.                                      *)
(***************************************************************************)
EXTENDS EventQueue, SequencesExt

CONSTANTS
    Clients,            \* client ids, also the order of Runner.AddActor
    Subscribers,        \* the clients subscribed to the venue's feed
    RequestDelays, ResponseDelays, MarketDataDelays,    \* latency draws
    TickIntervals,      \* the actor's ticker intervals tried
    SnapshotEvery,      \* interval of the venue's snapshot job
    Step, Iterations,   \* RunnerConfig
    PhaseMaxRounds,     \* RunnerConfig
    RequestChSize, ResponseChSize, MarketDataChSize,    \* channel capacities
    MaxSends            \* bound: requests the actors send

ASSUME RuntimeAssumption ==
    /\ Clients \subseteq Nat /\ Clients # {} /\ Subscribers \subseteq Clients
    /\ RequestDelays \cup ResponseDelays \cup MarketDataDelays \subseteq Nat
    /\ TickIntervals \subseteq Nat \ {0} /\ SnapshotEvery \in Nat \ {0}
    /\ {Step, Iterations, PhaseMaxRounds, RequestChSize, ResponseChSize,
        MarketDataChSize} \subseteq Nat \ {0}
    /\ MaxSends \in Nat

Venue == 0
Owners == Clients \cup {Venue}

VARIABLES
    drainIntermediate,  \* RunnerConfig.DrainIntermediateEvents
    now, events, nextID,    \* the clock and the scheduler
    stage,              \* where the runner is
    who,                \* the client whose turn it is in this stage
    walk,               \* the clock advance under way: [target, batchOpen]
    round,              \* [number, progressed, pass] of the drain under way
    iteration,
    ticker,             \* simTimer of each owner: [full, dropped]
    link,               \* each client's gateway and its courier
    sent,               \* bound counter
    received            \* history: responses each actor handled

runnerVars == <<stage, who, walk, round, iteration>>
clockVars  == <<now, events, nextID>>
vars == <<drainIntermediate, clockVars, runnerVars, ticker, link, sent, received>>

First == CHOOSE c \in Clients : \A d \in Clients : c <= d
After(c) == CHOOSE d \in Clients : d > c /\ \A e \in Clients : e > c => d <= e
IsLast(c) == \A d \in Clients : d <= c

NewLink ==
    [nextRequest |-> 1,     \* number of the next request the actor sends
     requestCh |-> <<>>,    \* the exchange gateway's channels and outbox
     served |-> 0,          \* the last request the venue handled
     enqueued |-> 0, outbox |-> <<>>, rawResp |-> <<>>, rawMD |-> 0,
     lastReqAt |-> 0, lastRespAt |-> 0, lastMDAt |-> 0,
     phaseResp |-> <<>>, phaseMD |-> <<>>,      \* arrived, inbox not reached
     responseCh |-> <<>>, marketDataCh |-> <<>>,    \* the actor's inbox
     nextOrdinal |-> 1, frontier |-> 0, mdRead |-> 0]

With(e, what) ==
    [id |-> e.id, time |-> e.time, repeating |-> e.repeating,
     interval |-> e.interval, what |-> what]

Tick(owner) == [kind |-> "tick", to |-> owner, number |-> 0]
Arrival(kind, c, n) == [kind |-> kind, to |-> c, number |-> n]

\* The venue registers its snapshot job when the first client connects; the
\* actors register their tickers when the runner starts them, in order.
Init ==
    /\ drainIntermediate \in BOOLEAN
    /\ now = 0
    /\ \E every \in [Clients -> TickIntervals] :
          events = {With(Repeating(1, 0, SnapshotEvery, 0), Tick(Venue))} \cup
                   {With(Repeating(1 + Cardinality({d \in Clients : d <= c}),
                                   0, every[c], 0), Tick(c)) : c \in Clients}
    /\ nextID = 1 + Cardinality(Clients)
    /\ stage = "drain" /\ who = First /\ iteration = 0
    /\ walk = [target |-> 0, batchOpen |-> FALSE]
    /\ round = [number |-> 0, progressed |-> FALSE, pass |-> FALSE]
    /\ ticker = [o \in Owners |-> [full |-> FALSE, dropped |-> 0]]
    /\ link = [c \in Clients |-> NewLink]
    /\ sent = 0
    /\ received = [c \in Clients |-> <<>>]

-----------------------------------------------------------------------------
(* Moving between the stages of a round.                                   *)

GoTo(next) ==
    /\ stage' = next /\ who' = First
    /\ UNCHANGED <<walk, iteration>>

\* The next client's turn in this stage, or the next stage.
TurnOver(next) ==
    /\ IF IsLast(who) THEN stage' = next /\ who' = First
                      ELSE stage' = stage /\ who' = After(who)
    /\ UNCHANGED <<walk, iteration>>

Stay == UNCHANGED <<stage, who, walk, iteration>>

Progressed == round' = [round EXCEPT !.progressed = TRUE]

TickLost == \E o \in Owners : ticker[o].dropped # 0

-----------------------------------------------------------------------------
(* The clock: Advance, or advanceWithIntermediateDrain.                    *)

Later(a, b) == IF a > b THEN a ELSE b

\* simTimer.fire: the channel holds one tick, one that does not fit is lost.
FireTick(o) ==
    /\ ticker' = [ticker EXCEPT ![o] =
          IF @.full THEN [@ EXCEPT !.dropped = @ + 1] ELSE [@ EXCEPT !.full = TRUE]]
    /\ UNCHANGED link

FireArrival(w) ==
    /\ link' = [link EXCEPT ![w.to] =
          CASE w.kind = "request" ->
                  IF Len(@.requestCh) < RequestChSize
                  THEN [@ EXCEPT !.requestCh = Append(@, w.number)] ELSE @
            [] w.kind = "response" -> [@ EXCEPT !.phaseResp = Append(@, w.number)]
            [] w.kind = "md" -> [@ EXCEPT !.phaseMD = Append(@, w.number)]]
    /\ UNCHANGED ticker

\* A batch of events at one time is drained before the clock moves on.
BatchEnds(due) ==
    /\ drainIntermediate /\ walk.batchOpen /\ now < walk.target
    /\ due = {} \/ Later(Earliest(due).time, now) > now

FireNext ==
    LET due == DueBy(events, walk.target)
        e   == Earliest(due)
    IN  /\ stage = "walk" /\ due # {} /\ ~BatchEnds(due)
        /\ now' = Later(now, e.time)
        /\ walk' = [walk EXCEPT !.batchOpen = drainIntermediate]
        /\ IF e.what.kind = "tick" THEN FireTick(e.what.to) ELSE FireArrival(e.what)
        /\ events' = (events \ {e}) \cup (IF e.repeating THEN {Rescheduled(e)} ELSE {})
        /\ UNCHANGED <<drainIntermediate, nextID, stage, who, round, iteration,
                       sent, received>>

NewRounds == [number |-> 0, progressed |-> FALSE, pass |-> FALSE]

DrainBatch ==
    /\ stage = "walk" /\ BatchEnds(DueBy(events, walk.target))
    /\ stage' = "drain" /\ round' = NewRounds
    /\ UNCHANGED <<drainIntermediate, clockVars, who, walk, iteration, ticker, link,
                   sent, received>>

\* Advance returns at the target; the boundary's drain follows (the hook before
\* it looks for lost ticks as the drain does).
ReachTarget ==
    /\ stage = "walk"
    /\ LET due == DueBy(events, walk.target) IN due = {} /\ ~BatchEnds(due)
    /\ now' = walk.target
    /\ stage' = "drain" /\ round' = NewRounds
    /\ walk' = [walk EXCEPT !.batchOpen = FALSE]
    /\ UNCHANGED <<drainIntermediate, events, nextID, who, iteration, ticker, link,
                   sent, received>>

-----------------------------------------------------------------------------
(* One round of drainDeterministicPhases.                                  *)

StartRoundUnchecked ==
    /\ stage = "drain"
    /\ IF round.number = PhaseMaxRounds THEN GoTo("too many rounds") ELSE GoTo("jobs")
    /\ round' = [number |-> round.number + 1, progressed |-> FALSE, pass |-> FALSE]
    /\ UNCHANGED <<drainIntermediate, clockVars, ticker, link, sent, received>>

StartRound ==
    /\ stage = "drain"
    /\ CASE TickLost -> GoTo("lost tick")
         [] ~TickLost /\ round.number = PhaseMaxRounds -> GoTo("too many rounds")
         [] OTHER -> GoTo("jobs")
    /\ round' = [number |-> round.number + 1, progressed |-> FALSE, pass |-> FALSE]
    /\ UNCHANGED <<drainIntermediate, clockVars, ticker, link, sent, received>>

Published(l) ==
    [c \in Clients |->
        IF c \in Subscribers /\ l[c].rawMD < MarketDataChSize
        THEN [l[c] EXCEPT !.rawMD = @ + 1] ELSE l[c]]

RunJobKeepsTick ==
    /\ stage = "jobs" /\ ticker[Venue].full
    /\ link' = Published(link)
    /\ Progressed /\ Stay
    /\ UNCHANGED <<drainIntermediate, clockVars, ticker, sent, received>>

RunJob ==
    /\ stage = "jobs" /\ ticker[Venue].full
    /\ link' = Published(link)
    /\ ticker' = [ticker EXCEPT ![Venue].full = FALSE]
    /\ Progressed /\ Stay
    /\ UNCHANGED <<drainIntermediate, clockVars, sent, received>>

JobsDone ==
    /\ stage = "jobs" /\ ~ticker[Venue].full
    /\ GoTo("pump")
    /\ UNCHANGED <<drainIntermediate, clockVars, round, ticker, link, sent, received>>

\* deliveryTime: never before the channel's previous delivery.
DeliveryTimeUnordered(last, delay) == now + delay

DeliveryTime(last, delay) == Later(last, now + delay)

Courier(c, kind, n, at, arrived) ==
    IF at <= now
    THEN link' = [arrived EXCEPT ![c] =
                    IF kind = "response" THEN [@ EXCEPT !.phaseResp = Append(@, n)]
                                         ELSE [@ EXCEPT !.phaseMD = Append(@, n)]]
         /\ UNCHANGED <<events, nextID>>
    ELSE /\ nextID' = nextID + 1
         /\ events' = events \cup {With(OneShot(nextID + 1, at), Arrival(kind, c, n))}
         /\ link' = arrived

SchedulePhaseResponse(c, delay) ==
    LET at == DeliveryTime(link[c].lastRespAt, delay)
    IN  /\ link[c].rawResp # <<>>
        /\ Courier(c, "response", Head(link[c].rawResp), at,
                   [link EXCEPT ![c].rawResp = Tail(@), ![c].lastRespAt = at])

SchedulePhaseMarketData(c, delay) ==
    LET at == DeliveryTime(link[c].lastMDAt, delay)
    IN  /\ link[c].rawResp = <<>> /\ link[c].rawMD > 0
        /\ Courier(c, "md", link[c].nextOrdinal, at,
                   [link EXCEPT ![c].rawMD = @ - 1, ![c].lastMDAt = at,
                                ![c].nextOrdinal = @ + 1])

\* DelayedGateway.PumpDeterministicPhase, one message.
PumpOne ==
    /\ stage \in {"pump", "courier"}
    /\ \/ \E delay \in ResponseDelays : SchedulePhaseResponse(who, delay)
       \/ \E delay \in MarketDataDelays : SchedulePhaseMarketData(who, delay)
    /\ Progressed /\ Stay
    /\ UNCHANGED <<drainIntermediate, now, ticker, sent, received>>

Pumped(c) == link[c].rawResp = <<>> /\ link[c].rawMD = 0

PumpDone ==
    /\ stage = "pump" /\ Pumped(who)
    /\ TurnOver("ingress")
    /\ UNCHANGED <<drainIntermediate, clockVars, round, ticker, link, sent, received>>

\* handleClientRequest: a response to the client, notifications to others, and
\* the feed.
Answered(c, others) ==
    [d \in Clients |->
        IF d = c \/ d \in others
        THEN [link[d] EXCEPT !.enqueued = @ + 1,
                             !.outbox = Append(@, link[d].enqueued + 1)]
        ELSE link[d]]

HandleRequest ==
    /\ stage = "ingress" /\ link[who].requestCh # <<>>
    /\ \E others \in SUBSET (Clients \ {who}) :
          link' = [Published(Answered(who, others)) EXCEPT
                     ![who].requestCh = Tail(@),
                     ![who].served = Head(link[who].requestCh)]
    /\ round' = [round EXCEPT !.progressed = TRUE, !.pass = ~IsLast(who)]
    /\ IF IsLast(who) THEN GoTo("ingress") ELSE TurnOver("ingress")
    /\ UNCHANGED <<drainIntermediate, clockVars, ticker, sent, received>>

\* A mutant of SkipClient: the pass ends at the first client with no request.
SkipClientEndsIngress ==
    /\ stage = "ingress" /\ link[who].requestCh = <<>>
    /\ GoTo("egress")
    /\ UNCHANGED <<drainIntermediate, clockVars, round, ticker, link, sent, received>>

SkipClient ==
    /\ stage = "ingress" /\ link[who].requestCh = <<>>
    /\ IF IsLast(who) /\ round.pass THEN GoTo("ingress") ELSE TurnOver("egress")
    /\ round' = IF IsLast(who) THEN [round EXCEPT !.pass = FALSE] ELSE round
    /\ UNCHANGED <<drainIntermediate, clockVars, ticker, link, sent, received>>

Room(q, size) == IF Len(q) < size THEN size - Len(q) ELSE 0
Least(a, b) == IF a < b THEN a ELSE b

\* The exchange's DrainDeterministicEgress: outboxes into response channels.
Egressed(l) ==
    LET n == Least(Room(l.rawResp, ResponseChSize), Len(l.outbox))
    IN  [l EXCEPT !.rawResp = @ \o SubSeq(l.outbox, 1, n),
                  !.outbox = SubSeq(@, n + 1, Len(@))]

DrainVenueEgress ==
    /\ stage = "egress"
    /\ link' = [c \in Clients |-> Egressed(link[c])]
    /\ round' = [round EXCEPT !.progressed = @ \/ link' # link]
    /\ GoTo("courier")
    /\ UNCHANGED <<drainIntermediate, clockVars, ticker, sent, received>>

\* DrainDeterministicPhaseEgress: a full response inbox holds market data back
\* too; a market-data message that reaches the inbox moves the frontier.
DeliveredDropsOverflow(l) ==
    LET r == Least(Room(l.responseCh, ResponseChSize), Len(l.phaseResp))
        m == Least(Room(l.marketDataCh, MarketDataChSize), Len(l.phaseMD))
    IN  [l EXCEPT !.responseCh = @ \o SubSeq(l.phaseResp, 1, r), !.phaseResp = <<>>,
                  !.marketDataCh = @ \o SubSeq(l.phaseMD, 1, m),
                  !.phaseMD = SubSeq(@, m + 1, Len(@))]

Delivered(l) ==
    LET r == Least(Room(l.responseCh, ResponseChSize), Len(l.phaseResp))
        m == IF r < Len(l.phaseResp) THEN 0
             ELSE Least(Room(l.marketDataCh, MarketDataChSize), Len(l.phaseMD))
    IN  [l EXCEPT !.responseCh = @ \o SubSeq(l.phaseResp, 1, r),
                  !.phaseResp = SubSeq(@, r + 1, Len(@)),
                  !.marketDataCh = @ \o SubSeq(l.phaseMD, 1, m),
                  !.phaseMD = SubSeq(@, m + 1, Len(@)),
                  !.frontier = IF m > 0 THEN l.phaseMD[m] ELSE @]

DrainPhaseEgress ==
    /\ stage = "courier" /\ Pumped(who)
    /\ link' = [link EXCEPT ![who] = Delivered(@)]
    /\ round' = [round EXCEPT !.progressed = @ \/ link' # link]
    /\ TurnOver("actors")
    /\ UNCHANGED <<drainIntermediate, clockVars, ticker, sent, received>>

\* DelayedGateway.Send in phase mode.
Send(c, delay, l) ==
    LET at  == DeliveryTime(l[c].lastReqAt, delay)
        n   == l[c].nextRequest
        out == [l EXCEPT ![c].nextRequest = @ + 1, ![c].lastReqAt = at]
    IN  IF at <= now
        THEN /\ link' = IF Len(l[c].requestCh) < RequestChSize
                        THEN [out EXCEPT ![c].requestCh = Append(@, n)] ELSE out
             /\ UNCHANGED <<events, nextID>>
        ELSE /\ nextID' = nextID + 1
             /\ events' = events \cup {With(OneShot(nextID + 1, at),
                                            Arrival("request", c, n))}
             /\ link' = out

\* The actor's callback sends a request or does not.
React(c, l) ==
    \/ link' = l /\ UNCHANGED <<events, nextID, sent>>
    \/ /\ sent < MaxSends
       /\ sent' = sent + 1
       /\ \E delay \in RequestDelays : Send(c, delay, l)

\* BaseActor.PumpDeterministicPhase, one message: responses first, then market
\* data, then ticks.
ActorStep ==
    /\ stage = "actors"
    /\ LET l == link[who] IN
       \/ /\ l.responseCh # <<>>
          /\ received' = [received EXCEPT ![who] = Append(@, Head(l.responseCh))]
          /\ React(who, [link EXCEPT ![who].responseCh = Tail(@)])
          /\ UNCHANGED ticker
       \/ /\ l.responseCh = <<>> /\ l.marketDataCh # <<>>
          /\ React(who, [link EXCEPT ![who].mdRead = Head(l.marketDataCh),
                                     ![who].marketDataCh = Tail(@)])
          /\ UNCHANGED <<ticker, received>>
       \/ /\ l.responseCh = <<>> /\ l.marketDataCh = <<>> /\ ticker[who].full
          /\ ticker' = [ticker EXCEPT ![who].full = FALSE]
          /\ React(who, link)
          /\ UNCHANGED received
    /\ Progressed /\ Stay
    /\ UNCHANGED <<drainIntermediate, now>>

InboxEmpty(c) ==
    link[c].responseCh = <<>> /\ link[c].marketDataCh = <<>> /\ ~ticker[c].full

ActorDone ==
    /\ stage = "actors" /\ InboxEmpty(who)
    /\ TurnOver("decide")
    /\ UNCHANGED <<drainIntermediate, clockVars, round, ticker, link, sent, received>>

\* systemIdle: actors, mounts (couriers and venue) and the timer factory.
GatewayIdle(c) ==
    /\ link[c].phaseResp = <<>> /\ link[c].phaseMD = <<>>
    /\ link[c].requestCh = <<>> /\ link[c].outbox = <<>> /\ Pumped(c)

SystemIdle ==
    /\ \A c \in Clients : InboxEmpty(c) /\ GatewayIdle(c)
    /\ ~ticker[Venue].full

\* A mount is excused when each gateway it is not idle for waits on an inbox.
BackpressureOnly ==
    /\ \A c \in Clients : InboxEmpty(c)
    /\ ~ticker[Venue].full
    /\ \A c \in Clients :
          \/ GatewayIdle(c)
          \/ link[c].phaseResp # <<>> /\ Len(link[c].responseCh) = ResponseChSize
          \/ link[c].phaseMD # <<>> /\ Len(link[c].marketDataCh) = MarketDataChSize

\* The fixed point is reached: back into the advance under way, on to the next
\* one, or to the end of the run.
Settle ==
    IF walk.batchOpen
    THEN /\ stage' = "walk" /\ walk' = [walk EXCEPT !.batchOpen = FALSE]
         /\ UNCHANGED <<who, iteration>>
    ELSE IF iteration = Iterations
    THEN GoTo("done")
    ELSE /\ stage' = "walk" /\ iteration' = iteration + 1
         /\ walk' = [target |-> now + Step, batchOpen |-> FALSE]
         /\ UNCHANGED who

DecideAfterOneRound ==
    /\ stage = "decide"
    /\ IF TickLost THEN GoTo("lost tick") ELSE Settle
    /\ UNCHANGED <<drainIntermediate, clockVars, round, ticker, link, sent, received>>

Decide ==
    /\ stage = "decide"
    /\ CASE TickLost -> GoTo("lost tick")
         [] ~TickLost /\ round.progressed -> GoTo("drain")
         [] ~TickLost /\ ~round.progressed ->
               IF SystemIdle \/ BackpressureOnly THEN Settle ELSE GoTo("stalled")
    /\ UNCHANGED <<drainIntermediate, clockVars, round, ticker, link, sent, received>>

Ended == stage \in {"done", "lost tick", "too many rounds", "stalled"}

Next ==
    \/ FireNext \/ DrainBatch \/ ReachTarget
    \/ StartRound \/ RunJob \/ JobsDone \/ PumpOne \/ PumpDone
    \/ HandleRequest \/ SkipClient \/ DrainVenueEgress \/ DrainPhaseEgress
    \/ ActorStep \/ ActorDone \/ Decide

\* One goroutine runs everything and never waits.
Spec == Init /\ [][Next]_vars /\ WF_vars(Next)

-----------------------------------------------------------------------------
(* Properties *)

Stages == {"walk", "drain", "jobs", "pump", "ingress", "egress", "courier",
           "actors", "decide", "done", "lost tick", "too many rounds", "stalled"}

\* Every variable has its type, no channel exceeds its capacity and time stays
\* within the run.
TypeOK ==
    /\ drainIntermediate \in BOOLEAN
    /\ now \in 0..(Step * Iterations) /\ stage \in Stages /\ who \in Clients
    /\ walk \in [target : 0..(Step * Iterations), batchOpen : BOOLEAN]
    /\ iteration \in 0..Iterations /\ sent \in 0..MaxSends
    /\ ticker \in [Owners -> [full : BOOLEAN, dropped : Nat]]
    /\ \A c \in Clients :
          /\ Len(link[c].requestCh) <= RequestChSize
          /\ Len(link[c].rawResp) <= ResponseChSize
          /\ Len(link[c].responseCh) <= ResponseChSize
          /\ Len(link[c].marketDataCh) <= MarketDataChSize
          /\ link[c].rawMD \in 0..MarketDataChSize

\* While components react at a time, no arrival or tick of that time is still
\* waiting in the scheduler (PumpDeterministicPhase: "scheduling a same-time
\* event after EventScheduler.ProcessUntil has returned would defer it one
\* clock step").
NothingDueIsPending ==
    stage # "walk" => \A e \in events : e.time > now

\* The clock leaves a time at which components may react only when every queue,
\* inbox and ticker is empty (RunnerConfig.Quiesce: "advances simulated time
\* only once every actor has finished reacting to the previous step").
TimeMovesWhenQuiet ==
    [][now' > now /\ (drainIntermediate \/ now % Step = 0) => SystemIdle]_vars

InFlight(c, kind) ==
    LET es == {e \in events : e.what.kind = kind /\ e.what.to = c}
        s  == SetToSortSeq(es, Before)
    IN  [i \in 1..Len(s) |-> s[i].what.number]

RS(c) == INSTANCE ResponseStream WITH
    enqueued <- link[c].enqueued,
    pending  <- link[c].responseCh \o link[c].phaseResp \o InFlight(c, "response")
                \o link[c].rawResp \o link[c].outbox,
    received <- received[c],
    open     <- TRUE

\* Through outbox, channel, scheduler, courier and inbox, whatever latencies are
\* drawn and however full the inbox is, an actor receives every response exactly
\* once and in the order the exchange enqueued them (DrainDeterministicPhaseEgress:
\* "A full inbox retains the message instead of silently dropping").
ImplementsResponseStream ==
    /\ \A c \in Clients : RS(c)!StreamInit
    /\ [][\A c \in Clients : [RS(c)!StreamNext]_(RS(c)!streamVars)]_vars

\* Requests reach the venue in the order the actor sent them, for every draw of
\* latencies (deliveryTime: "FIFO within the channel").
RequestsInOrder ==
    \A c \in Clients :
        LET s == <<link[c].served>> \o link[c].requestCh \o InFlight(c, "request")
        IN  \A i, j \in 1..Len(s) : i < j => s[i] < s[j]

\* The frontier stamped on a decision is exactly the prefix of the feed that has
\* reached the actor's inbox (MarketDataFrontier: "the exact receipt prefix
\* currently available").
FrontierIsInboxPrefix ==
    \A c \in Clients : link[c].frontier = link[c].mdRead + Len(link[c].marketDataCh)

\* The state has its types, nothing due at the present time is still scheduled
\* while components react to it, requests are in order and frontiers exact.
ChannelsInOrder ==
    TypeOK /\ NothingDueIsPending /\ RequestsInOrder /\ FrontierIsInboxPrefix

\* No job and no actor runs after a tick was lost, and none is ever lost when
\* every event time is drained (timer.go: "A phase run may not claim
\* reproducibility after it has skipped a model callback").
LostTickEndsRun ==
    TickLost => ~drainIntermediate /\ stage \in {"walk", "drain", "lost tick"}

\* Every run comes to its end; the runner never reports work it could have moved
\* as a stall.
RunEnds == <>Ended /\ [](stage # "stalled")
=============================================================================
