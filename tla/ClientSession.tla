--------------------------- MODULE ClientSession ---------------------------
(***************************************************************************)
(* The sessions of one client of the exchange: connecting, reconnecting,   *)
(* disconnecting and shutting down (exchange/exchange.go), the handler of  *)
(* each gateway's requests, and the market data publisher those requests   *)
(* register with (marketdata/marketdata.go).                               *)
(*                                                                         *)
(* A session is the number of its gateway, in connection order.  A request *)
(* is a number, a kind and, for the feeds, a symbol and the types asked    *)
(* for.  How a response travels is ClientGateway's; here a request is      *)
(* "served" once its response is enqueued.                                 *)
(***************************************************************************)
EXTENDS Integers, FiniteSets, Sequences, SequencesExt

CONSTANTS
    Symbols,               \* the books
    RequestChSize,         \* capacity of RequestCh
    MarketDataChSize,      \* capacity of MarketData
    MaxSessions,           \* bound: gateways ever created
    MaxRequests,           \* bound: requests ever submitted
    MaxPublished           \* bound: publications

SessionAssumption ==
    /\ RequestChSize \in Nat \ {0} /\ MarketDataChSize \in Nat \ {0}
    /\ MaxSessions \in Nat /\ MaxRequests \in Nat /\ MaxPublished \in Nat

Sessions == 1..MaxSessions
NoSession == 0

MDTypes == {"Snapshot", "Trade"}

\* Discardable requests are dropped on a shut gateway; the cleanup requests are
\* served even then.
Discardable == {"PlaceOrder", "Subscribe"}
Cleanup == {"CancelOrder", "Unsubscribe"}

\* What a client may ask: feeds name a symbol, a subscription also its types.
Ask == [kind : {"PlaceOrder", "CancelOrder"}]
       \cup [kind : {"Unsubscribe"}, symbol : Symbols]
       \cup [kind : {"Subscribe"}, symbol : Symbols, types : {{t} : t \in MDTypes}]
Request == [num : 1..MaxRequests, ask : Ask]
NoRequest == [num |-> 0]

\* Where a handler stands.  "taken": the request left the channel, nothing else
\* happened; "counted": requestsInFlight includes it; "open": the liveness check
\* passed; "admitted": about to take the exchange lock; "snapshot": registered
\* with the publisher, still under the read lock; "respond": the lock is released.
Stages == {"idle", "taken", "counted", "open", "admitted", "snapshot", "respond"}

VARIABLES
    deterministicIngress,  \* the runner drains the requests, one at a time; never changes
    closed,       \* the exchange is shut down
    created,      \* gateways created so far
    current,      \* e.Gateways[clientID], or NoSession
    running,      \* the gateways' running flags
    requestCh,    \* the gateways' request channels
    submitted,    \* requests submitted so far
    stage,        \* where each gateway's handler stands
    req,          \* the request each handler holds
    inFlight,     \* requestsInFlight
    served,       \* requests whose response was enqueued
    resting,      \* resting orders of the client, named by their request
    subs,         \* the publisher: each symbol's subscribed gateway and its types
    seqNum,       \* the publisher's sequence number
    marketData,   \* the gateways' market data channels: sequence numbers
    lastRead      \* the last sequence number each session read

exchangeVars == <<deterministicIngress, closed, created, current, running>>
ingressVars  == <<requestCh, submitted, stage, req, inFlight, served>>
feedVars     == <<subs, seqNum, marketData, lastRead>>
vars == <<exchangeVars, ingressVars, resting, feedVars>>

NoFeed == [gateway |-> NoSession, types |-> {}]

Init ==
    /\ deterministicIngress \in BOOLEAN
    /\ closed = FALSE /\ created = 0 /\ current = NoSession
    /\ running = [g \in Sessions |-> FALSE]
    /\ requestCh = [g \in Sessions |-> <<>>]
    /\ submitted = 0
    /\ stage = [g \in Sessions |-> "idle"]
    /\ req = [g \in Sessions |-> NoRequest]
    /\ inFlight = 0 /\ served = {} /\ resting = {}
    /\ subs = [s \in Symbols |-> NoFeed]
    /\ seqNum = 0
    /\ marketData = [g \in Sessions |-> <<>>]
    /\ lastRead = [g \in Sessions |-> 0]

-----------------------------------------------------------------------------
(* Locks.                                                                  *)

\* The exchange lock can be taken for writing: no handler reads under it.
WriteLockFree == \A g \in Sessions : stage[g] # "snapshot"

\* In deterministic mode one thread serves requests and manages sessions, so
\* neither interrupts a handler.
Undisturbed == deterministicIngress => \A g \in Sessions : stage[g] = "idle"

-----------------------------------------------------------------------------
(* The publisher, each operation under its mutex.                          *)

\* A mutant of Unsubscribed: the requesting session is not compared.
UnsubscribedByAnyone(s, g) == [subs EXCEPT ![s] = NoFeed]

\* Unsubscribe: only the session that holds the subscription may remove it.
Unsubscribed(s, g) == IF subs[s].gateway = g THEN [subs EXCEPT ![s] = NoFeed] ELSE subs

\* Subscribe: the same session adds feeds, another session takes the symbol over.
Subscribed(s, g, types) ==
    [subs EXCEPT ![s] = [gateway |-> g,
                         types |-> types \cup IF subs[s].gateway = g THEN subs[s].types ELSE {}]]

UnsubscribeClient == subs' = [s \in Symbols |-> NoFeed]

\* The gateway a publication goes to, if its session wants it and is open.
Interested(s, type) ==
    IF subs[s].gateway # NoSession /\ type \in subs[s].types /\ running[subs[s].gateway]
    THEN {subs[s].gateway} ELSE {}

Room(g) == Len(marketData[g]) < MarketDataChSize

\* Publish: no subscriber, no sequence number; a full channel loses the message
\* and its number.
Publish(s, type) ==
    IF subs[s].gateway = NoSession
    THEN UNCHANGED <<seqNum, marketData>>
    ELSE /\ seqNum' = seqNum + 1
         /\ marketData' =
              [g \in Sessions |->
                 IF g \in Interested(s, type) /\ Room(g)
                 THEN Append(marketData[g], seqNum + 1) ELSE marketData[g]]

-----------------------------------------------------------------------------
(* Sessions come and go, under the write lock.                             *)

\* ConnectNewClient: the account is kept, the old gateway is closed, its
\* subscriptions are forgotten and a new gateway takes its place.  A venue that
\* is shut (or whose roster is frozen) hands out a closed gateway instead.
ConnectNewClient ==
    /\ WriteLockFree /\ Undisturbed
    /\ created < MaxSessions
    /\ created' = created + 1
    /\ IF closed
       THEN UNCHANGED <<current, running, subs>>
       ELSE /\ current' = created + 1
            /\ running' = [g \in Sessions |->
                             g = created + 1 \/ (running[g] /\ g # current)]
            /\ UnsubscribeClient
    /\ UNCHANGED <<deterministicIngress, closed, ingressVars, resting, seqNum, marketData, lastRead>>

DisconnectClient ==
    /\ WriteLockFree /\ Undisturbed
    /\ current # NoSession
    /\ current' = NoSession
    /\ running' = [running EXCEPT ![current] = FALSE]
    /\ UnsubscribeClient
    /\ UNCHANGED <<deterministicIngress, closed, created, ingressVars, resting, seqNum, marketData, lastRead>>

\* Shutdown closes the gateways and leaves them, and the subscriptions, in place.
Shutdown ==
    /\ WriteLockFree /\ Undisturbed
    /\ ~closed
    /\ closed' = TRUE
    /\ running' = [g \in Sessions |-> running[g] /\ g # current]
    /\ UNCHANGED <<deterministicIngress, created, current, ingressVars, resting, feedVars>>

-----------------------------------------------------------------------------
(* The client.                                                             *)

\* Send: a request on an open gateway is queued, or dropped when it is full.
Send(g, ask) ==
    /\ running[g]
    /\ submitted < MaxRequests
    /\ submitted' = submitted + 1
    /\ requestCh' = IF Len(requestCh[g]) < RequestChSize
                    THEN [requestCh EXCEPT ![g] = Append(@, [num |-> submitted + 1, ask |-> ask])]
                    ELSE requestCh
    /\ UNCHANGED <<exchangeVars, stage, req, inFlight, served, resting, feedVars>>

ReadMarketData(g) ==
    /\ marketData[g] # <<>>
    /\ lastRead' = [lastRead EXCEPT ![g] = Head(marketData[g])]
    /\ marketData' = [marketData EXCEPT ![g] = Tail(@)]
    /\ UNCHANGED <<exchangeVars, ingressVars, resting, subs, seqNum>>

-----------------------------------------------------------------------------
(* Serving requests: HandleClientRequests runs for every gateway ever      *)
(* created, DrainIngress looks only at the gateways of the venue.          *)

Serves(g) == deterministicIngress => g = current /\ \A h \in Sessions : stage[h] = "idle"

TakeRequest(g) ==
    /\ stage[g] = "idle" /\ Serves(g)
    /\ requestCh[g] # <<>>
    /\ req' = [req EXCEPT ![g] = Head(requestCh[g])]
    /\ requestCh' = [requestCh EXCEPT ![g] = Tail(@)]
    /\ stage' = [stage EXCEPT ![g] = "taken"]
    /\ UNCHANGED <<exchangeVars, submitted, inFlight, served, resting, feedVars>>

CountRequest(g) ==
    /\ stage[g] = "taken"
    /\ inFlight' = inFlight + 1
    /\ stage' = [stage EXCEPT ![g] = "counted"]
    /\ UNCHANGED <<exchangeVars, requestCh, submitted, req, served, resting, feedVars>>

\* The handler is done with its request: the deferred decrement.
Finish(g) ==
    /\ inFlight' = inFlight - 1
    /\ req' = [req EXCEPT ![g] = NoRequest]
    /\ stage' = [stage EXCEPT ![g] = "idle"]

\* A mutant of CheckRunning: the early return leaks the in-flight count.
CheckRunningLeaks(g) ==
    /\ stage[g] = "counted"
    /\ IF req[g].ask.kind \in Discardable /\ ~running[g]
       THEN /\ stage' = [stage EXCEPT ![g] = "idle"]
            /\ req' = [req EXCEPT ![g] = NoRequest]
            /\ UNCHANGED inFlight
       ELSE stage' = [stage EXCEPT ![g] = "open"] /\ UNCHANGED <<req, inFlight>>
    /\ UNCHANGED <<exchangeVars, requestCh, submitted, served, resting, feedVars>>

\* A mutant of CheckRunning: every request of a shut gateway is discarded.
CheckRunningDiscardsAll(g) ==
    /\ stage[g] = "counted"
    /\ IF ~running[g]
       THEN Finish(g)
       ELSE stage' = [stage EXCEPT ![g] = "open"] /\ UNCHANGED <<req, inFlight>>
    /\ UNCHANGED <<exchangeVars, requestCh, submitted, served, resting, feedVars>>

\* Orders and subscriptions of a shut gateway are discarded.
CheckRunning(g) ==
    /\ stage[g] = "counted"
    /\ IF req[g].ask.kind \in Discardable /\ ~running[g]
       THEN Finish(g)
       ELSE stage' = [stage EXCEPT ![g] = "open"] /\ UNCHANGED <<req, inFlight>>
    /\ UNCHANGED <<exchangeVars, requestCh, submitted, served, resting, feedVars>>

\* admitRequest: the venue's request policy admits the request or refuses it.
AdmitRequest(g) ==
    /\ stage[g] = "open"
    /\ \E next \in {"admitted", "respond"} : stage' = [stage EXCEPT ![g] = next]
    /\ UNCHANGED <<exchangeVars, requestCh, submitted, req, inFlight, served, resting,
                   feedVars>>

\* validatePlaceOrder looks again, under the lock, at the gateway the venue has for
\* the client now, which need not be the one that asked.
VenueGatewayShut == current # NoSession /\ ~running[current]

\* PlaceOrder: the account is found by client ID, whichever session asked.  The
\* order rests, unless it is rejected or leaves nothing to rest.
PlaceOrder(g) ==
    /\ stage[g] = "admitted" /\ req[g].ask.kind = "PlaceOrder"
    /\ WriteLockFree
    /\ \/ UNCHANGED resting
       \/ ~VenueGatewayShut /\ resting' = resting \cup {req[g].num}
    /\ stage' = [stage EXCEPT ![g] = "respond"]
    /\ UNCHANGED <<exchangeVars, requestCh, submitted, req, inFlight, served, feedVars>>

\* CancelOrder of one of the client's orders, or of one that is no longer there.
CancelOrder(g) ==
    /\ stage[g] = "admitted" /\ req[g].ask.kind = "CancelOrder"
    /\ WriteLockFree
    /\ \E gone \in {{}} \cup {{id} : id \in resting} : resting' = resting \ gone
    /\ stage' = [stage EXCEPT ![g] = "respond"]
    /\ UNCHANGED <<exchangeVars, requestCh, submitted, req, inFlight, served, feedVars>>

\* Subscribe under the read lock: register with the publisher ...
Subscribe(g) ==
    /\ stage[g] = "admitted" /\ req[g].ask.kind = "Subscribe"
    /\ subs' = Subscribed(req[g].ask.symbol, g, req[g].ask.types)
    /\ stage' = [stage EXCEPT ![g] = "snapshot"]
    /\ UNCHANGED <<exchangeVars, requestCh, submitted, req, inFlight, served, resting,
                   seqNum, marketData, lastRead>>

\* ... then publish a snapshot to the symbol's subscriber.
SubscribeSnapshot(g) ==
    /\ stage[g] = "snapshot"
    /\ Publish(req[g].ask.symbol, "Snapshot")
    /\ stage' = [stage EXCEPT ![g] = "respond"]
    /\ UNCHANGED <<exchangeVars, requestCh, submitted, req, inFlight, served, resting,
                   subs, lastRead>>

\* Unsubscribe takes no exchange lock.
Unsubscribe(g) ==
    /\ stage[g] = "admitted" /\ req[g].ask.kind = "Unsubscribe"
    /\ subs' = Unsubscribed(req[g].ask.symbol, g)
    /\ stage' = [stage EXCEPT ![g] = "respond"]
    /\ UNCHANGED <<exchangeVars, requestCh, submitted, req, inFlight, served, resting,
                   seqNum, marketData, lastRead>>

EnqueueResponse(g) ==
    /\ stage[g] = "respond"
    /\ served' = served \cup {req[g].num}
    /\ Finish(g)
    /\ UNCHANGED <<exchangeVars, requestCh, submitted, resting, feedVars>>

Handle(g) ==
    \/ TakeRequest(g) \/ CountRequest(g) \/ CheckRunning(g) \/ AdmitRequest(g)
    \/ PlaceOrder(g) \/ CancelOrder(g)
    \/ Subscribe(g) \/ SubscribeSnapshot(g) \/ Unsubscribe(g)
    \/ EnqueueResponse(g)

-----------------------------------------------------------------------------
(* The market.                                                             *)

\* Another client's order trades or changes the book.
MarketMoves(s) ==
    /\ WriteLockFree /\ Undisturbed
    /\ seqNum < MaxPublished
    /\ subs[s].gateway # NoSession
    /\ Publish(s, "Trade")
    /\ UNCHANGED <<exchangeVars, ingressVars, resting, subs, lastRead>>

Next ==
    \/ ConnectNewClient \/ DisconnectClient \/ Shutdown
    \/ \E g \in Sessions : (\E ask \in Ask : Send(g, ask)) \/ ReadMarketData(g) \/ Handle(g)
    \/ \E s \in Symbols : MarketMoves(s)

Spec == Init /\ [][Next]_vars

(***************************************************************************)
(* Go schedules every handler goroutine, and the deterministic runner      *)
(* drains until no gateway of the venue holds a request.  Nobody has to    *)
(* connect, ask or read.                                                   *)
(***************************************************************************)
FairSpec == Spec /\ \A g \in Sessions : WF_vars(Handle(g))

-----------------------------------------------------------------------------
(* Properties.                                                             *)

\* Every variable has its type; a handler holds a request exactly when it is busy
\* with one, and channels hold no more than their capacity.
TypeOK ==
    /\ deterministicIngress \in BOOLEAN
    /\ closed \in BOOLEAN /\ created \in 0..MaxSessions /\ current \in 0..created
    /\ running \in [Sessions -> BOOLEAN]
    /\ \A g \in Sessions :
         /\ requestCh[g] \in Seq(Request) /\ Len(requestCh[g]) <= RequestChSize
         /\ marketData[g] \in Seq(1..seqNum) /\ Len(marketData[g]) <= MarketDataChSize
         /\ req[g] \in Request \cup {NoRequest}
         /\ req[g] = NoRequest <=> stage[g] = "idle"
    /\ stage \in [Sessions -> Stages]
    /\ submitted \in 0..MaxRequests
    /\ served \subseteq 1..submitted /\ resting \subseteq 1..submitted
    /\ subs \in [Symbols -> [gateway : 0..created, types : SUBSET MDTypes]]
    /\ seqNum \in 0..(MaxPublished + MaxRequests)
    /\ lastRead \in [Sessions -> 0..seqNum]

\* requestsInFlight counts exactly the requests between the increment and the
\* deferred decrement of handleClientRequest, whichever way it returns.
InFlightExact ==
    inFlight = Cardinality({g \in Sessions : stage[g] \notin {"idle", "taken"}})

\* Sequence numbers reach a session in increasing order, whichever handlers and
\* book updates publish concurrently (MDPublisher.Publish numbers and sends under
\* one mutex).
FeedInOrder ==
    \A g \in Sessions :
        LET seen == <<lastRead[g]>> \o marketData[g]
        IN  \A i \in 1..(Len(seen) - 1) : seen[i] < seen[i + 1]

\* A subscription disappears only by the request of the session that holds it, or
\* because the client reconnects or disconnects: a delayed Unsubscribe of a retired
\* session removes nothing of its successor.
LateUnsubscribeHarmless ==
    [][\A s \in Symbols :
         subs[s] # NoFeed /\ subs'[s] = NoFeed =>
            \/ current' # current
            \/ LET g == subs[s].gateway
               IN  stage[g] = "admitted" /\ stage'[g] = "respond"
                   /\ req[g].ask = [kind |-> "Unsubscribe", symbol |-> s]]_vars

\* Under the deterministic runner, the feeds of a session that stays current are
\* only added to, unless it unsubscribes itself: Subscribe merges types, and nobody
\* else takes them over.
LiveFeedKept ==
    [][\A s \in Symbols :
         deterministicIngress /\ current # NoSession /\ current' = current
         /\ subs[s].gateway = current =>
            \/ subs'[s].gateway = current /\ subs[s].types \subseteq subs'[s].types
            \/ req[current].ask.kind = "Unsubscribe" /\ stage'[current] = "respond"]_vars

\* Under the deterministic runner, the publisher refers to the client's current
\* session only: a reconnect carries no subscription and no gateway reference over
\* from the retired session.
NewSessionInheritsNothing ==
    deterministicIngress => \A s \in Symbols : subs[s].gateway \in {NoSession, current}

\* Orders and subscriptions of a gateway that is no longer running take no effect:
\* handleClientRequest discards them, and validatePlaceOrder looks again.
NoneServedAfterClose ==
    [][\A g \in Sessions :
         (/\ stage[g] = "admitted" /\ stage'[g] # "admitted"
          /\ req[g].ask.kind \in Discardable /\ ~running[g])
         => UNCHANGED <<resting, subs>>]_vars

\* With the deterministic runner that holds: no session ends between the check and
\* the effect.
PhasesServeNoneAfterClose ==
    [][\A g \in Sessions :
         (/\ deterministicIngress
          /\ stage[g] = "admitted" /\ stage'[g] # "admitted"
          /\ req[g].ask.kind \in Discardable /\ ~running[g])
         => UNCHANGED <<resting, subs>>]_vars

\* With a goroutine per gateway, a cancel or an unsubscribe that was queued is
\* eventually served, whether or not its gateway has been shut in the meantime.
CleanupEventuallyServed ==
    ~deterministicIngress => \A n \in 1..MaxRequests :
        (\E g \in Sessions : \E i \in 1..Len(requestCh[g]) :
            requestCh[g][i].num = n /\ requestCh[g][i].ask.kind \in Cleanup)
          ~> (n \in served)
=============================================================================
