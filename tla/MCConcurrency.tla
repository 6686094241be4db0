--------------------------- MODULE MCConcurrency ---------------------------
(***************************************************************************)
(* The three places where goroutines of the simulator share state, checked *)
(* in one run: the clock and its scheduler (EventScheduler), the delivery  *)
(* of a gateway's responses (ClientGateway) and the sessions of a client   *)
(* (ClientSession).  No state of one is read by another, so a behaviour    *)
(* exercises one of them while the others stay as they started.            *)
(***************************************************************************)
EXTENDS EventScheduler

CONSTANTS
    RequestChSize, ResponseChSize, MaxRequests, MaxNotifications,
    Symbols, SessionRequestChSize, MarketDataChSize, MaxSessions,
    MaxSessionRequests, MaxPublished

VARIABLES
    part,
    phaseEgress, requestCh, running, sent, handling, outbox, delivering, batch,
    deliverer, responseCh, received, enqueued, notified,
    deterministicIngress, closed, created, session, sessionRunning,
    sessionRequestCh, submitted, stage, req, inFlight, served, resting,
    subs, seqNum, marketData, lastRead

Gateway == INSTANCE ClientGateway

Session == INSTANCE ClientSession WITH
    RequestChSize <- SessionRequestChSize, MaxRequests <- MaxSessionRequests,
    current <- session, running <- sessionRunning, requestCh <- sessionRequestCh

ASSUME Gateway!GatewayAssumption /\ Session!SessionAssumption

gatewayVars == <<phaseEgress, requestCh, running, sent, handling, outbox, delivering,
                 batch, deliverer, responseCh, received, enqueued, notified>>

sessionVars == <<deterministicIngress, closed, created, session, sessionRunning,
                 sessionRequestCh, submitted, stage, req, inFlight, served, resting,
                 subs, seqNum, marketData, lastRead>>

allVars == <<part, vars, gatewayVars, sessionVars>>

PartsInit ==
    /\ part \in {"clock", "gateway", "session"}
    /\ Init /\ Gateway!Init /\ Session!Init
    /\ part # "gateway" => ~phaseEgress
    /\ part # "session" => ~deterministicIngress

InClock(A) == part = "clock" /\ A /\ UNCHANGED <<part, gatewayVars, sessionVars>>

InGateway(A) == part = "gateway" /\ A /\ UNCHANGED <<part, vars, sessionVars>>

InSession(A) == part = "session" /\ A /\ UNCHANGED <<part, vars, gatewayVars>>

PartsNext == InClock(Next) \/ InGateway(Gateway!Next) \/ InSession(Session!Next)

\* The fairness of each part is the one its module states.
PartsSpec ==
    /\ PartsInit /\ [][PartsNext]_allVars
    /\ \A a \in Advancers : WF_allVars(InClock(Walk(a)))
    /\ WF_allVars(InGateway(Gateway!Deliver))
    /\ SF_allVars(InGateway(Gateway!SelectSend))
    /\ WF_allVars(InGateway(Gateway!DrainDeterministicEgress))
    /\ WF_allVars(InGateway(Gateway!ReadResponse))
    /\ \A g \in 1..MaxSessions : WF_allVars(InSession(Session!Handle(g)))

-----------------------------------------------------------------------------
(* The properties of the instantiated modules, under their names.          *)

\* Every variable of the three parts has its type, and what goroutines count and
\* number for each other stays exact: requestsInFlight is the requests between the
\* increment and the deferred decrement of handleClientRequest, whichever way it
\* returns; sequence numbers reach a session in increasing order, whichever handlers
\* publish concurrently; an outbox that holds something has somebody to drain it.
PartsCoherent ==
    /\ TypeOK /\ Gateway!TypeOK /\ Session!TypeOK
    /\ Session!InFlightExact /\ Session!FeedInOrder
    /\ Gateway!NoStrandedResponse

\* A response enqueued on a gateway that stays open is eventually received,
\* however full ResponseCh was when the deliverer first tried.
EventuallyReceived == part = "gateway" => Gateway!EventuallyReceived

\* A client's sessions do not reach into each other: a delayed Unsubscribe of a
\* retired session removes nothing of its successor; and under the deterministic
\* runner a reconnect carries no subscription over, the feeds of a session that
\* stays current are only added to unless it unsubscribes itself, and orders and
\* subscriptions of a gateway that is no longer running take no effect.
SessionsIsolated ==
    /\ Session!LateUnsubscribeHarmless
    /\ []Session!NewSessionInheritsNothing
    /\ Session!LiveFeedKept
    /\ Session!PhasesServeNoneAfterClose

\* With a goroutine per gateway, a cancel or an unsubscribe that was queued is
\* eventually served, whether or not its gateway has been shut in the meantime.
CleanupEventuallyServed == part = "session" => Session!CleanupEventuallyServed
=============================================================================
