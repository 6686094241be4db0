--------------------------- MODULE ClientGateway ---------------------------
(***************************************************************************)
(* One client gateway of the exchange (exchange/gateway.go) with the       *)
(* exchange goroutine that serves it (HandleClientRequests, or the         *)
(* deterministic DrainIngress) and the client that reads from it.          *)
(*                                                                         *)
(* A request is its kind.  A response is its number in enqueue order: what *)
(* it says does not matter to delivery.                                    *)
(***************************************************************************)
EXTENDS Naturals, Sequences

CONSTANTS
    RequestChSize,      \* capacity of RequestCh
    ResponseChSize,     \* capacity of ResponseCh
    MaxRequests,        \* bound: requests the client submits
    MaxNotifications    \* bound: fills and forced cancels other requests cause

GatewayAssumption ==
    /\ RequestChSize \in Nat \ {0}
    /\ ResponseChSize \in Nat \ {0}
    /\ MaxRequests \in Nat
    /\ MaxNotifications \in Nat

\* The request kinds the handler treats differently once the gateway is shut:
\* orders and subscriptions are discarded, everything else is still served.
Discardable == {"PlaceOrder", "Subscribe"}
RequestKinds == Discardable \cup {"CancelOrder"}
NoRequest == "none"
Accepted == "accepted"

VARIABLES
    phaseEgress,    \* the deterministic runner drains the outbox; set when the gateway is made
    requestCh,      \* RequestCh
    running,        \* running flag; Close also closes RequestCh
    sent,           \* bound counter: requests submitted
    handling,       \* the request the exchange goroutine holds, Accepted once it passed
                    \* the liveness check, or NoRequest
    outbox,         \* responses waiting for the deliverer
    delivering,     \* the delivering flag
    batch,          \* the deliverer's local batch
    deliverer,      \* where the deliverer goroutine stands
    responseCh,     \* ResponseCh
    received,       \* what the client took from ResponseCh
    enqueued,       \* how many responses were enqueued so far
    notified        \* bound counter: notifications

vars == <<phaseEgress, requestCh, running, sent, handling, outbox, delivering, batch,
          deliverer, responseCh, received, enqueued, notified>>

requestVars  == <<requestCh, sent>>
deliveryVars == <<outbox, delivering, batch, deliverer, responseCh>>

\* "off": no goroutine; "take": at the top of the loop, about to lock outMu;
\* "send": in the non-blocking send of batch[1]; "retry": about to look at
\* IsRunning; "wait": in the blocking select of the retry loop.
DelivererStates == {"off", "take", "send", "retry", "wait"}

Init ==
    /\ phaseEgress \in BOOLEAN
    /\ requestCh = <<>>
    /\ running = TRUE
    /\ sent = 0
    /\ handling = NoRequest
    /\ outbox = <<>>
    /\ delivering = FALSE
    /\ batch = <<>>
    /\ deliverer = "off"
    /\ responseCh = <<>>
    /\ received = <<>>
    /\ enqueued = 0
    /\ notified = 0

-----------------------------------------------------------------------------
(* The client's side.                                                      *)

\* A full channel drops the request silently; closeMu makes the liveness check
\* and the send one step with respect to Close.
Send(kind) ==
    /\ running
    /\ sent < MaxRequests
    /\ sent' = sent + 1
    /\ requestCh' = IF Len(requestCh) < RequestChSize
                    THEN Append(requestCh, kind) ELSE requestCh
    /\ UNCHANGED <<phaseEgress, running, handling, received, enqueued, notified>>
    /\ UNCHANGED deliveryVars

Close ==
    /\ running
    /\ running' = FALSE
    /\ UNCHANGED <<phaseEgress, handling, received, enqueued, notified>>
    /\ UNCHANGED requestVars
    /\ UNCHANGED deliveryVars

ReadResponse ==
    /\ responseCh # <<>>
    /\ received' = Append(received, Head(responseCh))
    /\ responseCh' = Tail(responseCh)
    /\ UNCHANGED <<phaseEgress, running, handling, outbox, delivering, batch, deliverer,
                   enqueued, notified>>
    /\ UNCHANGED requestVars

-----------------------------------------------------------------------------
(* The exchange's side.                                                    *)

\* enqueueResponse: append under outMu, and spawn the deliverer unless one is
\* active.  In phase mode the flag is raised and nobody is spawned.
EnqueueResponse ==
    /\ outbox' = Append(outbox, enqueued + 1)
    /\ enqueued' = enqueued + 1
    /\ delivering' = TRUE
    /\ deliverer' = IF ~delivering /\ ~phaseEgress THEN "take" ELSE deliverer
    /\ UNCHANGED <<batch, responseCh, received>>

\* The serving goroutine takes the oldest queued request.
TakeRequest ==
    /\ handling = NoRequest
    /\ requestCh # <<>>
    /\ handling' = Head(requestCh)
    /\ requestCh' = Tail(requestCh)
    /\ UNCHANGED <<phaseEgress, running, sent, received, enqueued, notified>>
    /\ UNCHANGED deliveryVars

\* handleClientRequest: orders and subscriptions of a shut gateway are discarded.
CheckRequest ==
    /\ handling \in RequestKinds
    /\ handling' = IF handling \in Discardable /\ ~running THEN NoRequest ELSE Accepted
    /\ UNCHANGED <<phaseEgress, running, received, enqueued, notified>>
    /\ UNCHANGED requestVars
    /\ UNCHANGED deliveryVars

\* ... anything else is executed and answered, even if the gateway was shut since.
FinishRequest ==
    /\ handling = Accepted
    /\ handling' = NoRequest
    /\ EnqueueResponse
    /\ UNCHANGED <<phaseEgress, running, notified>>
    /\ UNCHANGED requestVars

\* Another client's request fills or force-cancels an order of this client.
Notify ==
    /\ notified < MaxNotifications
    /\ notified' = notified + 1
    /\ EnqueueResponse
    /\ UNCHANGED <<phaseEgress, running, handling>>
    /\ UNCHANGED requestVars

-----------------------------------------------------------------------------
(* The deliverer goroutine (deliverOutbox and sendResponse).               *)

Room == Len(responseCh) < ResponseChSize

TakeBatch ==
    /\ deliverer = "take"
    /\ IF outbox = <<>>
       THEN /\ delivering' = FALSE
            /\ deliverer' = "off"
            /\ UNCHANGED <<outbox, batch>>
       ELSE /\ batch' = outbox
            /\ outbox' = <<>>
            /\ deliverer' = "send"
            /\ UNCHANGED delivering
    /\ UNCHANGED <<phaseEgress, running, handling, responseCh, received, enqueued, notified>>
    /\ UNCHANGED requestVars

\* batch[1] is done with, sent or given up; on to the next one.
NextOfBatch ==
    /\ batch' = Tail(batch)
    /\ deliverer' = IF Len(batch) = 1 THEN "take" ELSE "send"

SendFirst ==
    /\ responseCh' = Append(responseCh, Head(batch))
    /\ NextOfBatch

FastSend ==
    /\ deliverer = "send"
    /\ IF Room
       THEN SendFirst
       ELSE /\ deliverer' = "retry"
            /\ UNCHANGED <<batch, responseCh>>
    /\ UNCHANGED <<phaseEgress, running, handling, outbox, delivering, received, enqueued, notified>>
    /\ UNCHANGED requestVars

\* The top of the retry loop: give the response up only once closed.
CheckRunning ==
    /\ deliverer = "retry"
    /\ IF running
       THEN deliverer' = "wait" /\ UNCHANGED batch
       ELSE NextOfBatch
    /\ UNCHANGED <<phaseEgress, running, handling, outbox, delivering, responseCh, received,
                   enqueued, notified>>
    /\ UNCHANGED requestVars

\* A mutant of SelectSend: after a wait the loop is left without sending.
SelectSendForgets ==
    /\ deliverer = "wait"
    /\ Room
    /\ deliverer' = "retry"
    /\ UNCHANGED <<batch, responseCh>>
    /\ UNCHANGED <<phaseEgress, running, handling, outbox, delivering, received, enqueued, notified>>
    /\ UNCHANGED requestVars

\* The blocking select of the retry loop: the send goes through ...
SelectSend ==
    /\ deliverer = "wait"
    /\ Room
    /\ SendFirst
    /\ UNCHANGED <<phaseEgress, running, handling, outbox, delivering, received, enqueued, notified>>
    /\ UNCHANGED requestVars

\* ... or the 10 ms timer fires first.
SelectTimer ==
    /\ deliverer = "wait"
    /\ deliverer' = "retry"
    /\ UNCHANGED <<phaseEgress, running, handling, outbox, delivering, batch, responseCh,
                   received, enqueued, notified>>
    /\ UNCHANGED requestVars

Deliver == TakeBatch \/ FastSend \/ CheckRunning \/ SelectSend \/ SelectTimer

\* DrainDeterministicEgress: the runner moves as much as fits, in one step.
Drained == IF Len(outbox) <= ResponseChSize - Len(responseCh)
           THEN Len(outbox) ELSE ResponseChSize - Len(responseCh)

DrainDeterministicEgress ==
    /\ phaseEgress
    /\ delivering
    /\ responseCh' = responseCh \o SubSeq(outbox, 1, Drained)
    /\ outbox' = SubSeq(outbox, Drained + 1, Len(outbox))
    /\ delivering' = (Drained < Len(outbox))
    /\ UNCHANGED <<phaseEgress, running, handling, batch, deliverer, received, enqueued, notified>>
    /\ UNCHANGED requestVars

-----------------------------------------------------------------------------
Next ==
    \/ \E kind \in RequestKinds : Send(kind)
    \/ Close
    \/ ReadResponse
    \/ TakeRequest
    \/ CheckRequest
    \/ FinishRequest
    \/ Notify
    \/ Deliver
    \/ DrainDeterministicEgress

Spec == Init /\ [][Next]_vars

(***************************************************************************)
(* Go schedules every runnable goroutine, so the deliverer and the         *)
(* draining runner take their steps; the client is assumed to keep         *)
(* reading.  Every round of the retry loop arms a fresh timer, so a send   *)
(* that is possible again and again is eventually the ready case: strong   *)
(* fairness.  Nothing forces a client to submit, or anyone to close.       *)
(***************************************************************************)
Fairness ==
    /\ WF_vars(Deliver)
    /\ SF_vars(SelectSend)
    /\ WF_vars(DrainDeterministicEgress)
    /\ WF_vars(ReadResponse)

FairSpec == Spec /\ Fairness

-----------------------------------------------------------------------------
(* Properties.                                                             *)

ResponseNumbers == 1..(MaxRequests + MaxNotifications)

\* Every variable has its type: channels hold no more than their capacity and
\* the deliverer has a batch exactly while it is delivering one.
TypeOK ==
    /\ phaseEgress \in BOOLEAN
    /\ requestCh \in Seq(RequestKinds) /\ Len(requestCh) <= RequestChSize
    /\ running \in BOOLEAN
    /\ sent \in 0..MaxRequests
    /\ handling \in RequestKinds \cup {Accepted, NoRequest}
    /\ outbox \in Seq(ResponseNumbers)
    /\ delivering \in BOOLEAN
    /\ batch \in Seq(ResponseNumbers)
    /\ deliverer \in DelivererStates
    /\ batch # <<>> <=> deliverer \in {"send", "retry", "wait"}
    /\ responseCh \in Seq(ResponseNumbers) /\ Len(responseCh) <= ResponseChSize
    /\ received \in Seq(ResponseNumbers)
    /\ enqueued \in 0..(MaxRequests + MaxNotifications)
    /\ notified \in 0..MaxNotifications

\* No response is stranded: whenever the outbox holds something, somebody owns
\* the job of draining it.  The delivering flag is raised, and outside phase
\* mode a deliverer goroutine exists exactly when it is raised.  (The flag is
\* cleared and the goroutine exits in one outMu critical section; an enqueue
\* that slipped in between would never be delivered.)
NoStrandedResponse ==
    /\ outbox # <<>> => delivering
    /\ ~phaseEgress => (delivering <=> deliverer # "off")
    /\ phaseEgress => deliverer = "off" /\ batch = <<>>

\* The gateway implements the abstract response stream: outbox, batch and
\* ResponseCh together are one FIFO; nothing is duplicated or reordered, and
\* nothing is given up before Close.
RS == INSTANCE ResponseStream WITH
        pending <- responseCh \o batch \o outbox,
        open <- running

ImplementsResponseStream == RS!Stream

\* A response enqueued on a gateway that stays open is eventually received,
\* however full ResponseCh was when the deliverer first tried.
EventuallyReceived ==
    \A n \in ResponseNumbers :
        (enqueued >= n) ~> (~running \/ \E i \in 1..Len(received) : received[i] = n)
=============================================================================
