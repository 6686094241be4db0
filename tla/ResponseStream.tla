--------------------------- MODULE ResponseStream ---------------------------
(***************************************************************************)
(* What a client gateway promises about the responses the exchange hands   *)
(* to it, independently of outboxes, deliverer goroutines and channels:    *)
(* one FIFO stream, every response delivered at most once and in enqueue   *)
(* order, and none lost while the gateway is open (the contract stated     *)
(* above enqueueResponse and sendResponse in exchange/gateway.go).         *)
(*                                                                         *)
(* Responses are numbered 1, 2, 3, ... in the order they are enqueued.     *)
(***************************************************************************)
EXTENDS Naturals, Sequences

VARIABLES
    enqueued,   \* how many responses the exchange has enqueued
    pending,    \* accepted and not yet received, oldest first
    received,   \* what the client has received, oldest first
    open        \* the gateway has not been closed

streamVars == <<enqueued, pending, received, open>>

StreamInit ==
    /\ enqueued = 0
    /\ pending = <<>>
    /\ received = <<>>
    /\ open = TRUE

Accept ==
    /\ enqueued' = enqueued + 1
    /\ pending' = Append(pending, enqueued + 1)
    /\ UNCHANGED <<received, open>>

Receive ==
    /\ pending # <<>>
    /\ received' = Append(received, Head(pending))
    /\ pending' = Tail(pending)
    /\ UNCHANGED <<enqueued, open>>

Retire ==
    /\ open
    /\ open' = FALSE
    /\ UNCHANGED <<enqueued, pending, received>>

\* Only a closed gateway gives a response up, and the rest keep their order.
GiveUp ==
    /\ ~open
    /\ \E i \in 1..Len(pending) :
          pending' = SubSeq(pending, 1, i - 1) \o SubSeq(pending, i + 1, Len(pending))
    /\ UNCHANGED <<enqueued, received, open>>

StreamNext == Accept \/ Receive \/ Retire \/ GiveUp

Stream == StreamInit /\ [][StreamNext]_streamVars
=============================================================================
