----------------------------- MODULE SpotVenue -----------------------------
(***************************************************************************)
(* The core of the exchange for one spot instrument: admission, funds      *)
(* reservation, the spot execution plan, price-time matching, settlement   *)
(* and resting, with the client ledgers, the venue's fee revenue and the   *)
(* public depth feed (exchange/order_handling.go, settlement.go and        *)
(* spot_execution_plan.go).                                                *)
(*                                                                         *)
(* PlaceOrder, CancelOrder and CancelAllClientOrders run under the         *)
(* exchange lock.  Admission is one step; the loops a handler then runs    *)
(* (cancelling a set of orders, matching, settling) are one step per       *)
(* iteration, with phase # "idle" while the lock is held.  A rejected      *)
(* request changes nothing and is not a step.                              *)
(*                                                                         *)
(* Margin borrowing is off (BorrowingMgr = nil).  A fee source that fails  *)
(* before anything was cancelled rejects the request without a trace; one  *)
(* that fails after the evictions is the step RejectUnpriced.              *)
(***************************************************************************)
EXTENDS LimitOrderBook

CONSTANTS
    Clients,            \* connected accounts
    Requests,           \* the order requests clients submit
    Assets,             \* every asset a ledger may hold
    Base, Quote,        \* the instrument's assets
    Precision,          \* the instrument's base precision
    MaxInt,             \* the largest int64
    Fee(_, _, _, _),    \* client, is maker, qty, price: [asset, amount]
    FeeSourceMayFail,   \* a client's fee plan depends on a price source
    InitialBalance,     \* deposits: client -> asset -> amount
    MaxOrders           \* bound: orders the venue accepts

OrderIds == Nat \ {0}
OrderTypes == {"Limit", "Market"}
TimesInForce == {"GTC", "IOC", "FOK"}

RequestSet ==
    [side : Sides, type : OrderTypes, tif : TimesInForce, postOnly : BOOLEAN,
     price : Nat, qty : Nat \ {0}, vis : Visibilities, icebergQty : Nat]

Prices == {r.price : r \in Requests}
Quantities == UNION {1..r.qty : r \in Requests}

ASSUME SpotVenueAssumption ==
    /\ IsFiniteSet(Clients)
    /\ Requests \subseteq RequestSet
    /\ \A r \in Requests : r.qty <= MaxInt
    /\ Base \in Assets /\ Quote \in Assets /\ Base # Quote
    /\ Precision \in Nat \ {0}
    /\ MaxInt \in Nat
    /\ MaxOrders \in Nat
    /\ FeeSourceMayFail \in BOOLEAN
    /\ InitialBalance \in [Clients -> [Assets -> 0..MaxInt]]

\* What the code checks of a fee model is only its shape: a fee may be zero, or
\* negative (a rebate), and may be charged in any asset.
ASSUME FeeAssumption ==
    \A c \in Clients, isMaker \in BOOLEAN, qty \in Quantities, price \in Prices :
        Fee(c, isMaker, qty, price) \in [asset : Assets, amount : Int]

VARIABLES
    phase,          \* what the handler holding the exchange lock is doing
    nextOrderID,    \* NextOrderID
    nextLink,       \* queue position the next linked order gets
    book,           \* the orders in the book's two indexes
    orderIDs,       \* Client.OrderIDs
    balance,        \* Client.Balances
    reserved,       \* Client.Reserved
    feeRevenue,     \* the venue's fee revenue account
    published,      \* visible quantity last published for a side and price
    taker,          \* the order being placed
    doomed,         \* orders the handler is about to force-cancel
    planned,        \* executions of the spot execution plan
    executions,     \* executions the live match produced
    settled,        \* how many of them are settled
    forced          \* orders whose ForcedCancelNotification this handler queued

bookVars   == <<nextLink, book, orderIDs>>
ledgerVars == <<balance, reserved, feeRevenue>>
planVars   == <<planned, executions, settled>>
vars == <<phase, nextOrderID, nextLink, book, orderIDs, balance, reserved,
          feeRevenue, published, taker, doomed, planned, executions, settled, forced>>

Phases == {"idle", "evict", "match", "settle", "rest", "cancelAll", "panic"}
NoOrder == "no order"
NoFees == [a \in Assets |-> 0]

Init ==
    /\ phase = "idle"
    /\ nextOrderID = 0
    /\ nextLink = 0
    /\ book = <<>>
    /\ orderIDs = [c \in Clients |-> {}]
    /\ balance = InitialBalance
    /\ reserved = [c \in Clients |-> NoFees]
    /\ feeRevenue = NoFees
    /\ published = [side \in Sides |-> [p \in Prices |-> 0]]
    /\ taker = NoOrder
    /\ doomed = {}
    /\ planned = <<>>
    /\ executions = <<>>
    /\ settled = 0
    /\ forced = {}

-----------------------------------------------------------------------------
(* Amounts.                                                                *)

Greater(m, n) == IF m > n THEN m ELSE n

\* etypes.MulDiv: truncating
Notional(qty, price) == (qty * price) \div Precision

\* reserveAsset: what the order must supply, and what it receives
ReserveAsset(side) == IF side = "Buy" THEN Quote ELSE Base
ReceivedAsset(side) == ReserveAsset(OppositeSide(side))

FeeIn(fee, asset) == IF fee.asset = asset THEN fee.amount ELSE 0

\* The largest non-negative maker or taker fee in the asset: a resting order
\* may fill in either role.
FeeHeadroom(c, qty, price, asset) ==
    IF qty = 0 THEN 0
    ELSE Greater(0, Greater(FeeIn(Fee(c, FALSE, qty, price), asset),
                            FeeIn(Fee(c, TRUE, qty, price), asset)))

\* spotOrderReservation
SpotOrderReservation(c, side, qty, price) ==
    (IF side = "Buy" THEN Notional(qty, price) ELSE qty)
        + FeeHeadroom(c, qty, price, ReserveAsset(side))

\* foreignFeeReservations of a limit order: fees in neither base nor quote
ForeignFees(c, qty, price) ==
    [a \in Assets |-> IF a \in {Base, Quote} THEN 0 ELSE FeeHeadroom(c, qty, price, a)]

\* A mutant of LegFlow: the buyer's notional is rounded up, the seller's down.
LegFlowRoundsUp(side, x, fee) ==
    [a \in Assets |->
        (CASE a = Base  -> IF side = "Buy" THEN x.qty ELSE -x.qty
           [] a = Quote -> IF side = "Buy" THEN -((x.qty * x.price + Precision - 1) \div Precision)
                           ELSE Notional(x.qty, x.price)
           [] OTHER -> 0) - FeeIn(fee, a)]

\* What one execution does to one party's balances.
LegFlow(side, x, fee) ==
    [a \in Assets |->
        (CASE a = Base  -> IF side = "Buy" THEN x.qty ELSE -x.qty
           [] a = Quote -> IF side = "Buy" THEN -Notional(x.qty, x.price)
                           ELSE Notional(x.qty, x.price)
           [] OTHER -> 0) - FeeIn(fee, a)]

Available(c, asset) == balance[c][asset] - reserved[c][asset]

-----------------------------------------------------------------------------
(* Matching on a detached copy of the book.                                *)

\* A mutant of PreviewMatch: the clone forgets that orders are icebergs.
PreviewMatchForgetsTranches(bk, order) ==
    Match([i \in DOMAIN bk |-> [bk[i] EXCEPT !.vis = "Normal"]], order, nextLink)

\* previewMatchExcluding: the matcher run on a clone of the book.
PreviewMatch(bk, order) == Match(bk, order, nextLink)

-----------------------------------------------------------------------------
(* Market-order requirements, from the previewed executions.               *)

\* marketForeignFeeReservations: the running shortfall of the received asset
\* once fees are netted against it, and every fee in a third asset.
MarketFees(order, execs) ==
    LET received == ReceivedAsset(order.side)
        upTo[n \in 0..Len(execs)] ==
          IF n = 0 THEN [net |-> 0, fees |-> NoFees]
          ELSE LET x    == execs[n]
                   prev == upTo[n - 1]
                   fee  == Fee(order.client, FALSE, x.qty, x.price)
                   got  == IF order.side = "Buy" THEN x.qty ELSE Notional(x.qty, x.price)
                   net  == prev.net + got - Greater(0, FeeIn(fee, received))
               IN  [net  |-> net,
                    fees |-> [a \in Assets |->
                       CASE a = received -> Greater(prev.fees[a], -net)
                         [] a = ReserveAsset(order.side) -> 0
                         [] OTHER -> prev.fees[a] + Greater(0, FeeIn(fee, a))]]
    IN  upTo[Len(execs)].fees

\* spotMarketRequirement: principal and positive fees in the supplied asset.
SpotMarketRequirement(order, execs) ==
    MapThenSumSet(
        LAMBDA n : LET x == execs[n] IN
            (IF order.side = "Buy" THEN Notional(x.qty, x.price) ELSE x.qty)
            + Greater(0, FeeIn(Fee(order.client, FALSE, x.qty, x.price),
                               ReserveAsset(order.side))),
        1..Len(execs))

-----------------------------------------------------------------------------
(* The spot execution plan (prepareSpotExecutionPlan): settle the previewed *)
(* executions on a copy of the ledgers, and name the first party that      *)
(* cannot pay.  A plan state is the copied ledger, the orders whose        *)
(* reservation was adjusted, and the culprit's order ID (0: nobody).       *)

Ledger == [bal |-> balance, res |-> reserved]

Solvent(led, c) ==
    \A a \in Assets : 0 <= led.res[c][a] /\ led.res[c][a] <= led.bal[c][a]

\* What the unfilled part of an order still has to hold once the match is over;
\* only a limit GTC order rests.
Rests(o) == o.type = "Limit" /\ o.tif = "GTC"
StillNeeded(o, filled) ==
    IF Rests(o) /\ filled < o.qty
    THEN SpotOrderReservation(o.client, o.side, o.qty - filled, o.price) ELSE 0
StillForeign(o, filled) ==
    IF Rests(o) /\ filled < o.qty
    THEN ForeignFees(o.client, o.qty - filled, o.price) ELSE NoFees

\* beginOrder, at the order's first execution: free what the remainder no
\* longer needs.
PlanBegin(s, id, o, filled, start) ==
    LET asset == ReserveAsset(o.side)
        freed == o.reserved - StillNeeded(o, filled)
    IN  IF s.culprit # 0 \/ id \in s.begun THEN s
        ELSE IF \/ ~Solvent(start, o.client)
                \/ freed < 0
                \/ s.res[o.client][asset] < freed
             THEN [s EXCEPT !.culprit = id]
             ELSE [s EXCEPT !.begun = @ \cup {id},
                            !.res[o.client][asset] = @ - freed]

\* applyExecution: move one party's balances, within 0..MaxInt.
PlanApply(s, id, c, side, x, isMaker) ==
    LET flow == LegFlow(side, x, Fee(c, isMaker, x.qty, x.price))
        next == [a \in Assets |-> s.bal[c][a] + flow[a]]
    IN  IF s.culprit # 0 THEN s
        ELSE IF \E a \in Assets : next[a] \notin 0..MaxInt
             THEN [s EXCEPT !.culprit = id]
             ELSE [s EXCEPT !.bal[c] = next]

\* finishOrder: swap the order's third-asset fee reserve for the remainder's,
\* once; the account must be solvent afterwards.
PlanFinish(s, id, o, filled) ==
    LET c     == o.client
        swap  == IF id \in s.finished THEN s.res[c]
                 ELSE [a \in Assets |-> s.res[c][a] - o.feeReserved[a]
                                          + StillForeign(o, filled)[a]]
        after == [s EXCEPT !.res[c] = swap, !.finished = @ \cup {id}]
    IN  IF s.culprit # 0 \/ o.type = "Market" THEN s
        ELSE IF Solvent(after, c) THEN after ELSE [s EXCEPT !.culprit = id]

\* finishTerminalOrder: a market order's fee escrow is released at the end.
PlanTerminal(s, id, o) ==
    LET after == [s EXCEPT !.res[o.client] =
                    [a \in Assets |-> s.res[o.client][a] - o.feeReserved[a]]]
    IN  IF s.culprit # 0 \/ o.type # "Market" \/ id \notin s.begun THEN s
        ELSE IF Solvent(after, o.client) THEN after ELSE [s EXCEPT !.culprit = id]

\* One execution: the taker's leg, then the maker's.
PlanStep(s, id, o, execs, n, bk, led) ==
    LET x     == execs[n]
        m     == bk[x.maker]
        fills == {k \in 1..Len(execs) : execs[k].maker = x.maker}
        mEnd  == execs[Max(fills)].makerFilled
        tEnd  == execs[Len(execs)].takerFilled
        s1 == PlanBegin(s, id, o, tEnd, led)
        s2 == PlanBegin(s1, x.maker, m, mEnd, led)
        s3 == PlanApply(s2, id, o.client, o.side, x, FALSE)
        s4 == PlanApply(s3, x.maker, m.client, m.side, x, TRUE)
        s5 == PlanFinish(s4, id, o, tEnd)
    IN  IF s.culprit # 0 THEN s ELSE PlanFinish(s5, x.maker, m, mEnd)

\* prepareSpotExecutionPlan on a book and ledger: the executions, whether they
\* fill the order, and the culprit.
SpotPlan(bk, led, id, o) ==
    LET pv == PreviewMatch(bk, o)
        upTo[n \in 0..Len(pv.execs)] ==
          IF n = 0 THEN [bal |-> led.bal, res |-> led.res, begun |-> {},
                         finished |-> {}, culprit |-> 0]
          ELSE PlanStep(upTo[n - 1], id, o, pv.execs, n, bk, led)
    IN  [execs |-> pv.execs,
         fullyFilled |-> Remaining(pv.order) = 0,
         culprit |-> PlanTerminal(upTo[Len(pv.execs)], id, o).culprit]

\* The loop in PlaceOrder: exclude every maker that cannot settle, plan again.
ExcludedMakers(led, id, o) ==
    LET after[n \in 0..Cardinality(DOMAIN book)] ==
          IF n = 0 THEN {}
          ELSE LET ex == after[n - 1]
                   culprit == SpotPlan(RemoveOrders(book, ex), led, id, o).culprit
               IN  IF Cardinality(ex) < n - 1 \/ culprit \in {0, id}
                   THEN ex ELSE ex \cup {culprit}
    IN  after[Cardinality(DOMAIN book)]

-----------------------------------------------------------------------------
(* PlaceOrder up to the commit of the order ID.                            *)

\* newOrderFromRequest
NewOrder(c, r) ==
    [client |-> c, side |-> r.side, type |-> r.type, tif |-> r.tif,
     price |-> r.price, qty |-> r.qty, filled |-> 0, vis |-> r.vis,
     icebergQty |-> r.icebergQty, display |-> 0, prio |-> 0,
     reserved |-> 0, feeReserved |-> NoFees, cancelled |-> FALSE]

\* The post-only contract is judged against every resting quote, the client's
\* own included.
PostOnlyWouldTake(r) ==
    \E i \in DOMAIN book : /\ Linked(book[i])
                           /\ book[i].side = OppositeSide(r.side)
                           /\ AsGoodAs(r.side, r.price, book[i].price)

\* restingLevelAggregateViolation: the level the remainder would join must stay
\* representable.
RestingLevelAggregateViolation(o) ==
    /\ Rests(o)
    /\ LevelOf(book, o.side, o.price) # {}
    /\ LET left == Remaining(PreviewMatch(book, o).order)
       IN  left > 0 /\ TotalQty(book, o.side, o.price) + left > MaxInt

ValidatePlaceOrder(c, r) ==
    /\ r.postOnly => r.type = "Limit" /\ r.tif = "GTC"
    /\ Notional(r.qty, r.price) <= MaxInt
    /\ r.vis = "Iceberg" => r.icebergQty > 0
    /\ ~RestingLevelAggregateViolation(NewOrder(c, r))
    /\ r.postOnly => ~PostOnlyWouldTake(r)

\* reserveOrderFunds: what the order locks in each asset, and for a market
\* order what it must merely be able to pay.  Amounts are int64, and Reserve
\* refuses a negative one.
ForeignFeeReservations(o, execs) ==
    IF o.type = "Market" THEN MarketFees(o, execs) ELSE ForeignFees(o.client, o.qty, o.price)

TradeReservation(o) ==
    IF o.type = "Market" THEN 0 ELSE SpotOrderReservation(o.client, o.side, o.qty, o.price)


CanFund(o, execs) ==
    LET fees == ForeignFeeReservations(o, execs)
        asset == ReserveAsset(o.side)
        must == IF o.type = "Market" THEN SpotMarketRequirement(o, execs)
                ELSE TradeReservation(o)
    IN  /\ fees \in [Assets -> 0..MaxInt]
        /\ must \in 0..MaxInt
        /\ \A a \in Assets : fees[a] <= Available(o.client, a)
        /\ must + fees[asset] <= Available(o.client, asset)

\* The order with its reservations recorded, and the account after locking them.
FundedOrder(o, execs) ==
    [o EXCEPT !.reserved = TradeReservation(o),
              !.feeReserved = ForeignFeeReservations(o, execs)]

Locked(o) ==
    [a \in Assets |-> o.feeReserved[a] + (IF a = ReserveAsset(o.side) THEN o.reserved ELSE 0)]

LockFunds(res, o) ==
    [res EXCEPT ![o.client] = [a \in Assets |-> res[o.client][a] + Locked(o)[a]]]

\* releaseReserved: what the order still holds, never below zero.
ReleaseReserved(res, o) ==
    [res EXCEPT ![o.client] = [a \in Assets |-> Greater(0, res[o.client][a] - Locked(o)[a])]]

\* PlaceOrder: validate, preview (FOK must fill), reserve, exclude the makers
\* that could not settle, and plan.  The taker itself failing the plan, or an FOK
\* left short without the excluded makers, rejects the order.
PlaceOrder(c, r) ==
    LET id  == nextOrderID + 1
        pv  == PreviewMatch(book, NewOrder(c, r))
        o   == FundedOrder(NewOrder(c, r), pv.execs)
        led == [bal |-> balance, res |-> LockFunds(reserved, o)]
        ex  == ExcludedMakers(led, id, o)
        plan == SpotPlan(RemoveOrders(book, ex), led, id, o)
    IN  /\ phase = "idle"
        /\ nextOrderID < MaxOrders
        /\ ValidatePlaceOrder(c, r)
        /\ r.tif = "FOK" => Remaining(pv.order) = 0
        /\ CanFund(NewOrder(c, r), pv.execs)
        /\ plan.culprit = 0
        /\ r.tif = "FOK" => plan.fullyFilled
        /\ phase' = IF ex \subseteq DOMAIN book THEN "evict" ELSE "panic"
        /\ taker' = o
        /\ reserved' = led.res
        /\ doomed' = ex \cap DOMAIN book
        /\ UNCHANGED <<nextOrderID, balance, feeRevenue, published, forced>>
        /\ UNCHANGED bookVars
        /\ UNCHANGED planVars

-----------------------------------------------------------------------------
(* Forced and requested cancels.                                           *)

\* publishBookUpdate: the displayed quantity of one level, zero if it is gone.
PublishBookUpdate(pub, bk, side, price) ==
    [pub EXCEPT ![side][price] = VisibleQty(bk, side, price)]

\* A mutant of PublishUnlessHidden: icebergs are kept dark too.
PublishOnlyNormal(pub, bk, o) ==
    IF o.vis # "Normal" THEN pub ELSE PublishBookUpdate(pub, bk, o.side, o.price)

\* Hidden orders emit no public deltas.
PublishUnlessHidden(pub, bk, o) ==
    IF o.vis = "Hidden" THEN pub ELSE PublishBookUpdate(pub, bk, o.side, o.price)

\* releaseReserved, Book.CancelOrder, publishBookUpdate, Client.RemoveOrder
DropOrder(id) ==
    LET o == book[id]
    IN  /\ reserved' = ReleaseReserved(reserved, o)
        /\ book' = RemoveOrders(book, {id})
        /\ published' = PublishUnlessHidden(published, RemoveOrders(book, {id}), o)
        /\ orderIDs' = [orderIDs EXCEPT ![o.client] = @ \ {id}]

\* A mutant of ForceCancelOne: hidden orders, which publish nothing, are skipped.
ForceCancelOneSkipsHidden ==
    /\ phase \in {"evict", "rest", "cancelAll"}
    /\ \E id \in doomed :
        /\ book[id].vis # "Hidden"
        /\ DropOrder(id)
        /\ doomed' = doomed \ {id}
        /\ forced' = forced \cup {id}
    /\ UNCHANGED <<phase, nextOrderID, nextLink, balance, feeRevenue, taker>>
    /\ UNCHANGED planVars

\* One turn of the loop over the orders to force-cancel, in increasing ID.
ForceCancelOne ==
    /\ phase \in {"evict", "rest", "cancelAll"}
    /\ \E id \in doomed :
        /\ \A other \in doomed : id <= other
        /\ DropOrder(id)
        /\ doomed' = doomed \ {id}
        /\ forced' = forced \cup {id}
    /\ UNCHANGED <<phase, nextOrderID, nextLink, balance, feeRevenue, taker>>
    /\ UNCHANGED planVars

CancelOrder(c, id) ==
    /\ phase = "idle"
    /\ id \in DOMAIN book
    /\ book[id].client = c
    /\ Linked(book[id])
    /\ DropOrder(id)
    /\ UNCHANGED <<phase, nextOrderID, nextLink, balance, feeRevenue, taker, doomed, forced>>
    /\ UNCHANGED planVars

\* CancelAllClientOrders: collect the client's orders by scanning the book.
CancelAllClientOrders(c) ==
    /\ phase = "idle"
    /\ doomed' = {id \in DOMAIN book : book[id].client = c}
    /\ doomed' # {}
    /\ phase' = "cancelAll"
    /\ UNCHANGED <<nextOrderID, published, taker, forced>>
    /\ UNCHANGED bookVars
    /\ UNCHANGED ledgerVars
    /\ UNCHANGED planVars

CancelAllDone ==
    /\ phase = "cancelAll"
    /\ doomed = {}
    /\ phase' = "idle"
    /\ forced' = {}
    /\ UNCHANGED <<nextOrderID, published, taker, doomed>>
    /\ UNCHANGED bookVars
    /\ UNCHANGED ledgerVars
    /\ UNCHANGED planVars

-----------------------------------------------------------------------------
(* The committed part of PlaceOrder.                                       *)

\* The handler returns and releases the exchange lock.
EndHandler ==
    /\ phase' = "idle"
    /\ taker' = NoOrder
    /\ planned' = <<>>
    /\ executions' = <<>>
    /\ settled' = 0
    /\ forced' = {}
    /\ UNCHANGED <<nextOrderID, balance, feeRevenue, doomed>>

\* The plan made again after the evictions cannot price a fill: the order is
\* rejected and its funds are released, the evictions stay.
RejectUnpriced ==
    /\ phase = "evict"
    /\ doomed = {}
    /\ forced # {}
    /\ FeeSourceMayFail
    /\ Matchable(book, taker) # {}
    /\ reserved' = ReleaseReserved(reserved, taker)
    /\ UNCHANGED published
    /\ UNCHANGED bookVars
    /\ EndHandler

\* The evictions are done: plan again on the live book and commit the order ID.
StartMatch ==
    LET plan == SpotPlan(book, Ledger, nextOrderID + 1, taker)
    IN  /\ phase = "evict"
        /\ doomed = {}
        /\ planned' = plan.execs
        /\ phase' = IF plan.culprit = 0 THEN "match" ELSE "panic"
        /\ nextOrderID' = nextOrderID + 1
        /\ UNCHANGED <<published, taker, doomed, executions, settled, forced>>
        /\ UNCHANGED bookVars
        /\ UNCHANGED ledgerVars

MatchState == [book |-> book, order |-> taker, execs |-> executions, link |-> nextLink]

\* One execution of Matcher.Match on the live book.
MatchStep ==
    /\ phase = "match"
    /\ ~MatchDone(MatchState)
    /\ \E i \in NextMakers(book, taker) :
        LET s == MatchWith(MatchState, i)
        IN  /\ book' = s.book
            /\ taker' = s.order
            /\ executions' = s.execs
            /\ nextLink' = s.link
    /\ UNCHANGED <<phase, nextOrderID, orderIDs, published, doomed, planned, settled, forced>>
    /\ UNCHANGED ledgerVars

\* Match returned: it must have produced the planned executions, and filled an
\* FOK order.
EndMatch ==
    /\ phase = "match"
    /\ MatchDone(MatchState)
    /\ phase' = IF /\ executions = planned
                   /\ taker.tif = "FOK" => Remaining(taker) = 0
                THEN "settle" ELSE "panic"
    /\ UNCHANGED <<nextOrderID, published, taker, doomed, forced>>
    /\ UNCHANGED bookVars
    /\ UNCHANGED ledgerVars
    /\ UNCHANGED planVars

\* spotFillRelease for a known order: down to what the remainder needs.
SpotFillRelease(o) ==
    IF o.type = "Market" THEN 0
    ELSE Greater(0, o.reserved
                      - SpotOrderReservation(o.client, o.side, Remaining(o), o.price))

AfterRelease(o) == [o EXCEPT !.reserved = @ - SpotFillRelease(o)]

\* settleSpotLeg: release in the asset given up, then move the balances.
SettleSpotLeg(led, c, side, release, x, fee) ==
    [bal |-> [led.bal EXCEPT ![c] =
                [a \in Assets |-> led.bal[c][a] + LegFlow(side, x, fee)[a]]],
     res |-> [led.res EXCEPT ![c][ReserveAsset(side)] = Greater(0, @ - release)]]

\* restoreForeignFeeReservation: swap the order's third-asset fee reserve for
\* what its remainder needs.  If that cannot be reserved, the order is cancelled
\* and everything it holds is released (cancelUnfundedFeeRemainder).
RestoreForeignFeeReservation(led, o) ==
    LET c     == o.client
        want  == ForeignFees(c, Remaining(o), o.price)
        freed == [a \in Assets |-> Greater(0, led.res[c][a] - o.feeReserved[a])]
        bare  == [o EXCEPT !.feeReserved = NoFees]
        base  == [led EXCEPT !.res[c] = freed]
    IN  IF o.type = "Market" \/ o.feeReserved = NoFees
        THEN [led |-> led, order |-> o]
        ELSE IF \A a \in Assets : want[a] <= led.bal[c][a] - freed[a]
        THEN [led |-> [led EXCEPT !.res[c] = [a \in Assets |-> freed[a] + want[a]]],
              order |-> [o EXCEPT !.feeReserved = want]]
        ELSE [led |-> [base EXCEPT !.res = ReleaseReserved(base.res, bare)],
              order |-> [bare EXCEPT !.reserved = 0, !.cancelled = TRUE]]

\* handleExecution for the next execution: both legs, the venue's fee revenue,
\* and the fee reserves of the taker and the maker.  A maker that left the book
\* before its execution is settled releases at the execution price.
SettleStep ==
    LET x == executions[settled + 1]
        known == x.maker \in DOMAIN book
        makerSide == OppositeSide(taker.side)
        takerFee == Fee(taker.client, FALSE, x.qty, x.price)
        makerFee == Fee(x.client, TRUE, x.qty, x.price)
        makerRelease == IF known THEN SpotFillRelease(book[x.maker])
                        ELSE IF makerSide = "Buy" THEN Notional(x.qty, x.price) ELSE x.qty
        led1 == SettleSpotLeg(Ledger, taker.client, taker.side,
                              SpotFillRelease(taker), x, takerFee)
        led2 == SettleSpotLeg(led1, x.client, makerSide, makerRelease, x, makerFee)
        t == RestoreForeignFeeReservation(led2, AfterRelease(taker))
        m == RestoreForeignFeeReservation(t.led, AfterRelease(book[x.maker]))
        end == IF known THEN m.led ELSE t.led
        dropped == known /\ m.order.cancelled
    IN  /\ phase = "settle"
        /\ settled < Len(executions)
        /\ settled' = settled + 1
        /\ balance' = end.bal
        /\ reserved' = end.res
        /\ feeRevenue' = [a \in Assets |-> feeRevenue[a] + FeeIn(takerFee, a) + FeeIn(makerFee, a)]
        /\ taker' = t.order
        /\ book' = IF ~known THEN book
                   ELSE IF dropped THEN RemoveOrders(book, {x.maker})
                   ELSE [book EXCEPT ![x.maker] = m.order]
        /\ published' = IF dropped THEN PublishUnlessHidden(published, book', m.order) ELSE published
        /\ orderIDs' = IF dropped THEN [orderIDs EXCEPT ![x.client] = @ \ {x.maker}] ELSE orderIDs
        /\ forced' = forced \cup (IF dropped THEN {x.maker} ELSE {})
                            \cup (IF t.order.cancelled /\ ~taker.cancelled THEN {nextOrderID} ELSE {})
        /\ UNCHANGED <<phase, nextOrderID, nextLink, doomed, planned, executions>>

Executed == {executions[n] : n \in 1..Len(executions)}

\* The taker will be added to the book (restOrReleaseOrder).
WillRest == Remaining(taker) > 0 /\ ~taker.cancelled /\ Rests(taker)

\* A mutant of OwnCrossingQuotes: a quote at the same price is left, locking the book.
OwnCrossingQuotesBeyond(bk) ==
    {id \in DOMAIN bk : /\ bk[id].client = taker.client
                        /\ bk[id].side = OppositeSide(taker.side)
                        /\ Linked(bk[id])
                        /\ ~AsGoodAs(taker.side, bk[id].price, taker.price)}

\* Own quotes on the other side that the resting remainder would cross.
OwnCrossingQuotes(bk) ==
    {id \in DOMAIN bk : /\ bk[id].client = taker.client
                        /\ bk[id].side = OppositeSide(taker.side)
                        /\ Linked(bk[id])
                        /\ AsGoodAs(taker.side, taker.price, bk[id].price)}

\* removeMakerOrders, publishLevels, and the collection of the quotes that
\* cancelOwnCrossingQuotes cancels.
EndSettle ==
    LET filled == {x \in Executed : x.makerFilled >= x.makerQty}
        left == RemoveOrders(book, {x.maker : x \in filled})
        side == OppositeSide(taker.side)
    IN  /\ phase = "settle"
        /\ settled = Len(executions)
        /\ book' = left
        /\ orderIDs' = [c \in Clients |->
                           orderIDs[c] \ {x.maker : x \in {e \in filled : e.client = c}}]
        /\ published' = [published EXCEPT ![side] =
                           [p \in Prices |-> IF \E x \in Executed : x.price = p
                                             THEN VisibleQty(left, side, p)
                                             ELSE published[side][p]]]
        /\ doomed' = IF WillRest THEN OwnCrossingQuotes(left) ELSE {}
        /\ phase' = "rest"
        /\ UNCHANGED <<nextOrderID, nextLink, taker, forced>>
        /\ UNCHANGED ledgerVars
        /\ UNCHANGED planVars

\* restOrReleaseOrder of an order that rests ...
RestOrder ==
    LET added == AddOrder(book, nextOrderID, taker, nextLink)
    IN  /\ phase = "rest"
        /\ doomed = {}
        /\ WillRest
        /\ book' = added
        /\ nextLink' = nextLink + 1
        /\ published' = PublishUnlessHidden(published, added, taker)
        /\ orderIDs' = [orderIDs EXCEPT ![taker.client] = @ \cup {nextOrderID}]
        /\ UNCHANGED reserved
        /\ EndHandler

\* ... and of one that is filled, cancelled, market, IOC or FOK.
ReleaseOrder ==
    /\ phase = "rest"
    /\ doomed = {}
    /\ ~WillRest
    /\ reserved' = ReleaseReserved(reserved, taker)
    /\ UNCHANGED published
    /\ UNCHANGED bookVars
    /\ EndHandler

HandlerStep ==
    \/ ForceCancelOne
    \/ CancelAllDone
    \/ RejectUnpriced
    \/ StartMatch
    \/ MatchStep
    \/ EndMatch
    \/ SettleStep
    \/ EndSettle
    \/ RestOrder
    \/ ReleaseOrder

Next ==
    \/ \E c \in Clients, r \in Requests : PlaceOrder(c, r)
    \/ \E c \in Clients, id \in 1..nextOrderID : CancelOrder(c, id)
    \/ \E c \in Clients : CancelAllClientOrders(c)
    \/ HandlerStep

Spec == Init /\ [][Next]_vars

\* A handler that holds the exchange lock keeps running: weak fairness of its
\* steps.  For StartMatch and SettleStep, whose primed values are too large for
\* TLC inside ENABLED, it is written with their guards.
FairHandler ==
    /\ WF_vars(ForceCancelOne \/ CancelAllDone \/ MatchStep \/ EndMatch
                 \/ EndSettle \/ RestOrder \/ ReleaseOrder)
    /\ []<>~(phase = "evict" /\ doomed = {}) \/ []<><<StartMatch>>_vars
    /\ []<>~(phase = "settle" /\ settled < Len(executions)) \/ []<><<SettleStep>>_vars

FairSpec == Spec /\ FairHandler

-----------------------------------------------------------------------------
(* Properties.                                                             *)

OrderRecord ==
    [client : Clients, side : Sides, type : OrderTypes, tif : TimesInForce,
     price : Prices, qty : Quantities, filled : Nat, vis : Visibilities,
     icebergQty : Nat, display : Nat, prio : Nat, reserved : Nat,
     feeReserved : [Assets -> Nat], cancelled : BOOLEAN]

Execution ==
    [maker : OrderIds, client : Clients, price : Prices, qty : Quantities,
     takerFilled : Nat, makerFilled : Nat, makerQty : Nat]

Placing == phase \in {"evict", "match", "settle", "rest", "panic"}

\* Every variable has its type, no order is filled beyond its quantity, and no
\* account's Reserved is negative.
TypeOK ==
    /\ phase \in Phases
    /\ nextOrderID \in Nat /\ nextLink \in Nat
    /\ DOMAIN book \subseteq OrderIds
    /\ \A id \in DOMAIN book : book[id] \in OrderRecord /\ book[id].filled <= book[id].qty
    /\ orderIDs \in [Clients -> SUBSET OrderIds]
    /\ balance \in [Clients -> [Assets -> Int]]
    /\ reserved \in [Clients -> [Assets -> Nat]]
    /\ feeRevenue \in [Assets -> Int]
    /\ Placing => taker \in OrderRecord /\ taker.filled <= taker.qty
    /\ doomed \subseteq OrderIds /\ forced \subseteq OrderIds
    /\ executions \in Seq(Execution)
    /\ settled \in 0..Len(executions)

\* The resting book is never crossed or locked, at any step of any handler:
\* what Match leaves and cancelOwnCrossingQuotes cancels is enough for the
\* remainder to rest.
Uncrossed ==
    \A i, j \in DOMAIN book :
        (/\ book[i].side = "Buy" /\ Linked(book[i])
         /\ book[j].side = "Sell" /\ Linked(book[j]))
        => ~Crosses(book[i].price, book[j].price)

\* Client.OrderIDs and the book's index name the same orders, through fills,
\* evictions, self-trade cancels and mass cancels.
OrderIDsMatchBook ==
    \A c \in Clients : orderIDs[c] = {id \in DOMAIN book : book[id].client = c}

\* The state is well formed and the three views of who has what in the book
\* agree: types hold, Client.OrderIDs names the orders of the index, and the two
\* sides of the index never cross.
BookCoherent == TypeOK /\ OrderIDsMatchBook /\ Uncrossed

\* A feed that applies the published deltas shows the displayed depth: no
\* handler leaves a level it changed unpublished, hidden quantity never shows, and
\* no level's TotalQty overflows, whatever rests on it (AddOrder).
PublicDepthInSync ==
    \A side \in Sides, p \in Prices :
        /\ phase = "idle" => published[side][p] = VisibleQty(book, side, p)
        /\ TotalQty(book, side, p) <= MaxInt

\* Between handlers, what an account has reserved is exactly what its resting
\* orders hold: no fill, refresh or cancel leaks a reservation or frees another
\* order's.
ReservationsBacked ==
    phase = "idle" =>
        \A c \in Clients, a \in Assets :
            reserved[c][a] = SumFunction([id \in {i \in DOMAIN book : book[i].client = c} |->
                                            Locked(book[id])[a]])

\* Between handlers every balance is representable and covers what is reserved,
\* although a fill's fees and rounding are only known once it happens.
AccountsSolvent ==
    phase = "idle" =>
        \A c \in Clients, a \in Assets :
            reserved[c][a] <= balance[c][a] /\ balance[c][a] <= MaxInt

\* Trading moves value between accounts and to the venue's fee revenue, and
\* creates none: every asset's total is what was deposited.
ValueConserved ==
    \A a \in Assets :
        feeRevenue[a] + SumFunction([c \in Clients |-> balance[c][a]])
            = SumFunction([c \in Clients |-> InitialBalance[c][a]])

\* PlaceOrder's panics are unreachable: the plan survives the evictions it asks
\* for, and the live match is the planned one.
NoPanic == phase # "panic"

\* No maker leaves the book between its match and its settlement, so every
\* execution is settled against the order's own reservation and never through the
\* legacy release at the execution price.
MakersOutliveSettlement ==
    phase = "settle" =>
        \A n \in settled + 1 .. Len(executions) : executions[n].maker \in DOMAIN book


\* Time priority in arrival order: when an order is filled, no fully displayed
\* order of the same side and price that was accepted before it is still waiting,
\* unless it is the taker's own.
ArrivalPriority ==
    [][\A i, j \in DOMAIN book :
          (/\ phase = "match" /\ book'[j].filled > book[j].filled
           /\ i < j /\ book[i].vis = "Normal" /\ book[i].client # taker.client
           /\ book[i].side = book[j].side /\ book[i].price = book[j].price)
          => ~Linked(book[i])]_vars

\* Settling one execution moves value only between its two parties and the
\* venue's fee revenue, and their changes cancel in every asset.
SettlementBalanced ==
    [][settled' = settled + 1 =>
          LET m == executions[settled + 1].client
              t == taker.client
          IN  \A a \in Assets :
                /\ (balance'[t][a] - balance[t][a]) + (balance'[m][a] - balance[m][a])
                     + (feeRevenue'[a] - feeRevenue[a]) = 0
                /\ \A c \in Clients \ {t, m} : balance'[c][a] = balance[c][a]]_vars

\* A client hears of the fills of an order before it hears that the order is
\* terminal (restOrReleaseOrder: "Queue it after any fills").
FillsBeforeForcedCancel ==
    [][settled' = settled + 1 =>
          {nextOrderID, executions[settled + 1].maker} \cap forced' = {}]_vars

\* Every handler releases the exchange lock.
HandlerFinishes == phase # "idle" ~> phase = "idle"
=============================================================================
