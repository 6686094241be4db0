-------------------------- MODULE DerivativeVenue --------------------------
(***************************************************************************)
(* The margined side of the exchange: a perpetual and dated futures traded *)
(* on margin out of one quote wallet per client, with loans, transfers,    *)
(* interest, funding, mark epochs, liquidation, listing and expiry         *)
(* (exchange/exchange.go, expiry.go, liquidation.go, borrowing.go,         *)
(* funding.go and instrument/perp.go).                                     *)
(*                                                                         *)
(* Every handler runs under the exchange lock and is one step, except the  *)
(* ones the code itself splits: a mark pass collects prices, commits them  *)
(* and sweeps symbol by symbol in separate critical sections, a derivative *)
(* refresh and an expiry check likewise, so orders, listings and expiries  *)
(* fall between their steps.  A sweep goes one client per step while it    *)
(* holds the lock; the clock may move meanwhile.                           *)
(*                                                                         *)
(* Fees are charged in quote.  Post-only and iceberg orders and fees in    *)
(* other assets, which both kinds of instrument share, are in SpotVenue.   *)
(* A rejected request changes nothing and is not a step.  Prices, funding  *)
(* rates and the settlement reference come from outside.                   *)
(***************************************************************************)
EXTENDS LimitOrderBook, PositionAccounting

CONSTANTS
    Clients,            \* client IDs
    Perp,               \* the perpetual's symbol
    Futures,            \* symbols of dated futures
    SymbolOrder,        \* all symbols, sorted
    MaintenanceRate,    \* maintenance margin, basis points
    TakerBps, MakerBps, \* fee plan
    LiquidationFeeBps, DeliveryFeeBps,
    CollateralPercent,  \* share of equity that may be borrowed
    AutoBorrow,         \* AutoBorrowPerp and AutoBorrowSpot
    CollateralRate, InterestDenominator,
    FundingInterval,
    Tenor,              \* life of a dated future
    ObservationWindow,  \* settlement TWAP lookback
    InitialPerp, InitialSpot,
    NotListed, Never, NoSnapshot, NoSymbol,     \* model values
    Scenarios           \* what the environment may do, and the bounds

Symbols == {Perp} \cup Futures
Legs == {"Both", "Long", "Short"}
LegOrder == <<"Both", "Long", "Short">>

\* A scenario bounds the environment: the requests that may get each order ID,
\* the marks and references the sources return, the funding rates (none: the
\* funding loop is off), the clients that borrow and move money, the amounts
\* moved between wallets, lent and repaid, the quote a spot order reserves, and
\* how many mark epochs, samples of a reference, listings and clock ticks there
\* are.
ASSUME DerivativeVenueAssumption ==
    /\ Clients \subseteq Nat \ {0}
    /\ Perp \notin Futures
    /\ {MaintenanceRate, LiquidationFeeBps, DeliveryFeeBps, CollateralRate} \subseteq Nat
    /\ {TakerBps, MakerBps} \subseteq Int
    /\ {FundingInterval, Tenor, InterestDenominator} \subseteq Nat \ {0}
    /\ {ObservationWindow, InitialPerp, InitialSpot} \subseteq Nat
    /\ AutoBorrow \in BOOLEAN
    /\ CollateralPercent \in 0..100
    /\ \A v \in Scenarios :
         /\ \A n \in DOMAIN v.requests : \A r \in v.requests[n] :
              /\ r.client \in Clients /\ r.sym \in Symbols /\ r.leg \in Legs
              /\ r.side \in Sides /\ r.type \in {"Limit", "Market"}
              /\ r.tif \in {"GTC", "IOC", "FOK"}
              /\ r.price \in Nat /\ r.qty \in Nat \ {0}
         /\ v.marks \cup v.references \subseteq Nat \ {0}
         /\ v.rates \subseteq Int
         /\ v.borrowers \subseteq Clients
         /\ v.transfers \cup v.loans \cup v.spotOrders \subseteq Nat \ {0}
         /\ {v.maxEpoch, v.maxSamples, v.maxListings, v.maxTime} \subseteq Nat

VARIABLES
    env,            \* the scenario, fixed
    now,            \* the exchange clock
    nextOrderID,
    books,          \* symbol -> orders in the book's indexes
    position,       \* client -> symbol -> leg -> account
    wallet,         \* client -> quote balances, reservations and debt
    venue,          \* fee revenue, insurance fund, logged position rounding
    listing,        \* symbol -> the listed contract
    listed,         \* contracts listed so far
    pending,        \* symbols whose settlement waits for a price
    obs,            \* symbol -> settlement observations in the window
    mark,           \* symbol -> the contract's mark, if available
    epoch,          \* markEpoch
    snapshot,       \* symbol -> riskMarkSnapshots and markEpochBySymbol
    funding,        \* the perpetual's rate and next funding time
    charged,        \* the last time interest was charged
    pass,           \* the holder of markPassMu
    expiring        \* the expired symbols CheckExpiries has still to settle

vars == <<env, now, nextOrderID, books, position, wallet, venue, listing, listed,
          pending, obs, mark, epoch, snapshot, funding, charged, pass, expiring>>

tradeVars == <<nextOrderID, books, position, wallet, venue>>
lifeVars  == <<listing, listed, pending, obs>>
markVars  == <<mark, epoch, snapshot>>
loopVars  == <<pass, expiring>>

\* No pass holds markPassMu.
NoPass == [pc |-> "idle", at |-> 0, cand |-> <<>>, epoch |-> 0, todo |-> <<>>,
           sym |-> NoSymbol, last |-> 0]

Init ==
    /\ env \in Scenarios
    /\ now = 1
    /\ nextOrderID = 0
    /\ books = [s \in Symbols |-> <<>>]
    /\ position = [c \in Clients |-> [s \in Symbols |-> [g \in Legs |-> Flat]]]
    /\ wallet = [c \in Clients |->
                   [perp |-> InitialPerp, perpRes |-> 0, spot |-> InitialSpot,
                    spotRes |-> 0, debt |-> 0, debtSpot |-> 0]]
    /\ venue = [fees |-> 0, insurance |-> 0, drained |-> 0]
    /\ listing = [s \in Symbols |-> IF s = Perp THEN [no |-> 0, expiry |-> Never]
                                    ELSE NotListed]
    /\ listed = 0
    /\ pending = {}
    /\ obs = [s \in Symbols |-> <<>>]
    /\ mark = [s \in Symbols |-> NoPrice]
    /\ epoch = 0
    /\ snapshot = [s \in Symbols |-> NoSnapshot]
    /\ funding = [rate |-> 0, next |-> 0]
    /\ charged = 0
    /\ pass = NoPass
    /\ expiring = <<>>

\* The exchange lock is free: only a liquidation sweep keeps it over steps.
Unlocked == pass.sym = NoSymbol

IsListed(s) == listing[s] # NotListed
ExpiredAt(s, t) == IsListed(s) /\ listing[s].expiry # Never /\ t >= listing[s].expiry

HoldsPosition(c, s) == \E g \in Legs : position[c][s][g].size # 0

\* clientHasSettlementPendingExposureLocked
PendingExposure(c) == \E s \in pending : HoldsPosition(c, s)

-----------------------------------------------------------------------------
(* Wallets.                                                                *)

PerpAvailable(w) == w.perp - w.perpRes
GetAvailable(w) == w.spot - w.spotRes
BorrowedPerpPortion(w) == Greater(0, w.debt - w.debtSpot)
BorrowedSpotPortion(w) == Lesser(w.debtSpot, w.debt)

ReservePerp(w, amount) == [w EXCEPT !.perpRes = @ + amount]
ReleasePerp(w, amount) == [w EXCEPT !.perpRes = Greater(0, @ - amount)]

\* validateCrossMarginCollateral, with quote priced at one.
Borrowable(w, amount) ==
    /\ amount > 0
    /\ w.perp + w.spot - w.debt > 0
    /\ w.debt + amount <= Quo((w.perp + w.spot - w.debt) * CollateralPercent, 100)

\* BorrowingManager.BorrowMargin into one of the wallets.
BorrowPerp(w, amount) == [w EXCEPT !.perp = @ + amount, !.debt = @ + amount]
BorrowSpot(w, amount) ==
    [w EXCEPT !.spot = @ + amount, !.debt = @ + amount, !.debtSpot = @ + amount]

-----------------------------------------------------------------------------
(* Settling one execution (instrument/perp.go Settle).                     *)

\* PercentageFee in quote; a negative rate is a rebate.
Fee(isMaker, qty, price) ==
    Quo(Notional(qty, price) * (IF isMaker THEN MakerBps ELSE TakerBps), 10000)

\* quoteFeeHeadroom
FeeHeadroom(qty, price) ==
    IF qty = 0 THEN 0 ELSE Greater(0, Greater(Fee(FALSE, qty, price), Fee(TRUE, qty, price)))

\* releaseOrderMargin: what the order's reservation exceeds its remainder by.
OrderRelease(o) ==
    IF o.type = "Market" THEN 0
    ELSE Greater(0, o.reserved - MarginRequired(Remaining(o), o.price))

\* restoreFeeHeadroom
RestoredHeadroom(o) ==
    IF o.type = "Market" THEN 0 ELSE FeeHeadroom(Remaining(o), o.price)

\* A mutant of PartyWallet: margin of the closed share is released at the fill
\* price instead of from the position's margin ledger.
PartyWalletAtFillPrice(w, a, o, x, fee) ==
    LET delta  == SizeDelta(o.side, x.qty)
        closed == ClosedQty(a.size, delta)
        opened == OpenedQty(a.size, a.size + delta, closed)
        freed  == ReleasePerp(ReleasePerp(w, OrderRelease(o)), MarginRequired(closed, x.price))
    IN  [freed EXCEPT !.perpRes = @ + MarginRequired(opened, x.price) + RestoredHeadroom(o),
                      !.perp = @ + CashPaid(a, delta, x.price) - fee]

\* One party's wallet after an execution: order margin and the closed share's
\* margin released, margin for the opened quantity and the headroom reserved
\* unconditionally, profit and fee booked.
PartyWallet(w, a, o, x, fee) ==
    LET delta  == SizeDelta(o.side, x.qty)
        closed == ClosedQty(a.size, delta)
        opened == OpenedQty(a.size, a.size + delta, closed)
        freed  == ReleasePerp(ReleasePerp(w, OrderRelease(o)),
                              ReleasedMargin(a.margin, closed, a.size))
    IN  [freed EXCEPT !.perpRes = @ + MarginRequired(opened, x.price) + RestoredHeadroom(o),
                      !.perp = @ + CashPaid(a, delta, x.price) - fee]

PartyAccount(a, o, x) ==
    LET delta == SizeDelta(o.side, x.qty)
    IN  [AfterTrade(a, delta, x.price) EXCEPT !.margin = PositionMargin(a, delta, x.price)]

PartyOrder(o) == [o EXCEPT !.reserved = @ - OrderRelease(o) + RestoredHeadroom(o)]

\* Execution x of order t.taker on symbol s.  Taker and maker are different
\* clients, so the order of their updates does not matter.
SettleExecution(t, s, x) ==
    LET taker == t.taker
        maker == t.book[x.maker]
        takerFee == Fee(FALSE, x.qty, x.price)
        makerFee == Fee(TRUE, x.qty, x.price)
        tc == taker.client
        mc == maker.client
    IN  [t EXCEPT
          !.taker = PartyOrder(taker),
          !.book[x.maker] = PartyOrder(maker),
          !.wallet[tc] = PartyWallet(t.wallet[tc], t.position[tc][s][taker.leg], taker, x, takerFee),
          !.wallet[mc] = PartyWallet(t.wallet[mc], t.position[mc][s][maker.leg], maker, x, makerFee),
          !.position[tc][s][taker.leg] = PartyAccount(@, taker, x),
          !.position[mc][s][maker.leg] = PartyAccount(@, maker, x),
          !.venue.fees = @ + takerFee + makerFee]

\* A ledger is the part of the state a trade moves.
Ledger == [id |-> nextOrderID, books |-> books, position |-> position,
           wallet |-> wallet, venue |-> venue]

\* Match an order on s, settle its executions one by one and take the filled
\* makers out of the index.
Trade(l, s, order) ==
    LET m == Match(l.books[s], order, l.id)
        t[n \in 0..Len(m.execs)] ==
          IF n = 0
          THEN [taker |-> m.order, book |-> m.book, position |-> l.position,
                wallet |-> l.wallet, venue |-> l.venue]
          ELSE SettleExecution(t[n - 1], s, m.execs[n])
        done == t[Len(m.execs)]
        gone == {i \in DOMAIN done.book : ~Linked(done.book[i])}
    IN  [order  |-> done.taker,
         execs  |-> m.execs,
         ledger |-> [l EXCEPT !.books[s] = RemoveOrders(done.book, gone),
                              !.position = done.position,
                              !.wallet = done.wallet,
                              !.venue = done.venue]]

\* releaseReserved and Book.CancelOrder for orders of one client.
CancelOrders(l, s, c, ids) ==
    [l EXCEPT !.wallet[c] = ReleasePerp(@, MapThenSumSet(LAMBDA i : l.books[s][i].reserved, ids)),
              !.books[s] = RemoveOrders(@, ids)]

OrdersOf(bk, c) == {i \in DOMAIN bk : bk[i].client = c}

Install(l) ==
    /\ nextOrderID' = l.id
    /\ books' = l.books
    /\ position' = l.position
    /\ wallet' = l.wallet
    /\ venue' = l.venue

-----------------------------------------------------------------------------
(* Orders.                                                                 *)

Reduces(leg, side) == \/ leg = "Long" /\ side = "Sell"
                      \/ leg = "Short" /\ side = "Buy"

RestingOnLeg(bk, c, leg, side) ==
    MapThenSumSet(LAMBDA i : Remaining(bk[i]),
        {i \in DOMAIN bk : bk[i].client = c /\ bk[i].leg = leg /\ bk[i].side = side})

\* A mutant of HedgeReduceViolation: resting reduces are not counted.
HedgeReduceViolationAlone(r) ==
    /\ Reduces(r.leg, r.side)
    /\ r.qty > Abs(position[r.client][r.sym][r.leg].size)

\* hedgeReduceViolation: with what already rests, more than the leg holds.
HedgeReduceViolation(r) ==
    /\ Reduces(r.leg, r.side)
    /\ r.qty + RestingOnLeg(books[r.sym], r.client, r.leg, r.side)
         > Abs(position[r.client][r.sym][r.leg].size)

\* validatePlaceOrder
Admissible(r) ==
    /\ IsListed(r.sym)
    /\ ~ExpiredAt(r.sym, now)
    /\ ~PendingExposure(r.client)
    /\ ~HedgeReduceViolation(r)

NewOrder(r) ==
    [client |-> r.client, leg |-> r.leg, side |-> r.side, type |-> r.type,
     price |-> r.price, qty |-> r.qty, filled |-> 0, vis |-> "Normal",
     icebergQty |-> 0, display |-> 0, prio |-> 0, reserved |-> 0]

\* A limit order reserves margin and fee headroom; a market order must cover
\* the margin and the positive fees of the executions it would get.
Requirement(r, execs) ==
    IF r.type = "Limit"
    THEN MarginRequired(r.qty, r.price) + FeeHeadroom(r.qty, r.price)
    ELSE MapThenSumSet(LAMBDA n : MarginRequired(execs[n].qty, execs[n].price)
                                    + Greater(0, Fee(FALSE, execs[n].qty, execs[n].price)),
                       DOMAIN execs)

\* tryReserveOrBorrow and fundMarketRequirement: enough is available, or the
\* shortfall may be borrowed.
Fundable(w, required) ==
    \/ PerpAvailable(w) >= required
    \/ AutoBorrow /\ Borrowable(w, required - PerpAvailable(w))

Funded(w, required) ==
    IF PerpAvailable(w) >= required THEN w
    ELSE BorrowPerp(w, required - PerpAvailable(w))

\* cancelOwnCrossingQuotes: what is left to cross the remainder is the client's.
OwnCrossing(bk, o) ==
    {i \in OrdersOf(bk, o.client) :
        /\ bk[i].side = OppositeSide(o.side)
        /\ IF o.side = "Buy" THEN Crosses(o.price, bk[i].price)
                             ELSE Crosses(bk[i].price, o.price)}

\* restOrReleaseOrder
RestOrRelease(l, s, r, o) ==
    IF Remaining(o) > 0 /\ r.type = "Limit" /\ r.tif = "GTC"
    THEN LET cleared == CancelOrders(l, s, o.client, OwnCrossing(l.books[s], o))
         IN  [cleared EXCEPT !.books[s] = AddOrder(@, l.id, o, l.id)]
    ELSE [l EXCEPT !.wallet[o.client] = ReleasePerp(@, o.reserved)]

PlaceOrder(r) ==
    LET c == r.client
        order == NewOrder(r)
        preview == Match(books[r.sym], order, nextOrderID)
        required == Requirement(r, preview.execs)
        held == IF r.type = "Limit" THEN required ELSE 0
        funded == [Ledger EXCEPT !.id = @ + 1,
                                 !.wallet[c] = ReservePerp(Funded(@, required), held)]
        t == Trade(funded, r.sym, [order EXCEPT !.reserved = held])
    IN  /\ Unlocked
        /\ Admissible(r)
        /\ r.tif = "FOK" => Remaining(preview.order) = 0
        /\ Fundable(wallet[c], required)
        /\ Install(RestOrRelease(t.ledger, r.sym, r, t.order))
        /\ UNCHANGED <<env, now, lifeVars, markVars, funding, charged, loopVars>>

CancelOrder(s, i) ==
    /\ Unlocked
    /\ i \in DOMAIN books[s]
    /\ Install(CancelOrders(Ledger, s, books[s][i].client, {i}))
    /\ UNCHANGED <<env, now, lifeVars, markVars, funding, charged, loopVars>>

-----------------------------------------------------------------------------
(* Wallet movements.                                                       *)

Transfer(c, from, amount) ==
    /\ Unlocked
    /\ \/ /\ from = "spot"
          /\ GetAvailable(wallet[c]) >= amount
          /\ wallet' = [wallet EXCEPT ![c].spot = @ - amount, ![c].perp = @ + amount]
       \/ /\ from = "perp"
          /\ PerpAvailable(wallet[c]) >= amount
          /\ wallet' = [wallet EXCEPT ![c].perp = @ - amount, ![c].spot = @ + amount]
    /\ UNCHANGED <<env, now, nextOrderID, books, position, venue, lifeVars, markVars,
                   funding, charged, loopVars>>

BorrowMargin(c, amount) ==
    /\ Unlocked
    /\ ~PendingExposure(c)
    /\ Borrowable(wallet[c], amount)
    /\ wallet' = [wallet EXCEPT ![c] = BorrowPerp(@, amount)]
    /\ UNCHANGED <<env, now, nextOrderID, books, position, venue, lifeVars, markVars,
                   funding, charged, loopVars>>

\* RepayMargin: perp wallet first; spot cash retires spot-attributed debt.
Repaid(w, amount) ==
    LET due == Lesser(amount, w.debt)
        fromPerp == Lesser(due, Greater(0, PerpAvailable(w)))
    IN  [w EXCEPT !.perp = @ - fromPerp, !.spot = @ - (due - fromPerp), !.debt = @ - due,
                  !.debtSpot = Lesser(Greater(0, @ - (due - fromPerp)), w.debt - due)]

RepayMargin(c, amount) ==
    LET w == wallet[c]
        due == Lesser(amount, w.debt)
    IN  /\ Unlocked
        /\ w.debt > 0
        /\ due - Lesser(due, Greater(0, PerpAvailable(w))) <= GetAvailable(w)
        /\ wallet' = [wallet EXCEPT ![c] = Repaid(@, amount)]
        /\ UNCHANGED <<env, now, nextOrderID, books, position, venue, lifeVars, markVars,
                       funding, charged, loopVars>>

\* A spot order, by the quote it reserves (borrowing the shortfall into the
\* spot wallet), and its cancellation; a client has at most one.
PlaceSpotOrder(c, amount) ==
    LET w == wallet[c]
        short == amount - GetAvailable(w)
    IN  /\ Unlocked
        /\ w.spotRes = 0
        /\ ~PendingExposure(c)
        /\ short > 0 => AutoBorrow /\ Borrowable(w, short)
        /\ wallet' = [wallet EXCEPT ![c] =
                        [IF short > 0 THEN BorrowSpot(w, short) ELSE w EXCEPT !.spotRes = amount]]
        /\ UNCHANGED <<env, now, nextOrderID, books, position, venue, lifeVars, markVars,
                       funding, charged, loopVars>>

CancelSpotOrder(c) ==
    /\ Unlocked
    /\ wallet[c].spotRes > 0
    /\ wallet' = [wallet EXCEPT ![c].spotRes = 0]
    /\ UNCHANGED <<env, now, nextOrderID, books, position, venue, lifeVars, markVars,
                   funding, charged, loopVars>>

Interest(w) == (w.debt * CollateralRate) \div InterestDenominator
SpotShare(w) ==
    IF w.debt = 0 THEN 0 ELSE (Interest(w) * BorrowedSpotPortion(w)) \div w.debt

\* Each wallet pays the interest on the debt credited to it.
InterestCharged(w) ==
    [w EXCEPT !.spot = @ - SpotShare(w), !.perp = @ - (Interest(w) - SpotShare(w))]

\* One charge per clock reading (bound).
ChargeCollateralInterest ==
    /\ Unlocked
    /\ charged < now
    /\ \E c \in Clients : wallet[c].debt > 0
    /\ charged' = now
    /\ wallet' = [c \in Clients |-> InterestCharged(wallet[c])]
    /\ venue' = [venue EXCEPT !.fees = @ + MapThenSumSet(LAMBDA c : Interest(wallet[c]), Clients)]
    /\ UNCHANGED <<env, now, nextOrderID, books, position, lifeVars, markVars, funding, loopVars>>

\* What one leg pays: longs pay a positive rate, shorts receive it.
FundingDue(a) ==
    LET due == Quo(Notional(a.size, mark[Perp]) * funding.rate, 10000)
    IN  IF a.size > 0 THEN due ELSE -due

ClientFunding(c) == MapThenSumSet(LAMBDA g : FundingDue(position[c][Perp][g]), Legs)

\* netExchangeFlow
FundingResidual == MapThenSumSet(ClientFunding, Clients)

\* CheckAndSettleFunding for the perpetual: anchor the schedule on the first
\* tick, then settle when due and a mark is available.
CheckAndSettleFunding ==
    /\ Unlocked
    /\ env.rates # {}
    /\ \/ /\ funding.next = 0
          /\ UNCHANGED <<wallet, venue>>
       \/ /\ funding.next > 0
          /\ now >= funding.next
          /\ mark[Perp] # NoPrice
          /\ wallet' = [c \in Clients |-> [wallet[c] EXCEPT !.perp = @ - ClientFunding(c)]]
          /\ venue' = [venue EXCEPT !.fees = @ + FundingResidual]
    /\ funding' = [funding EXCEPT !.next = now + FundingInterval]
    /\ UNCHANGED <<env, now, nextOrderID, books, position, lifeVars, markVars, charged, loopVars>>

-----------------------------------------------------------------------------
(* Marks and mark epochs.                                                  *)

\* captureRiskMarkSnapshotLocked succeeds.
Capturable(s, mk, t) ==
    IsListed(s) /\ s \notin pending /\ ~ExpiredAt(s, t) /\ mk[s] # NoPrice

Captured(s, mk, t) ==
    [epoch |-> epoch + 1, no |-> listing[s].no, mark |-> mk[s], at |-> t]

\* commitAvailableRiskMarkEpochLocked: a missing mark leaves the epoch.
CommitAvailable(mk, t) ==
    LET ready == {s \in Symbols : Capturable(s, mk, t)}
    IN  /\ snapshot' = [s \in Symbols |-> IF s \in ready THEN Captured(s, mk, t)
                                          ELSE NoSnapshot]
        /\ epoch' = IF ready = {} THEN epoch ELSE epoch + 1

\* CommitMarkEpoch: all of the named symbols or none; the others keep theirs.
CommitMarkEpoch(named) ==
    /\ pass.pc = "idle"
    /\ epoch < env.maxEpoch
    /\ named # {}
    /\ \A s \in named : Capturable(s, mark, now)
    /\ snapshot' = [s \in Symbols |-> IF s \in named THEN Captured(s, mark, now) ELSE snapshot[s]]
    /\ epoch' = epoch + 1
    /\ UNCHANGED <<env, now, tradeVars, lifeVars, mark, funding, charged, loopVars>>

\* updateAllPerpPrices, collecting: the book a price was read for, and the price
\* (NoPrice: the source is unavailable, or its value outside the formula's domain).
CollectMarks ==
    /\ pass.pc = "idle"
    /\ epoch < env.maxEpoch
    /\ \E price \in [{s \in Symbols : IsListed(s) /\ s \notin pending}
                        -> env.marks \cup {NoPrice}] :
         pass' = [NoPass EXCEPT !.pc = "collected", !.at = now,
                    !.cand = [s \in DOMAIN price |-> [no |-> listing[s].no, price |-> price[s]]]]
    /\ UNCHANGED <<env, now, tradeVars, lifeVars, markVars, funding, charged, expiring>>

\* The candidate's book is still the live one and has not gone pending.
StillLive(s) ==
    IsListed(s) /\ listing[s].no = pass.cand[s].no /\ s \notin pending

Ready == {s \in DOMAIN pass.cand : pass.cand[s].price # NoPrice /\ StillLive(s)}

\* All marks and all clears in one critical section, then the epoch.
CommitMarks ==
    LET mk == [s \in Symbols |->
                 IF s \in Ready THEN pass.cand[s].price
                 ELSE IF /\ s \in DOMAIN pass.cand
                         /\ pass.cand[s].price = NoPrice
                         /\ IsListed(s) /\ listing[s].no = pass.cand[s].no
                 THEN NoPrice
                 ELSE mark[s]]
    IN  /\ pass.pc = "collected"
        /\ mark' = mk
        /\ CommitAvailable(mk, pass.at)
        /\ funding' \in IF Perp \in Ready /\ env.rates # {}
                        THEN {[funding EXCEPT !.rate = r] : r \in env.rates}
                        ELSE {funding}
        /\ pass' = [pass EXCEPT !.pc = "sweeping", !.epoch = epoch',
                                !.todo = SelectSeq(SymbolOrder, LAMBDA s : s \in Ready)]
        /\ UNCHANGED <<env, now, tradeVars, lifeVars, charged, expiring>>

-----------------------------------------------------------------------------
(* Liquidation.                                                            *)


\* committedRiskSnapshotLocked
CommittedSnapshot(s, e) ==
    /\ snapshot[s] # NoSnapshot
    /\ snapshot[s].epoch = e
    /\ snapshot[s].no = listing[s].no
    /\ s \notin pending
    /\ ~ExpiredAt(s, now)
    /\ mark[s] = snapshot[s].mark

Exposed(c) == {s \in Symbols : IsListed(s) /\ HoldsPosition(c, s)}

\* buildAccountMarginProfileAtEpoch succeeds: every exposed book has a mark of
\* that epoch, and all of them one timestamp.
Profiled(c, e) ==
    /\ \A s \in Exposed(c) : CommittedSnapshot(s, e)
    /\ \A s1, s2 \in Exposed(c) : snapshot[s1].at = snapshot[s2].at

ExposedLegs(c) == Exposed(c) \X Legs

RiskEquity(c) ==
    wallet[c].perp - BorrowedPerpPortion(wallet[c])
        + SumFunction([x \in ExposedLegs(c) |->
                         UnrealizedPnL(position[c][x[1]][x[2]], snapshot[x[1]].mark)])

Maintenance(c) ==
    SumFunction([x \in ExposedLegs(c) |->
        (Notional(position[c][x[1]][x[2]].size, snapshot[x[1]].mark) * MaintenanceRate) \div 10000])

\* forceClose: the client's orders on the book go first, then a market order.
ForceClose(l, c, s, leg) ==
    LET size == l.position[c][s][leg].size
        order == NewOrder([client |-> c, leg |-> leg, type |-> "Market", price |-> 0,
                           side |-> IF size > 0 THEN "Sell" ELSE "Buy", qty |-> Abs(size)])
        bare == CancelOrders([l EXCEPT !.id = @ + 1], s, c, OrdersOf(l.books[s], c))
    IN  Trade(bare, s, order)

\* chargeClearanceFee on the quantity that closed, clamped to what is available.
ClearanceFee(w, qty, price) ==
    Greater(0, Lesser(PerpAvailable(w), (Notional(qty, price) * LiquidationFeeBps) \div 10000))

\* The rest of liquidate after a close that filled something: the clearance
\* fee, repayment out of what is available, and a negative balance made good
\* by the insurance fund.
AfterClose(l, c, qty, price) ==
    LET fee  == ClearanceFee(l.wallet[c], qty, price)
        w1   == [l.wallet[c] EXCEPT !.perp = @ - fee]
        paid == Lesser(w1.debt, Greater(0, PerpAvailable(w1)))
        w2   == [w1 EXCEPT !.perp = @ - paid, !.debt = @ - paid,
                           !.debtSpot = Lesser(@, w1.debt - paid)]
    IN  [l EXCEPT !.wallet[c] = [w2 EXCEPT !.perp = Greater(0, @)],
                  !.venue.insurance = @ + fee + Lesser(0, w2.perp)]

\* liquidate one leg.
Liquidate(l, c, s, leg) ==
    LET t == ForceClose(l, c, s, leg)
    IN  IF t.execs = <<>> THEN t.ledger
        ELSE AfterClose(t.ledger, c, t.order.filled, t.execs[Len(t.execs)].price)

\* The legs open when the account was found short, one after another.
LiquidateLegs(l, c, s) ==
    LET legs == SelectSeq(LegOrder, LAMBDA g : position[c][s][g].size # 0)
        step[n \in 0..Len(legs)] ==
          IF n = 0 THEN l ELSE Liquidate(step[n - 1], c, s, legs[n])
    IN  step[Len(legs)]

NextSymbol == [pass EXCEPT !.sym = NoSymbol, !.last = 0, !.todo = Tail(@)]

\* checkLiquidationsAtEpoch takes the lock for the next symbol, or finds the
\* symbol delisted, expired or pending.  The epoch is 0 only when every marked
\* symbol had expired, and then nothing is swept.
BeginSweep ==
    LET s == Head(pass.todo)
    IN  /\ pass.pc = "sweeping"
        /\ pass.sym = NoSymbol
        /\ pass.todo # <<>>
        /\ pass' = IF IsListed(s) /\ ~ExpiredAt(s, now) /\ s \notin pending
                   THEN [pass EXCEPT !.sym = s] ELSE NextSymbol
        /\ UNCHANGED <<env, now, tradeVars, lifeVars, markVars, funding, charged, expiring>>

Unswept(s) == {c \in Clients : c > pass.last /\ HoldsPosition(c, s)}

\* The trigger mark is committed, and the account is below maintenance.
InBreach(c, s) ==
    /\ CommittedSnapshot(s, pass.epoch)
    /\ snapshot[s].mark = pass.cand[s].price
    /\ Profiled(c, pass.epoch)
    /\ RiskEquity(c) < Maintenance(c)

\* The next client, in ID order, with a position on the swept symbol.
SweepClient ==
    /\ pass.sym # NoSymbol
    /\ Unswept(pass.sym) # {}
    /\ LET c == Min(Unswept(pass.sym))
       IN  /\ pass' = [pass EXCEPT !.last = c]
           /\ IF InBreach(c, pass.sym) THEN Install(LiquidateLegs(Ledger, c, pass.sym))
              ELSE UNCHANGED tradeVars
    /\ UNCHANGED <<env, now, lifeVars, markVars, funding, charged, expiring>>

EndSweep ==
    /\ pass.sym # NoSymbol
    /\ Unswept(pass.sym) = {}
    /\ pass' = NextSymbol
    /\ UNCHANGED <<env, now, tradeVars, lifeVars, markVars, funding, charged, expiring>>

EndPass ==
    /\ pass.pc = "sweeping"
    /\ pass.sym = NoSymbol
    /\ pass.todo = <<>>
    /\ pass' = NoPass
    /\ UNCHANGED <<env, now, tradeVars, lifeVars, markVars, funding, charged, expiring>>

-----------------------------------------------------------------------------
(* Settlement references, expiry and listing.                              *)

ListedFutures == SelectSeq(SymbolOrder, LAMBDA s : s \in Futures /\ IsListed(s))

\* UpdateDerivativeMarks collects the listed futures; price is what each one's
\* reference will return.
StartRefresh(price) ==
    /\ pass.pc = "idle"
    /\ pass' = [NoPass EXCEPT !.pc = "observing", !.at = now, !.todo = ListedFutures,
                  !.cand = [s \in DOMAIN price |-> [no |-> listing[s].no, price |-> price[s]]]]
    /\ UNCHANGED <<env, now, tradeVars, lifeVars, markVars, funding, charged, expiring>>

ListedPrices(prices) == [{s \in Futures : IsListed(s)} -> prices]

UpdateDerivativeMarks ==
    /\ epoch < env.maxEpoch
    /\ \A s \in Futures : Len(obs[s]) < env.maxSamples
    /\ \E price \in ListedPrices(env.references \cup {NoPrice}) : StartRefresh(price)

\* A refresh that finds every reference, for a contract that has none yet.
\* Only its own end bounds it, so that a bound never keeps a contract pending.
RefreshWithReferences ==
    /\ \E s \in Futures : IsListed(s) /\ obs[s] = <<>>
    /\ \E price \in ListedPrices(env.references) : StartRefresh(price)

\* settlementObserver.observe: the sample itself is always inside the window.
Observed(samples, price, t) ==
    SelectSeq(Append(samples, [price |-> price, at |-> t]),
              LAMBDA o : o.at >= t - ObservationWindow)

\* One contract, revalidated under the lock.
ObserveSettlement ==
    LET s == Head(pass.todo)
        live == IsListed(s) /\ listing[s].no = pass.cand[s].no
        price == pass.cand[s].price
    IN  /\ pass.pc = "observing"
        /\ pass.todo # <<>>
        /\ pass' = [pass EXCEPT !.todo = Tail(@)]
        /\ obs' = IF live /\ price # NoPrice
                  THEN [obs EXCEPT ![s] = Observed(@, price, pass.at)] ELSE obs
        /\ snapshot' = IF live /\ (price = NoPrice \/ s \in pending)
                       THEN [snapshot EXCEPT ![s] = NoSnapshot] ELSE snapshot
        /\ UNCHANGED <<env, now, tradeVars, listing, listed, pending, mark, epoch,
                       funding, charged, expiring>>

EndRefresh ==
    /\ pass.pc = "observing"
    /\ pass.todo = <<>>
    /\ CommitAvailable(mark, pass.at)
    /\ pass' = NoPass
    /\ UNCHANGED <<env, now, tradeVars, lifeVars, mark, funding, charged, expiring>>

\* A mutant of CheckExpiries: a pending contract is not tried again.
CheckExpiriesOnce ==
    /\ Unlocked
    /\ expiring = <<>>
    /\ expiring' = SelectSeq(SymbolOrder, LAMBDA s : ExpiredAt(s, now) /\ s \notin pending)
    /\ expiring' # <<>>
    /\ UNCHANGED <<env, now, tradeVars, lifeVars, markVars, funding, charged, pass>>

\* CheckExpiries collects, then settles one symbol after another.  One caller
\* at a time (the expiry loop), so a collected symbol is listed until settled.
CheckExpiries ==
    /\ Unlocked
    /\ expiring = <<>>
    /\ expiring' = SelectSeq(SymbolOrder, LAMBDA s : ExpiredAt(s, now))
    /\ expiring' # <<>>
    /\ UNCHANGED <<env, now, tradeVars, lifeVars, markVars, funding, charged, pass>>

\* SettlementPrice: the mean of the samples in the window.
SettlementPrice(s) ==
    Quo(MapThenSumSet(LAMBDA n : obs[s][n].price, DOMAIN obs[s]), Len(obs[s]))

DeliveryFee(size, price) == Quo(Notional(size, price) * DeliveryFeeBps, 10000)

\* Every client's orders on s cancelled.
Halted(s) ==
    LET bk == books[s]
    IN  [Ledger EXCEPT
          !.books[s] = <<>>,
          !.wallet = [c \in Clients |->
             ReleasePerp(wallet[c], MapThenSumSet(LAMBDA i : bk[i].reserved, OrdersOf(bk, c)))]]

\* A leg closed at the settlement price, its margin released.
Delivered(a, price) ==
    IF a.size = 0 THEN a ELSE [AfterTrade(a, -a.size, price) EXCEPT !.margin = 0]

\* The carry a client's flat legs leave, in whole units.
Carried(c, s, price) ==
    MapThenSumSet(LAMBDA g : Delivered(position[c][s][g], price).carry, Legs)
CarryCash(c, s, price) == Quo(Carried(c, s, price), Precision)

\* Cash settlement of every leg, delivery fees, and the carry paid out of fee
\* revenue in whole units; the rest is logged as rounding.
Settled(l, s, price) ==
    LET acct(c, g) == position[c][s][g]
        cash(c) == MapThenSumSet(LAMBDA g : IF acct(c, g).size = 0 THEN 0
                                            ELSE UnrealizedPnL(acct(c, g), price), Legs)
        fee(c)  == MapThenSumSet(LAMBDA g : DeliveryFee(acct(c, g).size, price), Legs)
        margin(c) == MapThenSumSet(LAMBDA g : acct(c, g).margin, Legs)
        whole(c) == CarryCash(c, s, price)
    IN  [l EXCEPT
          !.wallet = [c \in Clients |->
             [ReleasePerp(l.wallet[c], margin(c)) EXCEPT !.perp = @ + cash(c) - fee(c) + whole(c)]],
          !.position = [c \in Clients |-> [position[c] EXCEPT ![s] =
                          [g \in Legs |-> [Delivered(@[g], price) EXCEPT !.carry = 0]]]],
          !.venue.fees = @ + MapThenSumSet(LAMBDA c : fee(c) - whole(c), Clients),
          !.venue.drained = @ + MapThenSumSet(LAMBDA c : Carried(c, s, price), Clients)]

\* No settlement price: halt the book once and keep the positions.
Defer(s) ==
    /\ pending' = pending \cup {s}
    /\ Install(IF s \in pending THEN Ledger ELSE Halted(s))
    /\ mark' = [mark EXCEPT ![s] = NoPrice]
    /\ snapshot' = [snapshot EXCEPT ![s] = NoSnapshot]
    /\ UNCHANGED <<listing, obs>>

\* A mutant of Delist: a snapshot outlives its contract.
DelistKeepsSnapshot(s) ==
    /\ Install(Settled(Halted(s), s, SettlementPrice(s)))
    /\ listing' = [listing EXCEPT ![s] = NotListed]
    /\ pending' = pending \ {s}
    /\ obs' = [obs EXCEPT ![s] = <<>>]
    /\ UNCHANGED <<mark, snapshot>>

\* Settle and delist: the contract's state goes with it.
Delist(s) ==
    /\ Install(Settled(Halted(s), s, SettlementPrice(s)))
    /\ listing' = [listing EXCEPT ![s] = NotListed]
    /\ pending' = pending \ {s}
    /\ obs' = [obs EXCEPT ![s] = <<>>]
    /\ mark' = [mark EXCEPT ![s] = NoPrice]
    /\ snapshot' = [snapshot EXCEPT ![s] = NoSnapshot]

SettleExpiredInstrument ==
    /\ Unlocked
    /\ expiring # <<>>
    /\ expiring' = Tail(expiring)
    /\ IF obs[Head(expiring)] = <<>> THEN Defer(Head(expiring)) ELSE Delist(Head(expiring))
    /\ UNCHANGED <<env, now, listed, epoch, funding, charged, pass>>

\* CheckListings and AddInstrument: a listed symbol is left alone.
AddInstrument(s) ==
    /\ Unlocked
    /\ ~IsListed(s)
    /\ listed < env.maxListings
    /\ listed' = listed + 1
    /\ listing' = [listing EXCEPT ![s] = [no |-> listed + 1, expiry |-> now + Tenor]]
    /\ snapshot' = [snapshot EXCEPT ![s] = NoSnapshot]
    /\ UNCHANGED <<env, now, tradeVars, pending, obs, mark, epoch, funding, charged, loopVars>>

Tick ==
    /\ now < env.maxTime
    /\ now' = now + 1
    /\ UNCHANGED <<env, tradeVars, lifeVars, markVars, funding, charged, loopVars>>

-----------------------------------------------------------------------------
ClientStep ==
    \/ /\ nextOrderID < Len(env.requests)
       /\ \E r \in env.requests[nextOrderID + 1] : PlaceOrder(r)
    \/ \E s \in Symbols : \E i \in DOMAIN books[s] : CancelOrder(s, i)
    \/ \E c \in env.borrowers :
         \/ \E amount \in env.transfers : Transfer(c, "spot", amount) \/ Transfer(c, "perp", amount)
         \/ \E amount \in env.loans : BorrowMargin(c, amount) \/ RepayMargin(c, amount)
         \/ \E amount \in env.spotOrders : PlaceSpotOrder(c, amount)
         \/ CancelSpotOrder(c)

\* What a pass that holds markPassMu does next.
PassStep == \/ CommitMarks \/ BeginSweep \/ SweepClient \/ EndSweep \/ EndPass
            \/ ObserveSettlement \/ EndRefresh

VenueStep ==
    \/ CollectMarks
    \/ \E named \in SUBSET Symbols : CommitMarkEpoch(named)
    \/ UpdateDerivativeMarks
    \/ RefreshWithReferences
    \/ PassStep
    \/ CheckExpiries
    \/ SettleExpiredInstrument
    \/ CheckAndSettleFunding
    \/ ChargeCollateralInterest

Next ==
    \/ ClientStep
    \/ VenueStep
    \/ \E s \in Futures : AddInstrument(s)
    \/ Tick

\* The loops take their next step, and every contract's reference is available
\* again and again.  The first and the third conjunct are weak fairness written
\* out: PassStep is enabled exactly while a pass runs, and settlement exactly
\* while a symbol waits and the lock is free.
Fairness ==
    /\ []<>(pass.pc = "idle") \/ []<><<PassStep>>_vars
    /\ WF_vars(CheckExpiries)
    /\ []<>(expiring = <<>> \/ ~Unlocked) \/ []<><<SettleExpiredInstrument>>_vars
    /\ SF_vars(RefreshWithReferences)

Spec == Init /\ [][Next]_vars /\ Fairness

-----------------------------------------------------------------------------
(* Properties.                                                             *)

Prices == {NoPrice} \cup Int

\* The state has its types; book indexes hold live orders only.
TypeOK ==
    /\ now \in Nat /\ nextOrderID \in Nat /\ listed \in Nat /\ epoch \in Nat /\ charged \in Nat
    /\ \A s \in Symbols : \A i \in DOMAIN books[s] :
         i \in 1..nextOrderID /\ Linked(books[s][i]) /\ books[s][i].reserved \in Nat
    /\ \A c \in Clients : \A s \in Symbols : \A g \in Legs :
         /\ position[c][s][g] \in [size : Int, basis : Int, realized : Int, cash : Int,
                                   carry : Int, margin : Nat]
         /\ Abs(position[c][s][g].carry) < Precision
    /\ \A c \in Clients : wallet[c] \in [perp : Int, perpRes : Nat, spot : Int, spotRes : Nat,
                                         debt : Nat, debtSpot : Int]
    /\ venue \in [fees : Int, insurance : Int, drained : Int]
    /\ pending \subseteq Futures
    /\ \A s \in Symbols : mark[s] \in Prices

AllAccounts(s, f(_)) ==
    MapThenSumSet(LAMBDA c : MapThenSumSet(LAMBDA g : f(position[c][s][g]), Legs), Clients)

\* Every contract somebody is long somebody is short: trades, forced closes,
\* hedge legs and settlement keep the sizes on a symbol summing to zero.
PositionsBalance == \A s \in Symbols : AllAccounts(s, LAMBDA a : a.size) = 0

\* No cash is created or lost: what the wallets, the fee account and the fund
\* hold, net of loans, differs from the deposits by exactly what open accounts
\* have paid in cash ahead of their entries, less the logged rounding.
MoneyConserved ==
    Precision * (MapThenSumSet(LAMBDA c : wallet[c].perp + wallet[c].spot - wallet[c].debt
                                            - InitialPerp - InitialSpot, Clients)
                   + venue.fees + venue.insurance)
      = MapThenSumSet(LAMBDA s : AllAccounts(s, LAMBDA a : a.basis + Precision * a.cash
                                                             - a.carry - a.realized), Symbols)
        - venue.drained

OpenMargin(c) ==
    MapThenSumSet(LAMBDA s : MapThenSumSet(LAMBDA g : position[c][s][g].margin, Legs), Symbols)
RestingReserved(c) ==
    MapThenSumSet(LAMBDA s : MapThenSumSet(LAMBDA i : books[s][i].reserved,
                                           OrdersOf(books[s], c)), Symbols)

\* The perp reservation is exactly what resting orders and open positions hold,
\* so nothing stays frozen and no release eats another order's margin.
ReservationsExact ==
    \A c \in Clients : wallet[c].perpRes = RestingReserved(c) + OpenMargin(c)

\* A hedge leg never changes sign, and what rests to reduce it never exceeds it.
ReduceNeverOvershoots ==
    \A c \in Clients : \A s \in Symbols :
        /\ position[c][s]["Long"].size >= RestingOnLeg(books[s], c, "Long", "Sell")
        /\ -position[c][s]["Short"].size >= RestingOnLeg(books[s], c, "Short", "Buy")

\* The risk marks are coherent: a snapshot belongs to the contract now listed,
\* was taken during its life, agrees with the live mark, and snapshots of one
\* epoch have one time.
RiskMarksCoherent ==
    \A s \in Symbols : snapshot[s] # NoSnapshot =>
        /\ IsListed(s) /\ s \notin pending
        /\ snapshot[s].mark = mark[s]
        /\ listing[s].expiry # Never =>
             snapshot[s].at \in (listing[s].expiry - Tenor)..(listing[s].expiry - 1)
        /\ \A s2 \in Symbols : snapshot[s2] # NoSnapshot /\ snapshot[s2].epoch = snapshot[s].epoch
             => snapshot[s2].at = snapshot[s].at

LiveEquity(c) ==
    wallet[c].perp - BorrowedPerpPortion(wallet[c])
        + SumFunction([x \in ExposedLegs(c) |->
                         UnrealizedPnL(position[c][x[1]][x[2]], mark[x[1]])])
LiveMaintenance(c) ==
    SumFunction([x \in ExposedLegs(c) |->
        (Notional(position[c][x[1]][x[2]].size, mark[x[1]]) * MaintenanceRate) \div 10000])


\* A contract past expiry without a settlement price is halted: no orders, no
\* mark to trade, fund or liquidate against.
PendingHalts ==
    \A s \in pending : /\ ExpiredAt(s, now)
                       /\ books[s] = <<>>
                       /\ mark[s] = NoPrice
                       /\ snapshot[s] = NoSnapshot

\* A delisted contract leaves no order, position, margin, remainder or mark
\* behind for the next contract of that symbol.
ExpiryLeavesNothing ==
    \A s \in Futures : ~IsListed(s) =>
        /\ books[s] = <<>> /\ obs[s] = <<>>
        /\ mark[s] = NoPrice /\ snapshot[s] = NoSnapshot
        /\ \A c \in Clients : \A g \in Legs : position[c][s][g] = Flat

\* The share of a debt attributed to the spot wallet is between nothing and the
\* whole debt, through borrowing, repayment and liquidation.
LoanAttribution ==
    \A c \in Clients : 0 <= wallet[c].debtSpot /\ wallet[c].debtSpot <= wallet[c].debt

\* The books balance: the state has its types, longs meet shorts, cash is conserved
\* and every debt is attributed to the wallets it was paid into.
BooksBalance == TypeOK /\ PositionsBalance /\ MoneyConserved /\ LoanAttribution

\* A contract's life leaves nothing dangling: marks belong to it, a halt is
\* complete, and a delisted symbol starts afresh.
LifecycleClean == RiskMarksCoherent /\ PendingHalts /\ ExpiryLeavesNothing

\* A contract past expiry is eventually settled and delisted, however often its
\* settlement was deferred.
ExpiredSettles == \A s \in Futures : ExpiredAt(s, now) ~> ~IsListed(s)

\* checkLiquidations nets only the perp share of a debt because "a spot-credited
\* loan's cash never entered this wallet": here, where spot orders never trade,
\* the cash stays in the spot wallet until the loan is repaid.
SpotLoanStaysInSpot == \A c \in Clients : wallet[c].spot >= wallet[c].debtSpot
=============================================================================
