--------------------------- MODULE SpotVenueSteps ---------------------------
(***************************************************************************)
(* The inductive invariant of SpotVenue and what its operators return, for *)
(* any clients, assets, requests, fee schedule, deposits and number of     *)
(* orders; the initial states satisfy the invariant, and every step up to  *)
(* the last execution of a match keeps it: cancels, placing and matching.  *)
(***************************************************************************)
EXTENDS SpotVenue, TLAPS

-----------------------------------------------------------------------------
(* The inductive invariant.                                                *)

\* A resting iceberg shows a non-empty tranche, so every execution is of at
\* least one unit.
TrancheOK(o) == o.vis = "Iceberg" => o.icebergQty > 0

ShowsTranche ==
    /\ \A id \in DOMAIN book :
          TrancheOK(book[id]) /\ (book[id].vis = "Iceberg" /\ Linked(book[id]) => book[id].display > 0)
    /\ Placing => TrancheOK(taker) /\ taker.display = 0

\* IDs are given out once and in order; from Match on the taker has one, and
\* it is above every ID in the book.
FreshID ==
    /\ \A id \in DOMAIN book : id <= nextOrderID
    /\ phase \in {"match", "settle", "rest"} =>
         nextOrderID > 0 /\ \A id \in DOMAIN book : id < nextOrderID

\* Orders to force-cancel are in the book, and there are none while matching
\* and settling.
DoomedInBook ==
    /\ doomed \subseteq DOMAIN book
    /\ phase \in {"idle", "match", "settle"} => doomed = {}

\* An execution names its maker's client, which is not the taker's.
ExecutionsNameMakers ==
    /\ phase \notin {"match", "settle", "rest", "panic"} => executions = <<>>
    /\ phase \in {"match", "settle"} =>
         \A n \in 1..Len(executions) :
            LET x == executions[n]
            IN  /\ x.client # taker.client
                /\ x.maker \in DOMAIN book => book[x.maker].client = x.client

\* Once Match has returned, whatever the taker could still trade with is its
\* own, and the own quotes it would cross are the ones being cancelled.
TakerClear ==
    /\ phase \in {"settle", "rest"} /\ Remaining(taker) > 0 => Matchable(book, taker) = {}
    /\ phase = "rest" /\ WillRest => OwnCrossingQuotes(book) \subseteq doomed

\* Queue numbers are given out once, in order; an order that is never refreshed
\* keeps the place its arrival gave it.
QueueByArrival ==
    /\ \A id \in DOMAIN book : book[id].prio < nextLink
    /\ \A i, j \in DOMAIN book : i < j /\ book[i].vis = "Normal" => book[i].prio < book[j].prio

IInv ==
    /\ TypeOK
    /\ ShowsTranche
    /\ FreshID
    /\ DoomedInBook
    /\ ExecutionsNameMakers
    /\ TakerClear
    /\ QueueByArrival
    /\ Uncrossed
    /\ OrderIDsMatchBook

-----------------------------------------------------------------------------
(* Types of the amounts.                                                   *)

\* Prices and quantities are naturals, and a part of a quantity is a quantity.
LEMMA Menu ==
    /\ Prices \subseteq Nat
    /\ Quantities \subseteq Nat \ {0}
    /\ \A q \in Quantities, n \in Nat : 0 < n /\ n <= q => n \in Quantities
  <1>1. Prices \subseteq Nat
    BY SpotVenueAssumption DEF Prices, RequestSet
  <1>2. Quantities \subseteq Nat \ {0}
    BY SpotVenueAssumption DEF Quantities, RequestSet
  <1>3. ASSUME NEW q \in Quantities, NEW n \in Nat, 0 < n, n <= q
        PROVE  n \in Quantities
    <2>1. PICK r \in Requests : q \in 1..r.qty
      BY DEF Quantities
    <2>2. r.qty \in Nat
      BY SpotVenueAssumption DEF RequestSet
    <2>3. n \in 1..r.qty
      BY <1>3, <2>1, <2>2
    <2> QED
      BY <2>3 DEF Quantities
  <1> QED
    BY <1>1, <1>2, <1>3

\* A notional is a natural number.
LEMMA NotionalType ==
    ASSUME NEW q \in Nat, NEW p \in Nat
    PROVE  Notional(q, p) \in Nat
  <1>1. q * p \in Nat
    OBVIOUS
  <1>2. Precision \in Nat \ {0}
    BY SpotVenueAssumption
  <1> HIDE DEF Notional
  <1>3. \A n \in Nat, d \in Nat \ {0} : n \div d \in Nat
    OBVIOUS
  <1> QED
    BY <1>1, <1>2, <1>3 DEF Notional

\* Greater is the maximum of two integers.
LEMMA GreaterType ==
    ASSUME NEW m \in Int, NEW n \in Int
    PROVE  /\ Greater(m, n) \in Int
           /\ Greater(m, n) >= m /\ Greater(m, n) >= n
           /\ Greater(m, n) \in {m, n}
  BY DEF Greater

\* What execution fees and headrooms the venue computes.
LEMMA FeeType ==
    ASSUME NEW c \in Clients, NEW isMaker \in BOOLEAN,
           NEW q \in Quantities, NEW p \in Prices
    PROVE  /\ Fee(c, isMaker, q, p) \in [asset : Assets, amount : Int]
           /\ \A a \in Assets : FeeIn(Fee(c, isMaker, q, p), a) \in Int
  BY FeeAssumption DEF FeeIn

\* The quote-asset fee headroom (quoteFeeHeadroom) is a natural number.
LEMMA FeeHeadroomType ==
    ASSUME NEW c \in Clients, NEW q \in Quantities \cup {0}, NEW p \in Prices,
           NEW a \in Assets
    PROVE  FeeHeadroom(c, q, p, a) \in Nat
  <1>1. CASE q = 0
    BY <1>1 DEF FeeHeadroom
  <1>2. CASE q \in Quantities /\ q # 0
    <2>1. FeeIn(Fee(c, FALSE, q, p), a) \in Int
      BY Zenon, <1>2, FeeType
    <2>2. FeeIn(Fee(c, TRUE, q, p), a) \in Int
      BY Zenon, <1>2, FeeType
    <2> DEFINE fee == Greater(FeeIn(Fee(c, FALSE, q, p), a), FeeIn(Fee(c, TRUE, q, p), a))
    <2>3. fee \in Int
      BY Zenon, <2>1, <2>2, GreaterType
    <2> HIDE DEF fee
    <2>4. Greater(0, fee) \in Nat
      <3>1. Greater(0, fee) \in Int /\ Greater(0, fee) >= 0
        BY <2>3, GreaterType
      <3> QED
        BY <3>1
    <2> QED
      BY Zenon, <1>2, <2>4 DEF FeeHeadroom, fee
  <1> QED
    BY <1>1, <1>2

\* What a spot order reserves (spotOrderReservation) and the third-asset fees it
\* reserves (foreignFeeReservations) are natural numbers.
LEMMA ReservationType ==
    ASSUME NEW c \in Clients, NEW side \in Sides, NEW q \in Quantities \cup {0},
           NEW p \in Prices
    PROVE  /\ SpotOrderReservation(c, side, q, p) \in Nat
           /\ ForeignFees(c, q, p) \in [Assets -> Nat]
  <1>1. q \in Nat /\ p \in Nat
    BY Menu
  <1>2. Notional(q, p) \in Nat
    BY Zenon, <1>1, NotionalType
  <1>3. ReserveAsset(side) \in Assets
    BY SpotVenueAssumption DEF ReserveAsset
  <1>4. FeeHeadroom(c, q, p, ReserveAsset(side)) \in Nat
    BY <1>3, FeeHeadroomType
  <1>5. SpotOrderReservation(c, side, q, p) \in Nat
    BY <1>1, <1>2, <1>4 DEF SpotOrderReservation
  <1>6. \A a \in Assets : FeeHeadroom(c, q, p, a) \in Nat
    BY FeeHeadroomType
  <1>7. ForeignFees(c, q, p) \in [Assets -> Nat]
    BY <1>6 DEF ForeignFees
  <1> QED
    BY <1>5, <1>7

Fees == [asset : Assets, amount : Int]

\* What an execution does to one party's balances is an integer in each asset.
LEMMA LegFlowType ==
    ASSUME NEW side \in Sides, NEW x \in Execution, NEW fee \in Fees
    PROVE  LegFlow(side, x, fee) \in [Assets -> Int]
  <1>1. x.qty \in Quantities /\ x.price \in Prices
    BY DEF Execution
  <1>2. x.qty \in Nat /\ x.price \in Nat
    BY Zenon, <1>1, Menu
  <1>3. Notional(x.qty, x.price) \in Nat
    BY Zenon, <1>2, NotionalType
  <1>4. \A a \in Assets : FeeIn(fee, a) \in Int
    BY DEF FeeIn, Fees
  <1> QED
    BY <1>2, <1>3, <1>4 DEF LegFlow

-----------------------------------------------------------------------------
(* Ledger operations keep their types, and settlement touches only the     *)
(* money an order holds.                                                   *)

Accounts == [Clients -> [Assets -> Int]]
Reservations == [Clients -> [Assets -> Nat]]
Ledgers == [bal : Accounts, res : Reservations]

\* o2 is the same order as o1 in everything matching looks at.
SameOrder(o1, o2) ==
    /\ o2.client = o1.client /\ o2.side = o1.side /\ o2.type = o1.type /\ o2.tif = o1.tif
    /\ o2.price = o1.price /\ o2.qty = o1.qty /\ o2.filled = o1.filled
    /\ o2.vis = o1.vis /\ o2.icebergQty = o1.icebergQty
    /\ o2.display = o1.display /\ o2.prio = o1.prio

\* The asset an order locks (reserveAsset) is an asset of the venue.
LEMMA SideAssets == \A side \in Sides : ReserveAsset(side) \in Assets
  BY SpotVenueAssumption DEF ReserveAsset

\* Client.Release, which clamps at zero, leaves a natural number.
LEMMA ReleaseType ==
    ASSUME NEW m \in Int
    PROVE  Greater(0, m) \in Nat
  BY DEF Greater

\* What an order holds locked is a natural number in each asset.
LEMMA LockedType ==
    ASSUME NEW o \in OrderRecord
    PROVE  Locked(o) \in [Assets -> Nat]
  <1>1. o.feeReserved \in [Assets -> Nat] /\ o.reserved \in Nat
    BY DEF OrderRecord
  <1> QED
    BY <1>1 DEF Locked

\* reserveOrderFunds keeps the type of the reservations.
LEMMA LockFundsType ==
    ASSUME NEW res \in Reservations, NEW o \in OrderRecord
    PROVE  LockFunds(res, o) \in Reservations
  <1>1. o.client \in Clients
    BY DEF OrderRecord
  <1>2. \A a \in Assets : Locked(o)[a] \in Nat
    BY LockedType
  <1>3. \A a \in Assets : res[o.client][a] + Locked(o)[a] \in Nat
    BY <1>1, <1>2 DEF Reservations
  <1> QED
    BY <1>1, <1>3 DEF LockFunds, Reservations

\* releaseReserved keeps the type of the reservations.
LEMMA ReleaseReservedType ==
    ASSUME NEW res \in Reservations, NEW o \in OrderRecord
    PROVE  ReleaseReserved(res, o) \in Reservations
  <1>1. o.client \in Clients
    BY DEF OrderRecord
  <1>2. \A a \in Assets : Locked(o)[a] \in Nat
    BY LockedType
  <1>3. \A a \in Assets : res[o.client][a] - Locked(o)[a] \in Int
    BY <1>1, <1>2 DEF Reservations
  <1>4. \A a \in Assets : Greater(0, res[o.client][a] - Locked(o)[a]) \in Nat
    BY <1>3, ReleaseType
  <1> QED
    BY <1>1, <1>4 DEF ReleaseReserved, Reservations

\* settleSpotLeg keeps the type of the ledger and moves one client's balances by
\* exactly the flow of the leg.
LEMMA SettleSpotLegType ==
    ASSUME NEW led \in Ledgers, NEW c \in Clients, NEW side \in Sides,
           NEW release \in Int, NEW x \in Execution, NEW fee \in Fees
    PROVE  LET end == SettleSpotLeg(led, c, side, release, x, fee)
           IN  /\ end \in Ledgers
               /\ \A a \in Assets : end.bal[c][a] = led.bal[c][a] + LegFlow(side, x, fee)[a]
               /\ \A d \in Clients \ {c} : end.bal[d] = led.bal[d]
  <1> DEFINE flow == LegFlow(side, x, fee)
             end == SettleSpotLeg(led, c, side, release, x, fee)
  <1>1. flow \in [Assets -> Int]
    BY LegFlowType
  <1>2. led.bal \in Accounts /\ led.res \in Reservations
    BY DEF Ledgers
  <1>3. ReserveAsset(side) \in Assets
    BY SideAssets
  <1>4. led.res[c][ReserveAsset(side)] - release \in Int
    BY <1>2, <1>3 DEF Reservations
  <1>5. Greater(0, led.res[c][ReserveAsset(side)] - release) \in Nat
    BY <1>4, ReleaseType
  <1> HIDE DEF flow
  <1>6. /\ end.bal = [led.bal EXCEPT ![c] = [a \in Assets |-> led.bal[c][a] + flow[a]]]
        /\ end.res = [led.res EXCEPT ![c] = [led.res[c] EXCEPT ![ReserveAsset(side)] =
                          Greater(0, led.res[c][ReserveAsset(side)] - release)]]
        /\ end = [bal |-> end.bal, res |-> end.res]
    BY DEF SettleSpotLeg, flow
  <1>7. end.bal \in Accounts
    BY <1>1, <1>2, <1>6 DEF Accounts
  <1>8. end.res \in Reservations
    BY <1>2, <1>3, <1>5, <1>6 DEF Reservations
  <1>9. end \in Ledgers
    BY <1>6, <1>7, <1>8 DEF Ledgers
  <1>10. /\ \A a \in Assets : end.bal[c][a] = led.bal[c][a] + flow[a]
         /\ \A d \in Clients \ {c} : end.bal[d] = led.bal[d]
    BY <1>2, <1>6 DEF Accounts
  <1> QED
    BY <1>9, <1>10 DEF flow

\* After spotFillRelease the order still holds a non-negative reservation and is
\* unchanged in everything matching looks at.
LEMMA AfterReleaseType ==
    ASSUME NEW o \in OrderRecord, o.filled <= o.qty
    PROVE  /\ SpotFillRelease(o) \in Nat
           /\ AfterRelease(o) \in OrderRecord
           /\ SameOrder(o, AfterRelease(o))
           /\ AfterRelease(o).cancelled = o.cancelled
  <1>1. /\ o.client \in Clients /\ o.side \in Sides /\ o.price \in Prices
        /\ o.qty \in Quantities /\ o.filled \in Nat /\ o.reserved \in Nat
    BY DEF OrderRecord
  <1>2. Remaining(o) \in Quantities \cup {0}
    <2>1. o.qty \in Nat
      BY Zenon, <1>1, Menu
    <2>2. Remaining(o) \in Nat /\ Remaining(o) <= o.qty
      BY <1>1, <2>1 DEF Remaining
    <2>3. Remaining(o) = 0 \/ 0 < Remaining(o)
      BY <2>2
    <2> QED
      BY Zenon, <1>1, <2>2, <2>3, Menu
  <1> DEFINE need == SpotOrderReservation(o.client, o.side, Remaining(o), o.price)
  <1>3. need \in Nat
    BY Zenon, <1>1, <1>2, ReservationType
  <1> HIDE DEF need
  <1>4. Greater(0, o.reserved - need) \in Nat /\ Greater(0, o.reserved - need) <= o.reserved
    BY <1>1, <1>3 DEF Greater
  <1>5. SpotFillRelease(o) \in Nat /\ SpotFillRelease(o) <= o.reserved
    BY <1>1, <1>4 DEF SpotFillRelease, need
  <1>6. o.reserved - SpotFillRelease(o) \in Nat
    BY <1>1, <1>5
  <1>7. AfterRelease(o) = [o EXCEPT !.reserved = o.reserved - SpotFillRelease(o)]
    BY DEF AfterRelease
  <1> QED
    BY <1>5, <1>6, <1>7 DEF OrderRecord, SameOrder

\* The remainder of an order is a natural number.
LEMMA RemainingType ==
    ASSUME NEW o \in OrderRecord, o.filled <= o.qty
    PROVE  /\ Remaining(o) \in Quantities \cup {0}
           /\ Remaining(o) \in Nat
           /\ Linked(o) <=> Remaining(o) > 0
  <1>1. o.qty \in Quantities /\ o.filled \in Nat
    BY DEF OrderRecord
  <1>2. o.qty \in Nat
    BY Zenon, <1>1, Menu
  <1>3. Remaining(o) \in Nat /\ Remaining(o) <= o.qty
    BY <1>1, <1>2 DEF Remaining
  <1>4. Remaining(o) = 0 \/ 0 < Remaining(o)
    BY <1>3
  <1>5. Linked(o) <=> Remaining(o) > 0
    BY <1>1, <1>2 DEF Linked, Remaining
  <1> QED
    BY Zenon, <1>1, <1>3, <1>4, <1>5, Menu

\* restoreForeignFeeReservation moves no balance, keeps the types, and leaves the
\* order unchanged in everything matching looks at.
LEMMA RestoreType ==
    ASSUME NEW led \in Ledgers, NEW o \in OrderRecord, o.filled <= o.qty
    PROVE  LET r == RestoreForeignFeeReservation(led, o)
           IN  /\ r.led \in Ledgers
               /\ r.led.bal = led.bal
               /\ r.order \in OrderRecord
               /\ SameOrder(o, r.order)
  <1> DEFINE c     == o.client
             want  == ForeignFees(c, Remaining(o), o.price)
             freed == [a \in Assets |-> Greater(0, led.res[c][a] - o.feeReserved[a])]
             bare  == [o EXCEPT !.feeReserved = NoFees]
             base  == [led EXCEPT !.res[c] = freed]
             r     == RestoreForeignFeeReservation(led, o)
             enough == \A a \in Assets : want[a] <= led.bal[c][a] - freed[a]
  <1>1. /\ c \in Clients /\ o.side \in Sides /\ o.price \in Prices
        /\ o.feeReserved \in [Assets -> Nat]
    BY DEF OrderRecord
  <1>2. want \in [Assets -> Nat]
    BY Zenon, <1>1, RemainingType, ReservationType
  <1>3. led.bal \in Accounts /\ led.res \in Reservations /\ led = [bal |-> led.bal, res |-> led.res]
    BY DEF Ledgers
  <1>4. \A a \in Assets : led.res[c][a] - o.feeReserved[a] \in Int
    BY <1>1, <1>3 DEF Reservations
  <1>5. freed \in [Assets -> Nat]
    BY <1>4, ReleaseType
  <1>6. bare \in OrderRecord /\ SameOrder(o, bare)
    BY DEF OrderRecord, SameOrder, NoFees
  <1> HIDE DEF want, freed, enough, c, bare
  <1>7. CASE o.type = "Market" \/ o.feeReserved = NoFees
    <2>1. r = [led |-> led, order |-> o]
      BY <1>7 DEF RestoreForeignFeeReservation
    <2> QED
      BY <2>1 DEF SameOrder
  <1>8. CASE ~(o.type = "Market" \/ o.feeReserved = NoFees) /\ enough
    <2> DEFINE sum == [a \in Assets |-> freed[a] + want[a]]
               next == [led EXCEPT !.res[c] = sum]
               ord == [o EXCEPT !.feeReserved = want]
    <2>1. r = [led |-> next, order |-> ord]
      BY <1>8 DEF RestoreForeignFeeReservation, want, freed, enough, c
    <2>2. sum \in [Assets -> Nat]
      BY <1>2, <1>5
    <2> HIDE DEF sum
    <2>3. next = [bal |-> led.bal, res |-> [led.res EXCEPT ![c] = sum]]
      BY <1>3
    <2>4. [led.res EXCEPT ![c] = sum] \in Reservations
      BY Zenon, <1>3, <2>2 DEF Reservations
    <2>5. ord \in OrderRecord /\ SameOrder(o, ord)
      BY <1>2 DEF OrderRecord, SameOrder
    <2> HIDE DEF next, ord, r
    <2>6. next \in Ledgers /\ next.bal = led.bal
      BY <1>3, <2>3, <2>4 DEF Ledgers
    <2>7. r.led = next /\ r.order = ord
      BY <2>1
    <2> QED
      BY <2>5, <2>6, <2>7 DEF r
  <1>9. CASE ~(o.type = "Market" \/ o.feeReserved = NoFees) /\ ~enough
    <2> DEFINE next == [base EXCEPT !.res = ReleaseReserved(base.res, bare)]
               ord == [bare EXCEPT !.reserved = 0, !.cancelled = TRUE]
    <2>1. r = [led |-> next, order |-> ord]
      BY <1>9 DEF RestoreForeignFeeReservation, want, freed, enough, c, bare
    <2>2. base = [bal |-> led.bal, res |-> [led.res EXCEPT ![c] = freed]]
      BY <1>3
    <2>3. base.res \in Reservations
      BY Zenon, <1>3, <1>5, <2>2 DEF Reservations
    <2> HIDE DEF base
    <2>4. ReleaseReserved(base.res, bare) \in Reservations
      BY <1>6, <2>3, ReleaseReservedType
    <2>5. next = [bal |-> led.bal, res |-> ReleaseReserved(base.res, bare)]
      BY <2>2
    <2>6. ord \in OrderRecord /\ SameOrder(o, ord)
      BY Zenon, <1>6 DEF OrderRecord, SameOrder
    <2> HIDE DEF next, ord, r
    <2>7. next \in Ledgers /\ next.bal = led.bal
      BY <1>3, <2>4, <2>5 DEF Ledgers
    <2>8. r.led = next /\ r.order = ord
      BY <2>1
    <2> QED
      BY <2>6, <2>7, <2>8 DEF r
  <1> QED
    BY <1>7, <1>8, <1>9

-----------------------------------------------------------------------------
(* Matching one pair.                                                      *)

\* One execution fills maker and taker by at least one unit and never beyond
\* their quantities, and leaves a resting iceberg with a tranche on display.
LEMMA ExecutedType ==
    ASSUME NEW t \in OrderRecord, t.filled < t.qty,
           NEW m \in OrderRecord, Linked(m), TrancheOK(m),
           m.vis = "Iceberg" => m.display > 0,
           NEW link \in Nat
    PROVE  LET q == ExecutedQty(t, m)
               after == ExecutedMaker(m, q, link)
           IN  /\ q \in Quantities
               /\ t.filled + q <= t.qty
               /\ after \in OrderRecord
               /\ after.filled = m.filled + q /\ after.filled <= after.qty
               /\ after.client = m.client /\ after.side = m.side /\ after.price = m.price
               /\ after.qty = m.qty /\ after.vis = m.vis /\ TrancheOK(after)
               /\ after.vis = "Iceberg" /\ Linked(after) => after.display > 0
               /\ after.prio = IF Refreshes(m, q) THEN link ELSE m.prio
               /\ Refreshes(m, q) => m.vis = "Iceberg"
  <1> DEFINE q == ExecutedQty(t, m)
             after == ExecutedMaker(m, q, link)
             shown == IF m.vis = "Iceberg" THEN m.display - q ELSE m.display
             hit == [m EXCEPT !.filled = m.filled + q, !.display = shown]
  <1>1. /\ t.qty \in Nat /\ t.filled \in Nat /\ t.qty \in Quantities
        /\ m.qty \in Nat /\ m.filled \in Nat /\ m.display \in Nat /\ m.icebergQty \in Nat
    BY Zenon, Menu DEF OrderRecord
  <1>2. /\ q \in Nat /\ 0 < q /\ q <= t.qty
        /\ q <= t.qty - t.filled /\ q <= m.qty - m.filled
        /\ m.vis = "Iceberg" => q <= m.display
    BY <1>1 DEF ExecutedQty, MakerAvailable, Remaining, Lesser, Linked
  <1>3. q \in Quantities
    BY <1>1, <1>2, Menu
  <1> HIDE DEF q
  <1>4. /\ hit \in OrderRecord
        /\ hit.filled = m.filled + q /\ hit.qty = m.qty
        /\ hit.display = IF m.vis = "Iceberg" THEN m.display - q ELSE m.display
        /\ hit.client = m.client /\ hit.side = m.side /\ hit.price = m.price
        /\ hit.vis = m.vis /\ hit.icebergQty = m.icebergQty /\ hit.prio = m.prio
    <2>1. shown \in Nat /\ m.filled + q \in Nat
      BY <1>1, <1>2
    <2> HIDE DEF shown
    <2>2. /\ hit \in OrderRecord
          /\ hit.filled = m.filled + q /\ hit.qty = m.qty /\ hit.display = shown
          /\ hit.client = m.client /\ hit.side = m.side /\ hit.price = m.price
          /\ hit.vis = m.vis /\ hit.icebergQty = m.icebergQty /\ hit.prio = m.prio
      BY Zenon, <2>1 DEF OrderRecord
    <2> QED
      BY <2>2 DEF shown
  <1>5. after = IF Refreshes(m, q) THEN LinkOrder(hit, link) ELSE hit
    BY DEF ExecutedMaker
  <1> HIDE DEF hit
  <1>6. CASE Refreshes(m, q)
    <2> DEFINE show == Lesser(hit.icebergQty, Remaining(hit))
    <2>1. m.vis = "Iceberg" /\ hit.display = 0 /\ q < m.qty - m.filled
      BY <1>1, <1>2, <1>4, <1>6 DEF Refreshes, Remaining
    <2>2. hit.icebergQty \in Nat /\ hit.icebergQty > 0
      BY <1>1, <1>4, <2>1 DEF TrancheOK
    <2>3. show \in Nat /\ show > 0
      BY <1>1, <1>2, <1>4, <2>1, <2>2 DEF Lesser, Remaining
    <2> HIDE DEF show
    <2>4. after = [hit EXCEPT !.prio = link, !.display = show]
      BY Zenon, <1>4, <1>5, <1>6, <2>1 DEF LinkOrder, show
    <2>5. /\ after \in OrderRecord /\ after.prio = link /\ after.display = show
          /\ after.filled = hit.filled /\ after.qty = hit.qty /\ after.client = hit.client
          /\ after.side = hit.side /\ after.price = hit.price /\ after.vis = hit.vis
          /\ after.icebergQty = hit.icebergQty
      BY ZenonT(60), <1>4, <2>3, <2>4 DEF OrderRecord
    <2> HIDE DEF after
    <2>6. after.filled <= after.qty
      BY <1>1, <1>2, <1>4, <2>5
    <2>7. TrancheOK(after)
      BY <2>2, <2>5 DEF TrancheOK
    <2>8. m.vis = "Iceberg"
      BY <2>1
    <2> QED
      BY SMTT(60), <1>1, <1>2, <1>3, <1>4, <1>6, <2>3, <2>5, <2>6, <2>7, <2>8 DEF q, after
  <1>7. CASE ~Refreshes(m, q)
    <2>1. after = hit
      BY <1>5, <1>7
    <2>2. TrancheOK(hit)
      BY <1>4 DEF TrancheOK
    <2>3. hit.filled <= hit.qty
      BY <1>1, <1>2, <1>4
    <2>4. hit.vis = "Iceberg" /\ Linked(hit) => hit.display > 0
      BY <1>1, <1>2, <1>4, <1>7 DEF Refreshes, Linked, Remaining
    <2> HIDE DEF after
    <2> QED
      BY <1>1, <1>2, <1>3, <1>4, <1>7, <2>1, <2>2, <2>3, <2>4 DEF q, after
  <1> QED
    BY <1>6, <1>7

-----------------------------------------------------------------------------
(* Initial states.                                                         *)

\* The initial state satisfies the inductive invariant.
LEMMA InitIInv == Init => IInv
  <1> SUFFICES ASSUME Init PROVE IInv
    OBVIOUS
  <1>1. DOMAIN book = {}
    BY DEF Init
  <1>2. NoFees \in [Assets -> Nat] /\ NoFees \in [Assets -> Int]
    BY DEF NoFees
  <1>3. balance \in [Clients -> [Assets -> Int]]
    BY SpotVenueAssumption DEF Init
  <1>4. executions \in Seq(Execution) /\ settled \in 0..Len(executions)
    BY DEF Init
  <1>5. TypeOK
    BY <1>1, <1>2, <1>3, <1>4 DEF Init, TypeOK, Phases, Placing
  <1>6. ShowsTranche /\ FreshID /\ DoomedInBook /\ ExecutionsNameMakers /\ TakerClear
    BY <1>1 DEF Init, ShowsTranche, FreshID, DoomedInBook, ExecutionsNameMakers, TakerClear, Placing
  <1>7. QueueByArrival /\ Uncrossed /\ OrderIDsMatchBook
    BY <1>1 DEF Init, QueueByArrival, Uncrossed, OrderIDsMatchBook
  <1> QED
    BY <1>5, <1>6, <1>7 DEF IInv

-----------------------------------------------------------------------------
(* Steps that only take orders out of the book, or change the money an     *)
(* order holds, keep everything the invariant says of the book.            *)

\* Removing orders from the book, and changing only what they hold reserved,
\* keeps every invariant of the book.
LEMMA BookShrinks ==
    ASSUME IInv, nextLink' = nextLink,
           DOMAIN book' \subseteq DOMAIN book,
           \A id \in DOMAIN book' : book'[id] \in OrderRecord /\ SameOrder(book[id], book'[id])
    PROVE  /\ DOMAIN book' \subseteq OrderIds
           /\ \A id \in DOMAIN book' : book'[id].filled <= book'[id].qty
           /\ \A id \in DOMAIN book' :
                /\ TrancheOK(book'[id])
                /\ book'[id].vis = "Iceberg" /\ Linked(book'[id]) => book'[id].display > 0
           /\ QueueByArrival'
           /\ Uncrossed'
  <1>1. DOMAIN book' \subseteq OrderIds
    BY DEF IInv, TypeOK
  <1>2. \A id \in DOMAIN book' : book'[id].filled <= book'[id].qty
    BY DEF IInv, TypeOK, SameOrder
  <1>3. \A id \in DOMAIN book' : Linked(book'[id]) <=> Linked(book[id])
    BY DEF SameOrder, Linked
  <1>4. \A id \in DOMAIN book' :
            /\ TrancheOK(book'[id])
            /\ book'[id].vis = "Iceberg" /\ Linked(book'[id]) => book'[id].display > 0
    BY <1>3 DEF IInv, ShowsTranche, TrancheOK, SameOrder
  <1>5. QueueByArrival'
    BY DEF IInv, QueueByArrival, SameOrder
  <1>6. Uncrossed'
    BY <1>3 DEF IInv, Uncrossed, SameOrder
  <1> QED
    BY <1>1, <1>2, <1>4, <1>5, <1>6

\* An order is the same order as itself.
LEMMA SameOrderRefl == \A o : SameOrder(o, o)
  BY DEF SameOrder

\* What a cancelled order's removal does to the book, the client's OrderIDs and
\* the reservations.
LEMMA DropOrderEffect ==
    ASSUME IInv, NEW id \in DOMAIN book, DropOrder(id)
    PROVE  /\ DOMAIN book' = DOMAIN book \ {id}
           /\ \A i \in DOMAIN book' : book'[i] = book[i]
           /\ \A i \in DOMAIN book' : book'[i] \in OrderRecord /\ SameOrder(book[i], book'[i])
           /\ reserved' \in Reservations
           /\ orderIDs' \in [Clients -> SUBSET OrderIds]
           /\ OrderIDsMatchBook'
  <1>1. book[id] \in OrderRecord /\ reserved \in Reservations
    BY DEF IInv, TypeOK, Reservations
  <1>2. book[id].client \in Clients
    BY <1>1 DEF OrderRecord
  <1>3. DOMAIN book' = DOMAIN book \ {id} /\ \A i \in DOMAIN book' : book'[i] = book[i]
    BY DEF DropOrder, RemoveOrders
  <1>4. \A i \in DOMAIN book' : book'[i] \in OrderRecord /\ SameOrder(book[i], book'[i])
    BY <1>3, SameOrderRefl DEF IInv, TypeOK
  <1>5. reserved' \in Reservations
    BY <1>1, ReleaseReservedType DEF DropOrder
  <1>6. orderIDs' = [orderIDs EXCEPT ![book[id].client] = orderIDs[book[id].client] \ {id}]
    BY DEF DropOrder
  <1>7. orderIDs \in [Clients -> SUBSET OrderIds]
    BY DEF IInv, TypeOK
  <1>8. orderIDs' \in [Clients -> SUBSET OrderIds]
    BY <1>2, <1>6, <1>7
  <1>9. ASSUME NEW c \in Clients
        PROVE  orderIDs'[c] = {i \in DOMAIN book' : book'[i].client = c}
    <2>1. orderIDs[c] = {i \in DOMAIN book : book[i].client = c}
      BY DEF IInv, OrderIDsMatchBook
    <2>2. CASE c = book[id].client
      BY <1>2, <1>3, <1>6, <1>7, <2>1, <2>2
    <2>3. CASE c # book[id].client
      BY <1>2, <1>3, <1>6, <1>7, <2>1, <2>3
    <2> QED
      BY <2>2, <2>3
  <1>10. OrderIDsMatchBook'
    BY <1>9 DEF OrderIDsMatchBook
  <1> QED
    BY <1>3, <1>4, <1>5, <1>8, <1>10

\* A forced cancel (eviction, self-trade cancel, mass cancel) keeps the invariant.
LEMMA ForceCancelOneInv ==
    ASSUME IInv, ForceCancelOne
    PROVE  IInv'
  <1>1. PICK id \in doomed : DropOrder(id) /\ doomed' = doomed \ {id} /\ forced' = forced \cup {id}
    BY DEF ForceCancelOne
  <1>2. id \in DOMAIN book /\ id \in OrderIds
    BY DEF IInv, DoomedInBook, TypeOK
  <1>3. /\ UNCHANGED <<phase, nextOrderID, nextLink, balance, feeRevenue, taker>>
        /\ UNCHANGED <<planned, executions, settled>>
        /\ phase \in {"evict", "rest", "cancelAll"}
    BY DEF ForceCancelOne, planVars
  <1>4. /\ DOMAIN book' = DOMAIN book \ {id}
        /\ \A i \in DOMAIN book' : book'[i] = book[i]
        /\ \A i \in DOMAIN book' : book'[i] \in OrderRecord /\ SameOrder(book[i], book'[i])
        /\ reserved' \in Reservations
        /\ orderIDs' \in [Clients -> SUBSET OrderIds]
        /\ OrderIDsMatchBook'
    BY <1>1, <1>2, DropOrderEffect
  <1>5. /\ DOMAIN book' \subseteq OrderIds
        /\ \A i \in DOMAIN book' : book'[i].filled <= book'[i].qty
        /\ \A i \in DOMAIN book' :
             /\ TrancheOK(book'[i])
             /\ book'[i].vis = "Iceberg" /\ Linked(book'[i]) => book'[i].display > 0
        /\ QueueByArrival'
        /\ Uncrossed'
    BY <1>3, <1>4, BookShrinks
  <1>6. TypeOK'
    BY <1>1, <1>2, <1>3, <1>4, <1>5 DEF IInv, TypeOK, Placing, Reservations
  <1>7. ShowsTranche'
    BY <1>3, <1>5 DEF IInv, ShowsTranche, Placing
  <1>8. FreshID'
    BY <1>3, <1>4 DEF IInv, FreshID
  <1>9. DoomedInBook'
    BY <1>1, <1>3, <1>4 DEF IInv, DoomedInBook
  <1>10. ExecutionsNameMakers'
    BY <1>3 DEF IInv, ExecutionsNameMakers
  <1>11. Matchable(book, taker) = {} => Matchable(book', taker) = {}
    BY <1>4 DEF Matchable
  <1>12. OwnCrossingQuotes(book) \subseteq doomed => OwnCrossingQuotes(book)' \subseteq doomed'
    BY <1>1, <1>3, <1>4 DEF OwnCrossingQuotes
  <1>13. WillRest' <=> WillRest
    BY <1>3 DEF WillRest
  <1>14. TakerClear'
    BY <1>3, <1>11, <1>12, <1>13 DEF IInv, TakerClear
  <1> QED
    BY <1>4, <1>5, <1>6, <1>7, <1>8, <1>9, <1>10, <1>14 DEF IInv

\* A requested cancel keeps the invariant.
LEMMA CancelOrderInv ==
    ASSUME IInv, NEW c \in Clients, NEW id \in 1..nextOrderID, CancelOrder(c, id)
    PROVE  IInv'
  <1>1. id \in DOMAIN book /\ DropOrder(id) /\ phase = "idle"
    BY DEF CancelOrder
  <1>2. /\ UNCHANGED <<phase, nextOrderID, nextLink, balance, feeRevenue, taker, doomed, forced>>
        /\ UNCHANGED <<planned, executions, settled>>
    BY DEF CancelOrder, planVars
  <1>3. /\ DOMAIN book' = DOMAIN book \ {id}
        /\ \A i \in DOMAIN book' : book'[i] = book[i]
        /\ \A i \in DOMAIN book' : book'[i] \in OrderRecord /\ SameOrder(book[i], book'[i])
        /\ reserved' \in Reservations
        /\ orderIDs' \in [Clients -> SUBSET OrderIds]
        /\ OrderIDsMatchBook'
    BY Zenon, <1>1, DropOrderEffect
  <1>4. /\ DOMAIN book' \subseteq OrderIds
        /\ \A i \in DOMAIN book' : book'[i].filled <= book'[i].qty
        /\ \A i \in DOMAIN book' :
             /\ TrancheOK(book'[i])
             /\ book'[i].vis = "Iceberg" /\ Linked(book'[i]) => book'[i].display > 0
        /\ QueueByArrival'
        /\ Uncrossed'
    BY <1>2, <1>3, BookShrinks
  <1>5. TypeOK'
    BY <1>2, <1>3, <1>4 DEF IInv, TypeOK, Placing, Reservations
  <1>6. ShowsTranche' /\ FreshID' /\ ExecutionsNameMakers'
    BY <1>1, <1>2, <1>3, <1>4 DEF IInv, ShowsTranche, FreshID, ExecutionsNameMakers, Placing
  <1>7. DoomedInBook' /\ TakerClear'
    BY <1>1, <1>2 DEF IInv, DoomedInBook, TakerClear
  <1> QED
    BY <1>3, <1>4, <1>5, <1>6, <1>7 DEF IInv

\* Starting and ending CancelAllClientOrders keep the invariant.
LEMMA CancelAllInv ==
    ASSUME IInv, (\E c \in Clients : CancelAllClientOrders(c)) \/ CancelAllDone
    PROVE  IInv'
  <1>1. /\ UNCHANGED <<nextOrderID, taker, nextLink, book, orderIDs, balance, reserved, feeRevenue>>
        /\ UNCHANGED <<executions, settled>>
        /\ phase \in {"idle", "cancelAll"} /\ phase' \in {"idle", "cancelAll"}
        /\ phase' = "idle" => doomed' = {}
        /\ doomed' \subseteq DOMAIN book
        /\ forced' \in {forced, {}}
    BY DEF CancelAllClientOrders, CancelAllDone, bookVars, ledgerVars, planVars
  <1>2. TypeOK'
    BY <1>1 DEF IInv, TypeOK, Placing, Phases
  <1>3. ShowsTranche' /\ FreshID' /\ DoomedInBook'
    BY <1>1 DEF IInv, ShowsTranche, FreshID, DoomedInBook, Placing
  <1>4. ExecutionsNameMakers' /\ TakerClear'
    BY <1>1 DEF IInv, ExecutionsNameMakers, TakerClear
  <1>5. QueueByArrival' /\ Uncrossed' /\ OrderIDsMatchBook'
    BY <1>1 DEF IInv, QueueByArrival, Uncrossed, OrderIDsMatchBook
  <1> QED
    BY <1>2, <1>3, <1>4, <1>5 DEF IInv

-----------------------------------------------------------------------------
(* Placing an order.                                                       *)

\* The order PlaceOrder has funded is well typed, and locking its funds keeps
\* the reservations well typed.
LEMMA FundedOrderType ==
    ASSUME NEW c \in Clients, NEW r \in Requests, NEW execs,
           r.vis = "Iceberg" => r.icebergQty > 0,
           CanFund(NewOrder(c, r), execs)
    PROVE  LET o == FundedOrder(NewOrder(c, r), execs)
           IN  o \in OrderRecord /\ o.filled <= o.qty /\ TrancheOK(o) /\ o.display = 0
  <1> DEFINE n == NewOrder(c, r)
             fees == ForeignFeeReservations(n, execs)
             trade == TradeReservation(n)
             o == FundedOrder(n, execs)
  <1>1. r \in RequestSet
    BY SpotVenueAssumption
  <1>2. r.qty \in Nat \ {0} /\ r.qty \in Quantities /\ r.price \in Prices
    <2>1. r.qty \in Nat \ {0}
      BY <1>1 DEF RequestSet
    <2>2. r.qty \in 1..r.qty
      BY <2>1
    <2> QED
      BY <2>1, <2>2 DEF Quantities, Prices
  <1>3. /\ n \in OrderRecord /\ n.filled = 0 /\ n.qty = r.qty /\ n.display = 0
        /\ n.vis = r.vis /\ n.icebergQty = r.icebergQty
    BY <1>1, <1>2 DEF NewOrder, OrderRecord, RequestSet, NoFees
  <1>4. MaxInt \in Nat
    BY SpotVenueAssumption
  <1>5. fees \in [Assets -> 0..MaxInt]
    BY DEF CanFund
  <1>6. fees \in [Assets -> Nat]
    BY <1>4, <1>5
  <1>7. trade \in Nat
    <2>1. CASE n.type = "Market"
      BY <2>1 DEF TradeReservation
    <2>2. CASE n.type # "Market"
      BY <1>4, <2>2 DEF CanFund
    <2> QED
      BY <2>1, <2>2
  <1>8. o = [n EXCEPT !.reserved = trade, !.feeReserved = fees]
    BY DEF FundedOrder
  <1> HIDE DEF n, fees, trade
  <1>9. /\ o \in OrderRecord /\ o.filled = 0 /\ o.qty = r.qty /\ o.display = 0
        /\ o.vis = r.vis /\ o.icebergQty = r.icebergQty
    BY Zenon, <1>3, <1>6, <1>7, <1>8 DEF OrderRecord
  <1> HIDE DEF o
  <1>10. o.filled <= o.qty /\ TrancheOK(o)
    BY <1>2, <1>9 DEF TrancheOK
  <1> QED
    BY <1>9, <1>10 DEF o, n

\* The first part of PlaceOrder (validate, preview, reserve, plan) keeps the
\* invariant.
LEMMA PlaceOrderInv ==
    ASSUME IInv, NEW c \in Clients, NEW r \in Requests, PlaceOrder(c, r)
    PROVE  IInv'
  <1> DEFINE execs == PreviewMatch(book, NewOrder(c, r)).execs
             o == FundedOrder(NewOrder(c, r), execs)
  <1>1. /\ phase = "idle" /\ phase' \in {"evict", "panic"}
        /\ taker' = o
        /\ reserved' = LockFunds(reserved, o)
        /\ doomed' \subseteq DOMAIN book
        /\ r.vis = "Iceberg" => r.icebergQty > 0
        /\ CanFund(NewOrder(c, r), execs)
    BY DEF PlaceOrder, ValidatePlaceOrder
  <1>2. UNCHANGED <<nextOrderID, balance, feeRevenue, forced, nextLink, book, orderIDs,
                    executions, settled>>
    BY DEF PlaceOrder, bookVars, planVars
  <1> HIDE DEF execs
  <1>3. o \in OrderRecord /\ o.filled <= o.qty /\ TrancheOK(o) /\ o.display = 0
    BY <1>1, FundedOrderType
  <1> HIDE DEF o
  <1>4. reserved' \in Reservations
    BY Zenon, <1>1, <1>3, LockFundsType DEF IInv, TypeOK, Reservations
  <1>5. TypeOK'
    BY SMTT(90), <1>1, <1>2, <1>3, <1>4 DEF IInv, TypeOK, Placing, Phases, Reservations
  <1>6. ShowsTranche' /\ FreshID' /\ DoomedInBook'
    BY <1>1, <1>2, <1>3 DEF IInv, ShowsTranche, FreshID, DoomedInBook, Placing
  <1>7. ExecutionsNameMakers' /\ TakerClear'
    BY <1>1, <1>2 DEF IInv, ExecutionsNameMakers, TakerClear
  <1>8. QueueByArrival' /\ Uncrossed' /\ OrderIDsMatchBook'
    BY <1>2 DEF IInv, QueueByArrival, Uncrossed, OrderIDsMatchBook
  <1> QED
    BY <1>5, <1>6, <1>7, <1>8 DEF IInv

\* Planning on the live book and committing the order ID keeps the invariant.
LEMMA StartMatchInv ==
    ASSUME IInv, StartMatch
    PROVE  IInv'
  <1>1. /\ phase = "evict" /\ doomed = {} /\ phase' \in {"match", "panic"}
        /\ nextOrderID' = nextOrderID + 1
        /\ UNCHANGED <<taker, doomed, executions, settled, forced, nextLink, book, orderIDs,
                       balance, reserved, feeRevenue>>
    BY DEF StartMatch, bookVars, ledgerVars
  <1>2. nextOrderID \in Nat /\ DOMAIN book \subseteq Nat
    BY DEF IInv, TypeOK, OrderIds
  <1>3. TypeOK'
    BY <1>1, <1>2 DEF IInv, TypeOK, Placing, Phases
  <1>4. FreshID'
    BY <1>1, <1>2 DEF IInv, FreshID
  <1>5. ShowsTranche' /\ DoomedInBook'
    BY <1>1 DEF IInv, ShowsTranche, DoomedInBook, Placing
  <1>6. ExecutionsNameMakers' /\ TakerClear'
    BY <1>1 DEF IInv, ExecutionsNameMakers, TakerClear
  <1>7. QueueByArrival' /\ Uncrossed' /\ OrderIDsMatchBook'
    BY <1>1 DEF IInv, QueueByArrival, Uncrossed, OrderIDsMatchBook
  <1> QED
    BY <1>3, <1>4, <1>5, <1>6, <1>7 DEF IInv

\* One execution of the live match: the maker, the quantity and what it leaves.
LEMMA MatchStepEffect ==
    ASSUME IInv, MatchStep
    PROVE  \E i \in NextMakers(book, taker) :
             LET m == book[i]
                 q == ExecutedQty(taker, m)
             IN  /\ i \in DOMAIN book /\ Linked(m) /\ m.client # taker.client
                 /\ taker \in OrderRecord /\ m \in OrderRecord /\ taker.filled < taker.qty
                 /\ TrancheOK(m) /\ (m.vis = "Iceberg" => m.display > 0)
                 /\ book' = [book EXCEPT ![i] = ExecutedMaker(m, q, nextLink)]
                 /\ taker' = [taker EXCEPT !.filled = taker.filled + q]
                 /\ executions' = Append(executions,
                        [maker |-> i, client |-> m.client, price |-> m.price, qty |-> q,
                         takerFilled |-> taker.filled + q,
                         makerFilled |-> ExecutedMaker(m, q, nextLink).filled,
                         makerQty |-> m.qty])
                 /\ nextLink' = IF Refreshes(m, q) THEN nextLink + 1 ELSE nextLink
  <1>1. phase = "match" /\ Remaining(taker) # 0
    BY DEF MatchStep, MatchDone, MatchState
  <1>2. PICK i \in NextMakers(book, taker) :
            LET s == MatchWith(MatchState, i)
            IN  book' = s.book /\ taker' = s.order /\ executions' = s.execs /\ nextLink' = s.link
    BY DEF MatchStep
  <1>3. i \in DOMAIN book /\ Linked(book[i]) /\ book[i].client # taker.client
    BY DEF NextMakers, Matchable
  <1>4. taker \in OrderRecord /\ taker.filled <= taker.qty /\ book[i] \in OrderRecord
    BY <1>1, <1>3 DEF IInv, TypeOK, Placing
  <1>5. taker.filled < taker.qty
    <2>1. taker.qty \in Nat /\ taker.filled \in Nat
      BY Zenon, <1>4, Menu DEF OrderRecord
    <2> QED
      BY <1>1, <1>4, <2>1 DEF Remaining
  <1>6. TrancheOK(book[i]) /\ (book[i].vis = "Iceberg" => book[i].display > 0)
    BY <1>3 DEF IInv, ShowsTranche
  <1>7. LET m == book[i]
            q == ExecutedQty(taker, m)
        IN  /\ book' = [book EXCEPT ![i] = ExecutedMaker(m, q, nextLink)]
            /\ taker' = [taker EXCEPT !.filled = taker.filled + q]
            /\ executions' = Append(executions,
                   [maker |-> i, client |-> m.client, price |-> m.price, qty |-> q,
                    takerFilled |-> taker.filled + q,
                    makerFilled |-> ExecutedMaker(m, q, nextLink).filled,
                    makerQty |-> m.qty])
            /\ nextLink' = IF Refreshes(m, q) THEN nextLink + 1 ELSE nextLink
    BY <1>2 DEF MatchWith, MatchState
  <1> QED
    BY Zenon, <1>2, <1>3, <1>4, <1>5, <1>6, <1>7

\* One execution of Match keeps the invariant.
LEMMA MatchStepInv ==
    ASSUME IInv, MatchStep
    PROVE  IInv'
  <1>1. PICK i \in NextMakers(book, taker) :
             LET m == book[i]
                 q == ExecutedQty(taker, m)
             IN  /\ i \in DOMAIN book /\ Linked(m) /\ m.client # taker.client
                 /\ taker \in OrderRecord /\ m \in OrderRecord /\ taker.filled < taker.qty
                 /\ TrancheOK(m) /\ (m.vis = "Iceberg" => m.display > 0)
                 /\ book' = [book EXCEPT ![i] = ExecutedMaker(m, q, nextLink)]
                 /\ taker' = [taker EXCEPT !.filled = taker.filled + q]
                 /\ executions' = Append(executions,
                        [maker |-> i, client |-> m.client, price |-> m.price, qty |-> q,
                         takerFilled |-> taker.filled + q,
                         makerFilled |-> ExecutedMaker(m, q, nextLink).filled,
                         makerQty |-> m.qty])
                 /\ nextLink' = IF Refreshes(m, q) THEN nextLink + 1 ELSE nextLink
    BY MatchStepEffect
  <1> DEFINE m == book[i]
             q == ExecutedQty(taker, m)
             after == ExecutedMaker(m, q, nextLink)
             x == [maker |-> i, client |-> m.client, price |-> m.price, qty |-> q,
                   takerFilled |-> taker.filled + q, makerFilled |-> after.filled,
                   makerQty |-> m.qty]
  <1>2. /\ phase = "match"
        /\ UNCHANGED <<phase, nextOrderID, orderIDs, doomed, settled, forced,
                       balance, reserved, feeRevenue>>
    BY DEF MatchStep, ledgerVars
  <1>3. nextLink \in Nat
    BY DEF IInv, TypeOK
  <1>4. /\ q \in Quantities
        /\ taker.filled + q <= taker.qty
        /\ after \in OrderRecord
        /\ after.filled = m.filled + q /\ after.filled <= after.qty
        /\ after.client = m.client /\ after.side = m.side /\ after.price = m.price
        /\ after.qty = m.qty /\ after.vis = m.vis /\ TrancheOK(after)
        /\ after.vis = "Iceberg" /\ Linked(after) => after.display > 0
        /\ after.prio = IF Refreshes(m, q) THEN nextLink ELSE m.prio
        /\ Refreshes(m, q) => m.vis = "Iceberg"
    BY <1>1, <1>3, ExecutedType
  <1>5. /\ i \in DOMAIN book /\ Linked(m) /\ m.client # taker.client
        /\ taker \in OrderRecord /\ m \in OrderRecord
        /\ book' = [book EXCEPT ![i] = after]
        /\ taker' = [taker EXCEPT !.filled = taker.filled + q]
        /\ executions' = Append(executions, x)
        /\ nextLink' = IF Refreshes(m, q) THEN nextLink + 1 ELSE nextLink
    BY <1>1
  <1>6. x \in Execution
    <2>1. i \in OrderIds
      BY <1>5 DEF IInv, TypeOK
    <2>2. /\ m.client \in Clients /\ m.price \in Prices /\ m.qty \in Nat
          /\ taker.filled \in Nat /\ after.filled \in Nat /\ q \in Nat
      BY <1>4, <1>5, Menu DEF OrderRecord
    <2>3. taker.filled + q \in Nat
      BY <2>2
    <2> HIDE DEF m, q, after
    <2> QED
      BY SMTT(60), <1>4, <2>1, <2>2, <2>3 DEF Execution
  <1> HIDE DEF q, after, x
  <1>7. DOMAIN book' = DOMAIN book /\ book'[i] = after
        /\ \A j \in DOMAIN book : j # i => book'[j] = book[j]
    BY <1>5
  <1>8. /\ taker' \in OrderRecord /\ taker'.filled <= taker'.qty
        /\ taker'.client = taker.client /\ taker'.icebergQty = taker.icebergQty
        /\ taker'.vis = taker.vis /\ taker'.display = taker.display
    <2>1. taker.filled + q \in Nat
      <3>1. taker.filled \in Nat
        BY <1>5 DEF OrderRecord
      <3>2. q \in Nat
        BY <1>4, Menu
      <3> QED
        BY <3>1, <3>2
    <2> QED
      BY Zenon, <1>4, <1>5, <2>1 DEF OrderRecord
  <1>9. executions \in Seq(Execution) /\ settled \in 0..Len(executions)
    BY DEF IInv, TypeOK
  <1>10. /\ executions' \in Seq(Execution)
         /\ Len(executions') = Len(executions) + 1
         /\ \A n \in 1..Len(executions) : executions'[n] = executions[n]
         /\ executions'[Len(executions) + 1] = x
    BY <1>5, <1>6, <1>9
  <1>11. settled' \in 0..Len(executions')
    BY <1>2, <1>9, <1>10
  <1>12. nextLink' \in Nat /\ nextLink' >= nextLink
    BY <1>3, <1>5
  <1>13. \A j \in DOMAIN book' : book'[j] \in OrderRecord /\ book'[j].filled <= book'[j].qty
    BY Zenon, <1>4, <1>7 DEF IInv, TypeOK
  <1>14. TypeOK'
    BY <1>2, <1>7, <1>8, <1>10, <1>11, <1>12, <1>13 DEF IInv, TypeOK, Placing
  <1>15. ShowsTranche'
    <2>1. \A j \in DOMAIN book' :
            TrancheOK(book'[j]) /\ (book'[j].vis = "Iceberg" /\ Linked(book'[j]) => book'[j].display > 0)
      BY <1>4, <1>7 DEF IInv, ShowsTranche
    <2>2. TrancheOK(taker') /\ taker'.display = 0
      BY <1>2, <1>8 DEF IInv, ShowsTranche, Placing, TrancheOK
    <2> QED
      BY <2>1, <2>2 DEF ShowsTranche
  <1>16. FreshID' /\ DoomedInBook'
    BY <1>2, <1>7 DEF IInv, FreshID, DoomedInBook
  <1>17. ExecutionsNameMakers'
    <2>1. ASSUME NEW n \in 1..Len(executions')
          PROVE  /\ executions'[n].client # taker'.client
                 /\ executions'[n].maker \in DOMAIN book' =>
                        book'[executions'[n].maker].client = executions'[n].client
      <3>1. CASE n \in 1..Len(executions)
        <4>1. executions'[n] = executions[n]
          BY SMTT(30), <1>10, <3>1
        <4>2. /\ executions[n].client # taker.client
              /\ executions[n].maker \in DOMAIN book =>
                     book[executions[n].maker].client = executions[n].client
          BY <1>2, <3>1 DEF IInv, ExecutionsNameMakers
        <4> QED
          BY SMTT(60), <1>4, <1>7, <1>8, <4>1, <4>2
      <3>2. CASE n = Len(executions) + 1
        <4>1. executions'[n] = x
          BY <1>10, <3>2
        <4>2. x.client = m.client /\ x.maker = i
          BY DEF x
        <4> QED
          BY <1>4, <1>5, <1>7, <1>8, <4>1, <4>2
      <3>3. Len(executions) \in Nat
        BY <1>9
      <3> QED
        BY SMTT(60), <1>10, <3>1, <3>2, <3>3
    <2> QED
      BY <1>2, <2>1 DEF ExecutionsNameMakers
  <1>18. TakerClear'
    BY <1>2 DEF TakerClear
  <1>19. QueueByArrival'
    <2>1. \A j \in DOMAIN book : book[j].prio \in Nat /\ book[j].prio < nextLink
      BY DEF IInv, TypeOK, QueueByArrival, OrderRecord
    <2>2. after.prio < nextLink' /\ after.prio \in Nat /\ after.prio >= m.prio
      BY <1>3, <1>4, <1>5, <2>1
    <2>3. \A j \in DOMAIN book' : book'[j].prio < nextLink'
      BY <1>3, <1>7, <1>12, <2>1, <2>2
    <2>4. ASSUME NEW j \in DOMAIN book', NEW k \in DOMAIN book', j < k, book'[j].vis = "Normal"
          PROVE  book'[j].prio < book'[k].prio
      <3>2. book[j].vis = "Normal" /\ book'[j].prio = book[j].prio
        BY <1>4, <1>7, <2>4
      <3>3. book[j].prio < book[k].prio
        BY <1>7, <2>4, <3>2 DEF IInv, QueueByArrival
      <3>4. book'[k].prio >= book[k].prio /\ book'[k].prio \in Nat
        BY <1>7, <2>1, <2>2
      <3> QED
        BY <1>7, <2>1, <3>2, <3>3, <3>4
    <2> QED
      BY <2>3, <2>4 DEF QueueByArrival
  <1>20. Uncrossed'
    <2>1. \A j \in DOMAIN book' : /\ Linked(book'[j]) => Linked(book[j])
                                  /\ book'[j].side = book[j].side /\ book'[j].price = book[j].price
      BY <1>4, <1>5, <1>7
    <2> QED
      BY <1>7, <2>1 DEF IInv, Uncrossed
  <1>21. OrderIDsMatchBook'
    <2>1. \A j \in DOMAIN book : book'[j].client = book[j].client
      BY <1>4, <1>7
    <2> QED
      BY <1>2, <1>7, <2>1 DEF IInv, OrderIDsMatchBook
  <1> QED
    BY <1>14, <1>15, <1>16, <1>17, <1>18, <1>19, <1>20, <1>21 DEF IInv

\* When Match returns nothing is left that the taker could trade with, and the
\* invariant is kept.
LEMMA EndMatchInv ==
    ASSUME IInv, EndMatch
    PROVE  IInv'
  <1>1. /\ phase = "match" /\ phase' \in {"settle", "panic"} /\ MatchDone(MatchState)
        /\ UNCHANGED <<nextOrderID, taker, doomed, forced, nextLink, book, orderIDs, balance,
                       reserved, feeRevenue, executions, settled>>
    BY DEF EndMatch, bookVars, ledgerVars, planVars
  <1>2. Remaining(taker) = 0 \/ Matchable(book, taker) = {}
    BY <1>1 DEF MatchDone, MatchState
  <1>3. TakerClear'
    <2>1. Remaining(taker) > 0 => Matchable(book, taker) = {}
      BY <1>2
    <2> QED
      BY <1>1, <2>1 DEF TakerClear
  <1>4. TypeOK'
    BY <1>1 DEF IInv, TypeOK, Placing, Phases
  <1>5. ShowsTranche' /\ FreshID' /\ DoomedInBook'
    BY <1>1 DEF IInv, ShowsTranche, FreshID, DoomedInBook, Placing
  <1>6. ExecutionsNameMakers'
    BY <1>1 DEF IInv, ExecutionsNameMakers
  <1>7. QueueByArrival' /\ Uncrossed' /\ OrderIDsMatchBook'
    BY <1>1 DEF IInv, QueueByArrival, Uncrossed, OrderIDsMatchBook
  <1> QED
    BY <1>3, <1>4, <1>5, <1>6, <1>7 DEF IInv
=============================================================================
