--------------------------- MODULE SpotVenueDepth ---------------------------
(***************************************************************************)
(* The public depth of SpotVenue: what a level shows and holds through     *)
(* every step, so that the published depth is the displayed one between    *)
(* handlers and no level's total overflows.                                *)
(***************************************************************************)
EXTENDS SpotVenueProofs

-----------------------------------------------------------------------------
(* The inductive invariant of the depth feed.                              *)

\* While a match is being made and settled, the makers of its executions that
\* are still in the book rest on the other side, at the execution's price.
ExecutionsPlaced ==
    phase \in {"match", "settle"} =>
        \A n \in 1..Len(executions) :
            LET x == executions[n]
            IN  x.maker \in DOMAIN book =>
                  /\ book[x.maker].side = OppositeSide(taker.side)
                  /\ book[x.maker].price = x.price

\* What was last published for a level is what it shows, except for the levels
\* the match under way has executed on, which EndSettle publishes.
DepthShown ==
    phase # "panic" =>
        \A side \in Sides, p \in Prices :
            \/ published[side][p] = VisibleQty(book, side, p)
            \/ /\ phase \in {"match", "settle"}
               /\ side = OppositeSide(taker.side)
               /\ \E n \in 1..Len(executions) : executions[n].price = p

\* Every level's total fits, and so does that of the level an order being placed
\* would join, with the whole of its remainder.
TotalsFit ==
    /\ \A side \in Sides, p \in Prices : TotalQty(book, side, p) <= MaxInt
    /\ Placing /\ Rests(taker) =>
         TotalQty(book, taker.side, taker.price) + Remaining(taker) <= MaxInt

Depths == [Sides -> [Prices -> Int]]

DepthInv ==
    /\ published \in Depths
    /\ ExecutionsPlaced
    /\ DepthShown
    /\ TotalsFit

-----------------------------------------------------------------------------
(* What a level shows and holds.                                           *)

\* An order of the venue that is not overfilled.
LEMMA OrderIsCounted ==
    ASSUME NEW o \in OrderRecord, o.filled <= o.qty
    PROVE  Counted(o)
  BY Menu DEF OrderRecord, Counted

\* The book of a state that satisfies the invariant is finite and well typed.
LEMMA BookIsSound == IInv => SoundBook(book)
  <1> SUFFICES ASSUME IInv PROVE SoundBook(book)
    OBVIOUS
  <1>1. DOMAIN book \in SUBSET Nat /\ nextOrderID \in Nat /\ \A id \in DOMAIN book : id <= nextOrderID
    BY DEF IInv, TypeOK, OrderIds, FreshID
  <1>2. IsFiniteSet(DOMAIN book)
    BY <1>1, BoundedIsFinite
  <1> QED
    BY <1>2, OrderIsCounted DEF SoundBook, IInv, TypeOK

\* ... and so is the book after a step that leads to such a state.
LEMMA NextBookIsSound == IInv' => SoundBook(book')
  <1>1. IInv' => SoundBook(book)'
    BY BookIsSound, PTL
  <1> QED
    BY <1>1 DEF SoundBook

\* publishBookUpdate keeps the feed well typed and shows the level as it is.
LEMMA PublishType ==
    ASSUME NEW pub \in Depths, NEW bk, SoundBook(bk), NEW s \in Sides, NEW q \in Prices
    PROVE  LET pub2 == PublishBookUpdate(pub, bk, s, q)
           IN  /\ pub2 \in Depths
               /\ \A side \in Sides, p \in Prices :
                    pub2[side][p] = IF side = s /\ p = q THEN VisibleQty(bk, s, q) ELSE pub[side][p]
  <1> DEFINE v == VisibleQty(bk, s, q)
             row == [pub[s] EXCEPT ![q] = v]
             pub2 == PublishBookUpdate(pub, bk, s, q)
  <1>1. v \in Int
    <2>1. v \in Nat
      BY LevelType
    <2> HIDE DEF v
    <2> QED
      BY <2>1
  <1> HIDE DEF v
  <1>2. pub2 = [pub EXCEPT ![s] = row]
    BY DEF PublishBookUpdate, v
  <1>3. row \in [Prices -> Int] /\ \A p \in Prices : row[p] = IF p = q THEN v ELSE pub[s][p]
    BY <1>1 DEF Depths
  <1> HIDE DEF row
  <1>4. pub2 \in Depths /\ pub2[s] = row /\ \A side \in Sides : side # s => pub2[side] = pub[side]
    BY <1>2, <1>3 DEF Depths
  <1> QED
    BY <1>3, <1>4 DEF v

\* Every level is published as it is after the step, or it is not published and
\* shows what it did.
FeedFollows ==
    /\ published' \in Depths
    /\ \A side \in Sides, p \in Prices :
         \/ published'[side][p] = VisibleQty(book', side, p)
         \/ /\ published'[side][p] = published[side][p]
            /\ VisibleQty(book', side, p) = VisibleQty(book, side, p)

\* o is where the order oid of a book is or was.
Stands(o, oid) == oid.side = o.side /\ oid.price = o.price /\ oid.vis = o.vis

\* The feed follows an order that joins or leaves the book and whose level is
\* published unless it is hidden.
LEMMA PublishOne ==
    ASSUME IInv, IInv', DepthInv, NEW id, NEW o \in OrderRecord,
           \/ Without(book, book', id) /\ Stands(o, book[id])
           \/ Without(book', book, id) /\ Stands(o, book'[id]),
           published' = PublishUnlessHidden(published, book', o)
    PROVE  FeedFollows
  <1>1. SoundBook(book) /\ SoundBook(book') /\ published \in Depths
    BY BookIsSound, NextBookIsSound DEF DepthInv
  <1>2. o.side \in Sides /\ o.price \in Prices
    BY DEF OrderRecord
  <1>3. ASSUME NEW side \in Sides, NEW p \in Prices, o.vis = "Hidden" \/ side # o.side \/ p # o.price
        PROVE  VisibleQty(book', side, p) = VisibleQty(book, side, p)
    BY <1>1, <1>3, ShownElsewhere DEF Stands
  <1>4. CASE o.vis = "Hidden"
    <2>1. published' = published
      BY <1>4 DEF PublishUnlessHidden
    <2> QED
      BY <1>1, <1>3, <1>4, <2>1 DEF FeedFollows
  <1>5. CASE o.vis # "Hidden"
    <2>1. published' = PublishBookUpdate(published, book', o.side, o.price)
      BY <1>5 DEF PublishUnlessHidden
    <2>2. /\ published' \in Depths
          /\ \A side \in Sides, p \in Prices :
               published'[side][p] = IF side = o.side /\ p = o.price
                                     THEN VisibleQty(book', o.side, o.price)
                                     ELSE published[side][p]
      BY <1>1, <1>2, <2>1, PublishType
    <2> QED
      BY <1>3, <2>2 DEF FeedFollows
  <1> QED
    BY <1>4, <1>5

-----------------------------------------------------------------------------
(* Totals fit.                                                             *)

\* The order being placed is on a side, at a price of the menu.
LEMMA TakerPlace ==
    ASSUME IInv, Placing
    PROVE  /\ taker \in OrderRecord /\ taker.side \in Sides /\ taker.price \in Prices
           /\ Remaining(taker) \in Nat
  <1>1. taker \in OrderRecord /\ taker.filled <= taker.qty
    BY DEF IInv, TypeOK
  <1>2. taker.side \in Sides /\ taker.price \in Prices
    BY <1>1 DEF OrderRecord
  <1> QED
    BY <1>1, <1>2, OrderIsCounted, ShownType

\* A step on which orders only leave the book or are filled, and the order being
\* placed keeps its place and is only filled, keeps every total in range.
LEMMA TotalsStay ==
    ASSUME IInv, IInv', TotalsFit,
           DOMAIN book' \subseteq DOMAIN book,
           \A i \in DOMAIN book' :
              /\ book'[i].side = book[i].side /\ book'[i].price = book[i].price
              /\ book'[i].qty = book[i].qty /\ book[i].filled <= book'[i].filled,
           Placing' => /\ Placing
                       /\ taker'.side = taker.side /\ taker'.price = taker.price
                       /\ taker'.type = taker.type /\ taker'.tif = taker.tif
                       /\ Remaining(taker') <= Remaining(taker)
    PROVE  TotalsFit'
  <1>1. SoundBook(book) /\ SoundBook(book')
    BY BookIsSound, NextBookIsSound
  <1>2. ASSUME NEW side \in Sides, NEW p \in Prices
        PROVE  /\ TotalQty(book', side, p) <= TotalQty(book, side, p)
               /\ TotalQty(book', side, p) \in Nat /\ TotalQty(book, side, p) \in Nat
    <2>1. TotalQty(book', side, p) <= TotalQty(book, side, p)
      BY <1>1, TotalShrinks
    <2>2. TotalQty(book', side, p) \in Nat
      BY <1>1, LevelType
    <2>3. TotalQty(book, side, p) \in Nat
      BY <1>1, LevelType
    <2> QED
      BY <2>1, <2>2, <2>3
  <1>3. MaxInt \in Nat
    BY SpotVenueAssumption
  <1>4. ASSUME NEW side \in Sides, NEW p \in Prices
        PROVE  TotalQty(book', side, p) <= MaxInt
    BY <1>2, <1>3, <1>4 DEF TotalsFit
  <1>5. ASSUME Placing', Rests(taker')
        PROVE  TotalQty(book', taker'.side, taker'.price) + Remaining(taker') <= MaxInt
    <2>1. Placing /\ Rests(taker) /\ taker'.side = taker.side /\ taker'.price = taker.price
          /\ Remaining(taker') <= Remaining(taker)
      BY <1>5 DEF Rests
    <2>2. taker.side \in Sides /\ taker.price \in Prices /\ Remaining(taker) \in Nat
      BY <2>1, TakerPlace
    <2>3. Remaining(taker') \in Nat
      <3>1. taker' \in OrderRecord /\ taker'.filled <= taker'.qty
        BY <1>5 DEF IInv, TypeOK
      <3> QED
        BY <3>1, OrderIsCounted, ShownType
    <2>4. TotalQty(book, taker.side, taker.price) + Remaining(taker) <= MaxInt
      BY <2>1 DEF TotalsFit
    <2> QED
      BY <1>2, <1>3, <2>1, <2>2, <2>3, <2>4
  <1> QED
    BY <1>4, <1>5 DEF TotalsFit

\* A limit order whose own level is not empty can trade with nobody: the book
\* does not cross.
LEMMA JoinsQuietly ==
    ASSUME IInv, NEW o, o.side \in Sides, o.type = "Limit", o.price \in Prices,
           LevelOf(book, o.side, o.price) # {}
    PROVE  Matchable(book, o) = {}
  <1> SUFFICES ASSUME NEW j \in Matchable(book, o) PROVE FALSE
    OBVIOUS
  <1>1. PICK i \in LevelOf(book, o.side, o.price) : TRUE
    OBVIOUS
  <1>2. i \in DOMAIN book /\ book[i].side = o.side /\ book[i].price = o.price /\ Linked(book[i])
    BY <1>1 DEF LevelOf
  <1>3. /\ j \in DOMAIN book /\ Linked(book[j]) /\ book[j].side = OppositeSide(o.side)
        /\ AsGoodAs(o.side, o.price, book[j].price)
    BY DEF Matchable, CanMatch
  <1>4. CASE o.side = "Buy"
    <2>1. Crosses(book[i].price, book[j].price)
      BY <1>2, <1>3, <1>4 DEF AsGoodAs, Crosses
    <2> QED
      BY <1>2, <1>3, <1>4, <2>1 DEF IInv, Uncrossed, OppositeSide
  <1>5. CASE o.side = "Sell"
    <2>1. book[j].price \in Nat /\ o.price \in Nat
      BY <1>3, Menu DEF IInv, TypeOK, OrderRecord
    <2>2. Crosses(book[j].price, book[i].price)
      BY <1>2, <1>3, <1>5, <2>1 DEF AsGoodAs, Crosses
    <2> QED
      BY <1>2, <1>3, <1>5, <2>2 DEF IInv, Uncrossed, OppositeSide
  <1> QED
    BY <1>4, <1>5 DEF Sides

\* restingLevelAggregateViolation refuses every order whose remainder would not
\* fit on its level.
LEMMA ValidatedFits ==
    ASSUME IInv, NEW c \in Clients, NEW r \in Requests, ValidatePlaceOrder(c, r),
           Rests(NewOrder(c, r))
    PROVE  TotalQty(book, r.side, r.price) + r.qty <= MaxInt
  <1> DEFINE n == NewOrder(c, r)
  <1>1. r.qty \in Nat \ {0} /\ r.qty <= MaxInt /\ r.side \in Sides /\ r.price \in Prices
    BY SpotVenueAssumption DEF RequestSet, Prices
  <1>2. /\ n.side = r.side /\ n.price = r.price /\ n.qty = r.qty /\ n.type = "Limit"
        /\ Remaining(n) = r.qty
    <2>1. n.side = r.side /\ n.price = r.price /\ n.qty = r.qty /\ n.filled = 0
      BY DEF NewOrder
    <2>2. n.type = "Limit"
      BY DEF Rests
    <2> HIDE DEF n
    <2> QED
      BY <1>1, <2>1, <2>2 DEF Remaining
  <1>3. ~RestingLevelAggregateViolation(n)
    BY DEF ValidatePlaceOrder
  <1>4. Rests(n)
    OBVIOUS
  <1> HIDE DEF n
  <1>5. CASE LevelOf(book, r.side, r.price) = {}
    <2>1. TotalQty(book, r.side, r.price) = 0
      BY <1>5, SumEmpty DEF TotalQty, SumFunction
    <2> QED
      BY <1>1, <2>1
  <1>6. CASE LevelOf(book, r.side, r.price) # {}
    <2>1. Matchable(book, n) = {}
      BY <1>1, <1>2, <1>6, JoinsQuietly
    <2>2. PreviewMatch(book, n).order = n
      BY <1>1, <1>2, <2>1, NothingToMatch DEF PreviewMatch
    <2>3. ~ (r.qty > 0 /\ TotalQty(book, r.side, r.price) + r.qty > MaxInt)
      BY <1>2, <1>3, <1>4, <1>6, <2>2 DEF RestingLevelAggregateViolation
    <2>4. TotalQty(book, r.side, r.price) \in Nat
      BY BookIsSound, LevelType
    <2>5. MaxInt \in Nat
      BY SpotVenueAssumption
    <2> QED
      BY <1>1, <2>3, <2>4, <2>5
  <1> QED
    BY <1>5, <1>6

-----------------------------------------------------------------------------
(* Every step keeps the invariant of the depth feed.                       *)

\* PlaceOrder's admission changes neither the book nor the feed.
LEMMA PlaceOrderDepth ==
    ASSUME IInv, DepthInv, NEW c \in Clients, NEW r \in Requests, PlaceOrder(c, r)
    PROVE  DepthInv'
  <1> DEFINE n == NewOrder(c, r)
             execs == PreviewMatch(book, n).execs
             o == FundedOrder(n, execs)
  <1>1. /\ phase = "idle" /\ phase' \in {"evict", "panic"} /\ taker' = o
        /\ ValidatePlaceOrder(c, r)
    BY DEF PlaceOrder
  <1>2. UNCHANGED <<book, published>>
    BY DEF PlaceOrder, bookVars
  <1>3. published' \in Depths
    BY <1>2 DEF DepthInv
  <1>4. ExecutionsPlaced'
    BY <1>1 DEF ExecutionsPlaced
  <1>5. DepthShown'
    BY <1>1, <1>2 DEF DepthInv, DepthShown
  <1>6. ASSUME Rests(taker')
        PROVE  TotalQty(book', taker'.side, taker'.price) + Remaining(taker') <= MaxInt
    <2>1. /\ o.side = r.side /\ o.price = r.price /\ o.qty = r.qty /\ o.filled = 0
          /\ o.type = r.type /\ o.tif = r.tif /\ n.type = r.type /\ n.tif = r.tif
      <3>1. /\ n.side = r.side /\ n.price = r.price /\ n.qty = r.qty /\ n.filled = 0
            /\ n.type = r.type /\ n.tif = r.tif
        BY DEF NewOrder
      <3>2. /\ o.side = n.side /\ o.price = n.price /\ o.qty = n.qty /\ o.filled = n.filled
            /\ o.type = n.type /\ o.tif = n.tif
        <4>1. DOMAIN n = {"client", "side", "type", "tif", "price", "qty", "filled", "vis", "icebergQty",
                          "display", "prio", "reserved", "feeReserved", "cancelled"}
          BY DEF NewOrder
        <4> HIDE DEF n
        <4> QED
          BY <4>1 DEF FundedOrder
      <3> QED
        BY <3>1, <3>2
    <2> HIDE DEF o, n
    <2>2. Rests(n)
      BY <1>1, <1>6, <2>1 DEF Rests
    <2>3. TotalQty(book, r.side, r.price) + r.qty <= MaxInt
      BY <1>1, <2>2, ValidatedFits DEF n
    <2>4. r.qty \in Nat
      BY SpotVenueAssumption DEF RequestSet
    <2>5. Remaining(o) = r.qty
      BY <2>1, <2>4 DEF Remaining
    <2> QED
      BY <1>1, <1>2, <2>1, <2>3, <2>5
  <1>7. TotalsFit'
    <2>1. \A side \in Sides, p \in Prices : TotalQty(book', side, p) <= MaxInt
      BY <1>2 DEF DepthInv, TotalsFit
    <2> HIDE DEF o
    <2> QED
      BY <1>6, <2>1 DEF TotalsFit
  <1> QED
    BY <1>3, <1>4, <1>5, <1>7 DEF DepthInv

\* Steps that change neither the book nor the feed: those that start and end a
\* mass cancel, commit the order ID, end a match, and release or reject the order.
LEMMA QuietDepth ==
    ASSUME IInv, DepthInv,
           \/ \E c \in Clients : CancelAllClientOrders(c)
           \/ CancelAllDone \/ StartMatch \/ EndMatch \/ ReleaseOrder \/ RejectUnpriced
    PROVE  DepthInv'
  <1>1. UNCHANGED <<book, published>>
    BY Zenon DEF CancelAllClientOrders, CancelAllDone, StartMatch, EndMatch, ReleaseOrder, RejectUnpriced, bookVars
  <1>2. /\ phase # "panic"
        /\ \/ phase \notin {"match", "settle"} /\ phase' \notin {"match", "settle"}
           \/ phase = "evict" /\ phase' = "match" /\ executions' = executions
           \/ /\ phase = "match" /\ phase' \in {"settle", "panic"}
              /\ executions' = executions /\ taker' = taker
        /\ Placing' => Placing /\ taker' = taker
    <2>1. CASE \E c \in Clients : CancelAllClientOrders(c)
      BY Zenon, <2>1 DEF CancelAllClientOrders, Placing
    <2>2. CASE CancelAllDone
      BY Zenon, <2>2 DEF CancelAllDone, Placing
    <2>3. CASE StartMatch
      <3>1. phase = "evict" /\ phase' \in {"match", "panic"} /\ executions' = executions /\ taker' = taker
        BY Zenon, <2>3 DEF StartMatch
      <3> QED
        BY <3>1 DEF Placing
    <2>4. CASE EndMatch
      <3>1. phase = "match" /\ phase' \in {"settle", "panic"} /\ executions' = executions /\ taker' = taker
        BY Zenon, <2>4 DEF EndMatch, planVars
      <3> QED
        BY <3>1 DEF Placing
    <2>5. CASE ReleaseOrder
      BY <2>5 DEF ReleaseOrder, EndHandler, Placing
    <2>6. CASE RejectUnpriced
      BY <2>6 DEF RejectUnpriced, EndHandler, Placing
    <2> QED
      BY <2>1, <2>2, <2>3, <2>4, <2>5, <2>6
  <1>3. published' \in Depths
    BY <1>1 DEF DepthInv
  <1>4. ExecutionsPlaced'
    <2>1. CASE phase = "evict" /\ phase' = "match" /\ executions' = executions
      <3>1. executions' = <<>>
        BY <2>1 DEF IInv, ExecutionsNameMakers
      <3>2. 1..Len(executions') = {}
        BY <3>1
      <3> QED
        BY <3>2 DEF ExecutionsPlaced
    <2>2. CASE phase = "match" /\ executions' = executions /\ taker' = taker
      BY <1>1, <2>2 DEF DepthInv, ExecutionsPlaced
    <2>3. CASE phase' \notin {"match", "settle"}
      BY <2>3 DEF ExecutionsPlaced
    <2> QED
      BY <1>2, <2>1, <2>2, <2>3
  <1>5. DepthShown'
    BY <1>1, <1>2 DEF DepthInv, DepthShown
  <1>6. TotalsFit'
    BY <1>1, <1>2 DEF DepthInv, TotalsFit
  <1> QED
    BY <1>3, <1>4, <1>5, <1>6 DEF DepthInv

\* A cancelled order leaves its level published, or was hidden and never showed.
LEMMA DropOrderDepth ==
    ASSUME IInv, IInv', DepthInv,
           \/ ForceCancelOne
           \/ \E c \in Clients, id \in 1..nextOrderID : CancelOrder(c, id)
    PROVE  DepthInv'
  <1>1. PICK id \in DOMAIN book : DropOrder(id)
    <2>1. CASE ForceCancelOne
      BY <2>1 DEF ForceCancelOne, IInv, DoomedInBook
    <2>2. CASE \E c \in Clients, id \in 1..nextOrderID : CancelOrder(c, id)
      BY <2>2 DEF CancelOrder
    <2> QED
      BY <2>1, <2>2
  <1>2. UNCHANGED <<phase, taker>> /\ phase \in {"idle", "evict", "rest", "cancelAll"}
    BY DEF ForceCancelOne, CancelOrder
  <1>3. /\ DOMAIN book' = DOMAIN book \ {id}
        /\ \A i \in DOMAIN book' : book'[i] = book[i]
    BY <1>1, DropOrderEffect
  <1>4. Without(book, book', id)
    BY <1>3 DEF Without, Alike
  <1>5. book[id] \in OrderRecord /\ Stands(book[id], book[id])
    BY DEF IInv, TypeOK, Stands
  <1>6. published' = PublishUnlessHidden(published, book', book[id])
    BY <1>1 DEF DropOrder
  <1>8. FeedFollows
    BY <1>4, <1>5, <1>6, PublishOne
  <1>9. ExecutionsPlaced'
    BY <1>2 DEF ExecutionsPlaced
  <1>10. published' \in Depths /\ DepthShown'
    BY <1>2, <1>8 DEF DepthInv, DepthShown, FeedFollows
  <1>11. TotalsFit'
    <2>1. \A i \in DOMAIN book' : book'[i].filled \in Nat
      BY DEF IInv, TypeOK, OrderRecord
    <2>2. Placing' => Placing /\ Remaining(taker') <= Remaining(taker)
      <3>1. Placing' => Placing
        BY <1>2 DEF Placing
      <3>2. Placing => Remaining(taker) \in Nat
        BY TakerPlace
      <3> QED
        BY <1>2, <3>1, <3>2
    <2> QED
      BY <1>2, <1>3, <2>1, <2>2, TotalsStay DEF DepthInv
  <1> QED
    BY <1>9, <1>10, <1>11 DEF DepthInv

\* An execution changes only the level of its maker, which EndSettle will publish.
LEMMA MatchStepDepth ==
    ASSUME IInv, IInv', DepthInv, MatchStep
    PROVE  DepthInv'
  <1>1. PICK i \in NextMakers(book, taker) :
             LET m == book[i]
                 q == ExecutedQty(taker, m)
             IN  /\ i \in DOMAIN book /\ Linked(m) /\ m.client # taker.client
                 /\ taker \in OrderRecord /\ m \in OrderRecord /\ taker.filled < taker.qty
                 /\ TrancheOK(m) /\ (m.vis = "Iceberg" => m.display > 0)
                 /\ book' = [book EXCEPT ![i] = ExecutedMaker(m, q, nextLink)]
                 /\ taker' = [taker EXCEPT !.filled = taker.filled + q]
                 /\ executions' = Append(executions,
                        [maker |-> i, client |-> m.client, price |-> m.price, qty |-> q,
                         takerFilled |-> taker.filled + q,
                         makerFilled |-> ExecutedMaker(m, q, nextLink).filled,
                         makerQty |-> m.qty])
    BY MatchStepEffect
  <1> DEFINE m == book[i]
             q == ExecutedQty(taker, m)
             after == ExecutedMaker(m, q, nextLink)
             x == [maker |-> i, client |-> m.client, price |-> m.price, qty |-> q,
                   takerFilled |-> taker.filled + q, makerFilled |-> after.filled,
                   makerQty |-> m.qty]
  <1>2. phase = "match" /\ phase' = "match" /\ published' = published
    BY DEF MatchStep
  <1>3. nextLink \in Nat
    BY DEF IInv, TypeOK
  <1>4. /\ q \in Quantities /\ after.filled = m.filled + q
        /\ after.side = m.side /\ after.price = m.price /\ after.qty = m.qty
    BY <1>1, <1>3, ExecutedType
  <1>5. /\ i \in DOMAIN book /\ m \in OrderRecord /\ taker \in OrderRecord
        /\ book' = [book EXCEPT ![i] = after]
        /\ taker' = [taker EXCEPT !.filled = taker.filled + q]
        /\ executions' = Append(executions, x)
    BY <1>1
  <1>6. m.side = OppositeSide(taker.side)
    BY DEF NextMakers, Matchable
  <1>7. x.maker = i /\ x.price = m.price
    OBVIOUS
  <1> HIDE DEF q, after, x
  <1>8. DOMAIN book' = DOMAIN book /\ book'[i] = after
        /\ \A j \in DOMAIN book : j # i => book'[j] = book[j]
    BY <1>5
  <1>9. /\ taker'.filled = taker.filled + q
        /\ taker'.side = taker.side /\ taker'.price = taker.price /\ taker'.qty = taker.qty
        /\ taker'.type = taker.type /\ taker'.tif = taker.tif
    BY <1>5 DEF OrderRecord
  <1>10. /\ Len(executions') = Len(executions) + 1 /\ Len(executions) \in Nat
         /\ \A n \in 1..Len(executions) : executions'[n] = executions[n]
         /\ executions'[Len(executions) + 1] = x
    <2>1. executions \in Seq(Execution)
      BY DEF IInv, TypeOK
    <2> QED
      BY <1>5, <2>1
  <1>11. q \in Nat /\ m.filled \in Nat /\ taker.filled \in Nat /\ taker.qty \in Nat
    BY <1>4, <1>5, Menu DEF OrderRecord
  <1>12. ExecutionsPlaced'
    <2>1. ASSUME NEW n \in 1..Len(executions'), executions'[n].maker \in DOMAIN book'
          PROVE  /\ book'[executions'[n].maker].side = OppositeSide(taker'.side)
                 /\ book'[executions'[n].maker].price = executions'[n].price
      <3>1. CASE n \in 1..Len(executions)
        <4>1. executions'[n] = executions[n] /\ executions[n].maker \in DOMAIN book
          BY <1>8, <1>10, <2>1, <3>1
        <4>2. /\ book[executions[n].maker].side = OppositeSide(taker.side)
              /\ book[executions[n].maker].price = executions[n].price
          BY <1>2, <3>1, <4>1 DEF DepthInv, ExecutionsPlaced
        <4> QED
          BY <1>4, <1>8, <1>9, <4>1, <4>2
      <3>2. CASE n = Len(executions) + 1
        BY <1>4, <1>6, <1>7, <1>8, <1>9, <1>10, <3>2
      <3> QED
        BY <1>10, <3>1, <3>2
    <2> QED
      BY <2>1 DEF ExecutionsPlaced
  <1>13. ASSUME NEW side \in Sides, NEW p \in Prices
         PROVE  \/ published'[side][p] = VisibleQty(book', side, p)
                \/ /\ side = OppositeSide(taker'.side)
                   /\ \E n \in 1..Len(executions') : executions'[n].price = p
    <2>1. CASE side = m.side /\ p = m.price
      <3>1. Len(executions) + 1 \in 1..Len(executions')
        BY <1>10
      <3> QED
        BY <1>6, <1>7, <1>9, <1>10, <2>1, <3>1
    <2>2. CASE ~(side = m.side /\ p = m.price)
      <3>4. VisibleQty(book', side, p) = VisibleQty(book, side, p)
        <4>1. \A j \in DOMAIN book' : \/ Alike(book[j], book'[j])
                                     \/ /\ ~(book[j].side = side /\ book[j].price = p)
                                        /\ ~(book'[j].side = side /\ book'[j].price = p)
          BY <1>4, <1>8, <2>2 DEF Alike
        <4> QED
          BY <1>8, <4>1, UntouchedLevel
      <3>5. \/ published[side][p] = VisibleQty(book, side, p)
            \/ /\ side = OppositeSide(taker.side)
               /\ \E n \in 1..Len(executions) : executions[n].price = p
        BY <1>2 DEF DepthInv, DepthShown
      <3>6. \A n \in 1..Len(executions) : n \in 1..Len(executions')
        BY <1>10
      <3> QED
        BY <1>2, <1>9, <1>10, <3>4, <3>5, <3>6
    <2> QED
      BY <2>1, <2>2
  <1>14. DepthShown'
    BY <1>2, <1>13 DEF DepthShown
  <1>15. TotalsFit'
    <2>1. \A j \in DOMAIN book : book[j].filled \in Nat
      BY DEF IInv, TypeOK, OrderRecord
    <2>2. \A j \in DOMAIN book' :
              /\ book'[j].side = book[j].side /\ book'[j].price = book[j].price
              /\ book'[j].qty = book[j].qty /\ book[j].filled <= book'[j].filled
      BY <1>4, <1>8, <1>11, <2>1, SMTT(40)
    <2>3. Remaining(taker') <= Remaining(taker)
      BY <1>9, <1>11 DEF Remaining
    <2>4. Placing
      BY <1>2 DEF Placing
    <2> QED
      BY <1>8, <1>9, <2>2, <2>3, <2>4, TotalsStay DEF DepthInv
  <1> QED
    BY <1>2, <1>12, <1>14, <1>15 DEF DepthInv

\* Settling changes no level, unless it drops a maker, whose level is published.
LEMMA SettleStepDepth ==
    ASSUME IInv, IInv', DepthInv, SettleStep
    PROVE  DepthInv'
  <1> DEFINE x == executions[settled + 1]
  <1>1. phase = "settle" /\ phase' = "settle" /\ executions' = executions
    BY Zenon DEF SettleStep
  <1>2. /\ taker' \in OrderRecord /\ SameOrder(taker, taker')
        /\ DOMAIN book' \subseteq DOMAIN book
        /\ \A id \in DOMAIN book' : SameOrder(book[id], book'[id])
        /\ \/ DOMAIN book' = DOMAIN book /\ published' = published
           \/ /\ DOMAIN book' = DOMAIN book \ {x.maker}
              /\ x.maker \in DOMAIN book
              /\ \E o \in OrderRecord :
                   /\ SameOrder(book[x.maker], o)
                   /\ published' = PublishUnlessHidden(published, book', o)
    BY Zenon, SettleStepEffect
  <1> HIDE DEF x
  <1>4. /\ taker'.side = taker.side /\ taker'.price = taker.price
        /\ taker'.type = taker.type /\ taker'.tif = taker.tif
        /\ Remaining(taker') = Remaining(taker)
    BY <1>2 DEF SameOrder, Remaining
  <1>5. \A id \in DOMAIN book' :
          /\ Alike(book[id], book'[id])
          /\ book'[id].side = book[id].side /\ book'[id].price = book[id].price
          /\ book'[id].qty = book[id].qty /\ book'[id].filled = book[id].filled
    BY <1>2 DEF SameOrder, Alike
  <1>6. FeedFollows
    <2>1. CASE DOMAIN book' = DOMAIN book /\ published' = published
      <3>1. ASSUME NEW side \in Sides, NEW p \in Prices
            PROVE  VisibleQty(book', side, p) = VisibleQty(book, side, p)
        BY <1>2, <1>5, <2>1, UntouchedLevel
      <3> QED
        BY <2>1, <3>1 DEF DepthInv, FeedFollows
    <2>2. CASE /\ DOMAIN book' = DOMAIN book \ {x.maker}
               /\ x.maker \in DOMAIN book
               /\ \E o \in OrderRecord :
                    /\ SameOrder(book[x.maker], o)
                    /\ published' = PublishUnlessHidden(published, book', o)
      <3>1. PICK o \in OrderRecord :
              SameOrder(book[x.maker], o) /\ published' = PublishUnlessHidden(published, book', o)
        BY <2>2
      <3>2. Without(book, book', x.maker)
        BY <1>5, <2>2 DEF Without
      <3>3. Stands(o, book[x.maker])
        BY <3>1 DEF SameOrder, Stands
      <3> QED
        BY <3>1, <3>2, <3>3, PublishOne
    <2> QED
      BY <1>2, <2>1, <2>2
  <1>7. ExecutionsPlaced'
    BY <1>1, <1>2, <1>4, <1>5, SMTT(40) DEF DepthInv, ExecutionsPlaced
  <1>8. published' \in Depths /\ DepthShown'
    BY <1>1, <1>4, <1>6 DEF DepthInv, DepthShown, FeedFollows
  <1>9. TotalsFit'
    <2>1. \A j \in DOMAIN book : book[j].filled \in Nat
      BY DEF IInv, TypeOK, OrderRecord
    <2>2. Placing
      BY <1>1 DEF Placing
    <2>3. Remaining(taker) \in Nat
      BY <2>2, TakerPlace
    <2>4. \A j \in DOMAIN book' : book[j].filled <= book'[j].filled
      BY <1>2, <1>5, <2>1
    <2>5. Remaining(taker') <= Remaining(taker)
      BY <1>4, <2>3
    <2> QED
      BY <1>2, <1>4, <1>5, <2>2, <2>4, <2>5, TotalsStay DEF DepthInv
  <1> QED
    BY <1>7, <1>8, <1>9 DEF DepthInv

\* EndSettle: removeMakerOrders touches only levels that were executed on, and
\* publishLevels publishes all of those.
LEMMA EndSettleDepth ==
    ASSUME IInv, IInv', DepthInv, EndSettle
    PROVE  DepthInv'
  <1> DEFINE makers == {x.maker : x \in {y \in Executed : y.makerFilled >= y.makerQty}}
             opp == OppositeSide(taker.side)
             Hit(p) == \E n \in 1..Len(executions) : executions[n].price = p
  <1>1. /\ phase = "settle" /\ phase' = "rest" /\ executions' = executions /\ taker' = taker
        /\ book' = RemoveOrders(book, makers)
        /\ published' = [published EXCEPT ![opp] =
                           [p \in Prices |-> IF \E x \in Executed : x.price = p
                                             THEN VisibleQty(RemoveOrders(book, makers), opp, p)
                                             ELSE published[opp][p]]]
    BY DEF EndSettle, planVars
  <1>2. SoundBook(book) /\ SoundBook(book')
    BY BookIsSound, NextBookIsSound
  <1>3. \A p : (\E x \in Executed : x.price = p) <=> Hit(p)
    BY DEF Executed
  <1>4. \A i \in makers : i \in DOMAIN book => book[i].side = opp /\ Hit(book[i].price)
    <2> TAKE i \in makers
    <2>1. PICK n \in 1..Len(executions) : executions[n].maker = i
      BY DEF Executed
    <2> QED
      BY <1>1, <2>1 DEF DepthInv, ExecutionsPlaced
  <1>5. DOMAIN book' = DOMAIN book \ makers /\ \A i \in DOMAIN book' : book'[i] = book[i]
    BY <1>1 DEF RemoveOrders
  <1>6. opp \in Sides /\ published \in Depths
    BY DEF OppositeSide, Sides, DepthInv
  <1>7. /\ \A side \in Sides \ {opp} : published'[side] = published[side]
        /\ DOMAIN published' = Sides
        /\ published'[opp] = [p \in Prices |-> IF Hit(p) THEN VisibleQty(book', opp, p) ELSE published[opp][p]]
    <2>1. published'[opp] = [p \in Prices |-> IF \E x \in Executed : x.price = p
                                             THEN VisibleQty(RemoveOrders(book, makers), opp, p)
                                             ELSE published[opp][p]]
      BY <1>1, <1>6 DEF Depths
    <2>2. published'[opp] = [p \in Prices |-> IF Hit(p) THEN VisibleQty(book', opp, p)
                                               ELSE published[opp][p]]
      <3> HIDE DEF Hit, makers
      <3> QED
        BY <1>1, <1>3, <2>1
    <2>3. (\A side \in Sides \ {opp} : published'[side] = published[side]) /\ DOMAIN published' = Sides
      BY <1>1, <1>6 DEF Depths
    <2> QED
      BY <2>1, <2>2, <2>3
  <1> HIDE DEF makers, opp, Hit
  <1>8. ASSUME NEW side \in Sides, NEW p \in Prices, ~(side = opp /\ Hit(p))
        PROVE  VisibleQty(book', side, p) = VisibleQty(book, side, p)
    <2>1. \A i \in DOMAIN book' : Alike(book[i], book'[i])
      BY <1>5 DEF Alike
    <2>2. \A i \in DOMAIN book : book[i].side = side /\ book[i].price = p => i \in DOMAIN book'
      BY <1>4, <1>5, <1>8
    <2> QED
      BY <1>5, <2>1, <2>2, UntouchedLevel
  <1>9. ASSUME NEW side \in Sides, NEW p \in Prices
        PROVE  published'[side][p] = VisibleQty(book', side, p)
    <2>1. CASE side = opp /\ Hit(p)
      BY <1>7, <2>1
    <2>2. CASE ~(side = opp /\ Hit(p))
      <3>1. published[side][p] = VisibleQty(book, side, p)
        BY <1>1, <2>2 DEF DepthInv, DepthShown, opp, Hit
      <3>2. published'[side][p] = published[side][p]
        BY <1>7, <2>2
      <3> QED
        BY <1>8, <2>2, <3>1, <3>2
    <2> QED
      BY <2>1, <2>2
  <1>10. published' \in Depths
    <2>1. \A side \in Sides : published'[side] \in [Prices -> Int]
      <3> TAKE side \in Sides
      <3>1. published'[side] = [p \in Prices |-> published'[side][p]]
        BY <1>6, <1>7 DEF Depths
      <3>2. \A p \in Prices : published'[side][p] \in Int
        <4> TAKE p \in Prices
        <4>1. VisibleQty(book', side, p) \in Nat
          BY <1>2, LevelType
        <4> QED
          BY <1>9, <4>1
      <3> QED
        BY <3>1, <3>2
    <2>2. published' = [side \in Sides |-> published'[side]]
      BY <1>1, <1>6 DEF Depths
    <2> QED
      BY <2>1, <2>2 DEF Depths
  <1>11. ExecutionsPlaced' /\ DepthShown'
    BY <1>1, <1>9 DEF ExecutionsPlaced, DepthShown
  <1>12. TotalsFit'
    <2>1. \A j \in DOMAIN book : book[j].filled \in Nat
      BY DEF IInv, TypeOK, OrderRecord
    <2>2. Placing
      BY <1>1 DEF Placing
    <2>3. Remaining(taker) \in Nat
      BY <2>2, TakerPlace
    <2> QED
      BY <1>1, <1>5, <2>1, <2>2, <2>3, TotalsStay, SMTT(40) DEF DepthInv
  <1> QED
    BY <1>10, <1>11, <1>12 DEF DepthInv

\* RestOrder: the remainder joins its level, which is published unless the order
\* is hidden; the level's total was checked before the order was accepted.
LEMMA RestOrderDepth ==
    ASSUME IInv, IInv', DepthInv, RestOrder
    PROVE  DepthInv'
  <1> DEFINE id == nextOrderID
  <1>1. /\ phase = "rest" /\ phase' = "idle" /\ WillRest
        /\ book' = AddOrder(book, id, taker, nextLink)
        /\ published' = PublishUnlessHidden(published, book', taker)
    BY DEF RestOrder, EndHandler
  <1>2. SoundBook(book) /\ SoundBook(book')
    BY BookIsSound, NextBookIsSound
  <1>3. Placing /\ ~Placing'
    BY <1>1 DEF Placing
  <1>4. id \notin DOMAIN book
    <2>1. \A i \in DOMAIN book : i < nextOrderID
      BY <1>1 DEF IInv, FreshID
    <2>2. nextOrderID \in Nat
      BY DEF IInv, TypeOK
    <2> QED
      BY <2>1, <2>2
  <1>5. /\ taker \in OrderRecord /\ taker.side \in Sides /\ taker.price \in Prices
        /\ Remaining(taker) \in Nat
    BY <1>3, TakerPlace
  <1> DEFINE o == LinkOrder(taker, nextLink)
  <1>6. /\ o.side = taker.side /\ o.price = taker.price /\ o.vis = taker.vis
        /\ o.qty = taker.qty /\ o.filled = taker.filled
    BY <1>5 DEF LinkOrder, OrderRecord
  <1> HIDE DEF o
  <1>7. DOMAIN book' = DOMAIN book \cup {id} /\ book'[id] = o /\ \A i \in DOMAIN book : book'[i] = book[i]
    BY <1>1, <1>4 DEF AddOrder, o
  <1>8. Without(book', book, id)
    BY <1>4, <1>7 DEF Without, Alike
  <1>9. FeedFollows
    <2>1. Stands(taker, book'[id])
      BY <1>6, <1>7 DEF Stands
    <2> HIDE DEF id
    <2> QED
      BY <1>1, <1>5, <1>8, <2>1, PublishOne
  <1>10. published' \in Depths /\ ExecutionsPlaced' /\ DepthShown'
    BY <1>1, <1>9 DEF DepthInv, ExecutionsPlaced, DepthShown, FeedFollows
  <1>11. TotalsFit'
    <2>1. ASSUME NEW side \in Sides, NEW p \in Prices PROVE TotalQty(book', side, p) <= MaxInt
      <3>1. IF book'[id].side = side /\ book'[id].price = p /\ Linked(book'[id])
            THEN TotalQty(book', side, p) = Remaining(book'[id]) + TotalQty(book, side, p)
            ELSE TotalQty(book', side, p) = TotalQty(book, side, p)
        BY <1>2, <1>8, OneOrderLess
      <3>2. Remaining(book'[id]) = Remaining(taker)
        BY <1>6, <1>7 DEF Remaining
      <3>3. TotalQty(book, taker.side, taker.price) + Remaining(taker) <= MaxInt
        BY <1>1, <1>3 DEF DepthInv, TotalsFit, WillRest
      <3>4. TotalQty(book, side, p) <= MaxInt /\ TotalQty(book, side, p) \in Nat
        BY <1>2, LevelType DEF DepthInv, TotalsFit
      <3> HIDE DEF id
      <3> QED
        BY <1>5, <1>6, <1>7, <3>1, <3>2, <3>3, <3>4, SMTT(40)
    <2> QED
      BY <1>3, <2>1 DEF TotalsFit
  <1> QED
    BY <1>10, <1>11 DEF DepthInv

\* A step that changes nothing keeps the depth invariant.
LEMMA StutterDepth ==
    ASSUME DepthInv, UNCHANGED vars
    PROVE  DepthInv'
  <1>1. UNCHANGED <<phase, book, published, taker, executions>>
    BY DEF vars
  <1> QED
    BY <1>1 DEF DepthInv, ExecutionsPlaced, DepthShown, TotalsFit, Placing

\* Every step keeps the depth invariant.
LEMMA NextDepth == IInv /\ DepthInv /\ [Next]_vars => DepthInv'
  <1> SUFFICES ASSUME IInv, DepthInv, [Next]_vars
               PROVE  DepthInv'
    OBVIOUS
  <1>0. IInv'
    BY NextInv
  <1>1. ASSUME NEW c \in Clients, NEW r \in Requests, PlaceOrder(c, r)
        PROVE  DepthInv'
    BY <1>1, PlaceOrderDepth
  <1>2. CASE \/ \E c \in Clients : CancelAllClientOrders(c)
             \/ CancelAllDone \/ StartMatch \/ EndMatch \/ ReleaseOrder \/ RejectUnpriced
    BY <1>2, QuietDepth
  <1>3. CASE \/ ForceCancelOne
             \/ \E c \in Clients, id \in 1..nextOrderID : CancelOrder(c, id)
    BY <1>0, <1>3, DropOrderDepth
  <1>4. CASE MatchStep
    BY <1>0, <1>4, MatchStepDepth
  <1>5. CASE SettleStep
    BY <1>0, <1>5, SettleStepDepth
  <1>6. CASE EndSettle
    BY <1>0, <1>6, EndSettleDepth
  <1>7. CASE RestOrder
    BY <1>0, <1>7, RestOrderDepth
  <1>8. CASE UNCHANGED vars
    BY <1>8, StutterDepth
  <1> QED
    BY <1>1, <1>2, <1>3, <1>4, <1>5, <1>6, <1>7, <1>8 DEF Next, HandlerStep

\* The empty book shows nothing and holds nothing, as published.
LEMMA InitDepth == Init => DepthInv
  <1> SUFFICES ASSUME Init
               PROVE  DepthInv
    OBVIOUS
  <1>1. /\ book = <<>> /\ phase = "idle"
        /\ published = [side \in Sides |-> [p \in Prices |-> 0]]
    BY DEF Init
  <1>2. ASSUME NEW side \in Sides, NEW p \in Prices
        PROVE  VisibleQty(book, side, p) = 0 /\ TotalQty(book, side, p) = 0
    <2> DEFINE L == LevelOf(book, side, p)
    <2>1. L = {}
      BY <1>1 DEF LevelOf
    <2>2. VisibleQty(book, side, p) = SumFunctionOnSet([i \in L |-> VisibleOf(book[i])], {})
      BY <2>1 DEF VisibleQty, SumFunction
    <2>3. TotalQty(book, side, p) = SumFunctionOnSet([i \in L |-> Remaining(book[i])], {})
      BY <2>1 DEF TotalQty, SumFunction
    <2> QED
      BY <2>2, <2>3, SumEmpty
  <1>3. published \in Depths
    BY <1>1 DEF Depths
  <1>4. ExecutionsPlaced /\ DepthShown
    BY <1>1, <1>2 DEF ExecutionsPlaced, DepthShown
  <1>5. TotalsFit
    <2>1. MaxInt \in Nat
      BY SpotVenueAssumption
    <2> QED
      BY <1>1, <1>2, <2>1 DEF TotalsFit, Placing
  <1> QED
    BY <1>3, <1>4, <1>5 DEF DepthInv

\* Whatever is placed, filled, refreshed or cancelled, the depth a feed has been
\* sent is the displayed depth whenever a handler has returned, and no level's
\* TotalQty ever overflows.
THEOREM PublicDepthStaysInSync == Spec => []PublicDepthInSync
  <1>1. IInv /\ DepthInv => PublicDepthInSync
    BY DEF DepthInv, DepthShown, TotalsFit, PublicDepthInSync
  <1>2. Spec => [](IInv /\ DepthInv)
    BY InitIInv, InitDepth, NextInv, NextDepth, PTL DEF Spec
  <1> QED
    BY <1>1, <1>2, PTL
=============================================================================
