-------------------------- MODULE LimitOrderBook --------------------------
(***************************************************************************)
(* The order book of one symbol and price-time matching on it, as          *)
(* operators on a book value (book/book.go, matching/matching.go and       *)
(* matching/default.go).                                                   *)
(*                                                                         *)
(* A book maps the IDs in the two Orders indexes to their orders.  Price   *)
(* levels and their queues are not stored: an order carries the number it  *)
(* got when it was last linked, so the queue of a level is the orders at   *)
(* that side and price in increasing link number, and Best is the best     *)
(* price with a linked order.  A filled order is unlinked from its level   *)
(* and stays in the index until it is settled.                             *)
(***************************************************************************)
EXTENDS Integers, Sequences, FiniteSetsExt

Sides == {"Buy", "Sell"}
Visibilities == {"Normal", "Iceberg", "Hidden"}

OppositeSide(side) == IF side = "Buy" THEN "Sell" ELSE "Buy"

Lesser(m, n) == IF m < n THEN m ELSE n

Remaining(o) == o.qty - o.filled

\* Parent # nil: on a price level's queue.
Linked(o) == o.filled < o.qty

\* price p1 is at least as good as p2 for somebody trading against that side
AsGoodAs(side, p1, p2) == IF side = "Buy" THEN p1 >= p2 ELSE p1 <= p2

\* A resting order at this price can trade with the incoming order.
CanMatch(incoming, price) ==
    \/ incoming.type = "Market"
    \/ AsGoodAs(incoming.side, incoming.price, price)

\* Two prices that would show a crossed or locked book.
Crosses(buyPrice, sellPrice) == buyPrice >= sellPrice

-----------------------------------------------------------------------------
(* Queues.                                                                 *)

LevelOf(bk, side, price) ==
    {i \in DOMAIN bk : bk[i].side = side /\ bk[i].price = price /\ Linked(bk[i])}

\* Limit.TotalQty
TotalQty(bk, side, price) ==
    SumFunction([i \in LevelOf(bk, side, price) |-> Remaining(bk[i])])

\* The display tranche is authoritative for icebergs; hidden orders show nothing.
VisibleOf(o) ==
    CASE o.vis = "Normal"  -> Remaining(o)
      [] o.vis = "Iceberg" -> Lesser(o.display, Remaining(o))
      [] OTHER -> 0

VisibleQty(bk, side, price) ==
    SumFunction([i \in LevelOf(bk, side, price) |-> VisibleOf(bk[i])])

\* LinkOrder: to the tail of its level, with a display tranche if it has none.
LinkOrder(o, prio) ==
    [o EXCEPT !.prio = prio,
              !.display = IF o.vis = "Iceberg" /\ o.display = 0
                          THEN Lesser(o.icebergQty, Remaining(o))
                          ELSE o.display]

\* Book.AddOrder of an order whose ID is not in the index.
AddOrder(bk, id, o, prio) ==
    [i \in DOMAIN bk \cup {id} |-> IF i = id THEN LinkOrder(o, prio) ELSE bk[i]]

\* Book.CancelOrder (and RemoveFilledOrder) for a set of IDs.
RemoveOrders(bk, ids) == [i \in DOMAIN bk \ ids |-> bk[i]]

-----------------------------------------------------------------------------
(* Matching.                                                               *)

\* Orders the incoming order may trade with: linked, on the other side, at a
\* matching price, and not of the same client (shouldMatch).
Matchable(bk, incoming) ==
    {i \in DOMAIN bk : /\ Linked(bk[i])
                       /\ bk[i].side = OppositeSide(incoming.side)
                       /\ bk[i].client # incoming.client
                       /\ CanMatch(incoming, bk[i].price)}

\* o1 is ahead of o2: at a better price, or earlier on the same level's queue.
Ahead(o1, o2) ==
    \/ o1.price # o2.price /\ AsGoodAs(o1.side, o1.price, o2.price)
    \/ o1.price = o2.price /\ o1.prio < o2.prio

\* The order the matcher trades with next.  Match walks the levels from the
\* best one and each queue from its head, skipping the client's own orders, and
\* rescans a level after an iceberg refresh: it always reaches the first
\* matchable order next.
NextMakers(bk, incoming) ==
    {i \in Matchable(bk, incoming) :
        \A j \in Matchable(bk, incoming) : i = j \/ Ahead(bk[i], bk[j])}

\* makerAvailable: only the display tranche of an iceberg.
MakerAvailable(o) ==
    IF o.vis = "Iceberg" THEN Lesser(o.display, Remaining(o)) ELSE Remaining(o)

ExecutedQty(incoming, maker) == Lesser(Remaining(incoming), MakerAvailable(maker))

\* The maker after execute and, when its tranche is used up and it has quantity
\* left, refreshIcebergTranche: to the tail of its level with a fresh tranche.
Refreshes(o, qty) ==
    /\ o.vis = "Iceberg"
    /\ o.display = qty
    /\ qty < Remaining(o)

ExecutedMaker(o, qty, prio) ==
    LET hit == [o EXCEPT !.filled = @ + qty,
                         !.display = IF o.vis = "Iceberg" THEN @ - qty ELSE @]
    IN  IF Refreshes(o, qty) THEN LinkOrder(hit, prio) ELSE hit

\* A match state holds the book, the incoming order, the executions so far and
\* the next link.  One execution:
MatchWith(s, i) ==
    LET maker == s.book[i]
        qty   == ExecutedQty(s.order, maker)
        after == ExecutedMaker(maker, qty, s.link)
    IN  [book  |-> [s.book EXCEPT ![i] = after],
         order |-> [s.order EXCEPT !.filled = @ + qty],
         execs |-> Append(s.execs,
                     [maker |-> i, client |-> maker.client, price |-> maker.price,
                      qty |-> qty, takerFilled |-> s.order.filled + qty,
                      makerFilled |-> after.filled, makerQty |-> maker.qty]),
         link  |-> IF Refreshes(maker, qty) THEN s.link + 1 ELSE s.link]

MatchDone(s) == Remaining(s.order) = 0 \/ Matchable(s.book, s.order) = {}

\* The matcher run to its end.  Every execution takes at least one unit, so qty
\* rounds are enough.
Match(bk, order, link) ==
    LET round[n \in 0..order.qty] ==
          IF n = 0
          THEN [book |-> bk, order |-> order, execs |-> <<>>, link |-> link]
          ELSE LET s == round[n - 1]
               IN  IF MatchDone(s) THEN s
                   ELSE MatchWith(s, CHOOSE i \in NextMakers(s.book, s.order) : TRUE)
    IN  round[order.qty]
=============================================================================
