--------------------------- MODULE DeskRequests ---------------------------
(***************************************************************************)
(* What the trading desks of simulations/ share: the requests a desk sends *)
(* through its BaseActor, the events it gets back for them, and the sizing *)
(* of an order against the touch it last saw.                              *)
(*                                                                         *)
(* A book is what a desk reads of its last snapshot: the size displayed at *)
(* the best bid and at the best ask, or NoQuote for a side that is absent  *)
(* or whose price the desk cannot use (not positive, off the tick grid).   *)
(* Prices themselves decide only whether a desk wants to trade, which is   *)
(* an input of its tick.  An order is named by the request that placed it: *)
(* BaseActor maps one to the other, so "accepted" stands for a desk that   *)
(* knows its order's id.                                                   *)
(***************************************************************************)
EXTENDS Integers, Sequences, FiniteSets

Buy == 1
Sell == -1

NoQuote == -1

Book(sizes) == [bid : sizes, ask : sizes]

TwoSided(book) == book.bid # NoQuote /\ book.ask # NoQuote

\* The size displayed on the side an order would take, and on its own side.
Opposite(book, side) == IF side = Buy THEN book.ask ELSE book.bid
SameSide(book, side) == IF side = Buy THEN book.bid ELSE book.ask

Lesser(a, b) == IF a <= b THEN a ELSE b

Magnitude(x) == IF x >= 0 THEN x ELSE -x

SideOf(gap) == IF gap > 0 THEN Buy ELSE Sell

(* Zero stands for a quantity that is not worth sending. *)
venueSizedQty(intended, available, minOrderSize) ==
    LET clipped == IF available > 0 THEN Lesser(intended, available) ELSE intended
    IN  IF clipped <= 0 \/ clipped < minOrderSize THEN 0 ELSE clipped

(* An immediate order towards a target, capped by the desk's lot and sized  *)
(* to the touch it would take.                                             *)
orderFromGap(lot, book, gap, minOrderSize) ==
    LET touch == Opposite(book, SideOf(gap))
    IN  IF touch = NoQuote THEN 0
        ELSE venueSizedQty(Lesser(Magnitude(gap), lot), touch, minOrderSize)

Place(id, leg, side, qty, tif) ==
    [op |-> "place", id |-> id, leg |-> leg, side |-> side, qty |-> qty, tif |-> tif]

CancelOrder(id, order) ==
    [op |-> "cancel", id |-> id, leg |-> order.leg, side |-> 0, qty |-> order.id,
     tif |-> "none"]

(* A desk's one outstanding order; id 0 is the nil pointer. *)
Nothing == [id |-> 0, leg |-> "none", accepted |-> FALSE, tag |-> "none",
            contract |-> "none", postOnly |-> FALSE, cancel |-> 0]

Outstanding(id, leg) == [Nothing EXCEPT !.id = id, !.leg = leg]

(* What a tick does: the desk after it and the requests it sends. *)
Defer(d) == [desk |-> d, send |-> <<>>]
Submit(d, request) == [desk |-> d, send |-> <<request>>]

(* An IOC order when its quantity is worth sending, recorded as pending.   *)
Immediate(d, id, leg, gap, qty) ==
    IF qty = 0 THEN Defer(d)
    ELSE Submit([d EXCEPT !.pending = Outstanding(id, leg)],
                Place(id, leg, SideOf(gap), qty, "ioc"))

(* Which events reach a desk that matches them against its one order: a    *)
(* request id before acceptance, an order id after it.                     *)
Concerns(pending, e) ==
    /\ pending.id # 0
    /\ CASE e.kind \in {"accepted", "rejected"} -> e.id = pending.id
         [] e.kind \in {"fill", "cancelled"} -> pending.accepted /\ e.id = pending.id
         [] OTHER -> pending.postOnly /\ pending.cancel # 0 /\ e.id = pending.cancel

Signed(e) == e.side * e.qty
===========================================================================
