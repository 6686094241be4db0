------------------------- MODULE PositionAccounting -------------------------
(***************************************************************************)
(* Exact accounting of one linear position (exchange/position_accounting.go*)
(* and the margin ledger of exchange/funding.go), as operators on an       *)
(* account value.  Quantities of money are kept as numerators over the     *)
(* base precision; cash moves only in whole units, so every account        *)
(* carries what truncation left over.                                      *)
(*                                                                         *)
(* An account has the fields                                               *)
(*   size      signed position                                             *)
(*   basis     sum of opened quantity times price (numerator)              *)
(*   realized  realised profit of this lifecycle (numerator)               *)
(*   cash      whole units of that profit already paid out                 *)
(*   carry     remainder left by earlier lifecycles (numerator)            *)
(*   margin    quote reserved against the position                         *)
(* A lifecycle runs from a flat position to the next flat position or      *)
(* flip.  The int64 range checks of the source are not modelled.           *)
(***************************************************************************)
EXTENDS Integers

CONSTANTS
    Precision,          \* the instrument's base precision
    MarginRate,         \* initial margin in basis points
    NoPrice             \* an unavailable price

ASSUME PositionAccountingAssumption ==
    /\ Precision \in Nat \ {0}
    /\ MarginRate \in Nat
    /\ NoPrice \notin Int

Abs(n) == IF n < 0 THEN -n ELSE n

Greater(m, n) == IF m > n THEN m ELSE n

\* big.Int.Quo and int64 division: truncation towards zero
Quo(n, d) == IF (n < 0) = (d < 0) THEN Abs(n) \div Abs(d) ELSE -(Abs(n) \div Abs(d))

Flat == [size |-> 0, basis |-> 0, realized |-> 0, cash |-> 0, carry |-> 0, margin |-> 0]

\* What a trade of this side and quantity adds to the size.
SizeDelta(side, qty) == IF side = "Buy" THEN qty ELSE -qty

SameDirection(m, n) == (m > 0 /\ n > 0) \/ (m < 0 /\ n < 0)

-----------------------------------------------------------------------------
(* A trade.                                                                *)

\* A trade on a flat account, or in the direction of its position, realises
\* nothing.
Opens(a, delta) == a.size = 0 \/ SameDirection(a.size, delta)

\* The basis left to the part of the position a reducing trade does not close.
KeptBasis(a, delta) ==
    IF SameDirection(a.size, a.size + delta)
    THEN Quo(a.basis * Abs(a.size + delta), Abs(a.size))
    ELSE 0

\* The part of a reducing trade that closes existing size.
ClosedDelta(a, delta) ==
    IF SameDirection(a.size, a.size + delta) THEN delta ELSE -a.size

\* Realised profit of the lifecycle after a reducing trade, carry included.
TotalNumerator(a, delta, price) ==
    a.realized + a.carry
        + (KeptBasis(a, delta) - a.basis - ClosedDelta(a, delta) * price)

\* The whole units of profit a trade pays into the account's wallet.
CashPaid(a, delta, price) ==
    IF Opens(a, delta) THEN 0
    ELSE Quo(TotalNumerator(a, delta, price), Precision) - a.cash

\* A mutant of FinishLifecycle: the remainder is dropped with the lifecycle.
FinishLifecycleDropsCarry(a, total, newSize, price) ==
    [a EXCEPT !.size = newSize, !.basis = newSize * price, !.realized = 0,
              !.cash = 0, !.carry = 0]

\* finishLifecycle, then the basis of what a flip opens the other way.
FinishLifecycle(a, total, newSize, price) ==
    [a EXCEPT !.size = newSize, !.basis = newSize * price, !.realized = 0,
              !.cash = 0, !.carry = total - Quo(total, Precision) * Precision]

\* applyTrade: the account after a trade.
AfterTrade(a, delta, price) ==
    LET total == TotalNumerator(a, delta, price)
    IN  IF a.size = 0
        THEN [a EXCEPT !.size = delta, !.basis = delta * price,
                       !.realized = 0, !.cash = 0]
        ELSE IF SameDirection(a.size, delta)
        THEN [a EXCEPT !.size = @ + delta, !.basis = @ + delta * price]
        ELSE IF SameDirection(a.size, a.size + delta)
        THEN [a EXCEPT !.size = @ + delta, !.basis = KeptBasis(a, delta),
                       !.realized = total - a.carry,
                       !.cash = Quo(total, Precision)]
        ELSE FinishLifecycle(a, total, a.size + delta, price)

\* unrealizedPnL: what closing everything at the mark would pay.
UnrealizedPnL(a, mark) ==
    Quo(a.realized + (a.size * mark - a.basis) + a.carry, Precision) - a.cash

-----------------------------------------------------------------------------
(* The estimated liquidation price.                                        *)

FloorQuotient(n, d) == IF d > 0 THEN n \div d ELSE (-n) \div (-d)

CeilQuotient(n, d) == -FloorQuotient(-n, d)

\* The largest total numerator that still truncates to at most q units.
Threshold(q) == IF q >= 0 THEN (q + 1) * Precision - 1 ELSE q * Precision

LiquidationCandidate(a, netBalance) ==
    LET n == Threshold(a.cash - netBalance) - (a.realized - a.basis + a.carry)
    IN  IF a.size > 0 THEN FloorQuotient(n, a.size) ELSE CeilQuotient(n, a.size)

EquityAt(a, netBalance, mark) == netBalance + UnrealizedPnL(a, mark)

\* liquidationPrice of an open position: the candidate, if equity is gone there
\* and positive one tick to the safe side.
LiquidationPrice(a, netBalance) ==
    LET m == LiquidationCandidate(a, netBalance)
        safer == IF a.size > 0 THEN m + 1 ELSE m - 1
    IN  IF EquityAt(a, netBalance, m) <= 0 /\ EquityAt(a, netBalance, safer) > 0
        THEN m ELSE NoPrice

-----------------------------------------------------------------------------
(* Margin.                                                                 *)

\* AbsMulDiv(qty, price, precision)
Notional(qty, price) == Abs(qty * price) \div Precision

\* MarginRequired
MarginRequired(qty, price) == (Notional(qty, price) * MarginRate) \div 10000

\* calcClosedQty: the part of a trade that reduces the position.
ClosedQty(oldSize, delta) ==
    IF oldSize = 0 \/ SameDirection(oldSize, delta) THEN 0
    ELSE IF Abs(delta) > Abs(oldSize) THEN Abs(oldSize) ELSE Abs(delta)

\* ReleasePositionMargin: the whole remainder on a full close.
ReleasedMargin(margin, closedQty, oldSize) ==
    IF margin <= 0 \/ closedQty = 0 THEN 0
    ELSE IF closedQty >= Abs(oldSize) THEN margin
    ELSE (margin * closedQty) \div Abs(oldSize)

\* Quantity a fill opened, from the actual change of size.
OpenedQty(oldSize, newSize, closedQty) == Abs(newSize) - Abs(oldSize) + closedQty

\* settlePositionMargin: the position's margin after a fill.
PositionMargin(a, delta, price) ==
    LET closed == ClosedQty(a.size, delta)
        opened == OpenedQty(a.size, a.size + delta, closed)
    IN  a.margin - ReleasedMargin(a.margin, closed, a.size)
            + (IF opened > 0 THEN MarginRequired(opened, price) ELSE 0)
=============================================================================
