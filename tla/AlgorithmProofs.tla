-------------------------- MODULE AlgorithmProofs --------------------------
(***************************************************************************)
(* Facts about the two pure algorithms of the system, for every input.     *)
(*                                                                         *)
(* The exact accounting of a position, for every price, quantity and       *)
(* precision: a trade moves money between its two sides without creating   *)
(* or losing any, what truncation leaves over stays below one unit, and    *)
(* the estimated liquidation price is the exact boundary of positive       *)
(* equity.                                                                 *)
(*                                                                         *)
(* The block index never hides an event: the bounds gathered for a block   *)
(* hold every frame observed, and a query that matches a frame selects     *)
(* every block whose bounds hold it.                                       *)
(***************************************************************************)
EXTENDS PositionAccounting, BlockIndex, TLAPS

Accounts == [size : Int, basis : Int, realized : Int, cash : Int, carry : Int, margin : Int]

\* A flat account starts its next lifecycle from nothing but its carry.
FlatIsClean(a) == a.size = 0 => a.basis = 0 /\ a.realized = 0 /\ a.cash = 0

CarryBelowUnit(a) == -Precision < a.carry /\ a.carry < Precision

\* What the account has been paid ahead of its entries, as a numerator.
Ahead(a) == a.basis + Precision * a.cash - a.carry - a.realized

-----------------------------------------------------------------------------
(* Division.                                                               *)

\* The quotient by a positive number is the largest k with k times it at most n.
LEMMA DivIsFloor ==
    ASSUME NEW n \in Int, NEW d \in Nat \ {0}, NEW k \in Int
    PROVE  /\ n \div d \in Int
           /\ k <= n \div d <=> k * d <= n
  <1> DEFINE q == n \div d
  <1>1. q \in Int /\ q * d <= n /\ n < (q + 1) * d
    BY SMT
  <1> HIDE DEF q
  <1>2. k <= q => k * d <= q * d
    BY <1>1, SMT
  <1>3. k >= q + 1 => k * d >= (q + 1) * d
    BY <1>1, SMT
  <1>4. k * d \in Int /\ q * d \in Int /\ (q + 1) * d \in Int
    BY <1>1
  <1>5. k <= q <=> k * d <= n
    BY <1>1, <1>2, <1>3, <1>4
  <1> QED
    BY <1>1, <1>5 DEF q

\* Truncation to whole units: it is an integer, at most q exactly up to
\* Threshold(q), and what it leaves over is less than a unit.
LEMMA Truncation ==
    ASSUME NEW n \in Int, NEW q \in Int
    PROVE  /\ Quo(n, Precision) \in Int
           /\ Quo(n, Precision) <= q <=> n <= Threshold(q)
  <1> DEFINE P == Precision
  <1>1. P \in Nat \ {0}
    BY PositionAccountingAssumption
  <1> HIDE DEF P
  <1>2. Abs(P) = P /\ ~(P < 0)
    BY <1>1 DEF Abs
  <1>3. CASE n >= 0
    <2>1. Quo(n, P) = n \div P
      BY <1>1, <1>2, <1>3 DEF Quo, Abs
    <2>2. n \div P \in Int /\ (q + 1 <= n \div P <=> (q + 1) * P <= n)
      BY <1>1, DivIsFloor
    <2>3. 0 <= n \div P
      <3>1. 0 <= n \div P <=> 0 * P <= n
        BY <1>1, DivIsFloor
      <3> QED
        BY <1>1, <1>3, <3>1
    <2>4. q < 0 => q * P < 0
      BY <1>1, SMT
    <2>5. q * P \in Int /\ (q + 1) * P \in Int
      BY <1>1
    <2> QED
      BY <1>3, <2>1, <2>2, <2>3, <2>4, <2>5 DEF Threshold, P
  <1>4. CASE n < 0
    <2>1. Quo(n, P) = -((-n) \div P)
      BY <1>1, <1>2, <1>4 DEF Quo, Abs
    <2>2. (-n) \div P \in Int /\ (-q <= (-n) \div P <=> (-q) * P <= -n)
      BY <1>1, DivIsFloor
    <2>3. 0 <= (-n) \div P
      <3>1. 0 <= (-n) \div P <=> 0 * P <= -n
        BY <1>1, DivIsFloor
      <3> QED
        BY <1>1, <1>4, <3>1
    <2>4. (-q) * P = -(q * P) /\ q * P \in Int /\ (q + 1) * P \in Int
      BY <1>1, SMT
    <2>5. q >= 0 => (q + 1) * P >= 1
      BY <1>1, SMT
    <2> QED
      BY <1>4, <2>1, <2>2, <2>3, <2>4, <2>5 DEF Threshold, P
  <1> QED
    BY <1>3, <1>4

\* What truncation to whole units leaves over is less than a unit.
LEMMA Leftover ==
    ASSUME NEW n \in Int
    PROVE  /\ -Precision < n - Quo(n, Precision) * Precision
           /\ n - Quo(n, Precision) * Precision < Precision
  <1> DEFINE P == Precision
             q == Quo(n, P)
  <1>1. P \in Nat \ {0}
    BY PositionAccountingAssumption
  <1>2. q \in Int /\ n <= Threshold(q) /\ ~(n <= Threshold(q - 1))
    <2>1. q \in Int /\ (q <= q <=> n <= Threshold(q))
      BY Truncation
    <2>2. q <= q - 1 <=> n <= Threshold(q - 1)
      BY <2>1, Truncation
    <2> QED
      BY <2>1, <2>2
  <1>3. /\ (q + 1) * P = q * P + P /\ (q - 1) * P = q * P - P
        /\ (q - 1 + 1) * P = q * P /\ q * P \in Int
    BY <1>1, <1>2, SMT
  <1>4. Threshold(q) < q * P + P /\ Threshold(q - 1) >= q * P - P
    BY <1>1, <1>2, <1>3 DEF Threshold
  <1>5. Threshold(q) \in Int /\ Threshold(q - 1) \in Int
    BY <1>1, <1>2, <1>3 DEF Threshold
  <1> QED
    BY <1>1, <1>2, <1>3, <1>4, <1>5

-----------------------------------------------------------------------------
(* Trades.                                                                 *)

\* The basis left to a reduced position is an integer.
LEMMA KeptBasisType ==
    ASSUME NEW a \in Accounts, NEW delta \in Int
    PROVE  KeptBasis(a, delta) \in Int
  <1>1. CASE SameDirection(a.size, a.size + delta)
    <2> DEFINE n == a.basis * Abs(a.size + delta)
               d == Abs(a.size)
    <2>1. n \in Int /\ d \in Nat \ {0}
      BY <1>1 DEF SameDirection, Abs, Accounts
    <2> HIDE DEF n, d
    <2>2. Quo(n, d) \in Int
      BY <2>1, DivIsFloor DEF Quo, Abs
    <2> QED
      BY <1>1, <2>2 DEF KeptBasis, n, d
  <1>2. CASE ~SameDirection(a.size, a.size + delta)
    BY <1>2 DEF KeptBasis
  <1> QED
    BY <1>1, <1>2

\* Updating fields of an account with integers gives an account.
LEMMA Updated ==
    ASSUME NEW a \in Accounts, NEW s \in Int, NEW x \in Int, NEW r \in Int, NEW c \in Int,
           NEW k \in Int
    PROVE  /\ [a EXCEPT !.size = s, !.basis = x] \in Accounts
           /\ [a EXCEPT !.size = s, !.basis = x, !.realized = r, !.cash = c] \in Accounts
           /\ [a EXCEPT !.size = s, !.basis = x, !.realized = r, !.cash = c, !.carry = k]
                \in Accounts
  <1> DEFINE a1 == [a EXCEPT !.size = s]
             a2 == [a1 EXCEPT !.basis = x]
             a3 == [a2 EXCEPT !.realized = r]
             a4 == [a3 EXCEPT !.cash = c]
             a5 == [a4 EXCEPT !.carry = k]
  <1>1. /\ [a EXCEPT !.size = s, !.basis = x] = a2
        /\ [a EXCEPT !.size = s, !.basis = x, !.realized = r, !.cash = c] = a4
        /\ [a EXCEPT !.size = s, !.basis = x, !.realized = r, !.cash = c, !.carry = k] = a5
    BY SMT DEF Accounts
  <1>2. a1 \in Accounts
    BY DEF Accounts
  <1> HIDE DEF a1
  <1>3. a2 \in Accounts
    BY <1>2 DEF Accounts
  <1> HIDE DEF a2
  <1>4. a3 \in Accounts
    BY <1>3 DEF Accounts
  <1> HIDE DEF a3
  <1>5. a4 \in Accounts
    BY <1>4 DEF Accounts
  <1> HIDE DEF a4
  <1>6. a5 \in Accounts
    BY <1>5 DEF Accounts
  <1> QED
    BY <1>1, <1>3, <1>5, <1>6

\* A trade leaves an account that is in order, pays whole units, and what the
\* account is ahead grows by exactly what it was paid and what it bought
\* (applyTrade, finishLifecycle).
LEMMA TradeOfOneSide ==
    ASSUME NEW a \in Accounts, FlatIsClean(a), CarryBelowUnit(a),
           NEW delta \in Int, NEW price \in Int
    PROVE  LET b == AfterTrade(a, delta, price)
           IN  /\ b \in Accounts /\ FlatIsClean(b) /\ CarryBelowUnit(b)
               /\ b.size = a.size + delta
               /\ CashPaid(a, delta, price) \in Int
               /\ Ahead(b) = Ahead(a) + Precision * CashPaid(a, delta, price) + delta * price
  <1> DEFINE P == Precision
             b == AfterTrade(a, delta, price)
             paid == CashPaid(a, delta, price)
             total == TotalNumerator(a, delta, price)
             kept == KeptBasis(a, delta)
             whole == Quo(total, P)
             Fields(size, basis, realized, cash, carry) ==
               /\ b \in Accounts /\ b.size = size /\ b.basis = basis
               /\ b.realized = realized /\ b.cash = cash /\ b.carry = carry
  <1> SUFFICES /\ b \in Accounts /\ FlatIsClean(b) /\ CarryBelowUnit(b)
               /\ b.size = a.size + delta
               /\ paid \in Int
               /\ Ahead(b) = Ahead(a) + P * paid + delta * price
    OBVIOUS
  <1>1. P \in Nat \ {0}
    BY PositionAccountingAssumption
  <1>2. /\ a.size \in Int /\ a.basis \in Int /\ a.realized \in Int /\ a.cash \in Int
        /\ a.carry \in Int /\ kept \in Int
    BY KeptBasisType DEF Accounts
  <1>3. /\ delta * price \in Int /\ a.size * price \in Int /\ (a.size + delta) * price \in Int
        /\ (a.size + delta) * price = a.size * price + delta * price
        /\ (-a.size) * price = -(a.size * price)
        /\ P * a.cash \in Int
    BY <1>1, <1>2, SMT
  <1>0. 0 \in Int
    OBVIOUS
  <1>4. CASE a.size = 0
    <2>1. b = [a EXCEPT !.size = delta, !.basis = delta * price, !.realized = 0, !.cash = 0]
      BY <1>4 DEF AfterTrade
    <2>2. paid = 0
      BY <1>4 DEF CashPaid, Opens
    <2>3. a.basis = 0 /\ a.realized = 0 /\ a.cash = 0
      BY <1>4 DEF FlatIsClean
    <2> HIDE DEF b, paid, P
    <2>4. Fields(delta, delta * price, 0, 0, a.carry)
      <3>1. b \in Accounts
        BY <1>3, <2>1, <1>0, Updated
      <3> QED
        BY <2>1, <3>1, SMT DEF Accounts
    <2>5. delta = 0 => delta * price = 0
      BY SMT
    <2> QED
      BY <1>1, <1>2, <1>3, <1>4, <2>2, <2>3, <2>4, <2>5 DEF FlatIsClean, CarryBelowUnit, Ahead, P
  <1>5. CASE a.size # 0 /\ SameDirection(a.size, delta)
    <2>1. b = [a EXCEPT !.size = @ + delta, !.basis = @ + delta * price]
      BY <1>5 DEF AfterTrade
    <2>2. paid = 0 /\ a.size + delta # 0
      BY <1>2, <1>5 DEF CashPaid, Opens, SameDirection
    <2> HIDE DEF b, paid, P
    <2>3. Fields(a.size + delta, a.basis + delta * price, a.realized, a.cash, a.carry)
      <3>1. a.size + delta \in Int /\ a.basis + delta * price \in Int
        BY <1>2, <1>3
      <3>2. b \in Accounts
        BY <2>1, <3>1, Updated
      <3> QED
        BY <2>1, <3>2, SMT DEF Accounts
    <2> QED
      BY <1>1, <1>2, <1>3, <2>2, <2>3 DEF FlatIsClean, CarryBelowUnit, Ahead, P
  <1>6. ASSUME a.size # 0, ~SameDirection(a.size, delta)
        PROVE  /\ paid = whole - a.cash
               /\ total \in Int /\ whole \in Int /\ P * whole \in Int
               /\ whole * P = P * whole
               /\ P * (whole - a.cash) = P * whole - P * a.cash
    <2>1. ClosedDelta(a, delta) * price \in Int
      BY <1>2, <1>3 DEF ClosedDelta
    <2>2. total \in Int
      BY <1>2, <2>1 DEF TotalNumerator
    <2>3. paid = whole - a.cash
      BY <1>6 DEF CashPaid, Opens
    <2> HIDE DEF total
    <2>4. whole \in Int
      BY <2>2, Truncation
    <2> HIDE DEF whole, P
    <2> QED
      BY <1>1, <1>2, <2>2, <2>3, <2>4, SMT
  <1>7. CASE a.size # 0 /\ ~SameDirection(a.size, delta) /\ SameDirection(a.size, a.size + delta)
    <2>1. b = [a EXCEPT !.size = @ + delta, !.basis = kept, !.realized = total - a.carry,
                        !.cash = whole]
      BY <1>7 DEF AfterTrade
    <2>2. total = a.realized + a.carry + (kept - a.basis - delta * price)
      BY <1>7 DEF TotalNumerator, ClosedDelta
    <2>3. a.size + delta # 0
      BY <1>2, <1>7 DEF SameDirection
    <2> HIDE DEF b, total, whole, kept, paid, P
    <2>4. Fields(a.size + delta, kept, total - a.carry, whole, a.carry)
      <3>1. a.size + delta \in Int /\ total - a.carry \in Int /\ whole \in Int
        BY <1>2, <1>6, <1>7
      <3>2. b \in Accounts
        BY <1>2, <2>1, <3>1, Updated
      <3> QED
        BY <2>1, <3>2, SMT DEF Accounts
    <2>5. Ahead(b) = Ahead(a) + P * paid + delta * price
      BY <1>2, <1>3, <1>6, <1>7, <2>2, <2>4 DEF Ahead, P
    <2> QED
      BY <1>2, <1>6, <1>7, <2>3, <2>4, <2>5 DEF FlatIsClean, CarryBelowUnit
  <1>8. CASE a.size # 0 /\ ~SameDirection(a.size, delta) /\ ~SameDirection(a.size, a.size + delta)
    <2>1. b = [a EXCEPT !.size = a.size + delta, !.basis = (a.size + delta) * price,
                        !.realized = 0, !.cash = 0, !.carry = total - whole * P]
      BY <1>8 DEF AfterTrade, FinishLifecycle
    <2>2. total = a.realized + a.carry + (0 - a.basis - (-a.size) * price)
      BY <1>8 DEF TotalNumerator, ClosedDelta, KeptBasis
    <2>3. -P < total - whole * P /\ total - whole * P < P
      BY <1>6, <1>8, Leftover
    <2> HIDE DEF b, total, whole, kept, paid, P
    <2>4. Fields(a.size + delta, (a.size + delta) * price, 0, 0, total - whole * P)
      <3>1. a.size + delta \in Int /\ total - whole * P \in Int
        BY <1>2, <1>6, <1>8
      <3>2. b \in Accounts
        BY ZenonT(60), <1>3, <2>1, <3>1, <1>0, Updated
      <3> QED
        BY <2>1, <3>2, SMT DEF Accounts
    <2>5. Ahead(b) = Ahead(a) + P * paid + delta * price
      <3> DEFINE dp == delta * price
                 sp == a.size * price
                 pw == P * whole
                 pc == P * a.cash
      <3>1. /\ dp \in Int /\ sp \in Int /\ pw \in Int /\ pc \in Int
            /\ b.basis = sp + dp /\ total = a.realized + a.carry - a.basis + sp
            /\ b.carry = total - pw /\ P * paid = pw - pc
        <4>1. b.carry = total - pw
          BY <1>6, <1>8, <2>4
        <4>2. P * paid = pw - pc
          BY <1>6, <1>8
        <4>3. total = a.realized + a.carry - a.basis + sp
          BY <1>2, <1>3, <2>2
        <4> QED
          BY <1>3, <1>6, <1>8, <2>4, <4>1, <4>2, <4>3
      <3>2. Ahead(b) = b.basis - b.carry
        BY <1>1, <1>2, <1>3, <2>4 DEF Ahead, P, Accounts
      <3>3. Ahead(a) = a.basis + pc - a.carry - a.realized
        BY DEF Ahead, P
      <3> HIDE DEF dp, sp, pw, pc
      <3>4. Ahead(b) = Ahead(a) + P * paid + dp
        BY <1>2, <3>1, <3>2, <3>3
      <3> QED
        BY <3>4 DEF dp
    <2>6. FlatIsClean(b)
      <3>1. a.size + delta = 0 => (a.size + delta) * price = 0
        BY <1>2, SMT
      <3> QED
        BY <2>4, <3>1 DEF FlatIsClean
    <2> QED
      BY <1>2, <1>6, <1>8, <2>3, <2>4, <2>5, <2>6 DEF CarryBelowUnit, P
  <1> QED
    BY <1>4, <1>5, <1>7, <1>8

\* A trade creates and destroys no money: whatever two accounts trade with each
\* other, and whichever of them opens, reduces, closes or flips, what the two are
\* ahead together grows by exactly the cash they are paid (applyTrade).
THEOREM TradeConservesMoney ==
    ASSUME NEW a \in Accounts, FlatIsClean(a), CarryBelowUnit(a),
           NEW b \in Accounts, FlatIsClean(b), CarryBelowUnit(b),
           NEW delta \in Int, NEW price \in Int
    PROVE  Ahead(AfterTrade(a, delta, price)) + Ahead(AfterTrade(b, -delta, price))
             = Ahead(a) + Ahead(b)
               + Precision * (CashPaid(a, delta, price) + CashPaid(b, -delta, price))
  <1>1. /\ CashPaid(a, delta, price) \in Int
        /\ Ahead(AfterTrade(a, delta, price))
             = Ahead(a) + Precision * CashPaid(a, delta, price) + delta * price
    BY TradeOfOneSide
  <1>2. /\ CashPaid(b, -delta, price) \in Int
        /\ Ahead(AfterTrade(b, -delta, price))
             = Ahead(b) + Precision * CashPaid(b, -delta, price) + (-delta) * price
    <2>1. -delta \in Int
      OBVIOUS
    <2> QED
      BY <2>1, TradeOfOneSide
  <1>3. Ahead(a) \in Int /\ Ahead(b) \in Int /\ Precision \in Int
    BY PositionAccountingAssumption DEF Ahead, Accounts
  <1> DEFINE x == CashPaid(a, delta, price)
             y == CashPaid(b, -delta, price)
  <1>4. /\ delta * price \in Int /\ (-delta) * price = -(delta * price)
        /\ Precision * x \in Int /\ Precision * y \in Int
        /\ Precision * (x + y) = Precision * x + Precision * y
    <2> HIDE DEF x, y
    <2> QED
      BY <1>1, <1>2, <1>3, SMT DEF x, y
  <1> HIDE DEF x, y
  <1> QED
    BY <1>1, <1>2, <1>3, <1>4 DEF x, y

-----------------------------------------------------------------------------
(* The estimated liquidation price.                                        *)

\* The equity of a position is used up exactly where its size times the mark is
\* at most a bound that does not depend on the mark.
LEMMA EquityUsedUp ==
    ASSUME NEW a \in Accounts, NEW netBalance \in Int, NEW mark \in Int
    PROVE  EquityAt(a, netBalance, mark) <= 0
             <=> a.size * mark <= Threshold(a.cash - netBalance) - (a.realized - a.basis + a.carry)
  <1> DEFINE sm == a.size * mark
             n == a.realized + (sm - a.basis) + a.carry
             q == a.cash - netBalance
  <1>1. /\ sm \in Int /\ a.cash \in Int /\ a.realized \in Int /\ a.basis \in Int
        /\ a.carry \in Int
    BY DEF Accounts
  <1> HIDE DEF sm
  <1>2. n \in Int /\ q \in Int
    BY <1>1
  <1>3. Quo(n, Precision) \in Int /\ (Quo(n, Precision) <= q <=> n <= Threshold(q))
    <2> HIDE DEF n, q
    <2> QED
      BY <1>2, Truncation
  <1>4. EquityAt(a, netBalance, mark) = netBalance + (Quo(n, Precision) - a.cash)
    BY DEF EquityAt, UnrealizedPnL, sm
  <1>5. Threshold(q) \in Int
    BY <1>2, PositionAccountingAssumption DEF Threshold
  <1> QED
    BY <1>1, <1>3, <1>4, <1>5 DEF sm

\* The candidate is the last mark, on the losing side, at which size times mark
\* is within a bound (floorQuotient, ceilQuotient).
LEMMA CandidateIsBoundary ==
    ASSUME NEW size \in Int, size # 0, NEW n \in Int, NEW mark \in Int
    PROVE  /\ FloorQuotient(n, size) \in Int /\ CeilQuotient(n, size) \in Int
           /\ size * mark <= n <=> IF size > 0 THEN mark <= FloorQuotient(n, size)
                                              ELSE mark >= CeilQuotient(n, size)
  <1>1. CASE size > 0
    <2>1. n \div size \in Int /\ (-n) \div size \in Int
            /\ (mark <= n \div size <=> mark * size <= n)
      <3>1. size \in Nat \ {0} /\ -n \in Int
        BY <1>1
      <3> QED
        BY <3>1, DivIsFloor
    <2>2. mark * size = size * mark
      BY SMT
    <2> QED
      BY <1>1, <2>1, <2>2 DEF FloorQuotient, CeilQuotient
  <1>2. CASE size < 0
    <2>1. /\ (-n) \div (-size) \in Int /\ n \div (-size) \in Int
          /\ -mark <= n \div (-size) <=> (-mark) * (-size) <= n
      <3>1. -size \in Nat \ {0} /\ -n \in Int /\ -mark \in Int
        BY <1>2
      <3> QED
        BY <3>1, DivIsFloor
    <2>2. (-mark) * (-size) = size * mark
      BY SMT
    <2>3. CeilQuotient(n, size) = -(n \div (-size))
      BY <1>2 DEF CeilQuotient, FloorQuotient
    <2>4. FloorQuotient(n, size) \in Int
      BY <1>2, <2>1 DEF FloorQuotient
    <2> HIDE DEF CeilQuotient, FloorQuotient
    <2>5. mark >= CeilQuotient(n, size) <=> -mark <= n \div (-size)
      BY <2>1, <2>3
    <2> QED
      BY <1>2, <2>1, <2>2, <2>3, <2>4, <2>5
  <1> QED
    BY <1>1, <1>2

\* An open position always has a liquidation price, and it is exact: equity is
\* used up there and at every mark on its losing side, and nowhere else
\* (liquidationPrice, for marks within int64).
THEOREM LiquidationPriceExact ==
    ASSUME NEW a \in Accounts, a.size # 0, NEW netBalance \in Int, NEW mark \in Int
    PROVE  LET price == LiquidationPrice(a, netBalance)
           IN  /\ price # NoPrice
               /\ EquityAt(a, netBalance, mark) <= 0
                    <=> IF a.size > 0 THEN mark <= price ELSE mark >= price
  <1> DEFINE n == Threshold(a.cash - netBalance) - (a.realized - a.basis + a.carry)
             m == LiquidationCandidate(a, netBalance)
             safer == IF a.size > 0 THEN m + 1 ELSE m - 1
  <1>1. a.size \in Int /\ n \in Int
    BY PositionAccountingAssumption DEF Accounts, Threshold
  <1>2. m \in Int
    <2> HIDE DEF n
    <2>1. FloorQuotient(n, a.size) \in Int /\ CeilQuotient(n, a.size) \in Int
      BY <1>1, CandidateIsBoundary, 0 \in Int
    <2> QED
      BY <2>1 DEF LiquidationCandidate, n
  <1>3. ASSUME NEW k \in Int
        PROVE  EquityAt(a, netBalance, k) <= 0 <=> IF a.size > 0 THEN k <= m ELSE k >= m
    <2>1. EquityAt(a, netBalance, k) <= 0 <=> a.size * k <= n
      BY EquityUsedUp
    <2>2. m = IF a.size > 0 THEN FloorQuotient(n, a.size) ELSE CeilQuotient(n, a.size)
      BY DEF LiquidationCandidate
    <2> HIDE DEF n, m
    <2>3. a.size * k <= n <=> IF a.size > 0 THEN k <= FloorQuotient(n, a.size)
                                            ELSE k >= CeilQuotient(n, a.size)
      BY <1>1, CandidateIsBoundary
    <2> QED
      BY <2>1, <2>2, <2>3
  <1>4. ASSUME NEW k \in Int PROVE EquityAt(a, netBalance, k) \in Int
    <2>1. a.realized + (a.size * k - a.basis) + a.carry \in Int /\ a.cash \in Int
      BY <1>1 DEF Accounts
    <2> QED
      BY <2>1, Truncation, 0 \in Int DEF EquityAt, UnrealizedPnL
  <1>5. LiquidationPrice(a, netBalance) = m
    <2>1. safer \in Int
      BY <1>2
    <2>2. EquityAt(a, netBalance, m) <= 0 /\ ~(EquityAt(a, netBalance, safer) <= 0)
      <3> HIDE DEF m
      <3>1. EquityAt(a, netBalance, m) <= 0
        BY <1>2, <1>3
      <3>2. IF a.size > 0 THEN ~(safer <= m) ELSE ~(safer >= m)
        BY <1>2
      <3> QED
        BY <1>3, <2>1, <3>1, <3>2
    <2>3. EquityAt(a, netBalance, safer) > 0
      <3> HIDE DEF safer
      <3> QED
        BY <1>4, <2>1, <2>2
    <2> QED
      BY <2>2, <2>3 DEF LiquidationPrice
  <1> HIDE DEF m
  <1> QED
    BY <1>2, <1>3, <1>5, PositionAccountingAssumption

-----------------------------------------------------------------------------
(* The block index.                                                        *)

\* What the index looks at in a frame, and what a query may ask.
Stamped(h) == h.ts \in Int /\ h.seq \in Int

Asks(q) ==
    /\ q.fromTS \in Int /\ q.toTS \in Int /\ q.fromSeq \in Int /\ q.toSeq \in Int
    /\ 0 \notin q.refs

\* The bounds of stats or of a descriptor hold a frame.
Holds(s, h) ==
    /\ s.minTS <= h.ts /\ h.ts <= s.maxTS
    /\ s.firstSeq <= h.seq /\ h.seq <= s.lastSeq
    /\ familyBit(h.schema) \in s.families
    /\ symbolBits(h.ref) \subseteq s.symbols

Bounds(s) == s.minTS \in Int /\ s.maxTS \in Int /\ s.firstSeq \in Int /\ s.lastSeq \in Int

\* A frame that satisfies the query satisfies every bound the index keeps: a
\* block that holds a matching frame is never skipped (Query.selects, matches).
\* A query lists dictionary ids, and no id is zero.
LEMMA MatchIsSelected ==
    ASSUME NEW q, NEW d, NEW h, Bounds(d), Holds(d, h), Matches(q, h),
           Stamped(h), Asks(q)
    PROVE  Selects(q, d)
  <1>1. q.fromTS # 0 => d.maxTS >= q.fromTS
    BY DEF Bounds, Holds, Matches, Stamped, Asks
  <1>2. q.toTS # 0 => d.minTS <= q.toTS
    BY DEF Bounds, Holds, Matches, Stamped, Asks
  <1>3. q.fromSeq # 0 => d.lastSeq >= q.fromSeq
    BY DEF Bounds, Holds, Matches, Stamped, Asks
  <1>4. q.toSeq # 0 => d.firstSeq <= q.toSeq
    BY DEF Bounds, Holds, Matches, Stamped, Asks
  <1>5. ASSUME {familyBit(id) : id \in q.families} # {}
        PROVE  d.families \cap {familyBit(id) : id \in q.families} # {}
    <2>1. h.schema \in q.families
      BY <1>5, Zenon DEF Matches
    <2>2. familyBit(h.schema) \in d.families
      BY Zenon DEF Holds
    <2> QED
      BY <2>1, <2>2, Zenon
  <1>6. ASSUME UNION {symbolBits(ref) : ref \in q.refs} # {}
        PROVE  d.symbols \cap UNION {symbolBits(ref) : ref \in q.refs} # {}
    <2>1. h.ref \in q.refs
      BY <1>6, Zenon DEF Matches
    <2>2. h.ref # 0
      BY <2>1 DEF Asks
    <2>3. SymbolSlot[h.ref] \in symbolBits(h.ref)
      BY <2>2, Zenon DEF symbolBits
    <2>4. symbolBits(h.ref) \subseteq d.symbols
      BY Zenon DEF Holds
    <2> QED
      BY <2>1, <2>3, <2>4, Zenon
  <1> QED
    BY <1>1, <1>2, <1>3, <1>4, <1>5, <1>6, Zenon DEF Selects

\* Observing a frame makes the bounds hold it, and they go on holding every
\* earlier frame (blockStats.observe).
LEMMA ObserveHolds ==
    ASSUME NEW s, s.started => Bounds(s), NEW h, Stamped(h),
           s.started => s.firstSeq <= h.seq /\ s.lastSeq <= h.seq
    PROVE  /\ Bounds(observe(s, h)) /\ observe(s, h).started
           /\ Holds(observe(s, h), h)
           /\ observe(s, h).firstSeq <= h.seq /\ observe(s, h).lastSeq = h.seq
           /\ \A g : s.started /\ Stamped(g) /\ Holds(s, g)
                       => Holds(observe(s, h), g)
  <1> DEFINE o == observe(s, h)
  <1>1. /\ o.started
        /\ o.firstSeq = (IF s.started THEN s.firstSeq ELSE h.seq)
        /\ o.lastSeq = h.seq
        /\ o.minTS = (IF ~s.started \/ h.ts < s.minTS THEN h.ts ELSE s.minTS)
        /\ o.maxTS = (IF ~s.started \/ h.ts > s.maxTS THEN h.ts ELSE s.maxTS)
        /\ o.families = s.families \cup {familyBit(h.schema)}
        /\ o.symbols = s.symbols \cup symbolBits(h.ref)
    BY DEF observe
  <1> HIDE DEF o
  <1>2. Bounds(o)
    BY <1>1 DEF Bounds, Stamped
  <1>3. Holds(o, h)
    BY <1>1 DEF Bounds, Holds, Stamped
  <1>4. ASSUME NEW g, s.started, Stamped(g), Holds(s, g)
        PROVE  Holds(o, g)
    BY <1>1, <1>4 DEF Bounds, Holds, Stamped
  <1> QED
    BY <1>1, <1>2, <1>3, <1>4 DEF o, Bounds, Stamped

\* The index never hides an event: if the bounds of the open block hold the frames
\* it has, they hold one more after it is observed, and a query that matches any
\* of them selects the descriptor the block is filed under (blockStats.observe,
\* Query.selects).  The first frame of a block starts from no frames and no bounds.
THEOREM BlockIsNeverHidden ==
    ASSUME NEW s, NEW frames, \A g \in frames : Stamped(g) /\ Holds(s, g),
           s.started => Bounds(s), ~s.started => frames = {},
           NEW h, Stamped(h), s.started => s.firstSeq <= h.seq /\ s.lastSeq <= h.seq,
           NEW offset, NEW stored, NEW block
    PROVE  LET o == observe(s, h)
               d == descriptor(o, offset, stored, block)
           IN  /\ o.started /\ Bounds(o)
               /\ \A g \in frames \cup {h} : Stamped(g) /\ Holds(o, g)
               /\ \A q : Asks(q) /\ (\E g \in frames \cup {h} : Matches(q, g)) => Selects(q, d)
  <1> DEFINE o == observe(s, h)
             d == descriptor(o, offset, stored, block)
  <1>1. o.started /\ Bounds(o) /\ Holds(o, h)
    BY ObserveHolds
  <1>2. \A g \in frames : Holds(o, g)
    BY ObserveHolds, Zenon
  <1>3. Bounds(d) /\ \A g : Holds(o, g) => Holds(d, g)
    <2>1. /\ d.minTS = o.minTS /\ d.maxTS = o.maxTS /\ d.firstSeq = o.firstSeq
          /\ d.lastSeq = o.lastSeq /\ d.families = o.families /\ d.symbols = o.symbols
      BY DEF descriptor
    <2> HIDE DEF d, o
    <2> QED
      BY <1>1, <2>1 DEF Bounds, Holds
  <1> HIDE DEF d, o
  <1>4. ASSUME NEW q, Asks(q), NEW g \in frames \cup {h}, Matches(q, g)
        PROVE  Selects(q, d)
    <2>1. Stamped(g) /\ Holds(d, g)
      BY <1>1, <1>2, <1>3
    <2> QED
      BY <1>3, <1>4, <2>1, MatchIsSelected
  <1> QED
    BY <1>1, <1>2, <1>4 DEF d, o
=============================================================================
