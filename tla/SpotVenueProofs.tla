-------------------------- MODULE SpotVenueProofs ---------------------------
(***************************************************************************)
(* The steps that settle the executions of a match and rest or release what*)
(* is left of the order keep the inductive invariant; and the theorems that*)
(* follow: types, the clients' order lists and the sides of the book stay  *)
(* coherent, arrivals keep their priority, and every settlement balances.  *)
(***************************************************************************)
EXTENDS SpotVenueSteps, BookFacts

-----------------------------------------------------------------------------
(* Settling one execution.                                                 *)

\* What settling an execution does: it moves the two parties' balances by their
\* leg's flow, changes only the money the two orders hold, and may drop the maker.
LEMMA SettleStepEffect ==
    ASSUME IInv, SettleStep
    PROVE  LET x == executions[settled + 1]
               takerFee == Fee(taker.client, FALSE, x.qty, x.price)
               makerFee == Fee(x.client, TRUE, x.qty, x.price)
           IN  /\ x \in Execution /\ x.client # taker.client
               /\ taker.client \in Clients /\ taker.side \in Sides
               /\ balance' \in Accounts /\ reserved' \in Reservations
               /\ \A a \in Assets :
                    /\ balance'[taker.client][a] =
                         balance[taker.client][a] + LegFlow(taker.side, x, takerFee)[a]
                    /\ balance'[x.client][a] =
                         balance[x.client][a] + LegFlow(OppositeSide(taker.side), x, makerFee)[a]
                    /\ feeRevenue'[a] = feeRevenue[a] + FeeIn(takerFee, a) + FeeIn(makerFee, a)
               /\ feeRevenue' \in [Assets -> Int]
               /\ \A c \in Clients \ {taker.client, x.client} : balance'[c] = balance[c]
               /\ taker' \in OrderRecord /\ SameOrder(taker, taker')
               /\ DOMAIN book' \subseteq DOMAIN book
               /\ \A id \in DOMAIN book' :
                    book'[id] \in OrderRecord /\ SameOrder(book[id], book'[id])
               /\ \/ DOMAIN book' = DOMAIN book /\ orderIDs' = orderIDs
                  \/ /\ DOMAIN book' = DOMAIN book \ {x.maker}
                     /\ x.maker \in DOMAIN book
                     /\ orderIDs' = [orderIDs EXCEPT ![x.client] = orderIDs[x.client] \ {x.maker}]
               /\ forced' \subseteq forced \cup {x.maker, nextOrderID}
               /\ \/ DOMAIN book' = DOMAIN book /\ published' = published
                  \/ /\ DOMAIN book' = DOMAIN book \ {x.maker}
                     /\ x.maker \in DOMAIN book
                     /\ \E o \in OrderRecord :
                          /\ SameOrder(book[x.maker], o)
                          /\ published' = PublishUnlessHidden(published, book', o)
  <1> DEFINE x == executions[settled + 1]
             known == x.maker \in DOMAIN book
             makerSide == OppositeSide(taker.side)
             takerFee == Fee(taker.client, FALSE, x.qty, x.price)
             makerFee == Fee(x.client, TRUE, x.qty, x.price)
             makerRelease == IF known THEN SpotFillRelease(book[x.maker])
                             ELSE IF makerSide = "Buy" THEN Notional(x.qty, x.price) ELSE x.qty
             led1 == SettleSpotLeg(Ledger, taker.client, taker.side,
                                   SpotFillRelease(taker), x, takerFee)
             led2 == SettleSpotLeg(led1, x.client, makerSide, makerRelease, x, makerFee)
             t == RestoreForeignFeeReservation(led2, AfterRelease(taker))
             m == RestoreForeignFeeReservation(t.led, AfterRelease(book[x.maker]))
             end == IF known THEN m.led ELSE t.led
             dropped == known /\ m.order.cancelled
  <1>1. /\ phase = "settle" /\ settled < Len(executions)
        /\ balance' = end.bal /\ reserved' = end.res
        /\ feeRevenue' = [a \in Assets |-> feeRevenue[a] + FeeIn(takerFee, a) + FeeIn(makerFee, a)]
        /\ taker' = t.order
        /\ book' = IF ~known THEN book
                   ELSE IF dropped THEN RemoveOrders(book, {x.maker})
                   ELSE [book EXCEPT ![x.maker] = m.order]
        /\ orderIDs' = IF dropped THEN [orderIDs EXCEPT ![x.client] = orderIDs[x.client] \ {x.maker}]
                       ELSE orderIDs
        /\ forced' = forced \cup (IF dropped THEN {x.maker} ELSE {})
                       \cup (IF t.order.cancelled /\ ~taker.cancelled THEN {nextOrderID} ELSE {})
        /\ published' = IF dropped THEN PublishUnlessHidden(published, book', m.order) ELSE published
    BY Zenon DEF SettleStep
  <1>2. executions \in Seq(Execution) /\ settled \in Nat
    BY DEF IInv, TypeOK
  <1>3. settled + 1 \in 1..Len(executions)
    <2>1. settled < Len(executions)
      BY Zenon DEF SettleStep
    <2>2. Len(executions) \in Nat
      BY <1>2
    <2> QED
      BY <1>2, <2>1, <2>2
  <1>4. x \in Execution
    BY <1>2, <1>3
  <1>5. /\ x.client # taker.client
        /\ known => book[x.maker].client = x.client
    BY Zenon, <1>1, <1>3 DEF IInv, ExecutionsNameMakers
  <1>6. /\ taker \in OrderRecord /\ taker.filled <= taker.qty
        /\ known => book[x.maker] \in OrderRecord /\ book[x.maker].filled <= book[x.maker].qty
    BY Zenon, <1>1 DEF IInv, TypeOK, Placing
  <1>7. /\ taker.client \in Clients /\ taker.side \in Sides /\ x.client \in Clients
        /\ makerSide \in Sides
    BY <1>4, <1>6 DEF OrderRecord, Execution, OppositeSide, Sides
  <1>8. Ledger \in Ledgers /\ Ledger.bal = balance
    BY DEF IInv, TypeOK, Ledger, Ledgers, Accounts, Reservations
  <1>9. SpotFillRelease(taker) \in Int
    BY <1>6, AfterReleaseType
  <1>10. makerRelease \in Int
    <2>1. x.qty \in Quantities /\ x.price \in Prices
      BY <1>4 DEF Execution
    <2>2. x.qty \in Nat /\ Notional(x.qty, x.price) \in Nat
      BY Zenon, <2>1, Menu, NotionalType
    <2>3. known => SpotFillRelease(book[x.maker]) \in Nat
      BY <1>6, AfterReleaseType
    <2> QED
      BY <2>2, <2>3
  <1>0. takerFee \in Fees /\ makerFee \in Fees
    <2>1. x.qty \in Quantities /\ x.price \in Prices
      BY <1>4 DEF Execution
    <2> QED
      BY Zenon, <1>7, <2>1, FeeType DEF Fees
  <1> HIDE DEF x, known, makerSide, takerFee, makerFee, makerRelease, led1, led2, t, m
  <1>11. /\ led1 \in Ledgers
         /\ \A a \in Assets : led1.bal[taker.client][a] =
                balance[taker.client][a] + LegFlow(taker.side, x, takerFee)[a]
         /\ \A d \in Clients \ {taker.client} : led1.bal[d] = balance[d]
    BY <1>4, <1>7, <1>8, <1>9, <1>0, SettleSpotLegType DEF led1
  <1>12. /\ led2 \in Ledgers
         /\ \A a \in Assets : led2.bal[x.client][a] =
                led1.bal[x.client][a] + LegFlow(makerSide, x, makerFee)[a]
         /\ \A d \in Clients \ {x.client} : led2.bal[d] = led1.bal[d]
    BY <1>4, <1>7, <1>10, <1>11, <1>0, SettleSpotLegType DEF led2
  <1>13. /\ AfterRelease(taker) \in OrderRecord /\ SameOrder(taker, AfterRelease(taker))
         /\ AfterRelease(taker).filled <= AfterRelease(taker).qty
    BY <1>6, AfterReleaseType DEF SameOrder
  <1>14. /\ t.led \in Ledgers /\ t.led.bal = led2.bal
         /\ t.order \in OrderRecord /\ SameOrder(AfterRelease(taker), t.order)
    BY <1>12, <1>13, RestoreType DEF t
  <1>15. SameOrder(taker, t.order)
    BY <1>13, <1>14 DEF SameOrder
  <1>16. known => /\ m.led \in Ledgers /\ m.led.bal = led2.bal
                  /\ m.order \in OrderRecord /\ SameOrder(book[x.maker], m.order)
    <2> SUFFICES ASSUME known
                 PROVE  /\ m.led \in Ledgers /\ m.led.bal = led2.bal
                        /\ m.order \in OrderRecord /\ SameOrder(book[x.maker], m.order)
      OBVIOUS
    <2> DEFINE b == book[x.maker]
    <2>1. b \in OrderRecord /\ b.filled <= b.qty
      BY <1>6
    <2> HIDE DEF b
    <2>2. /\ AfterRelease(b) \in OrderRecord /\ SameOrder(b, AfterRelease(b))
          /\ AfterRelease(b).filled <= AfterRelease(b).qty
      BY <2>1, AfterReleaseType DEF SameOrder
    <2>3. m = RestoreForeignFeeReservation(t.led, AfterRelease(b))
      BY DEF m, b
    <2>4. /\ m.led \in Ledgers /\ m.led.bal = t.led.bal
          /\ m.order \in OrderRecord /\ SameOrder(AfterRelease(b), m.order)
      BY <1>14, <2>2, <2>3, RestoreType
    <2>5. SameOrder(b, m.order)
      BY <2>2, <2>4 DEF SameOrder
    <2> QED
      BY <1>14, <2>4, <2>5 DEF b
  <1>17. end \in Ledgers /\ end.bal = led2.bal
    BY <1>14, <1>16
  <1>18. balance' \in Accounts /\ reserved' \in Reservations /\ balance' = led2.bal
    BY <1>1, <1>17 DEF Ledgers
  <1>19. \A a \in Assets :
            /\ balance'[taker.client][a] =
                 balance[taker.client][a] + LegFlow(taker.side, x, takerFee)[a]
            /\ balance'[x.client][a] =
                 balance[x.client][a] + LegFlow(makerSide, x, makerFee)[a]
    <2>1. led2.bal[taker.client] = led1.bal[taker.client]
      BY <1>5, <1>7, <1>12
    <2>2. led1.bal[x.client] = balance[x.client]
      BY <1>5, <1>7, <1>11
    <2> QED
      BY <1>11, <1>12, <1>18, <2>1, <2>2
  <1>20. \A c \in Clients \ {taker.client, x.client} : balance'[c] = balance[c]
    BY <1>11, <1>12, <1>18
  <1>21. feeRevenue' \in [Assets -> Int]
    <2>1. x.qty \in Quantities /\ x.price \in Prices
      BY <1>4 DEF Execution
    <2>2. \A a \in Assets : FeeIn(takerFee, a) \in Int /\ FeeIn(makerFee, a) \in Int
      BY Zenon, <1>7, <2>1, FeeType DEF takerFee, makerFee
    <2>3. \A a \in Assets : feeRevenue[a] \in Int
      BY DEF IInv, TypeOK
    <2> QED
      BY <1>1, <2>2, <2>3
  <1>22. /\ DOMAIN book' \subseteq DOMAIN book
         /\ \A id \in DOMAIN book' : book'[id] \in OrderRecord /\ SameOrder(book[id], book'[id])
         /\ \/ DOMAIN book' = DOMAIN book /\ orderIDs' = orderIDs
            \/ /\ DOMAIN book' = DOMAIN book \ {x.maker}
               /\ x.maker \in DOMAIN book
               /\ orderIDs' = [orderIDs EXCEPT ![x.client] = orderIDs[x.client] \ {x.maker}]
    <2>0. \A id \in DOMAIN book : book[id] \in OrderRecord /\ SameOrder(book[id], book[id])
      BY SameOrderRefl DEF IInv, TypeOK
    <2>1. CASE ~known
      BY <1>1, <2>0, <2>1
    <2>2. CASE known /\ dropped
      <3>1. book' = RemoveOrders(book, {x.maker})
        BY <1>1, <2>2
      <3>2. DOMAIN book' = DOMAIN book \ {x.maker} /\ \A id \in DOMAIN book' : book'[id] = book[id]
        BY <3>1 DEF RemoveOrders
      <3> QED
        BY Zenon, <1>1, <2>0, <2>2, <3>2 DEF known
    <2>3. CASE known /\ ~dropped
      <3>1. book' = [book EXCEPT ![x.maker] = m.order]
        BY <1>1, <2>3
      <3>2. DOMAIN book' = DOMAIN book
        BY <3>1
      <3>3. \A id \in DOMAIN book : book'[id] = IF id = x.maker THEN m.order ELSE book[id]
        BY <3>1
      <3> QED
        BY <1>1, <1>16, <2>0, <2>3, <3>2, <3>3
    <2> QED
      BY <2>1, <2>2, <2>3
  <1>23. forced' \subseteq forced \cup {x.maker, nextOrderID}
    BY <1>1
  <1>24. \A a \in Assets : feeRevenue'[a] = feeRevenue[a] + FeeIn(takerFee, a) + FeeIn(makerFee, a)
    BY <1>1
  <1>25. taker' \in OrderRecord /\ SameOrder(taker, taker')
    BY <1>1, <1>14, <1>15
  <1>26. \/ DOMAIN book' = DOMAIN book /\ published' = published
         \/ /\ DOMAIN book' = DOMAIN book \ {x.maker}
            /\ x.maker \in DOMAIN book
            /\ \E o \in OrderRecord :
                 SameOrder(book[x.maker], o) /\ published' = PublishUnlessHidden(published, book', o)
    <2>1. CASE dropped
      <3>1. known /\ x.maker \in DOMAIN book
        BY <2>1 DEF known
      <3>2. DOMAIN book' = DOMAIN book \ {x.maker}
        <4>1. book' = RemoveOrders(book, {x.maker})
          BY <1>1, <2>1, <3>1
        <4> QED
          BY <4>1 DEF RemoveOrders
      <3>3. published' = PublishUnlessHidden(published, book', m.order)
        BY <1>1, <2>1
      <3> QED
        BY <1>16, <3>1, <3>2, <3>3
    <2>2. CASE ~dropped
      <3>1. book' = book \/ book' = [book EXCEPT ![x.maker] = m.order]
        BY <1>1, <2>2
      <3> QED
        BY <1>1, <2>2, <3>1
    <2> QED
      BY <2>1, <2>2
  <1> QED
    BY Zenon, <1>4, <1>5, <1>7, <1>18, <1>19, <1>20, <1>21, <1>22, <1>23, <1>24, <1>25, <1>26
       DEF x, takerFee, makerFee, makerSide

\* Settling one execution keeps the invariant, a maker dropped for want of fee
\* funds included.
LEMMA SettleStepInv ==
    ASSUME IInv, SettleStep
    PROVE  IInv'
  <1> DEFINE x == executions[settled + 1]
  <1>1. /\ x \in Execution /\ x.client # taker.client
        /\ balance' \in Accounts /\ reserved' \in Reservations
        /\ feeRevenue' \in [Assets -> Int]
        /\ taker' \in OrderRecord /\ SameOrder(taker, taker')
        /\ DOMAIN book' \subseteq DOMAIN book
        /\ \A id \in DOMAIN book' : book'[id] \in OrderRecord /\ SameOrder(book[id], book'[id])
        /\ \/ DOMAIN book' = DOMAIN book /\ orderIDs' = orderIDs
           \/ /\ DOMAIN book' = DOMAIN book \ {x.maker}
              /\ x.maker \in DOMAIN book
              /\ orderIDs' = [orderIDs EXCEPT ![x.client] = orderIDs[x.client] \ {x.maker}]
        /\ forced' \subseteq forced \cup {x.maker, nextOrderID}
    BY Zenon, SettleStepEffect
  <1>2. /\ phase = "settle" /\ settled < Len(executions) /\ settled' = settled + 1
        /\ UNCHANGED <<phase, nextOrderID, nextLink, doomed, executions>>
    BY Zenon DEF SettleStep
  <1>3. executions \in Seq(Execution) /\ settled \in 0..Len(executions) /\ Len(executions) \in Nat
    BY DEF IInv, TypeOK
  <1>4. settled + 1 \in 1..Len(executions)
    BY <1>2, <1>3
  <1>5. x.maker \in DOMAIN book => book[x.maker].client = x.client
    BY <1>2, <1>4 DEF IInv, ExecutionsNameMakers
  <1> HIDE DEF x
  <1>6. /\ DOMAIN book' \subseteq OrderIds
        /\ \A id \in DOMAIN book' : book'[id].filled <= book'[id].qty
        /\ \A id \in DOMAIN book' :
             /\ TrancheOK(book'[id])
             /\ book'[id].vis = "Iceberg" /\ Linked(book'[id]) => book'[id].display > 0
        /\ QueueByArrival'
        /\ Uncrossed'
    BY <1>1, <1>2, BookShrinks
  <1>7. settled' \in 0..Len(executions')
    BY <1>2, <1>3
  <1>8. /\ x.maker \in OrderIds /\ x.client \in Clients
        /\ forced \subseteq OrderIds /\ orderIDs \in [Clients -> SUBSET OrderIds]
    BY <1>1 DEF Execution, IInv, TypeOK
  <1>9. forced' \subseteq OrderIds
    <2>1. nextOrderID \in OrderIds \/ nextOrderID = 0
      BY DEF IInv, TypeOK, OrderIds
    <2>2. forced' \subseteq forced \cup {x.maker, nextOrderID}
      BY <1>1
    <2>3. nextOrderID # 0
      BY SMTT(30), <1>2 DEF IInv, FreshID
    <2> QED
      BY <1>8, <2>1, <2>2, <2>3
  <1>10. taker'.filled <= taker'.qty
    BY <1>1, <1>2 DEF IInv, TypeOK, Placing, SameOrder
  <1>11. orderIDs' \in [Clients -> SUBSET OrderIds]
    BY <1>1, <1>8
  <1>12. TypeOK'
    BY Zenon, <1>1, <1>2, <1>3, <1>6, <1>7, <1>9, <1>10, <1>11
       DEF IInv, TypeOK, Placing, Reservations, Accounts
  <1>13. ShowsTranche'
    <2>1. TrancheOK(taker') /\ taker'.display = 0
      BY Zenon, <1>1, <1>2 DEF IInv, ShowsTranche, Placing, TrancheOK, SameOrder
    <2> QED
      BY <1>6, <2>1 DEF ShowsTranche
  <1>14. FreshID' /\ DoomedInBook'
    BY Zenon, <1>1, <1>2 DEF IInv, FreshID, DoomedInBook
  <1>15. ExecutionsNameMakers'
    <2>1. taker'.client = taker.client
      BY <1>1 DEF SameOrder
    <2>2. \A id \in DOMAIN book' : id \in DOMAIN book /\ book'[id].client = book[id].client
      BY <1>1 DEF SameOrder
    <2> QED
      BY <1>2, <2>1, <2>2 DEF IInv, ExecutionsNameMakers
  <1>16. TakerClear'
    <2>1. Remaining(taker') = Remaining(taker)
      BY <1>1 DEF SameOrder, Remaining
    <2>2. Matchable(book, taker) = {} => Matchable(book', taker') = {}
      BY <1>1 DEF Matchable, SameOrder, CanMatch, Linked, AsGoodAs
    <2> QED
      BY <1>2, <2>1, <2>2 DEF IInv, TakerClear
  <1>17. OrderIDsMatchBook'
    <2> SUFFICES ASSUME NEW c \in Clients
                 PROVE  orderIDs'[c] = {id \in DOMAIN book' : book'[id].client = c}
      BY DEF OrderIDsMatchBook
    <2>1. orderIDs[c] = {id \in DOMAIN book : book[id].client = c}
      BY DEF IInv, OrderIDsMatchBook
    <2>2. \A id \in DOMAIN book' : book'[id].client = book[id].client
      BY <1>1 DEF SameOrder
    <2>3. CASE DOMAIN book' = DOMAIN book /\ orderIDs' = orderIDs
      BY <2>1, <2>2, <2>3
    <2>4. CASE /\ DOMAIN book' = DOMAIN book \ {x.maker}
               /\ x.maker \in DOMAIN book
               /\ orderIDs' = [orderIDs EXCEPT ![x.client] = orderIDs[x.client] \ {x.maker}]
      <3>1. CASE c = x.client
        BY <1>8, <2>1, <2>2, <2>4, <3>1
      <3>2. CASE c # x.client
        BY <1>5, <1>8, <2>1, <2>2, <2>4, <3>2
      <3> QED
        BY <3>1, <3>2
    <2> QED
      BY <1>1, <2>3, <2>4
  <1> QED
    BY <1>6, <1>12, <1>13, <1>14, <1>15, <1>16, <1>17 DEF IInv

\* Removing the filled makers and collecting the client's own crossing quotes
\* keeps the invariant.
LEMMA EndSettleInv ==
    ASSUME IInv, EndSettle
    PROVE  IInv'
  <1> DEFINE filled == {x \in Executed : x.makerFilled >= x.makerQty}
             gone == {x.maker : x \in filled}
  <1>1. /\ phase = "settle" /\ phase' = "rest"
        /\ book' = RemoveOrders(book, gone)
        /\ orderIDs' = [c \in Clients |->
                          orderIDs[c] \ {x.maker : x \in {e \in filled : e.client = c}}]
        /\ doomed' = IF WillRest THEN OwnCrossingQuotes(RemoveOrders(book, gone)) ELSE {}
        /\ UNCHANGED <<nextOrderID, nextLink, taker, forced, balance, reserved, feeRevenue,
                       executions, settled>>
    BY DEF EndSettle, ledgerVars, planVars
  <1>2. /\ DOMAIN book' = DOMAIN book \ gone
        /\ \A id \in DOMAIN book' : book'[id] = book[id]
    BY <1>1 DEF RemoveOrders
  <1>3. \A id \in DOMAIN book' : book'[id] \in OrderRecord /\ SameOrder(book[id], book'[id])
    BY Zenon, <1>2, SameOrderRefl DEF IInv, TypeOK
  <1>4. \A x \in filled : x.maker \in DOMAIN book => book[x.maker].client = x.client
    BY <1>1 DEF IInv, ExecutionsNameMakers, Executed
  <1> HIDE DEF filled
  <1>5. /\ DOMAIN book' \subseteq OrderIds
        /\ \A id \in DOMAIN book' : book'[id].filled <= book'[id].qty
        /\ \A id \in DOMAIN book' :
             /\ TrancheOK(book'[id])
             /\ book'[id].vis = "Iceberg" /\ Linked(book'[id]) => book'[id].display > 0
        /\ QueueByArrival'
        /\ Uncrossed'
    BY Zenon, <1>1, <1>2, <1>3, BookShrinks
  <1>6. doomed' \subseteq DOMAIN book'
    BY <1>1 DEF OwnCrossingQuotes
  <1>7. orderIDs' \in [Clients -> SUBSET OrderIds]
    BY <1>1 DEF IInv, TypeOK
  <1>8. TypeOK'
    BY Zenon, <1>1, <1>3, <1>5, <1>6, <1>7 DEF IInv, TypeOK, Placing, Phases
  <1>9. ShowsTranche' /\ FreshID' /\ DoomedInBook' /\ ExecutionsNameMakers'
    BY Zenon, <1>1, <1>2, <1>5, <1>6
       DEF IInv, ShowsTranche, FreshID, DoomedInBook, ExecutionsNameMakers, Placing
  <1>10. TakerClear'
    <2>1. Matchable(book, taker) = {} => Matchable(book', taker) = {}
      BY SMTT(30), <1>2 DEF Matchable
    <2>2. WillRest' => OwnCrossingQuotes(book)' \subseteq doomed'
      BY <1>1 DEF WillRest, OwnCrossingQuotes
    <2> QED
      BY Zenon, <1>1, <2>1, <2>2 DEF IInv, TakerClear
  <1>11. OrderIDsMatchBook'
    <2> SUFFICES ASSUME NEW c \in Clients
                 PROVE  orderIDs'[c] = {id \in DOMAIN book' : book'[id].client = c}
      BY DEF OrderIDsMatchBook
    <2>1. orderIDs[c] = {id \in DOMAIN book : book[id].client = c}
      BY DEF IInv, OrderIDsMatchBook
    <2>2. orderIDs'[c] = orderIDs[c] \ {x.maker : x \in {e \in filled : e.client = c}}
      BY <1>1
    <2>3. ASSUME NEW id \in orderIDs'[c] PROVE id \in DOMAIN book' /\ book'[id].client = c
      BY <1>2, <1>4, <2>1, <2>2, <2>3
    <2>4. ASSUME NEW id \in DOMAIN book', book'[id].client = c PROVE id \in orderIDs'[c]
      BY <1>2, <2>1, <2>2, <2>4
    <2> QED
      BY <2>3, <2>4
  <1> QED
    BY SMTT(30), <1>5, <1>8, <1>9, <1>10, <1>11 DEF IInv

\* Resting the remainder keeps the invariant: everything it would cross was
\* matched or cancelled.
LEMMA RestOrderInv ==
    ASSUME IInv, RestOrder
    PROVE  IInv'
  <1> DEFINE new == LinkOrder(taker, nextLink)
  <1>1. /\ phase = "rest" /\ phase' = "idle" /\ doomed = {} /\ WillRest
        /\ book' = [i \in DOMAIN book \cup {nextOrderID} |->
                      IF i = nextOrderID THEN new ELSE book[i]]
        /\ nextLink' = nextLink + 1
        /\ orderIDs' = [orderIDs EXCEPT ![taker.client] = orderIDs[taker.client] \cup {nextOrderID}]
        /\ executions' = <<>> /\ settled' = 0 /\ forced' = {}
        /\ UNCHANGED <<nextOrderID, reserved, balance, feeRevenue, doomed>>
    BY SMTT(30) DEF RestOrder, EndHandler, AddOrder
  <1>2. /\ taker \in OrderRecord /\ taker.filled <= taker.qty
        /\ TrancheOK(taker) /\ taker.display = 0 /\ nextLink \in Nat
    BY <1>1 DEF IInv, TypeOK, ShowsTranche, Placing
  <1>3. nextOrderID \in OrderIds
    BY <1>1 DEF IInv, TypeOK, OrderIds, FreshID
  <1>4. \A id \in DOMAIN book : id \in Nat /\ id < nextOrderID
    BY <1>1 DEF IInv, FreshID, TypeOK, OrderIds
  <1>5. taker.filled < taker.qty /\ Rests(taker)
    <2>1. taker.filled \in Nat /\ taker.qty \in Nat
      BY Zenon, <1>2, Menu DEF OrderRecord
    <2> QED
      BY <1>1, <2>1 DEF WillRest, Remaining
  <1>6. /\ new \in OrderRecord /\ new.prio = nextLink
        /\ new.client = taker.client /\ new.side = taker.side /\ new.price = taker.price
        /\ new.filled = taker.filled /\ new.qty = taker.qty /\ new.vis = taker.vis
        /\ new.icebergQty = taker.icebergQty
        /\ new.vis = "Iceberg" => new.display > 0
    <2> DEFINE show == IF taker.vis = "Iceberg" THEN Lesser(taker.icebergQty, Remaining(taker))
                       ELSE 0
    <2>1. /\ taker.filled \in Nat /\ taker.qty \in Nat /\ taker.icebergQty \in Nat
      BY Zenon, <1>2, Menu DEF OrderRecord
    <2>2. show \in Nat /\ (taker.vis = "Iceberg" => show > 0)
      BY <1>2, <1>5, <2>1 DEF Lesser, Remaining, TrancheOK
    <2>3. new = [taker EXCEPT !.prio = nextLink, !.display = show]
      BY <1>2 DEF LinkOrder
    <2> HIDE DEF show
    <2> QED
      BY Zenon, <1>2, <2>2, <2>3 DEF OrderRecord
  <1> HIDE DEF new
  <1>7. /\ DOMAIN book' = DOMAIN book \cup {nextOrderID}
        /\ book'[nextOrderID] = new
        /\ \A id \in DOMAIN book : book'[id] = book[id]
        /\ nextOrderID \notin DOMAIN book
    <2>1. nextOrderID \notin DOMAIN book
      BY <1>3, <1>4 DEF OrderIds
    <2> QED
      BY <1>1, <2>1
  <1>8. TypeOK'
    <2>1. \A id \in DOMAIN book' : book'[id] \in OrderRecord /\ book'[id].filled <= book'[id].qty
      BY <1>2, <1>6, <1>7 DEF IInv, TypeOK
    <2>2. DOMAIN book' \subseteq OrderIds
      BY <1>3, <1>7 DEF IInv, TypeOK
    <2>3. taker.client \in Clients
      BY <1>2 DEF OrderRecord
    <2>4. orderIDs' \in [Clients -> SUBSET OrderIds]
      BY <1>1, <1>3, <2>3 DEF IInv, TypeOK
    <2>5. executions' \in Seq(Execution) /\ settled' \in 0..Len(executions')
      BY <1>1
    <2>6. /\ phase' \in Phases /\ ~Placing' /\ nextOrderID' \in Nat /\ nextLink' \in Nat
          /\ doomed' \subseteq OrderIds /\ forced' \subseteq OrderIds
      BY SMTT(30), <1>1, <1>2 DEF IInv, TypeOK, Placing, Phases
    <2>7. /\ balance' \in [Clients -> [Assets -> Int]]
          /\ reserved' \in [Clients -> [Assets -> Nat]]
          /\ feeRevenue' \in [Assets -> Int]
      BY SMTT(90), <1>1 DEF IInv, TypeOK
    <2> QED
      BY <2>1, <2>2, <2>4, <2>5, <2>6, <2>7 DEF TypeOK
  <1>9. ShowsTranche'
    <2>1. TrancheOK(new)
      BY <1>2, <1>6 DEF TrancheOK
    <2> QED
      BY <1>1, <1>6, <1>7, <2>1 DEF IInv, ShowsTranche, Placing
  <1>10. FreshID'
    BY SMTT(30), <1>1, <1>3, <1>4, <1>7 DEF IInv, FreshID, OrderIds
  <1>11. DoomedInBook' /\ ExecutionsNameMakers' /\ TakerClear'
    BY <1>1, <1>7 DEF IInv, DoomedInBook, ExecutionsNameMakers, TakerClear
  <1>12. QueueByArrival'
    <2>1. \A id \in DOMAIN book : book[id].prio \in Nat /\ book[id].prio < nextLink
      BY DEF IInv, TypeOK, QueueByArrival, OrderRecord
    <2>2. \A id \in DOMAIN book' : book'[id].prio < nextLink'
      BY <1>1, <1>2, <1>6, <1>7, <2>1
    <2>3. ASSUME NEW i \in DOMAIN book', NEW j \in DOMAIN book', i < j, book'[i].vis = "Normal"
          PROVE  book'[i].prio < book'[j].prio
      <3>1. i \in DOMAIN book
        BY <1>3, <1>4, <1>7, <2>3 DEF OrderIds
      <3>2. CASE j \in DOMAIN book
        BY <1>7, <2>3, <3>1, <3>2 DEF IInv, QueueByArrival
      <3>3. CASE j = nextOrderID
        BY <1>6, <1>7, <2>1, <3>1, <3>3
      <3> QED
        BY <1>7, <3>2, <3>3
    <2> QED
      BY SMTT(30), <2>2, <2>3 DEF QueueByArrival
  <1>13. Uncrossed'
    <2>1. ASSUME NEW j \in DOMAIN book, Linked(book[j]), book[j].side = OppositeSide(taker.side)
          PROVE  ~AsGoodAs(taker.side, taker.price, book[j].price)
      <3>1. Remaining(taker) > 0
        BY <1>1 DEF WillRest
      <3>2. Matchable(book, taker) = {} /\ OwnCrossingQuotes(book) = {}
        BY <1>1, <3>1 DEF IInv, TakerClear
      <3>3. CASE book[j].client = taker.client
        BY <2>1, <3>2, <3>3 DEF OwnCrossingQuotes
      <3>4. CASE book[j].client # taker.client
        BY SMTT(30), <2>1, <3>2, <3>4 DEF Matchable, CanMatch
      <3> QED
        BY <3>3, <3>4
    <2>2. \A id \in DOMAIN book : book[id].price \in Nat /\ book[id].side \in Sides
      BY Zenon, Menu DEF IInv, TypeOK, OrderRecord
    <2>3. taker.price \in Nat /\ taker.side \in Sides
      BY Zenon, <1>2, Menu DEF OrderRecord
    <2>4. ASSUME NEW i \in DOMAIN book', NEW j \in DOMAIN book',
                 book'[i].side = "Buy", Linked(book'[i]),
                 book'[j].side = "Sell", Linked(book'[j])
          PROVE  ~Crosses(book'[i].price, book'[j].price)
      <3>1. CASE i \in DOMAIN book /\ j \in DOMAIN book
        BY <1>7, <2>4, <3>1 DEF IInv, Uncrossed
      <3>2. CASE i = nextOrderID /\ j \in DOMAIN book
        <4>1. taker.side = "Buy" /\ book[j].side = OppositeSide(taker.side) /\ Linked(book[j])
          BY <1>6, <1>7, <2>4, <3>2 DEF OppositeSide
        <4>2. ~AsGoodAs(taker.side, taker.price, book[j].price)
          BY <2>1, <3>2, <4>1
        <4> QED
          BY <1>6, <1>7, <2>2, <2>3, <3>2, <4>1, <4>2 DEF AsGoodAs, Crosses
      <3>3. CASE j = nextOrderID /\ i \in DOMAIN book
        <4>1. taker.side = "Sell" /\ book[i].side = OppositeSide(taker.side) /\ Linked(book[i])
          BY <1>6, <1>7, <2>4, <3>3 DEF OppositeSide
        <4>2. ~AsGoodAs(taker.side, taker.price, book[i].price)
          BY <2>1, <3>3, <4>1
        <4> QED
          BY <1>6, <1>7, <2>2, <2>3, <3>3, <4>1, <4>2 DEF AsGoodAs, Crosses
      <3> QED
        BY <1>7, <2>4, <3>1, <3>2, <3>3
    <2> QED
      BY <2>4 DEF Uncrossed
  <1>14. OrderIDsMatchBook'
    <2> SUFFICES ASSUME NEW c \in Clients
                 PROVE  orderIDs'[c] = {id \in DOMAIN book' : book'[id].client = c}
      BY DEF OrderIDsMatchBook
    <2>1. orderIDs[c] = {id \in DOMAIN book : book[id].client = c}
      BY DEF IInv, OrderIDsMatchBook
    <2>2. orderIDs \in [Clients -> SUBSET OrderIds]
      BY DEF IInv, TypeOK
    <2>3. CASE c = taker.client
      BY SMTT(90), <1>1, <1>6, <1>7, <2>1, <2>2, <2>3
    <2>4. CASE c # taker.client
      BY <1>1, <1>6, <1>7, <2>1, <2>2, <2>4
    <2> QED
      BY <2>3, <2>4
  <1> QED
    BY <1>8, <1>9, <1>10, <1>11, <1>12, <1>13, <1>14 DEF IInv

\* Releasing an order that does not rest, or is rejected after evictions, keeps
\* the invariant.
LEMMA ReleaseOrderInv ==
    ASSUME IInv, ReleaseOrder \/ RejectUnpriced
    PROVE  IInv'
  <1>1. /\ phase \in {"rest", "evict"} /\ phase' = "idle" /\ doomed = {}
        /\ reserved' = ReleaseReserved(reserved, taker)
        /\ executions' = <<>> /\ settled' = 0 /\ forced' = {}
        /\ UNCHANGED <<nextOrderID, nextLink, book, orderIDs, balance, feeRevenue, doomed>>
    BY DEF ReleaseOrder, RejectUnpriced, EndHandler, bookVars
  <1>2. taker \in OrderRecord /\ reserved \in Reservations
    BY <1>1 DEF IInv, TypeOK, Placing, Reservations
  <1>3. reserved' \in Reservations
    BY <1>1, <1>2, ReleaseReservedType
  <1>4. executions' \in Seq(Execution) /\ settled' \in 0..Len(executions')
    BY SMTT(30), <1>1
  <1>5. TypeOK'
    BY SMTT(90), <1>1, <1>3, <1>4 DEF IInv, TypeOK, Placing, Phases, Reservations
  <1>6. ShowsTranche' /\ FreshID' /\ DoomedInBook'
    BY SMTT(90), <1>1 DEF IInv, ShowsTranche, FreshID, DoomedInBook, Placing
  <1>7. ExecutionsNameMakers' /\ TakerClear'
    BY SMTT(90), <1>1 DEF IInv, ExecutionsNameMakers, TakerClear
  <1>8. QueueByArrival' /\ Uncrossed' /\ OrderIDsMatchBook'
    BY <1>1 DEF IInv, QueueByArrival, Uncrossed, OrderIDsMatchBook
  <1> QED
    BY <1>5, <1>6, <1>7, <1>8 DEF IInv

-----------------------------------------------------------------------------
(* The theorems.                                                           *)

\* A step that changes nothing keeps the inductive invariant.
LEMMA StutterInv ==
    ASSUME IInv, UNCHANGED vars
    PROVE  IInv'
  <1>1. UNCHANGED <<phase, nextOrderID, nextLink, book, orderIDs, balance, reserved, feeRevenue,
                    taker, doomed, executions, settled, forced>>
    BY DEF vars
  <1> QED
    BY <1>1 DEF IInv, TypeOK, Placing, ShowsTranche, FreshID, DoomedInBook, ExecutionsNameMakers,
                TakerClear, WillRest, OwnCrossingQuotes, QueueByArrival, Uncrossed,
                OrderIDsMatchBook

\* Every step keeps the inductive invariant.
LEMMA NextInv == IInv /\ [Next]_vars => IInv'
  <1> SUFFICES ASSUME IInv, [Next]_vars
               PROVE  IInv'
    OBVIOUS
  <1>1. ASSUME NEW c \in Clients, NEW r \in Requests, PlaceOrder(c, r)
        PROVE  IInv'
    BY <1>1, PlaceOrderInv
  <1>2. ASSUME NEW c \in Clients, NEW id \in 1..nextOrderID, CancelOrder(c, id)
        PROVE  IInv'
    BY <1>2, CancelOrderInv
  <1>3. ASSUME NEW c \in Clients, CancelAllClientOrders(c)
        PROVE  IInv'
    BY <1>3, CancelAllInv
  <1>4. CASE ForceCancelOne
    BY <1>4, ForceCancelOneInv
  <1>5. CASE CancelAllDone
    BY <1>5, CancelAllInv
  <1>6. CASE StartMatch
    BY <1>6, StartMatchInv
  <1>7. CASE MatchStep
    BY <1>7, MatchStepInv
  <1>8. CASE EndMatch
    BY <1>8, EndMatchInv
  <1>9. CASE SettleStep
    BY <1>9, SettleStepInv
  <1>10. CASE EndSettle
    BY <1>10, EndSettleInv
  <1>11. CASE RestOrder
    BY <1>11, RestOrderInv
  <1>12. CASE ReleaseOrder
    BY <1>12, ReleaseOrderInv
  <1>13. CASE RejectUnpriced
    BY <1>13, ReleaseOrderInv
  <1>14. CASE UNCHANGED vars
    BY <1>14, StutterInv
  <1> QED
    BY <1>1, <1>2, <1>3, <1>4, <1>5, <1>6, <1>7, <1>8, <1>9, <1>10, <1>11, <1>12, <1>13, <1>14
       DEF Next, HandlerStep

\* The inductive invariant holds in every reachable state.
THEOREM Invariance == Spec => []IInv
  BY InitIInv, NextInv, PTL DEF Spec

\* Types, the clients' order lists and the two sides of the book stay coherent,
\* through fills, evictions, self-trade cancels and mass cancels.
THEOREM BookStaysCoherent == Spec => []BookCoherent
  <1>1. IInv => BookCoherent
    BY DEF IInv, BookCoherent
  <1> QED
    BY <1>1, Invariance, PTL

\* A step that executes a maker executes no later arrival ahead of it.
LEMMA ArrivalStep ==
    ASSUME IInv, [Next]_vars,
           NEW i \in DOMAIN book, NEW j \in DOMAIN book,
           phase = "match", book'[j].filled > book[j].filled,
           i < j, book[i].vis = "Normal", book[i].client # taker.client,
           book[i].side = book[j].side, book[i].price = book[j].price
    PROVE  ~Linked(book[i])
  <1>1. \A id \in DOMAIN book : book[id].filled \in Nat /\ book[id].prio \in Nat /\ id \in Nat
    BY Zenon DEF IInv, TypeOK, OrderRecord, OrderIds
  <1>2. MatchStep
    <2>1. book' # book
      BY <1>1
    <2> QED
      BY ZenonT(60), <2>1 DEF Next, HandlerStep, PlaceOrder, CancelOrder, CancelAllClientOrders, ForceCancelOne,
                  CancelAllDone, RejectUnpriced, EndHandler, StartMatch, EndMatch, SettleStep, EndSettle, RestOrder,
                  ReleaseOrder, bookVars, vars
  <1>3. PICK k \in NextMakers(book, taker) :
          book' = [book EXCEPT ![k] = ExecutedMaker(book[k], ExecutedQty(taker, book[k]), nextLink)]
    BY Zenon, <1>2, MatchStepEffect
  <1>4. j = k
    BY <1>1, <1>3
  <1> SUFFICES ASSUME Linked(book[i])
               PROVE  FALSE
    OBVIOUS
  <1>5. i \in Matchable(book, taker)
    BY <1>4 DEF NextMakers, Matchable, CanMatch
  <1>6. i = j \/ Ahead(book[j], book[i])
    BY <1>4, <1>5 DEF NextMakers
  <1>7. book[j].prio < book[i].prio
    BY <1>1, <1>6 DEF Ahead
  <1>8. book[i].prio < book[j].prio
    BY DEF IInv, QueueByArrival
  <1> DEFINE a == book[i].prio
             b == book[j].prio
  <1>9. a \in Nat /\ b \in Nat /\ b < a /\ a < b
    BY <1>1, <1>7, <1>8
  <1> HIDE DEF a, b
  <1> QED
    BY ONLY <1>9

\* Whatever a maker's visibility, Match never executes it while a Normal order
\* of another client that arrived earlier at the same price is still waiting.
THEOREM ArrivalPriorityHolds == Spec => ArrivalPriority
  <1>1. ASSUME IInv, [Next]_vars
        PROVE  [\A i, j \in DOMAIN book :
                  (/\ phase = "match" /\ book'[j].filled > book[j].filled
                   /\ i < j /\ book[i].vis = "Normal" /\ book[i].client # taker.client
                   /\ book[i].side = book[j].side /\ book[i].price = book[j].price)
                  => ~Linked(book[i])]_vars
    BY <1>1, ArrivalStep
  <1> QED
    BY <1>1, Invariance, PTL DEF Spec, ArrivalPriority

\* The two legs of an execution and the two fees the venue books cancel out.
LEMMA LegsCancel ==
    ASSUME NEW side \in Sides, NEW x \in Execution, NEW fee1 \in Fees, NEW fee2 \in Fees,
           NEW a \in Assets
    PROVE  LegFlow(side, x, fee1)[a] + LegFlow(OppositeSide(side), x, fee2)[a]
             + FeeIn(fee1, a) + FeeIn(fee2, a) = 0
  <1> DEFINE n == Notional(x.qty, x.price)
  <1>1. x.qty \in Nat /\ x.price \in Nat
    BY Zenon, Menu DEF Execution
  <1>2. n \in Nat
    BY Zenon, <1>1, NotionalType
  <1>3. FeeIn(fee1, a) \in Int /\ FeeIn(fee2, a) \in Int
    BY DEF FeeIn, Fees
  <1> HIDE DEF n
  <1>4. ASSUME NEW s \in Sides, NEW f \in Fees
        PROVE  LegFlow(s, x, f)[a] =
                 (IF a = Base THEN IF s = "Buy" THEN x.qty ELSE -x.qty
                  ELSE IF a = Quote THEN IF s = "Buy" THEN -n ELSE n
                  ELSE 0) - FeeIn(f, a)
    BY SpotVenueAssumption DEF LegFlow, n
  <1>5. CASE side = "Buy"
    <2>1. OppositeSide(side) = "Sell" /\ "Sell" \in Sides /\ "Buy" \in Sides
      BY <1>5 DEF OppositeSide, Sides
    <2> QED
      BY <1>1, <1>2, <1>3, <1>4, <1>5, <2>1
  <1>6. CASE side = "Sell"
    <2>1. OppositeSide(side) = "Buy" /\ "Sell" \in Sides /\ "Buy" \in Sides
      BY <1>6 DEF OppositeSide, Sides
    <2> QED
      BY <1>1, <1>2, <1>3, <1>4, <1>6, <2>1
  <1> QED
    BY <1>5, <1>6 DEF Sides

\* Only settling an execution advances the settlement counter.
LEMMA OnlySettleStepCounts ==
    ASSUME IInv, [Next]_vars, settled' = settled + 1
    PROVE  SettleStep
  <1>1. settled \in Nat
    BY DEF IInv, TypeOK
  <1>2. settled' # settled /\ settled' # 0
    BY <1>1
  <1> QED
    BY ZenonT(60), <1>2 DEF Next, HandlerStep, PlaceOrder, CancelOrder, CancelAllClientOrders, ForceCancelOne,
                CancelAllDone, RejectUnpriced, EndHandler, StartMatch, MatchStep, EndMatch, EndSettle, RestOrder, ReleaseOrder,
                planVars, vars

\* Settling one execution changes only its two parties' balances and the fee
\* revenue, and the changes sum to zero in every asset, whatever the fees are.
THEOREM SettlementIsBalanced == Spec => SettlementBalanced
  <1>1. ASSUME IInv, [Next]_vars, settled' = settled + 1, NEW a \in Assets
        PROVE  LET m == executions[settled + 1].client
                   t == taker.client
               IN  /\ (balance'[t][a] - balance[t][a]) + (balance'[m][a] - balance[m][a])
                        + (feeRevenue'[a] - feeRevenue[a]) = 0
                   /\ \A c \in Clients \ {t, m} : balance'[c][a] = balance[c][a]
    <2> DEFINE x == executions[settled + 1]
               f1 == Fee(taker.client, FALSE, x.qty, x.price)
               f2 == Fee(x.client, TRUE, x.qty, x.price)
               l1 == LegFlow(taker.side, x, f1)
               l2 == LegFlow(OppositeSide(taker.side), x, f2)
    <2>1. SettleStep
      BY <1>1, OnlySettleStepCounts
    <2>2. /\ x \in Execution
          /\ taker.client \in Clients /\ taker.side \in Sides
          /\ balance'[taker.client][a] = balance[taker.client][a] + l1[a]
          /\ balance'[x.client][a] = balance[x.client][a] + l2[a]
          /\ feeRevenue'[a] = feeRevenue[a] + FeeIn(f1, a) + FeeIn(f2, a)
          /\ \A c \in Clients \ {taker.client, x.client} : balance'[c] = balance[c]
      BY Zenon, <1>1, <2>1, SettleStepEffect
    <2>3. x.client \in Clients /\ x.qty \in Quantities /\ x.price \in Prices
      BY <2>2 DEF Execution
    <2>4. f1 \in Fees /\ f2 \in Fees
      BY Zenon, <2>2, <2>3, FeeAssumption DEF Fees
    <2>5. l1[a] + l2[a] + FeeIn(f1, a) + FeeIn(f2, a) = 0
      BY Zenon, <1>1, <2>2, <2>4, LegsCancel
    <2>6. OppositeSide(taker.side) \in Sides
      BY DEF OppositeSide, Sides
    <2>7. l1[a] \in Int /\ l2[a] \in Int
      <3>1. l1 \in [Assets -> Int]
        BY Zenon, <2>2, <2>4, LegFlowType
      <3>2. l2 \in [Assets -> Int]
        BY Zenon, <2>2, <2>4, <2>6, LegFlowType
      <3> HIDE DEF l1, l2
      <3> QED
        BY <1>1, <3>1, <3>2
    <2>8. FeeIn(f1, a) \in Int /\ FeeIn(f2, a) \in Int
      <3> HIDE DEF f1, f2
      <3> QED
        BY <2>4 DEF FeeIn, Fees
    <2>9. balance[taker.client][a] \in Int /\ balance[x.client][a] \in Int /\ feeRevenue[a] \in Int
      BY <1>1, <2>2, <2>3 DEF IInv, TypeOK
    <2> HIDE DEF x, f1, f2, l1, l2
    <2>10. (balance'[taker.client][a] - balance[taker.client][a])
             + (balance'[x.client][a] - balance[x.client][a])
             + (feeRevenue'[a] - feeRevenue[a]) = 0
      <3> DEFINE b1 == balance[taker.client][a]
                 b2 == balance[x.client][a]
                 r == feeRevenue[a]
                 k1 == l1[a]
                 k2 == l2[a]
                 e1 == FeeIn(f1, a)
                 e2 == FeeIn(f2, a)
      <3>1. b1 \in Int /\ b2 \in Int /\ r \in Int
        BY <2>9
      <3>2. k1 \in Int /\ k2 \in Int /\ e1 \in Int /\ e2 \in Int /\ k1 + k2 + e1 + e2 = 0
        BY <2>5, <2>7, <2>8
      <3>3. /\ balance'[taker.client][a] = b1 + k1
            /\ balance'[x.client][a] = b2 + k2
            /\ feeRevenue'[a] = r + e1 + e2
        BY Zenon, <2>2
      <3> HIDE DEF b1, b2, r, k1, k2, e1, e2
      <3>4. ((b1 + k1) - b1) + ((b2 + k2) - b2) + ((r + e1 + e2) - r) = 0
        BY <3>1, <3>2
      <3> QED
        BY Zenon, <3>3, <3>4 DEF b1, b2, r
    <2> QED
      BY <2>2, <2>10 DEF x
  <1>2. ASSUME IInv, [Next]_vars
        PROVE  [settled' = settled + 1 =>
                  LET m == executions[settled + 1].client
                      t == taker.client
                  IN  \A a \in Assets :
                        /\ (balance'[t][a] - balance[t][a]) + (balance'[m][a] - balance[m][a])
                             + (feeRevenue'[a] - feeRevenue[a]) = 0
                        /\ \A c \in Clients \ {t, m} : balance'[c][a] = balance[c][a]]_vars
    BY <1>1, <1>2
  <1> QED
    BY <1>2, Invariance, PTL DEF Spec, SettlementBalanced

-----------------------------------------------------------------------------
(* The totals of the ledgers.                                              *)

\* Only settling an execution moves balances or fee revenue.
LEMMA OnlySettleStepPays ==
    ASSUME [Next]_vars, ~SettleStep
    PROVE  UNCHANGED <<balance, feeRevenue>>
  BY ZenonT(60) DEF Next, HandlerStep, PlaceOrder, CancelOrder, CancelAllClientOrders,
     ForceCancelOne, CancelAllDone, RejectUnpriced, EndHandler, StartMatch, MatchStep, EndMatch,
     EndSettle, RestOrder, ReleaseOrder, ledgerVars, vars

\* What the accounts hold of an asset, and the fees paid in it.
Holdings(a) == feeRevenue[a] + SumFunction([c \in Clients |-> balance[c][a]])

\* Settling an execution keeps every asset's total.
LEMMA SettleStepConserves ==
    ASSUME IInv, IInv', SettleStep, NEW a \in Assets
    PROVE  Holdings(a)' = Holdings(a)
  <1> DEFINE x == executions[settled + 1]
             t == taker.client
             m == x.client
             f1 == Fee(t, FALSE, x.qty, x.price)
             f2 == Fee(m, TRUE, x.qty, x.price)
             l1 == LegFlow(taker.side, x, f1)[a]
             l2 == LegFlow(OppositeSide(taker.side), x, f2)[a]
             e1 == FeeIn(f1, a)
             e2 == FeeIn(f2, a)
             f == [c \in Clients |-> balance[c][a]]
             h == [c \in Clients |-> balance'[c][a]]
  <1>1. /\ x \in Execution /\ m # t /\ t \in Clients /\ taker.side \in Sides
        /\ balance'[t][a] = balance[t][a] + l1
        /\ balance'[m][a] = balance[m][a] + l2
        /\ feeRevenue'[a] = feeRevenue[a] + e1 + e2
        /\ \A c \in Clients \ {t, m} : balance'[c] = balance[c]
    BY Zenon, SettleStepEffect
  <1>2. m \in Clients /\ x.qty \in Quantities /\ x.price \in Prices
    BY <1>1 DEF Execution
  <1>3. f1 \in Fees /\ f2 \in Fees
    BY Zenon, <1>1, <1>2, FeeAssumption DEF Fees
  <1>4. OppositeSide(taker.side) \in Sides
    BY DEF OppositeSide, Sides
  <1>5. l1 + l2 + e1 + e2 = 0
    BY Zenon, <1>1, <1>3, LegsCancel
  <1>6. l1 \in Int /\ l2 \in Int
    <2>1. LegFlow(taker.side, x, f1) \in [Assets -> Int]
      BY Zenon, <1>1, <1>3, LegFlowType
    <2>2. LegFlow(OppositeSide(taker.side), x, f2) \in [Assets -> Int]
      BY Zenon, <1>1, <1>3, <1>4, LegFlowType
    <2> HIDE DEF x, f1, f2
    <2> QED
      BY <2>1, <2>2
  <1>7. e1 \in Int /\ e2 \in Int
    <2> HIDE DEF f1, f2
    <2> QED
      BY <1>3 DEF FeeIn, Fees
  <1>8. /\ balance \in [Clients -> [Assets -> Int]] /\ balance' \in [Clients -> [Assets -> Int]]
        /\ feeRevenue[a] \in Int
    BY DEF IInv, TypeOK
  <1> HIDE DEF x, l1, l2, e1, e2, f1, f2
  <1>9. /\ \A c \in Clients : f[c] \in Int /\ h[c] \in Int
        /\ \A c \in Clients \ {t, m} : h[c] = f[c]
        /\ h[t] = f[t] + l1 /\ h[m] = f[m] + l2
    BY <1>1, <1>2, <1>8
  <1>10. Holdings(a) = feeRevenue[a] + SumFunctionOnSet(f, Clients)
    BY DEF Holdings, SumFunction
  <1>11. Holdings(a)' = feeRevenue'[a] + SumFunctionOnSet(h, Clients)
    BY DEF Holdings, SumFunction
  <1> HIDE DEF f, h, t, m
  <1>12. IsFiniteSet(Clients)
    BY SpotVenueAssumption
  <1>13. SumFunctionOnSet(h, Clients) = SumFunctionOnSet(f, Clients) + (h[t] - f[t]) + (h[m] - f[m])
    BY <1>1, <1>2, <1>9, <1>12, PaymentKeepsTotal, SMTT(40)
  <1>14. SumFunctionOnSet(f, Clients) \in Int
    BY <1>9, <1>12, SumType
  <1>15. f[t] \in Int /\ f[m] \in Int
    BY <1>1, <1>2, <1>9
  <1>16. h[t] - f[t] = l1 /\ h[m] - f[m] = l2
    BY <1>6, <1>9, <1>15
  <1> DEFINE total == SumFunctionOnSet(f, Clients)
             rev == feeRevenue[a]
  <1>17. feeRevenue'[a] + SumFunctionOnSet(h, Clients) = (rev + e1 + e2) + (total + l1 + l2)
    BY <1>1, <1>13, <1>16
  <1>18. total \in Int /\ rev \in Int
    BY <1>8, <1>14
  <1> HIDE DEF total, rev
  <1>19. (rev + e1 + e2) + (total + l1 + l2) = rev + total
    BY <1>5, <1>6, <1>7, <1>18
  <1> QED
    BY <1>10, <1>11, <1>17, <1>19 DEF total, rev

\* Every step keeps what the ledgers and the fee revenue add up to.
LEMMA NextConserves == IInv /\ ValueConserved /\ [Next]_vars => ValueConserved'
  <1> SUFFICES ASSUME IInv, ValueConserved, [Next]_vars
               PROVE  ValueConserved'
    OBVIOUS
  <1>1. CASE SettleStep
    <2>1. IInv'
      BY NextInv
    <2>2. \A a \in Assets : Holdings(a)' = Holdings(a)
      BY <1>1, <2>1, SettleStepConserves
    <2> QED
      BY <2>2 DEF ValueConserved, Holdings
  <1>2. CASE ~SettleStep
    <2>1. UNCHANGED <<balance, feeRevenue>>
      BY <1>2, OnlySettleStepPays
    <2> QED
      BY <2>1 DEF ValueConserved
  <1> QED
    BY <1>1, <1>2

\* No sequence of trades, whatever the fees, rebates and rounding, creates or
\* destroys any of an asset: what the accounts hold and the venue's fee revenue
\* add up to the deposits, in every state.
THEOREM ValueIsConserved == Spec => []ValueConserved
  <1>1. Init => ValueConserved
    <2> SUFFICES ASSUME Init, NEW a \in Assets
                 PROVE  feeRevenue[a] + SumFunction([c \in Clients |-> balance[c][a]])
                          = SumFunction([c \in Clients |-> InitialBalance[c][a]])
      BY DEF ValueConserved
    <2> DEFINE f == [c \in Clients |-> InitialBalance[c][a]]
    <2>1. feeRevenue[a] = 0 /\ balance = InitialBalance
      BY DEF Init, NoFees
    <2>2. DOMAIN f = Clients /\ IsFiniteSet(Clients) /\ \A c \in Clients : f[c] \in Int
      BY SpotVenueAssumption
    <2> HIDE DEF f
    <2>3. SumFunctionOnSet(f, Clients) \in Int
      BY <2>2, SumType
    <2>4. SumFunction(f) \in Int
      BY <2>2, <2>3 DEF SumFunction
    <2> QED
      BY <2>1, <2>4 DEF f
  <1> QED
    BY <1>1, NextConserves, Invariance, PTL DEF Spec
=============================================================================
