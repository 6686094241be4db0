-------------------------- MODULE MCDerivativeVenue --------------------------
(***************************************************************************)
(* The instances of DerivativeVenue that TLC checks: three clients, one    *)
(* perpetual and one dated future, a base precision of two so that every   *)
(* odd quantity leaves a remainder.  A scenario is chosen once and fixed.  *)
(***************************************************************************)
EXTENDS DerivativeVenue

MCClients == 1..3
MCFutures == {"FUT"}
MCSymbolOrder == <<"FUT", "PERP">>

Req(c, s, leg, side, type, tif, price, qty) ==
    [client |-> c, sym |-> s, leg |-> leg, side |-> side, type |-> type, tif |-> tif,
     price |-> price, qty |-> qty]

Limit(c, s, leg, side, price, qty) == Req(c, s, leg, side, "Limit", "GTC", price, qty)
Market(c, s, leg, side, qty) == Req(c, s, leg, side, "Market", "IOC", 0, qty)

Quiet == [requests |-> <<>>, marks |-> {}, references |-> {}, rates |-> {}, borrowers |-> {},
          transfers |-> {}, loans |-> {}, spotOrders |-> {}, maxEpoch |-> 0,
          maxSamples |-> 2, maxListings |-> 0, maxTime |-> 1]

\* Partial fills, flips, remainders and hedge legs on the perpetual, in any
\* order.
Trades == {Limit(1, "PERP", "Both", "Buy", 10, 3), Limit(2, "PERP", "Both", "Sell", 9, 1),
           Market(2, "PERP", "Both", "Buy", 3), Limit(3, "PERP", "Long", "Buy", 11, 3),
           Limit(3, "PERP", "Long", "Sell", 10, 1), Market(3, "PERP", "Long", "Sell", 2),
           Req(1, "PERP", "Both", "Sell", "Limit", "FOK", 10, 3)}
Trading == [Quiet EXCEPT !.requests = <<Trades, Trades, Trades, Trades, Trades>>]

\* Funding between one long and two shorts, at either sign of the rate, with
\* and without a mark.
Funding == [Quiet EXCEPT
    !.requests = <<{Limit(1, "PERP", "Both", "Buy", 10, 3)}, {Limit(2, "PERP", "Both", "Sell", 10, 2)},
                   {Limit(3, "PERP", "Short", "Sell", 10, 1)}>>,
    !.marks = {10}, !.rates = {1500, -1500}, !.maxEpoch = 2, !.maxTime = 3]

\* Liquidation of an account with two exposures, into a book that cannot absorb
\* all of it, while one of the contracts expires.
Liquidation == [Quiet EXCEPT
    !.requests = <<{Limit(1, "PERP", "Both", "Buy", 12, 3)}, {Limit(2, "PERP", "Both", "Sell", 12, 2)},
                   {Limit(2, "FUT", "Both", "Sell", 12, 2), Limit(3, "PERP", "Both", "Buy", 6, 1)},
                   {Market(1, "FUT", "Long", "Buy", 2)},
                   {Limit(3, "PERP", "Both", "Buy", 2, 2)}>>,
    !.marks = {4}, !.references = {7}, !.maxEpoch = 1, !.maxSamples = 0,
    !.maxListings = 1, !.maxTime = 2]

\* Expiry of a traded contract without a reference, deferral and settlement at
\* the mean of its samples.
Expiry == [Quiet EXCEPT
    !.requests = <<{Limit(1, "FUT", "Both", "Buy", 10, 3)},
                   {Limit(2, "FUT", "Both", "Sell", 10, 2)},
                   {Limit(3, "FUT", "Short", "Sell", 9, 1)}>>,
    !.references = {7, 12}, !.maxEpoch = 1, !.maxListings = 1, !.maxTime = 3]

\* A contract expires and is listed again under passes that saw the old one.
Relisting == [Quiet EXCEPT
    !.requests = <<{Limit(1, "FUT", "Both", "Buy", 10, 3)}>>,
    !.marks = {10}, !.references = {7}, !.maxEpoch = 2, !.maxSamples = 1,
     !.maxListings = 2, !.maxTime = 3]

\* Borrowing for margin and for a spot order, and liquidation of the borrower.
Credit == [Quiet EXCEPT
    !.requests = <<{Limit(1, "PERP", "Both", "Buy", 12, 5)}, {Limit(2, "PERP", "Both", "Sell", 12, 5)},
                   {Limit(3, "PERP", "Both", "Buy", 6, 5)}>>,
    !.marks = {6}, !.borrowers = {1}, !.loans = {5}, !.spotOrders = {9},
    !.maxEpoch = 1]

\* Loans into both wallets, transfers between them, repayment and interest.
Wallets == [Quiet EXCEPT
    !.borrowers = {1}, !.transfers = {5}, !.loans = {5}, !.spotOrders = {9}, !.maxTime = 2]

MCScenarios == {Trading, Funding, Liquidation, Expiry, Relisting, Credit, Wallets}
MCCredit == {[Quiet EXCEPT !.borrowers = {1}, !.transfers = {4}, !.spotOrders = {9}]}
=============================================================================
