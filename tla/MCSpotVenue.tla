---------------------------- MODULE MCSpotVenue ----------------------------
(***************************************************************************)
(* Instances of SpotVenue for TLC: request menus, fee schedules and        *)
(* deposits chosen so that partial fills, refreshes, evictions, self-trade *)
(* cancels and unfunded remainders all happen with a handful of orders.    *)
(***************************************************************************)
EXTENDS SpotVenue

CONSTANTS Alice, Bob

MCClients == {Alice, Bob}
MCAssets == {"BTC", "USD", "FEE"}

Limit(side, tif, price, qty, vis, ice) ==
    [side |-> side, type |-> "Limit", tif |-> tif, postOnly |-> FALSE,
     price |-> price, qty |-> qty, vis |-> vis, icebergQty |-> ice]

PostOnly(side, price, qty) ==
    [Limit(side, "GTC", price, qty, "Normal", 0) EXCEPT !.postOnly = TRUE]

Market(side, qty) ==
    [side |-> side, type |-> "Market", tif |-> "IOC", postOnly |-> FALSE,
     price |-> 0, qty |-> qty, vis |-> "Normal", icebergQty |-> 0]

Deposit(btc, usd, fee) ==
    [a \in MCAssets |-> CASE a = "BTC" -> btc [] a = "USD" -> usd [] OTHER -> fee]

-----------------------------------------------------------------------------
(* One client pays a unit of a third asset per fill, and has few of them;  *)
(* the other earns rebates and pays taker fees in quote.  Notionals round  *)
(* (the precision is 2), and deposits are near the largest integer (8): a  *)
(* level's total and a buyer's balance can both overflow.                  *)

MixedFee(c, isMaker, qty, price) ==
    IF c = Alice THEN [asset |-> "FEE", amount |-> 1]
    ELSE [asset |-> "USD", amount |-> IF isMaker THEN -1 ELSE 1]

MixedRequests ==
    {Limit("Sell", "GTC", 3, 3, "Iceberg", 1),
     Limit("Sell", "GTC", 2, 1, "Hidden", 0),
     Limit("Sell", "GTC", 3, 1, "Normal", 0),
     Limit("Buy", "GTC", 3, 2, "Normal", 0),
     Limit("Buy", "GTC", 3, 1, "Hidden", 0),
     Limit("Buy", "FOK", 3, 3, "Normal", 0),
     PostOnly("Buy", 1, 1),
     Limit("Buy", "IOC", 3, 2, "Normal", 0),
     Market("Buy", 2),
     Market("Sell", 2)}

MixedDeposit ==
    [c \in MCClients |-> IF c = Alice THEN Deposit(8, 4, 2) ELSE Deposit(3, 8, 0)]

=============================================================================
