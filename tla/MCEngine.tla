------------------------------ MODULE MCEngine ------------------------------
(* Engine for TLC: a buy that rests and is cut into slices, a sell of the  *)
(* same size that is IOC, and an order the venue does not trade.           *)
EXTENDS Engine, TLC

Limit(side, tif, qty, px) ==
    [symbol |-> "PERP", side |-> side, ordType |-> "LIMIT", tif |-> tif, qty |-> qty,
     whole |-> TRUE, limitPx |-> px]

BuyGTC  == Limit("buy", "GTC", 3, 3)
SellIOC == Limit("sell", "IOC", 3, 2)
Unknown == Limit("buy", "DAY", 1, 3)

AllTerms   == {BuyGTC, SellIOC, Unknown}
TwoTouches == {[bid |-> 2, ask |-> 3], [bid |-> 3, ask |-> 4]}
=============================================================================
