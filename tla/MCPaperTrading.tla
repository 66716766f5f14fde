--------------------------- MODULE MCPaperTrading ---------------------------
(***************************************************************************)
(* Small instances of PaperTrading: two prices, a 10% fee, one pair, or    *)
(* three assets and the cross pair ETH/BTC.                                *)
(***************************************************************************)
EXTENDS PaperTrading, TLC

CONSTANTS BTC, ETH, USDT

OnePair == {BTC, USDT}
ThreeAssets == {BTC, ETH, USDT}

Body(side, type, base, quote, price, postOnly, leverage) ==
    [side |-> side, type |-> type, base |-> base, quote |-> quote, amount |-> 10,
     price |-> price, postOnly |-> postOnly, leverage |-> leverage]

MarketBuy == Body("buy", "market", BTC, USDT, NoPrice, FALSE, 1)
LimitBuy == Body("buy", "limit", BTC, USDT, 1, FALSE, 1)     \* rests while the price is 2
PostOnlySell == Body("sell", "limit", BTC, USDT, 2, TRUE, 1) \* always rests
SellETHForBTC == Body("sell", "market", ETH, BTC, NoPrice, FALSE, 1)
BuyETHWithBTC == Body("buy", "limit", ETH, BTC, 1, FALSE, 5)

TwoPrices == {1, 2}

\* An account that has traded: the rows of all its assets exist.
Established ==
    (USDT :> Held(45, 0)) @@ (BTC :> Held(12, 0)) @@ (ETH :> Held(10, 0))
\* An account that was created and never used.
Unused == [a \in OnePair |-> Absent]
\* An account that holds quote only: its first orders rested and were cancelled.
QuoteOnly == [a \in OnePair |-> IF a = USDT THEN Held(100, 0) ELSE Absent]

FirstUseKinds == {MarketBuy, LimitBuy}
FourKinds == {MarketBuy, PostOnlySell, SellETHForBTC, BuyETHWithBTC}
OnlyMarketBuy == {MarketBuy}

Symmetry == Permutations(Req)
=============================================================================
