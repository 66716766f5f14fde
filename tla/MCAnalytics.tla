---------------------------- MODULE MCAnalytics ----------------------------
(***************************************************************************)
(* Windows of up to five candles, which then slide: flat candles, with and *)
(* without trades, and moves and gaps in both directions.                  *)
(***************************************************************************)
EXTENDS Analytics

OHLC(high, low, close, volume) ==
    [high |-> Rat(high), low |-> Rat(low), close |-> Rat(close), volume |-> Rat(volume)]

MCCandles == {OHLC(2, 2, 2, 0), OHLC(2, 2, 2, 1), OHLC(3, 1, 3, 1),
              OHLC(3, 1, 1, 2), OHLC(8, 6, 7, 1)}
MCBalances == {Rat(100)}
MCFractions == {Frac(1, 100), Rat(1)}
MCLeverages == {Frac(1, 2), Rat(1), Rat(5)}
MCPrices == {Rat(1), Rat(2), Rat(4), Rat(8)}
=============================================================================
