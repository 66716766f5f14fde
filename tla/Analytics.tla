------------------------------ MODULE Analytics ------------------------------
(***************************************************************************)
(* The chart a client asks for again after each candle (the last `limit`   *)
(* ones), the indicators that MarketService.compute_indicator shows on it, *)
(* and the calculators that size a trade at its last price.                *)
(***************************************************************************)
EXTENDS Indicators, RiskCalculators, FiniteSets

CONSTANTS
    Candle,                     \* candles the exchange may send
    Period,                     \* the period asked for
    Fast, Slow, Signal,         \* macd's defaults, scaled down
    DPeriod,                    \* d_period of stochastic
    Multiplier,                 \* of supertrend
    Short, Long,                \* of detect_trend
    Balances, RiskFractions, Leverages, Prices,     \* inputs of the calculators
    Limit                       \* candles asked for

ASSUME AnalyticsAssumption ==
    /\ {Period, Fast, Slow, Signal, DPeriod, Short, Long, Limit} \subseteq Nat \ {0}
    /\ Fast < Slow
    /\ Multiplier \in Nat
    /\ Candle \subseteq [high : Rational, low : Rational, close : Rational, volume : Rational]
    /\ \A c \in Candle : /\ Less(Zero, c.low) /\ Leq(c.low, c.close) /\ Leq(c.close, c.high)
                         /\ Leq(Zero, c.volume)
    /\ Balances \cup RiskFractions \cup Leverages \cup Prices \subseteq Rational
    /\ \A x \in Leverages \cup Prices : Positive(x)
    /\ None \notin Rational \cup [line : Rational, dir : {1, -1}]

VARIABLE candles

SupportedIndicators ==
    {"rsi", "sma", "ema", "atr", "vwap", "adx", "macd", "bollinger", "stochastic", "supertrend"}

ClosesOf(cs) == [i \in DOMAIN cs |-> cs[i].close]
Closes == ClosesOf(candles)

\* compute_indicator: the primary line of each.
ComputeIndicator(name, cs) ==
    CASE name = "rsi" -> Rsi(ClosesOf(cs), Period)
      [] name = "sma" -> Sma(ClosesOf(cs), Period)
      [] name = "ema" -> Ema(ClosesOf(cs), Period)
      [] name = "atr" -> Atr(cs, Period)
      [] name = "vwap" -> Vwap(cs)
      [] name = "adx" -> Adx(cs, Period)
      [] name = "macd" -> Macd(ClosesOf(cs), Fast, Slow, Signal).line
      [] name = "bollinger" -> BollingerBands(ClosesOf(cs), Period).middle
      [] name = "stochastic" -> Stochastic(cs, Period, DPeriod).k
      [] name = "supertrend" ->
            LET trend == SuperTrend(cs, Period, Multiplier)
            IN  [i \in DOMAIN cs |-> IF trend[i] = None THEN None ELSE trend[i].line]

Init == candles = <<>>

\* The exchange closes a candle: the next fetch_ohlcv returns one more, or,
\* with Limit of them, drops the oldest.
NewCandle(c) ==
    candles' = Append(IF Len(candles) < Limit THEN candles ELSE Tail(candles), c)

Next == \E c \in Candle : NewCandle(c)

Spec == Init /\ [][Next]_candles

-----------------------------------------------------------------------------
\* The other lines, which a chart draws next to the primary ones.
AllLines ==
    {ComputeIndicator(name, candles) : name \in SupportedIndicators}
        \cup {Macd(Closes, Fast, Slow, Signal).signal,
              Macd(Closes, Fast, Slow, Signal).hist,
              BollingerBands(Closes, Period).variance,
              Stochastic(candles, Period, DPeriod).d,
              SuperTrend(candles, Period, Multiplier)}

(***************************************************************************)
(* "lists aligned to the input length, using None for leading positions    *)
(* where the indicator is not yet defined": also where adx, macd and %D    *)
(* shift a shorter list, and where nothing moved or nothing was traded.    *)
(***************************************************************************)
NoneOnlyLeads ==
    \A line \in AllLines :
        /\ Len(line) = Len(candles)
        /\ \A i \in 2..Len(line) : line[i] = None => line[i - 1] = None

(***************************************************************************)
(* The value shown for a candle does not change when the next one comes    *)
(* in: while the chart grows, for every indicator (but adx over a single   *)
(* candle, whose holes move with the offset), and once the window slides,  *)
(* for those that depend on their last candles alone.  The others start    *)
(* from the oldest candle, and are computed anew from another one.         *)
(***************************************************************************)
NoRepaint ==
    [][ \A name \in SupportedIndicators :
            LET before == ComputeIndicator(name, candles)
                after == ComputeIndicator(name, candles')
                n == Len(candles)
            IN  /\ Len(candles') > n /\ (name = "adx" => Period > 1)
                      => \A i \in 1..n : after[i] = before[i]
                /\ Len(candles') = n /\ name \in {"sma", "bollinger", "stochastic"}
                      => \A i \in (Period + 1)..n : after[i - 1] = before[i]
      ]_candles

Between(low, x, high) == Leq(low, x) /\ Leq(x, high)

(***************************************************************************)
(* The oscillators stay on their scale of 0 to 100 (rsi, both lines of     *)
(* stochastic, adx), with flat stretches and gaps between candles as well. *)
(***************************************************************************)
OscillatorsInRange ==
    \A line \in {Rsi(Closes, Period), Adx(candles, Period),
                 Stochastic(candles, Period, DPeriod).k,
                 Stochastic(candles, Period, DPeriod).d} :
        \A i \in DOMAIN line : line[i] # None => Between(Zero, line[i], Hundred)

(***************************************************************************)
(* The running sum of sma never drifts from the mean of its window, ema    *)
(* and vwap stay between the extreme prices they average, and the trend is *)
(* up (down) only where the short mean is above (below) the long one.      *)
(***************************************************************************)
AveragesAverage ==
    LET n == Len(candles)
        extremes == Extremes(candles)
        mean(i, period) == Mean(WindowAt(Closes, i, period))
        trend == DetectTrend(Closes, Short, Long)
    IN  /\ \A i \in Period..n : Sma(Closes, Period)[i] = mean(i, Period)
        /\ n > 0 => \A line \in {Ema(Closes, Period), Vwap(candles)} :
                        line[n] # None => Between(extremes.low, line[n], extremes.high)
        /\ trend = "up" => Less(mean(n, Long), mean(n, Short))
        /\ trend = "down" => Less(mean(n, Short), mean(n, Long))

(***************************************************************************)
(* SuperTrend trails: while the direction stays, the line never moves away *)
(* from the price, and the price does not end up beyond it.                *)
(***************************************************************************)
SuperTrendTrails ==
    LET trend == SuperTrend(candles, Period, Multiplier)
    IN  \A i \in (Period + 1)..Len(candles) :
            trend[i].dir = trend[i - 1].dir
                => IF trend[i].dir = 1
                   THEN Leq(trend[i - 1].line, trend[i].line) /\ Leq(trend[i].line, candles[i].close)
                   ELSE Leq(trend[i].line, trend[i - 1].line) /\ Leq(candles[i].close, trend[i].line)

(***************************************************************************)
(* position_size, at the last close: hitting the stop loses exactly the    *)
(* returned risk amount if balance times leverage buys such a position.    *)
(* If not, the position is all that this buys and the stop loses less: the *)
(* "exactly" of the docstring, and risk_amount as "the currency amount at  *)
(* risk", do not hold of a capped position.                                *)
(***************************************************************************)
SizedToRisk ==
    candles # <<>> =>
        \A balance \in Balances, fraction \in RiskFractions, leverage \in Leverages, stop \in Prices :
            LET entry == Last(candles).close
                sizing == PositionSize(balance, fraction, entry, stop, leverage)
                loss == Zero -- Pnl(IF Less(stop, entry) THEN "buy" ELSE "sell",
                                    entry, stop, sizing.quantity, Zero)
                power == balance ** leverage
            IN  sizing # Invalid =>
                    \/ loss = sizing.riskAmount /\ Leq(sizing.notional, power)
                    \/ Less(loss, sizing.riskAmount) /\ sizing.notional = power

(***************************************************************************)
(* The calculators agree with each other, for longs and for shorts: at the *)
(* liquidation price, if there is one, the loss is the margin less the     *)
(* maintenance margin, and the reward-to-risk ratio is the profit at the   *)
(* target over the loss at the stop.                                       *)
(***************************************************************************)
CalculatorsAgree ==
    candles # <<>> =>
        \A leverage \in Leverages, side \in {"buy", "sell"}, stop \in Prices, target \in Prices :
            LET entry == Last(candles).close
                mmr == Frac(1, 200)
                liquidation == LiquidationPrice(side, entry, leverage, mmr)
                gain(exit) == Pnl(side, entry, exit, Rat(1), Zero)
            IN  /\ Positive(liquidation)
                      => gain(liquidation) = (entry ** mmr) -- (entry // leverage)
                /\ Less(gain(stop), Zero) /\ Less(Zero, gain(target))
                      => RiskRewardRatio(entry, stop, target) ** (Zero -- gain(stop)) = gain(target)
=============================================================================
