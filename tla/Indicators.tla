------------------------------ MODULE Indicators ------------------------------
(***************************************************************************)
(* The technical indicators (app/analytics/indicators.py).  A series has   *)
(* one value for each candle; None stands where it is not defined yet.     *)
(***************************************************************************)
EXTENDS Rationals, Sequences, SequencesExt

CONSTANT None

Nones(n) == [i \in 1..n |-> None]

\* What the values add up to, up to each position.
Sums(values) ==
    LET sum[i \in 0..Len(values)] == IF i = 0 THEN Zero ELSE sum[i - 1] ++ values[i]
    IN  sum

SumOf(values) == Sums(values)[Len(values)]
Mean(values) == SumOf(values) // Rat(Len(values))

\* The `period` values that end at position i.
WindowAt(values, i, period) == SubSeq(values, i - period + 1, i)

\* [v for v in series if v is not None]
Defined(series) ==
    LET kept[i \in 0..Len(series)] ==
            IF i = 0 THEN <<>>
            ELSE IF series[i] = None THEN kept[i - 1] ELSE Append(kept[i - 1], series[i])
    IN  kept[Len(series)]

Highest(values) == CHOOSE x \in Range(values) : \A y \in Range(values) : Leq(y, x)
Lowest(values) == CHOOSE x \in Range(values) : \A y \in Range(values) : Leq(x, y)

\* The highest high and the lowest low of some candles.
Extremes(window) ==
    [high |-> Highest([i \in DOMAIN window |-> window[i].high]),
     low |-> Lowest([i \in DOMAIN window |-> window[i].low])]

\* A shorter series put at the end of n positions (offset = n - len(values)).
AtTheEnd(n, values) ==
    [i \in 1..n |-> IF i <= n - Len(values) THEN None ELSE values[i - (n - Len(values))]]

\* Mutant of Sma: the value that leaves the window is the next one.
SmaOffByOne(values, period) ==
    LET sum[i \in period..Len(values)] ==
            IF i = period THEN SumOf(SubSeq(values, 1, period))
            ELSE sum[i - 1] ++ (values[i] -- values[i - period + 1])
    IN  [i \in 1..Len(values) |-> IF i < period THEN None ELSE sum[i] // Rat(period)]

\* sma: a running sum.
Sma(values, period) ==
    LET sum[i \in period..Len(values)] ==
            IF i = period THEN SumOf(SubSeq(values, 1, period))
            ELSE sum[i - 1] ++ (values[i] -- values[i - period])
    IN  [i \in 1..Len(values) |-> IF i < period THEN None ELSE sum[i] // Rat(period)]

\* ema, seeded with the mean of the first values.
Ema(values, period) ==
    LET multiplier == Frac(2, period + 1)
        ema[i \in period..Len(values)] ==
            IF i = period THEN Mean(SubSeq(values, 1, period))
            ELSE LET prev == ema[i - 1] IN ((values[i] -- prev) ** multiplier) ++ prev
    IN  [i \in 1..Len(values) |-> IF i < period THEN None ELSE ema[i]]

\* Mutant of WilderSmoothing: seeded with the last values.
WilderSeededLate(values, period) ==
    LET rma[i \in period..Len(values)] ==
            IF i = period THEN Mean(SubSeq(values, Len(values) - period + 1, Len(values)))
            ELSE ((rma[i - 1] ** Rat(period - 1)) ++ values[i]) // Rat(period)
    IN  [i \in 1..Len(values) |-> IF i < period THEN None ELSE rma[i]]

\* wilder_smoothing
WilderSmoothing(values, period) ==
    LET rma[i \in period..Len(values)] ==
            IF i = period THEN Mean(SubSeq(values, 1, period))
            ELSE ((rma[i - 1] ** Rat(period - 1)) ++ values[i]) // Rat(period)
    IN  [i \in 1..Len(values) |-> IF i < period THEN None ELSE rma[i]]

-----------------------------------------------------------------------------
\* _rsi_from
RsiFrom(gain, loss) ==
    IF loss = Zero THEN Hundred
    ELSE Hundred -- (Hundred // (Rat(1) ++ (gain // loss)))

\* The changes begin at the second close.
Gains(closes) == [i \in 1..(Len(closes) - 1) |-> MaxOf(closes[i + 1] -- closes[i], Zero)]
Losses(closes) == [i \in 1..(Len(closes) - 1) |-> MaxOf(Zero -- (closes[i + 1] -- closes[i]), Zero)]

\* rsi: Wilder's smoothing of the gains and of the losses.
Rsi(closes, period) ==
    LET gains == WilderSmoothing(Gains(closes), period)
        losses == WilderSmoothing(Losses(closes), period)
    IN  [i \in 1..Len(closes) |-> IF i <= period THEN None
                                  ELSE RsiFrom(gains[i - 1], losses[i - 1])]

\* macd: the line, its signal and the histogram.
Macd(closes, fast, slow, signal) ==
    LET n == Len(closes)
        fastEma == Ema(closes, fast)
        slowEma == Ema(closes, slow)
        line == [i \in 1..n |-> IF fastEma[i] = None \/ slowEma[i] = None THEN None
                                ELSE fastEma[i] -- slowEma[i]]
        signalLine == AtTheEnd(n, Ema(Defined(line), signal))
    IN  [line |-> line, signal |-> signalLine,
         hist |-> [i \in 1..n |-> IF line[i] = None \/ signalLine[i] = None THEN None
                                  ELSE line[i] -- signalLine[i]]]

\* bollinger_bands: the middle band, and the variance whose root sets the
\* distance of the other two.
BollingerBands(closes, period) ==
    LET middle == Sma(closes, period)
        variance(i) == Mean([j \in 1..period |->
                          LET x == WindowAt(closes, i, period)[j] -- middle[i] IN x ** x])
    IN  [middle |-> middle,
         variance |-> [i \in 1..Len(closes) |-> IF i < period THEN None ELSE variance(i)]]

-----------------------------------------------------------------------------
\* true_range
TrueRange(candles) ==
    [i \in 1..Len(candles) |->
        LET c == candles[i]
            prevClose == candles[i - 1].close
        IN  IF i = 1 THEN c.high -- c.low
            ELSE MaxOf(c.high -- c.low,
                       MaxOf(AbsOf(c.high -- prevClose), AbsOf(c.low -- prevClose)))]

\* atr
Atr(candles, period) == WilderSmoothing(TrueRange(candles), period)

Typical(c) == (c.high ++ c.low ++ c.close) // Rat(3)

\* Mutant of Vwap: undefined whenever nothing was traded in a candle.
VwapSkipsQuiet(candles) ==
    LET pv(i) == SumOf([j \in 1..i |-> Typical(candles[j]) ** candles[j].volume])
        volume(i) == SumOf([j \in 1..i |-> candles[j].volume])
    IN  [i \in 1..Len(candles) |-> IF candles[i].volume = Zero THEN None ELSE pv(i) // volume(i)]

\* vwap, over all the candles so far.
Vwap(candles) ==
    LET pv(i) == SumOf([j \in 1..i |-> Typical(candles[j]) ** candles[j].volume])
        volume(i) == SumOf([j \in 1..i |-> candles[j].volume])
    IN  [i \in 1..Len(candles) |-> IF Less(Zero, volume(i)) THEN pv(i) // volume(i) ELSE None]

\* Mutant of WindowExtremes: the window ends before the candle itself.
WindowBefore(candles, i, period) ==
    Extremes(SubSeq(candles, i - period + 1, IF period = 1 THEN i ELSE i - 1))

WindowExtremes(candles, i, period) == Extremes(WindowAt(candles, i, period))

\* %K: where the close stands between the extremes of its window.
PercentK(close, e) ==
    IF Less(e.low, e.high) THEN (Hundred ** (close -- e.low)) // (e.high -- e.low) ELSE Zero

\* stochastic: %K and %D.
Stochastic(candles, kPeriod, dPeriod) ==
    LET n == Len(candles)
        k == [i \in 1..n |->
                IF i < kPeriod THEN None
                ELSE PercentK(candles[i].close, WindowExtremes(candles, i, kPeriod))]
    IN  [k |-> k, d |-> AtTheEnd(n, Sma(Defined(k), dPeriod))]

-----------------------------------------------------------------------------
\* The larger of two moves, if it is one upwards (plus_dm) or downwards (minus_dm).
Move(mine, other) == IF Less(other, mine) /\ Less(Zero, mine) THEN mine ELSE Zero

UpMove(candles, i) == candles[i].high -- candles[i - 1].high
DownMove(candles, i) == candles[i - 1].low -- candles[i].low

PlusDm(candles) ==
    [i \in 1..Len(candles) |->
        IF i = 1 THEN Zero ELSE Move(UpMove(candles, i), DownMove(candles, i))]
MinusDm(candles) ==
    [i \in 1..Len(candles) |->
        IF i = 1 THEN Zero ELSE Move(DownMove(candles, i), UpMove(candles, i))]

\* The directional index of one candle, from the smoothed moves and range.
DirectionalIndex(plus, minus, range) ==
    LET plusDi == (Hundred ** plus) // range
        minusDi == (Hundred ** minus) // range
        denom == plusDi ++ minusDi
    IN  IF Less(Zero, denom) THEN (Hundred ** AbsOf(plusDi -- minusDi)) // denom ELSE Zero

\* dx: it is left undefined where the range is zero.
Dx(candles, period) ==
    LET atr == Atr(candles, period)
        plus == WilderSmoothing(PlusDm(candles), period)
        minus == WilderSmoothing(MinusDm(candles), period)
    IN  [i \in 1..Len(candles) |-> IF atr[i] = None \/ atr[i] = Zero THEN None
                                   ELSE DirectionalIndex(plus[i], minus[i], atr[i])]

\* adx: Wilder's smoothing of what is defined of dx.
Adx(candles, period) ==
    LET n == Len(candles)
    IN  IF n < 2 * period - 1 THEN Nones(n)
        ELSE AtTheEnd(n, WilderSmoothing(Defined(Dx(candles, period)), period))

\* Mutant of Trail: the line follows the price in both directions.
TrailLoosely(prev, upper, lower, close) ==
    IF prev = None THEN [line |-> lower, dir |-> 1]
    ELSE IF prev.dir = 1
         THEN IF Less(close, lower) THEN [line |-> upper, dir |-> -1]
              ELSE [line |-> lower, dir |-> 1]
         ELSE IF Less(upper, close) THEN [line |-> lower, dir |-> 1]
              ELSE [line |-> upper, dir |-> -1]

\* One candle of the SuperTrend line: it only moves towards the price, until
\* the price crosses it.
Trail(prev, upper, lower, close) ==
    IF prev = None THEN [line |-> lower, dir |-> 1]
    ELSE IF prev.dir = 1
         THEN LET raised == MaxOf(lower, prev.line)
              IN  IF Less(close, raised) THEN [line |-> upper, dir |-> -1]
                  ELSE [line |-> raised, dir |-> 1]
         ELSE LET lowered == MinOf(upper, prev.line)
              IN  IF Less(lowered, close) THEN [line |-> lower, dir |-> 1]
                  ELSE [line |-> lowered, dir |-> -1]

\* supertrend: line and direction.
SuperTrend(candles, period, multiplier) ==
    LET atr == Atr(candles, period)
        trend[i \in 0..Len(candles)] ==
            IF i < period THEN None
            ELSE LET hl2 == (candles[i].high ++ candles[i].low) // Rat(2)
                     width == Rat(multiplier) ** atr[i]
                 IN  Trail(trend[i - 1], hl2 ++ width, hl2 -- width, candles[i].close)
    IN  [i \in 1..Len(candles) |-> trend[i]]

-----------------------------------------------------------------------------
\* detect_trend
DetectTrend(closes, short, long) ==
    LET s == Last(Sma(closes, short))
        l == Last(Sma(closes, long))
        spread == IF l = Zero THEN Zero ELSE (s -- l) // l
    IN  IF Len(closes) < long \/ s = None \/ l = None THEN "unknown"
        ELSE IF Less(Frac(1, 1000), spread) THEN "up"
        ELSE IF Less(spread, Frac(-1, 1000)) THEN "down"
        ELSE "sideways"
=============================================================================
