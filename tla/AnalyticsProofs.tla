--------------------------- MODULE AnalyticsProofs --------------------------
(***************************************************************************)
(* Proofs about the technical indicators and the risk calculators, for     *)
(* every chart, every number of candles and every parameter.  The only     *)
(* state is the chart, and its type is the inductive invariant; everything *)
(* else is said of any chart, one indicator after the other: what its      *)
(* recursive definition computes, where it is defined, within which bounds *)
(* it stays and that later candles leave it alone.                         *)
(***************************************************************************)
EXTENDS Analytics, ArithmeticTheorems, SequenceTheorems

-----------------------------------------------------------------------------
(***************************************************************************)
(* The chart.                                                              *)
(***************************************************************************)

\* A sequence is a function on 1..Len.
LEMMA SeqIs ==
  ASSUME NEW S, NEW s \in Seq(S)
  PROVE  Len(s) \in Nat /\ DOMAIN s = 1..Len(s) /\ s \in [1..Len(s) -> S]
OBVIOUS

\* The parameters of the indicators.
LEMMA Parameters ==
  /\ Period \in Nat \ {0} /\ Fast \in Nat \ {0} /\ Slow \in Nat \ {0} /\ Signal \in Nat \ {0}
  /\ DPeriod \in Nat \ {0} /\ Short \in Nat \ {0} /\ Long \in Nat \ {0}
  /\ Fast < Slow /\ Multiplier \in Nat /\ Limit \in Nat \ {0}
  /\ None \notin Rational
  /\ \A x \in [line : Rational, dir : {1, -1}] : x # None
BY AnalyticsAssumption

\* A candle's prices are positive and its close lies between its extremes.
LEMMA CandleIs ==
  ASSUME NEW c \in Candle
  PROVE  /\ c.high \in Rational /\ c.low \in Rational /\ c.close \in Rational
         /\ c.volume \in Rational
         /\ Less(Zero, c.low) /\ Leq(c.low, c.close) /\ Leq(c.close, c.high) /\ Leq(c.low, c.high)
         /\ Less(Zero, c.close) /\ Leq(Zero, c.volume)
<1>1. /\ c.high \in Rational /\ c.low \in Rational /\ c.close \in Rational
      /\ c.volume \in Rational
      /\ Less(Zero, c.low) /\ Leq(c.low, c.close) /\ Leq(c.close, c.high) /\ Leq(Zero, c.volume)
  BY AnalyticsAssumption
<1> DEFINE h == c.high
           l == c.low
           x == c.close
<1> HIDE DEF h, l, x
<1>2. /\ h \in Rational /\ l \in Rational /\ x \in Rational
      /\ Less(Zero, l) /\ Leq(l, x) /\ Leq(x, h)
  BY <1>1 DEF h, l, x
<1>3. Leq(l, h)
  BY <1>2, LeqTransitive
<1>4. Less(Zero, x)
  <2>1. SUFFICES ASSUME Leq(x, Zero) PROVE FALSE
    BY <1>2, ZeroIs, TotalOrder
  <2>2. Leq(l, Zero)
    BY <1>2, <2>1, ZeroIs, LeqTransitive
  <2>3. QED
    BY <1>2, <2>2, ZeroIs, TotalOrder
<1>5. QED
  BY <1>1, <1>3, <1>4 DEF h, l, x

\* The candles of a chart.
LEMMA ChartIs ==
  ASSUME NEW cs \in Seq(Candle)
  PROVE  /\ Len(cs) \in Nat /\ DOMAIN cs = 1..Len(cs)
         /\ \A i \in 1..Len(cs) : cs[i] \in Candle
BY SeqIs

\* The first p values.
LEMMA Prefix ==
  ASSUME NEW S, NEW v \in Seq(S), NEW p \in 0..Len(v)
  PROVE  /\ SubSeq(v, 1, p) \in Seq(S)
         /\ Len(SubSeq(v, 1, p)) = p
         /\ \A i \in 1..p : SubSeq(v, 1, p)[i] = v[i]
OBVIOUS

\* v begins with u.
Extends(v, u) == Len(u) <= Len(v) /\ \A i \in 1..Len(u) : v[i] = u[i]

\* The last candle of a chart.
LEMMA LastIs ==
  ASSUME NEW cs \in Seq(Candle), cs # <<>>
  PROVE  Last(cs) \in Candle
<1>1. Len(cs) \in Nat \ {0}
  OBVIOUS
<1>2. QED
  BY <1>1, ChartIs DEF Last

\* The state of the specification is a chart.
ChartType == candles \in Seq(Candle)

\* What NewCandle does to a chart: it grows, or it slides by one.
LEMMA NewCandleIs ==
  ASSUME ChartType, Next
  PROVE  /\ candles' \in Seq(Candle)
         /\ \/ Extends(candles', candles) /\ Len(candles') = Len(candles) + 1
            \/ /\ Len(candles') = Len(candles)
               /\ \A i \in 2..Len(candles) : candles'[i - 1] = candles[i]
<1>1. PICK c \in Candle : NewCandle(c)
  BY DEF Next
<1>2. candles \in Seq(Candle) /\ Len(candles) \in Nat
  BY DEF ChartType
<1>3. CASE Len(candles) < Limit
  <2>1. candles' = Append(candles, c)
    BY <1>1, <1>3 DEF NewCandle
  <2>2. QED
    BY <1>2, <2>1 DEF Extends
<1>4. CASE ~(Len(candles) < Limit)
  <2>1. candles' = Append(Tail(candles), c)
    BY <1>1, <1>4 DEF NewCandle
  <2>2. Len(candles) # 0 /\ candles # <<>>
    BY <1>2, <1>4, Parameters
  <2>3. /\ Tail(candles) \in Seq(Candle) /\ Len(Tail(candles)) = Len(candles) - 1
        /\ \A i \in 1..(Len(candles) - 1) : Tail(candles)[i] = candles[i + 1]
    BY <1>2, <2>2
  <2> DEFINE t == Tail(candles)
  <2> HIDE DEF t
  <2>4. /\ candles' \in Seq(Candle) /\ Len(candles') = Len(candles)
        /\ \A i \in 1..(Len(candles) - 1) : candles'[i] = candles[i + 1]
    BY <1>2, <2>1, <2>2, <2>3
  <2>5. ASSUME NEW i \in 2..Len(candles) PROVE candles'[i - 1] = candles[i]
    <3>1. i - 1 \in 1..(Len(candles) - 1) /\ (i - 1) + 1 = i
      BY <1>2
    <3>2. QED
      BY <2>4, <3>1
  <2>6. QED
    BY <2>4, <2>5
<1>5. QED
  BY <1>3, <1>4

\* The state stays a chart.
LEMMA ChartInvariant == Spec => []ChartType
<1>1. Init => ChartType
  BY DEF Init, ChartType
<1>2. ChartType /\ [Next]_candles => ChartType'
  BY NewCandleIs DEF ChartType
<1>3. QED
  BY <1>1, <1>2, PTL DEF Spec

-----------------------------------------------------------------------------
(***************************************************************************)
(* The calculators of risk.py.                                             *)
(***************************************************************************)

\* pnl without fees is the price difference times the quantity.
LEMMA GainWithoutFees ==
  ASSUME NEW side, NEW entry \in Rational, NEW exit \in Rational, NEW quantity \in Rational,
         Positive(entry), Positive(exit), Positive(quantity)
  PROVE  Pnl(side, entry, exit, quantity, Zero)
            = (IF side = "buy" THEN exit -- entry ELSE entry -- exit) ** quantity
<1> DEFINE move == IF side = "buy" THEN exit -- entry ELSE entry -- exit
           turnover == (entry ++ exit) ** quantity
<1>1. move \in Rational /\ turnover \in Rational
  <2>1. entry ++ exit \in Rational
    BY Closed
  <2>2. exit -- entry \in Rational /\ entry -- exit \in Rational
    BY Closed
  <2>3. QED
    BY <2>1, <2>2, Closed
<1>2. Pnl(side, entry, exit, quantity, Zero) = (move ** quantity) -- (turnover ** Zero)
  BY DEF Pnl
<1> HIDE DEF move, turnover
<1>3. move ** quantity \in Rational
  BY <1>1, Closed
<1>4. turnover ** Zero = Zero
  BY <1>1, Products, ZeroIs
<1>5. (move ** quantity) -- Zero = move ** quantity
  BY <1>3, Products
<1>6. QED
  BY <1>2, <1>4, <1>5 DEF move

\* What a position loses at its stop is its distance times the quantity.
LEMMA LossAtStop ==
  ASSUME NEW entry \in Rational, NEW stop \in Rational, NEW quantity \in Rational,
         Positive(entry), Positive(stop), Positive(quantity)
  PROVE  Zero -- Pnl(IF Less(stop, entry) THEN "buy" ELSE "sell", entry, stop, quantity, Zero)
            = AbsOf(entry -- stop) ** quantity
<1> DEFINE side == IF Less(stop, entry) THEN "buy" ELSE "sell"
           move == IF side = "buy" THEN stop -- entry ELSE entry -- stop
           e == entry
           s == stop
<1>1. Pnl(side, entry, stop, quantity, Zero) = move ** quantity
  BY GainWithoutFees
<1>2. move = IF Less(stop, entry) THEN stop -- entry ELSE entry -- stop
  OBVIOUS
<1> HIDE DEF side
<1>3. move \in Rational /\ AbsOf(entry -- stop) = Zero -- move
  <2>1. stop -- entry \in Rational /\ entry -- stop \in Rational
    BY Closed
  <2>2. Zero -- (stop -- entry) = entry -- stop /\ Zero -- (entry -- stop) = stop -- entry
    BY AbsOfDifference
  <2>3. (Less(stop, entry) => Leq(stop, entry)) /\ (~Less(stop, entry) => Leq(entry, stop))
    BY TotalOrder
  <2>4. /\ Leq(stop, entry) => AbsOf(entry -- stop) = entry -- stop
        /\ Leq(entry, stop) => AbsOf(entry -- stop) = stop -- entry
    BY AbsOfDifference
  <2>5. QED
    BY <1>2, <2>1, <2>2, <2>3, <2>4
<1> HIDE DEF move
<1>4. Zero -- (move ** quantity) = (Zero -- move) ** quantity
  <2> DEFINE p == move.num
             q == move.den
             r == quantity.num
             t == quantity.den
  <2>1. p \in Int /\ q \in Nat \ {0} /\ r \in Int /\ t \in Nat \ {0}
        /\ move = Frac(p, q) /\ quantity = Frac(r, t)
    BY <1>3, RationalIs
  <2> HIDE DEF p, q, r, t
  <2>2. move ** quantity = Frac(p * r, q * t)
    BY <2>1, FracOps
  <2>3. p * r \in Int /\ q * t \in Nat \ {0}
    <3>1. q * t > 0
      BY <2>1
    <3>2. QED
      BY <3>1, <2>1
  <2>4. Zero -- Frac(p * r, q * t) = Frac(0 - p * r, q * t)
    BY <2>3, SignOf
  <2>5. Zero -- move = Frac(0 - p, q) /\ 0 - p \in Int
    BY <2>1, SignOf
  <2>6. Frac(0 - p, q) ** Frac(r, t) = Frac((0 - p) * r, q * t)
    BY <2>1, <2>5, FracOps
  <2>7. (0 - p) * r = 0 - p * r
    BY <2>1
  <2>8. QED
    BY <2>1, <2>2, <2>4, <2>5, <2>6, <2>7
<1>5. QED
  BY <1>1, <1>3, <1>4 DEF side

\* A quantity that the leverage cap makes smaller loses less than the risk
\* amount (k is the stop distance, e the entry price, m the maximal
\* notional).
LEMMA CapBites ==
  ASSUME NEW r \in Rational, NEW k \in Rational, NEW m \in Rational, NEW e \in Rational,
         Less(Zero, k), Less(Zero, e), Less(m, (r // k) ** e)
  PROVE  Less(k ** (m // e), r)
<1>1. PICK A \in Int, B \in Int, D \in Nat \ {0} : r = Frac(A, D) /\ m = Frac(B, D)
  BY CommonDenominator
<1>2. PICK K \in Int, E \in Int, F \in Nat \ {0} : k = Frac(K, F) /\ e = Frac(E, F)
  BY CommonDenominator
<1>3. K \in Nat \ {0} /\ E \in Nat \ {0}
  BY <1>2, SignOf
<1>4. r // k = Frac(A * F, D * K) /\ m // e = Frac(B * F, D * E)
  BY <1>1, <1>2, <1>3, FracDiv
<1>5. A * F \in Int /\ B * F \in Int /\ D * K \in Nat \ {0} /\ D * E \in Nat \ {0}
  <2>1. D * K > 0 /\ D * E > 0
    BY <1>3
  <2>2. QED
    BY <2>1, <1>3
<1>6. (r // k) ** e = Frac((A * F) * E, (D * K) * F)
  BY <1>2, <1>4, <1>5, FracOps
<1>7. k ** (m // e) = Frac(K * (B * F), F * (D * E))
  BY <1>2, <1>4, <1>5, FracOps
<1> DEFINE P == (A * F) * E
           Q == (D * K) * F
           R == K * (B * F)
           S == F * (D * E)
<1>8. P \in Int /\ R \in Int /\ Q \in Nat \ {0} /\ S \in Nat \ {0}
  <2>1. (D * K) * F > 0 /\ F * (D * E) > 0
    BY <1>5
  <2>2. QED
    BY <2>1, <1>3
<1>9. (Less(m, Frac(P, Q)) <=> B * Q < P * D) /\ (Less(Frac(R, S), r) <=> R * D < A * S)
  <2> HIDE DEF P, Q, R, S
  <2> QED
    BY <1>1, <1>8, FracOps
<1>10. B * Q < P * D
  BY <1>6, <1>9
<1>11. B * Q = D * R /\ P * D = A * S
  <2>1. B * ((D * K) * F) = D * (K * (B * F))
    BY <1>3
  <2>2. ((A * F) * E) * D = A * (F * (D * E))
    BY <1>3
  <2>3. QED
    BY <2>1, <2>2
<1> HIDE DEF P, Q, R, S
<1>12. D * R < A * S
  BY <1>10, <1>11
<1>13. R * D < A * S
  <2>1. D * R = R * D /\ D * R \in Int /\ A * S \in Int
    BY <1>8
  <2>2. QED
    BY <2>1, <1>12
<1>14. QED
  BY <1>7, <1>9, <1>13 DEF R, S

\* position_size: at the stop the position loses the risk amount, or it is
\* all that the leveraged balance buys and loses less.
LEMMA PositionSized ==
  ASSUME NEW balance \in Rational, NEW fraction \in Rational, NEW entry \in Rational,
         NEW stop \in Rational, NEW leverage \in Rational,
         PositionSize(balance, fraction, entry, stop, leverage) # Invalid
  PROVE  LET sizing == PositionSize(balance, fraction, entry, stop, leverage)
             loss == Zero -- Pnl(IF Less(stop, entry) THEN "buy" ELSE "sell",
                                 entry, stop, sizing.quantity, Zero)
         IN  \/ loss = sizing.riskAmount /\ Leq(sizing.notional, balance ** leverage)
             \/ Less(loss, sizing.riskAmount) /\ sizing.notional = balance ** leverage
<1> DEFINE k == AbsOf(entry -- stop)
           r == balance ** fraction
           m == balance ** leverage
           w == r // k
           q == IF Less(m, w ** entry) THEN m // entry ELSE w
           sizing == PositionSize(balance, fraction, entry, stop, leverage)
           loss == Zero -- Pnl(IF Less(stop, entry) THEN "buy" ELSE "sell",
                               entry, stop, sizing.quantity, Zero)
<1>1. /\ Positive(balance) /\ Positive(fraction) /\ Positive(entry) /\ Positive(stop)
      /\ entry # stop /\ Positive(leverage)
      /\ sizing = [quantity |-> q, riskAmount |-> r, notional |-> q ** entry]
  BY DEF PositionSize
<1>2. sizing.quantity = q /\ sizing.riskAmount = r /\ sizing.notional = q ** entry
  BY <1>1
<1> HIDE DEF sizing
<1>3. r \in Rational /\ m \in Rational /\ Less(Zero, r) /\ Less(Zero, m)
  BY <1>1, Closed, Products DEF Positive
<1>4. k \in Rational /\ Less(Zero, k)
  <2>1. k \in Rational /\ Leq(Zero, k) /\ k # Zero
    BY <1>1, AbsOfDifference
  <2> HIDE DEF k
  <2>2. QED
    BY <2>1, TotalOrder, ZeroIs
<1> HIDE DEF k, r, m
<1>5. w \in Rational /\ Less(Zero, w) /\ k ** w = r
  BY <1>3, <1>4, Closed, Products
<1>6. m // entry \in Rational /\ Less(Zero, m // entry) /\ (m // entry) ** entry = m
  BY <1>1, <1>3, Closed, Products DEF Positive
<1> HIDE DEF w
<1>7. q \in Rational /\ Positive(q)
  BY <1>5, <1>6 DEF Positive
<1>8. loss = k ** q
  <2> HIDE DEF q
  <2>1. loss = Zero -- Pnl(IF Less(stop, entry) THEN "buy" ELSE "sell", entry, stop, q, Zero)
    BY <1>2
  <2>2. QED
    BY <2>1, <1>1, <1>7, LossAtStop DEF k
<1> HIDE DEF loss
<1>9. CASE Less(m, w ** entry)
  <2>1. q = m // entry
    BY <1>9
  <2> HIDE DEF q
  <2>2. Less(k ** (m // entry), r)
    BY <1>1, <1>3, <1>4, <1>9, CapBites DEF Positive, w
  <2>3. Less(loss, r)
    BY <2>1, <2>2, <1>8
  <2>4. q ** entry = m
    BY <2>1, <1>6
  <2>5. QED
    BY <2>3, <2>4, <1>2 DEF loss, sizing, m
<1>10. CASE ~Less(m, w ** entry)
  <2>1. q = w
    BY <1>10
  <2> HIDE DEF q
  <2>2. loss = r
    BY <2>1, <1>5, <1>8
  <2>3. w ** entry \in Rational
    BY <1>5, Closed
  <2>4. Leq(w ** entry, m)
    BY <2>3, <1>3, <1>10, TotalOrder
  <2>5. QED
    BY <2>1, <2>2, <2>4, <1>2 DEF loss, sizing, m
<1>11. QED
  BY <1>9, <1>10

\* The two forms of liquidation_price, for a long and for a short position,
\* lose the same at the liquidation price.
LEMMA MarginAlgebra ==
  ASSUME NEW e \in Rational, NEW l \in Rational, NEW m \in Rational, Positive(l)
  PROVE  /\ (e ** ((Rat(1) -- (Rat(1) // l)) ++ m)) -- e = (e ** m) -- (e // l)
         /\ e -- (e ** ((Rat(1) ++ (Rat(1) // l)) -- m)) = (e ** m) -- (e // l)
<1> DEFINE E == e.num
           D == e.den
           L == l.num
           R == l.den
           M == m.num
           N == m.den
<1>1. /\ E \in Int /\ D \in Nat \ {0} /\ e = Frac(E, D)
      /\ L \in Int /\ R \in Nat \ {0} /\ l = Frac(L, R)
      /\ M \in Int /\ N \in Nat \ {0} /\ m = Frac(M, N)
  BY RationalIs
<1> HIDE DEF E, D, L, R, M, N
<1>2. L \in Nat \ {0}
  BY <1>1, SignOf DEF Positive
<1>3. Rat(1) = Frac(L, L)
  <2>1. 1 \in Int /\ 1 * L = L
    BY <1>1
  <2>2. QED
    BY <2>1, <1>2, RatOn
<1>4. Rat(1) // l = Frac(R, L)
  <2>1. Frac(L, L) // Frac(L, R) = Frac(L * R, L * L)
    BY <1>1, <1>2, FracDiv
  <2>2. Frac(L * R, L * L) = Frac(R, L)
    <3>1. R \in Int
      BY <1>1
    <3>2. QED
      BY <3>1, <1>2, FracScale
  <2>3. QED
    BY <2>1, <2>2, <1>1, <1>3
<1>5. /\ Rat(1) -- (Rat(1) // l) = Frac(L - R, L)
      /\ Rat(1) ++ (Rat(1) // l) = Frac(L + R, L)
  BY <1>1, <1>2, <1>3, <1>4, OnOneDenominator
<1>6. L - R \in Int /\ L + R \in Int /\ D * (L * N) \in Nat \ {0} /\ L * N \in Nat \ {0}
      /\ D * N \in Nat \ {0} /\ D * L \in Nat \ {0}
  <2>1. L * N > 0 /\ D * N > 0 /\ D * L > 0
    BY <1>1, <1>2
  <2>2. L * N \in Nat \ {0}
    BY <2>1, <1>1
  <2>3. D * (L * N) > 0
    BY <2>2, <1>1
  <2>4. QED
    BY <2>1, <2>2, <2>3, <1>1
<1> DEFINE B == (L - R) * N + M * L
           S == (L + R) * N - M * L
           W == D * (L * N)
<1>7. /\ (Rat(1) -- (Rat(1) // l)) ++ m = Frac(B, L * N)
      /\ (Rat(1) ++ (Rat(1) // l)) -- m = Frac(S, L * N)
  <2> DEFINE less == L - R
             more == L + R
  <2>1. less \in Int /\ more \in Int
    BY <1>6
  <2> HIDE DEF less, more
  <2>2. Frac(less, L) ++ Frac(M, N) = Frac(less * N + M * L, L * N)
    BY <1>1, <1>2, <2>1, FracOps
  <2>3. Frac(more, L) -- Frac(M, N) = Frac(more * N - M * L, L * N)
    BY <1>1, <1>2, <2>1, FracOps
  <2>4. QED
    BY <1>1, <1>5, <2>2, <2>3 DEF less, more
<1>8. B \in Int /\ S \in Int
  BY <1>1
<1>9. e ** Frac(B, L * N) = Frac(E * B, W) /\ e ** Frac(S, L * N) = Frac(E * S, W)
  <2> DEFINE n == L * N
  <2>1. n \in Nat \ {0}
    BY <1>6
  <2> HIDE DEF B, S, n
  <2>2. Frac(E, D) ** Frac(B, n) = Frac(E * B, D * n)
    BY <1>1, <1>8, <2>1, FracOps
  <2>3. Frac(E, D) ** Frac(S, n) = Frac(E * S, D * n)
    BY <1>1, <1>8, <2>1, FracOps
  <2>4. QED
    BY <1>1, <2>2, <2>3 DEF n
<1> DEFINE V == E * (L * N)
<1>10. e = Frac(V, W)
  <2>1. Frac((L * N) * E, (L * N) * D) = Frac(E, D)
    BY <1>1, <1>6, FracScale
  <2>2. (L * N) * E = V /\ (L * N) * D = W
    BY <1>1, <1>6
  <2>3. QED
    BY <2>1, <2>2, <1>1
<1>11. E * B - V = E * (M * L - R * N) /\ V - E * S = E * (M * L - R * N)
  <2>1. E * ((L - R) * N + M * L) - E * (L * N) = E * (M * L - R * N)
    BY <1>1
  <2>2. E * (L * N) - E * ((L + R) * N - M * L) = E * (M * L - R * N)
    BY <1>1
  <2>3. QED
    BY <2>1, <2>2
<1> DEFINE C == E * (M * L - R * N)
<1>12. e ** m = Frac(E * (M * L), W) /\ e // l = Frac(E * (R * N), W)
  <2>1. e ** m = Frac(E * M, D * N) /\ e // l = Frac(E * R, D * L)
    <3>1. Frac(E, D) ** Frac(M, N) = Frac(E * M, D * N)
      BY <1>1, FracOps
    <3>2. Frac(E, D) // Frac(L, R) = Frac(E * R, D * L)
      BY <1>1, <1>2, FracDiv
    <3>3. QED
      BY <3>1, <3>2, <1>1
  <2>2. E * M \in Int /\ E * R \in Int
    BY <1>1
  <2>3. Frac(L * (E * M), L * (D * N)) = Frac(E * M, D * N)
    BY <2>2, <1>2, <1>6, FracScale
  <2>4. Frac(N * (E * R), N * (D * L)) = Frac(E * R, D * L)
    BY <2>2, <1>1, <1>6, FracScale
  <2>5. /\ L * (E * M) = E * (M * L) /\ L * (D * N) = W
        /\ N * (E * R) = E * (R * N) /\ N * (D * L) = W
    BY <1>1, <1>2
  <2>6. QED
    BY <2>1, <2>3, <2>4, <2>5
<1>13. /\ E * B \in Int /\ E * S \in Int /\ V \in Int /\ W \in Nat \ {0}
       /\ E * (M * L) \in Int /\ E * (R * N) \in Int
  BY <1>1, <1>6, <1>8
<1>14. Frac(E * B, W) -- Frac(V, W) = Frac(C, W) /\ Frac(V, W) -- Frac(E * S, W) = Frac(C, W)
  <2> DEFINE b == E * B
             s == E * S
             v == V
             w == W
  <2>1. b \in Int /\ s \in Int /\ v \in Int /\ w \in Nat \ {0}
    BY <1>13
  <2> HIDE DEF b, s, v, w
  <2>2. Frac(b, w) -- Frac(v, w) = Frac(b - v, w)
    BY <2>1, OnOneDenominator
  <2>3. Frac(v, w) -- Frac(s, w) = Frac(v - s, w)
    BY <2>1, OnOneDenominator
  <2>4. QED
    BY <2>2, <2>3, <1>11 DEF b, s, v, w
<1>15. (e ** m) -- (e // l) = Frac(C, W)
  <2> DEFINE b == E * (M * L)
             s == E * (R * N)
             w == W
  <2>1. b \in Int /\ s \in Int /\ w \in Nat \ {0}
    BY <1>13
  <2>2. b - s = C
    BY <1>1
  <2> HIDE DEF b, s, w
  <2>3. Frac(b, w) -- Frac(s, w) = Frac(b - s, w)
    BY <2>1, OnOneDenominator
  <2> HIDE DEF C
  <2>4. QED
    BY <2>2, <2>3, <1>12 DEF b, s, w
<1> HIDE DEF B, S, W, V, C
<1>16. QED
  BY <1>7, <1>9, <1>10, <1>14, <1>15

\* liquidation_price against pnl, and risk_reward_ratio against pnl.
LEMMA CalculatorsConsistent ==
  ASSUME NEW entry \in Rational, NEW leverage \in Rational, NEW stop \in Rational,
         NEW target \in Rational, NEW side \in {"buy", "sell"}, NEW mmr \in Rational,
         Positive(stop), Positive(target), Positive(entry), Positive(leverage)
  PROVE  LET liquidation == LiquidationPrice(side, entry, leverage, mmr)
             gain(exit) == Pnl(side, entry, exit, Rat(1), Zero)
         IN  /\ Positive(liquidation)
                  => gain(liquidation) = (entry ** mmr) -- (entry // leverage)
             /\ Less(gain(stop), Zero) /\ Less(Zero, gain(target))
                  => RiskRewardRatio(entry, stop, target) ** (Zero -- gain(stop)) = gain(target)
<1> DEFINE liquidation == LiquidationPrice(side, entry, leverage, mmr)
           gain(exit) == Pnl(side, entry, exit, Rat(1), Zero)
           move(exit) == IF side = "buy" THEN exit -- entry ELSE entry -- exit
<1>1. Rat(1) \in Rational /\ Positive(Rat(1))
  <2>1. 1 \in Int
    OBVIOUS
  <2>2. Rat(1) = Frac(1, 1) /\ Rat(1) \in Rational
    BY <2>1, RatIs
  <2>3. Positive(Rat(1))
    BY DEF Positive, Less, Zero, Rat
  <2>4. QED
    BY <2>2, <2>3
<1>2. ASSUME NEW exit \in Rational, Positive(exit)
      PROVE  gain(exit) = move(exit) /\ move(exit) \in Rational
  <2>1. gain(exit) = move(exit) ** Rat(1)
    BY <1>1, <1>2, GainWithoutFees
  <2>2. exit -- entry \in Rational /\ entry -- exit \in Rational
    BY Closed
  <2>3. move(exit) \in Rational
    BY <2>2
  <2> HIDE DEF move, gain
  <2>4. move(exit) ** Rat(1) = move(exit)
    BY <2>3, Products
  <2>5. QED
    BY <2>1, <2>3, <2>4
<1>3. ASSUME Positive(liquidation)
      PROVE  gain(liquidation) = (entry ** mmr) -- (entry // leverage)
  <2> DEFINE imr == Rat(1) // leverage
             factor == IF side = "buy" THEN (Rat(1) -- imr) ++ mmr ELSE (Rat(1) ++ imr) -- mmr
  <2>1. liquidation = entry ** factor
    BY DEF LiquidationPrice
  <2>2. imr \in Rational
    BY <1>1, Closed DEF Positive
  <2> HIDE DEF imr
  <2>3. Rat(1) -- imr \in Rational /\ Rat(1) ++ imr \in Rational
    BY <1>1, <2>2, Closed
  <2>4. (Rat(1) -- imr) ++ mmr \in Rational /\ (Rat(1) ++ imr) -- mmr \in Rational
    BY <2>3, Closed
  <2>5. factor \in Rational
    BY <2>4
  <2>6. liquidation \in Rational
    <3> HIDE DEF factor, liquidation
    <3> QED
      BY <2>1, <2>5, Closed
  <2>7. gain(liquidation) = move(liquidation)
    <3> HIDE DEF liquidation, gain, move
    <3> QED
      BY <2>6, <1>2, <1>3
  <2>8. move(liquidation) = IF side = "buy" THEN (entry ** factor) -- entry
                                            ELSE entry -- (entry ** factor)
    <3> HIDE DEF liquidation, factor
    <3> QED
      BY <2>1
  <2>9. /\ (entry ** ((Rat(1) -- imr) ++ mmr)) -- entry = (entry ** mmr) -- (entry // leverage)
        /\ entry -- (entry ** ((Rat(1) ++ imr) -- mmr)) = (entry ** mmr) -- (entry // leverage)
    BY MarginAlgebra DEF imr
  <2> HIDE DEF liquidation, gain, move
  <2>10. QED
    BY <2>7, <2>8, <2>9
<1>4. ASSUME Less(gain(stop), Zero), Less(Zero, gain(target))
      PROVE  RiskRewardRatio(entry, stop, target) ** (Zero -- gain(stop)) = gain(target)
  <2> DEFINE risk == AbsOf(entry -- stop)
             reward == AbsOf(target -- entry)
  <2>1. gain(stop) = move(stop) /\ gain(target) = move(target) /\ move(target) \in Rational
    <3> HIDE DEF gain, move
    <3> QED
      BY <1>2
  <2> HIDE DEF gain
  <2>2. risk = Zero -- move(stop) /\ Less(Zero, risk)
    <3>1. CASE side = "buy"
      <4>1. move(stop) = stop -- entry
        BY <3>1
      <4>2. Less(stop, entry)
        BY <4>1, <2>1, <1>4, AbsOfDifference
      <4>3. Leq(stop, entry)
        BY <4>2, TotalOrder
      <4>4. risk = entry -- stop /\ Zero -- (stop -- entry) = entry -- stop
            /\ Less(Zero, entry -- stop)
        BY <4>2, <4>3, AbsOfDifference
      <4>5. QED
        BY <4>1, <4>4
    <3>2. CASE side = "sell"
      <4>1. move(stop) = entry -- stop
        BY <3>2
      <4>2. Less(entry, stop)
        BY <4>1, <2>1, <1>4, AbsOfDifference
      <4>3. Leq(entry, stop)
        BY <4>2, TotalOrder
      <4>4. risk = stop -- entry /\ Zero -- (entry -- stop) = stop -- entry
            /\ Less(Zero, stop -- entry)
        BY <4>2, <4>3, AbsOfDifference
      <4>5. QED
        BY <4>1, <4>4
    <3>3. QED
      BY <3>1, <3>2
  <2>3. reward = move(target)
    <3>1. CASE side = "buy"
      <4>1. move(target) = target -- entry
        BY <3>1
      <4>2. Less(entry, target)
        BY <4>1, <2>1, <1>4, AbsOfDifference
      <4>3. Leq(entry, target)
        BY <4>2, TotalOrder
      <4>4. QED
        BY <4>1, <4>3, AbsOfDifference
    <3>2. CASE side = "sell"
      <4>1. move(target) = entry -- target
        BY <3>2
      <4>2. Less(target, entry)
        BY <4>1, <2>1, <1>4, AbsOfDifference
      <4>3. Leq(target, entry)
        BY <4>2, TotalOrder
      <4>4. QED
        BY <4>1, <4>3, AbsOfDifference
    <3>3. QED
      BY <3>1, <3>2
  <2>4. risk \in Rational /\ risk # Zero
    <3>1. risk \in Rational
      BY AbsOfDifference
    <3> HIDE DEF risk
    <3>2. QED
      BY <3>1, <2>2, ZeroIs, TotalOrder
  <2>5. RiskRewardRatio(entry, stop, target) = reward // risk
    BY <2>4 DEF RiskRewardRatio
  <2> HIDE DEF risk, reward, move
  <2>6. (move(target) // risk) ** risk = move(target)
    BY <2>1, <2>2, <2>4, Products
  <2>7. QED
    BY <2>1, <2>2, <2>3, <2>5, <2>6
<1>5. QED
  BY <1>3, <1>4

(***************************************************************************)
(* position_size (risk.py): whatever the balance, the risk fraction, the   *)
(* prices and the leverage, the position it returns loses exactly the risk *)
(* amount at its stop and stays within the leveraged balance, or it is all *)
(* that the leveraged balance buys and loses strictly less.                *)
(***************************************************************************)
THEOREM PositionsSizedToRisk == Spec => []SizedToRisk
<1>1. ChartType => SizedToRisk
  <2> SUFFICES ASSUME ChartType, candles # <<>>,
                      NEW balance \in Balances, NEW fraction \in RiskFractions,
                      NEW leverage \in Leverages, NEW stop \in Prices,
                      PositionSize(balance, fraction, Last(candles).close, stop, leverage) # Invalid
               PROVE  LET entry == Last(candles).close
                          sizing == PositionSize(balance, fraction, entry, stop, leverage)
                          loss == Zero -- Pnl(IF Less(stop, entry) THEN "buy" ELSE "sell",
                                              entry, stop, sizing.quantity, Zero)
                      IN  \/ loss = sizing.riskAmount /\ Leq(sizing.notional, balance ** leverage)
                          \/ Less(loss, sizing.riskAmount) /\ sizing.notional = balance ** leverage
    BY Zenon DEF SizedToRisk
  <2> DEFINE entry == Last(candles).close
  <2>1. entry \in Rational
    BY LastIs, CandleIs DEF ChartType
  <2>2. balance \in Rational /\ fraction \in Rational /\ leverage \in Rational /\ stop \in Rational
    BY AnalyticsAssumption
  <2> HIDE DEF entry
  <2>3. PositionSize(balance, fraction, entry, stop, leverage) # Invalid
    BY DEF entry
  <2>4. LET sizing == PositionSize(balance, fraction, entry, stop, leverage)
            loss == Zero -- Pnl(IF Less(stop, entry) THEN "buy" ELSE "sell",
                                entry, stop, sizing.quantity, Zero)
        IN  \/ loss = sizing.riskAmount /\ Leq(sizing.notional, balance ** leverage)
            \/ Less(loss, sizing.riskAmount) /\ sizing.notional = balance ** leverage
    BY <2>1, <2>2, <2>3, PositionSized
  <2>5. QED
    BY <2>4, Zenon DEF entry
<1>2. QED
  BY <1>1, ChartInvariant, PTL

(***************************************************************************)
(* The calculators of risk.py describe one position: at liquidation_price, *)
(* where it is positive, pnl is the margin less the maintenance margin     *)
(* lost, and risk_reward_ratio is the quotient of the two pnls at target   *)
(* and stop.                                                               *)
(***************************************************************************)
THEOREM CalculatorsInAgreement == Spec => []CalculatorsAgree
<1>1. ChartType => CalculatorsAgree
  <2> SUFFICES ASSUME ChartType, candles # <<>>,
                      NEW leverage \in Leverages, NEW side \in {"buy", "sell"},
                      NEW stop \in Prices, NEW target \in Prices
               PROVE  LET entry == Last(candles).close
                          mmr == Frac(1, 200)
                          liquidation == LiquidationPrice(side, entry, leverage, mmr)
                          gain(exit) == Pnl(side, entry, exit, Rat(1), Zero)
                      IN  /\ Positive(liquidation)
                                => gain(liquidation) = (entry ** mmr) -- (entry // leverage)
                          /\ Less(gain(stop), Zero) /\ Less(Zero, gain(target))
                                => RiskRewardRatio(entry, stop, target) ** (Zero -- gain(stop)) = gain(target)
    BY Zenon DEF CalculatorsAgree
  <2> DEFINE entry == Last(candles).close
             mmr == Frac(1, 200)
  <2>1. entry \in Rational /\ Positive(entry)
    BY LastIs, CandleIs, RationalIs DEF ChartType, Positive, Less, Zero, Rat
  <2>2. /\ leverage \in Rational /\ stop \in Rational /\ target \in Rational
        /\ Positive(leverage) /\ Positive(stop) /\ Positive(target)
    BY AnalyticsAssumption
  <2>3. mmr \in Rational
    BY FracIn
  <2> HIDE DEF entry, mmr
  <2>4. LET liquidation == LiquidationPrice(side, entry, leverage, mmr)
            gain(exit) == Pnl(side, entry, exit, Rat(1), Zero)
        IN  /\ Positive(liquidation)
                  => gain(liquidation) = (entry ** mmr) -- (entry // leverage)
            /\ Less(gain(stop), Zero) /\ Less(Zero, gain(target))
                  => RiskRewardRatio(entry, stop, target) ** (Zero -- gain(stop)) = gain(target)
    BY <2>1, <2>2, <2>3, CalculatorsConsistent
  <2>5. QED
    BY <2>4, Zenon DEF entry, mmr
<1>2. QED
  BY <1>1, ChartInvariant, PTL

-----------------------------------------------------------------------------
(***************************************************************************)
(* Sums, means and the two recurrences over any series of rationals: what  *)
(* they are, that later values leave them alone, and that they stay within *)
(* the bounds of the values.                                               *)
(***************************************************************************)

\* The running sums.
LEMMA SumsIs ==
  ASSUME NEW v \in Seq(Rational)
  PROVE  /\ Sums(v) \in [0..Len(v) -> Rational]
         /\ Sums(v)[0] = Zero
         /\ \A i \in 1..Len(v) : Sums(v)[i] = Sums(v)[i - 1] ++ v[i]
<1> DEFINE n == Len(v)
           o == 0
           step == [i \in o..n |-> [x \in Rational |-> IF i = o THEN x ELSE x ++ v[i]]]
           sum == Sums(v)
           S == {i \in o..n : sum[i] \in Rational}
<1>1. n \in Nat /\ n \in Int /\ o \in Int /\ \A i \in o..n : i # o => v[i] \in Rational
  BY SeqIs
<1>2. step \in [o..n -> [Rational -> Rational]]
  <2> HIDE DEF n, o
  <2>1. \A i \in o..n : \A x \in Rational : (IF i = o THEN x ELSE x ++ v[i]) \in Rational
    BY <1>1, Closed
  <2>2. QED
    BY <2>1
<1>3. \A i \in o..n, x \in Rational : i # o => step[i][x] = x ++ v[i]
  OBVIOUS
<1> HIDE DEF n, o, step
<1>4. PICK f : Recurs(f, o, n, Rational, Zero, step)
  BY <1>1, <1>2, RecursionExists, ZeroIs, Zenon
<1>5. ASSUME NEW i \in o..n PROVE f[i] = IF i = o THEN Zero ELSE f[i - 1] ++ v[i]
  <2>1. i # o => i - 1 \in o..n
    BY <1>1
  <2>2. QED
    BY <2>1, <1>3, <1>4 DEF Recurs
<1>6. f = [i \in o..n |-> IF i = o THEN Zero ELSE f[i - 1] ++ v[i]]
  BY <1>4, <1>5 DEF Recurs
<1>7. sum = [i \in o..n |-> IF i = o THEN Zero ELSE sum[i - 1] ++ v[i]]
  BY <1>6, Zenon DEF Sums, n, o
<1> HIDE DEF sum
<1>8. \A i \in o..n : sum[i] = IF i = o THEN Zero ELSE sum[i - 1] ++ v[i]
  BY <1>7, Zenon
<1>9. o <= n => o \in S
  BY <1>1, <1>8, ZeroIs
<1>10. ASSUME NEW i \in o..n, o < i, i - 1 \in S PROVE i \in S
  BY <1>10, <1>1, <1>8, Closed
<1>11. \A i \in o..n : i \in S
  <2> HIDE DEF S
  <2> QED
    BY <1>1, <1>9, <1>10, StepInduction, Zenon
<1>12. sum \in [o..n -> Rational]
  BY <1>7, <1>11
<1>13. QED
  BY <1>1, <1>8, <1>12 DEF sum, o, n

\* The mean of rationals.
LEMMA MeanIn ==
  ASSUME NEW w \in Seq(Rational), Len(w) \in Nat \ {0}
  PROVE  Mean(w) \in Rational
<1>1. SumOf(w) \in Rational
  BY SumsIs DEF SumOf
<1>2. QED
  BY <1>1, PositiveRat, Closed DEF Mean

\* wilder_smoothing: undefined before the period, the mean of the first
\* values at it, and one step of the recurrence after it.
LEMMA WilderIs ==
  ASSUME NEW v \in Seq(Rational), NEW p \in Nat \ {0}
  PROVE  /\ WilderSmoothing(v, p) \in [1..Len(v) -> Rational \cup {None}]
         /\ \A i \in 1..Len(v) : i < p => WilderSmoothing(v, p)[i] = None
         /\ \A i \in 1..Len(v) : i >= p => WilderSmoothing(v, p)[i] \in Rational
         /\ p <= Len(v) => WilderSmoothing(v, p)[p] = Mean(SubSeq(v, 1, p))
         /\ \A i \in 1..Len(v) : i > p =>
               WilderSmoothing(v, p)[i] =
                  ((WilderSmoothing(v, p)[i - 1] ** Rat(p - 1)) ++ v[i]) // Rat(p)
<1> DEFINE n == Len(v)
           seed == Mean(SubSeq(v, 1, p))
           next(x, i) == ((x ** Rat(p - 1)) ++ v[i]) // Rat(p)
           step == [i \in p..n |-> [x \in Rational |-> IF i = p THEN x ELSE next(x, i)]]
           rec == CHOOSE g : g = [i \in p..n |->
                        IF i = p THEN seed ELSE ((g[i - 1] ** Rat(p - 1)) ++ v[i]) // Rat(p)]
           S == {i \in p..n : rec[i] \in Rational}
<1>1. n \in Nat /\ n \in Int /\ p \in Int /\ \A i \in 1..n : v[i] \in Rational
  BY SeqIs
<1>2. WilderSmoothing(v, p) = [i \in 1..n |-> IF i < p THEN None ELSE rec[i]]
  BY Zenon DEF WilderSmoothing
<1> HIDE DEF n, rec
<1>3. ASSUME NEW i \in p..n, NEW x \in Rational PROVE next(x, i) \in Rational
  <2>1. v[i] \in Rational
    BY <1>1
  <2>2. Rat(p - 1) \in Rational
    <3>1. p - 1 \in Int
      OBVIOUS
    <3>2. QED
      BY <3>1, RatIs
  <2>3. x ** Rat(p - 1) \in Rational
    BY <2>2, Closed
  <2>4. (x ** Rat(p - 1)) ++ v[i] \in Rational
    BY <2>1, <2>3, Closed
  <2>5. QED
    BY <2>4, PositiveRat, Closed
<1> HIDE DEF next
<1>4. step \in [p..n -> [Rational -> Rational]]
  BY <1>3
<1>5. \A i \in p..n, x \in Rational : i # p => step[i][x] = next(x, i)
  OBVIOUS
<1> HIDE DEF step
<1>6. CASE p > n
  <2>1. \A i \in 1..n : WilderSmoothing(v, p)[i] = None /\ ~(i >= p)
    BY <1>1, <1>2, <1>6
  <2>2. WilderSmoothing(v, p) \in [1..n -> Rational \cup {None}]
    BY <1>1, <1>2, <1>6
  <2>3. QED
    BY <1>1, <1>6, <2>1, <2>2 DEF n
<1>7. CASE p <= n
  <2>1. seed \in Rational
    <3>1. SubSeq(v, 1, p) \in Seq(Rational) /\ Len(SubSeq(v, 1, p)) = p
      BY <1>1, <1>7, Prefix DEF n
    <3>2. QED
      BY <3>1, MeanIn
  <2> HIDE DEF seed
  <2>2. PICK f : Recurs(f, p, n, Rational, seed, step)
    BY <1>1, <1>4, <2>1, RecursionExists, Zenon
  <2>3. ASSUME NEW i \in p..n PROVE f[i] = IF i = p THEN seed ELSE next(f[i - 1], i)
    <3>1. i # p => i - 1 \in p..n
      BY <1>1
    <3>2. QED
      BY <3>1, <1>5, <2>2 DEF Recurs
  <2>4. f = [i \in p..n |-> IF i = p THEN seed ELSE next(f[i - 1], i)]
    BY <2>2, <2>3 DEF Recurs
  <2>5. rec = [i \in p..n |-> IF i = p THEN seed ELSE next(rec[i - 1], i)]
    BY <2>4, Zenon DEF rec, next
  <2>6. \A i \in p..n : rec[i] = IF i = p THEN seed ELSE next(rec[i - 1], i)
    BY <2>5, Zenon
  <2>7. p <= n => p \in S
    BY <1>1, <2>1, <2>6
  <2>8. ASSUME NEW i \in p..n, p < i, i - 1 \in S PROVE i \in S
    BY <2>8, <1>1, <1>3, <2>6
  <2>9. \A i \in p..n : i \in S
    <3> HIDE DEF S
    <3> QED
      BY <1>1, <2>7, <2>8, StepInduction, Zenon
  <2>10. \A i \in 1..n : i >= p => rec[i] \in Rational
    BY <1>1, <2>9
  <2>11. p \in 1..n /\ p \in p..n
    BY <1>1, <1>7
  <2>12. WilderSmoothing(v, p)[p] = seed
    BY <1>2, <2>6, <2>11
  <2>13. ASSUME NEW i \in 1..n, i > p PROVE WilderSmoothing(v, p)[i] = next(WilderSmoothing(v, p)[i - 1], i)
    <3>1. i \in p..n /\ i # p /\ ~(i < p) /\ i - 1 \in 1..n /\ ~(i - 1 < p)
      BY <1>1, <2>13
    <3>2. WilderSmoothing(v, p)[i] = rec[i] /\ WilderSmoothing(v, p)[i - 1] = rec[i - 1]
      BY <1>2, <3>1
    <3>3. QED
      BY <2>6, <3>1, <3>2
  <2>14. \A i \in 1..n : i < p => WilderSmoothing(v, p)[i] = None
    BY <1>2
  <2>15. \A i \in 1..n : i >= p => WilderSmoothing(v, p)[i] \in Rational
    BY <1>1, <1>2, <2>10
  <2>16. WilderSmoothing(v, p) \in [1..n -> Rational \cup {None}]
    <3>1. \A i \in 1..n : WilderSmoothing(v, p)[i] \in Rational \cup {None}
      BY <1>1, <2>14, <2>15
    <3>2. WilderSmoothing(v, p) = [i \in 1..n |-> WilderSmoothing(v, p)[i]]
      BY <1>2
    <3> DEFINE w == WilderSmoothing(v, p)
    <3> HIDE DEF w
    <3>3. w \in [1..n -> Rational \cup {None}]
      BY <3>1, <3>2 DEF w
    <3>4. QED
      BY <3>3 DEF w
  <2>17. QED
    BY <2>12, <2>13, <2>14, <2>15, <2>16 DEF n, seed, next
<1>8. QED
  BY <1>1, <1>6, <1>7

\* ema: undefined before the period, the mean of the first values at it, and
\* one step of the recurrence after it.
LEMMA EmaIs ==
  ASSUME NEW v \in Seq(Rational), NEW p \in Nat \ {0}
  PROVE  /\ Ema(v, p) \in [1..Len(v) -> Rational \cup {None}]
         /\ \A i \in 1..Len(v) : i < p => Ema(v, p)[i] = None
         /\ \A i \in 1..Len(v) : i >= p => Ema(v, p)[i] \in Rational
         /\ p <= Len(v) => Ema(v, p)[p] = Mean(SubSeq(v, 1, p))
         /\ \A i \in 1..Len(v) : i > p =>
               Ema(v, p)[i] =
                  ((v[i] -- Ema(v, p)[i - 1]) ** Frac(2, p + 1)) ++ Ema(v, p)[i - 1]
<1> DEFINE n == Len(v)
           seed == Mean(SubSeq(v, 1, p))
           next(x, i) == ((v[i] -- x) ** Frac(2, p + 1)) ++ x
           step == [i \in p..n |-> [x \in Rational |-> IF i = p THEN x ELSE next(x, i)]]
           rec == CHOOSE g : g = [i \in p..n |->
                        IF i = p THEN seed ELSE ((v[i] -- g[i - 1]) ** Frac(2, p + 1)) ++ g[i - 1]]
           S == {i \in p..n : rec[i] \in Rational}
<1>1. n \in Nat /\ n \in Int /\ p \in Int /\ \A i \in 1..n : v[i] \in Rational
  BY SeqIs
<1>2. Ema(v, p) = [i \in 1..n |-> IF i < p THEN None ELSE rec[i]]
  BY Zenon DEF Ema
<1> HIDE DEF n, rec
<1>3. ASSUME NEW i \in p..n, NEW x \in Rational PROVE next(x, i) \in Rational
  <2>1. v[i] \in Rational
    BY <1>1
  <2>2. Frac(2, p + 1) \in Rational
    <3>1. 2 \in Int /\ p + 1 \in Nat \ {0}
      OBVIOUS
    <3>2. QED
      BY <3>1, FracIn
  <2>3. v[i] -- x \in Rational
    BY <2>1, Closed
  <2>4. (v[i] -- x) ** Frac(2, p + 1) \in Rational
    BY <2>2, <2>3, Closed
  <2>5. QED
    BY <2>4, Closed
<1> HIDE DEF next
<1>4. step \in [p..n -> [Rational -> Rational]]
  BY <1>3
<1>5. \A i \in p..n, x \in Rational : i # p => step[i][x] = next(x, i)
  OBVIOUS
<1> HIDE DEF step
<1>6. CASE p > n
  <2>1. \A i \in 1..n : Ema(v, p)[i] = None /\ ~(i >= p)
    BY <1>1, <1>2, <1>6
  <2>2. Ema(v, p) \in [1..n -> Rational \cup {None}]
    BY <1>1, <1>2, <1>6
  <2>3. QED
    BY <1>1, <1>6, <2>1, <2>2 DEF n
<1>7. CASE p <= n
  <2>1. seed \in Rational
    <3>1. SubSeq(v, 1, p) \in Seq(Rational) /\ Len(SubSeq(v, 1, p)) = p
      BY <1>1, <1>7, Prefix DEF n
    <3>2. QED
      BY <3>1, MeanIn
  <2> HIDE DEF seed
  <2>2. PICK f : Recurs(f, p, n, Rational, seed, step)
    BY <1>1, <1>4, <2>1, RecursionExists, Zenon
  <2>3. ASSUME NEW i \in p..n PROVE f[i] = IF i = p THEN seed ELSE next(f[i - 1], i)
    <3>1. i # p => i - 1 \in p..n
      BY <1>1
    <3>2. QED
      BY <3>1, <1>5, <2>2 DEF Recurs
  <2>4. f = [i \in p..n |-> IF i = p THEN seed ELSE next(f[i - 1], i)]
    BY <2>2, <2>3 DEF Recurs
  <2>5. rec = [i \in p..n |-> IF i = p THEN seed ELSE next(rec[i - 1], i)]
    BY <2>4, Zenon DEF rec, next
  <2>6. \A i \in p..n : rec[i] = IF i = p THEN seed ELSE next(rec[i - 1], i)
    BY <2>5, Zenon
  <2>7. p <= n => p \in S
    BY <1>1, <2>1, <2>6
  <2>8. ASSUME NEW i \in p..n, p < i, i - 1 \in S PROVE i \in S
    BY <2>8, <1>1, <1>3, <2>6
  <2>9. \A i \in p..n : i \in S
    <3> HIDE DEF S
    <3> QED
      BY <1>1, <2>7, <2>8, StepInduction, Zenon
  <2>10. \A i \in 1..n : i >= p => rec[i] \in Rational
    BY <1>1, <2>9
  <2>11. p \in 1..n /\ p \in p..n
    BY <1>1, <1>7
  <2>12. Ema(v, p)[p] = seed
    BY <1>2, <2>6, <2>11
  <2>13. ASSUME NEW i \in 1..n, i > p PROVE Ema(v, p)[i] = next(Ema(v, p)[i - 1], i)
    <3>1. i \in p..n /\ i # p /\ ~(i < p) /\ i - 1 \in 1..n /\ ~(i - 1 < p)
      BY <1>1, <2>13
    <3>2. Ema(v, p)[i] = rec[i] /\ Ema(v, p)[i - 1] = rec[i - 1]
      BY <1>2, <3>1
    <3>3. QED
      BY <2>6, <3>1, <3>2
  <2>14. \A i \in 1..n : i < p => Ema(v, p)[i] = None
    BY <1>2
  <2>15. \A i \in 1..n : i >= p => Ema(v, p)[i] \in Rational
    BY <1>1, <1>2, <2>10
  <2>16. Ema(v, p) \in [1..n -> Rational \cup {None}]
    <3>1. \A i \in 1..n : Ema(v, p)[i] \in Rational \cup {None}
      BY <1>1, <2>14, <2>15
    <3>2. Ema(v, p) = [i \in 1..n |-> Ema(v, p)[i]]
      BY <1>2
    <3> DEFINE w == Ema(v, p)
    <3> HIDE DEF w
    <3>3. w \in [1..n -> Rational \cup {None}]
      BY <3>1, <3>2 DEF w
    <3>4. QED
      BY <3>3 DEF w
  <2>17. QED
    BY <2>12, <2>13, <2>14, <2>15, <2>16 DEF n, seed, next
<1>8. QED
  BY <1>1, <1>6, <1>7

(***************************************************************************)
(* A window's sum is the difference of two running sums.                   *)
(***************************************************************************)
LEMMA SumsOfWindow ==
  ASSUME NEW v \in Seq(Rational), NEW w \in Seq(Rational), NEW a \in Nat,
         a + Len(w) <= Len(v), \A j \in 1..Len(w) : w[j] = v[a + j]
  PROVE  \A j \in 0..Len(w) : Sums(w)[j] = Sums(v)[a + j] -- Sums(v)[a]
<1> DEFINE n == Len(v)
           m == Len(w)
           o == 0
           S == {j \in o..m : Sums(w)[j] = Sums(v)[a + j] -- Sums(v)[a]}
           sv == Sums(v)
           sw == Sums(w)
<1>1. n \in Nat /\ m \in Nat /\ m \in Int /\ o \in Int /\ \A j \in 1..n : v[j] \in Rational
  BY SeqIs
<1>2. sv \in [0..n -> Rational] /\ sv[0] = Zero /\ \A i \in 1..n : sv[i] = sv[i - 1] ++ v[i]
  BY SumsIs
<1>3. sw \in [0..m -> Rational] /\ sw[0] = Zero /\ \A i \in 1..m : sw[i] = sw[i - 1] ++ w[i]
  BY SumsIs
<1>4. a + m <= n /\ \A j \in 1..m : w[j] = v[a + j]
  OBVIOUS
<1> HIDE DEF n, m, sv, sw
<1>5. o <= m => o \in S
  <2>1. sv[a] \in Rational
    BY <1>1, <1>2, <1>4
  <2>2. sv[a] -- sv[a] = Zero
    BY <2>1, Rearranged
  <2>3. a + o = a /\ o = 0 /\ o \in o..m
    BY <1>1
  <2>4. QED
    BY <2>2, <2>3, <1>3 DEF sv, sw
<1>6. ASSUME NEW j \in o..m, o < j, j - 1 \in S PROVE j \in S
  <2> DEFINE i == a + j
  <2>1. i \in 1..n /\ i - 1 \in 0..n /\ a \in 0..n /\ j \in 1..m /\ i - 1 = a + (j - 1)
    BY <1>1, <1>4, <1>6
  <2>2. sw[j] = sw[j - 1] ++ v[i] /\ sw[j - 1] = sv[i - 1] -- sv[a]
    BY <2>1, <1>3, <1>4, <1>6 DEF sv, sw
  <2>3. sv[i] = sv[i - 1] ++ v[i]
    BY <2>1, <1>2
  <2>4. sv[i - 1] \in Rational /\ sv[a] \in Rational /\ v[i] \in Rational
    BY <2>1, <1>1, <1>2
  <2> HIDE DEF i
  <2>5. (sv[i - 1] -- sv[a]) ++ v[i] = (sv[i - 1] ++ v[i]) -- sv[a]
    BY <2>4, Rearranged
  <2>6. sw[j] = sv[i] -- sv[a]
    BY <2>2, <2>3, <2>5
  <2>7. QED
    BY <2>6 DEF i, sv, sw
<1>7. \A j \in o..m : j \in S
  <2> HIDE DEF S, o
  <2> QED
    BY <1>1, <1>5, <1>6, StepInduction, Zenon
<1>8. QED
  BY <1>7 DEF o, m

\* The p values that end at position i.
LEMMA Window ==
  ASSUME NEW S, NEW v \in Seq(S), NEW p \in Nat \ {0}, NEW i \in p..Len(v)
  PROVE  /\ WindowAt(v, i, p) \in Seq(S)
         /\ Len(WindowAt(v, i, p)) = p
         /\ \A j \in 1..p : WindowAt(v, i, p)[j] = v[(i - p) + j]
<1> DEFINE m == i - p + 1
           n == Len(v)
<1>1. n \in Nat /\ m \in 1..n /\ i \in 1..n /\ m <= i /\ i - m + 1 = p
  BY SeqIs
<1>2. \A k \in m..i : v[k] \in S
  BY <1>1
<1>3. WindowAt(v, i, p) = SubSeq(v, m, i)
  BY DEF WindowAt
<1>4. /\ SubSeq(v, m, i) \in Seq(S)
      /\ Len(SubSeq(v, m, i)) = IF m <= i THEN i - m + 1 ELSE 0
      /\ \A j \in 1..(i - m + 1) : SubSeq(v, m, i)[j] = v[m + j - 1]
  <2>1. m \in 1..Len(v) + 1 /\ i \in 0..Len(v) /\ m \in Int /\ i \in Int
    BY <1>1
  <2> HIDE DEF m, n
  <2>2. QED
    BY <2>1, <1>2, SubSeqProperties
<1>5. \A j \in 1..p : m + j - 1 = (i - p) + j
  BY <1>1
<1> HIDE DEF m
<1>6. QED
  BY <1>1, <1>3, <1>4, <1>5

(***************************************************************************)
(* sma: the running sum does not drift.                                    *)
(***************************************************************************)
LEMMA SmaIs ==
  ASSUME NEW v \in Seq(Rational), NEW p \in Nat \ {0}
  PROVE  /\ Sma(v, p) \in [1..Len(v) -> Rational \cup {None}]
         /\ \A i \in 1..Len(v) : i < p => Sma(v, p)[i] = None
         /\ \A i \in 1..Len(v) : i >= p =>
               /\ Sma(v, p)[i] \in Rational
               /\ Sma(v, p)[i] = (Sums(v)[i] -- Sums(v)[i - p]) // Rat(p)
<1> DEFINE n == Len(v)
           seed == SumOf(SubSeq(v, 1, p))
           step == [i \in p..n |-> [x \in Rational |-> IF i = p THEN x ELSE x ++ (v[i] -- v[i - p])]]
           rec == CHOOSE g : g = [i \in p..n |-> IF i = p THEN seed
                                                 ELSE g[i - 1] ++ (v[i] -- v[i - p])]
           sums == Sums(v)
           S == {i \in p..n : rec[i] = sums[i] -- sums[i - p]}
<1>1. n \in Nat /\ n \in Int /\ p \in Int /\ \A i \in 1..n : v[i] \in Rational
  BY SeqIs
<1>2. Sma(v, p) = [i \in 1..n |-> IF i < p THEN None ELSE rec[i] // Rat(p)]
  BY Zenon DEF Sma
<1>3. sums \in [0..n -> Rational] /\ sums[0] = Zero /\ \A i \in 1..n : sums[i] = sums[i - 1] ++ v[i]
  BY SumsIs
<1> HIDE DEF n, rec, sums
<1>4. \A i \in p..n : i # p => v[i] \in Rational /\ v[i - p] \in Rational
  BY <1>1
<1>5. ASSUME NEW i \in p..n, NEW x \in Rational, i # p PROVE x ++ (v[i] -- v[i - p]) \in Rational
  <2>1. v[i] -- v[i - p] \in Rational
    BY <1>4, <1>5, Closed
  <2>2. QED
    BY <2>1, Closed
<1>6. step \in [p..n -> [Rational -> Rational]]
  BY <1>5
<1>7. \A i \in p..n, x \in Rational : i # p => step[i][x] = x ++ (v[i] -- v[i - p])
  OBVIOUS
<1> HIDE DEF step
<1>8. CASE p > n
  <2>1. \A i \in 1..n : Sma(v, p)[i] = None /\ ~(i >= p)
    BY <1>1, <1>2, <1>8
  <2>2. Sma(v, p) \in [1..n -> Rational \cup {None}]
    BY <1>1, <1>2, <1>8
  <2>3. QED
    BY <1>1, <1>8, <2>1, <2>2 DEF n
<1>9. CASE p <= n
  <2>1. seed = sums[p] -- sums[0] /\ seed \in Rational
    <3> DEFINE w == SubSeq(v, 1, p)
    <3>1. w \in Seq(Rational) /\ Len(w) = p /\ \A i \in 1..p : w[i] = v[i]
      BY <1>1, <1>9, Prefix DEF n
    <3> HIDE DEF w
    <3>2. 0 + Len(w) <= Len(v) /\ (\A j \in 1..Len(w) : w[j] = v[0 + j]) /\ p \in 0..Len(w)
      BY <1>1, <1>9, <3>1 DEF n
    <3>3. \A j \in 0..Len(w) : Sums(w)[j] = Sums(v)[0 + j] -- Sums(v)[0]
      <4> DEFINE o == 0
      <4>1. o \in Nat /\ o + Len(w) <= Len(v) /\ \A j \in 1..Len(w) : w[j] = v[o + j]
        BY <3>2
      <4> HIDE DEF o
      <4>2. \A j \in 0..Len(w) : Sums(w)[j] = Sums(v)[o + j] -- Sums(v)[o]
        BY <4>1, <3>1, SumsOfWindow
      <4>3. QED
        BY <4>2 DEF o
    <3>4. seed = Sums(w)[p] /\ 0 + p = p
      BY <3>1 DEF SumOf, w
    <3>5. seed = sums[p] -- sums[0]
      BY <3>2, <3>3, <3>4 DEF sums
    <3>6. sums[p] \in Rational /\ sums[0] \in Rational
      BY <1>1, <1>3, <1>9
    <3>7. sums[p] -- sums[0] \in Rational
      BY <3>6, Closed
    <3>8. QED
      BY <3>5, <3>7
  <2> HIDE DEF seed
  <2>2. PICK f : Recurs(f, p, n, Rational, seed, step)
    BY <1>1, <1>6, <2>1, RecursionExists, Zenon
  <2>3. ASSUME NEW i \in p..n
        PROVE  f[i] = IF i = p THEN seed ELSE f[i - 1] ++ (v[i] -- v[i - p])
    <3>1. i # p => i - 1 \in p..n
      BY <1>1
    <3>2. QED
      BY <3>1, <1>7, <2>2 DEF Recurs
  <2>4. f = [i \in p..n |-> IF i = p THEN seed ELSE f[i - 1] ++ (v[i] -- v[i - p])]
    BY <2>2, <2>3 DEF Recurs
  <2>5. rec = [i \in p..n |-> IF i = p THEN seed ELSE rec[i - 1] ++ (v[i] -- v[i - p])]
    BY <2>4, Zenon DEF rec
  <2>6. \A i \in p..n : rec[i] = IF i = p THEN seed ELSE rec[i - 1] ++ (v[i] -- v[i - p])
    BY <2>5, Zenon
  <2>7. p <= n => p \in S
    <3>1. p - p = 0 /\ p \in p..n
      BY <1>1, <1>9
    <3>2. QED
      BY <3>1, <2>1, <2>6
  <2>8. ASSUME NEW i \in p..n, p < i, i - 1 \in S PROVE i \in S
    <3> DEFINE j == i - p
    <3>1. i # p /\ i \in 1..n /\ j \in 1..n /\ i - 1 \in 0..n /\ j - 1 \in 0..n /\ (i - 1) - p = j - 1
      BY <1>1, <2>8
    <3>2. rec[i] = rec[i - 1] ++ (v[i] -- v[j])
      BY <2>6, <3>1
    <3>3. rec[i - 1] = sums[i - 1] -- sums[j - 1]
      BY <2>8, <3>1
    <3> HIDE DEF j
    <3>4. sums[i] = sums[i - 1] ++ v[i] /\ sums[j] = sums[j - 1] ++ v[j]
      BY <1>3, <3>1
    <3>5. sums[i - 1] \in Rational /\ sums[j - 1] \in Rational /\ v[i] \in Rational /\ v[j] \in Rational
      BY <1>1, <1>3, <3>1
    <3>6. (sums[i - 1] -- sums[j - 1]) ++ (v[i] -- v[j]) = (sums[i - 1] ++ v[i]) -- (sums[j - 1] ++ v[j])
      BY <3>5, Rearranged
    <3>7. rec[i] = sums[i] -- sums[j]
      BY <3>2, <3>3, <3>4, <3>6
    <3>8. QED
      BY <3>7 DEF j
  <2>9. \A i \in p..n : i \in S
    <3> HIDE DEF S
    <3> QED
      BY <1>1, <2>7, <2>8, StepInduction, Zenon
  <2>10. ASSUME NEW i \in 1..n, i >= p
         PROVE  Sma(v, p)[i] = (sums[i] -- sums[i - p]) // Rat(p) /\ Sma(v, p)[i] \in Rational
    <3>1. i \in p..n /\ ~(i < p) /\ i \in 0..n /\ i - p \in 0..n
      BY <1>1, <2>10
    <3>2. rec[i] = sums[i] -- sums[i - p]
      BY <2>9, <3>1
    <3>3. Sma(v, p)[i] = (sums[i] -- sums[i - p]) // Rat(p)
      BY <1>2, <3>1, <3>2
    <3>4. sums[i] -- sums[i - p] \in Rational
      BY <1>3, <3>1, Closed
    <3>5. (sums[i] -- sums[i - p]) // Rat(p) \in Rational
      BY <3>4, PositiveRat, Closed
    <3>6. QED
      BY <3>3, <3>5
  <2>11. \A i \in 1..n : i < p => Sma(v, p)[i] = None
    BY <1>2
  <2>12. Sma(v, p) \in [1..n -> Rational \cup {None}]
    <3> DEFINE w == Sma(v, p)
    <3>1. \A i \in 1..n : w[i] \in Rational \cup {None}
      BY <1>1, <2>10, <2>11
    <3>2. w = [i \in 1..n |-> w[i]]
      BY <1>2
    <3> HIDE DEF w
    <3>3. w \in [1..n -> Rational \cup {None}]
      BY <3>1, <3>2
    <3>4. QED
      BY <3>3 DEF w
  <2>13. QED
    BY <2>10, <2>11, <2>12 DEF n, sums
<1>10. QED
  BY <1>1, <1>8, <1>9

\* The first values of a longer series.
LEMMA SamePrefix ==
  ASSUME NEW S, NEW u \in Seq(S), NEW v \in Seq(S), Extends(v, u), NEW p \in 0..Len(u)
  PROVE  SubSeq(v, 1, p) = SubSeq(u, 1, p)
<1> DEFINE a == SubSeq(v, 1, p)
           b == SubSeq(u, 1, p)
<1>1. Len(u) \in Nat /\ p \in Nat /\ p \in 0..Len(v)
  BY SeqIs DEF Extends
<1>2. a \in Seq(S) /\ Len(a) = p /\ \A i \in 1..p : a[i] = v[i]
  BY <1>1, Prefix
<1>3. b \in Seq(S) /\ Len(b) = p /\ \A i \in 1..p : b[i] = u[i]
  BY <1>1, Prefix
<1>4. \A i \in 1..p : v[i] = u[i]
  BY <1>1 DEF Extends
<1> HIDE DEF a, b
<1>5. \A i \in 1..p : a[i] = b[i]
  BY <1>2, <1>3, <1>4
<1>6. a = b
  BY <1>2, <1>3, <1>5, SeqEqual
<1>7. QED
  BY <1>6 DEF a, b

\* Later values leave the running sums alone ...
LEMMA SumsStable ==
  ASSUME NEW u \in Seq(Rational), NEW v \in Seq(Rational), Extends(v, u)
  PROVE  \A i \in 0..Len(u) : Sums(v)[i] = Sums(u)[i]
<1> DEFINE o == 0
           n == Len(u)
           su == Sums(u)
           sv == Sums(v)
           S == {i \in o..n : sv[i] = su[i]}
<1>1. n \in Nat /\ n \in Int /\ o \in Int /\ Len(v) \in Nat /\ n <= Len(v)
      /\ \A i \in 1..n : v[i] = u[i]
  BY SeqIs DEF Extends
<1>2. su[0] = Zero /\ \A i \in 1..n : su[i] = su[i - 1] ++ u[i]
  BY SumsIs
<1>3. sv[0] = Zero /\ \A i \in 1..n : sv[i] = sv[i - 1] ++ v[i]
  BY <1>1, SumsIs
<1> HIDE DEF n, su, sv
<1>4. o <= n => o \in S
  BY <1>1, <1>2, <1>3
<1>5. ASSUME NEW i \in o..n, o < i, i - 1 \in S PROVE i \in S
  BY <1>1, <1>2, <1>3, <1>5
<1>6. \A i \in o..n : i \in S
  <2> HIDE DEF S, o
  <2> QED
    BY <1>1, <1>4, <1>5, StepInduction, Zenon
<1>7. QED
  BY <1>6 DEF o, n, su, sv

\* ... and sma ...
LEMMA SmaStable ==
  ASSUME NEW u \in Seq(Rational), NEW v \in Seq(Rational), Extends(v, u), NEW p \in Nat \ {0}
  PROVE  \A i \in 1..Len(u) : Sma(v, p)[i] = Sma(u, p)[i]
<1> TAKE i \in 1..Len(u)
<1>1. Len(u) \in Nat /\ i \in 1..Len(v) /\ Len(v) \in Nat
  BY SeqIs DEF Extends
<1>2. CASE i < p
  BY <1>1, <1>2, SmaIs
<1>3. CASE i >= p
  <2>1. i \in 0..Len(u) /\ i - p \in 0..Len(u)
    BY <1>1, <1>3
  <2>2. Sums(v)[i] = Sums(u)[i] /\ Sums(v)[i - p] = Sums(u)[i - p]
    BY <2>1, SumsStable
  <2>3. Sma(v, p)[i] = (Sums(v)[i] -- Sums(v)[i - p]) // Rat(p)
    BY <1>1, <1>3, SmaIs
  <2>4. Sma(u, p)[i] = (Sums(u)[i] -- Sums(u)[i - p]) // Rat(p)
    BY <1>1, <1>3, SmaIs
  <2>5. QED
    BY <2>2, <2>3, <2>4
<1>4. QED
  BY <1>1, <1>2, <1>3

\* ... and wilder_smoothing ...
LEMMA WilderStable ==
  ASSUME NEW u \in Seq(Rational), NEW v \in Seq(Rational), Extends(v, u), NEW p \in Nat \ {0}
  PROVE  \A i \in 1..Len(u) : WilderSmoothing(v, p)[i] = WilderSmoothing(u, p)[i]
<1> DEFINE n == Len(u)
           a == WilderSmoothing(u, p)
           b == WilderSmoothing(v, p)
           S == {i \in p..n : b[i] = a[i]}
<1>1. n \in Nat /\ n \in Int /\ p \in Int /\ n <= Len(v) /\ Len(v) \in Nat
      /\ \A i \in 1..n : v[i] = u[i]
  BY SeqIs DEF Extends
<1>2. /\ \A i \in 1..n : i < p => a[i] = None
      /\ p <= n => a[p] = Mean(SubSeq(u, 1, p))
      /\ \A i \in 1..n : i > p => a[i] = ((a[i - 1] ** Rat(p - 1)) ++ u[i]) // Rat(p)
  BY WilderIs
<1>3. /\ \A i \in 1..n : i < p => b[i] = None
      /\ p <= n => b[p] = Mean(SubSeq(v, 1, p))
      /\ \A i \in 1..n : i > p => b[i] = ((b[i - 1] ** Rat(p - 1)) ++ v[i]) // Rat(p)
  <2>1. /\ \A i \in 1..Len(v) : i < p => b[i] = None
        /\ p <= Len(v) => b[p] = Mean(SubSeq(v, 1, p))
        /\ \A i \in 1..Len(v) : i > p => b[i] = ((b[i - 1] ** Rat(p - 1)) ++ v[i]) // Rat(p)
    BY WilderIs
  <2> HIDE DEF b, n
  <2>2. \A i \in 1..n : i \in 1..Len(v)
    BY <1>1
  <2>3. p <= n => p <= Len(v)
    BY <1>1
  <2>4. QED
    BY <2>1, <2>2, <2>3
<1>4. p <= n => SubSeq(v, 1, p) = SubSeq(u, 1, p)
  BY <1>1, SamePrefix
<1> HIDE DEF n, a, b
<1>5. ASSUME p <= n PROVE p \in S
  <2>1. a[p] = b[p]
    BY <1>2, <1>3, <1>4, <1>5, Zenon
  <2>2. QED
    BY <2>1, <1>1, <1>5
<1>6. ASSUME NEW i \in p..n, p < i, i - 1 \in S PROVE i \in S
  <2>1. i \in 1..n /\ i > p /\ v[i] = u[i]
    BY <1>1, <1>6
  <2>2. b[i - 1] = a[i - 1]
    BY <1>6
  <2>3. a[i] = ((a[i - 1] ** Rat(p - 1)) ++ u[i]) // Rat(p)
    BY <1>2, <2>1
  <2>4. b[i] = ((b[i - 1] ** Rat(p - 1)) ++ v[i]) // Rat(p)
    BY <1>3, <2>1
  <2>5. b[i] = a[i]
    BY <2>1, <2>2, <2>3, <2>4, Zenon
  <2>6. QED
    BY <2>5
<1>7. \A i \in p..n : i \in S
  <2> HIDE DEF S
  <2> QED
    BY <1>1, <1>5, <1>6, StepInduction, Zenon
<1>8. ASSUME NEW i \in 1..n PROVE b[i] = a[i]
  <2>1. CASE i < p
    BY <2>1, <1>2, <1>3
  <2>2. CASE i >= p
    BY <2>2, <1>1, <1>7
  <2>3. QED
    BY <1>1, <2>1, <2>2
<1>9. QED
  BY <1>8 DEF n, a, b

\* ... and ema.
LEMMA EmaStable ==
  ASSUME NEW u \in Seq(Rational), NEW v \in Seq(Rational), Extends(v, u), NEW p \in Nat \ {0}
  PROVE  \A i \in 1..Len(u) : Ema(v, p)[i] = Ema(u, p)[i]
<1> DEFINE n == Len(u)
           a == Ema(u, p)
           b == Ema(v, p)
           S == {i \in p..n : b[i] = a[i]}
<1>1. n \in Nat /\ n \in Int /\ p \in Int /\ n <= Len(v) /\ Len(v) \in Nat
      /\ \A i \in 1..n : v[i] = u[i]
  BY SeqIs DEF Extends
<1>2. /\ \A i \in 1..n : i < p => a[i] = None
      /\ p <= n => a[p] = Mean(SubSeq(u, 1, p))
      /\ \A i \in 1..n : i > p => a[i] = ((u[i] -- a[i - 1]) ** Frac(2, p + 1)) ++ a[i - 1]
  BY EmaIs
<1>3. /\ \A i \in 1..n : i < p => b[i] = None
      /\ p <= n => b[p] = Mean(SubSeq(v, 1, p))
      /\ \A i \in 1..n : i > p => b[i] = ((v[i] -- b[i - 1]) ** Frac(2, p + 1)) ++ b[i - 1]
  <2>1. /\ \A i \in 1..Len(v) : i < p => b[i] = None
        /\ p <= Len(v) => b[p] = Mean(SubSeq(v, 1, p))
        /\ \A i \in 1..Len(v) : i > p => b[i] = ((v[i] -- b[i - 1]) ** Frac(2, p + 1)) ++ b[i - 1]
    BY EmaIs
  <2> HIDE DEF b, n
  <2>2. \A i \in 1..n : i \in 1..Len(v)
    BY <1>1
  <2>3. p <= n => p <= Len(v)
    BY <1>1
  <2>4. QED
    BY <2>1, <2>2, <2>3
<1>4. p <= n => SubSeq(v, 1, p) = SubSeq(u, 1, p)
  BY <1>1, SamePrefix
<1> HIDE DEF n, a, b
<1>5. ASSUME p <= n PROVE p \in S
  <2>1. a[p] = b[p]
    BY <1>2, <1>3, <1>4, <1>5, Zenon
  <2>2. QED
    BY <2>1, <1>1, <1>5
<1>6. ASSUME NEW i \in p..n, p < i, i - 1 \in S PROVE i \in S
  <2>1. i \in 1..n /\ i > p /\ v[i] = u[i]
    BY <1>1, <1>6
  <2>2. b[i - 1] = a[i - 1]
    BY <1>6
  <2>3. a[i] = ((u[i] -- a[i - 1]) ** Frac(2, p + 1)) ++ a[i - 1]
    BY <1>2, <2>1
  <2>4. b[i] = ((v[i] -- b[i - 1]) ** Frac(2, p + 1)) ++ b[i - 1]
    BY <1>3, <2>1
  <2>5. b[i] = a[i]
    BY <2>1, <2>2, <2>3, <2>4, Zenon
  <2>6. QED
    BY <2>5
<1>7. \A i \in p..n : i \in S
  <2> HIDE DEF S
  <2> QED
    BY <1>1, <1>5, <1>6, StepInduction, Zenon
<1>8. ASSUME NEW i \in 1..n PROVE b[i] = a[i]
  <2>1. CASE i < p
    BY <2>1, <1>2, <1>3
  <2>2. CASE i >= p
    BY <2>2, <1>1, <1>7
  <2>3. QED
    BY <1>1, <2>1, <2>2
<1>9. QED
  BY <1>8 DEF n, a, b

\* A step of wilder_smoothing on one denominator.
LEMMA WilderStep ==
  ASSUME NEW a \in Int, NEW b \in Int, NEW d \in Nat \ {0}, NEW p \in Nat \ {0}
  PROVE  /\ ((Frac(a, d) ** Rat(p - 1)) ++ Frac(b, d)) // Rat(p) = Frac(a * (p - 1) + b, p * d)
         /\ p * d \in Nat \ {0}
         /\ a * (p - 1) + b \in Int
<1> DEFINE m == p - 1
           A == a * m
<1>1. m \in Int /\ A \in Int /\ 1 \in Nat \ {0} /\ d * 1 = d /\ d * p = p * d /\ (A + b) * 1 = A + b
      /\ A + b \in Int
  OBVIOUS
<1>2. Rat(m) = Frac(m, 1) /\ Rat(p) = Frac(p, 1)
  BY <1>1, RatIs
<1>3. Frac(a, d) ** Frac(m, 1) = Frac(A, d)
  <2> HIDE DEF m
  <2>1. Frac(a, d) ** Frac(m, 1) = Frac(a * m, d * 1)
    BY <1>1, FracOps
  <2>2. QED
    BY <1>1, <2>1
<1> HIDE DEF A
<1>4. Frac(A, d) ++ Frac(b, d) = Frac(A + b, d)
  BY <1>1, OnOneDenominator
<1>5. Frac(A + b, d) // Frac(p, 1) = Frac(A + b, d * p)
  <2> DEFINE s == A + b
  <2>1. s \in Int /\ s * 1 = s
    BY <1>1
  <2> HIDE DEF s
  <2>2. Frac(s, d) // Frac(p, 1) = Frac(s * 1, d * p)
    BY <1>1, <2>1, FracDiv
  <2>3. QED
    BY <2>1, <2>2 DEF s
<1>6. p * d \in Nat \ {0}
  <2>1. p * d > 0
    OBVIOUS
  <2>2. QED
    BY <2>1
<1>7. QED
  BY <1>1, <1>2, <1>3, <1>4, <1>5, <1>6 DEF A, m

\* A step of ema on one denominator.
LEMMA EmaStep ==
  ASSUME NEW a \in Int, NEW b \in Int, NEW d \in Nat \ {0}, NEW p \in Nat \ {0}
  PROVE  /\ ((Frac(b, d) -- Frac(a, d)) ** Frac(2, p + 1)) ++ Frac(a, d)
               = Frac((b - a) * 2 + a * (p + 1), (p + 1) * d)
         /\ (p + 1) * d \in Nat \ {0}
         /\ (b - a) * 2 + a * (p + 1) \in Int
<1> DEFINE m == p + 1
           c == b - a
           t == 2
           C == c * t
           D == d * m
           E == a * m
<1>1. m \in Nat \ {0} /\ c \in Int /\ t \in Int /\ C \in Int /\ E \in Int /\ D = m * d
  OBVIOUS
<1>2. D \in Nat \ {0}
  <2>1. d * m > 0
    OBVIOUS
  <2>2. QED
    BY <2>1
<1>3. Frac(b, d) -- Frac(a, d) = Frac(c, d)
  BY OnOneDenominator
<1>4. Frac(c, d) ** Frac(t, m) = Frac(C, D)
  <2> HIDE DEF c, t, m
  <2> QED
    BY <1>1, FracOps
<1>5. Frac(a, d) = Frac(E, D)
  <2> HIDE DEF m
  <2>1. Frac(m * a, m * d) = Frac(a, d)
    BY <1>1, FracScale
  <2>2. m * a = E /\ m * d = D
    BY <1>1
  <2>3. QED
    BY <2>1, <2>2
<1>6. Frac(C, D) ++ Frac(E, D) = Frac(C + E, D)
  <2> HIDE DEF C, D, E
  <2> QED
    BY <1>1, <1>2, OnOneDenominator
<1>7. QED
  BY <1>1, <1>2, <1>3, <1>4, <1>5, <1>6

\* A step of wilder_smoothing keeps a lower bound, ...
LEMMA WilderStepAbove ==
  ASSUME NEW x \in Rational, NEW y \in Rational, NEW l \in Rational, NEW p \in Nat \ {0},
         Leq(l, x), Leq(l, y)
  PROVE  Leq(l, ((x ** Rat(p - 1)) ++ y) // Rat(p))
<1>1. PICK a \in Int, b \in Int, c \in Int, d \in Nat \ {0} :
         x = Frac(a, d) /\ y = Frac(b, d) /\ l = Frac(c, d)
  BY CommonDenominator3
<1>2. (Leq(Frac(c, d), Frac(a, d)) <=> c <= a) /\ (Leq(Frac(c, d), Frac(b, d)) <=> c <= b)
  BY OnOneDenominator
<1>3. c <= a /\ c <= b
  BY <1>1, <1>2
<1> DEFINE s == a * (p - 1) + b
           D == p * d
<1>4. ((Frac(a, d) ** Rat(p - 1)) ++ Frac(b, d)) // Rat(p) = Frac(s, D) /\ D \in Nat \ {0} /\ s \in Int
  BY WilderStep
<1>5. p * c <= s
  <2>1. c * (p - 1) <= a * (p - 1)
    BY <1>3
  <2>2. c * (p - 1) + c = p * c
    OBVIOUS
  <2>3. c * (p - 1) \in Int /\ a * (p - 1) \in Int /\ p * c \in Int
    OBVIOUS
  <2>4. QED
    BY <2>1, <2>2, <2>3, <1>3
<1> HIDE DEF s
<1>6. l = Frac(p * c, D)
  BY <1>1, FracScale
<1> HIDE DEF D
<1>7. Leq(Frac(p * c, D), Frac(s, D)) <=> p * c <= s
  <2> DEFINE e == p * c
  <2>1. e \in Int
    OBVIOUS
  <2> HIDE DEF e
  <2>2. Leq(Frac(e, D), Frac(s, D)) <=> e <= s
    BY <2>1, <1>4, OnOneDenominator
  <2>3. QED
    BY <2>2 DEF e
<1>8. QED
  BY <1>1, <1>4, <1>5, <1>6, <1>7

\* ... and so does a step of ema.
LEMMA EmaStepAbove ==
  ASSUME NEW x \in Rational, NEW y \in Rational, NEW l \in Rational, NEW p \in Nat \ {0},
         Leq(l, x), Leq(l, y)
  PROVE  Leq(l, ((y -- x) ** Frac(2, p + 1)) ++ x)
<1>1. PICK a \in Int, b \in Int, c \in Int, d \in Nat \ {0} :
         x = Frac(a, d) /\ y = Frac(b, d) /\ l = Frac(c, d)
  BY CommonDenominator3
<1>2. (Leq(Frac(c, d), Frac(a, d)) <=> c <= a) /\ (Leq(Frac(c, d), Frac(b, d)) <=> c <= b)
  BY OnOneDenominator
<1>3. c <= a /\ c <= b
  BY <1>1, <1>2
<1> DEFINE m == p + 1
           s == (b - a) * 2 + a * (p + 1)
           D == (p + 1) * d
<1>4. ((Frac(b, d) -- Frac(a, d)) ** Frac(2, p + 1)) ++ Frac(a, d) = Frac(s, D)
      /\ D \in Nat \ {0} /\ s \in Int
  BY EmaStep
<1>5. m * c <= s
  <2>1. c * (p - 1) <= a * (p - 1)
    BY <1>3
  <2>2. c * (p - 1) + 2 * c = m * c /\ s = a * (p - 1) + 2 * b
    OBVIOUS
  <2>3. c * (p - 1) \in Int /\ a * (p - 1) \in Int /\ m * c \in Int
    OBVIOUS
  <2> HIDE DEF s, m
  <2>4. QED
    BY <2>1, <2>2, <2>3, <1>3
<1> HIDE DEF s
<1>6. l = Frac(m * c, D)
  <2>1. m \in Nat \ {0}
    OBVIOUS
  <2>2. D = m * d
    OBVIOUS
  <2> HIDE DEF m
  <2>3. QED
    BY <2>1, <2>2, <1>1, FracScale
<1> HIDE DEF D
<1>7. Leq(Frac(m * c, D), Frac(s, D)) <=> m * c <= s
  <2> DEFINE e == m * c
  <2>1. e \in Int
    OBVIOUS
  <2> HIDE DEF e
  <2>2. Leq(Frac(e, D), Frac(s, D)) <=> e <= s
    BY <2>1, <1>4, OnOneDenominator
  <2>3. QED
    BY <2>2 DEF e
<1>8. QED
  BY <1>1, <1>4, <1>5, <1>6, <1>7

\* A lower bound of the values bounds their running sums, ...
LEMMA SumsAbove ==
  ASSUME NEW v \in Seq(Rational), NEW l \in Rational, \A i \in 1..Len(v) : Leq(l, v[i])
  PROVE  \A i \in 0..Len(v) : Leq(l ** Rat(i), Sums(v)[i])
<1> DEFINE n == Len(v)
           o == 0
           sums == Sums(v)
           S == {i \in o..n : Leq(l ** Rat(i), sums[i])}
<1>1. n \in Nat /\ n \in Int /\ o \in Int /\ \A i \in 1..n : v[i] \in Rational
  BY SeqIs
<1>2. sums \in [0..n -> Rational] /\ sums[0] = Zero /\ \A i \in 1..n : sums[i] = sums[i - 1] ++ v[i]
  BY SumsIs
<1>3. \A i \in 1..n : Leq(l, v[i])
  OBVIOUS
<1> HIDE DEF n, sums
<1>4. o <= n => o \in S
  <2>1. l ** Rat(0) = Zero /\ Leq(Zero, Zero)
    BY Products, ZeroIs, TotalOrder DEF Zero
  <2>2. QED
    BY <2>1, <1>1, <1>2
<1>5. ASSUME NEW i \in o..n, o < i, i - 1 \in S PROVE i \in S
  <2>1. i \in 1..n /\ i - 1 \in 0..n /\ i - 1 \in Int /\ i \in Int
    BY <1>1, <1>5
  <2>2. Leq(l ** Rat(i - 1), sums[i - 1]) /\ Leq(l, v[i]) /\ sums[i] = sums[i - 1] ++ v[i]
    BY <2>1, <1>2, <1>3, <1>5
  <2>3. l ** Rat(i) = (l ** Rat(i - 1)) ++ l
    BY <2>1, TimesNext
  <2>4. l ** Rat(i - 1) \in Rational /\ sums[i - 1] \in Rational /\ v[i] \in Rational
    BY <2>1, <1>1, <1>2, RatIs, Closed
  <2>5. Leq((l ** Rat(i - 1)) ++ l, sums[i - 1] ++ v[i])
    BY <2>2, <2>4, AddMonotone
  <2>6. QED
    BY <2>2, <2>3, <2>5
<1>6. \A i \in o..n : i \in S
  <2> HIDE DEF S, o
  <2> QED
    BY <1>1, <1>4, <1>5, StepInduction, Zenon
<1>7. QED
  BY <1>6 DEF o, n, sums

\* ... their mean, ...
LEMMA MeanAbove ==
  ASSUME NEW v \in Seq(Rational), Len(v) \in Nat \ {0}, NEW l \in Rational,
         \A i \in 1..Len(v) : Leq(l, v[i])
  PROVE  Leq(l, Mean(v))
<1> DEFINE n == Len(v)
           s == SumOf(v)
<1>1. n \in 0..Len(v) /\ s \in Rational
  BY SumsIs DEF SumOf
<1>2. Leq(l ** Rat(n), s)
  BY <1>1, SumsAbove DEF SumOf
<1>3. Rat(n) \in Rational /\ Less(Zero, Rat(n))
  BY PositiveRat
<1>4. Mean(v) = s // Rat(n)
  BY DEF Mean
<1> HIDE DEF s, n
<1>5. QED
  BY <1>1, <1>2, <1>3, <1>4, QuotientBounds

\* ... wilder_smoothing ...
LEMMA WilderAbove ==
  ASSUME NEW v \in Seq(Rational), NEW p \in Nat \ {0}, NEW l \in Rational,
         \A i \in 1..Len(v) : Leq(l, v[i])
  PROVE  \A i \in 1..Len(v) : i >= p => Leq(l, WilderSmoothing(v, p)[i])
<1> DEFINE n == Len(v)
           w == WilderSmoothing(v, p)
           S == {i \in p..n : Leq(l, w[i])}
<1>1. n \in Nat /\ n \in Int /\ p \in Int /\ \A i \in 1..n : v[i] \in Rational /\ Leq(l, v[i])
  BY SeqIs
<1>2. /\ \A i \in 1..n : i >= p => w[i] \in Rational
      /\ p <= n => w[p] = Mean(SubSeq(v, 1, p))
      /\ \A i \in 1..n : i > p => w[i] = ((w[i - 1] ** Rat(p - 1)) ++ v[i]) // Rat(p)
  BY WilderIs
<1> HIDE DEF w
<1>3. ASSUME p <= n PROVE p \in S
  <2> DEFINE u == SubSeq(v, 1, p)
  <2>1. u \in Seq(Rational) /\ Len(u) = p /\ \A i \in 1..p : u[i] = v[i]
    BY <1>1, <1>3, Prefix
  <2>2. w[p] = Mean(u)
    BY <1>2, <1>3
  <2> HIDE DEF u
  <2>3. \A i \in 1..Len(u) : Leq(l, u[i])
    BY <2>1, <1>1, <1>3
  <2>4. Leq(l, Mean(u))
    BY <2>1, <2>3, MeanAbove
  <2>5. QED
    BY <2>2, <2>4, <1>1, <1>3
<1> HIDE DEF n
<1>4. ASSUME NEW i \in p..n, p < i, i - 1 \in S PROVE i \in S
  <2>1. i \in 1..n /\ i - 1 \in 1..n /\ i - 1 >= p /\ i > p
    BY <1>1, <1>4
  <2>2. w[i] = ((w[i - 1] ** Rat(p - 1)) ++ v[i]) // Rat(p) /\ w[i - 1] \in Rational
    BY <1>2, <2>1
  <2>3. Leq(l, w[i - 1]) /\ v[i] \in Rational /\ Leq(l, v[i])
    BY <1>1, <1>4, <2>1
  <2>4. Leq(l, ((w[i - 1] ** Rat(p - 1)) ++ v[i]) // Rat(p))
    BY <2>2, <2>3, WilderStepAbove
  <2>5. QED
    BY <2>2, <2>4
<1>5. \A i \in p..n : i \in S
  <2> HIDE DEF S
  <2> QED
    BY <1>1, <1>3, <1>4, StepInduction, Zenon
<1>6. ASSUME NEW i \in 1..n, i >= p PROVE Leq(l, w[i])
  <2>1. i \in p..n
    BY <1>1, <1>6
  <2>2. QED
    BY <2>1, <1>5
<1>7. QED
  BY <1>6 DEF n, w

\* ... and ema.
LEMMA EmaAbove ==
  ASSUME NEW v \in Seq(Rational), NEW p \in Nat \ {0}, NEW l \in Rational,
         \A i \in 1..Len(v) : Leq(l, v[i])
  PROVE  \A i \in 1..Len(v) : i >= p => Leq(l, Ema(v, p)[i])
<1> DEFINE n == Len(v)
           w == Ema(v, p)
           S == {i \in p..n : Leq(l, w[i])}
<1>1. n \in Nat /\ n \in Int /\ p \in Int /\ \A i \in 1..n : v[i] \in Rational /\ Leq(l, v[i])
  BY SeqIs
<1>2. /\ \A i \in 1..n : i >= p => w[i] \in Rational
      /\ p <= n => w[p] = Mean(SubSeq(v, 1, p))
      /\ \A i \in 1..n : i > p => w[i] = ((v[i] -- w[i - 1]) ** Frac(2, p + 1)) ++ w[i - 1]
  BY EmaIs
<1> HIDE DEF w
<1>3. ASSUME p <= n PROVE p \in S
  <2> DEFINE u == SubSeq(v, 1, p)
  <2>1. u \in Seq(Rational) /\ Len(u) = p /\ \A i \in 1..p : u[i] = v[i]
    BY <1>1, <1>3, Prefix
  <2>2. w[p] = Mean(u)
    BY <1>2, <1>3
  <2> HIDE DEF u
  <2>3. \A i \in 1..Len(u) : Leq(l, u[i])
    BY <2>1, <1>1, <1>3
  <2>4. Leq(l, Mean(u))
    BY <2>1, <2>3, MeanAbove
  <2>5. QED
    BY <2>2, <2>4, <1>1, <1>3
<1> HIDE DEF n
<1>4. ASSUME NEW i \in p..n, p < i, i - 1 \in S PROVE i \in S
  <2>1. i \in 1..n /\ i - 1 \in 1..n /\ i - 1 >= p /\ i > p
    BY <1>1, <1>4
  <2>2. w[i] = ((v[i] -- w[i - 1]) ** Frac(2, p + 1)) ++ w[i - 1] /\ w[i - 1] \in Rational
    BY <1>2, <2>1
  <2>3. Leq(l, w[i - 1]) /\ v[i] \in Rational /\ Leq(l, v[i])
    BY <1>1, <1>4, <2>1
  <2>4. Leq(l, ((v[i] -- w[i - 1]) ** Frac(2, p + 1)) ++ w[i - 1])
    BY <2>2, <2>3, EmaStepAbove
  <2>5. QED
    BY <2>2, <2>4
<1>5. \A i \in p..n : i \in S
  <2> HIDE DEF S
  <2> QED
    BY <1>1, <1>3, <1>4, StepInduction, Zenon
<1>6. ASSUME NEW i \in 1..n, i >= p PROVE Leq(l, w[i])
  <2>1. i \in p..n
    BY <1>1, <1>6
  <2>2. QED
    BY <2>1, <1>5
<1>7. QED
  BY <1>6 DEF n, w

\* A step of wilder_smoothing keeps an upper bound, ...
LEMMA WilderStepBelow ==
  ASSUME NEW x \in Rational, NEW y \in Rational, NEW l \in Rational, NEW p \in Nat \ {0},
         Leq(x, l), Leq(y, l)
  PROVE  Leq(((x ** Rat(p - 1)) ++ y) // Rat(p), l)
<1>1. PICK a \in Int, b \in Int, c \in Int, d \in Nat \ {0} :
         x = Frac(a, d) /\ y = Frac(b, d) /\ l = Frac(c, d)
  BY CommonDenominator3
<1>2. (Leq(Frac(a, d), Frac(c, d)) <=> a <= c) /\ (Leq(Frac(b, d), Frac(c, d)) <=> b <= c)
  BY OnOneDenominator
<1>3. a <= c /\ b <= c
  BY <1>1, <1>2
<1> DEFINE s == a * (p - 1) + b
           D == p * d
<1>4. ((Frac(a, d) ** Rat(p - 1)) ++ Frac(b, d)) // Rat(p) = Frac(s, D) /\ D \in Nat \ {0} /\ s \in Int
  BY WilderStep
<1>5. s <= p * c
  <2>1. a * (p - 1) <= c * (p - 1)
    BY <1>3
  <2>2. c * (p - 1) + c = p * c
    OBVIOUS
  <2>3. c * (p - 1) \in Int /\ a * (p - 1) \in Int /\ p * c \in Int
    OBVIOUS
  <2>4. QED
    BY <2>1, <2>2, <2>3, <1>3
<1> HIDE DEF s
<1>6. l = Frac(p * c, D)
  BY <1>1, FracScale
<1> HIDE DEF D
<1>7. Leq(Frac(s, D), Frac(p * c, D)) <=> s <= p * c
  <2> DEFINE e == p * c
  <2>1. e \in Int
    OBVIOUS
  <2> HIDE DEF e
  <2>2. Leq(Frac(s, D), Frac(e, D)) <=> s <= e
    BY <2>1, <1>4, OnOneDenominator
  <2>3. QED
    BY <2>2 DEF e
<1>8. QED
  BY <1>1, <1>4, <1>5, <1>6, <1>7

\* ... and so does a step of ema.
LEMMA EmaStepBelow ==
  ASSUME NEW x \in Rational, NEW y \in Rational, NEW l \in Rational, NEW p \in Nat \ {0},
         Leq(x, l), Leq(y, l)
  PROVE  Leq(((y -- x) ** Frac(2, p + 1)) ++ x, l)
<1>1. PICK a \in Int, b \in Int, c \in Int, d \in Nat \ {0} :
         x = Frac(a, d) /\ y = Frac(b, d) /\ l = Frac(c, d)
  BY CommonDenominator3
<1>2. (Leq(Frac(a, d), Frac(c, d)) <=> a <= c) /\ (Leq(Frac(b, d), Frac(c, d)) <=> b <= c)
  BY OnOneDenominator
<1>3. a <= c /\ b <= c
  BY <1>1, <1>2
<1> DEFINE m == p + 1
           s == (b - a) * 2 + a * (p + 1)
           D == (p + 1) * d
<1>4. ((Frac(b, d) -- Frac(a, d)) ** Frac(2, p + 1)) ++ Frac(a, d) = Frac(s, D)
      /\ D \in Nat \ {0} /\ s \in Int
  BY EmaStep
<1>5. s <= m * c
  <2>1. a * (p - 1) <= c * (p - 1)
    BY <1>3
  <2>2. c * (p - 1) + 2 * c = m * c /\ s = a * (p - 1) + 2 * b
    OBVIOUS
  <2>3. c * (p - 1) \in Int /\ a * (p - 1) \in Int /\ m * c \in Int
    OBVIOUS
  <2> HIDE DEF s, m
  <2>4. QED
    BY <2>1, <2>2, <2>3, <1>3
<1> HIDE DEF s
<1>6. l = Frac(m * c, D)
  <2>1. m \in Nat \ {0}
    OBVIOUS
  <2>2. D = m * d
    OBVIOUS
  <2> HIDE DEF m
  <2>3. QED
    BY <2>1, <2>2, <1>1, FracScale
<1> HIDE DEF D
<1>7. Leq(Frac(s, D), Frac(m * c, D)) <=> s <= m * c
  <2> DEFINE e == m * c
  <2>1. e \in Int
    OBVIOUS
  <2> HIDE DEF e
  <2>2. Leq(Frac(s, D), Frac(e, D)) <=> s <= e
    BY <2>1, <1>4, OnOneDenominator
  <2>3. QED
    BY <2>2 DEF e
<1>8. QED
  BY <1>1, <1>4, <1>5, <1>6, <1>7

\* An upper bound of the values bounds their running sums, ...
LEMMA SumsBelow ==
  ASSUME NEW v \in Seq(Rational), NEW l \in Rational, \A i \in 1..Len(v) : Leq(v[i], l)
  PROVE  \A i \in 0..Len(v) : Leq(Sums(v)[i], l ** Rat(i))
<1> DEFINE n == Len(v)
           o == 0
           sums == Sums(v)
           S == {i \in o..n : Leq(sums[i], l ** Rat(i))}
<1>1. n \in Nat /\ n \in Int /\ o \in Int /\ \A i \in 1..n : v[i] \in Rational
  BY SeqIs
<1>2. sums \in [0..n -> Rational] /\ sums[0] = Zero /\ \A i \in 1..n : sums[i] = sums[i - 1] ++ v[i]
  BY SumsIs
<1>3. \A i \in 1..n : Leq(v[i], l)
  OBVIOUS
<1> HIDE DEF n, sums
<1>4. o <= n => o \in S
  <2>1. l ** Rat(0) = Zero /\ Leq(Zero, Zero)
    BY Products, ZeroIs, TotalOrder DEF Zero
  <2>2. QED
    BY <2>1, <1>1, <1>2
<1>5. ASSUME NEW i \in o..n, o < i, i - 1 \in S PROVE i \in S
  <2>1. i \in 1..n /\ i - 1 \in 0..n /\ i - 1 \in Int /\ i \in Int
    BY <1>1, <1>5
  <2>2. Leq(sums[i - 1], l ** Rat(i - 1)) /\ Leq(v[i], l) /\ sums[i] = sums[i - 1] ++ v[i]
    BY <2>1, <1>2, <1>3, <1>5
  <2>3. l ** Rat(i) = (l ** Rat(i - 1)) ++ l
    BY <2>1, TimesNext
  <2>4. l ** Rat(i - 1) \in Rational /\ sums[i - 1] \in Rational /\ v[i] \in Rational
    BY <2>1, <1>1, <1>2, RatIs, Closed
  <2>5. Leq(sums[i - 1] ++ v[i], (l ** Rat(i - 1)) ++ l)
    BY <2>2, <2>4, AddMonotone
  <2>6. QED
    BY <2>2, <2>3, <2>5
<1>6. \A i \in o..n : i \in S
  <2> HIDE DEF S, o
  <2> QED
    BY <1>1, <1>4, <1>5, StepInduction, Zenon
<1>7. QED
  BY <1>6 DEF o, n, sums

\* ... their mean, ...
LEMMA MeanBelow ==
  ASSUME NEW v \in Seq(Rational), Len(v) \in Nat \ {0}, NEW l \in Rational,
         \A i \in 1..Len(v) : Leq(v[i], l)
  PROVE  Leq(Mean(v), l)
<1> DEFINE n == Len(v)
           s == SumOf(v)
<1>1. n \in 0..Len(v) /\ s \in Rational
  BY SumsIs DEF SumOf
<1>2. Leq(s, l ** Rat(n))
  BY <1>1, SumsBelow DEF SumOf
<1>3. Rat(n) \in Rational /\ Less(Zero, Rat(n))
  BY PositiveRat
<1>4. Mean(v) = s // Rat(n)
  BY DEF Mean
<1> HIDE DEF s, n
<1>5. QED
  BY <1>1, <1>2, <1>3, <1>4, QuotientBounds

\* ... wilder_smoothing ...
LEMMA WilderBelow ==
  ASSUME NEW v \in Seq(Rational), NEW p \in Nat \ {0}, NEW l \in Rational,
         \A i \in 1..Len(v) : Leq(v[i], l)
  PROVE  \A i \in 1..Len(v) : i >= p => Leq(WilderSmoothing(v, p)[i], l)
<1> DEFINE n == Len(v)
           w == WilderSmoothing(v, p)
           S == {i \in p..n : Leq(w[i], l)}
<1>1. n \in Nat /\ n \in Int /\ p \in Int /\ \A i \in 1..n : v[i] \in Rational /\ Leq(v[i], l)
  BY SeqIs
<1>2. /\ \A i \in 1..n : i >= p => w[i] \in Rational
      /\ p <= n => w[p] = Mean(SubSeq(v, 1, p))
      /\ \A i \in 1..n : i > p => w[i] = ((w[i - 1] ** Rat(p - 1)) ++ v[i]) // Rat(p)
  BY WilderIs
<1> HIDE DEF w
<1>3. ASSUME p <= n PROVE p \in S
  <2> DEFINE u == SubSeq(v, 1, p)
  <2>1. u \in Seq(Rational) /\ Len(u) = p /\ \A i \in 1..p : u[i] = v[i]
    BY <1>1, <1>3, Prefix
  <2>2. w[p] = Mean(u)
    BY <1>2, <1>3
  <2> HIDE DEF u
  <2>3. \A i \in 1..Len(u) : Leq(u[i], l)
    BY <2>1, <1>1, <1>3
  <2>4. Leq(Mean(u), l)
    BY <2>1, <2>3, MeanBelow
  <2>5. QED
    BY <2>2, <2>4, <1>1, <1>3
<1> HIDE DEF n
<1>4. ASSUME NEW i \in p..n, p < i, i - 1 \in S PROVE i \in S
  <2>1. i \in 1..n /\ i - 1 \in 1..n /\ i - 1 >= p /\ i > p
    BY <1>1, <1>4
  <2>2. w[i] = ((w[i - 1] ** Rat(p - 1)) ++ v[i]) // Rat(p) /\ w[i - 1] \in Rational
    BY <1>2, <2>1
  <2>3. Leq(w[i - 1], l) /\ v[i] \in Rational /\ Leq(v[i], l)
    BY <1>1, <1>4, <2>1
  <2>4. Leq(((w[i - 1] ** Rat(p - 1)) ++ v[i]) // Rat(p), l)
    BY <2>2, <2>3, WilderStepBelow
  <2>5. QED
    BY <2>2, <2>4
<1>5. \A i \in p..n : i \in S
  <2> HIDE DEF S
  <2> QED
    BY <1>1, <1>3, <1>4, StepInduction, Zenon
<1>6. ASSUME NEW i \in 1..n, i >= p PROVE Leq(w[i], l)
  <2>1. i \in p..n
    BY <1>1, <1>6
  <2>2. QED
    BY <2>1, <1>5
<1>7. QED
  BY <1>6 DEF n, w

\* ... and ema.
LEMMA EmaBelow ==
  ASSUME NEW v \in Seq(Rational), NEW p \in Nat \ {0}, NEW l \in Rational,
         \A i \in 1..Len(v) : Leq(v[i], l)
  PROVE  \A i \in 1..Len(v) : i >= p => Leq(Ema(v, p)[i], l)
<1> DEFINE n == Len(v)
           w == Ema(v, p)
           S == {i \in p..n : Leq(w[i], l)}
<1>1. n \in Nat /\ n \in Int /\ p \in Int /\ \A i \in 1..n : v[i] \in Rational /\ Leq(v[i], l)
  BY SeqIs
<1>2. /\ \A i \in 1..n : i >= p => w[i] \in Rational
      /\ p <= n => w[p] = Mean(SubSeq(v, 1, p))
      /\ \A i \in 1..n : i > p => w[i] = ((v[i] -- w[i - 1]) ** Frac(2, p + 1)) ++ w[i - 1]
  BY EmaIs
<1> HIDE DEF w
<1>3. ASSUME p <= n PROVE p \in S
  <2> DEFINE u == SubSeq(v, 1, p)
  <2>1. u \in Seq(Rational) /\ Len(u) = p /\ \A i \in 1..p : u[i] = v[i]
    BY <1>1, <1>3, Prefix
  <2>2. w[p] = Mean(u)
    BY <1>2, <1>3
  <2> HIDE DEF u
  <2>3. \A i \in 1..Len(u) : Leq(u[i], l)
    BY <2>1, <1>1, <1>3
  <2>4. Leq(Mean(u), l)
    BY <2>1, <2>3, MeanBelow
  <2>5. QED
    BY <2>2, <2>4, <1>1, <1>3
<1> HIDE DEF n
<1>4. ASSUME NEW i \in p..n, p < i, i - 1 \in S PROVE i \in S
  <2>1. i \in 1..n /\ i - 1 \in 1..n /\ i - 1 >= p /\ i > p
    BY <1>1, <1>4
  <2>2. w[i] = ((v[i] -- w[i - 1]) ** Frac(2, p + 1)) ++ w[i - 1] /\ w[i - 1] \in Rational
    BY <1>2, <2>1
  <2>3. Leq(w[i - 1], l) /\ v[i] \in Rational /\ Leq(v[i], l)
    BY <1>1, <1>4, <2>1
  <2>4. Leq(((v[i] -- w[i - 1]) ** Frac(2, p + 1)) ++ w[i - 1], l)
    BY <2>2, <2>3, EmaStepBelow
  <2>5. QED
    BY <2>2, <2>4
<1>5. \A i \in p..n : i \in S
  <2> HIDE DEF S
  <2> QED
    BY <1>1, <1>3, <1>4, StepInduction, Zenon
<1>6. ASSUME NEW i \in 1..n, i >= p PROVE Leq(w[i], l)
  <2>1. i \in p..n
    BY <1>1, <1>6
  <2>2. QED
    BY <2>1, <1>5
<1>7. QED
  BY <1>6 DEF n, w

\* A smoothed series that is positive stays so while its values are not
\* negative, unless the period is 1 and the smoothing forgets at once.
LEMMA WilderStaysPositive ==
  ASSUME NEW x \in Rational, NEW y \in Rational, NEW p \in Nat, p > 1, Less(Zero, x), Leq(Zero, y)
  PROVE  Less(Zero, ((x ** Rat(p - 1)) ++ y) // Rat(p))
<1> DEFINE m == Rat(p - 1)
<1>1. m \in Rational /\ Less(Zero, m)
  <2>1. p - 1 \in Nat \ {0}
    OBVIOUS
  <2>2. QED
    BY <2>1, PositiveRat
<1>2. Rat(p) \in Rational /\ Less(Zero, Rat(p))
  <2>1. p \in Nat \ {0}
    OBVIOUS
  <2>2. QED
    BY <2>1, PositiveRat
<1> HIDE DEF m
<1> DEFINE t == x ** m
<1>3. t \in Rational /\ Less(Zero, t)
  BY <1>1, Closed, Products
<1> HIDE DEF t
<1> DEFINE s == t ++ y
<1>4. s \in Rational /\ Less(Zero, s)
  BY <1>3, Closed, DifferenceBounds
<1> HIDE DEF s
<1>5. Less(Zero, s // Rat(p))
  BY <1>2, <1>4, Products
<1>6. QED
  BY <1>5 DEF s, t, m

\* The sum of the first values is the running sum.
LEMMA SumOfFirst ==
  ASSUME NEW v \in Seq(Rational), NEW i \in 1..Len(v), NEW w, w = [j \in 1..i |-> v[j]]
  PROVE  SumOf(w) = Sums(v)[i]
<1>1. Len(v) \in Nat /\ \A j \in 1..Len(v) : v[j] \in Rational
  BY SeqIs
<1>2. w \in [1..i -> Rational] /\ i \in Nat /\ i \in 0..i /\ \A j \in 1..i : v[j] = w[j]
  BY <1>1
<1>3. w \in Seq(Rational) /\ Len(w) = i
  BY <1>2 DEF Seq
<1>4. Extends(v, w)
  BY <1>1, <1>2, <1>3 DEF Extends
<1>5. \A j \in 0..i : Sums(v)[j] = Sums(w)[j]
  BY <1>3, <1>4, SumsStable
<1>6. QED
  BY <1>2, <1>3, <1>5 DEF SumOf

\* sma is the mean of the window.
LEMMA SmaMean ==
  ASSUME NEW v \in Seq(Rational), NEW p \in Nat \ {0}, NEW i \in p..Len(v)
  PROVE  /\ Sma(v, p)[i] = Mean(WindowAt(v, i, p))
         /\ WindowAt(v, i, p) \in Seq(Rational) /\ Len(WindowAt(v, i, p)) = p
         /\ \A j \in 1..p : WindowAt(v, i, p)[j] = v[(i - p) + j]
<1> DEFINE w == WindowAt(v, i, p)
           a == i - p
<1>1. Len(v) \in Nat /\ i \in 1..Len(v) /\ i >= p /\ a \in Nat /\ a + p = i /\ i \in Int
  BY SeqIs
<1>2. w \in Seq(Rational) /\ Len(w) = p /\ \A j \in 1..p : w[j] = v[a + j]
  BY Window
<1> HIDE DEF w, a
<1>3. a + Len(w) <= Len(v)
  BY <1>1, <1>2
<1>4. \A j \in 0..Len(w) : Sums(w)[j] = Sums(v)[a + j] -- Sums(v)[a]
  BY <1>1, <1>2, <1>3, SumsOfWindow
<1>5. SumOf(w) = Sums(v)[i] -- Sums(v)[a]
  <2>1. Len(w) \in 0..Len(w) /\ a + Len(w) = i
    BY <1>1, <1>2
  <2>2. QED
    BY <1>4, <2>1 DEF SumOf
<1>6. Sma(v, p)[i] = (Sums(v)[i] -- Sums(v)[a]) // Rat(p)
  BY <1>1, SmaIs DEF a
<1>7. QED
  BY <1>2, <1>5, <1>6 DEF Mean, w, a

\* Bounds of weighted values bound their running sums.
LEMMA WeightedSums ==
  ASSUME NEW v \in Seq(Rational), NEW t \in Seq(Rational), Len(t) = Len(v), NEW l \in Rational
  PROVE  /\ (\A i \in 1..Len(v) : Leq(l ** v[i], t[i])) =>
               \A i \in 0..Len(v) : Leq(l ** Sums(v)[i], Sums(t)[i])
         /\ (\A i \in 1..Len(v) : Leq(t[i], l ** v[i])) =>
               \A i \in 0..Len(v) : Leq(Sums(t)[i], l ** Sums(v)[i])
<1> DEFINE n == Len(v)
           o == 0
           sv == Sums(v)
           st == Sums(t)
           S == {i \in o..n : Leq(l ** sv[i], st[i])}
           T == {i \in o..n : Leq(st[i], l ** sv[i])}
<1>1. n \in Nat /\ n \in Int /\ \A i \in 1..n : v[i] \in Rational /\ t[i] \in Rational
  BY SeqIs
<1>2. /\ sv \in [0..n -> Rational] /\ sv[0] = Zero
      /\ \A i \in 1..n : sv[i] = sv[i - 1] ++ v[i]
  BY SumsIs
<1>3. /\ st \in [0..n -> Rational] /\ st[0] = Zero
      /\ \A i \in 1..n : st[i] = st[i - 1] ++ t[i]
  BY SumsIs
<1>4. o \in Int /\ o = 0
  OBVIOUS
<1> HIDE DEF n, o, sv, st
<1>5. l ** Zero = Zero /\ Leq(Zero, Zero)
  BY ZeroIs, Products, TotalOrder
<1>6. ASSUME NEW i \in o..n, o < i
      PROVE  /\ i \in 1..n /\ i - 1 \in o..n
             /\ l ** sv[i - 1] \in Rational /\ st[i - 1] \in Rational
             /\ l ** v[i] \in Rational /\ t[i] \in Rational
             /\ l ** sv[i] = (l ** sv[i - 1]) ++ (l ** v[i])
             /\ st[i] = st[i - 1] ++ t[i]
  <2>1. i \in 1..n /\ i - 1 \in o..n /\ i - 1 \in 0..n
    BY <1>1, <1>4, <1>6
  <2> DEFINE x == sv[i - 1]
             y == v[i]
  <2>2. x \in Rational /\ y \in Rational /\ st[i - 1] \in Rational /\ t[i] \in Rational
    BY <1>1, <1>2, <1>3, <2>1
  <2>3. sv[i] = x ++ y /\ st[i] = st[i - 1] ++ t[i]
    BY <1>2, <1>3, <2>1
  <2> HIDE DEF x, y
  <2>4. l ** (x ++ y) = (l ** x) ++ (l ** y) /\ l ** x \in Rational /\ l ** y \in Rational
    BY <2>2, Distributes, Closed
  <2>5. QED
    BY <2>1, <2>2, <2>3, <2>4 DEF x, y
<1>7. ASSUME \A i \in 1..n : Leq(l ** v[i], t[i]) PROVE \A i \in o..n : i \in S
  <2>1. o <= n => o \in S
    BY <1>1, <1>2, <1>3, <1>4, <1>5
  <2>2. ASSUME NEW i \in o..n, o < i, i - 1 \in S PROVE i \in S
    <3>1. Leq(l ** sv[i - 1], st[i - 1]) /\ Leq(l ** v[i], t[i])
      BY <1>6, <1>7, <2>2
    <3>2. Leq((l ** sv[i - 1]) ++ (l ** v[i]), st[i - 1] ++ t[i])
      BY <1>6, <2>2, <3>1, AddMonotone
    <3>3. QED
      BY <1>6, <2>2, <3>2
  <2> HIDE DEF S
  <2>3. QED
    BY <1>1, <1>4, <2>1, <2>2, StepInduction, Zenon
<1>8. ASSUME \A i \in 1..n : Leq(t[i], l ** v[i]) PROVE \A i \in o..n : i \in T
  <2>1. o <= n => o \in T
    BY <1>1, <1>2, <1>3, <1>4, <1>5
  <2>2. ASSUME NEW i \in o..n, o < i, i - 1 \in T PROVE i \in T
    <3>1. Leq(st[i - 1], l ** sv[i - 1]) /\ Leq(t[i], l ** v[i])
      BY <1>6, <1>8, <2>2
    <3>2. Leq(st[i - 1] ++ t[i], (l ** sv[i - 1]) ++ (l ** v[i]))
      BY <1>6, <2>2, <3>1, AddMonotone
    <3>3. QED
      BY <1>6, <2>2, <3>2
  <2> HIDE DEF T
  <2>3. QED
    BY <1>1, <1>4, <2>1, <2>2, StepInduction, Zenon
<1>9. QED
  BY <1>4, <1>7, <1>8 DEF n, sv, st

-----------------------------------------------------------------------------
(***************************************************************************)
(* The series that a chart gives rise to.                                  *)
(***************************************************************************)

\* A chart has one close per candle.
LEMMA ClosesIs ==
  ASSUME NEW cs \in Seq(Candle)
  PROVE  /\ ClosesOf(cs) \in Seq(Rational)
         /\ Len(ClosesOf(cs)) = Len(cs)
         /\ \A i \in 1..Len(cs) : ClosesOf(cs)[i] = cs[i].close
<1>1. ClosesOf(cs) \in [1..Len(cs) -> Rational]
  BY ChartIs, CandleIs DEF ClosesOf
<1>2. ClosesOf(cs) \in Seq(Rational) /\ Len(ClosesOf(cs)) = Len(cs)
  BY <1>1, ChartIs DEF Seq
<1>3. QED
  BY <1>2, ChartIs DEF ClosesOf

\* A new candle leaves the earlier closes alone.
LEMMA ClosesStable ==
  ASSUME NEW bs \in Seq(Candle), NEW cs \in Seq(Candle), Extends(cs, bs)
  PROVE  Extends(ClosesOf(cs), ClosesOf(bs))
<1>1. Len(bs) \in Nat /\ Len(cs) \in Nat /\ Len(bs) <= Len(cs) /\ \A i \in 1..Len(bs) : cs[i] = bs[i]
  BY ChartIs DEF Extends
<1>2. \A i \in 1..Len(bs) : i \in 1..Len(cs)
  BY <1>1
<1>3. Len(ClosesOf(cs)) = Len(cs) /\ Len(ClosesOf(bs)) = Len(bs)
  BY ClosesIs
<1>4. \A i \in 1..Len(bs) : ClosesOf(cs)[i] = ClosesOf(bs)[i]
  BY <1>1, <1>2, ClosesIs
<1>5. QED
  BY <1>1, <1>3, <1>4 DEF Extends

\* true_range is not negative.
LEMMA TrueRangeIs ==
  ASSUME NEW cs \in Seq(Candle)
  PROVE  /\ TrueRange(cs) \in Seq(Rational)
         /\ Len(TrueRange(cs)) = Len(cs)
         /\ \A i \in 1..Len(cs) : Leq(Zero, TrueRange(cs)[i])
<1>1. Len(cs) \in Nat
  BY ChartIs
<1>2. ASSUME NEW i \in 1..Len(cs)
      PROVE  TrueRange(cs)[i] \in Rational /\ Leq(Zero, TrueRange(cs)[i])
  <2> DEFINE h == cs[i].high
             l == cs[i].low
             q == cs[i - 1].close
             r == h -- l
             u == AbsOf(h -- q)
             w == AbsOf(l -- q)
             t == MaxOf(u, w)
  <2>1. h \in Rational /\ l \in Rational /\ Leq(l, h)
    BY <1>2, ChartIs, CandleIs
  <2>2. TrueRange(cs)[i] = IF i = 1 THEN r ELSE MaxOf(r, t)
    BY <1>2 DEF TrueRange
  <2> HIDE DEF h, l
  <2>3. r \in Rational /\ Leq(Zero, r)
    BY <2>1, Closed, DifferenceBounds
  <2>4. CASE i = 1
    BY <2>2, <2>3, <2>4
  <2>5. CASE i # 1
    <3>1. i - 1 \in 1..Len(cs)
      BY <1>1, <1>2, <2>5
    <3>2. q \in Rational
      BY <3>1, ChartIs, CandleIs
    <3> HIDE DEF q
    <3>3. u \in Rational /\ w \in Rational
      BY <2>1, <3>2, AbsOfDifference
    <3> HIDE DEF u, w, r
    <3>4. t \in Rational
      BY <3>3, MaxMin
    <3> HIDE DEF t
    <3>5. MaxOf(r, t) \in Rational /\ Leq(r, MaxOf(r, t))
      BY <2>3, <3>4, MaxMin
    <3>6. Leq(Zero, MaxOf(r, t))
      BY <2>3, <3>5, ZeroIs, LeqTransitive
    <3>7. QED
      BY <2>2, <2>5, <3>5, <3>6
  <2>6. QED
    BY <2>4, <2>5
<1>3. TrueRange(cs) \in [1..Len(cs) -> Rational]
  <2>1. DOMAIN TrueRange(cs) = 1..Len(cs) /\ TrueRange(cs) = [i \in 1..Len(cs) |-> TrueRange(cs)[i]]
    BY DEF TrueRange
  <2>2. QED
    BY <1>2, <2>1
<1>4. TrueRange(cs) \in Seq(Rational) /\ Len(TrueRange(cs)) = Len(cs)
  BY <1>1, <1>3 DEF Seq
<1>5. QED
  BY <1>2, <1>4

\* A new candle leaves the earlier true ranges alone.
LEMMA TrueRangeStable ==
  ASSUME NEW bs \in Seq(Candle), NEW cs \in Seq(Candle), Extends(cs, bs)
  PROVE  Extends(TrueRange(cs), TrueRange(bs))
<1>1. Len(bs) \in Nat /\ Len(cs) \in Nat /\ Len(bs) <= Len(cs) /\ \A i \in 1..Len(bs) : cs[i] = bs[i]
  BY ChartIs DEF Extends
<1>2. Len(TrueRange(cs)) = Len(cs) /\ Len(TrueRange(bs)) = Len(bs)
  BY TrueRangeIs
<1>3. ASSUME NEW i \in 1..Len(bs) PROVE TrueRange(cs)[i] = TrueRange(bs)[i]
  <2>1. i \in 1..Len(cs) /\ cs[i] = bs[i]
    BY <1>1
  <2>2. i # 1 => cs[i - 1] = bs[i - 1]
    BY <1>1
  <2>3. QED
    BY <2>1, <2>2 DEF TrueRange
<1>4. QED
  BY <1>1, <1>2, <1>3 DEF Extends

\* A directional movement is not negative.
LEMMA MoveIs ==
  ASSUME NEW x \in Rational, NEW y \in Rational
  PROVE  Move(x, y) \in Rational /\ Leq(Zero, Move(x, y))
BY ZeroIs, TotalOrder DEF Move

\* The directional movements of a chart.
LEMMA DirectionalIs ==
  ASSUME NEW cs \in Seq(Candle)
  PROVE  /\ PlusDm(cs) \in Seq(Rational) /\ Len(PlusDm(cs)) = Len(cs)
         /\ MinusDm(cs) \in Seq(Rational) /\ Len(MinusDm(cs)) = Len(cs)
         /\ \A i \in 1..Len(cs) : Leq(Zero, PlusDm(cs)[i]) /\ Leq(Zero, MinusDm(cs)[i])
<1>1. Len(cs) \in Nat
  BY ChartIs
<1>2. ASSUME NEW i \in 1..Len(cs)
      PROVE  /\ PlusDm(cs)[i] \in Rational /\ Leq(Zero, PlusDm(cs)[i])
             /\ MinusDm(cs)[i] \in Rational /\ Leq(Zero, MinusDm(cs)[i])
  <2>1. CASE i = 1
    <3>1. PlusDm(cs)[i] = Zero /\ MinusDm(cs)[i] = Zero
      BY <2>1, <1>2 DEF PlusDm, MinusDm
    <3>2. QED
      BY <3>1, ZeroIs, TotalOrder
  <2>2. CASE i # 1
    <3> DEFINE u == UpMove(cs, i)
               w == DownMove(cs, i)
    <3>1. i - 1 \in 1..Len(cs)
      BY <1>1, <1>2, <2>2
    <3>2. u \in Rational /\ w \in Rational
      BY <1>2, <3>1, ChartIs, CandleIs, Closed DEF UpMove, DownMove
    <3>3. PlusDm(cs)[i] = Move(u, w) /\ MinusDm(cs)[i] = Move(w, u)
      BY <2>2, <1>2 DEF PlusDm, MinusDm
    <3> HIDE DEF u, w
    <3>4. QED
      BY <3>2, <3>3, MoveIs
  <2>3. QED
    BY <2>1, <2>2
<1>3. PlusDm(cs) \in [1..Len(cs) -> Rational] /\ MinusDm(cs) \in [1..Len(cs) -> Rational]
  <2>1. /\ PlusDm(cs) = [i \in 1..Len(cs) |-> PlusDm(cs)[i]]
        /\ MinusDm(cs) = [i \in 1..Len(cs) |-> MinusDm(cs)[i]]
    BY DEF PlusDm, MinusDm
  <2>2. QED
    BY <1>2, <2>1
<1>4. PlusDm(cs) \in Seq(Rational) /\ Len(PlusDm(cs)) = Len(cs)
  BY <1>1, <1>3 DEF Seq
<1>5. MinusDm(cs) \in Seq(Rational) /\ Len(MinusDm(cs)) = Len(cs)
  BY <1>1, <1>3 DEF Seq
<1>6. QED
  BY <1>2, <1>4, <1>5

\* A new candle leaves the earlier movements alone.
LEMMA DirectionalStable ==
  ASSUME NEW bs \in Seq(Candle), NEW cs \in Seq(Candle), Extends(cs, bs)
  PROVE  Extends(PlusDm(cs), PlusDm(bs)) /\ Extends(MinusDm(cs), MinusDm(bs))
<1>1. Len(bs) \in Nat /\ Len(cs) \in Nat /\ Len(bs) <= Len(cs) /\ \A i \in 1..Len(bs) : cs[i] = bs[i]
  BY ChartIs DEF Extends
<1>2. /\ Len(PlusDm(cs)) = Len(cs) /\ Len(PlusDm(bs)) = Len(bs)
      /\ Len(MinusDm(cs)) = Len(cs) /\ Len(MinusDm(bs)) = Len(bs)
  BY DirectionalIs
<1>3. ASSUME NEW i \in 1..Len(bs)
      PROVE  PlusDm(cs)[i] = PlusDm(bs)[i] /\ MinusDm(cs)[i] = MinusDm(bs)[i]
  <2>1. i \in 1..Len(cs) /\ cs[i] = bs[i]
    BY <1>1
  <2>2. i # 1 => cs[i - 1] = bs[i - 1]
    BY <1>1
  <2>3. QED
    BY <2>1, <2>2 DEF PlusDm, MinusDm, UpMove, DownMove
<1>4. QED
  BY <1>1, <1>2, <1>3 DEF Extends

\* rsi's gains and losses: one less than the closes, none negative.
LEMMA ChangesAre ==
  ASSUME NEW v \in Seq(Rational)
  PROVE  LET n == IF Len(v) = 0 THEN 0 ELSE Len(v) - 1
         IN  /\ Gains(v) \in Seq(Rational) /\ Len(Gains(v)) = n
             /\ Losses(v) \in Seq(Rational) /\ Len(Losses(v)) = n
             /\ \A i \in 1..n : Leq(Zero, Gains(v)[i]) /\ Leq(Zero, Losses(v)[i])
<1> DEFINE n == IF Len(v) = 0 THEN 0 ELSE Len(v) - 1
           gains == Gains(v)
           losses == Losses(v)
<1>1. Len(v) \in Nat /\ \A i \in 1..Len(v) : v[i] \in Rational
  BY SeqIs
<1>2. n \in Nat /\ 1..n = 1..(Len(v) - 1)
  BY <1>1
<1>3. /\ gains = [i \in 1..n |-> MaxOf(v[i + 1] -- v[i], Zero)]
      /\ losses = [i \in 1..n |-> MaxOf(Zero -- (v[i + 1] -- v[i]), Zero)]
  BY <1>2 DEF Gains, Losses
<1>4. ASSUME NEW i \in 1..n
      PROVE  /\ gains[i] \in Rational /\ Leq(Zero, gains[i])
             /\ losses[i] \in Rational /\ Leq(Zero, losses[i])
  <2> DEFINE x == v[i + 1] -- v[i]
             y == Zero -- x
  <2>1. v[i] \in Rational /\ v[i + 1] \in Rational
    BY <1>1, <1>2
  <2>2. x \in Rational
    BY <2>1, Closed
  <2>3. gains[i] = MaxOf(x, Zero) /\ losses[i] = MaxOf(y, Zero)
    BY <1>3
  <2> HIDE DEF x, gains, losses
  <2>4. y \in Rational
    BY <2>2, ZeroIs, Closed
  <2> HIDE DEF y
  <2>5. QED
    BY <2>2, <2>3, <2>4, ZeroIs, MaxMin
<1> HIDE DEF n
<1>5. gains \in [1..n -> Rational] /\ losses \in [1..n -> Rational]
  BY <1>3, <1>4
<1> HIDE DEF gains, losses
<1>6. gains \in Seq(Rational) /\ Len(gains) = n
  BY <1>2, <1>5 DEF Seq
<1>7. losses \in Seq(Rational) /\ Len(losses) = n
  BY <1>2, <1>5 DEF Seq
<1>8. QED
  BY <1>4, <1>6, <1>7 DEF n, gains, losses

\* A new close leaves the earlier gains and losses alone.
LEMMA ChangesStable ==
  ASSUME NEW u \in Seq(Rational), NEW v \in Seq(Rational), Extends(v, u)
  PROVE  Extends(Gains(v), Gains(u)) /\ Extends(Losses(v), Losses(u))
<1> DEFINE m == IF Len(u) = 0 THEN 0 ELSE Len(u) - 1
           n == IF Len(v) = 0 THEN 0 ELSE Len(v) - 1
<1>1. Len(u) \in Nat /\ Len(v) \in Nat /\ Len(u) <= Len(v) /\ \A i \in 1..Len(u) : v[i] = u[i]
  BY SeqIs DEF Extends
<1>2. m \in Nat /\ n \in Nat /\ m <= n
  BY <1>1
<1>3. Len(Gains(u)) = m /\ Len(Losses(u)) = m /\ Len(Gains(v)) = n /\ Len(Losses(v)) = n
  BY ChangesAre
<1>4. ASSUME NEW i \in 1..m
      PROVE  Gains(v)[i] = Gains(u)[i] /\ Losses(v)[i] = Losses(u)[i]
  <2>1. i \in 1..(Len(u) - 1) /\ i \in 1..(Len(v) - 1) /\ v[i] = u[i] /\ v[i + 1] = u[i + 1]
    BY <1>1
  <2>2. QED
    BY <2>1 DEF Gains, Losses
<1>5. QED
  BY <1>2, <1>3, <1>4 DEF Extends

-----------------------------------------------------------------------------
(***************************************************************************)
(* supertrend.                                                             *)
(***************************************************************************)

\* The state of supertrend after a candle.
Trend == [line : Rational, dir : {1, -1}]

\* One candle of supertrend: while the direction stays, the line does not
\* give way and the close does not cross it.
LEMMA TrailIs ==
  ASSUME NEW prev \in Trend \cup {None}, NEW upper \in Rational, NEW lower \in Rational,
         NEW close \in Rational
  PROVE  /\ Trail(prev, upper, lower, close) \in Trend
         /\ prev # None /\ Trail(prev, upper, lower, close).dir = prev.dir
               => IF prev.dir = 1
                  THEN /\ Leq(prev.line, Trail(prev, upper, lower, close).line)
                       /\ Leq(Trail(prev, upper, lower, close).line, close)
                  ELSE /\ Leq(Trail(prev, upper, lower, close).line, prev.line)
                       /\ Leq(close, Trail(prev, upper, lower, close).line)
<1>1. CASE prev = None
  BY <1>1 DEF Trail, Trend
<1>2. CASE prev # None
  <2> DEFINE line == prev.line
             raised == MaxOf(lower, line)
             lowered == MinOf(upper, line)
             t == Trail(prev, upper, lower, close)
  <2>1. line \in Rational /\ prev.dir \in {1, -1}
    BY <1>2 DEF Trend
  <2>2. t = IF prev.dir = 1
            THEN IF Less(close, raised) THEN [line |-> upper, dir |-> -1]
                 ELSE [line |-> raised, dir |-> 1]
            ELSE IF Less(lowered, close) THEN [line |-> lower, dir |-> 1]
                 ELSE [line |-> lowered, dir |-> -1]
    BY <1>2 DEF Trail
  <2> HIDE DEF line
  <2>3. /\ raised \in Rational /\ Leq(line, raised)
        /\ lowered \in Rational /\ Leq(lowered, line)
    BY <2>1, MaxMin
  <2> HIDE DEF raised, lowered, t
  <2>4. /\ ~Less(close, raised) => Leq(raised, close)
        /\ ~Less(lowered, close) => Leq(close, lowered)
    BY <2>3, TotalOrder
  <2>5. t \in Trend
    BY <2>1, <2>2, <2>3 DEF Trend
  <2>6. t.dir = prev.dir => IF prev.dir = 1 THEN Leq(line, t.line) /\ Leq(t.line, close)
                                            ELSE Leq(t.line, line) /\ Leq(close, t.line)
    BY <2>1, <2>2, <2>3, <2>4
  <2>7. QED
    BY <2>5, <2>6 DEF t, line
<1>3. QED
  BY <1>1, <1>2

\* The middle of a candle and supertrend's two bands.
Middle(c) == (c.high ++ c.low) // Rat(2)
UpperBand(cs, p, m, i) == Middle(cs[i]) ++ (Rat(m) ** Atr(cs, p)[i])
LowerBand(cs, p, m, i) == Middle(cs[i]) -- (Rat(m) ** Atr(cs, p)[i])

\* atr: undefined before the period, and then not negative.
LEMMA AtrIs ==
  ASSUME NEW cs \in Seq(Candle), NEW p \in Nat \ {0}
  PROVE  /\ Atr(cs, p) \in [1..Len(cs) -> Rational \cup {None}]
         /\ \A i \in 1..Len(cs) : i < p => Atr(cs, p)[i] = None
         /\ \A i \in 1..Len(cs) : i >= p => Atr(cs, p)[i] \in Rational /\ Leq(Zero, Atr(cs, p)[i])
<1> DEFINE v == TrueRange(cs)
<1>1. v \in Seq(Rational) /\ Len(v) = Len(cs) /\ \A i \in 1..Len(v) : Leq(Zero, v[i])
  BY TrueRangeIs
<1>2. Atr(cs, p) = WilderSmoothing(v, p)
  BY DEF Atr
<1> HIDE DEF v
<1>3. /\ WilderSmoothing(v, p) \in [1..Len(v) -> Rational \cup {None}]
      /\ \A i \in 1..Len(v) : i < p => WilderSmoothing(v, p)[i] = None
      /\ \A i \in 1..Len(v) : i >= p => WilderSmoothing(v, p)[i] \in Rational
  BY <1>1, WilderIs
<1>4. \A i \in 1..Len(v) : i >= p => Leq(Zero, WilderSmoothing(v, p)[i])
  BY <1>1, ZeroIs, WilderAbove
<1>5. QED
  BY <1>1, <1>2, <1>3, <1>4

\* supertrend's bands are rationals.
LEMMA BandsAre ==
  ASSUME NEW cs \in Seq(Candle), NEW p \in Nat \ {0}, NEW m \in Nat, NEW i \in p..Len(cs)
  PROVE  UpperBand(cs, p, m, i) \in Rational /\ LowerBand(cs, p, m, i) \in Rational
<1> DEFINE h == cs[i].high
           l == cs[i].low
           a == Atr(cs, p)[i]
           two == 2
           mid == (h ++ l) // Rat(two)
           width == Rat(m) ** a
<1>1. Len(cs) \in Nat /\ i \in 1..Len(cs)
  BY ChartIs
<1>2. h \in Rational /\ l \in Rational
  BY <1>1, ChartIs, CandleIs
<1>3. a \in Rational
  BY <1>1, AtrIs
<1>4. two \in Nat \ {0}
  OBVIOUS
<1>5. UpperBand(cs, p, m, i) = mid ++ width /\ LowerBand(cs, p, m, i) = mid -- width
  BY DEF UpperBand, LowerBand, Middle
<1> HIDE DEF h, l, a, two
<1>6. h ++ l \in Rational
  BY <1>2, Closed
<1>7. mid \in Rational
  BY <1>4, <1>6, PositiveRat, Closed
<1>8. width \in Rational
  BY <1>3, RatIs, Closed
<1> HIDE DEF mid, width
<1>9. QED
  BY <1>5, <1>7, <1>8, Closed

\* supertrend: undefined before the period, and then what Trail makes of the
\* line before it.
LEMMA SuperTrendIs ==
  ASSUME NEW cs \in Seq(Candle), NEW p \in Nat \ {0}, NEW m \in Nat
  PROVE  /\ SuperTrend(cs, p, m) \in [1..Len(cs) -> Trend \cup {None}]
         /\ \A i \in 1..Len(cs) : i < p => SuperTrend(cs, p, m)[i] = None
         /\ \A i \in 1..Len(cs) : i >= p => SuperTrend(cs, p, m)[i] \in Trend
         /\ \A i \in 1..Len(cs) : i >= p =>
               SuperTrend(cs, p, m)[i] =
                  Trail(IF i = p THEN None ELSE SuperTrend(cs, p, m)[i - 1],
                        UpperBand(cs, p, m, i), LowerBand(cs, p, m, i), cs[i].close)
<1> DEFINE n == Len(cs)
           o == 0
           V == Trend \cup {None}
           next(x, i) == Trail(x, UpperBand(cs, p, m, i), LowerBand(cs, p, m, i), cs[i].close)
           step == [i \in o..n |-> [x \in V |-> IF i < p THEN None ELSE next(x, i)]]
           rec == CHOOSE g : g = [i \in 0..n |-> IF i < p THEN None ELSE next(g[i - 1], i)]
           S == {i \in o..n : rec[i] \in V /\ (i >= p => rec[i] \in Trend)}
           trend == SuperTrend(cs, p, m)
<1>1. n \in Nat /\ n \in Int /\ p \in Int /\ \A i \in 1..n : cs[i].close \in Rational
  BY ChartIs, CandleIs
<1>2. trend = [i \in 1..n |-> rec[i]]
  BY Zenon DEF SuperTrend, UpperBand, LowerBand, Middle
<1> HIDE DEF n, rec, trend, V
<1>3. ASSUME NEW i \in o..n, i >= p, NEW x \in V PROVE next(x, i) \in Trend
  <2>1. i \in p..n /\ i \in 1..n
    BY <1>1, <1>3
  <2>2. UpperBand(cs, p, m, i) \in Rational /\ LowerBand(cs, p, m, i) \in Rational
    BY <2>1, BandsAre DEF n
  <2>3. QED
    BY <1>1, <2>1, <2>2, TrailIs DEF V
<1> HIDE DEF next
<1>4. None \in V /\ Trend \subseteq V
  BY DEF V
<1>5. step \in [o..n -> [V -> V]]
  BY <1>1, <1>3, <1>4
<1>6. \A i \in o..n, x \in V : step[i][x] = IF i < p THEN None ELSE next(x, i)
  OBVIOUS
<1>7. o \in Int /\ o < p /\ o <= n /\ o = 0
  BY <1>1
<1> HIDE DEF step, o
<1>8. PICK f : Recurs(f, o, n, V, None, step)
  BY <1>1, <1>4, <1>5, <1>7, RecursionExists, Zenon
<1>9. ASSUME NEW i \in o..n PROVE f[i] = IF i < p THEN None ELSE next(f[i - 1], i)
  <2>1. i # o => i - 1 \in o..n
    BY <1>1, <1>7
  <2>2. f[i] = IF i = o THEN None ELSE step[i][f[i - 1]]
    BY <1>8 DEF Recurs
  <2>3. i # o => f[i - 1] \in V
    BY <1>8, <2>1 DEF Recurs
  <2>4. QED
    BY <1>6, <1>7, <2>2, <2>3
<1>10. f = [i \in o..n |-> IF i < p THEN None ELSE next(f[i - 1], i)]
  BY <1>8, <1>9 DEF Recurs
<1>11. rec = [i \in 0..n |-> IF i < p THEN None ELSE next(rec[i - 1], i)]
  <2>1. f = [i \in 0..n |-> IF i < p THEN None ELSE next(f[i - 1], i)]
    BY <1>7, <1>10
  <2>2. QED
    BY <2>1, Zenon DEF rec
<1>12. \A i \in o..n : rec[i] = IF i < p THEN None ELSE next(rec[i - 1], i)
  BY <1>7, <1>11, Zenon
<1>13. o <= n => o \in S
  BY <1>1, <1>4, <1>7, <1>12
<1>14. ASSUME NEW i \in o..n, o < i, i - 1 \in S PROVE i \in S
  <2>1. rec[i - 1] \in V
    BY <1>14
  <2>2. QED
    BY <2>1, <1>1, <1>3, <1>4, <1>7, <1>12
<1>15. \A i \in o..n : i \in S
  <2> HIDE DEF S
  <2>1. QED
    BY <1>1, <1>7, <1>13, <1>14, StepInduction, Zenon
<1>16. \A i \in 1..n : trend[i] = rec[i] /\ i \in o..n
  BY <1>1, <1>2, <1>7
<1>17. \A i \in 1..n : i < p => trend[i] = None
  BY <1>12, <1>16
<1>18. \A i \in 1..n : i >= p => trend[i] \in Trend
  BY <1>15, <1>16
<1>19. ASSUME NEW i \in 1..n, i >= p
       PROVE  trend[i] = next(IF i = p THEN None ELSE trend[i - 1], i)
  <2>1. rec[i] = next(rec[i - 1], i)
    BY <1>1, <1>12, <1>16, <1>19
  <2>2. CASE i = p
    <3>1. rec[i - 1] = None
      BY <1>1, <1>7, <1>12, <2>2
    <3>2. QED
      BY <2>1, <2>2, <3>1, <1>16, Zenon
  <2>3. CASE i # p
    <3>1. i - 1 \in 1..n
      BY <1>1, <1>19, <2>3
    <3>2. trend[i - 1] = rec[i - 1] /\ trend[i] = rec[i]
      BY <1>16, <3>1
    <3>3. QED
      BY <2>1, <2>3, <3>2, Zenon
  <2>4. QED
    BY <2>2, <2>3
<1>20. trend \in [1..n -> Trend \cup {None}]
  <2>1. \A i \in 1..n : rec[i] \in Trend \cup {None}
    BY <1>15, <1>16 DEF V
  <2>2. QED
    BY <1>2, <2>1
<1>21. QED
  BY <1>17, <1>18, <1>19, <1>20 DEF n, next, trend

(***************************************************************************)
(* supertrend (indicators.py): while the direction stays, the line moves   *)
(* towards the price only and the close does not cross it, for every       *)
(* chart, period and multiplier.                                           *)
(***************************************************************************)
THEOREM SuperTrendOnlyTrails == Spec => []SuperTrendTrails
<1>1. ChartType => SuperTrendTrails
  <2> DEFINE trend == SuperTrend(candles, Period, Multiplier)
             p == Period
  <2> SUFFICES ASSUME ChartType, NEW i \in (p + 1)..Len(candles),
                      trend[i].dir = trend[i - 1].dir
               PROVE  IF trend[i].dir = 1
                      THEN Leq(trend[i - 1].line, trend[i].line) /\ Leq(trend[i].line, candles[i].close)
                      ELSE Leq(trend[i].line, trend[i - 1].line) /\ Leq(candles[i].close, trend[i].line)
    BY Zenon DEF SuperTrendTrails
  <2> DEFINE n == Len(candles)
             u == UpperBand(candles, p, Multiplier, i)
             l == LowerBand(candles, p, Multiplier, i)
             c == candles[i].close
             prev == trend[i - 1]
  <2>1. candles \in Seq(Candle) /\ p \in Nat \ {0} /\ Multiplier \in Nat /\ n \in Nat
    BY Parameters, ChartIs DEF ChartType
  <2>2. i \in 1..n /\ i - 1 \in 1..n /\ i >= p /\ i - 1 >= p /\ i # p /\ i \in p..n
    BY <2>1
  <2>3. u \in Rational /\ l \in Rational
    BY <2>1, <2>2, BandsAre
  <2>4. c \in Rational
    BY <2>1, <2>2, ChartIs, CandleIs
  <2>5. prev \in Trend /\ prev # None
    BY <2>1, <2>2, SuperTrendIs, Parameters DEF Trend
  <2>6. trend[i] = Trail(IF i = p THEN None ELSE prev, u, l, c)
    BY <2>1, <2>2, SuperTrendIs
  <2>7. trend[i] = Trail(prev, u, l, c)
    BY <2>2, <2>6
  <2> HIDE DEF trend, p, n, u, l, c, prev
  <2>8. Trail(prev, u, l, c).dir = prev.dir
               => IF prev.dir = 1
                  THEN /\ Leq(prev.line, Trail(prev, u, l, c).line)
                       /\ Leq(Trail(prev, u, l, c).line, c)
                  ELSE /\ Leq(Trail(prev, u, l, c).line, prev.line)
                       /\ Leq(c, Trail(prev, u, l, c).line)
    BY <2>3, <2>4, <2>5, TrailIs
  <2>9. QED
    BY <2>7, <2>8, Zenon DEF prev, c
<1>2. QED
  BY <1>1, ChartInvariant, PTL

-----------------------------------------------------------------------------
(***************************************************************************)
(* Where the lines are defined, and the scale of the oscillators.          *)
(***************************************************************************)

\* A share of a whole, in percent.
LEMMA PercentInRange ==
  ASSUME NEW x \in Rational, NEW y \in Rational, Leq(Zero, x), Leq(x, y), Less(Zero, y)
  PROVE  /\ (Hundred ** x) // y \in Rational
         /\ Between(Zero, (Hundred ** x) // y, Hundred)
<1> DEFINE z == Hundred ** x
<1>1. z \in Rational /\ Leq(Zero, z)
  BY HundredIs, Closed, Products
<1>2. Leq(z, Hundred ** y)
  BY HundredIs, MulMonotone
<1> HIDE DEF z
<1>3. z // y \in Rational /\ Leq(Zero, z // y)
  BY <1>1, Closed, Products
<1>4. Leq(z // y, Hundred)
  BY <1>1, <1>2, HundredIs, QuotientBounds
<1>5. QED
  BY <1>3, <1>4 DEF Between, z

\* _rsi_from stays on the scale for gains and losses that are not negative.
LEMMA RsiInRange ==
  ASSUME NEW gain \in Rational, NEW loss \in Rational, Leq(Zero, gain), Leq(Zero, loss)
  PROVE  RsiFrom(gain, loss) \in Rational /\ Between(Zero, RsiFrom(gain, loss), Hundred)
<1>1. CASE loss = Zero
  BY <1>1, HundredIs, TotalOrder DEF RsiFrom, Between
<1>2. CASE loss # Zero
  <2>1. Less(Zero, loss)
    BY <1>2, TotalOrder, ZeroIs
  <2> DEFINE q == gain // loss
             one == Rat(1)
             d == one ++ q
             h == Hundred // d
  <2>2. q \in Rational /\ Leq(Zero, q)
    BY <2>1, Closed, Products
  <2>3. one \in Rational /\ Less(Zero, one) /\ Leq(Zero, one)
    <3>1. 1 \in Nat \ {0}
      OBVIOUS
    <3>2. one \in Rational /\ Less(Zero, one)
      BY <3>1, PositiveRat
    <3>3. QED
      BY <3>2, TotalOrder, ZeroIs
  <2>4. Hundred ** one = Hundred
    BY HundredIs, Products
  <2>5. RsiFrom(gain, loss) = Hundred -- h
    BY <1>2 DEF RsiFrom
  <2> HIDE DEF q, one
  <2>6. d \in Rational /\ Less(Zero, d) /\ Leq(one, d)
    BY <2>2, <2>3, Closed, DifferenceBounds
  <2> HIDE DEF d
  <2>7. Leq(Hundred, Hundred ** d)
    BY <2>3, <2>4, <2>6, HundredIs, MulMonotone
  <2>8. h \in Rational /\ Leq(Zero, h) /\ Leq(h, Hundred)
    BY <2>6, <2>7, HundredIs, Closed, Products, QuotientBounds
  <2> HIDE DEF h
  <2>9. Hundred -- h \in Rational /\ Leq(Zero, Hundred -- h) /\ Leq(Hundred -- h, Hundred)
    BY <2>8, HundredIs, Closed, DifferenceBounds
  <2>10. QED
    BY <2>5, <2>9 DEF Between
<1>3. QED
  BY <1>1, <1>2

\* %K stays on the scale for a close between the extremes.
LEMMA PercentKInRange ==
  ASSUME NEW close \in Rational, NEW e \in [high : Rational, low : Rational],
         Leq(e.low, close), Leq(close, e.high)
  PROVE  PercentK(close, e) \in Rational /\ Between(Zero, PercentK(close, e), Hundred)
<1> DEFINE l == e.low
           h == e.high
<1>1. l \in Rational /\ h \in Rational
  OBVIOUS
<1>2. PercentK(close, e) = IF Less(l, h) THEN (Hundred ** (close -- l)) // (h -- l) ELSE Zero
  BY DEF PercentK
<1> HIDE DEF l, h
<1>3. CASE Less(l, h)
  <2> DEFINE x == close -- l
             y == h -- l
  <2>1. x \in Rational /\ y \in Rational
    BY <1>1, Closed
  <2>2. Leq(Zero, x) /\ Leq(x, y)
    BY <1>1, DifferenceBounds DEF l, h
  <2>3. Less(Zero, y)
    BY <1>1, <1>3, AbsOfDifference
  <2> HIDE DEF x, y
  <2>4. QED
    BY <1>2, <1>3, <2>1, <2>2, <2>3, PercentInRange DEF x, y
<1>4. CASE ~Less(l, h)
  BY <1>2, <1>4, ZeroIs, HundredIs, TotalOrder DEF Between
<1>5. QED
  BY <1>3, <1>4

\* The directional index stays on the scale.
LEMMA DirectionalIndexInRange ==
  ASSUME NEW plus \in Rational, NEW minus \in Rational, NEW range \in Rational,
         Leq(Zero, plus), Leq(Zero, minus), Less(Zero, range)
  PROVE  /\ DirectionalIndex(plus, minus, range) \in Rational
         /\ Between(Zero, DirectionalIndex(plus, minus, range), Hundred)
<1> DEFINE u == (Hundred ** plus) // range
           w == (Hundred ** minus) // range
           denom == u ++ w
           diff == AbsOf(u -- w)
<1>1. u \in Rational /\ Leq(Zero, u)
  <2>1. Hundred ** plus \in Rational /\ Leq(Zero, Hundred ** plus)
    BY HundredIs, Closed, Products
  <2>2. QED
    BY <2>1, Closed, Products
<1>2. w \in Rational /\ Leq(Zero, w)
  <2>1. Hundred ** minus \in Rational /\ Leq(Zero, Hundred ** minus)
    BY HundredIs, Closed, Products
  <2>2. QED
    BY <2>1, Closed, Products
<1>3. DirectionalIndex(plus, minus, range)
         = IF Less(Zero, denom) THEN (Hundred ** diff) // denom ELSE Zero
  BY DEF DirectionalIndex
<1> HIDE DEF u, w
<1>4. denom \in Rational /\ diff \in Rational /\ Leq(Zero, diff) /\ Leq(diff, denom)
  BY <1>1, <1>2, Closed, AbsOfDifference, DifferenceBounds
<1> HIDE DEF denom, diff
<1>5. CASE Less(Zero, denom)
  BY <1>3, <1>4, <1>5, PercentInRange
<1>6. CASE ~Less(Zero, denom)
  BY <1>3, <1>6, ZeroIs, HundredIs, TotalOrder DEF Between
<1>7. QED
  BY <1>5, <1>6

\* The CHOOSEs of Highest and Lowest have a witness.
LEMMA HighestIs ==
  ASSUME NEW v \in Seq(Rational), Len(v) \in Nat \ {0}
  PROVE  /\ Highest(v) \in Rational /\ \A i \in 1..Len(v) : Leq(v[i], Highest(v))
         /\ Lowest(v) \in Rational /\ \A i \in 1..Len(v) : Leq(Lowest(v), v[i])
<1> DEFINE n == Len(v)
           Top(i, j) == \A k \in 1..i : Leq(v[k], v[j])
           Bottom(i, j) == \A k \in 1..i : Leq(v[j], v[k])
           S == {i \in 1..n : (\E j \in 1..i : Top(i, j)) /\ (\E j \in 1..i : Bottom(i, j))}
           one == 1
<1>1. n \in Nat \ {0} /\ n \in Int /\ \A i \in 1..n : v[i] \in Rational
  BY SeqIs
<1> HIDE DEF n
<1>2. one <= n => one \in S
  <2>1. Leq(v[1], v[1])
    BY <1>1, TotalOrder
  <2>2. Top(1, 1) /\ Bottom(1, 1)
    BY <2>1
  <2>3. QED
    BY <1>1, <2>2
<1>3. ASSUME NEW i \in one..n, one < i, i - 1 \in S PROVE i \in S
  <2>1. PICK j \in 1..(i - 1) : Top(i - 1, j)
    BY <1>3
  <2>2. PICK l \in 1..(i - 1) : Bottom(i - 1, l)
    BY <1>3
  <2>3. i \in 1..n /\ j \in 1..n /\ l \in 1..n /\ i \in 1..i /\ j \in 1..i /\ l \in 1..i
    BY <1>1
  <2>4. v[i] \in Rational /\ v[j] \in Rational /\ v[l] \in Rational
    BY <1>1, <2>3
  <2>5. \A k \in 1..i : k \in 1..n /\ v[k] \in Rational /\ (k = i \/ k \in 1..(i - 1))
    BY <1>1
  <2>6. \E m \in 1..i : Top(i, m)
    <3>1. CASE Leq(v[i], v[j])
      BY <2>1, <2>3, <2>5, <3>1
    <3>2. CASE Leq(v[j], v[i])
      <4>1. \A k \in 1..i : Leq(v[k], v[i])
        BY <2>1, <2>4, <2>5, <3>2, LeqTransitive, TotalOrder
      <4>2. QED
        BY <2>3, <4>1
    <3>3. QED
      BY <2>4, <3>1, <3>2, TotalOrder
  <2>7. \E m \in 1..i : Bottom(i, m)
    <3>1. CASE Leq(v[l], v[i])
      BY <2>2, <2>3, <2>5, <3>1
    <3>2. CASE Leq(v[i], v[l])
      <4>1. \A k \in 1..i : Leq(v[i], v[k])
        BY <2>2, <2>4, <2>5, <3>2, LeqTransitive, TotalOrder
      <4>2. QED
        BY <2>3, <4>1
    <3>3. QED
      BY <2>4, <3>1, <3>2, TotalOrder
  <2> HIDE DEF Top, Bottom
  <2>8. QED
    BY <2>3, <2>6, <2>7
<1>4. one \in Int /\ one = 1
  OBVIOUS
<1>5. \A i \in one..n : i \in S
  <2> HIDE DEF S, one
  <2>1. QED
    BY <1>1, <1>2, <1>3, <1>4, StepInduction, Zenon
<1>6. n \in S
  <2>1. n \in one..n
    BY <1>1
  <2> HIDE DEF S, one
  <2>2. QED
    BY <1>5, <2>1
<1>7. PICK j \in 1..n : Top(n, j)
  BY <1>6
<1>8. PICK l \in 1..n : Bottom(n, l)
  BY <1>6
<1>9. Range(v) = {v[i] : i \in 1..n}
  BY SeqIs DEF Range, n
<1>10. \E x \in Range(v) : \A y \in Range(v) : Leq(y, x)
  BY <1>7, <1>9
<1>11. \E x \in Range(v) : \A y \in Range(v) : Leq(x, y)
  BY <1>8, <1>9
<1>12. Highest(v) \in Range(v) /\ \A y \in Range(v) : Leq(y, Highest(v))
  BY <1>10, Zenon DEF Highest
<1>13. Lowest(v) \in Range(v) /\ \A y \in Range(v) : Leq(Lowest(v), y)
  BY <1>11, Zenon DEF Lowest
<1>14. QED
  BY <1>1, <1>9, <1>12, <1>13 DEF n

\* Every candle lies between the extremes of its window.
LEMMA ExtremesAre ==
  ASSUME NEW w \in Seq(Candle), Len(w) \in Nat \ {0}
  PROVE  /\ Extremes(w) \in [high : Rational, low : Rational]
         /\ \A i \in 1..Len(w) : /\ Leq(Extremes(w).low, w[i].low)
                                 /\ Leq(w[i].high, Extremes(w).high)
                                 /\ Leq(Extremes(w).low, w[i].close)
                                 /\ Leq(w[i].close, Extremes(w).high)
<1> DEFINE n == Len(w)
           highs == [i \in DOMAIN w |-> w[i].high]
           lows == [i \in DOMAIN w |-> w[i].low]
           h == Highest(highs)
           l == Lowest(lows)
<1>1. n \in Nat \ {0} /\ DOMAIN w = 1..n /\ \A i \in 1..n : w[i] \in Candle
  BY ChartIs
<1>2. highs \in [1..n -> Rational] /\ lows \in [1..n -> Rational]
  BY <1>1, CandleIs
<1>3. /\ \A i \in 1..n : highs[i] = w[i].high /\ lows[i] = w[i].low
  BY <1>1
<1>4. Extremes(w) = [high |-> h, low |-> l]
  BY DEF Extremes
<1> HIDE DEF n, highs, lows
<1>5. highs \in Seq(Rational) /\ Len(highs) = n
  BY <1>1, <1>2 DEF Seq
<1>6. lows \in Seq(Rational) /\ Len(lows) = n
  BY <1>1, <1>2 DEF Seq
<1>7. h \in Rational /\ \A i \in 1..n : Leq(highs[i], h)
  BY <1>1, <1>5, HighestIs
<1>8. l \in Rational /\ \A i \in 1..n : Leq(l, lows[i])
  BY <1>1, <1>6, HighestIs
<1> HIDE DEF h, l
<1>9. ASSUME NEW i \in 1..n
      PROVE  /\ Leq(l, w[i].low) /\ Leq(w[i].high, h)
             /\ Leq(l, w[i].close) /\ Leq(w[i].close, h)
  <2> DEFINE c == w[i]
  <2>1. /\ c.low \in Rational /\ c.close \in Rational /\ c.high \in Rational
        /\ Leq(c.low, c.close) /\ Leq(c.close, c.high)
    BY <1>1, CandleIs
  <2>2. Leq(l, c.low) /\ Leq(c.high, h)
    BY <1>3, <1>7, <1>8
  <2> DEFINE x == c.low
             y == c.close
             z == c.high
  <2> HIDE DEF x, y, z
  <2>3. /\ x \in Rational /\ y \in Rational /\ z \in Rational
        /\ Leq(l, x) /\ Leq(x, y) /\ Leq(y, z) /\ Leq(z, h)
    BY <2>1, <2>2 DEF x, y, z
  <2>4. Leq(l, y)
    BY <1>8, <2>3, LeqTransitive
  <2>5. Leq(y, h)
    BY <1>7, <2>3, LeqTransitive
  <2>6. QED
    BY <2>2, <2>4, <2>5 DEF y
<1>10. QED
  BY <1>4, <1>7, <1>8, <1>9 DEF n

\* A line over n candles that is defined from position k on.
From(line, n, k, V) ==
  /\ line \in [1..n -> V \cup {None}]
  /\ \A i \in 1..n : i < k => line[i] = None
  /\ \A i \in 1..n : i >= k => line[i] \in V

\* A line that is defined from a position on has its Nones in front.
LEMMA FromLeads ==
  ASSUME NEW line, NEW n \in Nat, NEW k \in Int, NEW V, None \notin V, From(line, n, k, V)
  PROVE  /\ Len(line) = n
         /\ \A i \in 2..Len(line) : line[i] = None => line[i - 1] = None
<1>1. line \in Seq(V \cup {None}) /\ Len(line) = n
  BY DEF From, Seq
<1>2. ASSUME NEW i \in 2..n, line[i] = None PROVE line[i - 1] = None
  <2>1. i \in 1..n /\ i - 1 \in 1..n
    OBVIOUS
  <2>2. i < k
    BY <1>2, <2>1 DEF From
  <2>3. QED
    BY <2>1, <2>2 DEF From
<1>3. QED
  BY <1>1, <1>2

\* A shorter series put at the end of n positions (offset).
LEMMA ShiftedFrom ==
  ASSUME NEW n \in Nat, NEW m \in 0..n, NEW w, NEW p \in Nat \ {0}, NEW V, From(w, m, p, V)
  PROVE  From(AtTheEnd(n, w), n, (n - m) + p, V)
<1> DEFINE a == AtTheEnd(n, w)
<1>1. Len(w) = m
  BY DEF From, Seq
<1>2. a = [i \in 1..n |-> IF i <= n - m THEN None ELSE w[i - (n - m)]]
  BY <1>1 DEF AtTheEnd
<1>3. \A i \in 1..n : i <= n - m \/ i - (n - m) \in 1..m
  OBVIOUS
<1> HIDE DEF a
<1>4. ASSUME NEW i \in 1..n
      PROVE  (i < (n - m) + p => a[i] = None) /\ (i >= (n - m) + p => a[i] \in V)
  <2>1. CASE i <= n - m
    BY <1>2, <2>1
  <2>2. CASE ~(i <= n - m)
    <3> DEFINE j == i - (n - m)
    <3>1. j \in 1..m /\ a[i] = w[j]
      BY <1>2, <1>3, <2>2
    <3>2. (i < (n - m) + p => j < p) /\ (i >= (n - m) + p => j >= p)
      BY <3>1
    <3> HIDE DEF j
    <3>3. QED
      BY <3>1, <3>2 DEF From
  <2>3. QED
    BY <2>1, <2>2
<1>5. \A i \in 1..n : a[i] \in V \cup {None}
  BY <1>4
<1>6. a \in [1..n -> V \cup {None}]
  BY <1>2, <1>5
<1>7. QED
  BY <1>4, <1>6 DEF From, a

\* d is what is left of s without its leading Nones, if it has no others.
SuffixOf(d, s, n) ==
  \A z \in 0..n : (\A i \in 1..n : s[i] = None <=> i <= z) =>
     Len(d) = n - z /\ \A j \in 1..(n - z) : d[j] = s[z + j]

\* What is left of a series without its undefined positions.
LEMMA DefinedIs ==
  ASSUME NEW V, None \notin V, NEW n \in Nat, NEW s \in [1..n -> V \cup {None}]
  PROVE  /\ Defined(s) \in Seq(V) /\ Len(Defined(s)) \in 0..n
         /\ SuffixOf(Defined(s), s, n)
<1> DEFINE o == 0
           next(x, i) == IF s[i] = None THEN x ELSE Append(x, s[i])
           step == [i \in o..n |-> [x \in Seq(V) |-> IF i = o THEN x ELSE next(x, i)]]
           rec == CHOOSE g : g = [i \in 0..Len(s) |-> IF i = 0 THEN <<>>
                                   ELSE IF s[i] = None THEN g[i - 1] ELSE Append(g[i - 1], s[i])]
           S == {i \in o..n : rec[i] \in Seq(V) /\ Len(rec[i]) \in 0..i}
<1>1. Len(s) = n /\ n \in Int
  BY DEF Seq
<1>2. Defined(s) = rec[n]
  BY <1>1, Zenon DEF Defined
<1> HIDE DEF rec
<1>3. ASSUME NEW i \in o..n, i # o, NEW x \in Seq(V) PROVE next(x, i) \in Seq(V)
  <2>1. i \in 1..n
    BY <1>3
  <2>2. s[i] = None \/ s[i] \in V
    BY <2>1
  <2>3. QED
    BY <2>2
<1> HIDE DEF next
<1>4. step \in [o..n -> [Seq(V) -> Seq(V)]]
  BY <1>3
<1>5. \A i \in o..n, x \in Seq(V) : i # o => step[i][x] = next(x, i)
  OBVIOUS
<1>6. o \in Int /\ o = 0 /\ <<>> \in Seq(V)
  OBVIOUS
<1> HIDE DEF step, o
<1>7. PICK f : Recurs(f, o, n, Seq(V), <<>>, step)
  BY <1>1, <1>4, <1>6, RecursionExists, Zenon
<1>8. ASSUME NEW i \in o..n PROVE f[i] = IF i = o THEN <<>> ELSE next(f[i - 1], i)
  <2>1. i # o => i - 1 \in o..n
    BY <1>1, <1>6
  <2>2. f[i] = IF i = o THEN <<>> ELSE step[i][f[i - 1]]
    BY <1>7 DEF Recurs
  <2>3. i # o => f[i - 1] \in Seq(V)
    BY <1>7, <2>1 DEF Recurs
  <2>4. QED
    BY <1>5, <2>2, <2>3, Zenon
<1>9. f = [i \in 0..n |-> IF i = 0 THEN <<>> ELSE next(f[i - 1], i)]
  BY <1>6, <1>7, <1>8 DEF Recurs
<1>10. rec = [i \in 0..n |-> IF i = 0 THEN <<>> ELSE next(rec[i - 1], i)]
  BY <1>1, <1>9, Zenon DEF rec, next
<1>11. \A i \in o..n : rec[i] = IF i = o THEN <<>> ELSE next(rec[i - 1], i)
  BY <1>6, <1>10, Zenon
<1>12. o <= n => o \in S
  <2>1. rec[o] = <<>>
    BY <1>6, <1>11
  <2>2. rec[o] \in Seq(V) /\ Len(rec[o]) = 0
    BY <2>1
  <2>3. Len(rec[o]) \in 0..o
    BY <1>6, <2>2
  <2>4. QED
    BY <1>6, <2>2, <2>3
<1>13. ASSUME NEW i \in o..n, o < i, i - 1 \in S PROVE i \in S
  <2> DEFINE x == rec[i - 1]
  <2>1. x \in Seq(V) /\ Len(x) \in 0..(i - 1)
    BY <1>13
  <2>2. rec[i] = next(x, i)
    BY <1>6, <1>11, <1>13
  <2>3. i \in 1..n /\ (s[i] = None \/ s[i] \in V)
    BY <1>6, <1>13
  <2> HIDE DEF x
  <2>4. next(x, i) \in Seq(V) /\ Len(next(x, i)) \in 0..i
    <3>1. CASE s[i] = None
      BY <2>1, <2>3, <3>1 DEF next
    <3>2. CASE s[i] # None
      <4>1. Append(x, s[i]) \in Seq(V) /\ Len(Append(x, s[i])) = Len(x) + 1
        BY <2>1, <2>3, <3>2
      <4>2. QED
        BY <2>1, <2>3, <3>2, <4>1 DEF next
    <3>3. QED
      BY <3>1, <3>2
  <2>5. QED
    BY <2>2, <2>4
<1>14. \A i \in o..n : i \in S
  <2> HIDE DEF S
  <2>1. QED
    BY <1>1, <1>6, <1>12, <1>13, StepInduction, Zenon
<1>15. Defined(s) \in Seq(V) /\ Len(Defined(s)) \in 0..n
  BY <1>2, <1>6, <1>14
<1>16. ASSUME NEW z \in 0..n, \A i \in 1..n : s[i] = None <=> i <= z
       PROVE  Len(Defined(s)) = n - z /\ \A j \in 1..(n - z) : Defined(s)[j] = s[z + j]
  <2> DEFINE Kept(i, x) == IF i <= z THEN x = <<>>
                           ELSE Len(x) = i - z /\ \A j \in 1..(i - z) : x[j] = s[z + j]
             T == {i \in o..n : Kept(i, rec[i])}
  <2>1. o <= n => o \in T
    BY <1>6, <1>11
  <2>2. ASSUME NEW i \in o..n, o < i, i - 1 \in T PROVE i \in T
    <3> DEFINE x == rec[i - 1]
    <3>1. Kept(i - 1, x)
      BY <2>2
    <3>2. rec[i] = next(x, i) /\ i \in 1..n
      BY <1>6, <1>11, <2>2
    <3>3. x \in Seq(V)
      <4>1. i - 1 \in o..n
        BY <1>6, <2>2
      <4>2. QED
        BY <1>14, <4>1
    <3> HIDE DEF x
    <3>4. CASE i <= z
      <4>1. s[i] = None /\ i - 1 <= z
        BY <1>16, <3>2, <3>4
      <4>2. x = <<>> /\ rec[i] = x
        BY <3>1, <3>2, <4>1 DEF next
      <4>3. QED
        BY <3>4, <4>2
    <3>5. CASE ~(i <= z)
      <4>1. s[i] # None /\ s[i] \in V
        BY <1>16, <3>2, <3>5
      <4>2. rec[i] = Append(x, s[i])
        BY <3>2, <4>1 DEF next
      <4>3. Len(x) = (i - 1) - z /\ \A j \in 1..((i - 1) - z) : x[j] = s[z + j]
        <5>1. CASE i - 1 <= z
          <6>1. x = <<>> /\ i - 1 = z
            BY <3>1, <3>5, <5>1
          <6>2. QED
            BY <6>1
        <5>2. CASE ~(i - 1 <= z)
          BY <3>1, <5>2
        <5>3. QED
          BY <5>1, <5>2
      <4> DEFINE y == Append(x, s[i])
      <4>4. /\ Len(y) = Len(x) + 1 /\ y[Len(x) + 1] = s[i]
            /\ \A j \in 1..Len(x) : y[j] = x[j]
        BY <3>3, <4>1
      <4> HIDE DEF y
      <4>5. Len(y) = i - z /\ \A j \in 1..(i - z) : y[j] = s[z + j]
        <5>1. Len(y) = i - z /\ y[i - z] = s[i]
          BY <4>3, <4>4
        <5>2. ASSUME NEW j \in 1..(i - z) PROVE y[j] = s[z + j]
          <6>1. CASE j = i - z
            <7>1. z + j = i
              BY <6>1
            <7>2. QED
              BY <5>1, <6>1, <7>1
          <6>2. CASE j # i - z
            <7>1. j \in 1..((i - 1) - z)
              BY <6>2
            <7>2. QED
              BY <4>3, <4>4, <7>1
          <6>3. QED
            BY <6>1, <6>2
        <5>3. QED
          BY <5>1, <5>2
      <4>6. QED
        BY <3>5, <4>2, <4>5 DEF y
    <3>6. QED
      BY <3>4, <3>5
  <2>3. \A i \in o..n : i \in T
    <3> HIDE DEF T
    <3>1. QED
      BY <1>1, <1>6, <2>1, <2>2, StepInduction, Zenon
  <2>4. Kept(n, rec[n])
    BY <1>6, <2>3
  <2>5. CASE z = n
    <3>1. rec[n] = <<>> /\ 1..(n - z) = {} /\ n - z = 0
      BY <2>4, <2>5
    <3>2. QED
      BY <1>2, <3>1
  <2>6. CASE z # n
    BY <1>2, <2>4, <2>6
  <2>7. QED
    BY <2>5, <2>6
<1>17. QED
  BY <1>15, <1>16 DEF SuffixOf

\* The oscillators' scale.
Percent == {x \in Rational : Between(Zero, x, Hundred)}

\* None is not on the scale.
LEMMA PercentIs == None \notin Percent /\ Percent \subseteq Rational
BY Parameters DEF Percent

\* sma stays on the scale ...
LEMMA SmaOfPercent ==
  ASSUME NEW v \in Seq(Percent), NEW p \in Nat \ {0}
  PROVE  From(Sma(v, p), Len(v), p, Percent)
<1> DEFINE n == Len(v)
           s == Sma(v, p)
<1>1. n \in Nat /\ \A i \in 1..n : v[i] \in Percent
  BY SeqIs
<1>2. v \in Seq(Rational)
  BY PercentIs
<1>3. s \in [1..n -> Rational \cup {None}] /\ \A i \in 1..n : i < p => s[i] = None
  BY <1>2, SmaIs
<1>4. ASSUME NEW i \in 1..n, i >= p PROVE s[i] \in Percent
  <2> DEFINE w == WindowAt(v, i, p)
  <2>1. i \in p..n
    BY <1>1, <1>4
  <2>2. s[i] = Mean(w) /\ w \in Seq(Rational) /\ Len(w) = p /\ \A j \in 1..p : w[j] = v[(i - p) + j]
    BY <1>2, <2>1, SmaMean
  <2>3. \A j \in 1..p : (i - p) + j \in 1..n
    BY <1>1, <2>1
  <2> HIDE DEF w, n, s
  <2>4. \A j \in 1..Len(w) : Leq(Zero, w[j]) /\ Leq(w[j], Hundred)
    BY <1>1, <2>2, <2>3 DEF Percent, Between
  <2>5. Len(w) \in Nat \ {0}
    BY <2>2
  <2>6. Mean(w) \in Rational
    BY <2>2, <2>5, MeanIn
  <2>7. Leq(Zero, Mean(w))
    BY <2>2, <2>4, <2>5, ZeroIs, MeanAbove
  <2>8. Leq(Mean(w), Hundred)
    BY <2>2, <2>4, <2>5, HundredIs, MeanBelow
  <2>9. QED
    BY <2>2, <2>6, <2>7, <2>8 DEF Percent, Between
<1> HIDE DEF n, s
<1>5. \A i \in 1..n : s[i] \in Percent \cup {None}
  BY <1>1, <1>3, <1>4
<1>6. s \in [1..n -> Percent \cup {None}]
  BY <1>3, <1>5
<1>7. QED
  BY <1>3, <1>4, <1>6 DEF From, n, s

\* ... and so does wilder_smoothing.
LEMMA WilderOfPercent ==
  ASSUME NEW v \in Seq(Percent), NEW p \in Nat \ {0}
  PROVE  From(WilderSmoothing(v, p), Len(v), p, Percent)
<1> DEFINE n == Len(v)
           s == WilderSmoothing(v, p)
<1>1. n \in Nat /\ \A i \in 1..n : v[i] \in Percent
  BY SeqIs
<1>2. v \in Seq(Rational) /\ \A i \in 1..n : Leq(Zero, v[i]) /\ Leq(v[i], Hundred)
  BY <1>1, PercentIs DEF Percent, Between
<1>3. /\ s \in [1..n -> Rational \cup {None}] /\ \A i \in 1..n : i < p => s[i] = None
      /\ \A i \in 1..n : i >= p => s[i] \in Rational
  BY <1>2, WilderIs
<1>4. \A i \in 1..n : i >= p => Leq(Zero, s[i])
  BY <1>2, ZeroIs, WilderAbove
<1>5. \A i \in 1..n : i >= p => Leq(s[i], Hundred)
  BY <1>2, HundredIs, WilderBelow
<1> HIDE DEF n, s
<1>6. \A i \in 1..n : i >= p => s[i] \in Percent
  BY <1>3, <1>4, <1>5 DEF Percent, Between
<1>7. \A i \in 1..n : s[i] \in Percent \cup {None}
  BY <1>1, <1>3, <1>6
<1>8. s \in [1..n -> Percent \cup {None}]
  BY <1>3, <1>7
<1>9. QED
  BY <1>3, <1>6, <1>8 DEF From, n, s

\* sma and ema are defined from the period on.
LEMMA AveragesFrom ==
  ASSUME NEW v \in Seq(Rational), NEW p \in Nat \ {0}
  PROVE  /\ From(Sma(v, p), Len(v), p, Rational)
         /\ From(Ema(v, p), Len(v), p, Rational)
<1>1. From(Sma(v, p), Len(v), p, Rational)
  BY SmaIs DEF From
<1>2. From(Ema(v, p), Len(v), p, Rational)
  BY EmaIs DEF From
<1>3. QED
  BY <1>1, <1>2

\* rsi is defined from the candle after the period on, on its scale.
LEMMA RsiFromPeriod ==
  ASSUME NEW v \in Seq(Rational), NEW p \in Nat \ {0}
  PROVE  From(Rsi(v, p), Len(v), p + 1, Percent)
<1> DEFINE n == Len(v)
           gains == Gains(v)
           losses == Losses(v)
           g == WilderSmoothing(gains, p)
           l == WilderSmoothing(losses, p)
           r == Rsi(v, p)
<1>1. n \in Nat
  BY SeqIs
<1>2. r = [i \in 1..n |-> IF i <= p THEN None ELSE RsiFrom(g[i - 1], l[i - 1])]
  BY Zenon DEF Rsi
<1>3. ASSUME NEW i \in 1..n, i > p
      PROVE  RsiFrom(g[i - 1], l[i - 1]) \in Percent
  <2> DEFINE m == n - 1
             j == i - 1
  <2>1. n # 0 /\ m \in Nat /\ j \in 1..m /\ j >= p
    BY <1>1, <1>3
  <2>2. /\ gains \in Seq(Rational) /\ Len(gains) = m
        /\ losses \in Seq(Rational) /\ Len(losses) = m
        /\ \A k \in 1..m : Leq(Zero, gains[k]) /\ Leq(Zero, losses[k])
    BY <2>1, ChangesAre
  <2> HIDE DEF gains, losses, m, j
  <2>3. g[j] \in Rational /\ l[j] \in Rational
    BY <2>1, <2>2, WilderIs
  <2>4. Leq(Zero, g[j])
    BY <2>1, <2>2, ZeroIs, WilderAbove
  <2>5. Leq(Zero, l[j])
    BY <2>1, <2>2, ZeroIs, WilderAbove
  <2> HIDE DEF g, l
  <2>6. RsiFrom(g[j], l[j]) \in Rational /\ Between(Zero, RsiFrom(g[j], l[j]), Hundred)
    BY <2>3, <2>4, <2>5, RsiInRange
  <2>7. QED
    BY <2>6 DEF j, Percent
<1> HIDE DEF n, g, l, r
<1>4. ASSUME NEW i \in 1..n
      PROVE  (i < p + 1 => r[i] = None) /\ (i >= p + 1 => r[i] \in Percent)
  <2>1. CASE i <= p
    BY <1>1, <1>2, <2>1
  <2>2. CASE i > p
    BY <1>1, <1>2, <1>3, <2>2
  <2>3. QED
    BY <1>1, <2>1, <2>2
<1>5. \A i \in 1..n : r[i] \in Percent \cup {None}
  BY <1>1, <1>4
<1>6. r \in [1..n -> Percent \cup {None}]
  BY <1>2, <1>5
<1>7. QED
  BY <1>4, <1>6 DEF From, n, r

\* The average of what is defined of a series, put at the end, is defined
\* from some position on.
LEMMA EndsWithDefined ==
  ASSUME NEW n \in Nat, NEW s \in [1..n -> Percent \cup {None}], NEW p \in Nat \ {0}
  PROVE  /\ \E k \in Int : From(AtTheEnd(n, Sma(Defined(s), p)), n, k, Percent)
         /\ \E k \in Int : From(AtTheEnd(n, WilderSmoothing(Defined(s), p)), n, k, Percent)
<1> DEFINE d == Defined(s)
           m == Len(d)
<1>1. d \in Seq(Percent) /\ m \in 0..n
  BY DefinedIs, PercentIs
<1> HIDE DEF d
<1>2. From(Sma(d, p), m, p, Percent)
  BY <1>1, SmaOfPercent
<1>3. From(WilderSmoothing(d, p), m, p, Percent)
  BY <1>1, WilderOfPercent
<1> HIDE DEF m
<1>4. From(AtTheEnd(n, Sma(d, p)), n, (n - m) + p, Percent)
  BY <1>1, <1>2, ShiftedFrom
<1>5. From(AtTheEnd(n, WilderSmoothing(d, p)), n, (n - m) + p, Percent)
  BY <1>1, <1>3, ShiftedFrom
<1>6. (n - m) + p \in Int
  BY <1>1
<1>7. QED
  BY <1>4, <1>5, <1>6, Zenon DEF d

\* macd: its line is defined from the slow period on, its signal and its
\* histogram from some position on.
LEMMA MacdFrom ==
  ASSUME NEW v \in Seq(Rational), NEW fast \in Nat \ {0}, NEW slow \in Nat \ {0},
         NEW signal \in Nat \ {0}, fast < slow
  PROVE  LET macd == Macd(v, fast, slow, signal)
         IN  /\ From(macd.line, Len(v), slow, Rational)
             /\ \E k \in Int : From(macd.signal, Len(v), k, Rational)
             /\ \E k \in Int : From(macd.hist, Len(v), k, Rational)
<1> DEFINE n == Len(v)
           f == Ema(v, fast)
           w == Ema(v, slow)
           line == [i \in 1..n |-> IF f[i] = None \/ w[i] = None THEN None ELSE f[i] -- w[i]]
           d == Defined(line)
           m == Len(d)
           s == AtTheEnd(n, Ema(d, signal))
           hist == [i \in 1..n |-> IF line[i] = None \/ s[i] = None THEN None ELSE line[i] -- s[i]]
           macd == Macd(v, fast, slow, signal)
           k == (n - m) + signal
           q == IF slow <= k THEN k ELSE slow
<1>1. n \in Nat
  BY SeqIs
<1>2. macd = [line |-> line, signal |-> s, hist |-> hist]
  BY Zenon DEF Macd
<1>3. macd.line = line /\ macd.signal = s /\ macd.hist = hist
  BY <1>2
<1>4. From(f, n, fast, Rational) /\ From(w, n, slow, Rational)
  BY AveragesFrom
<1> HIDE DEF n, f, w, macd
<1>5. From(line, n, slow, Rational)
  <2>1. ASSUME NEW i \in 1..n
        PROVE  (i < slow => line[i] = None) /\ (i >= slow => line[i] \in Rational)
    <3>1. CASE i < slow
      <4>1. w[i] = None
        BY <1>4, <3>1 DEF From
      <4>2. QED
        BY <3>1, <4>1
    <3>2. CASE i >= slow
      <4>1. f[i] \in Rational /\ w[i] \in Rational
        BY <1>4, <3>2 DEF From
      <4>2. f[i] -- w[i] \in Rational
        BY <4>1, Closed
      <4>3. QED
        BY <3>2, <4>1, <4>2, Parameters
    <3>3. QED
      BY <1>1, <3>1, <3>2
  <2>2. \A i \in 1..n : line[i] \in Rational \cup {None}
    BY <1>1, <2>1
  <2>3. line \in [1..n -> Rational \cup {None}]
    BY <2>2
  <2>4. QED
    BY <2>1, <2>3 DEF From
<1> HIDE DEF line
<1>6. d \in Seq(Rational) /\ m \in 0..n
  <2>1. line \in [1..n -> Rational \cup {None}]
    BY <1>5 DEF From
  <2>2. QED
    BY <1>1, <2>1, DefinedIs, Parameters
<1> HIDE DEF d
<1>7. From(Ema(d, signal), m, signal, Rational)
  BY <1>6, AveragesFrom
<1> HIDE DEF m
<1>8. From(s, n, k, Rational) /\ k \in Int
  BY <1>1, <1>6, <1>7, ShiftedFrom
<1> HIDE DEF s, k
<1>9. From(hist, n, q, Rational) /\ q \in Int
  <2>1. ASSUME NEW i \in 1..n
        PROVE  (i < q => hist[i] = None) /\ (i >= q => hist[i] \in Rational)
    <3>1. CASE i < slow
      <4>1. line[i] = None
        BY <1>5, <3>1 DEF From
      <4>2. hist[i] = None /\ ~(i >= q)
        BY <1>1, <1>8, <3>1, <4>1
      <4>3. QED
        BY <4>2
    <3>2. CASE i < k
      <4>1. s[i] = None
        BY <1>8, <3>2 DEF From
      <4>2. hist[i] = None /\ ~(i >= q)
        BY <1>1, <1>8, <3>2, <4>1
      <4>3. QED
        BY <4>2
    <3>3. CASE i >= slow /\ i >= k
      <4>1. line[i] \in Rational /\ s[i] \in Rational
        BY <1>5, <1>8, <3>3 DEF From
      <4>2. line[i] -- s[i] \in Rational
        BY <4>1, Closed
      <4>3. hist[i] \in Rational /\ ~(i < q)
        BY <1>1, <1>8, <3>3, <4>1, <4>2, Parameters
      <4>4. QED
        BY <4>3
    <3>4. QED
      BY <1>1, <1>8, <3>1, <3>2, <3>3
  <2>2. q \in Int
    BY <1>8
  <2>3. \A i \in 1..n : hist[i] \in Rational \cup {None}
    BY <1>1, <2>1, <2>2
  <2>4. hist \in [1..n -> Rational \cup {None}]
    BY <2>3
  <2>5. QED
    BY <2>1, <2>2, <2>4 DEF From
<1> HIDE DEF hist, q
<1>10. QED
  BY <1>3, <1>5, <1>8, <1>9 DEF n, macd

\* bollinger_bands are defined from the period on.
LEMMA BollingerFrom ==
  ASSUME NEW v \in Seq(Rational), NEW p \in Nat \ {0}
  PROVE  /\ BollingerBands(v, p).middle = Sma(v, p)
         /\ From(BollingerBands(v, p).variance, Len(v), p, Rational)
<1> DEFINE n == Len(v)
           middle == Sma(v, p)
           x(i, j) == WindowAt(v, i, p)[j] -- middle[i]
           squares(i) == [j \in 1..p |-> x(i, j) ** x(i, j)]
           variance == [i \in 1..n |-> IF i < p THEN None ELSE Mean(squares(i))]
<1>1. n \in Nat
  BY SeqIs
<1>2. BollingerBands(v, p) = [middle |-> middle, variance |-> variance]
  BY Zenon DEF BollingerBands
<1>3. BollingerBands(v, p).middle = middle /\ BollingerBands(v, p).variance = variance
  BY <1>2
<1>4. ASSUME NEW i \in 1..n, i >= p PROVE Mean(squares(i)) \in Rational
  <2> DEFINE w == WindowAt(v, i, p)
             sq == squares(i)
  <2>1. i \in p..n
    BY <1>1, <1>4
  <2>2. w \in Seq(Rational) /\ Len(w) = p
    BY <2>1, Window
  <2>3. middle[i] \in Rational
    BY <1>4, SmaIs
  <2>4. \A j \in 1..p : w[j] \in Rational
    <3> HIDE DEF w
    <3>1. QED
      BY <2>2, SeqIs
  <2> HIDE DEF middle, w
  <2>5. \A j \in 1..p : w[j] -- middle[i] \in Rational
    BY <2>3, <2>4, Closed
  <2>6. \A j \in 1..p : x(i, j) \in Rational
    BY <2>5 DEF w
  <2> HIDE DEF x
  <2>7. \A j \in 1..p : x(i, j) ** x(i, j) \in Rational
    BY <2>6, Closed
  <2>8. sq \in [1..p -> Rational]
    BY <2>7
  <2> HIDE DEF sq
  <2>9. sq \in Seq(Rational) /\ Len(sq) = p
    BY <2>8 DEF Seq
  <2>10. Mean(sq) \in Rational
    BY <2>9, MeanIn
  <2>11. QED
    BY <2>10 DEF sq
<1> HIDE DEF n, squares
<1>5. \A i \in 1..n : (i < p => variance[i] = None) /\ (i >= p => variance[i] \in Rational)
  BY <1>1, <1>4
<1>6. \A i \in 1..n : variance[i] \in Rational \cup {None}
  BY <1>1, <1>5
<1>7. variance \in [1..n -> Rational \cup {None}]
  BY <1>6
<1> HIDE DEF variance
<1>8. From(variance, n, p, Rational)
  BY <1>5, <1>7 DEF From
<1>9. QED
  BY <1>3, <1>8 DEF n, middle

\* A close lies between the extremes of its window.
LEMMA WindowAroundClose ==
  ASSUME NEW cs \in Seq(Candle), NEW p \in Nat \ {0}, NEW i \in p..Len(cs)
  PROVE  /\ WindowExtremes(cs, i, p) \in [high : Rational, low : Rational]
         /\ Leq(WindowExtremes(cs, i, p).low, cs[i].close)
         /\ Leq(cs[i].close, WindowExtremes(cs, i, p).high)
<1> DEFINE w == WindowAt(cs, i, p)
<1>1. w \in Seq(Candle) /\ Len(w) = p /\ \A j \in 1..p : w[j] = cs[(i - p) + j]
  BY Window
<1>2. p \in 1..p /\ (i - p) + p = i
  BY ChartIs
<1>3. w[p] = cs[i]
  BY <1>1, <1>2
<1> HIDE DEF w
<1>4. /\ Extremes(w) \in [high : Rational, low : Rational]
      /\ \A j \in 1..Len(w) : Leq(Extremes(w).low, w[j].close) /\ Leq(w[j].close, Extremes(w).high)
  BY <1>1, ExtremesAre
<1>5. WindowExtremes(cs, i, p) = Extremes(w)
  BY DEF WindowExtremes, w
<1>6. Leq(Extremes(w).low, w[p].close) /\ Leq(w[p].close, Extremes(w).high)
  BY <1>1, <1>2, <1>4
<1>7. QED
  BY <1>3, <1>4, <1>5, <1>6

\* stochastic: %K is defined from the period on, %D from some position on,
\* both on the scale.
LEMMA StochasticFrom ==
  ASSUME NEW cs \in Seq(Candle), NEW p \in Nat \ {0}, NEW dp \in Nat \ {0}
  PROVE  LET s == Stochastic(cs, p, dp)
         IN  /\ From(s.k, Len(cs), p, Percent)
             /\ \E k \in Int : From(s.d, Len(cs), k, Percent)
             /\ \A i \in 1..Len(cs) : i >= p =>
                   s.k[i] = PercentK(cs[i].close, WindowExtremes(cs, i, p))
<1> DEFINE n == Len(cs)
           s == Stochastic(cs, p, dp)
           pk(i) == PercentK(cs[i].close, WindowExtremes(cs, i, p))
           k == [i \in 1..n |-> IF i < p THEN None ELSE pk(i)]
           d == AtTheEnd(n, Sma(Defined(k), dp))
<1>1. n \in Nat
  BY ChartIs
<1>2. s = [k |-> k, d |-> d]
  BY Zenon DEF Stochastic
<1>3. s.k = k /\ s.d = d
  BY <1>2
<1>4. ASSUME NEW i \in 1..n, i >= p PROVE pk(i) \in Percent
  <2> DEFINE c == cs[i].close
             e == WindowExtremes(cs, i, p)
  <2>1. i \in p..n
    BY <1>1, <1>4
  <2>2. c \in Rational
    BY ChartIs, CandleIs
  <2>3. e \in [high : Rational, low : Rational] /\ Leq(e.low, c) /\ Leq(c, e.high)
    BY <2>1, WindowAroundClose
  <2> HIDE DEF c, e
  <2>4. PercentK(c, e) \in Rational /\ Between(Zero, PercentK(c, e), Hundred)
    BY <2>2, <2>3, PercentKInRange
  <2>5. QED
    BY <2>4 DEF c, e, Percent
<1> HIDE DEF n, pk, s
<1>5. \A i \in 1..n : (i < p => k[i] = None) /\ (i >= p => k[i] = pk(i) /\ k[i] \in Percent)
  BY <1>1, <1>4
<1>6. \A i \in 1..n : k[i] \in Percent \cup {None}
  BY <1>1, <1>5
<1>7. k \in [1..n -> Percent \cup {None}]
  BY <1>6
<1> HIDE DEF k
<1>8. From(k, n, p, Percent)
  BY <1>5, <1>7 DEF From
<1>9. \E q \in Int : From(d, n, q, Percent)
  BY <1>1, <1>7, EndsWithDefined
<1> HIDE DEF d
<1>10. QED
  BY <1>3, <1>5, <1>8, <1>9 DEF n, s, pk

\* dx is on the scale, and undefined where atr is undefined or zero.
LEMMA DxIs ==
  ASSUME NEW cs \in Seq(Candle), NEW p \in Nat \ {0}
  PROVE  /\ Dx(cs, p) \in [1..Len(cs) -> Percent \cup {None}]
         /\ \A i \in 1..Len(cs) :
               Dx(cs, p)[i] = None <=> Atr(cs, p)[i] = None \/ Atr(cs, p)[i] = Zero
<1> DEFINE n == Len(cs)
           atr == Atr(cs, p)
           u == PlusDm(cs)
           w == MinusDm(cs)
           plus == WilderSmoothing(u, p)
           minus == WilderSmoothing(w, p)
           value(i) == DirectionalIndex(plus[i], minus[i], atr[i])
           dx == Dx(cs, p)
<1>1. n \in Nat
  BY ChartIs
<1>2. dx = [i \in 1..n |-> IF atr[i] = None \/ atr[i] = Zero THEN None ELSE value(i)]
  BY Zenon DEF Dx
<1>3. /\ \A i \in 1..n : i < p => atr[i] = None
      /\ \A i \in 1..n : i >= p => atr[i] \in Rational /\ Leq(Zero, atr[i])
  BY AtrIs
<1>4. ASSUME NEW i \in 1..n, atr[i] # None, atr[i] # Zero PROVE value(i) \in Percent
  <2>1. i >= p
    BY <1>1, <1>3, <1>4
  <2>2. atr[i] \in Rational /\ Less(Zero, atr[i])
    <3>1. atr[i] \in Rational /\ Leq(Zero, atr[i])
      BY <1>3, <2>1
    <3> DEFINE a == atr[i]
    <3> HIDE DEF a
    <3>2. a \in Rational /\ Leq(Zero, a) /\ a # Zero
      BY <1>4, <3>1 DEF a
    <3>3. Less(Zero, a)
      BY <3>2, ZeroIs, TotalOrder
    <3>4. QED
      BY <3>1, <3>3 DEF a
  <2>3. /\ u \in Seq(Rational) /\ Len(u) = n /\ w \in Seq(Rational) /\ Len(w) = n
        /\ \A j \in 1..n : Leq(Zero, u[j]) /\ Leq(Zero, w[j])
    BY DirectionalIs
  <2> HIDE DEF u, w, n
  <2>4. plus[i] \in Rational /\ minus[i] \in Rational
    BY <2>1, <2>3, WilderIs
  <2>5. Leq(Zero, plus[i])
    BY <2>1, <2>3, ZeroIs, WilderAbove
  <2>6. Leq(Zero, minus[i])
    BY <2>1, <2>3, ZeroIs, WilderAbove
  <2> HIDE DEF plus, minus, atr
  <2>7. value(i) \in Rational /\ Between(Zero, value(i), Hundred)
    BY <2>2, <2>4, <2>5, <2>6, DirectionalIndexInRange
  <2>8. QED
    BY <2>7 DEF Percent
<1> HIDE DEF n, value, atr, dx
<1>5. \A i \in 1..n : IF atr[i] = None \/ atr[i] = Zero THEN dx[i] = None ELSE dx[i] \in Percent
  BY <1>2, <1>4
<1>6. \A i \in 1..n : dx[i] \in Percent \cup {None}
  BY <1>5
<1>7. dx \in [1..n -> Percent \cup {None}]
  BY <1>2, <1>6
<1>8. \A i \in 1..n : dx[i] = None <=> atr[i] = None \/ atr[i] = Zero
  BY <1>5, PercentIs
<1>9. QED
  BY <1>7, <1>8 DEF n, atr, dx

\* adx is defined from some position on, on the scale.
LEMMA AdxFrom ==
  ASSUME NEW cs \in Seq(Candle), NEW p \in Nat \ {0}
  PROVE  \E k \in Int : From(Adx(cs, p), Len(cs), k, Percent)
<1> DEFINE n == Len(cs)
           dx == Dx(cs, p)
<1>1. n \in Nat /\ n + 1 \in Int
  BY ChartIs
<1>2. Adx(cs, p) = IF n < 2 * p - 1 THEN Nones(n)
                   ELSE AtTheEnd(n, WilderSmoothing(Defined(dx), p))
  BY DEF Adx
<1>3. dx \in [1..n -> Percent \cup {None}]
  BY DxIs
<1> HIDE DEF n, dx
<1>4. CASE n < 2 * p - 1
  <2>1. From(Nones(n), n, n + 1, Percent)
    BY <1>1 DEF From, Nones
  <2>2. QED
    BY <1>1, <1>2, <1>4, <2>1 DEF n
<1>5. CASE ~(n < 2 * p - 1)
  <2>1. \E k \in Int : From(AtTheEnd(n, WilderSmoothing(Defined(dx), p)), n, k, Percent)
    BY <1>1, <1>3, EndsWithDefined
  <2>2. QED
    BY <1>2, <1>5, <2>1 DEF n
<1>6. QED
  BY <1>4, <1>5

\* The volumes of a chart, and its typical prices weighted with them.
VolumesOf(cs) == [i \in DOMAIN cs |-> cs[i].volume]
TurnoverOf(cs) == [i \in DOMAIN cs |-> Typical(cs[i]) ** cs[i].volume]

\* The typical price lies between any bounds of the candle.
LEMMA TypicalIs ==
  ASSUME NEW c \in Candle
  PROVE  /\ Typical(c) \in Rational
         /\ \A l \in Rational : Leq(l, c.low) => Leq(l, Typical(c))
         /\ \A h \in Rational : Leq(c.high, h) => Leq(Typical(c), h)
<1> DEFINE a == c.high
           b == c.low
           x == c.close
           v == <<a, b, x>>
           three == 3
<1>1. /\ a \in Rational /\ b \in Rational /\ x \in Rational
      /\ Leq(b, x) /\ Leq(x, a) /\ Leq(b, a)
  BY CandleIs
<1>2. Typical(c) = (a ++ b ++ x) // Rat(3)
  BY DEF Typical
<1> HIDE DEF a, b, x
<1>3. v \in Seq(Rational) /\ Len(v) = 3 /\ v[1] = a /\ v[2] = b /\ v[3] = x
  BY <1>1
<1> HIDE DEF v
<1>4. SumOf(v) = a ++ b ++ x
  <2>1. /\ Sums(v)[0] = Zero
        /\ \A i \in 1..3 : Sums(v)[i] = Sums(v)[i - 1] ++ v[i]
    BY <1>3, SumsIs
  <2>2. Sums(v)[1] = Zero ++ a /\ Sums(v)[2] = Sums(v)[1] ++ b /\ Sums(v)[3] = Sums(v)[2] ++ x
    BY <1>3, <2>1
  <2>3. Zero ++ a = a
    BY <1>1, ZeroIs, Products
  <2>4. QED
    BY <1>3, <2>2, <2>3 DEF SumOf
<1>5. Typical(c) = Mean(v)
  BY <1>2, <1>3, <1>4 DEF Mean
<1>6. Len(v) \in Nat \ {0}
  BY <1>3
<1>7. Mean(v) \in Rational
  BY <1>3, <1>6, MeanIn
<1>8. ASSUME NEW l \in Rational, Leq(l, b) PROVE Leq(l, Mean(v))
  <2>1. Leq(l, x)
    BY <1>1, <1>8, LeqTransitive
  <2>2. Leq(l, a)
    BY <1>1, <1>8, LeqTransitive
  <2>3. \A i \in 1..Len(v) : Leq(l, v[i])
    BY <1>3, <1>8, <2>1, <2>2
  <2>4. QED
    BY <1>3, <1>6, <2>3, MeanAbove
<1>9. ASSUME NEW h \in Rational, Leq(a, h) PROVE Leq(Mean(v), h)
  <2>1. Leq(x, h)
    BY <1>1, <1>9, LeqTransitive
  <2>2. Leq(b, h)
    BY <1>1, <1>9, LeqTransitive
  <2>3. \A i \in 1..Len(v) : Leq(v[i], h)
    BY <1>3, <1>9, <2>1, <2>2
  <2>4. QED
    BY <1>3, <1>6, <2>3, MeanBelow
<1>10. QED
  BY <1>5, <1>7, <1>8, <1>9 DEF a, b

\* Volumes and turnover have one value per candle.
LEMMA TradesAre ==
  ASSUME NEW cs \in Seq(Candle)
  PROVE  /\ VolumesOf(cs) \in Seq(Rational) /\ Len(VolumesOf(cs)) = Len(cs)
         /\ TurnoverOf(cs) \in Seq(Rational) /\ Len(TurnoverOf(cs)) = Len(cs)
         /\ \A i \in 1..Len(cs) : /\ VolumesOf(cs)[i] = cs[i].volume
                                  /\ TurnoverOf(cs)[i] = Typical(cs[i]) ** cs[i].volume
<1> DEFINE n == Len(cs)
           v == VolumesOf(cs)
           t == TurnoverOf(cs)
<1>1. n \in Nat /\ DOMAIN cs = 1..n /\ \A i \in 1..n : cs[i] \in Candle
  BY ChartIs
<1>2. /\ v = [i \in 1..n |-> cs[i].volume]
      /\ t = [i \in 1..n |-> Typical(cs[i]) ** cs[i].volume]
  BY <1>1 DEF VolumesOf, TurnoverOf
<1>3. \A i \in 1..n : cs[i].volume \in Rational /\ Typical(cs[i]) \in Rational
  BY <1>1, CandleIs, TypicalIs
<1> HIDE DEF n, v, t
<1>4. \A i \in 1..n : Typical(cs[i]) ** cs[i].volume \in Rational
  BY <1>3, Closed
<1>5. v \in [1..n -> Rational] /\ t \in [1..n -> Rational]
  BY <1>2, <1>3, <1>4
<1>6. v \in Seq(Rational) /\ Len(v) = n
  BY <1>1, <1>5 DEF Seq
<1>7. t \in Seq(Rational) /\ Len(t) = n
  BY <1>1, <1>5 DEF Seq
<1>8. QED
  BY <1>2, <1>6, <1>7 DEF n, v, t

\* vwap with running sums.
LEMMA VwapIs ==
  ASSUME NEW cs \in Seq(Candle)
  PROVE  Vwap(cs) = [i \in 1..Len(cs) |-> IF Less(Zero, Sums(VolumesOf(cs))[i])
                                          THEN Sums(TurnoverOf(cs))[i] // Sums(VolumesOf(cs))[i]
                                          ELSE None]
<1> DEFINE n == Len(cs)
           v == VolumesOf(cs)
           t == TurnoverOf(cs)
           pv(i) == SumOf([j \in 1..i |-> Typical(cs[j]) ** cs[j].volume])
           volume(i) == SumOf([j \in 1..i |-> cs[j].volume])
<1>1. n \in Nat
  BY ChartIs
<1>2. /\ v \in Seq(Rational) /\ Len(v) = n /\ t \in Seq(Rational) /\ Len(t) = n
      /\ \A i \in 1..n : v[i] = cs[i].volume /\ t[i] = Typical(cs[i]) ** cs[i].volume
  BY TradesAre
<1>3. Vwap(cs) = [i \in 1..n |-> IF Less(Zero, volume(i)) THEN pv(i) // volume(i) ELSE None]
  BY Zenon DEF Vwap
<1> HIDE DEF n, v, t
<1>4. ASSUME NEW i \in 1..n PROVE volume(i) = Sums(v)[i] /\ pv(i) = Sums(t)[i]
  <2> DEFINE a == [j \in 1..i |-> cs[j].volume]
             b == [j \in 1..i |-> Typical(cs[j]) ** cs[j].volume]
  <2>1. \A j \in 1..i : j \in 1..n
    BY <1>1
  <2>2. a = [j \in 1..i |-> v[j]] /\ b = [j \in 1..i |-> t[j]]
    BY <1>2, <2>1
  <2> HIDE DEF a, b
  <2>3. SumOf(a) = Sums(v)[i]
    BY <1>2, <2>2, SumOfFirst
  <2>4. SumOf(b) = Sums(t)[i]
    BY <1>2, <2>2, SumOfFirst
  <2>5. QED
    BY <2>3, <2>4 DEF a, b
<1> HIDE DEF pv, volume
<1>5. QED
  BY <1>3, <1>4 DEF n, v, t

\* vwap is undefined in front only: a volume, once traded, stays.
LEMMA VwapFrom ==
  ASSUME NEW cs \in Seq(Candle)
  PROVE  /\ Len(Vwap(cs)) = Len(cs)
         /\ \A i \in 1..Len(cs) : Vwap(cs)[i] \in Rational \cup {None}
         /\ \A i \in 2..Len(cs) : Vwap(cs)[i] = None => Vwap(cs)[i - 1] = None
<1> DEFINE n == Len(cs)
           v == VolumesOf(cs)
           t == TurnoverOf(cs)
           sv == Sums(v)
           st == Sums(t)
           w == Vwap(cs)
<1>1. n \in Nat
  BY ChartIs
<1>2. /\ v \in Seq(Rational) /\ Len(v) = n /\ t \in Seq(Rational) /\ Len(t) = n
      /\ \A i \in 1..n : v[i] = cs[i].volume
  BY TradesAre
<1>3. w = [i \in 1..n |-> IF Less(Zero, sv[i]) THEN st[i] // sv[i] ELSE None]
  BY VwapIs
<1>4. \A i \in 1..n : Leq(Zero, cs[i].volume)
  BY ChartIs, CandleIs
<1> HIDE DEF n, v, t, w
<1>5. \A i \in 0..n : sv[i] \in Rational /\ st[i] \in Rational
  BY <1>2, SumsIs
<1>6. \A i \in 1..n : sv[i] = sv[i - 1] ++ v[i]
  BY <1>2, SumsIs
<1> HIDE DEF sv, st
<1>7. \A i \in 1..n : w[i] \in Rational \cup {None} /\ (Less(Zero, sv[i]) => w[i] # None)
  <2> SUFFICES ASSUME NEW i \in 1..n
               PROVE  w[i] \in Rational \cup {None} /\ (Less(Zero, sv[i]) => w[i] # None)
    OBVIOUS
  <2>1. sv[i] \in Rational /\ st[i] \in Rational
    BY <1>1, <1>5
  <2>2. w[i] = IF Less(Zero, sv[i]) THEN st[i] // sv[i] ELSE None
    BY <1>3
  <2>3. CASE Less(Zero, sv[i])
    <3>1. st[i] // sv[i] \in Rational
      BY <2>1, <2>3, Closed
    <3>2. QED
      BY <2>2, <2>3, <3>1, Parameters
  <2>4. CASE ~Less(Zero, sv[i])
    BY <2>2, <2>4
  <2>5. QED
    BY <2>3, <2>4
<1>8. w \in Seq(Rational \cup {None}) /\ Len(w) = n
  <2>1. w \in [1..n -> Rational \cup {None}]
    BY <1>3, <1>7
  <2>2. QED
    BY <1>1, <2>1 DEF Seq
<1>9. ASSUME NEW i \in 2..n, w[i] = None PROVE w[i - 1] = None
  <2>1. i \in 1..n /\ i - 1 \in 1..n /\ i - 1 \in 0..n
    BY <1>1
  <2> DEFINE x == sv[i - 1]
             y == v[i]
  <2>2. x \in Rational /\ y \in Rational /\ Leq(Zero, y) /\ sv[i] = x ++ y
    BY <1>2, <1>4, <1>5, <1>6, <2>1
  <2>3. ~Less(Zero, sv[i])
    BY <1>7, <1>9, <2>1
  <2> HIDE DEF x, y
  <2>4. ~Less(Zero, x)
    BY <2>2, <2>3, DifferenceBounds
  <2>5. QED
    BY <1>3, <2>1, <2>4 DEF x
<1>10. QED
  BY <1>7, <1>8, <1>9 DEF n, w

\* supertrend is defined from the period on.
LEMMA SuperTrendFrom ==
  ASSUME NEW cs \in Seq(Candle), NEW p \in Nat \ {0}, NEW m \in Nat
  PROVE  /\ From(SuperTrend(cs, p, m), Len(cs), p, Trend)
         /\ From([i \in DOMAIN cs |-> IF SuperTrend(cs, p, m)[i] = None THEN None
                                      ELSE SuperTrend(cs, p, m)[i].line], Len(cs), p, Rational)
<1> DEFINE t == SuperTrend(cs, p, m)
           n == Len(cs)
           line == [i \in DOMAIN cs |-> IF t[i] = None THEN None ELSE t[i].line]
<1>1. n \in Nat /\ DOMAIN cs = 1..n
  BY ChartIs
<1>2. From(t, n, p, Trend)
  BY SuperTrendIs DEF From
<1> HIDE DEF n, t
<1>3. ASSUME NEW i \in 1..n
      PROVE  (i < p => line[i] = None) /\ (i >= p => line[i] \in Rational)
  <2>1. CASE i < p
    <3>1. t[i] = None
      BY <1>2, <2>1 DEF From
    <3>2. QED
      BY <1>1, <2>1, <3>1
  <2>2. CASE i >= p
    <3>1. t[i] \in Trend /\ t[i] # None
      BY <1>2, <2>2, Parameters DEF From, Trend
    <3>2. t[i].line \in Rational
      BY <3>1 DEF Trend
    <3>3. QED
      BY <1>1, <2>2, <3>1, <3>2
  <2>3. QED
    BY <1>1, <2>1, <2>2
<1>4. \A i \in 1..n : line[i] \in Rational \cup {None}
  BY <1>1, <1>3
<1>5. line \in [1..n -> Rational \cup {None}]
  BY <1>1, <1>4
<1> HIDE DEF line
<1>6. From(line, n, p, Rational)
  BY <1>3, <1>5 DEF From
<1>7. QED
  BY <1>2, <1>6 DEF n, t, line

\* compute_indicator's dispatch.
LEMMA Dispatch ==
  ASSUME NEW cs
  PROVE  /\ ComputeIndicator("rsi", cs) = Rsi(ClosesOf(cs), Period)
         /\ ComputeIndicator("sma", cs) = Sma(ClosesOf(cs), Period)
         /\ ComputeIndicator("ema", cs) = Ema(ClosesOf(cs), Period)
         /\ ComputeIndicator("atr", cs) = Atr(cs, Period)
         /\ ComputeIndicator("vwap", cs) = Vwap(cs)
         /\ ComputeIndicator("adx", cs) = Adx(cs, Period)
         /\ ComputeIndicator("macd", cs) = Macd(ClosesOf(cs), Fast, Slow, Signal).line
         /\ ComputeIndicator("bollinger", cs) = BollingerBands(ClosesOf(cs), Period).middle
         /\ ComputeIndicator("stochastic", cs) = Stochastic(cs, Period, DPeriod).k
         /\ ComputeIndicator("supertrend", cs) =
               [i \in DOMAIN cs |-> IF SuperTrend(cs, Period, Multiplier)[i] = None THEN None
                                    ELSE SuperTrend(cs, Period, Multiplier)[i].line]
BY DEF ComputeIndicator

\* What NoneOnlyLeads says of one line.
Leads(line) ==
  /\ Len(line) = Len(candles)
  /\ \A i \in 2..Len(line) : line[i] = None => line[i - 1] = None

\* Every line of every chart is aligned with its candles.
LEMMA LinesLead == ChartType => NoneOnlyLeads
<1> SUFFICES ASSUME ChartType PROVE \A line \in AllLines : Leads(line)
  BY DEF NoneOnlyLeads, Leads
<1> DEFINE n == Len(candles)
           v == Closes
           p == Period
<1>1. candles \in Seq(Candle) /\ n \in Nat /\ v = ClosesOf(candles)
  BY ChartIs DEF ChartType, Closes
<1>2. v \in Seq(Rational) /\ Len(v) = n
  BY <1>1, ClosesIs
<1>3. p \in Nat \ {0} /\ p + 1 \in Int /\ None \notin Rational /\ None \notin Percent /\ None \notin Trend
  BY Parameters, PercentIs DEF Trend
<1> HIDE DEF v, p
<1>4. ASSUME NEW line, NEW k \in Int, NEW V, None \notin V, From(line, n, k, V) PROVE Leads(line)
  BY <1>1, <1>4, FromLeads DEF Leads
<1>5. Leads(ComputeIndicator("rsi", candles))
  <2>1. From(Rsi(v, p), n, p + 1, Percent)
    BY <1>2, <1>3, RsiFromPeriod
  <2>2. QED
    BY <1>1, <1>3, <1>4, <2>1, Dispatch DEF p
<1>6. Leads(ComputeIndicator("sma", candles)) /\ Leads(ComputeIndicator("ema", candles))
  <2>1. From(Sma(v, p), n, p, Rational) /\ From(Ema(v, p), n, p, Rational)
    BY <1>2, <1>3, AveragesFrom
  <2>2. Leads(Sma(v, p))
    BY <1>3, <1>4, <2>1
  <2>3. Leads(Ema(v, p))
    BY <1>3, <1>4, <2>1
  <2>4. QED
    BY <1>1, <2>2, <2>3, Dispatch DEF p
<1>7. Leads(ComputeIndicator("atr", candles))
  <2>1. From(Atr(candles, p), n, p, Rational)
    BY <1>1, <1>3, AtrIs DEF From
  <2>2. Leads(Atr(candles, p))
    BY <1>3, <1>4, <2>1
  <2>3. QED
    BY <2>2, Dispatch DEF p
<1>8. Leads(ComputeIndicator("vwap", candles))
  BY <1>1, VwapFrom, Dispatch DEF Leads
<1>9. Leads(ComputeIndicator("adx", candles))
  <2>1. PICK k \in Int : From(Adx(candles, p), n, k, Percent)
    BY <1>1, <1>3, AdxFrom
  <2>2. Leads(Adx(candles, p))
    BY <1>3, <1>4, <2>1
  <2>3. QED
    BY <2>2, Dispatch DEF p
<1>10. /\ Leads(ComputeIndicator("macd", candles))
       /\ Leads(Macd(v, Fast, Slow, Signal).signal) /\ Leads(Macd(v, Fast, Slow, Signal).hist)
  <2> DEFINE macd == Macd(v, Fast, Slow, Signal)
  <2>1. /\ From(macd.line, n, Slow, Rational)
        /\ \E k \in Int : From(macd.signal, n, k, Rational)
        /\ \E k \in Int : From(macd.hist, n, k, Rational)
    BY <1>2, MacdFrom, Parameters
  <2>2. ComputeIndicator("macd", candles) = macd.line
    BY <1>1, Dispatch
  <2> HIDE DEF macd
  <2>3. Leads(macd.line)
    BY <1>3, <1>4, <2>1, Parameters
  <2>4. Leads(macd.signal)
    BY <1>3, <1>4, <2>1
  <2>5. Leads(macd.hist)
    BY <1>3, <1>4, <2>1
  <2>6. QED
    BY <2>2, <2>3, <2>4, <2>5 DEF macd
<1>11. /\ Leads(ComputeIndicator("bollinger", candles))
       /\ Leads(BollingerBands(v, p).variance)
  <2>1. /\ BollingerBands(v, p).middle = Sma(v, p)
        /\ From(BollingerBands(v, p).variance, n, p, Rational)
    BY <1>2, <1>3, BollingerFrom
  <2>2. ComputeIndicator("bollinger", candles) = ComputeIndicator("sma", candles)
    BY <1>1, <2>1, Dispatch DEF p
  <2>3. QED
    BY <1>3, <1>4, <1>6, <2>1, <2>2
<1>12. /\ Leads(ComputeIndicator("stochastic", candles))
       /\ Leads(Stochastic(candles, p, DPeriod).d)
  <2> DEFINE s == Stochastic(candles, p, DPeriod)
  <2>1. From(s.k, n, p, Percent) /\ \E k \in Int : From(s.d, n, k, Percent)
    BY <1>1, <1>3, StochasticFrom, Parameters
  <2>2. ComputeIndicator("stochastic", candles) = s.k
    BY Dispatch DEF p
  <2> HIDE DEF s
  <2>3. Leads(s.k)
    BY <1>3, <1>4, <2>1
  <2>4. Leads(s.d)
    BY <1>3, <1>4, <2>1
  <2>5. QED
    BY <2>2, <2>3, <2>4 DEF s
<1>13. /\ Leads(ComputeIndicator("supertrend", candles))
       /\ Leads(SuperTrend(candles, p, Multiplier))
  <2> DEFINE t == SuperTrend(candles, p, Multiplier)
             line == [i \in DOMAIN candles |-> IF t[i] = None THEN None ELSE t[i].line]
  <2>1. From(t, n, p, Trend) /\ From(line, n, p, Rational)
    BY <1>1, <1>3, SuperTrendFrom, Parameters
  <2>2. ComputeIndicator("supertrend", candles) = line
    BY Dispatch DEF p
  <2> HIDE DEF t, line
  <2>3. Leads(t)
    BY <1>3, <1>4, <2>1
  <2>4. Leads(line)
    BY <1>3, <1>4, <2>1
  <2>5. QED
    BY <2>2, <2>3, <2>4 DEF t
<1> HIDE DEF Leads
<1>14. ASSUME NEW name \in SupportedIndicators PROVE Leads(ComputeIndicator(name, candles))
  BY <1>5, <1>6, <1>7, <1>8, <1>9, <1>10, <1>11, <1>12, <1>13 DEF SupportedIndicators
<1>15. QED
  BY <1>10, <1>11, <1>12, <1>13, <1>14, Zenon DEF AllLines, p, v

(***************************************************************************)
(* Every line compute_indicator returns has one entry per candle, and None *)
(* stands in front of the first value only, whatever was traded: the       *)
(* offsets by which macd, stochastic and adx realign their smoothed lines  *)
(* never leave a hole.                                                     *)
(***************************************************************************)
THEOREM LinesAligned == Spec => []NoneOnlyLeads
BY LinesLead, ChartInvariant, PTL

(***************************************************************************)
(* rsi, adx and both stochastic lines lie between 0 and 100 wherever they  *)
(* are defined, on every chart with positive prices.                       *)
(***************************************************************************)
THEOREM OscillatorsOnScale == Spec => []OscillatorsInRange
<1>1. ChartType => OscillatorsInRange
  <2> DEFINE n == Len(candles)
             p == Period
             InRange(line) == \A i \in DOMAIN line : line[i] # None => Between(Zero, line[i], Hundred)
  <2> SUFFICES ASSUME ChartType
               PROVE  /\ InRange(Rsi(Closes, p)) /\ InRange(Adx(candles, p))
                      /\ InRange(Stochastic(candles, p, DPeriod).k)
                      /\ InRange(Stochastic(candles, p, DPeriod).d)
    BY DEF OscillatorsInRange
  <2>1. candles \in Seq(Candle) /\ Closes \in Seq(Rational) /\ Len(Closes) = n /\ p \in Nat \ {0}
    BY ClosesIs, Parameters DEF ChartType, Closes
  <2> HIDE DEF n, p
  <2>2. ASSUME NEW line, NEW k, From(line, n, k, Percent) PROVE InRange(line)
    BY <2>2 DEF From, Percent
  <2> HIDE DEF InRange
  <2>3. InRange(Rsi(Closes, p))
    BY <2>1, <2>2, RsiFromPeriod
  <2>4. InRange(Adx(candles, p))
    BY <2>1, <2>2, AdxFrom DEF n
  <2> DEFINE s == Stochastic(candles, p, DPeriod)
  <2>5. From(s.k, n, p, Percent) /\ \E k \in Int : From(s.d, n, k, Percent)
    BY <2>1, StochasticFrom, Parameters DEF n
  <2> HIDE DEF s
  <2>6. InRange(s.k) /\ InRange(s.d)
    BY <2>2, <2>5
  <2>7. QED
    BY <2>3, <2>4, <2>6 DEF s
<1>2. QED
  BY <1>1, ChartInvariant, PTL

-----------------------------------------------------------------------------
(***************************************************************************)
(* The averages.                                                           *)
(***************************************************************************)

\* vwap lies between the extremes of what was traded.
LEMMA VwapBetween ==
  ASSUME NEW cs \in Seq(Candle), NEW l \in Rational, NEW h \in Rational, Len(cs) \in Nat \ {0},
         \A i \in 1..Len(cs) : Leq(l, cs[i].low) /\ Leq(cs[i].high, h),
         Vwap(cs)[Len(cs)] # None
  PROVE  Between(l, Vwap(cs)[Len(cs)], h)
<1> DEFINE n == Len(cs)
           v == VolumesOf(cs)
           t == TurnoverOf(cs)
           x == Sums(t)[n]
           y == Sums(v)[n]
<1>1. n \in Nat \ {0} /\ n \in 1..n /\ n \in 0..n /\ \A i \in 1..n : cs[i] \in Candle
  BY ChartIs
<1>2. /\ v \in Seq(Rational) /\ Len(v) = n /\ t \in Seq(Rational) /\ Len(t) = n
      /\ \A i \in 1..n : v[i] = cs[i].volume /\ t[i] = Typical(cs[i]) ** cs[i].volume
  BY TradesAre
<1>3. Vwap(cs)[n] = IF Less(Zero, y) THEN x // y ELSE None
  BY <1>1, VwapIs
<1> HIDE DEF v, t
<1>4. ASSUME NEW i \in 1..n PROVE Leq(l ** v[i], t[i]) /\ Leq(t[i], h ** v[i])
  <2> DEFINE q == cs[i].volume
             m == Typical(cs[i])
  <2>1. q \in Rational /\ Leq(Zero, q) /\ m \in Rational /\ Leq(l, m) /\ Leq(m, h)
    BY <1>1, CandleIs, TypicalIs
  <2>2. v[i] = q /\ t[i] = m ** q
    BY <1>2
  <2> HIDE DEF q, m
  <2>3. l ** q = q ** l /\ m ** q = q ** m /\ h ** q = q ** h
    BY <2>1, Products
  <2>4. Leq(q ** l, q ** m)
    BY <2>1, MulMonotone
  <2>5. Leq(q ** m, q ** h)
    BY <2>1, MulMonotone
  <2>6. QED
    BY <2>2, <2>3, <2>4, <2>5
<1>5. x \in Rational /\ y \in Rational
  BY <1>1, <1>2, SumsIs
<1>6. Leq(l ** y, x)
  BY <1>1, <1>2, <1>4, WeightedSums
<1>7. Leq(x, h ** y)
  BY <1>1, <1>2, <1>4, WeightedSums
<1>8. Less(Zero, y) /\ Vwap(cs)[n] = x // y
  BY <1>3
<1> HIDE DEF x, y
<1>9. Leq(l, x // y)
  BY <1>5, <1>6, <1>8, QuotientBounds
<1>10. Leq(x // y, h)
  BY <1>5, <1>7, <1>8, QuotientBounds
<1>11. QED
  BY <1>8, <1>9, <1>10 DEF Between, n

\* detect_trend's spread exceeds its threshold only if the short average
\* exceeds the long one.
LEMMA SpreadIsPositive ==
  ASSUME NEW s \in Rational, NEW l \in Rational, Leq(Zero, l),
         Less(Frac(1, 1000), IF l = Zero THEN Zero ELSE (s -- l) // l)
  PROVE  Less(l, s)
<1> DEFINE q == (s -- l) // l
           e == Frac(1, 1000)
           x == s -- l
<1>1. e \in Rational /\ Less(Zero, e)
  <2> DEFINE one == 1
             d == 1000
  <2>1. one \in Int /\ d \in Nat \ {0} /\ one > 0
    OBVIOUS
  <2>2. e = Frac(one, d)
    OBVIOUS
  <2> HIDE DEF one, d, e
  <2>3. QED
    BY <2>1, <2>2, FracIn, SignOf
<1> HIDE DEF e
<1>2. Less(e, IF l = Zero THEN Zero ELSE q)
  BY DEF e
<1>3. l # Zero
  BY <1>1, <1>2, ZeroIs, TotalOrder
<1>4. Less(Zero, l)
  BY <1>3, ZeroIs, TotalOrder
<1>5. x \in Rational
  BY Closed
<1> HIDE DEF x
<1>6. x // l \in Rational /\ q = x // l
  BY <1>4, <1>5, Closed DEF x
<1>7. Less(e, x // l)
  BY <1>2, <1>3, <1>6
<1>8. Less(Zero, x // l)
  <2> DEFINE r == x // l
  <2>1. r \in Rational /\ Less(e, r)
    BY <1>6, <1>7
  <2> HIDE DEF r
  <2>2. SUFFICES ASSUME Leq(r, Zero) PROVE FALSE
    BY <2>1, ZeroIs, TotalOrder DEF r
  <2>3. Leq(r, e)
    BY <1>1, <2>1, <2>2, ZeroIs, LeqTransitive, TotalOrder
  <2>4. QED
    BY <1>1, <2>1, <2>3, TotalOrder
<1>9. Less(Zero ** l, x)
  BY <1>4, <1>5, <1>8, ZeroIs, QuotientBounds
<1>10. Zero ** l = Zero
  BY ZeroIs, Products
<1>11. Less(Zero, s -- l)
  BY <1>9, <1>10 DEF x
<1>12. QED
  BY <1>11, AbsOfDifference

\* ... and falls below the opposite one only if it is less.
LEMMA SpreadIsNegative ==
  ASSUME NEW s \in Rational, NEW l \in Rational, Leq(Zero, l),
         Less(IF l = Zero THEN Zero ELSE (s -- l) // l, Frac(-1, 1000))
  PROVE  Less(s, l)
<1> DEFINE q == (s -- l) // l
           e == Frac(-1, 1000)
           x == s -- l
<1>1. e \in Rational /\ Less(e, Zero)
  <2> DEFINE one == -1
             d == 1000
  <2>1. one \in Int /\ d \in Nat \ {0} /\ one < 0
    OBVIOUS
  <2>2. e = Frac(one, d)
    OBVIOUS
  <2> HIDE DEF one, d, e
  <2>3. QED
    BY <2>1, <2>2, FracIn, SignOf
<1> HIDE DEF e
<1>2. Less(IF l = Zero THEN Zero ELSE q, e)
  BY DEF e
<1>3. l # Zero
  BY <1>1, <1>2, ZeroIs, TotalOrder
<1>4. Less(Zero, l)
  BY <1>3, ZeroIs, TotalOrder
<1>5. x \in Rational
  BY Closed
<1> HIDE DEF x
<1>6. x // l \in Rational /\ q = x // l
  BY <1>4, <1>5, Closed DEF x
<1>7. Less(x // l, e)
  BY <1>2, <1>3, <1>6
<1>8. ~Leq(Zero, x // l)
  <2> DEFINE r == x // l
  <2>1. r \in Rational /\ Less(r, e)
    BY <1>6, <1>7
  <2> HIDE DEF r
  <2>2. SUFFICES ASSUME Leq(Zero, r) PROVE FALSE
    BY DEF r
  <2>3. Leq(e, r)
    BY <1>1, <2>1, <2>2, ZeroIs, LeqTransitive, TotalOrder
  <2>4. QED
    BY <1>1, <2>1, <2>3, TotalOrder
<1>9. ~Leq(Zero ** l, x)
  BY <1>4, <1>5, <1>8, ZeroIs, QuotientBounds
<1>10. Zero ** l = Zero
  BY ZeroIs, Products
<1>11. Less(x, Zero)
  BY <1>5, <1>9, <1>10, ZeroIs, TotalOrder
<1>12. QED
  BY <1>11, AbsOfDifference DEF x

(***************************************************************************)
(* sma's running sum is the mean of its window however long the chart, ema *)
(* and vwap lie between the extremes of the prices they average, and       *)
(* detect_trend says up (down) only when the short average is above        *)
(* (below) the long one, whichever of the two periods is the longer        *)
(* (indicators.py).                                                        *)
(***************************************************************************)
THEOREM AveragesAreAverages == Spec => []AveragesAverage
<1>1. ChartType => AveragesAverage
  <2> SUFFICES ASSUME ChartType PROVE AveragesAverage
    OBVIOUS
  <2> DEFINE n == Len(candles)
             v == Closes
             e == Extremes(candles)
             mean(i, p) == Mean(WindowAt(v, i, p))
  <2>1. /\ candles \in Seq(Candle) /\ n \in Nat /\ v \in Seq(Rational) /\ Len(v) = n
        /\ \A i \in 1..n : v[i] = candles[i].close
    BY ChartIs, ClosesIs DEF ChartType, Closes
  <2>2. \A i \in Period..n : Sma(v, Period)[i] = mean(i, Period)
    <3> HIDE DEF v
    <3>1. QED
      BY <2>1, SmaMean, Parameters
  <2>3. ASSUME n > 0, Ema(v, Period)[n] # None PROVE Between(e.low, Ema(v, Period)[n], e.high)
    <3> DEFINE p == Period
               l == e.low
               h == e.high
    <3>1. p \in Nat \ {0} /\ n \in 1..n /\ Len(candles) \in Nat \ {0}
      BY <2>1, <2>3, Parameters
    <3>2. /\ l \in Rational /\ h \in Rational
          /\ \A i \in 1..n : Leq(l, candles[i].close) /\ Leq(candles[i].close, h)
      BY <2>1, <3>1, ExtremesAre
    <3> HIDE DEF v, n, p, l, h
    <3>3. \A i \in 1..Len(v) : Leq(l, v[i]) /\ Leq(v[i], h)
      BY <2>1, <3>2
    <3>4. n >= p
      BY <2>1, <2>3, <3>1, EmaIs DEF p
    <3>5. Leq(l, Ema(v, p)[n])
      BY <2>1, <3>1, <3>2, <3>3, <3>4, EmaAbove
    <3>6. Leq(Ema(v, p)[n], h)
      BY <2>1, <3>1, <3>2, <3>3, <3>4, EmaBelow
    <3>7. QED
      BY <3>5, <3>6 DEF Between, l, h, p
  <2>4. ASSUME n > 0, Vwap(candles)[n] # None PROVE Between(e.low, Vwap(candles)[n], e.high)
    <3> DEFINE l == e.low
               h == e.high
    <3>1. Len(candles) \in Nat \ {0}
      BY <2>1, <2>4
    <3>2. /\ l \in Rational /\ h \in Rational
          /\ \A i \in 1..n : Leq(l, candles[i].low) /\ Leq(candles[i].high, h)
      BY <2>1, <3>1, ExtremesAre
    <3> HIDE DEF l, h
    <3>3. QED
      BY <2>1, <2>4, <3>1, <3>2, VwapBetween DEF l, h
  <2>5. ASSUME DetectTrend(v, Short, Long) \in {"up", "down"}
        PROVE  /\ DetectTrend(v, Short, Long) = "up" => Less(mean(n, Long), mean(n, Short))
               /\ DetectTrend(v, Short, Long) = "down" => Less(mean(n, Short), mean(n, Long))
    <3> DEFINE a == Short
               b == Long
               s == Last(Sma(v, a))
               l == Last(Sma(v, b))
               spread == IF l = Zero THEN Zero ELSE (s -- l) // l
    <3>1. /\ ~(Len(v) < b) /\ s # None
          /\ DetectTrend(v, a, b) = IF Less(Frac(1, 1000), spread) THEN "up"
                                    ELSE IF Less(spread, Frac(-1, 1000)) THEN "down" ELSE "sideways"
      <4> HIDE DEF v, a, b
      <4>1. ~(Len(v) < b \/ s = None \/ l = None)
        <5>1. SUFFICES ASSUME Len(v) < b \/ s = None \/ l = None PROVE FALSE
          OBVIOUS
        <5>2. DetectTrend(v, a, b) = "unknown"
          BY <5>1, Zenon DEF DetectTrend
        <5>3. QED
          BY <2>5, <5>2 DEF a, b
      <4>2. DetectTrend(v, a, b) = IF Less(Frac(1, 1000), spread) THEN "up"
                                   ELSE IF Less(spread, Frac(-1, 1000)) THEN "down" ELSE "sideways"
        BY <4>1, Zenon DEF DetectTrend
      <4>3. QED
        BY <4>1, <4>2
    <3>2. a \in Nat \ {0} /\ b \in Nat \ {0} /\ n \in 1..n /\ n \in b..n
      BY <2>1, <3>1, Parameters
    <3>3. /\ DetectTrend(v, a, b) = "up" => Less(Frac(1, 1000), spread)
          /\ DetectTrend(v, a, b) = "down" => Less(spread, Frac(-1, 1000))
      <4> DEFINE up == Less(Frac(1, 1000), spread)
                 down == Less(spread, Frac(-1, 1000))
      <4>1. DetectTrend(v, a, b) = IF up THEN "up" ELSE IF down THEN "down" ELSE "sideways"
        BY <3>1
      <4> HIDE DEF v, a, b, up, down
      <4>2. /\ DetectTrend(v, a, b) = "up" => up
            /\ DetectTrend(v, a, b) = "down" => down
        BY <4>1
      <4>3. QED
        BY <4>2 DEF up, down
    <3> HIDE DEF v, n, a, b
    <3>5. From(Sma(v, a), n, a, Rational) /\ From(Sma(v, b), n, b, Rational)
      BY <2>1, <3>2, AveragesFrom
    <3>6. Len(Sma(v, a)) = n /\ Len(Sma(v, b)) = n
      BY <2>1, <3>2, <3>5, FromLeads, Parameters
    <3>7. s = Sma(v, a)[n] /\ l = Sma(v, b)[n]
      BY <3>6 DEF Last
    <3>4. n \in a..n
      <4>1. ~(n < a)
        BY <3>1, <3>2, <3>5, <3>7 DEF From
      <4>2. QED
        BY <2>1, <3>2, <4>1
    <3>8. s = mean(n, a) /\ l = mean(n, b)
      BY <2>1, <3>2, <3>4, <3>7, SmaMean
    <3>9. s \in Rational /\ l \in Rational
      BY <2>1, <3>2, <3>4, <3>5, <3>7 DEF From
    <3>10. Leq(Zero, l)
      <4> DEFINE w == WindowAt(v, n, b)
      <4>1. w \in Seq(Rational) /\ Len(w) = b /\ \A j \in 1..b : w[j] = v[(n - b) + j]
        BY <2>1, <3>2, SmaMean
      <4>2. \A j \in 1..b : (n - b) + j \in 1..n
        BY <2>1, <3>2
      <4>3. \A i \in 1..n : candles[i] \in Candle
        BY <2>1, ChartIs DEF n
      <4>4. \A i \in 1..n : Leq(Zero, v[i])
        BY <2>1, <4>3, CandleIs, ZeroIs, TotalOrder
      <4> HIDE DEF w
      <4>5. \A j \in 1..Len(w) : Leq(Zero, w[j])
        BY <4>1, <4>2, <4>4
      <4>6. Leq(Zero, Mean(w))
        BY <3>2, <4>1, <4>5, ZeroIs, MeanAbove
      <4>7. QED
        BY <3>8, <4>6 DEF w
    <3> HIDE DEF s, l
    <3>11. Less(Frac(1, 1000), spread) => Less(l, s)
      BY <3>9, <3>10, SpreadIsPositive
    <3>12. Less(spread, Frac(-1, 1000)) => Less(s, l)
      BY <3>9, <3>10, SpreadIsNegative
    <3> HIDE DEF spread
    <3>13. /\ DetectTrend(v, a, b) = "up" => Less(mean(n, b), mean(n, a))
           /\ DetectTrend(v, a, b) = "down" => Less(mean(n, a), mean(n, b))
      <4> DEFINE x == mean(n, a)
                 y == mean(n, b)
      <4>1. s = x /\ l = y
        BY <3>8
      <4> HIDE DEF x, y
      <4>2. (Less(l, s) => Less(y, x)) /\ (Less(s, l) => Less(x, y))
        BY <4>1
      <4>3. /\ DetectTrend(v, a, b) = "up" => Less(y, x)
            /\ DetectTrend(v, a, b) = "down" => Less(x, y)
        BY <3>3, <3>11, <3>12, <4>2
      <4>4. QED
        BY <4>3 DEF x, y
    <3>14. QED
      BY <3>13, Zenon DEF a, b
  <2>6. /\ DetectTrend(v, Short, Long) = "up" => Less(mean(n, Long), mean(n, Short))
        /\ DetectTrend(v, Short, Long) = "down" => Less(mean(n, Short), mean(n, Long))
    BY <2>5, Zenon
  <2>7. QED
    BY <2>2, <2>3, <2>4, <2>6, Zenon DEF AveragesAverage
<1>2. QED
  BY <1>1, ChartInvariant, PTL

-----------------------------------------------------------------------------
(***************************************************************************)
(* Nothing repaints.                                                       *)
(***************************************************************************)

\* A line whose Nones are all in front has a position where they end.
LEMMA Threshold ==
  ASSUME NEW n \in Nat, NEW s, \A i \in 2..n : s[i] = None => s[i - 1] = None
  PROVE  \E z \in 0..n : \A i \in 1..n : s[i] = None <=> i <= z
<1> DEFINE o == 0
           Good(z, m) == \A i \in 1..m : s[i] = None <=> i <= z
           S == {m \in o..n : \E z \in 0..m : Good(z, m)}
<1>1. o <= n => o \in S
  BY DEF Good
<1>2. ASSUME NEW m \in o..n, o < m, m - 1 \in S PROVE m \in S
  <2>1. PICK z \in 0..(m - 1) : Good(z, m - 1)
    BY <1>2
  <2>2. CASE s[m] # None
    <3>1. Good(z, m)
      <4>1. ASSUME NEW i \in 1..m PROVE s[i] = None <=> i <= z
        <5>1. CASE i = m
          BY <2>2, <5>1
        <5>2. CASE i # m
          <6>1. i \in 1..(m - 1)
            BY <5>2
          <6>2. QED
            BY <2>1, <6>1
        <5>3. QED
          BY <5>1, <5>2
      <4>2. QED
        BY <4>1
    <3>2. z \in 0..m
      OBVIOUS
    <3> HIDE DEF Good
    <3>3. QED
      BY <3>1, <3>2
  <2>3. CASE s[m] = None
    <3>1. z = m - 1
      <4>1. CASE m = 1
        BY <4>1
      <4>2. CASE m # 1
        <5>1. m \in 2..n /\ m - 1 \in 1..(m - 1)
          BY <1>2, <4>2
        <5>2. s[m - 1] = None
          BY <2>3, <5>1
        <5>3. QED
          BY <2>1, <5>1, <5>2
      <4>3. QED
        BY <4>1, <4>2
    <3>2. Good(m, m)
      <4>1. ASSUME NEW i \in 1..m PROVE s[i] = None
        <5>1. CASE i = m
          BY <2>3, <5>1
        <5>2. CASE i # m
          <6>1. i \in 1..(m - 1) /\ i <= z
            BY <3>1, <5>2
          <6>2. QED
            BY <2>1, <6>1
        <5>3. QED
          BY <5>1, <5>2
      <4>2. QED
        BY <4>1
    <3>3. m \in 0..m
      BY <1>2
    <3> HIDE DEF Good
    <3>4. QED
      BY <3>2, <3>3
  <2>4. QED
    BY <2>2, <2>3
<1>3. o \in Int /\ n \in Int /\ n \in o..n
  OBVIOUS
<1>4. \A m \in o..n : m \in S
  <2> HIDE DEF S, o
  <2>1. QED
    BY <1>1, <1>2, <1>3, StepInduction, Zenon
<1>5. QED
  BY <1>3, <1>4

\* A new candle leaves the earlier values of atr alone, ...
LEMMA AtrStable ==
  ASSUME NEW bs \in Seq(Candle), NEW cs \in Seq(Candle), Extends(cs, bs), NEW p \in Nat \ {0}
  PROVE  \A i \in 1..Len(bs) : Atr(cs, p)[i] = Atr(bs, p)[i]
<1> DEFINE u == TrueRange(bs)
           v == TrueRange(cs)
<1>1. u \in Seq(Rational) /\ v \in Seq(Rational) /\ Len(u) = Len(bs) /\ Extends(v, u)
  BY TrueRangeIs, TrueRangeStable
<1>2. Atr(cs, p) = WilderSmoothing(v, p) /\ Atr(bs, p) = WilderSmoothing(u, p)
  BY DEF Atr
<1> HIDE DEF u, v
<1>3. QED
  BY <1>1, <1>2, WilderStable

\* ... those of dx, ...
LEMMA DxStable ==
  ASSUME NEW bs \in Seq(Candle), NEW cs \in Seq(Candle), Extends(cs, bs), NEW p \in Nat \ {0}
  PROVE  \A i \in 1..Len(bs) : Dx(cs, p)[i] = Dx(bs, p)[i]
<1> DEFINE value(xs, i) == IF Atr(xs, p)[i] = None \/ Atr(xs, p)[i] = Zero THEN None
                           ELSE DirectionalIndex(WilderSmoothing(PlusDm(xs), p)[i],
                                                 WilderSmoothing(MinusDm(xs), p)[i],
                                                 Atr(xs, p)[i])
<1>1. /\ Dx(cs, p) = [i \in 1..Len(cs) |-> value(cs, i)]
      /\ Dx(bs, p) = [i \in 1..Len(bs) |-> value(bs, i)]
  BY Zenon DEF Dx
<1>2. \A i \in 1..Len(bs) : i \in 1..Len(cs)
  BY ChartIs DEF Extends
<1>3. \A i \in 1..Len(bs) : Atr(cs, p)[i] = Atr(bs, p)[i]
  BY AtrStable
<1>4. /\ PlusDm(bs) \in Seq(Rational) /\ PlusDm(cs) \in Seq(Rational) /\ Len(PlusDm(bs)) = Len(bs)
      /\ MinusDm(bs) \in Seq(Rational) /\ MinusDm(cs) \in Seq(Rational) /\ Len(MinusDm(bs)) = Len(bs)
      /\ Extends(PlusDm(cs), PlusDm(bs)) /\ Extends(MinusDm(cs), MinusDm(bs))
  BY DirectionalIs, DirectionalStable
<1>5. \A i \in 1..Len(bs) : WilderSmoothing(PlusDm(cs), p)[i] = WilderSmoothing(PlusDm(bs), p)[i]
  BY <1>4, WilderStable
<1>6. \A i \in 1..Len(bs) : WilderSmoothing(MinusDm(cs), p)[i] = WilderSmoothing(MinusDm(bs), p)[i]
  BY <1>4, WilderStable
<1>7. \A i \in 1..Len(bs) : value(cs, i) = value(bs, i)
  BY <1>3, <1>5, <1>6, Zenon
<1> HIDE DEF value
<1>8. QED
  BY <1>1, <1>2, <1>7

\* Once the range has been positive it stays so, if the period is not 1.
LEMMA DxKeepsDefined ==
  ASSUME NEW cs \in Seq(Candle), NEW p \in Nat \ {0}, p > 1,
         NEW i \in 2..Len(cs), Dx(cs, p)[i] = None
  PROVE  Dx(cs, p)[i - 1] = None
<1> DEFINE n == Len(cs)
           v == TrueRange(cs)
           a == Atr(cs, p)
           x == a[i - 1]
           y == v[i]
<1>1. n \in Nat /\ i \in 1..n /\ i - 1 \in 1..n
  BY ChartIs
<1>2. /\ v \in Seq(Rational) /\ Len(v) = n /\ y \in Rational /\ Leq(Zero, y)
  BY <1>1, TrueRangeIs, SeqIs
<1>3. /\ \A j \in 1..n : j < p => a[j] = None
      /\ \A j \in 1..n : j >= p => a[j] \in Rational /\ Leq(Zero, a[j])
  BY AtrIs
<1>4. \A j \in 1..n : Dx(cs, p)[j] = None <=> a[j] = None \/ a[j] = Zero
  BY DxIs
<1>5. \A j \in 1..n : j > p => a[j] = ((a[j - 1] ** Rat(p - 1)) ++ v[j]) // Rat(p)
  <2>1. a = WilderSmoothing(v, p)
    BY DEF Atr
  <2> HIDE DEF a, v, n
  <2>2. QED
    BY <1>2, <2>1, WilderIs
<1> HIDE DEF n, a, v
<1>6. SUFFICES ASSUME x # None, x # Zero PROVE FALSE
  BY <1>1, <1>4
<1>7. i - 1 >= p
  BY <1>1, <1>3, <1>6
<1>8. x \in Rational /\ Leq(Zero, x)
  BY <1>1, <1>3, <1>7
<1>9. a[i] = ((x ** Rat(p - 1)) ++ y) // Rat(p)
  BY <1>1, <1>5, <1>7
<1>10. a[i] \in Rational
  BY <1>1, <1>3, <1>7
<1> HIDE DEF x, y
<1>11. Less(Zero, x)
  BY <1>6, <1>8, ZeroIs, TotalOrder
<1>12. Less(Zero, a[i])
  BY <1>2, <1>8, <1>9, <1>11, WilderStaysPositive
<1>13. a[i] # Zero /\ a[i] # None
  BY <1>10, <1>12, ZeroIs, TotalOrder, Parameters
<1>14. QED
  BY <1>1, <1>4, <1>13

\* What adx shows: dx is undefined up to z only, and adx is the smoothing of
\* the rest of it, z positions later.
Shows(cs, p, z) ==
  LET n == Len(cs)
      d == Defined(Dx(cs, p))
  IN  /\ \A i \in 1..n : Dx(cs, p)[i] = None <=> i <= z
      /\ d \in Seq(Percent) /\ Len(d) = n - z /\ \A j \in 1..(n - z) : d[j] = Dx(cs, p)[z + j]
      /\ \A i \in 1..n : Adx(cs, p)[i] = IF n < 2 * p - 1 \/ i <= z THEN None
                                         ELSE WilderSmoothing(d, p)[i - z]

\* adx shows this if the period is not 1.
LEMMA AdxShows ==
  ASSUME NEW cs \in Seq(Candle), NEW p \in Nat \ {0}, p > 1
  PROVE  \E z \in 0..Len(cs) : Shows(cs, p, z)
<1> DEFINE n == Len(cs)
           s == Dx(cs, p)
           d == Defined(s)
           w == WilderSmoothing(d, p)
<1>1. n \in Nat /\ s \in [1..n -> Percent \cup {None}]
  BY ChartIs, DxIs
<1>2. \A i \in 2..n : s[i] = None => s[i - 1] = None
  BY DxKeepsDefined
<1>3. Adx(cs, p) = IF n < 2 * p - 1 THEN Nones(n) ELSE AtTheEnd(n, w)
  BY DEF Adx
<1> HIDE DEF n, s
<1>4. PICK z \in 0..n : \A i \in 1..n : s[i] = None <=> i <= z
  BY <1>1, <1>2, Threshold
<1>5. d \in Seq(Percent)
  BY <1>1, DefinedIs, PercentIs
<1>6. Len(d) = n - z /\ \A j \in 1..(n - z) : d[j] = s[z + j]
  <2>1. SuffixOf(d, s, n)
    BY <1>1, DefinedIs, PercentIs
  <2> HIDE DEF d
  <2>2. QED
    BY <1>4, <2>1 DEF SuffixOf
<1> HIDE DEF d
<1>7. Len(w) = n - z
  <2>1. d \in Seq(Rational)
    BY <1>5, PercentIs
  <2>2. w \in [1..Len(d) -> Rational \cup {None}]
    BY <2>1, WilderIs
  <2>3. n - z \in Nat
    BY <1>1
  <2> HIDE DEF w
  <2>4. QED
    BY <1>6, <2>2, <2>3 DEF Seq
<1> HIDE DEF w
<1>8. \A i \in 1..n : Adx(cs, p)[i] = IF n < 2 * p - 1 \/ i <= z THEN None ELSE w[i - z]
  <2>1. n - (n - z) = z
    BY <1>1
  <2>2. CASE n < 2 * p - 1
    BY <1>3, <2>2 DEF Nones
  <2>3. CASE ~(n < 2 * p - 1)
    BY <1>3, <1>7, <2>1, <2>3 DEF AtTheEnd
  <2>4. QED
    BY <2>2, <2>3
<1>9. Shows(cs, p, z)
  BY <1>4, <1>5, <1>6, <1>8 DEF Shows, n, s, d, w
<1>10. QED
  BY <1>9 DEF n

\* A new candle leaves the earlier values of adx alone, ...
LEMMA AdxStable ==
  ASSUME NEW bs \in Seq(Candle), NEW cs \in Seq(Candle), Extends(cs, bs), NEW p \in Nat \ {0}, p > 1
  PROVE  \A i \in 1..Len(bs) : Adx(cs, p)[i] = Adx(bs, p)[i]
<1> DEFINE m == Len(bs)
           n == Len(cs)
           r == Dx(bs, p)
           s == Dx(cs, p)
           b == Defined(r)
           c == Defined(s)
<1>1. m \in Nat /\ n \in Nat /\ m <= n
  BY ChartIs DEF Extends
<1>2. \A i \in 1..m : s[i] = r[i] /\ i \in 1..n
  BY <1>1, DxStable
<1>3. PICK y \in 0..m : Shows(bs, p, y)
  BY AdxShows
<1>4. PICK z \in 0..n : Shows(cs, p, z)
  BY AdxShows
<1>5. /\ \A i \in 1..m : r[i] = None <=> i <= y
      /\ b \in Seq(Percent) /\ Len(b) = m - y /\ \A j \in 1..(m - y) : b[j] = r[y + j]
      /\ \A i \in 1..m : Adx(bs, p)[i] = IF m < 2 * p - 1 \/ i <= y THEN None
                                         ELSE WilderSmoothing(b, p)[i - y]
  BY <1>3, Zenon DEF Shows
<1>6. /\ \A i \in 1..n : s[i] = None <=> i <= z
      /\ c \in Seq(Percent) /\ Len(c) = n - z /\ \A j \in 1..(n - z) : c[j] = s[z + j]
      /\ \A i \in 1..n : Adx(cs, p)[i] = IF n < 2 * p - 1 \/ i <= z THEN None
                                         ELSE WilderSmoothing(c, p)[i - z]
  BY <1>4, Zenon DEF Shows
<1>7. \A i \in 1..m : i < p => r[i] = None
  BY DxIs, AtrIs
<1> HIDE DEF m, n, r, s, b, c
<1>8. CASE y = m
  <2>1. m <= z
    <3>1. CASE m = 0
      BY <3>1
    <3>2. CASE m # 0
      <4>1. m \in 1..m
        BY <1>1, <3>2
      <4>2. s[m] = None /\ m \in 1..n
        BY <1>2, <1>5, <1>8, <4>1
      <4>3. QED
        BY <1>6, <4>2
    <3>3. QED
      BY <3>1, <3>2
  <2>2. ASSUME NEW i \in 1..m PROVE Adx(cs, p)[i] = None /\ Adx(bs, p)[i] = None
    <3>1. i <= z /\ i <= y /\ i \in 1..n
      BY <1>1, <1>8, <2>1
    <3>2. QED
      BY <1>5, <1>6, <3>1
  <2>3. QED
    BY <2>2 DEF m
<1>9. CASE y # m
  <2>1. y + 1 \in 1..m /\ ~(y + 1 <= y)
    BY <1>1, <1>9
  <2>2. r[y + 1] # None
    BY <1>5, <2>1
  <2>3. y + 1 >= p
    BY <1>1, <1>7, <2>1, <2>2
  <2>4. z = y
    <3>1. ~(y + 1 <= z)
      BY <1>2, <1>6, <2>1, <2>2
    <3>2. CASE y = 0
      BY <3>1, <3>2
    <3>3. CASE y # 0
      <4>1. y \in 1..m
        BY <3>3
      <4>2. s[y] = None /\ y \in 1..n
        BY <1>2, <1>5, <4>1
      <4>3. y <= z
        BY <1>6, <4>2
      <4>4. QED
        BY <3>1, <4>3
    <3>4. QED
      BY <3>2, <3>3
  <2>5. Extends(c, b)
    <3>1. Len(b) <= Len(c)
      BY <1>1, <1>5, <1>6, <2>4
    <3>2. ASSUME NEW j \in 1..Len(b) PROVE c[j] = b[j]
      <4>1. j \in 1..(m - y) /\ j \in 1..(n - z) /\ y + j \in 1..m
        BY <1>1, <1>5, <2>4
      <4>2. c[j] = s[z + j] /\ b[j] = r[y + j]
        BY <1>5, <1>6, <4>1
      <4>3. s[y + j] = r[y + j]
        BY <1>2, <4>1
      <4>4. QED
        BY <2>4, <4>2, <4>3
    <3>3. QED
      BY <3>1, <3>2 DEF Extends
  <2>6. b \in Seq(Rational) /\ c \in Seq(Rational)
    BY <1>5, <1>6, PercentIs
  <2>7. \A j \in 1..Len(b) : WilderSmoothing(c, p)[j] = WilderSmoothing(b, p)[j]
    BY <2>5, <2>6, WilderStable
  <2>8. \A j \in 1..Len(c) : j < p => WilderSmoothing(c, p)[j] = None
    BY <2>6, WilderIs
  <2>9. ASSUME NEW i \in 1..m PROVE Adx(cs, p)[i] = Adx(bs, p)[i]
    <3>1. i \in 1..n
      BY <1>1
    <3>2. CASE i <= z
      BY <1>5, <1>6, <2>4, <3>1, <3>2
    <3>3. CASE ~(i <= z)
      <4> DEFINE j == i - z
      <4>1. j \in 1..Len(b) /\ j \in 1..Len(c) /\ i - y = j
        BY <1>1, <1>5, <1>6, <2>4, <3>3
      <4>2. WilderSmoothing(c, p)[j] = WilderSmoothing(b, p)[j]
        BY <2>7, <4>1
      <4>3. CASE n < 2 * p - 1
        <5>1. m < 2 * p - 1
          BY <1>1, <4>3
        <5>2. QED
          BY <1>5, <1>6, <3>1, <4>3, <5>1
      <4>4. CASE ~(n < 2 * p - 1) /\ m < 2 * p - 1
        <5>1. j < p
          BY <1>1, <2>3, <2>4, <4>4
        <5>2. WilderSmoothing(c, p)[j] = None
          BY <2>8, <4>1, <5>1
        <5>3. Adx(cs, p)[i] = WilderSmoothing(c, p)[j]
          BY <1>6, <3>1, <3>3, <4>4
        <5>4. QED
          BY <1>5, <4>4, <5>2, <5>3
      <4>5. CASE ~(n < 2 * p - 1) /\ ~(m < 2 * p - 1)
        <5>1. Adx(cs, p)[i] = WilderSmoothing(c, p)[j]
          BY <1>6, <3>1, <3>3, <4>5
        <5>2. Adx(bs, p)[i] = WilderSmoothing(b, p)[j]
          BY <1>5, <2>4, <3>3, <4>1, <4>5
        <5>3. QED
          BY <4>2, <5>1, <5>2
      <4>6. QED
        BY <4>3, <4>4, <4>5
    <3>4. QED
      BY <3>2, <3>3
  <2>10. QED
    BY <2>9 DEF m
<1>10. QED
  BY <1>8, <1>9

\* ... those of rsi, ...
LEMMA RsiStable ==
  ASSUME NEW u \in Seq(Rational), NEW v \in Seq(Rational), Extends(v, u), NEW p \in Nat \ {0}
  PROVE  \A i \in 1..Len(u) : Rsi(v, p)[i] = Rsi(u, p)[i]
<1> DEFINE value(x, i) == IF i <= p THEN None
                          ELSE RsiFrom(WilderSmoothing(Gains(x), p)[i - 1],
                                       WilderSmoothing(Losses(x), p)[i - 1])
<1>1. Len(u) \in Nat /\ Len(v) \in Nat /\ Len(u) <= Len(v)
  BY SeqIs DEF Extends
<1>2. Rsi(v, p) = [i \in 1..Len(v) |-> value(v, i)] /\ Rsi(u, p) = [i \in 1..Len(u) |-> value(u, i)]
  BY Zenon DEF Rsi
<1>3. ASSUME NEW i \in 1..Len(u) PROVE value(v, i) = value(u, i)
  <2>1. CASE i <= p
    BY <2>1
  <2>2. CASE ~(i <= p)
    <3> DEFINE j == i - 1
               m == Len(u) - 1
    <3>1. Len(u) # 0 /\ j \in 1..m
      BY <1>1, <2>2
    <3>2. /\ Gains(u) \in Seq(Rational) /\ Losses(u) \in Seq(Rational)
          /\ Len(Gains(u)) = m /\ Len(Losses(u)) = m
          /\ Gains(v) \in Seq(Rational) /\ Losses(v) \in Seq(Rational)
          /\ Extends(Gains(v), Gains(u)) /\ Extends(Losses(v), Losses(u))
      BY <3>1, ChangesAre, ChangesStable
    <3> HIDE DEF j, m
    <3>3. WilderSmoothing(Gains(v), p)[j] = WilderSmoothing(Gains(u), p)[j]
      BY <3>1, <3>2, WilderStable
    <3>4. WilderSmoothing(Losses(v), p)[j] = WilderSmoothing(Losses(u), p)[j]
      BY <3>1, <3>2, WilderStable
    <3>5. QED
      BY <2>2, <3>3, <3>4, Zenon DEF j
  <2>3. QED
    BY <2>1, <2>2
<1> HIDE DEF value
<1>4. QED
  BY <1>1, <1>2, <1>3

\* ... those of vwap, ...
LEMMA VwapStable ==
  ASSUME NEW bs \in Seq(Candle), NEW cs \in Seq(Candle), Extends(cs, bs)
  PROVE  \A i \in 1..Len(bs) : Vwap(cs)[i] = Vwap(bs)[i]
<1> DEFINE m == Len(bs)
           n == Len(cs)
<1>1. m \in Nat /\ n \in Nat /\ m <= n /\ \A i \in 1..m : cs[i] = bs[i] /\ i \in 1..n /\ i \in 0..m
  BY ChartIs DEF Extends
<1>2. /\ VolumesOf(bs) \in Seq(Rational) /\ Len(VolumesOf(bs)) = m
      /\ TurnoverOf(bs) \in Seq(Rational) /\ Len(TurnoverOf(bs)) = m
      /\ \A i \in 1..m : /\ VolumesOf(bs)[i] = bs[i].volume
                         /\ TurnoverOf(bs)[i] = Typical(bs[i]) ** bs[i].volume
  BY TradesAre
<1>3. /\ VolumesOf(cs) \in Seq(Rational) /\ Len(VolumesOf(cs)) = n
      /\ TurnoverOf(cs) \in Seq(Rational) /\ Len(TurnoverOf(cs)) = n
      /\ \A i \in 1..n : /\ VolumesOf(cs)[i] = cs[i].volume
                         /\ TurnoverOf(cs)[i] = Typical(cs[i]) ** cs[i].volume
  BY TradesAre
<1>4. Extends(VolumesOf(cs), VolumesOf(bs)) /\ Extends(TurnoverOf(cs), TurnoverOf(bs))
  BY <1>1, <1>2, <1>3 DEF Extends
<1>5. \A i \in 0..m : Sums(VolumesOf(cs))[i] = Sums(VolumesOf(bs))[i]
  BY <1>2, <1>3, <1>4, SumsStable
<1>6. \A i \in 0..m : Sums(TurnoverOf(cs))[i] = Sums(TurnoverOf(bs))[i]
  BY <1>2, <1>3, <1>4, SumsStable
<1> DEFINE value(xs, i) == IF Less(Zero, Sums(VolumesOf(xs))[i])
                           THEN Sums(TurnoverOf(xs))[i] // Sums(VolumesOf(xs))[i]
                           ELSE None
<1>7. Vwap(bs) = [i \in 1..m |-> value(bs, i)] /\ Vwap(cs) = [i \in 1..n |-> value(cs, i)]
  BY VwapIs
<1>8. \A i \in 1..m : value(cs, i) = value(bs, i)
  BY <1>1, <1>5, <1>6, Zenon
<1> HIDE DEF value
<1>9. QED
  BY <1>1, <1>7, <1>8

\* (the windows of a longer chart that end before it does)
LEMMA SameWindow ==
  ASSUME NEW bs \in Seq(Candle), NEW cs \in Seq(Candle), Extends(cs, bs), NEW p \in Nat \ {0},
         NEW i \in p..Len(bs)
  PROVE  WindowAt(cs, i, p) = WindowAt(bs, i, p)
<1> DEFINE a == WindowAt(cs, i, p)
           b == WindowAt(bs, i, p)
<1>1. Len(bs) \in Nat /\ Len(cs) \in Nat /\ Len(bs) <= Len(cs) /\ \A j \in 1..Len(bs) : cs[j] = bs[j]
  BY ChartIs DEF Extends
<1>2. i \in p..Len(cs)
  BY <1>1
<1>3. a \in Seq(Candle) /\ Len(a) = p /\ \A j \in 1..p : a[j] = cs[(i - p) + j]
  BY <1>2, Window
<1>4. b \in Seq(Candle) /\ Len(b) = p /\ \A j \in 1..p : b[j] = bs[(i - p) + j]
  BY Window
<1>5. \A j \in 1..p : (i - p) + j \in 1..Len(bs)
  BY <1>1
<1> HIDE DEF a, b
<1>6. \A j \in 1..p : a[j] = b[j]
  BY <1>1, <1>3, <1>4, <1>5
<1>7. a = b
  BY <1>3, <1>4, <1>6
<1>8. QED
  BY <1>7 DEF a, b

\* ... those of stochastic, ...
LEMMA StochasticStable ==
  ASSUME NEW bs \in Seq(Candle), NEW cs \in Seq(Candle), Extends(cs, bs), NEW p \in Nat \ {0},
         NEW dp \in Nat \ {0}
  PROVE  \A i \in 1..Len(bs) : Stochastic(cs, p, dp).k[i] = Stochastic(bs, p, dp).k[i]
<1> DEFINE a == Stochastic(cs, p, dp).k
           b == Stochastic(bs, p, dp).k
<1>1. Len(bs) \in Nat /\ Len(cs) \in Nat /\ Len(bs) <= Len(cs) /\ \A j \in 1..Len(bs) : cs[j] = bs[j]
  BY ChartIs DEF Extends
<1>2. /\ \A i \in 1..Len(cs) : i < p => a[i] = None
      /\ \A i \in 1..Len(cs) : i >= p => a[i] = PercentK(cs[i].close, WindowExtremes(cs, i, p))
  BY StochasticFrom DEF From
<1>3. /\ \A i \in 1..Len(bs) : i < p => b[i] = None
      /\ \A i \in 1..Len(bs) : i >= p => b[i] = PercentK(bs[i].close, WindowExtremes(bs, i, p))
  BY StochasticFrom DEF From
<1> HIDE DEF a, b
<1>4. ASSUME NEW i \in 1..Len(bs) PROVE a[i] = b[i]
  <2>1. i \in 1..Len(cs) /\ cs[i] = bs[i]
    BY <1>1
  <2>2. CASE i < p
    BY <1>2, <1>3, <2>1, <2>2
  <2>3. CASE i >= p
    <3>1. i \in p..Len(bs)
      BY <1>1, <2>3
    <3>2. WindowExtremes(cs, i, p) = WindowExtremes(bs, i, p)
      BY <3>1, SameWindow DEF WindowExtremes
    <3>3. QED
      BY <1>2, <1>3, <2>1, <2>3, <3>2
  <2>4. QED
    BY <1>1, <2>2, <2>3
<1>5. QED
  BY <1>4 DEF a, b

\* ... those of supertrend ...
LEMMA SuperTrendStable ==
  ASSUME NEW bs \in Seq(Candle), NEW cs \in Seq(Candle), Extends(cs, bs), NEW p \in Nat \ {0},
         NEW m \in Nat
  PROVE  \A i \in 1..Len(bs) : SuperTrend(cs, p, m)[i] = SuperTrend(bs, p, m)[i]
<1> DEFINE n == Len(bs)
           a == SuperTrend(cs, p, m)
           b == SuperTrend(bs, p, m)
           step(xs, x, i) == Trail(x, UpperBand(xs, p, m, i), LowerBand(xs, p, m, i), xs[i].close)
           S == {i \in p..n : a[i] = b[i]}
<1>1. /\ n \in Nat /\ n \in Int /\ p \in Int
      /\ \A j \in 1..n : cs[j] = bs[j] /\ j \in 1..Len(cs)
  BY ChartIs DEF Extends
<1>2. /\ \A i \in 1..Len(cs) : i < p => a[i] = None
      /\ \A i \in 1..Len(cs) : i >= p => a[i] = step(cs, IF i = p THEN None ELSE a[i - 1], i)
  BY SuperTrendIs
<1>3. /\ \A i \in 1..n : i < p => b[i] = None
      /\ \A i \in 1..n : i >= p => b[i] = step(bs, IF i = p THEN None ELSE b[i - 1], i)
  BY SuperTrendIs
<1>4. \A i \in 1..n : Atr(cs, p)[i] = Atr(bs, p)[i]
  BY AtrStable
<1> HIDE DEF n, a, b
<1>5. ASSUME NEW i \in 1..n, NEW x PROVE step(cs, x, i) = step(bs, x, i)
  BY <1>1, <1>4, Zenon DEF UpperBand, LowerBand
<1> HIDE DEF step
<1>6. p <= n => p \in S
  <2> SUFFICES ASSUME p <= n PROVE a[p] = b[p]
    BY <1>1
  <2>1. p \in 1..n
    BY <1>1
  <2>2. a[p] = step(cs, None, p) /\ b[p] = step(bs, None, p)
    BY <1>1, <1>2, <1>3, <2>1
  <2>3. QED
    BY <1>5, <2>1, <2>2
<1>7. ASSUME NEW i \in p..n, p < i, i - 1 \in S PROVE i \in S
  <2>1. i \in 1..n /\ i >= p /\ i # p
    BY <1>1, <1>7
  <2>2. a[i] = step(cs, a[i - 1], i) /\ b[i] = step(bs, b[i - 1], i)
    BY <1>1, <1>2, <1>3, <2>1
  <2>3. a[i - 1] = b[i - 1]
    BY <1>7
  <2>4. QED
    BY <1>5, <2>1, <2>2, <2>3
<1>8. \A i \in p..n : i \in S
  <2> HIDE DEF S
  <2>1. QED
    BY <1>1, <1>6, <1>7, StepInduction, Zenon
<1>9. ASSUME NEW i \in 1..n PROVE a[i] = b[i]
  <2>1. CASE i < p
    BY <1>1, <1>2, <1>3, <2>1
  <2>2. CASE i >= p
    BY <1>1, <1>8, <2>2
  <2>3. QED
    BY <1>1, <2>1, <2>2
<1>10. QED
  BY <1>9 DEF n, a, b

\* ... and those of macd.
LEMMA MacdStable ==
  ASSUME NEW u \in Seq(Rational), NEW v \in Seq(Rational), Extends(v, u),
         NEW fast \in Nat \ {0}, NEW slow \in Nat \ {0}, NEW signal
  PROVE  \A i \in 1..Len(u) : Macd(v, fast, slow, signal).line[i] = Macd(u, fast, slow, signal).line[i]
<1> DEFINE value(x, i) == IF Ema(x, fast)[i] = None \/ Ema(x, slow)[i] = None THEN None
                          ELSE Ema(x, fast)[i] -- Ema(x, slow)[i]
<1>1. \A i \in 1..Len(u) : i \in 1..Len(v)
  BY SeqIs DEF Extends
<1>2. /\ Macd(v, fast, slow, signal).line = [i \in 1..Len(v) |-> value(v, i)]
      /\ Macd(u, fast, slow, signal).line = [i \in 1..Len(u) |-> value(u, i)]
  BY DEF Macd
<1>3. \A i \in 1..Len(u) : Ema(v, fast)[i] = Ema(u, fast)[i]
  BY EmaStable
<1>4. \A i \in 1..Len(u) : Ema(v, slow)[i] = Ema(u, slow)[i]
  BY EmaStable
<1>5. \A i \in 1..Len(u) : value(v, i) = value(u, i)
  BY <1>3, <1>4, Zenon
<1> HIDE DEF value
<1>6. QED
  BY <1>1, <1>2, <1>5

\* While the chart grows every indicator keeps its values (adx needs a period
\* above one: with period one, atr falls back to zero on a flat candle, dx
\* gets a hole, and the offset moves the earlier values).
LEMMA GrownKeeps ==
  ASSUME NEW bs \in Seq(Candle), NEW cs \in Seq(Candle), Extends(cs, bs),
         NEW name \in SupportedIndicators, name = "adx" => Period > 1
  PROVE  \A i \in 1..Len(bs) : ComputeIndicator(name, cs)[i] = ComputeIndicator(name, bs)[i]
<1> DEFINE n == Len(bs)
           u == ClosesOf(bs)
           v == ClosesOf(cs)
           p == Period
           Same(a, b) == \A i \in 1..n : a[i] = b[i]
           Kept(x) == Same(ComputeIndicator(x, cs), ComputeIndicator(x, bs))
<1>1. cs \in Seq(Candle) /\ bs \in Seq(Candle) /\ Extends(cs, bs)
  OBVIOUS
<1>2. p \in Nat \ {0} /\ n \in Nat
  BY <1>1, Parameters, ChartIs
<1> HIDE DEF p
<1>3. u \in Seq(Rational) /\ v \in Seq(Rational) /\ Extends(v, u) /\ Len(u) = n
  BY <1>1, ClosesIs, ClosesStable
<1> HIDE DEF u, v, n
<1>4. Same(Rsi(v, p), Rsi(u, p))
  BY <1>2, <1>3, RsiStable
<1>5. Same(Sma(v, p), Sma(u, p))
  BY <1>2, <1>3, SmaStable
<1>6. Same(Ema(v, p), Ema(u, p))
  BY <1>2, <1>3, EmaStable
<1>7. Same(Atr(cs, p), Atr(bs, p))
  BY <1>1, <1>2, AtrStable DEF n
<1>8. Same(Vwap(cs), Vwap(bs))
  BY <1>1, VwapStable DEF n
<1>9. p > 1 => Same(Adx(cs, p), Adx(bs, p))
  BY <1>1, <1>2, AdxStable DEF n
<1>10. Same(Macd(v, Fast, Slow, Signal).line, Macd(u, Fast, Slow, Signal).line)
  BY <1>3, MacdStable, Parameters
<1>11. BollingerBands(v, p).middle = Sma(v, p) /\ BollingerBands(u, p).middle = Sma(u, p)
  BY <1>2, <1>3, BollingerFrom
<1>12. Same(Stochastic(cs, p, DPeriod).k, Stochastic(bs, p, DPeriod).k)
  BY <1>1, <1>2, StochasticStable, Parameters DEF n
<1> DEFINE t(xs) == SuperTrend(xs, p, Multiplier)
           line(xs) == [i \in DOMAIN xs |-> IF t(xs)[i] = None THEN None ELSE t(xs)[i].line]
<1>13. Same(line(cs), line(bs))
  <2>1. \A i \in 1..n : t(cs)[i] = t(bs)[i]
    BY <1>1, <1>2, SuperTrendStable, Parameters DEF n
  <2>2. DOMAIN bs = 1..n /\ \A i \in 1..n : i \in DOMAIN bs /\ i \in DOMAIN cs
    BY <1>1, ChartIs DEF n, Extends
  <2> HIDE DEF t
  <2>3. QED
    BY <2>1, <2>2
<1>14. ASSUME NEW x, NEW a, NEW b, Same(a, b),
              ComputeIndicator(x, cs) = a, ComputeIndicator(x, bs) = b
       PROVE  Kept(x)
  BY <1>14
<1> HIDE DEF Same, Kept, line
<1>15. Kept("rsi")
  BY <1>4, <1>14, Dispatch, Zenon DEF p, u, v
<1>16. Kept("sma")
  BY <1>5, <1>14, Dispatch, Zenon DEF p, u, v
<1>17. Kept("ema")
  BY <1>6, <1>14, Dispatch, Zenon DEF p, u, v
<1>18. Kept("atr")
  BY <1>7, <1>14, Dispatch, Zenon DEF p
<1>19. Kept("vwap")
  BY <1>8, <1>14, Dispatch, Zenon DEF p
<1>20. p > 1 => Kept("adx")
  BY <1>9, <1>14, Dispatch, Zenon DEF p
<1>21. Kept("macd")
  BY <1>10, <1>14, Dispatch, Zenon DEF u, v
<1>22. Kept("bollinger")
  <2>1. /\ ComputeIndicator("bollinger", cs) = Sma(v, p)
        /\ ComputeIndicator("bollinger", bs) = Sma(u, p)
    BY <1>11, Dispatch, Zenon DEF p, u, v
  <2>2. QED
    BY <1>5, <1>14, <2>1, Zenon
<1>23. Kept("stochastic")
  BY <1>12, <1>14, Dispatch, Zenon DEF p
<1>24. Kept("supertrend")
  BY <1>13, <1>14, Dispatch, Zenon DEF p, line
<1>25. QED
  BY <1>15, <1>16, <1>17, <1>18, <1>19, <1>20, <1>21, <1>22, <1>23, <1>24
     DEF SupportedIndicators, p, Kept, Same, n

\* (windows with the same values)
LEMMA EqualWindows ==
  ASSUME NEW S, NEW u \in Seq(S), NEW v \in Seq(S), NEW p \in Nat \ {0},
         NEW i \in p..Len(u), NEW h \in p..Len(v),
         \A j \in 1..p : v[(h - p) + j] = u[(i - p) + j]
  PROVE  WindowAt(v, h, p) = WindowAt(u, i, p)
<1> DEFINE a == WindowAt(v, h, p)
           b == WindowAt(u, i, p)
<1>1. b \in Seq(S) /\ Len(b) = p /\ \A j \in 1..p : b[j] = u[(i - p) + j]
  BY Window
<1>2. a \in Seq(S) /\ Len(a) = p /\ \A j \in 1..p : a[j] = v[(h - p) + j]
  BY Window
<1> HIDE DEF a, b
<1>3. \A j \in 1..p : a[j] = b[j]
  BY <1>1, <1>2
<1>4. Len(a) = Len(b) /\ \A j \in 1..Len(a) : a[j] = b[j]
  BY <1>1, <1>2, <1>3
<1>5. a = b
  BY <1>1, <1>2, <1>4, SeqEqual
<1>6. QED
  BY <1>5 DEF a, b

\* (the windows of a chart that slid by one)
LEMMA SlidWindow ==
  ASSUME NEW S, NEW u \in Seq(S), NEW v \in Seq(S), Len(v) = Len(u),
         \A i \in 2..Len(u) : v[i - 1] = u[i],
         NEW p \in Nat \ {0}, NEW i \in (p + 1)..Len(u)
  PROVE  WindowAt(v, i - 1, p) = WindowAt(u, i, p)
<1> DEFINE h == i - 1
<1>1. Len(u) \in Nat /\ i \in p..Len(u) /\ h \in p..Len(v)
  BY SeqIs
<1>2. \A j \in 1..p : (i - p) + j \in 2..Len(u) /\ (h - p) + j = ((i - p) + j) - 1
  BY <1>1
<1> HIDE DEF h
<1>3. \A j \in 1..p : v[(h - p) + j] = u[(i - p) + j]
  BY <1>2
<1>4. WindowAt(v, h, p) = WindowAt(u, i, p)
  BY <1>1, <1>3, EqualWindows
<1>5. QED
  BY <1>4 DEF h

\* When it slides, sma, the middle band and %K keep the values of the candles
\* whose window is still complete.
LEMMA SlidKeeps ==
  ASSUME NEW bs \in Seq(Candle), NEW cs \in Seq(Candle), Len(cs) = Len(bs),
         \A i \in 2..Len(bs) : cs[i - 1] = bs[i],
         NEW name \in {"sma", "bollinger", "stochastic"}, NEW i \in (Period + 1)..Len(bs)
  PROVE  ComputeIndicator(name, cs)[i - 1] = ComputeIndicator(name, bs)[i]
<1> DEFINE u == ClosesOf(bs)
           v == ClosesOf(cs)
           p == Period
           h == i - 1
<1>1. /\ p \in Nat \ {0} /\ Len(bs) \in Nat /\ i \in p..Len(bs) /\ h \in p..Len(cs)
      /\ i \in 1..Len(bs) /\ h \in 1..Len(cs) /\ i >= p /\ h >= p /\ i \in 2..Len(bs)
  BY Parameters, ChartIs
<1>2. /\ u \in Seq(Rational) /\ Len(u) = Len(bs) /\ v \in Seq(Rational) /\ Len(v) = Len(cs)
      /\ \A j \in 1..Len(bs) : u[j] = bs[j].close
      /\ \A j \in 1..Len(cs) : v[j] = cs[j].close
  BY ClosesIs
<1> HIDE DEF u, v
<1>3. \A j \in 2..Len(u) : v[j - 1] = u[j]
  <2>1. ASSUME NEW j \in 2..Len(u) PROVE v[j - 1] = u[j]
    <3>1. j \in 1..Len(bs) /\ j - 1 \in 1..Len(cs) /\ cs[j - 1] = bs[j]
      BY <1>1, <1>2
    <3>2. QED
      BY <1>2, <3>1
  <2>2. QED
    BY <2>1
<1>4. i \in (p + 1)..Len(u) /\ i \in (p + 1)..Len(bs)
  BY <1>2
<1> HIDE DEF p
<1>5. WindowAt(v, i - 1, p) = WindowAt(u, i, p)
  BY <1>1, <1>2, <1>3, <1>4, SlidWindow
<1>6. WindowAt(cs, i - 1, p) = WindowAt(bs, i, p)
  BY <1>1, <1>4, SlidWindow
<1>7. WindowAt(v, h, p) = WindowAt(u, i, p) /\ WindowAt(cs, h, p) = WindowAt(bs, i, p)
  BY <1>5, <1>6
<1>8. cs[h] = bs[i]
  BY <1>1
<1> SUFFICES ComputeIndicator(name, cs)[h] = ComputeIndicator(name, bs)[i]
  BY DEF h
<1> HIDE DEF h
<1>9. Sma(v, p)[h] = Sma(u, p)[i]
  <2>1. Sma(v, p)[h] = Mean(WindowAt(v, h, p))
    BY <1>1, <1>2, SmaMean
  <2>2. Sma(u, p)[i] = Mean(WindowAt(u, i, p))
    BY <1>1, <1>2, SmaMean
  <2>3. QED
    BY <1>7, <2>1, <2>2
<1>10. Stochastic(cs, p, DPeriod).k[h] = Stochastic(bs, p, DPeriod).k[i]
  <2>1. Stochastic(cs, p, DPeriod).k[h] = PercentK(cs[h].close, WindowExtremes(cs, h, p))
    BY <1>1, StochasticFrom, Parameters
  <2>2. Stochastic(bs, p, DPeriod).k[i] = PercentK(bs[i].close, WindowExtremes(bs, i, p))
    BY <1>1, StochasticFrom, Parameters
  <2>3. WindowExtremes(cs, h, p) = WindowExtremes(bs, i, p)
    BY <1>7 DEF WindowExtremes
  <2>4. QED
    BY <1>8, <2>1, <2>2, <2>3, Zenon
<1>11. CASE name = "sma"
  BY <1>9, <1>11, Dispatch, Zenon DEF p, u, v
<1>12. CASE name = "bollinger"
  <2>1. BollingerBands(v, p).middle = Sma(v, p) /\ BollingerBands(u, p).middle = Sma(u, p)
    BY <1>1, <1>2, BollingerFrom
  <2>2. /\ ComputeIndicator("bollinger", cs) = Sma(v, p)
        /\ ComputeIndicator("bollinger", bs) = Sma(u, p)
    BY <2>1, Dispatch, Zenon DEF p, u, v
  <2>3. QED
    BY <1>9, <1>12, <2>2, Zenon
<1>13. CASE name = "stochastic"
  BY <1>10, <1>13, Dispatch, Zenon DEF p
<1>14. QED
  BY <1>11, <1>12, <1>13

(***************************************************************************)
(* What an indicator shows of a closed candle does not change when the     *)
(* next one arrives (compute_indicator over the last `limit` candles), for *)
(* every chart and every parameter: every indicator while the chart grows  *)
(* (adx for periods above one), and sma, the middle Bollinger band and %K  *)
(* also when the window slides.                                            *)
(***************************************************************************)
THEOREM NothingRepaints == Spec => NoRepaint
<1> DEFINE Kept(name) ==
      /\ Len(candles') > Len(candles) /\ (name = "adx" => Period > 1)
            => \A i \in 1..Len(candles) :
                   ComputeIndicator(name, candles')[i] = ComputeIndicator(name, candles)[i]
      /\ Len(candles') = Len(candles) /\ name \in {"sma", "bollinger", "stochastic"}
            => \A i \in (Period + 1)..Len(candles) :
                   ComputeIndicator(name, candles')[i - 1] = ComputeIndicator(name, candles)[i]
<1>1. ASSUME ChartType, Next, NEW name \in SupportedIndicators PROVE Kept(name)
  <2>1. candles \in Seq(Candle) /\ candles' \in Seq(Candle) /\ Len(candles) \in Nat
    BY <1>1, NewCandleIs DEF ChartType
  <2>2. CASE Extends(candles', candles) /\ Len(candles') = Len(candles) + 1
    <3>1. Len(candles') # Len(candles)
      BY <2>1, <2>2
    <3>2. (name = "adx" => Period > 1)
             => \A i \in 1..Len(candles) :
                    ComputeIndicator(name, candles')[i] = ComputeIndicator(name, candles)[i]
      BY <2>1, <2>2, GrownKeeps
    <3>3. QED
      BY <3>1, <3>2
  <2>3. CASE /\ Len(candles') = Len(candles)
             /\ \A i \in 2..Len(candles) : candles'[i - 1] = candles[i]
    <3>1. ~(Len(candles') > Len(candles))
      BY <2>1, <2>3
    <3>2. name \in {"sma", "bollinger", "stochastic"}
             => \A i \in (Period + 1)..Len(candles) :
                    ComputeIndicator(name, candles')[i - 1] = ComputeIndicator(name, candles)[i]
      BY <2>1, <2>3, SlidKeeps
    <3>3. QED
      BY <3>1, <3>2
  <2>4. QED
    BY <1>1, <2>2, <2>3, NewCandleIs
<1>2. ChartType /\ [Next]_candles => [\A name \in SupportedIndicators : Kept(name)]_candles
  <2> HIDE DEF Kept
  <2>1. QED
    BY <1>1
<1>3. Spec => [][\A name \in SupportedIndicators : Kept(name)]_candles
  <2> HIDE DEF Kept
  <2>1. QED
    BY <1>2, ChartInvariant, PTL DEF Spec
<1>4. QED
  BY <1>3 DEF NoRepaint
=============================================================================
