--------------------------- MODULE RiskCalculators ---------------------------
(***************************************************************************)
(* The calculators of app/trading/risk.py, on exact numbers.  Where one    *)
(* raises ValidationError its result is Invalid.                           *)
(***************************************************************************)
EXTENDS Rationals

CONSTANT Invalid

Positive(x) == Less(Zero, x)

\* Mutant of PositionSize: the size is not held to the buying power.
PositionSizeUncapped(balance, riskFraction, entry, stop, leverage) ==
    LET riskAmount == balance ** riskFraction
        quantity == riskAmount // AbsOf(entry -- stop)
    IN  IF entry = stop THEN Invalid
        ELSE [quantity |-> quantity, riskAmount |-> riskAmount, notional |-> quantity ** entry]

\* position_size
PositionSize(balance, riskFraction, entry, stop, leverage) ==
    LET riskAmount == balance ** riskFraction
        wanted == riskAmount // AbsOf(entry -- stop)
        maxNotional == balance ** leverage
        quantity == IF Less(maxNotional, wanted ** entry) THEN maxNotional // entry ELSE wanted
    IN  IF /\ Positive(balance) /\ Positive(riskFraction) /\ Leq(riskFraction, Rat(1))
           /\ Positive(entry) /\ Positive(stop) /\ entry # stop
           /\ Positive(leverage)
        THEN [quantity |-> quantity, riskAmount |-> riskAmount, notional |-> quantity ** entry]
        ELSE Invalid

\* pnl, net of the fees on both legs.
Pnl(side, entry, exit, quantity, feeRate) ==
    LET gross == (IF side = "buy" THEN exit -- entry ELSE entry -- exit) ** quantity
        fees == (entry ++ exit) ** quantity ** feeRate
    IN  IF Positive(quantity) /\ Positive(entry) /\ Positive(exit)
        THEN gross -- fees
        ELSE Invalid

\* Mutant of LiquidationPrice: the maintenance margin has one sign for both.
LiquidationOneSign(side, entry, leverage, mmr) ==
    LET imr == Rat(1) // leverage
    IN  IF side = "buy" THEN entry ** ((Rat(1) -- imr) ++ mmr)
        ELSE entry ** (Rat(1) ++ imr ++ mmr)

\* liquidation_price
LiquidationPrice(side, entry, leverage, mmr) ==
    LET imr == Rat(1) // leverage
    IN  IF ~(Positive(leverage) /\ Positive(entry)) THEN Invalid
        ELSE IF side = "buy" THEN entry ** ((Rat(1) -- imr) ++ mmr)
        ELSE entry ** ((Rat(1) ++ imr) -- mmr)

\* risk_reward_ratio
RiskRewardRatio(entry, stop, target) ==
    LET risk == AbsOf(entry -- stop)
    IN  IF risk = Zero THEN Invalid ELSE AbsOf(target -- entry) // risk
=============================================================================
