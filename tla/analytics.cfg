SPECIFICATION Spec
CONSTANTS
    None = None
    Invalid = Invalid
    Candle <- MCCandles
    Period = 2
    Fast = 1
    Slow = 2
    Signal = 2
    DPeriod = 2
    Multiplier = 1
    Short = 1
    Long = 3
    Balances <- MCBalances
    RiskFractions <- MCFractions
    Leverages <- MCLeverages
    Prices <- MCPrices
    Limit = 5
PROPERTY NoRepaint
INVARIANTS NoneOnlyLeads OscillatorsInRange AveragesAverage SuperTrendTrails SizedToRisk CalculatorsAgree
