SPECIFICATION FairSpec
CONSTANTS
    BTC = BTC
    ETH = ETH
    USDT = USDT
    Nobody = Nobody
    Req = {r1, r2, r3}
    Asset <- OnePair
    QuoteAsset = USDT
    StartingBalance = 100
    OrderRequests <- FirstUseKinds
    Prices <- TwoPrices
    FeeNum = 1
    FeeDen = 10
    MaxLeverage = 20
    InitialRows <- Unused
PROPERTY EveryRequestEnds
