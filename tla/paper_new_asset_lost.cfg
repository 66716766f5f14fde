SPECIFICATION Spec
CONSTANTS
    BTC = BTC
    ETH = ETH
    USDT = USDT
    Nobody = Nobody
    Req = {r1, r2}
    Asset <- OnePair
    QuoteAsset = USDT
    StartingBalance = 100
    OrderRequests <- OnlyMarketBuy
    Prices <- TwoPrices
    FeeNum = 1
    FeeDen = 10
    MaxLeverage = 20
    InitialRows <- QuoteOnly
INVARIANT BooksBalance
