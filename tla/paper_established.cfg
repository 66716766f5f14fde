SPECIFICATION Spec
CONSTANTS
    BTC = BTC
    ETH = ETH
    USDT = USDT
    Nobody = Nobody
    Req = {r1, r2, r3}
    Asset <- ThreeAssets
    QuoteAsset = USDT
    StartingBalance = 100
    OrderRequests <- FourKinds
    Prices <- TwoPrices
    FeeNum = 1
    FeeDen = 10
    MaxLeverage = 20
    InitialRows <- Established
SYMMETRY Symmetry
INVARIANTS TypeOK BooksBalance UsedBacksOpenOrders
PROPERTIES Serializable StatusIsFinal
