SPECIFICATION KSpec
CONSTANTS
    FEE_RATE_DENOMINATOR_VALUE = 7
    MAX_FEE_BASIS_POINTS = 7
    QuoteAmounts <- MCAmounts
    ReserveAmounts <- MCReserves
    TradeRates <- MCTradeRates
    CreatorRates <- MCCreatorRates
    ShareRates <- MCShareRates
    CapAmounts <- MCCaps
    PRICE_AGE = 1
    U128_MAX = 4000
    AMOUNT_MAX = 2000
    FeeAmounts <- MCFeeAmounts
    Prices <- MCPrices
    Exponents <- MCExponents
    TokenDecimals <- MCDecimals
INVARIANTS QuotesSound ExactInputBuysMost ExactOutputCostsLeast DirectionsAgree SharesRoundForThePool InverseFeeArrivesExactly ConversionWithinScale SplittingAndReturningGainNothing
CHECK_DEADLOCK FALSE
