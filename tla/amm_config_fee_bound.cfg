SPECIFICATION Spec
CONSTANTS
    FEE_RATE_DENOMINATOR_VALUE = 4
    Accounts = {admin, alice}
    ADMIN = admin
    DEFAULT_PUBKEY = default_key
    FeeRateValues <- MCFeeRateValues
    FeeTokenMints = {kedolik}
    DiscountRates <- MCDiscountRates
    MAX_DISCOUNT_RATE = 10
INVARIANT InputFeesBelowWhole
