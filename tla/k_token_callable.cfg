SPECIFICATION KSpec
CONSTANTS
    FEE_RATE_DENOMINATOR_VALUE = 4
    MAX_FEE_BASIS_POINTS = 4
    U64_MAX = 8
    LOCK_LP_AMOUNT = 1
    Q32 = 1
    Amounts = {4}
    Limits = {0}
    Statuses <- MCEnabled
    OpenTimes = {0}
    MintFees <- MCPlainMints
    ConfigParams <- MCConfigs
    ConfigUpdates <- MCNoUpdates
    Accounts = {admin}
    ADMIN = admin
    DEFAULT_PUBKEY = default_key
    FeeRateValues = {}
    FeeTokenMints = {kedolik}
    DiscountRates = {}
    MAX_DISCOUNT_RATE = 10000
    OBSERVATION_NUM = 1
    OBSERVATION_UPDATE_DURATION_DEFAULT = 2
    CUMULATIVE_RANGE = 2
    MaxTime = 1
    PRICE_AGE = 1
    U128_MAX = 1000
    AMOUNT_MAX = 8
    K_MINT = kedolik
    KTokenAccounts = {user_k, vault_k}
    K_SUPPLY = 4
    FeedPrices = {0, 1}
    DECIMALS = 0
INVARIANT KTokenSwapAvailable
