SPECIFICATION ClientSafety
CONSTANTS
    FEE_RATE_DENOMINATOR_VALUE = 8
    MAX_FEE_BASIS_POINTS = 4
    U64_MAX = 60
    LOCK_LP_AMOUNT = 1
    Q32 = 1
    Amounts = {8}
    Limits = {}
    Statuses <- MCEnabled
    OpenTimes = {0}
    MintFees = {}
    ConfigParams <- MCConfigs
    ConfigUpdates <- MCUpdates
    Accounts = {admin}
    ADMIN = admin
    DEFAULT_PUBKEY = default_key
    FeeRateValues = {}
    FeeTokenMints = {}
    DiscountRates = {}
    MAX_DISCOUNT_RATE = 0
    OBSERVATION_NUM = 1
    OBSERVATION_UPDATE_DURATION_DEFAULT = 2
    CUMULATIVE_RANGE = 2
    MaxTime = 1
    MintPairs <- MCSteadyPairs
    MaxEpoch = 1
    MaxOthers = 1
    SlippagePercent = 10
    FLOAT_PRECISION = 500
    Commands = {"deposit"}
    CommandAmounts = {6}
INVARIANT LiquidityQuotesStand
