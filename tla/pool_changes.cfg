SPECIFICATION Spec
CONSTANTS
    FEE_RATE_DENOMINATOR_VALUE = 4
    MAX_FEE_BASIS_POINTS = 4
    U64_MAX = 5
    LOCK_LP_AMOUNT = 1
    Q32 = 1
    Amounts = {3, 4}
    Limits = {0, 5}
    Statuses <- MCStatuses
    OpenTimes = {0, 2}
    MintFees <- MCFeeMints
    ConfigParams <- MCConfigs
    ConfigUpdates <- MCUpdates
    Accounts = {admin, alice}
    ADMIN = admin
    DEFAULT_PUBKEY = default_key
    FeeRateValues = {}
    FeeTokenMints = {}
    DiscountRates = {}
    MAX_DISCOUNT_RATE = 0
    OBSERVATION_NUM = 1
    OBSERVATION_UPDATE_DURATION_DEFAULT = 1
    CUMULATIVE_RANGE = 2
    MaxTime = 2
INVARIANT TradesStartAtOpenTime
PROPERTY ImplementsShares
