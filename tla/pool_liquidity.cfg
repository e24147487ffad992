SPECIFICATION Spec
CONSTANTS
    FEE_RATE_DENOMINATOR_VALUE = 4
    MAX_FEE_BASIS_POINTS = 4
    U64_MAX = 6
    LOCK_LP_AMOUNT = 1
    Q32 = 1
    Amounts = {1, 3, 4}
    Limits = {0, 6}
    Statuses <- MCEnabled
    OpenTimes = {0}
    MintFees <- MCPlainMints
    ConfigParams <- MCConfigs
    ConfigUpdates <- MCNoUpdates
    Accounts = {admin}
    ADMIN = admin
    DEFAULT_PUBKEY = default_key
    FeeRateValues = {}
    FeeTokenMints = {}
    DiscountRates = {}
    MAX_DISCOUNT_RATE = 0
    OBSERVATION_NUM = 1
    OBSERVATION_UPDATE_DURATION_DEFAULT = 2
    CUMULATIVE_RANGE = 2
    MaxTime = 1
INVARIANTS TypeOK Solvent LockedLiquidity ReservesPositive
PROPERTIES ImplementsShares CollectionPaysOnlyFees
