SPECIFICATION Spec
CONSTANTS
    OBSERVATION_NUM = 2
    OBSERVATION_UPDATE_DURATION_DEFAULT = 2
    CUMULATIVE_RANGE = 4
    MaxTime = 7
    MaxObservations = 4
    Prices <- MCPrices
INVARIANTS LogTypeOK RingIsWindowOnLog ObservationsSpacedApart
PROPERTY RecordedPriceStood
VIEW RingView
