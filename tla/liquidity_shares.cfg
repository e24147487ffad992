SPECIFICATION Spec
CONSTANTS
    MAX_AMOUNT = 12
    LOCKED = 2
INVARIANT SharesInv
PROPERTY ShareValueNeverFalls
