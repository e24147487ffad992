------------------------------ MODULE OracleLog ------------------------------
(***************************************************************************)
(* What the ring of Oracle.tla promises a reader: it is a window on a log  *)
(* of observations whose sums are exact up to their wrap-around.  The log, *)
(* with unwrapped sums, is a history variable: the program does not keep   *)
(* it.  Prices are inputs here; Pool.tla composes the ring with the swaps  *)
(* that produce them.                                                      *)
(***************************************************************************)
EXTENDS Oracle, Sequences

CONSTANTS
    Prices,            \* prices found by swaps (x32 in the code)
    MaxObservations    \* bound on the length of the log

ASSUME LogAssumption == Prices \subseteq Nat /\ MaxObservations \in Nat

VARIABLES
    log,         \* every observation recorded, oldest first, sums unwrapped
    price,       \* the pool's price pair since the last swap
    opening,     \* the price pair when the clock last moved
    standing     \* integral of price over the clock since the newest observation

vars == <<observation_state, unix_timestamp, log, price, opening, standing>>

LogEntry == [time : Nat, sum0 : Nat, sum1 : Nat]

LogTypeOK ==
    /\ TypeOK
    /\ log \in Seq(LogEntry)
    /\ price \in Prices \X Prices
    /\ opening \in Prices \X Prices
    /\ standing \in Int \X Int

LogInit ==
    /\ Init
    /\ log = << >>
    /\ price \in Prices \X Prices
    /\ opening = price
    /\ standing = <<0, 0>>

newest == log[Len(log)]

recorded ==
    IF log = << >>
    THEN [time |-> unix_timestamp, sum0 |-> 0, sum1 |-> 0]
    ELSE [time |-> unix_timestamp,
          sum0 |-> newest.sum0 + price[1] * (unix_timestamp - newest.time),
          sum1 |-> newest.sum1 + price[2] * (unix_timestamp - newest.time)]

\* A swap offers the oracle the price it found, then moves the price.
Swap(after) ==
    /\ ObservationUpdate(price[1], price[2])
    /\ IF observation_state' = observation_state
       THEN UNCHANGED <<log, standing>>
       ELSE /\ Len(log) < MaxObservations
            /\ log' = Append(log, recorded)
            /\ standing' = <<0, 0>>
    /\ price' = after
    /\ UNCHANGED <<unix_timestamp, opening>>

\* Time passes at the standing price.
ClockMovesOn ==
    /\ ClockMoves
    /\ standing' = IF observation_state.initialized
                   THEN <<standing[1] + price[1] * (unix_timestamp' - unix_timestamp),
                          standing[2] + price[2] * (unix_timestamp' - unix_timestamp)>>
                   ELSE standing
    /\ opening' = IF unix_timestamp' = unix_timestamp THEN opening ELSE price
    /\ UNCHANGED <<log, price>>

Next == (\E after \in Prices \X Prices : Swap(after)) \/ ClockMovesOn

Spec == LogInit /\ [][Next]_vars

-----------------------------------------------------------------------------

\* The slot k observations before the newest one.
slot_before(k) == (observation_state.observation_index + OBSERVATION_NUM - k) % OBSERVATION_NUM

\* Walking the ring back from observation_index meets the newest entries of
\* the log in order, as many as fit, each with its sums reduced to the width
\* of the account: no swap overwrites the wrong slot at the wrap of the index,
\* and the difference of two observations is exact (oracle.rs:80-111).
RingIsWindowOnLog ==
    \A k \in 0 .. OBSERVATION_NUM - 1 : k < Len(log) =>
        LET entry == log[Len(log) - k]
            slot  == observation_state.observations[slot_before(k)]
        IN  /\ slot.block_timestamp = entry.time
            /\ slot.cumulative_token_0_price_x32 = entry.sum0 % CUMULATIVE_RANGE
            /\ slot.cumulative_token_1_price_x32 = entry.sum1 % CUMULATIVE_RANGE

\* Whatever the clock does, two consecutive observations are at least
\* OBSERVATION_UPDATE_DURATION_DEFAULT apart, so the ring always spans its
\* minimum history (oracle.rs:89-92).
ObservationsSpacedApart ==
    \A i \in 1 .. Len(log) - 1 :
        log[i + 1].time >= log[i].time + OBSERVATION_UPDATE_DURATION_DEFAULT

\* A price moved within a second is not recorded in that second: whatever
\* swaps share a timestamp, in one transaction or many, the price an observation
\* takes is the one that stood when the clock reached it.  It is the skip of
\* oracle.rs:89, not the order of the swaps, that ensures it.
RecordedPriceStood ==
    [][ log' # log => price = opening ]_vars

\* oracle.rs:19 calls the field "the cumulative of token0 price during the
\* duration time": what an observation adds is the price integrated over the
\* time since the one before.  The code adds the price found by the swap that
\* writes, times the whole duration: a price that stood in between, set by a
\* swap that came too soon to be recorded, is not counted.
CumulativeIsIntegral ==
    [][ Len(log') > Len(log) /\ log # << >> =>
            log'[Len(log')].sum0 - newest.sum0 = standing[1] ]_vars
=============================================================================
