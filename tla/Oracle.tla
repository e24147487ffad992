------------------------------- MODULE Oracle -------------------------------
(***************************************************************************)
(* The price oracle of one pool (states/oracle.rs): a ring of observations *)
(* that every swap tries to advance with the price it found, at most once  *)
(* per OBSERVATION_UPDATE_DURATION_DEFAULT seconds of the Clock sysvar.    *)
(*                                                                         *)
(* The clock is external: it may stand still, jump ahead and, as the       *)
(* saturating_sub of the code allows for, step back.                       *)
(***************************************************************************)
EXTENDS Integers

CONSTANTS
    OBSERVATION_NUM,                      \* 100 in the code
    OBSERVATION_UPDATE_DURATION_DEFAULT,  \* 15 seconds in the code
    CUMULATIVE_RANGE,                     \* 2^128: the sums wrap (wrapping_add)
    MaxTime                               \* bound on the clock

ASSUME OracleAssumption ==
    /\ OBSERVATION_NUM \in Nat \ {0}
    /\ OBSERVATION_UPDATE_DURATION_DEFAULT \in Nat \ {0}
    /\ CUMULATIVE_RANGE \in Nat \ {0}
    /\ MaxTime \in Nat

VARIABLES observation_state, unix_timestamp

Slots == 0 .. OBSERVATION_NUM - 1

Observation == [block_timestamp : Nat,
                cumulative_token_0_price_x32 : 0 .. CUMULATIVE_RANGE - 1,
                cumulative_token_1_price_x32 : 0 .. CUMULATIVE_RANGE - 1]

ObservationState == [initialized : BOOLEAN,
                     observation_index : Slots,
                     observations : [Slots -> Observation]]

TypeOK ==
    /\ observation_state \in ObservationState
    /\ unix_timestamp \in Nat

ZeroObservation == [block_timestamp |-> 0,
                    cumulative_token_0_price_x32 |-> 0,
                    cumulative_token_1_price_x32 |-> 0]

\* A fresh account: zeroed.
EmptyObservations == [initialized |-> FALSE, observation_index |-> 0,
                      observations |-> [i \in Slots |-> ZeroObservation]]

Init ==
    /\ observation_state = EmptyObservations
    /\ unix_timestamp \in 0 .. MaxTime

-----------------------------------------------------------------------------

last_observation == observation_state.observations[observation_state.observation_index]

\* Mutant: the distance between the clock readings, whichever is the later.
absolute_delta_time ==
    IF unix_timestamp >= last_observation.block_timestamp
    THEN unix_timestamp - last_observation.block_timestamp
    ELSE last_observation.block_timestamp - unix_timestamp

\* saturating_sub
delta_time == IF unix_timestamp >= last_observation.block_timestamp
              THEN unix_timestamp - last_observation.block_timestamp
              ELSE 0

\* Mutant: the index stops at the last slot.
saturating_observation_index ==
    IF observation_state.observation_index = OBSERVATION_NUM - 1
    THEN observation_state.observation_index
    ELSE observation_state.observation_index + 1

next_observation_index ==
    IF observation_state.observation_index = OBSERVATION_NUM - 1
    THEN 0
    ELSE observation_state.observation_index + 1

\* Mutant: the sums are not reduced to the width of the account.
unwrapped_observation(token_0_price_x32, token_1_price_x32) ==
    [block_timestamp |-> unix_timestamp,
     cumulative_token_0_price_x32 |->
         last_observation.cumulative_token_0_price_x32 + token_0_price_x32 * delta_time,
     cumulative_token_1_price_x32 |->
         last_observation.cumulative_token_1_price_x32 + token_1_price_x32 * delta_time]

\* Mutant: the time of the observation is not renewed.
untimed_observation(token_0_price_x32, token_1_price_x32) ==
    [last_observation EXCEPT
        !.cumulative_token_0_price_x32 =
            (@ + token_0_price_x32 * delta_time) % CUMULATIVE_RANGE,
        !.cumulative_token_1_price_x32 =
            (@ + token_1_price_x32 * delta_time) % CUMULATIVE_RANGE]

\* The observation written for the prices the swap found before trading.
next_observation(token_0_price_x32, token_1_price_x32) ==
    [block_timestamp |-> unix_timestamp,
     cumulative_token_0_price_x32 |->
         (last_observation.cumulative_token_0_price_x32 + token_0_price_x32 * delta_time)
             % CUMULATIVE_RANGE,
     cumulative_token_1_price_x32 |->
         (last_observation.cumulative_token_1_price_x32 + token_1_price_x32 * delta_time)
             % CUMULATIVE_RANGE]

\* The first swap of a pool marks the time and skips the price.
FirstUpdate ==
    /\ ~observation_state.initialized
    /\ observation_state' = [observation_state EXCEPT
           !.initialized = TRUE,
           !.observations[observation_state.observation_index] =
               [ZeroObservation EXCEPT !.block_timestamp = unix_timestamp]]

\* Too soon after the last observation: nothing is written.
SkipUpdate ==
    /\ observation_state.initialized
    /\ delta_time < OBSERVATION_UPDATE_DURATION_DEFAULT
    /\ UNCHANGED observation_state

AppendUpdate(token_0_price_x32, token_1_price_x32) ==
    /\ observation_state.initialized
    /\ delta_time >= OBSERVATION_UPDATE_DURATION_DEFAULT
    /\ observation_state' = [observation_state EXCEPT
           !.observations[next_observation_index] =
               next_observation(token_0_price_x32, token_1_price_x32),
           !.observation_index = next_observation_index]

\* ObservationState::update, called by every swap of the pool.
ObservationUpdate(token_0_price_x32, token_1_price_x32) ==
    \/ FirstUpdate
    \/ SkipUpdate
    \/ AppendUpdate(token_0_price_x32, token_1_price_x32)

\* The Clock sysvar of the next block.
ClockMoves ==
    /\ unix_timestamp' \in 0 .. MaxTime
    /\ UNCHANGED observation_state
=============================================================================
