--------------------------- MODULE OracleLogProofs ---------------------------
(***************************************************************************)
(* The ring of observations is a window on the log, whatever its size, the *)
(* spacing, the width of the sums, the prices and the way the clock moves. *)
(*                                                                         *)
(* What RingIsWindowOnLog leaves out and its induction needs: the log is   *)
(* empty exactly while the account is not marked (LogStarted), so that the *)
(* step that marks it writes the first entry; and while the price differs  *)
(* from the one the clock found, the newest observation is too young for   *)
(* another to follow (MovedPriceTooYoung).                                 *)
(***************************************************************************)
EXTENDS OracleLog, TLAPS

\* The log starts with the swap that marks the account.
LogStarted == observation_state.initialized <=> log # << >>

\* A price that moved since the clock did moved in a swap that recorded, or
\* found a record too young to be followed by another.
MovedPriceTooYoung ==
    price # opening =>
        /\ observation_state.initialized
        /\ delta_time < OBSERVATION_UPDATE_DURATION_DEFAULT

LogInv ==
    /\ LogTypeOK
    /\ LogStarted
    /\ RingIsWindowOnLog
    /\ ObservationsSpacedApart
    /\ MovedPriceTooYoung

-----------------------------------------------------------------------------
(* Arithmetic. *)

\* A product of naturals is a natural number.
LEMMA ProductNat ==
    ASSUME NEW a \in Nat, NEW b \in Nat
    PROVE  a * b \in Nat
  OBVIOUS

\* The remainder is a natural number below the divisor, and the quotient is
\* what makes up for the rest.
LEMMA Remainder ==
    ASSUME NEW a \in Nat, NEW r \in Nat \ {0}
    PROVE  /\ a % r \in 0 .. r - 1
           /\ a \div r \in Nat
           /\ a % r = a - r * (a \div r)
<1>1. a % r \in Int /\ a % r >= 0 /\ a % r < r
  <2>1. a % r \in Int
    OBVIOUS
  <2>2. a % r >= 0
    OBVIOUS
  <2>3. a % r < r
    OBVIOUS
  <2>4. QED
    BY <2>1, <2>2, <2>3, Zenon
<1>2. \A m \in Int : m >= 0 /\ m < r => m \in 0 .. r - 1
  OBVIOUS
<1>3. a % r \in 0 .. r - 1
  BY <1>1, <1>2, Zenon
<1>4. a \div r \in Nat
  OBVIOUS
<1>5. a % r = a - r * (a \div r)
  OBVIOUS
<1>6. QED
  BY <1>3, <1>4, <1>5, Zenon

\* Only one pair of a quotient and a remainder makes up a number.
LEMMA RemainderUnique ==
    ASSUME NEW r \in Nat \ {0}, NEW p \in Nat, NEW q \in Nat,
           NEW c \in 0 .. r - 1, NEW d \in 0 .. r - 1,
           r * p + c = r * q + d
    PROVE  c = d
<1>1. CASE p = q
  BY <1>1
<1>2. CASE p < q
  <2>1. PICK e \in Nat : q = p + 1 + e
    <3>1. q - p - 1 \in Nat /\ q = p + 1 + (q - p - 1)
      BY <1>2
    <3>2. QED  BY <3>1
  <2>2. r * q = r * p + r + r * e /\ r * e \in Nat
    BY <2>1
  <2>3. QED
    BY <2>2
<1>3. CASE q < p
  <2>1. PICK e \in Nat : p = q + 1 + e
    <3>1. p - q - 1 \in Nat /\ p = q + 1 + (p - q - 1)
      BY <1>3
    <3>2. QED  BY <3>1
  <2>2. r * p = r * q + r + r * e /\ r * e \in Nat
    BY <2>1
  <2>3. QED
    BY <2>2
<1>4. QED
  BY <1>1, <1>2, <1>3

\* Reducing a sum after every addition is reducing it once.
LEMMA WrappingAdd ==
    ASSUME NEW a \in Nat, NEW b \in Nat, NEW r \in Nat \ {0}
    PROVE  ((a % r) + b) % r = (a + b) % r
<1>1. PICK c \in 0 .. r - 1 : c = a % r
  BY Remainder, Zenon
<1>2. PICK p \in Nat : c = a - r * p
  BY <1>1, Remainder, Zenon
<1>3. PICK s \in Nat : s = c + b
  BY <1>1
<1>4. PICK t \in Nat : t = a + b
  OBVIOUS
<1>5. PICK m \in Nat : s % r = s - r * m
  BY <1>3, Remainder, Zenon
<1>6. PICK n \in Nat : t % r = t - r * n
  BY <1>4, Remainder, Zenon
<1>7. PICK d \in 0 .. r - 1 : d = s % r
  BY Remainder, Zenon
<1>8. PICK e \in 0 .. r - 1 : e = t % r
  BY Remainder, Zenon
<1>9. d = s - r * m /\ e = t - r * n
  BY <1>5, <1>6, <1>7, <1>8, Zenon
<1>10. r * (p + m) + d = r * n + e /\ p + m \in Nat
  <2>1. r * (p + m) = r * p + r * m
    OBVIOUS
  <2>2. r * p \in Nat /\ r * m \in Nat /\ r * n \in Nat /\ r * (p + m) \in Nat
    BY ProductNat
  <2>3. QED
    BY <1>2, <1>3, <1>4, <1>9, <2>1, <2>2
<1>11. d = e
  BY <1>10, RemainderUnique
<1>12. QED
  BY <1>1, <1>3, <1>4, <1>7, <1>8, <1>11, Zenon

-----------------------------------------------------------------------------
(* The ring. *)

\* Counting back from an index of the ring passes over its end once.
LEMMA SlotBefore ==
    ASSUME NEW index \in Slots, NEW k \in Slots
    PROVE  (index + OBSERVATION_NUM - k) % OBSERVATION_NUM
               = IF k <= index THEN index - k ELSE index + OBSERVATION_NUM - k
  BY OracleAssumption DEF Slots

\* The slot written next is in the ring.
LEMMA NextIndex ==
    ASSUME TypeOK
    PROVE  next_observation_index \in Slots
  BY OracleAssumption DEF TypeOK, ObservationState, Slots, next_observation_index

\* Seen from the slot written next, every other slot is one further back.
LEMMA StepBack ==
    ASSUME TypeOK, NEW k \in Slots
    PROVE  (next_observation_index + OBSERVATION_NUM - k) % OBSERVATION_NUM
               = IF k = 0 THEN next_observation_index ELSE slot_before(k - 1)
<1> DEFINE index == observation_state.observation_index
           next == next_observation_index
<1>1. index \in Slots /\ next \in Slots /\ OBSERVATION_NUM \in Nat \ {0}
  BY NextIndex, OracleAssumption DEF TypeOK, ObservationState
<1>2. next = IF index = OBSERVATION_NUM - 1 THEN 0 ELSE index + 1
  BY DEF next_observation_index
<1>3. slot_before(k - 1) = (index + OBSERVATION_NUM - (k - 1)) % OBSERVATION_NUM
  BY DEF slot_before
<1> HIDE DEF index, next
<1>4. (next + OBSERVATION_NUM - k) % OBSERVATION_NUM
          = IF k <= next THEN next - k ELSE next + OBSERVATION_NUM - k
  BY <1>1, SlotBefore
<1>5. CASE k = 0
  BY <1>1, <1>4, <1>5 DEF Slots, next
<1>6. CASE k # 0
  <2>1. k - 1 \in Slots
    BY <1>1, <1>6 DEF Slots
  <2>2. slot_before(k - 1)
            = IF k - 1 <= index THEN index - (k - 1) ELSE index + OBSERVATION_NUM - (k - 1)
    BY <1>1, <1>3, <2>1, SlotBefore
  <2>3. QED
    BY <1>1, <1>2, <1>4, <1>6, <2>2 DEF Slots, next
<1>7. QED
  BY <1>5, <1>6

\* No slot up to the one before last, counted back, is the slot written next.
LEMMA NextIndexIsOldest ==
    ASSUME TypeOK, NEW k \in Slots, k # 0
    PROVE  slot_before(k - 1) \in Slots /\ slot_before(k - 1) # next_observation_index
<1> DEFINE index == observation_state.observation_index
           next == next_observation_index
<1>1. index \in Slots /\ OBSERVATION_NUM \in Nat \ {0} /\ k - 1 \in Slots
  BY OracleAssumption DEF TypeOK, ObservationState, Slots
<1>2. next = IF index = OBSERVATION_NUM - 1 THEN 0 ELSE index + 1
  BY DEF next_observation_index
<1>3. slot_before(k - 1)
            = IF k - 1 <= index THEN index - (k - 1) ELSE index + OBSERVATION_NUM - (k - 1)
  BY <1>1, SlotBefore DEF slot_before
<1> HIDE DEF index, next
<1>4. QED
  BY <1>1, <1>2, <1>3 DEF Slots, next

-----------------------------------------------------------------------------
(* The log. *)

\* The newest entry of a log that has one, as the account shows it.
LEMMA NewestShown ==
    ASSUME LogInv, log # << >>
    PROVE  /\ Len(log) \in Nat \ {0}
           /\ newest \in LogEntry
           /\ last_observation.block_timestamp = newest.time
           /\ last_observation.cumulative_token_0_price_x32 = newest.sum0 % CUMULATIVE_RANGE
           /\ last_observation.cumulative_token_1_price_x32 = newest.sum1 % CUMULATIVE_RANGE
<1>1. log \in Seq(LogEntry)
  BY DEF LogInv, LogTypeOK
<1>2. Len(log) \in Nat \ {0} /\ newest \in LogEntry
  BY <1>1 DEF newest
<1>3. observation_state.observation_index \in Slots /\ 0 \in Slots
  BY OracleAssumption DEF LogInv, LogTypeOK, TypeOK, ObservationState, Slots
<1>4. slot_before(0) = observation_state.observation_index
  BY <1>3, SlotBefore DEF slot_before, Slots
<1>5. 0 \in 0 .. OBSERVATION_NUM - 1 /\ 0 < Len(log) /\ log[Len(log) - 0] = newest
  BY <1>2, <1>3 DEF Slots, newest
<1>6. QED
  BY <1>2, <1>4, <1>5 DEF LogInv, RingIsWindowOnLog, last_observation

\* The parts of the account the updates read.
LEMMA AccountParts ==
    ASSUME TypeOK
    PROVE  /\ observation_state.initialized \in BOOLEAN
           /\ observation_state.observation_index \in Slots
           /\ observation_state.observations \in [Slots -> Observation]
           /\ last_observation \in Observation
           /\ last_observation.block_timestamp \in Nat
           /\ last_observation.cumulative_token_0_price_x32 \in Nat
           /\ last_observation.cumulative_token_1_price_x32 \in Nat
           /\ unix_timestamp \in Nat
           /\ delta_time \in Nat
  BY OracleAssumption DEF TypeOK, ObservationState, Observation, last_observation, delta_time

\* What the three outcomes of an update leave in the account.
LEMMA FirstUpdateWrites ==
    ASSUME TypeOK, FirstUpdate
    PROVE  /\ observation_state' \in ObservationState
           /\ observation_state'.initialized
           /\ observation_state'.observation_index = observation_state.observation_index
           /\ observation_state'.observations =
                  [observation_state.observations EXCEPT
                      ![observation_state.observation_index] =
                          [ZeroObservation EXCEPT !.block_timestamp = unix_timestamp]]
           /\ observation_state' # observation_state
<1>1. [ZeroObservation EXCEPT !.block_timestamp = unix_timestamp] \in Observation
  BY OracleAssumption DEF TypeOK, ZeroObservation, Observation
<1>2. QED
  BY <1>1 DEF TypeOK, ObservationState, FirstUpdate

LEMMA AppendUpdateWrites ==
    ASSUME TypeOK, NEW p \in Nat, NEW q \in Nat, AppendUpdate(p, q)
    PROVE  /\ observation_state' \in ObservationState
           /\ observation_state'.initialized
           /\ observation_state'.observation_index = next_observation_index
           /\ observation_state'.observations =
                  [observation_state.observations EXCEPT
                      ![next_observation_index] = next_observation(p, q)]
           /\ unix_timestamp >= last_observation.block_timestamp
                                    + OBSERVATION_UPDATE_DURATION_DEFAULT
           /\ delta_time = unix_timestamp - last_observation.block_timestamp
           /\ observation_state' # observation_state
<1>1. next_observation(p, q) \in Observation
  <2>1. p * delta_time \in Nat /\ q * delta_time \in Nat
    BY AccountParts, ProductNat
  <2>2. /\ last_observation.cumulative_token_0_price_x32 + p * delta_time \in Nat
        /\ last_observation.cumulative_token_1_price_x32 + q * delta_time \in Nat
    BY <2>1, AccountParts
  <2>3. /\ (last_observation.cumulative_token_0_price_x32 + p * delta_time)
                % CUMULATIVE_RANGE \in 0 .. CUMULATIVE_RANGE - 1
        /\ (last_observation.cumulative_token_1_price_x32 + q * delta_time)
                % CUMULATIVE_RANGE \in 0 .. CUMULATIVE_RANGE - 1
    BY <2>2, OracleAssumption, Remainder
  <2>4. QED
    BY <2>3, AccountParts DEF next_observation, Observation
<1>2. next_observation_index \in Slots
  BY NextIndex
<1>3. /\ observation_state'.observation_index = next_observation_index
      /\ observation_state'.observations =
             [observation_state.observations EXCEPT
                 ![next_observation_index] = next_observation(p, q)]
      /\ observation_state'.initialized
      /\ observation_state' \in ObservationState
  BY <1>1, <1>2 DEF TypeOK, ObservationState, AppendUpdate
<1>4. /\ unix_timestamp >= last_observation.block_timestamp
                               + OBSERVATION_UPDATE_DURATION_DEFAULT
      /\ delta_time = unix_timestamp - last_observation.block_timestamp
  BY AccountParts, OracleAssumption DEF AppendUpdate, delta_time
<1>5. observation_state' # observation_state
  <2>1. SUFFICES ASSUME observation_state' = observation_state
                 PROVE  FALSE
    OBVIOUS
  <2>2. last_observation = next_observation(p, q)
    BY <1>2, <1>3, <2>1, AccountParts DEF last_observation
  <2>3. last_observation.block_timestamp = unix_timestamp
    BY <2>2 DEF next_observation
  <2>4. QED
    BY <1>4, <2>3, AccountParts, OracleAssumption
<1>6. QED
  BY <1>3, <1>4, <1>5

\* The entry a swap would append is one of the log, if the clock has not stepped
\* behind the newest one.
LEMMA RecordedIsEntry ==
    ASSUME LogInv, log # << >> => unix_timestamp >= newest.time
    PROVE  recorded \in LogEntry /\ recorded.time = unix_timestamp
<1>1. CASE log = << >>
  BY <1>1 DEF LogInv, LogTypeOK, TypeOK, recorded, LogEntry
<1>2. CASE log # << >>
  <2>1. /\ newest.time \in Nat /\ newest.sum0 \in Nat /\ newest.sum1 \in Nat
        /\ unix_timestamp - newest.time \in Nat
    BY <1>2, NewestShown DEF LogInv, LogTypeOK, TypeOK, LogEntry
  <2>2. price[1] \in Nat /\ price[2] \in Nat
    BY LogAssumption DEF LogInv, LogTypeOK
  <2>3. /\ price[1] * (unix_timestamp - newest.time) \in Nat
        /\ price[2] * (unix_timestamp - newest.time) \in Nat
    BY <2>1, <2>2, ProductNat
  <2>4. /\ newest.sum0 + price[1] * (unix_timestamp - newest.time) \in Nat
        /\ newest.sum1 + price[2] * (unix_timestamp - newest.time) \in Nat
    BY <2>1, <2>3
  <2>5. unix_timestamp \in Nat
    BY DEF LogInv, LogTypeOK, TypeOK
  <2>6. QED
    BY <1>2, <2>4, <2>5, Zenon DEF recorded, LogEntry
<1>3. QED
  BY <1>1, <1>2

-----------------------------------------------------------------------------
(* The steps. *)

\* The ring of an empty log: the account is marked and its one slot is shown.
LEMMA RingStarts ==
    ASSUME LogInv, FirstUpdate, log' = Append(log, recorded)
    PROVE  log = << >> /\ RingIsWindowOnLog'
<1>1. log = << >>
  BY DEF LogInv, LogStarted, FirstUpdate
<1>2. recorded = [time |-> unix_timestamp, sum0 |-> 0, sum1 |-> 0]
  BY <1>1 DEF recorded
<1>3. Len(log') = 1 /\ log'[1] = recorded
  BY <1>1, <1>2
<1>4. TypeOK
  BY DEF LogInv, LogTypeOK
<1>5. observation_state.observation_index \in Slots /\ 0 \in Slots
  BY <1>4, AccountParts, OracleAssumption DEF Slots
<1>6. slot_before(0)' = observation_state.observation_index
  BY <1>4, <1>5, FirstUpdateWrites, SlotBefore DEF slot_before, Slots
<1>7. observation_state'.observations[observation_state.observation_index]
          = [ZeroObservation EXCEPT !.block_timestamp = unix_timestamp]
  BY <1>4, <1>5, AccountParts, FirstUpdateWrites
<1>8. 0 % CUMULATIVE_RANGE = 0
  BY OracleAssumption
<1>9. QED
  <2>1. SUFFICES ASSUME NEW k \in 0 .. OBSERVATION_NUM - 1, k < Len(log')
                 PROVE  LET entry == log'[Len(log') - k]
                            slot  == observation_state'.observations[slot_before(k)']
                        IN  /\ slot.block_timestamp = entry.time
                            /\ slot.cumulative_token_0_price_x32 = entry.sum0 % CUMULATIVE_RANGE
                            /\ slot.cumulative_token_1_price_x32 = entry.sum1 % CUMULATIVE_RANGE
    BY <1>1 DEF RingIsWindowOnLog
  <2>2. k = 0
    BY <1>3, <2>1, OracleAssumption
  <2>3. log'[Len(log') - k] = recorded
    BY <1>3, <2>2
  <2>4. QED
    BY <1>2, <1>6, <1>7, <1>8, <2>2, <2>3 DEF ZeroObservation

\* The observation written is the entry recorded, its sums reduced.
LEMMA WrittenIsRecorded ==
    ASSUME LogInv, log # << >>, AppendUpdate(price[1], price[2]),
           NEW written, written = next_observation(price[1], price[2])
    PROVE  /\ written.block_timestamp = recorded.time
           /\ written.cumulative_token_0_price_x32 = recorded.sum0 % CUMULATIVE_RANGE
           /\ written.cumulative_token_1_price_x32 = recorded.sum1 % CUMULATIVE_RANGE
<1> DEFINE time == unix_timestamp - newest.time
<1>1. TypeOK /\ price[1] \in Nat /\ price[2] \in Nat
  BY LogAssumption DEF LogInv, LogTypeOK
<1>2. /\ newest.time \in Nat /\ newest.sum0 \in Nat /\ newest.sum1 \in Nat
      /\ last_observation.block_timestamp = newest.time
      /\ last_observation.cumulative_token_0_price_x32 = newest.sum0 % CUMULATIVE_RANGE
      /\ last_observation.cumulative_token_1_price_x32 = newest.sum1 % CUMULATIVE_RANGE
  BY NewestShown DEF LogEntry
<1>3. delta_time = time /\ time \in Nat
  BY <1>1, <1>2, AccountParts, AppendUpdateWrites, OracleAssumption
<1> HIDE DEF time
<1>4. price[1] * time \in Nat /\ price[2] * time \in Nat
  BY <1>1, <1>3, ProductNat
<1>5. /\ ((newest.sum0 % CUMULATIVE_RANGE) + price[1] * time) % CUMULATIVE_RANGE
             = (newest.sum0 + price[1] * time) % CUMULATIVE_RANGE
      /\ ((newest.sum1 % CUMULATIVE_RANGE) + price[2] * time) % CUMULATIVE_RANGE
             = (newest.sum1 + price[2] * time) % CUMULATIVE_RANGE
  BY <1>2, <1>4, WrappingAdd, OracleAssumption
<1>6. recorded = [time |-> unix_timestamp,
                  sum0 |-> newest.sum0 + price[1] * time,
                  sum1 |-> newest.sum1 + price[2] * time]
  BY Zenon DEF recorded, time
<1>7. written = [block_timestamp |-> unix_timestamp,
                 cumulative_token_0_price_x32 |->
                     ((newest.sum0 % CUMULATIVE_RANGE) + price[1] * time) % CUMULATIVE_RANGE,
                 cumulative_token_1_price_x32 |->
                     ((newest.sum1 % CUMULATIVE_RANGE) + price[2] * time) % CUMULATIVE_RANGE]
  BY <1>2, <1>3, Zenon DEF next_observation
<1>8. /\ recorded.time = unix_timestamp
      /\ recorded.sum0 = newest.sum0 + price[1] * time
      /\ recorded.sum1 = newest.sum1 + price[2] * time
  BY <1>6, Zenon
<1>9. /\ written.block_timestamp = unix_timestamp
      /\ written.cumulative_token_0_price_x32
             = ((newest.sum0 % CUMULATIVE_RANGE) + price[1] * time) % CUMULATIVE_RANGE
      /\ written.cumulative_token_1_price_x32
             = ((newest.sum1 % CUMULATIVE_RANGE) + price[2] * time) % CUMULATIVE_RANGE
  BY <1>7
<1>10. QED
  BY <1>5, <1>8, <1>9, Zenon

\* The ring after an observation: the slot written shows the entry appended,
\* every other slot shows what it showed, one further back.
LEMMA RingFollows ==
    ASSUME LogInv, AppendUpdate(price[1], price[2]), log' = Append(log, recorded)
    PROVE  RingIsWindowOnLog'
<1>1. TypeOK /\ price[1] \in Nat /\ price[2] \in Nat /\ log \in Seq(LogEntry)
  BY LogAssumption DEF LogInv, LogTypeOK
<1>2. log # << >>
  BY DEF LogInv, LogStarted, AppendUpdate
<1>3. /\ Len(log) \in Nat \ {0} /\ Len(log') = Len(log) + 1
      /\ log'[Len(log')] = recorded
      /\ \A i \in 1 .. Len(log) : log'[i] = log[i]
  BY <1>1, <1>2, NewestShown
<1>4. /\ observation_state'.observation_index = next_observation_index
      /\ observation_state'.observations =
             [observation_state.observations EXCEPT
                 ![next_observation_index] = next_observation(price[1], price[2])]
      /\ next_observation_index \in Slots
      /\ observation_state.observations \in [Slots -> Observation]
  BY <1>1, AppendUpdateWrites, NextIndex, AccountParts
<1>5. SUFFICES ASSUME NEW k \in Slots, k < Len(log')
               PROVE  LET entry == log'[Len(log') - k]
                          slot  == observation_state'.observations[slot_before(k)']
                      IN  /\ slot.block_timestamp = entry.time
                          /\ slot.cumulative_token_0_price_x32 = entry.sum0 % CUMULATIVE_RANGE
                          /\ slot.cumulative_token_1_price_x32 = entry.sum1 % CUMULATIVE_RANGE
  BY DEF RingIsWindowOnLog, Slots
<1>6. slot_before(k)' = IF k = 0 THEN next_observation_index ELSE slot_before(k - 1)
  BY <1>1, <1>4, StepBack DEF slot_before
<1>7. CASE k = 0
  <2>1. log'[Len(log') - k] = recorded
    BY <1>3, <1>7
  <2>2. observation_state'.observations[slot_before(k)']
            = next_observation(price[1], price[2])
    BY <1>4, <1>6, <1>7
  <2>3. QED
    BY <1>2, <2>1, <2>2, WrittenIsRecorded
<1>8. CASE k # 0
  <2>1. k - 1 \in 0 .. OBSERVATION_NUM - 1 /\ k - 1 < Len(log) /\ k \in Nat
    BY <1>3, <1>5, <1>8, OracleAssumption DEF Slots
  <2>2. log'[Len(log') - k] = log[Len(log) - (k - 1)]
    BY <1>3, <2>1
  <2>3. observation_state'.observations[slot_before(k)']
            = observation_state.observations[slot_before(k - 1)]
    BY <1>1, <1>4, <1>6, <1>8, NextIndexIsOldest
  <2>4. QED
    BY <2>1, <2>2, <2>3 DEF LogInv, RingIsWindowOnLog
<1>9. QED
  BY <1>7, <1>8

\* Consecutive entries of the log after one is appended: the last pair are the
\* entry that was newest and the one recorded.
LEMMA SpacingFollows ==
    ASSUME LogInv, log' = Append(log, recorded),
           log # << >> =>
               unix_timestamp >= newest.time + OBSERVATION_UPDATE_DURATION_DEFAULT
    PROVE  ObservationsSpacedApart'
<1>1. log \in Seq(LogEntry) /\ Len(log) \in Nat
  BY DEF LogInv, LogTypeOK
<1>2. /\ Len(log') = Len(log) + 1 /\ log'[Len(log) + 1] = recorded
      /\ \A i \in 1 .. Len(log) : log'[i] = log[i]
  BY <1>1
<1>3. recorded.time = unix_timestamp
  BY DEF recorded
<1>4. SUFFICES ASSUME NEW i \in 1 .. Len(log') - 1
               PROVE  log'[i + 1].time >= log'[i].time + OBSERVATION_UPDATE_DURATION_DEFAULT
  BY DEF ObservationsSpacedApart
<1>5. CASE i = Len(log)
  <2>1. log # << >> /\ log'[i] = newest /\ log'[i + 1] = recorded
    BY <1>1, <1>2, <1>4, <1>5 DEF newest
  <2>2. QED
    BY <1>3, <2>1
<1>6. CASE i # Len(log)
  <2>1. i \in 1 .. Len(log) - 1 /\ log'[i] = log[i] /\ log'[i + 1] = log[i + 1]
    BY <1>1, <1>2, <1>4, <1>6
  <2>2. QED
    BY <2>1 DEF LogInv, ObservationsSpacedApart
<1>7. QED
  BY <1>5, <1>6

\* When an entry is appended, the clock has left the newest one behind, by the
\* spacing at least.
LEMMA AppendsLater ==
    ASSUME LogInv, ObservationUpdate(price[1], price[2]),
           observation_state' # observation_state, log # << >>
    PROVE  /\ AppendUpdate(price[1], price[2])
           /\ delta_time >= OBSERVATION_UPDATE_DURATION_DEFAULT
           /\ unix_timestamp >= newest.time + OBSERVATION_UPDATE_DURATION_DEFAULT
           /\ unix_timestamp >= newest.time
<1>1. TypeOK /\ price[1] \in Nat /\ price[2] \in Nat
  BY LogAssumption DEF LogInv, LogTypeOK
<1>2. AppendUpdate(price[1], price[2])
  BY DEF LogInv, LogStarted, ObservationUpdate, FirstUpdate, SkipUpdate
<1>3. newest.time \in Nat /\ last_observation.block_timestamp = newest.time
  BY NewestShown DEF LogEntry
<1>4. unix_timestamp >= newest.time + OBSERVATION_UPDATE_DURATION_DEFAULT
  BY <1>1, <1>2, <1>3, AppendUpdateWrites
<1>5. unix_timestamp >= newest.time
  BY <1>1, <1>3, <1>4, AccountParts, OracleAssumption
<1>6. QED
  BY <1>2, <1>4, <1>5 DEF AppendUpdate

\* Right after an observation the clock is at the newest one.
LEMMA JustObserved ==
    ASSUME TypeOK, NEW p \in Nat, NEW q \in Nat, FirstUpdate \/ AppendUpdate(p, q),
           unix_timestamp' = unix_timestamp
    PROVE  observation_state'.initialized /\ delta_time' = 0
<1>0. unix_timestamp \in Nat /\ unix_timestamp' = unix_timestamp
  BY AccountParts
<1>1. CASE FirstUpdate
  <2>1. last_observation'.block_timestamp = unix_timestamp
    BY <1>1, AccountParts, FirstUpdateWrites DEF last_observation, ZeroObservation
  <2>2. QED
    BY <1>1, <1>0, <2>1, FirstUpdateWrites DEF delta_time
<1>2. CASE AppendUpdate(p, q)
  <2>1. /\ observation_state'.initialized
        /\ observation_state'.observation_index = next_observation_index
        /\ observation_state'.observations =
               [observation_state.observations EXCEPT
                   ![next_observation_index] = next_observation(p, q)]
    BY <1>2, AppendUpdateWrites
  <2>2. observation_state.observations \in [Slots -> Observation]
    BY AccountParts
  <2>3. last_observation' = next_observation(p, q)
    BY <2>1, <2>2, NextIndex DEF last_observation
  <2>4. last_observation'.block_timestamp = unix_timestamp
    BY <2>3 DEF next_observation
  <2>5. QED
    BY <1>0, <2>1, <2>4 DEF delta_time
<1>3. QED
  BY <1>1, <1>2

\* A swap that found the newest observation old enough, or none.
LEMMA RecordingSwapKeeps ==
    ASSUME LogInv, NEW after \in Prices \X Prices, Swap(after),
           observation_state' # observation_state
    PROVE  LogInv' /\ price = opening
<1>1. TypeOK /\ price[1] \in Nat /\ price[2] \in Nat /\ log \in Seq(LogEntry)
  BY LogAssumption DEF LogInv, LogTypeOK
<1>2. /\ ObservationUpdate(price[1], price[2])
      /\ log' = Append(log, recorded)
      /\ standing' = <<0, 0>>
      /\ price' = after
      /\ unix_timestamp' = unix_timestamp
      /\ opening' = opening
  BY DEF Swap
<1>3. FirstUpdate \/ AppendUpdate(price[1], price[2])
  BY <1>2 DEF ObservationUpdate, SkipUpdate
<1>4. observation_state' \in ObservationState
  BY <1>1, <1>3, FirstUpdateWrites, AppendUpdateWrites
<1>5. recorded \in LogEntry
  BY <1>2, AppendsLater, RecordedIsEntry
<1>6. LogTypeOK'
  BY <1>1, <1>2, <1>4, <1>5 DEF LogInv, LogTypeOK, TypeOK
<1>7. observation_state'.initialized /\ delta_time' = 0
  BY <1>1, <1>2, <1>3, JustObserved
<1>8. LogStarted'
  <2>1. log' # << >>
    BY <1>1, <1>2, <1>5
  <2>2. QED
    BY <1>7, <2>1 DEF LogStarted
<1>9. RingIsWindowOnLog'
  BY <1>2, <1>3, RingStarts, RingFollows
<1>10. ObservationsSpacedApart'
  BY <1>2, AppendsLater, SpacingFollows
<1>11. MovedPriceTooYoung'
  BY <1>7, OracleAssumption DEF MovedPriceTooYoung
<1>12. price = opening
  <2>1. CASE FirstUpdate
    BY <2>1 DEF LogInv, MovedPriceTooYoung, FirstUpdate
  <2>2. CASE AppendUpdate(price[1], price[2])
    BY <1>1, <2>2, AccountParts, OracleAssumption
       DEF LogInv, MovedPriceTooYoung, AppendUpdate
  <2>3. QED
    BY <1>3, <2>1, <2>2
<1>13. QED
  BY <1>6, <1>8, <1>9, <1>10, <1>11, <1>12 DEF LogInv

\* A swap that came too soon only moves the price.
LEMMA SkippingSwapKeeps ==
    ASSUME LogInv, NEW after \in Prices \X Prices, Swap(after),
           observation_state' = observation_state
    PROVE  LogInv' /\ log' = log
<1>1. /\ price' = after /\ log' = log /\ standing' = standing
      /\ unix_timestamp' = unix_timestamp /\ opening' = opening
  BY DEF Swap
<1>2. SkipUpdate
  <2>1. TypeOK /\ price[1] \in Nat /\ price[2] \in Nat
    BY LogAssumption DEF LogInv, LogTypeOK
  <2>2. QED
    BY <2>1, FirstUpdateWrites, AppendUpdateWrites DEF Swap, ObservationUpdate
<1>3. LogTypeOK'
  BY <1>1 DEF LogInv, LogTypeOK, TypeOK
<1>4. LogStarted' /\ RingIsWindowOnLog' /\ ObservationsSpacedApart'
  BY <1>1 DEF LogInv, LogStarted, RingIsWindowOnLog, slot_before, ObservationsSpacedApart
<1>5. MovedPriceTooYoung'
  BY <1>1, <1>2 DEF MovedPriceTooYoung, SkipUpdate, delta_time, last_observation
<1>6. QED
  BY <1>1, <1>3, <1>4, <1>5 DEF LogInv

\* The clock opens a second at the standing price.
LEMMA ClockKeeps ==
    ASSUME LogInv, ClockMovesOn
    PROVE  LogInv' /\ log' = log
<1>1. /\ observation_state' = observation_state /\ log' = log /\ price' = price
      /\ unix_timestamp' \in Nat
      /\ opening' = IF unix_timestamp' = unix_timestamp THEN opening ELSE price
  BY OracleAssumption DEF ClockMovesOn, ClockMoves
<1>2. LogTypeOK'
  <2>1. standing' \in Int \X Int
    <3>1. CASE ~observation_state.initialized
      BY <3>1 DEF ClockMovesOn, LogInv, LogTypeOK
    <3>2. CASE observation_state.initialized
      <4>1. /\ standing \in Int \X Int /\ price[1] \in Int /\ price[2] \in Int
            /\ unix_timestamp' - unix_timestamp \in Int
        <5>1. standing \in Int \X Int /\ price[1] \in Nat /\ price[2] \in Nat
          BY LogAssumption DEF LogInv, LogTypeOK
        <5>2. unix_timestamp \in Nat
          BY DEF LogInv, LogTypeOK, TypeOK
        <5>3. QED
          BY <1>1, <5>1, <5>2
      <4>2. /\ price[1] * (unix_timestamp' - unix_timestamp) \in Int
            /\ price[2] * (unix_timestamp' - unix_timestamp) \in Int
        BY <4>1
      <4>3. /\ standing[1] + price[1] * (unix_timestamp' - unix_timestamp) \in Int
            /\ standing[2] + price[2] * (unix_timestamp' - unix_timestamp) \in Int
        BY <4>1, <4>2
      <4>4. QED
        BY <3>2, <4>3, Zenon DEF ClockMovesOn
    <3>3. QED
      BY <3>1, <3>2
  <2>2. QED
    BY <1>1, <2>1 DEF LogInv, LogTypeOK, TypeOK
<1>3. LogStarted' /\ RingIsWindowOnLog' /\ ObservationsSpacedApart'
  BY <1>1 DEF LogInv, LogStarted, RingIsWindowOnLog, slot_before, ObservationsSpacedApart
<1>4. MovedPriceTooYoung'
  BY <1>1 DEF LogInv, MovedPriceTooYoung, delta_time, last_observation
<1>5. QED
  BY <1>1, <1>2, <1>3, <1>4 DEF LogInv

\* A step that adds to the log finds the price the clock found.
LEMMA LogStep ==
    ASSUME LogInv, [Next]_vars
    PROVE  LogInv' /\ (log' # log => price = opening)
<1>1. CASE \E after \in Prices \X Prices : Swap(after)
  BY <1>1, RecordingSwapKeeps, SkippingSwapKeeps
<1>2. CASE ClockMovesOn
  BY <1>2, ClockKeeps
<1>3. CASE UNCHANGED vars
  BY <1>3 DEF vars, LogInv, LogTypeOK, TypeOK, LogStarted, RingIsWindowOnLog, slot_before,
              ObservationsSpacedApart, MovedPriceTooYoung, delta_time, last_observation
<1>4. QED
  BY <1>1, <1>2, <1>3 DEF Next

\* Nothing is recorded of a fresh account.
LEMMA LogStartsEmpty == LogInit => LogInv
<1> SUFFICES ASSUME LogInit PROVE LogInv
  OBVIOUS
<1>1. TypeOK
  BY OracleAssumption DEF LogInit, Init, TypeOK, EmptyObservations, ZeroObservation,
                          ObservationState, Observation, Slots
<1>2. LogTypeOK
  BY <1>1 DEF LogInit, LogTypeOK
<1>3. LogStarted /\ RingIsWindowOnLog /\ ObservationsSpacedApart
  BY OracleAssumption
     DEF LogInit, Init, EmptyObservations, LogStarted, RingIsWindowOnLog,
         ObservationsSpacedApart
<1>4. QED
  BY <1>2, <1>3 DEF LogInit, LogInv, MovedPriceTooYoung

\* The invariant of the oracle and its log.
LEMMA LogInvariant == Spec => []LogInv
<1>1. LogInv /\ [Next]_vars => LogInv'
  BY LogStep
<1>2. QED
  BY LogStartsEmpty, <1>1, PTL DEF Spec

-----------------------------------------------------------------------------

\* Whatever swaps and clock do, the account and the log stay in their types: the
\* index stays in the ring and the sums in the width of the account.
THEOREM LogTypeCorrect == Spec => []LogTypeOK
  BY LogInvariant, PTL DEF LogInv

\* The ring shows the newest entries of the log in order, for every size of the
\* ring and every width of the sums (oracle.rs:80-111).
THEOREM RingFollowsLog == Spec => []RingIsWindowOnLog
  BY LogInvariant, PTL DEF LogInv

\* Two consecutive observations are at least the configured time apart, also
\* over a clock that steps back (oracle.rs:89-92).
THEOREM ObservationsAreSpaced == Spec => []ObservationsSpacedApart
  BY LogInvariant, PTL DEF LogInv

\* An observation records the price that stood when the clock reached its time,
\* never one moved within that second (oracle.rs:89).
THEOREM RecordedPriceIsOpening == Spec => RecordedPriceStood
<1>1. LogInv /\ [Next]_vars => [log' # log => price = opening]_vars
  BY LogStep
<1>2. QED
  BY LogInvariant, <1>1, PTL DEF Spec, RecordedPriceStood
=============================================================================
