------------------------------ MODULE PoolProofs ------------------------------
(***************************************************************************)
(* The invariants of Pool.tla, that it implements LiquidityShares.tla, and *)
(* what it says of the order of its steps, for every width of u64, every   *)
(* scale of the rates, every set of arguments and every transfer fee.      *)
(*                                                                         *)
(* The inductive invariant is the conjunction of the invariants the runs   *)
(* check and of the bound AmmConfig keeps on the rates: without that bound *)
(* a protocol and a fund share could together exceed the trade fee and eat *)
(* the reserves; without ReservesPositive the curve would divide by zero;  *)
(* without LockedLiquidity a withdrawal could take the whole reserve.      *)
(*                                                                         *)
(* The last section is about the pool under swap_with_k_token as well.     *)
(***************************************************************************)
EXTENDS KTokenSwap, CurveMathProofs

IInv ==
    /\ TypeOK
    /\ Solvent
    /\ LockedLiquidity
    /\ ReservesPositive
    /\ Config!RatesWithinDenominator

\* The instructions with any arguments: u64 amounts, any limit, any transfer fee
\* of a mint.  The steps of Pool.tla, and those the client's commands take, are
\* among them.
AnyFees == [Side -> TransferFees]

\* A config may be created for a discount in any token, or for none.
ConfigMints == FeeTokenMints \cup {DEFAULT_PUBKEY}

AnyConfig(c, mint) ==
    /\ Config!CreateAmmConfig(ADMIN, c.trade, c.protocol, c.fund, c.creator, 0, mint, c.discount)
    /\ UNCHANGED <<pool_state, vault, lp_mint_supply, observation_state, unix_timestamp>>

AnyNext ==
    \/ \E amount \in [Side -> U64], open_time \in Nat, fee \in AnyFees :
         \/ Initialize(amount, open_time, fee)
         \/ \E on \in CreatorFeeOn : InitializeWithPermission(amount, open_time, fee, on)
    \/ \E lp \in U64, fee \in AnyFees : \E limit : Deposit(lp, limit, fee) \/ Withdraw(lp, limit, fee)
    \/ \E i \in Side, amount \in U64, fee \in AnyFees : \E limit :
         SwapBaseInput(i, amount, limit, fee) \/ SwapBaseOutput(i, limit, amount, fee)
    \/ CollectCreatorFee
    \/ \E owner \in Accounts, requested \in [Side -> U64] :
         CollectProtocolFee(owner, requested) \/ CollectFundFee(owner, requested)
    \/ \E status \in SUBSET PoolStatusBitIndex : UpdatePoolStatus(status)
    \/ \E c \in ConfigParams, mint \in ConfigMints : AnyConfig(c, mint)
    \/ \E u \in ConfigUpdates, account \in Accounts : UpdateConfig(u, account)
    \/ \E i \in Side, amount \in U64 : Donate(i, amount)
    \/ \E amount \in U64 : BurnLp(amount)
    \/ ClockMoves

AnySpec == Init /\ [][AnyNext]_vars

\* A config without a discount is one of them.
LEMMA PlainConfig ==
    \A c \in ConfigParams : CreateConfig(c) => \E mint \in ConfigMints : AnyConfig(c, mint)
  BY Zenon DEF CreateConfig, AnyConfig, ConfigMints

\* The arguments Pool.tla takes its steps with are among those.
LEMMA NextIsAny == Next => AnyNext
<1> SUFFICES ASSUME Next PROVE AnyNext
  OBVIOUS
<1>1. /\ Amounts \subseteq U64 /\ [Side -> Amounts] \subseteq [Side -> U64]
      /\ OpenTimes \subseteq Nat /\ [Side -> Limits] \subseteq [Side -> U64]
      /\ Fees \subseteq AnyFees /\ Statuses \subseteq SUBSET PoolStatusBitIndex
  BY PoolAssumption DEF U64, Fees, AnyFees, PoolStatusBitIndex
<1>2. QED
  BY <1>1, PlainConfig, Zenon DEF Next, AnyNext

\* So are its behaviours.
LEMMA SpecIsAny == Spec => AnySpec
  BY NextIsAny, PTL DEF Spec, AnySpec

-----------------------------------------------------------------------------
(* Types of the parts. *)

\* The fields of the account that steps change.
LEMMA PoolFields ==
    ASSUME TypeOK
    PROVE  /\ pool_state.initialized \in BOOLEAN
           /\ pool_state.lp_supply \in U64
           /\ pool_state.protocol_fees \in [Side -> U64]
           /\ pool_state.fund_fees \in [Side -> U64]
           /\ pool_state.creator_fees \in [Side -> U64]
           /\ pool_state.enable_creator_fee \in BOOLEAN
           /\ pool_state \in PoolStates
           /\ vault \in [Side -> U64]
           /\ lp_mint_supply \in U64
  BY DEF TypeOK, PoolStates

\* Balances and fees are natural numbers, reserves are integers.
LEMMA Balances ==
    ASSUME TypeOK, NEW i \in Side
    PROVE  /\ vault[i] \in Nat /\ vault[i] <= U64_MAX
           /\ pool_state.protocol_fees[i] \in Nat
           /\ pool_state.fund_fees[i] \in Nat
           /\ pool_state.creator_fees[i] \in Nat
           /\ owed_fees(i) \in Nat
           /\ vault_amount_without_fee(i) \in Int
           /\ vault[i] = vault_amount_without_fee(i) + owed_fees(i)
           /\ 1 - i \in Side /\ 1 - i # i
<1>1. /\ vault[i] \in U64
      /\ pool_state.protocol_fees[i] \in U64
      /\ pool_state.fund_fees[i] \in U64
      /\ pool_state.creator_fees[i] \in U64
  BY PoolFields
<1>2. U64_MAX \in Nat
  BY PoolAssumption
<1>3. QED
  BY <1>1, <1>2 DEF U64, Side, owed_fees, vault_amount_without_fee

\* Fee counters and balances bounded by the vault have their type.
LEMMA TypeFromSolvency ==
    ASSUME NEW p, NEW f, NEW c, NEW v,
           p \in [Side -> Nat], f \in [Side -> Nat], c \in [Side -> Nat], v \in [Side -> Nat],
           \A i \in Side : p[i] + f[i] + c[i] <= v[i] /\ v[i] <= U64_MAX
    PROVE  /\ p \in [Side -> U64] /\ f \in [Side -> U64]
           /\ c \in [Side -> U64] /\ v \in [Side -> U64]
<1>1. \A i \in Side : p[i] \in U64 /\ f[i] \in U64 /\ c[i] \in U64 /\ v[i] \in U64
  <2> TAKE i \in Side
  <2>1. p[i] \in Nat /\ f[i] \in Nat /\ c[i] \in Nat /\ v[i] \in Nat
    OBVIOUS
  <2>2. QED
    BY <2>1, PoolAssumption DEF U64
<1>2. QED
  BY <1>1

\* The rates a swap is charged with are within the denominator, whether or
\* not the creator fee is enabled.
LEMMA SwapRates ==
    ASSUME TypeOK, Config!RatesWithinDenominator
    PROVE  swap_rates \in RateRecords /\ rates_within_denominator(swap_rates)
<1>1. /\ amm_config.trade_fee_rate \in Nat /\ amm_config.creator_fee_rate \in Nat
      /\ amm_config.protocol_fee_rate \in Nat /\ amm_config.fund_fee_rate \in Nat
  BY DEF TypeOK, Config!TypeOK, Config!Configs
<1>2. /\ amm_config.trade_fee_rate + amm_config.creator_fee_rate <= DEN
      /\ amm_config.protocol_fee_rate + amm_config.fund_fee_rate <= DEN
  BY DEF Config!RatesWithinDenominator, DEN
<1>3. /\ adjust_creator_fee_rate(amm_config.creator_fee_rate) \in Nat
      /\ adjust_creator_fee_rate(amm_config.creator_fee_rate) <= amm_config.creator_fee_rate
  BY <1>1 DEF adjust_creator_fee_rate
<1>4. QED
  BY <1>1, <1>2, <1>3, DenPositive
     DEF swap_rates, FeeRates, RateRecords, rates_within_denominator

\* The oracle keeps its type at every natural price.
LEMMA OracleKeepsType ==
    ASSUME Oracle!TypeOK, NEW p0 \in Nat, NEW p1 \in Nat,
           Oracle!ObservationUpdate(p0, p1), UNCHANGED unix_timestamp
    PROVE  Oracle!TypeOK'
<1>1. CASE Oracle!FirstUpdate
  <2> DEFINE mark == [Oracle!ZeroObservation EXCEPT !.block_timestamp = unix_timestamp]
  <2>1. mark \in Oracle!Observation
    BY PoolAssumption DEF Oracle!TypeOK, Oracle!Observation, Oracle!ZeroObservation
  <2> HIDE DEF mark
  <2>2. observation_state' = [observation_state EXCEPT
            !.initialized = TRUE,
            !.observations[observation_state.observation_index] = mark]
    BY <1>1 DEF Oracle!FirstUpdate, mark
  <2>3. QED
    BY <2>1, <2>2 DEF Oracle!TypeOK, Oracle!ObservationState
<1>2. CASE Oracle!SkipUpdate
  BY <1>2 DEF Oracle!SkipUpdate, Oracle!TypeOK
<1>3. CASE Oracle!AppendUpdate(p0, p1)
  <2>1. Oracle!last_observation \in Oracle!Observation
    BY DEF Oracle!TypeOK, Oracle!ObservationState, Oracle!last_observation
  <2>2. Oracle!delta_time \in Nat
    BY <2>1 DEF Oracle!TypeOK, Oracle!Observation, Oracle!delta_time
  <2>3. Oracle!next_observation_index \in Oracle!Slots
    BY PoolAssumption
       DEF Oracle!TypeOK, Oracle!ObservationState, Oracle!Slots, Oracle!next_observation_index
  <2>4. p0 * Oracle!delta_time \in Nat /\ p1 * Oracle!delta_time \in Nat
    BY <2>2
  <2>5. \A n \in Nat : n % CUMULATIVE_RANGE \in 0 .. CUMULATIVE_RANGE - 1
    BY PoolAssumption
  <2>6. Oracle!next_observation(p0, p1) \in Oracle!Observation
    BY <2>1, <2>4, <2>5, PoolAssumption
       DEF Oracle!TypeOK, Oracle!Observation, Oracle!next_observation
  <2>7. QED
    BY <1>3, <2>3, <2>6 DEF Oracle!AppendUpdate, Oracle!TypeOK, Oracle!ObservationState
<1>4. QED
  BY <1>1, <1>2, <1>3 DEF Oracle!ObservationUpdate

-----------------------------------------------------------------------------
(* Swaps. *)

\* The fees a swap books, side by side: what each side owes afterwards.
LEMMA FeesBooked ==
    ASSUME TypeOK, NEW i \in Side, NEW result,
           result.protocol_fee \in Nat, result.fund_fee \in Nat, result.creator_fee \in Nat,
           update_fees(result, i)
    PROVE  /\ pool_state'.protocol_fees \in [Side -> Nat]
           /\ pool_state'.fund_fees \in [Side -> Nat]
           /\ pool_state'.creator_fees \in [Side -> Nat]
           /\ owed_fees(i)' = owed_fees(i) + result.protocol_fee + result.fund_fee
                  + (IF is_creator_fee_on_input(i) THEN result.creator_fee ELSE 0)
           /\ owed_fees(1 - i)' = owed_fees(1 - i)
                  + (IF is_creator_fee_on_input(i) THEN 0 ELSE result.creator_fee)
           /\ pool_state' = [pool_state EXCEPT
                  !.protocol_fees = pool_state'.protocol_fees,
                  !.fund_fees = pool_state'.fund_fees,
                  !.creator_fees = pool_state'.creator_fees]
<1> DEFINE side == IF is_creator_fee_on_input(i) THEN i ELSE 1 - i
           p == [pool_state.protocol_fees EXCEPT ![i] = @ + result.protocol_fee]
           f == [pool_state.fund_fees EXCEPT ![i] = @ + result.fund_fee]
           c == [pool_state.creator_fees EXCEPT ![side] = @ + result.creator_fee]
<1>1. pool_state' = [pool_state EXCEPT !.protocol_fees = p, !.fund_fees = f, !.creator_fees = c]
  BY DEF update_fees
<1>2. 1 - i \in Side /\ 1 - i # i /\ side \in Side
  BY DEF Side
<1>3. /\ pool_state.protocol_fees \in [Side -> Nat]
      /\ pool_state.fund_fees \in [Side -> Nat]
      /\ pool_state.creator_fees \in [Side -> Nat]
  BY PoolFields, PoolAssumption DEF U64
<1>4. /\ p \in [Side -> Nat] /\ p[i] = pool_state.protocol_fees[i] + result.protocol_fee
      /\ p[1 - i] = pool_state.protocol_fees[1 - i]
      /\ f \in [Side -> Nat] /\ f[i] = pool_state.fund_fees[i] + result.fund_fee
      /\ f[1 - i] = pool_state.fund_fees[1 - i]
  BY <1>2, <1>3
<1>5. /\ c \in [Side -> Nat]
      /\ c[i] = pool_state.creator_fees[i]
             + (IF is_creator_fee_on_input(i) THEN result.creator_fee ELSE 0)
      /\ c[1 - i] = pool_state.creator_fees[1 - i]
             + (IF is_creator_fee_on_input(i) THEN 0 ELSE result.creator_fee)
  <2> HIDE DEF is_creator_fee_on_input
  <2>1. CASE is_creator_fee_on_input(i)
    BY <2>1, <1>2, <1>3
  <2>2. CASE ~is_creator_fee_on_input(i)
    BY <2>2, <1>2, <1>3
  <2>3. QED
    BY <2>1, <2>2
<1> HIDE DEF p, f, c, side
<1>6. /\ pool_state'.protocol_fees = p
      /\ pool_state'.fund_fees = f
      /\ pool_state'.creator_fees = c
  BY <1>1, PoolFields DEF PoolStates
<1>7. owed_fees(i)' = p[i] + f[i] + c[i] /\ owed_fees(1 - i)' = p[1 - i] + f[1 - i] + c[1 - i]
  BY <1>6 DEF owed_fees
<1>8. /\ pool_state.protocol_fees[i] \in Nat /\ pool_state.protocol_fees[1 - i] \in Nat
      /\ pool_state.fund_fees[i] \in Nat /\ pool_state.fund_fees[1 - i] \in Nat
      /\ pool_state.creator_fees[i] \in Nat /\ pool_state.creator_fees[1 - i] \in Nat
  BY <1>2, <1>3
<1>9. QED
  BY <1>1, <1>4, <1>5, <1>6, <1>7, <1>8 DEF owed_fees

\* A sound result that the vaults settle leaves both sides with what the curve
\* says, plus the part of the trade fee that is nobody else's.
LEMMA SwapReserves ==
    ASSUME TypeOK, NEW i \in Side, NEW result, NEW amount_in,
           sound_result(result, vault_amount_without_fee(i), vault_amount_without_fee(1 - i),
                        is_creator_fee_on_input(i)),
           amount_in = result.input_amount,
           swap_settles(i, result, amount_in),
           SettleSwap(i, result, amount_in)
    PROVE  /\ vault_amount_without_fee(i)' >= result.new_input_vault_amount
           /\ vault_amount_without_fee(1 - i)' = result.new_output_vault_amount
           /\ vault' \in [Side -> Int]
           /\ vault'[i] <= U64_MAX
           /\ vault'[1 - i] <= vault[1 - i]
<1> DEFINE on == is_creator_fee_on_input(i)
           R == vault_amount_without_fee(i)
           Q == vault_amount_without_fee(1 - i)
<1>1. /\ result.input_amount \in Nat /\ result.output_amount \in Nat
      /\ result.trade_fee \in Nat /\ result.creator_fee \in Nat
      /\ result.protocol_fee \in Nat /\ result.fund_fee \in Nat
      /\ result.protocol_fee + result.fund_fee <= result.trade_fee
      /\ result.new_input_vault_amount =
             R + result.input_amount - result.trade_fee - (IF on THEN result.creator_fee ELSE 0)
      /\ result.new_output_vault_amount =
             Q - result.output_amount - (IF on THEN 0 ELSE result.creator_fee)
  BY DEF sound_result
<1>2. /\ owed_fees(i)' = owed_fees(i) + result.protocol_fee + result.fund_fee
             + (IF on THEN result.creator_fee ELSE 0)
      /\ owed_fees(1 - i)' = owed_fees(1 - i) + (IF on THEN 0 ELSE result.creator_fee)
  BY <1>1, FeesBooked DEF SettleSwap
<1>3. 1 - i \in Side /\ 1 - i # i
  BY Balances
<1>4. /\ vault' = [vault EXCEPT ![i] = @ + amount_in, ![1 - i] = @ - result.output_amount]
      /\ vault[i] + amount_in <= U64_MAX
  BY DEF SettleSwap, swap_settles
<1>5. vault'[i] = vault[i] + amount_in /\ vault'[1 - i] = vault[1 - i] - result.output_amount
  BY <1>3, <1>4, PoolFields
<1>6. /\ vault_amount_without_fee(i)' = vault'[i] - owed_fees(i)'
      /\ vault_amount_without_fee(1 - i)' = vault'[1 - i] - owed_fees(1 - i)'
  BY DEF vault_amount_without_fee
<1>7. /\ vault[i] \in Nat /\ owed_fees(i) \in Nat /\ vault[i] = R + owed_fees(i) /\ R \in Int
      /\ vault[1 - i] \in Nat /\ owed_fees(1 - i) \in Nat
      /\ vault[1 - i] = Q + owed_fees(1 - i) /\ Q \in Int
  BY <1>3, Balances
<1>8. DOMAIN vault' = Side /\ vault' \in [Side -> Int]
  <2>1. vault \in [Side -> Int] /\ amount_in \in Int
    BY <1>1, PoolFields, PoolAssumption DEF U64
  <2>2. QED
    BY <1>1, <1>3, <1>4, <1>7, <2>1
<1> HIDE DEF on, R, Q
<1>9. CASE on
  BY <1>1, <1>2, <1>4, <1>5, <1>6, <1>7, <1>8, <1>9 DEF R, Q
<1>10. CASE ~on
  BY <1>1, <1>2, <1>4, <1>5, <1>6, <1>7, <1>8, <1>10 DEF R, Q
<1>11. QED
  BY <1>9, <1>10

\* Solvency of both sides gives the fee counters and balances their type.
LEMMA SolventTypes ==
    ASSUME TypeOK,
           NEW p \in [Side -> Nat], NEW f \in [Side -> Nat], NEW c \in [Side -> Nat],
           pool_state' = [pool_state EXCEPT
               !.protocol_fees = p, !.fund_fees = f, !.creator_fees = c],
           vault' \in [Side -> Int],
           \A k \in Side : vault'[k] <= U64_MAX /\ owed_fees(k)' <= vault'[k]
    PROVE  /\ pool_state' \in PoolStates
           /\ vault' \in [Side -> U64]
<1>1. pool_state'.protocol_fees = p /\ pool_state'.fund_fees = f /\ pool_state'.creator_fees = c
  BY PoolFields DEF PoolStates
<1>2. \A k \in Side : p[k] + f[k] + c[k] <= vault'[k] /\ vault'[k] \in Nat
  <2> TAKE k \in Side
  <2>1. p[k] \in Nat /\ f[k] \in Nat /\ c[k] \in Nat /\ vault'[k] \in Int
    OBVIOUS
  <2>2. owed_fees(k)' = p[k] + f[k] + c[k]
    BY <1>1 DEF owed_fees
  <2>3. QED
    BY <2>1, <2>2
<1>3. vault' \in [Side -> Nat]
  BY <1>2
<1>4. p \in [Side -> U64] /\ f \in [Side -> U64] /\ c \in [Side -> U64] /\ vault' \in [Side -> U64]
  BY <1>2, <1>3, TypeFromSolvency
<1>5. QED
  BY <1>4, PoolFields DEF PoolStates

\* A settled swap keeps the invariant (swap_base_input.rs:178-210,
\* swap_base_output.rs:120-152).
LEMMA SettleSwapKeeps ==
    ASSUME IInv, NEW i \in Side, NEW result, NEW amount_in,
           swap_approved,
           sound_result(result, vault_amount_without_fee(i), vault_amount_without_fee(1 - i),
                        is_creator_fee_on_input(i)),
           amount_in = result.input_amount,
           swap_settles(i, result, amount_in),
           SettleSwap(i, result, amount_in)
    PROVE  IInv'
<1>0. /\ TypeOK /\ Solvent /\ LockedLiquidity /\ ReservesPositive
      /\ Config!RatesWithinDenominator /\ pool_state.initialized
  BY DEF IInv, swap_approved
<1>1. /\ vault_amount_without_fee(i)' >= result.new_input_vault_amount
      /\ vault_amount_without_fee(1 - i)' = result.new_output_vault_amount
      /\ vault' \in [Side -> Int] /\ vault'[i] <= U64_MAX /\ vault'[1 - i] <= vault[1 - i]
  BY <1>0, SwapReserves
<1>2. /\ pool_state'.protocol_fees \in [Side -> Nat]
      /\ pool_state'.fund_fees \in [Side -> Nat]
      /\ pool_state'.creator_fees \in [Side -> Nat]
      /\ pool_state' = [pool_state EXCEPT
             !.protocol_fees = pool_state'.protocol_fees,
             !.fund_fees = pool_state'.fund_fees,
             !.creator_fees = pool_state'.creator_fees]
  BY <1>0, FeesBooked DEF SettleSwap, sound_result
<1>3. 1 - i \in Side /\ \A k \in Side : k = i \/ k = 1 - i
  BY DEF Side
<1>4. /\ vault_amount_without_fee(i) \in Int /\ vault_amount_without_fee(i) > 0
      /\ vault[1 - i] <= U64_MAX /\ vault[1 - i] \in Nat
  BY <1>0, <1>3, Balances DEF ReservesPositive
<1>5. result.new_input_vault_amount >= vault_amount_without_fee(i)
      /\ result.new_output_vault_amount > 0
  BY DEF sound_result
<1>6. result.new_input_vault_amount \in Int /\ result.new_output_vault_amount \in Int
  <2>1. vault_amount_without_fee(1 - i) \in Int
    BY <1>0, <1>3, Balances
  <2>2. QED
    BY <1>4, <2>1 DEF sound_result
<1>7. \A k \in Side : owed_fees(k)' \in Nat
                      /\ vault'[k] - owed_fees(k)' = vault_amount_without_fee(k)'
  <2> TAKE k \in Side
  <2>1. owed_fees(k)' \in Nat
    BY <1>2 DEF owed_fees
  <2>2. QED
    BY <2>1 DEF vault_amount_without_fee
<1>8. vault_amount_without_fee(i)' > 0 /\ vault_amount_without_fee(1 - i)' > 0
  <2>1. vault_amount_without_fee(i)' \in Int
    BY <1>1, <1>7
  <2>2. QED
    BY <1>1, <1>4, <1>5, <1>6, <2>1
<1>9. \A k \in Side : vault_amount_without_fee(k)' > 0
  BY <1>3, <1>8
<1>10. \A k \in Side : vault'[k] <= U64_MAX /\ owed_fees(k)' <= vault'[k]
  <2> TAKE k \in Side
  <2>1. vault'[k] \in Int /\ owed_fees(k)' \in Nat
    BY <1>1, <1>7
  <2>2. vault'[k] - owed_fees(k)' > 0
    BY <1>7, <1>9
  <2>3. vault'[1 - i] <= U64_MAX
    BY <1>1, <1>3, <1>4, PoolAssumption
  <2>4. vault'[k] <= U64_MAX
    BY <1>1, <1>3, <2>3
  <2>5. QED
    BY <2>1, <2>2, <2>4
<1>11. pool_state' \in PoolStates /\ vault' \in [Side -> U64]
  <2> DEFINE p == pool_state'.protocol_fees
             f == pool_state'.fund_fees
             c == pool_state'.creator_fees
  <2>1. /\ p \in [Side -> Nat] /\ f \in [Side -> Nat] /\ c \in [Side -> Nat]
        /\ pool_state' = [pool_state EXCEPT
               !.protocol_fees = p, !.fund_fees = f, !.creator_fees = c]
    BY <1>2
  <2> HIDE DEF p, f, c
  <2>2. QED
    BY <1>0, <1>1, <1>10, <2>1, SolventTypes
<1>12. token_price_x32(0) \in Nat /\ token_price_x32(1) \in Nat
  <2>1. /\ vault_amount_without_fee(0) \in Nat \ {0}
        /\ vault_amount_without_fee(1) \in Nat \ {0}
    BY <1>0, Balances DEF ReservesPositive, Side
  <2>2. \A a \in Nat, b \in Nat \ {0} : (a * Q32) \div b \in Nat
    BY PoolAssumption
  <2>3. QED
    BY <2>1, <2>2 DEF token_price_x32
<1>13. Oracle!TypeOK'
  BY <1>0, <1>12, OracleKeepsType DEF TypeOK, SettleSwap
<1>14. UNCHANGED <<lp_mint_supply, amm_config>>
       /\ pool_state'.lp_supply = pool_state.lp_supply
       /\ pool_state'.initialized = pool_state.initialized
  BY <1>0, <1>2, PoolFields DEF SettleSwap, PoolStates
<1>15. TypeOK'
  BY <1>0, <1>11, <1>13, <1>14 DEF TypeOK, Config!TypeOK
<1>16. Solvent'
  BY <1>10 DEF Solvent
<1>17. LockedLiquidity'
  BY <1>0, <1>14 DEF LockedLiquidity
<1>18. ReservesPositive'
  BY <1>9 DEF ReservesPositive
<1>19. Config!RatesWithinDenominator'
  BY <1>0, <1>14 DEF Config!RatesWithinDenominator
<1>20. QED
  BY <1>15, <1>16, <1>17, <1>18, <1>19 DEF IInv

\* A transfer fee argument is a transfer fee.
LEMMA FeeArgument ==
    ASSUME NEW fee \in AnyFees, NEW i \in Side
    PROVE  fee[i] \in TransferFees
  BY DEF AnyFees

\* A swap that is approved and settles a sound result, with what the
\* calculator asked for arriving in the vault.
SettlesSoundly(i, result, amount_in) ==
    /\ swap_approved
    /\ sound_result(result, vault_amount_without_fee(i), vault_amount_without_fee(1 - i),
                    is_creator_fee_on_input(i))
    /\ amount_in = result.input_amount
    /\ swap_settles(i, result, amount_in)
    /\ SettleSwap(i, result, amount_in)

\* SwapBaseInput is such a swap, and what it pays out arrives above the limit.
LEMMA SwapBaseInputSettles ==
    ASSUME IInv, NEW i \in Side, NEW amount_in \in U64, NEW limit, NEW fee \in AnyFees,
           SwapBaseInput(i, amount_in, limit, fee)
    PROVE  \E result, arrived :
               /\ SettlesSoundly(i, result, arrived)
               /\ result.output_amount - calculate_fee(fee[1 - i], result.output_amount) >= limit
<1> DEFINE actual == amount_in - get_transfer_fee(fee[i], amount_in)
           result == swap_base_input(actual, vault_amount_without_fee(i),
                                     vault_amount_without_fee(1 - i), swap_rates,
                                     is_creator_fee_on_input(i))
<1>1. swap_approved /\ actual > 0 /\ result.ok /\ swap_settles(i, result, actual)
      /\ SettleSwap(i, result, actual)
      /\ result.output_amount - calculate_fee(fee[1 - i], result.output_amount) >= limit
  BY DEF SwapBaseInput, base_input_accepted, base_input_result, actual_amount_in, get_transfer_fee
<1>2. actual \in Nat
  <2>1. amount_in \in Nat
    BY PoolAssumption DEF U64
  <2>2. QED
    BY <2>1, FeeArgument, TransferFeeBounded DEF get_transfer_fee
<1>3. /\ vault_amount_without_fee(i) \in Nat \ {0}
      /\ vault_amount_without_fee(1 - i) \in Nat \ {0}
  BY <1>1, Balances DEF IInv, ReservesPositive, swap_approved
<1>4. swap_rates \in RateRecords /\ rates_within_denominator(swap_rates)
  BY SwapRates DEF IInv
<1>5. is_creator_fee_on_input(i) \in BOOLEAN
  BY DEF is_creator_fee_on_input
<1> HIDE DEF actual
<1>6. sound_result(result, vault_amount_without_fee(i), vault_amount_without_fee(1 - i),
                   is_creator_fee_on_input(i))
  BY <1>1, <1>2, <1>3, <1>4, <1>5, SwapBaseInputSound
<1>7. actual = result.input_amount
  BY <1>1 DEF swap_base_input, None
<1> HIDE DEF result
<1>8. SettlesSoundly(i, result, actual)
  BY <1>1, <1>6, <1>7 DEF SettlesSoundly
<1>9. QED
  BY <1>1, <1>8, Zenon

\* So is SwapBaseOutput: what reaches the input vault is the input the
\* calculator asked for, and with the fee of its transfer no more than the limit.
LEMMA SwapBaseOutputSettles ==
    ASSUME IInv, NEW i \in Side, NEW limit, NEW amount \in U64, NEW fee \in AnyFees,
           SwapBaseOutput(i, limit, amount, fee)
    PROVE  \E result, arrived :
               /\ SettlesSoundly(i, result, arrived)
               /\ arrived + get_transfer_inverse_fee(fee[i], arrived) <= limit
<1> DEFINE out == amount + get_transfer_inverse_fee(fee[1 - i], amount)
           result == swap_base_output(out, vault_amount_without_fee(i),
                                      vault_amount_without_fee(1 - i), swap_rates,
                                      is_creator_fee_on_input(i))
           sent == result.input_amount + get_transfer_inverse_fee(fee[i], result.input_amount)
           arrived == sent - calculate_fee(fee[i], sent)
<1>1. /\ swap_approved /\ result.ok
      /\ inverse_fee_matches(fee[i], result.input_amount)
      /\ limit >= sent
      /\ swap_settles(i, result, arrived)
      /\ SettleSwap(i, result, arrived)
  BY DEF SwapBaseOutput, base_output_accepted, base_output_result, input_transfer_amount,
         input_received
<1>2. out \in Nat
  <2>1. amount \in Nat /\ 1 - i \in Side
    BY PoolAssumption DEF Side, U64
  <2>2. QED
    BY <2>1, FeeArgument, InverseFeeNat
<1>3. /\ vault_amount_without_fee(i) \in Nat \ {0}
      /\ vault_amount_without_fee(1 - i) \in Nat \ {0}
  BY <1>1, Balances DEF IInv, ReservesPositive, swap_approved
<1>4. swap_rates \in RateRecords /\ rates_within_denominator(swap_rates)
  BY SwapRates DEF IInv
<1>5. is_creator_fee_on_input(i) \in BOOLEAN
  BY DEF is_creator_fee_on_input
<1> HIDE DEF out
<1>6. sound_result(result, vault_amount_without_fee(i), vault_amount_without_fee(1 - i),
                   is_creator_fee_on_input(i))
  BY <1>1, <1>2, <1>3, <1>4, <1>5, SwapBaseOutputSound
<1> HIDE DEF result
<1>7. /\ arrived = result.input_amount
      /\ arrived + get_transfer_inverse_fee(fee[i], arrived) <= limit
  <2>1. result.input_amount \in Nat
    BY <1>6 DEF sound_result
  <2>2. sent \in Nat /\ arrived = result.input_amount
    BY <1>1, <2>1, FeeArgument, InverseFeeExact
  <2>3. sent = arrived + get_transfer_inverse_fee(fee[i], arrived)
    BY <2>2, Zenon
  <2> HIDE DEF sent
  <2>4. QED
    BY <1>1, <2>2, <2>3
<1> HIDE DEF arrived
<1>8. SettlesSoundly(i, result, arrived)
  BY <1>1, <1>6, <1>7 DEF SettlesSoundly
<1>9. QED
  BY <1>7, <1>8, Zenon

\* Both swaps keep the invariant.
LEMMA SwapKeeps ==
    ASSUME IInv, NEW i \in Side, NEW amount \in U64, NEW limit, NEW fee \in AnyFees,
           SwapBaseInput(i, amount, limit, fee) \/ SwapBaseOutput(i, limit, amount, fee)
    PROVE  IInv'
<1>1. PICK result, arrived : SettlesSoundly(i, result, arrived)
  BY SwapBaseInputSettles, SwapBaseOutputSettles
<1>2. QED
  BY <1>1, SettleSwapKeeps DEF SettlesSoundly

-----------------------------------------------------------------------------
(* Liquidity. *)

\* A step that changes no field of pool_state but lp_supply and the counters
\* of the fees owed, and keeps these natural.
OnlyAmountsMove ==
    /\ pool_state' = [pool_state EXCEPT
           !.lp_supply = pool_state'.lp_supply,
           !.protocol_fees = pool_state'.protocol_fees,
           !.fund_fees = pool_state'.fund_fees,
           !.creator_fees = pool_state'.creator_fees]
    /\ pool_state'.protocol_fees \in [Side -> Nat]
    /\ pool_state'.fund_fees \in [Side -> Nat]
    /\ pool_state'.creator_fees \in [Side -> Nat]

\* What any step on a live pool that leaves the oracle and the config alone
\* has to guarantee: reserves on both sides, and LP tokens below lp_supply.
LEMMA LivePoolKeeps ==
    ASSUME IInv, pool_state.initialized, OnlyAmountsMove,
           pool_state'.lp_supply \in U64,
           vault' \in [Side -> Int],
           \A k \in Side : vault'[k] <= U64_MAX /\ vault_amount_without_fee(k)' > 0,
           lp_mint_supply' \in Nat,
           lp_mint_supply' + LOCK_LP_AMOUNT <= pool_state'.lp_supply,
           UNCHANGED <<amm_config, observation_state, unix_timestamp>>
    PROVE  IInv'
<1> DEFINE p == pool_state'.protocol_fees
           f == pool_state'.fund_fees
           c == pool_state'.creator_fees
           supply == pool_state'.lp_supply
<1>0. TypeOK /\ Solvent /\ Config!RatesWithinDenominator
  BY DEF IInv
<1>1. /\ p \in [Side -> Nat] /\ f \in [Side -> Nat] /\ c \in [Side -> Nat]
      /\ pool_state' = [pool_state EXCEPT !.lp_supply = supply,
             !.protocol_fees = p, !.fund_fees = f, !.creator_fees = c]
      /\ pool_state'.initialized = pool_state.initialized
      /\ supply \in U64
      /\ lp_mint_supply' + LOCK_LP_AMOUNT <= supply
      /\ \A k \in Side : owed_fees(k)' = p[k] + f[k] + c[k]
  BY <1>0, PoolFields DEF PoolStates, OnlyAmountsMove, owed_fees
<1>2. LockedLiquidity'
  BY <1>1 DEF LockedLiquidity
<1> HIDE DEF p, f, c, supply
<1>3. \A k \in Side : /\ owed_fees(k)' \in Nat /\ owed_fees(k)' <= vault'[k]
                      /\ p[k] + f[k] + c[k] <= vault'[k] /\ vault'[k] \in Nat
  <2> TAKE k \in Side
  <2>1. owed_fees(k)' = p[k] + f[k] + c[k] /\ p[k] \in Nat /\ f[k] \in Nat /\ c[k] \in Nat
    BY <1>1
  <2>2. vault'[k] \in Int /\ vault'[k] - owed_fees(k)' > 0
    BY DEF vault_amount_without_fee
  <2>3. QED
    BY <2>1, <2>2
<1>4. vault' \in [Side -> Nat]
  BY <1>3
<1>5. /\ p \in [Side -> U64] /\ f \in [Side -> U64] /\ c \in [Side -> U64]
      /\ vault' \in [Side -> U64]
  BY <1>1, <1>3, <1>4, TypeFromSolvency
<1>6. lp_mint_supply' \in U64
  BY <1>1, PoolAssumption DEF U64
<1>7. pool_state' \in PoolStates
  BY <1>0, <1>1, <1>5, PoolFields DEF PoolStates
<1>8. TypeOK'
  BY <1>0, <1>5, <1>6, <1>7 DEF TypeOK, Config!TypeOK, Oracle!TypeOK
<1>9. Solvent' /\ ReservesPositive'
  BY <1>3 DEF Solvent, ReservesPositive
<1>10. Config!RatesWithinDenominator'
  BY <1>0 DEF Config!RatesWithinDenominator
<1>11. QED
  BY <1>2, <1>8, <1>9, <1>10 DEF IInv

\* When a step leaves the fee counters alone, fees owed are unchanged.
LEMMA SameFees ==
    ASSUME TypeOK, NEW supply,
           pool_state' = [pool_state EXCEPT !.lp_supply = supply]
    PROVE  /\ \A k \in Side : owed_fees(k)' = owed_fees(k)
           /\ OnlyAmountsMove
           /\ pool_state'.lp_supply = supply
<1>1. /\ pool_state'.protocol_fees = pool_state.protocol_fees
      /\ pool_state'.fund_fees = pool_state.fund_fees
      /\ pool_state'.creator_fees = pool_state.creator_fees
      /\ pool_state'.lp_supply = supply
  BY PoolFields DEF PoolStates
<1>2. pool_state' = [pool_state EXCEPT !.lp_supply = supply,
                  !.protocol_fees = pool_state.protocol_fees,
                  !.fund_fees = pool_state.fund_fees,
                  !.creator_fees = pool_state.creator_fees]
  BY PoolFields DEF PoolStates
<1>3. /\ pool_state.protocol_fees \in [Side -> Nat]
      /\ pool_state.fund_fees \in [Side -> Nat]
      /\ pool_state.creator_fees \in [Side -> Nat]
  BY PoolFields, PoolAssumption DEF U64
<1>4. QED
  BY <1>1, <1>2, <1>3 DEF owed_fees, OnlyAmountsMove

\* lp_supply and the reserves of a live pool are positive.
LEMMA LivePool ==
    ASSUME IInv, pool_state.initialized
    PROVE  /\ pool_state.lp_supply \in Nat \ {0} /\ pool_state.lp_supply <= U64_MAX
           /\ lp_mint_supply \in Nat
           /\ lp_mint_supply + LOCK_LP_AMOUNT <= pool_state.lp_supply
           /\ \A k \in Side : /\ vault_amount_without_fee(k) \in Nat \ {0}
                              /\ vault[k] = vault_amount_without_fee(k) + owed_fees(k)
                              /\ owed_fees(k) \in Nat
                              /\ vault[k] \in Nat /\ vault[k] <= U64_MAX
<1>1. TypeOK /\ LockedLiquidity /\ ReservesPositive
  BY DEF IInv
<1>2. pool_state.lp_supply \in U64 /\ lp_mint_supply \in U64
  BY <1>1, PoolFields
<1>3. \A k \in Side : vault_amount_without_fee(k) > 0
  BY <1>1 DEF ReservesPositive
<1>4. QED
  BY <1>1, <1>2, <1>3, Balances, PoolAssumption DEF LockedLiquidity, U64

\* A deposit adds exactly the share it was charged to each reserve.
LEMMA DepositAdds ==
    ASSUME IInv, NEW lp \in U64, NEW maximum, NEW fee \in AnyFees, Deposit(lp, maximum, fee),
           NEW k \in Side,
           NEW amount,
           amount = lp_to_trading_ceiling(lp, pool_state.lp_supply, vault_amount_without_fee(k))
    PROVE  /\ amount \in Nat \ {0}
           /\ vault'[k] = vault[k] + amount
           /\ vault'[k] <= U64_MAX
           /\ vault_amount_without_fee(k)' = vault_amount_without_fee(k) + amount
<1>1. /\ pool_state.initialized /\ amount > 0
      /\ inverse_fee_matches(fee[k], amount)
      /\ vault[k] + amount <= U64_MAX
      /\ pool_state' = [pool_state EXCEPT !.lp_supply = @ + lp]
  BY DEF Deposit, deposit_accepted, deposit_amount, deposit_transfer_amount
<1>2. amount \in Nat
  <2>1. lp \in Nat
    BY PoolAssumption DEF U64
  <2>2. QED
    BY <1>1, <2>1, LivePool, CeilingShareNat
<1> DEFINE sent == amount + get_transfer_inverse_fee(fee[k], amount)
<1>3. sent - calculate_fee(fee[k], sent) = amount
      /\ sent \in Nat /\ calculate_fee(fee[k], sent) \in Nat
  BY <1>1, <1>2, FeeArgument, InverseFeeExact, TransferFeeBounded
<1>4. vault'[k] = vault[k] + sent - calculate_fee(fee[k], sent)
  BY DEF Deposit, deposit_accepted, deposit_amount, deposit_transfer_amount
<1> HIDE DEF sent
<1>5. owed_fees(k)' = owed_fees(k)
  BY <1>1, SameFees DEF IInv
<1>6. vault[k] \in Nat /\ owed_fees(k) \in Nat
  BY <1>1, LivePool
<1>7. QED
  BY <1>1, <1>2, <1>3, <1>4, <1>5, <1>6 DEF vault_amount_without_fee

\* Deposit keeps the invariant.
LEMMA DepositKeeps ==
    ASSUME IInv, NEW lp \in U64, NEW maximum, NEW fee \in AnyFees, Deposit(lp, maximum, fee)
    PROVE  IInv'
<1>1. /\ pool_state.initialized /\ lp \in Nat
      /\ pool_state.lp_supply + lp <= U64_MAX
      /\ pool_state' = [pool_state EXCEPT !.lp_supply = pool_state.lp_supply + lp]
      /\ lp_mint_supply' = lp_mint_supply + lp
      /\ UNCHANGED <<amm_config, observation_state, unix_timestamp>>
  BY PoolAssumption DEF Deposit, deposit_accepted, U64
<1>2. \A k \in Side : /\ vault'[k] \in Int /\ vault'[k] <= U64_MAX
                      /\ vault_amount_without_fee(k)' > 0
  <2> TAKE k \in Side
  <2> DEFINE amount ==
        lp_to_trading_ceiling(lp, pool_state.lp_supply, vault_amount_without_fee(k))
  <2>1. /\ amount \in Nat \ {0} /\ vault'[k] = vault[k] + amount /\ vault'[k] <= U64_MAX
        /\ vault_amount_without_fee(k)' = vault_amount_without_fee(k) + amount
    BY DepositAdds
  <2> HIDE DEF amount
  <2>2. QED
    BY <1>1, <2>1, LivePool
<1>3. vault' \in [Side -> Int]
  <2>1. vault' = [k \in Side |-> vault'[k]]
    BY DEF Deposit, deposit_accepted, deposit_amount, deposit_transfer_amount
  <2>2. QED
    BY <1>2, <2>1
<1>4. /\ pool_state.lp_supply + lp \in U64 /\ lp_mint_supply' \in Nat
      /\ lp_mint_supply' + LOCK_LP_AMOUNT <= pool_state.lp_supply + lp
  BY <1>1, LivePool, PoolAssumption DEF U64
<1>5. OnlyAmountsMove /\ pool_state'.lp_supply = pool_state.lp_supply + lp
  BY <1>1, SameFees DEF IInv
<1>6. \A k \in Side : vault'[k] <= U64_MAX /\ vault_amount_without_fee(k)' > 0
  BY <1>2
<1>7. QED
  BY <1>1, <1>3, <1>4, <1>5, <1>6, LivePoolKeeps

\* A withdrawal takes less than the reserve of each token, since the locked
\* part of lp_supply cannot be redeemed.
LEMMA WithdrawTakes ==
    ASSUME IInv, NEW lp \in U64, NEW minimum, NEW fee, Withdraw(lp, minimum, fee),
           NEW k \in Side,
           NEW amount,
           amount = lp_to_trading_floor(lp, pool_state.lp_supply, vault_amount_without_fee(k))
    PROVE  /\ amount \in Nat /\ amount < vault_amount_without_fee(k)
           /\ vault'[k] = vault[k] - amount
           /\ vault_amount_without_fee(k)' = vault_amount_without_fee(k) - amount
<1>1. /\ pool_state.initialized /\ lp \in Nat /\ lp <= lp_mint_supply
      /\ pool_state' = [pool_state EXCEPT !.lp_supply = @ - lp]
  BY PoolAssumption DEF Withdraw, withdraw_accepted, U64
<1>2. lp < pool_state.lp_supply
  BY <1>1, LivePool, PoolAssumption
<1>3. amount \in Nat /\ amount < vault_amount_without_fee(k)
  BY <1>1, <1>2, LivePool, FloorShareLess
<1>4. lesser(vault_amount_without_fee(k), amount) = amount
  BY <1>1, <1>3, LivePool DEF lesser
<1>5. vault'[k] = vault[k] - amount
  BY <1>4 DEF Withdraw, withdraw_amount
<1>6. owed_fees(k)' = owed_fees(k)
  BY <1>1, SameFees DEF IInv
<1>7. vault[k] \in Nat /\ owed_fees(k) \in Nat
  BY <1>1, LivePool
<1>8. QED
  BY <1>3, <1>5, <1>6, <1>7 DEF vault_amount_without_fee

\* Withdraw keeps the invariant.
LEMMA WithdrawKeeps ==
    ASSUME IInv, NEW lp \in U64, NEW minimum, NEW fee, Withdraw(lp, minimum, fee)
    PROVE  IInv'
<1>1. /\ pool_state.initialized /\ lp \in Nat
      /\ lp <= lp_mint_supply
      /\ pool_state' = [pool_state EXCEPT !.lp_supply = pool_state.lp_supply - lp]
      /\ lp_mint_supply' = lp_mint_supply - lp
      /\ UNCHANGED <<amm_config, observation_state, unix_timestamp>>
  BY PoolAssumption DEF Withdraw, withdraw_accepted, U64
<1>2. \A k \in Side : /\ vault'[k] \in Int /\ vault'[k] <= U64_MAX
                      /\ vault_amount_without_fee(k)' > 0
  <2> TAKE k \in Side
  <2> DEFINE amount ==
        lp_to_trading_floor(lp, pool_state.lp_supply, vault_amount_without_fee(k))
  <2>1. /\ amount \in Nat /\ amount < vault_amount_without_fee(k)
        /\ vault'[k] = vault[k] - amount
        /\ vault_amount_without_fee(k)' = vault_amount_without_fee(k) - amount
    BY WithdrawTakes
  <2> HIDE DEF amount
  <2>2. U64_MAX \in Nat
    BY PoolAssumption
  <2>3. QED
    BY <1>1, <2>1, <2>2, LivePool
<1>3. vault' \in [Side -> Int]
  <2>1. vault' = [k \in Side |-> vault'[k]]
    BY DEF Withdraw, withdraw_amount
  <2>2. QED
    BY <1>2, <2>1
<1>4. /\ pool_state.lp_supply - lp \in U64 /\ lp_mint_supply' \in Nat
      /\ lp_mint_supply' + LOCK_LP_AMOUNT <= pool_state.lp_supply - lp
  BY <1>1, LivePool, PoolAssumption DEF U64
<1>5. OnlyAmountsMove /\ pool_state'.lp_supply = pool_state.lp_supply - lp
  BY <1>1, SameFees DEF IInv
<1>6. \A k \in Side : vault'[k] <= U64_MAX /\ vault_amount_without_fee(k)' > 0
  BY <1>2
<1>7. QED
  BY <1>1, <1>3, <1>4, <1>5, <1>6, LivePoolKeeps

-----------------------------------------------------------------------------
(* Fee collection. *)

\* A collection that pays from the vaults what it takes off the fee counters
\* keeps the invariant and the reserves.
LEMMA CollectionKeeps ==
    ASSUME IInv, pool_state.initialized, OnlyAmountsMove,
           pool_state'.lp_supply = pool_state.lp_supply,
           vault' \in [Side -> Int],
           \A k \in Side : /\ owed_fees(k)' <= owed_fees(k)
                           /\ vault'[k] = vault[k] - (owed_fees(k) - owed_fees(k)'),
           UNCHANGED <<lp_mint_supply, amm_config, observation_state, unix_timestamp>>
    PROVE  /\ IInv'
           /\ \A k \in Side : vault_amount_without_fee(k)' = vault_amount_without_fee(k)
<1>1. /\ pool_state'.lp_supply \in U64 /\ lp_mint_supply' \in Nat
      /\ lp_mint_supply' + LOCK_LP_AMOUNT <= pool_state'.lp_supply
  BY PoolFields, LivePool DEF IInv
<1>2. \A k \in Side : /\ vault'[k] <= U64_MAX
                      /\ vault_amount_without_fee(k)' = vault_amount_without_fee(k)
                      /\ vault_amount_without_fee(k)' > 0
  <2> TAKE k \in Side
  <2>1. /\ owed_fees(k) \in Nat /\ vault[k] \in Nat /\ vault[k] <= U64_MAX
        /\ vault[k] = vault_amount_without_fee(k) + owed_fees(k)
        /\ vault_amount_without_fee(k) \in Nat \ {0}
    BY LivePool
  <2>2. owed_fees(k)' \in Nat
    BY DEF owed_fees, OnlyAmountsMove
  <2>3. vault_amount_without_fee(k)' = vault'[k] - owed_fees(k)'
    BY DEF vault_amount_without_fee
  <2>4. U64_MAX \in Nat
    BY PoolAssumption
  <2>5. QED
    BY <2>1, <2>2, <2>3, <2>4
<1>3. \A k \in Side : vault'[k] <= U64_MAX /\ vault_amount_without_fee(k)' > 0
  BY <1>2
<1>4. IInv'
  BY <1>1, <1>3, LivePoolKeeps
<1>5. QED
  BY <1>2, <1>4

\* A partial collection takes at most what the counter holds.
LEMMA PartialCollection ==
    ASSUME NEW counter \in Nat, NEW requested \in U64
    PROVE  lesser(requested, counter) \in Nat /\ lesser(requested, counter) <= counter
  BY PoolAssumption DEF lesser, U64

\* CollectCreatorFee keeps the invariant and the reserves.
LEMMA CollectCreatorFeeKeeps ==
    ASSUME IInv, CollectCreatorFee
    PROVE  /\ IInv'
           /\ \A k \in Side : vault_amount_without_fee(k)' = vault_amount_without_fee(k)
<1>1. TypeOK /\ NoFees \in [Side -> Nat] /\ \A k \in Side : NoFees[k] = 0
  BY DEF IInv, NoFees
<1>2. /\ pool_state.initialized
      /\ vault' = [k \in Side |-> vault[k] - pool_state.creator_fees[k]]
      /\ pool_state' = [pool_state EXCEPT !.creator_fees = NoFees]
      /\ UNCHANGED <<lp_mint_supply, amm_config, observation_state, unix_timestamp>>
  BY DEF CollectCreatorFee
<1>3. /\ pool_state'.protocol_fees = pool_state.protocol_fees
      /\ pool_state'.fund_fees = pool_state.fund_fees
      /\ pool_state'.creator_fees = NoFees
      /\ pool_state'.lp_supply = pool_state.lp_supply
      /\ pool_state' = [pool_state EXCEPT
             !.lp_supply = pool_state'.lp_supply,
             !.protocol_fees = pool_state'.protocol_fees,
             !.fund_fees = pool_state'.fund_fees,
             !.creator_fees = pool_state'.creator_fees]
  BY <1>1, <1>2, PoolFields DEF PoolStates
<1>4. OnlyAmountsMove
  BY <1>1, <1>3, PoolFields, PoolAssumption DEF OnlyAmountsMove, U64
<1>5. \A k \in Side : /\ owed_fees(k)' <= owed_fees(k)
                      /\ vault'[k] = vault[k] - (owed_fees(k) - owed_fees(k)')
                      /\ vault'[k] \in Int
  BY <1>1, <1>2, <1>3, Balances DEF owed_fees
<1>6. vault' \in [Side -> Int]
  BY <1>2, <1>5
<1>7. QED
  BY <1>2, <1>3, <1>4, <1>5, <1>6, CollectionKeeps

\* CollectProtocolFee keeps the invariant and the reserves.
LEMMA CollectProtocolFeeKeeps ==
    ASSUME IInv, NEW owner, NEW requested \in [Side -> U64],
           CollectProtocolFee(owner, requested)
    PROVE  /\ IInv'
           /\ \A k \in Side : vault_amount_without_fee(k)' = vault_amount_without_fee(k)
<1> DEFINE amount == [k \in Side |-> lesser(requested[k], pool_state.protocol_fees[k])]
           rest == [k \in Side |-> pool_state.protocol_fees[k] - amount[k]]
<1>1. TypeOK
  BY DEF IInv
<1>2. /\ pool_state.initialized
      /\ vault' = [k \in Side |-> vault[k] - amount[k]]
      /\ pool_state' = [pool_state EXCEPT !.protocol_fees = rest]
      /\ UNCHANGED <<lp_mint_supply, amm_config, observation_state, unix_timestamp>>
  BY DEF CollectProtocolFee
<1>3. \A k \in Side : /\ amount[k] \in Nat /\ amount[k] <= pool_state.protocol_fees[k]
                      /\ rest[k] \in Nat /\ rest[k] + amount[k] = pool_state.protocol_fees[k]
  <2> TAKE k \in Side
  <2>1. pool_state.protocol_fees[k] \in Nat /\ requested[k] \in U64
    BY <1>1, Balances
  <2>2. /\ lesser(requested[k], pool_state.protocol_fees[k]) \in Nat
        /\ lesser(requested[k], pool_state.protocol_fees[k]) <= pool_state.protocol_fees[k]
    BY <2>1, PartialCollection
  <2>3. QED
    BY <2>1, <2>2
<1>4. rest = [k \in Side |-> rest[k]]
  OBVIOUS
<1> HIDE DEF rest, amount
<1>5. /\ pool_state'.protocol_fees = rest
      /\ pool_state'.fund_fees = pool_state.fund_fees
      /\ pool_state'.creator_fees = pool_state.creator_fees
      /\ pool_state'.lp_supply = pool_state.lp_supply
      /\ pool_state' = [pool_state EXCEPT
             !.lp_supply = pool_state'.lp_supply,
             !.protocol_fees = pool_state'.protocol_fees,
             !.fund_fees = pool_state'.fund_fees,
             !.creator_fees = pool_state'.creator_fees]
  BY <1>1, <1>2, PoolFields DEF PoolStates
<1>6. rest \in [Side -> Nat]
  BY <1>3, <1>4
<1>7. OnlyAmountsMove
  BY <1>1, <1>5, <1>6, PoolFields, PoolAssumption DEF OnlyAmountsMove, U64
<1>8. \A k \in Side : /\ owed_fees(k)' <= owed_fees(k)
                      /\ vault'[k] = vault[k] - (owed_fees(k) - owed_fees(k)')
                      /\ vault'[k] \in Int
  BY <1>1, <1>2, <1>3, <1>5, Balances DEF owed_fees
<1>9. vault' \in [Side -> Int]
  BY <1>2, <1>8
<1>10. QED
  BY <1>2, <1>5, <1>7, <1>8, <1>9, CollectionKeeps

\* CollectFundFee keeps the invariant and the reserves.
LEMMA CollectFundFeeKeeps ==
    ASSUME IInv, NEW owner, NEW requested \in [Side -> U64],
           CollectFundFee(owner, requested)
    PROVE  /\ IInv'
           /\ \A k \in Side : vault_amount_without_fee(k)' = vault_amount_without_fee(k)
<1> DEFINE amount == [k \in Side |-> lesser(requested[k], pool_state.fund_fees[k])]
           rest == [k \in Side |-> pool_state.fund_fees[k] - amount[k]]
<1>1. TypeOK
  BY DEF IInv
<1>2. /\ pool_state.initialized
      /\ vault' = [k \in Side |-> vault[k] - amount[k]]
      /\ pool_state' = [pool_state EXCEPT !.fund_fees = rest]
      /\ UNCHANGED <<lp_mint_supply, amm_config, observation_state, unix_timestamp>>
  BY DEF CollectFundFee
<1>3. \A k \in Side : /\ amount[k] \in Nat /\ amount[k] <= pool_state.fund_fees[k]
                      /\ rest[k] \in Nat /\ rest[k] + amount[k] = pool_state.fund_fees[k]
  <2> TAKE k \in Side
  <2>1. pool_state.fund_fees[k] \in Nat /\ requested[k] \in U64
    BY <1>1, Balances
  <2>2. /\ lesser(requested[k], pool_state.fund_fees[k]) \in Nat
        /\ lesser(requested[k], pool_state.fund_fees[k]) <= pool_state.fund_fees[k]
    BY <2>1, PartialCollection
  <2>3. QED
    BY <2>1, <2>2
<1>4. rest = [k \in Side |-> rest[k]]
  OBVIOUS
<1> HIDE DEF rest, amount
<1>5. /\ pool_state'.fund_fees = rest
      /\ pool_state'.protocol_fees = pool_state.protocol_fees
      /\ pool_state'.creator_fees = pool_state.creator_fees
      /\ pool_state'.lp_supply = pool_state.lp_supply
      /\ pool_state' = [pool_state EXCEPT
             !.lp_supply = pool_state'.lp_supply,
             !.protocol_fees = pool_state'.protocol_fees,
             !.fund_fees = pool_state'.fund_fees,
             !.creator_fees = pool_state'.creator_fees]
  BY <1>1, <1>2, PoolFields DEF PoolStates
<1>6. rest \in [Side -> Nat]
  BY <1>3, <1>4
<1>7. OnlyAmountsMove
  BY <1>1, <1>5, <1>6, PoolFields, PoolAssumption DEF OnlyAmountsMove, U64
<1>8. \A k \in Side : /\ owed_fees(k)' <= owed_fees(k)
                      /\ vault'[k] = vault[k] - (owed_fees(k) - owed_fees(k)')
                      /\ vault'[k] \in Int
  BY <1>1, <1>2, <1>3, <1>5, Balances DEF owed_fees
<1>9. vault' \in [Side -> Int]
  BY <1>2, <1>8
<1>10. QED
  BY <1>2, <1>5, <1>7, <1>8, <1>9, CollectionKeeps

-----------------------------------------------------------------------------
(* Creation, administration and the steps of others. *)

\* The creation of the pool establishes the invariant.
LEMMA CreatePoolKeeps ==
    ASSUME IInv, NEW amount \in [Side -> U64], NEW open_time \in Nat,
           NEW fee \in AnyFees, NEW on \in CreatorFeeOn, NEW enable \in BOOLEAN,
           CreatePool(amount, open_time, fee, on, enable)
    PROVE  IInv'
<1> DEFINE received == [i \in Side |-> amount[i] - calculate_fee(fee[i], amount[i])]
           time == IF open_time <= unix_timestamp THEN unix_timestamp + 1 ELSE open_time
<1>1. PICK liquidity \in U64 :
        /\ liquidity >= LOCK_LP_AMOUNT
        /\ lp_mint_supply' = liquidity - LOCK_LP_AMOUNT
        /\ pool_state' = [NoPool EXCEPT
               !.initialized = TRUE, !.lp_supply = liquidity, !.open_time = time,
               !.creator_fee_on = on, !.enable_creator_fee = enable]
  BY DEF CreatePool, first_lp_minted
<1>2. /\ vault' = received
      /\ \A i \in Side : received[i] > 0
      /\ UNCHANGED <<amm_config, observation_state, unix_timestamp>>
  BY DEF CreatePool
<1>3. \A i \in Side : received[i] \in U64
  <2> TAKE i \in Side
  <2>1. amount[i] \in Nat /\ amount[i] <= U64_MAX /\ U64_MAX \in Nat
    <3>1. amount[i] \in U64
      OBVIOUS
    <3>2. U64_MAX \in Nat /\ \A a \in U64 : a \in Nat /\ a <= U64_MAX
      BY PoolAssumption DEF U64
    <3>3. QED
      BY <3>1, <3>2
  <2>2. calculate_fee(fee[i], amount[i]) \in 0 .. amount[i]
    BY <2>1, FeeArgument, TransferFeeBounded
  <2>3. QED
    BY <2>1, <2>2 DEF U64
<1>4. vault' \in [Side -> U64] /\ \A i \in Side : vault'[i] > 0
  BY <1>2, <1>3
<1>5. TypeOK
  BY DEF IInv
<1>6. time \in Nat
  BY <1>5, PoolAssumption DEF TypeOK, Oracle!TypeOK
<1> HIDE DEF received, time
<1>7. NoFees \in [Side -> U64] /\ \A i \in Side : NoFees[i] = 0
  BY PoolAssumption DEF NoFees, U64
<1>8. NoPool \in PoolStates
  BY <1>7, PoolAssumption DEF NoPool, PoolStates, U64, CreatorFeeOn
<1>9. /\ pool_state' \in PoolStates
      /\ pool_state'.lp_supply = liquidity
      /\ pool_state'.protocol_fees = NoFees
      /\ pool_state'.fund_fees = NoFees
      /\ pool_state'.creator_fees = NoFees
  BY <1>1, <1>6, <1>7, <1>8, Zenon DEF PoolStates, NoPool
<1>10. \A i \in Side : owed_fees(i)' = 0
  BY <1>7, <1>9 DEF owed_fees
<1>11. lp_mint_supply' \in U64 /\ lp_mint_supply' + LOCK_LP_AMOUNT <= pool_state'.lp_supply
  BY <1>1, <1>9, PoolAssumption DEF U64
<1>12. TypeOK'
  BY <1>2, <1>4, <1>5, <1>9, <1>11 DEF TypeOK, Config!TypeOK, Oracle!TypeOK
<1>13. \A i \in Side : owed_fees(i)' <= vault'[i] /\ vault'[i] - owed_fees(i)' > 0
  BY <1>4, <1>10, PoolAssumption DEF U64
<1>14. Solvent' /\ ReservesPositive'
  BY <1>13 DEF Solvent, ReservesPositive, vault_amount_without_fee
<1>15. LockedLiquidity' /\ Config!RatesWithinDenominator'
  BY <1>2, <1>11 DEF IInv, LockedLiquidity, Config!RatesWithinDenominator
<1>16. QED
  BY <1>12, <1>14, <1>15 DEF IInv

\* The admin's status byte touches no amount.
LEMMA UpdatePoolStatusKeeps ==
    ASSUME IInv, NEW status \in SUBSET PoolStatusBitIndex, UpdatePoolStatus(status)
    PROVE  IInv'
<1>1. /\ pool_state' = [pool_state EXCEPT !.status = status]
      /\ UNCHANGED <<vault, lp_mint_supply, amm_config, observation_state, unix_timestamp>>
      /\ status \in SUBSET PoolStatusBitIndex
  BY PoolAssumption DEF UpdatePoolStatus, PoolStatusBitIndex
<1>2. TypeOK
  BY DEF IInv
<1>3. /\ pool_state' \in PoolStates
      /\ pool_state'.initialized = pool_state.initialized
      /\ pool_state'.lp_supply = pool_state.lp_supply
      /\ pool_state'.protocol_fees = pool_state.protocol_fees
      /\ pool_state'.fund_fees = pool_state.fund_fees
      /\ pool_state'.creator_fees = pool_state.creator_fees
  BY <1>1, <1>2, PoolFields DEF PoolStates
<1>4. TypeOK'
  BY <1>1, <1>2, <1>3 DEF TypeOK, Config!TypeOK, Oracle!TypeOK
<1>5. Solvent' /\ LockedLiquidity' /\ ReservesPositive' /\ Config!RatesWithinDenominator'
  BY <1>1, <1>3
     DEF IInv, Solvent, LockedLiquidity, ReservesPositive, vault_amount_without_fee,
         owed_fees, Config!RatesWithinDenominator
<1>6. QED
  BY <1>4, <1>5 DEF IInv

\* Types and the bounds on the rates hold together: an update checks a rate
\* against the ones stored before it.
ConfigInv == Config!TypeOK /\ Config!RatesWithinDenominator

\* The creation of the config by any signer, with any u64 rates (lib.rs:58).
LEMMA CreateKeepsConfig ==
    ASSUME ConfigInv,
           NEW owner \in Accounts, NEW mint \in ConfigMints,
           NEW trade \in Nat, NEW protocol \in Nat, NEW fund \in Nat, NEW creator \in Nat,
           NEW pool_fee \in Nat, NEW discount \in Nat,
           Config!CreateAmmConfig(owner, trade, protocol, fund, creator, pool_fee, mint, discount)
    PROVE  ConfigInv'
  BY FeeDenominatorAssumption
     DEF ConfigInv, Config!TypeOK, Config!Configs, Config!RatesWithinDenominator,
         Config!CreateAmmConfig, ConfigMints

\* Any update, one rate or owner at a time (update_config.rs:17).
LEMMA UpdateKeepsConfig ==
    ASSUME ConfigInv,
           NEW owner, NEW param, NEW value \in Nat, NEW account \in Accounts \cup {DEFAULT_PUBKEY},
           Config!UpdateAmmConfig(owner, param, value, account)
    PROVE  ConfigInv'
<1> USE FeeDenominatorAssumption
    DEF ConfigInv, Config!TypeOK, Config!Configs, Config!RatesWithinDenominator
<1>1. CASE Config!update_trade_fee_rate(value)
  BY <1>1 DEF Config!update_trade_fee_rate
<1>2. CASE Config!update_protocol_fee_rate(value)
  BY <1>2 DEF Config!update_protocol_fee_rate
<1>3. CASE Config!update_fund_fee_rate(value)
  BY <1>3 DEF Config!update_fund_fee_rate
<1>4. CASE Config!set_new_protocol_owner(account)
  BY <1>4 DEF Config!set_new_protocol_owner
<1>5. CASE Config!set_new_fund_owner(account)
  BY <1>5 DEF Config!set_new_fund_owner
<1>6. CASE amm_config' = [amm_config EXCEPT !.create_pool_fee = value]
  BY <1>6
<1>7. CASE amm_config' = [amm_config EXCEPT !.disable_create_pool = (value # 0)]
  BY <1>7
<1>8. CASE Config!update_creator_fee_rate(value)
  BY <1>8 DEF Config!update_creator_fee_rate
<1>9. QED
  BY <1>1, <1>2, <1>3, <1>4, <1>5, <1>6, <1>7, <1>8 DEF Config!UpdateAmmConfig

\* What the invariant says of all but amm_config survives a step that changes
\* nothing else.
LEMMA ConfigStepKeeps ==
    ASSUME IInv, ConfigInv',
           UNCHANGED <<pool_state, vault, lp_mint_supply, observation_state, unix_timestamp>>
    PROVE  IInv'
  BY DEF ConfigInv, IInv, TypeOK, Oracle!TypeOK, Solvent, LockedLiquidity, ReservesPositive,
         vault_amount_without_fee, owed_fees

\* The config's creation keeps the invariant.
LEMMA CreateConfigKeeps ==
    ASSUME IInv, NEW c \in ConfigParams, NEW mint \in ConfigMints, AnyConfig(c, mint)
    PROVE  IInv'
<1>1. /\ c.trade \in Nat /\ c.protocol \in Nat /\ c.fund \in Nat /\ c.creator \in Nat
      /\ c.discount \in Nat /\ ADMIN \in Accounts
  BY PoolAssumption
<1>2. ConfigInv
  BY DEF IInv, TypeOK, ConfigInv
<1>3. ConfigInv'
  BY <1>1, <1>2, CreateKeepsConfig DEF AnyConfig
<1>4. QED
  BY <1>3, ConfigStepKeeps DEF AnyConfig

\* Any update of the config under a live pool keeps the invariant.
LEMMA UpdateConfigKeeps ==
    ASSUME IInv, NEW u \in ConfigUpdates, NEW account \in Accounts, UpdateConfig(u, account)
    PROVE  IInv'
<1>1. u[2] \in Nat
  BY PoolAssumption
<1>2. ConfigInv
  BY DEF IInv, TypeOK, ConfigInv
<1>3. ConfigInv'
  BY <1>1, <1>2, UpdateKeepsConfig DEF UpdateConfig
<1>4. QED
  BY <1>3, ConfigStepKeeps DEF UpdateConfig

\* A donation only adds to a reserve.
LEMMA DonateKeeps ==
    ASSUME IInv, NEW i \in Side, NEW amount \in U64, Donate(i, amount)
    PROVE  /\ IInv'
           /\ \A k \in Side : vault_amount_without_fee(k)' >= vault_amount_without_fee(k)
<1>1. /\ pool_state.initialized /\ amount \in Nat /\ U64_MAX \in Nat
      /\ vault[i] + amount <= U64_MAX
      /\ vault' = [vault EXCEPT ![i] = @ + amount]
      /\ UNCHANGED <<pool_state, lp_mint_supply, amm_config, observation_state, unix_timestamp>>
  BY PoolAssumption DEF Donate, U64
<1>2. TypeOK
  BY DEF IInv
<1>3. \A k \in Side : vault'[k] = vault[k] + (IF k = i THEN amount ELSE 0)
  <2> TAKE k \in Side
  <2>1. vault \in [Side -> U64] /\ vault[k] \in Nat
    BY <1>2, PoolFields, Balances
  <2>2. CASE k = i
    BY <1>1, <2>1, <2>2
  <2>3. CASE k # i
    BY <1>1, <2>1, <2>3
  <2>4. QED
    BY <2>2, <2>3
<1>4. \A k \in Side : owed_fees(k)' = owed_fees(k)
  BY <1>1 DEF owed_fees
<1>5. \A k \in Side : /\ vault'[k] \in Int /\ vault'[k] <= U64_MAX
                      /\ vault_amount_without_fee(k)' >= vault_amount_without_fee(k)
                      /\ vault_amount_without_fee(k)' > 0
  BY <1>1, <1>3, <1>4, LivePool DEF vault_amount_without_fee
<1>6. vault' \in [Side -> Int]
  BY <1>1, <1>2, <1>5, PoolFields
<1>7. OnlyAmountsMove
  <2>1. pool_state' = [pool_state EXCEPT !.lp_supply = pool_state.lp_supply]
    BY <1>1, <1>2, PoolFields DEF PoolStates
  <2>2. QED
    BY <1>2, <2>1, SameFees
<1>8. /\ pool_state'.lp_supply \in U64 /\ lp_mint_supply' \in Nat
      /\ lp_mint_supply' + LOCK_LP_AMOUNT <= pool_state'.lp_supply
  BY <1>1, <1>2, PoolFields, LivePool
<1>9. \A k \in Side : vault'[k] <= U64_MAX /\ vault_amount_without_fee(k)' > 0
  BY <1>5
<1>10. IInv'
  BY <1>1, <1>6, <1>7, <1>8, <1>9, LivePoolKeeps
<1>11. QED
  BY <1>5, <1>10

\* Burning LP tokens only lowers the redeemable supply.
LEMMA BurnLpKeeps ==
    ASSUME IInv, NEW amount \in U64, BurnLp(amount)
    PROVE  IInv'
<1>1. /\ amount <= lp_mint_supply /\ lp_mint_supply' = lp_mint_supply - amount
      /\ UNCHANGED <<pool_state, vault, amm_config, observation_state, unix_timestamp>>
      /\ amount \in Nat /\ U64_MAX \in Nat /\ LOCK_LP_AMOUNT \in Nat
  BY PoolAssumption DEF BurnLp, U64
<1>2. TypeOK /\ lp_mint_supply \in U64 /\ pool_state.lp_supply \in U64
  BY PoolFields DEF IInv
<1>3. lp_mint_supply' \in U64 /\ lp_mint_supply' <= lp_mint_supply /\ lp_mint_supply \in Nat
      /\ pool_state.lp_supply \in Nat
  BY <1>1, <1>2 DEF U64
<1>4. TypeOK'
  BY <1>1, <1>2, <1>3 DEF TypeOK, Config!TypeOK, Oracle!TypeOK
<1>5. LockedLiquidity'
  BY <1>1, <1>3 DEF IInv, LockedLiquidity
<1>6. Solvent' /\ ReservesPositive' /\ Config!RatesWithinDenominator'
  BY <1>1 DEF IInv, Solvent, ReservesPositive, vault_amount_without_fee, owed_fees,
              Config!RatesWithinDenominator
<1>7. QED
  BY <1>4, <1>5, <1>6 DEF IInv

\* So does the clock, forwards or backwards.
LEMMA ClockMovesKeeps ==
    ASSUME IInv, ClockMoves
    PROVE  IInv'
<1>1. /\ UNCHANGED <<pool_state, vault, lp_mint_supply, amm_config, observation_state>>
      /\ unix_timestamp' \in Nat
  BY PoolAssumption DEF ClockMoves, Oracle!ClockMoves
<1>2. QED
  BY <1>1 DEF IInv, TypeOK, Config!TypeOK, Oracle!TypeOK, Solvent, LockedLiquidity,
              ReservesPositive, vault_amount_without_fee, owed_fees,
              Config!RatesWithinDenominator

-----------------------------------------------------------------------------

\* The initial state: no account exists.
LEMMA InitEstablishes == Init => IInv
<1> SUFFICES ASSUME Init PROVE IInv
  OBVIOUS
<1>1. /\ pool_state = NoPool /\ vault = [i \in Side |-> 0] /\ lp_mint_supply = 0
      /\ Config!Init /\ Oracle!Init
  BY DEF Init
<1>2. 0 \in U64 /\ NoFees \in [Side -> U64] /\ \A i \in Side : NoFees[i] = 0
  BY PoolAssumption DEF NoFees, U64
<1>3. pool_state \in PoolStates /\ ~pool_state.initialized
  BY <1>1, <1>2 DEF NoPool, PoolStates, CreatorFeeOn
<1>4. Config!TypeOK /\ Config!RatesWithinDenominator
  BY <1>1, PoolAssumption, FeeDenominatorAssumption
     DEF Config!Init, Config!NoConfig, Config!TypeOK, Config!Configs,
         Config!RatesWithinDenominator
<1>5. Oracle!TypeOK
  <2>1. Oracle!ZeroObservation \in Oracle!Observation
    BY PoolAssumption DEF Oracle!ZeroObservation, Oracle!Observation
  <2>2. observation_state \in Oracle!ObservationState
    BY <1>1, <2>1, PoolAssumption
       DEF Oracle!Init, Oracle!EmptyObservations, Oracle!ObservationState, Oracle!Slots
  <2>3. unix_timestamp \in Nat
    BY <1>1, PoolAssumption DEF Oracle!Init
  <2>4. QED
    BY <2>2, <2>3 DEF Oracle!TypeOK
<1>6. \A i \in Side : owed_fees(i) = 0 /\ vault[i] = 0
  BY <1>1, <1>2 DEF NoPool, owed_fees
<1>7. TypeOK
  BY <1>1, <1>2, <1>3, <1>4, <1>5 DEF TypeOK
<1>8. QED
  BY <1>3, <1>4, <1>6, <1>7 DEF IInv, Solvent, LockedLiquidity, ReservesPositive

\* Every step keeps the invariant.
LEMMA StepKeeps == IInv /\ [AnyNext]_vars => IInv'
<1> SUFFICES ASSUME IInv, [AnyNext]_vars PROVE IInv'
  OBVIOUS
<1>1. ASSUME NEW amount \in [Side -> U64], NEW open_time \in Nat, NEW fee \in AnyFees,
             \/ Initialize(amount, open_time, fee)
             \/ \E on \in CreatorFeeOn : InitializeWithPermission(amount, open_time, fee, on)
      PROVE  IInv'
  BY <1>1, CreatePoolKeeps DEF Initialize, InitializeWithPermission, CreatorFeeOn
<1>2. ASSUME NEW lp \in U64, NEW limit, NEW fee \in AnyFees,
             Deposit(lp, limit, fee) \/ Withdraw(lp, limit, fee)
      PROVE  IInv'
  BY <1>2, DepositKeeps, WithdrawKeeps
<1>3. ASSUME NEW i \in Side, NEW amount \in U64, NEW limit, NEW fee \in AnyFees,
             SwapBaseInput(i, amount, limit, fee) \/ SwapBaseOutput(i, limit, amount, fee)
      PROVE  IInv'
  BY <1>3, SwapKeeps
<1>4. CASE CollectCreatorFee
  BY <1>4, CollectCreatorFeeKeeps
<1>5. ASSUME NEW owner \in Accounts, NEW requested \in [Side -> U64],
             CollectProtocolFee(owner, requested) \/ CollectFundFee(owner, requested)
      PROVE  IInv'
  BY <1>5, CollectProtocolFeeKeeps, CollectFundFeeKeeps
<1>6. ASSUME NEW status \in SUBSET PoolStatusBitIndex, UpdatePoolStatus(status) PROVE IInv'
  BY <1>6, UpdatePoolStatusKeeps
<1>7. ASSUME NEW c \in ConfigParams, NEW mint \in ConfigMints, AnyConfig(c, mint) PROVE IInv'
  BY <1>7, CreateConfigKeeps
<1>8. ASSUME NEW u \in ConfigUpdates, NEW account \in Accounts, UpdateConfig(u, account)
      PROVE  IInv'
  BY <1>8, UpdateConfigKeeps
<1>9. ASSUME NEW i \in Side, NEW amount \in U64, Donate(i, amount) PROVE IInv'
  BY <1>9, DonateKeeps
<1>10. ASSUME NEW amount \in U64, BurnLp(amount) PROVE IInv'
  BY <1>10, BurnLpKeeps
<1>11. CASE ClockMoves
  BY <1>11, ClockMovesKeeps
<1>12. CASE UNCHANGED vars
  BY <1>12 DEF vars, IInv, TypeOK, Config!TypeOK, Oracle!TypeOK, Solvent, LockedLiquidity,
               ReservesPositive, vault_amount_without_fee, owed_fees,
               Config!RatesWithinDenominator
<1>13. QED
  BY <1>1, <1>2, <1>3, <1>4, <1>5, <1>6, <1>7, <1>8, <1>9, <1>10, <1>11, <1>12 DEF AnyNext

\* The inductive invariant.
LEMMA AnyInvariant == AnySpec => []IInv
  BY InitEstablishes, StepKeeps, PTL DEF AnySpec

\* The steps of Pool.tla keep it.
THEOREM PoolInvariant == Spec => []IInv
  BY AnyInvariant, SpecIsAny, PTL

\* No u64 of the pool, the vaults or the LP supply ever overflows or turns
\* negative: every account keeps its type.
THEOREM PoolTypeCorrect == Spec => []TypeOK
<1>1. IInv => TypeOK
  BY DEF IInv
<1>2. QED
  BY <1>1, PoolInvariant, PTL

\* The vaults always hold the fees owed (pool.rs:204, pool.rs:341).
THEOREM PoolSolvent == Spec => []Solvent
<1>1. IInv => Solvent
  BY DEF IInv
<1>2. QED
  BY <1>1, PoolInvariant, PTL

\* The locked part of the first liquidity can never be redeemed
\* (initialize.rs:273, withdraw.rs:178).
THEOREM LiquidityStaysLocked == Spec => []LockedLiquidity
<1>1. IInv => LockedLiquidity
  BY DEF IInv
<1>2. QED
  BY <1>1, PoolInvariant, PTL

\* A pool never runs out of either token (pool.rs:227).
THEOREM ReservesStayPositive == Spec => []ReservesPositive
<1>1. IInv => ReservesPositive
  BY DEF IInv
<1>2. QED
  BY <1>1, PoolInvariant, PTL

-----------------------------------------------------------------------------
(***************************************************************************)
(* Pool.tla implements LiquidityShares.tla: every step of the pool is, to  *)
(* its liquidity providers, a step of the abstract pool or no step at all. *)
(*                                                                         *)
(* Beside the invariant above the proof needs that an account that         *)
(* holds no pool yet is empty (NoPoolYet), so that the creation of a pool  *)
(* starts the abstract one from nothing.                                   *)
(***************************************************************************)

NoPoolYet ==
    ~pool_state.initialized =>
        /\ pool_state = NoPool
        /\ lp_mint_supply = 0
        /\ vault = [i \in Side |-> 0]

\* The reserves of the liquidity providers.
provided == [i \in Side |-> vault_amount_without_fee(i)]

-----------------------------------------------------------------------------
(* Rounding. *)

\* A reserve that gets the price of lp shares rounded up, in proportion.
LEMMA JoinInProportion ==
    ASSUME NEW lp \in Nat, NEW supply \in Nat \ {0}, NEW reserve \in Nat, NEW amount \in Nat,
           amount = lp_to_trading_ceiling(lp, supply, reserve), amount > 0,
           NEW supply_after, supply_after = supply + lp,
           NEW reserve_after, reserve_after = reserve + amount
    PROVE  /\ reserve_after * supply >= reserve * supply_after
           /\ (reserve_after - 1) * supply < reserve * supply_after
<1>1. amount * supply >= reserve * lp /\ (amount - 1) * supply < reserve * lp
  BY CeilingShareLeast
<1>2. /\ reserve_after * supply = reserve * supply + amount * supply
      /\ (reserve_after - 1) * supply = reserve * supply + (amount - 1) * supply
      /\ reserve * supply_after = reserve * supply + reserve * lp
  OBVIOUS
<1>3. /\ reserve * supply \in Int /\ amount * supply \in Int
      /\ (amount - 1) * supply \in Int /\ reserve * lp \in Int
  OBVIOUS
<1>4. QED
  BY <1>1, <1>2, <1>3

\* A reserve that pays for lp shares rounded down, in proportion.
LEMMA LeaveInProportion ==
    ASSUME NEW lp \in Nat, NEW supply \in Nat \ {0}, NEW reserve \in Nat, NEW amount \in Nat,
           amount = lp_to_trading_floor(lp, supply, reserve),
           NEW supply_after, supply_after = supply - lp,
           NEW reserve_after, reserve_after = reserve - amount
    PROVE  /\ reserve_after * supply >= reserve * supply_after
           /\ (reserve_after - 1) * supply < reserve * supply_after
<1>1. supply * amount <= lp * reserve /\ lp * reserve < supply * amount + supply
  BY FloorDivBounds DEF lp_to_trading_floor
<1>2. /\ reserve_after * supply = reserve * supply - supply * amount
      /\ (reserve_after - 1) * supply = reserve * supply - supply * amount - supply
      /\ reserve * supply_after = reserve * supply - lp * reserve
  OBVIOUS
<1>3. reserve * supply \in Int /\ supply * amount \in Int /\ lp * reserve \in Int
  OBVIOUS
<1>4. QED
  BY <1>1, <1>2, <1>3

-----------------------------------------------------------------------------
(* The steps. *)

\* After a step a live pool has reserves an abstract pool may have.
LEMMA ReserveRange ==
    ASSUME IInv', pool_state'.initialized
    PROVE  provided' \in [Side -> 1 .. U64_MAX]
<1>1. pool_state' \in PoolStates /\ vault' \in [Side -> U64]
  BY DEF IInv, TypeOK
<1>2. ASSUME NEW k \in Side
      PROVE  vault_amount_without_fee(k)' \in 1 .. U64_MAX
  <2> DEFINE p == pool_state'.protocol_fees[k]
             f == pool_state'.fund_fees[k]
             c == pool_state'.creator_fees[k]
             v == vault'[k]
             r == vault_amount_without_fee(k)'
  <2>1. p \in U64 /\ f \in U64 /\ c \in U64 /\ v \in U64
    BY <1>1 DEF PoolStates
  <2>2. r = v - (p + f + c)
    BY DEF vault_amount_without_fee, owed_fees
  <2>3. r > 0
    BY DEF IInv, ReservesPositive
  <2> HIDE DEF p, f, c, v, r
  <2>4. r \in 1 .. U64_MAX
    BY <2>1, <2>2, <2>3, PoolAssumption DEF U64
  <2>5. QED
    BY <2>4 DEF r
<1>3. QED
  BY <1>2 DEF provided

\* Reading a reserve.
LEMMA Provided ==
    ASSUME NEW k \in Side
    PROVE  /\ provided[k] = vault_amount_without_fee(k)
           /\ provided'[k] = vault_amount_without_fee(k)'
  BY DEF provided

\* Burning LP tokens forfeits shares.
LEMMA BurnLpForfeits ==
    ASSUME IInv, NEW amount \in U64, BurnLp(amount)
    PROVE  Shares!Forfeit
<1>1. /\ amount <= lp_mint_supply /\ lp_mint_supply' = lp_mint_supply - amount
      /\ amount \in Nat /\ lp_mint_supply \in Nat
  BY PoolAssumption, PoolFields DEF BurnLp, IInv, U64
<1>2. UNCHANGED <<pool_state, vault>>
  BY DEF BurnLp
<1>3. lp_mint_supply' \in 0 .. lp_mint_supply
  BY <1>1
<1>4. provided' = provided /\ pool_state'.lp_supply = pool_state.lp_supply
  BY <1>2 DEF provided, vault_amount_without_fee, owed_fees
<1>5. QED
  BY <1>3, <1>4, Zenon DEF Shares!Forfeit, provided

\* A deposit joins.
LEMMA DepositJoins ==
    ASSUME IInv, IInv', NEW lp \in U64, NEW maximum, NEW fee \in AnyFees,
           Deposit(lp, maximum, fee)
    PROVE  Shares!Join
<1>1. /\ pool_state.initialized /\ lp \in Nat /\ lp > 0
      /\ pool_state' = [pool_state EXCEPT !.lp_supply = pool_state.lp_supply + lp]
      /\ lp_mint_supply' = lp_mint_supply + lp
  BY PoolAssumption DEF Deposit, deposit_accepted, U64
<1>2. /\ pool_state'.initialized
      /\ pool_state'.lp_supply = pool_state.lp_supply + lp
  BY <1>1, PoolFields DEF IInv, PoolStates
<1>3. provided' \in [Side -> 1 .. U64_MAX]
  BY <1>2, ReserveRange
<1>4. \A k \in Side :
        /\ provided'[k] * pool_state.lp_supply >= provided[k] * pool_state'.lp_supply
        /\ (provided'[k] - 1) * pool_state.lp_supply < provided[k] * pool_state'.lp_supply
  <2> TAKE k \in Side
  <2> DEFINE amount ==
        lp_to_trading_ceiling(lp, pool_state.lp_supply, vault_amount_without_fee(k))
  <2>1. /\ amount \in Nat \ {0}
        /\ vault_amount_without_fee(k)' = vault_amount_without_fee(k) + amount
    BY DepositAdds
  <2>2. vault_amount_without_fee(k) \in Nat /\ pool_state.lp_supply \in Nat \ {0}
    BY <1>1, LivePool
  <2>3. provided[k] \in Nat /\ provided[k] = vault_amount_without_fee(k)
    BY <2>2, Provided
  <2>4. provided'[k] = provided[k] + amount
    BY <2>1, <2>3, Provided
  <2>5. amount = lp_to_trading_ceiling(lp, pool_state.lp_supply, provided[k])
    BY <2>3
  <2>6. lp \in Nat /\ amount \in Nat /\ amount > 0
    BY <1>1, <2>1
  <2>7. pool_state'.lp_supply = pool_state.lp_supply + lp
    BY <1>2
  <2> HIDE DEF amount
  <2>8. QED
    BY <2>2, <2>3, <2>4, <2>5, <2>6, <2>7, JoinInProportion, Zenon
<1>5. /\ pool_state.lp_supply > 0 /\ pool_state'.lp_supply > pool_state.lp_supply
      /\ pool_state'.lp_supply \in 1 .. U64_MAX
      /\ lp_mint_supply' = lp_mint_supply + pool_state'.lp_supply - pool_state.lp_supply
  BY <1>1, <1>2, LivePool, PoolAssumption DEF Deposit, deposit_accepted
<1>6. QED
  BY <1>3, <1>4, <1>5, Zenon DEF Shares!Join, Shares!Rescale, Shares!Tokens, Side, provided

\* A withdrawal leaves.
LEMMA WithdrawLeaves ==
    ASSUME IInv, IInv', NEW lp \in U64, NEW minimum, NEW fee,
           Withdraw(lp, minimum, fee)
    PROVE  Shares!Leave
<1>1. /\ pool_state.initialized /\ lp \in Nat /\ lp > 0 /\ lp <= lp_mint_supply
      /\ pool_state' = [pool_state EXCEPT !.lp_supply = pool_state.lp_supply - lp]
      /\ lp_mint_supply' = lp_mint_supply - lp
  BY PoolAssumption DEF Withdraw, withdraw_accepted, U64
<1>2. /\ pool_state'.initialized
      /\ pool_state'.lp_supply = pool_state.lp_supply - lp
  BY <1>1, PoolFields DEF IInv, PoolStates
<1>3. provided' \in [Side -> 1 .. U64_MAX]
  BY <1>2, ReserveRange
<1>4. \A k \in Side :
        /\ provided'[k] * pool_state.lp_supply >= provided[k] * pool_state'.lp_supply
        /\ (provided'[k] - 1) * pool_state.lp_supply < provided[k] * pool_state'.lp_supply
  <2> TAKE k \in Side
  <2> DEFINE amount ==
        lp_to_trading_floor(lp, pool_state.lp_supply, vault_amount_without_fee(k))
  <2>1. /\ amount \in Nat
        /\ vault_amount_without_fee(k)' = vault_amount_without_fee(k) - amount
    BY WithdrawTakes
  <2>2. vault_amount_without_fee(k) \in Nat /\ pool_state.lp_supply \in Nat \ {0}
    BY <1>1, LivePool
  <2>3. provided[k] \in Nat /\ provided[k] = vault_amount_without_fee(k)
    BY <2>2, Provided
  <2>4. provided'[k] = provided[k] - amount
    BY <2>1, <2>3, Provided
  <2>5. amount = lp_to_trading_floor(lp, pool_state.lp_supply, provided[k])
    BY <2>3
  <2>6. pool_state'.lp_supply = pool_state.lp_supply - lp
    BY <1>2
  <2>7. lp \in Nat /\ amount \in Nat
    BY <1>1, <2>1
  <2> HIDE DEF amount
  <2>8. QED
    BY <2>2, <2>3, <2>4, <2>5, <2>6, <2>7, LeaveInProportion, Zenon
<1>5. /\ pool_state.lp_supply > 0 /\ pool_state'.lp_supply < pool_state.lp_supply
      /\ pool_state'.lp_supply \in 1 .. U64_MAX
      /\ lp_mint_supply' = lp_mint_supply + pool_state'.lp_supply - pool_state.lp_supply
      /\ lp_mint_supply' >= 0
  BY <1>1, <1>2, LivePool, PoolAssumption
<1>6. QED
  BY <1>3, <1>4, <1>5, Zenon DEF Shares!Leave, Shares!Rescale, Shares!Tokens, Side, provided

\* A step of a live pool that leaves the shares alone and does not lower the
\* product of the reserves trades.
LEMMA ProductTrades ==
    ASSUME IInv, IInv', pool_state.initialized, pool_state'.initialized,
           provided'[0] * provided'[1] >= provided[0] * provided[1],
           pool_state'.lp_supply = pool_state.lp_supply,
           lp_mint_supply' = lp_mint_supply
    PROVE  Shares!Trade
<1>1. provided' \in [Side -> 1 .. U64_MAX]
  BY ReserveRange
<1>2. pool_state.lp_supply > 0
  BY LivePool
<1>3. QED
  BY <1>1, <1>2, Zenon DEF Shares!Trade, Shares!product, Shares!Tokens, Side, provided

\* Larger factors make a larger product.
LEMMA ProductGrows ==
    ASSUME NEW a \in Nat, NEW b \in Nat, NEW c \in Nat, NEW d \in Nat, a >= c, b >= d
    PROVE  a * b >= c * d
<1>1. c * b <= a * b /\ c * d <= c * b
  BY MulMonotone
<1>2. a * b \in Nat /\ c * b \in Nat /\ c * d \in Nat
  OBVIOUS
<1>3. QED
  BY <1>1, <1>2

\* A settled swap trades.
LEMMA SwapTrades ==
    ASSUME IInv, IInv', NEW i \in Side, NEW amount \in U64, NEW limit, NEW fee \in AnyFees,
           SwapBaseInput(i, amount, limit, fee) \/ SwapBaseOutput(i, limit, amount, fee)
    PROVE  Shares!Trade
<1>1. PICK result, arrived : SettlesSoundly(i, result, arrived)
  BY SwapBaseInputSettles, SwapBaseOutputSettles
<1>2. /\ vault_amount_without_fee(i)' >= result.new_input_vault_amount
      /\ vault_amount_without_fee(1 - i)' = result.new_output_vault_amount
  BY <1>1, SwapReserves DEF SettlesSoundly, IInv
<1>3. pool_state.initialized
  BY <1>1 DEF SettlesSoundly, swap_approved
<1>4. /\ pool_state'.initialized /\ pool_state'.lp_supply = pool_state.lp_supply
      /\ lp_mint_supply' = lp_mint_supply
  <2>1. pool_state' = [pool_state EXCEPT
            !.protocol_fees = pool_state'.protocol_fees,
            !.fund_fees = pool_state'.fund_fees,
            !.creator_fees = pool_state'.creator_fees]
    BY <1>1, FeesBooked DEF SettlesSoundly, SettleSwap, sound_result, IInv
  <2>2. QED
    BY <1>1, <1>3, <2>1, PoolFields DEF SettlesSoundly, SettleSwap, IInv, PoolStates
<1> DEFINE x == vault_amount_without_fee(i)
           y == vault_amount_without_fee(1 - i)
           newx == vault_amount_without_fee(i)'
           newy == vault_amount_without_fee(1 - i)'
           toin == result.new_input_vault_amount
           toout == result.new_output_vault_amount
<1>5. x \in Nat /\ y \in Nat /\ 1 - i \in Side /\ 1 - i # i
  BY <1>3, LivePool, Balances DEF IInv
<1>6. toin \in Nat /\ toout \in Nat /\ toin * toout >= x * y
  BY <1>1, <1>5 DEF SettlesSoundly, sound_result
<1>7. newx \in Nat /\ newy \in Nat
  BY <1>4, <1>5, ReserveRange, Provided
<1>8. newx >= toin /\ newy >= toout
  BY <1>2, <1>6
<1> HIDE DEF x, y, newx, newy, toin, toout
<1>9. newx * newy >= x * y
  <2>1. newx * newy >= toin * toout
    BY <1>6, <1>7, <1>8, ProductGrows
  <2>2. newx * newy \in Int /\ toin * toout \in Int /\ x * y \in Int
    BY <1>5, <1>6, <1>7
  <2>3. QED
    BY <1>6, <2>1, <2>2
<1>10. provided'[0] * provided'[1] >= provided[0] * provided[1]
  <2>1. /\ provided[i] = x /\ provided[1 - i] = y
        /\ provided'[i] = newx /\ provided'[1 - i] = newy
    BY <1>5, Provided DEF x, y, newx, newy
  <2>2. newy * newx = newx * newy /\ y * x = x * y
    BY <1>5, <1>7
  <2>3. CASE i = 0
    <3>1. 1 - i = 1
      BY <2>3
    <3>2. QED
      BY <1>9, <2>1, <2>3, <3>1, Zenon
  <2>4. CASE i = 1
    <3>1. 1 - i = 0
      BY <2>4
    <3>2. QED
      BY <1>9, <2>1, <2>2, <2>4, <3>1, Zenon
  <2>5. QED
    BY <2>3, <2>4 DEF Side
<1>11. QED
  BY <1>3, <1>4, <1>10, ProductTrades

\* A donation trades for nothing.
LEMMA DonateTrades ==
    ASSUME IInv, IInv', NEW i \in Side, NEW amount \in U64, Donate(i, amount)
    PROVE  Shares!Trade
<1>1. pool_state.initialized /\ UNCHANGED <<pool_state, lp_mint_supply>>
  BY DEF Donate
<1>2. \A k \in Side : /\ provided[k] \in Nat /\ provided'[k] \in Nat
                      /\ provided'[k] >= provided[k]
  <2> TAKE k \in Side
  <2>1. vault_amount_without_fee(k)' >= vault_amount_without_fee(k)
    BY DonateKeeps
  <2>2. vault_amount_without_fee(k) \in Nat
    BY <1>1, LivePool
  <2>3. provided'[k] \in Nat
    BY <1>1, ReserveRange
  <2>4. QED
    BY <2>1, <2>2, <2>3, Provided
<1>3. provided'[0] * provided'[1] >= provided[0] * provided[1]
  <2>1. 0 \in Side /\ 1 \in Side
    BY DEF Side
  <2>2. QED
    BY <1>2, <2>1, ProductGrows, Zenon
<1>4. QED
  BY <1>1, <1>3, ProductTrades

\* The creation of a pool founds the shares: all but the locked part of the
\* root of the product of what the vaults received.
LEMMA CreatePoolFounds ==
    ASSUME IInv, IInv', NoPoolYet, NEW amount \in [Side -> U64], NEW open_time,
           NEW fee \in AnyFees, NEW on \in CreatorFeeOn, NEW enable \in BOOLEAN,
           CreatePool(amount, open_time, fee, on, enable)
    PROVE  Shares!Found
<1> DEFINE received == [i \in Side |-> amount[i] - calculate_fee(fee[i], amount[i])]
           time == IF open_time <= unix_timestamp THEN unix_timestamp + 1 ELSE open_time
<1>1. PICK liquidity \in U64 :
        /\ is_integer_sqrt(liquidity, received[0] * received[1])
        /\ liquidity >= LOCK_LP_AMOUNT
        /\ lp_mint_supply' = liquidity - LOCK_LP_AMOUNT
        /\ pool_state' = [NoPool EXCEPT
               !.initialized = TRUE, !.lp_supply = liquidity, !.open_time = time,
               !.creator_fee_on = on, !.enable_creator_fee = enable]
  BY DEF CreatePool, first_lp_minted
<1>2. ~pool_state.initialized /\ vault' = received
  BY DEF CreatePool
<1> HIDE DEF received, time
<1>3. pool_state.lp_supply = 0
  BY <1>2 DEF NoPoolYet, NoPool
<1>4. /\ pool_state'.initialized /\ pool_state'.lp_supply = liquidity
      /\ pool_state'.protocol_fees = NoFees /\ pool_state'.fund_fees = NoFees
      /\ pool_state'.creator_fees = NoFees
  BY <1>1 DEF NoPool
<1>5. \A k \in Side : provided'[k] = vault'[k]
  <2> TAKE k \in Side
  <2>1. owed_fees(k)' = 0
    BY <1>4 DEF owed_fees, NoFees
  <2>2. vault'[k] \in Nat
    BY PoolAssumption DEF IInv, TypeOK, U64
  <2>3. QED
    BY <2>1, <2>2, Provided DEF vault_amount_without_fee
<1>6. provided' \in [Side -> 1 .. U64_MAX]
  BY <1>4, ReserveRange
<1>7. /\ liquidity * liquidity <= provided'[0] * provided'[1]
      /\ provided'[0] * provided'[1] < (liquidity + 1) * (liquidity + 1)
  <2>1. provided'[0] = received[0] /\ provided'[1] = received[1]
    BY <1>2, <1>5 DEF Side
  <2>2. QED
    BY <1>1, <2>1, Zenon DEF is_integer_sqrt
<1>8. liquidity \in LOCK_LP_AMOUNT .. U64_MAX
  BY <1>1, PoolAssumption DEF U64
<1>9. QED
  BY <1>1, <1>3, <1>4, <1>6, <1>7, <1>8, Zenon
     DEF Shares!Found, Shares!product, Shares!Tokens, Side, provided

\* Fee collections, the status and the steps on config and clock are not
\* visible to the liquidity providers.
LEMMA Invisible ==
    ASSUME \A k \in Side : vault_amount_without_fee(k)' = vault_amount_without_fee(k),
           pool_state'.lp_supply = pool_state.lp_supply,
           lp_mint_supply' = lp_mint_supply
    PROVE  UNCHANGED Shares!vars
<1>1. provided' = provided
  BY DEF provided
<1>2. QED
  BY <1>1, Zenon DEF Shares!vars, provided

\* The owners' partial collections.
LEMMA CollectionInvisible ==
    ASSUME IInv, NEW owner, NEW requested \in [Side -> U64],
           CollectProtocolFee(owner, requested) \/ CollectFundFee(owner, requested)
    PROVE  UNCHANGED Shares!vars
<1>1. \A k \in Side : vault_amount_without_fee(k)' = vault_amount_without_fee(k)
  BY CollectProtocolFeeKeeps, CollectFundFeeKeeps
<1>2. lp_mint_supply' = lp_mint_supply /\ pool_state'.lp_supply = pool_state.lp_supply
  BY PoolFields DEF CollectProtocolFee, CollectFundFee, IInv, PoolStates
<1>3. QED
  BY <1>1, <1>2, Invisible

\* The status byte, the config, the clock, and nothing at all.
LEMMA OthersInvisible ==
    ASSUME IInv,
           \/ \E status \in SUBSET PoolStatusBitIndex : UpdatePoolStatus(status)
           \/ \E c \in ConfigParams, mint \in ConfigMints : AnyConfig(c, mint)
           \/ \E u \in ConfigUpdates, account \in Accounts : UpdateConfig(u, account)
           \/ ClockMoves
           \/ UNCHANGED vars
    PROVE  UNCHANGED Shares!vars
<1>1. /\ vault' = vault /\ lp_mint_supply' = lp_mint_supply
      /\ pool_state'.protocol_fees = pool_state.protocol_fees
      /\ pool_state'.fund_fees = pool_state.fund_fees
      /\ pool_state'.creator_fees = pool_state.creator_fees
      /\ pool_state'.lp_supply = pool_state.lp_supply
  <2>1. CASE \E status \in SUBSET PoolStatusBitIndex : UpdatePoolStatus(status)
    BY <2>1, PoolFields DEF UpdatePoolStatus, IInv, PoolStates
  <2>2. CASE ~ \E status \in SUBSET PoolStatusBitIndex : UpdatePoolStatus(status)
    <3>1. UNCHANGED <<pool_state, vault, lp_mint_supply>>
      BY <2>2, Zenon DEF AnyConfig, UpdateConfig, ClockMoves, vars
    <3>2. QED
      BY <3>1
  <2>3. QED
    BY <2>1, <2>2
<1>2. \A k \in Side : vault_amount_without_fee(k)' = vault_amount_without_fee(k)
  BY <1>1 DEF vault_amount_without_fee, owed_fees
<1>3. QED
  BY <1>1, <1>2, Invisible

-----------------------------------------------------------------------------
(* The account without a pool. *)

\* At first there is none.
LEMMA InitNoPool == Init => NoPoolYet
  BY DEF Init, NoPoolYet

\* A step that leaves the pool, its vaults and its LP mint alone.
LEMMA SameKeepsNoPool ==
    ASSUME NoPoolYet, UNCHANGED <<pool_state, vault, lp_mint_supply>>
    PROVE  NoPoolYet'
  BY DEF NoPoolYet

\* A pool once created stays.
LEMMA LiveKeepsNoPool ==
    ASSUME pool_state'.initialized
    PROVE  NoPoolYet'
  BY DEF NoPoolYet

\* An account without a pool stays empty: before the creation nothing moves
\* its fields, its vaults or its LP mint.
LEMMA StepKeepsNoPool == IInv /\ NoPoolYet /\ [AnyNext]_vars => NoPoolYet'
<1> SUFFICES ASSUME IInv, NoPoolYet, [AnyNext]_vars PROVE NoPoolYet'
  OBVIOUS
<1>0. pool_state \in PoolStates
  BY DEF IInv, TypeOK
<1>1. ASSUME NEW amount \in [Side -> U64], NEW open_time \in Nat, NEW fee \in AnyFees,
             \/ Initialize(amount, open_time, fee)
             \/ \E on \in CreatorFeeOn : InitializeWithPermission(amount, open_time, fee, on)
      PROVE  NoPoolYet'
  <2>1. pool_state'.initialized
    BY <1>1 DEF Initialize, InitializeWithPermission, CreatePool, NoPool
  <2>2. QED
    BY <2>1, LiveKeepsNoPool
<1>2. ASSUME NEW lp \in U64, NEW limit, NEW fee \in AnyFees,
             Deposit(lp, limit, fee) \/ Withdraw(lp, limit, fee)
      PROVE  NoPoolYet'
  <2>1. pool_state'.initialized
    BY <1>0, <1>2 DEF Deposit, Withdraw, deposit_accepted, withdraw_accepted, PoolStates
  <2>2. QED
    BY <2>1, LiveKeepsNoPool
<1>3. ASSUME NEW i \in Side, NEW amount \in U64, NEW limit, NEW fee \in AnyFees,
             SwapBaseInput(i, amount, limit, fee) \/ SwapBaseOutput(i, limit, amount, fee)
      PROVE  NoPoolYet'
  <2>1. PICK result, arrived : SettlesSoundly(i, result, arrived)
    BY <1>3, SwapBaseInputSettles, SwapBaseOutputSettles
  <2>2. pool_state.initialized /\ update_fees(result, i)
    BY <2>1 DEF SettlesSoundly, swap_approved, SettleSwap
  <2>3. pool_state'.initialized
    BY <1>0, <2>2 DEF update_fees, PoolStates
  <2>4. QED
    BY <2>3, LiveKeepsNoPool
<1>4. ASSUME NEW owner, NEW requested,
             \/ CollectCreatorFee
             \/ CollectProtocolFee(owner, requested)
             \/ CollectFundFee(owner, requested)
      PROVE  NoPoolYet'
  <2>1. pool_state'.initialized
    BY <1>0, <1>4 DEF CollectCreatorFee, CollectProtocolFee, CollectFundFee, PoolStates
  <2>2. QED
    BY <2>1, LiveKeepsNoPool
<1>5. ASSUME NEW status \in SUBSET PoolStatusBitIndex, UpdatePoolStatus(status) PROVE NoPoolYet'
  <2>1. pool_state'.initialized
    BY <1>0, <1>5 DEF UpdatePoolStatus, PoolStates
  <2>2. QED
    BY <2>1, LiveKeepsNoPool
<1>6. ASSUME NEW i \in Side, NEW amount \in U64, Donate(i, amount) PROVE NoPoolYet'
  BY <1>6, LiveKeepsNoPool DEF Donate
<1>7. ASSUME NEW amount \in U64, BurnLp(amount) PROVE NoPoolYet'
  <2>1. /\ amount \in Nat /\ amount <= lp_mint_supply
        /\ lp_mint_supply' = lp_mint_supply - amount
        /\ UNCHANGED <<pool_state, vault>>
    BY <1>7, PoolAssumption DEF BurnLp, U64
  <2>2. CASE pool_state.initialized
    BY <2>1, <2>2, LiveKeepsNoPool
  <2>3. CASE ~pool_state.initialized
    <3>1. lp_mint_supply = 0
      BY <2>3 DEF NoPoolYet
    <3>2. lp_mint_supply' = lp_mint_supply
      BY <2>1, <3>1
    <3>3. QED
      BY <2>1, <3>2, SameKeepsNoPool
  <2>4. QED
    BY <2>2, <2>3
<1>8. ASSUME NEW c \in ConfigParams, NEW mint \in ConfigMints, AnyConfig(c, mint) PROVE NoPoolYet'
  BY <1>8, SameKeepsNoPool DEF AnyConfig
<1>9. ASSUME NEW u \in ConfigUpdates, NEW account \in Accounts, UpdateConfig(u, account)
      PROVE  NoPoolYet'
  BY <1>9, SameKeepsNoPool DEF UpdateConfig
<1>10. CASE ClockMoves \/ UNCHANGED vars
  BY <1>10, SameKeepsNoPool DEF ClockMoves, vars
<1>11. QED
  BY <1>1, <1>2, <1>3, <1>4, <1>5, <1>6, <1>7, <1>8, <1>9, <1>10 DEF AnyNext

-----------------------------------------------------------------------------

\* No pool is an empty abstract pool.
LEMMA InitRefines == Init => Shares!Init
<1> SUFFICES ASSUME Init PROVE Shares!Init
  OBVIOUS
<1>1. /\ pool_state.lp_supply = 0 /\ lp_mint_supply = 0
      /\ \A k \in Side : owed_fees(k) = 0 /\ vault[k] = 0
  BY DEF Init, NoPool, NoFees, owed_fees
<1>2. \A k \in Side : provided[k] = 0
  BY <1>1, Provided DEF vault_amount_without_fee
<1>3. provided = [k \in Side |-> 0]
  BY <1>2 DEF provided
<1>4. QED
  BY <1>1, <1>3, Zenon DEF Shares!Init, Shares!Tokens, Side, provided

\* Every step of the pool is a step of the abstract pool or invisible.
LEMMA StepRefines ==
    IInv /\ IInv' /\ NoPoolYet /\ [AnyNext]_vars => [Shares!Next]_(Shares!vars)
<1> SUFFICES ASSUME IInv, IInv', NoPoolYet, [AnyNext]_vars
             PROVE  Shares!Next \/ UNCHANGED Shares!vars
  BY Zenon
<1> USE DEF Shares!Next
<1>1. ASSUME NEW amount \in [Side -> U64], NEW open_time \in Nat, NEW fee \in AnyFees,
             \/ Initialize(amount, open_time, fee)
             \/ \E on \in CreatorFeeOn : InitializeWithPermission(amount, open_time, fee, on)
      PROVE  Shares!Next
  BY <1>1, CreatePoolFounds DEF Initialize, InitializeWithPermission, CreatorFeeOn
<1>2. ASSUME NEW lp \in U64, NEW limit, NEW fee \in AnyFees,
             Deposit(lp, limit, fee) \/ Withdraw(lp, limit, fee)
      PROVE  Shares!Next
  BY <1>2, DepositJoins, WithdrawLeaves
<1>3. ASSUME NEW i \in Side, NEW amount \in U64, NEW limit, NEW fee \in AnyFees,
             SwapBaseInput(i, amount, limit, fee) \/ SwapBaseOutput(i, limit, amount, fee)
      PROVE  Shares!Next
  BY <1>3, SwapTrades
<1>4. CASE CollectCreatorFee
  BY <1>4, CollectCreatorFeeKeeps, Invisible, PoolFields DEF CollectCreatorFee, IInv, PoolStates
<1>5. ASSUME NEW owner \in Accounts, NEW requested \in [Side -> U64],
             CollectProtocolFee(owner, requested) \/ CollectFundFee(owner, requested)
      PROVE  UNCHANGED Shares!vars
  BY <1>5, CollectionInvisible
<1>6. ASSUME NEW i \in Side, NEW amount \in U64, Donate(i, amount) PROVE Shares!Next
  BY <1>6, DonateTrades
<1>7. ASSUME NEW amount \in U64, BurnLp(amount) PROVE Shares!Next
  BY <1>7, BurnLpForfeits
<1>8. CASE \/ \E status \in SUBSET PoolStatusBitIndex : UpdatePoolStatus(status)
           \/ \E c \in ConfigParams, mint \in ConfigMints : AnyConfig(c, mint)
           \/ \E u \in ConfigUpdates, account \in Accounts : UpdateConfig(u, account)
           \/ ClockMoves
           \/ UNCHANGED vars
  BY <1>8, OthersInvisible
<1>9. QED
  BY <1>1, <1>2, <1>3, <1>4, <1>5, <1>6, <1>7, <1>8, Zenon DEF AnyNext

\* So every behaviour is one of the abstract pool.
LEMMA AnyImplementsShares == AnySpec => ImplementsShares
<1>1. AnySpec => []IInv
  BY AnyInvariant
<1>2. Init /\ [][AnyNext]_vars /\ []IInv => []NoPoolYet
  BY InitNoPool, StepKeepsNoPool, PTL
<1>3. QED
  BY <1>1, <1>2, InitRefines, StepRefines, PTL DEF AnySpec, ImplementsShares, Shares!Spec

\* The pool implements the abstract pool: no step, at any rates, limits,
\* transfer fees and amounts, takes value from the liquidity providers
\* (deposit.rs, withdraw.rs, swap_base_input.rs:180, swap_base_output.rs:125).
THEOREM PoolImplementsShares == Spec => ImplementsShares
  BY AnyImplementsShares, SpecIsAny, PTL

\* The theorems about the abstract pool, told of this one.
Proved == INSTANCE LiquiditySharesProofs WITH
    MAX_AMOUNT <- U64_MAX,
    LOCKED     <- LOCK_LP_AMOUNT,
    reserve    <- [i \in Side |-> vault_amount_without_fee(i)],
    shares     <- pool_state.lp_supply,
    redeemable <- lp_mint_supply

\* The abstract pool's theorem, carried over the refinement.
LEMMA AnyShareValueNeverFalls == AnySpec => Shares!ShareValueNeverFalls
<1>1. Proved!Spec => Proved!ShareValueNeverFalls
  BY Proved!ShareValueKept, PoolAssumption
<1>2. Shares!Init <=> Proved!Init
  BY Zenon DEF Shares!Init, Proved!Init, Shares!Tokens, Proved!Tokens
<1>3. Shares!Next <=> Proved!Next
  <2>1. Shares!Found <=> Proved!Found
    BY Zenon DEF Shares!Found, Proved!Found, Shares!product, Proved!product,
                 Shares!Tokens, Proved!Tokens
  <2>2. Shares!Rescale <=> Proved!Rescale
    BY Zenon DEF Shares!Rescale, Proved!Rescale, Shares!Tokens, Proved!Tokens
  <2>3. Shares!Trade <=> Proved!Trade
    BY Zenon DEF Shares!Trade, Proved!Trade, Shares!product, Proved!product,
                 Shares!Tokens, Proved!Tokens
  <2>4. Shares!Forfeit <=> Proved!Forfeit
    BY Zenon DEF Shares!Forfeit, Proved!Forfeit
  <2>5. QED
    BY <2>1, <2>2, <2>3, <2>4, Zenon
       DEF Shares!Next, Proved!Next, Shares!Join, Proved!Join, Shares!Leave, Proved!Leave
<1>4. UNCHANGED Shares!vars <=> UNCHANGED Proved!vars
  BY Zenon DEF Shares!vars, Proved!vars
<1>5. QED
  BY <1>1, <1>2, <1>3, <1>4, AnyImplementsShares, PTL
     DEF ImplementsShares, Shares!Spec, Proved!Spec, Shares!ShareValueNeverFalls,
         Proved!ShareValueNeverFalls, Shares!product, Proved!product

\* So the product of the pool's reserves over the square of lp_supply never
\* falls once there is a pool, whatever instructions follow each other.
THEOREM PoolShareValueNeverFalls == Spec => Shares!ShareValueNeverFalls
  BY AnyShareValueNeverFalls, SpecIsAny, PTL

-----------------------------------------------------------------------------
(***************************************************************************)
(* What Pool.tla says of the order of its steps: nobody trades before the  *)
(* pool opens, and a fee counter falls only when its owner is paid.        *)
(*                                                                         *)
(* TradesStartAtOpenTime is inductive beside the type: the only step that  *)
(* marks the oracle or raises a fee counter is a swap, which reads the     *)
(* clock against open_time, and open_time is written once.                 *)
(***************************************************************************)

\* The counters of the fees owed, of which an instruction changes at most one
\* downwards.
CountersKept ==
    \A k \in Side : /\ pool_state'.protocol_fees[k] >= pool_state.protocol_fees[k]
                    /\ pool_state'.fund_fees[k] >= pool_state.fund_fees[k]
                    /\ pool_state'.creator_fees[k] >= pool_state.creator_fees[k]

\* A step that pays fees and nothing else.
FeesPaid ==
    /\ \A k \in Side : vault_amount_without_fee(k)' = vault_amount_without_fee(k)
    /\ pool_state.lp_supply' = pool_state.lp_supply
    /\ lp_mint_supply' = lp_mint_supply

\* A step that is neither the creation of the pool nor a swap: no fee is
\* charged and the oracle is not marked.
NoTrade ==
    /\ \A k \in Side : owed_fees(k)' <= owed_fees(k)
    /\ pool_state'.initialized = pool_state.initialized
    /\ pool_state'.open_time = pool_state.open_time
    /\ UNCHANGED observation_state

-----------------------------------------------------------------------------
(* The instructions, one by one. *)

\* The creation of a pool starts every counter at zero, where it was.
LEMMA CreatePoolStarts ==
    ASSUME IInv, NoPoolYet, TradesStartAtOpenTime,
           NEW amount, NEW open_time, NEW fee, NEW on, NEW enable,
           CreatePool(amount, open_time, fee, on, enable)
    PROVE  CountersKept /\ TradesStartAtOpenTime'
<1>1. ~pool_state.initialized /\ pool_state = NoPool /\ UNCHANGED observation_state
  BY DEF CreatePool, NoPoolYet
<1>2. /\ pool_state'.protocol_fees = NoFees
      /\ pool_state'.fund_fees = NoFees
      /\ pool_state'.creator_fees = NoFees
  BY DEF CreatePool, NoPool
<1>3. /\ pool_state.protocol_fees = NoFees
      /\ pool_state.fund_fees = NoFees
      /\ pool_state.creator_fees = NoFees
  BY <1>1 DEF NoPool
<1>4. \A k \in Side : NoFees[k] = 0
  BY DEF NoFees
<1>5. ~observation_state'.initialized
  BY <1>1 DEF TradesStartAtOpenTime
<1>6. \A k \in Side : owed_fees(k)' = 0
  BY <1>2, <1>4 DEF owed_fees
<1>7. QED
  BY <1>2, <1>3, <1>4, <1>5, <1>6 DEF CountersKept, TradesStartAtOpenTime

\* A swap only raises counters.
LEMMA SwapRaisesCounters ==
    ASSUME TypeOK, NEW i \in Side, NEW result, NEW arrived, SettlesSoundly(i, result, arrived)
    PROVE  CountersKept
<1> DEFINE side == IF is_creator_fee_on_input(i) THEN i ELSE 1 - i
<1>1. /\ update_fees(result, i)
      /\ result.protocol_fee \in Nat /\ result.fund_fee \in Nat /\ result.creator_fee \in Nat
  BY DEF SettlesSoundly, SettleSwap, sound_result
<1>2. side \in Side
  BY DEF Side
<1>3. /\ pool_state'.protocol_fees = [pool_state.protocol_fees EXCEPT ![i] = @ + result.protocol_fee]
      /\ pool_state'.fund_fees = [pool_state.fund_fees EXCEPT ![i] = @ + result.fund_fee]
      /\ pool_state'.creator_fees = [pool_state.creator_fees EXCEPT ![side] = @ + result.creator_fee]
  BY <1>1, PoolFields DEF update_fees, PoolStates
<1> HIDE DEF side
<1>4. /\ pool_state.protocol_fees \in [Side -> Nat]
      /\ pool_state.fund_fees \in [Side -> Nat]
      /\ pool_state.creator_fees \in [Side -> Nat]
  BY PoolFields, PoolAssumption DEF U64
<1>5. QED
  BY <1>1, <1>2, <1>3, <1>4 DEF CountersKept

\* The observation the oracle ends at after a swap is not older than the one
\* before, or was made by this swap.
LEMMA ObservationAfterSwap ==
    ASSUME Oracle!TypeOK, NEW p0, NEW p1, Oracle!ObservationUpdate(p0, p1)
    PROVE  /\ observation_state'.initialized
           /\ \/ observation_state.initialized /\ UNCHANGED observation_state
              \/ Oracle!last_observation'.block_timestamp = unix_timestamp
<1>1. CASE Oracle!FirstUpdate
  <2> DEFINE mark == [Oracle!ZeroObservation EXCEPT !.block_timestamp = unix_timestamp]
             at == observation_state.observation_index
  <2>1. mark.block_timestamp = unix_timestamp
    BY DEF Oracle!ZeroObservation
  <2>2. at \in Oracle!Slots /\ DOMAIN observation_state.observations = Oracle!Slots
    BY DEF Oracle!TypeOK, Oracle!ObservationState
  <2>3. observation_state' = [observation_state EXCEPT
            !.initialized = TRUE, !.observations[at] = mark]
    BY <1>1 DEF Oracle!FirstUpdate
  <2> HIDE DEF mark
  <2>4. /\ observation_state'.initialized
        /\ observation_state'.observation_index = at
        /\ observation_state'.observations[at] = mark
    BY <2>2, <2>3 DEF Oracle!TypeOK, Oracle!ObservationState
  <2>5. QED
    BY <2>1, <2>4 DEF Oracle!last_observation
<1>2. CASE Oracle!SkipUpdate
  BY <1>2 DEF Oracle!SkipUpdate
<1>3. CASE Oracle!AppendUpdate(p0, p1)
  <2> DEFINE new == Oracle!next_observation(p0, p1)
             at == Oracle!next_observation_index
  <2>1. new.block_timestamp = unix_timestamp
    BY DEF Oracle!next_observation
  <2>2. at \in Oracle!Slots /\ DOMAIN observation_state.observations = Oracle!Slots
    BY PoolAssumption
       DEF Oracle!TypeOK, Oracle!ObservationState, Oracle!Slots, Oracle!next_observation_index
  <2>3. /\ observation_state.initialized
        /\ observation_state' = [observation_state EXCEPT
               !.observations[at] = new, !.observation_index = at]
    BY <1>3 DEF Oracle!AppendUpdate
  <2> HIDE DEF new, at
  <2>4. /\ observation_state'.initialized
        /\ observation_state'.observation_index = at
        /\ observation_state'.observations[at] = new
    BY <2>2, <2>3 DEF Oracle!TypeOK, Oracle!ObservationState
  <2>5. QED
    BY <2>1, <2>4 DEF Oracle!last_observation
<1>4. QED
  BY <1>1, <1>2, <1>3 DEF Oracle!ObservationUpdate

\* A swap is made at or after the opening time.
LEMMA SwapTradesOpen ==
    ASSUME IInv, TradesStartAtOpenTime,
           NEW i \in Side, NEW result, NEW arrived, SettlesSoundly(i, result, arrived)
    PROVE  TradesStartAtOpenTime'
<1>1. /\ pool_state.initialized /\ unix_timestamp >= pool_state.open_time
      /\ update_fees(result, i)
      /\ Oracle!ObservationUpdate(token_price_x32(0), token_price_x32(1))
  BY DEF SettlesSoundly, SettleSwap, swap_approved
<1>2. pool_state \in PoolStates /\ Oracle!TypeOK
  BY DEF IInv, TypeOK
<1>3. pool_state'.initialized /\ pool_state'.open_time = pool_state.open_time
  BY <1>1, <1>2 DEF update_fees, PoolStates
<1>4. /\ observation_state'.initialized
      /\ \/ observation_state.initialized /\ UNCHANGED observation_state
         \/ Oracle!last_observation'.block_timestamp = unix_timestamp
  BY <1>1, <1>2, ObservationAfterSwap
<1>5. Oracle!last_observation'.block_timestamp >= pool_state.open_time
  BY <1>1, <1>4 DEF TradesStartAtOpenTime, Oracle!last_observation
<1>6. QED
  BY <1>3, <1>4, <1>5 DEF TradesStartAtOpenTime

\* A step without a trade moves nothing the opening time is about.
LEMMA NoTradeKeeps ==
    ASSUME TradesStartAtOpenTime, NoTrade,
           \A k \in Side : owed_fees(k) \in Int /\ owed_fees(k)' \in Int
    PROVE  TradesStartAtOpenTime'
<1>1. ASSUME NEW k \in Side, owed_fees(k)' > 0 PROVE observation_state'.initialized
  <2>1. owed_fees(k) > 0
    BY <1>1 DEF NoTrade
  <2>2. QED
    BY <2>1 DEF NoTrade, TradesStartAtOpenTime
<1>2. ASSUME observation_state'.initialized
      PROVE  /\ pool_state'.initialized
             /\ Oracle!last_observation'.block_timestamp >= pool_state'.open_time
  BY <1>2 DEF NoTrade, TradesStartAtOpenTime, Oracle!last_observation
<1>3. QED
  BY <1>1, <1>2 DEF TradesStartAtOpenTime

\* The creator's collection pays fees and trades nothing.
LEMMA CreatorFeePaid ==
    ASSUME IInv, CollectCreatorFee
    PROVE  FeesPaid /\ NoTrade
<1>1. TypeOK /\ pool_state' = [pool_state EXCEPT !.creator_fees = NoFees]
      /\ UNCHANGED <<lp_mint_supply, observation_state>>
  BY DEF IInv, CollectCreatorFee
<1>2. /\ pool_state'.lp_supply = pool_state.lp_supply
      /\ pool_state'.initialized = pool_state.initialized
      /\ pool_state'.open_time = pool_state.open_time
      /\ pool_state'.protocol_fees = pool_state.protocol_fees
      /\ pool_state'.fund_fees = pool_state.fund_fees
      /\ pool_state'.creator_fees = NoFees
  BY <1>1, PoolFields DEF PoolStates
<1>3. \A k \in Side : owed_fees(k)' <= owed_fees(k)
  BY <1>1, <1>2, Balances DEF owed_fees, NoFees
<1>4. QED
  BY <1>1, <1>2, <1>3, CollectCreatorFeeKeeps DEF FeesPaid, NoTrade

\* So does the protocol owner's.
LEMMA ProtocolFeePaid ==
    ASSUME IInv, NEW owner, NEW requested \in [Side -> U64],
           CollectProtocolFee(owner, requested)
    PROVE  FeesPaid /\ NoTrade
<1> DEFINE rest == [k \in Side |-> pool_state.protocol_fees[k]
                                       - lesser(requested[k], pool_state.protocol_fees[k])]
<1>1. TypeOK /\ pool_state' = [pool_state EXCEPT !.protocol_fees = rest]
      /\ UNCHANGED <<lp_mint_supply, observation_state>>
  BY DEF IInv, CollectProtocolFee
<1>2. \A k \in Side : rest[k] \in Nat /\ rest[k] <= pool_state.protocol_fees[k]
  <2> TAKE k \in Side
  <2>1. requested[k] \in U64 /\ pool_state.protocol_fees[k] \in Nat
    BY <1>1, Balances
  <2>2. QED
    BY <2>1, PartialCollection
<1> HIDE DEF rest
<1>3. /\ pool_state'.lp_supply = pool_state.lp_supply
      /\ pool_state'.initialized = pool_state.initialized
      /\ pool_state'.open_time = pool_state.open_time
      /\ pool_state'.protocol_fees = rest
      /\ pool_state'.fund_fees = pool_state.fund_fees
      /\ pool_state'.creator_fees = pool_state.creator_fees
  BY <1>1, PoolFields DEF PoolStates
<1>4. \A k \in Side : owed_fees(k)' <= owed_fees(k)
  BY <1>1, <1>2, <1>3, Balances DEF owed_fees
<1>5. QED
  BY <1>1, <1>3, <1>4, CollectProtocolFeeKeeps DEF FeesPaid, NoTrade

\* And the fund owner's.
LEMMA FundFeePaid ==
    ASSUME IInv, NEW owner, NEW requested \in [Side -> U64],
           CollectFundFee(owner, requested)
    PROVE  FeesPaid /\ NoTrade
<1> DEFINE rest == [k \in Side |-> pool_state.fund_fees[k]
                                       - lesser(requested[k], pool_state.fund_fees[k])]
<1>1. TypeOK /\ pool_state' = [pool_state EXCEPT !.fund_fees = rest]
      /\ UNCHANGED <<lp_mint_supply, observation_state>>
  BY DEF IInv, CollectFundFee
<1>2. \A k \in Side : rest[k] \in Nat /\ rest[k] <= pool_state.fund_fees[k]
  <2> TAKE k \in Side
  <2>1. requested[k] \in U64 /\ pool_state.fund_fees[k] \in Nat
    BY <1>1, Balances
  <2>2. QED
    BY <2>1, PartialCollection
<1> HIDE DEF rest
<1>3. /\ pool_state'.lp_supply = pool_state.lp_supply
      /\ pool_state'.initialized = pool_state.initialized
      /\ pool_state'.open_time = pool_state.open_time
      /\ pool_state'.protocol_fees = pool_state.protocol_fees
      /\ pool_state'.fund_fees = rest
      /\ pool_state'.creator_fees = pool_state.creator_fees
  BY <1>1, PoolFields DEF PoolStates
<1>4. \A k \in Side : owed_fees(k)' <= owed_fees(k)
  BY <1>1, <1>2, <1>3, Balances DEF owed_fees
<1>5. QED
  BY <1>1, <1>3, <1>4, CollectFundFeeKeeps DEF FeesPaid, NoTrade

\* A step that leaves the counters, the opening time and the oracle alone.
LEMMA SameCounters ==
    ASSUME TypeOK,
           pool_state'.initialized = pool_state.initialized,
           pool_state'.open_time = pool_state.open_time,
           pool_state'.protocol_fees = pool_state.protocol_fees,
           pool_state'.fund_fees = pool_state.fund_fees,
           pool_state'.creator_fees = pool_state.creator_fees,
           UNCHANGED observation_state
    PROVE  CountersKept /\ NoTrade
  BY Balances DEF CountersKept, NoTrade, owed_fees

\* Every other step is of that kind.
LEMMA OthersKeepCounters ==
    ASSUME TypeOK,
           \/ \E lp, limit, fee : Deposit(lp, limit, fee) \/ Withdraw(lp, limit, fee)
           \/ \E status : UpdatePoolStatus(status)
           \/ \E c, mint : AnyConfig(c, mint)
           \/ \E u, account : UpdateConfig(u, account)
           \/ \E i, amount : Donate(i, amount)
           \/ \E amount : BurnLp(amount)
           \/ ClockMoves
           \/ UNCHANGED vars
    PROVE  CountersKept /\ NoTrade
<1>0. pool_state \in PoolStates
  BY DEF TypeOK
<1>1. ASSUME NEW lp, NEW limit, NEW fee, Deposit(lp, limit, fee) \/ Withdraw(lp, limit, fee)
      PROVE  CountersKept /\ NoTrade
  <2>1. /\ \/ pool_state' = [pool_state EXCEPT !.lp_supply = @ + lp]
           \/ pool_state' = [pool_state EXCEPT !.lp_supply = @ - lp]
        /\ UNCHANGED observation_state
    BY <1>1 DEF Deposit, Withdraw, deposit_accepted, withdraw_accepted
  <2>2. QED
    BY <1>0, <2>1, SameCounters DEF PoolStates
<1>2. ASSUME NEW status, UpdatePoolStatus(status) PROVE CountersKept /\ NoTrade
  <2>1. pool_state' = [pool_state EXCEPT !.status = status] /\ UNCHANGED observation_state
    BY <1>2 DEF UpdatePoolStatus
  <2>2. QED
    BY <1>0, <2>1, SameCounters DEF PoolStates
<1>3. CASE UNCHANGED <<pool_state, observation_state>>
  BY <1>3, SameCounters
<1>4. ASSUME \/ \E c, mint : AnyConfig(c, mint)
             \/ \E u, account : UpdateConfig(u, account)
             \/ \E i, amount : Donate(i, amount)
             \/ \E amount : BurnLp(amount)
             \/ ClockMoves
             \/ UNCHANGED vars
      PROVE  UNCHANGED <<pool_state, observation_state>>
  BY <1>4 DEF AnyConfig, UpdateConfig, Donate, BurnLp, ClockMoves, Oracle!ClockMoves, vars
<1>5. QED
  BY <1>1, <1>2, <1>3, <1>4

-----------------------------------------------------------------------------

\* Every step raises the fee counters or pays what it lowers them by, and
\* keeps the opening time.
LEMMA StepHistory ==
    ASSUME IInv, NoPoolYet, TradesStartAtOpenTime, IInv', [AnyNext]_vars
    PROVE  /\ CountersKept \/ FeesPaid
           /\ TradesStartAtOpenTime'
<1>1. \A k \in Side : owed_fees(k) \in Int /\ owed_fees(k)' \in Int
  <2>1. TypeOK
    BY DEF IInv
  <2>2. \A k \in Side : owed_fees(k) \in Int
    BY <2>1, Balances
  <2>3. ASSUME NEW k \in Side PROVE owed_fees(k)' \in Int
    <3>1. pool_state' \in PoolStates
      BY DEF IInv, TypeOK
    <3>2. /\ pool_state'.protocol_fees[k] \in Int
          /\ pool_state'.fund_fees[k] \in Int
          /\ pool_state'.creator_fees[k] \in Int
      BY <3>1, PoolAssumption DEF PoolStates, U64
    <3>3. QED
      BY <3>2 DEF owed_fees
  <2>4. QED
    BY <2>2, <2>3
<1>2. ASSUME NEW amount \in [Side -> U64], NEW open_time \in Nat, NEW fee \in AnyFees,
             \/ Initialize(amount, open_time, fee)
             \/ \E on \in CreatorFeeOn : InitializeWithPermission(amount, open_time, fee, on)
      PROVE  CountersKept /\ TradesStartAtOpenTime'
  BY <1>2, CreatePoolStarts DEF Initialize, InitializeWithPermission
<1>3. ASSUME NEW i \in Side, NEW amount \in U64, NEW limit, NEW fee \in AnyFees,
             SwapBaseInput(i, amount, limit, fee) \/ SwapBaseOutput(i, limit, amount, fee)
      PROVE  CountersKept /\ TradesStartAtOpenTime'
  <2>1. PICK result, arrived : SettlesSoundly(i, result, arrived)
    BY <1>3, SwapBaseInputSettles, SwapBaseOutputSettles
  <2>2. QED
    BY <2>1, SwapRaisesCounters, SwapTradesOpen DEF IInv
<1>4. CASE CollectCreatorFee
  BY <1>1, <1>4, CreatorFeePaid, NoTradeKeeps
<1>5. ASSUME NEW owner \in Accounts, NEW requested \in [Side -> U64],
             CollectProtocolFee(owner, requested) \/ CollectFundFee(owner, requested)
      PROVE  FeesPaid /\ TradesStartAtOpenTime'
  BY <1>1, <1>5, ProtocolFeePaid, FundFeePaid, NoTradeKeeps
<1>6. ASSUME \/ \E lp, limit, fee : Deposit(lp, limit, fee) \/ Withdraw(lp, limit, fee)
             \/ \E status : UpdatePoolStatus(status)
             \/ \E c, mint : AnyConfig(c, mint)
             \/ \E u, account : UpdateConfig(u, account)
             \/ \E i, amount : Donate(i, amount)
             \/ \E amount : BurnLp(amount)
             \/ ClockMoves
             \/ UNCHANGED vars
      PROVE  CountersKept /\ TradesStartAtOpenTime'
  BY <1>1, <1>6, OthersKeepCounters, NoTradeKeeps DEF IInv
<1>7. QED
  BY <1>2, <1>3, <1>4, <1>5, <1>6 DEF AnyNext

\* Before the pool is created the oracle is unmarked and nothing is owed.
LEMMA InitHistory == Init => TradesStartAtOpenTime
  BY DEF Init, NoPool, NoFees, owed_fees, TradesStartAtOpenTime, Oracle!Init,
         Oracle!EmptyObservations

\* The invariant the history rests on.
LEMMA HistoryInvariant == AnySpec => [](IInv /\ NoPoolYet /\ TradesStartAtOpenTime)
<1> DEFINE H == IInv /\ NoPoolYet /\ TradesStartAtOpenTime
<1>1. Init => H
  BY InitEstablishes, InitNoPool, InitHistory
<1>2. H /\ [AnyNext]_vars => H'
  BY StepKeeps, StepKeepsNoPool, StepHistory
<1>3. QED
  BY <1>1, <1>2, PTL DEF AnySpec

\* Nobody trades before the pool opens, whatever the clock does between the
\* creation and the first swap (initialize.rs:179, swap_base_input.rs:80).
THEOREM TradesStart == Spec => []TradesStartAtOpenTime
  BY HistoryInvariant, SpecIsAny, PTL

\* What a step that lowers a fee counter does, from the history.
LEMMA AnyCollectionPays == AnySpec => CollectionPaysOnlyFees
<1> DEFINE Falls == \E i \in Side : \/ pool_state'.protocol_fees[i] < pool_state.protocol_fees[i]
                                    \/ pool_state'.fund_fees[i] < pool_state.fund_fees[i]
                                    \/ pool_state'.creator_fees[i] < pool_state.creator_fees[i]
           Pays == /\ \A i \in Side : vault_amount_without_fee(i)' = vault_amount_without_fee(i)
                   /\ pool_state.lp_supply' = pool_state.lp_supply
                   /\ lp_mint_supply' = lp_mint_supply
<1>1. IInv /\ NoPoolYet /\ TradesStartAtOpenTime /\ [AnyNext]_vars => (Falls => Pays)
  <2> SUFFICES ASSUME IInv, NoPoolYet, TradesStartAtOpenTime, [AnyNext]_vars
               PROVE  Falls => Pays
    OBVIOUS
  <2>1. IInv'
    BY StepKeeps
  <2>2. CountersKept \/ FeesPaid
    BY <2>1, StepHistory
  <2>3. pool_state \in PoolStates /\ pool_state' \in PoolStates
    BY <2>1 DEF IInv, TypeOK
  <2>4. \A i \in Side :
            /\ pool_state.protocol_fees[i] \in Int /\ pool_state'.protocol_fees[i] \in Int
            /\ pool_state.fund_fees[i] \in Int /\ pool_state'.fund_fees[i] \in Int
            /\ pool_state.creator_fees[i] \in Int /\ pool_state'.creator_fees[i] \in Int
    BY <2>3, PoolAssumption DEF PoolStates, U64
  <2>5. QED
    BY <2>2, <2>4 DEF CountersKept, FeesPaid
<1>2. AnySpec => [][Falls => Pays]_vars
  <2> HIDE DEF Falls, Pays
  <2>1. QED
    BY <1>1, HistoryInvariant, PTL DEF AnySpec
<1>3. QED
  BY <1>2, PTL DEF CollectionPaysOnlyFees

\* A fee counter falls only in a collection, which pays out of the vault
\* exactly what the counters give up (collect_protocol_fee.rs:85,
\* collect_fund_fee.rs:83, collect_creator_fee.rs:100).
THEOREM CollectionPays == Spec => CollectionPaysOnlyFees
  BY AnyCollectionPays, SpecIsAny, PTL

-----------------------------------------------------------------------------
(***************************************************************************)
(* The pool under swap_with_k_token (KTokenSwap.tla).                      *)
(*                                                                         *)
(* The instruction leaves out the check of the product of the reserves     *)
(* that the two plain swaps make.  The check would pass: to the pool, its  *)
(* vaults and its providers the instruction is a swap by input, whoever    *)
(* is charged K tokens, so the invariants of the pool and the abstract     *)
(* pool carry over.  That is proved for any K token accounts and any vault *)
(* named in the pool; from the state the program starts in, the default    *)
(* key in the pool, the instruction never takes place at all.              *)
(***************************************************************************)

\* The instructions on a pool that names any K token vault.
AnyKSpec == Init /\ [][KNext]_<<vars, k_vars>>

\* The product of the reserves is kept by the curve (calculator.rs:60), with no
\* check of it: the pool's part of the instruction is a swap by input.
LEMMA KSwapIsBaseInput ==
    ASSUME IInv, NEW i \in Side, NEW amount_in \in U64, NEW limit, NEW fee \in AnyFees,
           NEW from, NEW to, SwapWithKToken(i, amount_in, limit, fee, from, to)
    PROVE  SwapBaseInput(i, amount_in, limit, fee)
<1> DEFINE actual == actual_amount_in(i, amount_in, fee)
           result == base_input_result(i, amount_in, fee)
           arriving == amount_in - calculate_fee(fee[i], amount_in)
           received == result.output_amount - get_transfer_fee(fee[1 - i], result.output_amount)
           x == vault_amount_without_fee(i)
           y == vault_amount_without_fee(1 - i)
<1>1. /\ swap_approved /\ actual > 0 /\ result.ok
      /\ received > 0 /\ received >= limit
      /\ vault[i] + arriving <= U64_MAX
      /\ update_fees(result, i)
      /\ vault' = [vault EXCEPT ![i] = @ + arriving, ![1 - i] = @ - result.output_amount]
      /\ Oracle!ObservationUpdate(token_price_x32(0), token_price_x32(1))
      /\ UNCHANGED <<amm_config, lp_mint_supply, unix_timestamp>>
  BY DEF SwapWithKToken
<1>2. actual \in Nat
  <2>1. amount_in \in Nat
    BY PoolAssumption DEF U64
  <2>2. QED
    BY <2>1, FeeArgument, TransferFeeBounded DEF actual_amount_in, get_transfer_fee
<1>3. x \in Nat \ {0} /\ y \in Nat \ {0}
  BY <1>1, Balances DEF IInv, ReservesPositive, swap_approved
<1>4. swap_rates \in RateRecords /\ rates_within_denominator(swap_rates)
  BY SwapRates DEF IInv
<1>5. is_creator_fee_on_input(i) \in BOOLEAN
  BY DEF is_creator_fee_on_input
<1>6. result = swap_base_input(actual, x, y, swap_rates, is_creator_fee_on_input(i))
  BY DEF base_input_result
<1> HIDE DEF actual, result, x, y
<1>7. sound_result(result, x, y, is_creator_fee_on_input(i))
  BY <1>1, <1>2, <1>3, <1>4, <1>5, <1>6, SwapBaseInputSound
<1>8. result.new_input_vault_amount * result.new_output_vault_amount
          >= vault_amount_without_fee(0) * vault_amount_without_fee(1)
  <2>1. result.new_input_vault_amount * result.new_output_vault_amount >= x * y
    BY <1>7 DEF sound_result
  <2>2. x * y = vault_amount_without_fee(0) * vault_amount_without_fee(1)
    <3>1. \A a, b \in Int : a * b = b * a
      OBVIOUS
    <3>2. \/ x = vault_amount_without_fee(0) /\ y = vault_amount_without_fee(1)
          \/ x = vault_amount_without_fee(1) /\ y = vault_amount_without_fee(0)
      BY DEF x, y, Side
    <3>3. x \in Int /\ y \in Int
      BY <1>3
    <3>4. QED
      BY <3>1, <3>2, <3>3, Zenon
  <2>3. QED
    BY <2>1, <2>2, Zenon
<1>9. swap_settles(i, result, arriving)
  BY <1>1, <1>8, Zenon DEF swap_settles, update_fees
<1>10. SettleSwap(i, result, arriving)
  BY <1>1, Zenon DEF SettleSwap
<1>11. base_input_accepted(i, amount_in, limit, fee)
  BY <1>1, <1>9, Zenon DEF base_input_accepted, actual, result
<1>12. QED
  BY <1>10, <1>11, Zenon DEF SwapBaseInput, result

\* Whatever instruction is called, the pool makes one of its own steps.
LEMMA KStepIsAny ==
    ASSUME K_MINT \in FeeTokenMints, IInv, [KNext]_<<vars, k_vars>>
    PROVE  [AnyNext]_vars
<1>1. Amounts \subseteq U64 /\ Fees \subseteq AnyFees /\ K_MINT \in ConfigMints
  BY PoolAssumption DEF U64, Fees, AnyFees, ConfigMints
<1>2. CASE Next
  BY <1>2, NextIsAny
<1>3. ASSUME NEW c \in ConfigParams, CreateKTokenConfig(c) PROVE AnyNext
  <2>1. AnyConfig(c, K_MINT)
    BY <1>3, Zenon DEF CreateKTokenConfig, AnyConfig
  <2>2. QED
    BY <1>1, <2>1, Zenon DEF AnyNext
<1>4. ASSUME NEW f, NEW price, Publish(f, price) PROVE UNCHANGED vars
  BY <1>4 DEF Publish
<1>5. ASSUME NEW i \in Side, NEW amount_in \in Amounts, NEW limit, NEW fee \in Fees,
             NEW from, NEW to, SwapWithKToken(i, amount_in, limit, fee, from, to)
      PROVE  AnyNext
  <2>1. amount_in \in U64 /\ fee \in AnyFees
    BY <1>1
  <2>2. SwapBaseInput(i, amount_in, limit, fee)
    BY <1>5, <2>1, KSwapIsBaseInput
  <2>3. QED
    BY <2>1, <2>2, Zenon DEF AnyNext
<1>6. CASE UNCHANGED <<vars, k_vars>>
  BY <1>6
<1>7. QED
  BY <1>2, <1>3, <1>4, <1>5, <1>6, Zenon DEF KNext

\* So the behaviours of the pool are among those PoolProofs is about.
LEMMA KSpecIsAny ==
    ASSUME K_MINT \in FeeTokenMints
    PROVE  AnyKSpec => AnySpec
<1>1. IInv /\ [KNext]_<<vars, k_vars>> => [AnyNext]_vars /\ IInv'
  BY KStepIsAny, StepKeeps
<1>2. QED
  BY <1>1, InitEstablishes, PTL DEF AnyKSpec, AnySpec

\* A pool on which fees are paid in K tokens keeps its types, stays solvent,
\* with its liquidity locked and its reserves positive, and does not trade
\* before it opens, though the instruction checks no product of reserves
\* (swap_with_k_token.rs:104).
THEOREM KTokenSwapKeepsPool ==
    ASSUME K_MINT \in FeeTokenMints
    PROVE  AnyKSpec => [](/\ TypeOK /\ Solvent /\ LockedLiquidity /\ ReservesPositive
                          /\ TradesStartAtOpenTime)
<1>1. IInv => TypeOK /\ Solvent /\ LockedLiquidity /\ ReservesPositive
  BY DEF IInv
<1>2. QED
  BY <1>1, KSpecIsAny, HistoryInvariant, PTL

\* Its liquidity providers lose no value to the instruction, and no fee counter
\* falls by it (swap_with_k_token.rs:188).
THEOREM KTokenSwapTakesNoValue ==
    ASSUME K_MINT \in FeeTokenMints
    PROVE  AnyKSpec => ImplementsShares /\ CollectionPaysOnlyFees
  BY KSpecIsAny, AnyImplementsShares, AnyCollectionPays, PTL

-----------------------------------------------------------------------------
(* From the state the program starts in. *)

\* No instruction names a vault in the pool, and nothing has been charged.
KTokensUntouched ==
    /\ fee_token_vault = DEFAULT_PUBKEY
    /\ collected_fee_token_amount = 0
    /\ k_tokens = [a \in KTokenAccounts |-> K_SUPPLY]

\* A call needs the vault named in the pool.
LEMMA NoVaultNoSwap ==
    ASSUME DEFAULT_PUBKEY \notin KTokenAccounts, KTokensUntouched,
           NEW i, NEW amount_in, NEW limit, NEW fee, NEW from, NEW to \in KTokenAccounts
    PROVE  ~SwapWithKToken(i, amount_in, limit, fee, from, to)
  BY DEF KTokensUntouched, SwapWithKToken

\* Every step leaves it so.
LEMMA StepChargesNothing ==
    ASSUME DEFAULT_PUBKEY \notin KTokenAccounts, KTokensUntouched, [KNext]_<<vars, k_vars>>
    PROVE  KTokensUntouched'
<1>1. \/ UNCHANGED k_vars
      \/ \E f \in Feeds, price \in FeedPrices : Publish(f, price)
  BY NoVaultNoSwap, Zenon DEF KNext, CreateKTokenConfig
<1>2. QED
  BY <1>1 DEF Publish, k_vars, KTokensUntouched

\* The state of the K tokens in every behaviour of the program.
LEMMA KTokensEverUntouched ==
    ASSUME DEFAULT_PUBKEY \notin KTokenAccounts
    PROVE  KSpec => []KTokensUntouched
<1>1. KInit => KTokensUntouched
  BY DEF KInit, KTokensUntouched
<1>2. QED
  BY <1>1, StepChargesNothing, PTL DEF KSpec

\* No sequence of instructions makes a pool on which swap_with_k_token takes
\* place, whatever accounts are passed: fee_token_vault is compared
\* (swap_with_k_token.rs:88) and assigned by nothing.
THEOREM KTokenSwapNeverHappens ==
    ASSUME DEFAULT_PUBKEY \notin KTokenAccounts
    PROVE  KSpec => [][~ \E i \in Side, amount_in \in Amounts, limit \in Limits, fee \in Fees,
                            from, to \in KTokenAccounts :
                              SwapWithKToken(i, amount_in, limit, fee, from, to)]_<<vars, k_vars>>
<1> DEFINE Swaps == \E i \in Side, amount_in \in Amounts, limit \in Limits, fee \in Fees,
                       from, to \in KTokenAccounts :
                         SwapWithKToken(i, amount_in, limit, fee, from, to)
<1>1. KTokensUntouched => ~Swaps
  BY NoVaultNoSwap, Zenon
<1> HIDE DEF Swaps
<1>2. KSpec => [][~Swaps]_<<vars, k_vars>>
  BY <1>1, KTokensEverUntouched, PTL DEF KSpec
<1>3. QED
  BY <1>2 DEF Swaps
=============================================================================
