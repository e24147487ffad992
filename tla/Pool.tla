-------------------------------- MODULE Pool --------------------------------
(***************************************************************************)
(* One constant product pool: its PoolState account, its two token vaults  *)
(* and its LP mint, under the instructions of the program                  *)
(* (programs/cp-swap/src/instructions) and what the token program lets     *)
(* anybody do to the vaults and to LP tokens.                              *)
(*                                                                         *)
(* The runtime executes an instruction as one transaction and drops every  *)
(* effect of one that fails, so an instruction is one action, and an early *)
(* return, a failed check or a panic is a guard.  What interleaves is the  *)
(* order of instructions, clock readings, config updates and transfers.    *)
(*                                                                         *)
(* The holders of LP tokens are not told apart: LP tokens move freely, so  *)
(* an owner may hold any part of the circulating supply.  The payers' own  *)
(* token accounts are not modelled: a payer is assumed to have the funds.  *)
(***************************************************************************)
EXTENDS CurveMath, TransferFee

CONSTANTS
    U64_MAX,           \* 2^64 - 1 in the code, small for TLC
    LOCK_LP_AMOUNT,    \* lock_lp_amount, 100 in the code
    Q32,               \* 2^32 in the code: the scale of the oracle's prices
    Amounts,           \* u64 amounts used as arguments
    Limits,            \* u64 bounds used as arguments: slippage limits, fees requested
    Statuses,          \* status bytes written by the admin, as sets of disabled operations
    OpenTimes,         \* open_time arguments
    MintFees,          \* transfer fees a mint may have in the current epoch
    ConfigParams,      \* arguments of create_amm_config
    ConfigUpdates      \* <<param, value>> arguments of update_amm_config

CONSTANTS
    Accounts, ADMIN, DEFAULT_PUBKEY, FeeRateValues, FeeTokenMints,
    DiscountRates, MAX_DISCOUNT_RATE,
    OBSERVATION_NUM, OBSERVATION_UPDATE_DURATION_DEFAULT, CUMULATIVE_RANGE, MaxTime

ASSUME PoolAssumption ==
    /\ U64_MAX \in Nat
    /\ LOCK_LP_AMOUNT \in Nat \ {0}
    /\ Q32 \in Nat
    /\ Amounts \subseteq 0 .. U64_MAX
    /\ Limits \subseteq 0 .. U64_MAX
    /\ Statuses \subseteq SUBSET {"Deposit", "Withdraw", "Swap"}
    /\ OpenTimes \subseteq Nat
    /\ MintFees \subseteq TransferFees
    /\ ConfigParams \subseteq
           [trade : Nat, protocol : Nat, fund : Nat, creator : Nat, discount : Nat]
    /\ ConfigUpdates \subseteq (0 .. 255) \X Nat
    /\ ADMIN \in Accounts
    /\ OBSERVATION_NUM \in Nat \ {0}
    /\ CUMULATIVE_RANGE \in Nat \ {0}
    /\ MaxTime \in Nat

VARIABLES
    pool_state,          \* the PoolState account
    vault,               \* the balances of token_0_vault and token_1_vault
    lp_mint_supply,      \* LP tokens in circulation (the LP mint's supply)
    amm_config,          \* the pool's AmmConfig account
    observation_state,   \* the pool's ObservationState account
    unix_timestamp       \* the Clock sysvar

vars == <<pool_state, vault, lp_mint_supply, amm_config, observation_state, unix_timestamp>>

Config == INSTANCE AmmConfig
Oracle == INSTANCE Oracle

-----------------------------------------------------------------------------

\* Token 0 and token 1; a swap with input side i is ZeroForOne when i = 0.
Side == {0, 1}

CreatorFeeOn == {"BothToken", "OnlyToken0", "OnlyToken1"}

\* The operations with a bit in `status`, which holds the disabled ones.
PoolStatusBitIndex == {"Deposit", "Withdraw", "Swap"}

U64 == 0 .. U64_MAX

PoolStates == [
    initialized        : BOOLEAN,
    status             : SUBSET PoolStatusBitIndex,
    lp_supply          : U64,
    protocol_fees      : [Side -> U64],
    fund_fees          : [Side -> U64],
    creator_fees       : [Side -> U64],
    open_time          : Nat,
    creator_fee_on     : CreatorFeeOn,
    enable_creator_fee : BOOLEAN]

NoFees == [i \in Side |-> 0]

\* The zeroed account before the pool is created.
NoPool == [initialized |-> FALSE, status |-> {}, lp_supply |-> 0,
           protocol_fees |-> NoFees, fund_fees |-> NoFees, creator_fees |-> NoFees,
           open_time |-> 0, creator_fee_on |-> "BothToken", enable_creator_fee |-> FALSE]

Init ==
    /\ pool_state = NoPool
    /\ vault = [i \in Side |-> 0]
    /\ lp_mint_supply = 0
    /\ Config!Init
    /\ Oracle!Init

-----------------------------------------------------------------------------
(* states/pool.rs *)

get_status_by_bit(bit) == bit \notin pool_state.status

owed_fees(i) ==
    pool_state.protocol_fees[i] + pool_state.fund_fees[i] + pool_state.creator_fees[i]

\* Mutant: the creator's fees are taken for liquidity.
vault_amount_with_creator_fee(i) ==
    vault[i] - pool_state.protocol_fees[i] - pool_state.fund_fees[i]

\* The part of a vault that belongs to the liquidity providers.
vault_amount_without_fee(i) == vault[i] - owed_fees(i)

\* Otherwise InsufficientVault.
vaults_cover_fees == \A i \in Side : vault_amount_without_fee(i) >= 0

token_price_x32(i) ==
    (vault_amount_without_fee(1 - i) * Q32) \div vault_amount_without_fee(i)

is_creator_fee_on_input(i) ==
    \/ pool_state.creator_fee_on = "BothToken"
    \/ pool_state.creator_fee_on = "OnlyToken0" /\ i = 0
    \/ pool_state.creator_fee_on = "OnlyToken1" /\ i = 1

adjust_creator_fee_rate(creator_fee_rate) ==
    IF pool_state.enable_creator_fee THEN creator_fee_rate ELSE 0

\* The rates a swap of this pool is charged with.
swap_rates ==
    FeeRates(amm_config.trade_fee_rate, adjust_creator_fee_rate(amm_config.creator_fee_rate),
             amm_config.protocol_fee_rate, amm_config.fund_fee_rate)

\* A pool that charges no creator fee refuses one.
creator_fee_allowed(result) == pool_state.enable_creator_fee \/ result.creator_fee = 0

\* Protocol and fund fees are owed in the input token, the creator fee in the
\* token it was charged in.  The counters cannot overflow: see Solvent.
update_fees(result, i) ==
    LET side == IF is_creator_fee_on_input(i) THEN i ELSE 1 - i
    IN  /\ creator_fee_allowed(result)
        /\ pool_state' = [pool_state EXCEPT
               !.protocol_fees[i]   = @ + result.protocol_fee,
               !.fund_fees[i]       = @ + result.fund_fee,
               !.creator_fees[side] = @ + result.creator_fee]

-----------------------------------------------------------------------------
(* instructions/initialize.rs and initialize_with_permission.rs *)

\* Mutant: the locked part is minted to the creator.
first_lp_minted_whole(liquidity) == liquidity

\* LOCK_LP_AMOUNT of the first liquidity is counted in lp_supply and minted
\* to nobody.
first_lp_minted(liquidity) == liquidity - LOCK_LP_AMOUNT

\* The creator pays amount[i] of each token, the vaults get what the token
\* program's transfer fees leave.
CreatePool(amount, open_time, fee, creator_fee_on, enable_creator_fee) ==
    LET received == [i \in Side |-> amount[i] - calculate_fee(fee[i], amount[i])]
    IN  /\ amm_config.created
        /\ ~amm_config.disable_create_pool
        /\ ~pool_state.initialized
        /\ \A i \in Side : received[i] > 0
        /\ \E liquidity \in U64 :
             /\ is_integer_sqrt(liquidity, received[0] * received[1])
             /\ liquidity >= LOCK_LP_AMOUNT
             /\ lp_mint_supply' = first_lp_minted(liquidity)
             /\ pool_state' = [NoPool EXCEPT
                    !.initialized = TRUE,
                    !.lp_supply = liquidity,
                    !.open_time = IF open_time <= unix_timestamp
                                  THEN unix_timestamp + 1
                                  ELSE open_time,
                    !.creator_fee_on = creator_fee_on,
                    !.enable_creator_fee = enable_creator_fee]
        /\ vault' = received
        /\ UNCHANGED <<amm_config, observation_state, unix_timestamp>>

Initialize(amount, open_time, fee) ==
    CreatePool(amount, open_time, fee, "BothToken", FALSE)

InitializeWithPermission(amount, open_time, fee, creator_fee_on) ==
    CreatePool(amount, open_time, fee, creator_fee_on, TRUE)

-----------------------------------------------------------------------------
(* instructions/deposit.rs *)

\* What a deposit for lp_token_amount adds to the reserve of side i, and what
\* its owner sends for that to arrive.
deposit_amount(lp_token_amount, i) ==
    lp_to_trading_ceiling(lp_token_amount, pool_state.lp_supply, vault_amount_without_fee(i))

deposit_transfer_amount(lp_token_amount, fee, i) ==
    LET amount == deposit_amount(lp_token_amount, i)
    IN  amount + get_transfer_inverse_fee(fee[i], amount)

\* The program and the token program find nothing to refuse.
deposit_accepted(lp_token_amount, maximum, fee) ==
    /\ pool_state.initialized
    /\ lp_token_amount > 0
    /\ get_status_by_bit("Deposit")
    /\ vaults_cover_fees
    /\ \A i \in Side :
         LET amount == deposit_amount(lp_token_amount, i)
         IN  /\ amount > 0
             /\ inverse_fee_matches(fee[i], amount)
             /\ deposit_transfer_amount(lp_token_amount, fee, i) <= maximum[i]
             /\ vault[i] + amount <= U64_MAX
    /\ pool_state.lp_supply + lp_token_amount <= U64_MAX

Deposit(lp_token_amount, maximum, fee) ==
    LET transfer_amount(i) == deposit_transfer_amount(lp_token_amount, fee, i)
    IN  /\ deposit_accepted(lp_token_amount, maximum, fee)
        /\ vault' = [i \in Side |->
               vault[i] + transfer_amount(i) - calculate_fee(fee[i], transfer_amount(i))]
        /\ pool_state' = [pool_state EXCEPT !.lp_supply = @ + lp_token_amount]
        /\ lp_mint_supply' = lp_mint_supply + lp_token_amount
        /\ UNCHANGED <<amm_config, observation_state, unix_timestamp>>

-----------------------------------------------------------------------------
(* instructions/withdraw.rs *)

\* What lp_token_amount redeems of side i, never more than is there.
withdraw_amount(lp_token_amount, i) ==
    lesser(vault_amount_without_fee(i),
           lp_to_trading_floor(lp_token_amount, pool_state.lp_supply,
                               vault_amount_without_fee(i)))

withdraw_accepted(lp_token_amount, minimum, fee) ==
    /\ pool_state.initialized
    /\ lp_token_amount > 0
    /\ lp_token_amount <= lp_mint_supply
    /\ get_status_by_bit("Withdraw")
    /\ vaults_cover_fees
    /\ lp_token_amount <= pool_state.lp_supply
    /\ \A i \in Side :
         LET amount == withdraw_amount(lp_token_amount, i)
         IN  /\ amount > 0
             /\ amount - get_transfer_fee(fee[i], amount) >= minimum[i]

Withdraw(lp_token_amount, minimum, fee) ==
    /\ withdraw_accepted(lp_token_amount, minimum, fee)
    /\ vault' = [i \in Side |-> vault[i] - withdraw_amount(lp_token_amount, i)]
    /\ pool_state' = [pool_state EXCEPT !.lp_supply = @ - lp_token_amount]
    /\ lp_mint_supply' = lp_mint_supply - lp_token_amount
    /\ UNCHANGED <<amm_config, observation_state, unix_timestamp>>

-----------------------------------------------------------------------------
(* instructions/swap_base_input.rs and swap_base_output.rs *)

\* Mutant: the opening time is not looked at.
swap_approved_any_time ==
    /\ pool_state.initialized
    /\ get_status_by_bit("Swap")
    /\ \A i \in Side : vault_amount_without_fee(i) > 0

\* The checks before the amounts are computed: get_swap_params fails on a
\* vault below its fees and divides by both reserves for the oracle's prices.
swap_approved ==
    /\ pool_state.initialized
    /\ get_status_by_bit("Swap")
    /\ unix_timestamp >= pool_state.open_time
    /\ \A i \in Side : vault_amount_without_fee(i) > 0

\* The checks on a result: of update_fees, of the product of the curve's
\* amounts, and of the token program on the balance of the input vault.
swap_settles(i, result, amount_in) ==
    /\ creator_fee_allowed(result)
    /\ result.new_input_vault_amount * result.new_output_vault_amount
           >= vault_amount_without_fee(0) * vault_amount_without_fee(1)
    /\ vault[i] + amount_in <= U64_MAX

\* The fees, transfers and observation of a swap whose result is known; the
\* oracle gets the prices found before the swap.
SettleSwap(i, result, amount_in) ==
    /\ update_fees(result, i)
    /\ vault' = [vault EXCEPT ![i] = @ + amount_in, ![1 - i] = @ - result.output_amount]
    /\ Oracle!ObservationUpdate(token_price_x32(0), token_price_x32(1))
    /\ UNCHANGED <<amm_config, lp_mint_supply, unix_timestamp>>

\* What the token program's fee leaves of an exact input, and what the
\* calculator answers for it.
actual_amount_in(i, amount_in, fee) == amount_in - get_transfer_fee(fee[i], amount_in)

base_input_result(i, amount_in, fee) ==
    swap_base_input(actual_amount_in(i, amount_in, fee), vault_amount_without_fee(i),
                    vault_amount_without_fee(1 - i), swap_rates, is_creator_fee_on_input(i))

base_input_accepted(i, amount_in, minimum_amount_out, fee) ==
    LET result == base_input_result(i, amount_in, fee)
        amount_received == result.output_amount
                               - get_transfer_fee(fee[1 - i], result.output_amount)
    IN  /\ swap_approved
        /\ actual_amount_in(i, amount_in, fee) > 0
        /\ result.ok
        /\ amount_received > 0
        /\ amount_received >= minimum_amount_out
        /\ swap_settles(i, result, amount_in - calculate_fee(fee[i], amount_in))

SwapBaseInput(i, amount_in, minimum_amount_out, fee) ==
    /\ base_input_accepted(i, amount_in, minimum_amount_out, fee)
    /\ SettleSwap(i, base_input_result(i, amount_in, fee),
                  amount_in - calculate_fee(fee[i], amount_in))

\* What the calculator answers for an exact output with the token program's
\* fee on top, and what the payer sends for that input to arrive.
base_output_result(i, amount_out_received, fee) ==
    swap_base_output(
        amount_out_received + get_transfer_inverse_fee(fee[1 - i], amount_out_received),
        vault_amount_without_fee(i), vault_amount_without_fee(1 - i), swap_rates,
        is_creator_fee_on_input(i))

input_transfer_amount(i, amount_out_received, fee) ==
    LET result == base_output_result(i, amount_out_received, fee)
    IN  result.input_amount + get_transfer_inverse_fee(fee[i], result.input_amount)

\* What of it the token program's fee leaves.
input_received(i, amount_out_received, fee) ==
    LET sent == input_transfer_amount(i, amount_out_received, fee)
    IN  sent - calculate_fee(fee[i], sent)

\* Mutant: the limit is checked against what arrives, not what the payer sends.
base_output_accepted_net(i, max_amount_in, amount_out_received, fee) ==
    LET result == base_output_result(i, amount_out_received, fee)
    IN  /\ swap_approved
        /\ amount_out_received > 0
        /\ inverse_fee_matches(fee[1 - i], amount_out_received)
        /\ result.ok
        /\ result.input_amount > 0
        /\ inverse_fee_matches(fee[i], result.input_amount)
        /\ max_amount_in >= result.input_amount
        /\ swap_settles(i, result, input_received(i, amount_out_received, fee))

base_output_accepted(i, max_amount_in, amount_out_received, fee) ==
    LET result == base_output_result(i, amount_out_received, fee)
    IN  /\ swap_approved
        /\ amount_out_received > 0
        /\ inverse_fee_matches(fee[1 - i], amount_out_received)
        /\ result.ok
        /\ result.input_amount > 0
        /\ inverse_fee_matches(fee[i], result.input_amount)
        /\ max_amount_in >= input_transfer_amount(i, amount_out_received, fee)
        /\ swap_settles(i, result, input_received(i, amount_out_received, fee))

SwapBaseOutput(i, max_amount_in, amount_out_received, fee) ==
    /\ base_output_accepted(i, max_amount_in, amount_out_received, fee)
    /\ SettleSwap(i, base_output_result(i, amount_out_received, fee),
                  input_received(i, amount_out_received, fee))

-----------------------------------------------------------------------------
(* instructions/collect_creator_fee.rs and instructions/admin *)

\* Mutant: both counters are cleared and token 0 alone is paid.
CollectCreatorFeeToken0 ==
    /\ pool_state.initialized
    /\ \E i \in Side : pool_state.creator_fees[i] # 0
    /\ vault' = [vault EXCEPT ![0] = @ - pool_state.creator_fees[0]]
    /\ pool_state' = [pool_state EXCEPT !.creator_fees = NoFees]
    /\ UNCHANGED <<lp_mint_supply, amm_config, observation_state, unix_timestamp>>

CollectCreatorFee ==
    /\ pool_state.initialized
    /\ \E i \in Side : pool_state.creator_fees[i] # 0
    /\ \A i \in Side : pool_state.creator_fees[i] <= vault[i]
    /\ vault' = [i \in Side |-> vault[i] - pool_state.creator_fees[i]]
    /\ pool_state' = [pool_state EXCEPT !.creator_fees = NoFees]
    /\ UNCHANGED <<lp_mint_supply, amm_config, observation_state, unix_timestamp>>

CollectProtocolFee(owner, requested) ==
    LET amount == [i \in Side |-> lesser(requested[i], pool_state.protocol_fees[i])]
    IN  /\ pool_state.initialized
        /\ owner \in {amm_config.protocol_owner, ADMIN}
        /\ \A i \in Side : amount[i] <= vault[i]
        /\ vault' = [i \in Side |-> vault[i] - amount[i]]
        /\ pool_state' = [pool_state EXCEPT !.protocol_fees =
               [i \in Side |-> pool_state.protocol_fees[i] - amount[i]]]
        /\ UNCHANGED <<lp_mint_supply, amm_config, observation_state, unix_timestamp>>

\* Mutant: the owner is paid what he asks for.
CollectFundFeeUncapped(owner, requested) ==
    /\ pool_state.initialized
    /\ owner \in {amm_config.fund_owner, ADMIN}
    /\ \A i \in Side : requested[i] <= vault[i]
    /\ vault' = [i \in Side |-> vault[i] - requested[i]]
    /\ pool_state' = [pool_state EXCEPT !.fund_fees =
           [i \in Side |-> pool_state.fund_fees[i] - requested[i]]]
    /\ UNCHANGED <<lp_mint_supply, amm_config, observation_state, unix_timestamp>>

CollectFundFee(owner, requested) ==
    LET amount == [i \in Side |-> lesser(requested[i], pool_state.fund_fees[i])]
    IN  /\ pool_state.initialized
        /\ owner \in {amm_config.fund_owner, ADMIN}
        /\ \A i \in Side : amount[i] <= vault[i]
        /\ vault' = [i \in Side |-> vault[i] - amount[i]]
        /\ pool_state' = [pool_state EXCEPT !.fund_fees =
               [i \in Side |-> pool_state.fund_fees[i] - amount[i]]]
        /\ UNCHANGED <<lp_mint_supply, amm_config, observation_state, unix_timestamp>>

\* The admin may write any byte: any set of operations may be disabled.
UpdatePoolStatus(status) ==
    /\ pool_state.initialized
    /\ pool_state' = [pool_state EXCEPT !.status = status]
    /\ UNCHANGED <<vault, lp_mint_supply, amm_config, observation_state, unix_timestamp>>

-----------------------------------------------------------------------------
(* Steps of others: the config's admin, the token program, the clock. *)

CreateConfig(c) ==
    /\ Config!CreateAmmConfig(ADMIN, c.trade, c.protocol, c.fund, c.creator, 0,
                              DEFAULT_PUBKEY, c.discount)
    /\ UNCHANGED <<pool_state, vault, lp_mint_supply, observation_state, unix_timestamp>>

UpdateConfig(u, account) ==
    /\ Config!UpdateAmmConfig(ADMIN, u[1], u[2], account)
    /\ UNCHANGED <<pool_state, vault, lp_mint_supply, observation_state, unix_timestamp>>

\* Anybody may transfer tokens into a vault.
Donate(i, amount) ==
    /\ pool_state.initialized
    /\ vault[i] + amount <= U64_MAX
    /\ vault' = [vault EXCEPT ![i] = @ + amount]
    /\ UNCHANGED <<pool_state, lp_mint_supply, amm_config, observation_state, unix_timestamp>>

\* A holder may burn LP tokens without the program.
BurnLp(amount) ==
    /\ amount <= lp_mint_supply
    /\ lp_mint_supply' = lp_mint_supply - amount
    /\ UNCHANGED <<pool_state, vault, amm_config, observation_state, unix_timestamp>>

ClockMoves ==
    /\ Oracle!ClockMoves
    /\ UNCHANGED <<pool_state, vault, lp_mint_supply, amm_config>>

Fees == [Side -> MintFees]

Next ==
    \/ \E amount \in [Side -> Amounts], open_time \in OpenTimes, fee \in Fees :
         \/ Initialize(amount, open_time, fee)
         \/ \E on \in CreatorFeeOn : InitializeWithPermission(amount, open_time, fee, on)
    \/ \E lp \in Amounts, limit \in [Side -> Limits], fee \in Fees :
         Deposit(lp, limit, fee) \/ Withdraw(lp, limit, fee)
    \/ \E i \in Side, amount \in Amounts, limit \in Limits, fee \in Fees :
         SwapBaseInput(i, amount, limit, fee) \/ SwapBaseOutput(i, limit, amount, fee)
    \/ CollectCreatorFee
    \/ \E owner \in Accounts, requested \in [Side -> Limits] :
         CollectProtocolFee(owner, requested) \/ CollectFundFee(owner, requested)
    \/ \E status \in Statuses : UpdatePoolStatus(status)
    \/ \E c \in ConfigParams : CreateConfig(c)
    \/ \E u \in ConfigUpdates, account \in Accounts : UpdateConfig(u, account)
    \/ \E i \in Side, amount \in Amounts : Donate(i, amount)
    \/ \E amount \in Amounts : BurnLp(amount)
    \/ ClockMoves

Spec == Init /\ [][Next]_vars

-----------------------------------------------------------------------------

\* Every account keeps its type; in particular no u64 of the pool overflows.
TypeOK ==
    /\ pool_state \in PoolStates
    /\ vault \in [Side -> U64]
    /\ lp_mint_supply \in U64
    /\ Config!TypeOK
    /\ Oracle!TypeOK

\* The vaults always hold the fees owed to protocol, fund and creator, however
\* deposits, withdrawals, swaps in both directions, partial collections and
\* config changes follow each other: vault_amount_without_fee (pool.rs:204)
\* never fails with InsufficientVault, no collection lacks funds, and the
\* checked_add(..).unwrap() of update_fees (pool.rs:341) never panics.
Solvent == \A i \in Side : owed_fees(i) <= vault[i]

\* The LP tokens anybody can redeem never exceed lp_supply less the part
\* locked at creation (initialize.rs:273): Withdraw's checked_sub never
\* panics and no sequence of withdrawals empties the pool.
LockedLiquidity ==
    pool_state.initialized => lp_mint_supply + LOCK_LP_AMOUNT <= pool_state.lp_supply

\* A pool keeps a reserve of both tokens for good, so token_price_x32
\* (pool.rs:227) never divides by zero and the pool never becomes unusable.
ReservesPositive ==
    pool_state.initialized => \A i \in Side : vault_amount_without_fee(i) > 0

\* Nobody trades before the pool opens, even when the clock steps back: fees
\* are owed only after a first swap, which marks the oracle, and no observation
\* is older than open_time, which lies after the creation of the pool
\* (initialize.rs:179, swap_base_input.rs:80, oracle.rs:81).
TradesStartAtOpenTime ==
    /\ (\E i \in Side : owed_fees(i) > 0) => observation_state.initialized
    /\ observation_state.initialized =>
           /\ pool_state.initialized
           /\ Oracle!last_observation.block_timestamp >= pool_state.open_time

\* The pool seen by its liquidity providers.
Shares == INSTANCE LiquidityShares WITH
    MAX_AMOUNT <- U64_MAX,
    LOCKED     <- LOCK_LP_AMOUNT,
    reserve    <- [i \in Side |-> vault_amount_without_fee(i)],
    shares     <- pool_state.lp_supply,
    redeemable <- lp_mint_supply

\* No step takes value from the liquidity providers: a deposit or withdrawal
\* moves both reserves in proportion to lp_supply, rounded in the pool's favour
\* by less than one token, a swap at any rates, limits and transfer fees leaves
\* the product of what the providers own at least as large, and collecting fees
\* or changing the config is invisible to them.  The code checks the product
\* of the curve's own amounts only (swap_base_input.rs:180), before the fees and
\* transfer fees are settled, and checks nothing in deposit and withdraw.
ImplementsShares == Shares!Spec

\* A fee counter falls only when its owner is paid: the vault pays exactly
\* what the counters give up and the reserves of the liquidity providers, the
\* LP supply and the other counters stay as they are (collect_protocol_fee.rs:85,
\* collect_fund_fee.rs:83, collect_creator_fee.rs:100).
CollectionPaysOnlyFees ==
    [][ (\E i \in Side : \/ pool_state'.protocol_fees[i] < pool_state.protocol_fees[i]
                         \/ pool_state'.fund_fees[i] < pool_state.fund_fees[i]
                         \/ pool_state'.creator_fees[i] < pool_state.creator_fees[i])
        => /\ \A i \in Side : vault_amount_without_fee(i)' = vault_amount_without_fee(i)
           /\ pool_state.lp_supply' = pool_state.lp_supply
           /\ lp_mint_supply' = lp_mint_supply ]_vars
=============================================================================
