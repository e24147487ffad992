----------------------------- MODULE KTokenSwap -----------------------------
(***************************************************************************)
(* The pool of Pool.tla with swap_with_k_token                             *)
(* (instructions/swap_with_k_token.rs): a swap by input whose payer is     *)
(* charged K tokens by two price feeds.  The K tokens go to the vault      *)
(* named in the pool; the feeds publish on their own.                      *)
(***************************************************************************)
EXTENDS Pool, Pyth

CONSTANTS
    K_MINT,          \* the mint set as fee_token_mint, one of FeeTokenMints
    KTokenAccounts,  \* token accounts of that mint; DEFAULT_PUBKEY is none
    K_SUPPLY,        \* K tokens in each of them at the start
    FeedPrices,      \* prices published
    DECIMALS         \* decimals of the pool's mints and of the K mint (AMOUNT_MAX is U64_MAX)

VARIABLES
    k_tokens,                    \* the balances of the K token accounts
    fee_token_vault,             \* pool_state.fee_token_vault
    collected_fee_token_amount,  \* pool_state.collected_fee_token_amount
    price_feed                   \* the feeds of token 0, token 1 and the K token

k_vars == <<k_tokens, fee_token_vault, collected_fee_token_amount, price_feed>>

K_FEED == 2

Feeds == Side \cup {K_FEED}

KInit ==
    /\ Init
    /\ k_tokens = [a \in KTokenAccounts |-> K_SUPPLY]
    /\ fee_token_vault = DEFAULT_PUBKEY
    /\ collected_fee_token_amount = 0
    /\ price_feed = [f \in Feeds |-> PriceFeed(0, 0, 0)]

k_token_fee(i, result) ==
    k_token_fee_amount(result.trade_fee, amm_config.fee_token_discount_rate,
                       price_feed[i], price_feed[K_FEED], DECIMALS, DECIMALS)

\* No bound on the discount's destination but the key in the pool; no check of
\* the product of the reserves, which the other swaps make.
SwapWithKToken(i, amount_in, minimum_amount_out, fee, k_token_account, k_token_vault) ==
    LET result == base_input_result(i, amount_in, fee)
        k_fee  == k_token_fee(i, result)
        received == result.output_amount - get_transfer_fee(fee[1 - i], result.output_amount)
        arriving == amount_in - calculate_fee(fee[i], amount_in)
    IN  /\ k_token_vault = fee_token_vault
        /\ swap_approved
        /\ amm_config.fee_token_mint = K_MINT
        /\ actual_amount_in(i, amount_in, fee) > 0
        /\ result.ok
        /\ \A f \in {i, K_FEED} : price_available(price_feed[f], unix_timestamp)
        /\ k_fee.ok
        /\ k_tokens[k_token_account] >= k_fee.amount
        /\ received > 0
        /\ received >= minimum_amount_out
        /\ vault[i] + arriving <= U64_MAX
        /\ update_fees(result, i)
        /\ vault' = [vault EXCEPT ![i] = @ + arriving, ![1 - i] = @ - result.output_amount]
        /\ k_tokens' = [a \in KTokenAccounts |->
               k_tokens[a] + (IF a = k_token_vault THEN k_fee.amount ELSE 0)
                           - (IF a = k_token_account THEN k_fee.amount ELSE 0)]
        /\ collected_fee_token_amount' = collected_fee_token_amount + k_fee.amount
        /\ collected_fee_token_amount + k_fee.amount <= U64_MAX
        /\ Oracle!ObservationUpdate(token_price_x32(0), token_price_x32(1))
        /\ UNCHANGED <<amm_config, lp_mint_supply, unix_timestamp, fee_token_vault, price_feed>>

\* create_amm_config with the discount enabled.
CreateKTokenConfig(c) ==
    /\ Config!CreateAmmConfig(ADMIN, c.trade, c.protocol, c.fund, c.creator, 0,
                              K_MINT, c.discount)
    /\ UNCHANGED <<pool_state, vault, lp_mint_supply, observation_state, unix_timestamp, k_vars>>

Publish(f, price) ==
    /\ price_feed' = [price_feed EXCEPT ![f] = PriceFeed(price, 0, unix_timestamp)]
    /\ UNCHANGED <<vars, k_tokens, fee_token_vault, collected_fee_token_amount>>

\* Every instruction of the program: none but swap_with_k_token touches the
\* K token fields, and none at all assigns fee_token_vault.
KNext ==
    \/ Next /\ UNCHANGED k_vars
    \/ \E c \in ConfigParams : CreateKTokenConfig(c)
    \/ \E f \in Feeds, price \in FeedPrices : Publish(f, price)
    \/ \E i \in Side, amount_in \in Amounts, limit \in Limits, fee \in Fees,
          from, to \in KTokenAccounts :
         SwapWithKToken(i, amount_in, limit, fee, from, to)

KSpec == KInit /\ [][KNext]_<<vars, k_vars>>

-----------------------------------------------------------------------------

\* What lib.rs:295 and tests/k_token_swap.test.ts:238 state: on a pool under a
\* config with a discount, a user with K tokens can pay the fee in them
\* whenever the plain swap would be executed and both prices are recent.
KTokenSwapAvailable ==
    \A i \in Side, amount_in \in Amounts, fee \in Fees :
        LET k_fee == k_token_fee(i, base_input_result(i, amount_in, fee))
        IN  /\ amm_config.fee_token_mint = K_MINT
            /\ ENABLED SwapBaseInput(i, amount_in, 0, fee)
            /\ \A f \in {i, K_FEED} : price_available(price_feed[f], unix_timestamp)
            /\ k_fee.ok
            /\ \A a \in KTokenAccounts : k_tokens[a] >= k_fee.amount
            => \E from, to \in KTokenAccounts :
                   ENABLED SwapWithKToken(i, amount_in, 0, fee, from, to)
=============================================================================
