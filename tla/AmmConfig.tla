------------------------------ MODULE AmmConfig ------------------------------
(***************************************************************************)
(* One AmmConfig account: the fee rates and owners shared by every pool    *)
(* created under it (states/config.rs), its creation by the admin          *)
(* (lib.rs, instructions/admin/create_config.rs) and its update            *)
(* (instructions/admin/update_config.rs).  An update takes effect on the   *)
(* pools that already exist: Pool.tla reads amm_config at every swap.      *)
(***************************************************************************)
EXTENDS Integers

CONSTANTS
    FEE_RATE_DENOMINATOR_VALUE,
    Accounts,          \* the signers and owners that occur
    ADMIN,             \* crate::admin::ID
    DEFAULT_PUBKEY,    \* Pubkey::default()
    FeeRateValues,     \* u64 values tried for each rate and for create_pool_fee
    FeeTokenMints,     \* mints tried for fee_token_mint
    DiscountRates,     \* values tried for fee_token_discount_rate
    MAX_DISCOUNT_RATE  \* 10_000 basis points in the code

ASSUME ConfigAssumption ==
    /\ FEE_RATE_DENOMINATOR_VALUE \in Nat \ {0}
    /\ ADMIN \in Accounts
    /\ DEFAULT_PUBKEY \notin Accounts
    /\ FeeRateValues \subseteq Nat
    /\ DiscountRates \subseteq Nat
    /\ MAX_DISCOUNT_RATE \in Nat

VARIABLE amm_config

Configs == [
    created             : BOOLEAN,
    disable_create_pool : BOOLEAN,
    trade_fee_rate      : Nat,
    protocol_fee_rate   : Nat,
    fund_fee_rate       : Nat,
    creator_fee_rate    : Nat,
    create_pool_fee     : Nat,
    protocol_owner      : Accounts,
    fund_owner          : Accounts,
    fee_token_mint      : FeeTokenMints \cup {DEFAULT_PUBKEY},
    fee_token_discount_rate : Nat]

\* The account does not exist yet.
NoConfig == [
    created |-> FALSE, disable_create_pool |-> FALSE,
    trade_fee_rate |-> 0, protocol_fee_rate |-> 0, fund_fee_rate |-> 0,
    creator_fee_rate |-> 0, create_pool_fee |-> 0,
    protocol_owner |-> ADMIN, fund_owner |-> ADMIN,
    fee_token_mint |-> DEFAULT_PUBKEY, fee_token_discount_rate |-> 0]

Init == amm_config = NoConfig

-----------------------------------------------------------------------------

\* The assertions of lib.rs and the body of create_config.rs; Anchor's `init`
\* lets the account be created once.
CreateAmmConfig(owner, trade, protocol, fund, creator, pool_fee, mint, discount) ==
    /\ owner = ADMIN
    /\ ~amm_config.created
    /\ trade + creator < FEE_RATE_DENOMINATOR_VALUE
    /\ protocol <= FEE_RATE_DENOMINATOR_VALUE
    /\ fund <= FEE_RATE_DENOMINATOR_VALUE
    /\ fund + protocol <= FEE_RATE_DENOMINATOR_VALUE
    /\ discount <= MAX_DISCOUNT_RATE
    /\ amm_config' = [
           created |-> TRUE, disable_create_pool |-> FALSE,
           trade_fee_rate |-> trade, protocol_fee_rate |-> protocol,
           fund_fee_rate |-> fund, creator_fee_rate |-> creator,
           create_pool_fee |-> pool_fee, protocol_owner |-> owner, fund_owner |-> owner,
           fee_token_mint |-> mint, fee_token_discount_rate |-> discount]

update_trade_fee_rate(trade_fee_rate) ==
    /\ trade_fee_rate + amm_config.creator_fee_rate <= FEE_RATE_DENOMINATOR_VALUE
    /\ amm_config' = [amm_config EXCEPT !.trade_fee_rate = trade_fee_rate]

\* Mutant: the new protocol share is not held against the stored fund share.
update_protocol_fee_rate_alone(protocol_fee_rate) ==
    /\ protocol_fee_rate <= FEE_RATE_DENOMINATOR_VALUE
    /\ amm_config' = [amm_config EXCEPT !.protocol_fee_rate = protocol_fee_rate]

update_protocol_fee_rate(protocol_fee_rate) ==
    /\ protocol_fee_rate <= FEE_RATE_DENOMINATOR_VALUE
    /\ protocol_fee_rate + amm_config.fund_fee_rate <= FEE_RATE_DENOMINATOR_VALUE
    /\ amm_config' = [amm_config EXCEPT !.protocol_fee_rate = protocol_fee_rate]

update_fund_fee_rate(fund_fee_rate) ==
    /\ fund_fee_rate <= FEE_RATE_DENOMINATOR_VALUE
    /\ fund_fee_rate + amm_config.protocol_fee_rate <= FEE_RATE_DENOMINATOR_VALUE
    /\ amm_config' = [amm_config EXCEPT !.fund_fee_rate = fund_fee_rate]

update_creator_fee_rate(creator_fee_rate) ==
    /\ creator_fee_rate + amm_config.trade_fee_rate <= FEE_RATE_DENOMINATOR_VALUE
    /\ amm_config' = [amm_config EXCEPT !.creator_fee_rate = creator_fee_rate]

set_new_protocol_owner(new_owner) ==
    /\ new_owner # DEFAULT_PUBKEY
    /\ amm_config' = [amm_config EXCEPT !.protocol_owner = new_owner]

\* Mutant: the default key is accepted as an owner.
set_any_fund_owner(new_fund_owner) ==
    amm_config' = [amm_config EXCEPT !.fund_owner = new_fund_owner]

set_new_fund_owner(new_fund_owner) ==
    /\ new_fund_owner # DEFAULT_PUBKEY
    /\ amm_config' = [amm_config EXCEPT !.fund_owner = new_fund_owner]

\* `param` selects the setting; `value` is the u64 argument and `account` the
\* first remaining account, read by params 3 and 4 only.  Params above 7 are
\* rejected with InvalidInput.
UpdateAmmConfig(owner, param, value, account) ==
    /\ owner = ADMIN
    /\ amm_config.created
    /\ \/ param = 0 /\ update_trade_fee_rate(value)
       \/ param = 1 /\ update_protocol_fee_rate(value)
       \/ param = 2 /\ update_fund_fee_rate(value)
       \/ param = 3 /\ set_new_protocol_owner(account)
       \/ param = 4 /\ set_new_fund_owner(account)
       \/ param = 5 /\ amm_config' = [amm_config EXCEPT !.create_pool_fee = value]
       \/ param = 6 /\ amm_config' = [amm_config EXCEPT !.disable_create_pool = (value # 0)]
       \/ param = 7 /\ update_creator_fee_rate(value)

\* Every param the code knows and one that stands for those it rejects.
Params == 0 .. 8

Create == \E owner \in Accounts, mint \in FeeTokenMints \cup {DEFAULT_PUBKEY},
             discount \in DiscountRates,
             trade, protocol, fund, creator, pool_fee \in FeeRateValues :
    CreateAmmConfig(owner, trade, protocol, fund, creator, pool_fee, mint, discount)

Update == \E owner \in Accounts, param \in Params, value \in FeeRateValues,
             account \in Accounts \cup {DEFAULT_PUBKEY} :
    UpdateAmmConfig(owner, param, value, account)

Next == Create \/ Update

Spec == Init /\ [][Next]_amm_config

-----------------------------------------------------------------------------

\* Every field of the account keeps its type.
TypeOK == amm_config \in Configs

\* The rates stay a split of the whole: the protocol and fund shares together
\* never exceed the trade fee they are cut from, nor trade and creator fee
\* together the input, whatever sequence of one-rate updates is applied.
\* (update_config.rs:41-61 checks each rate against the others as stored.)
RatesWithinDenominator ==
    /\ amm_config.protocol_fee_rate + amm_config.fund_fee_rate <= FEE_RATE_DENOMINATOR_VALUE
    /\ amm_config.trade_fee_rate + amm_config.creator_fee_rate <= FEE_RATE_DENOMINATOR_VALUE

\* What the assertion of lib.rs:69 demands when the account is created: trade
\* and creator fee together leave something of the input.
\* update_trade_fee_rate and update_creator_fee_rate compare with `<=`.
InputFeesBelowWhole ==
    amm_config.trade_fee_rate + amm_config.creator_fee_rate < FEE_RATE_DENOMINATOR_VALUE
=============================================================================
