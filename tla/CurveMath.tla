------------------------------ MODULE CurveMath ------------------------------
(***************************************************************************)
(* The pure arithmetic of the pool: fees (curve/fees.rs), the constant     *)
(* product curve (curve/constant_product.rs) and the calculator that puts  *)
(* the two together (curve/calculator.rs).                                 *)
(*                                                                         *)
(* The code computes in u128 on u64 arguments, so no product below leaves  *)
(* the machine's range; what can fail is a checked_sub, a checked_div by   *)
(* zero or an unwrap.  A failing call is the record None: the caller turns *)
(* it into an error or a panic, and either way the transaction aborts.     *)
(***************************************************************************)
EXTENDS Integers

CONSTANT FEE_RATE_DENOMINATOR_VALUE  \* 1_000_000 in the code, small for TLC

ASSUME FeeDenominatorAssumption == FEE_RATE_DENOMINATOR_VALUE \in Nat \ {0}

DEN == FEE_RATE_DENOMINATOR_VALUE

None == [ok |-> FALSE]

-----------------------------------------------------------------------------
(* curve/fees.rs *)

ceil_div(token_amount, fee_numerator, fee_denominator) ==
    (token_amount * fee_numerator + fee_denominator - 1) \div fee_denominator

floor_div(token_amount, fee_numerator, fee_denominator) ==
    (token_amount * fee_numerator) \div fee_denominator

\* trading_fee and creator_fee round up, protocol_fee and fund_fee down.
trading_fee(amount, trade_fee_rate) == ceil_div(amount, trade_fee_rate, DEN)

creator_fee(amount, creator_fee_rate) == ceil_div(amount, creator_fee_rate, DEN)

protocol_fee(amount, protocol_fee_rate) == floor_div(amount, protocol_fee_rate, DEN)

fund_fee(amount, fund_fee_rate) == floor_div(amount, fund_fee_rate, DEN)

split_creator_fee(total_fee, trade_fee_rate, creator_fee_rate) ==
    floor_div(total_fee, creator_fee_rate, trade_fee_rate + creator_fee_rate)

\* Mutant: the fee of the amount after fees, added to it.
add_fee_of_post_fee_amount(post_fee_amount, trade_fee_rate) ==
    post_fee_amount + ceil_div(post_fee_amount, trade_fee_rate, DEN)

\* Mutant: rounded down, then one more in every case.
next_pre_fee_amount(post_fee_amount, trade_fee_rate) ==
    IF trade_fee_rate = 0
    THEN post_fee_amount
    ELSE floor_div(post_fee_amount, DEN, DEN - trade_fee_rate) + 1

\* Defined for trade_fee_rate < DEN (the code's checked_sub and checked_div).
calculate_pre_fee_amount(post_fee_amount, trade_fee_rate) ==
    IF trade_fee_rate = 0
    THEN post_fee_amount
    ELSE ceil_div(post_fee_amount, DEN, DEN - trade_fee_rate)

-----------------------------------------------------------------------------
(* curve/constant_product.rs *)

\* Mutant: the output rounded in the trader's favour.
swap_base_input_rounded_up(input_amount, input_vault_amount, output_vault_amount) ==
    ceil_div(input_amount, output_vault_amount, input_vault_amount + input_amount)

\* Mutant: the token left by the rounding is kept even when nothing is left.
swap_base_input_keeping_one(input_amount, input_vault_amount, output_vault_amount) ==
    output_vault_amount - 1
        - floor_div(input_vault_amount, output_vault_amount, input_vault_amount + input_amount)

swap_base_input_without_fees(input_amount, input_vault_amount, output_vault_amount) ==
    floor_div(input_amount, output_vault_amount, input_vault_amount + input_amount)

\* Defined for output_amount < output_vault_amount (checked_sub, division).
swap_base_output_without_fees(output_amount, input_vault_amount, output_vault_amount) ==
    ceil_div(input_vault_amount, output_amount, output_vault_amount - output_amount)

\* Mutant: a withdrawal rounded up.
lp_to_trading_rounded_up(lp_token_amount, lp_token_supply, vault_amount) ==
    ceil_div(lp_token_amount, vault_amount, lp_token_supply)

lp_to_trading_floor(lp_token_amount, lp_token_supply, vault_amount) ==
    floor_div(lp_token_amount, vault_amount, lp_token_supply)

\* Mutant: a deposit rounded down.
lp_to_trading_rounded_down(lp_token_amount, lp_token_supply, vault_amount) ==
    floor_div(lp_token_amount, vault_amount, lp_token_supply)

\* RoundDirection::Ceiling leaves an amount that rounds down to 0 at 0, for
\* the caller to reject.
lp_to_trading_ceiling(lp_token_amount, lp_token_supply, vault_amount) ==
    LET amount == floor_div(lp_token_amount, vault_amount, lp_token_supply)
    IN  IF (lp_token_amount * vault_amount) % lp_token_supply > 0 /\ amount > 0
        THEN amount + 1
        ELSE amount

\* initialize: integer_sqrt of the product of the two vault amounts.
is_integer_sqrt(root, n) == root * root <= n /\ n < (root + 1) * (root + 1)

-----------------------------------------------------------------------------
(* curve/calculator.rs *)

FeeRates(trade, creator, protocol, fund) ==
    [trade |-> trade, creator |-> creator, protocol |-> protocol, fund |-> fund]

\* What the curve leaves of an input once the fees charged on it are taken.
input_less_fees(input_amount, rates, is_creator_fee_on_input) ==
    input_amount - trading_fee(input_amount, rates.trade)
        - (IF is_creator_fee_on_input THEN creator_fee(input_amount, rates.creator) ELSE 0)

swap_base_input(input_amount, input_vault_amount, output_vault_amount, rates, on_input) ==
    LET trade == trading_fee(input_amount, rates.trade)
        less  == input_less_fees(input_amount, rates, on_input)
        out   == swap_base_input_without_fees(less, input_vault_amount, output_vault_amount)
        creator == creator_fee(IF on_input THEN input_amount ELSE out,
                               rates.creator)
        output  == IF on_input THEN out ELSE out - creator
    IN  IF less < 0 \/ input_vault_amount + less = 0 \/ output < 0
        THEN None
        ELSE [ok |-> TRUE,
              new_input_vault_amount  |-> input_vault_amount + less,
              new_output_vault_amount |-> output_vault_amount - out,
              input_amount  |-> input_amount,
              output_amount |-> output,
              trade_fee     |-> trade,
              protocol_fee  |-> protocol_fee(trade, rates.protocol),
              fund_fee      |-> fund_fee(trade, rates.fund),
              creator_fee   |-> creator]

\* The rate the payer's input is grossed up by.
input_fee_rate(rates, is_creator_fee_on_input) ==
    rates.trade + (IF is_creator_fee_on_input THEN rates.creator ELSE 0)

\* FALSE where the code returns None or panics: a fee rate of 100% or more,
\* an output the vault does not hold, both rates 0 with the creator fee on
\* the input (split_creator_fee divides by their sum).
swap_base_output_defined(output_amount, output_vault_amount, rates, is_creator_fee_on_input) ==
    /\ input_fee_rate(rates, is_creator_fee_on_input) < DEN
    /\ is_creator_fee_on_input \/ rates.creator < DEN
    /\ is_creator_fee_on_input => rates.trade + rates.creator # 0
    /\ LET actual == IF is_creator_fee_on_input
                     THEN output_amount
                     ELSE calculate_pre_fee_amount(output_amount, rates.creator)
       IN  actual < output_vault_amount

swap_base_output(output_amount, input_vault_amount, output_vault_amount, rates, on_input) ==
    LET actual  == IF on_input
                   THEN output_amount
                   ELSE calculate_pre_fee_amount(output_amount, rates.creator)
        swapped == swap_base_output_without_fees(actual, input_vault_amount,
                                                 output_vault_amount)
        input   == calculate_pre_fee_amount(swapped,
                       input_fee_rate(rates, on_input))
        creator == IF on_input
                   THEN split_creator_fee(input - swapped, rates.trade, rates.creator)
                   ELSE actual - output_amount
        trade   == input - swapped - (IF on_input THEN creator ELSE 0)
    IN  IF ~swap_base_output_defined(output_amount, output_vault_amount,
                                     rates, on_input)
        THEN None
        ELSE [ok |-> TRUE,
              new_input_vault_amount  |-> input_vault_amount + swapped,
              new_output_vault_amount |-> output_vault_amount - actual,
              input_amount  |-> input,
              output_amount |-> output_amount,
              trade_fee     |-> trade,
              protocol_fee  |-> protocol_fee(trade, rates.protocol),
              fund_fee      |-> fund_fee(trade, rates.fund),
              creator_fee   |-> creator]

-----------------------------------------------------------------------------
(* What a caller may rely on. *)

RateRecords == [trade : Nat, creator : Nat, protocol : Nat, fund : Nat]

\* The relations between the rates that AmmConfig.tla keeps.
rates_within_denominator(rates) ==
    /\ rates.trade + rates.creator <= DEN
    /\ rates.protocol + rates.fund <= DEN

\* A swap accounts for every token: what enters is the curve's input and the
\* fees charged on the input side, what leaves the curve is the output and a
\* creator fee charged on the output side; protocol and fund share the trade
\* fee; the output side keeps a token and the product of the curve's amounts
\* does not fall.
sound_result(result, input_vault_amount, output_vault_amount, is_creator_fee_on_input) ==
    /\ result.input_amount \in Nat /\ result.output_amount \in Nat
    /\ result.trade_fee \in Nat /\ result.creator_fee \in Nat
    /\ result.protocol_fee \in Nat /\ result.fund_fee \in Nat
    /\ result.protocol_fee + result.fund_fee <= result.trade_fee
    /\ result.new_input_vault_amount =
           input_vault_amount + result.input_amount - result.trade_fee
               - (IF is_creator_fee_on_input THEN result.creator_fee ELSE 0)
    /\ result.new_output_vault_amount =
           output_vault_amount - result.output_amount
               - (IF is_creator_fee_on_input THEN 0 ELSE result.creator_fee)
    /\ result.new_input_vault_amount >= input_vault_amount
    /\ result.new_output_vault_amount > 0
    /\ result.new_input_vault_amount * result.new_output_vault_amount
           >= input_vault_amount * output_vault_amount
=============================================================================
