-------------------------------- MODULE Pyth --------------------------------
(***************************************************************************)
(* Price feeds and the conversion of a fee into K tokens (utils/pyth.rs).  *)
(*                                                                         *)
(* A feed publishes a signed price, a decimal exponent and the time of     *)
(* publication.  The code computes in u128 with checked operations and     *)
(* overflow checks on; a failing call is the record NoAmount, and the      *)
(* caller aborts.                                                          *)
(***************************************************************************)
EXTENDS Integers

CONSTANTS
    PRICE_AGE,   \* 60 seconds in the code
    U128_MAX,    \* 2^128 - 1 in the code, small for TLC
    AMOUNT_MAX   \* u64::MAX in the code, small for TLC

ASSUME PythAssumption ==
    /\ PRICE_AGE \in Nat
    /\ U128_MAX \in Nat
    /\ AMOUNT_MAX \in 0 .. U128_MAX

NoAmount == [ok |-> FALSE]

-----------------------------------------------------------------------------
(* The pyth_sdk_solana crate, as the program uses it. *)

PriceFeed(price, expo, publish_time) ==
    [price |-> price, expo |-> expo, publish_time |-> publish_time]

\* get_price_no_older_than looks at the distance in time in both directions.
within_age(price_feed, current_timestamp) ==
    /\ current_timestamp - price_feed.publish_time <= PRICE_AGE
    /\ price_feed.publish_time - current_timestamp <= PRICE_AGE

-----------------------------------------------------------------------------
(* utils/pyth.rs *)

\* get_price answers with the feed's price as it is: the confidence interval
\* is returned beside it and looked at by nobody.
price_available(price_feed, current_timestamp) == within_age(price_feed, current_timestamp)

\* One rescaling by a power of ten: multiplied, or divided and truncated.
scale(numerator, digits) ==
    IF digits >= 0 THEN numerator * 10^digits ELSE numerator \div 10^(-digits)

\* The power itself must be a u128, and so must a product.
scale_fits(numerator, digits) ==
    /\ 10^(IF digits >= 0 THEN digits ELSE -digits) <= U128_MAX
    /\ scale(numerator, digits) <= U128_MAX

\* Mutant: the divisions are rounded up.
convert_token_amount_rounded_up(amount_a, feed_a, feed_b, decimals_a, decimals_b) ==
    LET numerator == scale(scale(amount_a * feed_a.price, feed_a.expo - feed_b.expo),
                           decimals_b - decimals_a)
    IN  IF feed_a.price <= 0 \/ feed_b.price <= 0
        THEN NoAmount
        ELSE [ok |-> TRUE, amount |-> (numerator + feed_b.price - 1) \div feed_b.price]

\* Mutant: the exponents are subtracted the other way round.
convert_token_amount_exponents_swapped(amount_a, feed_a, feed_b, decimals_a, decimals_b) ==
    LET numerator == scale(scale(amount_a * feed_a.price, feed_b.expo - feed_a.expo),
                           decimals_b - decimals_a)
    IN  IF feed_a.price <= 0 \/ feed_b.price <= 0
        THEN NoAmount
        ELSE [ok |-> TRUE, amount |-> numerator \div feed_b.price]

\* Exponents first, then decimals, then the price of the other token; each
\* step truncates what the step before it left.
convert_token_amount(amount_a, feed_a, feed_b, decimals_a, decimals_b) ==
    LET numerator   == amount_a * feed_a.price
        expo_diff   == feed_a.expo - feed_b.expo
        adjusted    == scale(numerator, expo_diff)
        decimal_diff == decimals_b - decimals_a
        final       == scale(adjusted, decimal_diff)
    IN  IF /\ feed_a.price > 0
           /\ feed_b.price > 0
           /\ numerator <= U128_MAX
           /\ scale_fits(numerator, expo_diff)
           /\ scale_fits(adjusted, decimal_diff)
           /\ final \div feed_b.price <= AMOUNT_MAX
        THEN [ok |-> TRUE, amount |-> final \div feed_b.price]
        ELSE NoAmount

-----------------------------------------------------------------------------
(* swap_with_k_token.rs: the fee a swap is charged in K tokens *)

DISCOUNT_DENOMINATOR == 10000

discounted_fee(trade_fee, discount_rate) ==
    (trade_fee * discount_rate) \div DISCOUNT_DENOMINATOR

k_token_fee_amount(trade_fee, discount_rate, input_feed, k_feed, input_decimals, k_decimals) ==
    convert_token_amount(discounted_fee(trade_fee, discount_rate),
                         input_feed, k_feed, input_decimals, k_decimals)
=============================================================================
