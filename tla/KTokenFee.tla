------------------------------ MODULE KTokenFee ------------------------------
(***************************************************************************)
(* The questions of CurveCalculator and one more: a fee converted into K   *)
(* tokens by swap_with_k_token, whole and in two parts, and what the whole *)
(* buys converted back.                                                    *)
(***************************************************************************)
EXTENDS CurveCalculator, Pyth

CONSTANTS
    FeeAmounts,      \* amounts converted
    Prices,          \* prices published, 0 or negative ones too
    Exponents,       \* decimal exponents of a feed
    TokenDecimals    \* decimals of a mint

ASSUME KTokenFeeAssumption ==
    /\ FeeAmounts \subseteq 0 .. AMOUNT_MAX
    /\ Prices \cup Exponents \subseteq Int
    /\ TokenDecimals \subseteq 0 .. 255

Convert(amount, part, feed_a, feed_b, decimals_a, decimals_b) ==
    LET converted(a) == convert_token_amount(a, feed_a, feed_b, decimals_a, decimals_b)
        whole == converted(amount)
    IN  quote' = [kind |-> "convert", amount |-> amount, part |-> part,
                  feed_a |-> feed_a, feed_b |-> feed_b,
                  decimals_a |-> decimals_a, decimals_b |-> decimals_b,
                  whole  |-> whole,
                  first  |-> converted(part),
                  second |-> converted(amount - part),
                  back   |-> IF whole.ok
                             THEN convert_token_amount(whole.amount, feed_b, feed_a,
                                                       decimals_b, decimals_a)
                             ELSE NoAmount]

KNext ==
    \/ Next
    \/ /\ quote = NoQuote
       /\ \E amount \in FeeAmounts, price_a, price_b \in Prices, expo_a, expo_b \in Exponents,
             decimals_a, decimals_b \in TokenDecimals :
            \E part \in 0 .. amount :
               Convert(amount, part, PriceFeed(price_a, expo_a, 0),
                       PriceFeed(price_b, expo_b, 0), decimals_a, decimals_b)

KSpec == Init /\ [][KNext]_quote

-----------------------------------------------------------------------------

Converted == quote.kind = "convert" /\ quote.whole.ok

\* By the formula at pyth.rs:46, one unit of a is worth 10^power * price_a /
\* price_b units of b.
power ==
    quote.feed_a.expo - quote.feed_b.expo + quote.decimals_b - quote.decimals_a

dividend ==
    quote.amount * quote.feed_a.price * 10^(IF power >= 0 THEN power ELSE 0)

divisor == quote.feed_b.price * 10^(IF power < 0 THEN -power ELSE 0)

\* Three truncations after each other, on exponents and decimals that pull in
\* any direction, never charge more than the formula of pyth.rs:46 says, and
\* what is lost is one unit and, only when the exponents scale down before the
\* decimals scale up again, less than one unit of the scaled product
\* (pyth.rs:71-98).
ConversionWithinScale ==
    Converted =>
        LET expo_diff == quote.feed_a.expo - quote.feed_b.expo
            decimal_diff == quote.decimals_b - quote.decimals_a
            lost == IF expo_diff < 0 /\ decimal_diff > 0 THEN 10^decimal_diff ELSE 0
        IN  /\ quote.whole.amount * divisor <= dividend
            /\ dividend < (quote.whole.amount + 1) * divisor
                              + lost * (divisor \div quote.feed_b.price)

\* Nobody gains by splitting or returning: a fee paid in two parts is at most
\* the fee paid at once, a part of what could be converted can be converted, and
\* converting there and back never yields more than was converted
\* (pyth.rs:49-102).
SplittingAndReturningGainNothing ==
    Converted =>
        /\ quote.first.ok /\ quote.second.ok
        /\ quote.first.amount + quote.second.amount <= quote.whole.amount
        /\ quote.back.ok => quote.back.amount <= quote.amount
=============================================================================
