--------------------------- MODULE CurveCalculator ---------------------------
(***************************************************************************)
(* The calls the instructions make into the calculator and into the        *)
(* transfer fee helpers, one call per behaviour: the functions of          *)
(* CurveMath.tla and TransferFee.tla against definitions of what they      *)
(* should return, and the two directions of a quote against each other.    *)
(* The calculator keeps no state, so a behaviour ends with its answer.     *)
(***************************************************************************)
EXTENDS CurveMath, TransferFee, FiniteSetsExt

CONSTANTS
    QuoteAmounts,   \* amounts asked for
    ReserveAmounts, \* reserves of the input and output side, and lp_supply
    TradeRates, CreatorRates, ShareRates,
    CapAmounts      \* maximum_fee of a mint

ASSUME QuoteAssumption ==
    /\ QuoteAmounts \subseteq Nat \ {0}
    /\ ReserveAmounts \subseteq Nat \ {0}
    /\ TradeRates \cup CreatorRates \cup ShareRates \subseteq 0 .. DEN
    /\ CapAmounts \subseteq Nat

VARIABLE quote

NoQuote == [kind |-> "none"]

Init == quote = NoQuote

Rates == {rates \in [trade : TradeRates, creator : CreatorRates,
                     protocol : ShareRates, fund : ShareRates] :
              rates_within_denominator(rates)}

QuoteBaseInput(amount, x, y, rates, on) ==
    quote' = [kind |-> "base_input", amount |-> amount, x |-> x, y |-> y, rates |-> rates,
              on |-> on, result |-> swap_base_input(amount, x, y, rates, on)]

QuoteBaseOutput(amount, x, y, rates, on) ==
    quote' = [kind |-> "base_output", amount |-> amount, x |-> x, y |-> y, rates |-> rates,
              on |-> on, result |-> swap_base_output(amount, x, y, rates, on)]

\* lp_tokens_to_trading_tokens in both directions, for one of the tokens.
QuoteShares(lp, supply, reserve) ==
    quote' = [kind |-> "shares", lp |-> lp, supply |-> supply, reserve |-> reserve,
              ceiling |-> lp_to_trading_ceiling(lp, supply, reserve),
              floor |-> lp_to_trading_floor(lp, supply, reserve)]

QuoteTransfer(amount, fee) ==
    quote' = [kind |-> "transfer", amount |-> amount, fee |-> fee,
              inverse |-> get_transfer_inverse_fee(fee, amount),
              matches |-> inverse_fee_matches(fee, amount)]

\* A call is made once; the answer ends the behaviour.
Next ==
    /\ quote = NoQuote
    /\ \/ \E amount \in QuoteAmounts, x, y \in ReserveAmounts, rates \in Rates, on \in BOOLEAN :
            QuoteBaseInput(amount, x, y, rates, on) \/ QuoteBaseOutput(amount, x, y, rates, on)
       \/ \E lp \in QuoteAmounts, supply, reserve \in ReserveAmounts :
            QuoteShares(lp, supply, reserve)
       \/ \E amount \in QuoteAmounts, points \in 0 .. MAX_FEE_BASIS_POINTS, cap \in CapAmounts :
            QuoteTransfer(amount, [transfer_fee_basis_points |-> points, maximum_fee |-> cap])

Spec == Init /\ [][Next]_quote

-----------------------------------------------------------------------------

Answered(kind) == quote.kind = kind /\ quote.result.ok

\* Both directions account for every token and never lower the product
\* (sound_result of CurveMath.tla): what Pool.tla's solvency rests on.
QuotesSound ==
    Answered("base_input") \/ Answered("base_output") =>
        sound_result(quote.result, quote.x, quote.y, quote.on)

\* An exact input buys the most the curve allows: one more token out would
\* lower the product (constant_product.rs:19, truncation in the pool's favour
\* and by less than one token).
ExactInputBuysMost ==
    Answered("base_input") =>
        quote.result.new_output_vault_amount =
            Min({left \in 0 .. quote.y :
                     quote.result.new_input_vault_amount * left >= quote.x * quote.y})

\* An exact output asks for the least input: the least curve input that keeps
\* the product, grossed up to the least amount whose part after fees covers it
\* (constant_product.rs:32, fees.rs:74).
ExactOutputCostsLeast ==
    Answered("base_output") =>
        LET swapped == quote.result.new_input_vault_amount - quote.x
            rate == input_fee_rate(quote.rates, quote.on)
        IN  /\ \A less \in 0 .. swapped - 1 :
                   (quote.x + less) * quote.result.new_output_vault_amount < quote.x * quote.y
            /\ \A less \in 0 .. quote.result.input_amount - 1 :
                   less * (DEN - rate) < swapped * DEN

\* The two directions agree up to the rounding of the fees.  What an exact
\* input bought can be asked for as an exact output, and at no higher price,
\* but when no fee is charged and a creator fee would be on the input:
\* split_creator_fee divides by the sum of the rates (calculator.rs:179).  The
\* price of an exact output, paid as an exact input, buys at least that output
\* while one fee is rounded up on the input; the second fee, split off by
\* split_creator_fee in one direction and rounded up in the other, can cost one
\* token of the curve's input.
DirectionsAgree ==
    /\ Answered("base_input") /\ quote.result.output_amount > 0 =>
           LET back == swap_base_output(quote.result.output_amount, quote.x, quote.y,
                                        quote.rates, quote.on)
               no_fee_to_split == quote.on /\ quote.rates.trade + quote.rates.creator = 0
           IN  IF no_fee_to_split
               THEN ~back.ok
               ELSE back.ok /\ back.input_amount <= quote.amount
    /\ Answered("base_output") =>
           LET again == swap_base_input(quote.result.input_amount, quote.x, quote.y,
                                        quote.rates, quote.on)
               two_fees == quote.on /\ quote.rates.creator > 0 /\ quote.rates.trade > 0
           IN  /\ again.ok
               /\ IF two_fees
                  THEN again.new_input_vault_amount >= quote.result.new_input_vault_amount - 1
                  ELSE again.output_amount >= quote.amount

\* A share is never cheaper to buy than to redeem, the exact share lies between
\* the two prices, and they differ by one token at most.  A deposit whose share
\* rounds down to nothing is priced 0 and refused by the caller
\* (constant_product.rs:50-90).
SharesRoundForThePool ==
    quote.kind = "shares" =>
        /\ quote.floor * quote.supply <= quote.lp * quote.reserve
        /\ quote.lp * quote.reserve < (quote.floor + 1) * quote.supply
        /\ quote.ceiling > 0 => quote.ceiling * quote.supply >= quote.lp * quote.reserve
        /\ quote.ceiling \in quote.floor .. quote.floor + 1

\* When get_transfer_inverse_fee does not fail, sending the amount plus the fee
\* it returns makes exactly the amount arrive, also at the 100% rate, where the
\* cap is returned unchecked, and under a cap that cuts the fee
\* (utils/token.rs:126): deposits credit, and exact outputs deliver, no more and
\* no less than was priced.
InverseFeeArrivesExactly ==
    quote.kind = "transfer" /\ quote.matches =>
        LET sent == quote.amount + quote.inverse
        IN  sent - get_transfer_fee(quote.fee, sent) = quote.amount
=============================================================================
