------------------------ MODULE CurveCalculatorProofs ------------------------
(***************************************************************************)
(* What a quote promises, for every amount and reserve, every scale of the *)
(* rates and every fee of a mint: the properties of CurveCalculator.tla    *)
(* and KTokenFee.tla, in the behaviours of the latter.                     *)
(*                                                                         *)
(* A behaviour is one call, so the invariant is the list of the answers    *)
(* there are (Answer).  The content is in the arithmetic: fees and curve   *)
(* round to the greatest amount kept or the least amount asked for         *)
(* (FeeLeavesMost, PreFeeLeast, BaseOutputLeast of CurveMathProofs.tla),   *)
(* and the one is at most, or at least, what undoes the other.             *)
(* Conversions multiply, divide and truncate three times (TruncatedThrice, *)
(* LostByTruncation): what is proved of them has the laws of the powers of *)
(* ten, which the provers do not know, as a hypothesis (PowersOfTen).      *)
(***************************************************************************)
EXTENDS KTokenFee, CurveMathProofs

BaseInputAnswer(amount, x, y, rates, on) ==
    [kind |-> "base_input", amount |-> amount, x |-> x, y |-> y, rates |-> rates,
     on |-> on, result |-> swap_base_input(amount, x, y, rates, on)]

BaseOutputAnswer(amount, x, y, rates, on) ==
    [kind |-> "base_output", amount |-> amount, x |-> x, y |-> y, rates |-> rates,
     on |-> on, result |-> swap_base_output(amount, x, y, rates, on)]

SharesAnswer(lp, supply, reserve) ==
    [kind |-> "shares", lp |-> lp, supply |-> supply, reserve |-> reserve,
     ceiling |-> lp_to_trading_ceiling(lp, supply, reserve),
     floor |-> lp_to_trading_floor(lp, supply, reserve)]

TransferAnswer(amount, fee) ==
    [kind |-> "transfer", amount |-> amount, fee |-> fee,
     inverse |-> get_transfer_inverse_fee(fee, amount),
     matches |-> inverse_fee_matches(fee, amount)]

\* What a behaviour may have answered so far.
Answer ==
    /\ quote.kind \in {"none", "base_input", "base_output", "shares", "transfer", "convert"}
    /\ quote.kind = "none" => quote = NoQuote
    /\ quote.kind = "base_input" =>
           \E amount \in QuoteAmounts, x, y \in ReserveAmounts, rates \in Rates, on \in BOOLEAN :
               quote = BaseInputAnswer(amount, x, y, rates, on)
    /\ quote.kind = "base_output" =>
           \E amount \in QuoteAmounts, x, y \in ReserveAmounts, rates \in Rates, on \in BOOLEAN :
               quote = BaseOutputAnswer(amount, x, y, rates, on)
    /\ quote.kind = "shares" =>
           \E lp \in QuoteAmounts, supply, reserve \in ReserveAmounts :
               quote = SharesAnswer(lp, supply, reserve)
    /\ quote.kind = "transfer" =>
           \E amount \in QuoteAmounts, fee \in TransferFees :
               quote = TransferAnswer(amount, fee)

\* The answer to each call is of its kind.
LEMMA QuoteAnswers == Answer /\ [KNext]_quote => Answer'
<1> SUFFICES ASSUME Answer, [KNext]_quote PROVE Answer'
  OBVIOUS
<1>1. ASSUME NEW amount \in QuoteAmounts, NEW x \in ReserveAmounts, NEW y \in ReserveAmounts,
             NEW rates \in Rates, NEW on \in BOOLEAN,
             QuoteBaseInput(amount, x, y, rates, on)
      PROVE  Answer'
  <2>1. quote' = BaseInputAnswer(amount, x, y, rates, on)
    BY <1>1 DEF QuoteBaseInput, BaseInputAnswer
  <2>2. quote'.kind = "base_input"
    BY <2>1 DEF BaseInputAnswer
  <2>3. QED
    BY <2>1, <2>2 DEF Answer
<1>2. ASSUME NEW amount \in QuoteAmounts, NEW x \in ReserveAmounts, NEW y \in ReserveAmounts,
             NEW rates \in Rates, NEW on \in BOOLEAN,
             QuoteBaseOutput(amount, x, y, rates, on)
      PROVE  Answer'
  <2>1. quote' = BaseOutputAnswer(amount, x, y, rates, on)
    BY <1>2 DEF QuoteBaseOutput, BaseOutputAnswer
  <2>2. quote'.kind = "base_output"
    BY <2>1 DEF BaseOutputAnswer
  <2>3. QED
    BY <2>1, <2>2 DEF Answer
<1>3. ASSUME NEW lp \in QuoteAmounts, NEW supply \in ReserveAmounts,
             NEW reserve \in ReserveAmounts, QuoteShares(lp, supply, reserve)
      PROVE  Answer'
  <2>1. quote' = SharesAnswer(lp, supply, reserve)
    BY <1>3 DEF QuoteShares, SharesAnswer
  <2>2. quote'.kind = "shares"
    BY <2>1 DEF SharesAnswer
  <2>3. QED
    BY <2>1, <2>2 DEF Answer
<1>4. ASSUME NEW amount \in QuoteAmounts, NEW points \in 0 .. MAX_FEE_BASIS_POINTS,
             NEW cap \in CapAmounts,
             QuoteTransfer(amount, [transfer_fee_basis_points |-> points, maximum_fee |-> cap])
      PROVE  Answer'
  <2> DEFINE fee == [transfer_fee_basis_points |-> points, maximum_fee |-> cap]
  <2>1. fee \in TransferFees
    BY QuoteAssumption DEF TransferFees
  <2>2. quote' = TransferAnswer(amount, fee)
    BY <1>4 DEF QuoteTransfer, TransferAnswer
  <2>3. quote'.kind = "transfer"
    BY <2>2 DEF TransferAnswer
  <2> HIDE DEF fee
  <2>4. QED
    BY <2>1, <2>2, <2>3 DEF Answer
<1>5. ASSUME NEW amount, NEW part, NEW feed_a, NEW feed_b, NEW decimals_a, NEW decimals_b,
             Convert(amount, part, feed_a, feed_b, decimals_a, decimals_b)
      PROVE  Answer'
  <2>1. quote'.kind = "convert"
    BY <1>5 DEF Convert
  <2>2. QED
    BY <2>1 DEF Answer
<1>6. CASE UNCHANGED quote
  BY <1>6 DEF Answer
<1>7. QED
  BY <1>1, <1>2, <1>3, <1>4, <1>5, <1>6 DEF KNext, Next

\* Every reachable quote is an answer.
LEMMA EveryQuoteAnswers == KSpec => []Answer
<1>1. Init => Answer
  BY DEF Init, NoQuote, Answer
<1>2. QED
  BY <1>1, QuoteAnswers, PTL DEF KSpec

\* The amounts a quote is asked for, and the rates of a config.
LEMMA QuoteRanges ==
    /\ \A amount \in QuoteAmounts : amount \in Nat \ {0}
    /\ \A x \in ReserveAmounts : x \in Nat \ {0}
    /\ \A rates \in Rates :
           /\ rates \in RateRecords /\ rates_within_denominator(rates)
           /\ rates.trade \in Nat /\ rates.creator \in Nat
           /\ rates.trade + rates.creator <= DEN
<1>1. /\ \A amount \in QuoteAmounts : amount \in Nat \ {0}
      /\ \A x \in ReserveAmounts : x \in Nat \ {0}
  BY QuoteAssumption
<1>2. /\ TradeRates \subseteq Nat /\ CreatorRates \subseteq Nat /\ ShareRates \subseteq Nat
  BY QuoteAssumption, DenPositive
<1>3. ASSUME NEW rates \in Rates
      PROVE  /\ rates \in RateRecords /\ rates_within_denominator(rates)
             /\ rates.trade \in Nat /\ rates.creator \in Nat
             /\ rates.trade + rates.creator <= DEN
  BY <1>2, <1>3 DEF Rates, RateRecords, rates_within_denominator
<1>4. QED
  BY <1>1, <1>3

-----------------------------------------------------------------------------
(* The properties of one answer. *)

\* A swap's answer is sound in both directions.
LEMMA AnswersSound == Answer => QuotesSound
<1> SUFFICES ASSUME Answer, Answered("base_input") \/ Answered("base_output")
             PROVE  sound_result(quote.result, quote.x, quote.y, quote.on)
  BY DEF QuotesSound
<1>1. CASE Answered("base_input")
  <2>1. PICK amount \in QuoteAmounts, x \in ReserveAmounts, y \in ReserveAmounts,
             rates \in Rates, on \in BOOLEAN :
               quote = BaseInputAnswer(amount, x, y, rates, on)
    BY <1>1 DEF Answer, Answered
  <2>2. /\ quote.result = swap_base_input(amount, x, y, rates, on) /\ quote.result.ok
        /\ quote.x = x /\ quote.y = y /\ quote.on = on
    BY <1>1, <2>1 DEF BaseInputAnswer, Answered
  <2>3. QED
    BY <2>2, QuoteRanges, SwapBaseInputSound
<1>2. CASE Answered("base_output")
  <2>1. PICK amount \in QuoteAmounts, x \in ReserveAmounts, y \in ReserveAmounts,
             rates \in Rates, on \in BOOLEAN :
               quote = BaseOutputAnswer(amount, x, y, rates, on)
    BY <1>2 DEF Answer, Answered
  <2>2. /\ quote.result = swap_base_output(amount, x, y, rates, on) /\ quote.result.ok
        /\ quote.x = x /\ quote.y = y /\ quote.on = on
    BY <1>2, <2>1 DEF BaseOutputAnswer, Answered
  <2>3. QED
    BY <2>2, QuoteRanges, SwapBaseOutputSound
<1>3. QED
  BY <1>1, <1>2

\* The parts of an exact input's result.
LEMMA BaseInputParts ==
    ASSUME NEW input \in Nat, NEW x \in Nat \ {0}, NEW y \in Nat \ {0},
           NEW rates \in Rates, NEW on \in BOOLEAN,
           NEW result, result = swap_base_input(input, x, y, rates, on), result.ok,
           NEW less, less = input_less_fees(input, rates, on),
           NEW out, out = swap_base_input_without_fees(less, x, y)
    PROVE  /\ less \in Nat
           /\ result.input_amount = input
           /\ result.new_input_vault_amount = x + less
           /\ result.new_output_vault_amount = y - out
           /\ result.output_amount
                  = IF on THEN out ELSE out - ceil_div(out, rates.creator, DEN)
<1>1. /\ rates.trade \in Nat /\ rates.creator \in Nat
  BY QuoteRanges
<1>2. /\ trading_fee(input, rates.trade) \in Nat
      /\ creator_fee(input, rates.creator) \in Nat
  BY <1>1, CeilDivBounds, DenPositive DEF trading_fee, creator_fee
<1>3. less \in Int
  BY <1>2 DEF input_less_fees
<1>4. ~(less < 0)
  BY DEF swap_base_input, None
<1>5. /\ result.input_amount = input
      /\ result.new_input_vault_amount = x + less
      /\ result.new_output_vault_amount = y - out
      /\ result.output_amount
             = IF on THEN out ELSE out - ceil_div(out, rates.creator, DEN)
  BY DEF swap_base_input, None, creator_fee
<1>6. QED
  BY <1>3, <1>4, <1>5

\* The parts of an exact output's.
LEMMA BaseOutputParts ==
    ASSUME NEW output \in Nat, NEW x \in Nat \ {0}, NEW y \in Nat \ {0},
           NEW rates \in Rates, NEW on \in BOOLEAN,
           NEW result, result = swap_base_output(output, x, y, rates, on), result.ok,
           NEW actual, actual = IF on THEN output
                                ELSE calculate_pre_fee_amount(output, rates.creator),
           NEW swapped, swapped = swap_base_output_without_fees(actual, x, y),
           NEW rate, rate = input_fee_rate(rates, on)
    PROVE  /\ actual \in Nat /\ actual >= output /\ actual < y
           /\ on \/ rates.creator < DEN
           /\ on => rates.trade + rates.creator # 0
           /\ swapped \in Nat
           /\ rate \in Nat /\ rate < DEN
           /\ result.new_input_vault_amount = x + swapped
           /\ result.new_output_vault_amount = y - actual
           /\ result.input_amount = calculate_pre_fee_amount(swapped, rate)
           /\ result.output_amount = output
<1>1. /\ rates.trade \in Nat /\ rates.creator \in Nat
  BY QuoteRanges
<1>2. swap_base_output_defined(output, y, rates, on)
  BY DEF swap_base_output, None
<1>3. /\ actual < y
      /\ on \/ rates.creator < DEN
      /\ on => rates.trade + rates.creator # 0
      /\ rate < DEN
  BY <1>2 DEF swap_base_output_defined
<1>4. actual \in Nat /\ actual >= output
  BY <1>1, <1>3, PreFeeNotLess
<1>5. swapped \in Nat
  BY <1>3, <1>4, BaseOutputLeast
<1>6. rate \in Nat
  BY <1>1 DEF input_fee_rate
<1>7. /\ result.new_input_vault_amount = x + swapped
      /\ result.new_output_vault_amount = y - actual
      /\ result.input_amount = calculate_pre_fee_amount(swapped, rate)
      /\ result.output_amount = output
  BY <1>2 DEF swap_base_output
<1>8. QED
  BY <1>3, <1>4, <1>5, <1>6, <1>7

\* An exact input leaves the output side the least that keeps the product.
LEMMA AnswersBuyMost == Answer => ExactInputBuysMost
<1> SUFFICES ASSUME Answer, Answered("base_input")
             PROVE  quote.result.new_output_vault_amount =
                        Min({left \in 0 .. quote.y :
                                 quote.result.new_input_vault_amount * left
                                     >= quote.x * quote.y})
  BY DEF ExactInputBuysMost
<1>1. PICK amount \in QuoteAmounts, x \in ReserveAmounts, y \in ReserveAmounts,
           rates \in Rates, on \in BOOLEAN :
             quote = BaseInputAnswer(amount, x, y, rates, on)
  BY DEF Answer, Answered
<1> DEFINE less == input_less_fees(amount, rates, on)
           out == swap_base_input_without_fees(less, x, y)
           keeping == {left \in 0 .. y : (x + less) * left >= x * y}
<1>2. /\ quote.result = swap_base_input(amount, x, y, rates, on) /\ quote.result.ok
      /\ quote.x = x /\ quote.y = y
  BY <1>1 DEF BaseInputAnswer, Answered
<1>3. amount \in Nat /\ x \in Nat \ {0} /\ y \in Nat \ {0}
  BY QuoteRanges
<1>4. /\ less \in Nat
      /\ quote.result.new_input_vault_amount = x + less
      /\ quote.result.new_output_vault_amount = y - out
  BY <1>2, <1>3, BaseInputParts
<1> HIDE DEF less
<1>5. /\ out \in Nat /\ out < y
      /\ (x + less) * (y - out) >= x * y
  BY <1>3, <1>4, BaseInputCurve
<1>6. \A left \in 0 .. y : (x + less) * left >= x * y => y - out <= left
  BY <1>3, <1>4, BaseInputLeavesLeast
<1> HIDE DEF out
<1>7. y - out \in 0 .. y
  BY <1>3, <1>5
<1>8. y - out \in keeping /\ keeping \subseteq 0 .. y /\ \A left \in keeping : y - out <= left
  BY <1>5, <1>6, <1>7
<1> HIDE DEF keeping
<1>9. \A least \in keeping : (\A left \in keeping : least <= left) => least = y - out
  <2>1. \A a, b \in 0 .. y : a <= b /\ b <= a => a = b
    OBVIOUS
  <2>2. QED
    BY <1>7, <1>8, <2>1, Zenon
<1>10. Min(keeping) = y - out
  BY <1>8, <1>9, Zenon DEF Min
<1>11. QED
  BY <1>2, <1>4, <1>10 DEF keeping

\* An exact output asks for the least input, on the curve and before the fees.
LEMMA AnswersCostLeast == Answer => ExactOutputCostsLeast
<1> SUFFICES ASSUME Answer, Answered("base_output"),
                    NEW swapped, swapped = quote.result.new_input_vault_amount - quote.x,
                    NEW rate, rate = input_fee_rate(quote.rates, quote.on)
             PROVE  /\ \A less \in 0 .. swapped - 1 :
                           (quote.x + less) * quote.result.new_output_vault_amount
                               < quote.x * quote.y
                    /\ \A less \in 0 .. quote.result.input_amount - 1 :
                           less * (DEN - rate) < swapped * DEN
  BY DEF ExactOutputCostsLeast
<1>1. PICK amount \in QuoteAmounts, x \in ReserveAmounts, y \in ReserveAmounts,
           rates \in Rates, on \in BOOLEAN :
             quote = BaseOutputAnswer(amount, x, y, rates, on)
  BY DEF Answer, Answered
<1> DEFINE actual == IF on THEN amount ELSE calculate_pre_fee_amount(amount, rates.creator)
           price == swap_base_output_without_fees(actual, x, y)
           input == calculate_pre_fee_amount(price, rate)
<1>2. /\ quote.result = swap_base_output(amount, x, y, rates, on) /\ quote.result.ok
      /\ quote.x = x /\ quote.y = y /\ rate = input_fee_rate(rates, on)
  BY <1>1 DEF BaseOutputAnswer, Answered
<1>3. amount \in Nat /\ x \in Nat \ {0} /\ y \in Nat \ {0}
  BY QuoteRanges
<1>4. /\ actual \in Nat /\ actual < y /\ price \in Nat
      /\ rate \in Nat /\ rate < DEN
      /\ quote.result.new_input_vault_amount = x + price
      /\ quote.result.new_output_vault_amount = y - actual
      /\ quote.result.input_amount = input
  BY <1>2, <1>3, BaseOutputParts
<1> HIDE DEF actual
<1>5. \A less \in 0 .. price - 1 : (x + less) * (y - actual) < x * y
  BY <1>3, <1>4, BaseOutputLeast
<1> HIDE DEF price
<1>6. swapped = price
  BY <1>2, <1>3, <1>4
<1>7. /\ input \in Nat
      /\ \A less \in Nat : price * DEN <= less * (DEN - rate) => input <= less
  BY <1>4, PreFeeLeast
<1> HIDE DEF input
<1>8. ASSUME NEW less \in 0 .. input - 1
      PROVE  less * (DEN - rate) < price * DEN
  <2>1. less \in Nat /\ ~(input <= less)
    BY <1>7, <1>8
  <2>2. less * (DEN - rate) \in Int /\ price * DEN \in Int
    BY <1>4, <2>1, DenPositive
  <2>3. QED
    BY <1>7, <2>1, <2>2
<1>9. QED
  BY <1>2, <1>4, <1>5, <1>6, <1>8

\* A share is priced up for who buys it and down for who redeems it.
LEMMA AnswersRound == Answer => SharesRoundForThePool
<1> SUFFICES ASSUME Answer, quote.kind = "shares"
             PROVE  /\ quote.floor * quote.supply <= quote.lp * quote.reserve
                    /\ quote.lp * quote.reserve < (quote.floor + 1) * quote.supply
                    /\ quote.ceiling > 0 =>
                           quote.ceiling * quote.supply >= quote.lp * quote.reserve
                    /\ quote.ceiling \in quote.floor .. quote.floor + 1
  BY DEF SharesRoundForThePool
<1>1. PICK lp \in QuoteAmounts, supply \in ReserveAmounts, reserve \in ReserveAmounts :
             quote = SharesAnswer(lp, supply, reserve)
  BY DEF Answer
<1>2. PICK floor : floor = lp_to_trading_floor(lp, supply, reserve)
  OBVIOUS
<1>3. PICK ceiling : ceiling = lp_to_trading_ceiling(lp, supply, reserve)
  OBVIOUS
<1>4. /\ quote.lp = lp /\ quote.supply = supply /\ quote.reserve = reserve
      /\ quote.floor = floor /\ quote.ceiling = ceiling
  BY <1>1, <1>2, <1>3 DEF SharesAnswer
<1>5. lp \in Nat \ {0} /\ supply \in Nat \ {0} /\ reserve \in Nat \ {0}
  BY QuoteRanges
<1>6. /\ floor \in Nat
      /\ supply * floor <= lp * reserve
      /\ lp * reserve < supply * floor + supply
  BY <1>2, <1>5, FloorDivBounds DEF lp_to_trading_floor
<1>7. supply * floor = floor * supply /\ (floor + 1) * supply = floor * supply + supply
  BY <1>5, <1>6
<1>8. ceiling = floor \/ ceiling = floor + 1
  BY <1>2, <1>3 DEF lp_to_trading_floor, lp_to_trading_ceiling
<1>9. ceiling > 0 => ceiling * supply >= reserve * lp
  BY <1>3, <1>5, CeilingShareLeast
<1>10. reserve * lp = lp * reserve
  BY <1>5
<1>11. QED
  BY <1>4, <1>6, <1>7, <1>8, <1>9, <1>10

\* What is sent on top is what is withheld.
LEMMA AnswersArrive == Answer => InverseFeeArrivesExactly
<1> SUFFICES ASSUME Answer, quote.kind = "transfer", quote.matches,
                    NEW sent, sent = quote.amount + quote.inverse
             PROVE  sent - get_transfer_fee(quote.fee, sent) = quote.amount
  BY DEF InverseFeeArrivesExactly
<1>1. PICK amount \in QuoteAmounts, fee \in TransferFees :
             quote = TransferAnswer(amount, fee)
  BY DEF Answer
<1>2. /\ quote.amount = amount /\ quote.fee = fee
      /\ quote.inverse = get_transfer_inverse_fee(fee, amount)
      /\ inverse_fee_matches(fee, amount)
  BY <1>1 DEF TransferAnswer
<1>3. amount \in Nat
  BY QuoteRanges
<1>4. QED
  BY <1>2, <1>3, InverseFeeExact DEF get_transfer_fee

-----------------------------------------------------------------------------
(* The two directions. *)

\* The fees of an exact input leave no more than the rate of the other
\* direction grosses up again.
LEMMA InputCoversGrossUp ==
    ASSUME NEW input \in Nat, NEW rates \in Rates, NEW on \in BOOLEAN,
           NEW less \in Nat, less = input_less_fees(input, rates, on),
           NEW swapped \in Nat, swapped <= less,
           NEW rate, rate = input_fee_rate(rates, on)
    PROVE  swapped * DEN <= input * (DEN - rate)
<1> DEFINE trade == ceil_div(input, rates.trade, DEN)
           creator == ceil_div(input, rates.creator, DEN)
<1>1. DEN \in Nat \ {0} /\ rates.trade \in Nat /\ rates.creator \in Nat
  BY QuoteRanges, DenPositive
<1>2. /\ trade \in Nat /\ DEN * trade >= input * rates.trade
      /\ creator \in Nat /\ DEN * creator >= input * rates.creator
  BY <1>1, CeilDivBounds
<1>3. less = input - trade - (IF on THEN creator ELSE 0)
  BY DEF input_less_fees, trading_fee, creator_fee
<1> HIDE DEF trade, creator
<1>4. swapped * DEN <= less * DEN
  BY <1>1, MulMonotone
<1>5. /\ input * rates.trade \in Nat /\ input * rates.creator \in Nat
      /\ DEN * trade \in Nat /\ DEN * creator \in Nat /\ input * DEN \in Nat
      /\ swapped * DEN \in Nat
  BY <1>1, <1>2
<1>6. CASE on
  <2>1. rate = rates.trade + rates.creator
    BY <1>6 DEF input_fee_rate
  <2>2. input * (DEN - rate) = input * DEN - input * rates.trade - input * rates.creator
    BY <1>1, <2>1
  <2>3. less = input - trade - creator
    BY <1>3, <1>6
  <2>4. less * DEN = input * DEN - DEN * trade - DEN * creator
    BY <1>1, <1>2, <2>3
  <2>5. QED
    BY <1>2, <1>4, <1>5, <2>2, <2>4
<1>7. CASE ~on
  <2>1. rate = rates.trade
    BY <1>1, <1>7 DEF input_fee_rate
  <2>2. input * (DEN - rate) = input * DEN - input * rates.trade
    BY <1>1, <2>1
  <2>3. less = input - trade
    BY <1>2, <1>3, <1>7
  <2>4. less * DEN = input * DEN - DEN * trade
    BY <1>1, <1>2, <2>3
  <2>5. QED
    BY <1>2, <1>4, <1>5, <2>2, <2>4
<1>8. QED
  BY <1>6, <1>7

\* What an exact input bought can be asked for at no higher price.
LEMMA BoughtCanBeAskedFor ==
    ASSUME NEW amount \in Nat, NEW x \in Nat \ {0}, NEW y \in Nat \ {0},
           NEW rates \in Rates, NEW on \in BOOLEAN,
           NEW result, result = swap_base_input(amount, x, y, rates, on), result.ok,
           NEW back, back = swap_base_output(result.output_amount, x, y, rates, on), back.ok,
           result.output_amount \in Nat
    PROVE  back.input_amount <= amount
<1> DEFINE less == input_less_fees(amount, rates, on)
           out == swap_base_input_without_fees(less, x, y)
           output == result.output_amount
           actual == IF on THEN output ELSE calculate_pre_fee_amount(output, rates.creator)
           swapped == swap_base_output_without_fees(actual, x, y)
           rate == input_fee_rate(rates, on)
<1>1. /\ less \in Nat
      /\ output = IF on THEN out ELSE out - ceil_div(out, rates.creator, DEN)
  BY BaseInputParts
<1>2. /\ actual \in Nat
      /\ on \/ rates.creator < DEN
      /\ swapped \in Nat
      /\ rate \in Nat /\ rate < DEN
      /\ back.input_amount = calculate_pre_fee_amount(swapped, rate)
  BY BaseOutputParts
<1>3. out \in Nat /\ out < y
  BY <1>1, BaseInputCurve
<1> HIDE DEF less, out
<1>4. actual <= out
  <2>1. CASE on
    BY <1>1, <1>3, <2>1
  <2>2. CASE ~on
    <3>1. rates.creator \in Nat /\ rates.creator < DEN /\ rates.creator <= DEN
      BY <1>2, <2>2, QuoteRanges, DenPositive
    <3>2. output = out - ceil_div(out, rates.creator, DEN)
      BY <1>1, <2>2
    <3>3. output \in Nat /\ output * DEN <= out * (DEN - rates.creator)
      BY <1>3, <3>1, <3>2, FeeLeavesMost
    <3>4. actual = calculate_pre_fee_amount(output, rates.creator)
      BY <2>2
    <3> HIDE DEF actual, output
    <3>5. QED
      BY <1>3, <3>1, <3>3, <3>4, PreFeeLeast
  <2>3. QED
    BY <2>1, <2>2
<1> HIDE DEF output, actual
<1>5. swapped <= less
  BY <1>1, <1>2, <1>3, <1>4, BoughtCostsNoMore DEF out
<1> HIDE DEF swapped
<1>6. swapped * DEN <= amount * (DEN - rate)
  BY <1>1, <1>2, <1>5, InputCoversGrossUp DEF less
<1> HIDE DEF rate
<1>7. QED
  BY <1>2, <1>6, PreFeeLeast

\* And it can be asked for, unless split_creator_fee has no fee to split: the
\* fees left something to swap, so no rate is the whole, and the output with the
\* creator fee on top is no more than what the curve gave.
LEMMA BoughtIsAnswered ==
    ASSUME NEW amount \in Nat, NEW x \in Nat \ {0}, NEW y \in Nat \ {0},
           NEW rates \in Rates, NEW on \in BOOLEAN,
           NEW result, result = swap_base_input(amount, x, y, rates, on), result.ok,
           NEW back, back = swap_base_output(result.output_amount, x, y, rates, on),
           result.output_amount \in Nat \ {0}
    PROVE  back.ok <=> ~(on /\ rates.trade + rates.creator = 0)
<1> DEFINE less == input_less_fees(amount, rates, on)
           out == swap_base_input_without_fees(less, x, y)
           output == result.output_amount
           actual == IF on THEN output ELSE calculate_pre_fee_amount(output, rates.creator)
           rate == input_fee_rate(rates, on)
<1>1. /\ less \in Nat
      /\ output = IF on THEN out ELSE out - ceil_div(out, rates.creator, DEN)
  BY BaseInputParts
<1>2. /\ DEN \in Nat \ {0} /\ rates.trade \in Nat /\ rates.creator \in Nat
      /\ rates.creator <= DEN
      /\ rate \in Nat /\ output \in Nat \ {0}
  BY QuoteRanges, DenPositive DEF input_fee_rate
<1>3. out \in Nat /\ out < y
  BY <1>1, BaseInputCurve
<1>4. (x + less) * out <= less * y
  BY <1>1, FloorDivBounds DEF swap_base_input_without_fees
<1> HIDE DEF less, out, output, rate
<1>5. ~on => rates.creator < DEN /\ actual \in Nat /\ actual <= out
  <2> SUFFICES ASSUME ~on PROVE rates.creator < DEN /\ actual \in Nat /\ actual <= out
    OBVIOUS
  <2>1. output * DEN <= out * (DEN - rates.creator)
    BY <1>1, <1>2, <1>3, FeeLeavesMost
  <2>2. output * DEN > 0
    BY <1>2
  <2>3. rates.creator < DEN
    BY <1>2, <1>3, <2>1, <2>2
  <2>4. calculate_pre_fee_amount(output, rates.creator) \in Nat
        /\ calculate_pre_fee_amount(output, rates.creator) <= out
    BY <1>2, <1>3, <2>1, <2>3, PreFeeLeast
  <2>5. QED
    BY <2>3, <2>4
<1>6. actual < y
  <2>1. CASE on
    BY <1>1, <1>3, <2>1
  <2>2. CASE ~on
    BY <1>3, <1>5, <2>2
  <2>3. QED
    BY <2>1, <2>2
<1>7. out > 0
  <2>1. CASE on
    BY <1>1, <1>2, <2>1
  <2>2. CASE ~on
    <3>1. ceil_div(out, rates.creator, DEN) \in Nat
      BY <1>2, <1>3, CeilDivBounds
    <3>2. QED
      BY <1>1, <1>2, <1>3, <2>2, <3>1
  <2>3. QED
    BY <2>1, <2>2
<1>8. less > 0
  <2>1. \A a \in Nat \ {0}, b \in Nat \ {0} : a * b > 0
    OBVIOUS
  <2>2. (x + less) * out > 0
    BY <1>1, <1>3, <1>7, <2>1
  <2>3. less = 0 => less * y = 0
    OBVIOUS
  <2>4. (x + less) * out \in Int /\ less * y \in Int
    BY <1>1, <1>3
  <2>5. QED
    BY <1>1, <1>4, <2>2, <2>3, <2>4
<1>9. rate < DEN
  <2>1. less * DEN <= amount * (DEN - rate)
    BY <1>1, InputCoversGrossUp DEF less, rate
  <2>2. less * DEN \in Nat \ {0}
    BY <1>1, <1>2, <1>8
  <2>3. \A a \in Nat, d \in Int : a * d \in Int /\ (a * d > 0 => d > 0)
    <3>1. \A a \in Nat, c \in Nat : a * c \in Nat /\ a * (-c) = -(a * c)
      OBVIOUS
    <3>2. \A d \in Int : d > 0 \/ (-d \in Nat /\ d = -(-d))
      OBVIOUS
    <3>3. QED
      BY <3>1, <3>2
  <2>4. DEN - rate \in Int
    BY <1>2
  <2>5. amount * (DEN - rate) \in Int /\ amount * (DEN - rate) > 0
    BY <2>1, <2>2, <2>3, <2>4
  <2>6. DEN - rate > 0
    BY <2>3, <2>4, <2>5, Zenon
  <2>7. QED
    BY <1>2, <2>6
<1>10. swap_base_output_defined(output, y, rates, on)
           <=> ~(on /\ rates.trade + rates.creator = 0)
  BY <1>5, <1>6, <1>9 DEF swap_base_output_defined, rate
<1>11. back.ok <=> swap_base_output_defined(output, y, rates, on)
  BY DEF swap_base_output, None, output
<1>12. QED
  BY <1>10, <1>11

\* The fees of a grossed-up input leave what it was grossed up from, one token
\* less when two fees are rounded.
LEMMA GrossUpLeaves ==
    ASSUME NEW swapped \in Nat, NEW rates \in Rates, NEW on \in BOOLEAN,
           NEW rate, rate = input_fee_rate(rates, on), rate < DEN,
           NEW input, input = calculate_pre_fee_amount(swapped, rate),
           NEW less, less = input_less_fees(input, rates, on)
    PROVE  /\ input \in Nat /\ less \in Int
           /\ less >= swapped - 1
           /\ ~(on /\ rates.creator > 0 /\ rates.trade > 0) => less >= swapped
<1> DEFINE trade == ceil_div(input, rates.trade, DEN)
           creator == ceil_div(input, rates.creator, DEN)
<1>1. /\ DEN \in Nat \ {0} /\ rates.trade \in Nat /\ rates.creator \in Nat
      /\ rate = rates.trade + (IF on THEN rates.creator ELSE 0)
      /\ rate \in Nat /\ rate <= DEN
  BY QuoteRanges, DenPositive DEF input_fee_rate
<1>2. input \in Nat /\ swapped * DEN <= input * (DEN - rate)
  BY <1>1, PreFeeLeast
<1>3. /\ trade \in Nat /\ DEN * trade < input * rates.trade + DEN
      /\ creator \in Nat /\ DEN * creator < input * rates.creator + DEN
  BY <1>1, <1>2, CeilDivBounds
<1>4. /\ rates.trade = 0 => trade = 0
      /\ rates.creator = 0 => creator = 0
  <2>1. \A fee \in Nat : DEN * fee < input * 0 + DEN => fee = 0
    <3>1. SUFFICES ASSUME NEW fee \in Nat, DEN * fee < input * 0 + DEN
                   PROVE  fee = 0
      OBVIOUS
    <3>2. fee * DEN < 1 * DEN
      BY <1>1, <1>2, <3>1
    <3>3. fee < 1
      BY <1>1, <3>2, MulCancel
    <3>4. QED
      BY <3>3
  <2>2. QED
    BY <1>3, <2>1
<1>5. less = input - trade - (IF on THEN creator ELSE 0)
  BY DEF input_less_fees, trading_fee, creator_fee
<1>6. less \in Int
  BY <1>2, <1>3, <1>5
<1>7. ASSUME ~(on /\ rates.creator > 0 /\ rates.trade > 0)
      PROVE  less >= swapped
  <2>1. less = input - ceil_div(input, rate, DEN)
    <3>1. CASE ~on \/ rates.creator = 0
      <4>1. rate = rates.trade
        BY <1>1, <3>1
      <4>2. (IF on THEN creator ELSE 0) = 0
        BY <1>4, <3>1, Zenon
      <4>3. input \in Int /\ trade \in Int
        BY <1>2, <1>3
      <4> HIDE DEF trade, creator
      <4>4. less = input - trade
        BY <1>5, <4>2, <4>3
      <4>5. QED
        BY <4>1, <4>4 DEF trade
    <3>2. CASE on /\ rates.trade = 0
      <4>1. rate = rates.creator
        BY <1>1, <3>2
      <4>2. trade = 0 /\ less = input - trade - creator
        BY <1>4, <1>5, <3>2
      <4>3. input \in Int /\ creator \in Int
        BY <1>2, <1>3
      <4> HIDE DEF trade, creator
      <4>4. less = input - creator
        BY <4>2, <4>3
      <4>5. QED
        BY <4>1, <4>4 DEF creator
    <3>3. QED
      BY <1>1, <1>7, <3>1, <3>2
  <2>2. QED
    BY <1>1, <1>2, <2>1, FeeLeavesMost
<1> HIDE DEF trade, creator
<1>8. less >= swapped - 1
  <2>1. CASE ~(on /\ rates.creator > 0 /\ rates.trade > 0)
    BY <1>6, <1>7, <2>1
  <2>2. CASE on /\ rates.creator > 0 /\ rates.trade > 0
    <3>1. /\ rate = rates.trade + rates.creator
          /\ less = input - trade - creator
      BY <1>1, <1>5, <2>2
    <3>2. /\ input * (DEN - rate)
                 = input * DEN - input * rates.trade - input * rates.creator
          /\ (less + 2) * DEN = input * DEN - DEN * trade - DEN * creator + DEN + DEN
      BY <1>1, <1>2, <1>3, <3>1
    <3>3. /\ input * rates.trade \in Nat /\ input * rates.creator \in Nat
          /\ DEN * trade \in Nat /\ DEN * creator \in Nat /\ input * DEN \in Nat
          /\ swapped * DEN \in Nat
      BY <1>1, <1>2, <1>3
    <3>4. swapped * DEN < (less + 2) * DEN
      BY <1>1, <1>2, <1>3, <3>2, <3>3
    <3>5. swapped < less + 2
      BY <1>1, <1>6, <3>4, MulCancel
    <3>6. QED
      BY <1>6, <3>5
  <2>3. QED
    BY <2>1, <2>2
<1>9. QED
  BY <1>2, <1>6, <1>7, <1>8

\* The price of an exact output, paid as an exact input, is accepted; it brings
\* the output, or moves the curve by one token of its input less.
LEMMA PriceCanBePaid ==
    ASSUME NEW amount \in Nat \ {0}, NEW x \in Nat \ {0}, NEW y \in Nat \ {0},
           NEW rates \in Rates, NEW on \in BOOLEAN,
           NEW result, result = swap_base_output(amount, x, y, rates, on), result.ok,
           NEW again, again = swap_base_input(result.input_amount, x, y, rates, on)
    PROVE  /\ again.ok
           /\ IF on /\ rates.creator > 0 /\ rates.trade > 0
              THEN again.new_input_vault_amount >= result.new_input_vault_amount - 1
              ELSE again.output_amount >= amount
<1> DEFINE actual == IF on THEN amount ELSE calculate_pre_fee_amount(amount, rates.creator)
           swapped == swap_base_output_without_fees(actual, x, y)
           rate == input_fee_rate(rates, on)
           input == result.input_amount
           less == input_less_fees(input, rates, on)
           out == swap_base_input_without_fees(less, x, y)
           kept == out - ceil_div(out, rates.creator, DEN)
           output == IF on THEN out ELSE kept
           two_fees == on /\ rates.creator > 0 /\ rates.trade > 0
<1>1. /\ actual \in Nat /\ actual >= amount /\ actual < y
      /\ on \/ rates.creator < DEN
      /\ swapped \in Nat
      /\ rate \in Nat /\ rate < DEN
      /\ result.new_input_vault_amount = x + swapped
      /\ input = calculate_pre_fee_amount(swapped, rate)
  BY BaseOutputParts
<1>2. rates.creator \in Nat /\ rates.creator <= DEN /\ DEN \in Nat
  BY QuoteRanges, DenPositive
<1>3. swapped > 0
  <2>1. x * actual <= swapped * (y - actual)
    BY <1>1, BaseOutputLeast
  <2> HIDE DEF swapped, actual
  <2>2. x * actual > 0
    <3>1. actual \in Nat \ {0}
      BY <1>1
    <3>2. QED
      BY <3>1
  <2>3. swapped # 0
    BY <1>1, <2>1, <2>2
  <2>4. QED
    BY <1>1, <2>3
<1>4. /\ less \in Int
      /\ less >= swapped - 1
      /\ ~two_fees => less >= swapped
  BY <1>1, GrossUpLeaves
<1>5. less \in Nat
  <2> HIDE DEF less, swapped
  <2>1. QED
    BY <1>1, <1>3, <1>4
<1> HIDE DEF swapped, less
<1>6. out \in Nat /\ out < y
  BY <1>5, BaseInputCurve
<1> HIDE DEF out
<1>7. kept \in Nat /\ \A m \in Nat : m * DEN <= out * (DEN - rates.creator) => m <= kept
  BY <1>2, <1>6, FeeLeavesMost
<1>8. again = [ok |-> TRUE,
               new_input_vault_amount  |-> x + less,
               new_output_vault_amount |-> y - out,
               input_amount  |-> input,
               output_amount |-> output,
               trade_fee     |-> trading_fee(input, rates.trade),
               protocol_fee  |-> protocol_fee(trading_fee(input, rates.trade), rates.protocol),
               fund_fee      |-> fund_fee(trading_fee(input, rates.trade), rates.fund),
               creator_fee   |-> creator_fee(IF on THEN input ELSE out, rates.creator)]
  <2>1. ~(less < 0) /\ x + less # 0 /\ ~(output < 0)
    <3>1. output \in Nat
      BY <1>6, <1>7
    <3> HIDE DEF output
    <3>2. QED
      BY <1>5, <3>1
  <2>2. output = IF on THEN out ELSE out - creator_fee(out, rates.creator)
    BY DEF creator_fee
  <2>3. QED
    BY <2>1, <2>2 DEF swap_base_input, less, out
<1>9. CASE two_fees
  <2>1. again.ok /\ again.new_input_vault_amount = x + less
    BY <1>8
  <2>2. x + less >= x + swapped - 1
    BY <1>1, <1>4, <1>5
  <2>3. result.new_input_vault_amount = x + swapped
    BY <1>1
  <2> HIDE DEF actual, rate, input, kept, output
  <2>4. again.new_input_vault_amount >= result.new_input_vault_amount - 1
    BY <1>1, <1>5, <2>1, <2>2, <2>3
  <2>5. QED
    BY <1>9, <2>1, <2>4, Zenon
<1>10. CASE ~two_fees
  <2>1. less >= swapped
    BY <1>4, <1>10
  <2>2. actual <= out
    BY <1>1, <1>5, <2>1, PricePaidBuysNoLess DEF out, swapped
  <2>3. amount <= output
    <3>1. CASE on
      BY <1>1, <1>6, <2>2, <3>1
    <3>2. CASE ~on
      <4>1. rates.creator < DEN /\ actual = calculate_pre_fee_amount(amount, rates.creator)
        BY <1>1, <3>2
      <4>2. amount * DEN <= actual * (DEN - rates.creator)
        BY <1>2, <4>1, PreFeeLeast
      <4>3. actual * (DEN - rates.creator) <= out * (DEN - rates.creator)
        <5>1. DEN - rates.creator \in Nat
          BY <1>2
        <5> HIDE DEF actual
        <5>2. QED
          BY <1>1, <1>6, <2>2, <5>1, MulMonotone
      <4>4. amount * DEN <= out * (DEN - rates.creator)
        <5>1. /\ amount * DEN \in Int /\ actual * (DEN - rates.creator) \in Int
              /\ out * (DEN - rates.creator) \in Int
          <6> HIDE DEF actual
          <6>1. QED
            BY <1>1, <1>2, <1>6
        <5> HIDE DEF actual
        <5>2. QED
          BY <4>2, <4>3, <5>1
      <4>5. QED
        BY <1>7, <3>2, <4>4
    <3>3. QED
      BY <3>1, <3>2
  <2>4. QED
    BY <1>8, <1>10, <2>3
<1>11. QED
  BY <1>9, <1>10

\* The directions agree, up to the rounding of the fees.
LEMMA AnswersAgree == Answer => DirectionsAgree
<1> SUFFICES ASSUME Answer PROVE DirectionsAgree
  OBVIOUS
<1>1. ASSUME Answered("base_input"), quote.result.output_amount > 0,
             NEW back, back = swap_base_output(quote.result.output_amount, quote.x, quote.y,
                                               quote.rates, quote.on)
      PROVE  /\ back.ok <=> ~(quote.on /\ quote.rates.trade + quote.rates.creator = 0)
             /\ back.ok => back.input_amount <= quote.amount
  <2>1. PICK amount \in QuoteAmounts, x \in ReserveAmounts, y \in ReserveAmounts,
             rates \in Rates, on \in BOOLEAN :
               quote = BaseInputAnswer(amount, x, y, rates, on)
    BY <1>1 DEF Answer, Answered
  <2>2. /\ quote.result = swap_base_input(amount, x, y, rates, on) /\ quote.result.ok
        /\ quote.amount = amount /\ quote.x = x /\ quote.y = y
        /\ quote.rates = rates /\ quote.on = on
    BY <1>1, <2>1 DEF BaseInputAnswer, Answered
  <2>3. amount \in Nat /\ x \in Nat \ {0} /\ y \in Nat \ {0}
    BY QuoteRanges
  <2>4. quote.result.output_amount \in Nat \ {0}
    BY <1>1, AnswersSound DEF QuotesSound, sound_result
  <2>5. back.ok <=> ~(on /\ rates.trade + rates.creator = 0)
    BY <1>1, <2>2, <2>3, <2>4, BoughtIsAnswered
  <2>6. back.ok => back.input_amount <= quote.amount
    BY <1>1, <2>2, <2>3, <2>4, BoughtCanBeAskedFor
  <2>7. QED
    BY <2>2, <2>5, <2>6
<1>2. ASSUME Answered("base_output"),
             NEW again, again = swap_base_input(quote.result.input_amount, quote.x, quote.y,
                                                quote.rates, quote.on)
      PROVE  /\ again.ok
             /\ IF quote.on /\ quote.rates.creator > 0 /\ quote.rates.trade > 0
                THEN again.new_input_vault_amount >= quote.result.new_input_vault_amount - 1
                ELSE again.output_amount >= quote.amount
  <2>1. PICK amount \in QuoteAmounts, x \in ReserveAmounts, y \in ReserveAmounts,
             rates \in Rates, on \in BOOLEAN :
               quote = BaseOutputAnswer(amount, x, y, rates, on)
    BY <1>2 DEF Answer, Answered
  <2>2. /\ quote.result = swap_base_output(amount, x, y, rates, on) /\ quote.result.ok
        /\ quote.amount = amount /\ quote.x = x /\ quote.y = y
        /\ quote.rates = rates /\ quote.on = on
    BY <1>2, <2>1 DEF BaseOutputAnswer, Answered
  <2>3. amount \in Nat \ {0} /\ x \in Nat \ {0} /\ y \in Nat \ {0}
    BY QuoteRanges
  <2>4. QED
    BY <1>2, <2>2, <2>3, PriceCanBePaid
<1>3. QED
  BY <1>1, <1>2 DEF DirectionsAgree

-----------------------------------------------------------------------------

\* Both directions of a quote account for every token and never lower the
\* product (calculator.rs).
THEOREM EveryQuoteSound == KSpec => []QuotesSound
  BY EveryQuoteAnswers, AnswersSound, PTL

\* An exact input buys the most the curve allows (constant_product.rs:19).
THEOREM InputsBuyMost == KSpec => []ExactInputBuysMost
  BY EveryQuoteAnswers, AnswersBuyMost, PTL

\* An exact output asks for the least input, on the curve and before the fees
\* (constant_product.rs:32, fees.rs:74).
THEOREM OutputsCostLeast == KSpec => []ExactOutputCostsLeast
  BY EveryQuoteAnswers, AnswersCostLeast, PTL

\* What was bought can be asked for at no higher price, and the price asked for
\* buys it again, but for one token of the curve's input when two fees are
\* rounded (calculator.rs).
THEOREM QuoteDirectionsAgree == KSpec => []DirectionsAgree
  BY EveryQuoteAnswers, AnswersAgree, PTL

\* The two prices of a share enclose its value, at most one token apart
\* (constant_product.rs:50-90).
THEOREM SharesRounded == KSpec => []SharesRoundForThePool
  BY EveryQuoteAnswers, AnswersRound, PTL

\* An amount grossed up by the inverse fee arrives exactly (utils/token.rs:126).
THEOREM InverseFeeArrives == KSpec => []InverseFeeArrivesExactly
  BY EveryQuoteAnswers, AnswersArrive, PTL

-----------------------------------------------------------------------------
(* Conversions of fees into K tokens. *)

\* What the proofs need of 10^n with a variable n.  It holds by the definition
\* of ^, but the provers know only its values at numerals: it is a hypothesis
\* of what is proved.
PowersOfTen ==
    /\ \A n \in Nat : 10^n \in Nat \ {0}
    /\ \A m, n \in Nat : 10^(m + n) = 10^m * 10^n

\* A rescaling multiplies by up and divides by down, one of which is 1.
up(digits) == 10^(IF digits >= 0 THEN digits ELSE 0)

down(digits) == 10^(IF digits < 0 THEN -digits ELSE 0)

LEMMA ScaleFactors ==
    ASSUME PowersOfTen, NEW digits \in Int
    PROVE  /\ up(digits) \in Nat \ {0} /\ down(digits) \in Nat \ {0}
           /\ digits >= 0 => up(digits) = 10^digits /\ down(digits) = 1
           /\ digits < 0 => down(digits) = 10^(-digits) /\ up(digits) = 1
           /\ up(-digits) = down(digits) /\ down(-digits) = up(digits)
<1>1. 10^0 = 1
  OBVIOUS
<1>2. CASE digits > 0
  <2>1. 10^digits \in Nat \ {0} /\ -digits < 0 /\ -(-digits) = digits
    BY <1>2 DEF PowersOfTen
  <2>2. QED
    BY <1>1, <1>2, <2>1 DEF up, down
<1>3. CASE digits < 0
  <2>1. 10^(-digits) \in Nat \ {0} /\ -digits > 0
    BY <1>3 DEF PowersOfTen
  <2>2. QED
    BY <1>1, <1>3, <2>1 DEF up, down
<1>4. CASE digits = 0
  BY <1>1, <1>4 DEF up, down
<1>5. QED
  BY <1>2, <1>3, <1>4

\* It truncates what it divides.
LEMMA ScaleBounds ==
    ASSUME PowersOfTen, NEW a \in Nat, NEW digits \in Int
    PROVE  /\ scale(a, digits) \in Nat
           /\ scale(a, digits) * down(digits) <= a * up(digits)
           /\ a * up(digits) < (scale(a, digits) + 1) * down(digits)
<1>1. CASE digits >= 0
  <2>1. scale(a, digits) = a * up(digits) /\ down(digits) = 1 /\ up(digits) \in Nat
    BY <1>1, ScaleFactors DEF scale
  <2>2. a * up(digits) \in Nat
    BY <2>1
  <2>3. QED
    BY <2>1, <2>2
<1>2. CASE digits < 0
  <2>1. scale(a, digits) = a \div down(digits) /\ up(digits) = 1 /\ down(digits) \in Nat \ {0}
    BY <1>2, ScaleFactors DEF scale
  <2>2. PICK q, d : q = a \div down(digits) /\ d = down(digits)
    OBVIOUS
  <2>3. q \in Nat /\ d * q <= a /\ a < d * q + d /\ d \in Nat \ {0}
    BY <2>1, <2>2, DivBounds
  <2>4. q * d <= a /\ a < (q + 1) * d
    BY <2>3
  <2>5. QED
    BY <2>1, <2>2, <2>3, <2>4
<1>3. QED
  BY <1>1, <1>2

\* Two rescalings are one, but for a factor that cancels.
LEMMA ScalesCompose ==
    ASSUME PowersOfTen, NEW e \in Int, NEW d \in Int
    PROVE  \E c \in Nat \ {0} : /\ up(e) * up(d) = c * up(e + d)
                                /\ down(e) * down(d) = c * down(e + d)
<1>1. /\ \A m, n \in Nat : 10^(m + n) = 10^m * 10^n
      /\ \A n \in Nat : 10^n \in Nat \ {0}
  BY DEF PowersOfTen
<1>2. \A n \in Int : /\ up(n) \in Nat \ {0} /\ down(n) \in Nat \ {0}
                     /\ n >= 0 => up(n) = 10^n /\ down(n) = 1
                     /\ n < 0 => down(n) = 10^(-n) /\ up(n) = 1
  BY ScaleFactors
<1>3. CASE (e >= 0 /\ d >= 0) \/ (e < 0 /\ d < 0)
  <2>1. up(e) * up(d) = 1 * up(e + d) /\ down(e) * down(d) = 1 * down(e + d)
    <3>1. CASE e >= 0 /\ d >= 0
      <4>1. 10^(e + d) = 10^e * 10^d /\ e + d >= 0 /\ e + d \in Int
        BY <1>1, <3>1
      <4>2. QED
        BY <1>2, <3>1, <4>1
    <3>2. CASE e < 0 /\ d < 0
      <4>1. 10^((-e) + (-d)) = 10^(-e) * 10^(-d) /\ e + d < 0 /\ e + d \in Int
            /\ -(e + d) = (-e) + (-d)
        BY <1>1, <3>2
      <4>2. QED
        BY <1>2, <3>2, <4>1
    <3>3. QED
      BY <1>3, <3>1, <3>2
  <2>2. QED
    BY <2>1
<1>4. ASSUME NEW m \in Int, NEW n \in Int, m >= 0, n < 0
      PROVE  \E c \in Nat \ {0} : /\ up(m) = c * up(m + n)
                                  /\ down(n) = c * down(m + n)
  <2>1. up(m) = 10^m /\ down(n) = 10^(-n) /\ m + n \in Int
    BY <1>2, <1>4
  <2>2. CASE m + n >= 0
    <3>1. 10^((m + n) + (-n)) = 10^(m + n) * 10^(-n) /\ (m + n) + (-n) = m
          /\ 10^(-n) \in Nat \ {0} /\ 10^(m + n) \in Nat
      BY <1>1, <1>4, <2>2
    <3>2. up(m + n) = 10^(m + n) /\ down(m + n) = 1
      BY <1>2, <2>1, <2>2
    <3>3. up(m) = 10^(-n) * up(m + n) /\ down(n) = 10^(-n) * down(m + n)
      BY <2>1, <3>1, <3>2
    <3>4. QED
      BY <3>1, <3>3
  <2>3. CASE m + n < 0
    <3>1. 10^((-(m + n)) + m) = 10^(-(m + n)) * 10^m /\ (-(m + n)) + m = -n
          /\ 10^m \in Nat \ {0} /\ 10^(-(m + n)) \in Nat
      BY <1>1, <1>4, <2>3
    <3>2. down(m + n) = 10^(-(m + n)) /\ up(m + n) = 1
      BY <1>2, <2>1, <2>3
    <3>3. up(m) = 10^m * up(m + n) /\ down(n) = 10^m * down(m + n)
      BY <2>1, <3>1, <3>2
    <3>4. QED
      BY <3>1, <3>3
  <2>4. QED
    BY <2>1, <2>2, <2>3
<1>5. CASE e >= 0 /\ d < 0
  <2>1. PICK c \in Nat \ {0} : up(e) = c * up(e + d) /\ down(d) = c * down(e + d)
    BY <1>4, <1>5
  <2>2. up(d) = 1 /\ down(e) = 1 /\ up(e) \in Nat /\ down(d) \in Nat
    BY <1>2, <1>5
  <2>3. QED
    BY <2>1, <2>2
<1>6. CASE e < 0 /\ d >= 0
  <2>1. PICK c \in Nat \ {0} : up(d) = c * up(d + e) /\ down(e) = c * down(d + e)
    BY <1>4, <1>6
  <2>2. up(e) = 1 /\ down(d) = 1 /\ up(d) \in Nat /\ down(e) \in Nat /\ d + e = e + d
    BY <1>2, <1>6
  <2>3. QED
    BY <2>1, <2>2
<1>7. QED
  BY <1>3, <1>5, <1>6

\* Three truncations after each other: a is scaled to s, s to f, and f divided
\* by p.  They never exceed the truncation of the whole ...
LEMMA TruncatedThrice ==
    ASSUME NEW a \in Nat, NEW s \in Nat, NEW f \in Nat, NEW r \in Nat,
           NEW u1 \in Nat \ {0}, NEW d1 \in Nat \ {0},
           NEW u2 \in Nat \ {0}, NEW d2 \in Nat \ {0}, NEW p \in Nat \ {0},
           s * d1 <= a * u1, f * d2 <= s * u2, r * p <= f
    PROVE  (r * p) * (d1 * d2) <= a * (u1 * u2)
<1>1. (r * p) * (d1 * d2) <= f * (d1 * d2)
  <2>1. r * p \in Nat /\ d1 * d2 \in Nat
    OBVIOUS
  <2>2. QED
    BY <2>1, MulMonotone
<1>2. (f * d2) * d1 <= (s * u2) * d1
  <2>1. f * d2 \in Nat /\ s * u2 \in Nat
    OBVIOUS
  <2>2. QED
    BY <2>1, MulMonotone
<1>3. (s * d1) * u2 <= (a * u1) * u2
  <2>1. s * d1 \in Nat /\ a * u1 \in Nat
    OBVIOUS
  <2>2. QED
    BY <2>1, MulMonotone
<1>4. /\ f * (d1 * d2) = (f * d2) * d1
      /\ (s * u2) * d1 = (s * d1) * u2
      /\ (a * u1) * u2 = a * (u1 * u2)
  OBVIOUS
<1>5. /\ (r * p) * (d1 * d2) \in Int /\ f * (d1 * d2) \in Int
      /\ (s * u2) * d1 \in Int /\ a * (u1 * u2) \in Int
  OBVIOUS
<1>6. QED
  BY <1>1, <1>2, <1>3, <1>4, <1>5

\* ... and what they lose beyond it is less than a unit of the product, scaled
\* up, when the first divides and the second multiplies.
LEMMA LostByTruncation ==
    ASSUME NEW a \in Nat, NEW s \in Nat, NEW f \in Nat, NEW r \in Nat,
           NEW u1 \in Nat \ {0}, NEW d1 \in Nat \ {0},
           NEW u2 \in Nat \ {0}, NEW d2 \in Nat \ {0}, NEW p \in Nat \ {0},
           s * d1 <= a * u1, a * u1 < (s + 1) * d1,
           f * d2 <= s * u2, s * u2 < (f + 1) * d2, f < (r + 1) * p
    PROVE  /\ d1 = 1 \/ u2 = 1 => a * (u1 * u2) < ((r + 1) * p) * (d1 * d2)
           /\ d2 = 1 => a * (u1 * u2) < ((r + 1) * p + u2) * (d1 * d2)
<1>1. PICK g \in Nat : g = (r + 1) * p /\ f + 1 <= g
  <2>1. (r + 1) * p \in Nat
    OBVIOUS
  <2>2. QED
    BY <2>1
<1>2. (f + 1) * (d1 * d2) <= g * (d1 * d2)
  <2>1. d1 * d2 \in Nat /\ f + 1 \in Nat
    OBVIOUS
  <2>2. QED
    BY <1>1, <2>1, MulMonotone
<1>3. a * (u1 * u2) = (a * u1) * u2
  OBVIOUS
<1>4. /\ a * u1 \in Nat /\ s * u2 \in Nat /\ (f + 1) * (d1 * d2) \in Int
      /\ g * (d1 * d2) \in Int /\ a * (u1 * u2) \in Int /\ (f + 1) * d2 \in Nat
  OBVIOUS
<1>5. ASSUME d1 = 1
      PROVE  a * (u1 * u2) < g * (d1 * d2)
  <2>1. a * u1 = s
    BY <1>4, <1>5
  <2>2. (f + 1) * (d1 * d2) = (f + 1) * d2
    BY <1>5
  <2>3. a * (u1 * u2) = s * u2
    BY <1>3, <2>1
  <2>4. QED
    BY <1>2, <1>4, <2>2, <2>3
<1>6. ASSUME u2 = 1
      PROVE  a * (u1 * u2) < g * (d1 * d2)
  <2>1. s + 1 <= (f + 1) * d2
    BY <1>4, <1>6
  <2>2. (s + 1) * d1 <= ((f + 1) * d2) * d1
    BY <1>4, <2>1, MulMonotone
  <2>3. /\ ((f + 1) * d2) * d1 = (f + 1) * (d1 * d2) /\ (s + 1) * d1 \in Int
        /\ a * (u1 * u2) = a * u1
    BY <1>3, <1>6
  <2>4. QED
    BY <1>2, <1>4, <2>2, <2>3
<1>7. ASSUME d2 = 1
      PROVE  a * (u1 * u2) < (g + u2) * (d1 * d2)
  <2>1. f = s * u2
    BY <1>4, <1>7
  <2>2. (a * u1) * u2 < ((s + 1) * d1) * u2
    <3>1. /\ a * u1 + 1 <= (s + 1) * d1 /\ a * u1 + 1 \in Nat /\ (s + 1) * d1 \in Nat
      BY <1>4
    <3>2. (a * u1 + 1) * u2 <= ((s + 1) * d1) * u2
      BY <3>1, MulMonotone
    <3>3. (a * u1 + 1) * u2 = (a * u1) * u2 + u2 /\ (a * u1) * u2 \in Int
          /\ ((s + 1) * d1) * u2 \in Int
      BY <1>4
    <3>4. QED
      BY <3>2, <3>3
  <2>3. ((s + 1) * d1) * u2 = (f + u2) * d1
    <3>1. ((s + 1) * d1) * u2 = (s * u2 + u2) * d1
      OBVIOUS
    <3>2. QED
      BY <2>1, <3>1
  <2>4. (f + u2) * d1 <= (g + u2) * d1
    <3>1. f + u2 <= g + u2 /\ f + u2 \in Nat /\ g + u2 \in Nat
      BY <1>1
    <3>2. QED
      BY <3>1, MulMonotone
  <2>5. d1 * d2 = d1 /\ (f + u2) * d1 \in Int /\ (g + u2) * d1 \in Int
        /\ (a * u1) * u2 \in Int
    BY <1>1, <1>4, <1>7
  <2>6. QED
    BY <1>3, <2>2, <2>3, <2>4, <2>5
<1>8. QED
  BY <1>1, <1>5, <1>6, <1>7, Zenon

\* A larger amount is rescaled to no less, and two amounts to at most their sum.
LEMMA ScaleMonotone ==
    ASSUME PowersOfTen, NEW a \in Nat, NEW b \in Nat, NEW digits \in Int, a <= b
    PROVE  scale(a, digits) <= scale(b, digits)
<1>1. PICK u, d, s, t : /\ u = up(digits) /\ d = down(digits)
                        /\ s = scale(a, digits) /\ t = scale(b, digits)
  OBVIOUS
<1>2. u \in Nat \ {0} /\ d \in Nat \ {0}
  BY <1>1, ScaleFactors
<1>3. s \in Nat /\ t \in Nat /\ s * d <= a * u /\ b * u < (t + 1) * d
  BY <1>1, ScaleBounds
<1>4. a * u <= b * u
  BY <1>2, MulMonotone
<1>5. s * d < (t + 1) * d
  <2>1. s * d \in Int /\ (t + 1) * d \in Int /\ a * u \in Int /\ b * u \in Int
    BY <1>2, <1>3
  <2>2. QED
    BY <1>3, <1>4, <2>1
<1>6. s < t + 1
  BY <1>2, <1>3, <1>5, MulCancel
<1>7. QED
  BY <1>1, <1>3, <1>6

LEMMA ScaleSuperadditive ==
    ASSUME PowersOfTen, NEW a \in Nat, NEW b \in Nat, NEW digits \in Int
    PROVE  scale(a, digits) + scale(b, digits) <= scale(a + b, digits)
<1>1. PICK u, d, s, t, w : /\ u = up(digits) /\ d = down(digits)
                           /\ s = scale(a, digits) /\ t = scale(b, digits)
                           /\ w = scale(a + b, digits)
  OBVIOUS
<1>2. u \in Nat \ {0} /\ d \in Nat \ {0} /\ a + b \in Nat
  BY <1>1, ScaleFactors
<1>3. s \in Nat /\ t \in Nat /\ w \in Nat
  BY <1>1, <1>2, ScaleBounds
<1>4. s * d <= a * u /\ t * d <= b * u /\ (a + b) * u < (w + 1) * d
  BY <1>1, <1>2, ScaleBounds
<1>5. (s + t) * d < (w + 1) * d
  <2>1. (s + t) * d = s * d + t * d /\ (a + b) * u = a * u + b * u
    BY <1>2, <1>3
  <2>2. /\ s * d \in Int /\ t * d \in Int /\ (w + 1) * d \in Int
        /\ a * u \in Int /\ b * u \in Int
    BY <1>2, <1>3
  <2>3. QED
    BY <1>4, <2>1, <2>2
<1>6. s + t < w + 1
  BY <1>2, <1>3, <1>5, MulCancel
<1>7. QED
  BY <1>1, <1>3, <1>6

\* So does the division by a price.
LEMMA DivSuperadditive ==
    ASSUME NEW a \in Nat, NEW b \in Nat, NEW c \in Nat, a + b <= c, NEW p \in Nat \ {0}
    PROVE  a \div p + b \div p <= c \div p
<1>1. PICK s, t, w : s = a \div p /\ t = b \div p /\ w = c \div p
  OBVIOUS
<1>2. /\ s \in Nat /\ t \in Nat /\ w \in Nat
      /\ p * s <= a /\ p * t <= b /\ c < p * w + p
  BY <1>1, DivBounds
<1>3. (s + t) * p < (w + 1) * p
  <2>1. (s + t) * p = p * s + p * t /\ (w + 1) * p = p * w + p
    BY <1>2
  <2>2. p * s \in Int /\ p * t \in Int /\ p * w \in Int
    BY <1>2
  <2>3. QED
    BY <1>2, <2>1, <2>2
<1>4. s + t < w + 1
  BY <1>2, <1>3, MulCancel
<1>5. QED
  BY <1>1, <1>2, <1>4

\* A conversion that succeeds rescales and divides, and stays within its widths.
LEMMA ConversionParts ==
    ASSUME PowersOfTen, NEW amount \in Nat, NEW feed_a, NEW feed_b,
           feed_a.price \in Int, feed_a.expo \in Int, feed_b.price \in Int, feed_b.expo \in Int,
           NEW decimals_a \in Int, NEW decimals_b \in Int,
           convert_token_amount(amount, feed_a, feed_b, decimals_a, decimals_b).ok
    PROVE  /\ feed_a.price \in Nat \ {0} /\ feed_b.price \in Nat \ {0}
           /\ \E s, f, r \in Nat :
                 /\ s = scale(amount * feed_a.price, feed_a.expo - feed_b.expo)
                 /\ f = scale(s, decimals_b - decimals_a)
                 /\ r = f \div feed_b.price
                 /\ r * feed_b.price <= f /\ f < (r + 1) * feed_b.price
                 /\ amount * feed_a.price <= U128_MAX
                 /\ scale_fits(amount * feed_a.price, feed_a.expo - feed_b.expo)
                 /\ scale_fits(s, decimals_b - decimals_a)
                 /\ r <= AMOUNT_MAX
                 /\ convert_token_amount(amount, feed_a, feed_b, decimals_a, decimals_b)
                        = [ok |-> TRUE, amount |-> r]
<1>1. PICK s, f, r : /\ s = scale(amount * feed_a.price, feed_a.expo - feed_b.expo)
                     /\ f = scale(s, decimals_b - decimals_a)
                     /\ r = f \div feed_b.price
  OBVIOUS
<1>2. /\ feed_a.price > 0 /\ feed_b.price > 0
      /\ amount * feed_a.price <= U128_MAX
      /\ scale_fits(amount * feed_a.price, feed_a.expo - feed_b.expo)
      /\ scale_fits(s, decimals_b - decimals_a)
      /\ r <= AMOUNT_MAX
      /\ convert_token_amount(amount, feed_a, feed_b, decimals_a, decimals_b)
             = [ok |-> TRUE, amount |-> r]
  BY <1>1, Zenon DEF convert_token_amount, NoAmount
<1>3. feed_a.price \in Nat \ {0} /\ feed_b.price \in Nat \ {0}
  BY <1>2
<1>4. amount * feed_a.price \in Nat
  BY <1>3
<1>5. feed_a.expo - feed_b.expo \in Int /\ decimals_b - decimals_a \in Int
  OBVIOUS
<1>6. s \in Nat
  BY <1>1, <1>4, <1>5, ScaleBounds
<1>7. f \in Nat
  BY <1>1, <1>5, <1>6, ScaleBounds
<1>8. r \in Nat /\ r * feed_b.price <= f /\ f < (r + 1) * feed_b.price
  <2>1. PICK p \in Nat \ {0} : p = feed_b.price
    BY <1>3
  <2>2. r \in Nat /\ p * r <= f /\ f < p * r + p
    BY <1>1, <1>7, <2>1, DivBounds
  <2>3. r * p <= f /\ f < (r + 1) * p
    BY <2>2
  <2>4. QED
    BY <2>1, <2>2, <2>3
<1>9. QED
  BY <1>1, <1>2, <1>3, <1>6, <1>7, <1>8, Zenon

LEMMA ConversionAmount ==
    ASSUME PowersOfTen, NEW amount \in Nat, NEW feed_a, NEW feed_b,
           feed_a.price \in Int, feed_a.expo \in Int, feed_b.price \in Int, feed_b.expo \in Int,
           NEW decimals_a \in Int, NEW decimals_b \in Int,
           convert_token_amount(amount, feed_a, feed_b, decimals_a, decimals_b).ok
    PROVE  LET converted == convert_token_amount(amount, feed_a, feed_b, decimals_a, decimals_b)
           IN  converted.amount \in Nat /\ converted = [ok |-> TRUE, amount |-> converted.amount]
<1> DEFINE converted == convert_token_amount(amount, feed_a, feed_b, decimals_a, decimals_b)
<1>1. PICK r \in Nat : converted = [ok |-> TRUE, amount |-> r]
  BY ConversionParts
<1> HIDE DEF converted
<1>2. converted.amount = r
  BY <1>1
<1>3. QED
  BY <1>1, <1>2 DEF converted

\* What a conversion yields, against the formula of pyth.rs:46.
LEMMA ConversionBounds ==
    ASSUME PowersOfTen, NEW amount \in Nat, NEW feed_a, NEW feed_b,
           feed_a.price \in Int, feed_a.expo \in Int, feed_b.price \in Int, feed_b.expo \in Int,
           NEW decimals_a \in Int, NEW decimals_b \in Int,
           NEW r, [ok |-> TRUE, amount |-> r]
                      = convert_token_amount(amount, feed_a, feed_b, decimals_a, decimals_b),
           NEW e, e = feed_a.expo - feed_b.expo, NEW d, d = decimals_b - decimals_a,
           NEW lost, lost = IF e < 0 /\ d > 0 THEN 10^d ELSE 0
    PROVE  /\ r \in Nat
           /\ r * (feed_b.price * down(e + d)) <= (amount * feed_a.price) * up(e + d)
           /\ (amount * feed_a.price) * up(e + d)
                  < (r + 1) * (feed_b.price * down(e + d)) + lost * down(e + d)
<1>1. convert_token_amount(amount, feed_a, feed_b, decimals_a, decimals_b).ok
  OBVIOUS
<1>2. feed_a.price \in Nat \ {0} /\ feed_b.price \in Nat \ {0}
  BY <1>1, ConversionParts
<1>3. PICK a \in Nat, p \in Nat \ {0} : a = amount * feed_a.price /\ p = feed_b.price
  BY <1>2
<1>4. PICK s \in Nat, f \in Nat, q \in Nat :
            /\ s = scale(a, e) /\ f = scale(s, d)
            /\ q * p <= f /\ f < (q + 1) * p
            /\ [ok |-> TRUE, amount |-> q]
                   = convert_token_amount(amount, feed_a, feed_b, decimals_a, decimals_b)
  BY <1>1, <1>3, ConversionParts
<1>5. q = r
  <2>1. [ok |-> TRUE, amount |-> q].amount = [ok |-> TRUE, amount |-> r].amount
    BY <1>4, Zenon
  <2>2. QED
    BY <2>1
<1>6. e \in Int /\ d \in Int
  OBVIOUS
<1>7. PICK u1 \in Nat \ {0}, d1 \in Nat \ {0}, u2 \in Nat \ {0}, d2 \in Nat \ {0} :
            u1 = up(e) /\ d1 = down(e) /\ u2 = up(d) /\ d2 = down(d)
  BY <1>6, ScaleFactors
<1>8. /\ s * d1 <= a * u1 /\ a * u1 < (s + 1) * d1
      /\ f * d2 <= s * u2 /\ s * u2 < (f + 1) * d2
  BY <1>4, <1>6, <1>7, ScaleBounds
<1>9. PICK u \in Nat \ {0}, w \in Nat \ {0}, c \in Nat \ {0} :
            /\ u = up(e + d) /\ w = down(e + d)
            /\ u1 * u2 = c * u /\ d1 * d2 = c * w
  <2>1. PICK c \in Nat \ {0} : /\ up(e) * up(d) = c * up(e + d)
                               /\ down(e) * down(d) = c * down(e + d)
    BY <1>6, ScalesCompose
  <2>2. up(e + d) \in Nat \ {0} /\ down(e + d) \in Nat \ {0}
    BY <1>6, ScaleFactors
  <2>3. QED
    BY <1>7, <2>1, <2>2
<1>10. /\ (e < 0 /\ d > 0) => d2 = 1 /\ lost = u2
       /\ ~(e < 0 /\ d > 0) => (d1 = 1 \/ u2 = 1) /\ lost = 0
  <2>1. /\ d >= 0 => up(d) = 10^d /\ down(d) = 1
        /\ e >= 0 => down(e) = 1
        /\ d < 0 => up(d) = 1
    BY <1>6, ScaleFactors
  <2>2. CASE e < 0 /\ d > 0
    <3>1. lost = 10^d
      BY <2>2
    <3>2. QED
      BY <1>6, <1>7, <2>1, <2>2, <3>1
  <2>3. CASE ~(e < 0 /\ d > 0)
    <3>1. lost = 0
      BY <2>3
    <3>2. up(0) = 1
      BY DEF up
    <3>3. d1 = 1 \/ u2 = 1
      <4>1. e >= 0 \/ d < 0 \/ d = 0
        BY <1>6, <2>3
      <4>2. QED
        BY <1>6, <1>7, <2>1, <3>2, <4>1
    <3>4. QED
      BY <2>3, <3>1, <3>3
  <2>4. QED
    BY <2>2, <2>3
<1>11. (r * p) * w <= a * u
  <2>1. (q * p) * (d1 * d2) <= a * (u1 * u2)
    BY <1>4, <1>8, TruncatedThrice
  <2>2. (q * p) * (c * w) = ((q * p) * w) * c /\ a * (c * u) = (a * u) * c
    OBVIOUS
  <2>3. (q * p) * w \in Int /\ a * u \in Int
    OBVIOUS
  <2>4. ((q * p) * w) * c <= (a * u) * c
    BY <1>9, <2>1, <2>2
  <2>5. QED
    BY <1>5, <2>3, <2>4, MulCancelWeak
<1>12. PICK g \in Nat : g = (r + 1) * p /\ lost \in Nat
  <2>1. (q + 1) * p \in Nat
    OBVIOUS
  <2>2. QED
    BY <1>5, <1>10, <2>1
<1>13. a * u < (g + lost) * w
  <2>1. /\ d1 = 1 \/ u2 = 1 => a * (u1 * u2) < g * (d1 * d2)
        /\ d2 = 1 => a * (u1 * u2) < (g + u2) * (d1 * d2)
    <3>1. /\ d1 = 1 \/ u2 = 1 => a * (u1 * u2) < ((q + 1) * p) * (d1 * d2)
          /\ d2 = 1 => a * (u1 * u2) < ((q + 1) * p + u2) * (d1 * d2)
      BY <1>4, <1>8, LostByTruncation
    <3>2. QED
      BY <1>5, <1>12, <3>1, Zenon
  <2>2. a * (u1 * u2) < (g + lost) * (d1 * d2)
    <3>1. CASE e < 0 /\ d > 0
      BY <1>10, <2>1, <3>1
    <3>2. CASE ~(e < 0 /\ d > 0)
      <4>1. g + lost = g
        BY <1>10, <1>12, <3>2
      <4>2. QED
        BY <1>10, <2>1, <3>2, <4>1
    <3>3. QED
      BY <3>1, <3>2
  <2>3. (g + lost) * (c * w) = ((g + lost) * w) * c /\ a * (c * u) = (a * u) * c
    BY <1>12
  <2>4. (g + lost) * w \in Int /\ a * u \in Int
    BY <1>12
  <2>5. (a * u) * c < ((g + lost) * w) * c
    BY <1>9, <2>2, <2>3
  <2>6. QED
    BY <2>4, <2>5, MulCancel
<1>14. /\ (r * p) * w = r * (p * w)
       /\ (g + lost) * w = (r + 1) * (p * w) + lost * w
  <2>1. (q * p) * w = q * (p * w)
    OBVIOUS
  <2>2. g = (q + 1) * p
    BY <1>5, <1>12
  <2>3. (g + lost) * w = g * w + lost * w
    BY <1>12
  <2>4. ((q + 1) * p) * w = (q + 1) * (p * w)
    OBVIOUS
  <2>5. QED
    BY <1>5, <2>1, <2>2, <2>3, <2>4
<1>15. QED
  BY <1>3, <1>5, <1>9, <1>11, <1>13, <1>14

\* A part of what could be converted can be converted.
LEMMA PartConverts ==
    ASSUME PowersOfTen, NEW amount \in Nat, NEW feed_a, NEW feed_b,
           feed_a.price \in Int, feed_a.expo \in Int, feed_b.price \in Int, feed_b.expo \in Int,
           NEW decimals_a \in Int, NEW decimals_b \in Int,
           convert_token_amount(amount, feed_a, feed_b, decimals_a, decimals_b).ok,
           NEW part \in Nat, part <= amount
    PROVE  convert_token_amount(part, feed_a, feed_b, decimals_a, decimals_b)
               = [ok |-> TRUE,
                  amount |-> scale(scale(part * feed_a.price, feed_a.expo - feed_b.expo),
                                   decimals_b - decimals_a) \div feed_b.price]
<1> DEFINE e == feed_a.expo - feed_b.expo
           d == decimals_b - decimals_a
<1>1. e \in Int /\ d \in Int
  OBVIOUS
<1>2. PICK pa \in Nat \ {0}, pb \in Nat \ {0} : pa = feed_a.price /\ pb = feed_b.price
  BY ConversionParts
<1>3. PICK s \in Nat, f \in Nat, r \in Nat :
            /\ s = scale(amount * pa, e) /\ f = scale(s, d) /\ r = f \div pb
            /\ amount * pa <= U128_MAX
            /\ scale_fits(amount * pa, e) /\ scale_fits(s, d)
            /\ r <= AMOUNT_MAX
  BY <1>2, ConversionParts
<1> HIDE DEF e, d
<1>4. PICK n \in Nat : n = part * pa /\ n <= amount * pa
  <2>1. part * pa \in Nat /\ part * pa <= amount * pa
    BY MulMonotone
  <2>2. QED
    BY <2>1
<1>5. PICK t \in Nat : t = scale(n, e) /\ t <= s
  <2>1. amount * pa \in Nat
    OBVIOUS
  <2>2. QED
    BY <1>1, <1>3, <1>4, <2>1, ScaleBounds, ScaleMonotone
<1>6. PICK g \in Nat : g = scale(t, d) /\ g <= f
  BY <1>1, <1>3, <1>5, ScaleBounds, ScaleMonotone
<1>7. g \div pb \in Nat /\ g \div pb <= r
  <2>1. g \div pb + (f - g) \div pb <= f \div pb
    <3>1. f - g \in Nat /\ g + (f - g) <= f
      BY <1>6
    <3>2. QED
      BY <3>1, DivSuperadditive
  <2>2. PICK h, k : h = g \div pb /\ k = (f - g) \div pb
    OBVIOUS
  <2>3. h \in Nat /\ k \in Nat
    <3>1. f - g \in Nat
      BY <1>6
    <3>2. QED
      BY <2>2, <3>1, DivBounds
  <2>4. h <= r
    BY <1>3, <2>1, <2>2, <2>3
  <2>5. QED
    BY <2>2, <2>3, <2>4
<1>8. n <= U128_MAX /\ g \div pb <= AMOUNT_MAX
  <2>1. U128_MAX \in Nat /\ AMOUNT_MAX \in Nat /\ amount * pa \in Nat
    BY PythAssumption
  <2>2. n <= U128_MAX
    BY <1>3, <1>4, <2>1
  <2>3. g \div pb <= AMOUNT_MAX
    BY <1>3, <1>7, <2>1
  <2>4. QED
    BY <2>2, <2>3
<1>9. scale_fits(n, e) /\ scale_fits(t, d)
  BY <1>3, <1>5, <1>6, PythAssumption DEF scale_fits
<1>10. pa > 0 /\ pb > 0
  OBVIOUS
<1>11. QED
  BY <1>2, <1>4, <1>5, <1>6, <1>8, <1>9, <1>10, Zenon DEF convert_token_amount, e, d

\* Two parts yield at most the whole.
LEMMA PartsYieldNoMore ==
    ASSUME PowersOfTen, NEW amount \in Nat, NEW feed_a, NEW feed_b,
           feed_a.price \in Int, feed_a.expo \in Int, feed_b.price \in Int, feed_b.expo \in Int,
           NEW decimals_a \in Int, NEW decimals_b \in Int,
           NEW r, [ok |-> TRUE, amount |-> r]
                      = convert_token_amount(amount, feed_a, feed_b, decimals_a, decimals_b),
           NEW part \in Nat, part <= amount
    PROVE  LET converted(n) == convert_token_amount(n, feed_a, feed_b, decimals_a, decimals_b)
           IN  /\ converted(part).ok /\ converted(amount - part).ok
               /\ converted(part).amount + converted(amount - part).amount <= r
<1> DEFINE converted(n) == convert_token_amount(n, feed_a, feed_b, decimals_a, decimals_b)
           e == feed_a.expo - feed_b.expo
           d == decimals_b - decimals_a
           answer(n) == scale(scale(n * feed_a.price, e), d) \div feed_b.price
<1>1. e \in Int /\ d \in Int
  OBVIOUS
<1>2. amount - part \in Nat /\ amount - part <= amount
  OBVIOUS
<1>3. converted(amount).ok
  OBVIOUS
<1>4. \A n \in Nat : n <= amount => converted(n) = [ok |-> TRUE, amount |-> answer(n)]
  BY <1>3, PartConverts
<1>5. r = answer(amount)
  <2>1. [ok |-> TRUE, amount |-> r] = [ok |-> TRUE, amount |-> answer(amount)]
    <3>1. amount <= amount
      OBVIOUS
    <3>2. QED
      BY <1>4, <3>1, Zenon
  <2>2. [ok |-> TRUE, amount |-> r].amount = [ok |-> TRUE, amount |-> answer(amount)].amount
    BY <2>1, Zenon
  <2> HIDE DEF answer
  <2>3. QED
    BY <2>2
<1>6. PICK pa \in Nat \ {0}, pb \in Nat \ {0} : pa = feed_a.price /\ pb = feed_b.price
  BY <1>3, ConversionParts
<1> HIDE DEF e, d
<1>7. PICK a \in Nat, b \in Nat : a = part * pa /\ b = (amount - part) * pa
                                  /\ a + b = amount * pa
  <2>1. part * pa \in Nat
    OBVIOUS
  <2>2. PICK q \in Nat : q = amount - part /\ amount = part + q
    BY <1>2
  <2>3. q * pa \in Nat /\ part * pa + q * pa = (part + q) * pa
    OBVIOUS
  <2>4. QED
    BY <2>1, <2>2, <2>3
<1>8. PICK s \in Nat, t \in Nat, w \in Nat :
            /\ s = scale(a, e) /\ t = scale(b, e) /\ w = scale(a + b, e)
            /\ s + t <= w
  <2>1. a + b \in Nat
    OBVIOUS
  <2>2. QED
    BY <1>1, <2>1, ScaleBounds, ScaleSuperadditive
<1>9. PICK f \in Nat, g \in Nat, h \in Nat :
            /\ f = scale(s, d) /\ g = scale(t, d) /\ h = scale(w, d)
            /\ f + g <= h
  <2>1. /\ scale(s, d) \in Nat /\ scale(t, d) \in Nat /\ scale(w, d) \in Nat
        /\ scale(s + t, d) \in Nat
    <3>1. s + t \in Nat
      OBVIOUS
    <3>2. QED
      BY <1>1, <3>1, ScaleBounds
  <2>2. scale(s, d) + scale(t, d) <= scale(s + t, d)
    BY <1>1, ScaleSuperadditive
  <2>3. scale(s + t, d) <= scale(w, d)
    BY <1>1, <1>8, ScaleMonotone
  <2>4. scale(s, d) + scale(t, d) <= scale(w, d)
    BY <2>1, <2>2, <2>3
  <2>5. QED
    BY <2>1, <2>4
<1>10. f \div pb \in Nat /\ g \div pb \in Nat
  BY DivBounds
<1>11. f \div pb + g \div pb <= h \div pb
  BY <1>9, DivSuperadditive
<1>12. /\ answer(part) = f \div pb /\ answer(amount - part) = g \div pb
       /\ answer(amount) = h \div pb
  BY <1>6, <1>7, <1>8, <1>9, Zenon
<1>13. /\ converted(part) = [ok |-> TRUE, amount |-> f \div pb]
       /\ converted(amount - part) = [ok |-> TRUE, amount |-> g \div pb]
  BY <1>2, <1>4, <1>12, Zenon
<1>14. f \div pb + g \div pb <= r
  BY <1>5, <1>11, <1>12, Zenon
<1>15. /\ converted(part).ok /\ converted(amount - part).ok
       /\ converted(part).amount = f \div pb /\ converted(amount - part).amount = g \div pb
  <2> HIDE DEF converted
  <2>1. QED
    BY <1>13
<1>16. QED
  BY <1>14, <1>15, Zenon

\* Converting back yields at most what was converted.
LEMMA ReturnYieldsNoMore ==
    ASSUME PowersOfTen, NEW amount \in Nat, NEW feed_a, NEW feed_b,
           feed_a.price \in Int, feed_a.expo \in Int, feed_b.price \in Int, feed_b.expo \in Int,
           NEW decimals_a \in Int, NEW decimals_b \in Int,
           NEW r, [ok |-> TRUE, amount |-> r]
                      = convert_token_amount(amount, feed_a, feed_b, decimals_a, decimals_b),
           NEW back, [ok |-> TRUE, amount |-> back]
                         = convert_token_amount(r, feed_b, feed_a, decimals_b, decimals_a)
    PROVE  back \in Nat /\ back <= amount
<1>1. convert_token_amount(amount, feed_a, feed_b, decimals_a, decimals_b).ok
  OBVIOUS
<1>2. PICK pa \in Nat \ {0}, pb \in Nat \ {0} : pa = feed_a.price /\ pb = feed_b.price
  BY <1>1, ConversionParts
<1>3. PICK e, d, k \in Int : /\ e = feed_a.expo - feed_b.expo
                             /\ d = decimals_b - decimals_a
                             /\ k = e + d /\ e \in Int /\ d \in Int
  OBVIOUS
<1>4. /\ -e = feed_b.expo - feed_a.expo /\ -d = decimals_a - decimals_b
      /\ (-e) + (-d) = -k /\ -e \in Int /\ -d \in Int /\ -k \in Int
  BY <1>3
<1>5. PICK u \in Nat \ {0}, w \in Nat \ {0} :
            /\ u = up(k) /\ w = down(k) /\ up(-k) = w /\ down(-k) = u
  BY ScaleFactors
<1>6. r \in Nat /\ r * (pb * w) <= (amount * pa) * u
  <2>1. r \in Nat /\ r * (feed_b.price * down(e + d)) <= (amount * feed_a.price) * up(e + d)
    BY <1>3, ConversionBounds
  <2>2. QED
    BY <1>2, <1>3, <1>5, <2>1
<1>7. back \in Nat /\ back * (pa * u) <= (r * pb) * w
  <2>1. /\ back \in Nat
        /\ back * (feed_a.price * down((-e) + (-d))) <= (r * feed_b.price) * up((-e) + (-d))
    BY <1>4, <1>6, ConversionBounds
  <2>2. QED
    BY <1>2, <1>4, <1>5, <2>1
<1>8. back * (pa * u) <= amount * (pa * u)
  <2>1. (r * pb) * w = r * (pb * w) /\ (amount * pa) * u = amount * (pa * u)
    BY <1>6
  <2>2. back * (pa * u) \in Int /\ r * (pb * w) \in Int /\ amount * (pa * u) \in Int
    BY <1>6, <1>7
  <2>3. QED
    BY <1>6, <1>7, <2>1, <2>2
<1>9. pa * u \in Nat \ {0}
  OBVIOUS
<1>10. back <= amount
  BY <1>7, <1>8, <1>9, MulCancelWeak
<1>11. QED
  BY <1>7, <1>10

-----------------------------------------------------------------------------
(* The properties of one conversion. *)

Feeds == {PriceFeed(price, expo, 0) : price \in Prices, expo \in Exponents}

ConversionOf(amount, part, feed_a, feed_b, decimals_a, decimals_b) ==
    LET converted(a) == convert_token_amount(a, feed_a, feed_b, decimals_a, decimals_b)
        whole == converted(amount)
    IN  [kind |-> "convert", amount |-> amount, part |-> part,
         feed_a |-> feed_a, feed_b |-> feed_b,
         decimals_a |-> decimals_a, decimals_b |-> decimals_b,
         whole  |-> whole,
         first  |-> converted(part),
         second |-> converted(amount - part),
         back   |-> IF whole.ok
                    THEN convert_token_amount(whole.amount, feed_b, feed_a,
                                              decimals_b, decimals_a)
                    ELSE NoAmount]

\* A conversion is asked for with an amount and a part of it, two feeds and the
\* decimals of two mints.
ConvertAnswer ==
    quote.kind = "convert" =>
        \E amount \in FeeAmounts, feed_a, feed_b \in Feeds,
           decimals_a, decimals_b \in TokenDecimals :
            \E part \in 0 .. amount :
                quote = ConversionOf(amount, part, feed_a, feed_b, decimals_a, decimals_b)

LEMMA QuoteConverts == ConvertAnswer /\ [KNext]_quote => ConvertAnswer'
<1> SUFFICES ASSUME ConvertAnswer, [KNext]_quote PROVE ConvertAnswer'
  OBVIOUS
<1>1. ASSUME Next PROVE ConvertAnswer'
  <2>1. \A a, x, y, rates, on :
            /\ QuoteBaseInput(a, x, y, rates, on) => quote'.kind = "base_input"
            /\ QuoteBaseOutput(a, x, y, rates, on) => quote'.kind = "base_output"
    BY DEF QuoteBaseInput, QuoteBaseOutput
  <2>2. \A a, b, c :
            /\ QuoteShares(a, b, c) => quote'.kind = "shares"
            /\ QuoteTransfer(a, b) => quote'.kind = "transfer"
    BY DEF QuoteShares, QuoteTransfer
  <2>3. quote'.kind \in {"base_input", "base_output", "shares", "transfer"}
    BY <1>1, <2>1, <2>2, Zenon DEF Next
  <2>4. quote'.kind # "convert"
    BY <2>3
  <2>5. QED
    BY <2>4 DEF ConvertAnswer
<1>2. ASSUME NEW amount \in FeeAmounts, NEW price_a \in Prices, NEW price_b \in Prices,
             NEW expo_a \in Exponents, NEW expo_b \in Exponents,
             NEW decimals_a \in TokenDecimals, NEW decimals_b \in TokenDecimals,
             NEW part \in 0 .. amount,
             Convert(amount, part, PriceFeed(price_a, expo_a, 0),
                     PriceFeed(price_b, expo_b, 0), decimals_a, decimals_b)
      PROVE  ConvertAnswer'
  <2> DEFINE feed_a == PriceFeed(price_a, expo_a, 0)
             feed_b == PriceFeed(price_b, expo_b, 0)
  <2>1. feed_a \in Feeds /\ feed_b \in Feeds
    BY DEF Feeds
  <2>2. quote' = ConversionOf(amount, part, feed_a, feed_b, decimals_a, decimals_b)
    BY <1>2, Zenon DEF Convert, ConversionOf
  <2> HIDE DEF feed_a, feed_b
  <2>3. QED
    BY <2>1, <2>2, Zenon DEF ConvertAnswer
<1>3. CASE UNCHANGED quote
  BY <1>3, Zenon DEF ConvertAnswer
<1>4. QED
  BY <1>1, <1>2, <1>3 DEF KNext

LEMMA EveryConversionAnswers == KSpec => []ConvertAnswer
<1>1. Init => ConvertAnswer
  BY DEF Init, NoQuote, ConvertAnswer
<1>2. QED
  BY <1>1, QuoteConverts, PTL DEF KSpec

\* What a successful conversion was asked for, and what it answered.
LEMMA ConvertedParts ==
    ASSUME PowersOfTen, ConvertAnswer, Converted
    PROVE  /\ quote.amount \in Nat /\ quote.part \in 0 .. quote.amount
           /\ quote.feed_a.price \in Int /\ quote.feed_a.expo \in Int
           /\ quote.feed_b.price \in Int /\ quote.feed_b.expo \in Int
           /\ quote.decimals_a \in Int /\ quote.decimals_b \in Int
           /\ quote.feed_b.price \in Nat \ {0}
           /\ quote.whole = [ok |-> TRUE, amount |-> quote.whole.amount]
           /\ quote.whole = convert_token_amount(quote.amount, quote.feed_a, quote.feed_b,
                                                 quote.decimals_a, quote.decimals_b)
           /\ quote.first = convert_token_amount(quote.part, quote.feed_a, quote.feed_b,
                                                 quote.decimals_a, quote.decimals_b)
           /\ quote.second = convert_token_amount(quote.amount - quote.part, quote.feed_a,
                                                  quote.feed_b, quote.decimals_a,
                                                  quote.decimals_b)
           /\ quote.back = convert_token_amount(quote.whole.amount, quote.feed_b, quote.feed_a,
                                                quote.decimals_b, quote.decimals_a)
<1>0. PICK amount \in FeeAmounts, feed_a \in Feeds, feed_b \in Feeds,
           decimals_a \in TokenDecimals, decimals_b \in TokenDecimals :
             \E part \in 0 .. amount :
                 quote = ConversionOf(amount, part, feed_a, feed_b, decimals_a, decimals_b)
  BY Zenon DEF ConvertAnswer, Converted
<1>1. PICK part \in 0 .. amount :
             quote = ConversionOf(amount, part, feed_a, feed_b, decimals_a, decimals_b)
  BY <1>0
<1>2. /\ amount \in Nat
      /\ feed_a.price \in Int /\ feed_a.expo \in Int
      /\ feed_b.price \in Int /\ feed_b.expo \in Int
      /\ decimals_a \in Int /\ decimals_b \in Int
  <2>1. ASSUME NEW feed \in Feeds PROVE feed.price \in Int /\ feed.expo \in Int
    <3>1. PICK price \in Prices, expo \in Exponents : feed = PriceFeed(price, expo, 0)
      BY DEF Feeds
    <3>2. price \in Int /\ expo \in Int
      BY KTokenFeeAssumption
    <3>3. QED
      BY <3>1, <3>2 DEF PriceFeed
  <2>2. amount \in Nat
    BY KTokenFeeAssumption, PythAssumption
  <2>3. decimals_a \in Int /\ decimals_b \in Int
    BY KTokenFeeAssumption
  <2>4. QED
    BY <2>1, <2>2, <2>3, Zenon
<1> DEFINE whole == convert_token_amount(amount, feed_a, feed_b, decimals_a, decimals_b)
<1>3. whole.ok
  BY <1>1 DEF Converted, ConversionOf
<1>4. PICK r \in Nat : whole = [ok |-> TRUE, amount |-> r]
  BY <1>2, <1>3, ConversionParts
<1>5. whole = [ok |-> TRUE, amount |-> whole.amount]
  BY <1>4
<1>6. feed_b.price \in Nat \ {0}
  BY <1>2, <1>3, ConversionParts
<1>7. /\ quote.amount = amount /\ quote.part = part
      /\ quote.feed_a = feed_a /\ quote.feed_b = feed_b
      /\ quote.decimals_a = decimals_a /\ quote.decimals_b = decimals_b
      /\ quote.whole = whole
      /\ quote.first = convert_token_amount(part, feed_a, feed_b, decimals_a, decimals_b)
      /\ quote.second = convert_token_amount(amount - part, feed_a, feed_b,
                                             decimals_a, decimals_b)
      /\ quote.back = IF whole.ok
                      THEN convert_token_amount(whole.amount, feed_b, feed_a,
                                                decimals_b, decimals_a)
                      ELSE NoAmount
  <2> HIDE DEF whole
  <2>1. QED
    BY <1>1 DEF whole, ConversionOf
<1>8. /\ quote.whole = convert_token_amount(quote.amount, quote.feed_a, quote.feed_b,
                                            quote.decimals_a, quote.decimals_b)
      /\ quote.first = convert_token_amount(quote.part, quote.feed_a, quote.feed_b,
                                            quote.decimals_a, quote.decimals_b)
      /\ quote.second = convert_token_amount(quote.amount - quote.part, quote.feed_a,
                                             quote.feed_b, quote.decimals_a, quote.decimals_b)
  BY <1>7, Zenon
<1>9. quote.back = convert_token_amount(quote.whole.amount, quote.feed_b, quote.feed_a,
                                        quote.decimals_b, quote.decimals_a)
  BY <1>3, <1>7, Zenon
<1>10. quote.whole = [ok |-> TRUE, amount |-> quote.whole.amount]
  BY <1>5, <1>7, Zenon
<1>11. /\ quote.amount \in Nat /\ quote.part \in 0 .. quote.amount
       /\ quote.feed_a.price \in Int /\ quote.feed_a.expo \in Int
       /\ quote.feed_b.price \in Int /\ quote.feed_b.expo \in Int
       /\ quote.decimals_a \in Int /\ quote.decimals_b \in Int
       /\ quote.feed_b.price \in Nat \ {0}
  BY <1>2, <1>6, <1>7, Zenon
<1>12. QED
  BY <1>8, <1>9, <1>10, <1>11, Zenon

\* A conversion is within the formula of pyth.rs:46 and its loss.
LEMMA AnswersWithinScale == PowersOfTen /\ ConvertAnswer => ConversionWithinScale
<1> SUFFICES ASSUME PowersOfTen, ConvertAnswer, Converted
             PROVE  ConversionWithinScale
  BY DEF ConversionWithinScale
<1>1. PICK e \in Int, d \in Int : /\ e = quote.feed_a.expo - quote.feed_b.expo
                                  /\ d = quote.decimals_b - quote.decimals_a
  <2>1. /\ quote.feed_a.expo \in Int /\ quote.feed_b.expo \in Int
        /\ quote.decimals_a \in Int /\ quote.decimals_b \in Int
    BY ConvertedParts, Zenon
  <2>2. QED
    BY <2>1
<1> DEFINE lost == IF e < 0 /\ d > 0 THEN 10^d ELSE 0
           r == quote.whole.amount
           p == quote.feed_b.price
<1>2. e + d \in Int
  OBVIOUS
<1>3. /\ r \in Nat
      /\ r * (p * down(e + d)) <= (quote.amount * quote.feed_a.price) * up(e + d)
      /\ (quote.amount * quote.feed_a.price) * up(e + d)
             < (r + 1) * (p * down(e + d)) + lost * down(e + d)
  <2>1. [ok |-> TRUE, amount |-> r]
            = convert_token_amount(quote.amount, quote.feed_a, quote.feed_b,
                                   quote.decimals_a, quote.decimals_b)
    BY ConvertedParts, Zenon
  <2> HIDE DEF r
  <2>2. QED
    BY <1>1, <2>1, ConvertedParts, ConversionBounds
<1>4. power = e + d
  BY <1>1, ConvertedParts DEF power
<1>5. dividend = (quote.amount * quote.feed_a.price) * up(e + d)
  BY <1>4, Zenon DEF dividend, up
<1>6. divisor = p * down(e + d)
  BY <1>4, Zenon DEF divisor, down
<1>7. divisor \div p = down(e + d)
  <2>1. PICK q \in Nat \ {0}, w \in Nat \ {0} : q = p /\ w = down(e + d)
    BY <1>2, ScaleFactors, ConvertedParts
  <2>2. (q * w) \div q = w
    <3>1. q * w \in Nat
      OBVIOUS
    <3>2. PICK n : n = (q * w) \div q
      OBVIOUS
    <3>3. n \in Nat /\ q * n <= q * w /\ q * w < q * n + q
      BY <3>1, <3>2, DivBounds
    <3>4. n * q <= w * q /\ w * q < (n + 1) * q
      BY <3>3
    <3>5. n <= w /\ w < n + 1
      BY <3>3, <3>4, MulCancel, MulCancelWeak
    <3>6. QED
      BY <3>2, <3>3, <3>5
  <2>3. QED
    BY <1>6, <2>1, <2>2
<1>8. r * divisor <= dividend /\ dividend < (r + 1) * divisor + lost * (divisor \div p)
  BY <1>3, <1>5, <1>6, <1>7, Zenon
<1>9. QED
  BY <1>1, <1>8, Zenon DEF ConversionWithinScale

\* Its parts and its return yield no more.
LEMMA AnswersGainNothing == PowersOfTen /\ ConvertAnswer => SplittingAndReturningGainNothing
<1> SUFFICES ASSUME PowersOfTen, ConvertAnswer, Converted
             PROVE  SplittingAndReturningGainNothing
  BY DEF SplittingAndReturningGainNothing
<1>1. PICK amount, part, feed_a, feed_b, decimals_a, decimals_b, r :
            /\ amount = quote.amount /\ part = quote.part
            /\ feed_a = quote.feed_a /\ feed_b = quote.feed_b
            /\ decimals_a = quote.decimals_a /\ decimals_b = quote.decimals_b
            /\ r = quote.whole.amount
  BY Zenon
<1> DEFINE converted(n) == convert_token_amount(n, feed_a, feed_b, decimals_a, decimals_b)
           returned == convert_token_amount(r, feed_b, feed_a, decimals_b, decimals_a)
<1>2. /\ amount \in Nat /\ part \in 0 .. amount
      /\ feed_a.price \in Int /\ feed_a.expo \in Int
      /\ feed_b.price \in Int /\ feed_b.expo \in Int
      /\ decimals_a \in Int /\ decimals_b \in Int
      /\ quote.whole = [ok |-> TRUE, amount |-> r]
  BY <1>1, ConvertedParts, Zenon
<1>3. /\ [ok |-> TRUE, amount |-> r] = converted(amount)
      /\ quote.first = converted(part) /\ quote.second = converted(amount - part)
      /\ quote.back = returned
  BY <1>1, ConvertedParts, Zenon
<1>4. part \in Nat /\ part <= amount
  BY <1>2
<1>5. /\ converted(part).ok /\ converted(amount - part).ok
      /\ converted(part).amount + converted(amount - part).amount <= r
  BY <1>2, <1>3, <1>4, PartsYieldNoMore
<1>6. /\ quote.first.ok /\ quote.second.ok
      /\ quote.first.amount + quote.second.amount <= quote.whole.amount
  BY <1>1, <1>3, <1>5, Zenon
<1>7. r \in Nat
  BY <1>2, <1>3, ConversionBounds
<1>8. ASSUME quote.back.ok PROVE quote.back.amount <= quote.amount
  <2>1. returned.ok
    BY <1>3, <1>8, Zenon
  <2>2. returned = [ok |-> TRUE, amount |-> returned.amount]
    BY <1>2, <1>7, <2>1, ConversionAmount
  <2>3. returned.amount <= amount
    BY <1>2, <1>3, <2>2, ReturnYieldsNoMore
  <2>4. QED
    BY <1>1, <1>3, <2>3, Zenon
<1>9. QED
  BY <1>6, <1>8 DEF SplittingAndReturningGainNothing

-----------------------------------------------------------------------------

\* A fee converted into K tokens is never more than the formula of pyth.rs:46
\* says, and less by one unit only, or by a unit of the scaled product when the
\* exponents scale down before the decimals scale up (pyth.rs:71-98).
THEOREM FeeConvertsWithinScale == PowersOfTen => (KSpec => []ConversionWithinScale)
<1> SUFFICES ASSUME PowersOfTen PROVE KSpec => []ConversionWithinScale
  OBVIOUS
<1>1. ConvertAnswer => ConversionWithinScale
  BY AnswersWithinScale
<1>2. QED
  BY <1>1, EveryConversionAnswers, PTL

\* Paying a fee in two parts, or converting back what it was converted into,
\* gains nothing (pyth.rs:49-102).
THEOREM SplitsAndReturnsGainNothing ==
    PowersOfTen => (KSpec => []SplittingAndReturningGainNothing)
<1> SUFFICES ASSUME PowersOfTen PROVE KSpec => []SplittingAndReturningGainNothing
  OBVIOUS
<1>1. ConvertAnswer => SplittingAndReturningGainNothing
  BY AnswersGainNothing
<1>2. QED
  BY <1>1, EveryConversionAnswers, PTL
=============================================================================
