--------------------------- MODULE CurveMathProofs ---------------------------
(***************************************************************************)
(* What the fee, curve and transfer fee arithmetic of CurveMath.tla and    *)
(* TransferFee.tla guarantees for every u64 argument and every fee of a    *)
(* mint, whatever the scale of the rates.  PoolProofs.tla builds the       *)
(* invariants of the pool on these lemmas, CurveCalculatorProofs.tla what  *)
(* a quote promises.                                                       *)
(***************************************************************************)
EXTENDS CurveMath, TransferFee, TLAPS

-----------------------------------------------------------------------------
(* Integer arithmetic. *)

\* Products of naturals are monotone: the steps with a variable factor, which
\* the SMT solver does not find by itself, are taken from here.
LEMMA MulMonotone ==
    ASSUME NEW a \in Nat, NEW b \in Nat, NEW c \in Nat, a <= b
    PROVE  /\ a * c <= b * c
           /\ c * a <= c * b
  OBVIOUS

\* A common positive factor cancels from a strict comparison.
LEMMA MulCancel ==
    ASSUME NEW a \in Int, NEW b \in Int, NEW c \in Nat, a * c < b * c
    PROVE  a < b
<1>1. SUFFICES ASSUME b <= a PROVE FALSE
  OBVIOUS
<1>2. PICK d \in Nat : a = b + d
  <2>1. a - b \in Nat /\ a = b + (a - b)
    BY <1>1
  <2>2. QED
    BY <2>1
<1>3. a * c = b * c + d * c
  BY <1>2
<1>4. d * c >= 0
  OBVIOUS
<1>5. QED
  BY <1>3, <1>4

\* ... and from a weak one.
LEMMA MulCancelWeak ==
    ASSUME NEW a \in Int, NEW b \in Int, NEW c \in Nat \ {0}, a * c <= b * c
    PROVE  a <= b
<1>1. SUFFICES ASSUME b < a PROVE FALSE
  OBVIOUS
<1>2. PICK d \in Nat \ {0} : a = b + d
  <2>1. a - b \in Nat \ {0} /\ a = b + (a - b)
    BY <1>1
  <2>2. QED
    BY <2>1
<1>3. a * c = b * c + d * c
  BY <1>2
<1>4. d * c > 0
  OBVIOUS
<1>5. QED
  BY <1>3, <1>4

\* Euclidean division.
LEMMA DivBounds ==
    ASSUME NEW a \in Nat, NEW b \in Nat \ {0}
    PROVE  /\ a \div b \in Nat
           /\ b * (a \div b) <= a
           /\ a < b * (a \div b) + b
  OBVIOUS

\* Quotient and remainder.
LEMMA DivMod ==
    ASSUME NEW a \in Nat, NEW b \in Nat \ {0}
    PROVE  /\ a % b = a - b * (a \div b)
           /\ a % b \in Int /\ a % b >= 0 /\ a % b < b
<1>1. a % b = a - b * (a \div b)
  OBVIOUS
<1>2. a % b \in Int
  OBVIOUS
<1>3. a % b >= 0
  OBVIOUS
<1>4. a % b < b
  OBVIOUS
<1>5. QED
  BY <1>1, <1>2, <1>3, <1>4, Zenon

\* floor_div rounds down.
LEMMA FloorDivBounds ==
    ASSUME NEW a \in Nat, NEW n \in Nat, NEW d \in Nat \ {0}
    PROVE  /\ floor_div(a, n, d) \in Nat
           /\ d * floor_div(a, n, d) <= a * n
           /\ a * n < d * floor_div(a, n, d) + d
<1>1. a * n \in Nat
  OBVIOUS
<1>2. QED
  BY <1>1, DivBounds DEF floor_div

\* ceil_div rounds up, by less than one unit.
LEMMA CeilDivBounds ==
    ASSUME NEW a \in Nat, NEW n \in Nat, NEW d \in Nat \ {0}
    PROVE  /\ ceil_div(a, n, d) \in Nat
           /\ d * ceil_div(a, n, d) >= a * n
           /\ d * ceil_div(a, n, d) < a * n + d
<1>1. a * n \in Nat /\ a * n + d - 1 \in Nat
  OBVIOUS
<1>2. /\ (a * n + d - 1) \div d \in Nat
      /\ d * ((a * n + d - 1) \div d) <= a * n + d - 1
      /\ a * n + d - 1 < d * ((a * n + d - 1) \div d) + d
  BY <1>1, DivBounds
<1>3. QED
  BY <1>1, <1>2 DEF ceil_div

\* ceil_div is the least multiplier that covers the product ...
LEMMA CeilDivLeast ==
    ASSUME NEW a \in Nat, NEW n \in Nat, NEW d \in Nat \ {0}, NEW m \in Nat,
           a * n <= m * d
    PROVE  ceil_div(a, n, d) <= m
<1> DEFINE q == ceil_div(a, n, d)
<1>1. q \in Nat /\ d * q < a * n + d
  BY CeilDivBounds
<1> HIDE DEF q
<1>2. q * d < (m + 1) * d
  <2>1. d * q = q * d /\ (m + 1) * d = m * d + d
    BY <1>1
  <2>2. d * q \in Nat /\ a * n \in Nat /\ m * d \in Nat
    BY <1>1
  <2>3. QED
    BY <1>1, <2>1, <2>2
<1>3. q < m + 1
  BY <1>1, <1>2, MulCancel
<1>4. QED
  BY <1>1, <1>3 DEF q

\* ... and floor_div the greatest that the product covers.
LEMMA FloorDivGreatest ==
    ASSUME NEW a \in Nat, NEW n \in Nat, NEW d \in Nat \ {0}, NEW m \in Nat,
           m * d <= a * n
    PROVE  m <= floor_div(a, n, d)
<1> DEFINE q == floor_div(a, n, d)
<1>1. q \in Nat /\ a * n < d * q + d
  BY FloorDivBounds
<1> HIDE DEF q
<1>2. m * d < (q + 1) * d
  <2>1. (q + 1) * d = d * q + d
    BY <1>1
  <2>2. d * q \in Nat /\ a * n \in Nat /\ m * d \in Nat
    BY <1>1
  <2>3. QED
    BY <1>1, <2>1, <2>2
<1>3. m < q + 1
  BY <1>1, <1>2, MulCancel
<1>4. QED
  BY <1>1, <1>3 DEF q

-----------------------------------------------------------------------------
(* curve/fees.rs *)

\* The DEN of the rates is positive.
LEMMA DenPositive == DEN \in Nat \ {0}
  BY FeeDenominatorAssumption DEF DEN

\* A fee at a rate of at most 100% is at most the amount it is taken from.
LEMMA CeilFeeBounded ==
    ASSUME NEW amount \in Nat, NEW rate \in Nat, rate <= DEN
    PROVE  ceil_div(amount, rate, DEN) \in 0 .. amount
<1> DEFINE fee == ceil_div(amount, rate, DEN)
<1>1. fee \in Nat /\ DEN * fee < amount * rate + DEN
  BY CeilDivBounds, DenPositive
<1>2. amount * rate <= amount * DEN
  BY MulMonotone, DenPositive
<1>3. fee * DEN < (amount + 1) * DEN
  BY <1>1, <1>2, DenPositive
<1>4. fee < amount + 1
  BY <1>1, <1>3, MulCancel, DenPositive
<1>5. QED
  BY <1>1, <1>4

\* The protocol and fund shares of a trade fee never exceed it.
LEMMA FeeShares ==
    ASSUME NEW fee \in Nat, NEW protocol \in Nat, NEW fund \in Nat,
           protocol + fund <= DEN
    PROVE  /\ protocol_fee(fee, protocol) \in Nat
           /\ fund_fee(fee, fund) \in Nat
           /\ protocol_fee(fee, protocol) + fund_fee(fee, fund) <= fee
<1> DEFINE p == floor_div(fee, protocol, DEN)
           f == floor_div(fee, fund, DEN)
<1>1. /\ p \in Nat /\ DEN * p <= fee * protocol
      /\ f \in Nat /\ DEN * f <= fee * fund
  BY FloorDivBounds, DenPositive
<1>2. fee * (protocol + fund) <= fee * DEN
  BY MulMonotone, DenPositive
<1>3. fee * (protocol + fund) = fee * protocol + fee * fund
  OBVIOUS
<1>4. (p + f) * DEN = DEN * p + DEN * f
  BY <1>1, DenPositive
<1> HIDE DEF p, f
<1>5. fee * protocol \in Nat /\ fee * fund \in Nat /\ DEN * p \in Nat /\ DEN * f \in Nat
  BY <1>1, DenPositive
<1>6. (p + f) * DEN <= fee * DEN
  BY <1>1, <1>2, <1>3, <1>4, <1>5, DenPositive
<1>7. p + f <= fee
  BY <1>1, <1>6, MulCancelWeak, DenPositive
<1>8. QED
  BY <1>1, <1>7 DEF p, f, protocol_fee, fund_fee

\* Grossing an amount up by a rate below 100% never lowers it.
LEMMA PreFeeNotLess ==
    ASSUME NEW amount \in Nat, NEW rate \in Nat, rate < DEN
    PROVE  /\ calculate_pre_fee_amount(amount, rate) \in Nat
           /\ calculate_pre_fee_amount(amount, rate) >= amount
<1>1. CASE rate = 0
  BY <1>1 DEF calculate_pre_fee_amount
<1>2. CASE rate # 0
  <2> DEFINE unit == DEN - rate
             pre  == ceil_div(amount, DEN, unit)
  <2>1. unit \in Nat \ {0} /\ unit <= DEN
    BY DenPositive
  <2>2. pre \in Nat /\ unit * pre >= amount * DEN
    BY <2>1, CeilDivBounds, DenPositive
  <2> HIDE DEF unit, pre
  <2>3. amount * unit <= amount * DEN
    BY <2>1, MulMonotone, DenPositive
  <2>4. amount * unit <= pre * unit
    BY <2>1, <2>2, <2>3, DenPositive
  <2>5. amount <= pre
    BY <2>1, <2>2, <2>4, MulCancelWeak
  <2>6. QED
    BY <1>2, <2>2, <2>5 DEF calculate_pre_fee_amount, unit, pre
<1>3. QED
  BY <1>1, <1>2

\* The creator's part of a combined fee is a part of it.
LEMMA SplitBounded ==
    ASSUME NEW total \in Nat, NEW trade \in Nat, NEW creator \in Nat, trade + creator # 0
    PROVE  split_creator_fee(total, trade, creator) \in 0 .. total
<1> DEFINE part == floor_div(total, creator, trade + creator)
<1>1. part \in Nat /\ (trade + creator) * part <= total * creator
  BY FloorDivBounds
<1>2. total * creator <= total * (trade + creator)
  BY MulMonotone
<1> HIDE DEF part
<1>3. part * (trade + creator) <= total * (trade + creator)
  BY <1>1, <1>2
<1>4. part <= total
  BY <1>1, <1>3, MulCancelWeak
<1>5. QED
  BY <1>1, <1>4 DEF part, split_creator_fee

\* An amount less the fee taken from it is the greatest that the rate leaves.
LEMMA FeeLeavesMost ==
    ASSUME NEW amount \in Nat, NEW rate \in Nat, rate <= DEN,
           NEW kept, kept = amount - ceil_div(amount, rate, DEN)
    PROVE  /\ kept \in Nat
           /\ kept * DEN <= amount * (DEN - rate)
           /\ \A m \in Nat : m * DEN <= amount * (DEN - rate) => m <= kept
<1> DEFINE fee == ceil_div(amount, rate, DEN)
<1>1. /\ fee \in 0 .. amount
      /\ DEN * fee >= amount * rate /\ DEN * fee < amount * rate + DEN
  BY CeilFeeBounded, CeilDivBounds, DenPositive
<1> HIDE DEF fee
<1>2. kept = amount - fee /\ kept \in Nat
  BY <1>1 DEF fee
<1>3. /\ kept * DEN = amount * DEN - DEN * fee
      /\ amount * (DEN - rate) = amount * DEN - amount * rate
  <2>1. DEN \in Int /\ fee \in Int
    BY <1>1, DenPositive
  <2>2. (amount - fee) * DEN = amount * DEN - DEN * fee
    BY <2>1
  <2>3. amount * (DEN - rate) = amount * DEN - amount * rate
    BY <2>1
  <2>4. QED
    BY <1>2, <2>2, <2>3
<1>4. amount * DEN \in Nat /\ DEN * fee \in Nat /\ amount * rate \in Nat
  BY <1>1, DenPositive
<1>5. kept * DEN <= amount * (DEN - rate)
  BY <1>1, <1>3, <1>4
<1>6. ASSUME NEW m \in Nat, m * DEN <= amount * (DEN - rate)
      PROVE  m <= kept
  <2>1. (kept + 1) * DEN = kept * DEN + DEN
    BY <1>2, DenPositive
  <2>2. m * DEN < (kept + 1) * DEN
    BY <1>1, <1>3, <1>4, <1>6, <2>1, DenPositive
  <2>3. m < kept + 1
    BY <1>2, <2>2, MulCancel, DenPositive
  <2>4. QED
    BY <1>2, <2>3
<1>7. QED
  BY <1>2, <1>5, <1>6

\* calculate_pre_fee_amount finds the least amount whose part after fees covers
\* what was asked for.
LEMMA PreFeeLeast ==
    ASSUME NEW amount \in Nat, NEW rate \in Nat, rate < DEN,
           NEW pre, pre = calculate_pre_fee_amount(amount, rate)
    PROVE  /\ pre \in Nat
           /\ amount * DEN <= pre * (DEN - rate)
           /\ \A m \in Nat : amount * DEN <= m * (DEN - rate) => pre <= m
<1>1. DEN - rate \in Nat \ {0} /\ DEN \in Nat \ {0}
  BY DenPositive
<1>2. CASE rate = 0
  <2>1. pre = amount /\ DEN - rate = DEN
    BY <1>2, DenPositive DEF calculate_pre_fee_amount
  <2>2. \A m \in Nat : amount * DEN <= m * DEN => amount <= m
    BY <1>1, MulCancelWeak
  <2>3. amount * DEN <= amount * DEN
    BY <1>1
  <2>4. QED
    BY <2>1, <2>2, <2>3
<1>3. CASE rate # 0
  <2>1. pre = ceil_div(amount, DEN, DEN - rate)
    BY <1>3 DEF calculate_pre_fee_amount
  <2>2. pre \in Nat /\ (DEN - rate) * pre >= amount * DEN
    BY <1>1, <2>1, CeilDivBounds
  <2>3. (DEN - rate) * pre = pre * (DEN - rate)
    BY <1>1, <2>2
  <2>4. \A m \in Nat : amount * DEN <= m * (DEN - rate) => pre <= m
    BY <1>1, <2>1, CeilDivLeast
  <2>5. QED
    BY <2>2, <2>3, <2>4
<1>4. QED
  BY <1>2, <1>3

\* Grossing up rises with the amount and with the rate.
LEMMA PreFeeRises ==
    ASSUME NEW a \in Nat, NEW b \in Nat, a <= b,
           NEW r \in Nat, NEW q \in Nat, r <= q, q < DEN
    PROVE  calculate_pre_fee_amount(a, r) <= calculate_pre_fee_amount(b, q)
<1>1. PICK pre \in Nat : /\ pre = calculate_pre_fee_amount(b, q)
                         /\ b * DEN <= pre * (DEN - q)
  BY PreFeeLeast
<1>2. DEN \in Nat \ {0} /\ DEN - q \in Nat /\ DEN - r \in Nat /\ DEN - q <= DEN - r /\ r < DEN
  BY DenPositive
<1>3. a * DEN <= b * DEN /\ pre * (DEN - q) <= pre * (DEN - r)
  BY <1>2, MulMonotone
<1>4. a * DEN <= pre * (DEN - r)
  <2>1. /\ a * DEN \in Nat /\ b * DEN \in Nat
        /\ pre * (DEN - q) \in Nat /\ pre * (DEN - r) \in Nat
    BY <1>2
  <2>2. QED
    BY <1>1, <1>3, <2>1
<1>5. QED
  BY <1>1, <1>2, <1>4, PreFeeLeast

-----------------------------------------------------------------------------
(* curve/constant_product.rs *)

\* An exact input takes less than the output vault holds, at a product that
\* does not fall.
LEMMA BaseInputCurve ==
    ASSUME NEW less \in Nat, NEW x \in Nat \ {0}, NEW y \in Nat \ {0},
           NEW out, out = swap_base_input_without_fees(less, x, y)
    PROVE  /\ out \in Nat /\ out < y
           /\ (x + less) * (y - out) >= x * y
<1>1. out \in Nat /\ (x + less) * out <= less * y
  BY FloorDivBounds DEF swap_base_input_without_fees
<1>2. less * y < (x + less) * y
  <2>1. (x + less) * y = x * y + less * y
    OBVIOUS
  <2>2. x * y > 0
    OBVIOUS
  <2>3. QED
    BY <2>1, <2>2
<1>3. out * (x + less) < y * (x + less)
  BY <1>1, <1>2
<1>4. out < y
  BY <1>1, <1>3, MulCancel
<1>5. (x + less) * (y - out) = x * y + less * y - (x + less) * out
  BY <1>1
<1>6. QED
  BY <1>1, <1>4, <1>5

\* The input asked for an exact output keeps the product too.
LEMMA BaseOutputCurve ==
    ASSUME NEW out \in Nat, NEW x \in Nat \ {0}, NEW y \in Nat \ {0}, out < y,
           NEW swapped, swapped = swap_base_output_without_fees(out, x, y)
    PROVE  /\ swapped \in Nat
           /\ (x + swapped) * (y - out) >= x * y
<1>1. swapped \in Nat /\ (y - out) * swapped >= x * out
  BY CeilDivBounds DEF swap_base_output_without_fees
<1>2. (x + swapped) * (y - out) = x * y - x * out + (y - out) * swapped
  BY <1>1
<1>3. QED
  BY <1>1, <1>2

\* Nothing less than what an exact input leaves keeps the product.
LEMMA BaseInputLeavesLeast ==
    ASSUME NEW less \in Nat, NEW x \in Nat \ {0}, NEW y \in Nat \ {0},
           NEW out, out = swap_base_input_without_fees(less, x, y),
           NEW left \in 0 .. y, (x + less) * left >= x * y
    PROVE  y - out <= left
<1>1. PICK m \in Nat : m = y - left
  OBVIOUS
<1>2. m * (x + less) = x * y + less * y - (x + less) * left
  BY <1>1
<1>3. m * (x + less) <= less * y
  <2>1. x * y \in Nat /\ less * y \in Nat /\ (x + less) * left \in Nat
    OBVIOUS
  <2>2. QED
    BY <1>2, <2>1
<1>4. m <= out
  BY <1>3, FloorDivGreatest DEF swap_base_input_without_fees
<1>5. out \in Nat
  BY BaseInputCurve
<1>6. QED
  BY <1>1, <1>4, <1>5

\* The curve's price of an exact output is the least input that covers it: no
\* smaller one keeps the product.
LEMMA BaseOutputLeast ==
    ASSUME NEW out \in Nat, NEW x \in Nat \ {0}, NEW y \in Nat \ {0}, out < y,
           NEW swapped, swapped = swap_base_output_without_fees(out, x, y)
    PROVE  /\ swapped \in Nat
           /\ x * out <= swapped * (y - out)
           /\ \A m \in Nat : x * out <= m * (y - out) => swapped <= m
           /\ \A m \in 0 .. swapped - 1 : (x + m) * (y - out) < x * y
<1>1. y - out \in Nat \ {0}
  OBVIOUS
<1>2. swapped \in Nat /\ (y - out) * swapped >= x * out
  BY <1>1, CeilDivBounds DEF swap_base_output_without_fees
<1>3. x * out <= swapped * (y - out)
  BY <1>1, <1>2
<1>4. ASSUME NEW m \in Nat, x * out <= m * (y - out)
      PROVE  swapped <= m
  BY <1>1, <1>4, CeilDivLeast DEF swap_base_output_without_fees
<1>5. ASSUME NEW m \in 0 .. swapped - 1
      PROVE  (x + m) * (y - out) < x * y
  <2>1. m \in Nat /\ ~(swapped <= m)
    BY <1>2, <1>5
  <2>2. m * (y - out) < x * out
    <3>1. m * (y - out) \in Nat /\ x * out \in Nat
      BY <1>1, <2>1
    <3>2. QED
      BY <1>4, <2>1, <3>1
  <2>3. (x + m) * (y - out) = x * y - x * out + m * (y - out)
    BY <2>1
  <2>4. x * y \in Nat /\ x * out \in Nat /\ m * (y - out) \in Nat
    BY <1>1, <2>1
  <2>5. QED
    BY <2>2, <2>3, <2>4
<1>6. QED
  BY <1>2, <1>3, <1>4, <1>5

\* What an input bought, or less, costs no more than the input.
LEMMA BoughtCostsNoMore ==
    ASSUME NEW less \in Nat, NEW x \in Nat \ {0}, NEW y \in Nat \ {0},
           NEW out, out = swap_base_input_without_fees(less, x, y),
           NEW part \in 0 .. out
    PROVE  part < y /\ swap_base_output_without_fees(part, x, y) <= less
<1>1. out \in Nat /\ out < y /\ (x + less) * out <= less * y
  <2>1. out \in Nat /\ out < y
    BY BaseInputCurve
  <2>2. (x + less) * out <= less * y
    BY FloorDivBounds DEF swap_base_input_without_fees
  <2>3. QED
    BY <2>1, <2>2
<1>2. part \in Nat /\ part <= out /\ part < y
  BY <1>1
<1>3. (x + less) * part <= (x + less) * out
  BY <1>1, <1>2, MulMonotone
<1>4. /\ (x + less) * part = x * part + less * part
      /\ less * (y - part) = less * y - less * part
  BY <1>2
<1>5. x * part <= less * (y - part)
  <2>1. x * part \in Nat /\ less * part \in Nat /\ less * y \in Nat /\ (x + less) * out \in Nat
    BY <1>1, <1>2
  <2>2. QED
    BY <1>1, <1>3, <1>4, <2>1
<1>6. QED
  BY <1>2, <1>5, BaseOutputLeast

\* The price of an output, or more, buys no less than the output.
LEMMA PricePaidBuysNoLess ==
    ASSUME NEW out \in Nat, NEW x \in Nat \ {0}, NEW y \in Nat \ {0}, out < y,
           NEW less \in Nat, swap_base_output_without_fees(out, x, y) <= less
    PROVE  out <= swap_base_input_without_fees(less, x, y)
<1> DEFINE swapped == swap_base_output_without_fees(out, x, y)
<1>1. swapped \in Nat /\ x * out <= swapped * (y - out)
  BY BaseOutputLeast
<1>2. swapped * (y - out) <= less * (y - out)
  BY <1>1, MulMonotone
<1> HIDE DEF swapped
<1>3. /\ out * (x + less) = x * out + less * out
      /\ less * (y - out) = less * y - less * out
  OBVIOUS
<1>4. out * (x + less) <= less * y
  <2>1. x * out \in Nat /\ less * out \in Nat /\ less * y \in Nat /\ swapped * (y - out) \in Nat
    BY <1>1
  <2>2. QED
    BY <1>1, <1>2, <1>3, <2>1
<1>5. QED
  BY <1>4, FloorDivGreatest DEF swap_base_input_without_fees

\* A greater input brings no less.
LEMMA CurveOutputRises ==
    ASSUME NEW less \in Nat, NEW more \in Nat, less <= more,
           NEW x \in Nat \ {0}, NEW y \in Nat \ {0}
    PROVE  swap_base_input_without_fees(less, x, y) <= swap_base_input_without_fees(more, x, y)
<1>1. PICK out \in Nat : out = swap_base_input_without_fees(less, x, y) /\ out < y
  BY BaseInputCurve
<1>2. (x + less) * out <= less * y
  BY <1>1, FloorDivBounds DEF swap_base_input_without_fees
<1>3. PICK d \in Nat : more = less + d
  <2>1. more - less \in Nat /\ more = less + (more - less)
    OBVIOUS
  <2>2. QED
    BY <2>1
<1>4. out * d <= y * d
  BY <1>1, MulMonotone
<1>5. out * (x + more) = (x + less) * out + out * d /\ more * y = less * y + y * d
  <2>1. out * (x + (less + d)) = (x + less) * out + out * d
    OBVIOUS
  <2>2. (less + d) * y = less * y + y * d
    OBVIOUS
  <2>3. QED
    BY <1>3, <2>1, <2>2
<1>6. out * (x + more) <= more * y
  <2>1. (x + less) * out \in Nat /\ out * d \in Nat /\ less * y \in Nat /\ y * d \in Nat
    OBVIOUS
  <2>2. QED
    BY <1>2, <1>4, <1>5, <2>1
<1>7. QED
  BY <1>1, <1>6, FloorDivGreatest DEF swap_base_input_without_fees

\* A greater output costs no less.
LEMMA CurveInputRises ==
    ASSUME NEW x \in Nat \ {0}, NEW y \in Nat \ {0}, NEW out \in Nat, out < y,
           NEW part \in 0 .. out
    PROVE  swap_base_output_without_fees(part, x, y) <= swap_base_output_without_fees(out, x, y)
<1>1. PICK swapped \in Nat : /\ swapped = swap_base_output_without_fees(out, x, y)
                             /\ x * out <= swapped * (y - out)
  BY BaseOutputLeast
<1>2. part \in Nat /\ part < y /\ y - out \in Nat /\ y - part \in Nat /\ y - out <= y - part
  OBVIOUS
<1>3. x * part <= x * out /\ swapped * (y - out) <= swapped * (y - part)
  BY <1>2, MulMonotone
<1>4. x * part <= swapped * (y - part)
  <2>1. /\ x * part \in Nat /\ x * out \in Nat
        /\ swapped * (y - out) \in Nat /\ swapped * (y - part) \in Nat
    BY <1>2
  <2>2. \A p, q, r, t \in Nat : p <= q /\ q <= r /\ r <= t => p <= t
    OBVIOUS
  <2>3. QED
    BY <1>1, <1>3, <2>1, <2>2, Zenon
<1>5. QED
  BY <1>1, <1>2, <1>4, BaseOutputLeast

\* A part of the shares is worth less than the whole reserve.
LEMMA FloorShareLess ==
    ASSUME NEW lp \in Nat, NEW supply \in Nat \ {0}, NEW reserve \in Nat \ {0}, lp < supply
    PROVE  /\ lp_to_trading_floor(lp, supply, reserve) \in Nat
           /\ lp_to_trading_floor(lp, supply, reserve) < reserve
<1> DEFINE amount == floor_div(lp, reserve, supply)
<1>1. amount \in Nat /\ supply * amount <= lp * reserve
  BY FloorDivBounds
<1>2. lp * reserve < supply * reserve
  <2>1. PICK d \in Nat \ {0} : supply = lp + d
    <3>1. supply - lp \in Nat \ {0} /\ supply = lp + (supply - lp)
      OBVIOUS
    <3>2. QED
      BY <3>1
  <2>2. supply * reserve = lp * reserve + d * reserve
    BY <2>1
  <2>3. d * reserve > 0
    OBVIOUS
  <2>4. QED
    BY <2>2, <2>3
<1> HIDE DEF amount
<1>3. amount * supply < reserve * supply
  BY <1>1, <1>2
<1>4. amount < reserve
  BY <1>1, <1>3, MulCancel
<1>5. QED
  BY <1>1, <1>4 DEF amount, lp_to_trading_floor

\* The amount asked of a depositor is a natural number.
LEMMA CeilingShareNat ==
    ASSUME NEW lp \in Nat, NEW supply \in Nat \ {0}, NEW reserve \in Nat
    PROVE  lp_to_trading_ceiling(lp, supply, reserve) \in Nat
<1>1. floor_div(lp, reserve, supply) \in Nat
  BY FloorDivBounds
<1>2. QED
  BY <1>1 DEF lp_to_trading_ceiling

\* The price of a share rounded up is the least amount not below it.
LEMMA CeilingShareLeast ==
    ASSUME NEW lp \in Nat, NEW supply \in Nat \ {0}, NEW reserve \in Nat, NEW amount,
           amount = lp_to_trading_ceiling(lp, supply, reserve), amount > 0
    PROVE  /\ amount * supply >= reserve * lp
           /\ (amount - 1) * supply < reserve * lp
<1> DEFINE total == lp * reserve
           part == floor_div(lp, reserve, supply)
<1>1. total \in Nat /\ part \in Nat /\ total = reserve * lp
  BY FloorDivBounds
<1> HIDE DEF total
<1>2. /\ total % supply = total - supply * part
      /\ total % supply \in Int /\ total % supply >= 0 /\ total % supply < supply
  <2>1. part = total \div supply
    BY DEF floor_div, total
  <2>2. QED
    BY <1>1, <2>1, DivMod, Zenon
<1>3. amount = IF total % supply > 0 /\ part > 0 THEN part + 1 ELSE part
  BY DEF lp_to_trading_ceiling, total
<1> DEFINE rest == total % supply
           whole == supply * part
<1>4. /\ whole \in Int /\ rest \in Int /\ total = whole + rest
      /\ 0 <= rest /\ rest < supply
      /\ part * supply = whole
      /\ (part + 1) * supply = whole + supply
      /\ (part - 1) * supply = whole - supply
  <2> HIDE DEF part
  <2>1. /\ whole \in Int
        /\ part * supply = whole
        /\ (part + 1) * supply = whole + supply
        /\ (part - 1) * supply = whole - supply
    BY <1>1
  <2>2. rest \in Int /\ 0 <= rest /\ rest < supply /\ rest = total - whole
    BY <1>2
  <2> HIDE DEF whole, rest
  <2>3. QED
    BY <1>1, <2>1, <2>2
<1>5. amount = IF rest > 0 /\ part > 0 THEN part + 1 ELSE part
  BY <1>3
<1> HIDE DEF part, rest, whole
<1>6. CASE rest > 0 /\ part > 0
  <2>1. amount = part + 1 /\ amount - 1 = part
    BY <1>1, <1>5, <1>6
  <2>2. amount * supply = whole + supply /\ (amount - 1) * supply = whole
    BY <1>4, <2>1
  <2>3. QED
    BY <1>1, <1>4, <1>6, <2>2
<1>7. CASE ~(rest > 0 /\ part > 0)
  <2>1. amount = part /\ rest = 0
    BY <1>1, <1>4, <1>5, <1>7
  <2>2. amount * supply = whole /\ (amount - 1) * supply = whole - supply
    BY <1>4, <2>1
  <2>3. QED
    BY <1>1, <1>4, <2>1, <2>2
<1>8. QED
  BY <1>6, <1>7

-----------------------------------------------------------------------------
(* curve/calculator.rs *)

\* swap_base_input returns a sound result or none.
THEOREM SwapBaseInputSound ==
    ASSUME NEW input \in Nat, NEW x \in Nat \ {0}, NEW y \in Nat \ {0},
           NEW rates \in RateRecords, rates_within_denominator(rates),
           NEW on \in BOOLEAN,
           NEW result, result = swap_base_input(input, x, y, rates, on), result.ok
    PROVE  sound_result(result, x, y, on)
<1> DEFINE trade == trading_fee(input, rates.trade)
           less  == input_less_fees(input, rates, on)
           out   == swap_base_input_without_fees(less, x, y)
           base  == IF on THEN input ELSE out
           creator == creator_fee(base, rates.creator)
           output  == IF on THEN out ELSE out - creator
<1>0. /\ rates.trade \in Nat /\ rates.creator \in Nat
      /\ rates.protocol \in Nat /\ rates.fund \in Nat
      /\ rates.trade <= DEN /\ rates.creator <= DEN
      /\ rates.protocol + rates.fund <= DEN
  BY DenPositive DEF RateRecords, rates_within_denominator
<1>1. trade \in 0 .. input
  BY <1>0, CeilFeeBounded DEF trading_fee
<1>2. creator_fee(input, rates.creator) \in 0 .. input
  BY <1>0, CeilFeeBounded DEF creator_fee
<1>3. less \in Int
  BY <1>1, <1>2 DEF input_less_fees
<1>4. ~(less < 0 \/ x + less = 0 \/ output < 0)
  BY DEF swap_base_input, None
<1>5. /\ result.new_input_vault_amount = x + less
      /\ result.new_output_vault_amount = y - out
      /\ result.input_amount = input
      /\ result.output_amount = output
      /\ result.trade_fee = trade
      /\ result.protocol_fee = protocol_fee(trade, rates.protocol)
      /\ result.fund_fee = fund_fee(trade, rates.fund)
      /\ result.creator_fee = creator
  BY <1>4 DEF swap_base_input
<1>6. less \in Nat
  BY <1>3, <1>4
<1>7. /\ out \in Nat /\ out < y
      /\ (x + less) * (y - out) >= x * y
  BY <1>6, BaseInputCurve
<1>8. creator \in Nat /\ creator <= base
  BY <1>0, <1>7, CeilFeeBounded DEF creator_fee
<1>9. less = input - trade - (IF on THEN creator ELSE 0)
  BY DEF input_less_fees
<1> HIDE DEF trade, less, out, creator
<1>10. /\ protocol_fee(trade, rates.protocol) \in Nat
       /\ fund_fee(trade, rates.fund) \in Nat
       /\ protocol_fee(trade, rates.protocol) + fund_fee(trade, rates.fund) <= trade
  <2>1. trade \in Nat
    BY <1>1
  <2>2. QED
    BY <1>0, <2>1, FeeShares
<1>11. QED
  BY <1>1, <1>5, <1>6, <1>7, <1>8, <1>9, <1>10 DEF sound_result

\* swap_base_output returns a sound result or none.
THEOREM SwapBaseOutputSound ==
    ASSUME NEW output \in Nat, NEW x \in Nat \ {0}, NEW y \in Nat \ {0},
           NEW rates \in RateRecords, rates_within_denominator(rates),
           NEW on \in BOOLEAN,
           NEW result, result = swap_base_output(output, x, y, rates, on), result.ok
    PROVE  sound_result(result, x, y, on)
<1> DEFINE actual == IF on THEN output ELSE calculate_pre_fee_amount(output, rates.creator)
           swapped == swap_base_output_without_fees(actual, x, y)
           rate  == input_fee_rate(rates, on)
           input == calculate_pre_fee_amount(swapped, rate)
           split == split_creator_fee(input - swapped, rates.trade, rates.creator)
           creator == IF on THEN split ELSE actual - output
           trade == input - swapped - (IF on THEN creator ELSE 0)
<1>0. /\ rates.trade \in Nat /\ rates.creator \in Nat
      /\ rates.protocol \in Nat /\ rates.fund \in Nat
      /\ rates.protocol + rates.fund <= DEN
  BY DenPositive DEF RateRecords, rates_within_denominator
<1>1. swap_base_output_defined(output, y, rates, on)
  BY DEF swap_base_output, None
<1>2. /\ result.new_input_vault_amount = x + swapped
      /\ result.new_output_vault_amount = y - actual
      /\ result.input_amount = input
      /\ result.output_amount = output
      /\ result.trade_fee = trade
      /\ result.protocol_fee = protocol_fee(trade, rates.protocol)
      /\ result.fund_fee = fund_fee(trade, rates.fund)
      /\ result.creator_fee = creator
  BY <1>1 DEF swap_base_output
<1>3. actual \in Nat /\ actual >= output /\ actual < y
  BY <1>0, <1>1, PreFeeNotLess, DenPositive DEF swap_base_output_defined
<1>4. /\ swapped \in Nat
      /\ (x + swapped) * (y - actual) >= x * y
  BY <1>3, BaseOutputCurve
<1>5. rate \in Nat /\ rate < DEN
  BY <1>0, <1>1 DEF swap_base_output_defined, input_fee_rate
<1>6. input \in Nat /\ input >= swapped
  BY <1>4, <1>5, PreFeeNotLess
<1> HIDE DEF actual, swapped, rate, input
<1>7. on => split \in 0 .. (input - swapped)
  <2>1. input - swapped \in Nat
    BY <1>4, <1>6
  <2>2. on => rates.trade + rates.creator # 0
    BY <1>1 DEF swap_base_output_defined
  <2>3. QED
    BY <1>0, <2>1, <2>2, SplitBounded
<1> HIDE DEF split
<1>8. /\ creator \in Nat /\ trade \in Nat
      /\ input - trade - (IF on THEN creator ELSE 0) = swapped
      /\ output + (IF on THEN 0 ELSE creator) = actual
  <2>1. CASE on
    <3>1. split \in Nat /\ split <= input - swapped
      BY <2>1, <1>4, <1>6, <1>7
    <3>2. creator = split /\ trade = input - swapped - split /\ actual = output
      BY <2>1 DEF actual
    <3> HIDE DEF creator, trade
    <3>3. QED
      BY <2>1, <3>1, <3>2, <1>3, <1>4, <1>6
  <2>2. CASE ~on
    BY <2>2, <1>3, <1>4, <1>6
  <2>3. QED
    BY <2>1, <2>2
<1> HIDE DEF creator, trade
<1>9. /\ protocol_fee(trade, rates.protocol) \in Nat
      /\ fund_fee(trade, rates.fund) \in Nat
      /\ protocol_fee(trade, rates.protocol) + fund_fee(trade, rates.fund) <= trade
  BY <1>0, <1>8, FeeShares
<1>10. /\ x + swapped >= x /\ y - actual > 0
       /\ x + swapped = x + input - trade - (IF on THEN creator ELSE 0)
       /\ y - actual = y - output - (IF on THEN 0 ELSE creator)
  <2>1. CASE on
    BY <2>1, <1>3, <1>4, <1>6, <1>8
  <2>2. CASE ~on
    BY <2>2, <1>3, <1>4, <1>6, <1>8
  <2>3. QED
    BY <2>1, <2>2
<1>11. QED
  BY <1>2, <1>4, <1>6, <1>8, <1>9, <1>10 DEF sound_result

\* Without the creator fee an exact input brings no less ...
THEOREM WithoutCreatorFeeBringsNoLess ==
    ASSUME NEW input \in Nat, NEW x \in Nat \ {0}, NEW y \in Nat \ {0},
           NEW rates \in RateRecords, rates_within_denominator(rates),
           NEW on \in BOOLEAN,
           NEW result, result = swap_base_input(input, x, y, rates, on), result.ok,
           NEW free, free = swap_base_input(input, x, y, [rates EXCEPT !.creator = 0], on),
           free.ok
    PROVE  result.output_amount <= free.output_amount
<1> DEFINE waived == [rates EXCEPT !.creator = 0]
           less == input_less_fees(input, rates, on)
           more == input_less_fees(input, waived, on)
           out == swap_base_input_without_fees(less, x, y)
           most == swap_base_input_without_fees(more, x, y)
           fee == creator_fee(IF on THEN input ELSE out, rates.creator)
           none == creator_fee(IF on THEN input ELSE most, 0)
<1>1. /\ rates.trade \in Nat /\ rates.creator \in Nat
      /\ rates.trade <= DEN /\ rates.creator <= DEN
      /\ waived.trade = rates.trade /\ waived.creator = 0
  BY DenPositive DEF RateRecords, rates_within_denominator
<1>2. \A a \in Nat : creator_fee(a, 0) = 0 /\ creator_fee(a, rates.creator) \in 0 .. a
  <2> TAKE a \in Nat
  <2>1. DEN \in Nat \ {0} /\ a * 0 = 0 /\ (0 + DEN - 1) \div DEN = 0
    BY DenPositive
  <2>2. creator_fee(a, 0) = 0
    BY <2>1 DEF creator_fee, ceil_div
  <2>3. creator_fee(a, rates.creator) \in 0 .. a
    BY <1>1, CeilFeeBounded DEF creator_fee
  <2>4. QED
    BY <2>2, <2>3
<1>3. trading_fee(input, rates.trade) \in 0 .. input
  BY <1>1, CeilFeeBounded DEF trading_fee
<1>4. less \in Int /\ more \in Int /\ less <= more
  BY <1>1, <1>2, <1>3 DEF input_less_fees
<1>5. ~(less < 0) /\ result.output_amount = (IF on THEN out ELSE out - fee)
  BY DEF swap_base_input, None
<1>6. ~(more < 0) /\ free.output_amount = (IF on THEN most ELSE most - none)
  BY <1>1 DEF swap_base_input, None
<1> HIDE DEF less, more
<1>7. less \in Nat /\ more \in Nat
  BY <1>4, <1>5, <1>6
<1>8. out \in Nat /\ most \in Nat /\ out <= most
  BY <1>4, <1>7, BaseInputCurve, CurveOutputRises
<1> HIDE DEF out, most
<1>9. fee \in Nat /\ none = 0
  BY <1>2, <1>8
<1> HIDE DEF fee, none
<1>10. QED
  BY <1>5, <1>6, <1>8, <1>9

\* ... and an exact output costs no more.
THEOREM WithoutCreatorFeeCostsNoMore ==
    ASSUME NEW output \in Nat, NEW x \in Nat \ {0}, NEW y \in Nat \ {0},
           NEW rates \in RateRecords, rates_within_denominator(rates),
           NEW on \in BOOLEAN,
           NEW result, result = swap_base_output(output, x, y, rates, on), result.ok,
           NEW free, free = swap_base_output(output, x, y, [rates EXCEPT !.creator = 0], on),
           free.ok
    PROVE  free.input_amount <= result.input_amount
<1> DEFINE waived == [rates EXCEPT !.creator = 0]
           actual == IF on THEN output ELSE calculate_pre_fee_amount(output, rates.creator)
           least == IF on THEN output ELSE calculate_pre_fee_amount(output, 0)
           swapped == swap_base_output_without_fees(actual, x, y)
           cheapest == swap_base_output_without_fees(least, x, y)
           rate == input_fee_rate(rates, on)
           lower == input_fee_rate(waived, on)
<1>1. /\ rates.trade \in Nat /\ rates.creator \in Nat
      /\ waived.trade = rates.trade /\ waived.creator = 0
  BY DenPositive DEF RateRecords, rates_within_denominator
<1>2. /\ swap_base_output_defined(output, y, rates, on)
      /\ result.input_amount = calculate_pre_fee_amount(swapped, rate)
  BY DEF swap_base_output, None
<1>3. free.input_amount = calculate_pre_fee_amount(cheapest, lower)
  BY <1>1 DEF swap_base_output, None
<1>4. rate < DEN /\ (on \/ rates.creator < DEN) /\ actual < y
  BY <1>2 DEF swap_base_output_defined
<1>5. rate \in Nat /\ lower \in Nat /\ lower <= rate
  BY <1>1 DEF input_fee_rate
<1>6. actual \in Nat /\ least \in 0 .. actual
  <2>1. CASE on
    BY <2>1
  <2>2. CASE ~on
    <3>1. calculate_pre_fee_amount(output, rates.creator) \in Nat
          /\ calculate_pre_fee_amount(output, rates.creator) >= output
      BY <1>1, <1>4, <2>2, PreFeeNotLess
    <3>2. calculate_pre_fee_amount(output, 0) = output
      BY DEF calculate_pre_fee_amount
    <3>3. QED
      BY <2>2, <3>1, <3>2
  <2>3. QED
    BY <2>1, <2>2
<1> HIDE DEF actual, least, rate, lower, waived
<1>7. least \in Nat /\ least < y
  BY <1>4, <1>6
<1>8. swapped \in Nat /\ cheapest \in Nat /\ cheapest <= swapped
  BY <1>4, <1>6, <1>7, BaseOutputCurve, CurveInputRises
<1> HIDE DEF swapped, cheapest
<1>9. QED
  BY <1>2, <1>3, <1>4, <1>5, <1>8, PreFeeRises

-----------------------------------------------------------------------------
(* Transfer fees. *)

\* The parts of a transfer fee.
LEMMA TransferFeeParts ==
    ASSUME NEW fee \in TransferFees
    PROVE  /\ fee.transfer_fee_basis_points \in Nat
           /\ fee.transfer_fee_basis_points <= MAX_FEE_BASIS_POINTS
           /\ fee.maximum_fee \in Nat
           /\ MAX_FEE_BASIS_POINTS \in Nat \ {0}
  BY BasisPointsAssumption DEF TransferFees

\* Rounding a * p / m up stays within a when p is at most m.
LEMMA CeilShareBounded ==
    ASSUME NEW a \in Nat, NEW p \in Nat, NEW m \in Nat \ {0}, p <= m
    PROVE  (a * p + m - 1) \div m \in 0 .. a
<1> DEFINE q == (a * p + m - 1) \div m
<1>1. a * p \in Nat /\ a * p <= a * m
  <2>1. PICK d \in Nat : m = p + d
    <3>1. m - p \in Nat /\ m = p + (m - p)
      OBVIOUS
    <3>2. QED
      BY <3>1
  <2>2. a * m = a * p + a * d /\ a * d >= 0 /\ a * p >= 0
    BY <2>1
  <2>3. QED
    BY <2>2
<1>2. q \in Nat /\ m * q <= a * p + m - 1
  BY <1>1
<1> HIDE DEF q
<1>3. m * q < (a + 1) * m
  BY <1>1, <1>2
<1>4. q < a + 1
  <2>1. SUFFICES ASSUME q >= a + 1 PROVE FALSE
    BY <1>2
  <2>2. PICK d \in Nat : q = a + 1 + d
    <3>1. q - (a + 1) \in Nat /\ q = a + 1 + (q - (a + 1))
      BY <1>2, <2>1
    <3>2. QED
      BY <3>1
  <2>3. m * q = (a + 1) * m + d * m /\ d * m >= 0
    BY <2>2
  <2>4. QED
    BY <1>3, <2>3
<1>5. QED
  BY <1>2, <1>4 DEF q

\* No transfer has more withheld than it carries (utils/token.rs:161).
LEMMA TransferFeeBounded ==
    ASSUME NEW fee \in TransferFees, NEW amount \in Nat
    PROVE  calculate_fee(fee, amount) \in 0 .. amount
<1> DEFINE p == fee.transfer_fee_basis_points
           share == (amount * p + MAX_FEE_BASIS_POINTS - 1) \div MAX_FEE_BASIS_POINTS
<1>1. p \in Nat /\ p <= MAX_FEE_BASIS_POINTS /\ MAX_FEE_BASIS_POINTS \in Nat \ {0}
  BY TransferFeeParts
<1> HIDE DEF p
<1>2. share \in 0 .. amount
  BY <1>1, CeilShareBounded
<1> HIDE DEF share
<1>3. calculate_fee(fee, amount) = lesser(share, fee.maximum_fee)
  BY DEF calculate_fee, share, p
<1>4. QED
  BY <1>2, <1>3, TransferFeeParts DEF lesser

\* The amount to send is never less than the amount that is to arrive.
LEMMA InverseFeeNat ==
    ASSUME NEW fee \in TransferFees, NEW amount \in Nat
    PROVE  get_transfer_inverse_fee(fee, amount) \in Nat
<1> DEFINE p == fee.transfer_fee_basis_points
           unit == MAX_FEE_BASIS_POINTS - p
<1>1. CASE p = MAX_FEE_BASIS_POINTS
  BY <1>1, TransferFeeParts DEF get_transfer_inverse_fee
<1>2. CASE p # MAX_FEE_BASIS_POINTS
  <2>1. unit \in Nat \ {0} /\ p \in Nat
    BY <1>2, TransferFeeParts
  <2>2. amount * MAX_FEE_BASIS_POINTS + unit - 1 \in Nat
    <3>1. amount * MAX_FEE_BASIS_POINTS \in Nat
      BY TransferFeeParts
    <3>2. QED
      BY <2>1, <3>1
  <2>3. (amount * MAX_FEE_BASIS_POINTS + unit - 1) \div unit \in Nat
    BY <2>1, <2>2
  <2>4. calculate_pre_fee_transfer(fee, amount) \in Nat
    BY <1>2, <2>3, TransferFeeParts DEF calculate_pre_fee_transfer
  <2>5. QED
    BY <1>2, <2>4, TransferFeeBounded DEF get_transfer_inverse_fee, calculate_inverse_fee
<1>3. QED
  BY <1>1, <1>2

\* When the check behind TransferFeeCalculateNotMatch passes, exactly the
\* amount asked for arrives, also at the 100% rate, where the code returns the
\* cap without checking (utils/token.rs:143).
THEOREM InverseFeeExact ==
    ASSUME NEW fee \in TransferFees, NEW amount \in Nat, inverse_fee_matches(fee, amount),
           NEW sent, sent = amount + get_transfer_inverse_fee(fee, amount)
    PROVE  sent \in Nat /\ sent - calculate_fee(fee, sent) = amount
<1>1. get_transfer_inverse_fee(fee, amount) \in Nat /\ sent \in Nat
  BY InverseFeeNat
<1>2. CASE fee.transfer_fee_basis_points = MAX_FEE_BASIS_POINTS
  <2>1. sent = amount + fee.maximum_fee
    BY <1>2 DEF get_transfer_inverse_fee
  <2>2. (sent * MAX_FEE_BASIS_POINTS + MAX_FEE_BASIS_POINTS - 1)
            \div MAX_FEE_BASIS_POINTS = sent
    <3> DEFINE m == MAX_FEE_BASIS_POINTS
               q == (sent * m + m - 1) \div m
    <3>1. m \in Nat \ {0} /\ m <= m
      BY TransferFeeParts
    <3> HIDE DEF m
    <3>2. q \in 0 .. sent
      BY <1>1, <3>1, CeilShareBounded
    <3>3. sent * m \in Nat /\ sent * m + m - 1 < m * q + m
      BY <1>1, <3>1
    <3> HIDE DEF q
    <3>4. SUFFICES ASSUME q < sent PROVE FALSE
      BY <1>1, <3>2 DEF m, q
    <3>5. PICK d \in Nat : sent = q + 1 + d
      <4>1. sent - (q + 1) \in Nat /\ sent = q + 1 + (sent - (q + 1))
        BY <1>1, <3>2, <3>4
      <4>2. QED
        BY <4>1
    <3>6. sent * m = m * q + m + d * m /\ d * m >= 0
      BY <3>1, <3>2, <3>5
    <3>7. m * q \in Nat
      BY <3>1, <3>2
    <3>8. QED
      BY <3>1, <3>3, <3>6, <3>7
  <2>3. calculate_fee(fee, sent) = fee.maximum_fee
    BY <1>1, <1>2, <2>1, <2>2, TransferFeeParts DEF calculate_fee, lesser
  <2>4. QED
    BY <1>1, <2>1, <2>3, TransferFeeParts
<1>3. CASE fee.transfer_fee_basis_points # MAX_FEE_BASIS_POINTS
  <2>1. calculate_fee(fee, sent) = get_transfer_inverse_fee(fee, amount)
    BY <1>3 DEF inverse_fee_matches
  <2>2. QED
    BY <1>1, <2>1
<1>4. QED
  BY <1>2, <1>3

\* A greater transfer has no less withheld, and no more than it is greater by.
LEMMA TransferFeeRises ==
    ASSUME NEW fee \in TransferFees, NEW a \in Nat, NEW b \in Nat, a <= b
    PROVE  /\ calculate_fee(fee, a) <= calculate_fee(fee, b)
           /\ a - calculate_fee(fee, a) <= b - calculate_fee(fee, b)
<1> DEFINE p == fee.transfer_fee_basis_points
           m == MAX_FEE_BASIS_POINTS
           share(c) == ceil_div(c, p, m)
<1>1. p \in Nat /\ p <= m /\ m \in Nat \ {0} /\ fee.maximum_fee \in Nat
  BY TransferFeeParts
<1>2. /\ calculate_fee(fee, a) = lesser(share(a), fee.maximum_fee)
      /\ calculate_fee(fee, b) = lesser(share(b), fee.maximum_fee)
  BY DEF calculate_fee, ceil_div
<1> HIDE DEF p, m
<1>3. PICK d \in Nat : b = a + d
  <2>1. b - a \in Nat /\ b = a + (b - a)
    OBVIOUS
  <2>2. QED
    BY <2>1
<1>4. PICK s \in Nat, t \in Nat : /\ s = share(a) /\ m * s >= a * p
                                  /\ t = share(b) /\ m * t >= b * p
  BY <1>1, CeilDivBounds
<1>5. b * p = a * p + d * p /\ a * p \in Nat /\ d * p \in Nat /\ d * m \in Nat /\ d * p <= d * m
  BY <1>1, <1>3, MulMonotone
<1>6. s <= t
  <2>1. a * p <= t * m
    BY <1>1, <1>4, <1>5
  <2>2. QED
    BY <1>1, <1>4, <2>1, CeilDivLeast
<1>7. t <= s + d
  <2>1. (s + d) * m = m * s + d * m /\ m * s \in Nat
    BY <1>1
  <2>2. b * p <= (s + d) * m
    BY <1>4, <1>5, <2>1
  <2>3. QED
    BY <1>1, <1>4, <2>2, CeilDivLeast
<1> HIDE DEF share
<1>8. QED
  BY <1>1, <1>2, <1>3, <1>4, <1>6, <1>7 DEF lesser

\* The amount to send rises with the amount that is to arrive.
LEMMA SentRises ==
    ASSUME NEW fee \in TransferFees, NEW a \in Nat, NEW b \in Nat, a <= b
    PROVE  a + get_transfer_inverse_fee(fee, a) <= b + get_transfer_inverse_fee(fee, b)
<1> DEFINE p == fee.transfer_fee_basis_points
           m == MAX_FEE_BASIS_POINTS
           unit == m - p
           raw(c) == ceil_div(c, m, unit)
<1>1. p \in Nat /\ p <= m /\ m \in Nat \ {0} /\ fee.maximum_fee \in Nat
  BY TransferFeeParts
<1>2. CASE p = m
  BY <1>1, <1>2 DEF get_transfer_inverse_fee
<1>3. CASE p # m
  <2>1. ASSUME NEW c \in Nat
        PROVE  /\ get_transfer_inverse_fee(fee, c)
                      = calculate_fee(fee, calculate_pre_fee_transfer(fee, c))
               /\ calculate_pre_fee_transfer(fee, c) =
                      IF p = 0 THEN c
                      ELSE IF raw(c) - c >= fee.maximum_fee THEN c + fee.maximum_fee ELSE raw(c)
    BY <1>3 DEF get_transfer_inverse_fee, calculate_inverse_fee, calculate_pre_fee_transfer,
                ceil_div
  <2>2. unit \in Nat \ {0}
    BY <1>1, <1>3
  <2> HIDE DEF p, m, unit
  <2>3. PICK r \in Nat, s \in Nat : /\ r = raw(a)
                                    /\ s = raw(b) /\ unit * s >= b * m
    BY <1>1, <2>2, CeilDivBounds
  <2>4. r <= s
    <3>1. a * m <= b * m /\ a * m \in Nat /\ b * m \in Nat /\ unit * s = s * unit
      BY <1>1, <2>2, MulMonotone
    <3>2. a * m <= s * unit
      BY <2>2, <2>3, <3>1
    <3>3. QED
      BY <1>1, <2>2, <2>3, <3>2, CeilDivLeast
  <2> HIDE DEF raw
  <2>5. PICK u \in Nat, v \in Nat : /\ u = calculate_pre_fee_transfer(fee, a)
                                    /\ v = calculate_pre_fee_transfer(fee, b)
                                    /\ u <= v
    BY <1>1, <2>1, <2>3, <2>4
  <2>6. /\ get_transfer_inverse_fee(fee, a) = calculate_fee(fee, u)
        /\ get_transfer_inverse_fee(fee, b) = calculate_fee(fee, v)
    BY <2>1, <2>5
  <2>7. /\ calculate_fee(fee, u) <= calculate_fee(fee, v)
        /\ calculate_fee(fee, u) \in Nat /\ calculate_fee(fee, v) \in Nat
    BY <2>5, TransferFeeRises, TransferFeeBounded
  <2>8. QED
    BY <2>6, <2>7
<1>4. QED
  BY <1>2, <1>3
=============================================================================
