-------------------------- MODULE ClientQuoteProofs --------------------------
(***************************************************************************)
(* What the client tells its user is so, what its commands cost is within  *)
(* the slippage, and the pool under its commands keeps all it keeps in     *)
(* Pool.tla, for all mints, epochs, slippages and amounts.                 *)
(*                                                                         *)
(* The inductive invariant joins the pool's (IInv) with what the client    *)
(* knows at each phase: the accounts it fetched were those of a live pool  *)
(* (FetchedLive), the limit it signed is a quote at the epoch it read      *)
(* (LimitQuoted), and the status, the copies in the network and the        *)
(* validity of the blockhash go together with the phase (TxnFollows).      *)
(*                                                                         *)
(* PoolProofs brings the parameters of KTokenSwap; they play no part here. *)
(***************************************************************************)
EXTENDS ClientQuote, PoolProofs

Kinds == {"deposit", "withdraw", "swap_base_in", "swap_base_out"}

Outcomes == {"none", "confirmed", "failed", "unconfirmed", "panicked"}

ClientTypeOK ==
    /\ mint \in MintPairs
    /\ epoch \in Nat
    /\ client \in [phase : Phases, kind : Kinds, i : Side, amount : U64,
                   pool_state : PoolStates, vault : [Side -> U64],
                   amm_config : Config!Configs, limit : [Side -> Int], epoch : Nat,
                   outcome : Outcomes]
    /\ txn \in [status : {"none", "executed", "refused"}, in_network : BOOLEAN,
                valid : BOOLEAN]

\* The accounts fetched are those of a pool that can be quoted.
FetchedLive ==
    client.phase # "idle" =>
        /\ client.pool_state.initialized
        /\ client.pool_state.lp_supply > 0
        /\ \A i \in Side : Fetched!vault_amount_without_fee(i) > 0
        /\ rates_within_denominator(client_rates)

\* The limit signed is one the client may quote at the epoch it read.
LimitQuoted ==
    client.phase \in {"signed", "sent", "polled"} =>
        \A i \in Side :
            /\ \A e \in Nat : e = client.epoch => client.limit[i] \in quote_limit(e, i)
            /\ client.limit[i] # NoLimit

\* What the ledger and the network may know of the transaction in each phase.
TxnFollows ==
    /\ client.phase = "fetched" => txn = NoTxn
    /\ client.phase = "signed" => txn.status = "none" /\ ~txn.in_network
    /\ client.phase = "idle" =>
           /\ client.outcome \in {"none", "panicked"} => txn = NoTxn
           /\ client.outcome = "confirmed" => txn.status = "executed"
           /\ client.outcome = "failed" => txn.status = "refused"
           /\ client.outcome = "unconfirmed" => ~txn.valid

ClientInv ==
    /\ IInv
    /\ ClientTypeOK
    /\ FetchedLive
    /\ LimitQuoted
    /\ TxnFollows

-----------------------------------------------------------------------------
(* What the client calculates with. *)

\* The empty accounts have their types.
LEMMA EmptyAccounts ==
    /\ NoPool \in PoolStates
    /\ NoFees \in [Side -> U64]
    /\ NoFees \in [Side -> Int]
    /\ Config!NoConfig \in Config!Configs
<1>1. 0 \in U64
  BY PoolAssumption DEF U64
<1>2. NoFees \in [Side -> U64] /\ NoFees \in [Side -> Int]
  BY <1>1 DEF NoFees
<1>3. NoPool \in PoolStates
  BY <1>1, <1>2 DEF NoPool, PoolStates, CreatorFeeOn
<1>4. Config!NoConfig \in Config!Configs
  BY PoolAssumption DEF Config!NoConfig, Config!Configs
<1>5. QED
  BY <1>2, <1>3, <1>4

\* A mint charges one of its two fees, whatever it is asked for.
LEMMA MintFee ==
    ASSUME ClientTypeOK, NEW k \in Side, NEW e
    PROVE  get_epoch_fee(mint[k], e) \in TransferFees
  BY ClientAssumption DEF ClientTypeOK, get_epoch_fee

\* So the token program withholds a fee that instructions may meet.
LEMMA CurrentFees ==
    ASSUME ClientTypeOK
    PROVE  current_fee \in AnyFees
  BY MintFee DEF current_fee, AnyFees

\* The client's estimates of transfer fees are natural numbers.
LEMMA ClientFees ==
    ASSUME ClientTypeOK, NEW k \in Side, NEW e, NEW amount \in Nat
    PROVE  /\ client_transfer_fee(mint[k], e, amount) \in 0 .. amount
           /\ client_inverse_fee(mint[k], e, amount) \in Nat
  BY MintFee, TransferFeeBounded, InverseFeeNat DEF client_transfer_fee, client_inverse_fee

\* What the client adds of slippage is within the slippage, the precision and a
\* unit of rounding; and it is no less than the amount, where there is slippage
\* or the answer is below the precision.
LEMMA SlippedUp ==
    ASSUME NEW amount \in U64, NEW r \in amount_with_slippage(amount, TRUE)
    PROVE  /\ r \in U64
           /\ costs_at_most(r, amount)
           /\ SlippagePercent > 0 \/ r < FLOAT_PRECISION - 1 => amount <= r
<1>1. PICK F \in Nat, s \in 0 .. 100 :
          F = FLOAT_PRECISION /\ F > 100 /\ s = SlippagePercent
  BY ClientAssumption
<1>2. U64_MAX \in Nat /\ amount \in Nat /\ amount <= U64_MAX
  BY PoolAssumption DEF U64
<1> DEFINE unit == 100 * F
           exact == (100 + s) * F
           least == exact - 100
           most == exact + 100
<1>3. /\ unit \in Nat \ {0} /\ least \in Nat /\ most \in Nat
      /\ s > 0 => unit <= least
      /\ s = 0 => least = unit - 100
  <2>1. PICK part \in Nat : part = s * F /\ (s > 0 => F <= part)
    BY MulMonotone, <1>1
  <2>2. exact = unit + part
    BY <1>1, <2>1
  <2>3. s = 0 => part = 0
    BY <2>1
  <2> HIDE DEF exact
  <2>4. QED
    BY <1>1, <2>1, <2>2, <2>3
<1>4. PICK n \in ceil_div(amount, least, unit) .. ceil_div(amount, most, unit) : r = as_u64(n)
  BY <1>1 DEF amount_with_slippage
<1>5. unit * F - 100 * F = (F - 1) * unit
  BY <1>1
<1>6. costs_at_most(r, amount) <=> unit * r < amount * most + unit
  BY <1>1, Zenon DEF costs_at_most
<1> HIDE DEF unit, exact, least, most
<1>7. n \in Nat /\ amount * least <= n * unit /\ n * unit < amount * most + unit
  <2>1. PICK c \in Nat, d \in Nat :
            /\ n \in c .. d
            /\ unit * c >= amount * least
            /\ unit * d < amount * most + unit
    BY <1>2, <1>3, <1>4, CeilDivBounds
  <2>2. n \in Nat /\ unit * c <= n * unit /\ n * unit <= unit * d
    <3>1. n \in Nat /\ c <= n /\ n <= d
      BY <2>1
    <3>2. c * unit <= n * unit /\ n * unit <= d * unit
      BY <1>3, <2>1, <3>1, MulMonotone
    <3>3. c * unit = unit * c /\ d * unit = unit * d
      BY <1>3, <2>1
    <3>4. QED
      BY <3>1, <3>2, <3>3
  <2>3. /\ unit * c \in Int /\ unit * d \in Int /\ n * unit \in Int
        /\ amount * least \in Int /\ amount * most \in Int
    BY <1>2, <1>3, <2>1, <2>2
  <2>4. QED
    BY <1>3, <2>1, <2>2, <2>3
<1>8. r \in Nat /\ r <= n /\ r <= U64_MAX /\ (r = n \/ r = U64_MAX)
  BY <1>2, <1>4, <1>7 DEF as_u64, lesser
<1>9. r \in U64
  BY <1>2, <1>8 DEF U64
<1>10. unit * r < amount * most + unit
  <2>1. unit * r <= n * unit
    <3>1. r * unit <= n * unit /\ r * unit = unit * r
      BY <1>3, <1>7, <1>8, MulMonotone
    <3>2. QED
      BY <3>1
  <2>2. unit * r \in Int /\ n * unit \in Int /\ amount * most \in Int
    BY <1>2, <1>3, <1>7, <1>8
  <2>3. QED
    BY <1>3, <1>7, <2>1, <2>2
<1>11. ASSUME s > 0 PROVE amount <= r
  <2>1. amount * unit <= amount * least
    BY <1>2, <1>3, <1>11, MulMonotone
  <2>2. amount * unit <= n * unit
    <3>1. amount * unit \in Int /\ amount * least \in Int /\ n * unit \in Int
      BY <1>2, <1>3, <1>7
    <3>2. QED
      BY <1>7, <2>1, <3>1
  <2>3. amount <= n
    BY <1>2, <1>3, <1>7, <2>2, MulCancelWeak
  <2>4. QED
    BY <1>2, <1>8, <2>3
<1>12. ASSUME s = 0, r < F - 1 PROVE amount <= r
  <2>1. SUFFICES ASSUME r < amount PROVE FALSE
    BY <1>2, <1>8
  <2>2. r = n /\ n + 1 <= amount
    BY <1>2, <1>7, <1>8, <2>1
  <2>3. amount * least = amount * unit - 100 * amount
    BY <1>2, <1>3, <1>12
  <2>4. (n + 1) * unit <= amount * unit /\ (n + 1) * unit = n * unit + unit
    BY <1>2, <1>3, <1>7, <2>2, MulMonotone
  <2>5. amount * unit \in Int /\ n * unit \in Int
    BY <1>2, <1>3, <1>7
  <2>6. unit <= 100 * amount
    BY <1>2, <1>3, <1>7, <2>3, <2>4, <2>5
  <2>7. F <= amount
    BY <1>1, <1>2, <2>6 DEF unit
  <2>8. F * least <= amount * least
    BY <1>1, <1>2, <1>3, <2>7, MulMonotone
  <2>9. F * least = (F - 1) * unit
    <3>1. F * least = F * unit - 100 * F /\ F * unit = unit * F
      BY <1>1, <1>3, <1>12
    <3>2. QED
      BY <1>5, <3>1
  <2>10. (F - 1) * unit <= n * unit
    <3>1. (F - 1) * unit \in Int /\ amount * least \in Int /\ n * unit \in Int
      BY <1>1, <1>2, <1>3, <1>7
    <3>2. QED
      BY <1>7, <2>8, <2>9, <3>1
  <2>11. F - 1 <= n
    <3>1. F - 1 \in Int
      BY <1>1
    <3>2. QED
      BY <1>3, <1>7, <2>10, <3>1, MulCancelWeak
  <2>12. QED
    BY <1>1, <1>12, <2>2, <2>11, <1>7
<1>13. QED
  BY <1>1, <1>6, <1>9, <1>10, <1>11, <1>12

\* What it takes off for slippage likewise.
LEMMA SlippedDown ==
    ASSUME NEW amount \in U64, NEW r \in amount_with_slippage(amount, FALSE)
    PROVE  /\ r \in U64
           /\ brings_at_least(r, amount)
           /\ SlippagePercent > 0 \/ r < FLOAT_PRECISION - 1 => r <= amount
           /\ SlippagePercent > 0 /\ amount > 0 => r <= amount - 1
<1>1. PICK F \in Nat, s \in 0 .. 100 :
          F = FLOAT_PRECISION /\ F > 100 /\ s = SlippagePercent
  BY ClientAssumption
<1>2. U64_MAX \in Nat /\ amount \in Nat /\ amount <= U64_MAX
  BY PoolAssumption DEF U64
<1> DEFINE unit == 100 * F
           exact == (100 - s) * F
           least == exact - 100
           most == exact + 100
<1>3. /\ unit \in Nat \ {0} /\ least \in Int /\ most \in Nat /\ least <= unit
      /\ s > 0 => most < unit
      /\ s = 0 => most = unit + 100
  <2>1. PICK part \in Nat : part = s * F /\ (s > 0 => F <= part) /\ part <= 100 * F
    BY MulMonotone, <1>1
  <2>2. exact = unit - part
    BY <1>1, <2>1
  <2>3. s = 0 => part = 0
    BY <2>1
  <2> HIDE DEF exact
  <2>4. QED
    BY <1>1, <2>1, <2>2, <2>3
<1>4. PICK n \in floor_div(amount, least, unit) .. floor_div(amount, most, unit) : r = as_u64(n)
  BY <1>1 DEF amount_with_slippage
<1>5. brings_at_least(r, amount) <=> unit * r > amount * least - unit
  BY <1>1, Zenon DEF brings_at_least
<1> HIDE DEF exact, least, most
<1>6. n \in Int /\ amount * least - unit < n * unit /\ n * unit <= amount * most
  <2> HIDE DEF unit
  <2>1. /\ amount * least \in Int /\ amount * most \in Nat
    BY <1>2, <1>3
  <2>2. PICK c \in Int, d \in Int :
            /\ n \in c .. d
            /\ amount * least < unit * c + unit
            /\ unit * d <= amount * most
    <3>1. ASSUME NEW a \in Int
          PROVE  a \div unit \in Int /\ unit * (a \div unit) <= a /\ a < unit * (a \div unit) + unit
      BY <1>3
    <3>2. QED
      BY <1>4, <2>1, <3>1 DEF floor_div
  <2>3. n \in Int /\ c <= n /\ n <= d
    BY <2>2
  <2>4. unit * c <= n * unit /\ n * unit <= unit * d
    <3>1. PICK a \in Nat, b \in Nat : n = c + a /\ d = n + b
      <4>1. n - c \in Nat /\ d - n \in Nat /\ n = c + (n - c) /\ d = n + (d - n)
        BY <2>2, <2>3
      <4>2. QED
        BY <4>1
    <3>2. n * unit = unit * c + a * unit /\ unit * d = n * unit + b * unit
      BY <1>3, <2>2, <2>3, <3>1
    <3>3. /\ a * unit \in Nat /\ b * unit \in Nat
          /\ unit * c \in Int /\ n * unit \in Int
      BY <1>3, <2>2, <2>3, <3>1
    <3>4. QED
      BY <3>2, <3>3
  <2>5. unit * c \in Int /\ unit * d \in Int /\ n * unit \in Int
    BY <1>3, <2>2, <2>3
  <2>6. QED
    BY <1>3, <2>1, <2>2, <2>3, <2>4, <2>5
<1>7. /\ r \in Nat /\ r <= U64_MAX
      /\ r >= n \/ r = U64_MAX
      /\ r <= n \/ r = 0
  BY <1>2, <1>4, <1>6 DEF as_u64, lesser
<1>8. r \in U64
  BY <1>2, <1>7 DEF U64
<1>9. unit * r > amount * least - unit
  <2>1. CASE r >= n
    <3>1. PICK a \in Nat : r = n + a
      <4>1. r - n \in Nat /\ r = n + (r - n)
        BY <1>6, <1>7, <2>1
      <4>2. QED
        BY <4>1
    <3>2. unit * r = n * unit + a * unit /\ a * unit \in Nat /\ n * unit \in Int
      BY <1>3, <1>6, <3>1
    <3>3. amount * least \in Int
      BY <1>2, <1>3
    <3>4. QED
      BY <1>3, <1>6, <3>2, <3>3
  <2>2. CASE r = U64_MAX
    <3>1. PICK a \in Nat, b \in Nat : r = amount + a /\ unit = least + b
      <4>1. /\ r - amount \in Nat /\ r = amount + (r - amount)
            /\ unit - least \in Nat /\ unit = least + (unit - least)
        BY <1>2, <1>3, <2>2
      <4>2. QED
        BY <4>1
    <3>2. unit * r = amount * least + amount * b + a * unit
      BY <1>2, <1>3, <3>1
    <3>3. amount * b \in Nat /\ a * unit \in Nat /\ amount * least \in Int
      BY <1>2, <1>3, <3>1
    <3>4. QED
      BY <1>3, <3>2, <3>3
  <2>3. QED
    BY <1>7, <2>1, <2>2
<1>10. ASSUME r > 0 PROVE r * unit <= amount * most
  <2>1. r <= n /\ n \in Nat
    BY <1>6, <1>7, <1>10
  <2>2. r * unit <= n * unit
    BY <1>3, <1>7, <2>1, MulMonotone
  <2>3. r * unit \in Int /\ n * unit \in Int /\ amount * most \in Int
    BY <1>2, <1>3, <1>7, <2>1
  <2>4. QED
    BY <1>6, <2>2, <2>3
<1>11. ASSUME s > 0, amount > 0 PROVE r <= amount - 1
  <2>1. CASE r > 0
    <3>1. PICK a \in Nat \ {0} : unit = most + a
      <4>1. unit - most \in Nat \ {0} /\ unit = most + (unit - most)
        BY <1>3, <1>11
      <4>2. QED
        BY <4>1
    <3>2. amount * unit = amount * most + amount * a /\ amount * a > 0
      BY <1>2, <1>3, <1>11, <3>1
    <3>3. /\ amount * unit \in Int /\ amount * most \in Int /\ amount * a \in Int
          /\ r * unit \in Int
      BY <1>2, <1>3, <1>7, <3>1
    <3>4. r * unit < amount * unit
      BY <1>10, <2>1, <3>2, <3>3
    <3>5. r < amount
      BY <1>2, <1>3, <1>7, <3>4, MulCancel
    <3>6. QED
      BY <1>2, <1>7, <3>5
  <2>2. CASE r = 0
    BY <1>2, <1>11, <2>2
  <2>3. QED
    BY <1>7, <2>1, <2>2
<1>12. ASSUME s > 0 PROVE r <= amount
  <2>1. CASE amount > 0
    BY <1>2, <1>7, <1>11, <1>12, <2>1
  <2>2. CASE amount = 0
    <3>1. amount * most = 0
      BY <1>3, <2>2
    <3>2. r > 0 => r * unit > 0
      BY <1>3, <1>7
    <3>3. r * unit \in Int
      BY <1>3, <1>7
    <3>4. QED
      BY <1>7, <1>10, <2>2, <3>1, <3>2, <3>3
  <2>3. QED
    BY <1>2, <2>1, <2>2
<1>13. ASSUME s = 0, r < F - 1 PROVE r <= amount
  <2>1. SUFFICES ASSUME amount < r PROVE FALSE
    BY <1>2, <1>7
  <2>2. amount * most = amount * unit + 100 * amount
    BY <1>2, <1>3, <1>13
  <2>3. (amount + 1) * unit <= r * unit /\ (amount + 1) * unit = amount * unit + unit
    BY <1>2, <1>3, <1>7, <2>1, MulMonotone
  <2>4. amount * unit \in Int /\ r * unit \in Int
    BY <1>2, <1>3, <1>7
  <2>5. r * unit <= amount * most
    BY <1>2, <1>7, <1>10, <2>1
  <2>6. unit <= 100 * amount
    BY <1>2, <1>3, <2>2, <2>3, <2>4, <2>5
  <2>7. F <= amount
    BY <1>1, <1>2, <2>6
  <2>8. QED
    BY <1>1, <1>2, <1>7, <1>13, <2>1, <2>7
<1>14. QED
  BY <1>1, <1>5, <1>8, <1>9, <1>11, <1>12, <1>13

\* The accounts fetched hold u64 amounts and a reserve of both tokens.
LEMMA FetchedReserves ==
    ASSUME ClientTypeOK, FetchedLive, client.phase # "idle"
    PROVE  /\ client.amount \in Nat /\ client.i \in Side /\ 1 - client.i \in Side
           /\ client.pool_state.lp_supply \in Nat \ {0}
           /\ \A k \in Side : /\ Fetched!vault_amount_without_fee(k) \in Nat \ {0}
                              /\ Fetched!vault_amount_without_fee(k) <= U64_MAX
           /\ client_rates \in RateRecords /\ rates_within_denominator(client_rates)
<1>1. /\ client.amount \in U64 /\ client.i \in Side /\ client.pool_state \in PoolStates
      /\ client.vault \in [Side -> U64] /\ client.amm_config \in Config!Configs
  BY DEF ClientTypeOK
<1>2. /\ client.amount \in Nat /\ 1 - client.i \in Side
      /\ client.pool_state.lp_supply \in Nat
  BY <1>1, PoolAssumption DEF U64, Side, PoolStates
<1>3. \A k \in Side : /\ Fetched!vault_amount_without_fee(k) \in Int
                     /\ Fetched!vault_amount_without_fee(k) <= U64_MAX
  <2> TAKE k \in Side
  <2>1. /\ client.vault[k] \in Nat /\ client.vault[k] <= U64_MAX /\ U64_MAX \in Nat
        /\ client.pool_state.protocol_fees[k] \in Nat
        /\ client.pool_state.fund_fees[k] \in Nat
        /\ client.pool_state.creator_fees[k] \in Nat
    BY <1>1, PoolAssumption DEF PoolStates, U64
  <2>2. QED
    BY <2>1 DEF Fetched!vault_amount_without_fee, Fetched!owed_fees
<1>4. client_rates \in RateRecords
  BY <1>1 DEF client_rates, FeeRates, RateRecords, Config!Configs
<1>5. QED
  BY <1>1, <1>2, <1>3, <1>4 DEF FetchedLive

\* What an exact input brings, and what an exact output costs, is a u64: the
\* calculator's answer less, or with, the fee of a transfer, or NoLimit.
LEMMA SwapQuotes ==
    ASSUME ClientTypeOK, FetchedLive, client.phase # "idle", NEW e
    PROVE  /\ base_in_received(client_rates, e) \in U64 \cup {NoLimit}
           /\ base_out_paid(client_rates, e) \in U64 \cup {NoLimit}
<1> DEFINE i == client.i
           x == Fetched!vault_amount_without_fee(i)
           y == Fetched!vault_amount_without_fee(1 - i)
           on == Fetched!is_creator_fee_on_input(i)
<1>1. /\ client.amount \in Nat /\ i \in Side /\ 1 - i \in Side
      /\ x \in Nat \ {0} /\ y \in Nat \ {0} /\ y <= U64_MAX
      /\ client_rates \in RateRecords /\ rates_within_denominator(client_rates)
  BY FetchedReserves
<1>2. on \in BOOLEAN /\ U64_MAX \in Nat
  BY PoolAssumption DEF Fetched!is_creator_fee_on_input
<1>3. base_in_received(client_rates, e) \in U64 \cup {NoLimit}
  <2> DEFINE arriving == client.amount - client_transfer_fee(mint[i], e, client.amount)
             result == swap_base_input(arriving, x, y, client_rates, on)
  <2>1. arriving \in Nat
    <3>1. client_transfer_fee(mint[i], e, client.amount) \in 0 .. client.amount
      BY <1>1, ClientFees, Zenon
    <3>2. QED
      BY <1>1, <3>1
  <2>2. base_in_received(client_rates, e) =
            IF result.ok
            THEN result.output_amount
                     - client_transfer_fee(mint[1 - i], e, result.output_amount)
            ELSE NoLimit
    BY Zenon DEF base_in_received
  <2> HIDE DEF x, y, on, i, arriving
  <2>3. CASE result.ok
    <3>1. sound_result(result, x, y, on)
      BY <1>1, <1>2, <2>1, <2>3, SwapBaseInputSound
    <3> HIDE DEF result
    <3>2. result.output_amount \in Nat /\ result.output_amount <= y
      BY <1>1, <3>1 DEF sound_result
    <3>3. client_transfer_fee(mint[1 - i], e, result.output_amount) \in 0 .. result.output_amount
      BY <1>1, <3>2, ClientFees
    <3>4. QED
      BY <1>1, <1>2, <2>2, <2>3, <3>2, <3>3 DEF U64
  <2>4. CASE ~result.ok
    <3> HIDE DEF result
    <3>1. QED
      BY <2>2, <2>4
  <2>5. QED
    BY <2>3, <2>4
<1>4. base_out_paid(client_rates, e) \in U64 \cup {NoLimit}
  <2> DEFINE leaving == client.amount + client_inverse_fee(mint[1 - i], e, client.amount)
             result == swap_base_output(leaving, x, y, client_rates, on)
  <2>1. leaving \in Nat
    <3>1. client_inverse_fee(mint[1 - i], e, client.amount) \in Nat
      BY <1>1, ClientFees, Zenon
    <3>2. QED
      BY <1>1, <3>1
  <2> DEFINE paid == result.input_amount + client_inverse_fee(mint[i], e, result.input_amount)
  <2>2. base_out_paid(client_rates, e) =
            IF result.ok /\ paid <= U64_MAX THEN paid ELSE NoLimit
    BY Zenon DEF base_out_paid
  <2> HIDE DEF x, y, on, i, leaving
  <2>3. CASE result.ok
    <3>1. result.input_amount \in Nat
      BY <1>1, <1>2, <2>1, <2>3, SwapBaseOutputSound DEF sound_result
    <3> HIDE DEF result
    <3>2. client_inverse_fee(mint[i], e, result.input_amount) \in Nat
      BY <1>1, <3>1, ClientFees
    <3>3. QED
      BY <1>2, <2>2, <2>3, <3>1, <3>2 DEF U64
  <2>4. CASE ~result.ok
    <3> HIDE DEF result
    <3>1. QED
      BY <2>2, <2>4
  <2>5. QED
    BY <2>3, <2>4
<1>5. QED
  BY <1>3, <1>4

\* The share of a deposit or withdrawal, calculated on the accounts fetched, is
\* a u64; it is the exact share where that fits.
LEMMA QuotedShare ==
    ASSUME ClientTypeOK, FetchedLive, client.phase # "idle", NEW k \in Side,
           NEW share, share = lp_to_trading_ceiling(client.amount, client.pool_state.lp_supply,
                                                    Fetched!vault_amount_without_fee(k))
    PROVE  /\ share \in Nat
           /\ quoted_share(k) \in U64
           /\ share <= U64_MAX => quoted_share(k) = share
<1>1. share \in Nat /\ U64_MAX \in Nat
  BY FetchedReserves, CeilingShareNat, PoolAssumption
<1>2. quoted_share(k) = share % (U64_MAX + 1)
  BY Zenon DEF quoted_share
<1>3. /\ share % (U64_MAX + 1) \in Int /\ share % (U64_MAX + 1) >= 0
      /\ share % (U64_MAX + 1) < U64_MAX + 1
  BY <1>1, DivMod
<1>4. ASSUME share <= U64_MAX PROVE share % (U64_MAX + 1) = share
  BY <1>1, <1>4
<1>5. QED
  BY <1>1, <1>2, <1>3, <1>4 DEF U64

\* The limit of a deposit, or of a withdrawal, is that share, slipped, with the
\* client's estimate of the transfer fee.
LEMMA DepositQuote ==
    ASSUME NEW m, NEW e, NEW share, NEW limit \in deposit_limit(m, e, share),
           limit # NoLimit
    PROVE  \E slipped \in amount_with_slippage(share, TRUE) :
               /\ limit = slipped + get_pool_mints_inverse_fee(m, e, slipped)
               /\ limit <= U64_MAX
  BY Zenon DEF deposit_limit

LEMMA WithdrawQuote ==
    ASSUME NEW m, NEW e, NEW share, NEW limit \in withdraw_limit(m, e, share),
           limit # NoLimit
    PROVE  \E slipped \in amount_with_slippage(share, FALSE) :
               /\ limit = slipped - get_pool_mints_transfer_fee(m, e, slipped)
               /\ get_pool_mints_transfer_fee(m, e, slipped) <= slipped
  BY Zenon DEF withdraw_limit

\* Every limit is an integer.
LEMMA QuoteIntegers ==
    ASSUME ClientTypeOK, FetchedLive, client.phase # "idle", NEW e \in Nat, NEW k \in Side,
           NEW limit \in quote_limit(e, k)
    PROVE  limit \in Int
<1>0. SUFFICES ASSUME limit # NoLimit PROVE limit \in Int
  BY DEF NoLimit
<1>1. quoted_share(k) \in U64 /\ \A r \in U64 : r \in Int
  BY QuotedShare, PoolAssumption DEF U64
<1>2. ASSUME NEW amount
      PROVE  /\ get_pool_mints_inverse_fee(mint[k], e, amount) \in Int
             /\ get_pool_mints_transfer_fee(mint[k], e, amount) \in Int
  <2>1. /\ client_inverse_fee(mint[k], amount, e) \in Int
        /\ client_transfer_fee(mint[k], amount, e) \in Int
    BY ClientFees
  <2>2. QED
    BY <2>1 DEF get_pool_mints_inverse_fee, get_pool_mints_transfer_fee
<1>3. CASE limit \in deposit_limit(mint[k], e, quoted_share(k))
  <2>1. PICK slipped \in amount_with_slippage(quoted_share(k), TRUE) :
            /\ limit = slipped + get_pool_mints_inverse_fee(mint[k], e, slipped)
            /\ limit <= U64_MAX
    BY <1>0, <1>3, DepositQuote, Zenon
  <2>2. slipped \in Int
    BY <1>1, SlippedUp
  <2>3. QED
    BY <1>2, <2>1, <2>2
<1>4. CASE limit \in withdraw_limit(mint[k], e, quoted_share(k))
  <2>1. PICK slipped \in amount_with_slippage(quoted_share(k), FALSE) :
            /\ limit = slipped - get_pool_mints_transfer_fee(mint[k], e, slipped)
            /\ get_pool_mints_transfer_fee(mint[k], e, slipped) <= slipped
    BY <1>0, <1>4, WithdrawQuote, Zenon
  <2>2. slipped \in Int
    BY <1>1, SlippedDown
  <2>3. QED
    BY <1>2, <2>1, <2>2
<1>5. CASE \/ limit \in limit_with_slippage(base_in_received(client_rates, e), FALSE)
           \/ limit \in limit_with_slippage(base_out_paid(client_rates, e), TRUE)
  <2>1. ASSUME NEW amount \in U64 \cup {NoLimit},
               \/ limit \in limit_with_slippage(amount, FALSE)
               \/ limit \in limit_with_slippage(amount, TRUE)
        PROVE  limit \in U64
    <3>1. amount \in U64
      BY <1>0, <2>1 DEF limit_with_slippage
    <3>2. \/ limit \in amount_with_slippage(amount, FALSE)
          \/ limit \in amount_with_slippage(amount, TRUE)
      BY <1>0, <2>1 DEF limit_with_slippage
    <3>3. QED
      BY <3>1, <3>2, SlippedUp, SlippedDown
  <2>2. limit \in U64
    BY <1>5, <2>1, SwapQuotes
  <2>3. QED
    BY <1>1, <2>2
<1>6. \/ limit \in deposit_limit(mint[k], e, quoted_share(k))
      \/ limit \in withdraw_limit(mint[k], e, quoted_share(k))
      \/ limit \in limit_with_slippage(base_in_received(client_rates, e), FALSE)
      \/ limit \in limit_with_slippage(base_out_paid(client_rates, e), TRUE)
      \/ limit = 0
  BY DEF quote_limit
<1>7. 0 \in Int
  OBVIOUS
<1>8. QED
  BY <1>3, <1>4, <1>5, <1>6, <1>7, Zenon

-----------------------------------------------------------------------------
(* The pool under the client and everybody else. *)

\* Whatever the client and others do, the pool makes one of its own steps.
LEMMA ClientTakesPoolSteps ==
    ASSUME ClientTypeOK, ClientNext
    PROVE  AnyNext \/ UNCHANGED vars
<1>1. current_fee \in AnyFees
  BY CurrentFees
<1>2. client.amount \in U64 /\ client.i \in Side
  BY DEF ClientTypeOK
<1>3. /\ Amounts \subseteq U64 /\ [Side -> Amounts] \subseteq [Side -> U64]
      /\ ADMIN \in Accounts /\ 0 \in Nat
  BY PoolAssumption DEF U64
<1>4. CASE \/ ClientStep
           \/ LandRefused
           \/ Lose
           \/ BlockhashExpires
           \/ NextEpoch
  BY <1>4 DEF ClientStep, Fetch, Sign, Send, Poll, CheckBlockhash, LandRefused, Lose,
              BlockhashExpires, NextEpoch
<1>5. CASE LandExecuted
  <2>1. Instruction(client.limit)
    BY <1>5 DEF LandExecuted
  <2>2. QED
    BY <1>1, <1>2, <2>1, Zenon DEF Instruction, AnyNext
<1>6. CASE Others
  <2>1. CASE \/ \E c \in ConfigParams : CreateConfig(c)
             \/ ClockMoves
             \/ CollectCreatorFee
             \/ \E u \in ConfigUpdates : UpdateConfig(u, ADMIN)
             \/ \E i \in Side, amount \in Amounts : Donate(i, amount)
    BY <1>3, <2>1, PlainConfig, Zenon DEF AnyNext
  <2>2. CASE \E amount \in [Side -> Amounts] :
                 \/ Initialize(amount, 0, current_fee)
                 \/ \E on \in CreatorFeeOn :
                      InitializeWithPermission(amount, 0, current_fee, on)
    BY <1>1, <1>3, <2>2, Zenon DEF AnyNext
  <2>3. CASE \/ \E lp \in Amounts :
                  \/ Deposit(lp, [i \in Side |-> U64_MAX], current_fee)
                  \/ Withdraw(lp, NoFees, current_fee)
             \/ \E i \in Side, amount \in Amounts : SwapBaseInput(i, amount, 0, current_fee)
    BY <1>1, <1>3, <2>3, Zenon DEF AnyNext
  <2>4. QED
    BY <1>6, <2>1, <2>2, <2>3, Zenon DEF Others
<1>7. QED
  BY <1>4, <1>5, <1>6 DEF ClientNext

-----------------------------------------------------------------------------
(* What the client knows survives its own steps and those of others. *)

\* A quote depends on the mints and on what was fetched for it alone.
LEMMA SameQuote ==
    ASSUME client'.kind = client.kind, client'.i = client.i, client'.amount = client.amount,
           client'.pool_state = client.pool_state, client'.vault = client.vault,
           client'.amm_config = client.amm_config, mint' = mint, NEW e
    PROVE  /\ \A k \in Side : quote_limit(e, k)' = quote_limit(e, k)
           /\ client_rates' = client_rates
           /\ \A k \in Side : Fetched!vault_amount_without_fee(k)'
                                   = Fetched!vault_amount_without_fee(k)
<1>1. ASSUME NEW k
      PROVE  Fetched!vault_amount_without_fee(k)' = Fetched!vault_amount_without_fee(k)
  BY DEF Fetched!vault_amount_without_fee, Fetched!owed_fees
<1>2. client_rates' = client_rates
  BY DEF client_rates
<1>3. ASSUME NEW k PROVE quoted_share(k)' = quoted_share(k)
  BY DEF quoted_share, Fetched!vault_amount_without_fee, Fetched!owed_fees
<1>4. base_in_received(client_rates, e)' = base_in_received(client_rates, e)
  BY DEF base_in_received, client_rates, Fetched!vault_amount_without_fee, Fetched!owed_fees,
         Fetched!is_creator_fee_on_input
<1>5. base_out_paid(client_rates, e)' = base_out_paid(client_rates, e)
  BY DEF base_out_paid, client_rates, Fetched!vault_amount_without_fee, Fetched!owed_fees,
         Fetched!is_creator_fee_on_input
<1>6. ASSUME NEW k PROVE quote_limit(e, k)' = quote_limit(e, k)
  BY <1>3, <1>4, <1>5 DEF quote_limit
<1>7. QED
  BY <1>1, <1>2, <1>6

\* The rest of the invariant, beside the pool's.
ClientKnows == ClientTypeOK /\ FetchedLive /\ LimitQuoted /\ TxnFollows

\* What the client fetches is a live pool.
LEMMA FetchKeeps ==
    ASSUME ClientInv, NEW kind \in Commands, NEW i \in Side, NEW amount \in CommandAmounts,
           Fetch(kind, i, amount)
    PROVE  ClientKnows'
<1>1. /\ client = Idle("none") /\ pool_state.initialized
      /\ client' = [phase |-> "fetched", kind |-> kind, i |-> i, amount |-> amount,
                    pool_state |-> pool_state, vault |-> vault, amm_config |-> amm_config,
                    limit |-> NoFees, epoch |-> 0, outcome |-> "none"]
      /\ UNCHANGED <<mint, epoch, txn>>
  BY DEF Fetch, Idle
<1>2. /\ pool_state \in PoolStates /\ vault \in [Side -> U64]
      /\ amm_config \in Config!Configs /\ Config!RatesWithinDenominator
  BY DEF ClientInv, IInv, TypeOK, Config!TypeOK
<1>3. kind \in Kinds /\ amount \in U64
  BY ClientAssumption DEF Kinds, U64
<1>4. ClientTypeOK'
  BY <1>1, <1>2, <1>3, EmptyAccounts DEF ClientInv, ClientTypeOK, Phases, Outcomes
<1>5. FetchedLive'
  <2>1. \A k \in Side : Fetched!vault_amount_without_fee(k)' = vault_amount_without_fee(k)
    BY <1>1 DEF Fetched!vault_amount_without_fee, Fetched!owed_fees,
                vault_amount_without_fee, owed_fees
  <2>2. rates_within_denominator(client_rates)'
    BY <1>1, <1>2 DEF client_rates, FeeRates, rates_within_denominator,
                      Config!RatesWithinDenominator, Config!Configs, DEN
  <2>3. pool_state.lp_supply > 0 /\ \A k \in Side : vault_amount_without_fee(k) > 0
    BY <1>1, LivePool DEF ClientInv
  <2>4. QED
    BY <1>1, <2>1, <2>2, <2>3 DEF FetchedLive
<1>6. LimitQuoted'
  BY <1>1 DEF LimitQuoted
<1>7. TxnFollows'
  <2>1. txn = NoTxn
    BY <1>1 DEF ClientInv, TxnFollows, Idle
  <2>2. QED
    BY <1>1, <2>1 DEF TxnFollows, NoTxn
<1>8. QED
  BY <1>4, <1>5, <1>6, <1>7 DEF ClientKnows

\* A command that is over knows nothing any more.
LEMMA OverKeeps ==
    ASSUME ClientTypeOK, NEW outcome \in Outcomes, client' = Idle(outcome),
           UNCHANGED <<mint, epoch, txn>>,
           TxnFollows'
    PROVE  ClientKnows'
<1>1. 0 \in U64 /\ 0 \in Side
  BY PoolAssumption DEF U64, Side
<1>2. ClientTypeOK'
  BY <1>1, EmptyAccounts DEF ClientTypeOK, Idle, Phases, Kinds
<1>3. client'.phase = "idle"
  BY DEF Idle
<1>4. QED
  BY <1>2, <1>3 DEF ClientKnows, FetchedLive, LimitQuoted

\* A phase further, with the same accounts, a command knows the same.
LEMMA FurtherKeeps ==
    ASSUME ClientTypeOK, FetchedLive, LimitQuoted,
           client.phase \in {"signed", "sent", "polled"},
           NEW phase \in {"sent", "polled"}, client' = [client EXCEPT !.phase = phase],
           UNCHANGED <<mint, epoch>>,
           txn' \in [status : {"none", "executed", "refused"}, in_network : BOOLEAN,
                     valid : BOOLEAN]
    PROVE  ClientKnows'
<1>1. /\ client'.kind = client.kind /\ client'.i = client.i /\ client'.amount = client.amount
      /\ client'.pool_state = client.pool_state /\ client'.vault = client.vault
      /\ client'.amm_config = client.amm_config /\ client'.limit = client.limit
      /\ client'.epoch = client.epoch /\ client'.phase = phase
  BY DEF ClientTypeOK
<1>2. ClientTypeOK'
  BY DEF ClientTypeOK, Phases
<1>3. \A e : \A k \in Side : quote_limit(e, k)' = quote_limit(e, k)
  BY <1>1, SameQuote
<1>4. /\ client_rates' = client_rates
      /\ \A k \in Side : Fetched!vault_amount_without_fee(k)'
                              = Fetched!vault_amount_without_fee(k)
  BY <1>1, SameQuote
<1>5. FetchedLive'
  BY <1>1, <1>4 DEF FetchedLive, rates_within_denominator
<1>6. LimitQuoted'
  BY <1>1, <1>3 DEF LimitQuoted
<1>7. TxnFollows'
  BY <1>1 DEF TxnFollows
<1>8. QED
  BY <1>2, <1>5, <1>6, <1>7 DEF ClientKnows

\* The limits signed are among those quoted.
LEMMA SignKeeps ==
    ASSUME ClientInv, Sign
    PROVE  ClientKnows'
<1>1. PICK limit_0 \in quote_limit(epoch, 0), limit_1 \in quote_limit(epoch, 1) :
        client' = IF NoLimit \in {limit_0, limit_1}
                  THEN Idle("panicked")
                  ELSE [client EXCEPT !.phase = "signed", !.epoch = epoch,
                            !.limit = [i \in Side |-> IF i = 0 THEN limit_0 ELSE limit_1]]
  BY DEF Sign
<1>2. /\ client.phase = "fetched" /\ UNCHANGED <<mint, epoch>>
      /\ txn' = [NoTxn EXCEPT !.valid = (client'.phase = "signed")]
  BY DEF Sign
<1>3. ClientTypeOK /\ FetchedLive /\ epoch \in Nat
  BY DEF ClientInv, ClientTypeOK
<1>4. txn = NoTxn
  BY <1>2 DEF ClientInv, TxnFollows
<1>5. CASE NoLimit \in {limit_0, limit_1}
  <2>1. client' = Idle("panicked") /\ client'.phase = "idle" /\ client'.outcome = "panicked"
    BY <1>1, <1>5 DEF Idle
  <2>2. txn' = NoTxn
    BY <1>2, <2>1 DEF NoTxn
  <2>3. TxnFollows'
    BY <2>1, <2>2 DEF TxnFollows
  <2>4. QED
    BY <1>2, <1>3, <1>4, <2>1, <2>2, <2>3, OverKeeps DEF Outcomes
<1>6. CASE NoLimit \notin {limit_0, limit_1}
  <2> DEFINE limit == [i \in Side |-> IF i = 0 THEN limit_0 ELSE limit_1]
  <2>1. client' = [client EXCEPT !.phase = "signed", !.epoch = epoch, !.limit = limit]
    BY <1>1, <1>6
  <2>2. \A k \in Side : limit[k] \in quote_limit(epoch, k) /\ limit[k] # NoLimit
    BY <1>1, <1>6 DEF Side
  <2>3. limit \in [Side -> Int]
    <3>1. \A k \in Side : limit[k] \in Int
      BY <1>2, <1>3, <2>2, QuoteIntegers
    <3>2. QED
      BY <3>1
  <2> HIDE DEF limit
  <2>4. ClientTypeOK'
    BY <1>2, <1>3, <2>1, <2>3 DEF ClientTypeOK, Phases, NoTxn
  <2>5. /\ client'.kind = client.kind /\ client'.i = client.i
        /\ client'.amount = client.amount /\ client'.pool_state = client.pool_state
        /\ client'.vault = client.vault /\ client'.amm_config = client.amm_config
        /\ client'.limit = limit /\ client'.epoch = epoch /\ client'.phase = "signed"
    BY <1>3, <2>1 DEF ClientTypeOK
  <2>6. /\ client_rates' = client_rates
        /\ \A k \in Side : Fetched!vault_amount_without_fee(k)'
                                = Fetched!vault_amount_without_fee(k)
    BY <1>2, <2>5, SameQuote
  <2>7. \A e : \A k \in Side : quote_limit(e, k)' = quote_limit(e, k)
    BY <1>2, <2>5, SameQuote
  <2>8. FetchedLive'
    BY <1>2, <1>3, <2>5, <2>6 DEF FetchedLive, rates_within_denominator
  <2>9. LimitQuoted'
    BY <2>2, <2>5, <2>7 DEF LimitQuoted
  <2>10. TxnFollows'
    BY <1>2, <2>5 DEF TxnFollows, NoTxn
  <2>11. QED
    BY <2>4, <2>8, <2>9, <2>10 DEF ClientKnows
<1>7. QED
  BY <1>5, <1>6

\* Sending, polling and sending again change the phase, or end the command with
\* the status the ledger has.
LEMMA WaitingKeeps ==
    ASSUME ClientInv, Send \/ Poll \/ CheckBlockhash
    PROVE  ClientKnows'
<1>1. /\ ClientTypeOK /\ FetchedLive /\ LimitQuoted
      /\ txn \in [status : {"none", "executed", "refused"}, in_network : BOOLEAN,
                  valid : BOOLEAN]
  BY DEF ClientInv, ClientTypeOK
<1>2. CASE Send
  BY <1>1, <1>2, FurtherKeeps DEF Send
<1>3. CASE Poll
  <2>1. client.phase = "sent" /\ UNCHANGED <<mint, epoch, txn>>
    BY <1>3 DEF Poll
  <2>2. CASE txn.status = "none"
    <3>1. client' = [client EXCEPT !.phase = "polled"]
      BY <1>3, <2>2 DEF Poll
    <3>2. QED
      BY <1>1, <2>1, <3>1, FurtherKeeps
  <2>3. CASE txn.status = "executed"
    <3>1. client' = Idle("confirmed")
      BY <1>3, <2>3 DEF Poll
    <3>2. TxnFollows'
      BY <2>1, <2>3, <3>1 DEF TxnFollows, Idle
    <3>3. QED
      BY <1>1, <2>1, <3>1, <3>2, OverKeeps DEF Outcomes
  <2>4. CASE txn.status = "refused"
    <3>1. client' = Idle("failed")
      BY <1>3, <2>4 DEF Poll
    <3>2. TxnFollows'
      BY <2>1, <2>4, <3>1 DEF TxnFollows, Idle
    <3>3. QED
      BY <1>1, <2>1, <3>1, <3>2, OverKeeps DEF Outcomes
  <2>5. QED
    BY <1>1, <2>2, <2>3, <2>4
<1>4. CASE CheckBlockhash
  <2>1. client.phase = "polled" /\ poll_again /\ UNCHANGED <<mint, epoch>>
    BY <1>4 DEF CheckBlockhash
  <2>2. CASE txn.valid
    BY <1>1, <2>1, <2>2, FurtherKeeps DEF poll_again
  <2>3. CASE ~txn.valid
    <3>1. client' = Idle("unconfirmed") /\ UNCHANGED txn
      BY <2>1, <2>3 DEF poll_again
    <3>2. TxnFollows'
      BY <2>3, <3>1 DEF TxnFollows, Idle
    <3>3. QED
      BY <1>1, <2>1, <3>1, <3>2, OverKeeps DEF Outcomes
  <2>4. QED
    BY <2>2, <2>3
<1>5. QED
  BY <1>2, <1>3, <1>4

\* A step of anybody else leaves the client's accounts, and its mints, alone.
LEMMA BystanderKeeps ==
    ASSUME ClientTypeOK, FetchedLive, LimitQuoted,
           UNCHANGED <<mint, client>>, epoch' \in Nat,
           txn' \in [status : {"none", "executed", "refused"}, in_network : BOOLEAN,
                     valid : BOOLEAN],
           TxnFollows'
    PROVE  ClientKnows'
<1>1. ClientTypeOK'
  BY DEF ClientTypeOK
<1>2. \A e : \A k \in Side : quote_limit(e, k)' = quote_limit(e, k)
  BY SameQuote
<1>3. /\ client_rates' = client_rates
      /\ \A k \in Side : Fetched!vault_amount_without_fee(k)'
                              = Fetched!vault_amount_without_fee(k)
  BY SameQuote
<1>4. FetchedLive'
  BY <1>3 DEF FetchedLive, rates_within_denominator
<1>5. LimitQuoted'
  BY <1>2 DEF LimitQuoted
<1>6. QED
  BY <1>1, <1>4, <1>5 DEF ClientKnows

\* The ledger and the network move a transaction that is on its way only: what
\* a command that is over said stays so.
LEMMA DeliveryKeeps ==
    ASSUME ClientInv, LandExecuted \/ LandRefused \/ Lose \/ BlockhashExpires
    PROVE  ClientKnows'
<1>1. /\ ClientTypeOK /\ FetchedLive /\ LimitQuoted /\ TxnFollows /\ epoch \in Nat
      /\ txn \in [status : {"none", "executed", "refused"}, in_network : BOOLEAN,
                  valid : BOOLEAN]
  BY DEF ClientInv, ClientTypeOK
<1>2. UNCHANGED <<mint, epoch, client>>
  BY DEF LandExecuted, LandRefused, Lose, BlockhashExpires
<1>3. CASE LandExecuted \/ LandRefused
  <2>1. /\ txn.in_network /\ txn.valid /\ txn.status = "none"
        /\ \/ txn' = [txn EXCEPT !.status = "executed"]
           \/ txn' = [txn EXCEPT !.status = "refused"]
    BY <1>3 DEF LandExecuted, LandRefused, Deliverable
  <2>2. client.phase \notin {"fetched", "signed", "idle"}
    BY <1>1, <2>1 DEF TxnFollows, NoTxn, ClientTypeOK, Outcomes
  <2>3. TxnFollows'
    BY <1>2, <2>2 DEF TxnFollows
  <2>4. QED
    BY <1>1, <1>2, <2>1, <2>3, BystanderKeeps
<1>4. CASE Lose \/ BlockhashExpires
  <2>1. /\ txn # NoTxn
        /\ \/ txn' = [txn EXCEPT !.in_network = FALSE]
           \/ txn' = [txn EXCEPT !.valid = FALSE]
    BY <1>4 DEF Lose, BlockhashExpires, NoTxn
  <2>2. TxnFollows'
    BY <1>1, <1>2, <2>1 DEF TxnFollows
  <2>3. QED
    BY <1>1, <1>2, <2>1, <2>2, BystanderKeeps
<1>5. QED
  BY <1>3, <1>4

-----------------------------------------------------------------------------

\* At the start there is no pool and the client has not begun.
LEMMA ClientInitEstablishes == ClientInit => ClientInv
<1> SUFFICES ASSUME ClientInit PROVE ClientInv
  OBVIOUS
<1>1. /\ Init /\ mint \in MintPairs /\ epoch = 0 /\ client = Idle("none") /\ txn = NoTxn
  BY DEF ClientInit
<1>2. IInv
  BY <1>1, InitEstablishes
<1>3. 0 \in U64 /\ 0 \in Side
  BY PoolAssumption DEF U64, Side
<1>4. ClientTypeOK
  BY <1>1, <1>3, EmptyAccounts DEF ClientTypeOK, Idle, Phases, Kinds, Outcomes, NoTxn
<1>5. FetchedLive /\ LimitQuoted /\ TxnFollows
  BY <1>1 DEF FetchedLive, LimitQuoted, TxnFollows, Idle
<1>6. QED
  BY <1>2, <1>4, <1>5 DEF ClientInv

\* A step that is none of the client's, the ledger's or the network's.
LEMMA OutsideKeeps ==
    ASSUME ClientInv,
           \/ NextEpoch
           \/ Others /\ UNCHANGED <<mint, epoch, client, txn>>
           \/ UNCHANGED <<vars, client_vars>>
    PROVE  ClientKnows'
<1>1. /\ ClientTypeOK /\ FetchedLive /\ LimitQuoted /\ TxnFollows /\ epoch \in Nat
      /\ txn \in [status : {"none", "executed", "refused"}, in_network : BOOLEAN,
                  valid : BOOLEAN]
  BY DEF ClientInv, ClientTypeOK
<1>2. UNCHANGED <<mint, client, txn>> /\ epoch' \in {epoch, epoch + 1}
  BY DEF NextEpoch, client_vars
<1>3. TxnFollows'
  BY <1>1, <1>2 DEF TxnFollows
<1>4. QED
  BY <1>1, <1>2, <1>3, BystanderKeeps

\* Every step keeps the invariant.
LEMMA ClientStepKeeps == ClientInv /\ [ClientNext]_<<vars, client_vars>> => ClientInv'
<1> SUFFICES ASSUME ClientInv, [ClientNext]_<<vars, client_vars>> PROVE ClientInv'
  OBVIOUS
<1>1. ClientTypeOK /\ IInv
  BY DEF ClientInv
<1>2. AnyNext \/ UNCHANGED vars
  BY <1>1, ClientTakesPoolSteps
<1>3. IInv'
  BY <1>1, <1>2, StepKeeps
<1>4. ClientKnows'
  <2>1. ASSUME NEW kind \in Commands, NEW i \in Side, NEW amount \in CommandAmounts,
               Fetch(kind, i, amount)
        PROVE  ClientKnows'
    BY <2>1, FetchKeeps
  <2>2. CASE Sign
    BY <2>2, SignKeeps
  <2>3. CASE Send \/ Poll \/ CheckBlockhash
    BY <2>3, WaitingKeeps
  <2>4. CASE LandExecuted \/ LandRefused \/ Lose \/ BlockhashExpires
    BY <2>4, DeliveryKeeps
  <2>5. CASE \/ NextEpoch
             \/ Others /\ UNCHANGED <<mint, epoch, client, txn>>
             \/ UNCHANGED <<vars, client_vars>>
    BY <2>5, OutsideKeeps
  <2>6. QED
    BY <2>1, <2>2, <2>3, <2>4, <2>5, Zenon DEF ClientNext, ClientStep
<1>5. QED
  BY <1>3, <1>4 DEF ClientInv, ClientKnows

\* The inductive invariant of the client on the pool.
THEOREM ClientInvariant == ClientSafety => []ClientInv
  BY ClientInitEstablishes, ClientStepKeeps, PTL DEF ClientSafety

\* The client never tells its user what is not so, or may still change: a
\* confirmed command was executed, a failed one refused, and once a command has
\* ended no copy of its transaction can be executed (rpc.rs:30).
THEOREM OutcomesReported == ClientSafety => []OutcomeReported
<1>1. ClientInv => OutcomeReported
  BY DEF ClientInv, ClientTypeOK, TxnFollows, OutcomeReported, Deliverable, Outcomes, NoTxn
<1>2. QED
  BY <1>1, ClientInvariant, PTL

\* The pool with its clients makes steps of the pool alone, with any arguments.
LEMMA ClientPool == ClientSafety => AnySpec
<1>1. ClientInit => Init
  BY DEF ClientInit
<1>2. ClientInv /\ [ClientNext]_<<vars, client_vars>> => [AnyNext]_vars
  BY ClientTakesPoolSteps DEF ClientInv
<1>3. QED
  BY <1>1, <1>2, ClientInvariant, PTL DEF ClientSafety, AnySpec

\* The limits of the client, its mints' fees as epochs pass, and the steps of
\* others between its own cost the pool none of its invariants: it stays solvent,
\* keeps its locked liquidity and its reserves, and no u64 overflows
\* (main.rs:243, 349, 534, 692 on pool.rs:204, 227, 341).
THEOREM ClientsKeepPool ==
    ClientSafety => [](TypeOK /\ Solvent /\ LockedLiquidity /\ ReservesPositive)
<1>1. IInv => TypeOK /\ Solvent /\ LockedLiquidity /\ ReservesPositive
  BY DEF IInv
<1>2. QED
  BY <1>1, ClientPool, AnyInvariant, PTL

\* Nor does any command take value from the liquidity providers, lower a fee
\* counter without payment, or trade before the pool opens.
THEOREM ClientsTakeNoValue ==
    ClientSafety => ImplementsShares /\ CollectionPaysOnlyFees /\ []TradesStartAtOpenTime
  BY ClientPool, AnyImplementsShares, AnyCollectionPays, HistoryInvariant, PTL

-----------------------------------------------------------------------------
(* What a command costs and brings when it lands. *)

\* A mint without fees charges nothing, now or in any epoch.
LEMMA NothingCharged ==
    ASSUME ClientTypeOK, mints_without_fee, NEW k \in Side, NEW e, NEW amount \in Nat
    PROVE  /\ client_transfer_fee(mint[k], e, amount) = 0
           /\ client_inverse_fee(mint[k], e, amount) = 0
           /\ calculate_fee(current_fee[k], amount) = 0
<1>1. /\ get_epoch_fee(mint[k], e) = NoTransferFee
      /\ current_fee[k] = NoTransferFee
  BY DEF mints_without_fee, get_epoch_fee, current_fee
<1>2. ASSUME NEW a \in Nat PROVE calculate_fee(NoTransferFee, a) = 0
  <2>1. MAX_FEE_BASIS_POINTS \in Nat \ {0} /\ a * 0 = 0
    BY BasisPointsAssumption
  <2>2. (a * 0 + MAX_FEE_BASIS_POINTS - 1) \div MAX_FEE_BASIS_POINTS = 0
    BY <2>1
  <2>3. QED
    BY <2>2 DEF calculate_fee, NoTransferFee, lesser
<1>3. get_transfer_inverse_fee(NoTransferFee, amount) = 0
  BY <1>2, BasisPointsAssumption
     DEF get_transfer_inverse_fee, calculate_inverse_fee, calculate_pre_fee_transfer, NoTransferFee
<1>4. QED
  BY <1>1, <1>2, <1>3 DEF client_transfer_fee, client_inverse_fee

\* A transfer never withholds more than the greater cap of its mint, nor does
\* the client ever estimate more.
LEMMA EstimatesCapped ==
    ASSUME ClientTypeOK, NEW k \in Side, NEW e, NEW amount \in Nat
    PROVE  /\ most_withheld(k) \in Nat
           /\ client_transfer_fee(mint[k], e, amount) <= most_withheld(k)
           /\ client_inverse_fee(mint[k], e, amount) <= most_withheld(k)
<1> DEFINE fee == get_epoch_fee(mint[k], e)
<1>1. /\ mint[k].older.maximum_fee \in Nat /\ mint[k].newer.maximum_fee \in Nat
      /\ fee.maximum_fee \in {mint[k].older.maximum_fee, mint[k].newer.maximum_fee}
  BY ClientAssumption DEF ClientTypeOK, get_epoch_fee, TransferFees
<1>2. most_withheld(k) \in Nat /\ fee.maximum_fee <= most_withheld(k)
  BY <1>1 DEF most_withheld
<1>3. /\ client_transfer_fee(mint[k], e, amount) \in Nat
      /\ client_inverse_fee(mint[k], e, amount) \in Nat
  BY ClientFees
<1>4. client_transfer_fee(mint[k], e, amount) = calculate_fee(fee, amount)
  BY DEF client_transfer_fee
<1>5. client_inverse_fee(mint[k], e, amount) = get_transfer_inverse_fee(fee, amount)
  BY DEF client_inverse_fee
<1> HIDE DEF fee
<1>6. ASSUME NEW a PROVE calculate_fee(fee, a) <= fee.maximum_fee
  BY <1>1 DEF calculate_fee, lesser
<1>7. get_transfer_inverse_fee(fee, amount) <= fee.maximum_fee
  BY <1>1, <1>6 DEF get_transfer_inverse_fee, calculate_inverse_fee
<1>8. QED
  BY <1>1, <1>2, <1>3, <1>4, <1>5, <1>6, <1>7

\* The limit a command signed, in the phases it may land in.
LEMMA SignedLimit ==
    ASSUME ClientInv, client.phase \in {"signed", "sent", "polled"}
    PROVE  /\ \A k \in Side : /\ client.limit[k] \in quote_limit(client.epoch, k)
                              /\ client.limit[k] \in Int /\ client.limit[k] # NoLimit
           /\ client.epoch \in Nat
           /\ client.phase # "idle"
  BY DEF ClientInv, ClientTypeOK, LimitQuoted

\* Who pays no more than a limit, or receives no less, is where the limit is.
LEMMA WithinLimit ==
    ASSUME NEW quoted \in U64, NEW limit \in Int, NEW amount \in Int
    PROVE  /\ costs_at_most(limit, quoted) /\ amount <= limit => costs_at_most(amount, quoted)
           /\ brings_at_least(limit, quoted) /\ limit <= amount => brings_at_least(amount, quoted)
<1>1. PICK F \in Nat, s \in 0 .. 100 :
          F = FLOAT_PRECISION /\ F > 100 /\ s = SlippagePercent
  BY ClientAssumption
<1>2. quoted \in Nat
  BY PoolAssumption DEF U64
<1> DEFINE unit == 100 * F
           up == quoted * ((100 + s) * F + 100)
           down == quoted * ((100 - s) * F - 100)
<1>3. unit \in Nat \ {0} /\ up \in Int /\ down \in Int
  <2>1. (100 + s) * F + 100 \in Int /\ (100 - s) * F - 100 \in Int
    BY <1>1
  <2>2. QED
    BY <1>1, <1>2, <2>1
<1>4. ASSUME NEW a
      PROVE  /\ costs_at_most(a, quoted) <=> unit * a < up + unit
             /\ brings_at_least(a, quoted) <=> unit * a > down - unit
  BY <1>1, Zenon DEF costs_at_most, brings_at_least
<1> HIDE DEF unit, up, down
<1>5. ASSUME NEW a \in Int, NEW b \in Int, a <= b
      PROVE  unit * a \in Int /\ unit * b \in Int /\ unit * a <= unit * b
  <2>1. PICK d \in Nat : b = a + d
    <3>1. b - a \in Nat /\ b = a + (b - a)
      BY <1>5
    <3>2. QED
      BY <3>1
  <2>2. unit * b = unit * a + unit * d /\ unit * d \in Nat /\ unit * a \in Int
    BY <1>3, <2>1
  <2>3. QED
    BY <2>2
<1>6. QED
  BY <1>3, <1>4, <1>5

\* A deposit costs its share, slipped, at the most, but for a transfer fee: what
\* the payer sends, the fee included, is within the limit, and the limit is the
\* share the client found, with the slippage and the client's estimate of the fee.
LEMMA DepositCosts ==
    ASSUME ClientInv, client.phase \in {"signed", "sent", "polled"},
           client.kind = "deposit",
           Deposit(client.amount, client.limit, current_fee), NEW k \in Side,
           NEW moved, moved = vault'[k] - vault[k]
    PROVE  costs_at_most((moved + get_transfer_inverse_fee(current_fee[k], moved))
                             - most_withheld(k), quoted_share(k))
<1>1. IInv /\ ClientTypeOK /\ FetchedLive /\ client.amount \in U64 /\ current_fee \in AnyFees
  BY CurrentFees DEF ClientInv, ClientTypeOK
<1>2. PICK amount \in Nat :
          /\ amount = lp_to_trading_ceiling(client.amount, pool_state.lp_supply,
                                            vault_amount_without_fee(k))
          /\ vault'[k] = vault[k] + amount
  BY <1>1, DepositAdds
<1>3. amount + get_transfer_inverse_fee(current_fee[k], amount) <= client.limit[k]
  BY <1>2 DEF Deposit, deposit_accepted, deposit_transfer_amount, deposit_amount
<1>4. vault[k] \in Int
  BY <1>1, Balances DEF IInv
<1>5. moved = amount
  BY <1>2, <1>4
<1>6. PICK fee \in Nat : fee = get_transfer_inverse_fee(current_fee[k], amount)
  BY <1>1, <1>2, FeeArgument, InverseFeeNat
<1>7. PICK share \in U64 : share = quoted_share(k)
  BY <1>1, SignedLimit, QuotedShare
<1>8. client.limit[k] \in deposit_limit(mint[k], client.epoch, share) /\ client.limit[k] # NoLimit
  BY <1>7, SignedLimit DEF quote_limit
<1>9. PICK slipped \in amount_with_slippage(share, TRUE) :
          /\ client.limit[k] = slipped
                 + get_pool_mints_inverse_fee(mint[k], client.epoch, slipped)
          /\ client.limit[k] <= U64_MAX
  BY <1>8, DepositQuote, Zenon
<1>10. slipped \in Int /\ costs_at_most(slipped, share)
  <2>1. slipped \in U64 /\ costs_at_most(slipped, share)
    BY SlippedUp
  <2>2. QED
    BY <2>1, PoolAssumption DEF U64
<1>11. PICK estimate \in Int, cap \in Nat :
           /\ estimate = get_pool_mints_inverse_fee(mint[k], client.epoch, slipped)
           /\ cap = most_withheld(k)
           /\ estimate <= cap
  <2>1. /\ client_inverse_fee(mint[k], slipped, client.epoch) \in Int
        /\ most_withheld(k) \in Nat
        /\ client_inverse_fee(mint[k], slipped, client.epoch) <= most_withheld(k)
    BY <1>1, SignedLimit, ClientFees, EstimatesCapped
  <2>2. QED
    BY <2>1 DEF get_pool_mints_inverse_fee
<1>12. amount + fee <= slipped + estimate
  BY <1>3, <1>6, <1>9, <1>11
<1>13. amount + fee - cap \in Int /\ amount + fee - cap <= slipped
  BY <1>10, <1>11, <1>12
<1>14. costs_at_most(amount + fee - cap, share)
  BY <1>10, <1>13, WithinLimit
<1>15. QED
  BY <1>5, <1>6, <1>7, <1>11, <1>14

\* A withdrawal brings its share, slipped, at the least, but for a transfer fee.
LEMMA WithdrawBrings ==
    ASSUME ClientInv, client.phase \in {"signed", "sent", "polled"},
           client.kind = "withdraw",
           Withdraw(client.amount, client.limit, current_fee), NEW k \in Side,
           NEW moved, moved = vault'[k] - vault[k]
    PROVE  brings_at_least(-moved - calculate_fee(current_fee[k], -moved) + most_withheld(k),
                           quoted_share(k))
<1>1. IInv /\ ClientTypeOK /\ FetchedLive /\ client.amount \in U64 /\ current_fee \in AnyFees
  BY CurrentFees DEF ClientInv, ClientTypeOK
<1>2. PICK amount \in Nat :
          /\ amount = lp_to_trading_floor(client.amount, pool_state.lp_supply,
                                          vault_amount_without_fee(k))
          /\ amount < vault_amount_without_fee(k)
          /\ vault'[k] = vault[k] - amount
  BY <1>1, WithdrawTakes
<1>3. vault[k] \in Int /\ vault_amount_without_fee(k) \in Int
  BY <1>1, Balances DEF IInv
<1>4. lesser(vault_amount_without_fee(k), amount) = amount
  BY <1>2, <1>3 DEF lesser
<1>5. amount - calculate_fee(current_fee[k], amount) >= client.limit[k]
  BY <1>2, <1>4 DEF Withdraw, withdraw_accepted, withdraw_amount, get_transfer_fee
<1>6. -moved = amount
  BY <1>2, <1>3
<1>7. PICK fee \in Int : fee = calculate_fee(current_fee[k], amount)
  BY <1>1, <1>2, FeeArgument, TransferFeeBounded
<1>8. PICK share \in U64 : share = quoted_share(k)
  BY <1>1, SignedLimit, QuotedShare
<1>9. client.limit[k] \in withdraw_limit(mint[k], client.epoch, share) /\ client.limit[k] # NoLimit
  BY <1>8, SignedLimit DEF quote_limit
<1>10. PICK slipped \in amount_with_slippage(share, FALSE) :
           /\ client.limit[k] = slipped
                  - get_pool_mints_transfer_fee(mint[k], client.epoch, slipped)
           /\ get_pool_mints_transfer_fee(mint[k], client.epoch, slipped) <= slipped
  BY <1>9, WithdrawQuote, Zenon
<1>11. slipped \in Int /\ brings_at_least(slipped, share)
  <2>1. slipped \in U64 /\ brings_at_least(slipped, share)
    BY SlippedDown
  <2>2. QED
    BY <2>1, PoolAssumption DEF U64
<1>12. PICK estimate \in Int, cap \in Nat :
           /\ estimate = get_pool_mints_transfer_fee(mint[k], client.epoch, slipped)
           /\ cap = most_withheld(k)
           /\ estimate <= cap
  <2>1. client.epoch \in Nat
    BY <1>1, SignedLimit
  <2>2. /\ most_withheld(k) \in Nat
        /\ client_transfer_fee(mint[k], slipped, client.epoch) <= most_withheld(k)
    BY <1>1, <2>1, EstimatesCapped
  <2>3. client_transfer_fee(mint[k], slipped, client.epoch) \in Int
    <3>1. client_transfer_fee(mint[k], slipped, client.epoch) \in 0 .. client.epoch
      BY <1>1, <2>1, ClientFees, Zenon
    <3>2. QED
      BY <2>1, <3>1
  <2>4. QED
    BY <2>2, <2>3 DEF get_pool_mints_transfer_fee
<1>13. amount - fee >= slipped - estimate
  BY <1>5, <1>7, <1>10, <1>12
<1>14. amount - fee + cap \in Int /\ slipped <= amount - fee + cap
  BY <1>11, <1>12, <1>13
<1>15. brings_at_least(amount - fee + cap, share)
  BY <1>11, <1>14, WithinLimit
<1>16. QED
  BY <1>6, <1>7, <1>8, <1>12, <1>15

\* A signed limit of a swap is the quote of a calculation that succeeded, slipped.
LEMMA SwapLimit ==
    ASSUME ClientInv, client.phase \in {"signed", "sent", "polled"}
    PROVE  /\ client.limit[0] \in Int
           /\ client.kind = "swap_base_in" =>
                  /\ base_in_received(client_rates, client.epoch) \in U64
                  /\ base_in_received(client_rates, client.epoch) # NoLimit
                  /\ client.limit[0] \in amount_with_slippage(
                         base_in_received(client_rates, client.epoch), FALSE)
           /\ client.kind = "swap_base_out" =>
                  /\ base_out_paid(client_rates, client.epoch) \in U64
                  /\ base_out_paid(client_rates, client.epoch) # NoLimit
                  /\ client.limit[0] \in amount_with_slippage(
                         base_out_paid(client_rates, client.epoch), TRUE)
<1> DEFINE received == base_in_received(client_rates, client.epoch)
           paid == base_out_paid(client_rates, client.epoch)
<1>1. /\ client.limit[0] \in quote_limit(client.epoch, 0)
      /\ client.limit[0] \in Int /\ client.limit[0] # NoLimit
  BY SignedLimit DEF Side
<1>2. received \in U64 \cup {NoLimit} /\ paid \in U64 \cup {NoLimit}
  BY SignedLimit, SwapQuotes DEF ClientInv
<1>3. client.kind = "swap_base_in" => client.limit[0] \in limit_with_slippage(received, FALSE)
  BY <1>1 DEF quote_limit
<1>4. client.kind = "swap_base_out" => client.limit[0] \in limit_with_slippage(paid, TRUE)
  BY <1>1 DEF quote_limit
<1> HIDE DEF received, paid
<1>5. /\ client.kind = "swap_base_in" =>
             received # NoLimit /\ client.limit[0] \in amount_with_slippage(received, FALSE)
      /\ client.kind = "swap_base_out" =>
             paid # NoLimit /\ client.limit[0] \in amount_with_slippage(paid, TRUE)
  BY <1>1, <1>3, <1>4 DEF limit_with_slippage
<1>6. QED
  BY <1>1, <1>2, <1>5 DEF received, paid

\* What a swap that settles moves: the calculator's output out, its input in.
LEMMA SettledMoves ==
    ASSUME IInv, NEW i \in Side, NEW result, NEW arrived, SettlesSoundly(i, result, arrived)
    PROVE  /\ result.output_amount \in Nat /\ arrived \in Nat
           /\ vault'[1 - i] - vault[1 - i] = -result.output_amount
           /\ -(vault'[1 - i] - vault[1 - i]) = result.output_amount
           /\ vault'[i] - vault[i] = arrived
<1>1. /\ result.output_amount \in Nat /\ result.input_amount \in Nat
      /\ arrived = result.input_amount
      /\ vault' = [vault EXCEPT ![i] = @ + arrived, ![1 - i] = @ - result.output_amount]
  BY DEF SettlesSoundly, sound_result, SettleSwap
<1>2. /\ vault \in [Side -> U64] /\ 1 - i \in Side /\ 1 - i # i
      /\ vault[i] \in Nat /\ vault[1 - i] \in Nat
  BY PoolFields, Balances DEF IInv
<1>3. vault'[1 - i] = vault[1 - i] - result.output_amount /\ vault'[i] = vault[i] + arrived
  BY <1>1, <1>2
<1>4. QED
  BY <1>1, <1>2, <1>3

\* An exact input brings what the client was quoted, slipped, at the least.
LEMMA BaseInputBrings ==
    ASSUME ClientInv, client.phase \in {"signed", "sent", "polled"},
           client.kind = "swap_base_in",
           SwapBaseInput(client.i, client.amount, client.limit[0], current_fee),
           NEW moved, moved = vault'[1 - client.i] - vault[1 - client.i]
    PROVE  brings_at_least(-moved - calculate_fee(current_fee[1 - client.i], -moved),
                           base_in_received(client_rates, client.epoch))
<1>1. /\ IInv /\ ClientTypeOK /\ FetchedLive /\ client.amount \in U64
      /\ client.i \in Side /\ 1 - client.i \in Side /\ current_fee \in AnyFees
  BY CurrentFees DEF ClientInv, ClientTypeOK, Side
<1>2. PICK result, arrived :
        /\ SettlesSoundly(client.i, result, arrived)
        /\ result.output_amount - calculate_fee(current_fee[1 - client.i], result.output_amount)
               >= client.limit[0]
  BY <1>1, SwapBaseInputSettles
<1>3. PICK out \in Nat : out = result.output_amount /\ -moved = out
  BY <1>1, <1>2, SettledMoves
<1>4. PICK fee \in Int : fee = calculate_fee(current_fee[1 - client.i], out)
  BY <1>1, <1>3, FeeArgument, TransferFeeBounded
<1>5. PICK quoted \in U64, limit \in Int :
          /\ quoted = base_in_received(client_rates, client.epoch)
          /\ limit = client.limit[0]
          /\ limit \in amount_with_slippage(quoted, FALSE)
  BY SwapLimit
<1>6. brings_at_least(limit, quoted)
  BY <1>5, SlippedDown
<1>7. out - fee \in Int /\ limit <= out - fee
  BY <1>2, <1>3, <1>4, <1>5
<1>8. brings_at_least(out - fee, quoted)
  BY <1>6, <1>7, WithinLimit
<1>9. QED
  BY <1>3, <1>4, <1>5, <1>8

\* An exact output costs what the client was quoted, slipped, at the most, with
\* what the transfer of the input withholds.
LEMMA BaseOutputCosts ==
    ASSUME ClientInv, client.phase \in {"signed", "sent", "polled"},
           client.kind = "swap_base_out",
           SwapBaseOutput(client.i, client.limit[0], client.amount, current_fee),
           NEW moved, moved = vault'[client.i] - vault[client.i]
    PROVE  costs_at_most(moved + get_transfer_inverse_fee(current_fee[client.i], moved),
                         base_out_paid(client_rates, client.epoch))
<1>1. /\ IInv /\ ClientTypeOK /\ FetchedLive /\ client.amount \in U64
      /\ client.i \in Side /\ current_fee \in AnyFees
  BY CurrentFees DEF ClientInv, ClientTypeOK
<1>2. PICK result, arrived :
        /\ SettlesSoundly(client.i, result, arrived)
        /\ arrived + get_transfer_inverse_fee(current_fee[client.i], arrived) <= client.limit[0]
  BY <1>1, SwapBaseOutputSettles
<1>3. arrived \in Nat /\ moved = arrived
  BY <1>1, <1>2, SettledMoves
<1>4. PICK fee \in Int : fee = get_transfer_inverse_fee(current_fee[client.i], arrived)
  BY <1>1, <1>3, FeeArgument, InverseFeeNat
<1>5. PICK quoted \in U64, limit \in Int :
          /\ quoted = base_out_paid(client_rates, client.epoch)
          /\ limit = client.limit[0]
          /\ limit \in amount_with_slippage(quoted, TRUE)
  BY SwapLimit
<1>6. costs_at_most(limit, quoted)
  BY <1>5, SlippedUp
<1>7. arrived + fee \in Int /\ arrived + fee <= limit
  BY <1>2, <1>3, <1>4, <1>5
<1>8. costs_at_most(arrived + fee, quoted)
  BY <1>6, <1>7, WithinLimit
<1>9. QED
  BY <1>3, <1>4, <1>5, <1>8

\* The calculator does not look at the pool: on the accounts fetched it answers
\* what it always does.
LEMMA FetchedCalculator ==
    ASSUME NEW a, NEW x, NEW y, NEW rates, NEW on
    PROVE  /\ Fetched!swap_base_input(a, x, y, rates, on) = swap_base_input(a, x, y, rates, on)
           /\ Fetched!swap_base_output(a, x, y, rates, on) = swap_base_output(a, x, y, rates, on)
<1>1. Fetched!swap_base_input(a, x, y, rates, on) = swap_base_input(a, x, y, rates, on)
  BY Zenon DEF swap_base_input, input_less_fees, swap_base_input_without_fees, trading_fee,
               creator_fee, protocol_fee, fund_fee, ceil_div, floor_div, DEN, None,
               Fetched!swap_base_input, Fetched!input_less_fees,
               Fetched!swap_base_input_without_fees, Fetched!trading_fee,
               Fetched!creator_fee, Fetched!protocol_fee, Fetched!fund_fee,
               Fetched!ceil_div, Fetched!floor_div, Fetched!DEN, Fetched!None
<1>2. Fetched!swap_base_output(a, x, y, rates, on) = swap_base_output(a, x, y, rates, on)
  BY Zenon DEF swap_base_output, swap_base_output_defined, input_fee_rate,
               swap_base_output_without_fees, calculate_pre_fee_amount, split_creator_fee,
               protocol_fee, fund_fee, ceil_div, floor_div, DEN, None,
               Fetched!swap_base_output, Fetched!swap_base_output_defined,
               Fetched!input_fee_rate, Fetched!swap_base_output_without_fees,
               Fetched!calculate_pre_fee_amount, Fetched!split_creator_fee,
               Fetched!protocol_fee, Fetched!fund_fee, Fetched!ceil_div, Fetched!floor_div,
               Fetched!DEN, Fetched!None
<1>3. QED
  BY <1>1, <1>2

\* Where the client knows the rates, its quote is what the program itself would
\* pay or charge on the accounts fetched.
LEMMA QuotedAtKnownRates ==
    ASSUME ClientInv, client.phase \in {"signed", "sent", "polled"}, rates_known
    PROVE  /\ client.kind = "swap_base_in" =>
                  base_in_received(client_rates, client.epoch) = fair_received
           /\ client.kind = "swap_base_out" =>
                  base_out_paid(client_rates, client.epoch) = fair_paid
<1> DEFINE i == client.i
           x == Fetched!vault_amount_without_fee(i)
           y == Fetched!vault_amount_without_fee(1 - i)
           on == Fetched!is_creator_fee_on_input(i)
           fee(k, a) == client_transfer_fee(mint[k], client.epoch, a)
           inverse(k, a) == client_inverse_fee(mint[k], client.epoch, a)
           bought == swap_base_input(client.amount - fee(i, client.amount), x, y, client_rates, on)
           sold == swap_base_output(client.amount + inverse(1 - i, client.amount), x, y,
                                    client_rates, on)
           paid == sold.input_amount + inverse(i, sold.input_amount)
<1>1. Fetched!swap_rates = client_rates
  <2>1. Fetched!adjust_creator_fee_rate(client.amm_config.creator_fee_rate)
            = client.amm_config.creator_fee_rate
    BY DEF Fetched!adjust_creator_fee_rate, rates_known
  <2>2. QED
    BY <2>1 DEF Fetched!swap_rates, client_rates, FeeRates, Fetched!FeeRates
<1>2. i \in Side /\ 1 - i \in Side
  BY DEF ClientInv, ClientTypeOK, Side
<1>3. ASSUME NEW k \in Side, NEW a
      PROVE  /\ fee(k, a) = get_transfer_fee(quoted_fee[k], a)
             /\ fee(k, a) = Fetched!get_transfer_fee(quoted_fee[k], a)
             /\ inverse(k, a) = Fetched!get_transfer_inverse_fee(quoted_fee[k], a)
  <2>1. quoted_fee[k] = get_epoch_fee(mint[k], client.epoch)
    BY DEF quoted_fee
  <2>2. QED
    BY <2>1, Zenon DEF client_transfer_fee, client_inverse_fee, get_transfer_fee,
           get_transfer_inverse_fee, calculate_inverse_fee, calculate_pre_fee_transfer,
           calculate_fee, lesser, Fetched!get_transfer_fee, Fetched!get_transfer_inverse_fee,
           Fetched!calculate_inverse_fee, Fetched!calculate_pre_fee_transfer,
           Fetched!calculate_fee, Fetched!lesser
<1>4. Fetched!base_input_result(i, client.amount, quoted_fee) = bought
  <2>1. Fetched!actual_amount_in(i, client.amount, quoted_fee)
            = client.amount - fee(i, client.amount)
    BY <1>2, <1>3, Zenon DEF Fetched!actual_amount_in
  <2>2. Fetched!base_input_result(i, client.amount, quoted_fee)
            = Fetched!swap_base_input(client.amount - fee(i, client.amount), x, y,
                                      client_rates, on)
    BY <1>1, <2>1, Zenon DEF Fetched!base_input_result
  <2> HIDE DEF x, y, on, fee, i
  <2>3. QED
    BY <2>2, FetchedCalculator
<1>5. Fetched!base_output_result(i, client.amount, quoted_fee) = sold
  <2>1. Fetched!base_output_result(i, client.amount, quoted_fee)
            = Fetched!swap_base_output(client.amount + inverse(1 - i, client.amount), x, y,
                                       client_rates, on)
    BY <1>1, <1>2, <1>3, Zenon DEF Fetched!base_output_result
  <2> HIDE DEF x, y, on, inverse, i
  <2>2. QED
    BY <2>1, FetchedCalculator
<1>6. fair_received = bought.output_amount - fee(1 - i, bought.output_amount)
  BY <1>2, <1>3, <1>4, Zenon DEF fair_received
<1>7. fair_paid = paid
  BY <1>2, <1>3, <1>5, Zenon DEF fair_paid, Fetched!input_transfer_amount
<1>8. ASSUME client.kind = "swap_base_in"
      PROVE  base_in_received(client_rates, client.epoch) = fair_received
  <2>1. base_in_received(client_rates, client.epoch)
            = IF bought.ok THEN bought.output_amount - fee(1 - i, bought.output_amount)
                           ELSE NoLimit
    BY Zenon DEF base_in_received
  <2>2. base_in_received(client_rates, client.epoch) # NoLimit
    BY <1>8, SwapLimit
  <2> HIDE DEF bought, fee
  <2>3. QED
    BY <1>6, <2>1, <2>2, Zenon
<1>9. ASSUME client.kind = "swap_base_out"
      PROVE  base_out_paid(client_rates, client.epoch) = fair_paid
  <2>1. base_out_paid(client_rates, client.epoch)
            = IF sold.ok /\ paid <= U64_MAX THEN paid ELSE NoLimit
    BY Zenon DEF base_out_paid
  <2>2. base_out_paid(client_rates, client.epoch) # NoLimit
    BY <1>9, SwapLimit
  <2> HIDE DEF sold, paid
  <2>3. QED
    BY <1>7, <2>1, <2>2, Zenon
<1>10. QED
  BY <1>8, <1>9

\* Only one step executes a transaction that has no status.
LEMMA ExecutedLands ==
    ASSUME ClientInv, [ClientNext]_<<vars, client_vars>>,
           txn.status = "none", txn'.status = "executed"
    PROVE  /\ Instruction(client.limit)
           /\ client.phase \in {"signed", "sent", "polled"}
<1>1. TxnFollows /\ ClientTypeOK
  BY DEF ClientInv
<1>2. LandExecuted
  <2>1. ~ClientStep
    BY <1>1 DEF ClientStep, Fetch, Sign, Send, Poll, CheckBlockhash, poll_again, NoTxn,
                ClientTypeOK
  <2>2. ~LandRefused /\ ~Lose /\ ~BlockhashExpires /\ ~NextEpoch
    BY <1>1 DEF LandRefused, Lose, BlockhashExpires, NextEpoch, ClientTypeOK
  <2>3. txn' # txn
    OBVIOUS
  <2>4. QED
    BY <2>1, <2>2, <2>3 DEF ClientNext, client_vars
<1>3. Deliverable
  BY <1>2 DEF LandExecuted
<1>4. QED
  BY <1>1, <1>2, <1>3 DEF LandExecuted, Deliverable, TxnFollows, NoTxn, ClientTypeOK, Phases,
                          Outcomes

\* What leaves the user's accounts, the fees of the transfers included, is at most
\* the client's quote, and what arrives there is at least that, but for the
\* slippage, the precision of the f64 and a unit of rounding: whatever others did
\* and whatever fees came into force before the transaction landed, and however
\* often it was sent (swap_base_output.rs:86, swap_base_input.rs:150,
\* deposit.rs:158, withdraw.rs:172).  For swaps the quote is the client's own, in
\* every pool, and the program's own price on the accounts fetched where the
\* client knows the rates.  For deposits and withdrawals it is the share, and one
\* capped transfer fee of the mint may come on top.
THEOREM SlippageIsHonoured == ClientSafety => SlippageHonoured
<1> DEFINE moved(k) == vault'[k] - vault[k]
           paid(k) == moved(k) + get_transfer_inverse_fee(current_fee[k], moved(k))
           received(k) == -moved(k) - calculate_fee(current_fee[k], -moved(k))
           in_received == base_in_received(client_rates, client.epoch)
           out_paid == base_out_paid(client_rates, client.epoch)
<1>1. ClientInv /\ [ClientNext]_<<vars, client_vars>> => LandsWithinSlippage
  <2> SUFFICES ASSUME ClientInv, [ClientNext]_<<vars, client_vars>>,
                      txn.status = "none", txn'.status = "executed"
               PROVE  LandsWithinSlippage
    BY Zenon DEF LandsWithinSlippage
  <2>1. Instruction(client.limit) /\ client.phase \in {"signed", "sent", "polled"}
    BY ExecutedLands
  <2>2. ASSUME client.kind = "deposit", NEW k \in Side
        PROVE  costs_at_most(paid(k) - most_withheld(k), quoted_share(k))
    <3>1. Deposit(client.amount, client.limit, current_fee)
      BY <2>1, <2>2 DEF Instruction
    <3> DEFINE change == vault'[k] - vault[k]
    <3>2. costs_at_most((change + get_transfer_inverse_fee(current_fee[k], change))
                            - most_withheld(k), quoted_share(k))
      BY <2>1, <2>2, <3>1, DepositCosts, Zenon
    <3>3. QED
      BY <3>2, Zenon
  <2>3. ASSUME client.kind = "withdraw", NEW k \in Side
        PROVE  brings_at_least(received(k) + most_withheld(k), quoted_share(k))
    <3>1. Withdraw(client.amount, client.limit, current_fee)
      BY <2>1, <2>3 DEF Instruction
    <3>2. QED
      BY <2>1, <2>3, <3>1, WithdrawBrings, Zenon
  <2>4. ASSUME client.kind = "swap_base_in"
        PROVE  /\ brings_at_least(received(1 - client.i), in_received)
               /\ rates_known => in_received = fair_received
    <3>1. SwapBaseInput(client.i, client.amount, client.limit[0], current_fee)
      BY <2>1, <2>4 DEF Instruction
    <3>2. QED
      BY <2>1, <2>4, <3>1, BaseInputBrings, QuotedAtKnownRates, Zenon
  <2>5. ASSUME client.kind = "swap_base_out"
        PROVE  /\ costs_at_most(paid(client.i), out_paid)
               /\ rates_known => out_paid = fair_paid
    <3>1. SwapBaseOutput(client.i, client.limit[0], client.amount, current_fee)
      BY <2>1, <2>5 DEF Instruction
    <3>2. QED
      BY <2>1, <2>5, <3>1, BaseOutputCosts, QuotedAtKnownRates, Zenon
  <2>6. QED
    BY <2>2, <2>3, <2>4, <2>5, Zenon DEF LandsWithinSlippage
<1>2. QED
  BY <1>1, ClientInvariant, PTL DEF ClientSafety, SlippageHonoured

-----------------------------------------------------------------------------
(* A quote stands while nothing changes. *)

\* What the client calculates with is what the program calculates with, but for
\* the creator's rate, which the program may waive.
LEMMA AsFetched ==
    ASSUME ClientInv, undisturbed
    PROVE  /\ client.pool_state.lp_supply = pool_state.lp_supply
           /\ \A k : Fetched!vault_amount_without_fee(k) = vault_amount_without_fee(k)
           /\ \A k : Fetched!is_creator_fee_on_input(k) = is_creator_fee_on_input(k)
           /\ \A k \in Side : \A amount :
                  /\ client_transfer_fee(mint[k], client.epoch, amount)
                         = get_transfer_fee(current_fee[k], amount)
                  /\ client_inverse_fee(mint[k], client.epoch, amount)
                         = get_transfer_inverse_fee(current_fee[k], amount)
           /\ swap_rates \in {client_rates, [client_rates EXCEPT !.creator = 0]}
<1>1. /\ pool_state = client.pool_state /\ vault = client.vault
      /\ amm_config = client.amm_config /\ epoch = client.epoch
  BY DEF undisturbed
<1>2. ASSUME NEW k
      PROVE  /\ Fetched!vault_amount_without_fee(k) = vault_amount_without_fee(k)
             /\ Fetched!is_creator_fee_on_input(k) = is_creator_fee_on_input(k)
  BY <1>1 DEF Fetched!vault_amount_without_fee, Fetched!owed_fees, vault_amount_without_fee,
              owed_fees, Fetched!is_creator_fee_on_input, is_creator_fee_on_input
<1>3. ASSUME NEW k \in Side, NEW amount
      PROVE  /\ client_transfer_fee(mint[k], client.epoch, amount)
                    = get_transfer_fee(current_fee[k], amount)
             /\ client_inverse_fee(mint[k], client.epoch, amount)
                    = get_transfer_inverse_fee(current_fee[k], amount)
  <2>1. current_fee[k] = get_epoch_fee(mint[k], client.epoch)
    BY <1>1 DEF current_fee
  <2>2. QED
    BY <2>1, Zenon DEF client_transfer_fee, client_inverse_fee, get_transfer_fee
<1>4. swap_rates \in {client_rates, [client_rates EXCEPT !.creator = 0]}
  BY <1>1 DEF swap_rates, client_rates, adjust_creator_fee_rate, FeeRates
<1>5. QED
  BY <1>1, <1>2, <1>3, <1>4

\* The share a deposit pays is the share the client found, below its limit.
LEMMA DepositStands ==
    ASSUME ClientInv, undisturbed, client.kind = "deposit", mints_without_fee,
           quote_on_the_safe_side,
           deposit_accepted(client.amount, no_limit, current_fee)
    PROVE  deposit_accepted(client.amount, client.limit, current_fee)
<1>1. /\ ClientTypeOK /\ FetchedLive /\ client.phase \in {"signed", "sent", "polled"}
  BY DEF ClientInv, undisturbed
<1>2. ASSUME NEW k \in Side
      PROVE  deposit_transfer_amount(client.amount, current_fee, k) <= client.limit[k]
  <2>1. PICK share \in Nat :
            /\ share = lp_to_trading_ceiling(client.amount, client.pool_state.lp_supply,
                                             Fetched!vault_amount_without_fee(k))
            /\ share <= U64_MAX => quoted_share(k) = share
    BY <1>1, SignedLimit, QuotedShare
  <2>2. deposit_amount(client.amount, k) = share
    BY <2>1, AsFetched DEF deposit_amount
  <2>3. get_transfer_inverse_fee(current_fee[k], share) = 0
    <3>1. client_inverse_fee(mint[k], client.epoch, share) = 0
      BY <1>1, NothingCharged
    <3>2. QED
      BY <3>1, AsFetched
  <2>4. deposit_transfer_amount(client.amount, current_fee, k) = share
    BY <2>2, <2>3 DEF deposit_transfer_amount
  <2>5. share \in U64 /\ quoted_share(k) = share
    <3>1. share <= U64_MAX
      BY <2>4 DEF deposit_accepted, no_limit
    <3>2. QED
      BY <2>1, <3>1, PoolAssumption DEF U64
  <2>6. client.limit[k] \in deposit_limit(mint[k], client.epoch, share) /\ client.limit[k] # NoLimit
    BY <1>1, <2>5, SignedLimit DEF quote_limit
  <2>7. PICK slipped \in amount_with_slippage(share, TRUE) :
            /\ client.limit[k] = slipped
                   + get_pool_mints_inverse_fee(mint[k], client.epoch, slipped)
            /\ client.limit[k] <= U64_MAX
    BY <2>6, DepositQuote, Zenon
  <2>8. get_pool_mints_inverse_fee(mint[k], client.epoch, slipped) = 0
    BY <1>1, SignedLimit, NothingCharged DEF get_pool_mints_inverse_fee
  <2>9. /\ slipped \in Int
        /\ SlippagePercent > 0 \/ slipped < FLOAT_PRECISION - 1 => share <= slipped
    <3>1. /\ slipped \in U64
          /\ SlippagePercent > 0 \/ slipped < FLOAT_PRECISION - 1 => share <= slipped
      BY <2>5, SlippedUp
    <3>2. QED
      BY <3>1, PoolAssumption DEF U64
  <2>10. client.limit[k] = slipped
    BY <2>7, <2>8, <2>9
  <2>11. share <= slipped
    BY <2>9, <2>10 DEF quote_on_the_safe_side
  <2>12. QED
    BY <2>4, <2>10, <2>11
<1>3. QED
  BY <1>2, Zenon DEF deposit_accepted

\* What a withdrawal takes is the share the client found, or one unit less: the
\* slippage, when there is some, is a unit at least.
LEMMA WithdrawStands ==
    ASSUME ClientInv, undisturbed, client.kind = "withdraw", mints_without_fee,
           quote_on_the_safe_side,
           withdraw_accepted(client.amount, no_limit, current_fee)
    PROVE  withdraw_accepted(client.amount, client.limit, current_fee)
<1>1. /\ IInv /\ ClientTypeOK /\ FetchedLive /\ client.phase \in {"signed", "sent", "polled"}
      /\ pool_state.initialized /\ client.amount \in Nat
      /\ client.amount <= lp_mint_supply
  BY FetchedReserves DEF ClientInv, undisturbed, withdraw_accepted
<1>2. ASSUME NEW k \in Side
      PROVE  withdraw_amount(client.amount, k)
                 - get_transfer_fee(current_fee[k], withdraw_amount(client.amount, k))
                     >= client.limit[k]
  <2>1. PICK share \in Nat :
            /\ share = lp_to_trading_ceiling(client.amount, client.pool_state.lp_supply,
                                             Fetched!vault_amount_without_fee(k))
            /\ share <= U64_MAX => quoted_share(k) = share
    BY <1>1, SignedLimit, QuotedShare
  <2>2. PICK floor \in Nat : /\ floor = lp_to_trading_floor(client.amount, pool_state.lp_supply,
                                                            vault_amount_without_fee(k))
                             /\ floor < vault_amount_without_fee(k)
    <3>1. client.amount < pool_state.lp_supply
      BY <1>1, LivePool, PoolAssumption
    <3>2. QED
      BY <1>1, <3>1, LivePool, FloorShareLess
  <2>3. withdraw_amount(client.amount, k) = floor
    BY <1>1, <2>2, LivePool DEF withdraw_amount, lesser
  <2>4. floor > 0
    BY <2>3 DEF withdraw_accepted
  <2>5. share \in {floor, floor + 1}
    BY <2>1, <2>2, AsFetched DEF lp_to_trading_ceiling, lp_to_trading_floor
  <2>6. get_transfer_fee(current_fee[k], floor) = 0
    BY <1>1, NothingCharged DEF get_transfer_fee
  <2>7. share \in U64 /\ quoted_share(k) = share
    <3>1. floor < U64_MAX /\ U64_MAX \in Nat
      <4>1. /\ vault_amount_without_fee(k) \in Nat /\ vault_amount_without_fee(k) <= U64_MAX
        BY <1>1, SignedLimit, FetchedReserves, AsFetched
      <4>2. QED
        BY <2>2, <4>1, PoolAssumption
    <3>2. share <= U64_MAX
      BY <2>2, <2>5, <3>1
    <3>3. QED
      BY <2>1, <3>1, <3>2 DEF U64
  <2>8. /\ client.limit[k] \in withdraw_limit(mint[k], client.epoch, share)
        /\ client.limit[k] # NoLimit
    BY <1>1, <2>7, SignedLimit DEF quote_limit
  <2>9. PICK slipped \in amount_with_slippage(share, FALSE) :
            /\ client.limit[k] = slipped
                   - get_pool_mints_transfer_fee(mint[k], client.epoch, slipped)
            /\ get_pool_mints_transfer_fee(mint[k], client.epoch, slipped) <= slipped
    BY <2>8, WithdrawQuote, Zenon
  <2>10. get_pool_mints_transfer_fee(mint[k], client.epoch, slipped) = 0
    BY <1>1, SignedLimit, NothingCharged DEF get_pool_mints_transfer_fee
  <2>11. slipped \in Int /\ slipped <= share - 1
    <3>1. SlippagePercent > 0 /\ share > 0
      BY <2>2, <2>4, <2>5 DEF quote_on_the_safe_side
    <3>2. slipped \in U64 /\ slipped <= share - 1
      BY <2>7, <3>1, SlippedDown
    <3>3. QED
      BY <3>2, PoolAssumption DEF U64
  <2>12. client.limit[k] = slipped /\ slipped <= floor
    BY <2>1, <2>2, <2>5, <2>9, <2>10, <2>11
  <2>13. withdraw_amount(client.amount, k)
             - get_transfer_fee(current_fee[k], withdraw_amount(client.amount, k)) = floor
    BY <2>3, <2>6
  <2>14. QED
    BY <2>12, <2>13
<1>3. QED
  BY <1>2, Zenon DEF withdraw_accepted

\* An exact input brings what the client calculated, or more: a creator fee that
\* the pool does not charge is the only difference.
LEMMA BaseInputStands ==
    ASSUME ClientInv, undisturbed, client.kind = "swap_base_in", quote_on_the_safe_side,
           base_input_accepted(client.i, client.amount, no_limit[0], current_fee)
    PROVE  base_input_accepted(client.i, client.amount, client.limit[0], current_fee)
<1> DEFINE i == client.i
           x == vault_amount_without_fee(i)
           y == vault_amount_without_fee(1 - i)
           on == is_creator_fee_on_input(i)
           arriving == actual_amount_in(i, client.amount, current_fee)
           free == base_input_result(i, client.amount, current_fee)
           quoted == swap_base_input(arriving, x, y, client_rates, on)
           fee(a) == get_transfer_fee(current_fee[1 - i], a)
           received == base_in_received(client_rates, client.epoch)
<1>1. /\ ClientTypeOK /\ FetchedLive /\ client.phase \in {"signed", "sent", "polled"}
      /\ client.phase # "idle"
      /\ current_fee[i] \in TransferFees /\ current_fee[1 - i] \in TransferFees
      /\ i \in Side /\ 1 - i \in Side /\ client.amount \in Nat
      /\ client_rates \in RateRecords /\ rates_within_denominator(client_rates)
      /\ on \in BOOLEAN
  <2>1. /\ ClientTypeOK /\ FetchedLive /\ client.phase \in {"signed", "sent", "polled"}
        /\ client.phase # "idle"
    BY DEF ClientInv, undisturbed
  <2>2. on \in BOOLEAN
    BY DEF is_creator_fee_on_input
  <2>3. QED
    BY <2>1, <2>2, FetchedReserves, CurrentFees, FeeArgument
<1>2. x \in Nat \ {0} /\ y \in Nat \ {0}
  BY <1>1, FetchedReserves, AsFetched
<1>3. arriving \in Nat
  BY <1>1, TransferFeeBounded DEF actual_amount_in, get_transfer_fee
<1>4. /\ free = swap_base_input(arriving, x, y, swap_rates, on)
      /\ swap_rates \in {client_rates, [client_rates EXCEPT !.creator = 0]}
      /\ free.ok
  BY AsFetched DEF base_input_result, base_input_accepted
<1>5. received = IF quoted.ok THEN quoted.output_amount - fee(quoted.output_amount) ELSE NoLimit
  <2>1. client_transfer_fee(mint[i], client.epoch, client.amount)
            = get_transfer_fee(current_fee[i], client.amount)
    BY <1>1, AsFetched
  <2>2. client_transfer_fee(mint[1 - i], client.epoch, quoted.output_amount)
            = fee(quoted.output_amount)
    BY <1>1, AsFetched
  <2>3. /\ Fetched!vault_amount_without_fee(i) = x
        /\ Fetched!vault_amount_without_fee(1 - i) = y
        /\ Fetched!is_creator_fee_on_input(i) = on
    BY AsFetched
  <2>4. QED
    BY <2>1, <2>2, <2>3 DEF base_in_received, actual_amount_in
<1>6. quoted.ok /\ received # NoLimit
  BY <1>1, <1>5, SwapLimit
<1>7. quoted.output_amount \in Nat
  BY <1>1, <1>2, <1>3, <1>6, SwapBaseInputSound DEF sound_result
<1>8. quoted.output_amount <= free.output_amount /\ free.output_amount \in Nat
  <2> HIDE DEF x, y, on, arriving
  <2>1. CASE swap_rates = client_rates
    BY <1>4, <1>7, <2>1
  <2>2. CASE swap_rates = [client_rates EXCEPT !.creator = 0]
    <3>1. quoted.output_amount <= free.output_amount
      BY <1>1, <1>2, <1>3, <1>4, <1>6, <2>2, WithoutCreatorFeeBringsNoLess
    <3>2. /\ [client_rates EXCEPT !.creator = 0] \in RateRecords
          /\ rates_within_denominator([client_rates EXCEPT !.creator = 0])
      BY <1>1, DenPositive DEF RateRecords, rates_within_denominator
    <3>3. free.output_amount \in Nat
      BY <1>1, <1>2, <1>3, <1>4, <2>2, <3>2, SwapBaseInputSound DEF sound_result
    <3>4. QED
      BY <3>1, <3>3
  <2>3. QED
    BY <1>4, <2>1, <2>2
<1> HIDE DEF x, y, on, arriving, quoted, free
<1>9. PICK a \in Nat, b \in Nat : a = quoted.output_amount /\ b = free.output_amount /\ a <= b
  BY <1>7, <1>8
<1>10. /\ fee(a) \in 0 .. a /\ fee(b) \in 0 .. b
       /\ a - fee(a) <= b - fee(b)
  BY <1>1, <1>9, TransferFeeBounded, TransferFeeRises DEF get_transfer_fee
<1>11. PICK q \in Nat : q = received /\ q <= b - fee(b)
  BY <1>5, <1>6, <1>9, <1>10
<1> HIDE DEF fee, received, i
<1>12. PICK limit \in Int : limit = client.limit[0] /\ limit <= q
  <2>1. client.limit[0] \in Int /\ q \in U64 /\ client.limit[0] \in amount_with_slippage(q, FALSE)
    BY <1>1, <1>11, SwapLimit DEF received
  <2>2. SlippagePercent > 0 \/ client.limit[0] < FLOAT_PRECISION - 1
    BY DEF quote_on_the_safe_side, Side
  <2>3. client.limit[0] <= q
    BY <2>1, <2>2, SlippedDown
  <2>4. QED
    BY <2>1, <2>3
<1>13. b - fee(b) >= client.limit[0]
  <2>1. fee(b) \in Int
    BY <1>10
  <2>2. b - fee(b) >= limit
    BY <1>9, <1>11, <1>12, <2>1
  <2>3. QED
    BY <1>12, <2>2, Zenon
<1>14. free.output_amount - get_transfer_fee(current_fee[1 - client.i], free.output_amount)
           >= client.limit[0]
  BY <1>9, <1>13, Zenon DEF fee, i
<1>15. QED
  BY <1>14, Zenon DEF base_input_accepted, free, i

\* An exact output costs what the client calculated, or less.
LEMMA BaseOutputStands ==
    ASSUME ClientInv, undisturbed, client.kind = "swap_base_out", quote_on_the_safe_side,
           base_output_accepted(client.i, no_limit[0], client.amount, current_fee)
    PROVE  base_output_accepted(client.i, client.limit[0], client.amount, current_fee)
<1> DEFINE i == client.i
           x == vault_amount_without_fee(i)
           y == vault_amount_without_fee(1 - i)
           on == is_creator_fee_on_input(i)
           leaving == client.amount + get_transfer_inverse_fee(current_fee[1 - i], client.amount)
           free == base_output_result(i, client.amount, current_fee)
           quoted == swap_base_output(leaving, x, y, client_rates, on)
           fee(a) == get_transfer_inverse_fee(current_fee[i], a)
           paid == base_out_paid(client_rates, client.epoch)
<1>1. /\ ClientTypeOK /\ FetchedLive /\ client.phase \in {"signed", "sent", "polled"}
      /\ client.phase # "idle"
      /\ current_fee[i] \in TransferFees /\ current_fee[1 - i] \in TransferFees
      /\ i \in Side /\ 1 - i \in Side /\ client.amount \in Nat
      /\ client_rates \in RateRecords /\ rates_within_denominator(client_rates)
      /\ on \in BOOLEAN
  <2>1. /\ ClientTypeOK /\ FetchedLive /\ client.phase \in {"signed", "sent", "polled"}
        /\ client.phase # "idle"
    BY DEF ClientInv, undisturbed
  <2>2. on \in BOOLEAN
    BY DEF is_creator_fee_on_input
  <2>3. QED
    BY <2>1, <2>2, FetchedReserves, CurrentFees, FeeArgument
<1>2. x \in Nat \ {0} /\ y \in Nat \ {0}
  BY <1>1, FetchedReserves, AsFetched
<1>3. leaving \in Nat
  BY <1>1, InverseFeeNat
<1>4. /\ free = swap_base_output(leaving, x, y, swap_rates, on)
      /\ swap_rates \in {client_rates, [client_rates EXCEPT !.creator = 0]}
      /\ free.ok
  BY AsFetched DEF base_output_result, base_output_accepted
<1>5. paid = IF quoted.ok /\ quoted.input_amount + fee(quoted.input_amount) <= U64_MAX
             THEN quoted.input_amount + fee(quoted.input_amount) ELSE NoLimit
  <2>1. client_inverse_fee(mint[1 - i], client.epoch, client.amount)
            = get_transfer_inverse_fee(current_fee[1 - i], client.amount)
    BY <1>1, AsFetched
  <2>2. client_inverse_fee(mint[i], client.epoch, quoted.input_amount)
            = fee(quoted.input_amount)
    BY <1>1, AsFetched
  <2>3. /\ Fetched!vault_amount_without_fee(i) = x
        /\ Fetched!vault_amount_without_fee(1 - i) = y
        /\ Fetched!is_creator_fee_on_input(i) = on
    BY AsFetched
  <2>4. QED
    BY <2>1, <2>2, <2>3 DEF base_out_paid
<1>6. quoted.ok /\ paid # NoLimit
  BY <1>1, <1>5, SwapLimit
<1>7. quoted.input_amount \in Nat
  BY <1>1, <1>2, <1>3, <1>6, SwapBaseOutputSound DEF sound_result
<1>8. free.input_amount <= quoted.input_amount /\ free.input_amount \in Nat
  <2> HIDE DEF x, y, on, leaving
  <2>1. CASE swap_rates = client_rates
    BY <1>4, <1>7, <2>1
  <2>2. CASE swap_rates = [client_rates EXCEPT !.creator = 0]
    <3>1. free.input_amount <= quoted.input_amount
      BY <1>1, <1>2, <1>3, <1>4, <1>6, <2>2, WithoutCreatorFeeCostsNoMore
    <3>2. /\ [client_rates EXCEPT !.creator = 0] \in RateRecords
          /\ rates_within_denominator([client_rates EXCEPT !.creator = 0])
      BY <1>1, DenPositive DEF RateRecords, rates_within_denominator
    <3>3. free.input_amount \in Nat
      BY <1>1, <1>2, <1>3, <1>4, <2>2, <3>2, SwapBaseOutputSound DEF sound_result
    <3>4. QED
      BY <3>1, <3>3
  <2>3. QED
    BY <1>4, <2>1, <2>2
<1> HIDE DEF x, y, on, leaving, quoted, free
<1>9. PICK a \in Nat, b \in Nat : a = quoted.input_amount /\ b = free.input_amount /\ b <= a
  BY <1>7, <1>8
<1>10. /\ fee(a) \in Nat /\ fee(b) \in Nat
       /\ b + fee(b) <= a + fee(a)
  BY <1>1, <1>9, InverseFeeNat, SentRises
<1>11. PICK q \in Nat : q = paid /\ b + fee(b) <= q
  BY <1>5, <1>6, <1>9, <1>10
<1> HIDE DEF fee, paid, i
<1>12. PICK limit \in Int : limit = client.limit[0] /\ q <= limit
  <2>1. client.limit[0] \in Int /\ q \in U64 /\ client.limit[0] \in amount_with_slippage(q, TRUE)
    BY <1>1, <1>11, SwapLimit DEF paid
  <2>2. SlippagePercent > 0 \/ client.limit[0] < FLOAT_PRECISION - 1
    BY DEF quote_on_the_safe_side, Side
  <2>3. q <= client.limit[0]
    BY <2>1, <2>2, SlippedUp
  <2>4. QED
    BY <2>1, <2>3
<1>13. client.limit[0] >= b + fee(b)
  <2>1. limit >= b + fee(b)
    BY <1>9, <1>10, <1>11, <1>12
  <2>2. QED
    BY <1>12, <2>1, Zenon
<1>14. client.limit[0] >= input_transfer_amount(client.i, client.amount, current_fee)
  BY <1>9, <1>13, Zenon DEF fee, free, i, input_transfer_amount
<1>15. QED
  BY <1>14, Zenon DEF base_output_accepted

\* While the pool, its config, its vaults and the epoch are as the client saw
\* them, no transaction is refused for its own limits, unless for the rounding of
\* the client's f64 (quote_on_the_safe_side): the client's share is the
\* program's, its creator rate is at least the program's, and whatever falls or
\* rises with the calculator's answer, transfer fees included, falls or rises
\* with the limit (main.rs:243, 349, 534, 692).
THEOREM QuotesHold == ClientSafety => []QuotesStand
<1>1. ASSUME ClientInv, undisturbed, accounts_created, instruction_accepted(no_limit),
             client.kind \in {"deposit", "withdraw"} => mints_without_fee,
             quote_on_the_safe_side
      PROVE  instruction_accepted(client.limit)
  <2>1. client.kind \in Kinds
    BY <1>1 DEF ClientInv, ClientTypeOK
  <2>2. CASE client.kind = "deposit"
    <3>1. deposit_accepted(client.amount, no_limit, current_fee)
      BY <1>1, <2>2 DEF instruction_accepted
    <3>2. QED
      BY <1>1, <2>2, <3>1, DepositStands DEF instruction_accepted
  <2>3. CASE client.kind = "withdraw"
    <3>1. withdraw_accepted(client.amount, no_limit, current_fee)
      BY <1>1, <2>3 DEF instruction_accepted
    <3>2. QED
      BY <1>1, <2>3, <3>1, WithdrawStands DEF instruction_accepted
  <2>4. CASE client.kind = "swap_base_in"
    <3>1. base_input_accepted(client.i, client.amount, no_limit[0], current_fee)
      BY <1>1, <2>4 DEF instruction_accepted
    <3>2. QED
      BY <1>1, <2>4, <3>1, BaseInputStands DEF instruction_accepted
  <2>5. CASE client.kind = "swap_base_out"
    <3>1. base_output_accepted(client.i, no_limit[0], client.amount, current_fee)
      BY <1>1, <2>5 DEF instruction_accepted
    <3>2. QED
      BY <1>1, <2>5, <3>1, BaseOutputStands DEF instruction_accepted
  <2>6. QED
    BY <2>1, <2>2, <2>3, <2>4, <2>5 DEF Kinds
<1>2. ClientInv => QuotesStand
  BY <1>1 DEF QuotesStand, Executable, accepted_but_for_limit
<1>3. QED
  BY <1>2, ClientInvariant, PTL
=============================================================================
