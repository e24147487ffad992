----------------------------- MODULE ClientQuote -----------------------------
(***************************************************************************)
(* The command line client (client/src/main.rs, instructions/utils.rs,     *)
(* rpc.rs) on the pool of Pool.tla.  A command fetches the pool, its       *)
(* config and vaults together, reads the epoch and the mints' fees later,  *)
(* calculates a limit with slippage, signs one transaction with a recent   *)
(* blockhash and sends it until it has a status or the blockhash expires.  *)
(* Everything others do to the pool may happen between any two of these    *)
(* steps; the network may lose, delay or repeat the transaction.           *)
(***************************************************************************)
EXTENDS Pool

CONSTANTS
    MintPairs,        \* the two mints: token program and the fees before and after an epoch
    MaxEpoch,         \* bound of the epoch
    MaxOthers,        \* bound of the steps others take on an existing pool
    SlippagePercent,  \* `slippage` of client_config.ini, in hundredths
    FLOAT_PRECISION,  \* a slipped amount is exact but for less than amount / FLOAT_PRECISION:
                      \* 2^50 for the f64 of the client, smaller for TLC
    Commands,         \* the commands the user gives
    CommandAmounts    \* amounts typed by the user

ASSUME ClientAssumption ==
    /\ MintPairs \subseteq [Side -> [program : {"token", "token_2022"}, older : TransferFees,
                                     newer : TransferFees, newer_epoch : Nat]]
    /\ MaxEpoch \in Nat
    /\ MaxOthers \in Nat
    /\ SlippagePercent \in 0 .. 100
    /\ FLOAT_PRECISION \in Nat /\ FLOAT_PRECISION > 100
    /\ Commands \subseteq {"deposit", "withdraw", "swap_base_in", "swap_base_out"}
    /\ CommandAmounts \subseteq 0 .. U64_MAX

VARIABLES
    mint,      \* the two mints
    epoch,     \* the epoch of the cluster
    others,    \* steps taken by others on the pool
    client,    \* the client process
    txn        \* the signed transaction on its way and on the ledger

client_vars == <<mint, epoch, others, client, txn>>

Phases == {"idle", "fetched", "signed", "sent", "polled"}

\* status is the transaction's on the ledger, in_network whether a copy of it
\* may still be delivered, valid whether its blockhash is recent enough.
NoTxn == [status |-> "none", in_network |-> FALSE, valid |-> FALSE]

Idle(outcome) ==
    [phase |-> "idle", kind |-> "deposit", i |-> 0, amount |-> 0,
     pool_state |-> NoPool, vault |-> NoFees, amm_config |-> Config!NoConfig,
     limit |-> NoFees, epoch |-> 0, outcome |-> outcome]

ClientInit ==
    /\ Init
    /\ mint \in MintPairs
    /\ epoch = 0
    /\ others = 0
    /\ client = Idle("none")
    /\ txn = NoTxn

\* The pool as the client fetched it.
Fetched == INSTANCE Pool WITH
    pool_state <- client.pool_state, vault <- client.vault, amm_config <- client.amm_config

-----------------------------------------------------------------------------
(* instructions/utils.rs *)

get_epoch_fee(m, e) == IF e >= m.newer_epoch THEN m.newer ELSE m.older

\* What the token program withholds now.
current_fee == [i \in Side |-> get_epoch_fee(mint[i], epoch)]

\* `as u64` saturates at both ends.
as_u64(n) == IF n < 0 THEN 0 ELSE lesser(n, U64_MAX)

\* What the f64 arithmetic may answer: the product lies within the precision of
\* the exact one before ceil or floor takes the next whole number, so that 110
\* at 10% is 121 or 122.
amount_with_slippage(amount, round_up) ==
    LET percent == IF round_up THEN 100 + SlippagePercent ELSE 100 - SlippagePercent
        least == percent * FLOAT_PRECISION - 100
        most == percent * FLOAT_PRECISION + 100
        unit == 100 * FLOAT_PRECISION
    IN  IF round_up
        THEN {as_u64(n) : n \in ceil_div(amount, least, unit) .. ceil_div(amount, most, unit)}
        ELSE {as_u64(n) : n \in floor_div(amount, least, unit) .. floor_div(amount, most, unit)}

client_transfer_fee(m, e, pre_fee_amount) == calculate_fee(get_epoch_fee(m, e), pre_fee_amount)

client_inverse_fee(m, e, post_fee_amount) ==
    get_transfer_inverse_fee(get_epoch_fee(m, e), post_fee_amount)

\* Both helpers pass the amount for the epoch and the epoch for the amount.
get_pool_mints_inverse_fee(m, e, post_fee_amount) == client_inverse_fee(m, post_fee_amount, e)

get_pool_mints_transfer_fee(m, e, pre_fee_amount) == client_transfer_fee(m, pre_fee_amount, e)

-----------------------------------------------------------------------------
(* main.rs: the limits, from the accounts fetched and the epoch read after *)

NoLimit == -1

\* A share as the accounts fetched have it; `as u64` of the u128 wraps.
quoted_share(i) ==
    lp_to_trading_ceiling(client.amount, client.pool_state.lp_supply,
                          Fetched!vault_amount_without_fee(i)) % (U64_MAX + 1)

\* The limit for a share of a token with mint m.  NoLimit where checked_add or
\* checked_sub has no answer: the client panics.
deposit_limit(m, e, share) ==
    {LET sum == amount + get_pool_mints_inverse_fee(m, e, amount)
     IN  IF sum <= U64_MAX THEN sum ELSE NoLimit : amount \in amount_with_slippage(share, TRUE)}

\* The share is rounded up like a deposit's.
withdraw_limit(m, e, share) ==
    {LET fee == get_pool_mints_transfer_fee(m, e, amount)
     IN  IF fee <= amount THEN amount - fee ELSE NoLimit :
         amount \in amount_with_slippage(share, FALSE)}

\* The rates of the config as they are: not adjusted to the pool, which may
\* charge no creator fee.
client_rates ==
    FeeRates(client.amm_config.trade_fee_rate, client.amm_config.creator_fee_rate,
             client.amm_config.protocol_fee_rate, client.amm_config.fund_fee_rate)

\* What an exact input is worth at given rates, less the fees of both transfers.
base_in_received(rates, e) ==
    LET i == client.i
        result == swap_base_input(
            client.amount - client_transfer_fee(mint[i], e, client.amount),
            Fetched!vault_amount_without_fee(i), Fetched!vault_amount_without_fee(1 - i),
            rates, Fetched!is_creator_fee_on_input(i))
    IN  IF result.ok
        THEN result.output_amount - client_transfer_fee(mint[1 - i], e, result.output_amount)
        ELSE NoLimit

\* Mutant: what the transfer of the input withholds is left out.
base_out_paid_less_fee(rates, e) ==
    LET i == client.i
        result == swap_base_output(
            client.amount + client_inverse_fee(mint[1 - i], e, client.amount),
            Fetched!vault_amount_without_fee(i), Fetched!vault_amount_without_fee(1 - i),
            rates, Fetched!is_creator_fee_on_input(i))
    IN  IF result.ok THEN result.input_amount ELSE NoLimit

\* What an exact output costs at given rates, with the fees of both transfers;
\* a sum beyond u64 panics.
base_out_paid(rates, e) ==
    LET i == client.i
        result == swap_base_output(
            client.amount + client_inverse_fee(mint[1 - i], e, client.amount),
            Fetched!vault_amount_without_fee(i), Fetched!vault_amount_without_fee(1 - i),
            rates, Fetched!is_creator_fee_on_input(i))
        paid == result.input_amount + client_inverse_fee(mint[i], e, result.input_amount)
    IN  IF result.ok /\ paid <= U64_MAX THEN paid ELSE NoLimit

limit_with_slippage(amount, round_up) ==
    IF amount = NoLimit THEN {NoLimit} ELSE amount_with_slippage(amount, round_up)

\* What the client may sign as the limit of token i; a swap has one limit.
quote_limit(e, i) ==
    CASE client.kind = "deposit"  -> deposit_limit(mint[i], e, quoted_share(i))
      [] client.kind = "withdraw" -> withdraw_limit(mint[i], e, quoted_share(i))
      [] client.kind = "swap_base_in" /\ i = 0 ->
           limit_with_slippage(base_in_received(client_rates, e), FALSE)
      [] client.kind = "swap_base_out" /\ i = 0 ->
           limit_with_slippage(base_out_paid(client_rates, e), TRUE)
      [] OTHER -> {0}

-----------------------------------------------------------------------------
(* main.rs: the steps of a command *)

\* The client runs one command.  get_multiple_accounts answers with one state
\* of the ledger; decoding an account that is not there panics.  i, the input
\* side, is for swaps only.
Fetch(kind, i, amount) ==
    /\ client = Idle("none")
    /\ pool_state.initialized
    /\ kind \in {"deposit", "withdraw"} => i = 0
    /\ client' = [Idle("none") EXCEPT !.phase = "fetched", !.kind = kind, !.i = i,
                      !.amount = amount, !.pool_state = pool_state, !.vault = vault,
                      !.amm_config = amm_config]
    /\ UNCHANGED <<vars, mint, epoch, others, txn>>

\* The epoch is read, the limit calculated and the transaction signed with the
\* latest blockhash; a quote that fails panics.
Sign ==
    /\ client.phase = "fetched"
    /\ \E limit_0 \in quote_limit(epoch, 0), limit_1 \in quote_limit(epoch, 1) :
         client' = IF NoLimit \in {limit_0, limit_1}
                   THEN Idle("panicked")
                   ELSE [client EXCEPT !.phase = "signed", !.epoch = epoch,
                             !.limit = [i \in Side |-> IF i = 0 THEN limit_0 ELSE limit_1]]
    /\ txn' = [NoTxn EXCEPT !.valid = (client'.phase = "signed")]
    /\ UNCHANGED <<vars, mint, epoch, others>>

\* rpc.rs: send_txn without preflight.
Send ==
    /\ client.phase = "signed"
    /\ client' = [client EXCEPT !.phase = "sent"]
    /\ txn' = [txn EXCEPT !.in_network = TRUE]
    /\ UNCHANGED <<vars, mint, epoch, others>>

\* send_and_confirm asks for the status and, having found none, whether the
\* blockhash is still valid: then the same transaction is sent again.
Poll ==
    /\ client.phase = "sent"
    /\ client' = CASE txn.status = "none"     -> [client EXCEPT !.phase = "polled"]
                   [] txn.status = "executed" -> Idle("confirmed")
                   [] txn.status = "refused"  -> Idle("failed")
    /\ UNCHANGED <<vars, mint, epoch, others, txn>>

\* Mutant: the client waits for a status, however old the blockhash.
poll_again_whatever ==
    /\ client' = [client EXCEPT !.phase = "sent"]
    /\ txn' = [txn EXCEPT !.in_network = txn.valid]

\* Mutant: no status before the blockhash expired is taken for a failure.
poll_again_or_fail ==
    IF txn.valid
    THEN /\ client' = [client EXCEPT !.phase = "sent"]
         /\ txn' = [txn EXCEPT !.in_network = TRUE]
    ELSE /\ client' = Idle("failed")
         /\ UNCHANGED txn

poll_again ==
    IF txn.valid
    THEN /\ client' = [client EXCEPT !.phase = "sent"]
         /\ txn' = [txn EXCEPT !.in_network = TRUE]
    ELSE /\ client' = Idle("unconfirmed")
         /\ UNCHANGED txn

CheckBlockhash ==
    /\ client.phase = "polled"
    /\ poll_again
    /\ UNCHANGED <<vars, mint, epoch, others>>

-----------------------------------------------------------------------------
(* The transaction on the ledger *)

\* The pool's instruction under given limits.
Instruction(limit) ==
    \/ client.kind = "deposit" /\ Deposit(client.amount, limit, current_fee)
    \/ client.kind = "withdraw" /\ Withdraw(client.amount, limit, current_fee)
    \/ client.kind = "swap_base_in"
         /\ SwapBaseInput(client.i, client.amount, limit[0], current_fee)
    \/ client.kind = "swap_base_out"
         /\ SwapBaseOutput(client.i, limit[0], client.amount, current_fee)

\* The client has the accounts that receive tokens created by the SPL Token
\* program first, which refuses a mint of Token-2022; an LP mint is always its
\* own.
receiving_mints ==
    CASE client.kind = "deposit"  -> {}
      [] client.kind = "withdraw" -> Side
      [] OTHER -> {1 - client.i}

accounts_created == \A i \in receiving_mints : mint[i].program = "token"

\* The program and the token program accept that instruction.
instruction_accepted(limit) ==
    CASE client.kind = "deposit"  -> deposit_accepted(client.amount, limit, current_fee)
      [] client.kind = "withdraw" -> withdraw_accepted(client.amount, limit, current_fee)
      [] client.kind = "swap_base_in" ->
           base_input_accepted(client.i, client.amount, limit[0], current_fee)
      [] client.kind = "swap_base_out" ->
           base_output_accepted(client.i, limit[0], client.amount, current_fee)

Executable == accounts_created /\ instruction_accepted(client.limit)

\* A copy arrives while the blockhash is valid.  The ledger keeps one status
\* for a signature, so a second copy does nothing.
Deliverable ==
    /\ txn.in_network
    /\ txn.valid
    /\ txn.status = "none"

LandExecuted ==
    /\ Deliverable
    /\ accounts_created
    /\ Instruction(client.limit)
    /\ txn' = [txn EXCEPT !.status = "executed"]
    /\ UNCHANGED <<mint, epoch, others, client>>

LandRefused ==
    /\ Deliverable
    /\ ~Executable
    /\ txn' = [txn EXCEPT !.status = "refused"]
    /\ UNCHANGED <<vars, mint, epoch, others, client>>

Lose ==
    /\ txn.in_network
    /\ txn' = [txn EXCEPT !.in_network = FALSE]
    /\ UNCHANGED <<vars, mint, epoch, others, client>>

BlockhashExpires ==
    /\ txn.valid
    /\ txn' = [txn EXCEPT !.valid = FALSE]
    /\ UNCHANGED <<vars, mint, epoch, others, client>>

NextEpoch ==
    /\ epoch < MaxEpoch
    /\ epoch' = epoch + 1
    /\ UNCHANGED <<vars, mint, others, client, txn>>

\* What others do to the pool; the pool is created under any of its modes.
Others ==
    \/ /\ UNCHANGED others
       /\ \/ \E c \in ConfigParams : CreateConfig(c)
          \/ \E amount \in [Side -> Amounts] :
               \/ Initialize(amount, 0, current_fee)
               \/ \E on \in CreatorFeeOn :
                    InitializeWithPermission(amount, 0, current_fee, on)
          \/ pool_state.initialized /\ ClockMoves
    \/ /\ others < MaxOthers
       /\ others' = others + 1
       /\ \/ \E lp \in Amounts :
               \/ Deposit(lp, [i \in Side |-> U64_MAX], current_fee)
               \/ Withdraw(lp, NoFees, current_fee)
          \/ \E i \in Side, amount \in Amounts : SwapBaseInput(i, amount, 0, current_fee)
          \/ CollectCreatorFee
          \/ \E u \in ConfigUpdates : UpdateConfig(u, ADMIN)
          \/ \E i \in Side, amount \in Amounts : Donate(i, amount)

ClientStep ==
    \/ \E kind \in Commands, i \in Side, amount \in CommandAmounts : Fetch(kind, i, amount)
    \/ Sign
    \/ Send
    \/ Poll
    \/ CheckBlockhash

ClientNext ==
    \/ ClientStep
    \/ LandExecuted
    \/ LandRefused
    \/ Lose
    \/ BlockhashExpires
    \/ NextEpoch
    \/ Others /\ UNCHANGED <<mint, epoch, client, txn>>

ClientSafety == ClientInit /\ [][ClientNext]_<<vars, client_vars>>

\* The client runs on once it was started, and blocks go on: nothing is
\* assumed of the network, of others, or of the user.
ClientSpec ==
    /\ ClientSafety
    /\ WF_<<vars, client_vars>>(Sign \/ Send \/ Poll \/ CheckBlockhash)
    /\ WF_<<vars, client_vars>>(BlockhashExpires)

-----------------------------------------------------------------------------

\* Nothing the client looked at has changed since, and its transaction has
\* not been executed.
undisturbed ==
    /\ client.phase \in {"signed", "sent", "polled"}
    /\ txn.status = "none"
    /\ pool_state = client.pool_state
    /\ vault = client.vault
    /\ amm_config = client.amm_config
    /\ epoch = client.epoch

\* The limit that refuses nothing.
no_limit ==
    [i \in Side |-> IF client.kind \in {"deposit", "swap_base_out"} THEN U64_MAX ELSE 0]

accepted_but_for_limit == accounts_created /\ instruction_accepted(no_limit)

mints_without_fee ==
    \A i \in Side : mint[i].older = NoTransferFee /\ mint[i].newer = NoTransferFee

\* The rounding of the client cannot cost it its own quote: the slippage makes up
\* for it or, with none, a quote below the precision is exact (a withdrawal's is
\* still rounded up).
quote_on_the_safe_side ==
    \/ SlippagePercent > 0
    \/ client.kind # "withdraw" /\ \A i \in Side : client.limit[i] < FLOAT_PRECISION - 1

\* A transaction the pool would accept is not refused for its own limits while
\* the pool, its config, its vaults and the epoch are as the client saw them:
\* the arithmetic of the client agrees with that of the program
\* (main.rs:243, 349, 534, 692 against deposit.rs, withdraw.rs and the swaps).
\* What mints with fees do to deposits and withdrawals is in
\* LiquidityQuotesStand.
QuotesStand ==
    /\ undisturbed
    /\ accepted_but_for_limit
    /\ client.kind \in {"deposit", "withdraw"} => mints_without_fee
    /\ quote_on_the_safe_side
    => Executable

\* The same for deposits and withdrawals of mints with transfer fees.
LiquidityQuotesStand ==
    /\ undisturbed
    /\ accepted_but_for_limit
    /\ client.kind \in {"deposit", "withdraw"}
    /\ SlippagePercent > 0
    => Executable

\* At most, or at least, an amount quoted, but for the slippage, the precision of
\* the client and the unit of rounding.
costs_at_most(paid, quoted) ==
    100 * FLOAT_PRECISION * paid
        < quoted * ((100 + SlippagePercent) * FLOAT_PRECISION + 100) + 100 * FLOAT_PRECISION

brings_at_least(received, quoted) ==
    100 * FLOAT_PRECISION * received
        > quoted * ((100 - SlippagePercent) * FLOAT_PRECISION - 100) - 100 * FLOAT_PRECISION

\* The most a transfer of this mint withholds, whatever its amount and epoch.
most_withheld(i) ==
    LET older == mint[i].older.maximum_fee
        newer == mint[i].newer.maximum_fee
    IN  IF older >= newer THEN older ELSE newer

\* The program charges on the accounts fetched the rates the client knows: the
\* client does not read whether the pool charges the creator's.
rates_known ==
    \/ client.pool_state.enable_creator_fee
    \/ client.amm_config.creator_fee_rate = 0

\* What the program itself would pay or charge on the accounts fetched, with the
\* transfer fees of the epoch the client read.
quoted_fee == [i \in Side |-> get_epoch_fee(mint[i], client.epoch)]

fair_received ==
    LET result == Fetched!base_input_result(client.i, client.amount, quoted_fee)
    IN  result.output_amount - get_transfer_fee(quoted_fee[1 - client.i], result.output_amount)

fair_paid == Fetched!input_transfer_amount(client.i, client.amount, quoted_fee)

\* A transaction that executes costs its user, fees of the transfers included,
\* what was quoted on the accounts fetched, or brings him that, but for the
\* slippage.
LandsWithinSlippage ==
    txn.status = "none" /\ txn'.status = "executed" =>
    LET moved(i) == vault'[i] - vault[i]
        paid(i) == moved(i) + get_transfer_inverse_fee(current_fee[i], moved(i))
        received(i) == -moved(i) - calculate_fee(current_fee[i], -moved(i))
        in_received == base_in_received(client_rates, client.epoch)
        out_paid == base_out_paid(client_rates, client.epoch)
    IN  /\ client.kind = "deposit" =>
               \A i \in Side : costs_at_most(paid(i) - most_withheld(i), quoted_share(i))
        /\ client.kind = "withdraw" =>
               \A i \in Side : brings_at_least(received(i) + most_withheld(i), quoted_share(i))
        /\ client.kind = "swap_base_in" =>
               /\ brings_at_least(received(1 - client.i), in_received)
               /\ rates_known => in_received = fair_received
        /\ client.kind = "swap_base_out" =>
               /\ costs_at_most(paid(client.i), out_paid)
               /\ rates_known => out_paid = fair_paid

\* What leaves the user's accounts, and what arrives there, is within the
\* slippage of the client's quote, whatever others did and whatever fees came
\* into force before the transaction landed (withdraw.rs:172, deposit.rs:158,
\* swap_base_input.rs:150, swap_base_output.rs:86).  A deposit may cost, and a
\* withdrawal lack, one capped transfer fee more: the client asks for that fee at
\* the wrong epoch (utils.rs:63, 68).  A swap's quote is the program's own price
\* where the client knows the rates; where the pool waives the creator's fee the
\* quote has it still in it (main.rs:539, 697), and that fee is what the user may
\* lose beyond his slippage.
SlippageHonoured == [][LandsWithinSlippage]_<<vars, client_vars>>

\* What the client tells its user is so, and stays so: a confirmed command was
\* executed, a failed one was refused, and once the command has ended its
\* transaction cannot be executed any more, lost, delayed and repeated
\* deliveries notwithstanding (rpc.rs:30).
OutcomeReported ==
    client.phase = "idle" =>
        /\ client.outcome = "confirmed" => txn.status = "executed"
        /\ client.outcome = "failed" => txn.status = "refused"
        /\ ~Deliverable

\* A command ends, whatever the network loses and whoever changes the pool: no
\* wait of the client is unbounded (rpc.rs:31).
CommandEnds == client.phase # "idle" ~> client.phase = "idle"
=============================================================================
