# A verification project for the cp-swap AMM

This directory holds TLA+ models of the constant product AMM program of this
repository (`programs/cp-swap`), TLC configurations that check them on small
instances, and theorems about them that TLAPS checks for every value of the
constants. Paths below are relative to `programs/cp-swap/src` unless they begin
otherwise. `PROJECT.json` lists every component, run, property, mutant, hazard,
finding and theorem, and maps each definition to the lines it models.

Contents

1. The system
2. How it is modelled
3. The modules
4. The runs: questions, bounds, answers
5. What is proved
6. What the models found
7. What is only model-checked, and what is not modelled
8. Plan

---

## 1. The system

A Solana program keeps its state in accounts and changes it by instructions. An
instruction runs to its end or fails; when it fails the runtime drops everything
its transaction did. Nothing runs by itself: each step is called by somebody
from outside. What is hard is therefore not threads, it is **order**: any
account holder may call any instruction at any time, with any argument, between
two instructions of anybody else, on a clock that the block producer reads and
with mint settings that other programs change.

The command line client is the one process that waits: it reads the ledger, thinks, signs,
and sends until it has an answer, while all of that goes on.

### Components

| Component | State it keeps | Operations | Talks to |
|---|---|---|---|
| Fee and curve arithmetic (`curve/fees.rs`, `constant_product.rs`, `calculator.rs`, `utils/math.rs`) | none | `swap_base_input`, `swap_base_output`, `lp_tokens_to_trading_tokens`, the rounded fees | called by every trading instruction |
| Transfer fees (`utils/token.rs`) | none; reads the mint and the epoch | `get_transfer_fee`, `get_transfer_inverse_fee`; transfer, mint, burn through the token program | called by pool instructions; the token program withholds the fee |
| Pool (`states/pool.rs`, `instructions/*.rs`) | `PoolState`: LP supply, fee counters per token, status bits, open time, creator fee mode; two vaults; the LP mint | create (open or permissioned), deposit, withdraw, swap by input and by output, collect creator, protocol and fund fees, set the status | reads the config at every swap; writes the oracle; moves tokens |
| AMM config (`states/config.rs`, `instructions/admin/create_config.rs`, `update_config.rs`) | rates, owners, creation switch, K-token mint and discount | create, eight one-setting updates | read by live pools at every swap, so an update acts at once on all of them |
| Price oracle (`states/oracle.rs`) | ring of 100 observations | `update`, called in every swap with the prices found before it | read from outside the program |
| K-token swap (`instructions/swap_with_k_token.rs`, `utils/pyth.rs`) | two fields of `PoolState` | swap with the fee charged in K at a discount | price feeds, pool, config |
| Registry and account creation (`utils/token.rs`, `utils/account_load.rs`, permission instructions, `initialize*.rs`) | permission accounts; which accounts exist | create and close a permission; create accounts on possibly funded addresses | pool creation |
| Command line client (`client/src`) | one command at a time: what it fetched, the limit it signed, its transaction | quote on fetched accounts, build, send and poll with a slippage limit | program, through the network |

### What makes each part correct

* **Arithmetic.** Every token is accounted for, rounding is in the pool's favour
  and by less than one token, the two directions of a quote agree.
* **Transfer fees.** The inverse fee makes exactly the wanted amount arrive.
* **Pool.** Its vaults cover what it owes; its liquidity providers never lose by
  the acts of others; locked liquidity stays; a fee counter falls only when its
  owner is paid; nobody trades before it opens.
* **Config.** The four rates stay a split of the input and of the trade fee
  whatever one-rate updates follow each other.
* **Oracle.** The ring is an exact window on what was recorded, ordered and spaced,
  and a price moved and used within one second is not recorded.
* **K-token swap.** It can be called; the fee is charged once, at the discount the config
  names; the conversion never charges more than its formula, and splitting or returning
  gains nothing.
* **Registry.** A pool is entered once, at the one address of its config and pair or at
  one that is nobody's, by a payer who is entitled at that moment; its accounts exist exactly
  when it does; nobody can keep it from being created.
* **Client.** What it signs is accepted while nothing changed; its user never does worse
  than his slippage whatever happens between quote and execution; what it reports is what
  the ledger holds; it ends.

### What is hard here

`PROJECT.json` lists each hazard with its line. The main ones: the program checks
`k` on the curve's own amounts only, before fees and transfer fees are
settled (`instructions/swap_base_input.rs:180`); deposits and withdrawals check
nothing; fee counters live in the same vaults as the reserves and are paid
out partially at any time; config updates apply one rate at a time, against the
others as stored, to live pools; a Token-2022 fee is rounded, capped and may change
between instructions; LP tokens may be burnt outside the program, so `lp_supply`
and the LP mint's supply come apart; the clock may repeat or step back; an address may hold
lamports before its account is created, and a permission may be closed while its holder's
transaction is on its way; the client's quote ages from the moment it is fetched, in pool,
config and epoch, and its transaction may be lost, late, repeated or expired.

---

## 2. How it is modelled

* **One instruction is one action.** Guards are the code's checks, early returns
  and panics (a transaction that fails changes nothing, so a failing call is a
  disabled action). Everything an instruction calls is in its action:
  a swap settles fees, moves both vaults and updates the oracle in one step.
* **Token moves** are made by the token program, so the amount that reaches a vault
  uses that program's `calculate_fee`, and the amount the program *expects* uses
  its own `get_transfer_fee` / `get_transfer_inverse_fee`. The two agree unless
  the code is wrong, which is what the runs with transfer fees test.
* **Actors.** LP tokens move freely, so their holders are not told apart: some holder
  may have any part of the circulating supply. Payers are assumed to have the
  funds, since a lack of them only makes an instruction fail. Anybody may donate to a
  vault (`Donate`), and a holder may burn LP tokens (`BurnLp`).
* **Arithmetic.** u64 amounts are `0 .. U64_MAX`; the code calculates in u128 on u64
  arguments, so no intermediate product leaves that range, and the conversions back to
  u64 are part of the guards. Oracle sums wrap at `CUMULATIVE_RANGE` (2^128).
* **Identity of accounts.** Pool has one pool and one config whose accounts belong together.
  Which accounts there are, who owns them and who signs for them is the subject of
  PoolRegistry: an account is known by its address, a derived address is the tuple of
  its seeds, and only the program signs for it; a keypair is a model value and its holder
  signs. An address with lamports on it is not an account yet.
* **Failing off chain.** A failing command of the client (a panic, an unwrapped `None`) ends it
  with the outcome "panicked".
* **Fairness.** None for the program: nothing in it waits, and no one is obliged to call it.
  For the client, `ClientSpec` assumes weak fairness of its own steps once a command was
  started (it is one running process: a loop without other waits in `rpc.rs:30`) and of
  `BlockhashExpires` (blocks go on, and a blockhash is valid for a number of blocks). Nothing
  is assumed of the network, of other users or of the user: copies may all be lost.
* **Deadlock.** Runs of systems that go on for ever check that they do not deadlock; the runs
  that stop after one answer (`curve_calculator`) say so in their cfg.
* **Mutants.** An operator commented `Mutant:` is a plausible wrong version of
  the definition that follows it (a swapped rounding, a dropped check). The
  specification does not use it. `PROJECT.json` says which property rejects which mutant.

---

## 3. The modules

| Module | Rests on | Checked in | Proved in |
|---|---|---|---|
| CurveMath | - | through CurveCalculator, Pool | CurveMathProofs |
| TransferFee | - | through CurveCalculator, Pool | CurveMathProofs |
| CurveCalculator | CurveMath, TransferFee | MCKTokenFee | CurveCalculatorProofs |
| Pyth | - | through KTokenFee, KTokenSwap | CurveCalculatorProofs |
| KTokenFee | CurveCalculator, Pyth | MCKTokenFee | CurveCalculatorProofs |
| AmmConfig | - | MCAmmConfig | AmmConfigProofs |
| Oracle | - | through OracleLog, Pool | OracleLogProofs, PoolProofs |
| OracleLog | Oracle | MCOracleLog | OracleLogProofs |
| LiquidityShares (abstract) | - | itself | LiquiditySharesProofs |
| Pool | CurveMath, TransferFee; instances of AmmConfig, Oracle; implements LiquidityShares | MCPool | PoolProofs |
| KTokenSwap | Pool, Pyth | MCKTokenSwap | PoolProofs |
| ClientQuote | Pool, and an instance of it for what was fetched | MCClientQuote | ClientQuoteProofs |
| PoolDirectory (abstract) | - | through PoolRegistry | - |
| PoolRegistry | implements PoolDirectory | MCPoolRegistry | PoolRegistryProofs |

Each `MC...` module extends the module it instantiates for TLC; each `...Proofs`
module extends the module it proves about. PoolProofs extends KTokenSwap, which is Pool and
one more instruction: most of it speaks of Pool alone, its last section of both.

**CurveMath** - `curve/*.rs` as operators. `swap_base_input` and
`swap_base_output` return the `SwapResult` record, or `None` where the code
returns an error, divides by zero or unwraps a `None`. The integer square root
of `initialize.rs` is characterised (`is_integer_sqrt`), not calculated.
`sound_result` states what a caller relies on: amounts and fees are naturals that
add up, output is within the reserve, the product does not fall, and fees on one side
do not exceed what enters or leaves it.

**TransferFee** - the fee of a Token-2022 mint. The calculation of
`spl_token_2022` is external and modelled from its use; the program's wrapper, with
its special case at 100% and its `TransferFeeCalculateNotMatch` check, is not.

**CurveCalculator** - asks every question the instructions ask of the two modules
above, one per behaviour, and compares the answer with a reference definition
(the best possible quote, found by search).

**AmmConfig** - state `amm_config`, actions `CreateAmmConfig` and
`UpdateAmmConfig(owner, param, value, account)` with one operator per setting,
named as in `update_config.rs`.

**Oracle** - state `observation_state` and the clock `unix_timestamp`; action
`ObservationUpdate` = `FirstUpdate`, `SkipUpdate` or `AppendUpdate`, the three
paths of `ObservationState::update`.

**OracleLog** - composes Oracle with prices that swaps move, and keeps as history variables
what the program forgets: the full log with unwrapped sums (`log`), the price
when the clock last moved (`opening`) and the integral of the price (`standing`).

**Pool** - state and its origin:

| Variable | Account |
|---|---|
| `pool_state` | `PoolState`; `initialized = FALSE` is the zeroed account |
| `vault[i]` | balance of `token_i_vault` |
| `lp_mint_supply` | supply of the LP mint |
| `amm_config` | the pool's `AmmConfig` (instance `Config` of AmmConfig) |
| `observation_state`, `unix_timestamp` | `ObservationState`, `Clock` (instance `Oracle`) |

| Action | Code |
|---|---|
| `Initialize`, `InitializeWithPermission` (both `CreatePool`) | `instructions/initialize.rs`, `initialize_with_permission.rs` |
| `Deposit`, `Withdraw` | `instructions/deposit.rs`, `withdraw.rs` |
| `SwapBaseInput`, `SwapBaseOutput` (both end in `SettleSwap`) | `instructions/swap_base_input.rs`, `swap_base_output.rs` |
| `CollectCreatorFee`, `CollectProtocolFee`, `CollectFundFee` | `instructions/collect_creator_fee.rs`, `admin/collect_*.rs` |
| `UpdatePoolStatus` | `instructions/admin/update_pool_status.rs` |
| `CreateConfig`, `UpdateConfig` | the steps of AmmConfig, under the pool |
| `Donate`, `BurnLp`, `ClockMoves` | the token program and the runtime (external) |

The checks of the four trading instructions are state predicates (`deposit_accepted`,
`withdraw_accepted`, `base_input_accepted`, `base_output_accepted`): an instruction is its
predicate and what it changes. So that a call is accepted can be said, and proved, of a state.

**LiquidityShares** - the abstract specification: what a pool is to a
liquidity provider. Two reserves, a number of shares, the shares that can be redeemed. Shares
are founded, joined, left, traded against and forfeited; nothing else is visible.
`Pool` implements it under the mapping `Shares` at the end of Pool.tla: the
reserve is the vault less the fees owed, the shares are `lp_supply`, the
redeemable shares are the LP mint's supply.

| Abstract step | Steps of Pool |
|---|---|
| `Found` | `Initialize`, `InitializeWithPermission` |
| `Join` / `Leave` | `Deposit` / `Withdraw` |
| `Trade` | both swaps, `Donate` |
| `Forfeit` | `BurnLp` |
| no step | collections, status, config, clock |

**Pyth** - `utils/pyth.rs`: `convert_token_amount` with its three truncating steps, its u128
bounds and its refusals, and the fee `swap_with_k_token` derives from it. Feeds and
`get_price_no_older_than` belong to `pyth_sdk_solana` (external).

**KTokenFee** - CurveCalculator with one more kind of question: a conversion into K tokens,
whole, in two parts and back, compared with the exact formula.

**KTokenSwap** - Pool with the action `SwapWithKToken` (the whole handler of
`swap_with_k_token.rs`), the balances of the K token accounts, the two fields of `PoolState` it
uses (`fee_token_vault`, `collected_fee_token_amount`) and price feeds that publish on their
own. All of Pool's actions go on beside it and leave these fields alone, as the code does.

**PoolRegistry** - where pools are created and by whom:

| Variable | What it is |
|---|---|
| `account[a]` | owner and lamports of the account at address `a`; owned by the system program, it is not allocated yet |
| `pool_state[a]` | config, mints, creator and creator switch of the pool at `a`, if there is one |
| `amm_config[c]` | existence, `create_pool_fee` and `disable_create_pool` of config `c` |
| `create_pool_fee[w]` | lamports the receiver got from payer `w` |

| Action | Code |
|---|---|
| `Initialize`, `InitializeWithPermission` (both `CreatePool`) | the creation half of `instructions/initialize.rs`, `initialize_with_permission.rs` (the liquidity half is in Pool) |
| `CreatePermissionPda`, `ClosePermissionPda` | `instructions/admin/*_permission_pda.rs` |
| `CreateAmmConfig`, `UpdateAmmConfig` | the settings creation reads (the rates are in AmmConfig) |
| `Fund` | anybody sends lamports to an address (external) |

`created` is `create_or_allocate_account` (`utils/token.rs:245`): an empty address is created
with the rent, a funded one topped up, allocated and assigned. `creation_accepted` is the checks
of both instructions, and `client_accepted` says that they accept what the client's
`InitializePool` command (`client/src/main.rs:151`) asks for.

**PoolDirectory** - the abstract specification of the registry: a directory that only grows, in
which a pool is entered once, at its home or at an address that is nobody's home, while its
config is open, at the price of the moment, and with a creator fee only by a payer permitted at
that moment. PoolRegistry implements it (`Directory`): a permission is a program-owned
account at the address derived from the payer.

| Abstract step | Steps of PoolRegistry |
|---|---|
| `Enter` | `Initialize`, `InitializeWithPermission` |
| `Permit` | `CreatePermissionPda`, `ClosePermissionPda` |
| `SetTerms` | `CreateAmmConfig`, `UpdateAmmConfig` |
| no step | `Fund` |

**ClientQuote** - Pool with the client, its transaction, the network and others:

| Action | Code |
|---|---|
| `Fetch` | the accounts of one command read together (`client/src/main.rs:219`, 330, 455, 613) |
| `Sign` | epoch, limit with slippage, blockhash, signature (main.rs:236-317 and its like) |
| `Send`, `Poll`, `CheckBlockhash` | `send_txn` (`client/src/instructions/rpc.rs:29`); the loop of `solana_client` inside is external: send, ask for a status, ask whether the blockhash is valid, send again or give up |
| `LandExecuted`, `LandRefused` | a copy arrives: Pool's instruction under the signed limit, or its refusal |
| `Lose`, `BlockhashExpires`, `NextEpoch` | network and ledger (external) |
| `Others` | creation, deposits, withdrawals, swaps, collections, config updates, donations by anybody |

The client's limits are `deposit_limit`, `withdraw_limit`, `base_in_received`,
`base_out_paid`: the program's arithmetic as the client calls it, on the instance `Fetched` of
Pool, with the client's own roundings, rates and argument orders. The ledger executes
a signature at most once and only while its blockhash is valid; that is assumed, being the
runtime's promise, and what the client concludes from it is what is checked.

---

## 4. The runs: questions, bounds, answers

Scales are small and chosen so that rounding leaves remainders, and every limit is
reached: the fee denominator is 4, 7 or 8 in place of 10^6, transfer fees are out of 4
or 7 in place of 10^4, `U64_MAX` is 5 or 6 (60 for the client, whose limits must fit with their slippage), the locked liquidity is 1.
Each bound is a constant of the cfg.

| Run | Question | Bounds | Answer |
|---|---|---|---|
| `pool_liquidity` | Does any order of creation, deposits, withdrawals, swaps both ways, collections, donations and burns harm the providers, the owners of fees or the locked part? | amounts 1, 3, 4; u64 to 6; trade fee 1/2, of which 1/2 protocol and 1/2 fund; creator fee 1/4, all three creator fee modes; about 47,000 states | No: `TypeOK`, `Solvent`, `LockedLiquidity`, `ReservesPositive`, `ImplementsShares`, `CollectionPaysOnlyFees` |
| `pool_changes` | The same when everything around the pool changes between two instructions: transfer fees, rates, owners, status, the clock. Can anybody trade before the pool opens? | mints that withhold a quarter capped at 2, or all capped at 1; five config updates (protocol share to the whole, fund share to 0, creator rate to 0, another protocol owner, pool creation off); operations disabled or not; clock 0..2 in both directions, open time 0 or 2; amounts 3, 4; u64 to 5; about 75,000 states | No: `ImplementsShares`, `TradesStartAtOpenTime` |
| `liquidity_shares` | Does the abstract pool keep its promise to those who stay? | reserves and shares to 12, 2 locked | `SharesInv`, `ShareValueNeverFalls` |
| `amm_config` | Does a sequence of one-rate updates break the split? | rates 0, 1, 4 and one beyond the denominator; an admin, another account, the default key | No: `TypeOK`, `RatesWithinDenominator` |
| `amm_config_fee_bound` | Does the bound `lib.rs` asserts at creation hold of the config? | as above | No (section 6) |
| `oracle_ring` | Is the ring an exact, ordered, spaced window on what was recorded, and free of prices moved within a second? | ring of 2 overrun by a log of 4, sums wrapping at 4, clock 0..7 in both directions | `LogTypeOK`, `RingIsWindowOnLog`, `ObservationsSpacedApart`, `RecordedPriceStood` |
| `oracle_integral` | Does an observation add the price over the duration, as the field's comment says? | as above | No (section 6) |
| `curve_calculator` | Is each quote the best the curve allows, do the directions agree, does the conversion into K tokens ever charge too much, or can it be played? | amounts to 12, reserves to 9, four kinds of quote; conversions of amounts to 20 at prices -1, 0, 1, 3, 7, exponents -3 to -1, decimals 0 to 2, u128 to 4000, u64 to 2000; about 415,000 calls | `QuotesSound`, `ExactInputBuysMost`, `ExactOutputCostsLeast`, `DirectionsAgree`, `SharesRoundForThePool`, `InverseFeeArrivesExactly`, `ConversionWithinScale`, `SplittingAndReturningGainNothing` |
| `pool_registry` | Can pools come to be twice, half, unpaid, unpermitted, or be kept from coming to be? | three mints (one whitelisted, one with supported extensions, one unsupported), two wallets, one keypair, rent 2, gifts of 1 (too few) and 3 (more than the rent) to a pool, a vault, an LP mint and a permission; about 38,000 states | No: `TypeOK`, `AccountsBelongToPools`, `OneDerivedPoolPerPair`, `CreationNeverBlocked`, `ImplementsDirectory` |
| `k_token_callable` | Can the K token swap be called where the plain one can? | Pool with one user's and one vault's K token account, prices 0 and 1 | No (section 6) |
| `client_quotes` | Does the client quote as the program pays, protect its user, report the truth, and end? | all four commands, amount 6 on pools of 8 in every creator fee mode, 10% slippage, a client that calculates to 1/500, one step of others, one new epoch; two plain mints, or one whose fee goes from a quarter to all, capped at 2; fairness as in section 2; about 141,000 states, under 3 minutes | Yes: `QuotesStand`, `SlippageHonoured`, `OutcomeReported`, `CommandEnds` |
| `client_fee_deposits` | Does a deposit of a mint with a fee land when nothing changed? | as `client_quotes`, a fee that does not change | No (section 6) |

Why the bounds are enough to be informative: with u64 to 6, both vaults can be
filled to the overflow guard, every fee counter becomes positive and is partially
collected, a withdrawal can ask for all that circulates, and deposits round.
The mutant of each property is found within the same bounds. What small
numbers cannot show (an arithmetic accident at a large value) is what the
theorems are for: every property of a run that passes is proved for all values, except
`CommandEnds`, which is liveness (section 5).

`RingView` leaves the integral out of the state's identity in `oracle_ring`, where no property
reads it. `Limits` contains 0 and the largest u64: a slippage
limit is only compared, so the two ends cover "refuses" and "permits".

In `client_quotes` one step of others is enough to move the price by far more than the
slippage of 10%; a config update is such a step, the new epoch and the clock come on top. The fee
denominator is 8 and amounts are a few units, so each limit is hit by rounding as well as by
price. The slippage is 10% because a product that is whole in decimals is what f64 gets wrong by a
unit (110 at 10% is 122, not 121): there a quote of 10 has two possible limits, 11 and 12, and
the client of the model may sign either. The precision, `FLOAT_PRECISION`, is 500 in place of 2^50:
coarse against f64, yet more than any amount of the run, so that a limit is at most one unit off. In `pool_registry` one keypair suffices: pools at different keypairs share no account but
the config. For conversions the bounds of u128 and u64 are low enough to be exceeded by
some calls, which must then be refused.

Some statements in these runs are weaker than one might first write:

* `DirectionsAgree` says that what an exact input buys can be asked for, and what an exact output
  costs can be paid; the exception is a pool on which there is no fee to split (section 6): there every
  exact-output swap must be refused. It allows one token of the curve's input when trade fee and
  creator fee are both taken from the input. The exact-output path rounds their sum
  up once and splits it, the exact-input path rounds each up; the difference is at most one.
* `RecordedPriceStood` says that the recorded price stood when the clock last
  moved. It is the price swaps leave; a *donation* to a vault also moves the price the next
  swap finds, and `oracle.rs` does not see it. OracleLog has no donations.
* `QuotesStand` asks for some slippage, or else for a limit below the precision of f64, where 1 + 0 times
  the amount is that amount (`quote_on_the_safe_side`). Of withdrawals it asks for some in any case: the
  client quotes them with the ceiling (`client/src/main.rs:354`) where the program rounds down, so with
  slippage 0 a withdrawal that does not divide evenly is always refused. For deposits and withdrawals it is about mints
  without fee; with fees it does not hold (finding 4). It
  leaves out transactions whose token accounts cannot be created (section 6).
* `SlippageHonoured` counts what leaves the payer's account: what the vault receives and what the
  transfer withholds on top (`swap_base_output.rs:85-90`). It bounds swaps by the client's own quote, on
  every pool, and says that this quote is the program's price on the accounts fetched where the client
  knows the creator's rate. Where the pool waives the creator's fee the client's quote still has it in it, so
  the user may lose that fee and his slippage (section 6); that is what the code does, and the
  property does not say otherwise. For deposits and withdrawals the bound is the share, slipped, and
  one transfer fee at its cap: which fee the client adds or takes off is accidental (finding 4). For mints
  without fees the cap is 0 and the bound is the slipped share.
* `OutcomeReported` does not say that an "unconfirmed" transaction was not executed: the client
  gives up when the blockhash has expired and it has found no status, and the transaction may
  have landed between its two questions. What it says is that nothing more can happen to
  it then, so the user who looks once sees the final state.

---

## 5. What is proved

| Theorem | Module | Statement |
|---|---|---|
| `SwapBaseInputSound`, `SwapBaseOutputSound` | CurveMathProofs | the result of either swap function, when it has one, is a `sound_result`, for every amount, reserve and rate within the denominator |
| `InverseFeeExact` | CurveMathProofs | amount plus inverse fee makes the amount arrive when the code's check passes |
| `WithoutCreatorFeeBringsNoLess`, `WithoutCreatorFeeCostsNoMore` | CurveMathProofs | a quote made with a creator fee the pool does not charge errs on the safe side: the swap brings no less and costs no more than quoted |
| `EveryQuoteSound`, `InputsBuyMost`, `OutputsCostLeast`, `QuoteDirectionsAgree`, `SharesRounded`, `InverseFeeArrives` | CurveCalculatorProofs | the six properties of CurveCalculator, for every amount, reserve, rate and fee |
| `FeeConvertsWithinScale`, `SplitsAndReturnsGainNothing` | CurveCalculatorProofs | the two of KTokenFee, for every price, exponent, number of decimals and width, given the laws of the powers of ten |
| `LogTypeCorrect`, `RingFollowsLog`, `ObservationsAreSpaced`, `RecordedPriceIsOpening` | OracleLogProofs | the properties of OracleLog, for every length of the ring |
| `ConfigTypeCorrect`, `RatesStayWithinDenominator` | AmmConfigProofs | invariants of the config |
| `PoolInvariant` | PoolProofs | `Spec => []IInv` |
| `PoolTypeCorrect`, `PoolSolvent`, `LiquidityStaysLocked`, `ReservesStayPositive` | PoolProofs | its parts |
| `SharesInvariant`, `ShareValueKept` | LiquiditySharesProofs | the abstract pool keeps `SharesInv`; no step of it lowers the product of the reserves over the square of the shares |
| `PoolImplementsShares` | PoolProofs | `Spec => ImplementsShares`: the pool implements the abstract one |
| `PoolShareValueNeverFalls` | PoolProofs | what the abstract pool promises to providers holds of the pool |
| `TradesStart` | PoolProofs | fees are owed only after a swap that left an observation at or after `open_time`, whatever the clock does |
| `CollectionPays` | PoolProofs | a fee counter falls only by what leaves the vault in the same step |
| `ClientInvariant` | ClientQuoteProofs | `ClientSafety => []ClientInv` |
| `OutcomesReported` | ClientQuoteProofs | what the client reports is so |
| `SlippageIsHonoured` | ClientQuoteProofs | what a swap debits its user, withheld fee included, and what it brings him is within the slippage of the client's quote, which is the program's price where the rates are known; a deposit or withdrawal is within the slippage of its share but for one capped transfer fee |
| `ClientsKeepPool`, `ClientsTakeNoValue` | ClientQuoteProofs | the pool a client trades on keeps its invariants, implements the abstract pool, pays out only fees and trades only once open |
| `QuotesHold` | ClientQuoteProofs | a transaction the pool would accept is not refused for the client's limit while what it fetched stands |
| `KTokenSwapKeepsPool`, `KTokenSwapTakesNoValue` | PoolProofs | the pool keeps its invariants and implements the abstract pool under `swap_with_k_token` too, whichever vault is named in it |
| `KTokenSwapNeverHappens` | PoolProofs | from the program's initial state no step of `swap_with_k_token` takes place |
| `TypeCorrect`, `AccountsBelong`, `OneDerivedPool` | PoolRegistryProofs | invariants of the registry |
| `NeverBlocked` | PoolRegistryProofs | a pool that is not there can be created under an open config, whatever lamports lie on its accounts |
| `RegistryImplementsDirectory` | PoolRegistryProofs | `Spec => ImplementsDirectory` |

**Assumptions.** Those named in the modules, each as weak as the code allows:
the fee denominator and the transfer fee denominator are positive
(`FeeDenominatorAssumption`, `BasisPointsAssumption`), the locked part is positive,
arguments are u64, statuses are sets of the three operations (`PoolAssumption`), the
admin is an account and the default key is not (`ConfigAssumption`). No amount, rate, number of
accounts or length of the oracle ring is fixed. For the registry: keypairs are none of the derived
addresses (`KeypairAssumption`), mints are numbered in the order of their keys, rent and gifts
are positive (`RegistryAssumption`). The numbers of wallets, mints, keypairs and configs are free. For the client: each mint has two
fee settings, one of them later, the slippage is 0 to 100 percent, and a slipped amount is calculated to less
than a hundredth (`FLOAT_PRECISION > 100`; f64 has 2^50) (`ClientAssumption`);
for quotes, the rates asked about are within the denominator (`QuoteAssumption`). The theorems about
KTokenSwap name theirs as hypotheses: the K mint is one the config may be given, and, for
`KTokenSwapNeverHappens`, the default key is no token account.

One assumption is not on a constant: `PowersOfTen` says that 10^n is positive and
10^(m+n) the product of 10^m and 10^n, for all naturals. It is true, and the provers cannot
derive it: they know powers at numerals only, and an induction is out of their reach. It is
written as the hypothesis of the two theorems about conversions, and of nothing else.

**The argument for quotes.** A behaviour of CurveCalculator is one call, so the invariant only
lists the answers (`Answer`); what is hard is the arithmetic. `ceil_div` is the least
multiplier that covers a product and `floor_div` the greatest that a product covers
(`CeilDivLeast`, `FloorDivGreatest`). From these: a fee rounded up leaves the most it may
(`FeeLeavesMost`), `calculate_pre_fee_amount` is the least gross amount that leaves the net one
(`PreFeeLeast`), an input leaves the least reserve (`BaseInputLeavesLeast`) and an output costs
the least (`BaseOutputLeast`). The two directions agree because each is the best
answer to what the other asked (`BoughtCostsNoMore`, `PricePaidBuysNoLess`). Where two fees are
both taken from the input, their sum is rounded once in one direction and
each in the other: `PriceCanBePaid` bounds the difference by one token. That what was bought can be
asked for at all (`BoughtIsAnswered`) needs the rates on the input to be less than the
whole: something was left to swap, or nothing would have been bought. A quote that
counts a creator fee is no better for the user than one without (`WithoutCreatorFeeBringsNoLess`,
`WithoutCreatorFeeCostsNoMore`).

**The argument for conversions.** Each rescaling multiplies by `up` and divides by `down`, one of
which is 1, so that s * down <= a * up < (s + 1) * down (`ScaleBounds`), and two
rescalings are one but for a factor that cancels (`ScalesCompose`). Chaining the left inequalities
through three steps gives "never too much" (`TruncatedThrice`); chaining the right ones gives
the loss (`LostByTruncation`): nothing but the last unit, unless the first step divides and the
second multiplies what that division dropped. Rescaling is monotone and superadditive, so parts
of a fee convert whenever the whole does, to no more than the whole (`PartConverts`,
`PartsYieldNoMore`); and the factors of the way back are those of the way there, swapped
(`ReturnYieldsNoMore`).

**The argument for the oracle.** `RingIsWindowOnLog` is inductive together with

    LogInv == LogTypeOK /\ LogStarted /\ RingIsWindowOnLog
                        /\ ObservationsSpacedApart /\ MovedPriceTooYoung

`LogStarted` makes the step that marks the account the one that writes the first entry.
The rest is arithmetic modulo the length of the ring: the slot written is the one that holds the
oldest entry, and no other slot changes its place in the window. The sums wrap in the ring and not
in the log; both advance by the same amount, so they stay equal modulo the range.
`MovedPriceTooYoung` is what `RecordedPriceStood` needs: while the price differs from the one
the clock found, the newest observation is of this second, or too young to be followed.

**The argument for the pool.** `Solvent` alone is not inductive. Its strengthening is

    IInv == TypeOK /\ Solvent /\ LockedLiquidity /\ ReservesPositive
                   /\ Config!RatesWithinDenominator

* `RatesWithinDenominator` is what makes protocol and fund fee together at most the trade fee
  (`FeeShares`), so the fees a swap books are never more than what it
  brings in (`SwapReserves`, `FeesBooked`).
* `ReservesPositive` for a swap follows from the product: the reserves after a swap are
  at least the curve's own new amounts, whose product is at least the old one, which is
  positive (`sound_result`).
* `LockedLiquidity` is what keeps a withdrawal from asking for the whole of
  `lp_supply`: less than all shares take less than the reserve, rounded down
  (`FloorShareLess`), so something is left and `ReservesPositive` survives.
* `TypeOK` bounds each vault; with `Solvent` it bounds each counter
  (`TypeFromSolvency`): that is why the counters' `checked_add(..).unwrap()` cannot panic.

One lemma per action shows that it keeps `IInv`; `AnyInvariant` puts them together.
The lemmas do not use which arguments a model is run with: they are about `AnySpec`, the pool whose
instructions take any u64 amounts, any limits, any transfer fees and any statuses. Spec implies it
(`SpecIsAny`), so the theorems about Spec follow; and so does the client's system, whose
commands come with limits and fees of their own (`ClientPool`). The refinement and the history of the
pool are proved for `AnySpec` in the same way.

**The argument for the refinement.** The mapping is a state function, so it is enough to
show that the initial state maps to the initial state and each step to a step of
LiquidityShares or to a stutter. That needs `IInv` before and after the step, and one more
invariant, `NoPoolYet`: an account that holds no pool holds nothing, so that
`Found` starts from empty reserves. There is one lemma per action (the table in section 3
is its list). A swap is a `Trade` because its result is a `sound_result` and each
fee booked is within what came in (`SwapBaseInputSettles`, `SwapBaseOutputSettles`);
a deposit is a `Join` since amounts are rounded up, a withdrawal a `Leave` since they are
rounded down; a collection moves the same amount out of the vault and the counter, so
the reserve stands. `PoolAssumption` implies the assumption of LiquidityShares under
the mapping.

`ShareValueKept` is then carried over: it follows from the abstract specification alone, where
shares and reserves grow or shrink together with the rounding against whoever moves
(`ProductInProportion`), and `PoolShareValueNeverFalls` combines it with the refinement.
It is the statement that providers never lose by the acts of others, for all amounts, rates,
fees and interleavings with config updates.

**The argument for the history of a pool.** `TradesStartAtOpenTime` needs to know, at a swap,
that the observation written carries the time of the clock, and that the guard of the swap put
that time at or after `open_time` (`ObservationAfterSwap`, `SwapTradesOpen`); every other
action leaves counters and observations alone (`NoTradeKeeps`). The invariant is
`IInv /\ NoPoolYet /\ TradesStartAtOpenTime`: creation must find an oracle never written.
`CollectionPaysOnlyFees` splits on the action: swaps only raise counters
(`SwapRaisesCounters`), the three collections are the only ones to lower any, and there vault and
counter give up the same amount.

**The argument for the client.** The pool part of every step of the client's system is a step of
`AnySpec` or leaves the pool alone (`ClientTakesPoolSteps`), which gives `ClientsKeepPool` and
`ClientsTakeNoValue` at once: they rest on the program's checks, whatever a client
signs. What the client itself promises needs

    ClientInv == IInv /\ ClientTypeOK /\ FetchedLive /\ LimitQuoted /\ TxnFollows

* `TxnFollows` ties the ledger to the phase: nothing signed has no status, what was confirmed was
  executed, what was given up has no valid blockhash. With it `OutcomeReported` is inductive.
* `LimitQuoted` says that what was signed is still a quote of what was fetched, at the epoch read;
  the later steps of the client, the network and the ledger do not touch it. `FetchedLive` makes that
  quote a number.

`SlippageHonoured` is about the one step that executes the transaction (`ExecutedLands`). There the
program's own check compares what it moves with the signed limit (`SwapBaseInputSettles`,
`SwapBaseOutputSettles`, and the bounds in `Deposit` and `Withdraw`), under the fee *then* in force. The
limit is the quote slipped: off from the quote times the percentage by less than the precision of f64
times the quote and one unit (`SlippedUp`, `SlippedDown`). In the exact-output swap the amount compared is what
the vault receives with the fee its transfer withholds (`SwapBaseOutputSettles`), which is what the payer
is debited. The quote is what the program itself would have computed on the accounts fetched, where the
rates are known (`QuotedAtKnownRates`): the client calls the same calculator (`FetchedCalculator`) with the same
transfer fees. A deposit's or withdrawal's limit holds the client's estimate of a transfer fee, asked for with the
epoch for the amount; whatever was asked, it is at most the cap of the mint (`EstimatesCapped`), so the
share is missed by no more than that. Nothing is needed of the pool's state between the two: that is
why the statement holds whatever others did.

`QuotesHold` is the other side of the limit: what is charged now is what was quoted. `AsFetched` says that an
undisturbed ledger is the one fetched, `SlippedUp` and `SlippedDown` that the slippage, when there is some, is more
than the rounding of f64 can take back (and at least one unit downwards, which pays for the ceiling in the quote of a
withdrawal). A deposit and a withdrawal
are then the same share of the same vaults (`DepositStands`, `WithdrawStands`). For swaps
(`BaseInputStands`, `BaseOutputStands`) the quote is the program's own calculation at the rates of the
config; where the pool charges no creator fee the two lemmas on creator rates say that the program pays
out no less and charges no more.

**The argument for the K token swap.** `swap_with_k_token` does not compare the product of the reserves
before and after. `KSwapIsBaseInput` proves that it need not: by `SwapBaseInputSound` the check would
pass whenever the fee rates are within the denominator, so each step is, for the pool, a step of
`AnySpec` (`KStepIsAny`), and what is proved of that carries over. These two theorems start from
any K token vault in the pool, not only from the default key the program leaves there; so they
also say what a repair of finding 3 would rest on. `KTokenSwapNeverHappens` is about the program as it
is: `KTokensUntouched` is inductive, and under it no vault passes the comparison.

**The argument for the registry.** `AccountsBelongToPools` is strengthened to `Belongs`,
which speaks of every address of every pool at once, and `Registered`, which says that what is
in the directory is of the right type, has its mints in order, and, at a derived address, sits at its
own. Preservation rests on addresses being tuples of their seeds, so that accounts of
different pools are different addresses, and on keypairs being none of them. `OneDerivedPool`
follows from `Registered`: two derived pools of the same pair have the same sorted mints, hence
the same seeds. `NeverBlocked` reads `Belongs` the other way round: where no pool is, its accounts are
not allocated, and lamports do not keep them from being (`can_create`); the client sorts the mints as the
program demands. The refinement is step by step as in the table of section 3.

---

## 6. What the models found

Each is a run that TLC must find violated.

1. `amm_config_fee_bound` - `lib.rs:69` asserts trade fee + creator fee *below* the
   denominator at creation; `update_config.rs:48,59` accept equality. At equality,
   exact-output swaps with the creator fee on the input divide by zero and abort.
2. `oracle_integral` - `oracle.rs:19` calls the field the cumulative price "during the
   duration time"; the code multiplies the whole duration by the price found last, so a price
   that stood between two observations is not counted.
3. `k_token_callable` - `swap_with_k_token.rs:88` demands the vault named in
   `pool_state.fee_token_vault`, which no instruction sets (`PoolState::initialize` leaves it
   zero). The swap that `tests/k_token_swap.test.ts:238` describes is refused on every pool.
4. `client_fee_deposits` - `client/src/instructions/utils.rs:63,68,91,96` pass amount and epoch in
   each other's place, so the limit of a deposit of a mint with a fee is short of that fee and the
   program refuses it.

Seen while modelling, in the models, and not the subject of a run:

* `lib.rs:88` says the config may be updated by "the current owner or admin"; the accounts of
  `update_config.rs:9` accept the admin only (the guard `owner = ADMIN`). `lib.rs:98` says
  params 0 to 4; the code also has 5, 6 and 7.
* `swap_with_k_token.rs:153` leaves the whole trade fee in the input and line 222 charges K tokens on
  top; `KEDOLIK_DEX_GUIDE.md:31` promises "full swap output". `states/config.rs:31-32` calls 2000 a
  "20% discount"; `swap_with_k_token.rs:167` charges 20% of the fee, a discount of 80%, and nothing at
  a rate of 0 (`discounted_fee`). Both would show once the instruction can be called.
* `pyth.rs:73` truncates after every step; the formula at `pyth.rs:48` is one division.
  `ConversionWithinScale` bounds the difference.
* `client/src/main.rs:393,400,563,724` create receiving accounts with `spl_token::id()`;
  `README.md:5` says Token22 is supported. The transaction is refused (`accounts_created`).
* `client/src/main.rs:539,697` use the config's creator rate, the program the rate adjusted to the
  pool's switch (`client_rates` against `swap_rates`). On a pool without creator fee the minimum
  output is too low and the maximum input too high by that fee, beyond the slippage.
* With trade and creator rate both 0 and the creator fee on the input, `split_creator_fee` divides by
  zero and every exact-output swap is refused while exact-input swaps go on (`DirectionsAgree`).
* A withdrawal of so few LP tokens that one side rounds to 0 is refused (`ZeroTradingTokens`).

---

## 7. What is only model-checked, and what is not modelled

Only model-checked: `CommandEnds`, which is liveness under fairness and beyond the prover's reach. So is
induction over data: the laws of the powers of ten, which are a hypothesis of the two theorems
about conversions, would need it. No module uses a RECURSIVE operator. The four findings are counterexamples
of TLC; the third is also a theorem (`KTokenSwapNeverHappens`). `ENABLED` appears in its property
only, `KTokenSwapAvailable`: that a call would be accepted is said with state predicates everywhere
else.

Not stated at all: what `swap_with_k_token` charges its user in a swap (section 6), since no behaviour of
the program has such a charge. Its conversion is checked and proved on its own (KTokenFee).

Not modelled:

* account sizes, serialisation and `account_load.rs`, which casts the bytes of a new account;
* events, logs and their printing by the client (`events_instructions_parse.rs`, the Decode
  commands): nothing reads them;
* the token instructions of the client that no command calls (`token_instructions.rs` but for the
  creation of token accounts);
* the client's configuration file, apart from `slippage`, and errors of the RPC node, which end a
  command where it stands; forks of the ledger: what the client sees as confirmed stays;
* the bits of the f64 in which `amount_with_slippage` calculates (`client/src/instructions/utils.rs:37`).
  What they can do is in the model: the product, before `ceil` or `floor`, is off by less than amount /
  `FLOAT_PRECISION`, and the client may get any whole number this allows, a unit too much where the
  exact product is whole, more where the amount is beyond the precision. The conversion of the amount, of the
  slippage and of 1 plus or minus it, and the product, round four times by 2^-53 at most of what is below twice
  the amount: 2^50 is a bound. The model has more answers than f64, never fewer. That `as u64` saturates
  is in it too (`as_u64`), and so is the wrap of `as u64` on a u128 share (`quoted_share`);
* the fee settings of a mint while the client runs: each mint has one change, at an epoch, as
  `TransferFeeConfig` stores them; Pool, whose fee is any of a set at each instruction, is
  more general;
* TypeScript tests and scripts: read for what they state of the program.

---

## 8. Plan

Done: CurveMath, TransferFee, CurveCalculator, AmmConfig, Oracle, OracleLog,
LiquidityShares, Pool, PoolDirectory, PoolRegistry, Pyth, KTokenFee, KTokenSwap and
ClientQuote, with the proofs of section 5 (both refinements included).

What could be added when the code changes, in this order:

1. **A vault for K tokens** - should the program get an instruction that sets `fee_token_vault`,
   it becomes an action of KTokenSwap and `k_token_callable` a passing run. The pool's invariants
   hold of it already (`KTokenSwapKeepsPool`, `KTokenSwapTakesNoValue`); what would have to be stated is what
   the payer owes.
2. **Deposits of mints with fees** - once the client passes amount and epoch in their places (finding 4),
   `LiquidityQuotesStand` takes the place of the restriction to mints without fee in `QuotesStand`, and
   `DepositStands` and `WithdrawStands` the inverse fee (`InverseFeeExact`).

Abstract specifications: LiquidityShares (Pool implements it), PoolDirectory (PoolRegistry
implements it), OracleLog as what the ring promises.
