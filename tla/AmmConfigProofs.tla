--------------------------- MODULE AmmConfigProofs ---------------------------
(***************************************************************************)
(* The invariants of AmmConfig.tla for every denominator, every set of     *)
(* accounts and every u64 argument.                                        *)
(***************************************************************************)
EXTENDS AmmConfig, TLAPS

\* Both invariants hold together: an update checks a rate against the ones
\* stored before it.
ConfigInv == TypeOK /\ RatesWithinDenominator

\* The account before its creation.
LEMMA ConfigInit == Init => ConfigInv
  BY ConfigAssumption
     DEF Init, NoConfig, ConfigInv, TypeOK, Configs, RatesWithinDenominator

\* The creation by the admin (lib.rs:58).
LEMMA CreateKeepsConfig ==
    ASSUME ConfigInv,
           NEW trade \in Nat, NEW protocol \in Nat, NEW fund \in Nat, NEW creator \in Nat,
           NEW pool_fee \in Nat, NEW mint \in FeeTokenMints \cup {DEFAULT_PUBKEY},
           NEW discount \in Nat, NEW owner \in Accounts,
           CreateAmmConfig(owner, trade, protocol, fund, creator, pool_fee, mint, discount)
    PROVE  ConfigInv'
  BY ConfigAssumption
     DEF ConfigInv, TypeOK, Configs, RatesWithinDenominator, CreateAmmConfig

\* Any update, one rate or owner at a time (update_config.rs:17).
LEMMA UpdateKeepsConfig ==
    ASSUME ConfigInv,
           NEW owner, NEW param, NEW value \in Nat, NEW account \in Accounts \cup {DEFAULT_PUBKEY},
           UpdateAmmConfig(owner, param, value, account)
    PROVE  ConfigInv'
<1> USE ConfigAssumption DEF ConfigInv, TypeOK, Configs, RatesWithinDenominator
<1>1. CASE update_trade_fee_rate(value)
  BY <1>1 DEF update_trade_fee_rate
<1>2. CASE update_protocol_fee_rate(value)
  BY <1>2 DEF update_protocol_fee_rate
<1>3. CASE update_fund_fee_rate(value)
  BY <1>3 DEF update_fund_fee_rate
<1>4. CASE set_new_protocol_owner(account)
  BY <1>4 DEF set_new_protocol_owner
<1>5. CASE set_new_fund_owner(account)
  BY <1>5 DEF set_new_fund_owner
<1>6. CASE amm_config' = [amm_config EXCEPT !.create_pool_fee = value]
  BY <1>6
<1>7. CASE amm_config' = [amm_config EXCEPT !.disable_create_pool = (value # 0)]
  BY <1>7
<1>8. CASE update_creator_fee_rate(value)
  BY <1>8 DEF update_creator_fee_rate
<1>9. QED
  BY <1>1, <1>2, <1>3, <1>4, <1>5, <1>6, <1>7, <1>8 DEF UpdateAmmConfig

\* Every step keeps both.
LEMMA StepKeepsConfig == ConfigInv /\ [Next]_amm_config => ConfigInv'
<1> SUFFICES ASSUME ConfigInv, [Next]_amm_config PROVE ConfigInv'
  OBVIOUS
<1>1. CASE Create
  BY <1>1, CreateKeepsConfig, ConfigAssumption DEF Create
<1>2. CASE Update
  BY <1>2, UpdateKeepsConfig, ConfigAssumption DEF Update
<1>3. CASE UNCHANGED amm_config
  BY <1>3 DEF ConfigInv, TypeOK, RatesWithinDenominator
<1>4. QED
  BY <1>1, <1>2, <1>3 DEF Next

\* The account keeps its type under every sequence of updates.
THEOREM ConfigTypeCorrect == Spec => []TypeOK
<1>1. ConfigInv => TypeOK
  BY DEF ConfigInv
<1>2. QED
  BY <1>1, ConfigInit, StepKeepsConfig, PTL DEF Spec

\* Protocol and fund shares never exceed the trade fee, trade and creator fee
\* never exceed the input, for every history of the account.
THEOREM RatesStayWithinDenominator == Spec => []RatesWithinDenominator
<1>1. ConfigInv => RatesWithinDenominator
  BY DEF ConfigInv
<1>2. QED
  BY <1>1, ConfigInit, StepKeepsConfig, PTL DEF Spec
=============================================================================
