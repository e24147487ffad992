------------------------------- MODULE MCPool -------------------------------
(* TLC instances of Pool.  The scales are small: fee rates over 4, transfer *)
(* fees over 4, u64 up to U64_MAX of the .cfg, one locked LP token.         *)
EXTENDS Pool

\* Half of an input is trade fee, shared by protocol and fund, and a quarter
\* goes to the creator: every counter moves within the width of U64_MAX.
MCConfigs == {[trade |-> 2, protocol |-> 2, fund |-> 2, creator |-> 1, discount |-> 0]}

MCNoUpdates == {}

\* Under a live pool: the whole trade fee to the protocol, none to the fund,
\* none to the creator, the protocol fees to another owner, no new pools.
MCUpdates == {<<1, 4>>, <<2, 0>>, <<3, 0>>, <<6, 1>>, <<7, 0>>}

MCEnabled == {{}}

MCStatuses == {{}, {"Withdraw", "Swap"}}

MCPlainMints == {NoTransferFee}

\* A quarter is withheld, capped at 2, or everything, capped at 1.  The fee of
\* a mint is picked afresh at each instruction: it may change between epochs.
MCFeeMints == {[transfer_fee_basis_points |-> 1, maximum_fee |-> 2],
               [transfer_fee_basis_points |-> 4, maximum_fee |-> 1]}
=============================================================================
