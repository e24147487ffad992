---------------------------- MODULE MCClientQuote ----------------------------
(* TLC instances of ClientQuote: the scales of MCPool, a mint of the SPL Token *)
(* program and one of Token-2022 whose fee changes from a quarter to           *)
(* everything, capped, at epoch 1.                                             *)
EXTENDS ClientQuote

MCConfigs == {[trade |-> 1, protocol |-> 4, fund |-> 4, creator |-> 1, discount |-> 0]}

\* The creator's fee is raised under a live pool.
MCUpdates == {<<7, 2>>}

MCEnabled == {{}}

SplMint == [program |-> "token", older |-> NoTransferFee, newer |-> NoTransferFee,
            newer_epoch |-> 0]

FeeMint == [program |-> "token_2022",
            older |-> [transfer_fee_basis_points |-> 1, maximum_fee |-> 2],
            newer |-> [transfer_fee_basis_points |-> 4, maximum_fee |-> 2],
            newer_epoch |-> 1]

Pair(mint_0, mint_1) == [i \in Side |-> IF i = 0 THEN mint_0 ELSE mint_1]

\* With a Token-2022 mint on both sides the client's swaps and withdrawals are
\* refused (accounts_created), so one side is enough for what can be executed.
MCPairs == {Pair(SplMint, SplMint), Pair(FeeMint, SplMint)}

\* A Token-2022 mint whose fee does not change.
SteadyMint == [FeeMint EXCEPT !.newer = FeeMint.older, !.newer_epoch = 0]

MCSteadyPairs == {Pair(SteadyMint, SplMint)}
=============================================================================
