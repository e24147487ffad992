--------------------------- MODULE MCPoolRegistry ---------------------------
(* TLC instance of PoolRegistry: a whitelisted mint, one with extensions the *)
(* program supports and one with an extension it does not.                   *)
EXTENDS PoolRegistry

CONSTANTS key, alice

MCPrograms == [m \in Mints |-> "token_2022"]
MCWhitelist == {1}
MCExtensions == [m \in Mints |->
    IF m = 2 THEN {"TransferFeeConfig", "TokenMetadata"} ELSE {"PermanentDelegate"}]

\* The pool itself, one of its vaults, the LP mint of a pool at a keypair, and
\* a permission account.
MCFundable == {pool_address(0, 1, 2), vault_address(pool_address(0, 1, 2), 2),
               lp_mint_address(key), permission_address(alice)}
=============================================================================
