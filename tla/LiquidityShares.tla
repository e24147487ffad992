--------------------------- MODULE LiquidityShares ---------------------------
(***************************************************************************)
(* What a pool promises its liquidity providers, with everything else left *)
(* out: two reserves, a number of shares in them (lp_supply), and the      *)
(* shares somebody can redeem (the supply of the LP mint).  Fees, transfer *)
(* fees, vaults, the oracle, the config and the order of instructions are  *)
(* not visible here; Pool.tla is shown to implement this specification.    *)
(***************************************************************************)
EXTENDS Integers

CONSTANTS
    MAX_AMOUNT,   \* bound of reserves and shares: u64::MAX in the code
    LOCKED        \* shares of the first liquidity that nobody gets

ASSUME SharesAssumption == MAX_AMOUNT \in Nat /\ LOCKED \in Nat \ {0}

VARIABLES reserve, shares, redeemable

vars == <<reserve, shares, redeemable>>

Tokens == {0, 1}

product == reserve[0] * reserve[1]

Init ==
    /\ reserve = [i \in Tokens |-> 0]
    /\ shares = 0
    /\ redeemable = 0

\* Mutant: the locked part is handed out.
FoundUnlocked ==
    /\ shares = 0
    /\ reserve' \in [Tokens -> 1 .. MAX_AMOUNT]
    /\ shares' \in LOCKED .. MAX_AMOUNT
    /\ shares' * shares' <= product'
    /\ product' < (shares' + 1) * (shares' + 1)
    /\ redeemable' = shares'

\* The first liquidity: as many shares as the geometric mean of the reserves.
Found ==
    /\ shares = 0
    /\ reserve' \in [Tokens -> 1 .. MAX_AMOUNT]
    /\ shares' \in LOCKED .. MAX_AMOUNT
    /\ shares' * shares' <= product'
    /\ product' < (shares' + 1) * (shares' + 1)
    /\ redeemable' = shares' - LOCKED

\* Mutant: rounded to the greatest amount not above the proportion.
RescaleAgainstPool ==
    /\ shares > 0
    /\ shares' \in 1 .. MAX_AMOUNT
    /\ redeemable' = redeemable + shares' - shares
    /\ reserve' \in [Tokens -> 1 .. MAX_AMOUNT]
    /\ \A i \in Tokens : /\ reserve'[i] * shares <= reserve[i] * shares'
                         /\ (reserve'[i] + 1) * shares > reserve[i] * shares'

\* Shares are bought or redeemed at their part of each reserve, rounded so
\* that what is left is the least amount not below the proportion.
Rescale ==
    /\ shares > 0
    /\ shares' \in 1 .. MAX_AMOUNT
    /\ redeemable' = redeemable + shares' - shares
    /\ reserve' \in [Tokens -> 1 .. MAX_AMOUNT]
    /\ \A i \in Tokens : /\ reserve'[i] * shares >= reserve[i] * shares'
                         /\ (reserve'[i] - 1) * shares < reserve[i] * shares'

Join == Rescale /\ shares' > shares

Leave == Rescale /\ shares' < shares /\ redeemable' >= 0

\* Swaps and gifts move the reserves at a product that does not fall.
Trade ==
    /\ shares > 0
    /\ reserve' \in [Tokens -> 1 .. MAX_AMOUNT]
    /\ product' >= product
    /\ UNCHANGED <<shares, redeemable>>

\* A holder gives shares up: they stay counted, and nobody can redeem them.
Forfeit ==
    /\ redeemable' \in 0 .. redeemable
    /\ UNCHANGED <<reserve, shares>>

Next == Found \/ Join \/ Leave \/ Trade \/ Forfeit

Spec == Init /\ [][Next]_vars

-----------------------------------------------------------------------------

\* The state of the shares: none yet, or reserves of both tokens and a locked
\* part that stays out of reach (initialize.rs:273), so that no sequence of
\* withdrawals takes the last token.
SharesInv ==
    /\ shares \in 0 .. MAX_AMOUNT
    /\ redeemable \in 0 .. MAX_AMOUNT
    /\ reserve \in [Tokens -> 0 .. MAX_AMOUNT]
    /\ shares = 0 => redeemable = 0
    /\ shares > 0 => /\ redeemable + LOCKED <= shares
                     /\ \A i \in Tokens : reserve[i] > 0

\* What a share is worth, measured by the product of the reserves over the
\* square of the shares, never falls once there are shares: nobody profits at
\* the expense of those who stay by joining, trading and leaving in any order
\* (RoundDirection of deposit.rs:106 and withdraw.rs:121, the rounding of
\* constant_product.rs).
ShareValueNeverFalls ==
    [][ shares > 0 => product' * shares * shares >= product * shares' * shares' ]_vars
=============================================================================
