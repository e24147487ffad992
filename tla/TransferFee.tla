----------------------------- MODULE TransferFee -----------------------------
(***************************************************************************)
(* The Token-2022 transfer fee of a mint: how much of a transfer is        *)
(* withheld (get_transfer_fee of utils/token.rs) and how much more must be *)
(* sent for an exact amount to arrive (get_transfer_inverse_fee).          *)
(*                                                                         *)
(* A mint's fee is a record of its basis points and its cap, the one in    *)
(* force in the current epoch.  A mint of the SPL Token program, or one    *)
(* without the extension, charges nothing: NoTransferFee.                  *)
(***************************************************************************)
EXTENDS Integers

CONSTANT MAX_FEE_BASIS_POINTS   \* 10_000 in spl_token_2022, small for TLC

ASSUME BasisPointsAssumption == MAX_FEE_BASIS_POINTS \in Nat \ {0}

TransferFees == [transfer_fee_basis_points : 0 .. MAX_FEE_BASIS_POINTS, maximum_fee : Nat]

NoTransferFee == [transfer_fee_basis_points |-> 0, maximum_fee |-> 0]

lesser(a, b) == IF a <= b THEN a ELSE b

-----------------------------------------------------------------------------
(* The spl_token_2022 crate, as the program uses it. *)

calculate_fee(fee, pre_fee_amount) ==
    lesser((pre_fee_amount * fee.transfer_fee_basis_points + MAX_FEE_BASIS_POINTS - 1)
               \div MAX_FEE_BASIS_POINTS,
           fee.maximum_fee)

\* The amount to send for post_fee_amount to arrive: the exact gross-up, or
\* post_fee_amount plus the cap when the gross-up would exceed it.
calculate_pre_fee_transfer(fee, post_fee_amount) ==
    IF fee.transfer_fee_basis_points = 0
    THEN post_fee_amount
    ELSE IF fee.transfer_fee_basis_points = MAX_FEE_BASIS_POINTS
    THEN post_fee_amount + fee.maximum_fee
    ELSE LET unit == MAX_FEE_BASIS_POINTS - fee.transfer_fee_basis_points
             raw  == (post_fee_amount * MAX_FEE_BASIS_POINTS + unit - 1) \div unit
         IN  IF raw - post_fee_amount >= fee.maximum_fee
             THEN post_fee_amount + fee.maximum_fee
             ELSE raw

calculate_inverse_fee(fee, post_fee_amount) ==
    calculate_fee(fee, calculate_pre_fee_transfer(fee, post_fee_amount))

-----------------------------------------------------------------------------
(* utils/token.rs *)

\* Mutant: the program takes the mint for one without the extension.
get_transfer_fee_ignored(fee, pre_fee_amount) == 0

get_transfer_fee(fee, pre_fee_amount) == calculate_fee(fee, pre_fee_amount)

\* Mutant: at the 100% rate the cap is not added.
get_transfer_inverse_fee_uncapped(fee, post_fee_amount) ==
    IF fee.transfer_fee_basis_points = MAX_FEE_BASIS_POINTS
    THEN 0
    ELSE calculate_inverse_fee(fee, post_fee_amount)

\* Called with a non-zero post_fee_amount only (0 is InvalidInput).
get_transfer_inverse_fee(fee, post_fee_amount) ==
    IF fee.transfer_fee_basis_points = MAX_FEE_BASIS_POINTS
    THEN fee.maximum_fee
    ELSE calculate_inverse_fee(fee, post_fee_amount)

\* The check behind TransferFeeCalculateNotMatch: the fee found for the
\* amount that is to arrive is the fee the token program will withhold.
inverse_fee_matches(fee, post_fee_amount) ==
    \/ fee.transfer_fee_basis_points = MAX_FEE_BASIS_POINTS
    \/ LET transfer_fee == get_transfer_inverse_fee(fee, post_fee_amount)
       IN  calculate_fee(fee, post_fee_amount + transfer_fee) = transfer_fee
=============================================================================
