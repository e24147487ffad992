---------------------------- MODULE MCAmmConfig ----------------------------
(* TLC instance of AmmConfig: two accounts besides the default key, rates   *)
(* on a scale of 4 with values at both ends and one beyond the denominator. *)
EXTENDS AmmConfig

MCFeeRateValues == {0, 1, 4, 5}
MCDiscountRates == {2, 11}
=============================================================================
