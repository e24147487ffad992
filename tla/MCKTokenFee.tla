----------------------------- MODULE MCKTokenFee -----------------------------
(* TLC instance of CurveCalculator and KTokenFee.  Quotes: every amount and *)
(* reserve up to a bound, rates over 7 that leave a remainder, both fees at  *)
(* 0 and at their highest.  Conversions: exponents and decimals that pull    *)
(* the same and opposite ways, prices that divide unevenly, zero and         *)
(* negative prices, bounds that some products exceed.                        *)
EXTENDS KTokenFee

MCAmounts == 1 .. 12
MCReserves == 1 .. 9
MCTradeRates == {0, 2, 4}
MCCreatorRates == {0, 1, 2}
MCShareRates == {0, 2, 3}
MCCaps == 0 .. 3

MCFeeAmounts == {0, 1, 2, 7, 13, 20}
MCPrices == {-1, 0, 1, 3, 7}
MCExponents == {-3, -2, -1}
MCDecimals == {0, 1, 2}
=============================================================================
