---------------------------- MODULE MCOracleLog ----------------------------
(* TLC instance of OracleLog: a ring of 2 that the log overruns, a clock    *)
(* that moves both ways, sums that wrap at 4.  The integral of the price is *)
(* left out of the state's identity where no property reads it.             *)
EXTENDS OracleLog

MCPrices == {1, 2}

RingView == <<observation_state, unix_timestamp, log, price, opening>>
=============================================================================
