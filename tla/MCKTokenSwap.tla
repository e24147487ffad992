---------------------------- MODULE MCKTokenSwap ----------------------------
(* TLC instance of KTokenSwap: a quarter of the input is trade fee, the *)
(* discount rate is 100%, one user account and one vault of K tokens.   *)
EXTENDS KTokenSwap

MCConfigs == {[trade |-> 1, protocol |-> 2, fund |-> 2, creator |-> 1, discount |-> 10000]}
MCNoUpdates == {}
MCEnabled == {{}}
MCPlainMints == {NoTransferFee}
=============================================================================
