---------------------------- MODULE MCTwiMaster -----------------------------
(* Instance of TwiMaster for TLC.                                          *)
EXTENDS TwiMaster
=============================================================================
