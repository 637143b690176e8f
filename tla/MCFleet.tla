------------------------------ MODULE MCFleet ------------------------------
(***************************************************************************)
(* The fleet for TLC.  Count is given by the .cfg: 3 bots for safety, so   *)
(* that one bot can be online, one failing and one not launched yet; 2     *)
(* for the signal's exit code.  (MCFleetBots has the temporal properties.) *)
(* Nothing else needs a bound: every counter is bounded by Count.          *)
(***************************************************************************)
EXTENDS Fleet
=============================================================================
