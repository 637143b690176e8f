---------------------------- MODULE MCFleetBots ----------------------------
(***************************************************************************)
(* The composition for TLC, with the temporal properties of the fleet.     *)
(* Two bots: one may be between its return and the send while the other    *)
(* reports, fails or is not launched yet.                                  *)
(***************************************************************************)
EXTENDS FleetBots
=============================================================================
