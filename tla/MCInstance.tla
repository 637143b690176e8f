----------------------------- MODULE MCInstance -----------------------------
(***************************************************************************)
(* One bot for TLC.  Three packets suffice to become online with one to    *)
(* spare, in any order; two input frames let one be counted while the      *)
(* other is in flight, so the counters can be read between any two steps   *)
(* of the writer.                                                          *)
(***************************************************************************)
EXTENDS Instance
=============================================================================
