----------------------------- MODULE MCMovement -----------------------------
(***************************************************************************)
(* Movement for TLC.  The server has two places in the world to choose     *)
(* from, one below the target altitude and one at it, neither in the       *)
(* middle of its block both ways, and one outside it, the placeholder.     *)
(* Altitudes are scaled down so that climbing takes a tick or two, and     *)
(* HistoryLimit and RetryTicks so that both are met within the four ticks  *)
(* (0..MaxTick) of a run.                                                  *)
(***************************************************************************)
EXTENDS Movement

MCPlaces == {[x |-> 0, y |-> 0], [x |-> 2, y |-> 2], [x |-> 0, y |-> 9]}
MCPlaceholder == [x |-> 0, y |-> 9]
MCWorldBottom == -3
=============================================================================
