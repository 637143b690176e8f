--------------------------- MODULE ScenarioHolds ---------------------------
(***************************************************************************)
(* Scenario with a count of the frames sent while an action is current,    *)
(* to compare how long a hold lasts with what its step asks for.           *)
(***************************************************************************)
EXTENDS Scenario

VARIABLE held   \* frames sent since the current action was created

InitHolds == Init /\ held = 0

Sending == pc \in {"first", "frame"} /\ pc' # pc

CountFrames ==
    held' = IF created' # created THEN 0 ELSE IF Sending THEN held + 1 ELSE held

SpecHolds == InitHolds /\ [][Next /\ CountFrames]_<<vars, held>>

\* README.md:135: look "holds camera/player rotation for a fixed number of ticks"; and
\* actions.go:33, 78 and 116-117 say so of move, look and jump.  A hold that ends has been in
\* as many frames as its step has ticks, wherever in the script it stands.
HoldLastsItsTicks ==
    [][pc = "ticker" /\ pc' = "frame" /\ ended' \in HoldActions => held = act.ticks]_<<vars, held>>

=============================================================================
