------------------------------ MODULE BotLife ------------------------------
(***************************************************************************)
(* What a fleet may assume of one bot: it becomes ready at most once, then *)
(* reports itself online (or skips the report when it is cancelled), and   *)
(* ends with an error, or without one only if it was cancelled and is not  *)
(* between becoming ready and reporting.  The bots of Fleet.tla behave so, *)
(* and Instance.tla implements it.                                         *)
(***************************************************************************)
CONSTANT BotErr

VARIABLES life,        \* "connecting", "ready", "online" or "ended"
          cancelled,   \* the context the fleet gave the bot is done
          reported,    \* the bot is in the fleet's channel of online bots
          err          \* what the bot ended with

lifeVars == <<life, cancelled, reported, err>>

Init == life = "connecting" /\ cancelled = FALSE /\ reported = FALSE /\ err = "none"

Cancel == /\ cancelled' = TRUE
          /\ UNCHANGED <<life, reported, err>>

Ready == /\ life = "connecting"
         /\ life' = "ready"
         /\ UNCHANGED <<cancelled, reported, err>>

Report == /\ life = "ready"
          /\ life' = "online"
          /\ reported' \in IF cancelled THEN BOOLEAN ELSE {TRUE}
          /\ UNCHANGED <<cancelled, err>>

Fail == /\ life # "ended"
        /\ life' = "ended"
        /\ err' \in BotErr
        /\ UNCHANGED <<cancelled, reported>>

Leave == /\ life \in {"connecting", "online"}
         /\ cancelled
         /\ life' = "ended"
         /\ UNCHANGED <<cancelled, reported, err>>

Next == Cancel \/ Ready \/ Report \/ Fail \/ Leave

\* A bot that is ready reports, and a cancelled bot ends.
Fairness == /\ WF_lifeVars(Report)
            /\ WF_lifeVars(cancelled /\ (Fail \/ Leave))

Spec == Init /\ [][Next]_lifeVars /\ Fairness

=============================================================================
