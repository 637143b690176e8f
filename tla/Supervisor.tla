----------------------------- MODULE Supervisor -----------------------------
(***************************************************************************)
(* What a run of the fleet promises whoever started the process, said      *)
(* without channels, contexts or timers.  Workers are started only while   *)
(* the supervisor is up, each at most once; once it is stopping none is    *)
(* started; it stops only when no worker is alive, and it reports "ok"     *)
(* only if every worker it collected ended without an error.               *)
(* Fleet.tla implements this contract.                                     *)
(***************************************************************************)
CONSTANT Workers

VARIABLES phase,    \* "up", "stopping" or "stopped"
          alive,    \* workers started and not ended
          ended,    \* workers started and ended
          failed,   \* whether some worker ended with an error
          outcome   \* "pending", then "ok" or "failed"

supervisorVars == <<phase, alive, ended, failed, outcome>>

Init == /\ phase = "up"
        /\ alive = {}
        /\ ended = {}
        /\ failed = FALSE
        /\ outcome = "pending"

Spawn(w) == /\ phase = "up"
            /\ w \notin alive \cup ended
            /\ alive' = alive \cup {w}
            /\ UNCHANGED <<phase, ended, failed, outcome>>

End(w) == /\ w \in alive
          /\ alive' = alive \ {w}
          /\ ended' = ended \cup {w}
          /\ failed' \in {failed, TRUE}
          /\ UNCHANGED <<phase, outcome>>

Stop == /\ phase = "up"
        /\ phase' = "stopping"
        /\ UNCHANGED <<alive, ended, failed, outcome>>

\* The output may fail before any worker exists, and then nothing is left to stop.
GiveUp == /\ phase = "up"
          /\ alive \cup ended = {}
          /\ phase' = "stopped"
          /\ outcome' = "failed"
          /\ UNCHANGED <<alive, ended, failed>>

Stopped == /\ phase = "stopping"
           /\ alive = {}
           /\ phase' = "stopped"
           /\ outcome' \in IF failed THEN {"failed"} ELSE {"ok", "failed"}
           /\ UNCHANGED <<alive, ended, failed>>

Next == \/ \E w \in Workers : Spawn(w) \/ End(w)
        \/ Stop
        \/ GiveUp
        \/ Stopped

\* A stopping supervisor gets its workers to end, and then stops.
Fairness == /\ \A w \in Workers : WF_supervisorVars(phase = "stopping" /\ End(w))
            /\ WF_supervisorVars(Stopped)

Spec == Init /\ [][Next]_supervisorVars /\ Fairness

=============================================================================
