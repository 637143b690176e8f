------------------------------- MODULE Fleet -------------------------------
(***************************************************************************)
(* The fleet supervisor: Run and finishFleet of internal/bot/fleet.go with *)
(* the exit code main.go gives the process.  One goroutine (pc) launches   *)
(* Count bot goroutines, counts those that come online, and shuts them     *)
(* down on a signal or on the first result; the bots talk to it through    *)
(* onlineCh and resultCh, both buffered for Count elements.                *)
(*                                                                         *)
(* A bot is abstract here: runInstance may report itself online once and   *)
(* return at any time, and it returns nil only when its context is done    *)
(* (Instance.tla checks that of runInstance).  Each action runs from one   *)
(* synchronisation point of its goroutine to the next; a select is a       *)
(* choice among its ready cases; every Emit may fail.                      *)
(***************************************************************************)
EXTENDS Naturals, Sequences, FiniteSets

CONSTANT Count      \* cfg.Count; ParseConfig accepts 1 and more

ASSUME CountAssumption == Count \in Nat \ {0}

Bots == 1..Count

\* The buffers of onlineCh and resultCh.
MutUnderbuffered == 1
ChannelCapacity == Count

\* The exit codes of the stages a bot can fail at, and of the supervisor's own errors.
BotErr == {"connect", "spawn", "runtime"}
Err    == BotErr \cup {"none", "output", "fleet"}

Phases == {"start", "loop", "launch", "stagger", "await", "active",
           "cancel", "drain", "report", "shutdown", "returned"}

VARIABLES
    pc,             \* where Run is
    loginStagger,   \* cfg.LoginStagger # 0
    ctxDone,        \* ctx: a SIGINT or SIGTERM has arrived
    fleetDone,      \* fleetCtx: cancelled by its parent or by finishFleet
    launched,       \* bots launched so far
    onlineCh,       \* bots that reported online, not yet received
    resultCh,       \* results sent, not yet received
    results,        \* results received
    onlineCount,    \* online reports received
    recorded,       \* the bots those reports named (fleet_progress)
    announced,      \* fleet_online has been emitted
    firstErr,       \* the error Run will return
    reported,       \* bot_stats events attempted
    reason,         \* reason field of fleet_shutdown
    outputFailed,   \* history: some Emit of Run failed
    bot,            \* the state of each bot's goroutine
    onlineAt        \* the bots whose OnlineAt is set

mainVars == <<pc, launched, results, onlineCount, recorded, announced,
              firstErr, reported, reason, outputFailed>>
ctxVars  == <<ctxDone, fleetDone>>
chVars   == <<onlineCh, resultCh>>
botVars  == <<bot, onlineAt>>
vars     == <<mainVars, ctxVars, chVars, botVars, loginStagger>>

BotStates == {"idle", "connecting", "ready", "online", "ended"}
Live      == {b \in Bots : bot[b] \in {"connecting", "ready", "online"}}

Result == [bot : Bots, err : BotErr \cup {"none"}]

Elements(s) == {s[i] : i \in DOMAIN s}

TypeOK ==
    /\ pc \in Phases
    /\ loginStagger \in BOOLEAN
    /\ ctxDone \in BOOLEAN
    /\ fleetDone \in BOOLEAN
    /\ launched \in 0..Count
    /\ onlineCh \in Seq(Bots)
    /\ resultCh \in Seq(Result)
    /\ results \in Seq(Result)
    /\ onlineCount \in Nat
    /\ recorded \subseteq Bots
    /\ announced \in BOOLEAN
    /\ firstErr \in Err
    /\ reported \in Nat
    /\ reason \in {"unset", "completed", "error", "signal"}
    /\ outputFailed \in BOOLEAN
    /\ bot \in [Bots -> BotStates]
    /\ onlineAt \subseteq Bots

Init ==
    /\ pc = "start"
    /\ loginStagger \in BOOLEAN
    /\ ctxDone = FALSE
    /\ fleetDone = FALSE
    /\ launched = 0
    /\ onlineCh = <<>>
    /\ resultCh = <<>>
    /\ results = <<>>
    /\ onlineCount = 0
    /\ recorded = {}
    /\ announced = FALSE
    /\ firstErr = "none"
    /\ reported = 0
    /\ reason = "unset"
    /\ outputFailed = FALSE
    /\ bot = [b \in Bots |-> "idle"]
    /\ onlineAt = {}

-----------------------------------------------------------------------------
(* The supervisor's goroutine. *)

MutFinishWithoutCancel(err) == pc' = "drain" /\ firstErr' = err

\* return finishFleet(..., err): finishFleet starts by cancelling the bots.
Finish(err) == pc' = "cancel" /\ firstErr' = err

\* An Emit whose failure ends the fleet: the step goes on to next, or finishes.
EmitThen(next) ==
    \/ pc' = next /\ UNCHANGED <<firstErr, outputFailed>>
    \/ Finish("output") /\ outputFailed' = TRUE

\* A bot that ended without an error still ends the fleet.
ResultErr(result) == IF result.err = "none" THEN "fleet" ELSE result.err

EmitStarting ==
    /\ pc = "start"
    /\ \/ pc' = "loop" /\ UNCHANGED <<firstErr, outputFailed, fleetDone>>
       \/ \* Run returns at once; the deferred cancelFleet runs
          pc' = "returned" /\ firstErr' = "output" /\ outputFailed' = TRUE /\ fleetDone' = TRUE
    /\ UNCHANGED <<launched, results, onlineCount, recorded, announced, reported, reason,
                   ctxDone, chVars, botVars, loginStagger>>

\* The head of the launch loop looks at the signal once.
MutIgnoreSignal == FALSE
SignalSeen == ctxDone

CheckSignal ==
    /\ pc = "loop"
    /\ \/ SignalSeen /\ Finish("none")
       \/ ~SignalSeen /\ pc' = "launch" /\ UNCHANGED firstErr
    /\ UNCHANGED <<launched, results, onlineCount, recorded, announced, reported, reason,
                   outputFailed, ctxVars, chVars, botVars, loginStagger>>

MutAfterLaunchOneMore(n) == IF n > Count THEN "await" ELSE "loop"

\* Where the loop goes once launch has returned.
AfterLaunch(n) == IF n = Count THEN "await" ELSE IF loginStagger THEN "stagger" ELSE "loop"

Launch ==
    /\ pc = "launch"
    /\ \/ /\ launched' = launched + 1
          /\ bot' = [bot EXCEPT ![launched + 1] = "connecting"]
          /\ pc' = AfterLaunch(launched + 1)
          /\ UNCHANGED <<firstErr, outputFailed>>
       \/ /\ Finish("output")
          /\ outputFailed' = TRUE
          /\ UNCHANGED <<launched, bot>>
    /\ UNCHANGED <<results, onlineCount, recorded, announced, reported, reason,
                   ctxVars, chVars, onlineAt, loginStagger>>

StaggerTimer ==
    /\ pc = "stagger"
    /\ pc' = "loop"
    /\ UNCHANGED <<launched, results, onlineCount, recorded, announced, firstErr, reported,
                   reason, outputFailed, ctxVars, chVars, botVars, loginStagger>>

MutCountOnlyAwaited(n) == IF pc = "stagger" THEN n ELSE n + 1
Counted(n) == n + 1

\* case stats := <-onlineCh, then recordOnline.
RecordOnline ==
    /\ pc \in {"stagger", "await"}
    /\ pc = "await" => onlineCount < Count
    /\ onlineCh # <<>>
    /\ onlineCh' = Tail(onlineCh)
    /\ onlineCount' = Counted(onlineCount)
    /\ recorded' = recorded \cup {Head(onlineCh)}
    /\ EmitThen(IF pc = "stagger" THEN "loop" ELSE "await")
    /\ UNCHANGED <<launched, results, announced, reported, reason,
                   ctxVars, resultCh, botVars, loginStagger>>

\* case result := <-resultCh: whatever it carries, it ends the fleet.
TakeResult ==
    /\ pc \in {"stagger", "await", "active"}
    /\ pc = "await" => onlineCount < Count
    /\ resultCh # <<>>
    /\ resultCh' = Tail(resultCh)
    /\ results' = Append(results, Head(resultCh))
    /\ Finish(ResultErr(Head(resultCh)))
    /\ UNCHANGED <<launched, onlineCount, recorded, announced, reported, reason, outputFailed,
                   ctxVars, onlineCh, botVars, loginStagger>>

\* case <-ctx.Done().
SeeSignal ==
    /\ pc \in {"stagger", "await", "active"}
    /\ pc = "await" => onlineCount < Count
    /\ ctxDone
    /\ Finish("none")
    /\ UNCHANGED <<launched, results, onlineCount, recorded, announced, reported, reason,
                   outputFailed, ctxVars, chVars, botVars, loginStagger>>

MutOneShort == onlineCount + 1 >= Count
AllOnline == onlineCount = Count

EmitOnline ==
    /\ pc = "await"
    /\ AllOnline
    /\ EmitThen("active")
    /\ announced' = (pc' = "active")
    /\ UNCHANGED <<launched, results, onlineCount, recorded, reported, reason,
                   ctxVars, chVars, botVars, loginStagger>>

Cancel ==
    /\ pc = "cancel"
    /\ pc' = "drain"
    /\ fleetDone' = TRUE
    /\ UNCHANGED <<launched, results, onlineCount, recorded, announced, firstErr, reported,
                   reason, outputFailed, ctxDone, chVars, botVars, loginStagger>>

MutDrainOneShort == Len(results) + 1 >= launched
MutDrainAll == Len(results) = Count
Drained == Len(results) = launched

MutDropError(err) == firstErr
MutKeepLast(err) == IF err = "none" THEN firstErr ELSE err

\* The first error stands; a later one is taken only when there was none.
KeepFirst(err) == IF firstErr = "none" THEN err ELSE firstErr

DrainResult ==
    /\ pc = "drain"
    /\ ~Drained
    /\ resultCh # <<>>
    /\ resultCh' = Tail(resultCh)
    /\ results' = Append(results, Head(resultCh))
    /\ firstErr' = KeepFirst(Head(resultCh).err)
    /\ UNCHANGED <<pc, launched, onlineCount, recorded, announced, reported, reason,
                   outputFailed, ctxVars, onlineCh, botVars, loginStagger>>

DrainDone ==
    /\ pc = "drain"
    /\ Drained
    /\ pc' = "report"
    /\ UNCHANGED <<launched, results, onlineCount, recorded, announced, firstErr, reported,
                   reason, outputFailed, ctxVars, chVars, botVars, loginStagger>>

\* One bot_stats event per result; a failure to write it does not stop the loop.
EmitStats ==
    /\ pc = "report"
    /\ reported < Len(results)
    /\ reported' = reported + 1
    /\ \/ UNCHANGED <<firstErr, outputFailed>>
       \/ firstErr' = KeepFirst("output") /\ outputFailed' = TRUE
    /\ UNCHANGED <<pc, launched, results, onlineCount, recorded, announced, reason,
                   ctxVars, chVars, botVars, loginStagger>>

Reason == IF firstErr # "none" THEN "error" ELSE IF ctxDone THEN "signal" ELSE "completed"

StatsDone ==
    /\ pc = "report"
    /\ reported = Len(results)
    /\ pc' = "shutdown"
    /\ reason' = Reason
    /\ UNCHANGED <<launched, results, onlineCount, recorded, announced, firstErr, reported,
                   outputFailed, ctxVars, chVars, botVars, loginStagger>>

EmitShutdown ==
    /\ pc = "shutdown"
    /\ pc' = "returned"
    /\ \/ UNCHANGED <<firstErr, outputFailed>>
       \/ firstErr' = KeepFirst("output") /\ outputFailed' = TRUE
    /\ UNCHANGED <<launched, results, onlineCount, recorded, announced, reported, reason,
                   ctxVars, chVars, botVars, loginStagger>>

Supervise ==
    \/ EmitStarting \/ CheckSignal \/ Launch \/ StaggerTimer
    \/ RecordOnline \/ TakeResult \/ SeeSignal \/ EmitOnline
    \/ Cancel \/ DrainResult \/ DrainDone
    \/ EmitStats \/ StatsDone \/ EmitShutdown

-----------------------------------------------------------------------------
(* The signal, and the bots' goroutines. *)

Signal ==
    /\ ~ctxDone
    /\ pc # "returned"
    /\ ctxDone' = TRUE
    /\ UNCHANGED <<mainVars, fleetDone, chVars, botVars, loginStagger>>

\* Cancelling ctx cancels its child, in a later step of the cancelling goroutine.
Propagate ==
    /\ ctxDone
    /\ ~fleetDone
    /\ fleetDone' = TRUE
    /\ UNCHANGED <<mainVars, ctxDone, chVars, botVars, loginStagger>>

BotReady(b) ==
    /\ bot[b] = "connecting"
    /\ bot' = [bot EXCEPT ![b] = "ready"]
    /\ onlineAt' = onlineAt \cup {b}
    /\ UNCHANGED <<mainVars, ctxVars, chVars, loginStagger>>

\* select { case online <- *stats: case <-ctx.Done(): }
BotReport(b) ==
    /\ bot[b] = "ready"
    /\ \/ Len(onlineCh) < ChannelCapacity /\ onlineCh' = Append(onlineCh, b)
       \/ fleetDone /\ UNCHANGED onlineCh
    /\ bot' = [bot EXCEPT ![b] = "online"]
    /\ UNCHANGED <<mainVars, ctxVars, resultCh, onlineAt, loginStagger>>

\* runInstance returns nil only when its context is done, and never between setting
\* OnlineAt and the select above.
MayReturn(b, err) == err = "none" => fleetDone /\ bot[b] # "ready"

\* runInstance returns and the goroutine sends its result, its last step.
BotReturn(b, err) ==
    /\ b \in Live
    /\ MayReturn(b, err)
    /\ Len(resultCh) < ChannelCapacity
    /\ resultCh' = Append(resultCh, [bot |-> b, err |-> err])
    /\ bot' = [bot EXCEPT ![b] = "ended"]
    /\ UNCHANGED <<mainVars, ctxVars, onlineCh, onlineAt, loginStagger>>

BotStep(b) == BotReady(b) \/ BotReport(b) \/ \E err \in BotErr \cup {"none"} : BotReturn(b, err)

\* main has returned and the process is gone; it stays so.
Exited == pc = "returned" /\ UNCHANGED vars

Next ==
    \/ Supervise
    \/ Signal
    \/ Propagate
    \/ \E b \in Bots : BotStep(b)
    \/ Exited

(***************************************************************************)
(* The supervisor's goroutine never stops for good while it has a step,    *)
(* its stagger timer fires, and a cancelled context reaches its child.  A  *)
(* bot does report once it is ready, and does end once its context is done *)
(* (Instance.tla); nothing makes a bot come online, fail, or the signal    *)
(* arrive.                                                                 *)
(***************************************************************************)
Fairness ==
    /\ WF_vars(Supervise)
    /\ WF_vars(Propagate)
    /\ \A b \in Bots : /\ WF_vars(BotReport(b))
                       /\ WF_vars(fleetDone /\ \E err \in BotErr \cup {"none"} : BotReturn(b, err))

Spec == Init /\ [][Next]_vars /\ Fairness

-----------------------------------------------------------------------------
(* What the supervisor guarantees. *)

\* run() in main.go: StageError.Code, or 0 when Run returned nil.
ExitCode == CASE firstErr = "none"    -> 0
              [] firstErr = "connect" -> 3
              [] firstErr = "spawn"   -> 4
              [] OTHER                -> 1

\* fleet_online is emitted only after every bot of the fleet has been online, although the
\* supervisor only counts messages, in two loops, while bots come and go.
FleetOnlineMeansAllOnline == announced => onlineAt = Bots

\* The buffers never fill: a bot about to report, or to return, finds room in its channel,
\* so no bot's goroutine hangs on a supervisor that has stopped listening to onlineCh.
SendsNeverBlock ==
    /\ \A b \in Live : Len(resultCh) < ChannelCapacity
    /\ \A b \in Live : bot[b] = "ready" => Len(onlineCh) < ChannelCapacity

\* finishFleet reports on every bot launched, each exactly once, and when Run returns after
\* launching bots none of their goroutines is still running.
EveryBotCollected ==
    pc \in {"report", "shutdown", "returned"} =>
        /\ Len(results) = launched
        /\ {results[i].bot : i \in DOMAIN results} = 1..launched
        /\ Live = {}

\* Exit code 0 hides nothing of the fleet's: Run returns nil only after a signal, when every
\* bot ended without an error, all that Run had to tell was written (a bot may fail to write
\* its own "disconnected", bot.go:255), and fleet_shutdown gave "signal" as its reason.
CleanExitMeansSignal ==
    pc = "returned" /\ ExitCode = 0 =>
        /\ ctxDone
        /\ reason = "signal"
        /\ ~outputFailed
        /\ \A i \in DOMAIN results : results[i].err = "none"

\* The error Run returns is the earliest one it collected, unless the supervisor had already
\* failed by itself: "fleet" means the first result collected carried no error.
FirstErrorIsReported ==
    /\ firstErr = "none" => \A i \in DOMAIN results : results[i].err = "none"
    /\ firstErr = "fleet" => results # <<>> /\ results[1].err = "none"
    /\ firstErr \in BotErr =>
          \E i \in DOMAIN results : /\ results[i].err = firstErr
                                    /\ \A j \in 1..(i - 1) : results[j].err = "none"

\* After the signal at most one more bot is launched: the launch loop may be past its check.
OneLaunchAfterSignal ==
    \A n \in 0..Count : [](ctxDone /\ launched = n => [](launched <= n + 1))

\* A signal, or the end of any bot, brings the whole fleet down: Run returns.
ShutdownCompletes == (ctxDone \/ \E b \in Bots : bot[b] = "ended") ~> (pc = "returned")

\* Once all bots have been online the fleet announces it, or is already ending.
AllOnlineAnnounced == (onlineAt = Bots) ~> (announced \/ pc = "returned")

\* What the supervisor's contract sees of the fleet.
Phase     == IF pc = "returned" THEN "stopped"
             ELSE IF pc \in {"cancel", "drain", "report", "shutdown"} THEN "stopping" ELSE "up"
Ended     == {b \in Bots : bot[b] = "ended"}
AnyFailed == \E r \in Elements(resultCh) \cup Elements(results) : r.err # "none"
Outcome   == IF pc # "returned" THEN "pending" ELSE IF firstErr = "none" THEN "ok" ELSE "failed"

Contract == INSTANCE Supervisor WITH
    Workers <- Bots, phase <- Phase, alive <- Live, ended <- Ended,
    failed <- AnyFailed, outcome <- Outcome

\* The fleet keeps the supervisor's contract, its liveness included.
ImplementsSupervisor == Contract!Spec

\* README's table of exit codes: "0 | Normal termination, including SIGINT/SIGTERM".  A fleet
\* whose signal has arrived, whose bots all end without an error and whose output works
\* exits with 0.
SignalExitsZero ==
    pc = "returned" /\ ctxDone /\ ~outputFailed /\ (\A i \in DOMAIN results : results[i].err = "none")
        => ExitCode = 0

=============================================================================
