------------------------------ MODULE Instance ------------------------------
(***************************************************************************)
(* One bot: runInstance of internal/bot/bot.go and the goroutines it       *)
(* starts.  The main goroutine (pc) connects, spawns, prepares the client, *)
(* then reads packets; the closer waits for the fleet's context and closes *)
(* the connection; the tick goroutine writes an input frame at each tick   *)
(* of its loop (runTickLoop) and counts it (authInputWriter).              *)
(*                                                                         *)
(* What packets do to the bot's position and clock is in Movement.tla,     *)
(* what its actions do is in Scenario.tla; here a packet matters for the   *)
(* online transition only, and a frame is an action packet or an input     *)
(* that moves or not.  gophertunnel's connection is external: it is open,  *)
(* lost (the server went away) or closed (by this process).                *)
(***************************************************************************)
EXTENDS Naturals

CONSTANTS MaxPackets,   \* bound: packets read
          MaxInputs     \* bound: input frames written

ASSUME BoundsAssumption == MaxPackets \in Nat /\ MaxInputs \in Nat

\* The stages an error may carry.
Stages == {"connect", "spawn", "world", "output", "prepare", "deadline", "read", "tick"}

VARIABLES
    pc,             \* where runInstance is
    ctxDone,        \* the fleet's context
    conn,           \* "none", "open", "lost" or "closed"
    closer,         \* the goroutine of gracefulCloseDone: "none", "waiting", "grace", "done"
    closeOnCancel,  \* closeOnCancelDone has been closed
    tickDone,       \* tickCtx
    tick,           \* the tick goroutine
    tickResult,     \* what runTickLoop returned: "nil" or "err"
    tickErr,        \* the channel tickErr: "empty" or the result it holds
    deadline,       \* the read deadline: "none", "armed" or "expired"
    radius,         \* chunkRadiusReady
    chunks,         \* stats.ChunksReceived > 0
    packets,        \* stats.PacketsReceived
    onlineState,    \* onlineState, and stats.OnlineAt
    selected,       \* the select that reports the bot online has been left
    reported,       \* it was left by sending on the fleet's channel
    accepted,       \* input frames the connection accepted
    moved,          \* those of them that move
    authCount,      \* the counter authInputs
    moveCount,      \* the counter movementInputs
    statAuth,       \* stats.AuthInputsSent
    statMove,       \* stats.MovementInputsSent
    retErr,         \* the stage of the error returned, or "none"
    trouble         \* history: the server, the output or a timeout failed the bot

connVars  == <<conn, deadline>>
closeVars == <<closer, closeOnCancel>>
tickVars  == <<tick, tickResult, tickErr>>
readVars  == <<radius, chunks, packets, onlineState>>
lifeVars  == <<selected, reported>>
countVars == <<accepted, moved, authCount, moveCount>>
statVars  == <<statAuth, statMove>>
vars == <<pc, ctxDone, connVars, closeVars, tickDone, tickVars, readVars, lifeVars, countVars,
          statVars, retErr, trouble>>

Steps == {"dial", "spawn", "screenStart", "loading", "screenEnd", "radius", "read", "report",
          "poll", "grace", "cleanup", "close", "loadAuth", "loadMove", "done"}

Flags == {ctxDone, closeOnCancel, tickDone, radius, chunks, onlineState, selected, reported,
          trouble}

TypeOK ==
    /\ Flags \subseteq BOOLEAN
    /\ pc \in Steps
    /\ conn \in {"none", "open", "lost", "closed"}
    /\ closer \in {"none", "waiting", "grace", "done"}
    /\ tick \in {"none", "ready", "countStill", "countMoving", "countMove", "leaving", "gone"}
    /\ tickResult \in {"nil", "err"}
    /\ tickErr \in {"empty", "nil", "err"}
    /\ deadline \in {"none", "armed", "expired"}
    /\ packets \in 0..MaxPackets
    /\ {accepted, moved, authCount, moveCount, statAuth, statMove} \subseteq 0..MaxInputs
    /\ retErr \in Stages \cup {"none"}

Init ==
    /\ pc = "dial"
    /\ ctxDone = FALSE
    /\ conn = "none" /\ deadline = "none"
    /\ closer = "none" /\ closeOnCancel = FALSE
    /\ tickDone = FALSE
    /\ tick = "none" /\ tickResult = "nil" /\ tickErr = "empty"
    /\ radius = FALSE /\ chunks = FALSE /\ packets = 0 /\ onlineState = FALSE
    /\ selected = FALSE /\ reported = FALSE
    /\ accepted = 0 /\ moved = 0 /\ authCount = 0 /\ moveCount = 0
    /\ statAuth = 0 /\ statMove = 0
    /\ retErr = "none"
    /\ trouble = FALSE

-----------------------------------------------------------------------------
(* Returning, and the connection. *)

\* return stageError(..): the deferred calls follow.
Fail(stage) == pc' = "cleanup" /\ retErr' = stage

\* An Emit failed: output is the one failure any step may meet.
OutputFails == Fail("output") /\ trouble' = TRUE

\* return nil, at once.
ReturnNil == pc' = "cleanup" /\ UNCHANGED <<retErr, trouble>>

\* <-gracefulCloseDone, then return nil.
MutSkipGrace == ReturnNil
ReturnAfterGrace == pc' = "grace" /\ UNCHANGED <<retErr, trouble>>

GoOn(next) == pc' = next /\ UNCHANGED <<retErr, trouble>>

\* Conn.WritePacket fails once the connection is closed; on a lost one it may still be
\* buffered.
WriteWorks == conn \in {"open", "lost"}
WriteFails == conn \in {"lost", "closed"}

-----------------------------------------------------------------------------
(* The main goroutine. *)

\* Whether a failed dial was the fleet's doing: its context is looked at, not the derived
\* one, which a timeout also ends.
MutAnyContext == TRUE
DialCancelled == ctxDone

\* The dial ends by ConnectTimeout at the latest.  The closer is started once it succeeded.
Dial ==
    /\ pc = "dial"
    /\ \/ OutputFails /\ conn' \in {"none", "open"} /\ UNCHANGED closer
       \/ DialCancelled /\ ReturnNil /\ UNCHANGED <<conn, closer>>
       \/ ~ctxDone /\ Fail("connect") /\ trouble' = TRUE /\ UNCHANGED <<conn, closer>>
       \/ GoOn("spawn") /\ conn' = "open" /\ closer' = "waiting"
    /\ UNCHANGED <<ctxDone, deadline, closeOnCancel, tickDone, tickVars, readVars, lifeVars,
                   countVars, statVars>>

\* DoSpawnContext ends by SpawnTimeout at the latest.  It fails because of the fleet's
\* context, or by itself; or it succeeds, and StartGame may still not have been seen.
Spawn ==
    /\ pc = "spawn"
    /\ \/ ctxDone /\ ReturnAfterGrace
       \/ Fail("spawn") /\ trouble' = TRUE
       \/ OutputFails
       \/ GoOn("screenStart")
    /\ UNCHANGED <<ctxDone, connVars, closeVars, tickDone, tickVars, readVars, lifeVars,
                   countVars, statVars>>

\* ServerBoundLoadingScreen, start and end: neither write looks at the context.
ScreenStart ==
    /\ pc = "screenStart"
    /\ \/ WriteWorks /\ GoOn("loading")
       \/ WriteFails /\ Fail("prepare") /\ UNCHANGED trouble
    /\ UNCHANGED <<ctxDone, connVars, closeVars, tickDone, tickVars, readVars, lifeVars,
                   countVars, statVars>>

Loading ==
    /\ pc = "loading"
    /\ \/ ctxDone /\ ReturnNil
       \/ GoOn("screenEnd")
    /\ UNCHANGED <<ctxDone, connVars, closeVars, tickDone, tickVars, readVars, lifeVars,
                   countVars, statVars>>

ScreenEnd ==
    /\ pc = "screenEnd"
    /\ \/ WriteWorks /\ (GoOn("radius") \/ OutputFails)
       \/ WriteFails /\ Fail("prepare") /\ UNCHANGED trouble
    /\ UNCHANGED <<ctxDone, connVars, closeVars, tickDone, tickVars, readVars, lifeVars,
                   countVars, statVars>>

WorldDeadline == "armed"

\* RequestChunkRadius, then the tick goroutine, then the read deadline.
RequestRadius ==
    /\ pc = "radius"
    /\ \/ /\ WriteFails /\ Fail("prepare") /\ UNCHANGED trouble
          /\ UNCHANGED <<tick, tickDone, deadline>>
       \/ /\ WriteWorks /\ OutputFails
          /\ UNCHANGED <<tick, tickDone, deadline>>
       \/ /\ WriteWorks
          /\ tick' = "ready" /\ tickDone' = ctxDone
          /\ \/ (OutputFails \/ (Fail("deadline") /\ trouble' = TRUE)) /\ UNCHANGED deadline
             \/ GoOn("read") /\ deadline' = WorldDeadline
    /\ UNCHANGED <<ctxDone, conn, closeVars, tickResult, tickErr, readVars, lifeVars,
                   countVars, statVars>>

MutOnlineOnRadius(kind) == ~onlineState /\ (radius \/ kind = "radius")
GoesOnline(kind) ==
    /\ ~onlineState
    /\ radius \/ kind = "radius"
    /\ chunks \/ kind = "chunk"

\* A packet, up to the report to the fleet: the handler's own event may fail, then the
\* online transition copies the counters, clears the deadline and emits online.
ReadPacket(kind) ==
    /\ pc = "read"
    /\ packets < MaxPackets
    /\ packets' = packets + 1
    /\ radius' = (radius \/ kind = "radius")
    /\ chunks' = (chunks \/ kind = "chunk")
    /\ \/ OutputFails /\ UNCHANGED <<onlineState, deadline, statVars>>
       \/ ~GoesOnline(kind) /\ GoOn("poll") /\ UNCHANGED <<onlineState, deadline, statVars>>
       \/ /\ GoesOnline(kind)
          /\ onlineState' = TRUE
          /\ statAuth' = authCount /\ statMove' = moveCount
          /\ \/ Fail("deadline") /\ trouble' = TRUE /\ UNCHANGED deadline
             \/ deadline' = "none" /\ (OutputFails \/ GoOn("report"))
    /\ UNCHANGED <<ctxDone, conn, closeVars, tickDone, tickVars, lifeVars, countVars>>

\* select { case online <- *stats: case <-ctx.Done(): }; the channel has room (Fleet.tla).
ReportOnline ==
    /\ pc = "report"
    /\ GoOn("poll")
    /\ selected' = TRUE
    /\ \/ reported' = TRUE
       \/ ctxDone /\ UNCHANGED reported
    /\ UNCHANGED <<ctxDone, connVars, closeVars, tickDone, tickVars, readVars,
                   countVars, statVars>>

MutIgnoreDeadline == conn \in {"lost", "closed"}
ReadBroken == conn \in {"lost", "closed"} \/ deadline = "expired"

\* ReadPacket returned an error.
ReadError ==
    /\ pc = "read"
    /\ ReadBroken
    /\ tickDone' = TRUE
    /\ \/ ctxDone /\ ReturnAfterGrace
       \/ /\ ~ctxDone
          /\ Fail(IF ~onlineState /\ deadline = "expired" THEN "world" ELSE "read")
          /\ UNCHANGED trouble
    /\ UNCHANGED <<ctxDone, connVars, closeVars, tickVars, readVars, lifeVars,
                   countVars, statVars>>

\* The end of the loop body: bot_progress, then a look at tickErr that does not wait.
PollTick ==
    /\ pc = "poll"
    /\ \/ onlineState /\ OutputFails /\ UNCHANGED tickErr
       \/ tickErr = "empty" /\ GoOn("read") /\ UNCHANGED tickErr
       \/ /\ tickErr # "empty"
          /\ tickErr' = "empty"
          /\ \/ tickErr = "nil" /\ ctxDone /\ ReturnAfterGrace
             \/ ~(tickErr = "nil" /\ ctxDone) /\ Fail("tick") /\ UNCHANGED trouble
    /\ UNCHANGED <<ctxDone, connVars, closeVars, tickDone, tick, tickResult, readVars, lifeVars,
                   countVars, statVars>>

AwaitGrace ==
    /\ pc = "grace"
    /\ closer = "done"
    /\ pc' = "cleanup"
    /\ UNCHANGED <<ctxDone, connVars, closeVars, tickDone, tickVars, readVars, lifeVars,
                   countVars, statVars, retErr, trouble>>

\* The deferred calls, last registered first: cancelTick and close(closeOnCancelDone), ...
Cleanup ==
    /\ pc = "cleanup"
    /\ pc' = "close"
    /\ tickDone' = TRUE
    /\ closeOnCancel' = TRUE
    /\ UNCHANGED <<ctxDone, connVars, closer, tickVars, readVars, lifeVars, countVars,
                   statVars, retErr, trouble>>

MutLeaveOpen == conn
Closed == IF conn = "none" THEN "none" ELSE "closed"

\* ... conn.Close, ...
CloseConn ==
    /\ pc = "close"
    /\ pc' = "loadAuth"
    /\ conn' = Closed
    /\ UNCHANGED <<ctxDone, deadline, closeVars, tickDone, tickVars, readVars, lifeVars,
                   countVars, statVars, retErr, trouble>>

MutStaleCounter == statAuth
FinalAuth == authCount

\* ... and the final counters, one load after the other.
LoadAuth ==
    /\ pc = "loadAuth"
    /\ pc' = "loadMove"
    /\ statAuth' = FinalAuth
    /\ UNCHANGED <<ctxDone, connVars, closeVars, tickDone, tickVars, readVars, lifeVars,
                   countVars, statMove, retErr, trouble>>

LoadMove ==
    /\ pc = "loadMove"
    /\ pc' = "done"
    /\ statMove' = moveCount
    /\ UNCHANGED <<ctxDone, connVars, closeVars, tickDone, tickVars, readVars, lifeVars,
                   countVars, statAuth, retErr, trouble>>

Main ==
    \/ Dial \/ Spawn \/ ScreenStart \/ Loading \/ ScreenEnd \/ RequestRadius
    \/ ReportOnline \/ PollTick \/ AwaitGrace
    \/ Cleanup \/ CloseConn \/ LoadAuth \/ LoadMove

-----------------------------------------------------------------------------
(* The closer. *)

MutNoClose == conn
CloserCloses == "closed"

CloserCancel ==
    /\ closer = "waiting"
    /\ ctxDone
    /\ conn' = CloserCloses
    /\ closer' = "grace"
    /\ UNCHANGED <<pc, ctxDone, deadline, closeOnCancel, tickDone, tickVars, readVars, lifeVars,
                   countVars, statVars, retErr, trouble>>

CloserSkip ==
    /\ closer = "waiting"
    /\ closeOnCancel
    /\ closer' = "done"
    /\ UNCHANGED <<pc, ctxDone, connVars, closeOnCancel, tickDone, tickVars, readVars, lifeVars,
                   countVars, statVars, retErr, trouble>>

\* rakNetCloseGrace has passed.
GraceOver ==
    /\ closer = "grace"
    /\ closer' = "done"
    /\ UNCHANGED <<pc, ctxDone, connVars, closeOnCancel, tickDone, tickVars, readVars, lifeVars,
                   countVars, statVars, retErr, trouble>>

Closer == CloserCancel \/ CloserSkip \/ GraceOver

-----------------------------------------------------------------------------
(* The tick goroutine. *)

\* case <-ctx.Done(), at the head of the loop or during the walking delay.
TickStop ==
    /\ tick = "ready"
    /\ tickDone
    /\ tick' = "leaving"
    /\ tickResult' = "nil"
    /\ UNCHANGED <<pc, ctxDone, connVars, closeVars, tickDone, tickErr, readVars, lifeVars,
                   countVars, statVars, retErr, trouble>>

\* An action's own packet is refused: runner.Tick or runner.Start returns the error, and
\* runTickLoop returns it whether or not its context is done.  (An action packet that is
\* accepted changes nothing modelled here.)
TickActionFails ==
    /\ tick = "ready"
    /\ WriteFails
    /\ tick' = "leaving"
    /\ tickResult' = "err"
    /\ UNCHANGED <<pc, ctxDone, connVars, closeVars, tickDone, tickErr, readVars, lifeVars,
                   countVars, statVars, retErr, trouble>>

\* The PlayerAuthInput of a tick, accepted or refused.
TickInput(moving) ==
    /\ tick = "ready"
    /\ \/ /\ WriteWorks
          /\ accepted < MaxInputs
          /\ accepted' = accepted + 1
          /\ moved' = IF moving THEN moved + 1 ELSE moved
          /\ tick' = IF moving THEN "countMoving" ELSE "countStill"
          /\ UNCHANGED tickResult
       \/ /\ WriteFails
          /\ tick' = "leaving"
          /\ tickResult' = IF tickDone THEN "nil" ELSE "err"
          /\ UNCHANGED <<accepted, moved>>
    /\ UNCHANGED <<pc, ctxDone, connVars, closeVars, tickDone, tickErr, readVars, lifeVars,
                   authCount, moveCount, statVars, retErr, trouble>>

MutCountTwice(n) == n + 2
CountOne(n) == n + 1

\* authInputWriter counts a frame after the connection accepted it.
CountAuth ==
    /\ tick \in {"countStill", "countMoving"}
    /\ authCount' = CountOne(authCount)
    /\ tick' = IF tick = "countMoving" THEN "countMove" ELSE "ready"
    /\ UNCHANGED <<pc, ctxDone, connVars, closeVars, tickDone, tickResult, tickErr, readVars,
                   lifeVars, accepted, moved, moveCount, statVars, retErr, trouble>>

CountMove ==
    /\ tick = "countMove"
    /\ moveCount' = CountOne(moveCount)
    /\ tick' = "ready"
    /\ UNCHANGED <<pc, ctxDone, connVars, closeVars, tickDone, tickResult, tickErr, readVars,
                   lifeVars, accepted, moved, authCount, statVars, retErr, trouble>>

\* tickErr is buffered: the send does not wait for the main goroutine to look.
MutUnbuffered == pc = "poll"
TickErrHasRoom == tickErr = "empty"

TickExit ==
    /\ tick = "leaving"
    /\ TickErrHasRoom
    /\ tickErr' = tickResult
    /\ tick' = "gone"
    /\ UNCHANGED <<pc, ctxDone, connVars, closeVars, tickDone, tickResult, readVars, lifeVars,
                   countVars, statVars, retErr, trouble>>

TickLoop == \/ TickStop \/ TickActionFails \/ CountAuth \/ CountMove \/ TickExit
            \/ \E moving \in BOOLEAN : TickInput(moving)

-----------------------------------------------------------------------------
(* The fleet, the server and the clock. *)

Cancel ==
    /\ ~ctxDone
    /\ pc # "done"
    /\ ctxDone' = TRUE
    /\ UNCHANGED <<pc, connVars, closeVars, tickDone, tickVars, readVars, lifeVars, countVars,
                   statVars, retErr, trouble>>

\* tickCtx is a child of the fleet's context.
PropagateTick ==
    /\ ctxDone
    /\ tick # "none"
    /\ ~tickDone
    /\ tickDone' = TRUE
    /\ UNCHANGED <<pc, ctxDone, connVars, closeVars, tickVars, readVars, lifeVars, countVars,
                   statVars, retErr, trouble>>

ServerDrops ==
    /\ conn = "open"
    /\ conn' = "lost"
    /\ trouble' = TRUE
    /\ UNCHANGED <<pc, ctxDone, deadline, closeVars, tickDone, tickVars, readVars, lifeVars,
                   countVars, statVars, retErr>>

DeadlinePasses ==
    /\ deadline = "armed"
    /\ deadline' = "expired"
    /\ trouble' = TRUE
    /\ UNCHANGED <<pc, ctxDone, conn, closeVars, tickDone, tickVars, readVars, lifeVars,
                   countVars, statVars, retErr>>

\* Every goroutine of the bot is gone.
Finished ==
    /\ pc = "done"
    /\ tick \in {"none", "gone"}
    /\ closer \in {"none", "done"}
    /\ UNCHANGED vars

Next ==
    \/ Main
    \/ \E kind \in {"radius", "chunk", "other"} : ReadPacket(kind)
    \/ ReadError
    \/ Closer
    \/ TickLoop
    \/ Cancel \/ PropagateTick \/ ServerDrops \/ DeadlinePasses
    \/ Finished

(***************************************************************************)
(* Goroutines run, timers fire, Dial and DoSpawn end by their timeouts.    *)
(* No packet is ever owed.  Two selects choose between a case that stays   *)
(* ready and one that comes and goes (ReadPacket's, and the tick loop's);  *)
(* Go and gophertunnel choose at random, so the steady case is taken in    *)
(* the end: strong fairness.                                               *)
(***************************************************************************)
Fairness ==
    /\ WF_vars(Main)
    /\ SF_vars(ReadError)
    /\ WF_vars(Closer)
    /\ SF_vars(TickStop)
    /\ WF_vars(CountAuth) /\ WF_vars(CountMove) /\ WF_vars(TickExit)
    /\ WF_vars(PropagateTick)
    /\ WF_vars(DeadlinePasses)

Spec == Init /\ [][Next]_vars /\ Fairness

-----------------------------------------------------------------------------
(* What the fleet and the reader of its report may rely on. *)

\* The bot behaves as the fleet assumes of it: see BotLife.tla.
ErrKind(stage) == CASE stage \in {"none", "connect", "spawn"} -> stage
                    [] stage = "world" -> "spawn"
                    [] OTHER -> "runtime"

Life == INSTANCE BotLife WITH
    BotErr    <- {"connect", "spawn", "runtime"},
    life      <- IF pc = "done" THEN "ended" ELSE IF selected THEN "online"
                 ELSE IF onlineState THEN "ready" ELSE "connecting",
    cancelled <- ctxDone,
    reported  <- reported,
    err       <- IF pc = "done" THEN ErrKind(retErr) ELSE "none"

ImplementsBotLife == Life!Spec

\* A bot that becomes online has spawned, got its chunk radius and at least one chunk; until
\* then the read deadline stays set, so that a server that answers nothing ends the bot.
OnlineOrOnDeadline ==
    /\ onlineState => radius /\ chunks
    /\ pc \in {"read", "poll"} => (deadline = "none" <=> onlineState)

\* A bot cancelled once its client is prepared returns nil only after the closer has closed
\* the connection and waited rakNetCloseGrace.
GraceWaited ==
    pc = "done" /\ retErr = "none" /\ tick # "none" => closer = "done" /\ conn = "closed"

\* The counters of bot_stats miss at most the one frame that was being written when the
\* connection was closed; movement frames are counted after auth frames but loaded after
\* them too, so they may exceed them by that one.
FinalCounters ==
    pc = "done" =>
        /\ statAuth <= accepted /\ accepted <= statAuth + 1
        /\ statMove <= moved    /\ moved <= statMove + 1
        /\ statMove <= statAuth + 1

\* Once runInstance has returned the server accepts no more input of this bot.
NoInputAfterReturn == [][pc = "done" => accepted' = accepted]_vars

\* No goroutine outlives the bot for good.
NothingLeaks == (pc = "done") ~> (tick \in {"none", "gone"} /\ closer \in {"none", "done"})

\* A cancelled bot, or one whose server went away, returns; and any bot comes online or
\* returns, whatever its server does.
BotEnds == (ctxDone \/ conn = "lost") ~> (pc = "done")
OnlineOrEnded == <>(onlineState \/ pc = "done")

\* bot.go:24-30: "Keep the process alive briefly after initiating the close; otherwise the Go
\* runtime terminates that transport goroutine".  A connected bot that returns nil has waited
\* for the closer's grace period.
GraceAlwaysWaited ==
    pc = "done" /\ retErr = "none" /\ conn # "none" => closer = "done"

\* README: exit code 0 is for "Normal termination, including SIGINT/SIGTERM".  A bot whose
\* server, output and timeouts gave it no trouble returns an error for no cancellation.
CancelEndsCleanly == pc = "done" /\ ~trouble => retErr = "none"

=============================================================================
