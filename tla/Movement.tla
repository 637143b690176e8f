------------------------------ MODULE Movement ------------------------------
(***************************************************************************)
(* How a bot moves: playerState of internal/bot/tick.go, shared by the     *)
(* tick goroutine (runTickLoop with the chunk-walk and chunk-fly actions)  *)
(* and by the goroutine that reads packets (the switch of runInstance).    *)
(* Each method of playerState holds its mutex, so each is one step; what   *)
(* goes wrong goes wrong between two of them.                              *)
(*                                                                         *)
(* The connection is two ordered channels.  The server is external: it     *)
(* applies the movement of each frame or refuses it, corrects a bot whose  *)
(* position disagrees, teleports it and waits for the acknowledgement,     *)
(* and names in its packets the tick of the frame it processed last.       *)
(*                                                                         *)
(* A position is a distance x along the bot's heading and an altitude y,   *)
(* both in steps of one tick, and a block is BlockSize steps each way: the *)
(* chunk publisher tells the bot the block it is in and no more.  The      *)
(* heading, the pitch, gravity's share of a packet's Delta and the         *)
(* rounding of float32 are left out.                                       *)
(***************************************************************************)
EXTENDS Integers, Sequences

CONSTANTS
    Scenarios,      \* built-in scenarios that move: a subset of {"walk", "fly"}
    Places,         \* positions the server may put the bot at
    Placeholder,    \* StartGame's position before the world is ready
    BlockSize,      \* steps in a block
    EyeOffset,      \* steps from the bottom of the block of a player's eyes to the eyes
    WorldBottom, WorldTop,                      \* chunkFlyValidMinY, chunkFlyValidMaxY
    MinAltitude, MaxAltitude, AltitudeGain,     \* chunkFly*Altitude*
    ClimbStep,      \* chunkFlyVerticalStepPerTick
    HistoryLimit,   \* predictionHistoryLimit
    RetryTicks,     \* flightRequestRetryTicks
    MaxTick,        \* bound: ticks handed out
    MaxEvents       \* bound: what the server does of its own accord

Position == [x : Int, y : Int]

ASSUME ScenariosAssumption == Scenarios \subseteq {"walk", "fly"}
ASSUME PlacesAssumption ==
    Places \subseteq Position /\ Placeholder \in Position /\ Placeholder.y \notin WorldBottom..WorldTop
ASSUME BlockAssumption == BlockSize \in Nat \ {0} /\ EyeOffset \in 0..BlockSize - 1
ASSUME AltitudeAssumption ==
    /\ {WorldBottom, WorldTop} \subseteq Int
    /\ {MinAltitude, MaxAltitude, AltitudeGain} \subseteq Nat
    /\ {MinAltitude, MaxAltitude} \subseteq WorldBottom..WorldTop /\ MinAltitude <= MaxAltitude
    /\ ClimbStep \in Nat \ {0}
ASSUME CounterAssumption ==
    /\ HistoryLimit \in Nat \ {0}
    /\ RetryTicks \in Nat /\ RetryTicks > 1
    /\ {MaxTick, MaxEvents} \subseteq Nat

VARIABLES
    \* playerState
    pos, ready, inputStarted, probeSent, teleport, flying, startPending,
    nextTick,       \* serverTick: the next input tick
    synced, history,
    control,        \* "none", "walk" or "fly": what s.control asks for
    targetY,        \* s.control.flightTargetY
    \* the tick goroutine
    scenario,       \* "walk" or "fly"
    tpc, tick, frame,
    seen,           \* what NewChunkFlyAction read of position
    elapsed,        \* FlyAction.elapsed, modulo RetryTicks
    \* the reading goroutine: the tick syncServerTick is still to be called with, or -1
    owed,
    \* the connection and the server
    toServer, toBot, srvPos, srvAwaitsAck, srvTick, events,
    \* history variables
    rewound,        \* the input clock has gone back
    missed,         \* a correction was replayed without the movement of a later frame
    displaced,      \* a MovePlayer asked for no acknowledgement
    seed,           \* whether the bot's position is the publisher's: see Follows
    requests,       \* RequestAbility packets sent
    starts,         \* frames sent with StartFlying
    probes          \* the ticks of the correction probes sent

playerVars == <<pos, ready, inputStarted, probeSent, teleport, flying, startPending,
                nextTick, synced, history, control, targetY>>
tickVars   == <<scenario, tpc, tick, frame, seen, elapsed>>
serverVars == <<srvPos, srvAwaitsAck, srvTick, events>>
ghostVars  == <<rewound, missed, displaced, seed, requests, starts, probes>>
vars == <<playerVars, tickVars, owed, toServer, toBot, serverVars, ghostVars>>

Plus(p, d) == [x |-> p.x + d.x, y |-> p.y + d.y]
Still == [x |-> 0, y |-> 0]
Ahead == [x |-> 1, y |-> 0]

Valid(p) == p.y >= WorldBottom /\ p.y <= WorldTop

MutCommitProbe(f) == f.delta

\* A frame's committedDelta: the probe moves the packet and not the bot.
Committed(f) == IF f.probe THEN Still ELSE f.delta

Delta == [x : 0..1, y : -ClimbStep..ClimbStep]
Frame == [tick : 0..MaxTick, pos : Position, delta : Delta,
          probe : BOOLEAN, ack : BOOLEAN, start : BOOLEAN]
Prediction == [tick : 0..MaxTick, delta : Delta]

Packet == [kind : {"correct"}, pos : Position, tick : 0..MaxTick]
          \cup [kind : {"move"}, pos : Position, teleport : BOOLEAN, tick : 0..MaxTick]
          \cup [kind : {"publisher"}, block : Position]
          \cup [kind : {"abilities"}, flying : BOOLEAN]
          \cup [kind : {"sync"}, tick : 0..MaxTick]

TypeOK ==
    /\ {pos, seen, srvPos} \subseteq Position
    /\ {ready, inputStarted, probeSent, teleport, flying, startPending, synced, srvAwaitsAck,
        rewound, missed, displaced} \subseteq BOOLEAN
    /\ nextTick \in 0..MaxTick + 1 /\ tick \in 0..MaxTick
    /\ history \in Seq(Prediction) /\ Len(history) <= HistoryLimit
    /\ scenario \in Scenarios /\ control \in {"none", scenario}
    /\ targetY \in 0..MaxAltitude
    /\ tpc \in {"settle", "first", "ticker", "act", "retry", "snap", "record",
                "readPos", "readReady", "start", "request"}
    /\ frame \in Frame
    /\ elapsed \in 0..RetryTicks - 1
    /\ owed \in -1..MaxTick
    /\ toServer \in Seq(Frame) /\ toBot \in Seq(Packet)
    /\ srvTick \in 0..MaxTick /\ events \in 0..MaxEvents
    /\ seed \in {"none", "unseen", "seen", "unheard"}
    /\ requests \in Nat /\ starts \in Nat /\ probes \in Seq(0..MaxTick)

NoFrame == [tick |-> 0, pos |-> Placeholder, delta |-> Still,
            probe |-> FALSE, ack |-> FALSE, start |-> FALSE]

\* StartGame gave the server's position or the placeholder; newPlayerState.
Init ==
    /\ srvPos \in Places /\ srvAwaitsAck = FALSE /\ srvTick = 0 /\ events = 0
    /\ pos \in {srvPos, Placeholder}
    /\ ready = Valid(pos)
    /\ inputStarted = FALSE /\ probeSent = FALSE /\ teleport = FALSE
    /\ flying = FALSE /\ startPending = FALSE
    /\ nextTick = 0 /\ synced = FALSE /\ history = <<>>
    /\ control = "none" /\ targetY = 0
    /\ scenario \in Scenarios
    /\ tpc = IF scenario = "walk" THEN "settle" ELSE "first"
    /\ tick = 0 /\ frame = NoFrame /\ seen = Placeholder /\ elapsed = 0
    /\ owed = -1
    /\ toServer = <<>> /\ toBot = <<>>
    /\ rewound = FALSE /\ missed = FALSE /\ displaced = FALSE /\ seed = "none"
    /\ requests = 0 /\ starts = 0 /\ probes = <<>>

-----------------------------------------------------------------------------
(* The tick goroutine. *)

\* The settle delay is over: newScenarioAction, MoveAction.Start.
StartWalk ==
    /\ tpc = "settle"
    /\ tpc' = "ticker"
    /\ control' = "walk"
    /\ UNCHANGED <<pos, ready, inputStarted, probeSent, teleport, flying, startPending, nextTick,
                   synced, history, targetY, scenario, tick, frame, seen, elapsed, owed,
                   toServer, toBot, serverVars, ghostVars>>

NextInputTick ==
    /\ tpc \in {"first", "ticker"}
    /\ nextTick <= MaxTick
    /\ inputStarted' = TRUE
    /\ tick' = nextTick
    /\ nextTick' = nextTick + 1
    /\ tpc' = IF tpc = "first" THEN "snap" ELSE "act"
    /\ UNCHANGED <<pos, ready, probeSent, teleport, flying, startPending, synced, history,
                   control, targetY, scenario, frame, seen, elapsed, owed,
                   toServer, toBot, serverVars, ghostVars>>

\* The action's Tick, up to what it decides: both set the control they set before, and
\* FlyAction asks for flight again from time to time while the server has not confirmed it.
ActionTick ==
    /\ tpc = "act"
    /\ IF scenario = "fly"
       THEN /\ elapsed' = (elapsed + 1) % RetryTicks
            /\ tpc' = IF ~flying /\ elapsed' = 0 THEN "retry" ELSE "snap"
       ELSE tpc' = "snap" /\ UNCHANGED elapsed
    /\ UNCHANGED <<playerVars, scenario, tick, frame, seen, owed, toServer, toBot, serverVars,
                   ghostVars>>

MutRequestOnly == startPending
Queued == TRUE

\* requestFlight: queue the transition, write RequestAbility.
RequestFlight ==
    /\ tpc \in {"retry", "request"}
    /\ startPending' = Queued
    /\ requests' = requests + 1
    /\ tpc' = IF tpc = "retry" THEN "snap" ELSE "ticker"
    /\ UNCHANGED <<pos, ready, inputStarted, probeSent, teleport, flying, nextTick, synced,
                   history, control, targetY, scenario, tick, frame, seen, elapsed, owed,
                   toServer, toBot, serverVars, rewound, missed, displaced, seed,
                   starts, probes>>

Smaller(a, b) == IF a <= b THEN a ELSE b

\* One tick of flight: climb or descend to the target altitude, then travel.
FlightDelta ==
    IF targetY = pos.y THEN Ahead
    ELSE [x |-> 0, y |-> IF targetY > pos.y THEN Smaller(ClimbStep, targetY - pos.y)
                                            ELSE -Smaller(ClimbStep, pos.y - targetY)]

ProbeAllowed == ~probeSent

MutMoveWhileAcking == FALSE
Acking == teleport

\* The movement of the next frame, and whether it is the correction probe.
Probing == control = "fly" /\ ~Acking /\ flying /\ ~ready /\ ProbeAllowed
NextDelta ==
    IF Acking THEN Still
    ELSE CASE control = "walk" \/ Probing          -> Ahead
           [] control = "fly" /\ flying /\ ready   -> FlightDelta
           [] OTHER                               -> Still

InputSnapshot ==
    /\ tpc = "snap"
    /\ tpc' = "record"
    /\ frame' = [tick |-> tick, pos |-> Plus(pos, NextDelta), delta |-> NextDelta,
                 probe |-> Probing, ack |-> teleport, start |-> startPending]
    /\ pos' = Plus(pos, Committed(frame'))
    /\ teleport' = FALSE
    /\ startPending' = FALSE
    /\ probeSent' = (probeSent \/ Probing)
    /\ UNCHANGED <<ready, inputStarted, flying, nextTick, synced, history, control, targetY,
                   scenario, tick, seen, elapsed, owed, toServer, toBot, serverVars, ghostVars>>

MutUnlimited(h) == h

\* The newest HistoryLimit elements.
Newest(h) == SubSeq(h, IF Len(h) > HistoryLimit THEN Len(h) - HistoryLimit + 1 ELSE 1, Len(h))

\* recordPrediction, then WritePacket: nothing else looks at the packet in between.
RecordAndWrite ==
    /\ tpc = "record"
    /\ history' = Newest(Append(history, [tick |-> frame.tick, delta |-> Committed(frame)]))
    /\ toServer' = Append(toServer, frame)
    /\ starts' = IF frame.start THEN starts + 1 ELSE starts
    /\ probes' = IF frame.probe THEN Append(probes, frame.tick) ELSE probes
    /\ tpc' = IF control = "none" THEN "readPos" ELSE "ticker"
    /\ UNCHANGED <<pos, ready, inputStarted, probeSent, teleport, flying, startPending, nextTick,
                   synced, control, targetY, scenario, tick, frame, seen, elapsed, owed,
                   toBot, serverVars, rewound, missed, displaced, seed, requests>>

\* NewChunkFlyAction reads the position and whether it is authoritative, one after the other.
ReadPosition ==
    /\ tpc = "readPos"
    /\ tpc' = "readReady"
    /\ seen' = pos
    /\ UNCHANGED <<playerVars, scenario, tick, frame, elapsed, owed, toServer, toBot,
                   serverVars, ghostVars>>

Clamp(y) == IF y < MinAltitude THEN MinAltitude ELSE Smaller(y, MaxAltitude)

\* What remains of NewChunkFlyAction, and FlyAction.Start up to requestFlight.  (The target
\* is the action's until Start copies it; nobody else looks at it.)
ReadReady ==
    /\ tpc = "readReady"
    /\ tpc' = "start"
    /\ targetY' = IF ready THEN Clamp(seen.y + AltitudeGain) ELSE MinAltitude
    /\ UNCHANGED <<pos, ready, inputStarted, probeSent, teleport, flying, startPending, nextTick,
                   synced, history, control, scenario, tick, frame, seen, elapsed, owed,
                   toServer, toBot, serverVars, ghostVars>>

StartFly ==
    /\ tpc = "start"
    /\ tpc' = "request"
    /\ control' = "fly"
    /\ UNCHANGED <<pos, ready, inputStarted, probeSent, teleport, flying, startPending, nextTick,
                   synced, history, targetY, scenario, tick, frame, seen, elapsed, owed,
                   toServer, toBot, serverVars, ghostVars>>

TickLoop ==
    \/ StartWalk \/ NextInputTick \/ ActionTick \/ RequestFlight \/ InputSnapshot
    \/ RecordAndWrite \/ ReadPosition \/ ReadReady \/ StartFly

-----------------------------------------------------------------------------
(* The reading goroutine: one packet at a time. *)

Receives(kind) == owed = -1 /\ toBot # <<>> /\ Head(toBot).kind = kind /\ toBot' = Tail(toBot)

MutKeepEqual(kept, f, t) == IF f.tick >= t THEN Append(kept, f) ELSE kept

\* One round of correctPrediction's loop: a prediction for a tick after t is kept.
Keep(kept, f, t) == IF f.tick > t THEN Append(kept, f) ELSE kept

\* The predictions of h that a correction for tick t does not cover.
Kept(h, t) ==
    LET kept[n \in 0..Len(h)] == IF n = 0 THEN <<>> ELSE Keep(kept[n - 1], h[n], t)
    IN kept[Len(h)]

\* p moved by the predictions of h.
Replay(p, h) ==
    LET current[n \in 0..Len(h)] == IF n = 0 THEN p ELSE Plus(current[n - 1], h[n].delta)
    IN current[Len(h)]

\* Frames later than t may have moved the server's bot by what the history does not tell: one
\* that is half made, a probe, or one that the history had no room for.
Missing(t) ==
    \/ tpc = "record" /\ frame.delta # Still
    \/ \E i \in DOMAIN probes : probes[i] > t
    \/ Len(history) = HistoryLimit /\ history[1].tick > t

CorrectPrediction ==
    /\ Receives("correct")
    /\ LET p == Head(toBot) IN
        /\ history' = Kept(history, p.tick)
        /\ pos' = Replay(p.pos, history')
        /\ ready' = (ready \/ Valid(p.pos))
        /\ owed' = p.tick
        /\ missed' = (missed \/ Missing(p.tick))
    /\ UNCHANGED <<inputStarted, probeSent, teleport, flying, startPending, nextTick, synced,
                   control, targetY, tickVars, toServer, serverVars, rewound, displaced, seed,
                   requests, starts, probes>>

MutForgetTeleport(asked) == asked
KeepsTeleport(asked) == teleport \/ asked

\* MovePlayer of this bot: update.  The predictions made so far are kept.
Update ==
    /\ Receives("move")
    /\ LET p == Head(toBot) IN
        /\ pos' = p.pos
        /\ ready' = (ready \/ Valid(p.pos))
        /\ teleport' = KeepsTeleport(p.teleport)
        /\ owed' = p.tick
        /\ displaced' = (displaced \/ ~p.teleport)
    /\ seed' = "none"
    /\ UNCHANGED <<inputStarted, probeSent, flying, startPending, nextTick, synced, history,
                   control, targetY, tickVars, toServer, serverVars, rewound, missed, requests, starts,
                   probes>>

\* UpdateAttributes, SetActorData, SetActorMotion, MobEffect, UpdatePlayerGameType.
SyncOnly ==
    /\ Receives("sync")
    /\ owed' = Head(toBot).tick
    /\ UNCHANGED <<playerVars, tickVars, toServer, serverVars, ghostVars>>

MutAlwaysSync(t) == TRUE
MovesClock(t) == ~synced \/ t + 1 > nextTick

\* syncServerTick, the second half of the handlers above.
SyncServerTick ==
    /\ owed >= 0
    /\ owed' = -1
    /\ IF owed # 0 /\ MovesClock(owed)
       THEN /\ nextTick' = owed + 1
            /\ synced' = TRUE
            /\ rewound' = (rewound \/ owed + 1 < nextTick)
       ELSE UNCHANGED <<nextTick, synced, rewound>>
    /\ UNCHANGED <<pos, ready, inputStarted, probeSent, teleport, flying, startPending, history,
                   control, targetY, tickVars, toServer, toBot, serverVars, missed, displaced,
                   seed, requests, starts, probes>>

MutCorner(b) == [x |-> b.x * BlockSize, y |-> b.y * BlockSize + EyeOffset]

\* Where a player whose eyes are in block b is taken to be: at the middle of the block, with
\* the eyes where those of a player standing on a block are.
PublisherEye(b) == [x |-> b.x * BlockSize + BlockSize \div 2, y |-> b.y * BlockSize + EyeOffset]

Acceptable(p) == ~ready /\ ~inputStarted /\ Valid(p)

\* NetworkChunkPublisherUpdate seen twice at one block: acceptPublisherPosition.
AcceptPublisherPosition ==
    /\ Receives("publisher")
    /\ LET p == PublisherEye(Head(toBot).block) IN
        IF Acceptable(p) THEN pos' = p /\ ready' = TRUE /\ seed' = "unseen"
                         ELSE UNCHANGED <<pos, ready, seed>>
    /\ UNCHANGED <<inputStarted, probeSent, teleport, flying, startPending, nextTick, synced,
                   history, control, targetY, tickVars, owed, toServer, serverVars, rewound,
                   missed, displaced, requests, starts, probes>>

\* UpdateAbilities; only chunk-fly looks at it.
SetFlyingConfirmed ==
    /\ Receives("abilities")
    /\ flying' = IF scenario = "fly" THEN Head(toBot).flying ELSE flying
    /\ UNCHANGED <<pos, ready, inputStarted, probeSent, teleport, startPending, nextTick, synced,
                   history, control, targetY, tickVars, owed, toServer, serverVars, ghostVars>>

Reader ==
    \/ CorrectPrediction \/ Update \/ SyncOnly \/ SyncServerTick
    \/ AcceptPublisherPosition \/ SetFlyingConfirmed

-----------------------------------------------------------------------------
(* The server. *)

Sends(packet) == toBot' = Append(toBot, packet)
Takes == toServer # <<>> /\ toServer' = Tail(toServer) /\ srvTick' = Head(toServer).tick
Acts == events < MaxEvents /\ events' = events + 1

\* A frame that does not acknowledge the teleport the server waits for does not move the bot.
IgnoreFrame ==
    /\ Takes
    /\ srvAwaitsAck /\ ~Head(toServer).ack
    /\ UNCHANGED <<playerVars, tickVars, owed, toBot, srvPos, srvAwaitsAck, events, ghostVars>>

\* What becomes of a position seeded by the publisher: the server has "unseen" it until it
\* processes a frame that moves, and then "seen" it; the bot is left "unheard" when the server
\* refuses such a frame and, finding the bot at the very place it has it, corrects nothing.
Follows(f) ==
    CASE seed = "none" \/ f.delta = Still     -> seed
      [] srvPos' = srvPos /\ toBot' = toBot  -> "unheard"
      [] OTHER -> IF seed = "unheard" THEN seed ELSE "seen"

\* The server moves the bot as the frame says, or refuses to.  A bot that moved and is not
\* where the server has it is corrected; one that stands still may be.
ProcessFrame ==
    /\ Takes
    /\ srvAwaitsAck => Head(toServer).ack
    /\ srvAwaitsAck' = FALSE
    /\ LET f == Head(toServer) IN
        /\ \/ srvPos' = Plus(srvPos, f.delta) /\ UNCHANGED events
           \/ f.delta # Still /\ Acts /\ UNCHANGED srvPos
        /\ \/ f.pos # srvPos' /\ Sends([kind |-> "correct", pos |-> srvPos', tick |-> f.tick])
           \/ (f.pos = srvPos' \/ f.delta = Still) /\ UNCHANGED toBot
        /\ seed' = Follows(f)
    /\ UNCHANGED <<playerVars, tickVars, owed, rewound, missed, displaced, requests, starts,
                   probes>>

\* With a teleport, one at a time, or without: the bot is told where it is.
MoveBot ==
    /\ Acts
    /\ \E p \in Places, asked \in {FALSE, ~srvAwaitsAck} :
        /\ srvPos' = p
        /\ srvAwaitsAck' = (srvAwaitsAck \/ asked)
        /\ Sends([kind |-> "move", pos |-> p, teleport |-> asked, tick |-> srvTick])
    /\ UNCHANGED <<playerVars, tickVars, owed, toServer, srvTick, ghostVars>>

BlockOf(p) == [x |-> p.x \div BlockSize, y |-> p.y \div BlockSize]

\* The server publishes the block the bot's eyes are in.
SendPublisher ==
    /\ Acts
    /\ Sends([kind |-> "publisher", block |-> BlockOf(srvPos)])
    /\ UNCHANGED <<playerVars, tickVars, owed, toServer, srvPos, srvAwaitsAck, srvTick, ghostVars>>

SendAbilities ==
    /\ Acts
    /\ \E on \in BOOLEAN : Sends([kind |-> "abilities", flying |-> on])
    /\ UNCHANGED <<playerVars, tickVars, owed, toServer, srvPos, srvAwaitsAck, srvTick, ghostVars>>

SendSync ==
    /\ Acts
    /\ Sends([kind |-> "sync", tick |-> srvTick])
    /\ UNCHANGED <<playerVars, tickVars, owed, toServer, srvPos, srvAwaitsAck, srvTick, ghostVars>>

Server == IgnoreFrame \/ ProcessFrame \/ MoveBot \/ SendPublisher \/ SendAbilities \/ SendSync

\* Nothing is on its way and no frame is half made.
Quiet == toServer = <<>> /\ toBot = <<>> /\ owed = -1 /\ tpc # "record"

\* The bound on ticks is reached and everything has arrived.
TicksOver == Quiet /\ tpc \in {"first", "ticker"} /\ nextTick > MaxTick /\ UNCHANGED vars

Next == TickLoop \/ Reader \/ Server \/ TicksOver

Spec == Init /\ [][Next]_vars

-----------------------------------------------------------------------------
(* What holds of the movement. *)

\* What BotIsWhereServerHasIt is not about: an input clock set back, a correction replayed
\* without a later movement that the history does not tell, a MovePlayer without a teleport.
Undisturbed == ~rewound /\ ~missed /\ ~displaced

\* Client-side prediction converges: whenever everything sent has arrived, a bot whose
\* position is authoritative is where the server has it, however corrections, teleports and
\* frames crossed each other.  A bot seeded by the publisher is so from the first movement the
\* server saw, unless the server then refused one without a word.
BotIsWhereServerHasIt ==
    Quiet /\ ready /\ Undisturbed /\ seed \in {"none", "seen"} => pos = srvPos

Distance(a, b) == IF a <= b THEN b - a ELSE a - b

\* Until then a bot seeded by the publisher is as near as a block tells: half a block along
\* the ground, a block up or down.  The seed is never of a place the server has left.
SeedIsNear ==
    Quiet /\ Undisturbed /\ seed = "unseen" =>
        2 * Distance(pos.x, srvPos.x) <= BlockSize /\ Distance(pos.y, srvPos.y) < BlockSize

\* The first server tick a bot sees may set its clock back, and nothing else does: ticks
\* repeat at most once along the predictions.
OneRewind ==
    \A i, j \in 2..Len(history) :
        history[i].tick <= history[i - 1].tick /\ history[j].tick <= history[j - 1].tick => i = j

\* A teleport the server waits to see acknowledged is on its way to the bot, noted by the
\* bot, or acknowledged in a frame that is on its way: it cannot be lost, and the server does
\* not ignore the bot for good.
TeleportNotLost ==
    srvAwaitsAck =>
        \/ teleport
        \/ tpc = "record" /\ frame.ack
        \/ \E i \in DOMAIN toServer : toServer[i].ack
        \/ \E i \in DOMAIN toBot : toBot[i].kind = "move" /\ toBot[i].teleport

\* The frame that acknowledges a teleport moves nothing: it carries the position the bot has
\* from the server's latest word.
AckStandsStill == [][tpc = "snap" /\ frame'.ack /\ tpc' = "record" =>
                        frame'.pos = pos /\ pos' = pos /\ ~frame'.probe]_vars

\* Every RequestAbility is followed by exactly one frame with StartFlying, retries included.
RequestsStart ==
    requests = starts + (IF startPending THEN 1 ELSE 0)
                      + (IF tpc = "record" /\ frame.start THEN 1 ELSE 0)

\* flight.go:25-26: "Horizontal prediction does not begin until ... the initial player position
\* is authoritative".  A flying bot without such a position sends one probe however long the
\* answer takes and predicts no movement; and the position it holds then is never a valid one,
\* whichever packet put it there.
ProbeIsOneShot ==
    scenario = "fly" =>
        /\ Len(probes) <= 1
        /\ ~ready => ~Valid(pos) /\ \A i \in DOMAIN history : history[i].delta = Still

\* tick_test.go, TestCorrectionReplaysPredictionsAfterCorrectedTick: a correction replays the
\* predictions after the corrected tick.  With a steady clock the bot is then where the server
\* has it once everything has arrived, wherever in a tick the correction came.
CorrectionReplaysPredictions ==
    Quiet /\ ready /\ ~rewound /\ ~displaced /\ seed = "none" => pos = srvPos

\* tick.go:202-204: "PlayerAuthInput carries the client's monotonically advancing movement
\* frame id.  Server packets may move this clock forward".  Predictions have advancing ticks.
FrameIdsAdvance == \A i \in 2..Len(history) : history[i - 1].tick < history[i].tick

=============================================================================
