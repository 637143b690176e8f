------------------------------ MODULE Scenario ------------------------------
(***************************************************************************)
(* A scripted bot, from the command line to its frames: ParseConfig, then  *)
(* runTickLoop of internal/bot/tick.go with the Runner of                  *)
(* internal/scenario, the actions it creates (actions.go,                  *)
(* packet_actions.go, action.Timed) and the control block of playerState   *)
(* through which they reach inputSnapshot.                                 *)
(*                                                                         *)
(* Each tick is two steps of the tick goroutine, the runner's Tick and the *)
(* frame; the goroutine that reads packets may note a teleport between     *)
(* them.  Where the bot is does not matter here (Movement.tla): a frame is *)
(* the movement it asks for, its view and its jump flags.  The built-in    *)
(* chunk-fly ends at "begin": its action is Movement's.                    *)
(***************************************************************************)
EXTENDS Config, SequencesExt

CONSTANTS
    Commands,   \* the command lines considered
    Cooldown,   \* packetActionCooldownTicks
    BaseYaws,   \* yaws StartGame may give
    MaxTicks    \* bound: ticks of the ticker; no bounded scenario of Commands lasts longer

ASSUME CommandsAssumption == \A c \in Commands : c.file.steps \in Seq(StepRecord)
ASSUME CooldownAssumption == Cooldown \in Nat \ {0}
ASSUME MaxTicksAssumption == MaxTicks \in Nat
ASSUME BaseYawsAssumption == BaseYaws \subseteq Int

VARIABLES
    command,    \* what was given
    pc,         \* where the process, then the bot's tick goroutine, is
    cfg,        \* what ParseConfig returned
    \* scenario.Runner: the step, counted from 1, its repetitions left, the action, done
    index, repeat, act, done,
    \* playerState
    control, lastJump, teleport,
    ctxDone,    \* the bot's context
    err,        \* what runTickLoop returned: "none", "factory", "packet" or "frame"
    \* history variables
    clock,      \* ticks of the ticker
    frame,      \* the last frame sent
    ended,      \* the kind of the action that ended in this tick, or "none"
    created,    \* the steps whose actions were created, in order
    written,    \* the steps whose packets were written, in order
    lastWrite   \* when the last of them was

runnerVars == <<index, repeat, act, done>>
ghostVars  == <<frame, ended, created, written, lastWrite>>
vars == <<command, pc, cfg, runnerVars, control, lastJump, teleport, ctxDone, err, clock,
          ghostVars>>

Script == cfg.steps

-----------------------------------------------------------------------------
(* The control block. *)

Neutral == [strafe |-> 0, forward |-> 0, speed |-> 0,
            yaw |-> "server", pitch |-> "server", jump |-> FALSE]

\* setMoveControl, setLookControl and setJumpControl(true); the others are left as they are.
Hold(a, c) ==
    CASE a.kind = "move" -> [c EXCEPT !.strafe = a.strafe, !.forward = a.forward,
                                      !.speed = a.speed, !.yaw = a.yaw]
      [] a.kind = "look" -> [c EXCEPT !.pitch = a.pitch, !.yaw = a.yaw]
      [] a.kind = "jump" -> [c EXCEPT !.jump = TRUE]

MutKeepPitch(a, c) ==
    CASE a.kind = "move" -> [c EXCEPT !.strafe = 0, !.forward = 0, !.speed = 0, !.yaw = "server"]
      [] a.kind = "look" -> [c EXCEPT !.yaw = "server"]
      [] a.kind = "jump" -> [c EXCEPT !.jump = FALSE]

\* clearMoveControl, clearLookControl and setJumpControl(false).
Release(a, c) ==
    CASE a.kind = "move" -> [c EXCEPT !.strafe = 0, !.forward = 0, !.speed = 0, !.yaw = "server"]
      [] a.kind = "look" -> [c EXCEPT !.pitch = "server", !.yaw = "server"]
      [] a.kind = "jump" -> [c EXCEPT !.jump = FALSE]

-----------------------------------------------------------------------------
(* The actions.  A kind is a hold action, "idle", "timed" or "packet". *)

DefaultSpeed == 2       \* chunkWalkStepPerTick; other speeds are 1

MutNoSwing(step) ==
    CASE step.action = "idle"                     -> IF step.ticks > 0 THEN "timed" ELSE "idle"
      [] step.action = "wait"                     -> "timed"
      [] step.action \in {"move", "look", "jump"} -> step.action
      [] step.action \in {"chat", "command"}      -> "packet"
      [] OTHER                                    -> "unsupported"

\* The cases of newConfiguredAction, which are written down a second time after those of
\* validateStep.
KindOf(step) ==
    CASE step.action = "idle"                         -> IF step.ticks > 0 THEN "timed" ELSE "idle"
      [] step.action = "wait"                         -> "timed"
      [] step.action \in {"move", "look", "jump"}     -> step.action
      [] step.action \in {"chat", "command", "swing"} -> "packet"
      [] OTHER                                        -> "unsupported"

\* The action it creates.
ActionOf(step) ==
    [kind     |-> KindOf(step),
     ticks    |-> step.ticks,
     strafe   |-> step.strafe,
     forward  |-> step.forward,
     speed    |-> IF step.speed = 0 THEN DefaultSpeed ELSE step.speed,
     yaw      |-> IF step.yaw = "absent" THEN "heading" ELSE step.yaw,
     pitch    |-> IF step.pitch = "absent" THEN "level" ELSE step.pitch,
     elapsed  |-> 0, over |-> FALSE, sent |-> FALSE, cooldown |-> 0]

AnyStep == [action |-> "idle", ticks |-> 0, repeat |-> 0, forward |-> 0, strafe |-> 0,
            speed |-> 0, yaw |-> "absent", pitch |-> "absent", text |-> FALSE]

\* The action of a built-in scenario; chunk-walk goes forward without end.
BuiltInAction(name) ==
    ActionOf(IF name = "chunk-walk" THEN [AnyStep EXCEPT !.action = "move", !.forward = 1]
                                    ELSE AnyStep)

IsHold(a)  == a.kind \in HoldActions
Expired(a) == a.ticks > 0 /\ a.elapsed >= a.ticks
Writes(a)  == a.kind = "packet" /\ ~a.sent

MutImpatient(a) ==
    CASE IsHold(a)         -> a.over
      [] a.kind = "timed"  -> a.elapsed >= a.ticks
      [] a.kind = "packet" -> a.sent /\ (a.cooldown = 0 \/ repeat > 1)
      [] OTHER             -> FALSE

\* Done.
IsDone(a) ==
    CASE IsHold(a)         -> a.over
      [] a.kind = "timed"  -> a.elapsed >= a.ticks
      [] a.kind = "packet" -> a.sent /\ a.cooldown = 0
      [] OTHER             -> FALSE

\* What Start does to the controls: a Timed or packet action leaves them alone.
Started(a, c) == CASE IsHold(a) -> Hold(a, c) [] a.kind = "idle" -> Neutral [] OTHER -> c

MutLongCooldown == Cooldown + 1
CooldownTicks == Cooldown

\* Tick, for an action whose packet, if any, is written.
Ticked(a) ==
    CASE IsHold(a) -> IF Expired(a) THEN [a EXCEPT !.over = TRUE]
                                    ELSE [a EXCEPT !.elapsed = @ + 1]
      [] a.kind = "timed" -> [a EXCEPT !.elapsed = @ + 1]
      [] Writes(a)        -> [a EXCEPT !.sent = TRUE, !.cooldown = CooldownTicks]
      [] a.kind = "packet" /\ a.sent -> [a EXCEPT !.cooldown = @ - 1]
      [] OTHER            -> a

\* What that Tick does to the controls.
Controlled(a, c) ==
    CASE IsHold(a)          -> IF Expired(a) THEN Release(a, c) ELSE Hold(a, c)
      [] a.kind = "packet"  -> c
      [] OTHER              -> Neutral

-----------------------------------------------------------------------------
NoConfig == [count |-> 0, prefix |-> 0, scenario |-> "", steps |-> <<>>]
NoFrame == [strafe |-> 0, forward |-> 0, speed |-> 0, yaw |-> "server", pitch |-> "server",
            jumping |-> FALSE, pressed |-> FALSE, released |-> FALSE, ack |-> FALSE]

Init ==
    /\ command \in Commands
    /\ pc = "args" /\ cfg = NoConfig
    /\ index = 1 /\ repeat = 0 /\ act = ActionOf(AnyStep) /\ done = FALSE
    /\ control = Neutral /\ lastJump = FALSE /\ teleport = FALSE
    /\ ctxDone = FALSE /\ err = "none"
    /\ clock = 0 /\ frame = NoFrame /\ ended = "none"
    /\ created = <<>> /\ written = <<>> /\ lastWrite = 0

\* main: a command line that is not accepted ends the process.  An accepted one starts a
\* fleet, and in each bot that spawns, runTickLoop.
Parse ==
    /\ pc = "args"
    /\ IF Accepted(command)
       THEN /\ cfg' = ParsedConfig(command)
            /\ pc' = CASE cfg'.scenario = "chunk-walk" -> "settle"
                       [] cfg'.scenario = "chunk-fly"  -> "first"
                       [] OTHER                        -> "begin"
       ELSE pc' = "rejected" /\ UNCHANGED cfg
    /\ UNCHANGED <<command, runnerVars, control, lastJump, teleport, ctxDone, err, clock, ghostVars>>

\* movementStartDelay, for whatever is called chunk-walk.
Settle ==
    /\ pc = "settle"
    /\ \/ pc' = "begin"
       \/ ctxDone /\ pc' = "returned"
    /\ UNCHANGED <<command, cfg, runnerVars, control, lastJump, teleport, ctxDone, err, clock,
                   ghostVars>>

Repetitions(step) == IF step.repeat = 0 THEN 1 ELSE step.repeat

MutReused(step) == IF created # <<>> /\ step = Script[index] THEN act ELSE ActionOf(step)
Fresh(step) == ActionOf(step)

Creatable(step) == KindOf(step) # "unsupported"

\* replaceCurrent for step i, after the controls have become c; the tick goes on at next.
Replace(i, c, next) ==
    IF Creatable(Script[i])
    THEN /\ act' = Fresh(Script[i])
         /\ control' = Started(act', c)
         /\ created' = Append(created, i)
         /\ pc' = next /\ UNCHANGED err
    ELSE err' = "factory" /\ pc' = "returned" /\ control' = c /\ UNCHANGED <<act, created>>

\* newScenarioAction and Start: of the runner, or of the built-in action.
Begin ==
    /\ pc = "begin"
    /\ IF Script = <<>>
       THEN /\ cfg.scenario # "chunk-fly"
            /\ act' = BuiltInAction(cfg.scenario)
            /\ control' = Started(act', control)
            /\ pc' = "ticker"
            /\ UNCHANGED <<repeat, created, err>>
       ELSE /\ repeat' = Repetitions(Script[1])
            /\ Replace(1, control, "ticker")
    /\ UNCHANGED <<command, cfg, index, done, lastJump, teleport, ctxDone, clock, frame, ended,
                   written, lastWrite>>

MutAgainAtZero == repeat > 0
RepeatsLeft == repeat > 1

\* Runner.Tick once the action has been ticked and is done.
Advance(c) ==
    IF RepeatsLeft
    THEN repeat' = repeat - 1 /\ Replace(index, c, "frame") /\ UNCHANGED <<index, done>>
    ELSE /\ index' = index + 1
         /\ IF index = Len(Script)
            THEN /\ done' = TRUE /\ control' = c /\ pc' = "frame"
                 /\ UNCHANGED <<repeat, act, err, created>>
            ELSE /\ repeat' = Repetitions(Script[index + 1])
                 /\ Replace(index + 1, c, "frame")
                 /\ UNCHANGED done

\* case <-ticker.C, up to the frame.
RunnerTick ==
    /\ pc = "ticker" /\ clock < MaxTicks
    /\ clock' = clock + 1
    /\ \/ /\ done
          /\ pc' = "frame" /\ ended' = "none"
          /\ UNCHANGED <<runnerVars, control, err, created, written, lastWrite>>
       \/ /\ ~done
          /\ IF Writes(act) THEN written' = Append(written, index) /\ lastWrite' = clock'
                            ELSE UNCHANGED <<written, lastWrite>>
          /\ ended' = IF IsDone(Ticked(act)) THEN act.kind ELSE "none"
          /\ IF IsDone(Ticked(act))
             THEN Advance(Controlled(act, control))
             ELSE /\ act' = Ticked(act) /\ control' = Controlled(act, control)
                  /\ pc' = "frame"
                  /\ UNCHANGED <<index, repeat, done, err, created>>
       \/ /\ ~done /\ Writes(act)   \* WritePacket fails, and whatever the context says,
          /\ err' = "packet"        \* runTickLoop returns the error
          /\ pc' = "returned"
          /\ UNCHANGED <<runnerVars, control, ended, created, written, lastWrite>>
    /\ UNCHANGED <<command, cfg, lastJump, teleport, ctxDone, frame>>

MutForgetAck(jumping) == control.jump
LastJump(jumping) == jumping

\* authInputPacket and WritePacket: the first frame of a scenario called chunk-fly, or a
\* tick's.
SendFrame ==
    /\ pc \in {"first", "frame"}
    /\ LET jumping == control.jump /\ ~teleport IN
        /\ frame' = [strafe |-> IF teleport THEN 0 ELSE control.strafe,
                     forward |-> IF teleport THEN 0 ELSE control.forward,
                     speed |-> IF teleport THEN 0 ELSE control.speed,
                     yaw |-> control.yaw, pitch |-> control.pitch,
                     jumping |-> jumping,
                     pressed |-> jumping /\ ~lastJump, released |-> ~jumping /\ lastJump,
                     ack |-> teleport]
        /\ lastJump' = LastJump(jumping)
    /\ teleport' = FALSE
    /\ \/ pc' = (IF pc = "first" THEN "begin" ELSE "ticker") /\ UNCHANGED err
       \/ pc' = "returned" /\ err' = IF ctxDone THEN "none" ELSE "frame"
    /\ UNCHANGED <<command, cfg, runnerVars, control, ctxDone, clock, ended, created, written,
                   lastWrite>>

SeeCancel ==
    /\ pc = "ticker" /\ ctxDone
    /\ pc' = "returned"
    /\ UNCHANGED <<command, cfg, runnerVars, control, lastJump, teleport, ctxDone, err, clock,
                   ghostVars>>

TickLoop == Settle \/ Begin \/ RunnerTick \/ SendFrame \/ SeeCancel

Running == pc \notin {"args", "rejected", "returned"}

\* MovePlayer asks for an acknowledgement.
Teleport ==
    /\ Running /\ teleport' = TRUE
    /\ UNCHANGED <<command, pc, cfg, runnerVars, control, lastJump, ctxDone, err, clock, ghostVars>>

Cancel ==
    /\ Running /\ ctxDone' = TRUE
    /\ UNCHANGED <<command, pc, cfg, runnerVars, control, lastJump, teleport, err, clock, ghostVars>>

\* The process has exited, the loop has returned, or the bound on ticks is reached.
Over ==
    /\ \/ pc \in {"rejected", "returned"}
       \/ pc = "ticker" /\ clock = MaxTicks
       \/ pc = "begin" /\ Script = <<>> /\ cfg.scenario = "chunk-fly"
    /\ UNCHANGED vars

Next == Parse \/ TickLoop \/ Teleport \/ Cancel \/ Over

\* The process and the goroutine run on, and the ticker ticks.
Spec == Init /\ [][Next]_vars /\ WF_vars(Parse) /\ WF_vars(TickLoop)

-----------------------------------------------------------------------------
Kinds == HoldActions \cup {"idle", "timed", "packet"}

Flags == {done, lastJump, teleport, ctxDone, control.jump}

TypeOK ==
    /\ Flags \subseteq BOOLEAN
    /\ pc \in {"args", "rejected", "settle", "first", "begin", "ticker", "frame", "returned"}
    /\ index \in Nat \ {0} /\ repeat \in Nat
    /\ act.kind \in Kinds /\ act.elapsed \in 0..MaxTicks /\ act.cooldown \in 0..Cooldown
    /\ control.speed \in Nat /\ control.yaw \in {"server", "heading", "own"}
    /\ control.pitch \in {"server", "level", "own"}
    /\ err \in {"none", "factory", "packet", "frame"}
    /\ clock \in 0..MaxTicks /\ lastWrite \in 0..clock
    /\ ended \in Kinds \cup {"none"}

(* What a script says, told without the engine: each step runs max(repeat, 1) times, in     *)
(* order, and each execution takes a number of ticks that only its step decides.            *)

Times(step) == IF step.repeat > 1 THEN step.repeat ELSE 1
Copies(i, n) == [k \in 1..n |-> i]

\* The executions of the first i steps, and of all of them: the number of the step of each.
ExecutionsOf(script, i) ==
    LET runs[n \in 0..i] == IF n = 0 THEN <<>> ELSE runs[n - 1] \o Copies(n, Times(script[n]))
    IN runs[i]
Executions(script) == ExecutionsOf(script, Len(script))

Holds(step)     == step.action \in HoldActions
IsPacket(step)  == step.action \in PacketActions
Forever         == MaxTicks + 1

\* The ticks an execution takes in the code: a packet is sent in one and cools down, a hold
\* takes one more than its step has, in which it lets go.
Length(step) ==
    IF IsPacket(step) THEN Cooldown + 1
    ELSE IF step.ticks = 0 THEN Forever
    ELSE IF Holds(step) THEN step.ticks + 1 ELSE step.ticks

\* The tick in which execution k is created: those before it, one after the other.
Offset(script, k) ==
    LET runs == Executions(script)
        sum[n \in 0..k - 1] == IF n = 0 THEN 0 ELSE sum[n - 1] + Length(script[runs[n]])
    IN sum[k - 1]

\* A hold shows from the tick its predecessor ends in (it is started there) to its last tick
\* but one: in a frame more than its step has ticks, unless it is the first, which no tick
\* precedes (ScenarioHolds.tla).  These intervals do not overlap.
Shown(script, t) ==
    {k \in DOMAIN Executions(script) :
        LET step == script[Executions(script)[k]]
            start == Offset(script, k)
        IN Holds(step) /\ start <= t /\ t < start + Length(step)}

\* The controls a bot that does only this has.
Wanted(script, t) ==
    IF Shown(script, t) = {} THEN Neutral
    ELSE LET step == script[Executions(script)[CHOOSE k \in Shown(script, t) : TRUE]] IN
         Hold(ActionOf(step), Neutral)

\* Of the executions s, those that have a packet to write.
Due(script, s) ==
    LET due[n \in 0..Len(s)] ==
            IF n = 0 THEN <<>>
            ELSE IF IsPacket(script[s[n]]) THEN Append(due[n - 1], s[n]) ELSE due[n - 1]
    IN due[Len(s)]

-----------------------------------------------------------------------------
(* What holds of scripted bots. *)

\* Every frame carries the step whose turn it is and nothing left over from another, although
\* the actions share one control block, replace one another within a tick, and most do not
\* reset what they do not use.  A frame that acknowledges a teleport neither moves nor jumps.
\* Turns are as long as the code makes them (Length); whether that is what a step asks for is
\* HoldLastsItsTicks.
FrameShowsScript ==
    pc = "ticker" /\ clock > 0 /\ Script # <<>> =>
        LET w == Wanted(Script, clock)
            moves == ~frame.ack
        IN /\ <<frame.strafe, frame.forward, frame.speed>> =
                  IF moves THEN <<w.strafe, w.forward, w.speed>> ELSE <<0, 0, 0>>
           /\ <<frame.yaw, frame.pitch>> = <<w.yaw, w.pitch>>
           /\ frame.jumping = (w.jump /\ moves)

\* README: "repeat means the step is recreated and executed that many times; omitted or 0
\* means one execution", and steps execute in order.
RepeatsExact == IsPrefix(created, Executions(Script)) /\ (done => created = Executions(Script))

\* Each execution of chat, command or swing writes its packet once: repetitions are not
\* skipped because an earlier one has sent, and none is sent twice while it cools down.
PacketsOnce ==
    written = IF Writes(act) THEN Front(Due(Script, created)) ELSE Due(Script, created)

\* Between two packets lie more than Cooldown ticks, across steps and repetitions too.
PacketsSpaced == [][written' # written => written = <<>> \/ lastWrite' - lastWrite > Cooldown]_vars

\* Press and release alternate in what the server sees, frame by frame, also when a teleport
\* takes a jump back for one frame.
FlagsPair(last, new) ==
    /\ new.pressed <=> new.jumping /\ ~last.jumping
    /\ new.released <=> last.jumping /\ ~new.jumping
JumpFlagsPair ==
    [][pc' # pc /\ pc \in {"first", "frame"} => FlagsPair(frame, frame')]_vars

\* What validateStep accepts newConfiguredAction can create, although each has a list of its
\* own: an accepted scenario ends a bot only through its connection.
AcceptedRuns == err # "factory"

\* The names of an accepted fleet fit and have one length, so that they sort by index.
NamesAligned ==
    cfg # NoConfig /\ clock = 0 =>
        \A i \in 1..cfg.count :
            /\ NameLength(cfg.prefix, cfg.count, i) = NameLength(cfg.prefix, cfg.count, 1)
            /\ NameLength(cfg.prefix, cfg.count, i) <= 16

\* A fleet spreads evenly over the circle, whatever yaw the server gave, and headings stay in
\* the range of a yaw.
HeadingsSpread ==
    cfg.count > 1 /\ clock = 0 =>
        \A base \in BaseYaws :
            LET headings == {Heading(base, i, cfg.count) : i \in 1..cfg.count} IN
            /\ Cardinality(headings) = cfg.count
            /\ \A h \in headings : /\ -180 * cfg.count <= h /\ h < 180 * cfg.count
                                   /\ (h - base * cfg.count) % 360 = 0

\* README: only idle without ticks and move without ticks have no end.
Bounded(step) == step.ticks > 0 \/ step.action \notin {"idle", "move"}

\* An accepted script of bounded steps comes to its end, unless the bot is stopped.
ScriptFinishes ==
    (pc = "ticker" /\ Script # <<>> /\ \A i \in DOMAIN Script : Bounded(Script[i]))
        ~> (done \/ ctxDone \/ err # "none")

\* actions.go:116-117: "JumpAction holds the Bedrock jump input for durationTicks client ticks
\* and then emits a release transition on the following input packet".
JumpReleased == [][pc = "frame" /\ pc' = "ticker" /\ ended = "jump" => ~frame'.jumping]_vars

=============================================================================
