--------------------------- MODULE ScenarioProofs ---------------------------
(***************************************************************************)
(* Theorems about Scenario.tla, for all command lines, whatever their      *)
(* scripts, and for every cooldown and base yaw: types, that accepted      *)
(* scripts never fail in the factory, the distance of packets, the jump    *)
(* flags, the executions of the steps and their order, the packets they    *)
(* write, what the frames show at each tick, names and headings.           *)
(***************************************************************************)
EXTENDS Scenario, DataInduction, SequenceTheorems, FiniteSetTheorems, FunctionTheorems, TLAPS

Actions == [kind : Kinds, ticks : Int, strafe : Int, forward : Int, speed : Nat,
            yaw : {"heading", "own"}, pitch : {"level", "own"},
            elapsed : Nat, over : BOOLEAN, sent : BOOLEAN, cooldown : 0..Cooldown]

Controls == [strafe : Int, forward : Int, speed : Nat, yaw : {"server", "heading", "own"},
             pitch : {"server", "level", "own"}, jump : BOOLEAN]

\* A packet action that has sent is still cooling down: it is replaced when it is not.
Cooling(a) == a.kind = "packet" /\ a.sent => a.cooldown > 0

-----------------------------------------------------------------------------
(* The actions and what they do to the control block. *)

LEMMA StepTyped ==
    ASSUME NEW step \in StepRecord
    PROVE  /\ step.ticks \in Int /\ step.repeat \in Int
           /\ step.forward \in Int /\ step.strafe \in Int /\ step.speed \in Int
           /\ step.yaw \in {"absent", "own"} /\ step.pitch \in {"absent", "own"}
  BY DEF StepRecord

LEMMA ValidRange ==
    ASSUME NEW step \in StepRecord, ValidStep(step)
    PROVE  /\ step.speed \in Nat /\ step.repeat \in Nat
           /\ step.action \in StepActions
<1>1. step.speed >= 0 /\ step.repeat >= 0 /\ step.action \in StepActions
  BY DEF ValidStep, InRange, Supported, StepActions, HoldActions, PacketActions
<1>2. QED
  BY <1>1, StepTyped

\* The switch of the factory has a case for whatever that of the validation has one for.
LEMMA KindCases ==
    ASSUME NEW step, Supported(step.action)
    PROVE  /\ KindOf(step) = CASE step.action \in HoldActions   -> step.action
                              [] step.action \in PacketActions -> "packet"
                              [] step.action = "wait"          -> "timed"
                              [] OTHER -> IF step.ticks > 0 THEN "timed" ELSE "idle"
           /\ KindOf(step) \in Kinds
           /\ Creatable(step)
<1>1. step.action \in {"idle", "wait", "move", "look", "jump", "chat", "command", "swing"}
  BY DEF Supported
<1>2. QED
  BY <1>1 DEF KindOf, HoldActions, PacketActions, Kinds, Creatable

\* A step that passes the validation makes an action, and the factory knows it.
LEMMA ActionTyped ==
    ASSUME NEW step \in StepRecord, ValidStep(step)
    PROVE  /\ ActionOf(step) \in Actions
           /\ ActionOf(step).elapsed = 0 /\ ~ActionOf(step).sent
           /\ Creatable(step)
<1>1. /\ step.action \in StepActions
      /\ step.ticks \in Int /\ step.forward \in Int /\ step.strafe \in Int
      /\ (IF step.speed = 0 THEN DefaultSpeed ELSE step.speed) \in Nat
  BY StepTyped, ValidRange DEF DefaultSpeed
<1>2. KindOf(step) \in Kinds /\ Creatable(step)
  BY KindCases DEF ValidStep
<1>3. /\ (IF step.yaw = "absent" THEN "heading" ELSE step.yaw) \in {"heading", "own"}
      /\ (IF step.pitch = "absent" THEN "level" ELSE step.pitch) \in {"level", "own"}
  BY StepTyped
<1>4. 0 \in 0..Cooldown
  BY CooldownAssumption
<1>5. QED
  BY <1>1, <1>2, <1>3, <1>4 DEF ActionOf, Actions

LEMMA MoveTyped ==
    ASSUME NEW c \in Controls, NEW x \in Int, NEW y \in Int, NEW v \in Nat,
           NEW yaw \in {"server", "heading", "own"}
    PROVE  [c EXCEPT !.strafe = x, !.forward = y, !.speed = v, !.yaw = yaw] \in Controls
  BY DEF Controls

LEMMA HoldTyped ==
    ASSUME NEW a \in Actions, NEW c \in Controls, IsHold(a)
    PROVE  Hold(a, c) \in Controls /\ Release(a, c) \in Controls
<1>0. /\ a.strafe \in Int /\ a.forward \in Int /\ a.speed \in Nat
      /\ a.yaw \in {"heading", "own"} /\ a.pitch \in {"level", "own"}
  BY DEF Actions
<1>1. CASE a.kind = "move"
  <2>1. [c EXCEPT !.strafe = a.strafe, !.forward = a.forward, !.speed = a.speed, !.yaw = a.yaw]
            \in Controls
    BY <1>0, MoveTyped
  <2>2. [c EXCEPT !.strafe = 0, !.forward = 0, !.speed = 0, !.yaw = "server"] \in Controls
    <3>1. 0 \in Int /\ 0 \in Nat
      OBVIOUS
    <3>2. \A z \in Int : z \in Nat =>
              [c EXCEPT !.strafe = z, !.forward = z, !.speed = z, !.yaw = "server"] \in Controls
      BY MoveTyped
    <3>3. QED
      BY <3>1, <3>2, Zenon
  <2>3. QED
    BY <1>1, <2>1, <2>2 DEF Hold, Release
<1>2. CASE a.kind = "look"
  <2>1. /\ [c EXCEPT !.pitch = a.pitch, !.yaw = a.yaw] \in Controls
        /\ [c EXCEPT !.pitch = "server", !.yaw = "server"] \in Controls
    BY <1>0 DEF Controls
  <2>2. QED
    BY <1>2, <2>1 DEF Hold, Release
<1>3. CASE a.kind = "jump"
  <2>1. [c EXCEPT !.jump = TRUE] \in Controls /\ [c EXCEPT !.jump = FALSE] \in Controls
    BY DEF Controls
  <2>2. QED
    BY <1>3, <2>1 DEF Hold, Release
<1>4. QED
  BY <1>1, <1>2, <1>3 DEF IsHold, HoldActions

LEMMA ControlTyped ==
    ASSUME NEW a \in Actions, NEW c \in Controls
    PROVE  Started(a, c) \in Controls /\ Controlled(a, c) \in Controls
<1>1. Neutral \in Controls
  BY DEF Neutral, Controls
<1>2. CASE IsHold(a)
  <2>1. a.kind \notin {"idle", "packet"}
    BY <1>2 DEF IsHold, HoldActions
  <2>2. /\ Started(a, c) = Hold(a, c)
        /\ Controlled(a, c) = IF Expired(a) THEN Release(a, c) ELSE Hold(a, c)
    BY <1>2, <2>1 DEF Started, Controlled
  <2>3. QED
    BY <1>2, <2>2, HoldTyped
<1>3. CASE a.kind = "packet"
  <2>1. ~IsHold(a) /\ a.kind # "idle"
    BY <1>3 DEF IsHold, HoldActions
  <2>2. Started(a, c) = c /\ Controlled(a, c) = c
    BY <1>3, <2>1 DEF Started, Controlled
  <2>3. QED
    BY <2>2
<1>4. CASE ~IsHold(a) /\ a.kind # "packet"
  <2>1. Controlled(a, c) = Neutral
    BY <1>4 DEF Controlled
  <2>2. Started(a, c) \in {Neutral, c}
    BY <1>4 DEF Started
  <2>3. QED
    BY <1>1, <2>1, <2>2
<1>5. QED
  BY <1>2, <1>3, <1>4

\* An action that is ticked and not done goes on cooling down, if that is what it did.
LEMMA TickedTyped ==
    ASSUME NEW a \in Actions, Cooling(a)
    PROVE  /\ Ticked(a) \in Actions
           /\ Ticked(a).kind = a.kind
           /\ Ticked(a).elapsed <= a.elapsed + 1
           /\ ~IsDone(Ticked(a)) => Cooling(Ticked(a))
<1>0. /\ a.elapsed \in Nat /\ a.elapsed + 1 \in Nat /\ a.cooldown \in 0..Cooldown
      /\ Cooldown \in 0..Cooldown /\ a.kind \in Kinds /\ a.elapsed <= a.elapsed + 1
  BY CooldownAssumption DEF Actions
<1>a. DEFINE over   == [a EXCEPT !.over = TRUE]
             longer == [a EXCEPT !.elapsed = a.elapsed + 1]
             sent   == [a EXCEPT !.sent = TRUE, !.cooldown = Cooldown]
             cooler == [a EXCEPT !.cooldown = a.cooldown - 1]
<1>b. over \in Actions /\ over.kind = a.kind /\ over.elapsed = a.elapsed
  BY DEF Actions
<1>c. longer \in Actions /\ longer.kind = a.kind /\ longer.elapsed = a.elapsed + 1
  BY <1>0 DEF Actions
<1>d. /\ sent \in Actions /\ sent.kind = a.kind /\ sent.elapsed = a.elapsed
      /\ sent.cooldown = Cooldown
  BY <1>0 DEF Actions
<1>1. CASE IsHold(a)
  <2>1. a.kind \notin {"packet", "timed"} /\ ~Writes(a)
    BY <1>1 DEF IsHold, HoldActions, Writes
  <2>2. Ticked(a) = IF Expired(a) THEN over ELSE longer
    BY <1>1, <2>1 DEF Ticked
  <2>3. QED
    BY <1>0, <1>b, <1>c, <2>1, <2>2 DEF Cooling
<1>2. CASE a.kind = "timed"
  <2>1. ~IsHold(a) /\ ~Writes(a)
    BY <1>2 DEF IsHold, HoldActions, Writes
  <2>2. Ticked(a) = longer
    BY <1>2, <2>1 DEF Ticked
  <2>3. QED
    BY <1>0, <1>2, <1>c, <2>2 DEF Cooling
<1>3. CASE a.kind = "packet" /\ ~a.sent
  <2>1. ~IsHold(a) /\ Writes(a) /\ a.kind # "timed"
    BY <1>3 DEF IsHold, HoldActions, Writes
  <2>2. Ticked(a) = sent
    BY <1>3, <2>1 DEF Ticked, CooldownTicks
  <2>3. QED
    BY <1>0, <1>d, <2>2, CooldownAssumption DEF Cooling
<1>4. CASE a.kind = "packet" /\ a.sent
  <2>1. ~IsHold(a) /\ ~Writes(a) /\ a.kind # "timed"
    BY <1>4 DEF IsHold, HoldActions, Writes
  <2>2. Ticked(a) = cooler
    BY <1>4, <2>1 DEF Ticked
  <2>3. a.cooldown - 1 \in 0..Cooldown
    BY <1>0, <1>4, CooldownAssumption DEF Cooling
  <2>4. /\ cooler \in Actions /\ cooler.kind = "packet" /\ cooler.sent
        /\ cooler.cooldown = a.cooldown - 1 /\ cooler.elapsed = a.elapsed
    BY <1>4, <2>3 DEF Actions
  <2>5. cooler.kind \notin HoldActions /\ cooler.kind # "timed"
    BY <2>4 DEF HoldActions
  <2>6. IsDone(cooler) <=> cooler.cooldown = 0
    BY <2>4, <2>5 DEF IsDone, IsHold
  <2>7. QED
    BY <1>0, <1>4, <2>2, <2>3, <2>4, <2>6 DEF Cooling
<1>5. CASE a.kind = "idle"
  <2>1. ~IsHold(a) /\ ~Writes(a)
    BY <1>5 DEF IsHold, HoldActions, Writes
  <2>2. Ticked(a) = a
    BY <1>5, <2>1 DEF Ticked
  <2>3. QED
    BY <1>0, <1>5, <2>2 DEF Cooling
<1>6. QED
  BY <1>0, <1>1, <1>2, <1>3, <1>4, <1>5 DEF Kinds, IsHold

\* The ticks a packet action still keeps the next one waiting.
Left(a) == IF a.kind = "packet" /\ a.sent THEN a.cooldown ELSE 0

\* A tick takes at most one of them, writing starts them all, and an action that is done has
\* none left.
LEMMA CoolingDown ==
    ASSUME NEW a \in Actions, Cooling(a)
    PROVE  /\ Left(a) \in Nat /\ Left(Ticked(a)) \in Nat
           /\ ~Writes(a) => Left(a) <= Left(Ticked(a)) + 1
           /\ Writes(a) => Left(Ticked(a)) = Cooldown /\ ~IsDone(Ticked(a))
           /\ IsDone(Ticked(a)) => Left(Ticked(a)) = 0
<1>0. /\ a.cooldown \in Nat /\ Cooldown \in Nat /\ Cooldown # 0 /\ Ticked(a) \in Actions
      /\ Ticked(a).kind = a.kind
  BY TickedTyped, CooldownAssumption DEF Actions
<1>1. CASE a.kind # "packet"
  BY <1>0, <1>1 DEF Left, Writes
<1>2. CASE a.kind = "packet"
  <2>1. ~IsHold(a) /\ ~IsHold(Ticked(a)) /\ a.kind # "timed"
    BY <1>0, <1>2 DEF IsHold, HoldActions
  <2>2. IsDone(Ticked(a)) <=> Ticked(a).sent /\ Ticked(a).cooldown = 0
    BY <1>0, <1>2, <2>1 DEF IsDone
  <2>3. CASE ~a.sent
    <3>1. Ticked(a) = [a EXCEPT !.sent = TRUE, !.cooldown = Cooldown]
      BY <1>2, <2>1, <2>3 DEF Ticked, CooldownTicks, Writes
    <3>2. Ticked(a).sent /\ Ticked(a).cooldown = Cooldown
      BY <3>1 DEF Actions
    <3>3. QED
      BY <1>0, <1>2, <2>2, <2>3, <3>2 DEF Left, Writes
  <2>4. CASE a.sent
    <3>1. Ticked(a) = [a EXCEPT !.cooldown = a.cooldown - 1]
      BY <1>2, <2>1, <2>4 DEF Ticked, Writes
    <3>2. Ticked(a).sent /\ Ticked(a).cooldown = a.cooldown - 1
      BY <2>4, <3>1 DEF Actions
    <3>3. Ticked(a).cooldown \in Nat
      BY <1>0 DEF Actions
    <3>4. QED
      BY <1>0, <1>2, <2>2, <2>4, <3>2, <3>3 DEF Left, Writes
  <2>5. QED
    BY <2>3, <2>4
<1>3. QED
  BY <1>1, <1>2

-----------------------------------------------------------------------------
(* The inductive invariant. *)

\* What the validation leaves of the script.
ScriptValid ==
    /\ Script \in Seq(StepRecord)
    /\ \A i \in DOMAIN Script : ValidStep(Script[i])

\* Where the runner is in the script, and that a built-in action never ends.
Early == {"args", "settle", "first", "begin"}
Placed ==
    /\ pc = "args" => cfg = NoConfig
    /\ pc \in Early => index = 1 /\ ~done
    /\ Script # <<>> /\ ~done => index \in DOMAIN Script
    /\ Script = <<>> => /\ ~done /\ act.kind \in {"idle", "move"}
                       /\ act.ticks = 0 /\ ~act.over

\* The types of the variables, with what the proofs need of the action.
Typed ==
    /\ command \in Commands
    /\ pc \in {"args", "rejected", "settle", "first", "begin", "ticker", "frame", "returned"}
    /\ done \in BOOLEAN /\ teleport \in BOOLEAN /\ ctxDone \in BOOLEAN /\ lastJump \in BOOLEAN
    /\ index \in Nat \ {0} /\ repeat \in Nat
    /\ act \in Actions /\ Cooling(act) /\ act.elapsed <= clock
    /\ control \in Controls
    /\ err \in {"none", "packet", "frame"}
    /\ clock \in 0..MaxTicks /\ lastWrite \in 0..clock
    /\ ended \in Kinds \cup {"none"}

RunInv == ScriptValid /\ Placed /\ Typed

LEMMA NoScript ==
    /\ Neutral \in Controls
    /\ ActionOf(AnyStep) \in Actions /\ ActionOf(AnyStep).elapsed = 0
    /\ ~ActionOf(AnyStep).sent /\ ~ActionOf(AnyStep).over
    /\ ActionOf(AnyStep).kind = "idle" /\ ActionOf(AnyStep).ticks = 0
    /\ AnyStep \in StepRecord
<1>1. Neutral \in Controls
  BY DEF Neutral, Controls
<1>2. AnyStep \in StepRecord
  <2>1. "idle" \in StepActions /\ 0 \in Int
    BY DEF StepActions
  <2>2. \A name \in StepActions, z \in Int :
            [action |-> name, ticks |-> z, repeat |-> z, forward |-> z, strafe |-> z,
             speed |-> z, yaw |-> "absent", pitch |-> "absent", text |-> FALSE] \in StepRecord
    BY DEF StepRecord
  <2>3. QED
    BY <2>1, <2>2, Zenon DEF AnyStep
<1>3. ValidStep(AnyStep)
  BY DEF AnyStep, ValidStep, Supported, StepActions, HoldActions, PacketActions, InRange,
         HasArguments
<1>4. /\ ~ActionOf(AnyStep).over /\ ActionOf(AnyStep).ticks = 0
      /\ ActionOf(AnyStep).kind = "idle"
  BY DEF ActionOf, KindOf, AnyStep
<1>5. QED
  BY <1>1, <1>2, <1>3, <1>4, ActionTyped

LEMMA MoveKind ==
    ASSUME NEW step, step.action = "move"
    PROVE  ~ActionOf(step).over /\ ActionOf(step).ticks = step.ticks /\ ActionOf(step).kind = "move"
  BY DEF ActionOf, KindOf

LEMMA BuiltInTyped ==
    ASSUME NEW name
    PROVE  /\ BuiltInAction(name) \in Actions
           /\ BuiltInAction(name).elapsed = 0 /\ ~BuiltInAction(name).sent
           /\ BuiltInAction(name).kind \in {"idle", "move"}
           /\ BuiltInAction(name).ticks = 0 /\ ~BuiltInAction(name).over
<1> DEFINE step == [AnyStep EXCEPT !.action = "move", !.forward = 1]
<1>1. /\ step \in StepRecord /\ step.action = "move" /\ step.forward = 1 /\ step.ticks = 0
      /\ step.repeat = 0 /\ step.speed = 0 /\ step.strafe = 0
  <2>1. "move" \in StepActions /\ 1 \in Int
    BY DEF StepActions, HoldActions
  <2>2. AnyStep \in StepRecord
    BY NoScript
  <2>3. \A verb \in StepActions, z \in Int :
            [AnyStep EXCEPT !.action = verb, !.forward = z] \in StepRecord
    BY <2>2 DEF StepRecord
  <2>4. step \in StepRecord
    BY <2>1, <2>3, Zenon
  <2>5. QED
    BY <2>4 DEF AnyStep
<1>2. ValidStep(step)
  BY <1>1 DEF ValidStep, Supported, StepActions, HoldActions, PacketActions, InRange,
              HasArguments
<1>3. /\ ~ActionOf(step).over /\ ActionOf(step).ticks = 0
      /\ ActionOf(step).kind = "move"
  BY <1>1, MoveKind
<1>4. ActionOf(step) \in Actions /\ ActionOf(step).elapsed = 0 /\ ~ActionOf(step).sent
  BY <1>1, <1>2, ActionTyped
<1>5. CASE name = "chunk-walk"
  <2>1. BuiltInAction(name) = ActionOf(step)
    BY <1>5 DEF BuiltInAction
  <2>2. QED
    BY <1>3, <1>4, <2>1
<1>6. CASE name # "chunk-walk"
  <2>1. BuiltInAction(name) = ActionOf(AnyStep)
    BY <1>6 DEF BuiltInAction
  <2>2. QED
    BY <2>1, NoScript
<1>7. QED
  BY <1>5, <1>6

\* The action of an accepted step replaces the current one, and the factory does not fail.
LEMMA ReplaceTyped ==
    ASSUME ScriptValid, NEW i \in DOMAIN Script, NEW c \in Controls, NEW next,
           Replace(i, c, next)
    PROVE  /\ act' \in Actions /\ act'.elapsed = 0 /\ ~act'.sent
           /\ control' \in Controls
           /\ pc' = next /\ err' = err
<1>1. Script[i] \in StepRecord /\ ValidStep(Script[i])
  BY DEF ScriptValid
<1>2. /\ ActionOf(Script[i]) \in Actions
      /\ ActionOf(Script[i]).elapsed = 0 /\ ~ActionOf(Script[i]).sent
      /\ Creatable(Script[i])
  BY <1>1, ActionTyped
<1>3. /\ act' = ActionOf(Script[i]) /\ control' = Started(act', c)
      /\ pc' = next /\ err' = err
  BY <1>2 DEF Replace, Fresh
<1>4. QED
  BY <1>2, <1>3, ControlTyped

LEMMA RepetitionsTyped ==
    ASSUME ScriptValid, NEW i \in DOMAIN Script
    PROVE  Repetitions(Script[i]) \in Nat
<1>1. Script[i] \in StepRecord /\ ValidStep(Script[i])
  BY DEF ScriptValid
<1>2. QED
  BY <1>1, ValidRange DEF Repetitions

LEMMA RunInit == Init => RunInv
<1> SUFFICES ASSUME Init PROVE RunInv
  OBVIOUS
<1>2. Script = <<>> /\ index = 1 /\ ~done /\ act = ActionOf(AnyStep) /\ cfg = NoConfig
  BY DEF Init, Script, NoConfig
<1>1. ScriptValid
  BY <1>2 DEF ScriptValid
<1>3. Placed
  BY <1>2, NoScript DEF Placed
<1>4. Typed
  <2>1. act \in Actions /\ Cooling(act) /\ act.elapsed = 0 /\ control \in Controls
    BY <1>2, NoScript DEF Init, Cooling
  <2>2. /\ done \in BOOLEAN /\ teleport \in BOOLEAN /\ ctxDone \in BOOLEAN
        /\ lastJump \in BOOLEAN
    BY DEF Init
  <2>3. clock = 0 /\ lastWrite = 0 /\ index = 1 /\ repeat = 0
    BY DEF Init
  <2>4. clock \in 0..MaxTicks /\ lastWrite \in 0..clock /\ act.elapsed <= clock
    BY <2>1, <2>3, MaxTicksAssumption
  <2>5. pc = "args" /\ err = "none" /\ ended = "none" /\ command \in Commands
    BY DEF Init
  <2>6. QED
    BY <2>1, <2>2, <2>3, <2>4, <2>5 DEF Typed
<1>5. QED
  BY <1>1, <1>3, <1>4 DEF RunInv

\* A built-in action goes on.
LEMMA BuiltInGoesOn ==
    ASSUME NEW a \in Actions, a.kind \in {"idle", "move"}, a.ticks = 0, ~a.over
    PROVE  LET t == Ticked(a) IN
           ~IsDone(t) /\ t.kind \in {"idle", "move"} /\ t.ticks = 0 /\ ~t.over
<1>1. ~Expired(a) /\ ~Writes(a)
  BY DEF Expired, Writes
<1>2. CASE a.kind = "idle"
  <2>1. a.kind \notin HoldActions
    BY <1>2 DEF HoldActions
  <2>2. Ticked(a) = a
    BY <1>1, <1>2, <2>1 DEF Ticked, IsHold
  <2>3. ~IsDone(a)
    BY <1>2, <2>1 DEF IsDone, IsHold
  <2>4. QED
    BY <2>2, <2>3
<1>3. CASE a.kind = "move"
  <2>1. a.kind \in HoldActions
    BY <1>3 DEF HoldActions
  <2>2. Ticked(a) = [a EXCEPT !.elapsed = a.elapsed + 1]
    BY <1>1, <1>3, <2>1 DEF Ticked, IsHold
  <2>3. Ticked(a).kind = "move" /\ Ticked(a).ticks = 0 /\ ~Ticked(a).over
    BY <1>3, <2>2 DEF Actions
  <2>4. ~IsDone(Ticked(a))
    BY <2>1, <2>3, <1>3 DEF IsDone, IsHold
  <2>5. QED
    BY <2>3, <2>4
<1>4. QED
  BY <1>2, <1>3

LEMMA ParseStep == RunInv /\ Parse => RunInv'
<1> SUFFICES ASSUME RunInv, Parse PROVE RunInv'
  OBVIOUS
<1>0. pc = "args" /\ command \in Commands /\ Placed
  BY DEF RunInv, Parse, Typed
<1>1. /\ cfg = NoConfig /\ index = 1 /\ ~done /\ command \in Commands
      /\ act.kind \in {"idle", "move"} /\ act.ticks = 0 /\ ~act.over
  <2>1. cfg = NoConfig /\ index = 1 /\ ~done
    BY <1>0 DEF Placed, Early
  <2>2. Script = <<>>
    BY <2>1 DEF Script, NoConfig
  <2>3. QED
    BY <1>0, <2>1, <2>2 DEF Placed
<1>2. UNCHANGED <<command, index, repeat, act, done, control, lastJump, teleport, ctxDone, err,
                  clock, lastWrite, ended>>
  BY DEF Parse, runnerVars, ghostVars
<1>3. CASE Accepted(command)
  <2>1. Script' = command.file.steps /\ command.file.steps \in Seq(StepRecord)
    BY <1>1, <1>3, CommandsAssumption DEF Parse, ParsedConfig, Script
  <2>2. pc' \in {"settle", "first", "begin"}
    BY <1>3 DEF Parse
  <2>3. \A i \in DOMAIN command.file.steps : ValidStep(command.file.steps[i])
    <3>1. CASE command.file = NoFile
      <4>1. NoFile.steps = <<>>
        BY DEF NoFile
      <4>2. command.file.steps = <<>>
        BY <3>1, <4>1, Zenon
      <4>3. QED
        BY <4>2
    <3>2. CASE command.file # NoFile
      <4>1. ScenarioFits(command)
        BY <1>3, Zenon DEF Accepted
      <4>2. QED
        BY <3>2, <4>1, Zenon DEF ScenarioFits, ValidFile
    <3>3. QED
      BY <3>1, <3>2
  <2>4. ScriptValid'
    BY <2>1, <2>3 DEF ScriptValid
  <2>5. Script' # <<>> => 1 \in DOMAIN Script'
    BY <2>1
  <2>6. Placed'
    BY <1>1, <1>2, <2>2, <2>5 DEF Placed, Early
  <2>7. Typed'
    BY <1>2, <2>2 DEF RunInv, Typed, Cooling
  <2>8. QED
    BY <2>4, <2>6, <2>7 DEF RunInv
<1>4. CASE ~Accepted(command)
  <2>1. pc' = "rejected" /\ Script' = Script /\ Script = <<>>
    BY <1>1, <1>4 DEF Parse, Script, NoConfig
  <2>2. ScriptValid' /\ Placed'
    BY <1>1, <1>2, <2>1 DEF ScriptValid, Placed, Early
  <2>3. Typed'
    BY <1>2, <2>1 DEF RunInv, Typed, Cooling
  <2>4. QED
    BY <2>2, <2>3 DEF RunInv
<1>5. QED
  BY <1>3, <1>4

LEMMA BeginStep == RunInv /\ Begin => RunInv'
<1> SUFFICES ASSUME RunInv, Begin PROVE RunInv'
  OBVIOUS
<1>1. /\ UNCHANGED <<command, cfg, index, done, lastJump, teleport, ctxDone, clock, ended,
                      lastWrite>>
      /\ pc = "begin" /\ index = 1 /\ ~done
  BY DEF RunInv, Begin, Placed, Early
<1>2. ScriptValid' /\ Script' = Script
  BY <1>1 DEF RunInv, ScriptValid, Script
<1>3. act \in Actions /\ control \in Controls /\ repeat \in Nat /\ err \in {"none", "packet", "frame"}
  BY DEF RunInv, Typed
<1>4. CASE Script = <<>>
  <2>1. /\ act' = BuiltInAction(cfg.scenario) /\ control' = Started(act', control)
        /\ pc' = "ticker" /\ repeat' = repeat /\ err' = err
    BY <1>4 DEF Begin
  <2>2. /\ act' \in Actions /\ act'.elapsed = 0 /\ ~act'.sent
        /\ act'.kind \in {"idle", "move"} /\ act'.ticks = 0 /\ ~act'.over
    BY <2>1, BuiltInTyped
  <2>3. control' \in Controls
    BY <1>3, <2>1, <2>2, ControlTyped
  <2>4. Placed'
    BY <1>1, <1>2, <1>4, <2>1, <2>2 DEF Placed, Early
  <2>5. Typed'
    BY <1>1, <1>3, <2>1, <2>2, <2>3 DEF RunInv, Typed, Cooling
  <2>6. QED
    BY <1>2, <2>4, <2>5 DEF RunInv
<1>5. CASE Script # <<>>
  <2>1. 1 \in DOMAIN Script
    BY <1>5, <1>2 DEF RunInv, ScriptValid
  <2>2. repeat' = Repetitions(Script[1]) /\ Replace(1, control, "ticker")
    BY <1>5 DEF Begin
  <2>3. /\ act' \in Actions /\ act'.elapsed = 0 /\ ~act'.sent /\ control' \in Controls
        /\ pc' = "ticker" /\ err' = err /\ repeat' \in Nat
    BY <1>3, <2>1, <2>2, ReplaceTyped, RepetitionsTyped DEF RunInv
  <2>4. Placed'
    BY <1>1, <1>2, <1>5, <2>1, <2>3 DEF Placed, Early
  <2>5. Typed'
    BY <1>1, <1>3, <2>3 DEF RunInv, Typed, Cooling
  <2>6. QED
    BY <1>2, <2>4, <2>5 DEF RunInv
<1>6. QED
  BY <1>4, <1>5

\* A tick of the runner: the action goes on, is repeated, is followed by the next step's, is
\* the last, or fails to write its packet.
LEMMA TickStep == RunInv /\ RunnerTick => RunInv'
<1> SUFFICES ASSUME RunInv, RunnerTick PROVE RunInv'
  OBVIOUS
<1> DEFINE t == Ticked(act)
           c == Controlled(act, control)
<1>1. /\ UNCHANGED <<command, cfg, lastJump, teleport, ctxDone>>
      /\ pc = "ticker" /\ clock < MaxTicks /\ clock' = clock + 1
  BY DEF RunnerTick
<1>2. ScriptValid' /\ Script' = Script /\ ScriptValid
  BY <1>1 DEF RunInv, ScriptValid, Script
<1>3. /\ act \in Actions /\ Cooling(act) /\ act.elapsed \in Nat /\ act.elapsed <= clock
      /\ act.kind \in Kinds
      /\ control \in Controls /\ repeat \in Nat /\ index \in Nat \ {0} /\ done \in BOOLEAN
      /\ clock \in Nat /\ clock' \in 0..MaxTicks /\ err \in {"none", "packet", "frame"}
      /\ lastWrite \in 0..clock /\ clock' = clock + 1
  BY <1>1, MaxTicksAssumption DEF RunInv, Typed, Actions
<1>4. c \in Controls
  BY <1>3, ControlTyped
<1>5. lastWrite' \in 0..clock' /\ ended' \in Kinds \cup {"none"}
  <2>1. lastWrite' \in {lastWrite, clock'}
    BY <1>1 DEF RunnerTick
  <2>2. ended' \in {ended, act.kind, "none"}
    BY <1>1 DEF RunnerTick
  <2>3. ended \in Kinds \cup {"none"}
    BY DEF RunInv, Typed
  <2>4. lastWrite' \in 0..clock'
    BY <1>3, <2>1
  <2>5. QED
    BY <1>3, <2>2, <2>3, <2>4
<1>6. CASE done
  <2>1. /\ UNCHANGED <<index, repeat, act, done, control, err>> /\ pc' = "frame"
    BY <1>6 DEF RunnerTick, runnerVars
  <2>2. Placed'
    BY <1>2, <1>6, <2>1 DEF RunInv, Placed, Early
  <2>3. Typed'
    BY <1>1, <1>3, <1>5, <2>1 DEF RunInv, Typed
  <2>4. QED
    BY <1>2, <2>2, <2>3 DEF RunInv
<1>7. CASE /\ ~done /\ ~IsDone(t)
           /\ act' = t /\ control' = c /\ pc' = "frame"
           /\ UNCHANGED <<index, repeat, done, err>>
  <2>1. act' = t /\ control' = c /\ UNCHANGED <<index, repeat, done, err>>
    BY <1>7
  <2>2. /\ t \in Actions /\ Cooling(t) /\ t.kind = act.kind /\ t.elapsed \in Nat
        /\ t.elapsed <= act.elapsed + 1
    BY <1>3, <1>7, TickedTyped DEF Actions
  <2>3. Script = <<>> => t.kind \in {"idle", "move"} /\ t.ticks = 0 /\ ~t.over
    BY <1>3, BuiltInGoesOn DEF RunInv, Placed
  <2>4. Placed'
    BY <1>2, <1>7, <2>1, <2>3 DEF RunInv, Placed, Early
  <2>5. act'.elapsed <= clock'
    BY <1>3, <2>1, <2>2
  <2>6. Typed'
    BY <1>1, <1>3, <1>4, <1>5, <1>7, <2>1, <2>2, <2>5 DEF RunInv, Typed
  <2>7. QED
    BY <1>2, <2>4, <2>6 DEF RunInv
<1>8. CASE ~done /\ IsDone(t) /\ Advance(c)
  <2>1. Advance(c)
    BY <1>8
  <2>2. Script # <<>> /\ index \in DOMAIN Script /\ DOMAIN Script = 1..Len(Script)
        /\ Len(Script) \in Nat
    <3>1. Script # <<>>
      BY <1>3, <1>8, BuiltInGoesOn DEF RunInv, Placed
    <3>2. QED
      BY <1>2, <1>8, <3>1 DEF RunInv, Placed, ScriptValid
  <2>3. CASE RepeatsLeft
    <3>1. repeat' = repeat - 1 /\ Replace(index, c, "frame") /\ UNCHANGED <<index, done>>
      BY <2>1, <2>3 DEF Advance
    <3>2. repeat' \in Nat
      BY <1>3, <2>3, <3>1 DEF RepeatsLeft
    <3>3. /\ act' \in Actions /\ act'.elapsed = 0 /\ ~act'.sent /\ control' \in Controls
          /\ err' = err /\ pc' = "frame"
      BY <1>2, <1>4, <2>2, <3>1, ReplaceTyped
    <3>4. Placed'
      BY <1>2, <1>8, <2>2, <3>1, <3>3 DEF Placed, Early
    <3>5. Typed'
      BY <1>1, <1>3, <1>5, <1>8, <3>1, <3>2, <3>3 DEF RunInv, Typed, Cooling
    <3>6. QED
      BY <1>2, <3>4, <3>5 DEF RunInv
  <2>4. CASE ~RepeatsLeft /\ index = Len(Script)
    <3>1. /\ index' = index + 1 /\ done' = TRUE /\ control' = c /\ pc' = "frame"
          /\ UNCHANGED <<repeat, act, err>>
      BY <2>1, <2>4 DEF Advance
    <3>2. Placed'
      BY <1>2, <1>8, <2>2, <3>1 DEF Placed, Early
    <3>3. index' \in Nat \ {0} /\ act'.elapsed <= clock'
      BY <1>3, <3>1
    <3>4. Typed'
      BY <1>1, <1>3, <1>4, <1>5, <1>8, <3>1, <3>3 DEF RunInv, Typed, Cooling
    <3>5. QED
      BY <1>2, <3>2, <3>4 DEF RunInv
  <2>5. CASE ~RepeatsLeft /\ index # Len(Script)
    <3>1. /\ index' = index + 1 /\ done' = done
          /\ repeat' = Repetitions(Script[index + 1]) /\ Replace(index + 1, c, "frame")
      BY <2>1, <2>5 DEF Advance
    <3>2. index + 1 \in DOMAIN Script /\ index + 1 \in Nat \ {0}
      <4>1. index \in 1..Len(Script) /\ index # Len(Script) /\ Len(Script) \in Nat
        BY <2>2, <2>5
      <4>2. index + 1 \in 1..Len(Script) /\ index + 1 \in Nat \ {0}
        BY <1>3, <4>1
      <4>3. QED
        BY <2>2, <4>2
    <3>3. /\ act' \in Actions /\ act'.elapsed = 0 /\ ~act'.sent /\ control' \in Controls
          /\ err' = err /\ repeat' \in Nat /\ pc' = "frame"
      BY <1>2, <1>4, <3>1, <3>2, ReplaceTyped, RepetitionsTyped
    <3>4. Placed'
      BY <1>2, <1>8, <2>2, <3>1, <3>2, <3>3 DEF Placed, Early
    <3>5. Typed'
      BY <1>1, <1>3, <1>5, <1>8, <3>1, <3>2, <3>3 DEF RunInv, Typed, Cooling
    <3>6. QED
      BY <1>2, <3>4, <3>5 DEF RunInv
  <2>6. QED
    BY <2>3, <2>4, <2>5
<1>9. CASE /\ ~done /\ err' = "packet" /\ pc' = "returned"
           /\ UNCHANGED <<index, repeat, act, done, control>>
  <2>1. /\ err' = "packet" /\ pc' = "returned"
        /\ UNCHANGED <<index, repeat, act, done, control>>
    BY <1>9
  <2>2. Placed'
    BY <1>2, <1>9, <2>1 DEF RunInv, Placed, Early
  <2>3. Typed'
    BY <1>1, <1>3, <1>5, <2>1 DEF RunInv, Typed
  <2>4. QED
    BY <1>2, <2>2, <2>3 DEF RunInv
<1>10. QED
  BY <1>3, <1>6, <1>7, <1>8, <1>9 DEF RunnerTick, runnerVars

LEMMA RunStutter == RunInv /\ UNCHANGED vars => RunInv'
  BY DEF RunInv, ScriptValid, Placed, Typed, Script, Cooling, Early, vars, runnerVars, ghostVars

\* What the other steps of the goroutines leave alone.
Aside == <<command, cfg, index, repeat, act, done, control, clock, ended, lastWrite>>

LEMMA AsideStep ==
    ASSUME RunInv, UNCHANGED Aside,
           pc' \in {pc, "begin", "ticker", "returned"}, pc' = "begin" => pc \in Early,
           pc \in {"args", "rejected"} => pc' = pc,
           lastJump' \in BOOLEAN, teleport' \in BOOLEAN, ctxDone' \in BOOLEAN,
           err' \in {"none", "packet", "frame"}
    PROVE  RunInv'
<1>1. ScriptValid' /\ Script' = Script
  BY DEF RunInv, ScriptValid, Script, Aside
<1>2. Placed'
  BY <1>1 DEF RunInv, Placed, Early, Aside
<1>3. Typed'
  BY DEF RunInv, Typed, Cooling, Aside
<1>4. QED
  BY <1>1, <1>2, <1>3 DEF RunInv

LEMMA RunStep == RunInv /\ [Next]_vars => RunInv'
<1> SUFFICES ASSUME RunInv, [Next]_vars PROVE RunInv'
  OBVIOUS
<1>1. /\ lastJump \in BOOLEAN /\ teleport \in BOOLEAN /\ ctxDone \in BOOLEAN
      /\ err \in {"none", "packet", "frame"}
  BY DEF RunInv, Typed
<1>2. CASE Parse
  BY <1>2, ParseStep
<1>3. CASE Settle
  BY <1>1, <1>3, AsideStep DEF Settle, Aside, Early, runnerVars, ghostVars
<1>4. CASE Begin
  BY <1>4, BeginStep
<1>5. CASE RunnerTick
  BY <1>5, TickStep
<1>6. CASE SendFrame
  <2>1. UNCHANGED Aside /\ pc \in {"first", "frame"} /\ ctxDone' = ctxDone
    BY <1>6 DEF SendFrame, Aside, runnerVars
  <2>2. /\ pc' \in {"begin", "ticker", "returned"} /\ (pc' = "begin" => pc = "first")
        /\ err' \in {"none", "packet", "frame"}
    BY <1>1, <1>6 DEF SendFrame
  <2>3. teleport' = FALSE /\ lastJump' = (control.jump /\ ~teleport)
    BY <1>6 DEF SendFrame, LastJump
  <2>4. lastJump' \in BOOLEAN
    BY <2>3
  <2>5. QED
    BY <1>1, <2>1, <2>2, <2>3, <2>4, AsideStep DEF Early
<1>7. CASE SeeCancel
  BY <1>1, <1>7, AsideStep DEF SeeCancel, Aside, Early, runnerVars, ghostVars
<1>8. CASE Teleport
  BY <1>1, <1>8, AsideStep DEF Teleport, Aside, Early, Running, runnerVars, ghostVars
<1>9. CASE Cancel
  BY <1>1, <1>9, AsideStep DEF Cancel, Aside, Early, Running, runnerVars, ghostVars
<1>10. CASE Over \/ UNCHANGED vars
  BY <1>10, RunStutter DEF Over
<1>11. QED
  BY <1>2, <1>3, <1>4, <1>5, <1>6, <1>7, <1>8, <1>9, <1>10 DEF Next, TickLoop

LEMMA RunInvariant == Spec => []RunInv
  BY RunInit, RunStep, PTL DEF Spec

-----------------------------------------------------------------------------
(* Theorems. *)

\* Every variable keeps its type, for every script that is accepted: TypeOK.
THEOREM TypeCorrect == Spec => []TypeOK
<1>1. RunInv => TypeOK
  <2> SUFFICES ASSUME RunInv PROVE TypeOK
    OBVIOUS
  <2>1. Typed /\ act \in Actions /\ control \in Controls
    BY DEF RunInv, Typed
  <2>2. Flags \subseteq BOOLEAN
    BY <2>1 DEF Typed, Flags, Controls
  <2>3. /\ act.kind \in Kinds /\ act.elapsed \in Nat /\ act.cooldown \in 0..Cooldown
        /\ control.speed \in Nat /\ control.yaw \in {"server", "heading", "own"}
        /\ control.pitch \in {"server", "level", "own"}
    BY <2>1 DEF Actions, Controls
  <2>4. act.elapsed \in 0..MaxTicks
    BY <2>1, <2>3, MaxTicksAssumption DEF Typed
  <2>5. QED
    BY <2>1, <2>2, <2>3, <2>4 DEF Typed, TypeOK
<1>2. QED
  BY <1>1, RunInvariant, PTL

\* The factory creates an action for every step that validation lets through, however often
\* and in whichever order they run: AcceptedRuns.
THEOREM FactoryCorrect == Spec => []AcceptedRuns
<1>1. RunInv => AcceptedRuns
  BY DEF RunInv, Typed, AcceptedRuns
<1>2. QED
  BY <1>1, RunInvariant, PTL

\* The bot remembers the jump of its last frame, and of no other.
JumpKept == frame.jumping \in BOOLEAN /\ lastJump = frame.jumping

LEMMA FrameStep ==
    ASSUME JumpKept, SendFrame
    PROVE  JumpKept' /\ FlagsPair(frame, frame')
<1> DEFINE jumping == control.jump /\ ~teleport
<1>1. /\ frame'.jumping = jumping /\ lastJump' = jumping
      /\ frame'.pressed = (jumping /\ ~lastJump) /\ frame'.released = (~jumping /\ lastJump)
  BY DEF SendFrame, LastJump
<1>2. JumpKept'
  BY <1>1 DEF JumpKept
<1>3. FlagsPair(frame, frame')
  BY <1>1 DEF JumpKept, FlagsPair
<1>4. QED
  BY <1>2, <1>3

\* Press and release flags alternate from frame to frame for every script and whenever
\* teleports come: JumpFlagsPair.
THEOREM JumpsCorrect == Spec => JumpFlagsPair
<1>1. Init => JumpKept
  <2>1. NoFrame.jumping = FALSE
    BY DEF NoFrame
  <2>2. QED
    BY <2>1 DEF Init, JumpKept
<1>2. JumpKept /\ [Next]_vars => JumpKept'
  <2> SUFFICES ASSUME JumpKept, [Next]_vars PROVE JumpKept'
    OBVIOUS
  <2>1. CASE SendFrame
    BY <2>1, FrameStep
  <2>2. CASE ~SendFrame
    <3>1. frame' = frame /\ lastJump' = lastJump
      BY <2>2 DEF Next, Parse, TickLoop, Settle, Begin, RunnerTick, SeeCancel, Teleport, Cancel,
                  Over, vars, ghostVars
    <3>2. QED
      BY <3>1 DEF JumpKept
  <2>3. QED
    BY <2>1, <2>2
<1>3. JumpKept /\ [Next]_vars =>
          [pc' # pc /\ pc \in {"first", "frame"} => FlagsPair(frame, frame')]_vars
  <2> SUFFICES ASSUME JumpKept, [Next]_vars, pc' # pc, pc \in {"first", "frame"}
               PROVE  FlagsPair(frame, frame')
    OBVIOUS
  <2>1. SendFrame
    BY DEF Next, Parse, TickLoop, Settle, Begin, RunnerTick, SeeCancel, Teleport, Cancel, Over,
           vars
  <2>2. QED
    BY <2>1, FrameStep
<1>4. QED
  BY <1>1, <1>2, <1>3, PTL DEF Spec, JumpFlagsPair

\* The last packet is as old as the cooldown, but for the ticks that are left of it.
Waited ==
    /\ pc \in Early => written = <<>>
    /\ written # <<>> => clock - lastWrite + Left(act) >= Cooldown

LEMMA ReplacedRested ==
    ASSUME NEW i, NEW c, NEW next, Replace(i, c, next)
    PROVE  act' = act \/ Left(act') = 0
<1>1. CASE Creatable(Script[i])
  <2>1. act' = ActionOf(Script[i])
    BY <1>1 DEF Replace, Fresh
  <2>2. ~act'.sent
    BY <2>1 DEF ActionOf
  <2>3. QED
    BY <2>2 DEF Left
<1>2. CASE ~Creatable(Script[i])
  BY <1>2 DEF Replace
<1>3. QED
  BY <1>1, <1>2

\* An action that is replaced has none left; one that stays counts down with the clock.
LEMMA WaitedTick ==
    ASSUME RunInv, Waited, RunnerTick
    PROVE  /\ Waited'
           /\ written' # written => written = <<>> \/ lastWrite' - lastWrite > Cooldown
<1> DEFINE t == Ticked(act)
           c == Controlled(act, control)
<1>1. /\ act \in Actions /\ Cooling(act) /\ control \in Controls /\ c \in Controls
      /\ clock \in Nat /\ lastWrite \in Nat /\ clock' = clock + 1
      /\ Cooldown \in Nat /\ Cooldown # 0
  BY ControlTyped, CooldownAssumption, MaxTicksAssumption DEF RunInv, Typed, RunnerTick
<1>2. /\ Left(act) \in Nat /\ Left(t) \in Nat
      /\ ~Writes(act) => Left(act) <= Left(t) + 1
      /\ Writes(act) => Left(act) = 0 /\ Left(t) = Cooldown /\ ~IsDone(t)
      /\ IsDone(t) => Left(t) = 0
  BY <1>1, CoolingDown DEF Left, Writes
<1>a. pc' \notin Early
  BY DEF RunnerTick, Advance, Replace, Early
<1>3. CASE ~done /\ Writes(act) /\ act' = t /\ lastWrite' = clock'
  BY <1>a, <1>1, <1>2, <1>3 DEF Waited
<1>4. CASE UNCHANGED <<act, written, lastWrite>>
  BY <1>a, <1>1, <1>2, <1>4 DEF Waited
<1>5. CASE ~Writes(act) /\ act' = t /\ UNCHANGED <<written, lastWrite>>
  BY <1>a, <1>1, <1>2, <1>5 DEF Waited
<1>6. CASE IsDone(t) /\ Advance(c) /\ UNCHANGED <<written, lastWrite>>
  <2>1. act' = act \/ Left(act') = 0
    BY <1>6, ReplacedRested DEF Advance
  <2>2. Left(act) <= 1
    BY <1>2, <1>6
  <2>3. QED
    BY <1>a, <1>1, <1>2, <1>6, <2>1, <2>2 DEF Waited
<1>7. QED
  <2>1. CASE done
    BY <1>4, <2>1 DEF RunnerTick, runnerVars
  <2>2. CASE ~done /\ err' = "packet" /\ UNCHANGED <<runnerVars, written, lastWrite>>
    BY <1>4, <2>2 DEF runnerVars
  <2>3. CASE /\ ~done
             /\ IF Writes(act) THEN lastWrite' = clock' ELSE UNCHANGED <<written, lastWrite>>
             /\ IF IsDone(t) THEN Advance(c) ELSE act' = t
    BY <1>2, <1>3, <1>5, <1>6, <2>3
  <2>4. QED
    BY <2>1, <2>2, <2>3 DEF RunnerTick

\* Two packets are more than a cooldown apart, whichever steps and repetitions they come
\* from: PacketsSpaced.
THEOREM PacketsCorrect == Spec => PacketsSpaced
<1>1. Init => Waited
  BY DEF Init, Waited
<1>2. RunInv /\ Waited /\ [Next]_vars =>
          /\ Waited'
          /\ [written' # written => written = <<>> \/ lastWrite' - lastWrite > Cooldown]_vars
  <2> SUFFICES ASSUME RunInv, Waited, [Next]_vars
               PROVE  /\ Waited'
                      /\ written' # written => written = <<>> \/ lastWrite' - lastWrite > Cooldown
    OBVIOUS
  <2>1. CASE RunnerTick
    BY <2>1, WaitedTick
  <2>2. CASE Begin
    <3>1. pc \in Early /\ written' = written
      BY <2>2 DEF Begin, Early
    <3>2. QED
      BY <3>1 DEF Waited
  <2>3. CASE ~RunnerTick /\ ~Begin
    <3>1. UNCHANGED <<act, clock, written, lastWrite>>
      BY <2>3 DEF Next, Parse, TickLoop, Settle, SendFrame, SeeCancel, Teleport, Cancel,
                  Over, vars, runnerVars, ghostVars
    <3>2. pc' \in Early => pc \in Early
      BY <2>3 DEF Next, Parse, TickLoop, Settle, SendFrame, SeeCancel, Teleport, Cancel,
                  Over, vars, Early
    <3>3. QED
      BY <3>1, <3>2 DEF Waited
  <2>4. QED
    BY <2>1, <2>2, <2>3
<1>3. QED
  BY <1>1, <1>2, RunInvariant, PTL DEF Spec, PacketsSpaced

-----------------------------------------------------------------------------
(* What a script says. *)

\* Scripts the validation lets through.
Runnable(script) ==
    /\ script \in Seq(StepRecord)
    /\ \A i \in DOMAIN script : ValidStep(script[i])

\* Runs of a step take part in the script's time.
LEMMA StepLasts ==
    ASSUME NEW step \in StepRecord, ValidStep(step)
    PROVE  /\ Times(step) \in Nat \ {0} /\ Repetitions(step) = Times(step)
           /\ step.ticks \in Nat
           /\ Length(step) \in Nat \ {0}
<1>1. step.ticks \in Nat /\ step.repeat \in Nat
  <2>1. step.ticks >= 0 /\ step.repeat >= 0
    BY DEF ValidStep, InRange
  <2>2. QED
    BY <2>1, StepTyped
<1>2. Times(step) \in Nat \ {0} /\ Repetitions(step) = Times(step)
  BY <1>1 DEF Times, Repetitions
<1>3. Cooldown + 1 \in Nat \ {0} /\ Forever \in Nat \ {0}
  BY CooldownAssumption, MaxTicksAssumption DEF Forever
<1>4. step.ticks = 0 \/ (step.ticks \in Nat \ {0} /\ step.ticks + 1 \in Nat \ {0})
  BY <1>1
<1>5. Length(step) \in Nat \ {0}
  BY <1>3, <1>4 DEF Length
<1>6. QED
  BY <1>1, <1>2, <1>5

\* The executions of one step are a sequence of its index.
LEMMA CopiesTyped ==
    ASSUME NEW S, NEW i \in S, NEW n \in Nat
    PROVE  /\ Copies(i, n) \in Seq(S) /\ Len(Copies(i, n)) = n
           /\ \A k \in 1..n : Copies(i, n)[k] = i
  BY DEF Copies

\* The executions of the steps one after the other, in the way of a loop over the steps.
RunsTrace(g, script) ==
    /\ g \in [0..Len(script) -> Seq(DOMAIN script)] /\ g[0] = <<>>
    /\ \A n \in 1..Len(script) : g[n] = g[n - 1] \o Copies(n, Times(script[n]))
    /\ \A n \in 0..Len(script) : ExecutionsOf(script, n) = g[n]

\* The recursion over the steps can be unfolded one step at a time.
LEMMA RunsOfScript ==
    ASSUME NEW script, Runnable(script)
    PROVE  \E g : RunsTrace(g, script)
<1> DEFINE Is(f, i) == f = [n \in 0..i |-> IF n = 0 THEN <<>>
                                           ELSE f[n - 1] \o Copies(n, Times(script[n]))]
           S == Seq(DOMAIN script)
           N == Len(script)
           more == [n \in 1..N |-> [v \in S |-> v \o Copies(n, Times(script[n]))]]
<1>1. N \in Nat /\ DOMAIN script = 1..N /\ <<>> \in S
  BY DEF Runnable
<1>2. \A n \in 1..N : Copies(n, Times(script[n])) \in S
  <2> TAKE n \in 1..N
  <2>1. n \in DOMAIN script /\ Times(script[n]) \in Nat
    BY <1>1, StepLasts DEF Runnable
  <2>2. QED
    BY <2>1, CopiesTyped
<1>3. \A n \in 1..N, v \in S : v \o Copies(n, Times(script[n])) \in S
  BY <1>2
<1> HIDE DEF Is, S, N, more
<1>4. more \in [1..N -> [S -> S]]
  BY <1>3 DEF more
<1>5. PICK g : IsTrace(g, S, <<>>, N, more)
  BY <1>1, <1>4, TraceExists, Zenon
<1>6. \A n \in 1..N : g[n] = g[n - 1] \o Copies(n, Times(script[n]))
  <2>1. \A n \in 1..N : g[n - 1] \in S
    BY <1>1, <1>5 DEF IsTrace
  <2>2. QED
    BY <1>5, <2>1 DEF more, IsTrace
<1>7. ASSUME NEW i \in 0..N PROVE ExecutionsOf(script, i) = g[i]
  <2> DEFINE part == [n \in 0..i |-> g[n]]
  <2>1. Is(part, i)
    <3>1. \A n \in 0..i : g[n] = IF n = 0 THEN <<>> ELSE part[n - 1] \o Copies(n, Times(script[n]))
      <4> TAKE n \in 0..i
      <4>1. CASE n = 0
        BY <1>5, <4>1 DEF IsTrace
      <4>2. CASE n # 0
        <5>1. n \in 1..N /\ n - 1 \in 0..i /\ part[n - 1] = g[n - 1]
          BY <1>1, <4>2
        <5>2. QED
          BY <1>6, <4>2, <5>1
      <4>3. QED
        BY <4>1, <4>2
    <3>2. QED
      BY <3>1 DEF Is
  <2> HIDE DEF part
  <2>2. PICK runs : Is(runs, i) /\ ExecutionsOf(script, i) = runs[i]
    <3>1. Is(CHOOSE f : Is(f, i), i)
      BY <2>1, Zenon
    <3>2. QED
      BY <3>1, Zenon DEF ExecutionsOf, Is
  <2>3. \A n \in 0..i : runs[n] = IF n = 0 THEN <<>> ELSE runs[n - 1] \o Copies(n, Times(script[n]))
    BY <2>2, Zenon DEF Is
  <2>4. i \in Nat /\ i \in 0..i /\ \A n \in 1..i : n \in 1..N
    BY <1>1
  <2>5. SameSteps(runs, g, i)
    <3>1. runs[0] = g[0]
      BY <1>5, <2>3, <2>4 DEF IsTrace
    <3>2. ASSUME NEW n \in 1..i, runs[n - 1] = g[n - 1] PROVE runs[n] = g[n]
      <4>1. n \in 0..i /\ n # 0 /\ n \in 1..N
        BY <2>4
      <4>2. runs[n] = runs[n - 1] \o Copies(n, Times(script[n]))
        BY <2>3, <4>1
      <4>3. QED
        BY <1>6, <3>2, <4>1, <4>2
    <3>3. QED
      BY <3>1, <3>2 DEF SameSteps
  <2>6. QED
    BY <2>2, <2>4, <2>5, TraceUnique
<1>8. QED
  BY <1>5, <1>6, <1>7 DEF IsTrace, RunsTrace, S, N

\* The executions of a script are steps of it, those of step i after those of the steps before.
LEMMA ExecutionsTyped ==
    ASSUME NEW script, Runnable(script)
    PROVE  /\ \A i \in 0..Len(script) : ExecutionsOf(script, i) \in Seq(DOMAIN script)
           /\ Executions(script) \in Seq(DOMAIN script)
           /\ ExecutionsOf(script, 0) = <<>>
           /\ \A i \in 1..Len(script) :
                  ExecutionsOf(script, i) = ExecutionsOf(script, i - 1) \o Copies(i, Times(script[i]))
<1>1. PICK g : RunsTrace(g, script)
  BY RunsOfScript
<1>2. Len(script) \in Nat
  BY DEF Runnable
<1>3. \A i \in 0..Len(script) : ExecutionsOf(script, i) \in Seq(DOMAIN script)
  BY <1>1 DEF RunsTrace
<1>4. ExecutionsOf(script, 0) = <<>>
  BY <1>1, <1>2 DEF RunsTrace
<1>5. ASSUME NEW i \in 1..Len(script)
      PROVE  ExecutionsOf(script, i) = ExecutionsOf(script, i - 1) \o Copies(i, Times(script[i]))
  <2>1. i \in 0..Len(script) /\ i - 1 \in 0..Len(script)
    BY <1>2
  <2>2. QED
    BY <1>1, <2>1 DEF RunsTrace
<1>6. QED
  BY <1>2, <1>3, <1>4, <1>5 DEF Executions

\* The first of s are r.
Begins(r, s) == Len(r) <= Len(s) /\ \A k \in 1..Len(r) : r[k] = s[k]

\* Beginning is what IsPrefix says, and it is transitive.
LEMMA BeginsFacts ==
    ASSUME NEW S, NEW r \in Seq(S), NEW s \in Seq(S)
    PROVE  /\ Begins(r, r \o s)
           /\ Begins(r, s) => IsPrefix(r, s)
           /\ \A u \in Seq(S) : Begins(r, s) /\ Begins(s, u) => Begins(r, u)
<1>1. Begins(r, r \o s)
  BY DEF Begins
<1>2. ASSUME Begins(r, s) PROVE IsPrefix(r, s)
  <2>1. /\ Len(r) \in Nat /\ Len(s) \in Nat /\ Len(r) <= Len(s)
        /\ \A k \in 1..Len(r) : r[k] = s[k]
    BY <1>2 DEF Begins
  <2>2. SubSeq(r, 1, Len(r)) = SubSeq(s, 1, Len(r))
    BY <2>1
  <2>3. QED
    BY <2>1, <2>2 DEF IsPrefix
<1>3. ASSUME NEW u \in Seq(S), Begins(r, s), Begins(s, u) PROVE Begins(r, u)
  BY <1>3 DEF Begins
<1>4. QED
  BY <1>1, <1>2, <1>3

\* The executions of a script begin with those of its first steps.
LEMMA ExecutionsBegin ==
    ASSUME NEW script, Runnable(script), NEW i \in 0..Len(script)
    PROVE  Begins(ExecutionsOf(script, i), Executions(script))
<1> DEFINE N == Len(script)
           T == {d \in Nat : i + d <= N => Begins(ExecutionsOf(script, i), ExecutionsOf(script, i + d))}
           S == DOMAIN script
<1>1. N \in Nat /\ i \in Nat /\ i <= N /\ \A n \in 0..N : ExecutionsOf(script, n) \in Seq(S)
  BY ExecutionsTyped DEF Runnable
<1>2. 0 \in T
  BY <1>1 DEF Begins
<1>3. ASSUME NEW d \in Nat, d \in T PROVE d + 1 \in T
  <2> SUFFICES ASSUME i + (d + 1) <= N
               PROVE  Begins(ExecutionsOf(script, i), ExecutionsOf(script, i + (d + 1)))
    OBVIOUS
  <2>1. /\ i + (d + 1) \in 1..N /\ (i + (d + 1)) - 1 = i + d /\ i + d \in 0..N
    BY <1>1
  <2>2. PICK n \in 1..N : n = i + (d + 1)
    BY <2>1
  <2>3. ExecutionsOf(script, n) = ExecutionsOf(script, n - 1) \o Copies(n, Times(script[n]))
    BY ExecutionsTyped
  <2>4. Copies(n, Times(script[n])) \in Seq(S)
    <3>1. n \in DOMAIN script /\ Times(script[n]) \in Nat
      BY StepLasts DEF Runnable
    <3>2. QED
      BY <3>1, CopiesTyped
  <2>5. n - 1 = i + d /\ n - 1 \in 0..N /\ n \in 0..N
    BY <2>1, <2>2
  <2>6. PICK a \in Seq(S) : a = ExecutionsOf(script, i)
    BY <1>1
  <2>7. PICK b \in Seq(S) : b = ExecutionsOf(script, n - 1)
    BY <1>1, <2>5
  <2>8. PICK c \in Seq(S) : c = ExecutionsOf(script, n)
    BY <1>1, <2>5
  <2>9. Begins(b, c)
    BY <2>3, <2>4, <2>7, <2>8, BeginsFacts
  <2>10. Begins(a, b)
    BY <1>3, <2>5, <2>6, <2>7
  <2>11. Begins(a, c)
    BY <2>9, <2>10, BeginsFacts
  <2>12. QED
    BY <2>2, <2>6, <2>8, <2>11
<1> HIDE DEF T
<1>4. \A d \in Nat : d \in T
  BY <1>2, <1>3, SetInduction
<1>5. N - i \in Nat /\ i + (N - i) = N
  BY <1>1
<1>6. QED
  BY <1>4, <1>5 DEF T, Executions

\* The lengths of the executions added up, in the way of a loop.
TimeTrace(g, script) ==
    LET runs == Executions(script) IN
    /\ g \in [0..Len(runs) -> Nat] /\ g[0] = 0
    /\ \A n \in 1..Len(runs) : g[n] = g[n - 1] + Length(script[runs[n]])
    /\ \A k \in 1..Len(runs) + 1 : Offset(script, k) = g[k - 1]

\* Each execution lasts at least a tick.
LEMMA RunLasts ==
    ASSUME NEW script, Runnable(script), NEW k \in 1..Len(Executions(script))
    PROVE  /\ Executions(script)[k] \in DOMAIN script
           /\ script[Executions(script)[k]] \in StepRecord
           /\ ValidStep(script[Executions(script)[k]])
           /\ Length(script[Executions(script)[k]]) \in Nat \ {0}
<1>1. Executions(script)[k] \in DOMAIN script
  BY ExecutionsTyped
<1>2. PICK i \in DOMAIN script : i = Executions(script)[k]
  BY <1>1
<1>3. script[i] \in StepRecord /\ ValidStep(script[i])
  BY DEF Runnable
<1>4. QED
  BY <1>2, <1>3, StepLasts

\* The sum of the lengths can be unfolded one execution at a time.
LEMMA TimeOfScript ==
    ASSUME NEW script, Runnable(script)
    PROVE  \E g : TimeTrace(g, script)
<1> DEFINE runs == Executions(script)
           N == Len(runs)
           Is(f, i) == f = [n \in 0..i |-> IF n = 0 THEN 0 ELSE f[n - 1] + Length(script[runs[n]])]
           more == [n \in 1..N |-> [v \in Nat |-> v + Length(script[runs[n]])]]
<1>1. N \in Nat /\ 0 \in Nat /\ \A n \in 1..N : Length(script[runs[n]]) \in Nat
  BY ExecutionsTyped, RunLasts
<1> HIDE DEF Is, N, more, runs
<1>2. \A n \in 1..N, v \in Nat : v + Length(script[runs[n]]) \in Nat
  BY <1>1
<1>4. more \in [1..N -> [Nat -> Nat]]
  BY <1>2 DEF more
<1>5. PICK g : IsTrace(g, Nat, 0, N, more)
  BY <1>1, <1>4, TraceExists, Zenon
<1>6. \A n \in 1..N : g[n] = g[n - 1] + Length(script[runs[n]])
  <2>1. \A n \in 1..N : g[n - 1] \in Nat
    BY <1>1, <1>5 DEF IsTrace
  <2>2. QED
    BY <1>5, <2>1 DEF more, IsTrace
<1>7. ASSUME NEW k \in 1..N + 1 PROVE Offset(script, k) = g[k - 1]
  <2>0. PICK i \in 0..N : i = k - 1
    BY <1>1
  <2> DEFINE part == [n \in 0..i |-> g[n]]
  <2>1. Is(part, i)
    <3>1. \A n \in 0..i : g[n] = IF n = 0 THEN 0 ELSE part[n - 1] + Length(script[runs[n]])
      <4> TAKE n \in 0..i
      <4>1. CASE n = 0
        BY <1>5, <4>1 DEF IsTrace
      <4>2. CASE n # 0
        <5>1. n \in 1..N /\ n - 1 \in 0..i /\ part[n - 1] = g[n - 1]
          BY <1>1, <4>2
        <5>2. QED
          BY <1>6, <4>2, <5>1
      <4>3. QED
        BY <4>1, <4>2
    <3>2. QED
      BY <3>1 DEF Is
  <2> HIDE DEF part
  <2>2. PICK sum : Is(sum, i) /\ Offset(script, k) = sum[i]
    <3>1. Is(CHOOSE f : Is(f, i), i)
      BY <2>1, Zenon
    <3>2. QED
      BY <3>1, <2>0, Zenon DEF Offset, Is, runs
  <2>3. \A n \in 0..i : sum[n] = IF n = 0 THEN 0 ELSE sum[n - 1] + Length(script[runs[n]])
    BY <2>2, Zenon DEF Is
  <2>4. i \in Nat /\ i \in 0..i /\ 0 \in 0..i /\ \A n \in 1..i : n \in 1..N
    BY <1>1
  <2>5. SameSteps(sum, g, i)
    <3>1. sum[0] = g[0]
      BY <1>5, <2>3, <2>4 DEF IsTrace
    <3>2. ASSUME NEW n \in 1..i, sum[n - 1] = g[n - 1] PROVE sum[n] = g[n]
      <4>1. n \in 0..i /\ n # 0 /\ n \in 1..N
        BY <2>4
      <4>2. sum[n] = sum[n - 1] + Length(script[runs[n]])
        BY <2>3, <4>1
      <4>3. QED
        BY <1>6, <3>2, <4>1, <4>2
    <3>3. QED
      BY <3>1, <3>2 DEF SameSteps
  <2>6. QED
    BY <2>0, <2>2, <2>4, <2>5, TraceUnique
<1>8. QED
  BY <1>5, <1>6, <1>7 DEF IsTrace, TimeTrace, runs, N

\* An execution starts when the one before it is over.
LEMMA OffsetNext ==
    ASSUME NEW script, Runnable(script)
    PROVE  LET runs == Executions(script) IN
           /\ Len(runs) \in Nat /\ Offset(script, 1) = 0
           /\ \A k \in 1..Len(runs) + 1 : Offset(script, k) \in Nat
           /\ \A k \in 1..Len(runs) :
                  Offset(script, k + 1) = Offset(script, k) + Length(script[runs[k]])
<1> DEFINE runs == Executions(script)
           N == Len(runs)
<1>1. PICK g : TimeTrace(g, script)
  BY TimeOfScript
<1>2. N \in Nat
  BY ExecutionsTyped
<1>3. /\ g \in [0..N -> Nat] /\ g[0] = 0
      /\ \A n \in 1..N : g[n] = g[n - 1] + Length(script[runs[n]])
      /\ \A k \in 1..N + 1 : Offset(script, k) = g[k - 1]
  BY <1>1 DEF TimeTrace
<1> HIDE DEF runs, N
<1>4. Offset(script, 1) = 0
  BY <1>2, <1>3
<1>5. \A k \in 1..N + 1 : Offset(script, k) \in Nat
  BY <1>2, <1>3
<1>6. ASSUME NEW k \in 1..N
      PROVE  Offset(script, k + 1) = Offset(script, k) + Length(script[runs[k]])
  <2>1. k \in 1..N + 1 /\ k + 1 \in 1..N + 1 /\ (k + 1) - 1 = k
    BY <1>2
  <2>2. Offset(script, k) = g[k - 1] /\ Offset(script, k + 1) = g[k]
    BY <1>3, <2>1
  <2>3. QED
    BY <1>3, <2>2
<1>7. QED
  BY <1>2, <1>4, <1>5, <1>6 DEF runs, N

\* Executions do not overlap.
LEMMA OffsetOrder ==
    ASSUME NEW script, Runnable(script),
           NEW j \in 1..Len(Executions(script)), NEW k \in 1..Len(Executions(script)) + 1, j < k
    PROVE  Offset(script, j) + Length(script[Executions(script)[j]]) <= Offset(script, k)
<1> DEFINE runs == Executions(script)
           N == Len(runs)
           L(n) == Length(script[runs[n]])
           T == {d \in Nat : j + 1 + d <= N + 1 =>
                                 Offset(script, j) + L(j) <= Offset(script, j + 1 + d)}
<1>1. /\ N \in Nat /\ j \in Nat /\ \A n \in 1..N : L(n) \in Nat
      /\ \A n \in 1..N + 1 : Offset(script, n) \in Nat
      /\ \A n \in 1..N : Offset(script, n + 1) = Offset(script, n) + L(n)
  BY OffsetNext, RunLasts
<1> HIDE DEF runs, N, L
<1>2. 0 \in T
  <2>1. j + 1 + 0 = j + 1 /\ j \in 1..N + 1 /\ j \in 1..N
    BY <1>1 DEF N, runs
  <2>2. Offset(script, j + 1) = Offset(script, j) + L(j) /\ Offset(script, j) + L(j) \in Nat
    BY <1>1, <2>1
  <2>3. QED
    BY <2>1, <2>2
<1>3. ASSUME NEW d \in Nat, d \in T PROVE d + 1 \in T
  <2> SUFFICES ASSUME j + 1 + (d + 1) <= N + 1
               PROVE  Offset(script, j) + L(j) <= Offset(script, j + 1 + (d + 1))
    OBVIOUS
  <2>1. PICK n \in 1..N : n = j + 1 + d
    BY <1>1
  <2>2. n \in 1..N + 1 /\ n + 1 \in 1..N + 1 /\ j \in 1..N + 1 /\ j \in 1..N
        /\ j + 1 + (d + 1) = n + 1 /\ j + 1 + d <= N + 1
    BY <1>1, <2>1 DEF N, runs
  <2>3. /\ Offset(script, n + 1) = Offset(script, n) + L(n)
        /\ Offset(script, n) \in Nat /\ L(n) \in Nat /\ Offset(script, j) \in Nat /\ L(j) \in Nat
    BY <1>1, <2>2
  <2>4. Offset(script, j) + L(j) <= Offset(script, n)
    BY <1>3, <2>1, <2>2
  <2>5. QED
    BY <2>2, <2>3, <2>4
<1> HIDE DEF T
<1>4. \A d \in Nat : d \in T
  BY <1>2, <1>3, SetInduction
<1>5. k \in 1..N + 1 /\ k - (j + 1) \in Nat /\ j + 1 + (k - (j + 1)) = k /\ k <= N + 1
  BY <1>1 DEF N, runs
<1>6. QED
  BY <1>4, <1>5 DEF T, L, runs

\* While an execution lasts no other one shows.
LEMMA WantedWithin ==
    ASSUME NEW script, Runnable(script), NEW k \in 1..Len(Executions(script)), NEW t \in Nat,
           NEW step, step = script[Executions(script)[k]],
           Offset(script, k) <= t, t < Offset(script, k) + Length(step)
    PROVE  Wanted(script, t) = IF Holds(step) THEN Hold(ActionOf(step), Neutral) ELSE Neutral
<1> DEFINE runs == Executions(script)
           N == Len(runs)
           L(n) == Length(script[runs[n]])
<1>1. /\ N \in Nat /\ DOMAIN runs = 1..N /\ \A n \in 1..N : L(n) \in Nat
      /\ \A n \in 1..N + 1 : Offset(script, n) \in Nat
  BY OffsetNext, RunLasts, ExecutionsTyped
<1>2. \A i \in 1..N : \A j \in 1..N : i < j => Offset(script, i) + L(i) <= Offset(script, j)
  <2> SUFFICES ASSUME NEW i \in 1..N, NEW j \in 1..N, i < j
               PROVE  Offset(script, i) + L(i) <= Offset(script, j)
    OBVIOUS
  <2>1. j \in 1..N + 1
    BY <1>1
  <2>2. QED
    BY <2>1, OffsetOrder
<1> HIDE DEF N, L
<1>3. ASSUME NEW j \in Shown(script, t) PROVE j = k
  <2>1. j \in 1..N /\ Offset(script, j) <= t /\ t < Offset(script, j) + L(j)
    BY <1>1 DEF Shown, L
  <2>2. /\ k \in 1..N /\ j \in 1..N + 1 /\ k \in 1..N + 1 /\ L(k) \in Nat /\ L(j) \in Nat
        /\ Offset(script, j) \in Nat /\ Offset(script, k) \in Nat
        /\ t < Offset(script, k) + L(k)
    BY <1>1, <2>1 DEF N, L
  <2>3. ~(j < k)
    <3> SUFFICES ASSUME j < k PROVE FALSE
      OBVIOUS
    <3>1. Offset(script, j) + L(j) <= Offset(script, k)
      BY <1>2, <2>1, <2>2
    <3>2. QED
      BY <2>1, <2>2, <3>1
  <2>4. ~(k < j)
    <3> SUFFICES ASSUME k < j PROVE FALSE
      OBVIOUS
    <3>1. Offset(script, k) + L(k) <= Offset(script, j)
      BY <1>2, <2>1, <2>2
    <3>2. QED
      BY <2>1, <2>2, <3>1
  <2>5. QED
    BY <1>1, <2>2, <2>3, <2>4
<1>4. CASE Holds(step)
  <2>1. k \in Shown(script, t)
    BY <1>1, <1>4 DEF Shown, N
  <2>2. Shown(script, t) # {} /\ (CHOOSE j \in Shown(script, t) : TRUE) = k
    BY <1>3, <2>1
  <2>3. QED
    BY <1>4, <2>2 DEF Wanted
<1>5. CASE ~Holds(step)
  <2>1. k \notin Shown(script, t)
    BY <1>5 DEF Shown
  <2>2. Shown(script, t) = {}
    BY <1>3, <2>1
  <2>3. QED
    BY <1>5, <2>2 DEF Wanted
<1>6. QED
  BY <1>4, <1>5

\* When all are over nothing shows.
LEMMA WantedAfter ==
    ASSUME NEW script, Runnable(script), NEW t \in Nat,
           Offset(script, Len(Executions(script)) + 1) <= t
    PROVE  Wanted(script, t) = Neutral
<1> DEFINE N == Len(Executions(script))
<1>1. N \in Nat /\ N + 1 \in 1..N + 1 /\ DOMAIN Executions(script) = 1..N
      /\ \A n \in 1..N + 1 : Offset(script, n) \in Nat
  BY OffsetNext, ExecutionsTyped
<1>2. ASSUME NEW j \in Shown(script, t) PROVE FALSE
  <2> DEFINE e == Length(script[Executions(script)[j]])
  <2>1. j \in 1..N /\ t < Offset(script, j) + e
    BY <1>1 DEF Shown
  <2>2. j < N + 1 /\ j \in 1..N + 1 /\ e \in Nat
    BY <1>1, <2>1, RunLasts
  <2>3. Offset(script, j) + e <= Offset(script, N + 1)
    BY <1>1, <2>1, <2>2, OffsetOrder
  <2> HIDE DEF e, N
  <2>4. Offset(script, j) \in Nat /\ Offset(script, N + 1) \in Nat
    BY <1>1, <2>2
  <2>5. Offset(script, N + 1) <= t
    BY DEF N
  <2>6. QED
    BY <2>1, <2>2, <2>3, <2>4, <2>5
<1>3. QED
  BY <1>2 DEF Wanted

\* Which executions have a packet to write, in the way of a loop.
DueTrace(g, script, S, s) ==
    /\ g \in [0..Len(s) -> Seq(S)] /\ g[0] = <<>> /\ Due(script, s) = g[Len(s)]
    /\ \A n \in 1..Len(s) :
           g[n] = IF IsPacket(script[s[n]]) THEN Append(g[n - 1], s[n]) ELSE g[n - 1]

\* The executions that write can be picked one execution at a time.
LEMMA DueOfRuns ==
    ASSUME NEW script, NEW S, NEW s \in Seq(S)
    PROVE  \E g : DueTrace(g, script, S, s)
<1> DEFINE N == Len(s)
           After(v, n) == IF IsPacket(script[s[n]]) THEN Append(v, s[n]) ELSE v
           Is(f) == f = [n \in 0..N |-> IF n = 0 THEN <<>> ELSE After(f[n - 1], n)]
           more == [n \in 1..N |-> [v \in Seq(S) |-> After(v, n)]]
<1>1. N \in Nat /\ <<>> \in Seq(S) /\ \A n \in 1..N, v \in Seq(S) : After(v, n) \in Seq(S)
  OBVIOUS
<1> HIDE DEF N, more
<1>2. more \in [1..N -> [Seq(S) -> Seq(S)]]
  BY <1>1 DEF more
<1>3. PICK g : IsTrace(g, Seq(S), <<>>, N, more)
  BY <1>1, <1>2, TraceExists, Zenon
<1>4. \A n \in 1..N : g[n] = After(g[n - 1], n)
  <2>1. \A n \in 1..N : g[n - 1] \in Seq(S)
    BY <1>1, <1>3 DEF IsTrace
  <2> HIDE DEF After
  <2>2. QED
    BY <1>3, <2>1 DEF more, IsTrace
<1>5. Is(g)
  <2> HIDE DEF After
  <2>1. \A n \in 0..N : g[n] = IF n = 0 THEN <<>> ELSE After(g[n - 1], n)
    BY <1>1, <1>3, <1>4 DEF IsTrace
  <2>2. g = [n \in 0..N |-> IF n = 0 THEN <<>> ELSE After(g[n - 1], n)]
    BY <1>3, <2>1 DEF IsTrace
  <2>3. QED
    BY <2>2, Zenon
<1>6. PICK due : Is(due) /\ Due(script, s) = due[N]
  <2> HIDE DEF Is
  <2>1. Is(CHOOSE f : Is(f))
    BY <1>5, Zenon
  <2>2. QED
    BY <2>1, Zenon DEF Due, Is, N
<1>7. \A n \in 0..N : due[n] = IF n = 0 THEN <<>> ELSE After(due[n - 1], n)
  <2> HIDE DEF After
  <2>1. QED
    BY <1>6, Zenon
<1> HIDE DEF After, Is
<1>8. SameSteps(due, g, N)
  <2>1. due[0] = g[0]
    BY <1>1, <1>3, <1>7 DEF IsTrace
  <2>2. ASSUME NEW n \in 1..N, due[n - 1] = g[n - 1] PROVE due[n] = g[n]
    <3>1. n \in 0..N /\ n # 0
      BY <1>1
    <3>2. due[n] = After(due[n - 1], n)
      BY <1>7, <3>1
    <3>3. QED
      BY <1>4, <2>2, <3>2
  <2>3. QED
    BY <2>1, <2>2 DEF SameSteps
<1>9. due[N] = g[N]
  BY <1>1, <1>8, TraceUnique
<1>10. QED
  BY <1>3, <1>4, <1>6, <1>9 DEF IsTrace, DueTrace, After, N

\* One execution more is one packet more if the step is one for it, and else none.
LEMMA DueAppend ==
    ASSUME NEW script, NEW S, NEW s \in Seq(S), NEW e \in S
    PROVE  /\ Due(script, s) \in Seq(S) /\ Due(script, <<>>) = <<>>
           /\ Due(script, Append(s, e)) =
                  IF IsPacket(script[e]) THEN Append(Due(script, s), e) ELSE Due(script, s)
<1> DEFINE b == Append(s, e)
           N == Len(s)
<1>1. /\ b \in Seq(S) /\ N \in Nat /\ Len(b) = N + 1 /\ b[N + 1] = e
      /\ \A n \in 1..N : b[n] = s[n]
      /\ <<>> \in Seq(S) /\ Len(<<>>) = 0
  OBVIOUS
<1> HIDE DEF b
<1>2. PICK g : DueTrace(g, script, S, s)
  BY DueOfRuns, Zenon
<1>3. PICK f : DueTrace(f, script, S, b)
  BY <1>1, DueOfRuns, Zenon
<1>4. PICK z : DueTrace(z, script, S, <<>>)
  BY <1>1, DueOfRuns, Zenon
<1>5. Due(script, s) \in Seq(S) /\ Due(script, <<>>) = <<>>
  BY <1>1, <1>2, <1>4 DEF DueTrace
<1>6. SameSteps(f, g, N)
  <2>1. f[0] = g[0]
    BY <1>2, <1>3 DEF DueTrace
  <2>2. ASSUME NEW n \in 1..N, f[n - 1] = g[n - 1] PROVE f[n] = g[n]
    <3>1. n \in 1..Len(b) /\ b[n] = s[n]
      BY <1>1
    <3>2. QED
      BY <1>2, <1>3, <2>2, <3>1 DEF DueTrace
  <2>3. QED
    BY <2>1, <2>2 DEF SameSteps
<1>7. f[N] = g[N] /\ N + 1 \in 1..Len(b) /\ (N + 1) - 1 = N
  BY <1>1, <1>6, TraceUnique
<1>8. f[N + 1] = IF IsPacket(script[e]) THEN Append(f[N], e) ELSE f[N]
  BY <1>1, <1>3, <1>7 DEF DueTrace
<1>9. Due(script, b) = f[N + 1] /\ Due(script, s) = g[N]
  BY <1>1, <1>2, <1>3 DEF DueTrace
<1>10. QED
  BY <1>5, <1>7, <1>8, <1>9 DEF b

-----------------------------------------------------------------------------
(* A tick of a script, case by case. *)

\* The tick leaves the runner's state alone.
Stays == UNCHANGED <<index, repeat, act, done, control, created, written>>

\* The action is ticked and goes on.
Goes ==
    /\ ~done /\ ~IsDone(Ticked(act))
    /\ act' = Ticked(act) /\ control' = Controlled(act, control)
    /\ written' = IF Writes(act) THEN Append(written, index) ELSE written
    /\ UNCHANGED <<index, repeat, done, created>>

\* It is over, and one for step i takes its place.
Follows(i) ==
    /\ ~done /\ IsDone(Ticked(act)) /\ ~Writes(act)
    /\ i \in DOMAIN Script
    /\ index' = i
    /\ act' = ActionOf(Script[i]) /\ control' = Started(act', Controlled(act, control))
    /\ created' = Append(created, i)
    /\ UNCHANGED <<done, written>>

\* The step has repetitions left.
Repeats == Follows(index) /\ repeat > 1 /\ repeat' = repeat - 1
Turns   == Follows(index + 1) /\ ~(repeat > 1) /\ repeat' = Repetitions(Script[index + 1])

\* It is over and was the last.
Finishes ==
    /\ ~done /\ IsDone(Ticked(act)) /\ ~Writes(act)
    /\ index = Len(Script) /\ ~(repeat > 1)
    /\ done' = TRUE /\ control' = Controlled(act, control)
    /\ UNCHANGED <<act, created, written>>

\* For a valid script the factory makes the action, and it starts.
LEMMA ReplaceMakes ==
    ASSUME ScriptValid, NEW i \in DOMAIN Script, NEW c, NEW next, Replace(i, c, next)
    PROVE  /\ act' = ActionOf(Script[i]) /\ control' = Started(act', c)
           /\ created' = Append(created, i) /\ pc' = next
<1>1. Creatable(Script[i])
  BY ActionTyped DEF ScriptValid
<1>2. QED
  BY <1>1 DEF Replace, Fresh

\* A tick leaves the action, goes on with it, repeats its step, turns to the next or ends.
LEMMA TickCases ==
    ASSUME RunInv, RunnerTick
    PROVE  /\ UNCHANGED <<command, cfg, frame>> /\ Script' = Script
           /\ pc = "ticker" /\ pc' \in {"frame", "returned"}
           /\ clock < MaxTicks /\ clock' = clock + 1
           /\ \/ Stays /\ (pc' = "frame" => done)
              \/ Goes
              \/ Script # <<>> /\ (Repeats \/ Turns \/ Finishes)
<1> DEFINE t == Ticked(act)
           c == Controlled(act, control)
<1>1. /\ UNCHANGED <<command, cfg, frame>> /\ Script' = Script /\ pc = "ticker"
      /\ clock < MaxTicks /\ clock' = clock + 1
  BY DEF RunnerTick, Script
<1>2. /\ act \in Actions /\ Cooling(act) /\ act.kind \in Kinds /\ control \in Controls
      /\ c \in Controls /\ ScriptValid /\ index \in Nat \ {0}
  BY ControlTyped DEF RunInv, Typed, Actions
<1>3. CASE done
  BY <1>1, <1>3 DEF RunnerTick, Stays, runnerVars
<1>4. CASE ~done /\ err' = "packet" /\ pc' = "returned"
           /\ UNCHANGED <<index, repeat, act, done, control, created, written>>
  BY <1>1, <1>4 DEF Stays
<1>5. CASE /\ ~done /\ ~IsDone(t)
           /\ written' = (IF Writes(act) THEN Append(written, index) ELSE written)
           /\ act' = t /\ control' = c /\ pc' = "frame"
           /\ UNCHANGED <<index, repeat, done, created>>
  BY <1>1, <1>5 DEF Goes
<1>6. CASE /\ ~done /\ IsDone(t) /\ Advance(c)
           /\ written' = (IF Writes(act) THEN Append(written, index) ELSE written)
  <2>1. ~Writes(act) /\ written' = written
    BY <1>2, <1>6, CoolingDown
  <2>2. Script # <<>>
    BY <1>2, <1>6, BuiltInGoesOn DEF RunInv, Placed
  <2>3. index \in DOMAIN Script /\ DOMAIN Script = 1..Len(Script) /\ Len(Script) \in Nat
    BY <1>2, <1>6, <2>2 DEF RunInv, Placed, ScriptValid
  <2>4. CASE RepeatsLeft
    <3>1. repeat' = repeat - 1 /\ Replace(index, c, "frame") /\ UNCHANGED <<index, done>>
      BY <1>6, <2>4 DEF Advance
    <3>2. Repeats /\ pc' = "frame"
      BY <1>2, <1>6, <2>1, <2>3, <2>4, <3>1, ReplaceMakes DEF Repeats, Follows, RepeatsLeft
    <3>3. QED
      BY <1>1, <2>2, <3>2
  <2>5. CASE ~RepeatsLeft /\ index = Len(Script)
    <3>1. /\ index' = index + 1 /\ done' = TRUE /\ control' = c /\ pc' = "frame"
          /\ UNCHANGED <<repeat, act, created>>
      BY <1>6, <2>5 DEF Advance
    <3>2. Finishes
      BY <1>6, <2>1, <2>5, <3>1 DEF Finishes, RepeatsLeft
    <3>3. QED
      BY <1>1, <2>2, <3>1, <3>2
  <2>6. CASE ~RepeatsLeft /\ index # Len(Script)
    <3>1. /\ index' = index + 1 /\ done' = done
          /\ repeat' = Repetitions(Script[index + 1]) /\ Replace(index + 1, c, "frame")
      BY <1>6, <2>6 DEF Advance
    <3>2. index + 1 \in DOMAIN Script
      <4>0. index \in 1..Len(Script) /\ index # Len(Script) /\ Len(Script) \in Nat
        BY <2>3, <2>6
      <4>1. index + 1 \in 1..Len(Script)
        BY <1>2, <4>0
      <4>2. QED
        BY <2>3, <4>1
    <3>3. /\ act' = ActionOf(Script[index + 1]) /\ control' = Started(act', c)
          /\ created' = Append(created, index + 1) /\ pc' = "frame"
      BY <1>2, <3>1, <3>2, ReplaceMakes
    <3>4. Turns
      BY <1>6, <2>1, <2>6, <3>1, <3>2, <3>3 DEF Turns, Follows, RepeatsLeft
    <3>5. QED
      BY <1>1, <2>2, <3>3, <3>4
  <2>7. QED
    BY <2>4, <2>5, <2>6
<1>7. QED
  BY <1>3, <1>4, <1>5, <1>6 DEF RunnerTick, runnerVars

-----------------------------------------------------------------------------
(* Executions are created in the order of the script. *)

\* The action is the one of a step, however far it has come.
Made(a, step) ==
    LET b == ActionOf(step) IN
    /\ a.kind = b.kind /\ a.ticks = b.ticks
    /\ a.strafe = b.strafe /\ a.forward = b.forward /\ a.speed = b.speed
    /\ a.yaw = b.yaw /\ a.pitch = b.pitch

\* The executions of a script up to the n-th one of step i.
Until(script, i, n) == ExecutionsOf(script, i - 1) \o Copies(i, n)

\* Where the runner is in a script that has begun and is not done.
At(i) ==
    /\ repeat \in 1..Times(Script[i])
    /\ created = Until(Script, i, Times(Script[i]) - repeat + 1)
    /\ Made(act, Script[i])

\* A script is being played.
Playing == Script # <<>> /\ pc \in {"ticker", "frame"}

\* The inductive invariant: what was created is what the script says up to where the runner is.
Counted ==
    /\ pc \in Early => created = <<>>
    /\ Playing => created # <<>>
    /\ created = <<>> => ~done /\ ~Writes(act)
    /\ created # <<>> => Script # <<>> /\ (~done => At(index))
    /\ done => created = Executions(Script) /\ ~Writes(act)

LEMMA ScriptRuns == RunInv => Runnable(Script)
  BY DEF RunInv, ScriptValid, Runnable

LEMMA NoCopies ==
    ASSUME NEW S, NEW s \in Seq(S), NEW i \in S
    PROVE  s \o Copies(i, 0) = s
<1>1. Copies(i, 0) \in Seq(S) /\ Len(Copies(i, 0)) = 0
  BY CopiesTyped
<1>2. Copies(i, 0) = <<>>
  BY <1>1
<1>3. QED
  BY <1>2, ConcatEmptySeq

LEMMA OneMore ==
    ASSUME NEW S, NEW s \in Seq(S), NEW i \in S, NEW n \in Nat
    PROVE  Append(s \o Copies(i, n), i) = s \o Copies(i, n + 1)
<1>1. PICK m \in Nat : m = n + 1
  OBVIOUS
<1>2. /\ Copies(i, n) \in Seq(S) /\ Len(Copies(i, n)) = n /\ \A k \in 1..n : Copies(i, n)[k] = i
      /\ Copies(i, m) \in Seq(S) /\ Len(Copies(i, m)) = m /\ \A k \in 1..m : Copies(i, m)[k] = i
  BY CopiesTyped
<1>3. PICK u \in Seq(S) : u = Copies(i, n) /\ Len(u) = n /\ \A k \in 1..n : u[k] = i
  BY <1>2
<1>4. PICK v \in Seq(S) : v = Copies(i, m) /\ Len(v) = m /\ \A k \in 1..m : v[k] = i
  BY <1>2
<1>5. v = Append(u, i)
  <2>1. /\ Append(u, i) \in Seq(S) /\ Len(Append(u, i)) = m
        /\ \A k \in 1..m : Append(u, i)[k] = i
    BY <1>1, <1>3
  <2>2. QED
    BY <1>4, <2>1, SeqEqual
<1>6. Append(s \o u, i) = s \o v
  <2>1. <<i>> \in Seq(S) /\ s \o u \in Seq(S)
    BY ConcatProperties
  <2>2. Append(s \o u, i) = (s \o u) \o <<i>> /\ Append(u, i) = u \o <<i>>
    BY <2>1, AppendIsConcat
  <2>3. (s \o u) \o <<i>> = s \o (u \o <<i>>)
    BY <2>1, ConcatAssociative
  <2>4. QED
    BY <1>5, <2>2, <2>3
<1>7. QED
  BY <1>1, <1>3, <1>4, <1>6

\* What is created by the nth execution of step i ends with i.
LEMMA UntilTyped ==
    ASSUME NEW script, Runnable(script), NEW i \in DOMAIN script, NEW n \in Nat
    PROVE  /\ i \in 1..Len(script) /\ i - 1 \in 0..Len(script) /\ i \in Nat /\ Len(script) \in Nat
           /\ Until(script, i, n) \in Seq(DOMAIN script)
           /\ n > 0 => /\ Until(script, i, n) # <<>>
                       /\ Until(script, i, n)[Len(Until(script, i, n))] = i
<1>1. i \in 1..Len(script) /\ i - 1 \in 0..Len(script) /\ i \in Nat /\ Len(script) \in Nat
  BY DEF Runnable
<1>2. PICK x \in Seq(DOMAIN script) : x = ExecutionsOf(script, i - 1)
  BY <1>1, ExecutionsTyped
<1>3. Copies(i, n) \in Seq(DOMAIN script) /\ Len(Copies(i, n)) = n
      /\ \A k \in 1..n : Copies(i, n)[k] = i
  BY CopiesTyped
<1>4. PICK u \in Seq(DOMAIN script) : u = Copies(i, n) /\ Len(u) = n /\ \A k \in 1..n : u[k] = i
  BY <1>3
<1>5. /\ x \o u \in Seq(DOMAIN script) /\ Len(x \o u) = Len(x) + n
      /\ \A k \in 1..Len(x) + n : (x \o u)[k] = IF k <= Len(x) THEN x[k] ELSE u[k - Len(x)]
  <2>1. /\ x \o u \in Seq(DOMAIN script) /\ Len(x \o u) = Len(x) + Len(u)
        /\ \A k \in 1..Len(x) + Len(u) :
               (x \o u)[k] = IF k <= Len(x) THEN x[k] ELSE u[k - Len(x)]
    BY ConcatProperties
  <2>2. QED
    BY <1>4, <2>1
<1>6. ASSUME n > 0 PROVE x \o u # <<>> /\ (x \o u)[Len(x) + n] = i
  <2>1. Len(x) \in Nat
    OBVIOUS
  <2>2. Len(x) + n \in 1..Len(x) + n /\ ~(Len(x) + n <= Len(x)) /\ (Len(x) + n) - Len(x) = n
        /\ n \in 1..n /\ Len(x) + n # 0
    BY <1>6, <2>1
  <2>3. (x \o u)[Len(x) + n] = u[n]
    BY <1>5, <2>2
  <2>4. u[n] = i
    BY <1>4, <2>2
  <2>5. x \o u # <<>>
    BY <1>5, <2>2
  <2>6. QED
    BY <2>3, <2>4, <2>5
<1>7. QED
  BY <1>1, <1>2, <1>4, <1>5, <1>6 DEF Until

\* Another execution of the step, or the first of the next one.
LEMMA UntilNext ==
    ASSUME NEW script, Runnable(script), NEW i \in DOMAIN script
    PROVE  /\ \A n \in Nat : Append(Until(script, i, n), i) = Until(script, i, n + 1)
           /\ Until(script, i, Times(script[i])) = ExecutionsOf(script, i)
           /\ i + 1 \in DOMAIN script =>
                  Append(ExecutionsOf(script, i), i + 1) = Until(script, i + 1, 1)
           /\ i = 1 => Append(<<>>, i) = Until(script, i, 1)
<1> DEFINE S == DOMAIN script
<1>1. i \in 1..Len(script) /\ i - 1 \in 0..Len(script) /\ i \in 0..Len(script)
      /\ i \in Nat /\ Len(script) \in Nat
  BY DEF Runnable
<1>2. \A k \in 0..Len(script) : ExecutionsOf(script, k) \in Seq(DOMAIN script)
  BY ExecutionsTyped
<1>3. ASSUME NEW n \in Nat
      PROVE  Append(Until(script, i, n), i) = Until(script, i, n + 1)
  <2> HIDE DEF S
  <2>1. PICK x \in Seq(S) : x = ExecutionsOf(script, i - 1)
    BY <1>1, <1>2 DEF S
  <2>2. i \in S
    BY DEF S
  <2>3. Append(x \o Copies(i, n), i) = x \o Copies(i, n + 1)
    BY <2>2, OneMore
  <2>4. QED
    BY <2>1, <2>3 DEF Until
<1>4. Until(script, i, Times(script[i])) = ExecutionsOf(script, i)
  BY <1>1, ExecutionsTyped DEF Until
<1>5. ASSUME NEW j \in S, NEW x \in Seq(S), x = ExecutionsOf(script, j - 1)
      PROVE  Append(x, j) = Until(script, j, 1)
  <2> HIDE DEF S
  <2>1. x \o Copies(j, 0) = x /\ Append(x \o Copies(j, 0), j) = x \o Copies(j, 1)
    <3>1. Append(x \o Copies(j, 0), j) = x \o Copies(j, 0 + 1)
      BY OneMore
    <3>2. x \o Copies(j, 0) = x
      BY NoCopies
    <3>3. QED
      BY <3>1, <3>2
  <2>2. QED
    BY <1>5, <2>1 DEF Until
<1>6. ASSUME i + 1 \in DOMAIN script
      PROVE  Append(ExecutionsOf(script, i), i + 1) = Until(script, i + 1, 1)
  <2>1. (i + 1) - 1 = i /\ ExecutionsOf(script, i) \in Seq(DOMAIN script)
    BY <1>1, <1>2
  <2>2. PICK j \in DOMAIN script : j = i + 1
    BY <1>6
  <2>3. ExecutionsOf(script, j - 1) = ExecutionsOf(script, i)
    BY <2>1, <2>2
  <2>4. Append(ExecutionsOf(script, i), j) = Until(script, j, 1)
    BY <1>5, <2>1, <2>3
  <2>5. QED
    BY <2>2, <2>4
<1>7. ASSUME i = 1 PROVE Append(<<>>, i) = Until(script, i, 1)
  <2>1. ExecutionsOf(script, i - 1) = <<>> /\ <<>> \in Seq(DOMAIN script)
    BY <1>7, ExecutionsTyped
  <2>2. QED
    BY <1>5, <2>1
<1>8. QED
  BY <1>3, <1>4, <1>6, <1>7

\* What has been executed by then is how the script begins.
LEMMA UntilBegins ==
    ASSUME NEW script, Runnable(script), NEW i \in DOMAIN script, NEW n \in 0..Times(script[i])
    PROVE  Begins(Until(script, i, n), Executions(script))
<1> DEFINE S == DOMAIN script
<1>1. i \in 1..Len(script) /\ i - 1 \in 0..Len(script) /\ i \in 0..Len(script)
      /\ i \in Nat /\ Len(script) \in Nat /\ n \in Nat
  BY DEF Runnable
<1>2. Times(script[i]) \in Nat
  BY StepLasts DEF Runnable
<1> HIDE DEF S
<1>3. PICK x \in Seq(S) : x = ExecutionsOf(script, i - 1)
  BY <1>1, ExecutionsTyped DEF S
<1>4. PICK T \in Nat : T = Times(script[i])
  BY <1>2
<1>a. /\ Copies(i, n) \in Seq(S) /\ Len(Copies(i, n)) = n /\ \A k \in 1..n : Copies(i, n)[k] = i
      /\ Copies(i, T) \in Seq(S) /\ Len(Copies(i, T)) = T /\ \A k \in 1..T : Copies(i, T)[k] = i
  BY <1>1, CopiesTyped DEF S
<1>5. PICK u \in Seq(S) : u = Copies(i, n) /\ Len(u) = n /\ \A k \in 1..n : u[k] = i
  BY <1>a
<1>6. PICK v \in Seq(S) : v = Copies(i, T) /\ Len(v) = T /\ \A k \in 1..T : v[k] = i
  BY <1>a
<1>7. Begins(x \o u, x \o v)
  <2>1. /\ Len(x \o u) = Len(x) + n /\ Len(x \o v) = Len(x) + T /\ Len(x) \in Nat /\ n <= T
        /\ \A k \in 1..Len(x) + n : (x \o u)[k] = IF k <= Len(x) THEN x[k] ELSE u[k - Len(x)]
        /\ \A k \in 1..Len(x) + T : (x \o v)[k] = IF k <= Len(x) THEN x[k] ELSE v[k - Len(x)]
    <3>1. Len(x) \in Nat /\ n <= T
      BY <1>4
    <3>2. /\ Len(x \o u) = Len(x) + Len(u)
          /\ \A k \in 1..Len(x) + Len(u) : (x \o u)[k] = IF k <= Len(x) THEN x[k] ELSE u[k - Len(x)]
      BY ConcatProperties
    <3>3. /\ Len(x \o v) = Len(x) + Len(v)
          /\ \A k \in 1..Len(x) + Len(v) : (x \o v)[k] = IF k <= Len(x) THEN x[k] ELSE v[k - Len(x)]
      BY ConcatProperties
    <3>4. QED
      BY <1>5, <1>6, <3>1, <3>2, <3>3
  <2>2. ASSUME NEW k \in 1..Len(x) + n PROVE (x \o u)[k] = (x \o v)[k]
    <3>1. k \in 1..Len(x) + T
      BY <1>1, <2>1
    <3>2. CASE k <= Len(x)
      BY <2>1, <3>1, <3>2
    <3>3. CASE ~(k <= Len(x))
      <4>1. k - Len(x) \in 1..n /\ k - Len(x) \in 1..T
        BY <1>1, <2>1, <3>1, <3>3
      <4>2. (x \o u)[k] = u[k - Len(x)] /\ (x \o v)[k] = v[k - Len(x)]
        BY <2>1, <3>1, <3>3
      <4>3. QED
        BY <1>5, <1>6, <4>1, <4>2
    <3>4. QED
      BY <3>2, <3>3
  <2>3. QED
    BY <1>1, <2>1, <2>2 DEF Begins
<1>8. x \o v = ExecutionsOf(script, i)
  BY <1>3, <1>4, <1>6, UntilNext DEF Until
<1>9. Begins(ExecutionsOf(script, i), Executions(script))
  BY <1>1, ExecutionsBegin
<1>10. /\ x \o u \in Seq(S) /\ x \o v \in Seq(S) /\ Executions(script) \in Seq(S)
  BY ConcatProperties, ExecutionsTyped DEF S
<1>11. PICK e \in Seq(S) : e = Executions(script)
  BY <1>10
<1>12. Begins(x \o u, e)
  <2>1. PICK a \in Seq(S) : a = x \o u
    BY <1>10
  <2>2. PICK b \in Seq(S) : b = x \o v
    BY <1>10
  <2>3. Begins(a, b) /\ Begins(b, e)
    BY <1>7, <1>8, <1>9, <1>11, <2>1, <2>2
  <2>4. QED
    BY <2>1, <2>3, BeginsFacts
<1>13. QED
  BY <1>3, <1>5, <1>11, <1>12 DEF Until

\* A step's action writes a packet if the step is one for it, and has not yet.
LEMMA MadeFresh ==
    ASSUME NEW step \in StepRecord, ValidStep(step)
    PROVE  /\ Made(ActionOf(step), step)
           /\ Writes(ActionOf(step)) <=> IsPacket(step)
           /\ \A a : Made(a, step) => (a.kind = "packet" <=> IsPacket(step))
<1>1. Made(ActionOf(step), step)
  BY DEF Made
<1>2. ActionOf(step).kind = "packet" <=> IsPacket(step)
  <2>1. ActionOf(step).kind = CASE step.action \in HoldActions   -> step.action
                                [] step.action \in PacketActions -> "packet"
                                [] step.action = "wait"          -> "timed"
                                [] OTHER -> IF step.ticks > 0 THEN "timed" ELSE "idle"
    BY KindCases DEF ActionOf, ValidStep
  <2>2. QED
    BY <2>1 DEF IsPacket, HoldActions, PacketActions
<1>3. ~ActionOf(step).sent
  BY DEF ActionOf
<1>4. QED
  BY <1>1, <1>2, <1>3 DEF Made, Writes

\* Ticking an action does not make it another step's.
LEMMA MadeTicked ==
    ASSUME NEW a \in Actions, Cooling(a), NEW step, Made(a, step)
    PROVE  Made(Ticked(a), step) /\ (Writes(a) => ~Writes(Ticked(a)))
<1> DEFINE over   == [a EXCEPT !.over = TRUE]
           longer == [a EXCEPT !.elapsed = a.elapsed + 1]
           sent   == [a EXCEPT !.sent = TRUE, !.cooldown = Cooldown]
           cooler == [a EXCEPT !.cooldown = a.cooldown - 1]
<1>1. /\ IsHold(a) => Ticked(a) = IF Expired(a) THEN over ELSE longer
      /\ ~IsHold(a) /\ a.kind = "timed" => Ticked(a) = longer
      /\ ~IsHold(a) /\ a.kind = "packet" => Ticked(a) = IF Writes(a) THEN sent ELSE cooler
      /\ ~IsHold(a) /\ a.kind # "timed" /\ a.kind # "packet" => Ticked(a) = a
  <2>1. CASE IsHold(a)
    BY <2>1 DEF Ticked, IsHold, HoldActions, Writes
  <2>2. CASE ~IsHold(a)
    BY <2>2 DEF Ticked, Writes, CooldownTicks
  <2>3. QED
    BY <2>1, <2>2, Zenon
<1>2. Made(over, step) /\ Made(longer, step) /\ Made(sent, step) /\ Made(cooler, step)
  BY DEF Made, Actions
<1>a. Made(Ticked(a), step)
  <2> HIDE DEF over, longer, sent, cooler
  <2>1. QED
    BY <1>1, <1>2
<1>3. ASSUME Writes(a) PROVE ~Writes(Ticked(a))
  <2>1. ~IsHold(a) /\ a.kind = "packet"
    BY <1>3 DEF Writes, IsHold, HoldActions
  <2>2. Ticked(a) = sent
    <3> HIDE DEF over, longer, sent, cooler
    <3>1. QED
      BY <1>1, <1>3, <2>1
  <2>3. sent.sent
    BY DEF Actions
  <2>4. QED
    BY <2>2, <2>3 DEF Writes
<1>4. QED
  BY <1>a, <1>3

\* A packet that is sent, is sent.
LEMMA StillSent ==
    ASSUME NEW a \in Actions, Cooling(a), ~Writes(a)
    PROVE  ~Writes(Ticked(a))
<1>1. Ticked(a).kind = a.kind
  BY TickedTyped
<1>2. CASE a.kind # "packet"
  BY <1>1, <1>2 DEF Writes
<1>3. CASE a.kind = "packet" /\ a.sent
  <2>1. ~IsHold(a) /\ a.kind # "timed"
    BY <1>3 DEF IsHold, HoldActions
  <2>2. Ticked(a) = [a EXCEPT !.cooldown = a.cooldown - 1]
    BY <1>3, <2>1 DEF Ticked, Writes
  <2>3. Ticked(a).sent
    BY <1>3, <2>2 DEF Actions
  <2>4. QED
    BY <2>3 DEF Writes
<1>4. QED
  BY <1>2, <1>3 DEF Writes

LEMMA CountedInit == Init => Counted
<1> SUFFICES ASSUME Init PROVE Counted
  OBVIOUS
<1>1. /\ created = <<>> /\ ~done /\ act = ActionOf(AnyStep) /\ Script = <<>>
  BY DEF Init, Script, NoConfig
<1>2. ~Writes(act)
  BY <1>1, NoScript DEF Writes
<1>3. QED
  BY <1>1, <1>2 DEF Counted, Playing

\* What is known of a step of the script the runner plays.
LEMMA ScriptStep ==
    ASSUME RunInv, NEW i \in DOMAIN Script
    PROVE  /\ Script[i] \in StepRecord /\ ValidStep(Script[i])
           /\ Times(Script[i]) \in Nat \ {0} /\ Repetitions(Script[i]) = Times(Script[i])
<1>1. Script[i] \in StepRecord /\ ValidStep(Script[i])
  BY DEF RunInv, ScriptValid
<1>2. QED
  BY <1>1, StepLasts

\* The next execution, of the same step or of the next one.
LEMMA FollowsStep ==
    ASSUME RunInv, Counted, Script' = Script, pc' \notin Early, pc = "ticker",
           Script # <<>>, Repeats \/ Turns
    PROVE  Counted'
<1>1. ~done /\ index \in DOMAIN Script /\ Runnable(Script) /\ Len(Script) \in Nat
      /\ DOMAIN Script = 1..Len(Script)
  BY ScriptRuns DEF Repeats, Turns, Follows, RunInv, Placed, ScriptValid
<1>2. created # <<>> /\ At(index)
  BY <1>1 DEF Counted, Playing
<1>3. PICK T \in Nat \ {0} : T = Times(Script[index])
  BY <1>1, ScriptStep
<1>4. repeat \in 1..T /\ created = Until(Script, index, T - repeat + 1)
  BY <1>2, <1>3 DEF At
<1>5. CASE Repeats
  <2>1. /\ repeat > 1 /\ repeat' = repeat - 1 /\ index' = index /\ ~done'
        /\ act' = ActionOf(Script[index]) /\ created' = Append(created, index)
    BY <1>1, <1>5 DEF Repeats, Follows
  <2>2. PICK n \in Nat : n = T - repeat + 1
    BY <1>4
  <2>3. created' = Until(Script, index, n + 1)
    BY <1>1, <1>4, <2>1, <2>2, UntilNext
  <2>4. n + 1 = T - repeat' + 1 /\ repeat' \in 1..T /\ n + 1 > 0 /\ n + 1 \in Nat
    BY <1>4, <2>1, <2>2
  <2>5. Made(act', Script[index])
    BY <1>1, <2>1, ScriptStep, MadeFresh
  <2>6. created' # <<>>
    BY <1>1, <2>3, <2>4, UntilTyped
  <2>7. At(index)'
    BY <1>3, <2>1, <2>3, <2>4, <2>5 DEF At
  <2>8. QED
    BY <1>1, <2>1, <2>6, <2>7 DEF Counted
<1>6. CASE Turns
  <2>1. /\ repeat = 1 /\ index + 1 \in DOMAIN Script /\ index' = index + 1 /\ ~done'
        /\ repeat' = Repetitions(Script[index + 1])
        /\ act' = ActionOf(Script[index + 1]) /\ created' = Append(created, index + 1)
    BY <1>1, <1>4, <1>6 DEF Turns, Follows
  <2>2. created = ExecutionsOf(Script, index)
    <3>1. T - repeat + 1 = T
      BY <2>1
    <3>2. QED
      BY <1>1, <1>3, <1>4, <3>1, UntilNext
  <2>3. created' = Until(Script, index + 1, 1)
    BY <1>1, <2>1, <2>2, UntilNext
  <2>4. PICK j \in DOMAIN Script : j = index + 1
    BY <2>1
  <2>5. PICK U \in Nat \ {0} : U = Times(Script[j]) /\ repeat' = U
    BY <2>1, <2>4, ScriptStep
  <2>6. repeat' \in 1..U /\ U - repeat' + 1 = 1
    BY <2>5
  <2>7. Made(act', Script[j])
    BY <2>1, <2>4, ScriptStep, MadeFresh
  <2>8. created' # <<>>
    BY <1>1, <2>3, <2>4, UntilTyped
  <2>9. At(j)'
    BY <2>3, <2>4, <2>5, <2>6, <2>7 DEF At
  <2>10. index' = j
    BY <2>1, <2>4
  <2>11. QED
    BY <1>1, <2>1, <2>8, <2>9, <2>10 DEF Counted
<1>7. QED
  BY <1>5, <1>6

LEMMA CountedTick ==
    ASSUME RunInv, Counted, RunnerTick
    PROVE  Counted'
<1>1. /\ UNCHANGED <<command, cfg>> /\ Script' = Script
      /\ pc = "ticker" /\ pc' \in {"frame", "returned"} /\ pc' \notin Early
      /\ act \in Actions /\ Cooling(act)
  BY TickCases DEF Early, RunInv, Typed
<1>2. CASE Stays
  <2>1. Playing' => Playing
    BY <1>1 DEF Playing
  <2>2. \A i : At(i) => At(i)'
    BY <1>1, <1>2 DEF At, Stays
  <2>3. QED
    BY <1>1, <1>2, <2>1, <2>2 DEF Counted, Stays
<1>3. CASE Goes
  <2>1. Playing' => Playing
    BY <1>1 DEF Playing
  <2>2. ~done /\ ~done' /\ act' = Ticked(act) /\ UNCHANGED <<index, repeat, created>>
    BY <1>3 DEF Goes
  <2>3. At(index) => At(index)'
    BY <1>1, <2>2, MadeTicked DEF At
  <2>4. ~Writes(act) => ~Writes(act')
    BY <1>1, <2>2, StillSent
  <2>5. created = <<>> => ~Writes(act')
    BY <2>4 DEF Counted
  <2>6. QED
    BY <1>1, <2>1, <2>2, <2>3, <2>5 DEF Counted
<1>4. CASE Script # <<>> /\ (Repeats \/ Turns)
  BY <1>1, <1>4, FollowsStep
<1>5. CASE Script # <<>> /\ Finishes
  <2>1. /\ ~done /\ done' /\ index = Len(Script) /\ ~(repeat > 1) /\ ~Writes(act)
        /\ act' = act /\ created' = created
    BY <1>5 DEF Finishes
  <2>2. index \in DOMAIN Script /\ Runnable(Script) /\ created # <<>> /\ At(index)
    BY <1>1, <1>5, <2>1, ScriptRuns DEF RunInv, Placed, Counted, Playing
  <2>3. PICK T \in Nat \ {0} : T = Times(Script[index])
    BY <2>2, ScriptStep
  <2>4. repeat \in 1..T /\ created = Until(Script, index, T - repeat + 1)
    BY <2>2, <2>3 DEF At
  <2>5. T - repeat + 1 = T
    BY <2>1, <2>4
  <2>6. created = ExecutionsOf(Script, index)
    BY <2>2, <2>3, <2>4, <2>5, UntilNext
  <2>7. created = Executions(Script)
    BY <2>1, <2>6 DEF Executions
  <2>8. QED
    BY <1>1, <1>5, <2>1, <2>2, <2>7 DEF Counted
<1>6. QED
  BY <1>2, <1>3, <1>4, <1>5, TickCases

LEMMA CountedBegin ==
    ASSUME RunInv, Counted, Begin
    PROVE  Counted'
<1>1. /\ pc = "begin" /\ index = 1 /\ ~done /\ index' = 1 /\ ~done' /\ created = <<>>
      /\ Script' = Script /\ ScriptValid
  BY DEF Begin, RunInv, Placed, Counted, Early, Script
<1>2. CASE Script = <<>>
  <2>1. act' = BuiltInAction(cfg.scenario) /\ created' = created /\ pc' = "ticker"
    BY <1>2 DEF Begin
  <2>2. ~Writes(act')
    BY <2>1, BuiltInTyped DEF Writes
  <2>3. QED
    BY <1>1, <1>2, <2>1, <2>2 DEF Counted, Early, Playing
<1>3. CASE Script # <<>>
  <2>1. 1 \in DOMAIN Script /\ Runnable(Script)
    BY <1>1, <1>3, ScriptRuns DEF ScriptValid
  <2>2. /\ repeat' = Repetitions(Script[1])
        /\ act' = ActionOf(Script[1]) /\ created' = Append(created, 1) /\ pc' = "ticker"
    BY <1>1, <1>3, <2>1, ReplaceMakes DEF Begin
  <2>3. PICK i \in DOMAIN Script : i = 1
    BY <2>1
  <2>4. created' = Until(Script, i, 1)
    BY <1>1, <2>1, <2>2, <2>3, UntilNext
  <2>5. PICK U \in Nat \ {0} : U = Times(Script[i]) /\ repeat' = U
    BY <2>2, <2>3, ScriptStep
  <2>6. repeat' \in 1..U /\ U - repeat' + 1 = 1
    BY <2>5
  <2>7. Made(act', Script[i])
    BY <2>2, <2>3, ScriptStep, MadeFresh
  <2>8. created' # <<>>
    BY <2>1, <2>4, UntilTyped
  <2>9. At(i)'
    BY <1>1, <2>4, <2>5, <2>6, <2>7 DEF At
  <2>10. index' = i
    BY <1>1, <2>3
  <2>11. QED
    BY <1>1, <1>3, <2>2, <2>8, <2>9, <2>10 DEF Counted, Early
<1>4. QED
  BY <1>2, <1>3

\* Steps of the others, and of the goroutine when it does not turn to the script.
Apart ==
    /\ UNCHANGED <<cfg, index, repeat, act, done, created, written, control, clock>>
    /\ pc' \in Early => pc \in Early
    /\ Playing' => Playing

LEMMA NextCases ==
    ASSUME RunInv, [Next]_vars
    PROVE  Parse \/ Begin \/ RunnerTick \/ Apart
<1>1. CASE Settle
  BY <1>1 DEF Settle, Apart, Early, Playing, Script, runnerVars, ghostVars
<1>2. CASE SendFrame
  BY <1>2 DEF SendFrame, Apart, Early, Playing, Script, runnerVars
<1>3. CASE SeeCancel
  BY <1>3 DEF SeeCancel, Apart, Early, Playing, Script, runnerVars, ghostVars
<1>4. CASE Teleport
  BY <1>4 DEF Teleport, Apart, Early, Playing, Script, runnerVars, ghostVars
<1>5. CASE Cancel
  BY <1>5 DEF Cancel, Apart, Early, Playing, Script, runnerVars, ghostVars
<1>6. CASE Over \/ UNCHANGED vars
  BY <1>6 DEF Over, vars, Apart, Early, Playing, Script, runnerVars, ghostVars
<1>7. QED
  BY <1>1, <1>2, <1>3, <1>4, <1>5, <1>6 DEF Next, TickLoop

LEMMA ApartCounts == Counted /\ Apart => Counted'
<1> SUFFICES ASSUME Counted, Apart PROVE Counted'
  OBVIOUS
<1>1. Script' = Script /\ UNCHANGED <<index, repeat, act, done, created>>
  BY DEF Apart, Script
<1>2. At(index) => At(index)'
  BY <1>1 DEF At
<1>3. QED
  BY <1>1, <1>2 DEF Counted, Apart

\* What Parse leaves alone while the bot has not begun.
LEMMA ParseFirst ==
    ASSUME RunInv, Counted, Parse
    PROVE  /\ created = <<>> /\ pc = "args" /\ pc' \in Early \cup {"rejected"}
           /\ ~done /\ ~Writes(act)
           /\ UNCHANGED <<index, repeat, act, done, control, created, written, clock, frame>>
<1>1. pc = "args" /\ created = <<>>
  BY DEF Parse, Counted, Early
<1>2. pc' \in Early \cup {"rejected"}
  BY DEF Parse, Early
<1>3. QED
  BY <1>1, <1>2 DEF Parse, Counted, runnerVars, ghostVars

LEMMA CountedParse == RunInv /\ Counted /\ Parse => Counted'
<1> SUFFICES ASSUME RunInv, Counted, Parse PROVE Counted'
  OBVIOUS
<1>1. QED
  BY ParseFirst DEF Counted, Playing, Early

LEMMA CountedStep == RunInv /\ Counted /\ [Next]_vars => Counted'
  BY NextCases, CountedParse, CountedBegin, CountedTick, ApartCounts

\* What was executed is typed.
LEMMA CreatedTyped ==
    ASSUME RunInv, Counted
    PROVE  /\ created \in Seq(DOMAIN Script)
           /\ created # <<>> /\ ~done =>
                  /\ index \in DOMAIN Script /\ created[Len(created)] = index
                  /\ Begins(created, Executions(Script))
<1>1. CASE created = <<>>
  BY <1>1
<1>2. CASE done
  BY <1>2, ScriptRuns, ExecutionsTyped DEF Counted
<1>3. CASE created # <<>> /\ ~done
  <2>1. index \in DOMAIN Script /\ At(index) /\ Runnable(Script)
    BY <1>3, ScriptRuns DEF Counted, RunInv, Placed
  <2>2. PICK T \in Nat \ {0} : T = Times(Script[index])
    BY <2>1, ScriptStep
  <2>3. repeat \in 1..T /\ created = Until(Script, index, T - repeat + 1)
    BY <2>1, <2>2 DEF At
  <2>4. PICK n \in 0..T : n = T - repeat + 1 /\ n > 0 /\ n \in Nat
    BY <2>3
  <2>5. created = Until(Script, index, n)
    BY <2>3, <2>4
  <2>6. Begins(created, Executions(Script))
    BY <2>1, <2>2, <2>5, UntilBegins
  <2>7. created \in Seq(DOMAIN Script) /\ created[Len(created)] = index
    BY <2>1, <2>4, <2>5, UntilTyped
  <2>8. QED
    BY <2>1, <2>6, <2>7
<1>4. QED
  BY <1>1, <1>2, <1>3

\* Until(Script, index, n) begins the executions of the script, and ends with the current.
LEMMA RepeatsInOrder == RunInv /\ Counted => RepeatsExact
<1> SUFFICES ASSUME RunInv, Counted PROVE RepeatsExact
  OBVIOUS
<1> DEFINE S == DOMAIN Script
<1>1. created \in Seq(S) /\ Executions(Script) \in Seq(S)
  BY CreatedTyped, ScriptRuns, ExecutionsTyped
<1> HIDE DEF S
<1>2. PICK e \in Seq(S) : e = Executions(Script)
  BY <1>1
<1>3. done => created = e
  BY <1>2 DEF Counted
<1>4. Begins(created, e)
  <2>1. CASE done
    <3>1. \A k \in Nat : k <= k
      OBVIOUS
    <3>2. QED
      BY <1>2, <1>3, <2>1, <3>1 DEF Begins
  <2>2. CASE created = <<>>
    <3>1. Len(created) = 0 /\ 0 <= Len(e)
      BY <1>2, <2>2
    <3>2. QED
      BY <3>1 DEF Begins
  <2>3. CASE ~done /\ created # <<>>
    BY <1>2, <2>3, CreatedTyped
  <2>4. QED
    BY <2>1, <2>2, <2>3
<1>5. IsPrefix(created, e)
  BY <1>1, <1>2, <1>4, BeginsFacts
<1>6. QED
  BY <1>2, <1>3, <1>5 DEF RepeatsExact

\* Each step is executed as often as the script says, one after the other, and the script is
\* done when all are: RepeatsExact.
THEOREM RepeatsCorrect == Spec => []RepeatsExact
<1>1. RunInv /\ Counted => RepeatsExact
  BY RepeatsInOrder
<1>2. QED
  BY <1>1, CountedInit, CountedStep, RunInvariant, PTL DEF Spec

-----------------------------------------------------------------------------
(* Packets. *)

LEMMA DueNext ==
    ASSUME NEW script, NEW S, NEW s \in Seq(S), NEW e \in S
    PROVE  /\ IsPacket(script[e]) => Front(Due(script, Append(s, e))) = Due(script, s)
           /\ ~IsPacket(script[e]) => Due(script, Append(s, e)) = Due(script, s)
<1>1. /\ Due(script, s) \in Seq(S)
      /\ Due(script, Append(s, e)) =
             IF IsPacket(script[e]) THEN Append(Due(script, s), e) ELSE Due(script, s)
  BY DueAppend
<1>2. PICK d \in Seq(S) : d = Due(script, s)
  BY <1>1
<1>3. Front(Append(d, e)) = d
  BY DEF Front
<1>4. QED
  BY <1>1, <1>2, <1>3

LEMMA NoneDue == ASSUME NEW script PROVE Due(script, <<>>) = <<>>
<1>1. 0 \in {0} /\ <<>> \in Seq({0})
  OBVIOUS
<1>2. QED
  BY <1>1, DueAppend

\* An execution that starts has its packet before it.
LEMMA PacketsReplace ==
    ASSUME RunInv, Counted, written = Due(Script, created), written' = written,
           Script' = Script, NEW i \in DOMAIN Script,
           act' = ActionOf(Script[i]), created' = Append(created, i)
    PROVE  PacketsOnce'
<1>1. created \in Seq(DOMAIN Script)
  BY CreatedTyped
<1>2. Writes(act') <=> IsPacket(Script[i])
  BY ScriptStep, MadeFresh
<1>3. /\ IsPacket(Script[i]) => Front(Due(Script, created')) = written
      /\ ~IsPacket(Script[i]) => Due(Script, created') = written
  BY <1>1, DueNext
<1>4. QED
  BY <1>2, <1>3 DEF PacketsOnce

LEMMA PacketsTick ==
    ASSUME RunInv, Counted, PacketsOnce, RunnerTick
    PROVE  PacketsOnce'
<1> DEFINE S == DOMAIN Script
<1>1. Script' = Script /\ created \in Seq(S) /\ act \in Actions /\ Cooling(act) /\ pc = "ticker"
  BY TickCases, CreatedTyped DEF RunInv, Typed
<1>2. CASE Stays
  BY <1>1, <1>2 DEF Stays, PacketsOnce
<1>3. CASE Goes /\ ~Writes(act)
  <2>1. /\ act' = Ticked(act) /\ created' = created /\ written' = written
    BY <1>3 DEF Goes
  <2>2. ~Writes(act')
    BY <1>1, <1>3, <2>1, StillSent
  <2>3. QED
    BY <1>1, <1>3, <2>1, <2>2 DEF PacketsOnce
<1>4. CASE Goes /\ Writes(act)
  <2>1. ~done /\ act' = Ticked(act) /\ created' = created /\ written' = Append(written, index)
    BY <1>4 DEF Goes
  <2>2. created # <<>> /\ At(index) /\ index \in S /\ created[Len(created)] = index
    BY <1>4, <2>1, CreatedTyped DEF Counted
  <2>3. Made(act, Script[index]) /\ act.kind = "packet"
    BY <1>4, <2>2 DEF At, Writes
  <2>4. IsPacket(Script[index])
    BY <2>2, <2>3, ScriptStep, MadeFresh
  <2>5. ~Writes(act')
    BY <1>1, <1>4, <2>1, <2>3, MadeTicked
  <2> HIDE DEF S
  <2>6. PICK r \in Seq(S), e \in S : created = Append(r, e)
    BY <1>1, <2>2, SequenceEmptyOrAppend
  <2>7. e = index
    BY <2>2, <2>6
  <2>8. Due(Script, created) = Append(Due(Script, r), index) /\ Due(Script, r) \in Seq(S)
    BY <2>4, <2>6, <2>7, DueAppend
  <2>9. Front(Due(Script, created)) = Due(Script, r)
    BY <2>4, <2>6, <2>7, DueNext
  <2>10. written = Due(Script, r)
    BY <1>4, <2>9 DEF PacketsOnce
  <2>11. QED
    BY <1>1, <2>1, <2>5, <2>8, <2>10 DEF PacketsOnce
<1>5. CASE Script # <<>> /\ Repeats
  <2>1. /\ ~Writes(act) /\ written' = written /\ index \in S
        /\ act' = ActionOf(Script[index]) /\ created' = Append(created, index)
    BY <1>5 DEF Repeats, Follows
  <2>2. QED
    BY <1>1, <2>1, PacketsReplace DEF PacketsOnce
<1>6. CASE Script # <<>> /\ Turns
  <2>1. /\ ~Writes(act) /\ written' = written /\ index + 1 \in S
        /\ act' = ActionOf(Script[index + 1]) /\ created' = Append(created, index + 1)
    BY <1>6 DEF Turns, Follows
  <2>2. QED
    BY <1>1, <2>1, PacketsReplace DEF PacketsOnce
<1>7. CASE Finishes
  BY <1>1, <1>7 DEF Finishes, PacketsOnce
<1>8. QED
  BY <1>2, <1>3, <1>4, <1>5, <1>6, <1>7, TickCases

LEMMA PacketsBegin ==
    ASSUME RunInv, Counted, PacketsOnce, Begin
    PROVE  PacketsOnce'
<1>1. /\ pc = "begin" /\ created = <<>> /\ ~Writes(act) /\ Script' = Script /\ written' = written
      /\ written = Due(Script, created) /\ ScriptValid
  BY DEF Begin, Counted, Early, Script, PacketsOnce, RunInv
<1>2. CASE Script = <<>>
  <2>1. act' = BuiltInAction(cfg.scenario) /\ created' = created
    BY <1>2 DEF Begin
  <2>2. ~Writes(act')
    BY <2>1, BuiltInTyped DEF Writes
  <2>3. QED
    BY <1>1, <2>1, <2>2 DEF PacketsOnce
<1>3. CASE Script # <<>>
  <2>1. 1 \in DOMAIN Script
    BY <1>1, <1>3 DEF ScriptValid
  <2>2. act' = ActionOf(Script[1]) /\ created' = Append(created, 1)
    BY <1>1, <1>3, <2>1, ReplaceMakes DEF Begin
  <2>3. QED
    BY <1>1, <2>1, <2>2, PacketsReplace
<1>4. QED
  BY <1>2, <1>3

\* Each execution of a packet step writes once, in order, and none of them is left out:
\* PacketsOnce.
THEOREM WritesCorrect == Spec => []PacketsOnce
<1>1. Init => PacketsOnce
  <2> SUFFICES ASSUME Init PROVE PacketsOnce
    OBVIOUS
  <2>1. created = <<>> /\ written = <<>> /\ act = ActionOf(AnyStep)
    BY DEF Init
  <2>2. ~Writes(act)
    BY <2>1, NoScript DEF Writes
  <2>3. QED
    BY <2>1, <2>2, NoneDue DEF PacketsOnce
<1>2. RunInv /\ Counted /\ PacketsOnce /\ [Next]_vars => PacketsOnce'
  <2> SUFFICES ASSUME RunInv, Counted, PacketsOnce, [Next]_vars PROVE PacketsOnce'
    OBVIOUS
  <2>1. CASE Parse
    <3>1. created = <<>> /\ ~Writes(act) /\ UNCHANGED <<act, created, written>>
      BY <2>1, ParseFirst
    <3>2. QED
      BY <3>1, NoneDue DEF PacketsOnce
  <2>2. CASE Begin
    BY <2>2, PacketsBegin
  <2>3. CASE RunnerTick
    BY <2>3, PacketsTick
  <2>4. CASE Apart
    BY <2>4 DEF Apart, PacketsOnce, Script
  <2>5. QED
    BY <2>1, <2>2, <2>3, <2>4, NextCases
<1>3. QED
  BY <1>1, <1>2, CountedInit, CountedStep, RunInvariant, PTL DEF Spec

-----------------------------------------------------------------------------
(* How long executions last and what they show. *)

\* The ticks an action has had.
Age(a) ==
    IF a.kind # "packet" THEN a.elapsed
    ELSE IF a.sent THEN Cooldown + 1 - a.cooldown ELSE 0

\* An action of step that is not over yet.
Under(a, step) ==
    /\ a \in Actions /\ Cooling(a) /\ Made(a, step)
    /\ IsHold(a) => ~a.over
    /\ Age(a) < Length(step)

LEMMA AgeTyped ==
    ASSUME NEW a \in Actions
    PROVE  Age(a) \in Nat
  BY CooldownAssumption DEF Age, Actions

\* An action begins at age 0.
LEMMA FreshUnder ==
    ASSUME NEW step \in StepRecord, ValidStep(step)
    PROVE  /\ Under(ActionOf(step), step) /\ Age(ActionOf(step)) = 0
           /\ IsHold(ActionOf(step)) <=> Holds(step)
<1>1. /\ ActionOf(step) \in Actions /\ ~ActionOf(step).sent /\ ActionOf(step).elapsed = 0
  BY ActionTyped
<1>2. ~ActionOf(step).over
  BY DEF ActionOf
<1>3. Cooling(ActionOf(step)) /\ Made(ActionOf(step), step) /\ Age(ActionOf(step)) = 0
  BY <1>1, MadeFresh DEF Cooling, Age
<1>4. Length(step) \in Nat \ {0}
  BY StepLasts
<1>5. IsHold(ActionOf(step)) <=> Holds(step)
  <2>1. ActionOf(step).kind = CASE step.action \in HoldActions   -> step.action
                                [] step.action \in PacketActions -> "packet"
                                [] step.action = "wait"          -> "timed"
                                [] OTHER -> IF step.ticks > 0 THEN "timed" ELSE "idle"
    BY KindCases DEF ActionOf, ValidStep
  <2>2. QED
    BY <2>1 DEF IsHold, Holds, HoldActions, PacketActions
<1>6. QED
  BY <1>1, <1>2, <1>3, <1>4, <1>5 DEF Under

\* What the kind of an action says of its step.
LEMMA MadeKind ==
    ASSUME NEW step \in StepRecord, ValidStep(step), NEW a, Made(a, step)
    PROVE  /\ a.ticks = step.ticks /\ step.ticks \in Nat
           /\ IsHold(a) <=> Holds(step)
           /\ a.kind = "packet" <=> IsPacket(step)
           /\ a.kind = "timed" => step.ticks > 0
           /\ a.kind = "idle" => step.ticks = 0
           /\ ~(Holds(step) /\ IsPacket(step))
           /\ a.kind \in Kinds
<1>1. /\ a.kind = CASE step.action \in HoldActions   -> step.action
                    [] step.action \in PacketActions -> "packet"
                    [] step.action = "wait"          -> "timed"
                    [] OTHER -> IF step.ticks > 0 THEN "timed" ELSE "idle"
      /\ a.ticks = step.ticks
  BY KindCases DEF Made, ActionOf, ValidStep
<1>2. step.ticks \in Nat
  BY StepLasts
<1>3. step.action = "wait" => step.ticks > 0
  BY DEF ValidStep, HasArguments
<1>4. step.action \in StepActions
  BY ValidRange
<1>5. QED
  BY <1>1, <1>2, <1>3, <1>4
     DEF IsHold, Holds, IsPacket, HoldActions, PacketActions, StepActions, Kinds

\* An action that is over at a tick has lasted as long as its step says; one that is not has
\* become a tick older.
LEMMA AgeTicks ==
    ASSUME NEW step \in StepRecord, ValidStep(step), NEW a, Under(a, step), a.elapsed < MaxTicks
    PROVE  /\ Age(a) \in Nat
           /\ IsDone(Ticked(a)) => a.kind # "idle" /\ Length(step) = Age(a) + 1
           /\ ~IsDone(Ticked(a)) =>
                  /\ Under(Ticked(a), step)
                  /\ a.kind # "idle" => Age(Ticked(a)) = Age(a) + 1
<1> DEFINE t == Ticked(a)
<1>1. /\ a \in Actions /\ Cooling(a) /\ Made(a, step) /\ (IsHold(a) => ~a.over)
      /\ Age(a) < Length(step)
      /\ a.elapsed \in Nat /\ a.elapsed + 1 \in Nat /\ a.cooldown \in 0..Cooldown
      /\ Cooldown \in Nat /\ Cooldown > 0 /\ a.over \in BOOLEAN /\ a.sent \in BOOLEAN
      /\ MaxTicks \in Nat /\ Forever = MaxTicks + 1
  BY CooldownAssumption, MaxTicksAssumption DEF Under, Actions, Forever
<1>2. /\ a.ticks = step.ticks /\ step.ticks \in Nat
      /\ IsHold(a) <=> Holds(step)
      /\ a.kind = "packet" <=> IsPacket(step)
      /\ a.kind = "timed" => step.ticks > 0
      /\ a.kind = "idle" => step.ticks = 0
      /\ ~(Holds(step) /\ IsPacket(step)) /\ a.kind \in Kinds
  BY <1>1, MadeKind
<1>3. /\ t \in Actions /\ t.kind = a.kind /\ Made(t, step) /\ (~IsDone(t) => Cooling(t))
      /\ IsHold(t) <=> IsHold(a)
  BY <1>1, TickedTyped, MadeTicked DEF IsHold
<1>4. CASE IsHold(a)
  <2>1. a.kind \notin {"packet", "timed", "idle"} /\ ~IsPacket(step) /\ Holds(step)
    BY <1>2, <1>4 DEF IsHold, HoldActions
  <2>2. /\ Age(a) = a.elapsed
        /\ Length(step) = IF step.ticks = 0 THEN Forever ELSE step.ticks + 1
        /\ Age(t) = t.elapsed
    BY <1>2, <1>3, <2>1 DEF Age, Length
  <2>3. CASE Expired(a)
    <3>1. t = [a EXCEPT !.over = TRUE]
      BY <1>4, <2>1, <2>3 DEF Ticked, Writes
    <3>2. t.over
      BY <1>1, <3>1 DEF Actions
    <3>3. IsDone(t)
      BY <1>3, <1>4, <2>1, <3>2 DEF IsDone
    <3>4. step.ticks > 0 /\ a.elapsed >= step.ticks /\ Length(step) = step.ticks + 1
      BY <1>2, <2>2, <2>3 DEF Expired
    <3>5. Length(step) = a.elapsed + 1
      BY <1>1, <1>2, <2>2, <3>4
    <3>6. QED
      BY <1>1, <2>1, <2>2, <3>3, <3>5
  <2>4. CASE ~Expired(a)
    <3>1. t = [a EXCEPT !.elapsed = a.elapsed + 1]
      BY <1>4, <2>1, <2>4 DEF Ticked, Writes
    <3>2. ~t.over /\ t.elapsed = a.elapsed + 1
      BY <1>1, <1>4, <3>1 DEF Actions
    <3>3. ~IsDone(t)
      BY <1>3, <1>4, <2>1, <3>2 DEF IsDone
    <3>4. step.ticks = 0 \/ (step.ticks > 0 /\ a.elapsed < step.ticks)
      BY <1>1, <1>2, <2>4 DEF Expired
    <3>5. a.elapsed + 1 < Length(step)
      BY <1>1, <1>2, <2>2, <3>4
    <3>6. Under(t, step)
      BY <1>3, <2>2, <3>2, <3>3, <3>5 DEF Under
    <3>7. QED
      BY <1>1, <2>2, <3>2, <3>3, <3>6
  <2>5. QED
    BY <2>3, <2>4
<1>5. CASE a.kind = "timed"
  <2>1. ~IsHold(a) /\ ~IsPacket(step) /\ ~Holds(step)
    BY <1>2, <1>5 DEF IsHold, HoldActions
  <2>2. Age(a) = a.elapsed /\ Length(step) = step.ticks /\ Age(t) = t.elapsed
    BY <1>2, <1>3, <1>5, <2>1 DEF Age, Length
  <2>3. t = [a EXCEPT !.elapsed = a.elapsed + 1]
    BY <1>5, <2>1 DEF Ticked, Writes
  <2>4. t.elapsed = a.elapsed + 1 /\ t.ticks = step.ticks
    BY <1>1, <1>2, <2>3 DEF Actions
  <2>5. IsDone(t) <=> t.elapsed >= t.ticks
    BY <1>3, <1>5, <2>1 DEF IsDone
  <2>6. IsDone(t) => Length(step) = Age(a) + 1
    BY <1>1, <1>2, <2>2, <2>4, <2>5
  <2>7. ~IsDone(t) => Age(t) < Length(step)
    BY <1>1, <1>2, <2>2, <2>4, <2>5
  <2>8. ~IsDone(t) => Under(t, step)
    BY <1>3, <2>1, <2>7 DEF Under
  <2>9. QED
    BY <1>1, <1>5, <2>2, <2>4, <2>6, <2>8
<1>6. CASE a.kind = "packet"
  <2>1. ~IsHold(a) /\ IsPacket(step) /\ a.kind # "timed"
    BY <1>2, <1>6 DEF IsHold, HoldActions
  <2>2. Length(step) = Cooldown + 1
    BY <2>1 DEF Length
  <2>3. IsDone(t) <=> t.sent /\ t.cooldown = 0
    BY <1>3, <1>6, <2>1 DEF IsDone
  <2>4. CASE ~a.sent
    <3>1. t = [a EXCEPT !.sent = TRUE, !.cooldown = Cooldown]
      BY <1>6, <2>1, <2>4 DEF Ticked, Writes, CooldownTicks
    <3>2. t.sent /\ t.cooldown = Cooldown
      BY <1>1, <3>1 DEF Actions
    <3>3. Age(a) = 0 /\ Age(t) = 1 /\ ~IsDone(t)
      BY <1>1, <1>3, <1>6, <2>3, <2>4, <3>2 DEF Age
    <3>4. Under(t, step)
      BY <1>1, <1>3, <2>1, <2>2, <3>3 DEF Under
    <3>5. QED
      BY <3>3, <3>4
  <2>5. CASE a.sent
    <3>1. t = [a EXCEPT !.cooldown = a.cooldown - 1]
      BY <1>6, <2>1, <2>5 DEF Ticked, Writes
    <3>2. t.sent /\ t.cooldown = a.cooldown - 1
      BY <1>1, <2>5, <3>1 DEF Actions
    <3>3. a.cooldown > 0
      BY <1>1, <1>6, <2>5 DEF Cooling
    <3>4. /\ Age(a) = Cooldown + 1 - a.cooldown /\ Age(t) = Cooldown + 1 - (a.cooldown - 1)
          /\ Age(a) \in Nat
      BY <1>1, <1>3, <1>6, <2>5, <3>2, <3>3 DEF Age
    <3>5. IsDone(t) => Length(step) = Age(a) + 1
      BY <1>1, <2>2, <2>3, <3>2, <3>4
    <3>6. ~IsDone(t) => Age(t) < Length(step)
      BY <1>1, <2>2, <2>3, <3>2, <3>3, <3>4
    <3>7. Age(t) = Age(a) + 1
      BY <1>1, <3>4
    <3>8. ~IsDone(t) => Under(t, step)
      BY <1>3, <2>1, <3>6 DEF Under
    <3>9. QED
      BY <1>6, <3>4, <3>5, <3>7, <3>8
  <2>6. QED
    BY <2>4, <2>5
<1>7. CASE a.kind = "idle"
  <2>1. ~IsHold(a) /\ ~Writes(a)
    BY <1>7 DEF IsHold, HoldActions, Writes
  <2>2. t = a
    BY <1>7, <2>1 DEF Ticked
  <2>3. ~IsDone(a)
    BY <1>7, <2>1 DEF IsDone
  <2>4. Age(a) \in Nat
    BY <1>1, <1>7 DEF Age
  <2>5. QED
    BY <1>7, <2>2, <2>3, <2>4
<1>8. QED
  BY <1>2, <1>4, <1>5, <1>6, <1>7 DEF Kinds, IsHold

\* What the controls are under an action alone.
Held(a) == IF IsHold(a) THEN Hold(a, Neutral) ELSE Neutral

LEMMA SameControls ==
    ASSUME NEW x \in Controls, NEW y \in Controls,
           x.strafe = y.strafe, x.forward = y.forward, x.speed = y.speed,
           x.yaw = y.yaw, x.pitch = y.pitch, x.jump = y.jump
    PROVE  x = y
  BY DEF Controls

\* What a hold action sets: a move its movement, a look the pitch, both the yaw.
LEMMA HoldFields ==
    ASSUME NEW a \in Actions, NEW c \in Controls, IsHold(a)
    PROVE  LET h == Hold(a, c)
               r == Release(a, c)
               moves == a.kind = "move"
               looks == a.kind = "look"
               jumps == a.kind = "jump"
           IN
           /\ h.strafe = (IF moves THEN a.strafe ELSE c.strafe)
           /\ h.forward = (IF moves THEN a.forward ELSE c.forward)
           /\ h.speed = (IF moves THEN a.speed ELSE c.speed)
           /\ h.yaw = (IF jumps THEN c.yaw ELSE a.yaw)
           /\ h.pitch = (IF looks THEN a.pitch ELSE c.pitch)
           /\ h.jump = (IF jumps THEN TRUE ELSE c.jump)
           /\ r.strafe = (IF moves THEN 0 ELSE c.strafe)
           /\ r.forward = (IF moves THEN 0 ELSE c.forward)
           /\ r.speed = (IF moves THEN 0 ELSE c.speed)
           /\ r.yaw = (IF jumps THEN c.yaw ELSE "server")
           /\ r.pitch = (IF looks THEN "server" ELSE c.pitch)
           /\ r.jump = (IF jumps THEN FALSE ELSE c.jump)
<1>1. CASE a.kind = "move"
  BY <1>1 DEF Hold, Release, Controls
<1>2. CASE a.kind = "look"
  BY <1>2 DEF Hold, Release, Controls
<1>3. CASE a.kind = "jump"
  BY <1>3 DEF Hold, Release, Controls
<1>4. QED
  BY <1>1, <1>2, <1>3 DEF IsHold, HoldActions

\* Holding twice is holding once, and releasing undoes it.
LEMMA HoldAgain ==
    ASSUME NEW a \in Actions, IsHold(a)
    PROVE  /\ Hold(a, Hold(a, Neutral)) = Hold(a, Neutral)
           /\ Release(a, Hold(a, Neutral)) = Neutral
<1>1. /\ Neutral \in Controls /\ Neutral.strafe = 0 /\ Neutral.forward = 0 /\ Neutral.speed = 0
      /\ Neutral.yaw = "server" /\ Neutral.pitch = "server" /\ Neutral.jump = FALSE
  BY NoScript DEF Neutral
<1>2. PICK h \in Controls : h = Hold(a, Neutral)
  BY <1>1, HoldTyped
<1>3. PICK g \in Controls : g = Hold(a, h)
  BY HoldTyped
<1>4. PICK r \in Controls : r = Release(a, h)
  BY HoldTyped
<1>5. /\ h.strafe = (IF a.kind = "move" THEN a.strafe ELSE 0)
      /\ h.forward = (IF a.kind = "move" THEN a.forward ELSE 0)
      /\ h.speed = (IF a.kind = "move" THEN a.speed ELSE 0)
      /\ h.yaw = (IF a.kind = "jump" THEN "server" ELSE a.yaw)
      /\ h.pitch = (IF a.kind = "look" THEN a.pitch ELSE "server")
      /\ h.jump = (IF a.kind = "jump" THEN TRUE ELSE FALSE)
  <2>1. /\ h.strafe = (IF a.kind = "move" THEN a.strafe ELSE Neutral.strafe)
        /\ h.forward = (IF a.kind = "move" THEN a.forward ELSE Neutral.forward)
        /\ h.speed = (IF a.kind = "move" THEN a.speed ELSE Neutral.speed)
    BY <1>1, <1>2, HoldFields
  <2>2. /\ h.yaw = (IF a.kind = "jump" THEN Neutral.yaw ELSE a.yaw)
        /\ h.pitch = (IF a.kind = "look" THEN a.pitch ELSE Neutral.pitch)
        /\ h.jump = (IF a.kind = "jump" THEN TRUE ELSE Neutral.jump)
    BY <1>1, <1>2, HoldFields
  <2>3. QED
    BY <1>1, <2>1, <2>2
<1>6. /\ g.strafe = h.strafe /\ g.forward = h.forward /\ g.speed = h.speed
      /\ g.yaw = h.yaw /\ g.pitch = h.pitch /\ g.jump = h.jump
  <2>1. /\ g.strafe = (IF a.kind = "move" THEN a.strafe ELSE h.strafe)
        /\ g.forward = (IF a.kind = "move" THEN a.forward ELSE h.forward)
        /\ g.speed = (IF a.kind = "move" THEN a.speed ELSE h.speed)
    BY <1>3, HoldFields
  <2>2. /\ g.yaw = (IF a.kind = "jump" THEN h.yaw ELSE a.yaw)
        /\ g.pitch = (IF a.kind = "look" THEN a.pitch ELSE h.pitch)
        /\ g.jump = (IF a.kind = "jump" THEN TRUE ELSE h.jump)
    BY <1>3, HoldFields
  <2>3. QED
    BY <1>5, <2>1, <2>2
<1>7. /\ r.strafe = 0 /\ r.forward = 0 /\ r.speed = 0
      /\ r.yaw = "server" /\ r.pitch = "server" /\ r.jump = FALSE
  BY <1>4, <1>5, HoldFields
<1>8. g = h
  BY <1>6, SameControls
<1>9. r = Neutral
  BY <1>1, <1>7, SameControls
<1>10. QED
  BY <1>2, <1>3, <1>4, <1>8, <1>9

\* Holding depends on what the step says alone.
LEMMA HoldMade ==
    ASSUME NEW a, NEW b, IsHold(a),
           a.kind = b.kind, a.strafe = b.strafe, a.forward = b.forward, a.speed = b.speed,
           a.yaw = b.yaw, a.pitch = b.pitch
    PROVE  Hold(a, Neutral) = Hold(b, Neutral)
<1>1. a.kind \in HoldActions
  BY DEF IsHold
<1>2. QED
  BY <1>1 DEF Hold, HoldActions

\* The controls stay those of the action, and are neutral when it is over.
LEMMA ControlFollows ==
    ASSUME NEW step \in StepRecord, ValidStep(step), NEW a, Under(a, step), a.elapsed < MaxTicks
    PROVE  /\ IsDone(Ticked(a)) => Controlled(a, Held(a)) = Neutral
           /\ ~IsDone(Ticked(a)) => Controlled(a, Held(a)) = Held(Ticked(a))
<1> DEFINE t == Ticked(a)
<1>1. /\ a \in Actions /\ Cooling(a) /\ Made(a, step) /\ (IsHold(a) => ~a.over)
      /\ a.over \in BOOLEAN /\ t.kind = a.kind /\ t \in Actions /\ Made(t, step)
      /\ (IsHold(t) <=> IsHold(a))
  BY TickedTyped, MadeTicked DEF Under, Actions, IsHold
<1>2. CASE IsHold(a)
  <2>1. a.kind \notin {"packet", "timed", "idle"} /\ ~Writes(a)
    BY <1>2 DEF IsHold, HoldActions, Writes
  <2>2. Held(a) = Hold(a, Neutral) /\ Held(t) = Hold(t, Neutral)
    BY <1>1, <1>2 DEF Held
  <2>3. Controlled(a, Held(a)) = IF Expired(a) THEN Neutral ELSE Hold(a, Neutral)
    BY <1>1, <1>2, <2>1, <2>2, HoldAgain DEF Controlled
  <2>4. IsDone(t) <=> Expired(a)
    <3>1. IsDone(t) <=> t.over
      BY <1>1, <1>2, <2>1 DEF IsDone
    <3>2. t = IF Expired(a) THEN [a EXCEPT !.over = TRUE] ELSE [a EXCEPT !.elapsed = a.elapsed + 1]
      BY <1>2, <2>1 DEF Ticked
    <3>3. t.over <=> Expired(a)
      BY <1>1, <1>2, <3>2 DEF Actions
    <3>4. QED
      BY <3>1, <3>3
  <2>5. Hold(a, Neutral) = Hold(t, Neutral)
    BY <1>1, <1>2, HoldMade DEF Made
  <2>6. QED
    BY <2>2, <2>3, <2>4, <2>5
<1>3. CASE ~IsHold(a)
  <2>1. Held(a) = Neutral /\ Held(t) = Neutral
    BY <1>1, <1>3 DEF Held
  <2>2. Controlled(a, Neutral) = Neutral
    BY <1>3 DEF Controlled
  <2>3. QED
    BY <2>1, <2>2
<1>4. QED
  BY <1>2, <1>3

\* What a new action does to neutral controls.
LEMMA StartHolds ==
    ASSUME NEW a
    PROVE  Started(a, Neutral) = Held(a)
<1>1. CASE IsHold(a)
  <2>1. a.kind # "idle"
    BY <1>1 DEF IsHold, HoldActions
  <2>2. QED
    BY <1>1, <2>1 DEF Started, Held
<1>2. CASE ~IsHold(a)
  BY <1>2 DEF Started, Held
<1>3. QED
  BY <1>1, <1>2

\* The inductive invariant: each execution is created when those before it are over, is not
\* older than it is long, and the controls are its own.
Timed(last) ==
    /\ Under(act, Script[index])
    /\ act.kind = "idle" => clock >= Offset(Script, last)
    /\ act.kind # "idle" => clock = Offset(Script, last) + Age(act)
    /\ control = Held(act)

\* Before the script the clock stands; after it no execution is left.
Timing ==
    /\ pc \in Early => control = Neutral /\ clock = 0
    /\ Playing /\ ~done => Timed(Len(created))
    /\ Playing /\ done => clock >= Offset(Script, Len(created) + 1) /\ control = Neutral

LEMMA TimingInit == Init => Timing
<1> SUFFICES ASSUME Init PROVE Timing
  OBVIOUS
<1>1. Script = <<>> /\ control = Neutral /\ clock = 0
  BY DEF Init, Script, NoConfig
<1>2. QED
  BY <1>1 DEF Timing, Playing

\* The execution that goes on, in the script's time.
LEMMA Current ==
    ASSUME RunInv, Counted, Playing, ~done
    PROVE  /\ index \in DOMAIN Script /\ Runnable(Script)
           /\ Script[index] \in StepRecord /\ ValidStep(Script[index])
           /\ Len(created) \in 1..Len(Executions(Script)) /\ Len(created) \in Nat
           /\ Executions(Script)[Len(created)] = index
           /\ Length(Script[index]) \in Nat
           /\ Offset(Script, Len(created)) \in Nat /\ Offset(Script, Len(created) + 1) \in Nat
           /\ Offset(Script, Len(created) + 1) =
                  Offset(Script, Len(created)) + Length(Script[index])
<1> DEFINE last == Len(created)
           runs == Executions(Script)
<1>1. created # <<>>
  BY DEF Counted
<1>2. /\ index \in DOMAIN Script /\ created[last] = index /\ Begins(created, runs)
      /\ created \in Seq(DOMAIN Script)
  BY <1>1, CreatedTyped
<1>3. Runnable(Script)
  BY ScriptRuns
<1>4. runs \in Seq(DOMAIN Script) /\ Len(runs) \in Nat /\ last \in Nat /\ last # 0
  <2> DEFINE S == DOMAIN Script
  <2>1. runs \in Seq(S) /\ created \in Seq(S)
    BY <1>2, <1>3, ExecutionsTyped
  <2> HIDE DEF S, runs
  <2>2. Len(runs) \in Nat /\ Len(created) \in Nat /\ Len(created) # 0
    BY <1>1, <2>1
  <2>3. QED
    BY <2>1, <2>2 DEF S
<1>5. last \in 1..Len(runs) /\ runs[last] = index
  <2>1. last <= Len(runs) /\ \A k \in 1..last : created[k] = runs[k]
    BY <1>2 DEF Begins
  <2> HIDE DEF last, runs
  <2>2. last \in 1..last /\ last \in 1..Len(runs)
    BY <1>4, <2>1
  <2>3. QED
    BY <1>2, <2>1, <2>2 DEF last
<1>6. Script[index] \in StepRecord /\ ValidStep(Script[index]) /\ Length(Script[index]) \in Nat
  BY <1>2, ScriptStep, StepLasts
<1>7. /\ \A k \in 1..Len(runs) + 1 : Offset(Script, k) \in Nat
      /\ \A k \in 1..Len(runs) : Offset(Script, k + 1) = Offset(Script, k) + Length(Script[runs[k]])
  BY <1>3, OffsetNext
<1> HIDE DEF last, runs
<1>8. last \in 1..Len(runs) + 1 /\ last + 1 \in 1..Len(runs) + 1
  BY <1>4, <1>5
<1>9. QED
  BY <1>2, <1>3, <1>4, <1>5, <1>6, <1>7, <1>8 DEF last, runs

\* The end of an execution is the offset of the next.
LEMMA TimingTick ==
    ASSUME RunInv, Counted, Timing, RunnerTick
    PROVE  Timing'
<1> DEFINE last == Len(created)
           t == Ticked(act)
<1>1. /\ Script' = Script /\ pc = "ticker" /\ pc' \in {"frame", "returned"} /\ pc' \notin Early
      /\ clock' = clock + 1 /\ clock < MaxTicks /\ clock \in Nat
      /\ act \in Actions /\ act.elapsed \in Nat /\ act.elapsed <= clock /\ MaxTicks \in Nat
  BY TickCases, MaxTicksAssumption DEF Early, RunInv, Typed, Actions
<1>2. CASE Script = <<>>
  BY <1>1, <1>2 DEF Timing, Playing
<1>3. CASE Script # <<>> /\ done /\ Stays
  <2>1. Playing /\ Runnable(Script) /\ created = Executions(Script)
    BY <1>1, <1>3, ScriptRuns DEF Playing, Counted
  <2>2. Offset(Script, last + 1) \in Nat
    <3>1. last \in Nat
      BY <2>1, OffsetNext
    <3>2. last + 1 \in 1..last + 1
      BY <3>1
    <3>3. QED
      BY <2>1, <3>2, OffsetNext
  <2>3. clock >= Offset(Script, last + 1) /\ control = Neutral
    BY <1>3, <2>1 DEF Timing
  <2>4. done' = done /\ created' = created /\ control' = control
    BY <1>3 DEF Stays
  <2>5. clock' >= Offset(Script, last + 1)
    BY <1>1, <2>2, <2>3
  <2>6. QED
    BY <1>1, <1>3, <2>3, <2>4, <2>5 DEF Timing
<1>4. CASE pc' # "frame"
  BY <1>1, <1>4 DEF Timing, Playing
<1>5. CASE Script # <<>> /\ ~done /\ pc' = "frame"
  <2>1. Playing
    BY <1>1, <1>5 DEF Playing
  <2>2. /\ Script[index] \in StepRecord /\ ValidStep(Script[index]) /\ Runnable(Script)
        /\ created \in Seq(DOMAIN Script)
        /\ index \in DOMAIN Script /\ last \in Nat /\ Length(Script[index]) \in Nat
        /\ Offset(Script, last) \in Nat
        /\ Offset(Script, last + 1) = Offset(Script, last) + Length(Script[index])
    BY <1>5, <2>1, Current, CreatedTyped
  <2>3. Timed(last) /\ Under(act, Script[index]) /\ control = Held(act)
    BY <1>5, <2>1 DEF Timing, Timed
  <2>4. act.elapsed < MaxTicks
    BY <1>1
  <2>5. /\ Age(act) \in Nat
        /\ IsDone(t) => act.kind # "idle" /\ Length(Script[index]) = Age(act) + 1
        /\ ~IsDone(t) => /\ Under(t, Script[index])
                         /\ act.kind # "idle" => Age(t) = Age(act) + 1
        /\ IsDone(t) => Controlled(act, control) = Neutral
        /\ ~IsDone(t) => Controlled(act, control) = Held(t)
    BY <2>2, <2>3, <2>4, AgeTicks, ControlFollows
  <2>6. /\ act.kind = "idle" => clock >= Offset(Script, last)
        /\ act.kind # "idle" => clock = Offset(Script, last) + Age(act)
    BY <2>3 DEF Timed
  <2>7. CASE Goes
    <3>1. ~IsDone(t) /\ act' = t /\ control' = Held(t) /\ UNCHANGED <<index, created, done>>
      BY <2>5, <2>7 DEF Goes
    <3>2. t.kind = act.kind
      BY <1>1, TickedTyped DEF RunInv, Typed
    <3>3. act.kind = "idle" => clock' >= Offset(Script, last)
      BY <1>1, <2>2, <2>6
    <3>4. act.kind # "idle" => clock' = Offset(Script, last) + Age(t)
      BY <1>1, <2>2, <2>5, <2>6, <3>1
    <3>5. Timed(last)'
      BY <1>1, <2>5, <3>1, <3>2, <3>3, <3>4 DEF Timed
    <3>6. QED
      BY <1>1, <1>5, <3>1, <3>5 DEF Timing
  <2>8. ASSUME IsDone(t) PROVE clock' = Offset(Script, last + 1) /\ Controlled(act, control) = Neutral
    BY <1>1, <2>2, <2>5, <2>6, <2>8
  <2>9. ASSUME NEW i \in DOMAIN Script, Follows(i) PROVE Timing'
    <3>1. /\ IsDone(t) /\ act' = ActionOf(Script[i]) /\ index' = i /\ done' = done /\ ~done
          /\ control' = Started(act', Controlled(act, control)) /\ created' = Append(created, i)
      BY <2>9 DEF Follows
    <3>2. Len(created') = last + 1
      BY <2>2, <3>1
    <3>3. control' = Held(act')
      BY <2>8, <3>1, StartHolds
    <3>4. Under(act', Script[i]) /\ Age(act') = 0
      BY <3>1, ScriptStep, FreshUnder
    <3>5. clock' = Offset(Script, last + 1) /\ clock' \in Nat
      BY <1>1, <2>8, <3>1
    <3>6. clock' >= Offset(Script, last + 1) /\ clock' = Offset(Script, last + 1) + 0
      BY <3>5
    <3>7. PICK n \in Nat : n = last + 1
      BY <2>2
    <3>8. Timed(n)'
      BY <1>1, <3>1, <3>3, <3>4, <3>6, <3>7 DEF Timed
    <3>9. QED
      BY <1>1, <3>1, <3>2, <3>7, <3>8 DEF Timing
  <2>10. CASE Finishes
    <3>1. /\ IsDone(t) /\ done' = TRUE /\ created' = created
          /\ control' = Controlled(act, control)
      BY <2>10 DEF Finishes
    <3>2. clock' = Offset(Script, last + 1) /\ clock' \in Nat /\ control' = Neutral
      BY <1>1, <2>8, <3>1
    <3>3. clock' >= Offset(Script, last + 1)
      BY <3>2
    <3>4. QED
      BY <1>1, <3>1, <3>2, <3>3 DEF Timing
  <2>11. QED
    BY <1>5, <2>2, <2>7, <2>9, <2>10, TickCases DEF Repeats, Turns, Follows
<1>6. QED
  BY <1>2, <1>3, <1>4, <1>5, TickCases DEF Goes, Repeats, Turns, Finishes, Follows

LEMMA TimingBegin ==
    ASSUME RunInv, Counted, Timing, Begin
    PROVE  Timing'
<1>1. /\ pc = "begin" /\ index = 1 /\ ~done /\ index' = 1 /\ ~done' /\ created = <<>>
      /\ Script' = Script /\ ScriptValid /\ control = Neutral /\ clock = 0 /\ clock' = 0
  BY DEF Begin, RunInv, Placed, Counted, Early, Script, Timing
<1>2. CASE Script = <<>>
  <2>1. pc' = "ticker"
    BY <1>2 DEF Begin
  <2>2. QED
    BY <1>1, <1>2, <2>1 DEF Timing, Playing, Early
<1>3. CASE Script # <<>>
  <2>1. 1 \in DOMAIN Script /\ Runnable(Script)
    BY <1>1, <1>3, ScriptRuns DEF ScriptValid
  <2>2. /\ act' = ActionOf(Script[1]) /\ control' = Started(act', control)
        /\ created' = Append(created, 1) /\ pc' = "ticker"
    BY <1>1, <1>3, <2>1, ReplaceMakes DEF Begin
  <2>3. Under(act', Script[1]) /\ Age(act') = 0 /\ control' = Held(act')
    BY <1>1, <2>1, <2>2, ScriptStep, FreshUnder, StartHolds
  <2>4. Len(created') = 1
    <3>1. created' = <<1>>
      BY <1>1, <2>2
    <3>2. QED
      BY <3>1
  <2>5. Offset(Script, 1) = 0
    BY <2>1, OffsetNext
  <2>6. clock' >= Offset(Script, 1) /\ clock' = Offset(Script, 1) + Age(act')
    BY <1>1, <2>3, <2>5
  <2>7. Timed(1)'
    BY <1>1, <2>3, <2>6 DEF Timed
  <2>8. QED
    BY <1>1, <2>2, <2>4, <2>7 DEF Timing, Early
<1>4. QED
  BY <1>2, <1>3

LEMMA TimingStep == RunInv /\ Counted /\ Timing /\ [Next]_vars => Timing'
<1> SUFFICES ASSUME RunInv, Counted, Timing, [Next]_vars PROVE Timing'
  OBVIOUS
<1>1. CASE Parse
  <2>1. /\ pc \in Early /\ control' = control /\ clock' = clock
        /\ pc' \notin {"ticker", "frame"}
    BY <1>1, ParseFirst DEF Early
  <2>2. QED
    BY <2>1 DEF Timing, Playing
<1>2. CASE Begin
  BY <1>2, TimingBegin
<1>3. CASE RunnerTick
  BY <1>3, TimingTick
<1>4. CASE Apart
  <2>1. /\ UNCHANGED <<index, act, done, created, control, clock>> /\ Script' = Script
        /\ (pc' \in Early => pc \in Early) /\ (Playing' => Playing)
    BY <1>4 DEF Apart, Script
  <2>2. Timed(Len(created)) => Timed(Len(created))'
    BY <2>1 DEF Timed
  <2>3. QED
    BY <2>1, <2>2 DEF Timing
<1>5. QED
  BY <1>1, <1>2, <1>3, <1>4, NextCases

-----------------------------------------------------------------------------
(* What frames show. *)

\* The last frame was made from these controls.
Sent ==
    pc = "ticker" /\ clock > 0 =>
        /\ frame.ack \in BOOLEAN /\ frame.jumping = (control.jump /\ ~frame.ack)
        /\ frame.strafe = IF frame.ack THEN 0 ELSE control.strafe
        /\ frame.forward = IF frame.ack THEN 0 ELSE control.forward
        /\ frame.speed = IF frame.ack THEN 0 ELSE control.speed
        /\ frame.yaw = control.yaw /\ frame.pitch = control.pitch

LEMMA SentStep == RunInv /\ Timing /\ Sent /\ [Next]_vars => Sent'
<1> SUFFICES ASSUME RunInv, Timing, Sent, [Next]_vars, (pc = "ticker")', clock' > 0
             PROVE  Sent'
  BY DEF Sent
<1>1. CASE SendFrame
  <2>1. /\ frame'.strafe = (IF teleport THEN 0 ELSE control.strafe)
        /\ frame'.forward = (IF teleport THEN 0 ELSE control.forward)
        /\ frame'.speed = (IF teleport THEN 0 ELSE control.speed)
        /\ frame'.yaw = control.yaw /\ frame'.pitch = control.pitch
        /\ frame'.jumping = (control.jump /\ ~teleport) /\ frame'.ack = teleport
        /\ control' = control
    BY <1>1 DEF SendFrame
  <2>2. teleport \in BOOLEAN
    BY DEF RunInv, Typed
  <2>3. QED
    BY <2>1, <2>2 DEF Sent
<1>2. CASE Begin
  <2>1. clock' = clock /\ clock = 0
    BY <1>2 DEF Begin, Timing, Early
  <2>2. QED
    BY <2>1
<1>3. CASE ~SendFrame /\ ~Begin
  <2>1. UNCHANGED <<pc, control, clock, frame>>
    <3>1. ~Parse /\ ~Settle /\ ~RunnerTick /\ ~SeeCancel
      BY TickCases DEF Parse, Settle, SeeCancel
    <3>2. QED
      BY <1>3, <3>1 DEF Next, TickLoop, Teleport, Cancel, Over, vars, ghostVars
  <2>2. QED
    BY <2>1 DEF Sent
<1>4. QED
  BY <1>1, <1>2, <1>3

\* The controls are what the script wants at this tick.
LEMMA ControlsWanted ==
    ASSUME RunInv, Counted, Timing, Playing
    PROVE  control = Wanted(Script, clock)
<1>1. clock \in Nat /\ clock <= MaxTicks /\ MaxTicks \in Nat
  BY MaxTicksAssumption DEF RunInv, Typed
<1>2. CASE done
  <2>1. /\ Runnable(Script) /\ created = Executions(Script)
        /\ clock >= Offset(Script, Len(created) + 1) /\ control = Neutral
    BY <1>2, ScriptRuns DEF Counted, Timing
  <2>2. Offset(Script, Len(Executions(Script)) + 1) <= clock
    <3>1. Len(Executions(Script)) + 1 \in 1..Len(Executions(Script)) + 1
      BY <2>1, OffsetNext
    <3>2. Offset(Script, Len(Executions(Script)) + 1) \in Nat
      BY <2>1, <3>1, OffsetNext
    <3>3. QED
      BY <1>1, <2>1, <3>2
  <2>3. QED
    BY <1>1, <2>1, <2>2, WantedAfter
<1>3. CASE ~done
  <2> DEFINE last == Len(created)
             step == Script[index]
  <2>1. /\ Runnable(Script) /\ last \in 1..Len(Executions(Script))
        /\ Executions(Script)[last] = index
        /\ step \in StepRecord /\ ValidStep(step) /\ Length(step) \in Nat
        /\ Offset(Script, last) \in Nat
    BY <1>3, Current
  <2>2. Under(act, step) /\ control = Held(act) /\ Made(act, step) /\ act.elapsed \in Nat
        /\ Age(act) < Length(step)
    BY <1>3 DEF Timing, Timed, Under, Actions
  <2>3. IsHold(act) <=> Holds(step)
    BY <2>1, <2>2, MadeKind
  <2>4. control = IF Holds(step) THEN Hold(ActionOf(step), Neutral) ELSE Neutral
    <3>1. CASE IsHold(act)
      <4>1. Hold(act, Neutral) = Hold(ActionOf(step), Neutral)
        BY <2>2, <3>1, HoldMade DEF Made
      <4>2. QED
        BY <2>2, <2>3, <3>1, <4>1 DEF Held
    <3>2. CASE ~IsHold(act)
      BY <2>2, <2>3, <3>2 DEF Held
    <3>3. QED
      BY <3>1, <3>2
  <2>5. Offset(Script, last) <= clock /\ clock < Offset(Script, last) + Length(step)
    <3>1. CASE act.kind = "idle"
      <4>1. clock >= Offset(Script, last)
        BY <1>3, <3>1 DEF Timing, Timed
      <4>2. step.ticks = 0 /\ ~IsPacket(step)
        BY <2>1, <2>2, <3>1, MadeKind
      <4>3. Length(step) = MaxTicks + 1
        BY <4>2 DEF Length, Forever
      <4>4. QED
        BY <1>1, <2>1, <4>1, <4>3
    <3>2. CASE act.kind # "idle"
      <4>1. clock = Offset(Script, last) + Age(act)
        BY <1>3, <3>2 DEF Timing, Timed
      <4>2. Age(act) \in Nat
        BY <2>2, AgeTyped DEF Under
      <4>3. QED
        BY <1>1, <2>1, <2>2, <4>1, <4>2
    <3>3. QED
      BY <3>1, <3>2
  <2> HIDE DEF last, step
  <2>6. PICK k \in 1..Len(Executions(Script)) : k = last
    BY <2>1
  <2>7. PICK s : s = step
    OBVIOUS
  <2>8. s = Script[Executions(Script)[k]]
    BY <2>1, <2>6, <2>7 DEF step
  <2>9. QED
    BY <1>1, <2>1, <2>4, <2>5, <2>6, <2>7, <2>8, WantedWithin
<1>4. QED
  BY <1>2, <1>3

\* The controls of an action that is not over are the ones wanted at that tick.
LEMMA Shows == RunInv /\ Counted /\ Timing /\ Sent => FrameShowsScript
<1> SUFFICES ASSUME RunInv, Counted, Timing, Sent, pc = "ticker", clock > 0, Script # <<>>
             PROVE  FrameShowsScript
  BY DEF FrameShowsScript
<1>1. control = Wanted(Script, clock)
  BY ControlsWanted DEF Playing
<1>2. PICK w : w = Wanted(Script, clock)
  OBVIOUS
<1>3. /\ frame.ack \in BOOLEAN /\ frame.jumping = (w.jump /\ ~frame.ack)
      /\ frame.strafe = IF frame.ack THEN 0 ELSE w.strafe
      /\ frame.forward = IF frame.ack THEN 0 ELSE w.forward
      /\ frame.speed = IF frame.ack THEN 0 ELSE w.speed
      /\ frame.yaw = w.yaw /\ frame.pitch = w.pitch
  BY <1>1, <1>2 DEF Sent
<1>4. /\ <<frame.strafe, frame.forward, frame.speed>> =
             (IF ~frame.ack THEN <<w.strafe, w.forward, w.speed>> ELSE <<0, 0, 0>>)
      /\ <<frame.yaw, frame.pitch>> = <<w.yaw, w.pitch>>
  BY <1>3
<1>5. QED
  BY <1>2, <1>3, <1>4 DEF FrameShowsScript

\* Every frame shows what the script asks for at its tick, for every script, however its
\* steps follow one another and whenever teleports come: FrameShowsScript.
THEOREM FramesCorrect == Spec => []FrameShowsScript
<1>1. Init => Sent
  BY DEF Init, Sent
<1>2. QED
  BY <1>1, RunInvariant, CountedInit, CountedStep, TimingInit, TimingStep, SentStep, Shows, PTL
     DEF Spec

-----------------------------------------------------------------------------
(* Names and headings. *)

\* Numbers up to 100 have one, two or three digits.
LEMMA DigitsOf ==
    ASSUME NEW n \in 1..100
    PROVE  Digits(n) = IF n < 10 THEN 1 ELSE IF n < 100 THEN 2 ELSE 3
<1> DEFINE Is(d) == 10^(d - 1) <= n /\ n < 10^d
           want == IF n < 10 THEN 1 ELSE IF n < 100 THEN 2 ELSE 3
<1>1. want \in 1..10 /\ Is(want)
  <2>1. 10^(1 - 1) = 1 /\ 10^1 = 10 /\ 10^(2 - 1) = 10 /\ 10^2 = 100 /\ 10^(3 - 1) = 100
        /\ 10^3 = 1000
    OBVIOUS
  <2>2. CASE n < 10
    BY <2>1, <2>2
  <2>3. CASE ~(n < 10) /\ n < 100
    BY <2>1, <2>3
  <2>4. CASE ~(n < 10) /\ ~(n < 100)
    BY <2>1, <2>4
  <2>5. QED
    BY <2>2, <2>3, <2>4
<1>2. ASSUME NEW d \in 1..10, Is(d) PROVE d = want
  <2>1. ~Is(4) /\ ~Is(5) /\ ~Is(6) /\ ~Is(7) /\ ~Is(8) /\ ~Is(9) /\ ~Is(10)
    OBVIOUS
  <2>2. (Is(1) => n < 10) /\ (Is(2) => n >= 10 /\ n < 100) /\ (Is(3) => n >= 100)
    OBVIOUS
  <2> HIDE DEF Is
  <2>3. d \in {1, 2, 3, 4, 5, 6, 7, 8, 9, 10}
    OBVIOUS
  <2>4. d = 1 \/ d = 2 \/ d = 3
    BY <1>2, <2>1, <2>3
  <2>5. QED
    BY <1>2, <2>2, <2>4
<1> HIDE DEF Is, want
<1>3. (CHOOSE d \in 1..10 : Is(d)) = want
  BY <1>1, <1>2
<1>4. QED
  BY <1>3 DEF Digits, Is, want

\* The names of a fleet are as long as the first.
LEMMA NamesLong ==
    ASSUME NEW prefix, NEW count \in 1..100, NEW i \in 1..count
    PROVE  NameLength(prefix, count, i) = NameLength(prefix, count, 1)
<1>1. i \in 1..100 /\ i <= count /\ 1 \in 1..100
  OBVIOUS
<1>2. /\ Digits(count) = IF count < 10 THEN 1 ELSE IF count < 100 THEN 2 ELSE 3
      /\ Digits(i) = IF i < 10 THEN 1 ELSE IF i < 100 THEN 2 ELSE 3
      /\ Digits(1) = 1
  BY <1>1, DigitsOf
<1>3. ~(Digits(i) > Width(count)) /\ ~(Digits(1) > Width(count))
      /\ Width(count) \in {2, 3} /\ Digits(i) \in {1, 2, 3}
  BY <1>1, <1>2 DEF Width
<1>4. \A w, d : w \in {2, 3} /\ d \in {1, 2, 3} /\ ~(d > w) => (IF d < w THEN w ELSE d) = w
  OBVIOUS
<1>5. /\ (IF Digits(i) < Width(count) THEN Width(count) ELSE Digits(i)) = Width(count)
      /\ (IF Digits(1) < Width(count) THEN Width(count) ELSE Digits(1)) = Width(count)
  BY <1>2, <1>3, <1>4
<1>6. QED
  BY <1>5 DEF NameLength

\* What Parse leaves is an accepted command.
Configured == cfg # NoConfig => Accepted(command) /\ cfg = ParsedConfig(command)

LEMMA ConfiguredStep == Configured /\ [Next]_vars => Configured'
<1> SUFFICES ASSUME Configured, [Next]_vars PROVE Configured'
  OBVIOUS
<1>1. CASE Parse /\ Accepted(command)
  <2>1. cfg' = ParsedConfig(command) /\ command' = command
    BY <1>1 DEF Parse
  <2>2. QED
    BY <1>1, <2>1 DEF Configured
<1>2. CASE ~(Parse /\ Accepted(command))
  <2>1. cfg' = cfg /\ command' = command
    BY <1>2 DEF Next, Parse, TickLoop, Settle, Begin, RunnerTick, SendFrame, SeeCancel, Teleport,
                Cancel, Over, vars
  <2>2. QED
    BY <2>1 DEF Configured
<1>3. QED
  BY <1>1, <1>2

LEMMA Configuration == Spec => []Configured
<1>1. Init => Configured
  BY DEF Init, Configured
<1>2. QED
  BY <1>1, ConfiguredStep, PTL DEF Spec

\* The names of an accepted fleet fit and have one length, for every count and prefix:
\* NamesAligned.
THEOREM NamesCorrect == Spec => []NamesAligned
<1>1. Configured => NamesAligned
  <2> SUFFICES ASSUME Configured, cfg # NoConfig, NEW i \in 1..cfg.count
               PROVE  /\ NameLength(cfg.prefix, cfg.count, i) = NameLength(cfg.prefix, cfg.count, 1)
                      /\ NameLength(cfg.prefix, cfg.count, i) <= 16
    BY DEF NamesAligned
  <2>1. Accepted(command) /\ cfg.count = command.count /\ cfg.prefix = Prefix(command)
    BY DEF Configured, ParsedConfig
  <2>2. cfg.count \in 1..100 /\ NamesFit(command)
    BY <2>1 DEF Accepted
  <2>3. NameLength(cfg.prefix, cfg.count, i) <= 16
    BY <2>1, <2>2 DEF NamesFit
  <2>4. QED
    BY <2>2, <2>3, NamesLong
<1>2. QED
  BY <1>1, Configuration, PTL

\* Division with remainder, in the form the next lemmas use.
LEMMA Divided ==
    ASSUME NEW a \in Int, NEW turn \in Nat \ {0}
    PROVE  a % turn \in 0..(turn - 1) /\ \E q \in Int : a = turn * q + (a % turn)
<1>1. PICK q \in Int : q = a \div turn
  OBVIOUS
<1>2. PICK r \in Int : r = a % turn
  OBVIOUS
<1>3. r \in 0..(turn - 1) /\ a = turn * q + r
  BY <1>1, <1>2
<1>4. QED
  BY <1>2, <1>3

\* A heading wrapped is the one angle of the turn that differs by whole turns.
LEMMA Around ==
    ASSUME NEW a \in Int, NEW turn \in Nat \ {0}
    PROVE  /\ Wrapped(Mod(a, turn), turn) \in 0..(turn - 1)
           /\ \E q \in Int : a = turn * q + Wrapped(Mod(a, turn), turn)
<1>1. CASE a >= 0
  <2>1. Mod(a, turn) = a % turn /\ Wrapped(a % turn, turn) = a % turn
    BY <1>1, Divided DEF Mod, Wrapped
  <2>2. QED
    BY <2>1, Divided
<1>2. CASE a < 0
  <2>1. PICK b \in Int : b = -a
    OBVIOUS
  <2>2. PICK r \in 0..(turn - 1) : r = b % turn
    BY Divided
  <2>3. PICK q \in Int : b = turn * q + r
    BY <2>2, Divided
  <2>4. Mod(a, turn) = -r
    BY <1>2, <2>1, <2>2 DEF Mod
  <2>5. CASE r = 0
    <3>1. r <= 0 /\ r >= 0
      BY <2>5
    <3>2. ~(-r < 0) /\ -r = 0
      BY <3>1
    <3>3. Wrapped(Mod(a, turn), turn) = 0
      BY <2>4, <3>2 DEF Wrapped
    <3>4. -q \in Int /\ a = turn * (-q) + 0
      BY <2>1, <2>3, <2>5
    <3>5. QED
      BY <3>3, <3>4
  <2>6. CASE r # 0
    <3>1. Wrapped(Mod(a, turn), turn) = turn - r
      BY <2>4, <2>6 DEF Wrapped
    <3>2. -q - 1 \in Int /\ a = turn * (-q - 1) + (turn - r)
      BY <2>1, <2>3
    <3>3. turn - r \in 0..(turn - 1)
      BY <2>6
    <3>4. QED
      BY <3>1, <3>2, <3>3
  <2>7. QED
    BY <2>5, <2>6
<1>3. QED
  BY <1>1, <1>2

\* h is i - 1 parts of a turn from c, up to whole turns, in units of 1/n degree.
WholeTurns(h, c, i, n) == \E m \in Int : h = c + 360 * (i - 1) - 360 * (n * m)

\* Bot i of n looks i - 1 parts of a turn from the base, up to whole turns.
LEMMA HeadingOf ==
    ASSUME NEW base \in Int, NEW n \in Nat, n > 1, NEW i \in 1..n
    PROVE  /\ Heading(base, i, n) \in Int
           /\ -180 * n <= Heading(base, i, n) /\ Heading(base, i, n) < 180 * n
           /\ WholeTurns(Heading(base, i, n), base * n, i, n)
<1>1. PICK c \in Int : c = base * n
  OBVIOUS
<1>2. PICK turn \in Nat \ {0} : turn = 360 * n
  OBVIOUS
<1>3. PICK a \in Int : a = c + 360 * (i - 1) + 180 * n
  OBVIOUS
<1>4. PICK w \in 0..(turn - 1) : w = Wrapped(Mod(a, turn), turn)
  BY Around
<1>5. PICK q \in Int : a = turn * q + w
  BY <1>4, Around
<1>6. Heading(base, i, n) = w - 180 * n
  BY <1>1, <1>2, <1>3, <1>4 DEF Heading
<1>7. turn * q = 360 * (n * q)
  BY <1>2
<1>8. PICK p \in Int : p = n * q
  OBVIOUS
<1>9. w - 180 * n = c + 360 * (i - 1) - 360 * p
  BY <1>3, <1>5, <1>7, <1>8
<1>10. WholeTurns(w - 180 * n, c, i, n)
  BY <1>8, <1>9 DEF WholeTurns
<1>11. WholeTurns(Heading(base, i, n), base * n, i, n)
  BY <1>1, <1>6, <1>10, Zenon
<1>12. QED
  BY <1>2, <1>6, <1>11

\* Numbers less than n apart are no multiple of n apart, unless they are equal.
LEMMA LessThanApart ==
    ASSUME NEW n \in Nat, NEW i \in 1..n, NEW j \in 1..n, NEW k \in Int, i - j = n * k
    PROVE  i = j
<1>1. k >= 1 => n * k >= n
  OBVIOUS
<1>2. k <= -1 => n * k <= -n
  OBVIOUS
<1>3. k = 0 => n * k = 0
  OBVIOUS
<1>4. PICK p \in Int : p = n * k
  OBVIOUS
<1>5. QED
  BY <1>1, <1>2, <1>3, <1>4

\* Two bots of a fleet look apart.
LEMMA HeadingsApart ==
    ASSUME NEW base \in Int, NEW n \in Nat, n > 1, NEW i \in 1..n, NEW j \in 1..n,
           Heading(base, i, n) = Heading(base, j, n)
    PROVE  i = j
<1>1. PICK c \in Int : c = base * n
  OBVIOUS
<1>2. PICK h : h = Heading(base, i, n) /\ h = Heading(base, j, n)
  OBVIOUS
<1>3. WholeTurns(h, c, i, n) /\ WholeTurns(h, c, j, n)
  <2>1. WholeTurns(Heading(base, i, n), base * n, i, n)
    BY HeadingOf
  <2>2. WholeTurns(Heading(base, j, n), base * n, j, n)
    BY HeadingOf
  <2>3. QED
    BY <1>1, <1>2, <2>1, <2>2, Zenon
<1>4. PICK l \in Int : h = c + 360 * (i - 1) - 360 * (n * l)
  BY <1>3 DEF WholeTurns
<1>5. PICK m \in Int : h = c + 360 * (j - 1) - 360 * (n * m)
  BY <1>3 DEF WholeTurns
<1>6. PICK p \in Int : p = n * l
  OBVIOUS
<1>7. PICK q \in Int : q = n * m
  OBVIOUS
<1>8. i - j = p - q
  <2>1. c + 360 * (i - 1) - 360 * p = c + 360 * (j - 1) - 360 * q
    BY <1>4, <1>5, <1>6, <1>7
  <2>2. QED
    BY <2>1
<1>9. p - q = n * (l - m)
  BY <1>6, <1>7
<1>10. l - m \in Int /\ i - j = n * (l - m)
  BY <1>8, <1>9
<1>11. QED
  BY <1>10, LessThanApart

\* So the headings of a fleet are as many as its bots.
LEMMA HeadingsCounted ==
    ASSUME NEW base \in Int, NEW n \in Nat, n > 1
    PROVE  Cardinality({Heading(base, i, n) : i \in 1..n}) = n
<1> DEFINE headings == {Heading(base, i, n) : i \in 1..n}
           of == [i \in 1..n |-> Heading(base, i, n)]
<1>1. of \in [1..n -> headings]
  OBVIOUS
<1>2. \A i, j \in 1..n : of[i] = of[j] => i = j
  BY HeadingsApart
<1>3. \A h \in headings : \E i \in 1..n : of[i] = h
  OBVIOUS
<1> HIDE DEF headings, of
<1>4. of \in Bijection(1..n, headings)
  BY <1>1, <1>2, <1>3, Fun_IsBij
<1>5. ExistsBijection(1..n, headings)
  BY <1>4, Fun_ExistsBij
<1>6. IsFiniteSet(1..n) /\ Cardinality(1..n) = n
  BY FS_Interval
<1>7. Cardinality(headings) = n
  BY <1>5, <1>6, FS_Bijection
<1>8. QED
  BY <1>7 DEF headings

\* The bots of a fleet set off in as many directions as there are bots, evenly around the
\* turn, for every base yaw and every accepted count: HeadingsSpread.
THEOREM HeadingsCorrect == Spec => []HeadingsSpread
<1>1. Configured => HeadingsSpread
  <2> SUFFICES ASSUME Configured, cfg.count > 1, NEW base \in BaseYaws
               PROVE  LET headings == {Heading(base, i, cfg.count) : i \in 1..cfg.count} IN
                      /\ Cardinality(headings) = cfg.count
                      /\ \A h \in headings : /\ -180 * cfg.count <= h /\ h < 180 * cfg.count
                                             /\ (h - base * cfg.count) % 360 = 0
    BY DEF HeadingsSpread
  <2>1. cfg # NoConfig
    <3>1. NoConfig.count = 0
      BY DEF NoConfig
    <3>2. ~(NoConfig.count > 1)
      BY <3>1
    <3>3. QED
      BY <3>2
  <2>2. cfg.count \in 1..100
    BY <2>1 DEF Configured, ParsedConfig, Accepted
  <2>3. PICK n \in Nat : n = cfg.count /\ n > 1
    BY <2>2
  <2>4. base \in Int
    BY BaseYawsAssumption
  <2>5. ASSUME NEW i \in 1..n
        PROVE  /\ -180 * n <= Heading(base, i, n) /\ Heading(base, i, n) < 180 * n
               /\ (Heading(base, i, n) - base * n) % 360 = 0
    <3>1. PICK c \in Int : c = base * n
      BY <2>4
    <3>2. PICK h \in Int : h = Heading(base, i, n)
      BY <2>3, <2>4, HeadingOf
    <3>3. /\ WholeTurns(Heading(base, i, n), base * n, i, n)
          /\ -180 * n <= h /\ h < 180 * n
      <4>1. WholeTurns(Heading(base, i, n), base * n, i, n)
        BY <2>3, <2>4, HeadingOf
      <4>2. -180 * n <= Heading(base, i, n) /\ Heading(base, i, n) < 180 * n
        BY <2>3, <2>4, HeadingOf, Zenon
      <4>3. QED
        BY <3>2, <4>1, <4>2
    <3>4. WholeTurns(h, c, i, n)
      BY <3>1, <3>2, <3>3, Zenon
    <3>5. PICK m \in Int : h = c + 360 * (i - 1) - 360 * (n * m)
      BY <3>4 DEF WholeTurns
    <3>6. PICK p \in Int : p = n * m
      OBVIOUS
    <3>7. PICK x \in Int : x = i - 1 - p
      OBVIOUS
    <3>8. h - c = 360 * x
      BY <3>1, <3>5, <3>6, <3>7
    <3>9. (360 * x) % 360 = 0
      OBVIOUS
    <3>10. QED
      BY <3>1, <3>2, <3>3, <3>8, <3>9
  <2>6. Cardinality({Heading(base, i, n) : i \in 1..n}) = n
    BY <2>3, <2>4, HeadingsCounted
  <2>7. QED
    BY <2>3, <2>5, <2>6
<1>2. QED
  BY <1>1, Configuration, PTL
=============================================================================
