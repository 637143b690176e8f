------------------------------- MODULE Config -------------------------------
(***************************************************************************)
(* What a command line means: ParseConfig and instanceName of              *)
(* internal/bot/config.go, Load and Validate of                            *)
(* internal/scenario/scenario.go, scenarioHeading of tick.go.              *)
(*                                                                         *)
(* A command is a record of its flags.  Of a text only what decides is     *)
(* kept: whether it is given and how many runes are left when trimmed.     *)
(* Forward, strafe and speed are integers; a duration is a number.  Which  *)
(* of several mistakes is named first only changes a message: every        *)
(* rejected command line exits with ExitArgs.                              *)
(***************************************************************************)
EXTENDS Integers, Sequences, FiniteSets

BuiltIns == {"idle", "chunk-walk", "chunk-fly"}

HoldActions   == {"move", "look", "jump"}
PacketActions == {"chat", "command", "swing"}
StepActions   == HoldActions \cup PacketActions \cup {"idle", "wait"}

-----------------------------------------------------------------------------
(* Scenario files.  "other" stands for every action name that means        *)
(* nothing; yaw and pitch are "absent" or "own"; text says whether the     *)
(* message (of chat) or the command (of command) is not blank.             *)

StepRecord == [action : StepActions \cup {"", "other"}, ticks : Int, repeat : Int,
               forward : Int, strafe : Int, speed : Int,
               yaw : {"absent", "own"}, pitch : {"absent", "own"}, text : BOOLEAN]

\* The cases of validateStep.
Supported(action) ==
    action \in {"idle", "wait", "move", "look", "jump", "chat", "command", "swing"}

InRange(step) ==
    /\ step.ticks >= 0 /\ step.repeat >= 0 /\ step.speed >= 0
    /\ {step.forward, step.strafe} \subseteq -1..1

MutLookForever(step) ==
    CASE step.action = "move" -> step.forward # 0 \/ step.strafe # 0
      [] step.action = "look" -> step.yaw = "own" \/ step.pitch = "own"
      [] step.action \in {"wait", "jump"} -> step.ticks > 0
      [] step.action \in {"chat", "command"} -> step.text
      [] OTHER -> TRUE

\* What each action requires of its step.
HasArguments(step) ==
    CASE step.action = "move" -> step.forward # 0 \/ step.strafe # 0
      [] step.action = "look" -> (step.yaw = "own" \/ step.pitch = "own") /\ step.ticks > 0
      [] step.action \in {"wait", "jump"} -> step.ticks > 0
      [] step.action \in {"chat", "command"} -> step.text
      [] OTHER -> TRUE

ValidStep(step) == Supported(step.action) /\ InRange(step) /\ HasArguments(step)

\* A file is absent (no --scenario-file), broken (unreadable, or neither JSON nor YAML), or
\* parsed into a name and steps.
NoFile == [status |-> "absent", name |-> "", steps |-> <<>>]

ValidFile(file) ==
    /\ file.status = "parsed"
    /\ file.name # ""
    /\ file.steps # <<>>
    /\ \A i \in DOMAIN file.steps : ValidStep(file.steps[i])

-----------------------------------------------------------------------------
(* Names and headings of the bots of a fleet. *)

Digits(n) == CHOOSE d \in 1..10 : 10^(d - 1) <= n /\ n < 10^d

MutTwoDigits(count) == 2

\* The width names are padded to.
Width(count) == IF Digits(count) < 2 THEN 2 ELSE Digits(count)

\* The length of instanceName: the prefix, or the prefix, a dash and a padded number.
NameLength(prefix, count, index) ==
    IF count = 1 THEN prefix
    ELSE prefix + 1 + (IF Digits(index) < Width(count) THEN Width(count) ELSE Digits(index))

\* math.Mod: the remainder has the sign of the dividend.
Mod(a, m) == IF a < 0 THEN -((-a) % m) ELSE a % m

MutUnwrapped(h, turn) == h
Wrapped(h, turn) == IF h < 0 THEN h + turn ELSE h

\* scenarioHeading in units of 1/count degree, which makes the division exact.
Heading(base, index, count) ==
    IF count <= 1 THEN base
    ELSE Wrapped(Mod(base * count + 360 * (index - 1) + 180 * count, 360 * count), 360 * count)
         - 180 * count

-----------------------------------------------------------------------------
(* The command line. *)

\* --name replaces the prefix.
Prefix(c) == IF c.name.given THEN c.name.runes ELSE c.prefix.runes

NamesFit(c) == \A i \in 1..c.count : NameLength(Prefix(c), c.count, i) <= 16

Ports == 1..65535

\* A file is used instead of --scenario.
ScenarioFits(c) == IF c.file = NoFile THEN c.scenario \in BuiltIns ELSE ValidFile(c.file)

Accepted(c) ==
    /\ ~c.unknown                   \* an unknown flag, a malformed value, an extra argument
    /\ c.host
    /\ c.port \in Ports
    /\ c.count \in 1..100
    /\ c.name.given => c.count = 1
    /\ Prefix(c) > 0
    /\ ScenarioFits(c)
    /\ c.radius \in 1..96
    /\ c.connect > 0 /\ c.spawn > 0 /\ c.stagger >= 0
    /\ NamesFit(c)

\* What ParseConfig returns of an accepted command; steps is empty for a built-in scenario.
ParsedConfig(c) ==
    [count |-> c.count, prefix |-> Prefix(c),
     scenario |-> IF c.file = NoFile THEN c.scenario ELSE c.file.name,
     steps |-> c.file.steps]

=============================================================================
