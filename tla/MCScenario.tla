----------------------------- MODULE MCScenario -----------------------------
(***************************************************************************)
(* Scenario for TLC.  The commands are the default one with one or two     *)
(* flags changed, around every limit of ParseConfig; files with one step   *)
(* each, valid or wrong in one way; and all scripts of two and three steps *)
(* out of a choice that has every kind of action, with and without ticks   *)
(* and repeats.                                                            *)
(***************************************************************************)
EXTENDS Scenario

Text(runes) == [given |-> TRUE, runes |-> runes]
Absent == [given |-> FALSE, runes |-> 0]

Default == [unknown |-> FALSE, host |-> TRUE, port |-> 19132, count |-> 1, name |-> Absent,
            prefix |-> Text(7), scenario |-> "idle", file |-> NoFile, radius |-> 8,
            connect |-> 15, spawn |-> 30, stagger |-> 0]

Changed ==
    {[Default EXCEPT !.unknown = TRUE], [Default EXCEPT !.host = FALSE]}
    \cup {[Default EXCEPT !.port = n] : n \in {0, 1, 65535, 65536}}
    \cup {[Default EXCEPT !.radius = n] : n \in {0, 1, 96, 97}}
    \cup {[Default EXCEPT !.connect = 0], [Default EXCEPT !.spawn = 0],
          [Default EXCEPT !.stagger = -1]}
    \cup {[Default EXCEPT !.scenario = s] : s \in {"chunk-walk", "chunk-fly", "combat"}}
    \cup {[Default EXCEPT !.count = n, !.prefix = Text(p)] :
              n \in {0, 1, 2, 9, 10, 99, 100, 101}, p \in {0, 1, 12, 13, 14, 16, 17}}
    \cup {[Default EXCEPT !.count = n, !.name = Text(p)] : n \in 1..2, p \in {0, 16, 17}}

Step(action, ticks, times) ==
    [AnyStep EXCEPT !.action = action, !.ticks = ticks, !.repeat = times]
Move(ticks, times) == [Step("move", ticks, times) EXCEPT !.forward = 1]
Look(ticks, times) == [Step("look", ticks, times) EXCEPT !.pitch = "own"]
Chat(times)        == [Step("chat", 0, times) EXCEPT !.text = TRUE]

Steps ==
    {Step("idle", 0, 0), Step("idle", 1, 2), Step("wait", 1, 0), Move(0, 0), Move(2, 0),
     Look(1, 2), Step("jump", 1, 0), Step("jump", 1, 2), Step("swing", 0, 2), Chat(1)}

\* Steps with more to say, and steps that are refused.
Others ==
    {[Step("move", 1, 0) EXCEPT !.strafe = -1, !.speed = 1, !.yaw = "own"],
     [Look(2, 0) EXCEPT !.yaw = "own"],
     [Step("look", 1, 0) EXCEPT !.yaw = "own"],
     [Step("command", 0, 3) EXCEPT !.text = TRUE],
     Step("", 1, 0), Step("other", 1, 0), Step("wait", -1, 0), Step("jump", 1, -1),
     [Step("move", 1, 0) EXCEPT !.forward = 2], [Move(1, 0) EXCEPT !.speed = -1],
     Step("wait", 0, 0), Step("move", 1, 0), Step("look", 1, 0), Look(0, 0),
     Step("jump", 0, 0), Step("chat", 0, 0), Step("command", 0, 0)}

File(name, steps) == [status |-> "parsed", name |-> name, steps |-> steps]
Scripts == {<<s>> : s \in Steps \cup Others}
           \cup {<<s, t>> : s \in Steps, t \in Steps \cup Others}
           \cup {<<s, t, u>> : s, t, u \in Steps \ {Step("idle", 0, 0), Move(0, 0)}}

Files == {File("mixed", s) : s \in Scripts}
         \cup {File(n, <<Step("jump", 1, 2)>>) : n \in {"", "chunk-walk", "chunk-fly"}}
         \cup {File("mixed", <<>>), [NoFile EXCEPT !.status = "broken"]}

MCCommands == Changed \cup {[Default EXCEPT !.file = f] : f \in Files}
MCBaseYaws == {-270, -180, 0, 77, 180, 400}
=============================================================================
