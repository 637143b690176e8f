--------------------------- MODULE InstanceProofs ---------------------------
(***************************************************************************)
(* Theorems about Instance.tla, for every bound on packets and inputs: the *)
(* types and the counting of frames, the connection and its deadline, the  *)
(* grace period, the final counters, and that every step is a step of      *)
(* BotLife or a stutter.                                                   *)
(***************************************************************************)
EXTENDS Instance, TLAPS

-----------------------------------------------------------------------------
(* Types, and the frames the tick goroutine has not counted yet. *)

\* The steps before the tick goroutine is started.
Preparing == {"dial", "spawn", "screenStart", "loading", "screenEnd", "radius"}

\* The counters miss the one frame that is between its write and its count.
CountInv ==
    /\ pc \in Preparing => tick = "none"
    /\ accepted = authCount + (IF tick \in {"countStill", "countMoving"} THEN 1 ELSE 0)
    /\ moved = moveCount + (IF tick \in {"countMoving", "countMove"} THEN 1 ELSE 0)
    /\ moveCount <= authCount
    /\ moved <= accepted

LEMMA CountInit == Init => TypeOK /\ CountInv
<1> SUFFICES ASSUME Init PROVE TypeOK /\ CountInv
    OBVIOUS
<1>1. Flags \subseteq BOOLEAN
  BY DEF Init, Flags
<1>2. QED
  BY <1>1, BoundsAssumption DEF Init, TypeOK, CountInv, Preparing, Steps, Stages

\* Everything but the flags.
Typed ==
    /\ pc \in Steps
    /\ conn \in {"none", "open", "lost", "closed"}
    /\ closer \in {"none", "waiting", "grace", "done"}
    /\ tick \in {"none", "ready", "countStill", "countMoving", "countMove", "leaving", "gone"}
    /\ tickResult \in {"nil", "err"}
    /\ tickErr \in {"empty", "nil", "err"}
    /\ deadline \in {"none", "armed", "expired"}
    /\ packets \in 0..MaxPackets
    /\ {accepted, moved, authCount, moveCount, statAuth, statMove} \subseteq 0..MaxInputs
    /\ retErr \in Stages \cup {"none"}

LEMMA TypedStep == Typed /\ CountInv /\ [Next]_vars => Typed' /\ CountInv'
<1> SUFFICES ASSUME Typed, CountInv, [Next]_vars
             PROVE  Typed' /\ CountInv'
    OBVIOUS
<1> USE BoundsAssumption
    DEF Typed, CountInv, Preparing, Steps, connVars, closeVars, tickVars, readVars, lifeVars, countVars,
        statVars
<1>1. CASE Dial
  BY <1>1 DEF Dial, OutputFails, Fail, ReturnNil, GoOn, Stages
<1>2. CASE Spawn
  BY <1>2 DEF Spawn, OutputFails, Fail, ReturnAfterGrace, GoOn, Stages
<1>3. CASE ScreenStart \/ Loading \/ ScreenEnd
  BY <1>3 DEF ScreenStart, Loading, ScreenEnd, OutputFails, Fail, ReturnNil, GoOn, Stages
<1>4. CASE RequestRadius
  BY <1>4 DEF RequestRadius, WorldDeadline, OutputFails, Fail, GoOn, Stages
<1>5. ASSUME NEW kind \in {"radius", "chunk", "other"}, ReadPacket(kind) PROVE Typed' /\ CountInv'
  BY <1>5 DEF ReadPacket, OutputFails, Fail, GoOn, Stages
<1>6. CASE ReportOnline \/ ReadError
  BY <1>6 DEF ReportOnline, ReadError, Fail, ReturnAfterGrace, GoOn, Stages
<1>7. CASE PollTick
  BY <1>7 DEF PollTick, OutputFails, Fail, ReturnAfterGrace, GoOn, Stages
<1>8. CASE AwaitGrace \/ Cleanup \/ CloseConn \/ LoadAuth \/ LoadMove
  BY <1>8 DEF AwaitGrace, Cleanup, CloseConn, Closed, LoadAuth, LoadMove, FinalAuth
<1>9. CASE Closer
  BY <1>9 DEF Closer, CloserCancel, CloserCloses, CloserSkip, GraceOver
<1>10. CASE TickStop \/ TickActionFails \/ TickExit
  BY <1>10 DEF TickStop, TickActionFails, TickExit
<1>11. ASSUME NEW moving \in BOOLEAN, TickInput(moving) PROVE Typed' /\ CountInv'
  BY <1>11 DEF TickInput
<1>12. CASE CountAuth \/ CountMove
  BY <1>12 DEF CountAuth, CountMove, CountOne
<1>13. CASE Cancel \/ PropagateTick \/ ServerDrops \/ DeadlinePasses
  BY <1>13 DEF Cancel, PropagateTick, ServerDrops, DeadlinePasses
<1>14. CASE UNCHANGED vars
  BY <1>14 DEF vars
<1>15. QED
  BY <1>1, <1>2, <1>3, <1>4, <1>5, <1>6, <1>7, <1>8, <1>9, <1>10, <1>11, <1>12, <1>13, <1>14
  DEF Next, Main, TickLoop, Finished

LEMMA FlagsStep == Flags \subseteq BOOLEAN /\ [Next]_vars => Flags' \subseteq BOOLEAN
<1> SUFFICES ASSUME Flags \subseteq BOOLEAN, [Next]_vars
             PROVE  Flags' \subseteq BOOLEAN
    OBVIOUS
<1> USE DEF Flags, readVars, lifeVars
<1>1. CASE Dial \/ Spawn \/ ScreenStart \/ Loading \/ ScreenEnd
  BY <1>1 DEF Dial, Spawn, ScreenStart, Loading, ScreenEnd, OutputFails, Fail, ReturnNil,
     ReturnAfterGrace, GoOn, closeVars
<1>2. CASE RequestRadius
  BY <1>2 DEF RequestRadius, OutputFails, Fail, GoOn, closeVars
<1>3. ASSUME NEW kind \in {"radius", "chunk", "other"}, ReadPacket(kind)
      PROVE  Flags' \subseteq BOOLEAN
  BY <1>3 DEF ReadPacket, OutputFails, Fail, GoOn, closeVars
<1>4. CASE ReportOnline \/ ReadError \/ PollTick
  BY <1>4 DEF ReportOnline, ReadError, PollTick, OutputFails, Fail, ReturnAfterGrace, GoOn,
     closeVars
<1>5. CASE AwaitGrace \/ Cleanup \/ CloseConn \/ LoadAuth \/ LoadMove
  BY <1>5 DEF AwaitGrace, Cleanup, CloseConn, LoadAuth, LoadMove, closeVars
<1>6. CASE Closer
  BY <1>6 DEF Closer, CloserCancel, CloserSkip, GraceOver, closeVars
<1>7. CASE TickLoop
  BY <1>7 DEF TickLoop, TickStop, TickActionFails, TickInput, CountAuth, CountMove, TickExit,
     closeVars
<1>8. CASE Cancel \/ PropagateTick \/ ServerDrops \/ DeadlinePasses
  BY <1>8 DEF Cancel, PropagateTick, ServerDrops, DeadlinePasses, closeVars
<1>9. CASE UNCHANGED vars
  BY <1>9 DEF vars, closeVars
<1>10. QED
  BY <1>1, <1>2, <1>3, <1>4, <1>5, <1>6, <1>7, <1>8, <1>9 DEF Next, Main, Finished

LEMMA TypeStep == TypeOK /\ CountInv /\ [Next]_vars => TypeOK' /\ CountInv'
  BY TypedStep, FlagsStep DEF TypeOK, Typed

\* The state stays well typed, and the bounds on frames hold for the counters too.
THEOREM TypeCorrect == Spec => []TypeOK
<1>1. Spec => [](TypeOK /\ CountInv)
  BY CountInit, TypeStep, PTL DEF Spec
<1>2. QED
  BY <1>1, PTL

-----------------------------------------------------------------------------
(* The connection, and how runInstance comes to return without an error. *)

Returning == {"cleanup", "close", "loadAuth", "loadMove", "done"}

PathInv ==
    /\ pc = "dial" => conn = "none"
    /\ conn = "none" => closer = "none" /\ tick = "none" /\ pc \in {"dial"} \cup Returning
    /\ pc \in {"loadAuth", "loadMove", "done"} => conn \in {"none", "closed"}
    /\ retErr # "none" => pc \in Returning
    /\ pc \in Returning /\ retErr = "none" /\ tick # "none" => closer = "done"

LEMMA PathInit == Init => PathInv
  BY DEF Init, PathInv

LEMMA PathStep == TypeOK /\ CountInv /\ PathInv /\ [Next]_vars => PathInv'
<1> SUFFICES ASSUME TypeOK, CountInv, PathInv, [Next]_vars
             PROVE  PathInv'
    OBVIOUS
<1>0. pc \in Preparing => tick = "none"
  BY DEF CountInv
<1> USE <1>0 DEF PathInv, Preparing, Returning, connVars, closeVars, tickVars
<1>1. CASE Dial
  BY <1>1 DEF Dial, OutputFails, Fail, ReturnNil, GoOn
<1>2. CASE Spawn
  BY <1>2 DEF Spawn, OutputFails, Fail, ReturnAfterGrace, GoOn
<1>3. CASE ScreenStart \/ Loading \/ ScreenEnd
  BY <1>3 DEF ScreenStart, Loading, ScreenEnd, OutputFails, Fail, ReturnNil, GoOn, Stages
<1>4. CASE RequestRadius
  BY <1>4 DEF RequestRadius, WriteWorks, OutputFails, Fail, GoOn
<1>5. ASSUME NEW kind \in {"radius", "chunk", "other"}, ReadPacket(kind) PROVE PathInv'
  BY <1>5 DEF ReadPacket, OutputFails, Fail, GoOn
<1>6. CASE ReportOnline \/ ReadError \/ PollTick
  BY <1>6 DEF ReportOnline, ReadError, PollTick, OutputFails, Fail, ReturnAfterGrace, GoOn
<1>7. CASE AwaitGrace \/ Cleanup \/ CloseConn \/ LoadAuth \/ LoadMove
  BY <1>7 DEF AwaitGrace, Cleanup, CloseConn, Closed, LoadAuth, LoadMove
<1>8. CASE Closer
  BY <1>8 DEF Closer, CloserCancel, CloserCloses, CloserSkip, GraceOver
<1>9. CASE TickLoop
  BY <1>9 DEF TickLoop, TickStop, TickActionFails, TickInput, CountAuth, CountMove, TickExit
<1>10. CASE Cancel \/ PropagateTick \/ ServerDrops \/ DeadlinePasses
  BY <1>10 DEF Cancel, PropagateTick, ServerDrops, DeadlinePasses
<1>11. CASE UNCHANGED vars
  BY <1>11 DEF vars
<1>12. QED
  BY <1>1, <1>2, <1>3, <1>4, <1>5, <1>6, <1>7, <1>8, <1>9, <1>10, <1>11 DEF Next, Main, Finished

LEMMA PathInvariant == Spec => [](TypeOK /\ CountInv /\ PathInv)
  BY CountInit, TypeStep, PathInit, PathStep, PTL DEF Spec

\* A bot whose client was prepared returns nil only after the closer's grace period, with the
\* connection closed.
THEOREM GraceCorrect == Spec => []GraceWaited
<1>1. PathInv => GraceWaited
  BY DEF PathInv, Returning, GraceWaited
<1>2. QED
  BY <1>1, PathInvariant, PTL

\* No input is accepted from a bot that has returned.
THEOREM InputStops == Spec => NoInputAfterReturn
<1>1. TypeOK /\ CountInv /\ PathInv /\ [Next]_vars => (pc = "done" => accepted' = accepted)
  <2> SUFFICES ASSUME TypeOK, CountInv, PathInv, [Next]_vars, pc = "done"
               PROVE  accepted' = accepted
      OBVIOUS
  <2>1. tick = "ready" => ~WriteWorks
    BY DEF PathInv, WriteWorks
  <2>2. CASE TickLoop
    BY <2>1, <2>2 DEF TickLoop, TickStop, TickActionFails, TickInput, CountAuth, CountMove, TickExit,
       countVars
  <2>3. CASE Closer
    BY <2>3 DEF Closer, CloserCancel, CloserSkip, GraceOver, countVars
  <2>4. CASE Cancel \/ PropagateTick \/ ServerDrops \/ DeadlinePasses
    BY <2>4 DEF Cancel, PropagateTick, ServerDrops, DeadlinePasses, countVars
  <2>5. ~Main /\ ~ReadError /\ \A kind \in {"radius", "chunk", "other"} : ~ReadPacket(kind)
    BY DEF Main, Dial, Spawn, ScreenStart, Loading, ScreenEnd, RequestRadius, ReportOnline,
       PollTick, AwaitGrace, Cleanup, CloseConn, LoadAuth, LoadMove, ReadError, ReadPacket
  <2>6. QED
    BY <2>2, <2>3, <2>4, <2>5 DEF Next, Finished, vars, countVars
<1>2. QED
  BY <1>1, PathInvariant, PTL DEF Spec, NoInputAfterReturn

-----------------------------------------------------------------------------
(* The counters the bot reports. *)

\* Once the connection is gone nothing more is accepted, so what is loaded stays close.
LoadInv ==
    /\ pc \in {"loadMove", "done"} => statAuth <= accepted /\ accepted <= statAuth + 1
    /\ pc = "done" => statMove <= moved /\ moved <= statMove + 1

LEMMA LoadInit == Init => LoadInv
  BY DEF Init, LoadInv

LEMMA LoadStep == TypeOK /\ CountInv /\ PathInv /\ LoadInv /\ [Next]_vars => LoadInv'
<1> SUFFICES ASSUME TypeOK, CountInv, PathInv, LoadInv, [Next]_vars
             PROVE  LoadInv'
    OBVIOUS
<1>1. {accepted, moved, authCount, moveCount, statAuth, statMove} \subseteq Nat
  BY BoundsAssumption DEF TypeOK
<1>2. CASE LoadAuth
  BY <1>1, <1>2 DEF LoadAuth, FinalAuth, LoadInv, CountInv, countVars
<1>3. CASE LoadMove
  BY <1>1, <1>3 DEF LoadMove, LoadInv, CountInv, countVars
<1>4. CASE pc \in {"loadMove", "done"} /\ ~LoadMove
  <2>1. tick = "ready" => ~WriteWorks
    BY <1>4 DEF PathInv, WriteWorks
  <2>2. UNCHANGED <<accepted, moved, statAuth, statMove, pc>>
    <3>1. CASE TickLoop
      BY <2>1, <3>1 DEF TickLoop, TickStop, TickActionFails, TickInput, CountAuth, CountMove,
         TickExit, countVars, statVars
    <3>2. CASE Closer
      BY <3>2 DEF Closer, CloserCancel, CloserSkip, GraceOver, countVars, statVars
    <3>3. CASE Cancel \/ PropagateTick \/ ServerDrops \/ DeadlinePasses
      BY <3>3 DEF Cancel, PropagateTick, ServerDrops, DeadlinePasses, countVars, statVars
    <3>4. ~Main /\ ~ReadError /\ \A kind \in {"radius", "chunk", "other"} : ~ReadPacket(kind)
      BY <1>4 DEF Main, Dial, Spawn, ScreenStart, Loading, ScreenEnd, RequestRadius, ReportOnline,
         PollTick, AwaitGrace, Cleanup, CloseConn, LoadAuth, ReadError, ReadPacket
    <3>5. QED
      BY <3>1, <3>2, <3>3, <3>4 DEF Next, Finished, vars, countVars, statVars
  <2>3. QED
    BY <2>2 DEF LoadInv
<1>5. CASE pc \notin {"loadAuth", "loadMove", "done"}
  <2>1. pc' \notin {"loadMove", "done"}
    BY <1>5 DEF Next, Main, Dial, Spawn, ScreenStart, Loading, ScreenEnd, RequestRadius, ReportOnline,
       PollTick, AwaitGrace, Cleanup, CloseConn, LoadAuth, LoadMove, ReadError, ReadPacket,
       OutputFails, Fail, ReturnNil, ReturnAfterGrace, GoOn,
       Closer, CloserCancel, CloserSkip, GraceOver,
       TickLoop, TickStop, TickActionFails, TickInput, CountAuth, CountMove, TickExit,
       Cancel, PropagateTick, ServerDrops, DeadlinePasses, Finished, vars
  <2>2. QED
    BY <2>1 DEF LoadInv
<1>6. CASE pc = "loadAuth" /\ ~LoadAuth
  <2>1. pc' = "loadAuth"
    BY <1>6 DEF Next, Main, Dial, Spawn, ScreenStart, Loading, ScreenEnd, RequestRadius, ReportOnline,
       PollTick, AwaitGrace, Cleanup, CloseConn, LoadMove, ReadError, ReadPacket,
       Closer, CloserCancel, CloserSkip, GraceOver,
       TickLoop, TickStop, TickActionFails, TickInput, CountAuth, CountMove, TickExit,
       Cancel, PropagateTick, ServerDrops, DeadlinePasses, Finished, vars
  <2>2. QED
    BY <2>1 DEF LoadInv
<1>7. QED
  BY <1>2, <1>3, <1>4, <1>5, <1>6

\* The final statistics miss at most the one frame that was being written at the end.
THEOREM CountersCorrect == Spec => []FinalCounters
<1>1. TypeOK /\ CountInv /\ LoadInv => FinalCounters
  <2> SUFFICES ASSUME TypeOK, CountInv, LoadInv, pc = "done" PROVE FinalCounters
      BY DEF FinalCounters
  <2>1. {accepted, moved, statAuth, statMove} \subseteq Nat
    BY BoundsAssumption DEF TypeOK
  <2>2. QED
    BY <2>1 DEF FinalCounters, CountInv, LoadInv
<1>2. QED
  BY <1>1, CountInit, TypeStep, PathInit, PathStep, LoadInit, LoadStep, PTL DEF Spec

-----------------------------------------------------------------------------
(* Coming online, and the contract of BotLife. *)

OnlineInv ==
    /\ pc \in Preparing => ~onlineState
    /\ onlineState => radius /\ chunks
    /\ pc \in {"read", "poll"} => (deadline = "none" <=> onlineState)
    /\ pc = "report" => onlineState /\ deadline = "none"

\* selected follows onlineState, but for the report itself and for errors on the way to it.
SelectInv ==
    /\ selected => onlineState
    /\ pc = "report" => ~selected
    /\ pc \in {"read", "poll", "grace"} => (onlineState => selected)
    /\ pc = "grace" => ctxDone
    /\ pc \in Returning /\ retErr = "none" => ctxDone /\ (onlineState => selected)

LEMMA OnlineInit == Init => OnlineInv /\ SelectInv
  BY DEF Init, OnlineInv, SelectInv, Preparing, Returning

LEMMA OnlineStep == TypeOK /\ OnlineInv /\ [Next]_vars => OnlineInv'
<1> SUFFICES ASSUME TypeOK, OnlineInv, [Next]_vars
             PROVE  OnlineInv'
    OBVIOUS
<1> USE DEF OnlineInv, Preparing, connVars, readVars
<1>1. CASE Dial \/ Spawn \/ ScreenStart \/ Loading \/ ScreenEnd
  BY <1>1 DEF Dial, Spawn, ScreenStart, Loading, ScreenEnd, OutputFails, Fail, ReturnNil,
     ReturnAfterGrace, GoOn
<1>2. CASE RequestRadius
  BY <1>2 DEF RequestRadius, WorldDeadline, OutputFails, Fail, GoOn
<1>3. ASSUME NEW kind \in {"radius", "chunk", "other"}, ReadPacket(kind) PROVE OnlineInv'
  <2>1. (radius => radius') /\ (chunks => chunks') /\ (GoesOnline(kind) => radius' /\ chunks')
    BY <1>3 DEF ReadPacket, GoesOnline
  <2>2. CASE UNCHANGED <<onlineState, deadline>> /\ pc' \in {"cleanup", "poll"}
    BY <1>3, <2>1, <2>2 DEF ReadPacket
  <2>3. CASE GoesOnline(kind) /\ onlineState' = TRUE /\ pc' = "cleanup"
    BY <2>1, <2>3
  <2>4. CASE GoesOnline(kind) /\ onlineState' = TRUE /\ pc' = "report" /\ deadline' = "none"
    BY <2>1, <2>4
  <2>5. QED
    BY <1>3, <2>2, <2>3, <2>4 DEF ReadPacket, OutputFails, Fail, GoOn
<1>4. CASE ReportOnline \/ ReadError \/ PollTick
  BY <1>4 DEF ReportOnline, ReadError, PollTick, OutputFails, Fail, ReturnAfterGrace, GoOn
<1>5. CASE AwaitGrace \/ Cleanup \/ CloseConn \/ LoadAuth \/ LoadMove
  BY <1>5 DEF AwaitGrace, Cleanup, CloseConn, LoadAuth, LoadMove
<1>6. CASE Closer
  BY <1>6 DEF Closer, CloserCancel, CloserSkip, GraceOver
<1>7. CASE TickLoop
  BY <1>7 DEF TickLoop, TickStop, TickActionFails, TickInput, CountAuth, CountMove, TickExit
<1>8. CASE Cancel \/ PropagateTick \/ ServerDrops \/ DeadlinePasses
  BY <1>8 DEF Cancel, PropagateTick, ServerDrops, DeadlinePasses
<1>9. CASE UNCHANGED vars
  BY <1>9 DEF vars
<1>10. QED
  BY <1>1, <1>2, <1>3, <1>4, <1>5, <1>6, <1>7, <1>8, <1>9 DEF Next, Main, Finished

\* A bot is online only with its chunk radius and a chunk, and reads under the deadline until
\* then.
THEOREM OnlineCorrect == Spec => []OnlineOrOnDeadline
<1>1. OnlineInv => OnlineOrOnDeadline
  BY DEF OnlineInv, OnlineOrOnDeadline
<1>2. QED
  BY <1>1, CountInit, TypeStep, OnlineInit, OnlineStep, PTL DEF Spec

LEMMA SelectStep == TypeOK /\ PathInv /\ OnlineInv /\ SelectInv /\ [Next]_vars => SelectInv'
<1> SUFFICES ASSUME TypeOK, PathInv, OnlineInv, SelectInv, [Next]_vars
             PROVE  SelectInv'
    OBVIOUS
<1>0. /\ retErr # "none" => pc \in Returning
      /\ pc \in Preparing => ~onlineState
  BY DEF PathInv, OnlineInv
<1> USE DEF SelectInv, Returning, lifeVars, readVars
<1>1. CASE Dial \/ Spawn \/ ScreenStart \/ Loading \/ ScreenEnd \/ RequestRadius
  <2>1. UNCHANGED <<onlineState, selected, ctxDone>> /\ ~onlineState
    BY <1>0, <1>1 DEF Dial, Spawn, ScreenStart, Loading, ScreenEnd, RequestRadius, Preparing
  <2>2. ~onlineState' /\ ~selected'
    BY <2>1
  <2>3. CASE pc' \in (Preparing \cup {"read"})
    BY <2>2, <2>3 DEF Preparing
  <2>4. CASE pc' = "cleanup" /\ retErr' # "none"
    BY <2>2, <2>4
  <2>5. CASE pc' \in {"grace", "cleanup"} /\ ctxDone
    BY <2>1, <2>2, <2>5
  <2>6. QED
    BY <1>1, <2>3, <2>4, <2>5 DEF Dial, Spawn, ScreenStart, Loading, ScreenEnd, RequestRadius,
       DialCancelled, OutputFails, Fail, ReturnNil, ReturnAfterGrace, GoOn, Preparing
<1>2. ASSUME NEW kind \in {"radius", "chunk", "other"}, ReadPacket(kind) PROVE SelectInv'
  <2>1. UNCHANGED <<selected, ctxDone>> /\ pc = "read" /\ (onlineState => onlineState')
    BY <1>2 DEF ReadPacket
  <2>2. CASE UNCHANGED onlineState /\ pc' = "poll"
    BY <2>1, <2>2
  <2>3. CASE pc' = "cleanup" /\ retErr' # "none"
    BY <2>1, <2>3
  <2>4. CASE ~onlineState /\ onlineState' = TRUE /\ pc' = "report"
    BY <2>1, <2>4
  <2>5. QED
    BY <1>2, <2>2, <2>3, <2>4 DEF ReadPacket, GoesOnline, OutputFails, Fail, GoOn
<1>3. CASE ReportOnline
  BY <1>3 DEF ReportOnline, GoOn, OnlineInv
<1>4. CASE ReadError \/ PollTick
  BY <1>4 DEF ReadError, PollTick, OutputFails, Fail, ReturnAfterGrace, GoOn
<1>5. CASE AwaitGrace \/ Cleanup \/ CloseConn \/ LoadAuth \/ LoadMove
  BY <1>5 DEF AwaitGrace, Cleanup, CloseConn, LoadAuth, LoadMove
<1>6. CASE Closer
  BY <1>6 DEF Closer, CloserCancel, CloserSkip, GraceOver
<1>7. CASE TickLoop
  BY <1>7 DEF TickLoop, TickStop, TickActionFails, TickInput, CountAuth, CountMove, TickExit
<1>8. CASE Cancel \/ PropagateTick \/ ServerDrops \/ DeadlinePasses
  BY <1>8 DEF Cancel, PropagateTick, ServerDrops, DeadlinePasses
<1>9. CASE UNCHANGED vars
  BY <1>9 DEF vars
<1>10. QED
  BY <1>1, <1>2, <1>3, <1>4, <1>5, <1>6, <1>7, <1>8, <1>9 DEF Next, Main, Finished

\* Every step of the bot's goroutines is a step of BotLife or a stutter: in particular a bot
\* that returns nil was cancelled, and is not between becoming online and reporting it.
THEOREM LifeRefinement == Spec => Life!Init /\ [][Life!Next]_(Life!lifeVars)
<1> DEFINE Inv == TypeOK /\ CountInv /\ PathInv /\ OnlineInv /\ SelectInv
<1>1. Init => Life!Init
  BY DEF Init, Life!Init
<1>2. Inv /\ [Next]_vars => [Life!Next]_(Life!lifeVars)
  <2> SUFFICES ASSUME Inv, [Next]_vars
               PROVE  [Life!Next]_(Life!lifeVars)
      OBVIOUS
  <2>1. CASE LoadMove
    <3>1. /\ pc = "loadMove" /\ pc' = "done"
          /\ UNCHANGED <<ctxDone, reported, selected, onlineState, retErr>>
      BY <2>1 DEF LoadMove, lifeVars, readVars
    <3>2. CASE retErr = "none"
      <4>1. ctxDone /\ (onlineState => selected)
        BY <3>1, <3>2 DEF SelectInv, Returning
      <4>2. Life!Leave
        BY <3>1, <3>2, <4>1 DEF Life!Leave, ErrKind
      <4>3. QED
        BY <4>2 DEF Life!Next
    <3>3. CASE retErr # "none"
      <4>1. ErrKind(retErr) \in {"connect", "spawn", "runtime"}
        BY <3>3 DEF TypeOK, Stages, ErrKind
      <4>2. Life!Fail
        BY <3>1, <4>1 DEF Life!Fail
      <4>3. QED
        BY <4>2 DEF Life!Next
    <3>4. QED
      BY <3>2, <3>3
  <2>2. CASE ReportOnline
    <3>1. /\ pc = "report" /\ pc' = "poll" /\ onlineState /\ ~selected /\ selected' = TRUE
          /\ reported' = TRUE \/ (ctxDone /\ reported' = reported)
          /\ UNCHANGED <<ctxDone, onlineState>>
      BY <2>2 DEF ReportOnline, GoOn, readVars, OnlineInv, SelectInv
    <3>2. reported \in BOOLEAN
      BY DEF TypeOK, Flags
    <3>3. Life!Report
      BY <3>1, <3>2 DEF Life!Report
    <3>4. QED
      BY <3>3 DEF Life!Next
  <2>3. ASSUME NEW kind \in {"radius", "chunk", "other"}, ReadPacket(kind)
        PROVE  [Life!Next]_(Life!lifeVars)
    <3>1. /\ pc = "read" /\ pc' \in {"cleanup", "poll", "report"}
          /\ UNCHANGED <<ctxDone, reported, selected>>
          /\ UNCHANGED onlineState \/ (~onlineState /\ onlineState' = TRUE)
      BY <2>3 DEF ReadPacket, GoesOnline, OutputFails, Fail, GoOn, lifeVars
    <3>2. CASE UNCHANGED onlineState
      BY <3>1, <3>2 DEF Life!lifeVars
    <3>3. CASE ~onlineState /\ onlineState' = TRUE
      <4>1. ~selected
        BY <3>3 DEF SelectInv
      <4>2. Life!Ready
        BY <3>1, <3>3, <4>1 DEF Life!Ready
      <4>3. QED
        BY <4>2 DEF Life!Next
    <3>4. QED
      BY <3>1, <3>2, <3>3
  <2>4. CASE Cancel
    <3>1. Life!Cancel
      BY <2>4 DEF Cancel, Life!Cancel, lifeVars, readVars
    <3>2. QED
      BY <3>1 DEF Life!Next
  <2>5. CASE \/ Dial \/ Spawn \/ ScreenStart \/ Loading \/ ScreenEnd \/ RequestRadius
             \/ ReadError \/ PollTick \/ AwaitGrace \/ Cleanup \/ CloseConn \/ LoadAuth
    <3>1. /\ pc # "done" /\ pc' # "done"
          /\ UNCHANGED <<ctxDone, reported, selected, onlineState>>
      BY <2>5 DEF Dial, Spawn, ScreenStart, Loading, ScreenEnd, RequestRadius, ReadError, PollTick,
         AwaitGrace, Cleanup, CloseConn, LoadAuth, OutputFails, Fail, ReturnNil, ReturnAfterGrace,
         GoOn, lifeVars, readVars
    <3>2. QED
      BY <3>1 DEF Life!lifeVars
  <2>6. CASE Closer \/ TickLoop \/ PropagateTick \/ ServerDrops \/ DeadlinePasses \/ UNCHANGED vars
    <3>1. UNCHANGED <<pc, ctxDone, reported, selected, onlineState, retErr>>
      BY <2>6 DEF Closer, CloserCancel, CloserSkip, GraceOver, TickLoop, TickStop, TickActionFails,
         TickInput, CountAuth, CountMove, TickExit, PropagateTick, ServerDrops, DeadlinePasses,
         vars, lifeVars, readVars
    <3>2. QED
      BY <3>1 DEF Life!lifeVars
  <2>7. QED
    BY <2>1, <2>2, <2>3, <2>4, <2>5, <2>6 DEF Next, Main, Finished
<1>3. Init => Inv
  BY CountInit, PathInit, OnlineInit
<1>4. Inv /\ [Next]_vars => Inv'
  BY TypeStep, PathStep, OnlineStep, SelectStep
<1> HIDE DEF Inv
<1>5. QED
  BY <1>1, <1>2, <1>3, <1>4, PTL DEF Spec

=============================================================================
