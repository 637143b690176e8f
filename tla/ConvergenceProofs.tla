------------------------- MODULE ConvergenceProofs -------------------------
(***************************************************************************)
(* Prediction converges (Movement.tla, BotIsWhereServerHasIt and           *)
(* SeedIsNear): when all that was sent has arrived, the bot is where the   *)
(* server has it, or as near as the publisher's block tells.               *)
(*                                                                         *)
(* The inductive invariant comes in layers, each proved on top of the ones *)
(* before it: the order of the ticks; the predictions mirror the frames on *)
(* their way; before the first input tick; the acknowledgement of a        *)
(* teleport; and positions, along the corrections and frames on their way, *)
(* for a bot that the server told where it is and for a bot that the       *)
(* publisher seeded.                                                       *)
(***************************************************************************)
EXTENDS PredictionProofs

-----------------------------------------------------------------------------
(* What is on its way. *)

\* What recordPrediction will keep of a frame.
Said(f) == [tick |-> f.tick, delta |-> Committed(f)]

\* The frames the server is still to see and the predictions, the half-made frame included.
Outgoing == IF tpc = "record" THEN Append(toServer, frame) ELSE toServer
Told     == IF tpc = "record" THEN Append(history, Said(frame)) ELSE history

\* The tick the next frame will have, if the clock is left alone.
Clock == IF tpc \in {"act", "retry", "snap"} THEN tick ELSE nextTick

\* Nothing has happened that BotIsWhereServerHasIt excludes, and no packet on its way will
\* move the bot without a teleport.
Steady ==
    /\ ~rewound /\ ~missed /\ ~displaced
    /\ \A i \in 1..Len(toBot) : toBot[i].kind = "move" => toBot[i].teleport

LEMMA AppendOf ==
    ASSUME NEW S, NEW s \in Seq(S), NEW e \in S
    PROVE  /\ Append(s, e) \in Seq(S) /\ Len(s) \in Nat /\ Len(Append(s, e)) = Len(s) + 1
           /\ Append(s, e)[Len(s) + 1] = e
           /\ \A i \in 1..Len(s) : Append(s, e)[i] = s[i] /\ i \in 1..Len(Append(s, e))
           /\ Len(s) + 1 \in 1..Len(Append(s, e))
           /\ \A i \in 1..Len(Append(s, e)) : i = Len(s) + 1 \/ i \in 1..Len(s)
  OBVIOUS

LEMMA TailOf ==
    ASSUME NEW S, NEW s \in Seq(S), s # <<>>
    PROVE  /\ Tail(s) \in Seq(S) /\ Head(s) \in S /\ Head(s) = s[1] /\ 1 \in 1..Len(s)
           /\ Len(s) \in Nat /\ Len(Tail(s)) \in Nat
           /\ \A i \in 1..Len(Tail(s)) : i + 1 \in 1..Len(s) /\ Tail(s)[i] = s[i + 1] /\ 1 < i + 1
  OBVIOUS

LEMMA ViewTyped ==
    ASSUME TypeInv
    PROVE  /\ Outgoing \in Seq(Frame) /\ Told \in Seq(Prediction) /\ Clock \in Int
           /\ toBot \in Seq(Packet) /\ history \in Seq(Prediction) /\ frame \in Frame
           /\ Said(frame) \in Prediction
<1>1. /\ frame \in Frame /\ history \in Seq(Prediction) /\ toServer \in Seq(Frame)
      /\ toBot \in Seq(Packet) /\ tick \in Int /\ nextTick \in Int
  BY CounterAssumption DEF TypeInv, TypeOK
<1>2. Said(frame) \in Prediction
  BY <1>1, StepTypes DEF Said, Committed, Frame, Prediction
<1>3. Outgoing \in Seq(Frame) /\ Told \in Seq(Prediction)
  BY <1>1, <1>2 DEF Outgoing, Told
<1>4. QED
  BY <1>1, <1>2, <1>3 DEF Clock

\* The corrections in q.
Corrections(q) == {c \in Range(q) : c.kind = "correct"}

LEMMA RangeOf ==
    ASSUME NEW S, NEW s \in Seq(S)
    PROVE  /\ \A e \in Range(s) : e \in S /\ \E i \in 1..Len(s) : e = s[i]
           /\ \A i \in 1..Len(s) : s[i] \in Range(s)
  BY DEF Range

LEMMA RangeAppend ==
    ASSUME NEW S, NEW s \in Seq(S), NEW e \in S
    PROVE  /\ Range(Append(s, e)) = Range(s) \cup {e}
           /\ Corrections(Append(s, e)) =
                  IF e.kind = "correct" THEN Corrections(s) \cup {e} ELSE Corrections(s)
<1>1. Range(Append(s, e)) = Range(s) \cup {e}
  BY OwnRange, Sent
<1>2. QED
  BY <1>1 DEF Corrections

LEMMA RangeTail ==
    ASSUME NEW S, NEW s \in Seq(S), s # <<>>
    PROVE  /\ Range(s) = Range(Tail(s)) \cup {Head(s)}
           /\ Corrections(s) = IF Head(s).kind = "correct" THEN Corrections(Tail(s)) \cup {Head(s)}
                                                           ELSE Corrections(Tail(s))
<1>1. Range(s) = Range(Tail(s)) \cup {Head(s)}
  BY OwnRange, Received
<1>2. QED
  BY <1>1 DEF Corrections

-----------------------------------------------------------------------------
(* What the steps do to what is on its way. *)

\* Steps that leave all of it alone.
aside == <<pos, ready, teleport, history, probes, toServer, toBot, srvPos, srvAwaitsAck,
           Outgoing, Told, Clock, rewound, missed, displaced, seed>>
BesidesTick == StartWalk \/ NextInputTick \/ ActionTick \/ RequestFlight \/ ReadPosition
               \/ ReadReady \/ StartFly

LEMMA AsideTick == BesidesTick => UNCHANGED aside /\ tpc # "record" /\ tpc' # "record"
<1>1. ASSUME UNCHANGED <<pos, ready, teleport, history, probes, toServer, toBot, srvPos,
                         srvAwaitsAck, rewound, missed, displaced, seed>>,
             tpc # "record", tpc' # "record", Clock' = Clock
      PROVE  UNCHANGED aside
  BY <1>1 DEF aside, Outgoing, Told
<1>2. CASE StartWalk
  BY <1>1, <1>2 DEF StartWalk, Clock, serverVars, ghostVars
<1>3. CASE NextInputTick
  BY <1>1, <1>3 DEF NextInputTick, Clock, serverVars, ghostVars
<1>4. CASE ActionTick
  <2>1. tpc' \in {"retry", "snap"}
    BY <1>4 DEF ActionTick
  <2>2. QED
    BY <1>1, <1>4, <2>1 DEF ActionTick, Clock, playerVars, serverVars, ghostVars
<1>5. CASE RequestFlight
  <2>1. CASE tpc = "retry"
    BY <1>1, <1>5, <2>1 DEF RequestFlight, Clock, serverVars
  <2>2. CASE tpc = "request"
    BY <1>1, <1>5, <2>2 DEF RequestFlight, Clock, serverVars
  <2>3. QED
    BY <1>5, <2>1, <2>2 DEF RequestFlight
<1>6. CASE ReadPosition
  BY <1>1, <1>6 DEF ReadPosition, Clock, playerVars, serverVars, ghostVars
<1>7. CASE ReadReady
  BY <1>1, <1>7 DEF ReadReady, Clock, serverVars, ghostVars
<1>8. CASE StartFly
  BY <1>1, <1>8 DEF StartFly, Clock, serverVars, ghostVars
<1>9. QED
  BY <1>2, <1>3, <1>4, <1>5, <1>6, <1>7, <1>8 DEF BesidesTick

LEMMA AsideElse == TicksOver \/ UNCHANGED vars => UNCHANGED aside /\ tpc' = tpc /\ frame' = frame
  BY DEF TicksOver, vars, aside, playerVars, tickVars, serverVars, ghostVars, Outgoing, Told, Clock

\* A snapshot puts one more frame on the way.
LEMMA SnapshotView ==
    ASSUME TypeInv, InputSnapshot
    PROVE  /\ Outgoing' = Append(Outgoing, frame') /\ Told' = Append(Told, Said(frame'))
           /\ frame' \in Frame /\ Said(frame') \in Prediction
           /\ frame'.tick = Clock /\ Clock = tick /\ Clock' = nextTick
           /\ UNCHANGED <<ready, history, probes, toServer, toBot, srvPos, srvAwaitsAck, rewound,
                          missed, displaced, seed, inputStarted, control, targetY, tick, nextTick>>
           /\ tpc' = "record" /\ tpc = "snap"
<1>1. tpc = "snap" /\ tpc' = "record" /\ toServer' = toServer /\ history' = history
  BY DEF InputSnapshot
<1>2. Outgoing' = Append(Outgoing, frame') /\ Told' = Append(Told, Said(frame'))
  BY <1>1 DEF Outgoing, Told, Said, Committed
<1>3. frame' \in Frame /\ Said(frame') \in Prediction
  <2>1. TypeInv'
    BY TypeSnapshot
  <2>2. frame' \in Frame
    BY <2>1 DEF TypeInv, TypeOK
  <2>3. QED
    BY <2>2, StepTypes DEF Said, Committed, Frame, Prediction
<1>4. frame'.tick = tick /\ UNCHANGED <<tick, nextTick>>
  BY DEF InputSnapshot
<1>5. QED
  BY <1>1, <1>2, <1>3, <1>4 DEF InputSnapshot, Clock, serverVars, ghostVars

\* Recording a frame may drop the oldest prediction.
LEMMA RecordView ==
    ASSUME RecordAndWrite
    PROVE  /\ Outgoing' = Outgoing /\ Told' = Newest(Told) /\ Clock' = Clock
           /\ history' = Newest(Append(history, Said(frame)))
           /\ probes' = IF frame.probe THEN Append(probes, frame.tick) ELSE probes
           /\ UNCHANGED <<pos, ready, teleport, frame, toBot, srvPos, srvAwaitsAck, rewound, missed,
                          displaced, seed, inputStarted, control, targetY, tick, nextTick>>
           /\ tpc = "record" /\ tpc' \in {"readPos", "ticker"}
<1>1. /\ tpc = "record" /\ tpc' \in {"readPos", "ticker"}
      /\ history' = Newest(Append(history, Said(frame)))
      /\ toServer' = Append(toServer, frame)
  BY DEF RecordAndWrite, Said
<1>2. Outgoing' = Outgoing /\ Told' = Newest(Told)
  BY <1>1 DEF Outgoing, Told
<1>3. QED
  BY <1>1, <1>2 DEF RecordAndWrite, Clock, serverVars

\* The server takes the oldest frame.
LEMMA TakeView ==
    ASSUME TypeInv, IgnoreFrame \/ ProcessFrame
    PROVE  /\ Outgoing # <<>> /\ Head(Outgoing) = Head(toServer) /\ Outgoing' = Tail(Outgoing)
           /\ Told' = Told /\ Clock' = Clock
           /\ UNCHANGED <<pos, ready, teleport, history, probes, frame, rewound, missed, displaced,
                          inputStarted, control, targetY, tick, nextTick, tpc>>
<1>1. /\ toServer # <<>> /\ toServer' = Tail(toServer)
      /\ UNCHANGED <<playerVars, tickVars, rewound, missed, displaced, probes>>
  BY DEF IgnoreFrame, ProcessFrame, Takes, ghostVars
<1>2. toServer \in Seq(Frame) /\ frame \in Frame
  BY DEF TypeInv, TypeOK
<1>3. /\ Append(toServer, frame) # <<>> /\ Head(Append(toServer, frame)) = Head(toServer)
      /\ Tail(Append(toServer, frame)) = Append(Tail(toServer), frame)
  BY <1>1, <1>2
<1>4. QED
  BY <1>1, <1>3 DEF Outgoing, Told, Clock, playerVars, tickVars

\* A packet that is neither a correction nor a MovePlayer.
LEMMA EventView ==
    ASSUME TypeInv, SendPublisher \/ SendAbilities \/ SendSync
    PROVE  /\ \E packet \in Packet : /\ toBot' = Append(toBot, packet)
                                     /\ packet.kind \notin {"correct", "move"}
                                     /\ packet.kind = "publisher" => packet.block = BlockOf(srvPos)
           /\ UNCHANGED <<Outgoing, Told, Clock, pos, ready, teleport, history, probes, frame,
                          rewound, missed, displaced, seed, inputStarted, control, targetY, tick, nextTick,
                          tpc, srvPos, srvAwaitsAck, toServer>>
<1>1. UNCHANGED <<playerVars, tickVars, ghostVars, srvPos, srvAwaitsAck, toServer>>
  BY DEF SendPublisher, SendAbilities, SendSync
<1>2. srvPos \in Position /\ srvTick \in 0..MaxTick
  BY DEF TypeInv, TypeOK
<1>3. \E packet \in Packet : /\ toBot' = Append(toBot, packet)
                             /\ packet.kind \notin {"correct", "move"}
                             /\ packet.kind = "publisher" => packet.block = BlockOf(srvPos)
  <2>1. CASE SendPublisher
    <3> DEFINE sent == [kind |-> "publisher", block |-> BlockOf(srvPos)]
    <3>1. toBot' = Append(toBot, sent)
      BY <2>1 DEF SendPublisher, Sends
    <3>2. sent \in Packet /\ sent.kind = "publisher" /\ sent.block = BlockOf(srvPos)
      BY <1>2, BlockTyped DEF Packet
    <3> HIDE DEF sent
    <3>3. QED
      BY <3>1, <3>2
  <2>2. CASE SendAbilities
    <3>1. PICK on \in BOOLEAN : toBot' = Append(toBot, [kind |-> "abilities", flying |-> on])
      BY <2>2 DEF SendAbilities, Sends
    <3> DEFINE sent == [kind |-> "abilities", flying |-> on]
    <3>2. sent \in Packet /\ sent.kind = "abilities" /\ toBot' = Append(toBot, sent)
      BY <3>1 DEF Packet
    <3> HIDE DEF sent
    <3>3. QED
      BY <3>2
  <2>3. CASE SendSync
    <3> DEFINE sent == [kind |-> "sync", tick |-> srvTick]
    <3>1. toBot' = Append(toBot, sent)
      BY <2>3 DEF SendSync, Sends
    <3>2. sent \in Packet /\ sent.kind = "sync"
      BY <1>2 DEF Packet
    <3> HIDE DEF sent
    <3>3. QED
      BY <3>1, <3>2
  <2>4. QED
    BY <2>1, <2>2, <2>3
<1>4. QED
  BY <1>1, <1>3 DEF Outgoing, Told, Clock, playerVars, tickVars, ghostVars

\* A packet read that is neither a correction nor a MovePlayer.
OtherRead == SyncOnly \/ AcceptPublisherPosition \/ SetFlyingConfirmed

LEMMA ReadView ==
    ASSUME OtherRead
    PROVE  /\ toBot # <<>> /\ toBot' = Tail(toBot) /\ Head(toBot).kind \notin {"correct", "move"}
           /\ UNCHANGED <<Outgoing, Told, Clock, teleport, history, probes, frame, rewound, missed,
                          displaced, inputStarted, control, targetY, tick, nextTick, tpc, srvPos,
                          srvAwaitsAck, toServer>>
           /\ \/ UNCHANGED <<pos, ready, seed>>
              \/ /\ Head(toBot).kind = "publisher" /\ ~ready /\ ~inputStarted /\ seed' = "unseen"
                 /\ ready' = TRUE /\ pos' = PublisherEye(Head(toBot).block)
<1>1. toBot # <<>> /\ toBot' = Tail(toBot) /\ Head(toBot).kind \in {"sync", "publisher", "abilities"}
  BY DEF OtherRead, SyncOnly, AcceptPublisherPosition, SetFlyingConfirmed, Receives
<1>2. UNCHANGED <<teleport, history, probes, tickVars, rewound, missed, displaced, inputStarted,
                  control, targetY, nextTick, srvPos, srvAwaitsAck, toServer>>
  BY DEF OtherRead, SyncOnly, AcceptPublisherPosition, SetFlyingConfirmed, playerVars, serverVars,
         ghostVars
<1>3. \/ UNCHANGED <<pos, ready, seed>>
      \/ /\ Head(toBot).kind = "publisher" /\ ~ready /\ ~inputStarted /\ seed' = "unseen"
         /\ ready' = TRUE /\ pos' = PublisherEye(Head(toBot).block)
  BY DEF OtherRead, SyncOnly, AcceptPublisherPosition, SetFlyingConfirmed, Acceptable, Receives,
         playerVars, ghostVars
<1>4. QED
  BY <1>1, <1>2, <1>3 DEF Outgoing, Told, Clock, tickVars

\* For tick t, the predictions tell what the server saw: no frame moves the bot but not the
\* prediction, and the history reaches back to t.
Faithful(t) ==
    /\ tpc = "record" => Committed(frame) = frame.delta \/ frame.tick <= t
    /\ \A i \in 1..Len(probes) : probes[i] <= t
    /\ Len(history) < HistoryLimit \/ history[1].tick <= t

\* Where a correction will put the bot.
Corrected(c) == Plus(c.pos, Displacement(Told, c.tick))

LEMMA CorrectView ==
    ASSUME TypeInv, CorrectPrediction, ~missed',
           tpc = "record" => Head(toBot).tick < frame.tick
    PROVE  LET c == Head(toBot) IN
           /\ toBot # <<>> /\ toBot' = Tail(toBot) /\ c.kind = "correct"
           /\ c.pos \in Position /\ c.tick \in Int
           /\ history' = Kept(history, c.tick) /\ Told' = Kept(Told, c.tick)
           /\ \A t \in Int : c.tick <= t => Faithful(t)
           /\ pos' = Corrected(c) /\ ready' = (ready \/ Valid(c.pos)) /\ ~missed
           /\ UNCHANGED <<Outgoing, Clock, teleport, probes, frame, rewound, displaced, seed,
                          inputStarted, control, targetY, tick, nextTick, tpc, srvPos, srvAwaitsAck,
                          toServer>>
<1> DEFINE c == Head(toBot)
<1>1. /\ toBot # <<>> /\ toBot' = Tail(toBot) /\ c.kind = "correct"
      /\ history' = Kept(history, c.tick) /\ pos' = Replay(c.pos, Kept(history, c.tick))
      /\ ready' = (ready \/ Valid(c.pos)) /\ ~missed /\ ~Missing(c.tick)
      /\ UNCHANGED <<teleport, probes, tickVars, rewound, displaced, seed, inputStarted, control,
                     targetY, nextTick, srvPos, srvAwaitsAck, toServer>>
  BY DEF CorrectPrediction, Receives, serverVars
<1>2. c.pos \in Position /\ c.tick \in Int
  BY <1>1, PacketTyped, CounterAssumption, SMTT(30) DEF TypeInv, TypeOK
<1>3. tpc = "record" => c.tick < frame.tick
  OBVIOUS
<1> HIDE DEF c
<1>4. /\ history \in Seq(Prediction) /\ frame \in Frame /\ Said(frame) \in Prediction
      /\ probes \in Seq(0..MaxTick) /\ HistoryLimit \in Nat /\ Len(history) \in Nat
      /\ Len(history) <= HistoryLimit
  BY ViewTyped, CounterAssumption DEF TypeInv, TypeOK
<1>5. tpc = "record" => frame.delta = Still /\ Committed(frame) = Still
  BY <1>1 DEF Missing, Committed
<1>6. Told' = Kept(Told, c.tick)
  <2>1. CASE tpc = "record"
    <3>1. Kept(Append(history, Said(frame)), c.tick) = Append(Kept(history, c.tick), Said(frame))
      <4>1. Said(frame).tick > c.tick
        BY <1>2, <1>3, <1>4, <2>1, StepTypes DEF Said, Moving
      <4>2. Kept(Append(history, Said(frame)), c.tick) = Keep(Kept(history, c.tick), Said(frame), c.tick)
        BY <1>4, KeptAppend, Zenon
      <4>3. QED
        BY <4>1, <4>2, Zenon DEF Keep
    <3>2. Said(frame)' = Said(frame)
      BY <1>1 DEF tickVars, Said, Committed
    <3>3. QED
      BY <1>1, <2>1, <3>1, <3>2 DEF Told, tickVars
  <2>2. CASE tpc # "record"
    BY <1>1, <2>2 DEF Told, tickVars
  <2>3. QED
    BY <2>1, <2>2
<1>7. Displacement(Told, c.tick) = Displacement(history, c.tick)
  <2>1. CASE tpc = "record"
    <3>1. Displacement(Append(history, Said(frame)), c.tick) =
              IF Said(frame).tick > c.tick THEN Plus(Displacement(history, c.tick), Said(frame).delta)
                                           ELSE Displacement(history, c.tick)
      BY <1>4, StepTypes, DisplacementAppend, Zenon
    <3>2. Said(frame).delta = Still
      BY <1>5, <2>1 DEF Said
    <3>3. Displacement(history, c.tick) \in Position
      BY <1>4, StepTypes, DisplacementTyped, Zenon
    <3>4. Plus(Displacement(history, c.tick), Still) = Displacement(history, c.tick)
      BY <3>3, PlusRight, StillPosition, Zenon
    <3>5. QED
      BY <2>1, <3>1, <3>2, <3>4 DEF Told
  <2>2. CASE tpc # "record"
    BY <2>2 DEF Told
  <2>3. QED
    BY <2>1, <2>2
<1>8. pos' = Corrected(c)
  <2>1. Replay(c.pos, Kept(history, c.tick)) = Plus(c.pos, Displacement(history, c.tick))
    BY <1>2, <1>4, StepTypes, ReplayKept, Zenon
  <2>2. QED
    BY <1>1, <1>7, <2>1 DEF Corrected
<1>9. ASSUME NEW t \in Int, c.tick <= t PROVE Faithful(t)
  <2>1. \A i \in 1..Len(probes) : probes[i] <= t
    <3> SUFFICES ASSUME NEW i \in 1..Len(probes) PROVE probes[i] <= t
      OBVIOUS
    <3>1. ~(probes[i] > c.tick)
      BY <1>1 DEF Missing
    <3>2. probes[i] \in Int
      <4>1. MaxTick \in Nat /\ probes[i] \in 0..MaxTick
        BY <1>4, CounterAssumption
      <4>2. QED
        BY <4>1
    <3>3. QED
      BY <1>2, <1>9, <3>1, <3>2
  <2>2. Len(history) < HistoryLimit \/ history[1].tick <= t
    <3>1. Len(history) = HistoryLimit => ~(history[1].tick > c.tick)
      BY <1>1 DEF Missing
    <3>2. Len(history) = HistoryLimit => history[1].tick \in Int
      <4>1. HistoryLimit > 0
        BY CounterAssumption
      <4>2. Len(history) = HistoryLimit => 1 \in 1..Len(history)
        BY <1>4, <4>1
      <4>3. \A i \in 1..Len(history) : history[i].tick \in Int
        BY <1>4, StepTypes DEF Moving
      <4>4. QED
        BY <4>2, <4>3
    <3>3. QED
      BY <1>2, <1>4, <1>9, <3>1, <3>2
  <2>3. QED
    BY <1>5, <2>1, <2>2 DEF Faithful
<1>10. UNCHANGED <<Outgoing, Clock, frame, tick, tpc>>
  BY <1>1 DEF tickVars, Outgoing, Clock
<1>11. QED
  BY <1>1, <1>2, <1>6, <1>8, <1>9, <1>10 DEF c

LEMMA UpdateView ==
    ASSUME TypeInv, Update
    PROVE  LET m == Head(toBot) IN
           /\ toBot # <<>> /\ toBot' = Tail(toBot) /\ m.kind = "move" /\ m.pos \in Position
           /\ pos' = m.pos /\ ready' = (ready \/ Valid(m.pos)) /\ teleport' = (teleport \/ m.teleport)
           /\ displaced' = (displaced \/ ~m.teleport) /\ seed' = "none"
           /\ UNCHANGED <<Outgoing, Told, Clock, history, probes, frame, rewound, missed, inputStarted,
                          control, targetY, tick, nextTick, tpc, srvPos, srvAwaitsAck, toServer>>
<1>1. /\ toBot # <<>> /\ toBot' = Tail(toBot) /\ Head(toBot).kind = "move"
      /\ pos' = Head(toBot).pos /\ ready' = (ready \/ Valid(Head(toBot).pos))
      /\ teleport' = (teleport \/ Head(toBot).teleport)
      /\ displaced' = (displaced \/ ~Head(toBot).teleport) /\ seed' = "none"
      /\ UNCHANGED <<history, probes, tickVars, rewound, missed, inputStarted, control, targetY,
                     nextTick, srvPos, srvAwaitsAck, toServer>>
  BY DEF Update, Receives, KeepsTeleport, serverVars
<1>2. Head(toBot).pos \in Position
  BY <1>1, PacketTyped DEF TypeInv, TypeOK
<1>3. QED
  BY <1>1, <1>2 DEF Outgoing, Told, Clock, tickVars

\* syncServerTick moves the clock forward only, or it has been set back.
LEMMA SyncView ==
    ASSUME TypeInv, SyncServerTick, ~rewound', InHand => tick < nextTick
    PROVE  /\ Clock' >= Clock /\ nextTick' >= nextTick
           /\ UNCHANGED <<Outgoing, Told, toBot, pos, ready, teleport, history, probes, frame, missed,
                          displaced, seed, inputStarted, control, targetY, tick, tpc, srvPos, srvAwaitsAck,
                          toServer>>
           /\ Clock' \in Int /\ Clock \in Int /\ nextTick' \in Int /\ nextTick \in Int /\ ~rewound
<1>1. nextTick \in Int /\ tick \in Int /\ owed \in Int
  BY CounterAssumption DEF TypeInv, TypeOK
<1>2. /\ UNCHANGED <<toBot, pos, ready, teleport, history, probes, tickVars, missed, displaced,
                     seed, inputStarted, control, targetY, srvPos, srvAwaitsAck, toServer>>
      /\ ~rewound
      /\ nextTick' = nextTick \/ (nextTick' = owed + 1 /\ ~(owed + 1 < nextTick))
  BY DEF SyncServerTick, serverVars
<1>3. nextTick' >= nextTick /\ nextTick' \in Int
  BY <1>1, <1>2
<1>4. UNCHANGED <<Outgoing, Told, frame, tick, tpc>>
  BY <1>2 DEF Outgoing, Told, tickVars
<1>5. Clock' >= Clock /\ Clock' \in Int /\ Clock \in Int
  BY <1>1, <1>3, <1>4 DEF Clock
<1>6. QED
  BY <1>1, <1>2, <1>3, <1>4, <1>5

\* MovePlayer, of the server's own accord.
LEMMA MoveView ==
    ASSUME TypeInv, MoveBot
    PROVE  /\ \E packet \in Packet :
                 /\ toBot' = Append(toBot, packet) /\ packet.kind = "move" /\ packet.pos = srvPos'
                 /\ packet.teleport => ~srvAwaitsAck /\ srvAwaitsAck'
           /\ UNCHANGED <<Outgoing, Told, Clock, pos, ready, teleport, history, probes, frame,
                          rewound, missed, displaced, seed, inputStarted, control, targetY, tick, nextTick,
                          tpc, toServer>>
<1>1. UNCHANGED <<playerVars, tickVars, ghostVars, toServer>>
  BY DEF MoveBot
<1>2. PICK p \in Places, asked \in {FALSE, ~srvAwaitsAck} :
          /\ srvPos' = p /\ srvAwaitsAck' = (srvAwaitsAck \/ asked)
          /\ toBot' = Append(toBot, [kind |-> "move", pos |-> p, teleport |-> asked,
                                     tick |-> srvTick])
  BY DEF MoveBot, Sends
<1> DEFINE sent == [kind |-> "move", pos |-> p, teleport |-> asked, tick |-> srvTick]
<1>3. sent.kind = "move" /\ sent.pos = p /\ sent.teleport = asked /\ toBot' = Append(toBot, sent)
  BY <1>2
<1>4. sent \in Packet
  BY PlacesAssumption DEF TypeInv, TypeOK, Packet
<1> HIDE DEF sent
<1>5. sent.teleport => ~srvAwaitsAck /\ srvAwaitsAck'
  BY <1>2, <1>3 DEF TypeInv, TypeOK
<1>6. QED
  BY <1>1, <1>2, <1>3, <1>4, <1>5 DEF Outgoing, Told, Clock, playerVars, tickVars, ghostVars

LEMMA ProcessView ==
    ASSUME TypeInv, ProcessFrame
    PROVE  LET f == Head(Outgoing)
               correction == [kind |-> "correct", pos |-> srvPos', tick |-> f.tick] IN
           /\ srvAwaitsAck => f.ack
           /\ ~srvAwaitsAck'
           /\ srvPos' = Plus(srvPos, f.delta) \/ (f.delta # Still /\ srvPos' = srvPos)
           /\ \/ f.pos # srvPos' /\ toBot' = Append(toBot, correction)
              \/ (f.pos = srvPos' \/ f.delta = Still) /\ toBot' = toBot
           /\ srvPos' \in Position /\ correction \in Packet /\ f \in Frame
           /\ seed' = Follows(f)
<1>1. Head(Outgoing) = Head(toServer) /\ toServer # <<>>
  BY TakeView DEF ProcessFrame, Takes
<1>2. TypeInv'
  BY TypeServe DEF Server
<1>3. srvPos' \in Position /\ Head(toServer) \in Frame
  <2>1. toServer \in Seq(Frame) /\ srvPos' \in Position
    BY <1>2 DEF TypeInv, TypeOK
  <2>2. Head(toServer) \in Frame
    BY <1>1, <2>1, TailOf
  <2>3. QED
    BY <2>1, <2>2
<1>4. Head(toServer).tick \in 0..MaxTick
  BY <1>3 DEF Frame
<1>5. [kind |-> "correct", pos |-> srvPos', tick |-> Head(toServer).tick] \in Packet
  BY <1>3, <1>4 DEF Packet
<1>6. /\ srvAwaitsAck => Head(toServer).ack
      /\ ~srvAwaitsAck'
      /\ \/ srvPos' = Plus(srvPos, Head(toServer).delta)
         \/ Head(toServer).delta # Still /\ srvPos' = srvPos
      /\ \/ /\ Head(toServer).pos # srvPos'
            /\ toBot' = Append(toBot, [kind |-> "correct", pos |-> srvPos', tick |-> Head(toServer).tick])
         \/ (Head(toServer).pos = srvPos' \/ Head(toServer).delta = Still) /\ toBot' = toBot
      /\ seed' = Follows(Head(toServer))
  BY DEF ProcessFrame, Sends
<1>7. QED
  BY <1>1, <1>3, <1>5, <1>6

\* What is excluded stays so.
LEMMA SteadyBefore ==
    ASSUME TypeInv, [Next]_vars, Steady'
    PROVE  Steady
<1> DEFINE Asks(q) == \A i \in 1..Len(q) : q[i].kind = "move" => q[i].teleport
<1>0. toBot \in Seq(Packet)
  BY ViewTyped
<1>1. ~rewound /\ ~missed /\ ~displaced
  <2>1. CASE CorrectPrediction \/ Update \/ SyncServerTick
    <3>1. (rewound => rewound') /\ (missed => missed') /\ (displaced => displaced')
      <4>1. CASE CorrectPrediction
        BY <4>1, Zenon DEF CorrectPrediction
      <4>2. CASE Update
        BY <4>2, Zenon DEF Update
      <4>3. CASE SyncServerTick
        BY <4>3, Zenon DEF SyncServerTick
      <4>4. QED
        BY <2>1, <4>1, <4>2, <4>3
    <3>2. QED
      BY <3>1 DEF Steady
  <2>2. CASE \/ RequestFlight \/ RecordAndWrite \/ AcceptPublisherPosition \/ ProcessFrame
             \/ TicksOver \/ UNCHANGED vars
    BY <2>2 DEF Steady, RequestFlight, RecordAndWrite, AcceptPublisherPosition, ProcessFrame, TicksOver,
                vars, ghostVars
  <2>3. CASE UNCHANGED ghostVars
    BY <2>3 DEF Steady, ghostVars
  <2>4. QED
    BY <2>1, <2>2, <2>3
    DEF Next, TickLoop, StartWalk, NextInputTick, ActionTick, InputSnapshot, ReadPosition, ReadReady,
        StartFly, Reader, SyncOnly, SetFlyingConfirmed, Server, IgnoreFrame, MoveBot, SendPublisher,
        SendAbilities, SendSync
<1>2. CASE toBot' = toBot
  BY <1>1, <1>2 DEF Steady
<1>3. ASSUME NEW packet \in Packet, toBot' = Append(toBot, packet) PROVE Asks(toBot)
  <2>1. \A i \in 1..Len(toBot) : toBot'[i] = toBot[i] /\ i \in 1..Len(toBot')
    BY <1>0, <1>3, AppendOf
  <2>2. QED
    BY <2>1 DEF Steady
<1>4. ASSUME toBot # <<>>, toBot' = Tail(toBot), Head(toBot).kind = "move" => Head(toBot).teleport
      PROVE  Asks(toBot)
  <2>1. \A i \in 1..Len(toBot) : i = 1 \/ i - 1 \in 1..Len(Tail(toBot))
    BY <1>0, <1>4
  <2>2. \A i \in 1..Len(Tail(toBot)) : Tail(toBot)[i] = toBot[i + 1]
    BY <1>0, <1>4, TailOf
  <2>3. \A i \in 1..Len(toBot) : i = 1 \/ toBot[i] = toBot'[i - 1]
    <3>1. \A i \in 1..Len(toBot) : (i - 1) + 1 = i
      BY <1>0
    <3>2. QED
      BY <1>4, <2>1, <2>2, <3>1
  <2>4. toBot[1] = Head(toBot)
    BY <1>0, <1>4, TailOf
  <2>5. QED
    BY <1>4, <2>1, <2>3, <2>4 DEF Steady
<1>5. CASE TickLoop \/ SyncServerTick \/ IgnoreFrame \/ TicksOver \/ UNCHANGED vars
  <2>1. toBot' = toBot
    BY <1>5 DEF TickLoop, StartWalk, NextInputTick, ActionTick, RequestFlight, InputSnapshot,
                RecordAndWrite, ReadPosition, ReadReady, StartFly, SyncServerTick, IgnoreFrame,
                TicksOver, vars
  <2>2. QED
    BY <1>2, <2>1
<1>6. CASE CorrectPrediction
  BY <1>1, <1>4, <1>6 DEF CorrectPrediction, Receives, Steady
<1>7. CASE Update
  <2>1. Head(toBot).teleport
    BY <1>7 DEF Update, Steady
  <2>2. QED
    BY <1>1, <1>4, <1>7, <2>1 DEF Update, Receives, Steady
<1>8. CASE OtherRead
  BY <1>1, <1>4, <1>8, ReadView DEF Steady
<1>9. CASE ProcessFrame
  BY <1>1, <1>2, <1>3, <1>9, ProcessView DEF Steady
<1>10. CASE MoveBot
  BY <1>1, <1>3, <1>10, MoveView DEF Steady
<1>11. CASE SendPublisher \/ SendAbilities \/ SendSync
  BY <1>1, <1>3, <1>11, EventView DEF Steady
<1>12. QED
  BY <1>5, <1>6, <1>7, <1>8, <1>9, <1>10, <1>11 DEF Next, Reader, OtherRead, Server

-----------------------------------------------------------------------------
(* The order of the ticks. *)

\* The ticks of s advance, and are all before t.
Advancing(s, t) ==
    /\ \A i \in 1..Len(s) : s[i].tick < t
    /\ \A i, j \in 1..Len(s) : i < j => s[i].tick < s[j].tick

\* The corrections in q are for advancing ticks, before t and before the frames of s.
InOrder(q, s, t) ==
    \A i \in 1..Len(q) : q[i].kind = "correct" =>
        /\ q[i].tick < t
        /\ \A k \in 1..Len(s) : q[i].tick < s[k].tick
        /\ \A j \in 1..Len(q) : i < j /\ q[j].kind = "correct" => q[i].tick < q[j].tick

Order ==
    /\ InHand => tick < nextTick
    /\ tpc = "record" => frame.tick = tick
    /\ Advancing(Outgoing, Clock) /\ Advancing(Told, Clock)
    /\ InOrder(toBot, Outgoing, Clock)

LEMMA AdvancingAppend ==
    ASSUME NEW S, Moving(S), NEW s \in Seq(S), NEW e \in S, NEW t \in Int, NEW u \in Int,
           Advancing(s, t), t <= e.tick, e.tick < u
    PROVE  Advancing(Append(s, e), u)
<1> DEFINE b == Append(s, e)
<1>1. /\ Len(s) \in Nat /\ b[Len(s) + 1] = e
      /\ \A i \in 1..Len(s) : b[i] = s[i]
      /\ \A i \in 1..Len(b) : i = Len(s) + 1 \/ i \in 1..Len(s)
  BY AppendOf
<1>2. e.tick \in Int /\ \A i \in 1..Len(s) : s[i].tick \in Int
  BY DEF Moving
<1> HIDE DEF b
<1>3. \A i \in 1..Len(s) : b[i].tick < e.tick /\ b[i].tick < u
  BY <1>1, <1>2 DEF Advancing
<1>4. \A i \in 1..Len(b) : b[i].tick < u
  BY <1>1, <1>3
<1>5. ASSUME NEW i \in 1..Len(b), NEW j \in 1..Len(b), i < j PROVE b[i].tick < b[j].tick
  <2>1. i \in 1..Len(s)
    BY <1>1, <1>5
  <2>2. CASE j \in 1..Len(s)
    BY <1>1, <1>5, <2>1, <2>2 DEF Advancing
  <2>3. CASE j = Len(s) + 1
    BY <1>1, <1>3, <2>1, <2>3
  <2>4. QED
    BY <1>1, <2>2, <2>3
<1>6. Advancing(b, u)
  BY <1>4, <1>5 DEF Advancing
<1>7. QED
  BY <1>6 DEF b

\* A part of a sequence advances as the whole does.
LEMMA AdvancingPart ==
    ASSUME NEW S, NEW s \in Seq(S), NEW t, Advancing(s, t), NEW f, NEW r, Embeds(f, r, s)
    PROVE  Advancing(r, t)
<1>1. \A i \in 1..Len(r) : f[i] \in 1..Len(s) /\ r[i] = s[f[i]]
  BY DEF Embeds
<1>2. \A i, j \in 1..Len(r) : i < j => f[i] < f[j]
  BY DEF Embeds
<1>3. QED
  BY <1>1, <1>2 DEF Advancing

LEMMA AdvancingTail ==
    ASSUME NEW S, NEW s \in Seq(S), s # <<>>, NEW t, Advancing(s, t)
    PROVE  Advancing(Tail(s), t) /\ \A i \in 1..Len(Tail(s)) : Head(s).tick < Tail(s)[i].tick
<1>1. /\ Head(s) = s[1] /\ 1 \in 1..Len(s)
      /\ \A i \in 1..Len(Tail(s)) : i + 1 \in 1..Len(s) /\ Tail(s)[i] = s[i + 1] /\ 1 < i + 1
  BY TailOf
<1>2. \A i, j \in 1..Len(Tail(s)) : i < j => i + 1 < j + 1
  OBVIOUS
<1>3. QED
  BY <1>1, <1>2 DEF Advancing

\* The newest predictions are all of them, or all but the oldest.
LEMMA NewestOf ==
    ASSUME NEW S, NEW s \in Seq(S), Len(s) <= HistoryLimit + 1
    PROVE  /\ Len(s) <= HistoryLimit => Newest(s) = s
           /\ Len(s) = HistoryLimit + 1 => s # <<>> /\ Newest(s) = Tail(s) /\ Len(Tail(s)) = HistoryLimit
<1>1. HistoryLimit \in Nat \ {0} /\ Len(s) \in Nat
  BY CounterAssumption
<1>2. ASSUME Len(s) <= HistoryLimit PROVE Newest(s) = s
  <2>1. Newest(s) = SubSeq(s, 1, Len(s))
    <3>1. ~(Len(s) > HistoryLimit)
      BY <1>1, <1>2
    <3>2. QED
      BY <3>1, Zenon DEF Newest
  <2>2. QED
    BY <2>1
<1>3. ASSUME Len(s) = HistoryLimit + 1
      PROVE  s # <<>> /\ Newest(s) = Tail(s) /\ Len(Tail(s)) = HistoryLimit
  <2>1. Newest(s) = SubSeq(s, 2, Len(s))
    BY <1>1, <1>3 DEF Newest
  <2>2. s # <<>>
    BY <1>1, <1>3
  <2>3. Tail(s) = SubSeq(s, 2, Len(s)) /\ Len(Tail(s)) = Len(s) - 1
    BY <1>1, <2>2
  <2>4. QED
    BY <1>1, <1>3, <2>1, <2>2, <2>3
<1>4. QED
  BY <1>2, <1>3

LEMMA InOrderTail ==
    ASSUME NEW S, NEW q \in Seq(S), q # <<>>, NEW s, NEW t, InOrder(q, s, t)
    PROVE  /\ InOrder(Tail(q), s, t)
           /\ Head(q).kind = "correct" =>
                \A i \in 1..Len(Tail(q)) : Tail(q)[i].kind = "correct" => Head(q).tick < Tail(q)[i].tick
<1>1. /\ Head(q) = q[1] /\ 1 \in 1..Len(q)
      /\ \A i \in 1..Len(Tail(q)) : i + 1 \in 1..Len(q) /\ Tail(q)[i] = q[i + 1] /\ 1 < i + 1
  BY TailOf
<1>2. \A i, j \in 1..Len(Tail(q)) : i < j => i + 1 < j + 1
  OBVIOUS
<1>3. QED
  BY <1>1, <1>2 DEF InOrder

LEMMA InOrderAppend ==
    ASSUME NEW S, NEW q \in Seq(S), NEW e \in S, NEW s, NEW t, InOrder(q, s, t),
           e.kind = "correct" => /\ e.tick < t /\ \A k \in 1..Len(s) : e.tick < s[k].tick
                                 /\ \A i \in 1..Len(q) : q[i].kind = "correct" => q[i].tick < e.tick
    PROVE  InOrder(Append(q, e), s, t)
<1> DEFINE b == Append(q, e)
<1>1. /\ b[Len(q) + 1] = e /\ Len(q) \in Nat
      /\ \A i \in 1..Len(q) : b[i] = q[i]
      /\ \A i \in 1..Len(b) : i = Len(q) + 1 \/ i \in 1..Len(q)
  BY AppendOf
<1> HIDE DEF b
<1>2. \A i, j \in 1..Len(b) : i < j => i \in 1..Len(q)
  BY <1>1
<1>3. InOrder(b, s, t)
  <2> SUFFICES ASSUME NEW i \in 1..Len(b), b[i].kind = "correct"
               PROVE  /\ b[i].tick < t /\ \A k \in 1..Len(s) : b[i].tick < s[k].tick
                      /\ \A j \in 1..Len(b) : i < j /\ b[j].kind = "correct" => b[i].tick < b[j].tick
    BY DEF InOrder
  <2>1. b[i].tick < t /\ \A k \in 1..Len(s) : b[i].tick < s[k].tick
    BY <1>1 DEF InOrder
  <2>2. ASSUME NEW j \in 1..Len(b), i < j, b[j].kind = "correct" PROVE b[i].tick < b[j].tick
    <3>1. i \in 1..Len(q) /\ b[i] = q[i]
      BY <1>1, <1>2, <2>2
    <3>2. CASE j \in 1..Len(q)
      BY <1>1, <2>2, <3>1, <3>2 DEF InOrder
    <3>3. CASE j = Len(q) + 1
      BY <1>1, <2>2, <3>1, <3>3
    <3>4. QED
      BY <1>1, <3>2, <3>3
  <2>3. QED
    BY <2>1, <2>2
<1>4. QED
  BY <1>3 DEF b

LEMMA OrderInit == Init => Order
<1> SUFFICES ASSUME Init PROVE Order
  OBVIOUS
<1>1. /\ tpc \in {"settle", "first"} /\ toServer = <<>> /\ history = <<>> /\ toBot = <<>>
      /\ Len(<<>>) = 0
  BY DEF Init
<1>2. Outgoing = <<>> /\ Told = <<>> /\ ~InHand
  BY <1>1 DEF Outgoing, Told, InHand
<1>3. QED
  BY <1>1, <1>2 DEF Order, Advancing, InOrder

LEMMA OrderSnapshot ==
    ASSUME TypeInv, Order, InputSnapshot
    PROVE  Order'
<1>1. /\ Outgoing' = Append(Outgoing, frame') /\ Told' = Append(Told, Said(frame'))
      /\ frame' \in Frame /\ Said(frame') \in Prediction
      /\ frame'.tick = Clock /\ Clock = tick /\ Clock' = nextTick
      /\ UNCHANGED <<toBot, tick, nextTick>> /\ tpc = "snap" /\ tpc' = "record"
  BY SnapshotView
<1>2. tick < nextTick /\ tick \in Int /\ nextTick \in Int
  BY <1>1, CounterAssumption DEF Order, InHand, TypeInv, TypeOK
<1>3. Outgoing \in Seq(Frame) /\ Told \in Seq(Prediction) /\ toBot \in Seq(Packet)
  BY ViewTyped
<1>4. Said(frame').tick = tick
  BY <1>1 DEF Said
<1>5. Advancing(Outgoing', Clock') /\ Advancing(Told', Clock')
  BY <1>1, <1>2, <1>3, <1>4, StepTypes, AdvancingAppend DEF Order
<1>6. InOrder(toBot, Append(Outgoing, frame'), nextTick)
  <2> DEFINE b == Append(Outgoing, frame')
  <2>1. /\ b[Len(Outgoing) + 1] = frame'
        /\ \A i \in 1..Len(Outgoing) : b[i] = Outgoing[i]
        /\ \A i \in 1..Len(b) : i = Len(Outgoing) + 1 \/ i \in 1..Len(Outgoing)
    BY <1>1, <1>3, AppendOf
  <2> HIDE DEF b
  <2>2. InOrder(toBot, Outgoing, tick)
    BY <1>1 DEF Order
  <2>3. \A i \in 1..Len(toBot) : toBot[i].kind = "correct" => toBot[i].tick \in Int
    <3>1. \A i \in 1..Len(toBot) : toBot[i] \in Packet
      BY <1>3
    <3>2. QED
      BY <3>1, CounterAssumption DEF Packet
  <2>4. \A i \in 1..Len(toBot) : toBot[i].kind = "correct" => toBot[i].tick < nextTick
    BY <1>2, <2>2, <2>3 DEF InOrder
  <2>5. InOrder(toBot, b, nextTick)
    BY <1>1, <1>4, <2>1, <2>2, <2>4 DEF InOrder
  <2>6. QED
    BY <2>5 DEF b
<1>7. QED
  BY <1>1, <1>2, <1>5, <1>6 DEF Order

\* The correction that is read is for a tick before that of a half-made frame.
LEMMA HeadBeforeFrame ==
    ASSUME TypeInv, Order, toBot # <<>>, Head(toBot).kind = "correct"
    PROVE  /\ tpc = "record" => Head(toBot).tick < frame.tick
           /\ \A k \in 1..Len(Outgoing) : Head(toBot).tick < Outgoing[k].tick
<1>1. Head(toBot) = toBot[1] /\ 1 \in 1..Len(toBot)
  BY ViewTyped, TailOf
<1>2. \A k \in 1..Len(Outgoing) : Head(toBot).tick < Outgoing[k].tick
  BY <1>1 DEF Order, InOrder
<1>3. tpc = "record" => \E k \in 1..Len(Outgoing) : Outgoing[k] = frame
  <2>1. toServer \in Seq(Frame) /\ frame \in Frame
    BY DEF TypeInv, TypeOK
  <2>2. /\ Append(toServer, frame)[Len(toServer) + 1] = frame
        /\ Len(toServer) + 1 \in 1..Len(Append(toServer, frame))
    BY <2>1, AppendOf
  <2>3. QED
    BY <2>2 DEF Outgoing
<1>4. QED
  BY <1>2, <1>3

LEMMA OrderCorrect ==
    ASSUME TypeInv, Order, CorrectPrediction, ~missed'
    PROVE  Order'
<1> DEFINE c == Head(toBot)
<1>1. toBot # <<>> /\ c.kind = "correct"
  BY DEF CorrectPrediction, Receives
<1>2. tpc = "record" => c.tick < frame.tick
  BY <1>1, HeadBeforeFrame
<1>3. /\ toBot' = Tail(toBot) /\ Told' = Kept(Told, c.tick)
      /\ UNCHANGED <<Outgoing, Clock, frame, tick, nextTick, tpc>>
  BY <1>2, CorrectView
<1> HIDE DEF c
<1>4. Told \in Seq(Prediction) /\ toBot \in Seq(Packet)
  BY ViewTyped
<1>5. PICK f : Embeds(f, Kept(Told, c.tick), Told)
  BY <1>4, KeptEmbeds
<1>6. Advancing(Told', Clock)
  BY <1>3, <1>4, <1>5, AdvancingPart DEF Order
<1>7. InOrder(toBot', Outgoing, Clock)
  BY <1>1, <1>3, <1>4, InOrderTail DEF Order
<1>8. QED
  BY <1>3, <1>6, <1>7 DEF Order, InHand

LEMMA OrderTake ==
    ASSUME TypeInv, Order, IgnoreFrame \/ ProcessFrame
    PROVE  Order'
<1> DEFINE f == Head(Outgoing)
<1>1. /\ Outgoing # <<>> /\ Outgoing' = Tail(Outgoing)
      /\ UNCHANGED <<Told, Clock, frame, tick, nextTick, tpc>>
  BY TakeView
<1>2. Outgoing \in Seq(Frame) /\ toBot \in Seq(Packet)
  BY ViewTyped
<1>3. /\ f = Outgoing[1] /\ 1 \in 1..Len(Outgoing)
      /\ \A i \in 1..Len(Outgoing') : i + 1 \in 1..Len(Outgoing) /\ Outgoing'[i] = Outgoing[i + 1]
  BY <1>1, <1>2, TailOf
<1> HIDE DEF f
<1>4. Advancing(Outgoing', Clock) /\ \A i \in 1..Len(Outgoing') : f.tick < Outgoing'[i].tick
  BY <1>1, <1>2, AdvancingTail DEF Order, f
<1>5. InOrder(toBot, Outgoing', Clock)
  BY <1>3 DEF Order, InOrder
<1>6. InOrder(toBot', Outgoing', Clock)
  <2>1. CASE toBot' = toBot
    BY <1>5, <2>1
  <2>2. CASE ProcessFrame /\ toBot' # toBot
    <3>1. PICK e \in Packet : toBot' = Append(toBot, e) /\ e.kind = "correct" /\ e.tick = f.tick
      <4>1. LET sent == [kind |-> "correct", pos |-> srvPos', tick |-> f.tick]
            IN toBot' = Append(toBot, sent) /\ sent \in Packet
        BY <2>2, ProcessView DEF f
      <4>2. QED
        BY <4>1
    <3>2. e.tick < Clock /\ \A i \in 1..Len(toBot) : toBot[i].kind = "correct" => toBot[i].tick < e.tick
      BY <1>3, <3>1 DEF Order, Advancing, InOrder
    <3>3. \A i \in 1..Len(Outgoing') : e.tick < Outgoing'[i].tick
      BY <1>4, <3>1
    <3>4. QED
      BY <1>2, <1>5, <3>1, <3>2, <3>3, InOrderAppend
  <2>3. CASE IgnoreFrame
    BY <2>1, <2>3 DEF IgnoreFrame
  <2>4. QED
    BY <2>1, <2>2, <2>3
<1>7. QED
  BY <1>1, <1>4, <1>6 DEF Order, InHand

LEMMA OrderStep ==
    ASSUME TypeInv, Order, [Next]_vars, Steady, Steady'
    PROVE  Order'
<1>0. toBot \in Seq(Packet) /\ Told \in Seq(Prediction) /\ nextTick \in Int /\ tick \in Int
  BY ViewTyped, CounterAssumption DEF TypeInv, TypeOK
<1>1. CASE BesidesTick
  <2>1. UNCHANGED <<Outgoing, Told, Clock, toBot>> /\ tpc' # "record"
    BY <1>1, AsideTick DEF aside
  <2>2. InHand' => tick' < nextTick'
    <3>1. CASE NextInputTick
      BY <1>0, <3>1 DEF NextInputTick
    <3>2. CASE StartWalk \/ ActionTick \/ RequestFlight \/ ReadPosition \/ ReadReady \/ StartFly
      <4>1. UNCHANGED <<tick, nextTick>> /\ (InHand' => InHand)
        BY <3>2 DEF StartWalk, ActionTick, RequestFlight, ReadPosition, ReadReady, StartFly, InHand,
                    playerVars
      <4>2. QED
        BY <4>1 DEF Order
    <3>3. QED
      BY <1>1, <3>1, <3>2 DEF BesidesTick
  <2>3. QED
    BY <2>1, <2>2 DEF Order
<1>2. CASE InputSnapshot
  BY <1>2, OrderSnapshot
<1>3. CASE RecordAndWrite
  <2>1. /\ Outgoing' = Outgoing /\ Told' = Newest(Told) /\ Clock' = Clock
        /\ UNCHANGED <<toBot, tick, nextTick>> /\ tpc = "record" /\ tpc' \in {"readPos", "ticker"}
    BY <1>3, RecordView
  <2>2. Len(Told) <= HistoryLimit + 1
    <3>1. history \in Seq(Prediction) /\ Said(frame) \in Prediction /\ Len(history) <= HistoryLimit
      BY ViewTyped DEF TypeInv, TypeOK
    <3>2. Len(Append(history, Said(frame))) = Len(history) + 1 /\ Len(history) \in Nat
      BY <3>1, AppendOf
    <3>3. QED
      BY <2>1, <3>1, <3>2, CounterAssumption DEF Told
  <2>3. Told' = Told \/ (Told # <<>> /\ Told' = Tail(Told))
    <3>1. Len(Told) \in Nat /\ HistoryLimit \in Nat
      BY <1>0, CounterAssumption
    <3>2. Len(Told) <= HistoryLimit \/ Len(Told) = HistoryLimit + 1
      BY <2>2, <3>1
    <3>3. QED
      BY <1>0, <2>1, <2>2, <3>2, NewestOf
  <2>4. Advancing(Told', Clock)
    BY <1>0, <2>3, AdvancingTail DEF Order
  <2>5. QED
    BY <2>1, <2>4 DEF Order, InHand
<1>4. CASE CorrectPrediction
  BY <1>4, OrderCorrect DEF Steady
<1>5. CASE Update \/ OtherRead
  <2>1. /\ toBot # <<>> /\ toBot' = Tail(toBot)
        /\ UNCHANGED <<Outgoing, Told, Clock, frame, tick, nextTick, tpc>>
    BY <1>5, UpdateView, ReadView
  <2>2. InOrder(toBot', Outgoing, Clock)
    BY <1>0, <2>1, InOrderTail DEF Order
  <2>3. QED
    BY <2>1, <2>2 DEF Order, InHand
<1>6. CASE SyncServerTick
  <2>1. /\ Clock' >= Clock /\ nextTick' >= nextTick /\ Clock' \in Int /\ Clock \in Int
        /\ nextTick' \in Int /\ UNCHANGED <<Outgoing, Told, toBot, frame, tick, tpc>>
    BY <1>6, SyncView DEF Order, Steady
  <2>2. Advancing(Outgoing, Clock') /\ Advancing(Told, Clock')
    <3>1. (\A i \in 1..Len(Outgoing) : Outgoing[i].tick \in Int)
          /\ (\A i \in 1..Len(Told) : Told[i].tick \in Int)
      BY ViewTyped, StepTypes DEF Moving
    <3>2. QED
      BY <2>1, <3>1 DEF Order, Advancing
  <2>3. InOrder(toBot, Outgoing, Clock')
    <3>1. \A i \in 1..Len(toBot) : toBot[i].kind = "correct" => toBot[i].tick \in Int
      <4>1. \A i \in 1..Len(toBot) : toBot[i] \in Packet
        BY <1>0
      <4>2. QED
        BY <4>1, CounterAssumption DEF Packet
    <3>2. QED
      BY <2>1, <3>1 DEF Order, InOrder
  <2>4. InHand' => tick' < nextTick'
    BY <1>0, <2>1 DEF Order, InHand
  <2>5. QED
    BY <2>1, <2>2, <2>3, <2>4 DEF Order
<1>7. CASE IgnoreFrame \/ ProcessFrame
  BY <1>7, OrderTake
<1>8. CASE MoveBot \/ SendPublisher \/ SendAbilities \/ SendSync
  <2>1. /\ \E e \in Packet : toBot' = Append(toBot, e) /\ e.kind # "correct"
        /\ UNCHANGED <<Outgoing, Told, Clock, frame, tick, nextTick, tpc>>
    BY <1>8, MoveView, EventView
  <2>2. InOrder(toBot', Outgoing, Clock)
    BY <1>0, <2>1, InOrderAppend DEF Order
  <2>3. QED
    BY <2>1, <2>2 DEF Order, InHand
<1>9. CASE TicksOver \/ UNCHANGED vars
  <2>1. UNCHANGED <<Outgoing, Told, Clock, toBot>> /\ UNCHANGED <<tpc, frame, tick, nextTick>>
    BY <1>9, AsideElse DEF aside, TicksOver, vars, tickVars, playerVars
  <2>2. QED
    BY <2>1 DEF Order, InHand
<1>10. QED
  BY <1>1, <1>2, <1>3, <1>4, <1>5, <1>6, <1>7, <1>8, <1>9
  DEF Next, TickLoop, BesidesTick, Reader, OtherRead, Server

-----------------------------------------------------------------------------
(* The predictions mirror the frames on their way. *)

Ticks(s) == {s[i].tick : i \in 1..Len(s)}

\* What the server will add to its position after a frame, the bot adds when it is corrected
\* for that frame.
Mirrored(t) == Faithful(t) => Displacement(Told, t) = Displacement(Outgoing, t)
Mirror == \A t \in Ticks(Outgoing) : Mirrored(t)

LEMMA TicksAppend ==
    ASSUME NEW S, NEW s \in Seq(S), NEW e \in S
    PROVE  Ticks(Append(s, e)) = Ticks(s) \cup {e.tick}
<1> DEFINE b == Append(s, e)
<1>1. /\ b[Len(s) + 1] = e /\ Len(s) + 1 \in 1..Len(b)
      /\ \A i \in 1..Len(s) : b[i] = s[i] /\ i \in 1..Len(b)
      /\ \A i \in 1..Len(b) : i = Len(s) + 1 \/ i \in 1..Len(s)
  BY AppendOf
<1> HIDE DEF b
<1>2. Ticks(b) = Ticks(s) \cup {e.tick}
  BY <1>1 DEF Ticks
<1>3. QED
  BY <1>2 DEF b

LEMMA TicksTail ==
    ASSUME NEW S, NEW s \in Seq(S), s # <<>>
    PROVE  Ticks(Tail(s)) \subseteq Ticks(s) /\ Head(s).tick \in Ticks(s)
  BY TailOf DEF Ticks

LEMMA TicksTyped ==
    ASSUME TypeInv
    PROVE  /\ Ticks(Outgoing) \subseteq Int /\ Ticks(Told) \subseteq Int
           /\ \A k \in 1..Len(history) : history[k].tick \in Int
  BY ViewTyped, StepTypes DEF Moving, Ticks

LEMMA MirrorInit == Init => Mirror
<1> SUFFICES ASSUME Init PROVE Mirror
  OBVIOUS
<1>1. Outgoing = <<>> /\ Len(<<>>) = 0
  BY DEF Init, Outgoing
<1>2. QED
  BY <1>1 DEF Mirror, Ticks

LEMMA MirrorSnapshot ==
    ASSUME TypeInv, Order, Mirror, InputSnapshot
    PROVE  Mirror'
<1>0. PICK f : f = frame'
  OBVIOUS
<1>1. /\ Outgoing' = Append(Outgoing, f) /\ Told' = Append(Told, Said(f))
      /\ f \in Frame /\ Said(f) \in Prediction /\ f.tick = Clock
      /\ UNCHANGED <<history, probes>> /\ tpc = "snap" /\ tpc' = "record"
  BY <1>0, SnapshotView
<1>2. Outgoing \in Seq(Frame) /\ Told \in Seq(Prediction)
  BY ViewTyped
<1>3. Said(f).tick = f.tick /\ Said(f).delta = Committed(f) /\ f.tick \in Int
  BY <1>1, StepTypes DEF Said, Moving
<1>4. /\ \A i \in 1..Len(Outgoing) : Outgoing[i].tick < f.tick
      /\ \A i \in 1..Len(Told) : Told[i].tick < f.tick
      /\ \A t \in Ticks(Outgoing) : t < f.tick /\ t \in Int
  BY <1>1, TicksTyped DEF Order, Advancing, Ticks
<1>5. ASSUME NEW t
      PROVE  /\ Displacement(Outgoing', t) =
                    IF f.tick > t THEN Plus(Displacement(Outgoing, t), f.delta)
                                  ELSE Displacement(Outgoing, t)
             /\ Displacement(Told', t) =
                    IF f.tick > t THEN Plus(Displacement(Told, t), Committed(f))
                                  ELSE Displacement(Told, t)
  <2>1. Displacement(Append(Outgoing, f), t) =
            IF f.tick > t THEN Plus(Displacement(Outgoing, t), f.delta) ELSE Displacement(Outgoing, t)
    BY <1>1, <1>2, StepTypes, DisplacementAppend, Zenon
  <2>2. Displacement(Append(Told, Said(f)), t) =
            IF Said(f).tick > t THEN Plus(Displacement(Told, t), Said(f).delta)
                                ELSE Displacement(Told, t)
    BY <1>1, <1>2, StepTypes, DisplacementAppend, Zenon
  <2>3. QED
    BY <1>1, <1>3, <2>1, <2>2
<1>6. ASSUME NEW t \in Ticks(Outgoing) PROVE Mirrored(t)'
  <2>1. f.tick > t /\ ~(f.tick <= t)
    BY <1>3, <1>4
  <2>2. Mirrored(t)
    BY DEF Mirror
  <2>3. ASSUME Faithful(t)' PROVE Committed(f) = f.delta /\ Faithful(t)
    <3>1. Committed(f) = f.delta \/ f.tick <= t
      BY <1>0, <1>1, <2>3 DEF Faithful, Committed
    <3>2. QED
      BY <1>1, <2>1, <2>3, <3>1 DEF Faithful
  <2>4. QED
    BY <1>5, <2>1, <2>2, <2>3 DEF Mirrored
<1>7. Mirrored(f.tick)'
  <2>1. Displacement(Told', f.tick) = Displacement(Outgoing', f.tick)
    <3>1. /\ \A i \in 1..Len(Outgoing) : ~(Outgoing[i].tick > f.tick)
          /\ \A i \in 1..Len(Told) : ~(Told[i].tick > f.tick)
      <4>1. /\ \A i \in 1..Len(Outgoing) : Outgoing[i].tick \in Int
            /\ \A i \in 1..Len(Told) : Told[i].tick \in Int
        BY <1>2, StepTypes DEF Moving
      <4>2. QED
        BY <1>3, <1>4, <4>1
    <3>2. Displacement(Outgoing, f.tick) = Still /\ Displacement(Told, f.tick) = Still
      BY <1>2, <3>1, DisplacementNone, StepTypes
    <3>3. ~(f.tick > f.tick)
      BY <1>3
    <3>4. QED
      BY <1>5, <3>2, <3>3
  <2>2. QED
    BY <2>1 DEF Mirrored
<1>8. Ticks(Outgoing') = Ticks(Outgoing) \cup {f.tick}
  BY <1>1, <1>2, TicksAppend
<1>9. QED
  BY <1>6, <1>7, <1>8 DEF Mirror

\* A prediction that is dropped is of a tick that no correction will be faithful to.
LEMMA FaithfulRecord ==
    ASSUME TypeInv, Order, RecordAndWrite, NEW t \in Int, Faithful(t)'
    PROVE  Faithful(t) /\ Displacement(Told', t) = Displacement(Told, t)
<1>1. /\ Told' = Newest(Told) /\ history' = Newest(Told)
      /\ probes' = (IF frame.probe THEN Append(probes, frame.tick) ELSE probes)
      /\ tpc = "record"
  BY RecordView DEF Told
<1>2. /\ history \in Seq(Prediction) /\ Said(frame) \in Prediction /\ Len(history) \in Nat
      /\ Len(history) <= HistoryLimit /\ HistoryLimit \in Nat \ {0} /\ Told \in Seq(Prediction)
      /\ probes \in Seq(0..MaxTick) /\ frame.tick \in 0..MaxTick
  BY ViewTyped, CounterAssumption DEF TypeInv, TypeOK, Frame
<1>3. /\ Told = Append(history, Said(frame)) /\ Len(Told) = Len(history) + 1
      /\ \A i \in 1..Len(history) : Told[i] = history[i]
  BY <1>1, <1>2, AppendOf DEF Told
<1>4. Committed(frame) = frame.delta \/ frame.tick <= t
  <2>1. CASE frame.probe
    <3>1. /\ Append(probes, frame.tick)[Len(probes) + 1] = frame.tick
          /\ Len(probes) + 1 \in 1..Len(Append(probes, frame.tick))
      BY <1>2, AppendOf
    <3>2. QED
      BY <1>1, <2>1, <3>1 DEF Faithful
  <2>2. CASE ~frame.probe
    BY <2>2 DEF Committed
  <2>3. QED
    BY <2>1, <2>2
<1>5. \A i \in 1..Len(probes) : probes[i] <= t
  <2>1. \A i \in 1..Len(probes) : probes'[i] = probes[i] /\ i \in 1..Len(probes')
    <3>1. CASE frame.probe
      BY <1>1, <1>2, <3>1, AppendOf
    <3>2. CASE ~frame.probe
      BY <1>1, <3>2
    <3>3. QED
      BY <3>1, <3>2
  <2>2. QED
    BY <2>1 DEF Faithful
<1>6. CASE Len(history) < HistoryLimit
  <2>1. Told' = Told
    <3>1. Len(Told) <= HistoryLimit /\ Len(Told) <= HistoryLimit + 1
      BY <1>2, <1>3, <1>6
    <3>2. QED
      BY <1>1, <1>2, <3>1, NewestOf
  <2>2. QED
    BY <1>4, <1>5, <1>6, <2>1 DEF Faithful
<1>7. CASE Len(history) = HistoryLimit
  <2>1. Told # <<>> /\ Told' = Tail(Told) /\ history' = Tail(Told) /\ Len(history') = HistoryLimit
    <3>1. Len(Told) = HistoryLimit + 1 /\ Len(Told) <= HistoryLimit + 1
      BY <1>2, <1>3, <1>7
    <3>2. QED
      BY <1>1, <1>2, <3>1, NewestOf
  <2>2. history'[1].tick <= t
    BY <1>2, <2>1 DEF Faithful
  <2>3. 1 \in 1..Len(history') /\ 1 \in 1..Len(history) /\ Head(Told) = Told[1]
    BY <1>2, <1>7, <2>1, TailOf
  <2>4. Head(Told).tick < history'[1].tick
    BY <1>2, <2>1, <2>3, AdvancingTail DEF Order
  <2>5. /\ Told[1] = history[1] /\ history[1].tick \in Int /\ history'[1].tick \in Int
    <3>1. Told[1] = history[1] /\ history[1] \in Prediction
      BY <1>2, <1>3, <2>3
    <3>2. Tail(Told) \in Seq(Prediction)
      BY <1>2, <2>1, TailOf
    <3>3. history'[1] \in Prediction
      BY <2>1, <2>3, <3>2
    <3>4. QED
      BY <3>1, <3>3, StepTypes DEF Moving
  <2>6. history[1].tick <= t /\ ~(Head(Told).tick > t)
    BY <2>2, <2>3, <2>4, <2>5
  <2>7. Displacement(Told, t) = Displacement(Tail(Told), t)
    BY <1>2, <2>1, <2>6, StepTypes, DisplacementTail, Zenon
  <2>8. QED
    BY <1>4, <1>5, <2>1, <2>6, <2>7 DEF Faithful
<1>8. QED
  BY <1>2, <1>6, <1>7

\* Of the frames still on their way, only the ones after t count.
LEMMA TakenBefore ==
    ASSUME TypeInv, Order, Outgoing # <<>>, NEW t \in Int,
           t \in Ticks(Tail(Outgoing)) \/ t = Head(Outgoing).tick
    PROVE  Displacement(Tail(Outgoing), t) = Displacement(Outgoing, t)
<1>1. Outgoing \in Seq(Frame)
  BY ViewTyped
<1>2. \A i \in 1..Len(Tail(Outgoing)) : Head(Outgoing).tick < Tail(Outgoing)[i].tick
  BY <1>1, AdvancingTail DEF Order
<1>3. Head(Outgoing).tick \in Int
  BY <1>1, TicksTail, TicksTyped
<1>4. ~(Head(Outgoing).tick > t)
  BY <1>2, <1>3 DEF Ticks
<1>5. QED
  BY <1>1, <1>4, StepTypes, DisplacementTail, Zenon

LEMMA MirrorStep ==
    ASSUME TypeInv, Order, Mirror, [Next]_vars, Steady, Steady'
    PROVE  Mirror'
<1>0. Outgoing \in Seq(Frame) /\ Told \in Seq(Prediction) /\ Ticks(Outgoing) \subseteq Int
  BY ViewTyped, TicksTyped
<1>1. CASE UNCHANGED <<Outgoing, Told, probes, history>> /\ (tpc' = "record" => tpc = "record" /\ frame' = frame)
           /\ (tpc = "record" => tpc' = "record")
  <2>1. ASSUME NEW t, Faithful(t)' PROVE Faithful(t)
    BY <1>1, <2>1 DEF Faithful, Committed
  <2>2. QED
    BY <1>1, <2>1 DEF Mirror, Mirrored
<1>2. CASE BesidesTick \/ TicksOver \/ UNCHANGED vars
  BY <1>1, <1>2, AsideTick, AsideElse DEF aside
<1>3. CASE InputSnapshot
  BY <1>3, MirrorSnapshot
<1>4. CASE RecordAndWrite
  <2>1. Outgoing' = Outgoing
    BY <1>4, RecordView
  <2>2. ASSUME NEW t \in Ticks(Outgoing), Faithful(t)'
        PROVE  Displacement(Told', t) = Displacement(Outgoing', t)
    BY <1>0, <1>4, <2>1, <2>2, FaithfulRecord DEF Mirror, Mirrored
  <2>3. QED
    BY <2>1, <2>2 DEF Mirror, Mirrored
<1>5. CASE CorrectPrediction
  <2> DEFINE c == Head(toBot)
  <2>1. toBot # <<>> /\ c.kind = "correct"
    BY <1>5 DEF CorrectPrediction, Receives
  <2>2. /\ Outgoing' = Outgoing /\ Told' = Kept(Told, c.tick) /\ c.tick \in Int
        /\ \A t \in Int : c.tick <= t => Faithful(t)
    BY <1>5, <2>1, HeadBeforeFrame, CorrectView DEF Steady
  <2>3. \A t \in Ticks(Outgoing) : c.tick < t
    BY <2>1, HeadBeforeFrame DEF Ticks
  <2> HIDE DEF c
  <2>4. ASSUME NEW t \in Ticks(Outgoing) PROVE Displacement(Told', t) = Displacement(Outgoing', t)
    <3>1. c.tick <= t /\ t \in Int
      BY <1>0, <2>2, <2>3
    <3>2. Displacement(Told, t) = Displacement(Outgoing, t)
      BY <2>2, <3>1 DEF Mirror, Mirrored
    <3>3. Displacement(Kept(Told, c.tick), t) = Displacement(Told, t)
      BY <1>0, <2>2, <3>1, StepTypes, DisplacementOfKept, Zenon
    <3>4. QED
      BY <2>2, <3>2, <3>3
  <2>5. QED
    BY <2>2, <2>4 DEF Mirror, Mirrored
<1>6. CASE Update \/ OtherRead
  BY <1>1, <1>6, UpdateView, ReadView
<1>7. CASE SyncServerTick
  BY <1>1, <1>7, SyncView DEF Order, Steady
<1>8. CASE IgnoreFrame \/ ProcessFrame
  <2>1. /\ Outgoing # <<>> /\ Outgoing' = Tail(Outgoing)
        /\ UNCHANGED <<Told, probes, history, tpc, frame>>
    BY <1>8, TakeView
  <2>2. ASSUME NEW t \in Ticks(Tail(Outgoing)), Faithful(t)'
        PROVE  Displacement(Told, t) = Displacement(Tail(Outgoing), t)
    <3>1. t \in Ticks(Outgoing) /\ t \in Int
      BY <1>0, <2>1, TicksTail
    <3>2. Faithful(t)
      BY <2>1, <2>2 DEF Faithful, Committed
    <3>3. Displacement(Tail(Outgoing), t) = Displacement(Outgoing, t)
      BY <2>1, <3>1, TakenBefore
    <3>4. QED
      BY <3>1, <3>2, <3>3 DEF Mirror, Mirrored
  <2>3. QED
    BY <2>1, <2>2 DEF Mirror, Mirrored
<1>9. CASE MoveBot \/ SendPublisher \/ SendAbilities \/ SendSync
  BY <1>1, <1>9, MoveView, EventView
<1>10. QED
  BY <1>2, <1>3, <1>4, <1>5, <1>6, <1>7, <1>8, <1>9
  DEF Next, TickLoop, BesidesTick, Reader, OtherRead, Server

-----------------------------------------------------------------------------
(* Before the first input tick. *)

\* The nearness of a seed.
Near(p, q) == 2 * Distance(p.x, q.x) <= BlockSize /\ Distance(p.y, q.y) < BlockSize

\* The middle of a block is near every position in it.
LEMMA BlockNear ==
    ASSUME NEW p \in Position
    PROVE  Near(PublisherEye(BlockOf(p)), p)
<1> DEFINE X == (p.x \div BlockSize) * BlockSize
           Y == (p.y \div BlockSize) * BlockSize
           H == BlockSize \div 2
<1>1. /\ p.x \in Int /\ p.y \in Int /\ BlockSize \in Nat \ {0}
      /\ EyeOffset \in Int /\ 0 <= EyeOffset /\ EyeOffset < BlockSize
  BY BlockAssumption DEF Position
<1>2. X \in Int /\ X <= p.x /\ p.x < X + BlockSize
  BY <1>1
<1>3. Y \in Int /\ Y <= p.y /\ p.y < Y + BlockSize
  BY <1>1
<1>4. H \in Int /\ 2 * H <= BlockSize /\ BlockSize <= 2 * H + 1
  BY <1>1
<1>5. PublisherEye(BlockOf(p)).x = X + H /\ PublisherEye(BlockOf(p)).y = Y + EyeOffset
  BY DEF PublisherEye, BlockOf
<1> HIDE DEF X, Y, H
<1>6. 2 * Distance(X + H, p.x) <= BlockSize
  BY <1>1, <1>2, <1>4 DEF Distance
<1>7. Distance(Y + EyeOffset, p.y) < BlockSize
  BY <1>1, <1>3 DEF Distance
<1>8. QED
  BY <1>5, <1>6, <1>7 DEF Near

LEMMA NearItself ==
    ASSUME NEW p \in Position
    PROVE  Near(p, p)
  BY BlockAssumption DEF Near, Distance, Position

Lacks(q, kind) == \A i \in 1..Len(q) : q[i].kind # kind

LEMMA LacksTail ==
    ASSUME NEW S, NEW q \in Seq(S), q # <<>>, NEW kind, Lacks(q, kind)
    PROVE  Lacks(Tail(q), kind) /\ Head(q).kind # kind
  BY TailOf DEF Lacks

LEMMA LacksAppend ==
    ASSUME NEW S, NEW q \in Seq(S), NEW e \in S, NEW kind, Lacks(q, kind), e.kind # kind
    PROVE  Lacks(Append(q, e), kind)
<1>1. \A i \in 1..Len(Append(q, e)) : Append(q, e)[i] = e \/ \E j \in 1..Len(q) : Append(q, e)[i] = q[j]
  BY AppendOf
<1>2. QED
  BY <1>1 DEF Lacks

\* A publisher packet in q names the block of p, or a MovePlayer comes after it.
Published(q, p) ==
    \A i \in 1..Len(q) : q[i].kind = "publisher" =>
        q[i].block = BlockOf(p) \/ \E j \in 1..Len(q) : i < j /\ q[j].kind = "move"

\* No frame has been made, and the publisher packets tell where the server has the bot.
Unstirred ==
    ~inputStarted =>
        Outgoing = <<>> /\ ~InHand /\ Lacks(toBot, "correct") /\ Published(toBot, srvPos)

LEMMA UnstirredInit == Init => Unstirred
<1> SUFFICES ASSUME Init PROVE Unstirred
  OBVIOUS
<1>1. Outgoing = <<>> /\ toBot = <<>> /\ Len(<<>>) = 0 /\ ~InHand
  BY DEF Init, Outgoing, InHand
<1>2. QED
  BY <1>1 DEF Unstirred, Lacks, Published

LEMMA PublishedTail ==
    ASSUME NEW S, NEW q \in Seq(S), q # <<>>, NEW p, Published(q, p)
    PROVE  Published(Tail(q), p)
<1> DEFINE r == Tail(q)
<1>1. /\ Len(q) \in Nat /\ Len(r) = Len(q) - 1
      /\ \A j \in 1..Len(r) : j + 1 \in 1..Len(q) /\ r[j] = q[j + 1]
  BY TailOf
<1> HIDE DEF r
<1>2. ASSUME NEW i \in 1..Len(r), r[i].kind = "publisher"
      PROVE  r[i].block = BlockOf(p) \/ \E j \in 1..Len(r) : i < j /\ r[j].kind = "move"
  <2>1. i + 1 \in 1..Len(q) /\ q[i + 1] = r[i]
    BY <1>1
  <2>2. ASSUME NEW j \in 1..Len(q), i + 1 < j, q[j].kind = "move"
        PROVE  j - 1 \in 1..Len(r) /\ i < j - 1 /\ r[j - 1].kind = "move"
    <3>1. j - 1 \in 1..Len(r) /\ i < j - 1 /\ (j - 1) + 1 = j
      BY <1>1, <2>2
    <3>2. QED
      BY <1>1, <2>2, <3>1
  <2>3. r[i].block = BlockOf(p) \/ \E j \in 1..Len(q) : i + 1 < j /\ q[j].kind = "move"
    BY <1>2, <2>1 DEF Published
  <2>4. QED
    BY <2>2, <2>3
<1>3. Published(r, p)
  BY <1>2 DEF Published
<1>4. QED
  BY <1>3 DEF r

LEMMA PublishedAppend ==
    ASSUME NEW S, NEW q \in Seq(S), NEW e \in S, NEW p, NEW r,
           \/ e.kind = "move"
           \/ r = p /\ Published(q, p) /\ (e.kind = "publisher" => e.block = BlockOf(p))
    PROVE  Published(Append(q, e), r)
<1> DEFINE b == Append(q, e)
<1>1. /\ b[Len(q) + 1] = e /\ Len(q) + 1 \in 1..Len(b) /\ Len(q) \in Nat
      /\ \A i \in 1..Len(q) : b[i] = q[i] /\ i \in 1..Len(b) /\ i < Len(q) + 1
      /\ \A i \in 1..Len(b) : i = Len(q) + 1 \/ i \in 1..Len(q)
  BY AppendOf
<1> HIDE DEF b
<1>2. Published(b, r)
  BY <1>1 DEF Published
<1>3. QED
  BY <1>2 DEF b

\* Without a MovePlayer on its way, a publisher packet is of where the server has the bot.
LEMMA PublishedHead ==
    ASSUME NEW S, NEW q \in Seq(S), q # <<>>, NEW p, Published(q, p), Lacks(q, "move"),
           Head(q).kind = "publisher"
    PROVE  Head(q).block = BlockOf(p)
  BY TailOf DEF Published, Lacks

LEMMA UnstirredStep ==
    ASSUME TypeInv, Order, Unstirred, [Next]_vars, Steady, Steady'
    PROVE  Unstirred'
<1> SUFFICES ASSUME ~inputStarted'
             PROVE  /\ Outgoing' = <<>> /\ ~InHand' /\ Lacks(toBot', "correct")
                    /\ Published(toBot', srvPos')
  BY DEF Unstirred, Lacks, Published, BlockOf
<1>0. toBot \in Seq(Packet)
  BY ViewTyped
<1>1. ~inputStarted /\ ~NextInputTick
  BY DEF Next, TickLoop, StartWalk, NextInputTick, ActionTick, RequestFlight, InputSnapshot,
         RecordAndWrite, ReadPosition, ReadReady, StartFly, Reader, CorrectPrediction, Update,
         SyncOnly, SyncServerTick, AcceptPublisherPosition, SetFlyingConfirmed, Server, IgnoreFrame,
         ProcessFrame, MoveBot, SendPublisher, SendAbilities, SendSync, TicksOver, vars, playerVars
<1>2. Outgoing = <<>> /\ ~InHand /\ Lacks(toBot, "correct") /\ Published(toBot, srvPos)
  BY <1>1 DEF Unstirred
<1>3. ~ActionTick /\ ~InputSnapshot /\ ~RecordAndWrite /\ ~IgnoreFrame /\ ~ProcessFrame
  <2>1. tpc \notin {"act", "snap", "record"}
    BY <1>2 DEF InHand
  <2>2. ~IgnoreFrame /\ ~ProcessFrame
    BY <1>2, TakeView
  <2>3. QED
    BY <2>1, <2>2 DEF ActionTick, InputSnapshot, RecordAndWrite
<1>4. CASE StartWalk \/ RequestFlight \/ ReadPosition \/ ReadReady \/ StartFly
  <2>1. ~InHand'
    BY <1>2, <1>4 DEF StartWalk, RequestFlight, ReadPosition, ReadReady, StartFly, InHand
  <2>2. UNCHANGED <<Outgoing, toBot, srvPos>>
    BY <1>4, AsideTick DEF BesidesTick, aside
  <2>3. QED
    BY <1>2, <2>1, <2>2
<1>5. CASE Update \/ OtherRead \/ CorrectPrediction
  <2>1. ~CorrectPrediction
    <3>1. CorrectPrediction => toBot # <<>> /\ Head(toBot).kind = "correct"
      BY DEF CorrectPrediction, Receives
    <3>2. QED
      BY <1>0, <1>2, <3>1, LacksTail
  <2>2. /\ toBot # <<>> /\ toBot' = Tail(toBot) /\ UNCHANGED <<Outgoing, srvPos, tpc>>
    BY <1>5, <2>1, UpdateView, ReadView
  <2>3. Lacks(toBot', "correct")
    BY <1>0, <1>2, <2>2, LacksTail
  <2>4. Published(toBot', srvPos)
    BY <1>0, <1>2, <2>2, PublishedTail
  <2>5. QED
    BY <1>2, <2>2, <2>3, <2>4 DEF InHand
<1>6. CASE SyncServerTick
  BY <1>2, <1>6, SyncView DEF Order, Steady, InHand
<1>7. CASE MoveBot
  <2>1. PICK e \in Packet : toBot' = Append(toBot, e) /\ e.kind = "move"
    BY <1>7, MoveView
  <2>2. UNCHANGED <<Outgoing, tpc>>
    BY <1>7, MoveView
  <2>3. Lacks(toBot', "correct") /\ Published(toBot', srvPos')
    BY <1>0, <1>2, <2>1, LacksAppend, PublishedAppend
  <2>4. QED
    BY <1>2, <2>2, <2>3 DEF InHand
<1>8. CASE SendPublisher \/ SendAbilities \/ SendSync
  <2>1. PICK e \in Packet : /\ toBot' = Append(toBot, e) /\ e.kind \notin {"correct", "move"}
                            /\ e.kind = "publisher" => e.block = BlockOf(srvPos)
    BY <1>8, EventView
  <2>2. UNCHANGED <<Outgoing, tpc, srvPos>>
    BY <1>8, EventView
  <2>3. Lacks(toBot', "correct")
    BY <1>0, <1>2, <2>1, LacksAppend
  <2>4. Published(toBot', srvPos)
    BY <1>0, <1>2, <2>1, PublishedAppend
  <2>5. QED
    BY <1>2, <2>2, <2>3, <2>4 DEF InHand
<1>9. CASE TicksOver \/ UNCHANGED vars
  BY <1>2, <1>9, AsideElse DEF aside, InHand
<1>10. QED
  BY <1>1, <1>3, <1>4, <1>5, <1>6, <1>7, <1>8, <1>9 DEF Next, TickLoop, Reader, OtherRead, Server

-----------------------------------------------------------------------------
(* How a teleport is acknowledged. *)

NoAcks(s) == \A k \in 1..Len(s) : ~s[k].ack

\* The one MovePlayer in q is its i-th packet, it takes the bot to p, and no correction is
\* behind it.
Tells(q, i, p) ==
    /\ i \in 1..Len(q) /\ q[i].kind = "move" /\ q[i].pos = p
    /\ \A j \in 1..Len(q) : /\ j # i => q[j].kind # "move"
                            /\ j > i => q[j].kind # "correct"

\* The one frame of s that acknowledges is its k-th, and it stands still.
Answers(s, k) ==
    /\ k \in 1..Len(s) /\ s[k].ack /\ s[k].delta = Still
    /\ \A j \in 1..Len(s) : j # k => ~s[j].ack

Calm     == Lacks(toBot, "move") /\ Lacks(toBot, "correct")
Together == ~srvAwaitsAck /\ ~teleport /\ NoAcks(Outgoing) /\ Lacks(toBot, "move")
Asked    == /\ srvAwaitsAck /\ ~teleport /\ NoAcks(Outgoing)
            /\ \E i \in 1..Len(toBot) : Tells(toBot, i, srvPos)
Noted    == /\ srvAwaitsAck /\ teleport /\ NoAcks(Outgoing) /\ Calm
            /\ IF seed = "none" THEN pos = srvPos ELSE seed = "unseen" /\ Near(pos, srvPos)
Answered == /\ srvAwaitsAck /\ ~teleport /\ Calm
            /\ \E k \in 1..Len(Outgoing) : Answers(Outgoing, k)
            /\ seed = "none" => \A f \in Range(Outgoing) : f.ack => f.pos = srvPos

\* The bot and the server agree on no teleport, or one is told, noted or answered.  The bot that
\* notes one to a place that is not a position to trust may still be seeded by the publisher.
Handshake == Together \/ Asked \/ Noted \/ Answered

LEMMA AcksTail ==
    ASSUME NEW S, NEW s \in Seq(S), s # <<>>, NoAcks(s)
    PROVE  NoAcks(Tail(s)) /\ ~Head(s).ack
  BY TailOf DEF NoAcks

LEMMA TellsTail ==
    ASSUME NEW S, NEW q \in Seq(S), q # <<>>, NEW i, NEW p, Tells(q, i, p)
    PROVE  /\ Head(q).kind = "move" =>
                 Head(q).pos = p /\ Lacks(Tail(q), "move") /\ Lacks(Tail(q), "correct")
           /\ Head(q).kind # "move" => \E j \in 1..Len(Tail(q)) : Tells(Tail(q), j, p)
<1> DEFINE r == Tail(q)
<1>1. /\ Head(q) = q[1] /\ 1 \in 1..Len(q) /\ Len(q) \in Nat /\ Len(r) = Len(q) - 1
      /\ \A j \in 1..Len(r) : j + 1 \in 1..Len(q) /\ r[j] = q[j + 1] /\ 1 < j + 1
  BY TailOf
<1>2. i \in 1..Len(q) /\ q[i].kind = "move" /\ q[i].pos = p
  BY DEF Tells
<1> HIDE DEF r
<1>3. ASSUME Head(q).kind = "move" PROVE i = 1 /\ Lacks(r, "move") /\ Lacks(r, "correct")
  <2>1. i = 1
    BY <1>1, <1>3 DEF Tells
  <2>2. \A j \in 1..Len(r) : j + 1 # i /\ j + 1 > i
    BY <1>1, <2>1
  <2>3. QED
    BY <1>1, <2>1, <2>2 DEF Tells, Lacks
<1>4. ASSUME Head(q).kind # "move" PROVE \E j \in 1..Len(r) : Tells(r, j, p)
  <2>1. i # 1
    BY <1>1, <1>2, <1>4
  <2>2. PICK n \in 1..Len(r) : n + 1 = i
    <3>1. i - 1 \in 1..Len(r) /\ (i - 1) + 1 = i
      BY <1>1, <1>2, <2>1
    <3>2. QED
      BY <3>1
  <2>3. \A j \in 1..Len(r) : (j # n => j + 1 # i) /\ (j > n => j + 1 > i)
    BY <2>2
  <2>4. Tells(r, n, p)
    BY <1>1, <1>2, <2>2, <2>3 DEF Tells
  <2>5. QED
    BY <2>4
<1>5. QED
  BY <1>1, <1>2, <1>3, <1>4 DEF r

LEMMA TellsAppend ==
    ASSUME NEW S, NEW q \in Seq(S), NEW e \in S, e.kind \notin {"correct", "move"},
           NEW i, NEW p, Tells(q, i, p)
    PROVE  Tells(Append(q, e), i, p)
<1> DEFINE b == Append(q, e)
<1>1. /\ b[Len(q) + 1] = e
      /\ \A j \in 1..Len(q) : b[j] = q[j] /\ j \in 1..Len(b)
      /\ \A j \in 1..Len(b) : j = Len(q) + 1 \/ j \in 1..Len(q)
  BY AppendOf
<1> HIDE DEF b
<1>2. Tells(b, i, p)
  BY <1>1 DEF Tells
<1>3. QED
  BY <1>2 DEF b

LEMMA TellsNew ==
    ASSUME NEW S, NEW q \in Seq(S), NEW e \in S, e.kind = "move", Lacks(q, "move")
    PROVE  \E i \in 1..Len(Append(q, e)) : Tells(Append(q, e), i, e.pos)
<1> DEFINE b == Append(q, e)
<1>1. /\ b[Len(q) + 1] = e /\ Len(q) + 1 \in 1..Len(b)
      /\ \A j \in 1..Len(q) : b[j] = q[j]
      /\ \A j \in 1..Len(b) : j = Len(q) + 1 \/ j \in 1..Len(q)
      /\ Len(q) \in Nat
  BY AppendOf
<1> HIDE DEF b
<1>2. \A j \in 1..Len(b) : ~(j > Len(q) + 1)
  BY <1>1
<1>3. Tells(b, Len(q) + 1, e.pos)
  BY <1>1, <1>2 DEF Tells, Lacks
<1>4. QED
  BY <1>1, <1>3 DEF b

LEMMA AnswersTail ==
    ASSUME NEW S, NEW s \in Seq(S), s # <<>>, NEW k, Answers(s, k)
    PROVE  /\ Head(s).ack => k = 1 /\ NoAcks(Tail(s)) /\ Head(s).delta = Still
           /\ ~Head(s).ack => \E j \in 1..Len(Tail(s)) : Answers(Tail(s), j)
<1> DEFINE r == Tail(s)
<1>1. /\ Head(s) = s[1] /\ 1 \in 1..Len(s) /\ Len(s) \in Nat /\ Len(r) = Len(s) - 1
      /\ \A j \in 1..Len(r) : j + 1 \in 1..Len(s) /\ r[j] = s[j + 1] /\ 1 < j + 1
  BY TailOf
<1>2. k \in 1..Len(s)
  BY DEF Answers
<1> HIDE DEF r
<1>3. ASSUME Head(s).ack PROVE k = 1 /\ NoAcks(r) /\ Head(s).delta = Still
  <2>1. k = 1
    BY <1>1, <1>3 DEF Answers
  <2>2. \A j \in 1..Len(r) : j + 1 # k
    BY <1>1, <2>1
  <2>3. QED
    BY <1>1, <2>1, <2>2 DEF Answers, NoAcks
<1>4. ASSUME ~Head(s).ack PROVE \E j \in 1..Len(r) : Answers(r, j)
  <2>1. k # 1
    BY <1>1, <1>4 DEF Answers
  <2>2. PICK n \in 1..Len(r) : n + 1 = k
    <3>1. k - 1 \in 1..Len(r) /\ (k - 1) + 1 = k
      BY <1>1, <1>2, <2>1
    <3>2. QED
      BY <3>1
  <2>3. \A j \in 1..Len(r) : j # n => j + 1 # k
    BY <2>2
  <2>4. Answers(r, n)
    BY <1>1, <2>2, <2>3 DEF Answers
  <2>5. QED
    BY <2>4
<1>5. QED
  BY <1>3, <1>4 DEF r

LEMMA AnswersAppend ==
    ASSUME NEW S, NEW s \in Seq(S), NEW e \in S
    PROVE  /\ NoAcks(s) /\ ~e.ack => NoAcks(Append(s, e))
           /\ NoAcks(s) /\ e.ack /\ e.delta = Still =>
                 \E k \in 1..Len(Append(s, e)) : Answers(Append(s, e), k)
           /\ \A k : Answers(s, k) /\ ~e.ack =>
                 k \in 1..Len(Append(s, e)) /\ Answers(Append(s, e), k)
<1> DEFINE b == Append(s, e)
<1>1. /\ b[Len(s) + 1] = e /\ Len(s) + 1 \in 1..Len(b)
      /\ \A j \in 1..Len(s) : b[j] = s[j] /\ j \in 1..Len(b)
      /\ \A j \in 1..Len(b) : j = Len(s) + 1 \/ j \in 1..Len(s)
  BY AppendOf
<1> HIDE DEF b
<1>2. NoAcks(s) /\ ~e.ack => NoAcks(b)
  BY <1>1 DEF NoAcks
<1>3. NoAcks(s) /\ e.ack /\ e.delta = Still => Answers(b, Len(s) + 1)
  BY <1>1 DEF NoAcks, Answers
<1>4. \A k : Answers(s, k) /\ ~e.ack => k \in 1..Len(b) /\ Answers(b, k)
  BY <1>1 DEF Answers
<1>5. QED
  BY <1>1, <1>2, <1>3, <1>4 DEF b

LEMMA HandshakeInit == Init => Handshake
<1> SUFFICES ASSUME Init PROVE Handshake
  OBVIOUS
<1>1. /\ Outgoing = <<>> /\ toBot = <<>> /\ Len(<<>>) = 0 /\ srvAwaitsAck = FALSE
      /\ teleport = FALSE
  BY DEF Init, Outgoing
<1>2. QED
  BY <1>1 DEF Handshake, Together, NoAcks, Lacks

LEMMA HandshakeSnapshot ==
    ASSUME TypeInv, Handshake, InputSnapshot
    PROVE  Handshake'
<1>0. PICK f : f = frame'
  OBVIOUS
<1>1. /\ Outgoing' = Append(Outgoing, f) /\ f \in Frame
      /\ UNCHANGED <<ready, toBot, srvPos, srvAwaitsAck, seed>>
  BY <1>0, SnapshotView
<1>2. f.ack = teleport /\ teleport' = FALSE
  BY <1>0 DEF InputSnapshot
<1>3. Outgoing \in Seq(Frame) /\ Range(Outgoing') = Range(Outgoing) \cup {f}
  BY <1>1, ViewTyped, RangeAppend
<1>4. CASE Together \/ Asked
  <2>1. NoAcks(Outgoing')
    BY <1>1, <1>2, <1>3, <1>4, AnswersAppend DEF Together, Asked
  <2>2. QED
    BY <1>1, <1>2, <1>4, <2>1 DEF Together, Asked, Handshake
<1>5. CASE Noted
  <2>1. f.delta = Still /\ f.pos = Plus(pos, Still)
    BY <1>0, <1>5 DEF Noted, InputSnapshot, NextDelta, Acking
  <2>2. f.pos = pos
    BY <2>1, PlusRight, StillPosition DEF TypeInv, TypeOK
  <2>3. \E k \in 1..Len(Outgoing') : Answers(Outgoing', k)
    BY <1>1, <1>2, <1>3, <1>5, <2>1, AnswersAppend DEF Noted
  <2>4. \A g \in Range(Outgoing) : ~g.ack
    BY <1>3, <1>5, RangeOf DEF Noted, NoAcks
  <2>5. QED
    BY <1>1, <1>2, <1>3, <1>5, <2>2, <2>3, <2>4 DEF Noted, Answered, Handshake, Calm
<1>6. CASE Answered
  <2>1. ~f.ack /\ \E k \in 1..Len(Outgoing') : Answers(Outgoing', k)
    BY <1>1, <1>2, <1>3, <1>6, AnswersAppend DEF Answered
  <2>2. QED
    BY <1>1, <1>2, <1>3, <1>6, <2>1 DEF Answered, Handshake, Calm
<1>7. QED
  BY <1>4, <1>5, <1>6 DEF Handshake

LEMMA HandshakeRead ==
    ASSUME TypeInv, Handshake, Order, Unstirred, Steady, Steady',
           CorrectPrediction \/ Update \/ OtherRead
    PROVE  Handshake'
<1>1. /\ toBot # <<>> /\ toBot' = Tail(toBot) /\ toBot \in Seq(Packet)
      /\ UNCHANGED <<Outgoing, srvPos, srvAwaitsAck>>
      /\ ~Update => teleport' = teleport
  <2>1. CASE CorrectPrediction
    <3>1. tpc = "record" => Head(toBot).tick < frame.tick
      BY <2>1, HeadBeforeFrame DEF CorrectPrediction, Receives
    <3>2. QED
      BY <2>1, <3>1, CorrectView, ViewTyped DEF Steady
  <2>2. CASE Update
    BY <2>2, UpdateView, ViewTyped
  <2>3. CASE OtherRead
    BY <2>3, ReadView, ViewTyped
  <2>4. QED
    BY <2>1, <2>2, <2>3
<1>2. /\ CorrectPrediction => Head(toBot).kind = "correct"
      /\ Update => Head(toBot).kind = "move"
      /\ OtherRead => Head(toBot).kind \notin {"correct", "move"}
  BY ReadView DEF CorrectPrediction, Update, Receives
<1>3. ASSUME Lacks(toBot, "move"), Lacks(toBot, "correct")
      PROVE  Lacks(toBot', "move") /\ Lacks(toBot', "correct") /\ OtherRead /\ ~Update
  BY <1>1, <1>2, <1>3, LacksTail
<1>4. ASSUME OtherRead, Lacks(toBot, "move")
      PROVE  UNCHANGED <<pos, seed>> \/ (seed' = "unseen" /\ Near(pos', srvPos))
  <2> SUFFICES ASSUME ~UNCHANGED <<pos, seed>> PROVE seed' = "unseen" /\ Near(pos', srvPos)
    OBVIOUS
  <2>1. /\ Head(toBot).kind = "publisher" /\ ~inputStarted /\ seed' = "unseen"
        /\ pos' = PublisherEye(Head(toBot).block)
    BY <1>4, ReadView
  <2>2. Head(toBot).block = BlockOf(srvPos)
    BY <1>1, <1>4, <2>1, PublishedHead DEF Unstirred
  <2>3. QED
    BY <2>1, <2>2, BlockNear DEF TypeInv, TypeOK
<1>5. CASE Together
  <2>1. ~Update /\ Lacks(toBot', "move")
    BY <1>1, <1>2, <1>5, LacksTail DEF Together
  <2>2. QED
    BY <1>1, <1>5, <2>1 DEF Together, Handshake
<1>6. CASE Asked
  <2>1. PICK i : Tells(toBot, i, srvPos)
    BY <1>6 DEF Asked
  <2>2. CASE Update
    <3>1. Head(toBot).pos = srvPos /\ Lacks(toBot', "move") /\ Lacks(toBot', "correct")
      BY <1>1, <1>2, <2>1, <2>2, TellsTail
    <3>2. Head(toBot).teleport
      BY <2>2 DEF Update, Steady
    <3>3. pos' = srvPos /\ teleport' /\ seed' = "none"
      BY <2>2, <3>1, <3>2, UpdateView
    <3>4. QED
      BY <1>1, <1>6, <3>1, <3>3 DEF Asked, Noted, Calm, Handshake
  <2>3. CASE ~Update
    <3>1. Head(toBot).kind # "move"
      BY <1>2, <2>3
    <3>2. \E j \in 1..Len(toBot') : Tells(toBot', j, srvPos)
      BY <1>1, <2>1, <3>1, TellsTail
    <3>3. QED
      BY <1>1, <1>6, <2>3, <3>2 DEF Asked, Handshake
  <2>4. QED
    BY <2>2, <2>3
<1>7. CASE Noted
  <2>1. OtherRead /\ ~Update /\ Calm'
    BY <1>3, <1>7 DEF Noted, Calm
  <2>2. UNCHANGED <<pos, seed>> \/ (seed' = "unseen" /\ Near(pos', srvPos))
    BY <1>4, <1>7, <2>1 DEF Noted, Calm
  <2>3. IF seed' = "none" THEN pos' = srvPos ELSE seed' = "unseen" /\ Near(pos', srvPos)
    BY <1>7, <2>2 DEF Noted
  <2>4. Noted'
    BY <1>1, <1>7, <2>1, <2>3 DEF Noted, Near
  <2>5. QED
    BY <2>4 DEF Handshake
<1>8. CASE Answered
  <2>1. OtherRead /\ ~Update /\ Calm'
    BY <1>3, <1>8 DEF Answered, Calm
  <2>2. seed' = "none" => seed = "none"
    BY <1>4, <1>8, <2>1 DEF Answered, Calm
  <2>3. QED
    BY <1>1, <1>8, <2>1, <2>2 DEF Answered, Handshake
<1>9. QED
  BY <1>5, <1>6, <1>7, <1>8 DEF Handshake

LEMMA HandshakeServe ==
    ASSUME TypeInv, Handshake, Steady, Steady', Server
    PROVE  Handshake'
<1>0. toBot \in Seq(Packet) /\ Outgoing \in Seq(Frame)
  BY ViewTyped
<1>1. CASE IgnoreFrame
  <2>1. /\ Outgoing # <<>> /\ Outgoing' = Tail(Outgoing) /\ UNCHANGED <<pos, ready, teleport>>
        /\ Head(Outgoing) = Head(toServer)
    BY <1>1, TakeView
  <2>2. /\ srvAwaitsAck /\ ~Head(Outgoing).ack
        /\ UNCHANGED <<toBot, srvPos, srvAwaitsAck, seed>>
    BY <1>1, <2>1 DEF IgnoreFrame, ghostVars
  <2>3. NoAcks(Outgoing) => NoAcks(Outgoing')
    BY <1>0, <2>1, AcksTail
  <2>4. (\E k \in 1..Len(Outgoing) : Answers(Outgoing, k))
            => \E k \in 1..Len(Outgoing') : Answers(Outgoing', k)
    BY <1>0, <2>1, <2>2, AnswersTail
  <2>5. Range(Outgoing') \subseteq Range(Outgoing)
    BY <1>0, <2>1, RangeTail
  <2>6. QED
    BY <2>1, <2>2, <2>3, <2>4, <2>5 DEF Handshake, Together, Asked, Noted, Answered, Calm, Near
<1>2. CASE ProcessFrame
  <2>1. Outgoing # <<>> /\ Outgoing' = Tail(Outgoing) /\ UNCHANGED <<pos, ready, teleport>>
    BY <1>2, TakeView
  <2>2. /\ srvAwaitsAck => Head(Outgoing).ack
        /\ ~srvAwaitsAck'
        /\ toBot' = toBot \/ \E e \in Packet : toBot' = Append(toBot, e) /\ e.kind = "correct"
    BY <1>2, ProcessView
  <2>3. Lacks(toBot, "move") => Lacks(toBot', "move")
    BY <1>0, <2>2, LacksAppend
  <2>4. CASE Together
    BY <1>0, <2>1, <2>2, <2>3, <2>4, AcksTail DEF Together, Handshake
  <2>5. CASE Asked \/ Noted
    BY <1>0, <2>1, <2>2, <2>5, AcksTail DEF Asked, Noted
  <2>6. CASE Answered
    <3>1. NoAcks(Outgoing')
      BY <1>0, <2>1, <2>2, <2>6, AnswersTail DEF Answered
    <3>2. QED
      BY <2>1, <2>2, <2>3, <2>6, <3>1 DEF Answered, Calm, Together, Handshake
  <2>7. QED
    BY <2>4, <2>5, <2>6 DEF Handshake
<1>3. CASE MoveBot
  <2>1. PICK e \in Packet : /\ toBot' = Append(toBot, e) /\ e.kind = "move" /\ e.pos = srvPos'
                            /\ e.teleport => ~srvAwaitsAck /\ srvAwaitsAck'
    BY <1>3, MoveView
  <2>2. UNCHANGED <<Outgoing, pos, ready, teleport>>
    BY <1>3, MoveView
  <2>3. e.teleport
    <3>1. toBot'[Len(toBot) + 1] = e /\ Len(toBot) + 1 \in 1..Len(toBot')
      BY <1>0, <2>1, AppendOf
    <3>2. QED
      BY <2>1, <3>1 DEF Steady
  <2>4. Together
    BY <2>1, <2>3 DEF Handshake, Asked, Noted, Answered
  <2>5. \E i \in 1..Len(toBot') : Tells(toBot', i, srvPos')
    BY <1>0, <2>1, <2>4, TellsNew DEF Together
  <2>6. QED
    BY <2>1, <2>2, <2>3, <2>4, <2>5 DEF Together, Asked, Handshake
<1>4. CASE SendPublisher \/ SendAbilities \/ SendSync
  <2>1. PICK e \in Packet : toBot' = Append(toBot, e) /\ e.kind \notin {"correct", "move"}
    BY <1>4, EventView
  <2>2. UNCHANGED <<Outgoing, pos, ready, teleport, srvPos, srvAwaitsAck, seed>>
    BY <1>4, EventView
  <2>3. /\ Lacks(toBot, "move") => Lacks(toBot', "move")
        /\ Lacks(toBot, "correct") => Lacks(toBot', "correct")
    BY <1>0, <2>1, LacksAppend
  <2>4. ASSUME NEW i \in 1..Len(toBot), Tells(toBot, i, srvPos)
        PROVE  \E j \in 1..Len(toBot') : Tells(toBot', j, srvPos)
    <3>1. Tells(toBot', i, srvPos)
      BY <1>0, <2>1, <2>4, TellsAppend
    <3>2. QED
      BY <3>1 DEF Tells
  <2>5. QED
    BY <2>2, <2>3, <2>4 DEF Handshake, Together, Asked, Noted, Answered, Calm, Near
<1>5. QED
  BY <1>1, <1>2, <1>3, <1>4 DEF Server

\* A MovePlayer of the server's own accord is a teleport that nothing acknowledges yet.
LEMMA MoveAsked ==
    ASSUME TypeInv, Handshake, Steady', MoveBot
    PROVE  srvAwaitsAck' /\ NoAcks(Outgoing')
<1>1. PICK e \in Packet : /\ toBot' = Append(toBot, e) /\ e.kind = "move"
                          /\ e.teleport => ~srvAwaitsAck /\ srvAwaitsAck'
  BY MoveView
<1>2. e.teleport
  <2>1. toBot'[Len(toBot) + 1] = e /\ Len(toBot) + 1 \in 1..Len(toBot')
    BY <1>1, ViewTyped, AppendOf
  <2>2. QED
    BY <1>1, <2>1 DEF Steady
<1>3. QED
  BY <1>1, <1>2, MoveView DEF Handshake, Together, Asked, Noted, Answered

LEMMA HandshakeStep ==
    ASSUME TypeInv, Order, Handshake, Unstirred, [Next]_vars, Steady, Steady'
    PROVE  Handshake'
<1>1. CASE UNCHANGED <<Outgoing, toBot, srvPos, srvAwaitsAck, pos, ready, teleport, seed>>
  BY <1>1 DEF Handshake, Together, Asked, Noted, Answered, Calm, Near
<1>2. CASE BesidesTick \/ TicksOver \/ UNCHANGED vars
  BY <1>1, <1>2, AsideTick, AsideElse DEF aside
<1>3. CASE RecordAndWrite
  BY <1>1, <1>3, RecordView
<1>4. CASE SyncServerTick
  BY <1>1, <1>4, SyncView DEF Order, Steady
<1>5. QED
  BY <1>2, <1>3, <1>4, HandshakeSnapshot, HandshakeRead, HandshakeServe
  DEF Next, TickLoop, BesidesTick, Reader, OtherRead

-----------------------------------------------------------------------------
(* Ahead of another position, in the direction the bot goes. *)

\* The bot never walks back; along the altitude it goes up, or it goes down.
Above(up, p, q) == p.x >= q.x /\ IF up THEN p.y >= q.y ELSE p.y <= q.y

LEMMA AboveOrder ==
    ASSUME NEW up \in BOOLEAN, NEW p \in Position, NEW q \in Position
    PROVE  /\ Above(up, p, p)
           /\ Above(up, p, q) /\ Above(up, q, p) => p = q
           /\ Above(TRUE, p, q) /\ Above(FALSE, p, q) => p.y = q.y
           /\ \A r \in Position : Above(up, p, q) /\ Above(up, q, r) => Above(up, p, r)
<1>1. /\ p = [x |-> p.x, y |-> p.y] /\ q = [x |-> q.x, y |-> q.y]
      /\ p.x \in Int /\ p.y \in Int /\ q.x \in Int /\ q.y \in Int
      /\ \A r \in Position : r.x \in Int /\ r.y \in Int
  BY DEF Position
<1>2. Above(up, p, p) /\ (Above(TRUE, p, q) /\ Above(FALSE, p, q) => p.y = q.y)
  BY <1>1 DEF Above
<1>3. Above(up, p, q) /\ Above(up, q, p) => p = q
  <2>1. Above(up, p, q) /\ Above(up, q, p) => p.x = q.x /\ p.y = q.y
    BY <1>1 DEF Above
  <2>2. QED
    BY <1>1, <2>1
<1>4. \A r \in Position : Above(up, p, q) /\ Above(up, q, r) => Above(up, p, r)
  BY <1>1 DEF Above
<1>5. QED
  BY <1>2, <1>3, <1>4

LEMMA AbovePlus ==
    ASSUME NEW up \in BOOLEAN, NEW p \in Position, NEW q \in Position, NEW d \in Position
    PROVE  /\ Plus(p, d) \in Position /\ Plus(p, d) = Plus(d, p)
           /\ Above(up, Plus(p, d), Plus(q, d)) <=> Above(up, p, q)
           /\ Above(up, Plus(p, d), p) <=> Above(up, d, Still)
           /\ Plus(p, d) = Plus(q, d) => p = q
<1>1. /\ p.x \in Int /\ p.y \in Int /\ q.x \in Int /\ q.y \in Int /\ d.x \in Int /\ d.y \in Int
      /\ Still.x = 0 /\ Still.y = 0
      /\ p = [x |-> p.x, y |-> p.y] /\ q = [x |-> q.x, y |-> q.y]
  BY StillPosition DEF Position
<1>2. /\ Plus(p, d) \in Position /\ Plus(p, d).x = p.x + d.x /\ Plus(p, d).y = p.y + d.y
      /\ Plus(q, d).x = q.x + d.x /\ Plus(q, d).y = q.y + d.y
  BY PlusTyped
<1>3. Plus(p, d) = Plus(d, p)
  <2>1. p.x + d.x = d.x + p.x /\ p.y + d.y = d.y + p.y
    BY <1>1
  <2>2. QED
    BY <2>1, Zenon DEF Plus
<1>4. Above(up, Plus(p, d), Plus(q, d)) <=> Above(up, p, q)
  BY <1>1, <1>2 DEF Above
<1>5. Above(up, Plus(p, d), p) <=> Above(up, d, Still)
  BY <1>1, <1>2 DEF Above
<1>6. Plus(p, d) = Plus(q, d) => p = q
  <2>1. Plus(p, d) = Plus(q, d) => p.x = q.x /\ p.y = q.y
    BY <1>1, <1>2
  <2>2. QED
    BY <1>1, <2>1
<1>7. QED
  BY <1>2, <1>3, <1>4, <1>5, <1>6

\* Moves ahead add up to a move ahead.
LEMMA DisplacementAbove ==
    ASSUME NEW S, Moving(S), NEW s \in Seq(S), NEW t, NEW up \in BOOLEAN,
           \A i \in 1..Len(s) : Above(up, s[i].delta, Still)
    PROVE  Above(up, Displacement(s, t), Still)
<1> DEFINE Live(h) == \A i \in 1..Len(h) : Above(up, h[i].delta, Still)
           T == {h \in Seq(S) : Live(h) => Above(up, Displacement(h, t), Still)}
<1>1. <<>> \in T
  <2>1. <<>> \in Seq(S)
    OBVIOUS
  <2>2. Displacement(<<>>, t) = Still
    BY <2>1, DisplacementTyped, Zenon
  <2>3. Above(up, Still, Still)
    BY AboveOrder, StillPosition
  <2>4. QED
    BY <2>1, <2>2, <2>3, Zenon
<1>2. ASSUME NEW h \in Seq(S), NEW e \in S, h \in T PROVE Append(h, e) \in T
  <2> DEFINE b == Append(h, e)
  <2>1. /\ b \in Seq(S) /\ b[Len(h) + 1] = e /\ Len(h) + 1 \in 1..Len(b)
        /\ \A i \in 1..Len(h) : b[i] = h[i] /\ i \in 1..Len(b)
    BY AppendOf
  <2>2. Live(h) => Above(up, Displacement(h, t), Still)
    BY <1>2
  <2>3. Displacement(b, t) =
               IF e.tick > t THEN Plus(Displacement(h, t), e.delta) ELSE Displacement(h, t)
    BY DisplacementAppend, Zenon
  <2>4. Displacement(h, t) \in Position /\ e.delta \in Position
    BY DisplacementTyped, Zenon DEF Moving
  <2> HIDE DEF b
  <2>5. Live(b) => Live(h) /\ Above(up, e.delta, Still)
    BY <2>1
  <2>6. Above(up, Displacement(h, t), Still) /\ Above(up, e.delta, Still) => Above(up, Displacement(b, t), Still)
    <3>1. Above(up, Plus(Displacement(h, t), e.delta), Displacement(h, t)) <=> Above(up, e.delta, Still)
      BY <2>4, AbovePlus
    <3>2. Plus(Displacement(h, t), e.delta) \in Position
      BY <2>4, PlusTyped
    <3>3. ASSUME Above(up, e.delta, Still), Above(up, Displacement(h, t), Still)
          PROVE  Above(up, Plus(Displacement(h, t), e.delta), Still)
      <4> DEFINE D == Displacement(h, t)
                 E == Plus(D, e.delta)
      <4>1. D \in Position /\ E \in Position /\ Above(up, E, D) /\ Above(up, D, Still)
        BY <2>4, <3>1, <3>2, <3>3
      <4> HIDE DEF D, E
      <4>2. Above(up, E, Still)
        BY <4>1, AboveOrder, StillPosition
      <4>3. QED
        BY <4>2 DEF D, E
    <3>4. QED
      BY <2>3, <3>3
  <2> HIDE DEF Live
  <2>7. b \in T
    BY <2>1, <2>2, <2>5, <2>6
  <2>8. QED
    BY <2>7 DEF b
<1>3. \A h \in Seq(S) : h \in T
  <2> HIDE DEF T
  <2>1. QED
    BY <1>1, <1>2, SequenceInduction, Zenon
<1>4. QED
  BY <1>3, Zenon

-----------------------------------------------------------------------------
(* Positions, along the corrections and the frames on their way. *)

Pending == Corrections(toBot)

\* Where the server will have the bot after the frames on their way, not counting those
\* before the acknowledgement it waits for.
Ends(b) == Plus(srvPos, Displacement(Outgoing, b))

\* A frame of a bot in the void that the server has at a valid position; none before it climbs.
Void(f) ==
    /\ ~Valid(f.pos) /\ Valid(srvPos)
    /\ \A g \in Range(Outgoing) : g.tick <= f.tick => g.delta.y = 0

\* A frame is of a bot that is ahead of where the server will have it, or waits in the void.
FrameAlong(up, b, f) ==
    /\ Above(up, f.delta, Still)
    /\ \/ Void(f)
       \/ Above(up, Plus(f.pos, Displacement(Outgoing, f.tick)), Ends(b))

\* Corrections take the bot back step by step, and the last one to where the server will have it.
CorrectionAlong(up, b, c) ==
    /\ Above(up, Corrected(c), Ends(b))
    /\ \A d \in Pending : c.tick < d.tick => Above(up, Corrected(c), Corrected(d))
    /\ (\A d \in Pending : d.tick <= c.tick) => Corrected(c) = Ends(b)

BotAlong(up, b) ==
    /\ \A c \in Pending : Faithful(c.tick) => Above(up, pos, Corrected(c))
    /\ Above(up, pos, Ends(b))
    /\ Pending = {} => pos = Ends(b)

Chain(up, b) ==
    /\ \A f \in Range(Outgoing) : f.tick > b => FrameAlong(up, b, f)
    /\ \A c \in Pending : Faithful(c.tick) => CorrectionAlong(up, b, c)
    /\ ready => BotAlong(up, b)

Toward(up) == IF up THEN pos.y <= targetY ELSE pos.y >= targetY

\* A bot that flies to its altitude keeps to one direction; any other stays level.
Chained(b) ==
    \/ \A up \in BOOLEAN : Chain(up, b)
    \/ control = "fly" /\ ready /\ \E up \in BOOLEAN : Toward(up) /\ Chain(up, b)

\* The frames after tick b move the bot: all of them, or those after the acknowledgement.
Base(b) ==
    \/ ~srvAwaitsAck /\ b = -1
    \/ srvAwaitsAck /\ \E f \in Range(Outgoing) : f.ack /\ f.tick = b

Chains == \A b \in Int : Base(b) => Chained(b)

\* The position is not the publisher's, and the bot or the server has a valid one.
Grounded == seed = "none" /\ (ready \/ Valid(srvPos))

\* A bot that waits for a valid position is corrected at the altitude the server has it at:
\* only a teleport takes it to another.
Waits == ~ready /\ ~srvAwaitsAck => \A c \in Pending : c.pos.y = srvPos.y

LEMMA LacksNone ==
    ASSUME NEW S, NEW q \in Seq(S)
    PROVE  Lacks(q, "correct") <=> Corrections(q) = {}
  BY RangeOf DEF Lacks, Corrections

\* Frames and corrections on their way.
LEMMA OnTheWay ==
    ASSUME TypeInv, Order
    PROVE  /\ \A f \in Range(Outgoing) :
                 /\ f \in Frame /\ f.tick \in Int /\ f.delta \in Position /\ f.pos \in Position
                 /\ f.tick < Clock /\ f.tick \in Ticks(Outgoing) /\ -1 < f.tick
           /\ \A c \in Pending :
                 /\ c \in Packet /\ c.tick \in Int /\ c.pos \in Position /\ c.tick < Clock
                 /\ \A f \in Range(Outgoing) : c.tick < f.tick
           /\ Clock \in Int /\ srvPos \in Position /\ pos \in Position
           /\ Moving(Frame) /\ Moving(Prediction)
<1>0. /\ Outgoing \in Seq(Frame) /\ toBot \in Seq(Packet) /\ Clock \in Int
      /\ srvPos \in Position /\ pos \in Position /\ Moving(Frame) /\ Moving(Prediction)
  BY ViewTyped, StepTypes DEF TypeInv, TypeOK
<1>1. ASSUME NEW f \in Range(Outgoing)
      PROVE  /\ f \in Frame /\ f.tick \in Int /\ f.delta \in Position /\ f.pos \in Position
             /\ f.tick < Clock /\ f.tick \in Ticks(Outgoing) /\ -1 < f.tick
  <2>0. f \in Frame
    BY <1>0, RangeOf
  <2>1. f.tick \in 0..MaxTick /\ MaxTick \in Nat /\ f.pos \in Position
    BY <2>0, CounterAssumption DEF Frame
  <2>2. f.tick \in Int /\ -1 < f.tick /\ f.delta \in Position
    BY <1>0, <2>0, <2>1 DEF Moving
  <2>3. f.tick < Clock /\ f.tick \in Ticks(Outgoing)
    BY <1>0, RangeOf DEF Order, Advancing, Ticks
  <2>4. QED
    BY <2>0, <2>1, <2>2, <2>3
<1>2. ASSUME NEW c \in Pending
      PROVE  /\ c \in Packet /\ c.tick \in Int /\ c.pos \in Position /\ c.tick < Clock
             /\ \A f \in Range(Outgoing) : c.tick < f.tick
  <2>1. PICK i \in 1..Len(toBot) : c = toBot[i] /\ c.kind = "correct" /\ c \in Packet
    BY <1>0, RangeOf DEF Pending, Corrections
  <2>2. c.tick \in 0..MaxTick /\ MaxTick \in Nat /\ c.pos \in Position
    BY <2>1, CounterAssumption DEF Packet
  <2>3. c.tick < Clock /\ \A k \in 1..Len(Outgoing) : c.tick < Outgoing[k].tick
    BY <2>1 DEF Order, InOrder
  <2>4. \A f \in Range(Outgoing) : c.tick < f.tick
    BY <1>0, <2>3, RangeOf
  <2>5. QED
    BY <2>1, <2>2, <2>3, <2>4
<1>3. QED
  BY <1>0, <1>1, <1>2

\* The frames of a bot that waits for a valid position are level.
LEMMA LevelFrames ==
    ASSUME TypeInv, Unready, ~ready
    PROVE  \A f \in Range(Outgoing) : f.delta.y = 0
<1>1. /\ toServer \in Seq(Frame) /\ frame \in Frame /\ toServer \in Seq(Level(Frame))
      /\ tpc = "record" => frame.delta.y = 0
  BY DEF TypeInv, TypeOK, Unready
<1>2. \A f \in Range(toServer) : f.delta.y = 0
  <2> DEFINE S == Level(Frame)
  <2>1. toServer \in Seq(S) /\ \A f \in S : f.delta.y = 0
    BY <1>1 DEF Level
  <2> HIDE DEF S
  <2>2. QED
    BY <2>1, RangeOf
<1>3. Range(Append(toServer, frame)) = Range(toServer) \cup {frame}
  BY <1>1, RangeAppend
<1>4. QED
  BY <1>1, <1>2, <1>3 DEF Outgoing

LEMMA PlacesTyped ==
    ASSUME TypeInv, Order
    PROVE  /\ \A b \in Int : Ends(b) \in Position /\ Displacement(Outgoing, b) \in Position
           /\ \A c \in Pending : Corrected(c) \in Position /\ Displacement(Told, c.tick) \in Position
<1>1. ASSUME NEW b \in Int PROVE Ends(b) \in Position /\ Displacement(Outgoing, b) \in Position
  BY OnTheWay, ViewTyped, DisplacementTyped, PlusTyped DEF Ends
<1>2. ASSUME NEW c \in Pending
      PROVE  Corrected(c) \in Position /\ Displacement(Told, c.tick) \in Position
  <2>1. c.pos \in Position /\ Told \in Seq(Prediction) /\ Moving(Prediction)
    BY OnTheWay, ViewTyped
  <2>2. Displacement(Told, c.tick) \in Position
    BY <2>1, DisplacementTyped
  <2>3. QED
    BY <2>1, <2>2, PlusTyped DEF Corrected
<1>3. QED
  BY <1>1, <1>2

\* What is faithful for a tick is faithful for a later one.
FaithfulOn == \A t, u \in Int : Faithful(t) /\ t <= u => Faithful(u)

LEMMA FaithfulLater == TypeInv => FaithfulOn
<1> SUFFICES ASSUME TypeInv, NEW t \in Int, NEW u \in Int, Faithful(t), t <= u PROVE Faithful(u)
  BY DEF FaithfulOn
<1>1. frame \in Frame /\ frame.tick \in Int /\ probes \in Seq(0..MaxTick) /\ MaxTick \in Nat
  BY StepTypes, CounterAssumption DEF TypeInv, TypeOK, Moving
<1>2. history \in Seq(Prediction) /\ HistoryLimit \in Nat \ {0} /\ Len(history) \in Nat
  BY ViewTyped, CounterAssumption
<1>3. tpc = "record" => Committed(frame) = frame.delta \/ frame.tick <= u
  BY <1>1 DEF Faithful
<1>4. \A i \in 1..Len(probes) : probes[i] <= u
  BY <1>1 DEF Faithful
<1>5. Len(history) < HistoryLimit \/ history[1].tick <= u
  <2>1. ASSUME ~(Len(history) < HistoryLimit) PROVE history[1].tick <= u
    <3>1. 1 \in 1..Len(history)
      BY <1>2, <2>1
    <3>2. history[1].tick \in Int
      BY <3>1, TicksTyped
    <3>3. QED
      BY <2>1, <3>2 DEF Faithful
  <2>2. QED
    BY <2>1
<1>6. QED
  BY <1>3, <1>4, <1>5 DEF Faithful

\* A step that moves neither the bot nor the server's bot, and changes what is on its way and
\* the predictions only where nothing faithful tells the difference.
Same ==
    /\ UNCHANGED <<Outgoing, Pending, srvPos, pos>> /\ ready' = ready
    /\ \A t \in Int : Faithful(t)' => Faithful(t) /\ Displacement(Told', t) = Displacement(Told, t)

LEMMA ChainSame ==
    ASSUME TypeInv, TypeInv', Order, Same, NEW up \in BOOLEAN, NEW b \in Int, Chain(up, b)
    PROVE  Chain(up, b)'
<1>1. Ends(b)' = Ends(b)
  BY DEF Same, Ends
<1>2. ASSUME NEW f \in Range(Outgoing), FrameAlong(up, b, f) PROVE FrameAlong(up, b, f)'
  BY <1>1, <1>2 DEF Same, FrameAlong, Void, Valid
<1>3. ASSUME NEW c \in Pending, Faithful(c.tick)' PROVE Faithful(c.tick) /\ Corrected(c)' = Corrected(c)
  <2>1. c.tick \in Int
    BY OnTheWay
  <2>2. Faithful(c.tick) /\ Displacement(Told', c.tick) = Displacement(Told, c.tick)
    BY <1>3, <2>1 DEF Same
  <2>3. QED
    BY <2>2 DEF Corrected
<1>4. ASSUME NEW c \in Pending, Faithful(c.tick)' PROVE CorrectionAlong(up, b, c)'
  <2>1. CorrectionAlong(up, b, c) /\ Corrected(c)' = Corrected(c)
    BY <1>3, <1>4 DEF Chain
  <2>2. ASSUME NEW d \in Pending, c.tick < d.tick PROVE Above(up, Corrected(c)', Corrected(d)')
    <3>1. d.tick \in Int /\ c.tick \in Int
      BY OnTheWay
    <3>2. FaithfulOn'
      BY FaithfulLater, PTL
    <3>3. Faithful(d.tick)'
      BY <1>4, <2>2, <3>1, <3>2 DEF FaithfulOn
    <3>4. QED
      BY <1>3, <2>1, <2>2, <3>3 DEF CorrectionAlong
  <2>3. QED
    BY <1>1, <2>1, <2>2 DEF Same, CorrectionAlong
<1>5. ready => BotAlong(up, b)'
  <2>1. ASSUME ready PROVE BotAlong(up, b)
    BY <2>1 DEF Chain
  <2>2. QED
    BY <1>1, <1>3, <2>1 DEF Same, BotAlong
<1>6. QED
  BY <1>2, <1>4, <1>5 DEF Chain, Same

LEMMA ChainsSame ==
    ASSUME TypeInv, TypeInv', Order, Chains, Same, srvAwaitsAck' = srvAwaitsAck,
           UNCHANGED <<control, targetY>> \/ control = "none"
    PROVE  Chains'
<1> SUFFICES ASSUME NEW b \in Int, Base(b)' PROVE Chained(b)'
  BY DEF Chains
<1>1. Base(b)
  BY DEF Base, Same
<1>2. Chained(b)
  BY <1>1 DEF Chains
<1>3. ASSUME NEW up \in BOOLEAN, Chain(up, b) PROVE Chain(up, b)'
  BY <1>3, ChainSame
<1>4. CASE \A up \in BOOLEAN : Chain(up, b)
  BY <1>3, <1>4 DEF Chained
<1>5. CASE control = "fly" /\ ready /\ \E up \in BOOLEAN : Toward(up) /\ Chain(up, b)
  <2>1. PICK up \in BOOLEAN : Toward(up) /\ Chain(up, b)
    BY <1>5
  <2>2. Toward(up)' /\ Chain(up, b)'
    BY <1>3, <1>5, <2>1 DEF Toward, Same
  <2>3. QED
    BY <1>5, <2>2 DEF Chained, Same
<1>6. QED
  BY <1>2, <1>4, <1>5 DEF Chained

\* The steps that are of no consequence to any of this.
Elsewhere ==
    \/ BesidesTick \/ TicksOver \/ SyncServerTick \/ RecordAndWrite \/ UNCHANGED vars
    \/ OtherRead /\ UNCHANGED <<pos, ready, seed>>
    \/ SendPublisher \/ SendAbilities \/ SendSync

LEMMA ElsewhereSame ==
    ASSUME TypeInv, FlightInv, Order, Steady, Steady', Elsewhere
    PROVE  /\ Same /\ UNCHANGED <<srvAwaitsAck, seed>>
           /\ UNCHANGED <<control, targetY>> \/ control = "none"
<1> DEFINE Alike == /\ UNCHANGED <<Outgoing, Pending, srvPos, pos, srvAwaitsAck, seed>> /\ ready' = ready
                    /\ UNCHANGED <<control, targetY>> \/ control = "none"
           Tell == \A t \in Int : Faithful(t)' => Faithful(t) /\ Displacement(Told', t) = Displacement(Told, t)
<1> SUFFICES Alike /\ Tell
  BY DEF Same
<1>1. CASE BesidesTick
  <2>1. UNCHANGED aside /\ tpc # "record" /\ tpc' # "record"
    BY <1>1, AsideTick
  <2>2. UNCHANGED <<control, targetY>> \/ control = "none"
    BY <1>1 DEF BesidesTick, StartWalk, NextInputTick, ActionTick, RequestFlight, ReadPosition, ReadReady,
                StartFly, playerVars, FlightInv, Unstarted
  <2>3. Alike /\ Tell
    BY <2>1, <2>2 DEF aside, Faithful, Pending
  <2>4. QED
    BY <2>3
<1>2. CASE TicksOver \/ UNCHANGED vars
  <2>1. UNCHANGED aside /\ tpc' = tpc /\ frame' = frame /\ UNCHANGED <<control, targetY>>
    BY <1>2, AsideElse DEF TicksOver, vars, playerVars
  <2>2. Alike /\ Tell
    BY <2>1 DEF aside, Faithful, Committed, Pending
  <2>3. QED
    BY <2>2
<1>3. CASE SyncServerTick
  <2>1. Alike /\ Tell
    BY <1>3, SyncView DEF Order, Steady, Faithful, Committed, Pending
  <2>2. QED
    BY <2>1
<1>4. CASE RecordAndWrite
  <2>1. Alike
    BY <1>4, RecordView DEF Pending
  <2>2. Tell
    BY <1>4, FaithfulRecord
  <2>3. QED
    BY <2>1, <2>2
<1>5. CASE OtherRead /\ UNCHANGED <<pos, ready, seed>>
  <2>1. /\ toBot # <<>> /\ toBot \in Seq(Packet) /\ toBot' = Tail(toBot) /\ Head(toBot).kind # "correct"
        /\ UNCHANGED <<Outgoing, Told, history, probes, frame, tpc, control, targetY, srvPos,
                       srvAwaitsAck>>
    BY <1>5, ReadView, ViewTyped
  <2>2. Pending' = Pending
    BY <2>1, RangeTail DEF Pending
  <2>3. Alike /\ Tell
    BY <1>5, <2>1, <2>2 DEF Faithful, Committed
  <2>4. QED
    BY <2>3
<1>6. CASE SendPublisher \/ SendAbilities \/ SendSync
  <2>1. PICK e \in Packet : toBot' = Append(toBot, e) /\ e.kind # "correct"
    BY <1>6, EventView
  <2>2. UNCHANGED <<Outgoing, Told, pos, ready, history, probes, frame, control, targetY, tpc, srvPos,
                    srvAwaitsAck, seed>>
    BY <1>6, EventView
  <2>3. Pending' = Pending
    BY <2>1, ViewTyped, RangeAppend DEF Pending
  <2>4. Alike /\ Tell
    BY <2>2, <2>3 DEF Faithful, Committed
  <2>5. QED
    BY <2>4
<1>7. QED
  BY <1>1, <1>2, <1>3, <1>4, <1>5, <1>6 DEF Elsewhere

-----------------------------------------------------------------------------
(* Positions: a snapshot. *)

\* One tick of flight goes toward the target, and not beyond it.
LEMMA FlightToward ==
    ASSUME TypeInv, NEW up \in BOOLEAN, Toward(up), targetY # pos.y
    PROVE  /\ Above(up, FlightDelta, Still)
           /\ IF up THEN pos.y + FlightDelta.y <= targetY ELSE pos.y + FlightDelta.y >= targetY
<1>1. pos.y \in Int /\ targetY \in Int
  BY DEF TypeInv, TypeOK, Position
<1>2. ClimbStep \in Nat
  BY AltitudeAssumption
<1>3. Still.x = 0 /\ Still.y = 0
  BY StillPosition
<1>4. CASE up
  <2>1. targetY > pos.y
    BY <1>1, <1>4 DEF Toward
  <2>2. FlightDelta = [x |-> 0, y |-> Smaller(ClimbStep, targetY - pos.y)]
    BY <2>1, <1>1 DEF FlightDelta
  <2>3. FlightDelta.x = 0 /\ FlightDelta.y = Smaller(ClimbStep, targetY - pos.y)
    BY <2>2
  <2>4. FlightDelta.y >= 0 /\ pos.y + FlightDelta.y <= targetY
    BY <1>1, <1>2, <2>1, <2>3 DEF Smaller
  <2>5. QED
    BY <1>3, <1>4, <2>3, <2>4 DEF Above
<1>5. CASE ~up
  <2>1. ~(targetY > pos.y) /\ pos.y > targetY
    BY <1>1, <1>5 DEF Toward
  <2>2. FlightDelta = [x |-> 0, y |-> -Smaller(ClimbStep, pos.y - targetY)]
    BY <2>1 DEF FlightDelta
  <2>3. FlightDelta.x = 0 /\ FlightDelta.y = -Smaller(ClimbStep, pos.y - targetY)
    BY <2>2
  <2>4. FlightDelta.y <= 0 /\ pos.y + FlightDelta.y >= targetY
    BY <1>1, <1>2, <2>1, <2>3 DEF Smaller
  <2>5. QED
    BY <1>3, <1>5, <2>3, <2>4 DEF Above
<1>6. QED
  BY <1>4, <1>5

\* What moves the bot is what moves the frame, but for the probe.
LEMMA SnapshotMoves ==
    ASSUME TypeInv, InputSnapshot, NEW d, d = frame'.delta
    PROVE  /\ d \in Position /\ frame'.pos = Plus(pos, d) /\ frame'.ack = teleport
           /\ pos' = Plus(pos, Said(frame').delta)
           /\ Said(frame').delta \in {d, Still}
           /\ Said(frame').delta = d \/ (~ready /\ frame'.probe)
           /\ teleport => d = Still
           /\ ~ready => d.y = 0
           /\ \/ d \in {Still, Ahead}
              \/ control = "fly" /\ ready /\ d = FlightDelta /\ targetY # pos.y
<1>1. /\ frame'.pos = Plus(pos, NextDelta) /\ d = NextDelta /\ frame'.ack = teleport
      /\ frame'.probe = Probing /\ pos' = Plus(pos, Committed(frame'))
  BY DEF InputSnapshot
<1>2. d \in Position
  BY <1>1, NextDeltaTyped, StepTypes DEF TypeInv, TypeOK
<1>3. Said(frame').delta = IF Probing THEN Still ELSE d
  BY <1>1 DEF Said, Committed
<1>4. pos' = Plus(pos, Said(frame').delta)
  BY <1>1 DEF Said
<1>5. Probing => ~ready
  BY DEF Probing
<1>6. teleport => d = Still
  BY <1>1 DEF NextDelta, Acking
<1>7. \/ d \in {Still, Ahead}
      \/ control = "fly" /\ ready /\ d = FlightDelta /\ targetY # pos.y
  <2>1. control = "walk" \/ Probing \/ (control = "fly" /\ flying /\ ready) \/
        ~(control = "walk" \/ Probing \/ (control = "fly" /\ flying /\ ready))
    OBVIOUS
  <2>2. CASE teleport
    BY <1>6, <2>2
  <2>3. CASE ~teleport /\ (control = "walk" \/ Probing)
    <3>1. ~(control = "fly" /\ flying /\ ready)
      BY <2>3 DEF Probing
    <3>2. QED
      BY <1>1, <2>3, <3>1 DEF NextDelta, Acking
  <2>4. CASE ~teleport /\ control = "fly" /\ flying /\ ready
    <3>1. ~(control = "walk" \/ Probing)
      BY <2>4 DEF Probing
    <3>2. d = FlightDelta
      BY <1>1, <2>4, <3>1 DEF NextDelta, Acking
    <3>3. targetY = pos.y => FlightDelta = Ahead
      BY DEF FlightDelta
    <3>4. QED
      BY <2>4, <3>2, <3>3
  <2>5. CASE ~teleport /\ ~(control = "walk" \/ Probing) /\ ~(control = "fly" /\ flying /\ ready)
    BY <1>1, <2>5 DEF NextDelta, Acking
  <2>6. QED
    BY <2>1, <2>2, <2>3, <2>4, <2>5
<1>8. ~ready => d.y = 0
  BY <1>7 DEF Still, Ahead
<1>9. QED
  BY <1>1, <1>2, <1>3, <1>4, <1>5, <1>6, <1>7, <1>8

\* A snapshot moves by the new frame's movement where the server will have the bot, and where a
\* correction will put it.
LEMMA SnapshotShifts ==
    ASSUME TypeInv, Order, InputSnapshot, NEW e, e = frame', NEW d, d = e.delta,
           NEW m, m = Said(e).delta
    PROVE  /\ e.tick = Clock /\ Range(Outgoing') = Range(Outgoing) \cup {e} /\ Pending' = Pending
           /\ UNCHANGED <<ready, toBot, srvPos>>
           /\ d \in Position /\ e.pos = Plus(pos, d) /\ pos' = Plus(pos, m) /\ m \in {d, Still}
           /\ m = d \/ (~ready /\ e.probe)
           /\ ~ready => d.y = 0
           /\ \A t \in Int : t < Clock =>
                 /\ Displacement(Outgoing', t) = Plus(Displacement(Outgoing, t), d)
                 /\ Ends(t)' = Plus(Ends(t), d) /\ Ends(t) \in Position
           /\ \A t \in Int : t < Clock => Displacement(Told', t) = Plus(Displacement(Told, t), m)
           /\ Displacement(Outgoing', Clock) = Still
<1>1. /\ Outgoing' = Append(Outgoing, e) /\ Told' = Append(Told, Said(e))
      /\ e \in Frame /\ Said(e) \in Prediction /\ e.tick = Clock /\ Said(e).tick = Clock
      /\ UNCHANGED <<ready, toBot, srvPos, history, probes>> /\ tpc' = "record" /\ tpc = "snap"
  <2>1. Said(e).tick = e.tick
    BY DEF Said
  <2>2. QED
    BY <2>1, SnapshotView
<1>2. /\ d \in Position /\ e.pos = Plus(pos, d) /\ pos' = Plus(pos, m) /\ m \in {d, Still}
      /\ m = d \/ (~ready /\ e.probe)
      /\ ~ready => d.y = 0
  BY SnapshotMoves
<1>3. /\ Outgoing \in Seq(Frame) /\ Told \in Seq(Prediction) /\ toBot \in Seq(Packet)
      /\ Moving(Frame) /\ Moving(Prediction) /\ Clock \in Int /\ pos \in Position /\ srvPos \in Position
      /\ Range(Outgoing') = Range(Outgoing) \cup {e}
  BY <1>1, OnTheWay, ViewTyped, RangeAppend
<1>4. ASSUME NEW t \in Int, t < Clock
      PROVE  /\ Displacement(Outgoing', t) = Plus(Displacement(Outgoing, t), d)
             /\ Displacement(Told', t) = Plus(Displacement(Told, t), m)
             /\ Ends(t)' = Plus(Ends(t), d) /\ Ends(t) \in Position
  <2>1. Displacement(Outgoing', t) = Plus(Displacement(Outgoing, t), d)
    BY <1>1, <1>3, <1>4, DisplacementAppend
  <2>2. Displacement(Told', t) = Plus(Displacement(Told, t), m)
    BY <1>1, <1>3, <1>4, DisplacementAppend
  <2>3. Displacement(Outgoing, t) \in Position
    BY PlacesTyped
  <2>4. Plus(Plus(srvPos, Displacement(Outgoing, t)), d) = Plus(srvPos, Plus(Displacement(Outgoing, t), d))
    BY <1>2, <1>3, <2>3, PlusRight
  <2>5. Ends(t)' = Plus(srvPos, Plus(Displacement(Outgoing, t), d))
    BY <1>1, <2>1 DEF Ends
  <2>6. QED
    BY <2>1, <2>2, <2>4, <2>5, PlacesTyped DEF Ends
<1>5. Displacement(Outgoing', Clock) = Still
  <2>1. \A f \in Range(Outgoing') : ~(f.tick > Clock)
    BY <1>1, <1>3, OnTheWay
  <2>2. \A i \in 1..Len(Outgoing') : ~(Outgoing'[i].tick > Clock)
    BY <2>1 DEF Range
  <2>3. Outgoing' \in Seq(Frame)
    BY <1>1, <1>3, AppendOf
  <2>4. QED
    BY <1>3, <2>2, <2>3, DisplacementNone
<1>6. Pending' = Pending
  BY <1>1 DEF Pending
<1>7. QED
  BY <1>1, <1>2, <1>3, <1>4, <1>5, <1>6

LEMMA SnapshotCorrected ==
    ASSUME TypeInv, Order, InputSnapshot, NEW e, e = frame', NEW d, d = e.delta,
           NEW m, m = Said(e).delta, NEW c \in Pending
    PROVE  /\ Corrected(c)' = Plus(Corrected(c), m) /\ Corrected(c) \in Position
           /\ Faithful(c.tick)' => Faithful(c.tick) /\ m = d
<1>1. /\ e.tick = Clock /\ tpc' = "record" /\ tpc = "snap" /\ UNCHANGED <<history, probes>>
      /\ Displacement(Told', c.tick) = Plus(Displacement(Told, c.tick), m)
      /\ m \in Position
  BY SnapshotView, SnapshotShifts, OnTheWay, StillPosition
<1>2. c.tick \in Int /\ c.tick < Clock /\ c.pos \in Position /\ Displacement(Told, c.tick) \in Position
      /\ Corrected(c) \in Position /\ Clock \in Int
  BY OnTheWay, PlacesTyped
<1>3. Corrected(c)' = Plus(c.pos, Plus(Displacement(Told, c.tick), m))
  BY <1>1 DEF Corrected
<1>4. Plus(c.pos, Plus(Displacement(Told, c.tick), m)) = Plus(Plus(c.pos, Displacement(Told, c.tick)), m)
  BY <1>1, <1>2, PlusRight
<1>5. Corrected(c)' = Plus(Corrected(c), m)
  BY <1>3, <1>4 DEF Corrected
<1>6. ASSUME Faithful(c.tick)' PROVE Faithful(c.tick) /\ m = d
  <2>1. Faithful(c.tick)
    BY <1>1, <1>6 DEF Faithful
  <2>2. Committed(e) = d \/ e.tick <= c.tick
    BY <1>1, <1>6 DEF Faithful, Committed
  <2>3. ~(e.tick <= c.tick)
    BY <1>1, <1>2
  <2>4. QED
    BY <2>1, <2>2, <2>3 DEF Said
<1>7. QED
  BY <1>2, <1>5, <1>6

LEMMA ChainSnapshot ==
    ASSUME TypeInv, Order, Unready, ready \/ Valid(srvPos), InputSnapshot, NEW up \in BOOLEAN,
           NEW b \in Int, b < Clock, Chain(up, b), Above(up, frame'.delta, Still)
    PROVE  Chain(up, b)'
<1>0. PICK e : e = frame'
  OBVIOUS
<1>1. PICK d : d = e.delta
  OBVIOUS
<1>2. PICK m : m = Said(e).delta
  OBVIOUS
<1>3. /\ e.tick = Clock /\ Range(Outgoing') = Range(Outgoing) \cup {e} /\ Pending' = Pending
      /\ UNCHANGED <<ready, toBot, srvPos>>
      /\ d \in Position /\ e.pos = Plus(pos, d) /\ pos' = Plus(pos, m) /\ m \in {d, Still}
      /\ m = d \/ (~ready /\ e.probe)
      /\ ~ready => d.y = 0
  BY <1>0, <1>1, <1>2, SnapshotShifts
<1>4. /\ \A t \in Int : t < Clock =>
             /\ Displacement(Outgoing', t) = Plus(Displacement(Outgoing, t), d)
             /\ Ends(t)' = Plus(Ends(t), d) /\ Ends(t) \in Position
      /\ Displacement(Outgoing', e.tick) = Still
  BY <1>0, <1>1, <1>2, SnapshotShifts
<1>5. Clock \in Int /\ pos \in Position
  BY OnTheWay
<1>8. Ends(b)' = Plus(Ends(b), d) /\ Ends(b) \in Position
  BY <1>4
<1>9. ASSUME NEW f \in Range(Outgoing), f.tick > b PROVE FrameAlong(up, b, f)'
  <2>1. FrameAlong(up, b, f) /\ f.tick \in Int /\ f.tick < Clock /\ f.pos \in Position
    BY <1>9, OnTheWay DEF Chain
  <2> DEFINE D == Displacement(Outgoing, f.tick)
  <2>2. D \in Position /\ Displacement(Outgoing', f.tick) = Plus(D, d)
    BY <1>4, <2>1, PlacesTyped
  <2>3. Plus(f.pos, Plus(D, d)) = Plus(Plus(f.pos, D), d) /\ Plus(f.pos, D) \in Position
    <3>1. f.pos \in Position /\ D \in Position /\ d \in Position
      BY <1>3, <2>1, <2>2
    <3> HIDE DEF D
    <3>2. Plus(f.pos, Plus(D, d)) = Plus(Plus(f.pos, D), d)
      BY <3>1, PlusRight, Zenon
    <3>3. Plus(f.pos, D) \in Position
      BY <3>1, PlusTyped
    <3>4. QED
      BY <3>2, <3>3
  <2>4. Above(up, Plus(f.pos, D), Ends(b)) => Above(up, Plus(f.pos, Displacement(Outgoing', f.tick)), Ends(b)')
    <3> HIDE DEF D
    <3>1. Above(up, Plus(Plus(f.pos, D), d), Plus(Ends(b), d)) <=> Above(up, Plus(f.pos, D), Ends(b))
      BY <1>3, <1>8, <2>3, AbovePlus
    <3>2. QED
      BY <1>8, <2>2, <2>3, <3>1
  <2>5. Void(f) => Void(f)'
    <3>1. ~(e.tick <= f.tick)
      BY <1>3, <1>5, <2>1
    <3>2. QED
      BY <1>3, <1>5, <3>1 DEF Void, Valid
  <2>6. QED
    BY <2>1, <2>4, <2>5 DEF FrameAlong
<1>10. FrameAlong(up, b, e)'
  <2>1. Above(up, e.delta, Still)
    BY <1>0
  <2>2. CASE ready
    <3>2. Plus(e.pos, Still) = e.pos
      BY <1>3, <1>5, PlusRight, PlusTyped
    <3>3. Above(up, pos, Ends(b))
      BY <2>2 DEF Chain, BotAlong
    <3>4. Above(up, Plus(pos, d), Plus(Ends(b), d))
      BY <1>3, <1>5, <1>8, <3>3, AbovePlus
    <3>5. QED
      BY <1>3, <1>4, <1>8, <2>1, <3>2, <3>4 DEF FrameAlong
  <2>3. CASE ~ready
    <3>1. ~Valid(e.pos)
      <4>1. e.pos.y = pos.y + d.y /\ pos.y \in Int
        BY <1>3, <1>5, PlusTyped DEF Position
      <4>2. ~Valid(pos) /\ d.y = 0
        BY <1>3, <2>3 DEF Unready
      <4>3. e.pos.y = pos.y
        BY <4>1, <4>2
      <4>4. QED
        BY <4>2, <4>3 DEF Valid
    <3>2. \A g \in Range(Outgoing') : g.delta.y = 0
      BY <1>1, <1>3, <2>3, LevelFrames
    <3>3. Void(e)'
      BY <1>3, <2>3, <3>1, <3>2 DEF Void, Valid
    <3>4. QED
      BY <2>1, <3>3 DEF FrameAlong
  <2>4. QED
    BY <2>2, <2>3
<1>12. ASSUME NEW c \in Pending, Faithful(c.tick)'
       PROVE  /\ Faithful(c.tick) /\ m = d
              /\ Corrected(c)' = Plus(Corrected(c), d) /\ Corrected(c) \in Position
  BY <1>0, <1>1, <1>2, <1>12, SnapshotCorrected
<1>13. ASSUME NEW c \in Pending, Faithful(c.tick)' PROVE CorrectionAlong(up, b, c)'
  <2>1. CorrectionAlong(up, b, c) /\ Corrected(c)' = Plus(Corrected(c), d) /\ Corrected(c) \in Position
    BY <1>12, <1>13 DEF Chain
  <2>2. Above(up, Corrected(c)', Ends(b)')
    BY <1>3, <1>8, <2>1, AbovePlus DEF CorrectionAlong
  <2>3. ASSUME NEW g \in Pending, c.tick < g.tick PROVE Above(up, Corrected(c)', Corrected(g)')
    <3>1. Corrected(g)' = Plus(Corrected(g), d) /\ Corrected(g) \in Position
      BY <1>0, <1>1, <1>2, <1>12, <1>13, SnapshotCorrected
    <3>2. Above(up, Corrected(c), Corrected(g))
      BY <2>1, <2>3 DEF CorrectionAlong
    <3>3. QED
      BY <1>3, <2>1, <3>1, <3>2, AbovePlus
  <2>4. (\A g \in Pending : g.tick <= c.tick) => Corrected(c)' = Ends(b)'
    BY <1>8, <2>1 DEF CorrectionAlong
  <2>5. QED
    BY <1>3, <2>2, <2>3, <2>4 DEF CorrectionAlong
<1>14. ASSUME ready PROVE BotAlong(up, b)'
  <2>1. BotAlong(up, b) /\ m = d
    BY <1>3, <1>14 DEF Chain
  <2>2. ASSUME NEW c \in Pending, Faithful(c.tick)' PROVE Above(up, pos', Corrected(c)')
    <3>1. Corrected(c)' = Plus(Corrected(c), d) /\ Corrected(c) \in Position /\ Above(up, pos, Corrected(c))
      BY <1>12, <2>1, <2>2 DEF BotAlong
    <3>2. QED
      BY <1>3, <1>5, <2>1, <3>1, AbovePlus
  <2>3. Above(up, pos', Ends(b)')
    BY <1>3, <1>5, <1>8, <2>1, AbovePlus DEF BotAlong
  <2>4. Pending = {} => pos' = Ends(b)'
    BY <1>3, <1>8, <2>1 DEF BotAlong
  <2>5. QED
    BY <1>3, <2>2, <2>3, <2>4 DEF BotAlong
<1>15. \A f \in Range(Outgoing') : f.tick > b => FrameAlong(up, b, f)'
  BY <1>3, <1>9, <1>10
<1>16. QED
  BY <1>3, <1>13, <1>14, <1>15 DEF Chain

LEMMA ChainAnswer ==
    ASSUME TypeInv, TypeInv', Order, InputSnapshot, Noted, seed = "none", NEW up \in BOOLEAN,
           NEW b \in Int, b = Clock
    PROVE  Chain(up, b)'
<1>0. PICK e : e = frame'
  OBVIOUS
<1>1. /\ Outgoing' = Append(Outgoing, e) /\ e \in Frame /\ e.tick = Clock
      /\ UNCHANGED <<toBot, srvPos>>
  BY <1>0, SnapshotView
<1>3. Outgoing \in Seq(Frame) /\ toBot \in Seq(Packet) /\ Moving(Frame) /\ pos \in Position
  BY OnTheWay, ViewTyped
<1>4. pos' = srvPos
  <2>1. Said(frame').delta = Still /\ pos' = Plus(pos, Said(frame').delta)
    BY SnapshotMoves DEF Noted
  <2>2. QED
    BY <1>3, <2>1, PlusRight DEF Noted
<1>5. \A f \in Range(Outgoing') : ~(f.tick > b)
  BY <1>1, <1>3, OnTheWay, RangeAppend
<1>6. Displacement(Outgoing', b) = Still
  <2>1. \A i \in 1..Len(Outgoing') : ~(Outgoing'[i].tick > b)
    BY <1>5 DEF Range
  <2>2. Outgoing' \in Seq(Frame)
    BY <1>1, <1>3, AppendOf
  <2>3. QED
    BY <1>3, <2>1, <2>2, DisplacementNone
<1>7. Ends(b)' = srvPos /\ srvPos \in Position
  BY <1>1, <1>6, OnTheWay, PlusRight DEF Ends
<1>8. Pending' = {}
  BY <1>1, <1>3, LacksNone DEF Pending, Noted, Calm
<1>9. BotAlong(up, b)'
  BY <1>4, <1>7, <1>8, AboveOrder DEF BotAlong
<1>10. QED
  BY <1>5, <1>8, <1>9 DEF Chain

LEMMA PositionsSnapshot ==
    ASSUME TypeInv, TypeInv', Order, Handshake, Unready, Chains, Grounded, InputSnapshot
    PROVE  Chains'
<1>0. PICK d : d = frame'.delta
  OBVIOUS
<1>1. /\ Outgoing' = Append(Outgoing, frame') /\ frame' \in Frame /\ frame'.tick = Clock
      /\ Outgoing \in Seq(Frame)
      /\ UNCHANGED <<ready, toBot, srvPos, srvAwaitsAck, control, targetY>>
  BY SnapshotView, ViewTyped
<1>2. /\ d \in Position /\ pos' = Plus(pos, Said(frame').delta) /\ Said(frame').delta \in {d, Still}
      /\ Said(frame').delta = d \/ ~ready
      /\ ~ready => d.y = 0
      /\ d \in {Still, Ahead} \/ (control = "fly" /\ ready /\ d = FlightDelta /\ targetY # pos.y)
      /\ frame'.ack = teleport
  BY <1>0, SnapshotMoves
<1>4. ASSUME NEW b \in Int, Base(b), b < Clock PROVE Chained(b)'
  <2>1. Chained(b)
    BY <1>4 DEF Chains
  <2>2. ASSUME NEW up \in BOOLEAN, Chain(up, b), Above(up, d, Still) PROVE Chain(up, b)'
    BY <1>0, <1>4, <2>2, ChainSnapshot DEF Grounded
  <2>3. CASE d \in {Still, Ahead}
    <3>1. ASSUME NEW up \in BOOLEAN PROVE Above(up, d, Still)
      BY <2>3 DEF Above, Still, Ahead
    <3>2. CASE \A up \in BOOLEAN : Chain(up, b)
      BY <2>2, <3>1, <3>2 DEF Chained
    <3>3. CASE control = "fly" /\ ready /\ \E up \in BOOLEAN : Toward(up) /\ Chain(up, b)
      <4>1. PICK up \in BOOLEAN : Toward(up) /\ Chain(up, b)
        BY <3>3
      <4>2. pos'.y = pos.y
        <5>1. d \in Position /\ d.y = 0 /\ pos' = Plus(pos, d) /\ pos \in Position /\ pos.y \in Int
          BY <1>2, <2>3, <3>3, OnTheWay DEF Still, Ahead, Position
        <5>2. pos'.y = pos.y + d.y
          BY <5>1, PlusTyped
        <5>3. QED
          BY <5>1, <5>2
      <4>3. Toward(up)' /\ Chain(up, b)'
        BY <1>1, <2>2, <3>1, <4>1, <4>2 DEF Toward
      <4>4. QED
        BY <1>1, <3>3, <4>3 DEF Chained
    <3>4. QED
      BY <2>1, <3>2, <3>3 DEF Chained
  <2>4. CASE control = "fly" /\ ready /\ d = FlightDelta /\ targetY # pos.y
    <3>1. \E up \in BOOLEAN : Toward(up) /\ Chain(up, b)
      <4>1. CASE \A up \in BOOLEAN : Chain(up, b)
        <5>1. pos.y \in Int /\ targetY \in Int
          BY DEF TypeInv, TypeOK, Position
        <5>2. Toward(TRUE) \/ Toward(FALSE)
          BY <5>1 DEF Toward
        <5>3. QED
          BY <4>1, <5>2
      <4>2. QED
        BY <2>1, <4>1 DEF Chained
    <3>2. PICK up \in BOOLEAN : Toward(up) /\ Chain(up, b)
      BY <3>1
    <3>3. Above(up, d, Still)
      BY <2>4, <3>2, FlightToward
    <3>4. pos'.y = pos.y + d.y
      BY <1>2, <2>4, OnTheWay, PlusTyped
    <3>5. Toward(up)'
      <4>1. IF up THEN pos.y + d.y <= targetY ELSE pos.y + d.y >= targetY
        BY <2>4, <3>2, FlightToward
      <4>2. QED
        BY <1>1, <3>4, <4>1 DEF Toward
    <3>6. QED
      BY <1>1, <2>2, <2>4, <3>2, <3>3, <3>5 DEF Chained
  <2>5. QED
    BY <1>2, <2>3, <2>4
<1>5. Chains'
  <2> SUFFICES ASSUME NEW b \in Int, Base(b)' PROVE Chained(b)'
    BY DEF Chains
  <2>1. Clock \in Int /\ \A f \in Range(Outgoing) : f.tick < Clock /\ -1 < f.tick
    BY OnTheWay
  <2>2. -1 < Clock
    <3>1. frame'.tick \in 0..MaxTick /\ MaxTick \in Nat
      BY <1>1, CounterAssumption DEF Frame
    <3>2. QED
      BY <1>1, <3>1
  <2>3. CASE ~srvAwaitsAck
    BY <1>1, <1>4, <2>2, <2>3 DEF Base
  <2>4. CASE srvAwaitsAck /\ \E f \in Range(Outgoing) : f.ack /\ f.tick = b
    BY <1>4, <2>1, <2>4 DEF Base
  <2>5. CASE srvAwaitsAck /\ frame'.ack /\ frame'.tick = b
    <3>1. Noted
      BY <1>2, <2>5 DEF Handshake, Together, Asked, Answered
    <3>2. QED
      BY <1>1, <2>5, <3>1, ChainAnswer DEF Chained, Grounded
  <2>6. QED
    <3>1. Range(Outgoing') = Range(Outgoing) \cup {frame'}
      BY <1>1, RangeAppend
    <3>2. srvAwaitsAck => \E f \in Range(Outgoing) \cup {frame'} : f.ack /\ f.tick = b
      BY <1>1, <3>1 DEF Base
    <3>3. QED
      BY <2>3, <2>4, <2>5, <3>2
<1>6. QED
  BY <1>5

-----------------------------------------------------------------------------
(* Positions: what is read. *)

\* A server that waits for an acknowledgement that is not on its way.
LEMMA NoBase ==
    ASSUME TypeInv, TypeInv', srvAwaitsAck', NoAcks(Outgoing')
    PROVE  Chains'
<1>1. (Outgoing \in Seq(Frame))'
  BY ViewTyped, PTL
<1>2. \A f \in Range(Outgoing') : ~f.ack
  BY <1>1, RangeOf DEF NoAcks
<1>3. QED
  BY <1>2 DEF Chains, Base

LEMMA ChainCorrect ==
    ASSUME TypeInv, Order, CorrectPrediction, ~missed', NEW up \in BOOLEAN, NEW b \in Int,
           Chain(up, b)
    PROVE  Chain(up, b)' /\ (ready => Above(up, pos, pos'))
<1>0. PICK c : c = Head(toBot)
  OBVIOUS
<1>1. toBot # <<>> /\ c.kind = "correct" /\ toBot \in Seq(Packet)
  BY <1>0, ViewTyped DEF CorrectPrediction, Receives
<1>2. /\ toBot' = Tail(toBot) /\ Told' = Kept(Told, c.tick)
      /\ \A t \in Int : c.tick <= t => Faithful(t)
      /\ pos' = Corrected(c) /\ ready' = (ready \/ Valid(c.pos))
      /\ UNCHANGED <<Outgoing, srvPos>>
      /\ c.tick \in Int
  BY <1>0, <1>1, HeadBeforeFrame, CorrectView
<1>3. Pending = Pending' \cup {c}
  BY <1>0, <1>1, <1>2, RangeTail DEF Pending
<1>4. \A d \in Pending' : c.tick < d.tick
  <2>1. \A i \in 1..Len(toBot') : toBot'[i].kind = "correct" => c.tick < toBot'[i].tick
    BY <1>0, <1>1, <1>2, InOrderTail DEF Order
  <2>2. toBot' \in Seq(Packet)
    BY <1>1, <1>2
  <2>3. QED
    BY <2>1, <2>2, RangeOf DEF Pending, Corrections
<1>5. c \in Packet /\ c \in Pending /\ CorrectionAlong(up, b, c) /\ Corrected(c) \in Position
  BY <1>0, <1>2, <1>3, OnTheWay, PlacesTyped DEF Chain
<1>6. ASSUME NEW d \in Pending'
      PROVE  /\ d \in Pending /\ Faithful(d.tick) /\ CorrectionAlong(up, b, d)
             /\ Corrected(d)' = Corrected(d)
  <2>1. d \in Pending /\ d.tick \in Int /\ c.tick <= d.tick
    BY <1>2, <1>3, <1>4, OnTheWay
  <2>2. Faithful(d.tick) /\ CorrectionAlong(up, b, d)
    BY <1>2, <2>1 DEF Chain
  <2>3. Displacement(Kept(Told, c.tick), d.tick) = Displacement(Told, d.tick)
    BY <1>2, <2>1, OnTheWay, ViewTyped, DisplacementOfKept
  <2>4. QED
    BY <1>2, <2>1, <2>2, <2>3 DEF Corrected
<1>7. Ends(b)' = Ends(b)
  BY <1>2 DEF Ends
<1>8. ASSUME NEW f \in Range(Outgoing), FrameAlong(up, b, f) PROVE FrameAlong(up, b, f)'
  BY <1>2, <1>7, <1>8 DEF FrameAlong, Void, Valid
<1>9. ASSUME NEW d \in Pending' PROVE CorrectionAlong(up, b, d)'
  <2>1. CorrectionAlong(up, b, d) /\ Corrected(d)' = Corrected(d)
    BY <1>6
  <2>2. \A g \in Pending' : d.tick < g.tick => Above(up, Corrected(d)', Corrected(g)')
    BY <1>3, <1>6, <2>1 DEF CorrectionAlong
  <2>3. ASSUME \A g \in Pending' : g.tick <= d.tick PROVE Corrected(d) = Ends(b)
    <3>1. c.tick <= d.tick
      BY <1>2, <1>4, <1>6, OnTheWay
    <3>2. QED
      BY <1>3, <2>1, <2>3, <3>1 DEF CorrectionAlong
  <2>4. QED
    BY <1>7, <2>1, <2>2, <2>3 DEF CorrectionAlong
<1>10. BotAlong(up, b)'
  <2>1. \A d \in Pending' : Above(up, Corrected(c), Corrected(d))
    BY <1>3, <1>4, <1>5 DEF CorrectionAlong
  <2>2. Above(up, Corrected(c), Ends(b))
    BY <1>5 DEF CorrectionAlong
  <2>3. Pending' = {} => Corrected(c) = Ends(b)
    <3>1. c.tick <= c.tick
      BY <1>2
    <3>2. QED
      BY <1>3, <1>5, <3>1 DEF CorrectionAlong
  <2>4. QED
    BY <1>2, <1>6, <1>7, <2>1, <2>2, <2>3 DEF BotAlong
<1>11. ready => Above(up, pos, pos')
  <2>1. Faithful(c.tick)
    BY <1>2
  <2>2. QED
    BY <1>2, <1>5, <2>1 DEF Chain, BotAlong
<1>12. QED
  BY <1>2, <1>8, <1>9, <1>10, <1>11 DEF Chain

LEMMA PositionsCorrect ==
    ASSUME TypeInv, TypeInv', Order, Handshake, Waits, Grounded => Chains, CorrectPrediction,
           ~missed', Grounded'
    PROVE  Chains'
<1>0. PICK c : c = Head(toBot)
  OBVIOUS
<1>1. toBot # <<>> /\ c.kind = "correct" /\ toBot \in Seq(Packet)
  BY <1>0, ViewTyped DEF CorrectPrediction, Receives
<1>2. /\ toBot' = Tail(toBot) /\ ready' = (ready \/ Valid(c.pos))
      /\ UNCHANGED <<Outgoing, srvPos, srvAwaitsAck, control, targetY, seed>>
  BY <1>0, <1>1, HeadBeforeFrame, CorrectView
<1>3. c \in Pending
  BY <1>0, <1>1, RangeTail DEF Pending
<1>6. CASE srvAwaitsAck
  <2>1. ~Calm
    BY <1>0, <1>1, LacksTail DEF Calm
  <2>2. NoAcks(Outgoing')
    BY <1>2, <1>6, <2>1 DEF Handshake, Together, Asked, Noted, Answered
  <2>3. QED
    BY <1>2, <1>6, <2>2, NoBase
<1>7. CASE ~srvAwaitsAck
  <2> SUFFICES ASSUME NEW b \in Int, Base(b)' PROVE Chained(b)'
    BY DEF Chains
  <2>0. Grounded
    <3>1. ~ready => (Valid(c.pos) <=> Valid(srvPos))
      BY <1>3, <1>7 DEF Waits, Valid
    <3>2. QED
      BY <1>2, <3>1 DEF Grounded, Valid
  <2>1. Base(b)
    BY <1>2, <1>7 DEF Base
  <2>2. Chained(b)
    BY <2>0, <2>1 DEF Chains
  <2>3. ASSUME NEW up \in BOOLEAN, Chain(up, b)
        PROVE  Chain(up, b)' /\ (ready => Above(up, pos, pos'))
    BY <2>3, ChainCorrect
  <2>4. CASE \A up \in BOOLEAN : Chain(up, b)
    BY <2>3, <2>4 DEF Chained
  <2>5. CASE control = "fly" /\ ready /\ \E up \in BOOLEAN : Toward(up) /\ Chain(up, b)
    <3>1. PICK up \in BOOLEAN : Toward(up) /\ Chain(up, b)
      BY <2>5
    <3>2. Above(up, pos, pos')
      BY <2>3, <2>5, <3>1
    <3>3. pos.y \in Int /\ pos'.y \in Int /\ targetY \in Int
      BY DEF TypeInv, TypeOK, Position
    <3>4. Toward(up)'
      BY <1>2, <3>1, <3>2, <3>3 DEF Toward, Above
    <3>5. QED
      BY <1>2, <2>3, <2>5, <3>1, <3>4 DEF Chained
  <2>6. QED
    BY <2>2, <2>4, <2>5 DEF Chained
<1>8. QED
  BY <1>6, <1>7 DEF TypeInv, TypeOK

\* Reading a MovePlayer: the server waits for the acknowledgement.
LEMMA UpdateAsked ==
    ASSUME TypeInv, Handshake, Update
    PROVE  srvAwaitsAck' /\ NoAcks(Outgoing')
<1>1. toBot # <<>> /\ toBot \in Seq(Packet) /\ Head(toBot).kind = "move"
      /\ UNCHANGED <<Outgoing, srvAwaitsAck>>
  BY ViewTyped, UpdateView
<1>2. ~Lacks(toBot, "move")
  BY <1>1, LacksTail
<1>3. QED
  BY <1>1, <1>2 DEF Handshake, Together, Asked, Noted, Answered, Calm

-----------------------------------------------------------------------------
(* Positions: what the server does. *)

LEMMA FirstFrame ==
    ASSUME TypeInv, Order, Outgoing # <<>>, NEW f, f = Head(Outgoing)
    PROVE  /\ Range(Outgoing) = Range(Tail(Outgoing)) \cup {f}
           /\ \A g \in Range(Tail(Outgoing)) :
                 /\ g.tick \in Int /\ f.tick < g.tick /\ -1 < g.tick /\ g.pos \in Position
                 /\ Displacement(Tail(Outgoing), g.tick) = Displacement(Outgoing, g.tick)
                 /\ Displacement(Outgoing, g.tick) \in Position
           /\ f.tick \in Int /\ -1 < f.tick /\ f.delta \in Position /\ f.pos \in Position
           /\ Displacement(Tail(Outgoing), -1) = Displacement(Outgoing, f.tick)
           /\ Displacement(Outgoing, -1) = Plus(f.delta, Displacement(Tail(Outgoing), -1))
           /\ Displacement(Tail(Outgoing), -1) \in Position
<1> DEFINE r == Tail(Outgoing)
<1>1. /\ Outgoing \in Seq(Frame) /\ r \in Seq(Frame) /\ Moving(Frame)
      /\ Range(Outgoing) = Range(r) \cup {f}
  BY ViewTyped, OnTheWay, RangeTail, TailOf
<1>2. f \in Range(Outgoing) /\ f.tick \in Int /\ -1 < f.tick /\ f.delta \in Position /\ f.pos \in Position
  BY <1>1, OnTheWay
<1>3. \A i \in 1..Len(r) : f.tick < r[i].tick
  BY <1>1, AdvancingTail DEF Order
<1>4. \A g \in Range(r) : /\ g.tick \in Int /\ f.tick < g.tick /\ -1 < g.tick /\ g.pos \in Position
                          /\ g.tick \in Ticks(r)
  <2> HIDE DEF r
  <2>1. ASSUME NEW g \in Range(r) PROVE f.tick < g.tick /\ g.tick \in Ticks(r)
    <3>1. r \in Seq(Frame)
      BY <1>1
    <3>2. PICK i \in 1..Len(r) : g = r[i]
      BY <3>1, RangeOf
    <3>3. QED
      BY <1>3, <3>2 DEF Ticks
  <2>2. QED
    BY <1>1, <2>1, OnTheWay
<1>5. \A g \in Range(r) : Displacement(r, g.tick) = Displacement(Outgoing, g.tick)
  BY <1>4, TakenBefore
<1>6. Displacement(r, f.tick) = Displacement(Outgoing, f.tick)
  BY <1>2, TakenBefore
<1>7. Displacement(r, -1) = Displacement(r, f.tick)
  <2> HIDE DEF r
  <2>1. \A i \in 1..Len(r) : r[i].tick \in Int
    BY <1>1 DEF Moving
  <2>2. \A i \in 1..Len(r) : r[i].tick > -1 <=> r[i].tick > f.tick
    BY <1>2, <1>3, <2>1
  <2>3. QED
    BY <1>1, <2>2, DisplacementSame
<1>8. Displacement(Outgoing, -1) = Plus(f.delta, Displacement(r, -1))
  BY <1>1, <1>2, DisplacementTail
<1>9. Displacement(r, -1) \in Position /\ \A g \in Range(r) : Displacement(Outgoing, g.tick) \in Position
  BY <1>1, <1>4, DisplacementTyped
<1>10. QED
  BY <1>1, <1>2, <1>4, <1>5, <1>6, <1>7, <1>8, <1>9

\* A level frame leaves the server's bot at its altitude.
LEMMA LevelTaken ==
    ASSUME TypeInv, Order, ProcessFrame, Head(Outgoing).delta.y = 0
    PROVE  srvPos'.y = srvPos.y
<1> DEFINE d == Head(Outgoing).delta
<1>1. srvPos' = Plus(srvPos, d) \/ srvPos' = srvPos
  BY ProcessView
<1>2. srvPos \in Position /\ d \in Position /\ srvPos.y \in Int
  BY TakeView, FirstFrame, OnTheWay DEF Position
<1>3. d.y = 0
  OBVIOUS
<1> HIDE DEF d
<1>4. QED
  BY <1>1, <1>2, <1>3, PlusTyped

LEMMA NoMove ==
    ASSUME NEW p \in Position, NEW d \in Position, p = Plus(p, d)
    PROVE  d = Still
<1>1. d = [x |-> d.x, y |-> d.y] /\ p.x \in Int /\ p.y \in Int /\ d.x \in Int /\ d.y \in Int
  BY DEF Position
<1>2. p.x = p.x + d.x /\ p.y = p.y + d.y
  BY PlusTyped
<1>3. d.x = 0 /\ d.y = 0
  BY <1>1, <1>2
<1>4. QED
  BY <1>1, <1>3 DEF Still

\* Where the server will have the bot stays, or the bot is corrected to a place it is ahead of.
LEMMA EndsTaken ==
    ASSUME TypeInv, Order, ProcessFrame, NEW up \in BOOLEAN, NEW b \in Int, Chain(up, b),
           NEW f, f = Head(Outgoing),
           \/ ~srvAwaitsAck /\ b = -1
           \/ f.tick = b /\ f.delta = Still /\ f.pos = srvPos
    PROVE  /\ Ends(-1)' \in Position /\ Ends(-1)' = Plus(srvPos', Displacement(Outgoing, f.tick))
           /\ \/ Ends(-1)' = Ends(b) /\ toBot' = toBot
              \/ /\ Above(up, Ends(b), Ends(-1)')
                 /\ toBot' = Append(toBot, [kind |-> "correct", pos |-> srvPos', tick |-> f.tick])
           /\ b = -1 /\ srvPos' = Plus(srvPos, f.delta) => Ends(-1)' = Ends(b)
<1> DEFINE D == Displacement(Outgoing, f.tick)
           e == [kind |-> "correct", pos |-> srvPos', tick |-> f.tick]
<1>1. /\ Outgoing # <<>> /\ Outgoing' = Tail(Outgoing)
  BY TakeView
<1>2. /\ srvPos' = Plus(srvPos, f.delta) \/ (f.delta # Still /\ srvPos' = srvPos)
      /\ \/ f.pos # srvPos' /\ toBot' = Append(toBot, e)
         \/ (f.pos = srvPos' \/ f.delta = Still) /\ toBot' = toBot
      /\ srvPos' \in Position
  BY ProcessView
<1>3. /\ D \in Position /\ Displacement(Outgoing', -1) = D
      /\ Displacement(Outgoing, -1) = Plus(f.delta, D)
      /\ f \in Range(Outgoing) /\ -1 < f.tick /\ f.delta \in Position /\ f.pos \in Position
      /\ srvPos \in Position /\ Ends(b) \in Position
  BY <1>1, FirstFrame, OnTheWay, PlacesTyped
<1>4. Ends(-1)' = Plus(srvPos', D) /\ Plus(srvPos', D) \in Position
  BY <1>2, <1>3, PlusTyped DEF Ends
<1> HIDE DEF D, e
<1>5. CASE f.tick = b /\ f.delta = Still /\ f.pos = srvPos
  <2>1. srvPos' = srvPos
    BY <1>2, <1>3, <1>5, PlusRight
  <2>2. Ends(b) = Plus(srvPos, D)
    BY <1>5 DEF Ends, D
  <2>3. b # -1
    BY <1>3, <1>5
  <2>4. QED
    BY <1>2, <1>4, <1>5, <2>1, <2>2, <2>3 DEF D, e
<1>6. CASE ~srvAwaitsAck /\ b = -1
  <2>1. FrameAlong(up, b, f)
    BY <1>3, <1>6 DEF Chain
  <2>2. Above(up, f.delta, Still)
    BY <2>1 DEF FrameAlong
  <2>3. Ends(b) = Plus(srvPos, Plus(f.delta, D))
    BY <1>3, <1>6 DEF Ends
  <2>4. srvPos' = Plus(srvPos, f.delta) => Ends(-1)' = Ends(b)
    BY <1>3, <1>4, <2>3, PlusRight
  <2>5. ASSUME srvPos' = srvPos
        PROVE  Ends(b) = Plus(Ends(-1)', f.delta) /\ Above(up, Ends(b), Ends(-1)')
    <3>1. Plus(f.delta, D) = Plus(D, f.delta)
      BY <1>3, AbovePlus
    <3>2. Plus(Plus(srvPos, D), f.delta) = Plus(srvPos, Plus(D, f.delta))
      BY <1>3, PlusRight
    <3>3. Ends(b) = Plus(Ends(-1)', f.delta)
      BY <1>4, <2>3, <2>5, <3>1, <3>2
    <3>4. Above(up, Plus(Ends(-1)', f.delta), Ends(-1)') <=> Above(up, f.delta, Still)
      <4>1. PICK q \in Position : q = Ends(-1)'
        BY <1>4
      <4>2. Above(up, Plus(q, f.delta), q) <=> Above(up, f.delta, Still)
        BY <1>3, AbovePlus
      <4>3. QED
        BY <4>1, <4>2
    <3>5. QED
      BY <2>2, <3>3, <3>4
  <2>6. ASSUME f.delta # Still, srvPos' = srvPos PROVE f.pos # srvPos'
    <3> SUFFICES ASSUME f.pos = srvPos PROVE FALSE
      BY <2>6
    <3>1. ~Void(f)
      BY <2>6 DEF Void, Valid
    <3>2. PICK q \in Position : q = Ends(-1)'
      BY <1>4
    <3>3. Above(up, q, Ends(b))
      BY <1>4, <2>1, <2>6, <3>1, <3>2 DEF FrameAlong, D
    <3>4. Above(up, Ends(b), q)
      BY <2>5, <2>6, <3>2
    <3>5. q = Ends(b) /\ Ends(b) = Plus(q, f.delta)
      <4>1. PICK g \in Position : g = Ends(b)
        BY <1>3
      <4>2. g = q
        BY <3>3, <3>4, <4>1, AboveOrder, Zenon
      <4>3. QED
        BY <2>5, <2>6, <3>2, <4>1, <4>2
    <3>6. f.delta = Still
      BY <1>3, <3>5, NoMove
    <3>7. QED
      BY <2>6, <3>6
  <2>7. CASE srvPos' = Plus(srvPos, f.delta)
    <3>1. Above(up, Ends(b), Ends(-1)')
      <4>1. PICK q \in Position : q = Ends(b)
        BY <1>3
      <4>2. Above(up, q, q)
        BY AboveOrder
      <4>3. QED
        BY <2>4, <2>7, <4>1, <4>2
    <3>2. QED
      BY <1>2, <1>4, <2>4, <2>7, <3>1 DEF D, e
  <2>8. CASE f.delta # Still /\ srvPos' = srvPos
    <3>1. toBot' = Append(toBot, e)
      BY <1>2, <2>6, <2>8
    <3>2. QED
      BY <1>4, <2>4, <2>5, <2>8, <3>1 DEF D, e
  <2>9. QED
    BY <1>2, <2>7, <2>8
<1>7. QED
  BY <1>5, <1>6

LEMMA ChainTaken ==
    ASSUME TypeInv, Order, Mirror, ProcessFrame, NEW up \in BOOLEAN, NEW b \in Int,
           Chain(up, b), NEW f, f = Head(Outgoing),
           \/ ~srvAwaitsAck /\ b = -1
           \/ f.tick = b /\ f.delta = Still /\ f.pos = srvPos
    PROVE  Chain(up, -1)'
<1>0. PICK correction : correction = [kind |-> "correct", pos |-> srvPos', tick |-> f.tick]
  OBVIOUS
<1>1. /\ Outgoing # <<>> /\ Outgoing' = Tail(Outgoing) /\ Told' = Told
      /\ UNCHANGED <<pos, ready, history, probes, frame, tpc>>
  BY TakeView
<1>2. PICK E \in Position : E = Ends(-1)'
  BY EndsTaken
<1>3. /\ \/ E = Ends(b) /\ toBot' = toBot
         \/ Above(up, Ends(b), E) /\ toBot' = Append(toBot, correction)
      /\ E = Plus(srvPos', Displacement(Outgoing, f.tick))
  BY <1>0, <1>2, EndsTaken
<1>4. /\ correction \in Packet /\ srvPos' \in Position /\ toBot \in Seq(Packet)
      /\ pos \in Position /\ Ends(b) \in Position
  BY <1>0, ProcessView, ViewTyped, OnTheWay, PlacesTyped
<1>5. correction.kind = "correct" /\ correction.tick = f.tick /\ correction.pos = srvPos'
  BY <1>0
<1>6. /\ f \in Range(Outgoing) /\ f.tick \in Int
      /\ \A g \in Range(Outgoing') :
            /\ g.tick > -1 /\ g.tick > b /\ g \in Range(Outgoing) /\ g.pos \in Position
            /\ f.tick <= g.tick
            /\ Displacement(Outgoing', g.tick) = Displacement(Outgoing, g.tick)
            /\ Displacement(Outgoing, g.tick) \in Position
  BY <1>1, FirstFrame
<1>7. Above(up, Ends(b), E)
  <2>1. Above(up, E, E)
    BY AboveOrder
  <2>2. QED
    BY <1>3, <2>1
<1>8. \A q \in Position : Above(up, q, Ends(b)) => Above(up, q, E)
  BY <1>4, <1>7, AboveOrder
<1>9. ASSUME NEW g \in Range(Outgoing') PROVE FrameAlong(up, -1, g)'
  <2>1. FrameAlong(up, b, g) /\ Plus(g.pos, Displacement(Outgoing, g.tick)) \in Position
    BY <1>6, PlusTyped DEF Chain
  <2>2. Void(g) => Void(g)'
    <3> SUFFICES ASSUME Void(g) PROVE Void(g)'
      OBVIOUS
    <3>1. f.delta.y = 0
      BY <1>6 DEF Void
    <3>2. srvPos'.y = srvPos.y
      BY <3>1, LevelTaken
    <3>3. QED
      BY <1>6, <3>2 DEF Void, Valid
  <2>3. QED
    BY <1>2, <1>6, <1>8, <2>1, <2>2 DEF FrameAlong
<1>10. ASSUME NEW c \in Pending
       PROVE  /\ Corrected(c)' = Corrected(c) /\ Corrected(c) \in Position
              /\ c.tick \in Int /\ c.tick < f.tick
              /\ Faithful(c.tick)' => Faithful(c.tick)
  BY <1>1, <1>6, OnTheWay, PlacesTyped DEF Corrected, Faithful, Committed
<1>11. CASE E = Ends(b) /\ toBot' = toBot
  <2>1. Pending' = Pending
    BY <1>11 DEF Pending
  <2>2. ASSUME NEW c \in Pending, Faithful(c.tick)' PROVE CorrectionAlong(up, -1, c)'
    <3>1. CorrectionAlong(up, b, c)
      BY <1>10, <2>2 DEF Chain
    <3>2. QED
      BY <1>2, <1>10, <1>11, <2>1, <3>1 DEF CorrectionAlong
  <2>3. ready => BotAlong(up, -1)'
    BY <1>1, <1>2, <1>10, <1>11, <2>1 DEF Chain, BotAlong
  <2>4. QED
    BY <1>1, <1>9, <2>1, <2>2, <2>3 DEF Chain
<1>12. CASE toBot' = Append(toBot, correction)
  <2>1. Pending' = Pending \cup {correction}
    BY <1>4, <1>5, <1>12, RangeAppend DEF Pending
  <2>2. ASSUME Faithful(f.tick) PROVE Corrected(correction)' = E
    <3>1. f.tick \in Ticks(Outgoing)
      BY <1>6, OnTheWay
    <3>2. Displacement(Told, f.tick) = Displacement(Outgoing, f.tick)
      BY <2>2, <3>1 DEF Mirror, Mirrored
    <3>3. Corrected(correction)' = Plus(correction.pos, Displacement(Told', correction.tick))
      BY DEF Corrected
    <3>4. QED
      BY <1>1, <1>3, <1>5, <3>2, <3>3
  <2>3. Faithful(f.tick)' => Faithful(f.tick)
    BY <1>1 DEF Faithful, Committed
  <2>4. ASSUME NEW c \in Pending, Faithful(c.tick)' PROVE CorrectionAlong(up, -1, c)'
    <3>1. CorrectionAlong(up, b, c) /\ Faithful(c.tick)
      BY <1>10, <2>4 DEF Chain
    <3>2. Above(up, Corrected(c), E)
      BY <1>8, <1>10, <3>1 DEF CorrectionAlong
    <3>3. Corrected(correction)' = E
      <4>1. Faithful(f.tick)
        BY <1>6, <1>10, <3>1, FaithfulLater DEF FaithfulOn
      <4>2. QED
        BY <2>2, <4>1
    <3>4. \A d \in Pending' : c.tick < d.tick => Above(up, Corrected(c)', Corrected(d)')
      BY <1>10, <2>1, <3>1, <3>2, <3>3 DEF CorrectionAlong
    <3>5. ~(\A d \in Pending' : d.tick <= c.tick)
      <4>1. ~(correction.tick <= c.tick)
        BY <1>5, <1>6, <1>10
      <4>2. QED
        BY <2>1, <4>1
    <3>6. QED
      BY <1>2, <1>10, <3>2, <3>4, <3>5 DEF CorrectionAlong
  <2>5. ASSUME Faithful(f.tick)' PROVE CorrectionAlong(up, -1, correction)'
    <3>1. Corrected(correction)' = E
      BY <2>2, <2>3, <2>5
    <3>2. Above(up, E, E)
      BY AboveOrder
    <3>3. \A d \in Pending' : ~(correction.tick < d.tick)
      BY <1>5, <1>6, <1>10, <2>1
    <3>4. QED
      BY <1>2, <3>1, <3>2, <3>3 DEF CorrectionAlong
  <2>6. ASSUME NEW c \in Pending', Faithful(c.tick)' PROVE CorrectionAlong(up, -1, c)'
    BY <1>5, <2>1, <2>4, <2>5, <2>6
  <2>7. ready => BotAlong(up, -1)'
    <3> SUFFICES ASSUME ready PROVE BotAlong(up, -1)'
      OBVIOUS
    <3>1. BotAlong(up, b)
      BY DEF Chain
    <3>2. Above(up, pos, E)
      BY <1>4, <1>8, <3>1 DEF BotAlong
    <3>3. ASSUME NEW c \in Pending', Faithful(c.tick)' PROVE Above(up, pos, Corrected(c)')
      <4>1. CASE c \in Pending
        BY <1>10, <3>1, <3>3, <4>1 DEF BotAlong
      <4>2. CASE c = correction
        BY <1>5, <2>2, <2>3, <3>2, <3>3, <4>2
      <4>3. QED
        BY <2>1, <4>1, <4>2
    <3>4. Pending' # {}
      BY <2>1
    <3>5. QED
      BY <1>1, <1>2, <3>2, <3>3, <3>4 DEF BotAlong
  <2>8. QED
    BY <1>1, <1>9, <2>6, <2>7 DEF Chain
<1>13. QED
  BY <1>3, <1>11, <1>12

LEMMA PositionsProcess ==
    ASSUME TypeInv, TypeInv', Order, Mirror, Handshake, Unready, Grounded => Chains, ProcessFrame,
           Grounded'
    PROVE  Chains'
<1>0. PICK f : f = Head(Outgoing)
  OBVIOUS
<1>1. /\ Outgoing # <<>> /\ Outgoing \in Seq(Frame) /\ toBot \in Seq(Packet) /\ f \in Range(Outgoing)
      /\ UNCHANGED <<pos, ready, control, targetY>>
  BY <1>0, TakeView, ViewTyped, FirstFrame
<1>2. /\ srvAwaitsAck => f.ack
      /\ ~srvAwaitsAck'
      /\ srvPos' = Plus(srvPos, f.delta) \/ srvPos' = srvPos
      /\ \/ toBot' = Append(toBot, [kind |-> "correct", pos |-> srvPos', tick |-> f.tick])
         \/ toBot' = toBot
      /\ seed' = Follows(f)
      /\ [kind |-> "correct", pos |-> srvPos', tick |-> f.tick] \in Packet
  BY <1>0, ProcessView
<1>8. Grounded
  <2>1. seed = "none"
    BY <1>2 DEF Grounded, Follows
  <2>2. ~ready => srvPos'.y = srvPos.y
    BY <1>0, <1>1, LevelFrames, LevelTaken
  <2>3. QED
    BY <1>1, <2>1, <2>2 DEF Grounded, Valid
<1>3. \E b \in Int : /\ Base(b)
                     /\ \/ ~srvAwaitsAck /\ b = -1
                        \/ srvAwaitsAck /\ f.tick = b /\ f.delta = Still /\ f.pos = srvPos
  <2>1. CASE ~srvAwaitsAck
    <3>1. -1 \in Int /\ Base(-1)
      BY <2>1 DEF Base
    <3>2. QED
      BY <2>1, <3>1
  <2>2. CASE srvAwaitsAck
    <3>1. ~NoAcks(Outgoing)
      BY <1>0, <1>1, <1>2, <2>2, AcksTail
    <3>2. PICK k \in 1..Len(Outgoing) : Answers(Outgoing, k)
      BY <2>2, <3>1 DEF Handshake, Together, Asked, Noted, Answered
    <3>3. f.delta = Still
      BY <1>0, <1>1, <1>2, <2>2, <3>2, AnswersTail
    <3>6. f.pos = srvPos
      BY <1>1, <1>2, <1>8, <2>2, <3>1 DEF Handshake, Together, Asked, Noted, Answered, Grounded
    <3>4. f.tick \in Int /\ Base(f.tick)
      BY <1>1, <1>2, <2>2, OnTheWay DEF Base
    <3>5. QED
      BY <2>2, <3>3, <3>4, <3>6
  <2>3. QED
    BY <2>1, <2>2 DEF TypeInv, TypeOK
<1>4. PICK b \in Int : /\ Base(b)
                       /\ \/ ~srvAwaitsAck /\ b = -1
                          \/ srvAwaitsAck /\ f.tick = b /\ f.delta = Still /\ f.pos = srvPos
  BY <1>3
<1>5. Chained(b)
  BY <1>4, <1>8 DEF Chains
<1>6. Chains'
  <2>1. ASSUME NEW up \in BOOLEAN, Chain(up, b) PROVE Chain(up, -1)'
    BY <1>0, <1>4, <2>1, ChainTaken
  <2>2. Chained(-1)'
    <3>1. CASE \A up \in BOOLEAN : Chain(up, b)
      BY <2>1, <3>1 DEF Chained
    <3>2. CASE control = "fly" /\ ready /\ \E up \in BOOLEAN : Toward(up) /\ Chain(up, b)
      <4>1. PICK up \in BOOLEAN : Toward(up) /\ Chain(up, b)
        BY <3>2
      <4>2. Toward(up)' /\ Chain(up, -1)'
        BY <1>1, <2>1, <4>1 DEF Toward
      <4>3. QED
        BY <1>1, <3>2, <4>2 DEF Chained
    <3>3. QED
      BY <1>5, <3>1, <3>2 DEF Chained
  <2>3. QED
    BY <1>2, <2>2 DEF Chains, Base
<1>7. QED
  BY <1>6

LEMMA PositionsIgnore ==
    ASSUME TypeInv, TypeInv', Order, Chains, IgnoreFrame
    PROVE  Chains'
<1>0. PICK f : f = Head(Outgoing)
  OBVIOUS
<1>1. /\ Outgoing # <<>> /\ Outgoing' = Tail(Outgoing) /\ Told' = Told
      /\ UNCHANGED <<pos, ready, history, probes, frame, control, targetY, tpc>>
  BY TakeView
<1>2. srvAwaitsAck /\ UNCHANGED <<toBot, srvPos, srvAwaitsAck>>
  BY DEF IgnoreFrame
<1>4. \A g \in Range(Outgoing') :
          /\ g \in Range(Outgoing) /\ g.tick \in Int
          /\ Displacement(Outgoing', g.tick) = Displacement(Outgoing, g.tick)
  BY <1>0, <1>1, FirstFrame
<1>5. ASSUME NEW b \in Int, Base(b)' PROVE Chained(b)'
  <2>1. PICK g \in Range(Outgoing') : g.ack /\ g.tick = b
    BY <1>2, <1>5 DEF Base
  <2>2. Base(b)
    BY <1>2, <1>4, <2>1 DEF Base
  <2>3. Ends(b)' = Ends(b)
    BY <1>2, <1>4, <2>1 DEF Ends
  <2>4. ASSUME NEW up \in BOOLEAN, Chain(up, b) PROVE Chain(up, b)'
    <3>1. Pending' = Pending
      BY <1>2 DEF Pending
    <3>2. ASSUME NEW h \in Range(Outgoing'), h.tick > b PROVE FrameAlong(up, b, h)'
      <4>1. FrameAlong(up, b, h)
        BY <1>4, <2>4, <3>2 DEF Chain
      <4>2. QED
        BY <1>2, <1>4, <2>3, <4>1 DEF FrameAlong, Void, Valid
    <3>3. \A c \in Pending : Corrected(c)' = Corrected(c) /\ (Faithful(c.tick)' => Faithful(c.tick))
      BY <1>1 DEF Corrected, Faithful, Committed
    <3>4. ASSUME NEW c \in Pending, Faithful(c.tick)' PROVE CorrectionAlong(up, b, c)'
      <4>1. CorrectionAlong(up, b, c)
        BY <2>4, <3>3, <3>4 DEF Chain
      <4>2. QED
        BY <2>3, <3>1, <3>3, <4>1 DEF CorrectionAlong
    <3>5. ready => BotAlong(up, b)'
      BY <1>1, <2>3, <2>4, <3>1, <3>3 DEF Chain, BotAlong
    <3>6. QED
      BY <1>1, <3>1, <3>2, <3>4, <3>5 DEF Chain
  <2>5. Chained(b)
    BY <2>2 DEF Chains
  <2>6. CASE \A up \in BOOLEAN : Chain(up, b)
    BY <2>4, <2>6 DEF Chained
  <2>7. CASE control = "fly" /\ ready /\ \E up \in BOOLEAN : Toward(up) /\ Chain(up, b)
    <3>1. PICK up \in BOOLEAN : Toward(up) /\ Chain(up, b)
      BY <2>7
    <3>2. Toward(up)' /\ Chain(up, b)'
      BY <1>1, <2>4, <3>1 DEF Toward
    <3>3. QED
      BY <1>1, <2>7, <3>2 DEF Chained
  <2>8. QED
    BY <2>5, <2>6, <2>7 DEF Chained
<1>6. QED
  BY <1>5 DEF Chains

-----------------------------------------------------------------------------
(* Positions: every step. *)

LEMMA PositionsInit == Init => Chains /\ Waits
<1> SUFFICES ASSUME Init PROVE Chains /\ Waits
  OBVIOUS
<1>1. /\ Outgoing = <<>> /\ toBot = <<>> /\ ~srvAwaitsAck
      /\ srvPos \in Places /\ pos \in {srvPos, Placeholder} /\ ready = Valid(pos)
  BY DEF Init, Outgoing
<1>2. Range(Outgoing) = {} /\ Pending = {}
  BY <1>1, EmptyChannel DEF Pending, Corrections
<1>3. srvPos \in Position
  BY <1>1, PlacesAssumption
<1>4. ~Valid(Placeholder)
  BY PlacesAssumption, AltitudeAssumption DEF Valid, Position
<1>5. Waits
  BY <1>2 DEF Waits
<1>6. ASSUME NEW b \in Int, NEW up \in BOOLEAN PROVE Chain(up, b)
  <2>1. Moving(Frame) /\ Outgoing \in Seq(Frame)
    BY <1>1, StepTypes
  <2>2. Displacement(<<>>, b) = Still
    BY <1>1, <2>1, DisplacementTyped
  <2>3. Ends(b) = srvPos
    BY <1>1, <1>3, <2>2, PlusRight DEF Ends
  <2>4. ready => pos = srvPos
    BY <1>1, <1>4
  <2>5. ready => BotAlong(up, b)
    <3>1. Above(up, srvPos, srvPos)
      BY <1>3, AboveOrder
    <3>2. QED
      BY <1>2, <2>3, <2>4, <3>1 DEF BotAlong
  <2>6. QED
    BY <1>2, <2>5 DEF Chain
<1>7. QED
  BY <1>5, <1>6 DEF Chains, Chained

\* Only the server's teleports take a waiting bot to another altitude.
LEMMA WaitsStep ==
    ASSUME TypeInv, FlightInv, Order, Handshake, Unready, Waits, Steady, Steady', [Next]_vars
    PROVE  Waits'
<1> SUFFICES ASSUME ~ready', ~srvAwaitsAck', NEW c \in Pending' PROVE c.pos.y = srvPos'.y
  BY DEF Waits
<1>0. toBot \in Seq(Packet)
  BY ViewTyped
<1>1. ASSUME UNCHANGED <<ready, srvPos, srvAwaitsAck>>, Pending' \subseteq Pending
      PROVE  c.pos.y = srvPos'.y
  BY <1>1 DEF Waits
<1>2. CASE BesidesTick \/ TicksOver \/ InputSnapshot \/ RecordAndWrite \/ SyncServerTick \/ UNCHANGED vars
  BY <1>1, <1>2, AsideTick, AsideElse, SnapshotView, RecordView, SyncView
  DEF aside, Pending, Order, Steady
<1>3. CASE CorrectPrediction \/ Update \/ OtherRead
  <2>1. toBot # <<>> /\ toBot' = Tail(toBot) /\ (ready => ready') /\ UNCHANGED <<srvPos, srvAwaitsAck>>
    <3>1. CASE CorrectPrediction
      <4>1. tpc = "record" => Head(toBot).tick < frame.tick
        BY <3>1, HeadBeforeFrame DEF CorrectPrediction, Receives
      <4>2. ~missed'
        BY DEF Steady
      <4>3. toBot # <<>> /\ toBot' = Tail(toBot) /\ ready' = (ready \/ Valid(Head(toBot).pos))
        BY <3>1, <4>1, <4>2, CorrectView
      <4>4. QED
        BY <3>1, <4>3 DEF CorrectPrediction, serverVars
    <3>2. CASE Update
      BY <3>2, UpdateView
    <3>3. CASE OtherRead
      <4>1. ready' = ready \/ ready' = TRUE
        BY <3>3, ReadView
      <4>2. toBot # <<>> /\ toBot' = Tail(toBot) /\ UNCHANGED <<srvPos, srvAwaitsAck>>
        BY <3>3, ReadView
      <4>3. QED
        BY <4>1, <4>2
    <3>4. QED
      BY <1>3, <3>1, <3>2, <3>3
  <2>2. Pending' \subseteq Pending /\ ~ready
    BY <1>0, <2>1, RangeTail DEF Pending
  <2>3. QED
    BY <2>1, <2>2 DEF Waits
<1>4. CASE ProcessFrame
  <2>1. ~ready /\ Outgoing # <<>> /\ Outgoing \in Seq(Frame)
    BY <1>4, TakeView, ViewTyped
  <2>2. srvPos'.y = srvPos.y
    <3>1. Head(Outgoing) \in Range(Outgoing)
      BY <2>1, RangeTail
    <3>2. QED
      BY <1>4, <2>1, <3>1, LevelFrames, LevelTaken
  <2>3. \A d \in Pending : d.pos.y = srvPos.y
    <3>1. CASE ~srvAwaitsAck
      BY <2>1, <3>1 DEF Waits
    <3>2. CASE srvAwaitsAck
      <4>1. Head(Outgoing).ack
        BY <1>4, <3>2, ProcessView
      <4>2. Calm
        BY <2>1, <3>2, <4>1, AcksTail DEF Handshake, Together, Asked, Noted, Answered
      <4>3. QED
        BY <1>0, <4>2, LacksNone DEF Calm, Pending
    <3>3. QED
      BY <3>1, <3>2 DEF TypeInv, TypeOK
  <2>4. c \in Pending \/ c.pos = srvPos'
    <3> DEFINE e == [kind |-> "correct", pos |-> srvPos', tick |-> Head(Outgoing).tick]
    <3>1. (toBot' = toBot \/ toBot' = Append(toBot, e)) /\ e \in Packet /\ e.pos = srvPos'
      BY <1>4, ProcessView
    <3> HIDE DEF e
    <3>2. Corrections(Append(toBot, e)) \subseteq Corrections(toBot) \cup {e}
      BY <1>0, <3>1, RangeAppend
    <3>3. Pending' \subseteq Pending \cup {e}
      BY <3>1, <3>2 DEF Pending
    <3>4. QED
      BY <3>1, <3>3
  <2>5. QED
    BY <2>2, <2>3, <2>4
<1>5. CASE IgnoreFrame
  <2>1. UNCHANGED <<srvPos, srvAwaitsAck, toBot>> /\ ready' = ready
    BY <1>5, TakeView DEF IgnoreFrame
  <2>2. QED
    BY <1>1, <2>1 DEF Pending
<1>6. CASE MoveBot
  BY <1>6, MoveAsked
<1>7. CASE SendPublisher \/ SendAbilities \/ SendSync
  <2>1. /\ \E e \in Packet : toBot' = Append(toBot, e) /\ e.kind # "correct"
        /\ UNCHANGED <<ready, srvPos, srvAwaitsAck>>
    BY <1>7, EventView
  <2>2. QED
    BY <1>0, <1>1, <2>1, RangeAppend DEF Pending
<1>8. QED
  BY <1>2, <1>3, <1>4, <1>5, <1>6, <1>7
  DEF Next, TickLoop, BesidesTick, Reader, OtherRead, Server

LEMMA PositionsStep ==
    ASSUME TypeInv, TypeInv', FlightInv, Order, Mirror, Handshake, Unready, Waits, Grounded => Chains,
           Grounded', Steady, Steady', [Next]_vars
    PROVE  Chains'
<1>1. CASE Elsewhere
  <2>1. /\ Same /\ UNCHANGED <<srvAwaitsAck, seed>>
        /\ UNCHANGED <<control, targetY>> \/ control = "none"
    BY <1>1, ElsewhereSame
  <2>2. Grounded
    BY <2>1 DEF Same, Grounded, Valid
  <2>3. QED
    BY <2>1, <2>2, ChainsSame
<1>2. CASE InputSnapshot
  <2>1. UNCHANGED <<seed, ready, srvPos>>
    BY <1>2, SnapshotView
  <2>2. QED
    BY <1>2, <2>1, PositionsSnapshot DEF Grounded, Valid
<1>3. CASE CorrectPrediction
  BY <1>3, PositionsCorrect DEF Steady
<1>4. CASE Update
  BY <1>4, UpdateAsked, NoBase
<1>5. CASE OtherRead
  BY <1>1, <1>5, ReadView DEF Elsewhere, Grounded
<1>6. CASE ProcessFrame
  BY <1>6, PositionsProcess
<1>7. CASE IgnoreFrame
  <2>1. UNCHANGED <<seed, ready, srvPos>>
    BY <1>7, TakeView DEF IgnoreFrame, ghostVars
  <2>2. QED
    BY <1>7, <2>1, PositionsIgnore DEF Grounded, Valid
<1>8. CASE MoveBot
  BY <1>8, MoveAsked, NoBase
<1>9. QED
  BY <1>1, <1>2, <1>3, <1>4, <1>5, <1>6, <1>7, <1>8
  DEF Next, TickLoop, BesidesTick, Reader, OtherRead, Server, Elsewhere

-----------------------------------------------------------------------------
(* Positions seeded by the publisher. *)

\* Every frame on its way was made on the way to where the bot is.
Uncorrected(b) ==
    \A f \in Range(Outgoing) : f.tick > b => Plus(f.pos, Displacement(Outgoing, f.tick)) = pos

\* The bot is off by as much as its seed was.
SeedAlong(b) ==
    /\ seed = "unseen" /\ Uncorrected(b)
    /\ \E q \in Position : Near(q, srvPos) /\ pos = Plus(q, Displacement(Outgoing, b))

\* The last correction takes the bot to where the server will have it.  Without one on its way
\* the bot is there already, or no frame with a movement has told the server where the bot is.
Seeded(b) ==
    /\ \A c \in Pending : Faithful(c.tick) /\ (\A g \in Pending : g.tick <= c.tick)
                             => Corrected(c) = Ends(b)
    /\ Pending = {} => pos = Ends(b) \/ SeedAlong(b)

Seeds == seed \in {"unseen", "seen"} => ready /\ \A b \in Int : Base(b) => Seeded(b)

LEMMA SeedsInit == Init => Seeds
  BY DEF Init, Seeds

\* A server that waits for an acknowledgement that is not on its way.
LEMMA SeedsNoBase ==
    ASSUME TypeInv, TypeInv', srvAwaitsAck', NoAcks(Outgoing'),
           seed' \in {"unseen", "seen"} => ready'
    PROVE  Seeds'
<1>1. (Outgoing \in Seq(Frame))'
  BY ViewTyped, PTL
<1>2. \A f \in Range(Outgoing') : ~f.ack
  BY <1>1, RangeOf DEF NoAcks
<1>3. QED
  BY <1>2 DEF Seeds, Base

LEMMA SeedsSame ==
    ASSUME TypeInv, Order, Seeds, Same, UNCHANGED <<srvAwaitsAck, seed>>
    PROVE  Seeds'
<1> SUFFICES ASSUME seed \in {"unseen", "seen"}, NEW b \in Int, Base(b)' PROVE Seeded(b)'
  BY DEF Seeds, Same
<1>1. Seeded(b)
  BY DEF Seeds, Base, Same
<1>2. Ends(b)' = Ends(b)
  BY DEF Same, Ends
<1>3. ASSUME NEW c \in Pending, Faithful(c.tick)', \A g \in Pending : g.tick <= c.tick
      PROVE  Corrected(c)' = Ends(b)
  <2>1. c.tick \in Int
    BY OnTheWay
  <2>2. Faithful(c.tick) /\ Displacement(Told', c.tick) = Displacement(Told, c.tick)
    BY <1>3, <2>1 DEF Same
  <2>3. QED
    BY <1>1, <1>3, <2>2 DEF Seeded, Corrected
<1>4. ASSUME Pending = {} PROVE pos = Ends(b) \/ SeedAlong(b)'
  <2>1. SeedAlong(b) => SeedAlong(b)'
    BY DEF SeedAlong, Uncorrected, Near, Same
  <2>2. QED
    BY <1>1, <1>4, <2>1 DEF Seeded
<1>5. QED
  BY <1>2, <1>3, <1>4 DEF Seeded, Same

LEMMA SeedsSnapshot ==
    ASSUME TypeInv, TypeInv', Order, Handshake, Seeds, InputSnapshot
    PROVE  Seeds'
<1> SUFFICES ASSUME seed \in {"unseen", "seen"}, NEW b \in Int, Base(b)' PROVE ready /\ Seeded(b)'
  BY SnapshotView DEF Seeds
<1>0. PICK e : e = frame'
  OBVIOUS
<1>1. PICK d : d = e.delta
  OBVIOUS
<1>2. ready
  BY DEF Seeds
<1>3. /\ e.tick = Clock /\ Range(Outgoing') = Range(Outgoing) \cup {e} /\ Pending' = Pending
      /\ UNCHANGED <<ready, toBot, srvPos, srvAwaitsAck, seed>> /\ e.ack = teleport
      /\ d \in Position /\ e.pos = Plus(pos, d) /\ pos' = Plus(pos, d) /\ Said(e).delta = d
      /\ teleport => d = Still
  BY <1>0, <1>1, <1>2, SnapshotShifts, SnapshotView, SnapshotMoves
<1>4. /\ \A t \in Int : t < Clock =>
             /\ Displacement(Outgoing', t) = Plus(Displacement(Outgoing, t), d)
             /\ Ends(t)' = Plus(Ends(t), d) /\ Ends(t) \in Position
      /\ Displacement(Outgoing', e.tick) = Still
  BY <1>0, <1>1, SnapshotShifts
<1>5. Clock \in Int /\ pos \in Position /\ srvPos \in Position /\ -1 < Clock
  <2>1. e.tick \in 0..MaxTick /\ MaxTick \in Nat
    BY <1>0, SnapshotView, CounterAssumption DEF Frame
  <2>2. QED
    BY <1>3, <2>1, OnTheWay
<1>6. Plus(e.pos, Displacement(Outgoing', e.tick)) = pos'
  BY <1>3, <1>4, <1>5, PlusTyped, PlusRight
<1>7. CASE Base(b) /\ b < Clock
  <2>1. Seeded(b)
    BY <1>7 DEF Seeds
  <2>2. ASSUME NEW c \in Pending, Faithful(c.tick)', \A g \in Pending : g.tick <= c.tick
        PROVE  Corrected(c)' = Ends(b)'
    <3>1. Corrected(c)' = Plus(Corrected(c), d) /\ Faithful(c.tick)
      BY <1>0, <1>1, <1>3, <2>2, SnapshotCorrected
    <3>2. Corrected(c) = Ends(b)
      BY <2>1, <2>2, <3>1 DEF Seeded
    <3>3. QED
      BY <1>4, <1>7, <3>1, <3>2
  <2>3. pos = Ends(b) => pos' = Ends(b)'
    BY <1>3, <1>4, <1>7
  <2>4. SeedAlong(b) => SeedAlong(b)'
    <3> SUFFICES ASSUME SeedAlong(b) PROVE SeedAlong(b)'
      OBVIOUS
    <3>1. ASSUME NEW f \in Range(Outgoing), f.tick > b
          PROVE  Plus(f.pos, Displacement(Outgoing', f.tick)) = pos'
      <4>1. PICK D \in Position : D = Displacement(Outgoing, f.tick)
        BY OnTheWay, PlacesTyped
      <4>2. f.pos \in Position /\ Displacement(Outgoing', f.tick) = Plus(D, d)
        BY <1>4, <4>1, OnTheWay
      <4>3. Plus(f.pos, D) = pos
        BY <3>1, <4>1 DEF SeedAlong, Uncorrected
      <4>4. Plus(f.pos, Plus(D, d)) = Plus(Plus(f.pos, D), d)
        BY <1>3, <4>1, <4>2, PlusRight
      <4>5. QED
        BY <1>3, <4>2, <4>3, <4>4
    <3>2. Uncorrected(b)'
      BY <1>3, <1>6, <3>1 DEF Uncorrected
    <3>3. PICK q \in Position : Near(q, srvPos) /\ pos = Plus(q, Displacement(Outgoing, b))
      BY DEF SeedAlong
    <3>4. PICK D \in Position : D = Displacement(Outgoing, b)
      BY PlacesTyped
    <3>5. Plus(q, Plus(D, d)) = Plus(Plus(q, D), d)
      BY <1>3, <3>3, <3>4, PlusRight
    <3>6. pos' = Plus(q, Displacement(Outgoing', b))
      BY <1>3, <1>4, <1>7, <3>3, <3>4, <3>5
    <3>7. QED
      BY <1>3, <3>2, <3>3, <3>6 DEF SeedAlong, Near
  <2>5. Pending = {} => pos' = Ends(b)' \/ SeedAlong(b)'
    BY <2>1, <2>3, <2>4 DEF Seeded
  <2>6. QED
    BY <1>2, <1>3, <2>2, <2>5 DEF Seeded
<1>8. CASE srvAwaitsAck /\ e.ack /\ e.tick = b
  <2>1. Noted
    BY <1>3, <1>8 DEF Handshake, Together, Asked, Answered
  <2>2. Pending = {} /\ Near(pos, srvPos) /\ seed = "unseen"
    BY <2>1, ViewTyped, LacksNone DEF Noted, Calm, Pending
  <2>3. pos' = pos /\ Plus(pos, Still) = pos
    BY <1>3, <1>5, <2>1, PlusRight DEF Noted
  <2>4. Uncorrected(b)'
    BY <1>3, <1>6, <1>8, OnTheWay DEF Uncorrected
  <2>5. SeedAlong(b)'
    BY <1>3, <1>4, <1>5, <1>8, <2>2, <2>3, <2>4 DEF SeedAlong, Near
  <2>6. QED
    BY <1>2, <1>3, <2>2, <2>5 DEF Seeded
<1>9. QED
  BY <1>3, <1>5, <1>7, <1>8, OnTheWay DEF Base

\* The publisher seeds a bot that has made no frame, in the block where the server has it.
LEMMA SeedsAccept ==
    ASSUME TypeInv, TypeInv', Order, Order', Unstirred, Handshake, OtherRead,
           ~UNCHANGED <<pos, ready, seed>>
    PROVE  Seeds'
<1>1. /\ toBot # <<>> /\ toBot \in Seq(Packet) /\ toBot' = Tail(toBot)
      /\ Head(toBot).kind = "publisher" /\ ~inputStarted /\ seed' = "unseen" /\ ready' = TRUE
      /\ pos' = PublisherEye(Head(toBot).block)
      /\ UNCHANGED <<Outgoing, srvPos, srvAwaitsAck>>
  BY ReadView, ViewTyped
<1>2. Outgoing = <<>> /\ Lacks(toBot, "correct") /\ Published(toBot, srvPos)
  BY <1>1 DEF Unstirred
<1>3. Range(Outgoing) = {} /\ Pending' = {}
  <2>1. Lacks(toBot', "correct") /\ toBot' \in Seq(Packet)
    BY <1>1, <1>2, LacksTail
  <2>2. QED
    BY <1>2, <2>1, LacksNone, EmptyChannel DEF Pending
<1> SUFFICES ASSUME NEW b \in Int, Base(b)' PROVE Seeded(b)'
  BY <1>1 DEF Seeds
<1>4. ~srvAwaitsAck
  BY <1>1, <1>3 DEF Base
<1>5. Near(pos', srvPos)
  <2>1. Lacks(toBot, "move")
    BY <1>4 DEF Handshake, Together, Asked, Noted, Answered
  <2>2. Head(toBot).block = BlockOf(srvPos)
    BY <1>1, <1>2, <2>1, PublishedHead
  <2>3. QED
    BY <1>1, <2>2, BlockNear, OnTheWay
<1>6. pos' \in Position /\ Displacement(Outgoing', b) = Still
  BY <1>1, <1>2, OnTheWay, ViewTyped, DisplacementTyped DEF TypeInv, TypeOK
<1>7. SeedAlong(b)'
  BY <1>1, <1>3, <1>5, <1>6, PlusRight DEF SeedAlong, Uncorrected, Near
<1>8. QED
  BY <1>3, <1>7 DEF Seeded

LEMMA SeedsCorrect ==
    ASSUME TypeInv, TypeInv', Order, Handshake, Seeds, CorrectPrediction, ~missed'
    PROVE  Seeds'
<1>0. PICK c : c = Head(toBot)
  OBVIOUS
<1>1. toBot # <<>> /\ c.kind = "correct" /\ toBot \in Seq(Packet)
  BY <1>0, ViewTyped DEF CorrectPrediction, Receives
<1>2. /\ toBot' = Tail(toBot) /\ Told' = Kept(Told, c.tick)
      /\ \A t \in Int : c.tick <= t => Faithful(t)
      /\ pos' = Corrected(c) /\ ready' = (ready \/ Valid(c.pos))
      /\ UNCHANGED <<Outgoing, srvPos, srvAwaitsAck, seed>>
      /\ c.tick \in Int
  BY <1>0, <1>1, HeadBeforeFrame, CorrectView
<1>3. Pending = Pending' \cup {c} /\ \A g \in Pending' : c.tick < g.tick
  <2>1. Pending = Pending' \cup {c}
    BY <1>0, <1>1, <1>2, RangeTail DEF Pending
  <2>2. \A i \in 1..Len(toBot') : toBot'[i].kind = "correct" => c.tick < toBot'[i].tick
    BY <1>0, <1>1, <1>2, InOrderTail DEF Order
  <2>3. toBot' \in Seq(Packet)
    BY <1>1, <1>2
  <2>4. QED
    BY <2>1, <2>2, <2>3, RangeOf DEF Pending, Corrections
<1>4. CASE srvAwaitsAck
  <2>1. ~Calm
    BY <1>0, <1>1, LacksTail DEF Calm
  <2>2. NoAcks(Outgoing')
    BY <1>2, <1>4, <2>1 DEF Handshake, Together, Asked, Noted, Answered
  <2>3. QED
    BY <1>2, <1>4, <2>2, SeedsNoBase DEF Seeds
<1>5. CASE ~srvAwaitsAck
  <2> SUFFICES ASSUME seed \in {"unseen", "seen"}, NEW b \in Int, Base(b)' PROVE Seeded(b)'
    BY <1>2 DEF Seeds
  <2>1. Seeded(b) /\ Ends(b)' = Ends(b)
    BY <1>2, <1>5 DEF Seeds, Base, Ends
  <2>2. ASSUME NEW g \in Pending', \A h \in Pending' : h.tick <= g.tick
        PROVE  Corrected(g)' = Ends(b)
    <3>1. g \in Pending /\ g.tick \in Int /\ c.tick <= g.tick
      BY <1>2, <1>3, OnTheWay
    <3>2. Corrected(g) = Ends(b)
      BY <1>2, <1>3, <2>1, <2>2, <3>1 DEF Seeded
    <3>3. Displacement(Kept(Told, c.tick), g.tick) = Displacement(Told, g.tick)
      BY <1>2, <3>1, OnTheWay, ViewTyped, DisplacementOfKept
    <3>4. QED
      BY <1>2, <3>2, <3>3 DEF Corrected
  <2>3. ASSUME Pending' = {} PROVE pos' = Ends(b)
    <3>1. c.tick <= c.tick /\ c \in Pending /\ Faithful(c.tick)
      BY <1>2, <1>3
    <3>2. QED
      BY <1>2, <1>3, <2>1, <2>3, <3>1 DEF Seeded
  <2>4. QED
    BY <2>1, <2>2, <2>3 DEF Seeded
<1>6. QED
  BY <1>4, <1>5 DEF TypeInv, TypeOK

\* The server takes a frame: by what it does, the bot is where the server will have it, or is
\* corrected, or the server has not seen it move.
LEMMA SeedsProcess ==
    ASSUME TypeInv, TypeInv', Order, Mirror, Handshake, Seeds, ProcessFrame
    PROVE  Seeds'
<1> SUFFICES ASSUME seed' \in {"unseen", "seen"} PROVE ready' /\ \A b \in Int : Base(b)' => Seeded(b)'
  BY DEF Seeds
<1>0. PICK f : f = Head(Outgoing)
  OBVIOUS
<1>1. PICK e : e = [kind |-> "correct", pos |-> srvPos', tick |-> f.tick]
  OBVIOUS
<1>2. /\ Outgoing # <<>> /\ Outgoing' = Tail(Outgoing) /\ Told' = Told
      /\ UNCHANGED <<pos, ready, history, probes, frame, tpc>>
      /\ Outgoing \in Seq(Frame) /\ toBot \in Seq(Packet)
  BY TakeView, ViewTyped
<1>3. /\ srvAwaitsAck => f.ack
      /\ ~srvAwaitsAck'
      /\ srvPos' = Plus(srvPos, f.delta) \/ (f.delta # Still /\ srvPos' = srvPos)
      /\ \/ f.pos # srvPos' /\ toBot' = Append(toBot, e)
         \/ (f.pos = srvPos' \/ f.delta = Still) /\ toBot' = toBot
      /\ srvPos' \in Position /\ e \in Packet /\ e.kind = "correct" /\ e.pos = srvPos' /\ e.tick = f.tick
      /\ seed' = Follows(f)
  BY <1>0, <1>1, ProcessView
<1>4. PICK D \in Position : D = Displacement(Outgoing, f.tick)
  BY <1>0, <1>2, FirstFrame, PlacesTyped
<1>5. /\ Displacement(Outgoing', -1) = D /\ Displacement(Outgoing, -1) = Plus(f.delta, D)
      /\ f \in Range(Outgoing) /\ f.tick \in Int /\ -1 < f.tick /\ f.delta \in Position
      /\ f.pos \in Position /\ srvPos \in Position
      /\ Range(Outgoing) = Range(Outgoing') \cup {f}
      /\ \A g \in Range(Outgoing') :
            /\ f.tick < g.tick /\ -1 < g.tick /\ g.tick \in Int
            /\ Displacement(Outgoing', g.tick) = Displacement(Outgoing, g.tick)
  BY <1>0, <1>2, <1>4, FirstFrame, OnTheWay
<1>6. Ends(-1)' = Plus(srvPos', D)
  BY <1>5 DEF Ends
<1>7. seed \in {"unseen", "seen"} /\ ready
      /\ (f.delta = Still => seed' = seed)
      /\ (f.delta # Still => ~(srvPos' = srvPos /\ toBot' = toBot))
  <2>1. CASE seed = "none" \/ f.delta = Still
    BY <1>3, <2>1 DEF Follows, Seeds
  <2>2. CASE ~(seed = "none" \/ f.delta = Still) /\ srvPos' = srvPos /\ toBot' = toBot
    BY <1>3, <2>2 DEF Follows
  <2>3. CASE ~(seed = "none" \/ f.delta = Still) /\ ~(srvPos' = srvPos /\ toBot' = toBot)
    <3>1. seed' = IF seed = "unheard" THEN seed ELSE "seen"
      BY <1>3, <2>3 DEF Follows
    <3>2. seed \in {"unseen", "seen"}
      BY <2>3, <3>1 DEF TypeInv, TypeOK
    <3>3. QED
      BY <2>3, <3>2 DEF Seeds
  <2>4. QED
    BY <2>1, <2>2, <2>3
<1>8. PICK b \in Int : /\ Base(b)
                       /\ \/ ~srvAwaitsAck /\ b = -1
                          \/ f.tick = b /\ f.delta = Still
  <2>1. CASE ~srvAwaitsAck
    <3>1. -1 \in Int /\ Base(-1)
      BY <2>1 DEF Base
    <3>2. QED
      BY <2>1, <3>1
  <2>2. CASE srvAwaitsAck
    <3>1. ~NoAcks(Outgoing)
      BY <1>0, <1>2, <1>3, <2>2, AcksTail
    <3>2. PICK k \in 1..Len(Outgoing) : Answers(Outgoing, k)
      BY <2>2, <3>1 DEF Handshake, Together, Asked, Noted, Answered
    <3>3. f.delta = Still
      BY <1>0, <1>2, <1>3, <2>2, <3>2, AnswersTail
    <3>4. f.tick \in Int /\ Base(f.tick)
      BY <1>3, <1>5, <2>2 DEF Base
    <3>5. QED
      BY <3>3, <3>4
  <2>3. QED
    BY <2>1, <2>2 DEF TypeInv, TypeOK
<1>9. Seeded(b)
  BY <1>7, <1>8 DEF Seeds
<1>10. srvPos' = Plus(srvPos, f.delta) => Ends(-1)' = Ends(b) /\ Displacement(Outgoing, b) = Plus(f.delta, D)
  <2>1. Displacement(Outgoing, b) = Plus(f.delta, D)
    BY <1>4, <1>5, <1>8, PlusRight
  <2>2. Plus(Plus(srvPos, f.delta), D) = Plus(srvPos, Plus(f.delta, D))
    BY <1>4, <1>5, PlusRight
  <2>3. QED
    BY <1>6, <2>1, <2>2 DEF Ends
<1>11. ASSUME NEW c \in Pending
       PROVE  /\ Corrected(c)' = Corrected(c) /\ c.tick \in Int /\ c.tick < f.tick
              /\ Faithful(c.tick)' => Faithful(c.tick)
  BY <1>2, <1>5, OnTheWay DEF Corrected, Faithful, Committed
<1>12. CASE toBot' = Append(toBot, e)
  <2>1. Pending' = Pending \cup {e}
    BY <1>2, <1>3, <1>12, RangeAppend DEF Pending
  <2>2. ASSUME Faithful(e.tick)' PROVE Corrected(e)' = Ends(-1)'
    <3>1. Faithful(f.tick) /\ f.tick \in Ticks(Outgoing)
      BY <1>2, <1>3, <1>5, <2>2, OnTheWay DEF Faithful, Committed
    <3>2. Displacement(Told, f.tick) = D
      BY <1>4, <3>1 DEF Mirror, Mirrored
    <3>3. Corrected(e)' = Plus(e.pos, Displacement(Told', e.tick))
      BY DEF Corrected
    <3>4. QED
      BY <1>2, <1>3, <1>6, <3>2, <3>3
  <2>3. ASSUME NEW c \in Pending PROVE ~(\A g \in Pending' : g.tick <= c.tick)
    <3>1. ~(e.tick <= c.tick)
      BY <1>3, <1>5, <1>11
    <3>2. QED
      BY <2>1, <3>1
  <2>4. Seeded(-1)'
    BY <2>1, <2>2, <2>3 DEF Seeded
  <2>5. QED
    BY <1>2, <1>3, <1>7, <2>4 DEF Base
<1>13. CASE toBot' = toBot
  <2>1. srvPos' = Plus(srvPos, f.delta) /\ Ends(-1)' = Ends(b) /\ Pending' = Pending
    BY <1>3, <1>7, <1>10, <1>13 DEF Pending
  <2>2. ASSUME NEW c \in Pending, Faithful(c.tick)', \A g \in Pending : g.tick <= c.tick
        PROVE  Corrected(c)' = Ends(-1)'
    BY <1>9, <1>11, <2>1, <2>2 DEF Seeded
  <2>3. ASSUME SeedAlong(b), f.delta # Still PROVE pos' = Ends(-1)'
    <3>1. f.pos = srvPos' /\ f.tick > b
      BY <1>3, <1>5, <1>8, <1>13, <2>3
    <3>2. Plus(f.pos, D) = pos
      BY <1>4, <1>5, <2>3, <3>1 DEF SeedAlong, Uncorrected
    <3>3. QED
      BY <1>2, <1>6, <3>1, <3>2
  <2>4. ASSUME SeedAlong(b), f.delta = Still PROVE SeedAlong(-1)'
    <3>1. srvPos' = srvPos /\ Displacement(Outgoing, b) = D /\ seed' = "unseen"
      BY <1>4, <1>5, <1>7, <1>10, <2>1, <2>4, PlusRight DEF SeedAlong
    <3>2. \A g \in Range(Outgoing') : g \in Range(Outgoing) /\ g.tick > b
      BY <1>5, <1>8
    <3>3. Uncorrected(-1)'
      BY <1>2, <1>5, <2>4, <3>2 DEF SeedAlong, Uncorrected
    <3>4. QED
      BY <1>2, <1>5, <2>4, <3>1, <3>3 DEF SeedAlong, Near
  <2>5. Pending = {} => pos' = Ends(-1)' \/ SeedAlong(-1)'
    BY <1>2, <1>9, <2>1, <2>3, <2>4 DEF Seeded
  <2>6. Seeded(-1)'
    BY <2>1, <2>2, <2>5 DEF Seeded
  <2>7. QED
    BY <1>2, <1>3, <1>7, <2>6 DEF Base
<1>14. QED
  BY <1>3, <1>12, <1>13

LEMMA SeedsIgnore ==
    ASSUME TypeInv, Order, Seeds, IgnoreFrame
    PROVE  Seeds'
<1>0. PICK f : f = Head(Outgoing)
  OBVIOUS
<1>1. /\ Outgoing # <<>> /\ Outgoing' = Tail(Outgoing) /\ Told' = Told
      /\ UNCHANGED <<pos, ready, history, probes, frame, tpc>>
  BY TakeView
<1>2. srvAwaitsAck /\ UNCHANGED <<toBot, srvPos, srvAwaitsAck, seed>> /\ Pending' = Pending
  BY DEF IgnoreFrame, ghostVars, Pending
<1>3. \A g \in Range(Outgoing') :
          /\ g \in Range(Outgoing) /\ g.tick \in Int
          /\ Displacement(Outgoing', g.tick) = Displacement(Outgoing, g.tick)
  BY <1>0, <1>1, FirstFrame
<1> SUFFICES ASSUME seed \in {"unseen", "seen"}, NEW b \in Int, Base(b)' PROVE Seeded(b)'
  BY <1>1, <1>2 DEF Seeds
<1>4. Base(b) /\ Displacement(Outgoing', b) = Displacement(Outgoing, b)
  BY <1>2, <1>3 DEF Base
<1>5. Seeded(b) /\ Ends(b)' = Ends(b)
  BY <1>2, <1>4 DEF Seeds, Ends
<1>6. \A c \in Pending : Corrected(c)' = Corrected(c) /\ (Faithful(c.tick)' => Faithful(c.tick))
  BY <1>1 DEF Corrected, Faithful, Committed
<1>7. SeedAlong(b) => SeedAlong(b)'
  BY <1>1, <1>2, <1>3, <1>4 DEF SeedAlong, Uncorrected, Near
<1>8. QED
  BY <1>1, <1>2, <1>5, <1>6, <1>7 DEF Seeded

LEMMA SeedsStep ==
    ASSUME TypeInv, TypeInv', FlightInv, Order, Order', Mirror, Handshake, Unstirred, Seeds,
           Steady, Steady', [Next]_vars
    PROVE  Seeds'
<1>1. CASE Elsewhere
  BY <1>1, ElsewhereSame, SeedsSame
<1>2. CASE InputSnapshot
  BY <1>2, SeedsSnapshot
<1>3. CASE CorrectPrediction
  BY <1>3, SeedsCorrect DEF Steady
<1>4. CASE Update
  BY <1>4, UpdateView DEF Seeds
<1>5. CASE OtherRead
  BY <1>1, <1>5, SeedsAccept DEF Elsewhere
<1>6. CASE ProcessFrame
  BY <1>6, SeedsProcess
<1>7. CASE IgnoreFrame
  BY <1>7, SeedsIgnore
<1>8. CASE MoveBot
  BY <1>8, MoveAsked, MoveView, SeedsNoBase DEF Seeds
<1>9. QED
  BY <1>1, <1>2, <1>3, <1>4, <1>5, <1>6, <1>7, <1>8
  DEF Next, TickLoop, BesidesTick, Reader, OtherRead, Server, Elsewhere

-----------------------------------------------------------------------------
(* Prediction converges. *)

\* As long as nothing has happened that BotIsWhereServerHasIt excludes.
ConvergenceInv ==
    /\ TypeInv /\ FlightInv /\ Unready
    /\ Steady => /\ Order /\ Mirror /\ Unstirred /\ Handshake /\ Waits
                 /\ Grounded => Chains
                 /\ Seeds

LEMMA ConvergenceInit == Init => ConvergenceInv
  BY TypeInit, FlightInit, UnreadyInit, OrderInit, MirrorInit, UnstirredInit, HandshakeInit,
     PositionsInit, SeedsInit
  DEF ConvergenceInv

LEMMA ConvergenceStep == ConvergenceInv /\ [Next]_vars => ConvergenceInv'
<1> SUFFICES ASSUME ConvergenceInv, [Next]_vars PROVE ConvergenceInv'
  OBVIOUS
<1>1. TypeInv /\ FlightInv /\ Unready
  BY DEF ConvergenceInv
<1>2. TypeInv' /\ FlightInv' /\ Unready'
  BY <1>1, TypeStep, FlightStep, UnreadyStep
<1>3. ASSUME Steady'
      PROVE  (Order /\ Mirror /\ Unstirred /\ Handshake /\ Waits /\ (Grounded => Chains) /\ Seeds)'
  <2>1. Steady
    BY <1>1, <1>3, SteadyBefore
  <2>2. /\ Order /\ Mirror /\ Unstirred /\ Handshake /\ Waits /\ Seeds
        /\ Grounded => Chains
    BY <2>1 DEF ConvergenceInv
  <2>3. Order' /\ Mirror' /\ Unstirred' /\ Handshake'
    BY <1>1, <1>3, <2>1, <2>2, OrderStep, MirrorStep, UnstirredStep, HandshakeStep
  <2>4. Waits'
    BY <1>1, <1>3, <2>1, <2>2, WaitsStep
  <2>5. Grounded' => Chains'
    BY <1>1, <1>2, <1>3, <2>1, <2>2, PositionsStep
  <2>6. Seeds'
    BY <1>1, <1>2, <1>3, <2>1, <2>2, <2>3, SeedsStep
  <2>7. QED
    BY <2>3, <2>4, <2>5, <2>6
<1>4. QED
  BY <1>2, <1>3 DEF ConvergenceInv

\* When all that was sent has arrived, a teleport is noted, or the positions' layers apply.
LEMMA Arrived ==
    ASSUME ConvergenceInv, Quiet, Undisturbed
    PROVE  /\ Seeds /\ Pending = {} /\ pos \in Position /\ srvPos \in Position
           /\ Grounded => Chains
           /\ Displacement(Outgoing, -1) = Still /\ Ends(-1) = srvPos
           /\ Noted \/ Base(-1)
<1>1. TypeInv /\ toBot = <<>> /\ Outgoing = <<>> /\ Len(<<>>) = 0
  BY DEF ConvergenceInv, Quiet, Outgoing
<1>2. Steady
  BY <1>1 DEF Steady, Undisturbed
<1>3. Order /\ Handshake /\ Seeds /\ (Grounded => Chains)
  BY <1>2 DEF ConvergenceInv
<1>4. Pending = {}
  BY <1>1, EmptyChannel DEF Pending, Corrections
<1>5. Noted \/ Base(-1)
  BY <1>1, <1>3 DEF Handshake, Together, Asked, Answered, Base
<1>6. pos \in Position /\ srvPos \in Position /\ Displacement(Outgoing, -1) = Still
  BY <1>1, <1>3, OnTheWay, ViewTyped, DisplacementTyped
<1>7. QED
  BY <1>3, <1>4, <1>5, <1>6, PlusRight DEF Ends

\* Client-side prediction converges (playerState of tick.go: snapshot, recordPrediction,
\* correctPrediction, update and acceptPublisherPosition, called by two goroutines): when
\* everything that was sent has arrived, a bot whose position is authoritative is where the
\* server has it, for any places, valid or not, any blocks, altitudes and histories, whatever
\* the server did -- unless the input clock was set back, a correction was replayed without a
\* later movement that the history does not tell, MovePlayer moved the bot without a teleport,
\* or the publisher seeded the position and the server has seen no movement since, or refused
\* one without a word.
THEOREM ConvergenceCorrect == Spec => []BotIsWhereServerHasIt
<1>1. ConvergenceInv => BotIsWhereServerHasIt
  <2> SUFFICES ASSUME ConvergenceInv, Quiet, ready, Undisturbed, seed \in {"none", "seen"}
               PROVE  pos = srvPos
    BY DEF BotIsWhereServerHasIt
  <2>1. CASE Noted
    BY <2>1 DEF Noted
  <2>2. CASE Base(-1) /\ seed = "none"
    <3>1. Chained(-1)
      BY <2>2, Arrived DEF Grounded, Chains
    <3>2. PICK up \in BOOLEAN : Chain(up, -1)
      BY <3>1 DEF Chained
    <3>3. QED
      BY <3>2, Arrived DEF Chain, BotAlong
  <2>3. CASE Base(-1) /\ seed = "seen"
    <3>1. Seeded(-1)
      BY <2>3, Arrived DEF Seeds
    <3>2. QED
      BY <2>3, <3>1, Arrived DEF Seeded, SeedAlong
  <2>4. QED
    BY <2>1, <2>2, <2>3, Arrived
<1>2. QED
  BY <1>1, ConvergenceInit, ConvergenceStep, PTL DEF Spec

\* A publisher update that is seen twice at one block (bot.go's runInstance, publisherEyePosition
\* of flight.go, acceptPublisherPosition) seeds a position that is near the server's, for any
\* block size and any place: half a block along the ground, a block up or down; and it stays so
\* while frames, corrections and teleports cross, until the server sees the bot move.
THEOREM SeedCorrect == Spec => []SeedIsNear
<1>1. ConvergenceInv => SeedIsNear
  <2> SUFFICES ASSUME ConvergenceInv, Quiet, Undisturbed, seed = "unseen" PROVE Near(pos, srvPos)
    BY DEF SeedIsNear, Near
  <2>1. CASE Noted
    BY <2>1 DEF Noted
  <2>2. CASE Base(-1)
    <3>1. Seeded(-1)
      BY <2>2, Arrived DEF Seeds
    <3>2. CASE pos = Ends(-1)
      BY <3>2, Arrived, NearItself
    <3>3. CASE SeedAlong(-1)
      BY <3>3, Arrived, PlusRight DEF SeedAlong
    <3>4. QED
      BY <3>1, <3>2, <3>3, Arrived DEF Seeded
  <2>3. QED
    BY <2>1, <2>2, Arrived
<1>2. QED
  BY <1>1, ConvergenceInit, ConvergenceStep, PTL DEF Spec
=============================================================================
