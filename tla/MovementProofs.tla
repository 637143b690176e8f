--------------------------- MODULE MovementProofs ---------------------------
(***************************************************************************)
(* Theorems about Movement.tla, for every world, altitude, retry interval  *)
(* and bound: flight requests pair with StartFlying frames, teleports are  *)
(* not lost, and the correction probe is counted right.                    *)
(***************************************************************************)
EXTENDS Movement, Functions, TLAPS

-----------------------------------------------------------------------------
(* Flight requests. *)

\* The steps of the tick goroutine before its action is started.
Unstarted == {"settle", "first", "readPos", "readReady", "start"}

\* A queued transition is taken by the next frame: it is queued right before a snapshot, or
\* by Start, and then no retry is due before the next one.
FlightInv ==
    /\ tpc \in Unstarted \cup {"ticker", "act", "retry", "snap", "record", "request"}
    /\ requests \in Nat /\ starts \in Nat
    /\ startPending \in BOOLEAN /\ frame.start \in BOOLEAN
    /\ elapsed \in Nat
    /\ tpc \in Unstarted => control = "none"
    /\ tpc \in {"ticker", "act", "retry", "request"} => control # "none"
    /\ control = "none" \/ tpc = "request" => elapsed = 0
    /\ startPending => tpc = "snap" \/ (tpc \in {"ticker", "act"} /\ elapsed = 0)
    /\ RequestsStart

flightVars == <<tickVars, startPending, control, requests, starts>>

LEMMA FlightInit == Init => FlightInv
<1> SUFFICES ASSUME Init PROVE FlightInv
  OBVIOUS
<1>1. NoFrame.start = FALSE
  BY DEF NoFrame
<1>2. /\ requests = 0 /\ starts = 0 /\ elapsed = 0 /\ control = "none"
      /\ startPending = FALSE /\ frame.start = FALSE
      /\ tpc \in {"settle", "first"}
  BY <1>1 DEF Init
<1>3. RequestsStart
  BY <1>2 DEF RequestsStart
<1>4. QED
  BY <1>2, <1>3 DEF FlightInv, Unstarted

\* The remainder that counts ticks modulo RetryTicks.
LEMMA ElapsedTyped ==
    ASSUME NEW n \in Nat
    PROVE  (n + 1) % RetryTicks \in Nat /\ (0 + 1) % RetryTicks = 1
  BY CounterAssumption

LEMMA FlightTick == FlightInv /\ TickLoop => FlightInv'
<1> SUFFICES ASSUME FlightInv, TickLoop PROVE FlightInv'
  OBVIOUS
<1>1. CASE StartWalk
  BY <1>1 DEF StartWalk, FlightInv, RequestsStart, Unstarted, ghostVars
<1>2. CASE NextInputTick
  BY <1>2 DEF NextInputTick, FlightInv, RequestsStart, Unstarted, ghostVars
<1>3. CASE ActionTick
  <2>1. /\ UNCHANGED <<requests, starts, startPending, frame, control>>
        /\ tpc = "act" /\ elapsed \in Nat
    BY <1>3 DEF ActionTick, FlightInv, playerVars, ghostVars
  <2>2. CASE scenario = "fly"
    <3>1. /\ elapsed' = (elapsed + 1) % RetryTicks
          /\ tpc' \in {"retry", "snap"} /\ (tpc' = "retry" => elapsed' = 0)
      BY <1>3, <2>2 DEF ActionTick
    <3>2. elapsed' \in Nat
      BY <2>1, <3>1, ElapsedTyped
    <3>3. startPending => tpc' = "snap"
      <4>1. startPending => elapsed = 0
        BY <2>1 DEF FlightInv
      <4>2. startPending => elapsed' = 1
        BY <3>1, <4>1, ElapsedTyped
      <4>3. QED
        BY <3>1, <4>2
    <3>4. QED
      BY <2>1, <3>1, <3>2, <3>3 DEF FlightInv, RequestsStart, Unstarted
  <2>3. CASE scenario # "fly"
    <3>1. tpc' = "snap" /\ elapsed' = elapsed
      BY <1>3, <2>3 DEF ActionTick
    <3>2. QED
      BY <2>1, <3>1 DEF FlightInv, RequestsStart, Unstarted
  <2>4. QED
    BY <2>2, <2>3
<1>4. CASE RequestFlight
  <2>1. /\ UNCHANGED <<starts, frame, control, elapsed>> /\ tpc \in {"retry", "request"}
        /\ startPending' = TRUE /\ requests' = requests + 1
        /\ tpc' = IF tpc = "retry" THEN "snap" ELSE "ticker"
    BY <1>4 DEF RequestFlight, Queued
  <2>2. startPending = FALSE /\ requests \in Nat /\ starts \in Nat /\ requests = starts
    BY <2>1 DEF FlightInv, RequestsStart
  <2>3. RequestsStart' /\ requests' \in Nat
    BY <2>1, <2>2 DEF RequestsStart
  <2>4. QED
    BY <2>1, <2>3 DEF FlightInv, Unstarted
<1>5. CASE InputSnapshot
  <2>1. /\ UNCHANGED <<requests, starts, control, elapsed>>
        /\ tpc = "snap" /\ tpc' = "record" /\ startPending' = FALSE
        /\ frame'.start = startPending
    BY <1>5 DEF InputSnapshot, ghostVars
  <2>2. /\ startPending \in BOOLEAN /\ requests \in Nat /\ starts \in Nat
        /\ requests = starts + (IF startPending THEN 1 ELSE 0)
    BY <2>1 DEF FlightInv, RequestsStart
  <2>3. RequestsStart'
    <3>1. CASE startPending
      BY <2>1, <2>2, <3>1 DEF RequestsStart
    <3>2. CASE ~startPending
      BY <2>1, <2>2, <3>2 DEF RequestsStart
    <3>3. QED
      BY <3>1, <3>2
  <2>4. QED
    BY <2>1, <2>2, <2>3 DEF FlightInv, Unstarted
<1>6. CASE RecordAndWrite
  <2>1. /\ UNCHANGED <<requests, startPending, control, elapsed, frame>>
        /\ tpc = "record" /\ starts' = IF frame.start THEN starts + 1 ELSE starts
        /\ tpc' = IF control = "none" THEN "readPos" ELSE "ticker"
    BY <1>6 DEF RecordAndWrite
  <2>2. QED
    BY <2>1 DEF FlightInv, RequestsStart, Unstarted
<1>7. CASE ReadPosition
  BY <1>7 DEF ReadPosition, FlightInv, RequestsStart, Unstarted, playerVars, ghostVars
<1>8. CASE ReadReady
  BY <1>8 DEF ReadReady, FlightInv, RequestsStart, Unstarted, ghostVars
<1>9. CASE StartFly
  BY <1>9 DEF StartFly, FlightInv, RequestsStart, Unstarted, ghostVars
<1>10. QED
  BY <1>1, <1>2, <1>3, <1>4, <1>5, <1>6, <1>7, <1>8, <1>9 DEF TickLoop

LEMMA FlightElse == FlightInv /\ UNCHANGED flightVars => FlightInv'
  BY DEF FlightInv, RequestsStart, Unstarted, flightVars, tickVars

LEMMA FlightStep == FlightInv /\ [Next]_vars => FlightInv'
<1> SUFFICES ASSUME FlightInv, [Next]_vars PROVE FlightInv'
  OBVIOUS
<1>1. CASE TickLoop
  BY <1>1, FlightTick
<1>2. CASE Reader
  <2>1. UNCHANGED flightVars
    BY <1>2 DEF Reader, CorrectPrediction, Update, SyncOnly, SyncServerTick,
                AcceptPublisherPosition, SetFlyingConfirmed, flightVars, playerVars, ghostVars
  <2>2. QED
    BY <2>1, FlightElse
<1>3. CASE Server
  <2>1. UNCHANGED flightVars
    BY <1>3 DEF Server, IgnoreFrame, ProcessFrame, MoveBot, SendPublisher, SendAbilities,
                SendSync, flightVars, playerVars, ghostVars
  <2>2. QED
    BY <2>1, FlightElse
<1>4. CASE TicksOver \/ UNCHANGED vars
  <2>1. UNCHANGED flightVars
    BY <1>4 DEF TicksOver, vars, flightVars, playerVars, ghostVars
  <2>2. QED
    BY <2>1, FlightElse
<1>5. QED
  BY <1>1, <1>2, <1>3, <1>4 DEF Next

\* For every retry interval and however the server confirms, takes back or ignores flight,
\* each RequestAbility goes with exactly one StartFlying frame: RequestsStart.
THEOREM RequestsCorrect == Spec => []RequestsStart
<1>1. FlightInv => RequestsStart
  BY DEF FlightInv
<1>2. QED
  BY <1>1, FlightInit, FlightStep, PTL DEF Spec

-----------------------------------------------------------------------------
(* Channels. *)

Sequential(s) == s \in Seq(Range(s))

LEMMA EmptyChannel == Sequential(<<>>) /\ Range(<<>>) = {}
  BY DEF Sequential, Range

LEMMA OwnRange ==
    ASSUME NEW S, NEW s \in Seq(S)
    PROVE  Sequential(s)
<1>1. \A i \in 1..Len(s) : s[i] \in Range(s)
  BY DEF Range
<1>2. QED
  BY <1>1 DEF Sequential

\* Sending adds an element.
LEMMA Sent ==
    ASSUME NEW s, NEW e, Sequential(s)
    PROVE  /\ Sequential(Append(s, e)) /\ Range(Append(s, e)) = Range(s) \cup {e}
           /\ Len(Append(s, e)) = Len(s) + 1
<1> DEFINE S == Range(s) \cup {e}
           a == Append(s, e)
<1>1. s \in Seq(S) /\ e \in S /\ Len(s) \in Nat /\ DOMAIN s = 1..Len(s)
  BY DEF Sequential
<1>2. /\ a \in Seq(S) /\ Len(a) = Len(s) + 1 /\ DOMAIN a = 1..Len(s) + 1
      /\ a[Len(s) + 1] = e /\ \A i \in 1..Len(s) : a[i] = s[i]
  BY <1>1
<1>3. Range(a) = S
  BY <1>1, <1>2 DEF Range
<1>4. QED
  BY <1>2, <1>3 DEF Sequential

\* Receiving takes the first one away, and perhaps an equal one stays.
LEMMA Received ==
    ASSUME NEW s, Sequential(s), s # <<>>
    PROVE  /\ Sequential(Tail(s)) /\ Head(s) \in Range(s)
           /\ Range(s) = Range(Tail(s)) \cup {Head(s)}
<1> DEFINE t == Tail(s)
<1>1. s \in Seq(Range(s)) /\ Len(s) \in Nat \ {0} /\ DOMAIN s = 1..Len(s)
  BY DEF Sequential
<1>2. /\ t \in Seq(Range(s)) /\ Len(t) = Len(s) - 1 /\ DOMAIN t = 1..Len(s) - 1
      /\ \A i \in 1..Len(s) - 1 : t[i] = s[i + 1]
  BY <1>1
<1>3. Head(s) = s[1] /\ 1 \in DOMAIN s
  BY <1>1
<1>4. \A i \in DOMAIN s : i = 1 \/ (i - 1 \in DOMAIN t /\ s[i] = t[i - 1])
  BY <1>1, <1>2
<1>5. \A i \in DOMAIN t : i + 1 \in DOMAIN s /\ t[i] = s[i + 1]
  BY <1>1, <1>2
<1>6. Range(s) = Range(t) \cup {Head(s)}
  BY <1>3, <1>4, <1>5 DEF Range
<1>7. Sequential(t)
  BY <1>2, OwnRange
<1>8. QED
  BY <1>3, <1>6, <1>7 DEF Range

-----------------------------------------------------------------------------
(* Teleports. *)

AsksAck(packet) == packet.kind = "move" /\ packet.teleport

Acknowledged ==
    \/ teleport
    \/ tpc = "record" /\ frame.ack
    \/ \E f \in Range(toServer) : f.ack
    \/ \E packet \in Range(toBot) : AsksAck(packet)

TeleportInv ==
    /\ Sequential(toServer) /\ Sequential(toBot)
    /\ srvAwaitsAck => Acknowledged

LEMMA TeleportInit == Init => TeleportInv
  BY EmptyChannel DEF Init, TeleportInv

\* The snapshot takes the acknowledgement into its frame, and the write puts it on its way.
LEMMA TeleportTick == TeleportInv /\ TickLoop => TeleportInv'
<1> SUFFICES ASSUME TeleportInv, TickLoop PROVE TeleportInv'
  OBVIOUS
<1>1. UNCHANGED <<toBot, srvAwaitsAck>>
  BY DEF TickLoop, StartWalk, NextInputTick, ActionTick, RequestFlight, InputSnapshot,
         RecordAndWrite, ReadPosition, ReadReady, StartFly, serverVars
<1>2. CASE InputSnapshot
  <2>1. toServer' = toServer /\ tpc' = "record" /\ frame'.ack = teleport /\ tpc = "snap"
    BY <1>2 DEF InputSnapshot
  <2>2. Acknowledged => Acknowledged'
    BY <1>1, <2>1 DEF Acknowledged
  <2>3. QED
    BY <1>1, <2>1, <2>2 DEF TeleportInv
<1>3. CASE RecordAndWrite
  <2>1. toServer' = Append(toServer, frame) /\ teleport' = teleport
    BY <1>3 DEF RecordAndWrite
  <2>2. /\ Sequential(toServer') /\ frame \in Range(toServer')
        /\ Range(toServer) \subseteq Range(toServer')
    BY <2>1, Sent DEF TeleportInv
  <2>3. Acknowledged => Acknowledged'
    BY <1>1, <2>1, <2>2 DEF Acknowledged
  <2>4. QED
    BY <1>1, <2>2, <2>3 DEF TeleportInv
<1>4. CASE ~InputSnapshot /\ ~RecordAndWrite
  <2>1. UNCHANGED <<toServer, teleport, frame>> /\ tpc # "record"
    BY <1>4 DEF TickLoop, StartWalk, NextInputTick, ActionTick, RequestFlight, ReadPosition,
                ReadReady, StartFly, playerVars
  <2>2. Acknowledged => Acknowledged'
    BY <1>1, <2>1 DEF Acknowledged
  <2>3. QED
    BY <1>1, <2>1, <2>2 DEF TeleportInv
<1>5. QED
  BY <1>2, <1>3, <1>4

\* A packet that is received is noted, if it asks for an acknowledgement.
LEMMA TeleportRead == TeleportInv /\ Reader => TeleportInv'
<1> SUFFICES ASSUME TeleportInv, Reader PROVE TeleportInv'
  OBVIOUS
<1>1. UNCHANGED <<tpc, frame, toServer, srvAwaitsAck>>
  BY DEF Reader, CorrectPrediction, Update, SyncOnly, SyncServerTick, AcceptPublisherPosition,
         SetFlyingConfirmed, tickVars, serverVars
<1>2. CASE SyncServerTick
  <2>1. toBot' = toBot /\ teleport' = teleport
    BY <1>2 DEF SyncServerTick
  <2>2. QED
    BY <1>1, <2>1 DEF TeleportInv, Acknowledged
<1>3. CASE ~SyncServerTick
  <2>1. toBot # <<>> /\ toBot' = Tail(toBot)
    BY <1>3 DEF Reader, CorrectPrediction, Update, SyncOnly, AcceptPublisherPosition,
                SetFlyingConfirmed, Receives
  <2>2. Sequential(toBot') /\ Range(toBot) = Range(toBot') \cup {Head(toBot)}
    BY <2>1, Received DEF TeleportInv
  <2>3. (teleport \/ AsksAck(Head(toBot))) => teleport'
    <3>1. CASE Update
      BY <3>1 DEF Update, KeepsTeleport, AsksAck
    <3>2. CASE ~Update
      <4>1. teleport' = teleport /\ Head(toBot).kind # "move"
        BY <1>3, <3>2 DEF Reader, CorrectPrediction, SyncOnly, AcceptPublisherPosition,
                          SetFlyingConfirmed, playerVars, Receives
      <4>2. QED
        BY <4>1 DEF AsksAck
    <3>3. QED
      BY <3>1, <3>2
  <2>4. Acknowledged => Acknowledged'
    BY <1>1, <2>2, <2>3 DEF Acknowledged
  <2>5. QED
    BY <1>1, <2>2, <2>4 DEF TeleportInv
<1>4. QED
  BY <1>2, <1>3

\* The server waits for an acknowledgement only once it has asked for it.
LEMMA TeleportServe == TeleportInv /\ Server => TeleportInv'
<1> SUFFICES ASSUME TeleportInv, Server PROVE TeleportInv'
  OBVIOUS
<1>1. UNCHANGED <<tpc, frame, teleport>>
  BY DEF Server, IgnoreFrame, ProcessFrame, MoveBot, SendPublisher, SendAbilities, SendSync,
         playerVars, tickVars
<1>2. CASE IgnoreFrame
  <2>1. /\ UNCHANGED <<toBot, srvAwaitsAck>> /\ ~Head(toServer).ack
        /\ toServer # <<>> /\ toServer' = Tail(toServer)
    BY <1>2 DEF IgnoreFrame, Takes
  <2>2. /\ Sequential(toServer')
        /\ Range(toServer) = Range(toServer') \cup {Head(toServer)}
    BY <2>1, Received DEF TeleportInv
  <2>3. Acknowledged => Acknowledged'
    BY <1>1, <2>1, <2>2 DEF Acknowledged
  <2>4. QED
    BY <2>1, <2>2, <2>3 DEF TeleportInv
<1>3. CASE ProcessFrame
  <2>1. /\ toServer # <<>> /\ toServer' = Tail(toServer) /\ srvAwaitsAck' = FALSE
        /\ (toBot' = toBot \/ \E packet : toBot' = Append(toBot, packet))
    BY <1>3 DEF ProcessFrame, Takes, Sends
  <2>2. Sequential(toServer') /\ Sequential(toBot')
    BY <2>1, Received, Sent DEF TeleportInv
  <2>3. QED
    BY <2>1, <2>2 DEF TeleportInv
<1>4. CASE MoveBot
  <2>1. PICK p \in Places, asked \in {FALSE, ~srvAwaitsAck} :
            /\ srvAwaitsAck' = (srvAwaitsAck \/ asked)
            /\ toBot' = Append(toBot, [kind |-> "move", pos |-> p, teleport |-> asked,
                                       tick |-> srvTick])
    BY <1>4 DEF MoveBot, Sends
  <2> DEFINE packet == [kind |-> "move", pos |-> p, teleport |-> asked, tick |-> srvTick]
  <2>2. Sequential(toBot') /\ Range(toBot') = Range(toBot) \cup {packet}
    BY <2>1, Sent DEF TeleportInv
  <2>3. toServer' = toServer
    BY <1>4 DEF MoveBot
  <2>4. asked => AsksAck(packet)
    BY DEF AsksAck
  <2>5. srvAwaitsAck' => Acknowledged'
    BY <1>1, <2>1, <2>2, <2>3, <2>4 DEF TeleportInv, Acknowledged
  <2>6. QED
    BY <2>2, <2>3, <2>5 DEF TeleportInv
<1>5. CASE SendPublisher \/ SendAbilities \/ SendSync
  <2>1. PICK packet : toBot' = Append(toBot, packet)
    BY <1>5 DEF SendPublisher, SendAbilities, SendSync, Sends
  <2>2. UNCHANGED <<toServer, srvAwaitsAck>>
    BY <1>5 DEF SendPublisher, SendAbilities, SendSync
  <2>3. Sequential(toBot') /\ Range(toBot') = Range(toBot) \cup {packet}
    BY <2>1, Sent DEF TeleportInv
  <2>4. Acknowledged => Acknowledged'
    BY <1>1, <2>2, <2>3 DEF Acknowledged
  <2>5. QED
    BY <2>2, <2>3, <2>4 DEF TeleportInv
<1>6. QED
  BY <1>2, <1>3, <1>4, <1>5 DEF Server

\* A teleport that waits for its acknowledgement is on one of the four stations of its way,
\* whatever the packets and frames that cross it: TeleportNotLost.
THEOREM TeleportsCorrect == Spec => []TeleportNotLost
<1>1. TeleportInv /\ [Next]_vars => TeleportInv'
  <2> SUFFICES ASSUME TeleportInv, [Next]_vars PROVE TeleportInv'
    OBVIOUS
  <2>1. CASE TicksOver \/ UNCHANGED vars
    <3>1. UNCHANGED <<teleport, tpc, frame, toServer, toBot, srvAwaitsAck>>
      BY <2>1 DEF TicksOver, vars, playerVars, tickVars, serverVars
    <3>2. QED
      BY <3>1 DEF TeleportInv, Acknowledged
  <2>2. QED
    BY <2>1, TeleportTick, TeleportRead, TeleportServe DEF Next
<1>2. TeleportInv => TeleportNotLost
  BY DEF TeleportInv, TeleportNotLost, Acknowledged, AsksAck, Range
<1>3. QED
  BY <1>1, <1>2, TeleportInit, PTL DEF Spec

-----------------------------------------------------------------------------
(* The correction probe. *)

\* The probes sent, and the one in a frame that is half made, are the one probeSent tells of.
Counted ==
    /\ probeSent \in BOOLEAN /\ frame.probe \in BOOLEAN /\ Sequential(probes)
    /\ Len(probes) + (IF tpc = "record" /\ frame.probe THEN 1 ELSE 0) = (IF probeSent THEN 1 ELSE 0)

LEMMA CountedInit == Init => Counted
<1> SUFFICES ASSUME Init PROVE Counted
  OBVIOUS
<1>1. NoFrame.probe = FALSE
  BY DEF NoFrame
<1>2. probeSent = FALSE /\ frame.probe = FALSE /\ probes = <<>> /\ tpc # "record"
  BY <1>1 DEF Init
<1>3. 0 + 0 = 0 /\ Len(<<>>) = 0
  OBVIOUS
<1>4. (IF tpc = "record" /\ frame.probe THEN 1 ELSE 0) = 0 /\ (IF probeSent THEN 1 ELSE 0) = 0
  BY <1>2
<1>5. QED
  BY <1>2, <1>3, <1>4, EmptyChannel, Zenon DEF Counted

LEMMA CountedSnapshot == Counted /\ InputSnapshot => Counted'
<1> SUFFICES ASSUME Counted, InputSnapshot PROVE Counted'
  OBVIOUS
<1>1. /\ probes' = probes /\ tpc = "snap" /\ tpc' = "record"
      /\ frame'.probe = Probing /\ probeSent' = (probeSent \/ Probing)
  BY DEF InputSnapshot, ghostVars
<1>2. /\ Sequential(probes) /\ probeSent \in BOOLEAN /\ Probing \in BOOLEAN
      /\ Len(probes) \in Nat /\ Len(probes) = (IF probeSent THEN 1 ELSE 0)
      /\ (Probing => ~probeSent)
  BY <1>1 DEF Counted, Probing, ProbeAllowed, Sequential
<1>3. frame'.probe \in BOOLEAN /\ probeSent' \in BOOLEAN /\ Sequential(probes')
  BY <1>1, <1>2
<1>4. CASE Probing
  <2>1. Len(probes') = 0 /\ frame'.probe = TRUE /\ probeSent' = TRUE
    BY <1>1, <1>2, <1>4
  <2>2. QED
    BY <1>1, <1>3, <2>1 DEF Counted
<1>5. CASE ~Probing
  <2>1. frame'.probe = FALSE /\ probeSent' = probeSent
    BY <1>1, <1>2, <1>5
  <2>2. QED
    BY <1>1, <1>2, <1>3, <2>1 DEF Counted
<1>6. QED
  BY <1>4, <1>5

LEMMA CountedRecord == Counted /\ RecordAndWrite => Counted'
<1> SUFFICES ASSUME Counted, RecordAndWrite PROVE Counted'
  OBVIOUS
<1>1. /\ UNCHANGED <<probeSent, frame>> /\ tpc = "record" /\ tpc' \in {"readPos", "ticker"}
      /\ probes' = IF frame.probe THEN Append(probes, frame.tick) ELSE probes
  BY DEF RecordAndWrite
<1>2. CASE frame.probe
  <2>1. Sequential(probes) /\ Len(probes) = 0 /\ probeSent = TRUE
    BY <1>1, <1>2 DEF Counted, Sequential
  <2>2. Sequential(probes') /\ Len(probes') = 1
    <3>1. probes' = Append(probes, frame.tick)
      BY <1>1, <1>2
    <3>2. Sequential(probes') /\ Len(probes') = Len(probes) + 1
      BY <2>1, <3>1, Sent
    <3>3. QED
      BY <2>1, <3>2
  <2>3. QED
    BY <1>1, <1>2, <2>1, <2>2 DEF Counted
<1>3. CASE ~frame.probe
  BY <1>1, <1>3 DEF Counted
<1>4. QED
  BY <1>2, <1>3

LEMMA CountedStep == Counted /\ [Next]_vars => Counted'
<1> SUFFICES ASSUME Counted, [Next]_vars PROVE Counted'
  OBVIOUS
<1>1. ASSUME UNCHANGED <<probeSent, frame, probes>>, tpc' = "record" <=> tpc = "record"
      PROVE  Counted'
  BY <1>1 DEF Counted
<1>2. CASE TickLoop
  BY <1>1, <1>2, CountedSnapshot, CountedRecord
  DEF TickLoop, StartWalk, NextInputTick, ActionTick, RequestFlight, ReadPosition, ReadReady,
      StartFly, playerVars, ghostVars
<1>3. CASE Reader
  BY <1>1, <1>3 DEF Reader, CorrectPrediction, Update, SyncOnly, SyncServerTick,
                    AcceptPublisherPosition, SetFlyingConfirmed, playerVars, tickVars, ghostVars
<1>4. CASE Server
  BY <1>1, <1>4 DEF Server, IgnoreFrame, ProcessFrame, MoveBot, SendPublisher, SendAbilities,
                    SendSync, playerVars, tickVars, ghostVars
<1>5. CASE TicksOver \/ UNCHANGED vars
  BY <1>1, <1>5 DEF TicksOver, vars, playerVars, tickVars, ghostVars
<1>6. QED
  BY <1>2, <1>3, <1>4, <1>5 DEF Next

=============================================================================
