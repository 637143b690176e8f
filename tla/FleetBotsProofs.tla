-------------------------- MODULE FleetBotsProofs --------------------------
(***************************************************************************)
(* Theorems about FleetBots.tla, for every Count: what a bot's goroutine   *)
(* holds back stays true until it is sent, and every step of the           *)
(* composition is a step of Fleet or a stutter.  With FleetProofs this     *)
(* carries the safety of the supervisor over to fleets of such bots.       *)
(***************************************************************************)
EXTENDS FleetBots, FleetProofs

\* The domains a step needs, and that nothing comes out of "idle" but by Launch.
BotsInv ==
    /\ bot \in [Bots -> BotStates]
    /\ TypeOKBots
    /\ launched \in Nat
    /\ \A b \in Bots : b > launched => bot[b] = "idle"
    /\ \A b \in Bots : told[b] => life[b] \in {"online", "ended"}
    /\ \A b \in Bots : bot[b] = "idle" => err[b] = "none"
    /\ PendingResultStands

LEMMA BotsInit == InitBots => BotsInv
  BY CountAssumption DEF InitBots, Init, BotsInv, TypeOKBots, PendingResultStands, Running, Live,
     Bots, BotStates, BotErr

\* What a step of runInstance does to the bot and to its life.
LEMMA RunStepCases ==
    ASSUME BotsInv, NEW b \in Bots, RunStep(b)
    PROVE  /\ life' = [life EXCEPT ![b] = life'[b]]
           /\ err' = [err EXCEPT ![b] = err'[b]]
           /\ TypeOKBots'
           /\ \A c \in Bots : told'[c] => life'[c] \in {"online", "ended"}
           /\ UNCHANGED <<mainVars, ctxVars, resultCh, loginStagger>>
           /\ \/ bot[b] = "connecting" /\ BotReady(b) /\ life'[b] = "ready" /\ err'[b] = "none"
              \/ bot[b] = "ready" /\ BotReport(b) /\ life'[b] = "online" /\ err'[b] = "none"
              \/ /\ life'[b] = "ended" /\ UNCHANGED vars
                 /\ err'[b] = "none" => fleetDone /\ bot[b] # "ready"
<1>0. Running(b) /\ bot[b] = life[b] /\ err[b] = "none" /\ b \in Live
  BY DEF RunStep, BotsInv, PendingResultStands, Running
<1>1. PICK l \in BotStates, t \in BOOLEAN, e \in BotErr \cup {"none"} :
        /\ life' = [life EXCEPT ![b] = l]
        /\ told' = [told EXCEPT ![b] = t]
        /\ err' = [err EXCEPT ![b] = e]
        /\ bot' = IF l = "ended" THEN bot ELSE [bot EXCEPT ![b] = l]
        /\ onlineAt' = IF l = "ready" THEN onlineAt \cup {b} ELSE onlineAt
        /\ IF t /\ ~told[b]
           THEN Len(onlineCh) < ChannelCapacity /\ onlineCh' = Append(onlineCh, b)
           ELSE UNCHANGED onlineCh
  BY DEF RunStep
<1>2. life'[b] = l /\ told'[b] = t /\ err'[b] = e
  BY <1>1 DEF BotsInv, TypeOKBots
<1>3. UNCHANGED <<mainVars, ctxVars, resultCh, loginStagger>>
  BY DEF RunStep
<1>4. /\ TypeOKBots' /\ life' = [life EXCEPT ![b] = life'[b]] /\ err' = [err EXCEPT ![b] = err'[b]]
       /\ \A c \in Bots \ {b} : told'[c] => life'[c] \in {"online", "ended"}
  <2>1. l # "idle"
    BY <1>0, <1>2 DEF RunStep, Life!Ready, Life!Report, Life!Fail, Life!Leave
  <2>2. QED
    BY <1>1, <1>2, <2>1 DEF BotsInv, TypeOKBots
<1>5. CASE Life(b)!Ready
  <2>1. l = "ready" /\ t = told[b] /\ e = "none" /\ bot[b] = "connecting"
    BY <1>0, <1>2, <1>5 DEF Life!Ready
  <2>2. BotReady(b)
    BY <1>1, <1>3, <2>1 DEF BotReady, chVars
  <2>3. QED
    BY <1>0, <1>2, <1>3, <1>4, <2>1, <2>2 DEF BotsInv
<1>6. CASE Life(b)!Report
  <2>1. l = "online" /\ (t = TRUE \/ fleetDone) /\ e = "none" /\ bot[b] = "ready" /\ ~told[b]
    BY <1>0, <1>2, <1>6 DEF Life!Report, BotContext, BotsInv
  <2>2. BotReport(b)
    BY <1>1, <1>3, <2>1 DEF BotReport
  <2>3. QED
    BY <1>0, <1>2, <1>3, <1>4, <2>1, <2>2 DEF BotsInv
<1>7. CASE Life(b)!Fail \/ Life(b)!Leave
  <2>1. l = "ended" /\ t = told[b] /\ (e = "none" => fleetDone /\ bot[b] # "ready")
    BY <1>0, <1>2, <1>7 DEF Life!Fail, Life!Leave, BotContext, BotErr
  <2>2. QED
    BY <1>1, <1>2, <1>3, <1>4, <2>1 DEF BotsInv, vars, chVars, botVars, mainVars, ctxVars
<1>8. QED
  BY <1>5, <1>6, <1>7 DEF RunStep

LEMMA BotsStep == BotsInv /\ [NextBots]_allVars => BotsInv'
<1> SUFFICES ASSUME BotsInv, [NextBots]_allVars PROVE BotsInv'
    OBVIOUS
<1>1. CASE FleetStep /\ UNCHANGED lifeVars
  <2>1. CASE Launch
    <3>1. CASE launched' = launched + 1
      <4>1. bot' = [bot EXCEPT ![launched + 1] = "connecting"] /\ UNCHANGED fleetDone
        BY <2>1, <3>1 DEF Launch, BotsInv, ctxVars
      <4>2. \A c \in Bots : bot'[c] = bot[c] \/ (bot[c] = "idle" /\ bot'[c] = "connecting")
        BY <4>1 DEF BotsInv, Bots
      <4>3. bot' \in [Bots -> BotStates]
        BY <4>1 DEF BotsInv, BotStates
      <4>4. \A c \in Bots : c > launched' => bot'[c] = "idle"
        BY <3>1, <4>1 DEF BotsInv, Bots
      <4>5. PendingResultStands'
        <5>1. UNCHANGED <<life, err, fleetDone>> /\ PendingResultStands
          BY <1>1, <4>1 DEF lifeVars, BotsInv
        <5>2. \A c \in Bots : bot[c] = "idle" => err[c] = "none"
          BY DEF BotsInv
        <5>3. QED
          BY <4>2, <5>1, <5>2 DEF PendingResultStands, Running, Live
      <4>6. QED
        BY <1>1, <3>1, <4>2, <4>3, <4>4, <4>5 DEF BotsInv, TypeOKBots, lifeVars
    <3>2. CASE UNCHANGED <<launched, bot>>
      BY <1>1, <2>1, <3>2 DEF Launch, BotsInv, PendingResultStands, Running, Live, TypeOKBots,
         lifeVars, ctxVars
    <3>3. QED
      BY <2>1, <3>1, <3>2 DEF Launch
  <2>2. CASE ~Launch
    <3>1. UNCHANGED <<bot, launched>> /\ (fleetDone => fleetDone')
      BY <1>1, <2>2 DEF FleetStep, Supervise, Signal, Propagate, Exited, EmitStarting, CheckSignal,
         StaggerTimer, RecordOnline, TakeResult, SeeSignal, EmitOnline, Cancel, DrainResult,
         DrainDone, EmitStats, StatsDone, EmitShutdown, botVars, mainVars, ctxVars, vars
    <3>2. QED
      BY <1>1, <3>1 DEF BotsInv, PendingResultStands, Running, Live, TypeOKBots, lifeVars
  <2>3. QED
    BY <2>1, <2>2
<1>2. ASSUME NEW b \in Bots, RunStep(b) PROVE BotsInv'
  <2> USE <1>2
  <2>1. UNCHANGED <<launched, fleetDone>> /\ TypeOKBots'
    BY RunStepCases DEF mainVars, ctxVars
  <2>2. bot' \in [Bots -> BotStates]
    BY RunStepCases DEF BotReady, BotReport, BotsInv, BotStates, vars, botVars
  <2>3. bot[b] \notin {"idle", "ended"} /\ b <= launched
    BY DEF RunStep, Running, Live, BotsInv, Bots
  <2>4. \A c \in Bots \ {b} : bot'[c] = bot[c] /\ life'[c] = life[c] /\ err'[c] = err[c]
    BY RunStepCases DEF BotReady, BotReport, BotsInv, TypeOKBots, vars, botVars
  <2>5. PendingResultStands'
    <3>1. ASSUME NEW c \in Bots \ {b}
          PROVE  /\ bot'[c] = "ended" => life'[c] = "ended"
                 /\ bot'[c] = "idle" => life'[c] = "connecting"
                 /\ Running(c)' => bot'[c] = life'[c] /\ err'[c] = "none"
                 /\ c \in Live' /\ life'[c] = "ended" /\ err'[c] = "none" => fleetDone' /\ bot'[c] # "ready"
      BY <2>1, <2>4 DEF BotsInv, PendingResultStands, Running, Live
    <3>2. /\ bot'[b] # "ended" /\ bot'[b] # "idle"
          /\ life'[b] # "ended" => bot'[b] = life'[b] /\ err'[b] = "none"
          /\ life'[b] = "ended" /\ err'[b] = "none" => fleetDone' /\ bot'[b] # "ready"
      BY <2>1, <2>3, RunStepCases DEF BotReady, BotReport, BotsInv, vars, botVars
    <3>3. QED
      BY <3>1, <3>2 DEF PendingResultStands, Running
  <2>6. \A c \in Bots : bot'[c] = "idle" => err'[c] = "none"
    <3>1. bot'[b] # "idle"
      BY <2>3, RunStepCases DEF BotReady, BotReport, BotsInv, vars, botVars
    <3>2. QED
      BY <2>4, <3>1 DEF BotsInv
  <2>7. QED
    BY <2>1, <2>2, <2>3, <2>4, <2>5, <2>6, RunStepCases DEF BotsInv
<1>3. ASSUME NEW b \in Bots, SendResult(b) PROVE BotsInv'
  <2>1. /\ bot' = [bot EXCEPT ![b] = "ended"] /\ life[b] = "ended" /\ b \in Live
        /\ UNCHANGED <<life, told, err, launched, fleetDone>>
    BY <1>3 DEF SendResult, Returned, lifeVars, mainVars, ctxVars
  <2>2. QED
    BY <2>1 DEF BotsInv, TypeOKBots, PendingResultStands, Running, Live, BotStates
<1>4. CASE UNCHANGED allVars
  BY <1>4 DEF allVars, vars, lifeVars, mainVars, botVars, ctxVars, BotsInv, TypeOKBots,
     PendingResultStands, Running, Live
<1>5. QED
  BY <1>1, <1>2, <1>3, <1>4 DEF NextBots

\* A result without an error comes from a bot that was cancelled and was not about to report,
\* although it is sent some time after runInstance returned it.
THEOREM PendingCorrect == SpecBots => []PendingResultStands
<1>1. SpecBots => []BotsInv
  BY BotsInit, BotsStep, PTL DEF SpecBots
<1>2. BotsInv => PendingResultStands
  BY DEF BotsInv
<1>3. QED
  BY <1>1, <1>2, PTL

\* A fleet of bots that keep BotLife's contract takes only steps of Fleet: the atomic return
\* and send of Fleet's bots loses no behaviour.
THEOREM BotsRefineFleet == SpecBots => Init /\ [][Next]_vars
<1>1. InitBots => Init
  BY DEF InitBots
<1>2. BotsInv /\ [NextBots]_allVars => [Next]_vars
  <2> SUFFICES ASSUME BotsInv, [NextBots]_allVars PROVE [Next]_vars
      OBVIOUS
  <2>1. CASE FleetStep
    BY <2>1 DEF FleetStep, Next
  <2>2. ASSUME NEW b \in Bots, RunStep(b) PROVE [Next]_vars
    BY <2>2, RunStepCases DEF Next, BotStep
  <2>3. ASSUME NEW b \in Bots, SendResult(b) PROVE [Next]_vars
    <3>1. err[b] \in BotErr \cup {"none"} /\ MayReturn(b, err[b])
      BY <2>3 DEF SendResult, Returned, BotsInv, TypeOKBots, PendingResultStands, MayReturn
    <3>2. BotReturn(b, err[b])
      BY <2>3, <3>1 DEF SendResult, ResultOf, BotReturn
    <3>3. QED
      BY <3>1, <3>2 DEF Next, BotStep
  <2>4. CASE UNCHANGED allVars
    BY <2>4 DEF allVars
  <2>5. QED
    BY <2>1, <2>2, <2>3, <2>4 DEF NextBots
<1>3. SpecBots => []BotsInv
  BY BotsInit, BotsStep, PTL DEF SpecBots
<1>4. QED
  BY <1>1, <1>2, <1>3, PTL DEF SpecBots

\* What the supervisor guarantees, it guarantees of such bots too: their results are all
\* collected, no goroutine of theirs runs on or waits for it, and the first error stands.
THEOREM SafeWithBotLife ==
    SpecBots => [](EveryBotCollected /\ SendsNeverBlock /\ FirstErrorIsReported)
<1> DEFINE Inv == TypeOK /\ LaunchInv /\ OnlineInv /\ ResultInv /\ ErrorInv
<1>1. Init => Inv
  BY LaunchInit, OnlineInit, ResultInit, ErrorInit
<1>2. Inv /\ [Next]_vars => Inv'
  BY LaunchStep, OnlineStep, ResultStep, ErrorStep
<1>3. Inv => EveryBotCollected /\ SendsNeverBlock /\ FirstErrorIsReported
  BY Collected, RoomLeft DEF ErrorInv
<1> HIDE DEF Inv
<1>4. QED
  BY <1>1, <1>2, <1>3, BotsRefineFleet, PTL

=============================================================================
