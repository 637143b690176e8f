----------------------------- MODULE FleetBots -----------------------------
(***************************************************************************)
(* The fleet with bots that are BotLife's, the contract Instance.tla       *)
(* implements, in place of Fleet's own.  Between the two is the goroutine  *)
(* that launch starts (fleet.go:120-124): it calls runInstance with the    *)
(* fleet's context and then, in a later step, sends what it returned.      *)
(*                                                                         *)
(* bot keeps the meaning it has in Fleet: it follows the bot's life, and   *)
(* becomes "ended" when the result is in the channel.  So seen, the        *)
(* composition implements Fleet: the supervisor, its liveness included,    *)
(* needs no more of its bots than BotLife promises, and it does not matter *)
(* that Fleet lets a bot return and send in one step.                      *)
(***************************************************************************)
EXTENDS Fleet

VARIABLES life, told, err   \* of each bot: BotLife's life, reported and err

lifeVars == <<life, told, err>>
allVars  == <<vars, lifeVars>>

MutParent == ctxDone

\* The context runInstance is given.
BotContext == fleetDone

Life(b) == INSTANCE BotLife WITH
    life <- life[b], cancelled <- BotContext, reported <- told[b], err <- err[b]

InitBots ==
    /\ Init
    /\ life = [b \in Bots |-> "connecting"]
    /\ told = [b \in Bots |-> FALSE]
    /\ err = [b \in Bots |-> "none"]

Running(b) == b \in Live /\ life[b] # "ended"

\* A step of runInstance: one of BotLife's.  A report goes into onlineCh, where it needs room.
RunStep(b) ==
    /\ Running(b)
    /\ \E l \in BotStates, t \in BOOLEAN, e \in BotErr \cup {"none"} :
        /\ life' = [life EXCEPT ![b] = l]
        /\ told' = [told EXCEPT ![b] = t]
        /\ err' = [err EXCEPT ![b] = e]
        /\ bot' = IF l = "ended" THEN bot ELSE [bot EXCEPT ![b] = l]
        /\ onlineAt' = IF l = "ready" THEN onlineAt \cup {b} ELSE onlineAt
        /\ IF t /\ ~told[b]
           THEN Len(onlineCh) < ChannelCapacity /\ onlineCh' = Append(onlineCh, b)
           ELSE UNCHANGED onlineCh
    /\ UNCHANGED <<mainVars, ctxVars, resultCh, loginStagger>>
    /\ Life(b)!Ready \/ Life(b)!Report \/ Life(b)!Fail \/ Life(b)!Leave

Returned(b) == life[b] = "ended"

MutNoError(b) == [bot |-> b, err |-> "none"]
ResultOf(b) == [bot |-> b, err |-> err[b]]

\* resultCh <- instanceResult{...}.
SendResult(b) ==
    /\ b \in Live /\ Returned(b)
    /\ Len(resultCh) < ChannelCapacity
    /\ resultCh' = Append(resultCh, ResultOf(b))
    /\ bot' = [bot EXCEPT ![b] = "ended"]
    /\ UNCHANGED <<mainVars, ctxVars, onlineCh, onlineAt, loginStagger, lifeVars>>

FleetStep == Supervise \/ Signal \/ Propagate \/ Exited

NextBots ==
    \/ FleetStep /\ UNCHANGED lifeVars
    \/ \E b \in Bots : RunStep(b) \/ SendResult(b)

\* Fleet's fairness for the supervisor, BotLife's for the bots, and that a goroutine whose
\* runInstance has returned goes on to send.
FairnessBots ==
    /\ WF_allVars(Supervise /\ UNCHANGED lifeVars)
    /\ WF_allVars(Propagate /\ UNCHANGED lifeVars)
    /\ \A b \in Bots : /\ WF_allVars(RunStep(b) /\ life'[b] = "online")
                       /\ WF_allVars(BotContext /\ RunStep(b) /\ life'[b] = "ended")
                       /\ WF_allVars(SendResult(b))

SpecBots == InitBots /\ [][NextBots]_allVars /\ FairnessBots

-----------------------------------------------------------------------------
TypeOKBots ==
    /\ life \in [Bots -> BotStates \ {"idle"}]
    /\ told \in [Bots -> BOOLEAN]
    /\ err \in [Bots -> BotErr \cup {"none"}]

\* What the goroutine has on its hands between runInstance's return and the send is still
\* true when it is sent: a result without an error comes from a bot whose context is done and
\* that is not between becoming ready and reporting.
PendingResultStands ==
    \A b \in Bots :
        /\ bot[b] = "ended" => life[b] = "ended"
        /\ bot[b] = "idle" => life[b] = "connecting"
        /\ Running(b) => bot[b] = life[b] /\ err[b] = "none"
        /\ b \in Live /\ life[b] = "ended" /\ err[b] = "none" => fleetDone /\ bot[b] # "ready"

\* The supervisor over BotLife's bots behaves as Fleet says, safety and liveness.
ImplementsFleet == Spec

=============================================================================
