---------------------------- MODULE FleetProofs ----------------------------
(***************************************************************************)
(* Theorems about Fleet.tla, for every Count.  The inductive invariant     *)
(* comes in four parts, each proved on top of the ones before it: types    *)
(* and the launch loop, the online reports, the results, and the error.    *)
(***************************************************************************)
EXTENDS Fleet, FiniteSetTheorems, TLAPS

-----------------------------------------------------------------------------
(* Types, and which bots have been launched. *)

\* The bots launched so far are 1..launched, and the loop is left when all are.
LaunchInv ==
    /\ \A b \in Bots : bot[b] = "idle" <=> b > launched
    /\ pc = "start" => launched = 0
    /\ pc \in {"loop", "launch", "stagger"} => launched < Count
    /\ pc \in {"await", "active"} => launched = Count

LEMMA LaunchInit == Init => TypeOK /\ LaunchInv
<1> SUFFICES ASSUME Init PROVE TypeOK /\ LaunchInv
    OBVIOUS
<1> USE CountAssumption DEF Init
<1>1. TypeOK
  <2>1. onlineCh \in Seq(Bots) /\ resultCh \in Seq(Result) /\ results \in Seq(Result)
    OBVIOUS
  <2>2. bot \in [Bots -> BotStates] /\ launched \in 0..Count
    BY DEF BotStates
  <2>3. QED
    BY <2>1, <2>2 DEF TypeOK, Err, Phases
<1>2. LaunchInv
  BY DEF LaunchInv, Bots
<1>3. QED BY <1>1, <1>2

\* What receiving from a nonempty channel gives.
LEMMA Received ==
    ASSUME NEW S, NEW s \in Seq(S), s # <<>>
    PROVE  /\ Head(s) \in S
           /\ Head(s) = s[1]
           /\ Tail(s) \in Seq(S)
           /\ Len(s) \in Nat /\ Len(s) > 0
           /\ Len(Tail(s)) = Len(s) - 1
           /\ \A i \in 1..Len(Tail(s)) : Tail(s)[i] = s[i + 1]
OBVIOUS

LEMMA LaunchStep ==
    TypeOK /\ LaunchInv /\ [Next]_vars => TypeOK' /\ LaunchInv'
<1> SUFFICES ASSUME TypeOK, LaunchInv, [Next]_vars
             PROVE  TypeOK' /\ LaunchInv'
    OBVIOUS
<1> USE CountAssumption
    DEF TypeOK, LaunchInv, Phases, mainVars, ctxVars, chVars, botVars
<1>1. CASE EmitStarting
  <2>1. /\ pc' \in {"loop", "returned"} /\ firstErr' \in Err /\ outputFailed' \in BOOLEAN
        /\ fleetDone' \in BOOLEAN
    BY <1>1 DEF EmitStarting, Err
  <2>2. launched = 0
    BY <1>1 DEF EmitStarting
  <2>3. QED
    BY <1>1, <2>1, <2>2 DEF EmitStarting
<1>2. CASE CheckSignal
  BY <1>2 DEF CheckSignal, Finish, SignalSeen, Err
<1>3. CASE Launch
  <2>1. CASE Finish("output") /\ outputFailed' = TRUE /\ UNCHANGED <<launched, bot>>
    BY <1>3, <2>1 DEF Launch, Finish, Err
  <2>2. CASE /\ launched' = launched + 1
             /\ bot' = [bot EXCEPT ![launched + 1] = "connecting"]
             /\ pc' = AfterLaunch(launched + 1)
             /\ UNCHANGED <<firstErr, outputFailed>>
    <3>1. launched + 1 \in Bots /\ launched + 1 \in 0..Count
      BY <1>3 DEF Launch, Bots
    <3>2. TypeOK'
      BY <1>3, <2>2, <3>1 DEF Launch, AfterLaunch, BotStates
    <3>3. LaunchInv'
      BY <1>3, <2>2, <3>1 DEF Launch, AfterLaunch, Bots
    <3>4. QED BY <3>2, <3>3
  <2>3. QED BY <1>3, <2>1, <2>2 DEF Launch
<1>4. CASE StaggerTimer
  BY <1>4 DEF StaggerTimer
<1>5. CASE RecordOnline
  <2>1. Head(onlineCh) \in Bots /\ Tail(onlineCh) \in Seq(Bots)
    BY <1>5, Received DEF RecordOnline
  <2>2. recorded' \subseteq Bots /\ onlineCount' \in Nat
    BY <1>5, <2>1 DEF RecordOnline, Counted
  <2>3. EmitThen(IF pc = "stagger" THEN "loop" ELSE "await")
    BY <1>5 DEF RecordOnline
  <2>4. firstErr' \in Err /\ outputFailed' \in BOOLEAN
    BY <2>3 DEF EmitThen, Finish, Err
  <2>5. \/ pc' = "loop" /\ pc = "stagger"
        \/ pc' = "await" /\ pc = "await"
        \/ pc' = "cancel"
    BY <1>5, <2>3 DEF RecordOnline, EmitThen, Finish
  <2>6. TypeOK'
    BY <1>5, <2>1, <2>2, <2>4, <2>5 DEF RecordOnline
  <2>7. LaunchInv'
    BY <1>5, <2>5 DEF RecordOnline
  <2>8. QED BY <2>6, <2>7
<1>6. CASE TakeResult
  <2>1. Head(resultCh) \in Result /\ Tail(resultCh) \in Seq(Result)
    BY <1>6, Received DEF TakeResult
  <2>2. Append(results, Head(resultCh)) \in Seq(Result)
    BY <2>1
  <2>3. ResultErr(Head(resultCh)) \in Err
    BY <2>1 DEF ResultErr, Result, Err
  <2>4. QED
    BY <1>6, <2>1, <2>2, <2>3 DEF TakeResult, Finish
<1>7. CASE SeeSignal
  BY <1>7 DEF SeeSignal, Finish, Err
<1>8. CASE EmitOnline
  BY <1>8 DEF EmitOnline, EmitThen, Finish, Err
<1>9. CASE Cancel \/ DrainDone
  BY <1>9 DEF Cancel, DrainDone
<1>10. CASE DrainResult
  <2>1. Head(resultCh) \in Result /\ Tail(resultCh) \in Seq(Result)
    BY <1>10, Received DEF DrainResult
  <2>2. Append(results, Head(resultCh)) \in Seq(Result)
    BY <2>1
  <2>3. KeepFirst(Head(resultCh).err) \in Err
    BY <2>1 DEF KeepFirst, Result, Err
  <2>4. QED
    BY <1>10, <2>1, <2>2, <2>3 DEF DrainResult
<1>11. CASE EmitStats
  <2>1. KeepFirst("output") \in Err
    BY DEF KeepFirst, Err
  <2>2. CASE UNCHANGED <<firstErr, outputFailed>>
    BY <1>11, <2>2 DEF EmitStats
  <2>3. CASE firstErr' = KeepFirst("output") /\ outputFailed' = TRUE
    BY <1>11, <2>1, <2>3 DEF EmitStats
  <2>4. QED
    BY <1>11, <2>2, <2>3 DEF EmitStats
<1>12. CASE StatsDone
  BY <1>12 DEF StatsDone, Reason
<1>13. CASE EmitShutdown
  BY <1>13 DEF EmitShutdown, KeepFirst, Err
<1>14. CASE Signal \/ Propagate
  <2>1. CASE Signal
    BY <2>1 DEF Signal
  <2>2. CASE Propagate
    BY <2>2 DEF Propagate
  <2>3. QED BY <1>14, <2>1, <2>2
<1>15. ASSUME NEW b \in Bots, BotReady(b) \/ BotReport(b)
       PROVE  TypeOK' /\ LaunchInv'
  <2>1. bot' \in [Bots -> BotStates] /\ onlineAt' \subseteq Bots
    BY <1>15 DEF BotReady, BotReport, BotStates
  <2>2. onlineCh' \in Seq(Bots)
    <3>1. Append(onlineCh, b) \in Seq(Bots)
      OBVIOUS
    <3>2. QED
      BY <1>15, <3>1 DEF BotReady, BotReport
  <2>3. \A c \in Bots : bot'[c] = "idle" <=> bot[c] = "idle"
    BY <1>15 DEF BotReady, BotReport
  <2>4. QED
    BY <1>15, <2>1, <2>2, <2>3 DEF BotReady, BotReport
<1>16. ASSUME NEW b \in Bots, NEW err \in BotErr \cup {"none"}, BotReturn(b, err)
       PROVE  TypeOK' /\ LaunchInv'
  <2>1. [bot |-> b, err |-> err] \in Result
    BY <1>16 DEF Result
  <2>2. bot' \in [Bots -> BotStates]
    BY <1>16 DEF BotReturn, BotStates
  <2>3. resultCh' \in Seq(Result)
    BY <1>16, <2>1 DEF BotReturn
  <2>4. \A c \in Bots : bot'[c] = "idle" <=> bot[c] = "idle"
    BY <1>16 DEF BotReturn, Live
  <2>5. QED
    BY <1>16, <2>2, <2>3, <2>4 DEF BotReturn
<1>17. CASE UNCHANGED vars
  BY <1>17 DEF vars
<1>18. QED
  BY <1>1, <1>2, <1>3, <1>4, <1>5, <1>6, <1>7, <1>8, <1>9, <1>10, <1>11, <1>12, <1>13,
     <1>14, <1>15, <1>16, <1>17
  DEF Next, Supervise, BotStep, Exited

\* The type invariant of the supervisor, for any number of bots.
THEOREM TypeCorrect == Spec => []TypeOK
<1>1. Spec => [](TypeOK /\ LaunchInv)
  BY LaunchInit, LaunchStep, PTL DEF Spec
<1>2. QED
  BY <1>1, PTL

-----------------------------------------------------------------------------
(* The online reports: what the channel and the counter stand for. *)

\* Each report in the channel is of a different bot, one not counted yet; the counter is
\* the number of bots counted, and each of them has been online.
OnlineInv ==
    /\ \A i \in 1..Len(onlineCh) : /\ onlineCh[i] \in onlineAt \ recorded
                                   /\ bot[onlineCh[i]] \in {"online", "ended"}
    /\ \A i, j \in 1..Len(onlineCh) : onlineCh[i] = onlineCh[j] => i = j
    /\ recorded \subseteq onlineAt
    /\ \A b \in recorded : bot[b] \in {"online", "ended"}
    /\ \A b \in Bots : bot[b] = "ready" => b \in onlineAt
    /\ IsFiniteSet(recorded)
    /\ onlineCount = Cardinality(recorded)
    /\ announced => recorded = Bots

LEMMA OnlineInit == Init => OnlineInv
<1> SUFFICES ASSUME Init PROVE OnlineInv
    OBVIOUS
<1>1. IsFiniteSet({}) /\ Cardinality({}) = 0
  BY FS_EmptySet
<1>2. QED
  BY <1>1 DEF Init, OnlineInv

\* Only Count different bots make the counter reach Count.
LEMMA CountedAll ==
    ASSUME NEW R \in SUBSET Bots, Cardinality(R) = Count
    PROVE  R = Bots
<1>1. IsFiniteSet(Bots) /\ Cardinality(Bots) = Count
  BY CountAssumption, FS_Interval DEF Bots
<1>2. QED
  BY <1>1, FS_Subset

LEMMA OnlineStep ==
    TypeOK /\ LaunchInv /\ OnlineInv /\ [Next]_vars => OnlineInv'
<1> SUFFICES ASSUME TypeOK, LaunchInv, OnlineInv, [Next]_vars
             PROVE  OnlineInv'
    OBVIOUS
<1> DEFINE Same == UNCHANGED <<onlineCh, recorded, onlineCount, announced, botVars>>
<1>1. ASSUME Same PROVE OnlineInv'
  BY <1>1 DEF OnlineInv, botVars
<1>2. CASE Launch
  <2>1. CASE UNCHANGED bot
    BY <1>1, <1>2, <2>1 DEF Launch, chVars, botVars
  <2>2. CASE bot' = [bot EXCEPT ![launched + 1] = "connecting"]
    <3>1. launched + 1 \in Bots /\ bot[launched + 1] = "idle"
      BY <1>2, CountAssumption DEF Launch, TypeOK, LaunchInv, Bots
    <3>2. UNCHANGED <<onlineCh, recorded, onlineCount, announced, onlineAt>>
      BY <1>2 DEF Launch, chVars
    <3>3. \A b \in Bots : bot[b] # "idle" => bot'[b] = bot[b]
      BY <2>2, <3>1 DEF TypeOK
    <3>4. \A b \in Bots : bot'[b] = "ready" => bot[b] = "ready"
      BY <2>2, <3>1 DEF TypeOK
    <3>5. \A i \in 1..Len(onlineCh) : onlineCh[i] \in Bots
      BY DEF TypeOK
    <3>6. \A i \in 1..Len(onlineCh) : bot'[onlineCh[i]] \in {"online", "ended"}
      BY <3>3, <3>5 DEF OnlineInv
    <3>7. \A b \in recorded : bot'[b] \in {"online", "ended"}
      BY <3>3 DEF OnlineInv, TypeOK
    <3>8. QED
      BY <3>2, <3>4, <3>6, <3>7 DEF OnlineInv
  <2>3. QED
    BY <1>2, <2>1, <2>2 DEF Launch
<1>3. CASE RecordOnline
  <2> DEFINE h == Head(onlineCh)
  <2>1. /\ h \in Bots /\ h = onlineCh[1]
        /\ Len(onlineCh) \in Nat /\ Len(onlineCh) > 0
        /\ Len(Tail(onlineCh)) = Len(onlineCh) - 1
        /\ \A i \in 1..Len(Tail(onlineCh)) : Tail(onlineCh)[i] = onlineCh[i + 1]
    BY <1>3, Received DEF RecordOnline, TypeOK
  <2>2. /\ onlineCh' = Tail(onlineCh)
        /\ recorded' = recorded \cup {h}
        /\ onlineCount' = onlineCount + 1
        /\ UNCHANGED <<announced, bot, onlineAt>>
    BY <1>3 DEF RecordOnline, Counted, botVars
  <2>3. /\ h \in onlineAt \ recorded
        /\ bot[h] \in {"online", "ended"}
    BY <2>1 DEF OnlineInv
  <2>4. \A i \in 1..Len(onlineCh') : /\ onlineCh'[i] \in onlineAt \ recorded'
                                     /\ bot[onlineCh'[i]] \in {"online", "ended"}
    <3> TAKE i \in 1..Len(onlineCh')
    <3>1. i + 1 \in 1..Len(onlineCh) /\ 1 \in 1..Len(onlineCh) /\ onlineCh'[i] = onlineCh[i + 1]
      BY <2>1, <2>2
    <3>2. onlineCh[i + 1] # h
      BY <2>1, <3>1 DEF OnlineInv
    <3>3. QED
      BY <2>2, <3>1, <3>2 DEF OnlineInv
  <2>5. \A i, j \in 1..Len(onlineCh') : onlineCh'[i] = onlineCh'[j] => i = j
    <3> TAKE i, j \in 1..Len(onlineCh')
    <3>1. /\ i + 1 \in 1..Len(onlineCh) /\ onlineCh'[i] = onlineCh[i + 1]
          /\ j + 1 \in 1..Len(onlineCh) /\ onlineCh'[j] = onlineCh[j + 1]
      BY <2>1, <2>2
    <3>2. onlineCh[i + 1] = onlineCh[j + 1] => i + 1 = j + 1
      BY <3>1 DEF OnlineInv
    <3>3. QED
      BY <2>1, <2>2, <3>1, <3>2
  <2>6. IsFiniteSet(recorded') /\ Cardinality(recorded') = onlineCount'
    BY <2>2, <2>3, FS_AddElement DEF OnlineInv
  <2>7. announced => recorded' = Bots
    BY <2>1, <2>2 DEF OnlineInv
  <2>8. QED
    BY <2>2, <2>3, <2>4, <2>5, <2>6, <2>7 DEF OnlineInv
<1>4. CASE EmitOnline
  <2>1. UNCHANGED <<onlineCh, recorded, onlineCount, botVars>>
    BY <1>4 DEF EmitOnline, chVars
  <2>2. recorded = Bots
    BY <1>4, CountedAll DEF EmitOnline, AllOnline, OnlineInv, TypeOK
  <2>3. QED
    BY <2>1, <2>2 DEF OnlineInv, botVars
<1>5. ASSUME NEW b \in Bots, BotReady(b) PROVE OnlineInv'
  <2>1. /\ bot[b] = "connecting"
        /\ bot' = [bot EXCEPT ![b] = "ready"]
        /\ onlineAt' = onlineAt \cup {b}
        /\ UNCHANGED <<onlineCh, recorded, onlineCount, announced>>
    BY <1>5 DEF BotReady, mainVars, chVars
  <2>2. \A c \in Bots : bot[c] \in {"online", "ended"} => bot'[c] = bot[c]
    BY <2>1 DEF TypeOK
  <2>3. \A c \in Bots : bot'[c] = "ready" => c = b \/ bot[c] = "ready"
    BY <2>1 DEF TypeOK
  <2>4. QED
    BY <2>1, <2>2, <2>3 DEF OnlineInv, TypeOK
<1>6. ASSUME NEW b \in Bots, BotReport(b) PROVE OnlineInv'
  <2>1. /\ bot[b] = "ready"
        /\ bot' = [bot EXCEPT ![b] = "online"]
        /\ UNCHANGED <<recorded, onlineCount, announced, onlineAt>>
    BY <1>6 DEF BotReport, mainVars
  <2>2. \A c \in Bots : bot[c] \in {"online", "ended"} => bot'[c] = bot[c]
    BY <2>1 DEF TypeOK
  <2>3. \A c \in Bots : bot'[c] = "ready" => bot[c] = "ready"
    BY <2>1 DEF TypeOK
  <2>4. CASE UNCHANGED onlineCh
    BY <2>1, <2>2, <2>3, <2>4 DEF OnlineInv, TypeOK
  <2>5. CASE onlineCh' = Append(onlineCh, b)
    <3>1. /\ Len(onlineCh) \in Nat
          /\ Len(onlineCh') = Len(onlineCh) + 1
          /\ \A i \in 1..Len(onlineCh) : onlineCh'[i] = onlineCh[i]
          /\ onlineCh'[Len(onlineCh) + 1] = b
      BY <2>5 DEF TypeOK
    <3>2. /\ b \in onlineAt \ recorded
          /\ bot'[b] = "online"
          /\ \A i \in 1..Len(onlineCh) : onlineCh[i] # b
      BY <2>1 DEF OnlineInv, TypeOK
    <3>3. \A i \in 1..Len(onlineCh') : i \in 1..Len(onlineCh) \/ i = Len(onlineCh) + 1
      BY <3>1
    <3>4. \A i \in 1..Len(onlineCh') : /\ onlineCh'[i] \in onlineAt' \ recorded'
                                       /\ bot'[onlineCh'[i]] \in {"online", "ended"}
      <4> TAKE i \in 1..Len(onlineCh')
      <4>1. CASE i \in 1..Len(onlineCh)
        BY <2>1, <2>2, <3>1, <4>1 DEF OnlineInv, TypeOK
      <4>2. CASE i = Len(onlineCh) + 1
        BY <2>1, <3>1, <3>2, <4>2
      <4>3. QED BY <3>3, <4>1, <4>2
    <3>5. \A i, j \in 1..Len(onlineCh') : onlineCh'[i] = onlineCh'[j] => i = j
      BY <3>1, <3>2, <3>3 DEF OnlineInv
    <3>6. QED
      BY <2>1, <2>2, <2>3, <3>4, <3>5 DEF OnlineInv, TypeOK
  <2>6. QED
    BY <1>6, <2>4, <2>5 DEF BotReport
<1>7. ASSUME NEW b \in Bots, NEW err \in BotErr \cup {"none"}, BotReturn(b, err)
      PROVE  OnlineInv'
  <2>1. /\ bot' = [bot EXCEPT ![b] = "ended"]
        /\ UNCHANGED <<onlineCh, recorded, onlineCount, announced, onlineAt>>
    BY <1>7 DEF BotReturn, mainVars
  <2>2. \A c \in Bots : bot[c] \in {"online", "ended"} => bot'[c] \in {"online", "ended"}
    BY <2>1 DEF TypeOK
  <2>3. \A c \in Bots : bot'[c] = "ready" => bot[c] = "ready"
    BY <2>1 DEF TypeOK
  <2>4. QED
    BY <2>1, <2>2, <2>3 DEF OnlineInv, TypeOK
<1>8. CASE EmitStarting \/ CheckSignal \/ StaggerTimer
  BY <1>1, <1>8 DEF EmitStarting, CheckSignal, StaggerTimer, chVars, botVars
<1>9. CASE TakeResult \/ SeeSignal \/ Cancel \/ DrainResult \/ DrainDone
  BY <1>1, <1>9 DEF TakeResult, SeeSignal, Cancel, DrainResult, DrainDone, chVars, botVars
<1>10. CASE EmitStats \/ StatsDone \/ EmitShutdown
  BY <1>1, <1>10 DEF EmitStats, StatsDone, EmitShutdown, chVars, botVars
<1>11. CASE Signal \/ Propagate \/ UNCHANGED vars
  BY <1>1, <1>11 DEF Signal, Propagate, vars, mainVars, chVars, botVars
<1>12. QED
  BY <1>2, <1>3, <1>4, <1>5, <1>6, <1>7, <1>8, <1>9, <1>10, <1>11
  DEF Next, Supervise, BotStep, Exited

\* fleet_online is never announced unless every bot of the fleet has been online.
THEOREM OnlineCorrect == Spec => []FleetOnlineMeansAllOnline
<1>1. Spec => [](TypeOK /\ LaunchInv /\ OnlineInv)
  BY LaunchInit, LaunchStep, OnlineInit, OnlineStep, PTL DEF Spec
<1>2. TypeOK /\ OnlineInv => FleetOnlineMeansAllOnline
  BY DEF TypeOK, OnlineInv, FleetOnlineMeansAllOnline
<1>3. QED
  BY <1>1, <1>2, PTL

-----------------------------------------------------------------------------
(* The results: each bot that ended sent exactly one, and none is lost. *)

BotsApart(s) == \A i, j \in 1..Len(s) : s[i].bot = s[j].bot => i = j

ResultInv ==
    /\ \A i \in 1..Len(results) : bot[results[i].bot] = "ended"
    /\ \A i \in 1..Len(resultCh) : bot[resultCh[i].bot] = "ended"
    /\ BotsApart(results)
    /\ BotsApart(resultCh)
    /\ \A i \in 1..Len(results), j \in 1..Len(resultCh) : results[i].bot # resultCh[j].bot
    /\ pc \in {"start", "loop", "launch", "stagger", "await", "active"} => results = <<>>
    /\ pc \in {"report", "shutdown", "returned"} => Len(results) = launched

LEMMA ResultInit == Init => ResultInv
BY DEF Init, ResultInv, BotsApart

\* Receiving a result moves it from the channel to the end of results.
LEMMA ResultMoved ==
    ASSUME TypeOK, ResultInv, resultCh # <<>>,
           resultCh' = Tail(resultCh), results' = Append(results, Head(resultCh)),
           UNCHANGED bot
    PROVE  /\ \A i \in 1..Len(results') : bot'[results'[i].bot] = "ended"
           /\ \A i \in 1..Len(resultCh') : bot'[resultCh'[i].bot] = "ended"
           /\ BotsApart(results')
           /\ BotsApart(resultCh')
           /\ \A i \in 1..Len(results'), j \in 1..Len(resultCh') :
                 results'[i].bot # resultCh'[j].bot
<1> DEFINE n == Len(results)
           h == Head(resultCh)
<1>1. /\ h = resultCh[1]
      /\ Len(resultCh) \in Nat /\ 1 \in 1..Len(resultCh)
      /\ Len(resultCh') = Len(resultCh) - 1
      /\ \A i \in 1..Len(resultCh') : i + 1 \in 1..Len(resultCh) /\ resultCh'[i] = resultCh[i + 1]
  BY Received DEF TypeOK
<1>2. /\ n \in Nat /\ Len(results') = n + 1
      /\ \A i \in 1..n : results'[i] = results[i]
      /\ results'[n + 1] = h
  BY DEF TypeOK
<1>3. \A i \in 1..Len(results') : i \in 1..n \/ i = n + 1
  BY <1>2
<1>4. \A i \in 1..Len(results') : bot'[results'[i].bot] = "ended"
  BY <1>1, <1>2, <1>3 DEF ResultInv
<1>5. \A i \in 1..Len(resultCh') : bot'[resultCh'[i].bot] = "ended"
  BY <1>1 DEF ResultInv
<1>6. \A i \in 1..n : results[i].bot # h.bot
  BY <1>1 DEF ResultInv
<1>7. BotsApart(results')
  BY <1>2, <1>3, <1>6 DEF ResultInv, BotsApart
<1>8. BotsApart(resultCh')
  <2> SUFFICES ASSUME NEW i \in 1..Len(resultCh'), NEW j \in 1..Len(resultCh'),
                      resultCh'[i].bot = resultCh'[j].bot
               PROVE  i = j
    BY DEF BotsApart
  <2>1. i + 1 = j + 1
    BY <1>1 DEF ResultInv, BotsApart
  <2>2. QED
    BY <1>1, <2>1
<1>9. \A i \in 1..Len(results'), j \in 1..Len(resultCh') : results'[i].bot # resultCh'[j].bot
  <2> TAKE i \in 1..Len(results'), j \in 1..Len(resultCh')
  <2>1. j + 1 \in 1..Len(resultCh) /\ j + 1 # 1 /\ resultCh'[j] = resultCh[j + 1]
    BY <1>1
  <2>2. CASE i \in 1..n
    BY <1>2, <2>1, <2>2 DEF ResultInv
  <2>3. CASE i = n + 1
    BY <1>1, <1>2, <2>1, <2>3 DEF ResultInv, BotsApart
  <2>4. QED BY <1>3, <2>2, <2>3
<1>10. QED
  BY <1>4, <1>5, <1>7, <1>8, <1>9

LEMMA ResultBots ==
    ASSUME TypeOK
    PROVE  /\ \A i \in 1..Len(results) : results[i].bot \in Bots
           /\ \A i \in 1..Len(resultCh) : resultCh[i].bot \in Bots
<1>1. \A i \in 1..Len(results) : results[i] \in Result
  BY DEF TypeOK
<1>2. \A i \in 1..Len(resultCh) : resultCh[i] \in Result
  BY DEF TypeOK
<1>3. \A r \in Result : r.bot \in Bots
  BY DEF Result
<1>4. QED
  BY <1>1, <1>2, <1>3

LEMMA ResultStep ==
    TypeOK /\ LaunchInv /\ ResultInv /\ [Next]_vars => ResultInv'
<1> SUFFICES ASSUME TypeOK, LaunchInv, ResultInv, [Next]_vars
             PROVE  ResultInv'
    OBVIOUS
<1>0. /\ \A i \in 1..Len(results) : results[i].bot \in Bots
      /\ \A i \in 1..Len(resultCh) : resultCh[i].bot \in Bots
  BY ResultBots
<1>1. ASSUME UNCHANGED <<results, resultCh>>,
             \A b \in Bots : bot[b] = "ended" => bot'[b] = "ended",
             pc' \in {"start", "loop", "launch", "stagger", "await", "active"} => results = <<>>,
             pc' \in {"report", "shutdown", "returned"} => Len(results) = launched'
      PROVE  ResultInv'
  BY <1>0, <1>1 DEF ResultInv
<1>2. CASE EmitStarting
  <2>1. launched = 0 /\ results = <<>>
    BY <1>2 DEF EmitStarting, LaunchInv, ResultInv
  <2>2. pc' \in {"loop", "returned"} /\ UNCHANGED <<results, resultCh, bot, launched>>
    BY <1>2 DEF EmitStarting, chVars, botVars
  <2>3. QED
    BY <1>1, <2>1, <2>2
<1>3. CASE Launch
  <2>1. results = <<>> /\ UNCHANGED <<results, resultCh>>
    BY <1>3 DEF Launch, ResultInv, chVars
  <2>2. pc' \in {"await", "stagger", "loop", "cancel"}
    BY <1>3 DEF Launch, AfterLaunch, Finish
  <2>3. \A b \in Bots : bot[b] = "ended" => bot'[b] = "ended"
    <3>1. CASE UNCHANGED bot
      BY <3>1
    <3>2. CASE bot' = [bot EXCEPT ![launched + 1] = "connecting"]
      <4>1. launched + 1 \in Bots /\ bot[launched + 1] = "idle"
        BY <1>3, CountAssumption DEF Launch, TypeOK, LaunchInv, Bots
      <4>2. QED
        BY <3>2, <4>1 DEF TypeOK
    <3>3. QED
      BY <1>3, <3>1, <3>2 DEF Launch
  <2>4. QED
    BY <1>1, <2>1, <2>2, <2>3
<1>4. CASE CheckSignal \/ StaggerTimer \/ RecordOnline \/ SeeSignal \/ EmitOnline
  <2>1. /\ pc \in {"loop", "stagger", "await", "active"}
        /\ pc' \in {"loop", "launch", "await", "active", "cancel"}
        /\ UNCHANGED <<results, resultCh, bot>>
    BY <1>4 DEF CheckSignal, StaggerTimer, RecordOnline, SeeSignal, EmitOnline, EmitThen,
                Finish, chVars, botVars
  <2>2. results = <<>>
    BY <2>1 DEF ResultInv
  <2>3. QED
    BY <1>1, <2>1, <2>2
<1>5. CASE TakeResult \/ DrainResult
  <2>1. /\ resultCh # <<>>
        /\ resultCh' = Tail(resultCh)
        /\ results' = Append(results, Head(resultCh))
        /\ UNCHANGED bot
        /\ pc' \in {"cancel", "drain"}
    BY <1>5 DEF TakeResult, DrainResult, Finish, botVars
  <2>2. QED
    BY <2>1, ResultMoved DEF ResultInv
<1>6. CASE Cancel \/ DrainDone
  <2>1. /\ UNCHANGED <<results, resultCh, bot, launched>>
        /\ pc' \in {"drain", "report"}
        /\ pc' = "report" => Len(results) = launched
    BY <1>6 DEF Cancel, DrainDone, Drained, chVars, botVars
  <2>2. QED
    BY <1>1, <2>1
<1>7. CASE EmitStats \/ StatsDone \/ EmitShutdown
  <2>1. /\ UNCHANGED <<results, resultCh, bot, launched>>
        /\ pc \in {"report", "shutdown"}
        /\ pc' \in {"report", "shutdown", "returned"}
    BY <1>7 DEF EmitStats, StatsDone, EmitShutdown, chVars, botVars
  <2>2. Len(results) = launched
    BY <2>1 DEF ResultInv
  <2>3. QED
    BY <1>1, <2>1, <2>2
<1>8. ASSUME NEW b \in Bots, BotReady(b) \/ BotReport(b) PROVE ResultInv'
  <2>1. UNCHANGED <<results, resultCh, pc, launched>>
    BY <1>8 DEF BotReady, BotReport, mainVars, chVars
  <2>2. \A c \in Bots : bot[c] = "ended" => bot'[c] = "ended"
    BY <1>8 DEF BotReady, BotReport, TypeOK
  <2>3. QED
    BY <1>1, <2>1, <2>2 DEF ResultInv
<1>9. ASSUME NEW b \in Bots, NEW err \in BotErr \cup {"none"}, BotReturn(b, err)
      PROVE  ResultInv'
  <2> DEFINE n == Len(resultCh)
  <2>1. /\ bot[b] # "ended"
        /\ bot' = [bot EXCEPT ![b] = "ended"]
        /\ UNCHANGED <<results, pc, launched>>
    BY <1>9 DEF BotReturn, Live, mainVars
  <2>2. /\ n \in Nat /\ Len(resultCh') = n + 1
        /\ \A i \in 1..n : resultCh'[i] = resultCh[i]
        /\ resultCh'[n + 1].bot = b
    BY <1>9 DEF BotReturn, TypeOK
  <2>3. \A i \in 1..Len(resultCh') : i \in 1..n \/ i = n + 1
    BY <2>2
  <2>4. \A c \in Bots : bot'[c] = "ended" <=> c = b \/ bot[c] = "ended"
    BY <2>1 DEF TypeOK
  <2>5. /\ \A i \in 1..Len(results) : results[i].bot # b
        /\ \A i \in 1..n : resultCh[i].bot # b
    BY <2>1 DEF ResultInv
  <2>6. \A i \in 1..Len(results') : bot'[results'[i].bot] = "ended"
    BY <1>0, <2>1, <2>4 DEF ResultInv
  <2>7. \A i \in 1..Len(resultCh') : bot'[resultCh'[i].bot] = "ended"
    BY <1>0, <2>2, <2>3, <2>4 DEF ResultInv
  <2>8. BotsApart(resultCh')
    BY <2>2, <2>3, <2>5 DEF ResultInv, BotsApart
  <2>9. \A i \in 1..Len(results'), j \in 1..Len(resultCh') : results'[i].bot # resultCh'[j].bot
    BY <2>1, <2>2, <2>3, <2>5 DEF ResultInv
  <2>10. QED
    BY <2>1, <2>6, <2>7, <2>8, <2>9 DEF ResultInv
<1>10. CASE Signal \/ Propagate \/ UNCHANGED vars
  <2>1. UNCHANGED <<results, resultCh, bot, pc, launched>>
    BY <1>10 DEF Signal, Propagate, vars, mainVars, chVars, botVars
  <2>2. QED
    BY <1>1, <2>1 DEF ResultInv
<1>11. QED
  BY <1>2, <1>3, <1>4, <1>5, <1>6, <1>7, <1>8, <1>9, <1>10
  DEF Next, Supervise, BotStep, Exited

\* In the last phases the results are those of all launched bots, and each bot that has a
\* result has ended.
LEMMA Collected == TypeOK /\ LaunchInv /\ ResultInv => EveryBotCollected
<1> SUFFICES ASSUME TypeOK, LaunchInv, ResultInv, pc \in {"report", "shutdown", "returned"}
             PROVE  /\ Len(results) = launched
                    /\ {results[i].bot : i \in DOMAIN results} = 1..launched
                    /\ Live = {}
  BY DEF EveryBotCollected
<1> DEFINE f == [i \in 1..launched |-> results[i].bot]
<1>1. Len(results) = launched /\ DOMAIN results = 1..launched
  BY DEF ResultInv, TypeOK
<1>2. \A i \in 1..launched : results[i].bot \in 1..launched
  <2> TAKE i \in 1..launched
  <2>1. results[i].bot \in Bots /\ bot[results[i].bot] = "ended"
    BY <1>1, ResultBots DEF ResultInv
  <2>2. ~(results[i].bot > launched)
    BY <2>1 DEF LaunchInv
  <2>3. QED
    BY <2>1, <2>2, CountAssumption DEF Bots, TypeOK
<1>3. f \in Injection(1..launched, 1..launched)
  BY <1>1, <1>2 DEF Injection, IsInjective, ResultInv, BotsApart
<1>4. IsFiniteSet(1..launched)
  BY FS_Interval DEF TypeOK
<1>5. f \in Surjection(1..launched, 1..launched)
  BY <1>3, <1>4, FS_Injection
<1>6. \A b \in 1..launched : \E i \in 1..launched : results[i].bot = b
  BY <1>5 DEF Surjection
<1>7. Live = {}
  <2> SUFFICES ASSUME NEW b \in Bots, bot[b] \in {"connecting", "ready", "online"}
               PROVE  FALSE
    BY DEF Live
  <2>1. b \in 1..launched
    BY CountAssumption DEF LaunchInv, Bots, TypeOK
  <2>2. bot[b] = "ended"
    BY <1>1, <1>6, <2>1 DEF ResultInv
  <2>3. QED BY <2>2
<1>8. QED
  BY <1>1, <1>2, <1>6, <1>7

\* finishFleet reports on every bot launched, once each, and returns only when none runs.
THEOREM CollectCorrect == Spec => []EveryBotCollected
<1>1. Spec => [](TypeOK /\ LaunchInv /\ ResultInv)
  BY LaunchInit, LaunchStep, ResultInit, ResultStep, PTL DEF Spec
<1>2. QED
  BY <1>1, Collected, PTL

\* A channel holding different bots, none of them b, has room for b.
LEMMA RoomForOne ==
    ASSUME NEW b \in Bots, NEW n \in Nat, NEW f \in [1..n -> Bots \ {b}],
           \A i, j \in 1..n : f[i] = f[j] => i = j
    PROVE  n < Count
<1>1. IsFiniteSet(Bots) /\ Cardinality(Bots) = Count
  BY CountAssumption, FS_Interval DEF Bots
<1>2. IsFiniteSet(Bots \ {b}) /\ Cardinality(Bots \ {b}) = Count - 1
  BY <1>1, FS_RemoveElement
<1>3. f \in Injection(1..n, Bots \ {b})
  BY DEF Injection, IsInjective
<1>4. Cardinality(1..n) <= Cardinality(Bots \ {b})
  BY <1>2, <1>3, FS_Injection
<1>5. Cardinality(1..n) = n
  BY FS_Interval
<1>6. QED
  BY <1>2, <1>4, <1>5, CountAssumption

\* A live bot is in neither channel yet, so each has room for it.
LEMMA RoomLeft == TypeOK /\ OnlineInv /\ ResultInv => SendsNeverBlock
<1> SUFFICES ASSUME TypeOK, OnlineInv, ResultInv, NEW b \in Live
             PROVE  /\ Len(resultCh) < Count
                    /\ bot[b] = "ready" => Len(onlineCh) < Count
  BY DEF SendsNeverBlock, ChannelCapacity
<1>1. b \in Bots /\ bot[b] # "ended"
  BY DEF Live
<1>2. Len(resultCh) < Count
  <2> DEFINE f == [i \in 1..Len(resultCh) |-> resultCh[i].bot]
  <2>1. Len(resultCh) \in Nat
    BY DEF TypeOK
  <2>2. f \in [1..Len(resultCh) -> Bots \ {b}]
    BY <1>1, ResultBots DEF ResultInv
  <2>3. \A i, j \in 1..Len(resultCh) : f[i] = f[j] => i = j
    BY DEF ResultInv, BotsApart
  <2> HIDE DEF f
  <2>4. QED
    BY <1>1, <2>1, <2>2, <2>3, RoomForOne
<1>3. ASSUME bot[b] = "ready" PROVE Len(onlineCh) < Count
  <2>1. Len(onlineCh) \in Nat
    BY DEF TypeOK
  <2>2. onlineCh \in [1..Len(onlineCh) -> Bots \ {b}]
    BY <1>3 DEF OnlineInv, TypeOK
  <2>3. QED
    BY <1>1, <2>1, <2>2, RoomForOne DEF OnlineInv
<1>4. QED
  BY <1>2, <1>3

\* A bot about to report itself online, or to return, never waits for the supervisor.
THEOREM ChannelsCorrect == Spec => []SendsNeverBlock
<1>1. Spec => [](TypeOK /\ LaunchInv /\ OnlineInv /\ ResultInv)
  BY LaunchInit, LaunchStep, OnlineInit, OnlineStep, ResultInit, ResultStep, PTL DEF Spec
<1>2. QED
  BY <1>1, RoomLeft, PTL

-----------------------------------------------------------------------------
(* The error Run returns. *)

Finishing == {"cancel", "drain", "report", "shutdown", "returned"}

\* While the error is still "none" nothing has failed, and finishing without an error
\* means that the signal has arrived.
ErrorInv ==
    /\ FirstErrorIsReported
    /\ outputFailed => firstErr # "none"
    /\ pc \notin Finishing => firstErr = "none"
    /\ pc \in Finishing /\ firstErr = "none" => ctxDone
    /\ pc \in {"shutdown", "returned"} /\ firstErr = "none" => reason = "signal"

LEMMA ErrorInit == Init => ErrorInv
BY DEF Init, ErrorInv, FirstErrorIsReported, Finishing, BotErr

\* Taking one more result keeps the first error first.
LEMMA OneMoreResult ==
    ASSUME TypeOK, ErrorInv, NEW r \in Result, results' = Append(results, r),
           firstErr' = KeepFirst(r.err)
    PROVE  FirstErrorIsReported'
<1> DEFINE n == Len(results)
<1>1. /\ n \in Nat /\ DOMAIN results = 1..n
      /\ DOMAIN results' = 1..(n + 1)
      /\ \A i \in 1..n : results'[i] = results[i]
      /\ results'[n + 1] = r
  BY DEF TypeOK
<1>2. \A i \in DOMAIN results' : i \in 1..n \/ i = n + 1
  BY <1>1
<1>3. CASE firstErr # "none"
  <2>1. firstErr' = firstErr
    BY <1>3 DEF KeepFirst
  <2>2. ASSUME firstErr = "fleet" PROVE results' # <<>> /\ results'[1].err = "none"
    BY <1>1, <2>2 DEF ErrorInv, FirstErrorIsReported
  <2>3. ASSUME firstErr \in BotErr
        PROVE  \E i \in DOMAIN results' : /\ results'[i].err = firstErr
                                          /\ \A j \in 1..(i - 1) : results'[j].err = "none"
    <3>1. PICK i \in 1..n : /\ results[i].err = firstErr
                            /\ \A j \in 1..(i - 1) : results[j].err = "none"
      BY <1>1, <2>3 DEF ErrorInv, FirstErrorIsReported
    <3>2. i \in DOMAIN results' /\ results'[i].err = firstErr
      BY <1>1, <3>1
    <3>3. \A j \in 1..(i - 1) : results'[j].err = "none"
      BY <1>1, <3>1
    <3>4. QED BY <3>2, <3>3
  <2>4. QED
    BY <1>3, <2>1, <2>2, <2>3 DEF FirstErrorIsReported
<1>4. CASE firstErr = "none"
  <2>1. firstErr' = r.err
    BY <1>4 DEF KeepFirst
  <2>2. \A i \in 1..n : results[i].err = "none"
    BY <1>1, <1>4 DEF ErrorInv, FirstErrorIsReported
  <2>3. r.err \in BotErr \cup {"none"}
    BY DEF Result
  <2>4. r.err # "fleet"
    BY <2>3 DEF BotErr
  <2>5. n + 1 \in DOMAIN results' /\ results'[n + 1].err = r.err
    BY <1>1
  <2>6. \A j \in 1..((n + 1) - 1) : results'[j].err = "none"
    BY <1>1, <2>2
  <2>7. r.err = "none" => \A i \in DOMAIN results' : results'[i].err = "none"
    BY <1>1, <1>2, <2>2
  <2>8. QED
    BY <2>1, <2>4, <2>5, <2>6, <2>7 DEF FirstErrorIsReported
<1>5. QED BY <1>3, <1>4

LEMMA ErrorStep ==
    TypeOK /\ ResultInv /\ ErrorInv /\ [Next]_vars => ErrorInv'
<1> SUFFICES ASSUME TypeOK, ResultInv, ErrorInv, [Next]_vars
             PROVE  ErrorInv'
    OBVIOUS
<1>1. ASSUME UNCHANGED <<results, firstErr>>
      PROVE  FirstErrorIsReported'
  BY <1>1 DEF ErrorInv, FirstErrorIsReported
<1>2. ASSUME firstErr' = "output" PROVE FirstErrorIsReported'
  BY <1>2 DEF FirstErrorIsReported, BotErr
<1>3. ASSUME firstErr' = KeepFirst("output"), UNCHANGED results
      PROVE  FirstErrorIsReported' /\ firstErr' # "none"
  BY <1>1, <1>2, <1>3 DEF KeepFirst
<1>4. CASE EmitStarting
  BY <1>1, <1>2, <1>4 DEF EmitStarting, ErrorInv, Finishing
<1>5. CASE CheckSignal
  <2>1. UNCHANGED <<results, firstErr, outputFailed, ctxDone>> /\ firstErr = "none"
    BY <1>5 DEF CheckSignal, Finish, ErrorInv, Finishing, ctxVars
  <2>2. pc' \in Finishing => ctxDone
    BY <1>5 DEF CheckSignal, Finish, SignalSeen, Finishing
  <2>3. pc' \notin {"shutdown", "returned"}
    BY <1>5 DEF CheckSignal, Finish
  <2>4. QED
    BY <1>1, <2>1, <2>2, <2>3 DEF ErrorInv
<1>6. CASE Launch \/ RecordOnline \/ EmitOnline
  <2>1. firstErr = "none" /\ UNCHANGED <<results, ctxDone>>
    BY <1>6 DEF Launch, RecordOnline, EmitOnline, ErrorInv, Finishing, ctxVars
  <2>2. \/ pc' \notin Finishing /\ UNCHANGED <<firstErr, outputFailed>>
        \/ pc' = "cancel" /\ firstErr' = "output"
    BY <1>6 DEF Launch, AfterLaunch, RecordOnline, EmitOnline, EmitThen, Finish, Finishing
  <2>3. QED
    BY <1>1, <1>2, <2>1, <2>2 DEF ErrorInv, Finishing
<1>7. CASE StaggerTimer
  <2>1. UNCHANGED <<results, firstErr, outputFailed, ctxDone>> /\ firstErr = "none" /\ pc' = "loop"
    BY <1>7 DEF StaggerTimer, ErrorInv, Finishing, ctxVars
  <2>2. QED
    BY <1>1, <2>1 DEF ErrorInv, Finishing
<1>8. CASE TakeResult
  <2> DEFINE r == Head(resultCh)
  <2>1. r \in Result
    BY <1>8, Received DEF TakeResult, TypeOK
  <2>2. /\ results = <<>> /\ results' = Append(results, r)
        /\ pc' = "cancel" /\ firstErr' = ResultErr(r)
    BY <1>8 DEF TakeResult, Finish, ResultInv
  <2>3. r.err \in BotErr \cup {"none"}
    BY <2>1 DEF Result
  <2>4. firstErr' \in BotErr \cup {"fleet"} /\ firstErr' # "none"
    BY <2>2, <2>3 DEF ResultErr, BotErr
  <2>5. results' # <<>> /\ DOMAIN results' = {1} /\ results'[1] = r
    BY <2>1, <2>2
  <2>6. FirstErrorIsReported'
    BY <2>2, <2>3, <2>4, <2>5 DEF FirstErrorIsReported, ResultErr, BotErr
  <2>7. QED
    BY <2>2, <2>4, <2>6 DEF ErrorInv, Finishing
<1>9. CASE SeeSignal
  <2>1. UNCHANGED <<results, firstErr, outputFailed, ctxDone>> /\ ctxDone /\ pc' = "cancel"
    BY <1>9 DEF SeeSignal, Finish, ErrorInv, Finishing, ctxVars
  <2>2. QED
    BY <1>1, <2>1 DEF ErrorInv, Finishing
<1>10. CASE Cancel \/ DrainDone
  <2>1. /\ UNCHANGED <<results, firstErr, outputFailed, ctxDone>>
        /\ pc \in Finishing /\ pc' \in {"drain", "report"}
    BY <1>10 DEF Cancel, DrainDone, Finishing, ctxVars
  <2>2. QED
    BY <1>1, <2>1 DEF ErrorInv, Finishing
<1>11. CASE DrainResult
  <2>1. Head(resultCh) \in Result
    BY <1>11, Received DEF DrainResult, TypeOK
  <2>2. FirstErrorIsReported'
    BY <1>11, <2>1, OneMoreResult DEF DrainResult
  <2>3. /\ UNCHANGED <<outputFailed, ctxDone>> /\ pc = "drain" /\ pc' = "drain"
        /\ firstErr' = "none" => firstErr = "none"
    BY <1>11 DEF DrainResult, KeepFirst, ctxVars
  <2>4. QED
    BY <2>2, <2>3 DEF ErrorInv, Finishing
<1>12. CASE EmitStats \/ EmitShutdown
  <2>1. /\ UNCHANGED <<results, reason, ctxDone>>
        /\ \/ pc = "report" /\ pc' = "report"
           \/ pc = "shutdown" /\ pc' = "returned"
    BY <1>12 DEF EmitStats, EmitShutdown, ctxVars
  <2>2. CASE UNCHANGED <<firstErr, outputFailed>>
    BY <1>1, <2>1, <2>2 DEF ErrorInv, Finishing
  <2>3. CASE firstErr' = KeepFirst("output")
    BY <1>3, <2>1, <2>3 DEF ErrorInv, Finishing
  <2>4. QED
    BY <1>12, <2>2, <2>3 DEF EmitStats, EmitShutdown
<1>13. CASE StatsDone
  <2>1. /\ UNCHANGED <<results, firstErr, outputFailed, ctxDone>>
        /\ pc = "report" /\ pc' = "shutdown" /\ reason' = Reason
    BY <1>13 DEF StatsDone, ctxVars
  <2>2. firstErr = "none" => reason' = "signal"
    BY <2>1 DEF Reason, ErrorInv, Finishing
  <2>3. QED
    BY <1>1, <2>1, <2>2 DEF ErrorInv, Finishing
<1>14. CASE Signal \/ Propagate \/ UNCHANGED vars \/ \E b \in Bots : BotStep(b)
  <2>1. /\ UNCHANGED <<results, firstErr, outputFailed, pc, reason>>
        /\ ctxDone => ctxDone'
    <3>1. ASSUME NEW b \in Bots, BotStep(b) PROVE UNCHANGED <<mainVars, ctxVars>>
      BY <3>1 DEF BotStep, BotReady, BotReport, BotReturn
    <3>2. CASE Signal \/ Propagate \/ UNCHANGED vars
      BY <3>2 DEF Signal, Propagate, vars, mainVars, ctxVars
    <3>3. QED
      BY <1>14, <3>1, <3>2 DEF mainVars, ctxVars
  <2>2. QED
    BY <1>1, <2>1 DEF ErrorInv
<1>15. QED
  BY <1>4, <1>5, <1>6, <1>7, <1>8, <1>9, <1>10, <1>11, <1>12, <1>13, <1>14
  DEF Next, Supervise, Exited

LEMMA ErrorCorrect == Spec => []ErrorInv
<1>1. Spec => [](TypeOK /\ LaunchInv /\ ResultInv /\ ErrorInv)
  BY LaunchInit, LaunchStep, ResultInit, ResultStep, ErrorInit, ErrorStep, PTL DEF Spec
<1>2. QED
  BY <1>1, PTL

\* The error Run returns is the first one it collected.
THEOREM FirstErrorCorrect == Spec => []FirstErrorIsReported
<1>1. ErrorInv => FirstErrorIsReported
  BY DEF ErrorInv
<1>2. QED
  BY <1>1, ErrorCorrect, PTL

\* The process exits with 0 only after a signal, and never over a failure of any kind.
THEOREM CleanExitCorrect == Spec => []CleanExitMeansSignal
<1>1. Spec => []TypeOK
  BY TypeCorrect
<1>2. TypeOK /\ ErrorInv => CleanExitMeansSignal
  <2> SUFFICES ASSUME TypeOK, ErrorInv, pc = "returned", ExitCode = 0
               PROVE  /\ ctxDone
                      /\ reason = "signal"
                      /\ ~outputFailed
                      /\ \A i \in DOMAIN results : results[i].err = "none"
    BY DEF CleanExitMeansSignal
  <2>1. firstErr = "none"
    BY DEF ExitCode
  <2>2. QED
    BY <2>1 DEF ErrorInv, FirstErrorIsReported, Finishing
<1>3. QED
  BY <1>1, <1>2, ErrorCorrect, PTL

-----------------------------------------------------------------------------
(* The launch loop and the signal. *)

\* Once the signal has come with n bots launched, only a loop that is past its check launches.
AfterSignal(n) == ctxDone /\ launched <= n + 1 /\ (pc = "launch" => launched <= n)

LEMMA SignalStep ==
    ASSUME NEW n \in Nat, TypeOK, AfterSignal(n), [Next]_vars
    PROVE  AfterSignal(n)'
<1>0. launched \in Nat /\ Count \in Nat
  BY CountAssumption DEF TypeOK
<1>1. CASE CheckSignal
  BY <1>1 DEF CheckSignal, SignalSeen, Finish, ctxVars, AfterSignal
<1>2. CASE Launch
  <2>1. AfterLaunch(launched + 1) # "launch"
    BY DEF AfterLaunch
  <2>2. launched' \in {launched, launched + 1} /\ pc' # "launch" /\ ctxDone' = ctxDone
    BY <1>2, <2>1 DEF Launch, Finish, ctxVars
  <2>3. QED
    BY <1>0, <1>2, <2>2 DEF Launch, AfterSignal
<1>3. CASE /\ UNCHANGED launched /\ ctxDone' = ctxDone
           /\ pc' = pc \/ pc' # "launch"
  BY <1>3 DEF AfterSignal
<1>4. CASE EmitStarting \/ StaggerTimer \/ RecordOnline \/ TakeResult \/ SeeSignal
  BY <1>3, <1>4 DEF EmitStarting, StaggerTimer, RecordOnline, TakeResult, SeeSignal, EmitThen,
                    Finish, ctxVars
<1>5. CASE EmitOnline \/ Cancel \/ DrainResult \/ DrainDone \/ EmitStats \/ StatsDone
           \/ EmitShutdown
  BY <1>3, <1>5 DEF EmitOnline, Cancel, DrainResult, DrainDone, EmitStats, StatsDone,
                    EmitShutdown, EmitThen, Finish, ctxVars
<1>6. CASE Signal
  BY <1>6 DEF Signal, AfterSignal
<1>7. CASE \/ Propagate \/ UNCHANGED vars
           \/ \E b \in Bots : BotStep(b)
  BY <1>3, <1>7 DEF Propagate, BotStep, BotReady, BotReport, BotReturn, vars, mainVars, ctxVars
<1>8. QED
  BY <1>1, <1>2, <1>4, <1>5, <1>6, <1>7 DEF Next, Supervise, Exited

\* However the signal falls between two steps of the launch loop, at most one more bot starts.
THEOREM LaunchesCorrect == Spec => OneLaunchAfterSignal
<1>1. ASSUME NEW n \in 0..Count
      PROVE  Spec => [](ctxDone /\ launched = n => [](launched <= n + 1))
  <2>1. n \in Nat
    BY CountAssumption
  <2>2. TypeOK /\ ctxDone /\ launched = n => AfterSignal(n)
    BY <2>1 DEF AfterSignal
  <2>3. TypeOK /\ AfterSignal(n) /\ [Next]_vars => AfterSignal(n)'
    BY <2>1, SignalStep
  <2>4. AfterSignal(n) => launched <= n + 1
    BY DEF AfterSignal
  <2>5. QED
    BY <2>2, <2>3, <2>4, TypeCorrect, PTL DEF Spec
<1>2. QED
  BY <1>1, Zenon DEF OneLaunchAfterSignal

-----------------------------------------------------------------------------
(* The supervisor's contract, safety part: every step of the fleet is a step of it. *)

LEMMA ContractInit == Init => Contract!Init
<1> SUFFICES ASSUME Init PROVE Contract!Init
    OBVIOUS
<1>1. Live = {} /\ Ended = {}
  BY DEF Init, Live, Ended
<1>2. ~AnyFailed
  BY DEF Init, AnyFailed, Elements
<1>3. QED
  BY <1>1, <1>2 DEF Init, Contract!Init, Phase, Outcome

\* Receiving a result changes nothing the contract sees of the results.
LEMMA MovingKeepsFailed ==
    ASSUME TypeOK, resultCh # <<>>, resultCh' = Tail(resultCh),
           results' = Append(results, Head(resultCh))
    PROVE  AnyFailed' = AnyFailed
<1> DEFINE n == Len(results)
           m == Len(resultCh)
           h == Head(resultCh)
<1>1. /\ h = resultCh[1] /\ m \in Nat /\ 1 \in 1..m /\ DOMAIN resultCh = 1..m
      /\ DOMAIN resultCh' = 1..(m - 1)
      /\ \A i \in 1..(m - 1) : resultCh'[i] = resultCh[i + 1]
  BY Received DEF TypeOK
<1>2. /\ n \in Nat /\ DOMAIN results = 1..n /\ DOMAIN results' = 1..(n + 1)
      /\ \A i \in 1..n : results'[i] = results[i]
      /\ results'[n + 1] = h
  BY DEF TypeOK
<1>3. Elements(results') = Elements(results) \cup {h}
  BY <1>2 DEF Elements
<1>4. Elements(resultCh) = Elements(resultCh') \cup {h}
  <2>1. \A i \in 1..m : i = 1 \/ (i - 1 \in 1..(m - 1) /\ resultCh[i] = resultCh'[i - 1])
    BY <1>1
  <2>2. \A i \in 1..(m - 1) : i + 1 \in 1..m
    BY <1>1
  <2>3. ASSUME NEW r \in Elements(resultCh) PROVE r \in Elements(resultCh') \cup {h}
    <3>1. PICK i \in 1..m : r = resultCh[i]
      BY <1>1 DEF Elements
    <3>2. CASE i = 1
      BY <1>1, <3>1, <3>2
    <3>3. CASE i - 1 \in 1..(m - 1) /\ resultCh[i] = resultCh'[i - 1]
      BY <1>1, <3>1, <3>3 DEF Elements
    <3>4. QED
      BY <2>1, <3>2, <3>3
  <2>4. ASSUME NEW r \in Elements(resultCh') \cup {h} PROVE r \in Elements(resultCh)
    BY <1>1, <2>2 DEF Elements
  <2>5. QED
    BY <2>3, <2>4
<1>5. QED
  BY <1>3, <1>4 DEF AnyFailed

\* Once every bot is collected nothing is left in the channel, so an error any bot ended
\* with is among the results, and Run returns an error.
LEMMA NothingLeft ==
    ASSUME TypeOK, LaunchInv, ResultInv, ErrorInv, EveryBotCollected, AnyFailed,
           pc = "shutdown"
    PROVE  firstErr # "none"
<1>1. resultCh = <<>>
  <2> SUFFICES ASSUME resultCh # <<>> PROVE FALSE
      OBVIOUS
  <2>1. 1 \in 1..Len(resultCh)
    BY Received DEF TypeOK
  <2>2. resultCh[1].bot \in Bots /\ bot[resultCh[1].bot] = "ended"
    BY <2>1, ResultBots DEF ResultInv
  <2>3. resultCh[1].bot \in 1..launched
    BY <2>2, CountAssumption DEF LaunchInv, Bots, TypeOK
  <2>4. PICK i \in DOMAIN results : results[i].bot = resultCh[1].bot
    BY <2>3 DEF EveryBotCollected
  <2>5. i \in 1..Len(results)
    BY DEF TypeOK
  <2>6. QED
    BY <2>1, <2>4, <2>5 DEF ResultInv
<1>2. PICK i \in DOMAIN results : results[i].err # "none"
  BY <1>1 DEF AnyFailed, Elements
<1>3. QED
  BY <1>2 DEF ErrorInv, FirstErrorIsReported

LEMMA ContractStep ==
    TypeOK /\ LaunchInv /\ ResultInv /\ ErrorInv /\ EveryBotCollected /\ [Next]_vars
        => [Contract!Next]_(Contract!supervisorVars)
<1> SUFFICES ASSUME TypeOK, LaunchInv, ResultInv, ErrorInv, EveryBotCollected, [Next]_vars
             PROVE  Contract!Next \/ UNCHANGED Contract!supervisorVars
    OBVIOUS
<1> DEFINE Working == {"start", "loop", "launch", "stagger", "await", "active"}
           Stopping == {"cancel", "drain", "report", "shutdown"}
<1>0. ASSUME UNCHANGED <<bot, results, resultCh>>
      PROVE  Live' = Live /\ Ended' = Ended /\ AnyFailed' = AnyFailed
  BY <1>0 DEF Live, Ended, AnyFailed, Elements
<1>1. ASSUME Live' = Live, Ended' = Ended, AnyFailed' = AnyFailed,
             \/ pc \in Working /\ pc' \in Working \cup {"cancel"}
             \/ pc \in Stopping /\ pc' \in Stopping
      PROVE  Contract!Next \/ UNCHANGED Contract!supervisorVars
  <2>1. Outcome = "pending" /\ Outcome' = "pending"
    BY <1>1 DEF Outcome
  <2>2. CASE pc \in Working /\ pc' = "cancel"
    <3>1. Phase = "up" /\ Phase' = "stopping"
      BY <2>2 DEF Phase
    <3>2. QED
      BY <1>1, <2>1, <3>1 DEF Contract!Next, Contract!Stop
  <2>3. CASE (pc \in Working /\ pc' \in Working) \/ (pc \in Stopping /\ pc' \in Stopping)
    <3>1. Phase' = Phase
      BY <2>3 DEF Phase
    <3>2. QED
      BY <1>1, <2>1, <3>1 DEF Contract!supervisorVars
  <2>4. \/ pc \in Working /\ pc' = "cancel"
        \/ pc \in Working /\ pc' \in Working
        \/ pc \in Stopping /\ pc' \in Stopping
    BY <1>1
  <2>5. QED
    BY <2>2, <2>3, <2>4
<1>2. CASE EmitStarting
  <2>1. UNCHANGED <<bot, results, resultCh>>
    BY <1>2 DEF EmitStarting, chVars, botVars
  <2>2. CASE pc' = "loop"
    BY <1>0, <1>1, <1>2, <2>1, <2>2 DEF EmitStarting
  <2>3. CASE pc' = "returned"
    <3>1. firstErr' = "output" /\ pc = "start"
      BY <1>2, <2>3 DEF EmitStarting
    <3>2. Live \cup Ended = {}
      BY <3>1, CountAssumption DEF LaunchInv, Live, Ended, Bots
    <3>3. Phase = "up" /\ Phase' = "stopped" /\ Outcome' = "failed"
      BY <2>3, <3>1 DEF Phase, Outcome
    <3>4. QED
      BY <1>0, <2>1, <3>2, <3>3 DEF Contract!Next, Contract!GiveUp
  <2>4. QED
    BY <1>2, <2>2, <2>3 DEF EmitStarting
<1>3. CASE Launch
  <2>1. UNCHANGED <<results, resultCh>> /\ pc = "launch" /\ pc' \in Working \cup {"cancel"}
    BY <1>3 DEF Launch, AfterLaunch, Finish, chVars
  <2>2. CASE UNCHANGED bot
    BY <1>0, <1>1, <2>1, <2>2
  <2>3. CASE /\ bot' = [bot EXCEPT ![launched + 1] = "connecting"]
             /\ pc' = AfterLaunch(launched + 1)
    <3>1. launched + 1 \in Bots /\ bot[launched + 1] = "idle"
      BY <2>1, CountAssumption DEF TypeOK, LaunchInv, Bots
    <3>2. Live' = Live \cup {launched + 1} /\ Ended' = Ended
      BY <2>3, <3>1 DEF Live, Ended, TypeOK
    <3>3. launched + 1 \notin Live \cup Ended
      BY <3>1 DEF Live, Ended
    <3>4. AnyFailed' = AnyFailed
      BY <2>1 DEF AnyFailed, Elements
    <3>5. Phase = "up" /\ Phase' = "up" /\ Outcome = "pending" /\ Outcome' = "pending"
      BY <2>1, <2>3 DEF Phase, Outcome, AfterLaunch
    <3>6. Contract!Spawn(launched + 1)
      BY <3>2, <3>3, <3>4, <3>5 DEF Contract!Spawn
    <3>7. QED
      BY <3>1, <3>6 DEF Contract!Next
  <2>4. QED
    BY <1>3, <2>2, <2>3 DEF Launch
<1>4. CASE CheckSignal \/ StaggerTimer \/ RecordOnline \/ SeeSignal \/ EmitOnline
  <2>1. /\ UNCHANGED <<bot, results, resultCh>>
        /\ pc \in Working /\ pc' \in Working \cup {"cancel"}
    BY <1>4 DEF CheckSignal, StaggerTimer, RecordOnline, SeeSignal, EmitOnline, EmitThen,
                Finish, chVars, botVars
  <2>2. QED
    BY <1>0, <1>1, <2>1
<1>5. CASE TakeResult \/ DrainResult
  <2>1. /\ resultCh # <<>> /\ resultCh' = Tail(resultCh)
        /\ results' = Append(results, Head(resultCh))
        /\ UNCHANGED bot
        /\ \/ pc \in Working /\ pc' = "cancel"
           \/ pc = "drain" /\ pc' = "drain"
    BY <1>5 DEF TakeResult, DrainResult, Finish, botVars
  <2>2. AnyFailed' = AnyFailed
    BY <2>1, MovingKeepsFailed
  <2>3. Live' = Live /\ Ended' = Ended
    BY <2>1 DEF Live, Ended
  <2>4. QED
    BY <1>1, <2>1, <2>2, <2>3
<1>6. CASE Cancel \/ DrainDone \/ EmitStats \/ StatsDone
  <2>1. UNCHANGED <<bot, results, resultCh>> /\ pc \in Stopping /\ pc' \in Stopping
    BY <1>6 DEF Cancel, DrainDone, EmitStats, StatsDone, chVars, botVars
  <2>2. QED
    BY <1>0, <1>1, <2>1
<1>7. CASE EmitShutdown
  <2>1. /\ UNCHANGED <<bot, results, resultCh>>
        /\ pc = "shutdown" /\ pc' = "returned"
        /\ firstErr # "none" => firstErr' # "none"
    BY <1>7 DEF EmitShutdown, KeepFirst, chVars, botVars
  <2>2. Live = {}
    BY <2>1 DEF EveryBotCollected
  <2>3. AnyFailed => Outcome' = "failed"
    BY <2>1, NothingLeft DEF Outcome
  <2>4. /\ Phase = "stopping" /\ Phase' = "stopped"
        /\ Outcome' \in {"ok", "failed"}
    BY <2>1 DEF Phase, Outcome
  <2>5. QED
    BY <1>0, <2>1, <2>2, <2>3, <2>4 DEF Contract!Next, Contract!Stopped
<1>8. ASSUME NEW b \in Bots, BotReady(b) \/ BotReport(b)
      PROVE  Contract!Next \/ UNCHANGED Contract!supervisorVars
  <2>1. UNCHANGED <<results, resultCh, pc, firstErr>>
    BY <1>8 DEF BotReady, BotReport, mainVars, chVars
  <2>2. Live' = Live /\ Ended' = Ended
    BY <1>8 DEF BotReady, BotReport, Live, Ended, TypeOK
  <2>3. Phase' = Phase /\ Outcome' = Outcome /\ AnyFailed' = AnyFailed
    BY <2>1 DEF Phase, Outcome, AnyFailed, Elements
  <2>4. QED
    BY <2>2, <2>3 DEF Contract!supervisorVars
<1>9. ASSUME NEW b \in Bots, NEW err \in BotErr \cup {"none"}, BotReturn(b, err)
      PROVE  Contract!Next
  <2>1. /\ b \in Live
        /\ bot' = [bot EXCEPT ![b] = "ended"]
        /\ resultCh' = Append(resultCh, [bot |-> b, err |-> err])
        /\ UNCHANGED <<results, pc, firstErr>>
    BY <1>9 DEF BotReturn, mainVars
  <2>2. Live' = Live \ {b} /\ Ended' = Ended \cup {b}
    BY <2>1 DEF Live, Ended, TypeOK
  <2>3. Elements(resultCh') = Elements(resultCh) \cup {[bot |-> b, err |-> err]}
    <3>1. /\ Len(resultCh) \in Nat /\ DOMAIN resultCh = 1..Len(resultCh)
          /\ DOMAIN resultCh' = 1..(Len(resultCh) + 1)
          /\ \A i \in 1..Len(resultCh) : resultCh'[i] = resultCh[i]
          /\ resultCh'[Len(resultCh) + 1] = [bot |-> b, err |-> err]
      BY <2>1 DEF TypeOK
    <3>2. QED
      BY <3>1 DEF Elements
  <2>4. AnyFailed => AnyFailed'
    BY <2>1, <2>3 DEF AnyFailed
  <2>5. Phase' = Phase /\ Outcome' = Outcome
    BY <2>1 DEF Phase, Outcome
  <2>6. AnyFailed' \in {AnyFailed, TRUE}
    BY <2>4 DEF AnyFailed
  <2>7. Contract!End(b)
    BY <2>1, <2>2, <2>5, <2>6 DEF Contract!End
  <2>8. QED
    BY <2>7 DEF Contract!Next
<1>10. CASE Signal \/ Propagate \/ UNCHANGED vars
  <2>1. UNCHANGED <<bot, results, resultCh, pc, firstErr>>
    BY <1>10 DEF Signal, Propagate, vars, mainVars, chVars, botVars
  <2>2. Phase' = Phase /\ Outcome' = Outcome
    BY <2>1 DEF Phase, Outcome
  <2>3. QED
    BY <1>0, <2>1, <2>2 DEF Contract!supervisorVars
<1>11. QED
  BY <1>2, <1>3, <1>4, <1>5, <1>6, <1>7, <1>8, <1>9, <1>10
  DEF Next, Supervise, BotStep, Exited

\* The fleet implements the safety part of the supervisor's contract, for any number of bots.
THEOREM SafetyRefinement ==
    Spec => Contract!Init /\ [][Contract!Next]_(Contract!supervisorVars)
<1>1. Spec => [](TypeOK /\ LaunchInv /\ ResultInv /\ ErrorInv)
  BY LaunchInit, LaunchStep, ResultInit, ResultStep, ErrorInit, ErrorStep, PTL DEF Spec
<1>2. Spec => []EveryBotCollected
  BY CollectCorrect
<1>3. QED
  BY <1>1, <1>2, ContractInit, ContractStep, PTL DEF Spec

=============================================================================
