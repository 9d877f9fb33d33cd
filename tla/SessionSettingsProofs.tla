------------------------ MODULE SessionSettingsProofs ------------------------
(***************************************************************************)
(* What libtorrent has follows the settings, for any addresses, files of   *)
(* rules, torrents, rates and values.  The parts of the session share      *)
(* little: each has its own invariant, which the steps of the other parts  *)
(* leave alone.                                                            *)
(***************************************************************************)
EXTENDS SessionSettings, TLAPS

-----------------------------------------------------------------------------
(* Share limits.                                                           *)

LimitsType == limits \in [Seed -> Limits \union {None}]

(* More than LimitsAreWatched: limits that nothing is subject to count.    *)
TimerRuns == globalMax # {} \/ HasPerTorrentLimit(limits) => limitTimer

LimitsInv == LimitsType /\ TimerRuns

LEMMA NoneIsNoLimits == None \notin Limits /\ OwnLimits(None) = {}
<1>1. DOMAIN None = {}
  BY DEF None
<1>2. \A l \in Limits : DOMAIN l = Kind
  BY DEF Limits
<1>3. "ratio" \in Kind
  BY DEF Kind
<1> QED BY <1>1, <1>2, <1>3 DEF OwnLimits

(* The limits a torrent comes with: at most one of its own.                *)
LEMMA NewLimits ==
    ASSUME NEW l \in LimitsOfNew, ~InactiveOnly(l)
    PROVE  /\ l \in Limits
           /\ OwnLimits(l) # {} => l["ratio"] = "own" \/ l["seedingTime"] = "own"
<1>1. PICK kind \in Kind, limit \in Limit : l = [[k \in Kind |-> "global"] EXCEPT ![kind] = limit]
  BY DEF LimitsOfNew
<1>2. /\ l \in Limits /\ DOMAIN l = Kind
      /\ \A k \in Kind : k # kind => l[k] = "global"
  BY <1>1 DEF Limits, Limit
<1>3. OwnLimits(l) \subseteq {kind}
  BY <1>2 DEF OwnLimits
<1>4. ASSUME OwnLimits(l) # {} PROVE l["ratio"] = "own" \/ l["seedingTime"] = "own"
  <2>1. OwnLimits(l) = {kind} /\ l[kind] = "own"
    BY <1>3, <1>4 DEF OwnLimits
  <2>2. kind # "inactiveSeedingTime"
    BY <2>1 DEF InactiveOnly
  <2> QED BY <2>1, <2>2 DEF Kind
<1> QED BY <1>2, <1>4

LEMMA LimitsInitially == Init => LimitsInv
<1> SUFFICES ASSUME Init PROVE LimitsInv
  OBVIOUS
<1>1. limits = [t \in Seed |-> None] /\ globalMax = {}
  BY DEF Init, LimitsInit
<1>2. ~HasPerTorrentLimit(limits)
  BY <1>1, NoneIsNoLimits DEF HasPerTorrentLimit
<1> QED BY <1>1, <1>2 DEF LimitsInv, LimitsType, TimerRuns

LEMMA LimitsChanged ==
    ASSUME LimitsInv, ChangeLimits, ~AddsInactiveOnly
    PROVE  LimitsInv'
<1>0. LimitsType /\ TimerRuns
  BY DEF LimitsInv
<1>1. CASE \E kind \in Kind, isSet \in BOOLEAN : SetGlobalMax(kind, isSet)
  BY <1>0, <1>1 DEF SetGlobalMax, UpdateSeedingLimitTimer, LimitsInv, LimitsType, TimerRuns,
     HasPerTorrentLimit
<1>2. CASE \E act \in MaxRatioAction : SetMaxRatioAction(act)
  BY <1>0, <1>2 DEF SetMaxRatioAction, LimitsInv, LimitsType, TimerRuns, HasPerTorrentLimit
<1>3. CASE \E t \in Seed, l \in LimitsOfNew :
               (InactiveOnly(l) => AddsInactiveOnly) /\ CreateTorrent(t, l)
  <2>1. PICK t \in Seed, l \in LimitsOfNew : ~InactiveOnly(l) /\ CreateTorrent(t, l)
    BY <1>3
  <2>2. /\ limits' = [limits EXCEPT ![t] = l] /\ globalMax' = globalMax
        /\ limitTimer' = (limitTimer \/ l["ratio"] = "own" \/ l["seedingTime"] = "own")
    BY <2>1 DEF CreateTorrent
  <2>3. LimitsType'
    BY <1>0, <2>1, <2>2, NewLimits DEF LimitsType
  <2>4. ASSUME NEW u \in Seed, OwnLimits(limits'[u]) # {} PROVE limitTimer'
    <3>1. CASE u = t
      BY <1>0, <2>1, <2>2, <2>4, <3>1, NewLimits DEF LimitsType
    <3>2. CASE u # t
      <4>1. OwnLimits(limits[u]) # {}
        BY <1>0, <2>2, <2>4, <3>2 DEF LimitsType
      <4> QED BY <1>0, <2>2, <4>1 DEF TimerRuns, HasPerTorrentLimit
    <3> QED BY <3>1, <3>2
  <2>5. globalMax' # {} => limitTimer'
    BY <1>0, <2>2 DEF TimerRuns
  <2> QED BY <2>3, <2>4, <2>5 DEF LimitsInv, TimerRuns, HasPerTorrentLimit
<1>4. CASE \E t \in Seed, kind \in Kind, limit \in Limit : SetLimit(t, kind, limit)
  <2>1. PICK t \in Seed, kind \in Kind, limit \in Limit : SetLimit(t, kind, limit)
    BY <1>4
  <2>2. limits[t] \in Limits
    BY <1>0, <2>1 DEF SetLimit, Has, LimitsType
  <2>3. [limits[t] EXCEPT ![kind] = limit] \in Limits
    BY <2>2 DEF Limits
  <2>4. LimitsType'
    BY <1>0, <2>1, <2>3 DEF SetLimit, LimitsType
  <2> QED BY <2>1, <2>4 DEF SetLimit, UpdateSeedingLimitTimer, LimitsInv, TimerRuns, HasPerTorrentLimit
<1> QED BY <1>1, <1>2, <1>3, <1>4 DEF ChangeLimits

LEMMA LimitsReached ==
    ASSUME LimitsInv, StepOfLimits
    PROVE  LimitsInv'
<1>1. PICK due \in SUBSET Seed \ {{}} : ProcessShareLimits(due)
  BY DEF StepOfLimits, LimitsStep
<1>2. limitTimer /\ limitTimer'
  BY <1>1 DEF ProcessShareLimits
<1>3. LimitsType'
  <2> DEFINE removed == IF maxRatioAction = "Remove" THEN due ELSE {}
  <2>1. limits' = [t \in Seed |-> IF t \in removed THEN None ELSE limits[t]]
    BY <1>1 DEF ProcessShareLimits
  <2> HIDE DEF removed
  <2> QED BY <2>1 DEF LimitsInv, LimitsType
<1> QED BY <1>2, <1>3 DEF LimitsInv, TimerRuns

LEMMA LimitsLeftAlone ==
    ASSUME LimitsInv, UNCHANGED limitVars
    PROVE  LimitsInv'
BY DEF limitVars, LimitsInv, LimitsType, TimerRuns, HasPerTorrentLimit

LEMMA LimitsKept ==
    ASSUME LimitsInv, [Next]_vars, ~AddsInactiveOnly
    PROVE  LimitsInv'
<1>1. CASE ChangeLimits
  BY <1>1, LimitsChanged
<1>2. CASE StepOfLimits
  BY <1>2, LimitsReached
<1>3. CASE UNCHANGED limitVars
  BY <1>3, LimitsLeftAlone
<1>4. [Next]_vars => ChangeLimits \/ StepOfLimits \/ UNCHANGED limitVars
  BY DEF Next, vars, SetGlobalSpeedLimit, SetAltGlobalSpeedLimit, SetAltGlobalSpeedLimitEnabled,
     SetEndpoint, SetValue, SetQueueing, SetFilter, Ban, ChangeOrder, Configure,
     StepOfFilter, StepOfQueue
<1> QED BY <1>1, <1>2, <1>3, <1>4

LEMMA LimitsOfInv == LimitsInv => LimitsAreWatched
<1> SUFFICES ASSUME LimitsInv, NEW t \in Seed, Has(t), LimitsInForce(t) # {}
             PROVE  limitTimer
  BY DEF LimitsAreWatched
<1>1. limits[t] \in Limits
  BY DEF LimitsInv, LimitsType, Has
<1>2. PICK kind \in Kind : limits[t][kind] = "own" \/ kind \in globalMax
  BY DEF LimitsInForce
<1>3. kind \in globalMax \/ kind \in OwnLimits(limits[t])
  BY <1>1, <1>2 DEF OwnLimits, Limits
<1> QED BY <1>3 DEF LimitsInv, TimerRuns, HasPerTorrentLimit

(* The timer runs while a torrent has a limit in force, provided that no   *)
(* torrent comes with a limit on inactivity only (createTorrent).          *)
THEOREM Watched == ~AddsInactiveOnly => (Spec => []LimitsAreWatched)
<1> SUFFICES ASSUME ~AddsInactiveOnly PROVE Spec => []LimitsAreWatched
  OBVIOUS
<1>1. Init => LimitsInv
  BY LimitsInitially
<1>2. LimitsInv /\ [Next]_vars => LimitsInv'
  BY LimitsKept
<1> QED BY <1>1, <1>2, LimitsOfInv, PTL DEF Spec

-----------------------------------------------------------------------------
(* The queue of the torrents and the refreshing.                           *)

Answer == {UpdateToCome, Stats} \union {Update(order) : order \in Nat}

QueueFlags ==
    /\ queueing \in BOOLEAN /\ queueChanged \in BOOLEAN /\ needSaveQueue \in BOOLEAN
    /\ refreshEnqueued \in BOOLEAN /\ overtaken \in BOOLEAN

QueueType ==
    /\ QueueFlags
    /\ phase \in {"startup", "restored", "exiting", "ended"}
    /\ queue \in Nat
    /\ timers \in Nat
    /\ answers \in Seq(Answer)

(* The two answers of a refresh are counted off by m_refreshEnqueued; at   *)
(* startup there is an answer exactly while it is set.                     *)
RefreshInv ==
    /\ phase = "startup" =>
          \/ refreshEnqueued = TRUE /\ timers = 0 /\ Len(answers) = 1
          \/ refreshEnqueued = FALSE /\ timers = 0 /\ Len(answers) = 0
    /\ phase = "restored" =>
          \/ refreshEnqueued = TRUE /\ timers = 1 /\ Len(answers) = 0
          \/ refreshEnqueued = TRUE /\ timers = 0 /\ Len(answers) = 2
          \/ refreshEnqueued = FALSE /\ timers = 0 /\ Len(answers) = 1

(* While an order is to be stored and has not changed since it was asked   *)
(* for, what libtorrent answers is its order.                              *)
AnswersInv ==
    queueing /\ ~queueChanged /\ needSaveQueue /\ ~overtaken =>
        \A i \in DOMAIN answers :
            answers[i].is = "update" /\ answers[i].ready => answers[i].order = queue

QueueInv == QueueType /\ RefreshInv /\ AnswersInv /\ QueueIsStored /\ (Alive => ~overtaken)

LEMMA AnswerParts ==
    /\ UpdateToCome \in Answer /\ Stats \in Answer
    /\ ~UpdateToCome.ready /\ Stats.is # "update"
    /\ \A order \in Nat : Update(order) \in Answer /\ Update(order).order = order
BY DEF Answer, UpdateToCome, Stats, Update

LEMMA Counted ==
    ASSUME refreshEnqueued \in BOOLEAN, RefreshAnswered
    PROVE  \/ refreshEnqueued = TRUE /\ refreshEnqueued' = FALSE /\ timers' = timers
           \/ refreshEnqueued = FALSE /\ refreshEnqueued' = TRUE /\ timers' = timers + 1
BY Zenon DEF RefreshAnswered

LEMMA QueueInitially == Init => QueueInv
<1> SUFFICES ASSUME QueueInit PROVE QueueInv
  BY DEF Init
<1>0. QueueFlags
  BY DEF QueueInit, QueueFlags
<1>1. QueueType /\ Len(answers) = 0
  BY <1>0 DEF QueueInit, QueueType
<1>2. RefreshInv
  BY <1>1 DEF QueueInit, RefreshInv
<1>3. AnswersInv /\ QueueIsStored /\ ~overtaken
  BY DEF QueueInit, AnswersInv, QueueIsStored
<1> QED BY <1>1, <1>2, <1>3 DEF QueueInv

LEMMA QueueToggled ==
    ASSUME QueueInv, NEW enabled \in BOOLEAN, SetQueueingSystemEnabled(enabled), phase # "exiting"
    PROVE  QueueInv'
BY DEF SetQueueingSystemEnabled, QueueInv, QueueType, QueueFlags, RefreshInv, AnswersInv, QueueIsStored, Alive

LEMMA QueueOrdered ==
    ASSUME QueueInv, ChangeQueue
    PROVE  QueueInv'
BY DEF ChangeQueue, QueueInv, QueueType, QueueFlags, RefreshInv, AnswersInv, QueueIsStored, Alive

(* An update that is to come is as good as none.                           *)
LEMMA AnswersAppended ==
    ASSUME QueueInv, answers' = Append(answers, UpdateToCome),
           UNCHANGED <<queueing, queue>>, needSaveQueue' /\ ~queueChanged' /\ ~overtaken' =>
               AnswersInv /\ (\A i \in DOMAIN answers :
                   answers[i].is = "update" /\ answers[i].ready => answers[i].order = queue)
    PROVE  AnswersInv' /\ answers' \in Seq(Answer) /\ Len(answers') = Len(answers) + 1
<1>1. answers \in Seq(Answer)
  BY DEF QueueInv, QueueType
<1>2. /\ answers' \in Seq(Answer) /\ Len(answers') = Len(answers) + 1
      /\ \A i \in DOMAIN answers' :
            \/ i \in DOMAIN answers /\ answers'[i] = answers[i]
            \/ answers'[i] = UpdateToCome
  BY <1>1, AnswerParts
<1> QED BY <1>2, AnswerParts DEF AnswersInv

LEMMA AddTorrentAlertsQueue ==
    ASSUME QueueInv, AddTorrentAlertsReceived
    PROVE  QueueInv'
<1>1. AnswersInv' /\ answers' \in Seq(Answer) /\ Len(answers') = Len(answers) + 1
  <2>1. needSaveQueue' /\ ~queueChanged' /\ ~overtaken' =>
            AnswersInv /\ (\A i \in DOMAIN answers :
                answers[i].is = "update" /\ answers[i].ready => answers[i].order = queue)
    BY DEF AddTorrentAlertsReceived, QueueInv, QueueType, RefreshInv
  <2> QED BY <2>1, AnswersAppended DEF AddTorrentAlertsReceived
<1> QED BY <1>1 DEF AddTorrentAlertsReceived, QueueInv, QueueType, QueueFlags, RefreshInv, QueueIsStored, Alive

LEMMA EndStartupQueue ==
    ASSUME QueueInv, EndStartup
    PROVE  QueueInv'
<1>0. QueueType /\ RefreshInv
  BY DEF QueueInv
<1>1. \/ refreshEnqueued = TRUE /\ refreshEnqueued' = FALSE /\ timers' = timers
      \/ refreshEnqueued = FALSE /\ refreshEnqueued' = TRUE /\ timers' = timers + 1
  BY <1>0, Counted DEF EndStartup, QueueType, QueueFlags
<1>3. RefreshInv'
  BY <1>0, <1>1 DEF EndStartup, QueueType, RefreshInv
<1>4. QueueFlags'
  BY <1>0, <1>1 DEF EndStartup, QueueType, QueueFlags
<1>5. QueueType'
  <2>1. timers' \in Nat
    BY <1>0, <1>1 DEF QueueType
  <2> QED BY <1>0, <1>4, <2>1, Zenon DEF EndStartup, QueueType
<1>2. AnswersInv' /\ QueueIsStored' /\ (Alive => ~overtaken)'
  BY DEF EndStartup, QueueInv, AnswersInv, QueueIsStored, Alive
<1> QED BY <1>2, <1>3, <1>5 DEF QueueInv

LEMMA RefreshTimeoutQueue ==
    ASSUME QueueInv, RefreshTimeout
    PROVE  QueueInv'
<1>1. phase = "restored" /\ refreshEnqueued = TRUE /\ timers = 1 /\ answers = <<>>
  BY DEF RefreshTimeout, Alive, QueueInv, QueueType, RefreshInv
<1>2. answers' = <<UpdateToCome, Stats>>
  BY <1>1 DEF RefreshTimeout
<1>3. answers' \in Seq(Answer) /\ Len(answers') = 2
  BY <1>2, AnswerParts
<1>4. AnswersInv'
  BY <1>2, AnswerParts DEF AnswersInv
<1>5. timers' = 0 /\ phase' = phase /\ refreshEnqueued' = refreshEnqueued /\ queue' = queue
  BY <1>1 DEF RefreshTimeout
<1>6. QueueFlags'
  BY DEF RefreshTimeout, QueueInv, QueueType, QueueFlags
<1>7. QueueType' /\ RefreshInv'
  BY <1>1, <1>3, <1>5, <1>6 DEF QueueInv, QueueType, RefreshInv
<1>8. QueueIsStored' /\ (Alive => ~overtaken)'
  BY DEF RefreshTimeout, QueueInv, QueueType, QueueFlags, QueueIsStored, Alive
<1> QED BY <1>4, <1>7, <1>8 DEF QueueInv

LEMMA NativeAnswersQueue ==
    ASSUME QueueInv, NativeAnswers
    PROVE  QueueInv'
<1>1. PICK i \in DOMAIN answers : answers' = [answers EXCEPT ![i] = Update(queue)]
  BY DEF NativeAnswers
<1>2. /\ answers \in Seq(Answer) /\ Update(queue) \in Answer /\ Update(queue).order = queue
  BY AnswerParts DEF QueueInv, QueueType
<1>3. answers' \in Seq(Answer) /\ Len(answers') = Len(answers)
  BY <1>1, <1>2
<1>4. AnswersInv'
  BY <1>1, <1>2 DEF NativeAnswers, QueueInv, AnswersInv
<1> QED BY <1>3, <1>4 DEF NativeAnswers, QueueInv, QueueType, QueueFlags, RefreshInv, QueueIsStored, Alive

(* What both kinds of answers have in common.                              *)
LEMMA AnswerHandled ==
    ASSUME QueueInv, NEW is, HandleAnswer(is), phase' = phase
    PROVE  /\ answers' \in Seq(Answer) /\ timers' \in Nat /\ refreshEnqueued' \in BOOLEAN
           /\ RefreshInv'
           /\ \A i \in DOMAIN answers' : i + 1 \in DOMAIN answers /\ answers'[i] = answers[i + 1]
<1>1. answers \in Seq(Answer) /\ answers # <<>>
  BY DEF HandleAnswer, QueueInv, QueueType
<1>2. /\ answers' \in Seq(Answer) /\ Len(answers') = Len(answers) - 1
      /\ \A i \in DOMAIN answers' : i + 1 \in DOMAIN answers /\ answers'[i] = answers[i + 1]
  BY <1>1 DEF HandleAnswer
<1>3. \/ refreshEnqueued = TRUE /\ refreshEnqueued' = FALSE /\ timers' = timers
      \/ refreshEnqueued = FALSE /\ refreshEnqueued' = TRUE /\ timers' = timers + 1
  BY Counted DEF HandleAnswer, QueueInv, QueueType, QueueFlags
<1>4. timers' \in Nat /\ refreshEnqueued' \in BOOLEAN
  <2>1. timers \in Nat
    BY DEF QueueInv, QueueType
  <2>2. timers' \in Nat
    BY <1>3, <2>1
  <2>3. refreshEnqueued' \in BOOLEAN
    BY <1>3, Zenon
  <2> QED BY <2>2, <2>3
<1>5. RefreshInv'
  BY <1>1, <1>2, <1>3 DEF QueueInv, QueueType, RefreshInv
<1> QED BY <1>2, <1>4, <1>5

LEMMA StateUpdateQueue ==
    ASSUME QueueInv, HandleStateUpdateAlert
    PROVE  QueueInv'
<1>1. /\ answers' \in Seq(Answer) /\ timers' \in Nat /\ refreshEnqueued' \in BOOLEAN
      /\ RefreshInv'
  BY AnswerHandled DEF HandleStateUpdateAlert
<1>2. AnswersInv' /\ ~needSaveQueue'
  BY DEF HandleStateUpdateAlert, AnswersInv
<1>3. QueueIsStored'
  <2>1. answers # <<>> /\ answers \in Seq(Answer) /\ Head(answers) = answers[1] /\ 1 \in DOMAIN answers
    BY DEF HandleStateUpdateAlert, HandleAnswer, QueueInv, QueueType
  <2>2. answers[1].is = "update" /\ answers[1].ready
    BY <2>1 DEF HandleStateUpdateAlert, HandleAnswer
  <2> QED BY <2>1, <2>2 DEF HandleStateUpdateAlert, QueueInv, AnswersInv, QueueIsStored
<1> QED BY <1>1, <1>2, <1>3 DEF HandleStateUpdateAlert, QueueInv, QueueType, QueueFlags, Alive

LEMMA SessionStatsQueue ==
    ASSUME QueueInv, HandleSessionStatsAlert
    PROVE  QueueInv'
<1>1. /\ answers' \in Seq(Answer) /\ timers' \in Nat /\ refreshEnqueued' \in BOOLEAN
      /\ RefreshInv'
      /\ \A i \in DOMAIN answers' : i + 1 \in DOMAIN answers /\ answers'[i] = answers[i + 1]
  BY AnswerHandled DEF HandleSessionStatsAlert
<1>2. AnswersInv'
  BY <1>1 DEF HandleSessionStatsAlert, QueueInv, AnswersInv
<1> QED BY <1>1, <1>2 DEF HandleSessionStatsAlert, QueueInv, QueueType, QueueFlags, QueueIsStored, Alive

LEMMA BeginExitQueue ==
    ASSUME QueueInv, BeginExit
    PROVE  QueueInv'
<1>1. QueueFlags'
  BY DEF BeginExit, QueueInv, QueueType, QueueFlags
<1>2. ~overtaken /\ phase' = "exiting" /\ ~Alive'
  BY DEF BeginExit, QueueInv, Alive
<1>3. AnswersInv' /\ answers' \in Seq(Answer)
  <2>1. CASE queueChanged
    <3>1. needSaveQueue' /\ ~queueChanged' /\ ~overtaken' =>
              AnswersInv /\ (\A i \in DOMAIN answers :
                  answers[i].is = "update" /\ answers[i].ready => answers[i].order = queue)
      BY <2>1 DEF BeginExit, AnswersInv
    <3> QED BY <2>1, <3>1, AnswersAppended DEF BeginExit
  <2>2. CASE ~queueChanged
    <3>1. answers' = answers
      BY <2>2 DEF BeginExit
    <3> QED BY <1>2, <2>2, <3>1 DEF BeginExit, QueueInv, QueueType, AnswersInv
  <2> QED BY <2>1, <2>2
<1>4. QueueType'
  BY <1>1, <1>2, <1>3 DEF BeginExit, QueueInv, QueueType
<1>5. RefreshInv'
  BY <1>2 DEF RefreshInv
<1>6. QueueIsStored'
  BY <1>2 DEF BeginExit, QueueInv, QueueIsStored
<1> QED BY <1>2, <1>3, <1>4, <1>5, <1>6 DEF QueueInv

LEMMA EndExitQueue ==
    ASSUME QueueInv, EndExit
    PROVE  QueueInv'
<1>1. /\ phase' = "ended"
      /\ UNCHANGED <<queueing, queue, storedQueue, queueChanged, needSaveQueue, refreshEnqueued,
                     timers, answers, overtaken>>
  BY DEF EndExit
<1> QED BY <1>1 DEF QueueInv, QueueType, QueueFlags, RefreshInv, AnswersInv, QueueIsStored, Alive

LEMMA QueueLeftAlone ==
    ASSUME QueueInv, UNCHANGED queueVars
    PROVE  QueueInv'
BY DEF queueVars, QueueInv, QueueType, QueueFlags, RefreshInv, AnswersInv, QueueIsStored, Alive

LEMMA QueueKept ==
    ASSUME QueueInv, [Next]_vars
    PROVE  QueueInv'
<1>1. CASE \E enabled \in BOOLEAN : SetQueueing(enabled)
  BY <1>1, QueueToggled DEF SetQueueing, Call, Alive
<1>2. CASE ChangeOrder
  BY <1>2, QueueOrdered DEF ChangeOrder
<1>3. CASE StepOfQueue
  BY <1>3, AddTorrentAlertsQueue, EndStartupQueue, RefreshTimeoutQueue, NativeAnswersQueue,
     StateUpdateQueue, SessionStatsQueue, BeginExitQueue, EndExitQueue DEF StepOfQueue, QueueStep
<1>4. CASE UNCHANGED queueVars
  BY <1>4, QueueLeftAlone
<1>5. \/ \E enabled \in BOOLEAN : SetQueueing(enabled)
      \/ ChangeOrder \/ StepOfQueue
      \/ UNCHANGED queueVars
  BY DEF Next, vars, SetGlobalSpeedLimit, SetAltGlobalSpeedLimit, SetAltGlobalSpeedLimitEnabled,
     SetEndpoint, SetValue, SetFilter, Ban, ChangeLimits, Configure, StepOfFilter, StepOfLimits
<1> QED BY <1>1, <1>2, <1>3, <1>4, <1>5

(* The order of the torrents that is stored is libtorrent's unless a       *)
(* change waits for the next update (handleStateUpdateAlert), whenever the *)
(* session ends, if no update was on its way then.                         *)
THEOREM QueueStored == Spec => []QueueIsStored
<1>1. Init => QueueInv
  BY QueueInitially
<1>2. QueueInv /\ [Next]_vars => QueueInv'
  BY QueueKept
<1>3. QueueInv => QueueIsStored
  BY DEF QueueInv
<1> QED BY <1>1, <1>2, <1>3, PTL DEF Spec

(* The chain of refreshes neither stops nor doubles (enqueueRefresh).      *)
THEOREM Refreshing == Spec => []RefreshGoesOn
<1>1. Init => QueueInv
  BY QueueInitially
<1>2. QueueInv /\ [Next]_vars => QueueInv'
  BY QueueKept
<1>3. QueueInv => RefreshGoesOn
  <2> SUFFICES ASSUME QueueType, RefreshInv PROVE RefreshGoesOn
    BY DEF QueueInv
  <2>1. Len(answers) = 0 <=> answers = <<>>
    BY DEF QueueType
  <2> QED BY <2>1 DEF RefreshInv, RefreshGoesOn
<1> QED BY <1>1, <1>2, <1>3, PTL DEF Spec

-----------------------------------------------------------------------------
(* The settings that configure and applyBandwidthLimits hand over.         *)

Setting == {"rate", "endpoint", "plain", "active", "slow", "peerClasses"}

SettingsType ==
    /\ DOMAIN native = Setting /\ native = [name \in Setting |-> native[name]]
    /\ values \in [Group -> Value]
    /\ scheduled \in BOOLEAN /\ listenConfigured \in BOOLEAN

(* An endpoint that has not been handed over makes configure come.         *)
EndpointInv ==
    /\ listenConfigured \/ scheduled
    /\ listenConfigured => native.endpoint = endpoint

SettingsInv == SettingsType /\ EndpointInv /\ SettingsInForce

LEMMA SettingsInitially == Init => SettingsInv
<1> SUFFICES ASSUME Init PROVE SettingsInv
  OBVIOUS
<1>1. DOMAIN native = Setting /\ native = [name \in Setting |-> native[name]]
  BY DEF Init, Setting
<1>2. values \in [Group -> Value] /\ scheduled \in BOOLEAN /\ listenConfigured \in BOOLEAN
  BY SettingsAssumption DEF Init
<1>3. EndpointInv
  BY DEF Init, EndpointInv
<1>4. SettingsInForce
  BY DEF Init, SettingsInForce
<1> QED BY <1>1, <1>2, <1>3, <1>4 DEF SettingsInv, SettingsType

(* A setter that has configure scheduled leaves nothing to show.           *)
LEMMA SettingsScheduled ==
    ASSUME SettingsInv, scheduled' = TRUE, UNCHANGED native, values' \in [Group -> Value],
           listenConfigured' \in BOOLEAN, listenConfigured' => listenConfigured /\ endpoint' = endpoint
    PROVE  SettingsInv'
BY DEF SettingsInv, SettingsType, EndpointInv, SettingsInForce

LEMMA SettingsLeftAlone ==
    ASSUME SettingsInv, UNCHANGED <<configVars, queueing>>
    PROVE  SettingsInv'
BY DEF configVars, limitSettings, SettingsInv, SettingsType, EndpointInv, SettingsInForce, SpeedLimit

(* A speed limit of the mode that is off is not in force.                  *)
LEMMA GlobalSpeedLimitSet ==
    ASSUME SettingsInv, NEW rate, SetGlobalSpeedLimit(rate)
    PROVE  SettingsInv'
<1>1. CASE altEnabled
  BY <1>1 DEF SetGlobalSpeedLimit, queueVars, SettingsInv, SettingsType, EndpointInv,
     SettingsInForce, SpeedLimit
<1>2. CASE ~altEnabled
  BY <1>2, SettingsScheduled DEF SetGlobalSpeedLimit, ConfigureDeferred, SettingsInv, SettingsType
<1> QED BY <1>1, <1>2

LEMMA AltSpeedLimitSet ==
    ASSUME SettingsInv, NEW rate, SetAltGlobalSpeedLimit(rate)
    PROVE  SettingsInv'
<1>1. CASE ~altEnabled
  BY <1>1 DEF SetAltGlobalSpeedLimit, queueVars, SettingsInv, SettingsType, EndpointInv,
     SettingsInForce, SpeedLimit
<1>2. CASE altEnabled
  BY <1>2, SettingsScheduled DEF SetAltGlobalSpeedLimit, ConfigureDeferred, SettingsInv, SettingsType
<1> QED BY <1>1, <1>2

LEMMA AltSpeedToggled ==
    ASSUME SettingsInv, NEW enabled \in BOOLEAN, SetAltGlobalSpeedLimitEnabled(enabled)
    PROVE  SettingsInv'
<1>1. /\ native' = [native EXCEPT !.rate = SpeedLimit(enabled)]
      /\ altEnabled' = enabled
      /\ UNCHANGED <<globalLimit, altLimit, endpoint, values, listenConfigured, scheduled, queueing>>
  BY DEF SetAltGlobalSpeedLimitEnabled, queueVars
<1>2. /\ DOMAIN native' = Setting /\ native' = [name \in Setting |-> native'[name]]
      /\ native'.rate = SpeedLimit(enabled)
      /\ \A name \in Setting : name # "rate" => native'[name] = native[name]
  BY <1>1 DEF SettingsInv, SettingsType, Setting
<1>3. SpeedLimit(altEnabled)' = SpeedLimit(enabled)
  BY <1>1 DEF SpeedLimit
<1>4. SettingsType' /\ EndpointInv'
  BY <1>1, <1>2 DEF SettingsInv, SettingsType, EndpointInv, Setting
<1>5. SettingsInForce'
  BY <1>1, <1>2, <1>3 DEF SettingsInv, SettingsInForce, Setting
<1> QED BY <1>4, <1>5 DEF SettingsInv

LEMMA OtherSet ==
    ASSUME SettingsInv,
           \/ \E new \in Value : SetEndpoint(new)
           \/ \E value \in Value : SetValue(value)
           \/ \E enabled \in BOOLEAN : SetQueueing(enabled)
           \/ SetFilter
    PROVE  SettingsInv'
<1>0. values \in [Group -> Value] /\ listenConfigured \in BOOLEAN
  BY DEF SettingsInv, SettingsType
<1>1. ASSUME NEW new \in Value, SetEndpoint(new) PROVE SettingsInv'
  BY <1>0, <1>1, SettingsScheduled DEF SetEndpoint, ConfigureDeferred
<1>2. ASSUME NEW value \in Value, SetValue(value) PROVE SettingsInv'
  <2>1. values' \in [Group -> Value]
    BY <1>0, <1>2 DEF SetValue, SetPlain, SetQueueingLimit, SetPeerClasses
  <2> QED BY <1>0, <1>2, <2>1, SettingsScheduled DEF SetValue, ConfigureDeferred
<1>3. ASSUME NEW enabled \in BOOLEAN, SetQueueing(enabled) PROVE SettingsInv'
  BY <1>0, <1>3, SettingsScheduled DEF SetQueueing, ConfigureDeferred
<1>4. CASE SetFilter
  BY <1>0, <1>4, SettingsScheduled DEF SetFilter, ConfigureDeferred
<1> QED BY <1>1, <1>2, <1>3, <1>4

LEMMA Configured ==
    ASSUME SettingsInv, Configure
    PROVE  SettingsInv'
<1>1. /\ native' = [LTSettings(native) EXCEPT !.peerClasses = values["peerClasses"]]
      /\ UNCHANGED <<globalLimit, altLimit, altEnabled, endpoint, values, queueing>>
      /\ listenConfigured' = TRUE /\ scheduled' = FALSE
  BY DEF Configure, limitSettings, queueVars
<1>2. /\ DOMAIN native' = Setting /\ native' = [name \in Setting |-> native'[name]]
      /\ native'.rate = SpeedLimit(altEnabled)
      /\ native'.endpoint = IF listenConfigured THEN native.endpoint ELSE endpoint
      /\ native'.plain = values["plain"]
      /\ native'.active = IF queueing THEN values["queueing"] ELSE Unlimited
      /\ native'.slow = IF queueing THEN values["queueing"] ELSE native.slow
      /\ native'.peerClasses = values["peerClasses"]
  BY <1>1 DEF SettingsInv, SettingsType, Setting, LTSettings
<1>3. native'.endpoint = endpoint
  BY <1>2 DEF SettingsInv, EndpointInv
<1>4. SpeedLimit(altEnabled)' = SpeedLimit(altEnabled)
  BY <1>1 DEF SpeedLimit
<1>5. SettingsType' /\ EndpointInv'
  BY <1>1, <1>2, <1>3 DEF SettingsInv, SettingsType, EndpointInv
<1>6. SettingsInForce'
  BY <1>1, <1>2, <1>3, <1>4 DEF SettingsInForce
<1> QED BY <1>5, <1>6 DEF SettingsInv

LEMMA QueueingLeftAlone == QueueStep => UNCHANGED queueing
BY DEF QueueStep, AddTorrentAlertsReceived, EndStartup, RefreshTimeout, NativeAnswers,
   HandleStateUpdateAlert, HandleSessionStatsAlert, BeginExit, EndExit

LEMMA SettingsKept ==
    ASSUME SettingsInv, [Next]_vars
    PROVE  SettingsInv'
<1>1. CASE UNCHANGED <<configVars, queueing>>
  BY <1>1, SettingsLeftAlone
<1>2. CASE Ban \/ ChangeOrder \/ ChangeLimits \/ StepOfFilter \/ StepOfQueue \/ StepOfLimits \/ UNCHANGED vars
  <2>1. UNCHANGED configVars
    BY <1>2 DEF Ban, ChangeOrder, ChangeLimits, StepOfFilter, StepOfQueue, StepOfLimits, vars
  <2>2. UNCHANGED queueing
    BY <1>2, QueueingLeftAlone DEF Ban, ChangeOrder, ChangeQueue, ChangeLimits, StepOfFilter,
       StepOfQueue, StepOfLimits, vars, queueVars
  <2> QED BY <1>1, <2>1, <2>2
<1> QED BY <1>2, GlobalSpeedLimitSet, AltSpeedLimitSet, AltSpeedToggled, OtherSet, Configured DEF Next

(* Unless configure is still to come libtorrent has the settings that are  *)
(* stored, in the mode that is on (configure, applyBandwidthLimits).       *)
THEOREM InForce == Spec => []SettingsInForce
<1>1. Init => SettingsInv
  BY SettingsInitially
<1>2. SettingsInv /\ [Next]_vars => SettingsInv'
  BY SettingsKept
<1>3. SettingsInv => SettingsInForce
  BY DEF SettingsInv
<1> QED BY <1>1, <1>2, <1>3, PTL DEF Spec

-----------------------------------------------------------------------------
(* The IP filter.                                                          *)

Parser == [file : File, running : BOOLEAN]
Reading == [ip : IP, filter : SUBSET (IP \union File)]

FilterType ==
    /\ filterFile \in File
    /\ bannedIPs \in SUBSET IP
    /\ nativeFilter \in SUBSET (IP \union File)
    /\ parser \in Parser \union {NoParser}
    /\ signals \in Seq({"parsed", "error"})
    /\ jobs \in Seq(IP)
    /\ reading \in Reading \union {NotReading}

(* The parser is the one the settings ask for, unless they are to be       *)
(* configured; and the last signal of a parser that has ended is its own.  *)
ParserInv ==
    /\ filterConfigured \/ scheduled
    /\ filterConfigured /\ filtering => parser # NoParser /\ parser.file = filterFile
    /\ filterConfigured /\ ~filtering => parser = NoParser
    /\ parser # NoParser /\ ~parser.running /\ signals # <<>> =>
          signals[Len(signals)] = (IF parser.file \in Broken THEN "error" ELSE "parsed")

(* The rules in the filter are those of the parser, once it has reported,  *)
(* and what the worker has read is the filter still.                       *)
RulesInv ==
    ~raced =>
        /\ parser = NoParser => nativeFilter \cap File = {}
        /\ parser # NoParser /\ ~parser.running /\ signals = <<>> =>
              nativeFilter \cap File = RulesOf(parser.file)
        /\ reading # NotReading => reading.filter = nativeFilter

(* A banned address is in the filter, or on the way to it.                 *)
OnTheWay(ip) ==
    \/ \E i \in DOMAIN jobs : jobs[i] = ip
    \/ reading # NotReading /\ reading.ip = ip
    \/ ~filterConfigured
    \/ parser # NoParser /\ (parser.running \/ signals # <<>>)

BansInv == ~raced => \A ip \in bannedIPs : ip \in nativeFilter \/ OnTheWay(ip)

FilterInv == FilterType /\ ParserInv /\ RulesInv /\ BansInv

LEMMA ParserParts ==
    \A file, running : /\ [file |-> file, running |-> running] # NoParser
                       /\ [file |-> file, running |-> running].file = file
                       /\ [file |-> file, running |-> running].running = running
<1> TAKE file, running
<1>1. "running" \in DOMAIN [file |-> file, running |-> running]
  OBVIOUS
<1>2. "running" \notin DOMAIN NoParser
  BY DEF NoParser
<1> QED BY <1>1, <1>2

LEMMA ReadingParts ==
    \A ip, filter : /\ [ip |-> ip, filter |-> filter] # NotReading
                    /\ [ip |-> ip, filter |-> filter].ip = ip
                    /\ [ip |-> ip, filter |-> filter].filter = filter
<1> TAKE ip, filter
<1>1. "filter" \in DOMAIN [ip |-> ip, filter |-> filter]
  OBVIOUS
<1>2. "filter" \notin DOMAIN NotReading
  BY DEF NotReading
<1> QED BY <1>1, <1>2

LEMMA RulesAreRules == \A file \in File : RulesOf(file) \subseteq File
BY DEF RulesOf

LEMMA FilterInitially == Init => FilterInv
<1> SUFFICES ASSUME Init PROVE FilterInv
  OBVIOUS
<1>1. FilterType
  BY DEF Init, FilterInit, FilterType
<1>2. ParserInv
  BY DEF Init, FilterInit, ParserInv
<1>3. RulesInv /\ BansInv
  BY DEF Init, FilterInit, RulesInv, BansInv
<1> QED BY <1>1, <1>2, <1>3 DEF FilterInv

(* A filter that is replaced has the banned addresses, and the given rules *)
(* and no others.                                                          *)
LEMMA Replaced ==
    ASSUME FilterType, NEW rules \in SUBSET File, ReplaceFilter(rules)
    PROVE  /\ nativeFilter' \in SUBSET (IP \union File)
           /\ bannedIPs \subseteq nativeFilter'
           /\ nativeFilter' \cap File = rules
           /\ ~raced' => reading = NotReading
BY IPFilterAssumption DEF FilterType, ReplaceFilter

LEMMA FilterLeftAlone ==
    ASSUME FilterInv, UNCHANGED <<filterVars, filterConfigured>>, scheduled => scheduled'
    PROVE  FilterInv'
<1>1. UNCHANGED <<filtering, filterFile, bannedIPs, nativeFilter, parser, signals, jobs, reading,
                  raced, filterConfigured>>
  BY DEF filterVars
<1>2. FilterType'
  BY <1>1 DEF FilterInv, FilterType
<1>3. ParserInv'
  BY <1>1 DEF FilterInv, ParserInv
<1>4. RulesInv' /\ BansInv'
  BY <1>1 DEF FilterInv, RulesInv, BansInv, OnTheWay
<1> QED BY <1>2, <1>3, <1>4 DEF FilterInv

LEMMA FilterSet ==
    ASSUME FilterInv, SetFilter
    PROVE  FilterInv'
<1>1. /\ filterConfigured' = FALSE /\ scheduled' = TRUE
      /\ UNCHANGED <<nativeFilter, parser, signals, jobs, reading, raced>>
  BY DEF SetFilter, ConfigureDeferred
<1>2. filterFile' \in File /\ bannedIPs' \in SUBSET IP
  BY DEF SetFilter, SetIPFilteringEnabled, SetIPFilterFile, SetBannedIPs, FilterInv, FilterType
<1>3. FilterType'
  BY <1>1, <1>2 DEF FilterInv, FilterType
<1>4. ParserInv'
  BY <1>1 DEF FilterInv, ParserInv
<1>5. RulesInv' /\ BansInv'
  BY <1>1 DEF FilterInv, RulesInv, BansInv, OnTheWay
<1> QED BY <1>3, <1>4, <1>5 DEF FilterInv

LEMMA Banned ==
    ASSUME FilterInv, Ban
    PROVE  FilterInv'
<1>1. PICK ip \in IP : BanIP(ip)
  BY DEF Ban
<1>2. /\ jobs' = Append(jobs, ip) /\ bannedIPs' = bannedIPs \union {ip}
      /\ UNCHANGED <<filtering, filterFile, nativeFilter, parser, signals, reading, raced,
                     filterConfigured, scheduled>>
  BY <1>1 DEF BanIP, Ban, configVars
<1>3. /\ jobs' \in Seq(IP)
      /\ \E i \in DOMAIN jobs' : jobs'[i] = ip
      /\ \A i \in DOMAIN jobs : i \in DOMAIN jobs' /\ jobs'[i] = jobs[i]
  BY <1>2 DEF FilterInv, FilterType
<1>4. FilterType'
  BY <1>2, <1>3 DEF FilterInv, FilterType
<1>5. ParserInv' /\ RulesInv'
  BY <1>2 DEF FilterInv, ParserInv, RulesInv
<1>6. BansInv'
  BY <1>2, <1>3 DEF FilterInv, BansInv, OnTheWay
<1> QED BY <1>4, <1>5, <1>6 DEF FilterInv

LEMMA FilterConfigured ==
    ASSUME FilterInv, Configure
    PROVE  FilterInv'
<1>1. /\ filterConfigured' = TRUE
      /\ UNCHANGED <<filtering, filterFile, bannedIPs, signals, jobs, reading>>
  BY DEF Configure
<1>2. CASE filterConfigured
  <2>1. UNCHANGED <<parser, nativeFilter, raced>>
    BY <1>2 DEF Configure
  <2>2. FilterType' /\ ParserInv'
    BY <1>1, <1>2, <2>1 DEF FilterInv, FilterType, ParserInv
  <2>3. RulesInv' /\ BansInv'
    BY <1>1, <1>2, <2>1 DEF FilterInv, RulesInv, BansInv, OnTheWay
  <2> QED BY <2>2, <2>3 DEF FilterInv
<1>3. CASE ~filterConfigured /\ filtering
  <2>1. /\ parser' = [file |-> filterFile, running |-> TRUE]
        /\ UNCHANGED <<nativeFilter, raced>>
    BY <1>3 DEF Configure, EnableIPFilter
  <2>2. parser' # NoParser /\ parser'.file = filterFile /\ parser'.running = TRUE
    BY <2>1, ParserParts
  <2>3. FilterType'
    BY <1>1, <2>1 DEF FilterInv, FilterType, Parser
  <2>4. ParserInv'
    BY <1>1, <1>3, <2>2 DEF ParserInv
  <2>5. RulesInv' /\ BansInv'
    BY <1>1, <2>1, <2>2 DEF FilterInv, RulesInv, BansInv, OnTheWay
  <2> QED BY <2>3, <2>4, <2>5 DEF FilterInv
<1>4. CASE ~filterConfigured /\ ~filtering
  <2>1. parser' = NoParser /\ ReplaceFilter({})
    BY <1>4 DEF Configure, DisableIPFilter
  <2>2. /\ nativeFilter' \in SUBSET (IP \union File)
        /\ bannedIPs \subseteq nativeFilter'
        /\ nativeFilter' \cap File = {}
        /\ ~raced' => reading = NotReading
    BY <2>1, Replaced DEF FilterInv
  <2>3. FilterType' /\ ParserInv'
    BY <1>1, <1>4, <2>1, <2>2 DEF FilterInv, FilterType, ParserInv
  <2>4. RulesInv' /\ BansInv'
    BY <1>1, <2>1, <2>2 DEF RulesInv, BansInv
  <2> QED BY <2>3, <2>4 DEF FilterInv
<1> QED BY <1>2, <1>3, <1>4

(* After a replacement that the worker has not crossed, only the rules     *)
(* have to be the right ones.                                              *)
LEMMA SignalReplaced ==
    ASSUME FilterInv, NEW rules \in SUBSET File, ReplaceFilter(rules),
           signals # <<>>, signals' = Tail(signals),
           UNCHANGED <<filtering, filterFile, bannedIPs, parser, jobs, reading, filterConfigured, scheduled>>,
           parser = NoParser => rules = {},
           parser # NoParser /\ ~parser.running /\ signals' = <<>> => rules = RulesOf(parser.file)
    PROVE  FilterInv'
<1>1. /\ nativeFilter' \in SUBSET (IP \union File)
      /\ bannedIPs \subseteq nativeFilter'
      /\ nativeFilter' \cap File = rules
      /\ ~raced' => reading = NotReading
  BY Replaced DEF FilterInv
<1>2. /\ signals' \in Seq({"parsed", "error"})
      /\ signals' # <<>> => signals'[Len(signals')] = signals[Len(signals)]
  BY DEF FilterInv, FilterType
<1>3. FilterType'
  BY <1>1, <1>2 DEF FilterInv, FilterType
<1>4. ParserInv'
  BY <1>2 DEF FilterInv, ParserInv
<1>5. RulesInv' /\ BansInv'
  BY <1>1 DEF RulesInv, BansInv
<1> QED BY <1>3, <1>4, <1>5 DEF FilterInv

LEMMA ParserEnded ==
    ASSUME FilterInv, ParserEnds, UNCHANGED <<filterConfigured, scheduled>>
    PROVE  FilterInv'
<1> DEFINE verdict == IF parser.file \in Broken THEN "error" ELSE "parsed"
<1>1. PICK file \in File : parser = [file |-> file, running |-> TRUE]
  BY DEF ParserEnds, FilterInv, FilterType, Parser
<1>2. /\ parser' = [file |-> file, running |-> FALSE]
      /\ signals' = Append(signals, verdict)
      /\ UNCHANGED <<filtering, filterFile, bannedIPs, nativeFilter, jobs, reading, raced>>
  BY <1>1 DEF ParserEnds
<1>3. /\ parser # NoParser /\ parser' # NoParser /\ parser.file = file /\ parser'.file = file
      /\ parser'.running = FALSE
  BY <1>1, <1>2, ParserParts
<1>4. /\ signals' \in Seq({"parsed", "error"}) /\ signals' # <<>>
      /\ signals'[Len(signals')] = verdict
  BY <1>2 DEF FilterInv, FilterType
<1>5. FilterType'
  BY <1>2, <1>4 DEF FilterInv, FilterType, Parser
<1>6. ParserInv'
  BY <1>2, <1>3, <1>4 DEF FilterInv, ParserInv
<1>7. RulesInv' /\ BansInv'
  BY <1>2, <1>3, <1>4 DEF FilterInv, RulesInv, BansInv, OnTheWay
<1> QED BY <1>5, <1>6, <1>7 DEF FilterInv

(* The last signal of a parser that does not run is about its own file.    *)
LEMMA LastSignal ==
    ASSUME FilterInv, signals # <<>>, Tail(signals) = <<>>, parser # NoParser, ~parser.running
    PROVE  Head(signals) = (IF parser.file \in Broken THEN "error" ELSE "parsed")
<1>1. signals \in Seq({"parsed", "error"}) /\ Len(Tail(signals)) = 0
  BY DEF FilterInv, FilterType
<1>2. Len(signals) = 1 /\ Head(signals) = signals[1]
  BY <1>1
<1> QED BY <1>2 DEF FilterInv, ParserInv

LEMMA ParsedHandled ==
    ASSUME FilterInv, HandleIPFilterParsed, UNCHANGED <<filterConfigured, scheduled>>
    PROVE  FilterInv'
<1>0. /\ signals # <<>> /\ signals' = Tail(signals)
      /\ UNCHANGED <<filtering, filterFile, bannedIPs, parser, jobs, reading>>
  BY DEF HandleIPFilterParsed
<1>1. CASE parser = NoParser
  <2>1. UNCHANGED <<nativeFilter, raced>>
    BY <1>1 DEF HandleIPFilterParsed
  <2>2. signals' \in Seq({"parsed", "error"})
    BY <1>0 DEF FilterInv, FilterType
  <2>3. FilterType' /\ ParserInv'
    BY <1>0, <1>1, <2>1, <2>2 DEF FilterInv, FilterType, ParserInv
  <2>4. RulesInv' /\ BansInv'
    BY <1>0, <1>1, <2>1 DEF FilterInv, RulesInv, BansInv, OnTheWay
  <2> QED BY <2>3, <2>4 DEF FilterInv
<1>2. CASE parser # NoParser
  <2>1. PICK rules \in ParsedRules : ReplaceFilter(rules)
    BY <1>2 DEF HandleIPFilterParsed
  <2>2. parser.file \in File
    BY <1>2 DEF FilterInv, FilterType, Parser
  <2>3. rules \in SUBSET File
    BY <2>1, <2>2, RulesAreRules DEF ParsedRules
  <2>4. ~parser.running => rules = RulesOf(parser.file)
    BY <2>1 DEF ParsedRules
  <2> QED BY <1>0, <1>2, <2>1, <2>3, <2>4, SignalReplaced
<1> QED BY <1>1, <1>2

LEMMA ErrorHandled ==
    ASSUME FilterInv, HandleIPFilterError, UNCHANGED <<filterConfigured, scheduled>>
    PROVE  FilterInv'
<1>0. /\ signals # <<>> /\ signals' = Tail(signals) /\ Head(signals) = "error"
      /\ ReplaceFilter({})
      /\ UNCHANGED <<filtering, filterFile, bannedIPs, parser, jobs, reading>>
  BY DEF HandleIPFilterError
<1>1. parser # NoParser /\ ~parser.running /\ signals' = <<>> => {} = RulesOf(parser.file)
  BY <1>0, LastSignal DEF RulesOf
<1> QED BY <1>0, <1>1, SignalReplaced

LEMMA WorkerRead ==
    ASSUME FilterInv, WorkerReadsFilter, UNCHANGED <<filterConfigured, scheduled>>
    PROVE  FilterInv'
<1>1. /\ jobs # <<>> /\ reading = NotReading
      /\ reading' = [ip |-> Head(jobs), filter |-> nativeFilter]
      /\ jobs' = Tail(jobs)
      /\ UNCHANGED <<filtering, filterFile, bannedIPs, nativeFilter, parser, signals, raced>>
  BY DEF WorkerReadsFilter
<1>2. /\ Head(jobs) \in IP /\ jobs' \in Seq(IP)
      /\ \A i \in DOMAIN jobs : jobs[i] = Head(jobs) \/ \E j \in DOMAIN jobs' : jobs'[j] = jobs[i]
  <2>1. jobs \in Seq(IP)
    BY DEF FilterInv, FilterType
  <2>2. Head(jobs) \in IP /\ jobs' \in Seq(IP) /\ Head(jobs) = jobs[1]
    BY <1>1, <2>1
  <2>3. ASSUME NEW i \in DOMAIN jobs, i # 1 PROVE i - 1 \in DOMAIN jobs' /\ jobs'[i - 1] = jobs[i]
    BY <1>1, <2>1, <2>3
  <2> QED BY <2>2, <2>3
<1>3. reading' # NotReading /\ reading'.ip = Head(jobs) /\ reading'.filter = nativeFilter
  BY <1>1, ReadingParts
<1>4. FilterType'
  BY <1>1, <1>2 DEF FilterInv, FilterType, Reading
<1>5. ParserInv'
  BY <1>1 DEF FilterInv, ParserInv
<1>6. RulesInv'
  BY <1>1, <1>3 DEF FilterInv, RulesInv
<1>7. BansInv'
  BY <1>1, <1>2, <1>3 DEF FilterInv, BansInv, OnTheWay
<1> QED BY <1>4, <1>5, <1>6, <1>7 DEF FilterInv

LEMMA WorkerWritten ==
    ASSUME FilterInv, WorkerWritesFilter, UNCHANGED <<filterConfigured, scheduled>>
    PROVE  FilterInv'
<1>1. /\ reading # NotReading /\ reading' = NotReading
      /\ nativeFilter' = reading.filter \union {reading.ip}
      /\ UNCHANGED <<filtering, filterFile, bannedIPs, parser, signals, jobs, raced>>
  BY DEF WorkerWritesFilter
<1>2. reading.ip \in IP /\ reading.filter \in SUBSET (IP \union File)
  BY <1>1 DEF FilterInv, FilterType, Reading
<1>3. FilterType'
  BY <1>1, <1>2 DEF FilterInv, FilterType
<1>4. ParserInv'
  BY <1>1 DEF FilterInv, ParserInv
<1>5. ~raced => nativeFilter' = nativeFilter \union {reading.ip}
  BY <1>1 DEF FilterInv, RulesInv
<1>6. ~raced => nativeFilter' \cap File = nativeFilter \cap File
  BY <1>2, <1>5, IPFilterAssumption
<1>7. RulesInv'
  BY <1>1, <1>6 DEF FilterInv, RulesInv
<1>8. BansInv'
  BY <1>1, <1>5 DEF FilterInv, BansInv, OnTheWay
<1> QED BY <1>3, <1>4, <1>7, <1>8 DEF FilterInv

LEMMA FilterStepped ==
    ASSUME FilterInv, StepOfFilter
    PROVE  FilterInv'
<1>1. FilterStep /\ UNCHANGED <<filterConfigured, scheduled>>
  BY DEF StepOfFilter, configVars
<1> QED BY <1>1, ParserEnded, ParsedHandled, ErrorHandled, WorkerRead, WorkerWritten DEF FilterStep

LEMMA FilterKept ==
    ASSUME FilterInv, [Next]_vars
    PROVE  FilterInv'
<1>1. CASE UNCHANGED <<filterVars, filterConfigured>> /\ (scheduled => scheduled')
  BY <1>1, FilterLeftAlone
<1>2. CASE ChangeOrder \/ ChangeLimits \/ StepOfQueue \/ StepOfLimits \/ UNCHANGED vars
  BY <1>1, <1>2 DEF ChangeOrder, ChangeLimits, StepOfQueue, StepOfLimits, vars, configVars
<1>3. CASE \/ \E rate \in Rate : SetGlobalSpeedLimit(rate) \/ SetAltGlobalSpeedLimit(rate)
           \/ \E enabled \in BOOLEAN : SetAltGlobalSpeedLimitEnabled(enabled)
  BY <1>1, <1>3 DEF SetGlobalSpeedLimit, SetAltGlobalSpeedLimit, SetAltGlobalSpeedLimitEnabled,
     ConfigureDeferred
<1>4. CASE \/ \E new \in Value : SetEndpoint(new)
           \/ \E value \in Value : SetValue(value)
           \/ \E enabled \in BOOLEAN : SetQueueing(enabled)
  BY <1>1, <1>4 DEF SetEndpoint, SetValue, SetQueueing, ConfigureDeferred
<1> QED BY <1>2, <1>3, <1>4, FilterSet, Banned, FilterConfigured, FilterStepped DEF Next

LEMMA QuietFilterIsComplete == FilterInv => FilterIsComplete
<1> SUFFICES ASSUME FilterInv, ~scheduled, FilterIsQuiet, ~raced PROVE FilterIsWanted
  BY DEF FilterIsComplete
<1>1. /\ parser = NoParser \/ ~parser.running
      /\ signals = <<>> /\ jobs = <<>> /\ reading = NotReading
      /\ filterConfigured
  BY DEF FilterIsQuiet, FilterInv, ParserInv
<1>2. bannedIPs \subseteq nativeFilter
  BY <1>1 DEF FilterInv, BansInv, OnTheWay
<1>3. CASE filtering
  BY <1>1, <1>2, <1>3 DEF FilterInv, ParserInv, RulesInv, FilterIsWanted, WantedRules
<1>4. CASE ~filtering
  BY <1>1, <1>2, <1>4 DEF FilterInv, ParserInv, RulesInv, FilterIsWanted, WantedRules
<1> QED BY <1>3, <1>4

(* When everything that concerns the filter has been done every banned     *)
(* address is blocked and the rules are those of the file the settings     *)
(* name, unless the worker has crossed the last replacement                *)
(* (configureComponents, handleIPFilterParsed, banIP).                     *)
THEOREM Complete == Spec => []FilterIsComplete
<1>1. Init => FilterInv
  BY FilterInitially
<1>2. FilterInv /\ [Next]_vars => FilterInv'
  BY FilterKept
<1> QED BY <1>1, <1>2, QuietFilterIsComplete, PTL DEF Spec
=============================================================================
