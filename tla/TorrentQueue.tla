---------------------------- MODULE TorrentQueue ----------------------------
(***************************************************************************)
(* How the order of the torrents' queue, which libtorrent keeps, gets into *)
(* the storage.  Every refreshInterval() the session asks libtorrent for   *)
(* the torrents that have changed and for its statistics; the two answers  *)
(* ask for the next refresh.  An order that has changed is stored with the *)
(* first answer asked for after the change.  At exit the destructor asks   *)
(* once more and waits for an answer.                                      *)
(*                                                                         *)
(* libtorrent handles requests in order, in its own thread; an order is    *)
(* the number of changes that led to it.  The resume data the destructor   *)
(* also waits for are in SessionTorrents.  Startup does not migrate the    *)
(* resume data to another storage, which would store the queue too.        *)
(***************************************************************************)
EXTENDS Naturals, Sequences

VARIABLES
    phase,           \* of the session: "startup" | "restored" | "exiting" | "ended"
    queueing,        \* m_isQueueingEnabled
    queue,           \* libtorrent's order
    storedQueue,     \* the order in the storage, or NoQueue
    queueChanged,    \* m_torrentsQueueChanged
    needSaveQueue,   \* m_needSaveTorrentsQueue
    refreshEnqueued, \* m_refreshEnqueued
    timers,          \* single-shot refresh timers that run
    answers,         \* what has been asked of libtorrent: updates and statistics
    overtaken        \* history: an update was still to come when the
                     \* destructor asked for another one

queueVars == <<phase, queueing, queue, storedQueue, queueChanged, needSaveQueue,
               refreshEnqueued, timers, answers, overtaken>>

NoQueue == [order |-> "none"]
StoredOrder(order) == [order |-> "stored", of |-> order]

(* An update to come, and one whose content libtorrent has determined; the *)
(* content of the statistics is left out.                                  *)
UpdateToCome == [is |-> "update", ready |-> FALSE]
Update(order) == [is |-> "update", ready |-> TRUE, order |-> order]
Stats == [is |-> "stats", ready |-> TRUE]

Alive == phase \in {"startup", "restored"}

QueueInit ==
    /\ phase = "startup"
    /\ queueing \in BOOLEAN
    /\ queue = 0
    /\ storedQueue = IF queueing THEN StoredOrder(0) ELSE NoQueue
    /\ queueChanged = FALSE
    /\ needSaveQueue = FALSE
    /\ refreshEnqueued = FALSE
    /\ timers = 0
    /\ answers = <<>>
    /\ overtaken = FALSE

(* increaseTorrentsQueuePos and the like, or a torrent added at its end.   *)
ChangeQueue ==
    /\ phase = "restored"
    /\ queue' = queue + 1
    /\ queueChanged' = TRUE
    /\ UNCHANGED <<phase, queueing, storedQueue, needSaveQueue, refreshEnqueued, timers,
                   answers, overtaken>>

(* Variant: the order is stored when it changes next.                      *)
SetQueueingSystemEnabledUnmarked(enabled) ==
    /\ enabled # queueing
    /\ queueing' = enabled
    /\ IF enabled
       THEN UNCHANGED <<storedQueue, queueChanged, needSaveQueue>>
       ELSE storedQueue' = NoQueue /\ queueChanged' = FALSE /\ needSaveQueue' = FALSE
    /\ UNCHANGED <<phase, queue, refreshEnqueued, timers, answers, overtaken>>

SetQueueingSystemEnabled(enabled) ==
    /\ enabled # queueing
    /\ queueing' = enabled
    /\ queueChanged' = enabled
    /\ IF enabled
       THEN UNCHANGED <<storedQueue, needSaveQueue>>
       ELSE storedQueue' = NoQueue /\ needSaveQueue' = FALSE
    /\ UNCHANGED <<phase, queue, refreshEnqueued, timers, answers, overtaken>>

(* One of the two answers of a refresh has come: the second one starts the *)
(* timer for the next refresh.                                             *)
RefreshAnswered ==
    /\ refreshEnqueued' = ~refreshEnqueued
    /\ timers' = IF refreshEnqueued THEN timers ELSE timers + 1

(* Torrents have been loaded: they are updated meanwhile.                  *)
AddTorrentAlertsReceived ==
    /\ phase = "startup"
    /\ ~refreshEnqueued
    /\ answers' = Append(answers, UpdateToCome)
    /\ refreshEnqueued' = TRUE
    /\ UNCHANGED <<phase, queueing, queue, storedQueue, queueChanged, needSaveQueue, timers,
                   overtaken>>

(* Variant: the first refresh does not depend on the updates of startup.   *)
EndStartupRefreshing ==
    /\ phase = "startup"
    /\ phase' = "restored"
    /\ refreshEnqueued' = TRUE
    /\ timers' = timers + 1
    /\ UNCHANGED <<queueing, queue, storedQueue, queueChanged, needSaveQueue, answers, overtaken>>

EndStartup ==
    /\ phase = "startup"
    /\ phase' = "restored"
    /\ RefreshAnswered
    /\ UNCHANGED <<queueing, queue, storedQueue, queueChanged, needSaveQueue, answers, overtaken>>

RefreshTimeout ==
    /\ Alive
    /\ timers > 0
    /\ timers' = timers - 1
    /\ answers' = answers \o <<UpdateToCome, Stats>>
    /\ queueChanged' = FALSE
    /\ needSaveQueue' = (needSaveQueue \/ queueChanged)
    /\ UNCHANGED <<phase, queueing, queue, storedQueue, refreshEnqueued, overtaken>>

(* libtorrent determines the first update that is still to come.           *)
NativeAnswers ==
    /\ \E i \in DOMAIN answers :
          /\ ~answers[i].ready
          /\ \A j \in 1 .. i - 1 : answers[j].ready
          /\ answers' = [answers EXCEPT ![i] = Update(queue)]
    /\ UNCHANGED <<phase, queueing, queue, storedQueue, queueChanged, needSaveQueue,
                   refreshEnqueued, timers, overtaken>>

HandleAnswer(is) ==
    /\ phase # "ended"
    /\ answers # <<>>
    /\ Head(answers).is = is
    /\ Head(answers).ready
    /\ answers' = Tail(answers)
    /\ RefreshAnswered

(* saveTorrentsQueue takes the positions of the updates handled so far.    *)
HandleStateUpdateAlert ==
    /\ HandleAnswer("update")
    /\ needSaveQueue' = FALSE
    /\ storedQueue' = IF needSaveQueue THEN StoredOrder(Head(answers).order) ELSE storedQueue
    /\ UNCHANGED <<phase, queueing, queue, queueChanged, overtaken>>

HandleSessionStatsAlert ==
    /\ HandleAnswer("stats")
    /\ UNCHANGED <<phase, queueing, queue, storedQueue, queueChanged, needSaveQueue, overtaken>>

(* The destructor, up to the loop that waits for the answers.  The loop    *)
(* would give up after 30 seconds without any: libtorrent answers in time. *)
BeginExit ==
    /\ Alive
    /\ phase' = "exiting"
    /\ overtaken' = (queueChanged /\ \E i \in DOMAIN answers : answers[i].is = "update")
    /\ answers' = IF queueChanged THEN Append(answers, UpdateToCome) ELSE answers
    /\ queueChanged' = FALSE
    /\ needSaveQueue' = (needSaveQueue \/ queueChanged)
    /\ UNCHANGED <<queueing, queue, storedQueue, refreshEnqueued, timers>>

EndExit ==
    /\ phase = "exiting"
    /\ ~needSaveQueue
    /\ phase' = "ended"
    /\ UNCHANGED <<queueing, queue, storedQueue, queueChanged, needSaveQueue, refreshEnqueued,
                   timers, answers, overtaken>>

QueueStep ==
    \/ AddTorrentAlertsReceived
    \/ EndStartup
    \/ RefreshTimeout
    \/ NativeAnswers
    \/ HandleStateUpdateAlert
    \/ HandleSessionStatsAlert
    \/ BeginExit
    \/ EndExit

-----------------------------------------------------------------------------
(* Safety: when no change waits to be stored, in particular after the end, *)
(* the storage has libtorrent's order (increaseTorrentsQueuePos and the    *)
(* like, enqueueRefresh, handleStateUpdateAlert, the destructor).  At exit *)
(* it may not: an update that was asked for before the destructor asked    *)
(* for one is taken for the answer.                                        *)
QueueIsStored ==
    queueing /\ ~queueChanged /\ ~needSaveQueue /\ ~overtaken
        => storedQueue = StoredOrder(queue)

(* Safety: a restored session always has its next refresh ahead, either a  *)
(* timer that runs or an answer that starts one, and never two of them     *)
(* (endStartup, enqueueRefresh and its callers).                           *)
RefreshGoesOn ==
    phase = "restored" => (timers = 1 /\ answers = <<>>) \/ (timers = 0 /\ answers # <<>>)
=============================================================================
