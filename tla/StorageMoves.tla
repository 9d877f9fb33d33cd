---------------------------- MODULE StorageMoves ----------------------------
(***************************************************************************)
(* The queue of move-storage jobs of SessionImpl, the torrents that ask    *)
(* for moves, and the removal of torrents that has to wait for them.       *)
(* libtorrent moves one storage at a time, the one of the first job; the   *)
(* others wait.  A torrent may change its mind while its job waits or      *)
(* runs, finish downloading, or be removed, with or without its files, and *)
(* the program may exit.                                                   *)
(*                                                                         *)
(* libtorrent is external: it answers each move with storage_moved or      *)
(* storage_moved_failed, each removal with torrent_removed and, for files, *)
(* torrent_deleted or torrent_delete_failed, and it refuses a torrent it   *)
(* still has (duplicate_is_error).  A handle stands for one stay of a      *)
(* torrent in libtorrent.  Torrents have their metadata, the paths of a    *)
(* torrent are its own (no automatic management), and no files are missing *)
(* (otherwise resuming the torrent replaces its handle).                   *)
(***************************************************************************)
EXTENDS SequencesExt

CONSTANTS
    Handle,               \* lt::torrent_handle, each added once
    Torrent,              \* torrent ids (info hashes)
    HashOf,               \* HashOf[h] is the torrent of handle h
    Path,
    NoPath,               \* an empty download path
    None,                 \* no handle, no torrent object
    ReaddsWhileDeleting,  \* a torrent may come back while its files are deleted
    MaxRequests           \* bound: changes of paths and checks asked for

Impl ==
    [savePath : Path,                     \* m_savePath
     downloadPath : Path \union {NoPath}, \* m_downloadPath
     location : Path,                     \* actualStorageLocation()
     finished : BOOLEAN,                  \* isFinished() || m_hasFinishedStatus
     isMoving : BOOLEAN,                  \* m_storageIsMoving
     triggers : BOOLEAN]                  \* m_moveFinishedTriggers is not empty

ASSUME MovesAssumption ==
    /\ HashOf \in [Handle -> Torrent]
    /\ NoPath \notin Path
    /\ None \notin Handle
    /\ None \notin Impl
    /\ ReaddsWhileDeleting \in BOOLEAN
    /\ MaxRequests \in Nat

VARIABLES
    torrents,       \* m_torrents: the handle of each torrent, or None
    impl,           \* the TorrentImpl of each handle, or None
    queue,          \* m_moveStorageQueue
    removing,       \* m_removingTorrents: the delete option, or "no"
    native,         \* libtorrent: what each handle stands for
    moving,         \* libtorrent: the job whose storage is being moved
    removedAlerts,  \* torrent_removed_alerts not handled yet
    phase,          \* of the program
    excused,        \* history: handles a move of which has failed, or a
                    \* requested path of which was passed over
    requests        \* bound: requests so far

sessionVars == <<torrents, impl, queue, removing>>
nativeVars == <<native, moving, removedAlerts>>
historyVars == <<excused, requests>>
vars == <<sessionVars, nativeVars, phase, historyVars>>

-----------------------------------------------------------------------------
Context == {"AdjustCurrentLocation", "ChangeSavePath", "ChangeDownloadPath"}

Job == [handle : Handle, path : Path, context : Context]

NoJob == [handle |-> None]

InSession(h) == torrents[HashOf[h]] = h

Jobs(q) == {q[i] : i \in DOMAIN q}

HasJob(h, q) == \E job \in Jobs(q) : job.handle = h

IsActive(h) == queue # <<>> /\ Head(queue).handle = h

(* The path a torrent's storage belongs at.                                *)
Target(i) == IF i.finished \/ i.downloadPath = NoPath THEN i.savePath ELSE i.downloadPath

Init ==
    /\ torrents = [t \in Torrent |-> None]
    /\ impl = [h \in Handle |-> None]
    /\ queue = <<>>
    /\ removing = [t \in Torrent |-> "no"]
    /\ native = [h \in Handle |-> "unknown"]
    /\ moving = NoJob
    /\ removedAlerts = {}
    /\ phase = "running"
    /\ excused = {}
    /\ requests = 0

-----------------------------------------------------------------------------
(* A flawed variant: the torrent does not ask for its other jobs.          *)
JobFinishedAtOnce(i, path, context, outstanding) ==
    [i EXCEPT !.savePath = IF context = "ChangeSavePath" THEN path ELSE @,
              !.downloadPath = IF context = "ChangeDownloadPath" THEN path ELSE @,
              !.location = path,
              !.isMoving = FALSE,
              !.triggers = FALSE]

(* TorrentImpl::handleMoveStorageJobFinished: what becomes of i.  The      *)
(* triggers run when no job is outstanding.                                *)
JobFinished(i, path, context, outstanding) ==
    [i EXCEPT !.savePath = IF context = "ChangeSavePath" THEN path ELSE @,
              !.downloadPath = IF context = "ChangeDownloadPath" THEN path ELSE @,
              !.location = path,
              !.isMoving = outstanding,
              !.triggers = @ /\ outstanding]

(* The positions of h's jobs that wait: the first job is running.          *)
Waiting(h) == {k \in 2..Len(queue) : queue[k].handle = h}

(* A flawed variant: the search starts at the running job.                 *)
QueueWithoutAny(h) == SelectSeq(queue, LAMBDA job : job.handle # h)

QueueWithoutWaiting(h) ==
    IF Waiting(h) = {} THEN queue ELSE RemoveAt(queue, CHOOSE k \in Waiting(h) : TRUE)

(* addMoveTorrentStorageJob for the torrent of h, whose state is i so far. *)
(* First its waiting job is cancelled ...                                  *)
Cancelled(h, i) ==
    IF Waiting(h) = {} THEN i
    ELSE LET job == queue[CHOOSE k \in Waiting(h) : TRUE]
         IN  JobFinished(i, i.location, job.context, IsActive(h))

(* A flawed variant: the running job is not looked at.                     *)
RefusedInPlace(h, i, path) == path = i.location

(* ... then the new job is refused if it would change nothing, ...         *)
Refused(h, i, path) ==
    path = IF IsActive(h) THEN Head(queue).path ELSE i.location

(* ... and TorrentImpl::moveStorage notes whether the torrent moves.       *)
Moved(h, i, path) ==
    [Cancelled(h, i) EXCEPT !.isMoving = @ \/ ~Refused(h, i, path)]

(* A flawed variant: the size of the queue is taken before the job is in   *)
(* it, so a job that is alone is not started.                              *)
MoveFirstOfMany(q) == moving' = IF Len(q) < 2 THEN NoJob ELSE Head(q)

(* moveTorrentStorage: libtorrent is asked to move the first one.          *)
MoveFirst(q) == moving' = IF q = <<>> THEN NoJob ELSE Head(q)

(* History: ways in which a path that was asked for is passed over.  A     *)
(* waiting job is cancelled by a request of another kind; the waiting      *)
(* change of a path is cancelled while another job runs; the storage is    *)
(* adjusted to the old path while the change of it runs; the save path is  *)
(* changed, as that of a torrent without a download path, while it is      *)
(* getting one.                                                            *)
Overtakes(h, context) ==
    \/ \E k \in Waiting(h) : queue[k].context # context
    \/ IsActive(h) /\ \E k \in Waiting(h) : queue[k].context # "AdjustCurrentLocation"
    \/ /\ IsActive(h) /\ Head(queue).context # "AdjustCurrentLocation"
       /\ context = "AdjustCurrentLocation"
    \/ /\ IsActive(h) /\ Head(queue).context = "ChangeDownloadPath"
       /\ context = "ChangeSavePath"

MoveStorage(h, i, path, context) ==
    LET left == QueueWithoutWaiting(h)
    IN  /\ queue' = IF Refused(h, i, path) THEN left
                    ELSE Append(left, [handle |-> h, path |-> path, context |-> context])
        /\ IF queue = <<>> THEN MoveFirst(queue') ELSE UNCHANGED moving
        /\ excused' = IF Overtakes(h, context) THEN excused \union {h} ELSE excused

NoMove == UNCHANGED <<queue, moving, excused>>

(* A flawed variant: a torrent that moves is not adjusted.                 *)
NeedsAdjustingInPlace(i) == Target(i) # i.location

(* adjustStorageLocation                                                   *)
NeedsAdjusting(i) == Target(i) # i.location \/ i.isMoving

AdjustStorageLocation(h, i) ==
    IF NeedsAdjusting(i)
    THEN MoveStorage(h, i, Target(i), "AdjustCurrentLocation")
    ELSE NoMove

Adjusted(h, i) == IF NeedsAdjusting(i) THEN Moved(h, i, Target(i)) ELSE i

(* The handler of the torrent of h leaves it in state i.                   *)
Becomes(h, i) ==
    /\ impl' = [impl EXCEPT ![h] = i]
    /\ UNCHANGED <<torrents, removing, native, removedAlerts, phase>>

Requested ==
    /\ requests < MaxRequests
    /\ requests' = requests + 1

-----------------------------------------------------------------------------
(* The torrents.                                                           *)

AddTorrent(h, i) ==
    /\ phase = "running"
    /\ native[h] = "unknown"
    /\ torrents[HashOf[h]] = None
    /\ \A g \in Handle : HashOf[g] = HashOf[h] =>
          native[g] \in {"unknown", "gone"} \union
                            IF ReaddsWhileDeleting THEN {"deleting"} ELSE {}
    /\ i.location = Target(i) /\ ~i.isMoving /\ ~i.triggers
    /\ torrents' = [torrents EXCEPT ![HashOf[h]] = h]
    /\ impl' = [impl EXCEPT ![h] = i]
    /\ native' = [native EXCEPT ![h] = "present"]
    /\ UNCHANGED <<queue, removing, moving, removedAlerts, phase, historyVars>>

SetSavePath(h, path) ==
    /\ Requested
    /\ phase = "running"
    /\ InSession(h)
    /\ path # impl[h].savePath
    /\ IF impl[h].finished \/ impl[h].downloadPath = NoPath
       THEN /\ MoveStorage(h, impl[h], path, "ChangeSavePath")
            /\ Becomes(h, Moved(h, impl[h], path))
       ELSE /\ NoMove
            /\ Becomes(h, [impl[h] EXCEPT !.savePath = path])

SetDownloadPath(h, path) ==
    LET place == IF path = NoPath THEN impl[h].savePath ELSE path
    IN  /\ Requested
        /\ phase = "running"
        /\ InSession(h)
        /\ path # impl[h].downloadPath
        /\ IF ~impl[h].finished
           THEN /\ MoveStorage(h, impl[h], place, "ChangeDownloadPath")
                /\ Becomes(h, Moved(h, impl[h], place))
           ELSE /\ NoMove
                /\ Becomes(h, [impl[h] EXCEPT !.downloadPath = path])

(* handleTorrentFinishedAlert, with the status update that follows it:     *)
(* handleTorrentFinished is called at once, or waits for the move.  Alerts *)
(* are also handled while the program exits.                               *)
TorrentFinished(h) ==
    LET i == [impl[h] EXCEPT !.finished = TRUE]
        after == Adjusted(h, i)
    IN  /\ phase # "ended"
        /\ InSession(h)
        /\ ~impl[h].finished
        /\ AdjustStorageLocation(h, i)
        /\ Becomes(h, [after EXCEPT !.triggers = after.isMoving])
        /\ UNCHANGED requests

(* handleTorrentCheckedAlert, with the status update that follows it.      *)
TorrentChecked(h, complete) ==
    LET i == [impl[h] EXCEPT !.finished = complete]
    IN  /\ Requested
        /\ phase # "ended"
        /\ InSession(h)
        /\ AdjustStorageLocation(h, i)
        /\ Becomes(h, Adjusted(h, i))

-----------------------------------------------------------------------------
(* The session.                                                            *)

(* lt::session::remove_torrent                                             *)
RemoveNative(h) ==
    /\ native' = [native EXCEPT ![h] = "deleting"]
    /\ removedAlerts' = removedAlerts \union {h}

Keep == UNCHANGED <<native, removedAlerts>>

(* A flawed variant: the waiting job of the torrent stays.                 *)
DeleteTorrentOnly(h, option) ==
    /\ phase = "running"
    /\ InSession(h)
    /\ torrents' = [torrents EXCEPT ![HashOf[h]] = None]
    /\ impl' = [impl EXCEPT ![h] = None]
    /\ removing' = [removing EXCEPT ![HashOf[h]] = option]
    /\ IF option = "torrent" /\ HasJob(h, queue) THEN Keep ELSE RemoveNative(h)
    /\ UNCHANGED <<queue, moving, phase, historyVars>>

(* deleteTorrent: without the files, libtorrent's torrent stays until its  *)
(* jobs are done; with them, only its waiting job is dropped.              *)
DeleteTorrent(h, option) ==
    /\ phase = "running"
    /\ InSession(h)
    /\ torrents' = [torrents EXCEPT ![HashOf[h]] = None]
    /\ impl' = [impl EXCEPT ![h] = None]
    /\ removing' = [removing EXCEPT ![HashOf[h]] = option]
    /\ \/ /\ option = "torrent"
          /\ UNCHANGED queue
          /\ IF HasJob(h, queue) THEN Keep ELSE RemoveNative(h)
       \/ /\ option = "files"
          /\ queue' = QueueWithoutWaiting(h)
          /\ RemoveNative(h)
    /\ UNCHANGED <<moving, phase, historyVars>>

(* Whether a finished job's handle still knows its info hash: libtorrent's *)
(* torrent may have gone by the time the alert is handled.                 *)
Valid(h) == IF native[h] = "present" THEN {TRUE} ELSE BOOLEAN

(* m_torrents is asked by info hash.                                       *)
Owner(h, valid) == IF valid THEN torrents[HashOf[h]] ELSE None

(* Flawed variants: the removal waits for one job only, or is forgotten.   *)
FinishRemovalAtOnce(h, outstanding) ==
    /\ removing' = removing
    /\ IF removing[HashOf[h]] = "torrent" THEN RemoveNative(h) ELSE Keep

FinishRemovalForgotten(h, outstanding) == UNCHANGED <<removing, native, removedAlerts>>

(* The last job of a removed torrent is done: libtorrent's torrent goes,   *)
(* unless it has gone with its files.  m_removingTorrents[] makes an entry *)
(* with the first of the options where there is none.                      *)
FinishRemoval(h, outstanding) ==
    LET t == HashOf[h]
    IN  IF outstanding
        THEN UNCHANGED <<removing, native, removedAlerts>>
        ELSE /\ removing' = [removing EXCEPT ![t] = IF @ = "no" THEN "torrent" ELSE @]
             /\ IF removing'[t] = "torrent" THEN RemoveNative(h) ELSE Keep

(* handleStorageMovedAlert, handleStorageMovedFailedAlert: where the       *)
(* storage is now.                                                         *)
PlaceAfter(success, owner) ==
    IF success THEN Head(queue).path ELSE impl[owner].location

(* handleMoveTorrentStorageJobFinished, which the handler of a failure     *)
(* reaches only when it can tell where the storage is: see                 *)
(* MoveFailedOfGone.  For a handle that is not valid m_removingTorrents    *)
(* gets an entry nobody reads, of the empty info hash.                     *)
MoveFinished(success, valid) ==
    LET job == Head(queue)
        outstanding == HasJob(job.handle, Tail(queue))
        owner == Owner(job.handle, valid)
    IN  /\ phase # "ended"
        /\ moving # NoJob
        /\ valid \in Valid(job.handle)
        /\ success \/ valid
        /\ queue' = Tail(queue)
        /\ MoveFirst(queue')
        /\ \/ /\ owner # None
              /\ impl' = [impl EXCEPT ![owner] =
                    JobFinished(@, PlaceAfter(success, owner), job.context, outstanding)]
              /\ excused' = IF success THEN excused ELSE excused \union {owner}
              /\ UNCHANGED <<removing, native, removedAlerts>>
           \/ /\ owner = None
              /\ UNCHANGED <<impl, excused>>
              /\ IF valid THEN FinishRemoval(job.handle, outstanding)
                 ELSE UNCHANGED <<removing, native, removedAlerts>>
        /\ UNCHANGED <<torrents, phase, requests>>

(* handleStorageMovedFailedAlert for a torrent that was removed with its   *)
(* files and that libtorrent no longer has: the status asked of its handle *)
(* throws, and handleAlert catches it.  The answer is spent and the job    *)
(* stays first.                                                            *)
MoveFailedOfGone ==
    /\ phase # "ended"
    /\ moving # NoJob
    /\ FALSE \in Valid(Head(queue).handle)
    /\ moving' = NoJob
    /\ UNCHANGED <<sessionVars, native, removedAlerts, phase, historyVars>>

(* handleTorrentRemovedAlert                                               *)
TorrentRemovedAlert(h) ==
    /\ phase # "ended"
    /\ h \in removedAlerts
    /\ removedAlerts' = removedAlerts \ {h}
    /\ removing' = [removing EXCEPT ![HashOf[h]] = IF @ = "torrent" THEN "no" ELSE @]
    /\ UNCHANGED <<torrents, impl, queue, native, moving, phase, historyVars>>

(* handleTorrentDeletedAlert, handleTorrentDeleteFailedAlert: the files,   *)
(* or the part file, are deleted when they have stopped moving.            *)
TorrentDeletedAlert(h, success) ==
    /\ phase # "ended"
    /\ native[h] = "deleting"
    /\ h \notin removedAlerts
    /\ moving = NoJob \/ moving.handle # h
    /\ native' = [native EXCEPT ![h] = "gone"]
    /\ removing' = [removing EXCEPT ![HashOf[h]] =
                       IF success /\ @ = "torrent" THEN @ ELSE "no"]
    /\ UNCHANGED <<torrents, impl, queue, moving, removedAlerts, phase, historyVars>>

(* A flawed variant: the running job is dropped as well.                   *)
ExitDroppingJobs ==
    /\ phase = "running"
    /\ phase' = "exiting"
    /\ queue' = <<>>
    /\ UNCHANGED <<torrents, impl, removing, nativeVars, historyVars>>

(* saveResumeData at exit: the waiting jobs are dropped, and the program   *)
(* ends when the running one is done.                                      *)
Exit ==
    /\ phase = "running"
    /\ phase' = "exiting"
    /\ queue' = IF Len(queue) > 1 THEN SubSeq(queue, 1, 1) ELSE queue
    /\ UNCHANGED <<torrents, impl, removing, nativeVars, historyVars>>

End ==
    /\ phase = "exiting"
    /\ queue = <<>>
    /\ phase' = "ended"
    /\ UNCHANGED <<sessionVars, nativeVars, historyVars>>

Next ==
    \/ \E h \in Handle, i \in Impl : AddTorrent(h, i)
    \/ \E h \in Handle, path \in Path : SetSavePath(h, path)
    \/ \E h \in Handle, path \in Path \union {NoPath} : SetDownloadPath(h, path)
    \/ \E h \in Handle : TorrentFinished(h)
    \/ \E h \in Handle, complete \in BOOLEAN : TorrentChecked(h, complete)
    \/ \E h \in Handle, option \in {"torrent", "files"} : DeleteTorrent(h, option)
    \/ \E success, valid \in BOOLEAN : MoveFinished(success, valid)
    \/ MoveFailedOfGone
    \/ \E h \in Handle : TorrentRemovedAlert(h)
    \/ \E h \in Handle, success \in BOOLEAN : TorrentDeletedAlert(h, success)
    \/ Exit
    \/ End

Spec == Init /\ [][Next]_vars

(* libtorrent answers every move, one way or the other, and every removal, *)
(* and the loop at exit goes on until it may stop.                         *)
FairSpec ==
    /\ Spec
    /\ WF_vars(\/ \E success, valid \in BOOLEAN : MoveFinished(success, valid)
               \/ MoveFailedOfGone)
    /\ \A h \in Handle : WF_vars(TorrentRemovedAlert(h))
    /\ \A h \in Handle : WF_vars(\E success \in BOOLEAN : TorrentDeletedAlert(h, success))
    /\ WF_vars(End)

-----------------------------------------------------------------------------
(* Type invariant.                                                         *)
TypeOK ==
    /\ torrents \in [Torrent -> Handle \union {None}]
    /\ impl \in [Handle -> Impl \union {None}]
    /\ queue \in Seq(Job)
    /\ removing \in [Torrent -> {"no", "torrent", "files"}]
    /\ native \in [Handle -> {"unknown", "present", "deleting", "gone"}]
    /\ moving \in Job \union {NoJob}
    /\ removedAlerts \subseteq Handle
    /\ phase \in {"running", "exiting", "ended"}
    /\ excused \subseteq Handle
    /\ requests \in 0..MaxRequests

(* The queue waits for an answer that has been spent (MoveFailedOfGone):   *)
(* jobs are left, none is moving, and libtorrent's torrent of the first    *)
(* one is going or gone.  The code never leaves this state.                *)
Stalled ==
    /\ queue # <<>>
    /\ moving = NoJob
    /\ native[Head(queue).handle] # "present"

(* Safety, the assertions of handleStorageMovedAlert: libtorrent moves     *)
(* exactly the storage the first job names, so no answer is mistaken for   *)
(* that of another job, and the queue stalls behind no torrent but one     *)
(* that was removed with its files while it moved                          *)
(* (addMoveTorrentStorageJob, deleteTorrent, exit).                        *)
FirstJobIsMoving ==
    \/ moving = IF queue = <<>> THEN NoJob ELSE Head(queue)
    \/ Stalled

(* Safety: a torrent has at most one job that waits besides the one that   *)
(* runs, and never one that goes where the running one goes                *)
(* (addMoveTorrentStorageJob).                                             *)
NoMeaninglessJob ==
    \A k, l \in DOMAIN queue :
        (k < l /\ queue[k].handle = queue[l].handle)
            => k = 1 /\ queue[k].path # queue[l].path

(* Safety: a torrent shows that it is moving exactly while it has a job,   *)
(* and whoever waits for the end of the move is told by the last one.      *)
MovingMeansJob ==
    phase = "running" =>
        \A h \in Handle : InSession(h) =>
            /\ impl[h].isMoving <=> HasJob(h, queue)
            /\ impl[h].triggers => impl[h].isMoving

(* Safety: a torrent that has been removed is still in libtorrent only     *)
(* while a job of it is left to wait for, and no job waits for a torrent   *)
(* libtorrent no longer has.                                               *)
RemovalWaitsForJobs ==
    phase = "running" =>
        /\ \A h \in Handle : (native[h] = "present" /\ ~InSession(h)) => HasJob(h, queue)
        /\ \A k \in DOMAIN queue : k > 1 => native[queue[k].handle] = "present"

(* Safety: when nothing moves, the storage is where the paths and the      *)
(* progress of the torrent say, unless a move failed or a requested path   *)
(* was passed over by a later job (see Overtakes).                         *)
SettledAtTarget ==
    phase = "running" =>
        \A h \in Handle : (InSession(h) /\ ~HasJob(h, queue) /\ h \notin excused)
            => impl[h].location = Target(impl[h])

(* Liveness: the removal of a torrent comes to its end, however many jobs  *)
(* it has to wait for, unless the program exits or a job of the torrent    *)
(* waits in a queue that has stalled.                                      *)
RemovalEnds ==
    \A t \in Torrent :
        removing[t] # "no" ~>
            \/ removing[t] = "no"
            \/ phase # "running"
            \/ Stalled /\ \E k \in 2..Len(queue) : HashOf[queue[k].handle] = t

(* Liveness: the exit is held up for ever by moves in one case only, when  *)
(* the failure of one was lost with its torrent (saveResumeData).          *)
ExitEnds == phase = "exiting" ~> phase = "ended" \/ Stalled

(* Action property, "m_moveFinishedTriggers is activated only when [...]   *)
(* all file move jobs complete" (torrentimpl.h): no job of the torrent is  *)
(* left when the triggers run.  It fails when a waiting job is replaced:   *)
(* cancelling it runs the triggers, and then the new job is queued.        *)
TriggersRunAfterMoves ==
    [][\A h \in Handle :
          (InSession(h) /\ InSession(h)' /\ impl[h].triggers /\ ~impl'[h].triggers)
              => ~HasJob(h, queue')]_vars
=============================================================================
