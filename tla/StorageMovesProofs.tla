------------------------- MODULE StorageMovesProofs -------------------------
(***************************************************************************)
(* The queue of moves, for any torrents, handles and paths: which job      *)
(* libtorrent works at, what may wait behind it, what the torrents and the *)
(* removals make of it, and where the storage ends up.                     *)
(***************************************************************************)
EXTENDS StorageMoves, TLAPS

MovesType ==
    /\ torrents \in [Torrent -> Handle \union {None}]
    /\ impl \in [Handle -> Impl \union {None}]
    /\ queue \in Seq(Job)
    /\ removing \in [Torrent -> {"no", "torrent", "files"}]
    /\ native \in [Handle -> {"unknown", "present", "deleting", "gone"}]

(* The only job libtorrent works at is the first one.                      *)
OnlyFirstMoves == moving # NoJob => queue # <<>> /\ moving = Head(queue)

(* A job that waits is of a torrent libtorrent has.  That of the job that  *)
(* runs may be going, and that of a first job nobody works at is going or  *)
(* gone.                                                                   *)
JobsAreNative ==
    \A k \in DOMAIN queue :
        native[queue[k].handle] \in
            IF k > 1 THEN {"present"}
            ELSE IF moving = NoJob THEN {"deleting", "gone"}
            ELSE {"present", "deleting"}

(* A torrent of the session is in libtorrent, alone under its info hash.   *)
SessionInv ==
    /\ \A t \in Torrent : torrents[t] # None => HashOf[torrents[t]] = t
    /\ \A h \in Handle : InSession(h) => native[h] = "present" /\ impl[h] \in Impl
    /\ \A g, h \in Handle :
          native[g] = "present" /\ native[h] = "present" /\ HashOf[g] = HashOf[h] => g = h

(* A torrent libtorrent keeps after its removal has a job left, and goes   *)
(* with the last one.                                                      *)
RemovalInv ==
    \A h \in Handle : native[h] = "present" /\ ~InSession(h) =>
        /\ phase = "running" => HasJob(h, queue)
        /\ removing[HashOf[h]] # "files"

(* Without ReaddsWhileDeleting libtorrent knows of no other stay of a      *)
(* torrent of the session.                                                 *)
StaysAreApart ==
    \A g, h \in Handle :
        InSession(g) /\ HashOf[g] = HashOf[h] /\ g # h => native[h] \in {"unknown", "gone"}

QueueInv == MovesType /\ OnlyFirstMoves /\ NoMeaninglessJob

NativeInv == JobsAreNative /\ SessionInv /\ RemovalInv

MovingInv == StaysAreApart /\ MovingMeansJob

-----------------------------------------------------------------------------
(* The queue without the waiting job of a torrent.                         *)

LEMMA JobParts ==
    \A handle, path, context :
        /\ [handle |-> handle, path |-> path, context |-> context] # NoJob
        /\ [handle |-> handle, path |-> path, context |-> context].handle = handle
        /\ [handle |-> handle, path |-> path, context |-> context].path = path
        /\ [handle |-> handle, path |-> path, context |-> context].context = context
<1> TAKE handle, path, context
<1>1. "path" \in DOMAIN [handle |-> handle, path |-> path, context |-> context]
  OBVIOUS
<1>2. "path" \notin DOMAIN NoJob
  BY DEF NoJob
<1> QED BY <1>1, <1>2

(* q has the jobs of the queue but those of h that wait.                   *)
Leaves(h, q) ==
    /\ q \in Seq(Job)
    /\ q = <<>> <=> queue = <<>>
    /\ queue # <<>> => q[1] = queue[1]
    /\ \A k, l \in DOMAIN q :
          (k < l /\ q[k].handle = q[l].handle) => k = 1 /\ q[k].path # q[l].path
    /\ \A k \in DOMAIN q : q[k].handle = h => k = 1
    /\ \A k \in DOMAIN q : \E l \in DOMAIN queue : q[k] = queue[l] /\ (k > 1 => l > 1)
    /\ \A k \in DOMAIN queue :
          queue[k].handle # h => \E l \in DOMAIN q : q[l] = queue[k] /\ (k > 1 => l > 1)

LEMMA WithoutWaiting ==
    ASSUME NEW h \in Handle, QueueInv
    PROVE  Leaves(h, QueueWithoutWaiting(h))
<1>1. queue \in Seq(Job)
  BY DEF QueueInv, MovesType
<1>2. CASE Waiting(h) = {}
  <2>1. \A k \in DOMAIN queue : queue[k].handle = h => k = 1
    BY <1>1, <1>2 DEF Waiting
  <2> QED BY <1>1, <1>2, <2>1 DEF QueueInv, NoMeaninglessJob, QueueWithoutWaiting, Leaves
<1>3. CASE Waiting(h) # {}
  <2>1. PICK w \in 2..Len(queue) : queue[w].handle = h /\ QueueWithoutWaiting(h) = RemoveAt(queue, w)
    BY <1>3 DEF QueueWithoutWaiting, Waiting
  <2> DEFINE q == QueueWithoutWaiting(h)
  <2>2. /\ q \in Seq(Job) /\ Len(q) = Len(queue) - 1
        /\ \A k \in 1..Len(q) : q[k] = IF k < w THEN queue[k] ELSE queue[k + 1]
    BY <1>1, <2>1 DEF RemoveAt
  <2> HIDE DEF q
  <2>3. \A k \in DOMAIN queue : queue[k].handle = h => k = 1 \/ k = w
    BY <1>1, <2>1 DEF QueueInv, NoMeaninglessJob
  <2>4. \A k \in DOMAIN q : q[k].handle = h => k = 1
    BY <1>1, <2>2, <2>3
  <2>5. \A k \in DOMAIN q : \E l \in DOMAIN queue : q[k] = queue[l] /\ (k > 1 => l > 1)
    <3> TAKE k \in DOMAIN q
    <3>1. CASE k < w
      BY <1>1, <2>2, <3>1
    <3>2. CASE ~(k < w)
      <4>1. k + 1 \in DOMAIN queue /\ q[k] = queue[k + 1] /\ k + 1 > 1
        BY <1>1, <2>2, <3>2
      <4> QED BY <4>1
    <3> QED BY <3>1, <3>2
  <2>6. ASSUME NEW k \in DOMAIN queue, queue[k].handle # h
        PROVE  \E l \in DOMAIN q : q[l] = queue[k] /\ (k > 1 => l > 1)
    <3>1. CASE k < w
      BY <1>1, <2>1, <2>2, <3>1
    <3>2. CASE ~(k < w)
      <4>1. k # w
        BY <2>1, <2>6
      <4>2. k - 1 \in DOMAIN q /\ q[k - 1] = queue[k] /\ k - 1 > 1
        BY <1>1, <2>1, <2>2, <3>2, <4>1
      <4> QED BY <4>2
    <3> QED BY <3>1, <3>2
  <2>7. q # <<>> /\ queue # <<>> /\ q[1] = queue[1]
    BY <1>1, <2>1, <2>2
  <2>8. ASSUME NEW k \in DOMAIN q, NEW l \in DOMAIN q, k < l, q[k].handle = q[l].handle
        PROVE  k = 1 /\ q[k].path # q[l].path
    <3>1. PICK m \in DOMAIN queue, n \in DOMAIN queue :
              m < n /\ q[k] = queue[m] /\ q[l] = queue[n] /\ (m = 1 => k = 1)
      <4>1. CASE l < w
        BY <1>1, <2>2, <2>8, <4>1
      <4>2. CASE k < w /\ ~(l < w)
        <5>1. l + 1 \in DOMAIN queue /\ k \in DOMAIN queue /\ k < l + 1
          BY <1>1, <2>2, <2>8, <4>2
        <5>2. q[k] = queue[k] /\ q[l] = queue[l + 1]
          BY <2>2, <2>8, <4>2
        <5> QED BY <5>1, <5>2
      <4>3. CASE ~(k < w)
        <5>1. l + 1 \in DOMAIN queue /\ k + 1 \in DOMAIN queue /\ k + 1 < l + 1 /\ k + 1 # 1
          BY <1>1, <2>2, <2>8, <4>3
        <5>2. q[k] = queue[k + 1] /\ q[l] = queue[l + 1]
          BY <2>2, <2>8, <4>3, <5>1
        <5> QED BY <5>1, <5>2
      <4> QED BY <2>8, <4>1, <4>2, <4>3
    <3> QED BY <2>8, <3>1 DEF QueueInv, NoMeaninglessJob
  <2>9. Leaves(h, q)
    BY <2>2, <2>4, <2>5, <2>6, <2>7, <2>8 DEF Leaves
  <2> QED BY <2>9 DEF q
<1> QED BY <1>2, <1>3

-----------------------------------------------------------------------------
(* A torrent's handler.                                                    *)

(* What addMoveTorrentStorageJob for the torrent of h makes of the queue.  *)
Requeues(h) ==
    /\ queue' \in Seq(Job)
    /\ moving' = IF queue = <<>> /\ queue' # <<>> THEN queue'[1] ELSE moving
    /\ \A k, l \in DOMAIN queue' :
          (k < l /\ queue'[k].handle = queue'[l].handle) => k = 1 /\ queue'[k].path # queue'[l].path
    /\ \A k \in DOMAIN queue' :
          queue'[k].handle = h \/ \E l \in DOMAIN queue : queue'[k] = queue[l] /\ (k > 1 => l > 1)
    /\ \A k \in DOMAIN queue :
          queue[k].handle # h => \E l \in DOMAIN queue' : queue'[l] = queue[k] /\ (k > 1 => l > 1)
    /\ queue # <<>> => queue' # <<>> /\ queue'[1] = queue[1]

LEMMA RunningJob ==
    ASSUME QueueInv, NEW h \in Handle
    PROVE  /\ IsActive(h) <=> \E k \in DOMAIN queue : k = 1 /\ queue[k].handle = h
           /\ HasJob(h, queue) <=> \E k \in DOMAIN queue : queue[k].handle = h
           /\ queue # <<>> => Head(queue) = queue[1] /\ 1 \in DOMAIN queue
BY DEF QueueInv, MovesType, IsActive, HasJob, Jobs

LEMMA JobFinishedParts ==
    ASSUME NEW i \in Impl, NEW path \in Path, NEW context \in Context, NEW outstanding \in BOOLEAN
    PROVE  /\ JobFinished(i, path, context, outstanding) \in Impl
           /\ JobFinished(i, path, context, outstanding).isMoving = outstanding
           /\ JobFinished(i, path, context, outstanding).triggers => outstanding
BY DEF JobFinished, Impl

(* The waiting job of the torrent is cancelled, if there is one.           *)
LEMMA CancelledIs ==
    ASSUME QueueInv, NEW h \in Handle, NEW i \in Impl
    PROVE  \/ Waiting(h) = {} /\ Cancelled(h, i) = i
           \/ /\ Waiting(h) # {}
              /\ Cancelled(h, i) \in Impl
              /\ Cancelled(h, i).isMoving = IsActive(h)
              /\ Cancelled(h, i).triggers => IsActive(h)
<1>1. queue \in Seq(Job)
  BY DEF QueueInv, MovesType
<1>2. CASE Waiting(h) # {}
  <2>1. PICK w \in 2..Len(queue) :
            Cancelled(h, i) = JobFinished(i, i.location, queue[w].context, IsActive(h))
    BY <1>2 DEF Cancelled, Waiting
  <2>2. queue[w] \in Job
    BY <1>1, <2>1
  <2>3. queue[w].context \in Context /\ i.location \in Path
    BY <2>2 DEF Job, Impl
  <2>4. IsActive(h) \in BOOLEAN
    BY DEF IsActive
  <2> QED BY <1>2, <2>1, <2>3, <2>4, JobFinishedParts
<1> QED BY <1>2 DEF Cancelled

LEMMA CancelledParts ==
    ASSUME QueueInv, NEW h \in Handle, NEW i \in Impl,
           i.isMoving <=> HasJob(h, queue), i.triggers => i.isMoving
    PROVE  /\ Cancelled(h, i).isMoving <=> IsActive(h)
           /\ Cancelled(h, i).triggers => Cancelled(h, i).isMoving
<1>1. CASE Waiting(h) = {}
  <2>1. queue \in Seq(Job)
    BY DEF QueueInv, MovesType
  <2>2. HasJob(h, queue) <=> IsActive(h)
    BY <1>1, <2>1, RunningJob DEF Waiting
  <2> QED BY <1>1, <2>2, CancelledIs
<1> QED BY <1>1, CancelledIs

LEMMA MovedParts ==
    ASSUME QueueInv, NEW h \in Handle, NEW i \in Impl, NEW path \in Path
    PROVE  /\ Moved(h, i, path) \in Impl
           /\ Moved(h, i, path).isMoving <=> Cancelled(h, i).isMoving \/ ~Refused(h, i, path)
           /\ Moved(h, i, path).triggers = Cancelled(h, i).triggers
<1>1. Cancelled(h, i) \in Impl
  BY CancelledIs
<1> DEFINE c == Cancelled(h, i)
<1>2. c.isMoving \in BOOLEAN
  BY <1>1 DEF Impl
<1>3. (c.isMoving \/ ~Refused(h, i, path)) \in BOOLEAN
  OBVIOUS
<1>4. Moved(h, i, path) = [c EXCEPT !.isMoving = c.isMoving \/ ~Refused(h, i, path)]
  BY DEF Moved
<1> HIDE DEF c
<1> QED BY <1>1, <1>2, <1>3, <1>4 DEF Impl, c

LEMMA StorageMoving ==
    ASSUME QueueInv, NEW h \in Handle, NEW i \in Impl, NEW path \in Path, NEW context \in Context,
           MoveStorage(h, i, path, context)
    PROVE  /\ Requeues(h)
           /\ HasJob(h, queue') <=> IsActive(h) \/ ~Refused(h, i, path)
<1> DEFINE left == QueueWithoutWaiting(h)
           job == [handle |-> h, path |-> path, context |-> context]
<1>1. Leaves(h, left)
  BY WithoutWaiting
<1>2. queue \in Seq(Job) /\ (queue = <<>> => moving = NoJob)
  BY DEF QueueInv, MovesType, OnlyFirstMoves
<1>3. /\ queue' = IF Refused(h, i, path) THEN left ELSE Append(left, job)
      /\ IF queue = <<>> THEN MoveFirst(queue') ELSE UNCHANGED moving
  BY DEF MoveStorage
<1>4. job \in Job /\ job.handle = h /\ job.path = path
  BY JobParts DEF Job
<1> HIDE DEF left, job
<1>5. IsActive(h) <=> \E k \in DOMAIN left : left[k].handle = h
  <2>1. left # <<>> => 1 \in DOMAIN left
    BY <1>1 DEF Leaves
  <2>2. queue # <<>> => 1 \in DOMAIN queue
    BY <1>2
  <2> QED BY <1>1, <2>1, <2>2, RunningJob DEF Leaves
<1>6. CASE Refused(h, i, path)
  <2>1. queue' = left
    BY <1>3, <1>6
  <2>2. moving' = IF queue = <<>> /\ queue' # <<>> THEN queue'[1] ELSE moving
    BY <1>1, <1>2, <1>3, <2>1 DEF Leaves, MoveFirst
  <2>3. HasJob(h, queue') <=> \E k \in DOMAIN left : left[k].handle = h
    BY <2>1 DEF HasJob, Jobs
  <2>4. Requeues(h)
    BY <1>1, <2>1, <2>2 DEF Leaves, Requeues
  <2> QED BY <1>5, <1>6, <2>3, <2>4
<1>7. CASE ~Refused(h, i, path)
  <2>1. queue' = Append(left, job) /\ left \in Seq(Job)
    BY <1>1, <1>3, <1>7 DEF Leaves
  <2>2. /\ queue' \in Seq(Job) /\ Len(queue') = Len(left) + 1
        /\ \A k \in 1..Len(left) : queue'[k] = left[k]
        /\ queue'[Len(left) + 1] = job
    BY <1>4, <2>1
  <2>3. moving' = IF queue = <<>> /\ queue' # <<>> THEN queue'[1] ELSE moving
    <3>1. queue' # <<>> /\ Head(queue') = queue'[1]
      BY <2>2
    <3> QED BY <1>3, <3>1 DEF MoveFirst
  <2>4. \A k \in DOMAIN queue' :
            queue'[k].handle = h \/ \E l \in DOMAIN queue : queue'[k] = queue[l] /\ (k > 1 => l > 1)
    BY <1>1, <1>4, <2>1, <2>2 DEF Leaves
  <2>5. \A k \in DOMAIN queue :
            queue[k].handle # h => \E l \in DOMAIN queue' : queue'[l] = queue[k] /\ (k > 1 => l > 1)
    <3>1. \A l \in DOMAIN left : l \in DOMAIN queue' /\ queue'[l] = left[l]
      BY <2>1, <2>2
    <3> QED BY <1>1, <3>1 DEF Leaves
  <2>6. ASSUME NEW k \in DOMAIN queue', NEW l \in DOMAIN queue',
               k < l, queue'[k].handle = queue'[l].handle
        PROVE  k = 1 /\ queue'[k].path # queue'[l].path
    <3>1. CASE l <= Len(left)
      <4>1. k \in DOMAIN left /\ l \in DOMAIN left /\ queue'[k] = left[k] /\ queue'[l] = left[l]
        BY <2>1, <2>2, <2>6, <3>1
      <4> QED BY <1>1, <2>6, <4>1 DEF Leaves
    <3>2. CASE l = Len(left) + 1
      <4>1. k \in DOMAIN left /\ queue'[k] = left[k] /\ left[k].handle = h /\ queue'[l].path = path
        BY <1>4, <2>1, <2>2, <2>6, <3>2
      <4>2. k = 1
        BY <1>1, <4>1 DEF Leaves
      <4>3. left[1] = queue[1] /\ queue # <<>>
        BY <1>1, <4>1, <4>2, <2>1 DEF Leaves
      <4>4. IsActive(h) /\ Head(queue) = queue[1]
        BY <1>2, <4>1, <4>2, <4>3 DEF IsActive
      <4>5. path # queue[1].path
        BY <1>7, <4>4 DEF Refused
      <4> QED BY <4>1, <4>2, <4>3, <4>5
    <3> QED BY <2>2, <2>6, <3>1, <3>2
  <2>7. HasJob(h, queue')
    <3>1. Len(left) + 1 \in DOMAIN queue'
      BY <2>1, <2>2
    <3> QED BY <1>4, <2>2, <3>1 DEF HasJob, Jobs
  <2>8. queue # <<>> => queue' # <<>> /\ queue'[1] = queue[1]
    <3>1. queue # <<>> => 1 \in 1..Len(left) /\ left[1] = queue[1]
      BY <1>1, <2>1 DEF Leaves
    <3> QED BY <2>2, <3>1
  <2>9. Requeues(h)
    BY <2>2, <2>3, <2>4, <2>5, <2>6, <2>8 DEF Requeues
  <2> QED BY <1>7, <2>7, <2>9
<1> QED BY <1>6, <1>7

(* A handler of the torrent of h leaves it in state j, and moves its       *)
(* storage or not.                                                         *)
Handles(h, j) ==
    /\ InSession(h)
    /\ Becomes(h, j)
    /\ j \in Impl
    /\ \/ Requeues(h)
       \/ UNCHANGED <<queue, moving>>
    /\ (impl[h].isMoving <=> HasJob(h, queue)) /\ (impl[h].triggers => impl[h].isMoving) =>
          (j.isMoving <=> HasJob(h, queue')) /\ (j.triggers => j.isMoving)

LEMMA TorrentMoves ==
    ASSUME QueueInv, NEW h \in Handle, InSession(h),
           NEW i \in Impl, i.isMoving = impl[h].isMoving, i.triggers = impl[h].triggers,
           NEW path \in Path, NEW context \in Context, NEW j \in Impl,
           MoveStorage(h, i, path, context), Becomes(h, j),
           j.isMoving = Moved(h, i, path).isMoving,
           j.triggers => Moved(h, i, path).triggers \/ Moved(h, i, path).isMoving
    PROVE  Handles(h, j)
<1>1. /\ Requeues(h)
      /\ HasJob(h, queue') <=> IsActive(h) \/ ~Refused(h, i, path)
  BY StorageMoving
<1>2. ASSUME impl[h].isMoving <=> HasJob(h, queue), impl[h].triggers => impl[h].isMoving
      PROVE  (j.isMoving <=> HasJob(h, queue')) /\ (j.triggers => j.isMoving)
  <2>1. /\ Cancelled(h, i).isMoving <=> IsActive(h)
        /\ Cancelled(h, i).triggers => Cancelled(h, i).isMoving
    BY <1>2, CancelledParts
  <2> QED BY <1>1, <2>1, MovedParts
<1> QED BY <1>1, <1>2 DEF Handles

LEMMA TorrentStays ==
    ASSUME NEW h \in Handle, InSession(h), NEW j \in Impl, NoMove, Becomes(h, j),
           j.isMoving = impl[h].isMoving,
           j.triggers => impl[h].triggers \/ impl[h].isMoving
    PROVE  Handles(h, j)
BY DEF NoMove, Handles

LEMMA ContextParts ==
    /\ "AdjustCurrentLocation" \in Context
    /\ "ChangeSavePath" \in Context
    /\ "ChangeDownloadPath" \in Context
BY DEF Context

LEMMA SavePathSet ==
    ASSUME QueueInv, SessionInv, NEW h \in Handle, NEW path \in Path, SetSavePath(h, path)
    PROVE  \E j \in Impl : Handles(h, j)
<1>1. InSession(h) /\ impl[h] \in Impl
  BY DEF SetSavePath, SessionInv
<1>2. CASE MoveStorage(h, impl[h], path, "ChangeSavePath") /\ Becomes(h, Moved(h, impl[h], path))
  BY <1>1, <1>2, MovedParts, ContextParts, TorrentMoves
<1>3. CASE NoMove /\ Becomes(h, [impl[h] EXCEPT !.savePath = path])
  <2>1. /\ [impl[h] EXCEPT !.savePath = path] \in Impl
        /\ [impl[h] EXCEPT !.savePath = path].isMoving = impl[h].isMoving
        /\ [impl[h] EXCEPT !.savePath = path].triggers = impl[h].triggers
    BY <1>1 DEF Impl
  <2> QED BY <1>1, <1>3, <2>1, TorrentStays
<1> QED BY <1>2, <1>3 DEF SetSavePath

LEMMA DownloadPathSet ==
    ASSUME QueueInv, SessionInv, NEW h \in Handle, NEW path \in Path \union {NoPath},
           SetDownloadPath(h, path)
    PROVE  \E j \in Impl : Handles(h, j)
<1> DEFINE place == IF path = NoPath THEN impl[h].savePath ELSE path
<1>1. InSession(h) /\ impl[h] \in Impl
  BY DEF SetDownloadPath, SessionInv
<1>2. CASE MoveStorage(h, impl[h], place, "ChangeDownloadPath") /\ Becomes(h, Moved(h, impl[h], place))
  <2>1. place \in Path
    BY <1>1 DEF Impl
  <2> HIDE DEF place
  <2> QED BY <1>1, <1>2, <2>1, MovedParts, ContextParts, TorrentMoves
<1>3. CASE NoMove /\ Becomes(h, [impl[h] EXCEPT !.downloadPath = path])
  <2>1. /\ [impl[h] EXCEPT !.downloadPath = path] \in Impl
        /\ [impl[h] EXCEPT !.downloadPath = path].isMoving = impl[h].isMoving
        /\ [impl[h] EXCEPT !.downloadPath = path].triggers = impl[h].triggers
    BY <1>1 DEF Impl
  <2> QED BY <1>1, <1>3, <2>1, TorrentStays
<1> QED BY <1>2, <1>3 DEF SetDownloadPath

LEMMA TargetParts == ASSUME NEW i \in Impl PROVE Target(i) \in Path
BY DEF Target, Impl

LEMMA LocationAdjusted ==
    ASSUME QueueInv, NEW h \in Handle, InSession(h),
           NEW i \in Impl, i.isMoving = impl[h].isMoving, i.triggers = impl[h].triggers,
           NEW j \in Impl, AdjustStorageLocation(h, i), Becomes(h, j),
           j.isMoving = Adjusted(h, i).isMoving,
           j.triggers => Adjusted(h, i).triggers \/ Adjusted(h, i).isMoving
    PROVE  Handles(h, j)
<1>1. CASE NeedsAdjusting(i)
  <2>1. MoveStorage(h, i, Target(i), "AdjustCurrentLocation") /\ Adjusted(h, i) = Moved(h, i, Target(i))
    BY <1>1 DEF AdjustStorageLocation, Adjusted
  <2> QED BY <2>1, TargetParts, ContextParts, TorrentMoves
<1>2. CASE ~NeedsAdjusting(i)
  BY <1>2, TorrentStays DEF AdjustStorageLocation, Adjusted
<1> QED BY <1>1, <1>2

LEMMA AdjustedParts ==
    ASSUME QueueInv, NEW h \in Handle, NEW i \in Impl
    PROVE  Adjusted(h, i) \in Impl
BY TargetParts, MovedParts DEF Adjusted

LEMMA Finished ==
    ASSUME QueueInv, SessionInv, NEW h \in Handle, TorrentFinished(h)
    PROVE  \E j \in Impl : Handles(h, j)
<1> DEFINE i == [impl[h] EXCEPT !.finished = TRUE]
           after == Adjusted(h, i)
           j == [after EXCEPT !.triggers = after.isMoving]
<1>1. InSession(h) /\ impl[h] \in Impl
  BY DEF TorrentFinished, SessionInv
<1>2. i \in Impl /\ i.isMoving = impl[h].isMoving /\ i.triggers = impl[h].triggers
  BY <1>1 DEF Impl
<1>3. AdjustStorageLocation(h, i) /\ Becomes(h, j)
  BY DEF TorrentFinished
<1> HIDE DEF i
<1>4. after \in Impl
  BY <1>2, AdjustedParts
<1> HIDE DEF after
<1>5. j \in Impl /\ j.isMoving = after.isMoving /\ j.triggers = after.isMoving
  BY <1>4 DEF Impl
<1> HIDE DEF j
<1>6. Handles(h, j)
  BY <1>1, <1>2, <1>3, <1>5, LocationAdjusted DEF after
<1> QED BY <1>5, <1>6

LEMMA Checked ==
    ASSUME QueueInv, SessionInv, NEW h \in Handle, NEW complete \in BOOLEAN, TorrentChecked(h, complete)
    PROVE  \E j \in Impl : Handles(h, j)
<1> DEFINE i == [impl[h] EXCEPT !.finished = complete]
<1>1. InSession(h) /\ impl[h] \in Impl
  BY DEF TorrentChecked, SessionInv
<1>2. i \in Impl /\ i.isMoving = impl[h].isMoving /\ i.triggers = impl[h].triggers
  BY <1>1 DEF Impl
<1>3. AdjustStorageLocation(h, i) /\ Becomes(h, Adjusted(h, i))
  BY DEF TorrentChecked
<1> HIDE DEF i
<1>4. Adjusted(h, i) \in Impl
  BY <1>2, AdjustedParts
<1> QED BY <1>1, <1>2, <1>3, <1>4, LocationAdjusted

LEMMA HandlesKeepsQueue ==
    ASSUME QueueInv, NEW h \in Handle, NEW j \in Impl, Handles(h, j)
    PROVE  QueueInv'
<1>1. MovesType'
  <2>1. queue' \in Seq(Job)
    BY DEF Handles, Requeues, QueueInv, MovesType
  <2> QED BY <2>1 DEF Handles, Becomes, QueueInv, MovesType
<1>2. CASE Requeues(h)
  <2>1. OnlyFirstMoves'
    <3>1. Head(queue) = queue[1] /\ Head(queue') = queue'[1]
      OBVIOUS
    <3> QED BY <1>2, <3>1 DEF Requeues, QueueInv, OnlyFirstMoves
  <2>2. NoMeaninglessJob'
    BY <1>2 DEF Requeues, NoMeaninglessJob
  <2> QED BY <1>1, <2>1, <2>2 DEF QueueInv
<1>3. CASE UNCHANGED <<queue, moving>>
  BY <1>1, <1>3 DEF QueueInv, OnlyFirstMoves, NoMeaninglessJob
<1> QED BY <1>2, <1>3 DEF Handles

(* The jobs of the other torrents are the same.                            *)
LEMMA HandlesKeepsJobs ==
    ASSUME NEW h \in Handle, NEW j, Handles(h, j), NEW g \in Handle, g # h
    PROVE  HasJob(g, queue') <=> HasJob(g, queue)
<1>1. CASE UNCHANGED <<queue, moving>>
  BY <1>1
<1>2. CASE Requeues(h)
  BY <1>2 DEF Requeues, HasJob, Jobs
<1> QED BY <1>1, <1>2 DEF Handles

LEMMA HandlesKeepsNative ==
    ASSUME QueueInv, NativeInv, NEW h \in Handle, NEW j \in Impl, Handles(h, j)
    PROVE  NativeInv'
<1>1. /\ UNCHANGED <<torrents, removing, native, phase>>
      /\ impl' = [impl EXCEPT ![h] = j]
      /\ InSession(h) /\ native[h] = "present"
  BY DEF Handles, Becomes, NativeInv, SessionInv
<1>2. JobsAreNative'
  <2>1. CASE Requeues(h)
    <3> SUFFICES ASSUME NEW k \in DOMAIN queue'
                 PROVE  native[queue'[k].handle] \in
                            IF k > 1 THEN {"present"}
                            ELSE IF moving' = NoJob THEN {"deleting", "gone"}
                            ELSE {"present", "deleting"}
      BY <1>1 DEF JobsAreNative
    <3>1. k \in Nat \ {0} /\ queue' # <<>> /\ queue'[k] \in Job
      BY <2>1 DEF Requeues
    <3>2. CASE k > 1
      BY <1>1, <2>1, <3>2 DEF Requeues, NativeInv, JobsAreNative
    <3>3. CASE k = 1 /\ queue # <<>>
      <4>1. queue'[1] = queue[1] /\ moving' = moving /\ 1 \in DOMAIN queue
        BY <2>1, <3>3, RunningJob DEF Requeues
      <4> QED BY <3>3, <4>1 DEF NativeInv, JobsAreNative
    <3>4. CASE k = 1 /\ queue = <<>>
      <4>1. queue'[1].handle = h /\ moving' = queue'[1]
        BY <2>1, <3>1, <3>4 DEF Requeues
      <4>2. moving' # NoJob
        BY <3>1, <3>4, <4>1, JobParts DEF Job
      <4> QED BY <1>1, <3>4, <4>1, <4>2
    <3> QED BY <3>1, <3>2, <3>3, <3>4
  <2>2. CASE UNCHANGED <<queue, moving>>
    BY <1>1, <2>2 DEF NativeInv, JobsAreNative
  <2> QED BY <2>1, <2>2 DEF Handles
<1>3. SessionInv'
  BY <1>1 DEF NativeInv, SessionInv, InSession, QueueInv, MovesType
<1>4. RemovalInv'
  <2> SUFFICES ASSUME NEW g \in Handle, (native[g] = "present" /\ ~InSession(g))'
               PROVE  (phase = "running" => HasJob(g, queue))' /\ removing'[HashOf[g]] # "files"
    BY DEF RemovalInv
  <2>1. native[g] = "present" /\ ~InSession(g) /\ g # h
    BY <1>1 DEF InSession
  <2>2. HasJob(g, queue') <=> HasJob(g, queue)
    BY <2>1, HandlesKeepsJobs
  <2> QED BY <1>1, <2>1, <2>2 DEF NativeInv, RemovalInv
<1> QED BY <1>2, <1>3, <1>4 DEF NativeInv

LEMMA HandlesKeepsMoving ==
    ASSUME QueueInv, NativeInv, MovingInv, NEW h \in Handle, NEW j \in Impl, Handles(h, j)
    PROVE  MovingInv'
<1>1. /\ UNCHANGED <<torrents, native, phase>>
      /\ impl' = [impl EXCEPT ![h] = j]
      /\ InSession(h)
  BY DEF Handles, Becomes
<1>2. StaysAreApart'
  BY <1>1 DEF MovingInv, StaysAreApart, InSession
<1>3. ASSUME phase = "running", NEW g \in Handle, InSession(g)
      PROVE  (impl'[g].isMoving <=> HasJob(g, queue')) /\ (impl'[g].triggers => impl'[g].isMoving)
  <2>1. CASE g = h
    <3>1. impl'[h] = j
      BY <1>1 DEF QueueInv, MovesType
    <3>2. (impl[h].isMoving <=> HasJob(h, queue)) /\ (impl[h].triggers => impl[h].isMoving)
      BY <1>1, <1>3 DEF MovingInv, MovingMeansJob
    <3> QED BY <2>1, <3>1, <3>2 DEF Handles
  <2>2. CASE g # h
    <3>1. impl'[g] = impl[g]
      BY <1>1, <2>2 DEF QueueInv, MovesType
    <3>2. HasJob(g, queue') <=> HasJob(g, queue)
      BY <2>2, HandlesKeepsJobs
    <3> QED BY <1>3, <3>1, <3>2 DEF MovingInv, MovingMeansJob
  <2> QED BY <2>1, <2>2
<1>4. MovingMeansJob'
  BY <1>1, <1>3 DEF MovingMeansJob, InSession
<1> QED BY <1>2, <1>4 DEF MovingInv

-----------------------------------------------------------------------------
(* The session.  Each step keeps the three parts of the invariant.         *)

LEMMA Initially == Init => QueueInv /\ NativeInv /\ MovingInv
<1> SUFFICES ASSUME Init PROVE QueueInv /\ NativeInv /\ MovingInv
  OBVIOUS
<1>1. QueueInv
  BY DEF Init, QueueInv, MovesType, OnlyFirstMoves, NoMeaninglessJob
<1>2. \A h \in Handle : ~InSession(h) /\ native[h] = "unknown"
  BY MovesAssumption DEF Init, InSession
<1>3. NativeInv /\ MovingInv
  BY <1>2 DEF Init, NativeInv, MovingInv, JobsAreNative, SessionInv, RemovalInv, StaysAreApart, MovingMeansJob
<1> QED BY <1>1, <1>3

LEMMA Added ==
    ASSUME QueueInv, NativeInv, NEW h \in Handle, NEW i \in Impl, AddTorrent(h, i)
    PROVE  /\ QueueInv' /\ NativeInv'
           /\ MovingInv /\ ~ReaddsWhileDeleting => MovingInv'
<1> DEFINE t == HashOf[h]
<1>1. /\ t \in Torrent /\ native[h] = "unknown" /\ torrents[t] = None
      /\ \A g \in Handle : HashOf[g] = t => native[g] # "present"
      /\ ~ReaddsWhileDeleting => \A g \in Handle : HashOf[g] = t => native[g] \in {"unknown", "gone"}
      /\ ~i.isMoving /\ ~i.triggers
      /\ torrents' = [torrents EXCEPT ![t] = h]
      /\ impl' = [impl EXCEPT ![h] = i]
      /\ native' = [native EXCEPT ![h] = "present"]
      /\ UNCHANGED <<queue, moving, removing, phase>>
  BY MovesAssumption DEF AddTorrent
<1>2. \A g \in Handle : g # h => native'[g] = native[g] /\ impl'[g] = impl[g]
  BY <1>1 DEF QueueInv, MovesType
<1>3. native'[h] = "present" /\ impl'[h] = i
  BY <1>1 DEF QueueInv, MovesType
<1>4. \A g \in Handle : g # h => (InSession(g)' <=> InSession(g))
  BY <1>1, MovesAssumption DEF InSession, QueueInv, MovesType
<1>5. InSession(h)'
  BY <1>1 DEF InSession, QueueInv, MovesType
<1> HIDE DEF t
<1>6. ~HasJob(h, queue)
  <2>1. \A k \in DOMAIN queue : queue[k].handle # h
    BY <1>1 DEF NativeInv, JobsAreNative
  <2> QED BY <2>1 DEF HasJob, Jobs
<1>7. QueueInv'
  <2>1. MovesType'
    BY <1>1 DEF QueueInv, MovesType
  <2> QED BY <1>1, <2>1 DEF QueueInv, OnlyFirstMoves, NoMeaninglessJob
<1>8. JobsAreNative'
  <2>1. \A k \in DOMAIN queue : queue[k].handle # h /\ queue[k].handle \in Handle
    <3>1. \A k \in DOMAIN queue : queue[k] \in Job
      BY DEF QueueInv, MovesType
    <3>2. \A k \in DOMAIN queue : queue[k].handle \in Handle
      BY <3>1 DEF Job
    <3> QED BY <1>1, <3>2 DEF NativeInv, JobsAreNative
  <2> QED BY <1>1, <1>2, <2>1 DEF NativeInv, JobsAreNative
<1>9. SessionInv'
  <2>1. ASSUME NEW g \in Handle, InSession(g)' PROVE native'[g] = "present" /\ impl'[g] \in Impl
    BY <1>2, <1>3, <1>4, <2>1 DEF NativeInv, SessionInv
  <2>3. \A u \in Torrent : torrents'[u] # None => HashOf[torrents'[u]] = u
    BY <1>1 DEF t, NativeInv, SessionInv, QueueInv, MovesType
  <2>2. ASSUME NEW f \in Handle, NEW g \in Handle, native'[f] = "present", native'[g] = "present",
               HashOf[f] = HashOf[g]
        PROVE  f = g
    BY <1>1, <1>2, <2>2 DEF t, NativeInv, SessionInv
  <2> QED BY <2>1, <2>2, <2>3 DEF SessionInv
<1>10. RemovalInv'
  BY <1>1, <1>2, <1>4, <1>5 DEF NativeInv, RemovalInv
<1>11. ASSUME MovingInv, ~ReaddsWhileDeleting PROVE MovingInv'
  <2>1. StaysAreApart'
    <3> SUFFICES ASSUME NEW f \in Handle, NEW g \in Handle, InSession(f)', HashOf[f] = HashOf[g], f # g
                 PROVE  native'[g] \in {"unknown", "gone"}
      BY DEF StaysAreApart
    <3>1. CASE f = h
      BY <1>1, <1>2, <1>11, <3>1 DEF t
    <3>2. CASE f # h
      <4>1. InSession(f) /\ native[f] = "present"
        BY <1>4, <3>2 DEF NativeInv, SessionInv
      <4>2. g # h
        BY <1>1, <4>1 DEF t
      <4> QED BY <1>2, <1>11, <4>1, <4>2 DEF MovingInv, StaysAreApart
    <3> QED BY <3>1, <3>2
  <2>2. MovingMeansJob'
    BY <1>1, <1>2, <1>3, <1>4, <1>6, <1>11 DEF MovingInv, MovingMeansJob
  <2> QED BY <2>1, <2>2 DEF MovingInv
<1> QED BY <1>7, <1>8, <1>9, <1>10, <1>11 DEF NativeInv

LEMMA JobIsJob == ASSUME QueueInv, NEW k \in DOMAIN queue PROVE queue[k] \in Job /\ queue[k].handle \in Handle
<1>1. queue[k] \in Job
  BY DEF QueueInv, MovesType
<1> QED BY <1>1 DEF Job

(* What deleteTorrent does to the queue of jobs.                           *)
LEMMA DeletedQueue ==
    ASSUME QueueInv, NativeInv, NEW h \in Handle, NEW option \in {"torrent", "files"},
           DeleteTorrent(h, option)
    PROVE  /\ QueueInv'
           /\ JobsAreNative'
           /\ \A g \in Handle : g # h => (HasJob(g, queue') <=> HasJob(g, queue))
<1>1. /\ torrents' = [torrents EXCEPT ![HashOf[h]] = None]
      /\ impl' = [impl EXCEPT ![h] = None]
      /\ removing' = [removing EXCEPT ![HashOf[h]] = option]
      /\ moving' = moving
      /\ native' = native \/ native' = [native EXCEPT ![h] = "deleting"]
  BY DEF DeleteTorrent, Keep, RemoveNative
<1>2. queue' \in Seq(Job) => MovesType'
  BY <1>1 DEF QueueInv, MovesType
<1>3. /\ native'[h] = native[h] \/ native'[h] = "deleting"
      /\ \A g \in Handle : g # h => native'[g] = native[g]
  BY <1>1 DEF QueueInv, MovesType
<1>4. CASE option = "torrent"
  <2>1. queue' = queue /\ (native' # native => ~HasJob(h, queue))
    BY <1>4 DEF DeleteTorrent, Keep
  <2>2. QueueInv'
    BY <1>1, <1>2, <2>1 DEF QueueInv, OnlyFirstMoves, NoMeaninglessJob, MovesType
  <2>3. JobsAreNative'
    <3>1. CASE native' = native
      BY <1>1, <2>1, <3>1 DEF NativeInv, JobsAreNative
    <3>2. CASE ~HasJob(h, queue)
      <4>1. \A k \in DOMAIN queue : queue[k].handle # h
        BY <3>2, RunningJob
      <4> QED BY <1>1, <1>3, <2>1, <4>1, JobIsJob DEF NativeInv, JobsAreNative
    <3> QED BY <2>1, <3>1, <3>2
  <2> QED BY <2>1, <2>2, <2>3
<1>5. CASE option = "files"
  <2>1. queue' = QueueWithoutWaiting(h)
    BY <1>5 DEF DeleteTorrent
  <2>2. Leaves(h, queue')
    BY <2>1, WithoutWaiting
  <2>3. OnlyFirstMoves'
    <3>1. Head(queue) = queue[1] /\ Head(queue') = queue'[1]
      OBVIOUS
    <3> QED BY <1>1, <2>2, <3>1 DEF Leaves, QueueInv, OnlyFirstMoves
  <2>4. NoMeaninglessJob' /\ MovesType'
    BY <1>2, <2>2 DEF Leaves, NoMeaninglessJob
  <2>5. ASSUME NEW k \in DOMAIN queue'
        PROVE  native'[queue'[k].handle] \in
                   IF k > 1 THEN {"present"}
                   ELSE IF moving' = NoJob THEN {"deleting", "gone"}
                   ELSE {"present", "deleting"}
    <3>1. PICK l \in DOMAIN queue : queue'[k] = queue[l] /\ (k > 1 <=> l > 1)
      <4>1. k \in Nat \ {0} /\ queue' # <<>>
        BY <2>2 DEF Leaves
      <4>2. CASE k > 1
        BY <2>2, <4>2 DEF Leaves
      <4>3. CASE k = 1
        BY <2>2, <4>1, <4>3, RunningJob DEF Leaves
      <4> QED BY <4>1, <4>2, <4>3
    <3>2. CASE queue'[k].handle = h
      <4>1. k = 1
        BY <2>2, <2>5, <3>2 DEF Leaves
      <4> QED BY <1>1, <1>3, <3>1, <3>2, <4>1 DEF NativeInv, JobsAreNative
    <3>3. CASE queue'[k].handle # h
      BY <1>1, <1>3, <3>1, <3>3, JobIsJob DEF NativeInv, JobsAreNative
    <3> QED BY <3>2, <3>3
  <2>6. \A g \in Handle : g # h => (HasJob(g, queue') <=> HasJob(g, queue))
    BY <2>2 DEF Leaves, HasJob, Jobs
  <2> QED BY <2>3, <2>4, <2>5, <2>6 DEF QueueInv, JobsAreNative
<1> QED BY <1>4, <1>5

LEMMA Deleted ==
    ASSUME QueueInv, NativeInv, NEW h \in Handle, NEW option \in {"torrent", "files"},
           DeleteTorrent(h, option)
    PROVE  QueueInv' /\ NativeInv' /\ (MovingInv => MovingInv')
<1> DEFINE t == HashOf[h]
<1>1. /\ InSession(h) /\ t \in Torrent
      /\ torrents' = [torrents EXCEPT ![t] = None]
      /\ impl' = [impl EXCEPT ![h] = None]
      /\ removing' = [removing EXCEPT ![t] = option]
      /\ phase' = phase
      /\ \/ native' = native /\ option = "torrent" /\ queue' = queue /\ HasJob(h, queue)
         \/ native' = [native EXCEPT ![h] = "deleting"]
  BY MovesAssumption DEF DeleteTorrent, Keep, RemoveNative
<1>2. /\ torrents'[t] = None /\ removing'[t] = option
      /\ \A u \in Torrent : u # t => torrents'[u] = torrents[u] /\ removing'[u] = removing[u]
      /\ \A g \in Handle : g # h => impl'[g] = impl[g] /\ native'[g] = native[g]
  BY <1>1 DEF QueueInv, MovesType
<1>3. /\ native[h] = "present"
      /\ native'[h] = "present" => option = "torrent" /\ HasJob(h, queue')
  BY <1>1 DEF QueueInv, MovesType, NativeInv, SessionInv
<1> HIDE DEF t
<1>4. \A g \in Handle : InSession(g)' => g # h /\ InSession(g) /\ HashOf[g] # t
  BY <1>1, <1>2, MovesAssumption DEF t, InSession
<1>5. \A g \in Handle : InSession(g) /\ g # h => InSession(g)'
  <2>1. \A g \in Handle : InSession(g) /\ g # h => HashOf[g] # t
    BY <1>1 DEF t, InSession
  <2> QED BY <1>2, <2>1, MovesAssumption DEF InSession
<1>6. SessionInv'
  <2>1. \A u \in Torrent : torrents'[u] # None => HashOf[torrents'[u]] = u
    BY <1>2 DEF NativeInv, SessionInv
  <2>2. \A g \in Handle : InSession(g)' => native'[g] = "present" /\ impl'[g] \in Impl
    BY <1>2, <1>4 DEF NativeInv, SessionInv
  <2>3. \A g \in Handle : native'[g] = "present" => native[g] = "present"
    BY <1>2, <1>3
  <2> QED BY <2>1, <2>2, <2>3 DEF NativeInv, SessionInv
<1>7. RemovalInv'
  <2> SUFFICES ASSUME NEW g \in Handle, native'[g] = "present", ~InSession(g)'
               PROVE  (phase' = "running" => HasJob(g, queue')) /\ removing'[HashOf[g]] # "files"
    BY DEF RemovalInv
  <2>1. CASE g = h
    BY <1>2, <1>3, <2>1 DEF t
  <2>2. CASE g # h
    <3>1. native[g] = "present" /\ ~InSession(g)
      BY <1>2, <1>5, <2>2
    <3>2. HashOf[g] # t
      BY <1>3, <2>2, <3>1 DEF t, NativeInv, SessionInv
    <3>3. HasJob(g, queue') <=> HasJob(g, queue)
      BY <2>2, DeletedQueue
    <3> QED BY <1>1, <1>2, <3>1, <3>2, <3>3, MovesAssumption DEF NativeInv, RemovalInv
  <2> QED BY <2>1, <2>2
<1>8. ASSUME MovingInv PROVE MovingInv'
  <2>1. StaysAreApart'
    BY <1>2, <1>4, <1>8 DEF t, MovingInv, StaysAreApart
  <2>2. MovingMeansJob'
    <3> SUFFICES ASSUME phase' = "running", NEW g \in Handle, InSession(g)'
                 PROVE  (impl'[g].isMoving <=> HasJob(g, queue')) /\ (impl'[g].triggers => impl'[g].isMoving)
      BY DEF MovingMeansJob
    <3>1. g # h /\ InSession(g) /\ impl'[g] = impl[g]
      BY <1>2, <1>4
    <3>2. HasJob(g, queue') <=> HasJob(g, queue)
      BY <3>1, DeletedQueue
    <3> QED BY <1>1, <1>8, <3>1, <3>2 DEF MovingInv, MovingMeansJob
  <2> QED BY <2>1, <2>2 DEF MovingInv
<1>9. QueueInv' /\ JobsAreNative'
  BY DeletedQueue
<1> QED BY <1>6, <1>7, <1>8, <1>9 DEF NativeInv

(* The first job leaves the queue.                                         *)
LEMMA FirstJobDone ==
    ASSUME QueueInv, NativeInv, moving # NoJob, queue' = Tail(queue), MoveFirst(queue')
    PROVE  /\ queue # <<>> /\ Head(queue) = queue[1] /\ queue[1] \in Job /\ queue[1].handle \in Handle
           /\ queue' \in Seq(Job)
           /\ OnlyFirstMoves' /\ NoMeaninglessJob'
           /\ \A k \in DOMAIN queue' : native[queue'[k].handle] = "present" /\ moving' # NoJob
           /\ native[queue[1].handle] \in {"present", "deleting"}
           /\ \A g \in Handle : g # queue[1].handle => (HasJob(g, queue') <=> HasJob(g, queue))
<1>1. queue # <<>> /\ queue \in Seq(Job)
  BY DEF QueueInv, MovesType, OnlyFirstMoves
<1>2. /\ queue' \in Seq(Job) /\ Len(queue') = Len(queue) - 1
      /\ \A k \in DOMAIN queue' : k + 1 \in DOMAIN queue /\ queue'[k] = queue[k + 1] /\ k + 1 > 1
      /\ 1 \in DOMAIN queue /\ Head(queue) = queue[1]
  BY <1>1
<1>3. \A k \in DOMAIN queue : k # 1 => k - 1 \in DOMAIN queue' /\ queue'[k - 1] = queue[k]
  BY <1>1, <1>2
<1>4. OnlyFirstMoves'
  BY DEF MoveFirst, OnlyFirstMoves
<1>5. NoMeaninglessJob'
  <2> SUFFICES ASSUME NEW k \in DOMAIN queue', NEW l \in DOMAIN queue', k < l,
                      queue'[k].handle = queue'[l].handle
               PROVE  FALSE
    BY DEF NoMeaninglessJob
  <2>1. k + 1 < l + 1 /\ k + 1 # 1
    BY <1>2
  <2>2. /\ k + 1 \in DOMAIN queue /\ l + 1 \in DOMAIN queue
        /\ queue[k + 1].handle = queue[l + 1].handle
    BY <1>2
  <2> QED BY <2>1, <2>2 DEF QueueInv, NoMeaninglessJob
<1>6. ASSUME NEW k \in DOMAIN queue' PROVE native[queue'[k].handle] = "present" /\ moving' # NoJob
  <2>1. queue' # <<>> /\ Head(queue') \in Job
    BY <1>2
  <2>2. moving' # NoJob
    BY <2>1, JobParts DEF MoveFirst, Job
  <2> QED BY <1>2, <2>2 DEF NativeInv, JobsAreNative
<1>7. native[queue[1].handle] \in {"present", "deleting"}
  BY <1>2 DEF NativeInv, JobsAreNative
<1>8. \A g \in Handle : g # queue[1].handle => (HasJob(g, queue') <=> HasJob(g, queue))
  BY <1>2, <1>3 DEF HasJob, Jobs
<1> QED BY <1>1, <1>2, <1>4, <1>5, <1>6, <1>7, <1>8, JobIsJob

(* The torrent that gets the answer is still in the session.               *)
LEMMA OwnerTold ==
    ASSUME QueueInv, NativeInv, NEW success \in BOOLEAN, NEW valid \in BOOLEAN,
           MoveFinished(success, valid), Owner(Head(queue).handle, valid) # None
    PROVE  QueueInv' /\ NativeInv' /\ (MovingInv => MovingInv')
<1> DEFINE h == queue[1].handle
           owner == Owner(h, valid)
           j == JobFinished(impl[owner], PlaceAfter(success, owner), queue[1].context, HasJob(h, Tail(queue)))
<1>1. moving # NoJob /\ queue' = Tail(queue) /\ MoveFirst(queue')
  BY DEF MoveFinished
<1>2. /\ Head(queue) = queue[1] /\ queue[1] \in Job /\ h \in Handle
      /\ queue' \in Seq(Job)
      /\ OnlyFirstMoves' /\ NoMeaninglessJob'
      /\ \A k \in DOMAIN queue' : native[queue'[k].handle] = "present" /\ moving' # NoJob
      /\ native[h] \in {"present", "deleting"}
      /\ \A g \in Handle : g # h => (HasJob(g, queue') <=> HasJob(g, queue))
  BY <1>1, FirstJobDone
<1>3. /\ impl' = [impl EXCEPT ![owner] = j]
      /\ UNCHANGED <<torrents, removing, native, phase>>
  BY <1>2 DEF MoveFinished
<1>4. owner \in Handle /\ InSession(owner) /\ HashOf[owner] = HashOf[h]
  <2>1. HashOf[h] \in Torrent
    BY <1>2, MovesAssumption
  <2>2. owner = torrents[HashOf[h]] /\ owner # None
    BY <1>2 DEF Owner
  <2>3. owner \in Handle
    BY <2>1, <2>2 DEF QueueInv, MovesType
  <2>4. HashOf[owner] = HashOf[h]
    BY <2>1, <2>2 DEF NativeInv, SessionInv
  <2> QED BY <2>2, <2>3, <2>4 DEF InSession
<1>5. impl[owner] \in Impl /\ native[owner] = "present"
  BY <1>4 DEF NativeInv, SessionInv
<1>6. /\ j \in Impl /\ j.isMoving = HasJob(h, queue')
      /\ j.triggers => j.isMoving
  <2>1. PlaceAfter(success, owner) \in Path
    BY <1>2, <1>5 DEF PlaceAfter, Job, Impl
  <2>2. queue[1].context \in Context
    BY <1>2 DEF Job
  <2>3. HasJob(h, Tail(queue)) \in BOOLEAN
    BY DEF HasJob
  <2> QED BY <1>1, <1>5, <2>1, <2>2, <2>3, JobFinishedParts
<1> HIDE DEF h, owner, j
<1>7. MovesType'
  BY <1>2, <1>3, <1>4, <1>6 DEF QueueInv, MovesType
<1>8. JobsAreNative'
  BY <1>2, <1>3 DEF JobsAreNative
<1>9. SessionInv'
  BY <1>3, <1>4, <1>6 DEF NativeInv, SessionInv, InSession, QueueInv, MovesType
<1>10. RemovalInv'
  <2> SUFFICES ASSUME NEW g \in Handle, native[g] = "present", ~InSession(g)
               PROVE  (phase = "running" => HasJob(g, queue')) /\ removing[HashOf[g]] # "files"
    BY <1>3 DEF RemovalInv, InSession
  <2>1. g # h
    BY <1>4, <1>5 DEF NativeInv, SessionInv
  <2> QED BY <1>2, <2>1 DEF NativeInv, RemovalInv
<1>11. ASSUME MovingInv PROVE MovingInv'
  <2>1. StaysAreApart'
    BY <1>3, <1>11 DEF MovingInv, StaysAreApart, InSession
  <2>2. owner = h
    BY <1>2, <1>4, <1>11 DEF MovingInv, StaysAreApart
  <2>3. ASSUME phase = "running", NEW g \in Handle, InSession(g)
        PROVE  (impl'[g].isMoving <=> HasJob(g, queue')) /\ (impl'[g].triggers => impl'[g].isMoving)
    <3>1. CASE g = h
      <4>1. impl'[h] = j
        BY <1>2, <1>3, <2>2 DEF QueueInv, MovesType
      <4> QED BY <1>6, <3>1, <4>1
    <3>2. CASE g # h
      <4>1. impl'[g] = impl[g]
        BY <1>3, <2>2, <3>2 DEF QueueInv, MovesType
      <4>2. HasJob(g, queue') <=> HasJob(g, queue)
        BY <1>2, <3>2
      <4> QED BY <1>11, <2>3, <4>1, <4>2 DEF MovingInv, MovingMeansJob
    <3> QED BY <3>1, <3>2
  <2>4. MovingMeansJob'
    BY <1>3, <2>3 DEF MovingMeansJob, InSession
  <2> QED BY <2>1, <2>4 DEF MovingInv
<1> QED BY <1>2, <1>7, <1>8, <1>9, <1>10, <1>11 DEF QueueInv, NativeInv

(* The torrent has been removed: libtorrent's goes with the last job.      *)
LEMMA OwnerGone ==
    ASSUME QueueInv, NativeInv, NEW success \in BOOLEAN, NEW valid \in BOOLEAN,
           MoveFinished(success, valid), Owner(Head(queue).handle, valid) = None
    PROVE  QueueInv' /\ NativeInv' /\ (MovingInv => MovingInv')
<1> DEFINE h == queue[1].handle
           t == HashOf[h]
<1>1. moving # NoJob /\ queue' = Tail(queue) /\ MoveFirst(queue')
  BY DEF MoveFinished
<1>2. /\ Head(queue) = queue[1] /\ h \in Handle
      /\ queue' \in Seq(Job)
      /\ OnlyFirstMoves' /\ NoMeaninglessJob'
      /\ \A k \in DOMAIN queue' : native[queue'[k].handle] = "present" /\ moving' # NoJob
      /\ \A g \in Handle : g # h => (HasJob(g, queue') <=> HasJob(g, queue))
  BY <1>1, FirstJobDone
<1>3. /\ UNCHANGED <<torrents, impl, phase>>
      /\ valid \in Valid(h)
      /\ IF valid THEN FinishRemoval(h, HasJob(h, queue')) ELSE UNCHANGED <<removing, native>>
  BY <1>1, <1>2 DEF MoveFinished
<1>4. t \in Torrent /\ (valid => torrents[t] = None) /\ (~valid => native[h] # "present")
  BY <1>2, <1>3, MovesAssumption DEF Owner, Valid
<1>5. ~InSession(h)
  <2>1. CASE valid
    BY <1>2, <1>4, <2>1, MovesAssumption DEF InSession
  <2>2. CASE ~valid
    BY <1>2, <1>4, <2>2 DEF NativeInv, SessionInv
  <2> QED BY <2>1, <2>2
<1> HIDE DEF h, t
<1>6. \/ UNCHANGED <<removing, native>> /\ (native[h] = "present" => HasJob(h, queue'))
      \/ /\ ~HasJob(h, queue') /\ torrents[t] = None
         /\ removing' = [removing EXCEPT ![t] = IF @ = "no" THEN "torrent" ELSE @]
         /\ \/ native' = [native EXCEPT ![h] = "deleting"]
            \/ native' = native /\ native[h] # "present"
  <2>1. CASE ~valid
    BY <1>3, <1>4, <2>1
  <2>2. CASE valid /\ HasJob(h, queue')
    BY <1>3, <2>2 DEF FinishRemoval
  <2>3. CASE valid /\ ~HasJob(h, queue')
    <3>1. /\ removing' = [removing EXCEPT ![t] = IF @ = "no" THEN "torrent" ELSE @]
          /\ IF removing'[t] = "torrent" THEN RemoveNative(h) ELSE Keep
      BY <1>3, <2>3 DEF t, FinishRemoval
    <3>2. removing'[t] # "torrent" => native[h] # "present"
      BY <1>2, <1>4, <1>5, <3>1 DEF t, NativeInv, RemovalInv, QueueInv, MovesType
    <3> QED BY <1>4, <2>3, <3>1, <3>2 DEF RemoveNative, Keep
  <2> QED BY <2>1, <2>2, <2>3
<1>7. /\ \A g \in Handle : g # h => native'[g] = native[g]
      /\ native'[h] = "present" => native[h] = "present" /\ HasJob(h, queue')
      /\ \A u \in Torrent : removing'[u] = "files" => removing[u] = "files"
      /\ \A k \in DOMAIN queue' : native'[queue'[k].handle] = "present"
      /\ native' \in [Handle -> {"unknown", "present", "deleting", "gone"}]
      /\ removing' \in [Torrent -> {"no", "torrent", "files"}]
  <2>1. CASE UNCHANGED <<removing, native>> /\ (native[h] = "present" => HasJob(h, queue'))
    BY <1>2, <2>1 DEF QueueInv, MovesType
  <2>2. CASE /\ ~HasJob(h, queue') /\ torrents[t] = None
             /\ removing' = [removing EXCEPT ![t] = IF @ = "no" THEN "torrent" ELSE @]
             /\ \/ native' = [native EXCEPT ![h] = "deleting"]
                \/ native' = native /\ native[h] # "present"
    <3>1. /\ \A g \in Handle : g # h => native'[g] = native[g]
          /\ native'[h] # "present"
          /\ native' \in [Handle -> {"unknown", "present", "deleting", "gone"}]
      BY <1>2, <2>2 DEF QueueInv, MovesType
    <3>2. /\ \A u \in Torrent : removing'[u] = "files" => removing[u] = "files"
          /\ removing' \in [Torrent -> {"no", "torrent", "files"}]
      BY <1>4, <2>2 DEF QueueInv, MovesType
    <3>3. \A k \in DOMAIN queue' : queue'[k].handle # h /\ queue'[k].handle \in Handle
      <4>1. \A k \in DOMAIN queue' : queue'[k] \in Job
        BY <1>2
      <4>2. \A k \in DOMAIN queue' : queue'[k].handle # h
        BY <2>2 DEF HasJob, Jobs
      <4> QED BY <4>1, <4>2 DEF Job
    <3> QED BY <1>2, <3>1, <3>2, <3>3
  <2> QED BY <1>6, <2>1, <2>2
<1>8. MovesType'
  BY <1>2, <1>3, <1>7 DEF QueueInv, MovesType
<1>9. JobsAreNative'
  BY <1>2, <1>7 DEF JobsAreNative
<1>10. SessionInv'
  <2>1. \A g \in Handle : InSession(g) => native'[g] = "present"
    BY <1>5, <1>7 DEF NativeInv, SessionInv
  <2>2. \A g \in Handle : native'[g] = "present" => native[g] = "present"
    BY <1>7
  <2> QED BY <1>3, <2>1, <2>2 DEF NativeInv, SessionInv, InSession
<1>11. RemovalInv'
  <2> SUFFICES ASSUME NEW g \in Handle, native'[g] = "present", ~InSession(g)
               PROVE  (phase = "running" => HasJob(g, queue')) /\ removing'[HashOf[g]] # "files"
    BY <1>3 DEF RemovalInv, InSession
  <2>1. removing'[HashOf[g]] # "files" /\ (phase = "running" => HasJob(g, queue))
    BY <1>7, MovesAssumption DEF NativeInv, RemovalInv
  <2> QED BY <1>2, <1>7, <2>1
<1>12. ASSUME MovingInv PROVE MovingInv'
  <2>1. StaysAreApart'
    <3> SUFFICES ASSUME NEW f \in Handle, NEW g \in Handle, InSession(f), HashOf[f] = HashOf[g], f # g
                 PROVE  native'[g] \in {"unknown", "gone"}
      BY <1>3 DEF StaysAreApart, InSession
    <3>1. native[g] \in {"unknown", "gone"}
      BY <1>12 DEF MovingInv, StaysAreApart
    <3>2. g # h
      BY <3>1, <1>1, FirstJobDone DEF h
    <3> QED BY <1>7, <3>1, <3>2
  <2>2. MovingMeansJob'
    BY <1>2, <1>3, <1>5, <1>12 DEF MovingInv, MovingMeansJob, InSession
  <2> QED BY <2>1, <2>2 DEF MovingInv
<1> QED BY <1>2, <1>8, <1>9, <1>10, <1>11, <1>12 DEF QueueInv, NativeInv

(* The failure of a move whose torrent has gone: its answer is spent.      *)
LEMMA FailureLost ==
    ASSUME QueueInv, NativeInv, MoveFailedOfGone
    PROVE  QueueInv' /\ NativeInv' /\ (MovingInv => MovingInv')
<1>1. /\ UNCHANGED <<torrents, impl, queue, removing, native, phase>>
      /\ moving # NoJob /\ moving' = NoJob
      /\ FALSE \in Valid(Head(queue).handle)
  BY DEF MoveFailedOfGone, sessionVars
<1>2. QueueInv'
  BY <1>1 DEF QueueInv, MovesType, OnlyFirstMoves, NoMeaninglessJob
<1>3. JobsAreNative'
  <2>1. native[queue[1].handle] # "present"
    <3>1. Head(queue) = queue[1]
      OBVIOUS
    <3> QED BY <1>1, <3>1 DEF Valid
  <2>2. \A k \in DOMAIN queue : k = 1 \/ k > 1
    BY DEF QueueInv, MovesType
  <2> QED BY <1>1, <2>1, <2>2 DEF NativeInv, JobsAreNative
<1>4. SessionInv' /\ RemovalInv'
  BY <1>1 DEF NativeInv, SessionInv, RemovalInv, InSession
<1>5. MovingInv => MovingInv'
  BY <1>1 DEF MovingInv, StaysAreApart, MovingMeansJob, InSession
<1> QED BY <1>2, <1>3, <1>4, <1>5 DEF NativeInv

LEMMA RemovedAlert ==
    ASSUME QueueInv, NativeInv, NEW h \in Handle, TorrentRemovedAlert(h)
    PROVE  QueueInv' /\ NativeInv' /\ (MovingInv => MovingInv')
<1>1. /\ UNCHANGED <<torrents, impl, queue, native, moving, phase>>
      /\ removing' = [removing EXCEPT ![HashOf[h]] = IF @ = "torrent" THEN "no" ELSE @]
      /\ HashOf[h] \in Torrent
  BY MovesAssumption DEF TorrentRemovedAlert
<1>2. /\ removing' \in [Torrent -> {"no", "torrent", "files"}]
      /\ \A u \in Torrent : removing'[u] = "files" => removing[u] = "files"
  BY <1>1 DEF QueueInv, MovesType
<1>3. QueueInv'
  BY <1>1, <1>2 DEF QueueInv, MovesType, OnlyFirstMoves, NoMeaninglessJob
<1>4. JobsAreNative' /\ SessionInv'
  BY <1>1 DEF NativeInv, JobsAreNative, SessionInv, InSession
<1>5. RemovalInv'
  BY <1>1, <1>2, MovesAssumption DEF NativeInv, RemovalInv, InSession
<1>6. MovingInv => MovingInv'
  BY <1>1 DEF MovingInv, StaysAreApart, MovingMeansJob, InSession
<1> QED BY <1>3, <1>4, <1>5, <1>6 DEF NativeInv

LEMMA DeletedAlert ==
    ASSUME QueueInv, NativeInv, NEW h \in Handle, NEW success \in BOOLEAN, TorrentDeletedAlert(h, success)
    PROVE  QueueInv' /\ NativeInv' /\ (MovingInv => MovingInv')
<1>1. /\ UNCHANGED <<torrents, impl, queue, moving, phase>>
      /\ native[h] = "deleting"
      /\ moving = NoJob \/ moving.handle # h
      /\ native' = [native EXCEPT ![h] = "gone"]
      /\ removing' = [removing EXCEPT ![HashOf[h]] = IF success /\ @ = "torrent" THEN @ ELSE "no"]
      /\ HashOf[h] \in Torrent
  BY MovesAssumption DEF TorrentDeletedAlert
<1>2. /\ removing' \in [Torrent -> {"no", "torrent", "files"}]
      /\ \A u \in Torrent : removing'[u] = "files" => removing[u] = "files"
      /\ native'[h] = "gone"
      /\ \A g \in Handle : g # h => native'[g] = native[g]
  BY <1>1 DEF QueueInv, MovesType
<1>3. QueueInv'
  BY <1>1, <1>2 DEF QueueInv, MovesType, OnlyFirstMoves, NoMeaninglessJob
<1>4. JobsAreNative'
  <2>1. ASSUME NEW k \in DOMAIN queue, queue[k].handle = h PROVE ~(k > 1) /\ moving = NoJob
    <3>1. ~(k > 1)
      BY <1>1, <2>1 DEF NativeInv, JobsAreNative
    <3>2. k = 1 /\ queue # <<>>
      BY <3>1 DEF QueueInv, MovesType
    <3>3. Head(queue) = queue[1]
      BY <3>2, RunningJob
    <3>4. moving = NoJob \/ moving = queue[1]
      BY <3>3 DEF QueueInv, OnlyFirstMoves
    <3> QED BY <1>1, <2>1, <3>1, <3>2, <3>4
  <2> QED BY <1>1, <1>2, <2>1, JobIsJob DEF NativeInv, JobsAreNative
<1>5. SessionInv'
  BY <1>1, <1>2 DEF NativeInv, SessionInv, InSession
<1>6. RemovalInv'
  BY <1>1, <1>2, MovesAssumption DEF NativeInv, RemovalInv, InSession
<1>7. MovingInv => MovingInv'
  BY <1>1, <1>2 DEF MovingInv, StaysAreApart, MovingMeansJob, InSession
<1> QED BY <1>3, <1>4, <1>5, <1>6, <1>7 DEF NativeInv

LEMMA Exited ==
    ASSUME QueueInv, NativeInv, Exit
    PROVE  QueueInv' /\ NativeInv' /\ (MovingInv => MovingInv')
<1>1. /\ UNCHANGED <<torrents, impl, removing, native, moving>>
      /\ phase' = "exiting"
      /\ queue' = IF Len(queue) > 1 THEN SubSeq(queue, 1, 1) ELSE queue
  BY DEF Exit, nativeVars
<1>2. queue \in Seq(Job)
  BY DEF QueueInv, MovesType
<1>3. /\ queue' \in Seq(Job)
      /\ queue' = <<>> <=> queue = <<>>
      /\ \A k \in DOMAIN queue' : k = 1 /\ k \in DOMAIN queue /\ queue'[k] = queue[k]
  BY <1>1, <1>2
<1>4. queue # <<>> => Head(queue') = Head(queue)
  <2>1. queue # <<>> => 1 \in DOMAIN queue' /\ Head(queue') = queue'[1] /\ Head(queue) = queue[1]
    BY <1>2, <1>3
  <2> QED BY <1>3, <2>1
<1>5. QueueInv'
  BY <1>1, <1>3, <1>4 DEF QueueInv, MovesType, OnlyFirstMoves, NoMeaninglessJob
<1>6. NativeInv'
  BY <1>1, <1>3 DEF NativeInv, JobsAreNative, SessionInv, RemovalInv, InSession
<1>7. MovingInv => MovingInv'
  BY <1>1 DEF MovingInv, StaysAreApart, MovingMeansJob, InSession
<1> QED BY <1>5, <1>6, <1>7

LEMMA LeftAlone ==
    ASSUME QueueInv, NativeInv, UNCHANGED <<torrents, impl, queue, removing, native, moving>>,
           phase' = "running" => phase = "running"
    PROVE  QueueInv' /\ NativeInv' /\ (MovingInv => MovingInv')
<1>1. QueueInv'
  BY DEF QueueInv, MovesType, OnlyFirstMoves, NoMeaninglessJob
<1>2. NativeInv'
  BY DEF NativeInv, JobsAreNative, SessionInv, RemovalInv, InSession
<1>3. MovingInv => MovingInv'
  BY DEF MovingInv, StaysAreApart, MovingMeansJob, InSession
<1> QED BY <1>1, <1>2, <1>3

-----------------------------------------------------------------------------
LEMMA Kept ==
    ASSUME QueueInv, NativeInv, [Next]_vars
    PROVE  /\ QueueInv' /\ NativeInv'
           /\ MovingInv /\ ~ReaddsWhileDeleting => MovingInv'
<1>1. ASSUME NEW h \in Handle, NEW j \in Impl, Handles(h, j)
      PROVE  QueueInv' /\ NativeInv' /\ (MovingInv => MovingInv')
  BY <1>1, HandlesKeepsQueue, HandlesKeepsNative, HandlesKeepsMoving
<1>2. CASE \E h \in Handle : \/ \E path \in Path : SetSavePath(h, path)
                             \/ \E path \in Path \union {NoPath} : SetDownloadPath(h, path)
                             \/ TorrentFinished(h)
                             \/ \E complete \in BOOLEAN : TorrentChecked(h, complete)
  <2>1. \E h \in Handle, j \in Impl : Handles(h, j)
    BY <1>2, SavePathSet, DownloadPathSet, Finished, Checked DEF NativeInv
  <2> QED BY <1>1, <2>1
<1>3. CASE \E success, valid \in BOOLEAN : MoveFinished(success, valid)
  BY <1>3, OwnerTold, OwnerGone
<1>4. CASE End \/ UNCHANGED vars
  BY <1>4, LeftAlone DEF End, vars, sessionVars, nativeVars
<1> QED BY <1>2, <1>3, <1>4, FailureLost, Added, Deleted, RemovedAlert, DeletedAlert, Exited DEF Next

LEMMA QueueKept == Spec => [](QueueInv /\ NativeInv)
<1>1. Init => QueueInv /\ NativeInv
  BY Initially
<1>2. (QueueInv /\ NativeInv) /\ [Next]_vars => (QueueInv /\ NativeInv)'
  BY Kept
<1> QED BY <1>1, <1>2, PTL DEF Spec

(* libtorrent moves exactly the storage of the first job, so no answer is  *)
(* mistaken for another job's; nothing moves while jobs are left only      *)
(* behind a torrent that was removed with its files while it moved         *)
(* (addMoveTorrentStorageJob, handleStorageMovedFailedAlert,               *)
(* handleMoveTorrentStorageJobFinished).                                   *)
THEOREM FirstIsMoving == Spec => []FirstJobIsMoving
<1>1. QueueInv /\ NativeInv => FirstJobIsMoving
  <2> SUFFICES ASSUME QueueInv, NativeInv PROVE FirstJobIsMoving
    OBVIOUS
  <2>1. CASE queue = <<>>
    BY <2>1 DEF QueueInv, OnlyFirstMoves, FirstJobIsMoving
  <2>2. CASE queue # <<>> /\ moving # NoJob
    BY <2>2 DEF QueueInv, OnlyFirstMoves, FirstJobIsMoving
  <2>3. CASE queue # <<>> /\ moving = NoJob
    <3>1. 1 \in DOMAIN queue /\ Head(queue) = queue[1]
      BY <2>3, RunningJob
    <3>2. native[Head(queue).handle] # "present"
      BY <2>3, <3>1 DEF NativeInv, JobsAreNative
    <3> QED BY <2>3, <3>2 DEF FirstJobIsMoving, Stalled
  <2> QED BY <2>1, <2>2, <2>3
<1> QED BY <1>1, QueueKept, PTL

(* A queue that has stalled stays so: no later request, removal, alert or  *)
(* exit starts its jobs again (addMoveTorrentStorageJob starts a job only  *)
(* when it is alone, and the loop at exit keeps the first one).            *)
THEOREM StallLasts == Spec => [][Stalled => Stalled']_vars
<1>1. ASSUME QueueInv, NativeInv, [Next]_vars, Stalled PROVE Stalled'
  <2> DEFINE h == queue[1].handle
  <2>1. /\ queue # <<>> /\ 1 \in DOMAIN queue /\ Head(queue) = queue[1] /\ h \in Handle
        /\ moving = NoJob /\ native[h] # "present" /\ native[h] # "unknown"
    BY <1>1, RunningJob, JobIsJob DEF Stalled, NativeInv, JobsAreNative
  <2>2. ASSUME queue' # <<>>, queue'[1] = queue[1], moving' = moving, native'[h] # "present"
        PROVE  Stalled'
    <3>1. Head(queue') = queue'[1]
      OBVIOUS
    <3> QED BY <2>1, <2>2, <3>1 DEF Stalled
  <2> HIDE DEF h
  <2>3. ASSUME NEW g \in Handle, NEW j \in Impl, Handles(g, j) PROVE Stalled'
    BY <2>1, <2>2, <2>3 DEF Handles, Becomes, Requeues
  <2>4. CASE \E g \in Handle : \/ \E path \in Path : SetSavePath(g, path)
                               \/ \E path \in Path \union {NoPath} : SetDownloadPath(g, path)
                               \/ TorrentFinished(g)
                               \/ \E complete \in BOOLEAN : TorrentChecked(g, complete)
    <3>1. \E g \in Handle, j \in Impl : Handles(g, j)
      BY <1>1, <2>4, SavePathSet, DownloadPathSet, Finished, Checked DEF NativeInv
    <3> QED BY <2>3, <3>1
  <2>5. ASSUME NEW g \in Handle, NEW i \in Impl, AddTorrent(g, i) PROVE Stalled'
    <3>1. native'[h] = native[h]
      BY <1>1, <2>1, <2>5 DEF AddTorrent, QueueInv, MovesType
    <3> QED BY <2>1, <2>2, <2>5, <3>1 DEF AddTorrent
  <2>6. ASSUME NEW g \in Handle, NEW option \in {"torrent", "files"}, DeleteTorrent(g, option)
        PROVE  Stalled'
    <3>1. queue' # <<>> /\ queue'[1] = queue[1]
      BY <1>1, <2>1, <2>6, WithoutWaiting DEF DeleteTorrent, Leaves
    <3>2. moving' = moving /\ (native' = native \/ native' = [native EXCEPT ![g] = "deleting"])
      BY <2>6 DEF DeleteTorrent, Keep, RemoveNative
    <3>3. native'[h] # "present"
      BY <1>1, <2>1, <3>2 DEF QueueInv, MovesType
    <3> QED BY <2>2, <3>1, <3>2, <3>3
  <2>7. CASE MoveFailedOfGone \/ \E success, valid \in BOOLEAN : MoveFinished(success, valid)
    BY <2>1, <2>7 DEF MoveFailedOfGone, MoveFinished
  <2>8. ASSUME NEW g \in Handle, TorrentRemovedAlert(g) PROVE Stalled'
    BY <2>1, <2>2, <2>8 DEF TorrentRemovedAlert
  <2>9. ASSUME NEW g \in Handle, NEW success \in BOOLEAN, TorrentDeletedAlert(g, success)
        PROVE  Stalled'
    <3>1. native'[h] # "present"
      BY <1>1, <2>1, <2>9 DEF TorrentDeletedAlert, QueueInv, MovesType
    <3> QED BY <2>1, <2>2, <2>9, <3>1 DEF TorrentDeletedAlert
  <2>10. CASE Exit
    <3>1. queue \in Seq(Job) /\ queue' = IF Len(queue) > 1 THEN SubSeq(queue, 1, 1) ELSE queue
      BY <1>1, <2>10 DEF Exit, QueueInv, MovesType
    <3>2. queue' # <<>> /\ queue'[1] = queue[1]
      BY <2>1, <3>1
    <3> QED BY <2>1, <2>2, <2>10, <3>2 DEF Exit, nativeVars
  <2>11. CASE UNCHANGED vars
    BY <2>1, <2>2, <2>11 DEF vars, sessionVars, nativeVars
  <2>12. CASE End
    BY <2>1, <2>12 DEF End
  <2> QED BY <1>1, <2>4, <2>5, <2>6, <2>7, <2>8, <2>9, <2>10, <2>11, <2>12 DEF Next
<1> QED BY <1>1, QueueKept, PTL DEF Spec

(* At most one job of a torrent waits behind the one that runs, and goes   *)
(* elsewhere (addMoveTorrentStorageJob).                                   *)
THEOREM Meaningful == Spec => []NoMeaninglessJob
<1>1. QueueInv => NoMeaninglessJob
  BY DEF QueueInv
<1> QED BY <1>1, QueueKept, PTL

(* A removed torrent stays in libtorrent for its jobs only, and no job     *)
(* that waits is of a torrent that is going (deleteTorrent).               *)
THEOREM RemovalWaits == Spec => []RemovalWaitsForJobs
<1>1. NativeInv => RemovalWaitsForJobs
  BY DEF NativeInv, JobsAreNative, RemovalInv, RemovalWaitsForJobs
<1> QED BY <1>1, QueueKept, PTL

(* A torrent shows that it moves exactly while it has a job, unless it may *)
(* come back while its files are deleted: then it is told of the moves of  *)
(* its earlier stay (handleMoveTorrentStorageJobFinished).                 *)
THEOREM ShownMoving == ~ReaddsWhileDeleting => (Spec => []MovingMeansJob)
<1> SUFFICES ASSUME ~ReaddsWhileDeleting PROVE Spec => []MovingMeansJob
  OBVIOUS
<1>1. Init => QueueInv /\ NativeInv /\ MovingInv
  BY Initially
<1>2. (QueueInv /\ NativeInv /\ MovingInv) /\ [Next]_vars => (QueueInv /\ NativeInv /\ MovingInv)'
  BY Kept
<1>3. MovingInv => MovingMeansJob
  BY DEF MovingInv
<1> QED BY <1>1, <1>2, <1>3, PTL DEF Spec

-----------------------------------------------------------------------------
(* Where the storage of a torrent is going.                                *)

(* What the end of the job makes of the paths of a torrent.                *)
After(i, job) ==
    [i EXCEPT !.savePath = IF job.context = "ChangeSavePath" THEN job.path ELSE @,
              !.downloadPath = IF job.context = "ChangeDownloadPath" THEN job.path ELSE @]

(* The job takes the storage where the paths are going to say.             *)
Fits(i, job) ==
    \/ job.context = "AdjustCurrentLocation" /\ job.path = Target(i)
    \/ job.context = "ChangeSavePath" /\ (i.finished \/ i.downloadPath = NoPath)
    \/ job.context = "ChangeDownloadPath" /\ ~i.finished

Runs(h, q) == q # <<>> /\ q[1].handle = h

Behind(h, q) == {job \in Job : job.handle = h /\ \E k \in DOMAIN q : k > 1 /\ q[k] = job}

(* A torrent in state i, whose job is the first one if runs holds, and     *)
(* whose jobs behind it are waits, is going where it belongs.              *)
Settled(i, runs, first, waits) ==
    /\ ~runs /\ waits = {} => i.location = Target(i)
    /\ runs /\ waits = {} => Fits(i, first)
    /\ \A job \in waits : Fits(IF runs THEN After(i, first) ELSE i, job)

Settles(h) == Settled(impl[h], Runs(h, queue), queue[1], Behind(h, queue))

PlaceInv ==
    phase = "running" => \A h \in Handle : InSession(h) /\ h \notin excused => Settles(h)

(* States of a torrent with the same paths, place and progress.            *)
Alike(i, j) ==
    /\ i.savePath = j.savePath /\ i.downloadPath = j.downloadPath
    /\ i.location = j.location /\ i.finished = j.finished

LEMMA AfterParts ==
    ASSUME NEW i \in Impl, NEW job \in Job
    PROVE  /\ After(i, job) \in Impl
           /\ After(i, job).savePath = IF job.context = "ChangeSavePath" THEN job.path ELSE i.savePath
           /\ After(i, job).downloadPath =
                 IF job.context = "ChangeDownloadPath" THEN job.path ELSE i.downloadPath
           /\ After(i, job).finished = i.finished
           /\ After(i, job).location = i.location
<1>1. job.path \in Path
  BY DEF Job
<1> QED BY <1>1 DEF After, Impl

LEMMA AlikeSettled ==
    ASSUME NEW i \in Impl, NEW j \in Impl, Alike(i, j),
           NEW runs \in BOOLEAN, NEW first, runs => first \in Job, NEW waits \in SUBSET Job,
           Settled(i, runs, first, waits)
    PROVE  Settled(j, runs, first, waits)
<1>1. Target(i) = Target(j) /\ i.location = j.location
  BY DEF Alike, Target
<1>2. \A job : Fits(i, job) => Fits(j, job)
  BY <1>1 DEF Fits, Alike
<1>3. runs => \A job : Fits(After(i, first), job) => Fits(After(j, first), job)
  <2> SUFFICES ASSUME runs PROVE \A job : Fits(After(i, first), job) => Fits(After(j, first), job)
    OBVIOUS
  <2>1. After(i, first).finished = After(j, first).finished
    BY AfterParts DEF Alike
  <2>2. After(i, first).savePath = After(j, first).savePath
    BY AfterParts DEF Alike
  <2>3. After(i, first).downloadPath = After(j, first).downloadPath
    BY AfterParts DEF Alike
  <2>4. Target(After(i, first)) = Target(After(j, first))
    BY <2>1, <2>2, <2>3 DEF Target
  <2> QED BY <2>1, <2>3, <2>4 DEF Fits
<1> QED BY <1>1, <1>2, <1>3 DEF Settled

(* The queue of the other torrents is the same.                            *)
LEMMA OthersKept ==
    ASSUME queue \in Seq(Job), queue' \in Seq(Job), NEW h \in Handle, NEW g \in Handle, g # h,
           \/ Requeues(h)
           \/ Leaves(h, queue')
           \/ queue' = queue
    PROVE  /\ Runs(g, queue') <=> Runs(g, queue)
           /\ Runs(g, queue) => queue'[1] = queue[1]
           /\ Behind(g, queue') = Behind(g, queue)
<1>1. CASE Requeues(h)
  <2>1. Runs(g, queue') => queue # <<>>
    <3>1. queue' # <<>> => 1 \in DOMAIN queue'
      OBVIOUS
    <3> QED BY <1>1, <3>1 DEF Requeues, Runs
  <2> QED BY <1>1, <2>1 DEF Requeues, Runs, Behind
<1>2. CASE Leaves(h, queue')
  BY <1>2 DEF Leaves, Runs, Behind
<1> QED BY <1>1, <1>2

(* What a request makes of the torrent's own part of the queue.            *)
LEMMA Requeued ==
    ASSUME QueueInv, NEW h \in Handle, NEW i, NEW path \in Path, NEW context \in Context,
           MoveStorage(h, i, path, context),
           NEW job, job = [handle |-> h, path |-> path, context |-> context]
    PROVE  /\ Runs(h, queue) => Runs(h, queue') /\ queue'[1] = queue[1]
           /\ Refused(h, i, path) =>
                 (Runs(h, queue') <=> Runs(h, queue)) /\ Behind(h, queue') = {}
           /\ ~Refused(h, i, path) =>
                 \/ Runs(h, queue) /\ Behind(h, queue') = {job}
                 \/ ~Runs(h, queue) /\ Runs(h, queue') /\ queue'[1] = job /\ Behind(h, queue') = {}
                 \/ ~Runs(h, queue) /\ ~Runs(h, queue') /\ Behind(h, queue') = {job}
<1> DEFINE left == QueueWithoutWaiting(h)
<1>1. Leaves(h, left)
  BY WithoutWaiting
<1>2. queue \in Seq(Job)
  BY DEF QueueInv, MovesType
<1>3. queue' = IF Refused(h, i, path) THEN left ELSE Append(left, job)
  BY DEF MoveStorage
<1>4. job \in Job /\ job.handle = h
  BY JobParts DEF Job
<1> HIDE DEF left
<1>5. left \in Seq(Job) /\ (Runs(h, left) <=> Runs(h, queue)) /\ (queue # <<>> => left[1] = queue[1])
      /\ (left = <<>> <=> queue = <<>>)
  BY <1>1 DEF Leaves, Runs
<1>6. \A k \in DOMAIN left : left[k].handle = h => k = 1
  BY <1>1 DEF Leaves
<1>7. CASE Refused(h, i, path)
  <2>1. queue' = left
    BY <1>3, <1>7
  <2>2. Behind(h, left) = {}
    BY <1>5, <1>6 DEF Behind
  <2> QED BY <1>5, <1>7, <2>1, <2>2 DEF Runs
<1>8. CASE ~Refused(h, i, path)
  <2>1. /\ queue' \in Seq(Job) /\ Len(queue') = Len(left) + 1 /\ queue' # <<>>
        /\ \A k \in 1..Len(left) : queue'[k] = left[k]
        /\ queue'[Len(left) + 1] = job
    BY <1>3, <1>4, <1>5, <1>8
  <2>2. CASE left = <<>>
    <3>1. queue' # <<>> /\ queue'[1] = job /\ ~Runs(h, queue)
      BY <1>5, <2>1, <2>2 DEF Runs
    <3>2. Behind(h, queue') = {}
      BY <2>1, <2>2 DEF Behind
    <3> QED BY <1>4, <1>8, <3>1, <3>2 DEF Runs
  <2>3. CASE left # <<>>
    <3>1. Len(left) \in Nat /\ Len(left) > 0
      BY <1>5, <2>3
    <3>2. queue'[1] = left[1] /\ left[1] = queue[1]
      BY <1>5, <2>1, <2>3, <3>1
    <3>3. ASSUME NEW w \in Behind(h, queue') PROVE w = job
      <4>1. PICK k \in DOMAIN queue' : k > 1 /\ queue'[k] = w /\ w.handle = h
        BY DEF Behind
      <4>2. k \in 1..(Len(left) + 1)
        BY <2>1, <4>1
      <4>3. CASE k = Len(left) + 1
        BY <2>1, <4>1, <4>3
      <4>4. CASE k \in 1..Len(left)
        BY <1>5, <1>6, <2>1, <4>1, <4>4
      <4> QED BY <3>1, <4>2, <4>3, <4>4
    <3>4. job \in Behind(h, queue')
      <4>1. Len(left) + 1 \in DOMAIN queue' /\ Len(left) + 1 > 1
        BY <2>1, <3>1
      <4> QED BY <1>4, <2>1, <4>1 DEF Behind
    <3>5. Behind(h, queue') = {job}
      BY <3>3, <3>4
    <3>6. Runs(h, queue') <=> Runs(h, queue)
      BY <1>5, <2>1, <2>3, <3>2 DEF Runs
    <3> QED BY <1>8, <3>2, <3>5, <3>6
  <2> QED BY <2>2, <2>3
<1> QED BY <1>7, <1>8

(* What becomes of the state: its waiting job is cancelled.                *)
LEMMA MovedIs ==
    ASSUME QueueInv, NEW h \in Handle, NEW i \in Impl, NEW path \in Path
    PROVE  \/ Behind(h, queue) = {} /\ Alike(Moved(h, i, path), i)
           \/ \E w \in Behind(h, queue) :
                 /\ w.context \in Context
                 /\ \E k \in Waiting(h) : queue[k] = w
                 /\ Moved(h, i, path).finished = i.finished
                 /\ Moved(h, i, path).location = i.location
                 /\ Moved(h, i, path).savePath =
                       IF w.context = "ChangeSavePath" THEN i.location ELSE i.savePath
                 /\ Moved(h, i, path).downloadPath =
                       IF w.context = "ChangeDownloadPath" THEN i.location ELSE i.downloadPath
<1> DEFINE c == Cancelled(h, i)
<1>1. queue \in Seq(Job)
  BY DEF QueueInv, MovesType
<1>2. c \in Impl
  BY CancelledIs
<1>3. Moved(h, i, path) = [c EXCEPT !.isMoving = c.isMoving \/ ~Refused(h, i, path)]
  BY DEF Moved
<1>4. Alike(Moved(h, i, path), c)
  <2> HIDE DEF c
  <2> QED BY <1>2, <1>3 DEF Alike, Impl
<1>5. CASE Waiting(h) = {}
  <2>1. Behind(h, queue) = {}
    BY <1>1, <1>5 DEF Behind, Waiting
  <2> QED BY <1>4, <1>5, <2>1 DEF Cancelled
<1>6. CASE Waiting(h) # {}
  <2>1. PICK k \in Waiting(h) : c = JobFinished(i, i.location, queue[k].context, IsActive(h))
    BY <1>6 DEF Cancelled
  <2>2. queue[k] \in Behind(h, queue) /\ queue[k].context \in Context
    <3>1. k \in DOMAIN queue /\ k > 1 /\ queue[k].handle = h
      BY <1>1 DEF Waiting
    <3>2. queue[k] \in Job
      BY <1>1, <3>1
    <3> QED BY <3>1, <3>2 DEF Behind, Job
  <2>3. i.location \in Path /\ IsActive(h) \in BOOLEAN
    BY DEF Impl, IsActive
  <2>4. /\ c.finished = i.finished /\ c.location = i.location
        /\ c.savePath = IF queue[k].context = "ChangeSavePath" THEN i.location ELSE i.savePath
        /\ c.downloadPath = IF queue[k].context = "ChangeDownloadPath" THEN i.location ELSE i.downloadPath
    BY <2>1, <2>3 DEF JobFinished, Impl
  <2> HIDE DEF c
  <2> QED BY <1>4, <2>2, <2>4 DEF Alike
<1> QED BY <1>5, <1>6

(* A request for a torrent whose state was o, and is i so far.             *)
Asks(o, i, path, context) ==
    \/ context = "AdjustCurrentLocation" /\ path = Target(i)
    \/ context = "ChangeSavePath" /\ i = o /\ (i.finished \/ i.downloadPath = NoPath)
    \/ context = "ChangeDownloadPath" /\ i = o /\ ~i.finished

(* No path that was asked for before is passed over.                       *)
LEMMA NotOvertaking ==
    ASSUME QueueInv, NEW h \in Handle, NEW context \in Context, ~Overtakes(h, context)
    PROVE  /\ Runs(h, queue) <=> IsActive(h)
           /\ Runs(h, queue) => queue[1] \in Job /\ Head(queue) = queue[1]
           /\ \A w \in Behind(h, queue) :
                 w.context = context /\ (Runs(h, queue) => w.context = "AdjustCurrentLocation")
           /\ Runs(h, queue) /\ queue[1].context # "AdjustCurrentLocation" =>
                 context # "AdjustCurrentLocation"
           /\ Runs(h, queue) /\ queue[1].context = "ChangeDownloadPath" => context # "ChangeSavePath"
<1>1. queue \in Seq(Job)
  BY DEF QueueInv, MovesType
<1>2. queue # <<>> => queue[1] \in Job /\ Head(queue) = queue[1]
  BY <1>1
<1>3. Runs(h, queue) <=> IsActive(h)
  BY <1>2 DEF Runs, IsActive
<1>4. \A w \in Behind(h, queue) : \E k \in Waiting(h) : queue[k] = w
  BY <1>1 DEF Behind, Waiting
<1>5. Runs(h, queue) => queue # <<>>
  BY DEF Runs
<1> QED BY <1>2, <1>3, <1>4, <1>5 DEF Overtakes

LEMMA PathsFit ==
    ASSUME QueueInv, NEW h \in Handle, NEW o \in Impl, NEW i \in Impl, NEW path \in Path,
           NEW context \in Context, ~Overtakes(h, context), Asks(o, i, path, context),
           Settled(o, Runs(h, queue), queue[1], Behind(h, queue)),
           NEW j \in Impl, j = Moved(h, i, path),
           NEW job \in Job, job.path = path, job.context = context
    PROVE  /\ ~Runs(h, queue) /\ path = i.location => j.location = Target(j)
           /\ Runs(h, queue) /\ path = queue[1].path => Fits(j, queue[1])
           /\ Fits(IF Runs(h, queue) THEN After(j, queue[1]) ELSE j, job)
<1> DEFINE runs == Runs(h, queue)
           first == queue[1]
           waits == Behind(h, queue)
<1>1. /\ runs => first \in Job
      /\ \A w \in waits : w.context = context /\ (runs => w.context = "AdjustCurrentLocation")
      /\ runs /\ first.context # "AdjustCurrentLocation" => context # "AdjustCurrentLocation"
      /\ runs /\ first.context = "ChangeDownloadPath" => context # "ChangeSavePath"
  BY NotOvertaking
<1>2. runs =>
      /\ After(j, first).savePath = IF first.context = "ChangeSavePath" THEN first.path ELSE j.savePath
      /\ After(j, first).downloadPath =
            IF first.context = "ChangeDownloadPath" THEN first.path ELSE j.downloadPath
      /\ After(j, first).finished = j.finished
  BY <1>1, AfterParts
<1>3. i.location \in Path /\ i.location # NoPath
  BY MovesAssumption DEF Impl
<1>4. CASE context = "AdjustCurrentLocation"
  <2>1. path = Target(i)
    BY <1>4 DEF Asks
  <2>2. Alike(j, i)
    BY <1>1, <1>4, MovedIs DEF Alike
  <2>3. Target(j) = Target(i) /\ j.location = i.location
    BY <2>2 DEF Alike, Target
  <2>4. runs => first.context = "AdjustCurrentLocation"
    BY <1>1, <1>4
  <2>5. runs => Target(After(j, first)) = Target(j)
    BY <1>2, <2>4 DEF Target
  <2> QED BY <1>4, <2>1, <2>3, <2>4, <2>5 DEF Fits
<1>5. CASE context = "ChangeSavePath"
  <2>1. i = o /\ (i.finished \/ i.downloadPath = NoPath)
    BY <1>5 DEF Asks
  <2>2. CASE waits = {}
    <3>1. Alike(j, i)
      BY <2>2, MovedIs
    <3>2. Target(j) = Target(i) /\ (\A w : Fits(i, w) <=> Fits(j, w))
      BY <3>1 DEF Alike, Target, Fits
    <3>3. ~runs => j.location = Target(j)
      BY <2>1, <2>2, <3>1, <3>2 DEF Settled, Alike
    <3>4. runs => Fits(j, first)
      BY <2>1, <2>2, <3>2 DEF Settled
    <3>5. runs => first.context # "ChangeDownloadPath"
      BY <1>1, <1>5
    <3> QED BY <1>2, <1>5, <2>1, <3>1, <3>3, <3>4, <3>5 DEF Alike, Fits
  <2>3. CASE waits # {}
    <3>1. ~runs /\ \A w \in waits : w.context = "ChangeSavePath"
      BY <1>1, <1>5, <2>3
    <3>2. /\ j.finished = i.finished /\ j.location = i.location
          /\ j.savePath = i.location /\ j.downloadPath = i.downloadPath
      BY <2>3, <3>1, MovedIs
    <3>3. j.location = Target(j)
      BY <2>1, <3>2 DEF Target
    <3> QED BY <1>5, <2>1, <3>1, <3>2, <3>3 DEF Fits
  <2> QED BY <2>2, <2>3
<1>6. CASE context = "ChangeDownloadPath"
  <2>1. i = o /\ ~i.finished
    BY <1>6 DEF Asks
  <2>2. CASE waits = {}
    <3>1. Alike(j, i)
      BY <2>2, MovedIs
    <3>2. Target(j) = Target(i) /\ (\A w : Fits(i, w) <=> Fits(j, w))
      BY <3>1 DEF Alike, Target, Fits
    <3>3. ~runs => j.location = Target(j)
      BY <2>1, <2>2, <3>1, <3>2 DEF Settled, Alike
    <3>4. runs => Fits(j, first)
      BY <2>1, <2>2, <3>2 DEF Settled
    <3> QED BY <1>2, <1>6, <2>1, <3>1, <3>3, <3>4 DEF Alike, Fits
  <2>3. CASE waits # {}
    <3>1. ~runs /\ \A w \in waits : w.context = "ChangeDownloadPath"
      BY <1>1, <1>6, <2>3
    <3>2. /\ j.finished = i.finished /\ j.location = i.location
          /\ j.savePath = i.savePath /\ j.downloadPath = i.location
      BY <2>3, <3>1, MovedIs
    <3>3. j.location = Target(j)
      BY <1>3, <2>1, <3>2 DEF Target
    <3> QED BY <1>6, <2>1, <3>1, <3>2, <3>3 DEF Fits
  <2> QED BY <2>2, <2>3
<1> QED BY <1>4, <1>5, <1>6 DEF Context

LEMMA RequestSettles ==
    ASSUME QueueInv, NEW h \in Handle, NEW o \in Impl, NEW i \in Impl, NEW path \in Path,
           NEW context \in Context, MoveStorage(h, i, path, context),
           ~Overtakes(h, context), Asks(o, i, path, context),
           Settled(o, Runs(h, queue), queue[1], Behind(h, queue))
    PROVE  Settled(Moved(h, i, path), Runs(h, queue'), queue'[1], Behind(h, queue'))
<1> DEFINE j == Moved(h, i, path)
           job == [handle |-> h, path |-> path, context |-> context]
<1>1. j \in Impl
  BY MovedParts
<1>2. job \in Job /\ job.path = path /\ job.context = context
  BY JobParts DEF Job
<1>3. Refused(h, i, path) <=> path = IF Runs(h, queue) THEN queue[1].path ELSE i.location
  BY NotOvertaking DEF Refused
<1>4. /\ ~Runs(h, queue) /\ path = i.location => j.location = Target(j)
      /\ Runs(h, queue) /\ path = queue[1].path => Fits(j, queue[1])
      /\ Fits(IF Runs(h, queue) THEN After(j, queue[1]) ELSE j, job)
  BY <1>1, <1>2, PathsFit
<1>5. /\ Runs(h, queue) => Runs(h, queue') /\ queue'[1] = queue[1]
      /\ Refused(h, i, path) => (Runs(h, queue') <=> Runs(h, queue)) /\ Behind(h, queue') = {}
      /\ ~Refused(h, i, path) =>
            \/ Runs(h, queue) /\ Behind(h, queue') = {job}
            \/ ~Runs(h, queue) /\ Runs(h, queue') /\ queue'[1] = job /\ Behind(h, queue') = {}
            \/ ~Runs(h, queue) /\ ~Runs(h, queue') /\ Behind(h, queue') = {job}
  BY Requeued
<1> HIDE DEF j, job
<1>6. Settled(j, Runs(h, queue'), queue'[1], Behind(h, queue'))
  <2>1. CASE Refused(h, i, path)
    BY <1>3, <1>4, <1>5, <2>1 DEF Settled
  <2>2. CASE Runs(h, queue) /\ Behind(h, queue') = {job}
    BY <1>4, <1>5, <2>2 DEF Settled
  <2>3. CASE ~Runs(h, queue) /\ Runs(h, queue') /\ queue'[1] = job /\ Behind(h, queue') = {}
    BY <1>4, <2>3 DEF Settled
  <2>4. CASE ~Runs(h, queue) /\ ~Runs(h, queue') /\ Behind(h, queue') = {job}
    BY <1>4, <2>4 DEF Settled
  <2> QED BY <1>5, <2>1, <2>2, <2>3, <2>4
<1> QED BY <1>6 DEF j

(* A request that goes to no job.                                          *)
LEMMA SavePathNoted ==
    ASSUME NEW i \in Impl, NEW path \in Path, ~i.finished, i.downloadPath # NoPath,
           NEW runs \in BOOLEAN, NEW first, runs => first \in Job, NEW waits \in SUBSET Job,
           Settled(i, runs, first, waits)
    PROVE  Settled([i EXCEPT !.savePath = path], runs, first, waits)
<1> DEFINE j == [i EXCEPT !.savePath = path]
<1>1. /\ j \in Impl /\ j.downloadPath = i.downloadPath /\ j.finished = i.finished
      /\ j.location = i.location
  BY DEF Impl
<1> HIDE DEF j
<1>2. Target(j) = Target(i)
  BY <1>1 DEF Target
<1>3. \A job : Fits(i, job) => Fits(j, job)
  BY <1>1, <1>2 DEF Fits
<1>4. ASSUME runs, NEW job \in waits, Fits(After(i, first), job) PROVE Fits(After(j, first), job)
  <2>1. /\ After(j, first).finished = After(i, first).finished
        /\ After(j, first).downloadPath = After(i, first).downloadPath
    BY <1>1, <1>4, AfterParts
  <2>2. ~After(j, first).finished /\ After(j, first).downloadPath # NoPath
    <3>1. first.path \in Path
      BY <1>4 DEF Job
    <3> QED BY <1>1, <1>4, <3>1, AfterParts, MovesAssumption
  <2>3. Target(After(j, first)) = Target(After(i, first))
    BY <2>1, <2>2 DEF Target
  <2> QED BY <1>4, <2>1, <2>3 DEF Fits
<1>5. Settled(j, runs, first, waits)
  BY <1>1, <1>2, <1>3, <1>4 DEF Settled
<1> QED BY <1>5 DEF j

LEMMA DownloadPathNoted ==
    ASSUME NEW i \in Impl, NEW path \in Path \union {NoPath}, i.finished,
           NEW runs \in BOOLEAN, NEW first, runs => first \in Job, NEW waits \in SUBSET Job,
           Settled(i, runs, first, waits)
    PROVE  Settled([i EXCEPT !.downloadPath = path], runs, first, waits)
<1> DEFINE j == [i EXCEPT !.downloadPath = path]
<1>1. /\ j \in Impl /\ j.savePath = i.savePath /\ j.finished = i.finished
      /\ j.location = i.location
  BY DEF Impl
<1> HIDE DEF j
<1>2. Target(j) = Target(i)
  BY <1>1 DEF Target
<1>3. \A job : Fits(i, job) => Fits(j, job)
  BY <1>1, <1>2 DEF Fits
<1>4. ASSUME runs, NEW job \in waits, Fits(After(i, first), job) PROVE Fits(After(j, first), job)
  <2>1. /\ After(j, first).finished = After(i, first).finished
        /\ After(j, first).savePath = After(i, first).savePath
        /\ After(j, first).finished
    <3>1. first \in Job
      BY <1>4
    <3>2. After(j, first).finished = j.finished /\ After(i, first).finished = i.finished
      BY <1>1, <3>1, AfterParts
    <3>3. After(j, first).savePath = After(i, first).savePath
      BY <1>1, <3>1, AfterParts
    <3> QED BY <1>1, <3>2, <3>3
  <2>2. Target(After(j, first)) = Target(After(i, first))
    BY <2>1 DEF Target
  <2> QED BY <1>4, <2>1, <2>2 DEF Fits
<1>5. Settled(j, runs, first, waits)
  BY <1>1, <1>2, <1>3, <1>4 DEF Settled
<1> QED BY <1>5 DEF j

(* A step that is about the torrent of h, and leaves the others alone.     *)
LEMMA OthersSettled ==
    ASSUME QueueInv, QueueInv', PlaceInv, NEW h \in Handle,
           Requeues(h) \/ Leaves(h, queue') \/ queue' = queue,
           phase' = "running" => phase = "running",
           excused \subseteq excused',
           \A g \in Handle : g # h => impl'[g] = impl[g] /\ (InSession(g)' => InSession(g)),
           phase' = "running" /\ InSession(h)' /\ h \notin excused' => Settles(h)'
    PROVE  PlaceInv'
<1> SUFFICES ASSUME phase' = "running", NEW g \in Handle, InSession(g)', g \notin excused'
             PROVE  Settles(g)'
  BY DEF PlaceInv
<1>1. CASE g = h
  BY <1>1
<1>2. CASE g # h
  <2>1. impl'[g] = impl[g] /\ Settles(g)
    BY <1>2 DEF PlaceInv
  <2>2. queue \in Seq(Job) /\ queue' \in Seq(Job)
    BY DEF QueueInv, MovesType
  <2>3. /\ Runs(g, queue') <=> Runs(g, queue)
        /\ Runs(g, queue) => queue'[1] = queue[1]
        /\ Behind(g, queue') = Behind(g, queue)
    BY <1>2, <2>2, OthersKept
  <2> QED BY <2>1, <2>3 DEF Settles, Settled
<1> QED BY <1>1, <1>2

LEMMA RunsParts ==
    ASSUME QueueInv, NEW h \in Handle
    PROVE  /\ Runs(h, queue) \in BOOLEAN
           /\ Runs(h, queue) => queue[1] \in Job
           /\ Behind(h, queue) \in SUBSET Job
           /\ ~HasJob(h, queue) <=> ~Runs(h, queue) /\ Behind(h, queue) = {}
<1>1. queue \in Seq(Job)
  BY DEF QueueInv, MovesType
<1>2. \A k \in DOMAIN queue : queue[k] \in Job
  BY <1>1
<1>3. queue # <<>> <=> 1 \in DOMAIN queue
  BY <1>1
<1>4. \A k \in DOMAIN queue : k = 1 \/ k > 1
  BY <1>1
<1>5. Behind(h, queue) = {} <=> \A k \in DOMAIN queue : k > 1 => queue[k].handle # h
  BY <1>2 DEF Behind
<1>6. HasJob(h, queue) <=> \E k \in DOMAIN queue : queue[k].handle = h
  BY RunningJob
<1> QED BY <1>2, <1>3, <1>4, <1>5, <1>6 DEF Runs, Behind

(* A handler that asks for a move of the storage.                          *)
LEMMA AskedSettles ==
    ASSUME QueueInv, QueueInv', PlaceInv, SessionInv, NEW h \in Handle, InSession(h),
           NEW i \in Impl, NEW path \in Path, NEW context \in Context,
           MoveStorage(h, i, path, context), Asks(impl[h], i, path, context),
           NEW j \in Impl, Alike(Moved(h, i, path), j), Becomes(h, j)
    PROVE  PlaceInv'
<1>1. /\ UNCHANGED <<torrents, phase>>
      /\ impl' = [impl EXCEPT ![h] = j]
      /\ excused' = IF Overtakes(h, context) THEN excused \union {h} ELSE excused
  BY DEF Becomes, MoveStorage
<1>2. \A g \in Handle : g # h => impl'[g] = impl[g] /\ (InSession(g)' => InSession(g))
  BY <1>1 DEF QueueInv, MovesType, InSession
<1>3. impl'[h] = j
  BY <1>1 DEF QueueInv, MovesType
<1>4. Requeues(h)
  BY StorageMoving
<1>5. ASSUME phase' = "running", InSession(h)', h \notin excused' PROVE Settles(h)'
  <2>1. h \notin excused /\ ~Overtakes(h, context)
    BY <1>1, <1>5
  <2>2. Settled(impl[h], Runs(h, queue), queue[1], Behind(h, queue)) /\ impl[h] \in Impl
    BY <1>1, <1>5, <2>1 DEF PlaceInv, Settles, SessionInv
  <2>3. Settled(Moved(h, i, path), Runs(h, queue'), queue'[1], Behind(h, queue'))
    BY <2>1, <2>2, RequestSettles
  <2>4. Moved(h, i, path) \in Impl
    BY MovedParts
  <2>5. /\ Runs(h, queue') \in BOOLEAN
        /\ Runs(h, queue') => queue'[1] \in Job
        /\ Behind(h, queue') \in SUBSET Job
    <3>1. queue' \in Seq(Job)
      BY DEF QueueInv, MovesType
    <3>2. queue' # <<>> => queue'[1] \in Job
      BY <3>1
    <3> QED BY <3>2 DEF Runs, Behind
  <2>6. Settled(j, Runs(h, queue'), queue'[1], Behind(h, queue'))
    BY <2>3, <2>4, <2>5, AlikeSettled
  <2> QED BY <1>3, <2>6 DEF Settles
<1> QED BY <1>1, <1>2, <1>4, <1>5, OthersSettled

(* A handler that asks for none.                                           *)
LEMMA NotedSettles ==
    ASSUME QueueInv, QueueInv', PlaceInv, NEW h \in Handle, InSession(h), NoMove,
           NEW j \in Impl, Becomes(h, j),
           Settles(h) => Settled(j, Runs(h, queue), queue[1], Behind(h, queue))
    PROVE  PlaceInv'
<1>1. UNCHANGED <<torrents, phase, queue, excused>> /\ impl' = [impl EXCEPT ![h] = j]
  BY DEF Becomes, NoMove
<1>2. \A g \in Handle : g # h => impl'[g] = impl[g] /\ (InSession(g)' => InSession(g))
  BY <1>1 DEF QueueInv, MovesType, InSession
<1>3. impl'[h] = j
  BY <1>1 DEF QueueInv, MovesType
<1>4. ASSUME phase' = "running", InSession(h)', h \notin excused' PROVE Settles(h)'
  BY <1>1, <1>3, <1>4 DEF PlaceInv, Settles
<1> QED BY <1>1, <1>2, <1>4, OthersSettled

LEMMA SavePathSettles ==
    ASSUME QueueInv, QueueInv', PlaceInv, SessionInv, NEW h \in Handle, NEW path \in Path,
           SetSavePath(h, path)
    PROVE  PlaceInv'
<1>1. InSession(h) /\ impl[h] \in Impl
  BY DEF SetSavePath, SessionInv
<1>2. CASE impl[h].finished \/ impl[h].downloadPath = NoPath
  <2>1. MoveStorage(h, impl[h], path, "ChangeSavePath") /\ Becomes(h, Moved(h, impl[h], path))
    BY <1>2 DEF SetSavePath
  <2>2. Moved(h, impl[h], path) \in Impl
    BY <1>1, MovedParts
  <2>3. Asks(impl[h], impl[h], path, "ChangeSavePath")
    BY <1>2 DEF Asks
  <2>4. Alike(Moved(h, impl[h], path), Moved(h, impl[h], path))
    BY DEF Alike
  <2> QED BY <1>1, <2>1, <2>2, <2>3, <2>4, ContextParts, AskedSettles
<1>3. CASE ~impl[h].finished /\ impl[h].downloadPath # NoPath
  <2>1. NoMove /\ Becomes(h, [impl[h] EXCEPT !.savePath = path])
    BY <1>3 DEF SetSavePath
  <2>2. [impl[h] EXCEPT !.savePath = path] \in Impl
    BY <1>1 DEF Impl
  <2>3. Settles(h) => Settled([impl[h] EXCEPT !.savePath = path], Runs(h, queue), queue[1], Behind(h, queue))
    BY <1>1, <1>3, RunsParts, SavePathNoted DEF Settles
  <2> QED BY <1>1, <2>1, <2>2, <2>3, NotedSettles
<1> QED BY <1>2, <1>3

LEMMA DownloadPathSettles ==
    ASSUME QueueInv, QueueInv', PlaceInv, SessionInv, NEW h \in Handle,
           NEW path \in Path \union {NoPath}, SetDownloadPath(h, path)
    PROVE  PlaceInv'
<1> DEFINE place == IF path = NoPath THEN impl[h].savePath ELSE path
<1>1. InSession(h) /\ impl[h] \in Impl
  BY DEF SetDownloadPath, SessionInv
<1>2. CASE ~impl[h].finished
  <2>1. MoveStorage(h, impl[h], place, "ChangeDownloadPath") /\ Becomes(h, Moved(h, impl[h], place))
    BY <1>2 DEF SetDownloadPath
  <2>2. place \in Path
    BY <1>1 DEF Impl
  <2> HIDE DEF place
  <2>3. Moved(h, impl[h], place) \in Impl
    BY <1>1, <2>2, MovedParts
  <2>4. Asks(impl[h], impl[h], place, "ChangeDownloadPath")
    BY <1>2 DEF Asks
  <2>5. Alike(Moved(h, impl[h], place), Moved(h, impl[h], place))
    BY DEF Alike
  <2> QED BY <1>1, <2>1, <2>2, <2>3, <2>4, <2>5, ContextParts, AskedSettles
<1>3. CASE impl[h].finished
  <2>1. NoMove /\ Becomes(h, [impl[h] EXCEPT !.downloadPath = path])
    BY <1>3 DEF SetDownloadPath
  <2>2. [impl[h] EXCEPT !.downloadPath = path] \in Impl
    BY <1>1 DEF Impl
  <2>3. Settles(h) =>
            Settled([impl[h] EXCEPT !.downloadPath = path], Runs(h, queue), queue[1], Behind(h, queue))
    BY <1>1, <1>3, RunsParts, DownloadPathNoted DEF Settles
  <2> QED BY <1>1, <2>1, <2>2, <2>3, NotedSettles
<1>4. impl[h].finished \in BOOLEAN
  BY <1>1 DEF Impl
<1> QED BY <1>2, <1>3, <1>4

(* The progress changes, and the storage is adjusted.                      *)
LEMMA AdjustedSettles ==
    ASSUME QueueInv, QueueInv', PlaceInv, SessionInv, MovingInv, phase = "running",
           NEW h \in Handle, InSession(h),
           NEW i \in Impl, i.isMoving = impl[h].isMoving,
           AdjustStorageLocation(h, i), NEW j \in Impl, Alike(Adjusted(h, i), j), Becomes(h, j)
    PROVE  PlaceInv'
<1>1. CASE NeedsAdjusting(i)
  <2>1. /\ MoveStorage(h, i, Target(i), "AdjustCurrentLocation")
        /\ Alike(Moved(h, i, Target(i)), j)
    BY <1>1 DEF AdjustStorageLocation, Adjusted
  <2>2. Asks(impl[h], i, Target(i), "AdjustCurrentLocation")
    BY DEF Asks
  <2> QED BY <2>1, <2>2, TargetParts, ContextParts, AskedSettles
<1>2. CASE ~NeedsAdjusting(i)
  <2>1. NoMove /\ Alike(i, j)
    BY <1>2 DEF AdjustStorageLocation, Adjusted
  <2>2. Target(i) = i.location /\ ~impl[h].isMoving
    BY <1>2 DEF NeedsAdjusting
  <2>3. ~HasJob(h, queue)
    BY <2>2 DEF MovingInv, MovingMeansJob
  <2>4. Settled(i, Runs(h, queue), queue[1], Behind(h, queue))
    BY <2>2, <2>3, RunsParts DEF Settled
  <2>5. Settled(j, Runs(h, queue), queue[1], Behind(h, queue))
    BY <2>1, <2>4, RunsParts, AlikeSettled
  <2> QED BY <2>1, <2>5, NotedSettles
<1> QED BY <1>1, <1>2

LEMMA NotRunning == phase' # "running" => PlaceInv'
BY DEF PlaceInv

LEMMA FinishedSettles ==
    ASSUME QueueInv, QueueInv', PlaceInv, SessionInv, MovingInv, NEW h \in Handle, TorrentFinished(h)
    PROVE  PlaceInv'
<1> DEFINE i == [impl[h] EXCEPT !.finished = TRUE]
           after == Adjusted(h, i)
           j == [after EXCEPT !.triggers = after.isMoving]
<1>1. InSession(h) /\ impl[h] \in Impl
  BY DEF TorrentFinished, SessionInv
<1>2. i \in Impl /\ i.isMoving = impl[h].isMoving
  BY <1>1 DEF Impl
<1>3. AdjustStorageLocation(h, i) /\ Becomes(h, j)
  BY DEF TorrentFinished
<1> HIDE DEF i
<1>4. after \in Impl
  BY <1>2, AdjustedParts
<1> HIDE DEF after
<1>5. j \in Impl /\ Alike(after, j)
  BY <1>4 DEF Impl, Alike
<1> HIDE DEF j
<1>6. phase = "running" => PlaceInv'
  BY <1>1, <1>2, <1>3, <1>5, AdjustedSettles DEF after
<1>7. phase' = phase
  BY <1>3 DEF Becomes
<1> QED BY <1>6, <1>7, NotRunning

LEMMA CheckedSettles ==
    ASSUME QueueInv, QueueInv', PlaceInv, SessionInv, MovingInv, NEW h \in Handle,
           NEW complete \in BOOLEAN, TorrentChecked(h, complete)
    PROVE  PlaceInv'
<1> DEFINE i == [impl[h] EXCEPT !.finished = complete]
<1>1. InSession(h) /\ impl[h] \in Impl
  BY DEF TorrentChecked, SessionInv
<1>2. i \in Impl /\ i.isMoving = impl[h].isMoving
  BY <1>1 DEF Impl
<1>3. AdjustStorageLocation(h, i) /\ Becomes(h, Adjusted(h, i))
  BY DEF TorrentChecked
<1> HIDE DEF i
<1>4. Adjusted(h, i) \in Impl /\ Alike(Adjusted(h, i), Adjusted(h, i))
  BY <1>2, AdjustedParts DEF Alike
<1>5. phase = "running" => PlaceInv'
  BY <1>1, <1>2, <1>3, <1>4, AdjustedSettles
<1>6. phase' = phase
  BY <1>3 DEF Becomes
<1> QED BY <1>5, <1>6, NotRunning

LEMMA AddedSettles ==
    ASSUME QueueInv, QueueInv', NativeInv, PlaceInv, NEW h \in Handle, NEW i \in Impl, AddTorrent(h, i)
    PROVE  PlaceInv'
<1>1. /\ native[h] = "unknown" /\ torrents[HashOf[h]] = None /\ i.location = Target(i)
      /\ torrents' = [torrents EXCEPT ![HashOf[h]] = h]
      /\ impl' = [impl EXCEPT ![h] = i]
      /\ UNCHANGED <<queue, phase, excused>>
  BY DEF AddTorrent, historyVars
<1>2. \A g \in Handle : g # h => impl'[g] = impl[g] /\ (InSession(g)' => InSession(g))
  BY <1>1, MovesAssumption DEF QueueInv, MovesType, InSession
<1>3. impl'[h] = i
  BY <1>1 DEF QueueInv, MovesType
<1>4. ~HasJob(h, queue)
  <2>1. \A k \in DOMAIN queue : queue[k].handle # h
    BY <1>1 DEF NativeInv, JobsAreNative
  <2> QED BY <2>1 DEF HasJob, Jobs
<1>5. Settles(h)'
  BY <1>1, <1>3, <1>4, RunsParts DEF Settles, Settled
<1> QED BY <1>1, <1>2, <1>5, OthersSettled

LEMMA DeletedSettles ==
    ASSUME QueueInv, QueueInv', PlaceInv, NEW h \in Handle, NEW option \in {"torrent", "files"},
           DeleteTorrent(h, option)
    PROVE  PlaceInv'
<1>1. /\ torrents' = [torrents EXCEPT ![HashOf[h]] = None]
      /\ impl' = [impl EXCEPT ![h] = None]
      /\ UNCHANGED <<phase, excused>>
      /\ queue' = queue \/ queue' = QueueWithoutWaiting(h)
  BY DEF DeleteTorrent, historyVars
<1>2. HashOf[h] \in Torrent
  BY MovesAssumption
<1>3. ~InSession(h)'
  BY <1>1, <1>2, MovesAssumption DEF QueueInv, MovesType, InSession
<1>4. \A g \in Handle : g # h => impl'[g] = impl[g] /\ (InSession(g)' => InSession(g))
  <2>1. \A g \in Handle : HashOf[g] \in Torrent /\ g # None
    BY MovesAssumption
  <2> QED BY <1>1, <1>2, <2>1 DEF QueueInv, MovesType, InSession
<1>5. Leaves(h, queue') \/ queue' = queue
  BY <1>1, WithoutWaiting
<1> QED BY <1>1, <1>3, <1>4, <1>5, OthersSettled

(* The first job leaves the queue: the next job may be of another torrent. *)
LEMMA FirstGone ==
    ASSUME QueueInv, queue # <<>>, queue' = Tail(queue), NEW g \in Handle
    PROVE  \/ ~Runs(g, queue') /\ Behind(g, queue') = Behind(g, queue)
           \/ Runs(g, queue') /\ Behind(g, queue') = {} /\ Behind(g, queue) = {queue'[1]}
<1>1. queue \in Seq(Job)
  BY DEF QueueInv, MovesType
<1>2. /\ queue' \in Seq(Job) /\ Len(queue') = Len(queue) - 1
      /\ \A k \in DOMAIN queue' : k + 1 \in DOMAIN queue /\ queue'[k] = queue[k + 1] /\ k + 1 > 1
  BY <1>1
<1>3. \A k \in DOMAIN queue : k # 1 => k - 1 \in DOMAIN queue' /\ queue'[k - 1] = queue[k]
  BY <1>1, <1>2
<1>4. \A k \in DOMAIN queue : k > 1 <=> k # 1
  BY <1>1
<1>5. \A job : (\E k \in DOMAIN queue : k > 1 /\ queue[k] = job) <=> (\E k \in DOMAIN queue' : queue'[k] = job)
  <2> TAKE job
  <2>1. ASSUME NEW k \in DOMAIN queue, k > 1, queue[k] = job PROVE \E l \in DOMAIN queue' : queue'[l] = job
    BY <1>3, <1>4, <2>1
  <2>2. ASSUME NEW l \in DOMAIN queue', queue'[l] = job PROVE \E k \in DOMAIN queue : k > 1 /\ queue[k] = job
    BY <1>2, <2>2
  <2> QED BY <2>1, <2>2
<1>6. Behind(g, queue) = {job \in Job : job.handle = g /\ \E k \in DOMAIN queue' : queue'[k] = job}
  BY <1>5 DEF Behind
<1>7. \A k \in DOMAIN queue' : queue'[k] \in Job /\ (k = 1 \/ k > 1)
  BY <1>2
<1>8. queue' # <<>> <=> 1 \in DOMAIN queue'
  BY <1>2
<1>9. CASE Runs(g, queue')
  <2>1. 1 \in DOMAIN queue' /\ queue'[1].handle = g
    BY <1>8, <1>9 DEF Runs
  <2>2. \A k \in DOMAIN queue' : queue'[k].handle = g => k = 1
    <3> SUFFICES ASSUME NEW k \in DOMAIN queue', queue'[k].handle = g, k # 1 PROVE FALSE
      OBVIOUS
    <3>1. /\ k + 1 \in DOMAIN queue /\ 2 \in DOMAIN queue /\ 2 < k + 1
          /\ queue[k + 1].handle = queue[2].handle
      <4>1. 1 + 1 \in DOMAIN queue /\ queue'[1] = queue[1 + 1] /\ k + 1 \in DOMAIN queue /\ queue'[k] = queue[k + 1]
        BY <1>2, <2>1
      <4>2. k > 1 /\ k \in Nat /\ 1 + 1 = 2
        BY <1>2, <1>7
      <4> QED BY <2>1, <4>1, <4>2
    <3>2. 2 # 1
      OBVIOUS
    <3> QED BY <3>1, <3>2 DEF QueueInv, NoMeaninglessJob
  <2>3. Behind(g, queue') = {}
    <3> SUFFICES ASSUME NEW w \in Behind(g, queue') PROVE FALSE
      OBVIOUS
    <3>1. PICK k \in DOMAIN queue' : k > 1 /\ queue'[k] = w /\ w.handle = g
      BY DEF Behind
    <3>2. k = 1
      BY <2>2, <3>1
    <3> QED BY <3>1, <3>2
  <2>4. Behind(g, queue) = {queue'[1]}
    BY <1>6, <1>7, <2>1, <2>2
  <2> QED BY <1>9, <2>3, <2>4
<1>10. CASE ~Runs(g, queue')
  <2>1. 1 \in DOMAIN queue' => queue'[1].handle # g
    BY <1>8, <1>10 DEF Runs
  <2>2. Behind(g, queue') = Behind(g, queue)
    BY <1>6, <1>7, <2>1 DEF Behind
  <2> QED BY <1>10, <2>2
<1> QED BY <1>9, <1>10

LEMMA JobDoneSettles ==
    ASSUME NEW i \in Impl, NEW job \in Job, NEW outstanding \in BOOLEAN
    PROVE  /\ JobFinished(i, job.path, job.context, outstanding).finished = i.finished
           /\ JobFinished(i, job.path, job.context, outstanding).location = job.path
           /\ JobFinished(i, job.path, job.context, outstanding).savePath = After(i, job).savePath
           /\ JobFinished(i, job.path, job.context, outstanding).downloadPath = After(i, job).downloadPath
           /\ JobFinished(i, job.path, job.context, outstanding) \in Impl
<1>1. job.path \in Path /\ job.context \in Context
  BY DEF Job
<1> DEFINE j == JobFinished(i, job.path, job.context, outstanding)
<1>2. j \in Impl
  BY <1>1, JobFinishedParts
<1>3. j.finished = i.finished /\ j.location = job.path
  BY <1>1 DEF JobFinished, Impl
<1>4. /\ j.savePath = IF job.context = "ChangeSavePath" THEN job.path ELSE i.savePath
      /\ j.downloadPath = IF job.context = "ChangeDownloadPath" THEN job.path ELSE i.downloadPath
  BY <1>1 DEF JobFinished, Impl
<1> HIDE DEF j
<1>5. j.savePath = After(i, job).savePath /\ j.downloadPath = After(i, job).downloadPath
  BY <1>4, AfterParts
<1> QED BY <1>2, <1>3, <1>5 DEF j

LEMMA MoveFinishedSettles ==
    ASSUME QueueInv, QueueInv', NativeInv, MovingInv, PlaceInv,
           NEW success \in BOOLEAN, NEW valid \in BOOLEAN, MoveFinished(success, valid)
    PROVE  PlaceInv'
<1> DEFINE h == queue[1].handle
           owner == Owner(h, valid)
<1>1. moving # NoJob /\ queue' = Tail(queue) /\ MoveFirst(queue')
  BY DEF MoveFinished
<1>2. queue # <<>> /\ Head(queue) = queue[1] /\ queue[1] \in Job /\ h \in Handle
  BY <1>1, FirstJobDone
<1>3. /\ UNCHANGED <<torrents, phase>>
      /\ \/ /\ owner # None
            /\ impl' = [impl EXCEPT ![owner] =
                  JobFinished(@, PlaceAfter(success, owner), queue[1].context, HasJob(h, queue'))]
            /\ excused' = IF success THEN excused ELSE excused \union {owner}
         \/ owner = None /\ UNCHANGED <<impl, excused>>
      /\ valid \in Valid(h)
  BY <1>1, <1>2 DEF MoveFinished
<1>4. HashOf[h] \in Torrent
  BY <1>2, MovesAssumption
<1>5. owner # None => owner = h /\ InSession(h)
  <2> SUFFICES ASSUME owner # None PROVE owner = h /\ InSession(h)
    OBVIOUS
  <2>1. owner = torrents[HashOf[h]]
    BY DEF Owner
  <2>2. owner \in Handle /\ HashOf[owner] = HashOf[h]
    BY <1>4, <2>1 DEF QueueInv, MovesType, NativeInv, SessionInv
  <2>3. InSession(owner)
    BY <2>1, <2>2 DEF InSession
  <2>4. native[h] \in {"present", "deleting"}
    BY <1>1, FirstJobDone
  <2>5. owner = h
    BY <1>2, <2>2, <2>3, <2>4 DEF MovingInv, StaysAreApart
  <2> QED BY <2>3, <2>5
<1>6. owner = None => ~InSession(h)
  <2>1. CASE valid
    BY <1>2, <2>1, MovesAssumption DEF Owner, InSession
  <2>2. CASE ~valid
    BY <1>2, <1>3, <2>2 DEF Valid, NativeInv, SessionInv
  <2> QED BY <2>1, <2>2
<1> HIDE DEF owner
<1> SUFFICES ASSUME phase' = "running", NEW g \in Handle, InSession(g)', g \notin excused'
             PROVE  Settles(g)'
  BY DEF PlaceInv
<1>7. phase = "running" /\ InSession(g) /\ g \notin excused
  BY <1>3 DEF InSession
<1>8. Settled(impl[g], Runs(g, queue), queue[1], Behind(g, queue)) /\ impl[g] \in Impl
  BY <1>7 DEF PlaceInv, Settles, NativeInv, SessionInv
<1>9. \/ ~Runs(g, queue') /\ Behind(g, queue') = Behind(g, queue)
      \/ Runs(g, queue') /\ Behind(g, queue') = {} /\ Behind(g, queue) = {queue'[1]}
  BY <1>1, <1>2, FirstGone
<1>10. CASE g # h
  <2>1. impl'[g] = impl[g]
    BY <1>3, <1>5, <1>10 DEF QueueInv, MovesType
  <2>2. ~Runs(g, queue)
    BY <1>10 DEF Runs
  <2> QED BY <1>8, <1>9, <2>1, <2>2 DEF Settles, Settled
<1>11. CASE g = h
  <2> DEFINE first == queue[1]
             j == JobFinished(impl[h], first.path, first.context, HasJob(h, queue'))
  <2>1. owner = h /\ success
    BY <1>3, <1>5, <1>6, <1>7, <1>11
  <2>2. impl'[h] = JobFinished(impl[h], PlaceAfter(success, h), first.context, HasJob(h, queue'))
    <3>1. h # None
      BY <1>2, MovesAssumption
    <3>2. impl' = [impl EXCEPT ![h] =
                      JobFinished(impl[h], PlaceAfter(success, h), first.context, HasJob(h, queue'))]
      BY <1>3, <2>1, <3>1
    <3> QED BY <1>2, <3>2 DEF QueueInv, MovesType
  <2>3. impl'[h] = j
    BY <1>2, <2>1, <2>2 DEF PlaceAfter
  <2>4. Runs(h, queue)
    BY <1>2 DEF Runs
  <2>5. HasJob(h, queue') \in BOOLEAN
    BY DEF HasJob
  <2>6. /\ j.finished = impl[h].finished /\ j.location = first.path
        /\ j.savePath = After(impl[h], first).savePath
        /\ j.downloadPath = After(impl[h], first).downloadPath
    BY <1>2, <1>8, <1>11, <2>5, JobDoneSettles
  <2>7. /\ After(impl[h], first).savePath =
               IF first.context = "ChangeSavePath" THEN first.path ELSE impl[h].savePath
        /\ After(impl[h], first).downloadPath =
               IF first.context = "ChangeDownloadPath" THEN first.path ELSE impl[h].downloadPath
        /\ After(impl[h], first).finished = impl[h].finished
    BY <1>2, <1>8, <1>11, AfterParts
  <2>8. first.path \in Path /\ first.path # NoPath
    BY <1>2, MovesAssumption DEF Job
  <2> HIDE DEF first, j
  <2>9. Fits(impl[h], first) => j.location = Target(j)
    BY <2>6, <2>7, <2>8 DEF Fits, Target
  <2>10. Target(j) = Target(After(impl[h], first))
    BY <2>6, <2>7 DEF Target
  <2>11. \A w : Fits(After(impl[h], first), w) => Fits(j, w)
    BY <2>6, <2>7, <2>10 DEF Fits
  <2>12. Settled(impl[h], TRUE, first, Behind(h, queue))
    BY <1>8, <1>11, <2>4 DEF first, Settled
  <2>13. Settled(j, Runs(h, queue'), queue'[1], Behind(h, queue'))
    BY <1>9, <1>11, <2>9, <2>11, <2>12 DEF Settled
  <2> QED BY <1>11, <2>3, <2>13 DEF Settles
<1> QED BY <1>10, <1>11

LEMMA PlaceKept ==
    ASSUME QueueInv, NativeInv, MovingInv, PlaceInv, QueueInv', [Next]_vars
    PROVE  PlaceInv'
<1>1. CASE \E h \in Handle, i \in Impl : AddTorrent(h, i)
  BY <1>1, AddedSettles
<1>2. CASE \E h \in Handle, path \in Path : SetSavePath(h, path)
  BY <1>2, SavePathSettles DEF NativeInv
<1>3. CASE \E h \in Handle, path \in Path \union {NoPath} : SetDownloadPath(h, path)
  BY <1>3, DownloadPathSettles DEF NativeInv
<1>4. CASE \E h \in Handle : TorrentFinished(h)
  BY <1>4, FinishedSettles DEF NativeInv
<1>5. CASE \E h \in Handle, complete \in BOOLEAN : TorrentChecked(h, complete)
  BY <1>5, CheckedSettles DEF NativeInv
<1>6. CASE \E h \in Handle, option \in {"torrent", "files"} : DeleteTorrent(h, option)
  BY <1>6, DeletedSettles
<1>7. CASE \E success, valid \in BOOLEAN : MoveFinished(success, valid)
  BY <1>7, MoveFinishedSettles
<1>8. CASE Exit \/ End
  BY <1>8, NotRunning DEF Exit, End
<1>9. CASE \/ UNCHANGED <<torrents, impl, queue, phase, excused>>
           \/ MoveFailedOfGone
  BY <1>9 DEF MoveFailedOfGone, sessionVars, historyVars, PlaceInv, InSession, Settles
<1>10. ASSUME NEW h \in Handle, TorrentRemovedAlert(h)
       PROVE  UNCHANGED <<torrents, impl, queue, phase, excused>>
  BY <1>10 DEF TorrentRemovedAlert, historyVars
<1>11. ASSUME NEW h \in Handle, NEW success \in BOOLEAN, TorrentDeletedAlert(h, success)
       PROVE  UNCHANGED <<torrents, impl, queue, phase, excused>>
  BY <1>11 DEF TorrentDeletedAlert, historyVars
<1>12. UNCHANGED vars => UNCHANGED <<torrents, impl, queue, phase, excused>>
  BY DEF vars, sessionVars, historyVars
<1> QED BY <1>1, <1>2, <1>3, <1>4, <1>5, <1>6, <1>7, <1>8, <1>9, <1>10, <1>11, <1>12 DEF Next

(* When nothing moves, the storage of a torrent is where its paths and its *)
(* progress say, unless a move of it failed or a requested path was passed *)
(* over by a later job.  Along the way every job is shown to take the      *)
(* storage where the paths are going to say, which is what each request    *)
(* and each finished job keeps (TorrentImpl::moveStorage,                  *)
(* adjustStorageLocation, handleMoveStorageJobFinished).                   *)
THEOREM Settling == ~ReaddsWhileDeleting => (Spec => []SettledAtTarget)
<1> SUFFICES ASSUME ~ReaddsWhileDeleting PROVE Spec => []SettledAtTarget
  OBVIOUS
<1> DEFINE Inv == QueueInv /\ NativeInv /\ MovingInv /\ PlaceInv
<1>1. Init => Inv
  <2>1. Init => PlaceInv
    BY MovesAssumption DEF Init, PlaceInv, InSession
  <2> QED BY <2>1, Initially
<1>2. Inv /\ [Next]_vars => Inv'
  <2> SUFFICES ASSUME Inv, [Next]_vars PROVE Inv'
    OBVIOUS
  <2>1. QueueInv' /\ NativeInv' /\ MovingInv'
    BY Kept
  <2> QED BY <2>1, PlaceKept
<1>3. Inv => SettledAtTarget
  <2> SUFFICES ASSUME Inv, phase = "running", NEW h \in Handle,
                      InSession(h), ~HasJob(h, queue), h \notin excused
               PROVE  impl[h].location = Target(impl[h])
    BY DEF SettledAtTarget
  <2>1. Settles(h)
    BY DEF PlaceInv
  <2> QED BY <2>1, RunsParts DEF Settles, Settled
<1> QED BY <1>1, <1>2, <1>3, PTL DEF Spec
=============================================================================
