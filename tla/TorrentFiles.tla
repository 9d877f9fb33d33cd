---------------------------- MODULE TorrentFiles ----------------------------
(***************************************************************************)
(* What a torrent answers about its files: their paths, their priorities,  *)
(* which of them are complete, how much of each is there.  TorrentImpl     *)
(* either keeps the answers (resident) or works them out when asked        *)
(* (deferred paths, deferred state), from the parameters it would add the  *)
(* torrent with and from the last status; renamed files are kept for all   *)
(* files or only where they differ from the layout (sparse).               *)
(*                                                                         *)
(* libtorrent does what it is asked in order (work) and reports what it    *)
(* did in order (alerts).  The torrent has its metadata, is not paused and *)
(* does not move; its paths in the file system are in StorageMoves.        *)
(***************************************************************************)
EXTENDS Integers, Sequences, FiniteSets, SequencesExt, FiniteSetsExt

CONSTANTS
    File,
    Piece,
    PiecesOf,       \* PiecesOf[f]: the pieces with bytes of file f
    Path,           \* names a file may have
    Original,       \* its name in the torrent,
    Renamed,        \* and in a layout that differs from the torrent's
    NoPath,
    Modes,          \* settings of the program
    MaxEvents,      \* bound: what the user does
    MaxAlerts       \* bound: alerts that wait while libtorrent goes on

Mode == [deferPaths : BOOLEAN, deferState : BOOLEAN, sparse : BOOLEAN,
         relayout : BOOLEAN, recheck : BOOLEAN]

ASSUME FilesAssumption ==
    /\ IsFiniteSet(File) /\ IsFiniteSet(Piece)
    /\ PiecesOf \in [File -> SUBSET Piece]
    /\ Modes \subseteq Mode
    /\ Original \in Path /\ Renamed \in Path /\ NoPath \notin Path
    /\ MaxEvents \in Nat /\ MaxAlerts \in Nat

VARIABLES
    mode,           \* the settings, read at the start
    append,         \* isAppendExtensionEnabled()
    t,              \* TorrentImpl
    native,         \* libtorrent's torrent
    work,           \* requests to libtorrent
    alerts,
    reading,        \* how many of them the program has read and is handling
    saving,         \* is the session's call for resume data queued?
    late,           \* has a report come in that was older than a recheck?
    events

vars == <<mode, append, t, native, work, alerts, reading, saving, late, events>>

(* A name as it is on the disk, with .!qB or without.                      *)
OnDisk(path, ext) == [path |-> path, ext |-> ext]

(* Ignored, or not: degrees of priority make no difference here.           *)
Priorities == [File -> BOOLEAN]
PiecesWanted(prios) == UNION {PiecesOf[f] : f \in {g \in File : prios[g]}}

(* m_ltAddTorrentParams: renamed_files and file_priorities.                *)
Params == [renamed : [File -> Path \union {NoPath}], prios : Priorities]

(* m_nativeStatus                                                          *)
Status == [have : SUBSET Piece, done : BOOLEAN, wanted : BOOLEAN,
           checking : BOOLEAN, modified : BOOLEAN]

Trigger == [is : {"run_checked", "run_finished"}]

(* The fields of TorrentImpl that are concerned.                           *)
TorrentImpl ==
    [params : Params,
     paths : [File -> Path], prios : Priorities,
     completed : SUBSET File,
     progress : [Piece -> Nat],    \* m_filesProgress: how often a piece is counted
     pieces : SUBSET Piece,        \* m_pieces
     status : Status,
     finished : BOOLEAN,           \* m_hasFinishedStatus
     unchecked : BOOLEAN, firstLast : BOOLEAN,
     renames : Int,                \* m_renameCount
     triggers : Seq(Trigger),      \* m_statusUpdatedTriggers
     announcing : Nat]             \* m_moveFinishedTriggers

Native ==
    [have : SUBSET Piece, wanted : SUBSET Piece, prios : Priorities,
     paths : [File -> [path : Path, ext : BOOLEAN]],
     checking : BOOLEAN, finished : BOOLEAN,
     modified : BOOLEAN,                    \* need_save_resume
     updated : BOOLEAN]                     \* to be in the next state_update

Request ==
    [do : {"prioritize"}, prios : Priorities]
        \union [do : {"wanted"}, pieces : SUBSET Piece]
        \union [do : {"rename"}, file : File, to : [path : Path, ext : BOOLEAN]]
        \union [do : {"recheck", "save"}]

Alert ==
    [is : {"completed", "rename_failed"}, file : File]
        \union [is : {"renamed"}, file : File, path : Path]
        \union [is : {"saved"}, params : Params]
        \union [is : {"status"}, status : Status]
        \union [is : {"checked", "finished"}]
        \union Trigger

-----------------------------------------------------------------------------
(* Renamed files (torrentpathstate.cpp).                                   *)

(* defaultLogicalFilePaths()                                               *)
DefaultPath == IF mode.relayout THEN Renamed ELSE Original

(* The names users give: not the one that the torrent or another layout    *)
(* would give the file.                                                    *)
UserPath == (Path \ {Original, Renamed}) \union {DefaultPath}

(* resolvedLogicalFilePath()                                               *)
Resolved(params, f) ==
    IF params.renamed[f] = NoPath THEN DefaultPath ELSE params.renamed[f]

(* storedRenamedFiles(): sparse files without a name have the default.     *)
Stored(paths) ==
    [f \in File |-> IF mode.sparse /\ paths[f] = DefaultPath THEN NoPath ELSE paths[f]]

(* Variant with a mistake: a file back at its default name keeps its entry. *)
WithRenamedFileKept(renamed, f, path) ==
    IF mode.sparse /\ path = DefaultPath THEN renamed ELSE [renamed EXCEPT ![f] = path]

(* updateStoredRenamedFile()                                               *)
WithRenamedFile(renamed, f, path) ==
    [renamed EXCEPT ![f] = IF mode.sparse /\ path = DefaultPath THEN NoPath ELSE path]

-----------------------------------------------------------------------------
(* The answers.                                                            *)

FilePath(s, f) == IF mode.deferPaths THEN Resolved(s.params, f) ELSE s.paths[f]

FilePriorities(s) == IF mode.deferState THEN s.params.prios ELSE s.prios

IsCompletedFile(s, f) ==
    IF mode.deferState THEN PiecesOf[f] \subseteq s.pieces ELSE f \in s.completed

(* resolvedFilesProgress(), as what each piece counts for in its files.    *)
FilesProgress(s) ==
    IF mode.deferState THEN [p \in Piece |-> IF p \in s.pieces THEN 1 ELSE 0] ELSE s.progress

(* wantedActualPath(), where ext tells whether incomplete files have .!qB. *)
WantedActualPath(s, ext, f, path) ==
    OnDisk(path, ext /\ PiecesOf[f] # {} /\ ~IsCompletedFile(s, f))

-----------------------------------------------------------------------------
(* What TorrentImpl does, as functions of its state, and what it asks of   *)
(* libtorrent.                                                             *)

(* A handler leaves the torrent in state s, with requests to libtorrent;   *)
(* save tells whether its resume data are needed                           *)
(* (handleTorrentNeedSaveResumeData()).                                    *)
Does(s, requests, save) ==
    /\ t' = s
    /\ work' = work \o requests
    /\ saving' = (saving \/ save)

Rename(f, target) == [do |-> "rename", file |-> f, to |-> target]

(* manageIncompleteFiles(), with doRenameFile() for each file whose name   *)
(* is not the wanted one.                                                  *)
Misnamed(s, ext) ==
    {f \in File : native.paths[f] # WantedActualPath(s, ext, f, FilePath(s, f))}

Managed(s, ext) == [s EXCEPT !.renames = @ + Cardinality(Misnamed(s, ext))]

ManageIncompleteFiles(s, ext) ==
    LET files == SetToSeq(Misnamed(s, ext))
    IN  [i \in DOMAIN files |->
            Rename(files[i], WantedActualPath(s, ext, files[i], FilePath(s, files[i])))]

(* Variant with a mistake: the resident progress goes on from where it was.*)
ForceRecheckKeepingProgress(s) ==
    [s EXCEPT !.unchecked = FALSE,
              !.completed = IF mode.deferState THEN @ ELSE {},
              !.pieces = {},
              !.status = [@ EXCEPT !.have = {}, !.checking = TRUE]]

(* forceRecheck()                                                          *)
ForceRecheck(s) ==
    [s EXCEPT !.unchecked = FALSE,
              !.completed = IF mode.deferState THEN @ ELSE {},
              !.progress = IF mode.deferState THEN @ ELSE [p \in Piece |-> 0],
              !.pieces = {},
              !.status = [@ EXCEPT !.have = {}, !.checking = TRUE]]

(* Variant with a mistake: the priorities are those of the resume data.    *)
ApplyFirstLastOfParams(s) == [do |-> "wanted", pieces |-> PiecesWanted(s.params.prios)]

(* applyFirstLastPiecePriority()                                           *)
ApplyFirstLastPiecePriority(s) == [do |-> "wanted", pieces |-> PiecesWanted(FilePriorities(s))]

(* updateProgress(): what has changed is added to the resident progress.   *)
UpdateProgress(s) ==
    [s EXCEPT !.pieces = s.status.have,
              !.progress = IF mode.deferState THEN @
                           ELSE [p \in Piece |->
                                    IF (p \in s.status.have) # (p \in s.pieces)
                                    THEN @[p] + 1 ELSE @[p]]]

(* The end of handleFileRenamedAlert() and handleFileRenameFailedAlert().  *)
RenameEnded(s) ==
    [s EXCEPT !.renames = @ - 1,
              !.announcing = IF s.renames = 1 THEN 0 ELSE @]

-----------------------------------------------------------------------------
(* Calls of the user.                                                      *)

Event ==
    /\ reading = 0
    /\ events < MaxEvents
    /\ events' = events + 1
    /\ UNCHANGED <<mode, native, alerts, reading, late>>

(* prioritizeFiles(): libtorrent is told, and the resident priorities      *)
(* follow at once.                                                         *)
PrioritizeFiles(prios) ==
    LET again == \E f \in File : /\ ~FilePriorities(t)[f] /\ prios[f]
                                 /\ ~IsCompletedFile(t, f)
        s == [t EXCEPT !.finished = @ /\ ~again,
                       !.prios = IF mode.deferState THEN @ ELSE prios]
        request == [do |-> "prioritize", prios |-> prios]
    IN  /\ Event
        /\ Does(s, IF t.firstLast THEN <<request, ApplyFirstLastPiecePriority(s)>>
                   ELSE <<request>>, FALSE)
        /\ UNCHANGED append

(* setFirstLastPiecePriority()                                             *)
SetFirstLastPiecePriority ==
    /\ Event
    /\ Does([t EXCEPT !.firstLast = ~@], <<ApplyFirstLastPiecePriority(t)>>, TRUE)
    /\ UNCHANGED append

(* renameFile()                                                            *)
RenameFile(f, path) ==
    /\ Event
    /\ path # FilePath(t, f)
    /\ path \in UserPath
    /\ Does([t EXCEPT !.renames = @ + 1],
            <<Rename(f, WantedActualPath(t, append, f, path))>>, FALSE)
    /\ UNCHANGED append

(* SessionImpl::setAppendExtensionEnabled(), handleAppendExtensionToggled().*)
ToggleAppendExtension ==
    /\ Event
    /\ append' = ~append
    /\ Does(Managed(t, append'), ManageIncompleteFiles(t, append'), FALSE)

Recheck ==
    /\ Event
    /\ Does(ForceRecheck(t), <<[do |-> "recheck"]>>, FALSE)
    /\ UNCHANGED append

(* The session's queued call: the torrent asks for its resume data.        *)
SaveResumeData ==
    /\ reading = 0
    /\ saving
    /\ saving' = FALSE
    /\ work' = Append(work, [do |-> "save"])
    /\ UNCHANGED <<mode, append, t, native, alerts, reading, late, events>>

-----------------------------------------------------------------------------
(* Handlers of alerts.                                                     *)

(* Variant with a mistake: noted only with the extension.                  *)
HandleFileCompletedExtended(f) ==
    LET s == [t EXCEPT !.completed = @ \union {f}]
        target == OnDisk(FilePath(t, f), FALSE)
    IN  IF append
        THEN Does([s EXCEPT !.renames = @ + 1], <<Rename(f, target)>>, FALSE)
        ELSE Does(t, <<>>, FALSE)

(* handleFileCompletedAlert()                                              *)
HandleFileCompleted(f) ==
    LET s == [t EXCEPT !.completed = IF mode.deferState THEN @ ELSE @ \union {f}]
        target == OnDisk(FilePath(t, f), FALSE)
    IN  IF append /\ native.paths[f] # target
        THEN Does([s EXCEPT !.renames = @ + 1], <<Rename(f, target)>>, FALSE)
        ELSE Does(s, <<>>, FALSE)

(* handleFileRenamedAlert(): .!qB alone is no new name.                    *)
HandleFileRenamed(f, path) ==
    LET s == IF FilePath(t, f) = path THEN t
             ELSE [t EXCEPT !.params.renamed = WithRenamedFile(@, f, path),
                            !.paths = IF mode.deferPaths THEN @ ELSE [@ EXCEPT ![f] = path]]
    IN  Does(RenameEnded(s), <<>>, TRUE)

(* Variant with a mistake: a rename that failed is still counted.          *)
HandleFileRenameStillCounted == Does(t, <<>>, TRUE)

HandleFileRenameFailed == Does(RenameEnded(t), <<>>, TRUE)

HandleTorrentChecked ==
    Does([t EXCEPT !.triggers = Append(@, [is |-> "run_checked"])], <<>>, FALSE)

HandleTorrentFinished ==
    IF t.finished THEN Does(t, <<>>, FALSE)
    ELSE Does([t EXCEPT !.triggers = Append(@, [is |-> "run_finished"])], <<>>, FALSE)

(* prepareResumeData(): the parameters are those of libtorrent.            *)
HandleSaveResumeData(params) == Does([t EXCEPT !.params = params], <<>>, FALSE)

(* updateStatus(), up to the triggers, which run next.                     *)
UpdateStatus(status) ==
    LET s == [t EXCEPT !.status = status,
                       !.unchecked = IF status.checking THEN FALSE
                                     ELSE IF ~status.done THEN TRUE ELSE @,
                       !.triggers = <<>>]
        changed == Cardinality(status.have) # Cardinality(t.status.have)
    IN  Does(IF changed THEN UpdateProgress(s) ELSE s, <<>>, FALSE)

(* What handleTorrentCheckedAlert() left for the next status.              *)
RunChecked ==
    LET s == [t EXCEPT !.finished = IF t.status.wanted THEN t.status.done ELSE @]
    IN  Does(Managed(s, append), ManageIncompleteFiles(s, append), t.status.modified)

(* What handleTorrentFinishedAlert() left.                                 *)
RunFinished ==
    LET s == Managed(t, append)
        requests == ManageIncompleteFiles(t, append)
    IN  IF mode.recheck /\ t.unchecked
        THEN Does(ForceRecheck(s), Append(requests, [do |-> "recheck"]), TRUE)
        ELSE Does([s EXCEPT !.finished = TRUE,
                            !.announcing = IF s.renames > 0 THEN @ + 1 ELSE @], requests, TRUE)

(* Those that are there are handled one after the other, before anything   *)
(* else happens in the program (readAlerts()).                             *)
ReadAlerts ==
    /\ reading = 0
    /\ alerts # <<>>
    /\ reading' = Len(alerts)
    /\ UNCHANGED <<mode, append, t, native, work, alerts, saving, late, events>>

(* What libtorrent reports of pieces and files, perhaps from before a      *)
(* recheck that the program has asked for.                                 *)
IsReport(a) == a.is \in {"completed", "status"}
Rechecks(requests) == \E i \in DOMAIN requests : requests[i].do = "recheck"

HandleAlert ==
    LET a == Head(alerts)
    IN  /\ reading > 0
        /\ \/ a.is = "completed" /\ HandleFileCompleted(a.file)
           \/ a.is = "renamed" /\ HandleFileRenamed(a.file, a.path)
           \/ a.is = "rename_failed" /\ HandleFileRenameFailed
           \/ a.is = "checked" /\ HandleTorrentChecked
           \/ a.is = "finished" /\ HandleTorrentFinished
           \/ a.is = "saved" /\ HandleSaveResumeData(a.params)
           \/ a.is = "status" /\ UpdateStatus(a.status)
           \/ a.is = "run_checked" /\ RunChecked
           \/ a.is = "run_finished" /\ RunFinished
        /\ LET next == IF a.is = "status" THEN t.triggers ELSE <<>>
           IN  /\ alerts' = next \o Tail(alerts)
               /\ reading' = Len(next) + reading - 1
        /\ late' = (late \/ (IsReport(a) /\ Rechecks(work)))
        /\ UNCHANGED <<mode, append, native, events>>

-----------------------------------------------------------------------------
(* libtorrent, on a thread of its own.                                     *)

NativeGoesOn == Len(alerts) < MaxAlerts

Completed(files) ==
    LET seq == SetToSeq(files)
    IN  [i \in DOMAIN seq |-> [is |-> "completed", file |-> seq[i]]]

(* Its state is n after a change of pieces, wishes, names or the check,    *)
(* which it reports: it finishes, or has more to do.                       *)
NativeBecomes(n, reports) ==
    LET done == ~n.checking /\ n.wanted \subseteq n.have
    IN  /\ native' = [n EXCEPT !.finished = done, !.modified = TRUE, !.updated = TRUE]
        /\ alerts' = alerts \o reports \o
                         IF done /\ ~n.finished THEN <<[is |-> "finished"]>> ELSE <<>>

(* Only names that differ from those in the torrent are saved.             *)
ParamsOf(n) ==
    [prios |-> n.prios,
     renamed |-> [f \in File |-> IF n.paths[f] = OnDisk(Original, FALSE) THEN NoPath
                                 ELSE n.paths[f].path]]

(* The next request is carried out, a rename perhaps not.                  *)
NativeRequest ==
    LET r == Head(work)
    IN  /\ NativeGoesOn
        /\ work # <<>>
        /\ work' = Tail(work)
        /\ \/ /\ r.do = "prioritize"
              /\ NativeBecomes([native EXCEPT !.prios = r.prios,
                                              !.wanted = PiecesWanted(r.prios)], <<>>)
           \/ /\ r.do = "wanted"
              /\ NativeBecomes([native EXCEPT !.wanted = r.pieces], <<>>)
           \/ /\ r.do = "rename"
              /\ NativeBecomes([native EXCEPT !.paths = [@ EXCEPT ![r.file] = r.to]],
                               <<[is |-> "renamed", file |-> r.file, path |-> r.to.path]>>)
           \/ /\ r.do = "rename"
              /\ alerts' = Append(alerts, [is |-> "rename_failed", file |-> r.file])
              /\ UNCHANGED native
           \/ /\ r.do = "recheck"
              /\ NativeBecomes([native EXCEPT !.have = {}, !.checking = TRUE], <<>>)
           \/ /\ r.do = "save"
              /\ native' = [native EXCEPT !.modified = FALSE]
              /\ alerts' = Append(alerts, [is |-> "saved", params |-> ParamsOf(native)])
        /\ late' = (late \/ (r.do = "recheck" /\ \E i \in DOMAIN alerts : IsReport(alerts[i])))
        /\ UNCHANGED <<mode, append, t, reading, saving, events>>

(* A wanted piece comes, and with it perhaps the last of a file.           *)
NativePiece(p) ==
    /\ NativeGoesOn
    /\ ~native.checking
    /\ p \in native.wanted \ native.have
    /\ LET have == native.have \union {p}
       IN  NativeBecomes([native EXCEPT !.have = have],
               Completed({f \in File : p \in PiecesOf[f] /\ PiecesOf[f] \subseteq have}))
    /\ UNCHANGED <<mode, append, t, work, reading, saving, late, events>>

(* The check of the files ends, with whatever is on the disk.              *)
NativeChecked ==
    /\ NativeGoesOn
    /\ native.checking
    /\ \E have \in SUBSET Piece :
          NativeBecomes([native EXCEPT !.have = have, !.checking = FALSE],
                Completed({f \in File : PiecesOf[f] # {} /\ PiecesOf[f] \subseteq have})
                    \o <<[is |-> "checked"]>>)
    /\ UNCHANGED <<mode, append, t, work, reading, saving, late, events>>

(* The answer to post_torrent_updates(), which waits for the requests that *)
(* are older, and which is not asked for while one is on its way.          *)
NativeStatus ==
    /\ NativeGoesOn
    /\ native.updated
    /\ work = <<>>
    /\ \A i \in DOMAIN alerts : alerts[i].is # "status"
    /\ native' = [native EXCEPT !.updated = FALSE]
    /\ alerts' = Append(alerts, [is |-> "status", status |->
           [have |-> native.have, done |-> native.wanted \subseteq native.have,
            wanted |-> native.wanted # {}, checking |-> native.checking,
            modified |-> native.modified]])
    /\ UNCHANGED <<mode, append, t, work, reading, saving, late, events>>

-----------------------------------------------------------------------------
(* A torrent that has just been created (the constructor): its files have  *)
(* the names it was added with, and libtorrent begins to check them.       *)
Init ==
    /\ mode \in Modes
    /\ append \in BOOLEAN
    /\ \E finished \in BOOLEAN, firstLast \in BOOLEAN, paths \in [File -> UserPath] :
          LET wanted == [f \in File |-> TRUE]
          IN  /\ t = [params |-> [renamed |-> Stored(paths), prios |-> wanted],
                      paths |-> paths, prios |-> wanted,
                      completed |-> {}, progress |-> [p \in Piece |-> 0], pieces |-> {},
                      status |-> [have |-> {}, done |-> FALSE, wanted |-> TRUE,
                                  checking |-> TRUE, modified |-> FALSE],
                      finished |-> finished, unchecked |-> FALSE, firstLast |-> firstLast,
                      renames |-> 0, triggers |-> <<>>, announcing |-> 0]
              /\ native = [have |-> {}, wanted |-> PiecesWanted(wanted), prios |-> wanted,
                           paths |-> [f \in File |-> OnDisk(paths[f], append)],
                           checking |-> TRUE, finished |-> FALSE,
                           modified |-> FALSE, updated |-> TRUE]
    /\ work = <<>>
    /\ alerts = <<>>
    /\ reading = 0
    /\ saving = FALSE
    /\ late = FALSE
    /\ events = 0

Next ==
    \/ \E prios \in Priorities : PrioritizeFiles(prios)
    \/ SetFirstLastPiecePriority
    \/ \E f \in File, path \in Path : RenameFile(f, path)
    \/ ToggleAppendExtension
    \/ Recheck
    \/ SaveResumeData
    \/ ReadAlerts
    \/ HandleAlert
    \/ NativeRequest
    \/ \E p \in Piece : NativePiece(p)
    \/ NativeChecked
    \/ NativeStatus

Spec == Init /\ [][Next]_vars
-----------------------------------------------------------------------------
TypeOK ==
    /\ mode \in Modes
    /\ append \in BOOLEAN
    /\ t \in TorrentImpl
    /\ native \in Native
    /\ work \in Seq(Request)
    /\ alerts \in Seq(Alert)
    /\ reading \in 0 .. Len(alerts)
    /\ saving \in BOOLEAN
    /\ late \in BOOLEAN
    /\ events \in 0 .. MaxEvents

(* m_renameCount is the number of renames that libtorrent has not answered *)
(* for, whoever asked: the user, the extension, the end of a check; and    *)
(* the end of a download, once seen, is held back by nothing else.         *)
RenamesAreCounted ==
    /\ t.renames =
           Cardinality({i \in DOMAIN work : work[i].do = "rename"}) +
           Cardinality({i \in DOMAIN alerts : alerts[i].is \in {"renamed", "rename_failed"}})
    /\ t.announcing > 0 => t.renames > 0

InFlight(f) ==
    \/ \E i \in DOMAIN work : work[i].do = "rename" /\ work[i].file = f
    \/ \E i \in DOMAIN alerts : alerts[i].is = "renamed" /\ alerts[i].file = f

(* Worked out or kept, sparse or not, and whatever resume data came in     *)
(* between: the path of a file is its name on the disk without .!qB.       *)
PathsAreTheDisks ==
    \A f \in File : InFlight(f) \/ FilePath(t, f) = native.paths[f].path

(* The resident progress is what the pieces amount to, although it is only *)
(* ever added to; unless a status from before a recheck came after it.     *)
ProgressIsOfPieces ==
    late \/ \A p \in Piece : FilesProgress(t)[p] = IF p \in t.pieces THEN 1 ELSE 0

(* Nothing is on its way, and the session knows of it.                     *)
Quiet ==
    /\ work = <<>> /\ alerts = <<>>
    /\ t.triggers = <<>>
    /\ ~native.updated /\ ~native.checking

(* A file that is known complete is complete, and the other way round.     *)
CompletedWhenQuiet ==
    Quiet /\ ~late => \A f \in File :
        PiecesOf[f] # {} => (IsCompletedFile(t, f) <=> PiecesOf[f] \subseteq native.have)

(* The wanted pieces are those of the wanted files: "we might get the      *)
(* old/wrong values, so we rely on `updatedFilePrio` in this case".        *)
WantedFilesAreLoaded ==
    work = <<>> => native.wanted = PiecesWanted(native.prios)

(* So it is where the priorities are kept by the torrent itself.           *)
WantedFilesAreLoadedWhenResident == mode.deferState \/ WantedFilesAreLoaded
=============================================================================
