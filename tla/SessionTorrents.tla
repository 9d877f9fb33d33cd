--------------------------- MODULE SessionTorrents ---------------------------
(***************************************************************************)
(* How torrents come into SessionImpl and leave it: loaded at the start,   *)
(* added, fetched for their metadata only, deleted; how their resume data  *)
(* are asked for and stored, and how the session ends.                     *)
(*                                                                         *)
(* libtorrent works on its own.  Requests of the session wait for it in    *)
(* order (work), and so do its answers (alerts).  readAlerts takes all     *)
(* answers at once and handles those to additions before the others.       *)
(*                                                                         *)
(* Categories of loaded torrents are in Categories, removals that wait for *)
(* moves in StorageMoves; the storage of the resume data is external and   *)
(* does at once what it is told.                                           *)
(***************************************************************************)
EXTENDS Integers, Sequences, FiniteSets, SequencesExt

CONSTANTS
    Id,             \* info hashes (libtorrent 1.2: one id per torrent)
    NoData,
    MaxProcessing,  \* MAX_PROCESSING_RESUMEDATA_COUNT
    Overlap,        \* may an id be used again while its last torrent has answers to come?
    MaxEvents,      \* bound: what the user, the network and timers do
    MaxRuns         \* bound: how often the program is started

ASSUME SessionAssumption ==
    /\ IsFiniteSet(Id)
    /\ MaxProcessing \in Nat \ {0}
    /\ Overlap \in BOOLEAN
    /\ MaxEvents \in Nat
    /\ MaxRuns \in Nat \ {0}

VARIABLES
    (* what survives the program *)
    stored,         \* m_resumeDataStorage: the data of each torrent
    runs,
    events,
    (* SessionImpl *)
    phase,          \* "startup" | "restored" | "exiting" | "ended" | "aborted"
    torrents,       \* m_torrents
    loading,        \* m_loadingTorrents
    hidden,         \* m_downloadedMetadata: "no" | "pending" | "handle"
    needSave,       \* m_needSaveResumeDataTorrents, with the queued call
    count,          \* m_numResumeData
    searches,       \* file searches on their way, for each torrent
    (* ResumeSessionContext and the storage it loads from *)
    toLoad,         \* what the loading thread has still to read
    loaded,         \* what it could read and nobody has processed
    loadFinished,   \* isLoadFinished
    processing,     \* processingResumeDataCount
    handling,       \* a call of handleLoadedResumeData is queued
    refused,        \* what could not be read, or added, in this run
    (* libtorrent *)
    native,         \* its torrents
    work,
    alerts,
    adds,           \* what readAlerts has taken: it handles the additions first,
    batch           \* then the others

startupVars == <<toLoad, loaded, loadFinished, processing, handling, refused>>
alertVars == <<alerts, adds, batch>>
vars == <<stored, runs, events, phase, torrents, loading, hidden, needSave, count, searches,
          startupVars, native, work, alertVars>>

(* The data of a torrent: changes of the session, pieces, metadata.        *)
Data == [own : Nat, progress : Nat, info : BOOLEAN]

ASSUME NoDataAssumption == NoData \notin Data

(* A torrent that is absent here or there, or an entry that is not made.   *)
None == [kind |-> "none"]

(* A native torrent has its own parameters or those of a hidden one; a     *)
(* torrent may be handling metadata it received (MaintenanceJob).          *)
Kinds == {"own", "hidden"}
TorrentImpl == [kind : Kinds, own : Nat, info : BOOLEAN, received : BOOLEAN]
NativeTorrent == [kind : Kinds, info : BOOLEAN, progress : Nat, needSave : BOOLEAN]

InSession(id) == torrents[id] # None

(* The event loop calls one handler after the other.                       *)
Idle == adds = <<>> /\ batch = <<>>

Event ==
    /\ Idle
    /\ phase = "restored"
    /\ events < MaxEvents
    /\ events' = events + 1

-----------------------------------------------------------------------------
(* libtorrent.                                                             *)

AddNative(id, kind, data) == [do |-> "add", id |-> id, kind |-> kind, data |-> data]
RemoveNative(id, kind) == [do |-> "remove", id |-> id, kind |-> kind]
SaveNative(id, always) == [do |-> "save", id |-> id, always |-> always]

(* A torrent that is there already is an error only for one of the user    *)
(* (duplicate_is_error); a hidden one gets the handle of what is there.    *)
(* libtorrent may have other reasons to refuse a torrent.                  *)
NativeAdd(r) ==
    /\ r.do = "add"
    /\ \E accepts \in BOOLEAN :
          /\ native' = IF native[r.id] # None \/ ~accepts THEN native
                       ELSE [native EXCEPT ![r.id] = [kind |-> r.kind, info |-> r.data.info,
                                                      progress |-> r.data.progress,
                                                      needSave |-> FALSE]]
          /\ refused' = IF accepts THEN refused ELSE refused \union {r.id}
          /\ alerts' = Append(alerts,
                 [is |-> "added", id |-> r.id, kind |-> native'[r.id].kind,
                  ok |-> accepts /\ (native[r.id] = None \/ r.kind = "hidden")])

(* The handle of a torrent that is gone removes nothing.                   *)
NativeRemove(r) ==
    /\ r.do = "remove"
    /\ native' = IF native[r.id].kind = r.kind THEN [native EXCEPT ![r.id] = None] ELSE native
    /\ UNCHANGED <<alerts, refused>>

NativeSave(r) ==
    /\ r.do = "save"
    /\ UNCHANGED refused
    /\ IF native[r.id] = None
       THEN UNCHANGED <<native, alerts>>
       ELSE /\ native' = [native EXCEPT ![r.id].needSave = FALSE]
            /\ alerts' = Append(alerts,
                   IF r.always \/ native[r.id].needSave
                   THEN [is |-> "saved", id |-> r.id, progress |-> native[r.id].progress,
                         info |-> native[r.id].info]
                   ELSE [is |-> "not modified", id |-> r.id])

NativeStep ==
    /\ work # <<>>
    /\ work' = Tail(work)
    /\ NativeAdd(Head(work)) \/ NativeRemove(Head(work)) \/ NativeSave(Head(work))
    /\ UNCHANGED <<stored, runs, events, phase, torrents, loading, hidden, needSave, count,
                   searches, toLoad, loaded, loadFinished, processing, handling, adds, batch>>

NativeProgress(id) ==
    /\ Event
    /\ native[id] # None
    /\ native[id].info
    /\ native' = [native EXCEPT ![id].progress = @ + 1, ![id].needSave = TRUE]
    /\ UNCHANGED <<stored, runs, phase, torrents, loading, hidden, needSave, count, searches,
                   startupVars, work, alertVars>>

(* Metadata come from peers, or from a second addition of the torrent.     *)
NativeMetadata(id) ==
    /\ Event
    /\ native[id] # None
    /\ ~native[id].info
    /\ native' = [native EXCEPT ![id].info = TRUE, ![id].needSave = TRUE]
    /\ alerts' = Append(alerts, [is |-> "metadata", id |-> id, kind |-> native[id].kind])
    /\ UNCHANGED <<stored, runs, phase, torrents, loading, hidden, needSave, count, searches,
                   startupVars, work, adds, batch>>

-----------------------------------------------------------------------------
(* The startup.                                                            *)

(* The loading thread reads the data of one torrent, if it can; what it    *)
(* cannot read is passed over (processNextResumeData).                     *)
ReadNext ==
    /\ phase = "startup"
    /\ \E id \in toLoad :
          /\ toLoad' = toLoad \ {id}
          /\ \/ loaded' = Append(loaded, id) /\ UNCHANGED refused
             \/ refused' = refused \union {id} /\ UNCHANGED loaded
    /\ UNCHANGED <<stored, runs, events, phase, torrents, loading, hidden, needSave, count,
                   searches, loadFinished, processing, handling, native, work, alertVars>>

LoadFinished ==
    /\ phase = "startup"
    /\ Idle
    /\ toLoad = {}
    /\ ~loadFinished
    /\ loadFinished' = TRUE
    /\ UNCHANGED <<stored, runs, events, phase, torrents, loading, hidden, needSave, count,
                   searches, toLoad, loaded, processing, handling, refused, native, work,
                   alertVars>>

(* How many of the loaded are taken until as many are processed as may be. *)
Taken ==
    IF Len(loaded) < MaxProcessing - processing THEN Len(loaded)
    ELSE MaxProcessing - processing

(* Variant with a mistake: the end of the loading is not waited for.       *)
HandleLoadedWithoutEnd ==
    LET ids == SubSeq(loaded, 1, Taken)
    IN  /\ phase = "startup" /\ Idle /\ handling
        /\ loaded' = SubSeq(loaded, Taken + 1, Len(loaded))
        /\ processing' = processing + Len(ids)
        /\ loading' = [id \in Id |-> IF id \in ToSet(ids)
                                     THEN stored[id] ELSE loading[id]]
        /\ work' = work \o [i \in DOMAIN ids |-> AddNative(ids[i], "own", stored[ids[i]])]
        /\ handling' = FALSE
        /\ phase' = IF processing' = 0 THEN "restored" ELSE phase
        /\ UNCHANGED <<stored, runs, events, torrents, hidden, needSave, count, searches,
                       toLoad, loadFinished, refused, native, alertVars>>

(* handleLoadedResumeData(): if nothing is left and nothing is processed,  *)
(* the startup ends, or the call is queued again until all is read.        *)
HandleLoadedResumeData ==
    LET ids == SubSeq(loaded, 1, Taken)
        nothing == processing + Len(ids) = 0
    IN  /\ phase = "startup"
        /\ Idle
        /\ handling
        /\ loaded' = SubSeq(loaded, Taken + 1, Len(loaded))
        /\ processing' = processing + Len(ids)
        /\ loading' = [id \in Id |-> IF id \in ToSet(ids)
                                     THEN stored[id] ELSE loading[id]]
        /\ work' = work \o [i \in DOMAIN ids |-> AddNative(ids[i], "own", stored[ids[i]])]
        /\ handling' = (nothing /\ ~loadFinished)
        /\ phase' = IF nothing /\ loadFinished THEN "restored" ELSE phase
        /\ UNCHANGED <<stored, runs, events, torrents, hidden, needSave, count, searches,
                       toLoad, loadFinished, refused, native, alertVars>>

-----------------------------------------------------------------------------
(* Adding and deleting.                                                    *)

(* Variant with a mistake: libtorrent is not told.                         *)
CancelHereOnly(id) == <<>>

(* cancelDownloadMetadata(): without a handle there is nothing to remove.  *)
Cancel(id) == IF hidden[id] = "handle" THEN <<RemoveNative(id, "hidden")>> ELSE <<>>

(* No answer is on its way that would be taken for one about a hidden      *)
(* torrent, or about a new one, while it belongs to another of this id.    *)
Settled(id) ==
    /\ hidden[id] # "pending"
    /\ searches[id] = 0
    /\ native[id] # None => hidden[id] = "handle" \/ native[id].info
    /\ \A i \in DOMAIN alerts : ~(alerts[i].is = "metadata" /\ alerts[i].id = id)

(* A magnet link, or a file, which may first be searched for on the disk.  *)
AddTorrent(id) ==
    /\ Event
    /\ loading[id] = None
    /\ ~InSession(id)
    /\ Overlap \/ Settled(id)
    /\ hidden' = [hidden EXCEPT ![id] = "no"]
    /\ \E info \in BOOLEAN : \E search \in IF info THEN BOOLEAN ELSE {FALSE} :
          LET data == [own |-> 0, progress |-> 0, info |-> info]
          IN  /\ loading' = [loading EXCEPT ![id] = data]
              /\ searches' = IF search THEN [searches EXCEPT ![id] = @ + 1] ELSE searches
              /\ work' = work \o Cancel(id) \o
                             IF search THEN <<>> ELSE <<AddNative(id, "own", data)>>
    /\ UNCHANGED <<stored, runs, phase, torrents, needSave, count, startupVars, native,
                   alertVars>>

DownloadMetadata(id) ==
    /\ Event
    /\ loading[id] = None
    /\ hidden[id] = "no"
    /\ ~InSession(id)
    /\ Overlap \/ Settled(id)
    /\ hidden' = [hidden EXCEPT ![id] = "pending"]
    /\ work' = Append(work, AddNative(id, "hidden", [own |-> 0, progress |-> 0, info |-> FALSE]))
    /\ UNCHANGED <<stored, runs, phase, torrents, loading, needSave, count, searches,
                   startupVars, native, alertVars>>

CancelDownloadMetadata(id) ==
    /\ Event
    /\ hidden[id] # "no"
    /\ Overlap \/ Settled(id)
    /\ hidden' = [hidden EXCEPT ![id] = "no"]
    /\ work' = work \o Cancel(id)
    /\ UNCHANGED <<stored, runs, phase, torrents, loading, needSave, count, searches,
                   startupVars, native, alertVars>>

(* Variant with a mistake: the resume data stay.                           *)
DeleteTorrentKeepingData(id) ==
    /\ Event
    /\ InSession(id)
    /\ torrents' = [torrents EXCEPT ![id] = None]
    /\ work' = Append(work, RemoveNative(id, torrents[id].kind))
    /\ UNCHANGED <<stored, runs, phase, loading, hidden, needSave, count, searches,
                   startupVars, native, alertVars>>

DeleteTorrent(id) ==
    /\ Event
    /\ InSession(id)
    /\ torrents' = [torrents EXCEPT ![id] = None]
    /\ work' = Append(work, RemoveNative(id, torrents[id].kind))
    /\ stored' = [stored EXCEPT ![id] = NoData]
    /\ UNCHANGED <<runs, phase, loading, hidden, needSave, count, searches, startupVars,
                   native, alertVars>>

-----------------------------------------------------------------------------
(* Changes and resume data.                                                *)

Saves(ids, always) == SetToSeq({SaveNative(id, always) : id \in ids})

(* A setter of the torrent, ending in handleTorrentNeedSaveResumeData().   *)
ChangeTorrent(id) ==
    /\ Event
    /\ InSession(id)
    /\ torrents' = [torrents EXCEPT ![id].own = @ + 1]
    /\ needSave' = needSave \union {id}
    /\ UNCHANGED <<stored, runs, phase, loading, hidden, count, searches, startupVars, native,
                   work, alertVars>>

(* Variant with a mistake: only what libtorrent knows to have changed.     *)
SaveNeededIfModified ==
    LET ids == {id \in needSave : InSession(id)}
    IN  /\ phase \in {"startup", "restored"} /\ Idle /\ needSave # {}
        /\ needSave' = {}
        /\ work' = work \o Saves(ids, FALSE)
        /\ count' = count + Cardinality(ids)
        /\ UNCHANGED <<stored, runs, events, phase, torrents, loading, hidden, searches,
                       startupVars, native, alertVars>>

(* The queued call.                                                        *)
SaveNeeded ==
    LET ids == {id \in needSave : InSession(id)}
    IN  /\ phase \in {"startup", "restored"}
        /\ Idle
        /\ needSave # {}
        /\ needSave' = {}
        /\ work' = work \o Saves(ids, TRUE)
        /\ count' = count + Cardinality(ids)
        /\ UNCHANGED <<stored, runs, events, phase, torrents, loading, hidden, searches,
                       startupVars, native, alertVars>>

(* generateResumeData(), for those that need it by their last status.      *)
GenerateResumeData ==
    /\ Event
    /\ \E ids \in SUBSET {id \in Id : InSession(id)} \ {{}} :
          /\ needSave' = needSave \ ids
          /\ work' = work \o Saves(ids, TRUE)
          /\ count' = count + Cardinality(ids)
    /\ UNCHANGED <<stored, runs, phase, torrents, loading, hidden, searches, startupVars,
                   native, alertVars>>

(* fileSearchFinished() of the session: the torrent goes on with its       *)
(* metadata (endReceivedMetadataHandling: it is added to libtorrent anew,  *)
(* which waits until libtorrent has done its work, and its pieces are      *)
(* checked), or is added at last.                                          *)
SearchFinished(id) ==
    /\ Idle
    /\ phase = "restored"
    /\ searches[id] > 0
    /\ searches' = [searches EXCEPT ![id] = @ - 1]
    /\ IF InSession(id) /\ torrents[id].received
       THEN /\ work = <<>>
            /\ torrents' = [torrents EXCEPT ![id].received = FALSE, ![id].info = TRUE]
            /\ native' = [native EXCEPT ![id].needSave = TRUE]
            /\ stored' = [stored EXCEPT ![id] =
                             [own |-> torrents[id].own, progress |-> 0, info |-> TRUE]]
            /\ count' = count - 1
            /\ UNCHANGED work
       ELSE /\ work' = IF InSession(id) \/ loading[id] = None THEN work
                       ELSE Append(work, AddNative(id, "own", loading[id]))
            /\ UNCHANGED <<torrents, native, stored, count>>
    /\ UNCHANGED <<runs, loading, events, phase, hidden, needSave, startupVars, alertVars>>

-----------------------------------------------------------------------------
(* Alerts.                                                                 *)

(* readAlerts(); the loop at exit handles no additions.                    *)
ReadAlerts ==
    /\ phase \in {"startup", "restored", "exiting"}
    /\ Idle
    /\ alerts # <<>>
    /\ alerts' = <<>>
    /\ adds' = IF phase = "exiting" THEN <<>> ELSE alerts
    /\ batch' = alerts
    /\ UNCHANGED <<stored, runs, events, phase, torrents, loading, hidden, needSave, count,
                   searches, startupVars, native, work>>

(* createTorrent(): a new torrent is saved at once, a restored one is not. *)
CreateTorrent(a) ==
    /\ torrents' = [torrents EXCEPT ![a.id] =
                       [kind |-> a.kind, own |-> loading[a.id].own,
                        info |-> loading[a.id].info, received |-> FALSE]]
    /\ IF phase = "restored"
       THEN work' = Append(work, SaveNative(a.id, TRUE)) /\ count' = count + 1
       ELSE UNCHANGED <<work, count>>

(* Variants with a mistake: a failed addition stays; the startup stops     *)
(* with the first batch.                                                   *)
AddedKeepingFailed(a) ==
    IF a.ok THEN [loading EXCEPT ![a.id] = None] ELSE loading
ProcessedOnly ==
    /\ processing' = IF phase = "startup" THEN processing - 1 ELSE processing
    /\ UNCHANGED handling

(* The torrent is not being loaded any more, whatever came of it, and the  *)
(* startup has room for the next.                                          *)
Added(a) == [loading EXCEPT ![a.id] = None]
Processed ==
    IF phase = "startup" THEN processing' = processing - 1 /\ handling' = TRUE
    ELSE UNCHANGED <<processing, handling>>

(* handleAddTorrentAlerts(), one alert that is an addition.                *)
OnAdded(a) ==
    /\ a.is = "added"
    /\ IF loading[a.id] # None
       THEN /\ loading' = Added(a)
            /\ IF a.ok THEN CreateTorrent(a) ELSE UNCHANGED <<torrents, work, count>>
            /\ UNCHANGED hidden
       ELSE /\ hidden' = IF hidden[a.id] = "no" THEN hidden
                         ELSE [hidden EXCEPT ![a.id] = IF a.ok THEN "handle" ELSE "no"]
            /\ UNCHANGED <<loading, torrents, work, count>>
    /\ Processed

(* Others are passed over.                                                 *)
OnOther(a) ==
    /\ a.is # "added"
    /\ UNCHANGED <<loading, torrents, hidden, work, count, processing, handling>>

HandleAdded ==
    /\ adds # <<>>
    /\ adds' = Tail(adds)
    /\ OnAdded(Head(adds)) \/ OnOther(Head(adds))
    /\ UNCHANGED <<stored, runs, events, phase, needSave, searches, toLoad, loaded,
                   loadFinished, refused, native, alerts, batch>>

(* Variant with a mistake: every answer counts as the end of a save.       *)
OnSavedCountingAll(a) ==
    /\ a.is = "saved"
    /\ InSession(a.id)
    /\ count' = count - 1
    /\ IF torrents[a.id].received
       THEN searches' = [searches EXCEPT ![a.id] = @ + 1] /\ UNCHANGED stored
       ELSE /\ stored' = [stored EXCEPT ![a.id] = [own |-> torrents[a.id].own,
                                                   progress |-> a.progress, info |-> a.info]]
            /\ UNCHANGED searches
    /\ UNCHANGED <<torrents, hidden, needSave, work>>

(* handleSaveResumeDataAlert(): new metadata wait for a search of files,   *)
(* everything else is stored.                                              *)
OnSaved(a) ==
    /\ a.is = "saved"
    /\ InSession(a.id)
    /\ IF torrents[a.id].received
       THEN searches' = [searches EXCEPT ![a.id] = @ + 1] /\ UNCHANGED <<stored, count>>
       ELSE /\ stored' = [stored EXCEPT ![a.id] = [own |-> torrents[a.id].own,
                                                   progress |-> a.progress, info |-> a.info]]
            /\ count' = count - 1
            /\ UNCHANGED searches
    /\ UNCHANGED <<torrents, hidden, needSave, work>>

OnNotModified(a) ==
    /\ a.is = "not modified"
    /\ InSession(a.id)
    /\ count' = count - 1
    /\ UNCHANGED <<stored, searches, torrents, hidden, needSave, work>>

(* The hash of a torrent that libtorrent has removed can be asked for only *)
(* while something still holds the torrent.                                *)
Recognised(a) ==
    Overlap \/ (native[a.id] # None /\ native[a.id].kind = a.kind /\ native[a.id].info)

(* The metadata of a torrent, or of a hidden one, which is then removed.   *)
OnMetadata(a) ==
    /\ a.is = "metadata"
    /\ Recognised(a)
    /\ IF InSession(a.id)
       THEN /\ torrents' = [torrents EXCEPT ![a.id].received = TRUE]
            /\ needSave' = needSave \union {a.id}
            /\ UNCHANGED <<hidden, work>>
       ELSE /\ hidden' = [hidden EXCEPT ![a.id] = "no"]
            /\ work' = IF hidden[a.id] = "no" THEN work
                       ELSE Append(work, RemoveNative(a.id, "hidden"))
            /\ UNCHANGED <<torrents, needSave>>
    /\ UNCHANGED <<stored, count, searches>>

(* dispatchTorrentAlert() passes over torrents that are not there, and     *)
(* handleAlert() over additions.                                           *)
OnUnknown(a) ==
    /\ CASE a.is = "metadata" -> ~Recognised(a)
         [] a.is = "added"    -> TRUE
         [] OTHER             -> ~InSession(a.id)
    /\ UNCHANGED <<stored, count, searches, torrents, hidden, needSave, work>>

HandleAlert ==
    LET a == Head(batch)
    IN  /\ adds = <<>>
        /\ batch # <<>>
        /\ batch' = Tail(batch)
        /\ OnSaved(a) \/ OnNotModified(a) \/ OnMetadata(a) \/ OnUnknown(a)
        /\ UNCHANGED <<runs, events, phase, loading, startupVars, native, alerts, adds>>

-----------------------------------------------------------------------------
(* The end, and the next start.                                            *)

(* ~SessionImpl() and saveResumeData(); calls that are queued come first.  *)
Exit ==
    LET ids == {id \in Id : InSession(id)}
    IN  /\ phase \in {"startup", "restored"}
        /\ Idle
        /\ needSave = {}
        /\ phase' = "exiting"
        /\ work' = work \o Saves(ids, FALSE)
        /\ count' = count + Cardinality(ids)
        /\ UNCHANGED <<stored, runs, events, torrents, loading, hidden, needSave, searches,
                       startupVars, native, alertVars>>

(* Variants with a mistake: the answers are not waited for; they are       *)
(* waited for without a limit.                                             *)
EndAtOnce ==
    /\ phase = "exiting" /\ Idle
    /\ phase' = "ended"
    /\ UNCHANGED <<stored, runs, events, torrents, loading, hidden, needSave, count, searches,
                   startupVars, native, work, alertVars>>
EndWithoutLimit ==
    /\ phase = "exiting" /\ Idle /\ count <= 0
    /\ phase' = "ended"
    /\ UNCHANGED <<stored, runs, events, torrents, loading, hidden, needSave, count, searches,
                   startupVars, native, work, alertVars>>

(* The loop ends when nothing is outstanding; or after 30 seconds without  *)
(* a wanted alert, in which libtorrent has done all it had to do.          *)
End ==
    /\ phase = "exiting"
    /\ Idle
    /\ \/ count <= 0 /\ phase' = "ended"
       \/ count > 0 /\ work = <<>> /\ alerts = <<>> /\ phase' = "aborted"
    /\ UNCHANGED <<stored, runs, events, torrents, loading, hidden, needSave, count, searches,
                   startupVars, native, work, alertVars>>

(* The program is started again after its end, or after a crash.           *)
Restart ==
    /\ runs < MaxRuns
    /\ runs' = runs + 1
    /\ phase' = "startup"
    /\ UNCHANGED <<stored, events>>
    /\ torrents' = [id \in Id |-> None]
    /\ loading' = [id \in Id |-> None]
    /\ hidden' = [id \in Id |-> "no"]
    /\ needSave' = {}
    /\ count' = 0
    /\ searches' = [id \in Id |-> 0]
    /\ toLoad' = {id \in Id : stored[id] # NoData}
    /\ loaded' = <<>>
    /\ loadFinished' = FALSE
    /\ processing' = 0
    /\ handling' = TRUE
    /\ refused' = {}
    /\ native' = [id \in Id |-> None]
    /\ work' = <<>> /\ alerts' = <<>> /\ adds' = <<>> /\ batch' = <<>>

Init ==
    /\ stored \in [Id -> {NoData, [own |-> 0, progress |-> 0, info |-> TRUE],
                          [own |-> 0, progress |-> 0, info |-> FALSE]}]
    /\ runs = 1
    /\ events = 0
    /\ phase = "startup"
    /\ torrents = [id \in Id |-> None]
    /\ loading = [id \in Id |-> None]
    /\ hidden = [id \in Id |-> "no"]
    /\ needSave = {}
    /\ count = 0
    /\ searches = [id \in Id |-> 0]
    /\ toLoad = {id \in Id : stored[id] # NoData}
    /\ loaded = <<>>
    /\ loadFinished = FALSE
    /\ processing = 0
    /\ handling = TRUE
    /\ refused = {}
    /\ native = [id \in Id |-> None]
    /\ work = <<>> /\ alerts = <<>> /\ adds = <<>> /\ batch = <<>>

Next ==
    \/ \E id \in Id :
          \/ NativeProgress(id) \/ NativeMetadata(id)
          \/ AddTorrent(id) \/ DownloadMetadata(id) \/ CancelDownloadMetadata(id)
          \/ DeleteTorrent(id) \/ ChangeTorrent(id) \/ SearchFinished(id)
    \/ NativeStep
    \/ ReadNext \/ LoadFinished \/ HandleLoadedResumeData
    \/ SaveNeeded \/ GenerateResumeData
    \/ ReadAlerts \/ HandleAdded \/ HandleAlert
    \/ Exit \/ End \/ Restart

Spec == Init /\ [][Next]_vars

(* libtorrent, the event loop, the loading thread and the file searcher go *)
(* on; nobody has to add, change, exit or restart.                         *)
Fairness ==
    /\ WF_vars(NativeStep)
    /\ WF_vars(ReadNext) /\ WF_vars(LoadFinished) /\ WF_vars(HandleLoadedResumeData)
    /\ WF_vars(SaveNeeded)
    /\ WF_vars(ReadAlerts) /\ WF_vars(HandleAdded) /\ WF_vars(HandleAlert)
    /\ \A id \in Id : WF_vars(SearchFinished(id))
    /\ WF_vars(End)

FairSpec == Spec /\ Fairness
-----------------------------------------------------------------------------
(* What libtorrent is asked for, and what it answers.                      *)
Request ==
    [do : {"add"}, id : Id, kind : Kinds, data : Data]
        \union [do : {"remove"}, id : Id, kind : Kinds]
        \union [do : {"save"}, id : Id, always : BOOLEAN]
Alert ==
    [is : {"added"}, id : Id, kind : Kinds, ok : {TRUE}]
        \union [is : {"added"}, id : Id, kind : Kinds \union {"none"}, ok : {FALSE}]
        \union [is : {"saved"}, id : Id, progress : Nat, info : BOOLEAN]
        \union [is : {"not modified"}, id : Id]
        \union [is : {"metadata"}, id : Id, kind : Kinds]

TypeOK ==
    /\ stored \in [Id -> Data \union {NoData}]
    /\ runs \in 1 .. MaxRuns
    /\ events \in 0 .. MaxEvents
    /\ phase \in {"startup", "restored", "exiting", "ended", "aborted"}
    /\ torrents \in [Id -> TorrentImpl \union {None}]
    /\ loading \in [Id -> Data \union {None}]
    /\ hidden \in [Id -> {"no", "pending", "handle"}]
    /\ needSave \subseteq Id
    /\ count \in Int
    /\ searches \in [Id -> Nat]
    /\ toLoad \subseteq Id
    /\ loaded \in Seq(Id)
    /\ loadFinished \in BOOLEAN
    /\ processing \in 0 .. MaxProcessing
    /\ handling \in BOOLEAN
    /\ refused \subseteq Id
    /\ native \in [Id -> NativeTorrent \union {None}]
    /\ work \in Seq(Request)
    /\ alerts \in Seq(Alert) /\ adds \in Seq(Alert) /\ batch \in Seq(Alert)

(* Requests for resume data, and answers, that are on their way; metadata  *)
(* that wait for their files.                                              *)
Requests == {i \in DOMAIN work : work[i].do = "save"}
Answers(s) == {i \in DOMAIN s : s[i].is \in {"saved", "not modified"}}
Waiting(id) == InSession(id) /\ torrents[id].received /\ searches[id] > 0

(* m_numResumeData is never smaller than what is outstanding: the loop at  *)
(* exit does not end while an answer of a torrent is to come, nor while    *)
(* metadata wait for their files, however the torrents come and go.        *)
OutstandingAreCounted ==
    count >= Cardinality(Requests) + Cardinality(Answers(alerts)) + Cardinality(Answers(batch))
             + Cardinality({id \in Id : Waiting(id)})

Outstanding(id) ==
    \/ \E i \in Requests : work[i].id = id
    \/ \E i \in Answers(alerts) : alerts[i].id = id
    \/ \E i \in Answers(batch) : batch[i].id = id

(* No change of a torrent is forgotten: it is stored, or a save is queued  *)
(* or under way, or waits with new metadata.                               *)
NoChangeIsForgotten ==
    phase = "restored" => \A id \in Id :
        InSession(id) =>
            \/ stored[id] # NoData /\ stored[id].own = torrents[id].own
            \/ id \in needSave
            \/ Outstanding(id)
            \/ Waiting(id)

(* If the session ends without giving up, every torrent is stored as it    *)
(* is, with what libtorrent did to it.                                     *)
EndSavesAll ==
    phase = "ended" => \A id \in Id :
        InSession(id) =>
            stored[id] = [own |-> torrents[id].own, progress |-> native[id].progress,
                          info |-> torrents[id].info]

(* Once the session is restored it has every torrent that is stored and    *)
(* can be read and added, and one that was deleted does not come back.     *)
StoredAreRestored ==
    phase = "restored" => \A id \in Id :
        stored[id] # NoData => InSession(id) \/ id \in refused

(* libtorrent has exactly the torrents of the session, the hidden ones and *)
(* those it is about to add or remove.                                     *)
About(id) == {i \in DOMAIN work : work[i].id = id}
NativesAreKnown ==
    phase = "restored" => \A id \in Id :
        /\ InSession(id) => native[id] # None
        /\ native[id] # None =>
               InSession(id) \/ loading[id] # None \/ hidden[id] # "no" \/ About(id) # {}

(* "It looks illogical that we don't just use an existing handle, but [..] *)
(* it actually creates unnecessary problems [..] since the fact that it    *)
(* was originally added with parameters other than those provided by the   *)
(* user": a torrent of the session is not a hidden one.                    *)
AddedWithOwnParameters ==
    \A id \in Id : InSession(id) => torrents[id].kind = "own"

(* An addition comes to its end, with a torrent or without.                *)
AddingEnds ==
    \A id \in Id :
        loading[id] # None ~> loading[id] = None \/ phase \notin {"startup", "restored"}

(* The startup ends whatever can be read, in batches of any size.          *)
StartupEnds == phase = "startup" ~> phase # "startup"

(* So does the exit, by itself or by giving up.                            *)
ExitEnds == phase = "exiting" ~> phase # "exiting"
=============================================================================
