------------------------- MODULE MaindataRevisions -------------------------
(***************************************************************************)
(* The revision protocol between the shared maindata store and the browser *)
(* tabs that poll it.  The store numbers the states of its snapshot        *)
(* (revisions), keeps the deltas of the latest ones, and answers each poll *)
(* with the whole snapshot or with the deltas since the revision the tab   *)
(* has acknowledged.  All tabs of one browser share one cookie, hence one  *)
(* WebSession, one SyncController and one cursor; every web session shares *)
(* the one store.  Requests and responses get lost, a request that the tab *)
(* has given up may be handled late and more than once, web sessions end,  *)
(* and the store drops its state when the last one has gone (ReleaseIdle). *)
(*                                                                         *)
(* What a snapshot holds is abstracted to its version, the number of       *)
(* deltas applied to it so far.  A tab that holds version v and applies    *)
(* the deltas between two versions b and w ends at w when b <= v <= w:     *)
(* AggregateIsComposition and AggregateAbsorbs in CompactSnapshotProofs are*)
(* that step on the data itself.  Versions and response indices are        *)
(* history variables: no action of the program reads them.                 *)
(***************************************************************************)
EXTENDS MaindataCursor, FiniteSets

CONSTANTS
    Browser,             \* cookies: each owns at most one SyncController
    Tab,                 \* browser tabs
    BrowserOf,           \* BrowserOf[t] is the browser tab t runs in
    MaxRetained,         \* m_maxRetainedRevisions
    ReleaseIdle,         \* m_releaseIdleStateEnabled
    InitialCache,        \* the initial full response cache is not disabled
    TabsOutliveSessions, \* a tab may keep polling when its session has ended
    MaxVersion,          \* bound: deltas applied to the snapshot
    MaxSent,             \* bound: responses of one SyncController
    MaxOrphans           \* bound: abandoned requests still in the network

ASSUME ProtocolAssumption ==
    /\ BrowserOf \in [Tab -> Browser]
    /\ MaxRetained \in Nat
    /\ ReleaseIdle \in BOOLEAN
    /\ InitialCache \in BOOLEAN
    /\ TabsOutliveSessions \in BOOLEAN
    /\ MaxVersion \in Nat
    /\ MaxSent \in Nat
    /\ MaxOrphans \in Nat

VARIABLES
    revision,     \* m_currentRevision, 0 while the store is uninitialised
    earliest,     \* earliestRetainedRevision()
    served,       \* m_hasServedAnyResponse
    cacheRev,     \* m_cachedInitialFullUpdateRevision
    cacheVer,     \* history: the version the cached response was built from
    version,      \* history: deltas applied to the snapshot so far
    restored,     \* Session::isRestored(): the startup has finished
    live,         \* the browsers whose SyncController exists
    cursor,       \* m_maindataCursor of each SyncController
    sent,         \* history: responses sent by the current SyncController
    accepted,     \* history: index of the response last acknowledged
    tab,          \* rid, phase and (history) version and index of each tab
    reply,        \* the response on its way to each tab
    orphans       \* requests in the network whose tab no longer waits

snapshotVars == <<revision, earliest, served, cacheRev, cacheVer, version>>
storeVars == <<snapshotVars, restored>>
sessionVars == <<live, cursor, sent, accepted>>
tabVars == <<tab, reply>>
vars == <<storeVars, sessionVars, tabVars, orphans>>

-----------------------------------------------------------------------------
Garbled == -1        \* the version of a tab that applied a delta to the wrong base

NoReply == [full |-> TRUE, rid |-> 0, base |-> 0, ver |-> 0, idx |-> 0]

Reply == [full : BOOLEAN, rid : Nat, base : Int, ver : Nat, idx : Nat]

BlankPage == [rid |-> 0, phase |-> "idle", ver |-> 0, idx |-> 0]

Phase == {"idle", "asked", "answered"}

Orphan == [browser : Browser, rid : Nat]

(* The version of the content that revision r had, as long as r belongs to *)
(* the current lifetime of the store.                                      *)
VersionOf(r) == version - (revision - r)

TabsOf(b) == {t \in Tab : BrowserOf[t] = b}

(* Environment bound: a tab, or a response on its way to one, is never     *)
(* RidModulus or more responses behind.  Beyond it a response id names two *)
(* responses; with the modulus of the code (1000000) and a poll every      *)
(* refresh interval that takes more than a week of lost responses.         *)
InRidWindow(b, index) ==
    \A t \in TabsOf(b) :
        /\ tab[t].rid > 0 => index - tab[t].idx < RidModulus
        /\ tab[t].phase = "answered" => index - reply[t].idx < RidModulus

Init ==
    /\ revision = 0
    /\ earliest = 1
    /\ served = FALSE
    /\ cacheRev = 0
    /\ cacheVer = 0
    /\ version = 0
    /\ restored = FALSE
    /\ live = {}
    /\ cursor = [b \in Browser |-> FreshCursor]
    /\ sent = [b \in Browser |-> 0]
    /\ accepted = [b \in Browser |-> 0]
    /\ tab = [t \in Tab |-> BlankPage]
    /\ reply = [t \in Tab |-> NoReply]
    /\ orphans = {}

-----------------------------------------------------------------------------
(* The store.  r, e and v are the revision, the earliest retained revision *)
(* and the version after the refresh.                                      *)

(* evictRevisions: the oldest deltas go while there are more than          *)
(* MaxRetained of them or their estimated size exceeds the byte budget;    *)
(* one oversized delta may empty the window.                               *)
Evicted(r, e) ==
    /\ e \in earliest..(r + 1)
    /\ r + 1 - e <= MaxRetained

(* Variant with a mistake: changes are absorbed after a response, too.     *)
RefreshedAbsorbing(r, e, v) ==
    \/ /\ revision = 0
       /\ r = 1 /\ e = 2 /\ v = version + 1
    \/ /\ revision > 0
       /\ r = revision /\ e = earliest /\ v \in {version, version + 1}

(* prewarm(): initializeSnapshot() when there is no snapshot, then         *)
(* storePendingRevision(), which finds a change or not and either absorbs  *)
(* it (nothing served yet: the revision stays) or stores it as a revision. *)
Refreshed(r, e, v) ==
    \/ /\ revision = 0
       /\ r = 1 /\ e = 2 /\ v = version + 1
    \/ /\ revision > 0
       /\ r = revision /\ e = earliest /\ v = version
    \/ /\ revision > 0 /\ ~served
       /\ r = revision /\ e = earliest /\ v = version + 1
    \/ /\ revision > 0 /\ served
       /\ r = revision + 1 /\ v = version + 1
       /\ Evicted(r, e)

(* prewarm() as a whole, where it finds revision r, earliest e, version v. *)
Refresh(r, e, v) ==
    /\ v <= MaxVersion
    /\ Refreshed(r, e, v)
    /\ revision' = r
    /\ earliest' = e
    /\ version' = v

(* shouldTrackDirtyState()                                                 *)
TracksDirtyState == ~ReleaseIdle \/ live # {}

(* Session::restored: the store is prewarmed before anybody asks, or while *)
(* the web sessions that came early are served.                            *)
SessionRestored(r, e, v) ==
    /\ ~restored
    /\ restored' = TRUE
    /\ IF TracksDirtyState
       THEN Refresh(r, e, v)
       ELSE UNCHANGED <<revision, earliest, version>>
    /\ UNCHANGED <<served, cacheRev, cacheVer, sessionVars, tabVars, orphans>>

(* Variant with a mistake: any SyncController that goes is the last one.   *)
AnySessionGone == ReleaseIdle

(* releaseSyncSession(): the last SyncController has been destroyed.       *)
LastSessionGone == ReleaseIdle /\ live' = {}

(* Variants with a mistake: the cached response is kept; the cached        *)
(* revision is marked with a value revisions do not have.                  *)
ReleaseKeepingCache ==
    /\ revision' = 0
    /\ earliest' = 1
    /\ served' = FALSE
    /\ UNCHANGED <<cacheRev, cacheVer, version>>

ReleaseWithMarker ==
    /\ revision' = 0
    /\ earliest' = 1
    /\ served' = FALSE
    /\ cacheRev' = -1
    /\ cacheVer' = 0
    /\ UNCHANGED version

(* releaseSharedState()                                                    *)
ReleaseSharedState ==
    /\ revision' = 0
    /\ earliest' = 1
    /\ served' = FALSE
    /\ cacheRev' = 0
    /\ cacheVer' = 0
    /\ UNCHANGED version

-----------------------------------------------------------------------------
(* The request handler.                                                    *)

(* SyncController::maindataAction for browser b and rid requestedRid.  The *)
(* first sync request of a web session creates its SyncController; prewarm *)
(* brings the store to revision r, earliest e, version v; the response is  *)
(* the cached initial one for a fresh cursor, otherwise planMaindataSync's *)
(* (buildResponse calls prewarm again, which finds nothing new within the  *)
(* same event).                                                            *)
IsFresh(c, requestedRid) == requestedRid = 0 /\ c = FreshCursor

(* aggregateRange: the deltas after revision base, as far as retained.     *)
AggregateBase(base, e) == IF base >= EarliestBase(e) THEN base ELSE EarliestBase(e)

Answer(b, requestedRid, r, e, v) ==
    LET c == cursor[b]
        plan == SyncPlan(c, requestedRid, r, e)
        fromCache == InitialCache /\ IsFresh(c, requestedRid) /\ cacheRev = r
    IN  [full |-> plan.full,
         rid  |-> plan.rid,
         base |-> IF plan.full THEN 0 ELSE v - (r - AggregateBase(plan.base, e)),
         ver  |-> IF fromCache THEN cacheVer ELSE v,
         idx  |-> sent[b] + 1]

MaindataAction(b, requestedRid, r, e, v) ==
    /\ sent[b] < MaxSent
    /\ InRidWindow(b, sent[b] + 1)
    /\ Refresh(r, e, v)
    /\ served' = TRUE
    /\ UNCHANGED restored
    /\ IF InitialCache /\ IsFresh(cursor[b], requestedRid)
       THEN /\ cacheRev' = r
            /\ cacheVer' = IF cacheRev = r THEN cacheVer ELSE v
       ELSE UNCHANGED <<cacheRev, cacheVer>>
    /\ live' = live \union {b}
    /\ cursor' = [cursor EXCEPT ![b] = CursorAfter(@, requestedRid, r)]
    /\ sent' = [sent EXCEPT ![b] = @ + 1]
    /\ accepted' = [accepted EXCEPT ![b] =
                       IF Acknowledge(cursor[b], requestedRid) = cursor[b]
                       THEN @ ELSE sent[b]]

(* The server handles the request tab t is waiting for.                    *)
HandleRequest(t, r, e, v) ==
    LET b == BrowserOf[t]
    IN  /\ tab[t].phase = "asked"
        /\ MaindataAction(b, tab[t].rid, r, e, v)
        /\ reply' = [reply EXCEPT ![t] = Answer(b, tab[t].rid, r, e, v)]
        /\ tab' = [tab EXCEPT ![t].phase = "answered"]
        /\ UNCHANGED orphans

(* The server handles a request nobody waits for; a copy may remain.       *)
HandleOrphan(o, r, e, v) ==
    /\ o \in orphans
    /\ MaindataAction(o.browser, o.rid, r, e, v)
    /\ orphans' \in {orphans, orphans \ {o}}
    /\ UNCHANGED tabVars

(* Another request of scope sync, torrentPeers, comes first: it creates    *)
(* the SyncController of the web session and leaves the maindata alone.    *)
TorrentPeers(b) ==
    /\ b \notin live
    /\ live' = live \union {b}
    /\ UNCHANGED <<storeVars, cursor, sent, accepted, tabVars, orphans>>

(* The WebSession of browser b expires or logs out: its SyncController is  *)
(* destroyed with its cursor (releaseSyncSession).  Unless                 *)
(* TabsOutliveSessions, the tabs of b have been closed or reloaded before; *)
(* otherwise what they hold is no response of a present controller (their  *)
(* index becomes 0).                                                       *)
EndWebSession(b) ==
    /\ b \in live
    /\ TabsOutliveSessions
       \/ \A t \in TabsOf(b) : tab[t].rid = 0 /\ tab[t].phase = "idle"
    /\ live' = live \ {b}
    /\ cursor' = [cursor EXCEPT ![b] = FreshCursor]
    /\ sent' = [sent EXCEPT ![b] = 0]
    /\ accepted' = [accepted EXCEPT ![b] = 0]
    /\ IF LastSessionGone
       THEN ReleaseSharedState
       ELSE UNCHANGED snapshotVars
    /\ UNCHANGED restored
    /\ tab' = [t \in Tab |-> IF t \in TabsOf(b) THEN [tab[t] EXCEPT !.idx = 0] ELSE tab[t]]
    /\ reply' = [t \in Tab |-> IF t \in TabsOf(b) THEN [reply[t] EXCEPT !.idx = 0] ELSE reply[t]]
    /\ UNCHANGED orphans

-----------------------------------------------------------------------------
(* The tabs (syncMainData in client.js).                                   *)

Poll(t) ==
    /\ tab[t].phase = "idle"
    /\ tab' = [tab EXCEPT ![t].phase = "asked"]
    /\ UNCHANGED <<storeVars, sessionVars, reply, orphans>>

(* onSuccess: a full update replaces what the tab shows, an incremental    *)
(* one is applied to it; the response's rid is quoted by the next request. *)
Deliver(t) ==
    LET fits == \/ reply[t].full
                \/ reply[t].base <= tab[t].ver /\ tab[t].ver <= reply[t].ver
    IN  /\ tab[t].phase = "answered"
        /\ tab' = [tab EXCEPT ![t] =
                      [rid |-> reply[t].rid, phase |-> "idle",
                       ver |-> IF fits THEN reply[t].ver ELSE Garbled,
                       idx |-> reply[t].idx]]
        /\ reply' = [reply EXCEPT ![t] = NoReply]
        /\ UNCHANGED <<storeVars, sessionVars, orphans>>

(* The request of tab t leaves its tab: it is lost, or still on its way.   *)
Abandon(t) ==
    \/ UNCHANGED orphans
    \/ /\ tab[t].phase = "asked"
       /\ Cardinality(orphans) < MaxOrphans
       /\ orphans' = orphans \union {[browser |-> BrowserOf[t], rid |-> tab[t].rid]}

(* onFailure: the tab gives up the request and will poll again.            *)
Fail(t) ==
    /\ tab[t].phase # "idle"
    /\ Abandon(t)
    /\ tab' = [tab EXCEPT ![t].phase = "idle"]
    /\ reply' = [reply EXCEPT ![t] = NoReply]
    /\ UNCHANGED <<storeVars, sessionVars>>

(* The page is loaded again: the script starts over with rid 0.            *)
Reload(t) ==
    /\ tab[t] # BlankPage
    /\ Abandon(t)
    /\ tab' = [tab EXCEPT ![t] = BlankPage]
    /\ reply' = [reply EXCEPT ![t] = NoReply]
    /\ UNCHANGED <<storeVars, sessionVars>>

-----------------------------------------------------------------------------
Next ==
    \/ \E t \in Tab : Poll(t)
    \/ \E t \in Tab : Deliver(t)
    \/ \E t \in Tab : Fail(t)
    \/ \E t \in Tab : Reload(t)
    \/ \E b \in Browser : TorrentPeers(b)
    \/ \E b \in Browser : EndWebSession(b)
    \/ \E r \in {revision, revision + 1}, e \in 1..(revision + 2),
          v \in {version, version + 1} : SessionRestored(r, e, v)
    \/ \E t \in Tab, r \in {revision, revision + 1},
          e \in 1..(revision + 2), v \in {version, version + 1} :
            HandleRequest(t, r, e, v)
    \/ \E o \in orphans, r \in {revision, revision + 1},
          e \in 1..(revision + 2), v \in {version, version + 1} :
            HandleOrphan(o, r, e, v)

Spec == Init /\ [][Next]_vars

-----------------------------------------------------------------------------
(* Type invariant.                                                         *)
TypeOK ==
    /\ revision \in Nat
    /\ earliest \in Nat
    /\ served \in BOOLEAN
    /\ cacheRev \in Nat
    /\ cacheVer \in Nat
    /\ version \in Nat
    /\ restored \in BOOLEAN
    /\ live \subseteq Browser
    /\ cursor \in [Browser -> Cursor]
    /\ sent \in [Browser -> Nat]
    /\ accepted \in [Browser -> Nat]
    /\ tab \in [Tab -> [rid : Nat, phase : Phase, ver : Nat \union {Garbled}, idx : Nat]]
    /\ reply \in [Tab -> Reply]
    /\ orphans \subseteq Orphan

(* Safety, the promise of the whole protocol: the deltas of an incremental *)
(* response on its way to a tab start at or before what that tab shows and *)
(* end at or after it, however many tabs share the cursor, whatever was    *)
(* lost, handled late or evicted (planMaindataSync, aggregateRange).       *)
IncrementFitsTab ==
    \A t \in Tab :
        (tab[t].phase = "answered" /\ ~reply[t].full)
            => /\ reply[t].base <= tab[t].ver
               /\ tab[t].ver <= reply[t].ver

(* Safety, what the test unexpectedRidFallsBackToFullUpdate says: a tab    *)
(* whose rid is not one this SyncController has given to it is sent a full *)
(* update.  It fails when a tab outlives its web session: the rids of the  *)
(* next controller start at 1 again (MaindataSessionCursor), and a rid     *)
(* left from the previous one can equal lastSentRid.                       *)
UnexpectedRidFallsBack ==
    \A t \in Tab :
        (tab[t].phase = "answered" /\ ~reply[t].full) => tab[t].idx > 0

(* Safety: every response is up to date when it is built, the cached       *)
(* initial one included: its content is the snapshot's at the revision the *)
(* cursor records as sent (buildInitialFullUpdateResponse caches by        *)
(* revision, and absorbDeltaIntoSnapshot changes the snapshot without      *)
(* changing the revision).                                                 *)
ReplyIsRecordedRevision ==
    \A t \in Tab :
        LET b == BrowserOf[t]
        IN  (tab[t].phase = "answered" /\ reply[t].idx = sent[b])
                => reply[t].ver = VersionOf(cursor[b].lastSentRevision)

(* Safety: what a cursor remembers is never ahead of the store: when the   *)
(* revisions of the store start over (releaseSharedState) no cursor of the *)
(* previous lifetime is left to match them.                                *)
CursorsWithinStore ==
    \A b \in live :
        /\ cursor[b].acceptedRevision <= cursor[b].lastSentRevision
        /\ cursor[b].lastSentRevision <= revision

(* Action property: as long as a tab is not reloaded it never goes back to *)
(* an older content of the snapshot.                                       *)
TabsNeverGoBack ==
    [][\A t \in Tab : tab'[t].rid # 0 => tab'[t].ver >= tab[t].ver]_vars

-----------------------------------------------------------------------------
(* The invariant behind these properties, for tabs that do not outlive     *)
(* their web sessions; it is inductive together with TypeOK.               *)

(* The store: a response has been served from a snapshot, and the cached   *)
(* one was built from the version its revision still stands for.           *)
StoreConsistent ==
    /\ revision <= version
    /\ served => revision > 0
    /\ cacheRev <= revision
    /\ cacheRev > 0 => served /\ cacheVer = VersionOf(cacheRev)

(* The cursors: rids count the responses, the acknowledged response is one *)
(* of those sent, and only a live controller over a served store has any.  *)
CursorConsistent(b) ==
    /\ accepted[b] <= sent[b]
    /\ cursor[b].lastSentRid = RidOf(sent[b])
    /\ cursor[b].acceptedRid = RidOf(accepted[b])
    /\ cursor[b].acceptedRevision <= cursor[b].lastSentRevision
    /\ cursor[b].lastSentRevision <= revision
    /\ sent[b] = 0 => cursor[b].lastSentRevision = 0
    /\ sent[b] > 0 => served /\ b \in live

(* A version a tab of b shows, or is about to show, with response index i: *)
(* it is at least the acknowledged one's when the response is at least as  *)
(* late, and it is the last one's when it came with the last response.     *)
Holds(b, i, v) ==
    /\ i <= sent[b]
    /\ v <= version
    /\ sent[b] - i < RidModulus
    /\ (accepted[b] > 0 /\ i >= accepted[b])
          => v >= VersionOf(cursor[b].acceptedRevision)
    /\ i = sent[b] => v = VersionOf(cursor[b].lastSentRevision)

TabConsistent(t) ==
    LET b == BrowserOf[t]
    IN  /\ tab[t].rid = RidOf(tab[t].idx)
        /\ tab[t].ver # Garbled
        /\ IF tab[t].idx = 0 THEN tab[t].ver = 0 ELSE Holds(b, tab[t].idx, tab[t].ver)
        /\ tab[t].phase = "answered" =>
              /\ reply[t].rid = RidOf(reply[t].idx)
              /\ reply[t].idx > 0
              /\ Holds(b, reply[t].idx, reply[t].ver)
              /\ tab[t].ver <= reply[t].ver
              /\ ~reply[t].full => reply[t].base <= tab[t].ver

ProtocolConsistent ==
    /\ StoreConsistent
    /\ \A b \in Browser : CursorConsistent(b)
    /\ \A t \in Tab : TabConsistent(t)
=============================================================================
