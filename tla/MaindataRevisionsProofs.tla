---------------------- MODULE MaindataRevisionsProofs ----------------------
(***************************************************************************)
(* Proofs about the revision protocol, for any browsers, tabs, assignment  *)
(* of tabs to browsers, retention, modulus of the response ids and bounds. *)
(***************************************************************************)
EXTENDS MaindataRevisions, TLAPS

-----------------------------------------------------------------------------
(* Division with remainder, one fact at a time for the SMT solver.         *)
LEMMA Division ==
    ASSUME NEW M \in Nat \ {0}, NEW i \in Nat
    PROVE  /\ i = M * (i \div M) + (i % M)
           /\ i \div M \in Int
           /\ i % M \in 0..(M - 1)
BY SMT

LEMMA MultipleAtLeast ==
    ASSUME NEW M \in Nat \ {0}, NEW k \in Int, k >= 1
    PROVE  M * k >= M
BY SMT

LEMMA MultipleDifference ==
    ASSUME NEW M \in Nat \ {0}, NEW a \in Int, NEW b \in Int
    PROVE  M * b - M * a = M * (b - a)
BY SMT

(* Two multiples of M less than M apart are equal.                         *)
LEMMA MultiplesApart ==
    ASSUME NEW M \in Nat \ {0}, NEW a \in Int, NEW b \in Int,
           M * b - M * a < M, M * a - M * b < M
    PROVE  a = b
<1>1. ~(b - a >= 1)
  BY MultipleDifference, MultipleAtLeast
<1>2. ~(a - b >= 1)
  BY MultipleDifference, MultipleAtLeast
<1> QED BY <1>1, <1>2

(* A remainder names one number among M successive ones.                   *)
LEMMA RemainderUnique ==
    ASSUME NEW M \in Nat \ {0}, NEW i \in Nat, NEW n \in Nat,
           i <= n, n - i < M, i % M = n % M
    PROVE  i = n
<1> DEFINE a == i \div M
           b == n \div M
<1>1. i = M * a + (i % M) /\ a \in Int /\ i % M \in Int
  BY Division
<1>2. n = M * b + (n % M) /\ b \in Int
  BY Division
<1> HIDE DEF a, b
<1>3. M * a \in Int /\ M * b \in Int
  BY <1>1, <1>2
<1>4. n - i = M * b - M * a
  BY <1>1, <1>2, <1>3
<1>5. a = b
  BY <1>1, <1>2, <1>3, <1>4, MultiplesApart
<1> QED BY <1>1, <1>2, <1>3, <1>5

(* The remainder of a number given as quotient and remainder.              *)
LEMMA RemainderOf ==
    ASSUME NEW M \in Nat \ {0}, NEW n \in Nat, NEW q \in Int, NEW r \in 0..(M - 1),
           n = M * q + r
    PROVE  n % M = r
<1> DEFINE b == n \div M
<1>1. n = M * b + (n % M) /\ b \in Int /\ n % M \in 0..(M - 1)
  BY Division
<1> HIDE DEF b
<1>2. M * q \in Int /\ M * b \in Int
  BY <1>1
<1>3. b = q
  BY <1>1, <1>2, MultiplesApart
<1> QED BY <1>1, <1>2, <1>3

LEMMA RemainderSuccessor ==
    ASSUME NEW M \in Nat \ {0}, NEW n \in Nat
    PROVE  ((n % M) + 1) % M = (n + 1) % M
<1> DEFINE q == n \div M
           r == n % M
<1>1. n = M * q + r /\ q \in Int /\ r \in 0..(M - 1)
  BY Division
<1> HIDE DEF q, r
<1>2. M * q \in Int
  BY <1>1
<1>3. CASE r + 1 < M
  <2>1. (n + 1) % M = r + 1
    BY <1>1, <1>2, <1>3, RemainderOf, n + 1 = M * q + (r + 1)
  <2>2. (r + 1) % M = r + 1
    BY <1>1, <1>3, SMT
  <2> QED BY <2>1, <2>2 DEF r
<1>4. CASE r + 1 = M
  <2>1. M * q + M = M * (q + 1)
    BY <1>1, SMT
  <2>2. n + 1 = M * (q + 1) + 0
    BY <1>1, <1>2, <1>4, <2>1
  <2>3. (n + 1) % M = 0
    BY <1>1, <2>2, RemainderOf
  <2>4. M = M * 1 + 0
    OBVIOUS
  <2>5. M % M = 0
    BY <2>4, RemainderOf
  <2> QED BY <1>4, <2>3, <2>5 DEF r
<1> QED BY <1>1, <1>3, <1>4

-----------------------------------------------------------------------------
LEMMA RidOfType ==
    ASSUME NEW n \in Nat
    PROVE  RidOf(n) \in Nat /\ (RidOf(n) = 0 <=> n = 0)
<1>1. CASE n = 0
  BY <1>1 DEF RidOf
<1>2. CASE n # 0
  BY <1>2, Division, RidModulusAssumption DEF RidOf
<1> QED BY <1>1, <1>2

(* nextRid() numbers the responses 1, 2, ..., RidModulus, 1, 2, ...        *)
LEMMA RidOfNext ==
    ASSUME NEW n \in Nat
    PROVE  NextRid(RidOf(n)) = RidOf(n + 1)
<1>1. CASE n = 0
  BY <1>1 DEF RidOf, NextRid
<1>2. CASE n # 0
  <2>1. PICK m \in Nat : n = m + 1
    BY <1>2, n - 1 \in Nat, n = (n - 1) + 1
  <2>2. ((m % RidModulus) + 1) % RidModulus = (m + 1) % RidModulus
    BY RemainderSuccessor, RidModulusAssumption
  <2>3. RidOf(n) = (m % RidModulus) + 1
    BY <2>1, m + 1 # 0, (m + 1) - 1 = m DEF RidOf
  <2>4. RidOf(n + 1) = (n % RidModulus) + 1
    BY n + 1 # 0, (n + 1) - 1 = n DEF RidOf
  <2> QED BY <2>1, <2>2, <2>3, <2>4 DEF NextRid
<1> QED BY <1>1, <1>2

(* A rid names one response among RidModulus successive ones.              *)
LEMMA RidOfUnique ==
    ASSUME NEW i \in Nat, NEW n \in Nat, i <= n, n - i < RidModulus,
           RidOf(i) = RidOf(n)
    PROVE  i = n
<1>1. CASE i = 0 \/ n = 0
  BY <1>1, RidOfType
<1>2. CASE i # 0 /\ n # 0
  <2> DEFINE j == i - 1
             m == n - 1
  <2>1. j \in Nat /\ m \in Nat /\ j <= m /\ m - j < RidModulus
    BY <1>2, RidModulusAssumption
  <2>2. RidOf(i) = (j % RidModulus) + 1 /\ RidOf(n) = (m % RidModulus) + 1
    BY <1>2 DEF RidOf
  <2> HIDE DEF j, m
  <2>3. j % RidModulus \in Int /\ m % RidModulus \in Int
    BY <2>1, Division, RidModulusAssumption
  <2>4. j % RidModulus = m % RidModulus
    <3> DEFINE u == j % RidModulus
               w == m % RidModulus
    <3>1. u \in Int /\ w \in Int /\ u + 1 = w + 1
      BY <2>2, <2>3, Zenon
    <3> HIDE DEF u, w
    <3>2. u = w
      BY <3>1
    <3> QED BY <3>2 DEF u, w
  <2>5. j = m
    BY <2>1, <2>4, RemainderUnique, RidModulusAssumption
  <2> QED BY <2>5 DEF j, m
<1> QED BY <1>1, <1>2

-----------------------------------------------------------------------------
(* The cursor operators.                                                   *)
LEMMA CursorTypes ==
    ASSUME NEW c \in Cursor, NEW rid \in Nat, NEW r \in Nat
    PROVE  /\ NextRid(c.lastSentRid) \in Nat
           /\ Acknowledge(c, rid) \in Cursor
           /\ CursorAfter(c, rid, r) \in Cursor
<1>1. NextRid(c.lastSentRid) \in Nat
  BY Division, RidModulusAssumption DEF NextRid, Cursor
<1>2. Acknowledge(c, rid) \in Cursor
  BY DEF Acknowledge, Cursor
<1>3. CursorAfter(c, rid, r) \in Cursor
  BY <1>1, <1>2 DEF CursorAfter, Cursor
<1> QED BY <1>1, <1>2, <1>3

LEMMA FreshCursorType == FreshCursor \in Cursor
BY DEF FreshCursor, Cursor

-----------------------------------------------------------------------------
(* Type correctness.                                                       *)
LEMMA RefreshTypes ==
    ASSUME TypeOK,
           NEW r \in {revision, revision + 1}, NEW e \in 1..(revision + 2),
           NEW v \in {version, version + 1}
    PROVE  r \in Nat /\ e \in Nat /\ v \in Nat
BY DEF TypeOK

LEMMA AnswerType ==
    ASSUME TypeOK, NEW b \in Browser, NEW rid \in Nat,
           NEW r \in Nat, NEW e \in Nat, NEW v \in Nat
    PROVE  Answer(b, rid, r, e, v) \in Reply
<1>1. cursor[b] \in Cursor /\ cacheVer \in Nat /\ sent[b] \in Nat
  BY DEF TypeOK
<1>2. NextRid(cursor[b].lastSentRid) \in Nat
  BY <1>1, CursorTypes
<1>3. SyncPlan(cursor[b], rid, r, e).base \in Nat
  <2>1. Acknowledge(cursor[b], rid).acceptedRevision \in Nat
    BY <1>1, CursorTypes DEF Cursor
  <2> QED BY <2>1 DEF SyncPlan
<1>4. SyncPlan(cursor[b], rid, r, e).full \in BOOLEAN
  BY DEF SyncPlan
<1>5. SyncPlan(cursor[b], rid, r, e).rid \in Nat
  BY <1>2 DEF SyncPlan
<1>6. AggregateBase(SyncPlan(cursor[b], rid, r, e).base, e) \in Int
  BY <1>3 DEF AggregateBase, EarliestBase
<1> HIDE DEF SyncPlan
<1> QED BY <1>1, <1>4, <1>5, <1>6 DEF Answer, Reply

LEMMA MaindataActionTypes ==
    ASSUME TypeOK, NEW b \in Browser, NEW rid \in Nat,
           NEW r \in Nat, NEW e \in Nat, NEW v \in Nat,
           MaindataAction(b, rid, r, e, v)
    PROVE  /\ revision' \in Nat /\ earliest' \in Nat /\ served' \in BOOLEAN
           /\ cacheRev' \in Nat /\ cacheVer' \in Nat /\ version' \in Nat
           /\ restored' \in BOOLEAN /\ live' \subseteq Browser
           /\ cursor' \in [Browser -> Cursor]
           /\ sent' \in [Browser -> Nat]
           /\ accepted' \in [Browser -> Nat]
<1>1. /\ revision' \in Nat /\ earliest' \in Nat /\ served' \in BOOLEAN
      /\ version' \in Nat /\ restored' \in BOOLEAN /\ live' \subseteq Browser
  BY DEF MaindataAction, Refresh, TypeOK
<1>2. cacheRev' \in Nat /\ cacheVer' \in Nat
  BY DEF MaindataAction, TypeOK
<1>3. cursor' \in [Browser -> Cursor]
  <2>1. cursor \in [Browser -> Cursor]
    BY DEF TypeOK
  <2>2. CursorAfter(cursor[b], rid, r) \in Cursor
    BY <2>1, CursorTypes
  <2>3. cursor' = [cursor EXCEPT ![b] = CursorAfter(cursor[b], rid, r)]
    BY DEF MaindataAction
  <2> QED BY <2>1, <2>2, <2>3
<1>4. sent' \in [Browser -> Nat]
  BY DEF MaindataAction, TypeOK
<1>5. accepted' \in [Browser -> Nat]
  BY DEF MaindataAction, TypeOK
<1> QED BY <1>1, <1>2, <1>3, <1>4, <1>5

LEMMA TypeInit == Init => TypeOK
<1> SUFFICES ASSUME Init PROVE TypeOK
  OBVIOUS
<1>1. cursor \in [Browser -> Cursor]
  BY FreshCursorType DEF Init
<1>2. tab \in [Tab -> [rid : Nat, phase : Phase, ver : Nat \union {Garbled}, idx : Nat]]
  BY DEF Init, BlankPage, Phase
<1>3. reply \in [Tab -> Reply]
  BY DEF Init, NoReply, Reply
<1> QED BY <1>1, <1>2, <1>3 DEF Init, TypeOK

LEMMA AbandonType ==
    ASSUME TypeOK, NEW t \in Tab, Abandon(t)
    PROVE  orphans' \subseteq Orphan
<1>1. BrowserOf[t] \in Browser /\ tab[t].rid \in Nat
  BY ProtocolAssumption DEF TypeOK
<1> QED BY <1>1 DEF Abandon, Orphan, TypeOK

LEMMA TypeStep == TypeOK /\ [Next]_vars => TypeOK'
<1> SUFFICES ASSUME TypeOK, [Next]_vars PROVE TypeOK'
  OBVIOUS
<1> DEFINE Page == [rid : Nat, phase : Phase, ver : Nat \union {Garbled}, idx : Nat]
<1>0. tab \in [Tab -> Page] /\ reply \in [Tab -> Reply] /\ BrowserOf \in [Tab -> Browser]
  BY ProtocolAssumption DEF TypeOK
<1>1. ASSUME NEW t \in Tab, Poll(t) PROVE TypeOK'
  <2>1. tab' \in [Tab -> Page]
    BY <1>0, <1>1 DEF Poll, Phase
  <2> QED BY <1>1, <2>1 DEF Poll, TypeOK, storeVars, snapshotVars, sessionVars
<1>2. ASSUME NEW t \in Tab, Deliver(t) PROVE TypeOK'
  <2>1. tab' \in [Tab -> Page]
    BY <1>0, <1>2 DEF Deliver, Phase, Reply
  <2>2. reply' \in [Tab -> Reply]
    BY <1>0, <1>2 DEF Deliver, NoReply, Reply
  <2> QED BY <1>2, <2>1, <2>2 DEF Deliver, TypeOK, storeVars, snapshotVars, sessionVars
<1>3. ASSUME NEW t \in Tab, Fail(t) PROVE TypeOK'
  <2>1. tab' \in [Tab -> Page]
    BY <1>0, <1>3 DEF Fail, Phase
  <2>2. reply' \in [Tab -> Reply]
    BY <1>0, <1>3 DEF Fail, NoReply, Reply
  <2>3. orphans' \subseteq Orphan
    BY <1>3, AbandonType DEF Fail
  <2> QED BY <1>3, <2>1, <2>2, <2>3 DEF Fail, TypeOK, storeVars, snapshotVars, sessionVars
<1>4. ASSUME NEW t \in Tab, Reload(t) PROVE TypeOK'
  <2>1. tab' \in [Tab -> Page]
    BY <1>0, <1>4 DEF Reload, BlankPage, Phase
  <2>2. reply' \in [Tab -> Reply]
    BY <1>0, <1>4 DEF Reload, NoReply, Reply
  <2>3. orphans' \subseteq Orphan
    BY <1>4, AbandonType DEF Reload
  <2> QED BY <1>4, <2>1, <2>2, <2>3 DEF Reload, TypeOK, storeVars, snapshotVars, sessionVars
<1>5. ASSUME NEW b \in Browser, TorrentPeers(b) PROVE TypeOK'
  <2>1. /\ UNCHANGED <<revision, earliest, served, cacheRev, cacheVer, version>>
        /\ UNCHANGED <<restored, cursor, sent, accepted, tab, reply, orphans>>
    BY <1>5 DEF TorrentPeers, storeVars, snapshotVars, tabVars
  <2>2. live' \subseteq Browser
    BY <1>5 DEF TorrentPeers, TypeOK
  <2> QED BY <2>1, <2>2 DEF TypeOK
<1>6. ASSUME NEW b \in Browser, EndWebSession(b) PROVE TypeOK'
  <2>1. tab' \in [Tab -> Page]
    BY <1>0, <1>6 DEF EndWebSession
  <2>2. reply' \in [Tab -> Reply]
    BY <1>0, <1>6 DEF EndWebSession, Reply
  <2>3. cursor' \in [Browser -> Cursor]
    BY <1>6, FreshCursorType DEF EndWebSession, TypeOK
  <2>4. sent' \in [Browser -> Nat] /\ accepted' \in [Browser -> Nat]
    BY <1>6 DEF EndWebSession, TypeOK
  <2>5. /\ revision' \in Nat /\ earliest' \in Nat /\ served' \in BOOLEAN
        /\ cacheRev' \in Nat /\ cacheVer' \in Nat /\ version' \in Nat
    <3>1. ReleaseSharedState \/ UNCHANGED snapshotVars
      BY <1>6 DEF EndWebSession
    <3>2. CASE ReleaseSharedState
      BY <3>2 DEF ReleaseSharedState, TypeOK
    <3>3. CASE UNCHANGED snapshotVars
      BY <3>3 DEF snapshotVars, TypeOK
    <3> QED BY <3>1, <3>2, <3>3
  <2>6. live' \subseteq Browser /\ restored' \in BOOLEAN /\ orphans' \subseteq Orphan
    BY <1>6 DEF EndWebSession, TypeOK
  <2> QED BY <2>1, <2>2, <2>3, <2>4, <2>5, <2>6 DEF TypeOK
<1>7. ASSUME NEW r \in {revision, revision + 1}, NEW e \in 1..(revision + 2),
             NEW v \in {version, version + 1}, SessionRestored(r, e, v)
      PROVE  TypeOK'
  <2>1. r \in Nat /\ e \in Nat /\ v \in Nat
    BY RefreshTypes
  <2> QED BY <1>7, <2>1 DEF SessionRestored, Refresh, TypeOK, sessionVars, tabVars
<1>8. ASSUME NEW t \in Tab,
             NEW r \in {revision, revision + 1}, NEW e \in 1..(revision + 2),
             NEW v \in {version, version + 1}, HandleRequest(t, r, e, v)
      PROVE  TypeOK'
  <2>1. r \in Nat /\ e \in Nat /\ v \in Nat
    BY RefreshTypes
  <2>2. BrowserOf[t] \in Browser /\ tab[t].rid \in Nat
    BY <1>0
  <2>3. MaindataAction(BrowserOf[t], tab[t].rid, r, e, v)
    BY <1>8 DEF HandleRequest
  <2>4. Answer(BrowserOf[t], tab[t].rid, r, e, v) \in Reply
    BY <2>1, <2>2, AnswerType
  <2>5. reply' \in [Tab -> Reply]
    BY <1>0, <1>8, <2>4 DEF HandleRequest
  <2>6. tab' \in [Tab -> Page]
    BY <1>0, <1>8 DEF HandleRequest, Phase
  <2>7. orphans' \subseteq Orphan
    BY <1>8 DEF HandleRequest, TypeOK
  <2> QED BY <2>1, <2>2, <2>3, <2>5, <2>6, <2>7, MaindataActionTypes DEF TypeOK
<1>9. ASSUME NEW o \in orphans,
             NEW r \in {revision, revision + 1}, NEW e \in 1..(revision + 2),
             NEW v \in {version, version + 1}, HandleOrphan(o, r, e, v)
      PROVE  TypeOK'
  <2>1. r \in Nat /\ e \in Nat /\ v \in Nat
    BY RefreshTypes
  <2>2. o.browser \in Browser /\ o.rid \in Nat
    BY DEF TypeOK, Orphan
  <2>3. MaindataAction(o.browser, o.rid, r, e, v)
    BY <1>9 DEF HandleOrphan
  <2>4. orphans' \subseteq Orphan /\ UNCHANGED <<tab, reply>>
    BY <1>9 DEF HandleOrphan, TypeOK, tabVars
  <2> QED BY <1>0, <2>1, <2>2, <2>3, <2>4, MaindataActionTypes DEF TypeOK
<1>10. CASE UNCHANGED vars
  BY <1>10 DEF vars, storeVars, snapshotVars, sessionVars, tabVars, TypeOK
<1> QED BY <1>1, <1>2, <1>3, <1>4, <1>5, <1>6, <1>7, <1>8, <1>9, <1>10 DEF Next

(* Every variable keeps its type: every state and response of the protocol *)
(* is one the code's types can hold, rids and revisions never negative.    *)
THEOREM TypeCorrect == Spec => []TypeOK
BY TypeInit, TypeStep, PTL DEF Spec

-----------------------------------------------------------------------------
(* The invariant.  A refresh never goes back, and once a response has been *)
(* served it moves the version exactly as far as the revision.             *)
LEMMA RefreshMonotone ==
    ASSUME TypeOK, StoreConsistent, NEW r \in Nat, NEW e \in Nat, NEW v \in Nat,
           Refreshed(r, e, v)
    PROVE  /\ r > 0 /\ r <= v
           /\ r >= revision /\ v >= version
           /\ served => v - r = version - revision
BY DEF Refreshed, StoreConsistent, TypeOK

(* The cached response, where it is used, is of the present version.       *)
LEMMA CacheCurrent ==
    ASSUME TypeOK, StoreConsistent, NEW r \in Nat, NEW e \in Nat, NEW v \in Nat,
           Refreshed(r, e, v), cacheRev = r
    PROVE  cacheVer = v
<1>1. r > 0 /\ r >= revision /\ (served => v - r = version - revision)
  BY RefreshMonotone
<1>2. served /\ cacheVer = version - (revision - cacheRev) /\ cacheRev <= revision
  BY <1>1 DEF StoreConsistent, VersionOf
<1> QED BY <1>1, <1>2 DEF TypeOK

LEMMA StoreStep ==
    ASSUME TypeOK, StoreConsistent, NEW b \in Browser, NEW rid \in Nat,
           NEW r \in Nat, NEW e \in Nat, NEW v \in Nat,
           MaindataAction(b, rid, r, e, v)
    PROVE  StoreConsistent'
<1>1. /\ Refreshed(r, e, v) /\ revision' = r /\ version' = v /\ served' = TRUE
  BY DEF MaindataAction, Refresh
<1>2. /\ r > 0 /\ r <= v /\ r >= revision
      /\ served => v - r = version - revision
  BY <1>1, RefreshMonotone
<1>3. CASE cacheRev' = r /\ cacheVer' = IF cacheRev = r THEN cacheVer ELSE v
  <2>1. cacheVer' = v
    BY <1>1, <1>3, CacheCurrent
  <2> QED BY <1>1, <1>2, <1>3, <2>1 DEF StoreConsistent, VersionOf
<1>4. CASE UNCHANGED <<cacheRev, cacheVer>>
  BY <1>1, <1>2, <1>4 DEF StoreConsistent, VersionOf, TypeOK
<1> QED BY <1>3, <1>4 DEF MaindataAction

(* Acknowledging moves the accepted response to the last one, or nothing.  *)
LEMMA AcknowledgeStep ==
    ASSUME TypeOK, NEW b \in Browser, NEW rid \in Nat, CursorConsistent(b),
           NEW a \in Nat,
           a = IF Acknowledge(cursor[b], rid) = cursor[b] THEN accepted[b] ELSE sent[b]
    PROVE  /\ Acknowledge(cursor[b], rid).acceptedRid = RidOf(a)
           /\ Acknowledge(cursor[b], rid).acceptedRevision <= cursor[b].lastSentRevision
           /\ a <= sent[b]
           /\ \/ /\ a = accepted[b]
                 /\ Acknowledge(cursor[b], rid).acceptedRevision = cursor[b].acceptedRevision
              \/ /\ a = sent[b]
                 /\ Acknowledge(cursor[b], rid).acceptedRevision = cursor[b].lastSentRevision
<1>1. cursor[b] \in Cursor /\ sent[b] \in Nat /\ accepted[b] \in Nat
  BY DEF TypeOK
<1>2. CASE Acknowledge(cursor[b], rid) = cursor[b]
  BY <1>1, <1>2 DEF CursorConsistent
<1>3. CASE Acknowledge(cursor[b], rid) # cursor[b]
  <2>1. /\ cursor[b].lastSentRid = rid
        /\ Acknowledge(cursor[b], rid) =
             [cursor[b] EXCEPT !.acceptedRid = rid,
                               !.acceptedRevision = cursor[b].lastSentRevision]
    BY <1>3 DEF Acknowledge
  <2>2. /\ Acknowledge(cursor[b], rid).acceptedRid = rid
        /\ Acknowledge(cursor[b], rid).acceptedRevision = cursor[b].lastSentRevision
    BY <1>1, <2>1 DEF Cursor
  <2>3. a = sent[b] /\ rid = RidOf(sent[b])
    BY <1>3, <2>1 DEF CursorConsistent
  <2>4. cursor[b].lastSentRevision \in Nat
    BY <1>1 DEF Cursor
  <2> QED BY <1>1, <2>2, <2>3, <2>4
<1> QED BY <1>2, <1>3

LEMMA CursorStep ==
    ASSUME TypeOK, StoreConsistent, NEW b \in Browser, NEW rid \in Nat,
           \A d \in Browser : CursorConsistent(d),
           NEW r \in Nat, NEW e \in Nat, NEW v \in Nat,
           MaindataAction(b, rid, r, e, v)
    PROVE  \A d \in Browser : CursorConsistent(d)'
<1>1. /\ Refreshed(r, e, v) /\ revision' = r /\ version' = v /\ served' = TRUE
      /\ live' = live \union {b}
  BY DEF MaindataAction, Refresh
<1>2. r >= revision
  BY <1>1, RefreshMonotone
<1>3. /\ cursor' = [cursor EXCEPT ![b] = CursorAfter(cursor[b], rid, r)]
      /\ sent' = [sent EXCEPT ![b] = sent[b] + 1]
      /\ accepted' = [accepted EXCEPT ![b] =
             IF Acknowledge(cursor[b], rid) = cursor[b] THEN accepted[b] ELSE sent[b]]
  BY DEF MaindataAction
<1>4. TAKE d \in Browser
<1>5. cursor[d] \in Cursor /\ sent[d] \in Nat /\ accepted[d] \in Nat /\ revision \in Nat
  BY DEF TypeOK
<1>6. CASE d # b
  <2>1. cursor'[d] = cursor[d] /\ sent'[d] = sent[d] /\ accepted'[d] = accepted[d]
    BY <1>3, <1>6 DEF TypeOK
  <2>2. cursor[d].lastSentRevision \in Nat
    BY <1>5 DEF Cursor
  <2> QED BY <1>1, <1>2, <1>5, <2>1, <2>2 DEF CursorConsistent
<1>7. CASE d = b
  <2> DEFINE a == IF Acknowledge(cursor[b], rid) = cursor[b] THEN accepted[b] ELSE sent[b]
             c == Acknowledge(cursor[b], rid)
  <2>1. cursor'[b] = CursorAfter(cursor[b], rid, r) /\ sent'[b] = sent[b] + 1 /\ accepted'[b] = a
    BY <1>3 DEF TypeOK
  <2>2. a \in Nat /\ c \in Cursor
    BY <1>5, <1>7, CursorTypes
  <2>3. c.acceptedRid = RidOf(a) /\ c.acceptedRevision <= cursor[b].lastSentRevision /\ a <= sent[b]
    BY <2>2, <1>7, AcknowledgeStep
  <2>4. /\ cursor'[b].lastSentRid = NextRid(cursor[b].lastSentRid)
        /\ cursor'[b].lastSentRevision = r
        /\ cursor'[b].acceptedRid = c.acceptedRid
        /\ cursor'[b].acceptedRevision = c.acceptedRevision
    BY <2>1, <2>2 DEF CursorAfter, Cursor
  <2>5. NextRid(cursor[b].lastSentRid) = RidOf(sent[b] + 1)
    BY <1>5, <1>7, RidOfNext DEF CursorConsistent
  <2>6. cursor[b].lastSentRevision <= revision /\ cursor[b].lastSentRevision \in Nat
    BY <1>5, <1>7 DEF CursorConsistent, Cursor
  <2>7. c.acceptedRevision \in Nat
    BY <2>2 DEF Cursor
  <2> HIDE DEF a, c
  <2> QED BY <1>1, <1>2, <1>5, <1>7, <2>1, <2>2, <2>3, <2>4, <2>5, <2>6, <2>7
      DEF CursorConsistent
<1> QED BY <1>6, <1>7

(* What a tab holds stays what it was: the version of a revision does not  *)
(* change once a response has been served.                                 *)
LEMMA HoldsStep ==
    ASSUME TypeOK, StoreConsistent, NEW b \in Browser, NEW rid \in Nat,
           \A d \in Browser : CursorConsistent(d),
           NEW r \in Nat, NEW e \in Nat, NEW v \in Nat,
           MaindataAction(b, rid, r, e, v),
           NEW d \in Browser, NEW i \in Nat \ {0}, NEW x \in Nat,
           Holds(d, i, x), d = b => sent[b] + 1 - i < RidModulus
    PROVE  Holds(d, i, x)'
<1>1. /\ Refreshed(r, e, v) /\ revision' = r /\ version' = v
  BY DEF MaindataAction, Refresh
<1>2. r >= revision /\ v >= version /\ (served => v - r = version - revision)
  BY <1>1, RefreshMonotone
<1>3. /\ cursor' = [cursor EXCEPT ![b] = CursorAfter(cursor[b], rid, r)]
      /\ sent' = [sent EXCEPT ![b] = sent[b] + 1]
      /\ accepted' = [accepted EXCEPT ![b] =
             IF Acknowledge(cursor[b], rid) = cursor[b] THEN accepted[b] ELSE sent[b]]
  BY DEF MaindataAction
<1>4. /\ cursor[d] \in Cursor /\ sent[d] \in Nat /\ accepted[d] \in Nat
      /\ revision \in Nat /\ version \in Nat
  BY DEF TypeOK
<1>5. served
  BY <1>4 DEF Holds, CursorConsistent
<1>6. \A s \in Nat : v - (r - s) = version - (revision - s)
  BY <1>2, <1>4, <1>5
<1>7. cursor[d].lastSentRevision \in Nat /\ cursor[d].acceptedRevision \in Nat
  BY <1>4 DEF Cursor
<1>8. CASE d # b
  <2>1. cursor'[d] = cursor[d] /\ sent'[d] = sent[d] /\ accepted'[d] = accepted[d]
    BY <1>3, <1>8 DEF TypeOK
  <2>2. /\ VersionOf(cursor[d].acceptedRevision) = v - (r - cursor[d].acceptedRevision)
        /\ VersionOf(cursor[d].lastSentRevision) = v - (r - cursor[d].lastSentRevision)
    BY <1>6, <1>7 DEF VersionOf
  <2>3. /\ VersionOf(cursor[d].acceptedRevision)' = VersionOf(cursor[d].acceptedRevision)
        /\ VersionOf(cursor[d].lastSentRevision)' = VersionOf(cursor[d].lastSentRevision)
    BY <1>1, <2>1, <2>2 DEF VersionOf
  <2>4. x <= version'
    BY <1>1, <1>2, <1>4 DEF Holds
  <2> QED BY <2>1, <2>3, <2>4 DEF Holds
<1>9. CASE d = b
  <2> DEFINE a == IF Acknowledge(cursor[b], rid) = cursor[b] THEN accepted[b] ELSE sent[b]
             c == Acknowledge(cursor[b], rid)
  <2>1. cursor'[b] = CursorAfter(cursor[b], rid, r) /\ sent'[b] = sent[b] + 1 /\ accepted'[b] = a
    BY <1>3 DEF TypeOK
  <2>2. a \in Nat /\ c \in Cursor
    BY <1>4, <1>9, CursorTypes
  <2>3. \/ a = accepted[b] /\ c.acceptedRevision = cursor[b].acceptedRevision
        \/ a = sent[b] /\ c.acceptedRevision = cursor[b].lastSentRevision
    BY <2>2, <1>9, AcknowledgeStep
  <2>4. cursor'[b].acceptedRevision = c.acceptedRevision
    BY <2>1, <2>2 DEF CursorAfter, Cursor
  <2> HIDE DEF a, c
  <2>5. sent'[b] - i < RidModulus /\ i <= sent[b] /\ x <= version'
    BY <1>1, <1>2, <1>4, <1>9, <2>1 DEF Holds
  <2>6. (a > 0 /\ i >= a) => x >= version - (revision - c.acceptedRevision)
    BY <1>4, <1>7, <1>9, <2>2, <2>3, <2>5 DEF Holds, VersionOf
  <2>7. c.acceptedRevision \in Nat
    BY <2>2 DEF Cursor
  <2>8. (a > 0 /\ i >= a) => x >= v - (r - c.acceptedRevision)
    BY <1>6, <2>6, <2>7
  <2> QED BY <1>1, <1>4, <1>9, <2>1, <2>4, <2>5, <2>8 DEF Holds, VersionOf
<1> QED BY <1>8, <1>9

(* The response itself is of the present version ...                       *)
LEMMA AnswerFacts ==
    ASSUME TypeOK, StoreConsistent, NEW b \in Browser, NEW rid \in Nat,
           \A d \in Browser : CursorConsistent(d),
           NEW r \in Nat, NEW e \in Nat, NEW v \in Nat,
           MaindataAction(b, rid, r, e, v)
    PROVE  /\ Answer(b, rid, r, e, v).idx = sent[b] + 1
           /\ Answer(b, rid, r, e, v).rid = RidOf(sent[b] + 1)
           /\ Answer(b, rid, r, e, v).ver = v
<1>1. Refreshed(r, e, v)
  BY DEF MaindataAction, Refresh
<1>2. /\ Answer(b, rid, r, e, v).idx = sent[b] + 1
      /\ Answer(b, rid, r, e, v).rid = NextRid(cursor[b].lastSentRid)
      /\ Answer(b, rid, r, e, v).ver = v
  BY <1>1, CacheCurrent DEF Answer, SyncPlan
<1>3. NextRid(cursor[b].lastSentRid) = RidOf(sent[b] + 1)
  BY RidOfNext DEF CursorConsistent, TypeOK
<1> QED BY <1>2, <1>3

(* ... and the tab that receives it will hold it.                          *)
LEMMA AnswerHolds ==
    ASSUME TypeOK, StoreConsistent, NEW b \in Browser, NEW rid \in Nat,
           \A d \in Browser : CursorConsistent(d),
           NEW r \in Nat, NEW e \in Nat, NEW v \in Nat,
           MaindataAction(b, rid, r, e, v),
           NEW i \in Nat, i = sent[b] + 1
    PROVE  Holds(b, i, v)'
<1>1. Refreshed(r, e, v) /\ revision' = r /\ version' = v
  BY DEF MaindataAction, Refresh
<1>2. /\ cursor' = [cursor EXCEPT ![b] = CursorAfter(cursor[b], rid, r)]
      /\ sent' = [sent EXCEPT ![b] = sent[b] + 1]
  BY DEF MaindataAction
<1>3. cursor[b] \in Cursor /\ sent[b] \in Nat
  BY DEF TypeOK
<1>4. cursor'[b].lastSentRevision = r
  <2>1. cursor'[b] = CursorAfter(cursor[b], rid, r)
    BY <1>2 DEF TypeOK
  <2>2. Acknowledge(cursor[b], rid) \in Cursor
    BY <1>3, CursorTypes
  <2> QED BY <2>1, <2>2 DEF CursorAfter, Cursor
<1>5. sent'[b] = i
  BY <1>2 DEF TypeOK
<1>6. VersionOf(cursor[b].lastSentRevision)' = v
  BY <1>1, <1>4 DEF VersionOf
<1>7. cursor'[b].acceptedRevision <= r /\ cursor'[b].acceptedRevision \in Nat
  <2>1. cursor' \in [Browser -> Cursor]
    BY MaindataActionTypes
  <2>2. CursorConsistent(b)'
    BY CursorStep
  <2>3. cursor'[b].acceptedRevision <= cursor'[b].lastSentRevision
    BY <2>2 DEF CursorConsistent
  <2> QED BY <1>4, <2>1, <2>3 DEF Cursor
<1>8. v >= VersionOf(cursor[b].acceptedRevision)'
  BY <1>1, <1>7 DEF VersionOf
<1> QED BY <1>1, <1>3, <1>5, <1>6, <1>8, RidModulusAssumption DEF Holds

(* An incremental response starts at or before what the tab shows that     *)
(* asked for it: its rid names a response of this cursor within the        *)
(* window, hence one at least as late as the acknowledged one.             *)
LEMMA AnswerFits ==
    ASSUME TypeOK, StoreConsistent, NEW b \in Browser,
           \A d \in Browser : CursorConsistent(d),
           NEW i \in Nat \ {0}, NEW x \in Nat, Holds(b, i, x),
           NEW rid \in Nat, rid = RidOf(i),
           NEW r \in Nat, NEW e \in Nat, NEW v \in Nat,
           MaindataAction(b, rid, r, e, v),
           ~Answer(b, rid, r, e, v).full
    PROVE  Answer(b, rid, r, e, v).base <= x
<1> DEFINE a == IF Acknowledge(cursor[b], rid) = cursor[b] THEN accepted[b] ELSE sent[b]
           c == Acknowledge(cursor[b], rid)
<1>1. /\ cursor[b] \in Cursor /\ sent[b] \in Nat /\ accepted[b] \in Nat
      /\ revision \in Nat /\ version \in Nat
  BY DEF TypeOK
<1>2. CanSendIncrement(cursor[b], rid, e)
  BY DEF Answer, SyncPlan
<1>3. rid > 0 /\ c.acceptedRid = rid
  BY <1>2 DEF CanSendIncrement
<1>4. Answer(b, rid, r, e, v).base = v - (r - c.acceptedRevision)
  <2>1. AggregateBase(c.acceptedRevision, e) = c.acceptedRevision
    BY <1>2 DEF AggregateBase, CanSendIncrement
  <2>2. SyncPlan(cursor[b], rid, r, e).base = c.acceptedRevision
    BY <1>2 DEF SyncPlan
  <2> HIDE DEF c
  <2> QED BY <2>1, <2>2 DEF Answer
<1>5. a \in Nat /\ c \in Cursor
  BY <1>1, CursorTypes
<1>6. /\ c.acceptedRid = RidOf(a) /\ a <= sent[b]
      /\ \/ a = accepted[b] /\ c.acceptedRevision = cursor[b].acceptedRevision
         \/ a = sent[b] /\ c.acceptedRevision = cursor[b].lastSentRevision
  BY <1>5, AcknowledgeStep
<1>7. c.acceptedRevision \in Nat
  BY <1>5 DEF Cursor
<1> HIDE DEF a, c
<1>8. a > 0 /\ RidOf(a) = RidOf(i)
  BY <1>3, <1>5, <1>6, RidOfType
<1>9. i >= a
  <2>1. SUFFICES ASSUME i < a PROVE FALSE
    BY <1>5
  <2>2. a - i < RidModulus
    BY <1>1, <1>5, <1>6, RidModulusAssumption DEF Holds
  <2>3. i = a
    BY <1>5, <1>8, <2>1, <2>2, RidOfUnique
  <2> QED BY <1>5, <2>1, <2>3
<1>10. x >= version - (revision - c.acceptedRevision)
  <2>1. CASE a = accepted[b] /\ c.acceptedRevision = cursor[b].acceptedRevision
    BY <1>8, <1>9, <2>1 DEF Holds, VersionOf
  <2>2. CASE a = sent[b] /\ c.acceptedRevision = cursor[b].lastSentRevision
    <3>1. i = sent[b]
      BY <1>1, <1>9, <2>2 DEF Holds
    <3> QED BY <1>1, <1>7, <2>2, <3>1 DEF Holds, VersionOf
  <2> QED BY <1>6, <2>1, <2>2
<1>11. served
  BY <1>1 DEF Holds, CursorConsistent
<1>12. Refreshed(r, e, v)
  BY DEF MaindataAction, Refresh
<1>13. v - r = version - revision
  BY <1>11, <1>12, RefreshMonotone
<1> QED BY <1>1, <1>4, <1>7, <1>10, <1>13

(* A tab keeps holding what it holds when the handler answers somebody:    *)
(* MaindataAction's guard InRidWindow keeps it in the window.              *)
LEMMA TabStep ==
    ASSUME TypeOK, StoreConsistent, NEW b \in Browser, NEW rid \in Nat,
           \A d \in Browser : CursorConsistent(d),
           NEW r \in Nat, NEW e \in Nat, NEW v \in Nat,
           MaindataAction(b, rid, r, e, v),
           NEW t \in Tab, TabConsistent(t)
    PROVE  /\ \A i \in Nat \ {0}, x \in Nat :
                 (i = tab[t].idx /\ x = tab[t].ver) => Holds(BrowserOf[t], i, x)'
           /\ tab[t].phase = "answered" =>
                 \A i \in Nat, x \in Nat :
                     (i = reply[t].idx /\ x = reply[t].ver) => Holds(BrowserOf[t], i, x)'
<1> DEFINE d == BrowserOf[t]
<1>1. d \in Browser /\ (d = b => t \in TabsOf(b))
  BY ProtocolAssumption DEF TabsOf
<1>2. InRidWindow(b, sent[b] + 1)
  BY DEF MaindataAction
<1>3. /\ tab[t].rid \in Nat /\ tab[t].idx \in Nat /\ sent[b] \in Nat
      /\ reply[t].idx \in Nat /\ reply[t].ver \in Nat
  BY DEF TypeOK, Reply
<1> HIDE DEF d
<1>4. ASSUME NEW i \in Nat \ {0}, NEW x \in Nat, i = tab[t].idx, x = tab[t].ver
      PROVE  Holds(d, i, x)'
  <2>1. Holds(d, i, x)
    BY <1>4 DEF TabConsistent, d
  <2>2. tab[t].rid > 0
    BY <1>3, <1>4, RidOfType DEF TabConsistent
  <2>3. d = b => sent[b] + 1 - i < RidModulus
    <3>1. SUFFICES ASSUME d = b PROVE sent[b] + 1 - i < RidModulus
      OBVIOUS
    <3>2. t \in TabsOf(b)
      BY <1>1, <3>1
    <3>3. (sent[b] + 1) - tab[t].idx < RidModulus
      BY <1>2, <2>2, <3>2 DEF InRidWindow
    <3> QED BY <1>3, <1>4, <3>3
  <2> QED BY <1>1, <2>1, <2>3, HoldsStep
<1>5. ASSUME tab[t].phase = "answered",
             NEW i \in Nat, NEW x \in Nat, i = reply[t].idx, x = reply[t].ver
      PROVE  Holds(d, i, x)'
  <2>1. Holds(d, i, x) /\ i > 0
    BY <1>5 DEF TabConsistent, d
  <2>2. d = b => sent[b] + 1 - i < RidModulus
    <3>1. SUFFICES ASSUME d = b PROVE sent[b] + 1 - i < RidModulus
      OBVIOUS
    <3>2. t \in TabsOf(b)
      BY <1>1, <3>1
    <3>3. (sent[b] + 1) - reply[t].idx < RidModulus
      BY <1>2, <1>5, <3>2 DEF InRidWindow
    <3> QED BY <1>3, <1>5, <3>3
  <2> QED BY <1>1, <2>1, <2>2, HoldsStep
<1> QED BY <1>4, <1>5 DEF d

LEMMA OtherTabStep ==
    ASSUME TypeOK, StoreConsistent, NEW b \in Browser, NEW rid \in Nat,
           \A d \in Browser : CursorConsistent(d),
           NEW r \in Nat, NEW e \in Nat, NEW v \in Nat,
           MaindataAction(b, rid, r, e, v),
           NEW t \in Tab, TabConsistent(t),
           UNCHANGED <<tab[t], reply[t]>>
    PROVE  TabConsistent(t)'
<1>1. /\ tab[t].idx \in Nat /\ (tab[t].ver # Garbled => tab[t].ver \in Nat)
      /\ reply[t].idx \in Nat /\ reply[t].ver \in Nat
  BY DEF TypeOK, Reply
<1>2. tab[t].idx # 0 => Holds(BrowserOf[t], tab[t].idx, tab[t].ver)'
  <2>1. SUFFICES ASSUME tab[t].idx # 0 PROVE Holds(BrowserOf[t], tab[t].idx, tab[t].ver)'
    OBVIOUS
  <2>2. tab[t].ver \in Nat
    BY <1>1 DEF TabConsistent
  <2>3. PICK i \in Nat \ {0}, x \in Nat : i = tab[t].idx /\ x = tab[t].ver
    BY <1>1, <2>1, <2>2
  <2>4. Holds(BrowserOf[t], i, x)'
    BY <2>3, TabStep
  <2>5. tab'[t].idx = i /\ tab'[t].ver = x
    BY <2>3
  <2> QED BY <2>4, <2>5 DEF Holds
<1>3. tab[t].phase = "answered" => Holds(BrowserOf[t], reply[t].idx, reply[t].ver)'
  <2>1. SUFFICES ASSUME tab[t].phase = "answered"
                 PROVE  Holds(BrowserOf[t], reply[t].idx, reply[t].ver)'
    OBVIOUS
  <2>2. PICK i \in Nat, x \in Nat : i = reply[t].idx /\ x = reply[t].ver
    BY <1>1
  <2>3. Holds(BrowserOf[t], i, x)'
    BY <2>1, <2>2, TabStep
  <2>4. reply'[t].idx = i /\ reply'[t].ver = x
    BY <2>2
  <2> QED BY <2>3, <2>4 DEF Holds
<1> QED BY <1>2, <1>3 DEF TabConsistent

-----------------------------------------------------------------------------
(* The inductive invariant.                                                *)
Inductive == TypeOK /\ ProtocolConsistent

LEMMA InductiveInit == Init => Inductive
<1> SUFFICES ASSUME Init PROVE ProtocolConsistent
  BY TypeInit DEF Inductive
<1>1. StoreConsistent
  BY DEF Init, StoreConsistent
<1>2. \A b \in Browser : CursorConsistent(b)
  BY DEF Init, CursorConsistent, FreshCursor, RidOf
<1>3. \A t \in Tab : TabConsistent(t)
  BY DEF Init, TabConsistent, BlankPage, Garbled, RidOf
<1> QED BY <1>1, <1>2, <1>3 DEF ProtocolConsistent

(* A tab whose store, cursor and versions are left alone.                  *)
LEMMA HoldsUnchanged ==
    ASSUME NEW b, NEW i, NEW x, Holds(b, i, x),
           UNCHANGED <<revision, version, cursor, sent, accepted>>
    PROVE  Holds(b, i, x)'
BY DEF Holds, VersionOf

LEMMA BrowserSideUnchanged ==
    ASSUME ProtocolConsistent,
           UNCHANGED <<revision, version, served, cacheRev, cacheVer, cursor, sent, accepted, live>>
    PROVE  StoreConsistent' /\ \A b \in Browser : CursorConsistent(b)'
BY DEF ProtocolConsistent, StoreConsistent, CursorConsistent, VersionOf

LEMMA PageUnchanged ==
    ASSUME NEW t \in Tab, TabConsistent(t),
           UNCHANGED <<revision, version, cursor, sent, accepted>>,
           tab'[t].rid = tab[t].rid, tab'[t].ver = tab[t].ver, tab'[t].idx = tab[t].idx,
           tab'[t].phase = "answered" => tab[t].phase = "answered" /\ reply'[t] = reply[t]
    PROVE  TabConsistent(t)'
BY DEF TabConsistent, Holds, VersionOf

(* The actions of the tabs.                                                *)
LEMMA PollStep ==
    ASSUME Inductive, NEW t \in Tab, Poll(t)
    PROVE  ProtocolConsistent'
<1>1. UNCHANGED <<revision, version, served, cacheRev, cacheVer, cursor, sent, accepted, live>>
  BY DEF Poll, storeVars, snapshotVars, sessionVars
<1>2. \A u \in Tab : TabConsistent(u)'
  <2> TAKE u \in Tab
  <2>1. TabConsistent(u) /\ tab' = [tab EXCEPT ![t].phase = "asked"] /\ reply' = reply
    BY DEF Inductive, ProtocolConsistent, Poll
  <2>2. /\ tab'[u].rid = tab[u].rid /\ tab'[u].ver = tab[u].ver /\ tab'[u].idx = tab[u].idx
        /\ tab'[u].phase = "answered" => tab[u].phase = "answered"
    BY <2>1 DEF Inductive, TypeOK
  <2> QED BY <1>1, <2>1, <2>2, PageUnchanged
<1> QED BY <1>1, <1>2, BrowserSideUnchanged DEF Inductive, ProtocolConsistent

LEMMA DeliverStep ==
    ASSUME Inductive, NEW t \in Tab, Deliver(t)
    PROVE  ProtocolConsistent'
<1>1. UNCHANGED <<revision, version, served, cacheRev, cacheVer, cursor, sent, accepted, live>>
  BY DEF Deliver, storeVars, snapshotVars, sessionVars
<1>2. ASSUME NEW u \in Tab, u # t
      PROVE  TabConsistent(u)'
  <2>1. TabConsistent(u) /\ tab'[u] = tab[u] /\ reply'[u] = reply[u]
    BY <1>2 DEF Inductive, ProtocolConsistent, Deliver, TypeOK
  <2> QED BY <1>1, <2>1, PageUnchanged
<1>3. TabConsistent(t)'
  <2>1. /\ TabConsistent(t) /\ tab[t].phase = "answered"
        /\ reply[t].ver \in Nat /\ reply[t].idx \in Nat
    BY DEF Inductive, ProtocolConsistent, Deliver, TypeOK, Reply
  <2>2. reply[t].full \/ (reply[t].base <= tab[t].ver /\ tab[t].ver <= reply[t].ver)
    BY <2>1 DEF TabConsistent
  <2>3. tab'[t] = [rid |-> reply[t].rid, phase |-> "idle",
                   ver |-> reply[t].ver, idx |-> reply[t].idx]
    BY <2>2 DEF Deliver, Inductive, TypeOK
  <2>4. Holds(BrowserOf[t], tab[t].idx, tab[t].ver)'
    <3>1. Holds(BrowserOf[t], reply[t].idx, reply[t].ver)
      BY <2>1 DEF TabConsistent
    <3>2. PICK i \in Nat, x \in Nat : i = reply[t].idx /\ x = reply[t].ver
      BY <2>1
    <3>3. Holds(BrowserOf[t], i, x)'
      BY <1>1, <3>1, <3>2, HoldsUnchanged
    <3>4. tab'[t].idx = i /\ tab'[t].ver = x
      BY <2>3, <3>2
    <3> QED BY <3>3, <3>4 DEF Holds
  <2> QED BY <2>1, <2>3, <2>4 DEF TabConsistent, Garbled
<1> QED BY <1>1, <1>2, <1>3, BrowserSideUnchanged DEF Inductive, ProtocolConsistent

LEMMA FailStep ==
    ASSUME Inductive, NEW t \in Tab, Fail(t)
    PROVE  ProtocolConsistent'
<1>1. UNCHANGED <<revision, version, served, cacheRev, cacheVer, cursor, sent, accepted, live>>
  BY DEF Fail, storeVars, snapshotVars, sessionVars
<1>2. \A u \in Tab : TabConsistent(u)'
  <2> TAKE u \in Tab
  <2>1. /\ TabConsistent(u) /\ tab' = [tab EXCEPT ![t].phase = "idle"]
        /\ reply' = [reply EXCEPT ![t] = NoReply]
    BY DEF Inductive, ProtocolConsistent, Fail
  <2>2. /\ tab'[u].rid = tab[u].rid /\ tab'[u].ver = tab[u].ver /\ tab'[u].idx = tab[u].idx
        /\ tab'[u].phase = "answered" => tab[u].phase = "answered" /\ reply'[u] = reply[u]
    BY <2>1 DEF Inductive, TypeOK
  <2> QED BY <1>1, <2>1, <2>2, PageUnchanged
<1> QED BY <1>1, <1>2, BrowserSideUnchanged DEF Inductive, ProtocolConsistent

LEMMA ReloadStep ==
    ASSUME Inductive, NEW t \in Tab, Reload(t)
    PROVE  ProtocolConsistent'
<1>1. UNCHANGED <<revision, version, served, cacheRev, cacheVer, cursor, sent, accepted, live>>
  BY DEF Reload, storeVars, snapshotVars, sessionVars
<1>2. ASSUME NEW u \in Tab, u # t
      PROVE  TabConsistent(u)'
  <2>1. TabConsistent(u) /\ tab'[u] = tab[u] /\ reply'[u] = reply[u]
    BY <1>2 DEF Inductive, ProtocolConsistent, Reload, TypeOK
  <2> QED BY <1>1, <2>1, PageUnchanged
<1>3. TabConsistent(t)'
  BY DEF Reload, Inductive, TypeOK, TabConsistent, BlankPage, Garbled, RidOf
<1> QED BY <1>1, <1>2, <1>3, BrowserSideUnchanged DEF Inductive, ProtocolConsistent

(* The actions of the server that answer nobody.                           *)
LEMMA TorrentPeersStep ==
    ASSUME Inductive, NEW b \in Browser, TorrentPeers(b)
    PROVE  ProtocolConsistent'
<1>1. /\ UNCHANGED <<revision, version, served, cacheRev, cacheVer, cursor, sent, accepted>>
      /\ UNCHANGED <<tab, reply>> /\ live \subseteq live'
  BY DEF TorrentPeers, storeVars, snapshotVars, tabVars
<1>2. StoreConsistent' /\ \A d \in Browser : CursorConsistent(d)'
  BY <1>1 DEF Inductive, ProtocolConsistent, StoreConsistent, CursorConsistent, VersionOf
<1>3. \A u \in Tab : TabConsistent(u)'
  BY <1>1, PageUnchanged DEF Inductive, ProtocolConsistent
<1> QED BY <1>2, <1>3 DEF ProtocolConsistent

LEMMA SessionRestoredStep ==
    ASSUME Inductive, NEW r \in {revision, revision + 1}, NEW e \in 1..(revision + 2),
           NEW v \in {version, version + 1}, SessionRestored(r, e, v)
    PROVE  ProtocolConsistent'
<1> USE DEF Inductive, ProtocolConsistent
<1>0. r \in Nat /\ e \in Nat /\ v \in Nat
  BY RefreshTypes
<1>1. UNCHANGED <<served, cacheRev, cacheVer, cursor, sent, accepted, live, tab, reply>>
  BY DEF SessionRestored, sessionVars, tabVars
<1>2. CASE UNCHANGED <<revision, version>>
  <2>1. StoreConsistent' /\ \A d \in Browser : CursorConsistent(d)'
    BY <1>1, <1>2, BrowserSideUnchanged
  <2>2. \A u \in Tab : TabConsistent(u)'
    BY <1>1, <1>2, PageUnchanged
  <2> QED BY <2>1, <2>2
<1>3. CASE Refreshed(r, e, v) /\ revision' = r /\ version' = v
  <2>1. /\ r > 0 /\ r <= v /\ r >= revision /\ v >= version
        /\ served => v - r = version - revision
    BY <1>0, <1>3, RefreshMonotone
  <2>2. StoreConsistent'
    BY <1>0, <1>1, <1>3, <2>1 DEF StoreConsistent, VersionOf, TypeOK
  <2>3. ASSUME NEW d \in Browser PROVE CursorConsistent(d)'
    <3>1. cursor[d].lastSentRevision \in Nat /\ revision \in Nat
      BY DEF TypeOK, Cursor
    <3> QED BY <1>0, <1>1, <1>3, <2>1, <3>1 DEF CursorConsistent
  <2>4. ASSUME NEW d \in Browser, NEW i \in Nat \ {0}, NEW x \in Nat, Holds(d, i, x)
        PROVE  Holds(d, i, x)'
    <3>1. /\ cursor[d].lastSentRevision \in Nat /\ cursor[d].acceptedRevision \in Nat
          /\ sent[d] \in Nat /\ revision \in Nat /\ version \in Nat
      BY DEF TypeOK, Cursor
    <3>2. v - r = version - revision
      BY <2>1, <2>4, <3>1 DEF Holds, CursorConsistent
    <3>3. /\ VersionOf(cursor[d].acceptedRevision)' = VersionOf(cursor[d].acceptedRevision)
          /\ VersionOf(cursor[d].lastSentRevision)' = VersionOf(cursor[d].lastSentRevision)
      BY <1>0, <1>1, <1>3, <3>1, <3>2 DEF VersionOf
    <3>4. x <= version'
      BY <1>0, <1>3, <2>1, <2>4, <3>1 DEF Holds
    <3> QED BY <1>1, <2>4, <3>3, <3>4 DEF Holds
  <2>5. ASSUME NEW u \in Tab PROVE TabConsistent(u)'
    <3>1. BrowserOf[u] \in Browser
      BY ProtocolAssumption
    <3>2. /\ tab[u].idx \in Nat /\ (tab[u].ver # Garbled => tab[u].ver \in Nat)
          /\ reply[u].idx \in Nat /\ reply[u].ver \in Nat
      BY DEF TypeOK, Reply
    <3>3. tab[u].idx # 0 => Holds(BrowserOf[u], tab[u].idx, tab[u].ver)'
      <4>1. SUFFICES ASSUME tab[u].idx # 0 PROVE Holds(BrowserOf[u], tab[u].idx, tab[u].ver)'
        OBVIOUS
      <4>2. PICK i \in Nat \ {0}, x \in Nat : i = tab[u].idx /\ x = tab[u].ver
        BY <3>2, <4>1 DEF TabConsistent
      <4>3. Holds(BrowserOf[u], i, x)'
        BY <2>4, <3>1, <4>2 DEF TabConsistent
      <4>4. tab'[u].idx = i /\ tab'[u].ver = x
        BY <1>1, <4>2
      <4> QED BY <4>3, <4>4 DEF Holds
    <3>4. tab[u].phase = "answered" => Holds(BrowserOf[u], reply[u].idx, reply[u].ver)'
      <4>1. SUFFICES ASSUME tab[u].phase = "answered"
                     PROVE  Holds(BrowserOf[u], reply[u].idx, reply[u].ver)'
        OBVIOUS
      <4>2. PICK i \in Nat \ {0}, x \in Nat : i = reply[u].idx /\ x = reply[u].ver
        BY <3>2, <4>1 DEF TabConsistent
      <4>3. Holds(BrowserOf[u], i, x)'
        BY <2>4, <3>1, <4>1, <4>2 DEF TabConsistent
      <4>4. reply'[u].idx = i /\ reply'[u].ver = x
        BY <1>1, <4>2
      <4> QED BY <4>3, <4>4 DEF Holds
    <3> QED BY <1>1, <3>3, <3>4 DEF TabConsistent
  <2> QED BY <2>2, <2>3, <2>5
<1> QED BY <1>2, <1>3 DEF SessionRestored, Refresh

LEMMA EndWebSessionStep ==
    ASSUME Inductive, ~TabsOutliveSessions, NEW b \in Browser, EndWebSession(b)
    PROVE  ProtocolConsistent'
<1> USE DEF Inductive, ProtocolConsistent
<1>1. /\ \A t \in TabsOf(b) : tab[t].rid = 0 /\ tab[t].phase = "idle"
      /\ live' = live \ {b}
      /\ cursor' = [cursor EXCEPT ![b] = FreshCursor]
      /\ sent' = [sent EXCEPT ![b] = 0]
      /\ accepted' = [accepted EXCEPT ![b] = 0]
      /\ tab' = [t \in Tab |-> IF t \in TabsOf(b) THEN [tab[t] EXCEPT !.idx = 0] ELSE tab[t]]
      /\ reply' = [t \in Tab |-> IF t \in TabsOf(b) THEN [reply[t] EXCEPT !.idx = 0] ELSE reply[t]]
  BY DEF EndWebSession
<1>2. cursor'[b] = FreshCursor /\ sent'[b] = 0 /\ accepted'[b] = 0
  BY <1>1 DEF TypeOK
<1>3. \A d \in Browser \ {b} :
         cursor'[d] = cursor[d] /\ sent'[d] = sent[d] /\ accepted'[d] = accepted[d]
  BY <1>1 DEF TypeOK
<1>4. \A t \in TabsOf(b) : tab'[t].rid = 0 /\ tab'[t].idx = 0 /\ tab'[t].ver = 0 /\ tab'[t].phase = "idle"
  <2> TAKE t \in TabsOf(b)
  <2>1. t \in Tab /\ TabConsistent(t) /\ tab[t].idx \in Nat
    BY DEF TabsOf, TypeOK
  <2>2. tab[t].idx = 0 /\ tab[t].ver = 0
    BY <1>1, <2>1, RidOfType DEF TabConsistent
  <2> QED BY <1>1, <2>1, <2>2 DEF TypeOK
<1>5. \A t \in TabsOf(b) : TabConsistent(t)'
  BY <1>4 DEF TabConsistent, Garbled, RidOf
<1>6. \A t \in Tab \ TabsOf(b) :
         tab'[t] = tab[t] /\ reply'[t] = reply[t] /\ BrowserOf[t] \in Browser \ {b}
  BY <1>1, ProtocolAssumption DEF TabsOf
<1>7. FreshCursor.lastSentRid = RidOf(0) /\ FreshCursor.acceptedRid = RidOf(0)
      /\ FreshCursor.lastSentRevision = 0 /\ FreshCursor.acceptedRevision = 0
  BY DEF FreshCursor, RidOf
<1>8. CASE UNCHANGED snapshotVars
  <2>1. UNCHANGED <<revision, version, served, cacheRev, cacheVer>>
    BY <1>8 DEF snapshotVars
  <2>2. StoreConsistent'
    BY <2>1 DEF StoreConsistent, VersionOf
  <2>3. \A d \in Browser \ {b} : CursorConsistent(d)'
    BY <1>1, <1>3, <2>1 DEF CursorConsistent
  <2>4. CursorConsistent(b)'
    BY <1>2, <1>7, <2>1 DEF CursorConsistent, TypeOK
  <2>5. \A t \in Tab \ TabsOf(b) : TabConsistent(t)'
    BY <1>3, <1>6, <2>1 DEF TabConsistent, Holds, VersionOf
  <2> QED BY <1>5, <2>2, <2>3, <2>4, <2>5
<1>9. CASE live' = {} /\ ReleaseSharedState
  <2>1. \A d \in Browser \ {b} : sent[d] = 0 /\ accepted[d] = 0
    <3> TAKE d \in Browser \ {b}
    <3>1. CursorConsistent(d) /\ d \notin live
      BY <1>1, <1>9
    <3> QED BY <3>1 DEF CursorConsistent, TypeOK
  <2>2. revision' = 0 /\ cacheRev' = 0 /\ served' = FALSE /\ version' = version
    BY <1>9 DEF ReleaseSharedState
  <2>3. StoreConsistent'
    BY <2>2 DEF StoreConsistent, TypeOK
  <2>4. ASSUME NEW d \in Browser PROVE CursorConsistent(d)'
    <3>1. CASE d = b
      BY <1>2, <1>7, <2>2, <3>1 DEF CursorConsistent
    <3>2. CASE d # b
      <4>1. cursor'[d] = cursor[d] /\ sent'[d] = 0 /\ accepted'[d] = 0
        BY <1>3, <2>1, <3>2
      <4>2. CursorConsistent(d) /\ cursor[d] \in Cursor
        BY DEF TypeOK
      <4>3. /\ cursor[d].lastSentRid = RidOf(0) /\ cursor[d].acceptedRid = RidOf(0)
            /\ cursor[d].lastSentRevision = 0 /\ cursor[d].acceptedRevision = 0
        BY <2>1, <3>2, <4>2 DEF CursorConsistent, Cursor
      <4> QED BY <2>2, <4>1, <4>3 DEF CursorConsistent
    <3> QED BY <3>1, <3>2
  <2>5. ASSUME NEW t \in Tab \ TabsOf(b) PROVE TabConsistent(t)'
    <3>1. TabConsistent(t) /\ sent[BrowserOf[t]] = 0
      BY <1>6, <2>1
    <3>2. tab[t].idx = 0
      BY <3>1 DEF TabConsistent, Holds, TypeOK
    <3>3. tab[t].phase # "answered"
      BY <3>1 DEF TabConsistent, Holds, TypeOK, Reply
    <3> QED BY <1>6, <3>1, <3>2, <3>3 DEF TabConsistent
  <2> QED BY <1>5, <2>3, <2>4, <2>5
<1> QED BY <1>8, <1>9 DEF EndWebSession, LastSessionGone

(* The request handler.                                                    *)
LEMMA HandleOrphanStep ==
    ASSUME Inductive, NEW o \in orphans,
           NEW r \in {revision, revision + 1}, NEW e \in 1..(revision + 2),
           NEW v \in {version, version + 1}, HandleOrphan(o, r, e, v)
    PROVE  ProtocolConsistent'
<1> USE DEF Inductive, ProtocolConsistent
<1>1. r \in Nat /\ e \in Nat /\ v \in Nat
  BY RefreshTypes
<1>2. o.browser \in Browser /\ o.rid \in Nat
  BY DEF TypeOK, Orphan
<1>3. MaindataAction(o.browser, o.rid, r, e, v) /\ UNCHANGED <<tab, reply>>
  BY DEF HandleOrphan, tabVars
<1>4. StoreConsistent'
  BY <1>1, <1>2, <1>3, StoreStep
<1>5. \A d \in Browser : CursorConsistent(d)'
  BY <1>1, <1>2, <1>3, CursorStep
<1>6. \A u \in Tab : TabConsistent(u)'
  BY <1>1, <1>2, <1>3, OtherTabStep
<1> QED BY <1>4, <1>5, <1>6

LEMMA HandleRequestStep ==
    ASSUME Inductive, NEW t \in Tab,
           NEW r \in {revision, revision + 1}, NEW e \in 1..(revision + 2),
           NEW v \in {version, version + 1}, HandleRequest(t, r, e, v)
    PROVE  ProtocolConsistent'
<1> USE DEF Inductive, ProtocolConsistent
<1> DEFINE b == BrowserOf[t]
           q == tab[t].rid
           p == Answer(b, q, r, e, v)
<1>1. r \in Nat /\ e \in Nat /\ v \in Nat
  BY RefreshTypes
<1>2. b \in Browser /\ q \in Nat
  BY ProtocolAssumption DEF TypeOK
<1>3. /\ MaindataAction(b, q, r, e, v)
      /\ reply' = [reply EXCEPT ![t] = p]
      /\ tab' = [tab EXCEPT ![t].phase = "answered"]
  BY DEF HandleRequest
<1>4. PICK c \in Browser, rid \in Nat : c = b /\ rid = q
  BY <1>2
<1>5. MaindataAction(c, rid, r, e, v) /\ p = Answer(c, rid, r, e, v)
  BY <1>3, <1>4
<1>6. /\ tab'[t].rid = tab[t].rid /\ tab'[t].ver = tab[t].ver /\ tab'[t].idx = tab[t].idx
      /\ reply'[t] = p
  BY <1>3 DEF TypeOK
<1>7. sent[c] \in Nat /\ tab[t].idx \in Nat /\ TabConsistent(t)
  BY DEF TypeOK
<1> HIDE DEF p, q, b
<1>8. StoreConsistent'
  BY <1>1, <1>5, StoreStep
<1>9. \A d \in Browser : CursorConsistent(d)'
  BY <1>1, <1>5, CursorStep
<1>10. ASSUME NEW u \in Tab, u # t PROVE TabConsistent(u)'
  <2>1. tab'[u] = tab[u] /\ reply'[u] = reply[u]
    BY <1>3, <1>10 DEF TypeOK
  <2> QED BY <1>1, <1>5, <2>1, OtherTabStep
<1>11. p.idx = sent[c] + 1 /\ p.rid = RidOf(p.idx) /\ p.ver = v
  BY <1>1, <1>5, AnswerFacts
<1>12. Holds(BrowserOf[t], reply[t].idx, reply[t].ver)'
  <2>1. PICK i \in Nat : i = sent[c] + 1
    BY <1>7
  <2>2. Holds(c, i, v)'
    BY <1>1, <1>5, <2>1, AnswerHolds
  <2>3. reply'[t].idx = i /\ reply'[t].ver = v
    BY <1>6, <1>11, <2>1
  <2> QED BY <1>4, <2>2, <2>3 DEF Holds, b
<1>13. tab[t].idx # 0 => Holds(BrowserOf[t], tab[t].idx, tab[t].ver)'
  <2>1. SUFFICES ASSUME tab[t].idx # 0 PROVE Holds(BrowserOf[t], tab[t].idx, tab[t].ver)'
    OBVIOUS
  <2>2. PICK i \in Nat \ {0}, x \in Nat : i = tab[t].idx /\ x = tab[t].ver
    BY <1>7, <2>1 DEF TypeOK, TabConsistent
  <2>3. Holds(BrowserOf[t], i, x)'
    BY <1>1, <1>5, <1>7, <2>2, TabStep
  <2> QED BY <1>6, <2>2, <2>3 DEF Holds
<1>14. tab[t].ver <= v
  <2>1. tab[t].ver <= version
    BY <1>7 DEF TabConsistent, Holds, TypeOK
  <2> QED BY <1>7, <2>1 DEF TypeOK, TabConsistent
<1>15. ~p.full => p.base <= tab[t].ver
  <2>1. SUFFICES ASSUME ~p.full PROVE p.base <= tab[t].ver
    OBVIOUS
  <2>2. rid > 0
    BY <1>5, <2>1 DEF Answer, SyncPlan, CanSendIncrement
  <2>3. tab[t].idx # 0 /\ rid = RidOf(tab[t].idx)
    BY <1>4, <1>7, <2>2, RidOfType DEF TabConsistent, q
  <2>4. PICK i \in Nat \ {0}, x \in Nat : i = tab[t].idx /\ x = tab[t].ver
    BY <1>7, <2>3 DEF TypeOK, TabConsistent
  <2>5. Holds(c, i, x)
    BY <1>4, <1>7, <2>4 DEF TabConsistent, b
  <2>6. Answer(c, rid, r, e, v).base <= x
    BY <1>1, <1>5, <2>1, <2>3, <2>4, <2>5, AnswerFits
  <2> QED BY <1>5, <2>4, <2>6
<1>16. TabConsistent(t)'
  BY <1>6, <1>7, <1>11, <1>12, <1>13, <1>14, <1>15 DEF TabConsistent
<1> QED BY <1>8, <1>9, <1>10, <1>16

LEMMA InductiveStep ==
    ASSUME ~TabsOutliveSessions, Inductive, [Next]_vars
    PROVE  Inductive'
<1>1. TypeOK'
  BY TypeStep DEF Inductive
<1>2. CASE Next
  <2>1. ASSUME NEW t \in Tab, Poll(t) PROVE ProtocolConsistent'
    BY <2>1, PollStep
  <2>2. ASSUME NEW t \in Tab, Deliver(t) PROVE ProtocolConsistent'
    BY <2>2, DeliverStep
  <2>3. ASSUME NEW t \in Tab, Fail(t) PROVE ProtocolConsistent'
    BY <2>3, FailStep
  <2>4. ASSUME NEW t \in Tab, Reload(t) PROVE ProtocolConsistent'
    BY <2>4, ReloadStep
  <2>5. ASSUME NEW b \in Browser, TorrentPeers(b) PROVE ProtocolConsistent'
    BY <2>5, TorrentPeersStep
  <2>6. ASSUME NEW b \in Browser, EndWebSession(b) PROVE ProtocolConsistent'
    BY <2>6, EndWebSessionStep
  <2>7. ASSUME NEW r \in {revision, revision + 1}, NEW e \in 1..(revision + 2),
               NEW v \in {version, version + 1}, SessionRestored(r, e, v)
        PROVE  ProtocolConsistent'
    BY <2>7, SessionRestoredStep
  <2>8. ASSUME NEW t \in Tab,
               NEW r \in {revision, revision + 1}, NEW e \in 1..(revision + 2),
               NEW v \in {version, version + 1}, HandleRequest(t, r, e, v)
        PROVE  ProtocolConsistent'
    BY <2>8, HandleRequestStep
  <2>9. ASSUME NEW o \in orphans,
               NEW r \in {revision, revision + 1}, NEW e \in 1..(revision + 2),
               NEW v \in {version, version + 1}, HandleOrphan(o, r, e, v)
        PROVE  ProtocolConsistent'
    BY <2>9, HandleOrphanStep
  <2> QED BY <1>1, <1>2, <2>1, <2>2, <2>3, <2>4, <2>5, <2>6, <2>7, <2>8, <2>9 DEF Next, Inductive
<1>3. CASE UNCHANGED vars
  <2>1. UNCHANGED <<revision, version, served, cacheRev, cacheVer, cursor, sent, accepted, live>>
    BY <1>3 DEF vars, storeVars, snapshotVars, sessionVars
  <2>2. UNCHANGED <<tab, reply>>
    BY <1>3 DEF vars, tabVars
  <2>3. \A t \in Tab : TabConsistent(t)'
    BY <2>1, <2>2, PageUnchanged DEF Inductive, ProtocolConsistent
  <2> QED BY <1>1, <2>1, <2>3, BrowserSideUnchanged DEF Inductive, ProtocolConsistent
<1> QED BY <1>2, <1>3

(* Store, cursors, tabs and responses on their way stay consistent with    *)
(* each other, whatever is lost, late, evicted or released.                *)
THEOREM Consistent ==
    ASSUME ~TabsOutliveSessions
    PROVE  Spec => []ProtocolConsistent
<1>1. Spec => []Inductive
  <2>1. Inductive /\ [Next]_vars => Inductive'
    BY InductiveStep
  <2> QED BY InductiveInit, <2>1, PTL DEF Spec
<1>2. Inductive => ProtocolConsistent
  BY DEF Inductive
<1> QED BY <1>1, <1>2, PTL

(* An incremental response fits the tab that asked for it: the promise of  *)
(* planMaindataSync.                                                       *)
THEOREM IncrementsFit ==
    ASSUME ~TabsOutliveSessions
    PROVE  Spec => []IncrementFitsTab
<1>1. ProtocolConsistent => IncrementFitsTab
  BY DEF ProtocolConsistent, TabConsistent, IncrementFitsTab
<1> QED BY <1>1, Consistent, PTL

(* A response has the content of the revision the cursor has recorded,     *)
(* also when it comes from the cache of buildInitialFullUpdateResponse.    *)
THEOREM RepliesAreRecorded ==
    ASSUME ~TabsOutliveSessions
    PROVE  Spec => []ReplyIsRecordedRevision
<1>1. ProtocolConsistent => ReplyIsRecordedRevision
  BY DEF ProtocolConsistent, TabConsistent, Holds, ReplyIsRecordedRevision
<1> QED BY <1>1, Consistent, PTL

(* No cursor is ahead of the store, even after releaseSharedState.         *)
THEOREM CursorsBehindStore ==
    ASSUME ~TabsOutliveSessions
    PROVE  Spec => []CursorsWithinStore
<1>1. TypeOK /\ ProtocolConsistent => CursorsWithinStore
  BY DEF ProtocolConsistent, CursorConsistent, CursorsWithinStore, TypeOK
<1> QED BY <1>1, Consistent, TypeCorrect, PTL

(* What a tab shows never gets older, unless the page is loaded again.     *)
THEOREM Monotone ==
    ASSUME ~TabsOutliveSessions
    PROVE  Spec => TabsNeverGoBack
<1> DEFINE Forward == \A t \in Tab : tab'[t].rid # 0 => tab'[t].ver >= tab[t].ver
<1>1. ASSUME TypeOK, ProtocolConsistent, Next PROVE Forward
  <2> SUFFICES ASSUME NEW t \in Tab, tab'[t].rid # 0 PROVE tab'[t].ver >= tab[t].ver
    OBVIOUS
  <2>1. /\ tab[t].ver \in Nat /\ reply[t].ver \in Nat
        /\ tab[t].phase = "answered" => tab[t].ver <= reply[t].ver
        /\ (tab[t].phase = "answered" /\ ~reply[t].full) => reply[t].base <= tab[t].ver
    BY <1>1 DEF ProtocolConsistent, TabConsistent, TypeOK, Reply
  <2>2. ASSUME NEW u \in Tab, Deliver(u) PROVE tab'[t].ver >= tab[t].ver
    <3>1. CASE u = t
      BY <1>1, <2>1, <2>2, <3>1 DEF Deliver, TypeOK
    <3>2. CASE u # t
      BY <1>1, <2>1, <2>2, <3>2 DEF Deliver, TypeOK
    <3> QED BY <3>1, <3>2
  <2>3. ASSUME NEW u \in Tab, Reload(u) PROVE tab'[t].ver >= tab[t].ver
    BY <1>1, <2>1, <2>3 DEF Reload, BlankPage, TypeOK
  <2>4. ASSUME NEW u \in Tab, Poll(u) \/ Fail(u) PROVE tab'[t].ver >= tab[t].ver
    BY <1>1, <2>1, <2>4 DEF Poll, Fail, TypeOK
  <2>5. ASSUME NEW b \in Browser, TorrentPeers(b) \/ EndWebSession(b)
        PROVE  tab'[t].ver >= tab[t].ver
    BY <1>1, <2>1, <2>5 DEF TorrentPeers, EndWebSession, tabVars, TypeOK
  <2>6. ASSUME NEW r, NEW e, NEW v, SessionRestored(r, e, v) PROVE tab'[t].ver >= tab[t].ver
    BY <2>1, <2>6 DEF SessionRestored, tabVars
  <2>7. ASSUME NEW u \in Tab, NEW r, NEW e, NEW v, HandleRequest(u, r, e, v)
        PROVE  tab'[t].ver >= tab[t].ver
    BY <1>1, <2>1, <2>7 DEF HandleRequest, TypeOK
  <2>8. ASSUME NEW o, NEW r, NEW e, NEW v, HandleOrphan(o, r, e, v)
        PROVE  tab'[t].ver >= tab[t].ver
    BY <2>1, <2>8 DEF HandleOrphan, tabVars
  <2> QED BY <1>1, <2>2, <2>3, <2>4, <2>5, <2>6, <2>7, <2>8 DEF Next
<1>2. TypeOK /\ ProtocolConsistent /\ [Next]_vars => [Forward]_vars
  BY <1>1
<1>3. [][Forward]_vars => TabsNeverGoBack
  BY DEF TabsNeverGoBack
<1> HIDE DEF Forward
<1> QED BY <1>2, <1>3, Consistent, TypeCorrect, PTL DEF Spec
=============================================================================
