--------------------------- MODULE MaindataCursor ---------------------------
(***************************************************************************)
(* The response-id protocol of /api/v2/sync/maindata as pure operators:    *)
(* WebUISync::MaindataSessionCursor, nextRid() and planMaindataSync().     *)
(* One cursor lives in each SyncController, hence one per web session; it  *)
(* remembers the last response that was sent and the last one the client   *)
(* is known to have received.                                              *)
(***************************************************************************)
EXTENDS Integers

CONSTANT RidModulus     \* response ids cycle between 1 and RidModulus

ASSUME RidModulusAssumption == RidModulus \in Nat \ {0}

(* MaindataSessionCursor as a SyncController creates it.                   *)
FreshCursor ==
    [lastSentRid |-> 0, lastSentRevision |-> 0,
     acceptedRid |-> 0, acceptedRevision |-> 0]

Cursor ==
    [lastSentRid : Nat, lastSentRevision : Nat,
     acceptedRid : Nat, acceptedRevision : Nat]

NextRid(currentRid) == (currentRid % RidModulus) + 1

(* The rid of the n-th response of a cursor; 0 stands for no response.     *)
RidOf(n) == IF n = 0 THEN 0 ELSE ((n - 1) % RidModulus) + 1

(* Variant with a mistake: any rid acknowledges the last response.         *)
AcknowledgeAnyRid(cursor, requestedRid) ==
    IF requestedRid > 0 /\ cursor.lastSentRid > 0
    THEN [cursor EXCEPT !.acceptedRid = requestedRid,
                        !.acceptedRevision = cursor.lastSentRevision]
    ELSE cursor

(* The cursor after planMaindataSync has looked at the requested rid: a    *)
(* request that quotes the last rid sent acknowledges that response.       *)
Acknowledge(cursor, requestedRid) ==
    IF /\ requestedRid > 0
       /\ cursor.lastSentRid > 0
       /\ cursor.lastSentRid = requestedRid
    THEN [cursor EXCEPT !.acceptedRid = requestedRid,
                        !.acceptedRevision = cursor.lastSentRevision]
    ELSE cursor

(* The oldest revision an incremental response can start from when the     *)
(* store retains the deltas of revisions earliest, earliest + 1, ...       *)
EarliestBase(earliest) == IF earliest >= 1 THEN earliest - 1 ELSE 0

(* Variant with a mistake: evicted deltas are not noticed.                 *)
CanSendEvicted(cursor, requestedRid, earliest) ==
    /\ requestedRid > 0
    /\ cursor.lastSentRid > 0
    /\ Acknowledge(cursor, requestedRid).acceptedRid = requestedRid

(* Whether the delta from the acknowledged revision may be sent.           *)
CanSendIncrement(cursor, requestedRid, earliest) ==
    LET c == Acknowledge(cursor, requestedRid)
    IN  /\ requestedRid > 0
        /\ cursor.lastSentRid > 0
        /\ c.acceptedRid = requestedRid
        /\ c.acceptedRevision >= EarliestBase(earliest)

(* The plan planMaindataSync returns ...                                   *)
SyncPlan(cursor, requestedRid, current, earliest) ==
    LET incremental == CanSendIncrement(cursor, requestedRid, earliest)
    IN  [full   |-> ~incremental,
         base   |-> IF incremental
                    THEN Acknowledge(cursor, requestedRid).acceptedRevision
                    ELSE 0,
         target |-> current,
         rid    |-> NextRid(cursor.lastSentRid)]

(* Variant with a mistake: the next revision is recorded as sent.          *)
CursorAfterAhead(cursor, requestedRid, current) ==
    [Acknowledge(cursor, requestedRid) EXCEPT
        !.lastSentRid = NextRid(cursor.lastSentRid),
        !.lastSentRevision = current + 1]

(* ... and the cursor it leaves behind.                                    *)
CursorAfter(cursor, requestedRid, current) ==
    [Acknowledge(cursor, requestedRid) EXCEPT
        !.lastSentRid = NextRid(cursor.lastSentRid),
        !.lastSentRevision = current]
=============================================================================
