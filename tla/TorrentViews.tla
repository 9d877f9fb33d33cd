---------------------------- MODULE TorrentViews ----------------------------
(***************************************************************************)
(* What the torrents of a maindata response promise to a tab, whatever the *)
(* store keeps between two requests.  There is a table that the responses  *)
(* are made from; a request first looks at the torrents again, at every    *)
(* field of those that were reported as changed or are new, and perhaps at *)
(* more; then the tab sees the table, no matter whether it was sent all of *)
(* it or only what changed.                                                *)
(***************************************************************************)
EXTENDS MaindataDelta

CONSTANT Torrent

VARIABLES
    content,    \* the torrents of the session
    reported,   \* torrents that are to be looked at
    table,
    view        \* what the tab shows

vars == <<content, reported, table, view>>

NoTorrents == [t \in Torrent |-> Absent]

Init ==
    /\ content \in Table(Torrent)
    /\ reported = Torrent
    /\ table = NoTorrents
    /\ view = NoTorrents

(* The torrents change, with or without a report.                          *)
Change ==
    /\ content' \in Table(Torrent)
    /\ reported' \in SUBSET Torrent
    /\ reported \subseteq reported'
    /\ UNCHANGED <<table, view>>

(* What a field may show after a look.                                     *)
Shown(t, f) ==
    {content[t][f]} \union
        IF t \in reported THEN {} ELSE {At(table[t])[f]}

LookedAt(t) ==
    IF content[t] = Absent THEN table'[t] = IF t \in reported THEN Absent ELSE table[t]
    ELSE \/ t \notin reported /\ table'[t] = table[t]
         \/ /\ table'[t] # Absent
            /\ \A f \in Field : table'[t][f] \in Shown(t, f)

LookAgain ==
    /\ \A t \in Torrent : LookedAt(t)
    /\ reported' = {}
    /\ UNCHANGED content

(* Someone else's request, and a request of the tab.                       *)
RespondToOther == LookAgain /\ UNCHANGED view
Respond == LookAgain /\ view' = table'

(* The store forgets everything, and the tab is gone.                      *)
Forget ==
    /\ table' = NoTorrents
    /\ view' = NoTorrents
    /\ reported' = Torrent
    /\ UNCHANGED content

Next == Change \/ RespondToOther \/ Respond \/ Forget

Spec == Init /\ [][Next]_vars
=============================================================================
