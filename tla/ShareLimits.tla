----------------------------- MODULE ShareLimits -----------------------------
(***************************************************************************)
(* Share limits: of the session and of each torrent, on ratio, seeding     *)
(* time and time without activity.  A timer, which runs while there is any *)
(* limit, looks for torrents that have reached one and does with them what *)
(* the setting says.                                                       *)
(*                                                                         *)
(* What torrents have reached is external.  Torrents are finished and not  *)
(* forced, otherwise the timer passes them over.                           *)
(***************************************************************************)
EXTENDS Naturals

CONSTANTS
    Seed,              \* torrents
    AddsInactiveOnly   \* a torrent may come with a limit on inactivity only

ASSUME LimitsAssumption == AddsInactiveOnly \in BOOLEAN

Kind == {"ratio", "seedingTime", "inactiveSeedingTime"}

(* Remove also stands for DeleteFiles.                                     *)
MaxRatioAction == {"Pause", "Remove", "EnableSuperSeeding"}

VARIABLES
    globalMax,       \* the kinds the session has a limit on
    limits,          \* of each torrent and kind: "no" | "global" | "own"; None if it is gone
    paused,          \* torrents that are paused
    superSeeding,    \* torrents in super seeding mode
    maxRatioAction,  \* m_maxRatioAction
    limitTimer       \* m_seedingLimitTimer is active

limitVars == <<globalMax, limits, paused, superSeeding, maxRatioAction, limitTimer>>

Limit == {"no", "global", "own"}
Limits == [Kind -> Limit]
None == [kind \in {} |-> "no"]

Has(t) == limits[t] # None

OwnLimits(l) == {kind \in DOMAIN l : l[kind] = "own"}

(* Variant: limits on inactivity are forgotten.                            *)
HasRatioOrTimeLimit(ls) ==
    \E t \in Seed : OwnLimits(ls[t]) \ {"inactiveSeedingTime"} # {}

HasPerTorrentLimit(ls) == \E t \in Seed : OwnLimits(ls[t]) # {}

(* updateSeedingLimitTimer with these limits.                              *)
UpdateSeedingLimitTimer(global, ls) ==
    limitTimer' = (global # {} \/ HasPerTorrentLimit(ls))

LimitsInit ==
    /\ globalMax = {}
    /\ limits = [t \in Seed |-> None]
    /\ paused = {}
    /\ superSeeding = {}
    /\ maxRatioAction = "Pause"
    /\ limitTimer = FALSE

SetGlobalMax(kind, isSet) ==
    /\ (kind \in globalMax) # isSet
    /\ globalMax' = IF isSet THEN globalMax \union {kind} ELSE globalMax \ {kind}
    /\ UpdateSeedingLimitTimer(globalMax', limits)
    /\ UNCHANGED <<limits, paused, superSeeding, maxRatioAction>>

SetMaxRatioAction(act) ==
    /\ act # maxRatioAction
    /\ maxRatioAction' = act
    /\ UNCHANGED <<globalMax, limits, paused, superSeeding, limitTimer>>

(* createTorrent, for a torrent that is added or restored.                 *)
CreateTorrent(t, l) ==
    /\ ~Has(t)
    /\ limits' = [limits EXCEPT ![t] = l]
    /\ limitTimer' = (limitTimer \/ l["ratio"] = "own" \/ l["seedingTime"] = "own")
    /\ UNCHANGED <<globalMax, paused, superSeeding, maxRatioAction>>

(* setRatioLimit and the like.                                             *)
SetLimit(t, kind, limit) ==
    /\ Has(t)
    /\ limits[t][kind] # limit
    /\ limits' = [limits EXCEPT ![t][kind] = limit]
    /\ UpdateSeedingLimitTimer(globalMax, limits')
    /\ UNCHANGED <<globalMax, paused, superSeeding, maxRatioAction>>

LimitsInForce(t) ==
    {kind \in Kind : limits[t][kind] = "own" \/ (limits[t][kind] = "global" /\ kind \in globalMax)}

(* The timer finds torrents that have reached a limit in force.            *)
ProcessShareLimits(due) ==
    LET removed == IF maxRatioAction = "Remove" THEN due ELSE {}
        pausing == IF maxRatioAction = "Pause" THEN due ELSE {}
        boosted == IF maxRatioAction = "EnableSuperSeeding" THEN due \ paused ELSE {}
    IN  /\ limitTimer
        /\ \A t \in due : Has(t) /\ LimitsInForce(t) # {}
        /\ limits' = [t \in Seed |-> IF t \in removed THEN None ELSE limits[t]]
        /\ paused' = (paused \ removed) \union pausing
        /\ superSeeding' = (superSeeding \ removed) \union boosted
        /\ UNCHANGED <<globalMax, maxRatioAction, limitTimer>>

LimitsStep ==
    \E due \in SUBSET Seed \ {{}} : ProcessShareLimits(due)

-----------------------------------------------------------------------------
(* Safety: while a torrent of the session has a limit in force the timer   *)
(* runs (updateSeedingLimitTimer and its callers, createTorrent).  It does *)
(* not hold if torrents come with a limit on inactivity only, which        *)
(* createTorrent does not look at.                                         *)
LimitsAreWatched ==
    \A t \in Seed : Has(t) /\ LimitsInForce(t) # {} => limitTimer
=============================================================================
