--------------------------- MODULE SessionSettings ---------------------------
(***************************************************************************)
(* The settings of SessionImpl and what has to follow from them.  Most are *)
(* handed to libtorrent by configure, a queued call that any number of     *)
(* setters share; the speed limits of the other mode are handed over at    *)
(* once.  configure also starts or stops the parser of the IP filter       *)
(* (IPFilter).  Queueing has the order of the torrents stored              *)
(* (TorrentQueue), and share limits start a timer (ShareLimits).           *)
(*                                                                         *)
(* One speed limit stands for download and upload, one endpoint for the    *)
(* listening and outgoing interfaces, one value for each group of settings *)
(* that are handed over alike.  The settings file is not modelled: setters *)
(* change it at once.  The session starts with the settings it has stored. *)
(***************************************************************************)
EXTENDS Integers, IPFilter, TorrentQueue, ShareLimits

CONSTANTS
    Rate,       \* speed limits that are asked for, in bytes
    Value,      \* of an endpoint (port, interface, address) or a group of settings
    Default,    \* the value the session starts with
    MaxCalls    \* bound: calls of setters and other requests

ASSUME SettingsAssumption ==
    /\ Rate \subseteq Int
    /\ Default \in Value
    /\ MaxCalls \in Nat

VARIABLES
    globalLimit,       \* m_globalDownloadSpeedLimit, in KiB
    altLimit,          \* m_altGlobalDownloadSpeedLimit, in KiB
    altEnabled,        \* m_isAltGlobalSpeedLimitEnabled
    endpoint,          \* m_port, m_networkInterface, m_networkInterfaceAddress
    values,            \* the other settings, by group
    listenConfigured,  \* m_listenInterfaceConfigured
    filterConfigured,  \* m_IPFilteringConfigured
    scheduled,         \* m_deferredConfigureScheduled, with the queued configure
    native,            \* settings of libtorrent
    calls

limitSettings == <<globalLimit, altLimit, altEnabled>>
configVars == <<limitSettings, endpoint, values, listenConfigured, filterConfigured,
                scheduled, native>>
vars == <<configVars, calls, filterVars, queueVars, limitVars>>

(* Settings that are always handed over, those of the queueing system, and *)
(* those of peer classes, which are filters of libtorrent.                 *)
Group == {"plain", "queueing", "peerClasses"}

Unlimited == [limit |-> "none"]

InBytes(kib) == kib * 1024

InKiB(rate) ==
    IF rate <= 0 THEN 0 ELSE IF rate <= 1024 THEN 1 ELSE rate \div 1024

SpeedLimit(isAlt) == InBytes(IF isAlt THEN altLimit ELSE globalLimit)

(* loadLTSettings on top of the settings libtorrent has: the limits of     *)
(* slow torrents stay as they were when the queueing system is off.        *)
LTSettings(old) ==
    [old EXCEPT !.rate = SpeedLimit(altEnabled),
                !.endpoint = IF listenConfigured THEN @ ELSE endpoint,
                !.plain = values["plain"],
                !.active = IF queueing THEN values["queueing"] ELSE Unlimited,
                !.slow = IF queueing THEN values["queueing"] ELSE @]

(* The constructor, with the stored settings: without speed limits and     *)
(* share limits, and with the default values.                              *)
Init ==
    /\ FilterInit
    /\ QueueInit
    /\ LimitsInit
    /\ globalLimit = 0
    /\ altLimit = 0
    /\ altEnabled = FALSE
    /\ endpoint = Default
    /\ values = [group \in Group |-> Default]
    /\ listenConfigured = TRUE
    /\ filterConfigured = TRUE
    /\ scheduled = FALSE
    /\ native = [rate |-> SpeedLimit(altEnabled), endpoint |-> endpoint, plain |-> values["plain"],
                 active |-> IF queueing THEN values["queueing"] ELSE Unlimited,
                 slow |-> IF queueing THEN values["queueing"] ELSE Unlimited,
                 peerClasses |-> values["peerClasses"]]
    /\ calls = 0

-----------------------------------------------------------------------------
(* Setters, and what else is asked of the session.                         *)

Call ==
    /\ Alive
    /\ calls < MaxCalls
    /\ calls' = calls + 1

ConfigureDeferred == scheduled' = TRUE

SetGlobalSpeedLimit(rate) ==
    /\ Call
    /\ rate # SpeedLimit(FALSE)
    /\ globalLimit' = InKiB(rate)
    /\ IF altEnabled THEN UNCHANGED scheduled ELSE ConfigureDeferred
    /\ UNCHANGED <<altLimit, altEnabled, endpoint, values, listenConfigured, filterConfigured,
                   native, filterVars, queueVars, limitVars>>

SetAltGlobalSpeedLimit(rate) ==
    /\ Call
    /\ rate # SpeedLimit(TRUE)
    /\ altLimit' = InKiB(rate)
    /\ IF altEnabled THEN ConfigureDeferred ELSE UNCHANGED scheduled
    /\ UNCHANGED <<globalLimit, altEnabled, endpoint, values, listenConfigured, filterConfigured,
                   native, filterVars, queueVars, limitVars>>

(* Variant: the limits of the other mode wait for the next configure.      *)
SetAltGlobalSpeedLimitEnabledOnly(enabled) ==
    /\ Call
    /\ enabled # altEnabled
    /\ altEnabled' = enabled
    /\ UNCHANGED <<globalLimit, altLimit, endpoint, values, listenConfigured, filterConfigured,
                   scheduled, native, filterVars, queueVars, limitVars>>

(* By the user or by the scheduler of the two modes; applyBandwidthLimits  *)
(* does not wait for configure.                                            *)
SetAltGlobalSpeedLimitEnabled(enabled) ==
    /\ Call
    /\ enabled # altEnabled
    /\ altEnabled' = enabled
    /\ native' = [native EXCEPT !.rate = SpeedLimit(enabled)]
    /\ UNCHANGED <<globalLimit, altLimit, endpoint, values, listenConfigured, filterConfigured,
                   scheduled, filterVars, queueVars, limitVars>>

(* setPort, setNetworkInterface, setNetworkInterfaceAddress.               *)
SetEndpoint(new) ==
    /\ Call
    /\ new # endpoint
    /\ endpoint' = new
    /\ listenConfigured' = FALSE
    /\ ConfigureDeferred
    /\ UNCHANGED <<limitSettings, values, filterConfigured, native, filterVars, queueVars, limitVars>>

SetPlain(value) ==
    /\ value # values["plain"]
    /\ values' = [values EXCEPT !["plain"] = value]

SetQueueingLimit(value) ==
    /\ value # values["queueing"]
    /\ values' = [values EXCEPT !["queueing"] = value]

SetPeerClasses(value) ==
    /\ value # values["peerClasses"]
    /\ values' = [values EXCEPT !["peerClasses"] = value]

SetValue(value) ==
    /\ Call
    /\ SetPlain(value) \/ SetQueueingLimit(value) \/ SetPeerClasses(value)
    /\ ConfigureDeferred
    /\ UNCHANGED <<limitSettings, endpoint, listenConfigured, filterConfigured, native,
                   filterVars, queueVars, limitVars>>

SetQueueing(enabled) ==
    /\ Call
    /\ SetQueueingSystemEnabled(enabled)
    /\ ConfigureDeferred
    /\ UNCHANGED <<limitSettings, endpoint, values, listenConfigured, filterConfigured, native,
                   filterVars, limitVars>>

(* The setters of the IP filter: they leave the filter to configure.       *)
SetIPFilteringEnabled(enabled) ==
    /\ enabled # filtering
    /\ filtering' = enabled
    /\ UNCHANGED <<filterFile, bannedIPs>>

SetIPFilterFile(file) ==
    /\ file # filterFile
    /\ filterFile' = file
    /\ UNCHANGED <<filtering, bannedIPs>>

SetBannedIPs(ips) ==
    /\ ips # bannedIPs
    /\ bannedIPs' = ips
    /\ UNCHANGED <<filtering, filterFile>>

SetFilter ==
    /\ Call
    /\ \/ \E enabled \in BOOLEAN : SetIPFilteringEnabled(enabled)
       \/ \E file \in File : SetIPFilterFile(file)
       \/ \E ips \in SUBSET IP : SetBannedIPs(ips)
    /\ filterConfigured' = FALSE
    /\ ConfigureDeferred
    /\ UNCHANGED <<limitSettings, endpoint, values, listenConfigured, native, nativeFilter, parser,
                   signals, jobs, reading, raced, queueVars, limitVars>>

(* Requests that do not go through configure.                              *)
Ban ==
    /\ Call
    /\ \E ip \in IP : BanIP(ip)
    /\ UNCHANGED <<configVars, queueVars, limitVars>>

ChangeOrder ==
    /\ Call
    /\ ChangeQueue
    /\ UNCHANGED <<configVars, filterVars, limitVars>>

(* A torrent comes with the limits of the session, but for at most one.    *)
LimitsOfNew ==
    {[[k \in Kind |-> "global"] EXCEPT ![kind] = limit] : kind \in Kind, limit \in Limit}

InactiveOnly(l) == OwnLimits(l) = {"inactiveSeedingTime"}

ChangeLimits ==
    /\ Call
    /\ \/ \E kind \in Kind, isSet \in BOOLEAN : SetGlobalMax(kind, isSet)
       \/ \E act \in MaxRatioAction : SetMaxRatioAction(act)
       \/ \E t \in Seed, l \in LimitsOfNew :
              (InactiveOnly(l) => AddsInactiveOnly) /\ CreateTorrent(t, l)
       \/ \E t \in Seed, kind \in Kind, limit \in Limit : SetLimit(t, kind, limit)
    /\ UNCHANGED <<configVars, filterVars, queueVars>>

-----------------------------------------------------------------------------
(* The event loop gets to the queued configure.                            *)
Configure ==
    /\ Alive
    /\ scheduled
    /\ native' = [LTSettings(native) EXCEPT !.peerClasses = values["peerClasses"]]
    /\ listenConfigured' = TRUE
    /\ IF filterConfigured THEN UNCHANGED <<parser, nativeFilter, raced>>
       ELSE IF filtering THEN EnableIPFilter
       ELSE DisableIPFilter
    /\ filterConfigured' = TRUE
    /\ scheduled' = FALSE
    /\ UNCHANGED <<limitSettings, endpoint, values, filtering, filterFile, bannedIPs, signals,
                   jobs, reading, queueVars, limitVars, calls>>

StepOfFilter == Alive /\ FilterStep /\ UNCHANGED <<configVars, calls, queueVars, limitVars>>

StepOfQueue == QueueStep /\ UNCHANGED <<configVars, calls, filterVars, limitVars>>

StepOfLimits == Alive /\ LimitsStep /\ UNCHANGED <<configVars, calls, filterVars, queueVars>>

Next ==
    \/ \E rate \in Rate : SetGlobalSpeedLimit(rate)
    \/ \E rate \in Rate : SetAltGlobalSpeedLimit(rate)
    \/ \E enabled \in BOOLEAN : SetAltGlobalSpeedLimitEnabled(enabled)
    \/ \E new \in Value : SetEndpoint(new)
    \/ \E value \in Value : SetValue(value)
    \/ \E enabled \in BOOLEAN : SetQueueing(enabled)
    \/ SetFilter
    \/ Ban
    \/ ChangeOrder
    \/ ChangeLimits
    \/ Configure
    \/ StepOfFilter
    \/ StepOfQueue
    \/ StepOfLimits

Spec == Init /\ [][Next]_vars

-----------------------------------------------------------------------------
(* Safety: unless configure is still to come, libtorrent has the settings  *)
(* that are stored, in the mode that is on (the setters, configure,        *)
(* loadLTSettings, applyBandwidthLimits).                                  *)
SettingsInForce ==
    ~scheduled =>
        /\ native.rate = SpeedLimit(altEnabled)
        /\ native.endpoint = endpoint
        /\ native.plain = values["plain"]
        /\ native.peerClasses = values["peerClasses"]
        /\ native.active = IF queueing THEN values["queueing"] ELSE Unlimited
        /\ queueing => native.slow = values["queueing"]

(* Safety: when everything that concerns the filter has been done, every   *)
(* banned address is blocked, and the rules are those of the file the      *)
(* settings name (configureComponents, handleIPFilterParsed, banIP).  The  *)
(* filter may stay wrong when it was replaced between the two calls of a   *)
(* ban in the worker: the worker writes the filter of before.              *)
FilterIsComplete ==
    ~scheduled /\ FilterIsQuiet /\ ~raced => FilterIsWanted

=============================================================================
