------------------------------ MODULE IPFilter ------------------------------
(***************************************************************************)
(* The IP filter of libtorrent as SessionImpl keeps it.  Three threads     *)
(* have a hand in it: the main thread replaces the filter, the thread that *)
(* parses the file of rules reports to the main thread, and a ban is       *)
(* added by the asynchronous worker, which reads libtorrent's filter, adds *)
(* the address and writes it back.                                         *)
(*                                                                         *)
(* The parser's thread is external: it ends with IPFilterParsed or with    *)
(* IPFilterError, whose slots are queued calls, made even if the parser    *)
(* has been started again or deleted since.  A file of rules is one entry  *)
(* of the filter.                                                          *)
(***************************************************************************)
EXTENDS Sequences

CONSTANTS
    IP,
    File,     \* files of rules
    Broken    \* those that cannot be parsed

ASSUME IPFilterAssumption ==
    /\ IP \cap File = {}
    /\ Broken \subseteq File

VARIABLES
    filtering,     \* m_isIPFilteringEnabled
    filterFile,    \* m_IPFilterFile
    bannedIPs,     \* m_bannedIPs
    nativeFilter,  \* libtorrent's filter: what it blocks
    parser,        \* m_filterParser, or NoParser
    signals,       \* of the parser, not handled yet
    jobs,          \* of m_asyncWorker: the addresses to be blocked
    reading,       \* the filter the worker has read, or NotReading
    raced          \* history: the filter was last replaced while the worker
                   \* was between reading it and writing it

filterVars == <<filtering, filterFile, bannedIPs, nativeFilter, parser, signals, jobs, reading, raced>>

NoParser == [file |-> "none"]
NotReading == [ip |-> "none"]

FilterInit ==
    /\ filtering = FALSE
    /\ filterFile \in File
    /\ bannedIPs = {}
    /\ nativeFilter = {}
    /\ parser = NoParser
    /\ signals = <<>>
    /\ jobs = <<>>
    /\ reading = NotReading
    /\ raced = FALSE

RulesOf(file) == {file} \ Broken

(* set_ip_filter with the banned addresses and these rules.                *)
ReplaceFilter(rules) ==
    /\ nativeFilter' = bannedIPs \union rules
    /\ raced' = (reading # NotReading)

(* A parser that runs is stopped and started again on the new file.        *)
EnableIPFilter ==
    /\ parser' = [file |-> filterFile, running |-> TRUE]
    /\ UNCHANGED <<nativeFilter, raced>>

DisableIPFilter ==
    /\ parser' = NoParser
    /\ ReplaceFilter({})

ParserEnds ==
    /\ parser # NoParser
    /\ parser.running
    /\ parser' = [parser EXCEPT !.running = FALSE]
    /\ signals' = Append(signals, IF parser.file \in Broken THEN "error" ELSE "parsed")
    /\ UNCHANGED <<filtering, filterFile, bannedIPs, nativeFilter, jobs, reading, raced>>

(* The rules of a parser that is running again may be there in part.       *)
ParsedRules ==
    IF parser.running THEN {{}, RulesOf(parser.file)} ELSE {RulesOf(parser.file)}

(* Variant: the banned addresses are left out.                             *)
HandleIPFilterParsedRulesOnly ==
    /\ signals # <<>>
    /\ Head(signals) = "parsed"
    /\ signals' = Tail(signals)
    /\ parser # NoParser
    /\ \E rules \in ParsedRules : nativeFilter' = rules
    /\ raced' = (reading # NotReading)
    /\ UNCHANGED <<filtering, filterFile, bannedIPs, parser, jobs, reading>>

HandleIPFilterParsed ==
    /\ signals # <<>>
    /\ Head(signals) = "parsed"
    /\ signals' = Tail(signals)
    /\ IF parser = NoParser
       THEN UNCHANGED <<nativeFilter, raced>>
       ELSE \E rules \in ParsedRules : ReplaceFilter(rules)
    /\ UNCHANGED <<filtering, filterFile, bannedIPs, parser, jobs, reading>>

HandleIPFilterError ==
    /\ signals # <<>>
    /\ Head(signals) = "error"
    /\ signals' = Tail(signals)
    /\ ReplaceFilter({})
    /\ UNCHANGED <<filtering, filterFile, bannedIPs, parser, jobs, reading>>

BanIP(ip) ==
    /\ ip \notin bannedIPs
    /\ jobs' = Append(jobs, ip)
    /\ bannedIPs' = bannedIPs \union {ip}
    /\ UNCHANGED <<filtering, filterFile, nativeFilter, parser, signals, reading, raced>>

(* The worker has one thread: its jobs are done one after the other.       *)
WorkerReadsFilter ==
    /\ reading = NotReading
    /\ jobs # <<>>
    /\ reading' = [ip |-> Head(jobs), filter |-> nativeFilter]
    /\ jobs' = Tail(jobs)
    /\ UNCHANGED <<filtering, filterFile, bannedIPs, nativeFilter, parser, signals, raced>>

WorkerWritesFilter ==
    /\ reading # NotReading
    /\ nativeFilter' = reading.filter \union {reading.ip}
    /\ reading' = NotReading
    /\ UNCHANGED <<filtering, filterFile, bannedIPs, parser, signals, jobs, raced>>

FilterStep ==
    \/ ParserEnds
    \/ HandleIPFilterParsed
    \/ HandleIPFilterError
    \/ WorkerReadsFilter
    \/ WorkerWritesFilter

-----------------------------------------------------------------------------
(* Nothing that concerns the filter is under way.                          *)
FilterIsQuiet ==
    /\ parser = NoParser \/ ~parser.running
    /\ signals = <<>>
    /\ jobs = <<>>
    /\ reading = NotReading

WantedRules == IF filtering THEN RulesOf(filterFile) ELSE {}

(* Every banned address is blocked, and of the files of rules the one the  *)
(* settings name and no other.                                             *)
FilterIsWanted ==
    /\ bannedIPs \subseteq nativeFilter
    /\ nativeFilter \cap File = WantedRules
=============================================================================
