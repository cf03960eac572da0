---------------------------- MODULE MalwareScans ----------------------------
(***************************************************************************)
(* Local scans: ScannerAdapter and its adapters, aggregate and MalwareStore*)
(* of malware.py, with the multi-engine analysis jobs.                     *)
(*                                                                         *)
(* A job runs its scanners one after the other.  Each scan copies the      *)
(* master to a workspace, runs the engine on the copy, then writes the     *)
(* observation sidecar, the raw report and the index row.  One operator    *)
(* scans and may be killed between any two of these; another process       *)
(* rebuilds the index at any moment.                                       *)
(***************************************************************************)
EXTENDS FiniteSetsExt, Sequences, SequencesExt

CONSTANTS
    Targets,     \* objects that may be scanned
    Engines,     \* scanner ids of an analysis
    AdapterOf,   \* class of each: "clamav", "command", "rules" or "historical"
    Ready,       \* engines that are installed, configured or have their rules
    Endings,     \* how the program of an engine may end: [status, lines]
    MaxScans     \* bound on the observations

ASSUME EnginesAssumption ==
    /\ AdapterOf \in [Engines -> {"clamav", "command", "rules", "historical"}]
    /\ Ready \subseteq Engines
    /\ \A x \in Endings : x.status \in {"0", "1", "2", "timeout", "failure"} /\ x.lines \in {"none", "text", "hits"}

VARIABLES
    scans,       \* observation sidecars, in the order they were written
    reports,     \* observations whose raw report is there
    table,       \* observations in malware.sqlite3
    tableLost,   \* history: the index was deleted and not rebuilt
    scanJob,     \* the file of the job begun last
    spc, scan    \* next step of the scanner process and its local variables

scanVars == <<scans, reports, table, tableLost, scanJob, spc, scan>>

Failures == {"ERROR", "UNSUPPORTED", "TOOL_MISSING", "DEFINITIONS_MISSING", "TIMEOUT", "INCOMPLETE"}
Absent == {"TOOL_MISSING", "UNSUPPORTED", "DEFINITIONS_MISSING"}

(* scan and parse_output of the adapters: the result of a program that     *)
(* exits with a status and prints nothing, some text or lines of the form  *)
(* the adapter takes for detections.  For YARA every line that is not a    *)
(* warning is one, and the exit status is not looked at.  A timeout of a   *)
(* command comes back as ERROR and is told apart by scan_object.           *)
Clam(x) ==
    CASE x.status = "0" -> "CLEAN"
      [] x.status = "1" /\ x.lines = "hits" -> "DETECTED"
      [] x.status = "2" -> "ERROR"
      [] OTHER -> "INCONCLUSIVE"
Command(x) == IF x.status = "0" /\ x.lines # "none" THEN "CLEAN" ELSE "INCONCLUSIVE"
Rules(x) == IF x.lines = "none" THEN "NOT_DETECTED" ELSE "DETECTED"
Ended(x) == IF x.status = "timeout" THEN "TIMEOUT" ELSE "ERROR"

(* A runner in a guest, which RAB does not control, gives any result.      *)
AnyResult == {"CLEAN", "NOT_DETECTED", "DETECTED", "SUSPICIOUS", "INCONCLUSIVE", "INCOMPLETE", "NOT_SCANNED"}

(* What an engine that is not there answers.                               *)
NotThere(adapter) == CASE adapter = "rules" -> "DEFINITIONS_MISSING"
                       [] adapter = "historical" -> "TOOL_MISSING"
                       [] OTHER -> "UNSUPPORTED"

Answers(e) ==
    LET adapter == AdapterOf[e]
        Result(x) == CASE x.status \in {"timeout", "failure"} -> Ended(x)
                       [] adapter = "clamav" -> Clam(x)
                       [] adapter = "rules" -> Rules(x)
                       [] OTHER -> Command(x)
    IN IF e \notin Ready THEN {NotThere(adapter)}
       ELSE IF adapter = "historical" THEN AnyResult
       ELSE {Result(x) : x \in Endings}

(* aggregate: the first line that applies.                                 *)
Aggregate_SuspicionFirst(V) ==
    CASE "INCONCLUSIVE" \in V -> "SUSPICIOUS"
      [] {"DETECTED", "NOT_DETECTED"} \subseteq V -> "CONFLICTING"
      [] "DETECTED" \in V -> "MALWARE_DETECTED"
      [] OTHER -> "UNKNOWN"

Aggregate(V) ==
    IF {"DETECTED", "NOT_DETECTED"} \subseteq V THEN "CONFLICTING"
    ELSE IF "DETECTED" \in V THEN "MALWARE_DETECTED"
    ELSE IF V \cap {"SUSPICIOUS", "INCONCLUSIVE"} # {} THEN "SUSPICIOUS"
    ELSE IF "NOT_DETECTED" \in V /\ V \cap Failures = {} THEN "NO_DETECTIONS_OBSERVED"
    ELSE IF "CLEAN" \in V /\ V \cap {"ERROR", "UNSUPPORTED"} = {} THEN "CLEAN_OBSERVED"
    ELSE IF V \cap Failures # {} THEN "ANALYSIS_FAILED"
    ELSE "UNKNOWN"

StatusIn(rowSet, o) == Aggregate({scans[n].result : n \in {n \in rowSet : scans[n].object = o}})
-----------------------------------------------------------------------------
NoScan == [object |-> "none", engine |-> "none", todo |-> {}, listed |-> {}, result |-> "none", warned |-> FALSE]
NoScanJob == [object |-> "none", engines |-> {}, state |-> "NONE", observations |-> {}]

ScanInit ==
    /\ scans = <<>> /\ reports = {} /\ table = {} /\ tableLost = FALSE
    /\ scanJob = NoScanJob
    /\ spc = "rest" /\ scan = NoScan

Newest == Len(scans)
Step(label) == spc' = label

(* run_analysis: the analysis set, new with every run, then the job file.  *)
StartAnalysis(o, E) ==
    /\ spc = "rest" /\ Len(scans) + Cardinality(E) <= MaxScans
    /\ scanJob' = [object |-> o, engines |-> E, state |-> "ANALYSING", observations |-> {}]
    /\ scan' = [NoScan EXCEPT !.object = o, !.todo = E, !.warned = (E = {})]
    /\ Step("next")
    /\ UNCHANGED <<scans, reports, table, tableLost>>

NextEngine(e) ==
    /\ spc = "next" /\ e \in scan.todo
    /\ scan' = [scan EXCEPT !.engine = e, !.todo = @ \ {e}]
    /\ Step("copy")
    /\ UNCHANGED <<scans, reports, table, tableLost, scanJob>>

(* scan_object lets an exception through; run_analysis makes it a warning. *)
Raised_Silent == scan
Raised == [scan EXCEPT !.warned = TRUE]

(* _copy_for_scan: the copy is made, the master fails verification, or     *)
(* copying fails, which is recorded as an ERROR of the scanner.            *)
Copy ==
    /\ spc = "copy"
    /\ \/ Step("engine") /\ UNCHANGED scan
       \/ Step("next") /\ scan' = Raised
       \/ Step("sidecar") /\ scan' = [scan EXCEPT !.result = "ERROR"]
    /\ UNCHANGED <<scans, reports, table, tableLost, scanJob>>

(* The engine's answer, or ERROR for an exception of its adapter.          *)
RunEngine ==
    /\ spc = "engine"
    /\ \E r \in Answers(scan.engine) \cup {"ERROR"} : scan' = [scan EXCEPT !.result = r]
    /\ Step("sidecar")
    /\ UNCHANGED <<scans, reports, table, tableLost, scanJob>>

WriteScan ==
    /\ spc = "sidecar"
    /\ scans' = Append(scans, [object |-> scan.object, engine |-> scan.engine, result |-> scan.result])
    /\ Step("report")
    /\ UNCHANGED <<reports, table, tableLost, scanJob, scan>>

WriteReport ==
    /\ spc = "report"
    /\ reports' = reports \cup {Newest}
    /\ Step("row")
    /\ UNCHANGED <<scans, table, tableLost, scanJob, scan>>

(* The INSERT raises when a rebuild has indexed the sidecar already: the   *)
(* job does not list the observation then.                                 *)
InsertRow ==
    /\ spc = "row"
    /\ table' = table \cup {Newest}
    /\ scan' = IF Newest \in table THEN Raised
               ELSE [scan EXCEPT !.listed = @ \cup {Newest}, !.warned = @ \/ scan.result \in Absent]
    /\ Step("next")
    /\ UNCHANGED <<scans, reports, tableLost, scanJob>>

FinishAnalysis ==
    /\ spc = "next" /\ scan.todo = {}
    /\ scanJob' = [scanJob EXCEPT !.observations = scan.listed,
                   !.state = IF scan.warned THEN "COMPLETED_WITH_WARNINGS" ELSE "COMPLETED"]
    /\ Step("rest") /\ scan' = NoScan
    /\ UNCHANGED <<scans, reports, table, tableLost>>

(* rebuild: delete and insert every sidecar, in one transaction.           *)
RebuildScans ==
    /\ table' = DOMAIN scans
    /\ tableLost' = FALSE
    /\ UNCHANGED <<scans, reports, scanJob, spc, scan>>

LoseScans ==
    /\ spc = "rest" /\ table # {}
    /\ table' = {} /\ tableLost' = TRUE
    /\ UNCHANGED <<scans, reports, scanJob, spc, scan>>

(* A killed job stays ANALYSING with no observation listed.                *)
KillScan ==
    /\ spc # "rest"
    /\ Step("rest") /\ scan' = NoScan
    /\ UNCHANGED <<scans, reports, table, tableLost, scanJob>>

ScanNext ==
    \/ \E o \in Targets, E \in SUBSET Engines : StartAnalysis(o, E)
    \/ \E e \in Engines : NextEngine(e)
    \/ Copy \/ RunEngine \/ WriteScan \/ WriteReport \/ InsertRow \/ FinishAnalysis
    \/ RebuildScans \/ LoseScans \/ KillScan

ScanSpec == ScanInit /\ [][ScanNext]_scanVars
-----------------------------------------------------------------------------
(* A job that completed without a warning rests on evidence of every one   *)
(* of its engines: an observation of its object, with its report, that the *)
(* engine was there to make.                                               *)
CompletedJobHasEvidence ==
    scanJob.state = "COMPLETED" => \A e \in scanJob.engines :
        \E n \in scanJob.observations :
            /\ n \in reports
            /\ scans[n].engine = e /\ scans[n].object = scanJob.object
            /\ scans[n].result \notin Absent

(* A detection is never hidden: whatever is scanned, killed or rebuilt     *)
(* after it, an object once reported detected or conflicting stays one of  *)
(* the two, as long as nobody deletes the index.                           *)
Incriminated(rowSet, o) == StatusIn(rowSet, o) \in {"MALWARE_DETECTED", "CONFLICTING"}

DetectionStaysVisible ==
    [][\A o \in Targets : Incriminated(table, o) /\ ~tableLost' => Incriminated(table, o)']_scanVars
=============================================================================
