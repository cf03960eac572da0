---------------------------- MODULE SourceIndex ----------------------------
(***************************************************************************)
(* What the archive knows of an upstream source: acquisition.py keeps      *)
(* source_objects and packages in SQLite and writes occurrence, event and  *)
(* generation sidecars; catalogue.py rebuilds the tables from the files.   *)
(*                                                                         *)
(* A sync goes over the pairs (payload .lha, .readme) of a listing, then   *)
(* marks what the listing lacks.  An HTTP acquisition fetches the paths it *)
(* is asked for and then links the pairs.  Both are cut off anywhere by a  *)
(* kill or an exception.  One command runs at a time.                      *)
(*                                                                         *)
(* A content is the rank of its sha256 among those of its path, because a  *)
(* rebuild reads the manifests in that order.  Archive.ingest is one step; *)
(* ArchiveStore has its details.  Metadata, the PACKAGE_STATE and ingest   *)
(* events and the package_generations rows decide nothing here: the        *)
(* largest row number is always the package's current_generation.          *)
(***************************************************************************)
EXTENDS Naturals, FiniteSets, FiniteSetsExt

CONSTANTS
    Stems,          \* paths without suffix, one package each
    Contents,       \* hash ranks
    MaxGenerations, \* bound on the generations of a package
    MaxChanges,     \* bound on upstream changes
    MaxFailures,    \* bound on ingests that raise
    MaxCrashes,     \* bound on kills
    MaxLosses,      \* bound on losses of the SQLite file
    MaxFaults       \* bound on ingests that raise, kills and losses together

Absent == 0
ASSUME ContentsAssumption == Contents \subseteq Nat \ {Absent}
ASSUME GenerationsAssumption == MaxGenerations \in Nat

Parts    == {"lha", "readme"}
Paths    == Stems \X Parts
Numbers == 1..MaxGenerations
NoRow    == [content |-> Absent, status |-> "NONE"]
NoRecord == [payload |-> Absent, readme |-> Absent, state |-> "NONE"]
NoPackage == [gen |-> 0, record |-> NoRecord, present |-> FALSE]

VARIABLES
    upstream,    \* content of each path of the mirror, or Absent
    occurrences, \* contents of each path with an occurrence sidecar
    sidecars,    \* sidecars[s][g]: generation-<g>.json of package s
    vanished,    \* paths with an UPSTREAM_DISAPPEARANCE event
    lastEvent,   \* PRESENT or MISSING by the last event of the package
    rows,        \* source_objects
    package,     \* packages
    at,          \* next step of the running command
    run,         \* its local variables
    faults,      \* changes, failures, crashes and losses so far
    behind       \* history: the SQLite file was lost and not yet rebuilt

files == <<occurrences, sidecars, vanished, lastEvent>>
index == <<rows, package>>
sourceVars == <<upstream, files, index, at, run, faults, behind>>

(* http: it is acquire_http_aminet; asked: the listing, or the paths asked *)
(* for; todo: stems to do; cur: stem in hand; left: files to ingest next;  *)
(* file: the one in hand; got: object ids returned so far; failed: stems   *)
(* with a file that raised; back: cur had disappeared; untold: paths, then *)
(* packages, that disappeared and have no event yet.                       *)
Idle == [http |-> FALSE, asked |-> {}, todo |-> {}, left |-> {}, failed |-> {}, untold |-> {},
         back |-> FALSE, cur |-> CHOOSE s \in Stems : TRUE, file |-> CHOOSE p \in Paths : TRUE,
         got |-> [p \in Paths |-> Absent]]
Stop == at' = "idle" /\ run' = Idle

OfStem(s, A) == {p \in A : p[1] = s}
StemsOf(A)   == {p[1] : p \in A}
Listing      == {p \in Paths : upstream[p] # Absent}
Limits == [change |-> MaxChanges, failure |-> MaxFailures, crash |-> MaxCrashes, loss |-> MaxLosses]
Fault(kind) ==
    /\ faults[kind] < Limits[kind]
    /\ kind = "change" \/ faults.failure + faults.crash + faults.loss < MaxFaults
    /\ faults' = [faults EXCEPT ![kind] = @ + 1]

SourceInit ==
    /\ upstream = [p \in Paths |-> Absent]
    /\ occurrences = [p \in Paths |-> {}]
    /\ sidecars = [s \in Stems |-> [g \in Numbers |-> NoRecord]]
    /\ vanished = {}
    /\ lastEvent = [s \in Stems |-> "PRESENT"]
    /\ rows = [p \in Paths |-> NoRow]
    /\ package = [s \in Stems |-> NoPackage]
    /\ at = "idle" /\ run = Idle
    /\ faults = [kind \in DOMAIN Limits |-> 0]
    /\ behind = FALSE

-----------------------------------------------------------------------------
(* rsync, or an operator, brings files of the mirror up to date, and an    *)
(* upstream server may drop some.                                          *)
ChangeUpstream ==
    /\ at = "idle" /\ Fault("change")
    /\ \E A \in SUBSET Paths \ {{}}, c \in Contents \cup {Absent} :
          /\ \A p \in A : upstream[p] # c
          /\ upstream' = [p \in Paths |-> IF p \in A THEN c ELSE upstream[p]]
    /\ UNCHANGED <<files, index, at, run, behind>>

Begin(A, local, step) ==
    /\ at = "idle"
    /\ \A s \in Stems : package[s].gen < MaxGenerations
    /\ run' = [local EXCEPT !.asked = A, !.todo = StemsOf(A)]
    /\ at' = step
    /\ UNCHANGED <<upstream, files, index, faults, behind>>

(* sync_aminet lists the directory.                                        *)
StartSync == Begin(Listing, Idle, "pick")

(* acquire_http_aminet fetches all it was asked for before any package.    *)
StartHttp == \E A \in SUBSET Paths \ {{}} :
    Begin(A, [Idle EXCEPT !.http = TRUE, !.left = A], "files")

PickStem(s) ==
    /\ at = "pick" /\ s \in run.todo
    /\ run' = [run EXCEPT !.cur = s, !.todo = @ \ {s},
                          !.left = IF run.http THEN {} ELSE OfStem(s, run.asked)]
    /\ at' = IF run.http THEN "package" ELSE "files"
    /\ UNCHANGED <<upstream, files, index, faults, behind>>

(* ingest_completed returns early for bytes that are PRESENT already.      *)
\* Mutation: a path that had disappeared counts as known.
Known_AnyStatus(p) == rows[p].content = upstream[p]
Known(p) == rows[p] = [content |-> upstream[p], status |-> "PRESENT"]

(* The payload of a pair is ingested before its readme.                    *)
Ingest(p) ==
    /\ at = "files" /\ p \in run.left /\ upstream[p] # Absent
    /\ ~run.http /\ p[2] = "readme" => <<p[1], "lha">> \notin run.left
    /\ run' = [run EXCEPT !.file = p, !.left = @ \ {p}, !.got[p] = upstream[p]]
    /\ IF Known(p) THEN UNCHANGED <<occurrences, at>>
       ELSE occurrences' = [occurrences EXCEPT ![p] = @ \cup {upstream[p]}] /\ at' = "row"
    /\ UNCHANGED <<upstream, sidecars, vanished, lastEvent, index, faults, behind>>

RecordRow ==
    /\ at = "row" /\ at' = "files"
    /\ rows' = [rows EXCEPT ![run.file] = [content |-> run.got[run.file], status |-> "PRESENT"]]
    /\ UNCHANGED <<upstream, files, package, run, faults, behind>>

(* A file cannot be had, staged or verified.  A sync goes on with the next *)
(* stem; an HTTP acquisition raises.                                       *)
FileFails ==
    /\ at = "files" /\ run.left # {}
    /\ IF run.http /\ \E p \in run.left : upstream[p] = Absent THEN UNCHANGED faults ELSE Fault("failure")
    /\ IF run.http THEN Stop
       ELSE run' = [run EXCEPT !.failed = @ \cup {run.cur}, !.left = {}] /\ UNCHANGED at
    /\ UNCHANGED <<upstream, files, index, behind>>

FilesDone ==
    /\ at = "files" /\ run.left = {}
    /\ at' = IF run.http THEN "pick" ELSE "package"
    /\ UNCHANGED <<upstream, files, index, run, faults, behind>>

Record(s) ==
    LET payload == run.got[<<s, "lha">>]
        readme  == run.got[<<s, "readme">>]
    IN  [payload |-> payload, readme |-> readme, state |->
            IF s \in run.failed THEN "ACQUISITION_FAILED"
            ELSE IF {payload, readme} \cap {Absent} = {} THEN "COMPLETE"
            ELSE IF readme # Absent THEN "PAYLOAD_MISSING" ELSE "README_MISSING"]

(* The transaction of _package.                                            *)
UpdatePackage ==
    LET s          == run.cur
        old        == package[s]
        reappeared == old.gen > 0 /\ ~old.present
        unchanged  == old.gen > 0 /\ old.record = Record(s)
    IN  /\ at = "package"
        /\ run' = [run EXCEPT !.back = reappeared]
        /\ package' = [package EXCEPT ![s] =
              [gen |-> IF unchanged THEN old.gen ELSE old.gen + 1,
               record |-> Record(s), present |-> TRUE]]
        /\ at' = IF ~unchanged THEN "sidecar" ELSE IF reappeared THEN "reappear" ELSE "pick"
        /\ UNCHANGED <<upstream, files, rows, faults, behind>>

\* Mutation: the event of a package that came back changed is forgotten.
AfterSidecar_Silent == "pick"
AfterSidecar == IF run.back THEN "reappear" ELSE "pick"
WriteSidecar ==
    /\ at = "sidecar"
    /\ LET s == run.cur IN sidecars' = [sidecars EXCEPT ![s][package[s].gen] = package[s].record]
    /\ at' = AfterSidecar
    /\ UNCHANGED <<upstream, occurrences, vanished, lastEvent, index, run, faults, behind>>

(* The SOURCE_REAPPEARANCE event.                                          *)
TellReappeared ==
    /\ at = "reappear" /\ at' = "pick"
    /\ lastEvent' = [lastEvent EXCEPT ![run.cur] = "PRESENT"]
    /\ UNCHANGED <<upstream, occurrences, sidecars, vanished, index, run, faults, behind>>

HttpDone ==
    /\ at = "pick" /\ run.todo = {} /\ run.http
    /\ Stop
    /\ UNCHANGED <<upstream, files, index, faults, behind>>

(* The transaction of mark_missing.                                        *)
MarkMissing ==
    LET gone == {p \in Paths \ run.asked : rows[p].status = "PRESENT"}
    IN  /\ at = "pick" /\ run.todo = {} /\ ~run.http
        /\ rows' = [p \in Paths |-> IF p \in gone THEN [rows[p] EXCEPT !.status = "MISSING"] ELSE rows[p]]
        /\ run' = [run EXCEPT !.untold = gone]
        /\ at' = "tell paths"
        /\ UNCHANGED <<upstream, files, package, faults, behind>>

TellPath(p) ==
    /\ at = "tell paths" /\ p \in run.untold
    /\ vanished' = vanished \cup {p}
    /\ run' = [run EXCEPT !.untold = @ \ {p}]
    /\ UNCHANGED <<upstream, occurrences, sidecars, lastEvent, index, at, faults, behind>>

(* The last transaction of sync_aminet.                                    *)
DropPackages ==
    LET gone == {s \in Stems \ StemsOf(run.asked) : package[s].present}
    IN  /\ at = "tell paths" /\ run.untold = {}
        /\ package' = [s \in Stems |-> [package[s] EXCEPT !.present = @ /\ s \notin gone]]
        /\ run' = [run EXCEPT !.untold = gone]
        /\ at' = "tell packages"
        /\ UNCHANGED <<upstream, files, rows, faults, behind>>

TellPackage(s) ==
    /\ at = "tell packages" /\ s \in run.untold
    /\ lastEvent' = [lastEvent EXCEPT ![s] = "MISSING"]
    /\ run' = [run EXCEPT !.untold = @ \ {s}]
    /\ UNCHANGED <<upstream, occurrences, sidecars, vanished, index, at, faults, behind>>

FinishSync ==
    /\ at = "tell packages" /\ run.untold = {}
    /\ Stop
    /\ UNCHANGED <<upstream, files, index, faults, behind>>

(* The process is killed, or an exception nobody expects ends it.          *)
Crash ==
    /\ at # "idle" /\ Fault("crash")
    /\ Stop
    /\ UNCHANGED <<upstream, files, index, behind>>

-----------------------------------------------------------------------------
(* Catalogue.rebuild.                                                      *)
Generations(s) == {g \in Numbers : sidecars[s][g] # NoRecord}
LatestOf(s) == IF Generations(s) = {} THEN 0 ELSE Max(Generations(s))

(* _insert_base_index raises on the None of a latest generation that lacks *)
(* a half; the transaction is rolled back.                                 *)
LacksHalf(record) == Absent \in {record.payload, record.readme}
Raises == \E s \in Stems : LatestOf(s) > 0 /\ LacksHalf(sidecars[s][LatestOf(s)])

RebuiltRow(p) ==
    IF occurrences[p] = {} THEN NoRow
    ELSE [content |-> Max(occurrences[p]),
          status |-> IF p \in vanished THEN "MISSING" ELSE "PRESENT"]
RebuiltPackage(s) ==
    IF LatestOf(s) = 0 THEN NoPackage
    ELSE [gen |-> LatestOf(s), record |-> sidecars[s][LatestOf(s)],
          present |-> lastEvent[s] = "PRESENT"]

Rebuild ==
    /\ at = "idle"
    /\ IF Raises THEN UNCHANGED <<index, behind>>
       ELSE /\ rows' = [p \in Paths |-> RebuiltRow(p)]
            /\ package' = [s \in Stems |-> RebuiltPackage(s)]
            /\ behind' = FALSE
    /\ UNCHANGED <<upstream, files, at, run, faults>>

(* The SQLite file is unlinked: by the operator, who may, or by a rebuild  *)
(* that finds it damaged.                                                  *)
LoseIndex ==
    /\ at = "idle" /\ Fault("loss")
    /\ rows' = [p \in Paths |-> NoRow]
    /\ package' = [s \in Stems |-> NoPackage]
    /\ behind' = TRUE
    /\ UNCHANGED <<upstream, files, at, run>>

SourceNext ==
    \/ ChangeUpstream \/ StartSync \/ StartHttp
    \/ \E s \in Stems : PickStem(s) \/ TellPackage(s)
    \/ \E p \in Paths : Ingest(p) \/ TellPath(p)
    \/ RecordRow \/ FileFails \/ FilesDone
    \/ UpdatePackage \/ WriteSidecar \/ TellReappeared
    \/ HttpDone \/ MarkMissing \/ DropPackages \/ FinishSync \/ Crash
    \/ Rebuild \/ LoseIndex

SourceSpec == SourceInit /\ [][SourceNext]_sourceVars

-----------------------------------------------------------------------------
TypeOK ==
    /\ upstream \in [Paths -> Contents \cup {Absent}]
    /\ occurrences \in [Paths -> SUBSET Contents]
    /\ vanished \subseteq Paths
    /\ rows \in [Paths -> [content : Contents \cup {Absent}, status : {"NONE", "PRESENT", "MISSING"}]]
    /\ \A s \in Stems : package[s].gen \in 0..MaxGenerations /\ lastEvent[s] \in {"PRESENT", "MISSING"}

(* When a sync has finished, the index says of every path and package of   *)
(* the source what the listing says, except for packages with a file that  *)
(* could not be had: whatever earlier runs left behind when they were      *)
(* killed, and whatever a rebuild made of it.  (sync_aminet, _package,     *)
(* mark_missing; Catalogue._insert_base_index.)                            *)
Agreement ==
    /\ \A p \in Listing : p[1] \notin run.failed =>
          rows[p] = [content |-> upstream[p], status |-> "PRESENT"]
    /\ \A p \in Paths \ Listing : rows[p].status # "PRESENT"
    /\ \A s \in Stems : package[s].present <=> s \in StemsOf(Listing)
    /\ \A s \in StemsOf(Listing) \ run.failed :
          /\ package[s].record.payload = upstream[<<s, "lha">>]
          /\ package[s].record.readme = upstream[<<s, "readme">>]
FinishedSyncAgrees == [][at = "tell packages" /\ run.untold = {} /\ UNCHANGED faults => Agreement]_at

(* As long as no command was cut off, a rebuild either raises, and it does *)
(* exactly if the index holds a package without a payload or a readme, or  *)
(* it gives every package back as the index has it: generation, halves and *)
(* presence.  (_package, sync_aminet; Catalogue._package_state.)           *)
RebuildRestoresPackages ==
    at = "idle" /\ faults.crash = 0 /\ ~behind =>
        IF \E s \in Stems : package[s].gen > 0 /\ LacksHalf(package[s].record)
        THEN Raises
        ELSE ~Raises /\ \A s \in Stems : RebuiltPackage(s) = package[s]

(* The SQLite file can always be removed and rebuilt, if no command was    *)
(* cut off.  The code breaks this: _package records packages that lack a   *)
(* half, and _insert_base_index raises on them.                            *)
DatabaseCanBeRebuilt == at = "idle" /\ faults.crash = 0 => ~Raises
=============================================================================
