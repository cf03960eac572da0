# Retro Archive Box: TLA+ models and proofs

Retro Archive Box (`src/rab/*.py`, below written `store.py` and so on) keeps
bytes for ever: it reads physical media, watches inboxes, mirrors network
sources, stores everything once in a content-addressed object tree, and derives
an index, analyses, identities and products from that tree. It is a collection
of short-lived processes (the `rab` command, a few systemd services, a read-only
HTTP server) that share one directory. There is no server in the middle: what
keeps the processes apart are SQLite's write lock, `os.replace`, exclusive
lock files and, often, nothing.

This directory holds models of that program for TLC and proofs for TLAPS. The
models are read off the code; `PROJECT.json` maps every definition to its lines.

## Inventory

Each part is given with its state, its operations, what is hard about them and
what makes them correct. Every part but the interfaces has a module below;
`PROJECT.json` says of each what is left out.

### Object store and event log: `store.py`, `hashing.py`, `model.py` (modelled in part)

* State: `objects/sha256/../<sha>/{master, manifest.json, occurrences/*.json}`,
  `events/<sha>/*.json`, and the SQLite tables `objects`, `occurrences`, `events`.
* Operations: `ingest`, `append_event`, `resolve`; `verify`, `export_original`
  and `audit` read masters and append an event; `show`, `search`, `doctor` read.
* Interactions: every other component ends in `Archive.ingest`. Any number of
  processes call it at once.
* Hard: files and rows are written in a fixed order that no transaction spans;
  the process may die anywhere; the source file may change while it is copied;
  two calls may store the same bytes.
* Correct when: the bytes under a key hash to it; a row implies its files; the
  manifest of a registered object does not change; bytes have one identity.

### Catalogue: `catalogue.py`, `formats.py`, `textmeta.py` (modelled in part)

* State: all tables of the SQLite file (base tables, `cat_` tables, a search
  index, a state row), the generation and source sidecars it reads.
* Operations: `initialize` with the v1 to v2 migration, `rebuild`, queries.
* Hard: `rebuild` reads the manifests before its transaction and the sidecars
  inside it, while ingests go on; it must restore from files what the index knew.
* Correct when: a rebuild loses nothing that had been finished, and yields the
  same answers as the index it replaces.

### Preservation workflow: `preservation.py` (modelled in part)

* State: one JSON file per run (state, captures, objects, jobs, warnings), an
  event file per transition.
* Operations: `create`, `prepare`, `execute`, `resume`, `cancel`, `report`.
* Interactions: calls the media managers to capture, the store to verify, the
  analysis, malware, identity and product managers afterwards.
* Hard: a command works for hours between reading and writing the run file;
  interruptions at any step; a resume must go on without reading fragile media
  again; two commands may run at once, and nothing locks the file.
* Correct when: the medium is read as often as the profile says; complete means
  that each stage happened; terminal is final; interrupted runs can be finished.

### Watched inbox and local ingest: `local_ingest.py` (modelled in part), `tree_ingest.py`, `removable.py`, `inventory.py`

* State: inbox directories, `inbox-state.json`, a lock file per claimed path, a
  job file per ingest.
* Operations: `scan_once`/`watch`, `ingest_file`, `scan_inbox`, tree ingest.
* Hard: producers write while the watcher looks; two watchers; a watcher killed
  with a claim in hand; whole-file state saves; retries; deleting sources.
* Correct when: no bytes are archived twice for one file, none are deleted
  unarchived, every file is settled in the end.

### Malware requests and observations: `malware_provider.py`, `malware.py` (modelled in part)

* State: a request file per submission, observation sidecars, raw reports and
  their table, a file per multi-engine job.
* Operations: `create`, `submit`, `poll`, `import_result`, `cancel`; local `scan`
  and `analyze`, `aggregate`, `rebuild`.
* Hard: a remote provider that accepts and answers late, or whose answer is
  lost; the saved copy is older than the answer; imports cut off between the
  sidecar and the row.
* Correct when: every request ends; an imported result stays imported; a lost
  answer does not lose or double an observation; a completed scan job rests on
  evidence of every engine, and a detection is not hidden by what comes after.

### Source acquisition and packages: `acquisition.py`, `sources.py`, `transports.py` (modelled in part)

* State: `source_objects`, `packages`, generations, events and their sidecars;
  `.part` files of HTTP transfers.
* Operations: `sync_aminet`, `acquire_http_aminet`, `ingest_completed`, `event`,
  `acquire_http`, `acquire_ftp`, `_package`; `transports.py` ranks what is usable.
* Hard: commit before sidecar; rebuild from sidecars; resumed transfers of
  content that has changed; a path that vanishes and comes back.
* Correct when: rebuilding gives the state back, and a transfer that was
  resumed has the bytes of one remote version.

### Contained-object analysis: `analysis.py` (modelled in part)

* State: a job file per analysis, derived objects, CONTAINS relationships.
* Operations: `analyze`, `retry`, `plan`; it calls `Archive.ingest` and
  `IdentityCatalogue.add_relationship` for each file it copies out.
* Hard: nested containers at the limits of depth, files, bytes, ratio and time;
  the same container twice; jobs that were cut off, forced or retried.
* Correct when: COMPLETE means that every file down to the depth limit was
  copied out, each relationship is true, and an ended job stays as it is.

### Bootstrap jobs: `bootstrap.py` (modelled)

* State: a job file with per-item progress, an immutable report.
* Operations: `plan`, `start`, `resume`; each item is one transfer of `acquisition.py`.
* Hard: items that fail and succeed after a resume; a second, different report.
* Correct when: a resumed job ends with counts that add up and with one report.

### Resource broker and products: `broker.py`, `products.py` (modelled in part)

* State: immutable definitions and set generations, a disposable index, pinned
  manifests, workspaces of consumers; product files and their `index.json`.
* Operations: `register`, `register_package`, `define_set`, `pin`,
  `verify_manifest`, `materialize`, `rebuild`; `ProductBuilder.build`.
* Hard: the next generation number is a maximum of rows that are rebuilt from
  files written first; file names of ids collide; `index.json` is read, changed
  and written by two builds.
* Correct when: a pin resolves for ever to what it was pinned to, generations do
  not change, definitions are acyclic, deliveries are exact, and the list of
  products agrees with their files.

### Physical media registry: `physical_registry.py` (modelled in part)

* State: a record per medium, evidence, observation and relationship sidecars.
* Hard: read-modify-write of a record after its sidecars were written.
* Correct when: what a record lists exists, and its revisions form one chain.

### Media capture: `physical.py`, `media.py`, `flux.py`, `optical.py` (modelled in part)

* State: a job file per capture, staging files, a file per batch session, a
  CAPTURED_AS relationship per capture of a registered medium.
* Operations: captures of block devices, optical discs and flux, repeats, batch
  sessions. The drives and the programs that read them are external: a read
  yields an image, part of one, or an error.
* Hard: Ctrl-C and kills between staging, ingest, job file and link; partial
  images; repeats that must be compared with what was read before.
* Correct when: a job that is done names an archived image, COMPLETE means read
  to the end, repeats and sessions count what happened.

### Identity and authorities: `identity.py`, `authority.py`, `additional_authorities.py`, `redump.py` (modelled in part)

* State: immutable relationship, logical, dataset and observation sidecars; two
  SQLite files, `identity.sqlite3` and `authority.sqlite3`, that are derived.
* Operations: `rebuild` of each, `add_relationship`, `define_logical`; `import`,
  `match`, `observe`, `verify` of the authorities.
* Hard: every command rebuilds while others do; imports and rebuilds commit in
  pieces; records of one dataset are shared with another; what a weak hash finds
  a stronger one may contradict.
* Correct when: the derived files can be deleted at any time and a rebuild
  brings them back, relationships stay acyclic, a match is never weaker than the
  hashes allow.

### Interfaces and qualification: `cli.py`, `api.py`, `web.py`, `qualification.py` (not modelled)

Argument parsing, read-only projections and checklists without state of their
own. They say which commands exist; `cli.py` decides what an operator can issue.

## Modules

| module | models | role |
|---|---|---|
| `ArchiveStore` | `Archive.ingest`, `append_event`, `Catalogue.rebuild` | the store in the steps other processes can see |
| `ObjectRegistry` | what `Archive.ingest` promises | abstract specification |
| `MCArchiveStore` | | constants, symmetry |
| `ArchiveStoreProofs` | | theorems about `ArchiveStore`, the refinement among them |
| `PreservationWorkflow` | `preservation.py` | one run and the commands on it |
| `MCPreservationWorkflow` | | which process issues which command |
| `InboxWatch` | `WatchedInboxManager`, `IngestManager.ingest_file` | scans, claims, producers |
| `MCInboxWatch` | | model values |
| `MalwareRequests` | `MalwareProviderManager`, the import and rebuild of `MalwareStore` | request files, an unreliable provider, observations and their index |
| `MCMalwareRequests` | | model values |
| `SourceIndex` | `sync_aminet`, `acquire_http_aminet`, `_package`; the sources and packages of `Catalogue.rebuild` | what is known of an upstream mirror |
| `HttpTransfer` | `acquire_http`, `acquire_ftp` | one transfer with its `.part` file |
| `BootstrapJob` | `bootstrap.py`, the choice of `transports.py` | EXTENDS `HttpTransfer`: a job of transfers |
| `AnalysisJobs` | `AnalysisManager` | traversal of nested containers within limits |
| `ResourceBroker` | `ResourceBroker` | definitions, sets, pins, workspaces |
| `PhysicalRegistry` | `PhysicalMediaRegistry` | records of media and their sidecars |
| `MediaCapture` | the capture managers, `PhysicalMediaOrchestrator` | EXTENDS `PhysicalRegistry`: captures and sessions |
| `IdentityCatalogue` | `IdentityCatalogue`, `ProductBuilder` | concurrent rebuilds, relationships, products |
| `Authority` | `authority.py` and the adapters of `additional_authorities.py`, `redump.py` | imports, matches, the rebuild |
| `MalwareScans` | scanner adapters, `MalwareStore`, analysis jobs | local scans |
| `MCSourceIndex`, `MCBootstrapJob`, `MCAnalysisJobs`, `MCResourceBroker` | | model values |
| `MCMediaCapture` | | `MediaCapture` and `IdentityCatalogue` side by side |
| `MCAuthority` | | `Authority` and `MalwareScans` side by side |
| `PreservationWorkflowProofs`, `InboxWatchProofs`, `MalwareRequestsProofs` | | theorems about the module of that name |
| `AcquisitionProofs` | | theorems about `BootstrapJob` with `HttpTransfer`, and `SourceIndex` |
| `ContentProofs` | | theorems about `AnalysisJobs` and `ResourceBroker` |
| `MediaProofs` | | theorems about `PhysicalRegistry`, `MediaCapture`, `IdentityCatalogue` |
| `EvidenceProofs` | | theorems about `Authority` and `MalwareScans` |

A definition named `X_Word` is not part of the model. It is a variant of `X` with
a plausible bug, and `PROJECT.json` names the run and the property that must
notice the bug.

Two modules that meet in one proof module or run have names of their own for the
initial states, the next-state relation and the specification where they would
clash: `SourceSpec`, `AnalysisSpec`, `IdentitySpec`, `ScanSpec` are the
specifications of `SourceIndex`, `AnalysisJobs`, `IdentityCatalogue`,
`MalwareScans`; elsewhere it is `Spec`.

### ArchiveStore

One element of `Calls` is one call of `Archive.ingest` in whatever process. `pc`
names its next step, and the steps are cut where another process, or a crash,
can come between: hash and resolve (`Begin`), the SELECT (`Lookup`), copy to a
private temporary file and rename (`CopyMaster`), `INSERT INTO objects`
(`InsertObject`, which takes SQLite's write lock), the manifest's rename
(`WriteManifest`), the occurrence and COMMIT (`CommitOccurrence`), the event
sidecar, the event row, the occurrence sidecar. `Crash` ends a call anywhere:
the transaction is rolled back, the files stay.

`lock` is SQLite's write lock. A write that finds it taken waits; the five
second timeout that would raise instead is the `Crash` of the waiting call.
Contents stand for their own hashes, so `master[c] = c` is "the bytes hash to
the key". A manifest and a row are reduced to what a second ingest could
contradict: the parent and the call whose title, type and time were recorded.

A rebuild scans the manifests one at a time and then, in one transaction,
replaces the tables. `Overlap` says whether rebuilds and ingests may run at the
same time. The code does not prevent it; the runs with `Overlap = FALSE` show
what holds when the operator does.

`ObjectRegistry` states the promise: registered objects keep their identity,
parents are registered first, and an ingest that returned is about a registered
object with the parent it asked for. Under `Overlap = FALSE` the store
implements it (`ImplementsRegistry`, with `identity <- objects`, in `ArchiveStore`).

### PreservationWorkflow

`run` is the run file, reduced to the fields that decide what a command does.
A command of a process is a sequence of steps `step[w]`; `copy[w]` is the run as
that command read it last. Where the code reads the file, works for a long time
and then saves what it read, the model has two steps and saves the copy; where
it reads and writes in immediate succession (`transition`, the record of one
capture), it has one. In the passing runs one operator issues the commands one
after another, so that this makes no difference; `workflow_cancel.cfg` has a
second process.

`May[w]` says which commands process `w` issues. `Images` are the contents that
reading the medium may yield: two elements make repeated reads disagree.

### InboxWatch

A watcher's `mem` is its copy of `inbox-state.json` (`saved`), loaded by
`StartScan` and written back by `EndScan` and, with the file marked PROCESSING,
by `Recover`. For the file in hand (`cur`) it goes through the second look
(`LookAgain`), the claim (`Claim`, `TakeOver`), the search for a completed job
(`Recover`), staging, `Archive.ingest` (one step here), the job's last write
(`Finish`), the post-success policy and the new entry (`Record`). `Fail` is an
exception at any step under the claim, `Reject` one before it.

Each write to a file makes a new version, which stands for its bytes, its hash and
its `size:mtime_ns` fingerprint at once. `_recover_completed` compares path and
hash; so `jobs` holds pairs of path and version. `LockAges` is the passage of
`lock_stale_seconds`; only lock files of dead watchers grow that old. A watcher
that found a lock too old unlinks whatever lock is there by the time it does
(`TakeOver`), a living watcher's too; and a watcher that is done unlinks the lock
by its path. `usurped` is a history variable: the files on which a take-over has
removed the lock of a watcher at work. `post` is the post-success policy of each
file's inbox, any of `Policies`. `LateWrites` are the policies of inboxes whose
producers write at any moment; in the others they leave a file alone once a
watcher has seen it twice unchanged. `tries` is a history variable: the failed
attempts at the newest version, counted up to `ManyTries`, one more than
`RetriesBounded` can allow.

Left out: directories of recursive inboxes, patterns, minimum age, free space
(its refusal is `Fail`), malware and catalogue hooks, whose failures the code
turns into warnings.

### MalwareRequests

`file` holds the request files, `sidecars` and `rows` the observations on disk
and in `malware.sqlite3`, `jobs` what the provider (external) has. A command is a
sequence of steps of a process: `copy` is the request as it read it, changed it
and will save it, whatever the file says by then. `submit` is `StartSubmit`
(`Create`), `PostJob`, `PutPayload`, `Accept` (the search for a replayed job),
`Save`; `poll` is `StartPoll`, `AskStatus`, `FetchResult` and `import_result`:
`BeginImport` reads the file again, then each observation is looked up, written
and inserted, and `FinishImport` saves the request. The order of the
observations is that of the result.

Every call may fail before or after the provider acted on it, every import may
raise, every command may be killed; each counts as one of `MaxFaults`. `crew` is
the set of processes that issue commands: one, and then the provider may also lose
its database and number its jobs anew (`Reset`), or several. The two together are
left out: a stale save can hide a job from the replay check then. The states a
provider may report are those of `schemas/malware-provider-status-v1.json`. States
that no command tells apart are one: SUBMITTED, QUEUED, ACCEPTED, RUNNING
(`ACTIVE`), COMPLETE, COMPLETE_WITH_WARNINGS and RESULT_READY, FAILED and
UNAVAILABLE.

`flaw` says what is wrong with a result the provider sends: its form, or an
identity that does not match the request (`validate_result`); such a result is
REJECTED before anything is imported.

### SourceIndex

One command at a time works on the source: a sync over the (payload, readme) pairs
of a listing, or an HTTP acquisition of given paths. A content is the rank of its
hash among those of its path, because the rebuild visits manifests in that order
and the last one wins. Steps are cut between the files and the rows that one call
writes: occurrence (in `Ingest`), row (`RecordRow`), package (`UpdatePackage`),
generation sidecar (`WriteSidecar`), events; `at` is the next of them. `Rebuild`
derives rows and packages from the files and raises where the code does: on a
package whose latest generation lacks a half (`LacksHalf`), which a listing of a
payload without its readme makes. `ChangeUpstream` changes any set of paths
between two commands. `behind` is a history variable: the SQLite file was lost and
no rebuild has succeeded since.

### HttpTransfer and BootstrapJob

A file is a sequence of blocks and block `i` of version `v` is `v`, so that a
part continued after upstream changed is visibly mixed. A transfer goes from
the part found on disk through requests, ignored ranges, failures and retries to
the checks and `ingest_completed`. `BootstrapJob` holds the plan made when the
job was created (`Usable`, `Capability`), runs the items one after another through
`HttpTransfer` and saves the job file (`job`) from the dict of its process (`mem`)
after each. `Interrupt` is Ctrl-C, which the code handles; `Kill` is not handled.

### AnalysisJobs

A world says of each content which kind of analyzer opens it and what it finds;
nothing else of the formats is modelled. A plan is a policy and whether nested
containers are opened (`--no-recursive`). A member has a position, the indexes
that lead to it, and a name: a volume hands out its bytes by position, ZIP and TAR
by name, so that of two members with one name both copies have the bytes of the
last (`Extracted`). `run.stack` is the recursion of `visit`: `Visit`,
`TakeMember`, `Ingest`, `Relate`, `Return`; `stage` is the next step. A frame
carries its content and an item the hash of its copy, as the code's frames and
item records do, so that no definition has to walk the tree again: what a COMPLETE
job owes (`Exhaustive`) is stated as a fixpoint, every copy lies in an opened
container and every file of an opened container is copied. `GiveUp` is an
exception at a limit, a missing tool or a relationship that exists:
`add_relationship` compares the record with its time to the microsecond, so that a
second relationship with the key of another is a conflict (`Refused`), and
`relations` is a set of keys.

### ResourceBroker

Each command of an operator goes through its checks, the write of a sidecar and
the rebuild of the index from all sidecars as separate steps. `FileOf` maps ids to
the sanitised names of their sidecars and need not be injective. A cycle of needs
(`NeedsItself`) is a set of definitions each of which needs another of the set's,
rather than a recursive walk. `Touch` is a consumer that edits a delivered file,
`LoseIndex` the removal of the SQLite file. While it is missing the code checks
needs against an empty graph, where a definition can only need itself
(`RegisterOver`); `unchecked` is a history variable: what was registered then.

### PhysicalRegistry, MediaCapture

An editor reads a record, writes a sidecar, and replaces the record by its
changed copy; editors interleave. A capture is `Insert`, `Capture` (the first job
file), `Read`, `Ingest`, `Conclude`, `Link`, `Report`. Between the first and the last
write of its file a job lives in memory (`cur.mine`): `Read` and `Ingest` change
only that, the finally clause writes it at `Conclude`, `Fail` and `Interrupt`
(Ctrl-C), and `Kill` leaves the file as `Capture` wrote it. A repeat is compared
with the file of the earlier job. The block adapter's COMPLETED states are
written as the COMPLETE states of the others. `fresh` is a history
variable: what the session brought into the archive.

### IdentityCatalogue

`at[p]` is the next step of operator `p`. A rebuild takes SQLite's write lock
(`TakeLock`), reads masters (`ReadMaster`) and sidecars (`LoadSidecars`), and commits;
one that finds the lock taken waits and then raises (`Busy`). A build shows an
object, writes the temporary file that all builders share, replaces the product,
reads `index.json` and writes it. Evidence about an object is a count that grows.
What is reached from an object over relationships (`Reached`) is the least set that
they close, which equals the code's walk.

### Authority, MalwareScans

A dataset is an element of `Dats` with members and entries; an entry gives a
title, a strong and a weak hash. An import is `Import` (ingest of the DAT),
`WriteMetadata` (sidecar), `InsertDataset`, and for TOSEC `MatchAll` over the objects.
`StartRebuild` to `RebuildComponents` are the parts in which a rebuild commits.
`records` maps a record id, a hash of the record without its dataset, to the
dataset that inserted it first; `IdOrder` is the order of the dataset ids, in
which a rebuild goes. `VerifyFailures` is what `verify` would report.

`RecordsOf` is what an import reads of a DAT, under the names its members have
then, and `RereadOf` what a rebuild reads of the preserved copy, whose only name
is `master`. The two differ for `Plain` datasets, whose CUE sheet is a plain file
beside the disc list: its layout is found at the import and not again. `Torn`
datasets have a sheet that does not parse, so that `InsertDataset` raises after
the sidecar was written, and a rebuild gets only as far as `Parsable`. `Raises`
says where a rebuild raises and in which part; what a later part would have
brought back is missing then.

A scan job runs its engines in turn; each ends as `Endings` allows and `Raised` says
what of it becomes a warning. `Aggregate` is the status of an object computed from
its rows.

## Runs

Passing runs finish with no error. Violation runs check one statement of the
documentation that the code does not keep; the counterexample is the finding.
Where a passing run speaks of the same thing, its property says what holds in spite
of the finding.

| run | instance | shows |
|---|---|---|
| `store_concurrent` | 3 calls, 1 rebuilder, 2 contents, overlap | `MasterMatchesKey`, `RowBackedByFiles`, `CommittedManifestStable`, `ReturnedIngestSurvivesRebuild`: hold whatever runs beside what, with crashes everywhere |
| `store_serial` | the same, no overlap | `IndexAgrees` (no conflicting derivation, closed index, rows agree with manifests), that the store implements `ObjectRegistry`, and `IngestEnds`: the write lock blocks nobody for ever |
| `workflow_operator` | 1 process, 2 reads that must agree, 2 crashes, malware profile | `ReadsFollowProfile`: never more reads than the profile, and a run completed without interruption has two equal, re-hashed ones; `CompleteHasEvidence`, `RecordStands`; `CapturedRunEnds` under fairness |
| `inbox_watch` | 1 or 2 watchers, 1 file, each policy; 2 kills, 4 exceptions and 2 versions for one watcher, one exception, kill or second version for two; late writes unless the policy is DELETE | `ClaimIsExclusive`: two watchers work on one file only after a take-over has removed a living one's lock, which takes a kill; `OneOccurrencePerVersion` (of files where none has), `LetGoIsArchived`, `RetriesBounded`; `EveryFileSettles` under fairness |
| `malware_requests` | 2 requests, 1 job identifier, 2 observations; 1 process with a provider that resets once, or 2 processes; 1 fault | `ImportedHasEvidence`, `JobsAreNotShared`, `IndexLagsOnlyWhenCut`; `RequestEnds` under fairness |
| `source_index` | 1 package, 2 contents, 3 generations, 3 upstream changes of any paths; two of a failed ingest, a kill and a lost SQLite file | `FinishedSyncAgrees`: a sync that ends repairs whatever earlier ones left; `RebuildRestoresPackages`: without a kill, a rebuild raises exactly where a package lacks a half and restores the packages elsewhere |
| `bootstrap_job` | 2 items, one changes upstream, each transport, 1 retry, 2 stops, 1 acquisition by hand | `TransferExact`, `ItemsAccountedFor`; `JobEnds` under fairness |
| `analysis_jobs` | 11 worlds, 4 plans, depth 2, 2 jobs and a retry, 1 kill | `ProvenanceHolds`: a COMPLETE job copied out everything its plan asks for and its relationships are true; `FinalJobsStand` |
| `broker` | 4 definitions, 1 package, 1 set, 2 generations, 1 kill, 1 lost index, 1 edit by the consumer | `DefinitionsHold`: pins still verify, and what was registered while the SQLite file was there is acyclic; `DeliveredIsExact`, `SetGenerationsImmutable` |
| `media_capture` | 1 medium, 2 editors, 3 entries; 2 captures or a session, 2 images; 1 operator with 3 commands or 2 with 2, 3 products; 1 kill in each | `ListedHistoryIsChained`, `CaptureRecordsAgree`, `RelationshipsHold`, `ListedProductsAgree` |
| `evidence` | 2 ROMs, 6 DAT files of 3 authorities, one with a CUE sheet that does not parse, 2 imports, kills anywhere; 3 engines, 3 observations | `IndexIsDisposable`: what the index claims a rebuild derives again, but for what is out of reach of one that raises; `NeverDowngraded`, `RebuildMakesGood`; `CompletedJobHasEvidence`, `DetectionStaysVisible` |
| `authority_rebuild` (violation) | the instance of `evidence` | `RebuildCompletes`: a rebuild with a Redump dataset and a recorded component match, or after a failed import of a CUE sheet, never ends |

Two modules that share no variable are checked in one run where `MCMediaCapture`
and `MCAuthority` say so: a behaviour of one is explored while the other rests.

### Counterexample configurations

These configurations are not in `PROJECT.json`. Each checks one sentence of the
documentation and ends with TLC's counterexample, which Findings explains. Start
them with `tlc -config X.cfg M`.

| configuration | module | violated |
|---|---|---|
| `store_conflict.cfg` | `MCArchiveStore` | `NoConflictingDerivation` |
| `workflow_resume.cfg` | `MCPreservationWorkflow` | `ResumeCompletes` |
| `workflow_repeat.cfg` | `MCPreservationWorkflow` | `RepeatAgreement` |
| `workflow_cancel.cfg` | `MCPreservationWorkflow` | `CancelStopsSteps` |
| `inbox_crash_window.cfg` | `MCInboxWatch` | `NoSecondOccurrence` |
| `malware_rejected.cfg` | `MCMalwareRequests` | `RejectedAttachesNothing` |
| `session_interrupt.cfg` | `MCMediaCapture` | `PromptInterruptIsMarked` |
| `broker_sets.cfg` | `MCResourceBroker` | `SetGenerationsImmutable` |
| `broker_cycle.cfg` | `MCResourceBroker` | `DependenciesAcyclic` |
| `inbox_takeover.cfg` | `MCInboxWatch` | `NeverTwoAtWork` |
| `source_rebuild.cfg` | `MCSourceIndex` | `DatabaseCanBeRebuilt` |
| `authority_discs.cfg` | `MCAuthority` | `DiscsAreDisposable` |

The operators `TypeOK` of the modules other than `ArchiveStore` say what the
variables are; no run lists them, but TLC finds them true on the same instances.

### Bounds, and why they are enough

* Store: two calls race for a key and a third sees the outcome (a conflicting
  derivation needs the first store, the rebuild's scan around it and a second
  parent); two contents give an object and a parent. One rebuilder can run any
  number of times. Calls, rebuilders and contents are symmetric; the symmetry is
  not used in `store_serial`, which checks a liveness property.
* Workflow: two reads are the smallest number that can disagree or be
  interrupted in between, and the profiles ask for one or two; two interruptions
  allow one inside a resumed command. `reads` and `captures` are bounded by them.
* Inbox: versions, exceptions and kills are bounded by `MaxVersions`,
  `MaxFailures`, `MaxCrashes`. Two versions are a file and its replacement; four
  exceptions exceed the retries of one file by two; files meet only in the saved
  state, so one file stands for each; watchers are two because every interference
  is between a pair. Two watchers have one disturbance between them
  (`Undisturbed`): a kill leaves the claim that both find stale, an exception or a
  second version what one retries beside the other. A third watcher, or a second
  disturbance, is covered by the theorems only.

* Malware: one job identifier is enough to be handed out twice after a reset;
  with it a failed request is submitted again after a reset only. Two
  observations are one written and one outstanding. One fault at any step is
  what a single command has to survive; what is left behind by it meets any
  later command.

* Source: one package stands for each, because packages meet only in the listing.
  Three changes let a path come, change, vanish and come back; generations beyond
  the third repeat the second. Of a failed ingest, a kill and a lost SQLite file
  any two meet (`MaxFaults`); any number of syncs and rebuilds follow them.
* Bootstrap: two items are one in hand and one done or to come; versions of two
  and three blocks differ in length and leave a part that is shorter, as long as
  and longer than a version. Two stops let a resumed job be stopped again.
* Analysis: the worlds are four containers deep, two more than `MaxDepth`, and
  have more files, more containers and a larger file than the limits allow; in one
  of them archives repeat the names of members. Two jobs and a retry are an
  analysis, its repetition and the one after it; one kill (`MaxKills`) leaves the
  job whose repetition they are.
* Broker: a cycle through three definitions, two ids with one sidecar name, two
  objects with one file name; one operator, because two are a finding; one loss of
  the SQLite file, before or after any registration.
* Media and identity: two entries race and a third builds on them; two captures
  are a capture and its repeat. Two operators who relate, rebuild or build are a
  pair that interferes; three commands of one allow a chain and its closing edge.
* Evidence: two contents with the same weak hash and two releases that share a
  record are what matching has to tell apart; the other DATs do not parse, in whole
  or in their sheet, or serve one adapter each; two imports are a dataset and the
  one that shares with it. Three observations let a detection be followed by a
  clean scan, an error and a rebuild.

### Fairness

* `IngestStep` (weak): a process that runs goes on; waiting for the write lock
  is bounded because its holder goes on too, or dies and loses it.
* `CommandStep` (weak): the subprocesses a command calls have timeouts. A
  command that dies is `Crash`, bounded by `MaxCrashes`. Nothing makes the
  operator issue a command, except in `ResumingSpec`: there the operator resumes
  the run whenever that is possible (strong, because the command itself makes it
  impossible for a while). The violation of `ResumeCompletes` is the stronger
  for it.
* Watchers (weak): `watch()` loops for ever and systemd restarts a watcher that
  died. `Examine` (strong per file): a file waiting for `next_retry` may be
  skipped many times, but the moment is fixed and passes. `LockAges` (weak):
  time passes for a lock file left behind.
* `Step` of `MalwareRequests` (weak): calls have timeouts. `StartPoll` (strong per
  request): the operator, or a preservation run, polls again, although other
  commands keep the processes busy. `Analyse` (weak): the provider finishes the
  jobs it has the payload of, in one way or another.

* `BootstrapJob` (`FairSpec`, weak): the process of a job goes on, transfers have
  timeouts and bounded retries. Whoever sees a job that was stopped resumes it;
  stops are bounded by `MaxStops`.

The other modules state no liveness: their commands are straight-line code, which
ends unless it is killed.

## Proofs

Eight modules hold the theorems. They hold for all values of the constants that
the named assumptions admit: any number of calls, watchers, commands, files,
worlds, items, any bound on crashes. Every safety property of the passing runs
is proved, action properties and the refinement included.

| theorem | states | provided |
|---|---|---|
| `TypeCorrect`, `MastersMatchKeys`, `RowsBackedByFiles` | `TypeOK`, `MasterMatchesKey`, `RowBackedByFiles` of the store | |
| `ManifestsStable`, `RebuildKeepsReturned` | `CommittedManifestStable`, `ReturnedIngestSurvivesRebuild` | |
| `TheIndexAgrees` | `IndexAgrees` | `~Overlap` |
| `StoreImplementsRegistry` | `ImplementsRegistry`: each step of the store is a step of `ObjectRegistry` or a stutter | `~Overlap` |
| `ReadsAsTheProfileSays`, `CompleteRunsHaveEvidence`, `TheRecordStands` | `ReadsFollowProfile`, `CompleteHasEvidence`, `RecordStands` | `OneOperator` |
| `ClaimsAreExclusive`, `VersionsAreArchivedOnce`, `RetriesAreBounded` | `ClaimIsExclusive`, `OneOccurrencePerVersion`, `RetriesBounded` | |
| `CompletedFilesAreArchived` | what a scan skips as completed is archived | |
| `WhatIsLetGoIsArchived` | `LetGoIsArchived` | `"DELETE" \notin LateWrites` |
| `ImportedRequestsHaveEvidence`, `EachJobHasOneRequest`, `TheIndexLagsOnlyWhenCut` | `ImportedHasEvidence`, `JobsAreNotShared`, `IndexLagsOnlyWhenCut` | |
| `TransfersAreExact`, `JobsAccountForTheirItems` | `TransferExact`, `ItemsAccountedFor` | |
| `RebuildsRestorePackages`, `FinishedSyncsAgree` | `RebuildRestoresPackages`, `FinishedSyncAgrees` | |
| `RelationshipsAreTrueOfTheBytes`, `ProvenanceIsComplete`, `EndedJobsStand` | `RelationsAreTrue`, `ProvenanceHolds`, `FinalJobsStand` | |
| `DefinitionsStayUsable`, `DeliveriesAreExact` | `DefinitionsHold`, `DeliveredIsExact` | `OneOperator` |
| `GenerationsStand` | `SetGenerationsImmutable` | `OneOperator`, `SetNamesDiffer` |
| `HistoriesStayChained`, `CaptureRecordsStand` | `ListedHistoryIsChained`, `CaptureRecordsAgree` | |
| `RelationshipsStand`, `ListedProductsAreTrue` | `RelationshipsHold`, `ListedProductsAgree` | |
| `MatchesAreNotDowngraded`, `RebuildsMakeGood` | `NeverDowngraded`, `RebuildMakesGood` | |
| `TheIndexIsDisposable` | `IndexIsDisposable` | `PlainDatsAreWhole` |
| `CompletedJobsHaveEvidence`, `DetectionsStayVisible` | `CompletedJobHasEvidence`, `DetectionStaysVisible` | |

The theorems named `...Invariant` give the inductive invariants, and `InboxTypes`,
`RequestTypes`, `WorkflowTypes` the type invariants of their modules.

### Hypotheses

The hypotheses in the last column are what the code needs, and each is the
complement of a finding: overlapping rebuilds and ingests (`store_conflict`), two
commands on one run (`workflow_cancel`), producers who write to a file that is
about to be deleted, two operators of the broker, sanitised set ids that meet
(`broker_sets`), a plain DAT imported with `--member`, which a rebuild leaves
without records (`PlainDatsAreWhole`; Findings). Some properties carry a condition
of their own, which the code justifies: a lone watcher (`RetriesBounded`), a file
whose lock no take-over has removed from a watcher at work
(`OneOccurrencePerVersion`), a lone operator (the lineage of `RelationshipsHold`),
a command that was not killed (`RebuildRestoresPackages`, `ListedProductsAgree`),
definitions that were checked against the graph (`DefinitionsHold`), a rebuild
that does not raise and a disc whose sheet is not plain (the adapter claims of
`IndexIsDisposable`).

The assumptions on constants are named beside them. Most say that a constant is
of its kind (`BoundsAssumption`, `PlansAssumption`, `FlagAssumption`,
`OverlapIsBoolean`, ...) or that a sentinel is not a value (`NoneIsNoValue`,
`OwnersAssumption`, `SentinelsAssumption`, `WriterAssumption`). The others:

* `CrewsAssumption`: the processes at work are finitely many, which lets the
  size of a set tell whether one works alone;
* `TransferAssumption`: files have at least one version, versions at least one
  block;
* `ContentsAssumption`: contents are numbers, the ranks that a rebuild's order of
  manifests gives them;
* `WorldsAssumption`: what an analyzer lists is a sequence of contents;
* `DatsAssumption`: dataset ids are ordered without a tie, a DAT that is not
  an archive has one member, and only Redump datasets have CUE sheets;
* `IdsAssumption`, `AsksAssumption`: ids have sidecar names; a relationship is not a
  definition.

Each is evaluated by TLC on the runs.

### Inductive invariants

None of the properties is inductive by itself; what has to be added is what the
code relies on between its steps. TLC checked each invariant below on the
instance of the module's run before it was proved, and the head comment of each
proof module tells its argument.

* `StoreInv`: a call past `CopyMaster` has its master, past `WriteManifest` its
  manifest, past each sidecar step its sidecar (`CallsAreBacked`); the same for
  what manifests and snapshots name; the call about to write a manifest holds the
  write lock and the object has no row (`WriterHoldsLock`); a rebuild has read the
  manifest of each call that had returned, or has it still to read
  (`RebuildCoversReturned`). `FilesGrow`, no step takes a master or a manifest away,
  makes it inductive.
* `SerialInv` adds, without overlap, that rebuilds and calls take turns
  (`TheyTakeTurns`), so that a snapshot is the manifests as they are and a call
  past its SELECT knows what the index holds (`CallsKnowIndex`). The refinement
  follows: only `CommitOccurrence` changes `objects` and a rebuild puts back what
  it took.
* `WorkflowInv`: a command's copy is the run file, and at each step the run has
  what the stages before it recorded (`Good`). The medium is read only on the way
  from READY_TO_CAPTURE, a state no run comes back to.
* `InboxInv`: who works on a file owns its lock file unless the file is usurped
  (`OwnersHoldTheLock`), and a claim ages, is taken over or usurped only after a
  kill (`KillsLeaveClaims`), both in `ClaimInv`; what was learnt
  about a version is still true of that version when it is acted on (`OnceInv`,
  `ArchivedInv`), because producers only write versions nobody has seen; and the
  saved retries lag the attempts by the crashes (`RetryInv`).
* `RequestInv`: a copy that says IMPORTED has its evidence too, as sidecars are
  never removed (`CopiesHaveEvidence`); a job was made for one request, known to the
  provider (`JobsAreKnown`) or, after a reset, to the lone command
  (`LoneCopiesAreNotShared`).
* `BootInv`: while upstream has its first version the part on disk is a beginning
  of it (`TransferInv`); the job file and the copy of its process agree and
  account for the items handled in this run, each of which is archived (`JobInv`).
* `SourceInv`: the sidecars end with the generation of the package and the last
  event tells its presence, except for what the command in hand has yet to write
  (`RestoreInv`); a sync has settled the stems it went over (`SyncInv`).
* `AnalysisInv`, `WalkInv`: the job of a run is open and the only one it writes;
  where the policy preserves, each container on the stack is an object recorded
  under its own identity. Each container to be opened is next, on the stack, in
  hand, or done with, and one on the stack has had every file before its next
  member copied out. When the outermost visit returns nothing but "done with" is
  left. This is the one proof about a tree of any depth: positions are sequences
  and `AppendInjective` says that two files are not at one position.
* `BrokerInv`: what a command that is about to write has found out: the sidecar it
  defines is not there and closes no cycle of checked definitions unless it is
  itself unchecked, its generation is not there, nothing lies where it copies to
  (`Knows`).
* `RegistryInv`: a copy of a record that an editor holds was the record once.
* `CaptureInv`: only the last job file changes, until it is done; while a command
  works on it, the file is as it was begun and what it has read and archived is in
  memory; a session's count is due as soon as new bytes are archived
  (`CountsFollow`).
* `IdentityInv`: who commits has held the write lock since before it read the
  sidecars (`GrantsAreKept`); `LineageGrows` keeps a new edge's end out of a closed
  set, from which acyclicity follows.
* `ClaimInv`: the records a dataset owns change only while there is no claim on it
  (`ClaimsAreOnRows`); `RebuildProgress` is what each part of a rebuild has made.
* `IndexInv` adds that nothing in index or files refers to what is not there
  (`FilesHold`, `TablesHold`, `ClaimsHold`) and that, unless a rebuild stopped
  half-way, a table holds all that its dataset lists (`Complete`): what a rebuild
  will read a second time is then what the match of each claim had read, except in
  plain sheets (`RereadsTheSame`). Where a rebuild raises it leaves the claims of
  the parts before, which are still derivable.
* `ScanInv`: observations are only appended; a job without a warning lists one of
  its own for each engine it is done with (`DoneIsCovered`).

### Only model-checked

* `IngestEnds`, `CapturedRunEnds`, `EveryFileSettles`, `RequestEnds`, `JobEnds`:
  liveness under fairness, which is out of the prover's reach.


## Findings

With a run in `PROJECT.json`:

* `redump.py:361`: the rebuild takes every recorded observation for a disc
  observation. One that a No-Intro or MAME match wrote has no `sessions`, so that
  `authority rebuild` of an archive with a Redump dataset and such a match raises
  KeyError each time; component records and assertions stay missing, and
  `authority verify` passes (`authority_rebuild`; `docs/architecture.md:910`). A CUE
  sheet that does not parse has the same effect: `redump.py:167` raises after the
  sidecar was written, and from then on each rebuild raises on it.

With a counterexample configuration:

* `catalogue.py:296`: a rebuild that overlaps an ingest forgets the new row, and
  a later ingest of the same bytes overwrites manifest and identity
  (`store_conflict.cfg`; `store.py:157`).
* `preservation.py:185`: `resume` requests a transition that the table forbids
  once an analysis job is recorded (`workflow_resume.cfg`;
  `docs/preservation-workflow.md:22`).
* `preservation.py:212`: `resume` skips the remaining reads of a repeat profile
  (`workflow_repeat.cfg`; `docs/preservation-workflow.md:34`).
* `preservation.py:184`: `_downstream` saves a stale copy over a cancellation
  (`workflow_cancel.cfg`; `docs/architecture.md:507`).
* `local_ingest.py:338`: recovery misses an ingest whose job file does not say
  COMPLETED yet, and the file is ingested again (`inbox_crash_window.cfg`;
  `docs/architecture.md:365`).
* `malware_provider.py:263`: an import that meets a rebuild of the malware index,
  a second poll or a full disk is REJECTED with evidence attached
  (`malware_rejected.cfg`; `docs/architecture.md:109`).
* `physical.py:234`: Ctrl-C at the prompts of a session falls outside its try and
  leaves the session ACTIVE (`session_interrupt.cfg`; `docs/architecture.md:424`).
* `broker.py:296`: set ids that differ in a sanitised character share a sidecar,
  and `define_set` overwrites the other's generation (`broker_sets.cfg`;
  `docs/architecture.md:737`).
* `redump.py:46`: a plain CUE sheet is named after its file at the import and
  `master` when a rebuild rereads it, so that the disc loses its layout and an exact
  match is not made again (`authority_discs.cfg`; `README.md:500`).
* `local_ingest.py:264` tests the age of a lock file and then unlinks whatever
  is at that path: of two watchers that find the same stale claim, the slower one
  removes the lock of the faster one, and both ingest the file; line 392 unlinks by
  path as well, so that the first to end removes the other's lock
  (`inbox_takeover.cfg`; `docs/architecture.md:363`).
* `catalogue.py:281` raises on a package whose latest generation lacks a half, and no
  rebuild succeeds until a sync completes the package (`source_rebuild.cfg`;
  `docs/architecture.md:19`).
* `broker.py:252` takes an empty graph when the SQLite file is missing, so that a
  definition that closes a cycle is registered for good (`broker_cycle.cfg`;
  `docs/roadmap.md:126`).

Plain from the code; the models take them as they are:

* Store. `store.py:170` writes the occurrence sidecar last, after the commit: an
  occurrence whose ingest died in between is dropped by the next rebuild.
* Workflow. `preservation.py:160` does not look at the outcome of a capture, so a
  read that ended early, which the media managers return normally, completes the run.
* Inbox. With `LateWrites` containing DELETE, `LetGoIsArchived` fails: line 301
  verifies the archived object and then unlinks bytes written after staging. Line
  377 keeps the retry count of a file that has changed. With two watchers the
  later save forgets a retry the other counted, so that a failing file may be
  tried for ever.
* Malware requests. `malware.py:545` writes the sidecar before the row; an import
  that died in between is completed without the row until a rebuild.
* Malware scans. `malware.py:286` counts YARA's error lines as detections and
  ignores its exit status; TIMEOUT, ERROR and INCONCLUSIVE results are no warning
  of their job; `aggregate` of a clean and a missing or timed-out scan is
  CLEAN_OBSERVED; a killed job stays ANALYSING; a rebuild between a sidecar and
  its INSERT makes the scan raise.
* Sources. A kill between the package's commit and its event loses its presence at
  the next rebuild; the rebuild marks a path MISSING after any disappearance and
  keeps the largest hash. The next full sync repairs the last two.
* Transfers. A `.part` file that is complete (killed before the rename) is answered
  416 for ever; a short read without `expected_size` is accepted; with only a size
  to check, a resume after an upstream change may archive a mixture, which is why
  `TransferExact` speaks of a checksum or of an upstream that stands still.
* Bootstrap. `failed_items` survive a resume; a job that FAILED for want of a
  transport keeps its plan, fails again, and its second report raises; a resume of
  a RUNNING job does not ask whether its process is dead.
* Analysis. Containers below `max_depth` stay unopened in a COMPLETE job; a job
  left RUNNING is returned for ever without `force`; the retry of a preserving
  analysis, a second plan for its root, and a container nested twice, meet the
  immutability of the relationship and end FAILED; of two members with one name in
  a ZIP or TAR the bytes of the last are copied out twice, in a job that ends
  COMPLETE; one missing tool ends the whole job.
* Broker. Two operators may draw the same generation, or replace each other's
  definition between check and write; a package's definition stays at the
  generation that was registered first.
* Identity. Two operators' `add_relationship` can pass the cycle check together; the
  repetition of an addition always raises "immutable" because `recorded_at`
  differs, so that after a kill between sidecar and rebuild only a rebuild repairs
  the index; two builders share `.tmp` and `index.json` (`products.py:93`).
* Media. An optical job that fails after INGESTING keeps that state; the repeat of
  a failed capture counts as differing; a failed inventory after the ingest leaves
  FAILED without the object; a kill during a capture leaves its job CAPTURING or
  INSPECTING for ever; a kill between job file and `link_capture` loses the link;
  two editors lose each other's list entries.
* Authorities. A record id does not contain the dataset, so of two datasets that
  share a record the second never gets it (`authority.py:226`), and `verify` reports
  record_count_mismatch; a plain DAT imported with `--member` of its own name is
  rebuilt with no records (`authority.py:258`); a component match ignores a stronger
  hash that disagrees; an observation without `--dataset` is filed under the newest
  dataset; an object ingested after an import has no assertion until a match.

## Not modelled

* `cli.py`, `api.py`, `web.py`, `qualification.py`: argument parsing, read-only
  projections, checklists.
* Parsers (DAT, cue, FAT, ADF, listings, scanner output) and what they extract:
  their results are data of the instances.
* `tree_ingest.py`, `removable.py`, `inventory.py`, directories of recursive
  inboxes and the older `scan_inbox`; `verify`, `export_original` and `audit` of the
  store; the cat_ tables, the search index and the migration of the catalogue;
  intake sessions, media sets, rights and consumer policies.

## Plan

1. `verify`, `export_original`, `audit` and the loss of the SQLite file as actions
   of `ArchiveStore`, with the proofs extended.
2. An abstract catalogue of packages that `SourceIndex` implements between syncs.
