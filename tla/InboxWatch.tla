----------------------------- MODULE InboxWatch -----------------------------
(***************************************************************************)
(* The watched inbox of local_ingest.py: WatchedInboxManager.scan_once,    *)
(* run in a loop by rab-inbox-watch.service and at any time by hand with   *)
(* rab ingest inbox scan.                                                  *)
(*                                                                         *)
(* A scan loads inbox-state.json once, goes over the files of the inboxes  *)
(* one after another and writes its copy of the state back.  A file that   *)
(* looks stable is claimed with an exclusive lock file, copied to staging, *)
(* given to Archive.ingest and then left, moved or deleted.  Producers     *)
(* write into the inbox meanwhile, watchers die and are restarted.         *)
(*                                                                         *)
(* Each write to a file makes a new version of it: new bytes, a new sha256 *)
(* and a new size:mtime_ns fingerprint.  Archive.ingest is one step here;  *)
(* ArchiveStore has its details.  Directories of a recursive inbox are     *)
(* left out.                                                               *)
(***************************************************************************)
EXTENDS Naturals, FiniteSets

CONSTANTS
    Watchers,     \* processes that scan: the service, an operator's scan
    Crews,        \* the sets of them that may be there
    Files,        \* paths below the inboxes
    Policies,     \* the post_success policies the inboxes may have
    MaxRetries,   \* max_retries of the policies
    None,         \* no lock file
    Dead,         \* creator of a lock file whose process is gone
    LateWrites,   \* policies of inboxes whose producers also write to a file
                  \* that is being processed
    MaxVersions,  \* bound on the versions of one file
    MaxFailures,  \* bound on exceptions
    MaxCrashes    \* bound on killed watchers

ASSUME BoundsAssumption ==
    /\ MaxRetries \in Nat \ {0}
    /\ {MaxVersions, MaxFailures, MaxCrashes} \subseteq Nat
ASSUME PoliciesAssumption ==
    Policies \subseteq {"LEAVE", "MOVE", "DELETE"} /\ LateWrites \subseteq Policies
ASSUME CrewsAssumption == IsFiniteSet(Watchers) /\ Crews \subseteq SUBSET Watchers
ASSUME FilesAssumption == Files # {}
ASSUME OwnersAssumption == None # Dead /\ {None, Dead} \cap Watchers = {}

Absent   == 0
Versions == 1..MaxVersions
Statuses == {"NEW", "WAITING_STABLE", "READY", "PROCESSING", "RETRY_WAIT",
             "COMPLETED", "FAILED"}

(* Attempts are counted up to here: more than RetriesBounded ever allows.  *)
ManyTries == MaxRetries + MaxCrashes + 1

(* One entry of state["files"]; NEW stands for a missing entry.            *)
Entry   == [status : Statuses, fp : Versions \cup {Absent}, retries : Nat]
NoEntry == [status |-> "NEW", fp |-> Absent, retries |-> 0]

VARIABLES
    post,        \* post[f]: post_success of the inbox that f is in, never changed
    crew,        \* the watchers that run, never changed
    inbox,       \* version of each file now in its inbox, or Absent
    written,     \* number of versions written so far
    processed,   \* version in the sibling .processed directory, or Absent
    occurrences, \* occurrences[f][v]: occurrences recorded for version v
    jobs,        \* <<f, v>> with a COMPLETED job file
    saved,       \* inbox-state.json
    lock,        \* creator of the claim's lock file, Dead, or None
    expired,     \* files whose lock file is older than lock_stale_seconds
    pc,          \* next step of each watcher
    mem,         \* the watcher's copy of the state
    todo,        \* files the scan has still to look at
    cur,         \* the file in hand
    seen,        \* its fingerprint when the scan looked at it
    retries,     \* old.get("retries", 0)
    staged,      \* version in staging
    failures,    \* exceptions so far
    crashes,     \* killed watchers so far
    tries,       \* history: failed attempts at the newest version
    unrecorded,  \* history: ingests cut off before their job was COMPLETED
    deleted,     \* history: <<f, v>> unlinked by a post-success policy
    usurped      \* history: files whose lock a take-over removed under a
                 \* watcher that was at work

inboxVars   == <<post, crew, inbox, written, processed, deleted>>
archiveVars == <<occurrences, jobs, unrecorded>>
claimVars   == <<lock, expired, usurped>>
localVars   == <<mem, todo, cur, seen, retries, staged>>
faultVars   == <<failures, crashes, tries>>
vars == <<inboxVars, archiveVars, saved, claimVars, pc, localVars, faultVars>>

Claiming == {"recover", "stage", "ingest", "finish", "post", "record"}
Goto(w, step) == pc' = [pc EXCEPT ![w] = step]
Remember(w, entry) == mem' = [mem EXCEPT ![w][cur[w]] = entry]
Entered(w, status, count) == [status |-> status, fp |-> seen[w], retries |-> count]

Init ==
    /\ post \in [Files -> Policies]
    /\ crew \in Crews
    /\ inbox = [f \in Files |-> Absent]
    /\ written = [f \in Files |-> 0]
    /\ processed = [f \in Files |-> Absent]
    /\ occurrences = [f \in Files |-> [v \in Versions |-> 0]]
    /\ jobs = {}
    /\ saved = [f \in Files |-> NoEntry]
    /\ lock = [f \in Files |-> None]
    /\ expired = {}
    /\ pc = [w \in Watchers |-> "idle"]
    /\ mem = [w \in Watchers |-> [f \in Files |-> NoEntry]]
    /\ todo = [w \in Watchers |-> {}]
    /\ cur = [w \in Watchers |-> CHOOSE f \in Files : TRUE]
    /\ seen = [w \in Watchers |-> Absent]
    /\ retries = [w \in Watchers |-> 0]
    /\ staged = [w \in Watchers |-> Absent]
    /\ failures = 0
    /\ crashes = 0
    /\ tries = [f \in Files |-> 0]
    /\ unrecorded = [f \in Files |-> [v \in Versions |-> 0]]
    /\ deleted = {}
    /\ usurped = {}

(* Bounds on the faults.  Of more than one watcher the runs explore one of *)
(* three at a time: a failure, a kill, or a second version of a file.      *)
Lone == Cardinality(crew) = 1
Undisturbed == failures + crashes = 0 /\ \A f \in Files : written[f] <= 1
MayFail == failures < MaxFailures /\ (Lone \/ Undisturbed)
MayWrite(f) == written[f] < MaxVersions /\ (Lone \/ failures + crashes = 0 \/ written[f] = 0)
MayCrash == crashes < MaxCrashes /\ (Lone \/ Undisturbed)

-----------------------------------------------------------------------------
(* The surroundings: producers and the clock.                              *)

(* No watcher has taken f for complete.                                    *)
Quiet(f) == \A w \in Watchers :
    cur[w] = f => pc[w] \notin {"claim", "takeover"} \cup Claiming

(* A producer creates f, extends it or replaces it.                        *)
Produce(f) ==
    /\ MayWrite(f)
    /\ post[f] \in LateWrites \/ Quiet(f)
    /\ written' = [written EXCEPT ![f] = @ + 1]
    /\ inbox' = [inbox EXCEPT ![f] = written[f] + 1]
    /\ tries' = [tries EXCEPT ![f] = 0]
    /\ UNCHANGED <<post, crew, processed, deleted, archiveVars, saved, claimVars, pc,
                   localVars, failures, crashes>>

(* Somebody takes f out of its inbox.                                      *)
Withdraw(f) ==
    /\ inbox[f] # Absent
    /\ post[f] \in LateWrites \/ Quiet(f)
    /\ inbox' = [inbox EXCEPT ![f] = Absent]
    /\ UNCHANGED <<post, crew, written, processed, deleted, archiveVars, saved, claimVars, pc,
                   localVars, faultVars>>

(* The lock file of a watcher that is gone becomes older than              *)
(* lock_stale_seconds; scans are taken to be faster than that.             *)
LockAges(f) ==
    /\ lock[f] = Dead
    /\ f \notin expired
    /\ expired' = expired \cup {f}
    /\ UNCHANGED <<inboxVars, archiveVars, saved, lock, usurped, pc, localVars, faultVars>>

-----------------------------------------------------------------------------
(* scan_once, up to the claim.                                             *)

(* self._state() and the sorted listing of the inboxes.                    *)
StartScan(w) ==
    /\ w \in crew /\ pc[w] = "idle"
    /\ mem' = [mem EXCEPT ![w] = saved]
    /\ todo' = [todo EXCEPT ![w] = {f \in Files : inbox[f] # Absent}]
    /\ Goto(w, "scan")
    /\ UNCHANGED <<inboxVars, archiveVars, saved, claimVars, cur, seen, retries,
                   staged, faultVars>>

Unchanged(w, f) == inbox[f] # Absent /\ mem[w][f].fp = inbox[f]

(* The file is gone, settled, or waits for next_retry.                     *)
Skip(w, f) ==
    /\ pc[w] = "scan" /\ f \in todo[w]
    /\ \/ inbox[f] = Absent
       \/ Unchanged(w, f) /\ mem[w][f].status \in {"COMPLETED", "FAILED", "RETRY_WAIT"}
    /\ todo' = [todo EXCEPT ![w] = @ \ {f}]
    /\ UNCHANGED <<inboxVars, archiveVars, saved, claimVars, pc, mem, cur, seen,
                   retries, staged, faultVars>>

(* stat, the entry of the previous scan, and the first look of _stable.    *)
Examine(w, f) ==
    /\ pc[w] = "scan" /\ f \in todo[w]
    /\ inbox[f] # Absent
    /\ ~(Unchanged(w, f) /\ mem[w][f].status \in {"COMPLETED", "FAILED"})
    /\ todo' = [todo EXCEPT ![w] = @ \ {f}]
    /\ cur' = [cur EXCEPT ![w] = f]
    /\ seen' = [seen EXCEPT ![w] = inbox[f]]
    /\ retries' = [retries EXCEPT ![w] = mem[w][f].retries]
    /\ Goto(w, "stable")
    /\ UNCHANGED <<inboxVars, archiveVars, saved, claimVars, mem, staged, faultVars>>

(* The second look of _stable: the same, changed, or gone.                 *)
LookAgain(w) ==
    /\ pc[w] = "stable"
    /\ \/ /\ inbox[cur[w]] = seen[w]
          /\ Remember(w, Entered(w, "READY", retries[w]))
          /\ Goto(w, "claim")
       \/ /\ inbox[cur[w]] \notin {seen[w], Absent}
          /\ Remember(w, Entered(w, "WAITING_STABLE", retries[w]))
          /\ Goto(w, "scan")
       \/ /\ inbox[cur[w]] = Absent
          /\ Goto(w, "scan")
          /\ UNCHANGED mem
    /\ UNCHANGED <<inboxVars, archiveVars, saved, claimVars, todo, cur, seen,
                   retries, staged, faultVars>>

(* PolicyError (file too large) or OSError in _stable: FAILED at once, in  *)
(* an entry without a retry count.                                         *)
Reject(w) ==
    /\ pc[w] = "stable"
    /\ inbox[cur[w]] # Absent
    /\ MayFail
    /\ failures' = failures + 1
    /\ Remember(w, Entered(w, "FAILED", 0))
    /\ Goto(w, "scan")
    /\ UNCHANGED <<inboxVars, archiveVars, saved, claimVars, todo, cur, seen,
                   retries, staged, crashes, tries>>

-----------------------------------------------------------------------------
(* Claim and processing.                                                   *)

(* Mutation: the lock file is opened without O_EXCL.                       *)
Claim_NotExclusive(w) ==
    /\ pc[w] = "claim"
    /\ lock' = [lock EXCEPT ![cur[w]] = w]
    /\ expired' = expired \ {cur[w]}
    /\ Goto(w, "recover")
    /\ UNCHANGED <<inboxVars, archiveVars, saved, usurped, localVars, faultVars>>

(* Mutation: a lock file is respected however old it is.                   *)
Claim_NeverStale(w) ==
    /\ pc[w] = "claim"
    /\ \/ /\ lock[cur[w]] = None
          /\ lock' = [lock EXCEPT ![cur[w]] = w]
          /\ Goto(w, "recover")
       \/ /\ lock[cur[w]] # None
          /\ Goto(w, "scan")
          /\ UNCHANGED lock
    /\ UNCHANGED <<inboxVars, archiveVars, saved, expired, usurped, localVars, faultVars>>

(* _claim: create the lock file exclusively; if it exists and its mtime is *)
(* too old, go on to remove it; otherwise leave the file to its owner.     *)
Claim(w) ==
    LET f == cur[w] IN
    /\ pc[w] = "claim"
    /\ \/ /\ lock[f] = None
          /\ lock' = [lock EXCEPT ![f] = w]
          /\ Goto(w, "recover")
       \/ /\ lock[f] # None
          /\ Goto(w, IF f \in expired THEN "takeover" ELSE "scan")
          /\ UNCHANGED lock
    /\ UNCHANGED <<inboxVars, archiveVars, saved, expired, usurped, localVars, faultVars>>

(* token.unlink() of the lock file now at that path, even if since the     *)
(* look at its age another watcher has replaced it, then _claim again; a   *)
(* missing file is an OSError that gives up.                               *)
TakeOver(w) ==
    LET f == cur[w] IN
    /\ pc[w] = "takeover"
    /\ lock' = [lock EXCEPT ![f] = None]
    /\ expired' = expired \ {f}
    /\ usurped' = usurped \cup {g \in {f} : lock[g] \notin {None, Dead}}
    /\ Goto(w, IF lock[f] # None THEN "claim" ELSE "scan")
    /\ UNCHANGED <<inboxVars, archiveVars, saved, localVars, faultVars>>

(* Mutation: completed jobs are not looked for.                            *)
Recover_Never(w) ==
    /\ pc[w] = "recover"
    /\ Remember(w, Entered(w, "PROCESSING", retries[w]))
    /\ saved' = mem'[w]
    /\ Goto(w, "stage")
    /\ UNCHANGED <<inboxVars, archiveVars, claimVars, todo, cur, seen, retries,
                   staged, faultVars>>

(* _recover_completed: a COMPLETED job of this path and these bytes leads  *)
(* straight to the post-success policy; otherwise the whole state is saved *)
(* with the file PROCESSING.                                               *)
Recover(w) ==
    LET f == cur[w] IN
    /\ pc[w] = "recover"
    /\ \/ /\ <<f, inbox[f]>> \in jobs
          /\ Goto(w, "post")
          /\ UNCHANGED <<saved, mem>>
       \/ /\ <<f, inbox[f]>> \notin jobs
          /\ Remember(w, Entered(w, "PROCESSING", retries[w]))
          /\ saved' = mem'[w]
          /\ Goto(w, "stage")
    /\ UNCHANGED <<inboxVars, archiveVars, claimVars, todo, cur, seen, retries,
                   staged, faultVars>>

(* ingest_file copies the file; one that changes meanwhile is refused.     *)
Stage(w) ==
    /\ pc[w] = "stage"
    /\ inbox[cur[w]] # Absent
    /\ staged' = [staged EXCEPT ![w] = inbox[cur[w]]]
    /\ Goto(w, "ingest")
    /\ UNCHANGED <<inboxVars, archiveVars, saved, claimVars, mem, todo, cur,
                   seen, retries, faultVars>>

(* ingest_staged writes the job as INGESTING and calls Archive.ingest.     *)
Ingest(w) ==
    /\ pc[w] = "ingest"
    /\ occurrences' = [occurrences EXCEPT ![cur[w]][staged[w]] = @ + 1]
    /\ Goto(w, "finish")
    /\ UNCHANGED <<inboxVars, jobs, unrecorded, saved, claimVars, localVars, faultVars>>

(* The identity index is rebuilt and the job is written as COMPLETED.      *)
Finish(w) ==
    /\ pc[w] = "finish"
    /\ jobs' = jobs \cup {<<cur[w], staged[w]>>}
    /\ Goto(w, "post")
    /\ UNCHANGED <<inboxVars, occurrences, unrecorded, saved, claimVars,
                   localVars, faultVars>>

(* The malware request and the catalogue rebuild that _process may ask for *)
(* first only add warnings when they fail.  _post_success: DELETE verifies *)
(* the archived object, then unlinks what is at the path; MOVE refuses an  *)
(* existing destination.                                                   *)
ApplyPostSuccess(w) ==
    LET f == cur[w] IN
    /\ pc[w] = "post"
    /\ \/ /\ post[f] = "LEAVE"
          /\ UNCHANGED inboxVars
       \/ /\ post[f] = "DELETE" /\ inbox[f] # Absent
          /\ deleted' = deleted \cup {<<f, inbox[f]>>}
          /\ inbox' = [inbox EXCEPT ![f] = Absent]
          /\ UNCHANGED <<post, crew, written, processed>>
       \/ /\ post[f] = "MOVE" /\ inbox[f] # Absent /\ processed[f] = Absent
          /\ processed' = [processed EXCEPT ![f] = inbox[f]]
          /\ inbox' = [inbox EXCEPT ![f] = Absent]
          /\ UNCHANGED <<post, crew, written, deleted>>
    /\ Goto(w, "record")
    /\ UNCHANGED <<archiveVars, saved, claimVars, localVars, faultVars>>

(* finally: the lock file is unlinked, whoever created it.                 *)
Release(w) ==
    /\ lock' = [lock EXCEPT ![cur[w]] = None]
    /\ expired' = expired \ {cur[w]}
    /\ UNCHANGED usurped
    /\ Goto(w, "scan")

(* Mutation: the entry gets the fingerprint the file has by now.           *)
Record_Restat(w) ==
    /\ pc[w] = "record"
    /\ Remember(w, [Entered(w, "COMPLETED", retries[w]) EXCEPT !.fp = inbox[cur[w]]])
    /\ Release(w)
    /\ UNCHANGED <<inboxVars, archiveVars, saved, todo, cur, seen, retries,
                   staged, faultVars>>

(* The entry becomes COMPLETED in the watcher's copy of the state.         *)
Record(w) ==
    /\ pc[w] = "record"
    /\ Remember(w, Entered(w, "COMPLETED", retries[w]))
    /\ Release(w)
    /\ UNCHANGED <<inboxVars, archiveVars, saved, todo, cur, seen, retries,
                   staged, faultVars>>

(* Cut off between Archive.ingest and the job's last write.                *)
LosesRecord(w) ==
    unrecorded' = IF pc[w] = "finish"
                  THEN [unrecorded EXCEPT ![cur[w]][staged[w]] = @ + 1]
                  ELSE unrecorded

(* One more failed attempt, if the version the scan examined is still the  *)
(* newest one.                                                             *)
CountTry(w) ==
    LET f == cur[w] IN
    tries' = IF seen[w] = written[f] /\ tries[f] < ManyTries
             THEN [tries EXCEPT ![f] = @ + 1] ELSE tries

(* Mutation: the attempts of earlier scans are forgotten.                  *)
Raise_Uncounted(w, permanent) ==
    /\ CountTry(w)
    /\ Remember(w, Entered(w, IF permanent \/ 1 >= MaxRetries
                              THEN "FAILED" ELSE "RETRY_WAIT", 1))
    /\ LosesRecord(w)
    /\ Release(w)
    /\ UNCHANGED <<inboxVars, occurrences, jobs, saved, todo, cur, seen, retries,
                   staged, crashes>>

(* except Exception, while the claim is held: PolicyError and ValueError   *)
(* are permanent, anything else is retried up to max_retries times.        *)
Raise(w, permanent) ==
    LET count == retries[w] + 1 IN
    /\ CountTry(w)
    /\ Remember(w, Entered(w, IF permanent \/ count >= MaxRetries
                              THEN "FAILED" ELSE "RETRY_WAIT", count))
    /\ LosesRecord(w)
    /\ Release(w)
    /\ UNCHANGED <<inboxVars, occurrences, jobs, saved, todo, cur, seen, retries,
                   staged, crashes>>

(* Any of the calls made under the claim fails.                            *)
Fail(w) ==
    /\ pc[w] \in Claiming
    /\ MayFail
    /\ failures' = failures + 1
    /\ \E permanent \in BOOLEAN : Raise(w, permanent)

(* PolicyError: processed destination already exists.                      *)
Collide(w) ==
    /\ pc[w] = "post"
    /\ post[cur[w]] = "MOVE" /\ processed[cur[w]] # Absent
    /\ Raise(w, TRUE)
    /\ UNCHANGED failures

(* FileNotFoundError: the file was taken away after it was examined.       *)
Vanish(w) ==
    LET f == cur[w] IN
    /\ inbox[f] = Absent
    /\ \/ pc[w] = "stage"
       \/ /\ pc[w] = "post"
          /\ post[f] = "DELETE" \/ (post[f] = "MOVE" /\ processed[f] = Absent)
    /\ Raise(w, FALSE)
    /\ UNCHANGED failures

(* The end of scan_once: the watcher's copy replaces the saved state.      *)
EndScan(w) ==
    /\ pc[w] = "scan"
    /\ todo[w] = {}
    /\ saved' = mem[w]
    /\ Goto(w, "idle")
    /\ UNCHANGED <<inboxVars, archiveVars, claimVars, localVars, faultVars>>

(* The watcher is killed: its lock file and its last save stay behind.     *)
Crash(w) ==
    /\ pc[w] # "idle"
    /\ MayCrash
    /\ crashes' = crashes + 1
    /\ LosesRecord(w)
    /\ lock' = IF pc[w] \in Claiming /\ lock[cur[w]] = w
               THEN [lock EXCEPT ![cur[w]] = Dead] ELSE lock
    /\ Goto(w, "idle")
    /\ UNCHANGED <<inboxVars, occurrences, jobs, saved, expired, usurped, localVars,
                   failures, tries>>

Work(w) ==
    \/ StartScan(w) \/ LookAgain(w) \/ Claim(w) \/ TakeOver(w) \/ Recover(w)
    \/ Stage(w) \/ Ingest(w) \/ Finish(w) \/ ApplyPostSuccess(w) \/ Record(w)
    \/ Collide(w) \/ Vanish(w) \/ EndScan(w)
    \/ \E f \in Files : Examine(w, f) \/ Skip(w, f)

Next ==
    \/ \E f \in Files : Produce(f) \/ Withdraw(f) \/ LockAges(f)
    \/ \E w \in Watchers : Work(w) \/ Reject(w) \/ Fail(w) \/ Crash(w)

Spec == Init /\ [][Next]_vars

(* watch() scans again and again, systemd restarts a watcher that died,    *)
(* time passes for lock files and for next_retry.  Stated for a lone       *)
(* watcher, the only one that a liveness property is about.                *)
FairSpec ==
    /\ Spec
    /\ WF_vars(Lone /\ \E w \in Watchers : Work(w))
    /\ \A f \in Files : SF_vars(Lone /\ \E w \in Watchers : Examine(w, f))
    /\ \A f \in Files : WF_vars(LockAges(f))

-----------------------------------------------------------------------------
(* Properties.                                                             *)

TypeOK ==
    /\ post \in [Files -> Policies]
    /\ crew \in Crews
    /\ inbox \in [Files -> Versions \cup {Absent}]
    /\ written \in [Files -> 0..MaxVersions]
    /\ processed \in [Files -> Versions \cup {Absent}]
    /\ occurrences \in [Files -> [Versions -> Nat]]
    /\ jobs \subseteq Files \X Versions
    /\ saved \in [Files -> Entry]
    /\ lock \in [Files -> Watchers \cup {None, Dead}]
    /\ expired \subseteq Files /\ usurped \subseteq Files
    /\ pc \in [Watchers -> Claiming \cup {"idle", "scan", "stable", "claim", "takeover"}]
    /\ mem \in [Watchers -> [Files -> Entry]]
    /\ todo \in [Watchers -> SUBSET Files]
    /\ cur \in [Watchers -> Files]
    /\ seen \in [Watchers -> Versions \cup {Absent}]
    /\ retries \in [Watchers -> Nat]
    /\ staged \in [Watchers -> Versions \cup {Absent}]
    /\ \A w \in Watchers : pc[w] \in {"ingest", "finish"} => staged[w] # Absent
    /\ failures \in 0..MaxFailures
    /\ crashes \in 0..MaxCrashes
    /\ tries \in [Files -> 0..ManyTries]
    /\ unrecorded \in [Files -> [Versions -> Nat]]
    /\ deleted \subseteq Files \X Versions

(* However scans are repeated, interrupted, retried and restarted, the     *)
(* same bytes of the same file are given to the archive once, and once     *)
(* more for each attempt that was cut off after Archive.ingest and before  *)
(* the job file said COMPLETED (_recover_completed finds all others): as   *)
(* long as no take-over has let two watchers work on the file.             *)
OneOccurrencePerVersion == \A f \in Files, v \in Versions :
    f \notin usurped => occurrences[f][v] <= 1 + unrecorded[f][v]

(* A file that scans skip as completed is in the archive with the bytes it *)
(* has now, although fingerprint, hash and staged copy of a file are taken *)
(* at different moments while its producer goes on writing.                *)
CompletedIsArchived == \A f \in Files :
    saved[f].status = "COMPLETED" /\ inbox[f] # Absent /\ saved[f].fp = inbox[f]
        => occurrences[f][inbox[f]] > 0

(* Two watchers never work on the same file at the same time.  The code    *)
(* breaks this: two of them find the lock of a killed one too old, and the *)
(* slower unlinks the lock that the faster has just created (_claim).      *)
NeverTwoAtWork == \A v, w \in Watchers :
    v # w /\ {pc[v], pc[w]} \subseteq Claiming => cur[v] # cur[w]

(* What is true of claims (_claim, the finally of scan_once): through      *)
(* kills, take-overs and locks unlinked by path, two watchers work on one  *)
(* file only after such a second take-over, and none happens without a     *)
(* kill.                                                                   *)
ClaimIsExclusive ==
    /\ \A v, w \in Watchers :
        v # w /\ {pc[v], pc[w]} \subseteq Claiming /\ cur[v] = cur[w] => cur[w] \in usurped
    /\ usurped # {} => crashes > 0

(* A post-success policy unlinks only bytes that the archive has recorded. *)
DeletedIsArchived == \A x \in deleted : occurrences[x[1]][x[2]] > 0

(* Whatever a scan lets go of, by skipping or by unlinking it, is archived *)
(* with the bytes it had (WatchedInboxManager.scan_once, _post_success).   *)
LetGoIsArchived == CompletedIsArchived /\ DeletedIsArchived

(* A file that fails is tried max_retries times, and once more only for    *)
(* each kill that lost the count (bounded retry).  One watcher's: of two,  *)
(* the one that saves last forgets the failure the other counted.          *)
RetriesBounded == Lone => \A f \in Files : tries[f] <= MaxRetries + crashes

(* Every file is in the end left alone: completed, failed, or gone from    *)
(* the inbox, through kills, left-over lock files and failures.  One       *)
(* watcher's: of two, each may overwrite what the other saved for ever.    *)
EveryFileSettles == \A f \in Files :
    <>[](~Lone \/ inbox[f] = Absent \/ (saved[f].fp = inbox[f]
                               /\ saved[f].status \in {"COMPLETED", "FAILED"}))

(* The same bytes of the same file never get a second occurrence.          *)
NoSecondOccurrence == \A f \in Files, v \in Versions : occurrences[f][v] <= 1
=============================================================================
