---------------------------- MODULE ArchiveStore ----------------------------
(***************************************************************************)
(* The content-addressed store of store.py (Archive.ingest) together with  *)
(* the index rebuild of catalogue.py (Catalogue.rebuild).                  *)
(*                                                                         *)
(* Two kinds of durable state exist side by side.  The object tree holds,  *)
(* per content hash, a master, a manifest and one JSON sidecar per         *)
(* occurrence and per event.  The SQLite file holds the tables objects,    *)
(* occurrences and events.  An ingest writes both, in a fixed order and    *)
(* partly outside the transaction; a rebuild replaces the tables by what   *)
(* it read from the tree.  Any number of ingest calls (of any processes)   *)
(* and rebuilds run at once, and each of them may stop at any point.       *)
(*                                                                         *)
(* A content hash is identified with the content, so master[c] = c says    *)
(* that the bytes stored under a key hash to that key.  One element of     *)
(* Calls is one call of Archive.ingest; it also names the occurrence id    *)
(* (a fresh uuid4 per call) and the created_at, title and media_type the   *)
(* call puts into a manifest.                                              *)
(***************************************************************************)
EXTENDS FiniteSets

CONSTANTS
    Calls,       \* calls of Archive.ingest; also the occurrence ids they draw
    Rebuilders,  \* processes that may run Catalogue.rebuild
    Contents,    \* byte contents, each standing for its own sha256
    None,        \* Python's None, an absent file, an absent row
    Overlap      \* TRUE: rebuilds and ingests may run at the same time

(* An identity is what a manifest and an objects row agree on: the parent  *)
(* (derived_from, which also decides MASTER or DERIVATIVE) and the call    *)
(* whose title, media type and timestamp were recorded.                    *)
Parents  == Contents \cup {None}
Identity == [parent : Parents, call : Calls]

ASSUME NoneIsNoValue == None \notin Contents \cup Calls \cup Identity
ASSUME OverlapIsBoolean == Overlap \in BOOLEAN

VARIABLES
    master,             \* objects/sha256/../master: content stored per key
    manifest,           \* objects/sha256/../manifest.json
    occurrenceSidecars, \* calls whose occurrences/<id>.json is written
    eventSidecars,      \* calls whose INGESTION event sidecar is written
    objects,            \* table objects, committed rows
    occurrences,        \* table occurrences, committed rows
    events,             \* table events, committed INGESTION rows
    lock,               \* the call holding SQLite's write lock, or None
    source,             \* content now at the path the call ingests
    hash,               \* sha: what the call's first hash_file returned
    parent,             \* resolved request.derived_from
    isNew,              \* the call's SELECT found no row (existing is None)
    pc,                 \* next step of each ingest call
    rpc,                \* next step of each rebuild
    unread,             \* manifests the rebuild has still to read
    snapshot,           \* manifests the rebuild has read
    finishedBefore      \* history: calls that had returned when it started

fileVars    == <<master, manifest, occurrenceSidecars, eventSidecars>>
tableVars   == <<objects, occurrences, events>>
callVars    == <<source, hash, parent, isNew, pc>>
rebuildVars == <<rpc, unread, snapshot, finishedBefore>>
vars == <<fileVars, tableVars, lock, callVars, rebuildVars>>

Running == {"lookup", "copy", "insert", "manifest", "occurrence",
            "event", "eventRow", "sidecar"}
InFlight(t) == pc[t] \in Running
Goto(t, step) == pc' = [pc EXCEPT ![t] = step]

Init ==
    /\ master = [c \in Contents |-> None]
    /\ manifest = [c \in Contents |-> None]
    /\ occurrenceSidecars = {}
    /\ eventSidecars = {}
    /\ objects = [c \in Contents |-> None]
    /\ occurrences = {}
    /\ events = {}
    /\ lock = None
    /\ source = [t \in Calls |-> None]
    /\ hash = [t \in Calls |-> None]
    /\ parent = [t \in Calls |-> None]
    /\ isNew = [t \in Calls |-> FALSE]
    /\ pc = [t \in Calls |-> "idle"]
    /\ rpc = [r \in Rebuilders |-> "idle"]
    /\ unread = [r \in Rebuilders |-> {}]
    /\ snapshot = [r \in Rebuilders |-> [c \in Contents |-> None]]
    /\ finishedBefore = [r \in Rebuilders |-> {}]

-----------------------------------------------------------------------------
(* Archive.ingest, one action per step other calls can observe.            *)

(* Mutation: derived_from is not resolved.                                 *)
Begin_Unresolved(t) ==
    /\ pc[t] = "idle"
    /\ Overlap \/ \A r \in Rebuilders : rpc[r] = "idle"
    /\ \E c \in Contents, p \in Parents :
          /\ source' = [source EXCEPT ![t] = c]
          /\ hash' = [hash EXCEPT ![t] = c]
          /\ parent' = [parent EXCEPT ![t] = p]
    /\ Goto(t, "lookup")
    /\ UNCHANGED <<fileVars, tableVars, lock, isNew, rebuildVars>>

(* hash_file(path), then resolve(derived_from), which raises for an object *)
(* without a row.                                                          *)
Begin(t) ==
    /\ pc[t] = "idle"
    /\ Overlap \/ \A r \in Rebuilders : rpc[r] = "idle"
    /\ \E c \in Contents, p \in Parents :
          /\ p # None => objects[p] # None
          /\ source' = [source EXCEPT ![t] = c]
          /\ hash' = [hash EXCEPT ![t] = c]
          /\ parent' = [parent EXCEPT ![t] = p]
    /\ Goto(t, "lookup")
    /\ UNCHANGED <<fileVars, tableVars, lock, isNew, rebuildVars>>

(* Another program rewrites the file that is being ingested.               *)
RewriteSource(t) ==
    /\ pc[t] \in {"lookup", "copy"}
    /\ \E c \in Contents \ {source[t]} : source' = [source EXCEPT ![t] = c]
    /\ UNCHANGED <<fileVars, tableVars, lock, hash, parent, isNew, pc, rebuildVars>>

(* Mutation: a MASTER may turn into a derivative.                          *)
ConflictingIdentity_Lenient(t) ==
    /\ parent[t] # None
    /\ objects[hash[t]].parent \notin {None, parent[t]}

ConflictingIdentity(t) ==
    /\ parent[t] # None
    /\ objects[hash[t]].parent # parent[t]

(* SELECT * FROM objects: the row decides between storing the object,      *)
(* adding an occurrence to it, and PolicyError.                            *)
Lookup(t) ==
    /\ pc[t] = "lookup"
    /\ \/ /\ objects[hash[t]] = None
          /\ isNew' = [isNew EXCEPT ![t] = TRUE]
          /\ Goto(t, "copy")
       \/ /\ objects[hash[t]] # None
          /\ Goto(t, IF ConflictingIdentity(t) THEN "failed" ELSE "occurrence")
          /\ UNCHANGED isNew
    /\ UNCHANGED <<fileVars, tableVars, lock, source, hash, parent, rebuildVars>>

(* Mutation: the copy is renamed into place without the second hash.       *)
CopyMaster_Unverified(t) ==
    /\ pc[t] = "copy"
    /\ master' = [master EXCEPT ![hash[t]] = source[t]]
    /\ Goto(t, "insert")
    /\ UNCHANGED <<manifest, occurrenceSidecars, eventSidecars, tableVars, lock,
                   source, hash, parent, isNew, rebuildVars>>

(* The source is copied to a private temporary file, hashed again, and     *)
(* renamed onto master only if the hashes agree; otherwise IntegrityError. *)
CopyMaster(t) ==
    /\ pc[t] = "copy"
    /\ \/ /\ source[t] = hash[t]
          /\ master' = [master EXCEPT ![hash[t]] = source[t]]
          /\ Goto(t, "insert")
       \/ /\ source[t] # hash[t]
          /\ Goto(t, "failed")
          /\ UNCHANGED master
    /\ UNCHANGED <<manifest, occurrenceSidecars, eventSidecars, tableVars, lock,
                   source, hash, parent, isNew, rebuildVars>>

(* Mutation: INSERT OR REPLACE.                                            *)
InsertObject_Replace(t) ==
    /\ pc[t] = "insert"
    /\ lock = None
    /\ lock' = t
    /\ Goto(t, "manifest")
    /\ UNCHANGED <<fileVars, tableVars, source, hash, parent, isNew, rebuildVars>>

(* Mutation: the transaction commits before the manifest is written.       *)
InsertObject_NoManifest(t) ==
    /\ pc[t] = "insert"
    /\ lock = None
    /\ \/ /\ objects[hash[t]] = None
          /\ lock' = t
          /\ Goto(t, "occurrence")
       \/ /\ objects[hash[t]] # None
          /\ Goto(t, "failed")
          /\ UNCHANGED lock
    /\ UNCHANGED <<fileVars, tableVars, source, hash, parent, isNew, rebuildVars>>

(* INSERT INTO objects takes the write lock; the primary key refuses a row *)
(* that was committed since Lookup.                                        *)
InsertObject(t) ==
    /\ pc[t] = "insert"
    /\ lock = None
    /\ \/ /\ objects[hash[t]] = None
          /\ lock' = t
          /\ Goto(t, "manifest")
       \/ /\ objects[hash[t]] # None
          /\ Goto(t, "failed")
          /\ UNCHANGED lock
    /\ UNCHANGED <<fileVars, tableVars, source, hash, parent, isNew, rebuildVars>>

(* Mutation: the manifest lacks the values of its call.                    *)
OwnIdentity_Anonymous(t) == [parent |-> parent[t], call |-> None]

OwnIdentity(t) == [parent |-> parent[t], call |-> t]

(* The manifest is renamed into place before the transaction commits.      *)
WriteManifest(t) ==
    /\ pc[t] = "manifest"
    /\ manifest' = [manifest EXCEPT ![hash[t]] = OwnIdentity(t)]
    /\ Goto(t, "occurrence")
    /\ UNCHANGED <<master, occurrenceSidecars, eventSidecars, tableVars, lock,
                   source, hash, parent, isNew, rebuildVars>>

(* INSERT INTO occurrences and COMMIT: together with the objects row when  *)
(* this call stores the object, alone otherwise.                           *)
CommitOccurrence(t) ==
    /\ pc[t] = "occurrence"
    /\ \/ /\ isNew[t]
          /\ lock = t
          /\ objects' = [objects EXCEPT ![hash[t]] = OwnIdentity(t)]
          /\ lock' = None
       \/ /\ ~isNew[t]
          /\ lock = None
          /\ UNCHANGED <<objects, lock>>
    /\ occurrences' = occurrences \cup {t}
    /\ Goto(t, "event")
    /\ UNCHANGED <<fileVars, events, source, hash, parent, isNew, rebuildVars>>

(* append_event: the sidecar first, the row in a transaction of its own.   *)
WriteEvent(t) ==
    /\ pc[t] = "event"
    /\ eventSidecars' = eventSidecars \cup {t}
    /\ Goto(t, "eventRow")
    /\ UNCHANGED <<master, manifest, occurrenceSidecars, tableVars, lock,
                   source, hash, parent, isNew, rebuildVars>>

(* Mutation: the call returns without _write_occurrence.                   *)
InsertEvent_Last(t) ==
    /\ pc[t] = "eventRow"
    /\ lock = None
    /\ events' = events \cup {t}
    /\ Goto(t, "done")
    /\ UNCHANGED <<fileVars, objects, occurrences, lock, source, hash, parent,
                   isNew, rebuildVars>>

InsertEvent(t) ==
    /\ pc[t] = "eventRow"
    /\ lock = None
    /\ events' = events \cup {t}
    /\ Goto(t, "sidecar")
    /\ UNCHANGED <<fileVars, objects, occurrences, lock, source, hash, parent,
                   isNew, rebuildVars>>

(* _write_occurrence is the last step; then the call returns.              *)
WriteOccurrence(t) ==
    /\ pc[t] = "sidecar"
    /\ occurrenceSidecars' = occurrenceSidecars \cup {t}
    /\ Goto(t, "done")
    /\ UNCHANGED <<master, manifest, eventSidecars, tableVars, lock,
                   source, hash, parent, isNew, rebuildVars>>

(* Mutation: the lock outlives its holder.                                 *)
Crash_LockKept(t) ==
    /\ InFlight(t)
    /\ Goto(t, "failed")
    /\ UNCHANGED <<fileVars, tableVars, lock, source, hash, parent, isNew, rebuildVars>>

(* The process dies, or a file or SQLite error ends the call: an open      *)
(* transaction is rolled back and its lock released, files stay as they    *)
(* are.                                                                    *)
Crash(t) ==
    /\ InFlight(t)
    /\ Goto(t, "failed")
    /\ lock' = IF lock = t THEN None ELSE lock
    /\ UNCHANGED <<fileVars, tableVars, source, hash, parent, isNew, rebuildVars>>

IngestStep(t) ==
    \/ Lookup(t)
    \/ CopyMaster(t)
    \/ InsertObject(t)
    \/ WriteManifest(t)
    \/ CommitOccurrence(t)
    \/ WriteEvent(t)
    \/ InsertEvent(t)
    \/ WriteOccurrence(t)

-----------------------------------------------------------------------------
(* Catalogue.rebuild.                                                      *)

StartRebuild(r) ==
    /\ rpc[r] = "idle"
    /\ Overlap \/ \A t \in Calls : ~InFlight(t)
    /\ rpc' = [rpc EXCEPT ![r] = "scan"]
    /\ unread' = [unread EXCEPT ![r] = Contents]
    /\ snapshot' = [snapshot EXCEPT ![r] = [c \in Contents |-> None]]
    /\ finishedBefore' = [finishedBefore EXCEPT ![r] = {t \in Calls : pc[t] = "done"}]
    /\ UNCHANGED <<fileVars, tableVars, lock, callVars>>

(* _manifests() reads the manifests one after the other, before the        *)
(* transaction opens.                                                      *)
ScanManifest(r) ==
    /\ rpc[r] = "scan"
    /\ \E c \in unread[r] :
          /\ snapshot' = [snapshot EXCEPT ![r][c] = manifest[c]]
          /\ unread' = [unread EXCEPT ![r] = @ \ {c}]
    /\ UNCHANGED <<fileVars, tableVars, lock, callVars, rpc, finishedBefore>>

(* One transaction deletes the tables and fills them from the manifests    *)
(* read before and from the occurrence and event sidecars read inside it.  *)
CommitRebuild(r) ==
    /\ rpc[r] = "scan"
    /\ unread[r] = {}
    /\ lock = None
    /\ objects' = snapshot[r]
    /\ occurrences' = {t \in occurrenceSidecars : snapshot[r][hash[t]] # None}
    /\ events' = {t \in eventSidecars : snapshot[r][hash[t]] # None}
    /\ rpc' = [rpc EXCEPT ![r] = "idle"]
    /\ snapshot' = [snapshot EXCEPT ![r] = [c \in Contents |-> None]]
    /\ finishedBefore' = [finishedBefore EXCEPT ![r] = {}]
    /\ UNCHANGED <<fileVars, lock, callVars, unread>>

(* The rebuild dies or times out on the lock: its transaction never was.   *)
AbortRebuild(r) ==
    /\ rpc[r] = "scan"
    /\ rpc' = [rpc EXCEPT ![r] = "idle"]
    /\ unread' = [unread EXCEPT ![r] = {}]
    /\ snapshot' = [snapshot EXCEPT ![r] = [c \in Contents |-> None]]
    /\ finishedBefore' = [finishedBefore EXCEPT ![r] = {}]
    /\ UNCHANGED <<fileVars, tableVars, lock, callVars>>

-----------------------------------------------------------------------------
Next ==
    \/ \E t \in Calls : Begin(t) \/ RewriteSource(t) \/ IngestStep(t) \/ Crash(t)
    \/ \E r \in Rebuilders :
          StartRebuild(r) \/ ScanManifest(r) \/ CommitRebuild(r) \/ AbortRebuild(r)

Spec == Init /\ [][Next]_vars

(* A process that has started an ingest keeps executing it.                *)
FairSpec == Spec /\ \A t \in Calls : WF_vars(IngestStep(t))

-----------------------------------------------------------------------------
(* Properties.                                                             *)

MaybeIdentity == Identity \cup {None}

(* Every variable holds a value of its kind.                               *)
TypeOK ==
    /\ master \in [Contents -> Contents \cup {None}]
    /\ manifest \in [Contents -> MaybeIdentity]
    /\ occurrenceSidecars \subseteq Calls
    /\ eventSidecars \subseteq Calls
    /\ objects \in [Contents -> MaybeIdentity]
    /\ occurrences \subseteq Calls
    /\ events \subseteq Calls
    /\ lock \in Calls \cup {None}
    /\ source \in [Calls -> Contents \cup {None}]
    /\ hash \in [Calls -> Contents \cup {None}]
    /\ parent \in [Calls -> Parents]
    /\ isNew \in [Calls -> BOOLEAN]
    /\ pc \in [Calls -> Running \cup {"idle", "done", "failed"}]
    /\ rpc \in [Rebuilders -> {"idle", "scan"}]
    /\ unread \in [Rebuilders -> SUBSET Contents]
    /\ snapshot \in [Rebuilders -> [Contents -> MaybeIdentity]]
    /\ finishedBefore \in [Rebuilders -> SUBSET Calls]

(* Whatever rewrites the source while it is copied, and whoever copies at  *)
(* the same time, the bytes under a key hash to the key: the second        *)
(* hash_file before os.replace.                                            *)
MasterMatchesKey == \A c \in Contents : master[c] \in {None, c}

(* A committed objects row never precedes its master and its manifest, so  *)
(* no reader of the index is sent to a missing object, and a derivative's  *)
(* parent bytes are stored: the order copy, insert, manifest, commit.      *)
RowBackedByFiles ==
    \A c \in Contents : objects[c] # None =>
        /\ master[c] = c
        /\ manifest[c] # None
        /\ objects[c].parent # None => master[objects[c].parent] # None

(* While an object has a row its manifest does not change: two calls that  *)
(* both saw no row are told apart by the primary key before either writes. *)
CommittedManifestStable ==
    [][\A c \in Contents :
          objects[c] # None => manifest'[c] = manifest[c]]_vars

(* A rebuild keeps the object, the occurrence and the event of every       *)
(* ingest that had returned when the rebuild started, whatever runs beside *)
(* it.                                                                     *)
ReturnedIngestSurvivesRebuild ==
    [][\A r \in Rebuilders : CommitRebuild(r) =>
          \A t \in finishedBefore[r] :
             /\ objects'[hash[t]] # None
             /\ t \in occurrences' \cap events']_vars

(* Once the ingest that stored an object has returned, no ingest returns   *)
(* that gave the same bytes another parent: the PolicyError of             *)
(* Archive.ingest, across calls and across rebuilds.                       *)
NoConflictingDerivation ==
    \A t, u \in Calls :
        (/\ pc[t] = "done" /\ pc[u] = "done"
         /\ isNew[t] /\ hash[t] = hash[u]
         /\ parent[u] # None) => parent[u] = parent[t]

(* The index is closed: an occurrence or event row names an object that    *)
(* has a row, and a derivative's parent has one (the foreign keys that     *)
(* the schema declares and most connections do not enforce).               *)
IndexIsClosed ==
    /\ \A t \in occurrences \cup events : objects[hash[t]] # None
    /\ \A c \in Contents : (objects[c] # None /\ objects[c].parent # None)
          => objects[objects[c].parent] # None

(* The index row of an object says what its manifest says.                 *)
RowAgreesWithManifest ==
    \A c \in Contents : objects[c] # None => objects[c] = manifest[c]

(* The index, the files and what the callers were told describe the same   *)
(* derivations (Archive.ingest, Catalogue.rebuild).                        *)
IndexAgrees == NoConflictingDerivation /\ IndexIsClosed /\ RowAgreesWithManifest

(* Every ingest ends: no call waits for ever on SQLite's write lock.       *)
IngestEnds == \A t \in Calls : InFlight(t) ~> ~InFlight(t)

(* The promise to callers, read off the index and the calls that returned. *)
Registry == INSTANCE ObjectRegistry WITH
    identity <- objects,
    returned <- {<<hash[t], parent[t]>> : t \in {u \in Calls : pc[u] = "done"}}

(* When rebuilds and ingests take turns, the store with its crashes and    *)
(* rebuilds implements ObjectRegistry.                                     *)
ImplementsRegistry == Registry!Spec
=============================================================================
