-------------------------- MODULE ArchiveStoreProofs --------------------------
(***************************************************************************)
(* Proofs about ArchiveStore, for any sets of calls, rebuilders and        *)
(* contents and for both values of Overlap.                                *)
(*                                                                         *)
(* The argument: a manifest is written only after its master, a row is     *)
(* committed only after its manifest, and neither a master nor a manifest  *)
(* ever disappears; so what a call, a row or a rebuild's snapshot once saw *)
(* in the object tree stays true, however the steps interleave.            *)
(***************************************************************************)
EXTENDS ArchiveStore, TLAPS

Stored(c) == master[c] = c

(* What a call knows about the object tree at each of its steps.           *)
CallsAreBacked ==
    \A t \in Calls :
        /\ pc[t] # "idle" => hash[t] \in Contents
        /\ (pc[t] # "idle" /\ parent[t] # None) => Stored(parent[t])
        /\ pc[t] \in {"insert", "manifest"} => Stored(hash[t])
        /\ pc[t] \in {"occurrence", "event", "eventRow", "sidecar", "done"}
              => manifest[hash[t]] # None
        /\ pc[t] \in {"eventRow", "sidecar", "done"} => t \in eventSidecars
        /\ pc[t] = "done" => t \in occurrenceSidecars

ManifestsAreBacked ==
    \A c \in Contents : manifest[c] # None =>
        /\ Stored(c)
        /\ manifest[c].parent # None => Stored(manifest[c].parent)

SnapshotsAreBacked ==
    \A r \in Rebuilders, c \in Contents : snapshot[r][c] # None =>
        /\ manifest[c] # None
        /\ snapshot[r][c].parent # None => Stored(snapshot[r][c].parent)

(* The call about to write a manifest holds the write lock, and the object *)
(* has no row.                                                             *)
WriterHoldsLock ==
    \A t \in Calls : pc[t] = "manifest" => lock = t /\ objects[hash[t]] = None

(* A running rebuild has read the manifest of every call that had returned *)
(* when it started, or has it still to read.                               *)
RebuildCoversReturned ==
    \A r \in Rebuilders : \A t \in finishedBefore[r] :
        /\ pc[t] = "done"
        /\ rpc[r] = "scan" /\ hash[t] \notin unread[r]
              => snapshot[r][hash[t]] # None

StoreInv ==
    /\ TypeOK
    /\ MasterMatchesKey
    /\ RowBackedByFiles
    /\ CallsAreBacked
    /\ ManifestsAreBacked
    /\ SnapshotsAreBacked
    /\ WriterHoldsLock
    /\ RebuildCoversReturned

-----------------------------------------------------------------------------
(* Type correctness.                                                       *)

(* The initial state satisfies the whole invariant: nothing is stored and  *)
(* no call or rebuild has begun.                                           *)
LEMMA InitEstablishesStoreInv == Init => StoreInv
BY DEF Init, StoreInv, TypeOK, MasterMatchesKey, RowBackedByFiles,
    CallsAreBacked, ManifestsAreBacked, SnapshotsAreBacked, WriterHoldsLock,
    RebuildCoversReturned, Stored, Parents, MaybeIdentity

(* No step of an ingest or of a rebuild leaves the types of TypeOK.        *)
LEMMA TypePreserved == TypeOK /\ [Next]_vars => TypeOK'
<1> SUFFICES ASSUME TypeOK, [Next]_vars PROVE TypeOK'
  OBVIOUS
<1> USE DEF fileVars, tableVars, callVars, rebuildVars, Goto
<1>1. CASE \E t \in Calls : Begin(t)
  BY <1>1 DEF Begin, TypeOK, Running
<1>2. CASE \E t \in Calls : RewriteSource(t)
  BY <1>2 DEF RewriteSource, TypeOK
<1>3. CASE \E t \in Calls : Lookup(t)
  BY <1>3 DEF Lookup, TypeOK, Running, ConflictingIdentity
<1>4. CASE \E t \in Calls : CopyMaster(t)
  <2>1. PICK t \in Calls : CopyMaster(t)
    BY <1>4
  <2>2. master' \in [Contents -> Contents \cup {None}]
    BY <2>1 DEF CopyMaster, TypeOK
  <2>3. pc' \in [Calls -> Running \cup {"idle", "done", "failed"}]
    BY <2>1 DEF CopyMaster, TypeOK, Running
  <2>4. QED
    BY <2>1, <2>2, <2>3 DEF CopyMaster, TypeOK
<1>5. CASE \E t \in Calls : InsertObject(t)
  BY <1>5 DEF InsertObject, TypeOK, Running
<1>6. CASE \E t \in Calls : WriteManifest(t)
  <2>1. PICK t \in Calls : WriteManifest(t)
    BY <1>6
  <2>2. OwnIdentity(t) \in MaybeIdentity
    BY DEF TypeOK, OwnIdentity, MaybeIdentity, Identity
  <2>3. manifest' \in [Contents -> MaybeIdentity]
    BY <2>1, <2>2 DEF WriteManifest, TypeOK
  <2>4. pc' \in [Calls -> Running \cup {"idle", "done", "failed"}]
    BY <2>1 DEF WriteManifest, TypeOK, Running
  <2>5. QED
    BY <2>1, <2>3, <2>4 DEF WriteManifest, TypeOK
<1>7. CASE \E t \in Calls : CommitOccurrence(t)
  BY <1>7
  DEF CommitOccurrence, TypeOK, Running, Parents, Identity, MaybeIdentity,
      OwnIdentity
<1>8. CASE \E t \in Calls : WriteEvent(t)
  BY <1>8 DEF WriteEvent, TypeOK, Running
<1>9. CASE \E t \in Calls : InsertEvent(t)
  BY <1>9 DEF InsertEvent, TypeOK, Running
<1>10. CASE \E t \in Calls : WriteOccurrence(t)
  BY <1>10 DEF WriteOccurrence, TypeOK
<1>11. CASE \E t \in Calls : Crash(t)
  BY <1>11 DEF Crash, TypeOK
<1>12. CASE \E r \in Rebuilders : StartRebuild(r)
  BY <1>12 DEF StartRebuild, TypeOK, MaybeIdentity
<1>13. CASE \E r \in Rebuilders : ScanManifest(r)
  BY <1>13 DEF ScanManifest, TypeOK
<1>14. CASE \E r \in Rebuilders : CommitRebuild(r)
  BY <1>14 DEF CommitRebuild, TypeOK, MaybeIdentity
<1>15. CASE \E r \in Rebuilders : AbortRebuild(r)
  BY <1>15 DEF AbortRebuild, TypeOK, MaybeIdentity
<1>16. CASE UNCHANGED vars
  BY <1>16 DEF vars, fileVars, tableVars, callVars, rebuildVars, TypeOK
<1>17. QED
  BY <1>1, <1>2, <1>3, <1>4, <1>5, <1>6, <1>7, <1>8, <1>9, <1>10, <1>11,
     <1>12, <1>13, <1>14, <1>15, <1>16
  DEF Next, IngestStep

-----------------------------------------------------------------------------
(* The rest of the invariant.                                              *)

(* A stored master stays stored, and a manifest that exists stays.         *)
NothingDisappears ==
    \A c \in Contents :
        /\ Stored(c) => Stored(c)'
        /\ manifest[c] # None => manifest'[c] # None

(* No step removes a master or a manifest from the object tree.            *)
LEMMA FilesGrow == StoreInv /\ [Next]_vars => NothingDisappears
<1> SUFFICES ASSUME StoreInv, [Next]_vars PROVE NothingDisappears
  OBVIOUS
<1> USE DEF fileVars, tableVars, callVars, rebuildVars, Goto
<1>0. TypeOK /\ TypeOK'
  BY TypePreserved DEF StoreInv
<1>1. CASE \E t \in Calls : CopyMaster(t)
  BY <1>0, <1>1 DEF NothingDisappears, CopyMaster, Stored, TypeOK
<1>2. CASE \E t \in Calls : WriteManifest(t)
  BY <1>0, <1>2, NoneIsNoValue
  DEF NothingDisappears, WriteManifest, Stored, TypeOK, OwnIdentity, Identity
<1>3. CASE \E t \in Calls :
        Begin(t) \/ RewriteSource(t) \/ Lookup(t) \/ InsertObject(t)
        \/ CommitOccurrence(t) \/ WriteEvent(t) \/ InsertEvent(t)
        \/ WriteOccurrence(t) \/ Crash(t)
  BY <1>0, <1>3
  DEF NothingDisappears, Begin, RewriteSource, Lookup, InsertObject,
      CommitOccurrence, WriteEvent, InsertEvent, WriteOccurrence, Crash,
      Stored
<1>4. CASE \E r \in Rebuilders :
        StartRebuild(r) \/ ScanManifest(r) \/ CommitRebuild(r)
        \/ AbortRebuild(r)
  BY <1>0, <1>4
  DEF NothingDisappears, StartRebuild, ScanManifest, CommitRebuild,
      AbortRebuild, Stored
<1>5. CASE UNCHANGED vars
  BY <1>5 DEF NothingDisappears, vars, Stored
<1>6. QED
  BY <1>1, <1>2, <1>3, <1>4, <1>5 DEF Next, IngestStep

(* The bytes under a key keep hashing to it.                              *)
LEMMA MasterMatchesKeyPreserved ==
    StoreInv /\ [Next]_vars => MasterMatchesKey'
<1> SUFFICES ASSUME StoreInv, [Next]_vars PROVE MasterMatchesKey'
  OBVIOUS
<1> USE DEF fileVars, tableVars, callVars, rebuildVars, Goto
<1>0. TypeOK /\ TypeOK'
  BY TypePreserved DEF StoreInv
<1>1. CASE \E t \in Calls : CopyMaster(t)
  BY <1>0, <1>1 DEF CopyMaster, StoreInv, MasterMatchesKey, TypeOK
<1>2. CASE \E t \in Calls :
        Begin(t) \/ RewriteSource(t) \/ Lookup(t) \/ InsertObject(t)
        \/ WriteManifest(t) \/ CommitOccurrence(t) \/ WriteEvent(t)
        \/ InsertEvent(t) \/ WriteOccurrence(t) \/ Crash(t)
  BY <1>0, <1>2
  DEF Begin, RewriteSource, Lookup, InsertObject, WriteManifest,
      CommitOccurrence, WriteEvent, InsertEvent, WriteOccurrence, Crash,
      StoreInv, MasterMatchesKey
<1>3. CASE \E r \in Rebuilders :
        StartRebuild(r) \/ ScanManifest(r) \/ CommitRebuild(r)
        \/ AbortRebuild(r)
  BY <1>0, <1>3
  DEF StartRebuild, ScanManifest, CommitRebuild, AbortRebuild, StoreInv,
      MasterMatchesKey
<1>4. CASE UNCHANGED vars
  BY <1>4 DEF vars, StoreInv, MasterMatchesKey
<1>5. QED
  BY <1>1, <1>2, <1>3, <1>4 DEF Next, IngestStep

(* A manifest keeps its master and its parent's master.                   *)
LEMMA ManifestsPreserved ==
    StoreInv /\ [Next]_vars => ManifestsAreBacked'
<1> SUFFICES ASSUME StoreInv, [Next]_vars PROVE ManifestsAreBacked'
  OBVIOUS
<1> USE DEF fileVars, tableVars, callVars, rebuildVars, Goto
<1>0. TypeOK /\ TypeOK'
  BY TypePreserved DEF StoreInv
<1>1. CASE \E t \in Calls : CopyMaster(t)
  BY <1>0, <1>1
  DEF CopyMaster, StoreInv, ManifestsAreBacked, TypeOK, MaybeIdentity,
      Identity, Parents, Stored
<1>2. CASE \E t \in Calls : WriteManifest(t)
  BY <1>0, <1>2
  DEF WriteManifest, StoreInv, ManifestsAreBacked, CallsAreBacked, Stored,
      TypeOK, OwnIdentity
<1>3. CASE \E t \in Calls :
        Begin(t) \/ RewriteSource(t) \/ Lookup(t) \/ InsertObject(t)
        \/ CommitOccurrence(t) \/ WriteEvent(t) \/ InsertEvent(t)
        \/ WriteOccurrence(t) \/ Crash(t)
  BY <1>0, <1>3
  DEF Begin, RewriteSource, Lookup, InsertObject, CommitOccurrence,
      WriteEvent, InsertEvent, WriteOccurrence, Crash, StoreInv,
      ManifestsAreBacked, Stored
<1>4. CASE \E r \in Rebuilders :
        StartRebuild(r) \/ ScanManifest(r) \/ CommitRebuild(r)
        \/ AbortRebuild(r)
  BY <1>0, <1>4
  DEF StartRebuild, ScanManifest, CommitRebuild, AbortRebuild, StoreInv,
      ManifestsAreBacked, Stored
<1>5. CASE UNCHANGED vars
  BY <1>5 DEF vars, StoreInv, ManifestsAreBacked, Stored
<1>6. QED
  BY <1>1, <1>2, <1>3, <1>4, <1>5 DEF Next, IngestStep

(* What a rebuild has read stays backed by the object tree.               *)
LEMMA SnapshotsPreserved ==
    StoreInv /\ [Next]_vars => SnapshotsAreBacked'
<1> SUFFICES ASSUME StoreInv, [Next]_vars PROVE SnapshotsAreBacked'
  OBVIOUS
<1> USE DEF fileVars, tableVars, callVars, rebuildVars, Goto
<1>0. TypeOK /\ TypeOK'
  BY TypePreserved DEF StoreInv
<1>1. CASE \E t \in Calls : CopyMaster(t)
  BY <1>0, <1>1
  DEF CopyMaster, StoreInv, SnapshotsAreBacked, TypeOK, MaybeIdentity,
      Identity, Parents, Stored
<1>2. CASE \E t \in Calls : WriteManifest(t)
  BY <1>0, <1>2, FilesGrow
  DEF NothingDisappears, WriteManifest, StoreInv, SnapshotsAreBacked, Stored
<1>3. CASE \E r \in Rebuilders : StartRebuild(r)
  BY <1>0, <1>3 DEF StartRebuild, StoreInv, SnapshotsAreBacked, Stored, TypeOK
<1>4. CASE \E r \in Rebuilders : CommitRebuild(r)
  BY <1>0, <1>4 DEF CommitRebuild, StoreInv, SnapshotsAreBacked, Stored, TypeOK
<1>5. CASE \E r \in Rebuilders : AbortRebuild(r)
  BY <1>0, <1>5 DEF AbortRebuild, StoreInv, SnapshotsAreBacked, Stored, TypeOK
<1>6. CASE \E r \in Rebuilders : ScanManifest(r)
  BY <1>0, <1>6
  DEF ScanManifest, StoreInv, SnapshotsAreBacked, ManifestsAreBacked, Stored,
      TypeOK
<1>7. CASE \E t \in Calls :
        Begin(t) \/ RewriteSource(t) \/ Lookup(t) \/ InsertObject(t)
        \/ CommitOccurrence(t) \/ WriteEvent(t) \/ InsertEvent(t)
        \/ WriteOccurrence(t) \/ Crash(t)
  BY <1>0, <1>7
  DEF Begin, RewriteSource, Lookup, InsertObject, CommitOccurrence,
      WriteEvent, InsertEvent, WriteOccurrence, Crash, StoreInv,
      SnapshotsAreBacked, Stored
<1>8. CASE UNCHANGED vars
  BY <1>8 DEF vars, StoreInv, SnapshotsAreBacked, Stored
<1>9. QED
  BY <1>1, <1>2, <1>3, <1>4, <1>5, <1>6, <1>7, <1>8 DEF Next, IngestStep

(* A row is committed only over a manifest that is already there.         *)
LEMMA RowsPreserved ==
    StoreInv /\ [Next]_vars => RowBackedByFiles'
<1> SUFFICES ASSUME StoreInv, [Next]_vars PROVE RowBackedByFiles'
  OBVIOUS
<1> USE DEF fileVars, tableVars, callVars, rebuildVars, Goto
<1>0. TypeOK /\ TypeOK'
  BY TypePreserved DEF StoreInv
<1>1. CASE \E t \in Calls : CopyMaster(t)
  BY <1>0, <1>1
  DEF CopyMaster, StoreInv, RowBackedByFiles, TypeOK, MaybeIdentity, Identity,
      Parents, Stored
<1>2. CASE \E t \in Calls : WriteManifest(t)
  BY <1>0, <1>2, FilesGrow
  DEF NothingDisappears, WriteManifest, StoreInv, RowBackedByFiles, Stored
<1>3. CASE \E t \in Calls : CommitOccurrence(t)
  BY <1>0, <1>3
  DEF CommitOccurrence, StoreInv, RowBackedByFiles, CallsAreBacked,
      ManifestsAreBacked, OwnIdentity, Stored, TypeOK
<1>4. CASE \E r \in Rebuilders : CommitRebuild(r)
  BY <1>0, <1>4
  DEF CommitRebuild, StoreInv, RowBackedByFiles, SnapshotsAreBacked,
      ManifestsAreBacked, Stored, TypeOK
<1>5. CASE \E t \in Calls :
        Begin(t) \/ RewriteSource(t) \/ Lookup(t) \/ InsertObject(t)
        \/ WriteEvent(t) \/ InsertEvent(t) \/ WriteOccurrence(t)
        \/ Crash(t)
  BY <1>0, <1>5
  DEF Begin, RewriteSource, Lookup, InsertObject, WriteEvent, InsertEvent,
      WriteOccurrence, Crash, StoreInv, RowBackedByFiles, Stored
<1>6. CASE \E r \in Rebuilders :
        StartRebuild(r) \/ ScanManifest(r) \/ AbortRebuild(r)
  BY <1>0, <1>6
  DEF StartRebuild, ScanManifest, AbortRebuild, StoreInv, RowBackedByFiles,
      Stored
<1>7. CASE UNCHANGED vars
  BY <1>7 DEF vars, StoreInv, RowBackedByFiles, Stored
<1>8. QED
  BY <1>1, <1>2, <1>3, <1>4, <1>5, <1>6, <1>7 DEF Next, IngestStep

(* What a call knows of the object tree stays true.                       *)
LEMMA CallsPreserved ==
    StoreInv /\ [Next]_vars => CallsAreBacked'
<1> SUFFICES ASSUME StoreInv, [Next]_vars PROVE CallsAreBacked'
  OBVIOUS
<1> USE DEF fileVars, tableVars, callVars, rebuildVars, Goto
<1>0. TypeOK /\ TypeOK'
  BY TypePreserved DEF StoreInv
<1>1. CASE \E t \in Calls : Begin(t)
  BY <1>0, <1>1
  DEF Begin, StoreInv, CallsAreBacked, RowBackedByFiles, TypeOK, Parents,
      Stored
<1>2. CASE \E t \in Calls : Lookup(t)
  BY <1>0, <1>2
  DEF Lookup, StoreInv, CallsAreBacked, RowBackedByFiles, TypeOK, Stored
<1>3. CASE \E t \in Calls : CopyMaster(t)
  BY <1>0, <1>3
  DEF CopyMaster, StoreInv, CallsAreBacked, TypeOK, Parents, Stored
<1>4. CASE \E t \in Calls : InsertObject(t)
  BY <1>0, <1>4 DEF InsertObject, StoreInv, CallsAreBacked, TypeOK, Stored
<1>5. CASE \E t \in Calls : WriteManifest(t)
  <2>1. PICK t \in Calls : WriteManifest(t)
    BY <1>5
  <2>2. manifest'[hash[t]] # None
    BY <1>0, <2>1, NoneIsNoValue
    DEF WriteManifest, StoreInv, CallsAreBacked, TypeOK, OwnIdentity, Identity
  <2>3. \A u \in Calls : manifest[hash[u]] # None => manifest'[hash[u]] # None
    BY <1>0, <2>1, <2>2 DEF WriteManifest, TypeOK
  <2>4. \A u \in Calls \ {t} : pc'[u] = pc[u]
    BY <1>0, <2>1 DEF WriteManifest, TypeOK
  <2>5. pc[t] = "manifest" /\ pc'[t] = "occurrence"
    BY <1>0, <2>1 DEF WriteManifest, TypeOK
  <2>6. QED
    BY <2>1, <2>2, <2>3, <2>4, <2>5
    DEF WriteManifest, StoreInv, CallsAreBacked, Stored
<1>6. CASE \E t \in Calls : CommitOccurrence(t)
  BY <1>0, <1>6 DEF CommitOccurrence, StoreInv, CallsAreBacked, TypeOK, Stored
<1>7. CASE \E t \in Calls : WriteEvent(t)
  BY <1>0, <1>7 DEF WriteEvent, StoreInv, CallsAreBacked, TypeOK, Stored
<1>8. CASE \E t \in Calls : InsertEvent(t)
  BY <1>0, <1>8 DEF InsertEvent, StoreInv, CallsAreBacked, TypeOK, Stored
<1>9. CASE \E t \in Calls : WriteOccurrence(t)
  BY <1>0, <1>9 DEF WriteOccurrence, StoreInv, CallsAreBacked, TypeOK, Stored
<1>10. CASE \E t \in Calls : Crash(t)
  BY <1>0, <1>10
  DEF Crash, StoreInv, CallsAreBacked, TypeOK, InFlight, Running, Stored
<1>11. CASE \E t \in Calls : RewriteSource(t)
  BY <1>0, <1>11 DEF RewriteSource, StoreInv, CallsAreBacked, TypeOK, Stored
<1>12. CASE \E r \in Rebuilders :
        StartRebuild(r) \/ ScanManifest(r) \/ CommitRebuild(r)
        \/ AbortRebuild(r)
  BY <1>0, <1>12
  DEF StartRebuild, ScanManifest, CommitRebuild, AbortRebuild, StoreInv,
      CallsAreBacked, TypeOK, Stored
<1>13. CASE UNCHANGED vars
  BY <1>13 DEF vars, StoreInv, CallsAreBacked, TypeOK, Stored
<1>14. QED
  BY <1>1, <1>2, <1>3, <1>4, <1>5, <1>6, <1>7, <1>8, <1>9, <1>10, <1>11,
     <1>12, <1>13
  DEF Next, IngestStep

(* The write lock keeps rows away from the object a call describes.       *)
LEMMA WriterPreserved ==
    StoreInv /\ [Next]_vars => WriterHoldsLock'
<1> SUFFICES ASSUME StoreInv, [Next]_vars PROVE WriterHoldsLock'
  OBVIOUS
<1> USE DEF fileVars, tableVars, callVars, rebuildVars, Goto
<1>0. TypeOK /\ TypeOK'
  BY TypePreserved DEF StoreInv
<1>1. CASE \E t \in Calls : Lookup(t)
  BY <1>0, <1>1 DEF Lookup, StoreInv, WriterHoldsLock, TypeOK
<1>2. CASE \E t \in Calls : CopyMaster(t)
  BY <1>0, <1>2 DEF CopyMaster, StoreInv, WriterHoldsLock, TypeOK
<1>3. CASE \E t \in Calls : InsertObject(t)
  BY <1>0, <1>3, NoneIsNoValue
  DEF InsertObject, StoreInv, WriterHoldsLock, TypeOK
<1>4. CASE \E t \in Calls : WriteManifest(t)
  BY <1>0, <1>4 DEF WriteManifest, StoreInv, WriterHoldsLock, TypeOK
<1>5. CASE \E t \in Calls : CommitOccurrence(t)
  BY <1>0, <1>5 DEF CommitOccurrence, StoreInv, WriterHoldsLock, TypeOK
<1>6. CASE \E t \in Calls : Crash(t)
  BY <1>0, <1>6 DEF Crash, StoreInv, WriterHoldsLock, TypeOK
<1>7. CASE \E r \in Rebuilders : CommitRebuild(r)
  BY <1>0, <1>7, NoneIsNoValue
  DEF CommitRebuild, StoreInv, WriterHoldsLock, TypeOK
<1>8. CASE \E t \in Calls :
        Begin(t) \/ RewriteSource(t) \/ WriteEvent(t) \/ InsertEvent(t)
        \/ WriteOccurrence(t)
  BY <1>0, <1>8
  DEF Begin, RewriteSource, WriteEvent, InsertEvent, WriteOccurrence,
      StoreInv, WriterHoldsLock, TypeOK
<1>9. CASE \E r \in Rebuilders :
        StartRebuild(r) \/ ScanManifest(r) \/ AbortRebuild(r)
  BY <1>0, <1>9
  DEF StartRebuild, ScanManifest, AbortRebuild, StoreInv, WriterHoldsLock,
      TypeOK
<1>10. CASE UNCHANGED vars
  BY <1>10 DEF vars, StoreInv, WriterHoldsLock, TypeOK
<1>11. QED
  BY <1>1, <1>2, <1>3, <1>4, <1>5, <1>6, <1>7, <1>8, <1>9, <1>10
  DEF Next, IngestStep

(* A call that has returned takes no further step.                         *)
LEMMA ReturnedStays ==
    TypeOK /\ [Next]_vars =>
        \A t \in Calls : pc[t] = "done" => pc'[t] = "done" /\ hash'[t] = hash[t]
<1> SUFFICES ASSUME TypeOK, [Next]_vars
             PROVE \A t \in Calls : pc[t] = "done" => pc'[t] = "done" /\ hash'[t] = hash[t]
  OBVIOUS
<1> USE DEF callVars, rebuildVars, Goto, TypeOK
<1>1. CASE \E t \in Calls : Begin(t)
  BY <1>1 DEF Begin
<1>2. CASE \E t \in Calls : RewriteSource(t)
  BY <1>2 DEF RewriteSource
<1>3. CASE \E t \in Calls : Lookup(t)
  BY <1>3 DEF Lookup
<1>4. CASE \E t \in Calls : CopyMaster(t)
  BY <1>4 DEF CopyMaster
<1>5. CASE \E t \in Calls : InsertObject(t)
  BY <1>5 DEF InsertObject
<1>6. CASE \E t \in Calls : WriteManifest(t)
  BY <1>6 DEF WriteManifest
<1>7. CASE \E t \in Calls : CommitOccurrence(t)
  BY <1>7 DEF CommitOccurrence
<1>8. CASE \E t \in Calls : WriteEvent(t)
  BY <1>8 DEF WriteEvent
<1>9. CASE \E t \in Calls : InsertEvent(t)
  BY <1>9 DEF InsertEvent
<1>10. CASE \E t \in Calls : WriteOccurrence(t)
  BY <1>10 DEF WriteOccurrence
<1>11. CASE \E t \in Calls : Crash(t)
  BY <1>11 DEF Crash, InFlight, Running
<1>12. CASE \E r \in Rebuilders :
        StartRebuild(r) \/ ScanManifest(r) \/ CommitRebuild(r)
        \/ AbortRebuild(r)
  BY <1>12 DEF StartRebuild, ScanManifest, CommitRebuild, AbortRebuild
<1>13. CASE UNCHANGED vars
  BY <1>13 DEF vars
<1>14. QED
  BY <1>1, <1>2, <1>3, <1>4, <1>5, <1>6, <1>7, <1>8, <1>9, <1>10, <1>11,
     <1>12, <1>13
  DEF Next, IngestStep

(* A rebuild reads the manifest of every call that returned before it.    *)
LEMMA RebuildCoversPreserved ==
    StoreInv /\ [Next]_vars => RebuildCoversReturned'
<1> SUFFICES ASSUME StoreInv, [Next]_vars PROVE RebuildCoversReturned'
  OBVIOUS
<1> USE DEF fileVars, tableVars, callVars, rebuildVars, Goto
<1>0. TypeOK /\ TypeOK'
  BY TypePreserved DEF StoreInv
<1>1. CASE \E r \in Rebuilders : StartRebuild(r)
  BY <1>0, <1>1
  DEF StartRebuild, StoreInv, RebuildCoversReturned, CallsAreBacked, TypeOK
<1>2. CASE \E r \in Rebuilders : ScanManifest(r)
  BY <1>0, <1>2
  DEF ScanManifest, StoreInv, RebuildCoversReturned, CallsAreBacked, TypeOK
<1>3. CASE \E r \in Rebuilders : CommitRebuild(r)
  BY <1>0, <1>3
  DEF CommitRebuild, StoreInv, RebuildCoversReturned, CallsAreBacked, TypeOK
<1>4. CASE \E r \in Rebuilders : AbortRebuild(r)
  BY <1>0, <1>4
  DEF AbortRebuild, StoreInv, RebuildCoversReturned, CallsAreBacked, TypeOK
<1>5. CASE \E t \in Calls :
        Begin(t) \/ RewriteSource(t) \/ Lookup(t) \/ CopyMaster(t)
        \/ InsertObject(t) \/ WriteManifest(t) \/ CommitOccurrence(t)
        \/ WriteEvent(t) \/ InsertEvent(t) \/ WriteOccurrence(t)
        \/ Crash(t)
  <2>1. UNCHANGED rebuildVars
    BY <1>5
    DEF Begin, RewriteSource, Lookup, CopyMaster, InsertObject, WriteManifest,
        CommitOccurrence, WriteEvent, InsertEvent, WriteOccurrence, Crash
  <2>2. QED
    BY <1>0, <2>1, ReturnedStays DEF StoreInv, RebuildCoversReturned, TypeOK
<1>6. CASE UNCHANGED vars
  BY <1>6 DEF vars, StoreInv, RebuildCoversReturned, TypeOK
<1>7. QED
  BY <1>1, <1>2, <1>3, <1>4, <1>5, <1>6 DEF Next, IngestStep

-----------------------------------------------------------------------------
(* Theorems.                                                               *)

(* The conjunction of the facts above holds in every reachable state: each *)
(* step of an ingest or of a rebuild preserves it.                         *)
THEOREM StoreInvariant == Spec => []StoreInv
<1>1. StoreInv /\ [Next]_vars => StoreInv'
  <2> SUFFICES ASSUME StoreInv, [Next]_vars PROVE StoreInv'
    OBVIOUS
  <2>1. TypeOK'
    BY TypePreserved DEF StoreInv
  <2>2. QED
    BY <2>1, MasterMatchesKeyPreserved, RowsPreserved, CallsPreserved,
       ManifestsPreserved, SnapshotsPreserved, WriterPreserved,
       RebuildCoversPreserved
    DEF StoreInv
<1>2. QED
  BY <1>1, InitEstablishesStoreInv, PTL DEF Spec

(* Every variable of the store keeps its type.                             *)
THEOREM TypeCorrect == Spec => []TypeOK
<1>1. StoreInv => TypeOK
  BY DEF StoreInv
<1>2. QED
  BY <1>1, StoreInvariant, PTL

(* The bytes under a key hash to the key, though sources may change while  *)
(* they are copied and any number of ingests store the same object.        *)
THEOREM MastersMatchKeys == Spec => []MasterMatchesKey
<1>1. StoreInv => MasterMatchesKey
  BY DEF StoreInv
<1>2. QED
  BY <1>1, StoreInvariant, PTL

(* A committed objects row has its master, its manifest and its parent's   *)
(* master, through crashes and through rebuilds from older snapshots.      *)
THEOREM RowsBackedByFiles == Spec => []RowBackedByFiles
<1>1. StoreInv => RowBackedByFiles
  BY DEF StoreInv
<1>2. QED
  BY <1>1, StoreInvariant, PTL

(* While an object has a row no step changes its manifest: only the call   *)
(* that holds the write lock writes one.                                   *)
THEOREM ManifestsStable == Spec => CommittedManifestStable
<1> DEFINE Stable == \A c \in Contents : objects[c] # None => manifest'[c] = manifest[c]
<1>1. StoreInv /\ [Next]_vars => [Stable]_vars
  <2> SUFFICES ASSUME StoreInv, [Next]_vars PROVE Stable
    OBVIOUS
  <2> USE DEF fileVars, tableVars, callVars, rebuildVars
  <2>1. CASE \E t \in Calls : WriteManifest(t)
    BY <2>1 DEF WriteManifest, StoreInv, WriterHoldsLock, TypeOK
  <2>2. CASE UNCHANGED manifest
    BY <2>2
  <2>3. QED
    BY <2>1, <2>2
    DEF Next, IngestStep, vars, Begin, RewriteSource, Lookup, CopyMaster,
        InsertObject, CommitOccurrence, WriteEvent, InsertEvent,
        WriteOccurrence, Crash, StartRebuild, ScanManifest, CommitRebuild,
        AbortRebuild
<1>2. QED
  BY <1>1, StoreInvariant, PTL DEF Spec, CommittedManifestStable

(* A rebuild restores the object, the occurrence and the event of every    *)
(* ingest that had returned before the rebuild started.                    *)
THEOREM RebuildKeepsReturned == Spec => ReturnedIngestSurvivesRebuild
<1> DEFINE Keeps ==
      \A r \in Rebuilders : CommitRebuild(r) =>
          \A t \in finishedBefore[r] :
             /\ objects'[hash[t]] # None
             /\ t \in occurrences' \cap events'
<1>1. StoreInv => Keeps
  BY DEF StoreInv, TypeOK, CallsAreBacked, RebuildCoversReturned, CommitRebuild
<1>2. QED
  BY <1>1, StoreInvariant, PTL DEF Spec, ReturnedIngestSurvivesRebuild

-----------------------------------------------------------------------------
(* Rebuilds and ingests that take turns.  Then a row never disappears, and *)
(* what a call was told stays true.                                        *)

Returning == {"event", "eventRow", "sidecar", "done"}

TheyTakeTurns == \A r \in Rebuilders, t \in Calls : rpc[r] = "scan" => ~InFlight(t)

SnapshotsAreCurrent ==
    \A r \in Rebuilders, c \in Contents :
        rpc[r] = "scan" /\ c \notin unread[r] => snapshot[r][c] = manifest[c]

ManifestsAreClosed ==
    \A c \in Contents : (manifest[c] # None /\ manifest[c].parent # None)
        => objects[manifest[c].parent] # None

(* What a call knows about the index at each of its steps; the call that   *)
(* stores an object writes and commits its own identity.                   *)
KnowsIndex(t) ==
    /\ (pc[t] # "idle" /\ parent[t] # None) => objects[parent[t]] # None
    /\ pc[t] \in {"idle", "lookup"} => ~isNew[t]
    /\ pc[t] \in {"copy", "insert", "manifest"} => isNew[t]
    /\ pc[t] = "occurrence" /\ isNew[t] =>
          /\ lock = t /\ objects[hash[t]] = None
          /\ manifest[hash[t]] = OwnIdentity(t)
    /\ pc[t] = "occurrence" /\ ~isNew[t] =>
          /\ objects[hash[t]] # None
          /\ parent[t] # None => objects[hash[t]].parent = parent[t]
    /\ pc[t] \in Returning =>
          /\ objects[hash[t]] # None
          /\ isNew[t] \/ parent[t] # None => objects[hash[t]].parent = parent[t]

CallsKnowIndex == \A t \in Calls : KnowsIndex(t)

(* Only calls that have begun left anything behind.                        *)
TracesAreOfCalls ==
    \A t \in occurrences \cup events \cup occurrenceSidecars \cup eventSidecars : pc[t] # "idle"

SerialInv ==
    /\ StoreInv
    /\ TheyTakeTurns
    /\ SnapshotsAreCurrent
    /\ ManifestsAreClosed
    /\ CallsKnowIndex
    /\ TracesAreOfCalls
    /\ IndexIsClosed
    /\ RowAgreesWithManifest

(* The parts of the invariant in the form the proofs below use them.       *)
LEMMA SerialFacts ==
    ASSUME SerialInv
    PROVE  /\ TypeOK /\ WriterHoldsLock /\ CallsAreBacked /\ RowBackedByFiles
           /\ \A t \in Calls : KnowsIndex(t)
BY DEF SerialInv, StoreInv, CallsKnowIndex

(* A rebuild that commits has read the manifests as they are.              *)
LEMMA RebuildIsCurrent ==
    ASSUME SerialInv, NEW r \in Rebuilders, CommitRebuild(r)
    PROVE  /\ objects' = manifest
           /\ occurrences' = {t \in occurrenceSidecars : manifest[hash[t]] # None}
           /\ events' = {t \in eventSidecars : manifest[hash[t]] # None}
<1>1. snapshot[r] \in [Contents -> MaybeIdentity] /\ manifest \in [Contents -> MaybeIdentity]
  BY SerialFacts DEF TypeOK
<1>2. \A c \in Contents : snapshot[r][c] = manifest[c]
  BY DEF SerialInv, SnapshotsAreCurrent, CommitRebuild
<1>3. snapshot[r] = manifest
  BY <1>1, <1>2
<1>4. QED
  BY <1>3 DEF CommitRebuild

(* Rows are written by a call that stores an object and by a rebuild.      *)
LEMMA ObjectsFrame ==
    [Next]_vars => \/ objects' = objects
                   \/ \E t \in Calls : CommitOccurrence(t) /\ isNew[t]
                   \/ \E r \in Rebuilders : CommitRebuild(r)
BY DEF Next, IngestStep, vars, tableVars, Begin, RewriteSource, Lookup, CopyMaster, InsertObject,
       WriteManifest, CommitOccurrence, WriteEvent, InsertEvent, WriteOccurrence, Crash,
       StartRebuild, ScanManifest, AbortRebuild

(* A row that is committed stays as it is.                                 *)
LEMMA RowsStay ==
    ASSUME SerialInv, [Next]_vars
    PROVE  \A c \in Contents : objects[c] # None => objects'[c] = objects[c]
<1>1. ASSUME NEW t \in Calls, CommitOccurrence(t), isNew[t]
      PROVE  \A c \in Contents : objects[c] # None => objects'[c] = objects[c]
  <2>1. objects[hash[t]] = None
    BY <1>1, SerialFacts DEF CommitOccurrence, KnowsIndex
  <2>2. objects' = [objects EXCEPT ![hash[t]] = OwnIdentity(t)]
    BY <1>1 DEF CommitOccurrence
  <2>3. QED
    BY <2>1, <2>2, SerialFacts DEF TypeOK
<1>2. ASSUME NEW r \in Rebuilders, CommitRebuild(r)
      PROVE  \A c \in Contents : objects[c] # None => objects'[c] = objects[c]
  BY <1>2, RebuildIsCurrent DEF SerialInv, RowAgreesWithManifest
<1>3. QED
  BY <1>1, <1>2, ObjectsFrame

(* Rebuilds and ingests keep out of each other's way.                      *)
LEMMA TurnsPreserved ==
    ASSUME SerialInv, ~Overlap, [Next]_vars PROVE TheyTakeTurns'
<1>0. TypeOK /\ TheyTakeTurns
  BY DEF SerialInv, StoreInv
<1> USE DEF InFlight, Running, Goto
<1>1. ASSUME NEW t \in Calls, Begin(t) PROVE TheyTakeTurns'
  BY <1>0, <1>1 DEF Begin, TypeOK, TheyTakeTurns, rebuildVars
<1>2. ASSUME NEW t \in Calls, RewriteSource(t) \/ IngestStep(t) \/ Crash(t) PROVE TheyTakeTurns'
  <2>1. InFlight(t) /\ rpc' = rpc
    BY <1>2 DEF RewriteSource, IngestStep, Crash, Lookup, CopyMaster, InsertObject,
       WriteManifest, CommitOccurrence, WriteEvent, InsertEvent, WriteOccurrence, rebuildVars
  <2>2. QED
    BY <1>0, <2>1 DEF TheyTakeTurns, TypeOK
<1>3. ASSUME NEW r \in Rebuilders, StartRebuild(r) PROVE TheyTakeTurns'
  BY <1>0, <1>3 DEF StartRebuild, TypeOK, TheyTakeTurns, callVars
<1>4. ASSUME NEW r \in Rebuilders, ScanManifest(r) \/ CommitRebuild(r) \/ AbortRebuild(r)
      PROVE  TheyTakeTurns'
  BY <1>0, <1>4 DEF ScanManifest, CommitRebuild, AbortRebuild, TypeOK, TheyTakeTurns, callVars
<1>5. CASE UNCHANGED vars
  BY <1>0, <1>5 DEF vars, callVars, rebuildVars, TheyTakeTurns
<1>6. QED
  BY <1>1, <1>2, <1>3, <1>4, <1>5 DEF Next

(* What a rebuild has read is what the manifests say.                      *)
LEMMA SnapshotsStayCurrent ==
    ASSUME SerialInv, [Next]_vars PROVE SnapshotsAreCurrent'
<1>0. TypeOK /\ TheyTakeTurns /\ SnapshotsAreCurrent
  BY DEF SerialInv, StoreInv
<1>1. ASSUME NEW t \in Calls, WriteManifest(t) PROVE SnapshotsAreCurrent'
  <2>1. \A r \in Rebuilders : rpc'[r] # "scan"
    BY <1>0, <1>1 DEF WriteManifest, TheyTakeTurns, InFlight, Running, rebuildVars, TypeOK
  <2>2. QED
    BY <2>1 DEF SnapshotsAreCurrent
<1>2. ASSUME NEW r \in Rebuilders, StartRebuild(r) PROVE SnapshotsAreCurrent'
  BY <1>0, <1>2 DEF StartRebuild, TypeOK, SnapshotsAreCurrent, fileVars
<1>3. ASSUME NEW r \in Rebuilders, ScanManifest(r) PROVE SnapshotsAreCurrent'
  BY <1>0, <1>3 DEF ScanManifest, TypeOK, SnapshotsAreCurrent, fileVars
<1>4. ASSUME NEW r \in Rebuilders, CommitRebuild(r) \/ AbortRebuild(r) PROVE SnapshotsAreCurrent'
  <2>1. \A x \in Rebuilders : rpc'[x] = "scan" =>
            rpc[x] = "scan" /\ snapshot'[x] = snapshot[x] /\ unread'[x] = unread[x]
    BY <1>0, <1>4 DEF CommitRebuild, AbortRebuild, TypeOK
  <2>2. manifest' = manifest
    BY <1>4 DEF CommitRebuild, AbortRebuild, fileVars
  <2>3. QED
    BY <1>0, <2>1, <2>2 DEF SnapshotsAreCurrent
<1>5. ASSUME NEW t \in Calls,
             Begin(t) \/ RewriteSource(t) \/ (IngestStep(t) /\ ~WriteManifest(t)) \/ Crash(t)
      PROVE  SnapshotsAreCurrent'
  <2>1. UNCHANGED <<manifest, rebuildVars>>
    BY <1>5 DEF Begin, RewriteSource, IngestStep, Crash, Lookup, CopyMaster, InsertObject,
                CommitOccurrence, WriteEvent, InsertEvent, WriteOccurrence, fileVars
  <2>2. QED
    BY <1>0, <2>1 DEF SnapshotsAreCurrent, rebuildVars
<1>6. CASE UNCHANGED vars
  BY <1>0, <1>6 DEF vars, fileVars, rebuildVars, SnapshotsAreCurrent
<1>7. QED
  BY <1>1, <1>2, <1>3, <1>4, <1>5, <1>6 DEF Next

(* The parent a manifest names has a row.                                  *)
LEMMA ManifestsStayClosed ==
    ASSUME SerialInv, [Next]_vars PROVE ManifestsAreClosed'
<1>0. TypeOK /\ ManifestsAreClosed /\ \A t \in Calls : KnowsIndex(t)
  BY SerialFacts DEF SerialInv
<1>1. ASSUME NEW c \in Contents, manifest[c] # None, manifest[c].parent # None
      PROVE  objects'[manifest[c].parent] # None
  <2>1. manifest[c].parent \in Contents
    BY <1>0, <1>1 DEF TypeOK, MaybeIdentity, Identity, Parents
  <2>2. QED
    BY <1>0, <1>1, <2>1, RowsStay DEF ManifestsAreClosed
<1>2. ASSUME NEW t \in Calls, WriteManifest(t) PROVE ManifestsAreClosed'
  <2>1. \A c \in Contents : manifest'[c] # manifest[c] => manifest'[c] = OwnIdentity(t)
    BY <1>0, <1>2 DEF WriteManifest, TypeOK
  <2>2. OwnIdentity(t).parent = parent[t] /\ objects' = objects
    BY <1>2 DEF OwnIdentity, WriteManifest, tableVars
  <2>3. parent[t] # None => objects[parent[t]] # None
    BY <1>0, <1>2 DEF WriteManifest, KnowsIndex
  <2>4. QED
    BY <1>1, <2>1, <2>2, <2>3 DEF ManifestsAreClosed
<1>3. CASE manifest' = manifest
  BY <1>1, <1>3 DEF ManifestsAreClosed
<1>4. manifest' = manifest \/ \E t \in Calls : WriteManifest(t)
  BY DEF Next, IngestStep, vars, fileVars, Begin, RewriteSource, Lookup, CopyMaster, InsertObject,
         CommitOccurrence, WriteEvent, InsertEvent, WriteOccurrence, Crash,
         StartRebuild, ScanManifest, CommitRebuild, AbortRebuild
<1>5. QED
  BY <1>2, <1>3, <1>4

(* A row says what its manifest says.                                      *)
LEMMA RowsStayAgreed ==
    ASSUME SerialInv, [Next]_vars PROVE RowAgreesWithManifest'
<1>0. TypeOK /\ RowAgreesWithManifest /\ WriterHoldsLock /\ \A t \in Calls : KnowsIndex(t)
  BY SerialFacts DEF SerialInv
<1>1. ASSUME NEW t \in Calls, WriteManifest(t) PROVE RowAgreesWithManifest'
  BY <1>0, <1>1 DEF WriteManifest, TypeOK, WriterHoldsLock, RowAgreesWithManifest, tableVars
<1>2. ASSUME NEW t \in Calls, CommitOccurrence(t) PROVE RowAgreesWithManifest'
  BY <1>0, <1>2 DEF CommitOccurrence, TypeOK, KnowsIndex, RowAgreesWithManifest, fileVars
<1>3. ASSUME NEW r \in Rebuilders, CommitRebuild(r) PROVE RowAgreesWithManifest'
  BY <1>3, RebuildIsCurrent DEF CommitRebuild, RowAgreesWithManifest, fileVars
<1>4. CASE UNCHANGED <<objects, manifest>>
  BY <1>0, <1>4 DEF RowAgreesWithManifest
<1>5. QED
  BY <1>1, <1>2, <1>3, <1>4
  DEF Next, IngestStep, vars, fileVars, tableVars, Begin, RewriteSource, Lookup, CopyMaster,
      InsertObject, WriteEvent, InsertEvent, WriteOccurrence, Crash, StartRebuild,
      ScanManifest, AbortRebuild

(* Rows and sidecars are left by calls that have begun.                    *)
LEMMA TracesStayOfCalls ==
    ASSUME SerialInv, [Next]_vars PROVE TracesAreOfCalls'
<1>0. TypeOK /\ TracesAreOfCalls
  BY SerialFacts DEF SerialInv
<1> USE DEF fileVars, tableVars, callVars, Goto
<1>1. ASSUME NEW t \in Calls, CommitOccurrence(t) \/ WriteEvent(t) \/ InsertEvent(t) \/ WriteOccurrence(t)
      PROVE  TracesAreOfCalls'
  BY <1>0, <1>1
  DEF CommitOccurrence, WriteEvent, InsertEvent, WriteOccurrence, TypeOK, TracesAreOfCalls
<1>2. ASSUME NEW t \in Calls,
             Begin(t) \/ RewriteSource(t) \/ Lookup(t) \/ CopyMaster(t) \/ InsertObject(t)
             \/ WriteManifest(t) \/ Crash(t)
      PROVE  TracesAreOfCalls'
  BY <1>0, <1>2
  DEF Begin, RewriteSource, Lookup, CopyMaster, InsertObject, WriteManifest, Crash, InFlight,
      TypeOK, TracesAreOfCalls
<1>3. ASSUME NEW r \in Rebuilders,
             StartRebuild(r) \/ ScanManifest(r) \/ CommitRebuild(r) \/ AbortRebuild(r)
      PROVE  TracesAreOfCalls'
  BY <1>0, <1>3 DEF StartRebuild, ScanManifest, CommitRebuild, AbortRebuild, TracesAreOfCalls
<1>4. CASE UNCHANGED vars
  BY <1>0, <1>4 DEF vars, TracesAreOfCalls
<1>5. QED
  BY <1>1, <1>2, <1>3, <1>4 DEF Next, IngestStep

(* Occurrences, events and parents have rows.                              *)
LEMMA IndexStaysClosed ==
    ASSUME SerialInv, [Next]_vars PROVE IndexIsClosed'
<1>0. /\ TypeOK /\ TypeOK' /\ IndexIsClosed /\ TracesAreOfCalls /\ CallsAreBacked
      /\ RowAgreesWithManifest' /\ ManifestsAreClosed'
      /\ \A t \in Calls : KnowsIndex(t)
  BY SerialFacts, TypePreserved, ManifestsStayClosed, RowsStayAgreed DEF SerialInv
<1>1. \A t \in Calls : pc[t] # "idle" => hash[t] \in Contents /\ hash'[t] = hash[t]
  <2>1. hash' = hash \/ \E t \in Calls : Begin(t)
    BY DEF Next, IngestStep, vars, callVars, RewriteSource, Lookup, CopyMaster, InsertObject,
           WriteManifest, CommitOccurrence, WriteEvent, InsertEvent, WriteOccurrence, Crash,
           StartRebuild, ScanManifest, CommitRebuild, AbortRebuild
  <2>2. QED
    BY <1>0, <2>1 DEF Begin, CallsAreBacked, TypeOK
<1>2. ASSUME NEW t \in occurrences' \cup events' PROVE objects'[hash'[t]] # None
  <2>0. t \in Calls
    BY <1>0 DEF TypeOK
  <2>1. CASE t \in occurrences \cup events
    BY <1>0, <1>1, <2>0, <2>1, RowsStay DEF IndexIsClosed, TracesAreOfCalls
  <2>2. ASSUME CommitOccurrence(t) PROVE objects'[hash'[t]] # None
    <3>1. hash[t] \in Contents /\ hash'[t] = hash[t]
      BY <1>1, <2>0, <2>2 DEF CommitOccurrence
    <3>2. CASE isNew[t]
      <4>1. objects' = [objects EXCEPT ![hash[t]] = OwnIdentity(t)]
        BY <2>2, <3>2 DEF CommitOccurrence
      <4>2. OwnIdentity(t) # None
        BY <1>0, <2>0, NoneIsNoValue DEF OwnIdentity, Identity, TypeOK
      <4>3. QED
        BY <1>0, <3>1, <4>1, <4>2 DEF TypeOK
    <3>3. CASE ~isNew[t]
      BY <1>0, <2>0, <2>2, <3>1, <3>3, RowsStay DEF CommitOccurrence, KnowsIndex
    <3>4. QED
      BY <3>2, <3>3
  <2>3. ASSUME InsertEvent(t) PROVE objects'[hash'[t]] # None
    BY <1>0, <1>1, <2>0, <2>3, RowsStay DEF InsertEvent, KnowsIndex, Returning
  <2>4. ASSUME NEW r \in Rebuilders, CommitRebuild(r) PROVE objects'[hash'[t]] # None
    BY <2>4, RebuildIsCurrent DEF CommitRebuild, callVars
  <2>5. \/ t \in occurrences \cup events
        \/ CommitOccurrence(t) \/ InsertEvent(t)
        \/ \E r \in Rebuilders : CommitRebuild(r)
    BY DEF Next, IngestStep, vars, tableVars, Begin, RewriteSource, Lookup, CopyMaster,
           InsertObject, WriteManifest, CommitOccurrence, WriteEvent, InsertEvent,
           WriteOccurrence, Crash, StartRebuild, ScanManifest, AbortRebuild
  <2>6. QED
    BY <2>1, <2>2, <2>3, <2>4, <2>5
<1>3. ASSUME NEW c \in Contents, objects'[c] # None, objects'[c].parent # None
      PROVE  objects'[objects'[c].parent] # None
  BY <1>0, <1>3 DEF RowAgreesWithManifest, ManifestsAreClosed
<1>4. QED
  BY <1>2, <1>3 DEF IndexIsClosed

(* What a call knows about the index stays true while other calls and      *)
(* rebuilds run, and every step of its own tells it what the next needs.   *)
LEMMA CallsStillKnow ==
    ASSUME SerialInv, [Next]_vars PROVE CallsKnowIndex'
<1>0. /\ TypeOK /\ WriterHoldsLock /\ CallsAreBacked /\ RowBackedByFiles /\ TheyTakeTurns
      /\ \A t \in Calls : KnowsIndex(t)
  BY SerialFacts DEF SerialInv
<1>a. \A p \in Contents : objects[p] # None => objects'[p] = objects[p]
  BY RowsStay
<1>b. \A t \in Calls : pc[t] # "idle" /\ parent[t] # None => parent[t] \in Contents /\ objects'[parent[t]] # None
  BY <1>0, <1>a DEF TypeOK, Parents, KnowsIndex
<1>c. \A t \in Calls : pc[t] # "idle" => hash[t] \in Contents
  BY <1>0 DEF CallsAreBacked
<1> USE DEF fileVars, tableVars, callVars, rebuildVars, Goto
<1>1. ASSUME NEW x \in Calls, pc'[x] = pc[x], hash'[x] = hash[x], parent'[x] = parent[x],
             isNew'[x] = isNew[x],
             pc[x] = "occurrence" /\ isNew[x] =>
                 lock' = lock /\ objects'[hash[x]] = None /\ manifest'[hash[x]] = manifest[hash[x]]
      PROVE  KnowsIndex(x)'
  BY <1>0, <1>a, <1>b, <1>c, <1>1 DEF KnowsIndex, Returning, OwnIdentity
<1>2. ASSUME NEW t \in Calls, Begin(t) PROVE CallsKnowIndex'
  <2>1. ASSUME NEW x \in Calls \ {t} PROVE KnowsIndex(x)'
    BY <1>0, <1>1, <1>2, <2>1 DEF Begin, TypeOK, KnowsIndex
  <2>2. KnowsIndex(t)'
    BY <1>0, <1>2 DEF Begin, TypeOK, KnowsIndex, Returning
  <2>3. QED
    BY <2>1, <2>2 DEF CallsKnowIndex
<1>3. ASSUME NEW t \in Calls, RewriteSource(t) PROVE CallsKnowIndex'
  BY <1>0, <1>1, <1>3 DEF RewriteSource, KnowsIndex, CallsKnowIndex
<1>4. ASSUME NEW t \in Calls, Lookup(t) PROVE CallsKnowIndex'
  <2>1. ASSUME NEW x \in Calls \ {t} PROVE KnowsIndex(x)'
    BY <1>0, <1>1, <1>4, <2>1 DEF Lookup, TypeOK, KnowsIndex
  <2>2. KnowsIndex(t)'
    <3>1. UNCHANGED <<objects, parent, hash, lock>> /\ ~isNew[t] /\ pc[t] = "lookup"
      BY <1>0, <1>4 DEF Lookup, KnowsIndex
    <3>2. CASE objects[hash[t]] = None
      BY <1>0, <1>4, <3>1, <3>2 DEF Lookup, TypeOK, KnowsIndex, Returning
    <3>3. CASE objects[hash[t]] # None
      BY <1>0, <1>4, <3>1, <3>3 DEF Lookup, ConflictingIdentity, TypeOK, KnowsIndex, Returning
    <3>4. QED
      BY <3>2, <3>3
  <2>3. QED
    BY <2>1, <2>2 DEF CallsKnowIndex
<1>5. ASSUME NEW t \in Calls, CopyMaster(t) PROVE CallsKnowIndex'
  <2>1. ASSUME NEW x \in Calls \ {t} PROVE KnowsIndex(x)'
    BY <1>0, <1>1, <1>5, <2>1 DEF CopyMaster, TypeOK, KnowsIndex
  <2>2. KnowsIndex(t)'
    BY <1>0, <1>5 DEF CopyMaster, TypeOK, KnowsIndex, Returning
  <2>3. QED
    BY <2>1, <2>2 DEF CallsKnowIndex
<1>6. ASSUME NEW t \in Calls, InsertObject(t) PROVE CallsKnowIndex'
  <2>1. ASSUME NEW x \in Calls \ {t} PROVE KnowsIndex(x)'
    <3>1. ~(pc[x] = "occurrence" /\ isNew[x])
      BY <1>0, <1>6, NoneIsNoValue DEF InsertObject, KnowsIndex
    <3>2. QED
      BY <1>0, <1>1, <1>6, <2>1, <3>1 DEF InsertObject, TypeOK
  <2>2. KnowsIndex(t)'
    BY <1>0, <1>6 DEF InsertObject, TypeOK, KnowsIndex, Returning
  <2>3. QED
    BY <2>1, <2>2 DEF CallsKnowIndex
<1>7. ASSUME NEW t \in Calls, WriteManifest(t) PROVE CallsKnowIndex'
  <2>0. lock = t /\ objects[hash[t]] = None /\ isNew[t] /\ pc[t] = "manifest"
    BY <1>0, <1>7 DEF WriteManifest, WriterHoldsLock, KnowsIndex
  <2>1. ASSUME NEW x \in Calls \ {t} PROVE KnowsIndex(x)'
    <3>1. ~(pc[x] = "occurrence" /\ isNew[x])
      BY <1>0, <2>0, <2>1 DEF KnowsIndex
    <3>2. QED
      BY <1>0, <1>1, <1>7, <2>1, <3>1 DEF WriteManifest, TypeOK
  <2>2. KnowsIndex(t)'
    <3>1. /\ pc'[t] = "occurrence" /\ isNew'[t] = isNew[t] /\ UNCHANGED <<hash, parent, objects, lock>>
          /\ manifest'[hash[t]] = OwnIdentity(t)
      BY <1>0, <1>7, <1>c DEF WriteManifest, TypeOK
    <3>2. QED
      BY <1>0, <2>0, <3>1 DEF KnowsIndex, Returning, OwnIdentity
  <2>3. QED
    BY <2>1, <2>2 DEF CallsKnowIndex
<1>8. ASSUME NEW t \in Calls, CommitOccurrence(t) PROVE CallsKnowIndex'
  <2>1. ASSUME NEW x \in Calls \ {t} PROVE KnowsIndex(x)'
    <3>1. ~(pc[x] = "occurrence" /\ isNew[x])
      BY <1>0, <1>8, <2>1, NoneIsNoValue DEF CommitOccurrence, KnowsIndex
    <3>2. QED
      BY <1>0, <1>1, <1>8, <2>1, <3>1 DEF CommitOccurrence, TypeOK
  <2>2. KnowsIndex(t)'
    <3>0. /\ pc[t] = "occurrence" /\ pc'[t] = "event"
          /\ UNCHANGED <<isNew, hash, parent>>
      BY <1>0, <1>8 DEF CommitOccurrence, TypeOK
    <3>1. CASE isNew[t]
      <4>1. objects'[hash[t]] = OwnIdentity(t)
        BY <1>0, <1>8, <1>c, <3>1 DEF CommitOccurrence, TypeOK
      <4>2. OwnIdentity(t) # None /\ OwnIdentity(t).parent = parent[t]
        BY <1>0, NoneIsNoValue DEF OwnIdentity, Identity, TypeOK
      <4>3. QED
        BY <1>b, <3>0, <4>1, <4>2 DEF KnowsIndex, Returning
    <3>2. CASE ~isNew[t]
      BY <1>0, <1>a, <1>b, <1>c, <3>0, <3>2 DEF KnowsIndex, Returning
    <3>3. QED
      BY <3>1, <3>2
  <2>3. QED
    BY <2>1, <2>2 DEF CallsKnowIndex
<1>9. ASSUME NEW t \in Calls, WriteEvent(t) \/ InsertEvent(t) \/ WriteOccurrence(t)
      PROVE  CallsKnowIndex'
  <2>0. UNCHANGED <<objects, lock, manifest, hash, parent, isNew>>
    BY <1>9 DEF WriteEvent, InsertEvent, WriteOccurrence
  <2>1. ASSUME NEW x \in Calls \ {t} PROVE KnowsIndex(x)'
    BY <1>0, <1>1, <1>9, <2>0, <2>1
    DEF WriteEvent, InsertEvent, WriteOccurrence, TypeOK, KnowsIndex
  <2>2. KnowsIndex(t)'
    BY <1>0, <1>9, <2>0
    DEF WriteEvent, InsertEvent, WriteOccurrence, TypeOK, KnowsIndex, Returning
  <2>3. QED
    BY <2>1, <2>2 DEF CallsKnowIndex
<1>10. ASSUME NEW t \in Calls, Crash(t) PROVE CallsKnowIndex'
  <2>1. ASSUME NEW x \in Calls \ {t} PROVE KnowsIndex(x)'
    BY <1>0, <1>1, <1>10, <2>1 DEF Crash, TypeOK, KnowsIndex
  <2>2. KnowsIndex(t)'
    BY <1>0, <1>10 DEF Crash, InFlight, Running, TypeOK, KnowsIndex, Returning
  <2>3. QED
    BY <2>1, <2>2 DEF CallsKnowIndex
<1>11. ASSUME NEW r \in Rebuilders, CommitRebuild(r) PROVE CallsKnowIndex'
  <2>1. \A x \in Calls : pc[x] # "occurrence"
    BY <1>0, <1>11 DEF CommitRebuild, TheyTakeTurns, InFlight, Running
  <2>2. QED
    BY <1>1, <1>11, <2>1 DEF CommitRebuild, CallsKnowIndex
<1>12. ASSUME NEW r \in Rebuilders, StartRebuild(r) \/ ScanManifest(r) \/ AbortRebuild(r)
       PROVE  CallsKnowIndex'
  BY <1>0, <1>1, <1>12 DEF StartRebuild, ScanManifest, AbortRebuild, KnowsIndex, CallsKnowIndex
<1>13. CASE UNCHANGED vars
  BY <1>0, <1>1, <1>13 DEF vars, KnowsIndex, CallsKnowIndex
<1>14. QED
  BY <1>2, <1>3, <1>4, <1>5, <1>6, <1>7, <1>8, <1>9, <1>10, <1>11, <1>12, <1>13
  DEF Next, IngestStep

-----------------------------------------------------------------------------
(* The theorems about an archive whose rebuilds and ingests take turns.    *)

(* SerialInv is an inductive invariant.                                    *)
THEOREM SerialInvariant == ASSUME ~Overlap PROVE Spec => []SerialInv
<1>1. Init => SerialInv
  BY InitEstablishesStoreInv
  DEF Init, SerialInv, TheyTakeTurns, SnapshotsAreCurrent, ManifestsAreClosed, CallsKnowIndex,
      KnowsIndex, Returning, TracesAreOfCalls, IndexIsClosed, RowAgreesWithManifest
<1>2. SerialInv /\ StoreInv' /\ [Next]_vars => SerialInv'
  BY TurnsPreserved, SnapshotsStayCurrent, ManifestsStayClosed, RowsStayAgreed,
     TracesStayOfCalls, IndexStaysClosed, CallsStillKnow DEF SerialInv
<1>3. QED
  BY <1>1, <1>2, StoreInvariant, PTL DEF Spec

(* The index is closed and says what the manifests say, and no two ingests *)
(* return with different parents for the bytes one of them stored          *)
(* (Archive.ingest, Catalogue.rebuild).                                    *)
THEOREM TheIndexAgrees == ASSUME ~Overlap PROVE Spec => []IndexAgrees
<1>1. SerialInv => IndexAgrees
  <2> SUFFICES ASSUME SerialInv PROVE IndexAgrees
    OBVIOUS
  <2>1. NoConflictingDerivation
    BY SerialFacts DEF NoConflictingDerivation, KnowsIndex, Returning
  <2>2. QED
    BY <2>1 DEF SerialInv, IndexAgrees
<1>2. QED
  BY <1>1, SerialInvariant, PTL

(* The objects and parents that the returned ingests named.                *)
ReturnedPairs == {<<hash[t], parent[t]>> : t \in {u \in Calls : pc[u] = "done"}}

(* What the callers have been told changes only when an ingest returns.    *)
LEMMA OnlyReturnsAreTold ==
    ASSUME SerialInv, [Next]_vars
    PROVE  \/ ReturnedPairs' = ReturnedPairs
           \/ \E t \in Calls : /\ WriteOccurrence(t)
                               /\ ReturnedPairs' = ReturnedPairs \cup {<<hash[t], parent[t]>>}
<1>0. TypeOK
  BY SerialFacts
<1> USE DEF callVars, Goto
<1>1. ASSUME NEW t \in Calls, WriteOccurrence(t)
      PROVE  ReturnedPairs' = ReturnedPairs \cup {<<hash[t], parent[t]>>}
  <2>1. UNCHANGED <<hash, parent>> /\ \A x \in Calls : pc'[x] = IF x = t THEN "done" ELSE pc[x]
    BY <1>0, <1>1 DEF WriteOccurrence, TypeOK
  <2>2. QED
    BY <2>1 DEF ReturnedPairs
<1>2. ASSUME NEW t \in Calls, Begin(t) PROVE ReturnedPairs' = ReturnedPairs
  <2>1. /\ \A x \in Calls : (pc'[x] = "done") <=> (pc[x] = "done")
        /\ \A x \in Calls : pc[x] = "done" => hash'[x] = hash[x] /\ parent'[x] = parent[x]
    BY <1>0, <1>2 DEF Begin, TypeOK
  <2>2. QED
    BY <2>1 DEF ReturnedPairs
<1>3. ASSUME UNCHANGED <<hash, parent>>, \A x \in Calls : (pc'[x] = "done") <=> (pc[x] = "done")
      PROVE  ReturnedPairs' = ReturnedPairs
  BY <1>3 DEF ReturnedPairs
<1>4. ASSUME NEW t \in Calls,
             RewriteSource(t) \/ Lookup(t) \/ CopyMaster(t) \/ InsertObject(t) \/ WriteManifest(t)
             \/ CommitOccurrence(t) \/ WriteEvent(t) \/ InsertEvent(t) \/ Crash(t)
      PROVE  ReturnedPairs' = ReturnedPairs
  BY <1>0, <1>3, <1>4
  DEF RewriteSource, Lookup, CopyMaster, InsertObject, WriteManifest, CommitOccurrence,
      WriteEvent, InsertEvent, Crash, InFlight, Running, TypeOK
<1>5. ASSUME NEW r \in Rebuilders,
             StartRebuild(r) \/ ScanManifest(r) \/ CommitRebuild(r) \/ AbortRebuild(r)
      PROVE  ReturnedPairs' = ReturnedPairs
  BY <1>3, <1>5 DEF StartRebuild, ScanManifest, CommitRebuild, AbortRebuild
<1>6. CASE UNCHANGED vars
  BY <1>3, <1>6 DEF vars
<1>7. QED
  BY <1>1, <1>2, <1>4, <1>5, <1>6 DEF Next, IngestStep

(* The store with its crashes and rebuilds implements ObjectRegistry: what *)
(* is registered keeps its identity, a parent is registered before its     *)
(* child, and an ingest that returns is about a registered object with the *)
(* parent the caller asked for.                                            *)
THEOREM StoreImplementsRegistry == ASSUME ~Overlap PROVE Spec => ImplementsRegistry
<1>1. Init => Registry!Init
  BY DEF Init, Registry!Init
<1>2. ASSUME SerialInv, SerialInv', [Next]_vars
      PROVE  [Registry!Next]_<<objects, ReturnedPairs>>
  <2>0. TypeOK /\ TypeOK' /\ IndexIsClosed' /\ \A t \in Calls : KnowsIndex(t)
    BY <1>2, SerialFacts, TypePreserved DEF SerialInv
  <2>1. ASSUME NEW t \in Calls, WriteOccurrence(t),
               ReturnedPairs' = ReturnedPairs \cup {<<hash[t], parent[t]>>}
        PROVE  Registry!Return(hash[t], parent[t]) /\ hash[t] \in Contents
               /\ parent[t] \in Contents \cup {None}
    BY <1>2, <2>0, <2>1, SerialFacts
    DEF WriteOccurrence, tableVars, KnowsIndex, Returning, CallsAreBacked, TypeOK, Parents,
        Registry!Return, Registry!Registered, ReturnedPairs
  <2>2. ASSUME objects' # objects, ReturnedPairs' = ReturnedPairs PROVE Registry!Register
    BY <1>2, <2>0, <2>2, RowsStay
    DEF IndexIsClosed, Registry!Register, Registry!Registered, ReturnedPairs
  <2>3. CASE ReturnedPairs' = ReturnedPairs
    BY <2>2, <2>3 DEF Registry!Next
  <2>4. ASSUME NEW t \in Calls, WriteOccurrence(t),
               ReturnedPairs' = ReturnedPairs \cup {<<hash[t], parent[t]>>}
        PROVE  Registry!Next
    BY <2>1, <2>4 DEF Registry!Next, Registry!Return
  <2>5. QED
    BY <1>2, <2>3, <2>4, OnlyReturnsAreTold
<1>3. QED
  BY <1>1, <1>2, SerialInvariant, PTL DEF Spec, ImplementsRegistry, Registry!Spec, ReturnedPairs
=============================================================================
