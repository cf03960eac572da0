--------------------------- MODULE InboxWatchProofs ---------------------------
(***************************************************************************)
(* Proofs about InboxWatch, for any sets of files, watchers and crews, any *)
(* retry limit and any bounds.                                             *)
(*                                                                         *)
(* The argument: whoever works on a file owns its lock file, until a       *)
(* take-over removes the lock of a watcher at work, which takes a kill; a  *)
(* producer only ever writes a version nobody has seen; and so what a      *)
(* watcher learnt about a version, before it staged, ingested or recorded  *)
(* it, is still true of that version when it acts on it, whatever the file *)
(* has become.                                                             *)
(***************************************************************************)
EXTENDS InboxWatch, FiniteSetTheorems, TLAPS

Active == Claiming \cup {"stable", "claim", "takeover"}

-----------------------------------------------------------------------------
(* The inductive invariant, in named parts.                                *)

OnlyCrewRuns == \A w \in Watchers : pc[w] # "idle" => w \in crew

(* A claim is left behind, ages and is taken over only after a kill.       *)
KillsLeaveClaims == crashes = 0 =>
    /\ expired = {} /\ usurped = {}
    /\ \A f \in Files : lock[f] # Dead
    /\ \A w \in Watchers : pc[w] # "takeover"

(* A lock file with a living creator is that of somebody at work.          *)
LocksHaveOwners == \A f \in Files, w \in Watchers :
    lock[f] = w => pc[w] \in Claiming /\ cur[w] = f

OwnersHoldTheLock == \A w \in Watchers :
    pc[w] \in Claiming => lock[cur[w]] = w \/ cur[w] \in usurped

ClaimInv == OnlyCrewRuns /\ KillsLeaveClaims /\ LocksHaveOwners /\ OwnersHoldTheLock

(* Nothing anybody holds of a file is newer than its newest version.       *)
FilesAreOld == \A f \in Files :
    /\ inbox[f] \in {Absent, written[f]}
    /\ \A v \in Versions : <<f, v>> \in jobs => v <= written[f]

EntriesAreOld == \A f \in Files :
    /\ saved[f].fp <= written[f]
    /\ \A w \in Watchers : mem[w][f].fp <= written[f]

HandsAreOld == \A w \in Watchers :
    /\ pc[w] \in Active => seen[w] <= written[cur[w]]
    /\ pc[w] \in {"ingest", "finish"} => staged[w] <= written[cur[w]]

VersionsAreOld == FilesAreOld /\ EntriesAreOld /\ HandsAreOld

(* What is about to be given to the archive has no completed job yet.      *)
StagedIsNew == \A w \in Watchers : cur[w] \notin usurped =>
    /\ pc[w] = "stage" => <<cur[w], inbox[cur[w]]>> \notin jobs
    /\ pc[w] = "ingest" => <<cur[w], staged[w]>> \notin jobs

Finishing(f, v) == \E w \in Watchers : pc[w] = "finish" /\ cur[w] = f /\ staged[w] = v

(* Before its job is completed, a version has one occurrence for each cut  *)
(* and one for the attempt that is just finishing.                         *)
OccurrencesAreCounted == \A f \in Files, v \in Versions :
    occurrences[f][v] > unrecorded[f][v] /\ f \notin usurped
        => <<f, v>> \in jobs \/ Finishing(f, v)

OnceInv == VersionsAreOld /\ StagedIsNew /\ OccurrencesAreCounted /\ OneOccurrencePerVersion

JobsAreArchived == \A f \in Files, v \in Versions :
    <<f, v>> \in jobs => occurrences[f][v] > 0

(* An entry that will make scans skip f speaks of archived bytes.          *)
EntryIsArchived(e, f) ==
    e.status = "COMPLETED" /\ inbox[f] # Absent /\ e.fp = inbox[f]
        => occurrences[f][inbox[f]] > 0

EntriesAreArchived == \A f \in Files :
    /\ EntryIsArchived(saved[f], f)
    /\ \A w \in Watchers : EntryIsArchived(mem[w][f], f)

(* While the version a watcher examined is still in the inbox, it is the   *)
(* version it staged, and from then on the version the archive has.        *)
ExaminedIsProcessed == \A w \in Watchers :
    /\ pc[w] = "finish" => occurrences[cur[w]][staged[w]] > 0
    /\ seen[w] = inbox[cur[w]] /\ seen[w] # Absent =>
        /\ pc[w] \in {"ingest", "finish"} => staged[w] = seen[w]
        /\ pc[w] \in {"post", "record"} => occurrences[cur[w]][seen[w]] > 0

ArchivedInv == JobsAreArchived /\ EntriesAreArchived /\ ExaminedIsProcessed

(* In an inbox whose producers keep away from a file that is processed,    *)
(* the policy finds the version that was staged.                           *)
ProcessedIsUndisturbed == \A w \in Watchers :
    LET f == cur[w] IN
    post[f] \notin LateWrites /\ inbox[f] # Absent =>
        /\ pc[w] \in {"ingest", "finish"} => inbox[f] = staged[w]
        /\ pc[w] = "post" => occurrences[f][inbox[f]] > 0

DeleteInv == DeletedIsArchived /\ ProcessedIsUndisturbed

(* Retries of a lone watcher.  An entry either ends the attempts at the    *)
(* newest version, or counts them, but for those that kills lost; lost is  *)
(* one more than crashes for a saved entry that lags behind the scan.      *)
Settles(e, f) == e.status \in {"COMPLETED", "FAILED"} /\ e.fp = written[f]
Counts(count, f, lost) ==
    \/ tries[f] <= lost
    \/ count < MaxRetries /\ tries[f] <= count + lost

EntriesCount == \A f \in Files, w \in crew :
    /\ Settles(mem[w][f], f) \/ Counts(mem[w][f].retries, f, crashes)
    /\ Settles(saved[f], f) \/ Counts(saved[f].retries, f, crashes + 1)
    /\ pc[w] = "idle" \/ f \in todo[w] \/ (pc[w] \in Active /\ cur[w] = f)
          => Settles(saved[f], f) \/ Counts(saved[f].retries, f, crashes)

AttemptsCount == \A w \in crew : pc[w] \in Active =>
    /\ Counts(retries[w], cur[w], crashes)
    /\ seen[w] # written[cur[w]] => tries[cur[w]] = 0
    /\ cur[w] \notin todo[w]

RetryInv == Lone => EntriesCount /\ AttemptsCount /\ \A f \in Files : tries[f] <= MaxRetries + crashes

InboxInv == TypeOK /\ ClaimInv /\ OnceInv /\ ArchivedInv /\ RetryInv

-----------------------------------------------------------------------------
(* Type correctness.                                                       *)

(* Nothing is written, claimed or recorded at first.                       *)
LEMMA InitEstablishesTypes == Init => TypeOK
BY FilesAssumption, BoundsAssumption, PoliciesAssumption, CrewsAssumption, OwnersAssumption
DEF Init, TypeOK, Absent, Versions, Claiming, NoEntry, Entry, Statuses, ManyTries

(* No step of a producer, a watcher or the clock leaves the types.         *)
LEMMA TypePreserved == TypeOK /\ [Next]_vars => TypeOK'
<1> SUFFICES ASSUME TypeOK, [Next]_vars PROVE TypeOK'
  OBVIOUS
<1> USE BoundsAssumption, PoliciesAssumption, CrewsAssumption, OwnersAssumption
<1> USE DEF inboxVars, archiveVars, claimVars, localVars, faultVars, Goto
<1>1. ASSUME NEW f \in Files, Produce(f) PROVE TypeOK'
  <2>1. written[f] + 1 \in Versions /\ 0 \in 0..ManyTries
    BY <1>1 DEF Produce, TypeOK, MayWrite, Versions, ManyTries
  <2>2. written' \in [Files -> 0..MaxVersions]
    BY <1>1, <2>1 DEF Produce, TypeOK, Versions
  <2>3. inbox' \in [Files -> Versions \cup {Absent}]
    BY <1>1, <2>1 DEF Produce, TypeOK
  <2>4. QED
    BY <1>1, <2>1, <2>2, <2>3 DEF Produce, TypeOK
<1>2. ASSUME NEW f \in Files, Withdraw(f) PROVE TypeOK'
  BY <1>2 DEF Withdraw, TypeOK
<1>3. ASSUME NEW f \in Files, LockAges(f) PROVE TypeOK'
  BY <1>3 DEF LockAges, TypeOK
<1>4. ASSUME NEW w \in Watchers, StartScan(w) PROVE TypeOK'
  BY <1>4 DEF StartScan, TypeOK
<1>5. ASSUME NEW w \in Watchers, NEW f \in Files, Skip(w, f) PROVE TypeOK'
  BY <1>5 DEF Skip, TypeOK
<1>6. ASSUME NEW w \in Watchers, NEW f \in Files, Examine(w, f) PROVE TypeOK'
  BY <1>6 DEF Examine, TypeOK, Entry
<1>7. ASSUME NEW w \in Watchers, LookAgain(w) PROVE TypeOK'
  <2>1. Entered(w, "READY", retries[w]) \in Entry /\ Entered(w, "WAITING_STABLE", retries[w]) \in Entry
    BY DEF TypeOK, Entered, Entry, Statuses
  <2>2. mem' \in [Watchers -> [Files -> Entry]]
    <3>1. mem' = mem \/ \E e \in Entry : mem' = [mem EXCEPT ![w][cur[w]] = e]
      BY <1>7, <2>1 DEF LookAgain, Remember
    <3>2. CASE mem' = mem
      BY <3>2 DEF TypeOK
    <3>3. CASE \E e \in Entry : mem' = [mem EXCEPT ![w][cur[w]] = e]
      BY <3>3 DEF TypeOK
    <3>4. QED
      BY <3>1, <3>2, <3>3
  <2>3. pc' \in [Watchers -> Claiming \cup {"idle", "scan", "stable", "claim", "takeover"}]
    <3>1. \E x \in {"claim", "scan"} : pc' = [pc EXCEPT ![w] = x]
      BY <1>7 DEF LookAgain
    <3>2. QED
      BY <3>1 DEF TypeOK
  <2>4. \A x \in Watchers : pc'[x] \in {"ingest", "finish"} => staged'[x] # Absent
    BY <1>7 DEF LookAgain, TypeOK
  <2>5. QED
    BY <1>7, <2>2, <2>3, <2>4 DEF LookAgain, TypeOK
<1>8. ASSUME NEW w \in Watchers, Reject(w) PROVE TypeOK'
  BY <1>8 DEF Reject, TypeOK, MayFail, Remember, Entered, Entry, Statuses
<1>9. ASSUME NEW w \in Watchers, Claim(w) PROVE TypeOK'
  <2>1. lock' \in [Files -> Watchers \cup {None, Dead}]
    <3>1. lock' = lock \/ lock' = [lock EXCEPT ![cur[w]] = w]
      BY <1>9 DEF Claim
    <3>2. CASE lock' = lock
      BY <3>2 DEF TypeOK
    <3>3. CASE lock' = [lock EXCEPT ![cur[w]] = w]
      BY <3>3 DEF TypeOK
    <3>4. QED
      BY <3>1, <3>2, <3>3
  <2>2. pc' \in [Watchers -> Claiming \cup {"idle", "scan", "stable", "claim", "takeover"}]
    <3>1. \E x \in {"recover", "takeover", "scan"} : pc' = [pc EXCEPT ![w] = x]
      BY <1>9 DEF Claim
    <3>2. QED
      BY <3>1 DEF TypeOK, Claiming
  <2>3. \A x \in Watchers : pc'[x] \in {"ingest", "finish"} => staged'[x] # Absent
    BY <1>9 DEF Claim, TypeOK
  <2>4. QED
    BY <1>9, <2>1, <2>2, <2>3 DEF Claim, TypeOK
<1>10. ASSUME NEW w \in Watchers, TakeOver(w) PROVE TypeOK'
  BY <1>10 DEF TakeOver, TypeOK, Claiming
<1>11. ASSUME NEW w \in Watchers, Recover(w) PROVE TypeOK'
  <2>1. Entered(w, "PROCESSING", retries[w]) \in Entry
    BY DEF TypeOK, Entered, Entry, Statuses
  <2>2. mem' \in [Watchers -> [Files -> Entry]]
    <3>1. mem' = mem \/ mem' = [mem EXCEPT ![w][cur[w]] = Entered(w, "PROCESSING", retries[w])]
      BY <1>11 DEF Recover, Remember
    <3>2. CASE mem' = mem
      BY <3>2 DEF TypeOK
    <3>3. CASE mem' = [mem EXCEPT ![w][cur[w]] = Entered(w, "PROCESSING", retries[w])]
      BY <2>1, <3>3 DEF TypeOK
    <3>4. QED
      BY <3>1, <3>2, <3>3
  <2>3. saved' \in [Files -> Entry]
    BY <1>11, <2>2 DEF Recover, TypeOK
  <2>4. pc' \in [Watchers -> Claiming \cup {"idle", "scan", "stable", "claim", "takeover"}]
    <3>1. \E x \in {"post", "stage"} : pc' = [pc EXCEPT ![w] = x]
      BY <1>11 DEF Recover
    <3>2. QED
      BY <3>1 DEF TypeOK, Claiming
  <2>5. \A x \in Watchers : pc'[x] \in {"ingest", "finish"} => staged'[x] # Absent
    BY <1>11 DEF Recover, TypeOK
  <2>6. QED
    BY <1>11, <2>2, <2>3, <2>4, <2>5 DEF Recover, TypeOK
<1>12. ASSUME NEW w \in Watchers, Stage(w) PROVE TypeOK'
  BY <1>12 DEF Stage, TypeOK, Claiming
<1>13. ASSUME NEW w \in Watchers, Ingest(w) PROVE TypeOK'
  BY <1>13 DEF Ingest, TypeOK, Claiming
<1>14. ASSUME NEW w \in Watchers, Finish(w) PROVE TypeOK'
  BY <1>14 DEF Finish, TypeOK, Claiming
<1>15. ASSUME NEW w \in Watchers, ApplyPostSuccess(w) PROVE TypeOK'
  <2>1. inbox' \in [Files -> Versions \cup {Absent}] /\ processed' \in [Files -> Versions \cup {Absent}]
    <3>1. CASE post[cur[w]] = "LEAVE"
      BY <1>15, <3>1 DEF ApplyPostSuccess, TypeOK
    <3>2. CASE post[cur[w]] = "DELETE"
      <4>1. inbox' = [inbox EXCEPT ![cur[w]] = Absent] /\ processed' = processed
        BY <1>15, <3>2 DEF ApplyPostSuccess
      <4>2. QED
        BY <4>1 DEF TypeOK
    <3>3. CASE post[cur[w]] = "MOVE"
      <4>1. /\ inbox' = [inbox EXCEPT ![cur[w]] = Absent]
            /\ processed' = [processed EXCEPT ![cur[w]] = inbox[cur[w]]]
        BY <1>15, <3>3 DEF ApplyPostSuccess
      <4>2. QED
        BY <4>1 DEF TypeOK
    <3>4. QED
      BY <1>15, <3>1, <3>2, <3>3 DEF ApplyPostSuccess
  <2>2. deleted' \subseteq Files \X Versions
    BY <1>15 DEF ApplyPostSuccess, TypeOK
  <2>3. pc' \in [Watchers -> Claiming \cup {"idle", "scan", "stable", "claim", "takeover"}]
    BY <1>15 DEF ApplyPostSuccess, TypeOK, Claiming
  <2>4. \A x \in Watchers : pc'[x] \in {"ingest", "finish"} => staged'[x] # Absent
    BY <1>15 DEF ApplyPostSuccess, TypeOK
  <2>5. post' = post /\ crew' = crew /\ written' = written
    BY <1>15 DEF ApplyPostSuccess
  <2>6. QED
    BY <1>15, <2>1, <2>2, <2>3, <2>4, <2>5 DEF ApplyPostSuccess, TypeOK
<1>16. ASSUME NEW w \in Watchers, Record(w) PROVE TypeOK'
  BY <1>16 DEF Record, Release, TypeOK, Remember, Entered, Entry, Statuses
<1>17. ASSUME NEW w \in Watchers, NEW permanent \in BOOLEAN, Raise(w, permanent),
              failures' \in 0..MaxFailures
       PROVE  TypeOK'
  BY <1>17
  DEF Raise, CountTry, LosesRecord, Release, TypeOK, Remember,
      Entered, Entry, Statuses, ManyTries
<1>18. ASSUME NEW w \in Watchers, Fail(w) PROVE TypeOK'
  BY <1>17, <1>18 DEF Fail, MayFail, TypeOK
<1>19. ASSUME NEW w \in Watchers, Collide(w) \/ Vanish(w) PROVE TypeOK'
  <2>1. failures' \in 0..MaxFailures
    BY <1>19 DEF Collide, Vanish, TypeOK
  <2>2. \E permanent \in BOOLEAN : Raise(w, permanent)
    BY <1>19 DEF Collide, Vanish
  <2>3. QED
    BY <1>17, <2>1, <2>2
<1>20. ASSUME NEW w \in Watchers, EndScan(w) PROVE TypeOK'
  BY <1>20 DEF EndScan, TypeOK
<1>21. ASSUME NEW w \in Watchers, Crash(w) PROVE TypeOK'
  BY <1>21 DEF Crash, MayCrash, LosesRecord, TypeOK
<1>22. CASE UNCHANGED vars
  BY <1>22 DEF vars, TypeOK
<1>23. QED
  BY <1>1, <1>2, <1>3, <1>4, <1>5, <1>6, <1>7, <1>8, <1>9, <1>10, <1>11, <1>12,
     <1>13, <1>14, <1>15, <1>16, <1>18, <1>19, <1>20, <1>21, <1>22
  DEF Next, Work

-----------------------------------------------------------------------------
(* Claims.                                                                 *)

(* Two watchers that both run are one, if the crew is a lone one.          *)
LEMMA LoneIsAlone ==
    ASSUME TypeOK, Lone, NEW v \in crew, NEW w \in crew
    PROVE  v = w
<1>1. IsFiniteSet(crew)
  BY CrewsAssumption, FS_Subset DEF TypeOK
<1>2. QED
  BY <1>1, FS_Singleton DEF Lone

(* The crew and the policies of the inboxes never change.                  *)
LEMMA ConfigurationIsConstant == [Next]_vars => crew' = crew /\ post' = post
<1> SUFFICES ASSUME [Next]_vars PROVE crew' = crew /\ post' = post
  OBVIOUS
<1> USE DEF inboxVars
<1>1. ASSUME NEW f \in Files, Produce(f) \/ Withdraw(f) \/ LockAges(f)
      PROVE  crew' = crew /\ post' = post
  BY <1>1 DEF Produce, Withdraw, LockAges
<1>2. ASSUME NEW w \in Watchers, NEW f \in Files, Skip(w, f) \/ Examine(w, f)
      PROVE  crew' = crew /\ post' = post
  BY <1>2 DEF Skip, Examine
<1>3. ASSUME NEW w \in Watchers,
             StartScan(w) \/ LookAgain(w) \/ Reject(w) \/ Claim(w) \/ TakeOver(w)
             \/ Recover(w) \/ Stage(w) \/ Ingest(w) \/ Finish(w) \/ EndScan(w) \/ Crash(w)
      PROVE  crew' = crew /\ post' = post
  BY <1>3
  DEF StartScan, LookAgain, Reject, Claim, TakeOver, Recover, Stage, Ingest, Finish,
      EndScan, Crash
<1>4. ASSUME NEW w \in Watchers, ApplyPostSuccess(w) \/ Record(w)
      PROVE  crew' = crew /\ post' = post
  BY <1>4 DEF ApplyPostSuccess, Record
<1>5. ASSUME NEW w \in Watchers, Fail(w) \/ Collide(w) \/ Vanish(w)
      PROVE  crew' = crew /\ post' = post
  BY <1>5 DEF Fail, Collide, Vanish, Raise
<1>6. CASE UNCHANGED vars
  BY <1>6 DEF vars
<1>7. QED
  BY <1>1, <1>2, <1>3, <1>4, <1>5, <1>6 DEF Next, Work

(* What a take-over did to a file is not undone.                           *)
LEMMA UsurpedGrows == [Next]_vars => usurped \subseteq usurped'
<1> SUFFICES ASSUME [Next]_vars PROVE usurped \subseteq usurped'
  OBVIOUS
<1> USE DEF claimVars
<1>1. ASSUME NEW f \in Files, Produce(f) \/ Withdraw(f) \/ LockAges(f)
      PROVE  usurped' = usurped
  BY <1>1 DEF Produce, Withdraw, LockAges
<1>2. ASSUME NEW w \in Watchers, NEW f \in Files, Skip(w, f) \/ Examine(w, f)
      PROVE  usurped' = usurped
  BY <1>2 DEF Skip, Examine
<1>3. ASSUME NEW w \in Watchers,
             StartScan(w) \/ LookAgain(w) \/ Reject(w) \/ Claim(w) \/ Recover(w) \/ Stage(w)
             \/ Ingest(w) \/ Finish(w) \/ ApplyPostSuccess(w) \/ EndScan(w) \/ Crash(w)
      PROVE  usurped' = usurped
  BY <1>3
  DEF StartScan, LookAgain, Reject, Claim, Recover, Stage, Ingest, Finish,
      ApplyPostSuccess, EndScan, Crash
<1>4. ASSUME NEW w \in Watchers, Record(w) \/ Fail(w) \/ Collide(w) \/ Vanish(w)
      PROVE  usurped' = usurped
  BY <1>4 DEF Record, Fail, Collide, Vanish, Raise, Release
<1>5. ASSUME NEW w \in Watchers, TakeOver(w) PROVE usurped \subseteq usurped'
  BY <1>5 DEF TakeOver
<1>6. CASE UNCHANGED vars
  BY <1>6 DEF vars
<1>7. QED
  BY <1>1, <1>2, <1>3, <1>4, <1>5, <1>6 DEF Next, Work

(* Whoever works on a file owns its lock: the lock is created exclusively, *)
(* and a lock that somebody unlinks is his own, one left behind, or one    *)
(* whose file has been usurped.                                            *)
LEMMA ClaimsPreserved == TypeOK /\ ClaimInv /\ [Next]_vars => ClaimInv'
<1> SUFFICES ASSUME TypeOK, ClaimInv, [Next]_vars PROVE ClaimInv'
  OBVIOUS
<1>0. TypeOK' /\ crew' = crew
  BY TypePreserved, ConfigurationIsConstant
<1> USE OwnersAssumption
<1> USE DEF inboxVars, archiveVars, claimVars, localVars, faultVars, Goto,
            ClaimInv, OnlyCrewRuns, KillsLeaveClaims, LocksHaveOwners, OwnersHoldTheLock
<1>1. ASSUME NEW f \in Files, Produce(f) \/ Withdraw(f) PROVE ClaimInv'
  BY <1>0, <1>1 DEF Produce, Withdraw
<1>2. ASSUME NEW f \in Files, LockAges(f) PROVE ClaimInv'
  BY <1>0, <1>2 DEF LockAges
<1>3. ASSUME NEW w \in Watchers, StartScan(w) PROVE ClaimInv'
  BY <1>0, <1>3 DEF StartScan, TypeOK, Claiming
<1>4. ASSUME NEW w \in Watchers, NEW f \in Files, Skip(w, f) PROVE ClaimInv'
  BY <1>0, <1>4 DEF Skip
<1>5. ASSUME NEW w \in Watchers, NEW f \in Files, Examine(w, f) PROVE ClaimInv'
  BY <1>0, <1>5 DEF Examine, TypeOK, Claiming
<1>a. ASSUME NEW w \in Watchers, NEW step, pc' = [pc EXCEPT ![w] = step],
             UNCHANGED <<lock, expired, usurped, crashes, cur>>, pc[w] # "idle",
             step \in Claiming <=> pc[w] \in Claiming,
             step = "takeover" => crashes # 0
      PROVE  ClaimInv'
  <2>1. pc \in [Watchers -> Claiming \cup {"idle", "scan", "stable", "claim", "takeover"}]
    BY DEF TypeOK
  <2>2. \A v \in Watchers : pc'[v] = IF v = w THEN step ELSE pc[v]
    BY <1>a, <2>1
  <2>3. QED
    BY <1>0, <1>a, <2>2
<1>6. ASSUME NEW w \in Watchers, LookAgain(w) PROVE ClaimInv'
  BY <1>a, <1>6 DEF LookAgain, Claiming
<1>7. ASSUME NEW w \in Watchers, Reject(w) PROVE ClaimInv'
  BY <1>0, <1>7 DEF Reject, TypeOK, Claiming
<1>8. ASSUME NEW w \in Watchers, Claim(w) PROVE ClaimInv'
  <2>1. CASE lock[cur[w]] = None
    <3>1. /\ lock' = [lock EXCEPT ![cur[w]] = w]
          /\ pc' = [pc EXCEPT ![w] = "recover"]
          /\ UNCHANGED <<crashes, expired, usurped, cur>>
          /\ pc[w] = "claim"
      BY <1>8, <2>1 DEF Claim
    <3>2. \A v \in Watchers : pc[v] \in Claiming => cur[v] # cur[w] \/ cur[w] \in usurped
      BY <2>1
    <3>3. QED
      BY <1>0, <3>1, <3>2 DEF TypeOK, Claiming
  <2>2. CASE cur[w] \in expired /\ lock[cur[w]] # None
    <3>1. crashes # 0 /\ pc[w] = "claim" /\ pc' = [pc EXCEPT ![w] = "takeover"]
          /\ UNCHANGED <<lock, expired, usurped, crashes, cur>>
      BY <1>8, <2>2 DEF Claim
    <3>2. QED
      BY <1>a, <3>1 DEF Claiming
  <2>3. CASE cur[w] \notin expired /\ lock[cur[w]] # None
    BY <1>a, <1>8, <2>3 DEF Claim, Claiming
  <2>4. QED
    BY <2>1, <2>2, <2>3
<1>9. ASSUME NEW w \in Watchers, TakeOver(w) PROVE ClaimInv'
  <2>1. /\ lock' = [lock EXCEPT ![cur[w]] = None]
        /\ cur[w] \in Files /\ cur' = cur /\ crashes' = crashes /\ crashes # 0
        /\ usurped \subseteq usurped'
        /\ lock[cur[w]] \notin {None, Dead} => cur[w] \in usurped'
        /\ pc[w] \notin Claiming
        /\ \E step \in {"claim", "scan"} : pc' = [pc EXCEPT ![w] = step]
    BY <1>9 DEF TakeOver, TypeOK, Claiming
  <2>2. w \in crew /\ OnlyCrewRuns'
    BY <1>0, <1>9, <2>1 DEF TakeOver, TypeOK
  <2>3. LocksHaveOwners'
    BY <1>0, <2>1 DEF TypeOK, Claiming
  <2>4. OwnersHoldTheLock'
    BY <1>0, <2>1 DEF TypeOK, Claiming
  <2>5. QED
    BY <2>1, <2>2, <2>3, <2>4
<1>10. ASSUME NEW w \in Watchers,
              Recover(w) \/ Stage(w) \/ Ingest(w) \/ Finish(w) \/ ApplyPostSuccess(w)
       PROVE ClaimInv'
  BY <1>a, <1>10 DEF Recover, Stage, Ingest, Finish, ApplyPostSuccess, Claiming
<1>11. ASSUME NEW w \in Watchers, pc[w] \in Claiming, Release(w), crashes' = crashes, cur' = cur
       PROVE ClaimInv'
  BY <1>0, <1>11 DEF Release, TypeOK, Claiming
<1>12. ASSUME NEW w \in Watchers, Record(w) \/ Fail(w) \/ Collide(w) \/ Vanish(w) PROVE ClaimInv'
  BY <1>11, <1>12 DEF Record, Fail, Collide, Vanish, Raise, Claiming
<1>13. ASSUME NEW w \in Watchers, EndScan(w) PROVE ClaimInv'
  BY <1>0, <1>13 DEF EndScan, TypeOK, Claiming
<1>14. ASSUME NEW w \in Watchers, Crash(w) PROVE ClaimInv'
  <2>1. crashes' # 0
    BY <1>14 DEF Crash, TypeOK
  <2>2. QED
    BY <1>0, <1>14, <2>1 DEF Crash, TypeOK, Claiming
<1>15. CASE UNCHANGED vars
  BY <1>0, <1>15 DEF vars
<1>16. QED
  BY <1>1, <1>2, <1>3, <1>4, <1>5, <1>6, <1>7, <1>8, <1>9, <1>10, <1>12, <1>13,
     <1>14, <1>15
  DEF Next, Work

-----------------------------------------------------------------------------
(* Versions and occurrences.                                               *)

(* Only producers and policies change the inbox, and only a finished       *)
(* ingest adds a completed job.                                            *)
LEMMA FilesFrame ==
    ASSUME [Next]_vars
    PROVE  \/ \E f \in Files : Produce(f) \/ Withdraw(f)
           \/ \E w \in Watchers : Finish(w) \/ ApplyPostSuccess(w)
           \/ UNCHANGED <<inbox, written, processed, deleted, jobs>>
<1> USE DEF inboxVars, archiveVars
<1>1. ASSUME NEW f \in Files, LockAges(f)
      PROVE  UNCHANGED <<inbox, written, processed, deleted, jobs>>
  BY <1>1 DEF LockAges
<1>2. ASSUME NEW w \in Watchers, NEW f \in Files, Skip(w, f) \/ Examine(w, f)
      PROVE  UNCHANGED <<inbox, written, processed, deleted, jobs>>
  BY <1>2 DEF Skip, Examine
<1>3. ASSUME NEW w \in Watchers,
             StartScan(w) \/ LookAgain(w) \/ Reject(w) \/ Claim(w) \/ TakeOver(w)
             \/ Recover(w) \/ Stage(w) \/ Ingest(w) \/ EndScan(w) \/ Crash(w)
      PROVE  UNCHANGED <<inbox, written, processed, deleted, jobs>>
  BY <1>3
  DEF StartScan, LookAgain, Reject, Claim, TakeOver, Recover, Stage, Ingest, EndScan,
      Crash
<1>4. ASSUME NEW w \in Watchers, Record(w) \/ Fail(w) \/ Collide(w) \/ Vanish(w)
      PROVE  UNCHANGED <<inbox, written, processed, deleted, jobs>>
  BY <1>4 DEF Record, Fail, Collide, Vanish, Raise
<1>5. CASE UNCHANGED vars
  BY <1>5 DEF vars
<1>6. QED
  BY <1>1, <1>2, <1>3, <1>4, <1>5 DEF Next, Work

(* A version in the inbox or in a job is not newer than the newest: a      *)
(* producer only adds versions.                                            *)
LEMMA FilesStayOld == TypeOK /\ VersionsAreOld /\ [Next]_vars => FilesAreOld'
<1> SUFFICES ASSUME TypeOK, VersionsAreOld, [Next]_vars PROVE FilesAreOld'
  OBVIOUS
<1>0. /\ inbox \in [Files -> Versions \cup {Absent}]
      /\ written \in [Files -> 0..MaxVersions] /\ MaxVersions \in Nat
      /\ cur \in [Watchers -> Files]
  BY BoundsAssumption DEF TypeOK
<1> USE DEF inboxVars, archiveVars, VersionsAreOld, FilesAreOld, Versions, Absent
<1>1. ASSUME NEW f \in Files, Produce(f) \/ Withdraw(f) PROVE FilesAreOld'
  BY <1>0, <1>1 DEF Produce, Withdraw
<1>2. ASSUME NEW w \in Watchers, Finish(w) PROVE FilesAreOld'
  BY <1>0, <1>2 DEF Finish, HandsAreOld
<1>3. ASSUME NEW w \in Watchers, ApplyPostSuccess(w) PROVE FilesAreOld'
  <2>1. jobs' = jobs /\ written' = written
        /\ (inbox' = inbox \/ inbox' = [inbox EXCEPT ![cur[w]] = Absent])
    BY <1>3 DEF ApplyPostSuccess
  <2>2. QED
    BY <1>0, <2>1
<1>4. CASE UNCHANGED <<inbox, written, processed, deleted, jobs>>
  BY <1>0, <1>4
<1>5. QED
  BY <1>1, <1>2, <1>3, <1>4, FilesFrame

(* An entry speaks of a version that exists: an entry is copied, or made   *)
(* from the fingerprint in hand.                                           *)
LEMMA EntriesStayOld == TypeOK /\ VersionsAreOld /\ [Next]_vars => EntriesAreOld'
<1> SUFFICES ASSUME TypeOK, VersionsAreOld, [Next]_vars PROVE EntriesAreOld'
  OBVIOUS
<1>0. /\ written \in [Files -> 0..MaxVersions] /\ MaxVersions \in Nat
      /\ saved \in [Files -> Entry] /\ mem \in [Watchers -> [Files -> Entry]]
      /\ cur \in [Watchers -> Files]
      /\ \A e \in Entry : e.fp \in Nat
  BY BoundsAssumption DEF TypeOK, Entry, Versions, Absent
<1> USE DEF inboxVars, Goto, VersionsAreOld, EntriesAreOld
<1>1. ASSUME NEW f \in Files, Produce(f) PROVE EntriesAreOld'
  BY <1>0, <1>1 DEF Produce, localVars
<1>2. ASSUME NEW w \in Watchers, StartScan(w) PROVE EntriesAreOld'
  BY <1>0, <1>2 DEF StartScan
<1>3. ASSUME NEW w \in Watchers, EndScan(w) PROVE EntriesAreOld'
  BY <1>0, <1>3 DEF EndScan, localVars
<1>4. ASSUME NEW w \in Watchers, pc[w] \in Active, written' = written,
             NEW e, e.fp = seen[w], Remember(w, e), saved' \in {saved, mem'[w]}
      PROVE  EntriesAreOld'
  BY <1>0, <1>4 DEF Remember, HandsAreOld
<1>5. ASSUME NEW w \in Watchers, LookAgain(w) PROVE EntriesAreOld'
  <2>1. CASE UNCHANGED mem
    BY <1>5, <2>1 DEF LookAgain
  <2>2. CASE ~UNCHANGED mem
    BY <1>4, <1>5, <2>2 DEF LookAgain, Entered, Active
  <2>3. QED
    BY <2>1, <2>2
<1>6. ASSUME NEW w \in Watchers, Reject(w) PROVE EntriesAreOld'
  BY <1>4, <1>6 DEF Reject, Entered, Active
<1>7. ASSUME NEW w \in Watchers, Recover(w) PROVE EntriesAreOld'
  <2>1. CASE UNCHANGED <<mem, saved>>
    BY <1>7, <2>1 DEF Recover
  <2>2. CASE ~UNCHANGED <<mem, saved>>
    BY <1>4, <1>7, <2>2 DEF Recover, Entered, Active, Claiming
  <2>3. QED
    BY <2>1, <2>2
<1>8. ASSUME NEW w \in Watchers, Record(w) PROVE EntriesAreOld'
  BY <1>4, <1>8 DEF Record, Entered, Active, Claiming
<1>9. ASSUME NEW w \in Watchers, NEW permanent \in BOOLEAN, pc[w] \in Claiming,
             Raise(w, permanent)
      PROVE  EntriesAreOld'
  BY <1>4, <1>9 DEF Raise, Entered, Active
<1>10. ASSUME NEW w \in Watchers, Fail(w) \/ Collide(w) \/ Vanish(w) PROVE EntriesAreOld'
  BY <1>9, <1>10 DEF Fail, Collide, Vanish, Claiming
<1>11. CASE UNCHANGED <<written, saved, mem>>
  BY <1>0, <1>11
<1>12. ASSUME NEW w \in Watchers,
              Claim(w) \/ TakeOver(w) \/ Stage(w) \/ Ingest(w) \/ Finish(w)
              \/ ApplyPostSuccess(w) \/ Crash(w)
       PROVE  EntriesAreOld'
  BY <1>11, <1>12
  DEF Claim, TakeOver, Stage, Ingest, Finish, ApplyPostSuccess, Crash, localVars
<1>13. ASSUME NEW w \in Watchers, NEW f \in Files, Examine(w, f) \/ Skip(w, f)
       PROVE  EntriesAreOld'
  BY <1>11, <1>13 DEF Examine, Skip
<1>14. ASSUME NEW f \in Files, Withdraw(f) \/ LockAges(f) PROVE EntriesAreOld'
  BY <1>11, <1>14 DEF Withdraw, LockAges, localVars
<1>15. CASE UNCHANGED vars
  BY <1>11, <1>15 DEF vars, localVars
<1>16. QED
  BY <1>1, <1>2, <1>3, <1>5, <1>6, <1>7, <1>8, <1>10, <1>12, <1>13, <1>14, <1>15
  DEF Next, Work

(* What a watcher has in hand is a version that exists: it was read from   *)
(* the inbox.                                                              *)
LEMMA HandsStayOld == TypeOK /\ VersionsAreOld /\ [Next]_vars => HandsAreOld'
<1> SUFFICES ASSUME TypeOK, VersionsAreOld, [Next]_vars PROVE HandsAreOld'
  OBVIOUS
<1>0. /\ written \in [Files -> 0..MaxVersions] /\ MaxVersions \in Nat
      /\ inbox \in [Files -> Versions \cup {Absent}]
      /\ cur \in [Watchers -> Files]
      /\ seen \in [Watchers -> Versions \cup {Absent}]
      /\ staged \in [Watchers -> Versions \cup {Absent}]
      /\ pc \in [Watchers -> Active \cup {"idle", "scan"}]
  BY BoundsAssumption DEF TypeOK, Active
<1> USE DEF inboxVars, localVars, Goto, VersionsAreOld, HandsAreOld, Versions, Absent
<1>1. ASSUME NEW f \in Files, Produce(f) PROVE HandsAreOld'
  BY <1>0, <1>1 DEF Produce
<1>2. ASSUME NEW w \in Watchers, NEW f \in Files, Examine(w, f) PROVE HandsAreOld'
  BY <1>0, <1>2 DEF Examine, FilesAreOld, Active, Claiming
<1>3. ASSUME NEW w \in Watchers, Stage(w) PROVE HandsAreOld'
  BY <1>0, <1>3 DEF Stage, FilesAreOld, Active, Claiming
<1>4. ASSUME NEW w \in Watchers, NEW step, UNCHANGED <<written, cur, seen, staged>>,
             pc' = [pc EXCEPT ![w] = step],
             step \in Active => pc[w] \in Active,
             step \in {"ingest", "finish"} => pc[w] \in {"ingest", "finish"}
      PROVE  HandsAreOld'
  BY <1>0, <1>4
<1>5. ASSUME NEW w \in Watchers, StartScan(w) \/ EndScan(w) \/ Crash(w) PROVE HandsAreOld'
  BY <1>4, <1>5 DEF StartScan, EndScan, Crash, Active, Claiming
<1>6. ASSUME NEW w \in Watchers, LookAgain(w) \/ Reject(w) PROVE HandsAreOld'
  BY <1>4, <1>6 DEF LookAgain, Reject, Active, Claiming
<1>7. ASSUME NEW w \in Watchers, Claim(w) \/ TakeOver(w) PROVE HandsAreOld'
  BY <1>4, <1>7 DEF Claim, TakeOver, Active, Claiming
<1>8. ASSUME NEW w \in Watchers, Recover(w) \/ Ingest(w) \/ Finish(w) PROVE HandsAreOld'
  BY <1>4, <1>8 DEF Recover, Ingest, Finish, Active, Claiming
<1>9. ASSUME NEW w \in Watchers, ApplyPostSuccess(w) \/ Record(w) PROVE HandsAreOld'
  BY <1>4, <1>9 DEF ApplyPostSuccess, Record, Release, Active, Claiming
<1>10. ASSUME NEW w \in Watchers, Fail(w) \/ Collide(w) \/ Vanish(w) PROVE HandsAreOld'
  BY <1>4, <1>10 DEF Fail, Collide, Vanish, Raise, Release, Active, Claiming
<1>11. CASE UNCHANGED <<written, cur, seen, staged, pc>>
  BY <1>0, <1>11
<1>12. ASSUME NEW f \in Files, Withdraw(f) \/ LockAges(f) PROVE HandsAreOld'
  BY <1>11, <1>12 DEF Withdraw, LockAges
<1>13. ASSUME NEW w \in Watchers, NEW f \in Files, Skip(w, f) PROVE HandsAreOld'
  BY <1>11, <1>13 DEF Skip
<1>14. CASE UNCHANGED vars
  BY <1>11, <1>14 DEF vars
<1>15. QED
  BY <1>1, <1>2, <1>3, <1>5, <1>6, <1>7, <1>8, <1>9, <1>10, <1>12, <1>13, <1>14
  DEF Next, Work

(* The archive and its jobs change in Ingest and Finish only, and a count  *)
(* of what was cut off never falls.                                        *)
LEMMA ArchiveFrame ==
    ASSUME TypeOK, [Next]_vars
    PROVE  \/ \E w \in Watchers : Ingest(w) \/ Finish(w)
           \/ /\ UNCHANGED <<occurrences, jobs>>
              /\ \/ unrecorded' = unrecorded
                 \/ \E w \in Watchers :
                        /\ pc[w] = "finish" /\ pc'[w] \in {"scan", "idle"}
                        /\ unrecorded' = [unrecorded EXCEPT ![cur[w]][staged[w]] = @ + 1]
<1> DEFINE Lost == \/ unrecorded' = unrecorded
                   \/ \E w \in Watchers :
                        /\ pc[w] = "finish" /\ pc'[w] \in {"scan", "idle"}
                        /\ unrecorded' = [unrecorded EXCEPT ![cur[w]][staged[w]] = @ + 1]
           Kept == UNCHANGED <<occurrences, jobs>> /\ Lost
<1> USE DEF archiveVars
<1>1. ASSUME NEW f \in Files, Produce(f) \/ Withdraw(f) \/ LockAges(f) PROVE Kept
  BY <1>1 DEF Produce, Withdraw, LockAges
<1>2. ASSUME NEW w \in Watchers, NEW f \in Files, Skip(w, f) \/ Examine(w, f) PROVE Kept
  BY <1>2 DEF Skip, Examine
<1>3. ASSUME NEW w \in Watchers,
             StartScan(w) \/ LookAgain(w) \/ Reject(w) \/ Claim(w) \/ TakeOver(w)
             \/ Recover(w) \/ Stage(w) \/ EndScan(w) \/ ApplyPostSuccess(w) \/ Record(w)
      PROVE  Kept
  BY <1>3
  DEF StartScan, LookAgain, Reject, Claim, TakeOver, Recover, Stage, EndScan,
      ApplyPostSuccess, Record
<1>4. ASSUME NEW w \in Watchers, UNCHANGED <<occurrences, jobs>>, LosesRecord(w),
             Goto(w, "scan") \/ Goto(w, "idle")
      PROVE  Kept
  BY <1>4 DEF LosesRecord, Goto, TypeOK
<1>5. ASSUME NEW w \in Watchers, Crash(w) PROVE Kept
  BY <1>4, <1>5 DEF Crash
<1>6. ASSUME NEW w \in Watchers, Fail(w) \/ Collide(w) \/ Vanish(w) PROVE Kept
  BY <1>4, <1>6 DEF Fail, Collide, Vanish, Raise, Release
<1>7. CASE UNCHANGED vars
  BY <1>7 DEF vars
<1>8. QED
  BY <1>1, <1>2, <1>3, <1>5, <1>6, <1>7 DEF Next, Work

(* Between the look for a completed job and Archive.ingest nobody else     *)
(* completes one for the same version, and a version that replaces it      *)
(* meanwhile is new.                                                       *)
LEMMA StagedStaysNew ==
    TypeOK /\ ClaimInv /\ VersionsAreOld /\ StagedIsNew /\ [Next]_vars => StagedIsNew'
<1> SUFFICES ASSUME TypeOK, ClaimInv, VersionsAreOld, StagedIsNew, [Next]_vars
             PROVE  StagedIsNew'
  OBVIOUS
<1>0. /\ written \in [Files -> 0..MaxVersions] /\ MaxVersions \in Nat
      /\ jobs \subseteq Files \X Versions
      /\ inbox \in [Files -> Versions \cup {Absent}]
      /\ cur \in [Watchers -> Files]
      /\ staged \in [Watchers -> Versions \cup {Absent}]
      /\ pc \in [Watchers -> Active \cup {"idle", "scan"}]
      /\ usurped \subseteq usurped'
  BY BoundsAssumption, UsurpedGrows DEF TypeOK, Active
<1> USE DEF inboxVars, archiveVars, localVars, Goto, StagedIsNew
<1>a. \A f \in Files : <<f, Absent>> \notin jobs /\ <<f, written[f] + 1>> \notin jobs
  <2>1. TAKE f \in Files
  <2>2. ASSUME NEW v, <<f, v>> \in jobs PROVE v \in Versions /\ v <= written[f]
    BY <1>0, <2>2 DEF VersionsAreOld, FilesAreOld
  <2>3. written[f] \in Nat /\ Absent \notin Versions
    BY <1>0 DEF Versions, Absent
  <2>4. QED
    BY <2>2, <2>3
<1>1. ASSUME NEW f \in Files, Produce(f) PROVE StagedIsNew'
  <2>1. /\ jobs' = jobs /\ cur' = cur /\ staged' = staged /\ pc' = pc
        /\ inbox' = [inbox EXCEPT ![f] = written[f] + 1]
    BY <1>1 DEF Produce
  <2>2. QED
    BY <1>0, <1>a, <2>1
<1>2. ASSUME NEW f \in Files, Withdraw(f) PROVE StagedIsNew'
  BY <1>0, <1>a, <1>2 DEF Withdraw
<1>3. ASSUME NEW w \in Watchers, Recover(w) PROVE StagedIsNew'
  BY <1>0, <1>3 DEF Recover
<1>4. ASSUME NEW w \in Watchers, Stage(w) PROVE StagedIsNew'
  BY <1>0, <1>4 DEF Stage
<1>5. ASSUME NEW w \in Watchers, Finish(w) PROVE StagedIsNew'
  BY <1>0, <1>5 DEF Finish, ClaimInv, OwnersHoldTheLock, Claiming
<1>6. ASSUME NEW w \in Watchers, ApplyPostSuccess(w) PROVE StagedIsNew'
  <2>1. /\ jobs' = jobs /\ cur' = cur /\ staged' = staged
        /\ pc' = [pc EXCEPT ![w] = "record"]
        /\ (inbox' = inbox \/ inbox' = [inbox EXCEPT ![cur[w]] = Absent])
    BY <1>6 DEF ApplyPostSuccess
  <2>2. QED
    BY <1>0, <1>a, <2>1
<1>7. ASSUME NEW w \in Watchers, NEW step, step \notin {"stage", "ingest"},
             pc' = [pc EXCEPT ![w] = step],
             UNCHANGED <<inbox, jobs, staged>>,
             \A x \in Watchers \ {w} : cur'[x] = cur[x]
      PROVE  StagedIsNew'
  BY <1>0, <1>7
<1>8. ASSUME NEW w \in Watchers, NEW f \in Files, Examine(w, f) PROVE StagedIsNew'
  BY <1>0, <1>7, <1>8 DEF Examine
<1>9. ASSUME NEW w \in Watchers, StartScan(w) \/ LookAgain(w) \/ Reject(w) \/ Claim(w)
             \/ TakeOver(w) \/ Ingest(w) \/ Record(w) \/ EndScan(w) \/ Crash(w)
      PROVE  StagedIsNew'
  BY <1>7, <1>9
  DEF StartScan, LookAgain, Reject, Claim, TakeOver, Ingest, Record, Release, EndScan,
      Crash
<1>10. ASSUME NEW w \in Watchers, Fail(w) \/ Collide(w) \/ Vanish(w) PROVE StagedIsNew'
  BY <1>7, <1>10 DEF Fail, Collide, Vanish, Raise, Release
<1>11. CASE UNCHANGED <<inbox, jobs, cur, staged, pc>>
  BY <1>0, <1>11
<1>12. ASSUME NEW f \in Files, LockAges(f) PROVE StagedIsNew'
  BY <1>11, <1>12 DEF LockAges
<1>13. ASSUME NEW w \in Watchers, NEW f \in Files, Skip(w, f) PROVE StagedIsNew'
  BY <1>11, <1>13 DEF Skip
<1>14. CASE UNCHANGED vars
  BY <1>11, <1>14 DEF vars
<1>15. QED
  BY <1>1, <1>2, <1>3, <1>4, <1>5, <1>6, <1>8, <1>9, <1>10, <1>12, <1>13, <1>14
  DEF Next, Work

(* Whoever finishes an ingest gets there from Archive.ingest, and goes on  *)
(* to the post-success policy, to a failure or to an end.                  *)
LEMMA FinishingFrame ==
    ASSUME TypeOK, [Next]_vars, NEW x \in Watchers,
           ~\E w \in Watchers : Ingest(w) \/ Finish(w)
    PROVE  /\ pc'[x] = "finish" => pc[x] = "finish"
           /\ pc[x] = "finish" /\ pc'[x] = "finish" => cur'[x] = cur[x] /\ staged'[x] = staged[x]
           /\ pc[x] = "finish" /\ pc'[x] # "finish" =>
                unrecorded' = [unrecorded EXCEPT ![cur[x]][staged[x]] = @ + 1]
<1> DEFINE Stays == /\ pc'[x] = "finish" => pc[x] = "finish"
                    /\ pc[x] = "finish" /\ pc'[x] = "finish" =>
                            cur'[x] = cur[x] /\ staged'[x] = staged[x]
                    /\ pc[x] = "finish" /\ pc'[x] # "finish" =>
                            unrecorded' = [unrecorded EXCEPT ![cur[x]][staged[x]] = @ + 1]
<1> USE DEF inboxVars, localVars, Goto
<1>0. pc \in [Watchers -> Active \cup {"idle", "scan"}]
  BY DEF TypeOK, Active
<1>1. CASE UNCHANGED <<pc, cur, staged>>
  BY <1>1
<1>2. ASSUME NEW f \in Files, Produce(f) \/ Withdraw(f) \/ LockAges(f) PROVE Stays
  BY <1>1, <1>2 DEF Produce, Withdraw, LockAges
<1>3. ASSUME NEW w \in Watchers, NEW f \in Files, Skip(w, f) PROVE Stays
  BY <1>1, <1>3 DEF Skip
<1>4. ASSUME NEW w \in Watchers, pc[w] # "finish", NEW step, step # "finish",
             pc' = [pc EXCEPT ![w] = step],
             \A y \in Watchers \ {w} : cur'[y] = cur[y] /\ staged'[y] = staged[y]
      PROVE  Stays
  BY <1>0, <1>4
<1>5. ASSUME NEW w \in Watchers, NEW f \in Files, Examine(w, f) PROVE Stays
  BY <1>4, <1>5 DEF Examine, TypeOK
<1>6. ASSUME NEW w \in Watchers, StartScan(w) \/ LookAgain(w) \/ Reject(w) \/ Claim(w)
             \/ TakeOver(w) \/ Recover(w)
      PROVE  Stays
  BY <1>4, <1>6 DEF StartScan, LookAgain, Reject, Claim, TakeOver, Recover
<1>7. ASSUME NEW w \in Watchers, Stage(w) PROVE Stays
  BY <1>4, <1>7 DEF Stage, TypeOK
<1>8. ASSUME NEW w \in Watchers, ApplyPostSuccess(w) \/ Record(w) \/ EndScan(w) PROVE Stays
  BY <1>4, <1>8 DEF ApplyPostSuccess, Record, Release, EndScan
<1>9. ASSUME NEW w \in Watchers, NEW step \in {"scan", "idle"}, LosesRecord(w),
             pc' = [pc EXCEPT ![w] = step], UNCHANGED <<cur, staged>>
      PROVE  Stays
  BY <1>0, <1>9 DEF LosesRecord
<1>10. ASSUME NEW w \in Watchers, Crash(w) PROVE Stays
  BY <1>9, <1>10 DEF Crash
<1>11. ASSUME NEW w \in Watchers, Fail(w) \/ Collide(w) \/ Vanish(w) PROVE Stays
  BY <1>9, <1>11 DEF Fail, Collide, Vanish, Raise, Release
<1>12. CASE UNCHANGED vars
  BY <1>1, <1>12 DEF vars
<1>13. QED
  BY <1>2, <1>3, <1>5, <1>6, <1>7, <1>8, <1>10, <1>11, <1>12 DEF Next, Work

(* No version gets an occurrence beyond the first, but for those that were *)
(* cut off: whoever calls Archive.ingest has found no completed job, and   *)
(* nobody else is between the call and the job's last write.               *)
LEMMA OccurrencesStayCounted ==
    TypeOK /\ ClaimInv /\ OnceInv /\ [Next]_vars
        => OccurrencesAreCounted' /\ OneOccurrencePerVersion'
<1> SUFFICES ASSUME TypeOK, ClaimInv, OnceInv, [Next]_vars
             PROVE  OccurrencesAreCounted' /\ OneOccurrencePerVersion'
  OBVIOUS
<1>0. /\ cur \in [Watchers -> Files]
      /\ staged \in [Watchers -> Versions \cup {Absent}]
      /\ pc \in [Watchers -> Active \cup {"idle", "scan"}]
      /\ occurrences \in [Files -> [Versions -> Nat]]
      /\ unrecorded \in [Files -> [Versions -> Nat]]
      /\ usurped \subseteq usurped'
  BY UsurpedGrows DEF TypeOK, Active
<1>1. ASSUME NEW w \in Watchers, pc[w] \in {"ingest", "finish"} PROVE staged[w] \in Versions
  BY <1>1 DEF TypeOK
<1>2. ASSUME NEW w \in Watchers, NEW v \in Watchers, v # w,
             pc[w] \in Claiming, pc[v] \in Claiming, cur[w] \notin usurped
      PROVE  cur[v] # cur[w]
  BY <1>2 DEF ClaimInv, OwnersHoldTheLock
<1> USE DEF archiveVars, localVars, Goto
<1>3. CASE \E w \in Watchers : Ingest(w)
  <2>1. PICK w \in Watchers : Ingest(w)
    BY <1>3
  <2>2. /\ pc[w] = "ingest" /\ pc' = [pc EXCEPT ![w] = "finish"]
        /\ occurrences' = [occurrences EXCEPT ![cur[w]][staged[w]] = @ + 1]
        /\ UNCHANGED <<jobs, unrecorded, cur, staged>>
    BY <2>1 DEF Ingest
  <2>3. ASSUME cur[w] \notin usurped
        PROVE  occurrences[cur[w]][staged[w]] <= unrecorded[cur[w]][staged[w]]
    <3>1. ~Finishing(cur[w], staged[w])
      BY <1>2, <2>2, <2>3 DEF Finishing, Claiming
    <3>2. <<cur[w], staged[w]>> \notin jobs
      BY <2>2, <2>3 DEF OnceInv, StagedIsNew
    <3>3. QED
      BY <1>0, <1>1, <2>2, <2>3, <3>1, <3>2 DEF OnceInv, OccurrencesAreCounted
  <2>4. ASSUME NEW f \in Files, NEW v \in Versions, f \notin usurped
        PROVE  /\ occurrences'[f][v] > unrecorded'[f][v] => (<<f, v>> \in jobs \/ Finishing(f, v))'
               /\ occurrences'[f][v] <= 1 + unrecorded'[f][v]
    <3>1. CASE f = cur[w] /\ v = staged[w]
      BY <1>0, <2>2, <2>3, <2>4, <3>1 DEF Finishing
    <3>2. CASE ~(f = cur[w] /\ v = staged[w])
      <4>1. occurrences'[f][v] = occurrences[f][v]
        BY <1>0, <2>2, <3>2
      <4>2. Finishing(f, v) => Finishing(f, v)'
        BY <1>0, <2>2 DEF Finishing
      <4>3. QED
        BY <2>2, <2>4, <4>1, <4>2 DEF OnceInv, OccurrencesAreCounted, OneOccurrencePerVersion
    <3>3. QED
      BY <3>1, <3>2
  <2>5. QED
    BY <1>0, <2>4 DEF OccurrencesAreCounted, OneOccurrencePerVersion
<1>4. CASE \E w \in Watchers : Finish(w)
  <2>1. PICK w \in Watchers : Finish(w)
    BY <1>4
  <2>2. /\ pc[w] = "finish" /\ pc' = [pc EXCEPT ![w] = "post"]
        /\ jobs' = jobs \cup {<<cur[w], staged[w]>>}
        /\ UNCHANGED <<occurrences, unrecorded, cur, staged>>
    BY <2>1 DEF Finish
  <2>3. ASSUME NEW f \in Files, NEW v \in Versions, Finishing(f, v)
        PROVE  <<f, v>> \in jobs' \/ Finishing(f, v)'
    BY <1>0, <2>2, <2>3 DEF Finishing
  <2>4. QED
    BY <1>0, <2>2, <2>3 DEF OnceInv, OccurrencesAreCounted, OneOccurrencePerVersion
<1>5. CASE ~\E w \in Watchers : Ingest(w) \/ Finish(w)
  <2>1. UNCHANGED <<occurrences, jobs>>
    BY <1>5, ArchiveFrame
  <2>2. ASSUME NEW f \in Files, NEW v \in Versions
        PROVE  unrecorded'[f][v] \in Nat /\ unrecorded'[f][v] >= unrecorded[f][v]
    <3>1. CASE unrecorded' = unrecorded
      BY <1>0, <3>1
    <3>2. CASE \E w \in Watchers :
                 /\ pc[w] = "finish"
                 /\ unrecorded' = [unrecorded EXCEPT ![cur[w]][staged[w]] = @ + 1]
      BY <1>0, <1>1, <3>2
    <3>3. QED
      BY <1>5, <3>1, <3>2, ArchiveFrame
  <2>3. ASSUME NEW f \in Files, NEW v \in Versions,
               Finishing(f, v), ~Finishing(f, v)'
        PROVE  unrecorded'[f][v] = unrecorded[f][v] + 1
    <3>1. PICK w \in Watchers : pc[w] = "finish" /\ cur[w] = f /\ staged[w] = v
      BY <2>3 DEF Finishing
    <3>2. unrecorded' = [unrecorded EXCEPT ![cur[w]][staged[w]] = @ + 1]
      BY <1>5, <2>3, <3>1, FinishingFrame DEF Finishing
    <3>3. QED
      BY <1>0, <3>1, <3>2
  <2>4. ASSUME NEW f \in Files, NEW v \in Versions, f \notin usurped
        PROVE  /\ occurrences'[f][v] > unrecorded'[f][v] => (<<f, v>> \in jobs \/ Finishing(f, v))'
               /\ occurrences'[f][v] <= 1 + unrecorded'[f][v]
    <3>1. occurrences[f][v] \in Nat /\ unrecorded[f][v] \in Nat
      BY <1>0
    <3>2. occurrences'[f][v] = occurrences[f][v] /\ (<<f, v>> \in jobs' <=> <<f, v>> \in jobs)
      BY <2>1
    <3>3. occurrences[f][v] <= 1 + unrecorded[f][v]
      BY <2>4 DEF OnceInv, OneOccurrencePerVersion
    <3>4. occurrences[f][v] > unrecorded[f][v] => <<f, v>> \in jobs \/ Finishing(f, v)
      BY <2>4 DEF OnceInv, OccurrencesAreCounted
    <3>5. QED
      BY <2>2, <2>3, <3>1, <3>2, <3>3, <3>4
  <2>5. QED
    BY <1>0, <2>4 DEF OccurrencesAreCounted, OneOccurrencePerVersion
<1>6. QED
  BY <1>3, <1>4, <1>5

-----------------------------------------------------------------------------
(* What is let go of is archived.                                          *)

(* The archive never forgets an occurrence.                                *)
LEMMA OccurrencesGrow ==
    ASSUME TypeOK, [Next]_vars, NEW f \in Files, NEW v, occurrences[f][v] > 0, v \in Versions
    PROVE  occurrences'[f][v] > 0
<1>0. occurrences \in [Files -> [Versions -> Nat]] /\ cur \in [Watchers -> Files]
      /\ \A w \in Watchers : pc[w] = "ingest" => staged[w] \in Versions
  BY DEF TypeOK
<1>1. ASSUME NEW w \in Watchers, Ingest(w) PROVE occurrences'[f][v] > 0
  BY <1>0, <1>1 DEF Ingest
<1>2. ASSUME NEW w \in Watchers, Finish(w) PROVE occurrences'[f][v] > 0
  BY <1>2 DEF Finish
<1>3. QED
  BY <1>1, <1>2, ArchiveFrame

(* A completed job's version is archived, and so is the version of a       *)
(* watcher that finishes.                                                  *)
LEMMA JobsStayArchived ==
    TypeOK /\ ArchivedInv /\ [Next]_vars => JobsAreArchived'
<1> SUFFICES ASSUME TypeOK, ArchivedInv, [Next]_vars,
                    NEW f \in Files, NEW v \in Versions, <<f, v>> \in jobs'
             PROVE  occurrences'[f][v] > 0
  BY DEF JobsAreArchived
<1>1. CASE <<f, v>> \in jobs
  BY <1>1, OccurrencesGrow DEF ArchivedInv, JobsAreArchived
<1>2. CASE <<f, v>> \notin jobs
  <2>1. PICK w \in Watchers : Finish(w)
    BY <1>2, ArchiveFrame DEF Ingest
  <2>2. f = cur[w] /\ v = staged[w] /\ pc[w] = "finish" /\ occurrences' = occurrences
    BY <1>2, <2>1 DEF Finish
  <2>3. QED
    BY <2>2 DEF ArchivedInv, ExaminedIsProcessed
<1>3. QED
  BY <1>1, <1>2

(* From its first look at a file to its last word about it, a watcher can  *)
(* tell by the fingerprint whether the archive has the version that is in  *)
(* the inbox.                                                              *)
LEMMA ExaminedStaysProcessed ==
    TypeOK /\ VersionsAreOld /\ ArchivedInv /\ [Next]_vars => ExaminedIsProcessed'
<1> SUFFICES ASSUME TypeOK, VersionsAreOld, ArchivedInv, [Next]_vars
             PROVE  ExaminedIsProcessed'
  OBVIOUS
<1>0. /\ written \in [Files -> 0..MaxVersions] /\ MaxVersions \in Nat
      /\ inbox \in [Files -> Versions \cup {Absent}]
      /\ cur \in [Watchers -> Files]
      /\ seen \in [Watchers -> Versions \cup {Absent}]
      /\ staged \in [Watchers -> Versions \cup {Absent}]
      /\ pc \in [Watchers -> Active \cup {"idle", "scan"}]
      /\ \A w \in Watchers : pc[w] \in {"ingest", "finish"} => staged[w] \in Versions
  BY BoundsAssumption DEF TypeOK, Active
<1>1. \A f \in Files, v \in Versions : occurrences[f][v] > 0 => occurrences'[f][v] > 0
  BY OccurrencesGrow
<1> USE DEF inboxVars, archiveVars, localVars, Goto, ArchivedInv, ExaminedIsProcessed
<1>2. ASSUME UNCHANGED <<cur, seen, staged, pc>>,
             \A w \in Watchers : inbox'[cur[w]] \in {inbox[cur[w]], Absent}
                                 \/ (pc[w] \in Active => inbox'[cur[w]] # seen[w])
      PROVE  ExaminedIsProcessed'
  BY <1>0, <1>1, <1>2 DEF Active, Claiming
<1>3. ASSUME NEW f \in Files, Produce(f) PROVE ExaminedIsProcessed'
  <2>1. /\ UNCHANGED <<cur, seen, staged, pc>>
        /\ inbox' = [inbox EXCEPT ![f] = written[f] + 1]
    BY <1>3 DEF Produce
  <2>2. \A w \in Watchers : pc[w] \in Active /\ cur[w] = f => seen[w] # written[f] + 1
    BY <1>0 DEF VersionsAreOld, HandsAreOld, Versions, Absent
  <2>3. QED
    BY <1>0, <1>2, <2>1, <2>2
<1>4. ASSUME NEW f \in Files, Withdraw(f) PROVE ExaminedIsProcessed'
  BY <1>0, <1>2, <1>4 DEF Withdraw
<1>5. ASSUME NEW w \in Watchers, NEW step, pc' = [pc EXCEPT ![w] = step],
             step \notin {"ingest", "finish", "post", "record"}, inbox' = inbox,
             \A x \in Watchers \ {w} :
                cur'[x] = cur[x] /\ seen'[x] = seen[x] /\ staged'[x] = staged[x]
      PROVE  ExaminedIsProcessed'
  BY <1>0, <1>1, <1>5
<1>6. ASSUME NEW w \in Watchers, NEW f \in Files, Examine(w, f) PROVE ExaminedIsProcessed'
  BY <1>0, <1>5, <1>6 DEF Examine
<1>7. ASSUME NEW w \in Watchers, StartScan(w) \/ LookAgain(w) \/ Reject(w) \/ Claim(w)
             \/ TakeOver(w) \/ Record(w) \/ EndScan(w) \/ Crash(w)
      PROVE  ExaminedIsProcessed'
  BY <1>5, <1>7
  DEF StartScan, LookAgain, Reject, Claim, TakeOver, Record, Release, EndScan, Crash
<1>8. ASSUME NEW w \in Watchers, Fail(w) \/ Collide(w) \/ Vanish(w) PROVE ExaminedIsProcessed'
  BY <1>5, <1>8 DEF Fail, Collide, Vanish, Raise, Release
<1>9. ASSUME NEW w \in Watchers, Recover(w) PROVE ExaminedIsProcessed'
  <2>1. CASE <<cur[w], inbox[cur[w]]>> \in jobs
    <3>1. inbox[cur[w]] # Absent => occurrences[cur[w]][inbox[cur[w]]] > 0
      BY <1>0, <2>1 DEF JobsAreArchived
    <3>2. /\ UNCHANGED <<inbox, cur, seen, staged>>
          /\ pc' = [pc EXCEPT ![w] = "post"]
      BY <1>9, <2>1 DEF Recover
    <3>3. QED
      BY <1>0, <1>1, <3>1, <3>2
  <2>2. CASE <<cur[w], inbox[cur[w]]>> \notin jobs
    BY <1>5, <1>9, <2>2 DEF Recover
  <2>3. QED
    BY <2>1, <2>2
<1>10. ASSUME NEW w \in Watchers, Stage(w) PROVE ExaminedIsProcessed'
  BY <1>0, <1>1, <1>10 DEF Stage
<1>11. ASSUME NEW w \in Watchers, Ingest(w) PROVE ExaminedIsProcessed'
  <2>1. /\ UNCHANGED <<inbox, cur, seen, staged>>
        /\ pc[w] = "ingest" /\ pc' = [pc EXCEPT ![w] = "finish"]
    BY <1>11 DEF Ingest
  <2>2. occurrences'[cur[w]][staged[w]] > 0
    BY <1>0, <1>11 DEF Ingest, TypeOK
  <2>3. QED
    BY <1>0, <1>1, <2>1, <2>2
<1>12. ASSUME NEW w \in Watchers, Finish(w) PROVE ExaminedIsProcessed'
  BY <1>0, <1>1, <1>12 DEF Finish
<1>13. ASSUME NEW w \in Watchers, ApplyPostSuccess(w) PROVE ExaminedIsProcessed'
  <2>1. /\ UNCHANGED <<cur, seen, staged>> /\ pc[w] = "post"
        /\ pc' = [pc EXCEPT ![w] = "record"]
        /\ \A f \in Files : inbox'[f] \in {inbox[f], Absent}
    BY <1>0, <1>13 DEF ApplyPostSuccess
  <2>2. QED
    BY <1>0, <1>1, <2>1
<1>14. ASSUME NEW f \in Files, LockAges(f) PROVE ExaminedIsProcessed'
  BY <1>0, <1>2, <1>14 DEF LockAges
<1>15. ASSUME NEW w \in Watchers, NEW f \in Files, Skip(w, f) PROVE ExaminedIsProcessed'
  BY <1>0, <1>2, <1>15 DEF Skip
<1>16. CASE UNCHANGED vars
  BY <1>0, <1>2, <1>16 DEF vars
<1>17. QED
  BY <1>3, <1>4, <1>6, <1>7, <1>8, <1>9, <1>10, <1>11, <1>12, <1>13, <1>14, <1>15, <1>16
  DEF Next, Work

(* The entry of a file whose version is still in the inbox says COMPLETED  *)
(* only if the archive has that version.                                   *)
LEMMA EntriesStayArchived ==
    TypeOK /\ VersionsAreOld /\ ArchivedInv /\ [Next]_vars => EntriesAreArchived'
<1> SUFFICES ASSUME TypeOK, VersionsAreOld, ArchivedInv, [Next]_vars
             PROVE  EntriesAreArchived'
  OBVIOUS
<1>0. /\ written \in [Files -> 0..MaxVersions] /\ MaxVersions \in Nat
      /\ inbox \in [Files -> Versions \cup {Absent}]
      /\ saved \in [Files -> Entry] /\ mem \in [Watchers -> [Files -> Entry]]
      /\ cur \in [Watchers -> Files]
      /\ \A e \in Entry : e.fp \in Nat
  BY BoundsAssumption DEF TypeOK, Entry, Versions, Absent
<1>1. \A f \in Files, v \in Versions : occurrences[f][v] > 0 => occurrences'[f][v] > 0
  BY OccurrencesGrow
<1> USE DEF inboxVars, archiveVars, localVars, Goto
<1>2. ASSUME NEW f \in Files, NEW e, EntryIsArchived(e, f),
             inbox'[f] \in {inbox[f], Absent} \/ e.fp # inbox'[f]
      PROVE  EntryIsArchived(e, f)'
  BY <1>0, <1>1, <1>2 DEF EntryIsArchived
<1> USE DEF ArchivedInv, EntriesAreArchived
<1>3. ASSUME NEW f \in Files, Produce(f) PROVE EntriesAreArchived'
  <2>1. UNCHANGED <<saved, mem>> /\ inbox' = [inbox EXCEPT ![f] = written[f] + 1]
    BY <1>3 DEF Produce
  <2>2. saved[f].fp # written[f] + 1 /\ \A w \in Watchers : mem[w][f].fp # written[f] + 1
    BY <1>0 DEF VersionsAreOld, EntriesAreOld
  <2>3. QED
    BY <1>0, <1>2, <2>1, <2>2
<1>4. ASSUME UNCHANGED <<saved, mem>>, \A f \in Files : inbox'[f] \in {inbox[f], Absent}
      PROVE  EntriesAreArchived'
  BY <1>2, <1>4
<1>5. ASSUME NEW w \in Watchers, UNCHANGED inbox, NEW e, EntryIsArchived(e, cur[w]),
             Remember(w, e), saved' \in {saved, mem'[w]}
      PROVE  EntriesAreArchived'
  <2>1. \A f \in Files : EntryIsArchived(mem'[w][f], f)
    BY <1>0, <1>5 DEF Remember
  <2>2. \A f \in Files, x \in Watchers : EntryIsArchived(mem'[x][f], f)
    BY <1>0, <1>5, <2>1 DEF Remember
  <2>3. QED
    BY <1>2, <1>5, <2>1, <2>2
<1>6. ASSUME NEW w \in Watchers, StartScan(w) PROVE EntriesAreArchived'
  BY <1>0, <1>2, <1>6 DEF StartScan
<1>7. ASSUME NEW w \in Watchers, EndScan(w) PROVE EntriesAreArchived'
  BY <1>0, <1>2, <1>7 DEF EndScan
<1>8. ASSUME NEW w \in Watchers, NEW status, status # "COMPLETED", NEW count
      PROVE  EntryIsArchived(Entered(w, status, count), cur[w])
  BY <1>8 DEF EntryIsArchived, Entered
<1>9. ASSUME NEW w \in Watchers, LookAgain(w) PROVE EntriesAreArchived'
  <2>1. CASE UNCHANGED mem
    BY <1>4, <1>9, <2>1 DEF LookAgain
  <2>2. CASE ~UNCHANGED mem
    BY <1>5, <1>8, <1>9, <2>2 DEF LookAgain
  <2>3. QED
    BY <2>1, <2>2
<1>10. ASSUME NEW w \in Watchers, Reject(w) PROVE EntriesAreArchived'
  BY <1>5, <1>8, <1>10 DEF Reject
<1>11. ASSUME NEW w \in Watchers, Recover(w) PROVE EntriesAreArchived'
  <2>1. CASE UNCHANGED <<mem, saved>>
    BY <1>4, <1>11, <2>1 DEF Recover
  <2>2. CASE ~UNCHANGED <<mem, saved>>
    BY <1>5, <1>8, <1>11, <2>2 DEF Recover
  <2>3. QED
    BY <2>1, <2>2
<1>12. ASSUME NEW w \in Watchers, Record(w) PROVE EntriesAreArchived'
  <2>1. EntryIsArchived(Entered(w, "COMPLETED", retries[w]), cur[w])
    BY <1>12 DEF Record, ExaminedIsProcessed, EntryIsArchived, Entered
  <2>2. QED
    BY <1>5, <1>12, <2>1 DEF Record
<1>13. ASSUME NEW w \in Watchers, NEW permanent \in BOOLEAN, Raise(w, permanent)
       PROVE  EntriesAreArchived'
  BY <1>5, <1>8, <1>13 DEF Raise
<1>14. ASSUME NEW w \in Watchers, Fail(w) \/ Collide(w) \/ Vanish(w) PROVE EntriesAreArchived'
  BY <1>13, <1>14 DEF Fail, Collide, Vanish
<1>15. ASSUME NEW w \in Watchers, ApplyPostSuccess(w) PROVE EntriesAreArchived'
  BY <1>0, <1>4, <1>15 DEF ApplyPostSuccess
<1>16. ASSUME NEW w \in Watchers,
              Claim(w) \/ TakeOver(w) \/ Stage(w) \/ Ingest(w) \/ Finish(w) \/ Crash(w)
       PROVE  EntriesAreArchived'
  BY <1>4, <1>16 DEF Claim, TakeOver, Stage, Ingest, Finish, Crash
<1>17. ASSUME NEW w \in Watchers, NEW f \in Files, Examine(w, f) \/ Skip(w, f)
       PROVE  EntriesAreArchived'
  BY <1>4, <1>17 DEF Examine, Skip
<1>18. ASSUME NEW f \in Files, Withdraw(f) \/ LockAges(f) PROVE EntriesAreArchived'
  BY <1>0, <1>4, <1>18 DEF Withdraw, LockAges
<1>19. CASE UNCHANGED vars
  BY <1>4, <1>19 DEF vars
<1>20. QED
  BY <1>3, <1>6, <1>7, <1>9, <1>10, <1>11, <1>12, <1>14, <1>15, <1>16, <1>17, <1>18, <1>19
  DEF Next, Work

(* Where producers keep away from a file that is processed, the file at    *)
(* the path is still the one that was staged.                              *)
LEMMA ProcessedStaysUndisturbed ==
    TypeOK /\ ArchivedInv /\ ProcessedIsUndisturbed /\ [Next]_vars => ProcessedIsUndisturbed'
<1> SUFFICES ASSUME TypeOK, ArchivedInv, ProcessedIsUndisturbed, [Next]_vars
             PROVE  ProcessedIsUndisturbed'
  OBVIOUS
<1>0. /\ inbox \in [Files -> Versions \cup {Absent}]
      /\ cur \in [Watchers -> Files]
      /\ staged \in [Watchers -> Versions \cup {Absent}]
      /\ pc \in [Watchers -> Active \cup {"idle", "scan"}]
      /\ \A w \in Watchers : pc[w] \in {"ingest", "finish"} => staged[w] \in Versions
      /\ post' = post
  BY ConfigurationIsConstant DEF TypeOK, Active
<1>1. \A f \in Files, v \in Versions : occurrences[f][v] > 0 => occurrences'[f][v] > 0
  BY OccurrencesGrow
<1> USE DEF inboxVars, archiveVars, localVars, Goto, ProcessedIsUndisturbed
<1>2. ASSUME UNCHANGED <<cur, staged, pc>>, \A f \in Files : inbox'[f] \in {inbox[f], Absent}
      PROVE  ProcessedIsUndisturbed'
  BY <1>0, <1>1, <1>2
<1>3. ASSUME NEW f \in Files, Produce(f) PROVE ProcessedIsUndisturbed'
  <2>1. /\ UNCHANGED <<cur, staged, pc>>
        /\ inbox' = [inbox EXCEPT ![f] = written[f] + 1]
        /\ post[f] \in LateWrites \/ Quiet(f)
    BY <1>3 DEF Produce
  <2>2. QED
    BY <1>0, <1>1, <2>1 DEF Quiet, Claiming
<1>4. ASSUME NEW f \in Files, Withdraw(f) PROVE ProcessedIsUndisturbed'
  BY <1>0, <1>2, <1>4 DEF Withdraw
<1>5. ASSUME NEW w \in Watchers, NEW step, pc' = [pc EXCEPT ![w] = step],
             step \notin {"ingest", "finish", "post"}, inbox' = inbox,
             \A x \in Watchers \ {w} : cur'[x] = cur[x] /\ staged'[x] = staged[x]
      PROVE  ProcessedIsUndisturbed'
  BY <1>0, <1>1, <1>5
<1>6. ASSUME NEW w \in Watchers, NEW f \in Files, Examine(w, f) PROVE ProcessedIsUndisturbed'
  BY <1>0, <1>5, <1>6 DEF Examine
<1>7. ASSUME NEW w \in Watchers, StartScan(w) \/ LookAgain(w) \/ Reject(w) \/ Claim(w)
             \/ TakeOver(w) \/ Record(w) \/ EndScan(w) \/ Crash(w)
      PROVE  ProcessedIsUndisturbed'
  BY <1>5, <1>7
  DEF StartScan, LookAgain, Reject, Claim, TakeOver, Record, Release, EndScan, Crash
<1>8. ASSUME NEW w \in Watchers, Fail(w) \/ Collide(w) \/ Vanish(w)
      PROVE  ProcessedIsUndisturbed'
  BY <1>5, <1>8 DEF Fail, Collide, Vanish, Raise, Release
<1>9. ASSUME NEW w \in Watchers, Recover(w) PROVE ProcessedIsUndisturbed'
  <2>1. CASE <<cur[w], inbox[cur[w]]>> \in jobs
    <3>1. inbox[cur[w]] # Absent => occurrences[cur[w]][inbox[cur[w]]] > 0
      BY <1>0, <2>1 DEF ArchivedInv, JobsAreArchived
    <3>2. UNCHANGED <<inbox, cur, staged>> /\ pc' = [pc EXCEPT ![w] = "post"]
      BY <1>9, <2>1 DEF Recover
    <3>3. QED
      BY <1>0, <1>1, <3>1, <3>2
  <2>2. CASE <<cur[w], inbox[cur[w]]>> \notin jobs
    BY <1>5, <1>9, <2>2 DEF Recover
  <2>3. QED
    BY <2>1, <2>2
<1>10. ASSUME NEW w \in Watchers, Stage(w) PROVE ProcessedIsUndisturbed'
  BY <1>0, <1>1, <1>10 DEF Stage
<1>11. ASSUME NEW w \in Watchers, Ingest(w) PROVE ProcessedIsUndisturbed'
  BY <1>0, <1>1, <1>11 DEF Ingest
<1>12. ASSUME NEW w \in Watchers, Finish(w) PROVE ProcessedIsUndisturbed'
  <2>1. /\ UNCHANGED <<inbox, cur, staged>>
        /\ pc[w] = "finish" /\ pc' = [pc EXCEPT ![w] = "post"]
    BY <1>12 DEF Finish
  <2>2. occurrences[cur[w]][staged[w]] > 0
    BY <2>1 DEF ArchivedInv, ExaminedIsProcessed
  <2>3. QED
    BY <1>0, <1>1, <2>1, <2>2
<1>13. ASSUME NEW w \in Watchers, ApplyPostSuccess(w) PROVE ProcessedIsUndisturbed'
  <2>1. /\ UNCHANGED <<cur, staged>> /\ pc' = [pc EXCEPT ![w] = "record"]
        /\ \A f \in Files : inbox'[f] \in {inbox[f], Absent}
    BY <1>0, <1>13 DEF ApplyPostSuccess
  <2>2. QED
    BY <1>0, <1>1, <2>1
<1>14. ASSUME NEW f \in Files, LockAges(f) PROVE ProcessedIsUndisturbed'
  BY <1>0, <1>2, <1>14 DEF LockAges
<1>15. ASSUME NEW w \in Watchers, NEW f \in Files, Skip(w, f) PROVE ProcessedIsUndisturbed'
  BY <1>0, <1>2, <1>15 DEF Skip
<1>16. CASE UNCHANGED vars
  BY <1>0, <1>2, <1>16 DEF vars
<1>17. QED
  BY <1>3, <1>4, <1>6, <1>7, <1>8, <1>9, <1>10, <1>11, <1>12, <1>13, <1>14, <1>15, <1>16
  DEF Next, Work

(* A policy that unlinks finds the version that the archive has.           *)
LEMMA DeletedStaysArchived ==
    ASSUME "DELETE" \notin LateWrites
    PROVE  TypeOK /\ DeleteInv /\ [Next]_vars => DeletedIsArchived'
<1> SUFFICES ASSUME TypeOK, DeleteInv, [Next]_vars, NEW x \in deleted'
             PROVE  occurrences'[x[1]][x[2]] > 0
  BY DEF DeletedIsArchived
<1>1. CASE x \in deleted
  BY <1>1, OccurrencesGrow DEF TypeOK, DeleteInv, DeletedIsArchived
<1>2. CASE x \notin deleted
  <2>1. PICK w \in Watchers : ApplyPostSuccess(w)
    BY <1>2, FilesFrame DEF Produce, Withdraw, Finish, inboxVars
  <2>2. /\ pc[w] = "post" /\ post[cur[w]] = "DELETE" /\ inbox[cur[w]] # Absent
        /\ x = <<cur[w], inbox[cur[w]]>>
    BY <1>2, <2>1 DEF ApplyPostSuccess, inboxVars
  <2>3. occurrences[cur[w]][inbox[cur[w]]] > 0
    BY <2>2 DEF DeleteInv, ProcessedIsUndisturbed
  <2>4. occurrences' = occurrences
    BY <2>1 DEF ApplyPostSuccess, archiveVars
  <2>5. QED
    BY <2>2, <2>3, <2>4
<1>3. QED
  BY <1>1, <1>2

-----------------------------------------------------------------------------
(* Retries.                                                                *)

(* What an entry counts stays enough when the attempts or the kills change *)
(* as they do.                                                             *)
LEMMA CountsWeakens ==
    ASSUME NEW f \in Files, NEW count \in Nat, NEW lost \in Nat, NEW more \in Nat,
           tries[f] \in Nat, MaxRetries \in Nat, lost <= more, Counts(count, f, lost)
    PROVE  Counts(count, f, more)
BY DEF Counts

(* Every attempt at the newest version of a file is counted in the entry   *)
(* of the file, or was lost by a kill; a count that reaches max_retries    *)
(* ends the attempts.                                                      *)
LEMMA RetriesStayBounded ==
    TypeOK /\ ClaimInv /\ VersionsAreOld /\ RetryInv /\ [Next]_vars => RetryInv'
<1> SUFFICES ASSUME TypeOK, ClaimInv, VersionsAreOld, RetryInv, [Next]_vars
             PROVE  RetryInv'
  OBVIOUS
<1>a. Lone' <=> Lone
  BY ConfigurationIsConstant DEF Lone
<1> SUFFICES ASSUME Lone PROVE RetryInv'
  BY <1>a DEF RetryInv
<1>0. /\ crew' = crew /\ crew \subseteq Watchers
      /\ written \in [Files -> 0..MaxVersions] /\ MaxVersions \in Nat
      /\ inbox \in [Files -> Versions \cup {Absent}]
      /\ saved \in [Files -> Entry] /\ mem \in [Watchers -> [Files -> Entry]]
      /\ cur \in [Watchers -> Files]
      /\ retries \in [Watchers -> Nat]
      /\ todo \in [Watchers -> SUBSET Files]
      /\ seen \in [Watchers -> Versions \cup {Absent}]
      /\ pc \in [Watchers -> Active \cup {"idle", "scan"}]
      /\ tries \in [Files -> Nat] /\ crashes \in Nat /\ MaxRetries \in Nat \ {0}
      /\ \A e \in Entry : e.retries \in Nat
  BY ConfigurationIsConstant, CrewsAssumption, BoundsAssumption
  DEF TypeOK, Active, ManyTries, Entry
<1>1. PICK w \in Watchers : crew = {w}
  <2>1. IsFiniteSet(crew)
    BY CrewsAssumption, FS_Subset DEF TypeOK
  <2>2. QED
    BY <1>0, <2>1, FS_Singleton DEF Lone
<1>2. ASSUME NEW v \in Watchers, pc[v] # "idle" PROVE v = w
  BY <1>1, <1>2 DEF ClaimInv, OnlyCrewRuns
<1> DEFINE
    Bound == \A f \in Files : tries[f] <= MaxRetries + crashes
    Scans == \A f \in Files : Settles(mem[w][f], f) \/ Counts(mem[w][f].retries, f, crashes)
    Lags == \A f \in Files : Settles(saved[f], f) \/ Counts(saved[f].retries, f, crashes + 1)
    Saved == \A f \in Files :
        pc[w] = "idle" \/ f \in todo[w] \/ (pc[w] \in Active /\ cur[w] = f)
            => Settles(saved[f], f) \/ Counts(saved[f].retries, f, crashes)
    Hand == pc[w] \in Active =>
        /\ Counts(retries[w], cur[w], crashes)
        /\ seen[w] # written[cur[w]] => tries[cur[w]] = 0
        /\ cur[w] \notin todo[w]
<1>3. Bound /\ Scans /\ Lags /\ Saved /\ Hand
  BY <1>1 DEF RetryInv, EntriesCount, AttemptsCount
<1> SUFFICES Bound' /\ Scans' /\ Lags' /\ Saved' /\ Hand'
  BY <1>0, <1>1 DEF RetryInv, EntriesCount, AttemptsCount
<1> USE DEF inboxVars, archiveVars, claimVars, localVars, faultVars, Goto
<1>4. ASSUME NEW f \in Files, Produce(f) PROVE Bound' /\ Scans' /\ Lags' /\ Saved' /\ Hand'
  <2>1. /\ UNCHANGED <<mem, saved, pc, todo, cur, seen, retries, crashes>>
        /\ written' = [written EXCEPT ![f] = @ + 1]
        /\ tries' = [tries EXCEPT ![f] = 0]
    BY <1>4 DEF Produce
  <2>2. QED
    BY <1>0, <1>3, <2>1 DEF Settles, Counts
<1>5. ASSUME UNCHANGED <<mem, saved, written, tries, retries, crashes, cur, seen>>,
             todo'[w] \subseteq todo[w],
             pc' = pc \/ \E v \in Watchers : \E step :
                /\ pc[v] # "idle" /\ step # "idle" /\ pc' = [pc EXCEPT ![v] = step]
                /\ step \in Active => pc[v] \in Active
      PROVE  Bound' /\ Scans' /\ Lags' /\ Saved' /\ Hand'
  BY <1>0, <1>2, <1>3, <1>5 DEF Settles, Counts, Active
<1>6. ASSUME NEW f \in Files, Withdraw(f) \/ LockAges(f)
      PROVE Bound' /\ Scans' /\ Lags' /\ Saved' /\ Hand'
  BY <1>5, <1>6 DEF Withdraw, LockAges
<1>7. ASSUME NEW v \in Watchers, NEW f \in Files, Skip(v, f)
      PROVE Bound' /\ Scans' /\ Lags' /\ Saved' /\ Hand'
  BY <1>0, <1>5, <1>7 DEF Skip
<1>8. ASSUME NEW v \in Watchers, Claim(v) \/ TakeOver(v) \/ Ingest(v) \/ Finish(v)
                                 \/ Stage(v) \/ ApplyPostSuccess(v)
      PROVE Bound' /\ Scans' /\ Lags' /\ Saved' /\ Hand'
  BY <1>5, <1>8
  DEF Claim, TakeOver, Ingest, Finish, Stage, ApplyPostSuccess, Active, Claiming
<1>9. ASSUME NEW v \in Watchers, StartScan(v)
      PROVE Bound' /\ Scans' /\ Lags' /\ Saved' /\ Hand'
  <2>1. v = w /\ pc[w] = "idle"
    BY <1>1, <1>9 DEF StartScan
  <2>2. /\ UNCHANGED <<saved, written, tries, retries, crashes, cur, seen>>
        /\ pc'[w] = "scan" /\ mem'[w] = saved
    BY <1>0, <1>9, <2>1 DEF StartScan
  <2>3. QED
    BY <1>3, <2>1, <2>2 DEF Settles, Counts, Active, Claiming
<1>10. ASSUME NEW v \in Watchers, NEW f \in Files, Examine(v, f)
       PROVE Bound' /\ Scans' /\ Lags' /\ Saved' /\ Hand'
  <2>1. v = w /\ pc[w] = "scan"
    BY <1>2, <1>10 DEF Examine
  <2>2. /\ UNCHANGED <<saved, mem, written, tries, crashes>>
        /\ pc'[w] = "stable" /\ todo'[w] = todo[w] \ {f} /\ f \in todo[w]
        /\ cur'[w] = f /\ seen'[w] = inbox[f] /\ retries'[w] = mem[w][f].retries
    BY <1>0, <1>10, <2>1 DEF Examine
  <2>3. inbox[f] = written[f] /\ ~Settles(mem[w][f], f)
    BY <1>10, <2>1 DEF Examine, Unchanged, Settles, VersionsAreOld, FilesAreOld
  <2>4. QED
    BY <1>3, <2>1, <2>2, <2>3 DEF Settles, Counts, Active, Claiming
<1>11. ASSUME pc[w] \in Active, NEW e \in Entry, NEW step \in Active \cup {"scan"},
              pc'[w] = step,
              UNCHANGED <<written, tries, crashes, cur, seen, retries, todo>>,
              mem'[w] = [mem[w] EXCEPT ![cur[w]] = e], saved' \in {saved, mem'[w]},
              Settles(e, cur[w]) \/ Counts(e.retries, cur[w], crashes)
       PROVE Bound' /\ Scans' /\ Lags' /\ Saved' /\ Hand'
  <2>1. ASSUME NEW g \in Files
        PROVE  Settles(mem'[w][g], g) \/ Counts(mem'[w][g].retries, g, crashes)
    BY <1>0, <1>3, <1>11
  <2>2. ASSUME NEW g \in Files
        PROVE  Settles(mem'[w][g], g) \/ Counts(mem'[w][g].retries, g, crashes + 1)
    BY <1>0, <1>11, <2>1, CountsWeakens
  <2>3. QED
    BY <1>0, <1>3, <1>11, <2>1, <2>2 DEF Settles, Counts, Active, Claiming
<1>12. ASSUME NEW v \in Watchers, LookAgain(v)
       PROVE Bound' /\ Scans' /\ Lags' /\ Saved' /\ Hand'
  <2>1. CASE UNCHANGED mem
    BY <1>5, <1>12, <2>1 DEF LookAgain, Active
  <2>2. CASE ~UNCHANGED mem
    <3>1. v = w /\ pc[w] = "stable"
      BY <1>2, <1>12 DEF LookAgain
    <3>2. PICK status \in {"READY", "WAITING_STABLE"} :
            mem'[w] = [mem[w] EXCEPT ![cur[w]] = Entered(w, status, retries[w])]
      BY <1>0, <1>12, <2>2, <3>1 DEF LookAgain, Remember
    <3>3. Entered(w, status, retries[w]) \in Entry
      BY <1>0 DEF Entered, Entry, Statuses
    <3>4. Counts(Entered(w, status, retries[w]).retries, cur[w], crashes)
      BY <1>3, <3>1 DEF Entered, Active
    <3>5. pc'[w] \in Active \cup {"scan"}
      BY <1>0, <1>12, <3>1 DEF LookAgain, Active
    <3>6. QED
      BY <1>11, <1>12, <3>1, <3>2, <3>3, <3>4, <3>5 DEF LookAgain, Active
  <2>3. QED
    BY <2>1, <2>2
<1>13. ASSUME NEW v \in Watchers, Reject(v)
       PROVE Bound' /\ Scans' /\ Lags' /\ Saved' /\ Hand'
  <2>1. v = w /\ pc[w] = "stable"
    BY <1>2, <1>13 DEF Reject
  <2>2. Entered(w, "FAILED", 0) \in Entry
    BY <1>0 DEF Entered, Entry, Statuses
  <2>3. Settles(Entered(w, "FAILED", 0), cur[w]) \/ Counts(0, cur[w], crashes)
    BY <1>0, <1>3, <2>1 DEF Settles, Counts, Entered, Active
  <2>4. QED
    BY <1>0, <1>11, <1>13, <2>1, <2>2, <2>3 DEF Reject, Remember, Entered, Active
<1>14. ASSUME NEW v \in Watchers, Recover(v)
       PROVE Bound' /\ Scans' /\ Lags' /\ Saved' /\ Hand'
  <2>1. CASE UNCHANGED <<mem, saved>>
    BY <1>5, <1>14, <2>1 DEF Recover, Active, Claiming
  <2>2. CASE ~UNCHANGED <<mem, saved>>
    <3>1. v = w /\ pc[w] = "recover"
      BY <1>2, <1>14 DEF Recover
    <3>2. /\ mem'[w] = [mem[w] EXCEPT ![cur[w]] = Entered(w, "PROCESSING", retries[w])]
          /\ saved' = mem'[w] /\ pc'[w] = "stage"
          /\ UNCHANGED <<written, tries, crashes, cur, seen, retries, todo>>
      BY <1>0, <1>14, <2>2, <3>1 DEF Recover, Remember
    <3>3. Entered(w, "PROCESSING", retries[w]) \in Entry
      BY <1>0 DEF Entered, Entry, Statuses
    <3>4. Counts(Entered(w, "PROCESSING", retries[w]).retries, cur[w], crashes)
      BY <1>3, <3>1 DEF Entered, Active, Claiming
    <3>5. QED
      BY <1>11, <3>1, <3>2, <3>3, <3>4 DEF Active, Claiming
  <2>3. QED
    BY <2>1, <2>2
<1>15. ASSUME NEW v \in Watchers, Record(v)
       PROVE Bound' /\ Scans' /\ Lags' /\ Saved' /\ Hand'
  <2>1. v = w /\ pc[w] = "record"
    BY <1>2, <1>15 DEF Record
  <2>2. Entered(w, "COMPLETED", retries[w]) \in Entry
    BY <1>0 DEF Entered, Entry, Statuses
  <2>3. Counts(Entered(w, "COMPLETED", retries[w]).retries, cur[w], crashes)
    BY <1>3, <2>1 DEF Entered, Active, Claiming
  <2>4. QED
    BY <1>0, <1>11, <1>15, <2>1, <2>2, <2>3 DEF Record, Release, Remember, Active, Claiming
<1>16. ASSUME NEW v \in Watchers, NEW permanent \in BOOLEAN, pc[v] \in Claiming,
              Raise(v, permanent)
       PROVE Bound' /\ Scans' /\ Lags' /\ Saved' /\ Hand'
  <2>1. v = w /\ pc[w] \in Active
    BY <1>2, <1>16 DEF Active, Claiming
  <2>2. PICK f \in Files : f = cur[w]
    BY <1>0
  <2>3. PICK count \in Nat : count = retries[w] + 1
    BY <1>0
  <2>4. PICK e \in Entry :
          e = Entered(w, IF permanent \/ count >= MaxRetries
                         THEN "FAILED" ELSE "RETRY_WAIT", count)
    BY <1>0 DEF Entered, Entry, Statuses
  <2>5. /\ UNCHANGED <<saved, written, crashes, cur, seen, retries, todo>>
        /\ pc'[w] = "scan" /\ mem'[w] = [mem[w] EXCEPT ![f] = e]
        /\ CountTry(w)
    BY <1>0, <1>16, <2>1, <2>2, <2>3, <2>4 DEF Raise, Release, Remember
  <2>6. /\ e.retries = count /\ e.fp = seen[w]
        /\ count >= MaxRetries => e.status = "FAILED"
    BY <1>0, <2>4 DEF Entered
  <2>7. /\ Counts(retries[w], f, crashes)
        /\ seen[w] # written[f] => tries[f] = 0
        /\ f \notin todo[w]
    BY <1>3, <2>1, <2>2
  <2>8. /\ \A g \in Files \ {f} : tries'[g] = tries[g]
        /\ tries'[f] \in {tries[f], tries[f] + 1}
        /\ seen[w] # written[f] => tries'[f] = 0
    BY <1>0, <2>2, <2>5, <2>7 DEF CountTry
  <2>9. /\ mem'[w][f] = e
        /\ \A g \in Files \ {f} : mem'[w][g] = mem[w][g]
    BY <1>0, <2>5
  <2>10. Bound'
    <3>1. tries[f] \in Nat /\ tries[f] < MaxRetries + crashes
      BY <1>0, <2>7 DEF Counts
    <3>2. tries'[f] <= MaxRetries + crashes
      BY <1>0, <2>8, <3>1
    <3>3. QED
      BY <1>0, <1>3, <2>5, <2>8, <3>2
  <2>11. Scans'
    <3>1. Settles(mem[w][f], f)' \/ Counts(mem[w][f].retries, f, crashes)'
      BY <1>0, <2>3, <2>5, <2>6, <2>7, <2>8, <2>9 DEF Settles, Counts
    <3>2. ASSUME NEW g \in Files \ {f}
          PROVE  Settles(mem[w][g], g)' \/ Counts(mem[w][g].retries, g, crashes)'
      BY <1>0, <1>3, <2>5, <2>8, <2>9 DEF Settles, Counts
    <3>3. QED
      BY <3>1, <3>2
  <2>12. Lags'
    <3>1. Settles(saved[f], f)' \/ Counts(saved[f].retries, f, crashes + 1)'
      <4>1. Settles(saved[f], f) \/ Counts(saved[f].retries, f, crashes)
        BY <1>3, <2>1, <2>2
      <4>2. tries[f] \in Nat /\ saved[f].retries \in Nat
        BY <1>0
      <4>3. QED
        BY <1>0, <2>5, <2>8, <4>1, <4>2 DEF Settles, Counts
    <3>2. ASSUME NEW g \in Files \ {f}
          PROVE  Settles(saved[g], g)' \/ Counts(saved[g].retries, g, crashes + 1)'
      BY <1>0, <1>3, <2>5, <2>8 DEF Settles, Counts
    <3>3. QED
      BY <3>1, <3>2
  <2>13. Saved'
    BY <1>0, <1>3, <2>5, <2>7, <2>8 DEF Settles, Counts, Active, Claiming
  <2>14. Hand'
    BY <2>5 DEF Active, Claiming
  <2>15. QED
    BY <2>10, <2>11, <2>12, <2>13, <2>14
<1>17. ASSUME NEW v \in Watchers, Fail(v) \/ Collide(v) \/ Vanish(v)
       PROVE Bound' /\ Scans' /\ Lags' /\ Saved' /\ Hand'
  BY <1>16, <1>17 DEF Fail, Collide, Vanish, Claiming
<1>18. ASSUME NEW v \in Watchers, EndScan(v)
       PROVE Bound' /\ Scans' /\ Lags' /\ Saved' /\ Hand'
  <2>1. v = w /\ pc[w] = "scan"
    BY <1>2, <1>18 DEF EndScan
  <2>2. /\ UNCHANGED <<mem, written, tries, retries, crashes, cur, seen, todo>>
        /\ pc'[w] = "idle" /\ saved' = mem[w]
    BY <1>0, <1>18, <2>1 DEF EndScan
  <2>3. QED
    BY <1>0, <1>3, <2>2, CountsWeakens DEF Settles, Counts, Active, Claiming
<1>19. ASSUME NEW v \in Watchers, Crash(v)
       PROVE Bound' /\ Scans' /\ Lags' /\ Saved' /\ Hand'
  <2>1. v = w
    BY <1>2, <1>19 DEF Crash
  <2>2. /\ UNCHANGED <<mem, saved, written, tries, retries, cur, seen, todo>>
        /\ pc'[w] = "idle" /\ crashes' = crashes + 1
    BY <1>0, <1>19, <2>1 DEF Crash
  <2>3. QED
    BY <1>0, <1>3, <2>2 DEF Settles, Counts, Active, Claiming
<1>20. CASE UNCHANGED vars
  BY <1>5, <1>20 DEF vars
<1>21. QED
  BY <1>4, <1>6, <1>7, <1>8, <1>9, <1>10, <1>12, <1>13, <1>14, <1>15, <1>17, <1>18,
     <1>19, <1>20
  DEF Next, Work

-----------------------------------------------------------------------------
(* The theorems.                                                           *)

(* At first nothing is written, claimed, known or tried.                   *)
LEMMA InitEstablishesInboxInv == Init => InboxInv /\ ProcessedIsUndisturbed /\ DeletedIsArchived
<1> SUFFICES ASSUME Init PROVE InboxInv /\ ProcessedIsUndisturbed /\ DeletedIsArchived
  OBVIOUS
<1>1. TypeOK
  BY InitEstablishesTypes
<1>2. ClaimInv
  BY OwnersAssumption
  DEF Init, ClaimInv, OnlyCrewRuns, KillsLeaveClaims, LocksHaveOwners, OwnersHoldTheLock,
      Claiming
<1>3. VersionsAreOld /\ StagedIsNew
  BY DEF Init, VersionsAreOld, FilesAreOld, EntriesAreOld, HandsAreOld, StagedIsNew,
         Active, Claiming, NoEntry, Absent
<1>4. OccurrencesAreCounted /\ OneOccurrencePerVersion
  BY DEF Init, OccurrencesAreCounted, OneOccurrencePerVersion
<1>5. ArchivedInv
  BY DEF Init, ArchivedInv, JobsAreArchived, EntriesAreArchived, EntryIsArchived,
         ExaminedIsProcessed
<1>6. RetryInv
  BY CrewsAssumption, BoundsAssumption
  DEF Init, RetryInv, EntriesCount, AttemptsCount, Counts, Active, Claiming, NoEntry
<1>7. ProcessedIsUndisturbed /\ DeletedIsArchived
  BY DEF Init, ProcessedIsUndisturbed, DeletedIsArchived
<1>8. QED
  BY <1>1, <1>2, <1>3, <1>4, <1>5, <1>6, <1>7 DEF InboxInv, OnceInv

(* Every step of a producer, a watcher or the clock keeps the invariant.   *)
LEMMA InboxInvPreserved == InboxInv /\ [Next]_vars => InboxInv'
BY TypePreserved, ClaimsPreserved, FilesStayOld, EntriesStayOld, HandsStayOld,
   StagedStaysNew, OccurrencesStayCounted, JobsStayArchived, EntriesStayArchived,
   ExaminedStaysProcessed, RetriesStayBounded
DEF InboxInv, OnceInv, VersionsAreOld, ArchivedInv

(* The inductive invariant holds in every behaviour of any number of       *)
(* watchers and producers.                                                 *)
THEOREM InboxInvariant == Spec => []InboxInv
BY InitEstablishesInboxInv, InboxInvPreserved, PTL DEF Spec

(* Whatever the inbox and its watchers do, every variable keeps its type.  *)
THEOREM InboxTypes == Spec => []TypeOK
<1>1. InboxInv => TypeOK
  BY DEF InboxInv
<1>2. QED
  BY <1>1, InboxInvariant, PTL

(* Whatever watchers are killed and however their locks are taken over,    *)
(* two watchers work on one file only after a take-over has removed the    *)
(* lock of a watcher at work, and that takes a kill (_claim).              *)
THEOREM ClaimsAreExclusive == Spec => []ClaimIsExclusive
<1>1. InboxInv => ClaimIsExclusive
  <2>1. TypeOK => crashes \in Nat
    BY DEF TypeOK
  <2>2. QED
    BY <2>1 DEF InboxInv, ClaimInv, KillsLeaveClaims, OwnersHoldTheLock, ClaimIsExclusive
<1>2. QED
  BY <1>1, InboxInvariant, PTL

(* Any number of scans, failures and kills gives the archive a version of  *)
(* a file once, and once more for each cut between Archive.ingest and the  *)
(* last write of the job, until a take-over removes the lock of a watcher  *)
(* that is at work on the file.                                            *)
THEOREM VersionsAreArchivedOnce == Spec => []OneOccurrencePerVersion
<1>1. InboxInv => OneOccurrencePerVersion
  BY DEF InboxInv, OnceInv
<1>2. QED
  BY <1>1, InboxInvariant, PTL

(* A file that scans skip as completed is archived with the bytes it has,  *)
(* however its producer writes.                                            *)
THEOREM CompletedFilesAreArchived == Spec => []CompletedIsArchived
<1>1. InboxInv => CompletedIsArchived
  BY DEF InboxInv, ArchivedInv, EntriesAreArchived, EntryIsArchived, CompletedIsArchived
<1>2. QED
  BY <1>1, InboxInvariant, PTL

(* What a scan skips or unlinks is archived with the bytes it had, if the  *)
(* producers of an inbox whose files are deleted leave a file alone once   *)
(* it is claimed: _post_success does not look at the file again.           *)
THEOREM WhatIsLetGoIsArchived ==
    ASSUME "DELETE" \notin LateWrites
    PROVE  Spec => []LetGoIsArchived
<1> DEFINE Inv == InboxInv /\ DeleteInv
<1>1. Init => Inv
  BY InitEstablishesInboxInv DEF DeleteInv
<1>2. Inv /\ [Next]_vars => Inv'
  BY InboxInvPreserved, ProcessedStaysUndisturbed, DeletedStaysArchived
  DEF DeleteInv, InboxInv
<1>3. Inv => LetGoIsArchived
  BY DEF InboxInv, ArchivedInv, EntriesAreArchived, EntryIsArchived, CompletedIsArchived,
         DeleteInv, LetGoIsArchived
<1>4. QED
  BY <1>1, <1>2, <1>3, PTL DEF Spec

(* A lone watcher tries a version max_retries times, and once more for     *)
(* each kill that lost the count.                                          *)
THEOREM RetriesAreBounded == Spec => []RetriesBounded
<1>1. InboxInv => RetriesBounded
  BY DEF InboxInv, RetryInv, RetriesBounded
<1>2. QED
  BY <1>1, InboxInvariant, PTL
=============================================================================
