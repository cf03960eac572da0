------------------------ MODULE MalwareRequestsProofs ------------------------
(***************************************************************************)
(* Proofs about MalwareRequests, for any processes, requests, identifiers  *)
(* and number of scanners.                                                 *)
(*                                                                         *)
(* The argument: sidecars are never removed, so what an import has written *)
(* stays written, whoever saves the request.  While the provider keeps its *)
(* database, the request a job was made for tells the requests that may    *)
(* name it apart; once it lost the database a lone command compares the    *)
(* identifier with every other request, and nobody saves in between.       *)
(***************************************************************************)
EXTENDS MalwareRequests, FiniteSetTheorems, TLAPS

Alone == Cardinality(crew) = 1
Importing == {"observations", "write", "row"}
Answered == Importing \cup {"put", "accept", "import"}
Polling == Importing \cup {"status", "result", "import"}
Reading == {"idle", "create"}     \* the copy is not the request's yet
Settled == {"ACTIVE", "COMPLETE", "IMPORTED"}

-----------------------------------------------------------------------------
(* The inductive invariant, in named parts.                                *)

(* What a command has in hand at each of its steps.                        *)
HandsAreFull == \A w \in Processes :
    /\ pc[w] # "idle" => cur[w] \in Requests /\ w \in crew
    /\ pc[w] \in Polling => copy[w].job # NoJob
    /\ copy[w].state \in Settled => copy[w].job # NoJob
    /\ pc[w] \in Answered => answer[w] \in JobIds
    /\ pc[w] \in {"write", "row"} => item[w] \in Items
    /\ pc[w] = "row" => Id(w) \in sidecars

Evidence(j) == \A i \in Items : <<j, i>> \in sidecars

(* A copy that says IMPORTED speaks of written observations; an import     *)
(* begins with the first, and has written all before the one it is at.     *)
CopyHasEvidence(w) ==
    /\ copy[w].state = "IMPORTED" => Evidence(copy[w].job)
    /\ pc[w] \notin Importing \cup {"save"} => item[w] = 1
    /\ pc[w] \in Importing => \A i \in Items : i < item[w] => <<answer[w], i>> \in sidecars

CopiesHaveEvidence == \A w \in Processes : CopyHasEvidence(w)

(* Job j was made for request r.                                           *)
MadeFor(j, r) == jobs[j] # NoJob /\ jobs[j].request = r

HandsKnow(w) ==
    /\ pc[w] \notin Reading /\ copy[w].job # NoJob => MadeFor(copy[w].job, cur[w])
    /\ pc[w] \in Answered => MadeFor(answer[w], cur[w])

JobsAreKnown == resets = 0 =>
    /\ \A r \in Requests : file[r] # NoFile /\ file[r].job # NoJob => MadeFor(file[r].job, r)
    /\ \A w \in Processes : HandsKnow(w)

(* What a lone command will save names no other request's job.             *)
NotShared(w) ==
    /\ pc[w] \notin Reading /\ copy[w].job # NoJob => ~Replayed(cur[w], copy[w].job)
    /\ pc[w] \in Importing => ~Replayed(cur[w], answer[w])

LoneCopiesAreNotShared == Alone => \A w \in Processes : NotShared(w)

OnlyTheLoneReset == resets > 0 => Alone

RequestInv ==
    /\ TypeOK
    /\ HandsAreFull
    /\ ImportedHasEvidence
    /\ CopiesHaveEvidence
    /\ IndexLagsOnlyWhenCut
    /\ OnlyTheLoneReset
    /\ JobsAreKnown
    /\ LoneCopiesAreNotShared
    /\ JobsAreNotShared

-----------------------------------------------------------------------------
(* Type correctness.                                                       *)

Steps == {"idle", "create", "post", "put", "accept", "save", "status", "result",
          "import", "observations", "write", "row", "cancel"}

HandTypes ==
    /\ pc \in [Processes -> Steps]
    /\ cur \in [Processes -> Requests \cup {NoRequest}]
    /\ copy \in [Processes -> File]
    /\ answer \in [Processes -> JobIds \cup {NoJob}]
    /\ result \in [Processes -> Requests \cup {NoRequest}]
    /\ flaw \in [Processes -> Flaws \cup {"none"}]
    /\ item \in [Processes -> 1..Scanners + 1]

SharedTypes ==
    /\ file \in [Requests -> File \cup {NoFile}]
    /\ \A r \in Requests : file[r] # NoFile /\ file[r].state \in Settled => file[r].job # NoJob
    /\ sidecars \subseteq ObservationIds
    /\ rows \subseteq sidecars
    /\ jobs \in [JobIds -> Job \cup {NoJob}]
    /\ cut \subseteq ObservationIds
    /\ faults \in 0..MaxFaults /\ resets \in 0..MaxResets /\ crew \in Crews

(* The type invariant is about what commands have in hand and about what   *)
(* they share.                                                             *)
LEMMA TypesSplit == TypeOK <=> HandTypes /\ SharedTypes
BY DEF TypeOK, HandTypes, SharedTypes, Steps, Settled

(* What a command has in hand keeps its type, and is enough for the step   *)
(* it is at.                                                               *)
LEMMA HandsPreserved ==
    TypeOK /\ HandsAreFull /\ [Next]_vars => HandTypes' /\ HandsAreFull'
<1> SUFFICES ASSUME TypeOK, HandsAreFull, [Next]_vars PROVE HandTypes' /\ HandsAreFull'
  OBVIOUS
<1>0. HandTypes /\ SharedTypes
  BY TypesSplit
<1>a. New \in File /\ Scanners \in Nat \ {0}
  BY ScannersAssumption DEF New, File, States
<1> USE SentinelsAssumption
<1> USE DEF local, store, bounds, Goto
<1>1. ASSUME UNCHANGED <<pc, local, crew>>, sidecars' = sidecars
      PROVE  HandTypes' /\ HandsAreFull'
  BY <1>0, <1>1 DEF HandTypes, HandsAreFull, Id
<1>2. ASSUME NEW w \in Processes, Return(w), sidecars' = sidecars, crew' = crew
      PROVE  HandTypes' /\ HandsAreFull'
  <2>1. HandTypes'
    BY <1>0, <1>a, <1>2 DEF Return, HandTypes, Steps
  <2>2. QED
    BY <1>0, <1>2, <2>1
    DEF Return, HandTypes, HandsAreFull, Polling, Answered, Importing, Settled, New, Id
<1>3. ASSUME NEW w \in Processes, NEW state \in States, Conclude(w, state),
             sidecars' = sidecars, crew' = crew, pc[w] # "idle",
             state \in Settled => copy[w].job # NoJob
      PROVE  HandTypes' /\ HandsAreFull'
  <2>1. HandTypes'
    BY <1>0, <1>3 DEF Conclude, HandTypes, Steps, File
  <2>2. /\ pc' = [pc EXCEPT ![w] = "save"] /\ UNCHANGED <<cur, answer, item>>
        /\ copy'[w].job = copy[w].job /\ copy'[w].state = state
        /\ \A x \in Processes \ {w} : copy'[x] = copy[x]
    BY <1>0, <1>3 DEF Conclude, HandTypes, File
  <2>3. QED
    BY <1>0, <1>3, <2>1, <2>2
    DEF HandTypes, HandsAreFull, Polling, Answered, Importing, Id
<1>4. ASSUME NEW w \in Processes, NEW step \in Steps, pc' = [pc EXCEPT ![w] = step],
             UNCHANGED <<local, crew>>, sidecars \subseteq sidecars', pc[w] # "idle",
             step \in Polling => pc[w] \in Polling,
             step \in Answered => pc[w] \in Answered,
             step \in {"write", "row"} => item[w] \in Items,
             step = "row" => Id(w) \in sidecars'
      PROVE  HandTypes' /\ HandsAreFull'
  <2>1. HandTypes'
    BY <1>0, <1>4 DEF HandTypes
  <2>2. \A x \in Processes : Id(x)' = Id(x)
    BY <1>4 DEF Id
  <2>3. QED
    BY <1>0, <1>4, <2>1, <2>2 DEF HandTypes, HandsAreFull
<1>5. ASSUME NEW w \in Processes, NEW r \in Requests, w \in crew,
             NEW step \in {"create", "post", "status", "cancel"},
             pc' = [pc EXCEPT ![w] = step], cur' = [cur EXCEPT ![w] = r],
             copy' = copy \/ (file[r] # NoFile /\ copy' = [copy EXCEPT ![w] = file[r]]),
             step = "status" => copy'[w].job # NoJob,
             UNCHANGED <<answer, result, flaw, item, sidecars, crew>>
      PROVE  HandTypes' /\ HandsAreFull'
  <2>1. copy' \in [Processes -> File]
    <3>1. CASE copy' = copy
      BY <1>0, <3>1 DEF HandTypes
    <3>2. CASE file[r] # NoFile /\ copy' = [copy EXCEPT ![w] = file[r]]
      BY <1>0, <3>2 DEF HandTypes, SharedTypes
    <3>3. QED
      BY <1>5, <3>1, <3>2
  <2>2. HandTypes'
    BY <1>0, <1>5, <2>1 DEF HandTypes, Steps
  <2>3. \A x \in Processes : copy'[x].state \in Settled => copy'[x].job # NoJob
    BY <1>0, <1>5 DEF HandTypes, SharedTypes, HandsAreFull
  <2>4. \A x \in Processes \ {w} : copy'[x] = copy[x]
    BY <1>0, <1>5 DEF HandTypes
  <2>5. \A x \in Processes : Id(x)' = Id(x)
    BY <1>5 DEF Id
  <2>6. QED
    BY <1>0, <1>5, <2>2, <2>3, <2>4, <2>5
    DEF HandTypes, HandsAreFull, Polling, Answered, Importing
<1>6. ASSUME NEW w \in Processes, NEW r \in Requests, StartSubmit(w, r)
      PROVE  HandTypes' /\ HandsAreFull'
  BY <1>5, <1>6 DEF StartSubmit, MayStart
<1>7. ASSUME NEW w \in Processes, NEW r \in Requests, StartPoll(w, r) \/ StartCancel(w, r)
      PROVE  HandTypes' /\ HandsAreFull'
  BY <1>0, <1>5, <1>7 DEF StartPoll, StartCancel, MayStart, HandTypes
<1>8. ASSUME NEW w \in Processes, Create(w) PROVE HandTypes' /\ HandsAreFull'
  <2>1. HandTypes'
    BY <1>0, <1>a, <1>8 DEF Create, HandTypes, Steps
  <2>2. QED
    BY <1>0, <1>8, <2>1
    DEF Create, HandTypes, HandsAreFull, Polling, Answered, Importing, Settled, New, Id
<1>9. ASSUME NEW w \in Processes, PostJob(w) PROVE HandTypes' /\ HandsAreFull'
  <2>1. CASE \E j \in JobIds : /\ answer' = [answer EXCEPT ![w] = j]
                               /\ Goto(w, "put")
                               /\ UNCHANGED <<cur, copy, result, flaw, item, bounds>>
    BY <1>0, <1>9, <2>1
    DEF PostJob, HandTypes, HandsAreFull, Steps, Polling, Answered, Importing, Id
  <2>2. CASE \E state \in {"PENDING_PROVIDER", "FAILED"} : Conclude(w, state)
    BY <1>3, <1>9, <2>2 DEF PostJob, Fault, States, Settled
  <2>3. CASE UNCHANGED <<pc, local>>
    BY <1>1, <1>9, <2>3 DEF PostJob, Fault
  <2>4. QED
    BY <1>9, <2>1, <2>2, <2>3 DEF PostJob, Free
<1>10. ASSUME NEW w \in Processes, PutPayload(w) PROVE HandTypes' /\ HandsAreFull'
  <2>1. CASE Goto(w, "accept") /\ UNCHANGED <<local, bounds>>
    BY <1>4, <1>10, <2>1 DEF PutPayload, Steps, Polling, Answered, Importing
  <2>2. CASE \E state \in {"PENDING_PROVIDER", "FAILED"} : Conclude(w, state)
    BY <1>3, <1>10, <2>2 DEF PutPayload, Fault, States, Settled
  <2>3. QED
    BY <1>10, <2>1, <2>2 DEF PutPayload
<1>11. ASSUME NEW w \in Processes, Accept(w) PROVE HandTypes' /\ HandsAreFull'
  <2>1. PICK c \in File : /\ copy' = [copy EXCEPT ![w] = c]
                          /\ c.state \in Settled => c.job # NoJob
    <3>1. answer[w] \in JobIds /\ copy[w] \in File
      BY <1>0, <1>11 DEF Accept, HandTypes, HandsAreFull, Answered
    <3>2. [copy[w] EXCEPT !.state = "FAILED"] \in File
          /\ [copy[w] EXCEPT !.state = "FAILED"].state \notin Settled
      BY <3>1 DEF File, States, Settled
    <3>3. [state |-> "ACTIVE", job |-> answer[w]] \in File
      BY <3>1 DEF File, States
    <3>4. QED
      BY <1>11, <3>1, <3>2, <3>3 DEF Accept
  <2>2. HandTypes'
    BY <1>0, <1>11, <2>1 DEF Accept, HandTypes, Steps
  <2>3. QED
    BY <1>0, <1>11, <2>1, <2>2
    DEF Accept, HandTypes, HandsAreFull, Polling, Answered, Importing, Id
<1>12. ASSUME NEW w \in Processes, Save(w) \/ FinishImport(w) PROVE HandTypes' /\ HandsAreFull'
  BY <1>2, <1>12 DEF Save, FinishImport
<1>13. ASSUME NEW w \in Processes, AskStatus(w) PROVE HandTypes' /\ HandsAreFull'
  <2>0. copy[w] \in File /\ copy[w].job # NoJob /\ pc[w] = "status"
    BY <1>0, <1>13 DEF AskStatus, HandTypes, HandsAreFull, Polling
  <2>1. CASE \E state \in States : Conclude(w, state)
    BY <1>3, <1>13, <2>0, <2>1 DEF AskStatus, Fault
  <2>2. CASE ~\E state \in States : Conclude(w, state)
    <3>1. PICK state \in States, step \in {"result", "save"} :
            /\ copy' = [copy EXCEPT ![w].state = state]
            /\ pc' = [pc EXCEPT ![w] = step]
            /\ UNCHANGED <<cur, answer, result, flaw, item, bounds>>
      BY <1>0, <1>13, <2>0, <2>2 DEF AskStatus, SharedTypes, Job, File, States
    <3>2. HandTypes'
      BY <1>0, <3>1 DEF HandTypes, Steps, File
    <3>3. /\ copy'[w].job = copy[w].job
          /\ \A x \in Processes \ {w} : copy'[x] = copy[x]
      BY <1>0, <3>1 DEF HandTypes, File
    <3>4. QED
      BY <1>0, <1>13, <2>0, <3>1, <3>2, <3>3
      DEF AskStatus, HandTypes, HandsAreFull, Answered, Importing, Id
  <2>3. QED
    BY <2>1, <2>2
<1>14. ASSUME NEW w \in Processes, FetchResult(w) PROVE HandTypes' /\ HandsAreFull'
  <2>0. copy[w] \in File /\ copy[w].job # NoJob /\ pc[w] = "result"
    BY <1>0, <1>14 DEF FetchResult, HandTypes, HandsAreFull, Polling
  <2>1. CASE \E state \in {"REJECTED", "COMPLETE"} : Conclude(w, state)
    BY <1>3, <1>14, <2>0, <2>1 DEF FetchResult, Fault, States
  <2>2. CASE ~\E state \in {"REJECTED", "COMPLETE"} : Conclude(w, state)
    <3>1. PICK r \in Requests, f \in Flaws \cup {"none"} :
            /\ answer' = [answer EXCEPT ![w] = copy[w].job]
            /\ result' = [result EXCEPT ![w] = r]
            /\ flaw' = [flaw EXCEPT ![w] = f]
            /\ pc' = [pc EXCEPT ![w] = "import"]
            /\ UNCHANGED <<cur, copy, item, crew, sidecars>>
      BY <1>0, <1>14, <2>0, <2>2 DEF FetchResult, Fault, SharedTypes, Job, File
    <3>2. HandTypes'
      BY <1>0, <2>0, <3>1 DEF HandTypes, Steps, File
    <3>3. QED
      BY <1>0, <2>0, <3>1, <3>2
      DEF HandTypes, HandsAreFull, Polling, Answered, Importing, Id, File
  <2>3. QED
    BY <2>1, <2>2
<1>15. ASSUME NEW w \in Processes, BeginImport(w) PROVE HandTypes' /\ HandsAreFull'
  <2>1. CASE Conclude(w, "REJECTED")
    BY <1>3, <1>15, <2>1 DEF BeginImport, States, Settled
  <2>2. CASE ~Conclude(w, "REJECTED")
    BY <1>4, <1>15, <2>2 DEF BeginImport, Steps, Polling, Answered, Importing
  <2>3. QED
    BY <2>1, <2>2
<1>16. ASSUME NEW w \in Processes, LookUp(w) PROVE HandTypes' /\ HandsAreFull'
  <2>1. CASE Id(w) \in sidecars
    <3>1. /\ item' = [item EXCEPT ![w] = @ + 1] /\ pc[w] = "observations"
          /\ UNCHANGED <<pc, cur, copy, answer, result, flaw, sidecars, crew>>
      BY <1>16, <2>1 DEF LookUp
    <3>2. item[w] + 1 \in 1..Scanners + 1
      BY <1>0, <1>a, <1>16 DEF LookUp, Items
    <3>3. HandTypes'
      BY <1>0, <3>1, <3>2 DEF HandTypes
    <3>4. QED
      BY <1>0, <3>1, <3>3 DEF HandTypes, HandsAreFull, Id
  <2>2. CASE Id(w) \notin sidecars
    BY <1>4, <1>16, <2>2 DEF LookUp, Steps, Polling, Answered, Importing
  <2>3. QED
    BY <2>1, <2>2
<1>17. ASSUME NEW w \in Processes, WriteSidecar(w) PROVE HandTypes' /\ HandsAreFull'
  <2>1. item[w] \in Items
    BY <1>17 DEF WriteSidecar, HandsAreFull
  <2>2. QED
    BY <1>4, <1>17, <2>1 DEF WriteSidecar, Steps, Polling, Answered, Importing
<1>18. ASSUME NEW w \in Processes, InsertRow(w) PROVE HandTypes' /\ HandsAreFull'
  <2>1. CASE Conclude(w, "REJECTED")
    BY <1>3, <1>18, <2>1 DEF InsertRow, States, Settled
  <2>2. CASE ~Conclude(w, "REJECTED")
    <3>1. /\ item' = [item EXCEPT ![w] = @ + 1] /\ pc[w] = "row"
          /\ pc' = [pc EXCEPT ![w] = "observations"]
          /\ UNCHANGED <<cur, copy, answer, result, flaw, sidecars, crew>>
      BY <1>18, <2>2 DEF InsertRow
    <3>2. item[w] + 1 \in 1..Scanners + 1
      BY <1>0, <1>a, <3>1 DEF HandsAreFull, Items
    <3>3. HandTypes'
      BY <1>0, <3>1, <3>2 DEF HandTypes, Steps
    <3>4. QED
      BY <1>0, <3>1, <3>3 DEF HandTypes, HandsAreFull, Polling, Answered, Importing, Id
  <2>3. QED
    BY <2>1, <2>2
<1>19. ASSUME NEW w \in Processes, ImportFails(w) PROVE HandTypes' /\ HandsAreFull'
  BY <1>3, <1>19 DEF ImportFails, Fault, States, Settled
<1>20. ASSUME NEW w \in Processes, Cancel(w) PROVE HandTypes' /\ HandsAreFull'
  <2>1. CASE Return(w)
    BY <1>2, <1>20, <2>1 DEF Cancel, Fault
  <2>2. CASE Conclude(w, "CANCELLED")
    BY <1>3, <1>20, <2>2 DEF Cancel, Fault, States, Settled
  <2>3. QED
    BY <1>20, <2>1, <2>2 DEF Cancel
<1>21. ASSUME NEW w \in Processes, Crash(w) PROVE HandTypes' /\ HandsAreFull'
  BY <1>2, <1>21 DEF Crash, Fault
<1>22. CASE RebuildIndex \/ Reset \/ (\E j \in JobIds : Analyse(j)) \/ UNCHANGED vars
  BY <1>1, <1>22 DEF RebuildIndex, Reset, Analyse, vars
<1>23. QED
  BY <1>6, <1>7, <1>8, <1>9, <1>10, <1>11, <1>12, <1>13, <1>14, <1>15, <1>16, <1>17,
     <1>18, <1>19, <1>20, <1>21, <1>22
  DEF Next, Step

-----------------------------------------------------------------------------
(* What one step does to each part of the shared state.                    *)

(* Request files are written by Create, Save and FinishImport only.        *)
LEMMA FileFrame ==
    [Next]_vars => \/ file' = file
                   \/ \E w \in Processes : Create(w) \/ Save(w) \/ FinishImport(w)
BY DEF Next, vars, Step, PostJob, PutPayload, Accept, AskStatus, FetchResult, BeginImport,
       LookUp, WriteSidecar, InsertRow, Cancel, ImportFails, Crash, StartSubmit, StartPoll,
       StartCancel, Analyse, Reset, RebuildIndex

(* Sidecars are written by WriteSidecar, rows by InsertRow and the rebuild. *)
LEMMA StoreFrame ==
    [Next]_vars =>
      \/ UNCHANGED <<sidecars, rows>> /\ cut \subseteq cut'
      \/ RebuildIndex
      \/ \E w \in Processes : WriteSidecar(w) \/ InsertRow(w)
<1>1. ASSUME NEW w \in Processes, Step(w), ~WriteSidecar(w), ~InsertRow(w)
      PROVE  UNCHANGED <<sidecars, rows, cut>>
  BY <1>1 DEF store, Step, Create, PostJob, PutPayload, Accept, Save, AskStatus, FetchResult,
              BeginImport, LookUp, FinishImport, Cancel
<1>2. ASSUME NEW w \in Processes, ImportFails(w) \/ Crash(w)
      PROVE  UNCHANGED <<sidecars, rows>> /\ cut \subseteq cut'
  BY <1>2 DEF ImportFails, Crash
<1>3. ASSUME NEW w \in Processes, NEW r \in Requests,
             StartSubmit(w, r) \/ StartPoll(w, r) \/ StartCancel(w, r)
      PROVE  UNCHANGED <<sidecars, rows, cut>>
  BY <1>3 DEF store, StartSubmit, StartPoll, StartCancel
<1>4. CASE Reset \/ (\E j \in JobIds : Analyse(j)) \/ UNCHANGED vars
  BY <1>4 DEF vars, store, Reset, Analyse
<1>5. QED
  BY <1>1, <1>2, <1>3, <1>4 DEF Next

(* Nothing removes a sidecar.                                              *)
LEMMA SidecarsGrow == [Next]_vars => sidecars \subseteq sidecars'
BY StoreFrame DEF RebuildIndex, WriteSidecar, InsertRow

(* The crew stays; only Reset counts as one.                               *)
LEMMA BoundsFrame ==
    [Next]_vars => crew' = crew /\ (Reset \/ resets' = resets)
<1> USE DEF bounds
<1>1. ASSUME NEW w \in Processes, Step(w)
      PROVE  crew' = crew /\ resets' = resets
  BY <1>1 DEF Step, Create, PostJob, PutPayload, Accept, Save, AskStatus, FetchResult,
              BeginImport, LookUp, WriteSidecar, InsertRow, FinishImport, Cancel, Fault
<1>2. ASSUME NEW w \in Processes, ImportFails(w) \/ Crash(w)
      PROVE  crew' = crew /\ resets' = resets
  BY <1>2 DEF ImportFails, Crash, Fault
<1>3. ASSUME NEW w \in Processes, NEW r \in Requests,
             StartSubmit(w, r) \/ StartPoll(w, r) \/ StartCancel(w, r)
      PROVE  crew' = crew /\ resets' = resets
  BY <1>3 DEF StartSubmit, StartPoll, StartCancel
<1>4. CASE Reset \/ RebuildIndex \/ (\E j \in JobIds : Analyse(j)) \/ UNCHANGED vars
  BY <1>4 DEF vars, RebuildIndex, Reset, Analyse
<1>5. QED
  BY <1>1, <1>2, <1>3, <1>4 DEF Next

(* A job is made by PostJob and changed by the steps below; the others     *)
(* leave the provider alone.                                               *)
LEMMA JobsFrame ==
    [Next]_vars => \/ jobs' = jobs
                   \/ Reset
                   \/ \E j \in JobIds : Analyse(j)
                   \/ \E w \in Processes : PostJob(w) \/ PutPayload(w) \/ Cancel(w)
BY DEF Next, vars, Step, Create, Accept, Save, AskStatus, FetchResult, BeginImport,
       LookUp, WriteSidecar, InsertRow, FinishImport, ImportFails, Crash, StartSubmit,
       StartPoll, StartCancel, RebuildIndex

(* Unless the provider loses its database, a job stays and stays the job   *)
(* of the request it was made for.                                         *)
LEMMA JobsStay ==
    ASSUME TypeOK, [Next]_vars, ~Reset, NEW j \in JobIds, NEW r, MadeFor(j, r)
    PROVE  MadeFor(j, r)'
<1>0. jobs \in [JobIds -> Job \cup {NoJob}] /\ NoJob \notin Job
  BY SentinelsAssumption DEF TypeOK
<1>1. ASSUME NEW k \in JobIds, Analyse(k) PROVE MadeFor(j, r)'
  BY <1>0, <1>1 DEF Analyse, MadeFor, Job
<1>2. ASSUME NEW w \in Processes, PostJob(w) PROVE MadeFor(j, r)'
  BY <1>0, <1>2 DEF PostJob, Free, MadeFor, Job
<1>3. ASSUME NEW w \in Processes, PutPayload(w) PROVE MadeFor(j, r)'
  <2>1. jobs' = jobs \/ jobs' = [jobs EXCEPT ![answer[w]].payload = TRUE]
    BY <1>3 DEF PutPayload
  <2>2. jobs[j] \in Job /\ jobs[j].request = r
    BY <1>0 DEF MadeFor
  <2>3. [jobs[j] EXCEPT !.payload = TRUE] \in Job
    BY <2>2 DEF Job
  <2>4. [jobs[j] EXCEPT !.payload = TRUE].request = r
    BY <2>2 DEF Job
  <2>5. jobs'[j] \in {jobs[j], [jobs[j] EXCEPT !.payload = TRUE]}
    BY <1>0, <2>1
  <2>6. QED
    BY <1>0, <2>2, <2>3, <2>4, <2>5 DEF MadeFor
<1>4. ASSUME NEW w \in Processes, Cancel(w) PROVE MadeFor(j, r)'
  BY <1>0, <1>4 DEF Cancel, MadeFor, Job
<1>5. QED
  BY <1>1, <1>2, <1>3, <1>4, JobsFrame DEF MadeFor

-----------------------------------------------------------------------------
(* A provider's job keeps its type, whatever is done to it.                *)
LEMMA JobsTyped ==
    ASSUME TypeOK, HandsAreFull, [Next]_vars
    PROVE  jobs' \in [JobIds -> Job \cup {NoJob}]
<1>0. jobs \in [JobIds -> Job \cup {NoJob}] /\ NoJob \notin Job
  BY SentinelsAssumption DEF TypeOK
<1>1. ASSUME NEW j \in JobIds, NEW status \in {"COMPLETE", "FAILED", "EXPIRED", "CANCELLED"},
             jobs[j] # NoJob, jobs' = [jobs EXCEPT ![j].status = status]
      PROVE  jobs' \in [JobIds -> Job \cup {NoJob}]
  <2>1. [jobs[j] EXCEPT !.status = status] \in Job
    BY <1>0, <1>1 DEF Job
  <2>2. QED
    BY <1>0, <1>1, <2>1
<1>2. ASSUME NEW j \in JobIds, Analyse(j) PROVE jobs' \in [JobIds -> Job \cup {NoJob}]
  BY <1>1, <1>2 DEF Analyse
<1>3. ASSUME NEW w \in Processes, PostJob(w), jobs' # jobs
      PROVE  jobs' \in [JobIds -> Job \cup {NoJob}]
  <2>1. cur[w] \in Requests
    BY <1>3 DEF PostJob, HandsAreFull
  <2>2. PICK j \in JobIds : jobs' = [jobs EXCEPT ![j] = [request |-> cur[w], payload |-> FALSE,
                                                         status |-> "ACTIVE"]]
    BY <1>3 DEF PostJob, Free
  <2>3. [request |-> cur[w], payload |-> FALSE, status |-> "ACTIVE"] \in Job
    BY <2>1 DEF Job
  <2>4. QED
    BY <1>0, <2>2, <2>3
<1>4. ASSUME NEW w \in Processes, PutPayload(w), jobs' # jobs
      PROVE  jobs' \in [JobIds -> Job \cup {NoJob}]
  <2>1. answer[w] \in JobIds /\ jobs[answer[w]] # NoJob
        /\ jobs' = [jobs EXCEPT ![answer[w]].payload = TRUE]
    BY <1>4 DEF PutPayload, HandsAreFull, Answered
  <2>2. [jobs[answer[w]] EXCEPT !.payload = TRUE] \in Job
    BY <1>0, <2>1 DEF Job
  <2>3. QED
    BY <1>0, <2>1, <2>2
<1>5. ASSUME NEW w \in Processes, Cancel(w), jobs' # jobs
      PROVE  jobs' \in [JobIds -> Job \cup {NoJob}]
  <2>1. copy[w].job \in JobIds
    BY <1>5 DEF Cancel, TypeOK, File
  <2>2. QED
    BY <1>1, <1>5, <2>1 DEF Cancel
<1>6. CASE Reset
  BY <1>6 DEF Reset
<1>7. QED
  BY <1>0, <1>2, <1>3, <1>4, <1>5, <1>6, JobsFrame

(* What the processes share keeps its type.                                *)
LEMMA SharedPreserved == TypeOK /\ HandsAreFull /\ [Next]_vars => SharedTypes'
<1> SUFFICES ASSUME TypeOK, HandsAreFull, [Next]_vars PROVE SharedTypes'
  OBVIOUS
<1>0. HandTypes /\ SharedTypes /\ New \in File /\ New.state \notin Settled
  BY TypesSplit DEF New, File, States, Settled
<1> USE SentinelsAssumption
<1>1. file' \in [Requests -> File \cup {NoFile}]
      /\ \A r \in Requests : file'[r] # NoFile /\ file'[r].state \in Settled => file'[r].job # NoJob
  <2>1. ASSUME NEW r \in Requests, NEW f \in File, file' = [file EXCEPT ![r] = f],
               f.state \in Settled => f.job # NoJob
        PROVE  <1>1!1 /\ <1>1!2
    BY <1>0, <2>1 DEF SharedTypes
  <2>2. ASSUME NEW w \in Processes, Create(w) PROVE <1>1!1 /\ <1>1!2
    BY <1>0, <2>1, <2>2 DEF Create, HandsAreFull
  <2>3. ASSUME NEW w \in Processes, Save(w) PROVE <1>1!1 /\ <1>1!2
    BY <1>0, <2>1, <2>3 DEF Save, HandTypes, HandsAreFull
  <2>4. ASSUME NEW w \in Processes, FinishImport(w) PROVE <1>1!1 /\ <1>1!2
    <3>1. cur[w] \in Requests /\ answer[w] \in JobIds
      BY <2>4 DEF FinishImport, HandsAreFull, Answered, Importing
    <3>2. [state |-> "IMPORTED", job |-> answer[w]] \in File
      BY <3>1 DEF File, States
    <3>3. QED
      BY <2>1, <2>4, <3>1, <3>2 DEF FinishImport
  <2>5. CASE file' = file
    BY <1>0, <2>5 DEF SharedTypes
  <2>6. QED
    BY <2>2, <2>3, <2>4, <2>5, FileFrame
<1>2. sidecars' \subseteq ObservationIds
  <2>1. ASSUME NEW w \in Processes, WriteSidecar(w) PROVE sidecars' \subseteq ObservationIds
    BY <1>0, <2>1 DEF WriteSidecar, HandsAreFull, Answered, Importing, SharedTypes, Id, ObservationIds
  <2>2. QED
    BY <1>0, <2>1, StoreFrame DEF RebuildIndex, InsertRow, SharedTypes
<1>3. rows' \subseteq sidecars'
  <2>1. ASSUME NEW w \in Processes, InsertRow(w) PROVE rows' \subseteq sidecars'
    BY <1>0, <2>1 DEF InsertRow, HandsAreFull, SharedTypes
  <2>2. QED
    BY <1>0, <2>1, StoreFrame DEF RebuildIndex, WriteSidecar, SharedTypes
<1>4. cut' \subseteq ObservationIds
  <2>1. ASSUME NEW w \in Processes, ImportFails(w) \/ Crash(w)
        PROVE  cut' \subseteq ObservationIds
    <3>1. pc[w] = "row" => Id(w) \in ObservationIds
      BY <1>0 DEF HandsAreFull, Answered, Importing, SharedTypes, Id, ObservationIds
    <3>2. QED
      BY <1>0, <2>1, <3>1 DEF ImportFails, Crash, SharedTypes
  <2>2. ASSUME NEW w \in Processes, Step(w) PROVE cut' = cut
    BY <2>2 DEF store, Step, Create, PostJob, PutPayload, Accept, Save, AskStatus,
                FetchResult, BeginImport, LookUp, WriteSidecar, InsertRow, FinishImport, Cancel
  <2>3. ASSUME NEW w \in Processes, NEW r \in Requests,
               StartSubmit(w, r) \/ StartPoll(w, r) \/ StartCancel(w, r)
        PROVE  cut' = cut
    BY <2>3 DEF store, StartSubmit, StartPoll, StartCancel
  <2>4. CASE Reset \/ RebuildIndex \/ (\E j \in JobIds : Analyse(j)) \/ UNCHANGED vars
    BY <1>0, <2>4 DEF vars, store, Reset, Analyse, RebuildIndex, SharedTypes
  <2>5. QED
    BY <1>0, <2>1, <2>2, <2>3, <2>4 DEF Next, SharedTypes
<1>5. faults' \in 0..MaxFaults
  <2>0. faults \in 0..MaxFaults /\ MaxFaults \in Nat
    BY <1>0, BoundsAssumption DEF SharedTypes
  <2>1. faults' = faults \/ Fault
    <3>1. ASSUME NEW w \in Processes, Step(w) PROVE faults' = faults \/ Fault
      BY <3>1 DEF bounds, Step, Create, PostJob, PutPayload, Accept, Save, AskStatus,
                  FetchResult, BeginImport, LookUp, WriteSidecar, InsertRow, FinishImport, Cancel
    <3>2. ASSUME NEW w \in Processes, NEW r \in Requests,
                 StartSubmit(w, r) \/ StartPoll(w, r) \/ StartCancel(w, r)
          PROVE  faults' = faults
      BY <3>2 DEF bounds, StartSubmit, StartPoll, StartCancel
    <3>3. CASE Reset \/ RebuildIndex \/ (\E j \in JobIds : Analyse(j)) \/ UNCHANGED vars
      BY <3>3 DEF vars, bounds, Reset, Analyse, RebuildIndex
    <3>4. QED
      BY <3>1, <3>2, <3>3 DEF Next, ImportFails, Crash
  <2>2. QED
    BY <2>0, <2>1 DEF Fault
<1>6. resets' \in 0..MaxResets /\ crew' \in Crews
  <2>0. resets \in 0..MaxResets /\ MaxResets \in Nat /\ crew \in Crews
    BY <1>0, BoundsAssumption DEF SharedTypes
  <2>1. QED
    BY <2>0, BoundsFrame DEF Reset
<1>7. QED
  BY <1>1, <1>2, <1>3, <1>4, <1>5, <1>6, JobsTyped DEF SharedTypes

-----------------------------------------------------------------------------
(* What one step does to what a command has in hand.                       *)

Act(w) ==
    \/ Step(w) \/ ImportFails(w) \/ Crash(w)
    \/ \E r \in Requests : StartSubmit(w, r) \/ StartPoll(w, r) \/ StartCancel(w, r)

Waits(w) ==
    /\ pc'[w] = pc[w] /\ cur'[w] = cur[w] /\ copy'[w] = copy[w]
    /\ answer'[w] = answer[w] /\ item'[w] = item[w]

(* Where the copy comes from: it stays the same request's, with its job; it *)
(* is a new request or the file read; or Accept puts the job in.           *)
CopyMoves(w) ==
    \/ /\ pc[w] \notin Reading
       /\ cur'[w] = cur[w] /\ copy'[w].job = copy[w].job
       /\ copy'[w].state = "IMPORTED" => copy[w].state = "IMPORTED"
    \/ copy'[w] = New
    \/ pc'[w] \in Reading /\ copy'[w] = copy[w]
    \/ /\ cur'[w] \in Requests /\ file[cur'[w]] # NoFile
       /\ copy'[w] = file[cur'[w]]
    \/ /\ pc[w] = "accept" /\ ~Replayed(cur[w], answer[w])
       /\ cur'[w] = cur[w] /\ copy'[w] = [state |-> "ACTIVE", job |-> answer[w]]

(* Where the answer comes from: the job just made, or the one polled.      *)
AnswerMoves(w) == pc'[w] \in Answered =>
    /\ cur'[w] = cur[w]
    /\ \/ pc[w] \in Answered /\ answer'[w] = answer[w]
       \/ pc[w] = "post" /\ pc'[w] = "put" /\ jobs'[answer'[w]] # NoJob
          /\ jobs'[answer'[w]].request = cur[w]
       \/ pc[w] = "result" /\ pc'[w] = "import" /\ answer'[w] = copy[w].job

(* An import starts with a job that no other request names.                *)
ImportMoves(w) == pc'[w] \in Importing =>
    /\ answer'[w] = answer[w] /\ cur'[w] = cur[w]
    /\ pc[w] \in Importing \/ (pc[w] = "import" /\ ~Replayed(cur[w], answer[w]))

(* It goes on to the next observation when this one has its sidecar.       *)
ItemMoves(w) ==
    \/ item'[w] = 1
    \/ /\ pc[w] \in Importing /\ pc'[w] \in Importing \cup {"save"}
       /\ \/ item'[w] = item[w]
          \/ item'[w] = item[w] + 1 /\ Id(w) \in sidecars

Moves(w) == CopyMoves(w) /\ AnswerMoves(w) /\ ImportMoves(w) /\ ItemMoves(w)

(* The other commands are not touched by an action of w.                   *)
LEMMA OthersWait ==
    ASSUME TypeOK, NEW w \in Processes, Act(w), NEW x \in Processes \ {w}
    PROVE  Waits(x)
<1>0. HandTypes
  BY TypesSplit
<1> USE DEF local, Goto
<1>1. ASSUME Conclude(w, "PENDING_PROVIDER") \/ Conclude(w, "FAILED") \/ Conclude(w, "REJECTED")
             \/ Conclude(w, "COMPLETE") \/ Conclude(w, "CANCELLED") \/ Conclude(w, copy[w].state)
      PROVE  Waits(x)
  BY <1>0, <1>1 DEF Conclude, Waits, HandTypes
<1>2. ASSUME Return(w) PROVE Waits(x)
  BY <1>0, <1>2 DEF Return, Waits, HandTypes
<1>3. ASSUME Create(w) \/ Accept(w) PROVE Waits(x)
  BY <1>0, <1>3 DEF Create, Accept, Waits, HandTypes
<1>4. ASSUME PostJob(w) PROVE Waits(x)
  BY <1>0, <1>1, <1>4 DEF PostJob, Waits, HandTypes
<1>5. ASSUME PutPayload(w) PROVE Waits(x)
  BY <1>0, <1>1, <1>5 DEF PutPayload, Waits, HandTypes
<1>6. ASSUME Save(w) \/ FinishImport(w) \/ Crash(w) PROVE Waits(x)
  BY <1>2, <1>6 DEF Save, FinishImport, Crash
<1>7. ASSUME AskStatus(w) PROVE Waits(x)
  BY <1>0, <1>1, <1>7 DEF AskStatus, Waits, HandTypes
<1>8. ASSUME FetchResult(w) PROVE Waits(x)
  BY <1>0, <1>1, <1>8 DEF FetchResult, Waits, HandTypes
<1>9. ASSUME BeginImport(w) \/ ImportFails(w) \/ Cancel(w) PROVE Waits(x)
  BY <1>0, <1>1, <1>2, <1>9 DEF BeginImport, ImportFails, Cancel, Waits, HandTypes
<1>10. ASSUME LookUp(w) \/ WriteSidecar(w) \/ InsertRow(w) PROVE Waits(x)
  BY <1>0, <1>1, <1>10 DEF LookUp, WriteSidecar, InsertRow, Waits, HandTypes
<1>11. ASSUME NEW r \in Requests, StartSubmit(w, r) \/ StartPoll(w, r) \/ StartCancel(w, r)
       PROVE  Waits(x)
  BY <1>0, <1>11 DEF StartSubmit, StartPoll, StartCancel, Waits, HandTypes
<1>12. QED
  BY <1>3, <1>4, <1>5, <1>6, <1>7, <1>8, <1>9, <1>10, <1>11 DEF Act, Step

(* How the acting command moves.                                           *)
LEMMA ActorMoves ==
    ASSUME TypeOK, HandsAreFull, CopiesHaveEvidence, NEW w \in Processes, Act(w)
    PROVE  Moves(w)
<1>0. /\ HandTypes /\ SharedTypes /\ copy[w] \in File
      /\ pc[w] \notin Importing \cup {"save"} => item[w] = 1
      /\ pc[w] = "row" => Id(w) \in sidecars
  BY TypesSplit DEF HandTypes, HandsAreFull, CopiesHaveEvidence, CopyHasEvidence
<1> USE DEF local, Goto
<1>1. ASSUME NEW state \in States, Conclude(w, state), pc[w] \notin Reading,
             state = "IMPORTED" => copy[w].state = "IMPORTED", pc[w] # "save"
      PROVE  Moves(w)
  <2>1. /\ pc'[w] = "save" /\ cur'[w] = cur[w] /\ item'[w] = item[w]
        /\ copy'[w].job = copy[w].job /\ copy'[w].state = state
    BY <1>0, <1>1 DEF Conclude, HandTypes, File
  <2>2. QED
    BY <1>0, <1>1, <2>1
    DEF Moves, CopyMoves, AnswerMoves, ImportMoves, ItemMoves, Answered, Importing
<1>2. ASSUME Return(w) PROVE Moves(w)
  BY <1>0, <1>2 DEF Return, HandTypes, Moves, CopyMoves, AnswerMoves, ImportMoves, ItemMoves,
                    Answered, Importing
<1>3. ASSUME NEW step, pc' = [pc EXCEPT ![w] = step], UNCHANGED local,
             pc[w] \notin Reading, pc[w] # "save", step # "import",
             step \in Answered => pc[w] \in Answered,
             step \in Importing => pc[w] \in Importing
               \/ (pc[w] = "import" /\ ~Replayed(cur[w], answer[w])),
             pc[w] \in Importing => step \in Importing
      PROVE  Moves(w)
  <2>1. /\ pc'[w] = step /\ cur'[w] = cur[w] /\ item'[w] = item[w]
        /\ copy'[w] = copy[w] /\ answer'[w] = answer[w]
    BY <1>0, <1>3 DEF HandTypes
  <2>2. CopyMoves(w) /\ AnswerMoves(w) /\ ImportMoves(w)
    BY <1>3, <2>1 DEF CopyMoves, AnswerMoves, ImportMoves
  <2>3. CASE pc[w] \notin Importing
    BY <1>0, <1>3, <2>1, <2>2, <2>3 DEF Moves, ItemMoves
  <2>4. CASE pc[w] \in Importing
    BY <1>3, <2>1, <2>2, <2>4 DEF Moves, ItemMoves
  <2>5. QED
    BY <2>3, <2>4
<1>4. ASSUME NEW r \in Requests, StartSubmit(w, r) PROVE Moves(w)
  <2>1. /\ pc[w] = "idle" /\ pc'[w] \in {"create", "post"} /\ cur'[w] = r /\ item'[w] = 1
        /\ \/ pc'[w] = "create" /\ copy'[w] = copy[w]
           \/ file[r] # NoFile /\ copy'[w] = file[r]
    BY <1>0, <1>4 DEF StartSubmit, MayStart, HandTypes, Importing
  <2>2. QED
    BY <2>1 DEF Moves, CopyMoves, AnswerMoves, ImportMoves, ItemMoves, Answered, Importing, Reading
<1>5. ASSUME NEW r \in Requests, StartPoll(w, r) \/ StartCancel(w, r) PROVE Moves(w)
  <2>1. /\ pc[w] = "idle" /\ pc'[w] \in {"status", "cancel"} /\ cur'[w] = r /\ item'[w] = 1
        /\ file[r] # NoFile /\ copy'[w] = file[r]
    BY <1>0, <1>5 DEF StartPoll, StartCancel, MayStart, HandTypes, Importing
  <2>2. QED
    BY <2>1 DEF Moves, CopyMoves, AnswerMoves, ImportMoves, ItemMoves, Answered, Importing
<1>6. ASSUME Create(w) PROVE Moves(w)
  <2>1. /\ pc[w] = "create" /\ pc'[w] = "post" /\ copy'[w] = New /\ item'[w] = 1
    BY <1>0, <1>6 DEF Create, HandTypes, Importing
  <2>2. QED
    BY <2>1 DEF Moves, CopyMoves, AnswerMoves, ImportMoves, ItemMoves, Answered, Importing
<1>7. ASSUME PostJob(w) PROVE Moves(w)
  <2>1. CASE \E state \in {"PENDING_PROVIDER", "FAILED"} : Conclude(w, state)
    BY <1>1, <1>7, <2>1 DEF PostJob, States, Reading
  <2>2. CASE UNCHANGED <<pc, local>>
    BY <1>3, <1>7, <2>2, <1>0 DEF PostJob, HandTypes, Answered, Importing, Reading
  <2>3. CASE \E j \in JobIds : /\ answer' = [answer EXCEPT ![w] = j]
                               /\ jobs' = [jobs EXCEPT ![j] = [request |-> cur[w],
                                             payload |-> FALSE, status |-> "ACTIVE"]]
                               /\ Goto(w, "put")
                               /\ UNCHANGED <<cur, copy, result, flaw, item, bounds>>
    <3>1. PICK j \in JobIds : /\ answer' = [answer EXCEPT ![w] = j]
                              /\ jobs' = [jobs EXCEPT ![j] = [request |-> cur[w],
                                            payload |-> FALSE, status |-> "ACTIVE"]]
                              /\ Goto(w, "put")
                              /\ UNCHANGED <<cur, copy, result, flaw, item, bounds>>
      BY <2>3
    <3>2. /\ pc[w] = "post" /\ pc'[w] = "put" /\ cur'[w] = cur[w] /\ copy'[w] = copy[w]
          /\ item'[w] = 1 /\ answer'[w] = j
      BY <1>0, <1>7, <3>1 DEF PostJob, HandTypes, Importing
    <3>3. jobs'[j] # NoJob /\ jobs'[j].request = cur[w]
      <4>1. cur[w] \in Requests
        BY <3>2 DEF HandsAreFull
      <4>2. [request |-> cur[w], payload |-> FALSE, status |-> "ACTIVE"] \in Job
        BY <4>1 DEF Job
      <4>3. jobs'[j] = [request |-> cur[w], payload |-> FALSE, status |-> "ACTIVE"]
        BY <1>0, <3>1 DEF SharedTypes
      <4>4. [request |-> cur[w], payload |-> FALSE, status |-> "ACTIVE"].request = cur[w]
        OBVIOUS
      <4>5. QED
        BY <4>2, <4>3, <4>4, SentinelsAssumption
    <3>4. QED
      BY <3>2, <3>3
      DEF Moves, CopyMoves, AnswerMoves, ImportMoves, ItemMoves, Importing, Reading
  <2>4. QED
    BY <1>7, <2>1, <2>2, <2>3 DEF PostJob, Free
<1>8. ASSUME PutPayload(w) PROVE Moves(w)
  <2>1. CASE \E state \in {"PENDING_PROVIDER", "FAILED"} : Conclude(w, state)
    BY <1>1, <1>8, <2>1 DEF PutPayload, States, Reading
  <2>2. CASE Goto(w, "accept") /\ UNCHANGED local
    BY <1>3, <1>8, <2>2 DEF PutPayload, Answered, Importing, Reading
  <2>3. QED
    BY <1>8, <2>1, <2>2 DEF PutPayload
<1>9. ASSUME Accept(w) PROVE Moves(w)
  <2>1. /\ pc[w] = "accept" /\ pc'[w] = "save" /\ cur'[w] = cur[w] /\ item'[w] = 1
    BY <1>0, <1>9 DEF Accept, HandTypes, Importing
  <2>2. AnswerMoves(w) /\ ImportMoves(w) /\ ItemMoves(w)
    BY <2>1 DEF AnswerMoves, ImportMoves, ItemMoves, Answered, Importing
  <2>3. CASE Replayed(cur[w], answer[w])
    <3>1. copy'[w] = [copy[w] EXCEPT !.state = "FAILED"]
      BY <1>0, <1>9, <2>3 DEF Accept, HandTypes
    <3>2. copy'[w].job = copy[w].job /\ copy'[w].state = "FAILED"
      BY <1>0, <3>1 DEF File
    <3>3. QED
      BY <2>1, <2>2, <3>2 DEF Moves, CopyMoves, Reading
  <2>4. CASE ~Replayed(cur[w], answer[w])
    <3>1. copy'[w] = [state |-> "ACTIVE", job |-> answer[w]]
      BY <1>0, <1>9, <2>4 DEF Accept, HandTypes
    <3>2. QED
      BY <2>1, <2>2, <2>4, <3>1 DEF Moves, CopyMoves
  <2>5. QED
    BY <2>3, <2>4
<1>10. ASSUME Save(w) \/ FinishImport(w) \/ Crash(w) PROVE Moves(w)
  BY <1>2, <1>10 DEF Save, FinishImport, Crash
<1>11. ASSUME AskStatus(w) PROVE Moves(w)
  <2>0. pc[w] = "status" /\ copy[w].job # NoJob
    BY <1>11 DEF AskStatus, HandsAreFull, Polling
  <2>1. CASE Conclude(w, "REJECTED") \/ Conclude(w, copy[w].state)
    BY <1>0, <1>1, <2>0, <2>1 DEF File, States, Reading
  <2>2. CASE ~(Conclude(w, "REJECTED") \/ Conclude(w, copy[w].state))
    <3>1. PICK step \in {"result", "save"} :
            /\ jobs[copy[w].job] # NoJob
            /\ copy' = [copy EXCEPT ![w].state = jobs[copy[w].job].status]
            /\ pc' = [pc EXCEPT ![w] = step]
            /\ UNCHANGED <<cur, answer, result, flaw, item>>
      BY <1>11, <2>2 DEF AskStatus
    <3>2. jobs[copy[w].job] \in Job
      BY <1>0, <2>0, <3>1 DEF SharedTypes, File
    <3>3. /\ copy'[w].job = copy[w].job /\ copy'[w].state # "IMPORTED"
          /\ pc'[w] \in {"result", "save"} /\ cur'[w] = cur[w] /\ item'[w] = 1
      BY <1>0, <2>0, <3>1, <3>2 DEF Job, File, HandTypes, Importing
    <3>4. QED
      BY <2>0, <3>3
      DEF Moves, CopyMoves, AnswerMoves, ImportMoves, ItemMoves, Answered, Importing, Reading
  <2>3. QED
    BY <2>1, <2>2
<1>12. ASSUME FetchResult(w) PROVE Moves(w)
  <2>1. CASE Conclude(w, "REJECTED") \/ Conclude(w, "COMPLETE")
    BY <1>1, <1>12, <2>1 DEF FetchResult, States, Reading
  <2>2. CASE ~(Conclude(w, "REJECTED") \/ Conclude(w, "COMPLETE"))
    <3>1. /\ pc[w] = "result" /\ pc'[w] = "import" /\ cur'[w] = cur[w] /\ copy'[w] = copy[w]
          /\ item'[w] = 1 /\ answer'[w] = copy[w].job
      BY <1>0, <1>12, <2>2 DEF FetchResult, HandTypes, Importing
    <3>2. QED
      BY <3>1 DEF Moves, CopyMoves, AnswerMoves, ImportMoves, ItemMoves, Importing, Reading
  <2>3. QED
    BY <2>1, <2>2
<1>13. ASSUME BeginImport(w) PROVE Moves(w)
  <2>1. CASE Conclude(w, "REJECTED")
    BY <1>1, <1>13, <2>1 DEF BeginImport, States, Reading
  <2>2. CASE ~Conclude(w, "REJECTED")
    <3>1. pc[w] = "import" /\ Goto(w, "observations") /\ UNCHANGED local
          /\ ~Replayed(cur[w], answer[w])
      BY <1>13, <2>2 DEF BeginImport
    <3>2. QED
      BY <1>3, <3>1 DEF Answered, Importing, Reading
  <2>3. QED
    BY <2>1, <2>2
<1>14. ASSUME LookUp(w) \/ InsertRow(w), item' = [item EXCEPT ![w] = @ + 1],
              Goto(w, "observations"), Id(w) \in sidecars, UNCHANGED <<cur, copy, answer>>
       PROVE  Moves(w)
  <2>1. /\ pc[w] \in {"observations", "row"} /\ pc'[w] = "observations"
        /\ cur'[w] = cur[w] /\ copy'[w] = copy[w] /\ answer'[w] = answer[w]
        /\ item'[w] = item[w] + 1
    BY <1>0, <1>14 DEF LookUp, InsertRow, HandTypes
  <2>2. QED
    BY <1>14, <2>1
    DEF Moves, CopyMoves, AnswerMoves, ImportMoves, ItemMoves, Answered, Importing, Reading
<1>15. ASSUME LookUp(w) PROVE Moves(w)
  <2>1. CASE Id(w) \in sidecars
    BY <1>0, <1>14, <1>15, <2>1 DEF LookUp, HandTypes
  <2>2. CASE Id(w) \notin sidecars
    BY <1>3, <1>15, <2>2 DEF LookUp, Answered, Importing, Reading
  <2>3. QED
    BY <2>1, <2>2
<1>16. ASSUME WriteSidecar(w) PROVE Moves(w)
  BY <1>3, <1>16 DEF WriteSidecar, Answered, Importing, Reading
<1>17. ASSUME InsertRow(w) PROVE Moves(w)
  <2>1. CASE Conclude(w, "REJECTED")
    BY <1>1, <1>17, <2>1 DEF InsertRow, States, Reading
  <2>2. CASE ~Conclude(w, "REJECTED")
    BY <1>0, <1>14, <1>17, <2>2 DEF InsertRow
  <2>3. QED
    BY <2>1, <2>2
<1>18. ASSUME ImportFails(w) PROVE Moves(w)
  BY <1>1, <1>18 DEF ImportFails, States, Reading
<1>19. ASSUME Cancel(w) PROVE Moves(w)
  <2>1. CASE Conclude(w, "CANCELLED")
    BY <1>1, <1>19, <2>1 DEF Cancel, States, Reading
  <2>2. CASE ~Conclude(w, "CANCELLED")
    BY <1>2, <1>19, <2>2 DEF Cancel
  <2>3. QED
    BY <2>1, <2>2
<1>20. QED
  BY <1>4, <1>5, <1>6, <1>7, <1>8, <1>9, <1>10, <1>11, <1>12, <1>13, <1>15, <1>16, <1>17,
     <1>18, <1>19 DEF Act, Step

(* In a step each command waits or moves.                                  *)
LEMMA OneActs ==
    ASSUME TypeOK, HandsAreFull, CopiesHaveEvidence, [Next]_vars, NEW w \in Processes
    PROVE  Waits(w) \/ Moves(w)
<1>1. CASE \E x \in Processes : Act(x)
  BY <1>1, OthersWait, ActorMoves
<1>2. CASE Reset \/ RebuildIndex \/ (\E j \in JobIds : Analyse(j)) \/ UNCHANGED vars
  BY <1>2 DEF vars, local, Waits, Reset, RebuildIndex, Analyse
<1>3. QED
  BY <1>1, <1>2 DEF Next, Act

-----------------------------------------------------------------------------
(* Evidence.                                                               *)

(* Evidence is never taken away.                                           *)
LEMMA EvidenceStays ==
    ASSUME [Next]_vars, NEW j, Evidence(j) PROVE Evidence(j)'
BY SidecarsGrow DEF Evidence

(* What says IMPORTED, on disk or in hand, has its observations.           *)
LEMMA EvidencePreserved ==
    TypeOK /\ HandsAreFull /\ ImportedHasEvidence /\ CopiesHaveEvidence /\ [Next]_vars
        => ImportedHasEvidence' /\ CopiesHaveEvidence'
<1> SUFFICES ASSUME TypeOK, HandsAreFull, ImportedHasEvidence, CopiesHaveEvidence, [Next]_vars
             PROVE  ImportedHasEvidence' /\ CopiesHaveEvidence'
  OBVIOUS
<1>0. /\ HandTypes /\ SharedTypes /\ New \in File
      /\ New.state # "IMPORTED" /\ Scanners \in Nat
  BY TypesSplit, ScannersAssumption DEF New, File, States
<1> USE SentinelsAssumption
<1>1. ImportedHasEvidence'
  <2>1. ASSUME NEW r \in Requests, NEW f \in File, file' = [file EXCEPT ![r] = f],
               f.state = "IMPORTED" => Evidence(f.job)
        PROVE  ImportedHasEvidence'
    BY <1>0, <2>1, SidecarsGrow DEF SharedTypes, ImportedHasEvidence, Evidence
  <2>2. ASSUME NEW w \in Processes, Create(w) PROVE ImportedHasEvidence'
    BY <1>0, <2>1, <2>2 DEF Create, HandsAreFull
  <2>3. ASSUME NEW w \in Processes, Save(w) PROVE ImportedHasEvidence'
    BY <1>0, <2>1, <2>3 DEF Save, HandTypes, HandsAreFull, CopiesHaveEvidence, CopyHasEvidence
  <2>4. ASSUME NEW w \in Processes, FinishImport(w) PROVE ImportedHasEvidence'
    <3>1. cur[w] \in Requests /\ answer[w] \in JobIds
      BY <2>4 DEF FinishImport, HandsAreFull, Answered, Importing
    <3>2. [state |-> "IMPORTED", job |-> answer[w]] \in File
      BY <3>1 DEF File, States
    <3>3. Evidence(answer[w])
      BY <1>0, <2>4 DEF FinishImport, CopiesHaveEvidence, CopyHasEvidence, Importing, HandTypes, Items, Evidence
    <3>4. QED
      BY <2>1, <2>4, <3>1, <3>2, <3>3 DEF FinishImport
  <2>5. CASE file' = file
    BY <2>5, SidecarsGrow DEF ImportedHasEvidence
  <2>6. QED
    BY <2>2, <2>3, <2>4, <2>5, FileFrame
<1>2. CopiesHaveEvidence'
  <2>1. ASSUME NEW w \in Processes, Waits(w) PROVE CopyHasEvidence(w)'
    BY <2>1, SidecarsGrow DEF Waits, CopiesHaveEvidence, CopyHasEvidence, Evidence
  <2>2. ASSUME NEW w \in Processes, Moves(w) PROVE CopyHasEvidence(w)'
    <3>0. CopyHasEvidence(w)
      BY DEF CopiesHaveEvidence
    <3>1. copy'[w].state = "IMPORTED" => \A i \in Items : <<copy'[w].job, i>> \in sidecars
      BY <1>0, <2>2, <3>0 DEF Moves, CopyMoves, CopyHasEvidence, ImportedHasEvidence, Evidence
    <3>2. pc'[w] \notin Importing \cup {"save"} => item'[w] = 1
      BY <2>2 DEF Moves, ItemMoves
    <3>3. ASSUME pc'[w] \in Importing, NEW i \in Items, i < item'[w]
          PROVE  <<answer'[w], i>> \in sidecars
      <4>1. answer'[w] = answer[w] /\ item[w] \in 1..Scanners + 1 /\ i \in 1..Scanners
        BY <1>0, <2>2, <3>3 DEF Moves, ImportMoves, HandTypes, Items
      <4>2. /\ pc[w] \in Importing
            /\ \/ item'[w] = item[w]
               \/ item'[w] = item[w] + 1 /\ Id(w) \in sidecars
        <5>1. item'[w] # 1
          BY <3>3, <4>1, <1>0
        <5>2. QED
          BY <2>2, <5>1 DEF Moves, ItemMoves
      <4>3. i < item[w] \/ (i = item[w] /\ Id(w) \in sidecars)
        BY <1>0, <3>3, <4>1, <4>2
      <4>4. QED
        BY <3>0, <4>1, <4>2, <4>3 DEF CopyHasEvidence, Id
    <3>4. QED
      BY <3>1, <3>2, <3>3, SidecarsGrow DEF CopyHasEvidence, Evidence
  <2>3. QED
    BY <2>1, <2>2, OneActs DEF CopiesHaveEvidence
<1>3. QED
  BY <1>1, <1>2

-----------------------------------------------------------------------------
(* The index.                                                              *)

(* Whoever is between the sidecar and the row stays there, inserts the row *)
(* or is recorded in cut.                                                  *)
LEMMA LagPreserved ==
    TypeOK /\ HandsAreFull /\ IndexLagsOnlyWhenCut /\ [Next]_vars => IndexLagsOnlyWhenCut'
<1> SUFFICES ASSUME TypeOK, HandsAreFull, IndexLagsOnlyWhenCut, [Next]_vars,
                    NEW o \in sidecars' \ rows'
             PROVE  o \in cut' \/ \E w \in Processes : (pc[w] = "row" /\ Id(w) = o)'
  BY DEF IndexLagsOnlyWhenCut
<1>0. HandTypes
  BY TypesSplit
<1> USE DEF local, Goto
<1>1. CASE RebuildIndex
  BY <1>1 DEF RebuildIndex
<1>2. ASSUME NEW w \in Processes, WriteSidecar(w), o \notin sidecars
      PROVE  (pc[w] = "row" /\ Id(w) = o)'
  BY <1>0, <1>2 DEF WriteSidecar, HandTypes, Id
<1>3. CASE ~RebuildIndex /\ o \in sidecars
  <2>1. o \notin rows /\ cut \subseteq cut'
    BY <1>3, StoreFrame DEF InsertRow, WriteSidecar
  <2>2. CASE o \in cut
    BY <2>1, <2>2
  <2>3. ASSUME NEW x \in Processes, pc[x] = "row", Id(x) = o
        PROVE  o \in cut' \/ (pc[x] = "row" /\ Id(x) = o)'
    <3>1. ASSUME NEW w \in Processes \ {x}, Act(w) PROVE (pc[x] = "row" /\ Id(x) = o)'
      BY <2>3, <3>1, OthersWait DEF Waits, Id
    <3>2. ASSUME InsertRow(x) PROVE FALSE
      <4>1. item[x] \in Items /\ Id(x) \notin rows
        BY <2>1, <2>3 DEF HandsAreFull
      <4>2. rows' = rows \cup {o}
        BY <2>3, <3>2, <4>1 DEF InsertRow
      <4>3. QED
        BY <4>2
    <3>3. CASE ImportFails(x) \/ Crash(x)
      BY <2>3, <3>3 DEF ImportFails, Crash
    <3>4. CASE Step(x)
      BY <2>3, <3>2, <3>4
      DEF Step, Create, PostJob, PutPayload, Accept, Save, AskStatus, FetchResult,
          BeginImport, LookUp, WriteSidecar, FinishImport, Cancel
    <3>5. ASSUME NEW r \in Requests, StartSubmit(x, r) \/ StartPoll(x, r) \/ StartCancel(x, r)
          PROVE  FALSE
      BY <2>3, <3>5 DEF StartSubmit, StartPoll, StartCancel, MayStart
    <3>6. CASE Reset \/ (\E j \in JobIds : Analyse(j)) \/ UNCHANGED vars
      BY <2>3, <3>6 DEF vars, Reset, Analyse, Id
    <3>7. QED
      BY <1>3, <3>1, <3>3, <3>4, <3>5, <3>6 DEF Next, Act
  <2>4. QED
    BY <1>3, <2>1, <2>2, <2>3 DEF IndexLagsOnlyWhenCut
<1>4. QED
  BY <1>1, <1>2, <1>3, StoreFrame DEF InsertRow

-----------------------------------------------------------------------------
(* Jobs and requests.                                                      *)

(* Only a crew of one sees the provider lose its database.                 *)
LEMMA LonePreserved == OnlyTheLoneReset /\ [Next]_vars => OnlyTheLoneReset'
BY BoundsFrame DEF OnlyTheLoneReset, Alone, Reset

(* A file that is written is one that a command has in hand.               *)
LEMMA WrittenFromHand ==
    ASSUME TypeOK, HandsAreFull, [Next]_vars, file' # file
    PROVE  \E w \in Processes, f \in File :
              /\ Act(w) /\ cur[w] \in Requests /\ pc[w] # "idle"
              /\ file' = [file EXCEPT ![cur[w]] = f]
              /\ copy'[w] = New /\ pc'[w] \notin Importing
              /\ \/ f.job = NoJob
                 \/ pc[w] = "save" /\ f.job = copy[w].job
                 \/ pc[w] = "observations" /\ f.job = answer[w]
<1>0. HandTypes
  BY TypesSplit
<1>1. ASSUME NEW w \in Processes, Create(w) \/ Save(w) \/ FinishImport(w)
      PROVE  /\ Act(w) /\ cur[w] \in Requests /\ pc[w] # "idle"
             /\ copy'[w] = New /\ pc'[w] \notin Importing
  BY <1>0, <1>1
  DEF Act, Step, Create, Save, FinishImport, Return, Goto, HandTypes, HandsAreFull, Importing
<1>2. ASSUME NEW w \in Processes, Create(w)
      PROVE  file' = [file EXCEPT ![cur[w]] = New] /\ New \in File /\ New.job = NoJob
  BY <1>2 DEF Create, New, File, States
<1>3. ASSUME NEW w \in Processes, Save(w)
      PROVE  file' = [file EXCEPT ![cur[w]] = copy[w]] /\ pc[w] = "save" /\ copy[w] \in File
  BY <1>0, <1>3 DEF Save, HandTypes
<1>4. ASSUME NEW w \in Processes, FinishImport(w)
      PROVE  /\ file' = [file EXCEPT ![cur[w]] = [state |-> "IMPORTED", job |-> answer[w]]]
             /\ pc[w] = "observations" /\ [state |-> "IMPORTED", job |-> answer[w]] \in File
             /\ [state |-> "IMPORTED", job |-> answer[w]].job = answer[w]
  BY <1>0, <1>4 DEF FinishImport, HandTypes, File, States
<1>5. QED
  BY <1>1, <1>2, <1>3, <1>4, FileFrame

(* As long as the provider keeps its database, every job named on disk or  *)
(* in hand is known and was made for that request.                         *)
LEMMA KnownPreserved ==
    TypeOK /\ HandsAreFull /\ CopiesHaveEvidence /\ JobsAreKnown /\ [Next]_vars => JobsAreKnown'
<1> SUFFICES ASSUME TypeOK, HandsAreFull, CopiesHaveEvidence, JobsAreKnown, [Next]_vars,
                    resets' = 0
             PROVE  /\ \A r \in Requests : (file[r] # NoFile /\ file[r].job # NoJob
                                                => MadeFor(file[r].job, r))'
                    /\ \A w \in Processes : HandsKnow(w)'
  BY DEF JobsAreKnown
<1>0. /\ HandTypes /\ SharedTypes /\ HandTypes' /\ SharedTypes'
      /\ NoFile \notin File
  BY TypesSplit, HandsPreserved, SharedPreserved, SentinelsAssumption
<1>1. ~Reset /\ resets = 0
  <2>1. resets \in Nat
    BY <1>0, BoundsAssumption DEF SharedTypes
  <2>2. QED
    BY <2>1, BoundsFrame DEF Reset
<1>2. \A j \in JobIds : \A r : jobs[j] # NoJob /\ jobs[j].request = r
                               => jobs'[j] # NoJob /\ jobs'[j].request = r
  BY <1>1, JobsStay DEF MadeFor
<1>3. /\ \A r \in Requests : file[r] # NoFile /\ file[r].job # NoJob => MadeFor(file[r].job, r)
      /\ \A w \in Processes : HandsKnow(w)
  BY <1>1 DEF JobsAreKnown
<1>4. ASSUME NEW r \in Requests, file'[r] # NoFile, file'[r].job # NoJob
      PROVE  MadeFor(file[r].job, r)'
  <2>0. file'[r].job \in JobIds
    BY <1>0, <1>4 DEF SharedTypes, File
  <2>1. CASE file'[r] = file[r]
    BY <1>2, <1>3, <1>4, <2>0, <2>1 DEF MadeFor
  <2>2. CASE file'[r] # file[r]
    <3>1. PICK w \in Processes, f \in File :
            /\ cur[w] \in Requests /\ file' = [file EXCEPT ![cur[w]] = f]
            /\ \/ f.job = NoJob
               \/ pc[w] = "save" /\ f.job = copy[w].job
               \/ pc[w] = "observations" /\ f.job = answer[w]
      BY <2>2, WrittenFromHand
    <3>2. r = cur[w] /\ file'[r] = f
      BY <1>0, <2>2, <3>1 DEF SharedTypes
    <3>3. MadeFor(f.job, r)
      BY <1>3, <1>4, <3>1, <3>2 DEF HandsKnow, Reading, Answered, Importing
    <3>4. QED
      BY <1>2, <2>0, <3>2, <3>3 DEF MadeFor
  <2>3. QED
    BY <2>1, <2>2
<1>5. ASSUME NEW w \in Processes, Waits(w) PROVE HandsKnow(w)'
  <2>1. HandsKnow(w) /\ copy[w] \in File /\ (pc[w] \in Answered => answer[w] \in JobIds)
    BY <1>0, <1>3 DEF HandTypes, HandsAreFull
  <2>2. QED
    BY <1>2, <1>5, <2>1 DEF Waits, HandsKnow, MadeFor, File
<1>6. ASSUME NEW w \in Processes, Moves(w) PROVE HandsKnow(w)'
  <2>1. /\ HandsKnow(w) /\ copy[w] \in File /\ copy'[w] \in File
        /\ (pc[w] \in Answered => answer[w] \in JobIds)
        /\ (pc[w] = "result" => copy[w].job # NoJob)
    BY <1>0, <1>3 DEF HandTypes, HandsAreFull, Polling
  <2>2. pc'[w] \notin Reading /\ copy'[w].job # NoJob => MadeFor(copy[w].job, cur[w])'
    <3>1. ASSUME pc'[w] \notin Reading, copy'[w].job # NoJob
          PROVE  jobs[copy'[w].job] # NoJob /\ jobs[copy'[w].job].request = cur'[w]
      BY <1>3, <1>6, <2>1, <3>1
      DEF Moves, CopyMoves, HandsKnow, MadeFor, New, Answered
    <3>2. QED
      BY <1>2, <2>1, <3>1 DEF MadeFor, File
  <2>3. pc'[w] \in Answered => MadeFor(answer[w], cur[w])'
    BY <1>2, <1>6, <2>1 DEF Moves, AnswerMoves, HandsKnow, MadeFor, Answered, Importing, Reading, File
  <2>4. QED
    BY <2>2, <2>3 DEF HandsKnow
<1>7. QED
  BY <1>4, <1>5, <1>6, OneActs

(* Whoever is busy in a crew of one is the only one.                       *)
LEMMA LoneIsAlone ==
    ASSUME TypeOK, Alone, NEW w \in crew, NEW x \in crew PROVE w = x
<1>1. IsFiniteSet(crew)
  BY CrewsAssumption, FS_Subset DEF TypeOK
<1>2. QED
  BY <1>1, FS_Singleton DEF Alone

(* A lone command never has another request's job in hand.                 *)
LEMMA LoneCopiesPreserved ==
    ASSUME TypeOK, HandsAreFull, CopiesHaveEvidence, LoneCopiesAreNotShared,
           JobsAreNotShared, [Next]_vars
    PROVE  LoneCopiesAreNotShared'
<1>a. crew' = crew
  BY BoundsFrame
<1> SUFFICES ASSUME Alone, NEW x \in Processes PROVE NotShared(x)'
  BY <1>a DEF LoneCopiesAreNotShared, Alone
<1>0. NotShared(x) /\ New.job = NoJob
  BY DEF LoneCopiesAreNotShared, New
<1>1. CASE file' = file
  <2>1. CASE Waits(x)
    BY <1>0, <1>1, <2>1 DEF Waits, NotShared, Replayed
  <2>2. CASE Moves(x)
    <3>1. pc'[x] \notin Reading /\ copy'[x].job # NoJob => ~Replayed(cur'[x], copy'[x].job)
      <4>1. ASSUME cur'[x] \in Requests, file[cur'[x]] # NoFile, copy'[x] = file[cur'[x]],
                   copy'[x].job # NoJob
            PROVE  ~Replayed(cur'[x], copy'[x].job)
        BY <4>1 DEF Replayed, JobsAreNotShared
      <4>2. QED
        BY <1>0, <2>2, <4>1 DEF Moves, CopyMoves, NotShared
    <3>2. pc'[x] \in Importing => ~Replayed(cur'[x], answer'[x])
      BY <1>0, <2>2 DEF Moves, ImportMoves, NotShared
    <3>3. QED
      BY <1>1, <3>1, <3>2 DEF NotShared, Replayed
  <2>3. QED
    BY <2>1, <2>2, OneActs
<1>2. CASE file' # file
  <2>1. PICK w \in Processes : /\ Act(w) /\ pc[w] # "idle"
                               /\ copy'[w] = New /\ pc'[w] \notin Importing
    BY <1>2, WrittenFromHand
  <2>2. CASE x = w
    BY <1>0, <2>1, <2>2 DEF NotShared
  <2>3. CASE x # w
    <3>1. pc[x] = "idle"
      BY <2>1, <2>3, LoneIsAlone DEF HandsAreFull
    <3>2. pc'[x] = "idle"
      BY <2>1, <2>3, <3>1, OthersWait DEF Waits
    <3>3. QED
      BY <3>2 DEF NotShared, Reading, Importing
  <2>4. QED
    BY <2>2, <2>3
<1>3. QED
  BY <1>1, <1>2

(* The request that is written names no job of another request.            *)
LEMMA SharingPreserved ==
    ASSUME TypeOK, HandsAreFull, CopiesHaveEvidence, LoneCopiesAreNotShared, JobsAreKnown,
           OnlyTheLoneReset, JobsAreNotShared, [Next]_vars
    PROVE  JobsAreNotShared'
<1> SUFFICES ASSUME file' # file PROVE JobsAreNotShared'
  BY DEF JobsAreNotShared
<1>0. SharedTypes
  BY TypesSplit
<1>1. PICK w \in Processes, f \in File :
        /\ cur[w] \in Requests /\ file' = [file EXCEPT ![cur[w]] = f]
        /\ \/ f.job = NoJob
           \/ pc[w] = "save" /\ f.job = copy[w].job
           \/ pc[w] = "observations" /\ f.job = answer[w]
  BY WrittenFromHand
<1>2. ASSUME NEW q \in Requests \ {cur[w]}, file[q] # NoFile, file[q].job = f.job,
             f.job # NoJob
      PROVE  FALSE
  <2>1. CASE Alone
    BY <1>1, <1>2, <2>1 DEF LoneCopiesAreNotShared, NotShared, Replayed, Reading, Importing
  <2>2. CASE ~Alone
    <3>1. resets = 0
      BY <1>0, <2>2, BoundsAssumption DEF SharedTypes, OnlyTheLoneReset
    <3>2. MadeFor(f.job, q) /\ MadeFor(f.job, cur[w])
      BY <1>1, <1>2, <3>1 DEF JobsAreKnown, HandsKnow, Reading, Answered, Importing
    <3>3. QED
      BY <1>2, <3>2 DEF MadeFor
  <2>3. QED
    BY <2>1, <2>2
<1>3. \A q \in Requests : file'[q] = IF q = cur[w] THEN f ELSE file[q]
  BY <1>0, <1>1 DEF SharedTypes
<1>4. QED
  BY <1>2, <1>3 DEF JobsAreNotShared

-----------------------------------------------------------------------------
(* The theorems.                                                           *)

(* RequestInv is an inductive invariant.                                   *)
THEOREM RequestInvariant == Spec => []RequestInv
<1>1. Init => RequestInv
  <2> SUFFICES ASSUME Init PROVE RequestInv
    OBVIOUS
  <2>0. New \in File /\ New.job = NoJob /\ New.state \notin Settled
        /\ Scanners \in Nat \ {0} /\ {MaxFaults, MaxResets} \subseteq Nat
    BY ScannersAssumption, BoundsAssumption DEF New, File, States, Settled
  <2>1. HandTypes /\ SharedTypes
    BY <2>0 DEF Init, HandTypes, SharedTypes, Steps, Flaws
  <2>2. TypeOK
    BY <2>1, TypesSplit
  <2>3. HandsAreFull /\ CopiesHaveEvidence
    BY <2>0
    DEF Init, HandsAreFull, CopiesHaveEvidence, CopyHasEvidence, Polling, Answered, Importing,
        Settled
  <2>4. ImportedHasEvidence /\ IndexLagsOnlyWhenCut /\ OnlyTheLoneReset /\ JobsAreNotShared
    BY <2>0 DEF Init, ImportedHasEvidence, IndexLagsOnlyWhenCut, OnlyTheLoneReset, JobsAreNotShared
  <2>5. JobsAreKnown /\ LoneCopiesAreNotShared
    BY <2>0 DEF Init, JobsAreKnown, HandsKnow, LoneCopiesAreNotShared, NotShared, Reading,
                Answered, Importing
  <2>6. QED
    BY <2>2, <2>3, <2>4, <2>5 DEF RequestInv
<1>2. RequestInv /\ [Next]_vars => RequestInv'
  <2> SUFFICES ASSUME RequestInv, [Next]_vars PROVE RequestInv'
    OBVIOUS
  <2>0. /\ TypeOK /\ HandsAreFull /\ ImportedHasEvidence /\ CopiesHaveEvidence
        /\ IndexLagsOnlyWhenCut /\ OnlyTheLoneReset /\ JobsAreKnown
        /\ LoneCopiesAreNotShared /\ JobsAreNotShared
    BY DEF RequestInv
  <2>1. HandTypes' /\ SharedTypes' /\ HandsAreFull'
    BY <2>0, HandsPreserved, SharedPreserved
  <2>2. TypeOK'
    BY <2>1, TypesSplit DEF TypeOK, HandTypes, SharedTypes, Steps, Settled
  <2>3. QED
    BY <2>0, <2>1, <2>2, EvidencePreserved, LagPreserved, LonePreserved, KnownPreserved,
       LoneCopiesPreserved, SharingPreserved DEF RequestInv
<1>3. QED
  BY <1>1, <1>2, PTL DEF Spec

(* Every variable of the queue keeps its type, the index never lists an    *)
(* observation without its sidecar, and a request that the provider        *)
(* accepted names a job.                                                   *)
THEOREM RequestTypes == Spec => []TypeOK
<1>1. RequestInv => TypeOK
  BY DEF RequestInv
<1>2. QED
  BY <1>1, RequestInvariant, PTL

(* A request that says IMPORTED has every observation of its result in a   *)
(* sidecar, whoever saved the request meanwhile (_import_result).          *)
THEOREM ImportedRequestsHaveEvidence == Spec => []ImportedHasEvidence
<1>1. RequestInv => ImportedHasEvidence
  BY DEF RequestInv
<1>2. QED
  BY <1>1, RequestInvariant, PTL

(* Two requests never name the same job of the provider, also when it      *)
(* gives an identifier out twice after it lost its database (submit).      *)
THEOREM EachJobHasOneRequest == Spec => []JobsAreNotShared
<1>1. RequestInv => JobsAreNotShared
  BY DEF RequestInv
<1>2. QED
  BY <1>1, RequestInvariant, PTL

(* The index lacks an observation only while it is imported or because the *)
(* import was cut off between sidecar and row (_write_observation).        *)
THEOREM TheIndexLagsOnlyWhenCut == Spec => []IndexLagsOnlyWhenCut
<1>1. RequestInv => IndexLagsOnlyWhenCut
  BY DEF RequestInv
<1>2. QED
  BY <1>1, RequestInvariant, PTL
=============================================================================
