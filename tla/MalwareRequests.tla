-------------------------- MODULE MalwareRequests --------------------------
(***************************************************************************)
(* The queue of malware analysis requests of malware_provider.py and the   *)
(* import of results into the MalwareStore of malware.py.                  *)
(*                                                                         *)
(* A request is one JSON file.  The commands submit, poll and cancel read  *)
(* it, talk to a provider over HTTP, and write back the copy they read;    *)
(* several of them may run at once (the operator, the inbox watcher, a     *)
(* preservation run), and any of them may die.  Calls fail, answers get    *)
(* lost after the provider acted on the call, and a provider that lost its *)
(* database hands out its job identifiers again.                           *)
(*                                                                         *)
(* An observation is known by the hash of its job and its content, written *)
(* as a sidecar first and inserted into malware.sqlite3 afterwards.        *)
(***************************************************************************)
EXTENDS Naturals, FiniteSets

CONSTANTS
    Processes,   \* processes that run rab malware ... or use the manager
    Crews,       \* the sets of them that an installation may have
    Requests,    \* keys: object, representation, profile, version, suffix
    JobIds,      \* identifiers the provider gives to its jobs
    Scanners,    \* number of observations in a result, one per scanner
    NoFile,      \* no request file
    NoJob,       \* provider_job_id None; an identifier not in use
    NoRequest,   \* nothing in hand
    MaxFaults,   \* bound on failed calls, exceptions and killed commands
    MaxResets    \* bound on databases lost by the provider

ASSUME BoundsAssumption == {MaxFaults, MaxResets} \subseteq Nat
ASSUME CrewsAssumption == IsFiniteSet(Processes) /\ Crews \subseteq SUBSET Processes
ASSUME ScannersAssumption == Scanners \in Nat \ {0}

(* ACTIVE stands for SUBMITTED, QUEUED, ACCEPTED and RUNNING, COMPLETE also *)
(* for COMPLETE_WITH_WARNINGS and RESULT_READY, FAILED for UNAVAILABLE.    *)
States    == {"PENDING_PROVIDER", "ACTIVE", "COMPLETE", "IMPORTED", "FAILED",
              "REJECTED", "CANCELLED", "EXPIRED"}
Final     == {"IMPORTED", "CANCELLED", "REJECTED", "EXPIRED"}
Submitted == {"PENDING_PROVIDER", "FAILED"}

File == [state : States, job : JobIds \cup {NoJob}]
New  == [state |-> "PENDING_PROVIDER", job |-> NoJob]
Job  == [request : Requests, payload : BOOLEAN,
         status : {"ACTIVE", "COMPLETE", "FAILED", "EXPIRED", "CANCELLED"}]

ASSUME SentinelsAssumption ==
    /\ NoJob \notin JobIds \cup Job
    /\ NoRequest \notin Requests
    /\ NoFile \notin File

Items == 1..Scanners
ObservationIds == JobIds \X Items

VARIABLES
    crew,      \* the processes that issue commands, never changed
    file,      \* request files
    sidecars,  \* observations with a sidecar
    rows,      \* observations in malware.sqlite3
    jobs,      \* the provider's jobs
    pc,        \* next step of each process
    cur,       \* request in hand
    copy,      \* the request as the command read it last, and changed it
    answer,    \* job in the provider's last answer, NoJob for none
    result,    \* request named in the result being imported
    flaw,      \* what is wrong with that result
    item,      \* the observation of the result being imported
    cut,       \* history: observations whose import stopped before the row
    faults, resets

local == <<cur, copy, answer, result, flaw, item>>
store == <<sidecars, rows, cut>>
bounds == <<faults, resets, crew>>
vars == <<file, store, jobs, pc, local, bounds>>

Goto(w, step) == pc' = [pc EXCEPT ![w] = step]
Id(w) == <<answer[w], item[w]>>

Init ==
    /\ crew \in Crews
    /\ file = [r \in Requests |-> NoFile]
    /\ sidecars = {}
    /\ rows = {}
    /\ jobs = [j \in JobIds |-> NoJob]
    /\ pc = [w \in Processes |-> "idle"]
    /\ cur = [w \in Processes |-> NoRequest]
    /\ copy = [w \in Processes |-> New]
    /\ answer = [w \in Processes |-> NoJob]
    /\ result = [w \in Processes |-> NoRequest]
    /\ flaw = [w \in Processes |-> "none"]
    /\ item = [w \in Processes |-> 1]
    /\ cut = {}
    /\ faults = 0
    /\ resets = 0

(* The command is over; what it knew is forgotten.                         *)
Return(w) ==
    /\ Goto(w, "idle")
    /\ cur' = [cur EXCEPT ![w] = NoRequest]
    /\ copy' = [copy EXCEPT ![w] = New]
    /\ answer' = [answer EXCEPT ![w] = NoJob]
    /\ result' = [result EXCEPT ![w] = NoRequest]
    /\ flaw' = [flaw EXCEPT ![w] = "none"]
    /\ item' = [item EXCEPT ![w] = 1]

(* Something fails that does not fail for ever.                            *)
Fault ==
    /\ faults < MaxFaults
    /\ faults' = faults + 1
    /\ UNCHANGED <<resets, crew>>

(* The command gets an outcome and goes on to write its copy.              *)
Conclude(w, state) ==
    /\ copy' = [copy EXCEPT ![w].state = state]
    /\ Goto(w, "save")
    /\ UNCHANGED <<cur, answer, result, flaw, item>>

-----------------------------------------------------------------------------
(* The provider (external).                                                *)

(* A job whose payload has arrived is finished in some way or other.       *)
Analyse(j) ==
    /\ jobs[j] # NoJob
    /\ jobs[j].status = "ACTIVE" /\ jobs[j].payload
    /\ \E status \in {"COMPLETE", "FAILED", "EXPIRED"} :
        jobs' = [jobs EXCEPT ![j].status = status]
    /\ UNCHANGED <<file, store, pc, local, bounds>>

(* The provider loses its database and numbers its jobs anew.  That it     *)
(* does so beside overlapping commands is left out: the two together can   *)
(* attach a result to the wrong request.                                   *)
Reset ==
    /\ Cardinality(crew) = 1
    /\ resets < MaxResets
    /\ resets' = resets + 1
    /\ jobs' = [j \in JobIds |-> NoJob]
    /\ UNCHANGED <<file, store, pc, local, faults, crew>>

MayStart(w) == w \in crew /\ pc[w] = "idle"

Free == {j \in JobIds : jobs[j] = NoJob}

-----------------------------------------------------------------------------
(* submit.                                                                 *)

(* show, or the existing file of create; other states are returned as they *)
(* are.  The fixity check of the master is the store's.                    *)
StartSubmit(w, r) ==
    /\ MayStart(w)
    /\ \/ file[r] = NoFile /\ Goto(w, "create") /\ UNCHANGED copy
       \/ /\ file[r] # NoFile
          /\ file[r].state \in Submitted
          /\ copy' = [copy EXCEPT ![w] = file[r]]
          /\ Goto(w, "post")
    /\ cur' = [cur EXCEPT ![w] = r]
    /\ UNCHANGED <<file, store, jobs, answer, result, flaw, item, bounds>>

(* create saves a new request; the file was missing when it looked.        *)
Create(w) ==
    /\ pc[w] = "create"
    /\ file' = [file EXCEPT ![cur[w]] = New]
    /\ copy' = [copy EXCEPT ![w] = New]
    /\ Goto(w, "post")
    /\ UNCHANGED <<store, jobs, cur, answer, result, flaw, item, bounds>>

(* POST of the contract: accepted; lost on its way, or after the provider  *)
(* made a job, when _request repeats it or gives up; or refused.           *)
PostJob(w) ==
    /\ pc[w] = "post"
    /\ \/ \E j \in Free :
            /\ jobs' = [jobs EXCEPT ![j] = [request |-> cur[w], payload |-> FALSE,
                                            status |-> "ACTIVE"]]
            /\ \/ /\ answer' = [answer EXCEPT ![w] = j]
                  /\ Goto(w, "put")
                  /\ UNCHANGED <<cur, copy, result, flaw, item, bounds>>
               \/ Fault /\ UNCHANGED <<pc, local>>
               \/ Fault /\ Conclude(w, "PENDING_PROVIDER")
       \/ /\ Fault
          /\ Conclude(w, "PENDING_PROVIDER") \/ Conclude(w, "FAILED")
          /\ UNCHANGED jobs
       \/ /\ Free = {}
          /\ Conclude(w, "PENDING_PROVIDER")
          /\ UNCHANGED <<jobs, bounds>>
    /\ UNCHANGED <<file, store>>

(* PUT of the payload; it may have arrived although the call failed.  A    *)
(* job that is gone answers 404, a ConnectionError.                        *)
PutPayload(w) ==
    LET j == answer[w] IN
    /\ pc[w] = "put"
    /\ \/ /\ jobs[j] # NoJob
          /\ jobs' = [jobs EXCEPT ![j].payload = TRUE]
          /\ \/ Goto(w, "accept") /\ UNCHANGED <<local, bounds>>
             \/ Fault /\ Conclude(w, "PENDING_PROVIDER")
       \/ /\ Fault
          /\ Conclude(w, "PENDING_PROVIDER") \/ Conclude(w, "FAILED")
          /\ UNCHANGED jobs
       \/ /\ jobs[j] = NoJob
          /\ Conclude(w, "PENDING_PROVIDER")
          /\ UNCHANGED <<jobs, bounds>>
    /\ UNCHANGED <<file, store>>

Replayed(r, j) == \E q \in Requests \ {r} : file[q] # NoFile /\ file[q].job = j

(* Mutation: only requests that are not over are looked at.                *)
Accept_OpenOnly(w) ==
    LET replayed == \E q \in Requests \ {cur[w]} :
                       /\ file[q] # NoFile /\ file[q].job = answer[w]
                       /\ file[q].state \notin Final IN
    /\ pc[w] = "accept"
    /\ copy' = [copy EXCEPT ![w] = IF replayed THEN [@ EXCEPT !.state = "FAILED"]
                                   ELSE [state |-> "ACTIVE", job |-> answer[w]]]
    /\ Goto(w, "save")
    /\ UNCHANGED <<file, store, jobs, cur, answer, result, flaw, item, bounds>>

(* A job that another request names already is refused: FAILED.            *)
Accept(w) ==
    /\ pc[w] = "accept"
    /\ copy' = [copy EXCEPT ![w] =
                  IF Replayed(cur[w], answer[w])
                  THEN [@ EXCEPT !.state = "FAILED"]
                  ELSE [state |-> "ACTIVE", job |-> answer[w]]]
    /\ Goto(w, "save")
    /\ UNCHANGED <<file, store, jobs, cur, answer, result, flaw, item, bounds>>

(* self._save(value): whatever the file says by now is overwritten.        *)
Save(w) ==
    /\ pc[w] = "save"
    /\ file' = [file EXCEPT ![cur[w]] = copy[w]]
    /\ Return(w)
    /\ UNCHANGED <<store, jobs, bounds>>

-----------------------------------------------------------------------------
(* poll and import_result.                                                 *)

(* Mutation: a request that is complete needs no more polls.               *)
StartPoll_Complete(w, r) ==
    /\ MayStart(w)
    /\ file[r] # NoFile
    /\ file[r].state \notin Final \cup {"COMPLETE"} /\ file[r].job # NoJob
    /\ cur' = [cur EXCEPT ![w] = r]
    /\ copy' = [copy EXCEPT ![w] = file[r]]
    /\ Goto(w, "status")
    /\ UNCHANGED <<file, store, jobs, answer, result, flaw, item, bounds>>

StartPoll(w, r) ==
    /\ MayStart(w)
    /\ file[r] # NoFile
    /\ file[r].state \notin Final /\ file[r].job # NoJob
    /\ cur' = [cur EXCEPT ![w] = r]
    /\ copy' = [copy EXCEPT ![w] = file[r]]
    /\ Goto(w, "status")
    /\ UNCHANGED <<file, store, jobs, answer, result, flaw, item, bounds>>

(* provider.status: no answer (a warning, the copy is saved as it is), an  *)
(* answer that is refused, or the state of the job.                        *)
AskStatus(w) ==
    LET j == copy[w].job IN
    /\ pc[w] = "status"
    /\ \/ /\ jobs[j] # NoJob /\ jobs[j].request = cur[w]
          /\ copy' = [copy EXCEPT ![w].state = jobs[j].status]
          /\ Goto(w, IF jobs[j].status = "COMPLETE" THEN "result" ELSE "save")
          /\ UNCHANGED <<cur, answer, result, flaw, item, bounds>>
       \/ /\ jobs[j] # NoJob /\ jobs[j].request # cur[w]
          /\ Conclude(w, "REJECTED")
          /\ UNCHANGED bounds
       \/ jobs[j] = NoJob /\ Conclude(w, copy[w].state) /\ UNCHANGED bounds
       \/ Fault /\ (Conclude(w, copy[w].state) \/ Conclude(w, "REJECTED"))
    /\ UNCHANGED <<file, store, jobs>>

(* validate_result: an answer of the provider (external) may be wrong in   *)
(* itself ("form": a field missing, unknown or too large, one scanner      *)
(* twice, times out of order), or not be about the request ("mismatch":    *)
(* other bytes, size, representation or profile, or older than it).  The   *)
(* provider class has no request to compare with.                          *)
Flaws == {"form", "mismatch"}
Passes(f) == f # "form"
PassesFor(f) == f = "none"

(* provider.result, of the job by now under that identifier.               *)
FetchResult(w) ==
    LET j == copy[w].job IN
    /\ pc[w] = "result"
    /\ \/ /\ jobs[j] # NoJob /\ jobs[j].status = "COMPLETE"
          /\ \E f \in Flaws \cup {"none"} :
               /\ IF f = "none" THEN UNCHANGED bounds ELSE Fault
               /\ \/ ~Passes(f) /\ Conclude(w, "REJECTED")
                  \/ /\ Passes(f)
                     /\ answer' = [answer EXCEPT ![w] = j]
                     /\ result' = [result EXCEPT ![w] = jobs[j].request]
                     /\ flaw' = [flaw EXCEPT ![w] = f]
                     /\ Goto(w, "import")
                     /\ UNCHANGED <<cur, copy, item>>
       \/ /\ jobs[j] = NoJob \/ (jobs[j] # NoJob /\ jobs[j].status # "COMPLETE")
          /\ Conclude(w, "COMPLETE")
          /\ UNCHANGED bounds
       \/ Fault /\ (Conclude(w, "COMPLETE") \/ Conclude(w, "REJECTED"))
    /\ UNCHANGED <<file, store, jobs>>

(* import_result reads the request again; the result must name it and the  *)
(* job it has now, without a flaw, and no other request may have that job. *)
BeginImport(w) ==
    LET matches == /\ PassesFor(flaw[w])
                   /\ result[w] = cur[w] /\ answer[w] = file[cur[w]].job
                   /\ ~Replayed(cur[w], answer[w]) IN
    /\ pc[w] = "import"
    /\ \/ matches /\ Goto(w, "observations") /\ UNCHANGED local
       \/ ~matches /\ Conclude(w, "REJECTED")
    /\ UNCHANGED <<file, store, jobs, bounds>>

(* import_provider_observation: a sidecar is enough, a missing one has to  *)
(* be written.                                                             *)
LookUp(w) ==
    /\ pc[w] = "observations"
    /\ item[w] \in Items
    /\ \/ /\ Id(w) \in sidecars
          /\ item' = [item EXCEPT ![w] = @ + 1]
          /\ UNCHANGED <<pc, cur, copy, answer, result, flaw>>
       \/ Id(w) \notin sidecars /\ Goto(w, "write") /\ UNCHANGED local
    /\ UNCHANGED <<file, store, jobs, bounds>>

(* _write_observation up to the raw file; an existing sidecar is replaced. *)
WriteSidecar(w) ==
    /\ pc[w] = "write"
    /\ sidecars' = sidecars \cup {Id(w)}
    /\ Goto(w, "row")
    /\ UNCHANGED <<file, rows, cut, jobs, local, bounds>>

(* INSERT INTO malware_observations; sqlite3.IntegrityError if the row is  *)
(* there, which poll turns into REJECTED.                                  *)
InsertRow(w) ==
    /\ pc[w] = "row"
    /\ \/ /\ Id(w) \notin rows
          /\ rows' = rows \cup {Id(w)}
          /\ item' = [item EXCEPT ![w] = @ + 1]
          /\ Goto(w, "observations")
          /\ UNCHANGED <<cur, copy, answer, result, flaw>>
       \/ Id(w) \in rows /\ Conclude(w, "REJECTED") /\ UNCHANGED rows
    /\ UNCHANGED <<file, sidecars, cut, jobs, bounds>>

(* Any exception in import_result: a full disk, a locked database, or a    *)
(* sidecar that differs because the provider dated its result anew.        *)
ImportFails(w) ==
    /\ pc[w] \in {"observations", "write", "row"} /\ item[w] \in Items
    /\ Fault
    /\ Conclude(w, "REJECTED")
    /\ cut' = IF pc[w] = "row" THEN cut \cup {Id(w)} ELSE cut
    /\ UNCHANGED <<file, sidecars, rows, jobs>>

(* Mutation: the observations after the first are left for later.          *)
FinishImport_Early(w) ==
    /\ pc[w] = "observations"
    /\ item[w] > 1
    /\ file' = [file EXCEPT ![cur[w]] = [state |-> "IMPORTED", job |-> answer[w]]]
    /\ Return(w)
    /\ UNCHANGED <<store, jobs, bounds>>

(* All observations are imported: the request becomes IMPORTED.            *)
FinishImport(w) ==
    /\ pc[w] = "observations"
    /\ item[w] \notin Items
    /\ file' = [file EXCEPT ![cur[w]] = [state |-> "IMPORTED", job |-> answer[w]]]
    /\ Return(w)
    /\ UNCHANGED <<store, jobs, bounds>>

-----------------------------------------------------------------------------
(* cancel, the rebuild of the index, kills.                                *)

StartCancel(w, r) ==
    /\ MayStart(w)
    /\ file[r] # NoFile
    /\ cur' = [cur EXCEPT ![w] = r]
    /\ copy' = [copy EXCEPT ![w] = file[r]]
    /\ Goto(w, "cancel")
    /\ UNCHANGED <<file, store, jobs, answer, result, flaw, item, bounds>>

(* The provider must confirm if it has a job; a failure leaves the file.   *)
Cancel(w) ==
    LET j == copy[w].job IN
    /\ pc[w] = "cancel"
    /\ \/ /\ j = NoJob
          /\ Conclude(w, "CANCELLED")
          /\ UNCHANGED <<jobs, bounds>>
       \/ /\ j # NoJob /\ jobs[j] # NoJob
          /\ jobs' = [jobs EXCEPT ![j].status = "CANCELLED"]
          /\ \/ Conclude(w, "CANCELLED") /\ UNCHANGED bounds
             \/ Fault /\ Return(w)
       \/ /\ j # NoJob /\ jobs[j] = NoJob
          /\ Return(w)
          /\ UNCHANGED <<jobs, bounds>>
       \/ Fault /\ Return(w) /\ UNCHANGED jobs
    /\ UNCHANGED <<file, store>>

(* Mutation: the rebuild keeps the observations of imported requests.      *)
RebuildIndex_Imported ==
    /\ rows' = {o \in sidecars : \E r \in Requests :
                   file[r] # NoFile /\ file[r] = [state |-> "IMPORTED", job |-> o[1]]}
    /\ cut' = {}
    /\ UNCHANGED <<file, sidecars, jobs, pc, local, bounds>>

(* rab malware rebuild, in one transaction.                                *)
RebuildIndex ==
    /\ rows' = sidecars
    /\ cut' = {}
    /\ UNCHANGED <<file, sidecars, jobs, pc, local, bounds>>

Crash(w) ==
    /\ pc[w] # "idle"
    /\ Fault
    /\ cut' = IF pc[w] = "row" THEN cut \cup {Id(w)} ELSE cut
    /\ Return(w)
    /\ UNCHANGED <<file, sidecars, rows, jobs>>

Step(w) ==
    \/ Create(w) \/ PostJob(w) \/ PutPayload(w) \/ Accept(w) \/ Save(w)
    \/ AskStatus(w) \/ FetchResult(w) \/ BeginImport(w) \/ LookUp(w)
    \/ WriteSidecar(w) \/ InsertRow(w) \/ FinishImport(w) \/ Cancel(w)

Next ==
    \/ \E w \in Processes :
        \/ Step(w) \/ ImportFails(w) \/ Crash(w)
        \/ \E r \in Requests : StartSubmit(w, r) \/ StartPoll(w, r) \/ StartCancel(w, r)
    \/ \E j \in JobIds : Analyse(j)
    \/ Reset \/ RebuildIndex

Spec == Init /\ [][Next]_vars

(* A command that was started goes on (its calls have a timeout), requests *)
(* are polled again and again, the provider finishes what it was given.    *)
FairSpec ==
    /\ Spec
    /\ \A w \in Processes : WF_vars(Step(w))
    /\ \A r \in Requests : SF_vars(\E w \in Processes : StartPoll(w, r))
    /\ \A j \in JobIds : WF_vars(Analyse(j))

-----------------------------------------------------------------------------
(* Properties.                                                             *)

TypeOK ==
    /\ file \in [Requests -> File \cup {NoFile}]
    /\ \A r \in Requests : file[r] # NoFile /\ file[r].state \in {"ACTIVE", "COMPLETE", "IMPORTED"}
                               => file[r].job # NoJob
    /\ sidecars \subseteq ObservationIds
    /\ rows \subseteq sidecars
    /\ jobs \in [JobIds -> Job \cup {NoJob}]
    /\ pc \in [Processes -> {"idle", "create", "post", "put", "accept", "save",
                             "status", "result", "import", "observations", "write",
                             "row", "cancel"}]
    /\ cur \in [Processes -> Requests \cup {NoRequest}]
    /\ copy \in [Processes -> File]
    /\ answer \in [Processes -> JobIds \cup {NoJob}]
    /\ result \in [Processes -> Requests \cup {NoRequest}]
    /\ flaw \in [Processes -> Flaws \cup {"none"}]
    /\ item \in [Processes -> 1..Scanners + 1]
    /\ cut \subseteq ObservationIds
    /\ faults \in 0..MaxFaults /\ resets \in 0..MaxResets /\ crew \in Crews

(* A request that says IMPORTED has every observation of its result in a   *)
(* sidecars, however often the import was cut off and begun again, and      *)
(* whoever else saved the request meanwhile.                               *)
ImportedHasEvidence == \A r \in Requests :
    file[r] # NoFile /\ file[r].state = "IMPORTED"
        => \A i \in Items : <<file[r].job, i>> \in sidecars

(* Two requests never name the same job, also when the provider gives an   *)
(* identifier out twice, so that a result belongs to one request.          *)
JobsAreNotShared == \A q, r \in Requests :
    q # r /\ file[q] # NoFile /\ file[r] # NoFile /\ file[q].job = file[r].job
        => file[q].job = NoJob

(* An observation is missing in the index only while it is being imported, *)
(* or because its import stopped between sidecar and row.                  *)
IndexLagsOnlyWhenCut == \A o \in sidecars \ rows :
    o \in cut \/ \E w \in Processes : pc[w] = "row" /\ Id(w) = o

Accepted(r) == file[r] # NoFile /\ file[r].state \in {"ACTIVE", "COMPLETE"}

(* A request that the provider accepted does not hang: it ends, fails or   *)
(* is back in the list of pending requests, unless the provider forgot it. *)
RequestEnds == \A r \in Requests : Accepted(r) ~> (~Accepted(r) \/ resets > 0)

(* A request is rejected without attaching anything of its result.         *)
RejectedAttachesNothing == \A r \in Requests :
    file[r] # NoFile /\ file[r].state = "REJECTED"
        => \A i \in Items : <<file[r].job, i>> \notin sidecars
=============================================================================
