---------------------------- MODULE BootstrapJob ----------------------------
(***************************************************************************)
(* bootstrap.py: a job acquires a list of items over the transport of its  *)
(* plan, saves its progress after every item, is interrupted or killed,    *)
(* and is resumed.  Acquisitions by hand run between its runs.  One        *)
(* process at a time works on a source; the transfers are HttpTransfer's.  *)
(***************************************************************************)
EXTENDS HttpTransfer, FiniteSets, FiniteSetsExt

CONSTANTS
    MaxStops,   \* bound on interrupts and kills
    MaxByHand   \* bound on acquisitions by hand

States == {"NONE", "PLANNED", "RUNNING", "INTERRUPTED", "COMPLETED",
           "COMPLETED_WITH_ERRORS", "FAILED"}
Ended  == {"COMPLETED", "COMPLETED_WITH_ERRORS"}
NoPlan == 0   \* the item None of a job that has no transport

VARIABLES
    available, \* the plan in the job is AVAILABLE, never changed
    job,       \* the job file
    report,    \* the report file
    mem,       \* the job dict of the process
    handled,   \* the set completed of _run
    running,   \* the process runs the job
    stops,     \* interrupts and kills so far
    byHand     \* acquisitions by hand so far

jobVars == <<available, job, report, mem, handled, running>>
vars == <<transferVars, jobVars, stops, byHand>>

NoJob == [state |-> "NONE", completed |-> {}, skipped |-> {},
          failed |-> [i \in Items \cup {NoPlan} |-> 0]]
Failures(j) == {i \in DOMAIN j.failed : j.failed[i] > 0}
Save(j) == mem' = j /\ job' = j
unusedVars == <<transport, remote, part, complete, archived>>

(* TransportResolver.plan: of the endpoints of a source that may be used,  *)
(* the foremost by preference rank and priority, if it is one.  gopher     *)
(* stands for a transport of no adapter; rsync needs a program, and its    *)
(* acquisitions are not modelled.                                          *)
Transports == {"http", "ftp", "rsync", "gopher"}
Endpoints == [transport : {"http"}, priority : 1..2, site : {"a", "b"}]
             \cup [transport : Transports \ {"http"}, priority : {1}, site : {"a"}]
Preferences == <<"rsync", "http", "ftp">>
Rank(e) == <<CHOOSE n \in DOMAIN Preferences : Preferences[n] = e.transport, e.priority>>
Ahead(r, q) == r[1] < q[1] \/ (r[1] = q[1] /\ r[2] < q[2])
Foremost(E) == {e \in E : \A f \in E : ~Ahead(Rank(f), Rank(e))}
Capability(t, installed) ==
    CASE t \in {"http", "ftp"} -> "AVAILABLE"
      [] t = "rsync" -> IF installed THEN "AVAILABLE" ELSE "UNAVAILABLE"
      [] OTHER -> "UNSUPPORTED"
\* barred: what the policy of the source prohibits or calls unavailable.
Usable(E, barred, installed) ==
    {e \in E : /\ e.transport \notin barred
               /\ Capability(e.transport, installed) = "AVAILABLE"
               /\ \E n \in DOMAIN Preferences : Preferences[n] = e.transport}
PlanOf(E, enabled, U) ==
    CASE ~enabled -> "POLICY_BLOCKED"
      [] enabled /\ U = {} -> IF E = {} THEN "UNSUPPORTED" ELSE "UNAVAILABLE"
      [] enabled /\ U # {} -> IF Cardinality(Foremost(U)) > 1 THEN "AMBIGUOUS" ELSE "AVAILABLE"

Init ==
    /\ TransferInit
    /\ \E E \in SUBSET Endpoints, barred \in SUBSET Transports, enabled, installed \in BOOLEAN :
          LET U == Usable(E, barred, installed) IN
          /\ available = (PlanOf(E, enabled, U) = "AVAILABLE")
          /\ available => \E e \in Foremost(U) : transport = e.transport
    /\ job = NoJob /\ report = NoJob /\ mem = NoJob
    /\ handled = {} /\ running = FALSE
    /\ stops = 0 /\ byHand = 0

Start ==
    /\ pc = "idle" /\ job.state = "NONE"
    /\ Save([NoJob EXCEPT !.state = "PLANNED"])
    /\ running' = TRUE
    /\ pc' = "run"
    /\ UNCHANGED <<unusedVars, req, available, report, handled, stops, byHand>>

\* Mutation: a job left RUNNING is taken to be running elsewhere.
Resumable_NotRunning == {"PLANNED", "INTERRUPTED", "FAILED"}
Resumable == {"PLANNED", "RUNNING", "INTERRUPTED", "FAILED"}

Resume ==
    /\ pc = "idle" /\ job.state \in Resumable
    /\ mem' = [job EXCEPT !.state = IF @ = "RUNNING" THEN "INTERRUPTED" ELSE @]
    /\ running' = TRUE
    /\ pc' = "run"
    /\ UNCHANGED <<unusedVars, req, available, job, report, handled, stops, byHand>>

(* resume returns a job that has ended as it is.                           *)
ResumeEnded == pc = "idle" /\ job.state \notin Resumable \cup {"NONE"} /\ UNCHANGED vars

Refuse ==
    /\ pc = "run" /\ ~available
    /\ Save([mem EXCEPT !.state = "FAILED", !.failed = [NoJob.failed EXCEPT ![NoPlan] = 1]])
    /\ pc' = "report"
    /\ UNCHANGED <<unusedVars, req, available, report, handled, running, stops, byHand>>

\* Mutation: what was acquired before is looked at again.
Done_Skipped(j) == j.skipped
Done(j) == j.completed \cup j.skipped

Run ==
    /\ pc = "run" /\ available
    /\ Save([mem EXCEPT !.state = "RUNNING"])
    /\ handled' = Done(mem)
    /\ pc' = "next"
    /\ UNCHANGED <<unusedVars, req, available, report, running, stops, byHand>>

IsNext(i) == pc = "next" /\ Items # handled /\ i = Min(Items \ handled)

(* A PRESENT row of the item, by whatever brought it.                      *)
Deduplicate(i) ==
    /\ IsNext(i) /\ Has(i)
    /\ Save([mem EXCEPT !.skipped = @ \cup {i}])
    /\ handled' = handled \cup {i}
    /\ UNCHANGED <<transferVars, available, report, running, stops, byHand>>

Fetch(i) ==
    /\ IsNext(i) /\ ~Has(i)
    /\ Acquire(i, "none")
    /\ UNCHANGED <<jobVars, stops, byHand>>

RecordItem ==
    /\ pc = "returned" /\ running
    /\ Save(IF req.outcome = "ok" THEN [mem EXCEPT !.completed = @ \cup {req.item}]
            ELSE [mem EXCEPT !.failed[req.item] = @ + 1])
    /\ handled' = handled \cup {req.item}
    /\ req' = NoRequest
    /\ pc' = "next"
    /\ UNCHANGED <<unusedVars, available, report, running, stops, byHand>>

Finish ==
    /\ pc = "next" /\ handled = Items
    /\ Save([mem EXCEPT !.state = IF Failures(mem) = {} THEN "COMPLETED" ELSE "COMPLETED_WITH_ERRORS"])
    /\ pc' = "report"
    /\ UNCHANGED <<unusedVars, req, available, report, handled, running, stops, byHand>>

Leave == pc' = "idle" /\ running' = FALSE /\ handled' = {} /\ mem' = NoJob /\ req' = NoRequest

(* A second report would have another updated_at: write_report raises.     *)
WriteReport ==
    /\ pc = "report"
    /\ report' = IF report = NoJob THEN mem ELSE report
    /\ Leave
    /\ UNCHANGED <<unusedVars, available, job, stops, byHand>>

(* KeyboardInterrupt: the job is saved as INTERRUPTED.                     *)
Interrupt ==
    /\ pc # "idle" /\ running /\ stops < MaxStops
    /\ stops' = stops + 1
    /\ job' = [mem EXCEPT !.state = "INTERRUPTED"]
    /\ complete' = <<>>
    /\ part' = IF pc \in Transfers THEN [part EXCEPT ![req.item] = Kept(@)] ELSE part
    /\ Leave
    /\ UNCHANGED <<transport, remote, archived, available, report, byHand>>

(* The process is killed.  A .complete file that stays is written over by  *)
(* the next transfer, an FTP .part likewise.                               *)
Kill ==
    /\ pc # "idle" /\ stops < MaxStops
    /\ stops' = stops + 1
    /\ complete' = <<>>
    /\ part' = IF pc \in Transfers THEN [part EXCEPT ![req.item] = Kept(@)] ELSE part
    /\ Leave
    /\ UNCHANGED <<transport, remote, archived, available, job, report, byHand>>

(* rab acquire, with or without a checksum or a size; only of an item that *)
(* changes upstream, where it matters.                                     *)
ByHand(i) ==
    /\ pc = "idle" /\ byHand < MaxByHand /\ i \in Changing
    /\ byHand' = byHand + 1
    /\ \E c \in Checks : Acquire(i, c)
    /\ UNCHANGED <<jobVars, stops>>
ByHandReturns ==
    /\ pc = "returned" /\ ~running
    /\ Leave
    /\ UNCHANGED <<unusedVars, available, job, report, stops, byHand>>

Transfer == TransferStep /\ UNCHANGED <<jobVars, stops, byHand>>
Work ==
    \/ Transfer \/ ByHandReturns
    \/ Refuse \/ Run \/ RecordItem \/ Finish \/ WriteReport
    \/ \E i \in Items : Deduplicate(i) \/ Fetch(i)
Next ==
    \/ Work \/ Start \/ Resume \/ ResumeEnded \/ Interrupt \/ Kill
    \/ \E i \in Items : ByHand(i) \/ (ChangeRemote(i) /\ UNCHANGED <<jobVars, stops, byHand>>)

Spec == Init /\ [][Next]_vars
(* The process goes on unless it is stopped, and the operator resumes a    *)
(* job that was.                                                           *)
FairSpec == Spec /\ WF_vars(Work) /\ WF_vars(Resume)

-----------------------------------------------------------------------------
(* A job that has ended accounts for each of its items, an acquired or     *)
(* deduplicated item once and only if the archive has it, and says         *)
(* COMPLETED only if nothing ever failed; the immutable report agrees with *)
(* the job file.  Through any interrupts, kills and resumes.  (_run,       *)
(* resume, write_report.)                                                  *)
ItemsAccountedFor ==
    /\ job.state \in Ended =>
          /\ Items = job.completed \cup job.skipped \cup Failures(job)
          /\ job.state = "COMPLETED" => Items = job.completed \cup job.skipped
    /\ job.completed \cap job.skipped = {}
    /\ \A i \in job.completed \cup job.skipped : Has(i)
    /\ report # NoJob => job \in {report, [report EXCEPT !.state = job.state]}

(* A job that was started ends, although transfers fail and its process is *)
(* stopped again and again: every item is given up after retries + 1       *)
(* attempts, and resume takes up whatever state a kill left.               *)
JobEnds == job.state = "PLANNED" ~> job.state \in Ended \cup {"FAILED"}
=============================================================================
