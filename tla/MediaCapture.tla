---------------------------- MODULE MediaCapture ----------------------------
(***************************************************************************)
(* Capturing media: MediaManager and OpticalManager of media.py and        *)
(* FluxManager of flux.py (block, optical and flux), the batch sessions of *)
(* physical.py that drive them, and the link a capture leaves at the       *)
(* record of a registered medium (PhysicalRegistry).                       *)
(*                                                                         *)
(* A capture writes a job file, reads the medium into staging, compares a  *)
(* repeat with the file of the earlier job and ingests the image; what it  *)
(* finds out it keeps in memory, and writes the job file a second time in  *)
(* a finally clause.  Drives, tools and the operator are external: a read  *)
(* yields a whole image, part of one, or an error; Ctrl-C falls anywhere.  *)
(* One capture command runs at a time.                                     *)
(***************************************************************************)
EXTENDS PhysicalRegistry, FiniteSets

CONSTANTS
    Adapters,   \* of "block", "optical", "flux"
    Images,     \* contents a medium may yield
    MaxJobs,    \* bound on the captures
    MaxSessions, MaxKills \* bounds on sessions and kills

VARIABLES
    objects,  \* images in the archive
    jobs,     \* capture job files, in the order they were begun
    links,    \* CAPTURED_AS relationships: [medium, object, job]
    session,  \* the file of the session begun last
    sessions, \* sessions begun so far
    pc,       \* next step of the command
    cur,      \* its local variables
    fresh,    \* history: images first archived during the session
    kills

captureVars == <<objects, jobs, links, session, sessions, pc, cur, fresh, kills>>
vars == <<registryVars, captureVars>>

None == "none"
NoSession == [state |-> "NONE", media |-> 0, successes |-> 0, duplicates |-> 0, failures |-> 0]
Job(kind, medium, repeat) ==
    [kind |-> kind, medium |-> medium, state |-> IF kind = "optical" THEN "INSPECTING" ELSE "CAPTURING",
     whole |-> FALSE, hash |-> None, object |-> None, repeat |-> repeat, identical |-> FALSE]

(* job: the file of the job in hand; mine: that job in memory; image: what *)
(* is in staging; existed: ingest_staged found the bytes in the archive;   *)
(* batch: the session takes several media; own: the session in memory,     *)
(* which is NoSession outside a session.                                   *)
NoCommand == [job |-> 0, mine |-> Job(None, None, Nobody), image |-> None, existed |-> FALSE,
              batch |-> FALSE, own |-> NoSession]
InSession == cur.own.state # "NONE"
Mine == cur.mine
AtWork == pc \in {"read", "ingest", "conclude"} \* inside the try block
Done == {"COMPLETE", "COMPLETE_WITH_WARNINGS"} \* the block manager writes COMPLETED...

Init ==
    /\ RegistryInit
    /\ objects = {} /\ jobs = <<>> /\ links = {}
    /\ session = NoSession /\ sessions = 0
    /\ pc = "idle" /\ cur = NoCommand
    /\ fresh = {} /\ kills = 0

-----------------------------------------------------------------------------
(* physical.py ingest(): the session file, then per medium discovery,      *)
(* plan and confirmation, which may raise or be declined.                  *)
BeginSession ==
    /\ pc = "idle" /\ sessions < MaxSessions
    /\ \E batch \in BOOLEAN :
         cur' = [NoCommand EXCEPT !.batch = batch, !.own = [NoSession EXCEPT !.state = "ACTIVE"]]
    /\ session' = [NoSession EXCEPT !.state = "ACTIVE"]
    /\ sessions' = sessions + 1 /\ fresh' = {} /\ pc' = "plan"
    /\ UNCHANGED <<objects, jobs, links, kills>>

(* The command ends with the session file as it was saved last.            *)
Leave == pc' = "idle" /\ cur' = NoCommand
Abandon ==
    /\ pc \in {"plan", "prompt"} /\ Leave
    /\ UNCHANGED <<objects, jobs, links, session, sessions, fresh, kills>>

SaveSession(own, step) ==
    /\ session' = own /\ pc' = step
    /\ cur' = IF step = "idle" THEN NoCommand ELSE [NoCommand EXCEPT !.own = own, !.batch = cur.batch]

\* After a medium: on to the next one, or the session is completed.
NextMedium(own) ==
    \/ cur.batch /\ SaveSession(own, "prompt")
    \/ SaveSession([own EXCEPT !.state = "COMPLETED"], "idle")

Insert ==
    /\ pc = "prompt" /\ pc' = "plan"
    /\ UNCHANGED <<objects, jobs, links, session, sessions, cur, fresh, kills>>

-----------------------------------------------------------------------------
(* capture(): a registered medium must exist; the job file is written.  A  *)
(* session gives neither a medium nor an earlier job.                      *)
Begin(kind, medium, repeat) ==
    /\ Len(jobs) < MaxJobs
    /\ jobs' = Append(jobs, Job(kind, medium, repeat))
    /\ cur' = [cur EXCEPT !.job = Len(jobs) + 1, !.mine = Job(kind, medium, repeat)]
    /\ pc' = "read"
    /\ UNCHANGED <<objects, links, session, sessions, fresh, kills>>

Earlier(kind) == {j \in DOMAIN jobs : jobs[j].kind = kind} \cup {Nobody}
Capture ==
    \E kind \in Adapters :
       \/ pc = "plan" /\ Begin(kind, None, Nobody)
       \/ pc = "idle" /\ \E m \in Media, r \in Earlier(kind) : Begin(kind, m, r)

SaveJob(job) == jobs' = [jobs EXCEPT ![cur.job] = job]

(* The adapter: dd or gw succeeds, fails with part of an image on disk, or *)
(* yields nothing.  An earlier job without a hash compares as different.   *)
(* The optical manager notes the hash of its image at the very end.        *)
Compared(job, image) ==
    [job EXCEPT !.identical = job.repeat # Nobody /\ jobs[job.repeat].hash = image]
Hashed(job, image) == IF job.kind = "optical" THEN job ELSE [job EXCEPT !.hash = image]
Read ==
    /\ pc = "read"
    /\ \E image \in Images, whole \in BOOLEAN :
         cur' = [cur EXCEPT !.image = image,
                            !.mine = [Hashed(Compared(Mine, image), image)
                                        EXCEPT !.whole = whole, !.state = "INGESTING"]]
    /\ pc' = "ingest"
    /\ UNCHANGED <<objects, jobs, links, session, sessions, fresh, kills>>

(* ingest_staged: it looks for the bytes before they are ingested.         *)
\* Mutation: it looks at the archive as it was when the session began.
Existed_AtStart(image) == image \in objects \ fresh
Existed(image) == image \in objects
Ingest ==
    /\ pc = "ingest"
    /\ objects' = objects \cup {cur.image}
    /\ fresh' = fresh \cup ({cur.image} \ objects)
    /\ cur' = [cur EXCEPT !.existed = Existed(cur.image)]
    /\ pc' = "conclude"
    /\ UNCHANGED <<jobs, links, session, sessions, kills>>

(* A partial image gives warnings.  The block manager takes the outcome of *)
(* the ingest otherwise, which has warnings too when the identity index    *)
(* could not be rebuilt.                                                   *)
Outcomes(job) ==
    IF ~job.whole THEN {"COMPLETE_WITH_WARNINGS"}
    ELSE IF job.kind = "block" THEN Done ELSE {"COMPLETE"}
Conclude ==
    /\ pc = "conclude"
    /\ \E state \in Outcomes(Mine) :
         LET done == [Mine EXCEPT !.state = state, !.object = cur.image, !.hash = cur.image] IN
         SaveJob(done) /\ cur' = [cur EXCEPT !.mine = done]
    /\ pc' = IF Mine.medium # None THEN "link" ELSE "report"
    /\ UNCHANGED <<objects, links, session, sessions, fresh, kills>>

(* link_capture adds the relationship after the job file was written.      *)
Link ==
    /\ pc = "link"
    /\ links' = links \cup {[medium |-> Mine.medium, object |-> Mine.object, job |-> cur.job]}
    /\ Leave
    /\ UNCHANGED <<objects, jobs, session, sessions, fresh, kills>>

(* _post_capture and the counts.                                           *)
Report ==
    LET own == [cur.own EXCEPT !.media = @ + 1, !.successes = @ + 1,
                               !.duplicates = @ + (IF cur.existed THEN 1 ELSE 0)] IN
    /\ pc = "report" /\ NextMedium(own)
    /\ UNCHANGED <<objects, jobs, links, sessions, fresh, kills>>

(* Something raises: the tool, the comparison, the ingest, or the          *)
(* inventory and bookkeeping after it.  The optical manager gives FAILED   *)
(* only to a job that is still INSPECTING; a plan it cannot carry out has  *)
(* a state of its own, and so have a flux tool that times out and what is  *)
(* "unavailable" to it.                                                    *)
FailedStates(job) ==
    IF job.kind = "block" THEN {"FAILED"}
    ELSE IF job.kind = "flux"
         THEN {"FAILED", "TOOL_MISSING"} \cup (IF job.state = "CAPTURING" THEN {"TIMEOUT"} ELSE {})
    ELSE IF job.state = "INSPECTING" THEN {"FAILED", "TOOL_MISSING", "UNSUPPORTED"}
    ELSE {job.state}
Fail ==
    LET own == [cur.own EXCEPT !.media = @ + 1, !.failures = @ + 1] IN
    /\ AtWork
    /\ \E state \in FailedStates(Mine) : SaveJob([Mine EXCEPT !.state = state])
    /\ \/ ~InSession /\ Leave /\ UNCHANGED session
       \/ InSession /\ cur.batch /\ NextMedium(own)
       \/ InSession /\ ~cur.batch /\ SaveSession([own EXCEPT !.state = "INTERRUPTED"], "idle")
    /\ UNCHANGED <<objects, links, sessions, fresh, kills>>

(* Ctrl-C during a capture or its report: the finally clause of a capture  *)
(* saves the job as it is in memory, and a session ends as INTERRUPTED.    *)
Interrupt ==
    /\ AtWork \/ pc \in {"link", "report"}
    /\ IF AtWork THEN SaveJob(Mine) ELSE UNCHANGED jobs
    /\ IF InSession THEN SaveSession([cur.own EXCEPT !.state = "INTERRUPTED"], "idle")
                    ELSE Leave /\ UNCHANGED session
    /\ UNCHANGED <<objects, links, sessions, fresh, kills>>

(* A process that is killed runs no finally clause: its job file stays as  *)
(* it was begun.                                                           *)
Kill ==
    /\ pc # "idle" /\ kills < MaxKills
    /\ kills' = kills + 1 /\ Leave
    /\ UNCHANGED <<objects, jobs, links, session, sessions, fresh>>

CaptureNext ==
    \/ BeginSession \/ Abandon \/ Insert \/ Capture \/ Read \/ Ingest \/ Conclude
    \/ Link \/ Report \/ Fail \/ Interrupt \/ Kill

Next == \/ CaptureNext /\ UNCHANGED registryVars
        \/ RegistryNext /\ UNCHANGED captureVars
Spec == Init /\ [][Next]_vars

-----------------------------------------------------------------------------
(* A job that says it is done names an archived image, and what the job    *)
(* calls COMPLETE was read to the end; a medium is linked to an image only *)
(* through a job that is done and of that medium.                          *)
DoneIsArchived ==
    /\ \A j \in DOMAIN jobs : jobs[j].state \in Done =>
         jobs[j].object \in objects /\ (jobs[j].state = "COMPLETE" => jobs[j].whole)
    /\ \A k \in links : /\ jobs[k.job].state \in Done
                        /\ jobs[k.job].object = k.object /\ jobs[k.job].medium = k.medium

(* A repeat that is recorded as byte-identical has led to the same object  *)
(* as the capture it repeats, when both are done.                          *)
IdenticalRepeatsAgree ==
    \A j \in DOMAIN jobs :
        LET earlier == jobs[j].repeat IN
        (earlier # Nobody /\ {jobs[j].state, jobs[earlier].state} \subseteq Done) =>
            (jobs[j].identical <=> jobs[j].object = jobs[earlier].object)

(* The captures a session counts as successful and not as duplicates each  *)
(* brought new bytes into the archive (architecture.md:419-423).           *)
SessionCountsNewBytes ==
    session.state # "NONE" => session.successes - session.duplicates <= Cardinality(fresh)

(* The records of jobs and sessions agree with one another and with the    *)
(* archive (the three capture managers and PhysicalMediaOrchestrator).     *)
CaptureRecordsAgree == DoneIsArchived /\ IdenticalRepeatsAgree /\ SessionCountsNewBytes

(* "prompts for remove/insert confirmation; Ctrl-C marks the session        *)
(* interrupted" (architecture.md:424-425): when the command ends at the    *)
(* prompt for the next medium and is not killed, its session is marked.    *)
(* The code breaks it: the prompt lies outside the handler of Ctrl-C, and  *)
(* the session stays ACTIVE.                                               *)
PromptInterruptIsMarked ==
    [][pc = "prompt" /\ pc' = "idle" /\ kills' = kills => session'.state = "INTERRUPTED"]_vars
=============================================================================
