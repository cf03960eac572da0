------------------------ MODULE PreservationWorkflow ------------------------
(***************************************************************************)
(* One preservation run of preservation.py: the JSON run file under        *)
(* preservation-workflows/runs and the commands prepare, execute, resume   *)
(* and cancel that read it, work for a long time, and write it back.       *)
(*                                                                         *)
(* Each command is a process of its own (one invocation of rab preserve);  *)
(* nothing locks the run file.  A read and a write of the file that follow *)
(* each other directly (transition, cancel, the record of one capture) are *)
(* one step.  A copy of the run held across a capture, an analysis, a      *)
(* provider call or an index rebuild is read and written in two steps.     *)
(***************************************************************************)
EXTENDS Naturals, FiniteSets

CONSTANTS
    Workers,        \* processes that issue commands for this run
    May,            \* May[w]: the commands process w issues
    Images,         \* contents that reading the medium may yield
    Repeats,        \* capture_repeats of the run's profile
    RequireMatch,   \* require_repeat_match of the run's profile
    MalwareProfile, \* TRUE if the profile names a malware profile
    MaxCrashes      \* bound on interrupted commands

Commands == {"prepare", "execute", "resume", "cancel"}

ASSUME RepeatsAssumption == Repeats \in Nat \ {0}
ASSUME CrashAssumption == MaxCrashes \in Nat
ASSUME FlagAssumption == RequireMatch \in BOOLEAN /\ MalwareProfile \in BOOLEAN
ASSUME MayAssumption == May \in [Workers -> SUBSET Commands]

Terminal == {"COMPLETE", "COMPLETE_WITH_WARNINGS", "PARTIAL", "UNSUPPORTED",
             "FAILED", "CANCELLED"}
States == Terminal \cup
    {"CREATED", "WAITING_FOR_MEDIA", "MEDIA_DETECTED", "INSPECTING",
     "NEEDS_METADATA", "READY_TO_CAPTURE", "CAPTURING", "DEVICE_REMOVED",
     "VERIFYING", "PRESERVED", "ANALYZING", "MALWARE_ANALYSIS", "IDENTIFYING",
     "BUILDING_PRODUCTS", "NEEDS_OPERATOR", "TOOL_MISSING"}

(* TRANSITIONS; a terminal state has no entry.                             *)
Transitions == [s \in States |->
    IF s \in Terminal THEN {} ELSE {"CANCELLED"} \cup
    CASE s = "CREATED" -> {"WAITING_FOR_MEDIA", "MEDIA_DETECTED", "NEEDS_OPERATOR"}
      [] s = "WAITING_FOR_MEDIA" -> {"MEDIA_DETECTED"}
      [] s = "MEDIA_DETECTED" -> {"INSPECTING", "NEEDS_OPERATOR"}
      [] s = "INSPECTING" -> {"NEEDS_METADATA", "READY_TO_CAPTURE", "NEEDS_OPERATOR",
                              "TOOL_MISSING", "UNSUPPORTED", "FAILED"}
      [] s = "NEEDS_METADATA" -> {"READY_TO_CAPTURE", "NEEDS_OPERATOR"}
      [] s = "READY_TO_CAPTURE" -> {"CAPTURING", "NEEDS_OPERATOR", "FAILED"}
      [] s = "CAPTURING" -> {"VERIFYING", "PARTIAL", "DEVICE_REMOVED", "FAILED"}
      [] s = "DEVICE_REMOVED" -> {"PARTIAL", "FAILED"}
      [] s = "VERIFYING" -> {"PRESERVED", "NEEDS_OPERATOR", "PARTIAL", "FAILED"}
      [] s = "PRESERVED" -> {"ANALYZING", "IDENTIFYING", "BUILDING_PRODUCTS",
                             "COMPLETE", "COMPLETE_WITH_WARNINGS"}
      [] s = "ANALYZING" -> {"MALWARE_ANALYSIS", "IDENTIFYING",
                             "COMPLETE_WITH_WARNINGS", "NEEDS_OPERATOR", "FAILED"}
      [] s = "MALWARE_ANALYSIS" -> {"IDENTIFYING", "COMPLETE_WITH_WARNINGS"}
      [] s = "IDENTIFYING" -> {"BUILDING_PRODUCTS", "COMPLETE_WITH_WARNINGS"}
      [] s = "BUILDING_PRODUCTS" -> {"COMPLETE", "COMPLETE_WITH_WARNINGS"}
      [] s = "NEEDS_OPERATOR" -> {"READY_TO_CAPTURE", "ANALYZING",
                                  "MALWARE_ANALYSIS", "IDENTIFYING"}
      [] s = "TOOL_MISSING" -> {"READY_TO_CAPTURE", "COMPLETE_WITH_WARNINGS"}]

(* The fields of the run file that decide what a command does next.        *)
Run == [state : States,
        captures : 0..(Repeats * Cardinality(Workers)), \* len(run["captures"])
        objects : SUBSET Images,     \* run["preservation_objects"]
        analysed : BOOLEAN,          \* run["analysis_jobs"] is not empty
        scanned : BOOLEAN,           \* run["malware_jobs"] is not empty
        identified : BOOLEAN,        \* run["identity"] is not empty
        built : BOOLEAN,             \* run["products"] is not empty
        warned : BOOLEAN,            \* run["warnings"] is not empty
        review : BOOLEAN]            \* run["review_reasons"] is not empty

VARIABLES
    run,       \* the run file
    step,      \* step[w]: where w's command is, "idle" when it has none
    copy,      \* copy[w]: the run as w's command read it last
    taken,     \* captures w's execute has made in its loop
    warnings,  \* the local list "warnings" of w's _downstream is not empty
    crashes,   \* commands interrupted so far
    reads,     \* history: how often the medium was read
    verified,  \* history: images whose master archive.verify has re-hashed
    rejected   \* history: commands ended by PolicyError, as <<command, state>>

progress == <<reads, verified>>
vars == <<run, step, copy, taken, warnings, crashes, progress, rejected>>

NewRun == [state |-> "CREATED", captures |-> 0, objects |-> {}, analysed |-> FALSE,
           scanned |-> FALSE, identified |-> FALSE, built |-> FALSE,
           warned |-> FALSE, review |-> FALSE]

Init ==
    /\ run = NewRun
    /\ step = [w \in Workers |-> "idle"]
    /\ copy = [w \in Workers |-> NewRun]
    /\ taken = [w \in Workers |-> 0]
    /\ warnings = [w \in Workers |-> FALSE]
    /\ crashes = 0
    /\ reads = 0
    /\ verified = {}
    /\ rejected = {}

Goto(w, s) == step' = [step EXCEPT ![w] = s]
Issues(w, command) == step[w] = "idle" /\ command \in May[w]

(* transition() on the file as it is now; PolicyError ends the command.    *)
(* The caller reads the file again, so copy becomes the new file.          *)
Transition(w, command, new, next) ==
    \/ /\ new \in Transitions[run.state]
       /\ run' = [run EXCEPT !.state = new]
       /\ copy' = [copy EXCEPT ![w] = run']
       /\ Goto(w, next)
       /\ UNCHANGED rejected
    \/ /\ new \notin Transitions[run.state]
       /\ rejected' = rejected \cup {<<command, run.state>>}
       /\ Goto(w, "idle")
       /\ UNCHANGED <<run, copy>>

Return(w) == Goto(w, "idle") /\ UNCHANGED <<run, copy, rejected>>

-----------------------------------------------------------------------------
(* prepare, for the run its process has just created.                      *)

Prepare(w) ==
    /\ Issues(w, "prepare")
    /\ run.state = "CREATED"
    /\ \/ Transition(w, "prepare", "MEDIA_DETECTED", "detected")
       \/ \* media.candidate() refuses: none, or several, without --candidate
          /\ run' = [run EXCEPT !.warned = TRUE, !.state = "NEEDS_OPERATOR"]
          /\ copy' = [copy EXCEPT ![w] = run']
          /\ UNCHANGED <<step, rejected>>
    /\ UNCHANGED <<taken, warnings, crashes, progress>>

StartInspection(w) ==
    /\ step[w] = "detected"
    /\ Transition(w, "prepare", "INSPECTING", "inspecting")
    /\ UNCHANGED <<taken, warnings, crashes, progress>>

(* media.plan() has answered; the review reason is saved before the        *)
(* transition, so it stays when the transition is refused.                 *)
FinishInspection(w) ==
    /\ step[w] = "inspecting"
    /\ \/ Transition(w, "prepare", "READY_TO_CAPTURE", "idle")
       \/ /\ Goto(w, "idle")
          /\ IF "NEEDS_OPERATOR" \in Transitions[run.state]
             THEN /\ run' = [run EXCEPT !.review = TRUE, !.state = "NEEDS_OPERATOR"]
                  /\ UNCHANGED rejected
             ELSE /\ run' = [run EXCEPT !.review = TRUE]
                  /\ rejected' = rejected \cup {<<"prepare", run.state>>}
          /\ copy' = [copy EXCEPT ![w] = run']
    /\ UNCHANGED <<taken, warnings, crashes, progress>>

-----------------------------------------------------------------------------
(* execute.                                                                *)

BeginExecute(w, command) ==
    /\ copy' = [copy EXCEPT ![w] = run]
    /\ \/ /\ run.state \in Terminal \cup {"NEEDS_OPERATOR"}
          /\ UNCHANGED <<step, rejected>>
       \/ /\ run.state \notin Terminal \cup {"NEEDS_OPERATOR"}
          /\ run.objects # {}
          /\ Goto(w, "downstream")
          /\ UNCHANGED rejected
       \/ /\ run.state = "READY_TO_CAPTURE"
          /\ run.objects = {}
          /\ Goto(w, "space")
          /\ UNCHANGED rejected
       \/ /\ run.state \notin Terminal \cup {"NEEDS_OPERATOR", "READY_TO_CAPTURE"}
          /\ run.objects = {}
          /\ rejected' = rejected \cup {<<command, run.state>>}
          /\ UNCHANGED step
    /\ taken' = [taken EXCEPT ![w] = 0]
    /\ warnings' = [warnings EXCEPT ![w] = FALSE]
    /\ UNCHANGED <<run, crashes, progress>>

Execute(w) == Issues(w, "execute") /\ BeginExecute(w, "execute")

(* _space_check; a failure saves the copy (READY_TO_CAPTURE) and then goes *)
(* to FAILED.                                                              *)
CheckSpace(w) ==
    /\ step[w] = "space"
    /\ \/ Transition(w, "execute", "CAPTURING", "capture")
       \/ /\ run' = [copy[w] EXCEPT !.state = "FAILED"]
          /\ copy' = [copy EXCEPT ![w] = run']
          /\ Goto(w, "idle")
          /\ UNCHANGED rejected
    /\ UNCHANGED <<taken, warnings, crashes, progress>>

(* Mutation: the record keeps the last master only.                        *)
Capture_Last(w) ==
    /\ step[w] = "capture"
    /\ \E image \in Images :
          run' = [run EXCEPT !.captures = @ + 1, !.objects = {image}]
    /\ copy' = [copy EXCEPT ![w] = run']
    /\ reads' = reads + 1
    /\ taken' = [taken EXCEPT ![w] = @ + 1]
    /\ Goto(w, IF taken[w] + 1 < Repeats THEN "capture" ELSE "captured")
    /\ UNCHANGED <<warnings, crashes, verified, rejected>>

(* media._capture: reads the medium and ingests the image; a read that     *)
(* stops early keeps what it has and returns like a complete one.  The     *)
(* result is recorded in a freshly read run.                               *)
Capture(w) ==
    /\ step[w] = "capture"
    /\ \E image \in Images :
          run' = [run EXCEPT !.captures = @ + 1, !.objects = @ \cup {image}]
    /\ copy' = [copy EXCEPT ![w] = run']
    /\ reads' = reads + 1
    /\ taken' = [taken EXCEPT ![w] = @ + 1]
    /\ Goto(w, IF taken[w] + 1 < Repeats THEN "capture" ELSE "captured")
    /\ UNCHANGED <<warnings, crashes, verified, rejected>>

(* The capture raises: device gone, tool failed, ingest refused.           *)
CaptureFails(w) ==
    /\ step[w] = "capture"
    /\ Transition(w, "execute", IF run.objects = {} THEN "FAILED" ELSE "PARTIAL", "idle")
    /\ reads' = reads + 1
    /\ UNCHANGED <<taken, warnings, crashes, verified>>

StartVerification(w) ==
    /\ step[w] = "captured"
    /\ Transition(w, "execute", "VERIFYING", "verify")
    /\ UNCHANGED <<taken, warnings, crashes, progress>>

(* Mutation: compares against the wrong count.                             *)
Disagree_OffByOne(r) == Cardinality(r.objects) > 2 /\ RequireMatch

(* Repeated reads that disagree go to the operator; otherwise every master *)
(* is hashed again.                                                        *)
Disagree(r) == Cardinality(r.objects) > 1 /\ RequireMatch

SendToReview(w) ==
    /\ step[w] = "verify"
    /\ Disagree(copy[w])
    /\ run' = [copy[w] EXCEPT !.review = TRUE, !.state = "NEEDS_OPERATOR"]
    /\ copy' = [copy EXCEPT ![w] = run']
    /\ Goto(w, "idle")
    /\ UNCHANGED <<taken, warnings, crashes, progress, rejected>>

Verify(w) ==
    /\ step[w] = "verify"
    /\ ~Disagree(copy[w])
    /\ verified' = verified \cup copy[w].objects
    /\ Transition(w, "execute", "PRESERVED", "downstream")
    /\ UNCHANGED <<taken, warnings, crashes, reads>>

-----------------------------------------------------------------------------
(* _downstream, entered by execute and by resume.                          *)

StartAnalysis(w) ==
    /\ step[w] = "downstream"
    /\ ~copy[w].analysed
    /\ Transition(w, "downstream", "ANALYZING", "analyze")
    /\ UNCHANGED <<taken, warnings, crashes, progress>>

(* The analyses run on the immutable masters; then the copy read before    *)
(* them is saved.                                                          *)
FinishAnalysis(w) ==
    /\ step[w] = "analyze"
    /\ run' = [copy[w] EXCEPT !.analysed = TRUE]
    /\ copy' = [copy EXCEPT ![w] = run']
    /\ \E warn \in BOOLEAN : warnings' = [warnings EXCEPT ![w] = @ \/ warn]
    /\ Goto(w, "analysed")
    /\ UNCHANGED <<taken, crashes, progress, rejected>>

StartMalware(w) ==
    /\ \/ step[w] = "analysed"
       \/ step[w] = "downstream" /\ copy[w].analysed
    /\ Transition(w, "downstream", "MALWARE_ANALYSIS", "malware")
    /\ UNCHANGED <<taken, warnings, crashes, progress>>

FinishMalware(w) ==
    /\ step[w] = "malware"
    /\ run' = [copy[w] EXCEPT !.scanned = @ \/ MalwareProfile]
    /\ copy' = [copy EXCEPT ![w] = run']
    /\ \E warn \in (IF MalwareProfile /\ ~copy[w].scanned THEN BOOLEAN ELSE {FALSE}) :
          warnings' = [warnings EXCEPT ![w] = @ \/ warn]
    /\ Goto(w, "scanned")
    /\ UNCHANGED <<taken, crashes, progress, rejected>>

(* Mutation: the two last stages swapped.                                  *)
StartIdentity_Swapped(w) ==
    /\ step[w] = "scanned"
    /\ Transition(w, "downstream", "BUILDING_PRODUCTS", "identity")
    /\ UNCHANGED <<taken, warnings, crashes, progress>>

StartIdentity(w) ==
    /\ step[w] = "scanned"
    /\ Transition(w, "downstream", "IDENTIFYING", "identity")
    /\ UNCHANGED <<taken, warnings, crashes, progress>>

FinishIdentity(w) ==
    /\ step[w] = "identity"
    /\ run' = IF copy[w].identified THEN run ELSE [copy[w] EXCEPT !.identified = TRUE]
    /\ copy' = [copy EXCEPT ![w] = run']
    /\ Goto(w, "identified")
    /\ UNCHANGED <<taken, warnings, crashes, progress, rejected>>

StartProducts(w) ==
    /\ step[w] = "identified"
    /\ Transition(w, "downstream", "BUILDING_PRODUCTS", "products")
    /\ UNCHANGED <<taken, warnings, crashes, progress>>

(* A product that fails becomes a warning; so the list may stay empty.     *)
FinishProducts(w) ==
    /\ step[w] = "products"
    /\ \E some, all \in (IF copy[w].built THEN {TRUE} ELSE BOOLEAN) :
          /\ some \/ ~all
          /\ run' = [copy[w] EXCEPT !.built = some,
                                    !.warned = @ \/ warnings[w] \/ ~all]
    /\ copy' = [copy EXCEPT ![w] = run']
    /\ Goto(w, "built")
    /\ UNCHANGED <<taken, warnings, crashes, progress, rejected>>

Finish(w) ==
    /\ step[w] = "built"
    /\ Transition(w, "downstream",
          IF copy[w].warned THEN "COMPLETE_WITH_WARNINGS" ELSE "COMPLETE", "idle")
    /\ UNCHANGED <<taken, warnings, crashes, progress>>

-----------------------------------------------------------------------------
(* resume, cancel and interruption.                                        *)

(* Mutation: a resumed run skips analysis and malware.                     *)
Resume_Late(w) ==
    /\ Issues(w, "resume")
    /\ \/ /\ run.state \notin Terminal
          /\ run.objects # {}
          /\ run' = [run EXCEPT !.state = "PRESERVED"]
          /\ copy' = [copy EXCEPT ![w] = run']
          /\ Goto(w, "scanned")
          /\ taken' = [taken EXCEPT ![w] = 0]
          /\ warnings' = [warnings EXCEPT ![w] = FALSE]
          /\ UNCHANGED <<crashes, progress, rejected>>
       \/ /\ run.state \notin Terminal
          /\ run.objects = {}
          /\ BeginExecute(w, "resume")

(* resume forces a run with recorded objects back to PRESERVED, whatever   *)
(* its state, and goes downstream; without objects it is execute.          *)
Resume(w) ==
    /\ Issues(w, "resume")
    /\ \/ /\ run.state \notin Terminal
          /\ run.objects # {}
          /\ run' = [run EXCEPT !.state = "PRESERVED"]
          /\ copy' = [copy EXCEPT ![w] = run']
          /\ Goto(w, "downstream")
          /\ taken' = [taken EXCEPT ![w] = 0]
          /\ warnings' = [warnings EXCEPT ![w] = FALSE]
          /\ UNCHANGED <<crashes, progress, rejected>>
       \/ /\ run.state \notin Terminal
          /\ run.objects = {}
          /\ BeginExecute(w, "resume")

Cancel(w) ==
    /\ Issues(w, "cancel")
    /\ run.state \notin Terminal
    /\ Transition(w, "cancel", "CANCELLED", "idle")
    /\ UNCHANGED <<taken, warnings, crashes, progress>>

(* The process dies, or something a command calls raises what the command  *)
(* does not catch: the run file stays as it was saved last.  A capture may *)
(* have read the medium, and even ingested the image, by then.             *)
Crash(w) ==
    /\ step[w] # "idle"
    /\ crashes < MaxCrashes
    /\ crashes' = crashes + 1
    /\ reads' = IF step[w] = "capture" THEN reads + 1 ELSE reads
    /\ Goto(w, "idle")
    /\ UNCHANGED <<run, copy, taken, warnings, verified, rejected>>

CommandStep(w) ==
    \/ StartInspection(w) \/ FinishInspection(w)
    \/ CheckSpace(w) \/ Capture(w) \/ CaptureFails(w) \/ StartVerification(w)
    \/ SendToReview(w) \/ Verify(w)
    \/ StartAnalysis(w) \/ FinishAnalysis(w) \/ StartMalware(w) \/ FinishMalware(w)
    \/ StartIdentity(w) \/ FinishIdentity(w) \/ StartProducts(w) \/ FinishProducts(w)
    \/ Finish(w)

Next == \E w \in Workers :
    \/ Prepare(w) \/ Execute(w) \/ Resume(w) \/ Cancel(w)
    \/ CommandStep(w)
    \/ Crash(w)

Spec == Init /\ [][Next]_vars

(* A command that has started runs on: every tool it calls has a timeout.  *)
FairCommands == \A w \in Workers : WF_vars(CommandStep(w))
FairSpec == Spec /\ FairCommands

(* The operator, besides, resumes the run again and again.                 *)
ResumingSpec == FairSpec /\ \A w \in Workers : SF_vars(Resume(w))

-----------------------------------------------------------------------------
(* Properties.                                                             *)

Steps == {"idle", "detected", "inspecting", "space", "capture", "captured",
          "verify", "downstream", "analyze", "analysed", "malware", "scanned",
          "identity", "identified", "products", "built"}

(* Every variable holds a value of its kind.                               *)
TypeOK ==
    /\ run \in Run
    /\ step \in [Workers -> Steps]
    /\ copy \in [Workers -> Run]
    /\ taken \in [Workers -> 0..Repeats]
    /\ warnings \in [Workers -> BOOLEAN]
    /\ crashes \in 0..MaxCrashes
    /\ reads \in Nat
    /\ verified \subseteq Images
    /\ rejected \subseteq (Commands \cup {"downstream"}) \X States

(* However often the operator executes and resumes a run, whenever it was  *)
(* interrupted, the medium is read no more than the profile asks for:      *)
(* resume enters _downstream or refuses.                                   *)
MediumReadAtMost == reads <= Repeats

Completed == run.state \in {"COMPLETE", "COMPLETE_WITH_WARNINGS"}

(* A run reported complete has been through every stage of its profile,    *)
(* over all the crashes and resumes it took to get there.                  *)
CompleteHasEvidence ==
    Completed =>
        /\ run.objects # {} /\ run.captures > 0
        /\ run.analysed /\ run.identified
        /\ MalwareProfile => run.scanned
        /\ run.built \/ run.warned

(* Nothing a command saves takes a recorded master, capture or review      *)
(* reason out of the run file again.                                       *)
RecordKept ==
    [][/\ run.objects \subseteq run'.objects
       /\ run.captures <= run'.captures
       /\ run.review => run'.review]_vars

(* A run that ended stays as it ended.                                     *)
TerminalIsFinal == [][run.state \in Terminal => run'.state = run.state]_vars

(* What the run file has recorded stands, whichever commands follow.       *)
RecordStands == RecordKept /\ TerminalIsFinal

(* No stage of a cancelled run is entered any more.                        *)
CancelStopsSteps ==
    [][run.state = "CANCELLED" =>
          run'.state \notin {"ANALYZING", "MALWARE_ANALYSIS", "IDENTIFYING",
                            "BUILDING_PRODUCTS"}]_vars

ReadsAgree ==
    /\ run.captures = Repeats
    /\ Cardinality(run.objects) = 1
    /\ run.objects \subseteq verified

(* A run whose profile requires repeated reads to agree completes only     *)
(* with all its reads made, all equal, and the master re-hashed.           *)
RepeatAgreement == RequireMatch /\ Completed => ReadsAgree

(* The same for a run that was neither interrupted nor sent to review.     *)
UndisturbedRunAgrees ==
    RequireMatch /\ Completed /\ crashes = 0 /\ ~run.review => ReadsAgree

(* The medium is read as the capture profile says: never more often, and,  *)
(* unless the run was interrupted or sent to review, with reads that agree.*)
ReadsFollowProfile == MediumReadAtMost /\ UndisturbedRunAgrees

(* An execute that begins to capture ends the run or hands it to the       *)
(* operator, unless it is interrupted: no transition on its way is         *)
(* refused.                                                                *)
CapturedRunEnds ==
    (run.state = "CAPTURING")
        ~> (run.state \in Terminal \cup {"NEEDS_OPERATOR"} \/ crashes > 0)

(* A run with a recorded master that the operator keeps resuming ends.     *)
ResumeCompletes == (run.objects # {}) ~> (run.state \in Terminal)
=============================================================================
