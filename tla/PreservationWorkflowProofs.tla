--------------------- MODULE PreservationWorkflowProofs ---------------------
(***************************************************************************)
(* Proofs about PreservationWorkflow for a run whose commands follow each  *)
(* other: one operator process, which issues whatever it may, in any order *)
(* and with any interruptions.  (Two processes that overlap do overwrite   *)
(* each other's run; TLC shows it.)                                        *)
(*                                                                         *)
(* The argument: without a second process, the copy a command holds is the *)
(* run file, so nothing recorded is lost.  The medium is read only on the  *)
(* way from READY_TO_CAPTURE, a state no run comes back to.  What a stage  *)
(* of _downstream has recorded is there at every later stage.              *)
(***************************************************************************)
EXTENDS PreservationWorkflow, FiniteSetTheorems, TLAPS

OneOperator == \E w : Workers = {w}

-----------------------------------------------------------------------------
(* The inductive invariant, as a predicate of the step s a command is at,  *)
(* the run r, the captures t it has taken, the reads n, the verified       *)
(* images v and the crashes c.                                             *)

Early == {"CREATED", "MEDIA_DETECTED", "INSPECTING", "READY_TO_CAPTURE"}
CaptureSteps == {"capture", "captured", "verify"}
AfterProducts == {"built"}
AfterIdentity == {"identified", "products"} \cup AfterProducts
AfterMalware == {"scanned", "identity"} \cup AfterIdentity
AfterAnalysis == {"analysed", "malware"} \cup AfterMalware
DownstreamSteps == {"downstream", "analyze"} \cup AfterAnalysis

(* The state of the run at each step of capturing.                         *)
CaptureOrder(s, r, t, n) ==
    /\ s # "idle" => r.state \notin Terminal
    /\ s = "detected" => r.state = "MEDIA_DETECTED"
    /\ s = "inspecting" => r.state = "INSPECTING"
    /\ s = "space" => r.state = "READY_TO_CAPTURE" /\ t = 0
    /\ s = "capture" => r.state = "CAPTURING" /\ t = n /\ r.captures = n /\ n < Repeats
    /\ s = "captured" => r.state = "CAPTURING"
    /\ s = "verify" => r.state = "VERIFYING"
    /\ s \in {"captured", "verify"} => r.captures = Repeats /\ r.objects # {}

(* What the run records at each step of _downstream.                       *)
StageRecords(s, r) ==
    /\ s \in DownstreamSteps => r.objects # {}
    /\ s \in AfterAnalysis => r.analysed
    /\ s \in AfterMalware => (MalwareProfile => r.scanned)
    /\ s \in AfterIdentity => r.identified
    /\ s \in AfterProducts => r.built \/ r.warned

(* Every capture was a read; a run that has read nothing is early.         *)
ReadsCounted(r, n) ==
    /\ r.state \in Early => n = 0 /\ r.captures = 0 /\ r.objects = {}
    /\ r.captures <= n /\ n <= Repeats
    /\ r.objects # {} => r.captures > 0
    /\ IsFiniteSet(r.objects)

(* A run that got past verification in one go has reads that agree.        *)
Agreed(s, r, v, c) ==
    RequireMatch /\ c = 0 /\ ~r.review /\ r.objects # {} /\ s \notin CaptureSteps
      /\ r.state # "PARTIAL"
    => r.captures = Repeats /\ Cardinality(r.objects) = 1 /\ r.objects \subseteq v

Evidenced(r) ==
    r.state \in {"COMPLETE", "COMPLETE_WITH_WARNINGS"} =>
        /\ r.objects # {} /\ r.captures > 0
        /\ r.analysed /\ r.identified
        /\ MalwareProfile => r.scanned
        /\ r.built \/ r.warned

Good(s, r, t, n, v, c) ==
    /\ CaptureOrder(s, r, t, n) /\ StageRecords(s, r) /\ ReadsCounted(r, n)
    /\ Agreed(s, r, v, c) /\ Evidenced(r)

(* The copy of a command that runs is the run file.                        *)
WorkflowInv ==
    /\ TypeOK
    /\ \A w \in Workers :
        /\ step[w] # "idle" => copy[w] = run
        /\ Good(step[w], run, taken[w], reads, verified, crashes)

-----------------------------------------------------------------------------
(* The transitions the argument rests on: a state that ended has none, and *)
(* the way through capturing is never refused.                             *)
LEMMA TransitionFacts ==
    /\ \A s \in Terminal : Transitions[s] = {}
    /\ {"PARTIAL", "FAILED", "VERIFYING"} \subseteq Transitions["CAPTURING"]
    /\ "PRESERVED" \in Transitions["VERIFYING"]
BY DEF Transitions, States, Terminal

(* A run with some of its fields changed is a run with these fields.       *)
LEMMA RunUpdates ==
    ASSUME NEW r \in Run
    PROVE  /\ \A s \in States : [r EXCEPT !.state = s] \in Run
           /\ \A s \in States : [r EXCEPT !.review = TRUE, !.state = s] \in Run
           /\ \A s \in States : [r EXCEPT !.warned = TRUE, !.state = s] \in Run
           /\ [r EXCEPT !.review = TRUE] \in Run
           /\ [r EXCEPT !.analysed = TRUE] \in Run
           /\ [r EXCEPT !.identified = TRUE] \in Run
           /\ [r EXCEPT !.scanned = @ \/ MalwareProfile] \in Run
           /\ \A b, d \in BOOLEAN : [r EXCEPT !.built = b, !.warned = @ \/ d] \in Run
BY FlagAssumption DEF Run

(* What the operator's step to s, with the run r, has to establish.        *)
LEMMA Arrive ==
    ASSUME WorkflowInv, NEW w \in Workers, Workers = {w},
           NEW s \in Steps, step' = [step EXCEPT ![w] = s],
           run' \in Run, copy' \in [Workers -> Run], s # "idle" => copy'[w] = run',
           taken' \in [Workers -> 0..Repeats], warnings' \in [Workers -> BOOLEAN],
           crashes' \in 0..MaxCrashes, reads' \in Nat, verified' \subseteq Images,
           rejected' \subseteq (Commands \cup {"downstream"}) \X States,
           Good(s, run', taken'[w], reads', verified', crashes')
    PROVE  WorkflowInv'
<1>1. step \in [Workers -> Steps]
  BY DEF WorkflowInv, TypeOK
<1>2. TypeOK'
  BY <1>1 DEF TypeOK
<1>3. step'[w] = s
  BY <1>1
<1>4. QED
  BY <1>2, <1>3 DEF WorkflowInv, Good, CaptureOrder, StageRecords, ReadsCounted, Agreed, Evidenced

(* What stands in the record of a run r that becomes q.                    *)
Stands(r, q) ==
    /\ r.objects \subseteq q.objects /\ r.captures <= q.captures
    /\ r.review => q.review
    /\ r.state \in Terminal => q.state = r.state

(* A transition keeps the invariant when both its outcomes do.             *)
LEMMA TransitionStep ==
    ASSUME WorkflowInv, NEW w \in Workers, Workers = {w},
           NEW command \in Commands \cup {"downstream"}, NEW new \in States, NEW next \in Steps,
           Transition(w, command, new, next),
           taken' = taken, warnings' = warnings, crashes' = crashes, reads' \in Nat,
           verified' \subseteq Images,
           run.state \notin Terminal => Good(next, [run EXCEPT !.state = new], taken[w], reads', verified', crashes),
           new \notin Transitions[run.state] => Good("idle", run, taken[w], reads', verified', crashes)
    PROVE  WorkflowInv' /\ Stands(run, run')
<1>0. TypeOK /\ run \in Run /\ run.state \in States /\ run.captures \in Nat
  BY DEF WorkflowInv, TypeOK, Run
<1>1. CASE new \in Transitions[run.state]
  <2>1. /\ run' = [run EXCEPT !.state = new] /\ copy' = [copy EXCEPT ![w] = run']
        /\ step' = [step EXCEPT ![w] = next] /\ rejected' = rejected
    BY <1>1 DEF Transition, Goto
  <2>2. run' \in Run /\ copy' \in [Workers -> Run] /\ copy'[w] = run'
    BY <1>0, <2>1, RunUpdates DEF TypeOK
  <2>3. run.state \notin Terminal
    BY <1>1, TransitionFacts
  <2>4. WorkflowInv'
    BY <1>0, <2>1, <2>2, <2>3, Arrive DEF TypeOK
  <2>5. QED
    BY <1>0, <2>1, <2>3, <2>4 DEF Stands, Run
<1>2. CASE new \notin Transitions[run.state]
  <2>1. /\ run' = run /\ copy' = copy /\ step' = [step EXCEPT ![w] = "idle"]
        /\ rejected' = rejected \cup {<<command, run.state>>}
    BY <1>2 DEF Transition, Goto
  <2>2. "idle" \in Steps
    BY DEF Steps
  <2>3. rejected' \subseteq (Commands \cup {"downstream"}) \X States
    BY <1>0, <2>1 DEF TypeOK
  <2>4. Good("idle", run', taken'[w], reads', verified', crashes')
    BY <1>2, <2>1
  <2>5. WorkflowInv'
    BY <1>0, <2>1, <2>2, <2>3, <2>4, Arrive DEF TypeOK
  <2>6. QED
    BY <1>0, <2>1, <2>5 DEF Stands
<1>3. QED
  BY <1>1, <1>2

(* Where a command writes the run file, or only goes on.                   *)
LEMMA WriteStep ==
    ASSUME WorkflowInv, NEW w \in Workers, Workers = {w}, NEW s \in Steps,
           step' = [step EXCEPT ![w] = s], run' \in Run, copy' = [copy EXCEPT ![w] = run'],
           taken' \in [Workers -> 0..Repeats], warnings' \in [Workers -> BOOLEAN],
           crashes' = crashes, reads' \in Nat, verified' = verified,
           rejected' \subseteq (Commands \cup {"downstream"}) \X States,
           Good(s, run', taken'[w], reads', verified, crashes), Stands(run, run')
    PROVE  WorkflowInv' /\ Stands(run, run')
<1>1. TypeOK
  BY DEF WorkflowInv
<1>2. copy' \in [Workers -> Run] /\ copy'[w] = run'
  BY <1>1 DEF TypeOK
<1>3. QED
  BY <1>1, <1>2, Arrive DEF TypeOK

-----------------------------------------------------------------------------
(* One step of the operator's process keeps the invariant and the record.  *)
LEMMA OperatorStep ==
    ASSUME WorkflowInv, NEW w \in Workers, Workers = {w}, [Next]_vars
    PROVE  WorkflowInv' /\ Stands(run, run')
<1>0. /\ TypeOK /\ run \in Run /\ run.state \in States /\ run.captures \in Nat /\ reads \in Nat
      /\ Good(step[w], run, taken[w], reads, verified, crashes)
      /\ step[w] # "idle" => copy[w] = run
      /\ Repeats \in Nat \ {0} /\ taken[w] \in 0..Repeats
  BY RepeatsAssumption DEF WorkflowInv, TypeOK, Run
<1> USE DEF progress, Goto
<1>1. ASSUME Prepare(w) PROVE WorkflowInv' /\ Stands(run, run')
  <2>0. step[w] = "idle" /\ run.state = "CREATED"
    BY <1>1 DEF Prepare, Issues
  <2>2. CASE Transition(w, "prepare", "MEDIA_DETECTED", "detected")
    <3>1. Good("detected", [run EXCEPT !.state = "MEDIA_DETECTED"], taken[w], reads, verified, crashes)
      BY <1>0, <2>0
      DEF Good, CaptureOrder, StageRecords, ReadsCounted, Agreed, Evidenced, Run, Early, Terminal,
          DownstreamSteps, AfterAnalysis, AfterMalware, AfterIdentity, AfterProducts, CaptureSteps
    <3>2. Good("idle", run, taken[w], reads, verified, crashes)
      BY <1>0, <2>0
    <3>3. QED
      BY <1>0, <1>1, <2>2, <3>1, <3>2, TransitionStep DEF Prepare, Commands, States, Steps, TypeOK
  <2>3. CASE ~Transition(w, "prepare", "MEDIA_DETECTED", "detected")
    <3>1. /\ run' = [run EXCEPT !.warned = TRUE, !.state = "NEEDS_OPERATOR"]
          /\ step' = [step EXCEPT ![w] = "idle"] /\ copy' = [copy EXCEPT ![w] = run']
          /\ UNCHANGED <<taken, warnings, crashes, reads, verified, rejected>>
      BY <1>0, <1>1, <2>0, <2>3 DEF Prepare, TypeOK
    <3>2. run' \in Run
      BY <1>0, <3>1, RunUpdates DEF States
    <3>3. Good("idle", run', taken[w], reads, verified, crashes)
      BY <1>0, <2>0, <3>1
      DEF Good, CaptureOrder, StageRecords, ReadsCounted, Agreed, Evidenced, Run, Early, Terminal,
          DownstreamSteps, AfterAnalysis, AfterMalware, AfterIdentity, AfterProducts, CaptureSteps
    <3>4. Stands(run, run')
      BY <1>0, <2>0, <3>1 DEF Stands, Run, Terminal
    <3>5. QED
      BY <1>0, <3>1, <3>2, <3>3, <3>4, WriteStep DEF TypeOK, Steps
  <2>4. QED
    BY <2>2, <2>3
<1>2. ASSUME StartInspection(w) PROVE WorkflowInv' /\ Stands(run, run')
  <2>0. /\ step[w] = "detected"
        /\ Transition(w, "prepare", "INSPECTING", "inspecting")
        /\ UNCHANGED <<taken, warnings, crashes, reads, verified>>
    BY <1>2 DEF StartInspection
  <2>1. run.state \notin Terminal
          => Good("inspecting", [run EXCEPT !.state = "INSPECTING"], taken[w], reads, verified, crashes)
    BY <1>0, <2>0
    DEF Good, CaptureOrder, StageRecords, ReadsCounted, Agreed, Evidenced, Run, Early, Terminal,
          DownstreamSteps, AfterAnalysis, AfterMalware, AfterIdentity, AfterProducts, CaptureSteps
  <2>2. Good("idle", run, taken[w], reads, verified, crashes)
    BY <1>0, <2>0
    DEF Good, CaptureOrder, StageRecords, ReadsCounted, Agreed, Evidenced, Run, Early, Terminal,
          DownstreamSteps, AfterAnalysis, AfterMalware, AfterIdentity, AfterProducts, CaptureSteps
  <2>3. QED
    BY <1>0, <2>0, <2>1, <2>2, TransitionStep DEF Commands, States, Steps, TypeOK
<1>3. ASSUME StartVerification(w) PROVE WorkflowInv' /\ Stands(run, run')
  <2>0. /\ step[w] = "captured"
        /\ Transition(w, "execute", "VERIFYING", "verify")
        /\ UNCHANGED <<taken, warnings, crashes, reads, verified>>
    BY <1>3 DEF StartVerification
  <2>1. run.state \notin Terminal
          => Good("verify", [run EXCEPT !.state = "VERIFYING"], taken[w], reads, verified, crashes)
    BY <1>0, <2>0
    DEF Good, CaptureOrder, StageRecords, ReadsCounted, Agreed, Evidenced, Run, Early, Terminal,
          DownstreamSteps, AfterAnalysis, AfterMalware, AfterIdentity, AfterProducts, CaptureSteps
  <2>2. "VERIFYING" \in Transitions[run.state]
    BY <1>0, <2>0, TransitionFacts
    DEF Good, CaptureOrder, StageRecords, ReadsCounted, Agreed, Evidenced, Run, Early, Terminal,
          DownstreamSteps, AfterAnalysis, AfterMalware, AfterIdentity, AfterProducts, CaptureSteps
  <2>3. QED
    BY <1>0, <2>0, <2>1, <2>2, TransitionStep DEF Commands, States, Steps, TypeOK
<1>4. ASSUME StartAnalysis(w) PROVE WorkflowInv' /\ Stands(run, run')
  <2>0. /\ step[w] = "downstream"
        /\ Transition(w, "downstream", "ANALYZING", "analyze")
        /\ UNCHANGED <<taken, warnings, crashes, reads, verified>>
    BY <1>4 DEF StartAnalysis
  <2>1. run.state \notin Terminal
          => Good("analyze", [run EXCEPT !.state = "ANALYZING"], taken[w], reads, verified, crashes)
    BY <1>0, <2>0
    DEF Good, CaptureOrder, StageRecords, ReadsCounted, Agreed, Evidenced, Run, Early, Terminal,
          DownstreamSteps, AfterAnalysis, AfterMalware, AfterIdentity, AfterProducts, CaptureSteps
  <2>2. Good("idle", run, taken[w], reads, verified, crashes)
    BY <1>0, <2>0
    DEF Good, CaptureOrder, StageRecords, ReadsCounted, Agreed, Evidenced, Run, Early, Terminal,
          DownstreamSteps, AfterAnalysis, AfterMalware, AfterIdentity, AfterProducts, CaptureSteps
  <2>3. QED
    BY <1>0, <2>0, <2>1, <2>2, TransitionStep DEF Commands, States, Steps, TypeOK
<1>5. ASSUME StartMalware(w) PROVE WorkflowInv' /\ Stands(run, run')
  <2>0. /\ step[w] \in {"downstream", "analysed"} /\ (step[w] = "downstream" => copy[w].analysed)
        /\ Transition(w, "downstream", "MALWARE_ANALYSIS", "malware")
        /\ UNCHANGED <<taken, warnings, crashes, reads, verified>>
    BY <1>5 DEF StartMalware
  <2>1. run.state \notin Terminal
          => Good("malware", [run EXCEPT !.state = "MALWARE_ANALYSIS"], taken[w], reads, verified, crashes)
    BY <1>0, <2>0
    DEF Good, CaptureOrder, StageRecords, ReadsCounted, Agreed, Evidenced, Run, Early, Terminal,
          DownstreamSteps, AfterAnalysis, AfterMalware, AfterIdentity, AfterProducts, CaptureSteps
  <2>2. Good("idle", run, taken[w], reads, verified, crashes)
    BY <1>0, <2>0
    DEF Good, CaptureOrder, StageRecords, ReadsCounted, Agreed, Evidenced, Run, Early, Terminal,
          DownstreamSteps, AfterAnalysis, AfterMalware, AfterIdentity, AfterProducts, CaptureSteps
  <2>3. QED
    BY <1>0, <2>0, <2>1, <2>2, TransitionStep DEF Commands, States, Steps, TypeOK
<1>6. ASSUME StartIdentity(w) PROVE WorkflowInv' /\ Stands(run, run')
  <2>0. /\ step[w] = "scanned"
        /\ Transition(w, "downstream", "IDENTIFYING", "identity")
        /\ UNCHANGED <<taken, warnings, crashes, reads, verified>>
    BY <1>6 DEF StartIdentity
  <2>1. run.state \notin Terminal
          => Good("identity", [run EXCEPT !.state = "IDENTIFYING"], taken[w], reads, verified, crashes)
    BY <1>0, <2>0
    DEF Good, CaptureOrder, StageRecords, ReadsCounted, Agreed, Evidenced, Run, Early, Terminal,
          DownstreamSteps, AfterAnalysis, AfterMalware, AfterIdentity, AfterProducts, CaptureSteps
  <2>2. Good("idle", run, taken[w], reads, verified, crashes)
    BY <1>0, <2>0
    DEF Good, CaptureOrder, StageRecords, ReadsCounted, Agreed, Evidenced, Run, Early, Terminal,
          DownstreamSteps, AfterAnalysis, AfterMalware, AfterIdentity, AfterProducts, CaptureSteps
  <2>3. QED
    BY <1>0, <2>0, <2>1, <2>2, TransitionStep DEF Commands, States, Steps, TypeOK
<1>7. ASSUME StartProducts(w) PROVE WorkflowInv' /\ Stands(run, run')
  <2>0. /\ step[w] = "identified"
        /\ Transition(w, "downstream", "BUILDING_PRODUCTS", "products")
        /\ UNCHANGED <<taken, warnings, crashes, reads, verified>>
    BY <1>7 DEF StartProducts
  <2>1. run.state \notin Terminal
          => Good("products", [run EXCEPT !.state = "BUILDING_PRODUCTS"], taken[w], reads, verified, crashes)
    BY <1>0, <2>0
    DEF Good, CaptureOrder, StageRecords, ReadsCounted, Agreed, Evidenced, Run, Early, Terminal,
          DownstreamSteps, AfterAnalysis, AfterMalware, AfterIdentity, AfterProducts, CaptureSteps
  <2>2. Good("idle", run, taken[w], reads, verified, crashes)
    BY <1>0, <2>0
    DEF Good, CaptureOrder, StageRecords, ReadsCounted, Agreed, Evidenced, Run, Early, Terminal,
          DownstreamSteps, AfterAnalysis, AfterMalware, AfterIdentity, AfterProducts, CaptureSteps
  <2>3. QED
    BY <1>0, <2>0, <2>1, <2>2, TransitionStep DEF Commands, States, Steps, TypeOK
<1>8. ASSUME FinishInspection(w) PROVE WorkflowInv' /\ Stands(run, run')
  <2>0. step[w] = "inspecting" /\ UNCHANGED <<taken, warnings, crashes, reads, verified>>
    BY <1>8 DEF FinishInspection
  <2>1. CASE Transition(w, "prepare", "READY_TO_CAPTURE", "idle")
    <3>1. Good("idle", [run EXCEPT !.state = "READY_TO_CAPTURE"], taken[w], reads, verified, crashes)
      BY <1>0, <2>0
      DEF Good, CaptureOrder, StageRecords, ReadsCounted, Agreed, Evidenced, Run, Early, Terminal,
          DownstreamSteps, AfterAnalysis, AfterMalware, AfterIdentity, AfterProducts, CaptureSteps
    <3>2. Good("idle", run, taken[w], reads, verified, crashes)
      BY <1>0, <2>0
      DEF Good, CaptureOrder, StageRecords, ReadsCounted, Agreed, Evidenced, Run, Early, Terminal,
          DownstreamSteps, AfterAnalysis, AfterMalware, AfterIdentity, AfterProducts, CaptureSteps
    <3>3. QED
      BY <1>0, <2>0, <2>1, <3>1, <3>2, TransitionStep DEF Commands, States, Steps, TypeOK
  <2>2. CASE ~Transition(w, "prepare", "READY_TO_CAPTURE", "idle")
    <3>1. /\ step' = [step EXCEPT ![w] = "idle"] /\ copy' = [copy EXCEPT ![w] = run']
          /\ \/ run' = [run EXCEPT !.review = TRUE, !.state = "NEEDS_OPERATOR"]
             \/ run' = [run EXCEPT !.review = TRUE]
          /\ rejected' = rejected \/ rejected' = rejected \cup {<<"prepare", run.state>>}
      BY <1>8, <2>2 DEF FinishInspection
    <3>2. run' \in Run /\ rejected' \subseteq (Commands \cup {"downstream"}) \X States
      <4>1. "NEEDS_OPERATOR" \in States /\ "prepare" \in Commands
        BY DEF States, Commands
      <4>2. /\ [run EXCEPT !.review = TRUE, !.state = "NEEDS_OPERATOR"] \in Run
            /\ [run EXCEPT !.review = TRUE] \in Run
        BY <1>0, <4>1, RunUpdates
      <4>3. run' \in Run
        BY <3>1, <4>2
      <4>4. QED
        BY <1>0, <3>1, <4>1, <4>3 DEF TypeOK
    <3>3. Good("idle", run', taken[w], reads, verified, crashes)
      BY <1>0, <2>0, <3>1
      DEF Good, CaptureOrder, StageRecords, ReadsCounted, Agreed, Evidenced, Run, Early, Terminal,
          DownstreamSteps, AfterAnalysis, AfterMalware, AfterIdentity, AfterProducts, CaptureSteps
    <3>4. Stands(run, run')
      <4>1. run.state \notin Terminal
        BY <1>0, <2>0 DEF Good, CaptureOrder
      <4>2. run'.objects = run.objects /\ run'.captures = run.captures /\ run'.review
        BY <1>0, <3>1 DEF Run
      <4>3. QED
        BY <1>0, <4>1, <4>2 DEF Stands
    <3>5. QED
      BY <1>0, <2>0, <3>1, <3>2, <3>3, <3>4, WriteStep DEF TypeOK, Steps
  <2>3. QED
    BY <2>1, <2>2
<1>9. ASSUME NEW command \in Commands, step[w] = "idle", BeginExecute(w, command)
      PROVE  WorkflowInv' /\ Stands(run, run')
  <2>1. PICK s \in {"idle", "downstream", "space"} :
          /\ step' = [step EXCEPT ![w] = s]
          /\ s # "idle" => run.state \notin Terminal
          /\ s = "downstream" => run.objects # {}
          /\ s = "space" => run.state = "READY_TO_CAPTURE"
    <3>1. step = [step EXCEPT ![w] = "idle"]
      BY <1>0, <1>9 DEF TypeOK
    <3>2. CASE UNCHANGED step
      BY <3>1, <3>2
    <3>3. CASE Goto(w, "downstream") /\ run.state \notin Terminal /\ run.objects # {}
      BY <3>3
    <3>4. CASE Goto(w, "space") /\ run.state = "READY_TO_CAPTURE"
      BY <3>4 DEF Terminal
    <3>5. QED
      BY <1>9, <3>2, <3>3, <3>4 DEF BeginExecute
  <2>2. /\ run' = run /\ copy' = [copy EXCEPT ![w] = run'] /\ taken'[w] = 0
        /\ taken' \in [Workers -> 0..Repeats] /\ warnings' \in [Workers -> BOOLEAN]
        /\ UNCHANGED <<crashes, reads, verified>>
        /\ rejected' = rejected \/ rejected' = rejected \cup {<<command, run.state>>}
    BY <1>0, <1>9 DEF BeginExecute, TypeOK
  <2>3. rejected' \subseteq (Commands \cup {"downstream"}) \X States
    BY <1>0, <2>2 DEF TypeOK
  <2>4. Good(s, run', taken'[w], reads', verified, crashes)
    BY <1>0, <1>9, <2>1, <2>2
    DEF Good, CaptureOrder, StageRecords, ReadsCounted, Agreed, Evidenced, Run, Early, Terminal,
          DownstreamSteps, AfterAnalysis, AfterMalware, AfterIdentity, AfterProducts, CaptureSteps
  <2>5. s \in Steps /\ Stands(run, run')
    BY <1>0, <2>2 DEF Steps, Stands
  <2>6. QED
    BY <1>0, <2>1, <2>2, <2>3, <2>4, <2>5, WriteStep
<1>10. ASSUME CheckSpace(w) PROVE WorkflowInv' /\ Stands(run, run')
  <2>0. step[w] = "space" /\ UNCHANGED <<taken, warnings, crashes, reads, verified>>
    BY <1>10 DEF CheckSpace
  <2>1. CASE Transition(w, "execute", "CAPTURING", "capture")
    <3>1. Good("capture", [run EXCEPT !.state = "CAPTURING"], taken[w], reads, verified, crashes)
      BY <1>0, <2>0
      DEF Good, CaptureOrder, StageRecords, ReadsCounted, Agreed, Evidenced, Run, Early, Terminal,
          DownstreamSteps, AfterAnalysis, AfterMalware, AfterIdentity, AfterProducts, CaptureSteps
    <3>2. Good("idle", run, taken[w], reads, verified, crashes)
      BY <1>0, <2>0
      DEF Good, CaptureOrder, StageRecords, ReadsCounted, Agreed, Evidenced, Run, Early, Terminal,
          DownstreamSteps, AfterAnalysis, AfterMalware, AfterIdentity, AfterProducts, CaptureSteps
    <3>3. QED
      BY <1>0, <2>0, <2>1, <3>1, <3>2, TransitionStep DEF Commands, States, Steps, TypeOK
  <2>2. CASE ~Transition(w, "execute", "CAPTURING", "capture")
    <3>1. /\ step' = [step EXCEPT ![w] = "idle"] /\ copy' = [copy EXCEPT ![w] = run']
          /\ run' = [run EXCEPT !.state = "FAILED"] /\ rejected' = rejected
      BY <1>0, <1>10, <2>0, <2>2 DEF CheckSpace
    <3>2. run' \in Run
      BY <1>0, <3>1, RunUpdates DEF States, Terminal
    <3>3. Good("idle", run', taken[w], reads, verified, crashes)
      BY <1>0, <2>0, <3>1
      DEF Good, CaptureOrder, StageRecords, ReadsCounted, Agreed, Evidenced, Run, Early, Terminal,
          DownstreamSteps, AfterAnalysis, AfterMalware, AfterIdentity, AfterProducts, CaptureSteps
    <3>4. Stands(run, run')
      BY <1>0, <2>0, <3>1 DEF Stands, Run, Good, CaptureOrder
    <3>5. QED
      BY <1>0, <2>0, <3>1, <3>2, <3>3, <3>4, WriteStep DEF TypeOK, Steps
  <2>3. QED
    BY <2>1, <2>2
<1>11. ASSUME Capture(w) PROVE WorkflowInv' /\ Stands(run, run')
  <2>0. step[w] = "capture" /\ copy[w] = run
    BY <1>0, <1>11 DEF Capture
  <2>1. PICK image \in Images : run' = [run EXCEPT !.captures = @ + 1, !.objects = @ \cup {image}]
    BY <1>11 DEF Capture
  <2>2. /\ copy' = [copy EXCEPT ![w] = run'] /\ reads' = reads + 1
        /\ taken' = [taken EXCEPT ![w] = @ + 1]
        /\ step' = [step EXCEPT ![w] = IF taken[w] + 1 < Repeats THEN "capture" ELSE "captured"]
        /\ UNCHANGED <<warnings, crashes, verified, rejected>>
    BY <1>11 DEF Capture
  <2>3. /\ run.state = "CAPTURING" /\ taken[w] = reads /\ run.captures = reads
        /\ reads < Repeats /\ IsFiniteSet(run.objects)
    BY <1>0, <2>0 DEF Good, CaptureOrder, ReadsCounted
  <2>4. /\ run'.state = "CAPTURING" /\ run'.captures = reads + 1 /\ run'.review = run.review
        /\ run'.objects = run.objects \cup {image}
    BY <1>0, <2>1, <2>3 DEF Run
  <2>5. run' \in Run
    <3>1. Cardinality(Workers) = 1
      BY FS_Singleton
    <3>2. reads + 1 \in 0..(Repeats * Cardinality(Workers))
      BY <1>0, <2>3, <3>1
    <3>3. QED
      BY <1>0, <2>1, <2>3, <3>2 DEF Run
  <2>6. taken' \in [Workers -> 0..Repeats] /\ taken'[w] = reads + 1
    BY <1>0, <2>2, <2>3 DEF TypeOK
  <2>7. IsFiniteSet(run'.objects)
    BY <2>3, <2>4, FS_AddElement
  <2>8. ASSUME NEW s \in {"capture", "captured"}, s = "capture" => reads + 1 < Repeats,
               s = "captured" => ~(reads + 1 < Repeats)
        PROVE  Good(s, run', taken'[w], reads', verified, crashes)
    BY <1>0, <2>2, <2>3, <2>4, <2>6, <2>7, <2>8
    DEF Good, CaptureOrder, StageRecords, ReadsCounted, Agreed, Evidenced, Early, Terminal,
        DownstreamSteps, AfterAnalysis, AfterMalware, AfterIdentity, AfterProducts, CaptureSteps
  <2>9. Stands(run, run')
    BY <1>0, <2>3, <2>4 DEF Stands, Terminal
  <2>10. PICK s \in {"capture", "captured"} :
           /\ step' = [step EXCEPT ![w] = s]
           /\ Good(s, run', taken'[w], reads', verified, crashes)
    BY <2>2, <2>3, <2>8
  <2>11. s \in Steps /\ reads' \in Nat
    BY <1>0, <2>2 DEF Steps
  <2>12. QED
    BY <1>0, <2>2, <2>5, <2>6, <2>9, <2>10, <2>11, WriteStep DEF TypeOK
<1>12. ASSUME CaptureFails(w) PROVE WorkflowInv' /\ Stands(run, run')
  <2>1. PICK new \in {"FAILED", "PARTIAL"} :
          Transition(w, "execute", new, "idle") /\ (new = "FAILED" => run.objects = {})
    BY <1>12 DEF CaptureFails
  <2>2. /\ step[w] = "capture" /\ reads' = reads + 1
        /\ UNCHANGED <<taken, warnings, crashes, verified>>
    BY <1>12 DEF CaptureFails
  <2>3. Good("idle", [run EXCEPT !.state = new], taken[w], reads', verified, crashes)
    BY <1>0, <2>1, <2>2
    DEF Good, CaptureOrder, StageRecords, ReadsCounted, Agreed, Evidenced, Run, Early, Terminal,
          DownstreamSteps, AfterAnalysis, AfterMalware, AfterIdentity, AfterProducts, CaptureSteps
  <2>4. new \in Transitions[run.state]
    BY <1>0, <2>2, TransitionFacts DEF Good, CaptureOrder
  <2>5. new \in States /\ "idle" \in Steps /\ "execute" \in Commands /\ reads' \in Nat
    BY <1>0, <2>2 DEF States, Terminal, Steps, Commands
  <2>6. QED
    BY <1>0, <2>1, <2>2, <2>3, <2>4, <2>5, TransitionStep DEF TypeOK
<1>13. ASSUME SendToReview(w) PROVE WorkflowInv' /\ Stands(run, run')
  <2>1. /\ step[w] = "verify" /\ copy[w] = run /\ step' = [step EXCEPT ![w] = "idle"]
        /\ run' = [run EXCEPT !.review = TRUE, !.state = "NEEDS_OPERATOR"]
        /\ copy' = [copy EXCEPT ![w] = run']
        /\ UNCHANGED <<taken, warnings, crashes, reads, verified, rejected>>
    BY <1>0, <1>13 DEF SendToReview
  <2>2. run' \in Run
    BY <1>0, <2>1, RunUpdates DEF States
  <2>3. Good("idle", run', taken[w], reads, verified, crashes)
    BY <1>0, <2>1
    DEF Good, CaptureOrder, StageRecords, ReadsCounted, Agreed, Evidenced, Run, Early, Terminal,
          DownstreamSteps, AfterAnalysis, AfterMalware, AfterIdentity, AfterProducts, CaptureSteps
  <2>4. Stands(run, run')
    BY <1>0, <2>1 DEF Stands, Run, Good, CaptureOrder
  <2>5. QED
    BY <1>0, <2>1, <2>2, <2>3, <2>4, WriteStep DEF TypeOK, Steps
<1>14. ASSUME Verify(w) PROVE WorkflowInv' /\ Stands(run, run')
  <2>1. /\ step[w] = "verify" /\ copy[w] = run /\ ~Disagree(run)
        /\ verified' = verified \cup run.objects
        /\ Transition(w, "execute", "PRESERVED", "downstream")
        /\ UNCHANGED <<taken, warnings, crashes, reads>>
    BY <1>0, <1>14 DEF Verify
  <2>2. /\ run.captures = Repeats /\ run.objects # {} /\ IsFiniteSet(run.objects)
        /\ run.state = "VERIFYING"
    BY <1>0, <2>1 DEF Good, CaptureOrder, ReadsCounted
  <2>3. RequireMatch => Cardinality(run.objects) = 1
    <3>1. Cardinality(run.objects) \in Nat /\ Cardinality(run.objects) # 0
      BY <2>2, FS_CardinalityType, FS_EmptySet
    <3>2. QED
      BY <2>1, <3>1 DEF Disagree
  <2>4. Good("downstream", [run EXCEPT !.state = "PRESERVED"], taken[w], reads, verified', crashes)
    BY <1>0, <2>1, <2>2, <2>3
    DEF Good, CaptureOrder, StageRecords, ReadsCounted, Agreed, Evidenced, Run, Early, Terminal,
          DownstreamSteps, AfterAnalysis, AfterMalware, AfterIdentity, AfterProducts, CaptureSteps
  <2>5. "PRESERVED" \in Transitions[run.state]
    BY <2>2, TransitionFacts
  <2>6. verified' \subseteq Images
    BY <1>0, <2>1 DEF TypeOK, Run
  <2>7. QED
    BY <1>0, <2>1, <2>4, <2>5, <2>6, TransitionStep DEF Commands, States, Steps, TypeOK
<1>15. ASSUME FinishAnalysis(w) PROVE WorkflowInv' /\ Stands(run, run')
  <2>1. /\ step[w] = "analyze" /\ copy[w] = run /\ step' = [step EXCEPT ![w] = "analysed"]
        /\ run' = [run EXCEPT !.analysed = TRUE] /\ copy' = [copy EXCEPT ![w] = run']
        /\ UNCHANGED <<taken, crashes, reads, verified, rejected>>
    BY <1>0, <1>15 DEF FinishAnalysis
  <2>2. run' \in Run
    BY <1>0, <2>1, RunUpdates
  <2>3. warnings' \in [Workers -> BOOLEAN]
    BY <1>0, <1>15 DEF FinishAnalysis, TypeOK
  <2>4. Good("analysed", run', taken[w], reads, verified, crashes)
    BY <1>0, <2>1
    DEF Good, CaptureOrder, StageRecords, ReadsCounted, Agreed, Evidenced, Run, Early, Terminal,
          DownstreamSteps, AfterAnalysis, AfterMalware, AfterIdentity, AfterProducts, CaptureSteps
  <2>5. Stands(run, run')
    BY <1>0, <2>1 DEF Stands, Run, Good, CaptureOrder
  <2>6. QED
    BY <1>0, <2>1, <2>2, <2>3, <2>4, <2>5, WriteStep DEF TypeOK, Steps
<1>16. ASSUME FinishMalware(w) PROVE WorkflowInv' /\ Stands(run, run')
  <2>1. /\ step[w] = "malware" /\ copy[w] = run /\ step' = [step EXCEPT ![w] = "scanned"]
        /\ run' = [run EXCEPT !.scanned = @ \/ MalwareProfile] /\ copy' = [copy EXCEPT ![w] = run']
        /\ UNCHANGED <<taken, crashes, reads, verified, rejected>>
    BY <1>0, <1>16 DEF FinishMalware
  <2>2. run' \in Run
    BY <1>0, <2>1, RunUpdates
  <2>3. warnings' \in [Workers -> BOOLEAN]
    BY <1>0, <1>16 DEF FinishMalware, TypeOK
  <2>4. Good("scanned", run', taken[w], reads, verified, crashes)
    BY <1>0, <2>1
    DEF Good, CaptureOrder, StageRecords, ReadsCounted, Agreed, Evidenced, Run, Early, Terminal,
          DownstreamSteps, AfterAnalysis, AfterMalware, AfterIdentity, AfterProducts, CaptureSteps
  <2>5. Stands(run, run')
    BY <1>0, <2>1 DEF Stands, Run, Good, CaptureOrder
  <2>6. QED
    BY <1>0, <2>1, <2>2, <2>3, <2>4, <2>5, WriteStep DEF TypeOK, Steps
<1>17. ASSUME FinishIdentity(w) PROVE WorkflowInv' /\ Stands(run, run')
  <2>1. /\ step[w] = "identity" /\ copy[w] = run /\ step' = [step EXCEPT ![w] = "identified"]
        /\ run' = (IF run.identified THEN run ELSE [run EXCEPT !.identified = TRUE]) /\ copy' = [copy EXCEPT ![w] = run']
        /\ UNCHANGED <<taken, crashes, reads, verified, rejected>>
    BY <1>0, <1>17 DEF FinishIdentity
  <2>2. run' \in Run
    BY <1>0, <2>1, RunUpdates
  <2>3. warnings' \in [Workers -> BOOLEAN]
    BY <1>0, <1>17 DEF FinishIdentity, TypeOK
  <2>4. Good("identified", run', taken[w], reads, verified, crashes)
    BY <1>0, <2>1
    DEF Good, CaptureOrder, StageRecords, ReadsCounted, Agreed, Evidenced, Run, Early, Terminal,
          DownstreamSteps, AfterAnalysis, AfterMalware, AfterIdentity, AfterProducts, CaptureSteps
  <2>5. Stands(run, run')
    BY <1>0, <2>1 DEF Stands, Run, Good, CaptureOrder
  <2>6. QED
    BY <1>0, <2>1, <2>2, <2>3, <2>4, <2>5, WriteStep DEF TypeOK, Steps
<1>18. ASSUME FinishProducts(w) PROVE WorkflowInv' /\ Stands(run, run')
  <2>0. /\ step[w] = "products" /\ copy[w] = run /\ step' = [step EXCEPT ![w] = "built"]
        /\ copy' = [copy EXCEPT ![w] = run']
        /\ UNCHANGED <<taken, warnings, crashes, reads, verified, rejected>>
    BY <1>0, <1>18 DEF FinishProducts
  <2>1. PICK some \in BOOLEAN, all \in BOOLEAN :
          /\ some \/ ~all
          /\ run' = [run EXCEPT !.built = some, !.warned = @ \/ warnings[w] \/ ~all]
    BY <1>0, <1>18, <2>0 DEF FinishProducts
  <2>2. /\ run'.state = run.state /\ run'.objects = run.objects /\ run'.captures = run.captures
        /\ run'.review = run.review /\ run'.analysed = run.analysed
        /\ run'.scanned = run.scanned /\ run'.identified = run.identified
    BY <1>0, <2>1 DEF Run
  <2>3. run'.built \/ run'.warned
    BY <1>0, <2>1 DEF Run
  <2>4. run' \in Run
    <3>1. [run EXCEPT !.built = some, !.warned = @ \/ (warnings[w] \/ ~all)] \in Run
      BY <1>0, RunUpdates DEF TypeOK
    <3>2. QED
      BY <2>1, <3>1
  <2>5. Good("built", run', taken[w], reads, verified, crashes)
    BY <1>0, <2>0, <2>2, <2>3
    DEF Good, CaptureOrder, StageRecords, ReadsCounted, Agreed, Evidenced, Early, Terminal,
        DownstreamSteps, AfterAnalysis, AfterMalware, AfterIdentity, AfterProducts, CaptureSteps
  <2>6. Stands(run, run')
    BY <1>0, <2>2 DEF Stands
  <2>7. QED
    BY <1>0, <2>0, <2>4, <2>5, <2>6, WriteStep DEF TypeOK, Steps
<1>19. ASSUME Finish(w) PROVE WorkflowInv' /\ Stands(run, run')
  <2>1. PICK new \in {"COMPLETE_WITH_WARNINGS", "COMPLETE"} : Transition(w, "downstream", new, "idle")
    BY <1>19 DEF Finish
  <2>2. step[w] = "built" /\ UNCHANGED <<taken, warnings, crashes, reads, verified>>
    BY <1>19 DEF Finish
  <2>3. Good("idle", [run EXCEPT !.state = new], taken[w], reads, verified, crashes)
    BY <1>0, <2>2
    DEF Good, CaptureOrder, StageRecords, ReadsCounted, Agreed, Evidenced, Run, Early, Terminal,
          DownstreamSteps, AfterAnalysis, AfterMalware, AfterIdentity, AfterProducts, CaptureSteps
  <2>4. Good("idle", run, taken[w], reads, verified, crashes)
    BY <1>0, <2>2
    DEF Good, CaptureOrder, StageRecords, ReadsCounted, Agreed, Evidenced, Run, Early, Terminal,
          DownstreamSteps, AfterAnalysis, AfterMalware, AfterIdentity, AfterProducts, CaptureSteps
  <2>5. new \in States /\ "idle" \in Steps
    BY DEF States, Terminal, Steps
  <2>6. QED
    BY <1>0, <2>1, <2>2, <2>3, <2>4, <2>5, TransitionStep DEF TypeOK
<1>20. ASSUME Execute(w) PROVE WorkflowInv' /\ Stands(run, run')
  BY <1>9, <1>20 DEF Execute, Issues, Commands
<1>21. ASSUME Resume(w) PROVE WorkflowInv' /\ Stands(run, run')
  <2>0. step[w] = "idle" /\ run.state \notin Terminal
    BY <1>21 DEF Resume, Issues
  <2>1. CASE BeginExecute(w, "resume")
    BY <1>9, <2>0, <2>1 DEF Commands
  <2>2. CASE ~BeginExecute(w, "resume")
    <3>1. /\ run.objects # {} /\ run' = [run EXCEPT !.state = "PRESERVED"]
          /\ copy' = [copy EXCEPT ![w] = run'] /\ step' = [step EXCEPT ![w] = "downstream"]
          /\ taken' = [taken EXCEPT ![w] = 0] /\ warnings' = [warnings EXCEPT ![w] = FALSE]
          /\ UNCHANGED <<crashes, reads, verified, rejected>>
      BY <1>21, <2>2 DEF Resume
    <3>2. run' \in Run
      BY <1>0, <3>1, RunUpdates DEF States
    <3>3. Good("downstream", run', taken'[w], reads, verified, crashes)
      BY <1>0, <2>0, <3>1
      DEF Good, CaptureOrder, StageRecords, ReadsCounted, Agreed, Evidenced, Run, Early, Terminal,
          DownstreamSteps, AfterAnalysis, AfterMalware, AfterIdentity, AfterProducts, CaptureSteps
    <3>4. Stands(run, run')
      BY <1>0, <2>0, <3>1 DEF Stands, Run
    <3>5. taken' \in [Workers -> 0..Repeats] /\ warnings' \in [Workers -> BOOLEAN]
      BY <1>0, <3>1 DEF TypeOK
    <3>6. QED
      BY <1>0, <3>1, <3>2, <3>3, <3>4, <3>5, WriteStep DEF TypeOK, Steps
  <2>3. QED
    BY <2>1, <2>2
<1>22. ASSUME Cancel(w) PROVE WorkflowInv' /\ Stands(run, run')
  <2>1. /\ step[w] = "idle" /\ Transition(w, "cancel", "CANCELLED", "idle")
        /\ UNCHANGED <<taken, warnings, crashes, reads, verified>>
    BY <1>22 DEF Cancel, Issues
  <2>2. run.state \notin Terminal
          => Good("idle", [run EXCEPT !.state = "CANCELLED"], taken[w], reads, verified, crashes)
    BY <1>0, <2>1
    DEF Good, CaptureOrder, StageRecords, ReadsCounted, Agreed, Evidenced, Run, Early, Terminal,
          DownstreamSteps, AfterAnalysis, AfterMalware, AfterIdentity, AfterProducts, CaptureSteps
  <2>3. Good("idle", run, taken[w], reads, verified, crashes)
    BY <1>0, <2>1
  <2>4. QED
    BY <1>0, <2>1, <2>2, <2>3, TransitionStep DEF Commands, States, Terminal, Steps, TypeOK
<1>23. ASSUME Crash(w) PROVE WorkflowInv' /\ Stands(run, run')
  <2>1. /\ step' = [step EXCEPT ![w] = "idle"] /\ crashes' = crashes + 1
        /\ reads' = (IF step[w] = "capture" THEN reads + 1 ELSE reads)
        /\ UNCHANGED <<run, copy, taken, warnings, verified, rejected>>
        /\ crashes < MaxCrashes /\ step[w] # "idle"
    BY <1>23 DEF Crash
  <2>2. crashes' \in 0..MaxCrashes /\ crashes' # 0 /\ reads' \in Nat
    BY <1>0, <2>1, CrashAssumption DEF TypeOK
  <2>3. Good("idle", run, taken[w], reads', verified, crashes')
    BY <1>0, <2>1, <2>2
    DEF Good, CaptureOrder, StageRecords, ReadsCounted, Agreed, Evidenced, Run, Early, Terminal,
          DownstreamSteps, AfterAnalysis, AfterMalware, AfterIdentity, AfterProducts, CaptureSteps
  <2>4. Good("idle", run', taken'[w], reads', verified', crashes')
    BY <2>1, <2>3
  <2>5. "idle" \in Steps
    BY DEF Steps
  <2>6. WorkflowInv'
    BY <1>0, <2>1, <2>2, <2>4, <2>5, Arrive DEF TypeOK
  <2>7. QED
    BY <1>0, <2>1, <2>6 DEF Stands
<1>24. CASE UNCHANGED vars
  <2>1. WorkflowInv'
    BY <1>24 DEF vars, WorkflowInv, TypeOK, Good, CaptureOrder, StageRecords, ReadsCounted,
                 Agreed, Evidenced
  <2>2. QED
    BY <1>0, <1>24, <2>1 DEF vars, Stands
<1>25. QED
  BY <1>1, <1>2, <1>3, <1>4, <1>5, <1>6, <1>7, <1>8, <1>10, <1>11, <1>12, <1>13, <1>14, <1>15,
     <1>16, <1>17, <1>18, <1>19, <1>20, <1>21, <1>22, <1>23, <1>24 DEF Next, CommandStep

-----------------------------------------------------------------------------
(* The theorems.                                                           *)

(* WorkflowInv is an inductive invariant of a run with one operator.       *)
THEOREM WorkflowInvariant == ASSUME OneOperator PROVE Spec => []WorkflowInv
<1>1. PICK w : Workers = {w}
  BY DEF OneOperator
<1>2. Init => WorkflowInv
  <2> SUFFICES ASSUME Init PROVE WorkflowInv
    OBVIOUS
  <2>1. NewRun \in Run
    <3>1. Cardinality(Workers) = 1
      BY <1>1, FS_Singleton
    <3>2. 0 \in 0..(Repeats * Cardinality(Workers))
      BY <3>1, RepeatsAssumption
    <3>3. QED
      BY <3>2 DEF NewRun, Run, States
  <2>2. TypeOK
    BY <2>1, RepeatsAssumption, CrashAssumption DEF Init, TypeOK, Steps
  <2>3. \A x \in Workers : step[x] = "idle" /\ Good("idle", NewRun, 0, 0, {}, 0)
    BY RepeatsAssumption, FS_EmptySet
    DEF Init, NewRun, Good, CaptureOrder, StageRecords, ReadsCounted, Agreed, Evidenced,
        DownstreamSteps, AfterAnalysis, AfterMalware, AfterIdentity, AfterProducts
  <2>4. QED
    BY <2>2, <2>3 DEF Init, WorkflowInv
<1>3. WorkflowInv /\ [Next]_vars => WorkflowInv'
  BY <1>1, OperatorStep
<1>4. QED
  BY <1>2, <1>3, PTL DEF Spec

(* Every variable of the workflow keeps its type; no run records more      *)
(* captures than its profile asks for.                                     *)
THEOREM WorkflowTypes == ASSUME OneOperator PROVE Spec => []TypeOK
<1>1. WorkflowInv => TypeOK
  BY DEF WorkflowInv
<1>2. QED
  BY <1>1, WorkflowInvariant, PTL

(* However the operator executes, resumes and cancels, and wherever he is  *)
(* interrupted, the medium is read no more often than the profile says,    *)
(* and reads that must agree do (execute, resume).                         *)
THEOREM ReadsAsTheProfileSays == ASSUME OneOperator PROVE Spec => []ReadsFollowProfile
<1>1. PICK w : Workers = {w}
  BY DEF OneOperator
<1>2. WorkflowInv => ReadsFollowProfile
  <2> SUFFICES ASSUME WorkflowInv PROVE ReadsFollowProfile
    OBVIOUS
  <2>1. Good(step[w], run, taken[w], reads, verified, crashes) /\ run \in Run
    BY <1>1 DEF WorkflowInv, TypeOK
  <2>2. MediumReadAtMost
    BY <2>1 DEF Good, ReadsCounted, MediumReadAtMost
  <2>3. Completed => run.objects # {} /\ step[w] \notin CaptureSteps /\ run.state # "PARTIAL"
    BY <2>1 DEF Completed, Good, CaptureOrder, Evidenced, CaptureSteps
  <2>4. UndisturbedRunAgrees
    BY <2>1, <2>3 DEF UndisturbedRunAgrees, ReadsAgree, Good, Agreed
  <2>5. QED
    BY <2>2, <2>4 DEF ReadsFollowProfile
<1>3. QED
  BY <1>2, WorkflowInvariant, PTL

(* A run that is reported complete has been through every stage of its     *)
(* profile, over all interruptions and resumes (_downstream).              *)
THEOREM CompleteRunsHaveEvidence == ASSUME OneOperator PROVE Spec => []CompleteHasEvidence
<1>1. PICK w : Workers = {w}
  BY DEF OneOperator
<1>2. WorkflowInv => CompleteHasEvidence
  BY <1>1 DEF WorkflowInv, Good, Evidenced, CompleteHasEvidence, Completed
<1>3. QED
  BY <1>2, WorkflowInvariant, PTL

(* No command takes a master, a capture or a review reason out of the run  *)
(* file again, and a run that ended stays as it ended.                     *)
THEOREM TheRecordStands == ASSUME OneOperator PROVE Spec => RecordStands
<1>1. PICK w : Workers = {w}
  BY DEF OneOperator
<1>2. WorkflowInv /\ [Next]_vars => Stands(run, run')
  BY <1>1, OperatorStep
<1>3. Stands(run, run') =>
        /\ [/\ run.objects \subseteq run'.objects
            /\ run.captures <= run'.captures
            /\ run.review => run'.review]_vars
        /\ [run.state \in Terminal => run'.state = run.state]_vars
  BY DEF Stands
<1>4. QED
  BY <1>2, <1>3, WorkflowInvariant, PTL DEF Spec, RecordStands, RecordKept, TerminalIsFinal
=============================================================================
