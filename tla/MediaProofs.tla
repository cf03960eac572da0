------------------------------ MODULE MediaProofs ------------------------------
(***************************************************************************)
(* Proofs about the registry of media, captures and identities: of         *)
(* PhysicalRegistry, for any media and editors; MediaCapture, for any      *)
(* images, adapters, interrupts and kills; and IdentityCatalogue, for any  *)
(* crew and whatever it asks for.                                          *)
(*                                                                         *)
(* The argument for the registry: a copy of a record that an editor holds  *)
(* was the record once, so that what is appended to it names its last      *)
(* entry, whatever the record says by then.  For captures: only the last   *)
(* job file changes, and only until it is done; a session's count is due   *)
(* as soon as new bytes are archived and made later, or never.             *)
(*                                                                         *)
(* For identities: an end that is not reached from another is kept out by  *)
(* a closed set, and from the closed sets of two relationships one can be  *)
(* put together for both; and whoever commits has held the write lock      *)
(* since before it read the sidecars.                                      *)
(***************************************************************************)
EXTENDS MediaCapture, IdentityCatalogue, FiniteSetTheorems, TLAPS

-----------------------------------------------------------------------------
(* The registry of media.  The inductive invariant, in named parts.        *)

Record == [Kinds -> Seq(Nat)]
Edit == [step : {"sidecar", "record", "relate"}, medium : Media, kind : Kinds,
         copy : Record, entry : Nat]

RegistryTypes ==
    /\ entries \in Nat
    /\ records \in [Media -> Record]
    /\ edit \in [Editors -> Edit \cup {NoEdit}]
    /\ DOMAIN revisions \subseteq 1..entries

(* r is a history of m that the sidecars rev, obs and ev bear out.         *)
Chain(m, r, rev, obs, ev) ==
    /\ \A i \in DOMAIN r["revisions"] :
         /\ r["revisions"][i] \in DOMAIN rev
         /\ rev[r["revisions"][i]] =
              [medium |-> m, previous |-> IF i = 1 THEN Nobody ELSE r["revisions"][i - 1]]
    /\ Range(r["observations"]) \subseteq obs
    /\ Range(r["evidence"]) \subseteq ev

(* A record and the copies of it that editors hold may differ, but each    *)
(* was the record once.                                                    *)
HistoriesAreChained ==
    /\ \A m \in Media : Chain(m, records[m], revisions, observations, evidence)
    /\ \A e \in Editors : edit[e] \in Edit =>
         Chain(edit[e].medium, edit[e].copy, revisions, observations, evidence)

(* Entries in the making are new, and nobody else's.                       *)
EntriesAreNew == \A e \in Editors : edit[e] \in Edit =>
    /\ edit[e].entry \in 1..entries
    /\ edit[e].step = "sidecar" => edit[e].entry \notin DOMAIN revisions
    /\ \A d \in Editors \ {e} : edit[d] \in Edit => edit[d].entry # edit[e].entry

(* The sidecar is there before the record names it.                        *)
Written(c, rev, obs, ev) ==
    /\ c.kind = "revisions" => /\ c.entry \in DOMAIN rev
                               /\ rev[c.entry] = Revise(c)
    /\ c.kind = "observations" => c.entry \in obs
    /\ c.kind = "evidence" => c.entry \in ev
SidecarsComeFirst == \A e \in Editors :
    edit[e] \in Edit /\ edit[e].step = "record" => Written(edit[e], revisions, observations, evidence)

RegistryInv == RegistryTypes /\ HistoriesAreChained /\ EntriesAreNew /\ SidecarsComeFirst

-----------------------------------------------------------------------------
(* An editor is at rest exactly when it holds no edit.                     *)
LEMMA EditsAreBusy == NoEdit \notin Edit
BY DEF NoEdit, Edit

(* Sidecars that are added take nothing from a history.                    *)
LEMMA ChainsStand ==
    ASSUME NEW m, NEW r \in Record, NEW rev, NEW obs, NEW ev, NEW rev2, NEW obs2, NEW ev2,
           Chain(m, r, rev, obs, ev),
           DOMAIN rev \subseteq DOMAIN rev2, \A x \in DOMAIN rev : rev2[x] = rev[x],
           obs \subseteq obs2, ev \subseteq ev2
    PROVE  Chain(m, r, rev2, obs2, ev2)
BY DEF Chain

(* A history that gains an entry whose sidecar names its last one is one.  *)
LEMMA ChainsGrow ==
    ASSUME NEW c \in Edit, NEW rev, NEW obs, NEW ev,
           Chain(c.medium, c.copy, rev, obs, ev), Written(c, rev, obs, ev)
    PROVE  LET r == [c.copy EXCEPT ![c.kind] = Append(@, c.entry)]
           IN  r \in Record /\ Chain(c.medium, r, rev, obs, ev)
<1> DEFINE r == [c.copy EXCEPT ![c.kind] = Append(@, c.entry)]
<1>1. c.kind \in Kinds /\ c.copy \in Record /\ c.entry \in Nat
  BY DEF Edit
<1>2. \A k \in Kinds : c.copy[k] \in Seq(Nat)
  BY <1>1 DEF Record
<1>3. /\ \A k \in Kinds : r[k] = IF k = c.kind THEN Append(c.copy[k], c.entry) ELSE c.copy[k]
      /\ r \in Record
  BY <1>1, <1>2 DEF Record
<1>4. \A s \in Seq(Nat) : Range(Append(s, c.entry)) = Range(s) \cup {c.entry}
  <2> TAKE s \in Seq(Nat)
  <2>1. /\ DOMAIN Append(s, c.entry) = 1..(Len(s) + 1) /\ DOMAIN s = 1..Len(s) /\ Len(s) \in Nat
        /\ \A i \in 1..Len(s) : Append(s, c.entry)[i] = s[i]
        /\ Append(s, c.entry)[Len(s) + 1] = c.entry
    BY <1>1
  <2>2. 1..(Len(s) + 1) = 1..Len(s) \cup {Len(s) + 1}
    BY <2>1
  <2> QED BY <2>1, <2>2 DEF Range
<1> HIDE DEF r
<1>5. Range(r["observations"]) \subseteq obs
  BY <1>1, <1>2, <1>3, <1>4 DEF Chain, Written, Kinds
<1>6. Range(r["evidence"]) \subseteq ev
  BY <1>1, <1>2, <1>3, <1>4 DEF Chain, Written, Kinds
<1>7. ASSUME NEW i \in DOMAIN r["revisions"]
      PROVE  /\ r["revisions"][i] \in DOMAIN rev
             /\ rev[r["revisions"][i]] =
                  [medium |-> c.medium, previous |-> IF i = 1 THEN Nobody ELSE r["revisions"][i - 1]]
  <2>1. CASE c.kind # "revisions"
    <3>1. r["revisions"] = c.copy["revisions"]
      BY <1>3, <2>1 DEF Kinds
    <3> QED BY <1>7, <3>1 DEF Chain
  <2>2. CASE c.kind = "revisions"
    <3> DEFINE s == c.copy["revisions"]
    <3>1. s \in Seq(Nat) /\ r["revisions"] = Append(s, c.entry)
      BY <1>1, <1>2, <1>3, <2>2 DEF Kinds
    <3>2. Written(c, rev, obs, ev) /\ c.copy.revisions = s
      OBVIOUS
    <3>2a. /\ c.entry \in DOMAIN rev
           /\ rev[c.entry] = [medium |-> c.medium, previous |-> Previous(c.copy)]
      BY <2>2, <3>2 DEF Written, Revise
    <3>2b. Previous(c.copy) = IF s = <<>> THEN Nobody ELSE s[Len(s)]
      BY <3>2 DEF Previous, Last
    <3>3. /\ \A j \in 1..Len(s) : s[j] \in DOMAIN rev
               /\ rev[s[j]] = [medium |-> c.medium, previous |-> IF j = 1 THEN Nobody ELSE s[j - 1]]
          /\ Len(s) \in Nat /\ (s = <<>> <=> Len(s) = 0)
      <4>1. DOMAIN s = 1..Len(s) /\ Len(s) \in Nat /\ (s = <<>> <=> Len(s) = 0)
        BY <3>1
      <4>2. Chain(c.medium, c.copy, rev, obs, ev)
        OBVIOUS
      <4> QED BY <4>1, <4>2 DEF Chain
    <3> HIDE DEF s
    <3>4. /\ \A j \in 1..Len(s) : r["revisions"][j] = s[j]
          /\ r["revisions"][Len(s) + 1] = c.entry
          /\ i \in 1..(Len(s) + 1)
      BY <1>7, <1>1, <3>1, <3>3
    <3>5. CASE i \in 1..Len(s)
      <4>1. i # 1 => i - 1 \in 1..Len(s)
        BY <3>3, <3>5
      <4> QED BY <4>1, <3>3, <3>4, <3>5
    <3>6. CASE i = Len(s) + 1
      <4>1. i # 1 => i - 1 = Len(s) /\ Len(s) \in 1..Len(s) /\ s # <<>>
        BY <3>3, <3>6
      <4>2. i = 1 => s = <<>>
        BY <3>3, <3>6
      <4> QED BY <4>1, <4>2, <3>2a, <3>2b, <3>4, <3>6
    <3> QED BY <3>3, <3>4, <3>5, <3>6
  <2> QED BY <2>1, <2>2
<1>8. Chain(c.medium, r, rev, obs, ev)
  BY <1>5, <1>6, <1>7 DEF Chain
<1> QED BY <1>3, <1>8 DEF r

(* The steps of an editor.                                                 *)
LEMMA RegistryStarts == RegistryInit => RegistryInv
<1> SUFFICES ASSUME RegistryInit PROVE RegistryInv
  OBVIOUS
<1> USE DEF RegistryInit
<1>1. /\ \A k \in Kinds, m \in Media : records[m][k] = <<>>
      /\ \A e \in Editors : edit[e] \notin Edit
  BY EditsAreBusy
<1>2. RegistryTypes
  BY DEF RegistryTypes, Record
<1>3. HistoriesAreChained
  <2>1. ASSUME NEW m \in Media PROVE Chain(m, records[m], revisions, observations, evidence)
    <3>1. \A k \in Kinds : records[m][k] = <<>>
      BY <1>1
    <3> QED BY <3>1 DEF Chain, Kinds, Range
  <2> QED BY <1>1, <2>1 DEF HistoriesAreChained
<1> QED BY <1>1, <1>2, <1>3 DEF RegistryInv, EntriesAreNew, SidecarsComeFirst

(* What an editor that has the record of a medium in hand changes by       *)
(* moving on or letting go.                                                *)
LEMMA ReadingIsSafe ==
    ASSUME RegistryInv, NEW e \in Editors, NEW m \in Media, NEW kind \in Kinds, ReadRecord(e, m, kind)
    PROVE  RegistryInv'
<1> USE DEF RegistryInv
<1> DEFINE c == [step |-> "sidecar", medium |-> m, kind |-> kind, copy |-> records[m], entry |-> entries + 1]
<1>1. /\ c \in Edit /\ records[m] \in Record /\ entries \in Nat /\ entries' = entries + 1
      /\ DOMAIN revisions \subseteq 1..entries
      /\ UNCHANGED <<records, revisions, observations, evidence>>
  BY DEF ReadRecord, RegistryTypes, Edit
<1>2. /\ edit \in [Editors -> Edit \cup {NoEdit}] /\ edit' \in [Editors -> Edit \cup {NoEdit}]
      /\ edit'[e] = c /\ \A d \in Editors \ {e} : edit'[d] = edit[d]
  BY <1>1 DEF ReadRecord, RegistryTypes
<1>3. c.entry = entries + 1 /\ c.step = "sidecar" /\ c.medium = m /\ c.copy = records[m]
  OBVIOUS
<1> HIDE DEF c
<1>4. 1..entries \subseteq 1..(entries + 1) /\ entries + 1 \in 1..(entries + 1) /\ entries + 1 \notin 1..entries
  BY <1>1
<1>5. RegistryTypes'
  BY <1>1, <1>2, <1>4 DEF RegistryTypes
<1>6. HistoriesAreChained'
  <2>1. Chain(m, records[m], revisions, observations, evidence)
    BY DEF HistoriesAreChained
  <2> QED BY <1>1, <1>2, <1>3, <2>1 DEF HistoriesAreChained
<1>7. EntriesAreNew'
  BY <1>1, <1>2, <1>3, <1>4 DEF EntriesAreNew
<1>8. SidecarsComeFirst'
  BY <1>1, <1>2, <1>3 DEF SidecarsComeFirst
<1> QED BY <1>5, <1>6, <1>7, <1>8

LEMMA SidecarsAreSafe ==
    ASSUME RegistryInv, NEW e \in Editors, WriteSidecar(e)
    PROVE  RegistryInv'
<1> USE DEF RegistryInv
<1>1. PICK c : c = edit[e] /\ c.step = "sidecar"
  BY DEF WriteSidecar
<1>2. c \in Edit /\ edit \in [Editors -> Edit \cup {NoEdit}]
  BY <1>1 DEF RegistryTypes, NoEdit
<1>3. PICK d \in Edit : d = [c EXCEPT !.step = "record"]
  BY <1>2 DEF Edit
<1>4. /\ d.medium = c.medium /\ d.kind = c.kind /\ d.copy = c.copy /\ d.entry = c.entry /\ d.step = "record"
      /\ c.entry \in Nat /\ c.kind \in Kinds /\ c.copy \in Record
  BY <1>2, <1>3 DEF Edit
<1>5. /\ edit' \in [Editors -> Edit \cup {NoEdit}]
      /\ edit'[e] = d /\ \A x \in Editors \ {e} : edit'[x] = edit[x]
      /\ UNCHANGED <<records, entries>>
  BY <1>1, <1>2, <1>3 DEF WriteSidecar
<1>6. c.entry \in 1..entries /\ c.entry \notin DOMAIN revisions
  BY <1>1, <1>2 DEF EntriesAreNew
<1>7. /\ DOMAIN revisions \subseteq DOMAIN revisions'
      /\ DOMAIN revisions' \subseteq DOMAIN revisions \cup {c.entry}
      /\ \A x \in DOMAIN revisions : revisions'[x] = revisions[x]
      /\ observations \subseteq observations' /\ evidence \subseteq evidence'
  BY <1>1, <1>6 DEF WriteSidecar
<1>8. Written(d, revisions', observations', evidence')
  <2>1. Revise(d) = Revise(c)
    BY <1>4 DEF Revise
  <2>2. /\ c.kind = "revisions" => c.entry \in DOMAIN revisions' /\ revisions'[c.entry] = Revise(c)
        /\ c.kind = "observations" => c.entry \in observations'
        /\ c.kind = "evidence" => c.entry \in evidence'
    BY <1>1 DEF WriteSidecar
  <2> QED BY <1>4, <2>1, <2>2 DEF Written
<1>9. RegistryTypes'
  BY <1>5, <1>6, <1>7 DEF RegistryTypes
<1>10. HistoriesAreChained'
  <2>1. ASSUME NEW m \in Media PROVE Chain(m, records'[m], revisions', observations', evidence')
    <3>1. records[m] \in Record /\ Chain(m, records[m], revisions, observations, evidence)
      BY DEF HistoriesAreChained, RegistryTypes
    <3> QED BY <1>5, <1>7, <3>1, ChainsStand
  <2>2. ASSUME NEW x \in Editors, edit'[x] \in Edit
        PROVE  Chain(edit'[x].medium, edit'[x].copy, revisions', observations', evidence')
    <3>1. PICK y \in Edit : y = edit[x] /\ edit'[x].medium = y.medium /\ edit'[x].copy = y.copy
      BY <1>1, <1>2, <1>4, <1>5, <2>2
    <3>2. Chain(y.medium, y.copy, revisions, observations, evidence) /\ y.copy \in Record
      BY <3>1 DEF HistoriesAreChained, Edit
    <3> QED BY <1>7, <3>1, <3>2, ChainsStand
  <2> QED BY <2>1, <2>2 DEF HistoriesAreChained
<1>11. \A x \in Editors \ {e} : edit[x] \in Edit => edit[x].entry # c.entry
  BY <1>1, <1>2 DEF EntriesAreNew
<1>12. EntriesAreNew'
  BY <1>1, <1>2, <1>4, <1>5, <1>7, <1>11 DEF EntriesAreNew
<1>13. SidecarsComeFirst'
  <2>1. ASSUME NEW x \in Editors \ {e}, edit[x] \in Edit, edit[x].step = "record"
        PROVE  Written(edit[x], revisions', observations', evidence')
    <3>1. Written(edit[x], revisions, observations, evidence)
      BY <2>1 DEF SidecarsComeFirst
    <3> QED BY <1>7, <3>1 DEF Written
  <2> QED BY <1>5, <1>8, <2>1 DEF SidecarsComeFirst
<1> QED BY <1>9, <1>10, <1>12, <1>13

(* An editor that lets go, or goes on to relate, keeps its copy and entry. *)
LEMMA LettingGoIsSafe ==
    ASSUME RegistryInv, NEW e \in Editors, NEW d \in Edit \cup {NoEdit},
           edit' = [edit EXCEPT ![e] = d], UNCHANGED <<revisions, observations, evidence, entries>>,
           d \in Edit => /\ d.step = "relate" /\ edit[e] \in Edit
                         /\ d.medium = edit[e].medium /\ d.copy = edit[e].copy
                         /\ d.entry = edit[e].entry,
           records' \in [Media -> Record],
           \A m \in Media : Chain(m, records'[m], revisions, observations, evidence)
    PROVE  RegistryInv'
<1> USE DEF RegistryInv
<1>1. /\ edit \in [Editors -> Edit \cup {NoEdit}] /\ edit' \in [Editors -> Edit \cup {NoEdit}]
      /\ edit'[e] = d /\ \A x \in Editors \ {e} : edit'[x] = edit[x]
      /\ entries \in Nat /\ DOMAIN revisions \subseteq 1..entries
  BY DEF RegistryTypes
<1>2. RegistryTypes'
  BY <1>1 DEF RegistryTypes
<1>3. HistoriesAreChained'
  <2>1. ASSUME NEW x \in Editors, edit'[x] \in Edit
        PROVE  Chain(edit'[x].medium, edit'[x].copy, revisions, observations, evidence)
    <3>1. edit[x] \in Edit /\ edit'[x].medium = edit[x].medium /\ edit'[x].copy = edit[x].copy
      BY <1>1, <2>1
    <3> QED BY <3>1 DEF HistoriesAreChained
  <2> QED BY <2>1 DEF HistoriesAreChained
<1>4. EntriesAreNew'
  <2>1. \A x \in Editors : edit'[x] \in Edit =>
          edit[x] \in Edit /\ edit'[x].entry = edit[x].entry
          /\ (edit'[x].step = "sidecar" => edit[x].step = "sidecar")
    BY <1>1
  <2> QED BY <2>1 DEF EntriesAreNew
<1>5. SidecarsComeFirst'
  BY <1>1 DEF SidecarsComeFirst
<1> QED BY <1>2, <1>3, <1>4, <1>5

LEMMA RecordsAreSafe ==
    ASSUME RegistryInv, NEW e \in Editors, WriteRecord(e)
    PROVE  RegistryInv'
<1> USE DEF RegistryInv
<1>1. PICK c : c = edit[e] /\ c.step = "record"
  BY DEF WriteRecord
<1>2. c \in Edit
  BY <1>1 DEF RegistryTypes, NoEdit
<1>3. PICK r : r = [c.copy EXCEPT ![c.kind] = Append(@, c.entry)]
  OBVIOUS
<1>4. r \in Record /\ Chain(c.medium, r, revisions, observations, evidence)
  <2>1. Chain(c.medium, c.copy, revisions, observations, evidence)
    BY <1>1, <1>2 DEF HistoriesAreChained
  <2>2. Written(c, revisions, observations, evidence)
    BY <1>1, <1>2 DEF SidecarsComeFirst
  <2> QED BY <1>2, <1>3, <2>1, <2>2, ChainsGrow
<1>5. records \in [Media -> Record] /\ c.medium \in Media /\ records' = [records EXCEPT ![c.medium] = r]
  BY <1>1, <1>2, <1>3 DEF WriteRecord, RegistryTypes, Edit
<1>6. records' \in [Media -> Record]
  BY <1>4, <1>5
<1>7. ASSUME NEW m \in Media PROVE Chain(m, records'[m], revisions, observations, evidence)
  BY <1>4, <1>5 DEF HistoriesAreChained
<1>8. PICK d \in Edit \cup {NoEdit} : /\ edit' = [edit EXCEPT ![e] = d]
                                      /\ d = IF c.kind = "evidence" THEN [c EXCEPT !.step = "relate"] ELSE NoEdit
  <2>1. [c EXCEPT !.step = "relate"] \in Edit
    BY <1>2 DEF Edit
  <2> QED BY <1>1, <2>1 DEF WriteRecord
<1>9. d \in Edit => d.step = "relate" /\ d.medium = c.medium /\ d.copy = c.copy /\ d.entry = c.entry
  BY <1>2, <1>8, EditsAreBusy DEF Edit
<1>10. UNCHANGED <<revisions, observations, evidence, entries>>
  BY DEF WriteRecord
<1> QED BY <1>1, <1>2, <1>6, <1>7, <1>8, <1>9, <1>10, LettingGoIsSafe

LEMMA RestingIsSafe ==
    ASSUME RegistryInv, NEW e \in Editors, edit' = [edit EXCEPT ![e] = NoEdit],
           UNCHANGED <<records, revisions, observations, evidence, entries>>
    PROVE  RegistryInv'
<1>1. records' \in [Media -> Record] /\ \A m \in Media : Chain(m, records'[m], revisions, observations, evidence)
  BY DEF RegistryInv, RegistryTypes, HistoriesAreChained
<1>2. NoEdit \in Edit \cup {NoEdit} /\ NoEdit \notin Edit
  BY EditsAreBusy
<1> QED BY <1>1, <1>2, LettingGoIsSafe

LEMMA RegistrySteps ==
    ASSUME RegistryInv, RegistryNext \/ UNCHANGED registryVars
    PROVE  RegistryInv'
<1>1. CASE UNCHANGED registryVars
  BY <1>1 DEF registryVars, RegistryInv, RegistryTypes, HistoriesAreChained, EntriesAreNew, SidecarsComeFirst
<1>2. ASSUME NEW e \in Editors, NEW m \in Media, NEW kind \in Kinds, ReadRecord(e, m, kind)
      PROVE  RegistryInv'
  BY <1>2, ReadingIsSafe
<1>3. ASSUME NEW e \in Editors, WriteSidecar(e) PROVE RegistryInv'
  BY <1>3, SidecarsAreSafe
<1>4. ASSUME NEW e \in Editors, WriteRecord(e) PROVE RegistryInv'
  BY <1>4, RecordsAreSafe
<1>5. ASSUME NEW e \in Editors, Relate(e) PROVE RegistryInv'
  BY <1>5, RestingIsSafe DEF Relate
<1>6. ASSUME NEW e \in Editors, CutEdit(e) PROVE RegistryInv'
  BY <1>6, RestingIsSafe DEF CutEdit
<1> QED BY <1>1, <1>2, <1>3, <1>4, <1>5, <1>6 DEF RegistryNext

(* The inductive invariant of the registry holds whatever its editors do.  *)
THEOREM RegistryInvariant == Spec => []RegistryInv
<1>1. Init => RegistryInv
  BY RegistryStarts DEF Init
<1>2. RegistryInv /\ [Next]_vars => RegistryInv'
  BY RegistrySteps DEF Next, vars
<1> QED BY <1>1, <1>2, PTL DEF Spec

(* What a record of the registry lists exists, and its revisions form one  *)
(* chain, however many editors overwrite one another and wherever they are *)
(* killed (observe, update and add_evidence).                              *)
THEOREM HistoriesStayChained == Spec => []ListedHistoryIsChained
<1>1. RegistryInv => ListedHistoryIsChained
  BY DEF RegistryInv, HistoriesAreChained, Chain, ListedHistoryIsChained
<1> QED BY <1>1, RegistryInvariant, PTL

-----------------------------------------------------------------------------
(* Captures.  The inductive invariant, in named parts.                     *)

JobStates == {"INSPECTING", "CAPTURING", "INGESTING", "FAILED", "TIMEOUT", "TOOL_MISSING",
              "UNSUPPORTED"} \cup Done
JobFile == [kind : Adapters \cup {None}, medium : Media \cup {None}, state : JobStates, whole : BOOLEAN,
            hash : Images \cup {None}, object : Images \cup {None}, repeat : Nat,
            identical : BOOLEAN]
SessionFile == [state : {"NONE", "ACTIVE", "COMPLETED", "INTERRUPTED"}, media : Nat,
                successes : Nat, duplicates : Nat, failures : Nat]
Locals == [job : Nat, mine : JobFile, image : Images \cup {None}, existed : BOOLEAN, batch : BOOLEAN,
           own : SessionFile]
Capturing == {"read", "ingest", "conclude"}    \* the job in hand is not done

CaptureTypes ==
    /\ jobs \in Seq(JobFile) /\ cur \in Locals /\ session \in SessionFile
    /\ pc \in Capturing \cup {"idle", "plan", "prompt", "link", "report"}
    /\ fresh \subseteq objects /\ IsFiniteSet(fresh)

(* A job repeats an earlier one, and one that is done says what it found.  *)
Repeated(js, job, image) ==
    job.repeat # Nobody => (job.identical <=> js[job.repeat].hash = image)
Borne(js, job, objs) == job.state \in Done =>
    /\ job.hash = job.object /\ job.object \in objs
    /\ job.state = "COMPLETE" => job.whole
    /\ Repeated(js, job, job.object)
AllBorne(js, objs) == \A j \in DOMAIN js : js[j].repeat < j /\ Borne(js, js[j], objs)
JobsAreBorneOut == AllBorne(jobs, objects)

(* The job in hand is the last one, as no two captures run at a time; its  *)
(* file says it is done no sooner than the job in memory is.               *)
JobInHand ==
    /\ pc \in Capturing \cup {"link", "report"} =>
         /\ cur.job = Len(jobs) /\ cur.job \in DOMAIN jobs
         /\ Mine.repeat = jobs[cur.job].repeat /\ Mine.medium = jobs[cur.job].medium
    /\ pc \in Capturing => Mine.state \notin Done /\ jobs[cur.job].state \notin Done
    /\ pc \in {"link", "report"} => Mine = jobs[cur.job] /\ Mine.state \in Done
    /\ pc \in {"ingest", "conclude"} => cur.image \in Images /\ Repeated(jobs, Mine, cur.image)
    /\ pc = "conclude" => cur.image \in objects

LinksAreBorneOut == \A k \in links :
    /\ k.job \in DOMAIN jobs /\ jobs[k.job].state \in Done
    /\ jobs[k.job].object = k.object /\ jobs[k.job].medium = k.medium

(* New bytes are counted after they were archived.                         *)
Pending(step, command) == IF step \in {"conclude", "report"} /\ ~command.existed THEN 1 ELSE 0
Counted(s, n, new) == s.successes + n <= s.duplicates + Cardinality(new)
CountsFollow == Counted(session, 0, fresh) /\ Counted(cur.own, Pending(pc, cur), fresh)

CaptureInv == CaptureTypes /\ JobsAreBorneOut /\ JobInHand /\ LinksAreBorneOut /\ CountsFollow

-----------------------------------------------------------------------------
(* Only the last job file is written again, which no other job repeats.    *)
LEMMA SavedJobsAreBorneOut ==
    ASSUME NEW js \in Seq(JobFile), NEW objs, NEW n \in DOMAIN js, n = Len(js),
           AllBorne(js, objs),
           NEW job \in JobFile, job.repeat = js[n].repeat, Borne(js, job, objs),
           NEW js2, js2 = [js EXCEPT ![n] = job]
    PROVE  /\ js2 \in Seq(JobFile) /\ Len(js2) = Len(js) /\ DOMAIN js2 = DOMAIN js
           /\ js2[n] = job /\ \A j \in DOMAIN js \ {n} : js2[j] = js[j]
           /\ AllBorne(js2, objs)
           /\ \A image : Repeated(js, job, image) => Repeated(js2, job, image)
<1>1. /\ js2 \in Seq(JobFile) /\ Len(js2) = Len(js) /\ DOMAIN js2 = DOMAIN js
      /\ js2[n] = job /\ \A j \in DOMAIN js \ {n} : js2[j] = js[j]
      /\ DOMAIN js = 1..n /\ n \in Nat
  OBVIOUS
<1>2. ASSUME NEW j \in DOMAIN js PROVE js2[j].repeat < j /\ js2[j] \in JobFile
  <2>1. js[j].repeat < j
    BY DEF AllBorne
  <2>2. js2[j].repeat = js[j].repeat
    BY <1>1
  <2> QED BY <1>1, <2>1, <2>2
<1>3. ASSUME NEW j \in DOMAIN js, js2[j].repeat # Nobody
      PROVE  js2[js2[j].repeat] = js[js2[j].repeat]
  <2>1. PICK q \in Nat : q = js2[j].repeat /\ q < j /\ q # 0
    BY <1>2, <1>3 DEF JobFile, Nobody
  <2>2. q \in DOMAIN js \ {n}
    BY <1>1, <2>1
  <2> QED BY <1>1, <2>1, <2>2
<1>4. ASSUME NEW j \in DOMAIN js PROVE Borne(js2, js2[j], objs)
  <2>1. Borne(js, js2[j], objs)
    BY <1>1 DEF AllBorne
  <2> QED BY <1>3, <2>1 DEF Borne, Repeated
<1>5. \A image : Repeated(js, job, image) => Repeated(js2, job, image)
  BY <1>1, <1>3 DEF Repeated
<1> QED BY <1>1, <1>2, <1>4, <1>5 DEF AllBorne

(* A job that is begun is the last one, and nothing repeats it yet.        *)
LEMMA BegunJobsAreBorneOut ==
    ASSUME NEW js \in Seq(JobFile), NEW objs,
           AllBorne(js, objs),
           NEW job \in JobFile, job.repeat \in DOMAIN js \cup {Nobody}, job.state \notin Done,
           NEW js2, js2 = Append(js, job)
    PROVE  /\ js2 \in Seq(JobFile) /\ Len(js2) = Len(js) + 1 /\ DOMAIN js \subseteq DOMAIN js2
           /\ Len(js) + 1 \in DOMAIN js2 /\ js2[Len(js) + 1] = job
           /\ \A j \in DOMAIN js : js2[j] = js[j]
           /\ AllBorne(js2, objs)
<1> DEFINE n == Len(js)
<1>1. /\ js2 \in Seq(JobFile) /\ Len(js2) = n + 1 /\ DOMAIN js2 = 1..(n + 1)
      /\ js2[n + 1] = job /\ \A j \in 1..n : js2[j] = js[j]
      /\ DOMAIN js = 1..n /\ n \in Nat
  OBVIOUS
<1> HIDE DEF n
<1>2. 1..n \subseteq 1..(n + 1) /\ n + 1 \in 1..(n + 1) /\ \A j \in 1..(n + 1) : j \in 1..n \/ j = n + 1
  BY <1>1
<1>3. ASSUME NEW j \in 1..n PROVE js2[j].repeat < j /\ Borne(js2, js2[j], objs)
  <2>1. js[j].repeat < j /\ Borne(js, js[j], objs) /\ js2[j] = js[j] /\ js[j] \in JobFile
    BY <1>1 DEF AllBorne
  <2>2. PICK q \in Nat : q = js[j].repeat /\ q < j
    BY <2>1 DEF JobFile
  <2>3. q # 0 => js2[q] = js[q]
    BY <1>1, <2>2
  <2> QED BY <2>1, <2>2, <2>3 DEF Borne, Repeated, Nobody
<1>4. job.repeat < n + 1
  BY <1>1 DEF Nobody
<1>5. Borne(js2, job, objs)
  BY DEF Borne
<1> QED BY <1>1, <1>2, <1>3, <1>4, <1>5 DEF n, AllBorne

(* The session's counts hold as long as no fewer bytes are new.            *)
LEMMA CountsStand ==
    ASSUME NEW s \in SessionFile, NEW new, NEW new2, NEW n \in Nat, NEW n2 \in Nat, n2 <= n,
           IsFiniteSet(new2), new \subseteq new2, Counted(s, n, new)
    PROVE  Counted(s, n2, new2)
<1>1. Cardinality(new) <= Cardinality(new2) /\ Cardinality(new2) \in Nat /\ Cardinality(new) \in Nat
  BY FS_Subset, FS_CardinalityType
<1>2. s.successes \in Nat /\ s.duplicates \in Nat
  BY DEF SessionFile
<1> QED BY <1>1, <1>2 DEF Counted

(* The locals of no command.                                               *)
LEMMA NothingInHand == NoCommand \in Locals /\ NoCommand.own = NoSession /\ NoSession \in SessionFile
<1>1. Job(None, None, Nobody) \in JobFile
  BY DEF Job, JobFile, JobStates, None, Nobody
<1>2. NoSession \in SessionFile
  BY DEF NoSession, SessionFile
<1> QED BY <1>1, <1>2 DEF NoCommand, Locals, None

LEMMA CaptureStarts == Init => CaptureInv
<1> SUFFICES ASSUME Init PROVE CaptureInv
  OBVIOUS
<1> USE DEF Init, NoCommand, NoSession, None
<1>1. NoCommand \in Locals /\ NoSession \in SessionFile
  BY NothingInHand
<1>2. CaptureTypes
  BY <1>1, FS_EmptySet DEF CaptureTypes, Capturing
<1>3. CountsFollow
  BY FS_EmptySet DEF CountsFollow, Counted, Pending
<1>4. JobsAreBorneOut /\ LinksAreBorneOut
  BY DEF JobsAreBorneOut, AllBorne, LinksAreBorneOut
<1>5. JobInHand
  BY DEF JobInHand, Capturing
<1> QED BY <1>2, <1>3, <1>4, <1>5 DEF CaptureInv

(* Steps after which no job is in hand.                                    *)
LEMMA SettlingIsSafe ==
    ASSUME CaptureInv, pc' \in {"idle", "plan", "prompt"}, cur' \in Locals, session' \in SessionFile,
           jobs' \in Seq(JobFile), JobsAreBorneOut', LinksAreBorneOut', UNCHANGED objects,
           fresh' \subseteq objects, IsFiniteSet(fresh'),
           Counted(session', 0, fresh'), Counted(cur'.own, 0, fresh')
    PROVE  CaptureInv'
<1>1. CaptureTypes'
  BY DEF CaptureTypes
<1>2. JobInHand'
  BY DEF JobInHand, Capturing
<1>3. CountsFollow'
  <2>1. Pending(pc', cur') = 0
    BY DEF Pending
  <2> QED BY <2>1 DEF CountsFollow
<1> QED BY <1>1, <1>2, <1>3 DEF CaptureInv

(* Of these, those that leave the jobs and the archive alone.              *)
LEMMA WaitingIsSafe ==
    ASSUME CaptureInv, pc' \in {"idle", "plan", "prompt"}, cur' \in Locals, session' \in SessionFile,
           UNCHANGED <<objects, jobs, links, fresh>>,
           Counted(session', 0, fresh), Counted(cur'.own, 0, fresh)
    PROVE  CaptureInv'
<1>1. jobs' \in Seq(JobFile) /\ fresh' \subseteq objects /\ IsFiniteSet(fresh')
  BY DEF CaptureInv, CaptureTypes
<1>2. JobsAreBorneOut' /\ LinksAreBorneOut'
  BY DEF CaptureInv, JobsAreBorneOut, LinksAreBorneOut
<1> QED BY <1>1, <1>2, SettlingIsSafe

LEMMA NothingIsCounted == ASSUME NEW new, IsFiniteSet(new) PROVE Counted(NoSession, 0, new)
<1>1. Cardinality(new) \in Nat
  BY FS_CardinalityType
<1> QED BY <1>1 DEF Counted, NoSession

LEMMA CountsInHand ==
    ASSUME CaptureInv
    PROVE  /\ IsFiniteSet(fresh) /\ session \in SessionFile /\ cur.own \in SessionFile
           /\ Counted(session, 0, fresh) /\ Counted(cur.own, 0, fresh)
           /\ \A new : IsFiniteSet(new) /\ fresh \subseteq new => Counted(session, 0, new) /\ Counted(cur.own, 0, new)
<1>1. /\ IsFiniteSet(fresh) /\ session \in SessionFile /\ cur.own \in SessionFile
      /\ Counted(session, 0, fresh) /\ Counted(cur.own, Pending(pc, cur), fresh)
  BY DEF CaptureInv, CaptureTypes, CountsFollow, Locals
<1>2. Pending(pc, cur) \in Nat /\ 0 <= Pending(pc, cur)
  BY DEF Pending
<1>3. \A new : IsFiniteSet(new) /\ fresh \subseteq new => Counted(session, 0, new) /\ Counted(cur.own, 0, new)
  BY <1>1, <1>2, CountsStand
<1> QED BY <1>1, <1>3

(* What a command leaves behind when it saves its session.                 *)
LEMMA SavingLeaves ==
    ASSUME CaptureInv, NEW own \in SessionFile, NEW step \in {"idle", "prompt"}, SaveSession(own, step),
           Counted(own, 0, fresh)
    PROVE  /\ pc' \in {"idle", "prompt"} /\ cur' \in Locals /\ session' \in SessionFile
           /\ Counted(session', 0, fresh) /\ Counted(cur'.own, 0, fresh)
<1>1. IsFiniteSet(fresh) /\ cur \in Locals
  BY DEF CaptureInv, CaptureTypes
<1>2. CASE step = "idle"
  BY <1>1, <1>2, NothingInHand, NothingIsCounted DEF SaveSession
<1>3. CASE step # "idle"
  <2>1. PICK b \in BOOLEAN : b = cur.batch
    BY <1>1 DEF Locals
  <2>2. cur' = [NoCommand EXCEPT !.own = own, !.batch = b] /\ session' = own /\ pc' = "prompt"
    BY <1>3, <2>1 DEF SaveSession
  <2>3. cur' \in Locals /\ cur'.own = own
    BY <2>2, NothingInHand DEF Locals, NoCommand
  <2> QED BY <2>2, <2>3
<1> QED BY <1>2, <1>3

LEMMA SessionsBegin ==
    ASSUME CaptureInv, BeginSession
    PROVE  CaptureInv'
<1>1. PICK own \in SessionFile : own = [NoSession EXCEPT !.state = "ACTIVE"]
  BY DEF NoSession, SessionFile
<1>2. PICK b \in BOOLEAN : cur' = [NoCommand EXCEPT !.batch = b, !.own = own]
  BY <1>1 DEF BeginSession
<1>3. cur' \in Locals /\ cur'.own = own
  BY <1>2, NothingInHand DEF Locals, NoCommand
<1>4. session' = own /\ fresh' = {} /\ pc' = "plan" /\ UNCHANGED <<objects, jobs, links>>
  BY <1>1 DEF BeginSession
<1>5. IsFiniteSet({}) /\ Counted(own, 0, {})
  BY <1>1, FS_EmptySet DEF Counted, NoSession
<1>6. jobs' \in Seq(JobFile) /\ JobsAreBorneOut' /\ LinksAreBorneOut'
  BY <1>4 DEF CaptureInv, CaptureTypes, JobsAreBorneOut, LinksAreBorneOut
<1> QED BY <1>3, <1>4, <1>5, <1>6, SettlingIsSafe

LEMMA LeavingIsSafe ==
    ASSUME CaptureInv, Leave, UNCHANGED <<objects, jobs, links, session, fresh>>
    PROVE  CaptureInv'
<1>1. /\ pc' = "idle" /\ cur' \in Locals /\ session' \in SessionFile
      /\ Counted(session', 0, fresh) /\ Counted(cur'.own, 0, fresh)
  BY CountsInHand, NothingInHand, NothingIsCounted DEF Leave
<1> QED BY <1>1, WaitingIsSafe

LEMMA InsertingIsSafe ==
    ASSUME CaptureInv, Insert
    PROVE  CaptureInv'
<1>1. /\ pc' = "plan" /\ cur' \in Locals /\ session' \in SessionFile
      /\ Counted(session', 0, fresh) /\ Counted(cur'.own, 0, fresh)
      /\ UNCHANGED <<objects, jobs, links, fresh>>
  BY CountsInHand DEF Insert, CaptureInv, CaptureTypes
<1> QED BY <1>1, WaitingIsSafe

(* After a medium the session goes on or ends, with the counts it has.     *)
LEMMA NextMediumLeaves ==
    ASSUME CaptureInv, NEW own \in SessionFile, Counted(own, 0, fresh),
           NextMedium(own) \/ SaveSession([own EXCEPT !.state = "INTERRUPTED"], "idle")
    PROVE  /\ pc' \in {"idle", "prompt"} /\ cur' \in Locals /\ session' \in SessionFile
           /\ Counted(session', 0, fresh) /\ Counted(cur'.own, 0, fresh)
<1>1. ASSUME NEW state \in {"COMPLETED", "INTERRUPTED"}, SaveSession([own EXCEPT !.state = state], "idle")
      PROVE  /\ pc' \in {"idle", "prompt"} /\ cur' \in Locals /\ session' \in SessionFile
             /\ Counted(session', 0, fresh) /\ Counted(cur'.own, 0, fresh)
  <2>1. PICK s \in SessionFile : s = [own EXCEPT !.state = state]
    BY DEF SessionFile
  <2>2. s.successes = own.successes /\ s.duplicates = own.duplicates
    BY <2>1 DEF SessionFile
  <2>3. Counted(s, 0, fresh) /\ SaveSession(s, "idle")
    BY <1>1, <2>1, <2>2 DEF Counted
  <2> QED BY <2>3, SavingLeaves
<1>2. CASE SaveSession(own, "prompt")
  BY <1>2, SavingLeaves
<1> QED BY <1>1, <1>2 DEF NextMedium

LEMMA ReportsAreSafe ==
    ASSUME CaptureInv, Report
    PROVE  CaptureInv'
<1>1. PICK n \in {0, 1} : n = IF cur.existed THEN 1 ELSE 0
  OBVIOUS
<1>2. PICK own \in SessionFile :
          /\ NextMedium(own)
          /\ own.successes = cur.own.successes + 1 /\ own.duplicates = cur.own.duplicates + n
  <2>1. PICK s \in SessionFile : s = cur.own
    BY CountsInHand
  <2>2. PICK own : own = [s EXCEPT !.media = @ + 1, !.successes = @ + 1, !.duplicates = @ + n]
    OBVIOUS
  <2>2a. s.media + 1 \in Nat /\ s.successes + 1 \in Nat /\ s.duplicates + n \in Nat
    BY DEF SessionFile
  <2>3. own \in SessionFile /\ own.successes = s.successes + 1 /\ own.duplicates = s.duplicates + n
    BY <2>2, <2>2a, Zenon DEF SessionFile
  <2> QED BY <1>1, <2>1, <2>2, <2>3 DEF Report
<1>3. /\ Counted(cur.own, Pending(pc, cur), fresh) /\ pc = "report" /\ Cardinality(fresh) \in Nat
      /\ cur.own.successes \in Nat /\ cur.own.duplicates \in Nat
  BY CountsInHand, FS_CardinalityType DEF CaptureInv, CountsFollow, Report, SessionFile
<1>4. Pending(pc, cur) = 1 - n
  BY <1>1, <1>3 DEF Pending
<1>5. Counted(own, 0, fresh)
  BY <1>2, <1>3, <1>4 DEF Counted
<1>6. UNCHANGED <<objects, jobs, links, fresh>>
  BY DEF Report
<1> QED BY <1>2, <1>5, <1>6, NextMediumLeaves, WaitingIsSafe

(* The job in memory until it is done.                                     *)
LEMMA InMemory ==
    ASSUME CaptureInv, pc \in Capturing
    PROVE  /\ Mine \in JobFile /\ Mine.state \in JobStates \ Done
           /\ jobs \in Seq(JobFile) /\ cur \in Locals
           /\ cur.job = Len(jobs) /\ cur.job \in DOMAIN jobs /\ jobs[cur.job].state \notin Done
           /\ Mine.repeat = jobs[cur.job].repeat /\ Mine.medium = jobs[cur.job].medium
<1>1. /\ jobs \in Seq(JobFile) /\ cur \in Locals /\ Mine.state \notin Done
      /\ cur.job = Len(jobs) /\ cur.job \in DOMAIN jobs /\ jobs[cur.job].state \notin Done
      /\ Mine.repeat = jobs[cur.job].repeat /\ Mine.medium = jobs[cur.job].medium
  BY DEF CaptureInv, CaptureTypes, JobInHand
<1>2. PICK job \in JobFile : job = Mine
  BY <1>1 DEF Locals, Mine
<1>3. job.state \in JobStates
  BY DEF JobFile
<1> QED BY <1>1, <1>2, <1>3

(* A job file whose job has not come to an end is saved.                   *)
LEMMA OpenJobsAreSaved ==
    ASSUME CaptureInv, pc \in Capturing, NEW job \in JobFile, job.repeat = Mine.repeat,
           job.medium = Mine.medium, SaveJob(job), UNCHANGED objects, links' = links,
           Borne(jobs, job, objects)
    PROVE  /\ jobs' \in Seq(JobFile) /\ JobsAreBorneOut' /\ LinksAreBorneOut'
           /\ Len(jobs') = Len(jobs) /\ DOMAIN jobs' = DOMAIN jobs /\ jobs'[cur.job] = job
           /\ \A image : Repeated(jobs, job, image) => Repeated(jobs', job, image)
<1>1. PICK n \in DOMAIN jobs : n = cur.job /\ n = Len(jobs) /\ jobs[n].state \notin Done
  BY InMemory
<1>2. /\ jobs \in Seq(JobFile) /\ jobs' = [jobs EXCEPT ![n] = job] /\ job.repeat = jobs[n].repeat
      /\ AllBorne(jobs, objects)
  BY <1>1, InMemory DEF SaveJob, CaptureInv, JobsAreBorneOut
<1>3. /\ jobs' \in Seq(JobFile) /\ Len(jobs') = Len(jobs) /\ DOMAIN jobs' = DOMAIN jobs
      /\ jobs'[n] = job /\ \A j \in DOMAIN jobs \ {n} : jobs'[j] = jobs[j]
      /\ AllBorne(jobs', objects)
      /\ \A image : Repeated(jobs, job, image) => Repeated(jobs', job, image)
  <2>1. PICK js, objs, js2 : js = jobs /\ objs = objects /\ js2 = jobs'
    OBVIOUS
  <2>2. /\ js \in Seq(JobFile) /\ n \in DOMAIN js /\ n = Len(js) /\ job.repeat = js[n].repeat
        /\ js2 = [js EXCEPT ![n] = job] /\ AllBorne(js, objs) /\ Borne(js, job, objs)
    BY <1>1, <1>2, <2>1
  <2>3. /\ js2 \in Seq(JobFile) /\ Len(js2) = Len(js) /\ DOMAIN js2 = DOMAIN js
        /\ js2[n] = job /\ \A j \in DOMAIN js \ {n} : js2[j] = js[j]
    BY <2>2, SavedJobsAreBorneOut
  <2>4. AllBorne(js2, objs)
    BY <2>2, SavedJobsAreBorneOut
  <2>5. ASSUME NEW image, Repeated(js, job, image) PROVE Repeated(js2, job, image)
    BY <2>2, <2>5, SavedJobsAreBorneOut
  <2> QED BY <2>1, <2>3, <2>4, <2>5
<1>4. JobsAreBorneOut'
  BY <1>3 DEF JobsAreBorneOut
<1>5. LinksAreBorneOut'
  <2>1. \A k \in links : k.job \in DOMAIN jobs \ {n}
    BY <1>1 DEF CaptureInv, LinksAreBorneOut
  <2> QED BY <1>3, <2>1 DEF CaptureInv, LinksAreBorneOut
<1> QED BY <1>1, <1>3, <1>4, <1>5

LEMMA InterruptsAreSafe ==
    ASSUME CaptureInv, Interrupt
    PROVE  CaptureInv'
<1>1. UNCHANGED <<objects, links, fresh>>
  BY DEF Interrupt
<1>1a. jobs' \in Seq(JobFile) /\ JobsAreBorneOut' /\ LinksAreBorneOut' /\ fresh' \subseteq objects
       /\ IsFiniteSet(fresh')
  <2>1. fresh' \subseteq objects /\ IsFiniteSet(fresh')
    BY <1>1 DEF CaptureInv, CaptureTypes
  <2>2. CASE AtWork
    <3>1. pc \in Capturing /\ SaveJob(Mine)
      BY <2>2 DEF Interrupt, AtWork, Capturing
    <3>2. PICK job \in JobFile : job = Mine /\ job.state \notin Done
      BY <3>1, InMemory
    <3>3. Borne(jobs, job, objects)
      BY <3>2 DEF Borne
    <3> QED BY <1>1, <2>1, <3>1, <3>2, <3>3, OpenJobsAreSaved
  <2>3. CASE ~AtWork
    <3>1. UNCHANGED jobs
      BY <2>3 DEF Interrupt
    <3> QED BY <1>1, <2>1, <3>1 DEF CaptureInv, CaptureTypes, JobsAreBorneOut, LinksAreBorneOut
  <2> QED BY <2>2, <2>3
<1>2. CASE InSession
  <2>1. PICK own \in SessionFile : own = [cur.own EXCEPT !.state = "INTERRUPTED"]
    BY CountsInHand DEF SessionFile
  <2>2. Counted(own, 0, fresh)
    <3>1. own.successes = cur.own.successes /\ own.duplicates = cur.own.duplicates
      BY <2>1, CountsInHand DEF SessionFile
    <3> QED BY <3>1, CountsInHand DEF Counted
  <2>3. SaveSession(own, "idle")
    BY <1>2, <2>1 DEF Interrupt
  <2>4. /\ pc' \in {"idle", "prompt"} /\ cur' \in Locals /\ session' \in SessionFile
        /\ Counted(session', 0, fresh) /\ Counted(cur'.own, 0, fresh)
    BY <2>2, <2>3, SavingLeaves
  <2> QED BY <1>1, <1>1a, <2>4, SettlingIsSafe
<1>3. CASE ~InSession
  <2>1. /\ pc' = "idle" /\ cur' \in Locals /\ session' \in SessionFile
        /\ Counted(session', 0, fresh) /\ Counted(cur'.own, 0, fresh)
    BY <1>3, CountsInHand, NothingInHand, NothingIsCounted DEF Interrupt, Leave
  <2> QED BY <1>1, <1>1a, <2>1, SettlingIsSafe
<1> QED BY <1>2, <1>3

LEMMA CapturesBegin ==
    ASSUME CaptureInv, NEW kind \in Adapters, NEW medium \in Media \cup {None},
           NEW repeat \in DOMAIN jobs \cup {Nobody}, Begin(kind, medium, repeat)
    PROVE  CaptureInv'
<1>1. jobs \in Seq(JobFile) /\ Len(jobs) + 1 \in Nat /\ cur \in Locals
  BY DEF CaptureInv, CaptureTypes
<1>2. repeat \in Nat
  BY <1>1 DEF Nobody
<1>3. PICK job \in JobFile : /\ job = Job(kind, medium, repeat)
                             /\ job.repeat = repeat /\ job.state \notin Done
  <2>1. Job(kind, medium, repeat) \in JobFile
    BY <1>2 DEF Job, JobFile, JobStates, None
  <2> QED BY <2>1 DEF Job, Done
<1>4. jobs' = Append(jobs, job) /\ UNCHANGED <<objects, links, session, fresh>> /\ pc' = "read"
  BY <1>3 DEF Begin
<1>5. AllBorne(jobs, objects)
  BY DEF CaptureInv, JobsAreBorneOut
<1>6. PICK n : n = Len(jobs) + 1
  OBVIOUS
<1>7. /\ jobs' \in Seq(JobFile) /\ Len(jobs') = n /\ DOMAIN jobs \subseteq DOMAIN jobs'
      /\ n \in DOMAIN jobs' /\ jobs'[n] = job
      /\ \A j \in DOMAIN jobs : jobs'[j] = jobs[j]
      /\ AllBorne(jobs', objects)
  <2>1. PICK js, objs, js2 : js = jobs /\ objs = objects /\ js2 = jobs'
    OBVIOUS
  <2>2. /\ js \in Seq(JobFile) /\ AllBorne(js, objs) /\ js2 = Append(js, job)
        /\ job.repeat \in DOMAIN js \cup {Nobody} /\ job.state \notin Done
    BY <1>1, <1>3, <1>4, <1>5, <2>1
  <2>3. /\ js2 \in Seq(JobFile) /\ Len(js2) = Len(js) + 1 /\ DOMAIN js \subseteq DOMAIN js2
        /\ Len(js) + 1 \in DOMAIN js2 /\ js2[Len(js) + 1] = job
        /\ \A j \in DOMAIN js : js2[j] = js[j]
    BY <2>2, BegunJobsAreBorneOut
  <2>4. AllBorne(js2, objs)
    BY <2>2, BegunJobsAreBorneOut
  <2> QED BY <1>4, <1>6, <2>1, <2>3, <2>4
<1>8. cur' \in Locals /\ cur'.job = n /\ cur'.mine = job /\ cur'.own = cur.own
  <2>1. n \in Nat /\ cur' = [cur EXCEPT !.job = n, !.mine = job]
    BY <1>1, <1>3, <1>6 DEF Begin
  <2> QED BY <1>1, <2>1 DEF Locals
<1>9. CaptureTypes'
  BY <1>4, <1>7, <1>8 DEF CaptureInv, CaptureTypes, Capturing
<1>10. JobsAreBorneOut' /\ LinksAreBorneOut'
  BY <1>4, <1>7 DEF CaptureInv, JobsAreBorneOut, LinksAreBorneOut
<1>11. JobInHand'
  BY <1>3, <1>4, <1>7, <1>8 DEF JobInHand, Capturing, Mine
<1>12. CountsFollow'
  <2>1. Pending(pc', cur') = 0
    BY <1>4 DEF Pending
  <2> QED BY <1>4, <1>8, <2>1, CountsInHand DEF CountsFollow
<1> QED BY <1>9, <1>10, <1>11, <1>12 DEF CaptureInv

LEMMA ReadsAreSafe ==
    ASSUME CaptureInv, Read
    PROVE  CaptureInv'
<1>1. PICK image \in Images, whole \in BOOLEAN :
        cur' = [cur EXCEPT !.image = image,
                           !.mine = [Hashed(Compared(Mine, image), image)
                                       EXCEPT !.whole = whole, !.state = "INGESTING"]]
  BY DEF Read
<1>2. pc = "read" /\ pc' = "ingest" /\ UNCHANGED <<objects, jobs, links, session, fresh>>
  BY DEF Read
<1>3. /\ jobs \in Seq(JobFile) /\ cur \in Locals /\ cur.job = Len(jobs) /\ cur.job \in DOMAIN jobs
      /\ jobs[cur.job].state \notin Done
      /\ Mine.repeat = jobs[cur.job].repeat /\ Mine.medium = jobs[cur.job].medium
  BY <1>2, InMemory DEF Capturing
<1>4. PICK old \in JobFile : old = Mine
  BY <1>2, InMemory DEF Capturing
<1>5. PICK b \in BOOLEAN : b = (old.repeat # Nobody /\ jobs[old.repeat].hash = image)
  OBVIOUS
<1>6. PICK j1 \in JobFile : j1 = [old EXCEPT !.identical = b]
  BY DEF JobFile
<1>6a. j1.repeat = old.repeat /\ j1.medium = old.medium /\ j1.identical = b
  BY <1>6 DEF JobFile
<1>6b. PICK j2 \in JobFile : j2 = Hashed(j1, image)
  BY DEF JobFile, Hashed
<1>6c. j2.repeat = old.repeat /\ j2.medium = old.medium /\ j2.identical = b
  BY <1>6a, <1>6b DEF JobFile, Hashed
<1>7. PICK job \in JobFile : job = [j2 EXCEPT !.whole = whole, !.state = "INGESTING"]
  BY DEF JobFile, JobStates
<1>8. job.repeat = Mine.repeat /\ job.medium = Mine.medium
      /\ job.state = "INGESTING" /\ Repeated(jobs, job, image)
  <2>1. job.repeat = old.repeat /\ job.medium = old.medium /\ job.identical = b /\ job.state = "INGESTING"
    BY <1>6c, <1>7 DEF JobFile
  <2>2. Repeated(jobs, job, image)
    BY <1>5, <2>1 DEF Repeated
  <2> QED BY <1>4, <2>1, <2>2
<1>9. cur' = [cur EXCEPT !.image = image, !.mine = job]
  BY <1>1, <1>4, <1>5, <1>6, <1>6b, <1>7 DEF Compared
<1>10. jobs' \in Seq(JobFile) /\ JobsAreBorneOut' /\ LinksAreBorneOut'
  BY <1>2, <1>3 DEF CaptureInv, JobsAreBorneOut, LinksAreBorneOut
<1>11. /\ cur' \in Locals /\ cur'.job = cur.job /\ cur'.image = image /\ cur'.own = cur.own
       /\ cur'.mine = job
  BY <1>3, <1>9 DEF Locals
<1>12. CaptureTypes'
  BY <1>2, <1>10, <1>11 DEF CaptureInv, CaptureTypes, Capturing
<1>13. JobInHand'
  BY <1>2, <1>3, <1>8, <1>11 DEF JobInHand, Capturing, Mine, Done
<1>14. CountsFollow'
  <2>1. Pending(pc', cur') = 0
    BY <1>2 DEF Pending
  <2> QED BY <1>2, <1>11, <2>1, CountsInHand DEF CountsFollow
<1> QED BY <1>10, <1>12, <1>13, <1>14 DEF CaptureInv

LEMMA IngestsAreSafe ==
    ASSUME CaptureInv, Ingest
    PROVE  CaptureInv'
<1>1. PICK image : image = cur.image
  OBVIOUS
<1>2. PICK existed : existed = (image \in objects) /\ existed \in BOOLEAN
  <2>1. (image \in objects) \in BOOLEAN
    OBVIOUS
  <2> QED BY <2>1, Zenon
<1>3. /\ pc = "ingest" /\ pc' = "conclude" /\ UNCHANGED <<jobs, links, session>>
      /\ objects' = objects \cup {image} /\ fresh' = fresh \cup ({image} \ objects)
      /\ cur' = [cur EXCEPT !.existed = existed]
  BY <1>1, <1>2 DEF Ingest, Existed
<1>4. /\ jobs \in Seq(JobFile) /\ cur \in Locals /\ cur.job = Len(jobs) /\ cur.job \in DOMAIN jobs
      /\ Mine.repeat = jobs[cur.job].repeat /\ Mine.medium = jobs[cur.job].medium
      /\ Mine.state \notin Done /\ jobs[cur.job].state \notin Done
      /\ image \in Images /\ Repeated(jobs, Mine, image)
      /\ fresh \subseteq objects /\ IsFiniteSet(fresh)
  BY <1>1, <1>3 DEF CaptureInv, CaptureTypes, JobInHand, Capturing
<1>5. /\ cur' \in Locals /\ cur'.job = cur.job /\ cur'.image = image /\ cur'.existed = existed
      /\ cur'.own = cur.own /\ cur'.mine = cur.mine
  <2>1. PICK b \in BOOLEAN : b = existed
    BY <1>2
  <2>2. cur' = [cur EXCEPT !.existed = b]
    BY <1>3, <2>1
  <2>3. cur' \in Locals
    BY <1>4, <2>2 DEF Locals
  <2>4. /\ cur'.job = cur.job /\ cur'.image = cur.image /\ cur'.own = cur.own /\ cur'.existed = b
        /\ cur'.mine = cur.mine
    BY <1>4, <2>2 DEF Locals
  <2> QED BY <1>1, <2>1, <2>3, <2>4
<1>6. /\ fresh' \subseteq objects' /\ fresh \subseteq fresh' /\ IsFiniteSet(fresh')
      /\ ~existed => Cardinality(fresh') = Cardinality(fresh) + 1
  <2>1. CASE existed
    BY <1>2, <1>3, <1>4, <2>1
  <2>2. CASE ~existed
    <3>1. fresh' = fresh \cup {image} /\ image \notin fresh
      BY <1>2, <1>3, <1>4, <2>2
    <3> QED BY <1>3, <1>4, <3>1, FS_AddElement
  <2> QED BY <2>1, <2>2
<1>7. CaptureTypes'
  BY <1>3, <1>5, <1>6 DEF CaptureInv, CaptureTypes, Capturing
<1>8. JobsAreBorneOut' /\ LinksAreBorneOut'
  BY <1>3 DEF CaptureInv, JobsAreBorneOut, AllBorne, LinksAreBorneOut, Borne
<1>9. JobInHand'
  BY <1>3, <1>4, <1>5 DEF JobInHand, Capturing, Mine, Done
<1>10. CountsFollow'
  <2>1. /\ Counted(session, 0, fresh') /\ Counted(cur.own, 0, fresh')
        /\ Counted(cur.own, 0, fresh) /\ cur.own \in SessionFile /\ Cardinality(fresh) \in Nat
    BY <1>6, CountsInHand, FS_CardinalityType
  <2>2. ~existed => Counted(cur.own, 1, fresh')
    BY <1>6, <2>1 DEF Counted, SessionFile
  <2>3. Pending(pc', cur') = IF existed THEN 0 ELSE 1
    BY <1>3, <1>5 DEF Pending
  <2>4. Counted(session', 0, fresh')
    BY <1>3, <2>1 DEF Counted
  <2>5. Counted(cur'.own, Pending(pc', cur'), fresh')
    BY <1>5, <2>1, <2>2, <2>3
  <2> QED BY <2>4, <2>5 DEF CountsFollow
<1> QED BY <1>7, <1>8, <1>9, <1>10 DEF CaptureInv

LEMMA ConclusionsAreSafe ==
    ASSUME CaptureInv, Conclude
    PROVE  CaptureInv'
<1>1. /\ pc = "conclude" /\ pc' \in {"link", "report"} /\ UNCHANGED <<objects, links, session, fresh>>
  BY DEF Conclude
<1>2. /\ jobs \in Seq(JobFile) /\ cur \in Locals /\ cur.job = Len(jobs) /\ cur.job \in DOMAIN jobs
      /\ cur.image \in Images /\ cur.image \in objects /\ Repeated(jobs, Mine, cur.image)
  BY <1>1 DEF CaptureInv, CaptureTypes, JobInHand, Capturing
<1>3. PICK old \in JobFile, image \in Images, n \in DOMAIN jobs : old = Mine /\ image = cur.image /\ n = cur.job
  BY <1>1, <1>2, InMemory DEF Capturing
<1>4. PICK state \in Outcomes(old) :
        /\ SaveJob([old EXCEPT !.state = state, !.object = image, !.hash = image])
        /\ cur' = [cur EXCEPT !.mine = [old EXCEPT !.state = state, !.object = image, !.hash = image]]
  BY <1>3 DEF Conclude
<1>4a. state \in Done /\ (state = "COMPLETE" => old.whole)
  BY DEF Outcomes, Done
<1>5. PICK job \in JobFile : job = [old EXCEPT !.state = state, !.object = image, !.hash = image]
  BY <1>4a DEF JobFile, JobStates
<1>6. /\ job.state = state /\ job.object = image /\ job.hash = image
      /\ job.repeat = old.repeat /\ job.medium = old.medium
  BY <1>5 DEF JobFile
<1>7. job.whole = old.whole /\ job.identical = old.identical
  BY <1>5 DEF JobFile
<1>8. Repeated(jobs, job, image)
  BY <1>2, <1>3, <1>6, <1>7 DEF Repeated
<1>9. cur' = [cur EXCEPT !.mine = job]
  BY <1>4, <1>5
<1>9a. /\ cur' \in Locals /\ cur'.job = cur.job /\ cur'.mine = job /\ cur'.own = cur.own
       /\ cur'.existed = cur.existed
  BY <1>2, <1>9 DEF Locals
<1>10. Borne(jobs, job, objects)
  BY <1>2, <1>3, <1>4a, <1>6, <1>7, <1>8 DEF Borne
<1>11. SaveJob(job) /\ pc \in Capturing /\ job.repeat = Mine.repeat /\ job.medium = Mine.medium
  BY <1>1, <1>3, <1>4, <1>5, <1>6 DEF Capturing
<1>12. /\ jobs' \in Seq(JobFile) /\ JobsAreBorneOut' /\ LinksAreBorneOut'
       /\ Len(jobs') = Len(jobs) /\ DOMAIN jobs' = DOMAIN jobs /\ jobs'[cur.job] = job
  BY <1>1, <1>10, <1>11, OpenJobsAreSaved
<1>13. CaptureTypes'
  BY <1>1, <1>9a, <1>12 DEF CaptureInv, CaptureTypes
<1>14. JobInHand'
  BY <1>1, <1>2, <1>4a, <1>6, <1>9a, <1>12 DEF JobInHand, Capturing, Mine
<1>15. CountsFollow'
  <2>1. /\ Counted(session, 0, fresh) /\ Counted(cur.own, 0, fresh)
        /\ Counted(cur.own, Pending(pc, cur), fresh)
    BY CountsInHand DEF CaptureInv, CountsFollow
  <2>2. Pending(pc', cur') \in {0, Pending(pc, cur)}
    BY <1>1, <1>9a DEF Pending
  <2>3. Counted(cur.own, Pending(pc', cur'), fresh)
    BY <2>1, <2>2
  <2> QED BY <1>1, <1>9a, <2>1, <2>3 DEF CountsFollow
<1> QED BY <1>12, <1>13, <1>14, <1>15 DEF CaptureInv

LEMMA LinksAreSafe ==
    ASSUME CaptureInv, Link
    PROVE  CaptureInv'
<1>1. /\ pc = "link" /\ Leave /\ UNCHANGED <<objects, jobs, session, fresh>>
      /\ links' = links \cup {[medium |-> Mine.medium, object |-> Mine.object, job |-> cur.job]}
  BY DEF Link
<1>2. cur.job \in DOMAIN jobs /\ jobs[cur.job].state \in Done /\ Mine = jobs[cur.job]
  BY <1>1 DEF CaptureInv, JobInHand
<1>3. LinksAreBorneOut'
  BY <1>1, <1>2 DEF CaptureInv, LinksAreBorneOut
<1>4. /\ pc' = "idle" /\ cur' \in Locals /\ session' \in SessionFile
      /\ Counted(session', 0, fresh') /\ Counted(cur'.own, 0, fresh')
  BY <1>1, CountsInHand, NothingInHand, NothingIsCounted DEF Leave
<1>5. /\ jobs' \in Seq(JobFile) /\ JobsAreBorneOut' /\ fresh' \subseteq objects /\ IsFiniteSet(fresh')
      /\ UNCHANGED objects
  BY <1>1 DEF CaptureInv, CaptureTypes, JobsAreBorneOut
<1> QED BY <1>3, <1>4, <1>5, SettlingIsSafe

LEMMA FailuresAreSafe ==
    ASSUME CaptureInv, Fail
    PROVE  CaptureInv'
<1>1. /\ pc \in Capturing /\ UNCHANGED <<objects, links, fresh>>
  BY DEF Fail, AtWork, Capturing
<1>2. PICK own : own = [cur.own EXCEPT !.media = @ + 1, !.failures = @ + 1]
  OBVIOUS
<1>3. /\ \E state \in FailedStates(Mine) : SaveJob([Mine EXCEPT !.state = state])
      /\ \/ Leave /\ UNCHANGED session
         \/ NextMedium(own) \/ SaveSession([own EXCEPT !.state = "INTERRUPTED"], "idle")
  BY <1>2 DEF Fail
<1>4. Mine \in JobFile /\ Mine.state \in JobStates \ Done
  BY <1>1, InMemory
<1>5. PICK state \in JobStates \ Done : SaveJob([Mine EXCEPT !.state = state])
  BY <1>3, <1>4 DEF FailedStates, JobStates, Done
<1>6. PICK job \in JobFile : job = [Mine EXCEPT !.state = state]
  BY <1>4, <1>5 DEF JobFile
<1>7. job.state = state /\ job.repeat = Mine.repeat /\ job.medium = Mine.medium
  BY <1>4, <1>6 DEF JobFile
<1>8. Borne(jobs, job, objects) /\ SaveJob(job)
  BY <1>5, <1>6, <1>7 DEF Borne
<1>9. jobs' \in Seq(JobFile) /\ JobsAreBorneOut' /\ LinksAreBorneOut'
  BY <1>1, <1>7, <1>8, OpenJobsAreSaved
<1>10. own \in SessionFile /\ Counted(own, 0, fresh)
  <2>1. cur.own \in SessionFile /\ cur.own.media + 1 \in Nat /\ cur.own.failures + 1 \in Nat
    BY CountsInHand DEF SessionFile
  <2>2. own \in SessionFile /\ own.successes = cur.own.successes /\ own.duplicates = cur.own.duplicates
    BY <1>2, <2>1 DEF SessionFile
  <2> QED BY <2>2, CountsInHand DEF Counted
<1>11. /\ pc' \in {"idle", "prompt"} /\ cur' \in Locals /\ session' \in SessionFile
       /\ Counted(session', 0, fresh) /\ Counted(cur'.own, 0, fresh)
  <2>1. CASE Leave /\ UNCHANGED session
    BY <2>1, CountsInHand, NothingInHand, NothingIsCounted DEF Leave
  <2>2. CASE NextMedium(own) \/ SaveSession([own EXCEPT !.state = "INTERRUPTED"], "idle")
    BY <1>10, <2>2, NextMediumLeaves
  <2> QED BY <1>3, <2>1, <2>2
<1>12. fresh' \subseteq objects /\ IsFiniteSet(fresh')
  BY <1>1 DEF CaptureInv, CaptureTypes
<1> QED BY <1>1, <1>9, <1>11, <1>12, SettlingIsSafe

LEMMA CaptureSteps ==
    ASSUME CaptureInv, CaptureNext \/ UNCHANGED captureVars
    PROVE  CaptureInv'
<1>1. CASE UNCHANGED captureVars
  BY <1>1 DEF captureVars, CaptureInv, CaptureTypes, JobsAreBorneOut, JobInHand, LinksAreBorneOut,
              CountsFollow, Mine, Pending, Counted
<1>2. CASE Capture
  <2>1. ASSUME NEW kind \in Adapters, Begin(kind, None, Nobody) PROVE CaptureInv'
    BY <2>1, CapturesBegin
  <2>2. ASSUME NEW kind \in Adapters, NEW m \in Media, NEW r \in Earlier(kind), Begin(kind, m, r)
        PROVE  CaptureInv'
    <3>1. r \in DOMAIN jobs \cup {Nobody}
      BY DEF Earlier
    <3> QED BY <2>2, <3>1, CapturesBegin
  <2> QED BY <1>2, <2>1, <2>2 DEF Capture
<1>3. CASE Abandon
  BY <1>3, LeavingIsSafe DEF Abandon
<1>4. CASE Kill
  BY <1>4, LeavingIsSafe DEF Kill
<1> QED BY <1>1, <1>2, <1>3, <1>4, SessionsBegin, InsertingIsSafe, ReadsAreSafe, IngestsAreSafe,
           ConclusionsAreSafe, LinksAreSafe, ReportsAreSafe, FailuresAreSafe, InterruptsAreSafe
        DEF CaptureNext

(* The inductive invariant of captures holds, for any media, images and    *)
(* adapters, and wherever a command is interrupted or killed.              *)
THEOREM CaptureInvariant == Spec => []CaptureInv
<1>1. CaptureInv /\ [Next]_vars => CaptureInv'
  BY CaptureSteps DEF Next, vars
<1> QED BY <1>1, CaptureStarts, PTL DEF Spec

(* Jobs that are done name archived images and are COMPLETE only if they   *)
(* were read to the end, links and repeats agree with them, and a session  *)
(* counts no more new images than it brought (the three capture managers   *)
(* and PhysicalMediaOrchestrator).                                         *)
THEOREM CaptureRecordsStand == Spec => []CaptureRecordsAgree
<1>1. ASSUME CaptureInv PROVE DoneIsArchived
  BY <1>1 DEF CaptureInv, JobsAreBorneOut, AllBorne, Borne, LinksAreBorneOut, DoneIsArchived
<1>2. ASSUME CaptureInv PROVE IdenticalRepeatsAgree
  <2> SUFFICES ASSUME NEW j \in DOMAIN jobs, jobs[j].repeat # Nobody,
                      jobs[j].state \in Done, jobs[jobs[j].repeat].state \in Done
               PROVE  jobs[j].identical <=> jobs[j].object = jobs[jobs[j].repeat].object
    BY DEF IdenticalRepeatsAgree
  <2>1. PICK r \in DOMAIN jobs : r = jobs[j].repeat
    <3>1. jobs \in Seq(JobFile) /\ jobs[j].repeat < j
      BY <1>2 DEF CaptureInv, CaptureTypes, JobsAreBorneOut, AllBorne
    <3>2. PICK f \in JobFile : f = jobs[j]
      BY <3>1
    <3>3. f.repeat \in Nat
      BY DEF JobFile
    <3> QED BY <3>1, <3>2, <3>3 DEF Nobody
  <2>2. /\ jobs[j].identical <=> jobs[r].hash = jobs[j].object
        /\ jobs[r].hash = jobs[r].object
    BY <1>2, <2>1 DEF CaptureInv, JobsAreBorneOut, AllBorne, Borne, Repeated
  <2> QED BY <2>1, <2>2
<1>3. ASSUME CaptureInv PROVE SessionCountsNewBytes
  <2>1. /\ Counted(session, 0, fresh) /\ Cardinality(fresh) \in Nat
        /\ session.successes \in Nat /\ session.duplicates \in Nat
    BY <1>3, CountsInHand, FS_CardinalityType DEF SessionFile
  <2> QED BY <2>1 DEF Counted, SessionCountsNewBytes
<1>4. CaptureInv => CaptureRecordsAgree
  BY <1>1, <1>2, <1>3 DEF CaptureRecordsAgree
<1> QED BY <1>4, CaptureInvariant, PTL

-----------------------------------------------------------------------------
(* Identities.  The inductive invariant, in named parts.                   *)

Labels == {"rest", "claim", "define", "lock", "masters", "commit", "show", "draft", "replace",
           "list", "enter"}
Tables(t) == t = [objects |-> t.objects, logical |-> t.logical, claims |-> t.claims]
Hand(h) == /\ h = [ask |-> h.ask, todo |-> h.todo, image |-> h.image, text |-> h.text, list |-> h.list]
           /\ Tables(h.image)

IdentityTypes ==
    /\ crew \subseteq Operators /\ IsFiniteSet(crew)
    /\ at \in [Operators -> Labels]
    /\ my = [p \in Operators |-> my[p]] /\ \A p \in Operators : Hand(my[p])
    /\ Tables(database)
    /\ stops \in Nat

(* What operator q, at step with h in hand, knows of the sidecars cl, the  *)
(* write lock wr and the relationships gr granted so far.                  *)
Granting(q, step, h, wr, cl, gr) ==
    /\ step \in {"rest", "define"} => h.ask \notin Claims
    /\ step \in {"masters", "commit"} => wr = q
    /\ step \in {"lock", "masters", "commit"} /\ h.ask \in Claims => h.ask \in cl
    /\ step = "commit" => gr \cup ({h.ask} \cap Claims) \subseteq h.image.claims
GrantsAreKept ==
    /\ \A q \in Operators : Granting(q, at[q], my[q], writer, claims, granted)
    /\ granted \subseteq claims /\ granted \subseteq database.claims

(* The relationships of lineage, without cycles; a lone operator's claim   *)
(* would close none.                                                       *)
OfLineage(R) == {c \in R : c.type \in Lineage}
Acyclic(R) == \A c \in R : c.subject \notin Reached({c.object}, R)
Closes(c, R) == c.type \in Lineage /\ c.subject \in Reached({c.object}, R)
LineageGrows == Alone =>
    /\ Acyclic(OfLineage(claims))
    /\ \A p \in crew : at[p] = "claim" => ~Closes(my[p].ask, claims)

(* What a lone operator at step with h in hand has made of the products:   *)
(* index.json is behind in the one it is about to enter.                   *)
Entering(step, h, x) == step \in {"list", "enter"} /\ x = h.ask.product
Listing(step, h, ex, dr, ix) ==
    /\ step = "replace" => h.ask.product \in DOMAIN dr /\ dr[h.ask.product] = h.text
    /\ step \in {"list", "enter"} =>
         h.ask.product \in DOMAIN ex /\ ex[h.ask.product] = h.text
    /\ step = "enter" => h.list = ix
    /\ \A x \in DOMAIN ex : Entering(step, h, x) \/ (x \in DOMAIN ix /\ ix[x] = ex[x])
ListIsBehind == (Alone /\ stops = 0) =>
    \A p \in crew : Listing(at[p], my[p], exports, drafts, index)

IdentityInv == IdentityTypes /\ GrantsAreKept /\ LineageGrows /\ ListIsBehind

-----------------------------------------------------------------------------
(* What is not reached is kept out by a set that is closed.                *)
LEMMA KeptOut ==
    ASSUME NEW x, NEW from, NEW R
    PROVE  x \notin Reached(from, R) <=> \E S : from \subseteq S /\ Follows(S, R) /\ x \notin S
<1> DEFINE ends == {r.subject : r \in R} \cup {r.object : r \in R} \cup from
<1>1. from \subseteq ends /\ Follows(ends, R)
  BY DEF Follows
<1>2. ASSUME x \notin Reached(from, R) PROVE \E S : from \subseteq S /\ Follows(S, R) /\ x \notin S
  <2>1. CASE x \in ends
    BY <1>2, <2>1 DEF Reached
  <2>2. CASE x \notin ends
    BY <1>1, <2>2
  <2> QED BY <2>1, <2>2
<1>3. ASSUME NEW S, from \subseteq S, Follows(S, R), x \notin S PROVE x \notin Reached(from, R)
  <2>1. \A r \in R : r.object \in ends
    OBVIOUS
  <2>2. PICK T : T = S \cap ends
    OBVIOUS
  <2>3. T \in SUBSET ends /\ from \subseteq T /\ x \notin T
    BY <1>1, <1>3, <2>2
  <2>4. Follows(T, R)
    BY <1>3, <2>1, <2>2 DEF Follows
  <2> QED BY <2>3, <2>4 DEF Reached
<1> QED BY <1>2, <1>3

(* A relationship that closes no cycle among all relationships leaves      *)
(* those of lineage without cycles.                                        *)
LEMMA AcyclicGrows ==
    ASSUME NEW R, NEW c, Acyclic(OfLineage(R)), ~Closes(c, R)
    PROVE  Acyclic(OfLineage(R \cup {c}))
<1> DEFINE L == OfLineage(R)
<1>1. CASE c.type \notin Lineage
  <2>1. OfLineage(R \cup {c}) = L
    BY <1>1 DEF OfLineage
  <2> QED BY <2>1
<1>2. CASE c.type \in Lineage
  <2>1. PICK S : c.object \in S /\ Follows(S, R) /\ c.subject \notin S
    BY <1>2, KeptOut DEF Closes
  <2>2. Follows(S, L)
    BY <2>1 DEF Follows, OfLineage
  <2>3. OfLineage(R \cup {c}) = L \cup {c}
    BY <1>2 DEF OfLineage
  <2> HIDE DEF L
  <2>4. ASSUME NEW d \in L \cup {c} PROVE d.subject \notin Reached({d.object}, L \cup {c})
    <3> SUFFICES \E U : {d.object} \subseteq U /\ Follows(U, L \cup {c}) /\ d.subject \notin U
      BY KeptOut
    <3>1. CASE d = c
      <4>1. Follows(S, L \cup {c})
        BY <2>1, <2>2 DEF Follows
      <4> QED BY <2>1, <3>1, <4>1
    <3>2. CASE d \in L
      <4>1. PICK T : d.object \in T /\ Follows(T, L) /\ d.subject \notin T
        <5>1. d.subject \notin Reached({d.object}, L)
          BY <3>2 DEF Acyclic, L
        <5> QED BY <5>1, KeptOut
      <4>2. CASE c.subject \notin T
        <5>1. Follows(T, L \cup {c})
          BY <4>1, <4>2 DEF Follows
        <5> QED BY <4>1, <5>1
      <4>3. CASE d.subject \notin S
        <5>1. Follows(S \cup T, L \cup {c})
          BY <2>1, <2>2, <4>1 DEF Follows
        <5> QED BY <4>1, <4>3, <5>1
      <4>4. CASE d.subject \in S
        <5>1. d.object \in S
          BY <2>2, <3>2, <4>4 DEF Follows
        <5>2. Follows(S \cap T, L \cup {c})
          BY <2>1, <2>2, <4>1 DEF Follows
        <5> QED BY <4>1, <5>1, <5>2
      <4> QED BY <4>2, <4>3, <4>4
    <3> QED BY <3>1, <3>2
  <2> QED BY <2>3, <2>4 DEF Acyclic
<1> QED BY <1>1, <1>2

(* With nothing in hand nothing is asked for.                              *)
LEMMA NothingIsAsked == Hand(NoAsk) /\ NoAsk.ask \notin Claims
BY AsksAssumption DEF Hand, Tables, NoAsk, NoTables

(* A lone operator is the whole crew.                                      *)
LEMMA LoneIsAll ==
    ASSUME IdentityTypes, Alone, NEW p \in crew
    PROVE  crew = {p}
<1>1. \A q \in crew : q = p
  <2> SUFFICES ASSUME NEW q \in crew, q # p PROVE FALSE
    OBVIOUS
  <2>1. {p, q} \subseteq crew /\ IsFiniteSet(crew) /\ Cardinality(crew) = 1
    BY DEF IdentityTypes, Alone
  <2>2. Cardinality({p, q}) = 2
    <3>1. IsFiniteSet({p}) /\ Cardinality({p}) = 1
      BY FS_Singleton
    <3>2. Cardinality({p} \cup {q}) = Cardinality({p}) + 1
      BY <3>1, FS_AddElement
    <3> QED BY <3>1, <3>2
  <2>3. Cardinality({p, q}) <= Cardinality(crew)
    BY <2>1, FS_Subset
  <2> QED BY <2>1, <2>2, <2>3
<1> QED BY <1>1

(* Operator p goes on to the step label with h in hand.                    *)
GoesOn(p, label, h) ==
    /\ at' = [at EXCEPT ![p] = label] /\ my' = [my EXCEPT ![p] = h] /\ crew' = crew
LEMMA TypesMove ==
    ASSUME IdentityTypes, NEW p \in Operators, NEW label \in Labels, NEW h, Hand(h),
           GoesOn(p, label, h), Tables(database'), stops' \in Nat
    PROVE  /\ IdentityTypes' /\ at'[p] = label /\ my'[p] = h
           /\ \A q \in Operators \ {p} : at'[q] = at[q] /\ my'[q] = my[q]
<1>1. /\ at'[p] = label /\ at' \in [Operators -> Labels]
      /\ \A q \in Operators \ {p} : at'[q] = at[q]
  BY DEF IdentityTypes, GoesOn
<1>2. my = [q \in Operators |-> my[q]] /\ my' = [my EXCEPT ![p] = h]
  BY DEF IdentityTypes, GoesOn
<1>3. DOMAIN my = Operators
  BY <1>2
<1>4. /\ my'[p] = h /\ my' = [q \in Operators |-> my'[q]]
      /\ \A q \in Operators \ {p} : my'[q] = my[q]
  BY <1>2, <1>3
<1>5. \A q \in Operators : Hand(my'[q])
  BY <1>4 DEF IdentityTypes
<1> QED BY <1>1, <1>4, <1>5 DEF IdentityTypes, GoesOn

(* The write lock passes on, sidecars are added, and whoever is granted    *)
(* something has the lock.                                                 *)
LEMMA GrantsMove ==
    ASSUME IdentityInv, NEW p \in Operators, NEW label \in Labels, NEW h, Hand(h),
           GoesOn(p, label, h), Tables(database'), stops' \in Nat,
           Granting(p, label, h, writer', claims', granted'),
           claims \subseteq claims',
           writer \in {NoWriter, p} \/ writer' = writer,
           granted' = granted \/ writer = p,
           granted' \subseteq claims', granted' \subseteq database'.claims
    PROVE  GrantsAreKept'
<1>1. /\ at'[p] = label /\ my'[p] = h
      /\ \A q \in Operators \ {p} : at'[q] = at[q] /\ my'[q] = my[q]
  BY TypesMove DEF IdentityInv
<1>2. ASSUME NEW q \in Operators \ {p} PROVE Granting(q, at[q], my[q], writer', claims', granted')
  <2>1. Granting(q, at[q], my[q], writer, claims, granted)
    BY DEF IdentityInv, GrantsAreKept
  <2>2. q # NoWriter
    BY WriterAssumption
  <2>3. at[q] \in {"masters", "commit"} => writer = q /\ writer' = q /\ granted' = granted
    BY <2>1, <2>2 DEF Granting
  <2> QED BY <2>1, <2>3 DEF Granting
<1> QED BY <1>1, <1>2 DEF GrantsAreKept

LEMMA LineageAside ==
    ASSUME IdentityInv, crew' = crew, claims' = claims,
           \A q \in crew : at'[q] = "claim" => at[q] = "claim" /\ my'[q] = my[q]
    PROVE  LineageGrows'
BY DEF IdentityInv, LineageGrows, Alone, Closes

LEMMA ListAside ==
    ASSUME IdentityInv, NEW p \in crew, NEW label \in Labels \ {"replace", "list", "enter"}, NEW h,
           at[p] \notin {"list", "enter"}, crew' = crew, stops' = stops,
           at'[p] = label, my'[p] = h, UNCHANGED <<exports, index>>
    PROVE  ListIsBehind'
<1> SUFFICES ASSUME Alone, stops = 0 PROVE Listing(label, h, exports, drafts', index)
  <2>1. Alone' = Alone
    BY DEF Alone
  <2>2. Alone => crew = {p}
    BY LoneIsAll DEF IdentityInv
  <2> QED BY <2>1, <2>2 DEF ListIsBehind
<1>1. Listing(at[p], my[p], exports, drafts, index)
  BY DEF IdentityInv, ListIsBehind
<1>2. \A x \in DOMAIN exports : x \in DOMAIN index /\ index[x] = exports[x]
  BY <1>1 DEF Listing, Entering
<1> QED BY <1>2 DEF Listing

(* Most steps change neither the sidecars nor the products.                *)
LEMMA AsideIsSafe ==
    ASSUME IdentityInv, NEW p \in crew, NEW label \in Labels \ {"claim", "replace", "list", "enter"},
           NEW h, Hand(h), GoesOn(p, label, h), at[p] \notin {"list", "enter"},
           UNCHANGED <<claims, exports, index, stops>>, Tables(database'),
           Granting(p, label, h, writer', claims, granted'),
           writer \in {NoWriter, p} \/ writer' = writer,
           granted' = granted \/ writer = p,
           granted' \subseteq claims, granted' \subseteq database'.claims
    PROVE  IdentityInv'
<1>1. p \in Operators /\ stops' \in Nat /\ crew \subseteq Operators /\ crew' = crew
  BY DEF IdentityInv, IdentityTypes, GoesOn
<1>2. /\ IdentityTypes' /\ at'[p] = label /\ my'[p] = h
      /\ \A q \in Operators \ {p} : at'[q] = at[q] /\ my'[q] = my[q]
  BY <1>1, TypesMove DEF IdentityInv
<1>3. GrantsAreKept'
  <2>1. claims \subseteq claims' /\ granted' \subseteq claims' /\ Granting(p, label, h, writer', claims', granted')
    OBVIOUS
  <2> QED BY <1>1, <2>1, GrantsMove
<1>4. LineageGrows'
  <2>1. \A q \in crew : at'[q] = "claim" => at[q] = "claim" /\ my'[q] = my[q]
    BY <1>1, <1>2
  <2> QED BY <1>1, <2>1, LineageAside
<1>5. ListIsBehind'
  BY <1>1, <1>2, ListAside
<1> QED BY <1>2, <1>3, <1>4, <1>5 DEF IdentityInv

(* What an operator knows between its steps.                               *)
LEMMA InHand ==
    ASSUME IdentityInv, NEW p \in crew
    PROVE  /\ p \in Operators /\ Hand(my[p]) /\ Tables(database) /\ at[p] \in Labels
           /\ Granting(p, at[p], my[p], writer, claims, granted)
           /\ granted \subseteq claims /\ granted \subseteq database.claims
           /\ my = [my EXCEPT ![p] = my[p]] /\ at = [at EXCEPT ![p] = at[p]]
<1>1. p \in Operators /\ my = [q \in Operators |-> my[q]] /\ at \in [Operators -> Labels]
  BY DEF IdentityInv, IdentityTypes
<1>2. my = [my EXCEPT ![p] = my[p]] /\ at = [at EXCEPT ![p] = at[p]]
  BY <1>1
<1> QED BY <1>1, <1>2 DEF IdentityInv, IdentityTypes, GrantsAreKept

LEMMA IdentityStarts == IdentityInit => IdentityInv
<1> SUFFICES ASSUME IdentityInit PROVE IdentityInv
  OBVIOUS
<1> USE DEF IdentityInit
<1>1. \A p \in Operators : at[p] = "rest" /\ my[p] = NoAsk
  OBVIOUS
<1>2. IdentityTypes
  <2>1. crew \subseteq Operators /\ IsFiniteSet(crew)
    BY CrewsAssumption, FS_Subset
  <2>2. Tables(database)
    BY DEF Tables, NoTables
  <2> QED BY <1>1, <2>1, <2>2, NothingIsAsked DEF IdentityTypes, Labels
<1>3. GrantsAreKept
  BY <1>1, NothingIsAsked DEF GrantsAreKept, Granting
<1>4. LineageGrows
  BY <1>1, <1>2 DEF LineageGrows, Acyclic, OfLineage, IdentityTypes
<1>5. ListIsBehind
  BY <1>1, <1>2 DEF ListIsBehind, Listing, IdentityTypes
<1> QED BY <1>2, <1>3, <1>4, <1>5 DEF IdentityInv

(* Commands that are begun.  One that is refused changes only the count.   *)
LEMMA RefusalsAreSafe ==
    ASSUME IdentityInv, UNCHANGED <<worldVars, sidecarVars, database, writer, at, my, productVars, granted, stops>>
    PROVE  IdentityInv'
<1> USE DEF worldVars, sidecarVars, productVars
<1>1. IdentityTypes'
  BY DEF IdentityInv, IdentityTypes
<1>2. GrantsAreKept'
  BY DEF IdentityInv, GrantsAreKept
<1>3. LineageGrows'
  BY LineageAside
<1>4. ListIsBehind'
  BY DEF IdentityInv, ListIsBehind, Alone
<1> QED BY <1>1, <1>2, <1>3, <1>4 DEF IdentityInv

LEMMA ClaimsAreChecked ==
    ASSUME IdentityInv, NEW p \in crew, NEW c \in Claims, AddRelationship(p, c)
    PROVE  IdentityInv'
<1> USE DEF worldVars, sidecarVars, productVars, Command
<1>1. CASE ~Valid(c)
  BY <1>1, RefusalsAreSafe DEF AddRelationship
<1>2. CASE Valid(c)
  <2>1. PICK old, h : old = my[p] /\ h = [old EXCEPT !.ask = c]
    OBVIOUS
  <2>2. Hand(h) /\ h.ask = c /\ p \in Operators
    <3>1. Hand(old) /\ p \in Operators
      BY <2>1, InHand
    <3> QED BY <2>1, <3>1 DEF Hand
  <2>3. /\ GoesOn(p, "claim", h) /\ at[p] = "rest" /\ Tables(database') /\ stops' \in Nat
        /\ UNCHANGED <<claims, exports, index, drafts, stops, writer, granted, database, crew>>
    <3>1. my' = [my EXCEPT ![p] = h]
      BY <1>2, <2>1 DEF AddRelationship
    <3> QED BY <1>2, <3>1, InHand DEF AddRelationship, Step, GoesOn, IdentityInv, IdentityTypes
  <2>4. /\ IdentityTypes' /\ at'[p] = "claim" /\ my'[p] = h
        /\ \A q \in Operators \ {p} : at'[q] = at[q] /\ my'[q] = my[q]
    <3>1. "claim" \in Labels
      BY DEF Labels
    <3> QED BY <2>2, <2>3, <3>1, TypesMove DEF IdentityInv
  <2>5. GrantsAreKept'
    <3>1. "claim" \in Labels /\ Granting(p, "claim", h, writer', claims', granted')
      BY DEF Labels, Granting
    <3>2. granted' \subseteq claims' /\ granted' \subseteq database'.claims /\ claims \subseteq claims'
      BY <2>3, InHand
    <3> QED BY <2>2, <2>3, <3>1, <3>2, GrantsMove
  <2>6. LineageGrows'
    <3>1. ~Closes(c, claims)
      BY <1>2 DEF Valid, Cycles, Closes
    <3>2. Alone => crew = {p}
      BY LoneIsAll DEF IdentityInv
    <3>3. Alone' = Alone
      BY <2>3 DEF Alone
    <3>4. Alone => Acyclic(OfLineage(claims))
      BY DEF IdentityInv, LineageGrows
    <3> QED BY <2>2, <2>3, <2>4, <3>1, <3>2, <3>3, <3>4 DEF LineageGrows
  <2>7. ListIsBehind'
    <3>1. "claim" \in Labels \ {"replace", "list", "enter"}
      BY DEF Labels
    <3> QED BY <2>3, <2>4, <3>1, ListAside
  <2> QED BY <2>4, <2>5, <2>6, <2>7 DEF IdentityInv
<1> QED BY <1>1, <1>2

(* A command that is done has nothing in hand.                             *)
LEMMA FinishingIsSafe ==
    ASSUME IdentityInv, NEW p \in crew, Finish(p), at[p] \notin {"list", "enter"},
           UNCHANGED <<crew, claims, exports, index, stops, database, granted>>,
           writer' = writer \/ Unlock(p)
    PROVE  IdentityInv'
<1>1. GoesOn(p, "rest", NoAsk) /\ Hand(NoAsk)
  BY NothingIsAsked DEF Finish, Step, GoesOn
<1>2. Granting(p, "rest", NoAsk, writer', claims, granted')
  BY NothingIsAsked DEF Granting
<1>3. "rest" \in Labels \ {"claim", "replace", "list", "enter"}
  BY DEF Labels
<1>4. writer \in {NoWriter, p} \/ writer' = writer
  BY DEF Unlock
<1>5. granted' \subseteq claims /\ granted' \subseteq database'.claims /\ Tables(database')
  BY InHand
<1> QED BY <1>1, <1>2, <1>3, <1>4, <1>5, AsideIsSafe

LEMMA ClaimsAreWritten ==
    ASSUME IdentityInv, NEW p \in crew, WriteClaim(p)
    PROVE  IdentityInv'
<1> USE DEF worldVars, sidecarVars, productVars, countVars
<1>1. CASE my[p].ask \in claims /\ Finish(p) /\ UNCHANGED claims
  BY <1>1, FinishingIsSafe DEF WriteClaim
<1>2. CASE my[p].ask \notin claims
  <2>1. PICK c, h : c = h.ask /\ h = my[p]
    OBVIOUS
  <2>2. Hand(h) /\ p \in Operators /\ my = [my EXCEPT ![p] = h]
    BY <2>1, InHand
  <2>3. /\ GoesOn(p, "lock", h) /\ at[p] = "claim" /\ Tables(database') /\ stops' \in Nat
        /\ claims' = claims \cup {c}
        /\ UNCHANGED <<exports, index, drafts, stops, writer, granted, database, crew>>
    BY <1>2, <2>1, <2>2, InHand DEF WriteClaim, Finish, Step, GoesOn, IdentityInv, IdentityTypes
  <2>4. /\ IdentityTypes' /\ at'[p] = "lock" /\ my'[p] = h
        /\ \A q \in Operators \ {p} : at'[q] = at[q] /\ my'[q] = my[q]
    <3>1. "lock" \in Labels
      BY DEF Labels
    <3> QED BY <2>2, <2>3, <3>1, TypesMove DEF IdentityInv
  <2>5. GrantsAreKept'
    <3>1. "lock" \in Labels /\ Granting(p, "lock", h, writer', claims', granted')
      BY <2>1, <2>3 DEF Labels, Granting
    <3>2. granted' \subseteq claims' /\ granted' \subseteq database'.claims /\ claims \subseteq claims'
      BY <2>3, InHand
    <3> QED BY <2>2, <2>3, <3>1, <3>2, GrantsMove
  <2>6. LineageGrows'
    <3>1. Alone => /\ crew = {p} /\ Acyclic(OfLineage(claims)) /\ ~Closes(c, claims)
      BY <2>1, <2>3, LoneIsAll DEF IdentityInv, LineageGrows
    <3>2. Alone => Acyclic(OfLineage(claims'))
      BY <2>3, <3>1, AcyclicGrows
    <3>3. Alone' = Alone
      BY <2>3 DEF Alone
    <3> QED BY <2>3, <2>4, <3>1, <3>2, <3>3 DEF LineageGrows
  <2>7. ListIsBehind'
    <3>1. "lock" \in Labels \ {"replace", "list", "enter"}
      BY DEF Labels
    <3> QED BY <2>3, <2>4, <3>1, ListAside
  <2> QED BY <2>4, <2>5, <2>6, <2>7 DEF IdentityInv
<1> QED BY <1>1, <1>2 DEF WriteClaim

LEMMA DefinitionsAreTaken ==
    ASSUME IdentityInv, NEW p \in crew, NEW d \in Definitions, Define(p, d)
    PROVE  IdentityInv'
<1> USE DEF worldVars, sidecarVars, productVars, Command
<1>1. CASE d.file \in DOMAIN logical /\ logical[d.file] # d
  BY <1>1, RefusalsAreSafe DEF Define
<1>2. CASE ~(d.file \in DOMAIN logical /\ logical[d.file] # d)
  <2>1. PICK old, h : old = my[p] /\ h = [old EXCEPT !.ask = d]
    OBVIOUS
  <2>2. Hand(h) /\ h.ask = d
    <3>1. Hand(old)
      BY <2>1, InHand
    <3> QED BY <2>1, <3>1 DEF Hand
  <2>3. GoesOn(p, "define", h) /\ at[p] = "rest" /\ Step(p, "define")
        /\ UNCHANGED <<claims, exports, index, stops, writer, granted, database>>
    <3>1. my' = [my EXCEPT ![p] = h] /\ Step(p, "define")
      BY <1>2, <2>1 DEF Define
    <3> QED BY <3>1 DEF Define, Step, GoesOn
  <2>4. Granting(p, "define", h, writer', claims, granted')
    BY <2>2, AsksAssumption DEF Granting
  <2>5. "define" \in Labels \ {"claim", "replace", "list", "enter"}
    BY DEF Labels
  <2>6. granted' \subseteq claims /\ granted' \subseteq database'.claims /\ Tables(database')
    BY <2>3, InHand
  <2> QED BY <2>2, <2>3, <2>4, <2>5, <2>6, AsideIsSafe
<1> QED BY <1>1, <1>2

(* An operator that goes on with what it has in hand.                      *)
LEMMA HoldingIsSafe ==
    ASSUME IdentityInv, NEW p \in crew, NEW label \in {"lock"}, at[p] \in {"rest", "define"},
           Step(p, label), UNCHANGED <<crew, my, claims, exports, index, stops, database, writer, granted>>
    PROVE  IdentityInv'
<1>1. /\ Hand(my[p]) /\ Granting(p, at[p], my[p], writer, claims, granted)
      /\ granted \subseteq claims /\ granted \subseteq database.claims /\ Tables(database)
      /\ my = [my EXCEPT ![p] = my[p]]
  BY InHand
<1>2. PICK h : h = my[p]
  OBVIOUS
<1>3. GoesOn(p, label, h) /\ Hand(h)
  BY <1>1, <1>2 DEF Step, GoesOn
<1>4. Granting(p, label, h, writer', claims, granted')
  BY <1>1, <1>2 DEF Granting
<1>5. label \in Labels \ {"claim", "replace", "list", "enter"}
  BY DEF Labels
<1> QED BY <1>1, <1>3, <1>4, <1>5, AsideIsSafe

(* A rebuild takes the lock, reads masters and sidecars, and commits.      *)
LEMMA LocksAreSafe ==
    ASSUME IdentityInv, NEW p \in crew, TakeLock(p)
    PROVE  IdentityInv'
<1> USE DEF worldVars, sidecarVars, productVars, countVars
<1>1. PICK old, T, h : old = my[p] /\ T = {o \in Objects : known[o] > 0} /\ h = [old EXCEPT !.todo = T]
  OBVIOUS
<1>2. Hand(old) /\ Granting(p, at[p], old, writer, claims, granted)
  BY <1>1, InHand
<1>3. Hand(h) /\ h.ask = old.ask
  BY <1>1, <1>2 DEF Hand
<1>4. /\ at[p] = "lock" /\ writer = NoWriter /\ writer' = p
      /\ UNCHANGED <<crew, claims, exports, index, stops, database, granted>>
  BY DEF TakeLock, Unlocked
<1>5. GoesOn(p, "masters", h)
  BY <1>1, <1>4 DEF TakeLock, Step, GoesOn
<1>6. Granting(p, "masters", h, writer', claims, granted')
  BY <1>2, <1>3, <1>4 DEF Granting
<1>7. "masters" \in Labels \ {"claim", "replace", "list", "enter"}
  BY DEF Labels
<1>8. granted' \subseteq claims /\ granted' \subseteq database'.claims /\ Tables(database')
  BY <1>4, InHand
<1> QED BY <1>3, <1>4, <1>5, <1>6, <1>7, <1>8, AsideIsSafe

LEMMA MastersAreSafe ==
    ASSUME IdentityInv, NEW p \in crew, NEW o \in Objects, ReadMaster(p, o)
    PROVE  IdentityInv'
<1> USE DEF worldVars, sidecarVars, productVars, countVars
<1>1. /\ at[p] = "masters" /\ UNCHANGED <<crew, claims, exports, index, stops, database, granted>>
  BY DEF ReadMaster
<1>2. CASE Finish(p) /\ Unlock(p)
  BY <1>1, <1>2, FinishingIsSafe
<1>3. CASE my' = [my EXCEPT ![p].todo = @ \ {o}, ![p].image.objects = Put(@, o, known[o])]
           /\ UNCHANGED <<at, writer>>
  <2>1. PICK old, R, T : old = my[p] /\ R = Put(old.image.objects, o, known[o]) /\ T = old.todo \ {o}
    OBVIOUS
  <2>2. PICK h : h = [old EXCEPT !.todo = T, !.image.objects = R]
    OBVIOUS
  <2>3. Hand(old) /\ Granting(p, at[p], old, writer, claims, granted)
    BY <2>1, InHand
  <2>4. Hand(h) /\ h.ask = old.ask
    BY <2>2, <2>3 DEF Hand, Tables
  <2>5. GoesOn(p, "masters", h)
    <3>1. my' = [my EXCEPT ![p] = h]
      BY <1>3, <2>1, <2>2, <2>3 DEF Hand
    <3> QED BY <1>1, <1>3, <3>1, InHand DEF GoesOn
  <2>6. Granting(p, "masters", h, writer', claims, granted')
    BY <1>1, <1>3, <2>3, <2>4 DEF Granting
  <2>7. "masters" \in Labels \ {"claim", "replace", "list", "enter"}
    BY DEF Labels
  <2>8. granted' \subseteq claims /\ granted' \subseteq database'.claims /\ Tables(database')
    BY <1>1, InHand
  <2> QED BY <1>1, <1>3, <2>4, <2>5, <2>6, <2>7, <2>8, AsideIsSafe
<1> QED BY <1>2, <1>3 DEF ReadMaster

LEMMA LoadingIsSafe ==
    ASSUME IdentityInv, NEW p \in crew, LoadSidecars(p)
    PROVE  IdentityInv'
<1> USE DEF worldVars, sidecarVars, productVars, countVars
<1>1. /\ at[p] = "masters" /\ Step(p, "commit")
      /\ UNCHANGED <<crew, claims, exports, index, stops, database, granted, writer>>
  BY DEF LoadSidecars
<1>2. PICK old, L, C : old = my[p] /\ L = {logical[f] : f \in DOMAIN logical} /\ C = claims
  OBVIOUS
<1>3. PICK h : h = [old EXCEPT !.image.logical = L, !.image.claims = C]
  OBVIOUS
<1>4. Hand(old) /\ Granting(p, at[p], old, writer, claims, granted) /\ granted \subseteq claims
  BY <1>2, InHand
<1>5. Hand(h) /\ h.ask = old.ask /\ h.image.claims = C
  BY <1>3, <1>4 DEF Hand, Tables
<1>6. GoesOn(p, "commit", h)
  <2>1. my' = [my EXCEPT ![p].image.logical = L, ![p].image.claims = C]
    BY <1>2 DEF LoadSidecars, Loaded
  <2>2. my' = [my EXCEPT ![p] = h]
    BY <1>2, <1>3, <1>4, <2>1 DEF Hand, Tables
  <2> QED BY <1>1, <2>2 DEF GoesOn, Step
<1>7. Granting(p, "commit", h, writer', claims, granted')
  BY <1>1, <1>2, <1>4, <1>5 DEF Granting
<1>8. "commit" \in Labels \ {"claim", "replace", "list", "enter"}
  BY DEF Labels
<1>9. granted' \subseteq claims /\ granted' \subseteq database'.claims /\ Tables(database')
  BY <1>1, InHand
<1> QED BY <1>1, <1>5, <1>6, <1>7, <1>8, <1>9, AsideIsSafe

LEMMA CommitsAreSafe ==
    ASSUME IdentityInv, NEW p \in crew, Commit(p)
    PROVE  IdentityInv'
<1> USE DEF worldVars, sidecarVars, productVars, countVars
<1>1. /\ at[p] = "commit" /\ database' = my[p].image /\ Unlock(p)
      /\ granted' = granted \cup ({my[p].ask} \cap Claims)
      /\ UNCHANGED <<crew, claims, exports, index, stops>>
  BY DEF Commit
<1>2. /\ Granting(p, at[p], my[p], writer, claims, granted) /\ granted \subseteq claims
      /\ Hand(my[p])
  BY InHand
<1>3. GoesOn(p, "rest", NoAsk) /\ Hand(NoAsk)
  BY <1>1, NothingIsAsked DEF Commit, Finish, Step, GoesOn
<1>4. Granting(p, "rest", NoAsk, writer', claims, granted')
  BY NothingIsAsked DEF Granting
<1>5. "rest" \in Labels \ {"claim", "replace", "list", "enter"}
  BY DEF Labels
<1>6. writer = p /\ granted' \subseteq claims /\ granted' \subseteq database'.claims
  BY <1>1, <1>2 DEF Granting
<1>7. Tables(database')
  BY <1>1, <1>2 DEF Hand
<1> QED BY <1>1, <1>3, <1>4, <1>5, <1>6, <1>7, AsideIsSafe

LEMMA BuildsBegin ==
    ASSUME IdentityInv, NEW p \in crew, NEW x \in Products, Build(p, x)
    PROVE  IdentityInv'
<1> USE DEF worldVars, sidecarVars, productVars, Command
<1>1. /\ at[p] = "rest" /\ Step(p, "show")
      /\ UNCHANGED <<crew, claims, exports, index, stops, database, granted, writer>>
  BY DEF Build
<1>2. PICK old, D, a : old = my[p] /\ D = database /\ a = [product |-> x]
  OBVIOUS
<1>3. PICK h : h = [old EXCEPT !.ask = a, !.image = D]
  OBVIOUS
<1>4. Hand(old) /\ Tables(D)
  BY <1>2, InHand
<1>5. Hand(h)
  BY <1>3, <1>4 DEF Hand
<1>6. GoesOn(p, "show", h)
  <2>1. my' = [my EXCEPT ![p].ask = a, ![p].image = D]
    BY <1>2 DEF Build
  <2>2. my' = [my EXCEPT ![p] = h]
    BY <1>2, <1>3, <1>4, <2>1 DEF Hand
  <2> QED BY <1>1, <2>2 DEF GoesOn, Step
<1>7. Granting(p, "show", h, writer', claims, granted')
  BY DEF Granting
<1>8. "show" \in Labels \ {"claim", "replace", "list", "enter"}
  BY DEF Labels
<1>9. granted' \subseteq claims /\ granted' \subseteq database'.claims /\ Tables(database')
  BY <1>1, InHand
<1> QED BY <1>1, <1>5, <1>6, <1>7, <1>8, <1>9, AsideIsSafe

LEMMA ShowsAreSafe ==
    ASSUME IdentityInv, NEW p \in crew, Show(p)
    PROVE  IdentityInv'
<1> USE DEF worldVars, sidecarVars, productVars, countVars
<1>1. /\ at[p] = "show" /\ Step(p, "draft")
      /\ UNCHANGED <<crew, claims, exports, index, stops, database, granted, writer>>
  BY DEF Show
<1>2. PICK old, T : old = my[p] /\ my' = [my EXCEPT ![p].text = T]
  BY DEF Show
<1>3. PICK h : h = [old EXCEPT !.text = T]
  OBVIOUS
<1>4. Hand(old)
  BY <1>2, InHand
<1>5. Hand(h)
  BY <1>3, <1>4 DEF Hand
<1>6. GoesOn(p, "draft", h)
  BY <1>1, <1>2, <1>3 DEF GoesOn, Step
<1>7. Granting(p, "draft", h, writer', claims, granted')
  BY DEF Granting
<1>8. "draft" \in Labels \ {"claim", "replace", "list", "enter"}
  BY DEF Labels
<1>9. granted' \subseteq claims /\ granted' \subseteq database'.claims /\ Tables(database')
  BY <1>1, InHand
<1> QED BY <1>1, <1>5, <1>6, <1>7, <1>8, <1>9, AsideIsSafe

(* A builder that writes products and their list disturbs nobody else.     *)
LEMMA ListingIsSafe ==
    ASSUME IdentityInv, NEW p \in crew, NEW label \in {"replace", "list", "enter", "rest"}, NEW h, Hand(h),
           GoesOn(p, label, h), UNCHANGED <<claims, granted, database, writer, stops>>,
           label = "rest" => h = NoAsk,
           Listing(at[p], my[p], exports, drafts, index) => Listing(label, h, exports', drafts', index')
    PROVE  IdentityInv'
<1>1. /\ p \in Operators /\ Tables(database') /\ stops' \in Nat /\ label \in Labels
      /\ granted' \subseteq claims' /\ granted' \subseteq database'.claims /\ claims \subseteq claims'
  BY InHand DEF IdentityInv, IdentityTypes, Labels
<1>2. /\ IdentityTypes' /\ at'[p] = label /\ my'[p] = h /\ crew' = crew
      /\ \A q \in Operators \ {p} : at'[q] = at[q] /\ my'[q] = my[q]
  BY <1>1, TypesMove DEF IdentityInv, GoesOn
<1>3. GrantsAreKept'
  <2>1. Granting(p, label, h, writer', claims', granted')
    BY NothingIsAsked DEF Granting
  <2> QED BY <1>1, <2>1, GrantsMove
<1>4. LineageGrows'
  <2>1. \A q \in crew : at'[q] = "claim" => at[q] = "claim" /\ my'[q] = my[q]
    BY <1>2 DEF IdentityInv, IdentityTypes
  <2> QED BY <1>2, <2>1, LineageAside
<1>5. ListIsBehind'
  <2>1. Alone => crew = {p}
    BY LoneIsAll DEF IdentityInv
  <2>2. Alone' = Alone
    BY <1>2 DEF Alone
  <2>3. Alone /\ stops = 0 => Listing(at[p], my[p], exports, drafts, index)
    BY DEF IdentityInv, ListIsBehind
  <2> QED BY <1>2, <2>1, <2>2, <2>3 DEF ListIsBehind
<1> QED BY <1>2, <1>3, <1>4, <1>5 DEF IdentityInv

LEMMA DraftsAreSafe ==
    ASSUME IdentityInv, NEW p \in crew, WriteDraft(p)
    PROVE  IdentityInv'
<1> USE DEF worldVars, sidecarVars, productVars, countVars
<1>1. PICK h : h = my[p] /\ Hand(h) /\ my = [my EXCEPT ![p] = h]
  BY InHand
<1>2. /\ at[p] = "draft" /\ drafts' = Put(drafts, h.ask.product, h.text)
      /\ GoesOn(p, "replace", h)
      /\ UNCHANGED <<exports, index, claims, granted, database, writer, stops>>
  BY <1>1 DEF WriteDraft, Step, GoesOn
<1>3. Listing(at[p], my[p], exports, drafts, index) => Listing("replace", h, exports', drafts', index')
  BY <1>1, <1>2 DEF Listing, Entering, Put
<1> QED BY <1>1, <1>2, <1>3, ListingIsSafe

LEMMA ReplacingIsSafe ==
    ASSUME IdentityInv, NEW p \in crew, Replace(p)
    PROVE  IdentityInv'
<1> USE DEF worldVars, sidecarVars, productVars, countVars
<1>1. PICK h : h = my[p] /\ Hand(h) /\ my = [my EXCEPT ![p] = h]
  BY InHand
<1>2. PICK x : x = h.ask.product
  OBVIOUS
<1>3. /\ at[p] = "replace"
      /\ UNCHANGED <<crew, index, claims, granted, database, writer, stops>>
  BY DEF Replace
<1>4. CASE x \notin DOMAIN drafts
  BY <1>1, <1>2, <1>3, <1>4, FinishingIsSafe DEF Replace
<1>5. CASE x \in DOMAIN drafts
  <2>1. exports' = Put(exports, x, drafts[x]) /\ GoesOn(p, "list", h)
    BY <1>1, <1>2, <1>5 DEF Replace, Step, GoesOn
  <2>2. ASSUME Listing(at[p], my[p], exports, drafts, index)
        PROVE  Listing("list", h, exports', drafts', index')
    <3>1. drafts[x] = h.text
      BY <1>1, <1>2, <1>3, <2>2 DEF Listing
    <3>2. x \in DOMAIN exports' /\ exports'[x] = h.text
      BY <2>1, <3>1 DEF Put
    <3>3. \A y \in DOMAIN exports' : y = x \/ (y \in DOMAIN index /\ index[y] = exports'[y])
      BY <1>3, <2>1, <2>2 DEF Listing, Entering, Put
    <3> QED BY <1>2, <1>3, <3>2, <3>3 DEF Listing, Entering
  <2> QED BY <1>1, <1>3, <2>1, <2>2, ListingIsSafe
<1> QED BY <1>4, <1>5

LEMMA ReadingListsIsSafe ==
    ASSUME IdentityInv, NEW p \in crew, ReadList(p)
    PROVE  IdentityInv'
<1> USE DEF worldVars, sidecarVars, productVars, countVars
<1>1. PICK old, I, h : old = my[p] /\ I = index /\ h = [old EXCEPT !.list = I]
  OBVIOUS
<1>2. Hand(old)
  BY <1>1, InHand
<1>3. Hand(h) /\ h.ask = old.ask /\ h.text = old.text /\ h.list = I
  BY <1>1, <1>2 DEF Hand
<1>4. /\ at[p] = "list" /\ GoesOn(p, "enter", h)
      /\ UNCHANGED <<exports, drafts, index, claims, granted, database, writer, stops>>
  BY <1>1 DEF ReadList, Step, GoesOn
<1>5. Listing(at[p], my[p], exports, drafts, index) => Listing("enter", h, exports', drafts', index')
  BY <1>1, <1>3, <1>4 DEF Listing, Entering
<1> QED BY <1>3, <1>4, <1>5, ListingIsSafe

LEMMA WritingListsIsSafe ==
    ASSUME IdentityInv, NEW p \in crew, WriteList(p)
    PROVE  IdentityInv'
<1> USE DEF worldVars, sidecarVars, productVars, countVars
<1>1. PICK old, x : old = my[p] /\ x = old.ask.product
  OBVIOUS
<1>2. /\ at[p] = "enter" /\ GoesOn(p, "rest", NoAsk) /\ index' = Put(old.list, x, old.text)
      /\ UNCHANGED <<exports, drafts, claims, granted, database, writer, stops>>
  BY <1>1 DEF WriteList, Entered, Finish, Step, GoesOn
<1>3. ASSUME Listing(at[p], my[p], exports, drafts, index)
      PROVE  Listing("rest", NoAsk, exports', drafts', index')
  <2>1. /\ old.list = index /\ exports[x] = old.text
        /\ \A y \in DOMAIN exports : y = x \/ (y \in DOMAIN index /\ index[y] = exports[y])
    BY <1>1, <1>2, <1>3 DEF Listing, Entering
  <2>2. \A y \in DOMAIN exports' : y \in DOMAIN index' /\ index'[y] = exports'[y]
    BY <1>2, <2>1 DEF Put
  <2> QED BY <2>2 DEF Listing
<1> QED BY <1>2, <1>3, NothingIsAsked, ListingIsSafe

LEMMA StopsAreSafe ==
    ASSUME IdentityInv, NEW p \in crew, Stop(p)
    PROVE  IdentityInv'
<1> USE DEF worldVars, sidecarVars, productVars, countVars
<1>1. /\ GoesOn(p, "rest", NoAsk) /\ Unlock(p) /\ stops' = stops + 1
      /\ UNCHANGED <<claims, granted, database>> /\ Hand(NoAsk) /\ "rest" \in Labels
  BY NothingIsAsked DEF Stop, Finish, Step, GoesOn, Labels
<1>2. /\ p \in Operators /\ Tables(database') /\ stops \in Nat /\ stops' \in Nat
      /\ granted' \subseteq claims' /\ granted' \subseteq database'.claims /\ claims \subseteq claims'
  <2>1. stops \in Nat
    BY DEF IdentityInv, IdentityTypes
  <2> QED BY <1>1, <2>1, InHand
<1>3. /\ IdentityTypes' /\ at'[p] = "rest" /\ my'[p] = NoAsk /\ crew' = crew
      /\ \A q \in Operators \ {p} : at'[q] = at[q] /\ my'[q] = my[q]
  BY <1>1, <1>2, TypesMove DEF IdentityInv, GoesOn
<1>4. GrantsAreKept'
  <2>1. Granting(p, "rest", NoAsk, writer', claims', granted')
    BY NothingIsAsked DEF Granting
  <2>2. writer \in {NoWriter, p} \/ writer' = writer
    BY <1>1 DEF Unlock
  <2> QED BY <1>1, <1>2, <2>1, <2>2, GrantsMove
<1>5. LineageGrows'
  <2>1. \A q \in crew : at'[q] = "claim" => at[q] = "claim" /\ my'[q] = my[q]
    BY <1>3 DEF IdentityInv, IdentityTypes
  <2> QED BY <1>1, <1>3, <2>1, LineageAside
<1>6. ListIsBehind'
  <2>1. stops' # 0
    BY <1>1, <1>2
  <2> QED BY <2>1 DEF ListIsBehind
<1> QED BY <1>3, <1>4, <1>5, <1>6 DEF IdentityInv

LEMMA IdentitySteps ==
    ASSUME IdentityInv, [IdentityNext]_identityVars
    PROVE  IdentityInv'
<1> USE DEF worldVars, sidecarVars, productVars, countVars
<1>1. CASE UNCHANGED identityVars
  BY <1>1, RefusalsAreSafe DEF identityVars
<1>2. ASSUME NEW o \in Objects, Learn(o) \/ Decay(o) PROVE IdentityInv'
  <2>1. UNCHANGED <<crew, claims, database, writer, at, my, exports, drafts, index, granted, stops>>
    BY <1>2 DEF Learn, Decay
  <2>2. IdentityTypes' /\ GrantsAreKept'
    BY <2>1 DEF IdentityInv, IdentityTypes, GrantsAreKept
  <2>3. LineageGrows'
    BY <2>1, LineageAside
  <2>4. ListIsBehind'
    BY <2>1 DEF IdentityInv, ListIsBehind, Alone
  <2> QED BY <2>2, <2>3, <2>4 DEF IdentityInv
<1>3. ASSUME NEW p \in crew, Busy(p) PROVE IdentityInv'
  BY <1>3, FinishingIsSafe DEF Busy
<1>4. ASSUME NEW p \in crew, WriteDefinition(p) \/ Rebuild(p) PROVE IdentityInv'
  <2>1. /\ at[p] \in {"rest", "define"} /\ Step(p, "lock")
        /\ UNCHANGED <<crew, my, claims, exports, index, stops, database, writer, granted>>
    BY <1>4 DEF WriteDefinition, Rebuild, Command
  <2> QED BY <2>1, HoldingIsSafe
<1>5. CASE IdentityNext
  <2> SUFFICES ASSUME NEW p \in crew,
                      \/ \E c \in Claims : AddRelationship(p, c)
                      \/ \E d \in Definitions : Define(p, d)
                      \/ \E x \in Products : Build(p, x)
                      \/ \E o \in Objects : ReadMaster(p, o)
                      \/ WriteClaim(p) \/ TakeLock(p) \/ LoadSidecars(p) \/ Commit(p)
                      \/ Show(p) \/ WriteDraft(p) \/ Replace(p) \/ ReadList(p) \/ WriteList(p)
                      \/ Stop(p)
               PROVE  IdentityInv'
    BY <1>2, <1>3, <1>4, <1>5 DEF IdentityNext
  <2> QED BY ClaimsAreChecked, DefinitionsAreTaken, BuildsBegin, MastersAreSafe, ClaimsAreWritten,
             LocksAreSafe, LoadingIsSafe, CommitsAreSafe, ShowsAreSafe, DraftsAreSafe,
             ReplacingIsSafe, ReadingListsIsSafe, WritingListsIsSafe, StopsAreSafe
<1> QED BY <1>1, <1>5

(* The inductive invariant of identities and products holds for any crew,  *)
(* whatever they ask for and wherever they are killed.                     *)
THEOREM IdentityInvariant == IdentitySpec => []IdentityInv
BY IdentityStarts, IdentitySteps, PTL DEF IdentitySpec

(* A lone operator's relationships of lineage have no cycle, and what any  *)
(* operator was granted is in the index from then on (add_relationship and *)
(* rebuild of IdentityCatalogue).                                          *)
THEOREM RelationshipsStand == IdentitySpec => []RelationshipsHold
<1>1. IdentityInv => RelationshipsHold
  BY DEF IdentityInv, LineageGrows, GrantsAreKept, Acyclic, OfLineage, RelationshipsHold,
         LineageIsAcyclic, GrantedIsIndexed
<1> QED BY <1>1, IdentityInvariant, PTL

(* With one operator and no kill, index.json tells the truth of the        *)
(* product files between two builds (ProductBuilder.build).                *)
THEOREM ListedProductsAreTrue == IdentitySpec => []ListedProductsAgree
<1>1. IdentityInv => ListedProductsAgree
  BY DEF IdentityInv, ListIsBehind, Listing, Entering, ListedProductsAgree
<1> QED BY <1>1, IdentityInvariant, PTL
===============================================================================
