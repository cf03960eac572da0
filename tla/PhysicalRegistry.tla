-------------------------- MODULE PhysicalRegistry --------------------------
(***************************************************************************)
(* PhysicalMediaRegistry of physical_registry.py: one record per medium,   *)
(* whose lists name revision and observation sidecars and evidence         *)
(* objects.  A command reads the record, writes the sidecar, and then      *)
(* replaces the record by its changed copy; several operators may do so at *)
(* once, and a kill may fall between the writes.                           *)
(*                                                                         *)
(* An entry is a number.  Metadata, sets and intake sessions are left out. *)
(***************************************************************************)
EXTENDS Naturals, Sequences, SequencesExt

CONSTANTS
    Media,      \* ids of registered media
    Editors,    \* operators at the registry
    MaxEntries, \* bound on the entries made
    MaxCuts     \* bound on kills of an editor

VARIABLES
    records,      \* [revisions, observations, evidence] per medium
    revisions,    \* revision sidecars: entry |-> [medium, previous]
    observations, \* observation sidecars
    evidence,     \* objects ingested as evidence
    relations,    \* EVIDENCE_FOR relationships: <<medium, object>>
    edit,         \* what each editor is doing
    entries, cuts \* entries made and kills so far

registryVars == <<records, revisions, observations, evidence, relations, edit, entries, cuts>>

Kinds  == {"revisions", "observations", "evidence"}
NoEdit == [step |-> "idle"]
Nobody == 0

RegistryInit ==
    /\ records = [m \in Media |-> [kind \in Kinds |-> <<>>]]
    /\ revisions = <<>> /\ observations = {} /\ evidence = {} /\ relations = {}
    /\ edit = [e \in Editors |-> NoEdit]
    /\ entries = 0 /\ cuts = 0

(* update, observe and add_evidence: the record is read first.             *)
ReadRecord(e, m, kind) ==
    /\ edit[e] = NoEdit /\ entries < MaxEntries
    /\ entries' = entries + 1
    /\ edit' = [edit EXCEPT ![e] =
         [step |-> "sidecar", medium |-> m, kind |-> kind, copy |-> records[m], entry |-> entries + 1]]
    /\ UNCHANGED <<records, revisions, observations, evidence, relations, cuts>>

\* A revision names the one before it in the record as read.
Previous(copy) == IF copy.revisions = <<>> THEN Nobody ELSE Last(copy.revisions)
\* Mutation: the one before it is looked up in the record as it is now.
Revise_Fresh(c) == [medium |-> c.medium, previous |-> Previous(records[c.medium])]
Revise(c) == [medium |-> c.medium, previous |-> Previous(c.copy)]

WriteSidecar(e) ==
    LET c == edit[e] IN
    /\ c.step = "sidecar"
    /\ revisions' = IF c.kind = "revisions"
                      THEN [x \in DOMAIN revisions \cup {c.entry} |->
                              IF x = c.entry THEN Revise(c) ELSE revisions[x]]
                      ELSE revisions
    /\ observations' = IF c.kind = "observations" THEN observations \cup {c.entry} ELSE observations
    /\ evidence' = IF c.kind = "evidence" THEN evidence \cup {c.entry} ELSE evidence
    /\ edit' = [edit EXCEPT ![e].step = "record"]
    /\ UNCHANGED <<records, relations, entries, cuts>>

WriteRecord(e) ==
    LET c == edit[e] IN
    /\ c.step = "record"
    /\ records' = [records EXCEPT ![c.medium] = [c.copy EXCEPT ![c.kind] = Append(@, c.entry)]]
    /\ edit' = [edit EXCEPT ![e] = IF c.kind = "evidence" THEN [c EXCEPT !.step = "relate"] ELSE NoEdit]
    /\ UNCHANGED <<revisions, observations, evidence, relations, entries, cuts>>

Relate(e) ==
    LET c == edit[e] IN
    /\ c.step = "relate"
    /\ relations' = relations \cup {<<c.medium, c.entry>>}
    /\ edit' = [edit EXCEPT ![e] = NoEdit]
    /\ UNCHANGED <<records, revisions, observations, evidence, entries, cuts>>

CutEdit(e) ==
    /\ edit[e] # NoEdit /\ cuts < MaxCuts
    /\ cuts' = cuts + 1 /\ edit' = [edit EXCEPT ![e] = NoEdit]
    /\ UNCHANGED <<records, revisions, observations, evidence, relations, entries>>

RegistryNext ==
    \E e \in Editors :
        \/ \E m \in Media, kind \in Kinds : ReadRecord(e, m, kind)
        \/ WriteSidecar(e) \/ WriteRecord(e) \/ Relate(e) \/ CutEdit(e)

-----------------------------------------------------------------------------
(* What a record lists exists, and its revisions form one chain: each      *)
(* names the one listed before it, whoever else writes and wherever a kill *)
(* falls.  (Entries may be lost to another editor, but the history that is *)
(* listed is one that happened.)                                           *)
ListedHistoryIsChained ==
    \A m \in Media :
        LET list == records[m].revisions IN
        /\ \A i \in DOMAIN list :
             /\ list[i] \in DOMAIN revisions
             /\ revisions[list[i]] =
                  [medium |-> m, previous |-> IF i = 1 THEN Nobody ELSE list[i - 1]]
        /\ Range(records[m].observations) \subseteq observations
        /\ Range(records[m].evidence) \subseteq evidence
=============================================================================
