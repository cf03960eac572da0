------------------------------ MODULE Authority ------------------------------
(***************************************************************************)
(* External authorities: the generic service and TOSEC adapter of          *)
(* authority.py, the No-Intro and MAME adapter of additional_authorities.py*)
(* and the Redump adapter of redump.py.                                    *)
(*                                                                         *)
(* An import ingests the DAT, writes a dataset sidecar, commits the rows   *)
(* of authority.sqlite3 and, for TOSEC, matches every object of the        *)
(* archive.  The SQLite file is disposable: rebuild makes it again from    *)
(* sidecars, masters and recorded observations.  One operator issues the   *)
(* commands, which may be killed between any two commits; other parts of   *)
(* the archive ingest objects at any moment.                               *)
(***************************************************************************)
EXTENDS FiniteSetsExt, Sequences, SequencesExt

CONSTANTS
    Roms,       \* contents that are not DAT files
    Dats,       \* DAT files: their import makes the dataset of the same name
    IdOrder,    \* Dats as a sequence, in the order of their dataset ids
    KindOf,     \* authority of each: "TOSEC", "COMPONENT" or "REDUMP"
    Contents,   \* members of each DAT, by name: [member, header, entries]
    Zipped,     \* Dats that are ZIP archives; of the others the file is the member
    Members,    \* members the operator selects when importing it, {} for all
    Plain,      \* Redump DATs whose CUE sheet is a plain file, of a disc it lists
    Torn,       \* Redump DATs with a CUE sheet that does not parse
    Weak,       \* weak hash (for discs: track layout) of each content
    Asked,      \* contents the operator asks about by name
    MaxImports  \* bound on the datasets

ASSUME DatsAssumption ==
    /\ Roms \cap Dats = {}
    /\ IdOrder \in Seq(Dats) /\ Range(IdOrder) = Dats /\ IsInjective(IdOrder)
    /\ KindOf \in [Dats -> {"TOSEC", "COMPONENT", "REDUMP"}]
    /\ DOMAIN Contents = Dats /\ Zipped \subseteq Dats
    /\ \A d \in Dats : d \in Zipped \/ Len(Contents[d]) = 1
    /\ DOMAIN Members = Dats
    /\ \A d \in Dats : KindOf[d] = "TOSEC" \/ Members[d] = {}
    /\ Plain \cup Torn \subseteq {d \in Dats : KindOf[d] = "REDUMP"}
    /\ DOMAIN Weak = Roms \cup Dats
    /\ Asked \subseteq Roms \cup Dats

VARIABLES
    objects,      \* contents in the archive
    sidecars,     \* authority-metadata/datasets, in the order of import
    observations, \* authority-metadata/observations: [by, object, dataset]
    rows,         \* table datasets
    records,      \* table records: record id (its contents) -> dataset
    derived,      \* tables component_records and redump_*: <<dataset, record>>
    assertions,   \* table assertions
    pc, cur,      \* next step of the command and its local variables
    cut           \* history: a rebuild stopped half-way and none has finished since

files == <<objects, sidecars, observations>>
index == <<rows, records, derived, assertions>>
vars == <<files, index, pc, cur, cut>>

None == "none"
NoCommand == [dataset |-> None, todo |-> {}, objects |-> {}, rebuild |-> FALSE]

Of(kind, D) == {d \in D : KindOf[d] = kind}
-----------------------------------------------------------------------------
(* Parsing.  An entry is [title, strong, weak]: a strong and a weak hash   *)
(* (for a disc its track hashes and its layout, None without a CUE sheet). *)
(* The adapters keep a malformed hash as none; TOSEC wants a title.        *)
Hash(h) == IF h = "malformed" THEN None ELSE h
Parsed(m) == {[e EXCEPT !.strong = Hash(@), !.weak = Hash(@)] : e \in m.entries}
Sound(d, m) == m.header /\ (KindOf[d] = "TOSEC" => \A e \in m.entries : e.title # None)

(* _members: the members selected, of a file of that name.                 *)
Wanted(d, file) ==
    {m \in Range(Contents[d]) :
        Members[d] = {} \/ (IF d \in Zipped THEN m.member ELSE file) \in Members[d]}
Only(s, S) == SelectSeq(s, LAMBDA m : m \in S)
Selected(d, file) == Only(Contents[d], Wanted(d, file))

(* An import that reads a member it cannot parse, misses a selected one or *)
(* finds several DATs in a Redump archive fails.                           *)
FileName(d) == Contents[d][1].member
Broken == {d \in Dats :
    \/ \E m \in Range(Selected(d, FileName(d))) : ~Sound(d, m)
    \/ ~ Members[d] \subseteq {m.member : m \in Range(Selected(d, FileName(d)))}
    \/ KindOf[d] = "REDUMP" /\ Len(Contents[d]) # 1}

(* What an import reads, up to the member that fails; what a rebuild reads *)
(* in the master, which is called "master": a plain CUE sheet of that name *)
(* is the sheet of no disc.                                                *)
ReadFrom(d, S) ==
    LET n == Min({Len(S)} \cup {i - 1 : i \in {i \in DOMAIN S : ~Sound(d, S[i])}})
    IN UNION {Parsed(S[i]) : i \in 1..n}
RecordsOf == [d \in Dats |-> ReadFrom(d, Selected(d, FileName(d)))]
RereadOf_All == [d \in Dats |-> ReadFrom(d, Contents[d])]
WithoutSheet(R) == {[r EXCEPT !.weak = None] : r \in R}
RereadOf == [d \in Dats |->
    LET R == ReadFrom(d, Selected(d, "master")) IN IF d \in Plain THEN WithoutSheet(R) ELSE R]
-----------------------------------------------------------------------------
Owned(d) == {r \in DOMAIN records : records[r] = d}

(* _insert_records of authority.py: INSERT OR IGNORE, keyed by the record  *)
(* alone.                                                                  *)
Inserted(old, d, new) == [r \in DOMAIN old \cup new |-> IF r \in DOMAIN old THEN old[r] ELSE d]
-----------------------------------------------------------------------------
(* Matching.  A field that matches nothing falls back to a weaker one; the *)
(* TOSEC matcher drops candidates whose stronger hash disagrees.           *)
Fallback(R, o) ==
    LET exact == {r \in R : r.strong = o}
    IN IF exact # {} THEN exact ELSE {r \in R : r.weak = Weak[o]}

Rejected_None(C, o) == {}
Rejected(C, o) == {r \in C : r.strong \notin {None, o}}

Claim(by, d, o, result, record) ==
    [by |-> by, dataset |-> d, object |-> o, result |-> result, record |-> record]

(* The verdict on the candidates C, "none" when there is none.             *)
Verdict(by, d, o, C, none) ==
    IF Cardinality(C) = 1 THEN Claim(by, d, o, "EXACT_MATCH", CHOOSE r \in C : TRUE)
    ELSE Claim(by, d, o, IF C = {} THEN none ELSE "AMBIGUOUS", None)

MatchTosec(d, o, R) ==
    LET found == Fallback(R, o)
        rejected == Rejected(found, o)
    IN Verdict("TOSEC", d, o, found \ rejected, IF rejected = {} THEN "NO_MATCH" ELSE "CONFLICT")

MatchComponent(d, o, R) == Verdict("COMPONENT", d, o, Fallback(R, o), "NO_MATCH")

(* compare and _tracks_match: discs of the observed layout, and of those   *)
(* the ones whose track hashes agree or are not given.  Every disc with a  *)
(* layout here has the same number of tracks.                              *)
MatchDisc(d, o, R) ==
    LET layout == {r \in R : r.weak = Weak[o]}
    IN Verdict("OPTICAL", d, o, {r \in layout : r.strong \in {None, o}},
               IF \A r \in R : r.weak = None THEN "NOT_APPLICABLE" ELSE "CONFLICT")

Listed(D, table) == {e[2] : e \in {e \in table : e[1] \in D}}
-----------------------------------------------------------------------------
Init ==
    /\ objects = {} /\ sidecars = <<>> /\ observations = {}
    /\ rows = {} /\ records = <<>> /\ derived = {} /\ assertions = {}
    /\ pc = "idle" /\ cur = NoCommand /\ cut = FALSE

Goto(label) == pc' = label /\ UNCHANGED cur
Return == pc' = "idle" /\ cur' = NoCommand
Idle == pc = "idle"

(* Another command ingests an object.                                      *)
Ingest(o) ==
    /\ o \notin objects
    /\ objects' = objects \cup {o}
    /\ UNCHANGED <<sidecars, observations, index, pc, cur, cut>>

(* The DAT is preserved first; only the TOSEC adapter records a DAT that   *)
(* does not parse as a FAILED dataset.                                     *)
Import(d) ==
    /\ Idle /\ Len(sidecars) < MaxImports
    /\ objects' = objects \cup {d}
    /\ IF d \in Broken /\ KindOf[d] # "TOSEC" THEN Return
       ELSE pc' = "metadata" /\ cur' = [NoCommand EXCEPT !.dataset = d]
    /\ UNCHANGED <<sidecars, observations, index, cut>>

(* _write_metadata raises when the sidecar exists: imported_at differs.    *)
WriteMetadata ==
    /\ pc = "metadata"
    /\ IF cur.dataset \in Range(sidecars) THEN Return /\ UNCHANGED sidecars
       ELSE sidecars' = Append(sidecars, cur.dataset) /\ Goto("insert")
    /\ UNCHANGED <<objects, observations, index, cut>>

(* One transaction: the dataset row and what the DAT lists.  A CUE sheet   *)
(* that does not parse rolls it back; the sidecar stays.                   *)
InsertDataset ==
    LET d == cur.dataset IN
    /\ pc = "insert"
    /\ rows' = IF d \in Torn THEN rows ELSE rows \cup {d}
    /\ records' = IF KindOf[d] # "TOSEC" \/ d \in Broken THEN records
                  ELSE Inserted(records, d, RecordsOf[d])
    /\ derived' = IF KindOf[d] = "TOSEC" \/ d \in Torn THEN derived
                  ELSE derived \cup ({d} \X RecordsOf[d])
    /\ IF KindOf[d] = "TOSEC" /\ d \notin Broken THEN Goto("clear") ELSE Return
    /\ UNCHANGED <<files, assertions, cut>>

(* match_all: the objects of the archive are read once, the old assertions *)
(* of the dataset (or all of them) are deleted.                            *)
MatchAll ==
    /\ pc = "clear"
    /\ pc' = "match"
    /\ cur' = [cur EXCEPT !.todo = objects, !.objects = objects]
    /\ assertions' = IF cur.rebuild THEN {} ELSE {a \in assertions : a.dataset # cur.dataset}
    /\ UNCHANGED <<files, rows, records, derived, cut>>

TosecClaims(o, D) == {MatchTosec(d, o, Owned(d)) : d \in D}

MatchNext ==
    LET o == CHOOSE o \in cur.todo : TRUE IN
    /\ pc = "match" /\ cur.todo # {}
    /\ assertions' = assertions \cup
           TosecClaims(o, IF cur.rebuild THEN Of("TOSEC", rows) ELSE {cur.dataset})
    /\ cur' = [cur EXCEPT !.todo = @ \ {o}]
    /\ UNCHANGED <<files, rows, records, derived, pc, cut>>

MatchDone ==
    /\ pc = "match" /\ cur.todo = {}
    /\ IF cur.rebuild THEN Goto("redump") ELSE Return
    /\ UNCHANGED <<files, index, cut>>

(* authority match: against one dataset, whatever its authority, or every  *)
(* TOSEC dataset, a FAILED one included.                                   *)
Match(o, D) ==
    /\ Idle /\ o \in objects
    /\ D = Of("TOSEC", rows) \/ \E d \in rows : D = {d}
    /\ assertions' = assertions \cup TosecClaims(o, D)
    /\ UNCHANGED <<files, rows, records, derived, pc, cur, cut>>
-----------------------------------------------------------------------------
(* match of the component adapter writes the observation of each dataset,  *)
(* then commits its assertions.                                            *)
ObserveComponents(o) ==
    LET D == Of("COMPONENT", rows) IN
    /\ Idle /\ o \in objects /\ D # {}
    /\ observations' = observations \cup {[by |-> "COMPONENT", object |-> o, dataset |-> d] : d \in D}
    /\ pc' = "components" /\ cur' = [NoCommand EXCEPT !.objects = {o}]
    /\ UNCHANGED <<objects, sidecars, index, cut>>

ComponentClaims(seen) ==
    {MatchComponent(s.dataset, s.object, Listed({s.dataset}, derived)) : s \in seen}

AssertComponents ==
    /\ pc = "components"
    /\ assertions' = assertions \cup ComponentClaims(
           {[object |-> o, dataset |-> d] : o \in cur.objects, d \in Of("COMPONENT", rows)})
    /\ Return
    /\ UNCHANGED <<files, rows, records, derived, cut>>

(* match_observation: without a dataset every disc is compared, and the    *)
(* claim is filed under the Redump dataset imported last.                  *)
Chosen == Last(SelectSeq(sidecars, LAMBDA d : d \in Of("REDUMP", rows)))

Recorded(o, d) == [by |-> "OPTICAL", object |-> o, dataset |-> d]

ObserveDisc(o) ==
    /\ Idle /\ o \in objects /\ Of("REDUMP", rows) # {}
    /\ \E d \in Of("REDUMP", rows), scoped \in BOOLEAN :
        /\ scoped \/ d = Chosen
        /\ observations' = observations \cup {Recorded(o, d)}
        /\ pc' = "disc"
        /\ cur' = [NoCommand EXCEPT !.dataset = d, !.objects = {o}, !.todo = IF scoped THEN {d} ELSE rows]
    /\ UNCHANGED <<objects, sidecars, index, cut>>

AssertDisc ==
    /\ pc = "disc"
    /\ assertions' = assertions \cup
           {MatchDisc(cur.dataset, o, Listed(Of("REDUMP", cur.todo), derived)) : o \in cur.objects}
    /\ Return
    /\ UNCHANGED <<files, rows, records, derived, cut>>
-----------------------------------------------------------------------------
Emptied == rows' = {} /\ records' = <<>> /\ derived' = {} /\ assertions' = {}

(* The operator deletes authority.sqlite3; any command creates it empty.   *)
DeleteIndex ==
    /\ Idle /\ rows # {}
    /\ Emptied
    /\ UNCHANGED <<files, pc, cur, cut>>

StartRebuild ==
    /\ Idle /\ sidecars # <<>>
    /\ Emptied
    /\ pc' = "row" /\ cur' = [NoCommand EXCEPT !.rebuild = TRUE, !.todo = Range(sidecars)]
    /\ UNCHANGED <<files, cut>>

FirstOf(D) == IdOrder[Min({n \in DOMAIN IdOrder : IdOrder[n] \in D})]
NextId == FirstOf(cur.todo)

(* One transaction for the row of a dataset, one for its TOSEC records.    *)
RebuildRow ==
    /\ pc = "row" /\ cur.todo # {}
    /\ rows' = rows \cup {NextId}
    /\ IF KindOf[NextId] = "TOSEC" THEN pc' = "records" /\ cur' = [cur EXCEPT !.dataset = NextId]
       ELSE pc' = "row" /\ cur' = [cur EXCEPT !.todo = @ \ {NextId}]
    /\ UNCHANGED <<files, records, derived, assertions, cut>>

RebuildRecords ==
    /\ pc = "records"
    /\ records' = IF cur.dataset \in Broken THEN records ELSE Inserted(records, cur.dataset, RereadOf[cur.dataset])
    /\ pc' = "row" /\ cur' = [cur EXCEPT !.todo = @ \ {cur.dataset}]
    /\ UNCHANGED <<files, rows, derived, assertions, cut>>

RowsDone ==
    /\ pc = "row" /\ cur.todo = {}
    /\ Goto("clear")
    /\ UNCHANGED <<files, index, cut>>

(* What rebuild_into_existing of an adapter reads again.                   *)
Reread(D) == UNION {{d} \X RereadOf[d] : d \in D}
Adapter(kind) == Reread(Of(kind, Range(sidecars)))
Seen_Matched(by) == {s \in observations : s.by = by /\ \E r \in RecordsOf[s.dataset] : r.strong = s.object}
Seen(by) == {s \in observations : s.by = by}

(* The Redump adapter reads the datasets in the order of their ids and     *)
(* raises at the first sheet that does not parse.  Then it takes every     *)
(* observation for one of a disc: the first that a component match         *)
(* recorded makes it raise, after those before it.                         *)
Unparsed == Of("REDUMP", Range(sidecars)) \cap (Torn \ Plain)
Unreadable == Seen("COMPONENT")
Raises == Of("REDUMP", Range(sidecars)) # {} /\ (Unparsed # {} \/ Unreadable # {})

Parsable == {d \in Of("REDUMP", Range(sidecars)) : FirstOf(Unparsed \cup {d}) \notin Unparsed}

RebuildRedump ==
    LET table == derived \cup Reread(Parsable) IN
    /\ pc = "redump"
    /\ derived' = table
    /\ \E S \in SUBSET Seen("OPTICAL") :
        /\ Raises \/ S = Seen("OPTICAL")
        /\ Unparsed = {} \/ S = {}
        /\ assertions' = assertions \cup
               {MatchDisc(s.dataset, s.object, Listed({s.dataset}, table)) : s \in S}
    /\ IF Raises THEN Return ELSE Goto("additional")
    /\ cut' = (cut \/ Raises)
    /\ UNCHANGED <<files, rows, records>>

RebuildComponents ==
    /\ pc = "additional"
    /\ derived' = derived \cup Adapter("COMPONENT")
    /\ assertions' = assertions \cup
           {MatchComponent(s.dataset, s.object, RereadOf[s.dataset]) : s \in Seen("COMPONENT")}
    /\ Return /\ cut' = FALSE
    /\ UNCHANGED <<files, rows, records>>

(* Every commit and file stands; the command is gone.                      *)
Crash ==
    /\ ~Idle
    /\ Return
    /\ cut' = (cut \/ cur.rebuild)
    /\ UNCHANGED <<files, index>>

Next ==
    \/ \E o \in Roms : Ingest(o)
    \/ \E d \in Dats : Import(d)
    \/ WriteMetadata \/ InsertDataset \/ MatchAll \/ MatchNext \/ MatchDone
    \/ \E o \in Asked, D \in {Of("TOSEC", rows)} \cup {{d} : d \in rows} : Match(o, D)
    \/ \E o \in Asked : ObserveComponents(o) \/ ObserveDisc(o)
    \/ AssertComponents \/ AssertDisc
    \/ DeleteIndex \/ StartRebuild \/ RebuildRow \/ RebuildRecords \/ RowsDone
    \/ RebuildRedump \/ RebuildComponents
    \/ Crash

Spec == Init /\ [][Next]_vars
-----------------------------------------------------------------------------
TypeOK ==
    /\ objects \subseteq Roms \cup Dats
    /\ Range(sidecars) \subseteq Dats /\ rows \subseteq Range(sidecars)
    /\ \A r \in DOMAIN records : records[r] \in Of("TOSEC", rows) \ Broken
    /\ \A e \in derived : e[1] \in rows

-----------------------------------------------------------------------------
(* verify of the three adapters: the failures it reports.  Masters do not  *)
(* rot here.  record_count counts what was parsed, of a failed dataset too.*)
Miscounted == {d \in Of("TOSEC", rows) : Cardinality(Owned(d)) # Cardinality(RecordsOf[d])}
Known == DOMAIN records \cup Listed(rows, derived)
AuthorityFailures ==
    {kind \in {"missing_source_object", "dangling_records", "dangling_assertions",
               "assertion_object_missing", "assertion_record_missing", "record_count_mismatch"} :
        CASE kind = "missing_source_object" -> ~ rows \subseteq objects
          [] kind = "dangling_records" -> ~ Range(records) \subseteq rows
          [] kind = "dangling_assertions" -> \E a \in assertions : a.dataset \notin rows
          [] kind = "assertion_object_missing" -> \E a \in assertions : a.object \notin objects
          [] kind = "assertion_record_missing" ->
                 \E a \in assertions : a.result = "EXACT_MATCH" /\ a.record \notin Known
          [] kind = "record_count_mismatch" -> Miscounted # {}}
DiscFailures ==
    {kind \in {"observation_object_missing", "dangling_disc"} :
        IF kind = "dangling_disc" THEN \E e \in derived : KindOf[e[1]] = "REDUMP" /\ e[1] \notin rows
        ELSE \E s \in observations : s.object \notin objects}
ComponentFailures ==
    {kind \in {"component_observation_object_missing", "component_dataset_missing"} :
        IF kind = "component_dataset_missing"
        THEN \E e \in derived : KindOf[e[1]] = "COMPONENT" /\ e[1] \notin rows
        ELSE \E s \in Seen("COMPONENT") : s.object \notin objects}
VerifyFailures == AuthorityFailures
    \cup (IF Of("REDUMP", rows) = {} THEN {} ELSE DiscFailures)
    \cup (IF Of("COMPONENT", rows) = {} THEN {} ELSE ComponentFailures)

(* What a rebuild would assert from the files as they are.  One that       *)
(* raises asserts what TOSEC datasets say, and no more can be relied on.   *)
FirstIn(r) == FirstOf({d \in Of("TOSEC", Range(sidecars)) \ Broken : r \in RereadOf[d]})

Rebuildable ==
    {MatchTosec(d, o, IF d \in Broken THEN {} ELSE {r \in RereadOf[d] : FirstIn(r) = d}) :
        d \in Of("TOSEC", Range(sidecars)), o \in objects}
    \cup IF Raises THEN {} ELSE
         {MatchComponent(s.dataset, s.object, RereadOf[s.dataset]) : s \in Seen("COMPONENT")}
         \cup {MatchDisc(s.dataset, s.object, RereadOf[s.dataset]) : s \in Seen("OPTICAL")}

(* Claims whose ground is not in one dataset: of a TOSEC dataset that      *)
(* repeats a record of another, of a disc sought in several Redump         *)
(* datasets, of the TOSEC matcher on another authority's dataset.          *)
Sharing(e) == \E d \in Of("TOSEC", Range(sidecars)) \ (Broken \cup {e}) :
    RecordsOf[d] \cap RecordsOf[e] # {}

Mixed(a) ==
    \/ a.by = "TOSEC" /\ (KindOf[a.dataset] # "TOSEC" \/ Sharing(a.dataset))
    \/ a.by = "OPTICAL" /\ Cardinality(Of("REDUMP", Range(sidecars))) > 1

(* authority.sqlite3 is disposable: between commands, unless a rebuild     *)
(* stopped half-way, every assertion in it that rests on one dataset is    *)
(* one that a rebuild derives again from sidecars, masters and             *)
(* observations.  Two things are lost in a rebuild: where it raises, the   *)
(* claims of the adapters from there on; and the claims on discs whose     *)
(* sheet came as a plain file.                                             *)
LostIfRaised(a) == Raises /\ a.by # "TOSEC"
SheetLost(a) == a.by = "OPTICAL" /\ a.dataset \in Plain

AssertionsRebuildable == Idle /\ ~cut =>
    \A a \in assertions \ Rebuildable : Mixed(a) \/ LostIfRaised(a) \/ SheetLost(a)

(* "parsed Redump disc/session/track tables are disposable"                *)
(* (README.md:500-501): where a rebuild does not raise, it derives every   *)
(* claim on a disc again, if there is one Redump dataset.  Not so when the *)
(* CUE sheet was imported as a plain file.                                 *)
DiscsAreDisposable == Idle /\ ~cut /\ ~Raises =>
    \A a \in assertions \ Rebuildable : a.by = "OPTICAL" => Mixed(a)

(* A TOSEC match is never downgraded: an exact match whose record gives a  *)
(* strong hash agrees with the object in it, and an object whose strong    *)
(* hash the dataset holds is matched by it: exactly if one record has it,  *)
(* else ambiguously, and no weaker hash is looked at.                      *)
NotDowngraded(a, R) ==
    LET strong == {r \in R : r.strong = a.object} IN
    /\ a.result = "EXACT_MATCH" => a.record.strong \in {None, a.object}
    /\ strong # {} =>
        IF Cardinality(strong) = 1 THEN a.result = "EXACT_MATCH" /\ a.record \in strong
        ELSE a.result = "AMBIGUOUS"

NeverDowngraded == \A a \in assertions : a.by = "TOSEC" => NotDowngraded(a, Owned(a.dataset))

(* A rebuild that ends makes good whatever a killed command left undone:   *)
(* every dataset sidecar has its row, every object it read has a claim in  *)
(* every TOSEC dataset, and every observation has its claim.               *)
Restored ==
    /\ rows = Range(sidecars)
    /\ \A o \in cur.objects, d \in Of("TOSEC", rows) :
           \E a \in assertions' : a.by = "TOSEC" /\ a.object = o /\ a.dataset = d
    /\ \A s \in observations :
           \E a \in assertions' : a.by = s.by /\ a.object = s.object /\ a.dataset = s.dataset
    /\ derived' = Adapter("REDUMP") \cup Adapter("COMPONENT")

RebuildMakesGood == [][RebuildComponents => Restored]_vars

(* verify finds nothing wrong between two commands, whatever was killed    *)
(* before.  It may count too few records, of a dataset that failed, whose  *)
(* records another dataset holds, that is a plain file selected by name,   *)
(* or after a rebuild that stopped half-way.                               *)
Explained(d) == cut \/ d \in Broken \/ Sharing(d) \/ (d \notin Zipped /\ Members[d] # {})

VerifyPasses == Idle =>
    /\ VerifyFailures \subseteq {"record_count_mismatch"}
    /\ \A d \in Miscounted : Explained(d)

(* authority.sqlite3 holds nothing that the files do not: what it says can *)
(* be derived again, and verify agrees.  Said of archives in which no      *)
(* plain file was selected by name, of which a rebuild reads nothing.      *)
IndexIsDisposable == AssertionsRebuildable /\ VerifyPasses

(* "deleting it and running `rab authority rebuild` reparses preserved     *)
(* source objects" (docs/architecture.md:910): a rebuild that is not       *)
(* killed comes to its end.  Not so once a component match was recorded    *)
(* beside a Redump dataset, or the import of a CUE sheet failed.           *)
RebuildCompletes == [][RebuildRedump => pc' = "additional"]_vars
=============================================================================
