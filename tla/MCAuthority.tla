---------------------------- MODULE MCAuthority ----------------------------
(***************************************************************************)
(* Model values for checking Authority and MalwareScans, the two kinds of  *)
(* evidence about objects: two contents of one weak hash, two releases of  *)
(* a TOSEC DAT with a record in common (of one an archive with two members,*)
(* one of them selected), one that does not parse, a component list and a  *)
(* disc list; two engines.                                                 *)
(***************************************************************************)
EXTENDS Authority, MalwareScans

CONSTANTS o1, o2, t1, t2, bad, list, discs, sheet

DatOrder == <<t2, bad, t1, list, sheet, discs>>
Kinds == [d \in Dats |-> IF d = list THEN "COMPONENT" ELSE IF d \in {discs, sheet} THEN "REDUMP" ELSE "TOSEC"]
Entry(title, strong) == [title |-> title, strong |-> strong, weak |-> "w"]
Member(name, entries) == [member |-> name, header |-> TRUE, entries |-> entries]
Files == [d \in Dats |->
    CASE d = t1 -> <<Member("old", {Entry("a", o1)}), Member("new", {Entry("z", o2)})>>
      [] d = t2 -> <<Member("dat", {Entry("a", o1), Entry("b", "malformed")})>>
      [] d = bad -> <<Member("good", {Entry("g", o2)}), Member("untitled", {Entry(None, o2)})>>
      [] d = list -> <<Member("dat", {Entry("c", o2)})>>
      [] d = discs -> <<Member("dat", {Entry("d", o1), Entry("e", None)})>>
      [] d = sheet -> <<Member("dat", {Entry("f", o2)})>>]
Selection == [d \in Dats |-> IF d = t1 THEN {"old"} ELSE {}]
WeakHash == [o \in Roms \cup Dats |-> IF o \in Roms THEN "w" ELSE "dat"]
Adapters == [e \in Engines |->
    CASE e = "clamav" -> "clamav" [] e = "eset" -> "command" [] e = "yara" -> "rules" [] OTHER -> "historical"]
Ending(status, lines) == [status |-> status, lines |-> lines]
ProgramEndings ==
    {Ending("0", "none"), Ending("0", "text"), Ending("1", "hits"), Ending("1", "text"),
     Ending("2", "text"), Ending("timeout", "none"), Ending("failure", "none")}

(* The two share no variable: a behaviour of one is explored with the      *)
(* other at rest.                                                          *)
Scanless == scans = <<>> /\ scanJob = NoScanJob /\ UNCHANGED scanVars
Unauthorised == objects = {} /\ UNCHANGED vars

EvidenceNext ==
    \/ \E o \in Roms : Scanless /\ Ingest(o)
    \/ \E d \in Dats : Scanless /\ Import(d)
    \/ Scanless /\ WriteMetadata
    \/ Scanless /\ InsertDataset
    \/ Scanless /\ MatchAll
    \/ Scanless /\ MatchNext
    \/ Scanless /\ MatchDone
    \/ \E o \in Asked, D \in {Of("TOSEC", rows)} \cup {{d} : d \in rows} : Scanless /\ Match(o, D)
    \/ \E o \in Asked : Scanless /\ ObserveComponents(o)
    \/ \E o \in Asked : Scanless /\ ObserveDisc(o)
    \/ Scanless /\ AssertComponents
    \/ Scanless /\ AssertDisc
    \/ Scanless /\ DeleteIndex
    \/ Scanless /\ StartRebuild
    \/ Scanless /\ RebuildRow
    \/ Scanless /\ RebuildRecords
    \/ Scanless /\ RowsDone
    \/ Scanless /\ RebuildRedump
    \/ Scanless /\ RebuildComponents
    \/ Scanless /\ Crash
    \/ \E o \in Targets, E \in SUBSET Engines : Unauthorised /\ StartAnalysis(o, E)
    \/ \E e \in Engines : Unauthorised /\ NextEngine(e)
    \/ Unauthorised /\ Copy
    \/ Unauthorised /\ RunEngine
    \/ Unauthorised /\ WriteScan
    \/ Unauthorised /\ WriteReport
    \/ Unauthorised /\ InsertRow
    \/ Unauthorised /\ FinishAnalysis
    \/ Unauthorised /\ RebuildScans
    \/ Unauthorised /\ LoseScans
    \/ Unauthorised /\ KillScan

EvidenceInit == Init /\ ScanInit
EvidenceSpec == EvidenceInit /\ [][EvidenceNext]_<<vars, scanVars>>
=============================================================================
