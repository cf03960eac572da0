---------------------------- MODULE EvidenceProofs ----------------------------
(***************************************************************************)
(* Proofs about the evidence kept beside the objects: the claims of        *)
(* Authority, for any DAT files, and the local scans of MalwareScans, for  *)
(* any engines, whatever their programs answer.                            *)
(*                                                                         *)
(* The argument for the claims: the records that a dataset owns only       *)
(* change while there is no claim on it, at its import and in a rebuild,   *)
(* so that a claim goes on saying what its match found.  A rebuild makes   *)
(* the index from nothing, step by step, while nobody imports.             *)
(* While no rebuild is left half-way, a table holds all that its dataset   *)
(* lists, so that a rebuild from the files claims the same again.          *)
(*                                                                         *)
(* For the scans: observations are only ever appended, so what a job rests *)
(* on stays as it was written.  A job without a warning lists, for each    *)
(* engine it has done with, an observation it wrote itself; and a detected *)
(* object is one with a detection among its rows, which are only removed   *)
(* together.                                                               *)
(***************************************************************************)
EXTENDS Authority, MalwareScans, FiniteSetTheorems, WellFoundedInduction, TLAPS

-----------------------------------------------------------------------------
(* Claims.  The inductive invariant, in named parts.                       *)

Content == Roms \cup Dats
Process == [dataset : Dats \cup {None}, todo : SUBSET Content, objects : SUBSET Content,
            rebuild : BOOLEAN]
Rereading == {"row", "records"}               \* a rebuild makes rows and records
Matching == {"clear", "match"}                \* objects are matched
Finishing == {"redump", "additional"}         \* the last steps of a rebuild
Labels == Rereading \cup Matching \cup Finishing
          \cup {"idle", "metadata", "insert", "components", "disc"}

AuthorityTypes ==
    /\ objects \subseteq Content /\ sidecars \in Seq(Dats)
    /\ rows \subseteq Range(sidecars)
    /\ pc \in Labels /\ cur \in Process
    /\ \A s \in observations : s.by \in {"COMPONENT", "OPTICAL"}

(* What a command has in hand.                                             *)
HandsOnDataset ==
    /\ pc \in {"metadata", "insert"} => cur.dataset \in Dats /\ ~cur.rebuild
    /\ pc = "insert" => cur.dataset \in Range(sidecars) \ rows
    /\ pc \in Matching /\ ~cur.rebuild => cur.dataset \in rows
    /\ pc \in Rereading \cup Finishing => cur.rebuild
    /\ pc = "records" => cur.dataset \in cur.todo \cap rows

(* A TOSEC claim is on a dataset of the index.                             *)
ClaimsAreOnRows == \A a \in assertions : a.by = "TOSEC" => a.dataset \in rows

Claimed(by, o, d) == \E a \in assertions : a.by = by /\ a.object = o /\ a.dataset = d

(* What a rebuild has made so far.                                         *)
RebuildProgress == cur.rebuild =>
    /\ pc \in Rereading => /\ assertions = {} /\ derived = {}
                           /\ Range(sidecars) = rows \cup cur.todo
    /\ pc \in Matching \cup {"redump"} => derived = {}
    /\ pc \in Matching \cup Finishing => rows = Range(sidecars)
    /\ pc \in {"match"} \cup Finishing =>
           \A o \in cur.objects, d \in Of("TOSEC", rows) :
               (pc = "match" /\ o \in cur.todo) \/ Claimed("TOSEC", o, d)
    /\ pc = "additional" => /\ derived = Adapter("REDUMP")
                            /\ \A s \in Seen("OPTICAL") : Claimed("OPTICAL", s.object, s.dataset)

ClaimInv ==
    /\ AuthorityTypes /\ HandsOnDataset /\ ClaimsAreOnRows /\ RebuildProgress
    /\ NeverDowngraded

-----------------------------------------------------------------------------
(* The least number of a set is in it, so the first of some datasets is    *)
(* one of them.                                                            *)
LEMMA LeastIsThere ==
    ASSUME NEW S \in SUBSET Nat, S # {}
    PROVE  Min(S) \in S
<1> DEFINE R == OpToRel(<, Nat)
<1>1. \A y, x \in Nat : <<y, x>> \in R <=> y < x
  BY DEF OpToRel
<1>2. IsWellFoundedOn(R, Nat)
  BY NatLessThanWellFounded
<1> HIDE DEF R
<1>3. PICK x \in S : \A y \in S : <<y, x>> \notin R
  BY <1>2, WFMin
<1>4. \A y \in S : ~(y < x)
  BY <1>1, <1>3, Zenon
<1>5. \A y \in S : x <= y
  BY <1>4, SMT
<1> QED BY <1>5 DEF Min

LEMMA FirstIsOne ==
    ASSUME NEW D \in SUBSET Dats, D # {}
    PROVE  FirstOf(D) \in D
<1> DEFINE N == {n \in DOMAIN IdOrder : IdOrder[n] \in D}
<1>1. N \in SUBSET Nat /\ N # {}
  BY DatsAssumption DEF Range
<1>2. Min(N) \in N
  BY <1>1, LeastIsThere
<1> QED BY <1>2 DEF FirstOf

(* A rebuild that does not raise reads every Redump dataset.               *)
LEMMA ParsableIsAll == ~Raises => Reread(Parsable) = Adapter("REDUMP")
<1>1. Of("REDUMP", Range(sidecars)) = {} => Parsable = Of("REDUMP", Range(sidecars))
  BY DEF Parsable
<1>2. Unparsed = {} => Parsable = Of("REDUMP", Range(sidecars))
  BY DEF Parsable
<1> QED BY <1>1, <1>2 DEF Raises, Adapter

(* What a match of the TOSEC adapter claims of the records it looks at.    *)
LEMMA TosecClaim ==
    ASSUME NEW d, NEW o, NEW R
    PROVE  LET a == MatchTosec(d, o, R)
           IN /\ a.by = "TOSEC" /\ a.dataset = d /\ a.object = o
              /\ NotDowngraded(a, R)
<1> DEFINE found == Fallback(R, o)
           rejected == Rejected(found, o)
           C == found \ rejected
           none == IF rejected = {} THEN "NO_MATCH" ELSE "CONFLICT"
           a == MatchTosec(d, o, R)
<1>1. a = Verdict("TOSEC", d, o, C, none)
  BY DEF MatchTosec
<1>2. \A r \in C : r.strong \in {None, o}
  BY DEF Rejected
<1>3. {r \in R : r.strong = o} # {} => C = {r \in R : r.strong = o}
  BY DEF Fallback, Rejected
<1> HIDE DEF C, rejected, found
<1>4. CASE Cardinality(C) = 1
  <2>1. C # {}
    BY <1>4, FS_EmptySet
  <2>2. PICK q \in C : q = CHOOSE r \in C : TRUE
    BY <2>1
  <2>3. a = Claim("TOSEC", d, o, "EXACT_MATCH", q)
    BY <1>1, <1>4, <2>2 DEF Verdict
  <2> HIDE DEF a
  <2>4. a.by = "TOSEC" /\ a.dataset = d /\ a.object = o /\ a.result = "EXACT_MATCH" /\ a.record = q
    BY <2>3 DEF Claim
  <2>5. NotDowngraded(a, R)
    BY <1>2, <1>3, <1>4, <2>4 DEF NotDowngraded
  <2> QED BY <2>4, <2>5 DEF a
<1>5. CASE Cardinality(C) # 1
  <2>1. PICK result : result = IF C = {} THEN none ELSE "AMBIGUOUS"
    OBVIOUS
  <2>2. a = Claim("TOSEC", d, o, result, None)
    BY <1>1, <1>5, <2>1 DEF Verdict
  <2>3. result # "EXACT_MATCH" /\ (C # {} => result = "AMBIGUOUS")
    BY <2>1
  <2> HIDE DEF a, none
  <2>4. a.by = "TOSEC" /\ a.dataset = d /\ a.object = o /\ a.result = result
    BY <2>2 DEF Claim
  <2>5. NotDowngraded(a, R)
    BY <1>3, <1>5, <2>3, <2>4 DEF NotDowngraded
  <2> QED BY <2>4, <2>5 DEF a
<1> QED BY <1>4, <1>5

(* The claims of the other matchers are their own.                         *)
LEMMA OtherClaims ==
    ASSUME NEW d, NEW o, NEW R
    PROVE  /\ MatchComponent(d, o, R).by = "COMPONENT"
           /\ MatchComponent(d, o, R).dataset = d /\ MatchComponent(d, o, R).object = o
           /\ MatchDisc(d, o, R).by = "OPTICAL"
           /\ MatchDisc(d, o, R).dataset = d /\ MatchDisc(d, o, R).object = o
BY DEF MatchComponent, MatchDisc, Verdict, Claim

(* Claims made of the records as they are, or by another matcher, add      *)
(* nothing that is downgraded.                                             *)
LEMMA ClaimsAreSound ==
    ASSUME NeverDowngraded, UNCHANGED records,
           \A a \in assertions' : \/ a \in assertions \/ a.by # "TOSEC"
                                  \/ \E d, o : a = MatchTosec(d, o, Owned(d))
    PROVE  NeverDowngraded'
<1> SUFFICES ASSUME NEW a \in assertions', a.by = "TOSEC"
             PROVE  NotDowngraded(a, Owned(a.dataset))
  BY DEF NeverDowngraded, Owned
<1>1. CASE a \in assertions
  BY <1>1 DEF NeverDowngraded
<1>2. ASSUME NEW d, NEW o, a = MatchTosec(d, o, Owned(d))
      PROVE  NotDowngraded(a, Owned(a.dataset))
  BY <1>2, TosecClaim
<1> QED BY <1>1, <1>2

(* The claims stand when others are added, on datasets of the index, and   *)
(* rows are added or stay.                                                 *)
LEMMA ClaimsStand ==
    ASSUME NeverDowngraded, ClaimsAreOnRows, UNCHANGED records, rows \subseteq rows',
           \A a \in assertions' : \/ a \in assertions \/ a.by # "TOSEC"
                                  \/ \E d \in rows : \E o : a = MatchTosec(d, o, Owned(d))
    PROVE  NeverDowngraded' /\ ClaimsAreOnRows'
<1>1. NeverDowngraded'
  BY ClaimsAreSound
<1>2. ClaimsAreOnRows'
  <2> SUFFICES ASSUME NEW a \in assertions', a.by = "TOSEC" PROVE a.dataset \in rows'
    BY DEF ClaimsAreOnRows
  <2>1. CASE a \in assertions
    BY <2>1 DEF ClaimsAreOnRows
  <2>2. ASSUME NEW d \in rows, NEW o, a = MatchTosec(d, o, Owned(d)) PROVE a.dataset \in rows'
    BY <2>2, TosecClaim
  <2> QED BY <2>1, <2>2
<1> QED BY <1>1, <1>2

(* The same when a command claims for one object in some datasets.         *)
LEMMA TosecClaimsStand ==
    ASSUME NeverDowngraded, ClaimsAreOnRows, UNCHANGED <<records, rows>>,
           NEW o, NEW D \in SUBSET rows, assertions' = assertions \cup TosecClaims(o, D)
    PROVE  /\ NeverDowngraded' /\ ClaimsAreOnRows'
           /\ \A d \in D : Claimed("TOSEC", o, d)'
<1>1. \A a \in TosecClaims(o, D) : \E d \in D : a = MatchTosec(d, o, Owned(d))
  BY DEF TosecClaims
<1>2. \A d \in D : MatchTosec(d, o, Owned(d)) \in assertions'
  BY DEF TosecClaims
<1>3. \A d \in D : Claimed("TOSEC", o, d)'
  BY <1>2, TosecClaim DEF Claimed
<1> QED BY <1>1, <1>3, ClaimsStand

LEMMA ClaimedStands ==
    ASSUME assertions \subseteq assertions', NEW by, NEW o, NEW d, Claimed(by, o, d)
    PROVE  Claimed(by, o, d)'
BY DEF Claimed

-----------------------------------------------------------------------------
(* The inductive invariant of the claims holds.                            *)
LEMMA RangeOfSidecars ==
    ASSUME sidecars \in Seq(Dats)
    PROVE  /\ Range(sidecars) \subseteq Dats
           /\ \A d \in Dats : /\ Append(sidecars, d) \in Seq(Dats)
                              /\ Range(Append(sidecars, d)) = Range(sidecars) \cup {d}
<1>1. Range(sidecars) \subseteq Dats
  BY DEF Range
<1>2. ASSUME NEW d \in Dats
      PROVE  /\ Append(sidecars, d) \in Seq(Dats)
             /\ Range(Append(sidecars, d)) = Range(sidecars) \cup {d}
  <2> DEFINE s == Append(sidecars, d)
  <2>1. s \in Seq(Dats) /\ Len(s) = Len(sidecars) + 1 /\ s[Len(sidecars) + 1] = d
        /\ \A n \in 1..Len(sidecars) : s[n] = sidecars[n]
    OBVIOUS
  <2> HIDE DEF s
  <2>2. DOMAIN s = 1..Len(sidecars) + 1 /\ DOMAIN sidecars = 1..Len(sidecars) /\ Len(sidecars) \in Nat
    BY <2>1
  <2>3. Range(s) \subseteq Range(sidecars) \cup {d}
    BY <2>1, <2>2 DEF Range
  <2>4. Range(sidecars) \cup {d} \subseteq Range(s)
    BY <2>1, <2>2 DEF Range
  <2> QED BY <2>1, <2>3, <2>4 DEF s
<1> QED BY <1>1, <1>2

LEMMA NoCommandIsAProcess == NoCommand \in Process /\ NoCommand.rebuild = FALSE
BY DEF NoCommand, Process

LEMMA InitClaimInv == Init => ClaimInv
<1> SUFFICES ASSUME Init PROVE ClaimInv
  OBVIOUS
<1> USE DEF Init
<1>1. AuthorityTypes
  BY NoCommandIsAProcess DEF AuthorityTypes, Labels
<1>2. HandsOnDataset /\ ClaimsAreOnRows /\ RebuildProgress /\ NeverDowngraded
  BY NoCommandIsAProcess
  DEF HandsOnDataset, ClaimsAreOnRows, RebuildProgress, NeverDowngraded, Matching, Rereading, Finishing
<1> QED BY <1>1, <1>2 DEF ClaimInv

LEMMA NextClaimInv == ClaimInv /\ [Next]_vars => ClaimInv'
<1> SUFFICES ASSUME ClaimInv, [Next]_vars
             PROVE  ClaimInv'
  OBVIOUS
<1>0. AuthorityTypes /\ HandsOnDataset /\ ClaimsAreOnRows /\ RebuildProgress /\ NeverDowngraded
  BY DEF ClaimInv
<1>t. sidecars \in Seq(Dats) /\ cur \in Process /\ objects \subseteq Content /\ rows \subseteq Range(sidecars)
  BY <1>0 DEF AuthorityTypes
<1>s. Range(sidecars) \subseteq Dats
  BY <1>t, RangeOfSidecars
<1>p. /\ \A d \in Dats : /\ [NoCommand EXCEPT !.dataset = d] \in Process
                         /\ [NoCommand EXCEPT !.dataset = d].dataset = d
                         /\ ~[NoCommand EXCEPT !.dataset = d].rebuild
  BY NoCommandIsAProcess DEF Process
<1> USE DEF vars, files, index, Idle, Rereading, Matching, Finishing
<1>1. ASSUME NEW o \in Roms, Ingest(o)
      PROVE  ClaimInv'
  BY <1>0, <1>1
  DEF Ingest, ClaimInv, AuthorityTypes, Content, HandsOnDataset, ClaimsAreOnRows, RebuildProgress,
      NeverDowngraded, Owned, Of, Adapter, Reread, Seen, Claimed
<1>2. ASSUME NEW d \in Dats, Import(d)
      PROVE  ClaimInv'
  <2> USE <1>2 DEF Import
  <2>1. cur' \in Process /\ ~cur'.rebuild /\ (pc' = "idle" \/ (pc' = "metadata" /\ cur'.dataset = d))
    BY <1>p, NoCommandIsAProcess DEF Return
  <2>2. AuthorityTypes' /\ HandsOnDataset' /\ RebuildProgress'
    BY <1>0, <2>1 DEF AuthorityTypes, Content, Labels, HandsOnDataset, RebuildProgress
  <2>3. ClaimsAreOnRows' /\ NeverDowngraded'
    BY <1>0, ClaimsStand
  <2> QED BY <2>2, <2>3 DEF ClaimInv
<1>3. CASE WriteMetadata
  <2> USE <1>3 DEF WriteMetadata
  <2>1. cur.dataset \in Dats /\ ~cur.rebuild
    BY <1>0 DEF HandsOnDataset
  <2>2. /\ cur' \in Process /\ ~cur'.rebuild
        /\ sidecars' \in Seq(Dats) /\ Range(sidecars) \subseteq Range(sidecars')
        /\ \/ pc' = "idle"
           \/ pc' = "insert" /\ cur'.dataset \in Range(sidecars') \ rows /\ cur'.dataset \in Dats
    <3>1. CASE cur.dataset \in Range(sidecars)
      BY <1>t, <3>1, NoCommandIsAProcess DEF Return
    <3>2. CASE cur.dataset \notin Range(sidecars)
      BY <1>t, <2>1, <3>2, RangeOfSidecars DEF Goto
    <3> QED BY <3>1, <3>2
  <2>3. AuthorityTypes' /\ HandsOnDataset' /\ RebuildProgress'
    <3>1. AuthorityTypes'
      BY <1>0, <2>2 DEF AuthorityTypes, Labels
    <3>2. HandsOnDataset'
      BY <2>2 DEF HandsOnDataset
    <3>3. RebuildProgress'
      BY <2>2 DEF RebuildProgress
    <3> QED BY <3>1, <3>2, <3>3
  <2>4. ClaimsAreOnRows' /\ NeverDowngraded'
    BY <1>0, ClaimsStand
  <2> QED BY <2>3, <2>4 DEF ClaimInv
<1>4. CASE InsertDataset
  <2> DEFINE d == cur.dataset
  <2>0. pc = "insert"
    BY <1>4 DEF InsertDataset
  <2>1. d \in Dats /\ ~cur.rebuild /\ d \in Range(sidecars) \ rows
    BY <1>0, <2>0 DEF HandsOnDataset
  <2>2. /\ rows' \in {rows, rows \cup {d}} /\ UNCHANGED <<objects, sidecars, observations, assertions>>
        /\ records' \in {records, Inserted(records, d, RecordsOf[d])}
        /\ (pc' = "clear" /\ cur' = cur /\ d \in rows') \/ (pc' = "idle" /\ cur' = NoCommand)
    BY <1>4, DatsAssumption DEF InsertDataset, Goto, Return
  <2> HIDE DEF d
  <2>3. AuthorityTypes' /\ HandsOnDataset' /\ RebuildProgress'
    BY <1>0, <1>t, <2>1, <2>2, NoCommandIsAProcess
    DEF AuthorityTypes, Labels, HandsOnDataset, RebuildProgress, d
  <2>4. \A x : x # d => Owned(x)' = Owned(x)
    BY <2>2 DEF Owned, Inserted
  <2>5. ClaimsAreOnRows' /\ NeverDowngraded'
    BY <1>0, <2>1, <2>2, <2>4 DEF ClaimsAreOnRows, NeverDowngraded
  <2> QED BY <2>3, <2>5 DEF ClaimInv
<1>5. CASE MatchAll
  <2> USE <1>5 DEF MatchAll
  <2>1. /\ cur' \in Process /\ cur'.rebuild = cur.rebuild /\ cur'.dataset = cur.dataset
        /\ cur'.todo = objects /\ cur'.objects = objects
    BY <1>t DEF Process
  <2>2. AuthorityTypes' /\ HandsOnDataset'
    BY <1>0, <2>1 DEF AuthorityTypes, Labels, HandsOnDataset
  <2>3. RebuildProgress'
    BY <1>0, <2>1 DEF RebuildProgress
  <2>4. ClaimsAreOnRows' /\ NeverDowngraded'
    <3>1. assertions' \subseteq assertions
      OBVIOUS
    <3> QED BY <1>0, <3>1, ClaimsStand
  <2> QED BY <2>2, <2>3, <2>4 DEF ClaimInv
<1>6. CASE MatchNext
  <2>0. PICK D : D = IF cur.rebuild THEN Of("TOSEC", rows) ELSE {cur.dataset}
    OBVIOUS
  <2>c. PICK o \in cur.todo : o = CHOOSE x \in cur.todo : TRUE
    BY <1>6 DEF MatchNext
  <2>1. /\ pc = "match"
        /\ assertions' = assertions \cup TosecClaims(o, D)
        /\ cur' = [cur EXCEPT !.todo = @ \ {o}]
        /\ UNCHANGED <<files, rows, records, derived, pc>>
    BY <1>6, <2>0, <2>c DEF MatchNext
  <2>2. D \subseteq rows
    BY <1>0, <2>0, <2>1 DEF HandsOnDataset, Of
  <2>3. /\ cur' \in Process /\ cur'.rebuild = cur.rebuild /\ cur'.dataset = cur.dataset
        /\ cur'.todo = cur.todo \ {o} /\ cur'.objects = cur.objects
    BY <1>t, <2>1 DEF Process
  <2>4. AuthorityTypes' /\ HandsOnDataset'
    BY <1>0, <2>1, <2>3 DEF AuthorityTypes, Labels, HandsOnDataset
  <2>5. /\ ClaimsAreOnRows' /\ NeverDowngraded'
        /\ \A d \in D : Claimed("TOSEC", o, d)'
    BY <1>0, <2>1, <2>2, TosecClaimsStand
  <2>6. RebuildProgress'
    <3> SUFFICES ASSUME cur.rebuild, NEW x \in cur.objects, x \notin cur.todo \ {o}, NEW d \in Of("TOSEC", rows)
                 PROVE  Claimed("TOSEC", x, d)'
      BY <1>0, <2>1, <2>3 DEF RebuildProgress, Of
    <3>1. CASE x = o
      BY <2>0, <2>5, <3>1
    <3>2. CASE x # o
      <4>1. Claimed("TOSEC", x, d)
        BY <1>0, <2>1, <3>2 DEF RebuildProgress
      <4> QED BY <2>1, <4>1, ClaimedStands
    <3> QED BY <3>1, <3>2
  <2> QED BY <2>4, <2>5, <2>6 DEF ClaimInv
<1>7. CASE MatchDone
  <2> USE <1>7 DEF MatchDone
  <2>1. \/ pc' = "redump" /\ cur' = cur /\ cur.rebuild
        \/ pc' = "idle" /\ cur' = NoCommand
    BY DEF Goto, Return
  <2>2. AuthorityTypes' /\ HandsOnDataset'
    BY <1>0, <2>1, NoCommandIsAProcess DEF AuthorityTypes, Labels, HandsOnDataset
  <2>3. RebuildProgress'
    BY <1>0, <2>1, NoCommandIsAProcess DEF RebuildProgress, Claimed, Of
  <2>4. ClaimsAreOnRows' /\ NeverDowngraded'
    BY <1>0, ClaimsStand
  <2> QED BY <2>2, <2>3, <2>4 DEF ClaimInv
<1>8. ASSUME NEW o, NEW D, Match(o, D)
      PROVE  ClaimInv'
  <2> USE <1>8 DEF Match
  <2>1. D \subseteq rows
    BY DEF Of
  <2>2. AuthorityTypes' /\ HandsOnDataset'
    BY <1>0 DEF AuthorityTypes, HandsOnDataset
  <2>3. RebuildProgress'
    BY <1>0 DEF RebuildProgress
  <2>4. ClaimsAreOnRows' /\ NeverDowngraded'
    BY <1>0, <2>1, TosecClaimsStand
  <2> QED BY <2>2, <2>3, <2>4 DEF ClaimInv
<1>9. ASSUME NEW o \in Content, ObserveComponents(o) \/ ObserveDisc(o)
      PROVE  ClaimInv'
  <2>1. /\ UNCHANGED <<objects, sidecars, rows, records, assertions>>
        /\ pc' \in {"components", "disc"}
        /\ \A s \in observations' : s \in observations \/ s.by \in {"COMPONENT", "OPTICAL"}
    <3>1. CASE ObserveComponents(o)
      <4>1. observations' = observations \cup {[by |-> "COMPONENT", object |-> o, dataset |-> d] :
                                               d \in Of("COMPONENT", rows)}
        BY <3>1 DEF ObserveComponents
      <4> QED BY <3>1, <4>1 DEF ObserveComponents
    <3>2. CASE ObserveDisc(o)
      BY <3>2 DEF ObserveDisc, Recorded
    <3> QED BY <1>9, <3>1, <3>2
  <2>2. cur' \in Process /\ ~cur'.rebuild
    <3>1. CASE ObserveComponents(o)
      BY <3>1, <1>9, NoCommandIsAProcess DEF ObserveComponents, Process
    <3>2. CASE ObserveDisc(o)
      <4>1. PICK d \in Of("REDUMP", rows), scoped \in BOOLEAN :
                cur' = [NoCommand EXCEPT !.dataset = d, !.objects = {o}, !.todo = IF scoped THEN {d} ELSE rows]
        BY <3>2 DEF ObserveDisc
      <4>2. PICK T \in SUBSET Content : T = IF scoped THEN {d} ELSE rows
        BY <1>t, <1>s DEF Of, Content
      <4>3. cur' = [NoCommand EXCEPT !.dataset = d, !.objects = {o}, !.todo = T] /\ d \in Dats
        BY <1>t, <1>s, <4>1, <4>2 DEF Of
      <4> QED BY <4>3, NoCommandIsAProcess DEF Process
    <3> QED BY <1>9, <3>1, <3>2
  <2>3. AuthorityTypes' /\ HandsOnDataset' /\ RebuildProgress'
    BY <1>0, <2>1, <2>2 DEF AuthorityTypes, Labels, HandsOnDataset, RebuildProgress
  <2>4. ClaimsAreOnRows' /\ NeverDowngraded'
    BY <1>0, <2>1, ClaimsStand
  <2> QED BY <2>3, <2>4 DEF ClaimInv
<1>10. CASE AssertComponents \/ AssertDisc
  <2>1. /\ UNCHANGED <<files, rows, records, derived>>
        /\ pc' = "idle" /\ cur' = NoCommand
    BY <1>10 DEF AssertComponents, AssertDisc, Return
  <2>2. \A a \in assertions' : a \in assertions \/ a.by # "TOSEC"
    <3>1. CASE AssertComponents
      <4>1. PICK seen : assertions' = assertions \cup ComponentClaims(seen)
        BY <3>1 DEF AssertComponents
      <4>2. \A a \in ComponentClaims(seen) :
                \E s \in seen : a = MatchComponent(s.dataset, s.object, Listed({s.dataset}, derived))
        BY DEF ComponentClaims
      <4>3. \A a \in ComponentClaims(seen) : a.by = "COMPONENT"
        <5> TAKE a \in ComponentClaims(seen)
        <5>1. PICK s \in seen : a = MatchComponent(s.dataset, s.object, Listed({s.dataset}, derived))
          BY <4>2
        <5> QED BY <5>1, OtherClaims
      <4> QED BY <4>1, <4>3
    <3>2. CASE AssertDisc
      <4>1. PICK R : assertions' = assertions \cup {MatchDisc(cur.dataset, o, R) : o \in cur.objects}
        BY <3>2 DEF AssertDisc
      <4> QED BY <4>1, OtherClaims
    <3> QED BY <1>10, <3>1, <3>2
  <2>3. AuthorityTypes' /\ HandsOnDataset' /\ RebuildProgress'
    BY <1>0, <2>1, NoCommandIsAProcess DEF AuthorityTypes, Labels, HandsOnDataset, RebuildProgress
  <2>4. ClaimsAreOnRows' /\ NeverDowngraded'
    BY <1>0, <2>1, <2>2, ClaimsStand
  <2> QED BY <2>3, <2>4 DEF ClaimInv
<1>11. CASE DeleteIndex
  <2> USE <1>11 DEF DeleteIndex, Emptied
  <2>1. AuthorityTypes' /\ HandsOnDataset'
    BY <1>0 DEF AuthorityTypes, HandsOnDataset
  <2>2. RebuildProgress'
    BY <1>0 DEF RebuildProgress
  <2>3. ClaimsAreOnRows' /\ NeverDowngraded'
    BY DEF ClaimsAreOnRows, NeverDowngraded
  <2> QED BY <2>1, <2>2, <2>3 DEF ClaimInv
<1>12. CASE StartRebuild
  <2> USE <1>12 DEF StartRebuild, Emptied
  <2>1. cur' \in Process /\ cur'.rebuild /\ cur'.todo = Range(sidecars)
    <3>1. PICK T \in SUBSET Content : T = Range(sidecars)
      BY <1>s DEF Content
    <3>2. cur' = [NoCommand EXCEPT !.rebuild = TRUE, !.todo = T]
      BY <3>1
    <3> QED BY <3>1, <3>2, NoCommandIsAProcess DEF Process
  <2>2. AuthorityTypes' /\ HandsOnDataset' /\ RebuildProgress'
    BY <1>0, <2>1 DEF AuthorityTypes, Labels, HandsOnDataset, RebuildProgress
  <2>3. ClaimsAreOnRows' /\ NeverDowngraded'
    BY DEF ClaimsAreOnRows, NeverDowngraded
  <2> QED BY <2>2, <2>3 DEF ClaimInv
<1>13. CASE RebuildRow
  <2> USE <1>13 DEF RebuildRow
  <2>1. cur.rebuild /\ assertions = {} /\ derived = {} /\ Range(sidecars) = rows \cup cur.todo
    BY <1>0 DEF HandsOnDataset, RebuildProgress
  <2>2. NextId \in cur.todo
    BY <1>s, <2>1, FirstIsOne DEF NextId
  <2>3. /\ cur' \in Process /\ cur'.rebuild
        /\ \/ pc' = "records" /\ cur'.dataset = NextId /\ cur'.todo = cur.todo
           \/ pc' = "row" /\ cur'.todo = cur.todo \ {NextId}
    BY <1>t, <1>s, <2>1, <2>2 DEF Process
  <2>4. AuthorityTypes' /\ HandsOnDataset' /\ RebuildProgress'
    BY <1>0, <2>1, <2>2, <2>3 DEF AuthorityTypes, Labels, HandsOnDataset, RebuildProgress
  <2>5. ClaimsAreOnRows' /\ NeverDowngraded'
    BY <2>1 DEF ClaimsAreOnRows, NeverDowngraded
  <2> QED BY <2>4, <2>5 DEF ClaimInv
<1>14. CASE RebuildRecords
  <2> USE <1>14 DEF RebuildRecords
  <2>1. /\ cur.rebuild /\ assertions = {} /\ derived = {} /\ Range(sidecars) = rows \cup cur.todo
        /\ cur.dataset \in rows
    BY <1>0 DEF HandsOnDataset, RebuildProgress
  <2>2. cur' \in Process /\ cur'.rebuild /\ cur'.todo = cur.todo \ {cur.dataset}
    BY <1>t, <2>1 DEF Process
  <2>3. AuthorityTypes' /\ HandsOnDataset' /\ RebuildProgress'
    BY <1>0, <2>1, <2>2 DEF AuthorityTypes, Labels, HandsOnDataset, RebuildProgress
  <2>4. ClaimsAreOnRows' /\ NeverDowngraded'
    BY <2>1 DEF ClaimsAreOnRows, NeverDowngraded
  <2> QED BY <2>3, <2>4 DEF ClaimInv
<1>15. CASE RowsDone
  <2> USE <1>15 DEF RowsDone, Goto
  <2>1. AuthorityTypes' /\ HandsOnDataset' /\ RebuildProgress'
    BY <1>0 DEF AuthorityTypes, Labels, HandsOnDataset, RebuildProgress
  <2>2. ClaimsAreOnRows' /\ NeverDowngraded'
    BY <1>0, ClaimsStand
  <2> QED BY <2>1, <2>2 DEF ClaimInv
<1>16. CASE RebuildRedump
  <2>1. PICK S \in SUBSET Seen("OPTICAL") :
          /\ pc' = "idle" \/ S = Seen("OPTICAL")
          /\ assertions' = assertions \cup
                 {MatchDisc(s.dataset, s.object, Listed({s.dataset}, derived')) : s \in S}
    BY <1>16 DEF RebuildRedump, Return
  <2>2. /\ pc = "redump"
        /\ UNCHANGED <<files, rows, records>>
        /\ \/ pc' = "idle" /\ cur' = NoCommand
           \/ pc' = "additional" /\ cur' = cur /\ derived' = derived \cup Adapter("REDUMP")
    BY <1>16, ParsableIsAll DEF RebuildRedump, Goto, Return
  <2>c. \A s \in S : \E a \in assertions' : a.by = "OPTICAL" /\ a.object = s.object /\ a.dataset = s.dataset
    <3> TAKE s \in S
    <3>1. PICK a \in assertions' :
              a = MatchDisc(s.dataset, s.object, Listed({s.dataset}, derived'))
      BY <2>1
    <3> QED BY <3>1, OtherClaims
  <2>o. \A a \in assertions' : a \in assertions \/ a.by # "TOSEC"
    <3> SUFFICES ASSUME NEW a \in assertions', a \notin assertions PROVE a.by # "TOSEC"
      OBVIOUS
    <3>1. PICK s \in S :
              a = MatchDisc(s.dataset, s.object, Listed({s.dataset}, derived'))
      BY <2>1
    <3> QED BY <3>1, OtherClaims
  <2>3. AuthorityTypes' /\ HandsOnDataset'
    BY <1>0, <2>2, NoCommandIsAProcess DEF AuthorityTypes, Labels, HandsOnDataset
  <2>4. ClaimsAreOnRows' /\ NeverDowngraded'
    BY <1>0, <2>2, <2>o, ClaimsStand
  <2>5. RebuildProgress'
    <3> SUFFICES ASSUME pc' = "additional", cur' = cur, cur.rebuild
                 PROVE  RebuildProgress'
      BY <2>2, NoCommandIsAProcess DEF RebuildProgress
    <3>1. \A s \in Seen("OPTICAL") : Claimed("OPTICAL", s.object, s.dataset)'
      BY <2>1, <2>c DEF Claimed
    <3>2. derived' = Adapter("REDUMP")
      BY <1>0, <2>2 DEF RebuildProgress
    <3>3. /\ rows = Range(sidecars)
          /\ \A o \in cur.objects, d \in Of("TOSEC", rows) : Claimed("TOSEC", o, d)'
      BY <1>0, <2>1, <2>2, ClaimedStands DEF RebuildProgress
    <3> QED BY <2>2, <3>1, <3>2, <3>3 DEF RebuildProgress, Of, Adapter, Reread, Seen
  <2> QED BY <2>3, <2>4, <2>5 DEF ClaimInv
<1>17. CASE RebuildComponents
  <2> USE <1>17 DEF RebuildComponents, Return
  <2>1. AuthorityTypes' /\ HandsOnDataset' /\ RebuildProgress'
    BY <1>0, NoCommandIsAProcess DEF AuthorityTypes, Labels, HandsOnDataset, RebuildProgress
  <2>2. ClaimsAreOnRows' /\ NeverDowngraded'
    BY <1>0, OtherClaims, ClaimsStand
  <2> QED BY <2>1, <2>2 DEF ClaimInv
<1>18. CASE Crash
  <2> USE <1>18 DEF Crash, Return
  <2>1. AuthorityTypes' /\ HandsOnDataset' /\ RebuildProgress'
    BY <1>0, NoCommandIsAProcess DEF AuthorityTypes, Labels, HandsOnDataset, RebuildProgress
  <2>2. ClaimsAreOnRows' /\ NeverDowngraded'
    BY <1>0, ClaimsStand
  <2> QED BY <2>1, <2>2 DEF ClaimInv
<1>19. CASE UNCHANGED vars
  BY <1>0, <1>19
  DEF ClaimInv, AuthorityTypes, Content, HandsOnDataset, ClaimsAreOnRows, RebuildProgress,
      NeverDowngraded, Owned, Of, Adapter, Reread, Seen, Claimed
<1>20. Asked \subseteq Content
  BY DatsAssumption DEF Content
<1> QED BY <1>1, <1>2, <1>3, <1>4, <1>5, <1>6, <1>7, <1>8, <1>9, <1>10, <1>11, <1>12, <1>13, <1>14, <1>15,
           <1>16, <1>17, <1>18, <1>19, <1>20 DEF Next

THEOREM ClaimInvariant == Spec => []ClaimInv
BY InitClaimInv, NextClaimInv, PTL DEF Spec

-----------------------------------------------------------------------------
(* match and _match of the TOSEC adapter: a claim is never an exact match  *)
(* of a record with another strong hash, nor a conflict where the dataset  *)
(* holds the strong hash of the object; whatever is imported, killed,      *)
(* deleted or rebuilt.                                                     *)
THEOREM MatchesAreNotDowngraded == Spec => []NeverDowngraded
<1>1. ClaimInv => NeverDowngraded
  BY DEF ClaimInv
<1> QED BY <1>1, ClaimInvariant, PTL

(* rebuild: one that ends has made good whatever a killed command left.    *)
THEOREM RebuildsMakeGood == Spec => RebuildMakesGood
<1>1. ClaimInv /\ [Next]_vars => [RebuildComponents => Restored]_vars
  <2> SUFFICES ASSUME ClaimInv, RebuildComponents
               PROVE  Restored
    OBVIOUS
  <2> USE DEF RebuildComponents
  <2>0. AuthorityTypes /\ HandsOnDataset /\ RebuildProgress
    BY DEF ClaimInv
  <2>1. /\ rows = Range(sidecars)
        /\ \A o \in cur.objects, d \in Of("TOSEC", rows) : Claimed("TOSEC", o, d)
        /\ derived = Adapter("REDUMP")
        /\ \A s \in Seen("OPTICAL") : Claimed("OPTICAL", s.object, s.dataset)
    BY <2>0 DEF HandsOnDataset, RebuildProgress, Finishing
  <2>2. \A o \in cur.objects, d \in Of("TOSEC", rows) :
            \E a \in assertions' : a.by = "TOSEC" /\ a.object = o /\ a.dataset = d
    BY <2>1 DEF Claimed
  <2>3. ASSUME NEW s \in observations
        PROVE  \E a \in assertions' : a.by = s.by /\ a.object = s.object /\ a.dataset = s.dataset
    <3>1. CASE s.by = "OPTICAL"
      BY <2>1, <3>1 DEF Claimed, Seen
    <3>2. CASE s.by = "COMPONENT"
      <4>1. MatchComponent(s.dataset, s.object, RereadOf[s.dataset]) \in assertions'
        BY <3>2 DEF Seen
      <4> QED BY <3>2, <4>1, OtherClaims
    <3> QED BY <2>0, <3>1, <3>2 DEF AuthorityTypes
  <2> QED BY <2>1, <2>2, <2>3 DEF Restored
<1> QED BY <1>1, ClaimInvariant, PTL DEF Spec, RebuildMakesGood

-----------------------------------------------------------------------------
(* The index is disposable.  What a rebuild reads again is what the import *)
(* read, when no member of a plain file was named at its import: a plain   *)
(* file has one name at its import and another in the archive.  For the    *)
(* same reason the layouts of a plain CUE sheet are not read again.        *)
PlainDatsAreWhole == \A d \in Dats : d \in Zipped \/ Members[d] = {}

Note(by, o, d) == [by |-> by, object |-> o, dataset |-> d]

(* The files refer to one another.                                         *)
FilesHold ==
    /\ Range(sidecars) \subseteq objects
    /\ \A s \in observations :
        /\ s.object \in objects /\ s = Note(s.by, s.object, s.dataset)
        /\ s.dataset \in Of(IF s.by = "COMPONENT" THEN "COMPONENT" ELSE "REDUMP", Range(sidecars))

(* The tables hold what datasets of the index list.                        *)
TablesHold ==
    /\ \A r \in DOMAIN records :
        records[r] \in Of("TOSEC", rows) \ Broken /\ r \in RecordsOf[records[r]]
    /\ \A e \in derived :
        /\ e[1] \in rows /\ KindOf[e[1]] # "TOSEC"
        /\ e[1] \in Plain \/ e[2] \in RecordsOf[e[1]]

(* No claim is left hanging.                                               *)
Hangs(a) ==
    \/ a.dataset \notin rows \/ a.object \notin objects
    \/ a.result = "EXACT_MATCH" /\ a.record \notin Known
ClaimsHold == \A a \in assertions : ~Hangs(a)

(* What the command in hand is about to insert or assert.                  *)
HandsHold ==
    /\ pc \in {"idle", "metadata", "insert", "components", "disc"} => ~cur.rebuild
    /\ pc \in {"metadata", "insert"} =>
        cur.dataset \in objects /\ (KindOf[cur.dataset] = "TOSEC" \/ cur.dataset \notin Broken)
    /\ pc = "records" => KindOf[cur.dataset] = "TOSEC"
    /\ pc \in {"match", "components", "disc"} => cur.objects \subseteq objects
    /\ pc = "match" => cur.todo \subseteq cur.objects
    /\ pc = "components" =>
        \A o \in cur.objects, d \in Of("COMPONENT", rows) : Note("COMPONENT", o, d) \in observations
    /\ pc = "disc" =>
        /\ cur.dataset \in Of("REDUMP", rows) /\ cur.dataset \in cur.todo /\ cur.todo \subseteq rows
        /\ \A o \in cur.objects : Note("OPTICAL", o, cur.dataset) \in observations

(* A rebuild would claim the same, unless the claim rests on several       *)
(* datasets.                                                               *)
SeveralDiscs == \E d, e \in Of("REDUMP", Range(sidecars)) : d # e
Lists(d) == IF d \in Broken THEN {} ELSE RecordsOf[d]
Borne(a) ==
    \/ /\ a.by = "TOSEC"
       /\ \/ KindOf[a.dataset] # "TOSEC" \/ Sharing(a.dataset)
          \/ a = MatchTosec(a.dataset, a.object, Lists(a.dataset))
    \/ /\ a.by = "COMPONENT" /\ Note("COMPONENT", a.object, a.dataset) \in observations
       /\ a = MatchComponent(a.dataset, a.object, RecordsOf[a.dataset])
    \/ /\ a.by = "OPTICAL"
       /\ \/ SeveralDiscs \/ a.dataset \in Plain
          \/ /\ Note("OPTICAL", a.object, a.dataset) \in observations
             /\ a = MatchDisc(a.dataset, a.object, RecordsOf[a.dataset])

(* Unless a rebuild stopped half-way, the tables are complete, but for the *)
(* dataset in hand and for what a rebuild has yet to read.                 *)
Trusted == ~cut \/ cur.rebuild
TosecListed == \A d \in Of("TOSEC", rows) \ Broken :
    \/ Sharing(d) \/ Owned(d) = RecordsOf[d]
    \/ pc = "records" /\ cur.dataset = d
OthersListed == ~cur.rebuild =>
    \A d \in rows \ Plain : KindOf[d] # "TOSEC" => {d} \X RecordsOf[d] \subseteq derived
Complete == Trusted => TosecListed /\ OthersListed /\ \A a \in assertions : Borne(a)

IndexInv == FilesHold /\ TablesHold /\ ClaimsHold /\ HandsHold /\ Complete
(* A rebuild reads what the import read.                                   *)
LEMMA RereadsTheSame == PlainDatsAreWhole => \A d \in Dats \ Plain : RereadOf[d] = RecordsOf[d]
<1> SUFFICES ASSUME PlainDatsAreWhole, NEW d \in Dats \ Plain PROVE RereadOf[d] = RecordsOf[d]
  OBVIOUS
<1>1. Wanted(d, "master") = Wanted(d, FileName(d))
  BY DEF PlainDatsAreWhole, Wanted
<1>2. ReadFrom(d, Selected(d, "master")) = ReadFrom(d, Selected(d, FileName(d)))
  BY <1>1 DEF Selected
<1> QED BY <1>2 DEF RereadOf, RecordsOf

(* An exact match names one of the records it was sought in.               *)
LEMMA VerdictRecord ==
    ASSUME NEW by, NEW d, NEW o, NEW C, NEW none, none # "EXACT_MATCH",
           Verdict(by, d, o, C, none).result = "EXACT_MATCH"
    PROVE  Verdict(by, d, o, C, none).record \in C
<1> DEFINE a == Verdict(by, d, o, C, none)
<1>1. CASE Cardinality(C) = 1
  <2>1. (CHOOSE r \in C : TRUE) \in C
    BY <1>1, FS_EmptySet
  <2>2. a = Claim(by, d, o, "EXACT_MATCH", CHOOSE r \in C : TRUE)
    BY <1>1 DEF Verdict
  <2> HIDE DEF a
  <2> QED BY <2>1, <2>2 DEF Claim, a
<1>2. CASE Cardinality(C) # 1
  <2>1. a = Claim(by, d, o, IF C = {} THEN none ELSE "AMBIGUOUS", None)
    BY <1>2 DEF Verdict
  <2> HIDE DEF a
  <2> QED BY <2>1 DEF Claim, a
<1> QED BY <1>1, <1>2

LEMMA MatchedRecord ==
    ASSUME NEW d, NEW o, NEW R,
           NEW a \in {MatchTosec(d, o, R), MatchComponent(d, o, R), MatchDisc(d, o, R)},
           a.result = "EXACT_MATCH"
    PROVE  a.record \in R
<1>1. CASE a = MatchTosec(d, o, R)
  <2> DEFINE found == Fallback(R, o)
             C == found \ Rejected(found, o)
             none == IF Rejected(found, o) = {} THEN "NO_MATCH" ELSE "CONFLICT"
  <2>1. C \subseteq R
    BY DEF Fallback
  <2>2. a = Verdict("TOSEC", d, o, C, none)
    BY <1>1 DEF MatchTosec
  <2>3. none # "EXACT_MATCH"
    OBVIOUS
  <2> HIDE DEF C, none
  <2> QED BY <2>1, <2>2, <2>3, VerdictRecord
<1>2. CASE a = MatchComponent(d, o, R)
  <2>1. Fallback(R, o) \subseteq R
    BY DEF Fallback
  <2>2. a = Verdict("COMPONENT", d, o, Fallback(R, o), "NO_MATCH")
    BY <1>2 DEF MatchComponent
  <2> QED BY <2>1, <2>2, VerdictRecord
<1>3. CASE a = MatchDisc(d, o, R)
  <2> DEFINE C == {r \in {r \in R : r.weak = Weak[o]} : r.strong \in {None, o}}
             none == IF \A r \in R : r.weak = None THEN "NOT_APPLICABLE" ELSE "CONFLICT"
  <2>1. C \subseteq R /\ none # "EXACT_MATCH"
    OBVIOUS
  <2>2. a = Verdict("OPTICAL", d, o, C, none)
    BY <1>3 DEF MatchDisc
  <2> HIDE DEF C, none
  <2> QED BY <2>1, <2>2, VerdictRecord
<1> QED BY <1>1, <1>2, <1>3

(* What stays true as the archive grows.                                   *)
LEMMA BorneStands ==
    ASSUME Range(sidecars) \subseteq Range(sidecars'), observations \subseteq observations',
           NEW a, Borne(a)
    PROVE  Borne(a)'
<1>1. Sharing(a.dataset) => Sharing(a.dataset)'
  BY DEF Sharing, Of
<1>2. SeveralDiscs => SeveralDiscs'
  BY DEF SeveralDiscs, Of
<1> QED BY <1>1, <1>2 DEF Borne, Lists

LEMMA SharingStands ==
    ASSUME Range(sidecars) \subseteq Range(sidecars'), NEW d, Sharing(d)
    PROVE  Sharing(d)'
BY DEF Sharing, Of

LEMMA HangsNot ==
    ASSUME rows \subseteq rows', objects \subseteq objects', derived \subseteq derived',
           DOMAIN records \subseteq DOMAIN records', NEW a, ~Hangs(a)
    PROVE  ~Hangs(a)'
<1>1. Known \subseteq Known'
  BY DEF Known, Listed
<1> QED BY <1>1 DEF Hangs

LEMMA HoldsDerived ==
    ASSUME TablesHold
    PROVE  /\ \A e \in derived : e[2] \in Known
           /\ \A d : Owned(d) \subseteq Known /\ (d \in Broken => Owned(d) = {})
           /\ \A D : Listed(D, derived) \subseteq Known
<1>1. \A e \in derived : e[2] \in Known
  BY DEF TablesHold, Known, Listed
<1>2. \A d : Owned(d) \subseteq Known /\ (d \in Broken => Owned(d) = {})
  BY DEF TablesHold, Known, Owned, Of
<1>3. \A D : Listed(D, derived) \subseteq Known
  BY <1>1 DEF Listed
<1> QED BY <1>1, <1>2, <1>3

(* Steps that leave the tables as they are and add claims, if any, on what *)
(* is there.                                                               *)
LEMMA IndexStands ==
    ASSUME IndexInv, rows' = rows, records' = records, derived' = derived,
           objects \subseteq objects',
           Range(sidecars) \subseteq Range(sidecars'), observations \subseteq observations',
           Trusted' => /\ Trusted /\ (cur'.rebuild <=> cur.rebuild)
                       /\ pc = "records" => UNCHANGED <<pc, cur>>,
           \A a \in assertions' : a \in assertions \/ (~Hangs(a) /\ (Trusted => Borne(a)))
    PROVE  TablesHold' /\ ClaimsHold' /\ Complete'
<1>0. TablesHold /\ ClaimsHold /\ Complete
  BY DEF IndexInv
<1>1. TablesHold'
  BY <1>0 DEF TablesHold, Of
<1>2. ClaimsHold'
  <2> SUFFICES ASSUME NEW a \in assertions' PROVE ~Hangs(a)'
    BY DEF ClaimsHold
  <2>1. ~Hangs(a)
    BY <1>0 DEF ClaimsHold
  <2> QED BY <2>1, HangsNot
<1>3. ASSUME Trusted'
      PROVE  TosecListed' /\ OthersListed' /\ \A a \in assertions' : Borne(a)'
  <2>0. /\ Trusted /\ (cur'.rebuild <=> cur.rebuild)
        /\ pc = "records" => UNCHANGED <<pc, cur>>
    BY <1>3
  <2>1. TosecListed /\ OthersListed /\ \A a \in assertions : Borne(a)
    BY <1>0, <2>0 DEF Complete
  <2>2. TosecListed'
    <3> SUFFICES ASSUME NEW d \in Of("TOSEC", rows) \ Broken
                 PROVE  \/ Sharing(d)' \/ Owned(d)' = RecordsOf[d]
                        \/ pc' = "records" /\ cur'.dataset = d
      BY DEF TosecListed, Of
    <3>1. CASE Sharing(d)
      BY <3>1, SharingStands
    <3>2. CASE Owned(d) = RecordsOf[d]
      BY <3>2 DEF Owned
    <3> QED BY <2>0, <2>1, <3>1, <3>2 DEF TosecListed
  <2>3. OthersListed'
    BY <2>0, <2>1 DEF OthersListed
  <2>4. ASSUME NEW a \in assertions' PROVE Borne(a)'
    BY <2>0, <2>1, BorneStands
  <2> QED BY <2>2, <2>3, <2>4
<1> QED BY <1>1, <1>2, <1>3 DEF Complete

(* _insert_records: what a dataset lists is its own, but for the records   *)
(* that another dataset lists too.                                         *)
LEMMA RecordsInserted ==
    ASSUME TablesHold, AuthorityTypes, UNCHANGED sidecars,
           rows \subseteq rows', rows' \subseteq Range(sidecars),
           NEW d \in Of("TOSEC", rows') \ Broken, records' = Inserted(records, d, RecordsOf[d])
    PROVE  /\ DOMAIN records \subseteq DOMAIN records'
           /\ \A r \in DOMAIN records' :
                  records'[r] \in Of("TOSEC", rows') \ Broken /\ r \in RecordsOf[records'[r]]
           /\ Sharing(d)' \/ Owned(d)' = RecordsOf[d]
           /\ \A e : e # d => Owned(e)' = Owned(e)
<1>1. /\ DOMAIN records' = DOMAIN records \cup RecordsOf[d]
      /\ \A r \in DOMAIN records' : records'[r] = IF r \in DOMAIN records THEN records[r] ELSE d
  BY DEF Inserted
<1>2. \A r \in DOMAIN records :
          records[r] \in Of("TOSEC", rows) \ Broken /\ r \in RecordsOf[records[r]]
  BY DEF TablesHold
<1>3. \A r \in DOMAIN records' :
          records'[r] \in Of("TOSEC", rows') \ Broken /\ r \in RecordsOf[records'[r]]
  BY <1>1, <1>2 DEF Of
<1>4. \A e : e # d => Owned(e)' = Owned(e)
  BY <1>1 DEF Owned
<1>5. ASSUME ~Sharing(d)' PROVE Owned(d)' = RecordsOf[d]
  <2>1. ASSUME NEW r \in RecordsOf[d], r \in DOMAIN records PROVE records[r] = d
    <3> SUFFICES ASSUME records[r] # d PROVE FALSE
      OBVIOUS
    <3>1. records[r] \in Of("TOSEC", Range(sidecars)) \ (Broken \cup {d})
      BY <1>2, <2>1 DEF Of
    <3>2. r \in RecordsOf[records[r]] \cap RecordsOf[d]
      BY <1>2, <2>1
    <3> QED BY <1>5, <3>1, <3>2 DEF Sharing
  <2>2. RecordsOf[d] \subseteq Owned(d)'
    BY <1>1, <2>1 DEF Owned
  <2>3. Owned(d)' \subseteq RecordsOf[d]
    BY <1>3 DEF Owned
  <2> QED BY <2>2, <2>3
<1> QED BY <1>1, <1>3, <1>4, <1>5

(* What the adapters read again is what their datasets list.               *)
LEMMA RereadingLists ==
    ASSUME PlainDatsAreWhole, NEW D \in SUBSET Dats
    PROVE  /\ \A e \in Reread(D) : e[1] \in D /\ (e[1] \in Plain \/ e[2] \in RecordsOf[e[1]])
           /\ \A d \in D \ Plain : {d} \X RecordsOf[d] \subseteq Reread(D)
<1>1. ASSUME NEW e \in Reread(D)
      PROVE  e[1] \in D /\ (e[1] \in Plain \/ e[2] \in RecordsOf[e[1]])
  <2>1. PICK d \in D : e \in {d} \X RereadOf[d]
    BY DEF Reread
  <2> QED BY <2>1, RereadsTheSame
<1>2. ASSUME NEW d \in D \ Plain PROVE {d} \X RecordsOf[d] \subseteq Reread(D)
  <2>1. {d} \X RereadOf[d] \subseteq Reread(D)
    BY DEF Reread
  <2> QED BY <2>1, RereadsTheSame
<1> QED BY <1>1, <1>2

LEMMA AdaptersList ==
    ASSUME PlainDatsAreWhole, Range(sidecars) \subseteq Dats, NEW kind
    PROVE  /\ \A e \in Adapter(kind) : /\ e[1] \in Of(kind, Range(sidecars))
                                       /\ e[1] \in Plain \/ e[2] \in RecordsOf[e[1]]
           /\ \A d \in Of(kind, Range(sidecars)) \ Plain : {d} \X RecordsOf[d] \subseteq Adapter(kind)
BY RereadingLists DEF Adapter, Of

LEMMA ListedIsAll ==
    ASSUME NEW d, NEW T, {d} \X RecordsOf[d] \subseteq T,
           \A e \in T : e[1] = d => e[2] \in RecordsOf[d]
    PROVE  Listed({d}, T) = RecordsOf[d]
<1>1. Listed({d}, T) \subseteq RecordsOf[d]
  BY DEF Listed
<1>2. ASSUME NEW r \in RecordsOf[d] PROVE r \in Listed({d}, T)
  <2>1. <<d, r>> \in T /\ <<d, r>>[1] = d /\ <<d, r>>[2] = r
    OBVIOUS
  <2> QED BY <2>1 DEF Listed
<1> QED BY <1>1, <1>2

(* A claim of the TOSEC matcher on what is there.                          *)
LEMMA TosecClaimIsBorne ==
    ASSUME IndexInv, pc # "records", NEW d \in rows, NEW o \in objects,
           NEW a, a = MatchTosec(d, o, Owned(d))
    PROVE  ~Hangs(a) /\ (Trusted => Borne(a))
<1>0. TablesHold /\ Complete
  BY DEF IndexInv
<1>1. a.by = "TOSEC" /\ a.dataset = d /\ a.object = o
  BY TosecClaim
<1>2. ~Hangs(a)
  <2>1. a.result = "EXACT_MATCH" => a.record \in Owned(d)
    BY MatchedRecord
  <2> QED BY <1>0, <1>1, <2>1, HoldsDerived DEF Hangs
<1>3. ASSUME Trusted, KindOf[d] = "TOSEC", ~Sharing(d) PROVE Owned(d) = Lists(d)
  <2>1. CASE d \in Broken
    BY <1>0, <2>1, HoldsDerived DEF Lists
  <2>2. CASE d \notin Broken
    BY <1>0, <1>3, <2>2 DEF Complete, TosecListed, Lists, Of
  <2> QED BY <2>1, <2>2
<1> QED BY <1>1, <1>2, <1>3 DEF Borne

(* A claim of the component or of the disc matcher on the records of one   *)
(* dataset, for which there is an observation.                             *)
LEMMA OtherClaimIsBorne ==
    ASSUME NEW d, NEW o,
           NEW a, \/ Note("COMPONENT", o, d) \in observations /\ a = MatchComponent(d, o, RecordsOf[d])
                  \/ Note("OPTICAL", o, d) \in observations /\ a = MatchDisc(d, o, RecordsOf[d])
    PROVE  /\ a.dataset = d /\ a.object = o /\ Borne(a)
           /\ a.result = "EXACT_MATCH" => a.record \in RecordsOf[d]
<1>1. a.dataset = d /\ a.object = o
  BY OtherClaims
<1>2. Borne(a)
  BY <1>1, OtherClaims DEF Borne
<1>3. a.result = "EXACT_MATCH" => a.record \in RecordsOf[d]
  BY MatchedRecord
<1> QED BY <1>1, <1>2, <1>3

-----------------------------------------------------------------------------
(* The inductive invariant of the index holds.                             *)
LEMMA InitIndexInv == Init => IndexInv
<1> SUFFICES ASSUME Init PROVE IndexInv
  OBVIOUS
<1> USE NoCommandIsAProcess DEF Init
<1>1. Range(sidecars) = {}
  BY DEF Range
<1>2. FilesHold /\ TablesHold /\ ClaimsHold /\ HandsHold /\ Complete
  BY <1>1 DEF FilesHold, TablesHold, ClaimsHold, HandsHold, Complete, TosecListed, OthersListed, Of
<1> QED BY <1>2 DEF IndexInv

LEMMA NextIndexInv ==
    ASSUME PlainDatsAreWhole, ClaimInv, IndexInv, [Next]_vars
    PROVE  IndexInv'
<1>0. FilesHold /\ TablesHold /\ ClaimsHold /\ HandsHold /\ Complete
  BY DEF IndexInv
<1>c. AuthorityTypes /\ HandsOnDataset /\ ClaimsAreOnRows /\ RebuildProgress
  BY DEF ClaimInv
<1>t. sidecars \in Seq(Dats) /\ cur \in Process /\ objects \subseteq Content /\ rows \subseteq Range(sidecars)
  BY <1>c DEF AuthorityTypes
<1>s. Range(sidecars) \subseteq Dats
  BY <1>t, RangeOfSidecars
<1>n. NoCommand.rebuild = FALSE
  BY NoCommandIsAProcess
<1> USE DEF vars, files, index, Idle, Rereading, Matching, Finishing
<1>1. ASSUME NEW o \in Roms, Ingest(o)
      PROVE  IndexInv'
  <2> USE <1>1 DEF Ingest
  <2>1. FilesHold' /\ HandsHold'
    BY <1>0 DEF FilesHold, HandsHold, Of
  <2> QED BY <2>1, IndexStands DEF IndexInv, Trusted
<1>2. ASSUME NEW d \in Dats, Import(d)
      PROVE  IndexInv'
  <2> USE <1>2 DEF Import
  <2>1. \/ pc' = "idle" /\ ~cur'.rebuild
        \/ pc' = "metadata" /\ ~cur'.rebuild /\ cur'.dataset = d /\ (d \notin Broken \/ KindOf[d] = "TOSEC")
    BY NoCommandIsAProcess DEF Return, Process
  <2>2. FilesHold' /\ HandsHold'
    BY <1>0, <2>1 DEF FilesHold, HandsHold
  <2>3. ~cur.rebuild
    BY <1>0 DEF HandsHold
  <2> QED BY <2>1, <2>2, <2>3, IndexStands DEF IndexInv, Trusted
<1>3. CASE WriteMetadata
  <2> USE <1>3 DEF WriteMetadata
  <2>1. cur.dataset \in Dats /\ ~cur.rebuild /\ cur.dataset \in objects
        /\ (KindOf[cur.dataset] = "TOSEC" \/ cur.dataset \notin Broken)
    BY <1>0, <1>c DEF HandsOnDataset, HandsHold
  <2>2. /\ (pc' = "idle" /\ ~cur'.rebuild) \/ (pc' = "insert" /\ cur' = cur)
        /\ Range(sidecars') \in {Range(sidecars), Range(sidecars) \cup {cur.dataset}}
    <3>1. CASE cur.dataset \in Range(sidecars)
      BY <1>n, <3>1 DEF Return
    <3>2. CASE cur.dataset \notin Range(sidecars)
      BY <1>t, <2>1, <3>2, RangeOfSidecars DEF Goto
    <3> QED BY <3>1, <3>2
  <2>3. FilesHold' /\ HandsHold'
    BY <1>0, <2>1, <2>2 DEF FilesHold, HandsHold, Of
  <2> QED BY <2>1, <2>2, <2>3, IndexStands DEF IndexInv, Trusted
<1>4. CASE InsertDataset
  <2>0. pc = "insert"
    BY <1>4 DEF InsertDataset
  <2>1. PICK d \in Dats : d = cur.dataset
    BY <1>c, <2>0 DEF HandsOnDataset
  <2>2. ~cur.rebuild /\ d \in Range(sidecars) \ rows /\ (KindOf[d] = "TOSEC" \/ d \notin Broken)
    BY <1>0, <1>c, <2>0, <2>1 DEF HandsOnDataset, HandsHold
  <2>n. CASE d \in Torn
    <3>1. /\ KindOf[d] = "REDUMP" /\ pc' = "idle" /\ cur' = NoCommand
          /\ UNCHANGED <<files, rows, records, derived, assertions, cut>>
      BY <1>4, <2>1, <2>n, DatsAssumption DEF InsertDataset, Return
    <3>2. FilesHold' /\ HandsHold'
      BY <1>0, <1>n, <3>1 DEF FilesHold, HandsHold
    <3>3. \A a \in assertions' : a \in assertions
      BY <3>1
    <3> QED BY <1>n, <2>0, <2>2, <3>1, <3>2, <3>3, IndexStands DEF IndexInv, Trusted
  <2> SUFFICES ASSUME d \notin Torn PROVE IndexInv'
    BY <2>n
  <2>3. /\ rows' = rows \cup {d} /\ UNCHANGED <<objects, sidecars, observations, assertions, cut>>
        /\ \/ d \in Broken /\ UNCHANGED <<records, derived>>
           \/ d \notin Broken /\ KindOf[d] = "TOSEC" /\ UNCHANGED derived
              /\ records' = Inserted(records, d, RecordsOf[d])
           \/ d \notin Broken /\ KindOf[d] # "TOSEC" /\ UNCHANGED records
              /\ derived' = derived \cup ({d} \X RecordsOf[d])
        /\ (pc' = "clear" /\ cur' = cur) \/ (pc' = "idle" /\ cur' = NoCommand)
    BY <1>4, <2>1, <2>2 DEF InsertDataset, Goto, Return
  <2>r. rows \subseteq rows' /\ rows' \subseteq Range(sidecars)
    BY <1>t, <2>2, <2>3
  <2>4. FilesHold' /\ HandsHold'
    BY <1>0, <1>n, <2>2, <2>3 DEF FilesHold, HandsHold
  <2>5. /\ DOMAIN records \subseteq DOMAIN records'
        /\ \A r \in DOMAIN records' :
               records'[r] \in Of("TOSEC", rows') \ Broken /\ r \in RecordsOf[records'[r]]
        /\ d \in Of("TOSEC", rows') \ Broken => Sharing(d)' \/ Owned(d)' = RecordsOf[d]
        /\ \A e : e # d => Owned(e)' = Owned(e)
    <3>1. CASE d \notin Broken /\ KindOf[d] = "TOSEC"
      <4>1. d \in Of("TOSEC", rows') \ Broken /\ records' = Inserted(records, d, RecordsOf[d])
        BY <2>3, <3>1 DEF Of
      <4> QED BY <1>0, <1>c, <2>3, <2>r, <4>1, RecordsInserted
    <3>2. CASE ~(d \notin Broken /\ KindOf[d] = "TOSEC")
      <4>1. records' = records /\ d \notin Of("TOSEC", rows') \ Broken
        BY <2>3, <3>2 DEF Of
      <4> QED BY <1>0, <2>r, <4>1 DEF TablesHold, Of, Owned
    <3> QED BY <3>1, <3>2
  <2>6. /\ derived \subseteq derived' /\ \A e \in derived' \ derived : e \in {d} \X RecordsOf[d]
        /\ derived' # derived => KindOf[d] # "TOSEC"
        /\ KindOf[d] # "TOSEC" => {d} \X RecordsOf[d] \subseteq derived'
    BY <2>2, <2>3
  <2>7. TablesHold'
    <3>1. ASSUME NEW e \in derived'
          PROVE  /\ e[1] \in rows' /\ KindOf[e[1]] # "TOSEC"
                 /\ e[1] \in Plain \/ e[2] \in RecordsOf[e[1]]
      <4>1. CASE e \in derived
        BY <1>0, <2>r, <4>1 DEF TablesHold
      <4>2. CASE e \notin derived
        BY <2>3, <2>6, <4>2
      <4> QED BY <4>1, <4>2
    <3> QED BY <2>5, <3>1 DEF TablesHold
  <2>8. ClaimsHold'
    BY <1>0, <2>3, <2>5, <2>6, <2>r, HangsNot DEF ClaimsHold
  <2>9. ASSUME Trusted'
        PROVE  TosecListed' /\ OthersListed' /\ \A a \in assertions' : Borne(a)'
    <3>1. Trusted
      BY <1>n, <2>2, <2>3, <2>9 DEF Trusted
    <3>2. TosecListed /\ OthersListed /\ \A a \in assertions : Borne(a)
      BY <1>0, <3>1 DEF Complete
    <3>3. TosecListed'
      <4> SUFFICES ASSUME NEW e \in Of("TOSEC", rows') \ Broken
                   PROVE  Sharing(e)' \/ Owned(e)' = RecordsOf[e]
        BY DEF TosecListed
      <4>1. CASE e = d
        BY <2>5, <4>1
      <4>2. CASE e # d
        <5>1. Sharing(e) \/ Owned(e) = RecordsOf[e]
          BY <2>0, <2>3, <3>2, <4>2 DEF TosecListed, Of
        <5> QED BY <2>3, <2>5, <4>2, <5>1, SharingStands
      <4> QED BY <4>1, <4>2
    <3>4. OthersListed'
      BY <2>2, <2>3, <2>6, <3>2 DEF OthersListed
    <3> QED BY <2>3, <3>2, <3>3, <3>4, BorneStands
  <2> QED BY <2>4, <2>7, <2>8, <2>9 DEF IndexInv, Complete
<1>5. CASE MatchAll
  <2> USE <1>5 DEF MatchAll
  <2>1. cur'.todo = objects /\ cur'.objects = objects /\ cur'.rebuild = cur.rebuild
    BY <1>t DEF Process
  <2>2. FilesHold' /\ HandsHold'
    BY <1>0, <2>1 DEF FilesHold, HandsHold
  <2>3. \A a \in assertions' : a \in assertions
    OBVIOUS
  <2> QED BY <2>1, <2>2, <2>3, IndexStands DEF IndexInv, Trusted
<1>6. CASE MatchNext
  <2>0. PICK D : D = IF cur.rebuild THEN Of("TOSEC", rows) ELSE {cur.dataset}
    OBVIOUS
  <2>c. PICK o \in cur.todo : o = CHOOSE x \in cur.todo : TRUE
    BY <1>6 DEF MatchNext
  <2>1. /\ pc = "match"
        /\ assertions' = assertions \cup TosecClaims(o, D)
        /\ cur' = [cur EXCEPT !.todo = @ \ {o}]
        /\ UNCHANGED <<files, rows, records, derived, pc, cut>>
    BY <1>6, <2>0, <2>c DEF MatchNext
  <2>2. D \subseteq rows
    BY <1>c, <2>0, <2>1 DEF HandsOnDataset, Of
  <2>3. /\ cur'.rebuild = cur.rebuild /\ cur'.todo = cur.todo \ {o} /\ cur'.objects = cur.objects
    BY <1>t, <2>1 DEF Process
  <2>4. FilesHold' /\ HandsHold' /\ o \in objects
    BY <1>0, <2>1, <2>3 DEF FilesHold, HandsHold
  <2>5. \A a \in assertions' : a \in assertions \/ (~Hangs(a) /\ (Trusted => Borne(a)))
    BY <2>1, <2>2, <2>4, TosecClaimIsBorne DEF TosecClaims
  <2> QED BY <2>1, <2>3, <2>4, <2>5, IndexStands DEF IndexInv, Trusted
<1>7. CASE MatchDone
  <2> USE <1>7 DEF MatchDone
  <2>1. \/ pc' = "redump" /\ cur' = cur /\ cur.rebuild
        \/ pc' = "idle" /\ cur' = NoCommand /\ ~cur.rebuild
    BY DEF Goto, Return
  <2>2. FilesHold' /\ HandsHold'
    BY <1>0, <1>n, <2>1 DEF FilesHold, HandsHold
  <2> QED BY <1>n, <2>1, <2>2, IndexStands DEF IndexInv, Trusted
<1>8. ASSUME NEW o, NEW D, Match(o, D)
      PROVE  IndexInv'
  <2> USE <1>8 DEF Match
  <2>1. D \subseteq rows /\ o \in objects
    BY DEF Of
  <2>2. FilesHold' /\ HandsHold'
    BY <1>0 DEF FilesHold, HandsHold
  <2>3. \A a \in assertions' : a \in assertions \/ (~Hangs(a) /\ (Trusted => Borne(a)))
    BY <2>1, TosecClaimIsBorne DEF TosecClaims
  <2> QED BY <2>2, <2>3, IndexStands DEF IndexInv, Trusted
<1>9. ASSUME NEW o \in Content, ObserveComponents(o)
      PROVE  IndexInv'
  <2> USE <1>9 DEF ObserveComponents
  <2>1. cur'.objects = {o} /\ ~cur'.rebuild
    BY NoCommandIsAProcess DEF Process
  <2>2. observations' = observations \cup {Note("COMPONENT", o, d) : d \in Of("COMPONENT", rows)}
    BY DEF Note
  <2>3. FilesHold'
    <3> SUFFICES ASSUME NEW d \in Of("COMPONENT", rows), NEW s, s = Note("COMPONENT", o, d)
                 PROVE  /\ s.object \in objects /\ s = Note(s.by, s.object, s.dataset)
                        /\ s.by = "COMPONENT" /\ s.dataset \in Of("COMPONENT", Range(sidecars))
      BY <1>0, <2>2 DEF FilesHold
    <3>1. s.by = "COMPONENT" /\ s.object = o /\ s.dataset = d
      BY DEF Note
    <3> QED BY <1>t, <3>1 DEF Of
  <2>4. HandsHold'
    BY <2>1, <2>2 DEF HandsHold
  <2>5. ~cur.rebuild
    BY <1>0 DEF HandsHold
  <2> QED BY <2>1, <2>2, <2>3, <2>4, <2>5, IndexStands DEF IndexInv, Trusted
<1>10. ASSUME NEW o \in Content, ObserveDisc(o)
       PROVE  IndexInv'
  <2>1. PICK d \in Of("REDUMP", rows), scoped \in BOOLEAN :
            /\ observations' = observations \cup {Recorded(o, d)}
            /\ cur' = [NoCommand EXCEPT !.dataset = d, !.objects = {o}, !.todo = IF scoped THEN {d} ELSE rows]
    BY <1>10 DEF ObserveDisc
  <2>2. pc = "idle" /\ o \in objects /\ pc' = "disc" /\ UNCHANGED <<objects, sidecars, index, cut>>
    BY <1>10 DEF ObserveDisc
  <2>3. /\ cur'.dataset = d /\ cur'.objects = {o} /\ ~cur'.rebuild
        /\ d \in cur'.todo /\ cur'.todo \subseteq rows
    <3>1. PICK T : T = IF scoped THEN {d} ELSE rows
      OBVIOUS
    <3>2. cur' = [NoCommand EXCEPT !.dataset = d, !.objects = {o}, !.todo = T]
      BY <2>1, <3>1
    <3>3. d \in T /\ T \subseteq rows
      BY <3>1 DEF Of
    <3> QED BY <3>2, <3>3, NoCommandIsAProcess DEF Process
  <2>4. PICK s : s = Note("OPTICAL", o, d)
    OBVIOUS
  <2>5. s.by = "OPTICAL" /\ s.object = o /\ s.dataset = d /\ observations' = observations \cup {s}
    BY <2>1, <2>4 DEF Note, Recorded
  <2>6. s = Note(s.by, s.object, s.dataset)
    BY <2>4, <2>5
  <2>7. s.dataset \in Of("REDUMP", Range(sidecars))
    BY <1>t, <2>5 DEF Of
  <2>8. FilesHold'
    BY <1>0, <2>2, <2>5, <2>6, <2>7 DEF FilesHold
  <2>9. HandsHold'
    BY <2>1, <2>2, <2>3, <2>4, <2>5 DEF HandsHold
  <2>10. ~cur.rebuild
    BY <1>0, <2>2 DEF HandsHold
  <2> QED BY <2>2, <2>3, <2>5, <2>8, <2>9, <2>10, IndexStands DEF IndexInv, Trusted
<1>11. CASE AssertComponents
  <2>1. /\ pc = "components" /\ UNCHANGED <<files, rows, records, derived, cut>>
        /\ pc' = "idle" /\ cur' = NoCommand
        /\ assertions' = assertions \cup ComponentClaims(
               {[object |-> o, dataset |-> d] : o \in cur.objects, d \in Of("COMPONENT", rows)})
    BY <1>11 DEF AssertComponents, Return
  <2>2. FilesHold' /\ HandsHold' /\ ~cur.rebuild
    BY <1>0, <1>n, <2>1 DEF FilesHold, HandsHold
  <2>3. ASSUME NEW o \in cur.objects, NEW d \in Of("COMPONENT", rows),
               NEW a, a = MatchComponent(d, o, Listed({d}, derived))
        PROVE  ~Hangs(a) /\ (Trusted => Borne(a))
    <3>1. a.dataset = d /\ a.object = o /\ d \in rows /\ KindOf[d] = "COMPONENT" /\ o \in objects
      BY <1>0, <2>1, <2>3, OtherClaims DEF HandsHold, Of
    <3>2. a.result = "EXACT_MATCH" => a.record \in Listed({d}, derived)
      BY <2>3, MatchedRecord
    <3>3. ~Hangs(a)
      BY <1>0, <3>1, <3>2, HoldsDerived DEF Hangs
    <3>4. ASSUME Trusted PROVE Borne(a)
      <4>0. d \notin Plain
        BY <3>1, DatsAssumption
      <4>1. {d} \X RecordsOf[d] \subseteq derived
        BY <1>0, <2>2, <3>1, <3>4, <4>0 DEF Complete, OthersListed
      <4>2. Listed({d}, derived) = RecordsOf[d]
        BY <1>0, <4>0, <4>1, ListedIsAll DEF TablesHold
      <4>3. Note("COMPONENT", o, d) \in observations
        BY <1>0, <2>1 DEF HandsHold
      <4> QED BY <2>3, <4>2, <4>3, OtherClaimIsBorne
    <3> QED BY <3>3, <3>4
  <2>4. ASSUME NEW a \in assertions', a \notin assertions
        PROVE  ~Hangs(a) /\ (Trusted => Borne(a))
    <3>1. PICK s \in {[object |-> o, dataset |-> d] : o \in cur.objects, d \in Of("COMPONENT", rows)} :
              a = MatchComponent(s.dataset, s.object, Listed({s.dataset}, derived))
      BY <2>1, <2>4 DEF ComponentClaims
    <3>2. PICK o \in cur.objects, d \in Of("COMPONENT", rows) : s = [object |-> o, dataset |-> d]
      OBVIOUS
    <3>3. a = MatchComponent(d, o, Listed({d}, derived))
      BY <3>1, <3>2
    <3> QED BY <2>3, <3>3
  <2>5. \A a \in assertions' : a \in assertions \/ (~Hangs(a) /\ (Trusted => Borne(a)))
    BY <2>4
  <2> QED BY <1>n, <2>1, <2>2, <2>5, IndexStands DEF IndexInv, Trusted
<1>12. CASE AssertDisc
  <2>1. /\ pc = "disc" /\ UNCHANGED <<files, rows, records, derived, cut>>
        /\ pc' = "idle" /\ cur' = NoCommand
        /\ assertions' = assertions \cup
               {MatchDisc(cur.dataset, o, Listed(Of("REDUMP", cur.todo), derived)) : o \in cur.objects}
    BY <1>12 DEF AssertDisc, Return
  <2>2. FilesHold' /\ HandsHold' /\ ~cur.rebuild
    BY <1>0, <1>n, <2>1 DEF FilesHold, HandsHold
  <2>3. PICK d : d = cur.dataset
    OBVIOUS
  <2>4. /\ d \in rows /\ KindOf[d] = "REDUMP" /\ d \in cur.todo /\ cur.todo \subseteq rows
        /\ cur.objects \subseteq objects
        /\ \A o \in cur.objects : Note("OPTICAL", o, d) \in observations
    BY <1>0, <2>1, <2>3 DEF HandsHold, Of
  <2>5. ASSUME NEW o \in cur.objects, NEW a, a = MatchDisc(d, o, Listed(Of("REDUMP", cur.todo), derived))
        PROVE  ~Hangs(a) /\ (Trusted => Borne(a))
    <3>1. a.by = "OPTICAL" /\ a.dataset = d /\ a.object = o
      BY <2>5, OtherClaims
    <3>2. a.result = "EXACT_MATCH" => a.record \in Listed(Of("REDUMP", cur.todo), derived)
      BY <2>5, MatchedRecord
    <3>3. ~Hangs(a)
      BY <1>0, <2>4, <3>1, <3>2, HoldsDerived DEF Hangs
    <3>4. ASSUME Trusted, ~SeveralDiscs, d \notin Plain PROVE Borne(a)
      <4>1. Of("REDUMP", cur.todo) = {d}
        BY <1>t, <2>4, <3>4 DEF SeveralDiscs, Of
      <4>2. {d} \X RecordsOf[d] \subseteq derived
        BY <1>0, <2>2, <2>4, <3>4 DEF Complete, OthersListed
      <4>3. Listed({d}, derived) = RecordsOf[d]
        BY <1>0, <3>4, <4>2, ListedIsAll DEF TablesHold
      <4> QED BY <2>4, <2>5, <3>1, <4>1, <4>3 DEF Borne
    <3> QED BY <3>1, <3>3, <3>4 DEF Borne
  <2>6. \A a \in assertions' : a \in assertions \/ (~Hangs(a) /\ (Trusted => Borne(a)))
    BY <2>1, <2>3, <2>5
  <2> QED BY <1>n, <2>1, <2>2, <2>6, IndexStands DEF IndexInv, Trusted
<1>13. CASE DeleteIndex
  <2> USE <1>13 DEF DeleteIndex, Emptied
  <2>1. FilesHold' /\ HandsHold'
    BY <1>0 DEF FilesHold, HandsHold, Of
  <2>2. TablesHold' /\ ClaimsHold' /\ Complete'
    BY DEF TablesHold, ClaimsHold, Complete, TosecListed, OthersListed, Of
  <2> QED BY <2>1, <2>2 DEF IndexInv
<1>14. CASE StartRebuild
  <2> USE <1>14 DEF StartRebuild, Emptied
  <2>1. FilesHold' /\ HandsHold'
    BY <1>0 DEF FilesHold, HandsHold, Of
  <2>2. TablesHold' /\ ClaimsHold' /\ Complete'
    BY DEF TablesHold, ClaimsHold, Complete, TosecListed, OthersListed, Of
  <2> QED BY <2>1, <2>2 DEF IndexInv
<1>15. CASE RebuildRow
  <2> USE <1>15 DEF RebuildRow
  <2>1. cur.rebuild /\ assertions = {} /\ derived = {} /\ Range(sidecars) = rows \cup cur.todo
    BY <1>c DEF HandsOnDataset, RebuildProgress
  <2>2. PICK d \in cur.todo : d = NextId
    BY <1>s, <2>1, FirstIsOne DEF NextId
  <2>3. /\ cur'.rebuild
        /\ \/ pc' = "records" /\ cur'.dataset = d /\ KindOf[d] = "TOSEC"
           \/ pc' = "row" /\ KindOf[d] # "TOSEC"
    BY <1>t, <1>s, <2>1, <2>2 DEF Process
  <2>4. FilesHold' /\ HandsHold' /\ ClaimsHold'
    BY <1>0, <2>1, <2>3 DEF FilesHold, HandsHold, ClaimsHold
  <2>5. TablesHold'
    BY <1>0 DEF TablesHold, Of
  <2>6. TosecListed /\ Trusted
    BY <1>0, <2>1 DEF Complete, Trusted
  <2>7. TosecListed'
    <3> SUFFICES ASSUME NEW e \in Of("TOSEC", rows') \ Broken
                 PROVE  Sharing(e)' \/ Owned(e)' = RecordsOf[e] \/ (pc' = "records" /\ cur'.dataset = e)
      BY DEF TosecListed
    <3>1. CASE e = d
      BY <2>3, <3>1 DEF Of
    <3>2. CASE e # d
      <4>1. Sharing(e) \/ Owned(e) = RecordsOf[e]
        BY <2>2, <2>6, <3>2 DEF TosecListed, Of
      <4> QED BY <4>1, SharingStands DEF Owned
    <3> QED BY <3>1, <3>2
  <2> QED BY <2>1, <2>3, <2>4, <2>5, <2>7 DEF IndexInv, Complete, OthersListed
<1>16. CASE RebuildRecords
  <2> USE <1>16 DEF RebuildRecords
  <2>1. /\ cur.rebuild /\ assertions = {} /\ derived = {} /\ cur.dataset \in rows
        /\ KindOf[cur.dataset] = "TOSEC"
    BY <1>0, <1>c DEF HandsOnDataset, RebuildProgress, HandsHold
  <2>2. PICK d \in rows : d = cur.dataset
    BY <2>1
  <2>3. records' = IF d \in Broken THEN records ELSE Inserted(records, d, RecordsOf[d])
    <3>1. d \in Dats \ Plain
      BY <1>t, <1>s, <2>1, <2>2, DatsAssumption
    <3> QED BY <2>2, <3>1, RereadsTheSame
  <2>4. cur'.rebuild /\ pc' = "row"
    BY <1>t, <2>1 DEF Process
  <2>5. FilesHold' /\ HandsHold' /\ ClaimsHold'
    BY <1>0, <2>1, <2>4 DEF FilesHold, HandsHold, ClaimsHold
  <2>6. TosecListed /\ Trusted
    BY <1>0, <2>1 DEF Complete, Trusted
  <2>7. /\ \A r \in DOMAIN records' :
               records'[r] \in Of("TOSEC", rows') \ Broken /\ r \in RecordsOf[records'[r]]
        /\ d \in Broken \/ Sharing(d)' \/ Owned(d)' = RecordsOf[d]
        /\ \A e : e # d => Owned(e)' = Owned(e)
    <3>1. CASE d \in Broken
      <4>1. records' = records
        BY <2>3, <3>1
      <4> QED BY <1>0, <3>1, <4>1 DEF TablesHold, Owned
    <3>2. CASE d \notin Broken
      <4>1. d \in Of("TOSEC", rows') \ Broken /\ records' = Inserted(records, d, RecordsOf[d])
        BY <2>1, <2>2, <2>3, <3>2 DEF Of
      <4>2. UNCHANGED sidecars /\ rows \subseteq rows' /\ rows' \subseteq Range(sidecars)
        BY <1>t
      <4> HIDE <1>16
      <4> QED BY <1>0, <1>c, <4>1, <4>2, RecordsInserted
    <3> QED BY <3>1, <3>2
  <2>8. TablesHold'
    BY <2>1, <2>7 DEF TablesHold
  <2>9. TosecListed'
    <3> SUFFICES ASSUME NEW e \in Of("TOSEC", rows) \ Broken
                 PROVE  Sharing(e)' \/ Owned(e)' = RecordsOf[e]
      BY DEF TosecListed
    <3>1. CASE e = d
      BY <2>7, <3>1
    <3>2. CASE e # d
      <4>1. Sharing(e) \/ Owned(e) = RecordsOf[e]
        BY <2>2, <2>6, <3>2 DEF TosecListed
      <4> QED BY <2>7, <3>2, <4>1, SharingStands
    <3> QED BY <3>1, <3>2
  <2> QED BY <2>1, <2>4, <2>5, <2>8, <2>9 DEF IndexInv, Complete, OthersListed
<1>17. CASE RowsDone
  <2> USE <1>17 DEF RowsDone, Goto
  <2>1. FilesHold' /\ HandsHold'
    BY <1>0 DEF FilesHold, HandsHold
  <2> QED BY <2>1, IndexStands DEF IndexInv, Trusted
<1>18. CASE RebuildRedump
  <2>1. /\ pc = "redump" /\ derived' = derived \cup Reread(Parsable)
        /\ UNCHANGED <<files, rows, records>>
        /\ \/ pc' = "idle" /\ cur' = NoCommand /\ cut'
           \/ pc' = "additional" /\ cur' = cur /\ derived' = derived \cup Adapter("REDUMP")
    BY <1>18, ParsableIsAll DEF RebuildRedump, Goto, Return
  <2>2. cur.rebuild /\ rows = Range(sidecars) /\ derived' = Reread(Parsable) /\ derived \subseteq derived'
    BY <1>c, <2>1 DEF HandsOnDataset, RebuildProgress
  <2>p. Parsable \subseteq Of("REDUMP", Range(sidecars)) /\ Parsable \in SUBSET Dats
        /\ (Unparsed = {} => Parsable = Of("REDUMP", Range(sidecars)))
    BY <1>s DEF Parsable, Of
  <2>3. PICK S \in SUBSET Seen("OPTICAL") :
            /\ Unparsed = {} \/ S = {}
            /\ assertions' = assertions \cup
                   {MatchDisc(s.dataset, s.object, Listed({s.dataset}, derived')) : s \in S}
    BY <1>18 DEF RebuildRedump
  <2>4. FilesHold' /\ HandsHold'
    BY <1>0, <1>n, <2>1 DEF FilesHold, HandsHold
  <2>e. \A e \in derived' : /\ e[1] \in rows /\ KindOf[e[1]] # "TOSEC"
                            /\ e[1] \in Plain \/ e[2] \in RecordsOf[e[1]]
    BY <2>2, <2>p, RereadingLists DEF Of
  <2>5. TablesHold'
    BY <1>0, <2>1, <2>e DEF TablesHold, Of
  <2>7. ASSUME NEW s \in S, NEW a, a = MatchDisc(s.dataset, s.object, Listed({s.dataset}, derived'))
        PROVE  ~Hangs(a)' /\ Borne(a)
    <3>1. /\ s \in observations /\ s.by = "OPTICAL" /\ s.object \in objects
          /\ s = Note("OPTICAL", s.object, s.dataset) /\ s.dataset \in Of("REDUMP", Range(sidecars))
      BY <1>0 DEF Seen, FilesHold
    <3>2. a.by = "OPTICAL" /\ a.dataset = s.dataset /\ a.object = s.object
      BY <2>7, OtherClaims
    <3>3. a.result = "EXACT_MATCH" => a.record \in Listed({s.dataset}, derived')
      BY <2>7, MatchedRecord
    <3>4. Listed({s.dataset}, derived') \subseteq Known'
      BY <2>e, <2>1 DEF Listed, Known
    <3>5. ~Hangs(a)'
      BY <2>1, <2>2, <3>1, <3>2, <3>3, <3>4 DEF Hangs, Of
    <3>6. ASSUME s.dataset \in Plain PROVE Borne(a)
      BY <3>2, <3>6 DEF Borne
    <3>7. ASSUME s.dataset \notin Plain PROVE Borne(a)
      <4>1. {s.dataset} \X RecordsOf[s.dataset] \subseteq derived'
        BY <2>2, <2>3, <2>p, <3>1, <3>7, RereadingLists
      <4>2. Listed({s.dataset}, derived') = RecordsOf[s.dataset]
        BY <2>e, <3>7, <4>1, ListedIsAll
      <4>3. a = MatchDisc(s.dataset, s.object, RecordsOf[s.dataset])
        BY <2>7, <4>2
      <4>4. Note("OPTICAL", s.object, s.dataset) \in observations
        BY <3>1
      <4> QED BY <4>3, <4>4, OtherClaimIsBorne
    <3>8. Borne(a)
      BY <3>6, <3>7
    <3> QED BY <3>5, <3>8
  <2>8. ASSUME NEW a \in assertions' PROVE ~Hangs(a)' /\ (Trusted => Borne(a)')
    <3>1. CASE a \in assertions
      <4>1. ~Hangs(a) /\ (Trusted => Borne(a))
        BY <1>0, <3>1 DEF ClaimsHold, Complete
      <4> QED BY <2>1, <2>2, <4>1, HangsNot, BorneStands
    <3>2. CASE a \notin assertions
      <4>1. ~Hangs(a)' /\ Borne(a)
        BY <2>3, <2>7, <3>2
      <4> QED BY <2>1, <4>1, BorneStands
    <3> QED BY <3>1, <3>2
  <2>9. Complete'
    <3> SUFFICES ASSUME Trusted' PROVE Complete'
      BY DEF Complete
    <3>1. pc' = "additional" /\ cur' = cur
      BY <1>n, <2>1 DEF Trusted
    <3>2. Trusted /\ TosecListed
      BY <1>0, <2>2 DEF Complete, Trusted
    <3>3. TosecListed'
      BY <2>1, <3>2 DEF TosecListed, Of, Owned, Sharing
    <3> QED BY <2>2, <2>8, <3>1, <3>2, <3>3 DEF Complete, OthersListed
  <2>10. ClaimsHold'
    BY <2>8 DEF ClaimsHold
  <2> QED BY <2>4, <2>5, <2>9, <2>10 DEF IndexInv
<1>19. CASE RebuildComponents
  <2>1. /\ pc = "additional" /\ derived' = derived \cup Adapter("COMPONENT")
        /\ UNCHANGED <<files, rows, records>> /\ pc' = "idle" /\ cur' = NoCommand
        /\ assertions' = assertions \cup
               {MatchComponent(s.dataset, s.object, RereadOf[s.dataset]) : s \in Seen("COMPONENT")}
    BY <1>19 DEF RebuildComponents, Return
  <2>2. /\ cur.rebuild /\ rows = Range(sidecars) /\ derived = Adapter("REDUMP")
        /\ derived' = Adapter("REDUMP") \cup Adapter("COMPONENT") /\ derived \subseteq derived'
    BY <1>c, <2>1 DEF HandsOnDataset, RebuildProgress
  <2>4. FilesHold' /\ HandsHold'
    BY <1>0, <1>n, <2>1 DEF FilesHold, HandsHold
  <2>5. TablesHold'
    <3>1. \A e \in derived' : /\ e[1] \in rows /\ KindOf[e[1]] # "TOSEC"
                              /\ e[1] \in Plain \/ e[2] \in RecordsOf[e[1]]
      BY <1>s, <2>2, AdaptersList DEF Of
    <3> QED BY <1>0, <2>1, <3>1 DEF TablesHold, Of
  <2>6. \A e \in derived' : e[2] \in Known'
    BY <2>5 DEF TablesHold, Known, Listed
  <2>7. ASSUME NEW s \in Seen("COMPONENT"), NEW a, a = MatchComponent(s.dataset, s.object, RereadOf[s.dataset])
        PROVE  ~Hangs(a)' /\ Borne(a)
    <3>1. /\ s \in observations /\ s.object \in objects
          /\ s = Note("COMPONENT", s.object, s.dataset) /\ s.dataset \in Of("COMPONENT", Range(sidecars))
      BY <1>0 DEF Seen, FilesHold
    <3>0. s.dataset \in Dats \ Plain
      BY <1>s, <3>1, DatsAssumption DEF Of
    <3>2. {s.dataset} \X RecordsOf[s.dataset] \subseteq derived'
      BY <1>s, <2>2, <3>0, <3>1, AdaptersList
    <3>3. a = MatchComponent(s.dataset, s.object, RecordsOf[s.dataset])
      BY <2>7, <3>0, RereadsTheSame
    <3>4. /\ a.dataset = s.dataset /\ a.object = s.object /\ Borne(a)
          /\ a.result = "EXACT_MATCH" => a.record \in RecordsOf[s.dataset]
      BY <3>1, <3>3, OtherClaimIsBorne
    <3>5. ASSUME NEW r \in RecordsOf[s.dataset] PROVE r \in Known'
      <4>1. <<s.dataset, r>> \in derived' /\ <<s.dataset, r>>[2] = r
        BY <3>2
      <4> QED BY <2>6, <4>1
    <3>6. s.dataset \in rows' /\ s.object \in objects'
      BY <2>1, <2>2, <3>1 DEF Of
    <3> QED BY <3>4, <3>5, <3>6 DEF Hangs
  <2>8. ASSUME NEW a \in assertions' PROVE ~Hangs(a)' /\ (Trusted => Borne(a)')
    <3>1. CASE a \in assertions
      <4>1. ~Hangs(a) /\ (Trusted => Borne(a))
        BY <1>0, <3>1 DEF ClaimsHold, Complete
      <4> QED BY <2>1, <2>2, <4>1, HangsNot, BorneStands
    <3>2. CASE a \notin assertions
      <4>1. ~Hangs(a)' /\ Borne(a)
        BY <2>1, <2>7, <3>2
      <4> QED BY <2>1, <4>1, BorneStands
    <3> QED BY <3>1, <3>2
  <2>9. Trusted /\ TosecListed
    BY <1>0, <2>2 DEF Complete, Trusted
  <2>10. TosecListed'
    BY <2>1, <2>9 DEF TosecListed, Of, Owned, Sharing
  <2>11. OthersListed'
    <3> SUFFICES ASSUME NEW d \in Range(sidecars) \ Plain, KindOf[d] # "TOSEC"
                 PROVE  {d} \X RecordsOf[d] \subseteq derived'
      BY <2>1, <2>2 DEF OthersListed
    <3>1. KindOf[d] \in {"COMPONENT", "REDUMP"}
      BY <1>s, DatsAssumption
    <3> QED BY <1>s, <2>2, <3>1, AdaptersList DEF Of
  <2> QED BY <2>4, <2>5, <2>8, <2>9, <2>10, <2>11 DEF IndexInv, ClaimsHold, Complete
<1>20. CASE Crash
  <2> USE <1>20 DEF Crash, Return
  <2>1. FilesHold' /\ HandsHold'
    BY <1>0, <1>n DEF FilesHold, HandsHold
  <2>2. pc = "records" => cur.rebuild
    BY <1>c DEF HandsOnDataset
  <2> QED BY <1>n, <2>1, <2>2, IndexStands DEF IndexInv, Trusted
<1>21. CASE UNCHANGED vars
  <2> USE <1>21
  <2>1. FilesHold' /\ HandsHold'
    BY <1>0 DEF FilesHold, HandsHold
  <2> QED BY <2>1, IndexStands DEF IndexInv, Trusted
<1>22. Asked \subseteq Content
  BY DatsAssumption DEF Content
<1> QED BY <1>1, <1>2, <1>3, <1>4, <1>5, <1>6, <1>7, <1>8, <1>9, <1>10, <1>11, <1>12, <1>13, <1>14, <1>15,
           <1>16, <1>17, <1>18, <1>19, <1>20, <1>21, <1>22 DEF Next

THEOREM IndexInvariant == ASSUME PlainDatsAreWhole PROVE Spec => [](ClaimInv /\ IndexInv)
<1>1. Init => ClaimInv /\ IndexInv
  BY InitClaimInv, InitIndexInv
<1>2. (ClaimInv /\ IndexInv) /\ [Next]_vars => (ClaimInv /\ IndexInv)'
  BY NextClaimInv, NextIndexInv
<1> QED BY <1>1, <1>2, PTL DEF Spec

(* Of two datasets of the discs one cannot be the only one.                *)
LEMMA SeveralAreMany ==
    ASSUME sidecars \in Seq(Dats), SeveralDiscs
    PROVE  Cardinality(Of("REDUMP", Range(sidecars))) > 1
<1> DEFINE D == Of("REDUMP", Range(sidecars))
<1>1. IsFiniteSet(1..Len(sidecars))
  BY FS_Interval
<1>2. sidecars \in Surjection(1..Len(sidecars), Range(sidecars))
  BY DEF Surjection, Range
<1>3. IsFiniteSet(Range(sidecars))
  BY <1>1, <1>2, FS_Surjection
<1>4. IsFiniteSet(D)
  BY <1>3, FS_Subset DEF Of
<1>5. PICK d \in D, e \in D : d # e
  BY DEF SeveralDiscs
<1> HIDE DEF D
<1>6. Cardinality(D) \in Nat /\ Cardinality(D) # 0 /\ Cardinality(D) # 1
  BY <1>4, <1>5, FS_CardinalityType, FS_EmptySet, FS_Singleton
<1> QED BY <1>6 DEF D

(* rebuild, verify and docs/architecture.md: between two commands, unless  *)
(* a rebuild stopped half-way, every claim that rests on one dataset is    *)
(* one that a rebuild would derive from the files, but for those of the    *)
(* adapters where a rebuild raises and those on discs of a plain CUE       *)
(* sheet; and verify finds nothing wrong that is not explained; whatever   *)
(* was imported, matched, killed, deleted or rebuilt before.  For archives *)
(* in which no plain file was selected by name: such a dataset a rebuild   *)
(* reads otherwise than its import did.                                    *)
THEOREM TheIndexIsDisposable == ASSUME PlainDatsAreWhole PROVE Spec => []IndexIsDisposable
<1>1. ASSUME ClaimInv, IndexInv PROVE IndexIsDisposable
  <2>0. FilesHold /\ TablesHold /\ ClaimsHold /\ HandsHold /\ Complete
    BY <1>1 DEF IndexInv
  <2>t. sidecars \in Seq(Dats) /\ rows \subseteq Range(sidecars)
    BY <1>1 DEF ClaimInv, AuthorityTypes
  <2>s. Range(sidecars) \subseteq Dats
    BY <2>t, RangeOfSidecars
  <2>1. ASSUME Idle, ~cut, NEW a \in assertions
        PROVE  a \in Rebuildable \/ Mixed(a) \/ LostIfRaised(a) \/ SheetLost(a)
    <3>1. Borne(a) /\ ~Hangs(a)
      BY <2>0, <2>1 DEF Complete, Trusted, ClaimsHold
    <3>2. a.dataset \in Range(sidecars) /\ a.object \in objects
      BY <2>t, <3>1 DEF Hangs
    <3>3. CASE /\ a.by = "TOSEC" /\ KindOf[a.dataset] = "TOSEC" /\ ~Sharing(a.dataset)
               /\ a = MatchTosec(a.dataset, a.object, Lists(a.dataset))
      <4>1. PICK d \in Of("TOSEC", Range(sidecars)) : d = a.dataset
        BY <3>2, <3>3 DEF Of
      <4>2. ASSUME d \notin Broken, NEW r \in RereadOf[d] PROVE FirstIn(r) = d
        <5>1. PICK D : D = {e \in Of("TOSEC", Range(sidecars)) \ Broken : r \in RereadOf[e]}
          OBVIOUS
        <5>2. D \subseteq Dats /\ d \in D
          BY <2>s, <4>2, <5>1 DEF Of
        <5>3. FirstOf(D) \in D
          BY <5>2, FirstIsOne
        <5>4. ASSUME NEW e \in D, e # d PROVE FALSE
          <6>1. e \in Of("TOSEC", Range(sidecars)) \ (Broken \cup {d}) /\ r \in RecordsOf[e] \cap RecordsOf[d]
            BY <2>s, <4>1, <4>2, <5>1, <5>4, RereadsTheSame, DatsAssumption DEF Of
          <6> QED BY <3>3, <4>1, <6>1 DEF Sharing
        <5>5. FirstIn(r) = FirstOf(D)
          BY <5>1 DEF FirstIn
        <5> QED BY <5>3, <5>4, <5>5
      <4>3. Lists(d) = IF d \in Broken THEN {} ELSE {r \in RereadOf[d] : FirstIn(r) = d}
        <5>1. CASE d \in Broken
          BY <5>1 DEF Lists
        <5>2. CASE d \notin Broken
          <6>1. Lists(d) = RereadOf[d]
            BY <2>s, <4>1, <5>2, RereadsTheSame, DatsAssumption DEF Lists, Of
          <6> QED BY <4>2, <5>2, <6>1
        <5> QED BY <5>1, <5>2
      <4>4. a = MatchTosec(d, a.object, IF d \in Broken THEN {} ELSE {r \in RereadOf[d] : FirstIn(r) = d})
        BY <3>3, <4>1, <4>3
      <4> QED BY <3>2, <4>4 DEF Rebuildable
    <3>4. CASE /\ a.by = "COMPONENT" /\ Note("COMPONENT", a.object, a.dataset) \in observations
               /\ a = MatchComponent(a.dataset, a.object, RecordsOf[a.dataset])
      <4>1. PICK s \in Seen("COMPONENT") : s.object = a.object /\ s.dataset = a.dataset
        BY <3>4 DEF Seen, Note
      <4>2. s.dataset \in Dats \ Plain
        BY <2>0, <2>s, <4>1, DatsAssumption DEF FilesHold, Seen, Of
      <4>3. a = MatchComponent(s.dataset, s.object, RereadOf[s.dataset])
        BY <3>4, <4>1, <4>2, RereadsTheSame
      <4> QED BY <3>4, <4>1, <4>3 DEF Rebuildable, LostIfRaised
    <3>5. CASE a.by = "OPTICAL" /\ SeveralDiscs
      BY <2>t, <3>5, SeveralAreMany DEF Mixed
    <3>6. CASE /\ a.by = "OPTICAL" /\ Note("OPTICAL", a.object, a.dataset) \in observations
               /\ a = MatchDisc(a.dataset, a.object, RecordsOf[a.dataset])
      <4>1. PICK s \in Seen("OPTICAL") : s.object = a.object /\ s.dataset = a.dataset
        BY <3>6 DEF Seen, Note
      <4>2. CASE a.dataset \in Plain
        BY <3>6, <4>2 DEF SheetLost
      <4>3. CASE a.dataset \notin Plain
        <5>1. s.dataset \in Dats \ Plain
          BY <2>s, <3>2, <4>1, <4>3
        <5>2. a = MatchDisc(s.dataset, s.object, RereadOf[s.dataset])
          BY <3>6, <4>1, <5>1, RereadsTheSame
        <5> QED BY <3>6, <4>1, <5>2 DEF Rebuildable, LostIfRaised
      <4> QED BY <4>2, <4>3
    <3>8. CASE a.by = "OPTICAL" /\ a.dataset \in Plain
      BY <3>8 DEF SheetLost
    <3>7. CASE a.by = "TOSEC" /\ (KindOf[a.dataset] # "TOSEC" \/ Sharing(a.dataset))
      BY <3>7 DEF Mixed
    <3> QED BY <3>1, <3>3, <3>4, <3>5, <3>6, <3>7, <3>8 DEF Borne
  <2>2. AuthorityFailures \subseteq {"record_count_mismatch"}
    <3>1. rows \subseteq objects
      BY <2>0, <2>t DEF FilesHold
    <3>2. Range(records) \subseteq rows
      BY <2>0 DEF TablesHold, Range, Of
    <3>3. \A a \in assertions : /\ a.dataset \in rows /\ a.object \in objects
                                /\ a.result = "EXACT_MATCH" => a.record \in Known
      BY <2>0 DEF ClaimsHold, Hangs
    <3> QED BY <3>1, <3>2, <3>3 DEF AuthorityFailures
  <2>3. DiscFailures = {} /\ ComponentFailures = {}
    <3>1. \A e \in derived : e[1] \in rows
      BY <2>0 DEF TablesHold
    <3>2. \A s \in observations : s.object \in objects
      BY <2>0 DEF FilesHold
    <3> QED BY <3>1, <3>2 DEF DiscFailures, ComponentFailures, Seen
  <2>4. ASSUME Idle, NEW d \in Miscounted PROVE Explained(d)
    <3> SUFFICES ASSUME ~cut, d \notin Broken, ~Sharing(d) PROVE FALSE
      BY DEF Explained
    <3>1. d \in Of("TOSEC", rows) \ Broken /\ Cardinality(Owned(d)) # Cardinality(RecordsOf[d])
      BY <2>4 DEF Miscounted
    <3>2. Owned(d) = RecordsOf[d]
      BY <2>0, <2>4, <3>1 DEF Complete, Trusted, TosecListed, Idle
    <3> QED BY <3>1, <3>2
  <2>5. AssertionsRebuildable
    BY <2>1 DEF AssertionsRebuildable
  <2>6. VerifyPasses
    BY <2>2, <2>3, <2>4 DEF VerifyPasses, VerifyFailures
  <2> QED BY <2>5, <2>6 DEF IndexIsDisposable
<1>2. ClaimInv /\ IndexInv => IndexIsDisposable
  BY <1>1
<1> QED BY <1>2, IndexInvariant, PTL

-----------------------------------------------------------------------------
(* Local scans.                                                            *)
Working == {"copy", "engine", "sidecar", "report", "row"}  \* an engine is in hand
Written == {"report", "row"}                               \* its sidecar is there

(* Observation n is evidence of engine e on object o.                      *)
EvidenceOf(n, e, o) ==
    /\ n \in DOMAIN scans /\ n \in reports
    /\ scans[n].engine = e /\ scans[n].object = o
    /\ scans[n].result \notin Absent

Covered(listed, e, o) == \E n \in listed : EvidenceOf(n, e, o)

-----------------------------------------------------------------------------
(* The inductive invariant, in named parts.                                *)

Answer == AnyResult \cup Failures \cup {"none"}
Observation == [object : Targets, engine : Engines, result : Answer]
Local == [object : Targets \cup {"none"}, engine : Engines \cup {"none"},
          todo : SUBSET Engines, listed : SUBSET Nat, result : Answer, warned : BOOLEAN]
Job == [object : Targets \cup {"none"}, engines : SUBSET Engines,
        state : {"NONE", "ANALYSING", "COMPLETED", "COMPLETED_WITH_WARNINGS"},
        observations : SUBSET Nat]

ScanTypes ==
    /\ scans \in Seq(Observation)
    /\ scan \in Local /\ scanJob \in Job
    /\ spc \in {"rest", "next"} \cup Working

(* What the scanner has in hand.                                           *)
HandsOnJob ==
    /\ spc # "rest" => /\ scanJob.state = "ANALYSING"
                       /\ scan.object \in Targets /\ scan.object = scanJob.object
    /\ spc \in Working => scan.engine \in Engines
    /\ spc \in Written => /\ Newest \in DOMAIN scans
                          /\ scans[Newest].object = scan.object
                          /\ scans[Newest].engine = scan.engine
                          /\ scans[Newest].result = scan.result
    /\ spc = "row" => Newest \in reports

(* The rows are of observations.                                           *)
RowsAreScans == table \subseteq DOMAIN scans

(* Without a warning, every engine done with is covered.                   *)
InHand == IF spc \in Working THEN {scan.engine} ELSE {}
DoneIsCovered ==
    spc # "rest" /\ ~scan.warned =>
        \A e \in scanJob.engines \ (scan.todo \cup InHand) : Covered(scan.listed, e, scan.object)

CompletedIsCovered ==
    scanJob.state = "COMPLETED" =>
        \A e \in scanJob.engines : Covered(scanJob.observations, e, scanJob.object)

ScanInv == ScanTypes /\ HandsOnJob /\ RowsAreScans /\ DoneIsCovered /\ CompletedIsCovered

-----------------------------------------------------------------------------
(* A program or a missing engine answers with a result.                    *)
LEMMA AnswersAreResults ==
    ASSUME NEW e \in Engines
    PROVE  Answers(e) \cup {"ERROR"} \subseteq Answer
<1> USE DEF Answer, AnyResult, Failures
<1>1. NotThere(AdapterOf[e]) \in Answer
  BY DEF NotThere
<1>2. ASSUME NEW x
      PROVE  Clam(x) \in Answer /\ Command(x) \in Answer /\ Rules(x) \in Answer /\ Ended(x) \in Answer
  BY DEF Clam, Command, Rules, Ended
<1> QED BY <1>1, <1>2 DEF Answers

(* Evidence is never lost: observations are appended and reports added.    *)
LEMMA EvidenceStands ==
    ASSUME ScanTypes, reports \subseteq reports',
           \/ UNCHANGED scans
           \/ \E x \in Observation : scans' = Append(scans, x),
           NEW listed, NEW e, NEW o, Covered(listed, e, o)
    PROVE  Covered(listed, e, o)'
<1>1. PICK n \in listed : EvidenceOf(n, e, o)
  BY DEF Covered
<1>2. EvidenceOf(n, e, o)'
  BY <1>1 DEF EvidenceOf, ScanTypes
<1> QED BY <1>2 DEF Covered

-----------------------------------------------------------------------------
(* Aggregate tells a detection from all else: an object is incriminated    *)
(* exactly when one of its rows is a detection.                            *)
LEMMA DetectionIncriminates ==
    ASSUME NEW V
    PROVE  Aggregate(V) \in {"MALWARE_DETECTED", "CONFLICTING"} <=> "DETECTED" \in V
BY DEF Aggregate

-----------------------------------------------------------------------------
(* A step that only reads, or only adds rows or reports, keeps what was    *)
(* covered: the part of the invariant that is about the job's file.        *)
LEMMA CompletedJobsStand ==
    ASSUME ScanInv, reports \subseteq reports', UNCHANGED scanJob,
           \/ UNCHANGED scans
           \/ \E x \in Observation : scans' = Append(scans, x)
    PROVE  CompletedIsCovered'
<1> USE DEF ScanInv
<1> SUFFICES ASSUME scanJob.state = "COMPLETED", NEW e \in scanJob.engines
             PROVE  Covered(scanJob.observations, e, scanJob.object)'
  BY DEF CompletedIsCovered
<1>1. Covered(scanJob.observations, e, scanJob.object)
  BY DEF CompletedIsCovered
<1> QED BY <1>1, EvidenceStands

(* The same for the engines that the running job has done with: a step     *)
(* that lists the same observations, unless it warns, and leaves no engine *)
(* behind that was not already.                                            *)
LEMMA CoverageStands ==
    ASSUME ScanInv, reports \subseteq reports', UNCHANGED scanJob,
           \/ UNCHANGED scans
           \/ \E x \in Observation : scans' = Append(scans, x),
           spc # "rest", scan.warned => scan'.warned,
           scan'.listed = scan.listed, scan'.object = scan.object,
           scan.todo \cup InHand \subseteq (scan.todo \cup InHand)'
    PROVE  DoneIsCovered'
<1> USE DEF ScanInv
<1> SUFFICES ASSUME ~scan'.warned, NEW e \in scanJob.engines \ (scan.todo \cup InHand)'
             PROVE  Covered(scan.listed, e, scan.object)'
  BY DEF DoneIsCovered
<1>1. Covered(scan.listed, e, scan.object)
  BY DEF DoneIsCovered
<1> QED BY <1>1, EvidenceStands

-----------------------------------------------------------------------------
(* The inductive invariant holds.                                          *)
LEMMA InitScanInv == ScanInit => ScanInv
<1> SUFFICES ASSUME ScanInit PROVE ScanInv
  OBVIOUS
<1> USE DEF ScanInit, NoScan, NoScanJob
<1>1. ScanTypes
  BY DEF ScanTypes, Local, Job, Answer
<1>2. HandsOnJob /\ RowsAreScans /\ DoneIsCovered /\ CompletedIsCovered
  BY DEF HandsOnJob, RowsAreScans, DoneIsCovered, CompletedIsCovered, Working, Written
<1> QED BY <1>1, <1>2 DEF ScanInv

LEMMA NextScanInv == ScanInv /\ [ScanNext]_scanVars => ScanInv'
<1> SUFFICES ASSUME ScanInv, [ScanNext]_scanVars
             PROVE  ScanInv'
  OBVIOUS
<1>0. ScanTypes /\ HandsOnJob /\ RowsAreScans /\ DoneIsCovered /\ CompletedIsCovered
  BY DEF ScanInv
<1>t. scans \in Seq(Observation) /\ scan \in Local /\ scanJob \in Job /\ Newest \in Nat
  BY <1>0 DEF ScanTypes, Newest
<1>n. NoScan \in Local /\ NoScan.warned = FALSE
  BY DEF NoScan, Local, Answer
<1> USE DEF scanVars, Step, Working, Written
<1>1. ASSUME NEW o \in Targets, NEW E \in SUBSET Engines, StartAnalysis(o, E)
      PROVE  ScanInv'
  <2> USE <1>1 DEF StartAnalysis
  <2>1. /\ scan' = [NoScan EXCEPT !.object = o, !.todo = E, !.warned = (E = {})]
        /\ scan' \in Local /\ scan'.object = o /\ scan'.todo = E
    BY <1>n DEF NoScan, Local
  <2>2. scanJob' \in Job /\ scanJob'.engines = E /\ scanJob'.object = o /\ scanJob'.state = "ANALYSING"
    BY DEF Job
  <2>3. ScanTypes' /\ RowsAreScans'
    BY <1>0, <2>1, <2>2 DEF ScanTypes, RowsAreScans
  <2>4. HandsOnJob' /\ DoneIsCovered' /\ CompletedIsCovered'
    BY <2>1, <2>2 DEF HandsOnJob, DoneIsCovered, CompletedIsCovered
  <2> QED BY <2>3, <2>4 DEF ScanInv
<1>2. ASSUME NEW e \in Engines, NextEngine(e)
      PROVE  ScanInv'
  <2> USE <1>2 DEF NextEngine
  <2>1. /\ scan' \in Local /\ scan'.object = scan.object /\ scan'.listed = scan.listed
        /\ scan'.engine = e /\ scan'.todo = scan.todo \ {e} /\ scan'.warned = scan.warned
    BY <1>t DEF Local
  <2>2. ScanTypes' /\ RowsAreScans' /\ HandsOnJob'
    BY <1>0, <2>1 DEF ScanTypes, RowsAreScans, HandsOnJob
  <2>3. DoneIsCovered'
    BY <2>1, CoverageStands DEF InHand
  <2> QED BY <2>2, <2>3, CompletedJobsStand DEF ScanInv
<1>3. CASE Copy
  <2> USE <1>3 DEF Copy
  <2>1. /\ scan' \in Local /\ scan'.object = scan.object /\ scan'.listed = scan.listed
        /\ scan'.engine = scan.engine /\ scan'.todo = scan.todo
        /\ scan.warned => scan'.warned
        /\ spc' = "next" => scan'.warned
    BY <1>t DEF Local, Raised, Answer, Failures
  <2>2. ScanTypes' /\ RowsAreScans' /\ HandsOnJob'
    BY <1>0, <2>1 DEF ScanTypes, RowsAreScans, HandsOnJob
  <2>3. DoneIsCovered'
    <3>1. CASE spc' = "next"
      BY <2>1, <3>1 DEF DoneIsCovered
    <3>2. CASE spc' \in Working
      BY <2>1, <3>2, CoverageStands DEF InHand
    <3> QED BY <3>1, <3>2
  <2> QED BY <2>2, <2>3, CompletedJobsStand DEF ScanInv
<1>4. CASE RunEngine
  <2> USE <1>4 DEF RunEngine
  <2>1. PICK r \in Answers(scan.engine) \cup {"ERROR"} : scan' = [scan EXCEPT !.result = r]
    OBVIOUS
  <2>2. r \in Answer
    BY <1>0, AnswersAreResults DEF HandsOnJob
  <2>3. /\ scan' \in Local /\ scan'.object = scan.object /\ scan'.listed = scan.listed
        /\ scan'.engine = scan.engine /\ scan'.todo = scan.todo /\ scan'.warned = scan.warned
    BY <1>t, <2>1, <2>2 DEF Local
  <2>4. ScanTypes' /\ RowsAreScans' /\ HandsOnJob'
    BY <1>0, <2>3 DEF ScanTypes, RowsAreScans, HandsOnJob
  <2>5. DoneIsCovered'
    BY <2>3, CoverageStands DEF InHand
  <2> QED BY <2>4, <2>5, CompletedJobsStand DEF ScanInv
<1>5. CASE WriteScan
  <2> USE <1>5 DEF WriteScan
  <2> DEFINE x == [object |-> scan.object, engine |-> scan.engine, result |-> scan.result]
  <2>1. x \in Observation /\ scans' = Append(scans, x)
    BY <1>0, <1>t DEF HandsOnJob, Observation, Local
  <2> HIDE DEF x
  <2>2. /\ scans' \in Seq(Observation) /\ DOMAIN scans \subseteq DOMAIN scans'
        /\ Newest' = Newest + 1 /\ Newest' \in DOMAIN scans' /\ scans'[Newest'] = x
    BY <1>t, <2>1 DEF Newest
  <2>3. ScanTypes' /\ RowsAreScans' /\ HandsOnJob'
    BY <1>0, <2>2 DEF ScanTypes, RowsAreScans, HandsOnJob, x
  <2>4. DoneIsCovered'
    BY <2>1, CoverageStands DEF InHand
  <2> QED BY <2>1, <2>3, <2>4, CompletedJobsStand DEF ScanInv
<1>6. CASE WriteReport
  <2> USE <1>6 DEF WriteReport
  <2>1. ScanTypes' /\ RowsAreScans' /\ HandsOnJob'
    BY <1>0 DEF ScanTypes, RowsAreScans, HandsOnJob, Newest
  <2>2. DoneIsCovered'
    BY CoverageStands DEF InHand
  <2> QED BY <2>1, <2>2, CompletedJobsStand DEF ScanInv
<1>7. CASE InsertRow
  <2> USE <1>7 DEF InsertRow
  <2>1. /\ scan' \in Local /\ scan'.object = scan.object /\ scan'.todo = scan.todo
        /\ ~scan'.warned => ~scan.warned /\ scan.result \notin Absent
                            /\ scan'.listed = scan.listed \cup {Newest}
    <3>1. CASE Newest \in table
      BY <1>t, <3>1 DEF Raised, Local
    <3>2. CASE Newest \notin table
      <4>1. PICK w \in BOOLEAN : w = (scan.warned \/ scan.result \in Absent)
        OBVIOUS
      <4>2. scan' = [scan EXCEPT !.listed = @ \cup {Newest}, !.warned = w]
        BY <3>2, <4>1
      <4>3. PICK L \in SUBSET Nat : L = scan.listed \cup {Newest}
        BY <1>t DEF Local
      <4>4. scan' = [scan EXCEPT !.listed = L, !.warned = w]
        BY <4>2, <4>3
      <4>5. scan' \in Local
        BY <1>t, <4>4 DEF Local
      <4>6. scan'.object = scan.object /\ scan'.todo = scan.todo /\ scan'.listed = L /\ scan'.warned = w
        BY <1>t, <4>4 DEF Local
      <4> QED BY <4>1, <4>3, <4>5, <4>6
    <3> QED BY <3>1, <3>2
  <2>2. ScanTypes' /\ RowsAreScans' /\ HandsOnJob'
    BY <1>0, <2>1 DEF ScanTypes, RowsAreScans, HandsOnJob, Newest
  <2>3. DoneIsCovered'
    <3> SUFFICES ASSUME ~scan'.warned, NEW e \in scanJob.engines \ scan.todo
                 PROVE  Covered(scan.listed, e, scan.object)'
      BY <2>1 DEF DoneIsCovered
    <3>1. CASE e = scan.engine
      <4>1. EvidenceOf(Newest, e, scan.object)'
        BY <1>0, <2>1, <3>1 DEF EvidenceOf, HandsOnJob, Newest
      <4> QED BY <2>1, <4>1 DEF Covered, Newest
    <3>2. CASE e # scan.engine
      <4>1. Covered(scan.listed, e, scan.object)
        BY <1>0, <2>1, <3>2 DEF DoneIsCovered, InHand
      <4> QED BY <2>1, <4>1 DEF Covered, EvidenceOf
    <3> QED BY <3>1, <3>2
  <2> QED BY <2>2, <2>3, CompletedJobsStand DEF ScanInv
<1>8. CASE FinishAnalysis
  <2> USE <1>8 DEF FinishAnalysis
  <2>1. /\ scanJob' \in Job /\ scanJob'.engines = scanJob.engines /\ scanJob'.object = scanJob.object
        /\ scanJob'.observations = scan.listed
        /\ scanJob'.state = "COMPLETED" => ~scan.warned
    BY <1>t DEF Job, Local
  <2>2. ScanTypes' /\ RowsAreScans' /\ HandsOnJob' /\ DoneIsCovered'
    BY <1>0, <1>n, <2>1 DEF ScanTypes, RowsAreScans, HandsOnJob, DoneIsCovered
  <2>3. CompletedIsCovered'
    <3> SUFFICES ASSUME ~scan.warned, NEW e \in scanJob.engines
                 PROVE  Covered(scanJob.observations, e, scanJob.object)'
      BY <2>1 DEF CompletedIsCovered
    <3>1. Covered(scan.listed, e, scan.object)
      BY <1>0 DEF DoneIsCovered, InHand
    <3> QED BY <1>0, <2>1, <3>1 DEF Covered, EvidenceOf, HandsOnJob
  <2> QED BY <2>2, <2>3 DEF ScanInv
<1>9. CASE RebuildScans \/ LoseScans
  <2> USE <1>9 DEF RebuildScans, LoseScans
  <2>1. ScanTypes' /\ RowsAreScans' /\ HandsOnJob' /\ DoneIsCovered' /\ CompletedIsCovered'
    BY <1>0 DEF ScanTypes, RowsAreScans, HandsOnJob, DoneIsCovered, CompletedIsCovered,
                Covered, EvidenceOf, Newest, InHand
  <2> QED BY <2>1 DEF ScanInv
<1>10. CASE KillScan
  <2> USE <1>10 DEF KillScan
  <2>1. ScanTypes' /\ RowsAreScans' /\ HandsOnJob' /\ DoneIsCovered'
    BY <1>0, <1>n DEF ScanTypes, RowsAreScans, HandsOnJob, DoneIsCovered
  <2> QED BY <2>1, CompletedJobsStand DEF ScanInv
<1>11. CASE UNCHANGED scanVars
  BY <1>0, <1>11 DEF ScanInv, ScanTypes, RowsAreScans, HandsOnJob, DoneIsCovered, CompletedIsCovered,
                     Covered, EvidenceOf, Newest, InHand
<1> QED BY <1>1, <1>2, <1>3, <1>4, <1>5, <1>6, <1>7, <1>8, <1>9, <1>10, <1>11 DEF ScanNext

THEOREM ScanInvariant == ScanSpec => []ScanInv
BY InitScanInv, NextScanInv, PTL DEF ScanSpec

-----------------------------------------------------------------------------
(* run_analysis: a job that completed without a warning rests on evidence  *)
(* of every one of its engines, through any kills and rebuilds.            *)
THEOREM CompletedJobsHaveEvidence == ScanSpec => []CompletedJobHasEvidence
<1>1. ScanInv => CompletedJobHasEvidence
  BY DEF ScanInv, CompletedIsCovered, Covered, EvidenceOf, CompletedJobHasEvidence
<1> QED BY <1>1, ScanInvariant, PTL

(* aggregate over the rows of the index: a detection is never hidden by    *)
(* what is scanned, killed or rebuilt after it.                            *)
THEOREM DetectionsStayVisible == ScanSpec => DetectionStaysVisible
<1>1. ScanInv /\ [ScanNext]_scanVars =>
          [\A o \in Targets : Incriminated(table, o) /\ ~tableLost' => Incriminated(table, o)']_scanVars
  <2> SUFFICES ASSUME ScanInv, ScanNext, ~tableLost',
                      NEW o \in Targets, Incriminated(table, o)
               PROVE  Incriminated(table, o)'
    BY DEF scanVars
  <2>1. PICK n \in table : scans[n].object = o /\ scans[n].result = "DETECTED"
    <3>1. "DETECTED" \in {scans[i].result : i \in {i \in table : scans[i].object = o}}
      BY DetectionIncriminates DEF Incriminated, StatusIn
    <3> QED BY <3>1
  <2>2. n \in DOMAIN scans /\ scans \in Seq(Observation)
    BY DEF ScanInv, RowsAreScans, ScanTypes
  <2>3. n \in table'
    BY <2>1, <2>2 DEF ScanNext, StartAnalysis, NextEngine, Copy, RunEngine, WriteScan, WriteReport,
                      InsertRow, FinishAnalysis, RebuildScans, LoseScans, KillScan
  <2>4. scans'[n] = scans[n]
    <3>1. CASE WriteScan
      BY <2>2, <3>1 DEF WriteScan
    <3>2. CASE ~WriteScan
      BY <3>2 DEF ScanNext, StartAnalysis, NextEngine, Copy, RunEngine, WriteReport,
                  InsertRow, FinishAnalysis, RebuildScans, LoseScans, KillScan
    <3> QED BY <3>1, <3>2
  <2>5. "DETECTED" \in {scans'[i].result : i \in {i \in table' : scans'[i].object = o}}
    BY <2>1, <2>3, <2>4
  <2> QED BY <2>5, DetectionIncriminates DEF Incriminated, StatusIn
<1> QED BY <1>1, ScanInvariant, PTL DEF ScanSpec, DetectionStaysVisible
=============================================================================
