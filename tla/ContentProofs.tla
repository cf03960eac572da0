--------------------------- MODULE ContentProofs ---------------------------
(***************************************************************************)
(* Proofs about what is found in preserved objects and what is given out:  *)
(* AnalysisJobs and ResourceBroker.                                        *)
(*                                                                         *)
(* Analysis: a job that runs is open and its run writes no other job file; *)
(* where the policy preserves, every container on the stack is an object   *)
(* and recorded under its own identity, and the member in hand is one that *)
(* the container lists and is an object before it is related.  That a      *)
(* COMPLETE job is exhaustive rests on the traversal: each container to be *)
(* opened is next, on the stack, in hand, or done with, and a container on *)
(* the stack has had every file before its next member copied out.         *)
(*                                                                         *)
(* Resource broker, for one operator: between its check of a file and the  *)
(* write a command holds no lock, so that two commands may write the same  *)
(* sidecar or the same workspace file one after the other.  The invariant  *)
(* says what a command that is about to write has found out: the sidecar   *)
(* it defines does not exist and closes no cycle, the generation it writes *)
(* is not there, and nothing lies where it copies to.                      *)
(***************************************************************************)
EXTENDS AnalysisJobs, ResourceBroker, SequenceTheorems, WellFoundedInduction, TLAPS

-----------------------------------------------------------------------------
(* Analysis jobs.                                                          *)

(* The inductive invariant.                                                *)

IsFrame(f) == f = [at |-> f.at, is |-> f.is, parent |-> f.parent, todo |-> f.todo]
IsRun(r) ==
    /\ r = [id |-> r.id, plan |-> r.plan, items |-> r.items, stack |-> r.stack,
            next |-> r.next, nested |-> r.nested, bytes |-> r.bytes, warned |-> r.warned]
    /\ r.stack \in Seq(Range(r.stack))
    /\ \A f \in Range(r.stack) : IsFrame(f)

IsJob(job) == job = [plan |-> job.plan, state |-> job.state, items |-> job.items]
JobFiles == jobs = [j \in JobIds |-> jobs[j]] /\ \A j \in JobIds : IsJob(jobs[j])

(* The job of a running analyze() is not final, and its file is the only   *)
(* one that the analysis writes.                                           *)
Running == stage # "idle" => run.id \in JobIds /\ jobs[run.id].state \in Open

(* Where the policy preserves, a container is an object and is recorded    *)
(* under its own identity.                                                 *)
Anchored(place) == place.parent = place.is /\ place.is \in objects
Rooted ==
    /\ world.root \in objects
    /\ Preserves(run.plan) =>
         /\ \A f \in Range(run.stack) : Anchored(f)
         /\ stage \in {"start", "visit"} => Anchored(run.next)

(* The member in hand is one that the container lists, and is an object    *)
(* before it is related.                                                   *)
InHand ==
    /\ stage \in {"member", "ingest", "relate"} => run.stack # <<>>
    /\ stage \in {"ingest", "relate"} => Preserves(run.plan) /\ Top.todo \in DOMAIN Listing(Here)
    /\ stage = "relate" => Yield.is \in objects

AnalysisInv == IsRun(run) /\ JobFiles /\ Running /\ Rooted /\ InHand /\ RelationsAreTrue

-----------------------------------------------------------------------------
(* The stack of containers.                                                *)

LEMMA LastIsThere ==
    ASSUME NEW s, s \in Seq(Range(s)), s # <<>>
    PROVE  Last(s) \in Range(s)
<1>1. Len(s) \in Nat \ {0} /\ DOMAIN s = 1..Len(s)
  BY EmptySeq, LenProperties
<1>2. Len(s) \in 1..Len(s)
  BY <1>1
<1> QED BY <1>1, <1>2 DEF Last, Range

LEMMA AppendAddsOne ==
    ASSUME NEW s, s \in Seq(Range(s)), NEW f
    PROVE  /\ Append(s, f) \in Seq(Range(Append(s, f)))
           /\ Range(Append(s, f)) \subseteq Range(s) \cup {f}
           /\ Append(s, f) # <<>>
<1> DEFINE S == Range(s) \cup {f}
           t == Append(s, f)
<1>1. s \in Seq(S) /\ f \in S
  BY SeqMonotonic
<1>2. t \in Seq(S) /\ Len(t) = Len(s) + 1
  BY <1>1, AppendProperties
<1>3. Range(t) \in SUBSET S /\ t \in Seq(Range(t))
  BY <1>2, RangeOfSeq, SeqOfRange
<1>4. Len(s) \in Nat
  BY <1>1, LenProperties
<1>5. t # <<>>
  BY <1>2, <1>4, EmptySeq
<1> QED BY <1>3, <1>5

LEMMA FrontIsPart ==
    ASSUME NEW s, s \in Seq(Range(s)), s # <<>>
    PROVE  /\ Front(s) \in Seq(Range(Front(s)))
           /\ Range(Front(s)) \subseteq Range(s)
           /\ Len(s) > 1 => Front(s) # <<>>
<1> DEFINE S == Range(s)
           t == Front(s)
<1>1. Len(s) \in Nat \ {0} /\ DOMAIN s = 1..Len(s)
  BY EmptySeq, LenProperties
<1>2. \A i \in 1..Len(s) - 1 : s[i] \in S
  BY <1>1 DEF Range
<1>3. Len(s) - 1 \in Nat /\ t = SubSeq(s, 1, Len(s) - 1)
  BY <1>1 DEF Front
<1>4. t \in Seq(S) /\ Len(t) = Len(s) - 1
  BY <1>1, <1>2, <1>3
<1>5. Range(t) \in SUBSET S /\ t \in Seq(Range(t))
  BY <1>4, RangeOfSeq, SeqOfRange
<1>6. Len(s) > 1 => t # <<>>
  BY <1>1, <1>4, EmptySeq
<1> HIDE DEF t, S
<1> QED BY <1>5, <1>6 DEF t, S

(* Stepping to the next member changes neither what a container is nor     *)
(* where it is recorded.                                                   *)
LEMMA NextMemberKeeps ==
    ASSUME NEW s, s \in Seq(Range(s)), s # <<>>, \A f \in Range(s) : IsFrame(f)
    PROVE  /\ NextMember(s) \in Seq(Range(NextMember(s)))
           /\ NextMember(s) # <<>>
           /\ \A f \in Range(NextMember(s)) :
                IsFrame(f) /\ \E g \in Range(s) : f.is = g.is /\ f.parent = g.parent
<1> DEFINE next == [Last(s) EXCEPT !.todo = @ + 1]
<1>1. Last(s) \in Range(s) /\ IsFrame(Last(s))
  BY LastIsThere
<1>2. IsFrame(next) /\ next.is = Last(s).is /\ next.parent = Last(s).parent
  BY <1>1 DEF IsFrame
<1>3. Front(s) \in Seq(Range(Front(s))) /\ Range(Front(s)) \subseteq Range(s)
  BY FrontIsPart
<1>4. NextMember(s) = Append(Front(s), next)
  BY DEF NextMember
<1> HIDE DEF next
<1>5. /\ NextMember(s) \in Seq(Range(NextMember(s)))
      /\ Range(NextMember(s)) \subseteq Range(Front(s)) \cup {next}
      /\ NextMember(s) # <<>>
  BY <1>3, <1>4, AppendAddsOne
<1> QED BY <1>1, <1>2, <1>3, <1>5

-----------------------------------------------------------------------------
(* The bytes do not change, so that a listing stays what it is.            *)
LEMMA ListingStands ==
    ASSUME UNCHANGED world
    PROVE  \A c : Listing(c)' = Listing(c)
BY DEF Listing

(* The invariant holds of no run and of nothing in hand.                   *)
LEMMA NoRunIsRun == IsRun(NoRun) /\ NoRun.plan = NoPlan /\ ~Preserves(NoPlan) /\ Range(NoRun.stack) = {}
<1>1. NoRun.stack = <<>> /\ Range(NoRun.stack) = {}
  BY DEF NoRun, Range
<1>2. <<>> \in Seq(Range(<<>>))
  BY EmptySeq
<1> QED BY <1>1, <1>2 DEF IsRun, NoRun, NoPlan, Preserves

(* A step that writes no relationship and takes no object away.            *)
LEMMA RelationsStay ==
    ASSUME RelationsAreTrue, UNCHANGED <<world, relations>>, objects \subseteq objects'
    PROVE  RelationsAreTrue'
<1>1. \A c : Listing(c)' = Listing(c)
  BY ListingStands
<1> QED BY <1>1 DEF RelationsAreTrue

(* The finally clause ends the job of the run and no other.                *)
LEMMA EndKeeps ==
    ASSUME AnalysisInv, stage # "idle", NEW local, local.id = run.id, NEW state,
           End(local, state), UNCHANGED world
    PROVE  AnalysisInv'
<1>1. /\ run' = NoRun /\ stage' = "idle" /\ UNCHANGED <<world, objects, relations>>
      /\ jobs' = [jobs EXCEPT ![run.id] =
                    [plan |-> local.plan, state |-> state, items |-> local.items]]
  BY DEF End
<1>2. IsRun(run)'
  BY <1>1, NoRunIsRun
<1>3. JobFiles'
  BY <1>1 DEF AnalysisInv, JobFiles, IsJob
<1>4. Rooted'
  BY <1>1, NoRunIsRun DEF AnalysisInv, Rooted
<1>5. RelationsAreTrue'
  BY <1>1, RelationsStay DEF AnalysisInv
<1>6. Running' /\ InHand'
  BY <1>1 DEF Running, InHand
<1> QED BY <1>2, <1>3, <1>4, <1>5, <1>6 DEF AnalysisInv

LEMMA CreateKeeps ==
    ASSUME AnalysisInv, NEW id \in JobIds, NEW plan, Create(id, plan)
    PROVE  AnalysisInv'
<1> DEFINE first == [at |-> <<>>, is |-> world.root, parent |-> world.root]
<1>1. /\ run' = [NoRun EXCEPT !.id = id, !.plan = plan, !.next = first]
      /\ jobs' = [jobs EXCEPT ![id] = [plan |-> plan, state |-> "PLANNED", items |-> <<>>]]
      /\ stage' = "start" /\ UNCHANGED <<world, objects, relations>>
  BY DEF Create
<1>2. /\ run'.id = id /\ run'.stack = <<>> /\ run'.next = first /\ Range(run'.stack) = {}
      /\ IsRun(run)'
  BY <1>1, NoRunIsRun DEF IsRun, NoRun
<1>3. JobFiles' /\ jobs'[id].state = "PLANNED"
  BY <1>1 DEF AnalysisInv, JobFiles, IsJob
<1>4. Running'
  BY <1>2, <1>3 DEF Running, Open
<1>5. Rooted'
  BY <1>1, <1>2 DEF AnalysisInv, Rooted, Anchored
<1>6. RelationsAreTrue'
  BY <1>1, RelationsStay DEF AnalysisInv
<1>7. InHand'
  BY <1>1 DEF InHand
<1> QED BY <1>2, <1>3, <1>4, <1>5, <1>6, <1>7 DEF AnalysisInv

LEMMA StartKeeps == ASSUME AnalysisInv, Start PROVE AnalysisInv'
<1>1. /\ jobs' = [jobs EXCEPT ![run.id].state = "RUNNING"] /\ run.id \in JobIds
      /\ stage = "start" /\ stage' = "visit" /\ UNCHANGED <<world, objects, relations, run>>
  BY DEF Start, AnalysisInv, Running
<1>2. JobFiles' /\ jobs'[run.id].state = "RUNNING"
  BY <1>1 DEF AnalysisInv, JobFiles, IsJob
<1>3. Running'
  BY <1>1, <1>2 DEF Running, Open
<1>4. Rooted'
  BY <1>1 DEF AnalysisInv, Rooted, Anchored
<1>5. RelationsAreTrue'
  BY <1>1, RelationsStay DEF AnalysisInv
<1>6. InHand'
  BY <1>1 DEF InHand
<1> QED BY <1>1, <1>2, <1>3, <1>4, <1>5, <1>6 DEF AnalysisInv

(* A step of the run that writes no job file keeps its job open.           *)
LEMMA JobGoesOn ==
    ASSUME AnalysisInv, stage # "idle", run'.id = run.id, UNCHANGED jobs
    PROVE  JobFiles' /\ Running'
BY DEF AnalysisInv, JobFiles, Running

LEMMA VisitKeeps == ASSUME AnalysisInv, Visit PROVE AnalysisInv'
<1> DEFINE frame == [at |-> run.next.at, is |-> run.next.is, parent |-> run.next.parent, todo |-> 1]
<1>1. stage = "visit" /\ stage # "idle" /\ UNCHANGED world
  BY DEF Visit
<1>2. ASSUME NEW items, NEW state, End([run EXCEPT !.items = items], state)
      PROVE  AnalysisInv'
  <2>1. [run EXCEPT !.items = items].id = run.id
    BY DEF AnalysisInv, IsRun
  <2> QED BY <1>1, <1>2, <2>1, EndKeeps
<1>3. ASSUME NEW state, End(run, state) PROVE AnalysisInv'
  BY <1>1, <1>3, EndKeeps
<1>4. ASSUME NEW nested, NEW warned,
             run' = [run EXCEPT !.nested = nested, !.stack = Append(@, frame),
                                !.warned = warned, !.next = NoVisit],
             stage' = "member", UNCHANGED <<objects, relations, jobs>>
      PROVE  AnalysisInv'
  <2>1. /\ run'.id = run.id /\ run'.plan = run.plan /\ run'.stack = Append(run.stack, frame)
        /\ run' = [id |-> run'.id, plan |-> run'.plan, items |-> run'.items,
                   stack |-> run'.stack, next |-> run'.next, nested |-> run'.nested,
                   bytes |-> run'.bytes, warned |-> run'.warned]
    BY <1>4 DEF AnalysisInv, IsRun
  <2>2. /\ run'.stack \in Seq(Range(run'.stack)) /\ run'.stack # <<>>
        /\ Range(run'.stack) \subseteq Range(run.stack) \cup {frame}
    <3>1. run.stack \in Seq(Range(run.stack))
      BY DEF AnalysisInv, IsRun
    <3>2. PICK stack, f : stack = run.stack /\ f = frame
      OBVIOUS
    <3>3. /\ Append(stack, f) \in Seq(Range(Append(stack, f))) /\ Append(stack, f) # <<>>
          /\ Range(Append(stack, f)) \subseteq Range(stack) \cup {f}
      BY <3>1, <3>2, AppendAddsOne
    <3>4. run'.stack = Append(stack, f)
      BY <2>1, <3>2
    <3> HIDE DEF frame
    <3> QED BY <3>2, <3>3, <3>4
  <2>3. IsFrame(frame) /\ frame.is = run.next.is /\ frame.parent = run.next.parent
    BY DEF IsFrame
  <2>4. IsRun(run)'
    BY <2>1, <2>2, <2>3 DEF AnalysisInv, IsRun
  <2>5. Preserves(run.plan) => Anchored(frame)
    BY <1>1, <2>3 DEF AnalysisInv, Rooted, Anchored
  <2>6. Rooted'
    BY <1>1, <1>4, <2>1, <2>2, <2>5 DEF AnalysisInv, Rooted, Anchored
  <2>7. InHand'
    BY <1>4, <2>2 DEF InHand
  <2>8. JobFiles' /\ Running'
    BY <1>1, <1>4, <2>1, JobGoesOn
  <2>9. RelationsAreTrue'
    BY <1>1, <1>4, RelationsStay DEF AnalysisInv
  <2> QED BY <2>4, <2>6, <2>7, <2>8, <2>9 DEF AnalysisInv
<1> QED BY <1>2, <1>3, <1>4 DEF Visit

(* Going on to the next member, or into the copy of this one.              *)
LEMMA SteppedStack ==
    ASSUME AnalysisInv, run.stack # <<>>
    PROVE  /\ NextMember(run.stack) \in Seq(Range(NextMember(run.stack)))
           /\ NextMember(run.stack) # <<>>
           /\ \A f \in Range(NextMember(run.stack)) :
                IsFrame(f) /\ (Preserves(run.plan) => Anchored(f))
<1>1. run.stack \in Seq(Range(run.stack)) /\ \A f \in Range(run.stack) : IsFrame(f)
  BY DEF AnalysisInv, IsRun
<1>2. \A f \in Range(NextMember(run.stack)) :
        IsFrame(f) /\ \E g \in Range(run.stack) : f.is = g.is /\ f.parent = g.parent
  BY <1>1, NextMemberKeeps
<1>3. Preserves(run.plan) => \A g \in Range(run.stack) : Anchored(g)
  BY DEF AnalysisInv, Rooted
<1>4. Preserves(run.plan) => \A f \in Range(NextMember(run.stack)) : Anchored(f)
  BY <1>2, <1>3 DEF Anchored
<1> QED BY <1>1, <1>2, <1>4, NextMemberKeeps

LEMMA GoOnKeeps ==
    ASSUME AnalysisInv, stage \in {"member", "relate"}, NEW items, NEW bytes, GoOn(items, bytes),
           UNCHANGED <<world, objects, jobs>>, RelationsAreTrue',
           Preserves(run.plan) => stage = "relate"
    PROVE  AnalysisInv'
<1> DEFINE into == [at |-> Where, is |-> Yield.is, parent |-> ChildId]
<1>1. /\ run' = [run EXCEPT !.items = items, !.bytes = bytes, !.stack = NextMember(@),
                            !.next = IF Opens THEN into ELSE NoVisit]
      /\ stage' = IF Opens THEN "visit" ELSE "member"
  BY DEF GoOn
<1>2. PICK next : next = run'.next /\ (stage' = "visit" => next = into)
  <2>1. run'.next = IF Opens THEN into ELSE NoVisit
    BY <1>1 DEF AnalysisInv, IsRun
  <2> QED BY <1>1, <2>1
<1>3. run.stack # <<>> /\ stage # "idle"
  BY DEF AnalysisInv, InHand
<1>4. /\ run' = [id |-> run.id, plan |-> run.plan, items |-> items,
                 stack |-> NextMember(run.stack), next |-> next, nested |-> run.nested,
                 bytes |-> bytes, warned |-> run.warned]
  BY <1>1, <1>2 DEF AnalysisInv, IsRun
<1>5. run'.id = run.id /\ run'.plan = run.plan /\ run'.stack = NextMember(run.stack)
  BY <1>4
<1>6. IsRun(run)'
  BY <1>3, <1>4, SteppedStack DEF IsRun
<1>7. Preserves(run.plan) /\ stage' = "visit" => Anchored(next)
  BY <1>2 DEF AnalysisInv, InHand, ChildId, Anchored
<1>8. stage' \in {"visit", "member"}
  BY <1>1
<1>9. Rooted'
  <2>1. Preserves(run.plan) => \A f \in Range(run'.stack) : Anchored(f)
    BY <1>3, <1>5, SteppedStack
  <2> QED BY <1>2, <1>5, <1>7, <1>8, <2>1 DEF AnalysisInv, Rooted, Anchored
<1>10. InHand'
  BY <1>3, <1>5, <1>8, SteppedStack DEF InHand
<1>11. JobFiles' /\ Running'
  BY <1>3, <1>5, JobGoesOn
<1> QED BY <1>6, <1>9, <1>10, <1>11 DEF AnalysisInv

LEMMA ReturnKeeps == ASSUME AnalysisInv, Return PROVE AnalysisInv'
<1>1. stage = "member" /\ stage # "idle" /\ run.stack # <<>> /\ UNCHANGED world
  BY DEF Return, AnalysisInv, InHand
<1>2. ASSUME NEW state, End(run, state) PROVE AnalysisInv'
  BY <1>1, <1>2, EndKeeps
<1>3. ASSUME Len(run.stack) > 1, run' = [run EXCEPT !.stack = Front(@)],
             UNCHANGED <<objects, relations, jobs, stage>>
      PROVE  AnalysisInv'
  <2>1. run' = [id |-> run.id, plan |-> run.plan, items |-> run.items,
                stack |-> Front(run.stack), next |-> run.next, nested |-> run.nested,
                bytes |-> run.bytes, warned |-> run.warned]
    BY <1>3 DEF AnalysisInv, IsRun
  <2>2. run'.id = run.id /\ run'.plan = run.plan /\ run'.stack = Front(run.stack)
    BY <2>1
  <2>3. /\ Front(run.stack) \in Seq(Range(Front(run.stack))) /\ Front(run.stack) # <<>>
        /\ Range(Front(run.stack)) \subseteq Range(run.stack)
    BY <1>1, <1>3, FrontIsPart DEF AnalysisInv, IsRun
  <2>4. IsRun(run)'
    BY <2>1, <2>3 DEF AnalysisInv, IsRun
  <2>5. Rooted'
    BY <1>1, <1>3, <2>2, <2>3 DEF AnalysisInv, Rooted, Anchored
  <2>6. InHand'
    BY <1>1, <1>3, <2>2, <2>3 DEF InHand
  <2>7. JobFiles' /\ Running' /\ RelationsAreTrue'
    BY <1>1, <1>3, <2>2, JobGoesOn, RelationsStay DEF AnalysisInv
  <2> QED BY <2>4, <2>5, <2>6, <2>7 DEF AnalysisInv
<1> QED BY <1>2, <1>3 DEF Return

(* A step that leaves the stack as it is.                                  *)
LEMMA SameStack ==
    ASSUME AnalysisInv, stage \in {"member", "ingest"}, NEW items, NEW bytes,
           run' = [run EXCEPT !.items = items, !.bytes = bytes],
           UNCHANGED <<world, relations, jobs>>, objects \subseteq objects',
           stage' \in {"ingest", "relate"}
    PROVE  /\ IsRun(run)' /\ JobFiles' /\ Running' /\ Rooted' /\ RelationsAreTrue'
           /\ run'.plan = run.plan /\ run'.stack = run.stack /\ run.stack # <<>>
<1>1. run' = [id |-> run.id, plan |-> run.plan, items |-> items,
              stack |-> run.stack, next |-> run.next, nested |-> run.nested,
              bytes |-> bytes, warned |-> run.warned]
  BY DEF AnalysisInv, IsRun
<1>2. run'.id = run.id /\ run'.plan = run.plan /\ run'.stack = run.stack
  BY <1>1
<1>3. IsRun(run)'
  BY <1>1 DEF AnalysisInv, IsRun
<1>4. Rooted'
  BY <1>2 DEF AnalysisInv, Rooted, Anchored
<1>5. JobFiles' /\ Running' /\ RelationsAreTrue'
  BY <1>2, JobGoesOn, RelationsStay DEF AnalysisInv
<1> QED BY <1>2, <1>3, <1>4, <1>5 DEF AnalysisInv, InHand

LEMMA TakeMemberKeeps == ASSUME AnalysisInv, TakeMember PROVE AnalysisInv'
<1> DEFINE found == [run EXCEPT !.items = Status("DISCOVERED")]
<1>1. stage = "member" /\ stage # "idle" /\ UNCHANGED world /\ Top.todo \in DOMAIN Listing(Here)
  BY DEF TakeMember
<1>2. found.id = run.id
  BY DEF AnalysisInv, IsRun
<1>3. ASSUME NEW local \in {run, found}, NEW state, End(local, state) PROVE AnalysisInv'
  BY <1>1, <1>2, <1>3, EndKeeps
<1>4. ASSUME run' = [found EXCEPT !.stack = NextMember(@)],
             UNCHANGED <<objects, relations, jobs, stage>>
      PROVE  AnalysisInv'
  <2>1. run.stack # <<>>
    BY <1>1 DEF AnalysisInv, InHand
  <2>2. PICK items : items = Status("DISCOVERED")
    OBVIOUS
  <2>3. run' = [id |-> run.id, plan |-> run.plan, items |-> items,
                stack |-> NextMember(run.stack), next |-> run.next, nested |-> run.nested,
                bytes |-> run.bytes, warned |-> run.warned]
    BY <1>4, <2>2 DEF AnalysisInv, IsRun
  <2>4. run'.id = run.id /\ run'.plan = run.plan /\ run'.stack = NextMember(run.stack)
    BY <2>3
  <2>5. IsRun(run)'
    BY <2>1, <2>3, SteppedStack DEF IsRun
  <2>6. Rooted'
    <3>1. Preserves(run.plan) => \A f \in Range(run'.stack) : Anchored(f)
      BY <2>1, <2>4, SteppedStack
    <3> QED BY <1>1, <1>4, <2>4, <3>1 DEF AnalysisInv, Rooted, Anchored
  <2>7. InHand'
    BY <1>1, <1>4, <2>1, <2>4, SteppedStack DEF InHand
  <2>8. JobFiles' /\ Running' /\ RelationsAreTrue'
    BY <1>1, <1>4, <2>4, JobGoesOn, RelationsStay DEF AnalysisInv
  <2> QED BY <2>5, <2>6, <2>7, <2>8 DEF AnalysisInv
<1>5. ASSUME Preserves(run.plan), NEW items, NEW bytes,
             run' = [run EXCEPT !.items = items, !.bytes = bytes], stage' = "ingest",
             UNCHANGED <<objects, relations, jobs>>
      PROVE  AnalysisInv'
  <2>1. /\ IsRun(run)' /\ JobFiles' /\ Running' /\ Rooted' /\ RelationsAreTrue'
        /\ run'.plan = run.plan /\ run'.stack = run.stack /\ run.stack # <<>>
    BY <1>1, <1>5, SameStack
  <2>2. Top' = Top /\ Here' = Here
    BY <2>1 DEF Top, Here
  <2>3. Listing(Here)' = Listing(Here)
    BY <1>1, <2>2 DEF Listing
  <2>4. InHand'
    BY <1>1, <1>5, <2>1, <2>2, <2>3 DEF InHand
  <2> QED BY <2>1, <2>4 DEF AnalysisInv
<1>6. ASSUME ~Preserves(run.plan), NEW items, NEW bytes, GoOn(items, bytes),
             UNCHANGED <<objects, relations, jobs>>
      PROVE  AnalysisInv'
  BY <1>1, <1>6, GoOnKeeps, RelationsStay DEF AnalysisInv
<1>7. CASE Preserves(run.plan)
  BY <1>3, <1>4, <1>5, <1>7 DEF TakeMember
<1>8. CASE ~Preserves(run.plan)
  BY <1>3, <1>4, <1>6, <1>8 DEF TakeMember
<1> QED BY <1>7, <1>8

LEMMA IngestKeeps == ASSUME AnalysisInv, Ingest PROVE AnalysisInv'
<1>1. /\ stage = "ingest" /\ stage' = "relate" /\ objects' = objects \cup {Yield.is}
      /\ run' = [run EXCEPT !.items = Status("PRESERVED")] /\ UNCHANGED <<world, relations, jobs>>
  BY DEF Ingest
<1>2. PICK items, bytes : run' = [run EXCEPT !.items = items, !.bytes = bytes]
  <2>1. run' = [run EXCEPT !.items = Status("PRESERVED"), !.bytes = run.bytes]
    BY <1>1 DEF AnalysisInv, IsRun
  <2> QED BY <2>1
<1>3. /\ IsRun(run)' /\ JobFiles' /\ Running' /\ Rooted' /\ RelationsAreTrue'
      /\ run'.plan = run.plan /\ run'.stack = run.stack /\ run.stack # <<>>
  BY <1>1, <1>2, SameStack
<1>4. Top' = Top /\ Here' = Here
  BY <1>3 DEF Top, Here
<1>5. Listing(Here)' = Listing(Here) /\ Yield' = Yield
  BY <1>1, <1>4 DEF Listing, Yield
<1>6. Preserves(run.plan) /\ Top.todo \in DOMAIN Listing(Here)
  BY <1>1 DEF AnalysisInv, InHand
<1>7. InHand'
  BY <1>1, <1>3, <1>4, <1>5, <1>6 DEF InHand
<1> QED BY <1>3, <1>7 DEF AnalysisInv

(* The relationship is written between two objects, from the container to  *)
(* what it lists.                                                          *)
LEMMA RelateKeeps == ASSUME AnalysisInv, Relate PROVE AnalysisInv'
<1>1. stage = "relate" /\ stage # "idle" /\ UNCHANGED world
  BY DEF Relate
<1>2. CASE Refused /\ End(run, "FAILED")
  BY <1>1, <1>2, EndKeeps
<1>3. CASE ~Refused /\ relations' = relations \cup {Key} /\ GoOn(Status("RELATED"), run.bytes)
           /\ UNCHANGED <<objects, jobs>>
  <2>1. /\ Preserves(run.plan) /\ Top.todo \in DOMAIN Listing(Here) /\ Yield.is \in objects
        /\ run.stack # <<>>
    BY <1>1 DEF AnalysisInv, InHand
  <2>2. Anchored(Top)
    BY <2>1, LastIsThere DEF AnalysisInv, IsRun, Rooted, Top
  <2>3. /\ Key.parent = Here /\ Key.child = Yield.is /\ Key.name = Member.name
        /\ Here \in objects
    BY <2>2 DEF Key, Here, Anchored
  <2>4. relations' = relations \cup {Key}
    BY <1>3
  <2>5. \A c : Listing(c)' = Listing(c)
    BY <1>1, ListingStands
  <2>6. RelationsAreTrue'
    <3>1. /\ Listing(Key.parent)[Top.todo].name = Key.name
          /\ Extracted(world, Key.parent, Top.todo).is = Key.child
      BY <2>3 DEF Member, Yield
    <3>2. ASSUME NEW key \in relations \cup {Key}
          PROVE  /\ {key.parent, key.child} \subseteq objects
                 /\ \E i \in DOMAIN Listing(key.parent) :
                      /\ Listing(key.parent)[i].name = key.name
                      /\ Extracted(world, key.parent, i).is = key.child
      <4>1. CASE key \in relations
        BY <4>1 DEF AnalysisInv, RelationsAreTrue
      <4>2. CASE key = Key
        BY <2>1, <2>3, <3>1, <4>2
      <4> QED BY <4>1, <4>2
    <3> QED BY <1>1, <1>3, <2>4, <2>5, <3>2 DEF RelationsAreTrue
  <2> QED BY <1>1, <1>3, <2>6, GoOnKeeps
<1> QED BY <1>2, <1>3 DEF Relate

-----------------------------------------------------------------------------
LEMMA AnalysisStep == AnalysisInv /\ [AnalysisNext]_analysisVars => AnalysisInv'
<1> SUFFICES ASSUME AnalysisInv, [AnalysisNext]_analysisVars PROVE AnalysisInv'
  OBVIOUS
<1>1. CASE \E plan \in Plans : Analyze(plan)
  BY <1>1, CreateKeeps DEF Analyze, JobIds
<1>2. CASE \E old \in JobIds, id \in JobIds : Retry(old, id)
  BY <1>2, CreateKeeps DEF Retry
<1>3. CASE GiveUp
  <2>1. stage # "idle" /\ UNCHANGED world /\ \E state \in {"TIMEOUT", "FAILED"} : End(run, state)
    BY <1>3 DEF GiveUp
  <2> QED BY <2>1, EndKeeps
<1>4. CASE UNCHANGED analysisVars
  <2>1. UNCHANGED <<world, objects, relations, jobs, run, stage>>
    BY <1>4 DEF analysisVars
  <2>2. RelationsAreTrue'
    BY <2>1, RelationsStay DEF AnalysisInv
  <2>3. Top' = Top /\ Here' = Here /\ Listing(Here)' = Listing(Here) /\ Yield' = Yield
    BY <2>1 DEF Top, Here, Listing, Yield
  <2>4. IsRun(run)' /\ JobFiles' /\ Running' /\ Rooted'
    BY <2>1 DEF AnalysisInv, JobFiles, Running, Rooted, Anchored
  <2>5. InHand'
    BY <2>1, <2>3 DEF AnalysisInv, InHand
  <2> QED BY <2>2, <2>4, <2>5 DEF AnalysisInv
<1>5. CASE Kill
  <2>1. run' = NoRun /\ stage' = "idle" /\ UNCHANGED <<world, objects, relations, jobs>>
    BY <1>5 DEF Kill
  <2>2. RelationsAreTrue'
    BY <2>1, RelationsStay DEF AnalysisInv
  <2>3. IsRun(run)' /\ JobFiles' /\ Running' /\ Rooted' /\ InHand'
    BY <2>1, NoRunIsRun DEF AnalysisInv, JobFiles, Running, Rooted, InHand
  <2> QED BY <2>2, <2>3 DEF AnalysisInv
<1> QED BY <1>1, <1>2, <1>3, <1>4, <1>5, StartKeeps, VisitKeeps, ReturnKeeps, TakeMemberKeeps,
           IngestKeeps, RelateKeeps DEF AnalysisNext

LEMMA AnalysisStarts == AnalysisInit => AnalysisInv
<1> SUFFICES ASSUME AnalysisInit PROVE AnalysisInv
  OBVIOUS
<1>1. /\ objects = {world.root} /\ relations = {} /\ jobs = [j \in JobIds |-> NoJob]
      /\ run = NoRun /\ stage = "idle"
  BY DEF AnalysisInit
<1>2. IsRun(run) /\ Rooted
  BY <1>1, NoRunIsRun DEF Rooted
<1>3. JobFiles
  BY <1>1 DEF JobFiles, IsJob, NoJob
<1>4. RelationsAreTrue
  BY <1>1 DEF RelationsAreTrue
<1>5. Running /\ InHand
  BY <1>1 DEF Running, InHand
<1> QED BY <1>2, <1>3, <1>4, <1>5 DEF AnalysisInv

(* The inductive invariant of AnalysisManager.                             *)
THEOREM AnalysisInvariant == AnalysisSpec => []AnalysisInv
BY AnalysisStarts, AnalysisStep, PTL DEF AnalysisSpec

(* A CONTAINS relationship joins archived objects and is true of the       *)
(* bytes, whatever was analysed, retried, refused or cut off meanwhile     *)
(* (analyze, add_relationship).                                            *)
THEOREM RelationshipsAreTrueOfTheBytes == AnalysisSpec => []RelationsAreTrue
<1>1. AnalysisInv => RelationsAreTrue
  BY DEF AnalysisInv
<1> QED BY <1>1, AnalysisInvariant, PTL

(* A job that has ended is never written again: a run writes the file of   *)
(* its own job, which is open until the run ends it, and a retry draws an  *)
(* id that no job has (analyze, retry).                                    *)
THEOREM EndedJobsStand == AnalysisSpec => FinalJobsStand
<1> DEFINE Stands == \A j \in JobIds : Final(jobs[j]) => jobs'[j] = jobs[j]
<1>1. AnalysisInv /\ [AnalysisNext]_analysisVars => [Stands]_analysisVars
  <2> SUFFICES ASSUME AnalysisInv, AnalysisNext PROVE Stands
    BY DEF analysisVars
  <2>1. \A id \in JobIds : jobs[id] = NoJob => ~Final(jobs[id])
    BY DEF Final, NoJob
  <2>2. stage # "idle" => run.id \in JobIds /\ ~Final(jobs[run.id])
    BY DEF AnalysisInv, Running, Final
  <2>3. ASSUME NEW id \in JobIds, NEW plan, jobs[id] = NoJob, Create(id, plan) PROVE Stands
    BY <2>1, <2>3 DEF Create, AnalysisInv, JobFiles
  <2>4. ASSUME stage # "idle", NEW local, local.id = run.id, NEW state, End(local, state)
        PROVE  Stands
    BY <2>2, <2>4 DEF End, AnalysisInv, JobFiles
  <2>5. ASSUME NEW items PROVE [run EXCEPT !.items = items].id = run.id
    BY DEF AnalysisInv, IsRun
  <2>6. CASE \E plan \in Plans : Analyze(plan)
    BY <2>3, <2>6 DEF Analyze, JobIds
  <2>7. CASE \E old \in JobIds, id \in JobIds : Retry(old, id)
    BY <2>3, <2>7 DEF Retry, RetryId
  <2>8. CASE Start
    BY <2>2, <2>8 DEF Start, AnalysisInv, JobFiles
  <2>9. CASE Visit
    <3>1. stage # "idle"
      BY <2>9 DEF Visit
    <3> QED BY <2>4, <2>5, <2>9, <3>1 DEF Visit
  <2>10. CASE Return
    <3>1. stage # "idle"
      BY <2>10 DEF Return
    <3> QED BY <2>4, <2>10, <3>1 DEF Return
  <2>11. CASE TakeMember
    <3>1. stage # "idle"
      BY <2>11 DEF TakeMember
    <3> QED BY <2>4, <2>5, <2>11, <3>1 DEF TakeMember
  <2>12. CASE Relate
    <3>1. stage # "idle"
      BY <2>12 DEF Relate
    <3> QED BY <2>4, <2>12, <3>1 DEF Relate
  <2>13. CASE GiveUp
    <3>1. stage # "idle"
      BY <2>13 DEF GiveUp
    <3> QED BY <2>4, <2>13, <3>1 DEF GiveUp
  <2>14. CASE Ingest \/ Kill
    BY <2>14 DEF Ingest, Kill
  <2> QED BY <2>6, <2>7, <2>8, <2>9, <2>10, <2>11, <2>12, <2>13, <2>14 DEF AnalysisNext
<1> QED BY <1>1, AnalysisInvariant, PTL DEF AnalysisSpec, FinalJobsStand

-----------------------------------------------------------------------------
(* The traversal, for policies that copy out.  What was copied out lies in *)
(* containers that are opened; a container is next to be visited, being    *)
(* visited, in hand, or done with.                                         *)

Position == Seq(Nat)
Visits  == {"start", "visit"}
Holding == {"ingest", "relate"}           \* the copy in hand is not yet related
Place(stack) == Append(Last(stack).at, Last(stack).todo)
DoneWith(w, items, c) == \A i \in Files(w, Holds(w, items, c)) : CopiedOut(w, items, c, i)

Grounded(w, plan, items) ==
    \A at \in Copied(items) :
        /\ at \in Position /\ items[at].is \in DOMAIN w.kind
        /\ \E c \in Containers(w, plan, items) : \E i \in Files(w, Holds(w, items, c)) :
             at = Append(c, i) /\ CopiedOut(w, items, c, i)

Under(w, plan, items, f) ==
    /\ f.at \in Containers(w, plan, items) /\ f.is = Holds(w, items, f.at)
    /\ f.todo \in Nat \ {0}
    /\ \A i \in Files(w, f.is) : i < f.todo => CopiedOut(w, items, f.at, i)
OnStack(w, plan, items, stack) == \A f \in Range(stack) : Under(w, plan, items, f)
IsNext(w, plan, items, next, step) ==
    step \in Visits =>
        next.at \in Containers(w, plan, items) /\ next.is = Holds(w, items, next.at)
Seen(w, plan, items, stack, next, step) ==
    \A c \in Containers(w, plan, items) :
        \/ step \in Visits /\ next.at = c
        \/ \E f \in Range(stack) : f.at = c
        \/ step \in Holding /\ Place(stack) = c
        \/ DoneWith(w, items, c)
Kept(w, objs, keys, plan, items, stack, step) ==
    Preserves(plan) =>
        \A c \in Containers(w, plan, items) : \A i \in Files(w, Holds(w, items, c)) :
            CopiedOut(w, items, c, i) =>
                \/ Recorded(w, objs, keys, Holds(w, items, c), i)
                \/ step \in Holding /\ Place(stack) = Append(c, i)
Held(w, items, stack, step) ==
    step \in Holding =>
        /\ Last(stack).todo \in Files(w, Last(stack).is)
        /\ CopiedOut(w, items, Last(stack).at, Last(stack).todo)

Walk(w, objs, keys, plan, items, stack, next, step) ==
    /\ Grounded(w, plan, items) /\ OnStack(w, plan, items, stack)
    /\ IsNext(w, plan, items, next, step) /\ Seen(w, plan, items, stack, next, step)
    /\ Kept(w, objs, keys, plan, items, stack, step) /\ Held(w, items, stack, step)

Walking ==
    stage # "idle" =>
        IF run.plan.policy = "metadata-only" THEN Copied(run.items) = {}
        ELSE Walk(world, objects, relations, run.plan, run.items, run.stack, run.next, stage)
WalkInv == world \in Worlds /\ Walking /\ CompleteIsExhaustive

(* The listings of a world.                                                *)
LEMMA ListingsAreFinite ==
    ASSUME NEW w \in Worlds, NEW c \in DOMAIN w.kind
    PROVE  /\ \A i \in Files(w, c) : i \in Nat \ {0} /\ Extracted(w, c, i).is \in DOMAIN w.kind
           /\ \A n \in Nat \ {0} : n \notin DOMAIN ListMembers(w, c) => \A i \in Files(w, c) : i < n
<1>1. PICK l : l = ListMembers(w, c)
  OBVIOUS
<1>2. /\ Len(l) \in Nat /\ DOMAIN l = 1..Len(l)
      /\ \A i \in DOMAIN l : Extracted(w, c, i).is \in DOMAIN w.kind
  BY <1>1, WorldsAssumption
<1>3. \A i \in Files(w, c) : i \in DOMAIN l
  BY <1>1 DEF Files
<1>4. \A i \in Files(w, c) : i \in Nat \ {0} /\ Extracted(w, c, i).is \in DOMAIN w.kind
  BY <1>2, <1>3
<1>5. \A n \in Nat \ {0} : n \notin DOMAIN l => \A i \in Files(w, c) : i < n
  BY <1>2, <1>3
<1> QED BY <1>1, <1>4, <1>5

LEMMA ContainersArePlaces ==
    ASSUME NEW w \in Worlds, NEW plan, NEW items, Grounded(w, plan, items),
           NEW c \in Containers(w, plan, items)
    PROVE  c \in Position /\ Holds(w, items, c) \in DOMAIN w.kind
<1>1. CASE c = <<>>
  <2>1. w.root \in DOMAIN w.kind
    BY WorldsAssumption
  <2> QED BY <1>1, <2>1, EmptySeq DEF Holds, Position
<1>2. CASE c # <<>>
  <2>1. c \in Copied(items)
    BY <1>2 DEF Containers
  <2> QED BY <1>2, <2>1 DEF Grounded, Holds
<1> QED BY <1>1, <1>2

(* Two files are at one place only if they are the same.                   *)
LEMMA PlacesDiffer ==
    ASSUME NEW c \in Position, NEW d \in Position, NEW i \in Nat, NEW j \in Nat,
           Append(c, i) = Append(d, j)
    PROVE  c = d /\ i = j
BY AppendInjective DEF Position

(* The file copied to the position at0 from container c0 adds to what was  *)
(* copied out and takes nothing back; the copy may be a container itself.  *)
CopyAdded(w, plan, items, items2, c0, i0, at0) ==
    /\ Grounded(w, plan, items2) /\ CopiedOut(w, items2, c0, i0)
    /\ Containers(w, plan, items) \subseteq Containers(w, plan, items2)
    /\ \A c \in Containers(w, plan, items) : Holds(w, items2, c) = Holds(w, items, c)
    /\ \A c \in Containers(w, plan, items2) : c \in Containers(w, plan, items) \/ c = at0
    /\ \A c \in Containers(w, plan, items) : \A i \in Files(w, Holds(w, items, c)) :
         CopiedOut(w, items, c, i) => CopiedOut(w, items2, c, i)
    /\ \A c \in Containers(w, plan, items2) : \A i \in Files(w, Holds(w, items2, c)) :
         CopiedOut(w, items2, c, i) /\ Append(c, i) # at0 =>
             c \in Containers(w, plan, items) /\ CopiedOut(w, items, c, i)

LEMMA CopyAdds ==
    ASSUME NEW w \in Worlds, NEW plan, NEW items, Grounded(w, plan, items),
           NEW c0 \in Containers(w, plan, items), NEW i0 \in Files(w, Holds(w, items, c0)),
           NEW at0, at0 = Append(c0, i0),
           NEW v, v.status # "DISCOVERED", v.is = Extracted(w, Holds(w, items, c0), i0).is,
           NEW items2, items2 = Set(items, at0, v)
    PROVE  CopyAdded(w, plan, items, items2, c0, i0, at0)
<1> DEFINE old == Containers(w, plan, items)
           new == Containers(w, plan, items2)
<1>1. \A c \in old : c \in Position /\ Holds(w, items, c) \in DOMAIN w.kind
  BY ContainersArePlaces
<1>2. \A c \in old : \A i \in Files(w, Holds(w, items, c)) :
        i \in Nat \ {0} /\ Extracted(w, Holds(w, items, c), i).is \in DOMAIN w.kind
  BY <1>1, ListingsAreFinite
<1>3. at0 \in Position /\ at0 # <<>> /\ v.is \in DOMAIN w.kind
  BY <1>1, <1>2, AppendProperties DEF Position
<1>4. \A c \in old : \A i \in Files(w, Holds(w, items, c)) : Append(c, i) = at0 => c = c0 /\ i = i0
  BY <1>1, <1>2, PlacesDiffer
<1>5. at0 \in Copied(items) => items[at0].is = v.is
  BY <1>4 DEF Grounded, CopiedOut
<1>6. /\ items2[at0] = v /\ DOMAIN items2 = DOMAIN items \cup {at0}
      /\ \A x \in DOMAIN items \ {at0} : items2[x] = items[x]
  BY DEF Set
<1>7. Copied(items2) = Copied(items) \cup {at0}
  BY <1>6 DEF Copied
<1>8. \A x \in Copied(items) : items2[x].is = items[x].is
  BY <1>5, <1>6 DEF Copied
<1>9. \A c \in {<<>>} \cup Copied(items) : Holds(w, items2, c) = Holds(w, items, c)
  BY <1>8 DEF Holds
<1>10. old \subseteq new /\ old \subseteq {<<>>} \cup Copied(items)
  BY <1>7, <1>8 DEF Containers
<1>11. Holds(w, items2, at0) = v.is
  BY <1>3, <1>6 DEF Holds
<1>12. \A c \in new : c \in old \/ c = at0
  BY <1>7, <1>8 DEF Containers
<1>13. \A c \in old : Holds(w, items2, c) = Holds(w, items, c)
  BY <1>9, <1>10
<1>14. ASSUME NEW c \in old, NEW i \in Files(w, Holds(w, items, c)), CopiedOut(w, items, c, i)
       PROVE  CopiedOut(w, items2, c, i)
  BY <1>7, <1>8, <1>13, <1>14 DEF CopiedOut
<1>15. CopiedOut(w, items2, c0, i0)
  BY <1>6, <1>7, <1>13 DEF CopiedOut
<1>16. ASSUME NEW c \in new, NEW i \in Files(w, Holds(w, items2, c)), CopiedOut(w, items2, c, i),
              Append(c, i) # at0
       PROVE  c \in old /\ CopiedOut(w, items, c, i)
  <2>1. Append(c, i) \in Copied(items)
    BY <1>7, <1>16 DEF CopiedOut
  <2>2. PICK d \in old : \E j \in Files(w, Holds(w, items, d)) : Append(c, i) = Append(d, j)
    BY <2>1 DEF Grounded
  <2>3. c \in Position /\ Holds(w, items2, c) \in DOMAIN w.kind
    BY <1>1, <1>3, <1>11, <1>12, <1>13
  <2>4. i \in Nat
    BY <2>3, ListingsAreFinite
  <2>5. c = d
    BY <1>1, <1>2, <2>2, <2>3, <2>4, PlacesDiffer
  <2> QED BY <1>8, <1>13, <1>16, <2>1, <2>5 DEF CopiedOut
<1>17. Grounded(w, plan, items2)
  <2> SUFFICES ASSUME NEW at \in Copied(items2)
               PROVE  /\ at \in Position /\ items2[at].is \in DOMAIN w.kind
                      /\ \E c \in new : \E i \in Files(w, Holds(w, items2, c)) :
                           at = Append(c, i) /\ CopiedOut(w, items2, c, i)
    BY DEF Grounded
  <2>1. CASE at = at0
    BY <1>3, <1>6, <1>10, <1>13, <1>15, <2>1
  <2>2. CASE at # at0
    <3>1. at \in Copied(items)
      BY <1>7, <2>2
    <3>2. PICK c \in old : \E i \in Files(w, Holds(w, items, c)) : at = Append(c, i) /\ CopiedOut(w, items, c, i)
      BY <3>1 DEF Grounded
    <3>3. at \in Position /\ items2[at].is \in DOMAIN w.kind
      BY <1>8, <3>1 DEF Grounded
    <3> QED BY <1>10, <1>13, <1>14, <3>2, <3>3
  <2> QED BY <2>1, <2>2
<1> QED BY <1>3, <1>7, <1>10, <1>12, <1>13, <1>14, <1>15, <1>16, <1>17 DEF CopyAdded

(* What is on a stack after a step.                                        *)
LEMMA AppendRange ==
    ASSUME NEW s, s \in Seq(Range(s)), NEW f
    PROVE  Range(Append(s, f)) = Range(s) \cup {f}
<1> DEFINE S == Range(s) \cup {f}
           t == Append(s, f)
<1>1. s \in Seq(S) /\ f \in S
  BY SeqMonotonic
<1>2. /\ t \in Seq(S) /\ Len(t) = Len(s) + 1 /\ t[Len(s) + 1] = f
      /\ \A i \in 1..Len(s) : t[i] = s[i]
  BY <1>1, AppendProperties
<1>3. Len(s) \in Nat /\ DOMAIN s = 1..Len(s) /\ DOMAIN t = 1..Len(s) + 1
  BY <1>1, <1>2, LenProperties
<1>4. 1..Len(s) + 1 = (1..Len(s)) \cup {Len(s) + 1}
  BY <1>3
<1> HIDE DEF t
<1> QED BY <1>2, <1>3, <1>4 DEF Range

LEMMA FrontAndLast ==
    ASSUME NEW s, s \in Seq(Range(s)), s # <<>>
    PROVE  /\ Last(s) \in Range(s) /\ Range(s) = Range(Front(s)) \cup {Last(s)}
           /\ ~(Len(s) > 1) => Range(s) = {Last(s)}
<1> DEFINE S == Range(s)
           t == Front(s)
<1>1. Len(s) \in Nat \ {0} /\ DOMAIN s = 1..Len(s)
  BY EmptySeq, LenProperties
<1>2. \A i \in 1..Len(s) - 1 : s[i] \in S
  BY <1>1 DEF Range
<1>3. Len(s) - 1 \in Nat /\ t = SubSeq(s, 1, Len(s) - 1)
  BY <1>1 DEF Front
<1>4. t \in Seq(S) /\ Len(t) = Len(s) - 1 /\ \A i \in 1..Len(s) - 1 : t[i] = s[i]
  BY <1>1, <1>2, <1>3
<1>5. DOMAIN t = 1..Len(s) - 1
  BY <1>4, LenProperties
<1>6. 1..Len(s) = (1..Len(s) - 1) \cup {Len(s)} /\ Last(s) = s[Len(s)]
  BY <1>1 DEF Last
<1>7. ~(Len(s) > 1) => 1..Len(s) - 1 = {}
  BY <1>1
<1> HIDE DEF t
<1>8. Range(s) = Range(t) \cup {Last(s)} /\ Last(s) \in Range(s)
  BY <1>1, <1>4, <1>5, <1>6 DEF Range
<1>9. ~(Len(s) > 1) => Range(t) = {}
  BY <1>5, <1>7 DEF Range
<1> QED BY <1>8, <1>9 DEF t

LEMMA NextMemberRange ==
    ASSUME NEW s, s \in Seq(Range(s)), s # <<>>
    PROVE  Range(NextMember(s)) = Range(Front(s)) \cup {[Last(s) EXCEPT !.todo = @ + 1]}
BY FrontIsPart, AppendRange DEF NextMember

(* The container to visit goes onto the stack.                             *)
LEMMA WalkVisits ==
    ASSUME NEW w \in Worlds, NEW objs, NEW keys, NEW plan, NEW items, NEW stack, NEW next,
           Walk(w, objs, keys, plan, items, stack, next, "visit"), stack \in Seq(Range(stack)),
           NEW f, f.at = next.at, f.is = next.is, f.todo = 1, NEW next2
    PROVE  Walk(w, objs, keys, plan, items, Append(stack, f), next2, "member")
<1> DEFINE opened == Containers(w, plan, items)
<1>1. /\ Grounded(w, plan, items) /\ OnStack(w, plan, items, stack)
      /\ IsNext(w, plan, items, next, "visit") /\ Seen(w, plan, items, stack, next, "visit")
      /\ Kept(w, objs, keys, plan, items, stack, "visit")
  BY DEF Walk
<1>2. Range(Append(stack, f)) = Range(stack) \cup {f}
  BY AppendRange
<1>3. f.at \in opened /\ f.is = Holds(w, items, f.at)
  BY <1>1 DEF IsNext, Visits
<1>4. f.is \in DOMAIN w.kind
  BY <1>1, <1>3, ContainersArePlaces
<1>5. \A i \in Files(w, f.is) : ~(i < 1)
  BY <1>4, ListingsAreFinite
<1>6. Under(w, plan, items, f)
  BY <1>3, <1>5 DEF Under
<1>7. OnStack(w, plan, items, Append(stack, f))
  BY <1>1, <1>2, <1>6 DEF OnStack
<1>8. IsNext(w, plan, items, next2, "member") /\ Held(w, items, Append(stack, f), "member")
  BY DEF IsNext, Held, Visits, Holding
<1>9. Seen(w, plan, items, Append(stack, f), next2, "member")
  BY <1>1, <1>2 DEF Seen, Visits, Holding
<1>10. Kept(w, objs, keys, plan, items, Append(stack, f), "member")
  BY <1>1 DEF Kept, Holding
<1> QED BY <1>1, <1>7, <1>8, <1>9, <1>10 DEF Walk

(* A container whose members are all taken is done with.                   *)
LEMMA TopIsDone ==
    ASSUME NEW w \in Worlds, NEW plan, NEW items, NEW f, Under(w, plan, items, f),
           Grounded(w, plan, items), f.todo \notin DOMAIN ListMembers(w, f.is)
    PROVE  DoneWith(w, items, f.at)
<1>1. f.is \in DOMAIN w.kind /\ f.is = Holds(w, items, f.at) /\ f.todo \in Nat \ {0}
  BY ContainersArePlaces DEF Under
<1>2. \A i \in Files(w, f.is) : i < f.todo
  BY <1>1, ListingsAreFinite
<1> QED BY <1>1, <1>2 DEF Under, DoneWith

LEMMA WalkReturns ==
    ASSUME NEW w \in Worlds, NEW objs, NEW keys, NEW plan, NEW items, NEW stack, NEW next,
           Walk(w, objs, keys, plan, items, stack, next, "member"),
           stack \in Seq(Range(stack)), stack # <<>>,
           Last(stack).todo \notin DOMAIN ListMembers(w, Last(stack).is)
    PROVE  Walk(w, objs, keys, plan, items, Front(stack), next, "member")
<1>1. /\ Grounded(w, plan, items) /\ OnStack(w, plan, items, stack)
      /\ Seen(w, plan, items, stack, next, "member")
      /\ Kept(w, objs, keys, plan, items, stack, "member")
  BY DEF Walk
<1>2. Last(stack) \in Range(stack) /\ Range(stack) = Range(Front(stack)) \cup {Last(stack)}
  BY FrontAndLast
<1>3. DoneWith(w, items, Last(stack).at)
  BY <1>1, <1>2, TopIsDone DEF OnStack
<1>4. Seen(w, plan, items, Front(stack), next, "member")
  BY <1>1, <1>2, <1>3 DEF Seen, Visits, Holding
<1>5. OnStack(w, plan, items, Front(stack))
  BY <1>1, <1>2 DEF OnStack
<1>6. /\ IsNext(w, plan, items, next, "member") /\ Held(w, items, Front(stack), "member")
      /\ Kept(w, objs, keys, plan, items, Front(stack), "member")
  BY <1>1 DEF IsNext, Held, Kept, Visits, Holding
<1> QED BY <1>1, <1>4, <1>5, <1>6 DEF Walk

(* Once the root is done with, everything is.                              *)
LEMMA WalkEnds ==
    ASSUME NEW w \in Worlds, NEW objs, NEW keys, NEW plan, NEW items, NEW stack, NEW next,
           Walk(w, objs, keys, plan, items, stack, next, "member"),
           stack \in Seq(Range(stack)), stack # <<>>, ~(Len(stack) > 1),
           Last(stack).todo \notin DOMAIN ListMembers(w, Last(stack).is)
    PROVE  /\ Grounded(w, plan, items)
           /\ \A c \in Containers(w, plan, items) : \A i \in Files(w, Holds(w, items, c)) :
                /\ CopiedOut(w, items, c, i)
                /\ Preserves(plan) => Recorded(w, objs, keys, Holds(w, items, c), i)
<1>1. /\ Grounded(w, plan, items) /\ OnStack(w, plan, items, stack)
      /\ Seen(w, plan, items, stack, next, "member")
      /\ Kept(w, objs, keys, plan, items, stack, "member")
  BY DEF Walk
<1>2. Last(stack) \in Range(stack) /\ Range(stack) = {Last(stack)}
  BY FrontAndLast
<1>3. DoneWith(w, items, Last(stack).at)
  BY <1>1, <1>2, TopIsDone DEF OnStack
<1>4. \A c \in Containers(w, plan, items) : DoneWith(w, items, c)
  BY <1>1, <1>2, <1>3 DEF Seen, Visits, Holding
<1> QED BY <1>1, <1>4 DEF Kept, DoneWith, Holding

(* A member that is not a file is listed and passed by.                    *)
LEMMA WalkPasses ==
    ASSUME NEW w \in Worlds, NEW objs, NEW keys, NEW plan, NEW items, NEW stack, NEW next,
           Walk(w, objs, keys, plan, items, stack, next, "member"),
           stack \in Seq(Range(stack)), stack # <<>>, \A f \in Range(stack) : IsFrame(f),
           Last(stack).todo \notin Files(w, Last(stack).is),
           NEW v, v.status = "DISCOVERED"
    PROVE  Walk(w, objs, keys, plan, Set(items, Place(stack), v), NextMember(stack), next, "member")
<1> DEFINE opened == Containers(w, plan, items)
           top == Last(stack)
           after == [top EXCEPT !.todo = @ + 1]
<1>1. /\ Grounded(w, plan, items) /\ OnStack(w, plan, items, stack)
      /\ Seen(w, plan, items, stack, next, "member")
      /\ Kept(w, objs, keys, plan, items, stack, "member")
  BY DEF Walk
<1>2. PICK items2 : items2 = Set(items, Place(stack), v)
  OBVIOUS
<1>3. /\ top \in Range(stack) /\ IsFrame(top) /\ Under(w, plan, items, top)
      /\ top.at \in opened /\ top.is = Holds(w, items, top.at) /\ top.todo \in Nat \ {0}
  BY <1>1, FrontAndLast DEF OnStack, Under
<1>4. Place(stack) \notin Copied(items)
  <2> SUFFICES ASSUME Place(stack) \in Copied(items) PROVE FALSE
    OBVIOUS
  <2>1. PICK c \in opened : \E i \in Files(w, Holds(w, items, c)) : Append(top.at, top.todo) = Append(c, i)
    BY <1>1 DEF Grounded, Place
  <2>2. c \in Position /\ top.at \in Position /\ Holds(w, items, c) \in DOMAIN w.kind
    BY <1>1, <1>3, ContainersArePlaces
  <2>3. PICK i \in Files(w, Holds(w, items, c)) : Append(top.at, top.todo) = Append(c, i)
    BY <2>1
  <2>4. i \in Nat
    BY <2>2, ListingsAreFinite
  <2>5. top.todo \in Nat
    BY <1>3
  <2>6. c = top.at /\ i = top.todo
    <3> HIDE DEF top
    <3> QED BY <2>2, <2>3, <2>4, <2>5, PlacesDiffer
  <2> QED BY <1>3, <2>3, <2>6
<1>5. Copied(items2) = Copied(items) /\ \A x \in Copied(items) : items2[x] = items[x]
  BY <1>2, <1>4 DEF Copied, Set
<1>6. /\ Containers(w, plan, items2) = opened
      /\ \A c \in opened : Holds(w, items2, c) = Holds(w, items, c)
  BY <1>5 DEF Containers, Holds
<1>7. \A c \in opened : \A i : CopiedOut(w, items2, c, i) <=> CopiedOut(w, items, c, i)
  BY <1>5, <1>6 DEF CopiedOut
<1>8. Grounded(w, plan, items2)
  BY <1>1, <1>5, <1>6, <1>7 DEF Grounded
<1>9. \A f : Under(w, plan, items, f) => Under(w, plan, items2, f)
  BY <1>6, <1>7 DEF Under
<1>10. /\ Range(NextMember(stack)) = Range(Front(stack)) \cup {after}
       /\ Range(stack) = Range(Front(stack)) \cup {top}
  BY NextMemberRange, FrontAndLast
<1>11. after.at = top.at /\ after.is = top.is /\ after.todo = top.todo + 1
  BY <1>3 DEF IsFrame
<1> HIDE DEF after
<1>12. Under(w, plan, items2, after)
  <2>1. top.is \in DOMAIN w.kind
    BY <1>1, <1>3, ContainersArePlaces
  <2>2. \A i \in Files(w, top.is) : i < after.todo => i < top.todo
    BY <1>3, <1>11, <2>1, ListingsAreFinite
  <2>3. after.todo \in Nat \ {0}
    BY <1>3, <1>11
  <2> QED BY <1>3, <1>6, <1>7, <1>11, <2>2, <2>3 DEF Under
<1>13. OnStack(w, plan, items2, NextMember(stack))
  BY <1>1, <1>9, <1>10, <1>12 DEF OnStack
<1>14. Seen(w, plan, items2, NextMember(stack), next, "member")
  <2>1. \A c \in opened : DoneWith(w, items, c) => DoneWith(w, items2, c)
    BY <1>6, <1>7 DEF DoneWith
  <2> QED BY <1>1, <1>6, <1>10, <1>11, <2>1 DEF Seen, Visits, Holding
<1>15. Kept(w, objs, keys, plan, items2, NextMember(stack), "member")
  BY <1>1, <1>6, <1>7 DEF Kept, Holding
<1>16. IsNext(w, plan, items2, next, "member") /\ Held(w, items2, NextMember(stack), "member")
  BY DEF IsNext, Held, Visits, Holding
<1> QED BY <1>2, <1>8, <1>13, <1>14, <1>15, <1>16 DEF Walk

(* The top of the stack, and its file in hand.                             *)
LEMMA TopIsUnder ==
    ASSUME NEW w \in Worlds, NEW plan, NEW items, NEW stack,
           Grounded(w, plan, items), OnStack(w, plan, items, stack),
           stack \in Seq(Range(stack)), stack # <<>>
    PROVE  /\ Last(stack).at \in Containers(w, plan, items)
           /\ Last(stack).is = Holds(w, items, Last(stack).at)
           /\ Last(stack).is \in DOMAIN w.kind /\ Last(stack).at \in Position
           /\ Last(stack).todo \in Nat \ {0}
<1>1. Under(w, plan, items, Last(stack))
  BY FrontAndLast DEF OnStack
<1> QED BY <1>1, ContainersArePlaces DEF Under

(* A file is copied out, or what is recorded of the copy in hand changes.  *)
LEMMA WalkCopies ==
    ASSUME NEW w \in Worlds, NEW objs, NEW keys, NEW plan, NEW items, NEW stack, NEW next,
           NEW step \in {"member", "ingest", "relate"}, NEW step2 \in Holding,
           Walk(w, objs, keys, plan, items, stack, next, step),
           stack \in Seq(Range(stack)), stack # <<>>,
           Last(stack).todo \in Files(w, Last(stack).is),
           NEW objs2, objs \subseteq objs2, NEW keys2, keys \subseteq keys2,
           NEW v, v.status # "DISCOVERED", v.is = Extracted(w, Last(stack).is, Last(stack).todo).is
    PROVE  Walk(w, objs2, keys2, plan, Set(items, Place(stack), v), stack, next, step2)
<1> DEFINE opened == Containers(w, plan, items)
<1>1. /\ Grounded(w, plan, items) /\ OnStack(w, plan, items, stack)
      /\ Seen(w, plan, items, stack, next, step)
      /\ Kept(w, objs, keys, plan, items, stack, step)
  BY DEF Walk
<1>2. PICK items2 : items2 = Set(items, Place(stack), v)
  OBVIOUS
<1>3. PICK c0 : c0 = Last(stack).at
  OBVIOUS
<1>4. PICK i0 : i0 = Last(stack).todo
  OBVIOUS
<1>5. PICK at0 : at0 = Append(c0, i0)
  OBVIOUS
<1>6. /\ c0 \in opened /\ Last(stack).is = Holds(w, items, c0) /\ i0 \in Files(w, Holds(w, items, c0))
      /\ Place(stack) = at0 /\ items2 = Set(items, at0, v)
      /\ v.is = Extracted(w, Holds(w, items, c0), i0).is
  BY <1>1, <1>2, <1>3, <1>4, <1>5, TopIsUnder DEF Place
<1>7. /\ Grounded(w, plan, items2) /\ CopiedOut(w, items2, c0, i0)
      /\ opened \subseteq Containers(w, plan, items2)
      /\ \A c \in opened : Holds(w, items2, c) = Holds(w, items, c)
      /\ \A c \in Containers(w, plan, items2) : c \in opened \/ c = at0
      /\ \A c \in opened : \A i \in Files(w, Holds(w, items, c)) :
           CopiedOut(w, items, c, i) => CopiedOut(w, items2, c, i)
      /\ \A c \in Containers(w, plan, items2) : \A i \in Files(w, Holds(w, items2, c)) :
           CopiedOut(w, items2, c, i) /\ Append(c, i) # at0 => c \in opened /\ CopiedOut(w, items, c, i)
  <2>1. /\ c0 \in Containers(w, plan, items) /\ i0 \in Files(w, Holds(w, items, c0))
        /\ Grounded(w, plan, items)
    BY <1>1, <1>6
  <2>2. /\ items2 = Set(items, at0, v) /\ v.is = Extracted(w, Holds(w, items, c0), i0).is
        /\ v.status # "DISCOVERED"
    BY <1>6
  <2>3. CopyAdded(w, plan, items, items2, c0, i0, at0)
    BY <1>5, <2>1, <2>2, CopyAdds
  <2> QED BY <2>3 DEF CopyAdded
<1>8. OnStack(w, plan, items2, stack)
  BY <1>1, <1>7 DEF OnStack, Under
<1>9. Seen(w, plan, items2, stack, next, step2)
  <2>1. \A c \in opened : DoneWith(w, items, c) => DoneWith(w, items2, c)
    BY <1>7 DEF DoneWith
  <2>2. \A c \in opened : c = at0 \/ (\E f \in Range(stack) : f.at = c) \/ DoneWith(w, items, c)
    BY <1>1, <1>6 DEF Seen, Visits
  <2> QED BY <1>6, <1>7, <2>1, <2>2 DEF Seen
<1>10. Kept(w, objs2, keys2, plan, items2, stack, step2)
  <2> SUFFICES ASSUME Preserves(plan), NEW c \in Containers(w, plan, items2),
                      NEW i \in Files(w, Holds(w, items2, c)), CopiedOut(w, items2, c, i),
                      Append(c, i) # at0
               PROVE  Recorded(w, objs2, keys2, Holds(w, items2, c), i)
    BY <1>6 DEF Kept
  <2>1. c \in opened /\ CopiedOut(w, items, c, i) /\ Holds(w, items2, c) = Holds(w, items, c)
    BY <1>7
  <2>2. Recorded(w, objs, keys, Holds(w, items, c), i)
    BY <1>1, <1>6, <2>1 DEF Kept
  <2> QED BY <2>1, <2>2 DEF Recorded
<1>11. IsNext(w, plan, items2, next, step2)
  BY DEF IsNext, Visits, Holding
<1>12. Held(w, items2, stack, step2)
  BY <1>3, <1>4, <1>7 DEF Held
<1> QED BY <1>2, <1>7, <1>8, <1>9, <1>10, <1>11, <1>12 DEF Walk

(* From the copy in hand to the next member, or into the copy.             *)
LEMMA WalkGoesOn ==
    ASSUME NEW w \in Worlds, NEW objs, NEW keys, NEW plan, NEW items, NEW stack, NEW next,
           NEW step \in Holding, Walk(w, objs, keys, plan, items, stack, next, step),
           stack \in Seq(Range(stack)), stack # <<>>, \A f \in Range(stack) : IsFrame(f),
           NEW m, m = Extracted(w, Last(stack).is, Last(stack).todo).is,
           Preserves(plan) => Recorded(w, objs, keys, Last(stack).is, Last(stack).todo),
           NEW next2, NEW step2,
           IF Descends(plan) /\ Len(Place(stack)) <= MaxDepth /\ w.kind[m] # "data"
             THEN step2 = "visit" /\ next2.at = Place(stack) /\ next2.is = m
             ELSE step2 = "member"
    PROVE  Walk(w, objs, keys, plan, items, NextMember(stack), next2, step2)
<1> DEFINE opened == Containers(w, plan, items)
           top == Last(stack)
           after == [top EXCEPT !.todo = @ + 1]
<1>1. /\ Grounded(w, plan, items) /\ OnStack(w, plan, items, stack)
      /\ Seen(w, plan, items, stack, next, step)
      /\ Kept(w, objs, keys, plan, items, stack, step)
      /\ Held(w, items, stack, step)
  BY DEF Walk
<1>2. /\ top \in Range(stack) /\ IsFrame(top) /\ Under(w, plan, items, top)
      /\ top.at \in opened /\ top.is = Holds(w, items, top.at) /\ top.todo \in Nat \ {0}
      /\ top.is \in DOMAIN w.kind /\ top.at \in Position
  BY <1>1, FrontAndLast, TopIsUnder DEF OnStack
<1>3. top.todo \in Files(w, top.is) /\ CopiedOut(w, items, top.at, top.todo)
  BY <1>1 DEF Held
<1>4. /\ Place(stack) \in Copied(items) /\ items[Place(stack)].is = m /\ Place(stack) # <<>>
  <2>1. Place(stack) \in Copied(items) /\ items[Place(stack)].is = m
    BY <1>2, <1>3 DEF Place, CopiedOut
  <2>2. top.todo \in Nat
    BY <1>2
  <2> HIDE DEF top
  <2>3. Append(top.at, top.todo) # <<>>
    BY <1>2, <2>2, AppendProperties DEF Position
  <2> QED BY <2>1, <2>3 DEF Place, top
<1>5. Holds(w, items, Place(stack)) = m
  BY <1>4 DEF Holds
<1>6. Place(stack) \in opened <=>
        Descends(plan) /\ Len(Place(stack)) <= MaxDepth /\ w.kind[m] # "data"
  BY <1>4 DEF Containers
<1>7. IF Place(stack) \in opened
        THEN step2 = "visit" /\ next2.at = Place(stack) /\ next2.is = m
        ELSE step2 = "member"
  BY <1>6
<1>8. IsNext(w, plan, items, next2, step2) /\ step2 \notin Holding
  BY <1>5, <1>7 DEF IsNext, Visits, Holding
<1>9. /\ Range(NextMember(stack)) = Range(Front(stack)) \cup {after}
      /\ Range(stack) = Range(Front(stack)) \cup {top}
  BY NextMemberRange, FrontAndLast
<1>10. after.at = top.at /\ after.is = top.is /\ after.todo = top.todo + 1
  BY <1>2 DEF IsFrame
<1> HIDE DEF after
<1>11. Under(w, plan, items, after)
  <2>1. \A i \in Files(w, top.is) : i < after.todo => i < top.todo \/ i = top.todo
    BY <1>2, <1>10, ListingsAreFinite
  <2>2. after.todo \in Nat \ {0}
    BY <1>2, <1>10
  <2> QED BY <1>2, <1>3, <1>10, <2>1, <2>2 DEF Under
<1>12. OnStack(w, plan, items, NextMember(stack))
  BY <1>1, <1>9, <1>11 DEF OnStack
<1>13. Seen(w, plan, items, NextMember(stack), next2, step2)
  BY <1>1, <1>7, <1>9, <1>10 DEF Seen, Visits, Holding
<1>14. Kept(w, objs, keys, plan, items, NextMember(stack), step2)
  <2> SUFFICES ASSUME Preserves(plan), NEW c \in opened, NEW i \in Files(w, Holds(w, items, c)),
                      CopiedOut(w, items, c, i)
               PROVE  Recorded(w, objs, keys, Holds(w, items, c), i)
    BY DEF Kept
  <2>1. CASE Place(stack) = Append(c, i)
    <3>1. c \in Position /\ Holds(w, items, c) \in DOMAIN w.kind
      BY <1>1, ContainersArePlaces
    <3>2. i \in Nat /\ top.todo \in Nat
      BY <1>2, <3>1, ListingsAreFinite
    <3>3. Append(top.at, top.todo) = Append(c, i)
      BY <2>1 DEF Place
    <3>4. top.at = c /\ top.todo = i
      <4>1. PICK at, todo : at = top.at /\ todo = top.todo
        OBVIOUS
      <4>2. at \in Position /\ todo \in Nat /\ Append(at, todo) = Append(c, i)
        BY <1>2, <3>2, <3>3, <4>1
      <4> QED BY <3>1, <3>2, <4>1, <4>2, PlacesDiffer
    <3> QED BY <1>2, <3>4
  <2>2. CASE Place(stack) # Append(c, i)
    BY <1>1, <2>2 DEF Kept
  <2> QED BY <2>1, <2>2
<1>15. Held(w, items, NextMember(stack), step2)
  BY <1>8 DEF Held
<1> QED BY <1>1, <1>8, <1>12, <1>13, <1>14, <1>15 DEF Walk

-----------------------------------------------------------------------------
(* The traversal step by step.                                             *)

(* What is complete stays so, as objects and relationships are only added. *)
LEMMA CompleteStays ==
    ASSUME CompleteIsExhaustive, UNCHANGED <<world, jobs>>, objects \subseteq objects',
           relations \subseteq relations'
    PROVE  CompleteIsExhaustive'
<1>1. ASSUME NEW plan, NEW items, Exhaustive(plan, items) PROVE Exhaustive(plan, items)'
  BY <1>1 DEF Exhaustive, Recorded
<1> QED BY <1>1 DEF CompleteIsExhaustive

LEMMA EndWalk ==
    ASSUME AnalysisInv, WalkInv, stage # "idle", NEW local, local.id = run.id, NEW state,
           End(local, state), UNCHANGED world,
           state = "COMPLETE" => Exhaustive(local.plan, local.items)
    PROVE  WalkInv'
<1>1. /\ run' = NoRun /\ stage' = "idle" /\ UNCHANGED <<world, objects, relations>>
      /\ jobs' = [jobs EXCEPT ![run.id] =
                    [plan |-> local.plan, state |-> state, items |-> local.items]]
  BY DEF End
<1>2. PICK plan, items : plan = local.plan /\ items = local.items
  OBVIOUS
<1>3. ASSUME NEW p, NEW i, Exhaustive(p, i) PROVE Exhaustive(p, i)'
  BY <1>1, <1>3 DEF Exhaustive
<1>4. \A j \in JobIds : jobs'[j] = IF j = run.id
                                     THEN [plan |-> plan, state |-> state, items |-> items]
                                     ELSE jobs[j]
  BY <1>1, <1>2 DEF AnalysisInv, JobFiles
<1>5. CompleteIsExhaustive'
  BY <1>2, <1>3, <1>4 DEF WalkInv, CompleteIsExhaustive
<1> QED BY <1>1, <1>5 DEF WalkInv, Walking

LEMMA CreateWalk ==
    ASSUME AnalysisInv, WalkInv, NEW id \in JobIds, NEW plan, Create(id, plan)
    PROVE  WalkInv'
<1> DEFINE first == [at |-> <<>>, is |-> world.root, parent |-> world.root]
<1>1. /\ run' = [NoRun EXCEPT !.id = id, !.plan = plan, !.next = first]
      /\ jobs' = [jobs EXCEPT ![id] = [plan |-> plan, state |-> "PLANNED", items |-> <<>>]]
      /\ stage' = "start" /\ UNCHANGED <<world, objects, relations>>
  BY DEF Create
<1>2. /\ run'.plan = plan /\ run'.items = <<>> /\ run'.stack = <<>> /\ run'.next = first
      /\ first.at = <<>> /\ first.is = world.root
  BY <1>1 DEF NoRun
<1>3. PICK w, next : w = world /\ next = first
  OBVIOUS
<1>4. Copied(<<>>) = {} /\ Containers(w, plan, <<>>) = {<<>>} /\ Holds(w, <<>>, <<>>) = w.root
  BY DEF Copied, Containers, Holds
<1>5. ASSUME NEW c, NEW i PROVE ~CopiedOut(w, <<>>, c, i)
  BY <1>4 DEF CopiedOut
<1>6. \A objs, keys : Walk(w, objs, keys, plan, <<>>, <<>>, next, "start")
  BY <1>2, <1>3, <1>4, <1>5
     DEF Walk, Grounded, OnStack, IsNext, Seen, Kept, Held, Visits, Holding, Range
<1>7. Walking'
  BY <1>1, <1>2, <1>3, <1>4, <1>6 DEF Walking
<1>8. ASSUME NEW p, NEW i, Exhaustive(p, i) PROVE Exhaustive(p, i)'
  BY <1>1, <1>8 DEF Exhaustive
<1>9. CompleteIsExhaustive'
  BY <1>1, <1>8 DEF WalkInv, CompleteIsExhaustive, AnalysisInv, JobFiles
<1> QED BY <1>1, <1>7, <1>9 DEF WalkInv

(* No file of a job is complete that was not.                              *)
LEMMA StartWalk == ASSUME AnalysisInv, WalkInv, Start PROVE WalkInv'
<1>1. /\ jobs' = [jobs EXCEPT ![run.id].state = "RUNNING"] /\ run.id \in JobIds
      /\ stage = "start" /\ stage' = "visit" /\ UNCHANGED <<world, objects, relations, run>>
  BY DEF Start, AnalysisInv, Running
<1>2. ASSUME NEW w, NEW objs, NEW keys, NEW plan, NEW items, NEW stack, NEW next,
             Walk(w, objs, keys, plan, items, stack, next, "start")
      PROVE  Walk(w, objs, keys, plan, items, stack, next, "visit")
  BY <1>2 DEF Walk, IsNext, Seen, Kept, Held, Visits, Holding
<1>3. Walking'
  BY <1>1, <1>2 DEF WalkInv, Walking
<1>4. ASSUME NEW p, NEW i, Exhaustive(p, i) PROVE Exhaustive(p, i)'
  BY <1>1, <1>4 DEF Exhaustive
<1>5. \A j \in JobIds : jobs'[j].state = "COMPLETE" => jobs'[j] = jobs[j]
  BY <1>1 DEF AnalysisInv, JobFiles
<1>6. CompleteIsExhaustive'
  BY <1>4, <1>5 DEF WalkInv, CompleteIsExhaustive
<1> QED BY <1>1, <1>3, <1>6 DEF WalkInv

LEMMA VisitWalk == ASSUME AnalysisInv, WalkInv, Visit PROVE WalkInv'
<1> DEFINE frame == [at |-> run.next.at, is |-> run.next.is, parent |-> run.next.parent, todo |-> 1]
<1>1. stage = "visit" /\ stage # "idle" /\ UNCHANGED world
  BY DEF Visit
<1>2. ASSUME NEW items, NEW state, state # "COMPLETE", End([run EXCEPT !.items = items], state)
      PROVE  WalkInv'
  <2>1. [run EXCEPT !.items = items].id = run.id
    BY DEF AnalysisInv, IsRun
  <2> QED BY <1>1, <1>2, <2>1, EndWalk
<1>3. ASSUME NEW state, state # "COMPLETE", End(run, state) PROVE WalkInv'
  BY <1>1, <1>3, EndWalk
<1>4. ASSUME NEW nested, NEW warned,
             run' = [run EXCEPT !.nested = nested, !.stack = Append(@, frame),
                                !.warned = warned, !.next = NoVisit],
             stage' = "member", UNCHANGED <<objects, relations, jobs>>
      PROVE  WalkInv'
  <2>1. /\ run'.plan = run.plan /\ run'.items = run.items /\ run'.next = NoVisit
        /\ run'.stack = Append(run.stack, frame)
    BY <1>4 DEF AnalysisInv, IsRun
  <2>2. PICK f : f = frame
    OBVIOUS
  <2>3. f.at = run.next.at /\ f.is = run.next.is /\ f.todo = 1
    BY <2>2
  <2>4. world \in Worlds /\ run.stack \in Seq(Range(run.stack))
    BY DEF WalkInv, AnalysisInv, IsRun
  <2>5. ASSUME run.plan.policy # "metadata-only"
        PROVE  Walk(world, objects, relations, run.plan, run.items,
                    Append(run.stack, f), NoVisit, "member")
    <3>1. Walk(world, objects, relations, run.plan, run.items, run.stack, run.next, "visit")
      BY <1>1, <2>5 DEF WalkInv, Walking
    <3> QED BY <2>3, <2>4, <3>1, WalkVisits
  <2>6. run.plan.policy = "metadata-only" => Copied(run.items) = {}
    BY <1>1 DEF WalkInv, Walking
  <2>7. Walking'
    BY <1>1, <1>4, <2>1, <2>2, <2>5, <2>6 DEF Walking
  <2>8. CompleteIsExhaustive'
    BY <1>1, <1>4, CompleteStays DEF WalkInv
  <2> QED BY <1>1, <2>7, <2>8 DEF WalkInv
<1> QED BY <1>2, <1>3, <1>4 DEF Visit

LEMMA ReturnWalk == ASSUME AnalysisInv, WalkInv, Return PROVE WalkInv'
<1>1. /\ stage = "member" /\ stage # "idle" /\ run.stack # <<>> /\ UNCHANGED world
      /\ Top.todo \notin DOMAIN Listing(Here) /\ world \in Worlds
      /\ run.stack \in Seq(Range(run.stack))
  BY DEF Return, AnalysisInv, InHand, WalkInv, IsRun
<1>2. Last(run.stack).todo \notin DOMAIN ListMembers(world, Last(run.stack).is)
  BY <1>1 DEF Top, Here, Listing
<1>3. run.plan.policy = "metadata-only" => Copied(run.items) = {}
  BY <1>1 DEF WalkInv, Walking
<1>4. ASSUME run.plan.policy # "metadata-only"
      PROVE  Walk(world, objects, relations, run.plan, run.items, run.stack, run.next, "member")
  BY <1>1, <1>4 DEF WalkInv, Walking
<1>5. ASSUME ~(Len(run.stack) > 1), NEW state, End(run, state) PROVE WalkInv'
  <2>1. CASE run.plan.policy = "metadata-only"
    <3>1. Exhaustive(run.plan, run.items)
      BY <1>3, <2>1 DEF Exhaustive
    <3> QED BY <1>1, <1>5, <3>1, EndWalk
  <2>2. CASE run.plan.policy # "metadata-only"
    <3>1. /\ Grounded(world, run.plan, run.items)
          /\ \A c \in Containers(world, run.plan, run.items) :
               \A i \in Files(world, Holds(world, run.items, c)) :
                 /\ CopiedOut(world, run.items, c, i)
                 /\ Preserves(run.plan) =>
                      Recorded(world, objects, relations, Holds(world, run.items, c), i)
      BY <1>1, <1>2, <1>4, <1>5, <2>2, WalkEnds
    <3>2. Exhaustive(run.plan, run.items)
      BY <2>2, <3>1 DEF Exhaustive, Grounded
    <3> QED BY <1>1, <1>5, <3>2, EndWalk
  <2> QED BY <2>1, <2>2
<1>6. ASSUME run' = [run EXCEPT !.stack = Front(@)], UNCHANGED <<objects, relations, jobs, stage>>
      PROVE  WalkInv'
  <2>1. /\ run'.plan = run.plan /\ run'.items = run.items /\ run'.next = run.next
        /\ run'.stack = Front(run.stack)
    BY <1>6 DEF AnalysisInv, IsRun
  <2>2. ASSUME run.plan.policy # "metadata-only"
        PROVE  Walk(world, objects, relations, run.plan, run.items,
                    Front(run.stack), run.next, "member")
    BY <1>1, <1>2, <1>4, <2>2, WalkReturns
  <2>3. Walking'
    BY <1>1, <1>3, <1>6, <2>1, <2>2 DEF Walking
  <2>4. CompleteIsExhaustive'
    BY <1>1, <1>6, CompleteStays DEF WalkInv
  <2> QED BY <1>1, <2>3, <2>4 DEF WalkInv
<1>7. CASE Len(run.stack) > 1
  BY <1>6, <1>7 DEF Return
<1>8. CASE ~(Len(run.stack) > 1)
  BY <1>5, <1>8 DEF Return
<1> QED BY <1>7, <1>8

(* The member in hand, of a run that copies out.                           *)
LEMMA InHandWalks ==
    ASSUME AnalysisInv, WalkInv, stage \in {"member", "ingest", "relate"},
           run.plan.policy # "metadata-only"
    PROVE  /\ world \in Worlds /\ run.stack \in Seq(Range(run.stack)) /\ run.stack # <<>>
           /\ \A f \in Range(run.stack) : IsFrame(f)
           /\ Walk(world, objects, relations, run.plan, run.items, run.stack, run.next, stage)
           /\ Where = Place(run.stack)
           /\ Yield = Extracted(world, Last(run.stack).is, Last(run.stack).todo)
           /\ stage \in Holding => Last(run.stack).todo \in Files(world, Last(run.stack).is)
<1>1. world \in Worlds /\ run.stack \in Seq(Range(run.stack)) /\ run.stack # <<>>
  BY DEF AnalysisInv, WalkInv, IsRun, InHand
<1>2. Walk(world, objects, relations, run.plan, run.items, run.stack, run.next, stage)
  BY DEF WalkInv, Walking
<1>3. Where = Place(run.stack) /\ Yield = Extracted(world, Last(run.stack).is, Last(run.stack).todo)
  BY DEF Where, Place, Top, Yield, Here
<1>4. stage \in Holding => Last(run.stack).todo \in Files(world, Last(run.stack).is)
  BY <1>2 DEF Walk, Held
<1>5. \A f \in Range(run.stack) : IsFrame(f)
  BY DEF AnalysisInv, IsRun
<1> QED BY <1>1, <1>2, <1>3, <1>4, <1>5

(* Going on from a copy in hand of which everything is recorded.           *)
LEMMA GoOnWalk ==
    ASSUME AnalysisInv, WalkInv, stage \in {"member", "relate"}, run.plan.policy # "metadata-only",
           NEW items, NEW bytes, GoOn(items, bytes), UNCHANGED <<world, objects, jobs>>,
           relations \subseteq relations',
           NEW keys, keys = relations',
           Walk(world, objects, keys, run.plan, items, run.stack, run.next, "ingest"),
           Preserves(run.plan) => Recorded(world, objects, keys, Here, Top.todo)
    PROVE  WalkInv'
<1>1. /\ world \in Worlds /\ run.stack \in Seq(Range(run.stack)) /\ run.stack # <<>>
      /\ \A f \in Range(run.stack) : IsFrame(f)
      /\ Where = Place(run.stack)
      /\ Yield = Extracted(world, Last(run.stack).is, Last(run.stack).todo)
  BY InHandWalks
<1>2. PICK m, next, step : /\ m = Yield.is
                           /\ next = IF Opens THEN [at |-> Where, is |-> Yield.is, parent |-> ChildId]
                                     ELSE NoVisit
                           /\ step = IF Opens THEN "visit" ELSE "member"
  OBVIOUS
<1>3. /\ run'.plan = run.plan /\ run'.items = items /\ run'.stack = NextMember(run.stack)
      /\ run'.next = next /\ stage' = step
  BY <1>2 DEF GoOn, AnalysisInv, IsRun
<1>4. IF Descends(run.plan) /\ Len(Place(run.stack)) <= MaxDepth /\ world.kind[m] # "data"
        THEN step = "visit" /\ next.at = Place(run.stack) /\ next.is = m
        ELSE step = "member"
  BY <1>1, <1>2 DEF Opens
<1>5. Preserves(run.plan) =>
        Recorded(world, objects, keys, Last(run.stack).is, Last(run.stack).todo)
  BY DEF Here, Top
<1>6. "ingest" \in Holding /\ m = Extracted(world, Last(run.stack).is, Last(run.stack).todo).is
  BY <1>1, <1>2 DEF Holding
<1>7. Walk(world, objects, keys, run.plan, items, NextMember(run.stack), next, step)
  BY <1>1, <1>4, <1>5, <1>6, WalkGoesOn
<1>8. Walking'
  BY <1>3, <1>7 DEF Walking
<1>9. CompleteIsExhaustive'
  BY CompleteStays DEF WalkInv
<1> QED BY <1>1, <1>8, <1>9 DEF WalkInv

(* A copy of the member in hand is recorded.                               *)
LEMMA CopyWalks ==
    ASSUME AnalysisInv, WalkInv, stage \in {"member", "ingest", "relate"},
           run.plan.policy # "metadata-only", Top.todo \in Files(world, Here),
           NEW s, s # "DISCOVERED", NEW step2 \in Holding,
           NEW objs, objects \subseteq objs, NEW keys, relations \subseteq keys
    PROVE  Walk(world, objs, keys, run.plan, Status(s), run.stack, run.next, step2)
<1>1. /\ world \in Worlds /\ run.stack \in Seq(Range(run.stack)) /\ run.stack # <<>>
      /\ Walk(world, objects, relations, run.plan, run.items, run.stack, run.next, stage)
      /\ Where = Place(run.stack)
      /\ Yield = Extracted(world, Last(run.stack).is, Last(run.stack).todo)
  BY InHandWalks
<1>2. PICK v : v = [status |-> s, parent |-> Top.parent, is |-> Yield.is]
  OBVIOUS
<1>3. v.status # "DISCOVERED" /\ v.is = Extracted(world, Last(run.stack).is, Last(run.stack).todo).is
  BY <1>1, <1>2
<1>4. Status(s) = Set(run.items, Place(run.stack), v)
  BY <1>1, <1>2 DEF Status
<1>5. Last(run.stack).todo \in Files(world, Last(run.stack).is)
  BY DEF Top, Here
<1>6. Walk(world, objs, keys, run.plan, Set(run.items, Place(run.stack), v), run.stack, run.next, step2)
  BY <1>1, <1>3, <1>5, WalkCopies
<1> QED BY <1>4, <1>6

LEMMA TakeMemberWalk == ASSUME AnalysisInv, WalkInv, TakeMember PROVE WalkInv'
<1> DEFINE found == [run EXCEPT !.items = Status("DISCOVERED")]
<1>1. /\ stage = "member" /\ stage # "idle" /\ UNCHANGED world
      /\ Top.todo \in DOMAIN Listing(Here)
  BY DEF TakeMember
<1>2. found.id = run.id
  BY DEF AnalysisInv, IsRun
<1>3. ASSUME NEW local \in {run, found}, NEW state, state # "COMPLETE", End(local, state)
      PROVE  WalkInv'
  BY <1>1, <1>2, <1>3, EndWalk
<1>4. ASSUME Structural, run' = [found EXCEPT !.stack = NextMember(@)],
             UNCHANGED <<objects, relations, jobs, stage>>
      PROVE  WalkInv'
  <2>1. PICK v : v = [status |-> "DISCOVERED", parent |-> Top.parent, is |-> "none"]
    OBVIOUS
  <2>2. Status("DISCOVERED") = Set(run.items, Where, v) /\ v.status = "DISCOVERED"
    BY <2>1 DEF Status
  <2>3. /\ run'.plan = run.plan /\ run'.next = run.next /\ run'.stack = NextMember(run.stack)
        /\ run'.items = Set(run.items, Where, v)
    BY <1>4, <2>2 DEF AnalysisInv, IsRun
  <2>4. CASE run.plan.policy = "metadata-only"
    <3>1. Copied(run.items) = {}
      BY <1>1, <2>4 DEF WalkInv, Walking
    <3>2. Copied(Set(run.items, Where, v)) = {}
      BY <2>2, <3>1 DEF Copied, Set
    <3> QED BY <1>1, <1>4, <2>3, <2>4, <3>2, CompleteStays DEF WalkInv, Walking
  <2>5. CASE run.plan.policy # "metadata-only"
    <3>1. /\ world \in Worlds /\ run.stack \in Seq(Range(run.stack)) /\ run.stack # <<>>
          /\ \A f \in Range(run.stack) : IsFrame(f)
          /\ Walk(world, objects, relations, run.plan, run.items, run.stack, run.next, "member")
          /\ Yield = Extracted(world, Last(run.stack).is, Last(run.stack).todo)
          /\ Where = Place(run.stack)
      BY <1>1, <2>5, InHandWalks
    <3>2. Last(run.stack).todo \notin Files(world, Last(run.stack).is)
      BY <1>4, <2>5, <3>1 DEF Structural, Files, Member, Listing, Here, Top
    <3>3. Walk(world, objects, relations, run.plan, Set(run.items, Place(run.stack), v),
               NextMember(run.stack), run.next, "member")
      BY <2>2, <3>1, <3>2, WalkPasses
    <3>4. Walking'
      BY <1>1, <1>4, <2>3, <2>5, <3>1, <3>3 DEF Walking
    <3> QED BY <1>1, <1>4, <3>4, CompleteStays DEF WalkInv
  <2> QED BY <2>4, <2>5
<1>5. ASSUME ~Structural
      PROVE  run.plan.policy # "metadata-only" /\ Top.todo \in Files(world, Here)
  BY <1>1, <1>5 DEF Structural, Files, Member, Listing
<1>6. ASSUME ~Structural, NEW bytes,
             run' = [run EXCEPT !.items = Status("MATERIALIZED"), !.bytes = bytes],
             stage' = "ingest", UNCHANGED <<objects, relations, jobs>>
      PROVE  WalkInv'
  <2>1. PICK items : items = Status("MATERIALIZED")
    OBVIOUS
  <2>2. /\ run'.plan = run.plan /\ run'.next = run.next /\ run'.stack = run.stack
        /\ run'.items = items
    BY <1>6, <2>1 DEF AnalysisInv, IsRun
  <2>3. Walk(world, objects, relations, run.plan, Status("MATERIALIZED"),
             run.stack, run.next, "ingest")
    BY <1>1, <1>5, <1>6, CopyWalks DEF Holding
  <2>4. Walking'
    BY <1>1, <1>5, <1>6, <2>1, <2>2, <2>3 DEF Walking
  <2> QED BY <1>1, <1>6, <2>4, CompleteStays DEF WalkInv
<1>7. ASSUME ~Structural, ~Preserves(run.plan), NEW bytes,
             GoOn(Status("MATERIALIZED"), bytes), UNCHANGED <<objects, relations, jobs>>
      PROVE  WalkInv'
  <2>1. PICK items, keys : items = Status("MATERIALIZED") /\ keys = relations
    OBVIOUS
  <2>2. Walk(world, objects, keys, run.plan, items, run.stack, run.next, "ingest")
    BY <1>1, <1>5, <1>7, <2>1, CopyWalks DEF Holding
  <2>3. GoOn(items, bytes) /\ keys = relations' /\ run.plan.policy # "metadata-only"
    BY <1>5, <1>7, <2>1
  <2> QED BY <1>1, <1>7, <2>2, <2>3, GoOnWalk
<1>8. CASE Preserves(run.plan)
  BY <1>3, <1>4, <1>6, <1>8 DEF TakeMember
<1>9. CASE ~Preserves(run.plan)
  BY <1>3, <1>4, <1>7, <1>9 DEF TakeMember
<1> QED BY <1>8, <1>9

LEMMA HoldingCopies ==
    ASSUME AnalysisInv, WalkInv, stage \in Holding
    PROVE  /\ stage \in {"member", "ingest", "relate"} /\ run.plan.policy # "metadata-only"
           /\ Top.todo \in Files(world, Here)
<1>1. stage \in {"member", "ingest", "relate"}
  BY DEF Holding
<1>2. run.plan.policy # "metadata-only"
  BY <1>1 DEF AnalysisInv, InHand, Preserves, Holding
<1>3. Last(run.stack).todo \in Files(world, Last(run.stack).is)
  BY <1>1, <1>2, InHandWalks
<1> QED BY <1>1, <1>2, <1>3 DEF Top, Here

LEMMA IngestWalk == ASSUME AnalysisInv, WalkInv, Ingest PROVE WalkInv'
<1>1. /\ stage = "ingest" /\ stage' = "relate" /\ objects' = objects \cup {Yield.is}
      /\ run' = [run EXCEPT !.items = Status("PRESERVED")] /\ UNCHANGED <<world, relations, jobs>>
  BY DEF Ingest
<1>2. PICK items, objs : items = Status("PRESERVED") /\ objs = objects'
  OBVIOUS
<1>3. /\ run'.plan = run.plan /\ run'.next = run.next /\ run'.stack = run.stack
      /\ run'.items = items
  BY <1>1, <1>2 DEF AnalysisInv, IsRun
<1>4. /\ stage \in {"member", "ingest", "relate"} /\ run.plan.policy # "metadata-only"
      /\ Top.todo \in Files(world, Here)
  BY <1>1, HoldingCopies DEF Holding
<1>5. objects \subseteq objs
  BY <1>1, <1>2
<1>6. Walk(world, objs, relations, run.plan, items, run.stack, run.next, "relate")
  BY <1>2, <1>4, <1>5, CopyWalks DEF Holding
<1>7. Walking'
  BY <1>1, <1>2, <1>3, <1>4, <1>6 DEF Walking
<1>8. CompleteIsExhaustive'
  BY <1>1, CompleteStays DEF WalkInv
<1> QED BY <1>1, <1>7, <1>8 DEF WalkInv

LEMMA RelateWalk == ASSUME AnalysisInv, WalkInv, Relate PROVE WalkInv'
<1>1. stage = "relate" /\ stage # "idle" /\ UNCHANGED world
  BY DEF Relate
<1>2. CASE Refused /\ End(run, "FAILED")
  BY <1>1, <1>2, EndWalk
<1>3. CASE ~Refused /\ relations' = relations \cup {Key} /\ GoOn(Status("RELATED"), run.bytes)
           /\ UNCHANGED <<objects, jobs>>
  <2>1. /\ stage \in {"member", "ingest", "relate"} /\ run.plan.policy # "metadata-only"
        /\ Top.todo \in Files(world, Here)
    BY <1>1, HoldingCopies DEF Holding
  <2>2. PICK items, keys, bytes :
          items = Status("RELATED") /\ keys = relations' /\ bytes = run.bytes
    OBVIOUS
  <2>3. keys = relations \cup {Key}
    BY <1>3, <2>2
  <2>4. relations \subseteq keys
    BY <2>3
  <2>5. Walk(world, objects, keys, run.plan, items, run.stack, run.next, "ingest")
    BY <2>1, <2>2, <2>4, CopyWalks DEF Holding
  <2>6. /\ Preserves(run.plan) /\ Yield.is \in objects /\ run.stack # <<>>
    BY <1>1 DEF AnalysisInv, InHand
  <2>7. Anchored(Top)
    BY <2>6, LastIsThere DEF AnalysisInv, IsRun, Rooted, Top
  <2>8. Key.parent = Here /\ Key.child = Yield.is /\ Key.name = Member.name
    BY <2>7 DEF Key, Here, Anchored
  <2>9. Member = ListMembers(world, Here)[Top.todo] /\ Yield = Extracted(world, Here, Top.todo)
    BY DEF Member, Yield, Listing
  <2>10. Recorded(world, objects, keys, Here, Top.todo)
    BY <2>3, <2>6, <2>8, <2>9 DEF Recorded
  <2>11. GoOn(items, bytes) /\ relations \subseteq relations'
    BY <1>3, <2>2, <2>4
  <2> QED BY <1>1, <1>3, <2>1, <2>2, <2>5, <2>10, <2>11, GoOnWalk
<1> QED BY <1>2, <1>3 DEF Relate

LEMMA WalkStep == AnalysisInv /\ WalkInv /\ [AnalysisNext]_analysisVars => WalkInv'
<1> SUFFICES ASSUME AnalysisInv, WalkInv, [AnalysisNext]_analysisVars PROVE WalkInv'
  OBVIOUS
<1>1. CASE \E plan \in Plans : Analyze(plan)
  BY <1>1, CreateWalk DEF Analyze, JobIds
<1>2. CASE \E old \in JobIds, id \in JobIds : Retry(old, id)
  BY <1>2, CreateWalk DEF Retry
<1>3. CASE GiveUp
  <2>1. /\ stage # "idle" /\ UNCHANGED world
        /\ \E state \in {"TIMEOUT", "FAILED"} : state # "COMPLETE" /\ End(run, state)
    BY <1>3 DEF GiveUp
  <2> QED BY <2>1, EndWalk
<1>4. CASE UNCHANGED analysisVars
  <2>1. UNCHANGED <<world, objects, relations, jobs, run, stage>>
    BY <1>4 DEF analysisVars
  <2>2. CompleteIsExhaustive'
    BY <2>1, CompleteStays DEF WalkInv
  <2> QED BY <2>1, <2>2 DEF WalkInv, Walking
<1>5. CASE Kill
  <2>1. stage' = "idle" /\ UNCHANGED <<world, objects, relations, jobs>>
    BY <1>5 DEF Kill
  <2>2. CompleteIsExhaustive'
    BY <2>1, CompleteStays DEF WalkInv
  <2> QED BY <2>1, <2>2 DEF WalkInv, Walking
<1> QED BY <1>1, <1>2, <1>3, <1>4, <1>5, StartWalk, VisitWalk, ReturnWalk, TakeMemberWalk,
           IngestWalk, RelateWalk DEF AnalysisNext

LEMMA WalkStarts == AnalysisInit => WalkInv
<1> SUFFICES ASSUME AnalysisInit PROVE WalkInv
  OBVIOUS
<1>1. world \in Worlds /\ stage = "idle" /\ \A j \in JobIds : jobs[j].state = "NONE"
  BY DEF AnalysisInit, NoJob
<1> QED BY <1>1 DEF WalkInv, Walking, CompleteIsExhaustive

(* The provenance of a container's files is complete and true: when a job  *)
(* ends COMPLETE, every file of the root and, unless it was told not to    *)
(* descend, of each container copied out of it, to the depth limit, was    *)
(* copied out, with the bytes the container has under its name, and        *)
(* nothing else; under a policy that preserves, each is an object that a   *)
(* CONTAINS relationship joins to the container it lay in (analyze, visit).*)
THEOREM ProvenanceIsComplete == AnalysisSpec => []ProvenanceHolds
<1>1. AnalysisInv /\ WalkInv => ProvenanceHolds
  BY DEF AnalysisInv, WalkInv, ProvenanceHolds
<1>2. AnalysisInit => AnalysisInv /\ WalkInv
  BY AnalysisStarts, WalkStarts
<1>3. AnalysisInv /\ WalkInv /\ [AnalysisNext]_analysisVars => (AnalysisInv /\ WalkInv)'
  BY AnalysisStep, WalkStep
<1> QED BY <1>1, <1>2, <1>3, PTL DEF AnalysisSpec

-----------------------------------------------------------------------------
(* The resource broker.                                                    *)

(* One command at a time.                                                  *)
OneOperator == \E w : Operators = {w}

(* No two sets have the same sidecar name.                                 *)
SetNamesDiffer == \A s, t \in Sets : FileOf[s] = FileOf[t] => s = t

-----------------------------------------------------------------------------
(* The inductive invariant.                                                *)

Ids == DOMAIN FileOf \ {None.id}

Local(c) == c = [def |-> c.def, set |-> c.set, root |-> c.root, todo |-> c.todo, done |-> c.done]

Tables ==
    /\ definitions = [f \in Names |-> definitions[f]]
    /\ sets = [f \in SetFiles |-> sets[f]]
    /\ workspace = [r \in Names |-> workspace[r]]
    /\ \A r \in Names : workspace[r] = [n \in DOMAIN workspace[r] |-> workspace[r][n]]
    /\ pc = [p \in Operators |-> pc[p]]
    /\ cmd = [p \in Operators |-> cmd[p]]
    /\ \A p \in Operators : Local(cmd[p])

(* A sidecar lies where its id says.                                       *)
OwnSidecar(f, d) == d # None => d.id \in Ids /\ FileOf[d.id] = f
DefinitionsLie == \A f \in Names : OwnSidecar(f, definitions[f])

OwnFile(f, g) ==
    g # NoSet => /\ g.set \in Sets /\ g.generation \in 1..MaxGenerations
                 /\ f = <<FileOf[g.set], g.generation>>
SetsLie == \A f \in SetFiles : OwnFile(f, sets[f])

(* What the command has found out.                                         *)
Defining(d) ==
    /\ d # None /\ d.id \in Ids /\ definitions[FileOf[d.id]] = None
    /\ d \notin unchecked => ~Cyclic(d, Rows(definitions, sets).resources)
Numbering(g) ==
    /\ g # NoSet /\ OwnFile(<<FileOf[g.set], g.generation>>, g)
    /\ SetNamesDiffer => sets[<<FileOf[g.set], g.generation>>] = NoSet
Copying(c) == Head(c.todo).name \notin DOMAIN workspace[c.root]
Knows ==
    \A p \in Operators : \A c \in {cmd[p]} :
        /\ pc[p] = "define" => Defining(c.def)
        /\ pc[p] = "define set" => Numbering(c.set)
        /\ pc[p] = "copy" => Copying(c)
        /\ pc[p] \in {"check", "copy"} => c.root \in Names

Exact(x) ==
    /\ x.root \in Names /\ x.name \in DOMAIN workspace[x.root]
    /\ workspace[x.root][x.name] = x.object
OutputsExact ==
    /\ \A x \in delivered : Exact(x)
    /\ \A p \in Operators : \A x \in cmd[p].done : Exact(x)

BrokerInv ==
    /\ Tables /\ DefinitionsLie /\ SetsLie /\ Knows /\ OutputsExact
    /\ PinsStillVerify /\ CheckedAreAcyclic

-----------------------------------------------------------------------------
(* Lemmas about numbers and needs.                                         *)

(* A set of numbers up to N that is not empty has a maximum.               *)
LEMMA GreatestIsThere ==
    ASSUME NEW N \in Nat, NEW S \in SUBSET (0..N), S # {}
    PROVE  Max(S) \in S /\ \A y \in S : y <= Max(S)
<1> DEFINE R == OpToRel(<, Nat)
           T == {N - x : x \in S}
<1>1. \A y, x \in Nat : <<y, x>> \in R <=> y < x
  BY DEF OpToRel
<1>2. IsWellFoundedOn(R, Nat)
  BY NatLessThanWellFounded
<1>0. \A x \in S : x \in Nat /\ x <= N
  BY SMT
<1>3. T \subseteq Nat /\ T # {}
  <2>1. \A x \in S : N - x \in Nat
    BY <1>0, SMT
  <2>2. PICK x \in S : TRUE
    OBVIOUS
  <2>3. N - x \in T
    BY <2>2
  <2> QED BY <2>1, <2>3
<1> HIDE DEF R
<1>4. PICK x \in T : \A y \in T : <<y, x>> \notin R
  BY <1>2, <1>3, WFMin
<1>5. \A y \in T : ~(y < x)
  BY <1>1, <1>3, <1>4, Zenon
<1>6. PICK s \in S : x = N - s
  OBVIOUS
<1>7. \A y \in S : s >= y
  <2> SUFFICES ASSUME NEW y \in S PROVE s >= y
    OBVIOUS
  <2>1. N - y \in T
    OBVIOUS
  <2>2. ~(N - y < N - s)
    BY <1>5, <1>6, <2>1
  <2> HIDE DEF T
  <2> QED BY <1>0, <2>2, SMT
<1>8. Max(S) \in S /\ \A y \in S : Max(S) >= y
  BY <1>7 DEF Max
<1> QED BY <1>0, <1>8, SMT

(* A definition that does not need itself may join definitions of which    *)
(* none does.                                                              *)
LEMMA NoCycleIsClosed ==
    ASSUME NEW D, NEW d, \A e \in D : ~NeedsItself(e, D), ~NeedsItself(d, D \cup {d})
    PROVE  \A e \in D \cup {d} : ~NeedsItself(e, D \cup {d})
<1> DEFINE E == D \cup {d}
<1>1. PICK T \in SUBSET Nodes(E) : d.needs \subseteq T /\ Closed(T, E) /\ d.id \notin T
  BY DEF NeedsItself
<1>2. Nodes(D) \subseteq Nodes(E)
  BY DEF Nodes
<1>3. ASSUME NEW e \in D
      PROVE  ~NeedsItself(e, E)
  <2>1. PICK S \in SUBSET Nodes(D) : e.needs \subseteq S /\ Closed(S, D) /\ e.id \notin S
    BY DEF NeedsItself
  <2>2. S \in SUBSET Nodes(E)
    BY <1>2
  <2>3. CASE d.id \notin S
    <3>1. Closed(S, E)
      BY <2>1, <2>3 DEF Closed
    <3> QED BY <2>1, <2>2, <3>1 DEF NeedsItself
  <2>4. CASE e.id \in T
    <3>1. Closed(S \cap T, E)
      BY <1>1, <2>1 DEF Closed
    <3>2. e.needs \subseteq S \cap T
      BY <1>1, <2>1, <2>4 DEF Closed
    <3> QED BY <2>1, <2>2, <3>1, <3>2 DEF NeedsItself
  <2>5. CASE d.id \in S /\ e.id \notin T
    <3>1. Closed(S \cup T, E)
      BY <1>1, <2>1 DEF Closed
    <3>2. S \cup T \in SUBSET Nodes(E) /\ e.needs \subseteq S \cup T /\ e.id \notin S \cup T
      BY <1>1, <2>1, <2>2, <2>5
    <3> QED BY <3>1, <3>2 DEF NeedsItself
  <2> QED BY <2>3, <2>4, <2>5
<1> QED BY <1>3

(* What does not need itself does not do so among fewer definitions.       *)
LEMMA FewerNeeds ==
    ASSUME NEW E, NEW D \in SUBSET E, NEW d \in D, ~NeedsItself(d, E)
    PROVE  ~NeedsItself(d, D)
<1>1. PICK S \in SUBSET Nodes(E) : d.needs \subseteq S /\ Closed(S, E) /\ d.id \notin S
  BY DEF NeedsItself
<1>2. PICK T : T = S \cap Nodes(D)
  OBVIOUS
<1>3. \A e \in D : e.needs \subseteq Nodes(D)
  BY DEF Nodes
<1>4. d.needs \subseteq T /\ d.id \notin T /\ T \in SUBSET Nodes(D)
  BY <1>1, <1>2, <1>3
<1>5. Closed(T, D)
  BY <1>1, <1>2, <1>3 DEF Closed
<1> QED BY <1>4, <1>5 DEF NeedsItself

-----------------------------------------------------------------------------
(* A command that goes on and writes nothing.                              *)
LEMMA CommandMoves ==
    ASSUME OneOperator, BrokerInv, NEW p \in Operators, NEW step, NEW c, Become(p, step, c),
           UNCHANGED <<definitions, sets, workspace, delivered>>,
           PinsStillVerify', CheckedAreAcyclic',
           Local(c),
           step = "define" => Defining(c.def)',
           step = "define set" => Numbering(c.set),
           step = "copy" => Copying(c),
           step \in {"check", "copy"} => c.root \in Names,
           \A x \in c.done : Exact(x)
    PROVE  BrokerInv'
<1>1. Operators = {p}
  BY DEF OneOperator
<1>2. pc' = [q \in Operators |-> step] /\ cmd' = [q \in Operators |-> c]
  BY <1>1 DEF BrokerInv, Tables, Become
<1>3. Tables'
  BY <1>2 DEF BrokerInv, Tables, Local
<1>4. DefinitionsLie' /\ SetsLie'
  BY DEF BrokerInv, DefinitionsLie, SetsLie, OwnSidecar, OwnFile
<1>6. \A g : Numbering(g) => Numbering(g)'
  BY DEF Numbering, OwnFile, SetNamesDiffer
<1>7. \A x : Exact(x) => Exact(x)'
  BY DEF Exact
<1>8. Knows'
  <2>1. step = "copy" => Copying(c)'
    BY DEF Copying
  <2> QED BY <1>2, <1>6, <2>1 DEF Knows
<1>9. OutputsExact'
  BY <1>2, <1>7 DEF BrokerInv, OutputsExact
<1> QED BY <1>3, <1>4, <1>8, <1>9 DEF BrokerInv

(* A step that leaves files and commands alone.                            *)
LEMMA OthersGoOn ==
    ASSUME BrokerInv, UNCHANGED <<sidecars, workspace, delivered, pc, cmd>>,
           PinsStillVerify'
    PROVE  BrokerInv'
<1>1. Tables' /\ DefinitionsLie' /\ SetsLie'
  BY DEF sidecars, BrokerInv, Tables, DefinitionsLie, SetsLie, Local, OwnSidecar, OwnFile
<1>2. Knows'
  <2>1. \A d : Defining(d) => Defining(d)'
    BY DEF sidecars, Defining, Cyclic, Rows
  <2>2. \A g : Numbering(g) => Numbering(g)'
    BY DEF sidecars, Numbering, OwnFile, SetNamesDiffer
  <2>3. \A c : Copying(c) => Copying(c)'
    BY DEF Copying
  <2> QED BY <2>1, <2>2, <2>3 DEF BrokerInv, Knows
<1>3. OutputsExact' /\ CheckedAreAcyclic'
  BY DEF sidecars, BrokerInv, OutputsExact, Exact, CheckedAreAcyclic, Rows
<1> QED BY <1>1, <1>2, <1>3 DEF BrokerInv

(* Pins and needs of unchanged definitions.                                *)
LEMMA PinsStand ==
    ASSUME PinsStillVerify, CheckedAreAcyclic, UNCHANGED <<definitions, unchecked>>
    PROVE  CheckedAreAcyclic' /\ (UNCHANGED pins => PinsStillVerify')
BY DEF PinsStillVerify, CheckedAreAcyclic, Shown, Rows

-----------------------------------------------------------------------------
(* The actions.                                                            *)

LEMMA IdleIsLocal == Local(Idle) /\ Idle.done = {}
BY DEF Idle, Local

(* A definition to be written is on file nowhere.                          *)
LEMMA NotYetDefined ==
    ASSUME BrokerInv, NEW d, d # None, definitions[FileOf[d.id]] = None
    PROVE  d \notin Rows(definitions, sets).resources
<1> SUFFICES ASSUME NEW g \in Names, definitions[g] = d PROVE FALSE
  BY DEF BrokerInv, Tables, Rows
<1> QED BY DEF BrokerInv, DefinitionsLie, OwnSidecar

(* register() has found no sidecar, or an equal one.                       *)
LEMMA RegisterKeeps ==
    ASSUME OneOperator, BrokerInv, NEW p \in Operators, NEW d, NEW there \in BOOLEAN,
           RegisterOver(p, d, there), d.id \in Ids, d # None
    PROVE  BrokerInv'
<1>1. UNCHANGED <<definitions, sets, workspace, delivered, pins>>
  BY DEF RegisterOver
<1>2. CASE UNCHANGED <<unchecked, pc, cmd>>
  <2>1. PinsStillVerify'
    BY <1>1, <1>2, PinsStand DEF BrokerInv
  <2> QED BY <1>1, <1>2, <2>1, OthersGoOn DEF sidecars
<1>3. CASE /\ Become(p, "define", [Idle EXCEPT !.def = d])
           /\ ~Cyclic(d, Known(there)) /\ ~Taken(d) /\ definitions[FileOf[d.id]] # d
           /\ unchecked' = IF there THEN unchecked \ {d} ELSE unchecked \cup {d}
  <2>1. PICK c : c = [Idle EXCEPT !.def = d]
    OBVIOUS
  <2>2. Local(c) /\ c.def = d /\ c.done = {}
    BY <2>1 DEF Idle, Local
  <2>3. definitions[FileOf[d.id]] = None
    BY <1>3 DEF Taken
  <2>4. PICK rows : rows = Rows(definitions, sets).resources
    OBVIOUS
  <2>5. Rows(definitions, sets)'.resources = rows
    BY <1>1, <2>4 DEF Rows
  <2>6. rows \ unchecked' = rows \ unchecked
    BY <1>3, <2>3, <2>4, NotYetDefined
  <2>7. CheckedAreAcyclic'
    BY <2>4, <2>5, <2>6 DEF BrokerInv, CheckedAreAcyclic
  <2>8. PinsStillVerify'
    BY <1>1 DEF BrokerInv, PinsStillVerify, Shown, Rows
  <2>9. d \notin unchecked' => there
    BY <1>3
  <2>10. d \notin unchecked' => ~Cyclic(d, rows)
    BY <1>3, <2>4, <2>9 DEF Known
  <2>11. Defining(d)'
    BY <1>1, <2>3, <2>5, <2>10 DEF Defining
  <2> QED BY <1>1, <1>3, <2>1, <2>2, <2>7, <2>8, <2>11, CommandMoves
<1> QED BY <1>2, <1>3 DEF RegisterOver

(* The only operator moves.                                                *)
LEMMA TheOperatorMoves ==
    ASSUME OneOperator, BrokerInv, NEW p \in Operators, NEW step, NEW local, Become(p, step, local)
    PROVE  pc' = [q \in Operators |-> step] /\ cmd' = [q \in Operators |-> local]
<1>1. Operators = {p}
  BY DEF OneOperator
<1>2. /\ pc = [q \in Operators |-> pc[q]] /\ cmd = [q \in Operators |-> cmd[q]]
  BY DEF BrokerInv, Tables
<1>3. pc' = [pc EXCEPT ![p] = step] /\ cmd' = [cmd EXCEPT ![p] = local]
  BY DEF Become
<1>4. pc' = [q \in Operators |-> step]
  BY <1>1, <1>2, <1>3
<1>5. cmd' = [q \in Operators |-> local]
  BY <1>1, <1>2, <1>3
<1> QED BY <1>4, <1>5

(* The sidecar is written: what was on file stays, and no cycle is closed. *)
LEMMA DefineKeeps ==
    ASSUME OneOperator, BrokerInv, NEW p \in Operators, Define(p)
    PROVE  BrokerInv'
<1>1. PICK d : d = cmd[p].def
  OBVIOUS
<1>2. PICK f : f = FileOf[d.id]
  OBVIOUS
<1>3. Defining(d)
  BY <1>1 DEF BrokerInv, Knows, Define
<1>4. f \in Names /\ definitions[f] = None /\ d # None /\ d.id \in Ids
  BY <1>2, <1>3 DEF Defining, Names, Ids
<1>5. definitions' = [definitions EXCEPT ![f] = d]
  BY <1>1, <1>2 DEF Define
<1>6. definitions'[f] = d /\ \A g \in Names \ {f} : definitions'[g] = definitions[g]
  BY <1>4, <1>5 DEF BrokerInv, Tables
<1>7. pc' = [q \in Operators |-> "rebuild"] /\ cmd' = [q \in Operators |-> Idle]
  BY TheOperatorMoves DEF Define
<1>8. PICK D : D = Rows(definitions, sets).resources
  OBVIOUS
<1>9. Rows(definitions, sets).resources' = D \cup {d}
  <2>1. DOMAIN definitions = Names /\ DOMAIN definitions' = Names
    BY <1>5 DEF BrokerInv, Tables
  <2>2. D = {definitions[g] : g \in Names} \ {None}
    BY <1>8, <2>1 DEF Rows
  <2>3. Rows(definitions, sets).resources' = {definitions'[g] : g \in Names} \ {None}
    BY <2>1 DEF Rows
  <2> QED BY <1>4, <1>6, <2>2, <2>3
<1>10. CheckedAreAcyclic'
  <2>1. \A e \in D : e.id # d.id
    <3> SUFFICES ASSUME NEW g \in Names, definitions[g] # None PROVE definitions[g].id # d.id
      BY <1>8 DEF Rows, BrokerInv, Tables
    <3>1. FileOf[definitions[g].id] = g
      BY DEF BrokerInv, DefinitionsLie, OwnSidecar
    <3> QED BY <1>2, <1>4, <3>1
  <2>2. PICK C : C = D \ unchecked
    OBVIOUS
  <2>3. \A e \in C : ~NeedsItself(e, C)
    BY <1>8, <2>2 DEF BrokerInv, CheckedAreAcyclic
  <2>4. unchecked' = unchecked
    BY DEF Define
  <2>5. CASE d \in unchecked
    <3>1. (D \cup {d}) \ unchecked = C
      BY <2>2, <2>5
    <3> QED BY <1>9, <2>3, <2>4, <3>1 DEF CheckedAreAcyclic
  <2>6. CASE d \notin unchecked
    <3>1. (D \cup {d}) \ unchecked = C \cup {d}
      BY <2>2, <2>6
    <3>2. {e \in D : e.id # d.id} \cup {d} = D \cup {d}
      BY <2>1
    <3>3. ~NeedsItself(d, D \cup {d})
      BY <1>3, <1>8, <2>6, <3>2 DEF Defining, Cyclic
    <3>4. ~NeedsItself(d, C \cup {d})
      BY <2>2, <3>3, FewerNeeds
    <3>5. \A e \in C \cup {d} : ~NeedsItself(e, C \cup {d})
      BY <2>3, <3>4, NoCycleIsClosed
    <3> QED BY <1>9, <2>4, <3>1, <3>5 DEF CheckedAreAcyclic
  <2> QED BY <2>5, <2>6
<1>11. PinsStillVerify'
  <2>1. \A id : Shown(id) \subseteq Shown(id)'
    BY <1>8, <1>9 DEF Shown
  <2>2. pins' = pins
    BY DEF Define
  <2> QED BY <2>1, <2>2 DEF BrokerInv, PinsStillVerify
<1>12. Tables'
  BY <1>5, <1>7, IdleIsLocal DEF BrokerInv, Tables, Define
<1>13. DefinitionsLie' /\ SetsLie'
  BY <1>2, <1>4, <1>6 DEF BrokerInv, DefinitionsLie, SetsLie, Define, OwnSidecar, OwnFile
<1>14. Knows'
  BY <1>7 DEF Knows
<1>15. OutputsExact'
  <2>1. \A x : Exact(x) => Exact(x)'
    BY DEF Exact, Define
  <2> QED BY <1>7, <2>1, IdleIsLocal DEF BrokerInv, OutputsExact, Define
<1> QED BY <1>10, <1>11, <1>12, <1>13, <1>14, <1>15 DEF BrokerInv

(* The generation after the largest one has no sidecar.                    *)
LEMMA NextIsFree ==
    ASSUME BrokerInv, SetNamesDiffer, NEW s \in Sets, NEW n,
           n = Max(Generations(s) \cup {0}) + 1, n <= MaxGenerations
    PROVE  sets[<<FileOf[s], n>>] = NoSet
<1>1. DOMAIN sets = SetFiles
  BY DEF BrokerInv, Tables
<1>2. \A f \in SetFiles : sets[f] # NoSet /\ sets[f].set = s => sets[f].generation \in Generations(s)
  BY <1>1 DEF Generations, Rows
<1>3. Generations(s) \subseteq 1..MaxGenerations
  BY <1>1 DEF Generations, Rows, BrokerInv, SetsLie, OwnFile
<1>4. PICK S : S = Generations(s) \cup {0}
  OBVIOUS
<1>5. S \in SUBSET (0..MaxGenerations) /\ S # {}
  BY <1>3, <1>4, IdsAssumption, SMT
<1>6. Max(S) \in S /\ \A y \in S : y <= Max(S)
  BY <1>5, IdsAssumption, GreatestIsThere, Zenon
<1>7. PICK m : m = Max(S)
  OBVIOUS
<1>8. m \in 0..MaxGenerations /\ n = m + 1
  BY <1>4, <1>5, <1>6, <1>7
<1>9. n \notin S /\ n \in 1..MaxGenerations
  BY <1>5, <1>6, <1>7, <1>8, IdsAssumption, SMT
<1>10. <<FileOf[s], n>> \in SetFiles
  BY <1>9, IdsAssumption DEF SetFiles, Names
<1>11. SUFFICES ASSUME sets[<<FileOf[s], n>>] # NoSet PROVE FALSE
  OBVIOUS
<1>12. PICK g : g = sets[<<FileOf[s], n>>]
  OBVIOUS
<1>13. g.set \in Sets /\ <<FileOf[s], n>> = <<FileOf[g.set], g.generation>>
  BY <1>10, <1>11, <1>12 DEF BrokerInv, SetsLie, OwnFile
<1>14. g.set = s /\ g.generation = n
  BY <1>13 DEF SetNamesDiffer
<1> QED BY <1>2, <1>4, <1>9, <1>10, <1>11, <1>12, <1>14

(* define_set() takes the number after the largest.                        *)
LEMMA DefineSetKeeps ==
    ASSUME OneOperator, BrokerInv, NEW p \in Operators, NEW s \in Sets, NEW k, DefineSet(p, s, k)
    PROVE  BrokerInv'
<1>1. PinsStillVerify' /\ CheckedAreAcyclic'
  BY PinsStand DEF DefineSet, sidecars, BrokerInv
<1>2. PICK n : n = Max(Generations(s) \cup {0}) + 1
  OBVIOUS
<1>3. PICK g : g = [set |-> s, generation |-> n, contents |-> k]
  OBVIOUS
<1>4. PICK c : c = [Idle EXCEPT !.set = g]
  OBVIOUS
<1>5. Local(c) /\ c.set = g /\ c.done = {}
  BY <1>4 DEF Idle, Local
<1>6. g.set = s /\ g.generation = n /\ n <= MaxGenerations
  BY <1>2, <1>3 DEF DefineSet
<1>7. n \in 1..MaxGenerations
  <2>1. PICK S : S = Generations(s) \cup {0}
    OBVIOUS
  <2>2. Generations(s) \subseteq 1..MaxGenerations
    BY DEF Generations, Rows, BrokerInv, Tables, SetsLie, OwnFile
  <2>3. S \in SUBSET (0..MaxGenerations) /\ S # {}
    BY <2>1, <2>2, IdsAssumption, SMT
  <2>4. Max(S) \in S
    BY <2>3, IdsAssumption, GreatestIsThere, Zenon
  <2>5. PICK m : m = Max(S)
    OBVIOUS
  <2>6. m \in 0..MaxGenerations /\ n = m + 1
    BY <1>2, <2>1, <2>3, <2>4, <2>5
  <2> QED BY <1>6, <2>6, IdsAssumption, SMT
<1>8. Numbering(g)
  <2>1. g # NoSet
    BY <1>6, IdsAssumption DEF NoSet, Idle, None
  <2>2. SetNamesDiffer => sets[<<FileOf[s], n>>] = NoSet
    BY <1>2, <1>6, NextIsFree
  <2> QED BY <1>6, <1>7, <2>1, <2>2 DEF Numbering, OwnFile
<1>9. Become(p, "define set", c)
  BY <1>2, <1>3, <1>4 DEF DefineSet
<1> QED BY <1>1, <1>5, <1>8, <1>9, CommandMoves DEF DefineSet, sidecars

LEMMA WriteSetKeeps ==
    ASSUME OneOperator, BrokerInv, NEW p \in Operators, WriteSet(p)
    PROVE  BrokerInv'
<1>1. PICK g : g = cmd[p].set
  OBVIOUS
<1>2. PICK f : f = <<FileOf[g.set], g.generation>>
  OBVIOUS
<1>3. OwnFile(f, g) /\ g # NoSet
  BY <1>1, <1>2 DEF BrokerInv, Knows, Numbering, WriteSet
<1>4. sets' = [sets EXCEPT ![f] = g]
  BY <1>1, <1>2 DEF WriteSet
<1>5. f \in SetFiles
  BY <1>2, <1>3, IdsAssumption DEF OwnFile, SetFiles, Names
<1>6. pc' = [q \in Operators |-> "rebuild"] /\ cmd' = [q \in Operators |-> Idle]
  <2>1. Become(p, "rebuild", Idle)
    BY DEF WriteSet
  <2> QED BY <2>1, TheOperatorMoves
<1>7. Tables'
  BY <1>4, <1>6, IdleIsLocal DEF BrokerInv, Tables, WriteSet
<1>8. \A h \in SetFiles : sets'[h] = IF h = f THEN g ELSE sets[h]
  BY <1>4 DEF BrokerInv, Tables
<1>9. DefinitionsLie' /\ SetsLie'
  BY <1>3, <1>8 DEF BrokerInv, DefinitionsLie, SetsLie, WriteSet, OwnSidecar, OwnFile
<1>10. Knows'
  BY <1>6 DEF Knows
<1>11. OutputsExact'
  <2>1. \A x : Exact(x) => Exact(x)'
    BY DEF Exact, WriteSet
  <2> QED BY <1>6, <2>1, IdleIsLocal DEF BrokerInv, OutputsExact, WriteSet
<1>12. PinsStillVerify' /\ CheckedAreAcyclic'
  BY PinsStand DEF WriteSet, BrokerInv
<1> QED BY <1>7, <1>9, <1>10, <1>11, <1>12 DEF BrokerInv

LEMMA RebuildKeeps ==
    ASSUME OneOperator, BrokerInv, NEW p \in Operators, Rebuild(p) \/ Crash(p)
    PROVE  BrokerInv'
<1>1. PinsStillVerify' /\ CheckedAreAcyclic'
  BY PinsStand DEF Rebuild, Crash, sidecars, BrokerInv
<1> QED BY <1>1, IdleIsLocal, CommandMoves DEF Rebuild, Crash, sidecars, Finish

LEMMA PinKeeps ==
    ASSUME OneOperator, BrokerInv, NEW p \in Operators, NEW id, Pin(p, id)
    PROVE  BrokerInv'
<1>1. PICK d \in Resolved(id) : pins' = pins \cup {[resource |-> id, objects |-> ObjectsOf(d)]}
  BY DEF Pin
<1>2. d \in Shown(id)
  BY <1>1 DEF Resolved
<1>3. \A i : Shown(i)' = Shown(i)
  BY DEF Pin, sidecars, Shown, Rows
<1>4. PinsStillVerify'
  <2> SUFFICES ASSUME NEW pin \in pins' PROVE \E e \in Shown(pin.resource) : ObjectsOf(e) = pin.objects
    BY <1>3 DEF PinsStillVerify
  <2>1. CASE pin \in pins
    BY <2>1 DEF BrokerInv, PinsStillVerify
  <2>2. CASE pin = [resource |-> id, objects |-> ObjectsOf(d)]
    BY <1>2, <2>2
  <2> QED BY <1>1, <2>1, <2>2
<1> QED BY <1>4, OthersGoOn DEF Pin, sidecars

LEMMA MaterializeKeeps ==
    ASSUME OneOperator, BrokerInv, NEW p \in Operators, NEW id \in DOMAIN FileOf, Materialize(p, id)
    PROVE  BrokerInv'
<1>1. PinsStillVerify' /\ CheckedAreAcyclic'
  BY PinsStand DEF Materialize, sidecars, BrokerInv
<1>2. PICK d : Become(p, "check", [Idle EXCEPT !.root = FileOf[id], !.todo = d.objects])
  BY DEF Materialize
<1>3. PICK c : c = [Idle EXCEPT !.root = FileOf[id], !.todo = d.objects]
  OBVIOUS
<1>4. Local(c) /\ c.root = FileOf[id] /\ c.done = {}
  BY <1>3 DEF Idle, Local
<1>5. c.root \in Names
  BY <1>4 DEF Names
<1> QED BY <1>1, <1>2, <1>3, <1>4, <1>5, CommandMoves DEF Materialize, sidecars

(* The output of the item in hand.                                         *)
LEMMA AdvanceIsLocal ==
    ASSUME NEW c, Local(c)
    PROVE  /\ Local(Advance(c)) /\ Advance(c).root = c.root
           /\ Advance(c).done = c.done \cup {Output(c.root, Head(c.todo))}
<1>1. PICK out : out = Output(c.root, Head(c.todo))
  OBVIOUS
<1>2. PICK rest : rest = Tail(c.todo)
  OBVIOUS
<1>3. Advance(c) = [c EXCEPT !.todo = rest, !.done = @ \cup {out}]
  BY <1>1, <1>2 DEF Advance
<1> QED BY <1>1, <1>3 DEF Local

LEMMA CheckKeeps ==
    ASSUME OneOperator, BrokerInv, NEW p \in Operators, Check(p)
    PROVE  BrokerInv'
<1>1. PinsStillVerify' /\ CheckedAreAcyclic'
  BY PinsStand DEF Check, sidecars, BrokerInv
<1>2. PICK c : c = cmd[p]
  OBVIOUS
<1>3. Local(c) /\ c.root \in Names /\ \A x \in c.done : Exact(x)
  BY <1>2 DEF BrokerInv, Tables, Knows, OutputsExact, Check
<1>4. PICK item : item = Head(c.todo)
  OBVIOUS
<1>5. UNCHANGED <<definitions, sets, workspace, delivered>>
  BY DEF Check, sidecars
<1>6. CASE /\ item.name \in DOMAIN workspace[c.root] /\ workspace[c.root][item.name] = item.object
           /\ Become(p, "check", Advance(c))
  <2>1. Exact(Output(c.root, item))
    BY <1>3, <1>6 DEF Exact, Output
  <2>2. PICK a : a = Advance(c)
    OBVIOUS
  <2>3. Local(a) /\ a.root = c.root /\ a.done = c.done \cup {Output(c.root, item)}
    BY <1>3, <1>4, <2>2, AdvanceIsLocal
  <2>4. \A x \in a.done : Exact(x)
    BY <1>3, <2>1, <2>3
  <2> QED BY <1>1, <1>3, <1>5, <1>6, <2>2, <2>3, <2>4, CommandMoves
<1>7. CASE item.name \notin DOMAIN workspace[c.root] /\ Become(p, "copy", c)
  BY <1>1, <1>3, <1>4, <1>5, <1>7, CommandMoves DEF Copying
<1>8. CASE Finish(p)
  BY <1>1, <1>5, <1>8, IdleIsLocal, CommandMoves DEF Finish
<1> QED BY <1>2, <1>4, <1>6, <1>7, <1>8 DEF Check, Free

(* Nothing that was delivered is written over.                             *)
LEMMA CopyKeeps ==
    ASSUME OneOperator, BrokerInv, NEW p \in Operators, Copy(p)
    PROVE  BrokerInv'
<1>1. PICK c : c = cmd[p]
  OBVIOUS
<1>2. PICK item : item = Head(c.todo)
  OBVIOUS
<1>3. PICK r : r = c.root
  OBVIOUS
<1>4. /\ Local(c) /\ r \in Names /\ item.name \notin DOMAIN workspace[r]
      /\ \A x \in c.done : Exact(x)
  BY <1>1, <1>2, <1>3 DEF BrokerInv, Tables, Knows, Copying, OutputsExact, Copy
<1>5. PICK files : files = Put(workspace[r], item)
  OBVIOUS
<1>6. /\ files = [n \in DOMAIN files |-> files[n]]
      /\ item.name \in DOMAIN files /\ files[item.name] = item.object
      /\ \A n \in DOMAIN workspace[r] : n \in DOMAIN files /\ files[n] = workspace[r][n]
  <2>1. PICK old : old = workspace[r]
    OBVIOUS
  <2>2. files = [n \in {item.name} \cup DOMAIN old |-> IF n = item.name THEN item.object ELSE old[n]]
    BY <1>5, <2>1 DEF Put
  <2>3. item.name \notin DOMAIN old
    BY <1>4, <2>1
  <2> QED BY <2>1, <2>2, <2>3
<1>7. workspace' = [workspace EXCEPT ![r] = files]
  BY <1>1, <1>2, <1>3, <1>5 DEF Copy
<1>8. \A q \in Names : workspace'[q] = IF q = r THEN files ELSE workspace[q]
  BY <1>7 DEF BrokerInv, Tables
<1>9. \A x : Exact(x) => Exact(x)'
  BY <1>6, <1>8 DEF Exact
<1>10. PICK a : a = Advance(c)
  OBVIOUS
<1>11. Local(a) /\ a.root = r /\ a.done = c.done \cup {Output(r, item)}
  BY <1>2, <1>3, <1>4, <1>10, AdvanceIsLocal
<1>12. pc' = [q \in Operators |-> "check"] /\ cmd' = [q \in Operators |-> a]
  BY <1>1, <1>10, TheOperatorMoves DEF Copy
<1>13. Tables'
  <2>1. \A q \in Names : workspace'[q] = [n \in DOMAIN workspace'[q] |-> workspace'[q][n]]
    BY <1>6, <1>8 DEF BrokerInv, Tables
  <2>2. workspace' = [q \in Names |-> workspace'[q]]
    BY <1>7 DEF BrokerInv, Tables
  <2> QED BY <1>11, <1>12, <2>1, <2>2 DEF BrokerInv, Tables, Copy, sidecars
<1>14. DefinitionsLie' /\ SetsLie'
  BY DEF BrokerInv, DefinitionsLie, SetsLie, Copy, sidecars, OwnSidecar, OwnFile
<1>15. Knows'
  BY <1>4, <1>11, <1>12 DEF Knows
<1>16. Exact(Output(r, item))'
  <2>1. PICK x : x = Output(r, item)
    OBVIOUS
  <2>2. Exact(x)'
    BY <1>4, <1>6, <1>8, <2>1 DEF Exact, Output
  <2> QED BY <2>1, <2>2
<1>17. OutputsExact'
  <2>1. \A x \in delivered' : Exact(x)'
    BY <1>9 DEF Copy, BrokerInv, OutputsExact
  <2>2. \A x \in a.done : Exact(x)'
    BY <1>4, <1>9, <1>11, <1>16
  <2> QED BY <1>12, <2>1, <2>2 DEF OutputsExact
<1>18. PinsStillVerify' /\ CheckedAreAcyclic'
  BY PinsStand DEF Copy, sidecars, BrokerInv
<1> QED BY <1>13, <1>14, <1>15, <1>17, <1>18 DEF BrokerInv

LEMMA DeliverKeeps ==
    ASSUME OneOperator, BrokerInv, NEW p \in Operators, Deliver(p)
    PROVE  BrokerInv'
<1>1. pc' = [q \in Operators |-> "idle"] /\ cmd' = [q \in Operators |-> Idle]
  BY TheOperatorMoves DEF Deliver, Finish
<1>2. UNCHANGED <<definitions, sets, unchecked, workspace, pins>>
  BY DEF Deliver, sidecars
<1>3. Tables'
  BY <1>1, <1>2, IdleIsLocal DEF BrokerInv, Tables
<1>4. DefinitionsLie' /\ SetsLie'
  BY <1>2 DEF BrokerInv, DefinitionsLie, SetsLie, OwnSidecar, OwnFile
<1>5. Knows'
  BY <1>1 DEF Knows
<1>6. OutputsExact'
  <2>1. \A x : Exact(x) => Exact(x)'
    BY <1>2 DEF Exact
  <2> QED BY <1>1, <2>1, IdleIsLocal DEF BrokerInv, OutputsExact, Deliver
<1>7. PinsStillVerify' /\ CheckedAreAcyclic'
  BY <1>2, PinsStand DEF BrokerInv
<1> QED BY <1>3, <1>4, <1>5, <1>6, <1>7 DEF BrokerInv

(* What the consumer wrote over is no longer said to be the broker's.      *)
LEMMA TouchKeeps ==
    ASSUME BrokerInv, NEW r \in Names, Touch(r)
    PROVE  BrokerInv'
<1>1. PICK n \in DOMAIN workspace[r] :
        /\ workspace' = [workspace EXCEPT ![r][n] = Own]
        /\ delivered' = Except(delivered, r, n)
        /\ cmd' = [p \in Operators |-> [cmd[p] EXCEPT !.done = Except(@, r, n)]]
  BY DEF Touch
<1>2. UNCHANGED <<definitions, sets, unchecked, pins, pc>>
  BY DEF Touch, sidecars
<1>3. PICK files : files = [workspace[r] EXCEPT ![n] = Own]
  OBVIOUS
<1>4. workspace' = [workspace EXCEPT ![r] = files]
  BY <1>1, <1>3
<1>5. \A q \in Names : workspace'[q] = IF q = r THEN files ELSE workspace[q]
  BY <1>4 DEF BrokerInv, Tables
<1>6. /\ DOMAIN files = DOMAIN workspace[r] /\ files = [m \in DOMAIN files |-> files[m]]
      /\ \A m \in DOMAIN files \ {n} : files[m] = workspace[r][m]
  BY <1>3
<1>7. \A x : Exact(x) /\ (x.root # r \/ x.name # n) => Exact(x)'
  BY <1>5, <1>6 DEF Exact
<1>8. \A p \in Operators :
        /\ Local(cmd'[p]) /\ cmd'[p].def = cmd[p].def /\ cmd'[p].set = cmd[p].set
        /\ cmd'[p].root = cmd[p].root /\ cmd'[p].todo = cmd[p].todo
        /\ cmd'[p].done = Except(cmd[p].done, r, n)
  <2> SUFFICES ASSUME NEW p \in Operators
               PROVE  /\ Local(cmd'[p]) /\ cmd'[p].def = cmd[p].def /\ cmd'[p].set = cmd[p].set
                      /\ cmd'[p].root = cmd[p].root /\ cmd'[p].todo = cmd[p].todo
                      /\ cmd'[p].done = Except(cmd[p].done, r, n)
    OBVIOUS
  <2>1. PICK c : c = cmd[p]
    OBVIOUS
  <2>2. PICK left : left = Except(c.done, r, n)
    OBVIOUS
  <2>3. Local(c)
    BY <2>1 DEF BrokerInv, Tables
  <2>4. cmd'[p] = [c EXCEPT !.done = left]
    BY <1>1, <2>1, <2>2
  <2> QED BY <2>1, <2>2, <2>3, <2>4 DEF Local
<1>9. Tables'
  <2>1. cmd' = [p \in Operators |-> cmd'[p]]
    BY <1>1
  <2>2. \A q \in Names : workspace'[q] = [m \in DOMAIN workspace'[q] |-> workspace'[q][m]]
    BY <1>5, <1>6 DEF BrokerInv, Tables
  <2>3. workspace' = [q \in Names |-> workspace'[q]]
    BY <1>4 DEF BrokerInv, Tables
  <2> QED BY <1>2, <1>8, <2>1, <2>2, <2>3 DEF BrokerInv, Tables
<1>10. DefinitionsLie' /\ SetsLie'
  BY <1>2 DEF BrokerInv, DefinitionsLie, SetsLie, OwnSidecar, OwnFile
<1>11. Knows'
  <2>1. \A d : Defining(d) => Defining(d)'
    BY <1>2 DEF Defining, Cyclic, Rows
  <2>2. \A g : Numbering(g) => Numbering(g)'
    BY <1>2 DEF Numbering, OwnFile, SetNamesDiffer
  <2>3. \A q \in Names : DOMAIN workspace'[q] = DOMAIN workspace[q]
    BY <1>5, <1>6
  <2> SUFFICES ASSUME NEW p \in Operators, NEW c, c = cmd'[p]
               PROVE  /\ pc[p] = "define" => Defining(c.def)'
                      /\ pc[p] = "define set" => Numbering(c.set)'
                      /\ pc[p] = "copy" => Copying(c)'
                      /\ pc[p] \in {"check", "copy"} => c.root \in Names
    BY <1>2 DEF Knows
  <2>4. PICK b : b = cmd[p]
    OBVIOUS
  <2>5. c.def = b.def /\ c.set = b.set /\ c.root = b.root /\ c.todo = b.todo
    BY <1>8, <2>4
  <2>6. /\ pc[p] = "define" => Defining(b.def)
        /\ pc[p] = "define set" => Numbering(b.set)
        /\ pc[p] = "copy" => Copying(b)
        /\ pc[p] \in {"check", "copy"} => b.root \in Names
    BY <2>4 DEF BrokerInv, Knows
  <2>7. pc[p] = "copy" => Copying(c)'
    BY <2>3, <2>5, <2>6 DEF Copying
  <2> QED BY <2>1, <2>2, <2>5, <2>6, <2>7
<1>12. OutputsExact'
  <2>1. \A x \in delivered' : Exact(x)'
    BY <1>1, <1>7 DEF BrokerInv, OutputsExact, Except
  <2>2. \A p \in Operators : \A x \in cmd'[p].done : Exact(x)'
    BY <1>7, <1>8 DEF BrokerInv, OutputsExact, Except
  <2> QED BY <2>1, <2>2 DEF OutputsExact
<1>13. PinsStillVerify' /\ CheckedAreAcyclic'
  BY <1>2, PinsStand DEF BrokerInv
<1> QED BY <1>9, <1>10, <1>11, <1>12, <1>13 DEF BrokerInv

-----------------------------------------------------------------------------
(* Whatever is done keeps the invariant.                                   *)
LEMMA BrokerStep ==
    ASSUME OneOperator, BrokerInv, [Next]_vars
    PROVE  BrokerInv'
<1>1. CASE UNCHANGED vars
  BY <1>1, OthersGoOn, PinsStand DEF vars, sidecars, BrokerInv
<1>2. ASSUME NEW o \in Objects, Preserve(o) PROVE BrokerInv'
  BY <1>2, OthersGoOn, PinsStand DEF Preserve, sidecars, BrokerInv
<1>3. ASSUME NEW k \in Packages, NewGeneration(k) PROVE BrokerInv'
  BY <1>3, OthersGoOn, PinsStand DEF NewGeneration, sidecars, BrokerInv
<1>4. CASE LoseIndex
  BY <1>4, OthersGoOn, PinsStand DEF LoseIndex, sidecars, BrokerInv
<1>5. ASSUME NEW r \in Names, Touch(r) PROVE BrokerInv'
  BY <1>5, TouchKeeps
<1>6. ASSUME NEW p \in Operators, NEW d \in Definitions, Register(p, d) PROVE BrokerInv'
  <2>1. d.id \in Ids /\ d # None
    BY IdsAssumption DEF Ids
  <2>2. PICK there \in BOOLEAN : there = (index # Missing)
    OBVIOUS
  <2>3. RegisterOver(p, d, there)
    BY <1>6, <2>2 DEF Register
  <2> QED BY <2>1, <2>3, RegisterKeeps
<1>7. ASSUME NEW p \in Operators, NEW k \in Packages, RegisterPackage(p, k) PROVE BrokerInv'
  <2>1. PICK d : d = Generation(k)
    OBVIOUS
  <2>2. d.id = k
    BY <2>1 DEF Generation
  <2>3. d.id \in Ids /\ d # None
    BY <2>2, IdsAssumption DEF Ids
  <2> QED BY <1>7, <2>1, <2>3, RegisterKeeps DEF RegisterPackage
<1>8. ASSUME NEW p \in Operators, NEW s \in Sets, NEW c \in Contents, DefineSet(p, s, c)
      PROVE  BrokerInv'
  BY <1>8, DefineSetKeeps
<1>9. ASSUME NEW p \in Operators, NEW id \in DOMAIN FileOf, Pin(p, id) \/ Materialize(p, id)
      PROVE  BrokerInv'
  BY <1>9, PinKeeps, MaterializeKeeps
<1>10. ASSUME NEW p \in Operators, Define(p) \/ WriteSet(p) PROVE BrokerInv'
  BY <1>10, DefineKeeps, WriteSetKeeps
<1>11. ASSUME NEW p \in Operators, Rebuild(p) \/ Crash(p) PROVE BrokerInv'
  BY <1>11, RebuildKeeps
<1>12. ASSUME NEW p \in Operators, Check(p) \/ Copy(p) \/ Deliver(p) PROVE BrokerInv'
  BY <1>12, CheckKeeps, CopyKeeps, DeliverKeeps
<1> QED
  BY <1>1, <1>2, <1>3, <1>4, <1>5, <1>6, <1>7, <1>8, <1>9, <1>10, <1>11, <1>12 DEF Next

LEMMA BrokerInit ==
    ASSUME Init
    PROVE  BrokerInv
<1>1. definitions = [f \in Names |-> None] /\ sets = [f \in SetFiles |-> NoSet]
  BY DEF Init
<1>2. Tables
  <2>1. PICK own : own = [n \in {} |-> Own]
    OBVIOUS
  <2>2. own = [n \in DOMAIN own |-> own[n]]
    BY <2>1
  <2>3. workspace = [r \in Names |-> own]
    BY <2>1 DEF Init
  <2>4. pc = [p \in Operators |-> "idle"] /\ cmd = [p \in Operators |-> Idle]
    BY DEF Init
  <2> QED BY <1>1, <2>2, <2>3, <2>4, IdleIsLocal DEF Tables
<1>3. DefinitionsLie /\ SetsLie
  BY <1>1 DEF DefinitionsLie, SetsLie, OwnSidecar, OwnFile
<1>4. Knows
  BY DEF Init, Knows
<1>5. OutputsExact
  BY IdleIsLocal DEF Init, OutputsExact
<1>6. PinsStillVerify
  BY DEF Init, PinsStillVerify
<1>7. Rows(definitions, sets).resources = {}
  BY <1>1 DEF Rows
<1>8. CheckedAreAcyclic
  BY <1>7 DEF CheckedAreAcyclic
<1> QED BY <1>2, <1>3, <1>4, <1>5, <1>6, <1>8 DEF BrokerInv

-----------------------------------------------------------------------------
(* What a command has found out still holds when it writes, and what was   *)
(* delivered, pinned or defined stands, if one operator works at a time    *)
(* (register, define_set, materialize, rebuild of broker.py).              *)
THEOREM BrokerInvariant ==
    ASSUME OneOperator
    PROVE  Spec => []BrokerInv
<1>1. Init => BrokerInv
  BY BrokerInit
<1>2. BrokerInv /\ [Next]_vars => BrokerInv'
  BY BrokerStep
<1> QED BY <1>1, <1>2, PTL DEF Spec

(* verify_manifest succeeds for ever, and the dependencies form no cycle   *)
(* but through definitions registered while the SQLite file was missing,   *)
(* whatever is registered, killed or lost (broker.py:236-260, 488-495).    *)
THEOREM DefinitionsStayUsable ==
    ASSUME OneOperator
    PROVE  Spec => []DefinitionsHold
<1>1. BrokerInv => DefinitionsHold
  BY DEF BrokerInv, DefinitionsHold
<1> QED BY <1>1, BrokerInvariant, PTL

(* A file that materialize() reported as delivered holds its object until  *)
(* the consumer changes it (broker.py:467-480).                            *)
THEOREM DeliveriesAreExact ==
    ASSUME OneOperator
    PROVE  Spec => []DeliveredIsExact
<1>1. BrokerInv => DeliveredIsExact
  BY DEF BrokerInv, OutputsExact, Exact, DeliveredIsExact
<1> QED BY <1>1, BrokerInvariant, PTL

(* Only define_set writes a set's sidecar, and the number it takes has     *)
(* none (broker.py:289-299).                                               *)
LEMMA SetsStand ==
    ASSUME BrokerInv, SetNamesDiffer, [Next]_vars
    PROVE  \A f \in SetFiles : sets[f] # NoSet => sets'[f] = sets[f]
<1>1. CASE \E p \in Operators : WriteSet(p)
  <2>1. PICK p \in Operators : WriteSet(p)
    BY <1>1
  <2>2. PICK g : g = cmd[p].set
    OBVIOUS
  <2>3. PICK e : e = <<FileOf[g.set], g.generation>>
    OBVIOUS
  <2>4. sets[e] = NoSet
    BY <2>1, <2>2, <2>3 DEF BrokerInv, Knows, Numbering, WriteSet
  <2>5. sets' = [sets EXCEPT ![e] = g]
    BY <2>1, <2>2, <2>3 DEF WriteSet
  <2> QED BY <2>4, <2>5 DEF BrokerInv, Tables
<1>2. CASE ~ \E p \in Operators : WriteSet(p)
  <2>1. sets' = sets
    BY <1>2 DEF Next, vars, sidecars, Preserve, NewGeneration, Touch, LoseIndex, Register, RegisterOver,
       RegisterPackage, DefineSet, Pin, Materialize, Define, Rebuild, Check, Copy, Deliver, Crash
  <2> QED BY <2>1
<1> QED BY <1>1, <1>2

(* A sidecar of a set is never given other contents, with one operator and *)
(* sets whose names differ as files; the run broker_sets shows two whose   *)
(* names do not.                                                           *)
THEOREM GenerationsStand ==
    ASSUME OneOperator, SetNamesDiffer
    PROVE  Spec => SetGenerationsImmutable
<1>1. BrokerInv /\ [Next]_vars
        => [\A f \in SetFiles : sets[f] # NoSet => sets'[f] = sets[f]]_vars
  BY SetsStand
<1> QED BY <1>1, BrokerInvariant, PTL DEF Spec, SetGenerationsImmutable
=============================================================================
