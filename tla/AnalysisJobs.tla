---------------------------- MODULE AnalysisJobs ----------------------------
(***************************************************************************)
(* AnalysisManager of analysis.py: a job opens a preserved object, lists   *)
(* what an analyzer finds in it, copies out its files, preserves them as   *)
(* objects of their own and opens those in turn, within limits.            *)
(*                                                                         *)
(* A world says of each content what the first matching analyzer makes of  *)
(* it ("archive" is ZIP or TAR, whose listing leaves out members that are  *)
(* too large; "volume" the analyzers that list all; "recognised" those     *)
(* that list nothing; "tool" an analyzer that is not available; "broken"   *)
(* bytes it cannot parse; "data" no match), its size and its members.      *)
(* A member has a name, which another member may have too, and a position: *)
(* the indexes that lead to it.  Observations, malware states, rights and  *)
(* the formats recorded are left out.  One command runs at a time.         *)
(***************************************************************************)
EXTENDS Naturals, FiniteSets, Sequences, SequencesExt

CONSTANTS
    Worlds,      \* [kind, size, members: functions of the contents; root]
    Plans,       \* [policy, recursive] of what is asked for
    Retries,     \* job ids that a retry may draw
    MaxDepth, MaxFiles, MaxBytes, MaxSingle, MaxRatio, MaxNested, \* AnalysisLimits
    MaxJobs,     \* bound on the jobs created
    MaxKills     \* bound on kills

ASSUME PlansAssumption ==
    /\ Plans \subseteq [policy : {"metadata-only", "identify", "preserve", "archival"},
                        recursive : BOOLEAN]
    /\ Plans \cap Retries = {}

VARIABLES
    world,     \* what the bytes contain; never changes
    objects,   \* contents with a master in the archive
    relations, \* the keys of the CONTAINS sidecars
    jobs,      \* job files; the first job of a plan is named by the plan
    run,       \* local variables of the running analyze()
    stage, kills

analysisVars == <<world, objects, relations, jobs, run, stage, kills>>

JobIds == Plans \cup Retries
NoPlan == [policy |-> "none", recursive |-> FALSE]
NoJob  == [plan |-> NoPlan, state |-> "NONE", items |-> <<>>]
Open   == {"PLANNED", "RUNNING"}
Final(job) == job.state \notin Open \cup {"NONE"}

(* items: position |-> its status, the object recorded as its parent and   *)
(* the bytes copied out, once they are hashed;                             *)
(* stack: the containers being visited, innermost last, each with its      *)
(* position, its content and the object it is recorded under; next: the    *)
(* visit to make; nested, bytes, warned: the counters and whether there is *)
(* a warning.                                                              *)
NoVisit == [at |-> <<>>, is |-> "none", parent |-> "none"]
NoRun == [id |-> NoPlan, plan |-> NoPlan, items |-> <<>>, stack |-> <<>>, next |-> NoVisit,
          nested |-> 0, bytes |-> 0, warned |-> FALSE]

Preserves(plan) == plan.policy \in {"preserve", "archival"}
Descends(plan)  == plan.recursive /\ plan.policy \in {"identify", "preserve", "archival"}
Set(f, key, value) == [x \in DOMAIN f \cup {key} |-> IF x = key THEN value ELSE f[x]]

(* The members that list_members returns for content c.                    *)
TooLarge(m) == world.size[m.is] > MaxSingle
ListMembers(w, c) ==
    IF w.kind[c] = "archive"
      THEN SelectSeq(w.members[c], LAMBDA m : m.form # "directory" /\ w.size[m.is] <= MaxSingle)
      ELSE w.members[c]
Listing(c) == ListMembers(world, c)

(* Of two members of one name ZIP and TAR extract the last, also when the  *)
(* listing leaves it out; the other analyzers go by the place of the bytes.*)
Extracted(w, c, i) ==
    LET listed == ListMembers(w, c)[i] IN
    IF w.kind[c] = "archive"
      THEN Last(SelectSeq(w.members[c], LAMBDA m : m.name = listed.name))
      ELSE listed

(* What an analyzer lists and extracts is of the contents of the world.    *)
ASSUME WorldsAssumption ==
    \A w \in Worlds :
        /\ w.root \in DOMAIN w.kind
        /\ \A c \in DOMAIN w.kind : LET l == ListMembers(w, c) IN
             /\ Len(l) \in Nat /\ DOMAIN l = 1..Len(l)
             /\ \A i \in DOMAIN l : {l[i].is, Extracted(w, c, i).is} \subseteq DOMAIN w.kind

(* ZIP and TAR warn of what they leave out; image analyzers always warn.   *)
Warns(c) ==
    \/ world.kind[c] = "recognised"
    \/ world.kind[c] = "archive" /\ Len(Listing(c)) < Len(world.members[c])

AnalysisInit ==
    /\ world \in Worlds
    /\ objects = {world.root}
    /\ relations = {}
    /\ jobs = [j \in JobIds |-> NoJob]
    /\ run = NoRun /\ stage = "idle"
    /\ kills = 0

-----------------------------------------------------------------------------
(* The job is written as PLANNED, then as RUNNING.  A job that exists is   *)
(* returned as it is, whatever its state, unless a retry forces a new one. *)
Create(id, plan) ==
    /\ stage = "idle" /\ Cardinality({j \in JobIds : jobs[j] # NoJob}) < MaxJobs
    /\ jobs' = [jobs EXCEPT ![id] = [plan |-> plan, state |-> "PLANNED", items |-> <<>>]]
    /\ run' = [NoRun EXCEPT !.id = id, !.plan = plan,
                            !.next = [at |-> <<>>, is |-> world.root, parent |-> world.root]]
    /\ stage' = "start"
    /\ UNCHANGED <<world, objects, relations, kills>>

Analyze(plan) == jobs[plan] = NoJob /\ Create(plan, plan)

\* A retry's id is new.
RetryId_Base(old, id) == id = old
RetryId(old, id) == id \in Retries /\ jobs[id] = NoJob
Retry(old, id) == jobs[old] # NoJob /\ RetryId(old, id) /\ Create(id, jobs[old].plan)

Start ==
    /\ stage = "start"
    /\ jobs' = [jobs EXCEPT ![run.id].state = "RUNNING"]
    /\ stage' = "visit"
    /\ UNCHANGED <<world, objects, relations, run, kills>>

(* The finally clause: the job is written with what was found so far.      *)
End(local, state) ==
    /\ jobs' = [jobs EXCEPT ![local.id] =
                  [plan |-> local.plan, state |-> state, items |-> local.items]]
    /\ run' = NoRun /\ stage' = "idle"
    /\ UNCHANGED <<objects, relations>>

-----------------------------------------------------------------------------
(* visit(): the nesting is counted, then the first analyzer that matches   *)
(* lists the members.                                                      *)
Visit ==
    LET at == run.next.at  c == run.next.is
        nested == run.nested + (IF at = <<>> THEN 0 ELSE 1)
        kind == world.kind[c]
        frame == [at |-> at, is |-> c, parent |-> run.next.parent, todo |-> 1]
        unknown == [status |-> "DISCOVERED", parent |-> run.next.parent, is |-> "none"]
    IN
    /\ stage = "visit"
    /\ \/ nested > MaxNested /\ End(run, "LIMIT_EXCEEDED")
       \/ /\ nested <= MaxNested
          /\ \/ kind = "data" /\ End([run EXCEPT !.items = Set(@, at, unknown)], "UNSUPPORTED")
             \/ kind = "tool" /\ End(run, "TOOL_MISSING")
             \/ kind = "broken" /\ End(run, "MALFORMED")
             \/ /\ kind \in {"archive", "volume", "recognised"}
                /\ run' = [run EXCEPT !.nested = nested, !.stack = Append(@, frame),
                                      !.warned = @ \/ Warns(c), !.next = NoVisit]
                /\ stage' = "member"
                /\ UNCHANGED <<objects, relations, jobs>>
    /\ UNCHANGED <<world, kills>>

Top    == Last(run.stack)
Here   == Top.is                               \* the container in hand
Member == Listing(Here)[Top.todo]              \* its member in hand ...
Yield  == Extracted(world, Here, Top.todo)     \* ... and what its copy is made of
Where  == Append(Top.at, Top.todo)
Status(s)   == Set(run.items, Where, [status |-> s, parent |-> Top.parent,
                       is |-> IF s = "DISCOVERED" THEN "none" ELSE Yield.is])
NextMember(stack) == Append(Front(stack), [Last(stack) EXCEPT !.todo = @ + 1])

(* After the last member visit() returns, and after the outermost visit    *)
(* the identities are rebuilt, which may fail with a warning.              *)
Return ==
    /\ stage = "member" /\ Top.todo \notin DOMAIN Listing(Here)
    /\ IF Len(run.stack) > 1
         THEN /\ run' = [run EXCEPT !.stack = Front(@)]
              /\ UNCHANGED <<objects, relations, jobs, stage>>
         ELSE \E rebuilt \in BOOLEAN :
                End(run, IF rebuilt /\ ~run.warned THEN "COMPLETE" ELSE "COMPLETE_WITH_WARNINGS")
    /\ UNCHANGED <<world, kills>>

(* One turn of the loop over the members, up to the extracted copy.  The   *)
(* size declared is checked first, then the copy is made and compared.     *)
OverLimit ==
    LET declared == world.size[Member.is]  size == world.size[Yield.is] IN
    \/ TooLarge(Member)
    \/ /\ Yield.form = "file"
       /\ \/ TooLarge(Yield)
          \/ size = declared /\
             (size > world.size[Here] * MaxRatio \/ run.bytes + size > MaxBytes)
Damaged    == Yield.form # "file" \/ world.size[Yield.is] # world.size[Member.is]
Structural == Member.form = "directory" \/ run.plan.policy = "metadata-only"

\* Whether the copy is opened in turn: some analyzer matches it.
Opens_Shallow ==
    /\ Descends(run.plan) /\ Len(Where) < MaxDepth /\ world.kind[Yield.is] # "data"
Opens == Descends(run.plan) /\ Len(Where) <= MaxDepth /\ world.kind[Yield.is] # "data"

\* The recursive call is given the child, which is None unless preserved.
ChildId == IF Preserves(run.plan) THEN Yield.is ELSE Top.parent
GoOn(items, bytes) ==
    /\ run' = [run EXCEPT !.items = items, !.bytes = bytes, !.stack = NextMember(@),
                  !.next = IF Opens THEN [at |-> Where, is |-> Yield.is, parent |-> ChildId] ELSE NoVisit]
    /\ stage' = IF Opens THEN "visit" ELSE "member"

TakeMember ==
    LET found == [run EXCEPT !.items = Status("DISCOVERED")] IN
    /\ stage = "member" /\ Top.todo \in DOMAIN Listing(Here)
    /\ IF Cardinality(DOMAIN run.items) >= MaxFiles THEN End(run, "LIMIT_EXCEEDED")
       ELSE \/ /\ Structural
               /\ run' = [found EXCEPT !.stack = NextMember(@)]
               /\ UNCHANGED <<objects, relations, jobs, stage>>
            \/ ~Structural /\ OverLimit /\ End(found, "LIMIT_EXCEEDED")
            \/ ~Structural /\ ~OverLimit /\ Damaged /\ End(found, "MALFORMED")
            \/ /\ ~Structural /\ ~OverLimit /\ ~Damaged
               /\ IF Preserves(run.plan)
                    THEN /\ run' = [run EXCEPT !.items = Status("MATERIALIZED"),
                                               !.bytes = @ + world.size[Yield.is]]
                         /\ stage' = "ingest"
                    ELSE GoOn(Status("MATERIALIZED"), run.bytes + world.size[Yield.is])
               /\ UNCHANGED <<objects, relations, jobs>>
    /\ UNCHANGED <<world, kills>>

Ingest ==
    /\ stage = "ingest"
    /\ objects' = objects \cup {Yield.is}
    /\ run' = [run EXCEPT !.items = Status("PRESERVED")]
    /\ stage' = "relate"
    /\ UNCHANGED <<world, relations, jobs, kills>>

(* add_relationship: the id comes from the ends and the evidence.  A       *)
(* sidecar that exists would have to be equal, which it is not: the moment *)
(* of recording, to the microsecond, is part of it.                        *)
Key == [parent |-> Top.parent, child |-> Yield.is, name |-> Member.name, depth |-> Len(Where)]
Refused == Key.parent = Key.child \/ Key \in relations
Relate ==
    /\ stage = "relate"
    /\ \/ Refused /\ End(run, "FAILED")
       \/ /\ ~Refused
          /\ relations' = relations \cup {Key}
          /\ GoOn(Status("RELATED"), run.bytes)
          /\ UNCHANGED <<objects, jobs>>
    /\ UNCHANGED <<world, kills>>

(* Time runs out at a visit or a member; any other step may raise.         *)
GiveUp ==
    /\ stage \in {"visit", "member", "ingest", "relate"}
    /\ \E state \in {"TIMEOUT", "FAILED"} :
         /\ state = "TIMEOUT" => stage \in {"visit", "member"}
         /\ End(run, state)
    /\ UNCHANGED <<world, kills>>

(* A kill leaves the job file as it was written last.                      *)
Kill ==
    /\ stage # "idle" /\ kills < MaxKills
    /\ kills' = kills + 1 /\ run' = NoRun /\ stage' = "idle"
    /\ UNCHANGED <<world, objects, relations, jobs>>

AnalysisNext ==
    \/ \E plan \in Plans : Analyze(plan)
    \/ \E old \in JobIds, id \in JobIds : Retry(old, id)
    \/ Start \/ Visit \/ Return \/ TakeMember \/ Ingest \/ Relate
    \/ GiveUp \/ Kill

AnalysisSpec == AnalysisInit /\ [][AnalysisNext]_analysisVars

-----------------------------------------------------------------------------
TypeOK ==
    /\ world \in Worlds
    /\ DOMAIN jobs = JobIds
    /\ stage \in {"idle", "start", "visit", "member", "ingest", "relate"}
    /\ kills \in 0..MaxKills

(* What a job has copied out, and the containers it had to open: the root  *)
(* and every copy that an analyzer opens, to the depth limit.              *)
Copied(items) == {at \in DOMAIN items : items[at].status # "DISCOVERED"}
Holds(w, items, at) == IF at = <<>> THEN w.root ELSE items[at].is
Containers(w, plan, items) ==
    {at \in {<<>>} \cup Copied(items) :
        \/ at = <<>>
        \/ Descends(plan) /\ Len(at) <= MaxDepth /\ w.kind[items[at].is] # "data"}
Files(w, c) == {i \in DOMAIN ListMembers(w, c) : ListMembers(w, c)[i].form # "directory"}

\* The bytes under the name of file i of the container at a position are copied out ...
CopiedOut(w, items, at, i) ==
    /\ Append(at, i) \in Copied(items)
    /\ items[Append(at, i)].is = Extracted(w, Holds(w, items, at), i).is
\* ... and are an object whose relationship leads to the container c.
Recorded(w, objs, keys, c, i) ==
    LET file == Extracted(w, c, i).is IN
    /\ file \in objs
    /\ \E key \in keys :
         key.parent = c /\ key.child = file /\ key.name = ListMembers(w, c)[i].name

(* A job that ends COMPLETE has copied out every file of the root and,     *)
(* unless it was told not to descend, of each container that is itself     *)
(* copied out, and nothing else: of each file the bytes the container has  *)
(* under its name.  When the policy preserves, each copy is an object      *)
(* whose relationship leads to the container it lay in, so that provenance *)
(* is a chain and not flattened (architecture.md:550).                     *)
Exhaustive(plan, items) ==
    LET opened == IF plan.policy = "metadata-only" THEN {} ELSE Containers(world, plan, items) IN
    /\ \A at \in Copied(items) :
         \E c \in opened : \E i \in Files(world, Holds(world, items, c)) : at = Append(c, i)
    /\ \A c \in opened : \A i \in Files(world, Holds(world, items, c)) :
         /\ CopiedOut(world, items, c, i)
         /\ Preserves(plan) => Recorded(world, objects, relations, Holds(world, items, c), i)
CompleteIsExhaustive ==
    \A j \in JobIds : jobs[j].state = "COMPLETE" => Exhaustive(jobs[j].plan, jobs[j].items)

(* A CONTAINS relationship is true of the bytes and joins archived         *)
(* objects, also those of analyses that were cut off or refused.           *)
RelationsAreTrue ==
    \A key \in relations :
        /\ {key.parent, key.child} \subseteq objects
        /\ \E i \in DOMAIN Listing(key.parent) :
             /\ Listing(key.parent)[i].name = key.name
             /\ Extracted(world, key.parent, i).is = key.child

(* The provenance of a container's files is complete and true.             *)
ProvenanceHolds == CompleteIsExhaustive /\ RelationsAreTrue

(* A job that has ended is evidence: later analyses and retries do not     *)
(* change it.                                                              *)
FinalJobsStand == [][\A j \in JobIds : Final(jobs[j]) => jobs'[j] = jobs[j]]_analysisVars
=============================================================================
