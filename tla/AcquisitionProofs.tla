-------------------------- MODULE AcquisitionProofs --------------------------
(***************************************************************************)
(* Proofs about what is acquired: BootstrapJob and the transfers of        *)
(* HttpTransfer, for any items, versions, retries and number of            *)
(* interrupts, kills and acquisitions by hand; and SourceIndex, for any    *)
(* source and number of changes, failures, kills and losses.               *)
(*                                                                         *)
(* The argument, for the transfers: while upstream still has its first     *)
(* version, the part of an item is a beginning of it, since a transfer     *)
(* goes on where the part ends and starts over only after emptying it; so  *)
(* is what is promoted.  For the job: whoever stops it, the job file       *)
(* accounts for every item handled in this run.                            *)
(*                                                                         *)
(* For the index of a source: a sync settles the rows and the package of   *)
(* each stem it has gone over, whatever was there before; and as long as   *)
(* no command was killed, the sidecars end with the generation of the      *)
(* package and the last event tells its presence, except for what the      *)
(* command in hand has yet to write.                                       *)
(***************************************************************************)
EXTENDS BootstrapJob, SourceIndex, WellFoundedInduction, TLAPS

Busy == Transfers \cup {"returned"}      \* an acquisition is in hand
Labels == Busy \cup {"idle", "run", "next", "report"}

-----------------------------------------------------------------------------
(* The transfers.  The inductive invariant, in named parts.                *)

Checked == {"none", "size", "sha256"}
Request == [item : Items \cup {0}, check : Checked, goal : Versions, attempt : Nat,
            outcome : {"none", "ok", "failed"}]
Acquired == [item : Items, blocks : Seq(Nat), check : Checked, upstream : Versions]

TransferTypes ==
    /\ transport \in {"http", "ftp"}
    /\ remote \in [Items -> Versions]
    /\ part \in [Items -> Seq(Nat)] /\ complete \in Seq(Nat)
    /\ archived \subseteq Acquired
    /\ pc \in Labels /\ req \in Request
    /\ pc \in Busy => req.item \in Items

(* A beginning of the first version.                                       *)
Beginning(blocks) == Len(blocks) <= Size[1] /\ \A k \in 1..Len(blocks) : blocks[k] = 1

PartsAreBeginnings == \A i \in Items : remote[i] = 1 => Beginning(part[i])

InHandIsExact ==
    /\ pc \in Transfers /\ remote[req.item] = 1 => req.goal = 1
    /\ pc = "restart" => part[req.item] = <<>>
    /\ pc = "ingest" => /\ remote[req.item] = 1 => Beginning(complete)
                        /\ req.check = "size" => Len(complete) = Size[req.goal]

TransferInv == TransferTypes /\ PartsAreBeginnings /\ InHandIsExact /\ TransferExact

-----------------------------------------------------------------------------
(* Upstream has a first version.                                           *)
LEMMA SizesAreKnown ==
    /\ 1 \in Versions /\ Versions \subseteq Nat \ {0}
    /\ \A v \in Versions : Size[v] \in Nat \ {0}
BY TransferAssumption DEF Versions

LEMMA EmptyIsABeginning == <<>> \in Seq(Nat) /\ Beginning(<<>>)
BY SizesAreKnown DEF Beginning

(* What is kept of a part is all of it or nothing.                         *)
LEMMA KeptIsABeginning ==
    ASSUME NEW blocks \in Seq(Nat)
    PROVE  Kept(blocks) \in Seq(Nat) /\ (Beginning(blocks) => Beginning(Kept(blocks)))
<1>1. CASE transport = "ftp"
  BY <1>1, EmptyIsABeginning DEF Kept
<1>2. CASE transport # "ftp"
  BY <1>2 DEF Kept
<1> QED BY <1>1, <1>2

(* Blocks received of the first version continue a beginning.              *)
LEMMA ReceivedIsABeginning ==
    ASSUME NEW had \in Seq(Nat), NEW v \in Versions, NEW n \in Nat
    PROVE  /\ Received(had, v, n) \in Seq(Nat)
           /\ v = 1 /\ Beginning(had) /\ Len(had) + n <= Size[1] => Beginning(Received(had, v, n))
<1>0. v \in Nat /\ Size[1] \in Nat
  BY SizesAreKnown
<1>1. [k \in 1..n |-> v] \in Seq(Nat) /\ Len([k \in 1..n |-> v]) = n
  BY <1>0
<1> DEFINE new == [k \in 1..n |-> v]
<1>2. \A k \in 1..n : new[k] = v
  OBVIOUS
<1> HIDE DEF new
<1>3. had \o new \in Seq(Nat) /\ Len(had \o new) = Len(had) + n
  BY <1>1 DEF new
<1>4. ASSUME v = 1, Beginning(had), NEW k \in 1..Len(had) + n
      PROVE  (had \o new)[k] = 1
  BY <1>1, <1>2, <1>4 DEF new, Beginning
<1>5. Received(had, v, n) = had \o new
  BY DEF Received, new
<1> QED BY <1>0, <1>3, <1>4, <1>5 DEF Beginning

(* What is archived while upstream has its first version is a beginning of *)
(* it as the property words it, and all of it if it is as long.            *)
LEMMA ABeginningIsAPrefix ==
    ASSUME NEW blocks \in Seq(Nat), Beginning(blocks)
    PROVE  /\ Len(blocks) <= Size[1] /\ blocks = SubSeq(Whole(1), 1, Len(blocks))
           /\ Len(blocks) = Size[1] => blocks = Whole(1)
<1>0. Size[1] \in Nat
  BY SizesAreKnown
<1>1. Whole(1) \in Seq(Nat) /\ Len(Whole(1)) = Size[1] /\ \A k \in 1..Size[1] : Whole(1)[k] = 1
  BY <1>0 DEF Whole
<1>2. SubSeq(Whole(1), 1, Len(blocks)) = [k \in 1..Len(blocks) |-> Whole(1)[k]]
  BY <1>0, <1>1 DEF Beginning
<1>3. blocks = [k \in 1..Len(blocks) |-> blocks[k]]
  OBVIOUS
<1>4. \A k \in 1..Len(blocks) : blocks[k] = Whole(1)[k]
  BY <1>0, <1>1 DEF Beginning
<1>5. blocks = [k \in 1..Len(blocks) |-> Whole(1)[k]]
  BY <1>3, <1>4
<1>6. Len(blocks) = Size[1] => blocks = Whole(1)
  BY <1>0, <1>3, <1>4 DEF Beginning, Whole
<1> QED BY <1>2, <1>5, <1>6 DEF Beginning

-----------------------------------------------------------------------------
(* The steps of a transfer.                                                *)

(* An attempt that fails is repeated or ends the acquisition.              *)
LEMMA AttemptEnds ==
    ASSUME TransferTypes, pc \in Transfers, AttemptFails \/ Return("failed") \/ Return("ok")
    PROVE  /\ pc' \in {"request", "returned"}
           /\ req' \in Request
           /\ req'.item = req.item /\ req'.goal = req.goal
<1> USE DEF TransferTypes, Request
<1>1. CASE Return("failed")
  BY <1>1 DEF Return
<1>2. CASE Return("ok")
  BY <1>2 DEF Return
<1>3. CASE pc' = "request" /\ req' = [req EXCEPT !.attempt = @ + 1]
  <2>1. PICK n \in Nat : n = req.attempt + 1
    OBVIOUS
  <2>2. req' = [req EXCEPT !.attempt = n]
    BY <1>3, <2>1
  <2> QED BY <1>3, <2>2
<1> QED BY <1>1, <1>2, <1>3 DEF AttemptFails

(* A step that changes at most the part of one item, for a beginning if it *)
(* was one, and archives nothing, keeps all but what is in hand.           *)
LEMMA PartsStand ==
    ASSUME TransferInv, UNCHANGED <<transport, remote, archived>>,
           NEW i \in Items, NEW blocks \in Seq(Nat), part' \in {part, [part EXCEPT ![i] = blocks]},
           remote[i] = 1 => Beginning(blocks)
    PROVE  /\ part' \in [Items -> Seq(Nat)]
           /\ PartsAreBeginnings' /\ TransferExact'
<1> USE DEF TransferInv
<1>1. part' \in [Items -> Seq(Nat)]
  BY DEF TransferTypes
<1>2. PartsAreBeginnings'
  BY DEF PartsAreBeginnings, TransferTypes, Beginning
<1>3. TransferExact'
  BY DEF TransferExact, Whole
<1> QED BY <1>1, <1>2, <1>3

(* A step that leaves the transfer, or ends it, keeps the invariant.       *)
LEMMA LeavingKeepsTransfers ==
    ASSUME TransferInv, UNCHANGED <<transport, remote, archived>>,
           part' = part \/ \E i \in Items : part' = [part EXCEPT ![i] = Kept(@)],
           complete' \in {complete, <<>>}, pc' \in Labels \ Transfers,
           req' \in Request, pc' = "returned" => req'.item \in Items
    PROVE  TransferInv'
<1> USE DEF TransferInv
<1>1. part' \in [Items -> Seq(Nat)] /\ PartsAreBeginnings' /\ TransferExact'
  <2>1. CASE part' = part
    BY <2>1 DEF TransferTypes, PartsAreBeginnings, Beginning, TransferExact, Whole
  <2>2. ASSUME NEW i \in Items, part' = [part EXCEPT ![i] = Kept(@)]
        PROVE  part' \in [Items -> Seq(Nat)] /\ PartsAreBeginnings' /\ TransferExact'
    <3>1. Kept(part[i]) \in Seq(Nat) /\ (remote[i] = 1 => Beginning(Kept(part[i])))
      BY KeptIsABeginning DEF PartsAreBeginnings, TransferTypes
    <3>2. part' = [part EXCEPT ![i] = Kept(part[i])]
      BY <2>2
    <3> QED BY <3>1, <3>2, PartsStand
  <2> QED BY <2>1, <2>2
<1>2. TransferTypes'
  BY <1>1, EmptyIsABeginning DEF TransferTypes, Busy
<1>3. InHandIsExact'
  BY DEF InHandIsExact, Transfers
<1> QED BY <1>1, <1>2, <1>3

LEMMA AcquireKeepsTransfers ==
    ASSUME TransferInv, NEW i \in Items, NEW c \in Checked, Acquire(i, c)
    PROVE  TransferInv'
<1> USE DEF TransferInv, Acquire, TransferTypes
<1>1. req' \in Request /\ req'.item = i /\ req'.goal = remote[i]
  BY SizesAreKnown DEF NoRequest, Request
<1>2. TransferTypes'
  BY <1>1 DEF Labels, Busy, Transfers
<1>3. InHandIsExact'
  BY <1>1 DEF InHandIsExact
<1>4. PartsAreBeginnings' /\ TransferExact'
  BY DEF PartsAreBeginnings, Beginning, TransferExact, Whole
<1> QED BY <1>2, <1>3, <1>4

LEMMA ChangeKeepsTransfers ==
    ASSUME TransferInv, NEW i \in Items, ChangeRemote(i)
    PROVE  TransferInv'
<1> USE DEF TransferInv, ChangeRemote, TransferTypes
<1>1. /\ remote' \in [Items -> Versions]
      /\ \A k \in Items : remote'[k] = 1 => remote[k] = 1
  <2>1. remote[i] \in Nat \ {0}
    BY SizesAreKnown
  <2> QED BY <2>1
<1>2. TransferTypes'
  BY <1>1
<1>3. PartsAreBeginnings' /\ TransferExact'
  BY <1>1 DEF PartsAreBeginnings, Beginning, TransferExact, Whole
<1>4. InHandIsExact'
  BY <1>1 DEF InHandIsExact, Beginning, Busy
<1> QED BY <1>2, <1>3, <1>4

(* A step that goes on with the acquisition at its request keeps the       *)
(* invariant if it does so with a beginning.                               *)
LEMMA AttemptKeepsTransfers ==
    ASSUME TransferInv, pc \in Transfers, UNCHANGED <<transport, remote, archived>>,
           NEW blocks \in Seq(Nat), remote[req.item] = 1 => Beginning(blocks),
           part' \in {part, [part EXCEPT ![req.item] = blocks]},
           complete' \in {complete, <<>>}, AttemptFails \/ Return("failed")
    PROVE  TransferInv'
<1> USE DEF TransferInv
<1>0. TransferTypes /\ req.item \in Items
  BY DEF TransferTypes, Busy
<1>1. part' \in [Items -> Seq(Nat)] /\ PartsAreBeginnings' /\ TransferExact'
  BY <1>0, PartsStand
<1>2. pc' \in {"request", "returned"} /\ req' \in Request /\ req'.item = req.item /\ req'.goal = req.goal
  BY <1>0, AttemptEnds
<1>3. TransferTypes'
  BY <1>0, <1>1, <1>2, EmptyIsABeginning DEF TransferTypes, Labels, Busy, Transfers
<1>4. InHandIsExact'
  BY <1>0, <1>2 DEF InHandIsExact, Transfers
<1> QED BY <1>1, <1>3, <1>4

LEMMA TransferStepKeepsTransfers ==
    ASSUME TransferInv, TransferStep
    PROVE  TransferInv'
<1> USE DEF TransferInv
<1>0. /\ TransferTypes /\ PartsAreBeginnings /\ InHandIsExact /\ TransferExact
      /\ remote[req.item] = 1 /\ req.item \in Items => Beginning(part[req.item])
  BY DEF PartsAreBeginnings
<1>1. CASE RequestFails \/ NoSpace
  <2> USE <1>1 DEF RequestFails, NoSpace
  <2>1. pc \in Transfers /\ req.item \in Items
    BY <1>0 DEF TransferTypes, Busy, Transfers
  <2>2. Kept(part[req.item]) \in Seq(Nat) /\ (remote[req.item] = 1 => Beginning(Kept(part[req.item])))
    BY <1>0, <2>1, KeptIsABeginning DEF TransferTypes
  <2> QED BY <2>1, <2>2, AttemptKeepsTransfers
<1>2. CASE RangeIgnored
  <2> USE <1>2 DEF RangeIgnored, Restarted
  <2>1. req.item \in Items /\ pc \in Transfers
    BY <1>0 DEF TransferTypes, Busy, Transfers
  <2>2. part' = [part EXCEPT ![req.item] = <<>>]
    OBVIOUS
  <2>3. part' \in [Items -> Seq(Nat)] /\ PartsAreBeginnings' /\ TransferExact'
    BY <2>1, <2>2, EmptyIsABeginning, PartsStand
  <2>4. TransferTypes' /\ InHandIsExact'
    BY <1>0, <2>1, <2>2, <2>3 DEF TransferTypes, InHandIsExact, Labels, Busy, Transfers
  <2> QED BY <2>3, <2>4
<1>3. CASE Stream
  <2> DEFINE had == IF transport = "ftp" THEN <<>> ELSE part[req.item]
             v == remote[req.item]
             rest == IF pc = "restart" THEN Size[v] ELSE Size[v] - Len(had)
  <2>1. /\ pc \in {"request", "restart"} /\ pc \in Transfers /\ req.item \in Items
        /\ v \in Versions /\ v \in Nat /\ Size[v] \in Nat
    BY <1>0, <1>3, SizesAreKnown DEF Stream, TransferTypes, Busy, Transfers
  <2>2. had \in Seq(Nat) /\ (v = 1 => Beginning(had)) /\ (pc = "restart" => had = <<>>)
    BY <1>0, <2>1, EmptyIsABeginning DEF TransferTypes, InHandIsExact
  <2>3. \A n \in 0..rest : n \in Nat /\ Len(had) + n <= Size[v]
    BY <1>3, <2>1, <2>2 DEF Stream
  <2>4. PICK n \in 0..rest :
              \/ /\ part' = [part EXCEPT ![req.item] = Received(had, v, n)]
                 /\ pc' = "check"
                 /\ UNCHANGED req
              \/ /\ part' = [part EXCEPT ![req.item] = Kept(Received(had, v, n))]
                 /\ AttemptFails
    BY <1>3 DEF Stream
  <2>5. UNCHANGED <<transport, remote, complete, archived>>
    BY <1>3 DEF Stream
  <2> HIDE DEF had, rest
  <2>6. Received(had, v, n) \in Seq(Nat) /\ (remote[req.item] = 1 => Beginning(Received(had, v, n)))
    BY <2>1, <2>2, <2>3, ReceivedIsABeginning
  <2>7. CASE part' = [part EXCEPT ![req.item] = Kept(Received(had, v, n))] /\ AttemptFails
    <3>1. /\ Kept(Received(had, v, n)) \in Seq(Nat)
          /\ remote[req.item] = 1 => Beginning(Kept(Received(had, v, n)))
      BY <2>6, KeptIsABeginning
    <3> QED BY <2>1, <2>5, <2>7, <3>1, AttemptKeepsTransfers
  <2>8. CASE part' = [part EXCEPT ![req.item] = Received(had, v, n)] /\ pc' = "check" /\ UNCHANGED req
    <3>1. part' \in [Items -> Seq(Nat)] /\ PartsAreBeginnings' /\ TransferExact'
      BY <2>1, <2>5, <2>6, <2>8, PartsStand
    <3>2. TransferTypes' /\ InHandIsExact'
      BY <1>0, <2>1, <2>5, <2>8, <3>1 DEF TransferTypes, InHandIsExact, Labels, Busy, Transfers
    <3> QED BY <3>1, <3>2
  <2> QED BY <2>4, <2>7, <2>8
<1>4. CASE SizeMismatch
  <2> USE <1>4 DEF SizeMismatch
  <2>1. pc \in Transfers /\ req.item \in Items
    BY <1>0 DEF TransferTypes, Busy, Transfers
  <2>2. Kept(part[req.item]) \in Seq(Nat) /\ (remote[req.item] = 1 => Beginning(Kept(part[req.item])))
    BY <1>0, <2>1, KeptIsABeginning DEF TransferTypes
  <2> QED BY <2>1, <2>2, AttemptKeepsTransfers
<1>5. CASE Promote
  <2> USE <1>5 DEF Promote
  <2>1. pc \in Transfers /\ req.item \in Items
    BY <1>0 DEF TransferTypes, Busy, Transfers
  <2>2. part' \in [Items -> Seq(Nat)] /\ PartsAreBeginnings' /\ TransferExact'
    BY <2>1, EmptyIsABeginning, PartsStand
  <2>3. complete' \in Seq(Nat) /\ TransferTypes'
    BY <1>0, <2>1, <2>2 DEF TransferTypes, Labels, Busy, Transfers
  <2>4. InHandIsExact'
    BY <1>0, <2>1 DEF InHandIsExact, Beginning
  <2> QED BY <2>2, <2>3, <2>4
<1>6. CASE ChecksumMismatch
  <2> USE <1>6 DEF ChecksumMismatch
  <2>1. pc \in Transfers /\ req.item \in Items
    BY <1>0 DEF TransferTypes, Busy, Transfers
  <2> QED BY <1>0, <2>1, EmptyIsABeginning, AttemptKeepsTransfers
<1>7. CASE IngestCompleted
  <2> USE <1>7 DEF IngestCompleted
  <2>1. pc \in Transfers /\ req.item \in Items /\ pc' = "returned"
    BY <1>0 DEF TransferTypes, Busy, Transfers, Return
  <2>2. req' \in Request /\ req'.item = req.item
    BY <1>0, <2>1, AttemptEnds
  <2> DEFINE a == [item |-> req.item, blocks |-> complete, check |-> req.check, upstream |-> remote[req.item]]
  <2>3. a \in Acquired /\ archived' = archived \cup {a}
    BY <1>0, <2>1 DEF TransferTypes, Acquired, Request
  <2>4. TransferTypes'
    BY <1>0, <2>1, <2>2, <2>3 DEF TransferTypes, Labels, Busy
  <2>5. InHandIsExact' /\ PartsAreBeginnings'
    BY <1>0, <2>1 DEF InHandIsExact, PartsAreBeginnings, Beginning, Transfers
  <2>6. a.check = "sha256" => \E v \in Versions : a.blocks = Whole(v)
    BY <1>0 DEF TransferTypes, Request
  <2>7. a.upstream = 1 => /\ Len(a.blocks) <= Size[1] /\ a.blocks = SubSeq(Whole(1), 1, Len(a.blocks))
                          /\ a.check = "size" => a.blocks = Whole(1)
    <3> SUFFICES ASSUME remote[req.item] = 1
                 PROVE  /\ Len(complete) <= Size[1] /\ complete = SubSeq(Whole(1), 1, Len(complete))
                        /\ req.check = "size" => complete = Whole(1)
      OBVIOUS
    <3>1. Beginning(complete) /\ (req.check = "size" => Len(complete) = Size[1])
      BY <1>0, <2>1 DEF InHandIsExact
    <3> QED BY <1>0, <3>1, ABeginningIsAPrefix DEF TransferTypes
  <2>8. TransferExact'
    BY <1>0, <2>3, <2>6, <2>7 DEF TransferExact, Whole
  <2> QED BY <2>4, <2>5, <2>8
<1> QED BY <1>1, <1>2, <1>3, <1>4, <1>5, <1>6, <1>7 DEF TransferStep

-----------------------------------------------------------------------------
(* The job.  The inductive invariant, in named parts.                      *)

JobRecord == [state : States, completed : SUBSET Items, skipped : SUBSET Items,
              failed : [Items \cup {NoPlan} -> Nat]]
Refused == [NoJob.failed EXCEPT ![NoPlan] = 1]   \* what a job without a plan records
SameButState(j, k) == j.completed = k.completed /\ j.skipped = k.skipped /\ j.failed = k.failed
InRun == {"next", "returned"} \cup Transfers     \* of a job, between Run and Finish

JobTypes ==
    /\ job \in JobRecord /\ mem \in JobRecord /\ report \in JobRecord
    /\ handled \subseteq Items
    /\ available \in BOOLEAN /\ running \in BOOLEAN
    /\ pc = "idle" => ~running
    /\ pc \in {"run", "next", "report"} => running

(* The job in memory is the one in the file, but for the state that resume *)
(* gives it.                                                               *)
MemIsFile == running =>
    /\ SameButState(mem, job) /\ job.state # "NONE"
    /\ pc # "run" => mem = job

(* Within a run every item handled is accounted for, and none is in hand.  *)
RunAccounts == running /\ pc \in InRun =>
    /\ available /\ job.state = "RUNNING"
    /\ job.completed \cup job.skipped \subseteq handled
    /\ \A i \in handled : i \in job.completed \cup job.skipped \/ job.failed[i] > 0
    /\ pc # "next" => req.item \notin handled

OkIsArchived == pc = "returned" /\ req.outcome = "ok" => Has(req.item)

ItemsAreArchived ==
    /\ job.completed \cap job.skipped = {}
    /\ \A i \in job.completed \cup job.skipped : Has(i)
    /\ OkIsArchived

(* Only a job without a plan fails as a whole, and then it has no items.   *)
PlanAccounts ==
    /\ available => job.failed[NoPlan] = 0
    /\ ~available => job.state \notin Ended /\ job.completed = {} /\ job.skipped = {}
    /\ ~available => job.failed \in {NoJob.failed, Refused}
    /\ pc = "report" => IF available THEN job.state \in Ended ELSE job.failed = Refused

EndedAccounts == job.state \in Ended =>
    /\ Items = job.completed \cup job.skipped \cup Failures(job)
    /\ job.state = "COMPLETED" => Items = job.completed \cup job.skipped

(* The report was written when the job ended, or refuses it as the job     *)
(* still does.                                                             *)
ReportAgrees == report # NoJob =>
    /\ SameButState(report, job) /\ job.state # "NONE"
    /\ IF available THEN ~running /\ job = report /\ job.state \in Ended
                    ELSE report.failed = Refused

JobInv ==
    /\ JobTypes /\ MemIsFile /\ RunAccounts /\ ItemsAreArchived
    /\ PlanAccounts /\ EndedAccounts /\ ReportAgrees

-----------------------------------------------------------------------------
(* Records of jobs.                                                        *)
LEMMA NoJobIsAJob ==
    /\ NoJob \in JobRecord /\ NoJob.state = "NONE" /\ NoJob.completed = {} /\ NoJob.skipped = {}
    /\ \A i \in Items \cup {NoPlan} : NoJob.failed[i] = 0
    /\ Refused \in [Items \cup {NoPlan} -> Nat] /\ Refused[NoPlan] = 1
    /\ NoPlan \notin Items
BY TransferAssumption DEF NoJob, JobRecord, States, Refused, NoPlan

LEMMA StateOfAJob ==
    ASSUME NEW j \in JobRecord, NEW s \in States
    PROVE  /\ [j EXCEPT !.state = s] \in JobRecord
           /\ [j EXCEPT !.state = s].state = s
           /\ SameButState([j EXCEPT !.state = s], j)
BY DEF JobRecord, SameButState

LEMMA JobsAreTheirFields ==
    ASSUME NEW j \in JobRecord, NEW k \in JobRecord, SameButState(j, k)
    PROVE  /\ j = [k EXCEPT !.state = j.state]
           /\ j.state = k.state => j = k
BY DEF JobRecord, SameButState

(* The least item is an item.                                              *)
LEMMA LeastIsThere ==
    ASSUME NEW S \in SUBSET Nat, S # {}
    PROVE  Min(S) \in S
<1> DEFINE R == OpToRel(<, Nat)
<1>1. \A y, x \in Nat : <<y, x>> \in R <=> y < x
  BY DEF OpToRel
<1>2. IsWellFoundedOn(R, Nat)
  BY NatLessThanWellFounded
<1> HIDE DEF R
<1>3. PICK x \in S : \A y \in S : <<y, x>> \notin R
  BY <1>2, WFMin
<1>4. \A y \in S : ~(y < x)
  BY <1>1, <1>3, Zenon
<1>5. \A y \in S : x <= y
  BY <1>4, SMT
<1> QED BY <1>5 DEF Min

(* The item taken is one that was not handled.                             *)
LEMMA NextIsNew ==
    ASSUME handled \subseteq Items, NEW i \in Items, IsNext(i)
    PROVE  i \notin handled
<1>1. Items \ handled \in SUBSET Nat /\ Items \ handled # {}
  BY TransferAssumption DEF IsNext
<1> QED BY <1>1, LeastIsThere DEF IsNext

-----------------------------------------------------------------------------
(* Steps that leave the job alone.                                         *)

(* A transfer, an acquisition by hand or a change upstream.                *)
LEMMA AsideKeepsJob ==
    ASSUME TransferTypes, JobInv, UNCHANGED jobVars, archived \subseteq archived',
           pc' \in Busy, running => pc \in InRun,
           running /\ pc' # "next" => req'.item \notin handled,
           OkIsArchived'
    PROVE  JobInv'
<1> USE DEF JobInv, jobVars
<1>0. \A i : Has(i) => Has(i)'
  BY DEF Has
<1>b. pc' \notin {"idle", "run", "next", "report"} /\ (running => pc' \in InRun)
  BY DEF Busy, Transfers, InRun
<1>1. JobTypes' /\ MemIsFile'
  BY <1>b DEF JobTypes, MemIsFile, SameButState, InRun, Transfers
<1>2. RunAccounts'
  BY <1>b DEF RunAccounts
<1>3. ItemsAreArchived'
  BY <1>0 DEF ItemsAreArchived
<1>4. PlanAccounts' /\ EndedAccounts' /\ ReportAgrees'
  BY <1>b DEF PlanAccounts, EndedAccounts, ReportAgrees, Failures, SameButState
<1> QED BY <1>1, <1>2, <1>3, <1>4

(* What a transfer does to the acquisition in hand.                        *)
LEMMA TransferGoesOn ==
    ASSUME TransferTypes, TransferStep
    PROVE  /\ pc \in Transfers /\ pc' \in Busy
           /\ archived \subseteq archived'
           /\ req'.item = req.item
           /\ OkIsArchived'
<1> USE DEF TransferTypes
<1>0. \A x \in Request : x.item \in Items \cup {0} /\ DOMAIN x = {"item", "check", "goal", "attempt", "outcome"}
  BY DEF Request
<1>1. pc \in Transfers
  BY DEF TransferStep, RequestFails, NoSpace, RangeIgnored, Stream, SizeMismatch, Promote,
         ChecksumMismatch, IngestCompleted, Transfers
<1>2. CASE IngestCompleted
  <2>1. pc' = "returned" /\ req'.item = req.item
    BY <1>0, <1>2 DEF IngestCompleted, Return
  <2>2. OkIsArchived'
    <3>1. PICK a \in archived' : a = [item |-> req.item, blocks |-> complete, check |-> req.check,
                                      upstream |-> remote[req.item]]
      BY <1>2 DEF IngestCompleted
    <3> QED BY <2>1, <3>1 DEF OkIsArchived, Has
  <2> QED BY <1>1, <1>2, <2>1, <2>2 DEF IngestCompleted, Busy
<1>3. CASE ~IngestCompleted
  <2>1. UNCHANGED archived
    BY <1>3 DEF TransferStep, RequestFails, NoSpace, RangeIgnored, Stream, SizeMismatch, Promote,
                ChecksumMismatch
  <2>2. \/ AttemptFails \/ Return("failed")
        \/ pc' \in Transfers /\ UNCHANGED req
    BY <1>3 DEF TransferStep, RequestFails, NoSpace, RangeIgnored, Stream, SizeMismatch, Promote,
                ChecksumMismatch, Transfers
  <2>3. CASE pc' \in Transfers /\ UNCHANGED req
    BY <1>1, <2>1, <2>3 DEF Busy, Transfers, OkIsArchived
  <2>4. CASE AttemptFails \/ Return("failed")
    <3>1. pc' \in {"request", "returned"} /\ req'.item = req.item
      BY <1>1, <2>4, AttemptEnds
    <3>2. pc' = "returned" => req'.outcome = "failed"
      BY <1>0, <2>4 DEF AttemptFails, Return
    <3> QED BY <1>1, <2>1, <3>1, <3>2 DEF Busy, Transfers, OkIsArchived
  <2> QED BY <2>2, <2>3, <2>4
<1> QED BY <1>2, <1>3

LEMMA TransferKeepsJob ==
    ASSUME TransferTypes, JobInv, Transfer
    PROVE  JobInv'
<1>1. TransferStep /\ UNCHANGED jobVars
  BY DEF Transfer
<1>2. /\ pc \in Transfers /\ pc' \in Busy
      /\ archived \subseteq archived' /\ req'.item = req.item
      /\ OkIsArchived'
  BY <1>1, TransferGoesOn
<1>3. pc \in InRun /\ pc # "next"
  BY <1>2 DEF InRun, Transfers
<1>4. running => req.item \notin handled
  BY <1>3 DEF JobInv, RunAccounts
<1> QED BY <1>1, <1>2, <1>3, <1>4, AsideKeepsJob

(* Leaving the job, as it is or as interrupted.                            *)
LEMMA LeavingKeepsJob ==
    ASSUME JobInv, Leave, UNCHANGED <<archived, available>>,
           \/ UNCHANGED <<job, report>>
           \/ running /\ job' = [mem EXCEPT !.state = "INTERRUPTED"] /\ UNCHANGED report
           \/ pc = "report" /\ UNCHANGED job /\ report' = IF report = NoJob THEN mem ELSE report
    PROVE  JobInv'
<1> USE DEF JobInv
<1>0. pc' = "idle" /\ running' = FALSE /\ handled' = {} /\ mem' = NoJob /\ req' = NoRequest
  BY DEF Leave
<1>j. JobTypes /\ "INTERRUPTED" \in States /\ "INTERRUPTED" \notin Ended
  BY DEF States, Ended
<1>1. MemIsFile' /\ RunAccounts'
  BY <1>0 DEF MemIsFile, RunAccounts
<1>2. CASE UNCHANGED <<job, report>>
  <2>1. JobTypes'
    BY <1>0, <1>2, NoJobIsAJob DEF JobTypes
  <2>2. ItemsAreArchived' /\ PlanAccounts' /\ EndedAccounts' /\ ReportAgrees'
    BY <1>0, <1>2 DEF ItemsAreArchived, OkIsArchived, PlanAccounts, EndedAccounts, ReportAgrees, Failures, SameButState, Has
  <2> QED BY <1>1, <2>1, <2>2
<1>3. CASE running /\ job' = [mem EXCEPT !.state = "INTERRUPTED"] /\ UNCHANGED report
  <2>1. job' \in JobRecord /\ job'.state = "INTERRUPTED" /\ SameButState(job', mem) /\ SameButState(mem, job)
    BY <1>j, <1>3, StateOfAJob DEF JobTypes, MemIsFile
  <2>2. JobTypes'
    BY <1>0, <1>3, <2>1, NoJobIsAJob DEF JobTypes
  <2>3. ItemsAreArchived' /\ PlanAccounts' /\ EndedAccounts' /\ ReportAgrees'
    BY <1>0, <1>j, <1>3, <2>1 DEF ItemsAreArchived, OkIsArchived, PlanAccounts, EndedAccounts, ReportAgrees, SameButState, Has
  <2> QED BY <1>1, <2>2, <2>3
<1>4. CASE pc = "report" /\ UNCHANGED job /\ report' = IF report = NoJob THEN mem ELSE report
  <2>1. running /\ mem = job
    BY <1>4 DEF JobTypes, MemIsFile
  <2>2. JobTypes'
    BY <1>0, <1>4, <2>1, NoJobIsAJob DEF JobTypes
  <2>3. ItemsAreArchived' /\ PlanAccounts' /\ EndedAccounts'
    BY <1>0, <1>4 DEF ItemsAreArchived, OkIsArchived, PlanAccounts, EndedAccounts, Failures, Has
  <2>4. ReportAgrees'
    BY <1>0, <1>4, <2>1 DEF ReportAgrees, SameButState, PlanAccounts, MemIsFile
  <2> QED BY <1>1, <2>2, <2>3, <2>4
<1> QED BY <1>2, <1>3, <1>4

-----------------------------------------------------------------------------
(* The inductive invariant holds.                                          *)
BootInv == TransferInv /\ JobInv

LEMMA InitBootInv == Init => BootInv
<1> SUFFICES ASSUME Init PROVE BootInv
  OBVIOUS
<1> USE DEF Init, TransferInit
<1>1. TransferTypes
  BY SizesAreKnown DEF TransferTypes, Labels, Busy, Transfers, NoRequest, Request, Checked
<1>2. PartsAreBeginnings /\ InHandIsExact /\ TransferExact
  BY EmptyIsABeginning DEF PartsAreBeginnings, InHandIsExact, TransferExact, Transfers
<1>3. job = NoJob /\ mem = NoJob /\ report = NoJob /\ available \in BOOLEAN
  OBVIOUS
<1>4. JobTypes
  BY <1>3, NoJobIsAJob DEF JobTypes
<1>5. MemIsFile /\ RunAccounts /\ ReportAgrees
  BY <1>3 DEF MemIsFile, RunAccounts, ReportAgrees
<1>6. ItemsAreArchived /\ PlanAccounts /\ EndedAccounts
  BY <1>3, NoJobIsAJob DEF ItemsAreArchived, OkIsArchived, PlanAccounts, EndedAccounts, Ended
<1> QED BY <1>1, <1>2, <1>4, <1>5, <1>6 DEF BootInv, TransferInv, JobInv

LEMMA NextBootInv == BootInv /\ [Next]_vars => BootInv'
<1> SUFFICES ASSUME BootInv, [Next]_vars
             PROVE  BootInv'
  OBVIOUS
<1> USE DEF BootInv
<1>0. TransferTypes /\ JobTypes /\ MemIsFile /\ RunAccounts /\ ItemsAreArchived
      /\ PlanAccounts /\ EndedAccounts /\ ReportAgrees
  BY DEF TransferInv, JobInv
<1>e. Ended \subseteq States /\ Ended = {"COMPLETED", "COMPLETED_WITH_ERRORS"}
  BY DEF Ended, States
<1>r. NoRequest \in Request
  BY SizesAreKnown DEF NoRequest, Request, Checked
<1> USE DEF unusedVars, jobVars, transferVars
<1>1. CASE Start
  <2> USE <1>1 DEF Start
  <2>1. TransferInv'
    BY <1>0, LeavingKeepsTransfers DEF TransferTypes, Labels, Transfers
  <2>2. /\ job' \in JobRecord /\ mem' = job' /\ job'.state = "PLANNED"
        /\ SameButState(job', NoJob)
    BY NoJobIsAJob, StateOfAJob DEF Save, States
  <2>3. report = NoJob
    BY <1>0 DEF ReportAgrees
  <2>4. JobTypes' /\ MemIsFile'
    BY <1>0, <2>2 DEF JobTypes, MemIsFile, SameButState
  <2>5. RunAccounts' /\ ItemsAreArchived' /\ PlanAccounts' /\ EndedAccounts' /\ ReportAgrees'
    BY <1>0, <1>e, <2>2, <2>3, NoJobIsAJob
    DEF RunAccounts, InRun, Transfers, ItemsAreArchived, OkIsArchived, PlanAccounts, EndedAccounts,
        ReportAgrees, SameButState
  <2> QED BY <2>1, <2>4, <2>5 DEF JobInv
<1>2. CASE Resume
  <2> USE <1>2 DEF Resume, Resumable
  <2>1. TransferInv'
    BY <1>0, LeavingKeepsTransfers DEF TransferTypes, Labels, Transfers
  <2>2. /\ mem' \in JobRecord /\ SameButState(mem', job) /\ job.state # "NONE"
        /\ job.state \notin Ended
    <3>1. PICK s \in States : mem' = [job EXCEPT !.state = s]
      BY <1>0 DEF JobTypes, JobRecord, States
    <3> QED BY <1>0, <1>e, <3>1, StateOfAJob DEF JobTypes
  <2>3. JobTypes' /\ MemIsFile'
    BY <1>0, <2>2 DEF JobTypes, MemIsFile, SameButState
  <2>4. RunAccounts' /\ ItemsAreArchived' /\ PlanAccounts' /\ EndedAccounts' /\ ReportAgrees'
    BY <1>0, <2>2
    DEF RunAccounts, InRun, Transfers, ItemsAreArchived, OkIsArchived, Has, PlanAccounts, EndedAccounts,
        ReportAgrees, SameButState
  <2> QED BY <2>1, <2>3, <2>4 DEF JobInv
<1>3. CASE Refuse
  <2> USE <1>3 DEF Refuse
  <2>1. TransferInv'
    BY <1>0, LeavingKeepsTransfers DEF TransferTypes, Labels, Transfers
  <2>2. running /\ SameButState(mem, job) /\ mem \in JobRecord
    BY <1>0 DEF JobTypes, MemIsFile
  <2>3. /\ job' \in JobRecord /\ mem' = job' /\ job'.state = "FAILED"
        /\ job'.completed = job.completed /\ job'.skipped = job.skipped /\ job'.failed = Refused
    <3>1. mem' = [mem EXCEPT !.state = "FAILED", !.failed = Refused] /\ job' = mem'
      BY DEF Save, Refused
    <3> QED BY <2>2, <3>1, NoJobIsAJob DEF JobRecord, States, SameButState
  <2>4. JobTypes' /\ MemIsFile'
    BY <1>0, <2>2, <2>3 DEF JobTypes, MemIsFile, SameButState
  <2>5. RunAccounts' /\ ItemsAreArchived' /\ PlanAccounts' /\ EndedAccounts' /\ ReportAgrees'
    BY <1>0, <1>e, <2>3
    DEF RunAccounts, InRun, Transfers, ItemsAreArchived, OkIsArchived, Has, PlanAccounts, EndedAccounts,
        ReportAgrees, SameButState
  <2> QED BY <2>1, <2>4, <2>5 DEF JobInv
<1>4. CASE Run
  <2> USE <1>4 DEF Run
  <2>1. TransferInv'
    BY <1>0, LeavingKeepsTransfers DEF TransferTypes, Labels, Transfers
  <2>2. running /\ SameButState(mem, job) /\ mem \in JobRecord /\ job \in JobRecord
    BY <1>0 DEF JobTypes, MemIsFile
  <2>3. /\ job' \in JobRecord /\ mem' = job' /\ job'.state = "RUNNING" /\ SameButState(job', job)
    BY <2>2, StateOfAJob DEF Save, States, SameButState
  <2>4. handled' = job.completed \cup job.skipped /\ handled' \subseteq Items
    BY <2>2 DEF Done, SameButState, JobRecord
  <2>5. JobTypes' /\ MemIsFile'
    BY <1>0, <2>3, <2>4 DEF JobTypes, MemIsFile, SameButState
  <2>6. RunAccounts' /\ ItemsAreArchived' /\ PlanAccounts' /\ EndedAccounts' /\ ReportAgrees'
    BY <1>0, <1>e, <2>2, <2>3, <2>4
    DEF RunAccounts, InRun, Transfers, ItemsAreArchived, OkIsArchived, Has, PlanAccounts, EndedAccounts,
        ReportAgrees, SameButState
  <2> QED BY <2>1, <2>5, <2>6 DEF JobInv
<1>5. ASSUME NEW i \in Items, Deduplicate(i)
      PROVE  BootInv'
  <2> USE <1>5 DEF Deduplicate
  <2>1. TransferInv'
    BY <1>0, LeavingKeepsTransfers DEF TransferTypes, Labels, Busy, Transfers, IsNext
  <2>2. pc = "next" /\ running /\ mem = job /\ job \in JobRecord /\ i \notin handled /\ Has(i)
    BY <1>0, NextIsNew DEF JobTypes, MemIsFile, IsNext
  <2>3. /\ job' \in JobRecord /\ mem' = job' /\ job'.state = job.state /\ job'.completed = job.completed
        /\ job'.failed = job.failed /\ job'.skipped = job.skipped \cup {i}
    BY <2>2 DEF JobRecord, Save
  <2>4. JobTypes' /\ MemIsFile'
    BY <1>0, <2>2, <2>3 DEF JobTypes, MemIsFile, SameButState
  <2>5. available /\ job.state = "RUNNING" /\ job.completed \cup job.skipped \subseteq handled
    BY <1>0, <2>2 DEF RunAccounts, InRun
  <2>6. RunAccounts' /\ ItemsAreArchived' /\ PlanAccounts' /\ EndedAccounts' /\ ReportAgrees'
    BY <1>0, <1>e, <2>2, <2>3, <2>5
    DEF RunAccounts, InRun, Transfers, ItemsAreArchived, OkIsArchived, Has, PlanAccounts, EndedAccounts,
        ReportAgrees, SameButState
  <2> QED BY <2>1, <2>4, <2>6 DEF JobInv
<1>6. ASSUME NEW i \in Items, Fetch(i)
      PROVE  BootInv'
  <2> USE <1>6 DEF Fetch
  <2>1. TransferInv'
    BY AcquireKeepsTransfers DEF Checked
  <2>2. pc = "next" /\ pc' = "request" /\ req'.item = i /\ i \notin handled /\ UNCHANGED archived
    BY <1>0, NextIsNew DEF JobTypes, IsNext, Acquire, NoRequest
  <2> QED BY <1>0, <2>1, <2>2, AsideKeepsJob DEF Busy, Transfers, InRun, OkIsArchived
<1>7. CASE RecordItem
  <2> USE <1>7 DEF RecordItem
  <2>0. req \in Request /\ req.item \in Items
    BY <1>0 DEF TransferTypes, Busy
  <2>1. TransferInv'
    BY <1>0, <1>r, LeavingKeepsTransfers DEF TransferTypes, Labels, Transfers
  <2>2. running /\ mem = job /\ job \in JobRecord /\ req.item \notin handled
        /\ available /\ job.state = "RUNNING" /\ job.completed \cup job.skipped \subseteq handled
    BY <1>0 DEF JobTypes, MemIsFile, RunAccounts, InRun
  <2>3. /\ job' \in JobRecord /\ mem' = job' /\ job'.state = job.state /\ job'.skipped = job.skipped
        /\ \/ /\ job'.completed = job.completed \cup {req.item} /\ job'.failed = job.failed
              /\ Has(req.item)
           \/ /\ job'.completed = job.completed
              /\ job'.failed = [job.failed EXCEPT ![req.item] = @ + 1]
    <3>1. CASE req.outcome = "ok"
      BY <1>0, <2>0, <2>2, <3>1 DEF JobRecord, Save, ItemsAreArchived, OkIsArchived
    <3>2. CASE req.outcome # "ok"
      <4>1. PICK f \in [Items \cup {NoPlan} -> Nat] : f = [job.failed EXCEPT ![req.item] = @ + 1]
        BY <2>0, <2>2 DEF JobRecord
      <4>2. job' = [job EXCEPT !.failed = f] /\ mem' = job'
        BY <2>2, <3>2, <4>1 DEF Save
      <4> QED BY <2>2, <4>1, <4>2 DEF JobRecord
    <3> QED BY <3>1, <3>2
  <2>4. JobTypes' /\ MemIsFile'
    BY <1>0, <2>0, <2>2, <2>3 DEF JobTypes, MemIsFile, SameButState
  <2>5. RunAccounts'
    <3>1. /\ \A i \in handled : i \in job.completed \cup job.skipped \/ job.failed[i] > 0
          /\ job.failed \in [Items \cup {NoPlan} -> Nat] /\ handled \subseteq Items
      BY <1>0, <2>2 DEF RunAccounts, InRun, JobRecord, JobTypes
    <3>2. \A i \in handled' : i \in job'.completed \cup job'.skipped \/ job'.failed[i] > 0
      <4>1. CASE job'.completed = job.completed \cup {req.item} /\ job'.failed = job.failed
        BY <2>3, <3>1, <4>1
      <4>2. CASE job'.completed = job.completed /\ job'.failed = [job.failed EXCEPT ![req.item] = @ + 1]
        BY <2>0, <2>3, <3>1, <4>2
      <4> QED BY <2>3, <4>1, <4>2
    <3> QED BY <2>2, <2>3, <3>2 DEF RunAccounts, InRun, Transfers
  <2>6. ItemsAreArchived' /\ EndedAccounts'
    BY <1>0, <1>e, <2>2, <2>3 DEF ItemsAreArchived, OkIsArchived, Has, EndedAccounts
  <2>7. PlanAccounts' /\ ReportAgrees'
    BY <1>0, <2>0, <2>2, <2>3, NoJobIsAJob DEF PlanAccounts, ReportAgrees, JobRecord
  <2> QED BY <2>1, <2>4, <2>5, <2>6, <2>7 DEF JobInv
<1>8. CASE Finish
  <2> USE <1>8 DEF Finish
  <2>1. TransferInv'
    BY <1>0, LeavingKeepsTransfers DEF TransferTypes, Labels, Transfers
  <2>2. running /\ mem = job /\ job \in JobRecord /\ available
        /\ \A i \in Items : i \in job.completed \cup job.skipped \/ job.failed[i] > 0
    BY <1>0 DEF JobTypes, MemIsFile, RunAccounts, InRun
  <2>3. job.failed[NoPlan] = 0
    BY <1>0, <2>2 DEF PlanAccounts
  <2>4. PICK s \in Ended : /\ job' = [job EXCEPT !.state = s] /\ mem' = job'
                           /\ s = "COMPLETED" => Failures(job) = {}
    BY <1>e, <2>2 DEF Save
  <2>5. job' \in JobRecord /\ job'.state = s /\ SameButState(job', job)
    BY <1>e, <2>2, <2>4, StateOfAJob
  <2>6. JobTypes' /\ MemIsFile'
    BY <1>0, <1>e, <2>2, <2>4, <2>5 DEF JobTypes, MemIsFile, SameButState
  <2>7. EndedAccounts'
    <3>1. /\ DOMAIN job.failed = Items \cup {NoPlan} /\ \A i \in Items : job.failed[i] \in Nat
          /\ job.completed \subseteq Items /\ job.skipped \subseteq Items
      BY <2>2 DEF JobRecord
    <3>2. Failures(job') = Failures(job)
      BY <2>5 DEF Failures, SameButState
    <3>3. Items = job.completed \cup job.skipped \cup Failures(job)
      <4>1. \A i \in Items : i \in job.completed \cup job.skipped \/ i \in Failures(job)
        BY <2>2, <3>1 DEF Failures
      <4>2. Failures(job) \subseteq Items
        BY <2>3, <3>1 DEF Failures
      <4>3. Items \subseteq job.completed \cup job.skipped \cup Failures(job)
        BY <4>1
      <4>4. job.completed \cup job.skipped \cup Failures(job) \subseteq Items
        BY <3>1, <4>2
      <4> QED BY <4>3, <4>4, Zenon
    <3> QED BY <2>4, <2>5, <3>2, <3>3 DEF EndedAccounts, SameButState
  <2>8. RunAccounts' /\ ItemsAreArchived' /\ PlanAccounts' /\ ReportAgrees'
    BY <1>0, <1>e, <2>2, <2>3, <2>4, <2>5
    DEF RunAccounts, InRun, Transfers, ItemsAreArchived, OkIsArchived, Has, PlanAccounts,
        ReportAgrees, SameButState
  <2> QED BY <2>1, <2>6, <2>7, <2>8 DEF JobInv
<1>9. CASE WriteReport \/ ByHandReturns \/ Interrupt \/ Kill
  <2>1. Leave /\ UNCHANGED <<transport, remote, archived, available>>
    BY <1>9 DEF WriteReport, ByHandReturns, Interrupt, Kill
  <2>2. /\ part' = part \/ \E i \in Items : part' = [part EXCEPT ![i] = Kept(@)]
        /\ complete' \in {complete, <<>>}
    BY <1>0, <1>9 DEF WriteReport, ByHandReturns, Interrupt, Kill, TransferTypes, Busy
  <2>3. TransferInv'
    BY <1>0, <1>r, <2>1, <2>2, LeavingKeepsTransfers DEF Leave, Labels, Transfers, Busy
  <2>4. JobInv'
    BY <1>9, <2>1, LeavingKeepsJob DEF WriteReport, ByHandReturns, Interrupt, Kill
  <2> QED BY <2>3, <2>4
<1>10. ASSUME NEW i \in Items, ByHand(i)
       PROVE  BootInv'
  <2>1. PICK c \in Checked : Acquire(i, c)
    BY <1>10, TransferAssumption DEF ByHand, Checked
  <2>2. UNCHANGED jobVars /\ ~running
    BY <1>0, <1>10 DEF ByHand, JobTypes
  <2>3. TransferInv'
    BY <2>1, AcquireKeepsTransfers
  <2> QED BY <1>0, <2>1, <2>2, <2>3, AsideKeepsJob DEF Acquire, Busy, Transfers, OkIsArchived
<1>11. ASSUME NEW i \in Items, ChangeRemote(i), UNCHANGED <<jobVars, stops, byHand>>
       PROVE  BootInv'
  <2>1. TransferInv'
    BY <1>11, ChangeKeepsTransfers
  <2>2. UNCHANGED <<archived, pc, req, job, report, mem, handled, running, available>>
    BY <1>11 DEF ChangeRemote
  <2>3. JobInv'
    BY <1>0, <2>2 DEF JobInv, JobTypes, MemIsFile, RunAccounts, ItemsAreArchived, OkIsArchived, Has,
                      PlanAccounts, EndedAccounts, ReportAgrees, Failures, SameButState
  <2> QED BY <2>1, <2>3
<1>12. CASE Transfer
  BY <1>0, <1>12, TransferStepKeepsTransfers, TransferKeepsJob DEF Transfer
<1>13. CASE ResumeEnded \/ UNCHANGED vars
  <2>1. UNCHANGED <<transport, remote, part, complete, archived, pc, req,
                    job, report, mem, handled, running, available>>
    BY <1>13 DEF ResumeEnded, vars
  <2>2. TransferInv'
    BY <1>0, <2>1 DEF TransferInv, TransferTypes, PartsAreBeginnings, Beginning, InHandIsExact,
                      TransferExact, Whole
  <2>3. JobInv'
    BY <1>0, <2>1 DEF JobInv, JobTypes, MemIsFile, RunAccounts, ItemsAreArchived, OkIsArchived, Has,
                      PlanAccounts, EndedAccounts, ReportAgrees, Failures, SameButState
  <2> QED BY <2>2, <2>3
<1> QED BY <1>1, <1>2, <1>3, <1>4, <1>5, <1>6, <1>7, <1>8, <1>9, <1>10, <1>11, <1>12, <1>13 DEF Next, Work

THEOREM BootstrapInvariant == Spec => []BootInv
BY InitBootInv, NextBootInv, PTL DEF Spec

-----------------------------------------------------------------------------
(* acquire_http, acquire_ftp: what is archived under a checksum is one     *)
(* whole version; while upstream stands still it is the beginning of its   *)
(* file, and all of it if a size was given.                                *)
THEOREM TransfersAreExact == Spec => []TransferExact
<1>1. BootInv => TransferExact
  BY DEF BootInv, TransferInv
<1> QED BY <1>1, BootstrapInvariant, PTL

(* _run, resume, write_report: a job that has ended accounts for each item,*)
(* and its report agrees, through any interrupts, kills and resumes.       *)
THEOREM JobsAccountForTheirItems == Spec => []ItemsAccountedFor
<1>1. BootInv => ItemsAccountedFor
  <2> SUFFICES ASSUME BootInv PROVE ItemsAccountedFor
    OBVIOUS
  <2>1. JobTypes /\ ItemsAreArchived /\ EndedAccounts /\ ReportAgrees
    BY DEF BootInv, JobInv
  <2>2. report # NoJob => job \in {report, [report EXCEPT !.state = job.state]}
    <3>1. report # NoJob => SameButState(job, report)
      BY <2>1 DEF ReportAgrees, SameButState
    <3> QED BY <2>1, <3>1, JobsAreTheirFields DEF JobTypes
  <2> QED BY <2>1, <2>2 DEF ItemsAccountedFor, ItemsAreArchived, EndedAccounts
<1> QED BY <1>1, BootstrapInvariant, PTL

-----------------------------------------------------------------------------
(* SourceIndex.  The inductive invariant, in named parts.                  *)

InSync == {"pick", "files", "row", "package", "sidecar", "reappear", "tell paths", "tell packages"}

IsRun(r) ==
    r = [http |-> r.http, asked |-> r.asked, todo |-> r.todo, left |-> r.left,
         failed |-> r.failed, untold |-> r.untold, back |-> r.back, cur |-> r.cur,
         file |-> r.file, got |-> r.got]
IsPackage(k) ==
    k = [gen |-> k.gen, record |-> k.record, present |-> k.present] /\ k.present \in BOOLEAN

IndexTables ==
    /\ rows = [p \in Paths |-> rows[p]]
    /\ \A p \in Paths : rows[p] = [content |-> rows[p].content, status |-> rows[p].status]
    /\ package = [s \in Stems |-> package[s]] /\ \A s \in Stems : IsPackage(package[s])
    /\ sidecars = [s \in Stems |-> sidecars[s]]
    /\ \A s \in Stems : sidecars[s] = [g \in Numbers |-> sidecars[s][g]]
    /\ lastEvent \in [Stems -> {"PRESENT", "MISSING"}]
    /\ faults \in [DOMAIN Limits -> Nat]
    /\ at \in InSync \cup {"idle"}

(* The command is at a stem or a file.                                     *)
AtStem == at \in {"package", "sidecar", "reappear"} \/ (at \in {"files", "row"} /\ ~run.http)
RunTables ==
    /\ IsRun(run) /\ run.http \in BOOLEAN
    /\ run.asked \subseteq Paths /\ run.left \subseteq run.asked
    /\ run.todo \subseteq StemsOf(run.asked)
    /\ run.got = [p \in Paths |-> run.got[p]]
    /\ AtStem => run.cur \in Stems
    /\ at = "row" => run.file \in Paths

(* No package gets more generations than there is room for.                *)
Before == at = "package" \/ (at \in {"files", "row"} /\ ~run.http)
HasRoom ==
    /\ \A s \in Stems : package[s].gen \in 0..MaxGenerations
    /\ at # "idle" => \A s \in run.todo : package[s].gen < MaxGenerations
    /\ Before => run.cur \notin run.todo /\ package[run.cur].gen < MaxGenerations

(* A package that is known has had a generation.                           *)
Unsaved(s) == at = "sidecar" /\ s = run.cur
Known0(s) ==
    /\ package[s].gen = 0 => package[s] = NoPackage
    /\ package[s].gen > 0 => package[s].record # NoRecord
PackagesAreKnown ==
    /\ \A s \in Stems : Known0(s)
    /\ at = "sidecar" => package[run.cur].gen > 0

(* Without a kill a generation has its sidecar, and only a package that    *)
(* has one may be said to have disappeared.                                *)
Saved(s) ==
    /\ package[s].gen > 0 /\ ~Unsaved(s) => sidecars[s][package[s].gen] # NoRecord
    /\ Generations(s) = {} => lastEvent[s] = "PRESENT"
GenerationsAreSaved ==
    faults["crash"] = 0 =>
        /\ \A s \in Stems : Saved(s)
        /\ at = "tell packages" => \A s \in run.untold : s \in Stems /\ package[s].gen > 0

(* Nor has the index lost anything: the sidecars end with the package's    *)
(* generation, and the last event tells its presence, but for what the     *)
(* command in hand has yet to write.                                       *)
Untold(s) == s = run.cur /\ (at = "reappear" \/ (at = "sidecar" /\ run.back))
Gone(s)   == at = "tell packages" /\ s \in run.untold
Synced(s) ==
    /\ \A g \in Generations(s) : g <= package[s].gen
    /\ package[s].gen > 0 /\ ~Unsaved(s) => sidecars[s][package[s].gen] = package[s].record
    /\ Untold(s) => package[s].present
    /\ Gone(s) => ~package[s].present
    /\ package[s].gen > 0 /\ ~Untold(s) /\ ~Gone(s)
         => (package[s].present <=> lastEvent[s] = "PRESENT")
SidecarsFollow ==
    faults["crash"] = 0 /\ ~behind =>
        (\A s \in Stems : Synced(s)) /\ (at = "reappear" => package[run.cur].gen > 0)

RestoreInv ==
    /\ IndexTables /\ RunTables /\ HasRoom
    /\ PackagesAreKnown /\ GenerationsAreSaved /\ SidecarsFollow

(* What a sync has settled so far.                                         *)
Syncs == at # "idle" /\ ~run.http
Current(p) == rows[p] = [content |-> upstream[p], status |-> "PRESENT"]
Pending(p) == at \in {"files", "row"} /\ (p \in run.left \/ (at = "row" /\ p = run.file))
RowsSettled ==
    \A p \in Listing : p[1] \notin run.failed \cup run.todo /\ ~Pending(p) => Current(p)
GotSettled ==
    /\ \A p \in Paths \ Listing : run.got[p] = Absent
    /\ at \in {"files", "row", "package"} /\ run.cur \notin run.failed =>
         \A p \in OfStem(run.cur, Listing) \ run.left : run.got[p] = upstream[p]
    /\ at = "row" => run.file \in Listing /\ run.got[run.file] = upstream[run.file]
    /\ at = "package" => run.left = {}
    /\ at \in {"files", "row"} => run.left \subseteq OfStem(run.cur, Listing)
PackageSettled(s) ==
    /\ package[s].present
    /\ s \notin run.failed => /\ package[s].record.payload = upstream[<<s, "lha">>]
                              /\ package[s].record.readme = upstream[<<s, "readme">>]
PackagesSettled ==
    \A s \in StemsOf(Listing) \ run.todo : ~(Before /\ s = run.cur) => PackageSettled(s)
GoneSettled ==
    /\ at \in {"tell paths", "tell packages"} =>
         run.todo = {} /\ \A p \in Paths \ Listing : rows[p].status # "PRESENT"
    /\ at = "tell packages" => \A s \in Stems \ StemsOf(Listing) : ~package[s].present
SyncInv ==
    /\ at \in {"tell paths", "tell packages"} => ~run.http
    /\ Syncs => /\ run.asked = Listing /\ RowsSettled /\ GotSettled
                /\ PackagesSettled /\ GoneSettled

SourceInv == RestoreInv /\ SyncInv

-----------------------------------------------------------------------------
(* Types.                                                                  *)

(* A set of numbers up to N that is not empty has a maximum.               *)
LEMMA GreatestIsThere ==
    ASSUME NEW N \in Nat, NEW S \in SUBSET (0..N), S # {}
    PROVE  Max(S) \in S /\ \A y \in S : y <= Max(S)
<1> DEFINE R == OpToRel(<, Nat)
           T == {N - x : x \in S}
<1>1. \A y, x \in Nat : <<y, x>> \in R <=> y < x
  BY DEF OpToRel
<1>2. IsWellFoundedOn(R, Nat)
  BY NatLessThanWellFounded
<1>0. \A x \in S : x \in Nat /\ x <= N
  BY SMT
<1>3. T \subseteq Nat /\ T # {}
  <2>1. \A x \in S : N - x \in Nat
    BY <1>0, SMT
  <2>2. PICK x \in S : TRUE
    OBVIOUS
  <2>3. N - x \in T
    BY <2>2
  <2> QED BY <2>1, <2>3
<1> HIDE DEF R
<1>4. PICK x \in T : \A y \in T : <<y, x>> \notin R
  BY <1>2, <1>3, WFMin
<1>5. \A y \in T : ~(y < x)
  BY <1>1, <1>3, <1>4, Zenon
<1>6. PICK s \in S : x = N - s
  OBVIOUS
<1>7. \A y \in S : s >= y
  <2> SUFFICES ASSUME NEW y \in S PROVE s >= y
    OBVIOUS
  <2>1. N - y \in T
    OBVIOUS
  <2>2. ~(N - y < N - s)
    BY <1>5, <1>6, <2>1
  <2> HIDE DEF T
  <2> QED BY <1>0, <2>2, SMT
<1>8. Max(S) \in S /\ \A y \in S : Max(S) >= y
  BY <1>7 DEF Max
<1> QED BY <1>0, <1>8, SMT

LEMMA InNumbers ==
    ASSUME NEW n \in 0..MaxGenerations, n > 0
    PROVE  n \in Numbers
BY GenerationsAssumption DEF Numbers

LEMMA IdleIsRun ==
    /\ IsRun(Idle) /\ Idle.http = FALSE /\ Idle.asked = {} /\ Idle.todo = {} /\ Idle.left = {}
    /\ Idle.failed = {} /\ Idle.untold = {} /\ Idle.back = FALSE
    /\ Idle.got = [p \in Paths |-> Absent]
BY DEF Idle, IsRun

LEMMA FaultsCount ==
    ASSUME NEW kind \in DOMAIN Limits, faults \in [DOMAIN Limits -> Nat], Fault(kind)
    PROVE  /\ faults' \in [DOMAIN Limits -> Nat] /\ faults' # faults
           /\ faults'["crash"] = 0 => faults["crash"] = 0 /\ kind # "crash"
<1>1. "crash" \in DOMAIN Limits
  BY DEF Limits
<1>2. faults' = [faults EXCEPT ![kind] = faults[kind] + 1]
  BY DEF Fault
<1>3. PICK n \in Nat : n = faults[kind]
  OBVIOUS
<1>4. faults'[kind] = n + 1 /\ \A k \in DOMAIN Limits \ {kind} : faults'[k] = faults[k]
  BY <1>2, <1>3
<1> HIDE DEF Limits
<1> QED BY <1>1, <1>2, <1>3, <1>4

(* The fields of the packages.                                             *)
LEMMA IsPackageOf ==
    ASSUME NEW g, NEW r, NEW b \in BOOLEAN
    PROVE  IsPackage([gen |-> g, record |-> r, present |-> b])
BY DEF IsPackage

LEMMA StopIsIdle ==
    ASSUME Stop
    PROVE  RunTables' /\ at' = "idle"
BY IdleIsRun DEF Stop, RunTables, IsRun, AtStem, StemsOf

-----------------------------------------------------------------------------
(* Steps that write none of what a rebuild reads of packages.              *)
Telling == {"sidecar", "reappear", "tell packages"}

LEMMA QuietKeeps ==
    ASSUME RestoreInv, UNCHANGED <<package, sidecars, lastEvent, behind>>,
           IndexTables', RunTables', HasRoom', at' \notin Telling,
           faults'["crash"] = 0 =>
               /\ faults["crash"] = 0
               /\ at \notin Telling \/ (at = "tell packages" /\ run.untold = {})
    PROVE  RestoreInv'
<1>1. PackagesAreKnown'
  BY DEF RestoreInv, PackagesAreKnown, Known0, Telling
<1>2. GenerationsAreSaved'
  BY DEF RestoreInv, GenerationsAreSaved, Saved, Unsaved, Generations, Telling
<1>3. SidecarsFollow'
  BY DEF RestoreInv, SidecarsFollow, Synced, Unsaved, Untold, Gone, Generations, Telling
<1> QED BY <1>1, <1>2, <1>3 DEF RestoreInv

(* A command begins.                                                       *)
LEMMA BeginKeeps ==
    ASSUME RestoreInv, NEW A \in SUBSET Paths, NEW local, NEW step \in {"pick", "files"},
           Begin(A, local, step), IsRun(local), local.http \in BOOLEAN, local.left \subseteq A,
           local.got = [p \in Paths |-> Absent], step = "files" => local.http
    PROVE  RestoreInv' /\ at' = step /\ run'.http = local.http /\ run'.asked = A
           /\ run'.todo = StemsOf(A) /\ run'.left = local.left /\ run'.got = local.got
<1>1. PICK T : T = StemsOf(A)
  OBVIOUS
<1>2. PICK r : r = run'
  OBVIOUS
<1>3. r = [local EXCEPT !.asked = A, !.todo = T]
  BY <1>1, <1>2 DEF Begin
<1>4. /\ IsRun(r) /\ r.http = local.http /\ r.asked = A /\ r.todo = T /\ r.left = local.left
      /\ r.got = local.got
  BY <1>3 DEF IsRun
<1>5. at' = step /\ UNCHANGED <<rows, package, sidecars, lastEvent, faults, behind>>
  BY DEF Begin, files, index
<1>6. IndexTables'
  BY <1>5 DEF RestoreInv, IndexTables, InSync
<1>7. RunTables'
  BY <1>1, <1>2, <1>4, <1>5 DEF RunTables, AtStem
<1>8. HasRoom'
  <2>1. \A s \in Stems : package[s].gen < MaxGenerations
    BY DEF Begin
  <2>2. T \subseteq Stems
    BY <1>1 DEF StemsOf, Paths
  <2> QED BY <1>2, <1>4, <1>5, <2>1, <2>2 DEF RestoreInv, HasRoom, Before
<1>9. at \notin Telling
  BY DEF Begin, Telling
<1>10. RestoreInv'
  BY <1>5, <1>6, <1>7, <1>8, <1>9, QuietKeeps DEF Telling
<1> QED BY <1>1, <1>2, <1>4, <1>5, <1>10

(* A command goes on with other local variables.                           *)
LEMMA GoOnKeeps ==
    ASSUME RestoreInv, NEW r, r = run', IsRun(r), r.http = run.http, r.asked = run.asked,
           r.todo \subseteq run.todo, r.left \subseteq r.asked, r.got = [p \in Paths |-> r.got[p]],
           UNCHANGED <<package, sidecars, lastEvent, behind>>, IndexTables',
           faults'["crash"] = 0 => faults["crash"] = 0,
           at \notin Telling \cup {"idle"}, at' \notin Telling \cup {"idle"},
           AtStem' => r.cur \in Stems, at' = "row" => r.file \in Paths,
           Before' => r.cur \notin r.todo /\ package[r.cur].gen < MaxGenerations
    PROVE  RestoreInv'
<1>1. RunTables'
  BY DEF RestoreInv, RunTables, StemsOf
<1>2. HasRoom'
  BY DEF RestoreInv, HasRoom, Before
<1> QED BY <1>1, <1>2, QuietKeeps

LEMMA QuietRunKeeps ==
    ASSUME RestoreInv,
           \/ \E s \in Stems : PickStem(s)
           \/ \E p \in Paths : Ingest(p) \/ TellPath(p)
           \/ RecordRow \/ FilesDone \/ MarkMissing
    PROVE  RestoreInv'
<1>0. IndexTables /\ RunTables /\ HasRoom
  BY DEF RestoreInv
<1>1. ASSUME NEW s \in Stems, PickStem(s) PROVE RestoreInv'
  <2>1. PICK r : r = run'
    OBVIOUS
  <2>2. PICK L : L = IF run.http THEN {} ELSE OfStem(s, run.asked)
    OBVIOUS
  <2>3. r = [run EXCEPT !.cur = s, !.todo = @ \ {s}, !.left = L]
    BY <1>1, <2>1, <2>2 DEF PickStem
  <2>4. /\ IsRun(r) /\ r.http = run.http /\ r.asked = run.asked /\ r.todo = run.todo \ {s}
        /\ r.left = L /\ r.got = run.got /\ r.cur = s
    BY <1>0, <2>3 DEF RunTables, IsRun
  <2>5. L \subseteq run.asked
    BY <2>2 DEF OfStem
  <2>6. IndexTables'
    BY <1>0, <1>1 DEF IndexTables, PickStem, files, index, InSync
  <2>7. package[s].gen < MaxGenerations
    BY <1>0, <1>1 DEF HasRoom, PickStem
  <2>8. at = "pick" /\ at' \in {"package", "files"} /\ UNCHANGED <<package, sidecars, lastEvent, behind, faults>>
    BY <1>1 DEF PickStem, files, index
  <2> QED BY <1>0, <2>1, <2>4, <2>5, <2>6, <2>7, <2>8, GoOnKeeps DEF RunTables, Telling
<1>2. ASSUME NEW p \in Paths, Ingest(p) PROVE RestoreInv'
  <2>1. PICK r : r = run'
    OBVIOUS
  <2>2. PICK u : u = upstream[p]
    OBVIOUS
  <2>3. r = [run EXCEPT !.file = p, !.left = @ \ {p}, !.got[p] = u]
    BY <1>2, <2>1, <2>2 DEF Ingest
  <2>4. PICK g : g = [run.got EXCEPT ![p] = u]
    OBVIOUS
  <2>5. r = [run EXCEPT !.file = p, !.left = @ \ {p}, !.got = g]
    BY <2>3, <2>4
  <2>6. /\ IsRun(r) /\ r.http = run.http /\ r.asked = run.asked /\ r.todo = run.todo
        /\ r.left = run.left \ {p} /\ r.got = g /\ r.cur = run.cur /\ r.file = p
    BY <1>0, <2>5 DEF RunTables, IsRun
  <2>7. g = [q \in Paths |-> g[q]]
    BY <1>0, <2>4 DEF RunTables
  <2>8. IndexTables'
    BY <1>0, <1>2 DEF IndexTables, Ingest, index, InSync
  <2>9. at = "files" /\ at' \in {"files", "row"} /\ UNCHANGED <<package, sidecars, lastEvent, behind, faults>>
    BY <1>2 DEF Ingest, index
  <2>10. ~run.http => run.cur \in Stems /\ run.cur \notin run.todo /\ package[run.cur].gen < MaxGenerations
    BY <1>0, <2>9 DEF RunTables, HasRoom, AtStem, Before
  <2> QED BY <1>0, <2>1, <2>6, <2>7, <2>8, <2>9, <2>10, GoOnKeeps DEF RunTables, Telling, AtStem, Before
<1>3. ASSUME NEW p \in Paths, TellPath(p) PROVE RestoreInv'
  <2>1. PICK r : r = run'
    OBVIOUS
  <2>2. r = [run EXCEPT !.untold = @ \ {p}]
    BY <1>3, <2>1 DEF TellPath
  <2>3. /\ IsRun(r) /\ r.http = run.http /\ r.asked = run.asked /\ r.todo = run.todo
        /\ r.left = run.left /\ r.got = run.got
    BY <1>0, <2>2 DEF RunTables, IsRun
  <2>4. IndexTables'
    BY <1>0, <1>3 DEF IndexTables, TellPath, index
  <2>5. at = "tell paths" /\ UNCHANGED <<at, package, sidecars, lastEvent, behind, faults>>
    BY <1>3 DEF TellPath, index
  <2> QED BY <1>0, <2>1, <2>3, <2>4, <2>5, GoOnKeeps DEF RunTables, Telling, AtStem, Before
<1>4. CASE RecordRow
  <2>1. IndexTables'
    <3>1. rows' = [rows EXCEPT ![run.file] = [content |-> run.got[run.file], status |-> "PRESENT"]]
      BY <1>4 DEF RecordRow
    <3>2. /\ rows' = [p \in Paths |-> rows'[p]]
          /\ \A p \in Paths : rows'[p] = [content |-> rows'[p].content, status |-> rows'[p].status]
      BY <1>0, <3>1 DEF IndexTables
    <3>3. at' = "files" /\ UNCHANGED <<package, sidecars, lastEvent, faults>>
      BY <1>4 DEF RecordRow, files
    <3> QED BY <1>0, <3>2, <3>3 DEF IndexTables, InSync
  <2>2. at = "row" /\ at' = "files" /\ UNCHANGED <<run, package, sidecars, lastEvent, behind, faults>>
    BY <1>4 DEF RecordRow, files
  <2> QED BY <1>0, <2>1, <2>2, GoOnKeeps DEF RunTables, HasRoom, Telling, AtStem, Before
<1>5. CASE FilesDone
  <2>1. at = "files" /\ UNCHANGED <<run, rows, package, sidecars, lastEvent, behind, faults>>
    BY <1>5 DEF FilesDone, files, index
  <2>2. at' = IF run.http THEN "pick" ELSE "package"
    BY <1>5 DEF FilesDone
  <2>3. IndexTables'
    BY <1>0, <2>1, <2>2 DEF IndexTables, InSync
  <2> QED BY <1>0, <2>1, <2>2, <2>3, GoOnKeeps DEF RunTables, HasRoom, Telling, AtStem, Before
<1>6. CASE MarkMissing
  <2>1. PICK r : r = run'
    OBVIOUS
  <2>2. PICK U : r = [run EXCEPT !.untold = U]
    BY <1>6, <2>1 DEF MarkMissing
  <2>3. /\ IsRun(r) /\ r.http = run.http /\ r.asked = run.asked /\ r.todo = run.todo
        /\ r.left = run.left /\ r.got = run.got
    BY <1>0, <2>2 DEF RunTables, IsRun
  <2>4. IndexTables'
    <3>1. /\ rows' = [p \in Paths |-> rows'[p]]
          /\ \A p \in Paths : rows'[p] = rows[p] \/ rows'[p] = [rows[p] EXCEPT !.status = "MISSING"]
      BY <1>6 DEF MarkMissing
    <3>2. \A p \in Paths : rows'[p] = [content |-> rows'[p].content, status |-> rows'[p].status]
      BY <1>0, <3>1 DEF IndexTables
    <3>3. at' = "tell paths" /\ UNCHANGED <<package, sidecars, lastEvent, faults>>
      BY <1>6 DEF MarkMissing, files
    <3> QED BY <1>0, <3>1, <3>2, <3>3 DEF IndexTables, InSync
  <2>5. at = "pick" /\ at' = "tell paths" /\ UNCHANGED <<package, sidecars, lastEvent, behind, faults>>
    BY <1>6 DEF MarkMissing, files
  <2> QED BY <1>0, <2>1, <2>3, <2>4, <2>5, GoOnKeeps DEF RunTables, Telling, AtStem, Before
<1> QED BY <1>1, <1>2, <1>3, <1>4, <1>5, <1>6

(* A command that ends, as it should or not.                               *)
LEMMA EndKeeps ==
    ASSUME RestoreInv, Stop, UNCHANGED <<rows, package, sidecars, lastEvent, behind>>,
           faults' \in [DOMAIN Limits -> Nat],
           faults'["crash"] = 0 =>
               /\ faults["crash"] = 0
               /\ at \notin Telling \/ (at = "tell packages" /\ run.untold = {})
    PROVE  RestoreInv'
<1>1. RunTables' /\ at' = "idle"
  BY StopIsIdle
<1>2. IndexTables'
  BY <1>1 DEF RestoreInv, IndexTables
<1>3. HasRoom'
  BY <1>1 DEF RestoreInv, HasRoom, Before
<1> QED BY <1>1, <1>2, <1>3, QuietKeeps DEF Telling

LEMMA CommandEndsKeeps ==
    ASSUME RestoreInv, HttpDone \/ FinishSync \/ Crash
    PROVE  RestoreInv'
<1>0. faults \in [DOMAIN Limits -> Nat]
  BY DEF RestoreInv, IndexTables
<1>1. CASE HttpDone
  BY <1>0, <1>1, EndKeeps DEF HttpDone, files, index, Telling
<1>2. CASE FinishSync
  BY <1>0, <1>2, EndKeeps DEF FinishSync, files, index, Telling
<1>3. CASE Crash
  <2>1. Fault("crash") /\ Stop /\ UNCHANGED <<rows, package, sidecars, lastEvent, behind>>
    BY <1>3 DEF Crash, files, index
  <2>2. "crash" \in DOMAIN Limits
    BY DEF Limits
  <2>3. faults' \in [DOMAIN Limits -> Nat] /\ faults'["crash"] # 0
    BY <1>0, <2>1, <2>2, FaultsCount
  <2> QED BY <2>1, <2>3, EndKeeps
<1> QED BY <1>1, <1>2, <1>3

LEMMA FileFailsKeeps ==
    ASSUME RestoreInv, FileFails
    PROVE  RestoreInv'
<1>0. IndexTables /\ RunTables /\ HasRoom /\ faults \in [DOMAIN Limits -> Nat]
  BY DEF RestoreInv, IndexTables
<1>1. at = "files" /\ UNCHANGED <<rows, package, sidecars, lastEvent, behind>>
  BY DEF FileFails, files, index
<1>2. faults' \in [DOMAIN Limits -> Nat] /\ (faults'["crash"] = 0 => faults["crash"] = 0)
  <2>1. CASE UNCHANGED faults
    BY <1>0, <2>1
  <2>2. CASE Fault("failure")
    <3>1. "failure" \in DOMAIN Limits
      BY DEF Limits
    <3> QED BY <1>0, <2>2, <3>1, FaultsCount
  <2> QED BY <2>1, <2>2 DEF FileFails
<1>3. CASE Stop
  BY <1>1, <1>2, <1>3, EndKeeps DEF Telling
<1>4. CASE ~run.http /\ at' = at /\ run' = [run EXCEPT !.failed = @ \cup {run.cur}, !.left = {}]
  <2>1. PICK r : r = run'
    OBVIOUS
  <2>2. PICK F : F = run.failed \cup {run.cur}
    OBVIOUS
  <2>3. r = [run EXCEPT !.failed = F, !.left = {}]
    BY <1>4, <2>1, <2>2
  <2>4. /\ IsRun(r) /\ r.http = run.http /\ r.asked = run.asked /\ r.todo = run.todo
        /\ r.left = {} /\ r.got = run.got /\ r.cur = run.cur
    BY <1>0, <2>3 DEF RunTables, IsRun
  <2>5. IndexTables'
    BY <1>0, <1>1, <1>2, <1>4 DEF IndexTables
  <2> QED BY <1>0, <1>1, <1>2, <1>4, <2>1, <2>4, <2>5, GoOnKeeps
          DEF RunTables, HasRoom, Telling, AtStem, Before
<1> QED BY <1>3, <1>4 DEF FileFails

LEMMA ChangeUpstreamKeeps ==
    ASSUME RestoreInv, ChangeUpstream
    PROVE  RestoreInv'
<1>0. IndexTables /\ RunTables /\ HasRoom /\ faults \in [DOMAIN Limits -> Nat]
  BY DEF RestoreInv, IndexTables
<1>1. /\ at = "idle" /\ Fault("change")
      /\ UNCHANGED <<rows, package, sidecars, lastEvent, behind, at, run>>
  BY DEF ChangeUpstream, files, index
<1>2. "change" \in DOMAIN Limits
  BY DEF Limits
<1>3. faults' \in [DOMAIN Limits -> Nat] /\ (faults'["crash"] = 0 => faults["crash"] = 0)
  BY <1>0, <1>1, <1>2, FaultsCount
<1>4. IndexTables' /\ RunTables' /\ HasRoom'
  BY <1>0, <1>1, <1>3 DEF IndexTables, RunTables, HasRoom, AtStem, Before
<1> QED BY <1>1, <1>3, <1>4, QuietKeeps DEF Telling

-----------------------------------------------------------------------------
(* Steps that write packages, sidecars or events.                          *)

(* The transaction of _package.                                            *)
LEMMA UpdatePackageKeeps ==
    ASSUME RestoreInv, UpdatePackage
    PROVE  RestoreInv'
<1>0. IndexTables /\ RunTables /\ HasRoom /\ PackagesAreKnown
  BY DEF RestoreInv
<1>1. PICK c : c = run.cur
  OBVIOUS
<1>2. PICK old : old = package[c]
  OBVIOUS
<1>3. PICK rec : rec = Record(c)
  OBVIOUS
<1>4. PICK same \in BOOLEAN : same = (old.gen > 0 /\ old.record = rec)
  OBVIOUS
<1>5. PICK back \in BOOLEAN : back = (old.gen > 0 /\ ~old.present)
  OBVIOUS
<1>6. PICK g : g = IF same THEN old.gen ELSE old.gen + 1
  OBVIOUS
<1>7. /\ at = "package" /\ run' = [run EXCEPT !.back = back]
      /\ package' = [package EXCEPT ![c] = [gen |-> g, record |-> rec, present |-> TRUE]]
      /\ at' = IF ~same THEN "sidecar" ELSE IF back THEN "reappear" ELSE "pick"
      /\ UNCHANGED <<rows, sidecars, lastEvent, faults, behind>>
  BY <1>1, <1>2, <1>3, <1>4, <1>5, <1>6 DEF UpdatePackage, files
<1>8. PICK r : r = run'
  OBVIOUS
<1>9. /\ IsRun(r) /\ r.http = run.http /\ r.asked = run.asked /\ r.todo = run.todo
      /\ r.left = run.left /\ r.got = run.got /\ r.cur = c /\ r.back = back
  BY <1>0, <1>1, <1>7, <1>8 DEF RunTables, IsRun
<1>10. c \in Stems /\ c \notin run.todo /\ old.gen \in Nat /\ old.gen < MaxGenerations
  <2>1. c \in Stems /\ c \notin run.todo /\ old.gen < MaxGenerations
    BY <1>0, <1>1, <1>2, <1>7 DEF RunTables, HasRoom, AtStem, Before
  <2> QED BY <1>0, <1>2, <2>1, GenerationsAssumption DEF HasRoom
<1>11. g \in 1..MaxGenerations
  <2>1. PICK n \in Nat : n = old.gen
    BY <1>10
  <2>2. CASE same
    <3>1. old.gen > 0
      BY <1>4, <2>2
    <3>2. g = n /\ n > 0 /\ n < MaxGenerations
      BY <1>6, <1>10, <2>1, <2>2, <3>1
    <3> QED BY <2>1, <3>2, GenerationsAssumption
  <2>3. CASE ~same
    <3>1. g = n + 1 /\ n < MaxGenerations
      BY <1>6, <1>10, <2>1, <2>3
    <3> QED BY <3>1, GenerationsAssumption
  <2> QED BY <2>2, <2>3
<1>12. PICK new : new = [gen |-> g, record |-> rec, present |-> TRUE]
  OBVIOUS
<1>13. IsPackage(new) /\ new.gen = g /\ new.record = rec /\ new.present
  BY <1>12 DEF IsPackage
<1>14. \A s \in Stems : package'[s] = IF s = c THEN new ELSE package[s]
  BY <1>0, <1>7, <1>12 DEF IndexTables
<1>15. rec # NoRecord
  <2>1. rec.state # "NONE"
    BY <1>3 DEF Record
  <2> QED BY <2>1 DEF NoRecord
<1>16. IndexTables'
  <2>1. package' = [s \in Stems |-> package'[s]]
    BY <1>0, <1>7 DEF IndexTables
  <2>2. \A s \in Stems : IsPackage(package'[s])
    BY <1>0, <1>13, <1>14 DEF IndexTables
  <2>3. at' \in InSync
    BY <1>7 DEF InSync
  <2> QED BY <1>0, <1>7, <2>1, <2>2, <2>3 DEF IndexTables
<1>17. RunTables'
  BY <1>0, <1>7, <1>8, <1>9, <1>10 DEF RunTables, AtStem
<1>18. HasRoom'
  BY <1>0, <1>7, <1>8, <1>9, <1>10, <1>11, <1>13, <1>14 DEF HasRoom, Before
<1>19. PackagesAreKnown'
  <2>1. \A s \in Stems : Known0(s)'
    BY <1>0, <1>11, <1>13, <1>14, <1>15 DEF PackagesAreKnown, Known0
  <2>2. package'[c].gen > 0
    BY <1>10, <1>11, <1>13, <1>14
  <2> QED BY <1>8, <1>9, <2>1, <2>2 DEF PackagesAreKnown
<1>20. GenerationsAreSaved'
  <2>1. at' # "tell packages"
    BY <1>7
  <2> SUFFICES ASSUME faults["crash"] = 0, NEW s \in Stems PROVE Saved(s)'
    BY <1>7, <2>1 DEF GenerationsAreSaved
  <2>2. Saved(s)
    BY DEF RestoreInv, GenerationsAreSaved
  <2>3. Generations(s)' = Generations(s)
    BY <1>7 DEF Generations
  <2>4. CASE s # c
    BY <1>7, <1>8, <1>9, <1>14, <2>2, <2>3, <2>4 DEF Saved, Unsaved
  <2>5. CASE s = c
    BY <1>2, <1>4, <1>6, <1>7, <1>8, <1>9, <1>13, <1>14, <2>2, <2>3, <2>5 DEF Saved, Unsaved
  <2> QED BY <2>4, <2>5
<1>21. SidecarsFollow'
  <2>1. package'[c].gen > 0
    BY <1>10, <1>11, <1>13, <1>14
  <2> SUFFICES ASSUME faults["crash"] = 0, ~behind, NEW s \in Stems PROVE Synced(s)'
    BY <1>7, <1>8, <1>9, <2>1 DEF SidecarsFollow
  <2>2. Synced(s) /\ Saved(s)
    BY DEF RestoreInv, SidecarsFollow, GenerationsAreSaved
  <2>3. Generations(s)' = Generations(s)
    BY <1>7 DEF Generations
  <2>4. ~Gone(s) /\ ~Gone(s)' /\ ~Untold(s) /\ ~Unsaved(s)
    BY <1>7 DEF Gone, Untold, Unsaved
  <2>5. CASE s # c
    <3>1. ~Untold(s)' /\ ~Unsaved(s)'
      BY <1>8, <1>9, <2>5 DEF Untold, Unsaved
    <3> QED BY <1>7, <1>14, <2>2, <2>3, <2>4, <2>5, <3>1 DEF Synced
  <2>6. CASE s = c
    <3>1. Unsaved(s)' <=> ~same
      BY <1>7, <1>8, <1>9, <2>6 DEF Unsaved
    <3>2. Untold(s)' <=> back
      BY <1>4, <1>7, <1>8, <1>9, <2>6 DEF Untold
    <3>3. package'[s] = new
      BY <1>14, <2>6
    <3>4. \A n \in Generations(s) : n <= g
      <4>1. \A n \in Generations(s) : n \in Nat /\ n <= old.gen
        BY <1>2, <2>2, <2>6, GenerationsAssumption DEF Synced, Generations, Numbers
      <4> QED BY <1>6, <1>10, <4>1
    <3>5. same => sidecars[s][g] = rec
      BY <1>2, <1>4, <1>6, <2>2, <2>4, <2>6 DEF Synced
    <3>6. ~back => lastEvent[s] = "PRESENT"
      <4>1. CASE old.gen = 0
        <5>1. Generations(s) = {}
          BY <1>2, <2>2, <2>6, <4>1, GenerationsAssumption DEF Synced, Generations, Numbers
        <5> QED BY <2>2, <5>1 DEF Saved
      <4>2. CASE old.gen > 0
        BY <1>2, <1>5, <2>2, <2>4, <2>6, <4>2 DEF Synced
      <4> QED BY <1>10, <4>1, <4>2
    <3> QED BY <1>7, <1>13, <2>3, <2>4, <3>1, <3>2, <3>3, <3>4, <3>5, <3>6 DEF Synced
  <2> QED BY <2>5, <2>6
<1> QED BY <1>16, <1>17, <1>18, <1>19, <1>20, <1>21 DEF RestoreInv

LEMMA WriteSidecarKeeps ==
    ASSUME RestoreInv, WriteSidecar
    PROVE  RestoreInv'
<1>0. IndexTables /\ RunTables /\ HasRoom /\ PackagesAreKnown
  BY DEF RestoreInv
<1>1. PICK c : c = run.cur
  OBVIOUS
<1>2. PICK g : g = package[c].gen
  OBVIOUS
<1>3. PICK rec : rec = package[c].record
  OBVIOUS
<1>4. /\ at = "sidecar" /\ UNCHANGED <<run, rows, package, lastEvent, faults, behind>>
      /\ sidecars' = [sidecars EXCEPT ![c][g] = rec]
      /\ at' = IF run.back THEN "reappear" ELSE "pick"
  BY <1>1, <1>2, <1>3 DEF WriteSidecar, AfterSidecar, index
<1>5. c \in Stems /\ g \in Numbers /\ rec # NoRecord
  <2>1. c \in Stems
    BY <1>0, <1>1, <1>4 DEF RunTables, AtStem
  <2>2. g > 0 /\ g \in 0..MaxGenerations
    BY <1>0, <1>1, <1>2, <1>4, <2>1 DEF PackagesAreKnown, HasRoom
  <2> QED BY <1>0, <1>2, <1>3, <2>1, <2>2, GenerationsAssumption DEF PackagesAreKnown, Known0, Numbers
<1>6. PICK own : own = [sidecars[c] EXCEPT ![g] = rec]
  OBVIOUS
<1>7. \A s \in Stems : sidecars'[s] = IF s = c THEN own ELSE sidecars[s]
  BY <1>0, <1>4, <1>6 DEF IndexTables
<1>8. /\ own = [n \in Numbers |-> own[n]] /\ own[g] = rec
      /\ \A n \in Numbers \ {g} : own[n] = sidecars[c][n]
  BY <1>0, <1>5, <1>6 DEF IndexTables
<1>9. IndexTables'
  <2>1. sidecars' = [s \in Stems |-> sidecars'[s]]
    BY <1>0, <1>4 DEF IndexTables
  <2>2. \A s \in Stems : sidecars'[s] = [n \in Numbers |-> sidecars'[s][n]]
    BY <1>0, <1>7, <1>8 DEF IndexTables
  <2>3. at' \in InSync
    BY <1>4 DEF InSync
  <2> QED BY <1>0, <1>4, <2>1, <2>2, <2>3 DEF IndexTables
<1>10. RunTables' /\ HasRoom'
  BY <1>0, <1>4 DEF RunTables, HasRoom, AtStem, Before
<1>11. PackagesAreKnown'
  BY <1>0, <1>4 DEF PackagesAreKnown, Known0
<1>12. Generations(c)' = Generations(c) \cup {g} /\ \A s \in Stems \ {c} : Generations(s)' = Generations(s)
  BY <1>5, <1>7, <1>8 DEF Generations
<1>13. GenerationsAreSaved'
  <2>1. at' # "tell packages" /\ at' # "sidecar"
    BY <1>4
  <2> SUFFICES ASSUME faults["crash"] = 0, NEW s \in Stems PROVE Saved(s)'
    BY <1>4, <2>1 DEF GenerationsAreSaved
  <2>2. Saved(s)
    BY DEF RestoreInv, GenerationsAreSaved
  <2>3. CASE s # c
    BY <1>1, <1>4, <1>7, <1>12, <2>2, <2>3 DEF Saved, Unsaved
  <2>4. CASE s = c
    BY <1>2, <1>4, <1>5, <1>7, <1>8, <1>12, <2>4 DEF Saved
  <2> QED BY <2>3, <2>4
<1>14. SidecarsFollow'
  <2>1. at' # "sidecar" /\ at' # "tell packages" /\ g > 0
    BY <1>4, <1>5, GenerationsAssumption DEF Numbers
  <2> SUFFICES ASSUME faults["crash"] = 0, ~behind, NEW s \in Stems PROVE Synced(s)'
    BY <1>1, <1>2, <1>4, <2>1 DEF SidecarsFollow
  <2>2. Synced(s)
    BY <1>4 DEF RestoreInv, SidecarsFollow
  <2>3. ~Gone(s) /\ ~Gone(s)' /\ (Untold(s)' <=> Untold(s)) /\ ~Unsaved(s)'
    BY <1>4 DEF Gone, Untold, Unsaved
  <2>4. CASE s # c
    BY <1>1, <1>4, <1>7, <1>12, <2>2, <2>3, <2>4 DEF Synced, Unsaved
  <2>5. CASE s = c
    <3>1. \A n \in Generations(s)' : n <= g
      BY <1>2, <1>5, <1>12, <2>2, <2>5, GenerationsAssumption DEF Synced, Numbers
    <3>2. sidecars'[s][g] = rec
      BY <1>7, <1>8, <2>5, <1>5
    <3> QED BY <1>2, <1>3, <1>4, <2>2, <2>3, <2>5, <3>1, <3>2 DEF Synced
  <2> QED BY <2>4, <2>5
<1> QED BY <1>9, <1>10, <1>11, <1>13, <1>14 DEF RestoreInv

(* An event says that s is there, or is not, as its package does.          *)
LEMMA TellKeeps ==
    ASSUME RestoreInv, NEW s \in Stems, NEW state \in {"PRESENT", "MISSING"},
           lastEvent' = [lastEvent EXCEPT ![s] = state],
           UNCHANGED <<rows, package, sidecars, faults, behind>>,
           IsRun(run'), run'.http = run.http, run'.asked = run.asked, run'.todo = run.todo,
           run'.left = run.left, run'.got = run.got, run'.cur = run.cur,
           \/ at = "reappear" /\ at' = "pick" /\ s = run.cur /\ state = "PRESENT" /\ run' = run
           \/ /\ at = "tell packages" /\ at' = at /\ s \in run.untold
              /\ state = "MISSING" /\ run'.untold = run.untold \ {s}
    PROVE  RestoreInv'
<1>0. IndexTables /\ RunTables /\ HasRoom /\ PackagesAreKnown
  BY DEF RestoreInv
<1>1. lastEvent'[s] = state /\ \A t \in Stems \ {s} : lastEvent'[t] = lastEvent[t]
  BY <1>0 DEF IndexTables
<1>2. IndexTables'
  BY <1>0 DEF IndexTables, InSync
<1>3. RunTables' /\ HasRoom'
  BY <1>0 DEF RunTables, HasRoom, AtStem, Before
<1>4. PackagesAreKnown'
  BY <1>0 DEF PackagesAreKnown, Known0
<1>5. \A t \in Stems : Generations(t)' = Generations(t)
  BY DEF Generations
<1>6. at = "tell packages" /\ faults["crash"] = 0 => Generations(s) # {}
  <2> SUFFICES ASSUME at = "tell packages", faults["crash"] = 0 PROVE Generations(s) # {}
    OBVIOUS
  <2>1. package[s].gen > 0 /\ sidecars[s][package[s].gen] # NoRecord
    BY DEF RestoreInv, GenerationsAreSaved, Saved, Unsaved
  <2>2. package[s].gen \in Numbers
    <3>1. PICK n : n = package[s].gen
      OBVIOUS
    <3>2. n \in 0..MaxGenerations /\ n > 0
      BY <1>0, <2>1, <3>1 DEF HasRoom
    <3> QED BY <3>1, <3>2, InNumbers
  <2> QED BY <2>1, <2>2 DEF Generations
<1>7. GenerationsAreSaved'
  <2> SUFFICES ASSUME faults["crash"] = 0
               PROVE  /\ \A t \in Stems : Saved(t)'
                      /\ at' = "tell packages" => \A t \in run'.untold : t \in Stems /\ package[t].gen > 0
    BY DEF GenerationsAreSaved
  <2>1. \A t \in Stems : Saved(t)
    BY DEF RestoreInv, GenerationsAreSaved
  <2>2. \A t \in Stems : Saved(t)'
    BY <1>1, <1>5, <1>6, <2>1 DEF Saved, Unsaved
  <2> QED BY <2>2 DEF RestoreInv, GenerationsAreSaved
<1>8. SidecarsFollow'
  <2> SUFFICES ASSUME faults["crash"] = 0, ~behind, NEW t \in Stems PROVE Synced(t)'
    BY DEF SidecarsFollow
  <2>1. Synced(t)
    BY DEF RestoreInv, SidecarsFollow
  <2>2. ~Unsaved(t) /\ ~Unsaved(t)' /\ ~Untold(t)'
    BY DEF Unsaved, Untold
  <2>3. Gone(t)' <=> Gone(t) /\ t # s
    BY DEF Gone
  <2>4. CASE t # s
    <3>1. ~Untold(t)
      BY <2>4 DEF Untold
    <3> QED BY <1>1, <1>5, <2>1, <2>2, <2>3, <2>4, <3>1 DEF Synced
  <2>5. CASE t = s
    <3>1. state = "PRESENT" => Untold(t)
      BY <2>5 DEF Untold
    <3>2. state = "MISSING" => Gone(t)
      BY <2>5 DEF Gone
    <3> QED BY <1>0, <1>1, <1>5, <2>1, <2>2, <2>3, <2>5, <3>1, <3>2 DEF Synced, IndexTables, IsPackage
  <2> QED BY <2>4, <2>5
<1> QED BY <1>2, <1>3, <1>4, <1>7, <1>8 DEF RestoreInv

LEMMA TellingKeeps ==
    ASSUME RestoreInv, TellReappeared \/ \E s \in Stems : TellPackage(s)
    PROVE  RestoreInv'
<1>0. RunTables
  BY DEF RestoreInv
<1>1. CASE TellReappeared
  <2>1. run.cur \in Stems
    BY <1>0, <1>1 DEF RunTables, AtStem, TellReappeared
  <2> QED BY <1>0, <1>1, <2>1, TellKeeps DEF RunTables, TellReappeared, index
<1>2. ASSUME NEW s \in Stems, TellPackage(s) PROVE RestoreInv'
  <2>1. PICK r : r = run'
    OBVIOUS
  <2>2. PICK U : U = run.untold \ {s}
    OBVIOUS
  <2>3. r = [run EXCEPT !.untold = U]
    BY <1>2, <2>1, <2>2 DEF TellPackage
  <2>4. /\ IsRun(r) /\ r.http = run.http /\ r.asked = run.asked /\ r.todo = run.todo
        /\ r.left = run.left /\ r.got = run.got /\ r.cur = run.cur /\ r.untold = U
    BY <1>0, <2>3 DEF RunTables, IsRun
  <2> QED BY <1>2, <2>1, <2>2, <2>4, TellKeeps DEF TellPackage, index
<1> QED BY <1>1, <1>2

(* The last transaction of a sync.                                         *)
LEMMA DropPackagesKeeps ==
    ASSUME RestoreInv, DropPackages
    PROVE  RestoreInv'
<1>0. IndexTables /\ RunTables /\ HasRoom /\ PackagesAreKnown
  BY DEF RestoreInv
<1>1. PICK gone : gone = {s \in Stems \ StemsOf(run.asked) : package[s].present}
  OBVIOUS
<1>2. /\ at = "tell paths" /\ at' = "tell packages"
      /\ package' = [s \in Stems |-> [package[s] EXCEPT !.present = @ /\ s \notin gone]]
      /\ run' = [run EXCEPT !.untold = gone]
      /\ UNCHANGED <<rows, sidecars, lastEvent, faults, behind>>
  BY <1>1 DEF DropPackages, files
<1>3. PICK r : r = run'
  OBVIOUS
<1>4. /\ IsRun(r) /\ r.http = run.http /\ r.asked = run.asked /\ r.todo = run.todo
      /\ r.left = run.left /\ r.got = run.got /\ r.cur = run.cur /\ r.untold = gone
  BY <1>0, <1>2, <1>3 DEF RunTables, IsRun
<1>5. \A s \in Stems : /\ IsPackage(package'[s]) /\ package'[s].gen = package[s].gen
                       /\ package'[s].record = package[s].record
                       /\ package'[s].present <=> package[s].present /\ s \notin gone
  <2> SUFFICES ASSUME NEW s \in Stems
               PROVE  /\ IsPackage(package'[s]) /\ package'[s].gen = package[s].gen
                      /\ package'[s].record = package[s].record
                      /\ package'[s].present <=> package[s].present /\ s \notin gone
    OBVIOUS
  <2>1. PICK k : k = package[s]
    OBVIOUS
  <2>2. PICK b \in BOOLEAN : b = (k.present /\ s \notin gone)
    OBVIOUS
  <2>3. IsPackage(k)
    BY <1>0, <2>1 DEF IndexTables
  <2>4. package'[s] = [k EXCEPT !.present = b]
    BY <1>2, <2>1, <2>2
  <2>5. IsPackage(package'[s]) /\ package'[s].gen = k.gen /\ package'[s].record = k.record
    BY <2>3, <2>4 DEF IsPackage
  <2>6. package'[s].present = b
    BY <2>3, <2>4 DEF IsPackage
  <2> QED BY <2>1, <2>2, <2>5, <2>6
<1>6. IndexTables'
  <2>1. package' = [s \in Stems |-> package'[s]]
    BY <1>2
  <2>2. \A s \in Stems : IsPackage(package'[s])
    BY <1>5
  <2>3. at' \in InSync /\ UNCHANGED <<rows, sidecars, lastEvent, faults>>
    BY <1>2 DEF InSync
  <2> QED BY <1>0, <2>1, <2>2, <2>3 DEF IndexTables
<1>7. RunTables' /\ HasRoom'
  <2>1. at' = "tell packages" /\ \A s \in Stems : package'[s].gen = package[s].gen
    BY <1>2, <1>5
  <2>2. at # "idle"
    BY <1>2
  <2>3. RunTables'
    BY <1>0, <1>3, <1>4, <2>1 DEF RunTables, AtStem
  <2>4. run.todo \subseteq Stems
    BY <1>0 DEF RunTables, StemsOf, Paths
  <2>5. HasRoom'
    BY <1>0, <1>3, <1>4, <2>1, <2>2, <2>4 DEF HasRoom, Before
  <2> QED BY <2>3, <2>5
<1>8. PackagesAreKnown'
  <2> SUFFICES ASSUME NEW s \in Stems PROVE Known0(s)'
    BY <1>2 DEF PackagesAreKnown
  <2>1. Known0(s)
    BY <1>0 DEF PackagesAreKnown
  <2>2. CASE package[s].gen = 0
    <3>1. package[s] = NoPackage /\ ~package[s].present
      BY <2>1, <2>2 DEF Known0, NoPackage
    <3>2. PICK k : k = package'[s]
      OBVIOUS
    <3>3. k = [gen |-> k.gen, record |-> k.record, present |-> k.present] /\ k.present \in BOOLEAN
      BY <1>5, <3>2 DEF IsPackage
    <3>4. k.gen = 0 /\ k.record = NoRecord
      BY <1>5, <3>1, <3>2 DEF NoPackage
    <3>5. k.present = FALSE
      BY <1>5, <3>1, <3>2, <3>3
    <3>6. k = NoPackage
      BY <3>3, <3>4, <3>5 DEF NoPackage
    <3> QED BY <3>2, <3>4, <3>6 DEF Known0
  <2>3. CASE package[s].gen # 0
    BY <1>5, <2>1, <2>3 DEF Known0
  <2> QED BY <2>2, <2>3
<1>9. \A s \in Stems : Generations(s)' = Generations(s)
  BY <1>2 DEF Generations
<1>10. \A s \in gone : s \in Stems /\ package[s].gen > 0
  <2> SUFFICES ASSUME NEW s \in gone PROVE s \in Stems /\ package[s].gen > 0
    OBVIOUS
  <2>1. s \in Stems /\ package[s].present
    BY <1>1
  <2>2. package[s] # NoPackage
    BY <2>1 DEF NoPackage
  <2>3. package[s].gen # 0 /\ package[s].gen \in 0..MaxGenerations
    BY <1>0, <2>1, <2>2 DEF PackagesAreKnown, Known0, HasRoom
  <2> QED BY <2>1, <2>3
<1>11. GenerationsAreSaved'
  <2> SUFFICES ASSUME faults["crash"] = 0 PROVE \A s \in Stems : Saved(s)'
    BY <1>2, <1>3, <1>4, <1>5, <1>10 DEF GenerationsAreSaved
  <2>1. \A s \in Stems : Saved(s)
    BY DEF RestoreInv, GenerationsAreSaved
  <2> QED BY <1>2, <1>5, <1>9, <2>1 DEF Saved, Unsaved
<1>12. SidecarsFollow'
  <2> SUFFICES ASSUME faults["crash"] = 0, ~behind, NEW s \in Stems PROVE Synced(s)'
    BY <1>2 DEF SidecarsFollow
  <2>1. Synced(s)
    BY DEF RestoreInv, SidecarsFollow
  <2>2. ~Unsaved(s) /\ ~Unsaved(s)' /\ ~Untold(s) /\ ~Untold(s)' /\ ~Gone(s)
    BY <1>2 DEF Unsaved, Untold, Gone
  <2>3. Gone(s)' <=> s \in gone
    BY <1>2, <1>3, <1>4 DEF Gone
  <2> QED BY <1>2, <1>5, <1>9, <2>1, <2>2, <2>3 DEF Synced
<1> QED BY <1>6, <1>7, <1>8, <1>11, <1>12 DEF RestoreInv

(* The largest generation on file.                                         *)
LEMMA LatestIsThere ==
    ASSUME NEW s \in Stems
    PROVE  /\ Generations(s) = {} => LatestOf(s) = 0
           /\ Generations(s) # {} => /\ LatestOf(s) \in Generations(s)
                                     /\ \A g \in Generations(s) : g <= LatestOf(s)
<1>1. PICK G : G = Generations(s)
  OBVIOUS
<1>2. G \in SUBSET (0..MaxGenerations)
  BY <1>1, GenerationsAssumption DEF Generations, Numbers
<1>3. G # {} => Max(G) \in G /\ \A g \in G : g <= Max(G)
  BY <1>2, GenerationsAssumption, GreatestIsThere
<1> QED BY <1>1, <1>3 DEF LatestOf

(* What a rebuild finds follows from the files.                            *)
LEMMA RebuildKeeps ==
    ASSUME RestoreInv, Rebuild
    PROVE  RestoreInv'
<1>0. IndexTables /\ RunTables /\ HasRoom /\ PackagesAreKnown
  BY DEF RestoreInv
<1>1. at = "idle" /\ UNCHANGED <<run, at, sidecars, lastEvent, faults>>
  BY DEF Rebuild, files
<1>2. CASE UNCHANGED <<rows, package, behind>>
  BY <1>0, <1>1, <1>2, QuietKeeps DEF IndexTables, RunTables, HasRoom, AtStem, Before, Telling
<1>3. CASE /\ rows' = [p \in Paths |-> RebuiltRow(p)]
           /\ package' = [s \in Stems |-> RebuiltPackage(s)] /\ behind' = FALSE
  <2>1. \A s \in Stems :
          /\ Generations(s)' = Generations(s)
          /\ Generations(s) = {} => package'[s] = NoPackage
          /\ Generations(s) # {} =>
               /\ IsPackage(package'[s]) /\ package'[s].gen \in Generations(s)
               /\ \A g \in Generations(s) : g <= package'[s].gen
               /\ package'[s].record = sidecars[s][package'[s].gen]
               /\ package'[s].present <=> lastEvent[s] = "PRESENT"
    <3> SUFFICES ASSUME NEW s \in Stems
                 PROVE
          /\ Generations(s)' = Generations(s)
          /\ Generations(s) = {} => package'[s] = NoPackage
          /\ Generations(s) # {} =>
               /\ IsPackage(package'[s]) /\ package'[s].gen \in Generations(s)
               /\ \A g \in Generations(s) : g <= package'[s].gen
               /\ package'[s].record = sidecars[s][package'[s].gen]
               /\ package'[s].present <=> lastEvent[s] = "PRESENT"
      OBVIOUS
    <3>1. Generations(s)' = Generations(s)
      BY <1>1 DEF Generations
    <3>2. package'[s] = RebuiltPackage(s)
      BY <1>3
    <3>3. PICK g : g = LatestOf(s)
      OBVIOUS
    <3>4. CASE Generations(s) = {}
      BY <3>1, <3>2, <3>4, LatestIsThere DEF RebuiltPackage
    <3>5. CASE Generations(s) # {}
      <4>1. g \in Generations(s) /\ \A n \in Generations(s) : n <= g
        BY <3>3, <3>5, LatestIsThere
      <4>2. g # 0
        BY <4>1, GenerationsAssumption DEF Generations, Numbers
      <4>3. PICK b \in BOOLEAN : b = (lastEvent[s] = "PRESENT")
        OBVIOUS
      <4>4. PICK k : k = package'[s]
        OBVIOUS
      <4>5. k = [gen |-> g, record |-> sidecars[s][g], present |-> b]
        BY <3>2, <3>3, <4>2, <4>3, <4>4 DEF RebuiltPackage
      <4>6. IsPackage(k) /\ k.gen = g /\ k.record = sidecars[s][g]
        BY <4>5 DEF IsPackage
      <4>7. k.present = b
        BY <4>5
      <4> QED BY <3>1, <3>5, <4>1, <4>3, <4>4, <4>6, <4>7
    <3> QED BY <3>4, <3>5
  <2>2. \A s \in Stems : package'[s].gen \in 0..MaxGenerations
    BY <2>1, GenerationsAssumption DEF NoPackage, Generations, Numbers
  <2>3. IndexTables'
    <3>1. \A p \in Paths : RebuiltRow(p) = [content |-> RebuiltRow(p).content, status |-> RebuiltRow(p).status]
      BY DEF RebuiltRow, NoRow
    <3>2. /\ rows' = [p \in Paths |-> rows'[p]]
          /\ \A p \in Paths : rows'[p] = [content |-> rows'[p].content, status |-> rows'[p].status]
      BY <1>3, <3>1
    <3>3. IsPackage(NoPackage)
      BY DEF IsPackage, NoPackage
    <3>4. package' = [s \in Stems |-> package'[s]] /\ \A s \in Stems : IsPackage(package'[s])
      BY <1>3, <2>1, <3>3
    <3> QED BY <1>0, <1>1, <3>2, <3>4 DEF IndexTables
  <2>4. RunTables' /\ HasRoom'
    BY <1>0, <1>1, <2>2 DEF RunTables, HasRoom, AtStem, Before
  <2>5. \A s \in Stems : Generations(s) # {} => package'[s].gen > 0 /\ package'[s].record # NoRecord
    BY <2>1, GenerationsAssumption DEF Generations, Numbers
  <2>6. NoPackage.gen = 0
    BY DEF NoPackage
  <2>7. PackagesAreKnown'
    <3> SUFFICES ASSUME NEW s \in Stems PROVE Known0(s)'
      BY <1>1 DEF PackagesAreKnown
    <3>1. CASE Generations(s) = {}
      BY <2>1, <2>6, <3>1 DEF Known0
    <3>2. CASE Generations(s) # {}
      BY <2>5, <3>2 DEF Known0
    <3> QED BY <3>1, <3>2
  <2>8. GenerationsAreSaved'
    <3> SUFFICES ASSUME faults["crash"] = 0, NEW s \in Stems PROVE Saved(s)'
      BY <1>1 DEF GenerationsAreSaved
    <3>1. Saved(s)
      BY DEF RestoreInv, GenerationsAreSaved
    <3> QED BY <1>1, <2>1, <2>5, <2>6, <3>1 DEF Saved
  <2>9. SidecarsFollow'
    <3> SUFFICES ASSUME NEW s \in Stems PROVE Synced(s)'
      BY <1>1 DEF SidecarsFollow
    <3>1. ~Unsaved(s)' /\ ~Untold(s)' /\ ~Gone(s)'
      BY <1>1 DEF Unsaved, Untold, Gone
    <3> QED BY <1>1, <2>1, <2>6, <3>1 DEF Synced
  <2> QED BY <2>3, <2>4, <2>7, <2>8, <2>9 DEF RestoreInv
<1> QED BY <1>2, <1>3 DEF Rebuild, index

LEMMA LoseIndexKeeps ==
    ASSUME RestoreInv, LoseIndex
    PROVE  RestoreInv'
<1>0. IndexTables /\ RunTables /\ HasRoom /\ PackagesAreKnown
  BY DEF RestoreInv
<1>1. at = "idle" /\ Fault("loss") /\ UNCHANGED <<run, at, sidecars, lastEvent>> /\ behind'
  BY DEF LoseIndex, files
<1>2. rows' = [p \in Paths |-> NoRow] /\ package' = [s \in Stems |-> NoPackage]
  BY DEF LoseIndex
<1>3. IsPackage(NoPackage) /\ NoPackage.gen = 0 /\ NoRow = [content |-> NoRow.content, status |-> NoRow.status]
  BY DEF IsPackage, NoPackage, NoRow
<1>4. faults' \in [DOMAIN Limits -> Nat] /\ (faults'["crash"] = 0 => faults["crash"] = 0)
  <2>1. "loss" \in DOMAIN Limits
    BY DEF Limits
  <2> QED BY <1>0, <1>1, <2>1, FaultsCount DEF IndexTables
<1>5. IndexTables' /\ RunTables'
  BY <1>0, <1>1, <1>2, <1>3, <1>4 DEF IndexTables, RunTables, AtStem
<1>6. HasRoom' /\ PackagesAreKnown'
  BY <1>1, <1>2, <1>3, GenerationsAssumption DEF HasRoom, Before, PackagesAreKnown, Known0
<1>7. GenerationsAreSaved'
  <2> SUFFICES ASSUME faults["crash"] = 0, NEW s \in Stems PROVE Saved(s)'
    BY <1>1, <1>4 DEF GenerationsAreSaved
  <2>1. Saved(s)
    BY DEF RestoreInv, GenerationsAreSaved
  <2>2. Generations(s)' = Generations(s)
    BY <1>1 DEF Generations
  <2> QED BY <1>1, <1>2, <1>3, <2>1, <2>2 DEF Saved
<1>8. SidecarsFollow'
  BY <1>1 DEF SidecarsFollow
<1> QED BY <1>5, <1>6, <1>7, <1>8 DEF RestoreInv

-----------------------------------------------------------------------------
(* What a sync has settled.                                                *)

LEMMA OutOfSync ==
    ASSUME at' \notin {"tell paths", "tell packages"}, at' = "idle" \/ run'.http
    PROVE  SyncInv'
BY DEF SyncInv, Syncs

Asides == {"pick", "sidecar", "reappear", "tell paths", "tell packages"}

(* A sync goes on with nothing new to settle.                              *)
LEMMA SyncGoesOn ==
    ASSUME SyncInv, UNCHANGED <<upstream, rows, package>>,
           run'.http = run.http, run'.asked = run.asked, run'.todo = run.todo,
           run'.left = run.left, run'.failed = run.failed, run'.got = run.got,
           at \in Asides, at' = at \/ (at \in {"sidecar", "reappear"} /\ at' \in {"reappear", "pick"})
    PROVE  SyncInv'
<1>1. Listing' = Listing
  BY DEF Listing
<1>2. at' \in {"tell paths", "tell packages"} => ~run'.http
  BY DEF SyncInv
<1>3. SUFFICES ASSUME Syncs' PROVE (run.asked = Listing /\ RowsSettled /\ GotSettled
                                      /\ PackagesSettled /\ GoneSettled)'
  BY <1>2 DEF SyncInv
<1>4. run.asked = Listing /\ RowsSettled /\ GotSettled /\ PackagesSettled /\ GoneSettled
  BY <1>3 DEF SyncInv, Syncs, Asides
<1>5. RowsSettled'
  BY <1>1, <1>4 DEF RowsSettled, Pending, Current, Asides
<1>6. GotSettled'
  BY <1>1, <1>4 DEF GotSettled, Asides
<1>7. PackagesSettled'
  BY <1>1, <1>4 DEF PackagesSettled, PackageSettled, Before, Asides
<1>8. GoneSettled'
  BY <1>1, <1>4 DEF GoneSettled, Asides
<1> QED BY <1>1, <1>4, <1>5, <1>6, <1>7, <1>8

LEMMA AsidesSync ==
    ASSUME RestoreInv, SyncInv,
           WriteSidecar \/ TellReappeared \/ (\E p \in Paths : TellPath(p)) \/ \E s \in Stems : TellPackage(s)
    PROVE  SyncInv'
<1>0. RunTables
  BY DEF RestoreInv
<1>1. CASE WriteSidecar \/ TellReappeared
  BY <1>1, SyncGoesOn DEF WriteSidecar, TellReappeared, AfterSidecar, index, Asides
<1>2. CASE (\E p \in Paths : TellPath(p)) \/ \E s \in Stems : TellPackage(s)
  <2>1. PICK r : r = run'
    OBVIOUS
  <2>2. PICK U : r = [run EXCEPT !.untold = U]
    BY <1>2, <2>1 DEF TellPath, TellPackage
  <2>3. /\ r.http = run.http /\ r.asked = run.asked /\ r.todo = run.todo
        /\ r.left = run.left /\ r.got = run.got /\ r.failed = run.failed
    BY <1>0, <2>2 DEF RunTables, IsRun
  <2>4. at' = at /\ at \in Asides /\ UNCHANGED <<upstream, rows, package>>
    BY <1>2 DEF TellPath, TellPackage, index, Asides
  <2> QED BY <2>1, <2>3, <2>4, SyncGoesOn
<1> QED BY <1>1, <1>2

(* StartSync and StartHttp.                                                *)
LEMMA StartSettles ==
    ASSUME RestoreInv, StartSync \/ StartHttp
    PROVE  SyncInv'
<1>1. CASE StartSync
  <2>1. PICK L : L = Listing
    OBVIOUS
  <2>2. L \in SUBSET Paths /\ Listing' = L
    BY <1>1, <2>1 DEF StartSync, Begin, Listing
  <2>3. Begin(L, Idle, "pick")
    BY <1>1, <2>1 DEF StartSync
  <2>4. /\ at' = "pick" /\ run'.http = FALSE /\ run'.asked = L /\ run'.todo = StemsOf(L)
        /\ run'.left = {} /\ run'.got = [p \in Paths |-> Absent]
    BY <2>2, <2>3, IdleIsRun, BeginKeeps
  <2>5. \A p \in L : p[1] \in StemsOf(L)
    BY DEF StemsOf
  <2>6. RowsSettled'
    BY <2>2, <2>4, <2>5 DEF RowsSettled
  <2>7. GotSettled'
    BY <2>2, <2>4 DEF GotSettled
  <2>8. PackagesSettled'
    BY <2>2, <2>4 DEF PackagesSettled
  <2>9. GoneSettled'
    BY <2>4 DEF GoneSettled
  <2> QED BY <2>2, <2>4, <2>6, <2>7, <2>8, <2>9 DEF SyncInv
<1>2. CASE StartHttp
  <2>1. PICK A \in SUBSET Paths : Begin(A, [Idle EXCEPT !.http = TRUE, !.left = A], "files")
    BY <1>2 DEF StartHttp
  <2>2. PICK local : local = [Idle EXCEPT !.http = TRUE, !.left = A]
    OBVIOUS
  <2>3. IsRun(local) /\ local.http = TRUE /\ local.left = A /\ local.got = [p \in Paths |-> Absent]
    BY <2>2, IdleIsRun DEF IsRun
  <2>4. at' = "files" /\ run'.http = TRUE
    BY <2>1, <2>2, <2>3, BeginKeeps
  <2> QED BY <2>4, OutOfSync
<1> QED BY <1>1, <1>2

LEMMA PickSettles ==
    ASSUME RestoreInv, SyncInv, NEW s \in Stems, PickStem(s)
    PROVE  SyncInv'
<1>0. RunTables
  BY DEF RestoreInv
<1>1. PICK r : r = run'
  OBVIOUS
<1>2. PICK L : L = IF run.http THEN {} ELSE OfStem(s, run.asked)
  OBVIOUS
<1>3. r = [run EXCEPT !.cur = s, !.todo = @ \ {s}, !.left = L]
  BY <1>1, <1>2 DEF PickStem
<1>4. /\ r.http = run.http /\ r.asked = run.asked /\ r.todo = run.todo \ {s}
      /\ r.left = L /\ r.got = run.got /\ r.cur = s /\ r.failed = run.failed
  BY <1>0, <1>3 DEF RunTables, IsRun
<1>5. at = "pick" /\ at' = (IF run.http THEN "package" ELSE "files") /\ UNCHANGED <<upstream, rows, package>>
  BY DEF PickStem, index
<1>6. CASE run.http
  BY <1>1, <1>4, <1>5, <1>6, OutOfSync
<1>7. CASE ~run.http
  <2>1. run.asked = Listing /\ RowsSettled /\ GotSettled /\ PackagesSettled /\ GoneSettled
    BY <1>5, <1>7 DEF SyncInv, Syncs
  <2>2. Listing' = Listing
    BY <1>5 DEF Listing
  <2>3. \A p : p \in L <=> p \in Listing /\ p[1] = s
    BY <1>2, <1>7, <2>1 DEF OfStem
  <2>4. RowsSettled'
    <3> SUFFICES ASSUME NEW p \in Listing, p[1] \notin run.failed \cup (run.todo \ {s}), ~Pending(p)'
                 PROVE  rows[p] = [content |-> upstream[p], status |-> "PRESENT"]
      BY <1>1, <1>4, <1>5, <2>2 DEF RowsSettled, Current
    <3>1. p \notin L
      BY <1>1, <1>4, <1>5, <1>7 DEF Pending
    <3>2. p[1] # s
      BY <2>3, <3>1
    <3>3. ~Pending(p)
      BY <1>5 DEF Pending
    <3> QED BY <2>1, <3>2, <3>3 DEF RowsSettled, Current
  <2>5. GotSettled'
    BY <1>1, <1>4, <1>5, <1>7, <2>1, <2>2, <2>3 DEF GotSettled, OfStem
  <2>6. PackagesSettled'
    BY <1>1, <1>4, <1>5, <1>7, <2>1, <2>2 DEF PackagesSettled, PackageSettled, Before
  <2>7. GoneSettled'
    BY <1>5, <1>7 DEF GoneSettled
  <2> QED BY <1>1, <1>4, <1>5, <1>7, <2>1, <2>2, <2>4, <2>5, <2>6, <2>7 DEF SyncInv
<1> QED BY <1>6, <1>7

(* A file is ingested, or could not be had.                                *)
LEMMA IngestSettles ==
    ASSUME RestoreInv, SyncInv, NEW p \in Paths, Ingest(p)
    PROVE  SyncInv'
<1>0. RunTables
  BY DEF RestoreInv
<1>1. PICK r : r = run'
  OBVIOUS
<1>2. PICK u : u = upstream[p]
  OBVIOUS
<1>3. PICK g : g = [run.got EXCEPT ![p] = u]
  OBVIOUS
<1>4. r = [run EXCEPT !.file = p, !.left = @ \ {p}, !.got = g]
  BY <1>1, <1>2, <1>3 DEF Ingest
<1>5. /\ r.http = run.http /\ r.asked = run.asked /\ r.todo = run.todo
      /\ r.left = run.left \ {p} /\ r.got = g /\ r.cur = run.cur /\ r.failed = run.failed
      /\ r.file = p
  BY <1>0, <1>4 DEF RunTables, IsRun
<1>6. /\ at = "files" /\ p \in run.left /\ UNCHANGED <<upstream, rows, package>>
      /\ at' = "row" \/ (at' = "files" /\ Known(p))
  BY DEF Ingest, index
<1>7. CASE run.http
  BY <1>1, <1>5, <1>6, <1>7, OutOfSync
<1>8. CASE ~run.http
  <2>1. run.asked = Listing /\ RowsSettled /\ GotSettled /\ PackagesSettled /\ GoneSettled
    BY <1>6, <1>8 DEF SyncInv, Syncs
  <2>2. Listing' = Listing
    BY <1>6 DEF Listing
  <2>3. p \in Listing /\ g[p] = u /\ \A q \in Paths \ {p} : g[q] = run.got[q]
    BY <1>0, <1>3, <1>6, <2>1 DEF RunTables
  <2>4. RowsSettled'
    <3> SUFFICES ASSUME NEW q \in Listing, q[1] \notin run.failed \cup run.todo, ~Pending(q)'
                 PROVE  rows[q] = [content |-> upstream[q], status |-> "PRESENT"]
      BY <1>1, <1>5, <1>6, <2>2 DEF RowsSettled, Current
    <3>1. CASE q = p
      <4>1. at' # "row"
        BY <1>1, <1>5, <3>1 DEF Pending
      <4> QED BY <1>6, <3>1, <4>1 DEF Known
    <3>2. CASE q # p
      <4>1. ~Pending(q)
        BY <1>1, <1>5, <1>6, <3>2 DEF Pending
      <4> QED BY <2>1, <4>1 DEF RowsSettled, Current
    <3> QED BY <3>1, <3>2
  <2>5. GotSettled'
    BY <1>1, <1>2, <1>5, <1>6, <2>1, <2>2, <2>3 DEF GotSettled, OfStem, Listing
  <2>6. PackagesSettled'
    BY <1>1, <1>5, <1>6, <1>8, <2>1, <2>2 DEF PackagesSettled, PackageSettled, Before
  <2>7. GoneSettled'
    BY <1>6 DEF GoneSettled
  <2> QED BY <1>1, <1>5, <1>6, <1>8, <2>1, <2>2, <2>4, <2>5, <2>6, <2>7 DEF SyncInv
<1> QED BY <1>7, <1>8

LEMMA FileFailsSettles ==
    ASSUME RestoreInv, SyncInv, FileFails
    PROVE  SyncInv'
<1>0. RunTables
  BY DEF RestoreInv
<1>1. at = "files" /\ UNCHANGED <<upstream, rows, package>>
  BY DEF FileFails, index
<1>2. CASE Stop
  BY <1>2, OutOfSync DEF Stop
<1>3. CASE ~run.http /\ at' = at /\ run' = [run EXCEPT !.failed = @ \cup {run.cur}, !.left = {}]
  <2>1. PICK r : r = run'
    OBVIOUS
  <2>2. PICK F : F = run.failed \cup {run.cur}
    OBVIOUS
  <2>3. r = [run EXCEPT !.failed = F, !.left = {}]
    BY <1>3, <2>1, <2>2
  <2>4. /\ r.http = run.http /\ r.asked = run.asked /\ r.todo = run.todo
        /\ r.left = {} /\ r.got = run.got /\ r.cur = run.cur /\ r.failed = F
    BY <1>0, <2>3 DEF RunTables, IsRun
  <2>5. run.asked = Listing /\ RowsSettled /\ GotSettled /\ PackagesSettled /\ GoneSettled
    BY <1>1, <1>3 DEF SyncInv, Syncs
  <2>6. Listing' = Listing
    BY <1>1 DEF Listing
  <2>7. RowsSettled'
    <3> SUFFICES ASSUME NEW q \in Listing, q[1] \notin F \cup run.todo
                 PROVE  rows[q] = [content |-> upstream[q], status |-> "PRESENT"]
      BY <1>1, <2>1, <2>4, <2>6 DEF RowsSettled, Current
    <3>1. q \notin run.left
      BY <1>1, <2>2, <2>5 DEF GotSettled, OfStem
    <3>2. ~Pending(q)
      BY <1>1, <3>1 DEF Pending
    <3> QED BY <2>2, <2>5, <3>2 DEF RowsSettled, Current
  <2>8. GotSettled'
    BY <1>1, <1>3, <2>1, <2>2, <2>4, <2>5, <2>6 DEF GotSettled
  <2>9. PackagesSettled'
    <3>1. \A s : ~(Before /\ s = run.cur)' => ~(Before /\ s = run.cur)
      BY <1>1, <1>3, <2>1, <2>4 DEF Before
    <3> QED BY <1>1, <2>1, <2>2, <2>4, <2>5, <2>6, <3>1 DEF PackagesSettled, PackageSettled
  <2>10. GoneSettled'
    BY <1>1, <1>3 DEF GoneSettled
  <2> QED BY <1>1, <1>3, <2>1, <2>4, <2>5, <2>6, <2>7, <2>8, <2>9, <2>10 DEF SyncInv
<1> QED BY <1>2, <1>3 DEF FileFails

LEMMA RecordRowSettles ==
    ASSUME RestoreInv, SyncInv, RecordRow
    PROVE  SyncInv'
<1>0. RunTables /\ IndexTables
  BY DEF RestoreInv
<1>1. at = "row" /\ at' = "files" /\ UNCHANGED <<run, upstream, package>>
  BY DEF RecordRow
<1>2. CASE run.http
  BY <1>1, <1>2, OutOfSync
<1>3. CASE ~run.http
  <2>1. run.asked = Listing /\ RowsSettled /\ GotSettled /\ PackagesSettled /\ GoneSettled
    BY <1>1, <1>3 DEF SyncInv, Syncs
  <2>2. Listing' = Listing
    BY <1>1 DEF Listing
  <2>3. PICK f : f = run.file
    OBVIOUS
  <2>4. f \in Listing /\ f \in Paths /\ run.got[f] = upstream[f]
    BY <1>1, <2>1, <2>3 DEF GotSettled, Listing
  <2>5. rows' = [rows EXCEPT ![f] = [content |-> upstream[f], status |-> "PRESENT"]]
    BY <2>3, <2>4 DEF RecordRow
  <2>6. \A q \in Paths : rows'[q] = IF q = f THEN [content |-> upstream[f], status |-> "PRESENT"] ELSE rows[q]
    BY <1>0, <2>4, <2>5 DEF IndexTables
  <2>7. RowsSettled'
    <3> SUFFICES ASSUME NEW q \in Listing, q[1] \notin run.failed \cup run.todo, ~Pending(q)'
                 PROVE  rows'[q] = [content |-> upstream[q], status |-> "PRESENT"]
      BY <1>1, <2>2 DEF RowsSettled, Current
    <3>1. q \in Paths
      BY DEF Listing
    <3>2. CASE q # f
      <4>1. ~Pending(q)
        BY <1>1, <2>3, <3>2 DEF Pending
      <4> QED BY <2>1, <2>6, <3>1, <3>2, <4>1 DEF RowsSettled, Current
    <3> QED BY <2>6, <3>1, <3>2
  <2>8. GotSettled'
    BY <1>1, <2>1, <2>2 DEF GotSettled, OfStem
  <2>9. PackagesSettled'
    BY <1>1, <2>1, <2>2 DEF PackagesSettled, PackageSettled, Before
  <2>10. GoneSettled'
    BY <1>1 DEF GoneSettled
  <2> QED BY <1>1, <1>3, <2>1, <2>2, <2>7, <2>8, <2>9, <2>10 DEF SyncInv
<1> QED BY <1>2, <1>3

LEMMA FilesDoneSettles ==
    ASSUME RestoreInv, SyncInv, FilesDone
    PROVE  SyncInv'
<1>1. at = "files" /\ run.left = {} /\ UNCHANGED <<run, upstream, rows, package>>
  BY DEF FilesDone, index
<1>2. at' = IF run.http THEN "pick" ELSE "package"
  BY DEF FilesDone
<1>3. CASE run.http
  BY <1>1, <1>2, <1>3, OutOfSync
<1>4. CASE ~run.http
  <2>1. run.asked = Listing /\ RowsSettled /\ GotSettled /\ PackagesSettled /\ GoneSettled
    BY <1>1, <1>4 DEF SyncInv, Syncs
  <2>2. Listing' = Listing
    BY <1>1 DEF Listing
  <2>3. RowsSettled'
    BY <1>1, <2>1, <2>2 DEF RowsSettled, Current, Pending
  <2>4. GotSettled'
    BY <1>1, <1>2, <1>4, <2>1, <2>2 DEF GotSettled, OfStem
  <2>5. PackagesSettled'
    BY <1>1, <1>2, <1>4, <2>1, <2>2 DEF PackagesSettled, PackageSettled, Before
  <2>6. GoneSettled'
    BY <1>2, <1>4 DEF GoneSettled
  <2> QED BY <1>1, <1>2, <1>4, <2>1, <2>2, <2>3, <2>4, <2>5, <2>6 DEF SyncInv
<1> QED BY <1>3, <1>4

(* The package gets what was ingested of its stem.                         *)
LEMMA UpdatePackageSettles ==
    ASSUME RestoreInv, SyncInv, UpdatePackage
    PROVE  SyncInv'
<1>0. RunTables /\ IndexTables
  BY DEF RestoreInv
<1>1. PICK c : c = run.cur
  OBVIOUS
<1>2. PICK r : r = run'
  OBVIOUS
<1>3. PICK rec : rec = Record(c)
  OBVIOUS
<1>4. PICK g, b : /\ run' = [run EXCEPT !.back = b]
                  /\ package' = [package EXCEPT ![c] = [gen |-> g, record |-> rec, present |-> TRUE]]
  BY <1>1, <1>3 DEF UpdatePackage
<1>5. at = "package" /\ at' \in {"sidecar", "reappear", "pick"} /\ UNCHANGED <<upstream, rows>>
  BY DEF UpdatePackage
<1>6. /\ r.http = run.http /\ r.asked = run.asked /\ r.todo = run.todo
      /\ r.left = run.left /\ r.got = run.got /\ r.cur = c /\ r.failed = run.failed
  BY <1>0, <1>1, <1>2, <1>4 DEF RunTables, IsRun
<1>7. CASE run.http
  BY <1>2, <1>5, <1>6, <1>7, OutOfSync
<1>8. CASE ~run.http
  <2>1. run.asked = Listing /\ RowsSettled /\ GotSettled /\ PackagesSettled /\ GoneSettled
    BY <1>5, <1>8 DEF SyncInv, Syncs
  <2>2. Listing' = Listing
    BY <1>5 DEF Listing
  <2>3. c \in Stems
    BY <1>0, <1>1, <1>5 DEF RunTables, AtStem
  <2>4. \A s \in Stems : package'[s] = IF s = c THEN [gen |-> g, record |-> rec, present |-> TRUE] ELSE package[s]
    BY <1>0, <1>4, <2>3 DEF IndexTables
  <2>5. RowsSettled'
    BY <1>2, <1>5, <1>6, <2>1, <2>2 DEF RowsSettled, Current, Pending
  <2>6. GotSettled'
    BY <1>2, <1>5, <1>6, <2>1, <2>2 DEF GotSettled
  <2>7. c \notin run.failed =>
          \A p \in Paths : p[1] = c => run.got[p] = upstream[p]
    BY <1>1, <1>5, <2>1 DEF GotSettled, OfStem, Listing
  <2>8. <<c, "lha">> \in Paths /\ <<c, "readme">> \in Paths
    BY <2>3 DEF Paths, Parts
  <2>9. rec.payload = run.got[<<c, "lha">>] /\ rec.readme = run.got[<<c, "readme">>]
    BY <1>3 DEF Record
  <2>10. PackageSettled(c)'
    BY <1>2, <1>5, <1>6, <2>3, <2>4, <2>7, <2>8, <2>9 DEF PackageSettled
  <2>11. PackagesSettled'
    <3> SUFFICES ASSUME NEW s \in StemsOf(Listing) \ run.todo PROVE PackageSettled(s)'
      BY <1>2, <1>6, <2>2 DEF PackagesSettled
    <3>1. s \in Stems
      BY DEF StemsOf, Listing, Paths
    <3>2. CASE s = c
      BY <2>10, <3>2
    <3>3. CASE s # c
      BY <1>1, <1>2, <1>5, <1>6, <2>1, <2>4, <3>1, <3>3 DEF PackagesSettled, PackageSettled
    <3> QED BY <3>2, <3>3
  <2>12. GoneSettled'
    BY <1>5 DEF GoneSettled
  <2> QED BY <1>2, <1>5, <1>6, <1>8, <2>1, <2>2, <2>5, <2>6, <2>11, <2>12 DEF SyncInv
<1> QED BY <1>7, <1>8

(* mark_missing, and the packages that are dropped after it.               *)
LEMMA MarkMissingSettles ==
    ASSUME RestoreInv, SyncInv, MarkMissing
    PROVE  SyncInv'
<1>0. RunTables /\ IndexTables
  BY DEF RestoreInv
<1>1. PICK gone : gone = {p \in Paths \ run.asked : rows[p].status = "PRESENT"}
  OBVIOUS
<1>2. /\ at = "pick" /\ at' = "tell paths" /\ ~run.http /\ run.todo = {}
      /\ UNCHANGED <<upstream, package>> /\ run' = [run EXCEPT !.untold = gone]
      /\ rows' = [p \in Paths |-> IF p \in gone THEN [rows[p] EXCEPT !.status = "MISSING"] ELSE rows[p]]
  BY <1>1 DEF MarkMissing
<1>3. PICK r : r = run'
  OBVIOUS
<1>4. /\ r.http = run.http /\ r.asked = run.asked /\ r.todo = run.todo
      /\ r.left = run.left /\ r.got = run.got /\ r.cur = run.cur /\ r.failed = run.failed
  BY <1>0, <1>2, <1>3 DEF RunTables, IsRun
<1>5. run.asked = Listing /\ RowsSettled /\ GotSettled /\ PackagesSettled
  BY <1>2 DEF SyncInv, Syncs
<1>6. Listing' = Listing
  BY <1>2 DEF Listing
<1>7. \A p \in Listing : rows'[p] = rows[p]
  BY <1>1, <1>2, <1>5 DEF Listing
<1>8. \A p \in Paths \ Listing : rows'[p].status # "PRESENT"
  <2> SUFFICES ASSUME NEW p \in Paths \ Listing PROVE rows'[p].status # "PRESENT"
    OBVIOUS
  <2>1. CASE p \in gone
    <3>1. PICK row : row = rows[p]
      OBVIOUS
    <3>2. row = [content |-> row.content, status |-> row.status]
      BY <1>0, <3>1 DEF IndexTables
    <3>3. rows'[p] = [row EXCEPT !.status = "MISSING"]
      BY <1>2, <2>1, <3>1
    <3> QED BY <3>2, <3>3
  <2>2. CASE p \notin gone
    BY <1>1, <1>2, <1>5, <2>2
  <2> QED BY <2>1, <2>2
<1>9. RowsSettled'
  BY <1>2, <1>3, <1>4, <1>5, <1>6, <1>7 DEF RowsSettled, Current, Pending
<1>10. GotSettled'
  BY <1>2, <1>3, <1>4, <1>5, <1>6 DEF GotSettled
<1>11. PackagesSettled'
  BY <1>2, <1>3, <1>4, <1>5, <1>6 DEF PackagesSettled, PackageSettled, Before
<1>12. GoneSettled'
  BY <1>2, <1>3, <1>4, <1>6, <1>8 DEF GoneSettled
<1> QED BY <1>2, <1>3, <1>4, <1>5, <1>6, <1>9, <1>10, <1>11, <1>12 DEF SyncInv

LEMMA DropPackagesSettles ==
    ASSUME RestoreInv, SyncInv, DropPackages
    PROVE  SyncInv'
<1>0. RunTables /\ IndexTables
  BY DEF RestoreInv
<1>1. PICK gone : gone = {s \in Stems \ StemsOf(run.asked) : package[s].present}
  OBVIOUS
<1>2. /\ at = "tell paths" /\ at' = "tell packages" /\ UNCHANGED <<upstream, rows>>
      /\ package' = [s \in Stems |-> [package[s] EXCEPT !.present = @ /\ s \notin gone]]
      /\ run' = [run EXCEPT !.untold = gone]
  BY <1>1 DEF DropPackages
<1>3. PICK r : r = run'
  OBVIOUS
<1>4. /\ r.http = run.http /\ r.asked = run.asked /\ r.todo = run.todo
      /\ r.left = run.left /\ r.got = run.got /\ r.cur = run.cur /\ r.failed = run.failed
  BY <1>0, <1>2, <1>3 DEF RunTables, IsRun
<1>5. /\ run.asked = Listing /\ RowsSettled /\ GotSettled /\ PackagesSettled /\ GoneSettled
      /\ ~run.http
  BY <1>2 DEF SyncInv, Syncs
<1>6. Listing' = Listing
  BY <1>2 DEF Listing
<1>7. \A s \in Stems : /\ package'[s].record = package[s].record
                       /\ package'[s].present <=> package[s].present /\ s \notin gone
  <2> SUFFICES ASSUME NEW s \in Stems
               PROVE  /\ package'[s].record = package[s].record
                      /\ package'[s].present <=> package[s].present /\ s \notin gone
    OBVIOUS
  <2>1. PICK k : k = package[s]
    OBVIOUS
  <2>2. PICK b \in BOOLEAN : b = (k.present /\ s \notin gone)
    OBVIOUS
  <2>3. IsPackage(k)
    BY <1>0, <2>1 DEF IndexTables
  <2>4. package'[s] = [k EXCEPT !.present = b]
    BY <1>2, <2>1, <2>2
  <2>5. package'[s].record = k.record
    BY <2>3, <2>4 DEF IsPackage
  <2>6. package'[s].present = b
    BY <2>3, <2>4 DEF IsPackage
  <2> QED BY <2>1, <2>2, <2>5, <2>6
<1>8. StemsOf(Listing) \subseteq Stems
  BY DEF StemsOf, Listing, Paths
<1>9. RowsSettled'
  BY <1>2, <1>3, <1>4, <1>5, <1>6 DEF RowsSettled, Current, Pending
<1>10. GotSettled'
  BY <1>2, <1>3, <1>4, <1>5, <1>6 DEF GotSettled
<1>11. PackagesSettled'
  <2> SUFFICES ASSUME NEW s \in StemsOf(Listing) \ run.todo PROVE PackageSettled(s)'
    BY <1>3, <1>4, <1>6 DEF PackagesSettled
  <2>1. PackageSettled(s)
    BY <1>2, <1>5 DEF PackagesSettled, Before
  <2>2. s \in Stems /\ s \notin gone
    BY <1>1, <1>5, <1>8
  <2>3. package'[s].present /\ package'[s].record = package[s].record
    BY <1>7, <2>1, <2>2 DEF PackageSettled
  <2> QED BY <1>2, <1>3, <1>4, <2>1, <2>3 DEF PackageSettled
<1>12. \A s \in Stems \ StemsOf(Listing) : ~package'[s].present
  BY <1>1, <1>5, <1>7
<1>13. GoneSettled'
  BY <1>2, <1>3, <1>4, <1>5, <1>6, <1>12 DEF GoneSettled
<1> QED BY <1>2, <1>3, <1>4, <1>5, <1>6, <1>9, <1>10, <1>11, <1>13 DEF SyncInv

-----------------------------------------------------------------------------
(* Whatever is done keeps the invariant.                                   *)
LEMMA SourceStep ==
    ASSUME SourceInv, [SourceNext]_sourceVars
    PROVE  SourceInv'
<1>0. RestoreInv /\ SyncInv
  BY DEF SourceInv
<1>1. CASE UNCHANGED sourceVars
  <2>1. UNCHANGED <<upstream, rows, package, sidecars, lastEvent, at, run, faults, behind>>
    BY <1>1 DEF sourceVars, files, index
  <2>2. RestoreInv'
    <3>1. IndexTables' /\ RunTables' /\ HasRoom'
      BY <1>0, <2>1 DEF RestoreInv, IndexTables, RunTables, AtStem, HasRoom, Before
    <3>2. PackagesAreKnown' /\ GenerationsAreSaved'
      BY <1>0, <2>1 DEF RestoreInv, PackagesAreKnown, Known0, GenerationsAreSaved, Saved, Unsaved, Generations
    <3>3. SidecarsFollow'
      BY <1>0, <2>1 DEF RestoreInv, SidecarsFollow, Synced, Unsaved, Untold, Gone, Generations
    <3> QED BY <3>1, <3>2, <3>3 DEF RestoreInv
  <2>3. SyncInv'
    BY <1>0, <2>1 DEF SyncInv, Syncs, Listing, RowsSettled, Pending, Current, GotSettled, OfStem,
       PackagesSettled, PackageSettled, Before, GoneSettled
  <2> QED BY <2>2, <2>3 DEF SourceInv
<1>2. CASE ChangeUpstream \/ LoseIndex \/ Rebuild
  <2>1. at' = "idle"
    BY <1>2 DEF ChangeUpstream, LoseIndex, Rebuild
  <2> QED BY <1>0, <1>2, <2>1, ChangeUpstreamKeeps, LoseIndexKeeps, RebuildKeeps, OutOfSync DEF SourceInv
<1>3. CASE HttpDone \/ FinishSync \/ Crash
  <2>1. at' = "idle"
    BY <1>3 DEF HttpDone, FinishSync, Crash, Stop
  <2> QED BY <1>0, <1>3, <2>1, CommandEndsKeeps, OutOfSync DEF SourceInv
<1>4. CASE StartSync \/ StartHttp
  <2>1. RestoreInv'
    <3>1. CASE StartSync
      <4>1. Listing \in SUBSET Paths
        BY DEF Listing
      <4>2. PICK L \in SUBSET Paths : L = Listing
        BY <4>1
      <4>3. Begin(L, Idle, "pick")
        BY <3>1, <4>2 DEF StartSync
      <4> QED BY <1>0, <4>3, IdleIsRun, BeginKeeps
    <3>2. CASE StartHttp
      <4>1. PICK A \in SUBSET Paths : Begin(A, [Idle EXCEPT !.http = TRUE, !.left = A], "files")
        BY <3>2 DEF StartHttp
      <4>2. PICK local : local = [Idle EXCEPT !.http = TRUE, !.left = A]
        OBVIOUS
      <4>3. IsRun(local) /\ local.http = TRUE /\ local.left = A /\ local.got = [p \in Paths |-> Absent]
        BY <4>2, IdleIsRun DEF IsRun
      <4> QED BY <1>0, <4>1, <4>2, <4>3, BeginKeeps
    <3> QED BY <1>4, <3>1, <3>2
  <2> QED BY <1>0, <1>4, <2>1, StartSettles DEF SourceInv
<1>5. ASSUME NEW s \in Stems, PickStem(s) \/ TellPackage(s) PROVE SourceInv'
  BY <1>0, <1>5, QuietRunKeeps, PickSettles, TellingKeeps, AsidesSync DEF SourceInv
<1>6. ASSUME NEW p \in Paths, Ingest(p) \/ TellPath(p) PROVE SourceInv'
  BY <1>0, <1>6, QuietRunKeeps, IngestSettles, AsidesSync DEF SourceInv
<1>7. CASE RecordRow \/ FilesDone \/ MarkMissing
  BY <1>0, <1>7, QuietRunKeeps, RecordRowSettles, FilesDoneSettles, MarkMissingSettles DEF SourceInv
<1>8. CASE FileFails
  BY <1>0, <1>8, FileFailsKeeps, FileFailsSettles DEF SourceInv
<1>9. CASE UpdatePackage
  BY <1>0, <1>9, UpdatePackageKeeps, UpdatePackageSettles DEF SourceInv
<1>10. CASE WriteSidecar \/ TellReappeared
  BY <1>0, <1>10, WriteSidecarKeeps, TellingKeeps, AsidesSync DEF SourceInv
<1>11. CASE DropPackages
  BY <1>0, <1>11, DropPackagesKeeps, DropPackagesSettles DEF SourceInv
<1> QED
  BY <1>1, <1>2, <1>3, <1>4, <1>5, <1>6, <1>7, <1>8, <1>9, <1>10, <1>11 DEF SourceNext

LEMMA SourceInitially ==
    ASSUME SourceInit
    PROVE  SourceInv
<1>1. at = "idle" /\ run = Idle
  BY DEF SourceInit
<1>2. IndexTables
  <2>1. rows = [p \in Paths |-> NoRow] /\ package = [s \in Stems |-> NoPackage]
    BY DEF SourceInit
  <2>2. IsPackage(NoPackage) /\ NoRow = [content |-> NoRow.content, status |-> NoRow.status]
    BY DEF IsPackage, NoPackage, NoRow
  <2>3. sidecars = [s \in Stems |-> [g \in Numbers |-> NoRecord]] /\ lastEvent = [s \in Stems |-> "PRESENT"]
    BY DEF SourceInit
  <2>4. faults = [kind \in DOMAIN Limits |-> 0]
    BY DEF SourceInit
  <2> QED BY <1>1, <2>1, <2>2, <2>3, <2>4 DEF IndexTables
<1>3. RunTables
  BY <1>1, IdleIsRun DEF RunTables, AtStem, StemsOf
<1>4. \A s \in Stems : package[s] = NoPackage /\ NoPackage.gen = 0
  BY DEF SourceInit, NoPackage
<1>5. \A s \in Stems : Generations(s) = {}
  BY DEF SourceInit, Generations
<1>6. HasRoom /\ PackagesAreKnown
  BY <1>1, <1>4, GenerationsAssumption DEF HasRoom, Before, PackagesAreKnown, Known0
<1>7. GenerationsAreSaved
  BY <1>1, <1>4, <1>5 DEF GenerationsAreSaved, Saved, SourceInit
<1>8. SidecarsFollow
  <2>1. \A s \in Stems : Synced(s)
    BY <1>1, <1>4, <1>5 DEF Synced, Untold, Gone
  <2> QED BY <1>1, <2>1 DEF SidecarsFollow
<1>9. SyncInv
  BY <1>1 DEF SyncInv, Syncs
<1> QED BY <1>2, <1>3, <1>6, <1>7, <1>8, <1>9 DEF SourceInv, RestoreInv

(* Whatever is cut off, lost or rebuilt, a sync settles what it goes over  *)
(* and, without a kill, the sidecars and events follow the packages        *)
(* (acquisition.py; catalogue.py).                                         *)
THEOREM SourceInvariant == SourceSpec => []SourceInv
<1>1. SourceInit => SourceInv
  BY SourceInitially
<1>2. SourceInv /\ [SourceNext]_sourceVars => SourceInv'
  BY SourceStep
<1> QED BY <1>1, <1>2, PTL DEF SourceSpec

(* The files tell of a package what the index does, if no command was      *)
(* killed: the last generation has its sidecar and the last event says     *)
(* whether the package is there.                                           *)
LEMMA FilesKnowPackages ==
    ASSUME SourceInv, at = "idle", faults.crash = 0, ~behind, NEW s \in Stems
    PROVE  RebuiltPackage(s) = package[s]
<1>1. IndexTables /\ HasRoom /\ PackagesAreKnown
  BY DEF SourceInv, RestoreInv
<1>2. Synced(s) /\ Known0(s)
  BY <1>1 DEF SourceInv, RestoreInv, SidecarsFollow, PackagesAreKnown
<1>3. PICK k : k = package[s]
  OBVIOUS
<1>4. IsPackage(k) /\ k.gen \in 0..MaxGenerations
  BY <1>1, <1>3 DEF IndexTables, HasRoom
<1>5. CASE k.gen = 0
  <2>1. Generations(s) = {}
    BY <1>2, <1>3, <1>5, GenerationsAssumption DEF Synced, Generations, Numbers
  <2> QED BY <1>2, <1>3, <1>5, <2>1, LatestIsThere DEF RebuiltPackage, Known0
<1>6. CASE k.gen # 0
  <2>1. PICK g : g = k.gen
    OBVIOUS
  <2>2. g \in 0..MaxGenerations /\ g > 0
    BY <1>4, <1>6, <2>1, GenerationsAssumption
  <2>3. g \in Numbers
    BY <2>2, InNumbers
  <2>4. sidecars[s][g] = k.record /\ k.record # NoRecord
    BY <1>2, <1>3, <2>1, <2>2 DEF Synced, Unsaved, Known0
  <2>5. g \in Generations(s) /\ \A n \in Generations(s) : n <= g
    BY <1>2, <1>3, <2>1, <2>3, <2>4 DEF Synced, Generations
  <2>6. PICK m : m = LatestOf(s)
    OBVIOUS
  <2>7. m \in Generations(s) /\ g <= m
    BY <2>5, <2>6, LatestIsThere
  <2>8. m <= g /\ m \in Nat
    BY <2>5, <2>7, GenerationsAssumption DEF Generations, Numbers
  <2>9. m = g
    BY <2>2, <2>7, <2>8, GenerationsAssumption
  <2>10. PICK b \in BOOLEAN : b = (lastEvent[s] = "PRESENT")
    OBVIOUS
  <2>11. k.present <=> lastEvent[s] = "PRESENT"
    BY <1>2, <1>3, <2>1, <2>2 DEF Synced, Untold, Gone
  <2>12. k.present = b
    BY <1>4, <2>10, <2>11 DEF IsPackage
  <2>13. RebuiltPackage(s) = [gen |-> g, record |-> k.record, present |-> b]
    BY <2>2, <2>4, <2>6, <2>9, <2>10 DEF RebuiltPackage
  <2> QED BY <1>3, <1>4, <2>1, <2>12, <2>13 DEF IsPackage
<1> QED BY <1>5, <1>6

(* As long as no command was killed, a rebuild raises exactly if a package *)
(* of the index lacks a half, and otherwise gives every package back as    *)
(* the index has it (_package, sync_aminet; Catalogue._package_state).     *)
THEOREM RebuildsRestorePackages == SourceSpec => []RebuildRestoresPackages
<1>1. SourceInv => RebuildRestoresPackages
  <2> SUFFICES ASSUME SourceInv, at = "idle", faults.crash = 0, ~behind
               PROVE  /\ \A s \in Stems : RebuiltPackage(s) = package[s]
                      /\ Raises <=> \E s \in Stems :
                            package[s].gen > 0 /\ LacksHalf(package[s].record)
    BY DEF RebuildRestoresPackages
  <2>1. \A s \in Stems : RebuiltPackage(s) = package[s]
    BY FilesKnowPackages
  <2>2. ASSUME NEW s \in Stems
        PROVE  (LatestOf(s) > 0 /\ LacksHalf(sidecars[s][LatestOf(s)]))
                <=> (package[s].gen > 0 /\ LacksHalf(package[s].record))
    <3>1. PICK m : m = LatestOf(s)
      OBVIOUS
    <3>2. PICK r : r = sidecars[s][m]
      OBVIOUS
    <3>3. PICK k : k = package[s]
      OBVIOUS
    <3>4. m \in Nat
      <4>1. m = 0 \/ m \in Generations(s)
        BY <3>1, LatestIsThere
      <4> QED BY <4>1, GenerationsAssumption DEF Generations, Numbers
    <3>a. k = IF m = 0 THEN NoPackage
              ELSE [gen |-> m, record |-> r, present |-> lastEvent[s] = "PRESENT"]
      BY <2>1, <3>1, <3>2, <3>3, Zenon DEF RebuiltPackage
    <3>5. CASE m = 0
      <4>1. k.gen = 0
        BY <3>a, <3>5 DEF NoPackage
      <4> QED BY <3>1, <3>3, <3>5, <4>1
    <3>6. CASE m # 0
      <4>1. k.gen = m /\ k.record = r
        BY <3>a, <3>6
      <4> QED BY <3>1, <3>2, <3>3, <4>1
    <3> QED BY <3>5, <3>6
  <2> QED BY <2>1, <2>2 DEF Raises
<1> QED BY <1>1, SourceInvariant, PTL

(* A sync that finishes leaves an index that agrees with the listing,      *)
(* whatever earlier commands and rebuilds had made of it (sync_aminet,     *)
(* _package, mark_missing).                                                *)
THEOREM FinishedSyncsAgree == SourceSpec => FinishedSyncAgrees
<1>1. SourceInv /\ at = "tell packages" => Agreement
  <2> SUFFICES ASSUME SourceInv, at = "tell packages" PROVE Agreement
    OBVIOUS
  <2>1. /\ run.asked = Listing /\ run.todo = {} /\ RowsSettled /\ PackagesSettled /\ GoneSettled
    BY DEF SourceInv, SyncInv, Syncs, GoneSettled
  <2>2. \A p \in Listing : p[1] \notin run.failed => rows[p] = [content |-> upstream[p], status |-> "PRESENT"]
    BY <2>1 DEF RowsSettled, Pending, Current
  <2>3. \A s \in StemsOf(Listing) : PackageSettled(s)
    BY <2>1 DEF PackagesSettled, Before
  <2>4. StemsOf(Listing) \subseteq Stems
    BY DEF StemsOf, Listing, Paths
  <2>5. \A s \in Stems : package[s].present <=> s \in StemsOf(Listing)
    BY <2>1, <2>3 DEF GoneSettled, PackageSettled
  <2> QED BY <2>1, <2>2, <2>3, <2>5 DEF Agreement, GoneSettled, PackageSettled
<1>2. SourceInv /\ [SourceNext]_sourceVars
        => [at = "tell packages" /\ run.untold = {} /\ UNCHANGED faults => Agreement]_at
  BY <1>1
<1> QED BY <1>2, SourceInvariant, PTL DEF SourceSpec, FinishedSyncAgrees
=============================================================================
