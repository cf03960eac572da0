---------------------------- MODULE HttpTransfer ----------------------------
(***************************************************************************)
(* One acquisition of a remote file by acquisition.py: acquire_http with   *)
(* its resumable .part file, or acquire_ftp, which starts over each time,  *)
(* down to ingest_completed.                                               *)
(*                                                                         *)
(* A file is a sequence of blocks; block i of version v reads v, so a part *)
(* that was continued after upstream changed is a sequence of mixed        *)
(* versions.  A checksum or a size is that of the version upstream had     *)
(* when the operator asked.  Redirects, rate limits and events are left    *)
(* out; Archive.ingest is one step.                                        *)
(***************************************************************************)
EXTENDS Naturals, Sequences

CONSTANTS
    Items,    \* remote paths of one source, numbered in the order of a job
    Changing, \* those that upstream may replace
    Size,     \* Size[v]: blocks of version v; its domain is 1..n
    Retries,  \* retries of the source
    Checks    \* what an operator may ask to be checked

Versions == DOMAIN Size
ASSUME TransferAssumption ==
    /\ Items \subseteq Nat \ {0} /\ Retries \in Nat
    /\ Size \in Seq(Nat \ {0}) /\ Size # <<>> /\ Checks \subseteq {"none", "size", "sha256"}

VARIABLES
    transport, \* of the source, never changed
    remote,    \* version upstream has of each item
    part,      \* the blocks in the .part file
    complete,  \* the blocks in the .complete file
    archived,  \* what was ingested for an item, how checked, and at which
               \* upstream version
    pc,        \* next step of the process
    req        \* the acquisition in hand: its item, which of expected_size and
               \* expected_sha256 is given, the version that is of, attempts
               \* that failed, and how it ended

transferVars == <<transport, remote, part, complete, archived, pc, req>>

NoRequest == [item |-> 0, check |-> "none", goal |-> 1, attempt |-> 0, outcome |-> "none"]

Whole(v)  == [b \in 1..Size[v] |-> v]
Has(i)    == \E a \in archived : a.item = i
Transfers == {"request", "restart", "check", "ingest"}

TransferInit ==
    /\ transport \in {"http", "ftp"}
    /\ remote = [i \in Items |-> 1]
    /\ part = [i \in Items |-> <<>>]
    /\ complete = <<>>
    /\ archived = {}
    /\ pc = "idle"
    /\ req = NoRequest

(* Upstream replaces a file, also while it is being transferred.           *)
ChangeRemote(i) ==
    /\ i \in Changing /\ remote[i] + 1 \in Versions
    /\ remote' = [remote EXCEPT ![i] = @ + 1]
    /\ UNCHANGED <<transport, part, complete, archived, pc, req>>

(* The entry of acquire_http and acquire_ftp.                              *)
Acquire(i, c) ==
    /\ req' = [NoRequest EXCEPT !.item = i, !.check = c, !.goal = remote[i]]
    /\ pc' = "request"
    /\ UNCHANGED <<transport, remote, part, complete, archived>>

Return(result) == pc' = "returned" /\ req' = [req EXCEPT !.outcome = result]

LastAttempt == req.attempt = Retries

(* The handler of OSError, URLError and IntegrityError; FTP has no retry.  *)
AttemptFails ==
    IF transport = "ftp" \/ LastAttempt THEN Return("failed")
    ELSE pc' = "request" /\ req' = [req EXCEPT !.attempt = @ + 1]

(* The .part file of an FTP transfer is unlinked at the end.               *)
Kept(blocks) == IF transport = "ftp" THEN <<>> ELSE blocks

(* No connection, an error status, 416 because the part is as long as the  *)
(* file already, or an invalid Content-Range.                              *)
RequestFails ==
    /\ pc \in {"request", "restart"}
    /\ part' = [part EXCEPT ![req.item] = Kept(@)]
    /\ AttemptFails
    /\ UNCHANGED <<transport, remote, complete, archived>>

(* _check_space raises a RabError, which no attempt handles.               *)
NoSpace ==
    /\ pc \in {"request", "restart"}
    /\ part' = [part EXCEPT ![req.item] = Kept(@)]
    /\ Return("failed")
    /\ UNCHANGED <<transport, remote, complete, archived>>

\* Mutation: what a server that ignores Range sends is appended.
Restarted_Append(blocks) == blocks
Restarted(blocks) == <<>>

(* The server ignores Range: the part is unlinked and the request repeated.*)
RangeIgnored ==
    /\ pc = "request" /\ transport = "http" /\ part[req.item] # <<>>
    /\ part' = [part EXCEPT ![req.item] = Restarted(@)]
    /\ pc' = "restart"
    /\ UNCHANGED <<transport, remote, complete, archived, req>>

(* The response is streamed to the part, from its end on with 206 and from *)
(* the start without Range or by FTP.  A connection that closes early ends *)
(* an HTTP stream like the end of the file; other errors raise.            *)
Received(had, v, n) == had \o [k \in 1..n |-> v]
Stream ==
    LET had == IF transport = "ftp" THEN <<>> ELSE part[req.item]
        v   == remote[req.item]
        rest == IF pc = "restart" THEN Size[v] ELSE Size[v] - Len(had)
    IN  /\ pc \in {"request", "restart"}
        /\ had = <<>> \/ pc = "restart" \/ Len(had) < Size[v]
        /\ \E n \in 0..rest :
              \/ /\ transport = "ftp" => n = rest
                 /\ part' = [part EXCEPT ![req.item] = Received(had, v, n)]
                 /\ pc' = "check"
                 /\ UNCHANGED req
              \/ /\ part' = [part EXCEPT ![req.item] = Kept(Received(had, v, n))]
                 /\ AttemptFails
        /\ UNCHANGED <<transport, remote, complete, archived>>

SizeMismatch ==
    /\ pc = "check"
    /\ req.check = "size" /\ Len(part[req.item]) # Size[req.goal]
    /\ part' = [part EXCEPT ![req.item] = Kept(@)]
    /\ AttemptFails
    /\ UNCHANGED <<transport, remote, complete, archived>>

(* os.replace(partial, complete).                                          *)
Promote ==
    /\ pc = "check"
    /\ req.check = "size" => Len(part[req.item]) = Size[req.goal]
    /\ complete' = part[req.item]
    /\ part' = [part EXCEPT ![req.item] = <<>>]
    /\ pc' = "ingest"
    /\ UNCHANGED <<transport, remote, archived, req>>

(* ingest_completed; .complete is unlinked however it ends.                *)
ChecksumMismatch ==
    /\ pc = "ingest"
    /\ req.check = "sha256" /\ complete # Whole(req.goal)
    /\ complete' = <<>>
    /\ AttemptFails
    /\ UNCHANGED <<transport, remote, part, archived>>

IngestCompleted ==
    /\ pc = "ingest"
    /\ req.check = "sha256" => complete = Whole(req.goal)
    /\ archived' = archived \cup {[item |-> req.item, blocks |-> complete, check |-> req.check,
                                   upstream |-> remote[req.item]]}
    /\ complete' = <<>>
    /\ Return("ok")
    /\ UNCHANGED <<transport, remote, part>>

TransferStep ==
    \/ RequestFails \/ NoSpace \/ RangeIgnored \/ Stream
    \/ SizeMismatch \/ Promote \/ ChecksumMismatch \/ IngestCompleted

(* What is archived under a checksum is one whole version.  While upstream *)
(* stands still, everything archived is the beginning of its file, whatever*)
(* was cut off, retried, resumed or restarted on the way, and all of it if *)
(* a size was given.  (acquire_http, _stream_response, acquire_ftp.)       *)
TransferExact == \A a \in archived :
    /\ a.check = "sha256" => \E v \in Versions : a.blocks = Whole(v)
    /\ a.upstream = 1 =>
          /\ Len(a.blocks) <= Size[1] /\ a.blocks = SubSeq(Whole(1), 1, Len(a.blocks))
          /\ a.check = "size" => a.blocks = Whole(1)
=============================================================================
