--------------------------- MODULE ObjectRegistry ---------------------------
(***************************************************************************)
(* What Archive.ingest promises its callers, without files, tables, locks  *)
(* or rebuilds: an object, once registered, keeps its identity for ever;   *)
(* its parent was registered before it; and an ingest that returned is     *)
(* about a registered object whose parent is the one the caller asked for. *)
(***************************************************************************)
EXTENDS FiniteSets

CONSTANTS Contents, None

VARIABLES
    identity,  \* per content: its registered identity, or None
    returned   \* <<content, parent>> of the ingests that returned

Registered(id, c) == id[c] # None

Init ==
    /\ identity = [c \in Contents |-> None]
    /\ returned = {}

(* Objects become registered; nothing registered changes or disappears.    *)
Register ==
    /\ identity' # identity
    /\ \A c \in Contents : Registered(identity, c) => identity'[c] = identity[c]
    /\ \A c \in Contents :
          (Registered(identity', c) /\ identity'[c].parent # None)
             => Registered(identity', identity'[c].parent)
    /\ UNCHANGED returned

(* An ingest returns; None as parent asks for nothing.                     *)
Return(c, p) ==
    /\ Registered(identity, c)
    /\ p # None => identity[c].parent = p
    /\ returned' = returned \cup {<<c, p>>}
    /\ UNCHANGED identity

Next == Register \/ \E c \in Contents, p \in Contents \cup {None} : Return(c, p)

Spec == Init /\ [][Next]_<<identity, returned>>
=============================================================================
