--------------------------- MODULE MCMediaCapture ---------------------------
(***************************************************************************)
(* Model values for checking MediaCapture with PhysicalRegistry, and the   *)
(* IdentityCatalogue that their links are written to.                      *)
(***************************************************************************)
EXTENDS MediaCapture, IdentityCatalogue

CONSTANTS m1, e1, e2, o1, o2

Claim(subject, type, object) == [subject |-> subject, type |-> type, object |-> object, evidence |-> "e"]
Asked == {Claim(o1, "DERIVED_FROM", o2), Claim(o2, "REPRESENTATION_OF", "work"),
          Claim("work", "RELEASE_OF_WORK", o1), Claim(o1, "CONTAINS", o2),
          Claim(o1, "DERIVED_FROM", o1)}
Works == {[id |-> "work", file |-> "work", name |-> n] : n \in {"name", "other"}}

(* The three share no variable: a behaviour of one is explored with the    *)
(* others at rest.                                                         *)
Unregistered == entries = 0
Uncaptured   == jobs = <<>> /\ sessions = 0
Unidentified == commands = 0 /\ \A o \in Objects : known[o] = 0

MediaInit == Init /\ IdentityInit
MediaNext ==
    \/ Unregistered /\ Unidentified /\ CaptureNext /\ UNCHANGED <<registryVars, identityVars>>
    \/ Uncaptured /\ Unidentified /\ RegistryNext /\ UNCHANGED <<captureVars, identityVars>>
    \/ Unregistered /\ Uncaptured /\ IdentityNext /\ UNCHANGED vars
MediaSpec == MediaInit /\ [][MediaNext]_<<vars, identityVars>>
=============================================================================
