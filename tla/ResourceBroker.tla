--------------------------- MODULE ResourceBroker ---------------------------
(***************************************************************************)
(* ResourceBroker of broker.py: definitions of resources and generations   *)
(* of sets of them, kept as JSON sidecars that should never change; an     *)
(* index in SQLite that every command rebuilds from the sidecars; pins,    *)
(* which quote a definition's objects; and workspaces, into which objects  *)
(* are copied for a consumer.                                              *)
(*                                                                         *)
(* A definition is its id, its objects with the names they get in a        *)
(* workspace, and the resources it needs.  Search, authorities, malware    *)
(* and rights policies decide who is refused and are left out.             *)
(***************************************************************************)
EXTENDS Naturals, Sequences, FiniteSets, FiniteSetsExt

CONSTANTS
    Operators,      \* concurrent commands
    Definitions,    \* what operators may ask to register
    Packages,       \* resource ids that stand for catalogued packages
    PayloadOf,      \* package |-> its object in each generation
    Sets,           \* set ids
    Contents,       \* the contents a set may be given
    Objects,        \* archived contents
    FileOf,         \* the sidecar and workspace name of an id, not injective
    MaxGenerations, \* bound on the generations of a set and of a package
    MaxCrashes, MaxLosses, MaxTouches \* bounds on kills, index losses, consumer writes

None == [id |-> "none", objects |-> <<>>, needs |-> {}]
Own  == "own bytes of the consumer"
Names == {FileOf[x] : x \in DOMAIN FileOf}
SetFiles == Names \X (1..MaxGenerations)

(* Whatever is registered has a name as a file.                            *)
ASSUME IdsAssumption ==
    /\ {d.id : d \in Definitions} \cup Packages \cup Sets \subseteq DOMAIN FileOf \ {None.id}
    /\ MaxGenerations \in Nat

VARIABLES
    definitions, \* resource sidecars: file |-> definition
    sets,        \* set sidecars: file |-> [set, generation, contents]
    unchecked,   \* history: what was registered while the SQLite file was missing
    index,       \* the rows rebuilt from both, if the file is there
    archived,    \* objects in the archive
    latest,      \* package |-> latest generation in the catalogue
    pins,        \* manifests handed out: resource and its objects
    workspace,   \* root |-> file name |-> object, as far as they exist
    delivered,   \* results still standing: [root, name, object]
    pc, cmd,     \* per operator: next step and local variables
    faults       \* crashes, losses and touches so far

sidecars == <<definitions, sets, unchecked>>
vars == <<sidecars, index, archived, latest, pins, workspace, delivered, pc, cmd, faults>>

(* def: definition to register; set: generation to write; root, todo,      *)
(* done: the workspace, the objects to do and the outputs so far.          *)
Idle == [def |-> None, set |-> [set |-> "none", generation |-> 0, contents |-> {}],
         root |-> "none", todo |-> <<>>, done |-> {}]
NoSet == Idle.set
Limits == [crash |-> MaxCrashes, loss |-> MaxLosses, touch |-> MaxTouches]
Fault(kind) == faults[kind] < Limits[kind] /\ faults' = [faults EXCEPT ![kind] = @ + 1]

Become(p, step, local) == pc' = [pc EXCEPT ![p] = step] /\ cmd' = [cmd EXCEPT ![p] = local]
Finish(p) == Become(p, "idle", Idle)

(* rebuild() and, through it, initialize(): rows are what the files say.   *)
Rows(defs, gens) ==
    [resources |-> {defs[f] : f \in DOMAIN defs} \ {None},
     sets      |-> {gens[f] : f \in DOMAIN gens} \ {NoSet},
     there     |-> TRUE]
Missing == [resources |-> {}, sets |-> {}, there |-> FALSE]
Rebuilt == index' = Rows(definitions, sets)
Shown(id) == {d \in Rows(definitions, sets).resources : d.id = id}

Init ==
    /\ definitions = [f \in Names |-> None]
    /\ sets = [f \in SetFiles |-> NoSet]
    /\ unchecked = {} /\ index = Rows(definitions, sets)
    /\ archived = {} /\ pins = {} /\ delivered = {}
    /\ latest = [k \in Packages |-> 0]
    /\ workspace = [r \in Names |-> [n \in {} |-> Own]]
    /\ pc = [p \in Operators |-> "idle"]
    /\ cmd = [p \in Operators |-> Idle]
    /\ faults = [kind \in DOMAIN Limits |-> 0]

-----------------------------------------------------------------------------
(* The archive and the catalogue go on meanwhile.                          *)
Preserve(o) ==
    /\ o \notin archived /\ archived' = archived \cup {o}
    /\ UNCHANGED <<sidecars, index, latest, pins, workspace, delivered, pc, cmd, faults>>

NewGeneration(k) ==
    /\ latest[k] < MaxGenerations /\ latest' = [latest EXCEPT ![k] = @ + 1]
    /\ UNCHANGED <<sidecars, index, archived, pins, workspace, delivered, pc, cmd, faults>>

-----------------------------------------------------------------------------
(* _check_cycles: the candidate's needs replace what is on file, and what  *)
(* is reached from them (is in every set that holds them and the needs of  *)
(* its members) must not be the candidate.                                 *)
Nodes(defs) == {d.id : d \in defs} \cup UNION {d.needs : d \in defs}
Closed(S, defs) == \A d \in defs : d.id \in S => d.needs \subseteq S
NeedsItself(d, defs) ==
    \A S \in SUBSET Nodes(defs) : d.needs \subseteq S /\ Closed(S, defs) => d.id \in S
Cyclic(d, defs) == NeedsItself(d, {e \in defs : e.id # d.id} \cup {d})

(* The file of the id holds another definition.                            *)
\* Mutation: the file is written anew.
Taken_Never(d) == FALSE
Taken(d) == definitions[FileOf[d.id]] \notin {None, d}

(* register(): the graph is read, then whether the file exists; a file     *)
(* that holds another definition is refused and an equal one is kept.      *)
(* Where the SQLite file is missing the graph is that of the candidate     *)
(* alone, and the index is rebuilt only after the write or the comparison. *)
Known(there) == IF there THEN Rows(definitions, sets).resources ELSE {}
RegisterOver(p, d, there) ==
    LET equal == definitions[FileOf[d.id]] = d  cyclic == Cyclic(d, Known(there)) IN
    /\ pc[p] = "idle"
    /\ index' = IF there \/ (equal /\ ~cyclic) THEN Rows(definitions, sets) ELSE index
    /\ IF cyclic \/ Taken(d) \/ equal
         THEN UNCHANGED <<unchecked, pc, cmd>>
         ELSE /\ Become(p, "define", [Idle EXCEPT !.def = d])
              /\ unchecked' = IF there THEN unchecked \ {d} ELSE unchecked \cup {d}
    /\ UNCHANGED <<definitions, sets, archived, latest, pins, workspace, delivered, faults>>
Register(p, d) == RegisterOver(p, d, index # Missing)

Define(p) ==
    /\ pc[p] = "define"
    /\ definitions' = [definitions EXCEPT ![FileOf[cmd[p].def.id]] = cmd[p].def]
    /\ Become(p, "rebuild", Idle)
    /\ UNCHANGED <<sets, unchecked, index, archived, latest, pins, workspace, delivered, faults>>

(* register_package() initializes, which makes the index, and snapshots    *)
(* the latest generation; one object stands for payload and readme.        *)
(* search() does it for packages not yet known.                            *)
Generation(k) == [id |-> k, objects |-> <<[name |-> "payload", object |-> PayloadOf[k][latest[k]]]>>, needs |-> {}]
RegisterPackage(p, k) == latest[k] > 0 /\ RegisterOver(p, Generation(k), TRUE)

(* define_set(): the largest generation in the index plus one; the file is *)
(* written whether it exists or not.                                       *)
\* Mutation: the index is not brought up to date first.
Generations_Stale(s) == {g.generation : g \in {g \in index.sets : g.set = s}}
Generations(s) == {g.generation : g \in {g \in Rows(definitions, sets).sets : g.set = s}}
DefineSet(p, s, contents) ==
    LET next == Max(Generations(s) \cup {0}) + 1 IN
    /\ pc[p] = "idle" /\ next <= MaxGenerations /\ Rebuilt
    /\ Become(p, "define set",
              [Idle EXCEPT !.set = [set |-> s, generation |-> next, contents |-> contents]])
    /\ UNCHANGED <<sidecars, archived, latest, pins, workspace, delivered, faults>>

WriteSet(p) ==
    LET value == cmd[p].set IN
    /\ pc[p] = "define set"
    /\ sets' = [sets EXCEPT ![<<FileOf[value.set], value.generation>>] = value]
    /\ Become(p, "rebuild", Idle)
    /\ UNCHANGED <<definitions, unchecked, index, archived, latest, pins, workspace, delivered,
                   faults>>

Rebuild(p) ==
    /\ pc[p] = "rebuild" /\ Rebuilt /\ Finish(p)
    /\ UNCHANGED <<sidecars, archived, latest, pins, workspace, delivered, faults>>

-----------------------------------------------------------------------------
(* resolve(): a definition all of whose objects are in the archive.        *)
ObjectsOf(d) == {d.objects[i].object : i \in DOMAIN d.objects}
Resolved(id) == {d \in Shown(id) : d.objects # <<>> /\ ObjectsOf(d) \subseteq archived}

Pin(p, id) ==
    /\ pc[p] = "idle" /\ Rebuilt
    /\ \E d \in Resolved(id) : pins' = pins \cup {[resource |-> id, objects |-> ObjectsOf(d)]}
    /\ UNCHANGED <<sidecars, archived, latest, workspace, delivered, pc, cmd, faults>>

(* materialize(): the workspace is named after the id.                     *)
Materialize(p, id) ==
    /\ pc[p] = "idle" /\ Rebuilt
    /\ \E d \in Resolved(id) :
          Become(p, "check", [Idle EXCEPT !.root = FileOf[id], !.todo = d.objects])
    /\ UNCHANGED <<sidecars, archived, latest, pins, workspace, delivered, faults>>

Output(root, item) == [root |-> root, name |-> item.name, object |-> item.object]
Advance(local) == [local EXCEPT !.todo = Tail(@),
                    !.done = @ \cup {Output(local.root, Head(local.todo))}]
\* Mutation: a file in the way is replaced.
Free_Always(files, name) == TRUE
Free(files, name) == name \notin DOMAIN files

(* An equal file is reused, another one is a collision, and the copy is    *)
(* moved into place after the check.                                       *)
Check(p) ==
    LET local == cmd[p]  files == workspace[local.root]  item == Head(local.todo) IN
    /\ pc[p] = "check" /\ local.todo # <<>>
    /\ \/ /\ item.name \in DOMAIN files /\ files[item.name] = item.object
          /\ Become(p, "check", Advance(local))
       \/ /\ ~(item.name \in DOMAIN files /\ files[item.name] = item.object)
          /\ IF Free(files, item.name) THEN Become(p, "copy", local) ELSE Finish(p)
    /\ UNCHANGED <<sidecars, index, archived, latest, pins, workspace, delivered, faults>>

Put(files, item) ==
    [n \in DOMAIN files \cup {item.name} |-> IF n = item.name THEN item.object ELSE files[n]]
Copy(p) ==
    LET local == cmd[p]  item == Head(local.todo) IN
    /\ pc[p] = "copy"
    /\ workspace' = [workspace EXCEPT ![local.root] = Put(@, item)]
    /\ Become(p, "check", Advance(local))
    /\ UNCHANGED <<sidecars, index, archived, latest, pins, delivered, faults>>

(* The event and the result, which says PASS for every output.             *)
Deliver(p) ==
    /\ pc[p] = "check" /\ cmd[p].todo = <<>>
    /\ delivered' = delivered \cup cmd[p].done
    /\ Rebuilt /\ Finish(p)
    /\ UNCHANGED <<sidecars, archived, latest, pins, workspace, faults>>

-----------------------------------------------------------------------------
(* The consumer works in its workspace; what it wrote is no longer the     *)
(* broker's.                                                               *)
Except(outputs, r, n) == {d \in outputs : d.root # r \/ d.name # n}
Touch(r) ==
    /\ Fault("touch")
    /\ \E n \in DOMAIN workspace[r] :
         /\ workspace[r][n] # Own
         /\ workspace' = [workspace EXCEPT ![r][n] = Own]
         /\ delivered' = Except(delivered, r, n)
         /\ cmd' = [p \in Operators |-> [cmd[p] EXCEPT !.done = Except(@, r, n)]]
    /\ UNCHANGED <<sidecars, index, archived, latest, pins, pc>>

LoseIndex ==
    /\ Fault("loss") /\ index' = Missing
    /\ UNCHANGED <<sidecars, archived, latest, pins, workspace, delivered, pc, cmd>>

Crash(p) ==
    /\ pc[p] # "idle" /\ Fault("crash") /\ Finish(p)
    /\ UNCHANGED <<sidecars, index, archived, latest, pins, workspace, delivered>>

Next ==
    \/ \E o \in Objects : Preserve(o)
    \/ \E k \in Packages : NewGeneration(k)
    \/ \E r \in Names : Touch(r)
    \/ LoseIndex
    \/ \E p \in Operators :
        \/ \E d \in Definitions : Register(p, d)
        \/ \E k \in Packages : RegisterPackage(p, k)
        \/ \E s \in Sets, c \in Contents : DefineSet(p, s, c)
        \/ \E id \in DOMAIN FileOf : Pin(p, id) \/ Materialize(p, id)
        \/ Define(p) \/ WriteSet(p) \/ Rebuild(p) \/ Check(p) \/ Copy(p) \/ Deliver(p) \/ Crash(p)

Spec == Init /\ [][Next]_vars

-----------------------------------------------------------------------------
(* verify_manifest succeeds for ever: the definition a manifest was pinned *)
(* from can be shown again with the same objects, whatever was registered  *)
(* since, after crashes and after the index was lost.                      *)
PinsStillVerify ==
    \A pin \in pins : \E d \in Shown(pin.resource) : ObjectsOf(d) = pin.objects

(* Needs close no cycle, unless through a definition that was registered   *)
(* while the SQLite file was missing: the others are acyclic among         *)
(* themselves (the check of broker.py:251 and the test of                  *)
(* test_broker.py:63).                                                     *)
CheckedAreAcyclic ==
    LET checked == Rows(definitions, sets).resources \ unchecked
    IN  \A d \in checked : ~NeedsItself(d, checked)

(* The resource definitions stay usable: every pin resolves to what it was *)
(* pinned to, and no definition whose needs were checked needs itself      *)
(* through such definitions.                                               *)
DefinitionsHold == PinsStillVerify /\ CheckedAreAcyclic

(* "dependency-cycle rejection" (roadmap.md:126): no definition needs      *)
(* itself.  The code gives this up where the SQLite file, which is         *)
(* disposable (architecture.md:738), was removed before the registration.  *)
DependenciesAcyclic ==
    LET defs == Rows(definitions, sets).resources IN \A d \in defs : ~NeedsItself(d, defs)

(* A file that materialize() reported as delivered holds the bytes of its  *)
(* object until the consumer changes it, also when names collide and when  *)
(* a later delivery into the same workspace is cut off.                    *)
DeliveredIsExact ==
    \A d \in delivered :
        d.name \in DOMAIN workspace[d.root] /\ workspace[d.root][d.name] = d.object

(* "Definitions and set generations are immutable JSON sidecars"           *)
(* (architecture.md:737): a sidecar of a set is never given other contents.*)
SetGenerationsImmutable ==
    [][\A f \in SetFiles : sets[f] # NoSet => sets'[f] = sets[f]]_vars
=============================================================================
