------------------------- MODULE IdentityCatalogue -------------------------
(***************************************************************************)
(* IdentityCatalogue of identity.py and ProductBuilder of products.py.     *)
(*                                                                         *)
(* Logical identities and relationships are JSON sidecars; everything else *)
(* that is known of an object is evidence kept by other components.  The   *)
(* SQLite file is thrown away and written anew, in one transaction, after  *)
(* every addition and on request.  Products are exported from it.          *)
(*                                                                         *)
(* Several operators run commands at a time.  Evidence is a count that     *)
(* grows; hashes, formats, rights and the filters of a product are left    *)
(* out, and so is a schema of another version.                             *)
(***************************************************************************)
EXTENDS Naturals, FiniteSets

CONSTANTS
    Objects,       \* contents the archive may hold
    Claims,        \* relationships asked for: [subject, type, object, evidence]
    Definitions,   \* logical identities asked for: [id, file, name]
    Products,      \* of "identity", "fixity", "containment"
    Operators,     \* the operators
    Crews,         \* sets of operators that may be at work
    MaxCommands,   \* bound on the commands given, one less for each further operator
    MaxEvidence,   \* bound on the evidence of an object
    MaxStops       \* bound on kills

ASSUME CrewsAssumption == IsFiniteSet(Operators) /\ Crews \subseteq SUBSET Operators

VARIABLES
    crew,       \* the operators at work
    known,      \* object |-> evidence about it; 0 before it is ingested
    decayed,    \* objects whose master no longer has its hash
    logical,    \* file |-> logical identity
    claims,     \* relationships that have a sidecar
    database,   \* the tables of identity.sqlite3
    writer,     \* the operator in a write transaction
    at,         \* operator |-> next step of its command
    my,         \* operator |-> its local variables
    exports,    \* product |-> the exported file
    drafts,     \* product |-> the temporary file, which all builders share
    index,      \* product |-> content named in index.json
    granted,    \* history: claims whose command returned
    commands, stops

identityVars == <<crew, known, decayed, logical, claims, database, writer, at, my,
                  exports, drafts, index, granted, commands, stops>>
sidecarVars == <<logical, claims>>
productVars == <<exports, drafts, index>>
worldVars   == <<crew, known, decayed>>
countVars   == <<commands, stops>>

NoWriter == "nobody"
ASSUME WriterAssumption == NoWriter \notin Operators
NoTables == [objects |-> [o \in {} |-> 0], logical |-> {}, claims |-> {}]
(* ask: the claim, definition or product of the command; todo: masters not *)
(* yet read; image: the tables of the open transaction, or the rows and    *)
(* then the text of a product; list: index.json as it was read.            *)
NoAsk == [ask |-> [none |-> TRUE], todo |-> {}, image |-> NoTables, text |-> {}, list |-> [x \in {} |-> {}]]
Alone == Cardinality(crew) = 1

\* What is asked for tells the commands apart.
ASSUME AsksAssumption == Claims \cap (Definitions \cup {NoAsk.ask}) = {}

Put(f, key, value) == [x \in DOMAIN f \cup {key} |-> IF x = key THEN value ELSE f[x]]

IdentityInit ==
    /\ crew \in Crews
    /\ known = [o \in Objects |-> 0] /\ decayed = {}
    /\ logical = [f \in {} |-> 0] /\ claims = {}
    /\ database = NoTables /\ writer = NoWriter
    /\ at = [p \in Operators |-> "rest"] /\ my = [p \in Operators |-> NoAsk]
    /\ exports = [x \in {} |-> {}] /\ drafts = [x \in {} |-> {}] /\ index = [x \in {} |-> {}]
    /\ granted = {} /\ commands = 0 /\ stops = 0

Step(p, label) == at' = [at EXCEPT ![p] = label]
Finish(p) == Step(p, "rest") /\ my' = [my EXCEPT ![p] = NoAsk]

(* Other components ingest objects, add evidence and lose masters.         *)
Learn(o) ==
    /\ known[o] < MaxEvidence
    /\ known' = [known EXCEPT ![o] = @ + 1]
    /\ UNCHANGED <<crew, decayed, sidecarVars, database, writer, at, my, productVars, granted, countVars>>
Decay(o) ==
    /\ known[o] > 0 /\ decayed' = decayed \cup {o}
    /\ UNCHANGED <<crew, known, sidecarVars, database, writer, at, my, productVars, granted, countVars>>

Command(p) ==
    /\ p \in crew /\ at[p] = "rest" /\ commands + Cardinality(crew) <= MaxCommands
    /\ commands' = commands + 1
    /\ UNCHANGED <<worldVars, sidecarVars, database, writer, productVars, granted, stops>>

-----------------------------------------------------------------------------
(* add_relationship(): lineage is checked against every sidecar, of all    *)
(* types.                                                                  *)
Lineage == {"DERIVED_FROM", "REPRESENTATION_OF", "RELEASE_OF_WORK"}

(* The ends visited from the ends in from along relationships of R: those  *)
(* in every set that holds them and the object of each subject in it.      *)
Follows(S, R) == \A r \in R : r.subject \in S => r.object \in S
Reached(from, R) ==
    LET ends == {r.subject : r \in R} \cup {r.object : r \in R} \cup from
    IN {x \in ends : \A S \in SUBSET ends : from \subseteq S /\ Follows(S, R) => x \in S}

Cycles(c) == c.type \in Lineage /\ c.subject \in Reached({c.object}, claims)
Valid(c)  == (c.subject = c.object => c.type = "EXACT_COPY_OF") /\ ~Cycles(c)

AddRelationship(p, c) ==
    /\ Command(p)
    /\ IF Valid(c) THEN /\ Step(p, "claim") /\ my' = [my EXCEPT ![p].ask = c]
                   ELSE UNCHANGED <<at, my>>

(* The id is made of the ends, the type and the evidence; the sidecar also *)
(* holds the time, so that one that exists is never equal.                 *)
WriteClaim(p) ==
    LET c == my[p].ask IN
    /\ at[p] = "claim"
    /\ \/ c \in claims /\ Finish(p) /\ UNCHANGED claims
       \/ c \notin claims /\ claims' = claims \cup {c} /\ Step(p, "lock") /\ UNCHANGED my
    /\ UNCHANGED <<worldVars, logical, database, writer, productVars, granted, countVars>>

(* define_logical(): the file is named by the id with ":" for "-"; equal   *)
(* content is written again.                                               *)
Define(p, d) ==
    /\ Command(p)
    /\ IF d.file \in DOMAIN logical /\ logical[d.file] # d
         THEN UNCHANGED <<at, my>>
         ELSE Step(p, "define") /\ my' = [my EXCEPT ![p].ask = d]

WriteDefinition(p) ==
    LET d == my[p].ask IN
    /\ at[p] = "define"
    /\ logical' = Put(logical, d.file, d)
    /\ Step(p, "lock")
    /\ UNCHANGED <<worldVars, claims, database, writer, my, productVars, granted, countVars>>

-----------------------------------------------------------------------------
(* rebuild(), on request or after a sidecar.  DELETE takes the write lock  *)
(* of the database; another writer waits for it for some seconds.          *)
Rebuild(p) == Command(p) /\ Step(p, "lock") /\ UNCHANGED my

Unlocked(p) == writer = NoWriter
TakeLock(p) ==
    /\ at[p] = "lock" /\ Unlocked(p)
    /\ writer' = p /\ Step(p, "masters")
    /\ my' = [my EXCEPT ![p].todo = {o \in Objects : known[o] > 0}]
    /\ UNCHANGED <<worldVars, sidecarVars, database, productVars, granted, countVars>>

Busy(p) ==
    /\ at[p] = "lock" /\ ~Unlocked(p) /\ Finish(p)
    /\ UNCHANGED <<worldVars, sidecarVars, database, writer, productVars, granted, countVars>>

(* Every master is hashed; one that does not agree ends the command, and   *)
(* the connection is closed without a commit.                              *)
Unlock(p) == writer' = IF writer = p THEN NoWriter ELSE writer
ReadMaster(p, o) ==
    /\ at[p] = "masters" /\ o \in my[p].todo
    /\ \/ o \in decayed /\ Finish(p) /\ Unlock(p)
       \/ /\ o \notin decayed
          /\ my' = [my EXCEPT ![p].todo = @ \ {o}, ![p].image.objects = Put(@, o, known[o])]
          /\ UNCHANGED <<at, writer>>
    /\ UNCHANGED <<worldVars, sidecarVars, database, productVars, granted, countVars>>

Loaded_Between(image) == {c \in claims : {c.subject, c.object} \subseteq DOMAIN image.objects}
Loaded(image) == claims
LoadSidecars(p) ==
    /\ at[p] = "masters" /\ my[p].todo = {}
    /\ my' = [my EXCEPT ![p].image.logical = {logical[f] : f \in DOMAIN logical},
                        ![p].image.claims = Loaded(my[p].image)]
    /\ Step(p, "commit")
    /\ UNCHANGED <<worldVars, sidecarVars, database, writer, productVars, granted, countVars>>

Commit(p) ==
    /\ at[p] = "commit"
    /\ database' = my[p].image /\ Unlock(p)
    /\ granted' = granted \cup ({my[p].ask} \cap Claims)
    /\ Finish(p)
    /\ UNCHANGED <<worldVars, sidecarVars, productVars, countVars>>

-----------------------------------------------------------------------------
(* build(): the rows are searched, then the relationships of each are      *)
(* shown, which opens the database again.                                  *)
Related(o, R) == {c \in R : o \in {c.subject, c.object}}
Export(x, rows, R) ==
    CASE x = "identity"    -> {<<o, rows[o], Related(o, R)>> : o \in DOMAIN rows}
      [] x = "fixity"      -> {<<o>> : o \in DOMAIN rows}
      [] x = "containment" ->
           {<<o, {c \in Related(o, R) : c.type = "CONTAINS" \/ c.object = o}>> :
              o \in {o \in DOMAIN rows : \E c \in Related(o, R) : c.type = "CONTAINS"}}

Build(p, x) ==
    /\ Command(p)
    /\ Step(p, "show")
    /\ my' = [my EXCEPT ![p].ask = [product |-> x], ![p].image = database]

Show(p) ==
    /\ at[p] = "show"
    /\ my' = [my EXCEPT ![p].text = Export(my[p].ask.product, my[p].image.objects, database.claims)]
    /\ Step(p, "draft")
    /\ UNCHANGED <<worldVars, sidecarVars, database, writer, productVars, granted, countVars>>

WriteDraft(p) ==
    /\ at[p] = "draft"
    /\ drafts' = Put(drafts, my[p].ask.product, my[p].text)
    /\ Step(p, "replace")
    /\ UNCHANGED <<worldVars, sidecarVars, database, writer, my, exports, index, granted, countVars>>

(* The temporary file may have been renamed by another builder.            *)
Replace(p) ==
    LET x == my[p].ask.product IN
    /\ at[p] = "replace"
    /\ \/ x \notin DOMAIN drafts /\ Finish(p) /\ UNCHANGED <<exports, drafts>>
       \/ /\ x \in DOMAIN drafts
          /\ exports' = Put(exports, x, drafts[x])
          /\ drafts' = [y \in DOMAIN drafts \ {x} |-> drafts[y]]
          /\ Step(p, "list") /\ UNCHANGED my
    /\ UNCHANGED <<worldVars, sidecarVars, database, writer, index, granted, countVars>>

(* The entry of the product is replaced in index.json, which is read,      *)
(* changed and written.                                                    *)
ReadList(p) ==
    /\ at[p] = "list"
    /\ my' = [my EXCEPT ![p].list = index] /\ Step(p, "enter")
    /\ UNCHANGED <<worldVars, sidecarVars, database, writer, productVars, granted, countVars>>

Entered_Once(list, x, text) == IF x \in DOMAIN list THEN list ELSE Put(list, x, text)
Entered(list, x, text) == Put(list, x, text)
WriteList(p) ==
    /\ at[p] = "enter"
    /\ index' = Entered(my[p].list, my[p].ask.product, my[p].text)
    /\ Finish(p)
    /\ UNCHANGED <<worldVars, sidecarVars, database, writer, exports, drafts, granted, countVars>>

(* A kill rolls an open transaction back.                                  *)
Stop(p) ==
    /\ at[p] # "rest" /\ stops < MaxStops
    /\ stops' = stops + 1 /\ Finish(p) /\ Unlock(p)
    /\ UNCHANGED <<worldVars, sidecarVars, database, productVars, granted, commands>>

IdentityNext ==
    \/ \E o \in Objects : Learn(o) \/ Decay(o)
    \/ \E p \in crew :
        \/ \E c \in Claims : AddRelationship(p, c)
        \/ \E d \in Definitions : Define(p, d)
        \/ \E x \in Products : Build(p, x)
        \/ \E o \in Objects : ReadMaster(p, o)
        \/ WriteClaim(p) \/ WriteDefinition(p)
        \/ Rebuild(p) \/ TakeLock(p) \/ Busy(p) \/ LoadSidecars(p) \/ Commit(p)
        \/ Show(p) \/ WriteDraft(p) \/ Replace(p) \/ ReadList(p) \/ WriteList(p)
        \/ Stop(p)

IdentitySpec == IdentityInit /\ [][IdentityNext]_identityVars

-----------------------------------------------------------------------------
(* "Cyclic derivation/representation/release relationships are rejected"   *)
(* (architecture.md:206-207): with one operator at work no end is its own  *)
(* ancestor, however the types alternate.  Two operators that check before *)
(* either writes can close a cycle.                                        *)
LineageIsAcyclic ==
    Alone => LET R == {c \in claims : c.type \in Lineage} IN
             \A c \in R : c.subject \notin Reached({c.object}, R)

(* A relationship whose command returned is shown at both its ends from    *)
(* then on, whichever rebuilds wait for, overtake or abort one another.    *)
GrantedIsIndexed == granted \subseteq database.claims

(* The relationships an operator was granted are found again and mean what *)
(* the lineage types say (IdentityCatalogue.add_relationship, rebuild).    *)
RelationshipsHold == LineageIsAcyclic /\ GrantedIsIndexed

(* index.json tells the truth of the product files (content_sha256), with  *)
(* one operator and no kill, between two builds.                           *)
ListedProductsAgree ==
    (Alone /\ stops = 0) => \A p \in crew :
        at[p] = "rest" => \A x \in DOMAIN exports : x \in DOMAIN index /\ index[x] = exports[x]
=============================================================================
