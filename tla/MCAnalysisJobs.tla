-------------------------- MODULE MCAnalysisJobs --------------------------
(***************************************************************************)
(* Worlds for checking AnalysisJobs: containers four deep, the same        *)
(* container twice in one, two members of one name, of one size or of two, *)
(* with the last in or out of the listing, a volume with a directory, a    *)
(* damaged file and a large one, and each kind of bytes that no analyzer   *)
(* opens.  A member has its content for a name unless the world repeats    *)
(* one.                                                                    *)
(***************************************************************************)
EXTENDS AnalysisJobs

Contents == {"root", "inner", "deep", "core", "file", "large"}
Named(n, c) == [is |-> c, form |-> "file", name |-> n]
File(c)     == Named(c, c)
Dir(c)      == [is |-> c, form |-> "directory", name |-> c]
Bad(c)      == [is |-> c, form |-> "damaged", name |-> c]
W(kinds, members) ==
    [root |-> "root",
     size |-> [root |-> 1, inner |-> 1, deep |-> 1, core |-> 1, file |-> 1, large |-> 3],
     kind |-> [c \in Contents |-> IF c \in DOMAIN kinds THEN kinds[c] ELSE "data"],
     members |-> [c \in Contents |-> IF c \in DOMAIN members THEN members[c] ELSE <<>>]]

Chain == [root |-> "archive", inner |-> "archive", deep |-> "archive", core |-> "volume"]
Names == <<"n1", "n2", "n3", "n4", "n5", "n6", "n7">>
Copies(n, c) == [i \in 1..n |-> Named(Names[i], c)]
MCWorlds == {
    W(Chain, [root |-> <<File("inner"), File("file")>>, inner |-> <<File("deep")>>,
              deep |-> <<File("core"), File("file")>>, core |-> <<File("file")>>]),
    W(Chain, [root |-> <<File("inner"), File("deep")>>, inner |-> <<File("file"), File("core")>>,
              deep |-> <<File("file")>>]),
    W(Chain, [root |-> Copies(2, "inner"), inner |-> <<File("file")>>]),
    W(Chain, [root |-> Copies(3, "inner")]),
    W(Chain, [root |-> <<File("file"), Named("file", "inner"), File("deep")>>,
              inner |-> <<File("file"), Named("file", "large")>>,
              deep |-> <<Bad("file"), File("file"), Named("core", "file"), Dir("core")>>]),
    W([root |-> "volume", inner |-> "archive"],
      [root |-> <<Dir("deep"), File("inner"), Bad("file")>>, inner |-> <<File("large"), File("file")>>]),
    W([root |-> "volume"], [root |-> <<File("file"), File("large")>>]),
    W([root |-> "volume"], [root |-> Copies(7, "file")]),
    W([root |-> "volume", inner |-> "tool"], [root |-> <<File("file"), File("inner"), Named("n1", "file")>>]),
    W([root |-> "archive", inner |-> "recognised", deep |-> "broken"],
      [root |-> <<File("inner"), File("deep")>>]),
    W([root |-> "data"], [c \in {} |-> <<>>]) }

Plan(policy, recursive) == [policy |-> policy, recursive |-> recursive]
MCPlans == {Plan("metadata-only", TRUE), Plan("identify", TRUE), Plan("preserve", TRUE),
            Plan("preserve", FALSE)}
=============================================================================
