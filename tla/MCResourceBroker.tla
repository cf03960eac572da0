-------------------------- MODULE MCResourceBroker --------------------------
(***************************************************************************)
(* Model values for checking ResourceBroker: two ids that share a sidecar  *)
(* name, a definition that delivers two objects under one name, and needs  *)
(* that would close a cycle through three definitions.                     *)
(***************************************************************************)
EXTENDS ResourceBroker, TLC

Item(n, o) == [name |-> n, object |-> o]
MCFileOf ==
    ("a:b" :> "a_b") @@ ("a_b" :> "a_b") @@ ("pack" :> "pack") @@ ("c" :> "c") @@ ("s" :> "s")
MCDefinitions == {
    [id |-> "a:b", objects |-> <<Item("payload", "o1")>>, needs |-> {"c"}],
    [id |-> "a_b", objects |-> <<Item("payload", "o2"), Item("payload", "o1")>>, needs |-> {}],
    [id |-> "c", objects |-> <<>>, needs |-> {"pack"}],
    [id |-> "pack", objects |-> <<Item("payload", "o1")>>, needs |-> {"a:b"}] }
MCPayloadOf == [pack |-> <<"o1", "o2">>]
=============================================================================
