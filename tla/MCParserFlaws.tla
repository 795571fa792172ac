---------------------------- MODULE MCParserFlaws ----------------------------
(***************************************************************************)
(* A source on which the parser does not do what the repository says.      *)
(***************************************************************************)
EXTENDS Parser

Toks(kinds) == [i \in DOMAIN kinds |-> [kind |-> kinds[i], line |-> FALSE]]

(* var x = 1  var y = *)
LastSlot == {Toks(<<"var", "name", "assign", "literal", "var", "name", "assign">>)}
=============================================================================
