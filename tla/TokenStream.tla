----------------------------- MODULE TokenStream -----------------------------
(***************************************************************************)
(* What the comments on peek and consume in parser.c promise: a stream of  *)
(* tokens, of which peek returns the next one or none at the end, and      *)
(* consume the same one, after which the next one is next.                 *)
(***************************************************************************)
EXTENDS Naturals

CONSTANT SourceLength

VARIABLES
    position,   \* the next token
    answer      \* what the last call returned, 0 for none

Answer == IF position <= SourceLength THEN position ELSE 0

Init == position = 1 /\ answer = 0

Peek == answer' = Answer /\ UNCHANGED position

Consume ==
    /\ position <= SourceLength
    /\ answer' = Answer
    /\ position' = position + 1

Next == Peek \/ Consume

Spec == Init /\ [][Next]_<<position, answer>>

=============================================================================
