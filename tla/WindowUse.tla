------------------------------ MODULE WindowUse ------------------------------
(***************************************************************************)
(* peek and consume called in any order on a source of SourceLength        *)
(* tokens.  As long as nobody consumes at the end of the source the window *)
(* is the stream of TokenStream.                                           *)
(***************************************************************************)
EXTENDS TokenWindow

CONSTANT SourceLength

ASSUME SourceAssumption == SourceLength \in Nat

VARIABLES window, answer

vars == <<window, answer>>

Init == window = EmptyWindow /\ answer = Null

Peek ==
    /\ answer' = TokenAt(window, SourceLength)
    /\ window' = Peeked(window, SourceLength)

Consume ==
    /\ HasToken(window, SourceLength)
    /\ answer' = TokenAt(window, SourceLength)
    /\ window' = Consumed(window, SourceLength)

Next == Peek \/ Consume

Spec == Init /\ [][Next]_vars

-----------------------------------------------------------------------------

(* The window never holds more than the one token that was peeked at and   *)
(* not yet consumed, and that is the last one read; its indices never      *)
(* wrap below zero.                                                        *)
OneToken ==
    /\ window.start \in 0 .. WindowLength - 1
    /\ window.end \in {window.start, window.start + 1}
    /\ window.read \in 0 .. SourceLength
    /\ window.start < window.end => window.slots[window.start] = window.read

Slots  == [0 .. WindowLength - 1 -> -1 .. SourceLength]
Window == [slots : Slots, start : Nat, end : Nat, read : Nat]

TypeOK ==
    /\ window \in Window
    /\ answer \in 0 .. SourceLength

(* The token that comes next, from the tokens read and those waiting.      *)
NextPosition == window.read - (window.end - window.start) + 1

Stream == INSTANCE TokenStream WITH position <- NextPosition

(* Every sequence of calls gets the tokens of the source in order, none    *)
(* twice and none left out, and none at the end (parser.c 34 and 48).      *)
ImplementsStream == Stream!Spec

=============================================================================
