----------------------------- MODULE TokenWindow -----------------------------
(***************************************************************************)
(* The lookahead buffer of the parser (parser.c): a ring of WindowLength   *)
(* slots that peek fills from the lexer and consume leaves behind.  A      *)
(* token is its position in the source, 1 .. n.  Indices are size_t, so    *)
(* they wrap at SizeRange.                                                 *)
(***************************************************************************)
EXTENDS Integers, Sequences

CONSTANTS
    WindowLength,   \* TOKEN_BUFFER_LENGTH, 8 in the code
    SizeRange       \* the number of values of size_t

ASSUME WindowAssumption ==
    /\ WindowLength \in Nat /\ WindowLength > 0
    /\ SizeRange \in Nat /\ SizeRange > WindowLength

Null   == 0
Unread == -1   \* what a slot holds before a token is read into it

EmptyWindow ==
    [slots |-> [i \in 0 .. WindowLength - 1 |-> Unread],
     start |-> 0, end |-> 0, read |-> 0]

(* There is a token in the buffer or one more in the source of n tokens.   *)
HasToken(w, n) == w.start < w.end \/ w.read < n

(* Mutant: every peek reads a token.                                       *)
Peeked_again(w, n) ==
    IF w.read >= n THEN w
    ELSE [w EXCEPT !.slots[w.start] = w.read + 1,
                   !.end = (@ + 1) % SizeRange,
                   !.read = @ + 1]

(* The window after peek.                                                  *)
Peeked(w, n) ==
    IF w.start < w.end \/ w.read >= n THEN w
    ELSE [w EXCEPT !.slots[w.start] = w.read + 1,
                   !.end = (@ + 1) % SizeRange,
                   !.read = @ + 1]

(* What peek returns.                                                      *)
TokenAt(w, n) == IF HasToken(w, n) THEN Peeked(w, n).slots[w.start] ELSE Null

(* Mutant: the end stays when the start wraps around.                      *)
Consumed_end_kept(w, n) ==
    LET p == Peeked(w, n)
    IN  [p EXCEPT !.start = (@ + 1) % WindowLength]

(* Mutant: the start runs past the last slot.                              *)
Consumed_no_wrap(w, n) ==
    LET p == Peeked(w, n)
    IN  IF p.start = WindowLength
        THEN [p EXCEPT !.start = 0, !.end = (@ - WindowLength) % SizeRange]
        ELSE [p EXCEPT !.start = @ + 1]

(* The window after consume, which moves on even when there is no token.   *)
Consumed(w, n) ==
    LET p == Peeked(w, n)
    IN  IF p.start + 1 = WindowLength
        THEN [p EXCEPT !.start = 0, !.end = (@ - WindowLength) % SizeRange]
        ELSE [p EXCEPT !.start = @ + 1]

=============================================================================
