----------------------------- MODULE ByteSource -----------------------------
(* What io/zero_copy_stream.h promises of every ZeroCopyInputStream: Next    *)
(* shows the bytes that follow those read, BackUp returns some of the last   *)
(* ones shown, Skip passes over bytes that count as read.                    *)
EXTENDS Naturals

VARIABLES
    at,    \* bytes read since the stream was created
    first, \* where the bytes begin that Next showed last; 0 if none may go back
    last   \* how many of them BackUp may return
vars == <<at, first, last>>

Init == at = 0 /\ first = 0 /\ last = 0

Show == at' >= at /\ first' = at /\ last' = at' - at

Return == \E n \in 0..last : at' = at - n /\ last' = 0 /\ first' = 0

Pass == at' >= at /\ last' = 0 /\ first' = 0

Spec == Init /\ [][Show \/ Return \/ Pass]_vars
=============================================================================
