---------------------------- MODULE FrameChannel ----------------------------
(* What the RPC layer relies on when it calls SendFrame and RecvFrame on a   *)
(* connection: frames arrive whole, once and in order, until a call of       *)
(* either end has failed with part of a frame sent or received.  After that  *)
(* nothing is promised.                                                      *)
EXTENDS Naturals, Sequences

CONSTANTS Frame, Junk   \* Junk: what may be delivered after such a failure

VARIABLES transit, delivered, sound
vars == <<transit, delivered, sound>>

Init == transit = <<>> /\ delivered = <<>> /\ sound = TRUE

Send == /\ \E f \in Frame : transit' = Append(transit, f)
        /\ UNCHANGED <<delivered, sound>>
Deliver == /\ sound /\ transit # <<>>
           /\ delivered' = Append(delivered, Head(transit))
           /\ transit' = Tail(transit) /\ UNCHANGED sound
Cut == sound' = FALSE /\ transit' = <<>> /\ UNCHANGED delivered
Chaos == /\ ~sound
         /\ delivered' \in Seq(Junk) /\ Len(delivered') = Len(delivered) + 1
         /\ SubSeq(delivered', 1, Len(delivered)) = delivered
         /\ UNCHANGED <<transit, sound>>

Next == Send \/ Deliver \/ Cut \/ Chaos

Spec == Init /\ [][Next]_vars
=============================================================================
