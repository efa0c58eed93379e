---------------------------- MODULE MCConnFrames ----------------------------
(* Four frames on a connection that holds fewer bytes than two of them: one  *)
(* is empty, the size of one is negative as an int, that of one has more     *)
(* than 32 bits.  Besides, the sizes themselves: numbers built from the bits *)
(* at the borders of the widths in use, and byte strings longer than any     *)
(* varint, grown while no frame is sent: they do not meet.                   *)
EXTENDS ConnFrames, Uvarint

CONSTANTS
    Borders,    \* bits the numbers are made of
    MaxBytes    \* bound: length of the byte strings

ASSUME BordersAssumption == Borders \subseteq 0..63

VARIABLES num, arrived

MCSize == <<5, 0, 9, 2>>

SomeBytes == {[more |-> m, bits |-> b] : m \in BOOLEAN, b \in {{}, {0}, {1}, {0, 6}}}

\* Byte strings that repeat one byte and then end in up to three of any kind.
Repeats(s) == \A i \in 1..(Len(s) - 3) : s[i] = s[1]

MCInit == FramesInit /\ num = {} /\ arrived = <<>>

GrowNumber == begun = 0 /\ arrived = <<>> /\ \E b \in Borders \ num : num' = num \cup {b}

GrowBytes == /\ begun = 0 /\ num = {} /\ Len(arrived) < MaxBytes
             /\ \E b \in SomeBytes :
                  Repeats(Append(arrived, b)) /\ arrived' = Append(arrived, b)

UseFrames == num = {} /\ arrived = <<>> /\ FramesNext

MCNext == \/ GrowNumber /\ UNCHANGED <<framesVars, arrived>>
          \/ GrowBytes /\ UNCHANGED <<framesVars, num>>
          \/ UseFrames /\ UNCHANGED <<num, arrived>>

MCSpec == MCInit /\ [][MCNext]_<<framesVars, num, arrived>> /\ FramesFairness

-----------------------------------------------------------------------------

\* Every size comes back from the stream.
RoundTrip == ComesBack(num, <<[more |-> TRUE, bits |-> {1}]>>)

\* A size that is accepted is what was sent.
AcceptedIsDefined == AcceptedAsSent(arrived)
=============================================================================
