------------------------------ MODULE Uvarint -------------------------------
(* rpc/rpc_conn.cc: the size in front of a frame, in the widths of the code. *)
(* A number is the set of the positions of its bits, so that 64 bits cost    *)
(* nothing; a byte of a varint is its seven bits and the flag that more      *)
(* bytes follow.                                                             *)
EXTENDS Integers, Sequences

\* The outcome of a shift by 64 or more: not a number.
Undefined == {-1}
Uint64 == SUBSET (0..63)
Low(x, n) == {b \in x : b < n}
ShiftRight(x, n) == {b - n : b \in {c \in x : c >= n}}
ShiftLeft(x, n) == Low({b + n : b \in x}, 64)

VarintByte == [more : BOOLEAN, bits : SUBSET (0..6)]
LastByte(x) == [more |-> FALSE, bits |-> Low(x, 7)]
MoreByte(x) == [more |-> TRUE, bits |-> Low(x, 7)]

\* Mutant: the loop ends one value late.
AtLeast0x80Late(x) == \E b \in x : b >= 8

AtLeast0x80(x) == \E b \in x : b >= 7

putUvarint[x \in Uint64] ==
    IF AtLeast0x80(x) THEN <<MoreByte(x)>> \o putUvarint[ShiftRight(x, 7)] ELSE <<LastByte(x)>>

\* Mutant: ten bytes are taken whatever the tenth holds.
OverflowsLate(i, bits) == i > 9

\* The test of the last byte; i counts from 0.
Overflows(i, bits) == i > 9 \/ (i = 9 /\ bits \notin {{}, {0}})

\* s is a uint8 and x the bits gathered so far.
Gather(x, bits, s) == IF s >= 64 \/ x = Undefined THEN Undefined ELSE x \cup ShiftLeft(bits, s)

\* Read the varint at the head of bytes: whether it is one, its value, and how
\* many bytes were taken.  Bytes that run out are a failed Read.
ReadUvarint(bytes) ==
    LET x[i \in 0..Len(bytes)] ==
          IF i = 0 THEN {} ELSE Gather(x[i - 1], bytes[i].bits, (7 * (i - 1)) % 256)
        ends == {i \in DOMAIN bytes : ~bytes[i].more}
    IN IF ends = {} THEN [ok |-> FALSE, value |-> {}, used |-> Len(bytes)]
       ELSE LET last == CHOOSE i \in ends : \A j \in ends : i <= j
                fits == ~Overflows(last - 1, bytes[last].bits)
            IN [ok |-> fits, value |-> IF fits THEN x[last] ELSE {}, used |-> last]

-----------------------------------------------------------------------------

\* A size comes back, whatever bytes follow it on the stream, and takes no
\* more than maxVarintLen64 bytes.
ComesBack(size, rest) ==
    LET code == putUvarint[size]
    IN /\ Len(code) <= 10
       /\ ReadUvarint(code \o rest) = [ok |-> TRUE, value |-> size, used |-> Len(code)]

\* Whatever bytes arrive: a size that is accepted was computed without an
\* undefined shift and loses no bit of what was sent.
AcceptedAsSent(bytes) ==
    LET read == ReadUvarint(bytes)
    IN read.ok => /\ read.value # Undefined
                  /\ read.value = {b \in 0..(7 * read.used - 1) : b % 7 \in bytes[b \div 7 + 1].bits}
=============================================================================
