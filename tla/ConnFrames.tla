----------------------------- MODULE ConnFrames -----------------------------
(* rpc/rpc_conn.cc over one direction of a connection, byte by byte: a frame *)
(* is its size and its bytes, send() and recv() move as much as they like,   *)
(* and either may fail on a connection that goes on being used, as Client    *)
(* goes on using its own after a call that failed.                           *)
EXTENDS Integers, Sequences

CONSTANTS
    Size,       \* the lengths of the frames to be sent, in order
    Room,       \* bytes the connection holds
    IntMax,     \* INT_MAX
    MaxSize     \* bound: the lengths, and what a byte that is none may be read as

ASSUME FramesAssumption ==
    /\ MaxSize \in Nat /\ Size \in Seq(0..MaxSize) /\ Room \in Nat \ {0}
    /\ IntMax \in Nat

VARIABLES
    stream,     \* the bytes under way
    sending,    \* what the SendFrame under way has still to write
    begun,      \* frames SendFrame was called with
    need, data, \* RecvFrame: how much it reads, NoSize before the size; what it has
    length,     \* data->size(), which is that of the bytes to come
    written,    \* history: the frames written to the end
    received, lengths,  \* history: what RecvFrame returned, bytes read and data->size()
    sound       \* history: no call failed half way
framesVars == <<stream, sending, begun, need, data, length, written, received, lengths, sound>>

-----------------------------------------------------------------------------
(* A size has 64 bits.  resize() gets 32 of them, Read and Write an int.     *)

uint(size) == size % (2 * (IntMax + 1))
int(size) == IF uint(size) <= IntMax THEN uint(size) ELSE uint(size) - 2 * (IntMax + 1)
\* By the loops of Read and Write.
BytesMoved(len) == IF len > 0 THEN len ELSE 0

\* Mutant: the reader takes the size as unsigned.
ReadLengthUnsigned(size) == uint(size)

ReadLength(size) == BytesMoved(int(size))
\* Of the nth frame.
WriteLength(n) == BytesMoved(int(Size[n]))

-----------------------------------------------------------------------------

NoSize == IntMax + 1
Smaller(a, b) == IF a < b THEN a ELSE b
Byte(n, at) == [frame |-> n, at |-> at]     \* at = 0: the size
Data(n) == [at \in 1..Size[n] |-> Byte(n, at)]
Payload(n) == [at \in 1..WriteLength(n) |-> Byte(n, at)]
FrameBytes(n) == <<Byte(n, 0)>> \o Payload(n)

FramesInit ==
    /\ stream = <<>> /\ sending = <<>> /\ begun = 0
    /\ need = NoSize /\ data = <<>> /\ length = 0
    /\ written = <<>> /\ received = <<>> /\ lengths = <<>> /\ sound = TRUE

SendFrame ==
    /\ sending = <<>> /\ begun < Len(Size)
    /\ begun' = begun + 1 /\ sending' = FrameBytes(begun + 1)
    /\ UNCHANGED <<stream, need, data, length, written, received, lengths, sound>>

\* Mutants: a short send() is taken for all of it; the next send() starts over.
SendSomeOnce ==
    \E n \in 1..Smaller(Len(sending), Room - Len(stream)) :
      /\ stream' = stream \o SubSeq(sending, 1, n)
      /\ sending' = <<>> /\ written' = Append(written, begun)
      /\ UNCHANGED <<begun, need, data, length, received, lengths, sound>>
SendSomeAgain ==
    \E n \in 1..Smaller(Len(sending), Room - Len(stream)) :
      /\ stream' = stream \o SubSeq(sending, 1, n)
      /\ sending' = SubSeq(sending, 1, Len(sending) - n)
      /\ written' = IF sending' = <<>> THEN Append(written, begun) ELSE written
      /\ UNCHANGED <<begun, need, data, length, received, lengths, sound>>

\* The loop of Write.
SendSome ==
    \E n \in 1..Smaller(Len(sending), Room - Len(stream)) :
      /\ stream' = stream \o SubSeq(sending, 1, n)
      /\ sending' = SubSeq(sending, n + 1, Len(sending))
      /\ written' = IF sending' = <<>> THEN Append(written, begun) ELSE written
      /\ UNCHANGED <<begun, need, data, length, received, lengths, sound>>

\* send() returned -1: SendFrame returns false, whatever it has written.
SendFails ==
    /\ sending # <<>>
    /\ sending' = <<>>
    /\ sound' = (sound /\ Head(sending).at = 0)
    /\ UNCHANGED <<stream, begun, need, data, length, written, received, lengths>>

Finish(bytes, size) ==
    /\ received' = Append(received, bytes) /\ lengths' = Append(lengths, size)
    /\ need' = NoSize /\ data' = <<>> /\ length' = 0

\* ReadUvarint, then resize.  A byte that is not a size is read as one all the
\* same.  (Before a frame, data is empty.)
RecvSize ==
    /\ need = NoSize /\ stream # <<>>
    /\ \E size \in IF Head(stream).at = 0 THEN {Size[Head(stream).frame]} ELSE 0..MaxSize :
         IF ReadLength(size) = 0 THEN Finish(<<>>, uint(size))
         ELSE need' = ReadLength(size) /\ length' = uint(size) /\ UNCHANGED <<data, received, lengths>>
    /\ stream' = Tail(stream)
    /\ UNCHANGED <<sending, begun, written, sound>>

\* Mutant: one recv() is taken for the whole frame.
RecvOnce ==
    /\ need # NoSize
    /\ \E n \in 1..Smaller(need - Len(data), Len(stream)) :
         Finish(data \o SubSeq(stream, 1, n), length) /\ stream' = SubSeq(stream, n + 1, Len(stream))
    /\ UNCHANGED <<sending, begun, written, sound>>

\* The loop of Read.
RecvSome ==
    /\ need # NoSize
    /\ \E n \in 1..Smaller(need - Len(data), Len(stream)) :
         LET bytes == data \o SubSeq(stream, 1, n)
         IN /\ IF Len(bytes) = need THEN Finish(bytes, length)
               ELSE data' = bytes /\ UNCHANGED <<need, length, received, lengths>>
            /\ stream' = SubSeq(stream, n + 1, Len(stream))
    /\ UNCHANGED <<sending, begun, written, sound>>

\* recv() returned 0 or -1: RecvFrame clears data and returns false.
RecvFails ==
    /\ need' = NoSize /\ data' = <<>> /\ length' = 0
    /\ sound' = (sound /\ need = NoSize)
    /\ UNCHANGED <<stream, sending, begun, written, received, lengths>>

FramesNext == SendFrame \/ SendSome \/ SendFails \/ RecvSize \/ RecvSome \/ RecvFails

\* A writer goes on with what it has begun, and a reader, as ServeProc is, with
\* reading.
FramesFairness == WF_framesVars(SendSome) /\ WF_framesVars(RecvSize \/ RecvSome)

FramesSpec == FramesInit /\ [][FramesNext]_framesVars /\ FramesFairness

-----------------------------------------------------------------------------

Channel == INSTANCE FrameChannel WITH
    Frame <- {Payload(n) : n \in DOMAIN Size},
    Junk <- Seq(UNION {{Byte(n, at) : at \in 0..WriteLength(n)} : n \in DOMAIN Size}),
    transit <- IF sound
               THEN [k \in 1..(Len(written) - Len(received)) |-> Payload(written[Len(received) + k])]
               ELSE <<>>,
    delivered <- received

\* However the bytes are split up, RecvFrame returns the frames SendFrame was
\* given, whole and in order, as long as no call failed inside a frame; a call
\* that failed before its first byte does no harm.
ImplementsChannel == Channel!Spec

\* The string RecvFrame returns is filled with what was read, or has 2^31 bytes
\* and more and nothing was read into it.  While no call has failed inside a
\* frame, the one returned has the bytes and the length of the one that
\* SendFrame was given, exactly if its size fits in an int: one that does not
\* is lost or cut, by both ends alike, and does the next no harm.
WholeIfItFits ==
    /\ \A i \in DOMAIN received : Len(received[i]) = IF lengths[i] > IntMax THEN 0 ELSE lengths[i]
    /\ sound => \A i \in DOMAIN received :
         LET size == Size[written[i]]
         IN size <= IntMax <=> received[i] = Data(written[i]) /\ lengths[i] = size

\* A frame that is written is received, unless a call failed inside one.
FramesArrive ==
    \A n \in DOMAIN Size : Len(written) >= n ~> (Len(received) >= n \/ ~sound)

\* Not even a failure inside a frame makes bytes out of nothing, nor shows one
\* twice or out of order.
BytesInOrder ==
    \A i, j \in DOMAIN received : \A a \in DOMAIN received[i], b \in DOMAIN received[j] :
      (i < j \/ (i = j /\ a < b)) =>
        LET p == received[i][a] q == received[j][b]
        IN p.frame < q.frame \/ (p.frame = q.frame /\ p.at < q.at)
=============================================================================
