----------------------------- MODULE CodedInput -----------------------------
(* io::CodedInputStream (io/coded_stream.cc, .h): reads on buffers that a    *)
(* ZeroCopyInputStream hands out in pieces of any size, under limits that    *)
(* parsers push and pop, a limit on the whole, and INT_MAX.  A byte is the   *)
(* flag that a varint goes on behind it.  Pointers are positions in the      *)
(* input; a NULL buffer stands where the next byte would come from.  What    *)
(* the code does in a loop, with a Refresh in each round, is a step for each *)
(* round, as every round may get a piece of another size.                    *)
EXTENDS Integers, Sequences

CONSTANTS
    Inputs,           \* the inputs: sequences of BOOLEAN
    IntMax,           \* INT_MAX
    DefaultTotal,     \* kDefaultTotalBytesLimit
    kMaxVarintBytes,
    MaxFlat,          \* bound: the length of arrays read from
    MaxChunk,         \* bound: the pieces Next() gives
    MaxDepth          \* bound: limits pushed and not popped

ASSUME CodedAssumption ==
    /\ Inputs \subseteq Seq(BOOLEAN)
    /\ IntMax \in Nat /\ DefaultTotal \in 0..IntMax
    /\ MaxFlat \in 0..IntMax
    /\ kMaxVarintBytes \in Nat \ {0} /\ MaxChunk \in Nat \ {0} /\ MaxDepth \in Nat

VARIABLES
    more,     \* the bytes of the input
    flat,     \* the stream was made of an array: input_ is NULL
    b,        \* buffer_, buffer_end_, total_bytes_read_, overflow_bytes_,
              \* buffer_size_after_limit_; given: input_->ByteCount()
    current_limit, total_bytes_limit,
    legit,    \* legitimate_message_end_
    op,       \* the operation under way, or the last one and its outcome
    limits,   \* history: the limits pushed, as asked for, and what PushLimit returned
    lost,     \* history: a Skip went past the end of the input
    alive
input == <<more, flat>>
limitVars == <<current_limit, total_bytes_limit, limits>>
vars == <<input, b, limitVars, legit, op, lost, alive>>

Smaller(x, y) == IF x < y THEN x ELSE y
Larger(x, y) == IF x < y THEN y ELSE x
Closest == Smaller(current_limit, total_bytes_limit)
BufferSize(s) == s.end - s.buffer
CurrentPosition(s) == s.read - (BufferSize(s) + s.after)
Advance(s, n) == [s EXCEPT !.buffer = @ + n]

NoOp == [kind |-> "none", from |-> 0, want |-> 0, phase |-> "ok"]
Begun(kind, n) == [kind |-> kind, from |-> b.buffer, want |-> n, phase |-> "loop"]
Over(o, phase) == [o EXCEPT !.phase = phase]
Idle == alive /\ op.phase # "loop"

RecomputeBufferLimits(s, closest) ==
    LET after == IF closest < s.read THEN s.read - closest ELSE 0
    IN [s EXCEPT !.end = @ + s.after - after, !.after = after]

-----------------------------------------------------------------------------
(* Refresh.                                                                  *)

\* Mutant: overflow_bytes_ are not taken from the buffer.
TakeChunkWhole(s, n) ==
    LET over == Larger(0, s.read - (IntMax - n))
    IN RecomputeBufferLimits(
         [s EXCEPT !.buffer = s.given, !.end = s.given + n, !.given = @ + n,
                   !.read = @ + n - over, !.overflow = over], Closest)

\* input_->Next() gave n bytes; none beyond INT_MAX is let in.
TakeChunk(s, n) ==
    LET over == Larger(0, s.read - (IntMax - n))
    IN RecomputeBufferLimits(
         [s EXCEPT !.buffer = s.given, !.end = s.given + n - over, !.given = @ + n,
                   !.read = @ + n - over, !.overflow = over], Closest)

AtLimit(s) == s.after > 0 \/ s.overflow > 0 \/ s.read = current_limit

\* What Refresh may return, and what it leaves.
Refresh(s) ==
    IF AtLimit(s) THEN {[ok |-> FALSE, b |-> s]}
    ELSE IF s.given = Len(more)
         THEN {[ok |-> FALSE, b |-> [s EXCEPT !.buffer = s.given, !.end = s.given]]}
    ELSE {[ok |-> TRUE, b |-> TakeChunk(s, n)] : n \in 1..Smaller(MaxChunk, Len(more) - s.given)}

-----------------------------------------------------------------------------
(* Construction and destruction.                                             *)

Fresh == [buffer |-> 0, end |-> 0, read |-> 0, overflow |-> 0, after |-> 0, given |-> 0]

FlatLimit == Len(more)

Init ==
    /\ more \in Inputs
    /\ flat \in {f \in BOOLEAN : f => Len(more) <= MaxFlat}
    /\ b = IF flat THEN [Fresh EXCEPT !.end = Len(more), !.read = Len(more)] ELSE Fresh
    /\ current_limit = IF flat THEN FlatLimit ELSE IntMax
    /\ total_bytes_limit = DefaultTotal
    /\ legit = FALSE /\ lost = FALSE /\ alive = TRUE
    /\ op = IF flat THEN NoOp ELSE Over(NoOp, "loop")   \* the constructor is to Refresh
    /\ limits = <<>>

FirstRefresh ==
    /\ op.kind = "none" /\ op.phase = "loop"
    /\ \E r \in Refresh(b) : b' = r.b
    /\ op' = NoOp
    /\ UNCHANGED <<input, limitVars, legit, lost, alive>>

Unread(s) == BufferSize(s) + s.after + s.overflow

\* The destructor: BackUpInputToCurrentPosition, unless input_ is NULL.
Destroy ==
    /\ Idle
    /\ alive' = FALSE
    /\ b' = IF flat THEN b
            ELSE [b EXCEPT !.given = @ - Unread(b), !.read = @ - (BufferSize(b) + b.after),
                           !.end = b.buffer, !.after = 0, !.overflow = 0]
    /\ UNCHANGED <<input, limitVars, legit, op, lost>>

-----------------------------------------------------------------------------
(* Limits.                                                                   *)

\* A negative limit and one that overflows are INT_MAX.
Absolute(byte_limit) ==
    IF byte_limit >= 0 /\ byte_limit <= IntMax - CurrentPosition(b)
    THEN CurrentPosition(b) + byte_limit ELSE IntMax

\* Mutant: only the new limit counts.
EnforcedNew(asked) == asked

Enforced(asked) == Smaller(asked, current_limit)

PushLimit(byte_limit) ==
    /\ Idle /\ Len(limits) < MaxDepth
    /\ current_limit' = Enforced(Absolute(byte_limit))
    /\ b' = RecomputeBufferLimits(b, Smaller(current_limit', total_bytes_limit))
    /\ limits' = Append(limits, [asked |-> Absolute(byte_limit), old |-> current_limit])
    /\ op' = NoOp
    /\ UNCHANGED <<input, total_bytes_limit, legit, lost, alive>>

PopLimit ==
    /\ Idle /\ limits # <<>>
    /\ current_limit' = limits[Len(limits)].old
    /\ b' = RecomputeBufferLimits(b, Smaller(current_limit', total_bytes_limit))
    /\ limits' = SubSeq(limits, 1, Len(limits) - 1)
    /\ legit' = FALSE /\ op' = NoOp
    /\ UNCHANGED <<input, total_bytes_limit, lost, alive>>

SetTotalBytesLimit(n) ==
    /\ Idle
    /\ total_bytes_limit' = Larger(CurrentPosition(b), n)
    /\ b' = RecomputeBufferLimits(b, Smaller(current_limit, total_bytes_limit'))
    /\ op' = NoOp
    /\ UNCHANGED <<input, current_limit, limits, legit, lost, alive>>

-----------------------------------------------------------------------------
(* Skip, ReadRaw and their like.                                             *)

\* input_->Skip(n), with total_bytes_read_ already at its new value.
SkipInput(s, n) ==
    LET given == Smaller(s.given + n, Len(more))
    IN [s EXCEPT !.buffer = given, !.end = given, !.given = given, !.read = @ + n]

Skip(count) ==
    LET left == count - BufferSize(b)
        dropped == [b EXCEPT !.buffer = b.end]
        room == Closest - b.read
        Ends(s, ok) == b' = s /\ op' = Over(Begun("skip", count), IF ok THEN "ok" ELSE "failed")
        Past(n) == b.given + n > Len(more)
    IN /\ Idle
       /\ \/ left <= 0 /\ Ends(Advance(b, count), TRUE) /\ UNCHANGED lost
          \/ left > 0 /\ b.after > 0 /\ Ends(dropped, FALSE) /\ UNCHANGED lost
          \/ left > 0 /\ b.after = 0 /\ room < left
             /\ Ends(IF room > 0 THEN SkipInput(b, room) ELSE dropped, FALSE)
             /\ lost' = (lost \/ (room > 0 /\ Past(room)))
          \/ left > 0 /\ b.after = 0 /\ room >= left
             /\ Ends(SkipInput(b, left), ~Past(left))
             /\ lost' = (lost \/ Past(left))
       /\ UNCHANGED <<input, limitVars, legit, alive>>

\* ReadRaw, ReadString and the little endian numbers.
ReadRaw(n) ==
    /\ Idle
    /\ op' = Begun("raw", n)
    /\ UNCHANGED <<input, b, limitVars, legit, lost, alive>>

\* Mutant: a last piece that is just as long as what is wanted is fetched again.
EnoughLess(n) == BufferSize(b) > n

Enough(n) == BufferSize(b) >= n

\* A round of the loop of ReadRaw; want - (buffer - from) bytes are to come.
RawLoop ==
    LET left == op.want - (b.buffer - op.from)
    IN /\ op.kind = "raw" /\ op.phase = "loop"
       /\ \/ Enough(left) /\ b' = Advance(b, left) /\ op' = Over(op, "ok")
          \/ /\ ~Enough(left)
             /\ \E r \in Refresh(Advance(b, BufferSize(b))) :
                  b' = r.b /\ op' = IF r.ok THEN op ELSE Over(op, "failed")
       /\ UNCHANGED <<input, limitVars, legit, lost, alive>>

GetDirectBufferPointer ==
    /\ Idle /\ BufferSize(b) = 0
    /\ \E r \in Refresh(b) : b' = r.b
    /\ op' = NoOp
    /\ UNCHANGED <<input, limitVars, legit, lost, alive>>

-----------------------------------------------------------------------------
(* Varints and tags.                                                         *)

\* Enough bytes for any varint, or one that ends with the buffer: no checks.
Fast(s) == BufferSize(s) >= kMaxVarintBytes \/ (BufferSize(s) > 0 /\ ~more[s.end])

\* The bytes of the varint at a position, all that there can be if it goes on.
VarintSize(p) ==
    CHOOSE n \in 1..kMaxVarintBytes :
      /\ \A i \in 1..(n - 1) : more[p + i]
      /\ n = kMaxVarintBytes \/ ~more[p + n]

\* ReadVarint64 at s: the fast path at once, the slow one byte by byte.
BeginVarint(s, o) ==
    IF ~Fast(s) THEN b' = s /\ op' = o
    ELSE LET n == VarintSize(s.buffer)
         IN IF more[s.buffer + n] THEN b' = s /\ op' = Over(o, "failed")
            ELSE b' = Advance(s, n) /\ op' = Over(o, "ok")

ReadVarint ==
    /\ Idle
    /\ BeginVarint(b, Begun("varint", 0))
    /\ UNCHANGED <<input, limitVars, legit, lost, alive>>

\* A round of ReadVarint64Slow.
VarintLoop ==
    /\ op.kind \in {"varint", "tag"} /\ op.phase = "loop"
    /\ \/ b.buffer - op.from = kMaxVarintBytes /\ op' = Over(op, "failed") /\ UNCHANGED b
       \/ /\ b.buffer - op.from < kMaxVarintBytes /\ BufferSize(b) = 0
          /\ \E r \in Refresh(b) : b' = r.b /\ op' = IF r.ok THEN op ELSE Over(op, "failed")
       \/ /\ b.buffer - op.from < kMaxVarintBytes /\ BufferSize(b) > 0
          /\ b' = Advance(b, 1)
          /\ op' = IF more[b.buffer + 1] THEN op ELSE Over(op, "ok")
    /\ UNCHANGED <<input, limitVars, legit, lost, alive>>

\* ReadTagFallback sees a limit, and not just total_bytes_limit_, at once.
QuickEnd ==
    /\ BufferSize(b) = 0
    /\ b.after > 0 \/ b.read = current_limit
    /\ b.read - b.after < total_bytes_limit

ReadTag ==
    LET tag == Begun("tag", 0)
    IN /\ Idle
       /\ \/ BufferSize(b) > 0 /\ BeginVarint(b, tag) /\ UNCHANGED legit
          \/ QuickEnd /\ legit' = TRUE /\ op' = Over(tag, "end") /\ UNCHANGED b
          \/ /\ BufferSize(b) = 0 /\ ~QuickEnd
             /\ \E r \in Refresh(b) :
                  \/ r.ok /\ BeginVarint(r.b, tag) /\ UNCHANGED legit
                  \/ /\ ~r.ok /\ b' = r.b /\ op' = Over(tag, "end")
                     /\ legit' = (r.b.read - r.b.after >= total_bytes_limit
                                  => current_limit = total_bytes_limit)
       /\ UNCHANGED <<input, limitVars, lost, alive>>

ExpectAtEnd ==
    /\ Idle
    /\ BufferSize(b) = 0 /\ (b.after # 0 \/ b.read = current_limit)
    /\ legit' = TRUE
    /\ op' = Over(Begun("expect", 0), "end")
    /\ UNCHANGED <<input, b, limitVars, lost, alive>>

Next ==
    \/ FirstRefresh \/ Destroy \/ PopLimit
    \/ \E n \in -1..IntMax : PushLimit(n)
    \/ \E n \in 0..IntMax : SetTotalBytesLimit(n) \/ Skip(n) \/ ReadRaw(n)
    \/ RawLoop \/ GetDirectBufferPointer
    \/ ReadVarint \/ VarintLoop \/ ReadTag \/ ExpectAtEnd

Spec == Init /\ [][Next]_vars

-----------------------------------------------------------------------------

\* The input can be read up to here.
End == Smaller(Len(more), Closest)

\* The buffer does not end before it begins: no limit is "already past", which
\* "could confuse other code" (SetTotalBytesLimit).
BufferInOrder == b.buffer <= b.end

\* The position the limits are counted from is the one in the input, whatever
\* was hidden behind a limit, cut off at INT_MAX or skipped, and the destructor
\* leaves the input right behind the last byte that was read, for whoever reads
\* from it next; only a Skip that went past the end of the input leaves a wrong
\* position.
PositionTrue ==
    ~lost => /\ CurrentPosition(b) = b.buffer
             /\ ~flat => b.given = (IF alive THEN b.end + b.after + b.overflow ELSE b.buffer)

\* No byte behind a limit is in the buffer, be it one pushed further out, the
\* total or INT_MAX, while limits are pushed and popped.
LimitsHold ==
    ~lost /\ (op.kind # "none" \/ op.phase # "loop") =>
        /\ \A i \in DOMAIN limits : b.end <= limits[i].asked
        /\ b.end <= total_bytes_limit /\ b.end <= IntMax

\* A read gets what it asks for and no more, whatever pieces the input comes in
\* and whether or not it took the path without checks; one that fails does so
\* for want of bytes before the nearest limit, or for an overlong varint.  A tag
\* that is not there is the end of a message at a limit that was pushed and at
\* the end of the input, unless the total comes first.
ReadsExact ==
    ~lost =>
      /\ op.kind \in {"raw", "skip"} /\ op.phase = "ok" => b.buffer = op.from + op.want
      /\ op.kind \in {"raw", "skip"} /\ op.phase = "failed" =>
           b.buffer = End /\ End < op.from + op.want
      /\ op.kind \in {"varint", "tag"} /\ op.phase = "ok" =>
           /\ b.buffer - op.from \in 1..kMaxVarintBytes /\ ~more[b.buffer]
           /\ \A p \in (op.from + 1)..(b.buffer - 1) : more[p]
      /\ op.kind \in {"varint", "tag"} /\ op.phase = "failed" =>
           LET last == Smaller(End, op.from + kMaxVarintBytes)
           IN /\ \A p \in (op.from + 1)..last : more[p]
              /\ b.buffer \in {op.from, last}
      /\ op.kind = "tag" /\ op.phase = "end" =>
           /\ b.buffer = op.from /\ b.buffer = End
           /\ legit <=> (b.buffer = current_limit \/ (b.buffer = Len(more) /\ b.buffer < total_bytes_limit))
=============================================================================
