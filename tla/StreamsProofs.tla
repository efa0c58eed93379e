---------------------------- MODULE StreamsProofs ----------------------------
(* That the reader of coded data keeps its place and its limits and reads    *)
(* what it is asked for, for any input, any pieces it comes in and any       *)
(* limits pushed, popped and reset; and that streams made of streams are a   *)
(* stream, for files, arrays, blocks and limits of any size.                 *)
EXTENDS CodedInput, InputStreams, SequenceTheorems, WellFoundedInduction, TLAPS

Kinds == {"none", "raw", "skip", "varint", "tag", "expect"}
Phases == {"loop", "ok", "failed", "end"}
Buffers == [buffer : Nat, end : Nat, read : 0..IntMax, overflow : Nat, after : Nat, given : Nat]
Ops == [kind : Kinds, from : Nat, want : Nat, phase : Phases]
Limit == [asked : 0..IntMax, old : 0..IntMax]

\* An array is not longer than the limit on the whole: of longer ones
\* BufferInOrder does not hold.
ArraysFit == MaxFlat <= DefaultTotal

Types ==
    /\ more \in Seq(BOOLEAN) /\ flat \in BOOLEAN /\ alive \in BOOLEAN /\ legit \in BOOLEAN
    /\ op \in Ops
    /\ current_limit \in 0..IntMax /\ total_bytes_limit \in 0..IntMax
    /\ limits \in Seq(Limit)

\* The buffer ends at the nearest limit or where the input has been read to,
\* which are the bytes the input gave, but for those beyond INT_MAX.
Placed(s) ==
    /\ s \in Buffers
    /\ s.buffer <= s.end /\ s.end = Smaller(s.read, Closest) /\ s.after = s.read - s.end
    /\ s.overflow > 0 => s.read = IntMax
    /\ flat => s.read = Len(more) /\ s.overflow = 0 /\ current_limit <= Len(more)
    /\ ~flat => s.given = s.read + s.overflow /\ s.given <= Len(more)

\* Every limit that is popped gives way to one as far out or farther.
Nested ==
    /\ \A i \in 1..Len(limits) :
         current_limit <= limits[i].asked /\ current_limit <= limits[i].old
    /\ \A i, j \in 1..Len(limits) :
         i < j => limits[j].old <= limits[i].asked /\ limits[j].old <= limits[i].old
    /\ flat => \A i \in 1..Len(limits) : limits[i].old <= Len(more)

\* What an operation under way has read so far.
UnderWay ==
    op.phase = "loop" =>
      /\ alive /\ op.from <= b.buffer
      /\ op.kind \in {"none", "raw", "varint", "tag"}
      /\ op.kind = "none" => b.buffer = b.end
      /\ op.kind = "raw" => b.buffer <= op.from + op.want
      /\ op.kind \in {"varint", "tag"} =>
           /\ b.buffer <= op.from + kMaxVarintBytes
           /\ \A p \in (op.from + 1)..b.buffer : more[p]

Destroyed == ~flat /\ ~alive => b.read = b.buffer /\ b.overflow = 0

Exact ==
    /\ op.kind \in {"raw", "skip"} /\ op.phase = "ok" => b.buffer = op.from + op.want
    /\ op.kind \in {"raw", "skip"} /\ op.phase = "failed" =>
         b.buffer = End /\ End < op.from + op.want
    /\ op.kind \in {"varint", "tag"} /\ op.phase = "ok" =>
         /\ b.buffer - op.from \in 1..kMaxVarintBytes /\ ~more[b.buffer]
         /\ \A p \in (op.from + 1)..(b.buffer - 1) : more[p]
    /\ op.kind \in {"varint", "tag"} /\ op.phase = "failed" =>
         LET last == Smaller(End, op.from + kMaxVarintBytes)
         IN /\ \A p \in (op.from + 1)..last : more[p]
            /\ b.buffer \in {op.from, last}
    /\ op.kind = "tag" /\ op.phase = "end" =>
         /\ b.buffer = op.from /\ b.buffer = End
         /\ legit <=> (b.buffer = current_limit \/ (b.buffer = Len(more) /\ b.buffer < total_bytes_limit))

Sound == Types /\ Placed(b) /\ Nested /\ UnderWay /\ Destroyed /\ Exact

CInv == lost \in BOOLEAN /\ (~lost => Sound)

-----------------------------------------------------------------------------
(* The buffer.                                                               *)

LEMMA FieldTypes ==
  ASSUME NEW s \in Buffers
  PROVE  /\ s.buffer \in Nat /\ s.end \in Nat /\ s.overflow \in Nat /\ s.after \in Nat
         /\ s.given \in Nat /\ s.read \in Nat /\ s.read <= IntMax
  BY CodedAssumption DEF Buffers

\* A limit moves the end of the buffer, and nothing else.
LEMMA RecomputePlaces ==
  ASSUME NEW s \in Buffers, NEW closest \in 0..IntMax,
         s.end + s.after = s.read, s.buffer <= s.read, s.buffer <= closest
  PROVE  LET t == RecomputeBufferLimits(s, closest)
         IN /\ t \in Buffers
            /\ t.buffer = s.buffer /\ t.read = s.read /\ t.overflow = s.overflow /\ t.given = s.given
            /\ t.buffer <= t.end /\ t.end = Smaller(s.read, closest) /\ t.after = s.read - t.end
  <1> DEFINE after == IF closest < s.read THEN s.read - closest ELSE 0
             t == [s EXCEPT !.end = @ + s.after - after, !.after = after]
  <1>1. /\ after \in Nat /\ s.end + s.after - after = Smaller(s.read, closest)
        /\ Smaller(s.read, closest) \in Nat /\ s.buffer <= Smaller(s.read, closest)
        /\ after = s.read - Smaller(s.read, closest)
    BY CodedAssumption, FieldTypes DEF Smaller
  <1> HIDE DEF after
  <1>2. /\ t \in Buffers /\ t.end = s.end + s.after - after /\ t.after = after
        /\ t.buffer = s.buffer /\ t.read = s.read /\ t.overflow = s.overflow /\ t.given = s.given
    BY <1>1, FieldTypes DEF Buffers
  <1>3. RecomputeBufferLimits(s, closest) = t
    BY DEF RecomputeBufferLimits, after
  <1> QED BY <1>1, <1>2, <1>3

LEMMA ClosestType ==
  ASSUME Types
  PROVE  /\ Closest \in 0..IntMax /\ Len(more) \in Nat
         /\ Closest <= current_limit /\ Closest <= total_bytes_limit
  BY CodedAssumption, LenProperties DEF Closest, Types, Smaller

\* The buffer is used up, as it is whenever Refresh is called.
LEMMA TakeChunkPlaces ==
  ASSUME Types, NEW s, Placed(s), s.buffer = s.end, ~AtLimit(s),
         NEW n \in 1..Smaller(MaxChunk, Len(more) - s.given)
  PROVE  Placed(TakeChunk(s, n)) /\ TakeChunk(s, n).buffer = s.buffer
  <1>1. s \in Buffers
    BY DEF Placed
  <1>2. n \in Nat /\ n > 0 /\ s.given + n <= Len(more)
    BY <1>1, FieldTypes, CodedAssumption, ClosestType DEF Smaller
  <1>3. /\ ~flat /\ s.after = 0 /\ s.overflow = 0 /\ s.given = s.read /\ s.read = s.end
        /\ s.read # current_limit /\ s.read <= Closest
    BY <1>1, FieldTypes, ClosestType DEF Placed, AtLimit, Smaller, Types
  <1> DEFINE over == Larger(0, s.read - (IntMax - n))
             u == [s EXCEPT !.buffer = s.given, !.end = s.given + n - over, !.given = @ + n,
                            !.read = @ + n - over, !.overflow = over]
  <1>4. /\ over \in Nat /\ over <= n /\ s.read + n - over \in 0..IntMax
        /\ over > 0 => s.read + n - over = IntMax
    BY <1>1, <1>2, FieldTypes, CodedAssumption DEF Larger
  <1>5. TakeChunk(s, n) = RecomputeBufferLimits(u, Closest)
    BY DEF TakeChunk
  <1> HIDE DEF over
  <1>6. /\ u \in Buffers
        /\ u.buffer = s.given /\ u.end = s.given + n - over /\ u.given = s.given + n
        /\ u.read = s.read + n - over /\ u.overflow = over /\ u.after = 0
    <2>1. /\ s.given + n - over \in Nat /\ s.given + n \in Nat /\ s.read + n - over \in 0..IntMax
          /\ s.given \in Nat
      BY <1>1, <1>2, <1>3, <1>4, FieldTypes
    <2> QED BY <1>1, <1>3, <1>4, <2>1 DEF Buffers
  <1> HIDE DEF u
  <1>7. u.end + u.after = u.read /\ u.buffer <= u.read /\ u.buffer <= Closest
    BY <1>1, <1>2, <1>3, <1>4, <1>6, FieldTypes, ClosestType
  <1>8. u.given = u.read + u.overflow
    BY <1>1, <1>2, <1>3, <1>4, <1>6, FieldTypes
  <1> DEFINE t == RecomputeBufferLimits(u, Closest)
  <1>9. /\ t \in Buffers
        /\ t.buffer = u.buffer /\ t.read = u.read /\ t.overflow = u.overflow /\ t.given = u.given
        /\ t.buffer <= t.end /\ t.end = Smaller(u.read, Closest) /\ t.after = u.read - t.end
    BY <1>6, <1>7, ClosestType, RecomputePlaces
  <1> HIDE DEF t
  <1> QED
    <2>1. Placed(t)
      BY <1>2, <1>3, <1>4, <1>6, <1>8, <1>9 DEF Placed
    <2>2. t.buffer = s.buffer
      BY <1>1, <1>3, <1>6, <1>9
    <2> QED BY <2>1, <2>2, <1>5 DEF t

\* Refresh keeps the place and gives what follows; when it fails the buffer is
\* empty for good, for want of bytes before the nearest limit.
LEMMA RefreshPlaces ==
  ASSUME Types, NEW s, Placed(s), s.buffer = s.end, NEW r \in Refresh(s)
  PROVE  /\ Placed(r.b) /\ r.b.buffer = s.buffer
         /\ r.ok \in BOOLEAN
         /\ r.ok => ~flat
         /\ ~r.ok => /\ r.b.buffer = r.b.end /\ s.buffer = End
                     /\ r.b.read = s.read /\ r.b.after = s.after /\ r.b.overflow = s.overflow
                     /\ AtLimit(s) \/ (s.end = Len(more) /\ s.after = 0 /\ s.overflow = 0)
  <1>1. s \in Buffers
    BY DEF Placed
  <1>2. CASE AtLimit(s)
    <2>1. r = [ok |-> FALSE, b |-> s]
      BY <1>2 DEF Refresh
    <2>2. s.buffer = End
      BY <1>1, <1>2, FieldTypes, ClosestType DEF Placed, AtLimit, End, Smaller, Types
    <2> QED BY <1>2, <2>1, <2>2
  <1>3. CASE ~AtLimit(s) /\ s.given = Len(more)
    <2>1. r = [ok |-> FALSE, b |-> [s EXCEPT !.buffer = s.given, !.end = s.given]]
      BY <1>3 DEF Refresh
    <2>2. s.given = s.end /\ s.after = 0 /\ s.overflow = 0 /\ s.end <= Closest
      BY <1>1, <1>3, FieldTypes, ClosestType DEF Placed, AtLimit, Smaller, Types
    <2>3. r.b = s /\ r.ok = FALSE
      BY <1>1, <2>1, <2>2 DEF Buffers
    <2>4. s.buffer = End
      BY <1>1, <1>3, <2>2, FieldTypes, ClosestType DEF End, Smaller
    <2> QED BY <1>3, <2>2, <2>3, <2>4
  <1>4. CASE ~AtLimit(s) /\ s.given # Len(more)
    <2>1. PICK n \in 1..Smaller(MaxChunk, Len(more) - s.given) :
            r = [ok |-> TRUE, b |-> TakeChunk(s, n)]
      BY <1>4 DEF Refresh
    <2>2. ~flat
      BY <1>1, <1>4, FieldTypes, ClosestType DEF Placed, AtLimit, Smaller, Types
    <2> QED BY <1>4, <2>1, <2>2, TakeChunkPlaces
  <1> QED BY <1>2, <1>3, <1>4

LEMMA AdvancePlaces ==
  ASSUME NEW s, Placed(s), NEW n \in Nat, s.buffer + n <= s.end
  PROVE  /\ Placed(Advance(s, n)) /\ Advance(s, n).buffer = s.buffer + n
         /\ Advance(s, n).end = s.end /\ Advance(s, n).read = s.read
         /\ Advance(s, n).after = s.after /\ Advance(s, n).overflow = s.overflow
  <1>1. s \in Buffers /\ s.buffer + n \in Nat
    BY FieldTypes DEF Placed
  <1>2. /\ Advance(s, n) \in Buffers /\ Advance(s, n).buffer = s.buffer + n
        /\ Advance(s, n).end = s.end /\ Advance(s, n).read = s.read
        /\ Advance(s, n).after = s.after /\ Advance(s, n).overflow = s.overflow
        /\ Advance(s, n).given = s.given
    BY <1>1 DEF Advance, Buffers
  <1> QED BY <1>2 DEF Placed

\* What is read is within the input and the limits.
LEMMA WithinLimits ==
  ASSUME Types, NEW s, Placed(s)
  PROVE  /\ s.buffer \in Nat /\ s.end \in Nat /\ s.buffer <= s.end
         /\ s.end <= Closest /\ s.end <= Len(more) /\ s.end <= End
         /\ End \in Nat /\ CurrentPosition(s) = s.buffer
  BY FieldTypes, ClosestType DEF Placed, Smaller, End, CurrentPosition, BufferSize

\* An operation that leaves the limits alone has its buffer and itself to
\* account for.
LEMMA LimitsStay ==
  ASSUME Sound, alive, UNCHANGED <<input, limitVars, alive>>, Placed(b'), op' \in Ops,
         legit' \in BOOLEAN
  PROVE  /\ Types' /\ Placed(b)' /\ Nested' /\ Destroyed' /\ End' = End
         /\ UnderWay' /\ Exact' => Sound'
  <1>1. Types' /\ Nested' /\ Destroyed' /\ End' = End /\ Closest' = Closest
    BY DEF Sound, Types, Nested, Destroyed, End, Closest, input, limitVars
  <1>2. Placed(b)'
    BY <1>1 DEF Placed, input, limitVars
  <1> QED BY <1>1, <1>2 DEF Sound

LEMMA InitHolds == ArraysFit /\ Init => CInv
  <1> SUFFICES ASSUME ArraysFit, Init PROVE CInv
    OBVIOUS
  <1> USE CodedAssumption
  <1>1. more \in Seq(BOOLEAN) /\ Len(more) \in Nat
    BY LenProperties DEF Init
  <1>2. flat => Len(more) <= DefaultTotal /\ Len(more) <= IntMax
    BY <1>1 DEF Init, ArraysFit
  <1>3. Types
    <2>1. op \in Ops
      BY DEF Init, NoOp, Over, Ops, Kinds, Phases
    <2>2. current_limit \in 0..IntMax /\ total_bytes_limit \in 0..IntMax /\ flat \in BOOLEAN
      BY <1>1, <1>2 DEF Init, FlatLimit
    <2>3. limits \in Seq(Limit)
      BY EmptySeq DEF Init
    <2> QED BY <1>1, <2>1, <2>2, <2>3 DEF Init, Types
  <1>4. Placed(b)
    <2>1. CASE flat
      <3>1. b = [buffer |-> 0, end |-> Len(more), read |-> Len(more), overflow |-> 0,
                 after |-> 0, given |-> 0]
        BY <2>1 DEF Init, Fresh
      <3>2. Len(more) \in 0..IntMax /\ Closest = Len(more) /\ current_limit = Len(more)
        BY <1>1, <1>2, <2>1 DEF Init, Closest, Smaller, FlatLimit
      <3> QED BY <1>1, <2>1, <3>1, <3>2 DEF Placed, Buffers, Smaller
    <2>2. CASE ~flat
      <3>1. b = Fresh /\ 0 \in 0..IntMax /\ 0 <= Closest /\ Closest \in Nat
        BY <2>2 DEF Init, Closest, Smaller
      <3> QED BY <1>1, <2>2, <3>1 DEF Placed, Buffers, Smaller, Fresh
    <2> QED BY <2>1, <2>2
  <1>5. Nested /\ Destroyed /\ Exact
    BY DEF Init, Nested, Destroyed, Exact, NoOp, Over
  <1>6. UnderWay
    BY DEF Init, UnderWay, NoOp, Over, Fresh
  <1> QED BY <1>3, <1>4, <1>5, <1>6 DEF CInv, Sound, Init

LEMMA FirstRefreshSound ==
  ASSUME Sound, FirstRefresh
  PROVE  Sound'
  <1>1. alive /\ b.buffer = b.end /\ UNCHANGED <<input, limitVars, alive>> /\ legit' = legit
    BY DEF FirstRefresh, Sound, UnderWay
  <1>2. Placed(b')
    BY <1>1, RefreshPlaces DEF FirstRefresh, Sound
  <1>3. op' = NoOp /\ op' \in Ops
    BY DEF FirstRefresh, NoOp, Ops, Kinds, Phases
  <1>4. UnderWay' /\ Exact'
    BY <1>3 DEF UnderWay, Exact, NoOp
  <1> QED BY <1>1, <1>2, <1>3, <1>4, LimitsStay DEF Sound, Types

LEMMA GetDirectSound ==
  ASSUME Sound, GetDirectBufferPointer
  PROVE  Sound'
  <1>1. alive /\ UNCHANGED <<input, limitVars, alive>> /\ legit' = legit
    BY DEF GetDirectBufferPointer, Idle
  <1>2. b.buffer = b.end
    BY WithinLimits DEF GetDirectBufferPointer, BufferSize, Sound
  <1>3. Placed(b')
    BY <1>2, RefreshPlaces DEF GetDirectBufferPointer, Sound
  <1>4. op' = NoOp /\ op' \in Ops
    BY DEF GetDirectBufferPointer, NoOp, Ops, Kinds, Phases
  <1>5. UnderWay' /\ Exact'
    BY <1>4 DEF UnderWay, Exact, NoOp
  <1> QED BY <1>1, <1>3, <1>4, <1>5, LimitsStay DEF Sound, Types

LEMMA DestroySound ==
  ASSUME Sound, Destroy
  PROVE  Sound'
  <1>1. b \in Buffers /\ UNCHANGED <<input, limitVars, legit, op>> /\ alive' = FALSE
        /\ op.phase # "loop"
    BY DEF Sound, Placed, Destroy, Idle
  <1>2. CASE flat
    <2>1. b' = b
      BY <1>2 DEF Destroy
    <2> QED
      BY <1>1, <1>2, <2>1 DEF Sound, Types, Placed, Nested, UnderWay, Destroyed, Exact, End,
         Closest, input, limitVars
  <1>3. CASE ~flat
    <2>1. /\ b.given - Unread(b) = b.buffer
          /\ b.read - (BufferSize(b) + b.after) = b.buffer
      BY <1>1, <1>3, FieldTypes DEF Sound, Placed, Unread, BufferSize
    <2>2. b' = [b EXCEPT !.given = b.buffer, !.read = b.buffer, !.end = b.buffer,
                         !.after = 0, !.overflow = 0]
      BY <1>3, <2>1 DEF Destroy
    <2>3. b.buffer \in 0..IntMax /\ b.buffer <= Closest /\ b.buffer <= Len(more)
          /\ Closest \in 0..IntMax
      BY <1>1, FieldTypes, CodedAssumption, WithinLimits, ClosestType DEF Sound, Placed
    <2>4. /\ b' \in Buffers /\ b'.buffer = b.buffer /\ b'.end = b.buffer /\ b'.read = b.buffer
          /\ b'.after = 0 /\ b'.overflow = 0 /\ b'.given = b.buffer
      BY <1>1, <2>2, <2>3, FieldTypes DEF Buffers
    <2>5. Closest' = Closest /\ End' = End
      BY <1>1 DEF Closest, End, input, limitVars
    <2>6. Placed(b)'
      BY <1>1, <1>3, <2>3, <2>4, <2>5 DEF Placed, Smaller, input
    <2>7. Exact' /\ UnderWay'
      BY <1>1, <2>4, <2>5 DEF Sound, Exact, UnderWay, input, limitVars
    <2> QED
      BY <1>1, <2>4, <2>6, <2>7 DEF Sound, Types, Nested, Destroyed, input, limitVars
  <1> QED BY <1>2, <1>3

-----------------------------------------------------------------------------
(* Limits.                                                                   *)

\* Wherever the nearest limit moves, not before the place that is read next.
LEMMA NewLimitPlaces ==
  ASSUME Sound, UNCHANGED input,
         current_limit' \in 0..IntMax, total_bytes_limit' \in 0..IntMax,
         b.buffer <= current_limit', b.buffer <= total_bytes_limit',
         flat => current_limit' <= Len(more),
         b' = RecomputeBufferLimits(b, Closest')
  PROVE  Placed(b)' /\ b'.buffer = b.buffer /\ b'.read = b.read /\ b'.overflow = b.overflow
  <1>1. b \in Buffers /\ b.end + b.after = b.read /\ b.buffer <= b.read
    BY FieldTypes DEF Sound, Placed, Smaller
  <1>2. Closest' \in 0..IntMax /\ b.buffer <= Closest'
    BY DEF Closest, Smaller
  <1>3. /\ b' \in Buffers
        /\ b'.buffer = b.buffer /\ b'.read = b.read /\ b'.overflow = b.overflow
        /\ b'.given = b.given
        /\ b'.buffer <= b'.end /\ b'.end = Smaller(b.read, Closest') /\ b'.after = b.read - b'.end
    BY <1>1, <1>2, RecomputePlaces
  <1> QED BY <1>3 DEF Sound, Placed, Smaller, input

LEMMA NoOpSound ==
  ASSUME Sound, alive, UNCHANGED alive, op' = NoOp
  PROVE  op' \in Ops /\ UnderWay' /\ Exact' /\ Destroyed'
  BY DEF NoOp, Ops, Kinds, Phases, UnderWay, Exact, Destroyed

LEMMA PushLimitSound ==
  ASSUME Sound, NEW n \in Int, PushLimit(n)
  PROVE  Sound'
  <1>1. /\ alive /\ op' = NoOp /\ UNCHANGED <<input, total_bytes_limit, legit, alive>>
        /\ current_limit' = Enforced(Absolute(n))
        /\ limits' = Append(limits, [asked |-> Absolute(n), old |-> current_limit])
    BY DEF PushLimit, Idle
  <1>2. current_limit \in 0..IntMax /\ total_bytes_limit \in 0..IntMax /\ limits \in Seq(Limit)
    BY DEF Sound, Types
  <1>3. /\ b.buffer \in Nat /\ CurrentPosition(b) = b.buffer /\ b.buffer <= Closest
        /\ Closest <= current_limit /\ Closest <= total_bytes_limit /\ Closest \in Nat
    BY WithinLimits, ClosestType DEF Sound
  <1>4. Absolute(n) \in 0..IntMax /\ b.buffer <= Absolute(n)
    BY <1>2, <1>3, CodedAssumption DEF Absolute
  <1>5. /\ current_limit' \in 0..IntMax /\ b.buffer <= current_limit'
        /\ current_limit' <= current_limit /\ current_limit' <= Absolute(n)
    BY <1>1, <1>2, <1>3, <1>4 DEF Enforced, Smaller
  <1>6. b' = RecomputeBufferLimits(b, Closest')
    BY <1>1 DEF PushLimit, Closest
  <1>7. flat => current_limit' <= Len(more)
    BY <1>2, <1>5, ClosestType DEF Sound, Placed
  <1>8. Placed(b)'
    BY <1>1, <1>2, <1>3, <1>5, <1>6, <1>7, NewLimitPlaces
  <1> DEFINE lim == [asked |-> Absolute(n), old |-> current_limit]
  <1>9. /\ lim \in Limit /\ limits' \in Seq(Limit) /\ Len(limits') = Len(limits) + 1
        /\ Len(limits) \in Nat
        /\ \A i \in 1..Len(limits) : limits'[i] = limits[i] /\ limits[i] \in Limit
        /\ limits'[Len(limits) + 1] = lim
    <2>1. lim \in Limit
      BY <1>2, <1>4 DEF Limit
    <2>2. limits' = Append(limits, lim)
      BY <1>1
    <2> HIDE DEF lim
    <2> QED BY <1>2, <2>1, <2>2, AppendProperties, LenProperties, ElementOfSeq
  <1>10. Nested'
    <2>1. ASSUME NEW i \in 1..Len(limits')
          PROVE  /\ current_limit' <= limits'[i].asked /\ current_limit' <= limits'[i].old
                 /\ flat => limits'[i].old <= Len(more)
      <3>1. CASE i = Len(limits) + 1
        BY <1>2, <1>4, <1>5, <1>9, <3>1 DEF Sound, Placed
      <3>2. CASE i \in 1..Len(limits)
        <4>1. limits[i].asked \in 0..IntMax /\ limits[i].old \in 0..IntMax
          BY <1>9, <3>2 DEF Limit
        <4>2. /\ current_limit <= limits[i].asked /\ current_limit <= limits[i].old
              /\ flat => limits[i].old <= Len(more)
          BY <3>2 DEF Sound, Nested
        <4>3. limits'[i] = limits[i]
          BY <1>9, <3>2
        <4> QED BY <1>2, <1>5, <4>1, <4>2, <4>3, CodedAssumption
      <3> QED BY <1>9, <3>1, <3>2
    <2>2. ASSUME NEW i \in 1..Len(limits'), NEW j \in 1..Len(limits'), i < j
          PROVE  limits'[j].old <= limits'[i].asked /\ limits'[j].old <= limits'[i].old
      <3>1. i \in 1..Len(limits)
        BY <1>9, <2>2
      <3>2. CASE j = Len(limits) + 1
        BY <1>9, <3>1, <3>2 DEF Sound, Nested
      <3>3. CASE j \in 1..Len(limits)
        BY <1>9, <2>2, <3>1, <3>3 DEF Sound, Nested
      <3> QED BY <1>9, <3>2, <3>3
    <2> QED BY <1>1, <2>1, <2>2 DEF Nested, input
  <1> QED BY <1>1, <1>2, <1>5, <1>8, <1>9, <1>10, NoOpSound DEF Sound, Types, input

LEMMA PopLimitSound ==
  ASSUME Sound, PopLimit
  PROVE  Sound'
  <1>1. /\ alive /\ op' = NoOp /\ UNCHANGED <<input, total_bytes_limit, alive>> /\ legit' = FALSE
        /\ limits # <<>> /\ current_limit' = limits[Len(limits)].old
        /\ limits' = SubSeq(limits, 1, Len(limits) - 1)
    BY DEF PopLimit, Idle
  <1>2. /\ current_limit \in 0..IntMax /\ total_bytes_limit \in 0..IntMax /\ limits \in Seq(Limit)
        /\ Len(limits) \in Nat \ {0}
    BY <1>1, EmptySeq DEF Sound, Types
  <1>3. \A i \in 1..Len(limits) : limits[i] \in Limit
    BY <1>2, ElementOfSeq
  <1>4. /\ limits' \in Seq(Limit) /\ Len(limits') = Len(limits) - 1
        /\ \A i \in 1..Len(limits') : limits'[i] = limits[i]
    <2>1. \A i \in 1..(Len(limits) - 1) : limits[i] \in Limit
      BY <1>2, <1>3
    <2>2. /\ SubSeq(limits, 1, Len(limits) - 1) \in Seq(Limit)
          /\ Len(SubSeq(limits, 1, Len(limits) - 1)) = Len(limits) - 1
          /\ \A i \in 1..(Len(limits) - 1) : SubSeq(limits, 1, Len(limits) - 1)[i] = limits[i]
      <3> DEFINE n == Len(limits) - 1
      <3>1. n \in Nat /\ 1 \in Int /\ \A i \in 1..n : limits[i] \in Limit
        BY <1>2, <2>1
      <3> HIDE DEF n
      <3>2. /\ SubSeq(limits, 1, n) \in Seq(Limit)
            /\ Len(SubSeq(limits, 1, n)) = IF 1 <= n THEN n - 1 + 1 ELSE 0
            /\ \A i \in 1..(n - 1 + 1) : SubSeq(limits, 1, n)[i] = limits[1 + i - 1]
        BY <3>1, SubSeqProperties
      <3>3. /\ SubSeq(limits, 1, n) \in Seq(Limit) /\ Len(SubSeq(limits, 1, n)) = n
            /\ \A i \in 1..n : SubSeq(limits, 1, n)[i] = limits[i]
        BY <3>1, <3>2
      <3> QED BY <3>3 DEF n
    <2> QED BY <1>1, <2>2
  <1>5. current_limit' \in 0..IntMax /\ current_limit <= current_limit'
    BY <1>1, <1>2, <1>3 DEF Sound, Nested, Limit
  <1>6. /\ b.buffer \in Nat /\ b.buffer <= current_limit /\ b.buffer <= total_bytes_limit
    BY <1>2, WithinLimits, ClosestType DEF Sound
  <1>7. b' = RecomputeBufferLimits(b, Closest')
    BY <1>1 DEF PopLimit, Closest
  <1>8. flat => current_limit' <= Len(more)
    BY <1>1, <1>2 DEF Sound, Nested
  <1>9. Placed(b)'
    BY <1>1, <1>2, <1>5, <1>6, <1>7, <1>8, NewLimitPlaces
  <1>10. Nested'
    <2>1. ASSUME NEW i \in 1..Len(limits')
          PROVE  /\ i \in 1..Len(limits) /\ i < Len(limits) /\ limits'[i] = limits[i]
                 /\ current_limit' <= limits[i].asked /\ current_limit' <= limits[i].old
      BY <1>1, <1>2, <1>4 DEF Sound, Nested
    <2> QED BY <1>1, <1>2, <1>4, <2>1 DEF Sound, Nested, input
  <1> QED BY <1>1, <1>2, <1>4, <1>5, <1>9, <1>10, NoOpSound DEF Sound, Types, input

LEMMA SetTotalSound ==
  ASSUME Sound, NEW n \in 0..IntMax, SetTotalBytesLimit(n)
  PROVE  Sound'
  <1>1. /\ alive /\ op' = NoOp /\ UNCHANGED <<input, current_limit, limits, legit, alive>>
        /\ total_bytes_limit' = Larger(CurrentPosition(b), n)
    BY DEF SetTotalBytesLimit, Idle
  <1>2. /\ b.buffer \in Nat /\ CurrentPosition(b) = b.buffer /\ b.buffer <= Closest
        /\ Closest <= current_limit /\ Closest \in 0..IntMax
        /\ current_limit \in 0..IntMax
    BY WithinLimits, ClosestType DEF Sound, Types
  <1>3. total_bytes_limit' \in 0..IntMax /\ b.buffer <= total_bytes_limit' /\ b.buffer <= current_limit
    BY <1>1, <1>2, CodedAssumption DEF Larger
  <1>4. b' = RecomputeBufferLimits(b, Closest')
    BY <1>1 DEF SetTotalBytesLimit, Closest
  <1>5. flat => current_limit' <= Len(more)
    BY <1>1 DEF Sound, Placed
  <1>6. Placed(b)'
    BY <1>1, <1>2, <1>3, <1>4, <1>5, NewLimitPlaces
  <1>7. Nested'
    BY <1>1 DEF Sound, Nested, input
  <1> QED BY <1>1, <1>3, <1>6, <1>7, NoOpSound DEF Sound, Types, input

-----------------------------------------------------------------------------
(* Bytes.                                                                    *)

\* An operation that is begun here, and one that goes on or is over.
LEMMA OpsBegun ==
  ASSUME Sound, NEW kind \in Kinds, NEW n \in Nat
  PROVE  /\ Begun(kind, n) \in Ops
         /\ Begun(kind, n).kind = kind /\ Begun(kind, n).from = b.buffer
         /\ Begun(kind, n).want = n /\ Begun(kind, n).phase = "loop"
  BY WithinLimits DEF Sound, Begun, Ops, Phases

LEMMA OpsOver ==
  ASSUME NEW o \in Ops, NEW phase \in Phases
  PROVE  /\ Over(o, phase) \in Ops /\ Over(o, phase).kind = o.kind
         /\ Over(o, phase).from = o.from /\ Over(o, phase).want = o.want
         /\ Over(o, phase).phase = phase
  BY DEF Over, Ops

LEMMA ReadRawSound ==
  ASSUME Sound, NEW n \in Nat, ReadRaw(n)
  PROVE  Sound'
  <1>1. alive /\ UNCHANGED <<input, limitVars, alive>> /\ b' = b /\ legit' = legit
        /\ op' = Begun("raw", n)
    BY DEF ReadRaw, Idle
  <1>2. /\ op' \in Ops /\ op'.kind = "raw" /\ op'.from = b.buffer /\ op'.want = n
        /\ op'.phase = "loop" /\ b.buffer \in Nat
    BY <1>1, OpsBegun, WithinLimits DEF Kinds, Sound
  <1>3. UnderWay' /\ Exact'
    BY <1>1, <1>2 DEF UnderWay, Exact
  <1> QED BY <1>1, <1>2, <1>3, LimitsStay DEF Sound, Types

LEMMA RawLoopSound ==
  ASSUME Sound, RawLoop
  PROVE  Sound'
  <1> DEFINE left == op.want - (b.buffer - op.from)
  <1>1. /\ op.kind = "raw" /\ op.phase = "loop" /\ alive /\ legit' = legit
        /\ UNCHANGED <<input, limitVars, alive>>
    BY DEF RawLoop, Sound, UnderWay
  <1>2. /\ op \in Ops /\ op.from \in Nat /\ op.want \in Nat
        /\ op.from <= b.buffer /\ b.buffer <= op.from + op.want
    BY <1>1 DEF Sound, Types, Ops, UnderWay
  <1>3. b.buffer \in Nat /\ b.end \in Nat /\ b.buffer <= b.end
    BY WithinLimits DEF Sound
  <1>4. left \in Nat
    BY <1>2, <1>3
  <1>5. CASE Enough(left) /\ b' = Advance(b, left) /\ op' = Over(op, "ok")
    <2>1. b.buffer + left <= b.end /\ b.buffer + left = op.from + op.want
      BY <1>2, <1>3, <1>4, <1>5 DEF Enough, BufferSize
    <2>2. Placed(b') /\ b'.buffer = b.buffer + left
      BY <1>4, <1>5, <2>1, AdvancePlaces DEF Sound
    <2>3. /\ op' \in Ops /\ op'.kind = "raw" /\ op'.from = op.from /\ op'.want = op.want
          /\ op'.phase = "ok"
      BY <1>1, <1>2, <1>5, OpsOver DEF Phases
    <2>4. UnderWay' /\ Exact'
      BY <2>1, <2>2, <2>3 DEF UnderWay, Exact
    <2> QED BY <1>1, <2>2, <2>3, <2>4, LimitsStay DEF Sound, Types
  <1>6. ASSUME ~Enough(left), NEW r \in Refresh(Advance(b, BufferSize(b))), b' = r.b,
               op' = IF r.ok THEN op ELSE Over(op, "failed")
        PROVE  Sound'
    <2> DEFINE s == Advance(b, BufferSize(b))
    <2>1. BufferSize(b) \in Nat /\ b.buffer + BufferSize(b) = b.end /\ b.end < op.from + op.want
      BY <1>2, <1>3, <1>4, <1>6 DEF Enough, BufferSize
    <2>2. Placed(s) /\ s.buffer = b.end /\ s.end = b.end
      BY <1>3, <2>1, AdvancePlaces DEF Sound
    <2> HIDE DEF s
    <2>3. Placed(b') /\ b'.buffer = b.end /\ r.ok \in BOOLEAN /\ (~r.ok => b.end = End)
      BY <1>6, <2>2, RefreshPlaces DEF Sound, s
    <2>4. /\ op' \in Ops /\ op'.kind = "raw" /\ op'.from = op.from /\ op'.want = op.want
          /\ op'.phase = IF r.ok THEN "loop" ELSE "failed"
      BY <1>1, <1>2, <1>6, <2>3, OpsOver DEF Phases
    <2>5. End' = End
      BY <1>1, <2>3, <2>4, LimitsStay DEF Sound, Types
    <2>6. UnderWay'
      BY <1>1, <1>2, <1>3, <2>1, <2>3, <2>4 DEF UnderWay
    <2>7. Exact'
      BY <2>1, <2>3, <2>4, <2>5 DEF Exact
    <2> QED BY <1>1, <2>3, <2>4, <2>6, <2>7, LimitsStay DEF Sound, Types
  <1> QED BY <1>5, <1>6 DEF RawLoop

\* input_->Skip to a place that the input has.
LEMMA SkipInputPlaces ==
  ASSUME Types, NEW s, Placed(s), s.after = 0, NEW n \in Nat \ {0},
         s.read + n <= Closest, s.given + n <= Len(more)
  PROVE  Placed(SkipInput(s, n)) /\ SkipInput(s, n).buffer = s.read + n
  <1>1. s \in Buffers /\ Closest \in 0..IntMax
    BY ClosestType DEF Placed
  <1>2. ~flat /\ s.overflow = 0 /\ s.given = s.read
    BY <1>1, FieldTypes, ClosestType, CodedAssumption DEF Placed, Types
  <1>3. /\ Smaller(s.given + n, Len(more)) = s.given + n
        /\ s.given + n \in Nat /\ s.read + n \in 0..IntMax
    BY <1>1, <1>2, FieldTypes, ClosestType, CodedAssumption DEF Smaller
  <1>4. SkipInput(s, n) = [s EXCEPT !.buffer = s.given + n, !.end = s.given + n,
                                    !.given = s.given + n, !.read = @ + n]
    BY <1>3 DEF SkipInput
  <1> DEFINE t == SkipInput(s, n)
  <1>5. /\ t \in Buffers /\ t.buffer = s.given + n /\ t.end = s.given + n
        /\ t.given = s.given + n /\ t.read = s.read + n /\ t.overflow = s.overflow /\ t.after = 0
    BY <1>1, <1>3, <1>4 DEF Buffers
  <1> HIDE DEF t
  <1>6. /\ s.given \in Nat /\ s.read \in Nat /\ s.read + n <= Closest /\ s.given + n <= Len(more)
        /\ Closest \in Nat /\ Len(more) \in Nat
    BY <1>1, FieldTypes, ClosestType
  <1>7. t.end = Smaller(t.read, Closest) /\ t.after = t.read - t.end /\ t.buffer <= t.end
        /\ t.given = t.read + t.overflow /\ t.given <= Len(more)
    BY <1>2, <1>5, <1>6 DEF Smaller
  <1>8. Placed(t)
    BY <1>2, <1>5, <1>7 DEF Placed
  <1> QED BY <1>2, <1>5, <1>8 DEF t

LEMMA SkipSound ==
  ASSUME Sound, NEW count \in Nat, Skip(count), ~lost'
  PROVE  Sound'
  <1> DEFINE left == count - BufferSize(b)
             dropped == [b EXCEPT !.buffer = b.end]
             room == Closest - b.read
             past(n) == b.given + n > Len(more)
  <1>1. alive /\ UNCHANGED <<input, limitVars, alive>> /\ legit' = legit
    BY DEF Skip, Idle
  <1>2. /\ b \in Buffers /\ b.buffer \in Nat /\ b.end \in Nat /\ b.read \in Nat /\ b.after \in Nat
        /\ b.given \in Nat /\ b.buffer <= b.end /\ b.end = Smaller(b.read, Closest)
        /\ b.after = b.read - b.end /\ b.read <= IntMax
        /\ Closest \in Nat /\ Len(more) \in Nat /\ b.end <= Closest /\ b.end <= Len(more)
    BY FieldTypes, ClosestType, WithinLimits DEF Sound, Placed
  <1>3. left \in Int /\ room \in Int /\ b.end = b.buffer + count - left
    BY <1>2 DEF BufferSize
  <1> HIDE DEF left, room
  <1>4. Placed(dropped) /\ dropped.buffer = b.end
    <2>1. BufferSize(b) \in Nat /\ b.buffer + BufferSize(b) = b.end
      BY <1>2 DEF BufferSize
    <2> DEFINE size == BufferSize(b)
    <2> HIDE DEF size
    <2>2. Advance(b, size) = [b EXCEPT !.buffer = b.buffer + size]
      BY DEF Advance
    <2>3. dropped = Advance(b, size)
      BY <2>1, <2>2 DEF size
    <2>4. Placed(Advance(b, size)) /\ Advance(b, size).buffer = b.buffer + size
      BY <2>1, <1>2, AdvancePlaces DEF Sound, size
    <2>5. b.buffer + size = b.end
      BY <2>1 DEF size
    <2> HIDE DEF dropped
    <2> QED BY <2>3, <2>4, <2>5
  <1> HIDE DEF dropped
  <1>5. ASSUME Placed(b'), NEW ok \in BOOLEAN, op' = Over(Begun("skip", count), IF ok THEN "ok" ELSE "failed"),
               IF ok THEN b'.buffer = b.buffer + count
               ELSE b'.buffer = End /\ End < b.buffer + count
        PROVE  Sound'
    <2>1. /\ op' \in Ops /\ op'.kind = "skip" /\ op'.from = b.buffer /\ op'.want = count
          /\ op'.phase = IF ok THEN "ok" ELSE "failed"
      BY <1>5, OpsBegun, OpsOver DEF Kinds, Phases
    <2>2. End' = End
      BY <1>1, <1>5, <2>1, LimitsStay DEF Sound, Types
    <2>3. UnderWay' /\ Exact'
      BY <1>5, <2>1, <2>2 DEF UnderWay, Exact
    <2> QED BY <1>1, <1>5, <2>1, <2>3, LimitsStay DEF Sound, Types
  <1>6. CASE left <= 0 /\ b' = Advance(b, count) /\ op' = Over(Begun("skip", count), "ok")
    <2>1. Placed(b') /\ b'.buffer = b.buffer + count
      BY <1>2, <1>3, <1>6, AdvancePlaces DEF Sound
    <2> QED BY <1>6, <2>1, <1>5
  <1>7. CASE left > 0 /\ b.after > 0 /\ b' = dropped /\ op' = Over(Begun("skip", count), "failed")
    <2>1. b.end = End /\ End < b.buffer + count
      BY <1>2, <1>3, <1>7 DEF End, Smaller
    <2> QED BY <1>4, <1>5, <1>7, <2>1
  <1>8. CASE left > 0 /\ b.after = 0 /\ room < left /\ op' = Over(Begun("skip", count), "failed")
             /\ b' = (IF room > 0 THEN SkipInput(b, room) ELSE dropped)
             /\ lost' = (lost \/ (room > 0 /\ past(room)))
    <2>1. CASE room > 0
      <3>0. ~past(room)
        BY <1>8, <2>1
      <3>1. room \in Nat \ {0} /\ b.read + room = Closest /\ b.given + room <= Len(more)
        BY <1>2, <1>3, <2>1, <3>0 DEF room
      <3>2. Placed(b') /\ b'.buffer = Closest
        BY <1>8, <2>1, <3>1, <1>2, SkipInputPlaces DEF Sound
      <3>3. Closest <= Len(more)
        <4>1. b'.end <= Len(more) /\ b'.buffer <= b'.end /\ b'.end \in Nat
          BY <3>2, WithinLimits DEF Sound
        <4> QED BY <1>2, <3>2, <4>1
      <3>4. End = Closest /\ End < b.buffer + count
        BY <1>2, <1>3, <1>8, <3>1, <3>3 DEF End, Smaller
      <3> QED BY <1>5, <1>8, <3>2, <3>4
    <2>2. CASE ~(room > 0)
      <3>1. b.end = End /\ End < b.buffer + count
        BY <1>2, <1>3, <1>8, <2>2 DEF End, Smaller, room
      <3> QED BY <1>4, <1>5, <1>8, <2>2, <3>1
    <2> QED BY <2>1, <2>2
  <1>9. CASE left > 0 /\ b.after = 0 /\ room >= left
             /\ b' = SkipInput(b, left) /\ op' = Over(Begun("skip", count), IF ~past(left) THEN "ok" ELSE "failed")
             /\ lost' = (lost \/ past(left))
    <2>0. ~past(left)
      BY <1>9
    <2>1. left \in Nat \ {0} /\ b.read + left <= Closest /\ b.given + left <= Len(more)
      BY <1>2, <1>3, <1>9, <2>0 DEF room
    <2>2. Placed(b') /\ b'.buffer = b.read + left
      BY <1>9, <2>1, SkipInputPlaces DEF Sound
    <2>3. b.read + left = b.buffer + count
      BY <1>2, <1>3, <1>9
    <2> QED BY <1>5, <1>9, <2>0, <2>2, <2>3
  <1> QED BY <1>6, <1>7, <1>8, <1>9 DEF Skip, left, room, dropped

-----------------------------------------------------------------------------
(* Varints and tags.                                                         *)

\* The bytes of a varint are there to be chosen.
LEMMA VarintSizeIs ==
  ASSUME NEW p \in Nat
  PROVE  /\ VarintSize(p) \in 1..kMaxVarintBytes
         /\ \A i \in 1..(VarintSize(p) - 1) : more[p + i]
         /\ VarintSize(p) = kMaxVarintBytes \/ ~more[p + VarintSize(p)]
  <1> DEFINE IsSize(n) == /\ \A i \in 1..(n - 1) : more[p + i]
                          /\ n = kMaxVarintBytes \/ ~more[p + n]
  <1>1. \E n \in 1..kMaxVarintBytes : IsSize(n)
    <2>1. CASE \A i \in 1..kMaxVarintBytes : more[p + i]
      <3>1. kMaxVarintBytes \in 1..kMaxVarintBytes /\ 1..(kMaxVarintBytes - 1) \subseteq 1..kMaxVarintBytes
        BY CodedAssumption
      <3> QED BY <2>1, <3>1
    <2>2. CASE \E i \in 1..kMaxVarintBytes : ~more[p + i]
      <3> DEFINE Ends == {i \in 1..kMaxVarintBytes : ~more[p + i]}
      <3>1. Ends # {} /\ Ends \subseteq Nat
        BY <2>2
      <3>2. PICK n \in Ends : \A i \in Ends : ~(<<i, n>> \in OpToRel(<, Nat))
        BY <3>1, NatLessThanWellFounded, WFMin
      <3>3. n \in 1..kMaxVarintBytes /\ ~more[p + n]
        OBVIOUS
      <3>4. ASSUME NEW i \in 1..(n - 1), ~more[p + i] PROVE FALSE
        <4>1. i \in 1..kMaxVarintBytes /\ i < n /\ i \in Nat /\ n \in Nat
          BY <3>3, CodedAssumption
        <4>2. i \in Ends
          BY <3>4, <4>1
        <4> QED BY <3>2, <4>1, <4>2 DEF OpToRel
      <3> QED BY <3>3, <3>4
    <2> QED BY <2>1, <2>2
  <1>2. VarintSize(p) = CHOOSE n \in 1..kMaxVarintBytes : IsSize(n)
    BY DEF VarintSize
  <1> HIDE DEF IsSize
  <1>3. VarintSize(p) \in 1..kMaxVarintBytes /\ IsSize(VarintSize(p))
    BY <1>1, <1>2
  <1> QED BY <1>3 DEF IsSize

\* The path without checks does not leave the buffer.
LEMMA FastFits ==
  ASSUME Types, NEW s, Placed(s), Fast(s)
  PROVE  s.buffer + VarintSize(s.buffer) <= s.end
  <1>1. s.buffer \in Nat /\ s.end \in Nat /\ kMaxVarintBytes \in Nat
    BY WithinLimits, CodedAssumption
  <1> DEFINE n == VarintSize(s.buffer)
  <1>2. n \in 1..kMaxVarintBytes /\ \A i \in 1..(n - 1) : more[s.buffer + i]
    BY <1>1, VarintSizeIs
  <1> HIDE DEF n
  <1>3. CASE BufferSize(s) >= kMaxVarintBytes
    BY <1>1, <1>2, <1>3 DEF BufferSize, n
  <1>4. CASE BufferSize(s) > 0 /\ ~more[s.end]
    <2>1. s.end - s.buffer \in Nat \ {0} /\ s.buffer + (s.end - s.buffer) = s.end
      BY <1>1, <1>4 DEF BufferSize
    <2>2. ~(s.end - s.buffer \in 1..(n - 1))
      BY <1>2, <1>4, <2>1
    <2> QED BY <1>1, <1>2, <2>1, <2>2 DEF n
  <1> QED BY <1>3, <1>4 DEF Fast

LEMMA BeginVarintSound ==
  ASSUME Sound, alive, UNCHANGED <<input, limitVars, alive>>, legit' \in BOOLEAN,
         NEW s, Placed(s), NEW o \in Ops, o.kind \in {"varint", "tag"}, o.phase = "loop",
         o.from = s.buffer, BeginVarint(s, o)
  PROVE  Sound'
  <1>1. /\ s.buffer \in Nat /\ s.end \in Nat /\ s.end <= End /\ End \in Nat /\ more' = more
        /\ kMaxVarintBytes \in Nat /\ kMaxVarintBytes > 0
    BY WithinLimits, CodedAssumption DEF Sound, input
  <1>2. CASE b' = s /\ op' = o
    <2>1. UnderWay' /\ Exact'
      BY <1>1, <1>2 DEF UnderWay, Exact
    <2> QED BY <1>2, <2>1, LimitsStay
  <1>3. ASSUME Fast(s) PROVE Sound'
    <2> DEFINE n == VarintSize(s.buffer)
    <2>1. /\ n \in 1..kMaxVarintBytes /\ \A i \in 1..(n - 1) : more[s.buffer + i]
          /\ n = kMaxVarintBytes \/ ~more[s.buffer + n]
          /\ s.buffer + n <= s.end
      BY <1>1, <1>3, VarintSizeIs, FastFits DEF Sound
    <2>2. IF more[s.buffer + n] THEN b' = s /\ op' = Over(o, "failed")
          ELSE b' = Advance(s, n) /\ op' = Over(o, "ok")
      BY <1>3 DEF BeginVarint
    <2> HIDE DEF n
    <2>3. \A q \in (s.buffer + 1)..(s.buffer + n - 1) : more[q]
      <3> SUFFICES ASSUME NEW q \in (s.buffer + 1)..(s.buffer + n - 1) PROVE more[q]
        OBVIOUS
      <3>1. q - s.buffer \in 1..(n - 1) /\ s.buffer + (q - s.buffer) = q
        BY <1>1, <2>1
      <3> QED BY <2>1, <3>1
    <2>4. CASE more[s.buffer + n]
      <3>1. b' = s /\ op' = Over(o, "failed") /\ n = kMaxVarintBytes
        BY <2>1, <2>2, <2>4
      <3>2. op' \in Ops /\ op'.from = s.buffer /\ op'.phase = "failed" /\ op'.kind \in {"varint", "tag"}
        BY <3>1, OpsOver DEF Phases
      <3>3. End' = End
        BY <3>1, <3>2, LimitsStay
      <3>4. Smaller(End, s.buffer + kMaxVarintBytes) = s.buffer + n
        BY <1>1, <2>1, <3>1 DEF Smaller
      <3>5. \A q \in (s.buffer + 1)..(s.buffer + n) : more[q]
        BY <1>1, <2>1, <2>3, <2>4
      <3>6. UnderWay' /\ Exact'
        BY <1>1, <3>1, <3>2, <3>3, <3>4, <3>5 DEF UnderWay, Exact
      <3> QED BY <3>1, <3>2, <3>6, LimitsStay
    <2>5. CASE ~more[s.buffer + n]
      <3>1. b' = Advance(s, n) /\ op' = Over(o, "ok")
        BY <2>2, <2>5
      <3>2. op' \in Ops /\ op'.from = s.buffer /\ op'.phase = "ok" /\ op'.kind \in {"varint", "tag"}
        BY <3>1, OpsOver DEF Phases
      <3>3. Placed(b') /\ b'.buffer = s.buffer + n
        BY <2>1, <3>1, AdvancePlaces
      <3>4. b'.buffer - s.buffer = n
        BY <1>1, <2>1, <3>3
      <3>5. UnderWay' /\ Exact'
        BY <1>1, <2>1, <2>3, <2>5, <3>2, <3>3, <3>4 DEF UnderWay, Exact
      <3> QED BY <3>2, <3>3, <3>5, LimitsStay
    <2> QED BY <2>4, <2>5
  <1> QED BY <1>2, <1>3 DEF BeginVarint

LEMMA ReadVarintSound ==
  ASSUME Sound, ReadVarint
  PROVE  Sound'
  <1>1. /\ alive /\ UNCHANGED <<input, limitVars, alive>> /\ legit' = legit
        /\ BeginVarint(b, Begun("varint", 0))
    BY DEF ReadVarint, Idle
  <1> DEFINE o == Begun("varint", 0)
  <1>2. o \in Ops /\ o.kind = "varint" /\ o.phase = "loop" /\ o.from = b.buffer
    BY OpsBegun DEF Kinds
  <1> HIDE DEF o
  <1>3. BeginVarint(b, o) /\ legit' \in BOOLEAN /\ Placed(b)
    BY <1>1 DEF o, Sound, Types
  <1> QED BY <1>1, <1>2, <1>3, BeginVarintSound

LEMMA VarintLoopSound ==
  ASSUME Sound, VarintLoop
  PROVE  Sound'
  <1>1. /\ op.kind \in {"varint", "tag"} /\ op.phase = "loop" /\ alive /\ legit' = legit
        /\ UNCHANGED <<input, limitVars, alive>> /\ more' = more
    BY DEF VarintLoop, Sound, UnderWay, input
  <1>2. /\ op \in Ops /\ op.from \in Nat /\ op.from <= b.buffer
        /\ b.buffer <= op.from + kMaxVarintBytes
        /\ \A p \in (op.from + 1)..b.buffer : more[p]
    BY <1>1 DEF Sound, Types, Ops, UnderWay
  <1>3. /\ b.buffer \in Nat /\ b.end \in Nat /\ b.buffer <= b.end /\ b.end <= End /\ End \in Nat
        /\ kMaxVarintBytes \in Nat /\ legit' \in BOOLEAN
    BY <1>1, WithinLimits, CodedAssumption DEF Sound, Types
  <1>4. CASE b.buffer - op.from = kMaxVarintBytes /\ op' = Over(op, "failed") /\ b' = b
    <2>1. op' \in Ops /\ op'.from = op.from /\ op'.phase = "failed" /\ op'.kind = op.kind
      BY <1>2, <1>4, OpsOver DEF Phases
    <2>2. End' = End /\ Placed(b')
      BY <1>1, <1>3, <1>4, <2>1, LimitsStay DEF Sound
    <2>3. Smaller(End, op.from + kMaxVarintBytes) = b.buffer
      BY <1>2, <1>3, <1>4 DEF Smaller
    <2>4. UnderWay' /\ Exact'
      BY <1>1, <1>2, <1>4, <2>1, <2>2, <2>3 DEF UnderWay, Exact
    <2> QED BY <1>1, <1>3, <2>1, <2>2, <2>4, LimitsStay
  <1>5. ASSUME b.buffer - op.from < kMaxVarintBytes, BufferSize(b) = 0,
               NEW r \in Refresh(b), b' = r.b, op' = IF r.ok THEN op ELSE Over(op, "failed")
        PROVE  Sound'
    <2>1. b.buffer = b.end
      BY <1>3, <1>5 DEF BufferSize
    <2>2. Placed(b') /\ b'.buffer = b.buffer /\ r.ok \in BOOLEAN /\ (~r.ok => b.buffer = End)
      BY <1>5, <2>1, RefreshPlaces DEF Sound
    <2>3. /\ op' \in Ops /\ op'.from = op.from /\ op'.kind = op.kind
          /\ op'.phase = IF r.ok THEN "loop" ELSE "failed"
      BY <1>1, <1>2, <1>5, <2>2, OpsOver DEF Phases
    <2>4. End' = End
      BY <1>1, <1>3, <2>2, <2>3, LimitsStay
    <2>5. ~r.ok => Smaller(End, op.from + kMaxVarintBytes) = b.buffer
      BY <1>2, <1>3, <1>5, <2>2 DEF Smaller
    <2>6. UnderWay'
      BY <1>1, <1>2, <1>3, <2>2, <2>3 DEF UnderWay
    <2>7. Exact'
      BY <1>1, <1>2, <2>2, <2>3, <2>4, <2>5 DEF Exact
    <2> QED BY <1>1, <1>3, <2>2, <2>3, <2>6, <2>7, LimitsStay
  <1>6. CASE /\ b.buffer - op.from < kMaxVarintBytes /\ BufferSize(b) > 0 /\ b' = Advance(b, 1)
             /\ op' = IF more[b.buffer + 1] THEN op ELSE Over(op, "ok")
    <2>1. b.buffer + 1 <= b.end
      BY <1>3, <1>6 DEF BufferSize
    <2>2. Placed(b') /\ b'.buffer = b.buffer + 1
      BY <1>6, <2>1, AdvancePlaces DEF Sound
    <2>3. CASE more[b.buffer + 1]
      <3>1. op' = op
        BY <1>6, <2>3
      <3>2. \A p \in (op.from + 1)..(b.buffer + 1) : more[p]
        BY <1>2, <1>3, <2>3
      <3>3. UnderWay' /\ Exact'
        BY <1>1, <1>2, <1>3, <1>6, <2>2, <3>1, <3>2 DEF UnderWay, Exact
      <3> QED BY <1>1, <1>2, <1>3, <2>2, <3>1, <3>3, LimitsStay
    <2>4. CASE ~more[b.buffer + 1]
      <3>1. op' \in Ops /\ op'.from = op.from /\ op'.phase = "ok" /\ op'.kind = op.kind
        BY <1>2, <1>6, <2>4, OpsOver DEF Phases
      <3>2. b'.buffer - op.from \in 1..kMaxVarintBytes /\ b'.buffer - 1 = b.buffer
        BY <1>2, <1>3, <1>6, <2>2
      <3>3. UnderWay' /\ Exact'
        BY <1>1, <1>2, <2>2, <2>4, <3>1, <3>2 DEF UnderWay, Exact
      <3> QED BY <1>1, <1>3, <2>2, <3>1, <3>3, LimitsStay
    <2> QED BY <2>3, <2>4
  <1> QED BY <1>4, <1>5, <1>6 DEF VarintLoop

\* A tag that is not there.
LEMMA TagEndSound ==
  ASSUME Sound, alive, UNCHANGED <<input, limitVars, alive>>, Placed(b'), b'.buffer = b.buffer,
         b.buffer = End, op' = Over(Begun("tag", 0), "end"), legit' \in BOOLEAN,
         legit' <=> (b.buffer = current_limit \/ (b.buffer = Len(more) /\ b.buffer < total_bytes_limit))
  PROVE  Sound'
  <1>1. op' \in Ops /\ op'.kind = "tag" /\ op'.phase = "end" /\ op'.from = b.buffer
    BY OpsBegun, OpsOver DEF Kinds, Phases
  <1>2. /\ End' = End /\ more' = more /\ current_limit' = current_limit
        /\ total_bytes_limit' = total_bytes_limit
    BY <1>1, LimitsStay DEF input, limitVars
  <1>3. UnderWay' /\ Exact'
    BY <1>1, <1>2 DEF UnderWay, Exact
  <1> QED BY <1>1, <1>3, LimitsStay

LEMMA ReadTagSound ==
  ASSUME Sound, ReadTag
  PROVE  Sound'
  <1>1. alive /\ UNCHANGED <<input, limitVars, alive>>
    BY DEF ReadTag, Idle
  <1>2. /\ b.buffer \in Nat /\ b.end \in Nat /\ b.read \in Nat /\ b.after \in Nat /\ b.overflow \in Nat
        /\ b.end = Smaller(b.read, Closest) /\ b.after = b.read - b.end
        /\ b.overflow > 0 => b.read = IntMax
        /\ b.end <= End /\ End \in Nat /\ Closest \in 0..IntMax /\ Len(more) \in Nat
        /\ End = Smaller(Len(more), Closest) /\ Closest = Smaller(current_limit, total_bytes_limit)
        /\ current_limit \in 0..IntMax /\ total_bytes_limit \in 0..IntMax /\ IntMax \in Nat
        /\ legit \in BOOLEAN
    BY FieldTypes, WithinLimits, ClosestType, CodedAssumption DEF Sound, Placed, End, Closest, Types
  <1> DEFINE tag == Begun("tag", 0)
  <1>3. tag \in Ops /\ tag.kind = "tag" /\ tag.phase = "loop" /\ tag.from = b.buffer
    BY OpsBegun DEF Kinds
  <1>4. CASE BeginVarint(b, tag) /\ legit' = legit
    <2> HIDE DEF tag
    <2> QED BY <1>1, <1>2, <1>3, <1>4, BeginVarintSound DEF Sound
  <1>5. CASE QuickEnd /\ legit' = TRUE /\ op' = Over(tag, "end") /\ b' = b
    <2>1. b.buffer = b.end /\ b.end = Closest /\ b.end < total_bytes_limit
      BY <1>2, <1>5 DEF QuickEnd, BufferSize, Smaller
    <2>2. b.buffer = End /\ b.buffer = current_limit
      BY <1>2, <2>1 DEF Smaller
    <2> QED BY <1>1, <1>5, <2>2, TagEndSound DEF Sound
  <1>6. ASSUME BufferSize(b) = 0, NEW r \in Refresh(b),
               \/ r.ok /\ BeginVarint(r.b, tag) /\ UNCHANGED legit
               \/ /\ ~r.ok /\ b' = r.b /\ op' = Over(tag, "end")
                  /\ legit' = (r.b.read - r.b.after >= total_bytes_limit
                               => current_limit = total_bytes_limit)
        PROVE  Sound'
    <2>1. b.buffer = b.end
      BY <1>2, <1>6 DEF BufferSize
    <2>2. /\ Placed(r.b) /\ r.b.buffer = b.buffer /\ r.ok \in BOOLEAN
          /\ ~r.ok => /\ b.buffer = End /\ r.b.read = b.read /\ r.b.after = b.after
                      /\ AtLimit(b) \/ (b.end = Len(more) /\ b.after = 0 /\ b.overflow = 0)
      BY <1>6, <2>1, RefreshPlaces DEF Sound
    <2>3. CASE r.ok /\ BeginVarint(r.b, tag) /\ legit' = legit
      <3> HIDE DEF tag
      <3> QED BY <1>1, <1>2, <1>3, <2>2, <2>3, BeginVarintSound
    <2>4. CASE /\ ~r.ok /\ b' = r.b /\ op' = Over(tag, "end")
               /\ legit' = (r.b.read - r.b.after >= total_bytes_limit
                            => current_limit = total_bytes_limit)
      <3>1. b.end = Closest \/ b.end = Len(more)
        <4>1. Closest <= current_limit /\ b.read <= IntMax
          BY ClosestType, FieldTypes DEF Sound, Placed
        <4>2. CASE b.after > 0
          BY <1>2, <4>2 DEF Smaller
        <4>3. CASE b.overflow > 0
          BY <1>2, <4>1, <4>3 DEF Smaller
        <4>4. CASE b.read = current_limit
          BY <1>2, <4>1, <4>4 DEF Smaller
        <4> QED BY <2>2, <2>4, <4>2, <4>3, <4>4 DEF AtLimit
      <3>2. r.b.read - r.b.after = b.end /\ b.buffer = End /\ b.end <= Closest
        <4>1. r.b.read = b.read /\ r.b.after = b.after /\ b.buffer = End
          BY <2>2, <2>4
        <4>2. b.read - b.after = b.end
          BY <1>2
        <4>3. b.end <= Closest
          BY WithinLimits DEF Sound
        <4> QED BY <4>1, <4>2, <4>3
      <3>3. (b.end >= total_bytes_limit => current_limit = total_bytes_limit)
            <=> (b.buffer = current_limit \/ (b.buffer = Len(more) /\ b.buffer < total_bytes_limit))
        BY <1>2, <2>1, <3>1, <3>2 DEF Smaller
      <3>4. legit' \in BOOLEAN /\ (legit' <=> (b.end >= total_bytes_limit => current_limit = total_bytes_limit))
        BY <2>4, <3>2
      <3> QED BY <1>1, <2>2, <2>4, <3>2, <3>3, <3>4, TagEndSound
    <2> QED BY <1>6, <2>3, <2>4
  <1> QED BY <1>4, <1>5, <1>6 DEF ReadTag

LEMMA ExpectAtEndSound ==
  ASSUME Sound, ExpectAtEnd
  PROVE  Sound'
  <1>1. /\ alive /\ UNCHANGED <<input, limitVars, alive>> /\ b' = b /\ legit' = TRUE
        /\ op' = Over(Begun("expect", 0), "end")
    BY DEF ExpectAtEnd, Idle
  <1>2. op' \in Ops /\ op'.kind = "expect" /\ op'.phase = "end"
    BY <1>1, OpsBegun, OpsOver DEF Kinds, Phases
  <1>3. UnderWay' /\ Exact'
    BY <1>2 DEF UnderWay, Exact
  <1> QED BY <1>1, <1>2, <1>3, LimitsStay DEF Sound

-----------------------------------------------------------------------------
(* All steps.                                                                *)

\* Once a Skip has gone past the end of the input that stays known.
LEMMA LostStays ==
  ASSUME CInv, Next
  PROVE  lost' \in BOOLEAN /\ (lost => lost')
  BY DEF CInv, Next, FirstRefresh, Destroy, PopLimit, PushLimit, SetTotalBytesLimit, Skip, ReadRaw,
     RawLoop, GetDirectBufferPointer, ReadVarint, VarintLoop, ReadTag, ExpectAtEnd

LEMMA NextHolds == CInv /\ [Next]_vars => CInv'
  <1> SUFFICES ASSUME CInv, [Next]_vars PROVE CInv'
    OBVIOUS
  <1>1. CASE UNCHANGED vars
    BY <1>1 DEF CInv, Sound, Types, Placed, Nested, UnderWay, Destroyed, Exact, End, Closest, vars,
       input, limitVars
  <1>2. CASE Next
    <2>1. lost' \in BOOLEAN /\ (lost => lost')
      BY <1>2, LostStays
    <2> SUFFICES ASSUME ~lost' PROVE Sound'
      BY <2>1 DEF CInv
    <2>2. Sound
      BY <2>1 DEF CInv
    <2>3. IntMax \in Nat
      BY CodedAssumption
    <2>4. ASSUME NEW n \in -1..IntMax, PushLimit(n) PROVE Sound'
      BY <2>2, <2>4, PushLimitSound
    <2>5. ASSUME NEW n \in 0..IntMax, SetTotalBytesLimit(n) \/ Skip(n) \/ ReadRaw(n) PROVE Sound'
      <3>1. n \in Nat
        BY <2>3
      <3> QED BY <2>2, <2>5, <3>1, SetTotalSound, SkipSound, ReadRawSound
    <2> QED
      BY <1>2, <2>2, <2>4, <2>5, FirstRefreshSound, DestroySound, PopLimitSound, RawLoopSound,
         GetDirectSound, ReadVarintSound, VarintLoopSound, ReadTagSound, ExpectAtEndSound DEF Next
  <1> QED BY <1>1, <1>2

\* The reader's invariant, whatever the input, the pieces and the limits are: the
\* buffer stands between the bytes read and the nearest limit.
THEOREM ReaderInvariance ==
  ASSUME ArraysFit
  PROVE  Spec => []CInv
  <1>1. Init => CInv
    BY InitHolds
  <1>2. CInv /\ [Next]_vars => CInv'
    BY NextHolds
  <1> QED BY <1>1, <1>2, PTL DEF Spec

\* The position that limits are counted from is the one in the input, and the
\* destructor gives back just what was not read (BackUpInputToCurrentPosition).
THEOREM PositionIsTrue ==
  ASSUME ArraysFit
  PROVE  Spec => []PositionTrue
  <1>1. CInv => PositionTrue
    <2> SUFFICES ASSUME CInv, ~lost
                 PROVE  /\ CurrentPosition(b) = b.buffer
                        /\ ~flat => b.given = (IF alive THEN b.end + b.after + b.overflow
                                               ELSE b.buffer)
      BY DEF PositionTrue
    <2>1. CurrentPosition(b) = b.buffer
      BY WithinLimits DEF CInv, Sound
    <2>2. ~flat => b.given = b.end + b.after + b.overflow
      BY FieldTypes DEF CInv, Sound, Placed
    <2>3. ~flat /\ ~alive => b.given = b.buffer
      BY FieldTypes DEF CInv, Sound, Placed, Destroyed
    <2> QED BY <2>1, <2>2, <2>3
  <1> QED BY <1>1, ReaderInvariance, PTL

\* No limit, nor the total, nor INT_MAX is overrun by what can be read.
THEOREM LimitsAreHeld ==
  ASSUME ArraysFit
  PROVE  Spec => []LimitsHold
  <1>1. CInv => LimitsHold
    <2> SUFFICES ASSUME CInv, ~lost
                 PROVE  /\ \A i \in DOMAIN limits : b.end <= limits[i].asked
                        /\ b.end <= total_bytes_limit /\ b.end <= IntMax
      BY DEF LimitsHold
    <2>1. /\ b.end \in Nat /\ b.end <= Closest /\ Closest \in 0..IntMax
          /\ Closest <= current_limit /\ Closest <= total_bytes_limit
          /\ current_limit \in 0..IntMax /\ total_bytes_limit \in 0..IntMax /\ IntMax \in Nat
      BY WithinLimits, ClosestType, CodedAssumption DEF CInv, Sound, Types
    <2>2. ASSUME NEW i \in DOMAIN limits PROVE b.end <= limits[i].asked
      <3>1. limits \in Seq(Limit) /\ i \in 1..Len(limits)
        BY LenProperties DEF CInv, Sound, Types
      <3>2. limits[i] \in Limit
        BY <3>1, ElementOfSeq
      <3>3. limits[i].asked \in 0..IntMax
        BY <3>2 DEF Limit
      <3>4. current_limit <= limits[i].asked
        BY <3>1 DEF CInv, Sound, Nested
      <3> QED BY <2>1, <3>3, <3>4
    <2> QED BY <2>1, <2>2
  <1> QED BY <1>1, ReaderInvariance, PTL

\* Reads get just what they ask for, and fail only for want of it.
THEOREM ReadsAreExact ==
  ASSUME ArraysFit
  PROVE  Spec => []ReadsExact
  <1>1. CInv => ReadsExact
    BY DEF CInv, Sound, Exact, ReadsExact
  <1> QED BY <1>1, ReaderInvariance, PTL

-----------------------------------------------------------------------------
(* The streams under a ConcatenatingInputStream.                             *)

Adaptors == [file : Nat, start : Nat, used : Nat, position : Nat, backup : Nat, failed : BOOLEAN]

\* The adaptor's position is that of its descriptor, and what is backed up is
\* the end of its buffer, which ends there.
Kept(s) ==
    /\ s \in Adaptors
    /\ s.position = s.file /\ s.backup <= s.used
    /\ s.backup > 0 => s.start + s.used = s.file

SourceTypes ==
    /\ seekable \in BOOLEAN /\ limit0 \in Nat /\ limit_ \in Int
    /\ a \in [position : 0..ArrayLen, last : Nat]
    /\ stream_count_ \in 0..2 /\ bytes_retired_ \in Int
    /\ shown \in [stream : 0..2, from : Nat, size : Nat]
    /\ trouble \in BOOLEAN /\ released \in BOOLEAN

\* What was shown beyond the limit is at the end of the adaptor's buffer.
Hidden == limit_ < 0 => f.backup = 0 /\ -limit_ <= f.used /\ f.start + f.used = f.file

\* The limit and what was read of it make the limit there was.
InUse ==
    stream_count_ = 2 =>
      /\ bytes_retired_ = 0 /\ a.position = 0 /\ ~f.failed
      /\ limit_ + AdaptorCount(f) = limit0 + Before

\* What has been retired is as long as the streams it was read from.
Retired ==
    /\ stream_count_ = 1 => LimitingCount = bytes_retired_
    /\ stream_count_ = 0 =>
         /\ LimitingCount = bytes_retired_ - a.position /\ a.position = ArrayLen
         /\ shown.size = 0
    /\ stream_count_ < 2 /\ ~trouble => LimitingCount - Before = Less(limit0, FileLen - Before)

\* What was shown can be backed up.
Shown ==
    shown.size > 0 =>
      /\ stream_count_ = 2 /\ ~released =>
           /\ shown.stream = 2 /\ f.backup = 0 /\ shown.size + Overshot <= f.used
           /\ f.start + f.used = f.file
      /\ stream_count_ = 1 => shown.stream = 1 /\ shown.size = a.last /\ a.last <= a.position

InFile == ~trouble => f.file <= FileLen

SInv == SourceTypes /\ Kept(f) /\ Hidden /\ InUse /\ Retired /\ Shown /\ InFile

LEMMA AdaptorTypes ==
  ASSUME NEW s, Kept(s)
  PROVE  /\ s.file \in Nat /\ s.start \in Nat /\ s.used \in Nat /\ s.position \in Nat
         /\ s.backup \in Nat /\ s.failed \in BOOLEAN
         /\ s.position = s.file /\ s.backup <= s.used
         /\ s.backup > 0 => s.start + s.used = s.file
         /\ AdaptorCount(s) \in Int /\ AdaptorCount(s) = s.file - s.backup
         /\ AdaptorCount(s) <= s.file
  BY DEF Kept, Adaptors, AdaptorCount

\* Next of the adaptor shows what follows what was read, or is at the end.
LEMMA AdaptorNextKeeps ==
  ASSUME NEW s, Kept(s), ~s.failed, NEW r \in AdaptorNext(s)
  PROVE  /\ Kept(r.s) /\ r.ok \in BOOLEAN
         /\ r.ok => /\ r.size \in Nat \ {0} /\ r.from = AdaptorCount(s) /\ r.from \in Nat
                    /\ AdaptorCount(r.s) = AdaptorCount(s) + r.size
                    /\ r.s.backup = 0 /\ ~r.s.failed /\ r.size <= r.s.used
                    /\ r.s.start + r.s.used = r.s.file
                    /\ s.file <= FileLen => r.s.file <= FileLen
         /\ ~r.ok => /\ AdaptorCount(r.s) = AdaptorCount(s) /\ r.s.file = s.file
                     /\ r.s.backup = 0 /\ AdaptorCount(s) = s.file
                     /\ ~r.s.failed => s.file >= FileLen
  <1>1. s \in Adaptors /\ FileLen \in Nat /\ BlockSize \in Nat
    BY StreamsAssumption DEF Kept
  <1>2. CASE s.backup > 0
    <2>1. r = [ok |-> TRUE, s |-> ShowLeftOver(s), from |-> LeftOver(s), size |-> s.backup]
      BY <1>2 DEF AdaptorNext
    <2>2. /\ ShowLeftOver(s) \in Adaptors /\ ShowLeftOver(s).file = s.file
          /\ ShowLeftOver(s).position = s.position /\ ShowLeftOver(s).start = s.start
          /\ ShowLeftOver(s).used = s.used /\ ShowLeftOver(s).backup = 0
          /\ ShowLeftOver(s).failed = s.failed
      BY <1>1 DEF ShowLeftOver, Adaptors
    <2>3. LeftOver(s) = s.file - s.backup /\ LeftOver(s) \in Nat
      BY <1>2, AdaptorTypes DEF LeftOver
    <2> QED BY <1>2, <2>1, <2>2, <2>3, AdaptorTypes DEF Kept, AdaptorCount
  <1>3. CASE ~(s.backup > 0)
    <2>0. s.backup = 0 /\ AdaptorCount(s) = s.file /\ s.file \in Nat /\ s.position = s.file
      BY <1>3, AdaptorTypes
    <2>1. ASSUME NEW n \in 1..Less(BlockSize, FileLen - s.file),
                 r = [ok |-> TRUE, from |-> s.file, size |-> n,
                      s |-> [s EXCEPT !.file = @ + n, !.start = s.file, !.used = n, !.position = @ + n]]
          PROVE  /\ Kept(r.s) /\ r.ok = TRUE /\ r.size = n /\ n \in Nat \ {0} /\ r.from = s.file
                 /\ AdaptorCount(r.s) = s.file + n /\ r.s.backup = 0 /\ ~r.s.failed
                 /\ r.s.used = n /\ r.s.start + r.s.used = r.s.file /\ r.s.file <= FileLen
      <3>1. n \in Nat \ {0} /\ s.file + n <= FileLen /\ s.file + n \in Nat
        BY <1>1, <2>0 DEF Less
      <3>2. /\ r.s \in Adaptors /\ r.s.file = s.file + n /\ r.s.start = s.file /\ r.s.used = n
            /\ r.s.position = s.file + n /\ r.s.backup = 0 /\ r.s.failed = s.failed
        BY <1>1, <2>0, <2>1, <3>1 DEF Adaptors
      <3> QED BY <2>0, <2>1, <3>1, <3>2 DEF Kept, AdaptorCount
    <2>2. ASSUME NEW e \in BOOLEAN, e \/ s.file >= FileLen,
                 r = [ok |-> FALSE, from |-> 0, size |-> 0, s |-> [s EXCEPT !.used = 0, !.failed = e]]
          PROVE  /\ Kept(r.s) /\ r.ok = FALSE /\ AdaptorCount(r.s) = s.file /\ r.s.file = s.file
                 /\ r.s.backup = 0 /\ (~r.s.failed => s.file >= FileLen)
      <3>1. /\ r.s \in Adaptors /\ r.s.file = s.file /\ r.s.used = 0
            /\ r.s.position = s.file /\ r.s.backup = 0 /\ r.s.failed = e
        BY <1>1, <2>0, <2>2 DEF Adaptors
      <3> QED BY <2>0, <2>2, <3>1 DEF Kept, AdaptorCount
    <2>3. \/ \E n \in 1..Less(BlockSize, FileLen - s.file) :
               r = [ok |-> TRUE, from |-> s.file, size |-> n,
                    s |-> [s EXCEPT !.file = @ + n, !.start = s.file, !.used = n, !.position = @ + n]]
          \/ \E e \in {TRUE} \cup IF s.file >= FileLen THEN {FALSE} ELSE {} :
               r = [ok |-> FALSE, from |-> 0, size |-> 0, s |-> [s EXCEPT !.used = 0, !.failed = e]]
      BY <1>3 DEF AdaptorNext
    <2>4. CASE \E n \in 1..Less(BlockSize, FileLen - s.file) :
                 r = [ok |-> TRUE, from |-> s.file, size |-> n,
                      s |-> [s EXCEPT !.file = @ + n, !.start = s.file, !.used = n, !.position = @ + n]]
      <3>1. PICK n \in 1..Less(BlockSize, FileLen - s.file) :
              r = [ok |-> TRUE, from |-> s.file, size |-> n,
                   s |-> [s EXCEPT !.file = @ + n, !.start = s.file, !.used = n, !.position = @ + n]]
        BY <2>4
      <3>2. /\ Kept(r.s) /\ r.ok = TRUE /\ r.size = n /\ n \in Nat \ {0} /\ r.from = s.file
            /\ AdaptorCount(r.s) = s.file + n /\ r.s.backup = 0 /\ ~r.s.failed
            /\ r.s.used = n /\ r.s.start + r.s.used = r.s.file /\ r.s.file <= FileLen
        BY <2>1, <3>1
      <3>3. r.size <= r.s.used /\ AdaptorCount(r.s) = AdaptorCount(s) + r.size
            /\ r.from = AdaptorCount(s) /\ r.from \in Nat
        BY <2>0, <3>2
      <3> QED BY <3>2, <3>3
    <2>5. CASE \E e \in {TRUE} \cup IF s.file >= FileLen THEN {FALSE} ELSE {} :
                 r = [ok |-> FALSE, from |-> 0, size |-> 0, s |-> [s EXCEPT !.used = 0, !.failed = e]]
      <3>1. PICK e \in BOOLEAN :
              /\ e \/ s.file >= FileLen
              /\ r = [ok |-> FALSE, from |-> 0, size |-> 0, s |-> [s EXCEPT !.used = 0, !.failed = e]]
        BY <2>5
      <3>2. /\ Kept(r.s) /\ r.ok = FALSE /\ AdaptorCount(r.s) = s.file /\ r.s.file = s.file
            /\ r.s.backup = 0 /\ (~r.s.failed => s.file >= FileLen)
        BY <2>2, <3>1
      <3> QED BY <2>0, <3>2
    <2> QED BY <2>3, <2>4, <2>5
  <1> QED BY <1>2, <1>3

\* Skip passes over what it is asked to, or what there is.
LEMMA AdaptorSkipKeeps ==
  ASSUME seekable \in BOOLEAN, NEW s, Kept(s), ~s.failed, NEW n \in Nat, NEW r \in AdaptorSkip(s, n)
  PROVE  /\ Kept(r.s) /\ r.ok \in BOOLEAN /\ r.broke \in BOOLEAN /\ ~r.s.failed
         /\ AdaptorCount(s) <= AdaptorCount(r.s)
         /\ r.ok => AdaptorCount(r.s) = AdaptorCount(s) + n
         /\ ~r.ok => AdaptorCount(r.s) < AdaptorCount(s) + n
         /\ ~r.broke /\ s.file <= FileLen =>
              r.s.file <= FileLen /\ (~r.ok => AdaptorCount(r.s) = FileLen)
  <1> DEFINE left == n - s.backup
             there == Less(left, FileLen - s.file)
  <1>1. /\ s \in Adaptors /\ FileLen \in Nat /\ s.file \in Nat /\ s.backup \in Nat
        /\ s.position = s.file /\ s.backup <= s.used /\ s.used \in Nat
        /\ AdaptorCount(s) = s.file - s.backup /\ left \in Int
    BY StreamsAssumption, AdaptorTypes DEF Kept
  <1>2. CASE left <= 0
    <2>1. r = [ok |-> TRUE, s |-> [s EXCEPT !.backup = -left], broke |-> FALSE]
      BY <1>2 DEF AdaptorSkip
    <2>2. -left \in Nat /\ -left = s.backup - n
      BY <1>1, <1>2
    <2> HIDE DEF left
    <2>3. /\ r.s \in Adaptors /\ r.s.file = s.file /\ r.s.start = s.start /\ r.s.used = s.used
          /\ r.s.position = s.position /\ r.s.backup = -left /\ r.s.failed = s.failed
          /\ r.ok = TRUE /\ r.broke = FALSE
      BY <1>1, <2>1, <2>2 DEF Adaptors
    <2>4. AdaptorCount(r.s) = s.file - s.backup + n /\ r.s.backup <= r.s.used
          /\ (r.s.backup > 0 => r.s.start + r.s.used = r.s.file)
      BY <1>1, <2>2, <2>3, AdaptorTypes DEF AdaptorCount
    <2>5. Kept(r.s) /\ ~r.s.failed
      BY <1>1, <2>3, <2>4 DEF Kept
    <2>6. AdaptorCount(s) <= AdaptorCount(r.s) /\ AdaptorCount(r.s) = AdaptorCount(s) + n
      BY <1>1, <2>4
    <2> QED BY <2>3, <2>5, <2>6
  <1>3. CASE left > 0
    <2>1. PICK k \in IF seekable THEN {left} ELSE IF there > 0 THEN 0..there ELSE {0} :
            r = [ok |-> k = left, s |-> AfterSkip(s, k), broke |-> k # there]
      BY <1>1, <1>3 DEF AdaptorSkip
    <2>2. k \in Nat /\ k <= left /\ there \in Int
      BY <1>1, <1>3, <2>1 DEF Less
    <2> HIDE DEF left, there
    <2>3. s.file + k \in Nat
      BY <1>1, <2>2
    <2>4. /\ r.s \in Adaptors /\ r.s.file = s.file + k /\ r.s.position = s.file + k
          /\ r.s.backup = 0 /\ r.s.used = s.used /\ r.s.failed = s.failed
          /\ r.ok = (k = left) /\ r.broke = (k # there)
      BY <1>1, <2>1, <2>3 DEF Adaptors, AfterSkip
    <2>5. AdaptorCount(r.s) = s.file + k
      BY <1>1, <2>2, <2>4 DEF AdaptorCount
    <2>6. Kept(r.s)
      BY <1>1, <2>4 DEF Kept
    <2>7. s.file + left = AdaptorCount(s) + n
      BY <1>1 DEF left
    <2>8. there <= FileLen - s.file /\ (there # left => there = FileLen - s.file)
      BY <1>1 DEF there, Less
    <2>9. AdaptorCount(s) <= s.file + k /\ (k = left => s.file + k = AdaptorCount(s) + n)
          /\ (k # left => s.file + k < AdaptorCount(s) + n)
      BY <1>1, <2>2, <2>7
    <2>10. k = there => s.file + k <= FileLen /\ (k # left => s.file + k = FileLen)
      BY <1>1, <2>2, <2>8
    <2> QED BY <2>4, <2>5, <2>6, <2>9, <2>10
  <1> QED BY <1>1, <1>2, <1>3

\* A step of the streams is one of the stream that they make.
Moves == Source!Show \/ Source!Return \/ Source!Pass \/ UNCHANGED Source!vars

\* The bytes read are those of the limited stream and of the array.
LEMMA CountIs ==
  SInv => /\ Count = LimitingCount + a.position - Before /\ Count \in Int
          /\ LimitingCount \in Int /\ a.position \in 0..ArrayLen /\ a.last \in Nat
          /\ bytes_retired_ \in Int /\ limit_ \in Int /\ AdaptorCount(f) \in Int
          /\ stream_count_ \in 0..2 /\ shown.size \in Nat /\ shown.from \in Nat
          /\ limit0 \in Nat
  <1> SUFFICES ASSUME SInv
               PROVE  /\ Count = LimitingCount + a.position - Before /\ Count \in Int
                      /\ LimitingCount \in Int /\ a.position \in 0..ArrayLen /\ a.last \in Nat
                      /\ bytes_retired_ \in Int /\ limit_ \in Int /\ AdaptorCount(f) \in Int
                      /\ stream_count_ \in 0..2 /\ shown.size \in Nat /\ shown.from \in Nat
                      /\ limit0 \in Nat
    OBVIOUS
  <1>1. AdaptorCount(f) \in Int
    BY AdaptorTypes DEF SInv
  <1>2. /\ a.position \in 0..ArrayLen /\ a.last \in Nat /\ bytes_retired_ \in Int /\ limit_ \in Int
        /\ stream_count_ \in 0..2 /\ shown.size \in Nat /\ shown.from \in Nat /\ limit0 \in Nat
    BY DEF SInv, SourceTypes
  <1>3. LimitingCount \in Int
    BY <1>1, <1>2 DEF LimitingCount
  <1>4. Before \in Int /\ ArrayLen \in Nat
    BY StreamsAssumption
  <1>5. CASE stream_count_ = 2
    <2>1. bytes_retired_ = 0 /\ a.position = 0
      BY <1>5 DEF SInv, InUse
    <2> QED BY <1>1, <1>2, <1>3, <1>4, <1>5, <2>1 DEF Count, ByteCount
  <1>6. CASE stream_count_ = 1
    <2>1. LimitingCount = bytes_retired_
      BY <1>6 DEF SInv, Retired
    <2> QED BY <1>1, <1>2, <1>3, <1>4, <1>6, <2>1 DEF Count, ByteCount
  <1>7. CASE stream_count_ = 0
    <2>1. LimitingCount = bytes_retired_ - a.position
      BY <1>7 DEF SInv, Retired
    <2> QED BY <1>1, <1>2, <1>3, <1>4, <1>7, <2>1 DEF Count, ByteCount
  <1> QED BY <1>2, <1>5, <1>6, <1>7

LEMMA CountIsNext ==
  SInv' => Count' = LimitingCount' + a'.position - Before /\ Count' \in Int
  <1>1. SInv' => (/\ Count = LimitingCount + a.position - Before /\ Count \in Int
                  /\ LimitingCount \in Int /\ a.position \in 0..ArrayLen /\ a.last \in Nat
                  /\ bytes_retired_ \in Int /\ limit_ \in Int /\ AdaptorCount(f) \in Int
                  /\ stream_count_ \in 0..2 /\ shown.size \in Nat /\ shown.from \in Nat
                  /\ limit0 \in Nat)'
    BY CountIs, PTL
  <1> QED BY <1>1

\* What a step that leaves the limited stream for the array makes sure of first.
LimitedDone ==
    /\ stream_count_ \in {1, 2}
    /\ UNCHANGED <<seekable, limit0, released>>
    /\ trouble' \in BOOLEAN /\ limit_' \in Int
    /\ Kept(f)' /\ Hidden' /\ InFile'
    /\ ~trouble' => LimitingCount' - Before = Less(limit0, FileLen - Before)
    /\ LimitingCount' \in Int /\ LimitingCount <= LimitingCount'

LEMMA NextOfArrayKeeps ==
  ASSUME SInv, LimitedDone, LimitingCount' = LimitingCount,
         NEW before \in Int, bytes_retired_ + before = LimitingCount, NextOfArray(before)
  PROVE  SInv' /\ Moves
  <1>1. /\ Count = LimitingCount + a.position - Before /\ Count \in Int /\ LimitingCount \in Int
        /\ a.position \in 0..ArrayLen /\ a.last \in Nat /\ bytes_retired_ \in Int
        /\ ArrayLen \in Nat /\ ArrayBlock \in Nat \ {0} /\ Before \in Int
    BY CountIs, StreamsAssumption
  <1>2. CASE a.position < ArrayLen
    <2> DEFINE step == ArrayStep(ArrayBlock)
    <2>1. /\ a' = [position |-> a.position + step, last |-> step]
          /\ shown' = [stream |-> 1, from |-> a.position, size |-> step]
          /\ stream_count_' = 1 /\ bytes_retired_' = bytes_retired_ + before
      BY <1>2 DEF NextOfArray, Retire
    <2>2. step \in Nat \ {0} /\ a.position + step \in 0..ArrayLen
      BY <1>1, <1>2 DEF ArrayStep, Less
    <2> HIDE DEF step
    <2>3. /\ a'.position = a.position + step /\ a'.last = step /\ a' \in [position : 0..ArrayLen, last : Nat]
          /\ shown'.stream = 1 /\ shown'.from = a.position /\ shown'.size = step
          /\ shown' \in [stream : 0..2, from : Nat, size : Nat]
          /\ bytes_retired_' = LimitingCount /\ bytes_retired_' \in Int
      BY <1>1, <2>1, <2>2
    <2>4. SInv'
      <3>1. SourceTypes'
        BY <2>1, <2>3 DEF LimitedDone, SourceTypes, SInv
      <3>2. InUse' /\ Retired'
        BY <2>1, <2>3 DEF InUse, Retired, LimitedDone
      <3>3. Shown'
        BY <1>1, <2>1, <2>2, <2>3 DEF Shown
      <3> QED BY <3>1, <3>2, <3>3 DEF SInv, LimitedDone
    <2>5. Count' = Count + step
      BY <1>1, <2>2, <2>3, <2>4, CountIsNext
    <2>6. /\ Count' >= Count /\ shown'.size = Count' - Count
          /\ bytes_retired_' - Before + shown'.from = Count
      BY <1>1, <2>2, <2>3, <2>5
    <2>7. Source!Show
      BY <2>2, <2>3, <2>6 DEF Source!Show
    <2> QED BY <2>4, <2>7 DEF Moves
  <1>3. CASE ~(a.position < ArrayLen)
    <2>1. /\ a' = [a EXCEPT !.last = 0] /\ shown' = Nothing
          /\ stream_count_' = 0 /\ bytes_retired_' = bytes_retired_ + (before + a.position)
      BY <1>3 DEF NextOfArray, Retire
    <2>2. a \in [position : 0..ArrayLen, last : Nat]
      BY DEF SInv, SourceTypes
    <2>3. /\ a'.position = a.position /\ a.position = ArrayLen /\ a' \in [position : 0..ArrayLen, last : Nat]
          /\ shown' \in [stream : 0..2, from : Nat, size : Nat] /\ shown'.size = 0
          /\ bytes_retired_' \in Int /\ LimitingCount = bytes_retired_' - a.position
      BY <1>1, <1>3, <2>1, <2>2 DEF Nothing
    <2>4. SInv'
      <3>1. SourceTypes'
        BY <2>1, <2>3 DEF LimitedDone, SourceTypes, SInv
      <3>2. InUse' /\ Retired' /\ Shown'
        BY <2>1, <2>3 DEF InUse, Retired, LimitedDone, Shown
      <3> QED BY <3>1, <3>2 DEF SInv, LimitedDone
    <2>5. Count' = Count
      BY <1>1, <2>3, <2>4, CountIsNext
    <2>6. Source!Pass
      BY <1>1, <2>3, <2>5 DEF Source!Pass
    <2> QED BY <2>4, <2>6 DEF Moves
  <1> QED BY <1>2, <1>3

LEMMA SkipInArrayKeeps ==
  ASSUME SInv, LimitedDone, NEW n \in Nat, NEW before \in Int,
         bytes_retired_ + before = LimitingCount', SkipInArray(n, before), shown' = Nothing
  PROVE  SInv' /\ Moves
  <1>1. /\ Count = LimitingCount + a.position - Before /\ Count \in Int /\ LimitingCount \in Int
        /\ a.position \in 0..ArrayLen /\ bytes_retired_ \in Int /\ ArrayLen \in Nat /\ Before \in Int
        /\ LimitingCount' \in Int /\ LimitingCount <= LimitingCount'
    BY CountIs, StreamsAssumption DEF LimitedDone
  <1> DEFINE step == ArrayStep(n)
  <1>2. /\ a' = [position |-> a.position + step, last |-> 0]
        /\ IF n <= ArrayLen - a.position
           THEN stream_count_' = 1 /\ bytes_retired_' = bytes_retired_ + before
           ELSE stream_count_' = 0 /\ bytes_retired_' = bytes_retired_ + (before + ArrayLen)
    BY DEF SkipInArray, Retire
  <1>3. /\ step \in Nat /\ a.position + step \in 0..ArrayLen
        /\ ~(n <= ArrayLen - a.position) => a.position + step = ArrayLen
    BY <1>1 DEF ArrayStep, Less
  <1> HIDE DEF step
  <1>4. /\ a'.position = a.position + step /\ a' \in [position : 0..ArrayLen, last : Nat]
        /\ shown' \in [stream : 0..2, from : Nat, size : Nat] /\ shown'.size = 0
    BY <1>2, <1>3 DEF Nothing
  <1>5. /\ stream_count_' \in {0, 1} /\ bytes_retired_' \in Int
        /\ stream_count_' = 1 => LimitingCount' = bytes_retired_'
        /\ stream_count_' = 0 => LimitingCount' = bytes_retired_' - a'.position /\ a'.position = ArrayLen
    <2>1. CASE n <= ArrayLen - a.position
      <3>1. stream_count_' = 1 /\ bytes_retired_' = bytes_retired_ + before
        BY <1>2, <2>1
      <3> QED BY <1>1, <3>1
    <2>2. CASE ~(n <= ArrayLen - a.position)
      <3>1. stream_count_' = 0 /\ bytes_retired_' = bytes_retired_ + (before + ArrayLen)
            /\ a'.position = ArrayLen
        BY <1>2, <1>3, <1>4, <2>2
        <3>2. bytes_retired_' = LimitingCount' + ArrayLen
        <4> DEFINE count == LimitingCount'
        <4>1. count = bytes_retired_ + before
          OBVIOUS
        <4> HIDE DEF count
        <4>2. bytes_retired_ + (before + ArrayLen) = count + ArrayLen
          BY <1>1, <4>1
        <4> QED BY <3>1, <4>2 DEF count
      <3> QED BY <1>1, <3>1, <3>2
    <2> QED BY <2>1, <2>2
  <1>6. SInv'
    <2>1. SourceTypes'
      BY <1>4, <1>5 DEF LimitedDone, SourceTypes, SInv
    <2>2. InUse' /\ Retired' /\ Shown'
      BY <1>4, <1>5 DEF InUse, Retired, LimitedDone, Shown
    <2> QED BY <2>1, <2>2 DEF SInv, LimitedDone
  <1>7. Count' >= Count
    BY <1>1, <1>3, <1>4, <1>6, CountIsNext
  <1>8. Source!Pass
    BY <1>4, <1>7 DEF Source!Pass
  <1> QED BY <1>6, <1>8 DEF Moves

LEMMA NextBytesKeeps ==
  ASSUME SInv, NextBytes
  PROVE  SInv' /\ Moves
  <1>1. /\ UNCHANGED <<seekable, limit0, released>> /\ ~released
        /\ Count = LimitingCount + a.position - Before /\ LimitingCount \in Int /\ limit_ \in Int
        /\ AdaptorCount(f) \in Int /\ bytes_retired_ \in Int /\ limit0 \in Nat /\ trouble \in BOOLEAN
        /\ Before \in Int /\ FileLen \in Nat /\ Kept(f) /\ f.file \in Nat
    BY CountIs, StreamsAssumption, AdaptorTypes DEF NextBytes, SInv, SourceTypes
  <1>2. CASE stream_count_ = 1 /\ NextOfArray(0) /\ UNCHANGED <<f, limit_, trouble>>
    <2>1. LimitingCount' = LimitingCount /\ LimitingCount = bytes_retired_
      BY <1>2 DEF LimitingCount, AdaptorCount, SInv, Retired
    <2>2. LimitedDone
      BY <1>1, <1>2, <2>1 DEF LimitedDone, SInv, Kept, Hidden, InFile, Retired
    <2> QED BY <1>1, <1>2, <2>1, <2>2, NextOfArrayKeeps
  <1>3. ASSUME stream_count_ = 2, NEW r \in LimitingNext, f' = r.s, limit_' = r.limit,
               trouble' = (trouble \/ r.s.failed),
               IF r.ok THEN /\ shown' = [stream |-> 2, from |-> r.from, size |-> r.size]
                            /\ UNCHANGED <<a, stream_count_, bytes_retired_>>
               ELSE NextOfArray(CountAfter(r))
        PROVE  SInv' /\ Moves
    <2>1. /\ bytes_retired_ = 0 /\ a.position = 0 /\ ~f.failed
          /\ limit_ + AdaptorCount(f) = limit0 + Before
          /\ AdaptorCount(f) <= f.file
      BY <1>1, <1>3, AdaptorTypes DEF SInv, InUse
    <2>2. CASE limit_ <= 0
      <3>1. r = [ok |-> FALSE, s |-> f, limit |-> limit_, from |-> 0, size |-> 0]
        BY <2>2 DEF LimitingNext
      <3>2. f' = f /\ limit_' = limit_ /\ trouble' = trouble /\ NextOfArray(CountAfter(r))
        BY <1>1, <1>3, <2>1, <3>1
      <3>3. LimitingCount' = LimitingCount /\ CountAfter(r) = LimitingCount
        BY <3>1, <3>2 DEF LimitingCount, AdaptorCount, CountAfter
      <3>4. ~trouble => LimitingCount - Before = Less(limit0, FileLen - Before)
        <4>1. LimitingCount = limit0 + Before
          BY <1>1, <2>1, <2>2 DEF LimitingCount
        <4>2. ~trouble => LimitingCount <= FileLen
          BY <1>1, <2>1, <2>2, <4>1 DEF SInv, InFile
        <4> QED BY <1>1, <4>1, <4>2 DEF Less
      <3>5. LimitedDone
        BY <1>1, <1>3, <3>2, <3>3, <3>4 DEF LimitedDone, SInv, Kept, Hidden, InFile
      <3> QED BY <1>1, <2>1, <3>2, <3>3, <3>5, NextOfArrayKeeps
    <2>3. CASE limit_ > 0
      <3>1. PICK q \in AdaptorNext(f) :
              r = [ok |-> q.ok, s |-> q.s, from |-> q.from,
                   limit |-> IF q.ok THEN limit_ - q.size ELSE limit_,
                   size |-> IF limit_ < q.size THEN limit_ ELSE q.size]
        BY <1>1, <2>3 DEF LimitingNext
      <3>2. /\ Kept(q.s) /\ q.ok \in BOOLEAN
            /\ q.ok => /\ q.size \in Nat \ {0} /\ q.from = AdaptorCount(f) /\ q.from \in Nat
                       /\ AdaptorCount(q.s) = AdaptorCount(f) + q.size
                       /\ q.s.backup = 0 /\ ~q.s.failed /\ q.size <= q.s.used
                       /\ q.s.start + q.s.used = q.s.file
                       /\ f.file <= FileLen => q.s.file <= FileLen
            /\ ~q.ok => /\ AdaptorCount(q.s) = AdaptorCount(f) /\ q.s.file = f.file
                        /\ q.s.backup = 0 /\ AdaptorCount(f) = f.file
                        /\ ~q.s.failed => f.file >= FileLen
        BY <1>1, <2>1, AdaptorNextKeeps
      <3>3. LimitingCount = AdaptorCount(f)
        BY <1>1, <2>3 DEF LimitingCount
      <3>4. CASE ~q.ok
        <4>1. /\ f' = q.s /\ limit_' = limit_ /\ trouble' = (trouble \/ q.s.failed)
              /\ r.ok = FALSE /\ r.s = q.s /\ r.limit = limit_ /\ NextOfArray(CountAfter(r))
          BY <1>3, <3>1, <3>2, <3>4
        <4>2. AdaptorCount(f)' = AdaptorCount(f) /\ LimitingCount' = AdaptorCount(f)
              /\ CountAfter(r) = AdaptorCount(f)
          BY <1>1, <2>3, <3>2, <3>4, <4>1 DEF LimitingCount, AdaptorCount, CountAfter
        <4>3. ~trouble' => AdaptorCount(f) = FileLen
          <5>1. ~trouble' => ~trouble /\ ~q.s.failed
            BY <4>1
          <5>2. ~trouble' => f.file <= FileLen /\ f.file >= FileLen
            BY <3>2, <3>4, <5>1 DEF SInv, InFile
          <5>3. AdaptorCount(f) = f.file
            BY <3>2, <3>4
          <5> QED BY <1>1, <5>2, <5>3
        <4>4. ~trouble' => AdaptorCount(f) - Before = Less(limit0, FileLen - Before)
          BY <1>1, <2>1, <2>3, <4>3 DEF Less
        <4>5. trouble' \in BOOLEAN /\ InFile' /\ Hidden' /\ Kept(f)'
          <5>1. q.s.failed \in BOOLEAN
            BY <3>2, AdaptorTypes
          <5>2. Kept(f)'
            BY <3>2, <4>1 DEF Kept
          <5> QED BY <1>1, <2>3, <3>2, <3>4, <4>1, <5>1, <5>2 DEF SInv, InFile, Hidden
        <4>6. LimitedDone
          BY <1>1, <1>3, <3>3, <4>1, <4>2, <4>4, <4>5 DEF LimitedDone
        <4> QED BY <1>1, <2>1, <3>3, <4>1, <4>2, <4>6, NextOfArrayKeeps
      <3>5. CASE q.ok
        <4> DEFINE size == IF limit_ < q.size THEN limit_ ELSE q.size
        <4>1. /\ f' = q.s /\ limit_' = limit_ - q.size /\ trouble' = trouble
              /\ shown' = [stream |-> 2, from |-> AdaptorCount(f), size |-> size]
              /\ UNCHANGED <<a, stream_count_, bytes_retired_>>
          BY <1>1, <1>3, <3>1, <3>2, <3>5
        <4>2. /\ size \in Nat \ {0} /\ q.size \in Nat \ {0} /\ AdaptorCount(f) \in Nat
              /\ AdaptorCount(f') = AdaptorCount(f) + q.size
          BY <1>1, <2>3, <3>2, <3>5, <4>1
        <4>3. LimitingCount' = LimitingCount + size
          BY <1>1, <2>3, <3>3, <4>1, <4>2 DEF LimitingCount
        <4>4. size + Overshot' <= q.size /\ (limit_' < 0 => -limit_' <= q.size)
          BY <1>1, <2>3, <4>1, <4>2 DEF Overshot
        <4> HIDE DEF size
        <4>5. /\ shown'.stream = 2 /\ shown'.from = AdaptorCount(f) /\ shown'.size = size
              /\ shown' \in [stream : 0..2, from : Nat, size : Nat]
          BY <4>1, <4>2
        <4>6. SourceTypes'
          BY <1>1, <4>1, <4>2, <4>5 DEF SInv, SourceTypes
        <4>7. /\ f'.backup = 0 /\ ~f'.failed /\ q.size <= f'.used /\ f'.start + f'.used = f'.file
              /\ Kept(f') /\ (f.file <= FileLen => f'.file <= FileLen)
              /\ f'.used \in Nat /\ Overshot' \in Int
          <5>1. limit_' \in Int
            BY <4>6 DEF SourceTypes
          <5> QED BY <3>2, <3>5, <4>1, <5>1, AdaptorTypes DEF Overshot
        <4>8. Kept(f)' /\ Hidden' /\ Shown' /\ InFile' /\ Retired'
          <5>1. Kept(f)'
            BY <4>7 DEF Kept
          <5>2. Hidden'
            <6>1. limit_' \in Int
              BY <4>6 DEF SourceTypes
            <6> QED BY <4>2, <4>4, <4>7, <6>1 DEF Hidden
          <5>3. Shown'
            <6>1. size + Overshot' <= f'.used
              BY <4>2, <4>4, <4>7
            <6> QED BY <1>3, <4>1, <4>5, <4>7, <6>1 DEF Shown
          <5>4. InFile' /\ Retired'
            BY <1>3, <4>1, <4>7 DEF InFile, Retired, SInv
          <5> QED BY <5>1, <5>2, <5>3, <5>4
        <4>9. InUse'
          <5>1. limit_' + AdaptorCount(f') = limit0 + Before
            BY <1>1, <2>1, <4>1, <4>2
          <5> QED BY <1>1, <2>1, <4>1, <4>7, <5>1 DEF InUse, AdaptorCount
        <4>10. SInv'
          BY <4>6, <4>8, <4>9 DEF SInv
        <4>11. Count' = Count + size /\ Count = AdaptorCount(f) - Before
          BY <1>1, <2>1, <3>3, <4>1, <4>2, <4>3, <4>10, CountIsNext
        <4>12. Count' >= Count /\ shown'.size = Count' - Count /\ shown'.from - Before = Count
          BY <1>1, <4>2, <4>5, <4>11
        <4>13. Source!Show
          BY <4>2, <4>5, <4>12 DEF Source!Show
        <4> QED BY <4>10, <4>13 DEF Moves
      <3> QED BY <3>2, <3>4, <3>5
    <2> QED BY <1>1, <2>2, <2>3
  <1> QED BY <1>2, <1>3 DEF NextBytes

LEMMA BackUpKeeps ==
  ASSUME SInv, BackUp
  PROVE  SInv' /\ Moves
  <1>1. /\ UNCHANGED <<seekable, limit0, stream_count_, bytes_retired_, trouble, released>>
        /\ ~released /\ shown.size > 0 /\ shown' = Nothing
        /\ Count = LimitingCount + a.position - Before /\ LimitingCount \in Int /\ limit_ \in Int
        /\ AdaptorCount(f) \in Int /\ a.position \in 0..ArrayLen /\ shown.size \in Nat
        /\ Before \in Int /\ ArrayLen \in Nat
    BY CountIs, StreamsAssumption DEF BackUp
  <1>2. shown' \in [stream : 0..2, from : Nat, size : Nat] /\ shown'.size = 0
    BY <1>1 DEF Nothing
  <1>3. PICK n \in 1..shown.size :
          \/ /\ stream_count_ = 2
             /\ f' = AdaptorBackUp(f, LimitingBackUp(n))
             /\ limit_' = IF limit_ < 0 THEN n ELSE limit_ + n
             /\ UNCHANGED a
          \/ /\ stream_count_ = 1
             /\ a' = [position |-> a.position - n, last |-> 0]
             /\ UNCHANGED <<f, limit_>>
    BY DEF BackUp
  <1>4. n \in Nat \ {0} /\ n <= shown.size
    BY <1>1
  <1>5. CASE /\ stream_count_ = 2 /\ f' = AdaptorBackUp(f, LimitingBackUp(n))
             /\ limit_' = IF limit_ < 0 THEN n ELSE limit_ + n
             /\ UNCHANGED a
    <2>1. /\ f.backup = 0 /\ shown.size + Overshot <= f.used /\ f.start + f.used = f.file
          /\ ~f.failed /\ limit_ + AdaptorCount(f) = limit0 + Before /\ Kept(f)
          /\ f.file \in Nat /\ f.used \in Nat /\ AdaptorCount(f) = f.file /\ f \in Adaptors
          /\ f.position = f.file
      BY <1>1, <1>5, AdaptorTypes DEF SInv, Shown, InUse, Kept
    <2> DEFINE m == LimitingBackUp(n)
    <2>2. m \in Nat /\ m = n + Overshot /\ m <= f.used
      BY <1>1, <1>4, <2>1 DEF LimitingBackUp, Overshot
    <2> HIDE DEF m
    <2>3. f' = [f EXCEPT !.backup = m]
      BY <1>5 DEF AdaptorBackUp, m
    <2>4. /\ f' \in Adaptors /\ f'.backup = m /\ f'.file = f.file /\ f'.start = f.start
          /\ f'.used = f.used /\ f'.position = f.position /\ f'.failed = f.failed
      BY <2>1, <2>2, <2>3 DEF Adaptors
    <2>5. Kept(f') /\ AdaptorCount(f') = f.file - m
      BY <2>1, <2>2, <2>4 DEF Kept, AdaptorCount
    <2>6. limit_' \in Nat /\ limit_' = limit_ + n + Overshot
      <3>1. limit_ >= 0 => limit_' = limit_ + n /\ Overshot = 0
        BY <1>1, <1>4, <1>5 DEF Overshot
      <3>2. limit_ < 0 => limit_' = n /\ Overshot = -limit_
        BY <1>1, <1>4, <1>5 DEF Overshot
      <3> QED BY <1>1, <1>4, <3>1, <3>2
    <2>7. limit_' + AdaptorCount(f') = limit0 + Before
      <3>1. Overshot \in Int
        BY <1>1 DEF Overshot
      <3> QED BY <1>1, <1>4, <2>1, <2>2, <2>5, <2>6, <3>1
    <2>8. LimitingCount' = LimitingCount - n
      <3>1. LimitingCount' = AdaptorCount(f')
        BY <2>1, <2>2, <2>4, <2>6 DEF LimitingCount, AdaptorCount
      <3>2. LimitingCount = f.file - Overshot
        BY <1>1, <2>1 DEF LimitingCount, Overshot
      <3>3. Overshot \in Int
        BY <1>1 DEF Overshot
      <3> QED BY <1>4, <2>1, <2>2, <2>5, <3>1, <3>2, <3>3
    <2>9. SInv'
      <3>1. SourceTypes'
        BY <1>1, <1>2, <1>5, <2>6 DEF SInv, SourceTypes
      <3>2. Kept(f)' /\ Hidden' /\ InFile'
        BY <1>1, <2>4, <2>5, <2>6 DEF SInv, Kept, Hidden, InFile
      <3>3. InUse'
        BY <1>1, <1>5, <2>1, <2>4, <2>7 DEF SInv, InUse, AdaptorCount
      <3>4. Retired' /\ Shown'
        BY <1>1, <1>2, <1>5 DEF Retired, Shown
      <3> QED BY <3>1, <3>2, <3>3, <3>4 DEF SInv
    <2>10. Count' = Count - n
      BY <1>1, <1>4, <1>5, <2>8, <2>9, CountIsNext
    <2>11. Source!Return
      BY <1>1, <1>2, <1>4, <2>10 DEF Source!Return
    <2> QED BY <2>9, <2>11 DEF Moves
  <1>6. CASE /\ stream_count_ = 1 /\ a' = [position |-> a.position - n, last |-> 0]
             /\ UNCHANGED <<f, limit_>>
    <2>1. a.last = shown.size /\ a.last <= a.position /\ LimitingCount = bytes_retired_
          /\ (~trouble => LimitingCount - Before = Less(limit0, FileLen - Before))
      BY <1>1, <1>6 DEF SInv, Shown, Retired
    <2>2. a.position - n \in 0..ArrayLen
      BY <1>1, <1>4, <2>1
    <2>3. a' \in [position : 0..ArrayLen, last : Nat] /\ a'.position = a.position - n
      BY <1>6, <2>2
    <2>4. LimitingCount' = LimitingCount
      BY <1>6 DEF LimitingCount, AdaptorCount
    <2>5. SInv'
      <3>1. SourceTypes'
        BY <1>1, <1>2, <1>6, <2>3 DEF SInv, SourceTypes
      <3>2. Kept(f)' /\ Hidden' /\ InFile'
        BY <1>1, <1>6 DEF SInv, Kept, Hidden, InFile
      <3>3. InUse' /\ Retired' /\ Shown'
        BY <1>1, <1>2, <1>6, <2>1, <2>4 DEF InUse, Retired, Shown
      <3> QED BY <3>1, <3>2, <3>3 DEF SInv
    <2>6. Count' = Count - n
      BY <1>1, <1>4, <2>3, <2>4, <2>5, CountIsNext
    <2>7. Source!Return
      BY <1>1, <1>2, <1>4, <2>6 DEF Source!Return
    <2> QED BY <2>5, <2>7 DEF Moves
  <1> QED BY <1>3, <1>5, <1>6

LEMMA DeleteKeeps ==
  ASSUME SInv, DeleteLimiting
  PROVE  SInv' /\ Moves
  <1>1. /\ UNCHANGED <<seekable, limit0, a, stream_count_, bytes_retired_, shown, trouble>>
        /\ released' = TRUE /\ f' = AdaptorBackUp(f, f.backup + Overshot)
        /\ limit_' = limit_ + Overshot
        /\ Count = LimitingCount + a.position - Before /\ LimitingCount \in Int /\ limit_ \in Int
        /\ AdaptorCount(f) \in Int /\ Before \in Int
    BY CountIs, StreamsAssumption DEF DeleteLimiting
  <1>2. /\ f \in Adaptors /\ f.file \in Nat /\ f.used \in Nat /\ f.backup \in Nat
        /\ f.start \in Nat /\ f.position = f.file /\ f.backup <= f.used
        /\ f.backup > 0 => f.start + f.used = f.file
        /\ AdaptorCount(f) = f.file - f.backup
        /\ limit_ < 0 => f.backup = 0 /\ -limit_ <= f.used /\ f.start + f.used = f.file
    BY AdaptorTypes DEF SInv, Kept, Hidden
  <1>3. /\ Overshot \in Nat /\ limit_' \in Nat /\ LimitingCount = AdaptorCount(f) - Overshot
        /\ (limit_ < 0 => limit_' = 0 /\ Overshot = -limit_) /\ (limit_ >= 0 => Overshot = 0)
    BY <1>1 DEF Overshot, LimitingCount
  <1> DEFINE m == f.backup + Overshot
  <1>4. m \in Nat /\ m <= f.used /\ (m > 0 => f.start + f.used = f.file)
    BY <1>1, <1>2, <1>3
  <1>5. f' = [f EXCEPT !.backup = m]
    BY <1>1 DEF AdaptorBackUp
  <1> HIDE DEF m
  <1>6. /\ f' \in Adaptors /\ f'.backup = m /\ f'.file = f.file /\ f'.start = f.start
        /\ f'.used = f.used /\ f'.position = f.position /\ f'.failed = f.failed
    BY <1>2, <1>4, <1>5 DEF Adaptors
  <1>7. Kept(f')
    BY <1>2, <1>4, <1>6 DEF Kept
  <1>8. AdaptorCount(f') = AdaptorCount(f) - Overshot
    BY <1>2, <1>3, <1>6 DEF AdaptorCount, m
  <1>9. LimitingCount' = LimitingCount
    <2>1. LimitingCount' = AdaptorCount(f')
      BY <1>1, <1>3, <1>8 DEF LimitingCount, AdaptorCount
    <2> QED BY <1>3, <1>8, <2>1
  <1>10. SInv'
    <2>1. SourceTypes'
      BY <1>1, <1>3 DEF SInv, SourceTypes
    <2>2. Kept(f)' /\ Hidden' /\ InFile'
      BY <1>1, <1>3, <1>6, <1>7 DEF SInv, Kept, Hidden, InFile
    <2>3. stream_count_ = 2 => limit_' + AdaptorCount(f') = limit0 + Before
      BY <1>1, <1>3, <1>8 DEF SInv, InUse
    <2>4. InUse'
      BY <1>1, <1>6, <2>3 DEF SInv, InUse, AdaptorCount
    <2>5. Retired' /\ Shown'
      BY <1>1, <1>9 DEF SInv, Retired, Shown
    <2> QED BY <2>1, <2>2, <2>4, <2>5 DEF SInv
  <1>11. Count' = Count
    BY <1>1, <1>9, <1>10, CountIsNext
  <1>12. UNCHANGED Source!vars
    BY <1>1, <1>11 DEF Source!vars
  <1> QED BY <1>10, <1>12 DEF Moves

LEMMA SkipBytesKeeps ==
  ASSUME SInv, NEW n \in Nat \ {0}, SkipBytes(n)
  PROVE  SInv' /\ Moves
  <1>1. /\ UNCHANGED <<seekable, limit0, released>> /\ shown' = Nothing
        /\ Count = LimitingCount + a.position - Before /\ LimitingCount \in Int /\ limit_ \in Int
        /\ AdaptorCount(f) \in Int /\ bytes_retired_ \in Int /\ limit0 \in Nat /\ trouble \in BOOLEAN
        /\ Before \in Int /\ FileLen \in Nat /\ Kept(f) /\ f.file \in Nat /\ seekable \in BOOLEAN
        /\ AdaptorCount(f) <= f.file
    BY CountIs, StreamsAssumption, AdaptorTypes DEF SkipBytes, SInv, SourceTypes
  <1>2. CASE stream_count_ = 1 /\ SkipInArray(n, 0) /\ UNCHANGED <<f, limit_, trouble>>
    <2>1. LimitingCount' = LimitingCount /\ LimitingCount = bytes_retired_
      BY <1>2 DEF LimitingCount, AdaptorCount, SInv, Retired
    <2>2. LimitedDone
      BY <1>1, <1>2, <2>1 DEF LimitedDone, SInv, Kept, Hidden, InFile, Retired
    <2> QED BY <1>1, <1>2, <2>1, <2>2, SkipInArrayKeeps
  <1>3. ASSUME stream_count_ = 2, NEW r \in LimitingSkip(n), f' = r.s, limit_' = r.limit,
               trouble' = (trouble \/ r.broke),
               IF r.ok THEN UNCHANGED <<a, stream_count_, bytes_retired_>>
               ELSE SkipInArray(ToSkip(n, r), CountAfter(r))
        PROVE  SInv' /\ Moves
    <2>1. /\ bytes_retired_ = 0 /\ a.position = 0 /\ ~f.failed
          /\ limit_ + AdaptorCount(f) = limit0 + Before
      BY <1>3 DEF SInv, InUse
    <2> DEFINE m == CountAfter(r)
    <2>2. ASSUME ~r.ok, Kept(r.s), Hidden', r.broke \in BOOLEAN, r.limit \in Int, m \in Int,
                 LimitingCount <= m, m <= LimitingCount + n, LimitingCount' = m,
                 ~trouble /\ ~r.broke => r.s.file <= FileLen /\ m - Before = Less(limit0, FileLen - Before)
          PROVE  SInv' /\ Moves
      <3> HIDE DEF m
      <3>1. trouble' \in BOOLEAN /\ (~trouble' => ~trouble /\ ~r.broke)
        BY <1>1, <1>3, <2>2
      <3>2. Kept(f)' /\ InFile'
        BY <1>3, <2>2, <3>1 DEF Kept, InFile
      <3>3. LimitedDone
        BY <1>1, <1>3, <2>2, <3>1, <3>2 DEF LimitedDone
      <3>4. ToSkip(n, r) \in Nat /\ SkipInArray(ToSkip(n, r), m)
        <4>1. ToSkip(n, r) = LimitingCount + n - m
          BY DEF ToSkip, m
        <4>2. LimitingCount + n - m \in Nat
          BY <1>1, <2>2
        <4> QED BY <1>3, <2>2, <4>1, <4>2 DEF m
      <3>5. bytes_retired_ + m = LimitingCount'
        BY <2>1, <2>2
      <3> QED BY <1>1, <2>2, <3>3, <3>4, <3>5, SkipInArrayKeeps
    <2>3. CASE limit_ < 0
      <3>1. r = [ok |-> FALSE, s |-> f, limit |-> limit_, broke |-> FALSE]
        BY <1>1, <2>3 DEF LimitingSkip
      <3>2. f' = f /\ limit_' = limit_ /\ Hidden'
        BY <1>3, <3>1 DEF SInv, Hidden
      <3>3. LimitingCount' = LimitingCount /\ CountAfter(r) = LimitingCount
        BY <3>1, <3>2 DEF LimitingCount, AdaptorCount, CountAfter
      <3>4. ~trouble => f.file <= FileLen /\ LimitingCount - Before = Less(limit0, FileLen - Before)
        <4>1. LimitingCount = limit0 + Before
          BY <1>1, <2>1, <2>3 DEF LimitingCount
        <4>2. ~trouble => f.file <= FileLen /\ LimitingCount <= FileLen
          BY <1>1, <2>1, <2>3, <4>1 DEF SInv, InFile
        <4> QED BY <1>1, <4>1, <4>2 DEF Less
      <3> QED BY <1>1, <2>2, <3>1, <3>2, <3>3, <3>4
    <2>4. CASE limit_ >= 0 /\ n > limit_
      <3>1. PICK q \in AdaptorSkip(f, limit_) :
              r = [ok |-> FALSE, s |-> q.s, limit |-> 0, broke |-> q.broke]
        BY <1>1, <2>4 DEF LimitingSkip
      <3>2. /\ Kept(q.s) /\ q.ok \in BOOLEAN /\ q.broke \in BOOLEAN /\ ~q.s.failed
            /\ AdaptorCount(f) <= AdaptorCount(q.s)
            /\ q.ok => AdaptorCount(q.s) = AdaptorCount(f) + limit_
            /\ ~q.ok => AdaptorCount(q.s) < AdaptorCount(f) + limit_
            /\ ~q.broke /\ f.file <= FileLen =>
                 q.s.file <= FileLen /\ (~q.ok => AdaptorCount(q.s) = FileLen)
            /\ AdaptorCount(q.s) \in Int /\ AdaptorCount(q.s) <= q.s.file /\ q.s.file \in Nat
        BY <1>1, <2>1, <2>4, AdaptorSkipKeeps, AdaptorTypes
      <3>3. f' = q.s /\ limit_' = 0 /\ Hidden' /\ LimitingCount = AdaptorCount(f)
        BY <1>1, <1>3, <2>4, <3>1 DEF Hidden, LimitingCount
      <3>4. LimitingCount' = AdaptorCount(q.s) /\ CountAfter(r) = AdaptorCount(q.s)
        BY <3>1, <3>2, <3>3 DEF LimitingCount, CountAfter
      <3>5. ASSUME ~trouble, ~q.broke
            PROVE  q.s.file <= FileLen /\ AdaptorCount(q.s) - Before = Less(limit0, FileLen - Before)
        <4>1. f.file <= FileLen
          BY <3>5 DEF SInv, InFile
        <4>2. CASE q.ok
          <5>1. AdaptorCount(q.s) = limit0 + Before /\ AdaptorCount(q.s) <= FileLen
            BY <1>1, <2>1, <3>2, <3>5, <4>1, <4>2
          <5> QED BY <1>1, <3>2, <3>5, <4>1, <5>1 DEF Less
        <4>3. CASE ~q.ok
          <5>1. AdaptorCount(q.s) = FileLen /\ FileLen < limit0 + Before
            BY <1>1, <2>1, <3>2, <3>5, <4>1, <4>3
          <5> QED BY <1>1, <3>2, <3>5, <4>1, <5>1 DEF Less
        <4> QED BY <3>2, <4>2, <4>3
      <3>6. LimitingCount <= AdaptorCount(q.s) /\ AdaptorCount(q.s) <= LimitingCount + n
        BY <1>1, <2>4, <3>2, <3>3
      <3>7. /\ ~r.ok /\ Kept(r.s) /\ r.broke \in BOOLEAN /\ r.limit \in Int
            /\ r.s = q.s /\ r.broke = q.broke
        BY <3>1, <3>2
      <3> HIDE DEF m
      <3>8. m = AdaptorCount(q.s)
        BY <3>4 DEF m
      <3> QED BY <2>2, <3>2, <3>3, <3>4, <3>5, <3>6, <3>7, <3>8
    <2>5. CASE n <= limit_
      <3>1. PICK q \in AdaptorSkip(f, n) :
              r = [ok |-> q.ok, s |-> q.s, limit |-> IF q.ok THEN limit_ - n ELSE limit_,
                   broke |-> q.broke]
        BY <1>1, <2>5 DEF LimitingSkip
      <3>2. /\ Kept(q.s) /\ q.ok \in BOOLEAN /\ q.broke \in BOOLEAN /\ ~q.s.failed
            /\ AdaptorCount(f) <= AdaptorCount(q.s)
            /\ q.ok => AdaptorCount(q.s) = AdaptorCount(f) + n
            /\ ~q.ok => AdaptorCount(q.s) < AdaptorCount(f) + n
            /\ ~q.broke /\ f.file <= FileLen =>
                 q.s.file <= FileLen /\ (~q.ok => AdaptorCount(q.s) = FileLen)
            /\ AdaptorCount(q.s) \in Int
        BY <1>1, <2>1, AdaptorSkipKeeps, AdaptorTypes
      <3>3. LimitingCount = AdaptorCount(f) /\ limit_ \in Nat
        BY <1>1, <2>5 DEF LimitingCount
      <3>4. CASE ~q.ok
        <4>1. f' = q.s /\ limit_' = limit_ /\ Hidden' /\ r.ok = FALSE /\ r.limit = limit_
              /\ r.s = q.s /\ r.broke = q.broke
          BY <1>3, <3>1, <3>2, <3>3, <3>4 DEF Hidden
        <4>2. LimitingCount' = AdaptorCount(q.s) /\ CountAfter(r) = AdaptorCount(q.s)
          BY <3>2, <3>3, <4>1 DEF LimitingCount, CountAfter
        <4>3. ASSUME ~trouble, ~q.broke
              PROVE  q.s.file <= FileLen /\ AdaptorCount(q.s) - Before = Less(limit0, FileLen - Before)
          <5>1. f.file <= FileLen
            BY <4>3 DEF SInv, InFile
          <5>2. AdaptorCount(q.s) = FileLen /\ FileLen < limit0 + Before
            BY <1>1, <2>1, <2>5, <3>2, <3>4, <4>3, <5>1
          <5> QED BY <1>1, <3>2, <4>3, <5>1, <5>2 DEF Less
        <4>4. LimitingCount <= AdaptorCount(q.s) /\ AdaptorCount(q.s) <= LimitingCount + n
          BY <1>1, <3>2, <3>3, <3>4
        <4>5. ~r.ok /\ Kept(r.s) /\ r.broke \in BOOLEAN /\ r.limit \in Int
          BY <3>2, <3>3, <4>1
        <4> HIDE DEF m
        <4>6. m = AdaptorCount(q.s)
          BY <4>2 DEF m
        <4> QED BY <2>2, <3>2, <4>1, <4>2, <4>3, <4>4, <4>5, <4>6
      <3>5. CASE q.ok
        <4>1. /\ f' = q.s /\ limit_' = limit_ - n /\ trouble' = (trouble \/ q.broke)
              /\ UNCHANGED <<a, stream_count_, bytes_retired_>>
          BY <1>3, <3>1, <3>2, <3>5
        <4>2. limit_' \in Nat /\ limit_' + AdaptorCount(f') = limit0 + Before
              /\ LimitingCount' = LimitingCount + n
          <5>1. limit_' \in Nat
            BY <2>5, <3>3, <4>1
          <5>2. LimitingCount' = AdaptorCount(q.s)
            BY <3>2, <4>1, <5>1 DEF LimitingCount
          <5> QED BY <1>1, <2>1, <3>2, <3>3, <3>5, <4>1, <5>1, <5>2
        <4>3. shown' \in [stream : 0..2, from : Nat, size : Nat] /\ shown'.size = 0
          BY <1>1 DEF Nothing
        <4>4. trouble' \in BOOLEAN /\ (~trouble' => ~trouble /\ ~q.broke)
          BY <1>1, <3>2, <4>1
        <4>5. SInv'
          <5>1. SourceTypes'
            BY <1>1, <4>1, <4>2, <4>3, <4>4 DEF SInv, SourceTypes
          <5>2. Kept(f)' /\ Hidden' /\ InFile'
            BY <3>2, <4>1, <4>2, <4>4 DEF SInv, Kept, Hidden, InFile
          <5>3. InUse'
            BY <1>1, <2>1, <3>2, <4>1, <4>2 DEF InUse, AdaptorCount
          <5>4. Retired' /\ Shown'
            BY <1>3, <4>1, <4>3 DEF Retired, Shown
          <5> QED BY <5>1, <5>2, <5>3, <5>4 DEF SInv
        <4>6. Count' >= Count
          BY <1>1, <2>1, <4>1, <4>2, <4>5, CountIsNext
        <4>7. Source!Pass
          BY <4>3, <4>6 DEF Source!Pass
        <4> QED BY <4>5, <4>7 DEF Moves
      <3> QED BY <3>2, <3>4, <3>5
    <2> QED BY <1>1, <2>3, <2>4, <2>5
  <1> QED BY <1>2, <1>3 DEF SkipBytes

LEMMA SourceInitHolds == SourceInit => SInv /\ Source!Init
  <1> SUFFICES ASSUME SourceInit PROVE SInv /\ Source!Init
    OBVIOUS
  <1>1. Before \in Nat /\ Before <= FileLen /\ limit0 \in Nat /\ ArrayLen \in Nat /\ FileLen \in Nat
    BY StreamsAssumption DEF SourceInit
  <1>2. f \in Adaptors /\ f.file = Before /\ f.position = Before /\ f.backup = 0 /\ f.used = 0
        /\ ~f.failed /\ limit_ = limit0 /\ a = [position |-> 0, last |-> 0]
    BY <1>1 DEF SourceInit, Adaptors
  <1>3. Kept(f) /\ AdaptorCount(f) = Before
    BY <1>1, <1>2 DEF Kept, AdaptorCount
  <1>4. SInv
    <2>1. SourceTypes
      <3>1. shown \in [stream : 0..2, from : Nat, size : Nat]
        BY DEF SourceInit, Nothing
      <3>2. a \in [position : 0..ArrayLen, last : Nat]
        BY <1>1, <1>2
      <3>3. seekable \in BOOLEAN /\ trouble \in BOOLEAN /\ released \in BOOLEAN
        BY Zenon DEF SourceInit
      <3>4. stream_count_ \in 0..2 /\ bytes_retired_ \in Int
        <4>1. stream_count_ = 2 /\ bytes_retired_ = 0
          BY DEF SourceInit
        <4> QED BY <4>1
      <3>5. limit_ \in Int /\ limit0 \in Nat
        BY <1>1, <1>2
      <3> QED BY <3>1, <3>2, <3>3, <3>4, <3>5, Zenon DEF SourceTypes
    <2>2. InUse
      BY <1>1, <1>2, <1>3 DEF SourceInit, InUse
    <2>3. Hidden /\ Retired /\ Shown /\ InFile
      BY <1>1, <1>2 DEF SourceInit, Hidden, Retired, Shown, InFile, Nothing
    <2> QED BY <1>3, <2>1, <2>2, <2>3 DEF SInv
  <1>5. LimitingCount = Before
    BY <1>1, <1>2, <1>3 DEF LimitingCount
  <1>6. Count = 0 /\ shown.size = 0
    BY <1>1, <1>2, <1>4, <1>5, CountIs DEF SourceInit, Nothing
  <1> QED BY <1>4, <1>6 DEF Source!Init

LEMMA StreamStepKeeps == SInv /\ [StreamStep]_srcVars => SInv' /\ Moves
  <1> SUFFICES ASSUME SInv, [StreamStep]_srcVars PROVE SInv' /\ Moves
    OBVIOUS
  <1>1. CASE UNCHANGED srcVars
    <2>1. SInv'
      BY <1>1 DEF SInv, SourceTypes, Kept, Hidden, InUse, Retired, Shown, InFile, srcVars,
         LimitingCount, AdaptorCount, Overshot
    <2>2. UNCHANGED Source!vars
      BY <1>1 DEF Source!vars, Count, ByteCount, LimitingCount, AdaptorCount, srcVars
    <2> QED BY <2>1, <2>2 DEF Moves
  <1>2. ASSUME NEW n \in 1..MaxSkip, SkipBytes(n) PROVE SInv' /\ Moves
    <2>1. n \in Nat \ {0}
      BY StreamsAssumption
    <2> QED BY <1>2, <2>1, SkipBytesKeeps
  <1> QED BY <1>1, <1>2, NextBytesKeeps, BackUpKeeps, DeleteKeeps DEF StreamStep

\* What the streams have read, retired, hidden and backed up fits together.
THEOREM SourceInvariance == StreamSpec => []SInv
  <1>1. SourceInit => SInv
    BY SourceInitHolds
  <1>2. SInv /\ [StreamStep]_srcVars => SInv'
    BY StreamStepKeeps
  <1> QED BY <1>1, <1>2, PTL DEF StreamSpec

\* Nothing of the file before the limit, and nothing of the array, is missed or
\* shown twice.
THEOREM MissesNothing == StreamSpec => []NothingMissed
  <1>1. SInv => NothingMissed
    <2> SUFFICES ASSUME SInv, stream_count_ = 0, ~trouble
                 PROVE  Count = Less(limit0, FileLen - Before) + ArrayLen
      BY DEF NothingMissed
    <2>1. LimitingCount - Before = Less(limit0, FileLen - Before) /\ a.position = ArrayLen
      BY DEF SInv, Retired
    <2> QED BY <2>1, CountIs, StreamsAssumption
  <1> QED BY <1>1, SourceInvariance, PTL

\* The LimitingInputStream's destructor gives back what was shown beyond the limit.
THEOREM GivesBack == StreamSpec => []LimiterGivesBack
  <1> DEFINE Gone == released => limit_ >= 0
  <1>1. SourceInit => Gone
    BY DEF SourceInit
  <1>2. SInv /\ Gone /\ [StreamStep]_srcVars => Gone'
    <2>1. SInv => limit_ \in Int
      BY CountIs
    <2>2. SInv /\ DeleteLimiting => Gone'
      BY <2>1 DEF DeleteLimiting, Overshot
    <2>3. NextBytes \/ BackUp \/ (\E n \in 1..MaxSkip : SkipBytes(n)) => ~released'
      BY DEF NextBytes, BackUp, SkipBytes
    <2> QED BY <2>2, <2>3 DEF StreamStep, srcVars
  <1>3. SInv /\ Gone => LimiterGivesBack
    <2> SUFFICES ASSUME SInv, Gone, released, stream_count_ < 2
                 PROVE  AdaptorCount(f) = bytes_retired_ - (IF stream_count_ = 0 THEN a.position ELSE 0)
      BY DEF LimiterGivesBack
    <2>1. LimitingCount = AdaptorCount(f)
      BY CountIs DEF LimitingCount
    <2> QED BY <2>1, CountIs DEF SInv, Retired
  <1> QED BY <1>1, <1>2, <1>3, SourceInvariance, PTL DEF StreamSpec

\* What a stream CHECKs of BackUp holds whenever the stream around it passes it on.
THEOREM BackUpIsGranted == StreamSpec => []BackUpGranted
  <1>1. SInv => BackUpGranted
    <2> SUFFICES ASSUME SInv, ~released, shown.size > 0
                 PROVE  IF stream_count_ = 2 THEN AdaptorMayBackUp(f, LimitingBackUp(shown.size))
                        ELSE shown.size <= a.last
      BY DEF BackUpGranted
    <2>1. CASE stream_count_ = 2
      <3>1. f.backup = 0 /\ shown.size + Overshot <= f.used /\ f.used \in Nat
        BY <2>1, AdaptorTypes DEF SInv, Shown
      <3>2. LimitingBackUp(shown.size) = shown.size + Overshot /\ Overshot \in Nat
        BY CountIs DEF LimitingBackUp, Overshot
      <3> QED BY <2>1, <3>1, <3>2, CountIs DEF AdaptorMayBackUp
    <2>2. CASE stream_count_ # 2
      <3>1. stream_count_ = 1
        BY <2>2, CountIs DEF SInv, Retired
      <3> QED BY <2>2, <3>1, CountIs DEF SInv, Shown
    <2> QED BY <2>1, <2>2
  <1> QED BY <1>1, SourceInvariance, PTL

\* Streams in streams are a stream, whatever they are made of.
THEOREM SourceImplemented == StreamSpec => ImplementsSource
  <1>1. SourceInit => Source!Init
    BY SourceInitHolds
  <1>2. SInv /\ [StreamStep]_srcVars => [Source!Show \/ Source!Return \/ Source!Pass]_(Source!vars)
    BY StreamStepKeeps DEF Moves
  <1> QED BY <1>1, <1>2, SourceInvariance, PTL DEF StreamSpec, ImplementsSource, Source!Spec
=============================================================================
