-------------------------- MODULE ConnFramesProofs --------------------------
(* That frames sent over a connection byte by byte are received whole and in *)
(* order, for frames of any number and lengths and a connection of any room, *)
(* that no failure makes a byte out of nothing, and which sizes of 64 bits   *)
(* pass through an int unharmed; and that the size in front of a frame is    *)
(* read as it was written, for all of its values.                            *)
EXTENDS MCConnFrames, Integers, SequenceTheorems, WellFoundedInduction, TLAPS

Bytes == UNION {{Byte(n, at) : at \in 0..WriteLength(n)} : n \in DOMAIN Size}

ConnTypes ==
    /\ stream \in Seq(Bytes) /\ sending \in Seq(Bytes) /\ data \in Seq(Bytes)
    /\ received \in Seq(Seq(Bytes)) /\ written \in Seq(DOMAIN Size)
    /\ begun \in 0..Len(Size) /\ need \in 0..NoSize /\ sound \in BOOLEAN
    /\ need = NoSize => data = <<>>
    /\ need # NoSize => length = need /\ need > 0
    /\ length \in Nat /\ lengths \in Seq(Nat) /\ Len(lengths) = Len(received)

-----------------------------------------------------------------------------
\* The order of the bytes.

Earlier(p, q) == p.frame < q.frame \/ (p.frame = q.frame /\ p.at < q.at)
Sorted(s) == \A i, j \in 1..Len(s) : i < j => Earlier(s[i], s[j])
Before(s, t) == \A i \in 1..Len(s), j \in 1..Len(t) : Earlier(s[i], t[j])
UpTo(s, n) == \A i \in 1..Len(s) : s[i].frame <= n

\* What SendFrame has still to write is the end of the frame begun last.
SendingRest ==
    sending # <<>> =>
      /\ begun \in DOMAIN Size /\ Len(sending) <= WriteLength(begun) + 1
      /\ \A i \in 1..Len(sending) : sending[i] = Byte(begun, WriteLength(begun) - Len(sending) + i)

\* What was received comes before what is being received, that before what is
\* under way, that before what is still to be written.
Ordered(rec, dat, str, snd, last) ==
    /\ \A i \in 1..Len(rec) :
         /\ Sorted(rec[i]) /\ UpTo(rec[i], last)
         /\ Before(rec[i], dat) /\ Before(rec[i], str) /\ Before(rec[i], snd)
         /\ \A j \in 1..Len(rec) : i < j => Before(rec[i], rec[j])
    /\ Sorted(dat) /\ UpTo(dat, last) /\ Before(dat, str) /\ Before(dat, snd)
    /\ Sorted(str) /\ UpTo(str, last) /\ Before(str, snd)

InOrder == Ordered(received, data, stream, sending, begun)

-----------------------------------------------------------------------------
\* Where the frames are, as long as no call failed half way.

\* The frames written and being written, and their bytes not yet read.
Frames == IF sending = <<>> THEN written ELSE Append(written, begun)
Under == stream \o sending

\* Frame k of those starts after position pos[k]; frame r is the one to be
\* received, and of it the bytes dt have been.
Placed(pos, frames, under, r, nd, dt) ==
    /\ r <= Len(frames) + 1
    /\ pos[Len(frames) + 1] = Len(under)
    /\ \A j, k \in r..(Len(frames) + 1) : j <= k => pos[j] <= pos[k]
    /\ \A k \in r..Len(frames) :
         /\ pos[k + 1] = pos[k] + WriteLength(frames[k]) + 1
         /\ \A a \in 0..WriteLength(frames[k]) :
              pos[k] + a + 1 >= 1 => under[pos[k] + a + 1] = Byte(frames[k], a)
    /\ nd = NoSize => pos[r] = 0
    /\ nd # NoSize =>
         /\ r <= Len(frames) /\ nd = WriteLength(frames[r]) /\ Len(dt) < nd
         /\ pos[r] = -(1 + Len(dt))
         /\ \A a \in 1..Len(dt) : dt[a] = Byte(frames[r], a)

Whole == sound => \E pos \in [Nat -> Int] :
                    Placed(pos, Frames, Under, Len(received) + 1, need, data)

ConnInv == ConnTypes /\ SendingRest /\ InOrder /\ Whole
-----------------------------------------------------------------------------
\* What the order is of sequences taken apart and put together.

LEMMA SplitFacts ==
    ASSUME NEW S, NEW s \in Seq(S), NEW n \in 0..Len(s)
    PROVE  /\ SubSeq(s, 1, n) \in Seq(S) /\ Len(SubSeq(s, 1, n)) = n
           /\ \A i \in 1..n : SubSeq(s, 1, n)[i] = s[i]
           /\ SubSeq(s, n + 1, Len(s)) \in Seq(S) /\ Len(SubSeq(s, n + 1, Len(s))) = Len(s) - n
           /\ \A i \in 1..(Len(s) - n) : SubSeq(s, n + 1, Len(s))[i] = s[n + i]
  OBVIOUS

LEMMA ConcatFacts ==
    ASSUME NEW S, NEW s \in Seq(S), NEW t \in Seq(S)
    PROVE  /\ s \o t \in Seq(S) /\ Len(s \o t) = Len(s) + Len(t)
           /\ \A i \in 1..Len(s) : (s \o t)[i] = s[i]
           /\ \A i \in 1..Len(t) : (s \o t)[Len(s) + i] = t[i]
           /\ \A i \in 1..(Len(s) + Len(t)) : (s \o t)[i] = IF i <= Len(s) THEN s[i] ELSE t[i - Len(s)]
  OBVIOUS

\* What becomes of a size on its way into resize() and Read.
LEMMA IntFacts ==
    ASSUME NEW size \in Nat
    PROVE  /\ uint(size) \in 0..(2 * IntMax + 1) /\ IntMax \in Nat
           /\ size <= IntMax => uint(size) = size
           /\ ReadLength(size) = IF uint(size) <= IntMax THEN uint(size) ELSE 0
           /\ ReadLength(size) \in 0..IntMax
  <1>1. /\ uint(size) \in 0..(2 * IntMax + 1) /\ IntMax \in Nat
        /\ size <= IntMax => uint(size) = size
    BY FramesAssumption DEF uint
  <1>2. ReadLength(size) = IF uint(size) <= IntMax THEN uint(size) ELSE 0
    BY <1>1 DEF ReadLength, BytesMoved, int
  <1> QED BY <1>1, <1>2

LEMMA SizeFacts ==
    ASSUME NEW n \in DOMAIN Size
    PROVE  /\ WriteLength(n) \in Nat /\ WriteLength(n) \in 0..IntMax /\ n \in Nat
           /\ Size[n] \in Nat /\ Size[n] \in 0..MaxSize /\ WriteLength(n) = ReadLength(Size[n])
  <1>1. Size[n] \in Nat /\ Size[n] \in 0..MaxSize /\ n \in Nat
    BY FramesAssumption
  <1>2. WriteLength(n) = ReadLength(Size[n])
    BY DEF WriteLength, ReadLength
  <1>3. ReadLength(Size[n]) \in 0..IntMax /\ IntMax \in Nat
    BY <1>1, IntFacts
  <1> QED BY <1>1, <1>2, <1>3

LEMMA ByteParts ==
    ASSUME NEW n, NEW at
    PROVE  Byte(n, at).frame = n /\ Byte(n, at).at = at
  BY DEF Byte

LEMMA ByteIn ==
    ASSUME NEW n \in DOMAIN Size, NEW at \in 0..WriteLength(n)
    PROVE  Byte(n, at) \in Bytes
  BY DEF Bytes

LEMMA ByteFields ==
    ASSUME NEW p \in Bytes
    PROVE  /\ p.frame \in DOMAIN Size /\ p.at \in 0..WriteLength(p.frame) /\ p = Byte(p.frame, p.at)
           /\ p.frame \in Nat /\ p.at \in Nat
  BY FramesAssumption DEF Bytes, Byte

LEMMA EmptyOrder ==
    ASSUME NEW s, NEW n
    PROVE  Sorted(<<>>) /\ Before(s, <<>>) /\ Before(<<>>, s) /\ UpTo(<<>>, n)
  BY DEF Sorted, Before, UpTo

\* Both parts of a sequence keep its order, and the first comes before the other.
LEMMA SplitOrder ==
    ASSUME NEW s \in Seq(Bytes), NEW n \in 0..Len(s)
    PROVE  LET a == SubSeq(s, 1, n)  b == SubSeq(s, n + 1, Len(s)) IN
           /\ Sorted(s) => Sorted(a) /\ Sorted(b) /\ Before(a, b)
           /\ \A t \in Seq(Bytes) : Before(t, s) => Before(t, a) /\ Before(t, b)
           /\ \A t \in Seq(Bytes) : Before(s, t) => Before(a, t) /\ Before(b, t)
           /\ \A k : UpTo(s, k) => UpTo(a, k) /\ UpTo(b, k)
  <1> DEFINE a == SubSeq(s, 1, n)  b == SubSeq(s, n + 1, Len(s))
  <1>1. /\ Len(a) = n /\ \A i \in 1..n : a[i] = s[i]
        /\ Len(b) = Len(s) - n /\ \A i \in 1..(Len(s) - n) : b[i] = s[n + i]
        /\ Len(s) \in Nat
    BY SplitFacts
  <1> HIDE DEF a, b
  <1>a. \A i \in 1..Len(a) : i \in 1..Len(s) /\ a[i] = s[i] /\ i \in Int /\ i <= n
    BY <1>1
  <1>b. \A i \in 1..Len(b) : n + i \in 1..Len(s) /\ b[i] = s[n + i] /\ i \in Int /\ i > 0
    BY <1>1
  <1>2. Sorted(s) => Sorted(a) /\ Sorted(b) /\ Before(a, b)
    <2> SUFFICES ASSUME Sorted(s) PROVE Sorted(a) /\ Sorted(b) /\ Before(a, b)
      OBVIOUS
    <2>1. Sorted(a)
      BY <1>a DEF Sorted
    <2>2. Sorted(b)
      <3> SUFFICES ASSUME NEW i \in 1..Len(b), NEW j \in 1..Len(b), i < j
                   PROVE  Earlier(b[i], b[j])
        BY DEF Sorted
      <3>1. n + i < n + j
        BY <1>b
      <3> QED BY <3>1, <1>b DEF Sorted
    <2>3. Before(a, b)
      <3> SUFFICES ASSUME NEW i \in 1..Len(a), NEW j \in 1..Len(b)
                   PROVE  Earlier(a[i], b[j])
        BY DEF Before
      <3>1. i < n + j
        BY <1>a, <1>b
      <3> QED BY <3>1, <1>a, <1>b DEF Sorted
    <2> QED BY <2>1, <2>2, <2>3
  <1>3. \A t \in Seq(Bytes) : Before(t, s) => Before(t, a) /\ Before(t, b)
    BY <1>a, <1>b DEF Before
  <1>4. \A t \in Seq(Bytes) : Before(s, t) => Before(a, t) /\ Before(b, t)
    BY <1>a, <1>b DEF Before
  <1>5. \A k : UpTo(s, k) => UpTo(a, k) /\ UpTo(b, k)
    BY <1>a, <1>b DEF UpTo
  <1> QED BY <1>2, <1>3, <1>4, <1>5 DEF a, b

\* Two sequences one after the other, in order.
LEMMA JoinOrder ==
    ASSUME NEW s \in Seq(Bytes), NEW t \in Seq(Bytes)
    PROVE  /\ Sorted(s) /\ Sorted(t) /\ Before(s, t) => Sorted(s \o t)
           /\ \A u \in Seq(Bytes) : Before(u, s) /\ Before(u, t) => Before(u, s \o t)
           /\ \A u \in Seq(Bytes) : Before(s, u) /\ Before(t, u) => Before(s \o t, u)
           /\ \A k : UpTo(s, k) /\ UpTo(t, k) => UpTo(s \o t, k)
  <1> DEFINE c == s \o t
  <1>1. /\ Len(c) = Len(s) + Len(t) /\ Len(s) \in Nat /\ Len(t) \in Nat
        /\ \A i \in 1..(Len(s) + Len(t)) : c[i] = IF i <= Len(s) THEN s[i] ELSE t[i - Len(s)]
    BY ConcatFacts
  <1> HIDE DEF c
  <1>a. \A i \in 1..Len(c) : \/ i \in 1..Len(s) /\ c[i] = s[i]
                             \/ i - Len(s) \in 1..Len(t) /\ c[i] = t[i - Len(s)] /\ i > Len(s)
    BY <1>1
  <1>2. Sorted(s) /\ Sorted(t) /\ Before(s, t) => Sorted(c)
    <2> SUFFICES ASSUME Sorted(s), Sorted(t), Before(s, t),
                        NEW i \in 1..Len(c), NEW j \in 1..Len(c), i < j
                 PROVE  Earlier(c[i], c[j])
      BY DEF Sorted
    <2>1. CASE j \in 1..Len(s) /\ c[j] = s[j]
      <3>1. i \in 1..Len(s) /\ ~(i > Len(s))
        BY <1>1, <2>1
      <3>2. c[i] = s[i]
        BY <1>a, <3>1
      <3> QED BY <2>1, <3>1, <3>2 DEF Sorted
    <2>2. CASE j - Len(s) \in 1..Len(t) /\ c[j] = t[j - Len(s)]
      <3>1. CASE i \in 1..Len(s) /\ c[i] = s[i]
        BY <2>2, <3>1 DEF Before
      <3>2. CASE i - Len(s) \in 1..Len(t) /\ c[i] = t[i - Len(s)]
        <4>1. i - Len(s) < j - Len(s)
          BY <1>1
        <4> QED BY <2>2, <3>2, <4>1 DEF Sorted
      <3>3. \/ i \in 1..Len(s) /\ c[i] = s[i]
            \/ i - Len(s) \in 1..Len(t) /\ c[i] = t[i - Len(s)]
        BY <1>a
      <3> QED BY <3>1, <3>2, <3>3
    <2>3. \/ j \in 1..Len(s) /\ c[j] = s[j]
          \/ j - Len(s) \in 1..Len(t) /\ c[j] = t[j - Len(s)]
      BY <1>a
    <2> QED BY <2>1, <2>2, <2>3
  <1>3. \A u \in Seq(Bytes) : Before(u, s) /\ Before(u, t) => Before(u, c)
    <2> SUFFICES ASSUME NEW u \in Seq(Bytes), Before(u, s), Before(u, t),
                        NEW i \in 1..Len(u), NEW j \in 1..Len(c)
                 PROVE  Earlier(u[i], c[j])
      BY DEF Before
    <2>1. CASE j \in 1..Len(s) /\ c[j] = s[j]
      BY <2>1 DEF Before
    <2>2. CASE j - Len(s) \in 1..Len(t) /\ c[j] = t[j - Len(s)]
      BY <2>2 DEF Before
    <2> QED BY <1>a, <2>1, <2>2
  <1>4. \A u \in Seq(Bytes) : Before(s, u) /\ Before(t, u) => Before(c, u)
    <2> SUFFICES ASSUME NEW u \in Seq(Bytes), Before(s, u), Before(t, u),
                        NEW i \in 1..Len(u), NEW j \in 1..Len(c)
                 PROVE  Earlier(c[j], u[i])
      BY DEF Before
    <2>1. CASE j \in 1..Len(s) /\ c[j] = s[j]
      BY <2>1 DEF Before
    <2>2. CASE j - Len(s) \in 1..Len(t) /\ c[j] = t[j - Len(s)]
      BY <2>2 DEF Before
    <2> QED BY <1>a, <2>1, <2>2
  <1>5. \A k : UpTo(s, k) /\ UpTo(t, k) => UpTo(c, k)
    <2> SUFFICES ASSUME NEW k, UpTo(s, k), UpTo(t, k), NEW j \in 1..Len(c)
                 PROVE  c[j].frame <= k
      BY DEF UpTo
    <2>1. CASE j \in 1..Len(s) /\ c[j] = s[j]
      BY <2>1 DEF UpTo
    <2>2. CASE j - Len(s) \in 1..Len(t) /\ c[j] = t[j - Len(s)]
      BY <2>2 DEF UpTo
    <2> QED BY <1>a, <2>1, <2>2
  <1> QED BY <1>2, <1>3, <1>4, <1>5 DEF c

\* What is still to be written is in order, and of the frame begun last.
LEMMA RestOrder ==
    ASSUME NEW n \in DOMAIN Size, NEW s \in Seq(Bytes), Len(s) <= WriteLength(n) + 1,
           \A i \in 1..Len(s) : s[i] = Byte(n, WriteLength(n) - Len(s) + i)
    PROVE  /\ Sorted(s) /\ UpTo(s, n)
           /\ \A t \in Seq(Bytes), k \in Nat : UpTo(t, k) /\ k < n => Before(t, s)
  <1>1. n \in Nat /\ WriteLength(n) \in Nat /\ Len(s) \in Nat
    BY SizeFacts
  <1>2. \A i \in 1..Len(s) : s[i].frame = n /\ s[i].at = WriteLength(n) - Len(s) + i
    <2> TAKE i \in 1..Len(s)
    <2> DEFINE m == WriteLength(n) - Len(s) + i
    <2>1. s[i] = Byte(n, m)
      OBVIOUS
    <2> HIDE DEF m
    <2>2. s[i].frame = n /\ s[i].at = m
      BY <2>1, ByteParts
    <2> QED BY <2>2 DEF m
  <1>3. Sorted(s)
    <2> SUFFICES ASSUME NEW i \in 1..Len(s), NEW j \in 1..Len(s), i < j
                 PROVE  Earlier(s[i], s[j])
      BY DEF Sorted
    <2>1. s[i].frame = s[j].frame
      BY <1>2
    <2>2. s[i].at = WriteLength(n) - Len(s) + i /\ s[j].at = WriteLength(n) - Len(s) + j
      BY <1>2
    <2>3. s[i].at < s[j].at
      BY <1>1, <2>2
    <2> QED BY <2>1, <2>3 DEF Earlier
  <1>4. UpTo(s, n)
    BY <1>1, <1>2 DEF UpTo
  <1>5. ASSUME NEW t \in Seq(Bytes), NEW k \in Nat, UpTo(t, k), k < n
        PROVE  Before(t, s)
    <2> SUFFICES ASSUME NEW i \in 1..Len(t), NEW j \in 1..Len(s) PROVE Earlier(t[i], s[j])
      BY DEF Before
    <2>1. t[i].frame <= k /\ t[i] \in Bytes
      BY <1>5 DEF UpTo
    <2>2. t[i].frame \in Nat
      BY <2>1, ByteFields
    <2> QED BY <1>1, <1>2, <1>5, <2>1, <2>2 DEF Earlier
  <1> QED BY <1>3, <1>4, <1>5

LEMMA PayloadFacts ==
    ASSUME NEW n \in DOMAIN Size
    PROVE  Payload(n) \in Seq(Bytes) /\ Len(Payload(n)) = WriteLength(n)
  <1>1. WriteLength(n) \in Nat
    BY SizeFacts
  <1>2. \A at \in 1..WriteLength(n) : Byte(n, at) \in Bytes
    BY <1>1, ByteIn
  <1> QED BY <1>1, <1>2 DEF Payload

LEMMA FrameBytesFacts ==
    ASSUME NEW n \in DOMAIN Size
    PROVE  /\ FrameBytes(n) \in Seq(Bytes) /\ Len(FrameBytes(n)) = WriteLength(n) + 1
           /\ \A i \in 1..(WriteLength(n) + 1) : FrameBytes(n)[i] = Byte(n, i - 1)
  <1>1. WriteLength(n) \in Nat
    BY SizeFacts
  <1>2. \A at \in 0..WriteLength(n) : Byte(n, at) \in Bytes
    BY DEF Bytes
  <1>3. <<Byte(n, 0)>> \in Seq(Bytes) /\ Len(<<Byte(n, 0)>>) = 1 /\ <<Byte(n, 0)>>[1] = Byte(n, 0)
    BY <1>1, <1>2
  <1>4. Payload(n) \in Seq(Bytes) /\ Len(Payload(n)) = WriteLength(n)
    BY PayloadFacts
  <1>5. \A i \in 1..WriteLength(n) : Payload(n)[i] = Byte(n, i)
    BY DEF Payload
  <1> HIDE DEF Payload
  <1> DEFINE one == <<Byte(n, 0)>>  c == one \o Payload(n)
  <1>6. one \in Seq(Bytes) /\ Len(one) = 1 /\ one[1] = Byte(n, 0)
    BY <1>3
  <1> HIDE DEF one
  <1>9. /\ c \in Seq(Bytes) /\ Len(c) = Len(one) + Len(Payload(n))
        /\ \A i \in 1..(Len(one) + Len(Payload(n))) :
             c[i] = IF i <= Len(one) THEN one[i] ELSE Payload(n)[i - Len(one)]
    <2>1. one \in Seq(Bytes) /\ Payload(n) \in Seq(Bytes)
      BY <1>4, <1>6
    <2> QED BY <2>1, ConcatFacts
  <1>7. /\ c \in Seq(Bytes) /\ Len(c) = 1 + WriteLength(n)
        /\ \A i \in 1..(1 + WriteLength(n)) : c[i] = IF i <= 1 THEN one[i] ELSE Payload(n)[i - 1]
    BY <1>4, <1>6, <1>9
  <1> HIDE DEF c
  <1>8. \A i \in 1..(WriteLength(n) + 1) : c[i] = Byte(n, i - 1)
    <2> TAKE i \in 1..(WriteLength(n) + 1)
    <2>1. CASE i = 1
      BY <1>1, <1>6, <1>7, <2>1
    <2>2. CASE i # 1
      <3>1. i - 1 \in 1..WriteLength(n) /\ c[i] = Payload(n)[i - 1]
        BY <1>1, <1>7, <2>2
      <3> QED BY <3>1, <1>5
    <2> QED BY <2>1, <2>2
  <1> QED BY <1>1, <1>7, <1>8 DEF c, one, FrameBytes

-----------------------------------------------------------------------------
\* What each operation does to the order.

LEMMA OrderBegin ==
    ASSUME NEW rec \in Seq(Seq(Bytes)), NEW dat \in Seq(Bytes), NEW str \in Seq(Bytes),
           NEW last \in Nat, last + 1 \in DOMAIN Size, Ordered(rec, dat, str, <<>>, last)
    PROVE  Ordered(rec, dat, str, FrameBytes(last + 1), last + 1)
  <1> DEFINE n == last + 1  s == FrameBytes(n)
  <1>1. /\ n \in DOMAIN Size /\ s \in Seq(Bytes) /\ Len(s) = WriteLength(n) + 1 /\ WriteLength(n) \in Nat
        /\ \A i \in 1..(WriteLength(n) + 1) : s[i] = Byte(n, i - 1)
    BY FrameBytesFacts, SizeFacts
  <1>2. Len(s) <= WriteLength(n) + 1 /\ \A i \in 1..Len(s) : s[i] = Byte(n, WriteLength(n) - Len(s) + i)
    BY <1>1
  <1> HIDE DEF s
  <1>3. Sorted(s) /\ \A t \in Seq(Bytes) : UpTo(t, last) => Before(t, s)
    BY <1>1, <1>2, RestOrder
  <1>4. \A t \in Seq(Bytes) : UpTo(t, last) => UpTo(t, n)
    <2> SUFFICES ASSUME NEW t \in Seq(Bytes), UpTo(t, last), NEW i \in 1..Len(t)
                 PROVE  t[i].frame <= n
      BY DEF UpTo
    <2>1. t[i] \in Bytes /\ t[i].frame <= last
      BY DEF UpTo
    <2> QED BY <2>1, ByteFields
  <1>5. \A i \in 1..Len(rec) : rec[i] \in Seq(Bytes)
    OBVIOUS
  <1> HIDE DEF n
  <1>6. Ordered(rec, dat, str, s, n)
    BY <1>3, <1>4, <1>5 DEF Ordered
  <1> QED BY <1>6 DEF s, n

LEMMA OrderSend ==
    ASSUME NEW rec \in Seq(Seq(Bytes)), NEW dat \in Seq(Bytes), NEW str \in Seq(Bytes),
           NEW snd \in Seq(Bytes), NEW last, Ordered(rec, dat, str, snd, last),
           Sorted(snd), UpTo(snd, last), NEW n \in 0..Len(snd)
    PROVE  Ordered(rec, dat, str \o SubSeq(snd, 1, n), SubSeq(snd, n + 1, Len(snd)), last)
  <1> DEFINE a == SubSeq(snd, 1, n)  b == SubSeq(snd, n + 1, Len(snd))
  <1>1. /\ a \in Seq(Bytes) /\ b \in Seq(Bytes)
        /\ Sorted(a) /\ Sorted(b) /\ Before(a, b) /\ UpTo(a, last)
        /\ \A t \in Seq(Bytes) : Before(t, snd) => Before(t, a) /\ Before(t, b)
    BY SplitFacts, SplitOrder
  <1> HIDE DEF a, b
  <1>2. \A i \in 1..Len(rec) : rec[i] \in Seq(Bytes)
    OBVIOUS
  <1>3. Before(str, a) /\ Before(str, b) /\ Before(dat, a) /\ Before(dat, b)
    BY <1>1 DEF Ordered
  <1>4. \A i \in 1..Len(rec) : Before(rec[i], a) /\ Before(rec[i], b)
    BY <1>1, <1>2 DEF Ordered
  <1>5. Sorted(str \o a) /\ UpTo(str \o a, last) /\ Before(str \o a, b) /\ Before(dat, str \o a)
    BY <1>1, <1>3, JoinOrder DEF Ordered
  <1>6. \A i \in 1..Len(rec) : Before(rec[i], str \o a)
    BY <1>1, <1>2, <1>4, JoinOrder DEF Ordered
  <1>7. Ordered(rec, dat, str \o a, b, last)
    BY <1>3, <1>4, <1>5, <1>6 DEF Ordered
  <1> QED BY <1>7 DEF a, b

LEMMA OrderRecv ==
    ASSUME NEW rec \in Seq(Seq(Bytes)), NEW dat \in Seq(Bytes), NEW str \in Seq(Bytes),
           NEW snd \in Seq(Bytes), NEW last, Ordered(rec, dat, str, snd, last),
           NEW n \in 0..Len(str)
    PROVE  /\ Ordered(rec, dat, SubSeq(str, n + 1, Len(str)), snd, last)
           /\ Ordered(rec, dat \o SubSeq(str, 1, n), SubSeq(str, n + 1, Len(str)), snd, last)
  <1> DEFINE a == SubSeq(str, 1, n)  b == SubSeq(str, n + 1, Len(str))
  <1>1. /\ a \in Seq(Bytes) /\ b \in Seq(Bytes)
        /\ Sorted(a) /\ Sorted(b) /\ Before(a, b) /\ UpTo(a, last) /\ UpTo(b, last)
        /\ Before(a, snd) /\ Before(b, snd) /\ Before(dat, a) /\ Before(dat, b)
        /\ \A t \in Seq(Bytes) : Before(t, str) => Before(t, a) /\ Before(t, b)
    BY SplitFacts, SplitOrder DEF Ordered
  <1> HIDE DEF a, b
  <1>2. \A i \in 1..Len(rec) : rec[i] \in Seq(Bytes)
    OBVIOUS
  <1>3. \A i \in 1..Len(rec) : Before(rec[i], a) /\ Before(rec[i], b)
    BY <1>1, <1>2 DEF Ordered
  <1>4. Sorted(dat \o a) /\ UpTo(dat \o a, last) /\ Before(dat \o a, b) /\ Before(dat \o a, snd)
    BY <1>1, JoinOrder DEF Ordered
  <1>5. \A i \in 1..Len(rec) : Before(rec[i], dat \o a)
    BY <1>1, <1>2, <1>3, JoinOrder DEF Ordered
  <1>6. Ordered(rec, dat, b, snd, last)
    BY <1>1, <1>3 DEF Ordered
  <1>7. Ordered(rec, dat \o a, b, snd, last)
    BY <1>1, <1>3, <1>4, <1>5 DEF Ordered
  <1> QED BY <1>6, <1>7 DEF a, b

LEMMA OrderFinish ==
    ASSUME NEW rec \in Seq(Seq(Bytes)), NEW dat \in Seq(Bytes), NEW str \in Seq(Bytes),
           NEW snd \in Seq(Bytes), NEW last, Ordered(rec, dat, str, snd, last)
    PROVE  Ordered(Append(rec, dat), <<>>, str, snd, last)
  <1> DEFINE R == Append(rec, dat)
  <1>1. /\ Len(R) = Len(rec) + 1 /\ Len(rec) \in Nat
        /\ \A i \in 1..Len(rec) : R[i] = rec[i]
        /\ R[Len(rec) + 1] = dat
    OBVIOUS
  <1> HIDE DEF R
  <1>2. \A i \in 1..Len(R) : Sorted(R[i]) /\ UpTo(R[i], last) /\ Before(R[i], str) /\ Before(R[i], snd)
    <2> TAKE i \in 1..Len(R)
    <2>1. CASE i \in 1..Len(rec)
      BY <1>1, <2>1 DEF Ordered
    <2>2. CASE i = Len(rec) + 1
      BY <1>1, <2>2 DEF Ordered
    <2> QED BY <1>1, <2>1, <2>2
  <1>3. \A i, j \in 1..Len(R) : i < j => Before(R[i], R[j])
    <2> SUFFICES ASSUME NEW i \in 1..Len(R), NEW j \in 1..Len(R), i < j PROVE Before(R[i], R[j])
      OBVIOUS
    <2>1. i \in 1..Len(rec) /\ R[i] = rec[i]
      BY <1>1
    <2>2. CASE j \in 1..Len(rec)
      <3>1. Before(rec[i], rec[j])
        BY <2>1, <2>2 DEF Ordered
      <3> QED BY <1>1, <2>1, <2>2, <3>1
    <2>3. CASE j = Len(rec) + 1
      <3>1. Before(rec[i], dat)
        BY <2>1 DEF Ordered
      <3> QED BY <1>1, <2>1, <2>3, <3>1
    <2>4. j \in 1..Len(rec) \/ j = Len(rec) + 1
      <3> DEFINE l == Len(rec)
      <3>1. j \in 1..(l + 1) /\ l \in Nat
        BY <1>1
      <3> HIDE DEF l
      <3>2. j \in 1..l \/ j = l + 1
        BY <3>1
      <3> QED BY <3>2 DEF l
    <2> QED BY <2>2, <2>3, <2>4
  <1>4. Ordered(R, <<>>, str, snd, last)
    BY <1>2, <1>3, EmptyOrder DEF Ordered
  <1> QED BY <1>4 DEF R

\* Bytes that are thrown away were in nobody's way.
LEMMA OrderDrop ==
    ASSUME NEW rec, NEW dat, NEW str, NEW snd, NEW last, Ordered(rec, dat, str, snd, last)
    PROVE  Ordered(rec, <<>>, str, snd, last) /\ Ordered(rec, dat, str, <<>>, last)
  BY EmptyOrder DEF Ordered

-----------------------------------------------------------------------------
\* The order is kept, whatever fails.

OrderInv == ConnTypes /\ SendingRest /\ InOrder

LEMMA RestFacts ==
    ASSUME ConnTypes, SendingRest
    PROVE  Sorted(sending) /\ UpTo(sending, begun)
  <1>1. CASE sending = <<>>
    BY <1>1, EmptyOrder
  <1>2. CASE sending # <<>>
    BY <1>2, RestOrder DEF ConnTypes, SendingRest
  <1> QED BY <1>1, <1>2

LEMMA OrderInit == FramesInit => OrderInv
  <1> SUFFICES ASSUME FramesInit PROVE OrderInv
    OBVIOUS
  <1>1. NoSize \in Nat /\ Len(Size) \in Nat
    BY FramesAssumption DEF NoSize
  <1>2. ConnTypes
    BY <1>1, FramesAssumption DEF FramesInit, ConnTypes
  <1>3. InOrder
    BY EmptyOrder DEF FramesInit, InOrder, Ordered
  <1> QED BY <1>2, <1>3 DEF FramesInit, OrderInv, SendingRest

LEMMA OrderOfSendFrame == OrderInv /\ SendFrame => OrderInv'
  <1> SUFFICES ASSUME OrderInv, SendFrame PROVE OrderInv'
    OBVIOUS
  <1> DEFINE n == begun + 1
  <1>1. begun \in Nat /\ n \in DOMAIN Size /\ n \in 0..Len(Size)
    BY FramesAssumption DEF OrderInv, ConnTypes, SendFrame
  <1>2. /\ FrameBytes(n) \in Seq(Bytes) /\ Len(FrameBytes(n)) = WriteLength(n) + 1 /\ WriteLength(n) \in Nat
        /\ \A i \in 1..(WriteLength(n) + 1) : FrameBytes(n)[i] = Byte(n, i - 1)
    BY <1>1, FrameBytesFacts, SizeFacts
  <1>3. ConnTypes'
    BY <1>1, <1>2 DEF OrderInv, ConnTypes, SendFrame
  <1>4. SendingRest'
    <2>1. \A i \in 1..Len(FrameBytes(n)) :
            FrameBytes(n)[i] = Byte(n, WriteLength(n) - Len(FrameBytes(n)) + i)
      BY <1>2
    <2> QED BY <1>1, <1>2, <2>1 DEF SendingRest, SendFrame
  <1>5. Ordered(received, data, stream, FrameBytes(n), n)
    BY <1>1, OrderBegin DEF OrderInv, ConnTypes, InOrder, SendFrame
  <1> QED BY <1>3, <1>4, <1>5 DEF OrderInv, InOrder, SendFrame

LEMMA OrderOfSendSome == OrderInv /\ SendSome => OrderInv'
  <1> SUFFICES ASSUME OrderInv, NEW n \in 1..Smaller(Len(sending), Room - Len(stream)),
                      stream' = stream \o SubSeq(sending, 1, n),
                      sending' = SubSeq(sending, n + 1, Len(sending)),
                      written' = (IF sending' = <<>> THEN Append(written, begun) ELSE written),
                      UNCHANGED <<begun, need, data, length, received, lengths, sound>>
               PROVE  OrderInv'
    BY DEF SendSome
  <1>1. /\ sending \in Seq(Bytes) /\ stream \in Seq(Bytes) /\ Len(sending) \in Nat /\ Len(stream) \in Nat
        /\ n \in 1..Len(sending)
    <2>1. sending \in Seq(Bytes) /\ stream \in Seq(Bytes)
      BY DEF OrderInv, ConnTypes
    <2>2. Len(sending) \in Nat /\ Len(stream) \in Nat /\ Room \in Nat
      BY <2>1, FramesAssumption
    <2> QED BY <2>1, <2>2 DEF Smaller
  <1>2. sending # <<>> /\ begun \in DOMAIN Size /\ Len(sending) <= WriteLength(begun) + 1
    BY <1>1 DEF OrderInv, SendingRest
  <1>3. /\ SubSeq(sending, 1, n) \in Seq(Bytes) /\ sending' \in Seq(Bytes)
        /\ Len(sending') = Len(sending) - n
        /\ \A i \in 1..(Len(sending) - n) : sending'[i] = sending[n + i]
    BY <1>1, SplitFacts
  <1>4. ConnTypes'
    <2>1. stream' \in Seq(Bytes)
      BY <1>1, <1>3, ConcatFacts
    <2>2. written' \in Seq(DOMAIN Size)
      BY <1>2, AppendProperties DEF OrderInv, ConnTypes
    <2> QED BY <1>3, <2>1, <2>2 DEF OrderInv, ConnTypes
  <1>5. SendingRest'
    <2>1. WriteLength(begun) \in Nat
      BY <1>2, SizeFacts
    <2>2. \A i \in 1..Len(sending') : sending'[i] = Byte(begun, WriteLength(begun) - Len(sending') + i)
      <3> TAKE i \in 1..Len(sending')
      <3>1. n + i \in 1..Len(sending) /\ sending'[i] = sending[n + i]
        BY <1>1, <1>3
      <3>2. sending[n + i] = Byte(begun, WriteLength(begun) - Len(sending) + (n + i))
        BY <1>2, <3>1 DEF OrderInv, SendingRest
      <3>3. WriteLength(begun) - Len(sending) + (n + i) = WriteLength(begun) - Len(sending') + i
        BY <1>1, <1>3, <2>1
      <3> QED BY <3>1, <3>2, <3>3
    <2>3. Len(sending') <= WriteLength(begun) + 1
      BY <1>1, <1>2, <1>3, <2>1
    <2> QED BY <1>2, <2>2, <2>3 DEF SendingRest
  <1>6. Ordered(received, data, stream \o SubSeq(sending, 1, n), SubSeq(sending, n + 1, Len(sending)), begun)
    BY <1>1, RestFacts, OrderSend DEF OrderInv, ConnTypes, InOrder
  <1> QED BY <1>4, <1>5, <1>6 DEF OrderInv, InOrder

LEMMA OrderOfSendFails == OrderInv /\ SendFails => OrderInv'
  <1> SUFFICES ASSUME OrderInv, SendFails PROVE OrderInv'
    OBVIOUS
  <1>1. sound' \in BOOLEAN
    BY DEF SendFails
  <1>2. ConnTypes'
    BY <1>1 DEF OrderInv, ConnTypes, SendFails
  <1>3. InOrder'
    BY OrderDrop DEF OrderInv, InOrder, SendFails
  <1> QED BY <1>2, <1>3 DEF OrderInv, SendingRest, SendFails

LEMMA OrderOfRecvFails == OrderInv /\ RecvFails => OrderInv'
  <1> SUFFICES ASSUME OrderInv, RecvFails PROVE OrderInv'
    OBVIOUS
  <1>1. sound' \in BOOLEAN
    BY DEF RecvFails
  <1>2. NoSize \in 0..NoSize
    BY FramesAssumption DEF NoSize
  <1>3. ConnTypes'
    BY <1>1, <1>2 DEF OrderInv, ConnTypes, RecvFails
  <1>4. InOrder'
    BY OrderDrop DEF OrderInv, InOrder, RecvFails
  <1> QED BY <1>3, <1>4 DEF OrderInv, SendingRest, RecvFails

\* A frame that is whole is returned, and the next one looked for.
LEMMA OrderOfFinish ==
    ASSUME OrderInv, NEW bytes \in Seq(Bytes), NEW str \in Seq(Bytes),
           Ordered(received, bytes, str, sending, begun),
           NEW size \in Nat, Finish(bytes, size), stream' = str, UNCHANGED <<sending, begun, written, sound>>
    PROVE  OrderInv'
  <1>1. NoSize \in 0..NoSize
    BY FramesAssumption DEF NoSize
  <1>2. ConnTypes'
    <2>1. Len(received') = Len(received) + 1 /\ Len(lengths') = Len(lengths) + 1 /\ lengths' \in Seq(Nat)
      BY AppendProperties DEF OrderInv, ConnTypes, Finish
    <2> QED BY <1>1, <2>1, AppendProperties DEF OrderInv, ConnTypes, Finish
  <1>3. Ordered(Append(received, bytes), <<>>, str, sending, begun)
    BY OrderFinish DEF OrderInv, ConnTypes
  <1> QED BY <1>2, <1>3 DEF OrderInv, InOrder, SendingRest, Finish

LEMMA OrderOfRecvSize == OrderInv /\ RecvSize => OrderInv'
  <1> SUFFICES ASSUME OrderInv, RecvSize PROVE OrderInv'
    OBVIOUS
  <1>1. PICK size \in IF Head(stream).at = 0 THEN {Size[Head(stream).frame]} ELSE 0..MaxSize :
          IF ReadLength(size) = 0 THEN Finish(<<>>, uint(size))
          ELSE need' = ReadLength(size) /\ length' = uint(size) /\ UNCHANGED <<data, received, lengths>>
    BY DEF RecvSize
  <1>2. /\ stream \in Seq(Bytes) /\ stream # <<>> /\ data = <<>>
        /\ stream' = Tail(stream) /\ UNCHANGED <<sending, begun, written, sound>>
    BY DEF OrderInv, ConnTypes, RecvSize
  <1>3. 1 \in 0..Len(stream) /\ Tail(stream) = SubSeq(stream, 2, Len(stream)) /\ Tail(stream) \in Seq(Bytes)
    BY <1>2
  <1>4. Ordered(received, <<>>, Tail(stream), sending, begun)
    <2>1. /\ received \in Seq(Seq(Bytes)) /\ data \in Seq(Bytes) /\ sending \in Seq(Bytes)
          /\ Ordered(received, data, stream, sending, begun)
      BY DEF OrderInv, ConnTypes, InOrder
    <2>2. Ordered(received, data, SubSeq(stream, 1 + 1, Len(stream)), sending, begun)
      BY <1>2, <1>3, <2>1, OrderRecv
    <2>3. SubSeq(stream, 1 + 1, Len(stream)) = Tail(stream)
      BY <1>2, <1>3
    <2> QED BY <1>2, <2>2, <2>3
  <1>5. size \in 0..MaxSize
    <2>1. Head(stream) \in Bytes
      BY <1>2
    <2>2. Size[Head(stream).frame] \in 0..MaxSize
      BY <2>1, ByteFields, SizeFacts
    <2> QED BY <2>2
  <1>s. /\ uint(size) \in Nat /\ ReadLength(size) \in 0..IntMax
        /\ ReadLength(size) # 0 => uint(size) = ReadLength(size)
    <2>1. size \in Nat /\ IntMax \in Nat
      BY <1>5, FramesAssumption
    <2> QED BY <2>1, IntFacts
  <1>6. CASE ReadLength(size) = 0
    <2>1. <<>> \in Seq(Bytes)
      OBVIOUS
    <2>2. Finish(<<>>, uint(size))
      BY <1>1, <1>6
    <2> QED BY <1>2, <1>3, <1>4, <1>s, <2>1, <2>2, OrderOfFinish
  <1>7. CASE ReadLength(size) # 0
    <2>1. need' = ReadLength(size) /\ length' = uint(size) /\ UNCHANGED <<data, received, lengths>>
      BY <1>1, <1>7
    <2>2. ReadLength(size) \in 0..NoSize /\ ReadLength(size) # NoSize /\ ReadLength(size) > 0
      BY <1>7, <1>s, FramesAssumption DEF NoSize
    <2>3. ConnTypes'
      BY <1>2, <1>3, <1>7, <1>s, <2>1, <2>2 DEF OrderInv, ConnTypes
    <2> QED BY <1>2, <1>4, <2>1, <2>3 DEF OrderInv, InOrder, SendingRest
  <1> QED BY <1>6, <1>7

LEMMA OrderOfRecvSome == OrderInv /\ RecvSome => OrderInv'
  <1> SUFFICES ASSUME OrderInv, need # NoSize,
                      NEW n \in 1..Smaller(need - Len(data), Len(stream)),
                      LET bytes == data \o SubSeq(stream, 1, n)
                      IN /\ IF Len(bytes) = need THEN Finish(bytes, length)
                            ELSE data' = bytes /\ UNCHANGED <<need, length, received, lengths>>
                         /\ stream' = SubSeq(stream, n + 1, Len(stream)),
                      UNCHANGED <<sending, begun, written, sound>>
               PROVE  OrderInv'
    BY DEF RecvSome
  <1> DEFINE bytes == data \o SubSeq(stream, 1, n)  rest == SubSeq(stream, n + 1, Len(stream))
  <1>1. /\ stream \in Seq(Bytes) /\ data \in Seq(Bytes) /\ Len(stream) \in Nat /\ Len(data) \in Nat
        /\ need \in Nat /\ length \in Nat
    BY FramesAssumption DEF OrderInv, ConnTypes, NoSize
  <1>2. n \in 0..Len(stream)
    BY <1>1 DEF Smaller
  <1>3. bytes \in Seq(Bytes) /\ rest \in Seq(Bytes)
    BY <1>1, <1>2, SplitFacts, ConcatFacts
  <1>4. Ordered(received, bytes, rest, sending, begun)
    BY <1>1, <1>2, OrderRecv DEF OrderInv, ConnTypes, InOrder
  <1>5. stream' = rest /\ IF Len(bytes) = need THEN Finish(bytes, length)
                          ELSE data' = bytes /\ UNCHANGED <<need, length, received, lengths>>
    OBVIOUS
  <1> HIDE DEF bytes, rest
  <1>6. CASE Len(bytes) = need
    BY <1>1, <1>3, <1>4, <1>5, <1>6, OrderOfFinish
  <1>7. CASE Len(bytes) # need
    <2>1. data' = bytes /\ UNCHANGED <<need, length, received, lengths>>
      BY <1>5, <1>7
    <2>2. ConnTypes'
      BY <1>3, <1>5, <2>1 DEF OrderInv, ConnTypes
    <2> QED BY <1>4, <1>5, <2>1, <2>2 DEF OrderInv, InOrder, SendingRest
  <1> QED BY <1>6, <1>7

LEMMA OrderStep == OrderInv /\ [FramesNext]_framesVars => OrderInv'
  <1>1. OrderInv /\ UNCHANGED framesVars => OrderInv'
    BY DEF OrderInv, ConnTypes, SendingRest, InOrder, framesVars
  <1> QED
    BY <1>1, OrderOfSendFrame, OrderOfSendSome, OrderOfSendFails, OrderOfRecvSize,
       OrderOfRecvSome, OrderOfRecvFails DEF FramesNext

\* The bytes keep the order they are sent in, at every place they are at,
\* through any failure.
THEOREM OrderInvariance == FramesSpec => []OrderInv
  BY OrderInit, OrderStep, PTL DEF FramesSpec

LEMMA OrderShows == OrderInv => BytesInOrder
  <1> SUFFICES ASSUME OrderInv,
                      NEW i \in DOMAIN received, NEW j \in DOMAIN received,
                      NEW a \in DOMAIN received[i], NEW b \in DOMAIN received[j],
                      i < j \/ (i = j /\ a < b)
               PROVE  Earlier(received[i][a], received[j][b])
    BY DEF BytesInOrder, Earlier
  <1>1. /\ i \in 1..Len(received) /\ j \in 1..Len(received)
        /\ received[i] \in Seq(Bytes) /\ received[j] \in Seq(Bytes)
    BY DEF OrderInv, ConnTypes
  <1>2. a \in 1..Len(received[i]) /\ b \in 1..Len(received[j])
    BY <1>1
  <1>3. CASE i < j
    BY <1>1, <1>2, <1>3 DEF OrderInv, InOrder, Ordered, Before
  <1>4. CASE i = j /\ a < b
    BY <1>1, <1>2, <1>4 DEF OrderInv, InOrder, Ordered, Sorted
  <1> QED BY <1>3, <1>4

\* RecvFrame returns no byte that was not sent, none twice and none out of
\* order, whichever calls of either end have failed, and where.
THEOREM BytesKeepOrder == FramesSpec => []BytesInOrder
  BY OrderInvariance, OrderShows, PTL

-----------------------------------------------------------------------------
\* What the operations do to the place of the frames.

\* The frame to be received is a whole one, of which nothing has been read but
\* what dt holds; and it is in reach.
LEMMA PlacedFacts ==
    ASSUME NEW pos \in [Nat -> Int], NEW frames \in Seq(DOMAIN Size), NEW under \in Seq(Bytes),
           NEW r \in Nat \ {0}, NEW nd, NEW dt \in Seq(Bytes), Placed(pos, frames, under, r, nd, dt)
    PROVE  /\ under # <<>> => r <= Len(frames)
           /\ nd # NoSize => r <= Len(frames)
           /\ \A k \in r..Len(frames) : /\ k \in DOMAIN frames /\ frames[k] \in DOMAIN Size
                                        /\ WriteLength(frames[k]) \in Nat
                                        /\ pos[k + 1] = pos[k] + WriteLength(frames[k]) + 1
                                        /\ pos[k + 1] <= Len(under)
  <1>1. Len(frames) \in Nat /\ Len(under) \in Nat /\ pos[Len(frames) + 1] = Len(under)
        /\ pos[r] \in Int /\ Len(dt) \in Nat
    BY DEF Placed
  <1>2. r <= Len(frames) + 1 /\ (nd = NoSize => pos[r] = 0) /\ (nd # NoSize => r <= Len(frames))
    BY DEF Placed
  <1>3. under # <<>> => r <= Len(frames)
    <2> SUFFICES ASSUME under # <<>>, r = Len(frames) + 1 PROVE FALSE
      BY <1>1, <1>2
    <2>1. pos[r] = Len(under) /\ Len(under) > 0
      BY <1>1
    <2> QED BY <1>1, <1>2, <2>1
  <1>4. ASSUME NEW k \in r..Len(frames)
        PROVE  /\ k \in DOMAIN frames /\ frames[k] \in DOMAIN Size /\ WriteLength(frames[k]) \in Nat
               /\ pos[k + 1] = pos[k] + WriteLength(frames[k]) + 1
               /\ pos[k + 1] <= Len(under)
    <2>1. k \in DOMAIN frames /\ frames[k] \in DOMAIN Size
      BY <1>1
    <2>2. WriteLength(frames[k]) \in Nat
      BY <2>1, SizeFacts
    <2>3. pos[k + 1] = pos[k] + WriteLength(frames[k]) + 1
      BY DEF Placed
    <2>4. k + 1 \in r..(Len(frames) + 1) /\ Len(frames) + 1 \in r..(Len(frames) + 1) /\ k + 1 <= Len(frames) + 1
      BY <1>1
    <2>5. pos[k + 1] <= pos[Len(frames) + 1]
      BY <2>4 DEF Placed
    <2> QED BY <1>1, <2>1, <2>2, <2>3, <2>5
  <1> QED BY <1>2, <1>3, <1>4

\* One frame more.
LEMMA PlacedBegin ==
    ASSUME NEW pos \in [Nat -> Int], NEW frames \in Seq(DOMAIN Size), NEW under \in Seq(Bytes),
           NEW r \in Nat \ {0}, NEW nd, NEW dt \in Seq(Bytes), Placed(pos, frames, under, r, nd, dt),
           NEW n \in DOMAIN Size
    PROVE  \E pos2 \in [Nat -> Int] :
             Placed(pos2, Append(frames, n), under \o FrameBytes(n), r, nd, dt)
  <1> DEFINE L == Len(frames)  F == Append(frames, n)  U == under \o FrameBytes(n)
             end == Len(under) + WriteLength(n) + 1
             P == [pos EXCEPT ![L + 2] = end]
  <1>1. /\ L \in Nat /\ Len(under) \in Nat /\ WriteLength(n) \in Nat /\ end \in Int /\ end >= Len(under)
        /\ end = Len(under) + WriteLength(n) + 1
    <2>1. WriteLength(n) \in Nat /\ Len(under) \in Nat
      BY SizeFacts
    <2> QED BY <2>1
  <1>2. /\ Len(F) = L + 1 /\ F[L + 1] = n /\ \A k \in 1..L : F[k] = frames[k]
    BY <1>1, AppendProperties
  <1>3. /\ Len(FrameBytes(n)) = WriteLength(n) + 1 /\ FrameBytes(n) \in Seq(Bytes)
        /\ \A i \in 1..(WriteLength(n) + 1) : FrameBytes(n)[i] = Byte(n, i - 1)
    BY FrameBytesFacts
  <1>4. /\ Len(U) = end
        /\ \A i \in 1..Len(under) : U[i] = under[i]
        /\ \A i \in 1..Len(FrameBytes(n)) : U[Len(under) + i] = FrameBytes(n)[i]
    <2>0. FrameBytes(n) \in Seq(Bytes)
      BY <1>3
    <2>1. /\ Len(U) = Len(under) + Len(FrameBytes(n))
          /\ \A i \in 1..Len(under) : U[i] = under[i]
          /\ \A i \in 1..Len(FrameBytes(n)) : U[Len(under) + i] = FrameBytes(n)[i]
      BY <2>0, ConcatFacts
    <2>2. Len(under) + Len(FrameBytes(n)) = end
      BY <1>1, <1>3
    <2> HIDE DEF U, end
    <2>3. Len(U) = end
      BY <2>1, <2>2
    <2> QED BY <2>1, <2>3
  <1>5. P \in [Nat -> Int] /\ P[L + 2] = end /\ \A k \in Nat : k # L + 2 => P[k] = pos[k]
    <2>1. L + 2 \in Nat /\ end \in Int
      BY <1>1
    <2> DEFINE x == L + 2
    <2> HIDE DEF L, F, U, end, x
    <2>2. x \in Nat /\ P = [pos EXCEPT ![x] = end]
      BY <2>1 DEF x
    <2> HIDE DEF P
    <2>3. P \in [Nat -> Int] /\ P[x] = end /\ \A k \in Nat : k # x => P[k] = pos[k]
      BY <2>1, <2>2
    <2> QED BY <2>3 DEF x
  <1> HIDE DEF L, F, U, end, P
  <1>6. /\ r <= L + 1 /\ pos[L + 1] = Len(under)
        /\ \A j, k \in r..(L + 1) : j <= k => pos[j] <= pos[k]
        /\ \A k \in r..L :
             /\ pos[k + 1] = pos[k] + WriteLength(frames[k]) + 1
             /\ \A a \in 0..WriteLength(frames[k]) :
                  pos[k] + a + 1 >= 1 => under[pos[k] + a + 1] = Byte(frames[k], a)
    BY DEF Placed, L
  <1>7. \A k \in r..L : /\ k \in DOMAIN frames /\ WriteLength(frames[k]) \in Nat
                        /\ pos[k + 1] <= Len(under)
    BY PlacedFacts DEF L
  <1>8. r <= Len(F) + 1 /\ P[Len(F) + 1] = Len(U)
    <2>1. Len(F) + 1 = L + 2
      BY <1>1, <1>2
    <2>2. r <= L + 2
      BY <1>1, <1>6
    <2> QED BY <1>4, <1>5, <2>1, <2>2
  <1>9. \A j, k \in r..(Len(F) + 1) : j <= k => P[j] <= P[k]
    <2>0. Len(F) + 1 = L + 2
      BY <1>1, <1>2
    <2> SUFFICES ASSUME NEW j \in r..(L + 2), NEW k \in r..(L + 2), j <= k PROVE P[j] <= P[k]
      BY <2>0
    <2>1. j \in Nat /\ k \in Nat /\ pos[j] \in Int /\ pos[k] \in Int
      BY <1>1
    <2>2. CASE k = L + 2 /\ j = L + 2
      BY <1>1, <1>5, <2>2
    <2>3. CASE k = L + 2 /\ j # L + 2
      <3>1. j \in r..(L + 1) /\ L + 1 \in r..(L + 1) /\ j <= L + 1
        BY <1>1, <1>6, <2>3
      <3>2. pos[j] <= Len(under)
        BY <1>6, <3>1
      <3>3. P[j] = pos[j] /\ P[k] = end
        BY <1>5, <2>1, <2>3
      <3>4. Len(under) <= end /\ Len(under) \in Int /\ end \in Int
        BY <1>1
      <3> DEFINE p == pos[j]  u == Len(under)
      <3>5. p \in Int /\ p <= u /\ u <= end /\ u \in Int /\ end \in Int
        BY <2>1, <3>2, <3>4
      <3> HIDE DEF p, u
      <3>6. p <= end
        BY <3>5
      <3> QED BY <3>3, <3>6 DEF p
    <2>4. CASE k # L + 2
      <3>0. L \in Nat /\ r \in Nat /\ j \in Nat /\ k \in Nat
        BY <1>1, <2>1
      <3>1. j \in r..(L + 1) /\ k \in r..(L + 1) /\ j # L + 2
        BY <3>0, <2>4
      <3>2. pos[j] <= pos[k]
        BY <1>6, <3>1
      <3> QED BY <1>5, <2>1, <2>4, <3>1, <3>2
    <2> QED BY <2>2, <2>3, <2>4
  <1>10. ASSUME NEW k \in r..Len(F)
         PROVE  /\ P[k + 1] = P[k] + WriteLength(F[k]) + 1
                /\ \A a \in 0..WriteLength(F[k]) : P[k] + a + 1 >= 1 => U[P[k] + a + 1] = Byte(F[k], a)
    <2>1. CASE k = L + 1
      <3>1. F[k] = n /\ P[k] = Len(under) /\ P[k + 1] = end
        <4>1. k \in Nat /\ k # L + 2 /\ k + 1 = L + 2
          BY <1>1, <2>1
        <4> QED BY <1>2, <1>5, <1>6, <2>1, <4>1
      <3>2. ASSUME NEW a \in 0..WriteLength(n) PROVE U[Len(under) + a + 1] = Byte(n, a)
        <4>1. a + 1 \in 1..(WriteLength(n) + 1) /\ Len(under) + (a + 1) = Len(under) + a + 1 /\ (a + 1) - 1 = a
          BY <1>1
        <4>2. U[Len(under) + (a + 1)] = FrameBytes(n)[a + 1]
          BY <1>3, <1>4, <4>1
        <4>3. FrameBytes(n)[a + 1] = Byte(n, (a + 1) - 1)
          BY <1>3, <4>1
        <4> QED BY <4>1, <4>2, <4>3
      <3> QED BY <1>1, <3>1, <3>2
    <2>2. CASE k # L + 1
      <3>1. k \in r..L /\ k \in 1..L /\ k \in Nat /\ k # L + 2 /\ k + 1 # L + 2 /\ k + 1 \in Nat
        BY <1>1, <1>2, <2>2
      <3>2. F[k] = frames[k] /\ P[k] = pos[k] /\ P[k + 1] = pos[k + 1] /\ pos[k] \in Int
        BY <1>2, <1>5, <3>1
      <3>3. /\ pos[k + 1] = pos[k] + WriteLength(frames[k]) + 1 /\ WriteLength(frames[k]) \in Nat
            /\ pos[k + 1] <= Len(under)
        BY <1>6, <1>7, <3>1
      <3>4. ASSUME NEW a \in 0..WriteLength(frames[k]), pos[k] + a + 1 >= 1
            PROVE  U[pos[k] + a + 1] = Byte(frames[k], a)
        <4>a. a \in Nat /\ a <= WriteLength(frames[k])
          BY <3>3
        <4> DEFINE p == pos[k]  z == WriteLength(frames[k])
        <4>b. p \in Int /\ z \in Nat /\ p + z + 1 <= Len(under) /\ p + a + 1 >= 1 /\ a <= z
          BY <3>2, <3>3, <3>4, <4>a
        <4>c. Len(under) \in Nat
          OBVIOUS
        <4> HIDE DEF p, z
        <4>d. p + a + 1 \in 1..Len(under)
          BY <4>a, <4>b, <4>c
        <4>1. pos[k] + a + 1 \in 1..Len(under)
          BY <4>d DEF p
        <4>2. under[pos[k] + a + 1] = Byte(frames[k], a)
          BY <1>6, <3>1, <3>4
        <4> QED BY <1>4, <4>1, <4>2
      <3> QED BY <3>2, <3>3, <3>4
    <2> QED BY <2>1, <2>2
  <1>11. /\ nd = NoSize => P[r] = 0
         /\ nd # NoSize =>
              /\ r <= Len(F) /\ nd = WriteLength(F[r]) /\ Len(dt) < nd
              /\ P[r] = -(1 + Len(dt))
              /\ \A a \in 1..Len(dt) : dt[a] = Byte(F[r], a)
    <2>1. P[r] = pos[r]
      BY <1>1, <1>5, <1>6
    <2>2. nd = NoSize => pos[r] = 0
      BY DEF Placed
    <2>3. nd # NoSize => /\ r <= L /\ nd = WriteLength(frames[r]) /\ Len(dt) < nd
                         /\ pos[r] = -(1 + Len(dt))
                         /\ \A a \in 1..Len(dt) : dt[a] = Byte(frames[r], a)
      BY DEF Placed, L
    <2>4. r <= L => F[r] = frames[r] /\ r <= Len(F)
      BY <1>1, <1>2
    <2> QED BY <2>1, <2>2, <2>3, <2>4
  <1>12. Placed(P, F, U, r, nd, dt)
    BY <1>8, <1>9, <1>10, <1>11 DEF Placed
  <1> QED BY <1>5, <1>12 DEF F, U

\* The last frame, of which nothing was written, given up.
LEMMA PlacedGivenUp ==
    ASSUME NEW pos \in [Nat -> Int], NEW frames \in Seq(DOMAIN Size), NEW under \in Seq(Bytes),
           NEW r \in Nat \ {0}, NEW nd, NEW dt \in Seq(Bytes), NEW n \in DOMAIN Size,
           NEW rest \in Seq(Bytes), Len(rest) = WriteLength(n) + 1,
           Placed(pos, Append(frames, n), under \o rest, r, nd, dt)
    PROVE  Placed(pos, frames, under, r, nd, dt)
  <1> DEFINE L == Len(frames)  F == Append(frames, n)  U == under \o rest
  <1>1. L \in Nat /\ Len(under) \in Nat /\ WriteLength(n) \in Nat /\ Len(rest) = WriteLength(n) + 1
    BY SMTT(30), SizeFacts
  <1>0. frames \in Seq(DOMAIN Size) /\ under \in Seq(Bytes) /\ rest \in Seq(Bytes)
    OBVIOUS
  <1>2. /\ Len(F) = L + 1 /\ F[L + 1] = n /\ \A k \in 1..L : F[k] = frames[k]
        /\ F \in Seq(DOMAIN Size) /\ U \in Seq(Bytes)
    BY AppendProperties, ConcatFacts
  <1>3. Len(U) = Len(under) + Len(rest) /\ \A i \in 1..Len(under) : U[i] = under[i]
    BY ONLY <1>0, ConcatFacts
  <1> HIDE DEF F, U
  <1>4. /\ r <= L + 2 /\ pos[L + 2] = Len(U)
        /\ \A j, k \in r..(L + 2) : j <= k => pos[j] <= pos[k]
        /\ \A k \in r..(L + 1) :
             /\ pos[k + 1] = pos[k] + WriteLength(F[k]) + 1
             /\ \A a \in 0..WriteLength(F[k]) : pos[k] + a + 1 >= 1 => U[pos[k] + a + 1] = Byte(F[k], a)
        /\ nd = NoSize => pos[r] = 0
        /\ nd # NoSize =>
             /\ r <= L + 1 /\ nd = WriteLength(F[r]) /\ Len(dt) < nd
             /\ pos[r] = -(1 + Len(dt))
             /\ \A a \in 1..Len(dt) : dt[a] = Byte(F[r], a)
    <2>1. Len(F) + 1 = L + 2 /\ Len(F) = L + 1
      BY <1>1, <1>2
    <2>2. Placed(pos, F, U, r, nd, dt)
      BY DEF F, U
    <2> QED BY <2>1, <2>2 DEF Placed
  <1>5. r <= L + 1
    <2> SUFFICES ASSUME r = L + 2 PROVE FALSE
      BY <1>1, <1>4
    <2>1. U # <<>>
      BY <1>1, <1>2, <1>3
    <2>2. Placed(pos, F, U, r, nd, dt)
      BY DEF F, U
    <2>3. r <= Len(F)
      BY <1>2, <2>1, <2>2, PlacedFacts
    <2> QED BY <1>1, <1>2, <2>3
  <1>6. pos[L + 1] = Len(under)
    <2>1. L + 1 \in r..(L + 1) /\ pos[L + 1] \in Int /\ (L + 1) + 1 = L + 2
      BY <1>1, <1>5
    <2>2. pos[(L + 1) + 1] = pos[L + 1] + WriteLength(F[L + 1]) + 1
      BY <1>4, <2>1
    <2>3. Len(under) + Len(rest) = pos[L + 1] + WriteLength(n) + 1
      <3>1. pos[L + 2] = Len(under) + Len(rest) /\ F[L + 1] = n
        BY <1>2, <1>3, <1>4
      <3> QED BY <2>1, <2>2, <3>1
    <2> DEFINE p == pos[L + 1]  z == WriteLength(n)  u == Len(under)  v == Len(rest)
    <2>4. p \in Int /\ z \in Nat /\ u \in Nat /\ v = z + 1 /\ u + v = p + z + 1
      BY <1>1, <2>1, <2>3
    <2> HIDE DEF p, z, u, v
    <2>5. p = u
      BY <2>4
    <2> QED BY <2>5 DEF p, u
  <1>7. \A j, k \in r..(L + 1) : j <= k => pos[j] <= pos[k]
    <2>1. \A j \in r..(L + 1) : j \in r..(L + 2)
      BY <1>1
    <2>2. \A j, k \in r..(L + 2) : j <= k => pos[j] <= pos[k]
      BY <1>4
    <2> QED BY <2>1, <2>2
  <1>8. ASSUME NEW k \in r..L
        PROVE  /\ pos[k + 1] = pos[k] + WriteLength(frames[k]) + 1
               /\ \A a \in 0..WriteLength(frames[k]) :
                    pos[k] + a + 1 >= 1 => under[pos[k] + a + 1] = Byte(frames[k], a)
    <2>0. k \in r..(L + 1) /\ k \in 1..L /\ k \in Nat /\ k + 1 \in Nat
      BY <1>1
    <2>1. k \in r..(L + 1) /\ k \in 1..L /\ F[k] = frames[k] /\ pos[k] \in Int /\ pos[k + 1] \in Int
      BY <1>2, <2>0
    <2>2. WriteLength(frames[k]) \in Nat
      <3>1. frames[k] \in DOMAIN Size
        BY ONLY <1>0, <2>0
      <3> QED BY <3>1, SizeFacts
    <2>3. pos[k + 1] = pos[k] + WriteLength(frames[k]) + 1
      BY <1>4, <2>1
    <2>4. pos[k + 1] <= Len(under)
      <3>1. k + 1 \in r..(L + 1) /\ L + 1 \in r..(L + 1) /\ k + 1 <= L + 1
        BY <1>1, <1>5
      <3> QED BY <1>6, <1>7, <3>1
    <2>5. ASSUME NEW a \in 0..WriteLength(frames[k]), pos[k] + a + 1 >= 1
          PROVE  under[pos[k] + a + 1] = Byte(frames[k], a)
      <3> DEFINE p == pos[k]  z == WriteLength(frames[k])
      <3>1. p \in Int /\ z \in Nat /\ p + z + 1 <= Len(under) /\ p + a + 1 >= 1 /\ a <= z /\ a \in Nat
        BY <2>1, <2>2, <2>3, <2>4, <2>5
      <3> HIDE DEF p, z
      <3>2. p + a + 1 \in 1..Len(under)
        BY <1>1, <3>1
      <3>3. U[p + a + 1] = Byte(frames[k], a)
        BY <1>4, <2>1, <2>5 DEF p
      <3> QED BY <1>3, <3>2, <3>3 DEF p
    <2> QED BY <2>3, <2>5
  <1>9. nd # NoSize => /\ r <= L /\ nd = WriteLength(frames[r]) /\ Len(dt) < nd
                       /\ pos[r] = -(1 + Len(dt))
                       /\ \A a \in 1..Len(dt) : dt[a] = Byte(frames[r], a)
    <2> SUFFICES ASSUME nd # NoSize
                 PROVE  /\ r <= L /\ nd = WriteLength(frames[r]) /\ Len(dt) < nd
                        /\ pos[r] = -(1 + Len(dt))
                        /\ \A a \in 1..Len(dt) : dt[a] = Byte(frames[r], a)
      OBVIOUS
    <2>1. pos[r] = -(1 + Len(dt)) /\ Len(dt) \in Nat
      BY <1>4
    <2>2. r # L + 1
      BY <1>1, <1>6, <2>1
    <2>3. r \in 1..L
      BY <1>1, <1>5, <2>2
    <2>4. F[r] = frames[r]
      BY <1>2, <2>3
    <2>5. /\ nd = WriteLength(F[r]) /\ Len(dt) < nd
          /\ \A a \in 1..Len(dt) : dt[a] = Byte(F[r], a)
      BY <1>4
    <2>6. r <= L
      BY <1>1, <2>3
    <2> QED BY <2>1, <2>4, <2>5, <2>6
  <1> QED BY <1>4, <1>5, <1>6, <1>7, <1>8, <1>9 DEF Placed

\* The first m bytes read: frame r2 is the one to be received now.
LEMMA PlacedShift ==
    ASSUME NEW pos \in [Nat -> Int], NEW frames \in Seq(DOMAIN Size), NEW under \in Seq(Bytes),
           NEW r \in Nat \ {0}, NEW nd, NEW dt \in Seq(Bytes), Placed(pos, frames, under, r, nd, dt),
           NEW m \in 0..Len(under), NEW r2 \in r..(Len(frames) + 1), NEW nd2, NEW dt2 \in Seq(Bytes),
           nd2 = NoSize => pos[r2] = m,
           nd2 # NoSize => /\ r2 <= Len(frames) /\ nd2 = WriteLength(frames[r2]) /\ Len(dt2) < nd2
                           /\ pos[r2] - m = -(1 + Len(dt2))
                           /\ \A a \in 1..Len(dt2) : dt2[a] = Byte(frames[r2], a)
    PROVE  \E pos2 \in [Nat -> Int] :
             Placed(pos2, frames, SubSeq(under, m + 1, Len(under)), r2, nd2, dt2)
  <1> DEFINE L == Len(frames)  U == SubSeq(under, m + 1, Len(under))  P == [k \in Nat |-> pos[k] - m]
  <1>1. L \in Nat /\ Len(under) \in Nat /\ m \in Nat /\ m <= Len(under) /\ r2 \in Nat /\ r2 <= L + 1
    OBVIOUS
  <1>2. Len(U) = Len(under) - m /\ \A i \in 1..(Len(under) - m) : U[i] = under[m + i]
    BY SplitFacts
  <1>3. P \in [Nat -> Int] /\ \A k \in Nat : P[k] = pos[k] - m /\ pos[k] \in Int
    <2>1. \A k \in Nat : pos[k] \in Int
      OBVIOUS
    <2>2. \A k \in Nat : pos[k] - m \in Int
      BY <1>1, <2>1
    <2> QED BY <2>1, <2>2
  <1> HIDE DEF L, U, P
  <1>a. /\ pos[L + 1] = Len(under)
        /\ \A j, k \in r..(L + 1) : j <= k => pos[j] <= pos[k]
        /\ \A k \in r..L :
             /\ pos[k + 1] = pos[k] + WriteLength(frames[k]) + 1
             /\ \A a \in 0..WriteLength(frames[k]) :
                  pos[k] + a + 1 >= 1 => under[pos[k] + a + 1] = Byte(frames[k], a)
    BY DEF Placed, L
  <1>5. /\ r2 >= r /\ r \in Nat
        /\ \A k \in r2..(L + 1) : k \in r..(L + 1) /\ k \in Nat
        /\ \A k \in r2..L : k \in r..L /\ k \in Nat /\ k + 1 \in Nat
    <2>1. r2 >= r /\ r \in Nat
      BY <1>1
    <2>2. \A k \in r2..(L + 1) : k \in r..(L + 1) /\ k \in Nat
      BY <1>1, <2>1
    <2>3. \A k \in r2..L : k \in r..L /\ k \in Nat /\ k + 1 \in Nat
      BY <1>1, <2>1
    <2> QED BY <2>1, <2>2, <2>3
  <1>4. /\ pos[L + 1] = Len(under)
        /\ \A j, k \in r2..(L + 1) : j <= k => pos[j] <= pos[k]
        /\ \A k \in r2..L :
             /\ pos[k + 1] = pos[k] + WriteLength(frames[k]) + 1
             /\ \A a \in 0..WriteLength(frames[k]) :
                  pos[k] + a + 1 >= 1 => under[pos[k] + a + 1] = Byte(frames[k], a)
    BY <1>a, <1>5
  <1>6. \A k \in r2..L : WriteLength(frames[k]) \in Nat /\ pos[k + 1] <= Len(under)
    <2>1. \A k \in r..Len(frames) : WriteLength(frames[k]) \in Nat /\ pos[k + 1] <= Len(under)
      BY PlacedFacts
    <2> QED BY <1>5, <2>1 DEF L
  <1>7. P[L + 1] = Len(U)
    <2>1. L + 1 \in Nat
      BY <1>1
    <2> QED BY <1>2, <1>3, <1>4, <2>1
  <1>8. \A j, k \in r2..(L + 1) : j <= k => P[j] <= P[k]
    <2> SUFFICES ASSUME NEW j \in r2..(L + 1), NEW k \in r2..(L + 1), j <= k PROVE P[j] <= P[k]
      OBVIOUS
    <2>1. j \in Nat /\ k \in Nat
      BY <1>5
    <2>2. pos[j] <= pos[k]
      BY <1>4
    <2>3. P[j] = pos[j] - m /\ P[k] = pos[k] - m /\ pos[j] \in Int /\ pos[k] \in Int
      BY <1>3, <2>1
    <2> DEFINE p == pos[j]  q == pos[k]
    <2>4. p <= q /\ p \in Int /\ q \in Int /\ m \in Int
      BY <1>1, <2>2, <2>3
    <2> HIDE DEF p, q
    <2>5. p - m <= q - m
      BY <2>4
    <2> QED BY <2>3, <2>5 DEF p, q
  <1>9. ASSUME NEW k \in r2..L
        PROVE  /\ P[k + 1] = P[k] + WriteLength(frames[k]) + 1
               /\ \A a \in 0..WriteLength(frames[k]) :
                    P[k] + a + 1 >= 1 => U[P[k] + a + 1] = Byte(frames[k], a)
    <2> DEFINE p == pos[k]  z == WriteLength(frames[k])
    <2>1. /\ p \in Int /\ z \in Nat /\ P[k] = p - m /\ P[k + 1] = pos[k + 1] - m
          /\ pos[k + 1] = p + z + 1 /\ pos[k + 1] <= Len(under)
      BY <1>3, <1>4, <1>5, <1>6
    <2>2. \A a \in 0..z : p + a + 1 >= 1 => under[p + a + 1] = Byte(frames[k], a)
      BY <1>4
    <2> HIDE DEF p, z
    <2>3. P[k + 1] = P[k] + z + 1
      BY <1>1, <2>1
    <2>4. ASSUME NEW a \in 0..z, P[k] + a + 1 >= 1
          PROVE  U[P[k] + a + 1] = Byte(frames[k], a)
      <3> DEFINE i == P[k] + a + 1
      <3>0. a \in Nat /\ a <= z /\ i = p - m + a + 1 /\ i >= 1
        BY <2>1, <2>4
      <3>1. i \in 1..(Len(under) - m) /\ m + i = p + a + 1 /\ p + a + 1 >= 1
        <4>1. p \in Int /\ z \in Nat /\ p + z + 1 <= Len(under)
          BY <2>1
        <4> HIDE DEF i
        <4> QED BY SMTT(30), <1>1, <3>0, <4>1
      <3> HIDE DEF i
      <3>2. U[i] = under[p + a + 1]
        BY <1>2, <3>1
      <3> QED BY <2>2, <3>1, <3>2 DEF i
    <2> QED BY <2>3, <2>4 DEF z
  <1>10. /\ nd2 = NoSize => P[r2] = 0
         /\ nd2 # NoSize => P[r2] = -(1 + Len(dt2))
    <2>1. P[r2] = pos[r2] - m /\ pos[r2] \in Int
      BY <1>1, <1>3
    <2>2. nd2 = NoSize => P[r2] = 0
      BY <1>1, <2>1
    <2>3. nd2 # NoSize => P[r2] = -(1 + Len(dt2))
      BY <2>1
    <2> QED BY <2>2, <2>3
  <1>11. Placed(P, frames, U, r2, nd2, dt2)
    BY <1>1, <1>7, <1>8, <1>9, <1>10 DEF Placed, L
  <1> QED BY <1>3, <1>11 DEF U

\* All of frame r is read.
LEMMA PlacedNext ==
    ASSUME NEW pos \in [Nat -> Int], NEW frames \in Seq(DOMAIN Size), NEW under \in Seq(Bytes),
           NEW r \in Nat \ {0}, NEW nd, NEW dt \in Seq(Bytes), Placed(pos, frames, under, r, nd, dt),
           NEW m \in 0..Len(under), r <= Len(frames), pos[r + 1] = m
    PROVE  \E pos2 \in [Nat -> Int] :
             Placed(pos2, frames, SubSeq(under, m + 1, Len(under)), r + 1, NoSize, <<>>)
  <1> DEFINE r2 == r + 1  nd2 == NoSize  dt2 == <<>>
  <1>1. r2 \in r..(Len(frames) + 1) /\ dt2 \in Seq(Bytes)
    OBVIOUS
  <1>2. nd2 = NoSize /\ pos[r2] = m
    OBVIOUS
  <1> HIDE DEF r2, nd2, dt2
  <1>3. nd2 = NoSize => pos[r2] = m
    BY <1>2
  <1>4. nd2 # NoSize => /\ r2 <= Len(frames) /\ nd2 = WriteLength(frames[r2]) /\ Len(dt2) < nd2
                        /\ pos[r2] - m = -(1 + Len(dt2))
                        /\ \A a \in 1..Len(dt2) : dt2[a] = Byte(frames[r2], a)
    BY <1>2
  <1>5. \E pos2 \in [Nat -> Int] :
          Placed(pos2, frames, SubSeq(under, m + 1, Len(under)), r2, nd2, dt2)
    BY <1>1, <1>3, <1>4, PlacedShift
  <1> QED BY <1>5 DEF r2, nd2, dt2

\* The size of frame r is read, and found to be its size.
LEMMA PlacedSize ==
    ASSUME NEW pos \in [Nat -> Int], NEW frames \in Seq(DOMAIN Size), NEW under \in Seq(Bytes),
           NEW r \in Nat \ {0}, NEW dt \in Seq(Bytes), Placed(pos, frames, under, r, NoSize, dt),
           under # <<>>
    PROVE  LET z == WriteLength(frames[r])  rest == SubSeq(under, 1 + 1, Len(under)) IN
           /\ r <= Len(frames) /\ frames[r] \in DOMAIN Size /\ under[1] = Byte(frames[r], 0)
           /\ z = 0 => /\ \E pos2 \in [Nat -> Int] : Placed(pos2, frames, rest, r + 1, NoSize, <<>>)
                       /\ 1 < Len(under) => r < Len(frames)
           /\ z # 0 => \E pos2 \in [Nat -> Int] : Placed(pos2, frames, rest, r, z, <<>>)
  <1>0. /\ under # <<>> => r <= Len(frames)
        /\ NoSize # NoSize => r <= Len(frames)
        /\ \A k \in r..Len(frames) : /\ k \in DOMAIN frames /\ frames[k] \in DOMAIN Size
                                     /\ WriteLength(frames[k]) \in Nat
                                     /\ pos[k + 1] = pos[k] + WriteLength(frames[k]) + 1
                                     /\ pos[k + 1] <= Len(under)
    BY PlacedFacts
  <1> DEFINE z == WriteLength(frames[r])  rest == SubSeq(under, 1 + 1, Len(under))
  <1>1. r <= Len(frames) /\ Len(frames) \in Nat /\ r \in r..Len(frames) /\ 1 \in 0..Len(under)
        /\ <<>> \in Seq(Bytes) /\ Len(<<>>) = 0
    BY PlacedFacts
  <1>2. frames[r] \in DOMAIN Size /\ z \in Nat /\ z # NoSize
        /\ pos[r + 1] = pos[r] + z + 1
    <2>1. frames[r] \in DOMAIN Size /\ pos[r + 1] = pos[r] + WriteLength(frames[r]) + 1
      BY <1>0, <1>1
    <2>2. WriteLength(frames[r]) \in 0..IntMax
      BY <2>1, SizeFacts
    <2> HIDE DEF z
    <2>3. z \in 0..IntMax
      BY <2>2 DEF z
    <2>4. z \in Nat /\ z # NoSize
      BY <2>3, FramesAssumption DEF NoSize
    <2> QED BY <2>1, <2>4 DEF z
  <1>3. pos[r] = 0 /\ pos[Len(frames) + 1] = Len(under)
    BY DEF Placed
  <1> HIDE DEF z
  <1>4. under[1] = Byte(frames[r], 0)
    <2>1. 0 \in 0..z /\ pos[r] + 0 + 1 >= 1 /\ pos[r] + 0 + 1 = 1
      BY <1>2, <1>3
    <2>2. under[pos[r] + 0 + 1] = Byte(frames[r], 0)
      BY <1>1, <2>1 DEF Placed, z
    <2> QED BY <2>1, <2>2
  <1>5. ASSUME z = 0 PROVE /\ \E pos2 \in [Nat -> Int] : Placed(pos2, frames, rest, r + 1, NoSize, <<>>)
                           /\ 1 < Len(under) => r < Len(frames)
    <2>1. pos[r + 1] = 1 /\ r + 1 \in r..(Len(frames) + 1)
      BY <1>1, <1>2, <1>3, <1>5
    <2>2. \E pos2 \in [Nat -> Int] : Placed(pos2, frames, rest, r + 1, NoSize, <<>>)
      <3>1. 1 \in 0..Len(under) /\ r <= Len(frames) /\ pos[r + 1] = 1
        BY <1>1, <2>1
      <3> QED BY <3>1, PlacedNext
    <2>3. 1 < Len(under) => r # Len(frames)
      BY <1>3, <2>1
    <2>4. 1 < Len(under) => r < Len(frames)
      <3>1. r <= Len(frames) /\ r \in Nat /\ Len(frames) \in Nat
        BY <1>1
      <3> QED BY <2>3, <3>1
    <2> QED BY <2>2, <2>4
  <1>6. ASSUME z # 0 PROVE \E pos2 \in [Nat -> Int] : Placed(pos2, frames, rest, r, z, <<>>)
    <2>1. /\ r \in r..(Len(frames) + 1) /\ Len(<<>>) < z /\ pos[r] - 1 = -(1 + Len(<<>>))
          /\ \A a \in 1..Len(<<>>) : <<>>[a] = Byte(frames[r], a)
      BY SMTT(30), <1>1, <1>2, <1>3, <1>6
    <2>2. <<>> \in Seq(Bytes) /\ 1 \in 0..Len(under)
      BY <1>1
    <2>3. z # NoSize => /\ r <= Len(frames) /\ z = WriteLength(frames[r]) /\ Len(<<>>) < z
                        /\ pos[r] - 1 = -(1 + Len(<<>>))
                        /\ \A a \in 1..Len(<<>>) : <<>>[a] = Byte(frames[r], a)
      BY <1>1, <2>1 DEF z
    <2>4. z = NoSize => pos[r] = 1
      BY <1>2
    <2> QED BY <2>1, <2>2, <2>3, <2>4, PlacedShift
  <1> QED BY <1>1, <1>2, <1>4, <1>5, <1>6 DEF z

\* Some of the bytes of frame r are read, all of them perhaps.
LEMMA PlacedSome ==
    ASSUME NEW pos \in [Nat -> Int], NEW frames \in Seq(DOMAIN Size), NEW under \in Seq(Bytes),
           NEW r \in Nat \ {0}, NEW nd \in Nat, NEW dt \in Seq(Bytes),
           Placed(pos, frames, under, r, nd, dt), nd # NoSize,
           NEW m \in 1..(nd - Len(dt)), m <= Len(under)
    PROVE  LET bytes == dt \o SubSeq(under, 1, m)  rest == SubSeq(under, m + 1, Len(under)) IN
           /\ r <= Len(frames)
           /\ Len(bytes) = nd => /\ bytes = Payload(frames[r])
                                 /\ \E pos2 \in [Nat -> Int] :
                                      Placed(pos2, frames, rest, r + 1, NoSize, <<>>)
                                 /\ m < Len(under) => r < Len(frames)
           /\ Len(bytes) # nd => \E pos2 \in [Nat -> Int] : Placed(pos2, frames, rest, r, nd, bytes)
  <1>0. /\ under # <<>> => r <= Len(frames)
        /\ nd # NoSize => r <= Len(frames)
        /\ \A k \in r..Len(frames) : /\ k \in DOMAIN frames /\ frames[k] \in DOMAIN Size
                                     /\ WriteLength(frames[k]) \in Nat
                                     /\ pos[k + 1] = pos[k] + WriteLength(frames[k]) + 1
                                     /\ pos[k + 1] <= Len(under)
    BY PlacedFacts
  <1>1. /\ r <= Len(frames) /\ r \in Nat /\ Len(frames) \in Nat /\ r \in r..Len(frames)
        /\ r \in r..(Len(frames) + 1) /\ r + 1 \in r..(Len(frames) + 1)
        /\ Len(dt) \in Nat /\ Len(under) \in Nat /\ m \in Nat /\ m \in 0..Len(under)
        /\ m <= nd - Len(dt) /\ m >= 1
    <2>1. r <= Len(frames) /\ r \in Nat /\ Len(frames) \in Nat
      BY <1>0
    <2>2. r \in r..Len(frames) /\ r \in r..(Len(frames) + 1) /\ r + 1 \in r..(Len(frames) + 1)
      BY <2>1
    <2>3. Len(dt) \in Nat /\ Len(under) \in Nat
      OBVIOUS
    <2>4. m \in Nat /\ m <= nd - Len(dt) /\ m >= 1
      BY <2>3
    <2>5. m \in 0..Len(under)
      BY <2>3, <2>4
    <2> QED BY <2>1, <2>2, <2>3, <2>4, <2>5
  <1>2. /\ nd = WriteLength(frames[r]) /\ Len(dt) < nd /\ pos[r] = -(1 + Len(dt))
        /\ \A a \in 1..Len(dt) : dt[a] = Byte(frames[r], a)
        /\ pos[Len(frames) + 1] = Len(under)
        /\ \A a \in 0..WriteLength(frames[r]) :
              pos[r] + a + 1 >= 1 => under[pos[r] + a + 1] = Byte(frames[r], a)
    BY <1>1 DEF Placed
  <1>3. frames[r] \in DOMAIN Size /\ pos[r + 1] = pos[r] + WriteLength(frames[r]) + 1
    BY <1>0, <1>1
  <1>n. /\ pos[r] \in Int /\ pos[r] = -(1 + Len(dt)) /\ pos[r + 1] = pos[r] + nd + 1
        /\ Len(dt) \in Nat /\ m \in Nat /\ nd \in Nat
    BY <1>1, <1>2, <1>3
  <1> DEFINE head == SubSeq(under, 1, m)  bytes == dt \o head
             rest == SubSeq(under, m + 1, Len(under))
  <1>4. head \in Seq(Bytes) /\ Len(head) = m /\ \A i \in 1..m : head[i] = under[i]
    BY <1>1, SplitFacts
  <1> HIDE DEF head
  <1>5. /\ bytes \in Seq(Bytes) /\ Len(bytes) = Len(dt) + m
        /\ \A i \in 1..(Len(dt) + m) : bytes[i] = IF i <= Len(dt) THEN dt[i] ELSE head[i - Len(dt)]
    <2>1. /\ bytes \in Seq(Bytes) /\ Len(bytes) = Len(dt) + Len(head)
          /\ \A i \in 1..(Len(dt) + Len(head)) :
               bytes[i] = IF i <= Len(dt) THEN dt[i] ELSE head[i - Len(dt)]
      <3>1. head \in Seq(Bytes)
        BY <1>4
      <3> QED BY <3>1, ConcatFacts
    <2> QED BY <1>4, <2>1
  <1> HIDE DEF bytes
  <1>6. \A a \in 1..Len(bytes) : bytes[a] = Byte(frames[r], a)
    <2> TAKE a \in 1..Len(bytes)
    <2>1. a \in Nat /\ a >= 1 /\ a <= Len(dt) + m
      BY <1>1, <1>5
    <2>2. CASE a <= Len(dt)
      <3>1. a \in 1..Len(dt) /\ a \in 1..(Len(dt) + m)
        BY <1>1, <2>1, <2>2
      <3> QED BY <1>2, <1>5, <2>2, <3>1
    <2>3. CASE ~(a <= Len(dt))
      <3>1. /\ a \in 1..(Len(dt) + m) /\ a - Len(dt) \in 1..m /\ a \in 0..nd
            /\ pos[r] + a + 1 = a - Len(dt) /\ pos[r] + a + 1 >= 1
        <4> DEFINE D == Len(dt)  p == pos[r]
        <4>1. /\ p \in Int /\ p = -(1 + D) /\ D \in Nat /\ m \in Nat /\ a \in Nat /\ nd \in Nat
              /\ a >= 1 /\ a <= D + m /\ ~(a <= D) /\ m <= nd - D
          BY <1>1, <1>n, <2>1, <2>3
        <4> HIDE DEF D, p
        <4>2. a \in 1..(D + m) /\ a - D \in 1..m /\ a \in 0..nd /\ p + a + 1 = a - D /\ p + a + 1 >= 1
          BY <4>1
        <4> QED BY <4>2 DEF D, p
      <3>2. bytes[a] = under[a - Len(dt)]
        BY <1>4, <1>5, <2>3, <3>1
      <3>3. under[pos[r] + a + 1] = Byte(frames[r], a)
        BY <1>2, <3>1
      <3> QED BY <3>1, <3>2, <3>3
    <2> QED BY <2>2, <2>3
  <1>7. ASSUME Len(bytes) = nd
        PROVE  /\ bytes = Payload(frames[r])
               /\ \E pos2 \in [Nat -> Int] : Placed(pos2, frames, rest, r + 1, NoSize, <<>>)
               /\ m < Len(under) => r < Len(frames)
    <2>1. bytes = Payload(frames[r])
      <3> DEFINE p == Payload(frames[r])
      <3>1. p \in Seq(Bytes) /\ Len(p) = nd /\ \A a \in 1..nd : p[a] = Byte(frames[r], a)
        <4>1. \A a \in 0..WriteLength(frames[r]) : Byte(frames[r], a) \in Bytes
          BY <1>3, ByteIn
        <4>2. p = [at \in 1..nd |-> Byte(frames[r], at)]
          BY <1>2 DEF Payload
        <4>3. \A a \in 1..nd : a \in 0..WriteLength(frames[r])
          BY <1>2
        <4> HIDE DEF p
        <4>4. \A a \in 1..nd : Byte(frames[r], a) \in Bytes
          BY <4>1, <4>3
        <4> QED BY <4>2, <4>4
      <3> HIDE DEF p
      <3>2. bytes = p
        BY <1>5, <1>6, <1>7, <3>1, SeqEqual
      <3> QED BY <3>2 DEF p
    <2>2. pos[r + 1] = m
      <3>1. nd = Len(dt) + m
        BY <1>5, <1>7
      <3> QED BY <1>n, <3>1
    <2>3. \E pos2 \in [Nat -> Int] : Placed(pos2, frames, rest, r + 1, NoSize, <<>>)
      <3>1. m \in 0..Len(under) /\ r <= Len(frames)
        BY <1>1
      <3> QED BY <2>2, <3>1, PlacedNext
    <2>4. m < Len(under) => r # Len(frames)
      BY <1>1, <1>2, <2>2
    <2>5. m < Len(under) => r < Len(frames)
      BY <1>1, <2>4
    <2> QED BY <2>1, <2>3, <2>5
  <1>8. ASSUME Len(bytes) # nd
        PROVE  \E pos2 \in [Nat -> Int] : Placed(pos2, frames, rest, r, nd, bytes)
    <2>0. Len(bytes) = Len(dt) + m
      BY <1>5
    <2>1. Len(bytes) < nd /\ pos[r] - m = -(1 + Len(bytes))
      <3> DEFINE D == Len(dt)  p == pos[r]  B == Len(bytes)
      <3>1. p \in Int /\ p = -(1 + D) /\ D \in Nat /\ m \in Nat /\ nd \in Nat /\ m <= nd - D
            /\ B = D + m /\ B # nd
        BY <1>1, <1>n, <1>8, <2>0
      <3> HIDE DEF D, p, B
      <3>2. B < nd /\ p - m = -(1 + B)
        BY <3>1
      <3> QED BY <3>2 DEF B, p
    <2> QED BY <1>1, <1>2, <1>5, <1>6, <2>1, PlacedShift
  <1> QED BY <1>1, <1>7, <1>8 DEF bytes, head

-----------------------------------------------------------------------------
\* As long as no call fails half way, the frames are where they should be.

LEMMA FramesTypes ==
    ASSUME OrderInv
    PROVE  /\ Frames \in Seq(DOMAIN Size) /\ Under \in Seq(Bytes) /\ data \in Seq(Bytes)
           /\ Len(received) + 1 \in Nat \ {0}
           /\ Len(Under) = Len(stream) + Len(sending) /\ Len(stream) \in Nat /\ Len(sending) \in Nat
  <1>1. stream \in Seq(Bytes) /\ sending \in Seq(Bytes) /\ data \in Seq(Bytes)
        /\ received \in Seq(Seq(Bytes)) /\ written \in Seq(DOMAIN Size)
    BY DEF OrderInv, ConnTypes
  <1>2. sending # <<>> => begun \in DOMAIN Size
    BY DEF OrderInv, SendingRest
  <1>3. Frames \in Seq(DOMAIN Size)
    BY <1>1, <1>2, AppendProperties DEF Frames
  <1> QED BY <1>1, <1>3, ConcatFacts DEF Under

LEMMA ConcatNothing ==
    ASSUME NEW S, NEW s \in Seq(S)
    PROVE  s \o <<>> = s
  BY ConcatEmptySeq

\* Writing moves bytes, and keeps them in their place.
LEMMA SendMoves ==
    ASSUME NEW S, NEW s \in Seq(S), NEW t \in Seq(S), NEW n \in 1..Len(t)
    PROVE  (s \o SubSeq(t, 1, n)) \o SubSeq(t, n + 1, Len(t)) = s \o t
  <1> DEFINE a == SubSeq(t, 1, n)  b == SubSeq(t, n + 1, Len(t))
  <1>1. /\ a \in Seq(S) /\ Len(a) = n /\ \A i \in 1..n : a[i] = t[i]
        /\ b \in Seq(S) /\ Len(b) = Len(t) - n /\ \A i \in 1..(Len(t) - n) : b[i] = t[n + i]
    BY SplitFacts
  <1> HIDE DEF a, b
  <1> DEFINE sa == s \o a  left == sa \o b  right == s \o t
  <1>2. n \in Nat /\ n <= Len(t) /\ Len(s) \in Nat /\ Len(t) \in Nat
    OBVIOUS
  <1>3. /\ sa \in Seq(S) /\ Len(sa) = Len(s) + Len(a)
        /\ \A i \in 1..(Len(s) + Len(a)) : sa[i] = IF i <= Len(s) THEN s[i] ELSE a[i - Len(s)]
    <2>1. a \in Seq(S)
      BY <1>1
    <2> QED BY <2>1, ConcatFacts
  <1> HIDE DEF sa
  <1>4. /\ left \in Seq(S) /\ Len(left) = Len(sa) + Len(b)
        /\ \A i \in 1..(Len(sa) + Len(b)) : left[i] = IF i <= Len(sa) THEN sa[i] ELSE b[i - Len(sa)]
    <2>1. sa \in Seq(S) /\ b \in Seq(S)
      BY <1>1, <1>3
    <2> QED BY <2>1, ConcatFacts
  <1>5. /\ right \in Seq(S) /\ Len(right) = Len(s) + Len(t)
        /\ \A i \in 1..(Len(s) + Len(t)) : right[i] = IF i <= Len(s) THEN s[i] ELSE t[i - Len(s)]
    BY ConcatFacts
  <1> HIDE DEF left, right
  <1>6. Len(a) = n /\ Len(b) = Len(t) - n /\ Len(sa) = Len(s) + n /\ Len(left) = Len(right)
    BY <1>1, <1>2, <1>3, <1>4, <1>5
  <1>7. ASSUME NEW i \in 1..Len(left) PROVE left[i] = right[i]
    <2>1. /\ i \in Nat /\ i >= 1 /\ i <= Len(s) + Len(t) /\ i \in 1..(Len(s) + Len(t))
          /\ i \in 1..(Len(sa) + Len(b))
      <3>1. Len(left) = Len(s) + Len(t) /\ Len(left) = Len(sa) + Len(b)
        BY <1>4, <1>5, <1>6
      <3> QED BY <1>2, <3>1
    <2>2. CASE i <= Len(s)
      <3>1. i <= Len(sa) /\ i \in 1..(Len(s) + Len(a))
        BY <1>2, <1>6, <2>1, <2>2
      <3> QED BY <1>3, <1>4, <1>5, <2>1, <2>2, <3>1
    <2>3. CASE ~(i <= Len(s)) /\ i <= Len(s) + n
      <3> DEFINE j == i - Len(s)
      <3>1. i <= Len(sa) /\ i \in 1..(Len(s) + Len(a)) /\ j \in 1..n
        BY <1>2, <1>6, <2>1, <2>3
      <3> HIDE DEF j
      <3>2. left[i] = a[j] /\ right[i] = t[j]
        BY <1>3, <1>4, <1>5, <2>1, <2>3, <3>1 DEF j
      <3> QED BY <1>1, <3>1, <3>2
    <2>4. CASE ~(i <= Len(s) + n)
      <3> DEFINE j == i - Len(sa)
      <3>1. ~(i <= Len(sa)) /\ ~(i <= Len(s)) /\ j \in 1..(Len(t) - n) /\ n + j = i - Len(s)
        BY <1>2, <1>6, <2>1, <2>4
      <3> HIDE DEF j
      <3>2. left[i] = b[j]
        BY <1>4, <2>1, <3>1 DEF j
      <3>3. right[i] = t[n + j]
        BY <1>5, <2>1, <3>1
      <3> QED BY <1>1, <3>1, <3>2, <3>3
    <2> QED BY <1>2, <2>2, <2>3, <2>4
  <1>8. left = right
    BY <1>4, <1>5, <1>6, <1>7, SeqEqual
  <1> QED BY <1>8 DEF a, b, sa, left, right

LEMMA WholeInit == FramesInit => Whole
  <1> SUFFICES ASSUME FramesInit PROVE \E pos \in [Nat -> Int] :
                    Placed(pos, Frames, Under, Len(received) + 1, need, data)
    BY DEF Whole
  <1> DEFINE P == [k \in Nat |-> 0]
  <1>1. Frames = <<>> /\ Under = <<>> /\ received = <<>> /\ need = NoSize
    BY ConcatNothing DEF FramesInit, Frames, Under
  <1>2. P \in [Nat -> Int] /\ \A k \in Nat : P[k] = 0
    OBVIOUS
  <1> HIDE DEF P
  <1>3. Placed(P, <<>>, <<>>, 1, NoSize, data)
    BY <1>2 DEF Placed
  <1> QED BY <1>1, <1>2, <1>3

LEMMA WholeOfSendFrame == ConnInv /\ SendFrame => Whole'
  <1> SUFFICES ASSUME ConnInv, SendFrame, sound PROVE Whole'
    BY DEF Whole, SendFrame
  <1> DEFINE n == begun + 1  r == Len(received) + 1
  <1>1. OrderInv /\ n \in DOMAIN Size /\ sending = <<>> /\ stream \in Seq(Bytes)
    BY FramesAssumption DEF ConnInv, OrderInv, ConnTypes, SendFrame
  <1>2. PICK pos \in [Nat -> Int] : Placed(pos, Frames, Under, r, need, data)
    BY DEF ConnInv, Whole
  <1>3. /\ Frames \in Seq(DOMAIN Size) /\ Under \in Seq(Bytes) /\ data \in Seq(Bytes) /\ r \in Nat \ {0}
    BY <1>1, FramesTypes
  <1>4. \E pos2 \in [Nat -> Int] :
          Placed(pos2, Append(Frames, n), Under \o FrameBytes(n), r, need, data)
    BY <1>1, <1>2, <1>3, PlacedBegin
  <1>5. Frames = written /\ Under = stream
    BY <1>1, ConcatNothing DEF Frames, Under
  <1>6. Len(FrameBytes(n)) = WriteLength(n) + 1 /\ WriteLength(n) \in Nat
    BY <1>1, FrameBytesFacts, SizeFacts
  <1>7. FrameBytes(n) # <<>>
    BY <1>6
  <1>8. /\ Frames' = Append(Frames, n) /\ Under' = Under \o FrameBytes(n)
        /\ UNCHANGED <<received, need, data>>
    BY <1>5, <1>7 DEF Frames, Under, SendFrame
  <1> QED BY <1>4, <1>8 DEF Whole

LEMMA WholeOfSendSome == ConnInv /\ SendSome => Whole'
  <1> SUFFICES ASSUME ConnInv, NEW n \in 1..Smaller(Len(sending), Room - Len(stream)),
                      stream' = stream \o SubSeq(sending, 1, n),
                      sending' = SubSeq(sending, n + 1, Len(sending)),
                      written' = (IF sending' = <<>> THEN Append(written, begun) ELSE written),
                      UNCHANGED <<begun, need, data, length, received, lengths, sound>>
               PROVE  Whole'
    BY DEF SendSome
  <1>1. /\ sending \in Seq(Bytes) /\ stream \in Seq(Bytes) /\ Len(sending) \in Nat /\ Len(stream) \in Nat
        /\ n \in 1..Len(sending)
    <2>1. sending \in Seq(Bytes) /\ stream \in Seq(Bytes)
      BY DEF ConnInv, ConnTypes
    <2>2. Len(sending) \in Nat /\ Len(stream) \in Nat /\ Room \in Nat
      BY <2>1, FramesAssumption
    <2> QED BY <2>1, <2>2 DEF Smaller
  <1>2. sending # <<>>
    BY <1>1
  <1>3. Frames' = Frames
    BY <1>2 DEF Frames
  <1>4. Under' = Under
    BY <1>1, SendMoves DEF Under
  <1> QED BY <1>3, <1>4 DEF ConnInv, Whole

LEMMA WholeOfSendFails == ConnInv /\ SendFails => Whole'
  <1> SUFFICES ASSUME ConnInv, SendFails, sound, Head(sending).at = 0 PROVE Whole'
    BY DEF Whole, SendFails
  <1> DEFINE r == Len(received) + 1
  <1>1. OrderInv /\ sending # <<>> /\ sending \in Seq(Bytes) /\ stream \in Seq(Bytes)
        /\ written \in Seq(DOMAIN Size)
    BY DEF ConnInv, OrderInv, ConnTypes, SendFails
  <1>2. begun \in DOMAIN Size /\ WriteLength(begun) \in Nat /\ Len(sending) = WriteLength(begun) + 1
    <2>1. begun \in DOMAIN Size /\ 1 \in 1..Len(sending) /\ Len(sending) \in Nat
      BY <1>1 DEF ConnInv, SendingRest
    <2>2. WriteLength(begun) \in Nat
      BY <2>1, SizeFacts
    <2>3. Head(sending) = Byte(begun, WriteLength(begun) - Len(sending) + 1)
      BY <1>1, <2>1 DEF ConnInv, SendingRest
    <2>4. WriteLength(begun) - Len(sending) + 1 = 0
      BY <2>3, ByteParts
    <2> QED BY <2>1, <2>2, <2>4
  <1>3. PICK pos \in [Nat -> Int] : Placed(pos, Frames, Under, r, need, data)
    BY DEF ConnInv, Whole
  <1>4. r \in Nat \ {0} /\ data \in Seq(Bytes)
    BY <1>1, FramesTypes
  <1>5. Frames = Append(written, begun) /\ Under = stream \o sending
    BY <1>1 DEF Frames, Under
  <1>6. Placed(pos, written, stream, r, need, data)
    BY <1>1, <1>2, <1>3, <1>4, <1>5, PlacedGivenUp
  <1>7. Frames' = written /\ Under' = stream /\ UNCHANGED <<received, need, data>>
    BY <1>1, ConcatNothing DEF SendFails, Frames, Under
  <1> QED BY <1>6, <1>7 DEF Whole

LEMMA WholeOfRecvFails == ConnInv /\ RecvFails => Whole'
  <1> SUFFICES ASSUME ConnInv, RecvFails, sound, need = NoSize PROVE Whole'
    BY DEF Whole, RecvFails
  <1>1. data = <<>>
    BY DEF ConnInv, ConnTypes
  <1>2. UNCHANGED <<received, need, data>> /\ Frames' = Frames /\ Under' = Under
    BY <1>1 DEF RecvFails, Frames, Under
  <1> QED BY <1>2 DEF ConnInv, Whole

\* What is left under way when the first bytes of the stream are read.
LEMMA UnderRead ==
    ASSUME OrderInv, NEW m \in 1..Len(stream)
    PROVE  /\ SubSeq(stream, m + 1, Len(stream)) \o sending = SubSeq(Under, m + 1, Len(Under))
           /\ SubSeq(stream, 1, m) = SubSeq(Under, 1, m)
           /\ Under # <<>> /\ Under[1] = Head(stream) /\ m \in 1..Len(Under)
           /\ sending # <<>> => m < Len(Under)
  <1> DEFINE a == SubSeq(stream, m + 1, Len(stream))  U == stream \o sending
             b == SubSeq(U, m + 1, Len(U))  c == SubSeq(stream, 1, m)  d == SubSeq(U, 1, m)
  <1>1. stream \in Seq(Bytes) /\ sending \in Seq(Bytes) /\ Len(stream) \in Nat /\ Len(sending) \in Nat
        /\ m \in 0..Len(stream)
    BY DEF OrderInv, ConnTypes
  <1>2. /\ a \in Seq(Bytes) /\ Len(a) = Len(stream) - m
        /\ \A i \in 1..(Len(stream) - m) : a[i] = stream[m + i]
        /\ c \in Seq(Bytes) /\ Len(c) = m /\ \A i \in 1..m : c[i] = stream[i]
    BY <1>1, SplitFacts
  <1>3. /\ U \in Seq(Bytes) /\ Len(U) = Len(stream) + Len(sending)
        /\ \A i \in 1..Len(stream) : U[i] = stream[i]
        /\ \A i \in 1..Len(sending) : U[Len(stream) + i] = sending[i]
    BY <1>1, ConcatFacts
  <1> HIDE DEF a, c, U
  <1>4. m \in 0..Len(U) /\ m \in 1..Len(U) /\ Len(U) \in Nat
    BY <1>1, <1>3
  <1>5. /\ b \in Seq(Bytes) /\ Len(b) = Len(U) - m
        /\ \A i \in 1..(Len(U) - m) : b[i] = U[m + i]
        /\ d \in Seq(Bytes) /\ Len(d) = m /\ \A i \in 1..m : d[i] = U[i]
    BY <1>3, <1>4, SplitFacts
  <1> HIDE DEF b, d
  <1>6. c = d
    <2>1. \A i \in 1..m : c[i] = d[i]
      BY <1>1, <1>2, <1>3, <1>5
    <2> QED BY <1>2, <1>5, <2>1, SeqEqual
  <1>7. a \o sending = b
    <2>1. /\ a \o sending \in Seq(Bytes) /\ Len(a \o sending) = Len(a) + Len(sending)
          /\ \A i \in 1..Len(a) : (a \o sending)[i] = a[i]
          /\ \A i \in 1..Len(sending) : (a \o sending)[Len(a) + i] = sending[i]
      <3>1. a \in Seq(Bytes) /\ sending \in Seq(Bytes)
        BY <1>1, <1>2
      <3> QED BY <3>1, ConcatFacts
    <2>2. Len(a \o sending) = Len(b)
      BY <1>1, <1>2, <1>3, <1>5, <2>1
    <2>3. ASSUME NEW i \in 1..Len(b) PROVE (a \o sending)[i] = b[i]
      <3>0. i \in Nat /\ i >= 1 /\ i <= Len(stream) + Len(sending) - m
        BY <1>1, <1>3, <1>4, <1>5
      <3>1. b[i] = U[m + i]
        BY <1>5, <2>3
      <3>2. CASE i <= Len(a)
        <4>1. i \in 1..Len(a) /\ i \in 1..(Len(stream) - m) /\ m + i \in 1..Len(stream)
          BY <1>1, <1>2, <3>0, <3>2
        <4> QED BY <1>2, <1>3, <2>1, <3>1, <4>1
      <3>3. CASE ~(i <= Len(a))
        <4> DEFINE j == i - Len(a)
        <4>1. j \in 1..Len(sending) /\ i = Len(a) + j /\ m + i = Len(stream) + j
          BY <1>1, <1>2, <3>0, <3>3
        <4> HIDE DEF j
        <4>2. (a \o sending)[i] = sending[j] /\ U[m + i] = sending[j]
          BY <1>3, <2>1, <4>1
        <4> QED BY <3>1, <4>2
      <3> QED BY <3>2, <3>3
    <2> QED BY <1>5, <2>1, <2>2, <2>3, SeqEqual
  <1>8. U # <<>> /\ U[1] = Head(stream) /\ (sending # <<>> => m < Len(U))
    <2>1. 1 \in 1..Len(stream)
      BY <1>1
    <2>2. Len(U) > 0
      BY <1>4
    <2>3. sending # <<>> => Len(sending) > 0
      BY <1>1
    <2>4. U[1] = Head(stream)
      BY <1>1, <1>3, <2>1
    <2>5. sending # <<>> => m < Len(U)
      BY <1>1, <1>3, <2>3
    <2> QED BY <2>2, <2>4, <2>5
  <1> QED BY <1>4, <1>6, <1>7, <1>8 DEF a, b, c, d, U, Under

\* A frame received while no call has failed half way is the next one written.
Delivers ==
    \/ UNCHANGED <<received, lengths>>
    \/ /\ Len(received) < Len(written)
       /\ received' = Append(received, Payload(written[Len(received) + 1]))
       /\ lengths' = Append(lengths, uint(Size[written[Len(received) + 1]]))

\* That frame r is whole, and none of those still being written.
LEMMA FrameIsWritten ==
    ASSUME OrderInv, NEW r \in Nat, r <= Len(Frames), sending # <<>> => r < Len(Frames)
    PROVE  r <= Len(written) /\ (Frames[r] = written[r] \/ r = 0)
  <1>1. written \in Seq(DOMAIN Size) /\ Len(written) \in Nat
    BY DEF OrderInv, ConnTypes
  <1>2. CASE sending = <<>>
    BY <1>2 DEF Frames
  <1>3. CASE sending # <<>>
    <2>1. /\ Frames = Append(written, begun) /\ Len(Frames) = Len(written) + 1
          /\ \A i \in 1..Len(written) : Frames[i] = written[i]
      BY <1>1, <1>3, AppendProperties DEF Frames
    <2> QED BY <1>1, <1>3, <2>1
  <1> QED BY <1>2, <1>3

LEMMA WholeOfRecvSize == ConnInv /\ RecvSize => Whole' /\ (sound => Delivers)
  <1>0. RecvSize => sound' = sound
    BY DEF RecvSize
  <1> SUFFICES ASSUME ConnInv, RecvSize, sound PROVE Whole' /\ Delivers
    BY <1>0 DEF Whole
  <1> DEFINE r == Len(received) + 1  z == WriteLength(Frames[r])  rest == SubSeq(Under, 1 + 1, Len(Under))
  <1>1. PICK size \in IF Head(stream).at = 0 THEN {Size[Head(stream).frame]} ELSE 0..MaxSize :
          IF ReadLength(size) = 0 THEN Finish(<<>>, uint(size))
          ELSE need' = ReadLength(size) /\ length' = uint(size) /\ UNCHANGED <<data, received, lengths>>
    BY DEF RecvSize
  <1>2. /\ OrderInv /\ stream \in Seq(Bytes) /\ stream # <<>> /\ need = NoSize /\ data = <<>>
        /\ stream' = Tail(stream) /\ UNCHANGED <<sending, begun, written, sound>>
        /\ received \in Seq(Seq(Bytes))
    BY DEF ConnInv, OrderInv, ConnTypes, RecvSize
  <1>3. /\ Frames \in Seq(DOMAIN Size) /\ Under \in Seq(Bytes) /\ data \in Seq(Bytes) /\ r \in Nat \ {0}
        /\ Len(Under) \in Nat /\ Len(received) \in Nat
    BY <1>2, FramesTypes
  <1>4. PICK pos \in [Nat -> Int] : Placed(pos, Frames, Under, r, NoSize, data)
    BY <1>2 DEF ConnInv, Whole
  <1>5. /\ Tail(stream) \o sending = rest /\ Under # <<>> /\ Under[1] = Head(stream)
        /\ sending # <<>> => 1 < Len(Under)
    <2>1. 1 \in 1..Len(stream) /\ Tail(stream) = SubSeq(stream, 2, Len(stream))
      BY <1>2
    <2>2. /\ SubSeq(stream, 1 + 1, Len(stream)) \o sending = rest
          /\ Under # <<>> /\ Under[1] = Head(stream)
          /\ sending # <<>> => 1 < Len(Under)
      BY <1>2, <2>1, UnderRead
    <2>3. SubSeq(stream, 1 + 1, Len(stream)) = Tail(stream)
      BY <2>1
    <2> QED BY <2>2, <2>3
  <1>6. /\ r <= Len(Frames) /\ Frames[r] \in DOMAIN Size /\ Under[1] = Byte(Frames[r], 0)
        /\ z = 0 => /\ \E pos2 \in [Nat -> Int] : Placed(pos2, Frames, rest, r + 1, NoSize, <<>>)
                    /\ 1 < Len(Under) => r < Len(Frames)
        /\ z # 0 => \E pos2 \in [Nat -> Int] : Placed(pos2, Frames, rest, r, z, <<>>)
    BY <1>3, <1>4, <1>5, PlacedSize
  <1>7. size = Size[Frames[r]] /\ ReadLength(size) = z
    <2>1. Head(stream) = Byte(Frames[r], 0)
      BY <1>5, <1>6
    <2>2. Head(stream).at = 0 /\ Head(stream).frame = Frames[r]
      BY <2>1, ByteParts
    <2>3. size = Size[Frames[r]]
      BY <1>1, <2>2
    <2> QED BY <1>6, <2>3, SizeFacts
  <1>8. Frames' = Frames /\ Under' = rest
    BY <1>2, <1>5 DEF Frames, Under
  <1> HIDE DEF rest
  <1>9. CASE ReadLength(size) = 0
    <2>1. /\ received' = Append(received, <<>>) /\ need' = NoSize /\ data' = <<>>
          /\ lengths' = Append(lengths, uint(size))
      BY <1>1, <1>9 DEF Finish
    <2>2. Len(received') + 1 = r + 1
      BY <1>2, <1>3, <2>1, AppendProperties
    <2>3. \E pos2 \in [Nat -> Int] : Placed(pos2, Frames, rest, r + 1, NoSize, <<>>)
      BY <1>6, <1>7, <1>9
    <2>4. Whole'
      BY <1>8, <2>1, <2>2, <2>3 DEF Whole
    <2>5. r <= Len(written) /\ Frames[r] = written[r]
      BY <1>2, <1>3, <1>5, <1>6, <1>7, <1>9, FrameIsWritten
    <2>6. Payload(written[r]) = <<>>
      <3>1. WriteLength(written[r]) = 0
        BY <1>7, <1>9, <2>5
      <3>2. Payload(written[r]) = [at \in 1..0 |-> Byte(written[r], at)]
        BY <3>1 DEF Payload
      <3> QED BY <3>2
    <2>7. Len(received) < Len(written)
      BY <1>2, <1>3, <2>5 DEF OrderInv, ConnTypes
    <2> QED BY <1>7, <2>1, <2>4, <2>5, <2>6, <2>7 DEF Delivers
  <1>10. CASE ReadLength(size) # 0
    <2>1. need' = z /\ UNCHANGED <<data, received, lengths>>
      BY <1>1, <1>7, <1>10
    <2>2. \E pos2 \in [Nat -> Int] : Placed(pos2, Frames, rest, r, z, <<>>)
      BY <1>6, <1>7, <1>10
    <2>3. Whole'
      BY <1>2, <1>8, <2>1, <2>2 DEF Whole
    <2> QED BY <2>1, <2>3 DEF Delivers
  <1> QED BY <1>9, <1>10

LEMMA WholeOfRecvSome == ConnInv /\ RecvSome => Whole' /\ (sound => Delivers)
  <1>0. RecvSome => sound' = sound
    BY DEF RecvSome
  <1>a. SUFFICES ASSUME ConnInv, RecvSome, sound PROVE Whole' /\ Delivers
    BY <1>0 DEF Whole
  <1> SUFFICES ASSUME ConnInv, need # NoSize, sound,
                      NEW m \in 1..Smaller(need - Len(data), Len(stream)),
                      LET bytes == data \o SubSeq(stream, 1, m)
                      IN /\ IF Len(bytes) = need THEN Finish(bytes, length)
                            ELSE data' = bytes /\ UNCHANGED <<need, length, received, lengths>>
                         /\ stream' = SubSeq(stream, m + 1, Len(stream)),
                      UNCHANGED <<sending, begun, written, sound>>
               PROVE  Whole' /\ Delivers
    BY <1>a DEF RecvSome
  <1> DEFINE r == Len(received) + 1  rest == SubSeq(Under, m + 1, Len(Under))
             bytes == data \o SubSeq(Under, 1, m)
  <1>1. /\ OrderInv /\ stream \in Seq(Bytes) /\ data \in Seq(Bytes) /\ need \in Nat
        /\ received \in Seq(Seq(Bytes)) /\ Len(written) \in Nat
    BY FramesAssumption DEF ConnInv, OrderInv, ConnTypes, NoSize
  <1>2. m \in 1..Len(stream) /\ m \in 1..(need - Len(data))
    <2>1. Len(stream) \in Nat /\ Len(data) \in Nat
      BY <1>1
    <2> QED BY <1>1, <2>1 DEF Smaller
  <1>3. /\ Frames \in Seq(DOMAIN Size) /\ Under \in Seq(Bytes) /\ r \in Nat \ {0}
        /\ Len(Under) \in Nat /\ Len(received) \in Nat
    BY <1>1, FramesTypes
  <1>4. PICK pos \in [Nat -> Int] : Placed(pos, Frames, Under, r, need, data)
    BY DEF ConnInv, Whole
  <1>5. /\ SubSeq(stream, m + 1, Len(stream)) \o sending = rest
        /\ SubSeq(stream, 1, m) = SubSeq(Under, 1, m)
        /\ m \in 1..Len(Under) /\ m <= Len(Under)
        /\ sending # <<>> => m < Len(Under)
    <2>1. /\ SubSeq(stream, m + 1, Len(stream)) \o sending = rest
          /\ SubSeq(stream, 1, m) = SubSeq(Under, 1, m)
          /\ m \in 1..Len(Under)
          /\ sending # <<>> => m < Len(Under)
      BY <1>1, <1>2, UnderRead
    <2>2. m <= Len(Under)
      BY <1>3, <2>1
    <2> QED BY <2>1, <2>2
  <1>6. /\ r <= Len(Frames)
        /\ Len(bytes) = need => /\ bytes = Payload(Frames[r])
                                /\ \E pos2 \in [Nat -> Int] :
                                     Placed(pos2, Frames, rest, r + 1, NoSize, <<>>)
                                /\ m < Len(Under) => r < Len(Frames)
        /\ Len(bytes) # need => \E pos2 \in [Nat -> Int] : Placed(pos2, Frames, rest, r, need, bytes)
    BY <1>1, <1>2, <1>3, <1>4, <1>5, PlacedSome
  <1>7. Frames' = Frames /\ Under' = rest
    BY <1>5 DEF Frames, Under
  <1>8. IF Len(bytes) = need THEN Finish(bytes, length)
        ELSE data' = bytes /\ UNCHANGED <<need, length, received, lengths>>
    BY <1>5
  <1> HIDE DEF rest, bytes
  <1>9. CASE Len(bytes) = need
    <2>1. /\ received' = Append(received, bytes) /\ need' = NoSize /\ data' = <<>>
          /\ lengths' = Append(lengths, length)
      BY <1>8, <1>9 DEF Finish
    <2>2. Len(received') + 1 = r + 1
      <3>1. Len(received') = Len(received) + 1
        BY <1>1, <2>1
      <3> QED BY <3>1
    <2>3. \E pos2 \in [Nat -> Int] : Placed(pos2, Frames, rest, r + 1, NoSize, <<>>)
      BY <1>6, <1>9
    <2>4. Whole'
      BY <1>7, <2>1, <2>2, <2>3 DEF Whole
    <2>5. r <= Len(written) /\ Frames[r] = written[r]
      BY <1>1, <1>3, <1>5, <1>6, <1>9, FrameIsWritten
    <2>6. bytes = Payload(written[r])
      BY <1>6, <1>9, <2>5
    <2>7. Len(received) < Len(written)
      BY <1>1, <1>3, <2>5
    <2>8. length = uint(Size[written[r]])
      <3>1. need = WriteLength(Frames[r])
        BY <1>4 DEF Placed
      <3>2. Frames[r] \in DOMAIN Size
        <4>1. r \in 1..Len(Frames)
          BY <1>3, <1>6
        <4> HIDE DEF r
        <4> QED BY <1>3, <4>1, ElementOfSeq
      <3>3. length = need /\ need > 0
        BY DEF ConnInv, ConnTypes
      <3> DEFINE size == Size[Frames[r]]
      <3>4. size \in Nat /\ need = ReadLength(size)
        BY <3>1, <3>2, SizeFacts
      <3> HIDE DEF size
      <3>5. length = uint(size)
        BY <3>3, <3>4, IntFacts
      <3> QED BY <2>5, <3>5 DEF size
    <2> QED BY <2>1, <2>4, <2>5, <2>6, <2>7, <2>8 DEF Delivers
  <1>10. CASE Len(bytes) # need
    <2>1. data' = bytes /\ UNCHANGED <<need, received, lengths>>
      BY <1>8, <1>10
    <2>2. \E pos2 \in [Nat -> Int] : Placed(pos2, Frames, rest, r, need, bytes)
      BY <1>6, <1>10
    <2>3. Whole'
      BY <1>7, <2>1, <2>2 DEF Whole
    <2> QED BY <2>1, <2>3 DEF Delivers
  <1> QED BY <1>9, <1>10

LEMMA ConnInit == FramesInit => ConnInv
  BY OrderInit, WholeInit DEF ConnInv, OrderInv

LEMMA ConnStep == ConnInv /\ [FramesNext]_framesVars => ConnInv'
  <1>1. ConnInv /\ [FramesNext]_framesVars => OrderInv'
    BY OrderStep DEF ConnInv, OrderInv
  <1>2. ConnInv /\ UNCHANGED framesVars => Whole'
    BY DEF ConnInv, Whole, Frames, Under, framesVars
  <1>3. ConnInv /\ [FramesNext]_framesVars => Whole'
    BY <1>2, WholeOfSendFrame, WholeOfSendSome, WholeOfSendFails, WholeOfRecvSize,
       WholeOfRecvSome, WholeOfRecvFails DEF FramesNext
  <1> QED BY <1>1, <1>3 DEF ConnInv, OrderInv

\* Besides, as long as no call failed inside a frame, what is under way is the
\* frames written and not yet received, one after the other, and the place of
\* the reader in them is the one it takes itself to be at.
THEOREM ConnInvariance == FramesSpec => []ConnInv
  BY ConnInit, ConnStep, PTL DEF FramesSpec

-----------------------------------------------------------------------------
\* A connection is a channel of whole frames.

\* The frames written and not received.
Transit(w, c) == [k \in 1..(Len(w) - c) |-> Payload(w[c + k])]

LEMMA TransitFacts ==
    ASSUME NEW w \in Seq(DOMAIN Size), NEW c \in 0..Len(w)
    PROVE  /\ Transit(w, c) \in Seq(Seq(Bytes)) /\ Len(Transit(w, c)) = Len(w) - c
           /\ \A k \in 1..(Len(w) - c) : Transit(w, c)[k] = Payload(w[c + k])
  <1>1. Len(w) \in Nat /\ c \in Nat /\ c <= Len(w)
    OBVIOUS
  <1>2. ASSUME NEW k \in 1..(Len(w) - c) PROVE Payload(w[c + k]) \in Seq(Bytes)
    <2>1. c + k \in 1..Len(w)
      BY <1>1
    <2>2. w[c + k] \in DOMAIN Size
      BY <2>1
    <2> QED BY <2>2, PayloadFacts
  <1>3. Len(w) - c \in Nat
    BY <1>1
  <1> QED BY <1>2, <1>3 DEF Transit

LEMMA TransitAppend ==
    ASSUME NEW w \in Seq(DOMAIN Size), NEW c \in 0..Len(w), NEW n \in DOMAIN Size
    PROVE  Transit(Append(w, n), c) = Append(Transit(w, c), Payload(n))
  <1> DEFINE W == Append(w, n)  a == Transit(W, c)  t == Transit(w, c)  b == Append(t, Payload(n))
  <1>1. W \in Seq(DOMAIN Size) /\ Len(W) = Len(w) + 1 /\ W[Len(w) + 1] = n
        /\ \A i \in 1..Len(w) : W[i] = w[i]
    BY AppendProperties
  <1>2. Len(w) \in Nat /\ c \in Nat /\ c <= Len(w)
    OBVIOUS
  <1> HIDE DEF W
  <1>3. c \in 0..Len(W)
    BY <1>1, <1>2
  <1>4. /\ a \in Seq(Seq(Bytes)) /\ Len(a) = Len(W) - c
        /\ \A k \in 1..(Len(W) - c) : a[k] = Payload(W[c + k])
    BY <1>1, <1>3, TransitFacts
  <1>5. /\ t \in Seq(Seq(Bytes)) /\ Len(t) = Len(w) - c
        /\ \A k \in 1..(Len(w) - c) : t[k] = Payload(w[c + k])
    BY TransitFacts
  <1> HIDE DEF a, t
  <1>6. Payload(n) \in Seq(Bytes)
    BY PayloadFacts
  <1>7. /\ b \in Seq(Seq(Bytes)) /\ Len(b) = Len(t) + 1 /\ b[Len(t) + 1] = Payload(n)
        /\ \A k \in 1..Len(t) : b[k] = t[k]
    BY <1>5, <1>6, AppendProperties
  <1> HIDE DEF b
  <1>8. Len(a) = Len(b)
    BY <1>1, <1>2, <1>4, <1>5, <1>7
  <1>9. ASSUME NEW k \in 1..Len(a) PROVE a[k] = b[k]
    <2>1. k \in Nat /\ k >= 1 /\ k <= Len(w) + 1 - c /\ a[k] = Payload(W[c + k])
      BY <1>1, <1>2, <1>4
    <2>2. CASE k <= Len(w) - c
      <3>1. k \in 1..(Len(w) - c) /\ k \in 1..Len(t) /\ c + k \in 1..Len(w)
        BY <1>2, <1>5, <2>1, <2>2
      <3> QED BY <1>1, <1>5, <1>7, <2>1, <3>1
    <2>3. CASE ~(k <= Len(w) - c)
      <3>1. c + k = Len(w) + 1 /\ k = Len(t) + 1
        BY <1>2, <1>5, <2>1, <2>3
      <3> QED BY <1>1, <1>7, <2>1, <3>1
    <2> QED BY <2>2, <2>3
  <1>10. a = b
    BY <1>4, <1>7, <1>8, <1>9, SeqEqual
  <1> QED BY <1>10 DEF a, b, t, W

LEMMA TransitTail ==
    ASSUME NEW w \in Seq(DOMAIN Size), NEW c \in Nat, c < Len(w)
    PROVE  /\ Transit(w, c) # <<>> /\ Head(Transit(w, c)) = Payload(w[c + 1])
           /\ Transit(w, c + 1) = Tail(Transit(w, c))
  <1> DEFINE a == Transit(w, c)  b == Transit(w, c + 1)
  <1>1. Len(w) \in Nat /\ c \in 0..Len(w) /\ c + 1 \in 0..Len(w)
    OBVIOUS
  <1>2. /\ a \in Seq(Seq(Bytes)) /\ Len(a) = Len(w) - c
        /\ \A k \in 1..(Len(w) - c) : a[k] = Payload(w[c + k])
    BY <1>1, TransitFacts
  <1>3. /\ b \in Seq(Seq(Bytes)) /\ Len(b) = Len(w) - (c + 1)
        /\ \A k \in 1..(Len(w) - (c + 1)) : b[k] = Payload(w[(c + 1) + k])
    BY <1>1, TransitFacts
  <1> HIDE DEF a, b
  <1>4. Len(a) > 0 /\ 1 \in 1..(Len(w) - c)
    BY <1>1, <1>2
  <1>5. a # <<>> /\ Head(a) = Payload(w[c + 1])
    BY <1>2, <1>4
  <1>6. /\ Tail(a) \in Seq(Seq(Bytes)) /\ Len(Tail(a)) = Len(a) - 1
        /\ \A i \in 1..(Len(a) - 1) : Tail(a)[i] = a[i + 1]
    BY <1>2, <1>5, HeadTailProperties
  <1>7. Len(b) = Len(Tail(a))
    BY <1>1, <1>2, <1>3, <1>6
  <1>8. ASSUME NEW k \in 1..Len(b) PROVE b[k] = Tail(a)[k]
    <2>1. /\ k \in 1..(Len(w) - (c + 1)) /\ k \in 1..(Len(a) - 1)
          /\ k + 1 \in 1..(Len(w) - c) /\ (c + 1) + k = c + (k + 1)
      BY <1>1, <1>2, <1>3
    <2> QED BY <1>2, <1>3, <1>6, <2>1
  <1>9. b = Tail(a)
    BY <1>3, <1>6, <1>7, <1>8, SeqEqual
  <1> QED BY <1>5, <1>9 DEF a, b

-----------------------------------------------------------------------------

InTransit == IF sound THEN Transit(written, Len(received)) ELSE <<>>

LEMMA ReceivedIsWritten ==
    ASSUME ConnInv, sound
    PROVE  Len(received) \in 0..Len(written) /\ written \in Seq(DOMAIN Size)
  <1>1. OrderInv /\ written \in Seq(DOMAIN Size) /\ Len(written) \in Nat
    BY DEF ConnInv, OrderInv, ConnTypes
  <1>2. PICK pos \in [Nat -> Int] : Placed(pos, Frames, Under, Len(received) + 1, need, data)
    BY DEF ConnInv, Whole
  <1>3. /\ Frames \in Seq(DOMAIN Size) /\ Under \in Seq(Bytes) /\ data \in Seq(Bytes)
        /\ Len(received) + 1 \in Nat \ {0} /\ Len(received) \in Nat
        /\ Len(Under) = Len(stream) + Len(sending) /\ Len(stream) \in Nat /\ Len(sending) \in Nat
    BY <1>1, FramesTypes DEF OrderInv, ConnTypes
  <1>4. CASE sending = <<>>
    <2>1. Frames = written /\ Len(received) + 1 <= Len(Frames) + 1
      BY <1>2, <1>4 DEF Frames, Placed
    <2> QED BY <1>1, <1>3, <2>1
  <1>5. CASE sending # <<>>
    <2>1. Under # <<>>
      <3>1. Len(sending) > 0
        BY <1>1, <1>5 DEF OrderInv, ConnTypes
      <3>2. Len(Under) > 0
        BY <1>3, <3>1
      <3> QED BY <3>2
    <2>2. Len(received) + 1 <= Len(Frames)
      BY <1>2, <1>3, <2>1, PlacedFacts
    <2>3. Len(Frames) = Len(written) + 1
      BY <1>1, <1>5, AppendProperties DEF Frames
    <2> QED BY <1>1, <1>3, <2>2, <2>3
  <1> QED BY <1>4, <1>5

LEMMA ChannelSend ==
    ASSUME ConnInv, SendSome
    PROVE  Channel!Send \/ UNCHANGED <<InTransit, received, sound>>
  <1>1. UNCHANGED <<received, sound>>
    BY DEF SendSome
  <1>2. written' = written \/ (sending # <<>> /\ written' = Append(written, begun))
    <2>1. PICK n \in 1..Smaller(Len(sending), Room - Len(stream)) :
            written' = (IF sending' = <<>> THEN Append(written, begun) ELSE written)
      BY DEF SendSome
    <2>2. sending # <<>>
      <3>1. Len(sending) \in Nat /\ Len(stream) \in Nat /\ sending \in Seq(Bytes)
        BY DEF ConnInv, ConnTypes
      <3>2. n \in 1..Len(sending)
        BY <3>1, FramesAssumption DEF Smaller
      <3> QED BY <3>1, <3>2
    <2> QED BY <2>1, <2>2
  <1>3. CASE written' = written \/ ~sound
    BY <1>1, <1>3 DEF InTransit
  <1>4. CASE sound /\ sending # <<>> /\ written' = Append(written, begun)
    <2>1. begun \in DOMAIN Size
      BY <1>4 DEF ConnInv, SendingRest
    <2>2. Transit(written', Len(received)) = Append(Transit(written, Len(received)), Payload(begun))
      BY <1>4, <2>1, ReceivedIsWritten, TransitAppend
    <2>3. Payload(begun) \in {Payload(n) : n \in DOMAIN Size}
      BY <2>1
    <2>4. \E f \in {Payload(n) : n \in DOMAIN Size} : InTransit' = Append(InTransit, f)
      BY <1>1, <1>4, <2>2, <2>3 DEF InTransit
    <2> QED BY <1>1, <2>4 DEF Channel!Send, InTransit, Transit
  <1> QED BY <1>2, <1>3, <1>4

LEMMA ChannelDeliver ==
    ASSUME ConnInv, ConnInv', sound => Delivers,
           UNCHANGED <<written, sound>>,
           received' = received \/ \E bytes \in Seq(Bytes) : received' = Append(received, bytes)
    PROVE  Channel!Deliver \/ Channel!Chaos \/ UNCHANGED <<InTransit, received, sound>>
  <1>1. CASE received' = received
    BY <1>1 DEF InTransit
  <1>2. CASE sound /\ received' # received
    <2> DEFINE c == Len(received)
    <2>1. /\ c < Len(written) /\ c \in Nat /\ written \in Seq(DOMAIN Size)
          /\ received' = Append(received, Payload(written[c + 1]))
          /\ Len(received') = c + 1
      <3>1. received \in Seq(Seq(Bytes)) /\ written \in Seq(DOMAIN Size)
        BY DEF ConnInv, ConnTypes
      <3>2. c < Len(written) /\ received' = Append(received, Payload(written[c + 1]))
        BY <1>2 DEF Delivers
      <3>3. Len(received') = c + 1
        BY <3>1, <3>2
      <3> QED BY <3>1, <3>2, <3>3
    <2>2. /\ Transit(written, c) # <<>> /\ Head(Transit(written, c)) = Payload(written[c + 1])
          /\ Transit(written, c + 1) = Tail(Transit(written, c))
      BY <2>1, TransitTail
    <2>3. /\ InTransit # <<>> /\ received' = Append(received, Head(InTransit))
          /\ InTransit' = Tail(InTransit) /\ sound' = sound
      BY <1>2, <2>1, <2>2 DEF InTransit
    <2> QED BY <1>2, <2>3 DEF Channel!Deliver, InTransit, Transit
  <1>3. CASE ~sound /\ received' # received
    <2>1. PICK bytes \in Seq(Bytes) : received' = Append(received, bytes)
      BY <1>3
    <2>2. received \in Seq(Seq(Bytes)) /\ received' \in Seq(Seq(Bytes))
      BY DEF ConnInv, ConnTypes
    <2>3. Len(received') = Len(received) + 1
      BY <2>1, <2>2
    <2>4. SubSeq(received', 1, Len(received)) = received
      <3>1. Len(received) \in 0..Len(received')
        BY <2>2, <2>3
      <3>2. /\ SubSeq(received', 1, Len(received)) \in Seq(Seq(Bytes))
            /\ Len(SubSeq(received', 1, Len(received))) = Len(received)
            /\ \A i \in 1..Len(received) : SubSeq(received', 1, Len(received))[i] = received'[i]
        BY <2>2, <3>1, SplitFacts
      <3>3. \A i \in 1..Len(received) : received'[i] = received[i]
        BY <2>1, <2>2
      <3> QED BY <2>2, <3>2, <3>3, SeqEqual
    <2>5. InTransit' = InTransit /\ sound' = sound /\ ~sound
      BY <1>3 DEF InTransit
    <2> QED BY <2>2, <2>3, <2>4, <2>5 DEF Channel!Chaos, InTransit, Transit, Bytes
  <1> QED BY <1>1, <1>2, <1>3

LEMMA ChannelStep ==
    ASSUME ConnInv, ConnInv', [FramesNext]_framesVars
    PROVE  Channel!Next \/ UNCHANGED <<InTransit, received, sound>>
  <1>1. CASE SendFrame \/ UNCHANGED framesVars
    BY <1>1 DEF SendFrame, InTransit, framesVars
  <1>2. CASE SendSome
    BY <1>2, ChannelSend DEF Channel!Next
  <1>3. CASE SendFails \/ RecvFails
    <2>1. UNCHANGED <<written, received>> /\ (sound' => sound) /\ sound \in BOOLEAN /\ sound' \in BOOLEAN
      BY <1>3 DEF SendFails, RecvFails, ConnInv, ConnTypes
    <2>2. CASE sound' = sound
      BY <2>1, <2>2 DEF InTransit
    <2>3. CASE sound' # sound
      <3>1. sound' = FALSE /\ InTransit' = <<>> /\ received' = received
        BY <2>1, <2>3 DEF InTransit
      <3>2. Channel!Cut
        BY <3>1 DEF Channel!Cut, InTransit, Transit
      <3> QED BY <3>2 DEF Channel!Next
    <2> QED BY <2>2, <2>3
  <1>4. CASE RecvSize
    <2>1. sound => Delivers
      BY <1>4, WholeOfRecvSize
    <2>2. UNCHANGED <<written, sound>>
      BY <1>4 DEF RecvSize
    <2>3. <<>> \in Seq(Bytes)
      OBVIOUS
    <2>4. received' = received \/ received' = Append(received, <<>>)
      BY <1>4 DEF RecvSize, Finish
    <2> QED BY <2>1, <2>2, <2>3, <2>4, ChannelDeliver DEF Channel!Next
  <1>5. CASE RecvSome
    <2>1. sound => Delivers
      BY <1>5, WholeOfRecvSome
    <2>2. UNCHANGED <<written, sound>>
      BY <1>5 DEF RecvSome
    <2>3. received' = received \/ \E bytes \in Seq(Bytes) : received' = Append(received, bytes)
      <3>1. PICK n \in 1..Smaller(need - Len(data), Len(stream)) :
              \/ received' = Append(received, data \o SubSeq(stream, 1, n))
              \/ received' = received
        BY <1>5 DEF RecvSome, Finish
      <3>2. data \in Seq(Bytes) /\ stream \in Seq(Bytes) /\ need \in Nat
        BY FramesAssumption DEF ConnInv, ConnTypes, NoSize
      <3>3. n \in 0..Len(stream)
        <4>1. Len(data) \in Nat /\ Len(stream) \in Nat
          BY <3>2
        <4> QED BY <3>2, <4>1 DEF Smaller
      <3>4. data \o SubSeq(stream, 1, n) \in Seq(Bytes)
        BY <3>2, <3>3, SplitFacts, ConcatFacts
      <3> QED BY <3>1, <3>4
    <2> QED BY <2>1, <2>2, <2>3, ChannelDeliver DEF Channel!Next
  <1> QED BY <1>1, <1>2, <1>3, <1>4, <1>5 DEF FramesNext

\* Frames are received whole, once and in the order they were written, however
\* the bytes are split up and whatever is not yet written or read, until a call
\* has failed with part of a frame sent or received.
THEOREM ConnectionIsChannel == FramesSpec => ImplementsChannel
  <1>1. FramesInit => Channel!Init
    <2> SUFFICES ASSUME FramesInit PROVE Channel!Init
      OBVIOUS
    <2>1. received = <<>> /\ sound = TRUE /\ written = <<>>
      BY DEF FramesInit
    <2>2. Transit(written, Len(received)) = <<>>
      BY <2>1 DEF Transit
    <2> QED BY <2>1, <2>2 DEF Channel!Init, Transit
  <1>2. ConnInv /\ ConnInv' /\ [FramesNext]_framesVars => [Channel!Next]_(Channel!vars)
    BY ChannelStep DEF Channel!vars, InTransit, Transit
  <1> QED BY <1>1, <1>2, ConnInvariance, PTL DEF FramesSpec, ImplementsChannel, Channel!Spec

-----------------------------------------------------------------------------
\* What RecvFrame returns is what SendFrame was given, if its size fits in an int.

Filled == \A i \in 1..Len(received) :
            Len(received[i]) = IF lengths[i] > IntMax THEN 0 ELSE lengths[i]

Exact == sound => \A i \in 1..Len(received) :
                    received[i] = Payload(written[i]) /\ lengths[i] = uint(Size[written[i]])

LEMMA LengthFacts ==
    ASSUME ConnInv
    PROVE  /\ received \in Seq(Seq(Bytes)) /\ lengths \in Seq(Nat) /\ Len(lengths) = Len(received)
           /\ Len(received) \in Nat /\ written \in Seq(DOMAIN Size) /\ data \in Seq(Bytes)
           /\ need # NoSize => need \in 0..IntMax /\ length = need
  BY FramesAssumption DEF ConnInv, ConnTypes, NoSize

LEMMA FilledOneMore ==
    ASSUME ConnInv, Filled, NEW bytes \in Seq(Bytes), NEW size \in Nat, Finish(bytes, size),
           Len(bytes) = IF size > IntMax THEN 0 ELSE size
    PROVE  Filled'
  <1> DEFINE n == Len(received)
  <1>1. /\ n \in Nat /\ Len(received') = n + 1
        /\ \A i \in 1..n : received'[i] = received[i] /\ lengths'[i] = lengths[i]
        /\ received'[n + 1] = bytes /\ lengths'[n + 1] = size
    <2>1. received' = Append(received, bytes) /\ lengths' = Append(lengths, size)
      BY DEF Finish
    <2>2. /\ received \in Seq(Seq(Bytes)) /\ n \in Nat /\ lengths \in Seq(Nat) /\ Len(lengths) = n
      BY LengthFacts
    <2>3. /\ Len(received') = n + 1 /\ received'[n + 1] = bytes
          /\ \A i \in 1..n : received'[i] = received[i]
      BY <2>1, <2>2, AppendProperties
    <2>4. lengths'[n + 1] = size /\ \A i \in 1..n : lengths'[i] = lengths[i]
      BY <2>1, <2>2, AppendProperties
    <2> QED BY <2>2, <2>3, <2>4
  <1>2. ASSUME NEW i \in 1..(n + 1)
        PROVE  Len(received'[i]) = IF lengths'[i] > IntMax THEN 0 ELSE lengths'[i]
    <2>1. CASE i = n + 1
      BY <1>1, <2>1
    <2>2. CASE i \in 1..n
      BY <1>1, <2>2 DEF Filled
    <2> QED BY <1>1, <2>1, <2>2
  <1> QED BY <1>1, <1>2 DEF Filled

LEMMA FilledStep == ConnInv /\ Filled /\ [FramesNext]_framesVars => Filled'
  <1> SUFFICES ASSUME ConnInv, Filled, [FramesNext]_framesVars PROVE Filled'
    OBVIOUS
  <1>1. CASE UNCHANGED <<received, lengths>>
    BY <1>1 DEF Filled
  <1>2. CASE RecvSize
    <2>1. PICK size \in IF Head(stream).at = 0 THEN {Size[Head(stream).frame]} ELSE 0..MaxSize :
            IF ReadLength(size) = 0 THEN Finish(<<>>, uint(size))
            ELSE need' = ReadLength(size) /\ length' = uint(size) /\ UNCHANGED <<data, received, lengths>>
      BY <1>2 DEF RecvSize
    <2>2. size \in Nat
      <3>1. Head(stream) \in Bytes
        BY <1>2 DEF RecvSize, ConnInv, ConnTypes
      <3> QED BY <2>1, <3>1, ByteFields, SizeFacts, FramesAssumption
    <2>3. CASE ReadLength(size) = 0
      <3>1. uint(size) \in Nat /\ IntMax \in Nat /\ 0 = IF uint(size) > IntMax THEN 0 ELSE uint(size)
        BY <2>2, <2>3, IntFacts
      <3>2. <<>> \in Seq(Bytes) /\ Len(<<>>) = 0 /\ Finish(<<>>, uint(size))
        BY <2>1, <2>3
      <3> QED BY <3>1, <3>2, FilledOneMore
    <2>4. CASE ReadLength(size) # 0
      BY <1>1, <2>1, <2>4
    <2> QED BY <2>3, <2>4
  <1>3. CASE RecvSome
    <2>1. PICK n \in 1..Smaller(need - Len(data), Len(stream)) :
            IF Len(data \o SubSeq(stream, 1, n)) = need THEN Finish(data \o SubSeq(stream, 1, n), length)
            ELSE UNCHANGED <<received, lengths>>
      BY <1>3 DEF RecvSome
    <2>2. need # NoSize /\ need \in 0..IntMax /\ length = need /\ data \in Seq(Bytes)
      BY <1>3, LengthFacts DEF RecvSome
    <2>3. stream \in Seq(Bytes) /\ IntMax \in Nat
      BY FramesAssumption DEF ConnInv, ConnTypes
    <2>4. n \in 0..Len(stream)
      <3>1. Len(data) \in Nat /\ Len(stream) \in Nat /\ need \in Nat
        BY <2>2, <2>3
      <3> QED BY <3>1 DEF Smaller
    <2> DEFINE bytes == data \o SubSeq(stream, 1, n)
    <2>5. bytes \in Seq(Bytes)
      BY <2>2, <2>3, <2>4, SplitFacts, ConcatFacts
    <2> HIDE DEF bytes
    <2>6. CASE Len(bytes) = need
      <3>1. Finish(bytes, length)
        BY <2>1, <2>6 DEF bytes
      <3>2. length \in Nat /\ Len(bytes) = IF length > IntMax THEN 0 ELSE length
        BY <2>2, <2>3, <2>6
      <3> QED BY <2>5, <3>1, <3>2, FilledOneMore
    <2>7. CASE Len(bytes) # need
      BY <1>1, <2>1, <2>7 DEF bytes
    <2> QED BY <2>6, <2>7
  <1> QED
    BY <1>1, <1>2, <1>3 DEF FramesNext, SendFrame, SendSome, SendFails, RecvFails, framesVars

\* Nothing more is received, and what is written stays.
LEMMA ExactKept ==
    ASSUME ConnInv, Exact, sound' => sound, UNCHANGED <<received, lengths>>,
           written' = written \/ \E n : written' = Append(written, n)
    PROVE  Exact'
  <1> SUFFICES ASSUME sound, NEW i \in 1..Len(received)
               PROVE  received[i] = Payload(written'[i]) /\ lengths[i] = uint(Size[written'[i]])
    BY DEF Exact
  <1>1. i \in 1..Len(written) /\ written \in Seq(DOMAIN Size)
    BY ReceivedIsWritten, LengthFacts
  <1>2. written'[i] = written[i]
    BY <1>1
  <1> QED BY <1>2 DEF Exact

LEMMA ExactOneMore ==
    ASSUME ConnInv, Exact, sound => Delivers, UNCHANGED <<written, sound>>
    PROVE  Exact'
  <1> DEFINE n == Len(received)
  <1>1. CASE ~sound \/ UNCHANGED <<received, lengths>>
    BY <1>1 DEF Exact
  <1>2. CASE sound /\ /\ n < Len(written)
                     /\ received' = Append(received, Payload(written[n + 1]))
                     /\ lengths' = Append(lengths, uint(Size[written[n + 1]]))
    <2>1. /\ n \in Nat /\ Len(received') = n + 1
          /\ \A i \in 1..n : received'[i] = received[i] /\ lengths'[i] = lengths[i]
          /\ received'[n + 1] = Payload(written[n + 1]) /\ lengths'[n + 1] = uint(Size[written[n + 1]])
      BY <1>2, LengthFacts
    <2>2. ASSUME NEW i \in 1..(n + 1)
          PROVE  received'[i] = Payload(written[i]) /\ lengths'[i] = uint(Size[written[i]])
      <3>1. CASE i = n + 1
        BY <2>1, <3>1
      <3>2. CASE i \in 1..n
        BY <1>2, <2>1, <3>2 DEF Exact
      <3> QED BY <2>1, <3>1, <3>2
    <2> QED BY <2>1, <2>2 DEF Exact
  <1> QED BY <1>1, <1>2 DEF Delivers

LEMMA ExactStep == ConnInv /\ Exact /\ [FramesNext]_framesVars => Exact'
  <1> SUFFICES ASSUME ConnInv, Exact, [FramesNext]_framesVars PROVE Exact'
    OBVIOUS
  <1>1. CASE SendFrame \/ SendSome \/ SendFails \/ RecvFails \/ UNCHANGED framesVars
    <2>1. UNCHANGED <<received, lengths>> /\ (sound' => sound)
      BY <1>1 DEF SendFrame, SendSome, SendFails, RecvFails, framesVars, ConnInv, ConnTypes
    <2>2. written' = written \/ written' = Append(written, begun)
      BY <1>1 DEF SendFrame, SendSome, SendFails, RecvFails, framesVars
    <2> QED BY <2>1, <2>2, ExactKept
  <1>2. CASE RecvSize \/ RecvSome
    <2>1. UNCHANGED <<written, sound>>
      BY <1>2 DEF RecvSize, RecvSome
    <2>2. sound => Delivers
      BY <1>2, WholeOfRecvSize, WholeOfRecvSome
    <2> QED BY <2>1, <2>2, ExactOneMore
  <1> QED BY <1>1, <1>2 DEF FramesNext

\* A size is the one RecvFrame gives its string, with that many bytes, if it
\* fits in an int, and only then.
LEMMA WholeIfFits ==
    ASSUME NEW n \in DOMAIN Size
    PROVE  Size[n] <= IntMax <=> Payload(n) = Data(n) /\ uint(Size[n]) = Size[n]
  <1> DEFINE size == Size[n]
  <1>1. /\ size \in Nat /\ IntMax \in Nat /\ uint(size) \in Nat
        /\ size <= IntMax => uint(size) = size
        /\ WriteLength(n) = IF uint(size) <= IntMax THEN uint(size) ELSE 0
    BY SizeFacts, IntFacts
  <1>2. Payload(n) = [at \in 1..WriteLength(n) |-> Byte(n, at)] /\ Data(n) = [at \in 1..size |-> Byte(n, at)]
    BY DEF Payload, Data
  <1> HIDE DEF size
  <1>3. ASSUME size <= IntMax PROVE Payload(n) = Data(n) /\ uint(size) = size
    BY <1>1, <1>2, <1>3
  <1>4. ASSUME Payload(n) = Data(n), uint(size) = size, ~(size <= IntMax) PROVE FALSE
    <2>1. WriteLength(n) = 0 /\ 1 \in 1..size
      BY <1>1, <1>4
    <2>2. DOMAIN Payload(n) = 1..0 /\ DOMAIN Data(n) = 1..size
      BY <1>2, <2>1
    <2>3. 1 \in 1..0
      BY <1>4, <2>1, <2>2
    <2> QED BY <2>3
  <1> QED BY <1>3, <1>4 DEF size

\* Whatever fails, a string that is returned holds what was read for it; and as
\* long as no call failed inside a frame it is the one SendFrame was given,
\* exactly if the size of that fits in an int.
THEOREM FramesWholeIfTheyFit == FramesSpec => []WholeIfItFits
  <1>1. FramesInit => Filled /\ Exact
    BY DEF FramesInit, Filled, Exact
  <1>2. ConnInv /\ Filled /\ Exact => WholeIfItFits
    <2> SUFFICES ASSUME ConnInv, Filled, Exact PROVE WholeIfItFits
      OBVIOUS
    <2>1. DOMAIN received = 1..Len(received)
      BY LengthFacts
    <2>2. ASSUME sound, NEW i \in DOMAIN received
          PROVE  Size[written[i]] <= IntMax
                   <=> received[i] = Data(written[i]) /\ lengths[i] = Size[written[i]]
      <3>1. written[i] \in DOMAIN Size
        <4>1. i \in 1..Len(written) /\ written \in Seq(DOMAIN Size)
          BY <2>1, <2>2, ReceivedIsWritten, LengthFacts
        <4> QED BY <4>1
      <3>2. received[i] = Payload(written[i]) /\ lengths[i] = uint(Size[written[i]])
        BY <2>1, <2>2 DEF Exact
      <3> QED BY <3>1, <3>2, WholeIfFits
    <2> QED BY <2>1, <2>2 DEF WholeIfItFits, Filled
  <1> QED BY <1>1, <1>2, FilledStep, ExactStep, ConnInvariance, PTL DEF FramesSpec

-----------------------------------------------------------------------------
\* A set of numbers that is not empty has a least one: induction, where no
\* theorem with an operator parameter is used.
LEMMA LeastOf ==
  ASSUME NEW T, T \subseteq Nat, T # {}
  PROVE  \E n \in T : \A m \in T : n <= m
  <1> DEFINE R == {p \in Nat \X Nat : p[1] < p[2]}
  <1>1. IsWellFoundedOn(R, Nat)
    BY NatLessThanWellFounded DEF OpToRel
  <1>2. PICK n \in T : \A m \in T : <<m, n>> \notin R
    <2> HIDE DEF R
    <2> QED BY <1>1, WFMin
  <1>3. \A m \in T : n <= m
    <2> SUFFICES ASSUME NEW m \in T, ~(n <= m) PROVE FALSE
      OBVIOUS
    <2>1. m < n /\ m \in Nat /\ n \in Nat
      OBVIOUS
    <2>2. <<m, n>> \in R
      BY <2>1
    <2> QED BY <2>2, <1>2
  <1> QED BY <1>3

-----------------------------------------------------------------------------
\* The varint of a size.

\* x takes n bytes, and these are they.
TakesBytes(x, n) == (\A b \in x : b < 7 * n) /\ (n > 1 => \E b \in x : b >= 7 * (n - 1))
VarintOf(x, n) == [i \in 1..n |-> [more |-> i < n, bits |-> {b \in 0..6 : 7 * (i - 1) + b \in x}]]

LEMMA SizeTakesBytes ==
  ASSUME NEW x \in Uint64
  PROVE  /\ \E n \in 1..10 : TakesBytes(x, n)
         /\ \A m, n \in 1..10 : TakesBytes(x, m) /\ TakesBytes(x, n) => m = n
  <1> DEFINE T == {n \in Nat : n >= 1 /\ \A b \in x : b < 7 * n}
  <1>1. 10 \in T
    BY DEF Uint64
  <1>2. PICK n \in T : \A m \in T : n <= m
    <2> HIDE DEF T
    <2>1. T \subseteq Nat
      BY DEF T
    <2> QED BY <2>1, <1>1, LeastOf
  <1>3. n \in 1..10
    BY <1>1, <1>2
  <1>4. ASSUME n > 1 PROVE \E b \in x : b >= 7 * (n - 1)
    <2>1. n - 1 \notin T
      BY <1>2, <1>3
    <2>2. ~(\A b \in x : b < 7 * (n - 1))
      BY <2>1, <1>3, <1>4
    <2> QED BY <2>2, <1>3 DEF Uint64
  <1>5. TakesBytes(x, n)
    BY <1>2, <1>4 DEF TakesBytes
  <1>6. ASSUME NEW k \in 1..10, NEW m \in 1..10, TakesBytes(x, k), TakesBytes(x, m), k < m
        PROVE  FALSE
    <2>1. PICK b \in x : b >= 7 * (m - 1)
      BY <1>6 DEF TakesBytes
    <2>2. b < 7 * k /\ b \in Nat
      BY <1>6 DEF TakesBytes, Uint64
    <2> QED BY <2>1, <2>2, <1>6
  <1> QED BY <1>3, <1>5, <1>6

LEMMA VarintTypes ==
  ASSUME NEW x, NEW n \in Nat
  PROVE  /\ VarintOf(x, n) \in Seq(VarintByte) /\ Len(VarintOf(x, n)) = n
         /\ \A i \in 1..n :
              VarintOf(x, n)[i] = [more |-> i < n, bits |-> {b \in 0..6 : 7 * (i - 1) + b \in x}]
  <1>1. \A i \in 1..n : [more |-> i < n, bits |-> {b \in 0..6 : 7 * (i - 1) + b \in x}] \in VarintByte
    BY DEF VarintByte
  <1>2. VarintOf(x, n) \in [1..n -> VarintByte]
    BY <1>1 DEF VarintOf
  <1>3. VarintOf(x, n) \in Seq(VarintByte) /\ Len(VarintOf(x, n)) = n
    BY <1>2
  <1> QED BY <1>3 DEF VarintOf

LEMMA VarintUnfolds ==
  ASSUME NEW x \in Uint64, NEW n \in 1..10, TakesBytes(x, n)
  PROVE  IF n = 1 THEN ~AtLeast0x80(x) /\ VarintOf(x, n) = <<LastByte(x)>>
         ELSE /\ AtLeast0x80(x)
              /\ ShiftRight(x, 7) \in Uint64 /\ TakesBytes(ShiftRight(x, 7), n - 1)
              /\ VarintOf(x, n) = <<MoreByte(x)>> \o VarintOf(ShiftRight(x, 7), n - 1)
  <1> DEFINE y == ShiftRight(x, 7)
  <1>0. \A b \in x : b \in 0..63 /\ b < 7 * n
    BY DEF Uint64, TakesBytes
  <1>1. \A b \in Nat : b \in y <=> b + 7 \in x
    <2>1. ASSUME NEW b \in Nat, b + 7 \in x PROVE b \in y
      <3>1. b + 7 >= 7 /\ b = (b + 7) - 7
        OBVIOUS
      <3> QED BY <3>1, <2>1 DEF ShiftRight
    <2>2. ASSUME NEW b \in Nat, b \in y PROVE b + 7 \in x
      <3>1. PICK c \in x : c >= 7 /\ b = c - 7
        BY <2>2 DEF ShiftRight
      <3>2. c = b + 7
        BY <3>1, <1>0
      <3> QED BY <3>2
    <2> QED BY <2>1, <2>2
  <1>2. \A b \in y : b \in 0..63 /\ b < 7 * (n - 1)
    <2>1. ASSUME NEW b \in y PROVE b \in 0..63 /\ b < 7 * (n - 1)
      <3>1. PICK c \in x : c >= 7 /\ b = c - 7
        BY DEF ShiftRight
      <3> QED BY <3>1, <1>0
    <2> QED BY <2>1
  <1> HIDE DEF y
  <1>3. CASE n = 1
    <2>1. ~AtLeast0x80(x)
      BY <1>3, <1>0 DEF AtLeast0x80
    <2>2. {b \in 0..6 : 7 * (1 - 1) + b \in x} = Low(x, 7)
      BY <1>0 DEF Low
    <2>3. (1 < 1) = FALSE
      OBVIOUS
    <2>4. VarintOf(x, 1)[1] = LastByte(x)
      <3>1. 1 \in Nat /\ 1 \in 1..1
        OBVIOUS
      <3>2. VarintOf(x, 1)[1] = [more |-> 1 < 1, bits |-> {b \in 0..6 : 7 * (1 - 1) + b \in x}]
        BY <3>1, VarintTypes
      <3>3. VarintOf(x, 1)[1] = [more |-> FALSE, bits |-> Low(x, 7)]
        BY <2>2, <2>3, <3>2
      <3> QED BY <3>3 DEF LastByte
    <2>5. VarintOf(x, 1) = <<VarintOf(x, 1)[1]>>
      <3>1. VarintOf(x, 1) \in Seq(VarintByte) /\ Len(VarintOf(x, 1)) = 1
        BY VarintTypes
      <3> QED BY <3>1
    <2> QED BY <2>1, <2>4, <2>5, <1>3
  <1>4. CASE n # 1
    <2>1. PICK c \in x : c >= 7 * (n - 1)
      BY <1>4 DEF TakesBytes
    <2>2. AtLeast0x80(x)
      BY <2>1, <1>0, <1>4 DEF AtLeast0x80
    <2>3. y \in Uint64
      BY <1>2 DEF Uint64
    <2>4. TakesBytes(y, n - 1)
      <3>1. ASSUME n - 1 > 1 PROVE \E b \in y : b >= 7 * ((n - 1) - 1)
        <4>1. c - 7 \in Nat /\ (c - 7) + 7 = c
          BY <2>1, <1>0, <1>4
        <4>2. c - 7 \in y
          BY <4>1, <1>1
        <4> QED BY <4>2, <2>1, <1>0
      <3> QED BY <3>1, <1>2 DEF TakesBytes
    <2>5. VarintOf(x, n) = <<MoreByte(x)>> \o VarintOf(y, n - 1)
      <3> DEFINE s == <<MoreByte(x)>>
                 t == VarintOf(y, n - 1)
      <3>1. Len(s) = 1 /\ s[1] = MoreByte(x) /\ s \in Seq(VarintByte)
        <4>1. MoreByte(x) \in VarintByte
          BY <1>0 DEF MoreByte, VarintByte, Low
        <4> QED BY <4>1
      <3>2. /\ t \in Seq(VarintByte) /\ Len(t) = n - 1
            /\ \A i \in 1..(n - 1) : t[i] = [more |-> i < n - 1, bits |-> {b \in 0..6 : 7 * (i - 1) + b \in y}]
        <4>1. n - 1 \in Nat
          OBVIOUS
        <4> QED BY <4>1, VarintTypes
      <3> HIDE DEF s, t
      <3>4. /\ s \o t \in Seq(VarintByte) /\ Len(s \o t) = n
            /\ \A i \in 1..n : (s \o t)[i] = IF i = 1 THEN s[1] ELSE t[i - 1]
        <4>1. /\ s \o t \in Seq(VarintByte) /\ Len(s \o t) = Len(s) + Len(t)
              /\ \A i \in 1..(Len(s) + Len(t)) : (s \o t)[i] = IF i <= Len(s) THEN s[i] ELSE t[i - Len(s)]
          <5>1. s \in Seq(VarintByte) /\ t \in Seq(VarintByte)
            BY <3>1, <3>2
          <5> QED BY ONLY <5>1, ConcatProperties
        <4>2. Len(s) + Len(t) = n /\ Len(s) = 1
          BY <3>1, <3>2
        <4>3. ASSUME NEW i \in 1..n PROVE (s \o t)[i] = IF i = 1 THEN s[1] ELSE t[i - 1]
          <5>1. (s \o t)[i] = IF i <= 1 THEN s[i] ELSE t[i - 1]
            BY <4>1, <4>2
          <5> QED BY <5>1
        <4> QED BY <4>1, <4>2, <4>3
      <3>5. \A i \in 1..n : (IF i = 1 THEN s[1] ELSE t[i - 1])
                             = [more |-> i < n, bits |-> {b \in 0..6 : 7 * (i - 1) + b \in x}]
        <4> SUFFICES ASSUME NEW i \in 1..n
                     PROVE  (IF i = 1 THEN s[1] ELSE t[i - 1])
                             = [more |-> i < n, bits |-> {b \in 0..6 : 7 * (i - 1) + b \in x}]
          OBVIOUS
        <4>1. CASE i = 1
          <5>1. {b \in 0..6 : 7 * (1 - 1) + b \in x} = Low(x, 7)
            BY <1>0 DEF Low
          <5>2. (1 < n) = TRUE
            BY <1>4
          <5> QED BY <5>1, <5>2, <4>1, <3>1 DEF MoreByte
        <4>2. CASE i # 1
          <5>1. i - 1 \in 1..(n - 1) /\ (i - 1 < n - 1) = (i < n)
            BY <4>2
          <5>2. \A b \in 0..6 : 7 * ((i - 1) - 1) + b \in y <=> 7 * (i - 1) + b \in x
            <6>1. ASSUME NEW b \in 0..6 PROVE 7 * ((i - 1) - 1) + b \in y <=> 7 * (i - 1) + b \in x
              <7>1. 7 * ((i - 1) - 1) + b \in Nat /\ (7 * ((i - 1) - 1) + b) + 7 = 7 * (i - 1) + b
                BY <4>2
              <7> QED BY <7>1, <1>1
            <6> QED BY <6>1
          <5>3. {b \in 0..6 : 7 * ((i - 1) - 1) + b \in y} = {b \in 0..6 : 7 * (i - 1) + b \in x}
            BY <5>2
          <5> QED BY <5>1, <5>3, <3>2, <4>2
        <4> QED BY <4>1, <4>2
      <3>6. s \o t = VarintOf(x, n)
        <4>1. /\ VarintOf(x, n) \in Seq(VarintByte) /\ Len(VarintOf(x, n)) = n
              /\ \A i \in 1..n : VarintOf(x, n)[i] = [more |-> i < n, bits |-> {b \in 0..6 : 7 * (i - 1) + b \in x}]
          BY VarintTypes
        <4>2. \A i \in 1..n : (s \o t)[i] = VarintOf(x, n)[i]
          BY <3>4, <3>5, <4>1
        <4> QED BY <4>1, <4>2, <3>4, SeqEqual
      <3> QED BY <3>6 DEF s, t
    <2> QED BY <2>2, <2>3, <2>4, <2>5, <1>4 DEF y
  <1> QED BY <1>3, <1>4

\* The recursive definition defines what it says.
LEMMA PutUvarintUnfolds ==
  putUvarint = [x \in Uint64 |->
    IF AtLeast0x80(x) THEN <<MoreByte(x)>> \o putUvarint[ShiftRight(x, 7)] ELSE <<LastByte(x)>>]
  <1> DEFINE Body(p, x) == IF AtLeast0x80(x) THEN <<MoreByte(x)>> \o p[ShiftRight(x, 7)] ELSE <<LastByte(x)>>
             Code(x) == VarintOf(x, CHOOSE n \in 1..10 : TakesBytes(x, n))
             p0 == [x \in Uint64 |-> Code(x)]
  <1>1. ASSUME NEW x \in Uint64, NEW n \in 1..10, TakesBytes(x, n) PROVE Code(x) = VarintOf(x, n)
    <2>1. (CHOOSE m \in 1..10 : TakesBytes(x, m)) = n
      BY <1>1, SizeTakesBytes
    <2> QED BY <2>1
  <1>2. ASSUME NEW x \in Uint64 PROVE Code(x) = Body(p0, x)
    <2>1. PICK n \in 1..10 : TakesBytes(x, n)
      BY SizeTakesBytes
    <2>2. Code(x) = VarintOf(x, n)
      BY <2>1, <1>1
    <2>3. CASE n = 1
      <3>1. ~AtLeast0x80(x) /\ VarintOf(x, n) = <<LastByte(x)>>
        BY <2>1, <2>3, VarintUnfolds
      <3> QED BY <3>1, <2>2
    <2>4. CASE n # 1
      <3>1. /\ AtLeast0x80(x) /\ ShiftRight(x, 7) \in Uint64 /\ TakesBytes(ShiftRight(x, 7), n - 1)
            /\ VarintOf(x, n) = <<MoreByte(x)>> \o VarintOf(ShiftRight(x, 7), n - 1)
        BY <2>1, <2>4, VarintUnfolds
      <3>2. n - 1 \in 1..10
        BY <2>4
      <3>3. Code(ShiftRight(x, 7)) = VarintOf(ShiftRight(x, 7), n - 1)
        BY <3>1, <3>2, <1>1
      <3>4. p0[ShiftRight(x, 7)] = Code(ShiftRight(x, 7))
        BY <3>1
      <3> QED BY <3>1, <3>3, <3>4, <2>2
    <2> QED BY <2>3, <2>4
  <1>3. p0 = [x \in Uint64 |-> Body(p0, x)]
    <2> HIDE DEF Body, Code
    <2> QED BY <1>2
  <1>4. \E p : p = [x \in Uint64 |-> Body(p, x)]
    <2> HIDE DEF p0
    <2> QED BY <1>3
  <1>5. putUvarint = CHOOSE p : p = [x \in Uint64 |-> Body(p, x)]
    BY DEF putUvarint
  <1> QED BY <1>4, <1>5

LEMMA PutUvarintIs ==
  ASSUME NEW x \in Uint64, NEW n \in 1..10, TakesBytes(x, n)
  PROVE  putUvarint[x] = VarintOf(x, n)
  <1> DEFINE T == {k \in 1..10 : \E y \in Uint64 : TakesBytes(y, k) /\ putUvarint[y] # VarintOf(y, k)}
  <1>1. SUFFICES ASSUME T # {} PROVE FALSE
    OBVIOUS
  <1>2. PICK k \in T : \A m \in T : k <= m
    <2>1. T \subseteq Nat
      OBVIOUS
    <2> HIDE DEF T
    <2> QED BY <1>1, <2>1, LeastOf
  <1>3. PICK y \in Uint64 : TakesBytes(y, k) /\ putUvarint[y] # VarintOf(y, k)
    OBVIOUS
  <1>4. k \in 1..10
    OBVIOUS
  <1>5. putUvarint[y] = IF AtLeast0x80(y) THEN <<MoreByte(y)>> \o putUvarint[ShiftRight(y, 7)] ELSE <<LastByte(y)>>
    <2> DEFINE F(z) == IF AtLeast0x80(z) THEN <<MoreByte(z)>> \o putUvarint[ShiftRight(z, 7)] ELSE <<LastByte(z)>>
    <2>1. putUvarint = [z \in Uint64 |-> F(z)]
      BY PutUvarintUnfolds
    <2> HIDE DEF F
    <2>2. putUvarint[y] = F(y)
      BY <2>1
    <2> QED BY <2>2 DEF F
  <1>6. k # 1
    BY <1>3, <1>4, <1>5, VarintUnfolds
  <1>7. /\ AtLeast0x80(y) /\ ShiftRight(y, 7) \in Uint64 /\ TakesBytes(ShiftRight(y, 7), k - 1)
        /\ VarintOf(y, k) = <<MoreByte(y)>> \o VarintOf(ShiftRight(y, 7), k - 1)
    BY <1>3, <1>4, <1>6, VarintUnfolds
  <1>8. k - 1 \in 1..10 /\ k - 1 \notin T
    BY <1>2, <1>4, <1>6
  <1>9. putUvarint[ShiftRight(y, 7)] = VarintOf(ShiftRight(y, 7), k - 1)
    BY <1>7, <1>8
  <1> QED BY <1>3, <1>5, <1>7, <1>9

-----------------------------------------------------------------------------
\* What a reader makes of the bytes.

\* The bits gathered from the first i bytes.
ValueOf(bytes, i) ==
    IF i <= 10 THEN {b \in 0..63 : b < 7 * i /\ b % 7 \in bytes[b \div 7 + 1].bits} ELSE Undefined

LEMMA BitPlace ==
  ASSUME NEW b \in Nat
  PROVE  /\ b \div 7 \in Nat /\ b % 7 \in 0..6 /\ b = 7 * (b \div 7) + (b % 7)
         /\ \A k \in Nat, c \in 0..6 : b = 7 * k + c => b \div 7 = k /\ b % 7 = c
  <1>1. b \div 7 \in Nat /\ b % 7 \in 0..6 /\ b = 7 * (b \div 7) + (b % 7)
    OBVIOUS
  <1>2. ASSUME NEW k \in Nat, NEW c \in 0..6, b = 7 * k + c PROVE b \div 7 = k /\ b % 7 = c
    BY <1>1, <1>2
  <1> QED BY <1>1, <1>2

LEMMA ValueGathers ==
  ASSUME NEW bytes \in Seq(VarintByte), NEW i \in 1..Len(bytes)
  PROVE  ValueOf(bytes, i) = Gather(ValueOf(bytes, i - 1), bytes[i].bits, (7 * (i - 1)) % 256)
  <1> DEFINE v == ValueOf(bytes, i - 1)
             t == bytes[i].bits
             s == (7 * (i - 1)) % 256
  <1>0. t \in SUBSET (0..6)
    <2>1. bytes[i] \in VarintByte
      OBVIOUS
    <2> QED BY <2>1 DEF VarintByte
  <1>1. CASE i <= 10
    <2>1. s = 7 * (i - 1) /\ s < 64 /\ i - 1 <= 10 /\ i - 1 \in Nat
      BY <1>1
    <2>2. v = {b \in 0..63 : b < 7 * (i - 1) /\ b % 7 \in bytes[b \div 7 + 1].bits}
      BY <2>1 DEF ValueOf
    <2>3. v # Undefined
      <3> HIDE DEF v
      <3>0. \A b \in v : b \in 0..63
        BY <2>2
      <3>1. -1 \notin v
        <4>1. ~(-1 \in 0..63)
          OBVIOUS
        <4> QED BY ONLY <3>0, <4>1
      <3> QED BY <3>1 DEF Undefined
    <2>4. ASSUME NEW b PROVE b \in ShiftLeft(t, s) <=> b \in 0..63 /\ \E c \in t : b = 7 * (i - 1) + c
      <3>1. \A c \in t : c + s = 7 * (i - 1) + c /\ c + s \in Nat
        BY <2>1, <1>0
      <3> HIDE DEF t, s
      <3>2. b \in ShiftLeft(t, s) <=> \E c \in t : b = c + s /\ b < 64
        BY DEF ShiftLeft, Low
      <3>3. ASSUME NEW c \in t PROVE (b = c + s /\ b < 64) <=> (b \in 0..63 /\ b = 7 * (i - 1) + c)
        <4>1. c + s = 7 * (i - 1) + c /\ c + s \in Nat
          BY <3>1
        <4>2. b = c + s => b \in Nat
          BY <4>1
        <4>3. \A n \in Nat : n < 64 <=> n \in 0..63
          OBVIOUS
        <4>4. CASE b = c + s
          BY ONLY <4>1, <4>2, <4>3, <4>4
        <4>5. CASE b # c + s
          BY ONLY <4>1, <4>5
        <4> QED BY <4>4, <4>5
      <3> QED BY <3>2, <3>3
    <2>5. ASSUME NEW b \in 0..63
          PROVE  (b < 7 * i /\ b % 7 \in bytes[b \div 7 + 1].bits)
                   <=> \/ b < 7 * (i - 1) /\ b % 7 \in bytes[b \div 7 + 1].bits
                       \/ \E c \in t : b = 7 * (i - 1) + c
      <3>0. b \div 7 \in Nat /\ b % 7 \in 0..6 /\ b = 7 * (b \div 7) + (b % 7)
        BY BitPlace
      <3>1. ASSUME NEW c \in t, b = 7 * (i - 1) + c
            PROVE  b < 7 * i /\ b % 7 \in bytes[b \div 7 + 1].bits
        <4>1. c \in 0..6 /\ i - 1 \in Nat /\ b \in Nat
          BY ONLY <1>0, c \in t, i \in 1..Len(bytes), Len(bytes) \in Nat, b \in 0..63
        <4>2. b \div 7 = i - 1 /\ b % 7 = c
          BY <4>1, <3>1, BitPlace
        <4>3. b \div 7 + 1 = i
          BY <4>2
        <4> QED BY <4>1, <4>2, <4>3, <3>1
      <3>2. ASSUME b < 7 * i, b % 7 \in bytes[b \div 7 + 1].bits, ~(b < 7 * (i - 1))
            PROVE  \E c \in t : b = 7 * (i - 1) + c
        <4>1. b \div 7 = i - 1
          BY <3>0, <3>2
        <4>2. b % 7 \in t /\ b = 7 * (i - 1) + (b % 7)
          <5>1. b \div 7 + 1 = i
            BY <4>1
          <5> QED BY <5>1, <4>1, <3>0, <3>2
        <4> QED BY <4>2
      <3>3. b < 7 * (i - 1) => b < 7 * i
        OBVIOUS
      <3> QED BY <3>1, <3>2, <3>3
    <2>6. ValueOf(bytes, i) = v \cup ShiftLeft(t, s)
      <3>1. ValueOf(bytes, i) = {b \in 0..63 : b < 7 * i /\ b % 7 \in bytes[b \div 7 + 1].bits}
        BY <1>1 DEF ValueOf
      <3> HIDE DEF v, t, s
      <3> QED BY <3>1, <2>2, <2>4, <2>5
    <2> QED BY <2>1, <2>3, <2>6 DEF Gather
  <1>2. CASE i = 11
    <2>1. s = 70
      BY <1>2
    <2> QED BY <2>1, <1>2 DEF ValueOf, Gather
  <1>3. CASE i > 11
    <2>1. v = Undefined /\ ValueOf(bytes, i) = Undefined
      BY <1>3 DEF ValueOf
    <2> QED BY <2>1 DEF Gather
  <1> QED BY <1>1, <1>2, <1>3

\* The loop of ReadUvarint.
Ends(bytes) == {i \in DOMAIN bytes : ~bytes[i].more}
IsLast(bytes, n) == n \in Ends(bytes) /\ \A j \in Ends(bytes) : n <= j

LEMMA ReadUvarintIs ==
  ASSUME NEW bytes \in Seq(VarintByte)
  PROVE  /\ Ends(bytes) = {} => ~ReadUvarint(bytes).ok
         /\ \A n \in 1..Len(bytes) : IsLast(bytes, n) =>
              ReadUvarint(bytes) =
                LET fits == ~Overflows(n - 1, bytes[n].bits)
                IN [ok |-> fits, value |-> IF fits THEN ValueOf(bytes, n) ELSE {}, used |-> n]
  <1> DEFINE Loop(g, i) == IF i = 0 THEN {} ELSE Gather(g[i - 1], bytes[i].bits, (7 * (i - 1)) % 256)
             x == CHOOSE g : g = [i \in 0..Len(bytes) |-> Loop(g, i)]
             x0 == [i \in 0..Len(bytes) |-> ValueOf(bytes, i)]
  <1>0. Len(bytes) \in Nat
    OBVIOUS
  <1>9. ValueOf(bytes, 0) = {}
    <2>1. ValueOf(bytes, 0) = {b \in 0..63 : b < 7 * 0 /\ b % 7 \in bytes[b \div 7 + 1].bits}
      BY DEF ValueOf
    <2>2. \A b \in 0..63 : ~(b < 7 * 0)
      OBVIOUS
    <2> QED BY <2>1, <2>2
  <1>1. ASSUME NEW i \in 0..Len(bytes) PROVE ValueOf(bytes, i) = Loop(x0, i)
    <2>1. CASE i = 0
      BY <1>9, <2>1
    <2>2. CASE i # 0
      <3>1. i \in 1..Len(bytes) /\ i - 1 \in 0..Len(bytes)
        BY <2>2
      <3>2. x0[i - 1] = ValueOf(bytes, i - 1)
        BY <3>1
      <3>3. ValueOf(bytes, i) = Gather(ValueOf(bytes, i - 1), bytes[i].bits, (7 * (i - 1)) % 256)
        BY <3>1, ValueGathers
      <3> QED BY <2>2, <3>2, <3>3
    <2> QED BY <2>1, <2>2
  <1>2. x0 = [i \in 0..Len(bytes) |-> Loop(x0, i)]
    <2> HIDE DEF Loop
    <2> QED BY <1>1
  <1>3. x = [i \in 0..Len(bytes) |-> Loop(x, i)]
    <2> HIDE DEF x0
    <2>1. \E g : g = [i \in 0..Len(bytes) |-> Loop(g, i)]
      BY <1>2
    <2> HIDE DEF Loop
    <2> QED BY <2>1
  <1>4. \A i \in 0..Len(bytes) : x[i] = Loop(x, i)
    <2> HIDE DEF x, Loop
    <2> QED BY <1>3
  <1>5. \A i \in 0..Len(bytes) : x[i] = ValueOf(bytes, i)
    <2> DEFINE T == {i \in 0..Len(bytes) : x[i] # ValueOf(bytes, i)}
    <2>1. SUFFICES ASSUME T # {} PROVE FALSE
      OBVIOUS
    <2>2. PICK k \in T : \A m \in T : k <= m
      <3>1. T \subseteq Nat
        OBVIOUS
      <3> HIDE DEF T
      <3> QED BY <2>1, <3>1, LeastOf
    <2> HIDE DEF x
    <2>3. k \in 0..Len(bytes) /\ x[k] # ValueOf(bytes, k)
      OBVIOUS
    <2>4. k # 0
      <3>1. x[0] = {}
        BY <1>0, <1>4
      <3> QED BY <2>3, <3>1, <1>9
    <2>5. k - 1 \in 0..Len(bytes) /\ k \in 1..Len(bytes) /\ k - 1 \notin T
      BY <2>2, <2>3, <2>4
    <2>6. x[k - 1] = ValueOf(bytes, k - 1)
      BY <2>5
    <2>7. x[k] = Gather(ValueOf(bytes, k - 1), bytes[k].bits, (7 * (k - 1)) % 256)
      BY <1>4, <2>3, <2>4, <2>6
    <2> QED BY <2>3, <2>5, <2>7, ValueGathers
  <1> DEFINE last == CHOOSE i \in Ends(bytes) : \A j \in Ends(bytes) : i <= j
             fits == ~Overflows(last - 1, bytes[last].bits)
  <1>6. ReadUvarint(bytes) =
          IF Ends(bytes) = {} THEN [ok |-> FALSE, value |-> {}, used |-> Len(bytes)]
          ELSE [ok |-> fits, value |-> IF fits THEN x[last] ELSE {}, used |-> last]
    BY DEF ReadUvarint, Ends
  <1> HIDE DEF x
  <1>7. ASSUME NEW n \in 1..Len(bytes), IsLast(bytes, n)
        PROVE  ReadUvarint(bytes) =
                LET f == ~Overflows(n - 1, bytes[n].bits)
                IN [ok |-> f, value |-> IF f THEN ValueOf(bytes, n) ELSE {}, used |-> n]
    <2>1. Ends(bytes) # {} /\ last = n
      <3>1. n \in Ends(bytes) /\ \A j \in Ends(bytes) : n <= j /\ j \in Nat
        BY <1>7 DEF IsLast, Ends
      <3>2. \A i \in Ends(bytes) : (\A j \in Ends(bytes) : i <= j) => i = n
        BY <3>1
      <3> QED BY <3>1, <3>2
    <2>2. x[n] = ValueOf(bytes, n)
      BY <1>5
    <2> HIDE DEF last
    <2> QED BY <2>1, <2>2, <1>6
  <1>8. ASSUME Ends(bytes) = {} PROVE ~ReadUvarint(bytes).ok
    BY <1>6, <1>8
  <1> QED BY <1>7, <1>8

\* Every size there is comes back, whatever follows it.
THEOREM SizesComeBack ==
  ASSUME NEW size \in Uint64, NEW rest \in Seq(VarintByte)
  PROVE  ComesBack(size, rest)
  <1>1. PICK n \in 1..10 : TakesBytes(size, n)
    BY SizeTakesBytes
  <1> DEFINE code == putUvarint[size]  bytes == code \o rest
  <1>2. /\ code \in Seq(VarintByte) /\ Len(code) = n
        /\ \A i \in 1..n : code[i] = [more |-> i < n, bits |-> {b \in 0..6 : 7 * (i - 1) + b \in size}]
    <2>1. code = VarintOf(size, n) /\ n \in Nat
      BY <1>1, PutUvarintIs
    <2> HIDE DEF code
    <2> QED BY <2>1, VarintTypes
  <1> HIDE DEF code
  <1>3. /\ bytes \in Seq(VarintByte) /\ Len(bytes) = n + Len(rest) /\ Len(rest) \in Nat
        /\ \A i \in 1..n : bytes[i] = code[i]
    <2>1. /\ bytes \in Seq(VarintByte) /\ Len(bytes) = Len(code) + Len(rest)
          /\ \A i \in 1..(Len(code) + Len(rest)) : bytes[i] = IF i <= Len(code) THEN code[i] ELSE rest[i - Len(code)]
      BY <1>2, ConcatProperties
    <2>2. Len(rest) \in Nat
      OBVIOUS
    <2> HIDE DEF bytes
    <2>3. \A i \in 1..n : i \in 1..(n + Len(rest)) /\ i <= n
      BY <2>2
    <2> QED BY <2>1, <2>2, <2>3, <1>2
  <1> HIDE DEF bytes
  <1>4. n \in 1..Len(bytes) /\ IsLast(bytes, n)
    <2>1. n \in 1..Len(bytes) /\ DOMAIN bytes = 1..Len(bytes)
      BY <1>3
    <2>2. ASSUME NEW i \in 1..n PROVE bytes[i].more <=> i < n
      <3> DEFINE bits == {b \in 0..6 : 7 * (i - 1) + b \in size}
      <3>1. bytes[i] = [more |-> i < n, bits |-> bits]
        BY <1>2, <1>3
      <3> HIDE DEF bits
      <3>2. CASE i < n
        <4>1. (i < n) = TRUE
          BY <3>2
        <4>2. bytes[i] = [more |-> TRUE, bits |-> bits]
          BY <3>1, <4>1
        <4> QED BY <4>2, <3>2
      <3>3. CASE ~(i < n)
        <4>1. (i < n) = FALSE
          BY <3>3
        <4>2. bytes[i] = [more |-> FALSE, bits |-> bits]
          BY <3>1, <4>1
        <4> QED BY <4>2, <3>3
      <3> QED BY <3>2, <3>3
    <2>3. \A i \in Ends(bytes) : n <= i
      <3> SUFFICES ASSUME NEW i \in Ends(bytes), ~(n <= i) PROVE FALSE
        OBVIOUS
      <3>1. i \in 1..Len(bytes) /\ ~bytes[i].more
        BY <2>1 DEF Ends
      <3>2. i \in 1..n /\ i < n
        BY <3>1, <2>1
      <3> QED BY <3>1, <3>2, <2>2
    <2>4. n \in Ends(bytes)
      <3>1. n \in DOMAIN bytes /\ n \in 1..n
        BY <2>1
      <3>2. ~bytes[n].more
        BY <3>1, <2>2
      <3> QED BY <3>1, <3>2 DEF Ends
    <2> QED BY <2>1, <2>3, <2>4 DEF IsLast
  <1>5. ~Overflows(n - 1, bytes[n].bits)
    <2>1. bytes[n].bits = {b \in 0..6 : 7 * (n - 1) + b \in size}
      BY <1>2, <1>3
    <2>2. n = 10 => bytes[n].bits \in {{}, {0}}
      <3>1. SUFFICES ASSUME n = 10 PROVE bytes[n].bits \subseteq {0}
        OBVIOUS
      <3>2. \A b \in bytes[n].bits : b \in 0..6 /\ 7 * (n - 1) + b \in 0..63
        BY <2>1 DEF Uint64
      <3>3. ASSUME NEW b \in bytes[n].bits PROVE b = 0
        <4>1. b \in 0..6 /\ 7 * (10 - 1) + b \in 0..63
          BY <3>1, <3>2
        <4> QED BY <4>1
      <3> QED BY <3>3
    <2> QED BY <2>2 DEF Overflows
  <1>6. ValueOf(bytes, n) = size
    <2>1. ValueOf(bytes, n) = {b \in 0..63 : b < 7 * n /\ b % 7 \in bytes[b \div 7 + 1].bits}
      BY DEF ValueOf
    <2>2. ASSUME NEW b \in 0..63, b < 7 * n PROVE b % 7 \in bytes[b \div 7 + 1].bits <=> b \in size
      <3>1. b \div 7 \in Nat /\ b % 7 \in 0..6 /\ b = 7 * (b \div 7) + (b % 7)
        BY BitPlace
      <3> DEFINE k == b \div 7 + 1
      <3>2. k \in 1..n /\ k - 1 = b \div 7
        BY <3>1, <2>2
      <3> HIDE DEF k
      <3>3. bytes[k].bits = {c \in 0..6 : 7 * (k - 1) + c \in size}
        BY <3>2, <1>2, <1>3
      <3>4. b % 7 \in bytes[k].bits <=> b \in size
        BY <3>1, <3>2, <3>3
      <3> QED BY <3>4 DEF k
    <2>3. \A b \in size : b \in 0..63 /\ b < 7 * n
      BY <1>1 DEF TakesBytes, Uint64
    <2> QED BY <2>1, <2>2, <2>3
  <1>7. ReadUvarint(bytes) = [ok |-> TRUE, value |-> size, used |-> n]
    BY <1>3, <1>4, <1>5, <1>6, ReadUvarintIs
  <1>8. ComesBack(size, rest) <=> Len(code) <= 10 /\ ReadUvarint(bytes) = [ok |-> TRUE, value |-> size, used |-> Len(code)]
    BY DEF ComesBack, code, bytes
  <1> QED BY <1>2, <1>7, <1>8

\* Whatever bytes are read, a size that is accepted is the one they say, bit by
\* bit, and no shift by 64 or more has gone into it.
THEOREM AcceptedAsTheySay ==
  ASSUME NEW bytes \in Seq(VarintByte)
  PROVE  AcceptedAsSent(bytes)
  <1>1. SUFFICES ASSUME ReadUvarint(bytes).ok
                 PROVE  LET read == ReadUvarint(bytes)
                        IN /\ read.value # Undefined
                           /\ read.value = {b \in 0..(7 * read.used - 1) : b % 7 \in bytes[b \div 7 + 1].bits}
    BY DEF AcceptedAsSent
  <1>2. Ends(bytes) # {} /\ Ends(bytes) \subseteq 1..Len(bytes)
    BY <1>1, ReadUvarintIs DEF Ends
  <1>3. PICK n \in Ends(bytes) : \A j \in Ends(bytes) : n <= j
    <2>1. Ends(bytes) \subseteq Nat
      BY <1>2
    <2> QED BY <2>1, <1>2, LeastOf
  <1>4. n \in 1..Len(bytes) /\ IsLast(bytes, n)
    BY <1>2, <1>3 DEF IsLast
  <1>5. ReadUvarint(bytes) =
          LET fits == ~Overflows(n - 1, bytes[n].bits)
          IN [ok |-> fits, value |-> IF fits THEN ValueOf(bytes, n) ELSE {}, used |-> n]
    BY <1>4, ReadUvarintIs
  <1>6. ~Overflows(n - 1, bytes[n].bits)
    <2> SUFFICES ASSUME Overflows(n - 1, bytes[n].bits) PROVE FALSE
      OBVIOUS
    <2> DEFINE fits == ~Overflows(n - 1, bytes[n].bits)
    <2>1. fits = FALSE
      OBVIOUS
    <2>2. ReadUvarint(bytes).ok = fits
      <3>1. ReadUvarint(bytes) = [ok |-> fits, value |-> IF fits THEN ValueOf(bytes, n) ELSE {}, used |-> n]
        BY <1>5
      <3> HIDE DEF fits
      <3> QED BY <3>1
    <2> QED BY <2>2, <1>1
  <1>7. ReadUvarint(bytes) = [ok |-> TRUE, value |-> ValueOf(bytes, n), used |-> n]
    BY <1>5, <1>6
  <1>8. n <= 10 /\ (n = 10 => bytes[n].bits \in {{}, {0}})
    BY <1>6, <1>4 DEF Overflows
  <1>9. ValueOf(bytes, n) = {b \in 0..63 : b < 7 * n /\ b % 7 \in bytes[b \div 7 + 1].bits}
    BY <1>8 DEF ValueOf
  <1>10. ValueOf(bytes, n) # Undefined
    <2>1. ~(-1 \in 0..63)
      OBVIOUS
    <2>2. \A b \in ValueOf(bytes, n) : b \in 0..63
      BY <1>9
    <2>3. -1 \notin ValueOf(bytes, n)
      BY ONLY <2>1, <2>2
    <2> QED BY <2>3 DEF Undefined
  <1>11. \A b \in 0..(7 * n - 1) : b % 7 \in bytes[b \div 7 + 1].bits => b \in 0..63
    <2> SUFFICES ASSUME NEW b \in 0..(7 * n - 1), b % 7 \in bytes[b \div 7 + 1].bits, ~(b \in 0..63)
                 PROVE  FALSE
      OBVIOUS
    <2>1. n = 10 /\ b \in 64..69
      BY <1>4, <1>8
    <2>2. b \div 7 = 9 /\ b % 7 # 0
      BY <2>1
    <2>3. b \div 7 + 1 = n
      BY <2>1, <2>2
    <2> QED BY <2>1, <2>2, <2>3, <1>8
  <1>12. \A b \in 0..63 : b < 7 * n <=> b \in 0..(7 * n - 1)
    BY <1>4
  <1>13. ValueOf(bytes, n) = {b \in 0..(7 * n - 1) : b % 7 \in bytes[b \div 7 + 1].bits}
    BY <1>9, <1>11, <1>12
  <1> QED BY <1>7, <1>10, <1>13

\* Whatever the size, what is written after it and what is read after it are as
\* many bytes; below 2^31 these are the frame.
-----------------------------------------------------------------------------
\* Of every number made of any bits, and of every byte string that TLC grows.

Grown == num \in SUBSET Borders /\ arrived \in Seq(SomeBytes)

\* What TLC grows are a set of bits and bytes of a varint.
THEOREM GrownInvariance == MCSpec => []Grown
  <1>1. MCInit => Grown
    BY DEF MCInit, Grown
  <1>2. Grown /\ [MCNext]_<<framesVars, num, arrived>> => Grown'
    <2> SUFFICES ASSUME Grown, [MCNext]_<<framesVars, num, arrived>> PROVE Grown'
      OBVIOUS
    <2>1. CASE GrowNumber /\ UNCHANGED <<framesVars, arrived>>
      BY <2>1 DEF Grown, GrowNumber
    <2>2. CASE GrowBytes /\ UNCHANGED <<framesVars, num>>
      <3>1. PICK b \in SomeBytes : arrived' = Append(arrived, b)
        BY <2>2 DEF GrowBytes
      <3> QED BY <3>1, <2>2 DEF Grown
    <2>3. CASE UNCHANGED <<num, arrived>>
      BY <2>3 DEF Grown
    <2> QED BY <2>1, <2>2, <2>3 DEF MCNext
  <1> QED BY <1>1, <1>2, PTL DEF MCSpec

LEMMA GrownSizes == Grown => num \in Uint64 /\ arrived \in Seq(VarintByte)
  <1>1. SomeBytes \subseteq VarintByte
    BY DEF SomeBytes, VarintByte
  <1> QED BY <1>1, SeqMonotonic, BordersAssumption DEF Grown, Uint64

\* What ReadUvarint reads is what SendFrame put there, for sizes of any bits.
THEOREM SizesRoundTrip == MCSpec => []RoundTrip
  <1>1. Grown => RoundTrip
    <2> DEFINE follow == <<[more |-> TRUE, bits |-> {1}]>>
    <2>1. follow \in Seq(VarintByte)
      BY DEF VarintByte
    <2>2. Grown => ComesBack(num, follow)
      <3> HIDE DEF follow
      <3> QED BY <2>1, GrownSizes, SizesComeBack
    <2> QED BY <2>2 DEF RoundTrip
  <1> QED BY <1>1, GrownInvariance, PTL

\* What ReadUvarint accepts is what the bytes say, however many they are.
THEOREM AcceptedSizes == MCSpec => []AcceptedIsDefined
  <1>1. Grown => AcceptedIsDefined
    BY GrownSizes, AcceptedAsTheySay DEF AcceptedIsDefined
  <1> QED BY <1>1, GrownInvariance, PTL
=============================================================================
