---------------------------- MODULE InputStreams ----------------------------
(* The ZeroCopyInputStreams of io/zero_copy_stream_impl.cc and _lite.cc, one *)
(* inside the other: a ConcatenatingInputStream over a LimitingInputStream   *)
(* over a FileInputStream, that is a CopyingInputStreamAdaptor on a file     *)
(* which some bytes were read from before, and over an ArrayInputStream.     *)
(* Bytes are their offsets in the file and in the array.                     *)
EXTENDS Integers

CONSTANTS
    FileLen, Before,    \* bytes in the file, and those read already
    Limits,             \* limits the LimitingInputStream may be given
    BlockSize,          \* of the adaptor
    ArrayLen, ArrayBlock,
    MaxSkip             \* bound: what Skip is asked for

ASSUME StreamsAssumption ==
    /\ FileLen \in Nat /\ Before \in 0..FileLen /\ Limits \subseteq Nat
    /\ BlockSize \in Nat \ {0} /\ ArrayLen \in Nat /\ ArrayBlock \in Nat \ {0} /\ MaxSkip \in Nat

VARIABLES
    seekable,  \* the file descriptor can lseek
    limit0,    \* the limit the LimitingInputStream was created with
    f,         \* the adaptor and its file
    limit_,    \* of the LimitingInputStream
    a,         \* position_ and last_returned_size_ of the ArrayInputStream
    stream_count_, bytes_retired_,
    shown,     \* what Next showed last: of which stream, from which offset, how much
    trouble,   \* history: a read failed, or a seek went beyond the end of the file
    released   \* the LimitingInputStream has been deleted
srcVars == <<seekable, limit0, f, limit_, a, stream_count_, bytes_retired_, shown, trouble, released>>

Less(x, y) == IF x < y THEN x ELSE y
Nothing == [stream |-> 0, from |-> 0, size |-> 0]

-----------------------------------------------------------------------------
(* CopyingInputStreamAdaptor on CopyingFileInputStream.  file is the offset  *)
(* of the descriptor; buffer_ holds the buffer_used_ bytes from start on.    *)

AdaptorCount(s) == s.position - s.backup

\* Mutant: what was backed up is shown from the start of the buffer.
LeftOverFirst(s) == s.start

LeftOver(s) == s.start + s.used - s.backup

\* Mutant: it can be backed up, and shown, again.
ShowLeftOverKeeps(s) == s

ShowLeftOver(s) == [s EXCEPT !.backup = 0]

\* Next, as [ok, s, from, size] for each outcome of read().
AdaptorNext(s) ==
    IF s.failed THEN {[ok |-> FALSE, s |-> s, from |-> 0, size |-> 0]}
    ELSE IF s.backup > 0
    THEN {[ok |-> TRUE, s |-> ShowLeftOver(s), from |-> LeftOver(s), size |-> s.backup]}
    ELSE {[ok |-> TRUE, from |-> s.file, size |-> n,
           s |-> [s EXCEPT !.file = @ + n, !.start = s.file, !.used = n, !.position = @ + n]]
          : n \in 1..Less(BlockSize, FileLen - s.file)}
         \cup {[ok |-> FALSE, from |-> 0, size |-> 0, s |-> [s EXCEPT !.used = 0, !.failed = e]]
               : e \in {TRUE} \cup IF s.file >= FileLen THEN {FALSE} ELSE {}}

\* What BackUp CHECKs.
AdaptorMayBackUp(s, n) == s.backup = 0 /\ n \in 0..s.used

AdaptorBackUp(s, n) == [s EXCEPT !.backup = n]

\* Mutant: backup_bytes_ are left behind when the skip goes beyond them.
AfterSkipKeeps(s, k) == [s EXCEPT !.file = @ + k, !.position = @ + k]

AfterSkip(s, k) == [s EXCEPT !.backup = 0, !.file = @ + k, !.position = @ + k]

\* Skip: by lseek, which goes where it is told to, or by read(), which may fail.
AdaptorSkip(s, n) ==
    LET left == n - s.backup
        there == Less(left, FileLen - s.file)
    IN IF s.failed THEN {[ok |-> FALSE, s |-> s, broke |-> FALSE]}
       ELSE IF left <= 0 THEN {[ok |-> TRUE, s |-> [s EXCEPT !.backup = -left], broke |-> FALSE]}
       ELSE {[ok |-> k = left, s |-> AfterSkip(s, k), broke |-> k # there]
             : k \in IF seekable THEN {left} ELSE IF there > 0 THEN 0..there ELSE {0}}

-----------------------------------------------------------------------------
(* LimitingInputStream.                                                      *)

LimitingCount == AdaptorCount(f) + (IF limit_ < 0 THEN limit_ ELSE 0)

LimitingNext ==
    IF limit_ <= 0 THEN {[ok |-> FALSE, s |-> f, limit |-> limit_, from |-> 0, size |-> 0]}
    ELSE {[ok |-> r.ok, s |-> r.s, from |-> r.from,
           limit |-> IF r.ok THEN limit_ - r.size ELSE limit_,
           size |-> IF limit_ < r.size THEN limit_ ELSE r.size] : r \in AdaptorNext(f)}

\* What is backed up of the adaptor: what it showed beyond the limit as well.
LimitingBackUp(n) == IF limit_ < 0 THEN n - limit_ ELSE n

LimitingSkip(n) ==
    IF n > limit_
    THEN IF limit_ < 0 THEN {[ok |-> FALSE, s |-> f, limit |-> limit_, broke |-> FALSE]}
         ELSE {[ok |-> FALSE, s |-> r.s, limit |-> 0, broke |-> r.broke] : r \in AdaptorSkip(f, limit_)}
    ELSE {[ok |-> r.ok, s |-> r.s, limit |-> IF r.ok THEN limit_ - n ELSE limit_,
           broke |-> r.broke] : r \in AdaptorSkip(f, n)}

-----------------------------------------------------------------------------
(* ConcatenatingInputStream, the stream that is used.  A stream that is at   *)
(* its end is retired, in the loop of Next and of Skip.                      *)

ByteCount ==
    bytes_retired_ + (IF stream_count_ = 2 THEN LimitingCount
                      ELSE IF stream_count_ = 1 THEN a.position ELSE 0)

SourceInit ==
    /\ seekable \in BOOLEAN /\ limit0 \in Limits
    /\ f = [file |-> Before, start |-> 0, used |-> 0, position |-> Before, backup |-> 0,
            failed |-> FALSE]
    /\ limit_ = limit0
    /\ a = [position |-> 0, last |-> 0]
    /\ stream_count_ = 2 /\ bytes_retired_ = 0
    /\ shown = Nothing /\ trouble = FALSE /\ released = FALSE

\* ArrayInputStream::Next and Skip.
ArrayStep(n) == Less(n, ArrayLen - a.position)

\* The array's turn comes when the limited stream gives no more.
Retire(count) == bytes_retired_' = bytes_retired_ + count

NextOfArray(before) ==
    IF a.position < ArrayLen
    THEN /\ a' = [position |-> a.position + ArrayStep(ArrayBlock), last |-> ArrayStep(ArrayBlock)]
         /\ shown' = [stream |-> 1, from |-> a.position, size |-> ArrayStep(ArrayBlock)]
         /\ stream_count_' = 1 /\ Retire(before)
    ELSE /\ a' = [a EXCEPT !.last = 0] /\ shown' = Nothing
         /\ stream_count_' = 0 /\ Retire(before + a.position)

CountAfter(r) == AdaptorCount(r.s) + (IF r.limit < 0 THEN r.limit ELSE 0)

NextBytes ==
    /\ ~released
    /\ \/ /\ stream_count_ = 2
          /\ \E r \in LimitingNext :
               /\ f' = r.s /\ limit_' = r.limit
               /\ trouble' = (trouble \/ r.s.failed)
               /\ IF r.ok
                  THEN /\ shown' = [stream |-> 2, from |-> r.from, size |-> r.size]
                       /\ UNCHANGED <<a, stream_count_, bytes_retired_>>
                  ELSE NextOfArray(CountAfter(r))
       \/ stream_count_ = 1 /\ NextOfArray(0) /\ UNCHANGED <<f, limit_, trouble>>
    /\ UNCHANGED <<seekable, limit0, released>>

\* A caller backs up right after a Next, by no more than that has shown.
BackUp ==
    /\ ~released /\ shown.size > 0
    /\ \E n \in 1..shown.size :
         \/ /\ stream_count_ = 2
            /\ f' = AdaptorBackUp(f, LimitingBackUp(n))
            /\ limit_' = IF limit_ < 0 THEN n ELSE limit_ + n
            /\ UNCHANGED a
         \/ /\ stream_count_ = 1
            /\ a' = [position |-> a.position - n, last |-> 0]
            /\ UNCHANGED <<f, limit_>>
    /\ shown' = Nothing
    /\ UNCHANGED <<seekable, limit0, stream_count_, bytes_retired_, trouble, released>>

SkipInArray(n, before) ==
    /\ a' = [position |-> a.position + ArrayStep(n), last |-> 0]
    /\ IF n <= ArrayLen - a.position
       THEN stream_count_' = 1 /\ Retire(before)
       ELSE stream_count_' = 0 /\ Retire(before + ArrayLen)

\* How much is left for the next stream: target_byte_count - final_byte_count.
ToSkip(n, r) == LimitingCount + n - CountAfter(r)

SkipBytes(n) ==
    /\ ~released
    /\ \/ /\ stream_count_ = 2
          /\ \E r \in LimitingSkip(n) :
               /\ f' = r.s /\ limit_' = r.limit
               /\ trouble' = (trouble \/ r.broke)
               /\ IF r.ok THEN UNCHANGED <<a, stream_count_, bytes_retired_>>
                  ELSE SkipInArray(ToSkip(n, r), CountAfter(r))
       \/ stream_count_ = 1 /\ SkipInArray(n, 0) /\ UNCHANGED <<f, limit_, trouble>>
    /\ shown' = Nothing
    /\ UNCHANGED <<seekable, limit0, released>>

\* Mutant: what was shown beyond the limit is lost with the LimitingInputStream.
OvershotNone == 0

Overshot == IF limit_ < 0 THEN -limit_ ELSE 0

\* The destructor of LimitingInputStream, once the others are not used any more.
DeleteLimiting ==
    /\ ~released /\ released' = TRUE
    /\ f' = AdaptorBackUp(f, f.backup + Overshot)
    /\ limit_' = limit_ + Overshot
    /\ UNCHANGED <<seekable, limit0, a, stream_count_, bytes_retired_, shown, trouble>>

StreamStep == NextBytes \/ BackUp \/ (\E n \in 1..MaxSkip : SkipBytes(n)) \/ DeleteLimiting

StreamSpec == SourceInit /\ [][StreamStep]_srcVars

-----------------------------------------------------------------------------

\* Bytes that were read, without those before the LimitingInputStream was made,
\* which it counts as its own.
Count == ByteCount - Before

\* A stream made of streams is a stream: whichever of them gives the bytes, and
\* however they were limited, backed up and skipped, what Next shows is what
\* follows the bytes read, and ByteCount tells how many those are.
Source == INSTANCE ByteSource WITH
    at <- Count,
    last <- shown.size,
    first <- IF shown.size = 0 THEN 0
             ELSE IF shown.stream = 2 THEN shown.from - Before
             ELSE bytes_retired_ - Before + shown.from
ImplementsSource == Source!Spec

\* Once all is read, it was what the limit lets through of the file and all of
\* the array, unless a read failed or a seek left the file: no stream is given
\* up before its end, and none shows bytes beyond its limit.
NothingMissed ==
    stream_count_ = 0 /\ ~trouble => Count = Less(limit0, FileLen - Before) + ArrayLen

\* Whoever reads from the file after the LimitingInputStream is gone finds what
\* follows the bytes that were read through it, the overshot ones first.
LimiterGivesBack ==
    released /\ stream_count_ < 2 =>
        AdaptorCount(f) = bytes_retired_ - (IF stream_count_ = 0 THEN a.position ELSE 0)

\* A caller may back up all it was shown: no GOOGLE_CHECK of the stream inside
\* fails, though the stream around it asks for the bytes it has hidden as well.
BackUpGranted ==
    ~released /\ shown.size > 0 =>
        IF stream_count_ = 2 THEN AdaptorMayBackUp(f, LimitingBackUp(shown.size))
        ELSE shown.size <= a.last
=============================================================================
