----------------------------- MODULE PoolProofs -----------------------------
(* Between lookups the pool holds whole files only, whatever is rolled back  *)
(* while others are half built; every name is linked to what it means in the *)
(* text; and a file is refused for a fault that is in the text.              *)
EXTENDS PoolInvariant, SequenceTheorems, TLAPS

-----------------------------------------------------------------------------
\* The log of a table.

\* Keys that were not in the table are entered, for v.
Enters(tab, tab2, A, v) ==
    /\ DOMAIN tab2 = DOMAIN tab
    /\ \A x \in DOMAIN tab : tab[x] \in Nat /\ tab2[x] = IF x \in A THEN v ELSE tab[x]
    /\ \A x \in DOMAIN tab : x \in A => tab[x] = 0
Extended(log, log2, n, A) == (\A i \in 1..n : log2[i] = log[i]) /\ log2[n + 1] = A
Marked(n, K, mark, start, v) ==
    /\ n \in Nat /\ K \in Nat /\ mark \in [1..K -> Nat] /\ start \in [1..K -> Nat] /\ v \in Nat
    /\ \A k \in 1..K : v >= start[k] /\ start[k] > 0 /\ mark[k] <= n
    /\ (K = 0 => n = 0) /\ (K > 0 => mark[1] = 0)

LEMMA TrackAppend ==
  ASSUME NEW tab, NEW tab2, NEW A, NEW n, NEW K, NEW mark, NEW start, NEW v, NEW log, NEW log2,
         Enters(tab, tab2, A, v), Extended(log, log2, n, A), Marked(n, K, mark, start, v),
         Tracks(tab, log, n, mark, start, K)
  PROVE  Tracks(tab2, log2, n + 1, mark, start, K)
  <1> DEFINE D == DOMAIN tab
  <1>0. /\ DOMAIN tab = D /\ DOMAIN tab2 = D /\ n \in Nat /\ K \in Nat /\ v \in Nat
        /\ \A x \in D : tab[x] \in Nat
        /\ \A x \in D : tab2[x] = IF x \in A THEN v ELSE tab[x]
        /\ \A x \in D : x \in A => tab[x] = 0
        /\ \A i \in 1..n : log2[i] = log[i]
        /\ log2[n + 1] = A
        /\ \A k \in 1..K : mark[k] \in Nat /\ start[k] \in Nat /\ v >= start[k] /\ start[k] > 0 /\ mark[k] <= n
        /\ (K = 0 => n = 0) /\ (K > 0 => mark[1] = 0)
    BY DEF Enters, Extended, Marked
  <1> HIDE DEF D
  <1> USE <1>0
  <1>1. ASSUME NEW k \in 1..K, NEW x \in D
        PROVE  (\E i \in (mark[k] + 1)..(n + 1) : x \in log2[i]) <=> tab2[x] >= start[k]
    <2>0. mark[k] \in Nat /\ start[k] \in Nat /\ v >= start[k] /\ start[k] > 0 /\ mark[k] <= n
      OBVIOUS
    <2>1. CASE x \in A
      <3>1. n + 1 \in (mark[k] + 1)..(n + 1) /\ x \in log2[n + 1]
        BY <2>0, <2>1
      <3> QED BY <3>1, <2>0, <2>1
    <2>2. CASE x \notin A
      <3>1. \A i \in (mark[k] + 1)..(n + 1) : i \in 1..n \/ i = n + 1
        BY <2>0
      <3>2. (\E i \in (mark[k] + 1)..(n + 1) : x \in log2[i])
              <=> (\E i \in (mark[k] + 1)..n : x \in log[i])
        <4>1. ASSUME NEW i \in (mark[k] + 1)..(n + 1), x \in log2[i]
              PROVE  \E j \in (mark[k] + 1)..n : x \in log[j]
          <5>1. i \in 1..n /\ i \in (mark[k] + 1)..n
            BY <4>1, <3>1, <2>0, <2>2
          <5> QED BY <5>1, <4>1
        <4>2. ASSUME NEW i \in (mark[k] + 1)..n, x \in log[i]
              PROVE  \E j \in (mark[k] + 1)..(n + 1) : x \in log2[j]
          <5>1. i \in 1..n /\ i \in (mark[k] + 1)..(n + 1)
            BY <2>0
          <5> QED BY <5>1, <4>2
        <4> QED BY <4>1, <4>2
      <3>3. (\E i \in (mark[k] + 1)..n : x \in log[i]) <=> tab[x] >= start[k]
        BY <1>0 DEF Tracks
      <3> QED BY <3>2, <3>3, <2>2
    <2> QED BY <2>1, <2>2
  <1>2. ASSUME NEW x \in D, x \in A, NEW i \in 1..n PROVE x \notin log[i]
    <2>1. CASE K = 0
      BY <2>1
    <2>2. CASE K # 0
      <3>1. 1 \in 1..K /\ mark[1] = 0 /\ start[1] \in Nat /\ start[1] > 0 /\ tab[x] = 0
        BY <2>2, <1>2
      <3>2. ~ (tab[x] >= start[1]) /\ i \in (mark[1] + 1)..n
        BY <3>1
      <3> QED BY <3>1, <3>2, <1>0 DEF Tracks
    <2> QED BY <2>1, <2>2
  <1>3. ASSUME NEW i \in 1..(n + 1), NEW j \in 1..(n + 1), NEW x \in D, x \in log2[i], x \in log2[j]
        PROVE  i = j
    <2>1. i \in 1..n \/ i = n + 1
      OBVIOUS
    <2>2. j \in 1..n \/ j = n + 1
      OBVIOUS
    <2>3. CASE i \in 1..n /\ j \in 1..n
      BY <2>3, <1>3, <1>0 DEF Tracks
    <2>4. CASE i \in 1..n /\ j = n + 1
      BY <2>4, <1>3, <1>2
    <2>5. CASE i = n + 1 /\ j \in 1..n
      BY <2>5, <1>3, <1>2
    <2> QED BY <2>1, <2>2, <2>3, <2>4, <2>5
  <1> QED BY <1>0, <1>1, <1>3 DEF Tracks

\* A checkpoint is made before the last entry of the log.
Newest(tab, A, v) == \A x \in DOMAIN tab : x \in A <=> tab[x] >= v

LEMMA TrackMark ==
  ASSUME NEW tab, NEW n \in Nat, NEW K \in Nat,
         NEW mark, NEW start, NEW mark2, NEW start2, NEW log, NEW v \in Nat,
         Extended(mark, mark2, K, n), Extended(start, start2, K, v),
         Newest(tab, log[n + 1], v), Tracks(tab, log, n + 1, mark, start, K)
  PROVE  Tracks(tab, log, n + 1, mark2, start2, K + 1)
  <1> DEFINE D == DOMAIN tab
  <1>0. /\ DOMAIN tab = D
        /\ \A k \in 1..K : mark2[k] = mark[k] /\ start2[k] = start[k]
        /\ mark2[K + 1] = n /\ start2[K + 1] = v
        /\ \A x \in D : x \in log[n + 1] <=> tab[x] >= v
    BY DEF Extended, Newest
  <1> HIDE DEF D
  <1> USE <1>0
  <1>1. ASSUME NEW k \in 1..(K + 1), NEW x \in D
        PROVE  (\E i \in (mark2[k] + 1)..(n + 1) : x \in log[i]) <=> tab[x] >= start2[k]
    <2>1. CASE k \in 1..K
      BY <2>1, <1>0 DEF Tracks
    <2>2. CASE k = K + 1
      <3>1. (mark2[k] + 1)..(n + 1) = {n + 1}
        BY <2>2
      <3> QED BY <3>1, <2>2
    <2> QED BY <2>1, <2>2
  <1> QED BY <1>0, <1>1 DEF Tracks

\* What is logged since the last checkpoint is undone.
Undone(tab, tab2, log, m, n) ==
    /\ DOMAIN tab2 = DOMAIN tab
    /\ \A x \in DOMAIN tab :
         tab[x] \in Nat /\ tab2[x] = IF \E i \in (m + 1)..n : x \in log[i] THEN 0 ELSE tab[x]
Shorter(log, log2, m) == \A i \in 1..m : log2[i] = log[i]
Placed(n, K, mark, start) ==
    /\ n \in Nat /\ K \in Nat \ {0} /\ mark \in [1..K -> Nat] /\ start \in [1..K -> Nat]
    /\ \A k \in 1..K : mark[k] <= mark[K] /\ start[k] > 0
    /\ mark[K] <= n

LEMMA TrackUndo ==
  ASSUME NEW tab, NEW tab2, NEW n, NEW K, NEW mark, NEW start, NEW mark2, NEW start2, NEW log, NEW log2,
         Undone(tab, tab2, log, mark[K], n), Placed(n, K, mark, start), Shorter(log, log2, mark[K]),
         Shorter(mark, mark2, K - 1), Shorter(start, start2, K - 1),
         Tracks(tab, log, n, mark, start, K)
  PROVE  Tracks(tab2, log2, mark[K], mark2, start2, K - 1)
  <1> DEFINE D == DOMAIN tab
  <1>0. /\ DOMAIN tab = D /\ DOMAIN tab2 = D /\ mark[K] \in Nat /\ K \in Nat \ {0} /\ n \in Nat
        /\ \A x \in D : tab[x] \in Nat
        /\ \A x \in D : tab2[x] = IF \E i \in (mark[K] + 1)..n : x \in log[i] THEN 0 ELSE tab[x]
        /\ \A k \in 1..K : mark[k] \in Nat /\ start[k] \in Nat /\ mark[k] <= mark[K] /\ start[k] > 0
        /\ mark[K] <= n
        /\ \A i \in 1..mark[K] : log2[i] = log[i]
        /\ \A k \in 1..(K - 1) : mark2[k] = mark[k] /\ start2[k] = start[k]
    <2>1. DOMAIN tab = D /\ DOMAIN tab2 = D /\ \A x \in D : tab[x] \in Nat
      BY DEF Undone
    <2>2. \A x \in D : tab2[x] = IF \E i \in (mark[K] + 1)..n : x \in log[i] THEN 0 ELSE tab[x]
      BY DEF Undone
    <2>3. /\ mark[K] \in Nat /\ K \in Nat \ {0} /\ n \in Nat /\ mark[K] <= n
          /\ \A k \in 1..K : mark[k] \in Nat /\ start[k] \in Nat /\ mark[k] <= mark[K] /\ start[k] > 0
      BY DEF Placed
    <2>4. /\ \A i \in 1..mark[K] : log2[i] = log[i]
          /\ \A k \in 1..(K - 1) : mark2[k] = mark[k] /\ start2[k] = start[k]
      BY DEF Shorter
    <2> HIDE DEF D
    <2> QED BY <2>1, <2>2, <2>3, <2>4
  <1> HIDE DEF D
  <1> USE <1>0
  <1>1. ASSUME NEW k \in 1..(K - 1), NEW x \in D
        PROVE  (\E i \in (mark2[k] + 1)..mark[K] : x \in log2[i]) <=> tab2[x] >= start2[k]
    <2>0. /\ k \in 1..K /\ mark[k] \in Nat /\ start[k] \in Nat /\ start[k] > 0 /\ mark[k] <= mark[K]
          /\ mark2[k] = mark[k] /\ start2[k] = start[k]
      OBVIOUS
    <2>1. (\E i \in (mark[k] + 1)..n : x \in log[i]) <=> tab[x] >= start[k]
      BY <1>0, <2>0 DEF Tracks
    <2>2. ASSUME NEW i \in (mark[k] + 1)..mark[K], x \in log2[i] PROVE tab2[x] >= start[k]
      <3>1. i \in 1..mark[K] /\ i \in (mark[k] + 1)..n /\ i \in 1..n /\ x \in log[i]
        BY <2>2, <2>0, <1>0
      <3>2. \A j \in (mark[K] + 1)..n : x \notin log[j]
        <4>1. ASSUME NEW j \in (mark[K] + 1)..n, x \in log[j] PROVE FALSE
          <5>1. j \in 1..n /\ j # i
            BY <3>1, <1>0
          <5> QED BY <5>1, <4>1, <3>1, <1>0 DEF Tracks
        <4> QED BY <4>1
      <3> QED BY <3>1, <3>2, <2>1
    <2>3. ASSUME tab2[x] >= start[k] PROVE \E i \in (mark[k] + 1)..mark[K] : x \in log2[i]
      <3>1. tab2[x] # 0
        BY <2>3, <2>0
      <3>2. (\A i \in (mark[K] + 1)..n : x \notin log[i]) /\ tab2[x] = tab[x]
        BY <3>1
      <3>3. PICK i \in (mark[k] + 1)..n : x \in log[i]
        BY <3>2, <2>1, <2>3
      <3>4. i \in (mark[k] + 1)..mark[K] /\ i \in 1..mark[K]
        BY <3>2, <3>3, <2>0, <1>0
      <3> QED BY <3>3, <3>4
    <2> QED BY <2>0, <2>2, <2>3
  <1>2. ASSUME NEW i \in 1..mark[K], NEW j \in 1..mark[K], NEW x \in D, x \in log2[i], x \in log2[j]
        PROVE  i = j
    <2>1. i \in 1..n /\ j \in 1..n /\ x \in log[i] /\ x \in log[j]
      BY <1>2, <1>0
    <2> QED BY <2>1, <1>0 DEF Tracks
  <1> QED BY <1>0, <1>1, <1>2 DEF Tracks

\* The last checkpoint is forgotten.
LEMMA TrackClear ==
  ASSUME NEW tab, NEW n, NEW K \in Nat \ {0}, NEW mark, NEW start, NEW mark2, NEW start2, NEW log,
         Shorter(mark, mark2, K - 1), Shorter(start, start2, K - 1),
         Tracks(tab, log, n, mark, start, K)
  PROVE  Tracks(tab, log, n, mark2, start2, K - 1)
  <1> USE DEF Shorter
  <1>1. \A k \in 1..(K - 1) : k \in 1..K
    OBVIOUS
  <1> QED BY <1>1 DEF Tracks

-----------------------------------------------------------------------------
\* What the invariant says of the parts.

LEMMA ProtoTypes ==
  ASSUME database \in Databases, NEW f \in Files
  PROVE  /\ database.proto[f].dependency \in Seq(Files)
         /\ database.proto[f].declares \subseteq Declaration
         /\ database.proto[f].uses \in Seq(Use)
         /\ \A s \in Symbols : /\ database.symbol[s] \in Files \cup {NoFile}
                               /\ database.extension[s] \in Files \cup {NoFile}
  <1>1. /\ database.proto[f] \in Proto \cup {NoProto}
        /\ \A s \in Symbols : /\ database.symbol[s] \in Files \cup {NoFile}
                              /\ database.extension[s] \in Files \cup {NoFile}
    BY PoolAssumption
  <1>2. CASE database.proto[f] \in Proto
    BY <1>1, <1>2 DEF Proto
  <1>3. CASE database.proto[f] = NoProto
    BY <1>1, <1>3 DEF NoProto
  <1> QED BY <1>1, <1>2, <1>3

LEMMA Prefix ==
  ASSUME NEW S, NEW s \in Seq(S), NEW m \in Nat, m <= Len(s)
  PROVE  /\ SubSeq(s, 1, m) \in Seq(S) /\ Len(SubSeq(s, 1, m)) = m
         /\ \A i \in 1..m : SubSeq(s, 1, m)[i] = s[i]
  <1>1. \A i \in 1..m : s[i] \in S
    OBVIOUS
  <1>2. /\ SubSeq(s, 1, m) \in Seq(S)
        /\ Len(SubSeq(s, 1, m)) = IF 1 <= m THEN m - 1 + 1 ELSE 0
        /\ \A i \in 1..(m - 1 + 1) : SubSeq(s, 1, m)[i] = s[1 + i - 1]
    BY <1>1, SubSeqProperties
  <1> QED BY <1>2

LEMMA LiveFacts ==
  ASSUME Types, Ascending
  PROVE  Live = {allocations_[i] : i \in 1..Len(allocations_)} /\ Live \subseteq 1..Len(descriptors)
  <1>1. DOMAIN allocations_ = 1..Len(allocations_)
    BY DEF Types
  <1> QED BY <1>1 DEF Live, Ascending

LEMMA StartFacts ==
  ASSUME Types, Ascending, Nested
  PROVE  /\ \A k \in 1..Len(checkpoints_) : /\ Start(k) \in Live /\ Start(k) \in 1..Len(descriptors)
                                            /\ Marks[k] = checkpoints_[k].pending
                                            /\ checkpoints_[k].pending \in Nat
                                            /\ checkpoints_[k].allocations \in Nat
                                            /\ Starts[k] = Start(k)
         /\ \A j, k \in 1..Len(checkpoints_) : j < k => Start(j) < Start(k)
         /\ Marks \in [1..Len(checkpoints_) -> Nat] /\ Starts \in [1..Len(checkpoints_) -> Nat]
         /\ Len(checkpoints_) \in Nat /\ Len(descriptors) \in Nat
         /\ Len(allocations_) \in Nat /\ Len(after_checkpoint_) \in Nat
  <1>1. /\ Len(checkpoints_) \in Nat /\ Len(descriptors) \in Nat
        /\ Len(allocations_) \in Nat /\ Len(after_checkpoint_) \in Nat
    BY DEF Types
  <1>6. \A k \in 1..Len(checkpoints_) : checkpoints_[k] \in Checkpoint
    BY DEF Types
  <1>2. \A k \in 1..Len(checkpoints_) :
          /\ checkpoints_[k].pending \in Nat /\ checkpoints_[k].allocations \in Nat
          /\ checkpoints_[k].allocations + 1 \in 1..Len(allocations_)
    BY <1>1, <1>6 DEF Nested, Checkpoint
  <1>3. \A k \in 1..Len(checkpoints_) : Start(k) \in Live /\ Start(k) \in 1..Len(descriptors)
    <2>1. \A i \in 1..Len(allocations_) : allocations_[i] \in Live /\ allocations_[i] \in 1..Len(descriptors)
      BY LiveFacts DEF Ascending
    <2> QED BY <2>1, <1>2 DEF Start
  <1>4. \A j, k \in 1..Len(checkpoints_) : j < k => Start(j) < Start(k)
    <2>1. ASSUME NEW j \in 1..Len(checkpoints_), NEW k \in 1..Len(checkpoints_), j < k
          PROVE  Start(j) < Start(k)
      <3>1. checkpoints_[j].allocations < checkpoints_[k].allocations
        BY <2>1 DEF Nested
      <3>2. checkpoints_[j].allocations + 1 < checkpoints_[k].allocations + 1
        BY <3>1, <1>2
      <3> QED BY <3>2, <1>2 DEF Start, Ascending
    <2> QED BY <2>1
  <1>5. \A k \in 1..Len(checkpoints_) : Start(k) \in Nat
    BY <1>1, <1>3
  <1> QED BY <1>1, <1>2, <1>3, <1>4, <1>5 DEF Marks, Starts

LEMMA DescriptorTypes ==
  ASSUME Types, NEW id \in 1..Len(descriptors)
  PROVE  /\ descriptors[id].name \in Files
         /\ descriptors[id].dependencies \in Seq(Nat) /\ descriptors[id].links \in Seq(Nat)
  <1>1. descriptors[id] \in Descriptor
    BY DEF Types
  <1> QED BY <1>1 DEF Descriptor

LEMMA BuilderTypes ==
  ASSUME Types
  PROVE  /\ Len(builders) \in Nat /\ DOMAIN builders = 1..Len(builders)
         /\ builders = <<>> <=> Len(builders) = 0
         /\ \A i \in 1..Len(builders) : builders[i] \in Builder
         /\ builders # <<>> => Top \in Builder /\ Len(builders) \in 1..Len(builders)
  <1>1. builders \in Seq(Builder)
    BY DEF Types
  <1> QED BY <1>1 DEF Top

\* The last checkpoint is that of the innermost builder, once it links.
LEMMA TopIsLast ==
  ASSUME Types, Ascending, Nested, Stacked, At("link")
  PROVE  /\ Len(checkpoints_) \in 1..Len(checkpoints_)
         /\ Top.file_ = Start(Len(checkpoints_))
         /\ \A k \in 1..Len(checkpoints_) : Start(k) <= Top.file_
         /\ Top.file_ \in Live /\ Top.file_ \in 1..Len(descriptors)
  <1> DEFINE K == Len(checkpoints_)
             n == Len(builders)
  <1>1. n \in 1..n /\ Top = builders[n] /\ builders[n].stage = "link" /\ n \in Nat
    BY BuilderTypes DEF At, Top
  <1>2. PICK k \in 1..K : Top.file_ = Start(k)
    BY <1>1 DEF Stacked
  <1>3. K \in Nat /\ K \in 1..K
    BY <1>2, StartFacts
  <1>4. PICK i \in 1..n : builders[i].stage = "link" /\ builders[i].file_ = Start(K)
    BY <1>3 DEF Stacked
  <1>5. \A j \in 1..K : Start(j) \in Nat
    BY StartFacts
  <1>6. k = K
    <2>1. CASE k < K
      <3>1. Start(k) < Start(K)
        BY <2>1, <1>3, StartFacts
      <3>2. i < n => builders[i].file_ < builders[n].file_
        BY <1>1, <1>4 DEF Stacked
      <3> QED BY <3>1, <3>2, <1>1, <1>2, <1>3, <1>4, <1>5
    <2> QED BY <2>1, <1>2, <1>3
  <1>7. \A j \in 1..K : Start(j) <= Start(K)
    <2>1. ASSUME NEW j \in 1..K PROVE Start(j) <= Start(K)
      <3>1. j < K => Start(j) < Start(K)
        BY <1>3, StartFacts
      <3> QED BY <3>1, <1>3, <1>5
    <2> QED BY <2>1
  <1> QED BY <1>2, <1>3, <1>6, <1>7, StartFacts

-----------------------------------------------------------------------------
\* Steps that leave the tables alone.

\* The builders go on, each with the same file, and others may begin.
SameTask(b, c) ==
    /\ c.filename_ = b.filename_ /\ c.stage = b.stage /\ c.file_ = b.file_
    /\ b.had_errors_ => c.had_errors_
Grown ==
    /\ builders' \in Seq(Builder) /\ Len(builders') >= Len(builders)
    /\ \A i \in 1..Len(builders) : SameTask(builders[i], builders'[i])
    /\ \A i \in (Len(builders) + 1)..Len(builders') : builders'[i].stage = "begin"

LEMMA GrownKeeps ==
  ASSUME Types, Ascending, Nested, Stacked, Imported, Wholes, Grown,
         UNCHANGED <<database, allocations_, symbols_by_name_, checkpoints_, pending_files_>>,
         \A id \in Live : /\ descriptors'[id].name = descriptors[id].name
                          /\ descriptors'[id].dependencies = descriptors[id].dependencies
  PROVE  Stacked' /\ Imported' /\ Wholes'
  <1> DEFINE n == Len(builders)
             m == Len(builders')
  <1>0. n \in Nat /\ m \in Nat /\ n <= m
    BY BuilderTypes DEF Grown
  <1>1. \A i \in 1..m : builders'[i].stage # "begin" => i \in 1..n
    BY <1>0 DEF Grown
  <1>2. \A i \in 1..n : i \in 1..m /\ SameTask(builders[i], builders'[i])
    BY <1>0 DEF Grown
  <1>3. Stacked'
    <2>1. \A k : Start(k)' = Start(k)
      BY DEF Start
    <2>2. \A i \in 1..m : builders'[i].stage = "link" =>
             \E k \in 1..Len(checkpoints_) : builders'[i].file_ = Start(k)
      BY <1>1, <1>2 DEF Stacked, SameTask
    <2>3. \A k \in 1..Len(checkpoints_) :
             \E i \in 1..m : builders'[i].stage = "link" /\ builders'[i].file_ = Start(k)
      BY <1>1, <1>2 DEF Stacked, SameTask
    <2>4. \A i, j \in 1..m : i < j /\ builders'[i].stage = "link" /\ builders'[j].stage = "link"
             => builders'[i].file_ < builders'[j].file_
      BY <1>1, <1>2 DEF Stacked, SameTask
    <2> QED BY <2>1, <2>2, <2>3, <2>4 DEF Stacked
  <1>4. Imported'
    <2>1. ASSUME NEW j \in 1..Len(pending_files_)
          PROVE  \E i \in 1..m : builders'[i].stage = "import" /\ builders'[i].filename_ = pending_files_[j]
      <3>1. PICK i \in 1..n : builders[i].stage = "import" /\ builders[i].filename_ = pending_files_[j]
        BY DEF Imported
      <3> QED BY <3>1, <1>2 DEF SameTask
    <2>2. \A i \in 1..m : builders'[i].stage = "import" =>
            i \in 1..n /\ builders[i].stage = "import" /\ builders'[i].filename_ = builders[i].filename_
      BY <1>1, <1>2 DEF SameTask
    <2>3. \A i \in 1..m : builders'[i].stage = "import" =>
            \E j \in 1..Len(pending_files_) : builders'[i].filename_ = pending_files_[j]
      BY <2>2 DEF Imported
    <2>4. PendingInTurn(builders', pending_files_)
      <3>1. PendingInTurn(builders, pending_files_)
        BY DEF Imported
      <3> QED BY <3>1, <2>2 DEF PendingInTurn
    <2>5. \A j, k \in 1..Len(pending_files_) : pending_files_[j] = pending_files_[k] => j = k
      BY DEF Imported
    <2> QED BY <2>1, <2>3, <2>4, <2>5 DEF Imported
  <1>5. Wholes'
    <2>1. Live' = Live
      BY DEF Live
    <2>2. \A id \in Live : Whole(id)' <=> Whole(id)
      BY DEF Whole
    <2>3. ASSUME NEW id \in Live,
                 NEW i \in 1..n, builders[i].stage = "link" /\ builders[i].file_ = id /\ builders[i].had_errors_
          PROVE  i \in 1..m /\ builders'[i].stage = "link" /\ builders'[i].file_ = id /\ builders'[i].had_errors_
      BY <2>3, <1>2 DEF SameTask
    <2> QED BY <2>1, <2>2, <2>3 DEF Wholes
  <1> QED BY <1>3, <1>4, <1>5

LEMMA RestKept ==
  ASSUME UNCHANGED tables
  PROVE  /\ Ascending' <=> Ascending
         /\ Nested' <=> Nested
         /\ Held' <=> Held
         /\ Logged' <=> Logged
         /\ References' <=> References
  <1> USE DEF tables
  <1>0. Live' = Live /\ \A k : Start(k)' = Start(k)
    BY DEF Live, Start
  <1>1. Ascending' <=> Ascending
    BY DEF Ascending
  <1>2. Nested' <=> Nested
    BY DEF Nested
  <1>3. Held' <=> Held
    BY <1>0 DEF Held
  <1>4. Logged' <=> Logged
    <2>1. Marks' = Marks /\ Starts' = Starts
      BY <1>0 DEF Marks, Starts
    <2>2. SymbolFiles' = SymbolFiles /\ ExtensionFiles' = ExtensionFiles
      BY DEF SymbolFiles, ExtensionFiles
    <2>3. FileLog' = FileLog /\ SymbolLog' = SymbolLog /\ ExtensionLog' = ExtensionLog
      BY DEF FileLog, SymbolLog, ExtensionLog
    <2> QED BY <2>1, <2>2, <2>3 DEF Logged, LogOf, Tracks
  <1>5. References' <=> References
    BY <1>0 DEF References, Refers
  <1> QED BY <1>1, <1>2, <1>3, <1>4, <1>5

LEMMA TablesKept ==
  ASSUME UNCHANGED <<tables, handed>>
  PROVE  HandedOut' <=> HandedOut
  <1>0. Live' = Live /\ \A k : Start(k)' = Start(k)
    BY DEF Live, Start, tables
  <1> QED BY <1>0 DEF HandedOut, tables

LEMMA PushKeeps ==
  ASSUME DInv, NEW bs \in Seq(Builder), Len(bs) = Len(builders),
         \A i \in 1..Len(builders) :
           SameTask(builders[i], bs[i]) /\ bs[i].stage # "begin" /\ ScopeFits(bs[i]),
         \/ builders' = bs
         \/ \E f \in Files, by \in {"file", "index"} :
              files_by_name_[f] = 0 /\ builders' = Append(bs, NewBuilder(f, by)),
         UNCHANGED <<database, tables, pending_files_, handed>>,
         request' \in Request \cup {NoRequest}
  PROVE  DInv'
  <1> DEFINE n == Len(builders)
             m == Len(builders')
  <1> USE DEF tables
  <1>0. n \in Nat
    BY BuilderTypes DEF DInv
  <1>1. /\ builders' \in Seq(Builder) /\ m \in Nat /\ n <= m
        /\ \A i \in 1..n : builders'[i] = bs[i]
        /\ \A i \in (n + 1)..m : /\ i = m /\ builders'[i].stage = "begin" /\ builders'[i].scope = 1
                                 /\ ~builders'[i].rest /\ builders'[i].numbers = {}
                                 /\ files_by_name_[builders'[i].filename_] = 0
    <2>1. CASE builders' = bs
      BY <2>1, <1>0
    <2>2. CASE \E f \in Files, by \in {"file", "index"} :
                 files_by_name_[f] = 0 /\ builders' = Append(bs, NewBuilder(f, by))
      <3>1. PICK f \in Files, by \in {"file", "index"} :
              files_by_name_[f] = 0 /\ builders' = Append(bs, NewBuilder(f, by))
        BY <2>2
      <3> DEFINE b == NewBuilder(f, by)
      <3>2. /\ b \in Builder /\ b.stage = "begin" /\ b.scope = 1 /\ b.filename_ = f
            /\ ~b.rest /\ b.numbers = {}
        BY DEF Builder, NewBuilder
      <3> HIDE DEF b
      <3>3. builders' = Append(bs, b)
        BY <3>1 DEF b
      <3>4. /\ builders' \in Seq(Builder) /\ m = n + 1 /\ builders'[n + 1] = b
            /\ \A i \in 1..n : builders'[i] = bs[i]
        BY <3>2, <3>3, <1>0
      <3> QED BY <3>1, <3>2, <3>4, <1>0
    <2> QED BY <2>1, <2>2
  <1>2. Grown
    BY <1>1 DEF Grown
  <1>3. Stacked' /\ Imported' /\ Wholes'
    BY <1>2, GrownKeeps DEF DInv
  <1>4. Types'
    BY <1>1 DEF DInv, Types
  <1>5. Working'
    <2>1. ASSUME NEW i \in 1..m
          PROVE  LET b == builders'[i]
                 IN /\ b.stage = "begin" => i = m
                    /\ b.stage # "link" => files_by_name_[b.filename_] = 0
                    /\ ScopeFits(b)
      <3>1. CASE i \in 1..n
        <4>1. SameTask(builders[i], builders'[i]) /\ builders'[i].stage # "begin" /\ ScopeFits(builders'[i])
          BY <3>1, <1>1
        <4> QED BY <4>1, <3>1 DEF SameTask, DInv, Working
      <3>2. CASE i \in (n + 1)..m
        BY <3>2, <1>1 DEF ScopeFits
      <3> QED BY <3>1, <3>2, <1>0, <1>1
    <2>2. \A b : ScopeFits(b)' <=> ScopeFits(b)
      BY DEF ScopeFits, ProtoOf
    <2> QED BY <2>1, <2>2 DEF Working
  <1>6. Ascending' /\ Nested' /\ Held' /\ Logged' /\ References' /\ HandedOut'
    BY RestKept, TablesKept DEF DInv
  <1> QED BY <1>3, <1>4, <1>5, <1>6 DEF DInv

LEMMA AskStep ==
  ASSUME DInv, Ask
  PROVE  DInv'
  <1> DEFINE bs == builders
  <1>1. bs \in Seq(Builder) /\ Len(bs) = Len(builders) /\ Len(builders) = 0
    BY BuilderTypes DEF DInv, Types, Ask
  <1>2. builders' = bs /\ UNCHANGED <<database, tables, pending_files_, handed>>
    BY DEF Ask
  <1>3. request' \in Request \cup {NoRequest}
    BY DEF Ask, Request
  <1>4. \A i \in 1..Len(builders) :
           SameTask(builders[i], bs[i]) /\ bs[i].stage # "begin" /\ ScopeFits(bs[i])
    BY <1>1
  <1> QED BY <1>1, <1>2, <1>3, <1>4, PushKeeps

LEMMA IndexedPushes ==
  ASSUME NEW bs, NEW f \in Files \cup {NoFile}, TryIndexed(bs, f)
  PROVE  \/ builders' = bs
         \/ \E g \in Files, by \in {"file", "index"} :
              files_by_name_[g] = 0 /\ builders' = Append(bs, NewBuilder(g, by))
  <1>1. CASE f = NoFile \/ (f # NoFile /\ files_by_name_[f] # 0)
    BY <1>1 DEF TryIndexed, NothingThere
  <1>2. CASE ~(f = NoFile \/ (f # NoFile /\ files_by_name_[f] # 0))
    <2>1. f \in Files /\ files_by_name_[f] = 0 /\ builders' = Append(bs, NewBuilder(f, "index"))
      BY <1>2 DEF TryIndexed, BuildFrom
    <2> QED BY <2>1
  <1> QED BY <1>1, <1>2

LEMMA FilePushes ==
  ASSUME NEW bs, NEW f \in Files, files_by_name_[f] = 0, TryFindFile(bs, f)
  PROVE  \/ builders' = bs
         \/ \E g \in Files, by \in {"file", "index"} :
              files_by_name_[g] = 0 /\ builders' = Append(bs, NewBuilder(g, by))
  <1>1. builders' = bs \/ builders' = Append(bs, NewBuilder(f, "file"))
    BY DEF TryFindFile, NothingThere, BuildFrom
  <1> QED BY <1>1

LEMMA SymbolPushes ==
  ASSUME database \in Databases, NEW bs, NEW s \in Symbols, TryFindSymbol(bs, s)
  PROVE  \/ builders' = bs
         \/ \E g \in Files, by \in {"file", "index"} :
              files_by_name_[g] = 0 /\ builders' = Append(bs, NewBuilder(g, by))
  <1>1. database.symbol[s] \in Files \cup {NoFile}
    BY PoolAssumption
  <1>2. PICK f \in Files \cup {NoFile} : TryIndexed(bs, f)
    BY <1>1 DEF TryFindSymbol
  <1> QED BY <1>2, IndexedPushes

LEMMA AskDatabaseStep ==
  ASSUME DInv, AskDatabase
  PROVE  DInv'
  <1> DEFINE bs == builders
             Pushed == \/ builders' = bs
                       \/ \E f \in Files, by \in {"file", "index"} :
                            files_by_name_[f] = 0 /\ builders' = Append(bs, NewBuilder(f, by))
  <1>1. bs \in Seq(Builder) /\ Len(bs) = Len(builders) /\ Len(builders) = 0
    BY BuilderTypes DEF DInv, Types, AskDatabase
  <1>2. UNCHANGED <<database, tables, pending_files_, handed>> /\ request' = request
    BY DEF AskDatabase, history
  <1>3. request' \in Request \cup {NoRequest} /\ request \in Request /\ database \in Databases
    BY <1>2 DEF AskDatabase, DInv, Types
  <1>4. \A i \in 1..Len(builders) :
           SameTask(builders[i], bs[i]) /\ bs[i].stage # "begin" /\ ScopeFits(bs[i])
    BY <1>1
  <1>5. Pushed
    <2>1. CASE request.kind = "file"
      <3>1. request.name \in Files /\ files_by_name_[request.name] = 0 /\ TryFindFile(bs, request.name)
        BY <2>1, <1>3 DEF AskDatabase, InTables, Request
      <3> QED BY <3>1, FilePushes
    <2>2. CASE request.kind = "symbol"
      <3>1. request.name \in Symbols /\ TryFindSymbol(bs, request.name)
        BY <2>2, <1>3 DEF AskDatabase, Request
      <3> QED BY <3>1, <1>3, SymbolPushes
    <2>3. CASE request.kind = "extension"
      <3>1. request.name \in Symbols /\ TryIndexed(bs, database.extension[request.name])
        BY <2>3, <1>3 DEF AskDatabase, Request
      <3>2. database.extension[request.name] \in Files \cup {NoFile}
        BY <3>1, <1>3, PoolAssumption
      <3> QED BY <3>1, <3>2, IndexedPushes
    <2>4. request.kind \in {"file", "symbol", "extension"}
      BY <1>3 DEF Request
    <2> QED BY <2>1, <2>2, <2>3, <2>4
  <1> QED BY <1>1, <1>2, <1>3, <1>4, <1>5, PushKeeps

LEMMA AnswerStep ==
  ASSUME DInv, Answer
  PROVE  DInv'
  <1>1. /\ Len(builders) = 0 /\ Len(checkpoints_) = 0
    <2>1. Len(builders) = 0 /\ Len(checkpoints_) \in Nat
      BY BuilderTypes, StartFacts DEF DInv, Answer
    <2> QED BY <2>1 DEF DInv, Stacked
  <1>2. UNCHANGED <<database, tables, pending_files_, builders>> /\ request' = NoRequest
    BY DEF Answer
  <1>3. handed' \subseteq Live
    <2>1. request \in Request /\ handed \subseteq Live
      BY DEF Answer, DInv, Types, HandedOut
    <2>2. InTables # 0 => InTables \in Live
      <3>1. request.kind = "file" /\ request.name \in Files => InTables \in Live \cup {0}
        BY DEF InTables, DInv, Held
      <3>2. ASSUME request.kind = "symbol", request.name \in Symbols PROVE InTables \in Live \cup {0}
        <4>1. InTables = symbols_by_name_[request.name].file
          BY <3>2 DEF InTables
        <4>2. Held
          BY DEF DInv
        <4>3. symbols_by_name_[request.name].file \in Live \cup {0}
          BY <4>2, <3>2 DEF Held
        <4> QED BY <4>1, <4>3
      <3>3. ASSUME request.kind = "extension", request.name \in Symbols PROVE InTables \in Live \cup {0}
        <4>1. InTables = extensions_[request.name][1]
          BY <3>3 DEF InTables
        <4>2. 1 \in Number
          BY DEF Number
        <4>3. Held
          BY DEF DInv
        <4>4. extensions_[request.name][1] \in Live \cup {0}
          BY <4>2, <4>3, <3>3 DEF Held
        <4> QED BY <4>1, <4>4
      <3> QED BY <3>1, <3>2, <3>3, <2>1 DEF Request
    <2> QED BY <2>1, <2>2 DEF Answer
  <1>4. Live' = Live
    BY <1>2 DEF Live, tables
  <1>5. HandedOut'
    BY <1>1, <1>2, <1>3, <1>4 DEF HandedOut, tables
  <1>6. Types'
    BY <1>2 DEF DInv, Types, tables
  <1>7. Stacked' /\ Imported' /\ Working' /\ Wholes'
    <2>1. \A k : Start(k)' = Start(k)
      BY <1>2 DEF Start, tables
    <2>2. Stacked'
      BY <2>1, <1>2 DEF DInv, Stacked, tables
    <2>3. Imported'
      <3>1. Imported /\ builders' = builders /\ pending_files_' = pending_files_
        BY <1>2 DEF DInv
      <3> QED BY <3>1 DEF Imported
    <2>4. Working'
      BY <1>1, <1>2 DEF Working
    <2>5. Wholes'
      BY <1>2, <1>4 DEF DInv, Wholes, Whole, tables
    <2> QED BY <2>2, <2>3, <2>4, <2>5
  <1>8. Ascending' /\ Nested' /\ Held' /\ Logged' /\ References'
    BY <1>2, RestKept DEF DInv
  <1> QED BY <1>5, <1>6, <1>7, <1>8 DEF DInv

LEMMA WithTopFacts ==
  ASSUME Types, builders # <<>>, NEW b \in Builder
  PROVE  /\ WithTop(b) \in Seq(Builder) /\ Len(WithTop(b)) = Len(builders)
         /\ WithTop(b)[Len(builders)] = b
         /\ \A i \in 1..Len(builders) : i # Len(builders) => WithTop(b)[i] = builders[i]
  <1>1. builders \in Seq(Builder) /\ Len(builders) \in 1..Len(builders)
    BY BuilderTypes DEF Types
  <1> QED BY <1>1 DEF WithTop

LEMMA PopFacts ==
  ASSUME Types, builders # <<>>, builders' = SubSeq(builders, 1, Len(builders) - 1)
  PROVE  /\ builders' \in Seq(Builder) /\ Len(builders') = Len(builders) - 1
         /\ \A i \in 1..Len(builders') : i \in 1..Len(builders) /\ i < Len(builders) /\ builders'[i] = builders[i]
         /\ \A i \in 1..Len(builders) : i < Len(builders) => i \in 1..Len(builders')
  <1>1. builders \in Seq(Builder) /\ Len(builders) - 1 \in Nat /\ Len(builders) - 1 <= Len(builders)
    BY BuilderTypes DEF Types
  <1>2. /\ builders' \in Seq(Builder) /\ Len(builders') = Len(builders) - 1
        /\ \A i \in 1..(Len(builders) - 1) : builders'[i] = builders[i]
    BY <1>1, Prefix
  <1> QED BY <1>1, <1>2

LEMMA ImportStep ==
  ASSUME DInv, ImportNext
  PROVE  DInv'
  <1> DEFINE n == Len(builders)
             f == ProtoOf(Top).dependency[Top.next]
             b == [Top EXCEPT !.next = @ + 1]
             bs == WithTop(b)
  <1>1. /\ n \in 1..n /\ Top = builders[n] /\ Top.stage = "import" /\ Top \in Builder /\ builders # <<>>
        /\ Top.next <= Len(ProtoOf(Top).dependency)
    BY BuilderTypes DEF DInv, ImportNext, At, Top
  <1>2. f \in Files
    <2>1. Top.filename_ \in Files /\ Top.next \in Nat \ {0} /\ database \in Databases
      BY <1>1 DEF Builder, DInv, Types
    <2>2. ProtoOf(Top).dependency \in Seq(Files)
      BY <2>1, ProtoTypes DEF ProtoOf
    <2> QED BY <1>1, <2>1, <2>2
  <1>3. /\ b \in Builder /\ SameTask(Top, b) /\ b.stage = "import" /\ b.next = Top.next + 1 /\ b.scope = 1
        /\ ~b.rest /\ b.numbers = {}
    <2>1. Top.scope = 1 /\ ~Top.rest /\ Top.numbers = {}
      BY <1>1 DEF DInv, Working, ScopeFits
    <2> QED BY <1>1, <2>1 DEF Builder, SameTask
  <1>4. /\ bs \in Seq(Builder) /\ Len(bs) = n /\ bs[n] = b
        /\ \A i \in 1..n : i # n => bs[i] = builders[i]
    BY <1>1, <1>3, WithTopFacts DEF DInv
  <1>5. \/ builders' = bs
        \/ \E g \in Files, by \in {"file", "index"} :
             files_by_name_[g] = 0 /\ builders' = Append(bs, NewBuilder(g, by))
    <2>1. CASE files_by_name_[f] = 0
      <3>1. TryFindFile(bs, f)
        BY <2>1 DEF ImportNext
      <3> QED BY <3>1, <2>1, <1>2, FilePushes
    <2>2. CASE files_by_name_[f] # 0
      BY <2>2 DEF ImportNext
    <2> QED BY <2>1, <2>2
  <1>6. UNCHANGED <<database, tables, pending_files_, handed>> /\ request' \in Request \cup {NoRequest}
    BY DEF ImportNext, history, DInv, Types
  <1>7. \A i \in 1..n : SameTask(builders[i], bs[i]) /\ bs[i].stage # "begin" /\ ScopeFits(bs[i])
    <2>1. ASSUME NEW i \in 1..n, i # n
          PROVE  SameTask(builders[i], bs[i]) /\ bs[i].stage # "begin" /\ ScopeFits(bs[i])
      <3>1. bs[i] = builders[i]
        BY <2>1, <1>4
      <3>2. builders[i].stage # "begin" /\ ScopeFits(builders[i])
        BY <2>1 DEF DInv, Working
      <3> QED BY <3>1, <3>2 DEF SameTask
    <2>2. SameTask(builders[n], bs[n]) /\ bs[n].stage # "begin" /\ ScopeFits(bs[n])
      BY <1>1, <1>3, <1>4 DEF ScopeFits
    <2> QED BY <2>1, <2>2
  <1> HIDE DEF bs
  <1> QED BY <1>4, <1>5, <1>6, <1>7, PushKeeps

\* What is sought is a name.
LEMMA LinkingFacts ==
  ASSUME DInv, Linking
  PROVE  /\ Top \in Builder /\ builders # <<>> /\ Len(builders) \in 1..Len(builders)
         /\ Top = builders[Len(builders)] /\ Top.stage = "link"
         /\ UseNow \in Use /\ UseNow.scopes \in Seq(Scope) /\ UseNow.scopes # <<>>
         /\ Top.scope \in 1..Len(UseNow.scopes) /\ Top.next \in Nat \ {0}
         /\ Sought \in Symbols
  <1>1. /\ Top \in Builder /\ builders # <<>> /\ Len(builders) \in 1..Len(builders)
        /\ Top = builders[Len(builders)] /\ Top.stage = "link" /\ Top.next <= Len(ProtoOf(Top).uses)
    BY BuilderTypes DEF DInv, Linking, At, Top
  <1>2. Top.filename_ \in Files /\ Top.next \in Nat \ {0} /\ Top.scope \in Nat \ {0} /\ database \in Databases
    BY <1>1 DEF Builder, DInv, Types
  <1>3. ProtoOf(Top).uses \in Seq(Use)
    BY <1>2, ProtoTypes DEF ProtoOf
  <1>4. UseNow \in Use
    BY <1>1, <1>2, <1>3 DEF UseNow
  <1>5. UseNow.scopes \in Seq(Scope) /\ UseNow.scopes # <<>>
    BY <1>4 DEF Use
  <1>6. ScopeFits(Top)
    BY <1>1 DEF DInv, Working
  <1>7. Top.scope \in 1..Len(UseNow.scopes)
    BY <1>1, <1>2, <1>5, <1>6 DEF ScopeFits, UseNow
  <1>8. UseNow.scopes[Top.scope] \in Scope
    BY <1>5, <1>7
  <1>9. Sought \in Symbols
    BY <1>8 DEF Sought, Scope
  <1> QED BY <1>1, <1>2, <1>4, <1>5, <1>7, <1>9

LEMMA SeekStep ==
  ASSUME DInv, SeekSymbol
  PROVE  DInv'
  <1> DEFINE bs == builders
  <1>1. Linking /\ Sought \in Symbols /\ TryFindSymbol(bs, Sought)
    BY LinkingFacts DEF SeekSymbol
  <1>2. \/ builders' = bs
        \/ \E g \in Files, by \in {"file", "index"} :
             files_by_name_[g] = 0 /\ builders' = Append(bs, NewBuilder(g, by))
    BY <1>1, SymbolPushes DEF DInv, Types
  <1>3. UNCHANGED <<database, tables, pending_files_, handed>> /\ request' \in Request \cup {NoRequest}
    BY DEF SeekSymbol, DInv, Types
  <1>4. bs \in Seq(Builder) /\ Len(bs) = Len(builders)
    BY DEF DInv, Types
  <1>5. \A i \in 1..Len(builders) :
          SameTask(builders[i], bs[i]) /\ bs[i].stage # "begin" /\ ScopeFits(bs[i])
    BY <1>1, LinkingFacts DEF DInv, Working, SameTask
  <1> QED BY <1>2, <1>3, <1>4, <1>5, PushKeeps

\* A file that is under way is refused.
LEMMA BeginRecursive ==
  ASSUME DInv, Begin, Recursive(Top.filename_)
  PROVE  DInv'
  <1>1. /\ builders # <<>> /\ Top = builders[Len(builders)] /\ Top.stage = "begin"
        /\ builders' = SubSeq(builders, 1, Len(builders) - 1)
        /\ UNCHANGED <<database, tables, pending_files_, request, handed>>
    BY DEF Begin, At, Top, Return, history
  <1>2. Len(builders) \in Nat /\ Len(builders) > 0
    BY <1>1, BuilderTypes DEF DInv
  <1>3. /\ builders' \in Seq(Builder) /\ Len(builders') = Len(builders) - 1
        /\ \A i \in 1..Len(builders') : i \in 1..Len(builders) /\ i < Len(builders) /\ builders'[i] = builders[i]
        /\ \A i \in 1..Len(builders) : i < Len(builders) => i \in 1..Len(builders')
    BY <1>1, PopFacts DEF DInv
  <1>4. \A i \in 1..Len(builders) : builders[i].stage # "begin" => i \in 1..Len(builders') /\ builders'[i] = builders[i]
    BY <1>1, <1>2, <1>3
  <1>5. Types'
    BY <1>1, <1>3 DEF DInv, Types, tables
  <1>6. Stacked'
    <2>1. \A k : Start(k)' = Start(k)
      BY <1>1 DEF Start, tables
    <2>2. checkpoints_' = checkpoints_ /\ Stacked
      BY <1>1 DEF tables, DInv
    <2> QED BY <2>1, <2>2, <1>3, <1>4 DEF Stacked
  <1>7. Imported'
    <2>1. Imported /\ pending_files_' = pending_files_
      BY <1>1 DEF DInv
    <2>2. \A j \in 1..Len(pending_files_) :
            \E i \in 1..Len(builders') : builders'[i].stage = "import" /\ builders'[i].filename_ = pending_files_[j]
      BY <2>1, <1>4 DEF Imported
    <2>3. ASSUME NEW i \in 1..Len(builders'), builders'[i].stage = "import"
          PROVE  \E j \in 1..Len(pending_files_) : builders'[i].filename_ = pending_files_[j]
      <3>1. i \in 1..Len(builders) /\ builders[i].stage = "import" /\ builders'[i] = builders[i]
        BY <2>3, <1>3
      <3>2. \E j \in 1..Len(pending_files_) : builders[i].filename_ = pending_files_[j]
        BY <3>1, <2>1 DEF Imported
      <3> QED BY <3>1, <3>2
    <2>4. PendingInTurn(builders', pending_files_)
      <3>1. PendingInTurn(builders, pending_files_)
        BY <2>1 DEF Imported
      <3> QED BY <3>1, <1>3 DEF PendingInTurn
    <2>5. \A j, k \in 1..Len(pending_files_) : pending_files_[j] = pending_files_[k] => j = k
      BY <2>1 DEF Imported
    <2> QED BY <2>1, <2>2, <2>3, <2>4, <2>5 DEF Imported
  <1>8. Working'
    <2>1. \A b : ScopeFits(b)' <=> ScopeFits(b)
      BY <1>1 DEF ScopeFits, ProtoOf
    <2>2. Working /\ files_by_name_' = files_by_name_
      BY <1>1 DEF DInv, tables
    <2> QED BY <2>1, <2>2, <1>3 DEF Working
  <1>9. Wholes'
    <2>1. Live' = Live /\ \A id : Whole(id)' <=> Whole(id)
      BY <1>1 DEF Live, Whole, tables
    <2>2. Wholes
      BY DEF DInv
    <2> QED BY <2>1, <2>2, <1>4 DEF Wholes
  <1>10. Ascending' /\ Nested' /\ Held' /\ Logged' /\ References' /\ HandedOut'
    BY <1>1, RestKept, TablesKept DEF DInv
  <1> QED BY <1>5, <1>6, <1>7, <1>8, <1>9, <1>10 DEF DInv

LEMMA BeginStep ==
  ASSUME DInv, Begin, ~Recursive(Top.filename_)
  PROVE  DInv'
  <1> DEFINE n == Len(builders)
             P == Len(pending_files_)
             b == [Top EXCEPT !.stage = "import"]
  <1>1. /\ builders # <<>> /\ Top = builders[n] /\ Top.stage = "begin" /\ Top \in Builder /\ n \in 1..n /\ n \in Nat
        /\ pending_files_' = Append(pending_files_, Top.filename_)
        /\ UNCHANGED <<database, tables, request, handed>>
    BY BuilderTypes DEF Begin, At, Top, history, DInv
  <1>2. /\ b \in Builder /\ b.stage = "import" /\ b.filename_ = Top.filename_ /\ Top.filename_ \in Files
        /\ b.scope = 1 /\ ~b.rest /\ b.numbers = {}
    <2>1. Top.scope = 1 /\ ~Top.rest /\ Top.numbers = {}
      BY <1>1 DEF DInv, Working, ScopeFits
    <2> QED BY <1>1, <2>1 DEF Builder
  <1>3. /\ builders' \in Seq(Builder) /\ Len(builders') = n /\ builders'[n] = b
        /\ \A i \in 1..n : i # n => builders'[i] = builders[i]
    <2>1. builders' = WithTop(b)
      BY DEF Begin
    <2> QED BY <2>1, <1>1, <1>2, WithTopFacts DEF DInv
  <1> HIDE DEF b
  <1>4. /\ P \in Nat /\ pending_files_ \in Seq(Files)
    BY DEF DInv, Types
  <1>5. /\ pending_files_' \in Seq(Files) /\ Len(pending_files_') = P + 1
        /\ pending_files_'[P + 1] = Top.filename_
        /\ \A j \in 1..P : pending_files_'[j] = pending_files_[j] /\ pending_files_[j] # Top.filename_
        /\ \A j \in 1..(P + 1) : j \in 1..P \/ j = P + 1
    <2>1. \A j \in 1..P : pending_files_[j] # Top.filename_
      BY <1>4 DEF Recursive
    <2> QED BY <2>1, <1>1, <1>2, <1>4
  <1>6. Types'
    BY <1>1, <1>3, <1>5 DEF DInv, Types, tables
  <1>7. \A i \in 1..n : builders'[i].stage = "link" <=> builders[i].stage = "link"
    BY <1>1, <1>2, <1>3
  <1>8. \A i \in 1..n : builders[i].stage = "link" => builders'[i] = builders[i]
    BY <1>1, <1>3
  <1>9. Stacked'
    <2>1. \A k : Start(k)' = Start(k)
      BY <1>1 DEF Start, tables
    <2>2. checkpoints_' = checkpoints_ /\ Stacked
      BY <1>1 DEF tables, DInv
    <2>3. \A i \in 1..n : builders'[i].stage = "link" =>
            \E k \in 1..Len(checkpoints_) : builders'[i].file_ = Start(k)
      BY <2>2, <1>7, <1>8 DEF Stacked
    <2>4. \A k \in 1..Len(checkpoints_) :
            \E i \in 1..n : builders'[i].stage = "link" /\ builders'[i].file_ = Start(k)
      BY <2>2, <1>7, <1>8 DEF Stacked
    <2>5. \A i, j \in 1..n : i < j /\ builders'[i].stage = "link" /\ builders'[j].stage = "link"
            => builders'[i].file_ < builders'[j].file_
      BY <2>2, <1>7, <1>8 DEF Stacked
    <2> QED BY <2>1, <2>2, <2>3, <2>4, <2>5, <1>3 DEF Stacked
  <1>10. Imported'
    <2> DEFINE I(i) == builders[i].stage = "import"
               J(i) == builders'[i].stage = "import"
    <2>0. Imported
      BY DEF DInv
    <2>1. \A i \in 1..n : J(i) => i = n \/ (I(i) /\ i < n /\ builders'[i] = builders[i])
      BY <1>1, <1>3
    <2>2. ASSUME NEW j \in 1..(P + 1)
          PROVE  \E i \in 1..n : J(i) /\ builders'[i].filename_ = pending_files_'[j]
      <3>1. CASE j \in 1..P
        <4>1. PICK i \in 1..n : I(i) /\ builders[i].filename_ = pending_files_[j]
          BY <3>1, <2>0 DEF Imported
        <4>2. i # n
          BY <4>1, <1>1
        <4> QED BY <4>1, <4>2, <3>1, <1>3, <1>5
      <3>2. CASE j = P + 1
        BY <3>2, <1>1, <1>2, <1>3, <1>5
      <3> QED BY <3>1, <3>2, <1>5
    <2>3. ASSUME NEW i \in 1..n, J(i)
          PROVE  \E j \in 1..(P + 1) : builders'[i].filename_ = pending_files_'[j]
      <3>1. CASE i = n
        <4>1. P + 1 \in 1..(P + 1)
          BY <1>4
        <4> QED BY <4>1, <3>1, <1>2, <1>3, <1>5
      <3>2. CASE i # n
        <4>1. I(i) /\ builders'[i] = builders[i]
          BY <3>2, <2>1, <2>3
        <4>2. PICK j \in 1..P : builders[i].filename_ = pending_files_[j]
          BY <4>1, <2>0 DEF Imported
        <4>3. j \in 1..(P + 1)
          BY <1>4
        <4> QED BY <4>1, <4>2, <4>3, <1>5
      <3> QED BY <3>1, <3>2
    <2>4. ASSUME NEW h \in 1..n, NEW i \in 1..n, h < i, J(h), J(i), NEW j \in 1..(P + 1), NEW k \in 1..(P + 1),
                 builders'[h].filename_ = pending_files_'[j], builders'[i].filename_ = pending_files_'[k]
          PROVE  j < k
      <3>1. h # n /\ h < n /\ I(h) /\ builders'[h] = builders[h]
        BY <2>1, <2>4, <1>1
      <3>2. PICK g \in 1..P : builders[h].filename_ = pending_files_[g]
        BY <3>1, <2>0 DEF Imported
      <3>3. j \in 1..P /\ pending_files_'[j] = pending_files_[j]
        BY <3>1, <3>2, <2>4, <1>5
      <3>4. CASE i = n
        <4>1. k = P + 1
          BY <3>4, <2>4, <1>2, <1>3, <1>5
        <4> QED BY <4>1, <3>3, <1>4
      <3>5. CASE i # n
        <4>1. I(i) /\ builders'[i] = builders[i]
          BY <3>5, <2>1, <2>4
        <4>2. PICK l \in 1..P : builders[i].filename_ = pending_files_[l]
          BY <4>1, <2>0 DEF Imported
        <4>3. k \in 1..P /\ pending_files_'[k] = pending_files_[k]
          BY <4>1, <4>2, <2>4, <1>5
        <4> QED BY <4>1, <4>3, <3>1, <3>3, <2>0, <2>4 DEF Imported, PendingInTurn
      <3> QED BY <3>4, <3>5
    <2>5. ASSUME NEW j \in 1..(P + 1), NEW k \in 1..(P + 1), pending_files_'[j] = pending_files_'[k]
          PROVE  j = k
      <3>1. CASE j \in 1..P /\ k \in 1..P
        BY <3>1, <2>0, <2>5, <1>5 DEF Imported
      <3>2. CASE j = P + 1 \/ k = P + 1
        BY <3>2, <2>5, <1>5
      <3> QED BY <3>1, <3>2, <1>5
    <2>6. Len(builders') = n /\ Len(pending_files_') = P + 1
      BY <1>3, <1>5
    <2>7. PendingInTurn(builders', pending_files_')
      BY <2>4, <2>6 DEF PendingInTurn
    <2> QED BY <2>2, <2>3, <2>5, <2>6, <2>7 DEF Imported
  <1>11. Working'
    <2>1. \A c : ScopeFits(c)' <=> ScopeFits(c)
      BY <1>1 DEF ScopeFits, ProtoOf
    <2>2. Working /\ files_by_name_' = files_by_name_
      BY <1>1 DEF DInv, tables
    <2>3. ASSUME NEW i \in 1..n
          PROVE  /\ builders'[i].stage = "begin" => i = n
                 /\ builders'[i].stage # "link" => files_by_name_[builders'[i].filename_] = 0
                 /\ ScopeFits(builders'[i])
      <3>1. CASE i = n
        BY <3>1, <1>1, <1>2, <1>3, <2>2 DEF Working, ScopeFits
      <3>2. CASE i # n
        BY <3>2, <1>3, <2>2 DEF Working
      <3> QED BY <3>1, <3>2
    <2> QED BY <2>1, <2>2, <2>3, <1>3 DEF Working
  <1>12. Wholes'
    <2>1. Live' = Live /\ \A id : Whole(id)' <=> Whole(id)
      BY <1>1 DEF Live, Whole, tables
    <2>2. Wholes
      BY DEF DInv
    <2> QED BY <2>1, <2>2, <1>3, <1>8 DEF Wholes
  <1>13. Ascending' /\ Nested' /\ Held' /\ Logged' /\ References' /\ HandedOut'
    BY <1>1, RestKept, TablesKept DEF DInv
  <1> QED BY <1>6, <1>9, <1>10, <1>11, <1>12, <1>13 DEF DInv

-----------------------------------------------------------------------------
\* A name is resolved, or its next scope is tried.

LEMMA ScopeMoves ==
  ASSUME DInv, Linking, NEW b \in Builder, SameTask(Top, b), ScopeFits(b), builders' = WithTop(b),
         UNCHANGED <<database, tables, pending_files_, request, handed>>
  PROVE  DInv'
  <1> DEFINE n == Len(builders)
             bs == WithTop(b)
  <1>1. n \in 1..n /\ Top = builders[n] /\ Top.stage = "link" /\ Top \in Builder /\ builders # <<>>
    BY LinkingFacts
  <1>2. b.stage = "link"
    BY <1>1 DEF SameTask
  <1>3. /\ bs \in Seq(Builder) /\ Len(bs) = n /\ bs[n] = b
        /\ \A i \in 1..n : i # n => bs[i] = builders[i]
    BY <1>1, WithTopFacts DEF DInv
  <1>4. request' \in Request \cup {NoRequest}
    BY DEF DInv, Types
  <1>5. \A i \in 1..n : SameTask(builders[i], bs[i]) /\ bs[i].stage # "begin" /\ ScopeFits(bs[i])
    <2>1. ASSUME NEW i \in 1..n, i # n
          PROVE  SameTask(builders[i], bs[i]) /\ bs[i].stage # "begin" /\ ScopeFits(bs[i])
      <3>1. bs[i] = builders[i]
        BY <2>1, <1>3
      <3>2. builders[i].stage # "begin" /\ ScopeFits(builders[i])
        BY <2>1 DEF DInv, Working
      <3> QED BY <3>1, <3>2 DEF SameTask
    <2>2. SameTask(builders[n], bs[n]) /\ bs[n].stage # "begin" /\ ScopeFits(bs[n])
      BY <1>1, <1>2, <1>3
    <2> QED BY <2>1, <2>2
  <1>6. builders' = bs
    OBVIOUS
  <1> HIDE DEF bs
  <1> QED BY <1>3, <1>4, <1>5, <1>6, PushKeeps

\* The next use starts at its first scope.
LEMMA NextUseFacts ==
  ASSUME DInv, Linking, NEW e \in BOOLEAN, NEW N \in SUBSET (Symbols \X Number), Top.had_errors_ => e
  PROVE  LET b == NextUse([Top EXCEPT !.had_errors_ = e, !.numbers = N])
         IN b \in Builder /\ SameTask(Top, b) /\ ScopeFits(b) /\ b.stage = "link"
  <1> DEFINE b == NextUse([Top EXCEPT !.had_errors_ = e, !.numbers = N])
  <1>1. Top \in Builder /\ Top.stage = "link" /\ Top.next \in Nat \ {0} /\ Top.filename_ \in Files
    BY LinkingFacts DEF Builder
  <1>2. b \in Builder
    <2> DEFINE c == [Top EXCEPT !.had_errors_ = e, !.numbers = N]
    <2>1. c \in Builder
      BY <1>1 DEF Builder
    <2> HIDE DEF c
    <2> DEFINE m == c.next + 1
    <2>2. m \in Nat \ {0}
      BY <2>1 DEF Builder
    <2> DEFINE c1 == [c EXCEPT !.next = m]
               c2 == [c1 EXCEPT !.scope = 1]
    <2>3. b = [c2 EXCEPT !.rest = FALSE]
      BY DEF NextUse, c
    <2>4. c1 \in Builder
      <3> HIDE DEF m
      <3> QED BY <2>1, <2>2 DEF Builder
    <2> HIDE DEF c1
    <2>5. c2 \in Builder
      BY <2>4 DEF Builder
    <2> HIDE DEF c2, b
    <2>6. b \in Builder
      BY <2>3, <2>5 DEF Builder
    <2> QED BY <2>6
  <1>3. SameTask(Top, b) /\ b.stage = "link" /\ b.scope = 1 /\ b.next = Top.next + 1 /\ b.filename_ = Top.filename_
    BY <1>1 DEF Builder, NextUse, SameTask
  <1>4. ScopeFits(b)
    <2>1. ProtoOf(Top).uses \in Seq(Use) /\ ProtoOf(b) = ProtoOf(Top)
      BY <1>1, <1>3, ProtoTypes DEF ProtoOf, DInv, Types
    <2> SUFFICES ASSUME b.next <= Len(ProtoOf(b).uses)
                 PROVE  b.scope <= Len(ProtoOf(b).uses[b.next].scopes)
      BY <1>3 DEF ScopeFits
    <2>2. ProtoOf(Top).uses[Top.next + 1] \in Use
      BY <1>1, <1>3, <2>1
    <2>3. /\ ProtoOf(Top).uses[Top.next + 1].scopes \in Seq(Scope)
          /\ ProtoOf(Top).uses[Top.next + 1].scopes # <<>>
      BY <2>2 DEF Use
    <2>4. 1 <= Len(ProtoOf(Top).uses[Top.next + 1].scopes)
      BY <2>3
    <2> QED BY <2>1, <2>4, <1>3
  <1> QED BY <1>2, <1>3, <1>4

LEMMA LinkNothing ==
  ASSUME DInv, Linking, NEW r, r.type # "message", LinkTo(r),
         UNCHANGED <<database, allocations_, files_by_name_, symbols_by_name_, checkpoints_,
                     pending_files_, request, handed>>
  PROVE  DInv'
  <1> DEFINE b == NextUse([Top EXCEPT !.had_errors_ = TRUE])
             c == NextUse([Top EXCEPT !.had_errors_ = TRUE, !.numbers = Top.numbers])
  <1>1. Top \in Builder
    BY LinkingFacts
  <1>2. Top.numbers \in SUBSET (Symbols \X Number) /\ b = c
    BY <1>1 DEF Builder, NextUse
  <1>3. c \in Builder /\ SameTask(Top, c) /\ ScopeFits(c)
    BY <1>2, NextUseFacts
  <1>4. builders' = WithTop(b) /\ UNCHANGED tables
    BY DEF LinkTo, tables
  <1> HIDE DEF b, c
  <1> QED BY <1>2, <1>3, <1>4, ScopeMoves

\* The use is linked to a message: an extension's number is taken.
LEMMA LinkMessage ==
  ASSUME DInv, Linking, NEW r, r = symbols_by_name_[Sought], r.type = "message", LinkTo(r),
         UNCHANGED <<database, allocations_, files_by_name_, symbols_by_name_, checkpoints_,
                     pending_files_, request, handed>>
  PROVE  DInv'
  <1> DEFINE n == Len(builders)
             K == Len(checkpoints_)
             L == Len(after_checkpoint_)
             F == Top.file_
             key == <<Sought, UseNow.number>>
             extends == UseNow.number # 0
             free == extends /\ extensions_[Sought][UseNow.number] = 0
             e == Top.had_errors_ \/ (extends /\ key \in Top.numbers)
             N == IF extends THEN Top.numbers \cup {key} ELSE Top.numbers
             b == NextUse([Top EXCEPT !.had_errors_ = e, !.numbers = N])
             A == IF free THEN {key} ELSE {}
  <1>1. /\ n \in 1..n /\ Top = builders[n] /\ Top.stage = "link" /\ Top \in Builder /\ builders # <<>>
        /\ Sought \in Symbols /\ UseNow \in Use
    BY LinkingFacts
  <1>2. extends => UseNow.number \in Number /\ key \in Symbols \X Number
    BY <1>1 DEF Use
  <1>3. Types /\ Ascending /\ Nested /\ Stacked /\ Imported /\ Working /\ Held /\ Logged /\ References
        /\ Wholes /\ HandedOut
    BY DEF DInv
  <1>4. /\ K \in 1..K /\ F = Start(K) /\ \A k \in 1..K : Start(k) <= F
        /\ F \in Live /\ F \in 1..Len(descriptors) /\ K \in Nat /\ L \in Nat /\ F \in Nat /\ F > 0
        /\ \A k \in 1..K : Start(k) \in Nat /\ Start(k) > 0
    BY <1>3, TopIsLast, StartFacts DEF Linking
  <1>5. r.file \in Live
    <2>1. r.file \in Live \cup {0} /\ (r.file = 0 => r = NullSymbol)
      BY <1>1, <1>3 DEF Held
    <2> QED BY <2>1 DEF NullSymbol
  <1>6. b \in Builder /\ SameTask(Top, b) /\ ScopeFits(b) /\ b.stage = "link"
    <2>1. Top.had_errors_ \in BOOLEAN /\ Top.numbers \in SUBSET (Symbols \X Number)
      BY <1>1 DEF Builder
    <2>2. e \in BOOLEAN /\ N \in SUBSET (Symbols \X Number) /\ (Top.had_errors_ => e)
      BY <2>1, <1>2
    <2> HIDE DEF e, N
    <2> QED BY <2>2, NextUseFacts
  <1>7. /\ descriptors' = [descriptors EXCEPT ![F].links = Append(@, r.file)]
        /\ builders' = WithTop(b)
        /\ free => /\ extensions_' = [extensions_ EXCEPT ![Sought][UseNow.number] = F]
                   /\ after_checkpoint_' = Append(after_checkpoint_,
                        [files |-> {}, symbols |-> {}, extensions |-> {key}])
        /\ ~free => UNCHANGED <<extensions_, after_checkpoint_>>
    <2>1. e = (Top.had_errors_ \/ (extends /\ key \in Top.numbers))
      OBVIOUS
    <2> QED BY DEF LinkTo
  <1> HIDE DEF b
  <1>8. /\ builders' \in Seq(Builder) /\ Len(builders') = n /\ builders'[n] = b
        /\ \A i \in 1..n : i # n => builders'[i] = builders[i]
    BY <1>1, <1>3, <1>6, <1>7, WithTopFacts
  <1>9. Grown
    <2>1. n \in Nat
      BY <1>1
    <2> QED BY <2>1, <1>1, <1>6, <1>8 DEF Grown, SameTask
  <1>10. /\ descriptors' \in Seq(Descriptor) /\ Len(descriptors') = Len(descriptors)
         /\ \A id \in 1..Len(descriptors) :
              /\ descriptors'[id].name = descriptors[id].name
              /\ descriptors'[id].dependencies = descriptors[id].dependencies
              /\ id # F => descriptors'[id].links = descriptors[id].links
         /\ descriptors'[F].links = Append(descriptors[F].links, r.file)
         /\ descriptors[F].links \in Seq(Nat)
    <2> DEFINE d == [descriptors[F] EXCEPT !.links = Append(@, r.file)]
    <2>1. descriptors \in Seq(Descriptor) /\ descriptors[F] \in Descriptor
      BY <1>3, <1>4 DEF Types
    <2>2. r.file \in Nat
      BY <1>3, <1>5, LiveFacts DEF Types
    <2>3. d \in Descriptor /\ d.name = descriptors[F].name /\ d.dependencies = descriptors[F].dependencies
          /\ d.links = Append(descriptors[F].links, r.file) /\ descriptors[F].links \in Seq(Nat)
      <3>1. descriptors[F].links \in Seq(Nat)
        BY <2>1 DEF Descriptor
      <3> DEFINE t == Append(descriptors[F].links, r.file)
      <3>2. t \in Seq(Nat)
        BY <3>1, <2>2
      <3>3. d = [descriptors[F] EXCEPT !.links = t]
        OBVIOUS
      <3> HIDE DEF t, d
      <3>4. d \in Descriptor /\ d.name = descriptors[F].name /\ d.dependencies = descriptors[F].dependencies
            /\ d.links = t
        BY <2>1, <3>2, <3>3 DEF Descriptor
      <3> QED BY <3>1, <3>4 DEF t
    <2>4. descriptors' = [descriptors EXCEPT ![F] = d]
      BY <1>7
    <2> HIDE DEF d
    <2>5. descriptors' \in Seq(Descriptor) /\ Len(descriptors') = Len(descriptors)
      BY <2>1, <2>3, <2>4, <1>4
    <2>6. descriptors'[F] = d /\ \A id \in 1..Len(descriptors) : id # F => descriptors'[id] = descriptors[id]
      BY <2>1, <2>4, <1>4
    <2> QED BY <2>3, <2>5, <2>6
  <1>11. /\ extensions_' \in [Symbols -> [Number -> Nat]]
         /\ \A s \in Symbols, m \in Number :
              extensions_'[s][m] = IF <<s, m>> \in A THEN F ELSE extensions_[s][m]
         /\ \A s \in Symbols, m \in Number : <<s, m>> \in A => extensions_[s][m] = 0
    <2>1. extensions_ \in [Symbols -> [Number -> Nat]]
      BY <1>3 DEF Types
    <2>2. CASE free
      <3>1. UseNow.number \in Number /\ extensions_' = [extensions_ EXCEPT ![Sought][UseNow.number] = F]
        BY <2>2, <1>2, <1>7
      <3>2. A = {key}
        BY <2>2
      <3>3. \A s \in Symbols, m \in Number : <<s, m>> \in A <=> s = Sought /\ m = UseNow.number
        BY <3>2
      <3> HIDE DEF A
      <3> QED BY <2>1, <2>2, <3>1, <3>3, <1>1, <1>4
    <2>3. CASE ~free
      BY <2>1, <2>3, <1>7
    <2> QED BY <2>2, <2>3
  <1>12. \/ free /\ after_checkpoint_' = Append(after_checkpoint_, [files |-> {}, symbols |-> {}, extensions |-> A])
         \/ ~free /\ UNCHANGED <<extensions_, after_checkpoint_>>
    BY <1>7
  <1>13. A \subseteq Symbols \X Number
    BY <1>2
  <1> HIDE DEF A, free
  <1>14. /\ after_checkpoint_' \in Seq(LogEntry) /\ Len(after_checkpoint_') >= L
         /\ \A i \in 1..L : after_checkpoint_'[i] = after_checkpoint_[i]
         /\ free => /\ Len(after_checkpoint_') = L + 1
                    /\ after_checkpoint_'[L + 1] = [files |-> {}, symbols |-> {}, extensions |-> A]
    <2>1. after_checkpoint_ \in Seq(LogEntry)
      BY <1>3 DEF Types
    <2>2. CASE free
      <3> DEFINE g == [files |-> {}, symbols |-> {}, extensions |-> A]
      <3>1. g \in LogEntry
        BY <1>13 DEF LogEntry
      <3>2. after_checkpoint_' = Append(after_checkpoint_, g)
        BY <2>2, <1>12
      <3> HIDE DEF g
      <3>3. /\ after_checkpoint_' \in Seq(LogEntry) /\ Len(after_checkpoint_') = L + 1
            /\ \A i \in 1..L : after_checkpoint_'[i] = after_checkpoint_[i]
            /\ after_checkpoint_'[L + 1] = g
        BY <2>1, <3>1, <3>2
      <3> QED BY <3>3, <1>4 DEF g
    <2>3. CASE ~free
      BY <2>1, <2>3, <1>4, <1>12
    <2> QED BY <2>2, <2>3
  <1>15. Types'
    <2>1. /\ database' \in Databases /\ allocations_' \in Seq(Nat) /\ files_by_name_' \in [Files -> Nat]
          /\ symbols_by_name_' \in [Symbols -> SymbolEntry] /\ checkpoints_' \in Seq(Checkpoint)
          /\ pending_files_' \in Seq(Files) /\ request' \in Request \cup {NoRequest}
      BY <1>3 DEF Types
    <2> QED BY <2>1, <1>8, <1>10, <1>11, <1>14 DEF Types
  <1>16. Live' = Live /\ (\A k : Start(k)' = Start(k)) /\ Live \subseteq 1..Len(descriptors)
    BY <1>3, LiveFacts DEF Live, Start
  <1>17. Stacked' /\ Imported' /\ Wholes'
    BY <1>3, <1>9, <1>10, <1>16, GrownKeeps
  <1>18. Ascending' /\ HandedOut'
    BY <1>3, <1>10, <1>16 DEF Ascending, HandedOut
  <1>19. Nested'
    <2>1. checkpoints_ # <<>>
      BY <1>3, <1>4 DEF Types
    <2>2. \A k \in 1..K : checkpoints_[k].pending \in Nat /\ checkpoints_[k].pending <= L
      BY <1>3, StartFacts DEF Nested
    <2>3. Len(after_checkpoint_') \in Nat /\ \A k \in 1..K : checkpoints_[k].pending <= Len(after_checkpoint_')
      BY <2>2, <1>4, <1>14
    <2> QED BY <2>1, <2>3, <1>3 DEF Nested
  <1>20. Working'
    <2>1. \A c : ScopeFits(c)' <=> ScopeFits(c)
      BY DEF ScopeFits, ProtoOf
    <2>2. ASSUME NEW i \in 1..n
          PROVE  /\ builders'[i].stage = "begin" => i = n
                 /\ builders'[i].stage # "link" => files_by_name_[builders'[i].filename_] = 0
                 /\ ScopeFits(builders'[i])
      <3>1. CASE i = n
        BY <3>1, <1>6, <1>8
      <3>2. CASE i # n
        BY <3>2, <1>3, <1>8 DEF Working
      <3> QED BY <3>1, <3>2
    <2> QED BY <2>1, <2>2, <1>8 DEF Working
  <1>21. Held'
    <2>1. \A f \in Files : files_by_name_'[f] \in Live \cup {0}
      BY <1>3 DEF Held
    <2>2. ASSUME NEW s \in Symbols
          PROVE  /\ symbols_by_name_'[s].file \in Live \cup {0}
                 /\ symbols_by_name_'[s].file = 0 => symbols_by_name_'[s] = NullSymbol
                 /\ \A m \in Number : extensions_'[s][m] \in Live \cup {0}
      BY <1>3, <1>4, <1>11 DEF Held
    <2>3. \A id \in Live : files_by_name_'[descriptors'[id].name] = id
      BY <1>3, <1>10, <1>16 DEF Held
    <2> QED BY <2>1, <2>2, <2>3, <1>16 DEF Held
  <1>22. References'
    <2>1. \A id, ref : Refers(id, ref)' <=> Refers(id, ref)
      BY <1>16 DEF Refers
    <2>2. Refers(F, r.file)
      BY <1>4, <1>5 DEF Refers
    <2>3. ASSUME NEW id \in Live
          PROVE  /\ \A i \in 1..Len(descriptors'[id].dependencies) :
                      descriptors'[id].dependencies[i] # 0 => Refers(id, descriptors'[id].dependencies[i])
                 /\ \A i \in 1..Len(descriptors'[id].links) : Refers(id, descriptors'[id].links[i])
      <3>1. id \in 1..Len(descriptors)
        BY <1>16
      <3>2. descriptors'[id].dependencies = descriptors[id].dependencies
        BY <3>1, <1>10
      <3>3. CASE id # F
        <4>1. descriptors'[id].links = descriptors[id].links
          BY <3>1, <3>3, <1>10
        <4> QED BY <3>2, <4>1, <1>3 DEF References
      <3>4. CASE id = F
        <4>1. \A i \in 1..Len(descriptors'[F].links) :
                \/ i \in 1..Len(descriptors[F].links) /\ descriptors'[F].links[i] = descriptors[F].links[i]
                \/ descriptors'[F].links[i] = r.file
          <5> DEFINE t == descriptors[F].links
                     v == r.file
          <5>1. t \in Seq(Nat) /\ descriptors'[F].links = Append(t, v)
            BY <1>10
          <5> HIDE DEF t, v
          <5>2. \A i \in 1..Len(Append(t, v)) : (i \in 1..Len(t) /\ Append(t, v)[i] = t[i]) \/ Append(t, v)[i] = v
            BY <5>1
          <5> QED BY <5>1, <5>2 DEF t, v
        <4>2. \A i \in 1..Len(descriptors[F].links) : Refers(F, descriptors[F].links[i])
          BY <1>3, <1>4 DEF References
        <4>3. \A i \in 1..Len(descriptors'[F].links) : Refers(F, descriptors'[F].links[i])
          BY <4>1, <4>2, <2>2
        <4>4. \A i \in 1..Len(descriptors[F].dependencies) :
                descriptors[F].dependencies[i] # 0 => Refers(F, descriptors[F].dependencies[i])
          BY <1>3, <1>4 DEF References
        <4> QED BY <3>2, <3>4, <4>3, <4>4
      <3> QED BY <3>3, <3>4
    <2> QED BY <2>1, <2>3, <1>16 DEF References
  <1>23. Logged'
    <2>1. Marks' = Marks /\ Starts' = Starts
      BY <1>16 DEF Marks, Starts
    <2>2. SymbolFiles' = SymbolFiles
      BY DEF SymbolFiles
    <2>3. CASE ~free
      <3>1. after_checkpoint_' = after_checkpoint_ /\ extensions_' = extensions_
        BY <2>3, <1>12
      <3>2. ExtensionFiles' = ExtensionFiles
        BY <3>1 DEF ExtensionFiles
      <3>3. FileLog' = FileLog /\ SymbolLog' = SymbolLog /\ ExtensionLog' = ExtensionLog
        BY <3>1 DEF FileLog, SymbolLog, ExtensionLog
      <3> QED BY <2>1, <2>2, <3>1, <3>2, <3>3, <1>3 DEF Logged, LogOf, Tracks
    <2>4. CASE free
      <3>1. /\ Len(after_checkpoint_') = L + 1
            /\ \A i \in 1..L : FileLog'[i] = FileLog[i] /\ SymbolLog'[i] = SymbolLog[i]
                                /\ ExtensionLog'[i] = ExtensionLog[i]
            /\ FileLog'[L + 1] = {} /\ SymbolLog'[L + 1] = {} /\ ExtensionLog'[L + 1] = A
        BY <2>4, <1>4, <1>14 DEF FileLog, SymbolLog, ExtensionLog
      <3>2. Marked(L, K, Marks, Starts, F)
        <4>1. checkpoints_ # <<>> /\ 1 \in 1..K
          BY <1>3, <1>4 DEF Types
        <4>2. checkpoints_[1].pending = 0 /\ \A k \in 1..K : checkpoints_[k].pending <= L
          BY <4>1, <1>3 DEF Nested
        <4> QED BY <4>1, <4>2, <1>3, <1>4, StartFacts DEF Marked
      <3>3. /\ Extended(FileLog, FileLog', L, {}) /\ Extended(SymbolLog, SymbolLog', L, {})
            /\ Extended(ExtensionLog, ExtensionLog', L, A)
        BY <3>1 DEF Extended
      <3>4. Tracks(files_by_name_, FileLog', L + 1, Marks, Starts, K)
        <4>1. Tracks(files_by_name_, FileLog, L, Marks, Starts, K)
          BY <1>3 DEF Logged, LogOf
        <4>2. Enters(files_by_name_, files_by_name_, {}, F)
          BY <1>3 DEF Types, Enters
        <4> QED BY <4>1, <4>2, <3>2, <3>3, TrackAppend
      <3>5. Tracks(SymbolFiles, SymbolLog', L + 1, Marks, Starts, K)
        <4>1. Tracks(SymbolFiles, SymbolLog, L, Marks, Starts, K)
          BY <1>3 DEF Logged, LogOf
        <4>2. Enters(SymbolFiles, SymbolFiles, {}, F)
          BY <1>3 DEF Types, SymbolEntry, SymbolFiles, Enters
        <4> QED BY <4>1, <4>2, <3>2, <3>3, TrackAppend
      <3>6. Tracks(ExtensionFiles', ExtensionLog', L + 1, Marks, Starts, K)
        <4>1. Tracks(ExtensionFiles, ExtensionLog, L, Marks, Starts, K)
          BY <1>3 DEF Logged, LogOf
        <4>2. Enters(ExtensionFiles, ExtensionFiles', A, F)
          BY <1>3, <1>11 DEF Types, ExtensionFiles, Enters
        <4> QED BY <4>1, <4>2, <3>2, <3>3, TrackAppend
      <3> QED BY <2>1, <2>2, <3>1, <3>4, <3>5, <3>6 DEF Logged, LogOf
    <2> QED BY <2>3, <2>4
  <1> QED BY <1>15, <1>17, <1>18, <1>19, <1>20, <1>21, <1>22, <1>23 DEF DInv

LEMMA ResolveStep ==
  ASSUME DInv, Resolve
  PROVE  DInv'
  <1> DEFINE r == FindSymbol
             s == UseNow.scopes[Top.scope]
             last == LastScope \/ Top.rest
             further == IF last THEN FALSE
                        ELSE IF r = NullSymbol THEN TRUE
                        ELSE IF s.first # s.full THEN r.type = "field"
                        ELSE UseNow.types_only /\ r.type # "message"
             into == ~last /\ ~further /\ s.first # s.full
  <1>1. Linking /\ UNCHANGED <<database, allocations_, files_by_name_, symbols_by_name_, checkpoints_,
                               pending_files_, request, handed>>
    BY DEF Resolve, history
  <1>2. /\ Top \in Builder /\ Top.stage = "link" /\ Top.next \in Nat \ {0}
        /\ Top.scope \in 1..Len(UseNow.scopes) /\ UseNow.scopes \in Seq(Scope)
    BY <1>1, LinkingFacts
  <1>3. CASE further \/ into
    <2> DEFINE b == IF into THEN [Top EXCEPT !.rest = TRUE] ELSE [Top EXCEPT !.scope = @ + 1]
    <2>1. builders' = WithTop(b) /\ UNCHANGED tables
      BY <1>1, <1>3 DEF Resolve, tables
    <2>2. ScopeFits(Top)
      BY <1>1, LinkingFacts DEF DInv, Working
    <2>3. CASE into
      <3>1. b = [Top EXCEPT !.rest = TRUE]
        BY <2>3
      <3> HIDE DEF b
      <3>2. b \in Builder /\ SameTask(Top, b) /\ ScopeFits(b)
        BY <3>1, <1>2, <2>2 DEF Builder, SameTask, ScopeFits, ProtoOf
      <3> QED BY <3>2, <2>1, <1>1, ScopeMoves
    <2>4. CASE ~into
      <3>1. b = [Top EXCEPT !.scope = @ + 1] /\ ~LastScope
        BY <2>4, <1>3
      <3> HIDE DEF b
      <3>2. b \in Builder /\ SameTask(Top, b)
        BY <3>1, <1>2 DEF Builder, SameTask
      <3>3. ScopeFits(b)
        <4>1. b.stage = "link" /\ b.scope = Top.scope + 1 /\ b.next = Top.next /\ ProtoOf(b) = ProtoOf(Top)
          BY <3>1, <1>2 DEF Builder, ProtoOf
        <4>2. Top.scope + 1 <= Len(UseNow.scopes)
          BY <3>1, <1>2 DEF LastScope
        <4> QED BY <4>1, <4>2 DEF ScopeFits, UseNow
      <3> QED BY <3>2, <3>3, <2>1, <1>1, ScopeMoves
    <2> QED BY <2>3, <2>4
  <1>4. CASE ~(further \/ into)
    <2>1. LinkTo(r)
      BY <1>4 DEF Resolve
    <2>2. r = NullSymbol \/ r = symbols_by_name_[Sought]
      BY DEF FindSymbol
    <2>3. CASE r.type = "message"
      <3>1. r = symbols_by_name_[Sought]
        BY <2>2, <2>3 DEF NullSymbol
      <3> HIDE DEF r
      <3> QED BY <3>1, <2>1, <2>3, <1>1, LinkMessage
    <2>4. CASE r.type # "message"
      <3> HIDE DEF r
      <3> QED BY <2>1, <2>4, <1>1, LinkNothing
    <2> QED BY <2>3, <2>4
  <1> QED BY <1>3, <1>4

-----------------------------------------------------------------------------
\* A builder is through with its file.

LEMMA FinishFacts ==
  ASSUME DInv, Finish
  PROVE  /\ At("link") /\ builders # <<>> /\ Len(builders) \in 1..Len(builders)
         /\ Top = builders[Len(builders)] /\ Top.stage = "link"
         /\ builders' \in Seq(Builder) /\ Len(builders') = Len(builders) - 1
         /\ \A i \in 1..Len(builders') : i \in 1..Len(builders) /\ i < Len(builders) /\ builders'[i] = builders[i]
         /\ \A i \in 1..Len(builders) : i < Len(builders) => i \in 1..Len(builders')
         /\ checkpoints_' \in Seq(Checkpoint) /\ Len(checkpoints_') = Len(checkpoints_) - 1
         /\ Len(checkpoints_) \in 1..Len(checkpoints_)
         /\ \A k \in 1..Len(checkpoints_') :
              k \in 1..Len(checkpoints_) /\ k < Len(checkpoints_) /\ checkpoints_'[k] = checkpoints_[k]
         /\ \A k \in 1..Len(checkpoints_) : k < Len(checkpoints_) => k \in 1..Len(checkpoints_')
         /\ UNCHANGED <<database, descriptors, pending_files_, request, handed>>
  <1>1. /\ At("link") /\ builders # <<>> /\ Len(builders) \in 1..Len(builders)
        /\ Top = builders[Len(builders)] /\ Top.stage = "link"
    BY BuilderTypes DEF Finish, At, Top, DInv
  <1>2. builders' = SubSeq(builders, 1, Len(builders) - 1)
    BY DEF Finish, Return
  <1>3. checkpoints_' = SubSeq(checkpoints_, 1, Len(checkpoints_) - 1)
    BY DEF Finish, RollbackToLastCheckpoint, ClearLastCheckpoint
  <1>4. UNCHANGED <<database, descriptors, pending_files_, request, handed>>
    BY DEF Finish, RollbackToLastCheckpoint, ClearLastCheckpoint, history
  <1>5. Len(checkpoints_) \in 1..Len(checkpoints_) /\ Len(checkpoints_) \in Nat /\ checkpoints_ \in Seq(Checkpoint)
    BY <1>1, TopIsLast, StartFacts DEF DInv, Types
  <1>6. /\ checkpoints_' \in Seq(Checkpoint) /\ Len(checkpoints_') = Len(checkpoints_) - 1
        /\ \A k \in 1..(Len(checkpoints_) - 1) : checkpoints_'[k] = checkpoints_[k]
    <2>1. Len(checkpoints_) - 1 \in Nat /\ Len(checkpoints_) - 1 <= Len(checkpoints_)
      BY <1>5
    <2> QED BY <2>1, <1>3, <1>5, Prefix
  <1>7. /\ builders' \in Seq(Builder) /\ Len(builders') = Len(builders) - 1
        /\ \A i \in 1..Len(builders') : i \in 1..Len(builders) /\ i < Len(builders) /\ builders'[i] = builders[i]
        /\ \A i \in 1..Len(builders) : i < Len(builders) => i \in 1..Len(builders')
    BY <1>1, <1>2, PopFacts DEF DInv
  <1>8. /\ \A k \in 1..Len(checkpoints_') :
             k \in 1..Len(checkpoints_) /\ k < Len(checkpoints_) /\ checkpoints_'[k] = checkpoints_[k]
        /\ \A k \in 1..Len(checkpoints_) : k < Len(checkpoints_) => k \in 1..Len(checkpoints_')
    BY <1>5, <1>6
  <1> QED BY <1>1, <1>4, <1>5, <1>6, <1>7, <1>8

\* The builders and checkpoints that are left still belong together.
LEMMA FinishStack ==
  ASSUME DInv, Finish, \A k \in 1..Len(checkpoints_') : Start(k)' = Start(k)
  PROVE  Stacked' /\ Imported'
  <1> DEFINE n == Len(builders)
             m == Len(builders')
             K == Len(checkpoints_)
             C == Len(checkpoints_')
  <1>1. /\ n \in 1..n /\ Top = builders[n] /\ Top.stage = "link" /\ K \in 1..K
        /\ \A i \in 1..m : i \in 1..n /\ i < n /\ builders'[i] = builders[i]
        /\ \A i \in 1..n : i < n => i \in 1..m
        /\ \A k \in 1..C : k \in 1..K /\ k < K
        /\ \A k \in 1..K : k < K => k \in 1..C
        /\ pending_files_' = pending_files_
    BY FinishFacts
  <1>2. Top.file_ = Start(K) /\ Stacked /\ Imported
    BY FinishFacts, TopIsLast DEF DInv
  <1>3. \A k \in 1..K : Start(k) \in Nat /\ (k < K => Start(k) < Start(K))
    BY <1>1, StartFacts DEF DInv
  <1>4. Stacked'
    <2>1. ASSUME NEW i \in 1..m, builders'[i].stage = "link"
          PROVE  \E k \in 1..C : builders'[i].file_ = Start(k)
      <3>1. i \in 1..n /\ i < n /\ builders[i].stage = "link" /\ builders'[i] = builders[i]
        BY <2>1, <1>1
      <3>2. PICK k \in 1..K : builders[i].file_ = Start(k)
        BY <3>1, <1>2 DEF Stacked
      <3>3. builders[i].file_ < Start(K)
        BY <3>1, <1>1, <1>2 DEF Stacked
      <3>4. k # K
        BY <3>2, <3>3, <1>1, <1>3
      <3>5. k \in 1..C
        BY <3>4, <1>1
      <3> QED BY <3>1, <3>2, <3>5
    <2>2. ASSUME NEW k \in 1..C
          PROVE  \E i \in 1..m : builders'[i].stage = "link" /\ builders'[i].file_ = Start(k)
      <3>1. k \in 1..K /\ k < K
        BY <1>1
      <3>2. PICK i \in 1..n : builders[i].stage = "link" /\ builders[i].file_ = Start(k)
        BY <3>1, <1>2 DEF Stacked
      <3>3. i # n
        BY <3>1, <3>2, <1>1, <1>2, <1>3
      <3>4. i < n
        BY <3>3, <1>1
      <3> QED BY <3>2, <3>4, <1>1
    <2>3. \A i, j \in 1..m : i < j /\ builders'[i].stage = "link" /\ builders'[j].stage = "link"
             => builders'[i].file_ < builders'[j].file_
      BY <1>1, <1>2 DEF Stacked
    <2> QED BY <2>1, <2>2, <2>3 DEF Stacked
  <1>5. Imported'
    <2>1. ASSUME NEW j \in 1..Len(pending_files_)
          PROVE  \E i \in 1..m : builders'[i].stage = "import" /\ builders'[i].filename_ = pending_files_[j]
      <3>1. PICK i \in 1..n : builders[i].stage = "import" /\ builders[i].filename_ = pending_files_[j]
        BY <1>2 DEF Imported
      <3>2. i < n
        BY <3>1, <1>1
      <3> QED BY <3>1, <3>2, <1>1
    <2>2. ASSUME NEW i \in 1..m, builders'[i].stage = "import"
          PROVE  \E j \in 1..Len(pending_files_) : builders'[i].filename_ = pending_files_[j]
      <3>1. i \in 1..n /\ builders[i].stage = "import" /\ builders'[i] = builders[i]
        BY <2>2, <1>1
      <3>2. \E j \in 1..Len(pending_files_) : builders[i].filename_ = pending_files_[j]
        BY <3>1, <1>2 DEF Imported
      <3> QED BY <3>1, <3>2
    <2>3. ASSUME NEW h \in 1..m, NEW i \in 1..m, h < i, builders'[h].stage = "import",
                 builders'[i].stage = "import",
                 NEW j \in 1..Len(pending_files_), NEW k \in 1..Len(pending_files_),
                 builders'[h].filename_ = pending_files_[j], builders'[i].filename_ = pending_files_[k]
          PROVE  j < k
      <3>1. /\ h \in 1..n /\ i \in 1..n /\ builders'[h] = builders[h] /\ builders'[i] = builders[i]
        BY <1>1
      <3> QED BY <3>1, <2>3, <1>2 DEF Imported, PendingInTurn
    <2> QED BY <2>1, <2>2, <2>3, <1>1, <1>2 DEF Imported, PendingInTurn
  <1> QED BY <1>4, <1>5

\* A file without errors stays, under the checkpoint before, if there is one.
LEMMA FinishGood ==
  ASSUME DInv, Finish, ~Top.had_errors_
  PROVE  DInv'
  <1> DEFINE n == Len(builders)
             m == Len(builders')
             K == Len(checkpoints_)
             C == Len(checkpoints_')
  <1>1. /\ n \in 1..n /\ Top = builders[n] /\ Top.stage = "link" /\ K \in 1..K /\ C = K - 1 /\ K \in Nat \ {0}
        /\ builders' \in Seq(Builder) /\ checkpoints_' \in Seq(Checkpoint)
        /\ \A i \in 1..m : i \in 1..n /\ i < n /\ builders'[i] = builders[i]
        /\ \A i \in 1..n : i < n => i \in 1..m
        /\ \A k \in 1..C : k \in 1..K /\ k < K /\ checkpoints_'[k] = checkpoints_[k]
        /\ UNCHANGED <<database, descriptors, pending_files_, request, handed>>
    <2>1. K \in Nat
      BY StartFacts DEF DInv
    <2> QED BY <2>1, FinishFacts
  <1>2. /\ UNCHANGED <<allocations_, files_by_name_, symbols_by_name_, extensions_>>
        /\ after_checkpoint_' = IF checkpoints_' = <<>> THEN <<>> ELSE after_checkpoint_
    BY DEF Finish, ClearLastCheckpoint
  <1>3. Types /\ Ascending /\ Nested /\ Stacked /\ Imported /\ Working /\ Held /\ Logged /\ References
        /\ Wholes /\ HandedOut
    BY DEF DInv
  <1>4. Live' = Live /\ \A k \in 1..C : Start(k)' = Start(k)
    BY <1>1, <1>2 DEF Live, Start
  <1>5. Stacked' /\ Imported'
    BY <1>4, FinishStack
  <1>6. Types'
    <2>1. /\ database' \in Databases /\ descriptors' \in Seq(Descriptor) /\ allocations_' \in Seq(Nat)
          /\ files_by_name_' \in [Files -> Nat]
          /\ symbols_by_name_' \in [Symbols -> SymbolEntry] /\ extensions_' \in [Symbols -> [Number -> Nat]]
          /\ pending_files_' \in Seq(Files) /\ request' \in Request \cup {NoRequest}
          /\ after_checkpoint_ \in Seq(LogEntry)
      BY <1>1, <1>2, <1>3 DEF Types
    <2>2. after_checkpoint_' \in Seq(LogEntry)
      BY <2>1, <1>2
    <2> QED BY <2>1, <2>2, <1>1 DEF Types
  <1>7. Ascending'
    BY <1>1, <1>2, <1>3 DEF Ascending
  <1>8. Nested'
    <2>1. CASE checkpoints_' = <<>>
      <3>1. after_checkpoint_' = <<>> /\ Len(checkpoints_') = 0
        BY <2>1, <1>2
      <3> QED BY <2>1, <3>1 DEF Nested
    <2>2. CASE checkpoints_' # <<>>
      <3>1. /\ after_checkpoint_' = after_checkpoint_ /\ C > 0 /\ 1 \in 1..C /\ checkpoints_'[1] = checkpoints_[1]
            /\ checkpoints_ # <<>>
        BY <2>2, <1>1, <1>2
      <3> QED BY <2>2, <3>1, <1>1, <1>2, <1>3 DEF Nested
    <2> QED BY <2>1, <2>2
  <1>9. Held'
    BY <1>1, <1>2, <1>3, <1>4 DEF Held
  <1>10. Working'
    <2>1. \A b : ScopeFits(b)' <=> ScopeFits(b)
      BY <1>1 DEF ScopeFits, ProtoOf
    <2> QED BY <2>1, <1>1, <1>2, <1>3 DEF Working
  <1>11. References' /\ HandedOut'
    <2>1. \A id, ref : Refers(id, ref) => Refers(id, ref)'
      BY <1>1, <1>4 DEF Refers
    <2>2. References'
      BY <2>1, <1>1, <1>3, <1>4 DEF References
    <2>3. HandedOut'
      BY <1>1, <1>3, <1>4 DEF HandedOut
    <2> QED BY <2>2, <2>3
  <1>12. Wholes'
    <2>1. \A id : Whole(id)' <=> Whole(id)
      BY <1>1, <1>2 DEF Whole
    <2>2. ASSUME NEW id \in Live, NEW i \in 1..n,
                 builders[i].stage = "link" /\ builders[i].file_ = id /\ builders[i].had_errors_
          PROVE  i \in 1..m /\ builders'[i] = builders[i]
      <3>1. i # n
        BY <2>2, <1>1
      <3> QED BY <3>1, <1>1
    <2> QED BY <2>1, <2>2, <1>3, <1>4 DEF Wholes
  <1>13. Logged'
    <2>1. Shorter(Marks, Marks', K - 1) /\ Shorter(Starts, Starts', K - 1)
      BY <1>1, <1>4 DEF Shorter, Marks, Starts
    <2>2. SymbolFiles' = SymbolFiles /\ ExtensionFiles' = ExtensionFiles
      BY <1>2 DEF SymbolFiles, ExtensionFiles
    <2>3. CASE checkpoints_' = <<>>
      <3>1. Len(after_checkpoint_') = 0 /\ C = 0
        BY <2>3, <1>2
      <3> QED BY <3>1 DEF Logged, LogOf, Tracks
    <2>4. CASE checkpoints_' # <<>>
      <3>1. after_checkpoint_' = after_checkpoint_
        BY <2>4, <1>2
      <3>2. FileLog' = FileLog /\ SymbolLog' = SymbolLog /\ ExtensionLog' = ExtensionLog
        BY <3>1 DEF FileLog, SymbolLog, ExtensionLog
      <3>3. Tracks(files_by_name_, FileLog, Len(after_checkpoint_), Marks', Starts', K - 1)
        BY <2>1, <1>1, <1>3, TrackClear DEF Logged, LogOf
      <3>4. Tracks(SymbolFiles, SymbolLog, Len(after_checkpoint_), Marks', Starts', K - 1)
        BY <2>1, <1>1, <1>3, TrackClear DEF Logged, LogOf
      <3>5. Tracks(ExtensionFiles, ExtensionLog, Len(after_checkpoint_), Marks', Starts', K - 1)
        BY <2>1, <1>1, <1>3, TrackClear DEF Logged, LogOf
      <3> QED BY <3>1, <3>2, <3>3, <3>4, <3>5, <2>2, <1>1, <1>2 DEF Logged, LogOf
    <2> QED BY <2>3, <2>4
  <1> QED BY <1>5, <1>6, <1>7, <1>8, <1>9, <1>10, <1>11, <1>12, <1>13 DEF DInv

\* What a file with errors, and those built under its checkpoint, have put
\* into the tables is taken out again.
LEMMA RolledBack ==
  ASSUME DInv, Finish, Top.had_errors_
  PROVE  /\ Live' = {id \in Live : id < Top.file_}
         /\ allocations_' \in Seq(Nat) /\ Ascending'
         /\ Len(allocations_') = checkpoints_[Len(checkpoints_)].allocations
         /\ \A k \in 1..Len(checkpoints_') : Start(k)' = Start(k)
  <1> DEFINE K == Len(checkpoints_)
             m == checkpoints_[K].allocations
             F == Top.file_
  <1>1. /\ K \in 1..K /\ F = Start(K) /\ m \in Nat /\ m < Len(allocations_) /\ Len(allocations_) \in Nat
        /\ allocations_ \in Seq(Nat) /\ F = allocations_[m + 1] /\ F \in Nat
    <2>1. K \in 1..K /\ F = Start(K) /\ Start(K) \in 1..Len(descriptors)
      BY FinishFacts, TopIsLast, StartFacts DEF DInv
    <2>2. m \in Nat /\ m < Len(allocations_) /\ Len(allocations_) \in Nat /\ allocations_ \in Seq(Nat)
      BY <2>1, StartFacts DEF DInv, Nested, Types
    <2> QED BY <2>1, <2>2 DEF Start
  <1>2. allocations_' = SubSeq(allocations_, 1, m)
    BY DEF Finish, RollbackToLastCheckpoint
  <1>3. /\ allocations_' \in Seq(Nat) /\ Len(allocations_') = m
        /\ \A i \in 1..m : allocations_'[i] = allocations_[i] /\ i \in 1..Len(allocations_)
    <2>1. m <= Len(allocations_) /\ \A i \in 1..m : i \in 1..Len(allocations_)
      BY <1>1
    <2>2. /\ allocations_' \in Seq(Nat) /\ Len(allocations_') = m
          /\ \A i \in 1..m : allocations_'[i] = allocations_[i]
      <3> HIDE DEF m
      <3> QED BY <2>1, <1>1, <1>2, Prefix
    <2> QED BY <2>1, <2>2
  <1>4. \A i, j \in 1..Len(allocations_) : i < j => allocations_[i] < allocations_[j]
    BY DEF DInv, Ascending
  <1>5. m + 1 \in 1..Len(allocations_)
    BY <1>1
  <1>6. Ascending'
    <2>1. descriptors' = descriptors
      BY FinishFacts
    <2> QED BY <2>1, <1>3 DEF DInv, Ascending
  <1>7. Live' = {id \in Live : id < F}
    <2>1. Live = {allocations_[i] : i \in 1..Len(allocations_)}
      BY LiveFacts DEF DInv
    <2>2. Live' = {allocations_'[i] : i \in 1..m}
      <3>1. DOMAIN allocations_' = 1..m
        BY <1>3
      <3> QED BY <3>1 DEF Live
    <2>3. ASSUME NEW i \in 1..m PROVE allocations_'[i] \in Live /\ allocations_'[i] < F
      <3>1. i \in 1..Len(allocations_) /\ allocations_'[i] = allocations_[i]
        BY <1>3
      <3>2. i < m + 1
        BY <1>1
      <3>3. allocations_[i] < allocations_[m + 1]
        BY <3>1, <3>2, <1>4, <1>5
      <3> QED BY <3>1, <3>3, <2>1, <1>1
    <2>4. ASSUME NEW i \in 1..Len(allocations_), allocations_[i] < F PROVE i \in 1..m
      <3>1. ~ (m + 1 < i)
        <4>1. SUFFICES ASSUME m + 1 < i PROVE FALSE
          OBVIOUS
        <4>2. allocations_[m + 1] < allocations_[i]
          BY <4>1, <1>4, <1>5
        <4>3. allocations_[i] \in Nat
          BY <1>1
        <4> QED BY <4>2, <4>3, <2>4, <1>1
      <3>2. i # m + 1
        BY <2>4, <1>1
      <3> QED BY <3>1, <3>2, <1>1
    <2>5. ASSUME NEW id \in Live, id < F PROVE id \in Live'
      <3>1. PICK i \in 1..Len(allocations_) : id = allocations_[i]
        BY <2>1
      <3>2. i \in 1..m
        BY <3>1, <2>4, <2>5
      <3> QED BY <3>1, <3>2, <2>2, <1>3
    <2> QED BY <2>2, <2>3, <2>5
  <1>8. ASSUME NEW k \in 1..Len(checkpoints_') PROVE Start(k)' = Start(k)
    <2>1. k \in 1..K /\ k < K /\ checkpoints_'[k] = checkpoints_[k]
      BY FinishFacts
    <2>2. checkpoints_[k].allocations < m /\ checkpoints_[k].allocations \in Nat
      BY <2>1, <1>1, StartFacts DEF DInv, Nested
    <2>3. checkpoints_[k].allocations + 1 \in 1..m
      BY <2>2, <1>1
    <2> QED BY <2>1, <2>3, <1>3 DEF Start
  <1> QED BY <1>3, <1>6, <1>7, <1>8

LEMMA RolledBackTables ==
  ASSUME DInv, Finish, Top.had_errors_
  PROVE  LET K == Len(checkpoints_)
             m == Marks[K]
             L == Len(after_checkpoint_)
         IN /\ Placed(L, K, Marks, Starts)
            /\ after_checkpoint_' \in Seq(LogEntry) /\ Len(after_checkpoint_') = m
            /\ Shorter(FileLog, FileLog', m) /\ Shorter(SymbolLog, SymbolLog', m)
            /\ Shorter(ExtensionLog, ExtensionLog', m)
            /\ files_by_name_' \in [Files -> Nat] /\ symbols_by_name_' \in [Symbols -> SymbolEntry]
            /\ extensions_' \in [Symbols -> [Number -> Nat]]
            /\ Undone(files_by_name_, files_by_name_', FileLog, m, L)
            /\ Undone(SymbolFiles, SymbolFiles', SymbolLog, m, L)
            /\ Undone(ExtensionFiles, ExtensionFiles', ExtensionLog, m, L)
            /\ \A f \in Files :
                 files_by_name_'[f] = IF files_by_name_[f] >= Top.file_ THEN 0 ELSE files_by_name_[f]
            /\ \A s \in Symbols :
                 symbols_by_name_'[s] = IF symbols_by_name_[s].file >= Top.file_ THEN NullSymbol
                                        ELSE symbols_by_name_[s]
            /\ \A s \in Symbols, i \in Number :
                 extensions_'[s][i] = IF extensions_[s][i] >= Top.file_ THEN 0 ELSE extensions_[s][i]
  <1> DEFINE K == Len(checkpoints_)
             m == Marks[K]
             L == Len(after_checkpoint_)
             undone == {after_checkpoint_[i] : i \in (m + 1)..L}
  <1>1. /\ K \in 1..K /\ K \in Nat \ {0} /\ L \in Nat /\ m = checkpoints_[K].pending /\ m \in Nat /\ m <= L
        /\ Top.file_ = Starts[K]
    <2>1. K \in 1..K /\ Top.file_ = Start(K) /\ K \in Nat /\ L \in Nat
      BY FinishFacts, TopIsLast, StartFacts DEF DInv
    <2>2. m = checkpoints_[K].pending /\ m \in Nat /\ m <= L
      BY <2>1, StartFacts DEF DInv, Nested
    <2> QED BY <2>1, <2>2, StartFacts DEF DInv
  <1>2. Placed(L, K, Marks, Starts)
    <2>1. Marks \in [1..K -> Nat] /\ Starts \in [1..K -> Nat] /\ \A k \in 1..K : Starts[k] > 0
      BY StartFacts DEF DInv
    <2>2. ASSUME NEW k \in 1..K PROVE Marks[k] <= Marks[K]
      <3>1. CASE k = K
        BY <3>1, <1>1
      <3>2. CASE k # K
        <4>1. k < K /\ Marks[k] = checkpoints_[k].pending
          BY <3>2, <1>1, StartFacts DEF DInv
        <4> QED BY <4>1, <1>1 DEF DInv, Nested
      <3> QED BY <3>1, <3>2
    <2> QED BY <2>1, <2>2, <1>1 DEF Placed
  <1>3. after_checkpoint_ \in Seq(LogEntry) /\ after_checkpoint_' = SubSeq(after_checkpoint_, 1, m)
    BY <1>1 DEF DInv, Types, Finish, RollbackToLastCheckpoint
  <1>4. /\ after_checkpoint_' \in Seq(LogEntry) /\ Len(after_checkpoint_') = m
        /\ \A i \in 1..m : after_checkpoint_'[i] = after_checkpoint_[i]
    BY <1>1, <1>3, Prefix
  <1>5. /\ Shorter(FileLog, FileLog', m) /\ Shorter(SymbolLog, SymbolLog', m)
        /\ Shorter(ExtensionLog, ExtensionLog', m)
    BY <1>1, <1>4 DEF Shorter, FileLog, SymbolLog, ExtensionLog
  <1>6. /\ files_by_name_ \in [Files -> Nat] /\ symbols_by_name_ \in [Symbols -> SymbolEntry]
        /\ extensions_ \in [Symbols -> [Number -> Nat]]
    BY DEF DInv, Types
  <1>7. /\ files_by_name_' = [f \in Files |->
             IF \E u \in undone : f \in u.files THEN 0 ELSE files_by_name_[f]]
        /\ symbols_by_name_' = [s \in Symbols |->
             IF \E u \in undone : s \in u.symbols THEN NullSymbol ELSE symbols_by_name_[s]]
        /\ extensions_' = [s \in Symbols |-> [i \in DOMAIN extensions_[s] |->
             IF \E u \in undone : <<s, i>> \in u.extensions THEN 0 ELSE extensions_[s][i]]]
    BY <1>1 DEF Finish, RollbackToLastCheckpoint
  <1>8. /\ \A x : (\E u \in undone : x \in u.files) <=> (\E i \in (m + 1)..L : x \in FileLog[i])
        /\ \A x : (\E u \in undone : x \in u.symbols) <=> (\E i \in (m + 1)..L : x \in SymbolLog[i])
        /\ \A x : (\E u \in undone : x \in u.extensions) <=> (\E i \in (m + 1)..L : x \in ExtensionLog[i])
    <2>1. \A i \in (m + 1)..L : /\ i \in 1..L /\ FileLog[i] = after_checkpoint_[i].files
                                /\ SymbolLog[i] = after_checkpoint_[i].symbols
                                /\ ExtensionLog[i] = after_checkpoint_[i].extensions
      BY <1>1 DEF FileLog, SymbolLog, ExtensionLog
    <2> QED BY <2>1
  <1> HIDE DEF undone
  <1>9. files_by_name_' \in [Files -> Nat] /\ Undone(files_by_name_, files_by_name_', FileLog, m, L)
    BY <1>6, <1>7, <1>8 DEF Undone
  <1>10. /\ symbols_by_name_' \in [Symbols -> SymbolEntry]
         /\ \A s \in Symbols : symbols_by_name_'[s] =
              IF \E i \in (m + 1)..L : s \in SymbolLog[i] THEN NullSymbol ELSE symbols_by_name_[s]
    <2>1. NullSymbol \in SymbolEntry
      BY DEF NullSymbol, SymbolEntry
    <2> QED BY <2>1, <1>6, <1>7, <1>8
  <1>11. Undone(SymbolFiles, SymbolFiles', SymbolLog, m, L)
    <2>1. DOMAIN SymbolFiles = Symbols /\ DOMAIN SymbolFiles' = Symbols
      BY DEF SymbolFiles
    <2>2. ASSUME NEW s \in Symbols
          PROVE  /\ SymbolFiles[s] \in Nat
                 /\ SymbolFiles'[s] = IF \E i \in (m + 1)..L : s \in SymbolLog[i] THEN 0 ELSE SymbolFiles[s]
      <3>1. SymbolFiles[s] = symbols_by_name_[s].file /\ SymbolFiles'[s] = symbols_by_name_'[s].file
        BY DEF SymbolFiles
      <3>2. symbols_by_name_[s].file \in Nat /\ NullSymbol.file = 0
        BY <1>6 DEF SymbolEntry, NullSymbol
      <3> QED BY <3>1, <3>2, <1>10
    <2> QED BY <2>1, <2>2 DEF Undone
  <1>12. /\ extensions_' \in [Symbols -> [Number -> Nat]]
         /\ \A s \in Symbols, j \in Number : extensions_'[s][j] =
              IF \E i \in (m + 1)..L : <<s, j>> \in ExtensionLog[i] THEN 0 ELSE extensions_[s][j]
    <2>1. \A s \in Symbols : DOMAIN extensions_[s] = Number /\ \A j \in Number : extensions_[s][j] \in Nat
      BY <1>6
    <2> QED BY <2>1, <1>7, <1>8
  <1>13. Undone(ExtensionFiles, ExtensionFiles', ExtensionLog, m, L)
    <2>1. DOMAIN ExtensionFiles = Symbols \X Number /\ DOMAIN ExtensionFiles' = Symbols \X Number
      BY DEF ExtensionFiles
    <2>2. ASSUME NEW x \in Symbols \X Number
          PROVE  /\ ExtensionFiles[x] \in Nat
                 /\ ExtensionFiles'[x] = IF \E i \in (m + 1)..L : x \in ExtensionLog[i] THEN 0 ELSE ExtensionFiles[x]
      <3>1. PICK s \in Symbols, j \in Number : x = <<s, j>>
        OBVIOUS
      <3>2. ExtensionFiles[x] = extensions_[s][j] /\ ExtensionFiles'[x] = extensions_'[s][j]
        BY <3>1 DEF ExtensionFiles
      <3>3. extensions_[s][j] \in Nat
        BY <1>6
      <3>4. extensions_'[s][j] = IF \E i \in (m + 1)..L : <<s, j>> \in ExtensionLog[i] THEN 0 ELSE extensions_[s][j]
        BY <1>12
      <3> HIDE DEF m, L
      <3> QED BY <3>1, <3>2, <3>3, <3>4
    <2> QED BY <2>1, <2>2 DEF Undone
  <1>14. /\ Tracks(files_by_name_, FileLog, L, Marks, Starts, K)
         /\ Tracks(SymbolFiles, SymbolLog, L, Marks, Starts, K)
         /\ Tracks(ExtensionFiles, ExtensionLog, L, Marks, Starts, K)
    BY DEF DInv, Logged, LogOf
  <1>15. ASSUME NEW f \in Files
         PROVE  files_by_name_'[f] = IF files_by_name_[f] >= Top.file_ THEN 0 ELSE files_by_name_[f]
    <2>1. (\E i \in (m + 1)..L : f \in FileLog[i]) <=> files_by_name_[f] >= Top.file_
      BY <1>1, <1>6, <1>14 DEF Tracks
    <2> QED BY <2>1, <1>7, <1>8
  <1>16. ASSUME NEW s \in Symbols
         PROVE  symbols_by_name_'[s] = IF symbols_by_name_[s].file >= Top.file_ THEN NullSymbol
                                       ELSE symbols_by_name_[s]
    <2>1. (\E i \in (m + 1)..L : s \in SymbolLog[i]) <=> symbols_by_name_[s].file >= Top.file_
      <3>1. s \in DOMAIN SymbolFiles /\ SymbolFiles[s] = symbols_by_name_[s].file
        BY DEF SymbolFiles
      <3> QED BY <3>1, <1>1, <1>14 DEF Tracks
    <2> QED BY <2>1, <1>10
  <1>17. ASSUME NEW s \in Symbols, NEW j \in Number
         PROVE  extensions_'[s][j] = IF extensions_[s][j] >= Top.file_ THEN 0 ELSE extensions_[s][j]
    <2>1. (\E i \in (m + 1)..L : <<s, j>> \in ExtensionLog[i]) <=> extensions_[s][j] >= Top.file_
      <3>1. <<s, j>> \in DOMAIN ExtensionFiles /\ ExtensionFiles[<<s, j>>] = extensions_[s][j]
        BY DEF ExtensionFiles
      <3> QED BY <3>1, <1>1, <1>14 DEF Tracks
    <2> QED BY <2>1, <1>12
  <1> QED BY <1>2, <1>4, <1>5, <1>9, <1>10, <1>11, <1>12, <1>13, <1>15, <1>16, <1>17

LEMMA FinishBad ==
  ASSUME DInv, Finish, Top.had_errors_
  PROVE  DInv'
  <1> DEFINE n == Len(builders)
             m == Len(builders')
             K == Len(checkpoints_)
             C == Len(checkpoints_')
             F == Top.file_
  <1>1. /\ n \in 1..n /\ Top = builders[n] /\ Top.stage = "link" /\ K \in 1..K /\ C = K - 1 /\ K \in Nat \ {0}
        /\ builders' \in Seq(Builder) /\ checkpoints_' \in Seq(Checkpoint)
        /\ \A i \in 1..m : i \in 1..n /\ i < n /\ builders'[i] = builders[i]
        /\ \A i \in 1..n : i < n => i \in 1..m
        /\ \A k \in 1..C : k \in 1..K /\ k < K /\ checkpoints_'[k] = checkpoints_[k]
        /\ UNCHANGED <<database, descriptors, pending_files_, request, handed>>
    <2>1. K \in Nat
      BY StartFacts DEF DInv
    <2> QED BY <2>1, FinishFacts
  <1>2. Types /\ Ascending /\ Nested /\ Stacked /\ Imported /\ Working /\ Held /\ Logged /\ References
        /\ Wholes /\ HandedOut
    BY DEF DInv
  <1>3. /\ Live' = {id \in Live : id < F} /\ allocations_' \in Seq(Nat) /\ Ascending'
        /\ Len(allocations_') = checkpoints_[K].allocations
        /\ \A k \in 1..C : Start(k)' = Start(k)
    BY RolledBack
  <1>4. /\ Placed(Len(after_checkpoint_), K, Marks, Starts)
        /\ after_checkpoint_' \in Seq(LogEntry) /\ Len(after_checkpoint_') = Marks[K]
        /\ Shorter(FileLog, FileLog', Marks[K]) /\ Shorter(SymbolLog, SymbolLog', Marks[K])
        /\ Shorter(ExtensionLog, ExtensionLog', Marks[K])
        /\ files_by_name_' \in [Files -> Nat] /\ symbols_by_name_' \in [Symbols -> SymbolEntry]
        /\ extensions_' \in [Symbols -> [Number -> Nat]]
        /\ Undone(files_by_name_, files_by_name_', FileLog, Marks[K], Len(after_checkpoint_))
        /\ Undone(SymbolFiles, SymbolFiles', SymbolLog, Marks[K], Len(after_checkpoint_))
        /\ Undone(ExtensionFiles, ExtensionFiles', ExtensionLog, Marks[K], Len(after_checkpoint_))
    BY RolledBackTables
  <1>5. /\ \A f \in Files :
             files_by_name_'[f] = IF files_by_name_[f] >= F THEN 0 ELSE files_by_name_[f]
        /\ \A s \in Symbols :
             symbols_by_name_'[s] = IF symbols_by_name_[s].file >= F THEN NullSymbol ELSE symbols_by_name_[s]
        /\ \A s \in Symbols, i \in Number :
             extensions_'[s][i] = IF extensions_[s][i] >= F THEN 0 ELSE extensions_[s][i]
    BY RolledBackTables
  <1>6. /\ F = Start(K) /\ F \in Nat /\ F > 0 /\ \A k \in 1..K : Start(k) <= F /\ Start(k) \in Nat
        /\ Live \subseteq 1..Len(descriptors) /\ Live \subseteq Nat
        /\ \A k \in 1..K : Marks[k] = checkpoints_[k].pending /\ Starts[k] = Start(k)
        /\ \A k \in 1..K : checkpoints_[k].allocations \in Nat
    <2>1. Live \subseteq 1..Len(descriptors) /\ Live \subseteq Nat
      BY <1>2, LiveFacts
    <2>2. At("link")
      BY FinishFacts
    <2>3. F = Start(K) /\ \A k \in 1..K : Start(k) <= F
      BY <1>2, <2>2, TopIsLast
    <2>4. \A k \in 1..K : /\ Start(k) \in 1..Len(descriptors) /\ Marks[k] = checkpoints_[k].pending
                           /\ Starts[k] = Start(k) /\ checkpoints_[k].allocations \in Nat
      BY <1>2, StartFacts
    <2>5. F \in Nat /\ F > 0 /\ \A k \in 1..K : Start(k) \in Nat
      <3>1. \A k \in 1..K : Start(k) \in 1..Len(descriptors)
        BY <2>4
      <3>2. F \in 1..Len(descriptors)
        BY <1>2, <2>2, TopIsLast
      <3>3. \A v \in 1..Len(descriptors) : v \in Nat /\ v > 0
        OBVIOUS
      <3> HIDE DEF F, K
      <3> QED BY <3>1, <3>2, <3>3
    <2> HIDE DEF F, K
    <2> QED BY <2>1, <2>3, <2>4, <2>5
  <1>7. Types'
    <2>1. /\ database' \in Databases /\ descriptors' \in Seq(Descriptor)
          /\ pending_files_' \in Seq(Files) /\ request' \in Request \cup {NoRequest}
      BY <1>1, <1>2 DEF Types
    <2> QED BY <2>1, <1>1, <1>3, <1>4 DEF Types
  <1>8. Stacked' /\ Imported'
    BY <1>3, FinishStack
  <1>9. Nested'
    <2>1. \A k \in 1..C : /\ checkpoints_'[k].pending <= Marks[K]
                          /\ checkpoints_'[k].allocations < checkpoints_[K].allocations
      BY <1>1, <1>2, <1>6 DEF Nested
    <2>2. CASE C = 0
      <3>1. K = 1 /\ checkpoints_ # <<>>
        BY <2>2, <1>1
      <3>2. Marks[K] = 0
        BY <3>1, <1>1, <1>2, <1>6 DEF Nested
      <3>3. checkpoints_' = <<>> /\ after_checkpoint_' = <<>>
        BY <2>2, <3>2, <1>1, <1>4
      <3> QED BY <3>3, <2>2 DEF Nested
    <2>3. CASE C # 0
      <3>1. C \in Nat /\ 1 \in 1..C /\ checkpoints_'[1] = checkpoints_[1] /\ checkpoints_ # <<>> /\ checkpoints_' # <<>>
        BY <2>3, <1>1
      <3>2. checkpoints_'[1].pending = 0
        BY <3>1, <1>2 DEF Nested
      <3>3. \A j, k \in 1..C : j < k => /\ checkpoints_'[j].pending <= checkpoints_'[k].pending
                                        /\ checkpoints_'[j].allocations < checkpoints_'[k].allocations
        BY <1>1, <1>2 DEF Nested
      <3> QED BY <3>1, <3>2, <3>3, <2>1, <1>3, <1>4 DEF Nested
    <2> QED BY <2>2, <2>3
  <1>kept. \A v \in Live \cup {0} : (IF v >= F THEN 0 ELSE v) \in Live' \cup {0}
    <2>1. Live' = {id \in Live : id < F}
      BY <1>3
    <2> QED BY <2>1, <1>6
  <1>10. Held'
    <2>1. ASSUME NEW f \in Files PROVE files_by_name_'[f] \in Live' \cup {0}
      <3>1. files_by_name_[f] \in Live \cup {0}
        BY <1>2 DEF Held
      <3> QED BY <3>1, <1>kept, <1>5
    <2>2. ASSUME NEW s \in Symbols
          PROVE  /\ symbols_by_name_'[s].file \in Live' \cup {0}
                 /\ symbols_by_name_'[s].file = 0 => symbols_by_name_'[s] = NullSymbol
      <3>1. symbols_by_name_[s].file \in Live \cup {0} /\ (symbols_by_name_[s].file = 0 => symbols_by_name_[s] = NullSymbol)
        BY <1>2 DEF Held
      <3>2. NullSymbol.file = 0
        BY DEF NullSymbol
      <3>3. symbols_by_name_'[s] = IF symbols_by_name_[s].file >= F THEN NullSymbol ELSE symbols_by_name_[s]
        BY <1>5
      <3>4. symbols_by_name_'[s].file = IF symbols_by_name_[s].file >= F THEN 0 ELSE symbols_by_name_[s].file
        BY <3>2, <3>3
      <3> QED BY <3>1, <3>2, <3>3, <3>4, <1>kept
    <2>3. ASSUME NEW s \in Symbols, NEW i \in Number PROVE extensions_'[s][i] \in Live' \cup {0}
      <3>1. extensions_[s][i] \in Live \cup {0}
        BY <1>2 DEF Held
      <3> QED BY <3>1, <1>kept, <1>5
    <2>4. ASSUME NEW id \in Live' PROVE files_by_name_'[descriptors'[id].name] = id
      <3>1. id \in Live /\ id < F /\ id \in 1..Len(descriptors) /\ id \in Nat
        BY <1>3, <1>6
      <3>2. files_by_name_[descriptors[id].name] = id
        BY <3>1, <1>2 DEF Held
      <3>3. descriptors[id].name \in Files
        BY <3>1, <1>2, DescriptorTypes
      <3> QED BY <3>1, <3>2, <3>3, <1>1, <1>5, <1>6
    <2> QED BY <2>1, <2>2, <2>3, <2>4 DEF Held
  <1>11. Working'
    <2>1. \A b : ScopeFits(b)' <=> ScopeFits(b)
      BY <1>1 DEF ScopeFits, ProtoOf
    <2>2. ASSUME NEW i \in 1..m
          PROVE  /\ builders'[i].stage = "begin" => i = m
                 /\ builders'[i].stage # "link" => files_by_name_'[builders'[i].filename_] = 0
                 /\ ScopeFits(builders'[i])
      <3>1. i \in 1..n /\ i < n /\ builders'[i] = builders[i] /\ builders[i] \in Builder
        BY <1>1, <1>2, BuilderTypes
      <3>2. builders[i].filename_ \in Files
        BY <3>1 DEF Builder
      <3>3. builders[i].stage # "link" => files_by_name_[builders[i].filename_] = 0
        BY <3>1, <1>2 DEF Working
      <3>4. builders[i].stage # "link" => files_by_name_'[builders[i].filename_] = 0
        BY <3>2, <3>3, <1>5
      <3>5. builders[i].stage # "begin" /\ ScopeFits(builders[i])
        BY <3>1, <1>2 DEF Working
      <3> QED BY <3>1, <3>4, <3>5
    <2> QED BY <2>1, <2>2 DEF Working
  <1>12. ASSUME NEW id \in Live', NEW ref, Refers(id, ref) PROVE Refers(id, ref)'
    <2>1. id \in Live /\ id < F /\ id \in Nat /\ ref \in Live /\ ref \in Nat
      BY <1>3, <1>6, <1>12 DEF Refers
    <2>2. ref >= Start(K) => id >= Start(K)
      BY <1>1, <1>12 DEF Refers
    <2>3. ref < F
      BY <2>1, <2>2, <1>6
    <2>4. \A k \in 1..C : ref >= Start(k)' => id >= Start(k)'
      BY <1>1, <1>3, <1>12 DEF Refers
    <2> QED BY <2>1, <2>3, <2>4, <1>3 DEF Refers
  <1>13. References'
    <2>1. \A id \in Live' : id \in Live
      BY <1>3
    <2> QED BY <2>1, <1>1, <1>2, <1>12 DEF References
  <1>14. HandedOut'
    <2>1. ASSUME NEW id \in handed PROVE id \in Live' /\ \A k \in 1..C : id < Start(k)'
      <3>1. id \in Live /\ \A k \in 1..K : id < Start(k)
        BY <1>2 DEF HandedOut
      <3> QED BY <3>1, <1>1, <1>3, <1>6
    <2> QED BY <2>1, <1>1 DEF HandedOut
  <1>15. Wholes'
    <2>1. ASSUME NEW id \in Live', Whole(id) PROVE Whole(id)'
      <3>1. id \in Live /\ id < F /\ id \in Nat /\ id \in 1..Len(descriptors)
        BY <1>3, <1>6
      <3>2. descriptors[id].name \in Files
        BY <3>1, <1>2, DescriptorTypes
      <3>3. database.proto[descriptors[id].name].declares \subseteq Declaration
        BY <3>2, <1>2, ProtoTypes DEF Types
      <3>4. ASSUME NEW d \in database.proto[descriptors[id].name].declares
            PROVE  symbols_by_name_'[d.name] = [file |-> id, type |-> d.type]
        <4>1. symbols_by_name_[d.name] = [file |-> id, type |-> d.type]
          BY <2>1 DEF Whole
        <4>2. d.name \in Symbols /\ symbols_by_name_[d.name].file = id
          BY <3>3, <4>1 DEF Declaration
        <4>3. ~ (symbols_by_name_[d.name].file >= F)
          BY <4>2, <3>1, <1>6
        <4> QED BY <4>1, <4>2, <4>3, <1>5
      <3> QED BY <3>4, <2>1, <1>1 DEF Whole
    <2>2. ASSUME NEW id \in Live', ~Whole(id)
          PROVE  \E i \in 1..m : builders'[i].stage = "link" /\ builders'[i].file_ = id /\ builders'[i].had_errors_
      <3>1. id \in Live /\ id < F /\ id \in Nat
        BY <1>3, <1>6
      <3>2. PICK i \in 1..n : builders[i].stage = "link" /\ builders[i].file_ = id /\ builders[i].had_errors_
        BY <3>1, <2>2, <1>2 DEF Wholes
      <3>3. i # n
        BY <3>1, <3>2, <1>1, <1>6
      <3>4. i \in 1..m /\ builders'[i] = builders[i]
        BY <3>3, <1>1
      <3> QED BY <3>2, <3>4
    <2> QED BY <2>1, <2>2 DEF Wholes
  <1>16. Logged'
    <2>1. Shorter(Marks, Marks', K - 1) /\ Shorter(Starts, Starts', K - 1)
      BY <1>1, <1>3 DEF Shorter, Marks, Starts
    <2>2. /\ Tracks(files_by_name_, FileLog, Len(after_checkpoint_), Marks, Starts, K)
          /\ Tracks(SymbolFiles, SymbolLog, Len(after_checkpoint_), Marks, Starts, K)
          /\ Tracks(ExtensionFiles, ExtensionLog, Len(after_checkpoint_), Marks, Starts, K)
      BY <1>2 DEF Logged, LogOf
    <2>3. Tracks(files_by_name_', FileLog', Marks[K], Marks', Starts', K - 1)
      BY <2>1, <2>2, <1>4, TrackUndo
    <2>4. Tracks(SymbolFiles', SymbolLog', Marks[K], Marks', Starts', K - 1)
      BY <2>1, <2>2, <1>4, TrackUndo
    <2>5. Tracks(ExtensionFiles', ExtensionLog', Marks[K], Marks', Starts', K - 1)
      BY <2>1, <2>2, <1>4, TrackUndo
    <2> QED BY <2>3, <2>4, <2>5, <1>1, <1>4 DEF Logged, LogOf
  <1> QED BY <1>3, <1>7, <1>8, <1>9, <1>10, <1>11, <1>13, <1>14, <1>15, <1>16 DEF DInv

-----------------------------------------------------------------------------
\* A file is entered.

LEMMA PackagesAreNew ==
  ASSUME NEW p, NEW q \in PackagesAdded(p)
  PROVE  symbols_by_name_[q] = NullSymbol
  BY DEF PackagesAdded

LEMMA PackagesReached ==
  ASSUME NEW p \in Symbols
  PROVE  PackagesAdded(p) \subseteq Reach
  BY DEF PackagesAdded, Reach

LEMMA PublicTypes ==
  ASSUME Types, Ascending, NEW ids, ids \subseteq Live \cup {0}
  PROVE  RecordPublicDependencies(ids) \subseteq Nat
  <1>1. \A d \in ids \ {0} : d \in 1..Len(descriptors)
    BY LiveFacts
  <1>2. \A d \in 1..Len(descriptors) : descriptors[d].exports \subseteq Nat
    <2>1. \A d \in 1..Len(descriptors) : descriptors[d] \in Descriptor
      BY DEF Types
    <2> QED BY <2>1 DEF Descriptor
  <1> QED BY <1>1, <1>2 DEF RecordPublicDependencies

\* What Enter does, for the new file, the names it enters and what is known of
\* its errors.
NewNames(A, e) ==
    LET p == ProtoOf(Top)
        id == Len(descriptors) + 1
    IN /\ A \subseteq Reach
       /\ \A s \in A : symbols_by_name_[s] = NullSymbol
       /\ symbols_by_name_' \in [Symbols -> SymbolEntry]
       /\ \A s \in Symbols : IF s \in A THEN symbols_by_name_'[s].file = id
                             ELSE symbols_by_name_'[s] = symbols_by_name_[s]
       /\ after_checkpoint_' = Append(after_checkpoint_,
            [files |-> {Top.filename_}, symbols |-> A, extensions |-> {}])
       /\ ~e => \A d \in p.declares : symbols_by_name_'[d.name] = [file |-> id, type |-> d.type]

NewFile(new, b, e) ==
    LET p == ProtoOf(Top)
        id == Len(descriptors) + 1
    IN /\ new \in Descriptor /\ new.name = Top.filename_ /\ new.links = <<>>
       /\ \A i \in 1..Len(new.dependencies) : new.dependencies[i] \in Live \cup {0}
       /\ ~e => \A i \in 1..Len(new.dependencies) : new.dependencies[i] # 0
       /\ descriptors' = Append(descriptors, new)
       /\ b \in Builder /\ b.filename_ = Top.filename_ /\ b.stage = "link" /\ b.next = 1 /\ b.scope = 1
       /\ b.file_ = id /\ b.had_errors_ = e
       /\ builders' = WithTop(b)

LEMMA EnterFacts ==
  ASSUME DInv, Enter
  PROVE  \E A, new, b, e : NewNames(A, e) /\ NewFile(new, b, e)
  <1> DEFINE p == ProtoOf(Top)
             id == Len(descriptors) + 1
             packages == IF p.package = NoSymbol THEN {} ELSE PackagesAdded(p.package)
             added == {d \in p.declares : symbols_by_name_[d.name] = NullSymbol /\ d.name \notin packages}
             A == packages \cup {d.name : d \in added}
             imports == [i \in DOMAIN p.dependency |-> files_by_name_[p.dependency[i]]]
             ids == {imports[i] : i \in DOMAIN imports}
             twins == \E d, e \in p.declares : d # e /\ d.name = e.name
             errors == \/ added # p.declares \/ \E d, e \in p.declares : d # e /\ d.name = e.name
                       \/ 0 \in {imports[i] : i \in DOMAIN imports} \/ Twice(p.dependency)
                       \/ \E q \in Symbols : /\ q = p.package \/ (p.package # NoSymbol /\ q \in Ancestors[p.package])
                                             /\ symbols_by_name_[q].type \notin {"null", "package"}
             exports == {id} \cup RecordPublicDependencies({imports[i] : i \in p.public \cap DOMAIN imports})
             deps == RecordPublicDependencies({imports[i] : i \in DOMAIN imports})
             new == [name |-> Top.filename_, dependencies |-> imports, links |-> <<>>, exports |-> exports]
             b == [Top EXCEPT !.stage = "link", !.next = 1, !.file_ = id, !.had_errors_ = errors,
                              !.dependencies_ = deps]
  <1>1. Types /\ Ascending /\ Held /\ Working
    BY DEF DInv
  <1>2. /\ builders # <<>> /\ Top \in Builder /\ Top.stage = "import" /\ Top.filename_ \in Files
        /\ Top = builders[Len(builders)] /\ Len(builders) \in 1..Len(builders)
    <2>1. builders # <<>> /\ Top \in Builder /\ Top.stage = "import" /\ Len(builders) \in 1..Len(builders)
      BY <1>1, BuilderTypes DEF Enter, At
    <2> QED BY <2>1 DEF Builder, Top
  <1>3. p.dependency \in Seq(Files) /\ p.declares \subseteq Declaration /\ p.package \in Symbols \cup {NoSymbol}
    <2>1. database \in Databases /\ p = database.proto[Top.filename_]
      BY <1>1 DEF Types, ProtoOf
    <2>2. database.proto[Top.filename_] \in Proto \cup {NoProto}
      BY <2>1, <1>2, PoolAssumption
    <2>3. p.package \in Symbols \cup {NoSymbol}
      BY <2>1, <2>2 DEF Proto, NoProto
    <2> QED BY <2>1, <2>3, <1>2, ProtoTypes
  <1>4. id \in Nat /\ Len(descriptors) \in Nat
    BY <1>1 DEF Types
  <1>5. /\ descriptors' = Append(descriptors, new)
        /\ builders' = WithTop(b)
        /\ symbols_by_name_' = [s \in Symbols |->
             IF s \in packages THEN [file |-> id, type |-> "package"]
             ELSE IF \E d \in added : d.name = s
                  THEN [file |-> id, type |-> (CHOOSE d \in added : d.name = s).type]
                  ELSE symbols_by_name_[s]]
        /\ after_checkpoint_' = Append(after_checkpoint_,
             [files |-> {Top.filename_}, symbols |-> A, extensions |-> {}])
    BY DEF Enter
  <1>6. /\ \A s \in A : symbols_by_name_[s] = NullSymbol
        /\ A \subseteq Reach
    <2>1. \A s \in packages : symbols_by_name_[s] = NullSymbol /\ s \in Reach
      BY <1>3, PackagesAreNew, PackagesReached
    <2>2. \A d \in added : symbols_by_name_[d.name] = NullSymbol /\ d.name \in Reach
      BY <1>3 DEF Declaration, Reach
    <2> QED BY <2>1, <2>2
  <1>7. /\ symbols_by_name_' \in [Symbols -> SymbolEntry]
        /\ \A s \in Symbols : IF s \in A THEN symbols_by_name_'[s].file = id
                              ELSE symbols_by_name_'[s] = symbols_by_name_[s]
    <2>1. ASSUME NEW s \in Symbols
          PROVE  /\ symbols_by_name_'[s] \in SymbolEntry
                 /\ IF s \in A THEN symbols_by_name_'[s].file = id
                    ELSE symbols_by_name_'[s] = symbols_by_name_[s]
      <3>1. CASE s \in packages
        <4>1. symbols_by_name_'[s] = [file |-> id, type |-> "package"] /\ s \in A
          BY <3>1, <1>5
        <4> HIDE DEF A, packages
        <4> QED BY <4>1, <1>4 DEF SymbolEntry
      <3>2. CASE s \notin packages /\ \E d \in added : d.name = s
        <4> DEFINE c == CHOOSE d \in added : d.name = s
        <4>1. c \in added /\ c.name = s
          BY <3>2
        <4>2. symbols_by_name_'[s] = [file |-> id, type |-> c.type] /\ s \in A
          BY <3>2, <1>5
        <4>3. c.type \in {"message", "field"}
          BY <4>1, <1>3 DEF Declaration
        <4> HIDE DEF A, packages, added, c
        <4> QED BY <4>2, <4>3, <1>4 DEF SymbolEntry
      <3>3. CASE s \notin packages /\ ~ (\E d \in added : d.name = s)
        <4>1. symbols_by_name_'[s] = symbols_by_name_[s] /\ s \notin A
          BY <3>3, <1>5
        <4> HIDE DEF A, packages, added
        <4> QED BY <4>1, <1>1 DEF Types
      <3> QED BY <3>1, <3>2, <3>3
    <2>2. symbols_by_name_' = [s \in Symbols |-> symbols_by_name_'[s]]
      BY <1>5
    <2> HIDE DEF A, packages, added
    <2> QED BY <2>1, <2>2
  <1>8. ASSUME ~errors
        PROVE  \A d \in p.declares : symbols_by_name_'[d.name] = [file |-> id, type |-> d.type]
    <2>1. added = p.declares /\ \A d, e \in p.declares : d.name = e.name => d = e
      BY <1>8
    <2>2. ASSUME NEW d \in p.declares PROVE symbols_by_name_'[d.name] = [file |-> id, type |-> d.type]
      <3>1. d \in added /\ d.name \notin packages /\ d.name \in Symbols
        BY <2>1, <1>3 DEF Declaration
      <3> DEFINE c == CHOOSE e \in added : e.name = d.name
      <3>2. c \in added /\ c.name = d.name
        BY <3>1
      <3>3. c = d
        BY <3>2, <2>1
      <3>4. symbols_by_name_'[d.name] = [file |-> id, type |-> c.type]
        BY <3>1, <1>5
      <3> QED BY <3>3, <3>4
    <2> QED BY <2>2
  <1>9. /\ imports \in Seq(Nat) /\ \A i \in 1..Len(imports) : imports[i] \in Live \cup {0}
        /\ DOMAIN imports = 1..Len(imports)
    <2>1. \A i \in 1..Len(p.dependency) : files_by_name_[p.dependency[i]] \in Live \cup {0}
      <3>1. \A f \in Files : files_by_name_[f] \in Live \cup {0}
        BY <1>1 DEF Held
      <3> QED BY <3>1, <1>3
    <2>2. Live \subseteq Nat
      BY <1>1, <1>4, LiveFacts
    <2>3. DOMAIN p.dependency = 1..Len(p.dependency) /\ Len(p.dependency) \in Nat
      BY <1>3
    <2>4. \A i \in 1..Len(p.dependency) : files_by_name_[p.dependency[i]] \in Nat
      <3>1. \A f \in Files : files_by_name_[f] \in Nat
        BY <1>1 DEF Types
      <3> QED BY <3>1, <1>3
    <2>5. imports = [i \in 1..Len(p.dependency) |-> files_by_name_[p.dependency[i]]]
      BY <2>3
    <2> DEFINE m == Len(p.dependency)
               t == [i \in 1..m |-> files_by_name_[p.dependency[i]]]
    <2>6. t \in Seq(Nat) /\ Len(t) = m /\ DOMAIN t = 1..m /\ \A i \in 1..m : t[i] = files_by_name_[p.dependency[i]]
      <3> HIDE DEF p
      <3> QED BY <2>3, <2>4
    <2> HIDE DEF m, t
    <2>7. imports = t
      BY <2>5 DEF m, t
    <2> HIDE DEF imports
    <2>8. \A i \in 1..m : t[i] \in Live \cup {0}
      BY <2>1, <2>6 DEF m
    <2> QED BY <2>6, <2>7, <2>8
  <1>10. exports \subseteq Nat /\ deps \subseteq Nat
    <2>1. {imports[i] : i \in p.public \cap DOMAIN imports} \subseteq Live \cup {0}
      BY <1>9
    <2>2. {imports[i] : i \in DOMAIN imports} \subseteq Live \cup {0}
      BY <1>9
    <2> QED BY <2>1, <2>2, <1>1, <1>4, PublicTypes
  <1>11. ASSUME ~errors PROVE \A i \in 1..Len(imports) : imports[i] # 0
    <2>1. 0 \notin {imports[i] : i \in DOMAIN imports}
      BY <1>11
    <2> QED BY <2>1, <1>9
  <1>12. errors \in BOOLEAN
    OBVIOUS
  <1> HIDE DEF errors, imports, exports, deps
  <1>13. /\ new \in Descriptor /\ new.name = Top.filename_ /\ new.links = <<>> /\ new.dependencies = imports
    BY <1>2, <1>9, <1>10 DEF Descriptor
  <1>14. /\ b \in Builder /\ b.filename_ = Top.filename_ /\ b.stage = "link" /\ b.next = 1 /\ b.scope = 1
         /\ b.file_ = id /\ b.had_errors_ = errors
    <2>1. Top.scope = 1
      BY <1>1, <1>2 DEF Working, ScopeFits
    <2> HIDE DEF id
    <2> QED BY <2>1, <1>2, <1>4, <1>10, <1>12 DEF Builder
  <1> HIDE DEF new, b, A, packages, added
  <1>15. NewNames(A, errors)
    BY <1>5, <1>6, <1>7, <1>8 DEF NewNames
  <1>16. NewFile(new, b, errors)
    BY <1>5, <1>9, <1>11, <1>13, <1>14 DEF NewFile
  <1> QED BY <1>15, <1>16

LEMMA EnterStep ==
  ASSUME DInv, Enter
  PROVE  DInv'
  <1>0. PICK n, K, L, P, D, N, id, F, c :
          /\ n = Len(builders) /\ K = Len(checkpoints_) /\ L = Len(after_checkpoint_)
          /\ P = Len(pending_files_) /\ D = Len(descriptors) /\ N = Len(allocations_)
          /\ id = Len(descriptors) + 1 /\ F = Top.filename_
          /\ c = [pending |-> Len(after_checkpoint_), allocations |-> Len(allocations_)]
    OBVIOUS
  <1> USE <1>0
  <1>1. Types /\ Ascending /\ Nested /\ Stacked /\ Imported /\ Working /\ Held /\ Logged /\ References
        /\ Wholes /\ HandedOut
    BY DEF DInv
  <1>2. PICK A, new, b, e : NewNames(A, e) /\ NewFile(new, b, e)
    BY EnterFacts
  <1>3. /\ n \in 1..n /\ n \in Nat /\ Top = builders[n] /\ Top.stage = "import" /\ Top \in Builder
        /\ builders # <<>> /\ F \in Files /\ files_by_name_[F] = 0
    <2>1. n \in 1..n /\ n \in Nat /\ Top \in Builder /\ builders # <<>> /\ Top.stage = "import" /\ Top = builders[n]
      BY <1>1, BuilderTypes DEF Enter, At, Top
    <2> QED BY <2>1, <1>1 DEF Builder, Working
  <1>4. /\ K \in Nat /\ L \in Nat /\ P \in Nat /\ D \in Nat /\ N \in Nat /\ id \in Nat
        /\ pending_files_ \in Seq(Files) /\ checkpoints_ \in Seq(Checkpoint)
        /\ allocations_ \in Seq(Nat) /\ descriptors \in Seq(Descriptor) /\ after_checkpoint_ \in Seq(LogEntry)
    BY <1>1 DEF Types
  <1>5. /\ checkpoints_' = Append(checkpoints_, c)
        /\ allocations_' = Append(allocations_, id)
        /\ files_by_name_' = [files_by_name_ EXCEPT ![F] = id]
        /\ pending_files_' = SubSeq(pending_files_, 1, P - 1)
        /\ UNCHANGED <<database, extensions_, request, handed>>
    BY DEF Enter, history
  <1>6. /\ checkpoints_' \in Seq(Checkpoint) /\ Len(checkpoints_') = K + 1 /\ checkpoints_'[K + 1] = c
        /\ \A k \in 1..K : checkpoints_'[k] = checkpoints_[k]
        /\ c.pending = L /\ c.allocations = N /\ \A k \in 1..(K + 1) : k \in 1..K \/ k = K + 1
    <2>1. c \in Checkpoint /\ c.pending = L /\ c.allocations = N
      BY <1>4 DEF Checkpoint
    <2> QED BY <2>1, <1>4, <1>5
  <1>7. /\ allocations_' \in Seq(Nat) /\ Len(allocations_') = N + 1 /\ allocations_'[N + 1] = id
        /\ \A i \in 1..N : allocations_'[i] = allocations_[i]
        /\ \A i \in 1..(N + 1) : i \in 1..N \/ i = N + 1
    BY <1>4, <1>5
  <1>8. /\ new \in Descriptor /\ new.name = F /\ new.links = <<>>
        /\ descriptors' \in Seq(Descriptor) /\ Len(descriptors') = D + 1 /\ descriptors'[id] = new
        /\ \A i \in 1..D : descriptors'[i] = descriptors[i]
    <2>1. descriptors' = Append(descriptors, new) /\ new \in Descriptor /\ new.name = F /\ new.links = <<>>
      BY <1>2 DEF NewFile
    <2> QED BY <2>1, <1>4
  <1>9. /\ builders' \in Seq(Builder) /\ Len(builders') = n /\ builders'[n] = b
        /\ \A i \in 1..n : i # n => builders'[i] = builders[i]
        /\ b.filename_ = F /\ b.stage = "link" /\ b.next = 1 /\ b.scope = 1 /\ b.file_ = id /\ b.had_errors_ = e
    <2>1. b \in Builder /\ builders' = WithTop(b)
      BY <1>2 DEF NewFile
    <2>2. b.filename_ = F /\ b.stage = "link" /\ b.next = 1 /\ b.scope = 1 /\ b.file_ = id /\ b.had_errors_ = e
      BY <1>2 DEF NewFile
    <2> QED BY <2>1, <2>2, <1>1, <1>3, WithTopFacts
  <1>10. Live' = Live \cup {id} /\ Live \subseteq 1..D
    <2>1. Live = {allocations_[i] : i \in 1..N} /\ Live \subseteq 1..D
      BY <1>1, LiveFacts
    <2>2. Live' = {allocations_'[i] : i \in 1..(N + 1)}
      <3>1. DOMAIN allocations_' = 1..(N + 1)
        BY <1>7
      <3> QED BY <3>1 DEF Live
    <2>3. N + 1 \in 1..(N + 1) /\ \A i \in 1..N : i \in 1..(N + 1)
      BY <1>4
    <2>4. ASSUME NEW v \in Live' PROVE v \in Live \cup {id}
      <3>1. PICK i \in 1..(N + 1) : v = allocations_'[i]
        BY <2>2
      <3> QED BY <3>1, <2>1, <1>7
    <2>5. ASSUME NEW v \in Live PROVE v \in Live'
      <3>1. PICK i \in 1..N : v = allocations_[i]
        BY <2>1
      <3> QED BY <3>1, <2>2, <2>3, <1>7
    <2>6. id \in Live'
      BY <2>2, <2>3, <1>7
    <2> QED BY <2>1, <2>4, <2>5, <2>6
  <1>11. /\ \A k \in 1..K : /\ Start(k)' = Start(k) /\ Start(k) \in 1..D /\ Start(k) < id
                            /\ Start(k) > 0 /\ Start(k) \in Nat
         /\ Start(K + 1)' = id
    <2>1. ASSUME NEW k \in 1..K
          PROVE  Start(k)' = Start(k) /\ Start(k) \in 1..D
      <3>1. checkpoints_[k].allocations \in Nat /\ checkpoints_[k].allocations < N /\ Start(k) \in 1..D
        BY <1>1, StartFacts DEF Nested
      <3>2. checkpoints_[k].allocations + 1 \in 1..N
        BY <3>1, <1>4
      <3>4. checkpoints_'[k] = checkpoints_[k]
        BY <1>6
      <3>3. allocations_'[checkpoints_[k].allocations + 1] = allocations_[checkpoints_[k].allocations + 1]
        BY <3>2, <1>7
      <3> QED BY <3>1, <3>3, <3>4 DEF Start
    <2>2. Start(K + 1)' = id
      BY <1>4, <1>6, <1>7 DEF Start
    <2> QED BY <2>1, <2>2, <1>4
  <1>12. /\ files_by_name_' \in [Files -> Nat] /\ files_by_name_'[F] = id
         /\ \A f \in Files : f # F => files_by_name_'[f] = files_by_name_[f]
    BY <1>1, <1>3, <1>4, <1>5 DEF Types
  <1>13. /\ symbols_by_name_' \in [Symbols -> SymbolEntry]
         /\ \A s \in Symbols : s \in A => symbols_by_name_[s] = NullSymbol /\ symbols_by_name_'[s].file = id
         /\ \A s \in Symbols : s \notin A => symbols_by_name_'[s] = symbols_by_name_[s]
         /\ A \subseteq Reach
    BY <1>2 DEF NewNames
  <1>14. /\ after_checkpoint_' \in Seq(LogEntry) /\ Len(after_checkpoint_') = L + 1
         /\ \A i \in 1..L : after_checkpoint_'[i] = after_checkpoint_[i]
         /\ after_checkpoint_'[L + 1] = [files |-> {F}, symbols |-> A, extensions |-> {}]
    <2> DEFINE g == [files |-> {F}, symbols |-> A, extensions |-> {}]
    <2>1. g \in LogEntry
      BY <1>3, <1>13 DEF LogEntry
    <2>2. after_checkpoint_' = Append(after_checkpoint_, g)
      BY <1>2 DEF NewNames
    <2> HIDE DEF g
    <2>3. /\ after_checkpoint_' \in Seq(LogEntry) /\ Len(after_checkpoint_') = L + 1
          /\ \A i \in 1..L : after_checkpoint_'[i] = after_checkpoint_[i]
          /\ after_checkpoint_'[L + 1] = g
      BY <2>1, <2>2, <1>4
    <2> QED BY <2>3 DEF g
  \* The last file pending is this one.
  <1>15. P \in 1..P /\ pending_files_[P] = F
    <2>1. PICK j \in 1..P : F = pending_files_[j]
      <3>1. n \in 1..Len(builders) /\ builders[n].stage = "import" /\ builders[n].filename_ = F
        BY <1>3
      <3>2. \E j \in 1..Len(pending_files_) : builders[n].filename_ = pending_files_[j]
        BY <3>1, <1>1 DEF Imported
      <3> QED BY <3>1, <3>2
    <2>2. P \in 1..P
      BY <1>4
    <2>3. PICK i \in 1..n : builders[i].stage = "import" /\ builders[i].filename_ = pending_files_[P]
      BY <2>2, <1>1 DEF Imported
    <2>4. CASE i = n
      BY <2>2, <2>3, <2>4, <1>3
    <2>5. CASE i # n
      <3>1. i < n
        BY <2>5, <1>3
      <3>2. PendingInTurn(builders, pending_files_)
        BY <1>1 DEF Imported
      <3>3. P < j
        BY <2>1, <2>2, <2>3, <3>1, <3>2, <1>3 DEF PendingInTurn
      <3> QED BY <3>3, <1>4
    <2> QED BY <2>4, <2>5
  <1>16. /\ pending_files_' \in Seq(Files) /\ Len(pending_files_') = P - 1
         /\ \A j \in 1..(P - 1) : pending_files_'[j] = pending_files_[j] /\ j \in 1..P /\ pending_files_[j] # F
         /\ \A j \in 1..P : pending_files_[j] # F => j \in 1..(P - 1)
    <2>1. P - 1 \in Nat /\ P - 1 <= P
      BY <1>15, <1>4
    <2>2. /\ pending_files_' \in Seq(Files) /\ Len(pending_files_') = P - 1
          /\ \A j \in 1..(P - 1) : pending_files_'[j] = pending_files_[j]
      <3>1. /\ SubSeq(pending_files_, 1, P - 1) \in Seq(Files) /\ Len(SubSeq(pending_files_, 1, P - 1)) = P - 1
            /\ \A j \in 1..(P - 1) : SubSeq(pending_files_, 1, P - 1)[j] = pending_files_[j]
        BY <2>1, <1>4, Prefix
      <3> QED BY <3>1, <1>5
    <2>3. \A j \in 1..P : pending_files_[j] = F => j = P
      BY <1>1, <1>15 DEF Imported
    <2> QED BY <2>1, <2>2, <2>3, <1>4, <1>15
  <1>17. \A i \in 1..n : i # n /\ builders[i].stage = "import" => builders[i].filename_ # F
    <2>1. ASSUME NEW i \in 1..n, i # n, builders[i].stage = "import", builders[i].filename_ = F PROVE FALSE
      <3>1. i < n
        BY <2>1, <1>3
      <3>2. P < P
        BY <2>1, <3>1, <1>1, <1>3, <1>15 DEF Imported, PendingInTurn
      <3> QED BY <3>2, <1>4
    <2> QED BY <2>1
  <1>18. /\ K = 0 => L = 0
         /\ K > 0 => checkpoints_ # <<>> /\ 1 \in 1..K
    <2>1. K = 0 => checkpoints_ = <<>>
      BY <1>0, <1>4, EmptySeq
    <2>2. after_checkpoint_ = <<>> => L = 0
      BY <1>0, <1>4
    <2>3. K > 0 => checkpoints_ # <<>> /\ 1 \in 1..K
      BY <1>4
    <2> QED BY <2>1, <2>2, <2>3, <1>1 DEF Nested
  <1>19. Types'
    <2>1. /\ database' \in Databases /\ extensions_' \in [Symbols -> [Number -> Nat]]
          /\ request' \in Request \cup {NoRequest}
      BY <1>1, <1>5 DEF Types
    <2> QED BY <2>1, <1>6, <1>7, <1>8, <1>9, <1>12, <1>13, <1>14, <1>16 DEF Types
  <1>20. Ascending'
    <2>1. \A i \in 1..N : allocations_[i] \in 1..D
      BY <1>1 DEF Ascending
    <2>2. \A i \in 1..(N + 1) : allocations_'[i] \in 1..(D + 1)
      <3>1. \A i \in 1..N : allocations_'[i] \in 1..(D + 1)
        BY <2>1, <1>4, <1>7
      <3>2. allocations_'[N + 1] \in 1..(D + 1)
        BY <1>4, <1>7
      <3> QED BY <3>1, <3>2, <1>7
    <2>3. ASSUME NEW i \in 1..(N + 1), NEW j \in 1..(N + 1), i < j PROVE allocations_'[i] < allocations_'[j]
      <3>1. i \in 1..N
        BY <2>3, <1>4
      <3>2. CASE j \in 1..N
        BY <3>1, <3>2, <2>3, <1>1, <1>7 DEF Ascending
      <3>3. CASE j = N + 1
        <4>1. allocations_'[i] \in 1..D /\ allocations_'[j] = D + 1
          BY <3>1, <3>3, <2>1, <1>7
        <4> QED BY <4>1, <1>4
      <3> QED BY <3>2, <3>3, <1>7
    <2> QED BY <2>2, <2>3, <1>7, <1>8 DEF Ascending
  <1>21. Nested'
    <2>1. checkpoints_' # <<>> /\ 1 \in 1..(K + 1)
      BY <1>4, <1>6
    <2>2. checkpoints_'[1].pending = 0
      <3>1. CASE K = 0
        <4>1. L = 0
          BY <3>1, <1>18
        <4> QED BY <3>1, <4>1, <1>6
      <3>2. CASE K # 0
        <4>1. 1 \in 1..K /\ checkpoints_ # <<>>
          BY <3>2, <1>4
        <4> QED BY <4>1, <1>1, <1>6 DEF Nested
      <3> QED BY <3>1, <3>2
    <2>3. \A k \in 1..K : /\ checkpoints_[k].pending \in Nat /\ checkpoints_[k].pending <= L
                          /\ checkpoints_[k].allocations \in Nat /\ checkpoints_[k].allocations < N
      BY <1>1, StartFacts DEF Nested
    <2>4. \A k \in 1..(K + 1) : checkpoints_'[k].pending <= L + 1 /\ checkpoints_'[k].allocations < N + 1
      <3>1. \A k \in 1..K : checkpoints_[k].pending <= L + 1 /\ checkpoints_[k].allocations < N + 1
        BY <2>3, <1>4
      <3>2. c.pending <= L + 1 /\ c.allocations < N + 1
        BY <1>4, <1>6
      <3> QED BY <3>1, <3>2, <1>6
    <2>5. ASSUME NEW j \in 1..(K + 1), NEW k \in 1..(K + 1), j < k
          PROVE  /\ checkpoints_'[j].pending <= checkpoints_'[k].pending
                 /\ checkpoints_'[j].allocations < checkpoints_'[k].allocations
      <3>1. j \in 1..K
        BY <2>5, <1>4
      <3>2. CASE k \in 1..K
        BY <3>1, <3>2, <2>5, <1>1, <1>6 DEF Nested
      <3>3. CASE k = K + 1
        BY <3>1, <3>3, <2>3, <1>6
      <3> QED BY <3>2, <3>3, <1>6
    <2> QED BY <2>1, <2>2, <2>4, <2>5, <1>6, <1>7, <1>14 DEF Nested
  <1>22. Stacked'
    <2>1. ASSUME NEW i \in 1..n, builders'[i].stage = "link"
          PROVE  \E k \in 1..(K + 1) : builders'[i].file_ = Start(k)'
      <3>1. CASE i = n
        <4>1. K + 1 \in 1..(K + 1) /\ builders'[i].file_ = Start(K + 1)'
          BY <3>1, <1>4, <1>9, <1>11
        <4> QED BY <4>1
      <3>2. CASE i # n
        <4>1. PICK k \in 1..K : builders[i].file_ = Start(k)
          BY <3>2, <2>1, <1>1, <1>9 DEF Stacked
        <4>2. k \in 1..(K + 1) /\ builders'[i].file_ = Start(k)'
          BY <4>1, <3>2, <1>4, <1>9, <1>11
        <4> QED BY <4>2
      <3> QED BY <3>1, <3>2
    <2>2. ASSUME NEW k \in 1..(K + 1)
          PROVE  \E i \in 1..n : builders'[i].stage = "link" /\ builders'[i].file_ = Start(k)'
      <3>1. CASE k = K + 1
        BY <3>1, <1>3, <1>9, <1>11
      <3>2. CASE k \in 1..K
        <4>1. PICK i \in 1..n : builders[i].stage = "link" /\ builders[i].file_ = Start(k)
          BY <3>2, <1>1 DEF Stacked
        <4>2. i # n
          BY <4>1, <1>3
        <4> QED BY <4>1, <4>2, <3>2, <1>9, <1>11
      <3> QED BY <3>1, <3>2, <1>6
    <2>3. ASSUME NEW i \in 1..n, NEW j \in 1..n, i < j, builders'[i].stage = "link", builders'[j].stage = "link"
          PROVE  builders'[i].file_ < builders'[j].file_
      <3>1. i # n /\ builders'[i] = builders[i]
        BY <2>3, <1>3, <1>9
      <3>2. CASE j = n
        <4>1. PICK k \in 1..K : builders[i].file_ = Start(k)
          BY <3>1, <2>3, <1>1 DEF Stacked
        <4> QED BY <4>1, <3>1, <3>2, <1>9, <1>11
      <3>3. CASE j # n
        BY <3>1, <3>3, <2>3, <1>1, <1>9 DEF Stacked
      <3> QED BY <3>2, <3>3
    <2> QED BY <2>1, <2>2, <2>3, <1>6, <1>9 DEF Stacked
  <1>23. Imported'
    <2>1. ASSUME NEW j \in 1..(P - 1)
          PROVE  \E i \in 1..n : builders'[i].stage = "import" /\ builders'[i].filename_ = pending_files_'[j]
      <3>1. j \in 1..P /\ pending_files_'[j] = pending_files_[j] /\ pending_files_[j] # F
        BY <1>16
      <3>2. PICK i \in 1..n : builders[i].stage = "import" /\ builders[i].filename_ = pending_files_[j]
        BY <3>1, <1>1 DEF Imported
      <3>3. i # n
        BY <3>1, <3>2, <1>3
      <3> QED BY <3>1, <3>2, <3>3, <1>9
    <2>2. ASSUME NEW i \in 1..n, builders'[i].stage = "import"
          PROVE  i # n /\ builders'[i] = builders[i] /\ builders[i].filename_ # F
      BY <2>2, <1>9, <1>17
    <2>3. ASSUME NEW i \in 1..n, builders'[i].stage = "import"
          PROVE  \E j \in 1..(P - 1) : builders'[i].filename_ = pending_files_'[j]
      <3>1. builders'[i] = builders[i] /\ builders[i].filename_ # F
        BY <2>2, <2>3
      <3>2. PICK j \in 1..P : builders[i].filename_ = pending_files_[j]
        BY <3>1, <2>3, <1>1 DEF Imported
      <3>3. j \in 1..(P - 1)
        BY <3>1, <3>2, <1>16
      <3> QED BY <3>1, <3>2, <3>3, <1>16
    <2>ordered. PendingInTurn(builders, pending_files_)
      BY <1>1 DEF Imported
    <2>4. ASSUME NEW h \in 1..n, NEW i \in 1..n, h < i, builders'[h].stage = "import",
                 builders'[i].stage = "import", NEW j \in 1..(P - 1), NEW k \in 1..(P - 1),
                 builders'[h].filename_ = pending_files_'[j], builders'[i].filename_ = pending_files_'[k]
          PROVE  j < k
      <3>1. builders'[h] = builders[h] /\ builders'[i] = builders[i]
        BY <2>2, <2>4
      <3>2. j \in 1..P /\ k \in 1..P /\ pending_files_'[j] = pending_files_[j] /\ pending_files_'[k] = pending_files_[k]
        BY <1>16
      <3>3. builders[h].filename_ = pending_files_[j] /\ builders[i].filename_ = pending_files_[k]
            /\ builders[h].stage = "import" /\ builders[i].stage = "import"
        BY <3>1, <3>2, <2>4
      <3> QED BY <3>2, <3>3, <2>4, <2>ordered DEF PendingInTurn
    <2>5. ASSUME NEW j \in 1..(P - 1), NEW k \in 1..(P - 1), pending_files_'[j] = pending_files_'[k]
          PROVE  j = k
      BY <2>5, <1>1, <1>16 DEF Imported
    <2> QED BY <2>1, <2>3, <2>4, <2>5, <1>9, <1>16 DEF Imported, PendingInTurn
  <1>24. Working'
    <2>1. \A x : ScopeFits(x)' <=> ScopeFits(x)
      BY <1>5 DEF ScopeFits, ProtoOf
    <2>2. ASSUME NEW i \in 1..n
          PROVE  /\ builders'[i].stage = "begin" => i = n
                 /\ builders'[i].stage # "link" => files_by_name_'[builders'[i].filename_] = 0
                 /\ ScopeFits(builders'[i])
      <3>1. CASE i = n
        <4>1. ScopeFits(b)
          <5>1. ProtoOf(b).uses \in Seq(Use)
            BY <1>1, <1>3, <1>9, ProtoTypes DEF ProtoOf, Types
          <5>2. 1 <= Len(ProtoOf(b).uses) => ProtoOf(b).uses[1] \in Use
            BY <5>1
          <5>3. 1 <= Len(ProtoOf(b).uses) =>
                  ProtoOf(b).uses[1].scopes \in Seq(Scope) /\ ProtoOf(b).uses[1].scopes # <<>>
            BY <5>2 DEF Use
          <5>4. 1 <= Len(ProtoOf(b).uses) => 1 <= Len(ProtoOf(b).uses[1].scopes)
            BY <5>3
          <5> QED BY <5>4, <1>9 DEF ScopeFits
        <4> QED BY <4>1, <3>1, <1>9
      <3>2. CASE i # n
        <4>1. builders'[i] = builders[i] /\ builders[i].stage # "begin" /\ ScopeFits(builders[i])
              /\ (builders[i].stage # "link" => files_by_name_[builders[i].filename_] = 0)
          BY <3>2, <1>1, <1>9 DEF Working
        <4>2. builders[i].stage \in {"begin", "import", "link"} /\ builders[i].filename_ \in Files
          <5>1. builders[i] \in Builder
            BY <1>1, BuilderTypes
          <5> QED BY <5>1 DEF Builder
        <4>3. builders[i].stage # "link" => builders[i].filename_ # F
          BY <4>1, <4>2, <3>2, <1>17
        <4> QED BY <4>1, <4>2, <4>3, <1>12
      <3> QED BY <3>1, <3>2
    <2> QED BY <2>1, <2>2, <1>9 DEF Working
  <1>25. Held'
    <2>1. ASSUME NEW f \in Files PROVE files_by_name_'[f] \in Live' \cup {0}
      BY <1>1, <1>10, <1>12 DEF Held
    <2>2. ASSUME NEW s \in Symbols
          PROVE  /\ symbols_by_name_'[s].file \in Live' \cup {0}
                 /\ symbols_by_name_'[s].file = 0 => symbols_by_name_'[s] = NullSymbol
      <3>1. symbols_by_name_[s].file \in Live \cup {0} /\ (symbols_by_name_[s].file = 0 => symbols_by_name_[s] = NullSymbol)
        BY <1>1 DEF Held
      <3>2. id # 0
        BY <1>4
      <3> QED BY <3>1, <3>2, <1>10, <1>13
    <2>3. ASSUME NEW s \in Symbols, NEW i \in Number PROVE extensions_'[s][i] \in Live' \cup {0}
      BY <1>1, <1>5, <1>10 DEF Held
    <2>4. ASSUME NEW i \in Live' PROVE files_by_name_'[descriptors'[i].name] = i
      <3>1. CASE i = id
        BY <3>1, <1>8, <1>12
      <3>2. CASE i \in Live
        <4>1. i \in 1..D /\ descriptors'[i] = descriptors[i] /\ i # 0
          BY <3>2, <1>4, <1>8, <1>10
        <4>2. descriptors[i].name \in Files /\ files_by_name_[descriptors[i].name] = i
          BY <4>1, <3>2, <1>1, DescriptorTypes DEF Held
        <4>3. descriptors[i].name # F
          BY <4>1, <4>2, <1>3
        <4> QED BY <4>1, <4>2, <4>3, <1>12
      <3> QED BY <3>1, <3>2, <1>10
    <2> QED BY <2>1, <2>2, <2>3, <2>4 DEF Held
  <1>26. \A v \in Live \cup {0} : v \in Nat /\ v < id /\ ~ (v >= id) /\ v # id
    BY <1>4, <1>10
  <1>27. References'
    <2> DEFINE Far(i, ref) == ref \in Live' /\ \A k \in 1..(K + 1) : ref >= Start(k)' => i >= Start(k)'
    <2>1. ASSUME NEW i \in Live, NEW ref, Refers(i, ref) PROVE Far(i, ref)
      <3>1. ref \in Live /\ ~ (ref >= id) /\ \A k \in 1..K : ref >= Start(k) => i >= Start(k)
        BY <2>1, <1>26 DEF Refers
      <3>2. ASSUME NEW k \in 1..(K + 1), ref >= Start(k)' PROVE i >= Start(k)'
        <4>1. k # K + 1
          BY <3>1, <3>2, <1>11
        <4>2. k \in 1..K /\ Start(k)' = Start(k)
          BY <4>1, <1>6, <1>11
        <4> QED BY <4>2, <3>1, <3>2
      <3> QED BY <3>1, <3>2, <1>10
    <2>2. ASSUME NEW ref \in Live PROVE Far(id, ref)
      <3>1. \A k \in 1..(K + 1) : id >= Start(k)'
        <4>1. id >= id /\ \A k \in 1..K : id >= Start(k)
          BY <1>4, <1>11
        <4> QED BY <4>1, <1>6, <1>11
      <3> QED BY <3>1, <1>10
    <2>3. ASSUME NEW i \in Live'
          PROVE  /\ \A j \in 1..Len(descriptors'[i].dependencies) :
                      descriptors'[i].dependencies[j] # 0 => Far(i, descriptors'[i].dependencies[j])
                 /\ \A j \in 1..Len(descriptors'[i].links) : Far(i, descriptors'[i].links[j])
      <3>1. CASE i \in Live
        <4>1. descriptors'[i] = descriptors[i]
          BY <3>1, <1>8, <1>10
        <4> HIDE DEF Far
        <4> QED BY <3>1, <4>1, <2>1, <1>1 DEF References
      <3>2. CASE i = id
        <4>1. descriptors'[i] = new /\ \A j \in 1..Len(new.links) : FALSE
          BY <3>2, <1>8
        <4>2. \A j \in 1..Len(new.dependencies) : new.dependencies[j] \in Live \cup {0}
          BY <1>2 DEF NewFile
        <4> HIDE DEF Far
        <4> QED BY <3>2, <4>1, <4>2, <2>2
      <3> QED BY <3>1, <3>2, <1>10
    <2> QED BY <2>3, <1>6 DEF References, Refers
  <1>28. Wholes'
    <2>1. ASSUME NEW i \in Live, Whole(i) PROVE Whole(i)'
      <3>1. i \in 1..D /\ descriptors'[i] = descriptors[i] /\ i # 0
        BY <1>4, <1>8, <1>10
      <3>2. database.proto[descriptors[i].name].declares \subseteq Declaration
        BY <3>1, <1>1, DescriptorTypes, ProtoTypes DEF Types
      <3>3. ASSUME NEW d \in database.proto[descriptors[i].name].declares
            PROVE  symbols_by_name_'[d.name] = [file |-> i, type |-> d.type]
        <4>1. symbols_by_name_[d.name] = [file |-> i, type |-> d.type] /\ d.name \in Symbols
          BY <2>1, <3>2 DEF Whole, Declaration
        <4>2. symbols_by_name_[d.name] # NullSymbol
          BY <4>1, <3>1 DEF NullSymbol
        <4> QED BY <4>1, <4>2, <1>13
      <3> QED BY <3>1, <3>3, <2>1, <1>5 DEF Whole
    <2>2. ASSUME NEW i \in Live, ~Whole(i)
          PROVE  \E j \in 1..n : builders'[j].stage = "link" /\ builders'[j].file_ = i /\ builders'[j].had_errors_
      <3>1. PICK j \in 1..n : builders[j].stage = "link" /\ builders[j].file_ = i /\ builders[j].had_errors_
        BY <2>2, <1>1 DEF Wholes
      <3>2. j # n
        BY <3>1, <1>3
      <3> QED BY <3>1, <3>2, <1>9
    <2>3. \/ Whole(id)'
          \/ \E j \in 1..n : builders'[j].stage = "link" /\ builders'[j].file_ = id /\ builders'[j].had_errors_
      <3>1. CASE e
        BY <3>1, <1>3, <1>9
      <3>2. CASE ~e
        <4>1. \A d \in ProtoOf(Top).declares : symbols_by_name_'[d.name] = [file |-> id, type |-> d.type]
          BY <3>2, <1>2 DEF NewNames
        <4>2. \A j \in 1..Len(new.dependencies) : new.dependencies[j] # 0
          BY <3>2, <1>2 DEF NewFile
        <4>3. database'.proto[descriptors'[id].name].declares = ProtoOf(Top).declares
          BY <1>5, <1>8 DEF ProtoOf
        <4> QED BY <4>1, <4>2, <4>3, <1>8 DEF Whole
      <3> QED BY <3>1, <3>2
    <2> QED BY <2>1, <2>2, <2>3, <1>9, <1>10 DEF Wholes
  <1>29. HandedOut'
    <2>1. ASSUME NEW i \in handed PROVE i \in Live' /\ \A k \in 1..(K + 1) : i < Start(k)'
      <3>1. i \in Live /\ i \in 1..D /\ \A k \in 1..K : i < Start(k)
        BY <1>1, <1>10 DEF HandedOut
      <3>2. i < id /\ i \in Live'
        BY <3>1, <1>10, <1>26
      <3>3. ASSUME NEW k \in 1..(K + 1) PROVE i < Start(k)'
        <4>1. CASE k = K + 1
          BY <4>1, <3>2, <1>11
        <4>2. CASE k \in 1..K
          BY <4>2, <3>1, <1>11
        <4> QED BY <4>1, <4>2, <1>6
      <3> QED BY <3>2, <3>3
    <2> QED BY <2>1, <1>5, <1>6 DEF HandedOut
  <1>30. Logged'
    <2>1. /\ Extended(Marks, Marks', K, L) /\ Extended(Starts, Starts', K, id)
      BY <1>4, <1>6, <1>11 DEF Extended, Marks, Starts
    <2>2. /\ Extended(FileLog, FileLog', L, {F}) /\ Extended(SymbolLog, SymbolLog', L, A)
          /\ Extended(ExtensionLog, ExtensionLog', L, {})
      BY <1>4, <1>14 DEF Extended, FileLog, SymbolLog, ExtensionLog
    <2>3. Marked(L, K, Marks, Starts, id)
      <3>1. Marks \in [1..K -> Nat] /\ Starts \in [1..K -> Nat]
        BY <1>1, StartFacts
      <3>2. \A k \in 1..K : Marks[k] = checkpoints_[k].pending /\ Starts[k] = Start(k) /\ checkpoints_[k].pending <= L
        BY <1>1, StartFacts DEF Nested
      <3>3. (K = 0 => L = 0) /\ (K > 0 => Marks[1] = 0)
        BY <1>18, <3>2, <1>1 DEF Nested
      <3>4. \A k \in 1..K : id >= Start(k) /\ Start(k) > 0
        BY <1>4, <1>11
      <3> QED BY <3>1, <3>2, <3>3, <3>4, <1>4 DEF Marked
    <2>4. /\ Tracks(files_by_name_, FileLog, L, Marks, Starts, K)
          /\ Tracks(SymbolFiles, SymbolLog, L, Marks, Starts, K)
          /\ Tracks(ExtensionFiles, ExtensionLog, L, Marks, Starts, K)
      BY <1>1 DEF Logged, LogOf
    <2>5. Enters(files_by_name_, files_by_name_', {F}, id) /\ Newest(files_by_name_', {F}, id)
      <3>1. /\ files_by_name_ \in [Files -> Nat] /\ DOMAIN files_by_name_ = Files /\ DOMAIN files_by_name_' = Files
        BY <1>1, <1>12 DEF Types
      <3>2. \A f \in Files : f # F => ~ (files_by_name_'[f] >= id)
        <4>1. \A f \in Files : files_by_name_[f] \in Live \cup {0}
          BY <1>1 DEF Held
        <4> QED BY <4>1, <1>12, <1>26
      <3> QED BY <3>1, <3>2, <1>3, <1>4, <1>12 DEF Enters, Newest
    <2>6. Enters(SymbolFiles, SymbolFiles', A, id) /\ Newest(SymbolFiles', A, id)
      <3>1. DOMAIN SymbolFiles = Symbols /\ DOMAIN SymbolFiles' = Symbols
        BY DEF SymbolFiles
      <3>2. ASSUME NEW s \in Symbols
            PROVE  /\ SymbolFiles[s] \in Nat /\ SymbolFiles'[s] = IF s \in A THEN id ELSE SymbolFiles[s]
                   /\ (s \in A => SymbolFiles[s] = 0)
                   /\ (s \in A <=> SymbolFiles'[s] >= id)
        <4>1. SymbolFiles[s] = symbols_by_name_[s].file /\ SymbolFiles'[s] = symbols_by_name_'[s].file
          BY DEF SymbolFiles
        <4>2. symbols_by_name_[s].file \in Live \cup {0} /\ NullSymbol.file = 0
          BY <1>1 DEF Held, NullSymbol
        <4>3. symbols_by_name_[s].file \in Nat /\ ~ (symbols_by_name_[s].file >= id)
          BY <4>2, <1>26
        <4>4. CASE s \in A
          BY <4>4, <4>1, <4>2, <4>3, <1>4, <1>13
        <4>5. CASE s \notin A
          BY <4>5, <4>1, <4>3, <1>13
        <4> QED BY <4>4, <4>5
      <3> QED BY <3>1, <3>2 DEF Enters, Newest
    <2>7. ExtensionFiles' = ExtensionFiles /\ Enters(ExtensionFiles, ExtensionFiles', {}, id)
          /\ Newest(ExtensionFiles', {}, id)
      <3>1. ExtensionFiles' = ExtensionFiles /\ DOMAIN ExtensionFiles = Symbols \X Number
        BY <1>5 DEF ExtensionFiles
      <3>2. ASSUME NEW x \in Symbols \X Number
            PROVE  ExtensionFiles[x] \in Nat /\ ~ (ExtensionFiles[x] >= id)
        <4>1. ExtensionFiles[x] \in Live \cup {0}
          BY <1>1 DEF Held, ExtensionFiles
        <4> QED BY <4>1, <1>26
      <3> QED BY <3>1, <3>2 DEF Enters, Newest
    <2>8. /\ Tracks(files_by_name_', FileLog', L + 1, Marks, Starts, K)
          /\ Tracks(SymbolFiles', SymbolLog', L + 1, Marks, Starts, K)
          /\ Tracks(ExtensionFiles', ExtensionLog', L + 1, Marks, Starts, K)
      BY <2>2, <2>3, <2>4, <2>5, <2>6, <2>7, TrackAppend
    <2>9. FileLog'[L + 1] = {F} /\ SymbolLog'[L + 1] = A /\ ExtensionLog'[L + 1] = {}
      BY <2>2 DEF Extended
    <2>10. Tracks(files_by_name_', FileLog', L + 1, Marks', Starts', K + 1)
      BY <2>1, <2>5, <2>8, <2>9, <1>4, TrackMark
    <2>11. Tracks(SymbolFiles', SymbolLog', L + 1, Marks', Starts', K + 1)
      BY <2>1, <2>6, <2>8, <2>9, <1>4, TrackMark
    <2>12. Tracks(ExtensionFiles', ExtensionLog', L + 1, Marks', Starts', K + 1)
      BY <2>1, <2>7, <2>8, <2>9, <1>4, TrackMark
    <2> QED BY <2>10, <2>11, <2>12, <1>6, <1>14 DEF Logged, LogOf
  <1> QED BY <1>19, <1>20, <1>21, <1>22, <1>23, <1>24, <1>25, <1>27, <1>28, <1>29, <1>30 DEF DInv

-----------------------------------------------------------------------------
\* The invariance, and what follows between lookups.

LEMMA PoolInitially ==
  ASSUME PoolInit
  PROVE  DInv
  <1> USE DEF PoolInit
  <1>1. Types
    <2>1. symbols_by_name_ \in [Symbols -> SymbolEntry]
      BY DEF SymbolEntry, NullSymbol
    <2>2. extensions_ \in [Symbols -> [Number -> Nat]]
      BY DEF Number
    <2>3. files_by_name_ \in [Files -> Nat]
      OBVIOUS
    <2> QED BY <2>1, <2>2, <2>3 DEF Types
  <1>2. Live = {}
    BY DEF Live
  <1>3. /\ Len(builders) = 0 /\ Len(checkpoints_) = 0 /\ Len(after_checkpoint_) = 0
        /\ Len(allocations_) = 0 /\ Len(pending_files_) = 0
        /\ 1..0 = {}
    OBVIOUS
  <1>4. Ascending /\ Nested /\ Stacked /\ Imported /\ Working
    BY <1>3 DEF Ascending, Nested, Stacked, Imported, PendingInTurn, Working
  <1>5. Held
    BY <1>2 DEF Held, NullSymbol
  <1>6. Logged
    BY <1>3 DEF Logged, LogOf, Tracks
  <1>7. References /\ Wholes /\ HandedOut
    BY <1>2 DEF References, Wholes, HandedOut
  <1> QED BY <1>1, <1>4, <1>5, <1>6, <1>7 DEF DInv

LEMMA PoolStutters ==
  ASSUME DInv, UNCHANGED poolVars
  PROVE  DInv'
  <1> USE DEF poolVars, tables, history
  <1>1. Types' /\ Ascending' /\ Nested' /\ Stacked' /\ Imported'
    BY DEF DInv, Types, Ascending, Nested, Stacked, Imported, Start
  <1>2. Working' /\ Held'
    BY DEF DInv, Working, ScopeFits, ProtoOf, Held, Live
  <1>3. Logged'
    BY DEF DInv, Logged, LogOf, Tracks, Marks, Starts, Start, SymbolFiles, ExtensionFiles,
           FileLog, SymbolLog, ExtensionLog
  <1>4. References' /\ Wholes' /\ HandedOut'
    BY DEF DInv, References, Refers, Wholes, Whole, HandedOut, Live, Start
  <1> QED BY <1>1, <1>2, <1>3, <1>4 DEF DInv

LEMMA PoolStepKeeps ==
  ASSUME DInv, [PoolNext]_poolVars
  PROVE  DInv'
  <1>1. CASE Ask
    BY <1>1, AskStep
  <1>2. CASE AskDatabase
    BY <1>2, AskDatabaseStep
  <1>3. CASE Answer
    BY <1>3, AnswerStep
  <1>4. CASE Begin
    BY <1>4, BeginRecursive, BeginStep
  <1>5. CASE ImportNext
    BY <1>5, ImportStep
  <1>6. CASE Enter
    BY <1>6, EnterStep
  <1>7. CASE SeekSymbol
    BY <1>7, SeekStep
  <1>8. CASE Resolve
    BY <1>8, ResolveStep
  <1>9. CASE Finish
    <2>1. CASE Top.had_errors_
      BY <1>9, <2>1, FinishBad
    <2>2. CASE ~Top.had_errors_
      BY <1>9, <2>2, FinishGood
    <2> QED BY <2>1, <2>2
  <1>10. CASE UNCHANGED poolVars
    BY <1>10, PoolStutters
  <1> QED BY <1>1, <1>2, <1>3, <1>4, <1>5, <1>6, <1>7, <1>8, <1>9, <1>10 DEF PoolNext, PoolStep, Build

\* Every builder has gone: no checkpoint is left, and nothing is half built.
LEMMA WholeBetweenLookups ==
  ASSUME DInv
  PROVE  NothingDangles
  <1> SUFFICES ASSUME builders = <<>>
               PROVE  /\ Live = InPool /\ checkpoints_ = <<>> /\ after_checkpoint_ = <<>> /\ pending_files_ = <<>>
                      /\ \A id \in InPool :
                           /\ \A i \in DOMAIN descriptors[id].dependencies : descriptors[id].dependencies[i] \in InPool
                           /\ \A i \in DOMAIN descriptors[id].links : descriptors[id].links[i] \in InPool
                           /\ \A d \in database.proto[descriptors[id].name].declares :
                                symbols_by_name_[d.name] = [file |-> id, type |-> d.type]
                      /\ \A s \in Symbols :
                           /\ symbols_by_name_[s].file \in InPool \cup {0}
                           /\ \A n \in DOMAIN extensions_[s] : extensions_[s][n] \in InPool \cup {0}
                      /\ handed \subseteq InPool
    BY DEF NothingDangles
  <1>1. /\ Types /\ Ascending /\ Nested /\ Stacked /\ Imported /\ Held /\ References /\ Wholes /\ HandedOut
    BY DEF DInv
  <1>2. Len(builders) = 0 /\ \A i \in 1..Len(builders) : FALSE
    OBVIOUS
  <1>3. checkpoints_ = <<>> /\ after_checkpoint_ = <<>>
    <2>1. checkpoints_ \in Seq(Checkpoint)
      BY <1>1 DEF Types
    <2>2. \A k \in 1..Len(checkpoints_) : FALSE
      BY <1>1, <1>2 DEF Stacked
    <2>3. Len(checkpoints_) \in Nat /\ ~ (Len(checkpoints_) >= 1)
      <3>1. Len(checkpoints_) \in Nat
        BY <2>1
      <3> QED BY <3>1, <2>2
    <2>4. checkpoints_ = <<>>
      BY <2>1, <2>3, EmptySeq
    <2> QED BY <2>4, <1>1 DEF Nested
  <1>4. pending_files_ = <<>>
    <2>1. pending_files_ \in Seq(Files)
      BY <1>1 DEF Types
    <2>2. \A j \in 1..Len(pending_files_) : FALSE
      BY <1>1, <1>2 DEF Imported
    <2>3. Len(pending_files_) \in Nat /\ ~ (Len(pending_files_) >= 1)
      <3>1. Len(pending_files_) \in Nat
        BY <2>1
      <3> QED BY <3>1, <2>2
    <2> QED BY <2>1, <2>3, EmptySeq
  <1>5. \A id \in Live : id \in 1..Len(descriptors) /\ id # 0
    BY <1>1, LiveFacts
  <1>6. \A id \in Live : /\ descriptors[id].name \in Files
                         /\ DOMAIN descriptors[id].dependencies = 1..Len(descriptors[id].dependencies)
                         /\ DOMAIN descriptors[id].links = 1..Len(descriptors[id].links)
    <2>1. \A id \in Live : /\ descriptors[id].name \in Files
                           /\ descriptors[id].dependencies \in Seq(Nat) /\ descriptors[id].links \in Seq(Nat)
      BY <1>1, <1>5, DescriptorTypes
    <2> QED BY <2>1
  <1>7. Live = InPool
    BY <1>1, <1>5, <1>6 DEF Held, InPool
  <1>8. ASSUME NEW id \in Live
        PROVE  /\ \A i \in DOMAIN descriptors[id].dependencies : descriptors[id].dependencies[i] \in Live
               /\ \A i \in DOMAIN descriptors[id].links : descriptors[id].links[i] \in Live
               /\ \A d \in database.proto[descriptors[id].name].declares :
                    symbols_by_name_[d.name] = [file |-> id, type |-> d.type]
    <2>1. Whole(id)
      BY <1>1, <1>2 DEF Wholes
    <2> QED BY <2>1, <1>1, <1>6 DEF Whole, References, Refers
  <1>9. \A s \in Symbols : DOMAIN extensions_[s] = Number
    BY <1>1 DEF Types
  <1>10. \A s \in Symbols : /\ symbols_by_name_[s].file \in Live \cup {0}
                            /\ \A n \in Number : extensions_[s][n] \in Live \cup {0}
    BY <1>1 DEF Held
  <1>11. handed \subseteq Live
    BY <1>1 DEF HandedOut
  <1> QED BY <1>3, <1>4, <1>7, <1>8, <1>9, <1>10, <1>11

-----------------------------------------------------------------------------
\* What is reached.

LEMMA ReachedFacts ==
  ASSUME NEW F \in SUBSET Files, NEW E \in [Files -> SUBSET Files]
  PROVE  /\ F \subseteq Reached(F, E) /\ Reached(F, E) \subseteq Files
         /\ \A f \in Reached(F, E) : E[f] \subseteq Reached(F, E)
         /\ \A S \in SUBSET Files : F \subseteq S /\ (\A f \in S : E[f] \subseteq S) => Reached(F, E) \subseteq S
  BY DEF Reached

\* The same from one file.
LEMMA ReachedFromOne ==
  ASSUME NEW g \in Files, NEW E \in [Files -> SUBSET Files]
  PROVE  /\ g \in Reached({g}, E) /\ Reached({g}, E) \subseteq Files
         /\ \A x \in Reached({g}, E) : E[x] \subseteq Reached({g}, E)
         /\ \A S \in SUBSET Files : g \in S /\ (\A x \in S : E[x] \subseteq S)
                                    => Reached({g}, E) \subseteq S
  <1>1. {g} \in SUBSET Files
    OBVIOUS
  <1>2. /\ {g} \subseteq Reached({g}, E) /\ Reached({g}, E) \subseteq Files
        /\ \A x \in Reached({g}, E) : E[x] \subseteq Reached({g}, E)
        /\ \A S \in SUBSET Files : {g} \subseteq S /\ (\A x \in S : E[x] \subseteq S)
                                   => Reached({g}, E) \subseteq S
    <2>1. E \in [Files -> SUBSET Files]
      OBVIOUS
    <2> QED BY ONLY <1>1, <2>1, ReachedFacts
  <1> QED BY ONLY <1>2

\* From one file: it, and what is reached from those next to it.
LEMMA ReachedFrom ==
  ASSUME NEW f \in Files, NEW E \in [Files -> SUBSET Files]
  PROVE  /\ Reached({f}, E) = {f} \cup UNION {Reached({g}, E) : g \in E[f]}
         /\ Reached(E[f], E) = UNION {Reached({g}, E) : g \in E[f]}
         /\ \A g \in Reached({f}, E) : Reached({g}, E) \subseteq Reached({f}, E)
  <1> DEFINE R == Reached({f}, E)
             N == Reached(E[f], E)
             U == UNION {Reached({g}, E) : g \in E[f]}
  <1>1. /\ f \in R /\ R \subseteq Files /\ \A x \in R : E[x] \subseteq R
        /\ \A S \in SUBSET Files : f \in S /\ (\A x \in S : E[x] \subseteq S) => R \subseteq S
    BY ReachedFacts
  <1>2. \A g \in Files : /\ g \in Reached({g}, E) /\ Reached({g}, E) \subseteq Files
                         /\ \A x \in Reached({g}, E) : E[x] \subseteq Reached({g}, E)
                         /\ \A S \in SUBSET Files : g \in S /\ (\A x \in S : E[x] \subseteq S)
                                                    => Reached({g}, E) \subseteq S
    BY ReachedFromOne
  <1>3. /\ E[f] \subseteq N /\ N \subseteq Files /\ \A x \in N : E[x] \subseteq N
        /\ \A S \in SUBSET Files : E[f] \subseteq S /\ (\A x \in S : E[x] \subseteq S) => N \subseteq S
    BY ReachedFacts
  <1> HIDE DEF R, N
  <1>4. E[f] \subseteq Files
    OBVIOUS
  <1>5. \A x : x \in U <=> \E g \in E[f] : x \in Reached({g}, E)
    OBVIOUS
  <1> HIDE DEF U
  <1>6. U \in SUBSET Files /\ E[f] \subseteq U /\ \A x \in U : E[x] \subseteq U
    <2>1. U \subseteq Files /\ E[f] \subseteq U
      BY <1>2, <1>4, <1>5
    <2>2. ASSUME NEW x \in U, NEW y \in E[x] PROVE y \in U
      <3>1. PICK g \in E[f] : x \in Reached({g}, E)
        BY <1>5
      <3>2. y \in Reached({g}, E)
        BY <3>1, <1>2, <1>4
      <3> QED BY <3>2, <1>5
    <2> QED BY <2>1, <2>2
  <1>7. \A g \in R : Reached({g}, E) \subseteq R
    BY <1>1, <1>2
  <1>8. U \subseteq R
    BY <1>1, <1>5, <1>7
  <1>9. R \subseteq {f} \cup U
    <2>1. {f} \cup U \in SUBSET Files /\ \A x \in {f} \cup U : E[x] \subseteq {f} \cup U
      BY <1>6
    <2> QED BY <2>1, <1>1
  <1>10. N \subseteq U
    BY <1>3, <1>6
  <1>11. U \subseteq N
    BY <1>2, <1>3, <1>4, <1>5
  <1>12. R = {f} \cup U /\ N = U /\ \A g \in R : Reached({g}, E) \subseteq R
    BY <1>1, <1>7, <1>8, <1>9, <1>10, <1>11
  <1> QED BY <1>12 DEF R, N, U

LEMMA ImportTypes ==
  ASSUME database \in Databases
  PROVE  /\ ImportOf \in [Files -> SUBSET Files] /\ PublicOf \in [Files -> SUBSET Files]
         /\ \A f \in Files : ImportOf[f] = Imports(f) /\ PublicOf[f] = PublicImports(f)
                             /\ PublicImports(f) \subseteq Imports(f) /\ Imports(f) \subseteq Files
  <1>1. \A f \in Files : PublicImports(f) \subseteq Imports(f) /\ Imports(f) \subseteq Files
    <2> SUFFICES ASSUME NEW f \in Files PROVE PublicImports(f) \subseteq Imports(f) /\ Imports(f) \subseteq Files
      OBVIOUS
    <2>1. database.proto[f].dependency \in Seq(Files)
      BY ProtoTypes
    <2> QED BY <2>1 DEF Imports, PublicImports
  <1> QED BY <1>1 DEF ImportOf, PublicOf

LEMMA ClosureFacts ==
  ASSUME database \in Databases, NEW f \in Files
  PROVE  /\ f \in Closure(f) /\ Closure(f) \subseteq Files
         /\ \A g \in Closure(f) : Closure(g) \subseteq Closure(f)
         /\ Imports(f) \subseteq Closure(f)
         /\ Closure(f) = {f} \cup UNION {Closure(g) : g \in Imports(f)}
  <1>1. ImportOf \in [Files -> SUBSET Files] /\ ImportOf[f] = Imports(f)
    BY ImportTypes
  <1>2. f \in Reached({f}, ImportOf) /\ Reached({f}, ImportOf) \subseteq Files
        /\ Imports(f) \subseteq Reached({f}, ImportOf)
    <2> DEFINE E == ImportOf
    <2>1. E \in [Files -> SUBSET Files] /\ E[f] = Imports(f) /\ {f} \in SUBSET Files
      BY <1>1
    <2> HIDE DEF E
    <2>2. {f} \subseteq Reached({f}, E) /\ Reached({f}, E) \subseteq Files
          /\ \A x \in Reached({f}, E) : E[x] \subseteq Reached({f}, E)
      BY <2>1, ReachedFacts
    <2> QED BY <2>1, <2>2 DEF E
  <1> QED BY <1>1, <1>2, ReachedFrom DEF Closure

LEMMA WithinFacts ==
  ASSUME database \in Databases, NEW f \in Files
  PROVE  /\ Within(f) = {f} \cup UNION {Reached({g}, PublicOf) : g \in Imports(f)}
         /\ Reached({f}, PublicOf) = {f} \cup UNION {Reached({g}, PublicOf) : g \in PublicImports(f)}
         /\ Reached({f}, PublicOf) \subseteq Within(f)
         /\ f \in Within(f) /\ Within(f) \subseteq Closure(f)
  <1>1. /\ PublicOf \in [Files -> SUBSET Files] /\ PublicOf[f] = PublicImports(f)
        /\ Imports(f) \subseteq Files /\ PublicImports(f) \subseteq Imports(f)
    BY ImportTypes
  <1>2. Reached({f}, PublicOf) = {f} \cup UNION {Reached({g}, PublicOf) : g \in PublicImports(f)}
    BY <1>1, ReachedFrom
  <1>3. Reached(Imports(f), PublicOf) = UNION {Reached({g}, PublicOf) : g \in Imports(f)}
    <2> DEFINE N == Reached(Imports(f), PublicOf)
               U == UNION {Reached({g}, PublicOf) : g \in Imports(f)}
    <2>1. /\ Imports(f) \subseteq N /\ N \subseteq Files /\ \A x \in N : PublicOf[x] \subseteq N
          /\ \A S \in SUBSET Files : Imports(f) \subseteq S /\ (\A x \in S : PublicOf[x] \subseteq S) => N \subseteq S
      BY <1>1, ReachedFacts
    <2>2. \A g \in Files : /\ g \in Reached({g}, PublicOf) /\ Reached({g}, PublicOf) \subseteq Files
                           /\ \A x \in Reached({g}, PublicOf) : PublicOf[x] \subseteq Reached({g}, PublicOf)
                           /\ \A S \in SUBSET Files : g \in S /\ (\A x \in S : PublicOf[x] \subseteq S)
                                                      => Reached({g}, PublicOf) \subseteq S
      BY <1>1, ReachedFromOne
    <2>3. \A x : x \in U <=> \E g \in Imports(f) : x \in Reached({g}, PublicOf)
      OBVIOUS
    <2> HIDE DEF N, U
    <2>4. U \in SUBSET Files /\ Imports(f) \subseteq U /\ \A x \in U : PublicOf[x] \subseteq U
      BY <2>2, <2>3, <1>1
    <2>5. N \subseteq U
      BY <2>1, <2>4
    <2>6. U \subseteq N
      BY <2>1, <2>2, <2>3, <1>1
    <2>7. N = U
      BY <2>5, <2>6
    <2> QED BY <2>7 DEF N, U
  <1>4. Reached({f}, PublicOf) \subseteq Within(f)
    BY <1>1, <1>2, <1>3 DEF Within
  <1>5. Reached(Imports(f), PublicOf) \subseteq Closure(f)
    <2>1. Closure(f) \in SUBSET Files /\ Imports(f) \subseteq Closure(f)
      BY ClosureFacts
    <2>2. \A x \in Closure(f) : PublicOf[x] \subseteq Closure(f)
      BY <2>1, ClosureFacts, ImportTypes
    <2> QED BY <2>1, <2>2, <1>1, ReachedFacts
  <1> QED BY <1>2, <1>3, <1>4, <1>5, ClosureFacts DEF Within

-----------------------------------------------------------------------------
\* The names around a name.

Around_(A, s) == IF ParentOf[s] = NoSymbol THEN {} ELSE {ParentOf[s]} \cup A[ParentOf[s]]

LEMMA AncestorsExist ==
  \E A : A = [s \in Symbols |-> Around_(A, s)]
  <1> DEFINE Up(S) == \A x \in S : ParentOf[x] # NoSymbol => ParentOf[x] \in S
             A == [s \in Symbols |->
                     {a \in Symbols : ParentOf[s] # NoSymbol /\
                        \A S \in SUBSET Symbols : ParentOf[s] \in S /\ Up(S) => a \in S}]
  <1>1. \A s \in Symbols : ParentOf[s] \in Symbols \cup {NoSymbol}
    BY PoolAssumption
  <1>2. ASSUME NEW s \in Symbols PROVE A[s] = Around_(A, s)
    <2>1. CASE ParentOf[s] = NoSymbol
      BY <2>1 DEF Around_
    <2>2. CASE ParentOf[s] # NoSymbol
      <3> DEFINE p == ParentOf[s]
      <3>1. p \in Symbols
        BY <1>1, <2>2
      <3>2. \A a : a \in A[s] <=> a \in Symbols /\ \A S \in SUBSET Symbols : p \in S /\ Up(S) => a \in S
        BY <2>2
      <3>3. \A a : a \in A[p] <=> a \in Symbols /\ ParentOf[p] # NoSymbol
                                  /\ \A S \in SUBSET Symbols : ParentOf[p] \in S /\ Up(S) => a \in S
        BY <3>1
      <3> HIDE DEF A
      <3>4. {p} \cup A[p] \subseteq A[s]
        BY <3>1, <3>2, <3>3
      <3>5. {p} \cup A[p] \in SUBSET Symbols
        BY <3>1, <3>3
      <3>6. Up({p} \cup A[p])
        <4> SUFFICES ASSUME NEW x \in {p} \cup A[p], ParentOf[x] # NoSymbol PROVE ParentOf[x] \in A[p]
          OBVIOUS
        <4>1. x \in Symbols /\ ParentOf[x] \in Symbols
          BY <3>5, <1>1
        <4>2. CASE x = p
          BY <4>1, <4>2, <3>3
        <4>3. CASE x \in A[p]
          BY <4>1, <4>3, <3>3
        <4> QED BY <4>2, <4>3
      <3>7. A[s] \subseteq {p} \cup A[p]
        <4> SUFFICES ASSUME NEW a \in A[s] PROVE a \in {p} \cup A[p]
          OBVIOUS
        <4> DEFINE S == {p} \cup A[p]
        <4>1. S \in SUBSET Symbols /\ p \in S /\ Up(S)
          BY <3>5, <3>6
        <4> QED BY <4>1, <3>2
      <3>8. A[s] = {p} \cup A[p]
        BY <3>4, <3>7
      <3> QED BY <3>8, <2>2 DEF Around_
    <2> QED BY <2>1, <2>2
  <1>3. A = [s \in Symbols |-> Around_(A, s)]
    BY <1>2
  <1> QED BY <1>3

LEMMA AncestorsUnfold ==
  ASSUME NEW s \in Symbols
  PROVE  Ancestors[s] = IF ParentOf[s] = NoSymbol THEN {} ELSE {ParentOf[s]} \cup Ancestors[ParentOf[s]]
  <1>1. Ancestors = [t \in Symbols |-> Around_(Ancestors, t)]
    BY AncestorsExist DEF Ancestors, Around_
  <1>2. Ancestors[s] = Around_(Ancestors, s)
    <2> DEFINE A == Ancestors
    <2> HIDE DEF A
    <2>1. A = [t \in Symbols |-> Around_(A, t)]
      BY <1>1 DEF A
    <2>2. A[s] = [t \in Symbols |-> Around_(A, t)][s]
      BY <2>1
    <2>3. A[s] = Around_(A, s)
      BY <2>2
    <2> QED BY <2>3 DEF A
  <1> QED BY <1>2 DEF Around_

\* Names get shorter.
LEMMA NameInduction ==
  ASSUME NEW B \in SUBSET Symbols, \A s \in B : ParentOf[s] # NoSymbol /\ ParentOf[s] \in B
  PROVE  B = {}
  BY PoolAssumption

LEMMA AncestorsAreNames ==
  ASSUME NEW s \in Symbols
  PROVE  /\ Ancestors[s] \subseteq Symbols
         /\ \A a \in Ancestors[s] : Ancestors[a] \subseteq Ancestors[s]
         /\ \A a, b \in Ancestors[s] : a = b \/ a \in Ancestors[b] \/ b \in Ancestors[a]
  <1>1. \A t \in Symbols : ParentOf[t] \in Symbols \cup {NoSymbol}
    BY PoolAssumption
  <1>2. \A t \in Symbols : Ancestors[t] \subseteq Symbols
    <2> DEFINE B == {t \in Symbols : ~(Ancestors[t] \subseteq Symbols)}
    <2>1. ASSUME NEW t \in B PROVE ParentOf[t] # NoSymbol /\ ParentOf[t] \in B
      BY <1>1, AncestorsUnfold
    <2>2. B = {}
      BY <2>1, NameInduction
    <2> QED BY <2>2
  <1>3. \A t \in Symbols : \A a \in Ancestors[t] : Ancestors[a] \subseteq Ancestors[t]
    <2> DEFINE B == {t \in Symbols : ~(\A a \in Ancestors[t] : Ancestors[a] \subseteq Ancestors[t])}
    <2>1. ASSUME NEW t \in B PROVE ParentOf[t] # NoSymbol /\ ParentOf[t] \in B
      BY <1>1, AncestorsUnfold
    <2>2. B = {}
      BY <2>1, NameInduction
    <2> QED BY <2>2
  <1>4. \A t \in Symbols : \A a, b \in Ancestors[t] : a = b \/ a \in Ancestors[b] \/ b \in Ancestors[a]
    <2> DEFINE Line(S) == \A a, b \in S : a = b \/ a \in Ancestors[b] \/ b \in Ancestors[a]
               B == {t \in Symbols : ~Line(Ancestors[t])}
    <2>1. ASSUME NEW t \in B PROVE ParentOf[t] # NoSymbol /\ ParentOf[t] \in B
      <3>1. t \in Symbols /\ ~Line(Ancestors[t])
        OBVIOUS
      <3>2. ParentOf[t] # NoSymbol /\ ParentOf[t] \in Symbols
            /\ Ancestors[t] = {ParentOf[t]} \cup Ancestors[ParentOf[t]]
        BY <3>1, <1>1, AncestorsUnfold
      <3>3. ~Line(Ancestors[ParentOf[t]])
        BY <3>1, <3>2
      <3> QED BY <3>2, <3>3
    <2>2. B = {}
      BY <2>1, NameInduction
    <2> QED BY <2>2
  <1> QED BY <1>2, <1>3, <1>4

\* A package, those around it, and where a name is among them.
LEMMA ChainFacts ==
  ASSUME NEW p \in Symbols \cup {NoSymbol}
  PROVE  /\ Chain(p) \subseteq Symbols
         /\ \A a \in Chain(p) : Ancestors[a] \subseteq Chain(p)
         /\ \A a, b \in Chain(p) : a = b \/ a \in Ancestors[b] \/ b \in Ancestors[a]
  <1>1. CASE p = NoSymbol
    BY <1>1 DEF Chain
  <1>2. CASE p # NoSymbol
    BY <1>2, AncestorsAreNames DEF Chain
  <1> QED BY <1>1, <1>2

-----------------------------------------------------------------------------
\* The text of the files.

LEMMA TextStays ==
  ASSUME database' = database
  PROVE  /\ \A f : Closure(f)' = Closure(f) /\ Within(f)' = Within(f) /\ Package(f)' = Package(f)
         /\ \A f : Reached({f}, PublicOf)' = Reached({f}, PublicOf)
         /\ \A f, s : Declared(f, s)' = Declared(f, s) /\ Declarer(f, s)' = Declarer(f, s)
         /\ \A f, u, i : Decides(f, u, i)' <=> Decides(f, u, i)
         /\ \A f, u : Meaning(f, u)' = Meaning(f, u)
         /\ \A f : Imports(f)' = Imports(f)
  <1>1. \A f : Imports(f)' = Imports(f) /\ PublicImports(f)' = PublicImports(f)
    BY DEF Imports, PublicImports
  <1>2. ImportOf' = ImportOf /\ PublicOf' = PublicOf
    BY <1>1 DEF ImportOf, PublicOf
  <1>3. \A F : Reached(F, PublicOf)' = Reached(F, PublicOf) /\ Reached(F, ImportOf)' = Reached(F, ImportOf)
    BY <1>2 DEF Reached
  <1>4. \A f : Closure(f)' = Closure(f)
    BY <1>3 DEF Closure
  <1>5. \A f : Within(f)' = Within(f)
    <2> SUFFICES ASSUME NEW f PROVE Within(f)' = Within(f)
      OBVIOUS
    <2>1. Reached(Imports(f), PublicOf)' = Reached(Imports(f), PublicOf)
      BY <1>1, <1>2 DEF Reached
    <2> QED BY <2>1 DEF Within
  <1>6. \A f : Package(f)' = Package(f)
    BY DEF Package, Chain
  <1>7. \A f, s : Declared(f, s)' = Declared(f, s) /\ Declarer(f, s)' = Declarer(f, s)
    BY <1>5 DEF Declared, Declarer
  <1>8. \A f, u, i : Decides(f, u, i)' <=> Decides(f, u, i)
    BY <1>7 DEF Decides
  <1>9. \A f, u : Meaning(f, u)' = Meaning(f, u)
    BY <1>8 DEF Meaning
  <1> QED BY <1>1, <1>3, <1>4, <1>5, <1>6, <1>7, <1>8, <1>9

LEMMA PackageTypes ==
  ASSUME database \in Databases, NEW f \in Files
  PROVE  /\ database.proto[f].package \in Symbols \cup {NoSymbol}
         /\ Package(f) \subseteq Symbols
         /\ \A a \in Package(f) : Ancestors[a] \subseteq Package(f)
         /\ \A a, b \in Package(f) : a = b \/ a \in Ancestors[b] \/ b \in Ancestors[a]
         /\ \A s \in Symbols : s \in Package(f) <=>
              LET p == database.proto[f].package IN p = s \/ (p # NoSymbol /\ s \in Ancestors[p])
  <1>1. database.proto[f] \in Proto \cup {NoProto}
    BY PoolAssumption
  <1>2. database.proto[f].package \in Symbols \cup {NoSymbol}
    BY <1>1 DEF Proto, NoProto
  <1>3. /\ Package(f) \subseteq Symbols
        /\ \A a \in Package(f) : Ancestors[a] \subseteq Package(f)
        /\ \A a, b \in Package(f) : a = b \/ a \in Ancestors[b] \/ b \in Ancestors[a]
    BY <1>2, ChainFacts DEF Package
  <1>4. \A s \in Symbols : s \in Package(f) <=>
          LET p == database.proto[f].package IN p = s \/ (p # NoSymbol /\ s \in Ancestors[p])
    BY PoolAssumption DEF Package, Chain
  <1> QED BY <1>2, <1>3, <1>4

\* What a name means, scope by scope.
LEMMA MeaningIs ==
  ASSUME NEW f, NEW u \in Use, NEW i \in 1..Len(u.scopes), Decides(f, u, i),
         \A j \in 1..(i - 1) : ~Decides(f, u, j)
  PROVE  Meaning(f, u) = u.scopes[i].full
  <1> DEFINE Fits(k) == Decides(f, u, k) /\ \A j \in 1..(k - 1) : ~Decides(f, u, j)
  <1>1. DOMAIN u.scopes = 1..Len(u.scopes) /\ Len(u.scopes) \in Nat
    BY DEF Use
  <1>2. i \in DOMAIN u.scopes /\ Fits(i)
    BY <1>1
  <1>3. \A k \in DOMAIN u.scopes : Fits(k) => k = i
    <2> SUFFICES ASSUME NEW k \in 1..Len(u.scopes), Fits(k), k # i PROVE FALSE
      BY <1>1
    <2>1. k < i \/ i < k
      OBVIOUS
    <2>2. CASE k < i
      <3>1. k \in 1..(i - 1)
        BY <2>2
      <3> QED BY <3>1
    <2>3. CASE i < k
      <3>1. i \in 1..(k - 1)
        BY <2>3
      <3> QED BY <3>1
    <2> QED BY <2>1, <2>2, <2>3
  <1>4. Meaning(f, u) = u.scopes[CHOOSE k \in DOMAIN u.scopes : Fits(k)].full
    BY DEF Meaning
  <1> HIDE DEF Fits
  <1>5. (CHOOSE k \in DOMAIN u.scopes : Fits(k)) = i
    BY <1>2, <1>3
  <1> QED BY <1>4, <1>5

-----------------------------------------------------------------------------
\* What is found is what is declared.

\* A file that a clean one gets at is clean.
LEMMA CleanFiles ==
  ASSUME DInv, Named, NEW id \in Live, Clean(id), NEW g \in Closure(descriptors[id].name), FileBy(id, g)
  PROVE  /\ files_by_name_[g] \in Live /\ descriptors[files_by_name_[g]].name = g
         /\ Clean(files_by_name_[g]) /\ g \in Files /\ files_by_name_[g] \in Nat \ {0}
  <1> DEFINE e == files_by_name_[g]  f == descriptors[id].name
  <1>1. id \in 1..Len(descriptors) /\ database \in Databases /\ f \in Files
    BY LiveFacts, DescriptorTypes DEF DInv, Types
  <1>2. g \in Files /\ Closure(g) \subseteq Closure(f)
    BY <1>1, ClosureFacts
  <1>3. e \in Nat /\ e # 0 /\ e <= id /\ e \in Live /\ descriptors[e].name = g
    BY <1>2 DEF DInv, Types, Held, FileBy, Named
  <1>4. Clean(e)
    <2> SUFFICES ASSUME NEW i \in 1..Len(builders), LinkBuilder(i), builders[i].had_errors_,
                        builders[i].filename_ \in Closure(g)
                 PROVE  builders[i].file_ > e
      BY <1>3 DEF Clean
    <2>1. builders[i].file_ > id
      BY <1>2 DEF Clean
    <2>2. builders[i].file_ \in Nat
      BY BuilderTypes DEF DInv, Builder
    <2> QED BY <1>1, <1>3, <2>1, <2>2
  <1> QED BY <1>2, <1>3, <1>4

LEMMA DeclaredIsThere ==
  ASSUME DInv, MInv, NEW id \in Live, Clean(id), NEW g \in Closure(descriptors[id].name), FileBy(id, g)
  PROVE  /\ \A d \in database.proto[g].declares :
              d.name \in Symbols /\ symbols_by_name_[d.name] = [file |-> files_by_name_[g], type |-> d.type]
         /\ \A q \in Package(g) : EntryBy(files_by_name_[g], q, {"package"})
  <1> DEFINE e == files_by_name_[g]
  <1>1. e \in Live /\ descriptors[e].name = g /\ Clean(e) /\ g \in Files /\ e \in Nat
    BY CleanFiles DEF MInv
  <1>2. Whole(e)
    <2> SUFFICES ASSUME NEW i \in 1..Len(builders), LinkBuilder(i), builders[i].file_ = e, builders[i].had_errors_
                 PROVE  FALSE
      BY <1>1 DEF DInv, Wholes, LinkBuilder
    <2>1. builders[i].filename_ = g
      BY <1>1 DEF MInv, Named
    <2>2. g \in Closure(g)
      BY <1>1, ClosureFacts DEF DInv, Types
    <2>3. builders[i].file_ > e
      BY <1>1, <2>1, <2>2 DEF Clean
    <2> QED BY <1>1, <2>3
  <1>3. \A d \in database.proto[g].declares : d.name \in Symbols
    BY <1>1, ProtoTypes DEF Declaration, DInv, Types
  <1>4. Entered(e)
    BY <1>1 DEF MInv
  <1> QED BY <1>1, <1>2, <1>3, <1>4 DEF Whole, Entered

\* What a file finds of a name in the table.
Seen(near, s) ==
  \/ symbols_by_name_[s].file \in near
  \/ symbols_by_name_[s].type = "package" /\ \E e \in near : InPackage(e, s)
NearOf(f) == {files_by_name_[g] : g \in Within(f)}

LEMMA FoundIsDeclared ==
  ASSUME DInv, MInv, NEW id \in Live, Clean(id),
         \A g \in Within(descriptors[id].name) : FileBy(id, g), NEW s \in Symbols
  PROVE  LET f == descriptors[id].name  r == symbols_by_name_[s]
         IN /\ Seen(NearOf(f), s) => r # NullSymbol /\ Declared(f, s) = {r.type}
            /\ ~Seen(NearOf(f), s) => Declared(f, s) = {}
            /\ Seen(NearOf(f), s) /\ r.type = "message" => Declarer(f, s) # {} /\ r.file <= id
  <1> DEFINE f == descriptors[id].name  r == symbols_by_name_[s]
  <1>1. id \in 1..Len(descriptors) /\ database \in Databases /\ f \in Files /\ r \in SymbolEntry
    BY LiveFacts, DescriptorTypes DEF DInv, Types
  <1>2. Within(f) \subseteq Closure(f) /\ Closure(f) \subseteq Files
    BY <1>1, WithinFacts, ClosureFacts
  <1>3. ASSUME NEW g \in Within(f)
        PROVE  /\ files_by_name_[g] \in Live /\ descriptors[files_by_name_[g]].name = g
               /\ files_by_name_[g] # 0 /\ files_by_name_[g] <= id
               /\ \A d \in database.proto[g].declares : symbols_by_name_[d.name] = [file |-> files_by_name_[g], type |-> d.type]
               /\ \A q \in Package(g) : symbols_by_name_[q].type = "package"
               /\ g \in Files
               /\ InPackage(files_by_name_[g], s) <=> s \in Package(g)
    <2>1. g \in Closure(f) /\ FileBy(id, g)
      BY <1>2
    <2>2. files_by_name_[g] \in Live /\ descriptors[files_by_name_[g]].name = g /\ g \in Files
      BY <2>1, CleanFiles DEF MInv
    <2>3. InPackage(files_by_name_[g], s) <=> s \in Package(g)
      BY <2>2, <1>1, PackageTypes DEF InPackage
    <2> QED BY <2>1, <2>2, <2>3, DeclaredIsThere DEF FileBy, EntryBy
  <1>4. ASSUME NEW t \in Declared(f, s) PROVE Seen(NearOf(f), s) /\ r.type = t /\ t # "null"
    <2>1. CASE \E g \in Within(f) : \E d \in database.proto[g].declares : d.name = s /\ d.type = t
      <3>0. PICK g \in Within(f) : \E d \in database.proto[g].declares : d.name = s /\ d.type = t
        BY <2>1
      <3>1. PICK d \in database.proto[g].declares : d.name = s /\ d.type = t
        BY <3>0
      <3>2. r = [file |-> files_by_name_[g], type |-> t]
        BY <3>1, <1>3
      <3>3. d \in Declaration
        BY <3>1, <1>3, <1>1, ProtoTypes
      <3> QED BY <3>2, <3>3, <3>1 DEF Seen, NearOf, Declaration
    <2>2. CASE t = "package" /\ \E g \in Within(f) : s \in Package(g)
      <3>1. PICK g \in Within(f) : s \in Package(g)
        BY <2>2
      <3>2. r.type = "package" /\ InPackage(files_by_name_[g], s)
        BY <3>1, <1>3
      <3> QED BY <3>2, <2>2 DEF Seen, NearOf
    <2>3. \A g \in Within(f) : LET p == database.proto[g].package IN
             (p = s \/ (p # NoSymbol /\ s \in Ancestors[p])) <=> s \in Package(g)
      BY <1>1, <1>3, PackageTypes
    <2> QED BY <2>1, <2>2, <2>3 DEF Declared
  <1>5. ASSUME Seen(NearOf(f), s) PROVE r.type \in Declared(f, s)
    <2>1. CASE r.file \in NearOf(f)
      <3>1. PICK g \in Within(f) : r.file = files_by_name_[g]
        BY <2>1 DEF NearOf
      <3>2. r.file # 0 /\ descriptors[r.file].name = g
        BY <3>1, <1>3
      <3>3. CASE r.type = "package"
        <4>1. s \in Package(g)
          BY <3>2, <3>3 DEF MInv, Provenance
        <4>2. LET p == database.proto[g].package IN p = s \/ (p # NoSymbol /\ s \in Ancestors[p])
          BY <4>1, <1>1, <1>3, PackageTypes
        <4> QED BY <4>2, <3>3 DEF Declared
      <3>4. CASE r.type # "package"
        <4>1. [name |-> s, type |-> r.type] \in database.proto[g].declares
          BY <3>2, <3>4 DEF MInv, Provenance
        <4> QED BY <4>1 DEF Declared
      <3> QED BY <3>3, <3>4
    <2>2. CASE r.type = "package" /\ \E e \in NearOf(f) : InPackage(e, s)
      <3>1. PICK g \in Within(f) : InPackage(files_by_name_[g], s)
        BY <2>2 DEF NearOf
      <3>2. LET p == database.proto[g].package IN p = s \/ (p # NoSymbol /\ s \in Ancestors[p])
        BY <3>1, <1>1, <1>3, PackageTypes
      <3> QED BY <3>2, <2>2 DEF Declared
    <2> QED BY <1>5, <2>1, <2>2 DEF Seen
  <1>6. ASSUME Seen(NearOf(f), s), r.type = "message" PROVE Declarer(f, s) # {} /\ r.file <= id
    <2>1. PICK g \in Within(f) : r.file = files_by_name_[g]
      BY <1>6 DEF Seen, NearOf
    <2>2. r.file # 0 /\ r.file <= id /\ descriptors[r.file].name = g
      BY <2>1, <1>3
    <2>3. [name |-> s, type |-> "message"] \in database.proto[g].declares
      BY <2>2, <1>6 DEF MInv, Provenance
    <2>4. g \in Declarer(f, s)
      BY <2>3 DEF Declarer
    <2> QED BY <2>2, <2>4
  <1>7. Seen(NearOf(f), s) => r.type # "null" /\ Declared(f, s) = {r.type}
    BY <1>4, <1>5
  <1>8. ~Seen(NearOf(f), s) => Declared(f, s) = {}
    BY <1>4
  <1> QED BY <1>6, <1>7, <1>8 DEF NullSymbol

-----------------------------------------------------------------------------
\* What does not change.

TableStays(id) ==
  /\ \A f \in Files : FileBy(id, f) => files_by_name_'[f] = files_by_name_[f]
  /\ \A s \in Symbols : symbols_by_name_[s].type # "null" /\ symbols_by_name_[s].file <= id
                        => symbols_by_name_'[s] = symbols_by_name_[s]

\* What holds of a file as long as the tables keep what was there with it.
LEMMA IdStays ==
  ASSUME database' = database, database \in Databases, NEW id \in Nat, descriptors[id].name \in Files,
         descriptors'[id] = descriptors[id], files_by_name_ \in [Files -> Nat], TableStays(id)
  PROVE  /\ Entered(id) => Entered(id)'
         /\ \A j : Right(id, j) => Right(id, j)'
  <1> DEFINE f == descriptors[id].name
  <1>1. ASSUME NEW g \in Files, FileBy(id, g)
        PROVE  FileBy(id, g)' /\ files_by_name_'[g] = files_by_name_[g]
    BY <1>1 DEF FileBy, TableStays
  <1>2. ASSUME NEW s \in Symbols, NEW T, "null" \notin T, EntryBy(id, s, T)
        PROVE  symbols_by_name_'[s] = symbols_by_name_[s]
    BY <1>2 DEF EntryBy, TableStays
  <1>3. ASSUME Entered(id) PROVE Entered(id)'
    <2> DEFINE p == database.proto[f]  d == descriptors[id].dependencies  R == Reached({f}, PublicOf)
    <2>1. /\ Len(d) = Len(p.dependency)
          /\ \A i \in 1..Len(d) : d[i] = files_by_name_[p.dependency[i]] /\ d[i] # 0 /\ d[i] < id
          /\ \A g \in R : FileBy(id, g)
          /\ descriptors[id].exports = {files_by_name_[g] : g \in R}
          /\ \A q \in Package(f) : EntryBy(id, q, {"package"})
      BY <1>3 DEF Entered
    <2>2. R \subseteq Files /\ R' = R /\ Package(f) \subseteq Symbols /\ Package(f)' = Package(f)
      <3>1. R \subseteq Files /\ Package(f) \subseteq Symbols
        BY ImportTypes, ReachedFacts, PackageTypes
      <3>2. descriptors'[id].name = f
        OBVIOUS
      <3>3. R' = R
        BY <3>2, TextStays
      <3>4. Package(f)' = Package(f)
        BY <3>2, TextStays
      <3> QED BY <3>1, <3>3, <3>4
    <2>3. \A i \in 1..Len(d) : files_by_name_'[p.dependency[i]] = files_by_name_[p.dependency[i]]
      <3> SUFFICES ASSUME NEW i \in 1..Len(d)
                   PROVE  files_by_name_'[p.dependency[i]] = files_by_name_[p.dependency[i]]
        OBVIOUS
      <3>1. p.dependency \in Seq(Files)
        BY ProtoTypes
      <3>2. p.dependency[i] \in Files /\ d[i] = files_by_name_[p.dependency[i]]
        <4>1. i \in 1..Len(p.dependency) /\ d[i] = files_by_name_[p.dependency[i]]
          BY <2>1
        <4> HIDE DEF d, p
        <4> QED BY ONLY <4>1, <3>1
      <3>3. d[i] # 0 /\ d[i] < id /\ d[i] \in Nat
        BY <3>2, <2>1
      <3>4. d[i] <= id
        BY <3>3
      <3>5. FileBy(id, p.dependency[i])
        BY <3>2, <3>3, <3>4 DEF FileBy
      <3> QED BY <3>2, <3>5, <1>1
    <2>4. \A g \in R : FileBy(id, g)' /\ files_by_name_'[g] = files_by_name_[g]
      BY <2>1, <2>2, <1>1
    <2>5. \A q \in Package(f) : EntryBy(id, q, {"package"})'
      <3> SUFFICES ASSUME NEW q \in Package(f) PROVE EntryBy(id, q, {"package"})'
        OBVIOUS
      <3>1. symbols_by_name_'[q] = symbols_by_name_[q] /\ EntryBy(id, q, {"package"})
        BY <2>1, <2>2, <1>2
      <3> QED BY <3>1 DEF EntryBy
    <2>6. {files_by_name_'[g] : g \in R} = {files_by_name_[g] : g \in R}
      BY <2>4
    <2> HIDE DEF R
    <2>7. /\ Len(d') = Len(p'.dependency)
          /\ \A i \in 1..Len(d') : d'[i] = files_by_name_'[p'.dependency[i]] /\ d'[i] # 0 /\ d'[i] < id
          /\ \A g \in R' : FileBy(id, g)'
          /\ descriptors'[id].exports = {files_by_name_'[g] : g \in R'}
          /\ \A q \in Package(f)' : EntryBy(id, q, {"package"})'
      <3>1. d' = d /\ p' = p
        BY <1>1
      <3> HIDE DEF d, p
      <3>2. \A i \in 1..Len(d) : d[i] = files_by_name_'[p.dependency[i]] /\ d[i] # 0 /\ d[i] < id
        BY <2>1, <2>3
      <3>3. descriptors'[id].exports = descriptors[id].exports
        OBVIOUS
      <3> QED BY <2>1, <2>2, <2>4, <2>5, <2>6, <3>1, <3>2, <3>3
    <2> QED BY <2>7 DEF Entered, R
  <1>4. ASSUME NEW j, Right(id, j) PROVE Right(id, j)'
    <2> DEFINE s == Meaning(f, database.proto[f].uses[j])
    <2>1. s' = s /\ Declarer(f, s)' = Declarer(f, s)
      <3>1. f' = f /\ database'.proto[f].uses[j] = database.proto[f].uses[j]
        OBVIOUS
      <3>2. s' = s
        BY <3>1, TextStays
      <3>3. Declarer(f, s)' = Declarer(f, s)
        BY <3>1, <3>2, TextStays
      <3> QED BY <3>2, <3>3
    <2>2. /\ s \in Symbols /\ EntryBy(id, s, {"message"})
          /\ descriptors[id].links[j] = symbols_by_name_[s].file /\ Declarer(f, s) # {}
      BY <1>4 DEF Right
    <2>3. symbols_by_name_'[s] = symbols_by_name_[s]
      BY <2>2, <1>2
    <2> HIDE DEF s
    <2>4. /\ s' \in Symbols /\ EntryBy(id, s, {"message"})'
          /\ descriptors'[id].links[j] = symbols_by_name_'[s'].file /\ Declarer(f, s)' # {}
      BY <2>1, <2>2, <2>3 DEF EntryBy
    <2> QED BY <2>4 DEF Right, s
  <1> QED BY <1>3, <1>4

LEMMA UnderwayStays ==
  ASSUME database' = database, database \in Databases, NEW b \in Builder, NEW n, NEW w, NEW w2,
         TableStays(b.file_), w2 => w \/ Waits(b), Underway(b, n, w)
  PROVE  Underway(b, n, w2)'
  <1> DEFINE f == b.filename_  W == Within(f)
  <1>1. /\ W' = W
        /\ \A u, j : Decides(f, u, j)' <=> Decides(f, u, j)
        /\ \A s : Declared(f, s)' = Declared(f, s)
        /\ \A u : Meaning(f, u)' = Meaning(f, u)
        /\ SoughtBy(b)' = SoughtBy(b)
    <2>1. SoughtBy(b)' = SoughtBy(b)
      BY DEF SoughtBy
    <2> QED BY <2>1, TextStays
  <1>2. W \subseteq Files
    BY WithinFacts, ClosureFacts DEF Builder
  <1>3. /\ \A g \in W : FileBy(b.file_, g)
        /\ b.dependencies_ \cup {b.file_} = {files_by_name_[g] : g \in W}
    BY DEF Underway
  <1>4. \A g \in W : FileBy(b.file_, g)' /\ files_by_name_'[g] = files_by_name_[g]
    BY <1>2, <1>3 DEF TableStays, FileBy
  <1>5. {files_by_name_'[g] : g \in W} = {files_by_name_[g] : g \in W}
    BY <1>4
  <1>6. /\ \A g \in W' : FileBy(b.file_, g)'
        /\ b.dependencies_ \cup {b.file_} = {files_by_name_'[g] : g \in W'}
    <2> HIDE DEF W
    <2> QED BY <1>1, <1>3, <1>4, <1>5
  <1>7. n = b.next - 1 /\ ScopesTried(b) /\ NumbersTaken(b) /\ (w2 => Waits(b))
    BY DEF Underway
  <1>8. ScopesTried(b)'
    BY <1>1, <1>7 DEF ScopesTried
  <1>9. NumbersTaken(b)'
    BY <1>1, <1>7 DEF NumbersTaken
  <1>10. Waits(b) => Waits(b)'
    BY <1>1 DEF Waits
  <1> QED BY <1>6, <1>7, <1>8, <1>9, <1>10 DEF Underway

\* The builders that link are the same.
SameLinkers ==
  /\ \A i \in 1..Len(builders') : builders'[i].stage = "link" => i \in 1..Len(builders) /\ builders'[i] = builders[i]
  /\ \A i \in 1..Len(builders) : builders[i].stage = "link" => i \in 1..Len(builders') /\ builders'[i] = builders[i]

\* A step that changes no tables and nothing of the builders that link.
LEMMA QuietStep ==
  ASSUME DInv, MInv, UNCHANGED <<database, tables>>, SameLinkers,
         \A i \in 1..Len(builders) :
           LinkBuilder(i) /\ (i < Len(builders') \/ fallback' # "unasked") /\ Clean(builders[i].file_)
           => i < Len(builders) \/ fallback # "unasked" \/ Waits(builders[i])
  PROVE  MInv'
  <1>1. /\ database' = database /\ database \in Databases /\ descriptors' = descriptors
        /\ files_by_name_' = files_by_name_ /\ symbols_by_name_' = symbols_by_name_
        /\ Live' = Live
    BY DEF tables, DInv, Types, Live
  <1>2. \A i \in 1..Len(builders') : LinkBuilder(i)' => i \in 1..Len(builders) /\ LinkBuilder(i) /\ builders'[i] = builders[i]
    BY DEF SameLinkers, LinkBuilder
  <1>3. \A i \in 1..Len(builders) : LinkBuilder(i) => i \in 1..Len(builders') /\ LinkBuilder(i)' /\ builders'[i] = builders[i]
    BY DEF SameLinkers, LinkBuilder
  <1>4. \A id : Clean(id)' <=> Clean(id)
    <2> SUFFICES ASSUME NEW id PROVE Clean(id)' <=> Clean(id)
      OBVIOUS
    <2>1. Closure(descriptors[id].name)' = Closure(descriptors[id].name)
      BY <1>1, TextStays
    <2> QED BY <2>1, <1>2, <1>3 DEF Clean
  <1>5. Named'
    BY <1>1, <1>2 DEF MInv, Named
  <1>6. Provenance'
    <2>1. \A f : Package(f)' = Package(f)
      BY <1>1, TextStays
    <2>2. Provenance
      BY DEF MInv
    <2> QED BY <1>1, <2>1, <2>2 DEF Provenance
  <1>7. Around'
    BY <1>1 DEF MInv, Around, EntryBy
  <1>8. ASSUME NEW id \in Live', Clean(id)' PROVE Entered(id)' /\ Linked(id)'
    <2>1. id \in Live /\ Clean(id) /\ Entered(id) /\ Linked(id)
      BY <1>1, <1>4, <1>8 DEF MInv
    <2>2. id \in Nat /\ descriptors[id].name \in Files /\ files_by_name_ \in [Files -> Nat]
      BY <2>1, LiveFacts, DescriptorTypes DEF DInv, Types
    <2>3. TableStays(id)
      BY <1>1 DEF TableStays
    <2>4. Entered(id)' /\ \A j : Right(id, j) => Right(id, j)'
      BY <2>1, <2>2, <2>3, <1>1, IdStays
    <2> QED BY <2>1, <2>4, <1>1, <1>3 DEF Linked
  <1>9. ASSUME NEW i \in 1..Len(builders'), LinkBuilder(i)', Clean(builders[i].file_)'
        PROVE  Underway(builders[i], Len(descriptors[builders[i].file_].links), i < Len(builders) \/ fallback # "unasked")'
    <2> DEFINE b == builders[i]
               n == Len(descriptors[b.file_].links)
               w == i < Len(builders) \/ fallback # "unasked"
    <2>1. i \in 1..Len(builders) /\ LinkBuilder(i) /\ builders'[i] = b /\ Clean(b.file_)
      BY <1>2, <1>4, <1>9
    <2>2. Underway(b, n, w) /\ b \in Builder
      BY <2>1, BuilderTypes DEF MInv, DInv
    <2>3. TableStays(b.file_) /\ n' = n /\ (w' => w \/ Waits(b))
      BY <1>1, <2>1 DEF TableStays
    <2>4. \A c, m, v : c = b /\ m = n /\ (v => w \/ Waits(b)) => Underway(c, m, v)'
      <3> SUFFICES ASSUME NEW c, NEW m, NEW v, c = b, m = n, v => w \/ Waits(b) PROVE Underway(c, m, v)'
        OBVIOUS
      <3>1. PICK u : u = w
        OBVIOUS
      <3>2. c \in Builder /\ TableStays(c.file_) /\ Underway(c, m, u) /\ (v => u \/ Waits(c))
        BY <2>2, <2>3, <3>1
      <3> HIDE DEF b, n, w
      <3> QED BY <3>2, <1>1, UnderwayStays
    <2> HIDE DEF n, w
    <2> QED BY <2>1, <2>3, <2>4 DEF n, w
  <1> QED BY <1>5, <1>6, <1>7, <1>8, <1>9 DEF MInv

-----------------------------------------------------------------------------
\* Steps that link nothing.

LEMMA PushLinkers ==
  ASSUME DInv, MInv, UNCHANGED <<database, tables>>,
         NEW bs \in Seq(Builder), Len(bs) = Len(builders),
         \A i \in 1..Len(builders) : (bs[i].stage = "link" \/ LinkBuilder(i)) => bs[i] = builders[i],
         \/ builders' = bs
         \/ \E f \in Files, by \in {"file", "index"} :
              files_by_name_[f] = 0 /\ builders' = Append(bs, NewBuilder(f, by)),
         builders # <<>> /\ LinkBuilder(Len(builders)) /\ Clean(builders[Len(builders)].file_)
         => Waits(builders[Len(builders)])
  PROVE  MInv'
  <1> DEFINE n == Len(builders)
  <1>1. n \in Nat /\ builders \in Seq(Builder)
    BY BuilderTypes DEF DInv, Types
  <1>2. /\ Len(builders') \in Nat /\ Len(builders') >= n
        /\ \A i \in 1..n : i \in 1..Len(builders') /\ builders'[i] = bs[i]
        /\ \A i \in 1..Len(builders') : i > n => builders'[i].stage = "begin"
    <2>1. CASE builders' = bs
      BY <2>1, <1>1
    <2>2. ASSUME NEW f \in Files, NEW by \in {"file", "index"}, builders' = Append(bs, NewBuilder(f, by))
          PROVE  <1>2
      <3> DEFINE b == NewBuilder(f, by)
      <3>1. b.stage = "begin"
        BY DEF NewBuilder
      <3> HIDE DEF b
      <3>2. Len(builders') = n + 1 /\ builders'[n + 1] = b /\ \A i \in 1..n : builders'[i] = bs[i]
        BY <2>2, <1>1 DEF b
      <3>3. \A i \in 1..Len(builders') : i > n => i = n + 1
        BY <3>2, <1>1
      <3> QED BY <3>1, <3>2, <3>3, <1>1
    <2> QED BY <2>1, <2>2
  <1>3. SameLinkers
    <2>1. ASSUME NEW i \in 1..Len(builders'), builders'[i].stage = "link"
          PROVE  i \in 1..n /\ builders'[i] = builders[i]
      <3>1. i \in 1..n
        BY <2>1, <1>1, <1>2
      <3> QED BY <3>1, <2>1, <1>2
    <2>2. ASSUME NEW i \in 1..n, builders[i].stage = "link"
          PROVE  i \in 1..Len(builders') /\ builders'[i] = builders[i]
      BY <2>2, <1>2 DEF LinkBuilder
    <2> QED BY <2>1, <2>2 DEF SameLinkers
  <1>4. \A i \in 1..n : LinkBuilder(i) /\ Clean(builders[i].file_) => i < n \/ Waits(builders[i])
    <2> SUFFICES ASSUME NEW i \in 1..n, LinkBuilder(i), Clean(builders[i].file_), ~(i < n)
                 PROVE  Waits(builders[i])
      OBVIOUS
    <2>1. i = n /\ builders # <<>>
      BY <1>1
    <2> QED BY <2>1
  <1> QED BY <1>3, <1>4, QuietStep

LEMMA AskMeans ==
  ASSUME DInv, MInv, Ask
  PROVE  MInv'
  <1>1. builders = <<>> /\ builders' = builders /\ UNCHANGED <<database, tables>>
    BY DEF Ask
  <1>2. builders \in Seq(Builder) /\ Len(builders) = 0
    BY <1>1 DEF DInv, Types
  <1> QED BY <1>1, <1>2, PushLinkers

LEMMA AnswerMeans ==
  ASSUME DInv, MInv, Answer
  PROVE  MInv'
  <1>1. builders = <<>> /\ builders' = builders /\ UNCHANGED <<database, tables>>
    BY DEF Answer
  <1>2. builders \in Seq(Builder) /\ Len(builders) = 0
    BY <1>1 DEF DInv, Types
  <1> QED BY <1>1, <1>2, PushLinkers

\* What the database is asked for, outside of a file.
LEMMA AskDatabasePushes ==
  ASSUME DInv, AskDatabase
  PROVE  \/ builders' = builders
         \/ \E f \in Files, by \in {"file", "index"} :
              files_by_name_[f] = 0 /\ builders' = Append(builders, NewBuilder(f, by))
  <1>1. request \in Request /\ database \in Databases
    BY DEF AskDatabase, DInv, Types
  <1>2. CASE request.kind = "file"
    <2>1. request.name \in Files /\ files_by_name_[request.name] = 0 /\ TryFindFile(builders, request.name)
      BY <1>1, <1>2 DEF AskDatabase, InTables, Request
    <2> QED BY <2>1, FilePushes
  <1>3. CASE request.kind = "symbol"
    <2>1. request.name \in Symbols /\ TryFindSymbol(builders, request.name)
      BY <1>1, <1>3 DEF AskDatabase, Request
    <2> QED BY <1>1, <2>1, SymbolPushes
  <1>4. CASE request.kind = "extension"
    <2>1. request.name \in Symbols /\ TryIndexed(builders, database.extension[request.name])
      BY <1>1, <1>4 DEF AskDatabase, Request
    <2>2. database.extension[request.name] \in Files \cup {NoFile}
      BY <1>1, <2>1, PoolAssumption
    <2> QED BY <2>1, <2>2, IndexedPushes
  <1>5. request.kind \in {"file", "symbol", "extension"}
    BY <1>1 DEF Request
  <1> QED BY <1>2, <1>3, <1>4, <1>5

LEMMA AskDatabaseMeans ==
  ASSUME DInv, MInv, AskDatabase
  PROVE  MInv'
  <1>1. builders = <<>> /\ UNCHANGED <<database, tables>>
    BY DEF AskDatabase
  <1>2. builders \in Seq(Builder) /\ Len(builders) = 0
    BY <1>1 DEF DInv, Types
  <1> QED BY <1>1, <1>2, AskDatabasePushes, PushLinkers

LEMMA BeginMeans ==
  ASSUME DInv, MInv, Begin
  PROVE  MInv'
  <1> DEFINE n == Len(builders)
  <1>1. /\ builders # <<>> /\ n \in 1..n /\ n \in Nat /\ Top = builders[n] /\ Top.stage = "begin"
        /\ Top \in Builder /\ UNCHANGED <<database, tables>>
    BY BuilderTypes DEF Begin, At, Top, DInv
  <1>2. \A i \in 1..n : LinkBuilder(i) => i < n
    BY <1>1 DEF LinkBuilder
  <1>3. CASE Recursive(Top.filename_)
    <2>1. builders' = SubSeq(builders, 1, n - 1)
      BY <1>3 DEF Begin, Return
    <2>2. /\ Len(builders') = n - 1
          /\ \A i \in 1..Len(builders') : i \in 1..n /\ i < n /\ builders'[i] = builders[i]
          /\ \A i \in 1..n : i < n => i \in 1..Len(builders')
      BY <2>1, <1>1, PopFacts DEF DInv
    <2>3. SameLinkers
      BY <2>2, <1>2 DEF SameLinkers, LinkBuilder
    <2> QED BY <2>3, <1>1, <1>2, QuietStep
  <1>4. CASE ~Recursive(Top.filename_)
    <2> DEFINE b == [Top EXCEPT !.stage = "import"]
    <2>1. b \in Builder /\ b.stage = "import"
      BY <1>1 DEF Builder
    <2>2. builders' = WithTop(b)
      BY <1>4 DEF Begin
    <2> HIDE DEF b
    <2>3. Len(builders') = n /\ builders'[n] = b /\ \A i \in 1..n : i # n => builders'[i] = builders[i]
      BY <2>1, <2>2, <1>1, WithTopFacts DEF DInv
    <2>4. SameLinkers
      BY <2>1, <2>3, <1>1 DEF SameLinkers
    <2> QED BY <2>4, <1>1, <1>2, QuietStep
  <1> QED BY <1>3, <1>4

LEMMA ImportPushes ==
  ASSUME DInv, ImportNext
  PROVE  LET f == ProtoOf(Top).dependency[Top.next]
             b == [Top EXCEPT !.next = @ + 1]
             bs == WithTop(b)
         IN /\ builders # <<>> /\ Len(builders) \in 1..Len(builders) /\ Top = builders[Len(builders)]
            /\ Top \in Builder /\ Top.stage = "import" /\ f \in Files /\ b \in Builder
            /\ bs \in Seq(Builder) /\ Len(bs) = Len(builders) /\ bs[Len(builders)] = b
            /\ \A i \in 1..Len(builders) : i # Len(builders) => bs[i] = builders[i]
            /\ \/ builders' = bs
               \/ \E g \in Files, by \in {"file", "index"} :
                    files_by_name_[g] = 0 /\ builders' = Append(bs, NewBuilder(g, by))
  <1> DEFINE n == Len(builders)
             f == ProtoOf(Top).dependency[Top.next]
             b == [Top EXCEPT !.next = @ + 1]
             bs == WithTop(b)
  <1>1. /\ n \in 1..n /\ Top = builders[n] /\ Top.stage = "import" /\ Top \in Builder /\ builders # <<>>
        /\ Top.next <= Len(ProtoOf(Top).dependency)
    BY BuilderTypes DEF DInv, ImportNext, At, Top
  <1>2. f \in Files
    <2>1. Top.filename_ \in Files /\ Top.next \in Nat \ {0} /\ database \in Databases
      BY <1>1 DEF Builder, DInv, Types
    <2>2. ProtoOf(Top).dependency \in Seq(Files)
      BY <2>1, ProtoTypes DEF ProtoOf
    <2> QED BY <1>1, <2>1, <2>2
  <1>3. b \in Builder
    BY <1>1 DEF Builder
  <1>4. /\ bs \in Seq(Builder) /\ Len(bs) = n /\ bs[n] = b
        /\ \A i \in 1..n : i # n => bs[i] = builders[i]
    BY <1>1, <1>3, WithTopFacts DEF DInv
  <1>5. \/ builders' = bs
        \/ \E g \in Files, by \in {"file", "index"} :
             files_by_name_[g] = 0 /\ builders' = Append(bs, NewBuilder(g, by))
    <2>1. CASE files_by_name_[f] = 0
      <3>1. TryFindFile(bs, f)
        BY <2>1 DEF ImportNext
      <3> QED BY <3>1, <2>1, <1>2, FilePushes
    <2>2. CASE files_by_name_[f] # 0
      BY <2>2 DEF ImportNext
    <2> QED BY <2>1, <2>2
  <1> QED BY <1>1, <1>2, <1>3, <1>4, <1>5

LEMMA ImportMeans ==
  ASSUME DInv, MInv, ImportNext
  PROVE  MInv'
  <1> DEFINE b == [Top EXCEPT !.next = @ + 1]
             bs == WithTop(b)
             n == Len(builders)
  <1>1. b.stage = "import" /\ UNCHANGED <<database, tables>>
    BY ImportPushes DEF ImportNext, Builder
  <1>2. /\ n \in 1..n /\ builders[n].stage = "import" /\ bs \in Seq(Builder) /\ Len(bs) = n /\ bs[n] = b
        /\ \A i \in 1..n : i # n => bs[i] = builders[i]
        /\ \/ builders' = bs
           \/ \E g \in Files, by \in {"file", "index"} :
                files_by_name_[g] = 0 /\ builders' = Append(bs, NewBuilder(g, by))
    BY ImportPushes
  <1> HIDE DEF b, bs
  <1>3. \A i \in 1..n : (bs[i].stage = "link" \/ LinkBuilder(i)) => bs[i] = builders[i]
    BY <1>1, <1>2 DEF LinkBuilder
  <1>4. ~LinkBuilder(n)
    BY <1>2 DEF LinkBuilder
  <1> QED BY <1>1, <1>2, <1>3, <1>4, PushLinkers

-----------------------------------------------------------------------------
\* Names are sought.

\* What is known when the builder on top links, in a clean file.
LEMMA TopLinks ==
  ASSUME DInv, MInv, Linking, Clean(Top.file_)
  PROVE  LET f == Top.filename_  id == Top.file_
         IN /\ id \in Live /\ descriptors[id].name = f /\ f \in Files /\ Sought = SoughtBy(Top)
            /\ Underway(Top, Len(descriptors[id].links), fallback # "unasked")
            /\ \A g \in Within(descriptors[id].name) : FileBy(id, g)
            /\ Top.dependencies_ \cup {id} = NearOf(f)
            /\ UseNow = database.proto[f].uses[Top.next] /\ Top.next <= Len(database.proto[f].uses)
  <1> DEFINE n == Len(builders)  f == Top.filename_  id == Top.file_
  <1>1. /\ Top \in Builder /\ n \in 1..n /\ Top = builders[n] /\ LinkBuilder(n) /\ n \in Nat
    BY LinkingFacts, BuilderTypes DEF LinkBuilder, DInv
  <1>2. id \in Live
    <2>1. PICK k \in 1..Len(checkpoints_) : id = Start(k)
      BY <1>1 DEF DInv, Stacked, LinkBuilder
    <2> QED BY <2>1, StartFacts DEF DInv
  <1>3. descriptors[id].name = f /\ f \in Files
    BY <1>1 DEF MInv, Named, Builder
  <1>4. Underway(Top, Len(descriptors[id].links), n < n \/ fallback # "unasked")
    BY <1>1 DEF MInv
  <1>5. ~(n < n)
    BY <1>1
  <1>6. Sought = SoughtBy(Top) /\ UseNow = database.proto[f].uses[Top.next] /\ Top.next <= Len(database.proto[f].uses)
    BY DEF Sought, SoughtBy, LastScope, UseNow, ProtoOf, Linking
  <1> QED BY <1>1, <1>2, <1>3, <1>4, <1>5, <1>6 DEF Underway, NearOf

LEMMA SeekMeans ==
  ASSUME DInv, MInv, SeekSymbol
  PROVE  MInv'
  <1> DEFINE n == Len(builders)
  <1>1. /\ Linking /\ Sought \in Symbols /\ symbols_by_name_[Sought] = NullSymbol
        /\ TryFindSymbol(builders, Sought) /\ Top = builders[n] /\ builders \in Seq(Builder)
        /\ UNCHANGED <<database, tables>>
    BY LinkingFacts DEF SeekSymbol, DInv, Types
  <1>2. \/ builders' = builders
        \/ \E g \in Files, by \in {"file", "index"} :
             files_by_name_[g] = 0 /\ builders' = Append(builders, NewBuilder(g, by))
    BY <1>1, SymbolPushes DEF DInv, Types
  <1>3. ASSUME Clean(Top.file_) PROVE Waits(Top)
    <2> DEFINE f == Top.filename_  id == Top.file_
    <2>1. /\ id \in Live /\ descriptors[id].name = f /\ \A g \in Within(descriptors[id].name) : FileBy(id, g)
          /\ Sought = SoughtBy(Top) /\ Top.next <= Len(database.proto[f].uses)
      BY <1>1, <1>3, TopLinks
    <2>2. ~Seen(NearOf(f), Sought)
      BY <2>1, <1>1, <1>3, FoundIsDeclared
    <2>3. Declared(f, Sought) = {}
      BY <2>1, <2>2, <1>1, <1>3, FoundIsDeclared
    <2> QED BY <2>1, <2>3 DEF Waits
  <1> QED BY <1>1, <1>2, <1>3, PushLinkers

-----------------------------------------------------------------------------
\* Names are linked.

\* The links of the file on top become l, its builder b.
Relinked(b, l) ==
  /\ builders' = WithTop(b) /\ SameTask(Top, b)
  /\ Len(descriptors') = Len(descriptors)
  /\ \A id \in 1..Len(descriptors) :
       /\ id # Top.file_ => descriptors'[id] = descriptors[id]
       /\ descriptors'[id].name = descriptors[id].name
       /\ descriptors'[id].dependencies = descriptors[id].dependencies
       /\ descriptors'[id].exports = descriptors[id].exports
  /\ descriptors'[Top.file_].links = l

\* A link is what the name means.
Means(id, j, l) ==
  LET f == descriptors[id].name  s == Meaning(f, database.proto[f].uses[j])
  IN s \in Symbols /\ EntryBy(id, s, {"message"}) /\ l = symbols_by_name_[s].file /\ Declarer(f, s) # {}

LEMMA CleanStays ==
  ASSUME DInv, MInv, Linking, NEW b \in Builder, NEW l, Relinked(b, l), database' = database,
         NEW id \in Live, Clean(id)'
  PROVE  Clean(id) /\ (id = Top.file_ => ~b.had_errors_)
  <1> DEFINE n == Len(builders)  f == descriptors[id].name
  <1>1. /\ n \in 1..n /\ Top = builders[n] /\ LinkBuilder(n) /\ Top \in Builder /\ builders # <<>>
    BY LinkingFacts DEF LinkBuilder
  <1>2. id \in 1..Len(descriptors) /\ f \in Files /\ id \in Nat
    BY LiveFacts, DescriptorTypes DEF DInv, Types
  <1>3. descriptors'[id].name = f
    BY <1>2 DEF Relinked
  <1>4. Closure(descriptors[id].name)' = Closure(f)
    BY <1>3, TextStays
  <1>5. /\ Len(builders') = n /\ builders'[n] = b
        /\ \A i \in 1..n : i # n => builders'[i] = builders[i]
    BY <1>1, WithTopFacts DEF DInv, Relinked
  <1>6. SameTask(Top, b)
    BY DEF Relinked
  <1>7. \A i \in 1..n : builders'[i].stage = "link" /\ builders'[i].had_errors_ /\ builders'[i].filename_ \in Closure(f)
                        => builders'[i].file_ > id
    BY <1>4, <1>5 DEF Clean, LinkBuilder
  <1>8. Clean(id)
    <2> SUFFICES ASSUME NEW i \in 1..n, LinkBuilder(i), builders[i].had_errors_, builders[i].filename_ \in Closure(f)
                 PROVE  builders[i].file_ > id
      BY DEF Clean
    <2>1. CASE i # n
      BY <2>1, <1>5, <1>7 DEF LinkBuilder
    <2>2. CASE i = n
      BY <2>2, <1>1, <1>5, <1>6, <1>7 DEF LinkBuilder, SameTask
    <2> QED BY <2>1, <2>2
  <1>9. ASSUME id = Top.file_ PROVE ~b.had_errors_
    <2>1. f = Top.filename_
      BY <1>1, <1>9 DEF MInv, Named
    <2>2. f \in Closure(f)
      BY <1>2, ClosureFacts DEF DInv, Types
    <2>3. b.stage = "link" /\ b.filename_ = f /\ b.file_ = id
      BY <2>1, <1>1, <1>6, <1>9 DEF SameTask, LinkBuilder
    <2> QED BY <2>2, <2>3, <1>1, <1>2, <1>5, <1>7
  <1> QED BY <1>8, <1>9

\* What is not of the links of a file.
LEMMA EntryStays ==
  ASSUME database' = database, files_by_name_' = files_by_name_, symbols_by_name_' = symbols_by_name_,
         NEW id, descriptors'[id].name = descriptors[id].name,
         descriptors'[id].dependencies = descriptors[id].dependencies,
         descriptors'[id].exports = descriptors[id].exports
  PROVE  /\ Entered(id) => Entered(id)'
         /\ \A j, l : Means(id, j, l) /\ descriptors'[id].links[j] = l => Right(id, j)'
  <1>1. PICK f : f = descriptors[id].name
    OBVIOUS
  <1>2. f = descriptors'[id].name
    BY <1>1
  <1>3. ASSUME Entered(id) PROVE Entered(id)'
    <2> DEFINE R == Reached({f}, PublicOf)  P == Package(f)
    <2>2. R' = R /\ P' = P
      BY TextStays
    <2>3. /\ Len(descriptors[id].dependencies) = Len(database.proto[f].dependency)
          /\ \A i \in 1..Len(descriptors[id].dependencies) :
               /\ descriptors[id].dependencies[i] = files_by_name_[database.proto[f].dependency[i]]
               /\ descriptors[id].dependencies[i] # 0 /\ descriptors[id].dependencies[i] < id
          /\ \A g \in R : FileBy(id, g)
          /\ descriptors[id].exports = {files_by_name_[g] : g \in R}
          /\ \A q \in P : EntryBy(id, q, {"package"})
      BY <1>1, <1>3 DEF Entered
    <2>4. (\A g \in R : FileBy(id, g)') /\ \A q \in P : EntryBy(id, q, {"package"})'
      BY <2>3 DEF FileBy, EntryBy
    <2> HIDE DEF R, P
    <2>5. /\ (\A g \in R' : FileBy(id, g)') /\ \A q \in P' : EntryBy(id, q, {"package"})'
          /\ descriptors'[id].exports = {files_by_name_'[g] : g \in R'}
      BY <2>2, <2>3, <2>4
    <2> QED BY <1>2, <2>3, <2>5 DEF Entered, R, P
  <1>4. ASSUME NEW j, NEW l, Means(id, j, l), descriptors'[id].links[j] = l PROVE Right(id, j)'
    <2>1. PICK s : s = Meaning(f, database.proto[f].uses[j])
      OBVIOUS
    <2>2. s = Meaning(f, database.proto[f].uses[j])' /\ Declarer(f, s)' = Declarer(f, s)
      BY <2>1, TextStays
    <2>3. s \in Symbols /\ EntryBy(id, s, {"message"}) /\ l = symbols_by_name_[s].file /\ Declarer(f, s) # {}
      BY <1>1, <1>4, <2>1 DEF Means
    <2>4. EntryBy(id, s, {"message"})'
      BY <2>3 DEF EntryBy
    <2>5. s' = s
      OBVIOUS
    <2> QED BY <1>2, <1>4, <2>2, <2>3, <2>4 DEF Right
  <1> QED BY <1>3, <1>4

LEMMA LinkStepMeans ==
  ASSUME DInv, MInv, Linking, NEW b \in Builder, NEW l, Relinked(b, l),
         UNCHANGED <<database, allocations_, files_by_name_, symbols_by_name_>>, fallback' = "unasked",
         Clean(Top.file_) /\ ~b.had_errors_ =>
           /\ Underway(b, Len(l), FALSE)
           /\ Len(l) <= Len(database.proto[Top.filename_].uses)
           /\ \A j \in 1..Len(l) : Means(Top.file_, j, l[j])
  PROVE  MInv'
  <1> DEFINE n == Len(builders)
  <1>0. /\ database' = database /\ files_by_name_' = files_by_name_ /\ symbols_by_name_' = symbols_by_name_
        /\ allocations_' = allocations_
    OBVIOUS
  <1> USE <1>0
  <1>1. /\ n \in 1..n /\ Top = builders[n] /\ LinkBuilder(n) /\ Top \in Builder /\ builders # <<>> /\ n \in Nat
    BY LinkingFacts, BuilderTypes DEF LinkBuilder, DInv
  <1>2. /\ Len(builders') = n /\ builders'[n] = b
        /\ \A i \in 1..n : i # n => builders'[i] = builders[i]
    BY <1>1, WithTopFacts DEF DInv, Relinked
  <1>3. b.stage = "link" /\ b.filename_ = Top.filename_ /\ b.file_ = Top.file_ /\ LinkBuilder(n)'
    BY <1>1, <1>2 DEF SameTask, LinkBuilder, Relinked
  <1>4. \A i \in 1..n : LinkBuilder(i)' <=> LinkBuilder(i)
    BY <1>1, <1>2, <1>3 DEF LinkBuilder
  <1>5. \A i \in 1..n : LinkBuilder(i) => /\ builders'[i].file_ = builders[i].file_
                                          /\ builders'[i].filename_ = builders[i].filename_
    BY <1>1, <1>2, <1>3
  <1>6. Live' = Live /\ Live \subseteq 1..Len(descriptors) /\ database \in Databases
    BY LiveFacts DEF Live, DInv, Types
  <1>7. \A i \in 1..n : LinkBuilder(i) => builders[i].file_ \in Live
    <2>1. ASSUME NEW i \in 1..n, LinkBuilder(i) PROVE builders[i].file_ \in Live
      <3>1. PICK k \in 1..Len(checkpoints_) : builders[i].file_ = Start(k)
        BY <2>1 DEF DInv, Stacked, LinkBuilder
      <3> QED BY <3>1, StartFacts DEF DInv
    <2> QED BY <2>1
  <1>8. \A id \in Live : /\ descriptors'[id].name = descriptors[id].name
                         /\ descriptors'[id].dependencies = descriptors[id].dependencies
                         /\ descriptors'[id].exports = descriptors[id].exports
                         /\ id # Top.file_ => descriptors'[id] = descriptors[id]
    BY <1>6 DEF Relinked
  <1>9. Named'
    <2>1. \A f \in Files : files_by_name_[f] # 0 => files_by_name_[f] \in Live
      BY DEF DInv, Held
    <2>2. \A f \in Files : files_by_name_'[f] # 0 => descriptors'[files_by_name_'[f]].name = f
      BY <2>1, <1>8 DEF MInv, Named
    <2>3. \A i \in 1..Len(builders') : LinkBuilder(i)' => descriptors'[builders'[i].file_].name = builders'[i].filename_
      BY <1>2, <1>4, <1>5, <1>7, <1>8 DEF MInv, Named
    <2> QED BY <2>2, <2>3 DEF Named
  <1>10. Provenance'
    <2>1. \A g : Package(g)' = Package(g)
      BY TextStays
    <2>2. \A s \in Symbols : symbols_by_name_[s].file # 0 => symbols_by_name_[s].file \in Live
      BY DEF DInv, Held
    <2>3. \A s \in Symbols : symbols_by_name_[s].file # 0 =>
            descriptors'[symbols_by_name_'[s].file].name = descriptors[symbols_by_name_[s].file].name
      BY <2>2, <1>8
    <2>4. Provenance
      BY DEF MInv
    <2> QED BY <2>1, <2>3, <2>4 DEF Provenance
  <1>11. Around'
    BY DEF MInv, Around, EntryBy
  <1>12. ASSUME NEW id \in Live, Clean(id)' PROVE Entered(id)' /\ Linked(id)'
    <2>1. Clean(id) /\ (id = Top.file_ => ~b.had_errors_)
      BY <1>12, CleanStays
    <2>2. Entered(id) /\ Linked(id)
      BY <2>1 DEF MInv
    <2> DEFINE f == descriptors[id].name
    <2>3. descriptors'[id].name = f
      BY <1>8
    <2>4. /\ Entered(id) => Entered(id)'
          /\ \A j, v : Means(id, j, v) /\ descriptors'[id].links[j] = v => Right(id, j)'
      BY <1>8, EntryStays
    <2>5. Entered(id)'
      BY <2>2, <2>4
    <2>6. CASE id # Top.file_
      <3>1. descriptors'[id] = descriptors[id]
        BY <2>6, <1>8
      <3>2. \A j : Right(id, j) => Right(id, j)'
        <4> SUFFICES ASSUME NEW j, Right(id, j) PROVE Right(id, j)'
          OBVIOUS
        <4>1. Means(id, j, descriptors[id].links[j])
          BY DEF Right, Means
        <4> QED BY <4>1, <3>1, <2>4
      <3>3. Linked(id)'
        BY <2>2, <3>1, <3>2, <1>2, <1>4, <1>5 DEF Linked
      <3> QED BY <2>5, <3>3
    <2>7. CASE id = Top.file_
      <3>1. f = Top.filename_
        BY <2>7, <1>1 DEF MInv, Named
      <3>2. /\ Len(l) <= Len(database.proto[f].uses)
            /\ \A j \in 1..Len(l) : Means(id, j, l[j])
            /\ descriptors'[id].links = l
        BY <2>1, <2>7, <3>1 DEF Relinked
      <3>3. ASSUME NEW j \in 1..Len(l) PROVE Right(id, j)'
        BY <3>2, <2>4
      <3>4. \E i \in 1..Len(builders') : LinkBuilder(i)' /\ builders'[i].file_ = id
        BY <1>1, <1>2, <1>3, <2>7
      <3>5. Linked(id)'
        BY <3>2, <3>3, <3>4, <2>3 DEF Linked
      <3> QED BY <2>5, <3>5
    <2> QED BY <2>6, <2>7
  <1>13. \A id \in Live : TableStays(id)
    BY DEF TableStays
  <1>14. ASSUME NEW i \in 1..n, LinkBuilder(i), Clean(builders[i].file_)', i # n
         PROVE  Underway(builders[i], Len(descriptors[builders[i].file_].links), i < Len(builders) \/ fallback # "unasked")'
    <2> DEFINE c == builders[i]  m == Len(descriptors[c.file_].links)
    <2>1. c.file_ \in Live /\ builders'[i] = c /\ c \in Builder
      BY <1>2, <1>7, <1>14, BuilderTypes DEF DInv
    <2>2. Clean(c.file_)
      <3>1. builders'[i].file_ = c.file_
        BY <2>1
      <3>2. \A id \in Live : Clean(id)' => Clean(id)
        BY CleanStays
      <3>3. \A id : id = builders'[i].file_ => (Clean(builders[i].file_)' <=> Clean(id)')
        BY DEF Clean
      <3> QED BY <3>1, <3>2, <3>3, <2>1, <1>14
    <2>3. i < n
      BY <1>1, <1>14
    <2>4. Underway(c, m, i < Len(builders) \/ fallback # "unasked")
      BY <2>2, <1>14 DEF MInv
    <2>5. c.file_ # Top.file_
      <3>1. c.file_ < Top.file_
        BY <2>3, <1>1, <1>14 DEF DInv, Stacked, LinkBuilder
      <3>2. c.file_ \in Nat /\ Top.file_ \in Nat
        BY <2>1, <1>1 DEF Builder
      <3> QED BY <3>1, <3>2
    <2>6. descriptors'[c.file_] = descriptors[c.file_]
      BY <2>1, <2>5, <1>8
    <2>7. m' = m
      BY <2>1, <2>6
    <2>8. \A d, k, v : d = c /\ k = m => Underway(d, k, v)'
      <3> SUFFICES ASSUME NEW d, NEW k, NEW v, d = c, k = m PROVE Underway(d, k, v)'
        OBVIOUS
      <3>1. PICK w : w = (i < Len(builders) \/ fallback # "unasked")
        OBVIOUS
      <3>2. d \in Builder /\ TableStays(d.file_) /\ Underway(d, k, w) /\ w
        BY <2>1, <2>3, <2>4, <3>1, <1>13
      <3> HIDE DEF c, m
      <3> QED BY <3>2, <1>6, UnderwayStays
    <2> HIDE DEF m
    <2> QED BY <2>1, <2>7, <2>8 DEF m
  <1>15. \A id \in Live : Clean(id)' => Clean(id) /\ (id = Top.file_ => ~b.had_errors_)
    BY CleanStays
  <1>16. ASSUME NEW i \in 1..Len(builders'), LinkBuilder(i)', Clean(builders[i].file_)'
         PROVE  Underway(builders[i], Len(descriptors[builders[i].file_].links), i < Len(builders) \/ fallback # "unasked")'
    <2>1. i \in 1..n /\ LinkBuilder(i)
      BY <1>2, <1>4, <1>16
    <2>2. CASE i # n
      BY <2>1, <2>2, <1>14, <1>16
    <2>3. CASE i = n
      <3> DEFINE w == i < Len(builders) \/ fallback # "unasked"
      <3>1. builders'[i] = b /\ builders'[i].file_ = Top.file_ /\ Top.file_ \in Live
        BY <2>3, <1>1, <1>2, <1>3, <1>7
      <3>2. Clean(Top.file_) /\ ~b.had_errors_
        BY <3>1, <1>15, <1>16
      <3>3. Underway(b, Len(l), FALSE) /\ TableStays(b.file_)
        BY <3>1, <3>2, <1>3, <1>13
      <3>4. \A c, k, v : c = b /\ k = Len(l) /\ ~v => Underway(c, k, v)'
        <4> SUFFICES ASSUME NEW c, NEW k, NEW v, c = b, k = Len(l), ~v PROVE Underway(c, k, v)'
          OBVIOUS
        <4>1. c \in Builder /\ TableStays(c.file_) /\ Underway(c, k, FALSE)
          BY <3>3
        <4> QED BY <4>1, <1>6, UnderwayStays
      <3>5. ~w'
        BY <2>3, <1>1, <1>2
      <3>6. descriptors'[builders'[i].file_].links = l
        BY <3>1 DEF Relinked
      <3> HIDE DEF w, n
      <3> QED BY <3>1, <3>4, <3>5, <3>6 DEF w
    <2> QED BY <2>1, <2>2, <2>3
  <1> QED BY <1>2, <1>6, <1>9, <1>10, <1>11, <1>12, <1>16 DEF MInv

LEMMA FindMeans ==
  ASSUME DInv, MInv, Linking, Clean(Top.file_), symbols_by_name_[Sought] # NullSymbol \/ fallback # "unasked"
  PROVE  LET f == Top.filename_  r == FindSymbol
         IN /\ r = NullSymbol => Declared(f, Sought) = {}
            /\ r # NullSymbol => /\ r = symbols_by_name_[Sought] /\ Declared(f, Sought) = {r.type}
                                 /\ r.type \in {"package", "message", "field"}
            /\ r.type = "message" => Declarer(f, Sought) # {} /\ r.file <= Top.file_
  <1> DEFINE f == Top.filename_  id == Top.file_  r == FindSymbol  e == symbols_by_name_[Sought]
  <1>1. /\ id \in Live /\ descriptors[id].name = f /\ \A g \in Within(descriptors[id].name) : FileBy(id, g)
        /\ Top.dependencies_ \cup {id} = NearOf(f) /\ Sought = SoughtBy(Top)
        /\ Underway(Top, Len(descriptors[id].links), fallback # "unasked")
    BY TopLinks
  <1>2. /\ Seen(NearOf(f), Sought) => e # NullSymbol /\ Declared(f, Sought) = {e.type}
        /\ ~Seen(NearOf(f), Sought) => Declared(f, Sought) = {}
        /\ Seen(NearOf(f), Sought) /\ e.type = "message" => Declarer(f, Sought) # {} /\ e.file <= id
    <2>1. Sought \in Symbols
      BY LinkingFacts
    <2>2. DInv /\ MInv /\ id \in Live /\ Clean(id) /\ descriptors[id].name = f
          /\ \A g \in Within(descriptors[id].name) : FileBy(id, g)
      BY <1>1
    <2> HIDE DEF f, id
    <2> QED BY <2>1, <2>2, FoundIsDeclared
  <1>3. e \in SymbolEntry /\ (e # NullSymbol => e.type # "null")
    <2>1. Sought \in Symbols
      BY LinkingFacts
    <2>2. e.file = 0 => e = NullSymbol
      BY <2>1 DEF DInv, Held
    <2>3. e.file # 0 => e.type # "null"
      BY <2>1 DEF MInv, Provenance
    <2> QED BY <2>1, <2>2, <2>3 DEF DInv, Types
  <1>4. CASE fallback = "failed"
    <2>1. r = NullSymbol
      BY <1>4 DEF FindSymbol
    <2>2. Declared(f, Sought) = {}
      BY <1>1, <1>4 DEF Underway, Waits
    <2> QED BY <2>1, <2>2 DEF NullSymbol
  <1>5. CASE fallback # "failed"
    <2>1. r = IF Seen(NearOf(f), Sought) THEN e ELSE NullSymbol
      BY <1>1, <1>5 DEF FindSymbol, Seen
    <2> HIDE DEF r, e
    <2>2. CASE Seen(NearOf(f), Sought)
      <3>1. r = e
        BY <2>1, <2>2
      <3> QED BY <3>1, <2>2, <1>2, <1>3 DEF SymbolEntry, r, e
    <2>3. CASE ~Seen(NearOf(f), Sought)
      <3>1. r = NullSymbol /\ r.type = "null"
        BY <2>1, <2>3 DEF NullSymbol
      <3> QED BY <3>1, <2>3, <1>2 DEF r, e
    <2> QED BY <2>2, <2>3
  <1> QED BY <1>4, <1>5

LEMMA LinksSoFar ==
  ASSUME DInv, MInv, Linking, Clean(Top.file_)
  PROVE  LET l == descriptors[Top.file_].links
         IN /\ l \in Seq(Nat) /\ Len(l) = Top.next - 1 /\ Len(l) \in Nat
            /\ Top.next <= Len(database.proto[Top.filename_].uses)
            /\ \A j \in 1..Len(l) : Means(Top.file_, j, l[j])
  <1> DEFINE id == Top.file_  l == descriptors[id].links
  <1>1. /\ id \in Live /\ Underway(Top, Len(l), fallback # "unasked")
        /\ Top.next <= Len(database.proto[Top.filename_].uses)
    BY TopLinks
  <1>2. l \in Seq(Nat)
    BY <1>1, LiveFacts, DescriptorTypes DEF DInv
  <1>3. \A j \in 1..Len(l) : Right(id, j)
    BY <1>1 DEF MInv, Linked
  <1>4. \A j \in 1..Len(l) : Means(id, j, l[j])
    BY <1>3 DEF Right, Means
  <1> QED BY <1>1, <1>2, <1>4 DEF Underway

\* The links are as they were.
LEMMA SameLinks ==
  ASSUME DInv, Linking, NEW b, SameTask(Top, b), builders' = WithTop(b), descriptors' = descriptors
  PROVE  Relinked(b, descriptors[Top.file_].links)
  BY DEF Relinked

\* The next scope is tried, or the rest of a name in this one.
LEMMA ScopeMeans ==
  ASSUME DInv, MInv, Linking, symbols_by_name_[Sought] # NullSymbol \/ fallback # "unasked",
         ~LastScope, ~Top.rest, NEW into \in BOOLEAN,
         LET r == FindSymbol
             s == UseNow.scopes[Top.scope]
             further == IF r = NullSymbol THEN TRUE
                        ELSE IF s.first # s.full THEN r.type = "field"
                        ELSE UseNow.types_only /\ r.type # "message"
         IN IF into THEN ~further /\ s.first # s.full ELSE further,
         LET b == IF into THEN [Top EXCEPT !.rest = TRUE] ELSE [Top EXCEPT !.scope = @ + 1]
         IN builders' = WithTop(b),
         UNCHANGED <<database, descriptors, allocations_, files_by_name_, symbols_by_name_>>,
         fallback' = "unasked"
  PROVE  MInv'
  <1> DEFINE r == FindSymbol
             s == UseNow.scopes[Top.scope]
             further == IF r = NullSymbol THEN TRUE
                        ELSE IF s.first # s.full THEN r.type = "field"
                        ELSE UseNow.types_only /\ r.type # "message"
             b == IF into THEN [Top EXCEPT !.rest = TRUE] ELSE [Top EXCEPT !.scope = @ + 1]
             id == Top.file_
             f == Top.filename_
             l == descriptors[id].links
             m == Top.scope
             D == Declared(f, Sought)
  <1>1. /\ Top \in Builder /\ Top.stage = "link" /\ Top.next \in Nat \ {0} /\ m \in 1..Len(UseNow.scopes)
        /\ UseNow.scopes \in Seq(Scope) /\ m \in Nat \ {0}
    BY LinkingFacts DEF Builder
  <1>2. IF into THEN ~further /\ s.first # s.full ELSE further
    OBVIOUS
  <1>3. /\ b \in Builder /\ SameTask(Top, b)
        /\ b.next = Top.next /\ b.numbers = Top.numbers /\ b.dependencies_ = Top.dependencies_
        /\ b.file_ = id /\ b.filename_ = f /\ b.had_errors_ = Top.had_errors_
        /\ b.scope = (IF into THEN m ELSE m + 1) /\ b.rest = into
    <2>1. CASE into
      <3>1. b = [Top EXCEPT !.rest = TRUE] /\ into = TRUE
        BY <2>1
      <3> HIDE DEF b
      <3> QED BY <3>1, <1>1 DEF Builder, SameTask
    <2>2. CASE ~into
      <3>1. b = [Top EXCEPT !.scope = m + 1] /\ into = FALSE /\ m + 1 \in Nat \ {0} /\ Top.rest = FALSE
        BY <2>2, <1>1 DEF Builder
      <3>2. b \in Builder
        <4> HIDE DEF b
        <4> QED BY <3>1, <1>1 DEF Builder
      <3>3. /\ SameTask(Top, b)
            /\ b.next = Top.next /\ b.numbers = Top.numbers /\ b.dependencies_ = Top.dependencies_
            /\ b.file_ = id /\ b.filename_ = f /\ b.had_errors_ = Top.had_errors_
            /\ b.scope = m + 1 /\ b.rest = FALSE
        <4> HIDE DEF b
        <4> QED BY <3>1, <1>1 DEF Builder, SameTask
      <3> QED BY <3>1, <3>2, <3>3
    <2> QED BY <2>1, <2>2
  <1>4. builders' = WithTop(b)
    OBVIOUS
  <1>5. Relinked(b, l)
    <2> HIDE DEF b
    <2> QED BY <1>3, <1>4, SameLinks
  <1> HIDE DEF b
  <1>6. ASSUME Clean(id), ~b.had_errors_
        PROVE  /\ Underway(b, Len(l), FALSE) /\ Len(l) <= Len(database.proto[f].uses)
               /\ \A j \in 1..Len(l) : Means(id, j, l[j])
    <2>1. Underway(Top, Len(l), fallback # "unasked") /\ UseNow = database.proto[f].uses[Top.next]
          /\ Top.next <= Len(database.proto[f].uses)
      BY <1>6, TopLinks
    <2>2. /\ Len(l) \in Nat /\ Len(l) = Top.next - 1 /\ \A j \in 1..Len(l) : Means(id, j, l[j])
      BY <1>6, LinksSoFar
    <2>3. /\ r = NullSymbol => D = {}
          /\ r # NullSymbol => D = {r.type} /\ r.type \in {"package", "message", "field"}
      BY <1>6, FindMeans
    <2>4. Sought = s.first
      BY DEF Sought
    <2>5. Decides(f, UseNow, m) <=> \/ s.first # s.full /\ D \cap {"message", "package"} # {}
                                    \/ s.first = s.full /\ (IF UseNow.types_only THEN "message" \in D ELSE D # {})
      BY <2>4 DEF Decides, LastScope
    <2> HIDE DEF r, s, D
    <2>6. IF into THEN Decides(f, UseNow, m) /\ s.first # s.full ELSE ~Decides(f, UseNow, m)
      BY <2>3, <2>5, <1>2
    <2>7. ScopesTried(b)
      <3>1. \A j \in 1..(m - 1) : ~Decides(f, UseNow, j)
        BY <2>1, <1>1 DEF Underway, ScopesTried
      <3>2. CASE into
        <4>1. m < Len(UseNow.scopes)
          BY <1>1 DEF LastScope
        <4> QED BY <4>1, <3>1, <3>2, <2>1, <2>6, <1>3 DEF ScopesTried, s
      <3>3. CASE ~into
        <4>1. \A j \in 1..((m + 1) - 1) : j \in 1..(m - 1) \/ j = m
          BY <1>1
        <4>2. \A j \in 1..((m + 1) - 1) : ~Decides(f, UseNow, j)
          BY <4>1, <3>1, <3>3, <2>6
        <4> QED BY <4>2, <3>3, <2>1, <1>3 DEF ScopesTried
      <3> QED BY <3>2, <3>3
    <2>8. NumbersTaken(b)
      <3>1. NumbersTaken(Top)
        BY <2>1 DEF Underway
      <3>2. b.next = Top.next /\ b.numbers = Top.numbers /\ b.filename_ = Top.filename_
        BY <1>3
      <3> QED BY ONLY <3>1, <3>2 DEF NumbersTaken
    <2>9. Underway(b, Len(l), FALSE)
      BY <2>1, <2>2, <2>7, <2>8, <1>3 DEF Underway
    <2>10. Len(l) <= Len(database.proto[f].uses)
      <3>1. database.proto[f].uses \in Seq(Use)
        BY <1>1, ProtoTypes DEF Builder, DInv, Types
      <3>2. Len(database.proto[f].uses) \in Nat
        BY <3>1
      <3>3. Len(l) \in Nat /\ Len(l) = Top.next - 1 /\ Top.next <= Len(database.proto[f].uses) /\ Top.next \in Nat
        BY <2>1, <2>2, <1>1
      <3> QED BY ONLY <3>2, <3>3
    <2> QED BY <2>2, <2>9, <2>10
  <1> QED BY <1>3, <1>5, <1>6, LinkStepMeans

\* Nothing fits, or no type.
LEMMA NothingMeans ==
  ASSUME DInv, MInv, Linking, NEW r, r.type # "message", LinkTo(r),
         UNCHANGED <<database, allocations_, files_by_name_, symbols_by_name_>>, fallback' = "unasked"
  PROVE  MInv'
  <1> DEFINE b == NextUse([Top EXCEPT !.had_errors_ = TRUE])
             c == NextUse([Top EXCEPT !.had_errors_ = TRUE, !.numbers = Top.numbers])
  <1>1. Top \in Builder
    BY LinkingFacts
  <1>2. Top.numbers \in SUBSET (Symbols \X Number) /\ b = c
    BY <1>1 DEF Builder, NextUse
  <1>3. c \in Builder /\ SameTask(Top, c)
    BY <1>2, NextUseFacts
  <1>4. c.had_errors_
    BY <1>1 DEF Builder, NextUse
  <1>5. builders' = WithTop(b) /\ descriptors' = descriptors
    BY DEF LinkTo
  <1> HIDE DEF b, c
  <1>6. Relinked(c, descriptors[Top.file_].links)
    BY <1>2, <1>3, <1>5, SameLinks
  <1> QED BY <1>3, <1>4, <1>6, LinkStepMeans

\* The use is linked to a message.
LEMMA MessageMeans ==
  ASSUME DInv, MInv, Linking, symbols_by_name_[Sought] # NullSymbol \/ fallback # "unasked",
         LET r == FindSymbol
             s == UseNow.scopes[Top.scope]
         IN /\ r.type = "message" /\ LinkTo(r)
            /\ LastScope \/ Top.rest \/ s.first = s.full,
         UNCHANGED <<database, allocations_, files_by_name_, symbols_by_name_>>, fallback' = "unasked"
  PROVE  MInv'
  <1> DEFINE r == FindSymbol
             s == UseNow.scopes[Top.scope]
             id == Top.file_
             f == Top.filename_
             old == descriptors[id].links
             l == Append(old, r.file)
             key == <<Sought, UseNow.number>>
             extends == UseNow.number # 0
             e == Top.had_errors_ \/ (extends /\ key \in Top.numbers)
             N == IF extends THEN Top.numbers \cup {key} ELSE Top.numbers
             b == NextUse([Top EXCEPT !.had_errors_ = e, !.numbers = N])
             m == Top.scope
  <1>1. /\ Top \in Builder /\ Top.stage = "link" /\ Top.next \in Nat \ {0} /\ m \in 1..Len(UseNow.scopes)
        /\ UseNow.scopes \in Seq(Scope) /\ m \in Nat \ {0} /\ UseNow \in Use /\ Sought \in Symbols
    BY LinkingFacts DEF Builder
  <1>2. /\ b \in Builder /\ SameTask(Top, b)
        /\ b.next = Top.next + 1 /\ b.scope = 1 /\ b.rest = FALSE /\ b.numbers = N /\ b.had_errors_ = e
        /\ b.dependencies_ = Top.dependencies_ /\ b.file_ = id /\ b.filename_ = f
    <2>1. Top.had_errors_ \in BOOLEAN /\ Top.numbers \in SUBSET (Symbols \X Number)
      BY <1>1 DEF Builder
    <2>2. extends => key \in Symbols \X Number
      BY <1>1 DEF Use
    <2>3. e \in BOOLEAN /\ N \in SUBSET (Symbols \X Number) /\ (Top.had_errors_ => e)
      BY <2>1, <2>2
    <2> HIDE DEF e, N
    <2>4. b \in Builder /\ SameTask(Top, b)
      BY <2>3, NextUseFacts
    <2> QED BY <2>4, <1>1 DEF Builder, NextUse
  <1>3. id \in 1..Len(descriptors) /\ descriptors \in Seq(Descriptor) /\ old \in Seq(Nat)
    BY TopIsLast, DescriptorTypes DEF DInv, Types, Linking
  <1>4. /\ descriptors' = [descriptors EXCEPT ![id].links = Append(@, r.file)]
        /\ builders' = WithTop(b)
    <2>1. NextUse([Top EXCEPT !.had_errors_ = @ \/ (extends /\ key \in Top.numbers),
                              !.numbers = IF extends THEN @ \cup {key} ELSE @]) = b
      BY <1>1 DEF Builder, NextUse
    <2>2. r.type = "message" /\ LinkTo(r)
      OBVIOUS
    <2> QED BY <2>1, <2>2 DEF LinkTo
  <1>5. Relinked(b, l)
    <2>1. \A i \in 1..Len(descriptors) : descriptors[i] \in Descriptor
      BY <1>3
    <2> DEFINE new == [descriptors[id] EXCEPT !.links = l]
    <2>4. descriptors' = [descriptors EXCEPT ![id] = new]
      BY <1>4
    <2> HIDE DEF id, r, b, l, new
    <2>5. /\ Len(descriptors') = Len(descriptors)
          /\ \A i \in 1..Len(descriptors) : i # id => descriptors'[i] = descriptors[i]
          /\ descriptors'[id] = new
      BY ONLY <1>3, <2>4
    <2>2. /\ Len(descriptors') = Len(descriptors)
          /\ \A i \in 1..Len(descriptors) : i # id => descriptors'[i] = descriptors[i]
          /\ descriptors'[id] = [descriptors[id] EXCEPT !.links = l]
      BY <2>5 DEF new
    <2>3. /\ descriptors'[id].links = l /\ descriptors'[id].name = descriptors[id].name
          /\ descriptors'[id].dependencies = descriptors[id].dependencies
          /\ descriptors'[id].exports = descriptors[id].exports
      BY <2>1, <2>2, <1>3 DEF Descriptor
    <2> QED BY <2>2, <2>3, <1>2, <1>4 DEF Relinked, id
  <1> HIDE DEF b
  <1>6. ASSUME Clean(id), ~b.had_errors_
        PROVE  /\ Underway(b, Len(l), FALSE) /\ Len(l) <= Len(database.proto[f].uses)
               /\ \A j \in 1..Len(l) : Means(id, j, l[j])
    <2>1. /\ Underway(Top, Len(old), fallback # "unasked") /\ UseNow = database.proto[f].uses[Top.next]
          /\ Top.next <= Len(database.proto[f].uses) /\ descriptors[id].name = f /\ id \in Live
      BY <1>6, TopLinks
    <2>2. /\ Len(old) = Top.next - 1 /\ \A j \in 1..Len(old) : Means(id, j, old[j])
      BY <1>6, LinksSoFar
    <2>3. /\ r = symbols_by_name_[Sought] /\ Declared(f, Sought) = {"message"}
          /\ Declarer(f, Sought) # {} /\ r.file <= id
      <3>1. r.type = "message" /\ r # NullSymbol
        BY DEF NullSymbol
      <3> QED BY <3>1, <1>6, FindMeans
    <2>15. r.file \in Nat
      BY <2>3, <1>1 DEF DInv, Types, SymbolEntry
    <2>4. Sought = s.full
      BY DEF Sought
    <2>5. Decides(f, UseNow, m)
      <3>1. CASE LastScope
        BY <3>1 DEF LastScope, Decides
      <3>2. CASE Top.rest
        BY <3>2, <2>1 DEF Underway, ScopesTried
      <3>3. CASE s.first = s.full
        BY <3>3, <2>3, <2>4 DEF Decides
      <3> QED BY <3>1, <3>2, <3>3
    <2>6. \A j \in 1..(m - 1) : ~Decides(f, UseNow, j)
      BY <2>1 DEF Underway, ScopesTried
    <2>7. Meaning(f, UseNow) = Sought
      BY <2>4, <2>5, <2>6, <1>1, MeaningIs
    <2> HIDE DEF r
    <2>8. /\ Len(l) = Top.next /\ l[Top.next] = r.file /\ \A j \in 1..Len(old) : l[j] = old[j]
          /\ \A j \in 1..Len(l) : j \in 1..Len(old) \/ j = Top.next
      <3>1. Len(old) = Top.next - 1 /\ Top.next \in Nat /\ old \in Seq(Nat) /\ r.file \in Nat
        BY <2>2, <2>15, <1>1, <1>3
      <3> HIDE DEF old
      <3> QED BY ONLY <3>1 DEF l
    <2>9. Means(id, Top.next, r.file)
      <3>1. symbols_by_name_[Sought].type = "message" /\ symbols_by_name_[Sought].file = r.file
        BY <2>3 DEF r
      <3> QED BY <3>1, <2>1, <2>3, <2>7, <1>1 DEF Means, EntryBy
    <2>10. \A j \in 1..Len(l) : Means(id, j, l[j])
      <3> SUFFICES ASSUME NEW j \in 1..Len(l) PROVE Means(id, j, l[j])
        OBVIOUS
      <3>1. CASE j \in 1..Len(old)
        <4>1. l[j] = old[j] /\ Means(id, j, old[j])
          BY <3>1, <2>2, <2>8
        <4> QED BY ONLY <4>1
      <3>2. CASE j = Top.next
        <4>1. l[j] = r.file
          BY <3>2, <2>8
        <4> QED BY ONLY <4>1, <3>2, <2>9
      <3> QED BY <3>1, <3>2, <2>8
    <2>11. ScopesTried(b)
      <3>1. b.scope = 1 /\ b.rest = FALSE
        BY <1>2
      <3> HIDE DEF b
      <3>2. 1..(b.scope - 1) = {} /\ ~b.rest
        BY ONLY <3>1
      <3> QED BY ONLY <3>2 DEF ScopesTried
    <2>12. NumbersTaken(b)
      <3> SUFFICES ASSUME NEW x \in N
                   PROVE  \E k \in 1..((Top.next + 1) - 1) :
                            /\ database.proto[f].uses[k].number # 0
                            /\ x = <<Meaning(f, database.proto[f].uses[k]), database.proto[f].uses[k].number>>
        BY <1>2 DEF NumbersTaken
      <3>1. CASE x \in Top.numbers
        <4>1. PICK k \in 1..(Top.next - 1) :
                /\ database.proto[f].uses[k].number # 0
                /\ x = <<Meaning(f, database.proto[f].uses[k]), database.proto[f].uses[k].number>>
          BY <2>1, <3>1 DEF Underway, NumbersTaken
        <4>2. k \in 1..((Top.next + 1) - 1)
          BY <1>1
        <4> QED BY <4>1, <4>2
      <3>2. CASE extends /\ x = key
        <4>1. Top.next \in 1..((Top.next + 1) - 1)
          BY <1>1
        <4>2. database.proto[f].uses[Top.next].number # 0
              /\ x = <<Meaning(f, database.proto[f].uses[Top.next]), database.proto[f].uses[Top.next].number>>
          BY <3>2, <2>1, <2>7
        <4> QED BY <4>1, <4>2
      <3> QED BY <3>1, <3>2
    <2>13. Len(l) = b.next - 1
      BY <2>8, <1>1, <1>2
    <2>14. Underway(b, Len(l), FALSE)
      BY <2>1, <2>11, <2>12, <2>13, <1>2 DEF Underway
    <2> QED BY <2>1, <2>8, <2>10, <2>14
  <1> QED BY <1>2, <1>5, <1>6, LinkStepMeans

LEMMA ResolveMeans ==
  ASSUME DInv, MInv, Resolve
  PROVE  MInv'
  <1> DEFINE r == FindSymbol
             s == UseNow.scopes[Top.scope]
             last == LastScope \/ Top.rest
             more == IF r = NullSymbol THEN TRUE
                     ELSE IF s.first # s.full THEN r.type = "field"
                     ELSE UseNow.types_only /\ r.type # "message"
             further == IF last THEN FALSE ELSE more
             into == ~last /\ ~further /\ s.first # s.full
  <1>1. /\ Linking /\ UNCHANGED <<database, allocations_, files_by_name_, symbols_by_name_>>
        /\ fallback' = "unasked" /\ (symbols_by_name_[Sought] # NullSymbol \/ fallback # "unasked")
    BY DEF Resolve
  <1>2. CASE further \/ into
    <2>1. builders' = WithTop(IF into THEN [Top EXCEPT !.rest = TRUE] ELSE [Top EXCEPT !.scope = @ + 1])
          /\ descriptors' = descriptors
      BY <1>2 DEF Resolve
    <2>2. ~LastScope /\ ~Top.rest /\ into \in BOOLEAN
          /\ (IF into THEN ~more /\ s.first # s.full ELSE more)
      BY <1>2
    <2> HIDE DEF into
    <2> QED BY <2>1, <2>2, <1>1, ScopeMeans
  <1>3. CASE ~(further \/ into)
    <2>1. LinkTo(r)
      BY <1>3 DEF Resolve
    <2>2. CASE r.type = "message"
      <3>1. LastScope \/ Top.rest \/ s.first = s.full
        BY <1>3
      <3> QED BY <3>1, <2>1, <2>2, <1>1, MessageMeans
    <2>3. CASE r.type # "message"
      <3> HIDE DEF r
      <3> QED BY <2>1, <2>3, <1>1, NothingMeans
    <2> QED BY <2>2, <2>3
  <1> QED BY <1>2, <1>3

-----------------------------------------------------------------------------
\* A builder is through: what is left keeps its meaning.

LEMMA PopMeans ==
  ASSUME DInv, MInv, Finish, Live' \subseteq Live, \A id \in Live' : TableStays(id),
         \A i \in 1..Len(builders') : LinkBuilder(i)' => builders'[i].file_ \in Live',
         Top.had_errors_ => \A id \in Live' : id < Top.file_,
         Named', Provenance', Around'
  PROVE  MInv'
  <1> DEFINE n == Len(builders)  m == Len(builders')
  <1>1. /\ n \in 1..n /\ Top = builders[n] /\ LinkBuilder(n) /\ builders # <<>> /\ n \in Nat
        /\ \A i \in 1..m : i \in 1..n /\ i < n /\ builders'[i] = builders[i]
        /\ \A i \in 1..n : i < n => i \in 1..m
        /\ database' = database /\ descriptors' = descriptors
    BY FinishFacts, BuilderTypes DEF LinkBuilder, DInv
  <1>2. /\ \A i \in 1..m : LinkBuilder(i)' <=> LinkBuilder(i)
        /\ \A i \in 1..n : builders[i] \in Builder
        /\ database \in Databases /\ files_by_name_ \in [Files -> Nat] /\ Live \subseteq 1..Len(descriptors)
    BY <1>1, BuilderTypes, LiveFacts DEF LinkBuilder, DInv, Types
  <1>3. \A id \in Live' : Clean(id)' => Clean(id)
    <2> SUFFICES ASSUME NEW id \in Live', Clean(id)', NEW i \in 1..n, LinkBuilder(i), builders[i].had_errors_,
                        builders[i].filename_ \in Closure(descriptors[id].name)
                 PROVE  builders[i].file_ > id
      BY DEF Clean
    <2>1. CASE i = n
      <3>1. id < Top.file_ /\ Top.file_ \in Nat /\ id \in Nat
        BY <2>1, <1>1, <1>2 DEF Builder
      <3> QED BY <3>1, <2>1, <1>1
    <2>2. CASE i # n
      <3>1. i \in 1..m /\ builders'[i] = builders[i] /\ LinkBuilder(i)'
        BY <2>2, <1>1, <1>2
      <3>2. \A f : Closure(f)' = Closure(f)
        BY <1>1, TextStays
      <3> QED BY <3>1, <3>2, <1>1 DEF Clean
    <2> QED BY <2>1, <2>2
  <1>4. ASSUME NEW id \in Live', Clean(id)' PROVE Entered(id)' /\ Linked(id)'
    <2>1. id \in Live /\ Clean(id) /\ Entered(id) /\ Linked(id)
      BY <1>3, <1>4 DEF MInv
    <2>2. id \in Nat /\ descriptors[id].name \in Files
      BY <2>1, <1>2, DescriptorTypes DEF DInv
    <2>3. Entered(id)' /\ \A j : Right(id, j) => Right(id, j)'
      BY <2>1, <2>2, <1>1, <1>2, IdStays
    <2> DEFINE links == descriptors[id].links  uses == database.proto[descriptors[id].name].uses
    <2>4. Len(links) = Len(uses) \/ \E i \in 1..m : LinkBuilder(i)' /\ builders'[i].file_ = id
      <3>1. SUFFICES ASSUME NEW i \in 1..n, LinkBuilder(i), builders[i].file_ = id
                     PROVE  Len(links) = Len(uses) \/ \E k \in 1..m : LinkBuilder(k)' /\ builders'[k].file_ = id
        BY <2>1 DEF Linked
      <3>2. CASE i # n
        BY <3>1, <3>2, <1>1, <1>2
      <3>3. CASE i = n
        <4>1. Underway(Top, Len(links), n < Len(builders) \/ fallback # "unasked") /\ Top.filename_ = descriptors[id].name
          BY <3>1, <3>3, <2>1, <1>1 DEF MInv, Named
        <4>2. Len(links) = Top.next - 1 /\ Top.next > Len(uses) /\ Len(links) <= Len(uses)
          BY <4>1, <2>1 DEF Underway, Finish, ProtoOf, Linked
        <4>3. Top.next \in Nat /\ uses \in Seq(Use)
          BY <1>1, <1>2, <2>2, ProtoTypes DEF Builder
        <4> HIDE DEF links, uses
        <4>4. Len(uses) \in Nat
          BY ONLY <4>3
        <4>5. Len(links) = Len(uses)
          BY ONLY <4>2, <4>3, <4>4
        <4> QED BY <4>5
      <3> QED BY <3>2, <3>3
    <2>5. Linked(id)'
      BY <2>1, <2>3, <2>4, <1>1 DEF Linked
    <2> QED BY <2>3, <2>5
  <1>5. ASSUME NEW i \in 1..Len(builders'), LinkBuilder(i)', Clean(builders[i].file_)'
        PROVE  Underway(builders[i], Len(descriptors[builders[i].file_].links), i < Len(builders) \/ fallback # "unasked")'
    <2> DEFINE b == builders[i]
               k == Len(descriptors[b.file_].links)
               w == i < Len(builders) \/ fallback # "unasked"
    <2>1. i \in 1..n /\ i < n /\ LinkBuilder(i) /\ builders'[i] = b /\ b \in Builder
      BY <1>1, <1>2, <1>5
    <2>2. b.file_ \in Live' /\ Clean(b.file_)
      <3>1. builders'[i].file_ \in Live'
        BY <1>5
      <3> QED BY <3>1, <2>1, <1>3, <1>5
    <2>3. Underway(b, k, w) /\ w /\ TableStays(b.file_)
      BY <2>1, <2>2 DEF MInv
    <2>4. k' = k
      BY <2>1, <1>1
    <2>5. \A c, h, v : c = b /\ h = k => Underway(c, h, v)'
      <3> SUFFICES ASSUME NEW c, NEW h, NEW v, c = b, h = k PROVE Underway(c, h, v)'
        OBVIOUS
      <3>1. PICK u : u = w
        OBVIOUS
      <3>2. c \in Builder /\ TableStays(c.file_) /\ Underway(c, h, u) /\ u
        BY <2>1, <2>3, <3>1
      <3> HIDE DEF b, k, w
      <3> QED BY <3>2, <1>1, <1>2, UnderwayStays
    <2> HIDE DEF k, w
    <2> QED BY <2>1, <2>4, <2>5 DEF k, w
  <1> QED BY <1>4, <1>5 DEF MInv

\* The files of the builders that link are there, each after those below.
LEMMA LinkersLive ==
  ASSUME DInv, NEW i \in 1..Len(builders), LinkBuilder(i)
  PROVE  builders[i].file_ \in Live /\ builders[i].file_ \in Nat
  <1>1. PICK k \in 1..Len(checkpoints_) : builders[i].file_ = Start(k)
    BY DEF DInv, Stacked, LinkBuilder
  <1>2. builders[i].file_ \in Nat
    BY BuilderTypes DEF DInv, Builder
  <1> QED BY <1>1, <1>2, StartFacts DEF DInv

LEMMA FinishGoodMeans ==
  ASSUME DInv, MInv, Finish, ~Top.had_errors_
  PROVE  MInv'
  <1> DEFINE n == Len(builders)  m == Len(builders')
  <1>1. /\ \A i \in 1..m : i \in 1..n /\ i < n /\ builders'[i] = builders[i]
        /\ database' = database /\ descriptors' = descriptors
    BY FinishFacts
  <1>2. files_by_name_' = files_by_name_ /\ symbols_by_name_' = symbols_by_name_ /\ allocations_' = allocations_
    BY DEF Finish, ClearLastCheckpoint
  <1>3. Live' = Live /\ \A id \in Live' : TableStays(id)
    BY <1>2 DEF Live, TableStays
  <1>4. \A i \in 1..m : LinkBuilder(i)' => builders'[i].file_ \in Live'
    BY <1>1, <1>3, LinkersLive DEF LinkBuilder
  <1>5. Named'
    BY <1>1, <1>2 DEF MInv, Named, LinkBuilder
  <1>6. Provenance'
    <2>1. \A f : Package(f)' = Package(f)
      BY <1>1, TextStays
    <2> QED BY <2>1, <1>1, <1>2 DEF MInv, Provenance
  <1>7. Around'
    BY <1>2 DEF MInv, Around, EntryBy
  <1> QED BY <1>3, <1>4, <1>5, <1>6, <1>7, PopMeans

LEMMA FinishBadMeans ==
  ASSUME DInv, MInv, Finish, Top.had_errors_
  PROVE  MInv'
  <1> DEFINE n == Len(builders)  m == Len(builders')  F == Top.file_
  <1>1. /\ n \in 1..n /\ Top = builders[n] /\ LinkBuilder(n) /\ n \in Nat
        /\ \A i \in 1..m : i \in 1..n /\ i < n /\ builders'[i] = builders[i]
        /\ database' = database /\ descriptors' = descriptors
    BY FinishFacts, BuilderTypes DEF LinkBuilder, DInv
  <1>2. /\ \A f \in Files :
             files_by_name_'[f] = IF files_by_name_[f] >= F THEN 0 ELSE files_by_name_[f]
        /\ \A s \in Symbols :
             symbols_by_name_'[s] = IF symbols_by_name_[s].file >= F THEN NullSymbol ELSE symbols_by_name_[s]
    BY RolledBackTables
  <1>3. Live' = {id \in Live : id < F} /\ Live \subseteq Nat /\ F \in Nat
    BY RolledBack, LiveFacts, LinkersLive, <1>1 DEF DInv
  <1>4. /\ \A f \in Files : files_by_name_[f] \in Nat
        /\ \A s \in Symbols : symbols_by_name_[s].file \in Nat
    BY DEF DInv, Types, SymbolEntry
  <1>5. \A id \in Nat : id < F => TableStays(id)
    <2> SUFFICES ASSUME NEW id \in Nat, id < F PROVE TableStays(id)
      OBVIOUS
    <2>1. ASSUME NEW f \in Files, FileBy(id, f) PROVE files_by_name_'[f] = files_by_name_[f]
      <3>1. ~(files_by_name_[f] >= F)
        BY <2>1, <1>3, <1>4 DEF FileBy
      <3> QED BY <3>1, <1>2
    <2>2. ASSUME NEW s \in Symbols, symbols_by_name_[s].file <= id PROVE symbols_by_name_'[s] = symbols_by_name_[s]
      <3>1. ~(symbols_by_name_[s].file >= F)
        BY <2>2, <1>3, <1>4
      <3> QED BY <3>1, <1>2
    <2> QED BY <2>1, <2>2 DEF TableStays
  <1>6. \A i \in 1..m : LinkBuilder(i)' => builders'[i].file_ \in Live'
    <2> SUFFICES ASSUME NEW i \in 1..m, LinkBuilder(i)' PROVE builders'[i].file_ \in Live'
      OBVIOUS
    <2>1. i \in 1..n /\ i < n /\ builders'[i] = builders[i] /\ LinkBuilder(i)
      BY <1>1 DEF LinkBuilder
    <2>2. builders[i].file_ < F
      BY <2>1, <1>1 DEF DInv, Stacked, LinkBuilder
    <2> QED BY <2>1, <2>2, <1>3, LinkersLive
  <1>7. Named'
    BY <1>1, <1>2 DEF MInv, Named, LinkBuilder
  <1>8. Provenance'
    <2>1. \A f : Package(f)' = Package(f)
      BY <1>1, TextStays
    <2>2. \A s \in Symbols : symbols_by_name_'[s].file # 0 => symbols_by_name_'[s] = symbols_by_name_[s]
      BY <1>2 DEF NullSymbol
    <2> QED BY <2>1, <2>2, <1>1 DEF MInv, Provenance
  <1>9. Around'
    <2> SUFFICES ASSUME NEW s \in Symbols, symbols_by_name_'[s].type = "package"
                 PROVE  LET e == symbols_by_name_'[s].file
                        IN \/ \A a \in Ancestors[s] : /\ symbols_by_name_'[a].type \in {"package"}
                                                      /\ symbols_by_name_'[a].file <= e
                           \/ \E a \in Ancestors[s] : /\ symbols_by_name_'[a].type \in {"message", "field"}
                                                      /\ symbols_by_name_'[a].file <= e
      BY DEF Around, EntryBy
    <2>1. symbols_by_name_'[s] = symbols_by_name_[s] /\ ~(symbols_by_name_[s].file >= F)
      BY <1>2 DEF NullSymbol
    <2>2. PICK e : e = symbols_by_name_[s].file
      OBVIOUS
    <2>3. e \in Nat /\ e < F
      BY <2>1, <2>2, <1>3, <1>4
    <2>4. \A a \in Symbols : \A T : EntryBy(e, a, T) /\ "null" \notin T => symbols_by_name_'[a] = symbols_by_name_[a]
      BY <2>3, <1>5 DEF TableStays, EntryBy
    <2>5. Ancestors[s] \subseteq Symbols
      BY AncestorsAreNames
    <2>6. \/ \A a \in Ancestors[s] : EntryBy(e, a, {"package"})
          \/ \E a \in Ancestors[s] : EntryBy(e, a, {"message", "field"})
      BY <2>1, <2>2 DEF MInv, Around
    <2> QED BY <2>1, <2>2, <2>4, <2>5, <2>6 DEF EntryBy
  <1>10. Live' \subseteq Live /\ (\A id \in Live' : TableStays(id)) /\ \A id \in Live' : id < F
    BY <1>3, <1>5
  <1> QED BY <1>6, <1>7, <1>8, <1>9, <1>10, PopMeans

LEMMA FinishMeans ==
  ASSUME DInv, MInv, Finish
  PROVE  MInv'
  BY FinishGoodMeans, FinishBadMeans

-----------------------------------------------------------------------------
\* A file is entered.

\* What imports give access to, once what they import is entered.
LEMMA PublicReach ==
  ASSUME DInv, MInv, NEW G \in SUBSET Files, \A g \in G : files_by_name_[g] # 0 /\ Clean(files_by_name_[g])
  PROVE  LET U == UNION {Reached({g}, PublicOf) : g \in G}
         IN /\ \A h \in U : h \in Files /\ files_by_name_[h] # 0
            /\ RecordPublicDependencies({files_by_name_[g] : g \in G}) = {files_by_name_[h] : h \in U}
  <1> DEFINE U == UNION {Reached({g}, PublicOf) : g \in G}
  <1>1. ASSUME NEW g \in G
        PROVE  /\ files_by_name_[g] # 0 /\ \A h \in Reached({g}, PublicOf) : h \in Files /\ files_by_name_[h] # 0
               /\ descriptors[files_by_name_[g]].exports = {files_by_name_[h] : h \in Reached({g}, PublicOf)}
    <2>1. files_by_name_[g] \in Live /\ descriptors[files_by_name_[g]].name = g
      BY DEF DInv, Held, MInv, Named
    <2>2. Entered(files_by_name_[g])
      BY <2>1 DEF MInv
    <2>3. Reached({g}, PublicOf) \subseteq Files
      <3>1. PublicOf \in [Files -> SUBSET Files] /\ {g} \in SUBSET Files
        BY ImportTypes DEF DInv, Types
      <3> QED BY <3>1, ReachedFacts
    <2> QED BY <2>1, <2>2, <2>3 DEF Entered, FileBy
  <1>2. \A h : h \in U <=> \E g \in G : h \in Reached({g}, PublicOf)
    OBVIOUS
  <1> HIDE DEF U
  <1>3. \A x : x \in {files_by_name_[h] : h \in U} <=> \E g \in G : x \in descriptors[files_by_name_[g]].exports
    <2>1. \A x : x \in {files_by_name_[h] : h \in U} <=> \E g \in G : \E h \in Reached({g}, PublicOf) : x = files_by_name_[h]
      BY <1>2
    <2>2. ASSUME NEW x, NEW g \in G
          PROVE  x \in descriptors[files_by_name_[g]].exports <=> \E h \in Reached({g}, PublicOf) : x = files_by_name_[h]
      <3>1. descriptors[files_by_name_[g]].exports = {files_by_name_[h] : h \in Reached({g}, PublicOf)}
        BY <1>1
      <3> QED BY ONLY <3>1
    <2> QED BY ONLY <2>1, <2>2
  <1>4. \A x : x \in RecordPublicDependencies({files_by_name_[g] : g \in G})
               <=> \E g \in G : x \in descriptors[files_by_name_[g]].exports
    BY <1>1 DEF RecordPublicDependencies
  <1>5. RecordPublicDependencies({files_by_name_[g] : g \in G}) = {files_by_name_[h] : h \in U}
    BY <1>3, <1>4
  <1>6. \A h \in U : h \in Files /\ files_by_name_[h] # 0
    BY <1>1, <1>2
  <1> QED BY <1>5, <1>6 DEF U

NewPackages(f) ==
  {q \in Package(f) : \A r \in Package(f) : (r = q \/ q \in Ancestors[r]) => symbols_by_name_[r] = NullSymbol}

LEMMA EnterDetail ==
  ASSUME DInv, Enter
  PROVE  LET n == Len(builders)  F == Top.filename_  p == database.proto[F]  id == Len(descriptors) + 1
             b == builders'[n]  new == descriptors'[id]
         IN /\ n \in 1..n /\ builders # <<>> /\ Top = builders[n] /\ Top.stage = "import" /\ n \in Nat
            /\ F \in Files /\ files_by_name_[F] = 0 /\ id \in Nat /\ id # 0
            /\ Len(builders') = n /\ \A i \in 1..n : i # n => builders'[i] = builders[i]
            /\ b \in Builder /\ b.filename_ = F /\ b.stage = "link" /\ b.next = 1 /\ b.scope = 1
            /\ ~b.rest /\ b.numbers = {} /\ b.file_ = id
            /\ b.dependencies_ = RecordPublicDependencies({files_by_name_[g] : g \in Imports(F)})
            /\ Len(descriptors') = id /\ \A i \in 1..Len(descriptors) : descriptors'[i] = descriptors[i]
            /\ new.name = F /\ new.links = <<>> /\ Len(new.dependencies) = Len(p.dependency)
            /\ \A i \in 1..Len(p.dependency) : new.dependencies[i] = files_by_name_[p.dependency[i]]
            /\ new.exports = {id} \cup RecordPublicDependencies({files_by_name_[g] : g \in PublicImports(F)})
            /\ Live' = Live \cup {id} /\ Live \subseteq 1..Len(descriptors)
            /\ \A f \in Files : files_by_name_'[f] = IF f = F THEN id ELSE files_by_name_[f]
            /\ fallback' = "unasked" /\ database' = database
            /\ ~b.had_errors_ => /\ \A g \in Imports(F) : files_by_name_[g] # 0
                                 /\ \A q \in Package(F) : symbols_by_name_[q].type \in {"null", "package"}
  <1> DEFINE n == Len(builders)
             F == Top.filename_
             p == database.proto[F]
             id == Len(descriptors) + 1
             packages == IF p.package = NoSymbol THEN {} ELSE PackagesAdded(p.package)
             added == {d \in p.declares : symbols_by_name_[d.name] = NullSymbol /\ d.name \notin packages}
             imports == [i \in DOMAIN p.dependency |-> files_by_name_[p.dependency[i]]]
             errors == \/ added # p.declares \/ \E d, e \in p.declares : d # e /\ d.name = e.name
                       \/ 0 \in {imports[i] : i \in DOMAIN imports} \/ Twice(p.dependency)
                       \/ \E q \in Symbols : /\ q = p.package \/ (p.package # NoSymbol /\ q \in Ancestors[p.package])
                                             /\ symbols_by_name_[q].type \notin {"null", "package"}
             exports == {id} \cup RecordPublicDependencies({imports[i] : i \in p.public \cap DOMAIN imports})
             deps == RecordPublicDependencies({imports[i] : i \in DOMAIN imports})
             new == [name |-> F, dependencies |-> imports, links |-> <<>>, exports |-> exports]
             b == [Top EXCEPT !.stage = "link", !.next = 1, !.file_ = id, !.had_errors_ = errors,
                              !.dependencies_ = deps]
  <1>1. Types /\ Ascending /\ Held /\ Working
    BY DEF DInv
  <1>2. /\ builders # <<>> /\ Top \in Builder /\ Top.stage = "import" /\ F \in Files /\ n \in Nat
        /\ Top = builders[n] /\ n \in 1..n /\ builders \in Seq(Builder) /\ database \in Databases
    <2>1. builders # <<>> /\ Top \in Builder /\ Top.stage = "import" /\ n \in 1..n /\ n \in Nat
      BY <1>1, BuilderTypes DEF Enter, At
    <2> QED BY <2>1, <1>1 DEF Builder, Top, Types
  <1>3. files_by_name_[F] = 0 /\ Top.scope = 1 /\ ~Top.rest /\ Top.numbers = {}
    BY <1>1, <1>2 DEF Working, ScopeFits
  <1>4. /\ descriptors' = Append(descriptors, new) /\ builders' = WithTop(b)
        /\ allocations_' = Append(allocations_, id) /\ fallback' = "unasked" /\ database' = database
        /\ files_by_name_' = [files_by_name_ EXCEPT ![F] = id]
    BY DEF Enter, ProtoOf
  <1>5. p.dependency \in Seq(Files) /\ p.package \in Symbols \cup {NoSymbol}
    BY <1>2, ProtoTypes, PackageTypes
  <1>6. /\ DOMAIN imports = 1..Len(p.dependency) /\ Len(p.dependency) \in Nat /\ Len(imports) = Len(p.dependency)
        /\ \A i \in 1..Len(p.dependency) : imports[i] = files_by_name_[p.dependency[i]]
        /\ DOMAIN p.dependency = 1..Len(p.dependency)
    BY <1>5
  <1>7. {imports[i] : i \in DOMAIN imports} = {files_by_name_[g] : g \in Imports(F)}
    <2>1. Imports(F) = {p.dependency[i] : i \in DOMAIN p.dependency}
      BY DEF Imports
    <2> HIDE DEF p, imports
    <2> QED BY <1>6, <2>1
  <1>8. {imports[i] : i \in p.public \cap DOMAIN imports} = {files_by_name_[g] : g \in PublicImports(F)}
    <2>1. PublicImports(F) = {p.dependency[i] : i \in p.public \cap DOMAIN p.dependency}
      BY DEF PublicImports
    <2> HIDE DEF p, imports
    <2> QED BY <1>6, <2>1
  <1>9. ASSUME ~errors
        PROVE  /\ \A g \in Imports(F) : files_by_name_[g] # 0
               /\ \A q \in Package(F) : symbols_by_name_[q].type \in {"null", "package"}
    <2>1. 0 \notin {files_by_name_[g] : g \in Imports(F)}
      BY <1>7, <1>9
    <2>2. \A q \in Package(F) : q \in Symbols /\ (q = p.package \/ (p.package # NoSymbol /\ q \in Ancestors[p.package]))
      BY <1>2, PackageTypes
    <2> QED BY <2>1, <2>2, <1>9
  <1>10. errors \in BOOLEAN
    OBVIOUS
  <1>11. id \in Nat /\ id # 0 /\ descriptors \in Seq(Descriptor) /\ allocations_ \in Seq(Nat)
         /\ files_by_name_ \in [Files -> Nat] /\ id = Len(descriptors) + 1 /\ Len(descriptors) \in Nat
    BY <1>1 DEF Types
  <1>12. /\ deps = RecordPublicDependencies({files_by_name_[g] : g \in Imports(F)})
         /\ exports = {id} \cup RecordPublicDependencies({files_by_name_[g] : g \in PublicImports(F)})
    BY <1>7, <1>8
  <1> HIDE DEF errors, exports, deps, imports, id
  <1>13. /\ new.name = F /\ new.links = <<>> /\ new.dependencies = imports /\ new.exports = exports
    OBVIOUS
  <1>14. /\ b.filename_ = F /\ b.stage = "link" /\ b.next = 1 /\ b.scope = 1 /\ ~b.rest /\ b.numbers = {}
         /\ b.file_ = id /\ b.had_errors_ = errors /\ b.dependencies_ = deps
    BY <1>2, <1>3 DEF Builder
  <1> HIDE DEF new, b
  <1>15. /\ Len(builders') = n /\ builders'[n] = b /\ \A i \in 1..n : i # n => builders'[i] = builders[i]
    BY <1>2, <1>4 DEF WithTop
  <1>16. b \in Builder
    <2>1. DInv'
      BY EnterStep
    <2> QED BY <2>1, <1>15, <1>2 DEF DInv, Types
  <1>17. Len(descriptors') = id /\ descriptors'[id] = new
         /\ \A i \in 1..Len(descriptors) : descriptors'[i] = descriptors[i]
    BY <1>4, <1>11
  <1>18. Live' = Live \cup {id} /\ Live \subseteq 1..Len(descriptors)
    <2>1. Live \subseteq 1..Len(descriptors) /\ Live = {allocations_[i] : i \in 1..Len(allocations_)}
      BY <1>1, LiveFacts
    <2>2. /\ DOMAIN allocations_' = 1..(Len(allocations_) + 1) /\ Len(allocations_) \in Nat
          /\ allocations_'[Len(allocations_) + 1] = id
          /\ \A i \in 1..Len(allocations_) : allocations_'[i] = allocations_[i]
      BY <1>4, <1>11
    <2>3. \A i : i \in 1..(Len(allocations_) + 1) <=> i \in 1..Len(allocations_) \/ i = Len(allocations_) + 1
      BY <2>2
    <2> QED BY <2>1, <2>2, <2>3 DEF Live
  <1>19. \A f \in Files : files_by_name_'[f] = IF f = F THEN id ELSE files_by_name_[f]
    BY <1>4, <1>11
  <1> DEFINE c == builders'[n]  d == descriptors'[id]
  <1>20. /\ c \in Builder /\ c.filename_ = F /\ c.stage = "link" /\ c.next = 1 /\ c.scope = 1
         /\ ~c.rest /\ c.numbers = {} /\ c.file_ = id
         /\ c.dependencies_ = RecordPublicDependencies({files_by_name_[g] : g \in Imports(F)})
         /\ ~c.had_errors_ => /\ \A g \in Imports(F) : files_by_name_[g] # 0
                              /\ \A q \in Package(F) : symbols_by_name_[q].type \in {"null", "package"}
    BY <1>9, <1>12, <1>14, <1>15, <1>16
  <1>21. /\ d.name = F /\ d.links = <<>> /\ Len(d.dependencies) = Len(p.dependency)
         /\ \A i \in 1..Len(p.dependency) : d.dependencies[i] = files_by_name_[p.dependency[i]]
         /\ d.exports = {id} \cup RecordPublicDependencies({files_by_name_[g] : g \in PublicImports(F)})
    BY <1>6, <1>12, <1>13, <1>17
  <1>22. /\ n \in 1..n /\ builders # <<>> /\ Top = builders[n] /\ Top.stage = "import" /\ n \in Nat
         /\ F \in Files /\ files_by_name_[F] = 0 /\ id \in Nat /\ id # 0
         /\ Len(builders') = n /\ \A i \in 1..n : i # n => builders'[i] = builders[i]
         /\ Len(descriptors') = id /\ \A i \in 1..Len(descriptors) : descriptors'[i] = descriptors[i]
         /\ Live' = Live \cup {id} /\ Live \subseteq 1..Len(descriptors)
         /\ \A f \in Files : files_by_name_'[f] = IF f = F THEN id ELSE files_by_name_[f]
         /\ fallback' = "unasked" /\ database' = database
    BY <1>2, <1>3, <1>4, <1>11, <1>15, <1>17, <1>18, <1>19
  <1> HIDE DEF c, d
  <1> QED BY ONLY <1>20, <1>21, <1>22 DEF c, d, id

\* The names that are entered, and those that are not.
LEMMA EnterNames ==
  ASSUME DInv, Enter
  PROVE  LET F == Top.filename_  id == Len(descriptors) + 1
         IN \A s \in Symbols :
              LET e == symbols_by_name_'[s]
              IN /\ symbols_by_name_[s] # NullSymbol => e = symbols_by_name_[s]
                 /\ s \in NewPackages(F) => e = [file |-> id, type |-> "package"]
                 /\ \/ e = symbols_by_name_[s]
                    \/ e.file = id /\ e.type = "package" /\ s \in NewPackages(F)
                    \/ /\ e.file = id /\ e.type \in {"message", "field"}
                       /\ [name |-> s, type |-> e.type] \in database.proto[F].declares
  <1> DEFINE F == Top.filename_
             p == database.proto[F]
             id == Len(descriptors) + 1
             packages == IF p.package = NoSymbol THEN {} ELSE PackagesAdded(p.package)
             added == {d \in p.declares : symbols_by_name_[d.name] = NullSymbol /\ d.name \notin packages}
  <1>1. F \in Files /\ database \in Databases
    BY EnterDetail DEF DInv, Types
  <1>2. symbols_by_name_' = [s \in Symbols |->
             IF s \in packages THEN [file |-> id, type |-> "package"]
             ELSE IF \E d \in added : d.name = s
                  THEN [file |-> id, type |-> (CHOOSE d \in added : d.name = s).type]
                  ELSE symbols_by_name_[s]]
    BY DEF Enter, ProtoOf
  <1>3. packages = NewPackages(F)
    BY DEF PackagesAdded, NewPackages, Package, Chain
  <1>4. \A q \in packages : symbols_by_name_[q] = NullSymbol
    BY <1>3 DEF NewPackages
  <1>5. p.declares \subseteq Declaration
    BY <1>1, ProtoTypes
  <1> SUFFICES ASSUME NEW s \in Symbols
               PROVE  LET e == symbols_by_name_'[s]
                      IN /\ symbols_by_name_[s] # NullSymbol => e = symbols_by_name_[s]
                         /\ s \in packages => e = [file |-> id, type |-> "package"]
                         /\ \/ e = symbols_by_name_[s]
                            \/ e.file = id /\ e.type = "package" /\ s \in packages
                            \/ /\ e.file = id /\ e.type \in {"message", "field"}
                               /\ [name |-> s, type |-> e.type] \in p.declares
    BY <1>3
  <1> DEFINE c == CHOOSE d \in added : d.name = s
  <1>6. CASE s \in packages
    <2>1. symbols_by_name_'[s] = [file |-> id, type |-> "package"] /\ symbols_by_name_[s] = NullSymbol
      BY <1>2, <1>4, <1>6
    <2> HIDE DEF packages, added, id
    <2> QED BY <2>1, <1>6
  <1>7. CASE s \notin packages /\ \E d \in added : d.name = s
    <2>1. symbols_by_name_'[s] = [file |-> id, type |-> c.type] /\ c \in added /\ c.name = s
      BY <1>2, <1>7
    <2>2. c \in Declaration /\ c \in p.declares /\ symbols_by_name_[s] = NullSymbol
      BY <2>1, <1>5
    <2> HIDE DEF packages, added, c, id
    <2>3. c = [name |-> s, type |-> c.type] /\ c.type \in {"message", "field"}
      BY <2>1, <2>2 DEF Declaration
    <2> QED BY <2>1, <2>2, <2>3, <1>7
  <1>8. CASE s \notin packages /\ ~ \E d \in added : d.name = s
    <2>1. symbols_by_name_'[s] = symbols_by_name_[s]
      BY <1>2, <1>8
    <2> HIDE DEF packages, added
    <2> QED BY <2>1, <1>8
  <1> QED BY <1>6, <1>7, <1>8

LEMMA EnterStays ==
  ASSUME DInv, Enter
  PROVE  /\ \A id : TableStays(id)
         /\ \A f \in Files : files_by_name_[f] # 0 => files_by_name_'[f] = files_by_name_[f]
         /\ \A s \in Symbols : symbols_by_name_[s].type # "null" => symbols_by_name_'[s] = symbols_by_name_[s]
  <1>1. \A f \in Files : files_by_name_[f] # 0 => files_by_name_'[f] = files_by_name_[f]
    <2>1. /\ files_by_name_[Top.filename_] = 0
          /\ \A f \in Files : f # Top.filename_ => files_by_name_'[f] = files_by_name_[f]
      BY EnterDetail
    <2> QED BY <2>1
  <1>2. \A s \in Symbols : symbols_by_name_[s].type # "null" => symbols_by_name_'[s] = symbols_by_name_[s]
    <2>1. \A s \in Symbols : symbols_by_name_[s] # NullSymbol => symbols_by_name_'[s] = symbols_by_name_[s]
      BY EnterNames
    <2> QED BY <2>1 DEF NullSymbol
  <1> QED BY <1>1, <1>2 DEF TableStays, FileBy

\* A name that is in the table is of some type.
LEMMA TypedNames ==
  ASSUME DInv, MInv, NEW s \in Symbols, symbols_by_name_[s] # NullSymbol
  PROVE  symbols_by_name_[s].type \in {"package", "message", "field"} /\ symbols_by_name_[s].file \in Live
  <1>1. symbols_by_name_[s] \in SymbolEntry /\ symbols_by_name_[s].file # 0 /\ symbols_by_name_[s].file \in Live
    BY DEF DInv, Types, Held
  <1>2. symbols_by_name_[s].type # "null"
    BY <1>1 DEF MInv, Provenance
  <1> QED BY <1>1, <1>2 DEF SymbolEntry

\* A package around those of a file is new, or has stopped what is entered.
LEMMA PackageEntered ==
  ASSUME DInv, MInv, Enter, NEW q \in Package(Top.filename_)
  PROVE  \/ symbols_by_name_'[q].type = "package"
         \/ symbols_by_name_[q].type \in {"message", "field"}
         \/ \E r \in Package(Top.filename_), x \in Package(Top.filename_) :
              /\ q \in Ancestors[r] /\ symbols_by_name_[r] # NullSymbol
              /\ x = r \/ x \in Ancestors[r]
              /\ symbols_by_name_[x].type \in {"message", "field"}
  <1> DEFINE F == Top.filename_
  <1>1. F \in Files /\ database \in Databases
    BY EnterDetail DEF DInv, Types
  <1>2. /\ Package(F) \subseteq Symbols /\ \A a \in Package(F) : Ancestors[a] \subseteq Package(F)
    BY <1>1, PackageTypes
  <1> HIDE DEF F
  <1>3. /\ \A s \in Symbols : symbols_by_name_[s] # NullSymbol => symbols_by_name_'[s] = symbols_by_name_[s]
        /\ q \in NewPackages(F) => symbols_by_name_'[q].type = "package"
    <2> DEFINE new == [file |-> Len(descriptors) + 1, type |-> "package"]
    <2>1. /\ \A s \in Symbols : symbols_by_name_[s] # NullSymbol => symbols_by_name_'[s] = symbols_by_name_[s]
          /\ \A s \in Symbols : s \in NewPackages(F) => symbols_by_name_'[s] = new
      <3>1. ASSUME NEW s \in Symbols
            PROVE  /\ symbols_by_name_[s] # NullSymbol => symbols_by_name_'[s] = symbols_by_name_[s]
                   /\ s \in NewPackages(F) => symbols_by_name_'[s] = new
        BY EnterNames DEF F
      <3> QED BY ONLY <3>1
    <2>2. new.type = "package"
      OBVIOUS
    <2> HIDE DEF new
    <2>3. q \in Symbols
      BY <1>2 DEF F
    <2> QED BY ONLY <2>1, <2>2, <2>3
  <1>4. SUFFICES ASSUME q \notin NewPackages(F), symbols_by_name_[q].type \notin {"message", "field"},
                        symbols_by_name_'[q].type # "package"
                 PROVE  \E r \in Package(F), x \in Package(F) :
                          /\ q \in Ancestors[r] /\ symbols_by_name_[r] # NullSymbol
                          /\ x = r \/ x \in Ancestors[r]
                          /\ symbols_by_name_[x].type \in {"message", "field"}
    BY <1>3 DEF F
  <1>5. symbols_by_name_[q] = NullSymbol
    BY <1>2, <1>3, <1>4, TypedNames DEF F
  <1>6. PICK r \in Package(F) : (r = q \/ q \in Ancestors[r]) /\ symbols_by_name_[r] # NullSymbol
    BY <1>4 DEF NewPackages, F
  <1>7. q \in Ancestors[r] /\ symbols_by_name_[r].type \in {"package", "message", "field"}
    BY <1>2, <1>5, <1>6, TypedNames
  <1>8. CASE symbols_by_name_[r].type \in {"message", "field"}
    BY <1>6, <1>7, <1>8
  <1>9. CASE symbols_by_name_[r].type = "package"
    <2>1. \/ \A a \in Ancestors[r] : symbols_by_name_[a].type = "package"
          \/ \E a \in Ancestors[r] : symbols_by_name_[a].type \in {"message", "field"}
      BY <1>2, <1>9 DEF MInv, Around, EntryBy
    <2>2. ~(\A a \in Ancestors[r] : symbols_by_name_[a].type = "package")
      BY <1>5, <1>7 DEF NullSymbol
    <2>3. PICK a \in Ancestors[r] : symbols_by_name_[a].type \in {"message", "field"}
      BY <2>1, <2>2
    <2> QED BY <2>3, <1>2, <1>6, <1>7
  <1> QED BY <1>7, <1>8, <1>9

LEMMA EnterAround ==
  ASSUME DInv, MInv, Enter
  PROVE  Around'
  <1> DEFINE F == Top.filename_  id == Len(descriptors) + 1
  <1>1. /\ F \in Files /\ database \in Databases /\ id \in Nat /\ Live \subseteq 1..Len(descriptors)
        /\ Len(descriptors) \in Nat
    BY EnterDetail DEF DInv, Types
  <1>2. /\ Package(F) \subseteq Symbols /\ \A a \in Package(F) : Ancestors[a] \subseteq Package(F)
        /\ \A a, b \in Package(F) : a = b \/ a \in Ancestors[b] \/ b \in Ancestors[a]
    BY <1>1, PackageTypes
  <1>3. \A s \in Symbols : symbols_by_name_'[s].file <= id
    <2>1. \A s \in Symbols : symbols_by_name_'[s] = symbols_by_name_[s] \/ symbols_by_name_'[s].file = id
      BY EnterNames
    <2>2. \A s \in Symbols : symbols_by_name_[s].file \in Live \cup {0}
      BY DEF DInv, Held
    <2> SUFFICES ASSUME NEW s \in Symbols
                 PROVE  symbols_by_name_'[s].file <= id
      OBVIOUS
    <2>3. CASE symbols_by_name_'[s].file = id
      BY ONLY <2>3, <1>1
    <2>4. CASE symbols_by_name_'[s] = symbols_by_name_[s]
      <3>1. symbols_by_name_[s].file \in Live \cup {0}
        BY ONLY <2>2
      <3>2. \A x \in Live \cup {0} : x <= id
        BY ONLY <1>1
      <3> HIDE DEF id
      <3> QED BY ONLY <2>4, <3>1, <3>2
    <2> QED BY ONLY <2>1, <2>3, <2>4
  <1>4. /\ \A s \in Symbols : symbols_by_name_[s].type # "null" => symbols_by_name_'[s] = symbols_by_name_[s]
        /\ \A s \in Symbols : symbols_by_name_[s] # NullSymbol => symbols_by_name_[s].type # "null"
    BY EnterStays, TypedNames
  <1> SUFFICES ASSUME NEW s \in Symbols, symbols_by_name_'[s].type = "package"
               PROVE  LET e == symbols_by_name_'[s].file
                      IN \/ \A a \in Ancestors[s] : /\ symbols_by_name_'[a].type = "package"
                                                    /\ symbols_by_name_'[a].file <= e
                         \/ \E a \in Ancestors[s] : /\ symbols_by_name_'[a].type \in {"message", "field"}
                                                    /\ symbols_by_name_'[a].file <= e
    BY DEF Around, EntryBy
  <1>5. Ancestors[s] \subseteq Symbols
    BY AncestorsAreNames
  <1>6. CASE symbols_by_name_'[s] = symbols_by_name_[s]
    <2>1. \/ \A a \in Ancestors[s] : /\ symbols_by_name_[a].type = "package"
                                     /\ symbols_by_name_[a].file <= symbols_by_name_[s].file
          \/ \E a \in Ancestors[s] : /\ symbols_by_name_[a].type \in {"message", "field"}
                                     /\ symbols_by_name_[a].file <= symbols_by_name_[s].file
      BY <1>6 DEF MInv, Around, EntryBy
    <2> QED BY <2>1, <1>4, <1>5, <1>6
  <1>7. CASE symbols_by_name_'[s] # symbols_by_name_[s]
    <2>1. symbols_by_name_'[s].file = id /\ s \in NewPackages(F)
      BY <1>7, EnterNames
    <2>2. s \in Package(F) /\ symbols_by_name_[s] = NullSymbol
          /\ \A r \in Package(F) : s \in Ancestors[r] => symbols_by_name_[r] = NullSymbol
      BY <2>1 DEF NewPackages
    <2>3. SUFFICES ASSUME NEW a \in Ancestors[s], symbols_by_name_'[a].type # "package"
                   PROVE  \E x \in Ancestors[s] : symbols_by_name_'[x].type \in {"message", "field"}
      BY <2>1, <1>3, <1>5
    <2>4. a \in Package(F)
      BY <2>2, <1>2
    <2>5. CASE symbols_by_name_[a].type \in {"message", "field"}
      BY <2>5, <1>4, <1>5
    <2>6. ASSUME NEW r \in Package(F), NEW x \in Package(F), symbols_by_name_[r] # NullSymbol,
                 x = r \/ x \in Ancestors[r], symbols_by_name_[x].type \in {"message", "field"}
          PROVE  \E y \in Ancestors[s] : symbols_by_name_'[y].type \in {"message", "field"}
      <3>1. r \in Ancestors[s]
        BY <2>2, <2>6, <1>2
      <3>2. x \in Ancestors[s]
        <4>1. Ancestors[r] \subseteq Ancestors[s]
          BY <3>1, AncestorsAreNames
        <4> QED BY <3>1, <4>1, <2>6
      <3>3. symbols_by_name_'[x] = symbols_by_name_[x]
        BY <2>6, <1>2, <1>4
      <3> QED BY <3>2, <3>3, <2>6
    <2> QED BY <2>3, <2>4, <2>5, <2>6, PackageEntered
  <1> QED BY <1>6, <1>7

LEMMA EnterNamed ==
  ASSUME DInv, MInv, Enter
  PROVE  Named' /\ Provenance'
  <1> DEFINE F == Top.filename_  id == Len(descriptors) + 1  n == Len(builders)
  <1>1. /\ F \in Files /\ id \in Nat /\ Live \subseteq 1..Len(descriptors) /\ n \in 1..n
        /\ Len(builders') = n /\ \A i \in 1..n : i # n => builders'[i] = builders[i]
        /\ builders'[n].file_ = id /\ builders'[n].filename_ = F
        /\ descriptors'[id].name = F /\ \A i \in 1..Len(descriptors) : descriptors'[i] = descriptors[i]
        /\ \A f \in Files : files_by_name_'[f] = IF f = F THEN id ELSE files_by_name_[f]
        /\ database' = database
    BY EnterDetail
  <1>2. /\ \A f \in Files : files_by_name_[f] # 0 => files_by_name_[f] \in Live
        /\ \A s \in Symbols : symbols_by_name_[s].file # 0 => symbols_by_name_[s].file \in Live
    BY DEF DInv, Held
  <1>3. \A f \in Files : files_by_name_'[f] # 0 => descriptors'[files_by_name_'[f]].name = f
    BY <1>1, <1>2 DEF MInv, Named
  <1>4. ASSUME NEW i \in 1..Len(builders'), LinkBuilder(i)'
        PROVE  descriptors'[builders'[i].file_].name = builders'[i].filename_
    <2>1. CASE i = n
      BY <2>1, <1>1
    <2>2. CASE i # n
      <3>1. i \in 1..n /\ builders'[i] = builders[i] /\ LinkBuilder(i)
        BY <2>2, <1>1, <1>4 DEF LinkBuilder
      <3>2. builders[i].file_ \in Live
        BY <3>1, LinkersLive
      <3>3. descriptors[builders[i].file_].name = builders[i].filename_
        BY <3>1 DEF MInv, Named
      <3>4. descriptors'[builders[i].file_] = descriptors[builders[i].file_]
        BY ONLY <3>2, <1>1
      <3> QED BY ONLY <3>1, <3>3, <3>4
    <2> QED BY <2>1, <2>2
  <1>5. Named'
    BY <1>3, <1>4 DEF Named
  <1>6. Provenance'
    <2>1. \A f : Package(f)' = Package(f)
      BY <1>1, TextStays
    <2> SUFFICES ASSUME NEW s \in Symbols, symbols_by_name_'[s].file # 0
                 PROVE  LET e == symbols_by_name_'[s]  f == descriptors'[e.file].name
                        IN /\ e.type # "null"
                           /\ e.type = "package" => s \in Package(f)
                           /\ e.type # "package" => [name |-> s, type |-> e.type] \in database.proto[f].declares
      BY <2>1, <1>1 DEF Provenance
    <2>2. CASE symbols_by_name_'[s] = symbols_by_name_[s]
      <3>1. descriptors'[symbols_by_name_[s].file] = descriptors[symbols_by_name_[s].file]
        BY <2>2, <1>1, <1>2
      <3> QED BY <2>2, <3>1 DEF MInv, Provenance
    <2>3. CASE symbols_by_name_'[s] # symbols_by_name_[s]
      <3> DEFINE e == symbols_by_name_'[s]
      <3>1. /\ e.file = id
            /\ \/ e.type = "package" /\ s \in NewPackages(F)
               \/ e.type \in {"message", "field"} /\ [name |-> s, type |-> e.type] \in database.proto[F].declares
        BY <2>3, EnterNames
      <3>2. descriptors'[e.file].name = F
        BY <3>1, <1>1
      <3> HIDE DEF e, F, id
      <3> QED BY <3>1, <3>2 DEF NewPackages, e
    <2> QED BY <2>2, <2>3
  <1> QED BY <1>5, <1>6

\* No error of a builder is forgotten; what is entered without an error has
\* imports without one.
LEMMA EnterClean ==
  ASSUME DInv, MInv, Enter
  PROVE  /\ \A id \in Live : Clean(id)' => Clean(id)
         /\ \A id : id = Len(descriptors) + 1 /\ Clean(id)' =>
              /\ ~builders'[Len(builders)].had_errors_
              /\ \A g \in Imports(Top.filename_) : files_by_name_[g] # 0 /\ Clean(files_by_name_[g])
  <1>1. PICK F : F = Top.filename_
    OBVIOUS
  <1>2. PICK n : n = Len(builders)
    OBVIOUS
  <1>3. PICK D : D = Len(descriptors) + 1
    OBVIOUS
  <1>4. /\ n \in 1..n /\ n \in Nat /\ Top = builders[n] /\ Top.stage = "import" /\ F \in Files
        /\ Len(builders') = n /\ \A i \in 1..n : i # n => builders'[i] = builders[i]
        /\ builders'[n].filename_ = F /\ builders'[n].stage = "link" /\ builders'[n].file_ = D
        /\ D \in Nat /\ descriptors'[D].name = F /\ Live \subseteq 1..Len(descriptors)
        /\ \A i \in 1..Len(descriptors) : descriptors'[i] = descriptors[i]
        /\ database' = database /\ database \in Databases
        /\ ~builders'[n].had_errors_ => \A g \in Imports(F) : files_by_name_[g] # 0
    BY <1>1, <1>2, <1>3, EnterDetail DEF DInv, Types
  <1>5. \A f : Closure(f)' = Closure(f)
    BY <1>4, TextStays
  <1>6. ASSUME NEW i \in 1..n, LinkBuilder(i), builders[i].had_errors_
        PROVE  /\ i # n /\ builders'[i] = builders[i] /\ builders[i].file_ \in Live
               /\ \A id : Clean(id)' /\ builders[i].filename_ \in Closure(descriptors'[id].name)
                          => builders[i].file_ > id
    <2>1. i # n
      BY <1>4, <1>6 DEF LinkBuilder
    <2>2. builders'[i] = builders[i] /\ LinkBuilder(i)' /\ i \in 1..Len(builders')
      BY <2>1, <1>4, <1>6 DEF LinkBuilder
    <2>3. builders[i].file_ \in Live
      BY <1>2, <1>6, LinkersLive
    <2>4. ASSUME NEW id, Clean(id)', builders[i].filename_ \in Closure(descriptors'[id].name)
          PROVE  builders[i].file_ > id
      BY <2>2, <2>4, <1>5, <1>6 DEF Clean
    <2> QED BY <2>1, <2>2, <2>3, <2>4
  <1>7. ASSUME NEW id \in Live, Clean(id)' PROVE Clean(id)
    <2>1. descriptors'[id] = descriptors[id]
      BY <1>4
    <2> QED BY <2>1, <1>2, <1>6, <1>7 DEF Clean
  <1>8. ASSUME Clean(D)'
        PROVE  /\ ~builders'[n].had_errors_
               /\ \A g \in Imports(F) : files_by_name_[g] # 0 /\ Clean(files_by_name_[g])
    <2>1. ~builders'[n].had_errors_
      <3>1. F \in Closure(F)' /\ LinkBuilder(n)'
        BY <1>4, <1>5, ClosureFacts DEF LinkBuilder
      <3>2. builders'[n].had_errors_ => D > D
        BY <3>1, <1>4, <1>8 DEF Clean
      <3> QED BY <3>2, <1>4
    <2> SUFFICES ASSUME NEW g \in Imports(F) PROVE files_by_name_[g] # 0 /\ Clean(files_by_name_[g])
      BY <2>1
    <2>2. g \in Files /\ g \in Closure(F) /\ Closure(g) \subseteq Closure(F)
      BY <1>4, ClosureFacts
    <2>3. files_by_name_[g] # 0
      BY <1>4, <2>1
    <2>4. descriptors[files_by_name_[g]].name = g
      BY <2>2, <2>3 DEF MInv, Named
    <2>5. ASSUME NEW i \in 1..n, LinkBuilder(i), builders[i].had_errors_, builders[i].filename_ \in Closure(g)
          PROVE  FALSE
      <3>1. builders[i].file_ > D /\ builders[i].file_ \in 1..Len(descriptors)
        BY <1>4, <1>6, <1>8, <2>2, <2>5
      <3> QED BY <3>1, <1>3, <1>4
    <2> QED BY <2>3, <2>4, <2>5, <1>2 DEF Clean
  <1> QED BY <1>1, <1>2, <1>3, <1>7, <1>8

\* Where the file is entered among those that were there.
LEMMA EnterImage ==
  ASSUME DInv, Enter, NEW W \in SUBSET Files, \A h \in W : files_by_name_[h] # 0,
         NEW D, D = Len(descriptors) + 1
  PROVE  /\ \A h \in {Top.filename_} \cup W : FileBy(D, h)'
         /\ {D} \cup {files_by_name_[h] : h \in W} = {files_by_name_'[h] : h \in {Top.filename_} \cup W}
         /\ \A h \in W : files_by_name_'[h] = files_by_name_[h] /\ files_by_name_[h] < D
  <1>1. PICK F : F = Top.filename_
    OBVIOUS
  <1>2. /\ F \in Files /\ files_by_name_[F] = 0 /\ D \in Nat /\ Live \subseteq 1..Len(descriptors)
        /\ D # 0 /\ Len(descriptors) \in Nat /\ \A f \in Files : files_by_name_'[f] = IF f = F THEN D ELSE files_by_name_[f]
    BY <1>1, EnterDetail DEF DInv, Types
  <1>3. ASSUME NEW h \in W
        PROVE  files_by_name_'[h] = files_by_name_[h] /\ files_by_name_[h] < D /\ files_by_name_[h] # 0
               /\ files_by_name_[h] <= D
    <2>1. h # F /\ files_by_name_[h] \in Live
      BY <1>2 DEF DInv, Held
    <2>2. files_by_name_[h] \in 1..Len(descriptors)
      BY <2>1, <1>2
    <2>3. files_by_name_'[h] = files_by_name_[h] /\ files_by_name_[h] # 0
      BY <2>1, <1>2
    <2>4. files_by_name_[h] < D /\ files_by_name_[h] <= D
      BY ONLY <2>2, <1>2, D = Len(descriptors) + 1
    <2> QED BY <2>3, <2>4
  <1>4. files_by_name_'[F] = D /\ D # 0 /\ D <= D
    BY <1>2
  <1>5. \A h \in {F} \cup W : FileBy(D, h)'
    BY <1>3, <1>4 DEF FileBy
  <1>6. \A x : x \in {D} \cup {files_by_name_[h] : h \in W} <=> x \in {files_by_name_'[h] : h \in {F} \cup W}
    <2>1. \A x : x \in {files_by_name_[h] : h \in W} <=> \E h \in W : x = files_by_name_'[h]
      BY <1>3
    <2>2. \A x : x \in {files_by_name_'[h] : h \in {F} \cup W} <=> x = D \/ \E h \in W : x = files_by_name_'[h]
      BY <1>4
    <2> QED BY <2>1, <2>2
  <1> QED BY <1>1, <1>3, <1>5, <1>6

LEMMA EnterNew ==
  ASSUME DInv, MInv, Enter, NEW D, D = Len(descriptors) + 1, Clean(D)'
  PROVE  /\ Entered(D)' /\ Linked(D)'
         /\ \A b : b = builders'[Len(builders)] => Underway(b, 0, FALSE)'
  <1>1. PICK F : F = Top.filename_
    OBVIOUS
  <1>2. PICK n : n = Len(builders)
    OBVIOUS
  <1>3. PICK b : b = builders'[n]
    OBVIOUS
  <1>4. /\ n \in 1..n /\ n \in Nat /\ F \in Files /\ Len(builders') = n /\ D \in Nat /\ D # 0
        /\ b \in Builder /\ b.filename_ = F /\ b.stage = "link" /\ b.next = 1 /\ b.scope = 1
        /\ ~b.rest /\ b.numbers = {} /\ b.file_ = D
        /\ b.dependencies_ = RecordPublicDependencies({files_by_name_[g] : g \in Imports(F)})
        /\ database' = database /\ database \in Databases
    BY <1>1, <1>2, <1>3, EnterDetail DEF DInv, Types
  <1>5. /\ ~b.had_errors_
        /\ \A g \in Imports(F) : files_by_name_[g] # 0 /\ Clean(files_by_name_[g])
        /\ \A q \in Package(F) : symbols_by_name_[q].type \in {"null", "package"}
    <2>1. ~b.had_errors_ /\ \A g \in Imports(F) : files_by_name_[g] # 0 /\ Clean(files_by_name_[g])
      BY <1>1, <1>2, <1>3, EnterClean
    <2> QED BY <2>1, <1>1, <1>2, <1>3, EnterDetail
  <1>6. /\ \A f : Within(f)' = Within(f) /\ Package(f)' = Package(f)
        /\ \A f : Reached({f}, PublicOf)' = Reached({f}, PublicOf)
    BY <1>4, TextStays
  <1>7. PublicImports(F) \subseteq Imports(F) /\ Imports(F) \subseteq Files
    BY <1>4, ImportTypes
  <1>8. \A q \in Package(F) : EntryBy(D, q, {"package"})'
    <2> SUFFICES ASSUME NEW q \in Package(F)
                 PROVE  symbols_by_name_'[q].type = "package" /\ symbols_by_name_'[q].file <= D
      BY DEF EntryBy
    <2>1. Package(F) \subseteq Symbols /\ \A a \in Package(F) : Ancestors[a] \subseteq Package(F)
      BY <1>4, PackageTypes
    <2>2. \A x \in Package(F) : symbols_by_name_[x].type \notin {"message", "field"}
      BY <1>5
    <2>3. symbols_by_name_'[q].type = "package"
      <3>1. \A r \in Package(F), x \in Package(F) : symbols_by_name_[x].type \notin {"message", "field"}
        BY <2>2
      <3> QED BY <3>1, <1>1, PackageEntered
    <2>4. symbols_by_name_'[q].file <= D
      <3>1. symbols_by_name_'[q] = symbols_by_name_[q] \/ symbols_by_name_'[q].file = D
        BY <2>1, EnterNames
      <3>2. symbols_by_name_[q].file \in Live \cup {0} /\ Live \subseteq 1..Len(descriptors) /\ Len(descriptors) \in Nat
        BY <2>1, EnterDetail DEF DInv, Held, Types
      <3>3. symbols_by_name_[q].file <= D
        <4>1. \A x \in Live \cup {0} : x <= D
          BY ONLY <3>2, D = Len(descriptors) + 1
        <4> QED BY ONLY <4>1, <3>2
      <3>4. D <= D
        BY ONLY <1>4
      <3> QED BY ONLY <3>1, <3>3, <3>4
    <2> QED BY <2>3, <2>4
  <1> DEFINE P == UNION {Reached({g}, PublicOf) : g \in PublicImports(F)}
             I == UNION {Reached({g}, PublicOf) : g \in Imports(F)}
  <1>9. /\ P \subseteq Files /\ \A h \in P : files_by_name_[h] # 0
        /\ RecordPublicDependencies({files_by_name_[g] : g \in PublicImports(F)}) = {files_by_name_[h] : h \in P}
        /\ Reached({F}, PublicOf) = {F} \cup P
    <2>1. PublicImports(F) \in SUBSET Files /\ \A g \in PublicImports(F) : files_by_name_[g] # 0 /\ Clean(files_by_name_[g])
      BY <1>5, <1>7
    <2>2. Reached({F}, PublicOf) = {F} \cup P
      BY <1>4, WithinFacts
    <2> HIDE DEF P
    <2>3. \A h \in P : h \in Files /\ files_by_name_[h] # 0
      BY <2>1, PublicReach DEF P
    <2>4. RecordPublicDependencies({files_by_name_[g] : g \in PublicImports(F)}) = {files_by_name_[h] : h \in P}
      BY <2>1, PublicReach DEF P
    <2> QED BY <2>2, <2>3, <2>4
  <1>10. /\ I \subseteq Files /\ \A h \in I : files_by_name_[h] # 0
         /\ RecordPublicDependencies({files_by_name_[g] : g \in Imports(F)}) = {files_by_name_[h] : h \in I}
         /\ Within(F) = {F} \cup I
    <2>1. Imports(F) \in SUBSET Files /\ \A g \in Imports(F) : files_by_name_[g] # 0 /\ Clean(files_by_name_[g])
      BY <1>5, <1>7
    <2>2. Within(F) = {F} \cup I
      BY <1>4, WithinFacts
    <2> HIDE DEF I
    <2>3. \A h \in I : h \in Files /\ files_by_name_[h] # 0
      BY <2>1, PublicReach DEF I
    <2>4. RecordPublicDependencies({files_by_name_[g] : g \in Imports(F)}) = {files_by_name_[h] : h \in I}
      BY <2>1, PublicReach DEF I
    <2> QED BY <2>2, <2>3, <2>4
  <1> HIDE DEF P, I
  <1>11. Entered(D)'
    <2> DEFINE d == descriptors'[D].dependencies  p == database.proto[F]
    <2>1. /\ descriptors'[D].name = F /\ Len(d) = Len(p.dependency)
          /\ \A i \in 1..Len(p.dependency) : d[i] = files_by_name_[p.dependency[i]]
          /\ descriptors'[D].exports = {D} \cup RecordPublicDependencies({files_by_name_[g] : g \in PublicImports(F)})
      BY <1>1, EnterDetail
    <2>2. /\ \A h \in {F} \cup P : FileBy(D, h)'
          /\ {D} \cup {files_by_name_[h] : h \in P} = {files_by_name_'[h] : h \in {F} \cup P}
      BY <1>1, <1>9, EnterImage
    <2>3. \A h \in Imports(F) : files_by_name_'[h] = files_by_name_[h] /\ files_by_name_[h] < D /\ files_by_name_[h] # 0
      BY <1>5, <1>7, EnterImage
    <2>4. \A i \in 1..Len(p.dependency) : p.dependency[i] \in Imports(F)
      <3>1. p.dependency \in Seq(Files)
        BY <1>4, ProtoTypes
      <3> QED BY <3>1 DEF Imports
    <2>5. \A i \in 1..Len(d) : d[i] = files_by_name_'[p.dependency[i]] /\ d[i] # 0 /\ d[i] < D
      <3> HIDE DEF d, p
      <3>1. \A i \in 1..Len(p.dependency) : d[i] = files_by_name_'[p.dependency[i]] /\ d[i] # 0 /\ d[i] < D
        <4> SUFFICES ASSUME NEW i \in 1..Len(p.dependency)
                     PROVE  d[i] = files_by_name_'[p.dependency[i]] /\ d[i] # 0 /\ d[i] < D
          OBVIOUS
        <4>1. d[i] = files_by_name_[p.dependency[i]] /\ p.dependency[i] \in Imports(F)
          BY ONLY <2>1, <2>4
        <4> QED BY ONLY <4>1, <2>3
      <3> QED BY ONLY <3>1, <2>1
    <2>6. \A g \in Reached({F}, PublicOf) : FileBy(D, g)'
      BY <2>2, <1>9
    <2>7. descriptors'[D].exports = {files_by_name_'[g] : g \in Reached({F}, PublicOf)}
      BY <2>1, <2>2, <1>9
    <2> QED BY <2>1, <2>5, <2>6, <2>7, <1>4, <1>6, <1>8 DEF Entered
  <1>12. Linked(D)'
    <2>1. descriptors'[D].links = <<>> /\ descriptors'[D].name = F
      BY <1>1, EnterDetail
    <2>2. database.proto[F].uses \in Seq(Use)
      BY <1>4, ProtoTypes
    <2>3. Len(database.proto[F].uses) \in Nat
      BY <2>2
    <2>4. n \in 1..Len(builders') /\ LinkBuilder(n)' /\ builders'[n].file_ = D
      BY <1>3, <1>4 DEF LinkBuilder
    <2> QED BY <2>1, <2>3, <2>4, <1>4 DEF Linked
  <1>13. Underway(b, 0, FALSE)'
    <2>1. /\ \A h \in {F} \cup I : FileBy(D, h)'
          /\ {D} \cup {files_by_name_[h] : h \in I} = {files_by_name_'[h] : h \in {F} \cup I}
      BY <1>1, <1>10, EnterImage
    <2>2. \A g \in Within(F)' : FileBy(D, g)'
      BY <2>1, <1>6, <1>10
    <2>3. b.dependencies_ \cup {D} = {files_by_name_'[g] : g \in Within(F)'}
      <3>1. b.dependencies_ = {files_by_name_[h] : h \in I}
        BY <1>4, <1>10
      <3>2. Within(F)' = {F} \cup I
        BY <1>6, <1>10
      <3> QED BY <2>1, <3>1, <3>2
    <2>4. ScopesTried(b)' /\ NumbersTaken(b)' /\ 0 = b.next - 1
      BY <1>4 DEF ScopesTried, NumbersTaken
    <2> QED BY <2>2, <2>3, <2>4, <1>4 DEF Underway
  <1> QED BY <1>2, <1>3, <1>11, <1>12, <1>13

LEMMA EnterMeans ==
  ASSUME DInv, MInv, Enter
  PROVE  MInv'
  <1>1. PICK n : n = Len(builders)
    OBVIOUS
  <1>2. PICK D : D = Len(descriptors) + 1
    OBVIOUS
  <1>3. /\ n \in 1..n /\ n \in Nat /\ Top = builders[n] /\ Top.stage = "import" /\ Len(builders') = n
        /\ \A i \in 1..n : i # n => builders'[i] = builders[i]
        /\ builders'[n].stage = "link" /\ builders'[n].file_ = D /\ builders'[n].next = 1
        /\ descriptors'[D].links = <<>> /\ \A i \in 1..Len(descriptors) : descriptors'[i] = descriptors[i]
        /\ Live' = Live \cup {D} /\ Live \subseteq 1..Len(descriptors) /\ Len(descriptors) \in Nat
        /\ fallback' = "unasked" /\ database' = database /\ database \in Databases
        /\ files_by_name_ \in [Files -> Nat]
    BY <1>1, <1>2, EnterDetail DEF DInv, Types
  <1>4. \A id : TableStays(id)
    BY EnterStays
  <1>5. ASSUME NEW id \in Live, Clean(id)'
        PROVE  Entered(id)' /\ Linked(id)'
    <2>1. Clean(id) /\ descriptors'[id] = descriptors[id] /\ id \in Nat
      BY <1>3, <1>5, EnterClean
    <2>2. Entered(id) /\ Linked(id) /\ descriptors[id].name \in Files
      BY <2>1, <1>3, DescriptorTypes DEF DInv, MInv
    <2>3. Entered(id)' /\ \A j : Right(id, j) => Right(id, j)'
      BY <2>1, <2>2, <1>3, <1>4, IdStays
    <2>4. \A i \in 1..n : LinkBuilder(i) => LinkBuilder(i)' /\ builders'[i] = builders[i]
      BY <1>3 DEF LinkBuilder
    <2>5. Linked(id)'
      BY <2>1, <2>2, <2>3, <2>4, <1>1, <1>3 DEF Linked
    <2> QED BY <2>3, <2>5
  <1>6. ASSUME NEW id \in Live', Clean(id)'
        PROVE  Entered(id)' /\ Linked(id)'
    <2>1. CASE id \in Live
      BY <2>1, <1>5, <1>6
    <2>2. CASE id = D
      BY <2>2, <1>2, <1>6, EnterNew
    <2> QED BY <2>1, <2>2, <1>3
  <1>7. ASSUME NEW i \in 1..Len(builders'), LinkBuilder(i)', Clean(builders[i].file_)'
        PROVE  Underway(builders[i], Len(descriptors[builders[i].file_].links), i < Len(builders) \/ fallback # "unasked")'
    <2> DEFINE b == builders'[i]
               k == Len(descriptors'[b.file_].links)
               w == i < Len(builders') \/ fallback' # "unasked"
    <2>1. CASE i = n
      <3>1. k = 0 /\ w = FALSE
        BY <2>1, <1>3
      <3>2. \A id : id = D /\ Clean(id)' => \A c : c = builders'[Len(builders)] => Underway(c, 0, FALSE)'
        BY <1>2, EnterNew
      <3>3. \A id : id = b.file_ => Clean(id)'
        BY <1>7
      <3>4. \A c, h, v : c = b /\ h = k /\ v = w => Underway(c, h, v)'
        <4>1. Clean(D)'
          BY <3>3, <2>1, <1>3
        <4>2. \A c : c = b => Underway(c, 0, FALSE)'
          BY <3>2, <4>1, <2>1, <1>1
        <4> QED BY <3>1, <4>2
      <3> HIDE DEF k, w
      <3> QED BY <3>4 DEF k, w
    <2>2. CASE i # n
      <3>1. i \in 1..n /\ b = builders[i] /\ LinkBuilder(i) /\ i < n /\ b \in Builder
        BY <2>2, <1>1, <1>3, <1>7, BuilderTypes DEF LinkBuilder, DInv
      <3>2. b.file_ \in Live
        BY <3>1, <1>1, LinkersLive
      <3>3. Clean(b.file_)
        <4>1. \A id : id = b.file_ => Clean(id)'
          BY <1>7
        <4>2. \A id \in Live : Clean(id)' => Clean(id)
          BY EnterClean
        <4> QED BY <4>1, <4>2, <3>2
      <3>4. \E u : Underway(b, k, u) /\ u
        <4>1. Underway(b, Len(descriptors[b.file_].links), i < Len(builders) \/ fallback # "unasked")
          BY <3>1, <3>3, <1>1 DEF MInv
        <4>2. (i < Len(builders) \/ fallback # "unasked") = TRUE
          BY <3>1, <1>1
        <4>3. k = Len(descriptors[b.file_].links)
          BY <3>2, <1>3
        <4> HIDE DEF k, b
        <4> QED BY <4>1, <4>2, <4>3
      <3>5. \A c, h, v : c = b /\ h = k => Underway(c, h, v)'
        <4> SUFFICES ASSUME NEW c, NEW h, NEW v, c = b, h = k PROVE Underway(c, h, v)'
          OBVIOUS
        <4>1. PICK u : c \in Builder /\ TableStays(c.file_) /\ Underway(c, h, u) /\ u
          BY <3>1, <3>4, <1>4
        <4> HIDE DEF b, k, w
        <4> QED BY <4>1, <1>3, UnderwayStays
      <3> HIDE DEF k, w
      <3> QED BY <3>5 DEF k, w
    <2> QED BY <2>1, <2>2
  <1>8. Named' /\ Provenance' /\ Around'
    BY EnterNamed, EnterAround
  <1> QED BY <1>6, <1>7, <1>8 DEF MInv

LEMMA MeansInitially ==
  ASSUME PoolInit
  PROVE  MInv
  <1>1. Live = {} /\ Len(builders) = 0 /\ 1..0 = {}
    BY DEF PoolInit, Live
  <1>2. Named
    BY <1>1 DEF PoolInit, Named
  <1>3. \A s \in Symbols : symbols_by_name_[s].file = 0 /\ symbols_by_name_[s].type = "null"
    BY DEF PoolInit, NullSymbol
  <1>4. Provenance /\ Around
    <2>1. \A s \in Symbols : symbols_by_name_[s].type # "package"
      BY <1>3
    <2> QED BY <2>1, <1>3 DEF Provenance, Around
  <1> QED BY <1>1, <1>2, <1>4 DEF MInv

LEMMA MeansStutters ==
  ASSUME DInv, MInv, UNCHANGED poolVars
  PROVE  MInv'
  <1>1. UNCHANGED <<database, tables>> /\ builders' = builders /\ fallback' = fallback
    BY DEF poolVars
  <1>2. SameLinkers
    BY <1>1 DEF SameLinkers
  <1> QED BY <1>1, <1>2, QuietStep

LEMMA MeansStep ==
  ASSUME DInv, MInv, [PoolNext]_poolVars
  PROVE  MInv'
  <1>1. CASE Ask
    BY <1>1, AskMeans
  <1>2. CASE AskDatabase
    BY <1>2, AskDatabaseMeans
  <1>3. CASE Answer
    BY <1>3, AnswerMeans
  <1>4. CASE Begin
    BY <1>4, BeginMeans
  <1>5. CASE ImportNext
    BY <1>5, ImportMeans
  <1>6. CASE Enter
    BY <1>6, EnterMeans
  <1>7. CASE SeekSymbol
    BY <1>7, SeekMeans
  <1>8. CASE Resolve
    BY <1>8, ResolveMeans
  <1>9. CASE Finish
    BY <1>9, FinishMeans
  <1>10. CASE UNCHANGED poolVars
    BY <1>10, MeansStutters
  <1> QED BY <1>1, <1>2, <1>3, <1>4, <1>5, <1>6, <1>7, <1>8, <1>9, <1>10 DEF PoolNext, PoolStep, Build

LEMMA LinkedBetweenLookups ==
  ASSUME DInv, MInv
  PROVE  LinksAsWritten
  <1> SUFFICES ASSUME builders = <<>>, NEW f \in Files, Built(f),
                      NEW i \in DOMAIN database.proto[f].uses
               PROVE  LET s == Meaning(f, database.proto[f].uses[i])
                      IN /\ symbols_by_name_[s].type = "message"
                         /\ descriptors[files_by_name_[f]].links[i] = symbols_by_name_[s].file
                         /\ Declarer(f, s) # {}
    BY DEF LinksAsWritten
  <1>1. PICK id : id = files_by_name_[f]
    OBVIOUS
  <1>2. id \in Live /\ descriptors[id].name = f
    BY <1>1 DEF Built, DInv, Held, MInv, Named
  <1>3. Len(builders) = 0 /\ \A k \in 1..Len(builders) : FALSE
    OBVIOUS
  <1>4. Linked(id)
    BY <1>2, <1>3 DEF Clean, MInv
  <1>5. /\ Len(descriptors[id].links) = Len(database.proto[f].uses)
        /\ \A j \in 1..Len(descriptors[id].links) : Right(id, j)
    BY <1>2, <1>3, <1>4 DEF Linked
  <1>6. i \in 1..Len(database.proto[f].uses)
    <2>1. database.proto[f].uses \in Seq(Use)
      BY ProtoTypes DEF DInv, Types
    <2> QED BY <2>1
  <1>7. Right(id, i)
    BY <1>5, <1>6
  <1> QED BY <1>1, <1>2, <1>7 DEF Right, EntryBy

-----------------------------------------------------------------------------
\* What is refused.

LEMMA FaultsStay ==
  ASSUME database' = database
  PROVE  \A f : Faultless(f)' <=> Faultless(f)
  <1>1. /\ \A f : Closure(f)' = Closure(f) /\ Imports(f)' = Imports(f)
        /\ \A f, s : Declarer(f, s)' = Declarer(f, s)
        /\ \A f, u : Meaning(f, u)' = Meaning(f, u)
    BY TextStays
  <1> TAKE f
  <1>2. Closure(f)' = Closure(f)
    BY <1>1
  <1> QED BY <1>1, <1>2, SMTT(30) DEF Faultless

\* What a file without a fault imports has none.
LEMMA FaultlessImports ==
  ASSUME database \in Databases, NEW f \in Files, Faultless(f)
  PROVE  /\ \A g \in Closure(f) : Faultless(g)
         /\ \A g \in Imports(f) : Faultless(g) /\ \A h \in Closure(g) : Faultless(h)
  <1>1. \A g \in Closure(f) : Closure(g) \subseteq Closure(f)
    BY ClosureFacts
  <1>2. \A g \in Closure(f) : Faultless(g)
    BY <1>1 DEF Faultless
  <1>3. \A g \in Imports(f) : g \in Closure(f)
    BY ClosureFacts
  <1> QED BY <1>1, <1>2, <1>3

\* What its text has to be.
LEMMA FaultlessText ==
  ASSUME database \in Databases, NEW f \in Files, Faultless(f)
  PROVE  LET p == database.proto[f]
         IN /\ p # NoProto /\ ~Twice(p.dependency)
            /\ \A h \in Imports(f) : f \notin Closure(h)
            /\ \A d \in p.declares, h \in Files :
                 /\ \A e \in database.proto[h].declares : h # f \/ e # d => e.name # d.name
                 /\ d.name \notin Package(h)
            /\ \A q \in Package(f), h \in Files : \A e \in database.proto[h].declares : e.name # q
            /\ \A i \in DOMAIN p.uses : Declarer(f, Meaning(f, p.uses[i])) # {}
            /\ \A i, j \in DOMAIN p.uses :
                 i # j /\ p.uses[i].number # 0 /\ p.uses[i].number = p.uses[j].number
                 => Meaning(f, p.uses[i]) # Meaning(f, p.uses[j])
  <1> DEFINE p == database.proto[f]
  <1>1. f \in Closure(f)
    BY ClosureFacts
  <1>2. /\ p # NoProto /\ ~Twice(p.dependency)
        /\ \A h \in Imports(f) : f \notin Closure(h)
    BY <1>1 DEF Faultless
  <1>3. \A d \in p.declares, h \in Files :
          /\ \A e \in database.proto[h].declares : h # f \/ e # d => e.name # d.name
          /\ LET q == database.proto[h].package IN q # d.name /\ (q # NoSymbol => d.name \notin Ancestors[q])
    BY <1>1 DEF Faultless
  <1>4. \A d \in p.declares, h \in Files : d.name \notin Package(h)
    BY <1>3 DEF Package, Chain
  <1>5. \A q \in {p.package} \cup (IF p.package = NoSymbol THEN {} ELSE Ancestors[p.package]) :
          \A h \in Files : \A e \in database.proto[h].declares : e.name # q
    BY <1>1 DEF Faultless
  <1>6. \A q \in Package(f), h \in Files : \A e \in database.proto[h].declares : e.name # q
    <2>1. \A q \in Package(f) : q \in {p.package} \cup (IF p.package = NoSymbol THEN {} ELSE Ancestors[p.package])
      BY DEF Package, Chain
    <2> QED BY <1>5, <2>1
  <1>7. /\ \A i \in DOMAIN p.uses : Declarer(f, Meaning(f, p.uses[i])) # {}
        /\ \A i, j \in DOMAIN p.uses :
             i # j /\ p.uses[i].number # 0 /\ p.uses[i].number = p.uses[j].number
             => Meaning(f, p.uses[i]) # Meaning(f, p.uses[j])
    BY <1>1 DEF Faultless
  <1> QED BY <1>2, <1>3, <1>4, <1>6, <1>7

\* A file is pushed.
Pushed(bs, f) == \E by \in {"file", "index"} : builders' = Append(bs, NewBuilder(f, by))

\* The innermost builder goes on, and may want another file to be built.
LEMMA GoOn ==
  ASSUME DInv, Explained, builders # <<>>, UNCHANGED <<database, request, refused>>,
         NEW bs \in Seq(Builder), Len(bs) = Len(builders),
         \A i \in 1..Len(builders) : i # Len(builders) => bs[i] = builders[i],
         bs[Len(builders)].filename_ = Top.filename_,
         builders' = bs \/ \E f \in Files : Pushed(bs, f),
         \A f \in Files : files_by_name_[f] # 0 => files_by_name_'[f] # 0,
         Faultless(Top.filename_) =>
           /\ ~bs[Len(builders)].had_errors_
           /\ bs[Len(builders)].stage # "link" =>
                \A j \in 1..(bs[Len(builders)].next - 1) :
                  LET f == ProtoOf(Top).dependency[j]
                  IN f \in Imports(Top.filename_) /\ \/ files_by_name_'[f] # 0
                                                     \/ j = bs[Len(builders)].next - 1 /\ Pushed(bs, f),
         \A f \in Files : Pushed(bs, f) => \A h \in 1..Len(builders) : bs[h].stage = "import" =>
           \E g \in Imports(bs[h].filename_) : f \in Closure(g),
         \A f \in known_bad_files_' : ~Faultless(f)
  PROVE  Explained'
  <1>1. PICK n : n = Len(builders)
    OBVIOUS
  <1>2. /\ n \in 1..n /\ n \in Nat /\ Top = builders[n] /\ Len(bs) = n
        /\ \A i \in 1..n : builders[i] \in Builder
        /\ \A i \in 1..n : bs[i].filename_ = builders[i].filename_
        /\ \A i \in 1..n : i # n => bs[i] = builders[i]
        /\ database \in Databases
    BY <1>1, BuilderTypes DEF DInv, Types, Top
  <1>3. /\ \A f \in Files : Pushed(bs, f) =>
             /\ Len(builders') = n + 1 /\ builders'[n + 1].filename_ = f /\ builders'[n + 1].stage = "begin"
             /\ builders'[n + 1].next = 1 /\ ~builders'[n + 1].had_errors_
        /\ \/ Len(builders') = n
           \/ Len(builders') = n + 1 /\ \E f \in Files : Pushed(bs, f)
        /\ \A i \in 1..n : builders'[i] = bs[i]
    <2>1. ASSUME NEW f \in Files, Pushed(bs, f)
          PROVE  /\ Len(builders') = n + 1 /\ builders'[n + 1].filename_ = f /\ builders'[n + 1].stage = "begin"
                 /\ builders'[n + 1].next = 1 /\ ~builders'[n + 1].had_errors_
                 /\ \A i \in 1..n : builders'[i] = bs[i]
      <3>1. PICK b : /\ builders' = Append(bs, b) /\ b.filename_ = f /\ b.stage = "begin"
                     /\ b.next = 1 /\ ~b.had_errors_
        BY <2>1 DEF Pushed, NewBuilder
      <3>2. bs \in Seq(Builder) /\ Len(bs) = n /\ n \in Nat
        BY <1>2
      <3> QED BY ONLY <3>1, <3>2
    <2>2. CASE builders' = bs
      <3>1. Len(builders') = n /\ \A i \in 1..n : builders'[i] = bs[i]
        BY <2>2, <1>2
      <3> QED BY <2>1, <3>1
    <2>3. CASE \E f \in Files : Pushed(bs, f)
      <3>1. Len(builders') = n + 1 /\ \A i \in 1..n : builders'[i] = bs[i]
        BY <2>1, <2>3
      <3> QED BY <2>1, <2>3, <3>1
    <2> QED BY <2>2, <2>3
  <1>4. \A i \in 1..Len(builders') : i \in 1..n \/ (i = n + 1 /\ \E f \in Files : Pushed(bs, f))
    BY <1>2, <1>3
  <1>5. (\A f : Faultless(f)' <=> Faultless(f)) /\ (\A f : Closure(f)' = Closure(f) /\ Imports(f)' = Imports(f))
    BY FaultsStay, TextStays
  <1>6. Descending'
    <2> SUFFICES ASSUME NEW h \in 1..Len(builders'), NEW i \in 1..Len(builders'), h < i, builders'[h].stage = "import"
                 PROVE  \E g \in Imports(builders'[h].filename_) : builders'[i].filename_ \in Closure(g)
      BY <1>5 DEF Descending, ImportBuilder
    <2>1. h \in 1..n /\ builders'[h] = bs[h]
      BY <1>2, <1>3, <1>4
    <2>2. CASE i \in 1..n
      <3>1. h # n /\ bs[h] = builders[h]
        BY <1>2, <2>1, <2>2
      <3>2. \E g \in Imports(builders[h].filename_) : builders[i].filename_ \in Closure(g)
        BY <2>1, <2>2, <3>1, <1>1 DEF Explained, Descending, ImportBuilder
      <3> QED BY <2>1, <2>2, <3>1, <3>2, <1>2, <1>3
    <2>3. CASE i = n + 1 /\ \E f \in Files : Pushed(bs, f)
      BY <2>1, <2>3, <1>1, <1>3
    <2> QED BY <2>2, <2>3, <1>4
  <1>7. Importing'
    <2> SUFFICES ASSUME NEW i \in 1..Len(builders'), builders'[i].stage # "link", Faultless(builders'[i].filename_),
                        NEW j \in 1..(builders'[i].next - 1),
                        NEW f, f = database.proto[builders'[i].filename_].dependency[j]
                 PROVE  ImportThere(i, j, f)'
      BY <1>5 DEF Importing, ProtoOf
    <2> SUFFICES /\ f \in Imports(builders'[i].filename_)
                 /\ \/ files_by_name_'[f] # 0
                    \/ i < Len(builders') /\ j = builders'[i].next - 1 /\ builders'[i + 1].filename_ = f
      BY <1>5 DEF ImportThere
    <2>1. CASE i \in 1..n /\ i # n
      <3>1. builders'[i] = builders[i] /\ i + 1 \in 1..n /\ builders[i] \in Builder
        BY <2>1, <1>2, <1>3
      <3>2. /\ f \in Imports(builders[i].filename_)
            /\ \/ files_by_name_[f] # 0
               \/ j = builders[i].next - 1 /\ builders[i + 1].filename_ = f
        <4>1. /\ i \in 1..n /\ builders[i].stage # "link" /\ Faultless(builders[i].filename_)
              /\ j \in 1..(builders[i].next - 1) /\ f = ProtoOf(builders[i]).dependency[j]
          BY <2>1, <3>1 DEF ProtoOf
        <4>2. ImportThere(i, j, f)
          BY <4>1, <1>1 DEF Explained, Importing
        <4> QED BY <4>2 DEF ImportThere
      <3>3. builders'[i + 1].filename_ = builders[i + 1].filename_ /\ i < Len(builders')
        BY <3>1, <1>2, <1>3
      <3>4. f \in Files
        BY <3>1, <3>2, <1>2, ImportTypes DEF Builder
      <3> QED BY <3>1, <3>2, <3>3, <3>4
    <2>2. CASE i = n
      <3>1. builders'[i] = bs[n] /\ bs[n].filename_ = Top.filename_
        BY <2>2, <1>1, <1>2, <1>3
      <3>2. f \in Imports(Top.filename_) /\ (files_by_name_'[f] # 0 \/ (j = bs[n].next - 1 /\ Pushed(bs, f)))
        BY <3>1, <1>1 DEF ProtoOf
      <3>3. CASE j = bs[n].next - 1 /\ Pushed(bs, f)
        <4>1. f \in Files
          BY <3>2, <1>2, ImportTypes DEF Builder
        <4>2. Len(builders') = n + 1 /\ builders'[n + 1].filename_ = f
          BY <3>3, <4>1, <1>3
        <4>3. i < Len(builders') /\ builders'[i + 1].filename_ = f /\ j = builders'[i].next - 1
          <5>1. n \in Nat /\ i = n /\ Len(builders') = n + 1
            BY <4>2, <2>2, <1>2
          <5>2. i < Len(builders') /\ i + 1 = n + 1
            BY ONLY <5>1
          <5> QED BY <5>2, <4>2, <3>1, <3>3, <2>2
        <4> QED BY <4>3, <3>1, <3>2
      <3> QED BY <3>1, <3>2, <3>3
    <2>3. CASE i = n + 1 /\ \E g \in Files : Pushed(bs, g)
      BY <2>3, <1>2, <1>3
    <2> QED BY <2>1, <2>2, <2>3, <1>4
  <1>8. Requested'
    <2>1. builders' # <<>> /\ 1 \in 1..n /\ builders'[1].filename_ = builders[1].filename_
      <3>1. 1 \in 1..n
        BY <1>2
      <3> QED BY <3>1, <1>2, <1>3
    <2> QED BY <2>1 DEF Explained, Requested
  <1>9. Judged'
    <2>1. ASSUME NEW i \in 1..Len(builders'), Faultless(builders'[i].filename_)
          PROVE  ~builders'[i].had_errors_
      <3>1. CASE i \in 1..n
        <4>1. builders'[i] = bs[i] /\ bs[i].filename_ = builders[i].filename_
          BY <3>1, <1>2, <1>3
        <4>2. CASE i = n
          BY <4>1, <4>2, <2>1, <1>1, <1>2
        <4>3. CASE i # n
          BY <4>1, <4>3, <3>1, <2>1, <1>1, <1>2 DEF Explained, Judged
        <4> QED BY <4>2, <4>3
      <3>2. CASE i = n + 1 /\ \E f \in Files : Pushed(bs, f)
        BY <3>2, <1>3
      <3> QED BY <3>1, <3>2, <1>4
    <2> QED BY <2>1, <1>5 DEF Explained, Judged
  <1> QED BY <1>6, <1>7, <1>8, <1>9 DEF Explained

\* The innermost builder is through: without an error, if its file has no fault.
LEMMA GoBack ==
  ASSUME DInv, Explained, builders # <<>>, UNCHANGED <<database, request, refused>>,
         builders' = SubSeq(builders, 1, Len(builders) - 1),
         Faultless(Top.filename_) =>
           /\ \A f \in Files : files_by_name_[f] # 0 => files_by_name_'[f] # 0
           /\ files_by_name_'[Top.filename_] # 0 /\ fallback' = "built",
         \A f \in known_bad_files_' : ~Faultless(f)
  PROVE  Explained'
  <1>1. PICK n : n = Len(builders)
    OBVIOUS
  <1>2. /\ n \in 1..n /\ n \in Nat /\ Top = builders[n] /\ Len(builders') = n - 1
        /\ \A i \in 1..n : builders[i] \in Builder
        /\ \A i \in 1..Len(builders') : i \in 1..n /\ i < n /\ builders'[i] = builders[i]
        /\ database \in Databases /\ builders' \in Seq(Builder)
    BY <1>1, BuilderTypes, PopFacts DEF DInv, Types, Top
  <1>3. (\A f : Faultless(f)' <=> Faultless(f)) /\ (\A f : Closure(f)' = Closure(f) /\ Imports(f)' = Imports(f))
    BY FaultsStay, TextStays
  <1>4. Descending'
    <2> SUFFICES ASSUME NEW h \in 1..Len(builders'), NEW i \in 1..Len(builders'), h < i, builders'[h].stage = "import"
                 PROVE  \E g \in Imports(builders'[h].filename_) : builders'[i].filename_ \in Closure(g)
      BY <1>3 DEF Descending, ImportBuilder
    <2> QED BY <1>1, <1>2 DEF Explained, Descending, ImportBuilder
  <1>5. Importing'
    <2> SUFFICES ASSUME NEW i \in 1..Len(builders'), builders'[i].stage # "link", Faultless(builders'[i].filename_),
                        NEW j \in 1..(builders'[i].next - 1),
                        NEW f, f = database.proto[builders'[i].filename_].dependency[j]
                 PROVE  ImportThere(i, j, f)'
      BY <1>3 DEF Importing, ProtoOf
    <2> SUFFICES /\ f \in Imports(builders'[i].filename_)
                 /\ \/ files_by_name_'[f] # 0
                    \/ i < Len(builders') /\ j = builders'[i].next - 1 /\ builders'[i + 1].filename_ = f
      BY <1>3 DEF ImportThere
    <2>1. i \in 1..n /\ i < n /\ builders'[i] = builders[i] /\ builders[i] \in Builder
      BY <1>2
    <2>2. builders[i].stage = "import"
      BY <2>1, <1>1, <1>2 DEF DInv, Working, Builder
    <2>3. /\ f \in Imports(builders[i].filename_)
          /\ \/ files_by_name_[f] # 0
             \/ j = builders[i].next - 1 /\ builders[i + 1].filename_ = f
      BY <2>1, <1>1 DEF Explained, Importing, ImportThere, ProtoOf
    <2>4. Faultless(Top.filename_)
      <3>1. \E g \in Imports(builders[i].filename_) : Top.filename_ \in Closure(g)
        BY <2>1, <2>2, <1>1, <1>2 DEF Explained, Descending, ImportBuilder
      <3> QED BY <3>1, <2>1, <1>2, FaultlessImports DEF Builder
    <2>5. f \in Files
      BY <2>1, <2>3, <1>2, ImportTypes DEF Builder
    <2>6. CASE files_by_name_[f] # 0
      BY <2>1, <2>3, <2>4, <2>5, <2>6
    <2>7. CASE files_by_name_[f] = 0
      <3>1. i + 1 \in 1..n /\ builders[i + 1].filename_ = f
        <4>1. i \in 1..n /\ i < n /\ n \in Nat
          BY <2>1, <1>2
        <4>2. i + 1 \in 1..n
          BY ONLY <4>1
        <4>3. builders[i + 1].filename_ = f
          BY <2>3, <2>7
        <4> QED BY <4>2, <4>3
      <3>2. CASE i + 1 = n
        BY <3>1, <3>2, <2>1, <2>3, <2>4, <1>2
      <3>3. CASE i + 1 # n
        <4>1. i + 1 \in 1..Len(builders') /\ i < Len(builders')
          BY <3>1, <3>3, <2>1, <1>2
        <4>2. builders'[i + 1].filename_ = f /\ j = builders'[i].next - 1 /\ f \in Imports(builders'[i].filename_)
          BY <4>1, <3>1, <2>1, <2>3, <2>7, <1>2
        <4> QED BY <4>1, <4>2
      <3> QED BY <3>2, <3>3
    <2> QED BY <2>6, <2>7
  <1>6. Requested'
    <2> SUFFICES ASSUME request # NoRequest, request.kind = "file"
                 PROVE  /\ builders' # <<>> => builders'[1].filename_ = request.name
                        /\ builders' = <<>> /\ Faultless(request.name) =>
                             fallback' = "built" /\ files_by_name_'[request.name] # 0
      BY <1>3 DEF Requested, Built
    <2>1. builders[1].filename_ = request.name
      BY DEF Explained, Requested
    <2>2. CASE builders' # <<>>
      <3>1. 1 \in 1..Len(builders')
        BY <2>2, <1>2
      <3> QED BY <3>1, <2>1, <2>2, <1>2
    <2>3. CASE builders' = <<>>
      <3>1. n = 1
        <4>1. Len(builders') = 0
          BY ONLY <2>3
        <4> QED BY ONLY <4>1, <1>2
      <3> QED BY <3>1, <2>1, <2>3, <1>2
    <2> QED BY <2>2, <2>3
  <1>7. Judged'
    <2>1. \A i \in 1..Len(builders') : Faultless(builders'[i].filename_) => ~builders'[i].had_errors_
      BY <1>1, <1>2 DEF Explained, Judged
    <2> QED BY <2>1, <1>3 DEF Explained, Judged
  <1> QED BY <1>4, <1>5, <1>6, <1>7 DEF Explained

LEMMA NotPushed ==
  ASSUME NEW bs \in Seq(Builder), builders' = bs
  PROVE  \A f : ~Pushed(bs, f)
  <1> SUFFICES ASSUME NEW c, bs = Append(bs, c) PROVE FALSE
    BY DEF Pushed
  <1>1. Len(Append(bs, c)) = Len(bs) + 1 /\ Len(bs) \in Nat
    OBVIOUS
  <1> QED BY ONLY <1>1, bs = Append(bs, c)

\* A file is sought in the database: it is there, if it has no fault.
LEMMA FileSought ==
  ASSUME DInv, Explained, NEW bs \in Seq(Builder), NEW f \in Files, TryFindFile(bs, f)
  PROVE  /\ \A g \in known_bad_files_' : ~Faultless(g)
         /\ builders' = bs \/ Pushed(bs, f)
         /\ Faultless(f) => Pushed(bs, f)
         /\ ~Pushed(bs, f) => builders' = bs /\ fallback' = "failed"
         /\ Pushed(bs, f) => fallback' = "unasked"
  <1>1. database \in Databases /\ \A g \in known_bad_files_ : ~Faultless(g)
    BY DEF DInv, Types, Explained, Judged
  <1>2. CASE f \in known_bad_files_
    <2>1. builders' = bs /\ fallback' = "failed" /\ known_bad_files_' = known_bad_files_
      BY <1>2 DEF TryFindFile, NothingThere
    <2>2. ~Pushed(bs, f)
      BY <2>1, NotPushed
    <2> QED BY <2>1, <2>2, <1>1, <1>2
  <1>3. CASE f \notin known_bad_files_ /\ database.proto[f] = NoProto
    <2>1. ~Faultless(f)
      BY <1>1, <1>3, FaultlessText
    <2>2. builders' = bs /\ fallback' = "failed" /\ known_bad_files_' = known_bad_files_ \cup {f}
      BY <1>3 DEF TryFindFile, NothingThere
    <2>3. ~Pushed(bs, f)
      BY <2>2, NotPushed
    <2> QED BY <2>1, <2>2, <2>3, <1>1
  <1>4. CASE f \notin known_bad_files_ /\ database.proto[f] # NoProto
    <2>1. builders' = Append(bs, NewBuilder(f, "file")) /\ known_bad_files_' = known_bad_files_ /\ fallback' = "unasked"
      BY <1>4 DEF TryFindFile, BuildFrom
    <2> QED BY <2>1, <1>1 DEF Pushed
  <1> QED BY <1>2, <1>3, <1>4

LEMMA AskExplained ==
  ASSUME DInv, Explained, Ask
  PROVE  Explained'
  <1>1. /\ builders = <<>> /\ fallback' = "unasked"
        /\ UNCHANGED <<database, builders, files_by_name_, known_bad_files_, refused>>
    BY DEF Ask, tables
  <1>2. (\A f : Faultless(f)' <=> Faultless(f)) /\ (\A f : Closure(f)' = Closure(f) /\ Imports(f)' = Imports(f))
    BY <1>1, FaultsStay, TextStays
  <1>3. Descending' /\ Importing'
    BY <1>1 DEF Descending, Importing
  <1>4. Requested'
    BY <1>1 DEF Requested
  <1>5. Judged'
    BY <1>1, <1>2 DEF Explained, Judged
  <1> QED BY <1>3, <1>4, <1>5 DEF Explained

LEMMA AnswerExplained ==
  ASSUME DInv, Explained, Answer
  PROVE  Explained'
  <1>1. /\ builders = <<>> /\ request # NoRequest /\ request' = NoRequest
        /\ UNCHANGED <<database, builders, files_by_name_, known_bad_files_>>
        /\ InTables # 0 \/ fallback # "unasked"
        /\ refused' = refused \/ (refused' = refused \cup {request} /\ ~(fallback # "failed" /\ InTables # 0))
    BY DEF Answer, tables
  <1>2. \A f : Faultless(f)' <=> Faultless(f)
    BY <1>1, FaultsStay
  <1>3. Descending' /\ Importing' /\ Requested'
    BY <1>1 DEF Descending, Importing, Requested
  <1>4. ASSUME request.kind = "file", ~(fallback # "failed" /\ InTables # 0)
        PROVE  ~Faultless(request.name)
    BY <1>1, <1>4 DEF Explained, Requested, InTables, Built
  <1>5. Judged'
    <2>1. \A r \in refused' : r.kind = "file" => ~Faultless(r.name)
      BY <1>1, <1>4 DEF Explained, Judged
    <2> QED BY <2>1, <1>1, <1>2 DEF Explained, Judged
  <1> QED BY <1>3, <1>5 DEF Explained

LEMMA AskDatabaseExplained ==
  ASSUME DInv, Explained, AskDatabase
  PROVE  Explained'
  <1>1. /\ builders = <<>> /\ UNCHANGED <<database, files_by_name_, request, refused>>
        /\ request # NoRequest
    BY DEF AskDatabase, tables, history
  <1>2. (\A f : Faultless(f)' <=> Faultless(f)) /\ builders \in Seq(Builder)
    BY <1>1, FaultsStay DEF DInv, Types
  <1>3. /\ builders' = <<>> \/ \E f \in Files : Pushed(<<>>, f)
        /\ \A f \in known_bad_files_' : ~Faultless(f)
        /\ request.kind = "file" =>
             /\ builders' # <<>> => builders'[1].filename_ = request.name
             /\ builders' = <<>> => ~Faultless(request.name)
    <2>1. CASE request.kind = "file"
      <3>1. request.name \in Files
        BY <2>1, <1>1 DEF DInv, Types, Request
      <3>2. TryFindFile(builders, request.name)
        BY <2>1 DEF AskDatabase
      <3>3. /\ builders' = <<>> \/ Pushed(<<>>, request.name)
            /\ Faultless(request.name) => Pushed(<<>>, request.name)
            /\ \A f \in known_bad_files_' : ~Faultless(f)
        BY <3>1, <3>2, <1>1, <1>2, FileSought
      <3>4. Pushed(<<>>, request.name) => builders' # <<>> /\ builders'[1].filename_ = request.name
        BY DEF Pushed, NewBuilder
      <3> QED BY <3>1, <3>3, <3>4
    <2>2. CASE request.kind # "file"
      <3>1. known_bad_files_' = known_bad_files_
        BY <2>2 DEF AskDatabase, TryFindSymbol, TryIndexed, DInv, Types, Request, NoRequest
      <3>2. builders' = <<>> \/ \E f \in Files : Pushed(<<>>, f)
        BY <1>1, AskDatabasePushes DEF Pushed
      <3> QED BY <2>2, <3>1, <3>2 DEF Explained, Judged
    <2> QED BY <2>1, <2>2
  <1>4. \/ Len(builders') = 0
        \/ /\ Len(builders') = 1 /\ builders'[1].stage = "begin" /\ builders'[1].next = 1
           /\ ~builders'[1].had_errors_
    <2>1. ASSUME NEW f \in Files, Pushed(<<>>, f)
          PROVE  /\ Len(builders') = 1 /\ builders'[1].stage = "begin" /\ builders'[1].next = 1
                 /\ ~builders'[1].had_errors_
      BY <2>1 DEF Pushed, NewBuilder
    <2> QED BY <1>3, <2>1
  <1>5. Descending' /\ Importing'
    BY <1>4 DEF Descending, Importing, ImportBuilder
  <1>6. Requested'
    BY <1>1, <1>2, <1>3 DEF Requested
  <1>7. Judged'
    <2>1. \A i \in 1..Len(builders') : ~builders'[i].had_errors_
      BY <1>4
    <2> QED BY <2>1, <1>1, <1>2, <1>3 DEF Explained, Judged
  <1> QED BY <1>5, <1>6, <1>7 DEF Explained

LEMMA BeginExplained ==
  ASSUME DInv, Explained, Begin
  PROVE  Explained'
  <1> DEFINE n == Len(builders)
  <1>1. /\ builders # <<>> /\ Top = builders[n] /\ Top \in Builder /\ Top.stage = "begin" /\ n \in 1..n
        /\ UNCHANGED <<database, files_by_name_, request, refused>> /\ builders \in Seq(Builder)
        /\ database \in Databases /\ \A i \in 1..n : builders[i] \in Builder
    BY BuilderTypes DEF Begin, At, Top, tables, history, DInv, Types
  <1>2. CASE Recursive(Top.filename_)
    <2>1. builders' = SubSeq(builders, 1, Len(builders) - 1)
      BY <1>2 DEF Begin, Return
    <2>2. ~Faultless(Top.filename_)
      <3>1. PICK j \in 1..Len(pending_files_) : pending_files_[j] = Top.filename_
        <4>1. pending_files_ \in Seq(Files)
          BY DEF DInv, Types
        <4>2. DOMAIN pending_files_ = 1..Len(pending_files_)
          BY ONLY <4>1
        <4> QED BY <4>2, <1>2 DEF Recursive
      <3>2. PICK i \in 1..n : builders[i].stage = "import" /\ builders[i].filename_ = Top.filename_
        BY <3>1 DEF DInv, Imported
      <3>3. i < n
        <4>1. i # n
          BY <3>2, <1>1
        <4> QED BY <4>1, <1>1
      <3>4. \E g \in Imports(Top.filename_) : Top.filename_ \in Closure(g)
        BY <3>2, <3>3, <1>1 DEF Explained, Descending, ImportBuilder
      <3> QED BY <3>4, <1>1, FaultlessText DEF Builder
    <2>3. \A f \in known_bad_files_' : ~Faultless(f)
      <3>1. known_bad_files_' \subseteq known_bad_files_ \cup {Top.filename_}
        BY <1>2 DEF Begin, Return
      <3> QED BY <3>1, <2>2 DEF Explained, Judged
    <2> QED BY <2>1, <2>2, <2>3, <1>1, GoBack
  <1>3. CASE ~Recursive(Top.filename_)
    <2> DEFINE b == [Top EXCEPT !.stage = "import"]
    <2>1. builders' = WithTop(b) /\ known_bad_files_' = known_bad_files_
      BY <1>3 DEF Begin
    <2>2. b \in Builder /\ b.filename_ = Top.filename_ /\ b.had_errors_ = Top.had_errors_ /\ b.next = Top.next
      BY <1>1 DEF Builder
    <2> HIDE DEF b
    <2>3. /\ WithTop(b) \in Seq(Builder) /\ Len(WithTop(b)) = n /\ WithTop(b)[n] = b
          /\ \A i \in 1..n : i # n => WithTop(b)[i] = builders[i]
      BY <1>1, <2>2, WithTopFacts DEF DInv
    <2>4. \A f \in Files : ~Pushed(WithTop(b), f)
      BY <2>1, <2>3, NotPushed
    <2>5. Faultless(Top.filename_) =>
            /\ ~b.had_errors_
            /\ \A j \in 1..(b.next - 1) :
                  LET f == ProtoOf(Top).dependency[j]
                  IN f \in Imports(Top.filename_) /\ files_by_name_'[f] # 0
      <3> SUFFICES ASSUME Faultless(Top.filename_)
                   PROVE  /\ ~b.had_errors_
                          /\ \A j \in 1..(b.next - 1) :
                               LET f == ProtoOf(Top).dependency[j]
                               IN f \in Imports(Top.filename_) /\ files_by_name_'[f] # 0
        OBVIOUS
      <3>1. ~b.had_errors_
        BY <1>1, <2>2 DEF Explained, Judged
      <3>2. ~(n < n)
        BY <1>1
      <3> QED BY <3>1, <3>2, <1>1, <2>2 DEF Explained, Importing, ImportThere
    <2>6. \A f \in known_bad_files_' : ~Faultless(f)
      BY <2>1 DEF Explained, Judged
    <2>7. \A f \in Files : files_by_name_[f] # 0 => files_by_name_'[f] # 0
      BY <1>1
    <2>8. PICK bs : bs = WithTop(b)
      OBVIOUS
    <2> QED BY <2>1, <2>2, <2>3, <2>4, <2>5, <2>6, <2>7, <2>8, <1>1, GoOn
  <1> QED BY <1>2, <1>3

LEMMA ImportExplained ==
  ASSUME DInv, Explained, ImportNext
  PROVE  Explained'
  <1> DEFINE n == Len(builders)
             f == ProtoOf(Top).dependency[Top.next]
             b == [Top EXCEPT !.next = @ + 1]
             bs == WithTop(b)
             F == Top.filename_
  <1>1. /\ builders # <<>> /\ n \in 1..n /\ n \in Nat /\ Top = builders[n]
        /\ Top \in Builder /\ Top.stage = "import" /\ f \in Files /\ b \in Builder
        /\ bs \in Seq(Builder) /\ Len(bs) = n /\ bs[n] = b
        /\ \A i \in 1..n : i # n => bs[i] = builders[i]
    BY ImportPushes
  <1>2. /\ UNCHANGED <<database, files_by_name_, request, refused>> /\ database \in Databases
        /\ Top.next \in Nat /\ Top.next <= Len(ProtoOf(Top).dependency) /\ F \in Files /\ Top.next # 0
        /\ \A i \in 1..n : builders[i] \in Builder
    BY <1>1, BuilderTypes DEF ImportNext, tables, history, DInv, Types, Builder
  <1>3. b.filename_ = F /\ b.next = Top.next + 1 /\ b.had_errors_ = Top.had_errors_ /\ b.stage = "import"
    BY <1>1 DEF Builder
  <1>4. f \in Imports(F)
    <2>1. ProtoOf(Top).dependency \in Seq(Files)
      BY <1>2, ProtoTypes DEF ProtoOf
    <2>2. Top.next \in DOMAIN ProtoOf(Top).dependency
      <3>1. DOMAIN ProtoOf(Top).dependency = 1..Len(ProtoOf(Top).dependency) /\ Len(ProtoOf(Top).dependency) \in Nat
        BY <2>1
      <3> QED BY <3>1, <1>2
    <2> QED BY <2>2 DEF Imports, ProtoOf
  <1>5. /\ builders' = bs \/ Pushed(bs, f)
        /\ Faultless(F) => files_by_name_[f] # 0 \/ Pushed(bs, f)
        /\ \A g \in known_bad_files_' : ~Faultless(g)
    <2>1. CASE files_by_name_[f] = 0
      <3>1. TryFindFile(bs, f)
        BY <2>1 DEF ImportNext
      <3> HIDE DEF bs
      <3>2. Faultless(F) => Faultless(f)
        BY <1>2, <1>4, FaultlessImports
      <3> HIDE DEF f
      <3> QED BY <3>1, <3>2, <1>1, FileSought
    <2>2. CASE files_by_name_[f] # 0
      <3>1. builders' = bs /\ known_bad_files_' = known_bad_files_
        BY <2>2 DEF ImportNext
      <3> QED BY <2>2, <3>1 DEF Explained, Judged
    <2> QED BY <2>1, <2>2
  <1>6. \A g \in Files : Pushed(bs, g) => g = f
    <2> SUFFICES ASSUME NEW g \in Files, NEW x, NEW y, g # f, x.filename_ = f, y.filename_ = g,
                        Append(bs, x) = Append(bs, y)
                 PROVE  FALSE
      <3>1. \A g \in Files : builders' = bs => ~Pushed(bs, g)
        BY <1>1, NotPushed
      <3>2. \A h, by : NewBuilder(h, by).filename_ = h
        BY DEF NewBuilder
      <3> HIDE DEF bs, f
      <3> QED BY <3>1, <3>2, <1>5 DEF Pushed
    <2>1. x = y
      <3>1. Append(bs, x)[Len(bs) + 1] = x /\ Append(bs, y)[Len(bs) + 1] = y
        <4>1. bs \in Seq(Builder)
          BY <1>1
        <4> QED BY ONLY <4>1
      <3> QED BY <3>1
    <2> QED BY <2>1
  <1>7. \A g \in Files : Pushed(bs, g) => \A h \in 1..n : bs[h].stage = "import" =>
           \E i \in Imports(bs[h].filename_) : g \in Closure(i)
    <2> SUFFICES ASSUME NEW h \in 1..n, bs[h].stage = "import"
                 PROVE  \E i \in Imports(bs[h].filename_) : f \in Closure(i)
      BY <1>6
    <2>1. CASE h = n
      <3>1. f \in Closure(f)
        BY <1>1, <1>2, ClosureFacts
      <3> QED BY <2>1, <3>1, <1>1, <1>3, <1>4
    <2>2. CASE h # n
      <3>1. bs[h] = builders[h] /\ h < n /\ builders[h] \in Builder
        BY <2>2, <1>1, <1>2
      <3>2. PICK i \in Imports(builders[h].filename_) : F \in Closure(i)
        BY <3>1, <1>1 DEF Explained, Descending, ImportBuilder
      <3>3. f \in Closure(i)
        <4>1. i \in Files
          BY <3>1, <3>2, <1>2, ImportTypes DEF Builder
        <4>2. f \in Closure(F) /\ Closure(F) \subseteq Closure(i)
          BY <4>1, <3>2, <1>2, <1>4, ClosureFacts
        <4> QED BY <4>2
      <3> QED BY <3>1, <3>2, <3>3
    <2> QED BY <2>1, <2>2
  <1>8. ASSUME Faultless(F)
        PROVE  /\ ~b.had_errors_
               /\ \A j \in 1..(b.next - 1) :
                    LET g == ProtoOf(Top).dependency[j]
                    IN g \in Imports(F) /\ (files_by_name_'[g] # 0 \/ (j = b.next - 1 /\ Pushed(bs, g)))
    <2>1. ~b.had_errors_
      BY <1>1, <1>3, <1>8 DEF Explained, Judged
    <2>2. \A j \in 1..(Top.next - 1) :
             LET g == ProtoOf(Top).dependency[j] IN g \in Imports(F) /\ files_by_name_[g] # 0
      <3>1. ~(n < n)
        BY <1>1
      <3> QED BY <3>1, <1>1, <1>8 DEF Explained, Importing, ImportThere
    <2>3. \A j \in 1..(b.next - 1) : j \in 1..(Top.next - 1) \/ (j = Top.next /\ j = b.next - 1)
      BY <1>2, <1>3
    <2>4. f \in Imports(F) /\ (files_by_name_'[f] # 0 \/ Pushed(bs, f))
      BY <1>2, <1>4, <1>5, <1>8
    <2> HIDE DEF bs, b, F
    <2> QED BY <2>1, <2>2, <2>3, <2>4, <1>2
  <1>9. \A g \in Files : files_by_name_[g] # 0 => files_by_name_'[g] # 0
    BY <1>2
  <1>10. builders' = bs \/ \E g \in Files : Pushed(bs, g)
    BY <1>1, <1>5
  <1>11. PICK cs : cs = bs
    OBVIOUS
  <1> HIDE DEF b, bs, f
  <1> QED BY <1>1, <1>2, <1>3, <1>5, <1>7, <1>8, <1>9, <1>10, <1>11, GoOn

LEMMA SeekExplained ==
  ASSUME DInv, FInv, SeekSymbol, ~strayed'
  PROVE  ~strayed /\ Explained'
  <1>1. ~strayed /\ Explained
    BY DEF SeekSymbol, FInv, Explained
  <1>2. /\ Linking /\ Sought \in Symbols /\ TryFindSymbol(builders, Sought) /\ builders # <<>>
        /\ Top = builders[Len(builders)] /\ Top.stage = "link" /\ Len(builders) \in 1..Len(builders)
        /\ builders \in Seq(Builder)
    BY LinkingFacts DEF SeekSymbol, DInv, Types
  <1>3. /\ UNCHANGED <<database, files_by_name_, request, refused>> /\ known_bad_files_' = known_bad_files_
    BY DEF SeekSymbol, tables, TryFindSymbol, TryIndexed
  <1>4. builders' = builders \/ \E f \in Files : Pushed(builders, f)
    BY <1>2, SymbolPushes DEF DInv, Types, Pushed
  <1>5. ASSUME NEW f \in Files, Pushed(builders, f), NEW h \in 1..Len(builders), builders[h].stage = "import"
        PROVE  FALSE
    <2>1. builders' # builders
      BY <1>2, <1>5, NotPushed
    <2>2. pending_files_ = <<>>
      BY <2>1 DEF SeekSymbol
    <2>3. \E j \in 1..Len(pending_files_) : builders[h].filename_ = pending_files_[j]
      BY <1>5 DEF DInv, Imported
    <2>4. Len(pending_files_) = 0
      BY ONLY <2>2
    <2> QED BY <2>3, <2>4
  <1>6. /\ Faultless(Top.filename_) => ~Top.had_errors_
        /\ \A f \in known_bad_files_' : ~Faultless(f)
    BY <1>1, <1>2, <1>3 DEF Explained, Judged
  <1> QED BY <1>1, <1>2, <1>3, <1>4, <1>5, <1>6, GoOn

LEMMA FinishExplained ==
  ASSUME DInv, MInv, Explained, Finish
  PROVE  Explained'
  <1>1. /\ builders # <<>> /\ Len(builders) \in 1..Len(builders) /\ Top = builders[Len(builders)]
        /\ Top.stage = "link" /\ Top \in Builder
        /\ builders' = SubSeq(builders, 1, Len(builders) - 1)
        /\ UNCHANGED <<database, request, refused>>
        /\ known_bad_files_' = known_bad_files_ \cup (IF Top.had_errors_ /\ Top.by = "file" THEN {Top.filename_} ELSE {})
        /\ fallback' = IF ~Top.had_errors_ THEN "built" ELSE "failed"
    <2>1. Types
      BY DEF DInv
    <2> QED BY <2>1, FinishFacts, BuilderTypes DEF Finish, Return, history
  <1>2. Faultless(Top.filename_) => ~Top.had_errors_
    BY <1>1 DEF Explained, Judged
  <1>3. \A f \in known_bad_files_' : ~Faultless(f)
    BY <1>1, <1>2 DEF Explained, Judged
  <1>4. ASSUME ~Top.had_errors_
        PROVE  files_by_name_' = files_by_name_ /\ files_by_name_[Top.filename_] # 0
    <2>1. files_by_name_' = files_by_name_
      BY <1>4 DEF Finish, ClearLastCheckpoint
    <2>2. Top.file_ \in Live /\ descriptors[Top.file_].name = Top.filename_
      BY <1>1, LinkersLive DEF LinkBuilder, MInv, Named
    <2>3. files_by_name_[Top.filename_] = Top.file_ /\ Top.file_ # 0
      BY <2>2, LiveFacts DEF DInv, Held
    <2> QED BY <2>1, <2>3
  <1>5. Faultless(Top.filename_) =>
          /\ \A f \in Files : files_by_name_[f] # 0 => files_by_name_'[f] # 0
          /\ files_by_name_'[Top.filename_] # 0 /\ fallback' = "built"
    BY <1>1, <1>2, <1>4
  <1> QED BY <1>1, <1>3, <1>5, GoBack

\* A step that pushes nothing.
LEMMA GoOnAlone ==
  ASSUME DInv, DInv', Explained, builders # <<>>, UNCHANGED <<database, request, refused, known_bad_files_>>,
         Len(builders') = Len(builders),
         \A i \in 1..Len(builders) : i # Len(builders) => builders'[i] = builders[i],
         builders'[Len(builders)].filename_ = Top.filename_, builders'[Len(builders)].stage = "link",
         \A f \in Files : files_by_name_[f] # 0 => files_by_name_'[f] # 0,
         Faultless(Top.filename_) => ~builders'[Len(builders)].had_errors_
  PROVE  Explained'
  <1>1. PICK bs : bs = builders'
    OBVIOUS
  <1>2. bs \in Seq(Builder)
    BY <1>1 DEF DInv, Types
  <1>3. \A f : ~Pushed(bs, f)
    BY <1>1, <1>2, NotPushed
  <1>4. \A f \in known_bad_files_' : ~Faultless(f)
    BY DEF Explained, Judged
  <1> QED BY <1>1, <1>2, <1>3, <1>4, GoOn

\* Nothing stands in the way of what a file without a fault declares.
LEMMA NamesFree ==
  ASSUME DInv, MInv, NEW f \in Files, files_by_name_[f] = 0, Faultless(f)
  PROVE  /\ \A d \in database.proto[f].declares :
              d.name \in Symbols /\ symbols_by_name_[d.name] = NullSymbol /\ d.name \notin Package(f)
         /\ \A q \in Package(f) : symbols_by_name_[q].type \in {"null", "package"}
         /\ \A d, e \in database.proto[f].declares : d # e => d.name # e.name
  <1>1. database \in Databases /\ Types
    BY DEF DInv, Types
  <1>2. database.proto[f].declares \subseteq Declaration /\ Package(f) \subseteq Symbols
    BY <1>1, ProtoTypes, PackageTypes
  <1>3. /\ \A d \in database.proto[f].declares, h \in Files :
             /\ \A e \in database.proto[h].declares : h # f \/ e # d => e.name # d.name
             /\ d.name \notin Package(h)
        /\ \A q \in Package(f), h \in Files : \A e \in database.proto[h].declares : e.name # q
    BY <1>1, FaultlessText
  <1>4. ASSUME NEW s \in Symbols, symbols_by_name_[s] # NullSymbol
        PROVE  \E h \in Files :
                 /\ h # f
                 /\ \/ symbols_by_name_[s].type = "package" /\ s \in Package(h)
                    \/ symbols_by_name_[s].type # "package" /\ \E e \in database.proto[h].declares : e.name = s
    <2>1. PICK h : h = descriptors[symbols_by_name_[s].file].name
      OBVIOUS
    <2>2. symbols_by_name_[s].file \in Live /\ symbols_by_name_[s].file # 0
      <3>1. symbols_by_name_[s].file \in Live
        BY <1>4, TypedNames
      <3>2. 0 \notin Live
        BY LiveFacts DEF DInv
      <3> QED BY <3>1, <3>2
    <2>3. h \in Files /\ files_by_name_[h] # 0
      <3>1. symbols_by_name_[s].file \in 1..Len(descriptors)
        BY <2>2, LiveFacts DEF DInv
      <3>2. files_by_name_[h] = symbols_by_name_[s].file
        BY <2>1, <2>2 DEF DInv, Held
      <3> QED BY <3>1, <3>2, <2>1, <2>2, <1>1, DescriptorTypes
    <2>4. /\ symbols_by_name_[s].type = "package" => s \in Package(h)
          /\ symbols_by_name_[s].type # "package" =>
               [name |-> s, type |-> symbols_by_name_[s].type] \in database.proto[h].declares
      BY <2>1, <2>2 DEF MInv, Provenance
    <2>5. symbols_by_name_[s].type # "package" => \E e \in database.proto[h].declares : e.name = s
      <3> DEFINE e == [name |-> s, type |-> symbols_by_name_[s].type]
      <3>1. e.name = s
        OBVIOUS
      <3>2. symbols_by_name_[s].type # "package" => e \in database.proto[h].declares
        BY <2>4
      <3> HIDE DEF e
      <3> QED BY ONLY <3>1, <3>2
    <2> QED BY <2>3, <2>4, <2>5
  <1>5. ASSUME NEW d \in database.proto[f].declares
        PROVE  d.name \in Symbols /\ symbols_by_name_[d.name] = NullSymbol /\ d.name \notin Package(f)
    <2>1. d.name \in Symbols
      BY <1>2 DEF Declaration
    <2>2. d.name \notin Package(f)
      BY <1>3
    <2>3. symbols_by_name_[d.name] = NullSymbol
      BY <2>1, <1>3, <1>4
    <2> QED BY <2>1, <2>2, <2>3
  <1>6. ASSUME NEW q \in Package(f)
        PROVE  symbols_by_name_[q].type \in {"null", "package"}
    <2>1. CASE symbols_by_name_[q] = NullSymbol
      BY <2>1 DEF NullSymbol
    <2>2. CASE symbols_by_name_[q] # NullSymbol
      BY <2>2, <1>2, <1>3, <1>4
    <2> QED BY <2>1, <2>2
  <1>7. \A d, e \in database.proto[f].declares : d # e => d.name # e.name
    BY <1>3
  <1> QED BY <1>5, <1>6, <1>7

LEMMA EnterExplained ==
  ASSUME DInv, MInv, Explained, Enter
  PROVE  Explained'
  <1> DEFINE n == Len(builders)
             F == Top.filename_
             p == ProtoOf(Top)
             id == Len(descriptors) + 1
             packages == IF p.package = NoSymbol THEN {} ELSE PackagesAdded(p.package)
             added == {d \in p.declares : symbols_by_name_[d.name] = NullSymbol /\ d.name \notin packages}
             imports == [i \in DOMAIN p.dependency |-> files_by_name_[p.dependency[i]]]
             errors == \/ added # p.declares \/ \E d, e \in p.declares : d # e /\ d.name = e.name
                       \/ 0 \in {imports[i] : i \in DOMAIN imports} \/ Twice(p.dependency)
                       \/ \E q \in Symbols : /\ q = p.package \/ (p.package # NoSymbol /\ q \in Ancestors[p.package])
                                             /\ symbols_by_name_[q].type \notin {"null", "package"}
             deps == RecordPublicDependencies({imports[i] : i \in DOMAIN imports})
             b == [Top EXCEPT !.stage = "link", !.next = 1, !.file_ = id, !.had_errors_ = errors,
                              !.dependencies_ = deps]
  <1>1. /\ n \in 1..n /\ builders # <<>> /\ Top = builders[n] /\ Top.stage = "import" /\ n \in Nat
        /\ F \in Files /\ files_by_name_[F] = 0 /\ id # 0
        /\ Len(builders') = n /\ \A i \in 1..n : i # n => builders'[i] = builders[i]
        /\ builders'[n].filename_ = F /\ builders'[n].stage = "link"
        /\ \A f \in Files : files_by_name_'[f] = IF f = F THEN id ELSE files_by_name_[f]
    BY EnterDetail
  <1>2. /\ UNCHANGED <<database, request, refused, known_bad_files_>> /\ builders' = WithTop(b)
        /\ Top.next > Len(p.dependency) /\ database \in Databases /\ Top \in Builder
    BY <1>1, BuilderTypes DEF Enter, history, DInv, Types
  <1>3. builders'[n].had_errors_ = errors
    <2>1. b.had_errors_ = errors
      BY <1>2 DEF Builder
    <2> HIDE DEF b, errors
    <2>2. builders \in Seq(Builder)
      BY DEF DInv, Types
    <2>3. WithTop(b)[n] = b
      BY <1>1, <2>2 DEF WithTop
    <2> QED BY <2>1, <2>3, <1>2
  <1>4. ASSUME Faultless(F)
        PROVE  ~errors
    <2>1. /\ \A d \in p.declares :
               d.name \in Symbols /\ symbols_by_name_[d.name] = NullSymbol /\ d.name \notin Package(F)
          /\ \A q \in Package(F) : symbols_by_name_[q].type \in {"null", "package"}
          /\ \A d, e \in p.declares : d # e => d.name # e.name
      BY <1>1, <1>4, NamesFree DEF ProtoOf
    <2>2. packages \subseteq Package(F)
      BY DEF PackagesAdded, Package, Chain, ProtoOf
    <2>3. added = p.declares
      BY <2>1, <2>2
    <2>4. \A q \in Symbols : q = p.package \/ (p.package # NoSymbol /\ q \in Ancestors[p.package])
                             => symbols_by_name_[q].type \in {"null", "package"}
      BY <2>1, <1>1, <1>2, PackageTypes DEF ProtoOf
    <2>5. ~Twice(p.dependency)
      BY <1>1, <1>2, <1>4, FaultlessText DEF ProtoOf
    <2>6. \A i \in DOMAIN imports : imports[i] # 0
      <3>1. p.dependency \in Seq(Files)
        BY <1>1, <1>2, ProtoTypes DEF ProtoOf
      <3>2. DOMAIN imports = 1..Len(p.dependency) /\ Len(p.dependency) \in Nat
        BY <3>1
      <3>3. \A i \in 1..(Top.next - 1) : files_by_name_[p.dependency[i]] # 0
        <4>1. ~(n < n)
          BY <1>1
        <4> QED BY <4>1, <1>1, <1>4 DEF Explained, Importing, ImportThere
      <3>4. \A i \in 1..Len(p.dependency) : i \in 1..(Top.next - 1)
        BY <3>2, <1>2 DEF Builder
      <3> QED BY <3>2, <3>3, <3>4
    <2> HIDE DEF added, imports
    <2> QED BY <2>1, <2>3, <2>4, <2>5, <2>6
  <1>5. \A f \in Files : files_by_name_[f] # 0 => files_by_name_'[f] # 0
    BY <1>1
  <1>6. DInv'
    BY EnterStep
  <1> HIDE DEF errors
  <1> QED BY <1>1, <1>2, <1>3, <1>4, <1>5, <1>6, GoOnAlone

\* A name that a file without a fault uses is found, and its number is free.
LEMMA NameFound ==
  ASSUME DInv, MInv, Explained, Linking, symbols_by_name_[Sought] # NullSymbol \/ fallback # "unasked",
         Faultless(Top.filename_),
         LET r == FindSymbol
             s == UseNow.scopes[Top.scope]
         IN \/ LastScope \/ Top.rest
            \/ s.first = s.full /\ r # NullSymbol /\ (UseNow.types_only => r.type = "message")
  PROVE  /\ FindSymbol.type = "message"
         /\ ~(UseNow.number # 0 /\ <<Sought, UseNow.number>> \in Top.numbers)
  <1> DEFINE r == FindSymbol
             s == UseNow.scopes[Top.scope]
             f == Top.filename_
             uses == database.proto[f].uses
             m == Top.scope
  <1>1. /\ Top \in Builder /\ Top.stage = "link" /\ Top.next \in Nat \ {0} /\ m \in 1..Len(UseNow.scopes)
        /\ UseNow.scopes \in Seq(Scope) /\ m \in Nat \ {0} /\ UseNow \in Use /\ Sought \in Symbols
        /\ f \in Files /\ database \in Databases
    BY LinkingFacts DEF Builder, DInv, Types
  <1>2. Clean(Top.file_)
    <2> SUFFICES ASSUME NEW i \in 1..Len(builders), LinkBuilder(i), builders[i].had_errors_,
                        builders[i].filename_ \in Closure(descriptors[Top.file_].name)
                 PROVE  FALSE
      BY DEF Clean
    <2>1. descriptors[Top.file_].name = f
      BY LinkingFacts DEF MInv, Named, LinkBuilder
    <2>2. Faultless(builders[i].filename_)
      BY <2>1, <1>1, FaultlessImports
    <2> QED BY <2>2 DEF Explained, Judged
  <1>3. /\ Underway(Top, Len(descriptors[Top.file_].links), fallback # "unasked") /\ UseNow = uses[Top.next]
        /\ Top.next <= Len(uses)
    BY <1>2, TopLinks
  <1>4. /\ r = NullSymbol => Declared(f, Sought) = {}
        /\ r # NullSymbol => Declared(f, Sought) = {r.type}
    BY <1>2, FindMeans
  <1>5. Sought = s.full
    BY DEF Sought
  <1>6. Decides(f, UseNow, m)
    <2>1. CASE LastScope
      BY <2>1 DEF LastScope, Decides
    <2>2. CASE Top.rest
      BY <2>2, <1>3 DEF Underway, ScopesTried
    <2>3. CASE s.first = s.full /\ r # NullSymbol /\ (UseNow.types_only => r.type = "message")
      <3>1. Declared(f, s.first) = {r.type}
        BY <2>3, <1>4, <1>5
      <3> HIDE DEF r
      <3> QED BY <3>1, <2>3 DEF Decides
    <2> QED BY <2>1, <2>2, <2>3
  <1>7. \A j \in 1..(m - 1) : ~Decides(f, UseNow, j)
    BY <1>3 DEF Underway, ScopesTried
  <1>8. Meaning(f, UseNow) = Sought
    BY <1>1, <1>5, <1>6, <1>7, MeaningIs
  <1>9. Top.next \in DOMAIN uses /\ DOMAIN uses = 1..Len(uses) /\ Len(uses) \in Nat
    <2>1. uses \in Seq(Use)
      BY <1>1, ProtoTypes
    <2>2. DOMAIN uses = 1..Len(uses) /\ Len(uses) \in Nat
      <3> HIDE DEF uses
      <3> QED BY ONLY <2>1
    <2> QED BY <2>2, <1>1, <1>3
  <1>10. /\ Declarer(f, Sought) # {}
         /\ \A i \in DOMAIN uses : i # Top.next /\ uses[i].number # 0 /\ uses[i].number = UseNow.number
              => Meaning(f, uses[i]) # Sought
    <2>1. /\ \A i \in DOMAIN uses : Declarer(f, Meaning(f, uses[i])) # {}
          /\ \A i, j \in DOMAIN uses : i # j /\ uses[i].number # 0 /\ uses[i].number = uses[j].number
              => Meaning(f, uses[i]) # Meaning(f, uses[j])
      BY <1>1, FaultlessText
    <2> QED BY <2>1, <1>3, <1>8, <1>9
  <1>11. r.type = "message"
    <2>1. "message" \in Declared(f, Sought)
      BY <1>10 DEF Declarer, Declared
    <2> HIDE DEF r
    <2> QED BY <2>1, <1>4
  <1>12. ASSUME UseNow.number # 0, <<Sought, UseNow.number>> \in Top.numbers
         PROVE  FALSE
    <2>1. PICK k \in 1..(Top.next - 1) :
             /\ uses[k].number # 0
             /\ <<Sought, UseNow.number>> = <<Meaning(f, uses[k]), uses[k].number>>
      BY <1>3, <1>12 DEF Underway, NumbersTaken
    <2>2. k \in DOMAIN uses /\ k # Top.next
      <3>1. Top.next \in 1..Len(uses) /\ Len(uses) \in Nat /\ k \in 1..(Top.next - 1)
        BY <1>9
      <3> HIDE DEF uses
      <3>2. k \in 1..Len(uses) /\ k # Top.next
        BY ONLY <3>1
      <3> QED BY ONLY <3>2, <1>9
    <2> QED BY <2>1, <2>2, <1>10
  <1> QED BY <1>11, <1>12

LEMMA ResolveExplained ==
  ASSUME DInv, MInv, Explained, Resolve
  PROVE  Explained'
  <1> DEFINE n == Len(builders)
             r == FindSymbol
             s == UseNow.scopes[Top.scope]
             last == LastScope \/ Top.rest
             further == IF last THEN FALSE
                        ELSE IF r = NullSymbol THEN TRUE
                        ELSE IF s.first # s.full THEN r.type = "field"
                        ELSE UseNow.types_only /\ r.type # "message"
             into == ~last /\ ~further /\ s.first # s.full
  <1>1. /\ Linking /\ UNCHANGED <<database, request, refused, known_bad_files_, files_by_name_>>
        /\ symbols_by_name_[Sought] # NullSymbol \/ fallback # "unasked"
    BY DEF Resolve, history
  <1>2. /\ builders # <<>> /\ n \in 1..n /\ Top = builders[n] /\ Top \in Builder /\ Top.stage = "link"
        /\ builders \in Seq(Builder)
    BY <1>1, LinkingFacts DEF DInv, Types
  <1>3. Faultless(Top.filename_) => ~Top.had_errors_
    BY <1>2 DEF Explained, Judged
  <1>4. \E b : /\ builders' = WithTop(b) /\ b.filename_ = Top.filename_ /\ b.stage = "link"
               /\ Faultless(Top.filename_) => ~b.had_errors_
    <2>1. CASE further \/ into
      <3>1. builders' = WithTop(IF into THEN [Top EXCEPT !.rest = TRUE] ELSE [Top EXCEPT !.scope = @ + 1])
        BY <2>1 DEF Resolve
      <3>2. \A v : /\ v = [Top EXCEPT !.rest = TRUE] \/ v = [Top EXCEPT !.scope = @ + 1]
                   => v.filename_ = Top.filename_ /\ v.stage = "link" /\ v.had_errors_ = Top.had_errors_
        BY <1>2 DEF Builder
      <3> HIDE DEF into
      <3>3. PICK v : builders' = WithTop(v) /\ (v = [Top EXCEPT !.rest = TRUE] \/ v = [Top EXCEPT !.scope = @ + 1])
        BY <3>1
      <3> QED BY <3>2, <3>3, <1>3
    <2>2. CASE ~(further \/ into)
      <3>1. LinkTo(r)
        BY <2>2 DEF Resolve
      <3>2. last \/ (s.first = s.full /\ r # NullSymbol /\ (UseNow.types_only => r.type = "message"))
        BY <2>2
      <3>3. Faultless(Top.filename_) =>
              r.type = "message" /\ ~(UseNow.number # 0 /\ <<Sought, UseNow.number>> \in Top.numbers)
        BY <3>2, <1>1, NameFound
      <3> HIDE DEF r
      <3>4. CASE r.type # "message"
        <4> DEFINE v == NextUse([Top EXCEPT !.had_errors_ = TRUE])
        <4>1. builders' = WithTop(v)
          BY <3>1, <3>4 DEF LinkTo
        <4>2. v.filename_ = Top.filename_ /\ v.stage = "link"
          BY <1>2 DEF Builder, NextUse
        <4> HIDE DEF v
        <4> QED BY <4>1, <4>2, <3>3, <3>4
      <3>5. CASE r.type = "message"
        <4> DEFINE key == <<Sought, UseNow.number>>
                   extends == UseNow.number # 0
                   e == Top.had_errors_ \/ (extends /\ key \in Top.numbers)
                   N == IF extends THEN Top.numbers \cup {key} ELSE Top.numbers
                   v == NextUse([Top EXCEPT !.had_errors_ = e, !.numbers = N])
        <4>1. NextUse([Top EXCEPT !.had_errors_ = @ \/ (extends /\ key \in Top.numbers),
                                  !.numbers = IF extends THEN @ \cup {key} ELSE @]) = v
          BY <1>2 DEF Builder, NextUse
        <4>2. builders' = WithTop(v)
          BY <3>1, <3>5, <4>1 DEF LinkTo
        <4>3. v.filename_ = Top.filename_ /\ v.stage = "link" /\ v.had_errors_ = e
          BY <1>2 DEF Builder, NextUse
        <4>4. Faultless(Top.filename_) => ~e
          BY <3>3, <1>3
        <4> HIDE DEF v, e
        <4> QED BY <4>2, <4>3, <4>4
      <3> QED BY <3>4, <3>5
    <2> QED BY <2>1, <2>2
  <1>5. /\ Len(builders') = n /\ \A i \in 1..n : i # n => builders'[i] = builders[i]
        /\ builders'[n].filename_ = Top.filename_ /\ builders'[n].stage = "link"
        /\ Faultless(Top.filename_) => ~builders'[n].had_errors_
    <2>1. PICK b : /\ builders' = WithTop(b) /\ b.filename_ = Top.filename_ /\ b.stage = "link"
                   /\ Faultless(Top.filename_) => ~b.had_errors_
      BY <1>4
    <2>2. Len(builders') = n /\ builders'[n] = b /\ \A i \in 1..n : i # n => builders'[i] = builders[i]
      BY <2>1, <1>2 DEF WithTop
    <2> QED BY <2>1, <2>2
  <1>6. DInv'
    BY ResolveStep
  <1> QED BY <1>1, <1>2, <1>5, <1>6, GoOnAlone

LEMMA ExplainedInitially ==
  ASSUME PoolInit
  PROVE  FInv
  <1>1. Len(builders) = 0 /\ 1..0 = {}
    BY DEF PoolInit
  <1>2. Descending /\ Importing
    BY <1>1 DEF Descending, Importing
  <1>3. Requested /\ Judged
    BY <1>1 DEF PoolInit, Requested, Judged, NoRequest
  <1> QED BY <1>2, <1>3 DEF FInv, Explained

LEMMA ExplainedStutters ==
  ASSUME Explained, UNCHANGED poolVars
  PROVE  Explained'
  <1>1. UNCHANGED <<database, builders, files_by_name_, request, fallback, known_bad_files_, refused>>
    BY DEF poolVars, tables, history
  <1>2. (\A f : Faultless(f)' <=> Faultless(f)) /\ (\A f : Closure(f)' = Closure(f) /\ Imports(f)' = Imports(f))
    BY <1>1, FaultsStay, TextStays
  <1>3. Descending'
    BY <1>1, <1>2 DEF Explained, Descending, ImportBuilder
  <1>4. Importing'
    BY <1>1, <1>2 DEF Explained, Importing, ImportThere, ProtoOf
  <1>5. Requested' /\ Judged'
    BY <1>1, <1>2 DEF Explained, Requested, Built, Judged
  <1> QED BY <1>3, <1>4, <1>5 DEF Explained

LEMMA ExplainedStep ==
  ASSUME DInv, MInv, FInv, [PoolNext]_poolVars
  PROVE  FInv'
  <1> SUFFICES ASSUME ~strayed' PROVE Explained'
    BY DEF FInv, Explained
  <1>1. CASE SeekSymbol
    BY <1>1, SeekExplained
  <1>2. CASE ~SeekSymbol
    <2>1. strayed' = strayed
      BY <1>2 DEF PoolNext, PoolStep, Build, Ask, AskDatabase, Answer, Begin, ImportNext, Enter, Resolve,
                  Finish, history, poolVars
    <2>2. Explained
      BY <2>1 DEF FInv, Explained
    <2>3. CASE Ask
      BY <2>2, <2>3, AskExplained
    <2>4. CASE AskDatabase
      BY <2>2, <2>4, AskDatabaseExplained
    <2>5. CASE Answer
      BY <2>2, <2>5, AnswerExplained
    <2>6. CASE Begin
      BY <2>2, <2>6, BeginExplained
    <2>7. CASE ImportNext
      BY <2>2, <2>7, ImportExplained
    <2>8. CASE Enter
      BY <2>2, <2>8, EnterExplained
    <2>9. CASE Resolve
      BY <2>2, <2>9, ResolveExplained
    <2>10. CASE Finish
      BY <2>2, <2>10, FinishExplained
    <2>11. CASE UNCHANGED poolVars
      BY <2>2, <2>11, ExplainedStutters
    <2> QED BY <1>2, <2>3, <2>4, <2>5, <2>6, <2>7, <2>8, <2>9, <2>10, <2>11 DEF PoolNext, PoolStep, Build
  <1> QED BY <1>1, <1>2

-----------------------------------------------------------------------------
\* At every moment of a lookup, how far the files below are built and what of
\* the pool's tables goes with them if they fail is as the invariant says.
THEOREM PoolInvariance == PoolSpec => []DInv
  <1>1. PoolInit => DInv
    BY PoolInitially
  <1>2. DInv /\ [PoolNext]_poolVars => DInv'
    BY PoolStepKeeps
  <1> QED BY <1>1, <1>2, PTL DEF PoolSpec

\* Between lookups the pool holds whole files only, whatever files and
\* databases there are and however deep their imports go: a file that was
\* rolled back has left nothing, and no file still refers to it.
THEOREM PoolIsWhole == PoolSpec => []NothingDangles
  <1>1. DInv => NothingDangles
    BY WholeBetweenLookups
  <1> QED BY <1>1, PoolInvariance, PTL

\* At every moment of a lookup, the links made so far are what the names mean
\* in the text, for every file in which, with what it imports, no error was
\* noticed yet; and the scope that is tried next is one that was reached.
THEOREM LinkingInvariance == PoolSpec => []MInv
  <1>1. PoolInit => DInv /\ MInv
    BY PoolInitially, MeansInitially
  <1>2. DInv /\ MInv /\ [PoolNext]_poolVars => DInv' /\ MInv'
    BY PoolStepKeeps, MeansStep
  <1> QED BY <1>1, <1>2, PTL DEF PoolSpec

\* Between lookups every name that a file of the pool uses is linked to what
\* it means in the text of the file and of its imports: the order of lookups,
\* what was rolled back, and files that were drawn in from the database while
\* a name was sought (LookupSymbol, FindSymbol) have no part in it.
THEOREM LinkedAsWritten == PoolSpec => []LinksAsWritten
  <1>1. DInv /\ MInv => LinksAsWritten
    BY LinkedBetweenLookups
  <1> QED BY <1>1, PoolInvariance, LinkingInvariance, PTL

\* Until a search has drawn in a file while imports were pending, no builder
\* of a file without a fault has noticed an error, and no such file is known
\* to be bad.
THEOREM RefusalInvariance == PoolSpec => []FInv
  <1>1. PoolInit => DInv /\ MInv /\ FInv
    BY PoolInitially, MeansInitially, ExplainedInitially
  <1>2. DInv /\ MInv /\ FInv /\ [PoolNext]_poolVars => DInv' /\ MInv' /\ FInv'
    BY PoolStepKeeps, MeansStep, ExplainedStep
  <1> QED BY <1>1, <1>2, PTL DEF PoolSpec

\* A file is refused (FindFileByName gives NULL) for a fault in its text or in
\* that of a file it imports, never for what was looked up before, unless a
\* search for a symbol has drawn in a file while imports were pending.
THEOREM RefusalsExplained == PoolSpec => []RefusedForAFault
  <1>1. FInv => RefusedForAFault
    BY DEF FInv, Explained, Judged, RefusedForAFault
  <1> QED BY <1>1, RefusalInvariance, PTL
=============================================================================
