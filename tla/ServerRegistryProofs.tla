------------------------ MODULE ServerRegistryProofs ------------------------
(***************************************************************************)
(* The maps of a Server agree, for any services and whatever their names;  *)
(* and what CamelCase computes of any name: that it does the same at each  *)
(* position and nothing the second time, and so that calls arrive under    *)
(* the names of the .proto file.                                           *)
(***************************************************************************)
EXTENDS MCServerRegistry, SequenceTheorems, WellFoundedInduction, TLAPS

-----------------------------------------------------------------------------
(* Numbers and concatenations.                                             *)

\* A non-empty set of numbers has a least.
LEMMA LeastOf ==
  ASSUME NEW T, T \subseteq Nat, T # {}
  PROVE  \E n \in T : \A m \in T : n <= m
<1> DEFINE R == {p \in Nat \X Nat : p[1] < p[2]}
<1>1. IsWellFoundedOn(R, Nat)
  BY NatLessThanWellFounded DEF OpToRel
<1>2. PICK n \in T : \A m \in T : <<m, n>> \notin R
  <2> HIDE DEF R
  <2> QED BY <1>1, WFMin
<1>3. ASSUME NEW m \in T, ~(n <= m) PROVE FALSE
  <2>1. m < n /\ m \in Nat /\ n \in Nat
    BY <1>3
  <2>2. <<m, n>> \in R
    BY <2>1
  <2> QED BY <2>2, <1>2
<1> QED BY <1>3

LEMMA LeastIn ==
  ASSUME NEW n \in Nat, NEW T, T \subseteq 0..n, T # {}
  PROVE  \E k \in T : k \in 0..n /\ \A j \in 0..n : j < k => j \notin T
<1>1. T \subseteq Nat
  OBVIOUS
<1>2. PICK k \in T : \A j \in T : k <= j
  BY <1>1, LeastOf
<1>3. ASSUME NEW j \in 0..n, j < k PROVE j \notin T
  BY <1>2, <1>3
<1> QED BY <1>3

\* A non-empty set of numbers up to N has a greatest.
LEMMA Greatest ==
  ASSUME NEW N \in Nat, NEW S, S \subseteq 1..N, S # {}
  PROVE  \E x \in S : \A y \in S : y <= x
<1> DEFINE T == {N - x : x \in S}
<1>1. T \subseteq Nat /\ T # {}
  <2>1. \A x \in S : x \in 1..N
    OBVIOUS
  <2>2. \A x \in S : N - x \in Nat
    BY <2>1
  <2> QED BY <2>2
<1>2. PICK z \in T : \A y \in T : ~ (<<y, z>> \in OpToRel(<, Nat))
  BY <1>1, NatLessThanWellFounded, WFMin
<1>3. PICK x \in S : z = N - x
  OBVIOUS
<1>4. ASSUME NEW y \in S PROVE y <= x
  <2>1. N - y \in T /\ N - y \in Nat /\ N - x \in Nat
    BY <1>1, <1>3
  <2>2. ~ (N - y < N - x)
    BY <1>2, <1>3, <2>1 DEF OpToRel
  <2> QED BY <2>2
<1> QED BY <1>4

\* f gathers the pieces of p from the left, g from the right.
Forth(p, S, f) ==
  /\ f \in [0..Len(p) -> Seq(S)]
  /\ f[0] = <<>>
  /\ \A k \in 1..Len(p) : f[k] = f[k - 1] \o p[k]
Back(p, S, g) ==
  /\ g \in [0..Len(p) -> Seq(S)]
  /\ g[Len(p)] = <<>>
  /\ \A k \in 1..Len(p) : g[k - 1] = p[k] \o g[k]

LEMMA ForthExists ==
  ASSUME NEW S, NEW p \in Seq(Seq(S))
  PROVE  \E f : Forth(p, S, f)
<1> DEFINE n == Len(p)
           Upto(m, f) == /\ f \in [0..n -> Seq(S)] /\ f[0] = <<>>
                         /\ \A k \in 1..m : f[k] = f[k - 1] \o p[k]
           T == {m \in 0..n : ~\E f : Upto(m, f)}
<1>1. n \in Nat /\ \A k \in 1..n : p[k] \in Seq(S)
  OBVIOUS
<1>2. Upto(0, [k \in 0..n |-> <<>>])
  BY <1>1, EmptySeq
<1> HIDE DEF n
<1>3. ASSUME T # {} PROVE FALSE
  <2>1. PICK m \in T : m \in 0..n /\ \A j \in 0..n : j < m => j \notin T
    <3>1. T \subseteq 0..n
      OBVIOUS
    <3> HIDE DEF T
    <3> QED BY <1>1, <1>3, <3>1, LeastIn
  <2>2. m \in 1..n /\ m - 1 \in 0..n /\ m - 1 \notin T
    <3>1. m # 0
      BY <1>2, <2>1
    <3>2. m \in 1..n /\ m - 1 \in 0..n /\ m - 1 < m
      BY <1>1, <2>1, <3>1
    <3> HIDE DEF T
    <3> QED BY <2>1, <3>2
  <2>3. PICK f : Upto(m - 1, f)
    BY <2>2
  <2> DEFINE h == [f EXCEPT ![m] = f[m - 1] \o p[m]]
  <2>4. f[m - 1] \o p[m] \in Seq(S)
    <3>1. f[m - 1] \in Seq(S) /\ p[m] \in Seq(S)
      BY <1>1, <2>2, <2>3
    <3> QED BY ONLY <3>1, ConcatProperties
  <2>5. h \in [0..n -> Seq(S)] /\ h[0] = <<>>
    BY <1>1, <2>2, <2>3, <2>4
  <2>6. ASSUME NEW k \in 1..m PROVE h[k] = h[k - 1] \o p[k]
    <3>1. CASE k = m
      BY <1>1, <2>2, <2>3, <3>1
    <3>2. CASE k # m
      <4>1. k \in 1..(m - 1) /\ k - 1 # m /\ k - 1 \in 0..n /\ k \in 0..n
        BY <1>1, <2>2, <3>2
      <4>2. h[k] = f[k] /\ h[k - 1] = f[k - 1]
        BY <2>3, <4>1, <3>2
      <4> QED BY <2>3, <4>1, <4>2
    <3> QED BY <3>1, <3>2
  <2>7. Upto(m, h)
    BY <2>5, <2>6
  <2> QED BY <2>1, <2>7
<1>4. PICK f : Upto(n, f)
  <2>1. n \in 0..n /\ n \notin T
    <3> HIDE DEF T
    <3> QED BY <1>1, <1>3
  <2> QED BY <2>1
<1> QED BY <1>4 DEF Forth, n

LEMMA BackExists ==
  ASSUME NEW S, NEW p \in Seq(Seq(S))
  PROVE  \E g : Back(p, S, g)
<1> DEFINE n == Len(p)
           From(m, g) == /\ g \in [0..n -> Seq(S)] /\ g[n] = <<>>
                         /\ \A k \in (n - m + 1)..n : g[k - 1] = p[k] \o g[k]
           T == {m \in 0..n : ~\E g : From(m, g)}
<1>1. n \in Nat /\ \A k \in 1..n : p[k] \in Seq(S)
  OBVIOUS
<1>2. From(0, [k \in 0..n |-> <<>>])
  BY <1>1, EmptySeq
<1> HIDE DEF n
<1>3. ASSUME T # {} PROVE FALSE
  <2>1. PICK m \in T : m \in 0..n /\ \A j \in 0..n : j < m => j \notin T
    <3>1. T \subseteq 0..n
      OBVIOUS
    <3> HIDE DEF T
    <3> QED BY <1>1, <1>3, <3>1, LeastIn
  <2>2. m \in 1..n /\ m - 1 \in 0..n /\ m - 1 \notin T
    <3>1. m # 0
      <4>1. \E g : From(0, g)
        BY <1>2
      <4> HIDE DEF From
      <4> QED BY <2>1, <4>1
    <3>2. m \in 1..n /\ m - 1 \in 0..n /\ m - 1 < m
      BY <1>1, <2>1, <3>1
    <3> HIDE DEF T
    <3> QED BY <2>1, <3>2
  <2>3. PICK g : From(m - 1, g)
    BY <2>2
  <2> DEFINE i == n - m + 1
             h == [g EXCEPT ![i - 1] = p[i] \o g[i]]
  <2>4. i \in 1..n /\ i - 1 \in 0..n /\ i - 1 # n
    BY <1>1, <2>2
  <2>5. p[i] \o g[i] \in Seq(S)
    <3>1. p[i] \in Seq(S) /\ g[i] \in Seq(S)
      BY <1>1, <2>3, <2>4
    <3> QED BY ONLY <3>1, ConcatProperties
  <2>6. \A k \in (i + 1)..n : g[k - 1] = p[k] \o g[k]
    <3>1. n - (m - 1) + 1 = i + 1
      BY <1>1, <2>2
    <3> QED BY <2>3, <3>1
  <2>7. g \in [0..n -> Seq(S)] /\ g[n] = <<>>
    BY <2>3
  <2>8. i = n - m + 1
    OBVIOUS
  <2> HIDE DEF i
  <2>9. h \in [0..n -> Seq(S)] /\ h[n] = <<>>
    BY <1>1, <2>4, <2>5, <2>7
  <2>10. ASSUME NEW k \in i..n PROVE h[k - 1] = p[k] \o h[k]
    <3>1. CASE k = i
      <4>1. i \in 0..n /\ i - 1 \in 0..n /\ i # i - 1
        BY <1>1, <2>4
      <4>2. h[i] = g[i] /\ h[i - 1] = p[i] \o g[i]
        BY <4>1, <2>7
      <4> QED BY <3>1, <4>2
    <3>2. CASE k # i
      <4>1. k \in (i + 1)..n /\ k - 1 # i - 1 /\ k # i - 1 /\ k - 1 \in 0..n /\ k \in 0..n
        BY <1>1, <2>4, <3>2
      <4>2. h[k] = g[k] /\ h[k - 1] = g[k - 1]
        BY <2>7, <4>1
      <4> QED BY <2>6, <4>1, <4>2
    <3> QED BY <3>1, <3>2
  <2>11. From(m, h)
    BY <2>8, <2>9, <2>10
  <2> QED BY <2>1, <2>11
<1>4. PICK g : From(n, g)
  <2>1. n \in 0..n /\ n \notin T
    <3> HIDE DEF T
    <3> QED BY <1>1, <1>3
  <2> QED BY <2>1
<1>5. \A k \in 1..n : k \in (n - n + 1)..n
  BY <1>1
<1>6. Back(p, S, g)
  BY <1>1, <1>4, <1>5 DEF Back, n
<1> QED BY <1>6

\* Both ways give the same, which is what FlattenSeq gives.
LEMMA ForthIsBack ==
  ASSUME NEW S, NEW p \in Seq(Seq(S)), NEW f, NEW g, Forth(p, S, f), Back(p, S, g)
  PROVE  f[Len(p)] = g[0]
<1> DEFINE n == Len(p)
           T == {k \in 0..n : f[k] \o g[k] # g[0]}
<1>1. n \in Nat /\ \A k \in 1..n : p[k] \in Seq(S)
  OBVIOUS
<1>2. /\ f \in [0..n -> Seq(S)] /\ f[0] = <<>> /\ \A k \in 1..n : f[k] = f[k - 1] \o p[k]
      /\ g \in [0..n -> Seq(S)] /\ g[n] = <<>> /\ \A k \in 1..n : g[k - 1] = p[k] \o g[k]
  BY DEF Forth, Back
<1> HIDE DEF n
<1>3. ASSUME T # {} PROVE FALSE
  <2>1. PICK k \in T : k \in 0..n /\ \A j \in 0..n : j < k => j \notin T
    <3>1. T \subseteq 0..n
      OBVIOUS
    <3> HIDE DEF T
    <3> QED BY <1>1, <1>3, <3>1, LeastIn
  <2>2. k # 0
    <3>1. g[0] \in Seq(S)
      BY <1>1, <1>2
    <3>2. <<>> \o g[0] = g[0]
      BY ONLY <3>1, ConcatEmptySeq
    <3> QED BY <1>2, <2>1, <3>2
  <2>3. k \in 1..n /\ k - 1 \in 0..n /\ k \in 0..n /\ k - 1 \notin T
    <3>1. k \in 1..n /\ k - 1 \in 0..n /\ k - 1 < k
      BY <1>1, <2>1, <2>2
    <3> HIDE DEF T
    <3> QED BY <2>1, <3>1
  <2>4. f[k - 1] \o g[k - 1] = g[0]
    BY <2>3
  <2>5. f[k - 1] \in Seq(S) /\ p[k] \in Seq(S) /\ g[k] \in Seq(S)
    BY <1>1, <1>2, <2>3
  <2>6. (f[k - 1] \o p[k]) \o g[k] = f[k - 1] \o (p[k] \o g[k])
    <3> DEFINE a == f[k - 1]  b == p[k]  c == g[k]
    <3>1. a \in Seq(S) /\ b \in Seq(S) /\ c \in Seq(S)
      BY <2>5
    <3> HIDE DEF a, b, c
    <3>2. (a \o b) \o c = a \o (b \o c)
      BY ONLY <3>1, ConcatAssociative
    <3> QED BY <3>2 DEF a, b, c
  <2>7. f[k] \o g[k] = g[0]
    BY <1>2, <2>3, <2>4, <2>6
  <2> QED BY <2>1, <2>7
<1>4. f[n] \o g[n] = g[0]
  <2>1. n \in 0..n /\ n \notin T
    <3> HIDE DEF T
    <3> QED BY <1>1, <1>3
  <2> QED BY <2>1
<1>5. f[n] \in Seq(S)
  BY <1>1, <1>2
<1>6. f[n] \o <<>> = f[n]
  BY ONLY <1>5, ConcatEmptySeq
<1> QED BY <1>2, <1>4, <1>6 DEF n

LEMMA FlattenIs ==
  ASSUME NEW S, NEW p \in Seq(Seq(S)), NEW f, Forth(p, S, f)
  PROVE  FlattenSeq(p) = f[Len(p)]
<1> DEFINE n == Len(p)
           Satisfies(h) == h = [i \in 1..n |-> IF i = 1 THEN p[i] ELSE h[i - 1] \o p[i]]
<1>1. n \in Nat /\ (\A k \in 1..n : p[k] \in Seq(S)) /\ (n = 0 => p = <<>>)
  OBVIOUS
<1>2. f \in [0..n -> Seq(S)] /\ f[0] = <<>> /\ \A k \in 1..n : f[k] = f[k - 1] \o p[k]
  BY DEF Forth
<1>3. FlattenSeq(p) = IF n = 0 THEN p ELSE (CHOOSE h : Satisfies(h))[n]
  BY DEF FlattenSeq
<1> HIDE DEF n
<1>4. CASE n = 0
  BY <1>1, <1>2, <1>3, <1>4 DEF n
<1>5. CASE n # 0
  <2>1. 1 \in 1..n /\ f[1] = p[1]
    <3>1. 1 \in 1..n
      BY <1>1, <1>5
    <3>2. f[1] = f[1 - 1] \o p[1]
      BY <1>2, <3>1
    <3>5. 1 - 1 = 0
      OBVIOUS
    <3>3. p[1] \in Seq(S)
      BY <1>1, <3>1
    <3>4. <<>> \o p[1] = p[1]
      BY ONLY <3>3, ConcatEmptySeq
    <3> QED BY <1>2, <3>1, <3>2, <3>4, <3>5
  <2> DEFINE w == [i \in 1..n |-> f[i]]
  <2>2. Satisfies(w)
    <3>1. ASSUME NEW i \in 1..n PROVE w[i] = IF i = 1 THEN p[i] ELSE w[i - 1] \o p[i]
      <4>1. CASE i = 1
        BY <2>1, <4>1
      <4>2. CASE i # 1
        <5>1. i - 1 \in 1..n
          BY <1>1, <4>2
        <5> QED BY <1>2, <4>2, <5>1
      <4> QED BY <4>1, <4>2
    <3> QED BY <3>1
  <2> DEFINE h == CHOOSE h : Satisfies(h)
  <2>3. Satisfies(h)
    BY <2>2
  <2> HIDE DEF w, h
  <2> DEFINE T == {i \in 1..n : h[i] # f[i]}
  <2>4. ASSUME T # {} PROVE FALSE
    <3>1. PICK i \in T : i \in 0..n /\ \A j \in 0..n : j < i => j \notin T
      <4>1. T \subseteq 0..n
        BY <1>1
      <4> HIDE DEF T
      <4> QED BY <1>1, <2>4, <4>1, LeastIn
    <3>2. i \in 1..n /\ h[i] = IF i = 1 THEN p[i] ELSE h[i - 1] \o p[i]
      BY <2>3, <3>1
    <3>3. CASE i = 1
      BY <2>1, <3>1, <3>2, <3>3
    <3>4. CASE i # 1
      <4>1. i - 1 \in 1..n /\ i - 1 \notin T
        BY <1>1, <3>1, <3>2, <3>4
      <4>2. h[i - 1] = f[i - 1]
        BY <4>1
      <4> QED BY <1>2, <3>1, <3>2, <3>4, <4>2
    <3> QED BY <3>3, <3>4
  <2>5. h[n] = f[n]
    <3>1. n \in 1..n
      BY <1>1, <1>5
    <3> QED BY <2>4, <3>1
  <2> QED BY <1>3, <1>5, <2>5 DEF h, n
<1> QED BY <1>4, <1>5
-----------------------------------------------------------------------------
(* CamelCase is what it does at each position: an underscore goes if a     *)
(* lower case letter follows it, except the first, which becomes X; a      *)
(* lower case letter that no letter precedes becomes its capital; all else *)
(* stays.                                                                  *)

Piece(s, i) ==
  IF i = 1 /\ s[i] = "_" THEN <<"X">>
  ELSE IF s[i] = "_" /\ i < Len(s) /\ s[i + 1] \in Lower THEN <<>>
  ELSE IF s[i] \in Lower /\ (i = 1 \/ s[i - 1] \notin Letter) THEN <<UpperOf[s[i]]>>
  ELSE <<s[i]>>

Pieces(s) == [i \in 1..Len(s) |-> Piece(s, i)]

LEMMA Chars ==
  /\ Lower \subseteq Letter /\ Letter \subseteq NameChar /\ "X" \in NameChar
  /\ \A c \in Lower : UpperOf[c] \in NameChar /\ UpperOf[c] \in Letter /\ UpperOf[c] \notin Lower
  /\ "_" \notin Letter /\ "." \notin Letter /\ "_" \notin Lower /\ "." \notin Lower
  /\ "_" \notin Digit /\ "." \notin Digit /\ "_" \in NameChar /\ "." \in NameChar
  /\ \A c \in Digit : c \notin Letter /\ c \notin Lower
  /\ "X" \in Letter /\ "X" \notin Lower /\ "X" # "_" /\ "." # "_"
  /\ \A c \in NameChar : c \in Letter \/ c \in Digit \/ c = "_" \/ c = "."
<1>1. Lower \subseteq Letter /\ Letter \subseteq IdentifierChar /\ IdentifierChar \subseteq NameChar
  BY DEF Letter, IdentifierChar, NameChar
<1>2. \A c \in Lower : UpperOf[c] \in Letter /\ UpperOf[c] \notin Lower
  BY NamingAssumption DEF Letter
<1>3. "_" \notin Letter /\ "." \notin Letter /\ "_" \notin Digit /\ "." \notin Digit
  BY NamingAssumption
<1>4. "X" \in Letter /\ "X" \notin Lower
  BY NamingAssumption
<1>5. \A c \in Digit : c \notin Letter
  BY NamingAssumption
<1>6. "_" \in NameChar /\ "." \in NameChar
  BY DEF IdentifierChar, NameChar
<1>7. \A c \in NameChar : c \in Letter \/ c \in Digit \/ c = "_" \/ c = "."
  BY DEF IdentifierChar, NameChar
<1>8. "X" # "_" /\ "." # "_"
  OBVIOUS
<1> QED BY <1>1, <1>2, <1>3, <1>4, <1>5, <1>6, <1>7, <1>8

LEMMA PieceTypes ==
  ASSUME NEW s \in Seq(NameChar)
  PROVE  /\ Pieces(s) \in Seq(Seq(NameChar)) /\ Len(Pieces(s)) = Len(s)
         /\ \A i \in 1..Len(s) : Pieces(s)[i] = Piece(s, i) /\ Piece(s, i) \in Seq(NameChar)
<1>1. Len(s) \in Nat /\ \A i \in 1..Len(s) : s[i] \in NameChar
  OBVIOUS
<1>2. ASSUME NEW i \in 1..Len(s) PROVE Piece(s, i) \in Seq(NameChar)
  <2>1. \A c \in NameChar : <<c>> \in Seq(NameChar)
    OBVIOUS
  <2>2. <<>> \in Seq(NameChar)
    OBVIOUS
  <2> QED BY <1>1, <2>1, <2>2, Chars DEF Piece
<1>3. Pieces(s) \in [1..Len(s) -> Seq(NameChar)]
  BY <1>2 DEF Pieces
<1>4. \A i \in 1..Len(s) : Pieces(s)[i] = Piece(s, i)
  BY DEF Pieces
<1> HIDE DEF Pieces
<1>5. Pieces(s) \in Seq(Seq(NameChar)) /\ Len(Pieces(s)) = Len(s)
  BY <1>1, <1>3
<1> QED BY <1>2, <1>4, <1>5

LEMMA WordEndIs ==
  ASSUME NEW s \in Seq(NameChar), NEW i \in 1..Len(s)
  PROVE  /\ WordEnd(s, i) \in i..Len(s)
         /\ \A n \in (i + 1)..WordEnd(s, i) : s[n] \in Lower
         /\ WordEnd(s, i) < Len(s) => s[WordEnd(s, i) + 1] \notin Lower
<1> DEFINE T == {j \in i..Len(s) : \A n \in (i + 1)..j : s[n] \in Lower}
<1>1. Len(s) \in Nat /\ i \in Nat
  OBVIOUS
<1>2. T \subseteq 1..Len(s) /\ i \in T
  BY <1>1
<1>3. PICK j \in T : \A k \in T : k <= j
  <2> HIDE DEF T
  <2>1. T # {}
    BY <1>2
  <2> QED BY <1>1, <1>2, <2>1, Greatest
<1>4. ASSUME j < Len(s), s[j + 1] \in Lower PROVE FALSE
  <2>1. j + 1 \in i..Len(s) /\ ~(j + 1 <= j)
    BY <1>1, <1>3, <1>4
  <2>2. \A n \in (i + 1)..(j + 1) : n = j + 1 \/ n \in (i + 1)..j
    BY <1>1, <1>3
  <2>3. j + 1 \in T
    BY <1>3, <1>4, <2>1, <2>2
  <2> QED BY <1>3, <2>1, <2>3
<1>5. \E k \in i..Len(s) :
        /\ \A n \in (i + 1)..k : s[n] \in Lower
        /\ k < Len(s) => s[k + 1] \notin Lower
  BY <1>3, <1>4
<1> QED BY <1>5 DEF WordEnd

LEMMA CamelIs ==
  ASSUME NEW s \in Seq(NameChar), NEW g, Back(Pieces(s), NameChar, g)
  PROVE  CamelCase(s) = g[0]
<1> DEFINE n == Len(s)
           Step(h, i) ==
             IF i > n THEN <<>>
             ELSE IF SkipsUnderscore(s, i) THEN h[i + 1]
             ELSE IF s[i] \in Digit \cup {"."} THEN <<s[i]>> \o h[i + 1]
             ELSE LET j == WordEnd(s, i)
                  IN  <<ToUpper(s[i])>> \o SubSeq(s, i + 1, j) \o h[j + 1]
           Satisfies(h) == h = [i \in 1..(n + 1) |-> Step(h, i)]
           Own(i) == IF SkipsUnderscore(s, i) THEN <<>> ELSE <<ToUpper(s[i])>>
           w == [i \in 1..(n + 1) |-> IF i > n THEN <<>> ELSE Own(i) \o g[i]]
<1>1. n \in Nat /\ (\A i \in 1..n : s[i] \in NameChar) /\ (s # <<>> <=> n # 0)
  OBVIOUS
<1>2. /\ g \in [0..n -> Seq(NameChar)] /\ g[n] = <<>>
      /\ \A k \in 1..n : g[k - 1] = Piece(s, k) \o g[k]
  BY PieceTypes DEF Back
<1>3. CamelCase(s) = IF s # <<>> /\ s[1] = "_" THEN <<"X">> \o (CHOOSE h : Satisfies(h))[2]
                     ELSE (CHOOSE h : Satisfies(h))[1]
  BY DEF CamelCase
<1> HIDE DEF n
\* at a position that no word reaches w goes on as g does
<1>4. ASSUME NEW i \in 0..n, i = n \/ s[i + 1] \notin Lower \/ (i > 0 /\ s[i] \notin Letter),
             i = 0 => n > 0 /\ s[1] # "_"
      PROVE  w[i + 1] = g[i]
  <2>1. CASE i = n
    <3>1. i + 1 \in 1..(n + 1) /\ i + 1 > n
      BY <1>1, <2>1
    <3> HIDE DEF Own
    <3> QED BY <1>2, <2>1, <3>1
  <2>2. CASE i # n
    <3>1. i + 1 \in 1..n /\ i + 1 \in 1..(n + 1) /\ ~(i + 1 > n) /\ s[i + 1] \in NameChar
      BY <1>1, <2>2
    <3>2. (i + 1) - 1 = i
      OBVIOUS
    <3>3. g[i] = Piece(s, i + 1) \o g[i + 1]
      BY <1>2, <3>1, <3>2
    <3>4. i + 1 = 1 <=> i = 0
      BY <1>1
    <3>5. Piece(s, i + 1) = Own(i + 1)
      <4>1. CASE i = 0
        <5>1. s[1] # "_" /\ i + 1 = 1
          <6>1. s[1] # "_"
            BY <1>4, <4>1
          <6>2. i + 1 = 1
            BY <4>1
          <6> QED BY <6>1, <6>2
        <5> QED BY <5>1 DEF Piece, SkipsUnderscore, ToUpper
      <4>2. CASE i # 0
        <5>1. i + 1 # 1
          BY <1>1, <3>4, <4>2
        <5>2. s[i + 1] \notin Lower \/ s[i] \notin Letter
          BY <1>4, <2>2
        <5> QED BY <3>2, <5>1, <5>2, Chars DEF Piece, SkipsUnderscore, ToUpper
      <4> QED BY <4>1, <4>2
    <3> QED BY <3>1, <3>3, <3>5
  <2> QED BY <2>1, <2>2
<1>5. ASSUME NEW i \in 1..(n + 1) PROVE w[i] = Step(w, i)
  <2>1. CASE i > n
    BY <2>1
  <2>2. CASE i <= n
    <3>1. i \in 1..n /\ i \in 0..n /\ ~(i > n) /\ s[i] \in NameChar /\ i > 0 /\ i # 0
      BY <1>1, <2>2
    <3>2. w[i] = Own(i) \o g[i]
      BY <3>1
    <3>3. g[i] \in Seq(NameChar)
      BY <1>2, <3>1
    <3>4. CASE SkipsUnderscore(s, i)
      <4>1. s[i] \notin Letter
        BY <3>4, Chars DEF SkipsUnderscore
      <4>2. w[i + 1] = g[i]
        BY <1>4, <3>1, <4>1
      <4>3. w[i] = <<>> \o g[i]
        BY <3>2, <3>4
      <4>4. <<>> \o g[i] = g[i]
        BY ONLY <3>3, ConcatEmptySeq
      <4>5. Step(w, i) = w[i + 1]
        BY <3>1, <3>4
      <4> QED BY <4>2, <4>3, <4>4, <4>5
    <3>5. CASE ~SkipsUnderscore(s, i) /\ s[i] \in Digit \cup {"."}
      <4>1. s[i] \notin Letter /\ s[i] \notin Lower
        BY <3>5, Chars
      <4>2. w[i + 1] = g[i]
        BY <1>4, <3>1, <4>1
      <4>3. w[i] = <<s[i]>> \o g[i]
        BY <3>2, <3>5, <4>1 DEF ToUpper
      <4>4. Step(w, i) = <<s[i]>> \o w[i + 1]
        BY <3>1, <3>5
      <4> QED BY <4>2, <4>3, <4>4
    <3>6. CASE ~SkipsUnderscore(s, i) /\ s[i] \notin Digit \cup {"."}
      <4> DEFINE j == WordEnd(s, i)
      <4>1. /\ j \in i..n /\ (\A m \in (i + 1)..j : s[m] \in Lower)
            /\ (j < n => s[j + 1] \notin Lower)
        BY <3>1, WordEndIs DEF n
      <4> HIDE DEF j
      <4>2. j \in 0..n /\ j # 0 /\ j \in Nat /\ i \in Nat
        BY <1>1, <3>1, <4>1
      <4>3. w[j + 1] = g[j]
        <5>1. j = n \/ s[j + 1] \notin Lower
          BY <1>1, <4>1, <4>2
        <5> HIDE DEF w
        <5> QED BY <1>4, <4>2, <5>1
      \* the word is what g gathers of it
      <4> DEFINE T == {k \in 0..(j - i) : SubSeq(s, j - k + 1, j) \o g[j] # g[j - k]}
      <4>4. ASSUME T # {} PROVE FALSE
        <5>1. PICK k \in T : k \in 0..(j - i) /\ \A m \in 0..(j - i) : m < k => m \notin T
          <6>1. T \subseteq 0..(j - i) /\ j - i \in Nat
            BY <4>1, <4>2
          <6> HIDE DEF T
          <6> QED BY <4>4, <6>1, LeastIn
        <5>2. g[j] \in Seq(NameChar)
          BY <1>2, <4>2
        <5>3. k # 0
          <6>1. ASSUME k = 0 PROVE FALSE
            <7>1. SubSeq(s, j + 1, j) = <<>>
              BY <4>2, SubSeqEmpty
            <7>2. <<>> \o g[j] = g[j]
              BY ONLY <5>2, ConcatEmptySeq
            <7>3. j - k + 1 = j + 1 /\ j - k = j
              BY <4>2, <6>1
            <7> QED BY <5>1, <7>1, <7>2, <7>3
          <6> QED BY <6>1
        <5> DEFINE q == j - k + 1
        <5>4. /\ k - 1 \in 0..(j - i) /\ k - 1 < k /\ q \in 1..n /\ q \in (i + 1)..j /\ q # 1
              /\ j - (k - 1) + 1 = q + 1 /\ j - (k - 1) = q /\ j - k = q - 1 /\ q - 1 \in i..j
          BY <1>1, <3>1, <4>1, <4>2, <5>1, <5>3
        <5>5. j - k + 1 = q
          OBVIOUS
        <5>6. k - 1 \notin T
          <6> HIDE DEF T, q
          <6> QED BY <5>1, <5>4
        <5>7. SubSeq(s, q + 1, j) \o g[j] = g[q]
          <6> HIDE DEF q
          <6> QED BY <5>4, <5>6
        <5> HIDE DEF q
        <5>8. s[q] \in Lower /\ s[q - 1] \in Letter
          <6>1. s[q] \in Lower
            BY <4>1, <5>4
          <6>2. CASE q - 1 = i
            <7>1. i + 1 = q /\ i < n
              <8> HIDE DEF T
              <8> QED BY <1>1, <3>1, <4>2, <5>4, <6>2
            <7>2. s[i] # "_"
              BY <3>6, <6>1, <7>1 DEF SkipsUnderscore, n
            <7>3. s[i] \in Letter
              BY <3>1, <3>6, <7>2, Chars
            <7> QED BY <6>1, <6>2, <7>3
          <6>3. CASE q - 1 # i
            <7>1. q - 1 \in (i + 1)..j
              BY <3>1, <4>2, <5>4, <6>3
            <7> QED BY <4>1, <6>1, <7>1, Chars
          <6> QED BY <6>2, <6>3
        <5>9. Piece(s, q) = <<s[q]>>
          BY <5>4, <5>8, Chars DEF Piece
        <5>10. g[q - 1] = <<s[q]>> \o g[q]
          BY <1>2, <5>4, <5>9
        <5>11. SubSeq(s, q, j) = <<s[q]>> \o SubSeq(s, q + 1, j)
          <6>1. q \in 1..Len(s) /\ j \in q..Len(s)
            BY <1>1, <4>1, <4>2, <5>4 DEF n
          <6> QED BY <6>1, SubSeqRecursiveFirst
        <5>12. SubSeq(s, q + 1, j) \in Seq(NameChar) /\ <<s[q]>> \in Seq(NameChar)
          <6>1. \A m \in (q + 1)..j : s[m] \in NameChar
            BY <1>1, <4>1, <4>2, <5>4
          <6>2. q + 1 \in Int /\ j \in Int
            BY <4>2, <5>4
          <6>3. SubSeq(s, q + 1, j) \in Seq(NameChar)
            BY <6>1, <6>2, SubSeqProperties
          <6>4. s[q] \in NameChar
            BY <1>1, <5>4
          <6> QED BY <6>3, <6>4
        <5>13. SubSeq(s, q, j) \o g[j] = g[q - 1]
          <6> DEFINE a == <<s[q]>>  b == SubSeq(s, q + 1, j)  c == g[j]
          <6>1. a \in Seq(NameChar) /\ b \in Seq(NameChar) /\ c \in Seq(NameChar)
            BY <5>2, <5>12
          <6>2. SubSeq(s, q, j) = a \o b /\ g[q - 1] = a \o g[q] /\ b \o c = g[q]
            BY <5>7, <5>10, <5>11
          <6> HIDE DEF a, b, c
          <6>3. (a \o b) \o c = a \o (b \o c)
            BY ONLY SMTT(30), <6>1, ConcatAssociative
          <6>4. SubSeq(s, q, j) \o c = g[q - 1]
            BY <6>2, <6>3
          <6> QED BY <6>4 DEF c
        <5> QED BY <5>1, <5>4, <5>5, <5>13
      <4>5. SubSeq(s, i + 1, j) \o g[j] = g[i]
        <5>1. j - i \in 0..(j - i)
          BY <4>1, <4>2
        <5>2. j - i \notin T
          <6> HIDE DEF T
          <6> QED BY <4>4
        <5>3. j - (j - i) = i
          BY <4>2
        <5> QED BY <5>1, <5>2, <5>3
      <4>6. w[i] = <<ToUpper(s[i])>> \o g[i]
        BY <3>2, <3>6
      <4>7. Step(w, i) = <<ToUpper(s[i])>> \o SubSeq(s, i + 1, j) \o w[j + 1]
        BY <3>1, <3>6 DEF j
      <4>8. (<<ToUpper(s[i])>> \o SubSeq(s, i + 1, j)) \o g[j]
              = <<ToUpper(s[i])>> \o (SubSeq(s, i + 1, j) \o g[j])
        <5> DEFINE a == <<ToUpper(s[i])>>  b == SubSeq(s, i + 1, j)  c == g[j]
        <5>1. a \in Seq(NameChar)
          <6>1. ToUpper(s[i]) \in NameChar
            BY <3>1, Chars DEF ToUpper
          <6> QED BY <6>1
        <5>2. b \in Seq(NameChar)
          <6>1. \A m \in (i + 1)..j : s[m] \in NameChar
            BY <1>1, <4>1, <4>2, <3>1
          <6>2. i + 1 \in Int /\ j \in Int
            BY <4>2
          <6> QED BY <6>1, <6>2, SubSeqProperties
        <5>3. c \in Seq(NameChar)
          BY <1>2, <4>2
        <5> HIDE DEF a, b, c
        <5>4. (a \o b) \o c = a \o (b \o c)
          BY ONLY <5>1, <5>2, <5>3, ConcatAssociative
        <5> QED BY <5>4 DEF a, b, c
      <4> QED BY <4>3, <4>5, <4>6, <4>7, <4>8
    <3> QED BY <3>4, <3>5, <3>6
  <2> QED BY <1>1, <2>1, <2>2
<1>6. Satisfies(w)
  <2> HIDE DEF Step
  <2> QED BY <1>5
<1> DEFINE F == CHOOSE h : Satisfies(h)
<1>7. Satisfies(F)
  <2> HIDE DEF w, Satisfies
  <2> QED BY <1>6
\* what satisfies the definition of the loop is w
<1>8. F = w
  <2> HIDE DEF F, w
  <2>1. \A i \in 1..(n + 1) : F[i] = Step(F, i)
    <3> HIDE DEF Step
    <3> QED BY <1>7
  <2> DEFINE T == {i \in 1..(n + 1) : F[i] # w[i]}
  <2>2. ASSUME T # {} PROVE FALSE
    <3>1. PICK i \in T : \A k \in T : k <= i
      <4>1. T \subseteq 1..(n + 1) /\ n + 1 \in Nat
        BY <1>1
      <4> HIDE DEF T
      <4> QED BY <2>2, <4>1, Greatest
    <3>2. i \in 1..(n + 1) /\ F[i] # w[i]
      OBVIOUS
    <3>3. \A k \in 1..(n + 1) : k > i => F[k] = w[k]
      BY <1>1, <3>1, <3>2
    <3>4. F[i] = Step(F, i) /\ w[i] = Step(w, i)
      <4> HIDE DEF Step
      <4> QED BY <1>5, <2>1, <3>2
    <3>5. CASE i > n
      BY <3>2, <3>4, <3>5
    <3>6. CASE i <= n
      <4>1. i + 1 \in 1..(n + 1) /\ i + 1 > i /\ i \in 1..n
        BY <1>1, <3>2, <3>6
      <4>2. WordEnd(s, i) + 1 \in 1..(n + 1) /\ WordEnd(s, i) + 1 > i
        <5>1. WordEnd(s, i) \in i..n
          BY <4>1, WordEndIs DEF n
        <5> QED BY <1>1, <4>1, <5>1
      <4>3. F[i + 1] = w[i + 1] /\ F[WordEnd(s, i) + 1] = w[WordEnd(s, i) + 1]
        BY <3>3, <4>1, <4>2
      <4> QED BY <3>2, <3>4, <4>3
    <3> QED BY <1>1, <3>2, <3>5, <3>6
  <2>3. \A i \in 1..(n + 1) : F[i] = w[i]
    <3> HIDE DEF Step, Satisfies
    <3> QED BY <2>2
  <2>4. F = [i \in 1..(n + 1) |-> Step(F, i)] /\ w = [i \in 1..(n + 1) |-> Step(w, i)]
    <3> HIDE DEF Step
    <3> QED BY <1>6, <1>7
  <2> HIDE DEF Step
  <2>5. F = [i \in 1..(n + 1) |-> F[i]] /\ w = [i \in 1..(n + 1) |-> w[i]]
    BY <2>4
  <2> QED BY <2>3, <2>5
<1>9. CamelCase(s) = IF n # 0 /\ s[1] = "_" THEN <<"X">> \o w[2] ELSE w[1]
  <2> HIDE DEF Satisfies, w
  <2>1. w = CHOOSE h : Satisfies(h)
    BY <1>8
  <2> QED BY <1>1, <1>3, <2>1
<1> HIDE DEF w, F
<1>10. CASE n = 0
  <2>1. 0 \in 0..n /\ 0 = n
    BY <1>10
  <2>2. w[1] = <<>>
    BY <2>1 DEF w
  <2> QED BY <1>2, <1>9, <1>10, <2>2
<1>11. CASE n # 0 /\ s[1] = "_"
  <2>1. 1 \in 0..n /\ 1 \in 1..n
    <3>1. n \in Nat /\ n # 0
      BY <1>1, <1>11
    <3> QED BY ONLY <3>1
  <2>2. w[2] = g[1]
    <3>1. s[1] \notin Letter
      BY <1>11, Chars
    <3>2. w[1 + 1] = g[1]
      <4>1. 1 > 0 /\ 1 # 0
        OBVIOUS
      <4> QED BY <1>4, <2>1, <3>1, <4>1, Zenon
    <3> QED BY <3>2
  <2>3. Piece(s, 1) = <<"X">>
    BY <1>11 DEF Piece
  <2>4. g[1 - 1] = <<"X">> \o g[1]
    BY <1>2, <2>1, <2>3
  <2>5. g[0] = <<"X">> \o g[1]
    BY <2>4
  <2> QED BY <1>9, <1>11, <2>2, <2>5
<1>12. CASE n # 0 /\ s[1] # "_"
  <2>1. 0 \in 0..n /\ 1 \in 1..n /\ 1 \in 1..(n + 1) /\ ~(1 > n)
    <3>1. n \in Nat /\ n # 0
      BY <1>1, <1>12
    <3> QED BY ONLY <3>1
  <2>2. w[1] = Own(1) \o g[1]
    BY <2>1 DEF w
  <2>3. Piece(s, 1) = Own(1)
    BY <1>12 DEF Piece, SkipsUnderscore, ToUpper
  <2>4. g[1 - 1] = Piece(s, 1) \o g[1]
    BY <1>2, <2>1
  <2>5. g[0] = Piece(s, 1) \o g[1]
    BY <2>4
  <2>6. CamelCase(s) = w[1]
    BY <1>9, <1>12
  <2> HIDE DEF Own
  <2> QED BY <2>2, <2>3, <2>5, <2>6
<1> QED BY <1>10, <1>11, <1>12

\* CamelCase is what the pieces come to, from the left.
LEMMA CamelForth ==
  ASSUME NEW s \in Seq(NameChar)
  PROVE  /\ CamelCase(s) = FlattenSeq(Pieces(s))
         /\ \E f : /\ f \in [0..Len(s) -> Seq(NameChar)] /\ f[0] = <<>>
                   /\ \A k \in 1..Len(s) : f[k] = f[k - 1] \o Piece(s, k)
                   /\ CamelCase(s) = f[Len(s)]
<1> DEFINE p == Pieces(s)
<1>1. p \in Seq(Seq(NameChar)) /\ Len(p) = Len(s) /\ \A i \in 1..Len(s) : p[i] = Piece(s, i)
  BY PieceTypes
<1>2. (\E f : Forth(p, NameChar, f)) /\ (\E g : Back(p, NameChar, g))
  <2> HIDE DEF p
  <2> QED BY <1>1, ForthExists, BackExists
<1>3. PICK f : Forth(p, NameChar, f)
  BY <1>2
<1>4. PICK g : Back(p, NameChar, g)
  BY <1>2
<1>5. CamelCase(s) = g[0]
  BY <1>4, CamelIs
<1> HIDE DEF p
<1>6. f[Len(s)] = g[0] /\ FlattenSeq(p) = f[Len(s)]
  BY <1>1, <1>3, <1>4, ForthIsBack, FlattenIs
<1>7. /\ f \in [0..Len(s) -> Seq(NameChar)] /\ f[0] = <<>>
      /\ \A k \in 1..Len(s) : f[k] = f[k - 1] \o Piece(s, k)
  BY <1>1, <1>3 DEF Forth
<1> QED BY <1>5, <1>6, <1>7 DEF p

-----------------------------------------------------------------------------
(* What CamelCase makes of an identifier it leaves as it is.               *)

\* A name that CamelCase leaves as it is.
Settled(t) ==
  /\ t # <<>> => t[1] # "_" /\ t[1] \notin Lower
  /\ \A i \in 2..Len(t) : t[i] \in Lower => t[i - 1] \in Letter

LEMMA SettledStays ==
  ASSUME NEW t \in Seq(NameChar), Settled(t)
  PROVE  CamelCase(t) = t
<1> DEFINE n == Len(t)
<1>1. n \in Nat /\ \A i \in 1..n : t[i] \in NameChar
  OBVIOUS
<1>2. ASSUME NEW i \in 1..n PROVE Piece(t, i) = <<t[i]>>
  <2>1. CASE i = 1
    <3>1. t # <<>>
      BY <1>1
    <3>2. t[1] # "_" /\ t[1] \notin Lower
      BY <3>1 DEF Settled
    <3> QED BY <2>1, <3>2 DEF Piece
  <2>2. CASE i # 1
    <3>1. i \in 2..n
      BY <1>1, <2>2
    <3>2. t[i] \in Lower => t[i - 1] \in Letter
      BY <3>1 DEF Settled
    <3>3. ASSUME t[i] = "_", i < n, t[i + 1] \in Lower PROVE FALSE
      <4>1. i + 1 \in 2..n /\ (i + 1) - 1 = i
        <5>1. i < n
          BY <3>3
        <5> HIDE DEF n
        <5> QED BY <1>1, <3>1, <5>1
      <4>2. t[i + 1] \in Lower => t[(i + 1) - 1] \in Letter
        BY <4>1 DEF Settled
      <4> QED BY <3>3, <4>1, <4>2, Chars
    <3>4. ~(i = 1 /\ t[i] = "_") /\ ~(t[i] = "_" /\ i < Len(t) /\ t[i + 1] \in Lower)
      BY <2>2, <3>3
    <3>5. ~(t[i] \in Lower /\ (i = 1 \/ t[i - 1] \notin Letter))
      BY <2>2, <3>2
    <3> QED BY <3>4, <3>5, Zenon DEF Piece
  <2> QED BY <2>1, <2>2
<1>3. PICK f : /\ f \in [0..n -> Seq(NameChar)] /\ f[0] = <<>>
               /\ \A k \in 1..n : f[k] = f[k - 1] \o Piece(t, k)
               /\ CamelCase(t) = f[n]
  BY CamelForth
<1> DEFINE T == {k \in 0..n : ~(Len(f[k]) = k /\ \A i \in 1..k : f[k][i] = t[i])}
<1> HIDE DEF n
<1>4. ASSUME T # {} PROVE FALSE
  <2>1. PICK k \in T : k \in 0..n /\ \A j \in 0..n : j < k => j \notin T
    <3>1. T \subseteq 0..n
      OBVIOUS
    <3> HIDE DEF T
    <3> QED BY <1>1, <1>4, <3>1, LeastIn
  <2>2. k # 0
    BY <1>3, <2>1
  <2>3. k \in 1..n /\ k - 1 \in 0..n /\ k - 1 < k
    BY <1>1, <2>1, <2>2
  <2>4. k - 1 \notin T
    <3> HIDE DEF T
    <3> QED BY <2>1, <2>3
  <2> DEFINE a == f[k - 1]  b == <<t[k]>>
  <2>5. a \in Seq(NameChar) /\ b \in Seq(NameChar) /\ Len(b) = 1 /\ b[1] = t[k]
    BY <1>1, <1>3, <2>3
  <2>6. Len(a) = k - 1 /\ \A i \in 1..(k - 1) : a[i] = t[i]
    BY <2>3, <2>4
  <2>7. f[k] = a \o b
    BY <1>2, <1>3, <2>3 DEF n
  <2> HIDE DEF a, b
  <2>8. /\ Len(a \o b) = Len(a) + Len(b)
        /\ \A i \in 1..(Len(a) + Len(b)) : (a \o b)[i] = IF i <= Len(a) THEN a[i] ELSE b[i - Len(a)]
    BY ONLY <2>5, ConcatProperties
  <2>9. Len(f[k]) = k
    BY <2>3, <2>5, <2>6, <2>7, <2>8
  <2>10. ASSUME NEW i \in 1..k PROVE f[k][i] = t[i]
    <3>1. f[k][i] = IF i <= k - 1 THEN a[i] ELSE b[i - (k - 1)]
      <4>1. i \in 1..(Len(a) + Len(b))
        BY <2>3, <2>5, <2>6
      <4> QED BY <2>6, <2>7, <2>8, <4>1
    <3>2. CASE i <= k - 1
      BY <2>3, <2>6, <3>1, <3>2
    <3>3. CASE ~(i <= k - 1)
      <4>1. i = k /\ i - (k - 1) = 1
        BY <2>3, <3>3
      <4> QED BY <2>5, <3>1, <3>3, <4>1
    <3> QED BY <3>2, <3>3
  <2> QED BY <2>1, <2>9, <2>10
<1>5. Len(f[n]) = n /\ \A i \in 1..n : f[n][i] = t[i]
  <2>1. n \in 0..n /\ n \notin T
    <3> HIDE DEF T
    <3> QED BY <1>1, <1>4
  <2> QED BY <2>1
<1>6. f[n] \in Seq(NameChar)
  BY <1>1, <1>3
<1>7. f[n] = t
  <2> DEFINE u == f[n]
  <2>1. u \in Seq(NameChar) /\ t \in Seq(NameChar) /\ Len(u) = Len(t)
        /\ \A i \in 1..Len(u) : u[i] = t[i]
    BY <1>5, <1>6 DEF n
  <2> HIDE DEF u
  <2>2. u = t
    BY ONLY <2>1, SeqEqual
  <2> QED BY <2>2 DEF u
<1> QED BY <1>3, <1>7

\* The last character of a name, and the name made longer by one.
LEMMA Longer ==
  ASSUME NEW S, NEW a \in Seq(S), NEW c \in S
  PROVE  /\ a \o <<c>> \in Seq(S) /\ Len(a \o <<c>>) = Len(a) + 1
         /\ (a \o <<c>>)[Len(a) + 1] = c
         /\ \A i \in 1..Len(a) : (a \o <<c>>)[i] = a[i]
<1> DEFINE b == <<c>>
<1>1. b \in Seq(S) /\ Len(b) = 1 /\ b[1] = c /\ Len(a) \in Nat
  OBVIOUS
<1> HIDE DEF b
<1>2. /\ a \o b \in Seq(S) /\ Len(a \o b) = Len(a) + Len(b)
      /\ \A i \in 1..(Len(a) + Len(b)) : (a \o b)[i] = IF i <= Len(a) THEN a[i] ELSE b[i - Len(a)]
  BY ONLY <1>1, a \in Seq(S), ConcatProperties
<1>3. (a \o b)[Len(a) + 1] = c
  <2>1. Len(a) + 1 \in 1..(Len(a) + Len(b)) /\ ~(Len(a) + 1 <= Len(a)) /\ Len(a) + 1 - Len(a) = 1
    BY <1>1
  <2> QED BY <1>1, <1>2, <2>1
<1>4. \A i \in 1..Len(a) : (a \o b)[i] = a[i]
  BY <1>1, <1>2
<1> QED BY <1>1, <1>2, <1>3, <1>4 DEF b

LEMMA IdentifierChars ==
  /\ IdentifierChar \subseteq NameChar /\ "." \notin IdentifierChar
  /\ Letter \subseteq IdentifierChar
<1>1. "." \notin Letter /\ "." \notin Digit /\ "." # "_"
  BY Chars
<1> QED BY <1>1 DEF IdentifierChar, NameChar

\* Of a name, with dots or without, CamelCase makes one that it leaves as it is.
LEMMA CamelSettles ==
  ASSUME NEW Chr, Chr = IdentifierChar \/ Chr = NameChar, NEW s \in Seq(Chr)
  PROVE  /\ CamelCase(s) \in Seq(Chr) /\ (s # <<>> => CamelCase(s) # <<>>)
         /\ Settled(CamelCase(s))
<1> DEFINE n == Len(s)
<1>1. /\ n \in Nat /\ s \in Seq(NameChar)
      /\ \A i \in 1..n : s[i] \in Chr
      /\ Letter \subseteq Chr
  <2>1. Chr \subseteq NameChar /\ Letter \subseteq Chr
    BY IdentifierChars
  <2>2. s \in Seq(NameChar)
    BY ONLY <2>1, s \in Seq(Chr), SeqMonotonic
  <2> QED BY <2>1, <2>2
<1>2. PICK f : /\ f \in [0..n -> Seq(NameChar)] /\ f[0] = <<>>
               /\ \A k \in 1..n : f[k] = f[k - 1] \o Piece(s, k)
               /\ CamelCase(s) = f[n]
  BY <1>1, CamelForth
<1> HIDE DEF n
<1> DEFINE Good(k) == /\ f[k] \in Seq(Chr) /\ Settled(f[k])
                      /\ k > 0 => f[k] # <<>>
                      /\ k > 0 => (s[k] \in Letter => f[k][Len(f[k])] \in Letter)
           T == {k \in 0..n : ~Good(k)}
<1>3. ASSUME T # {} PROVE FALSE
  <2>1. PICK k \in T : k \in 0..n /\ \A j \in 0..n : j < k => j \notin T
    <3>1. T \subseteq 0..n
      OBVIOUS
    <3> HIDE DEF T
    <3> QED BY <1>1, <1>3, <3>1, LeastIn
  <2>2. k # 0
    <3>1. Good(0)
      <4>1. <<>> \in Seq(Chr) /\ Len(<<>>) = 0 /\ 2..0 = {} /\ ~(0 > 0)
        OBVIOUS
      <4> QED BY <1>2, <4>1 DEF Settled
    <3> QED BY <2>1, <3>1
  <2>3. k \in 1..n /\ k - 1 \in 0..n /\ k - 1 < k /\ k > 0 /\ (k = 1 \/ k > 1)
    BY <1>1, <2>1, <2>2
  <2>4. Good(k - 1)
    <3>1. k - 1 \notin T
      <4> HIDE DEF T
      <4> QED BY <2>1, <2>3
    <3> HIDE DEF Good
    <3> QED BY <2>3, <3>1
  <2> DEFINE a == f[k - 1]
  <2>5. /\ a \in Seq(Chr) /\ Settled(a) /\ Len(a) \in Nat
        /\ (k > 1 => Len(a) # 0) /\ (k = 1 => a = <<>>)
        /\ (k > 1 => (s[k - 1] \in Letter => a[Len(a)] \in Letter))
    <3>1. a \in Seq(Chr) /\ Settled(a)
      BY <2>4
    <3>2. Len(a) \in Nat /\ (a # <<>> => Len(a) # 0)
      BY <3>1
    <3>3. k > 1 => k - 1 > 0
      BY <2>3
    <3>4. k > 1 => a # <<>> /\ (s[k - 1] \in Letter => a[Len(a)] \in Letter)
      BY <2>4, <3>3
    <3>5. k = 1 => k - 1 = 0
      OBVIOUS
    <3>6. k = 1 => a = <<>>
      BY <1>2, <3>5
    <3> QED BY <3>1, <3>2, <3>4, <3>6
  <2>6. f[k] = a \o Piece(s, k)
    BY <1>2, <2>3
  <2> HIDE DEF a
  <2>7. CASE Piece(s, k) = <<>>
    <3>1. f[k] = a
      <4>1. a \o <<>> = a
        BY ONLY <2>5, ConcatEmptySeq
      <4> QED BY <2>6, <2>7, <4>1
    <3>2. s[k] = "_" /\ k # 1
      <4>1. <<"X">> # <<>> /\ <<s[k]>> # <<>> /\ <<UpperOf[s[k]]>> # <<>>
        OBVIOUS
      <4> QED BY <2>7, <4>1 DEF Piece
    <3>3. k > 1
      BY <2>3, <3>2
    <3>4. a # <<>>
      BY <2>5, <3>3
    <3>5. s[k] \notin Letter
      BY <3>2, Chars
    <3>6. Good(k)
      BY <2>5, <3>1, <3>4, <3>5
    <3> QED BY <2>1, <3>6
  <2>8. ASSUME NEW c \in Chr, Piece(s, k) = <<c>>,
               k = 1 => c # "_" /\ c \notin Lower,
               c \in Lower => (k > 1 /\ s[k - 1] \in Letter),
               s[k] \in Letter => c \in Letter
        PROVE  FALSE
    <3>1. /\ f[k] \in Seq(Chr) /\ Len(f[k]) = Len(a) + 1 /\ f[k][Len(a) + 1] = c
          /\ \A i \in 1..Len(a) : f[k][i] = a[i]
      <4>1. a \in Seq(Chr) /\ c \in Chr
        BY <2>5
      <4>2. /\ a \o <<c>> \in Seq(Chr) /\ Len(a \o <<c>>) = Len(a) + 1
            /\ (a \o <<c>>)[Len(a) + 1] = c
            /\ \A i \in 1..Len(a) : (a \o <<c>>)[i] = a[i]
        BY ONLY <4>1, Longer
      <4> QED BY <2>6, <2>8, <4>2
    <3>2. f[k] # <<>>
      BY <2>5, <3>1
    <3>3. f[k][1] # "_" /\ f[k][1] \notin Lower
      <4>1. CASE k = 1
        <5>1. Len(a) = 0 /\ Len(a) + 1 = 1
          BY <2>5, <4>1
        <5>2. f[k][1] = c
          BY <3>1, <5>1
        <5> QED BY <2>8, <4>1, <5>2
      <4>2. CASE k # 1
        <5>1. k > 1
          BY <2>3, <4>2
        <5>2. Len(a) # 0 /\ 1 \in 1..Len(a) /\ a # <<>>
          BY <2>5, <5>1
        <5>3. a[1] # "_" /\ a[1] \notin Lower
          BY <2>5, <5>2 DEF Settled
        <5> QED BY <3>1, <5>2, <5>3
      <4> QED BY <4>1, <4>2
    <3>4. ASSUME NEW i \in 2..Len(f[k]), f[k][i] \in Lower PROVE f[k][i - 1] \in Letter
      <4>1. CASE i <= Len(a)
        <5>1. i \in 1..Len(a) /\ i - 1 \in 1..Len(a) /\ i \in 2..Len(a)
          BY <2>5, <3>4, <4>1
        <5>2. a[i] \in Lower => a[i - 1] \in Letter
          BY <2>5, <5>1 DEF Settled
        <5> QED BY <3>1, <3>4, <5>1, <5>2
      <4>2. CASE ~(i <= Len(a))
        <5>1. i = Len(a) + 1 /\ i - 1 = Len(a) /\ Len(a) \in 1..Len(a)
          BY <2>5, <3>1, <3>4, <4>2
        <5>2. c \in Lower
          BY <3>1, <3>4, <5>1
        <5>3. a[Len(a)] \in Letter
          BY <2>5, <2>8, <5>2
        <5> QED BY <3>1, <5>1, <5>3
      <4> QED BY <4>1, <4>2
    <3>5. Settled(f[k])
      BY <3>3, <3>4 DEF Settled
    <3>6. s[k] \in Letter => f[k][Len(f[k])] \in Letter
      BY <2>8, <3>1
    <3>7. Good(k)
      BY <3>1, <3>2, <3>5, <3>6
    <3> QED BY <2>1, <3>7
  <2>9. CASE Piece(s, k) # <<>>
    <3>1. CASE k = 1 /\ s[k] = "_"
      <4>1. Piece(s, k) = <<"X">>
        BY <3>1 DEF Piece
      <4>2. "X" \in Chr /\ "X" \notin Lower /\ "X" # "_"
        BY <1>1, Chars
      <4>3. s[k] \notin Letter
        BY <3>1, Chars
      <4> QED BY <2>8, <4>1, <4>2, <4>3
    <3>2. CASE ~(k = 1 /\ s[k] = "_") /\ s[k] \in Lower /\ (k = 1 \/ s[k - 1] \notin Letter)
      <4>1. s[k] # "_"
        BY <3>2, Chars
      <4>2. Piece(s, k) = <<UpperOf[s[k]]>>
        BY <3>2, <4>1 DEF Piece
      <4>3. UpperOf[s[k]] \in Letter /\ UpperOf[s[k]] \notin Lower /\ UpperOf[s[k]] # "_"
        BY <3>2, Chars
      <4>4. UpperOf[s[k]] \in Chr
        BY <1>1, <4>3
      <4> QED BY <2>8, <4>2, <4>3, <4>4
    <3>3. CASE ~(k = 1 /\ s[k] = "_") /\ ~(s[k] \in Lower /\ (k = 1 \/ s[k - 1] \notin Letter))
      <4>1. Piece(s, k) = <<s[k]>>
        BY <2>9, <3>3 DEF Piece
      <4>2. s[k] \in Chr
        BY <1>1, <2>3
      <4>3. s[k] \in Lower => k > 1 /\ s[k - 1] \in Letter
        BY <2>3, <3>3
      <4>4. k = 1 => s[k] # "_" /\ s[k] \notin Lower
        BY <3>3
      <4> QED BY <2>8, <4>1, <4>2, <4>3, <4>4
    <3> QED BY <3>1, <3>2, <3>3
  <2> QED BY <2>7, <2>9
<1>4. Good(n)
  <2>1. n \in 0..n /\ n \notin T
    <3> HIDE DEF T
    <3> QED BY <1>1, <1>3
  <2> HIDE DEF Good
  <2> QED BY <2>1
<1>5. s # <<>> => n > 0
  BY <1>1 DEF n
<1> QED BY <1>2, <1>4, <1>5

\* Of an identifier it makes an identifier.
LEMMA CamelIdentifier ==
  ASSUME NEW s \in Identifier
  PROVE  CamelCase(s) \in Identifier /\ Settled(CamelCase(s))
<1>1. s \in Seq(IdentifierChar) /\ s # <<>>
  BY DEF Identifier
<1>2. /\ CamelCase(s) \in Seq(IdentifierChar) /\ CamelCase(s) # <<>>
      /\ Settled(CamelCase(s))
  BY <1>1, CamelSettles
<1> QED BY <1>2 DEF Identifier

LEMMA IdentifiersAreNames == \A a \in Identifier : a \in Seq(NameChar)
<1> TAKE a \in Identifier
<1>1. a \in Seq(IdentifierChar) /\ IdentifierChar \subseteq NameChar
  BY IdentifierChars DEF Identifier
<1> QED BY ONLY <1>1, SeqMonotonic

\* A name with its scope: where its characters are.
LEMMA DottedIs ==
  ASSUME NEW a \in Identifier, NEW b \in Identifier
  PROVE  /\ Dotted(a, b) \in Seq(NameChar)
         /\ Len(a) \in Nat \ {0} /\ Len(b) \in Nat \ {0}
         /\ Len(Dotted(a, b)) = Len(a) + 1 + Len(b)
         /\ \A i \in 1..Len(a) : Dotted(a, b)[i] = a[i] /\ a[i] \in IdentifierChar
         /\ Dotted(a, b)[Len(a) + 1] = "."
         /\ \A i \in 1..Len(b) : Dotted(a, b)[Len(a) + 1 + i] = b[i] /\ b[i] \in IdentifierChar
<1> DEFINE ad == a \o <<".">>
<1>1. /\ a \in Seq(NameChar) /\ b \in Seq(NameChar) /\ "." \in NameChar
      /\ a \in Seq(IdentifierChar) /\ b \in Seq(IdentifierChar) /\ a # <<>> /\ b # <<>>
  BY Chars, IdentifiersAreNames DEF Identifier
<1>2. /\ ad \in Seq(NameChar) /\ Len(ad) = Len(a) + 1 /\ ad[Len(a) + 1] = "."
      /\ \A i \in 1..Len(a) : ad[i] = a[i]
  BY ONLY <1>1, Longer
<1> HIDE DEF ad
<1>3. /\ ad \o b \in Seq(NameChar) /\ Len(ad \o b) = Len(ad) + Len(b)
      /\ \A i \in 1..(Len(ad) + Len(b)) : (ad \o b)[i] = IF i <= Len(ad) THEN ad[i] ELSE b[i - Len(ad)]
  BY ONLY <1>1, <1>2, ConcatProperties
<1>4. /\ Len(a) \in Nat \ {0} /\ Len(b) \in Nat \ {0}
      /\ \A i \in 1..Len(a) : a[i] \in IdentifierChar
      /\ \A i \in 1..Len(b) : b[i] \in IdentifierChar
  BY <1>1
<1>5. \A i \in 1..(Len(a) + 1) : (ad \o b)[i] = ad[i]
  BY <1>2, <1>3, <1>4
<1>6. ASSUME NEW i \in 1..Len(b) PROVE (ad \o b)[Len(a) + 1 + i] = b[i]
  <2>1. /\ Len(a) + 1 + i \in 1..(Len(ad) + Len(b)) /\ ~(Len(a) + 1 + i <= Len(ad))
        /\ Len(a) + 1 + i - Len(ad) = i
    BY <1>2, <1>4
  <2> QED BY <1>3, <2>1
<1>7. Dotted(a, b) = ad \o b
  BY DEF Dotted, ad
<1>8. (ad \o b)[Len(a) + 1] = "." /\ \A i \in 1..Len(a) : (ad \o b)[i] = a[i]
  BY <1>2, <1>4, <1>5
<1> QED BY <1>2, <1>3, <1>4, <1>6, <1>7, <1>8

LEMMA DottedSettles ==
  ASSUME NEW a \in Identifier, NEW b \in Identifier, Settled(a), Settled(b)
  PROVE  Settled(Dotted(a, b))
<1> DEFINE t == Dotted(a, b)
<1>1. /\ t \in Seq(NameChar) /\ Len(a) \in Nat \ {0} /\ Len(b) \in Nat \ {0}
      /\ Len(t) = Len(a) + 1 + Len(b) /\ t[Len(a) + 1] = "."
      /\ \A i \in 1..Len(a) : t[i] = a[i]
      /\ \A i \in 1..Len(b) : t[Len(a) + 1 + i] = b[i]
  BY DottedIs
<1> HIDE DEF t
<1>2. a # <<>> /\ b # <<>>
  BY DEF Identifier
<1>3. t[1] # "_" /\ t[1] \notin Lower
  <2>1. 1 \in 1..Len(a)
    BY <1>1
  <2>2. a[1] # "_" /\ a[1] \notin Lower
    BY <1>2 DEF Settled
  <2> QED BY <1>1, <2>1, <2>2
<1>4. ASSUME NEW i \in 2..Len(t), t[i] \in Lower PROVE t[i - 1] \in Letter
  <2>1. CASE i <= Len(a)
    <3>1. i \in 2..Len(a) /\ i \in 1..Len(a) /\ i - 1 \in 1..Len(a)
      BY <1>1, <2>1
    <3>2. a[i] \in Lower => a[i - 1] \in Letter
      BY <3>1 DEF Settled
    <3> QED BY <1>1, <1>4, <3>1, <3>2
  <2>2. CASE i = Len(a) + 1
    BY <1>1, <1>4, <2>2, Chars
  <2>3. CASE i > Len(a) + 1
    <3> DEFINE k == i - (Len(a) + 1)
    <3>1. k \in 1..Len(b) /\ Len(a) + 1 + k = i /\ k \in Nat
      BY <1>1, <2>3
    <3>2. k # 1 => k \in 2..Len(b) /\ k - 1 \in 1..Len(b) /\ Len(a) + 1 + (k - 1) = i - 1
      BY <1>1, <3>1
    <3> HIDE DEF k
    <3>3. b[k] \in Lower
      BY <1>1, <1>4, <3>1
    <3>4. CASE k = 1
      BY <1>2, <3>3, <3>4 DEF Settled
    <3>5. CASE k # 1
      <4>1. b[k - 1] \in Letter
        BY <3>2, <3>3, <3>5 DEF Settled
      <4>2. t[i - 1] = b[k - 1]
        <5>1. t[Len(a) + 1 + (k - 1)] = b[k - 1]
          BY <1>1, <3>2, <3>5
        <5> QED BY <3>2, <3>5, <5>1
      <4> QED BY <4>1, <4>2
    <3> QED BY <3>4, <3>5
  <2>4. i <= Len(a) \/ i = Len(a) + 1 \/ i > Len(a) + 1
    BY <1>1
  <2> QED BY <2>1, <2>2, <2>3, <2>4
<1>5. Settled(t)
  BY <1>3, <1>4 DEF Settled
<1> QED BY <1>5 DEF t

\* No identifier has a dot, so a name tells its scope.
LEMMA DottedApart ==
  ASSUME NEW a \in Identifier, NEW b \in Identifier, NEW c \in Identifier, NEW d \in Identifier,
         Dotted(a, b) = Dotted(c, d)
  PROVE  a = c
<1> DEFINE t == Dotted(a, b)
<1>1. /\ Len(a) \in Nat \ {0} /\ t[Len(a) + 1] = "."
      /\ \A i \in 1..Len(a) : t[i] = a[i] /\ a[i] \in IdentifierChar
  BY DottedIs
<1>2. /\ Len(c) \in Nat \ {0} /\ t[Len(c) + 1] = "."
      /\ \A i \in 1..Len(c) : t[i] = c[i] /\ c[i] \in IdentifierChar
  <2>1. t = Dotted(c, d)
    OBVIOUS
  <2>2. /\ Len(c) \in Nat \ {0} /\ Dotted(c, d)[Len(c) + 1] = "."
        /\ \A i \in 1..Len(c) : Dotted(c, d)[i] = c[i] /\ c[i] \in IdentifierChar
    BY DottedIs
  <2> HIDE DEF t
  <2> QED BY <2>1, <2>2
<1> HIDE DEF t
<1>3. Len(a) = Len(c)
  <2>1. ASSUME Len(a) < Len(c) PROVE FALSE
    <3>1. Len(a) + 1 \in 1..Len(c)
      BY <1>1, <1>2, <2>1
    <3> QED BY <1>1, <1>2, <3>1, IdentifierChars
  <2>2. ASSUME Len(c) < Len(a) PROVE FALSE
    <3>1. Len(c) + 1 \in 1..Len(a)
      BY <1>1, <1>2, <2>2
    <3> QED BY <1>1, <1>2, <3>1, IdentifierChars
  <2> QED BY <1>1, <1>2, <2>1, <2>2
<1>4. a \in Seq(IdentifierChar) /\ c \in Seq(IdentifierChar) /\ \A i \in 1..Len(a) : a[i] = c[i]
  BY <1>1, <1>2, <1>3 DEF Identifier
<1> QED BY ONLY <1>3, <1>4, SeqEqual

\* A name that keeps its first character, or its capital, behind a dot.
NoUnderscoreFirst(b) == b[1] # "_"

\* Of a name with its scope CamelCase makes what it makes of both.
LEMMA CamelDotted ==
  ASSUME NEW a \in Identifier, NEW b \in Identifier, NoUnderscoreFirst(b)
  PROVE  CamelCase(Dotted(a, b)) = Dotted(CamelCase(a), CamelCase(b))
<1> DEFINE t == Dotted(a, b)
           la == Len(a)
           lb == Len(b)
<1>1. /\ t \in Seq(NameChar) /\ la \in Nat \ {0} /\ lb \in Nat \ {0}
      /\ Len(t) = la + 1 + lb /\ t[la + 1] = "."
      /\ \A i \in 1..la : t[i] = a[i]
      /\ \A i \in 1..lb : t[la + 1 + i] = b[i]
  BY DottedIs
<1>2. a \in Seq(NameChar) /\ b \in Seq(NameChar)
  BY IdentifiersAreNames
<1>3. PICK f : /\ f \in [0..Len(t) -> Seq(NameChar)] /\ f[0] = <<>>
               /\ \A k \in 1..Len(t) : f[k] = f[k - 1] \o Piece(t, k)
               /\ CamelCase(t) = f[Len(t)]
  BY <1>1, CamelForth
<1>4. PICK fa : /\ fa \in [0..la -> Seq(NameChar)] /\ fa[0] = <<>>
                /\ \A k \in 1..la : fa[k] = fa[k - 1] \o Piece(a, k)
                /\ CamelCase(a) = fa[la]
  BY <1>2, CamelForth
<1>5. PICK fb : /\ fb \in [0..lb -> Seq(NameChar)] /\ fb[0] = <<>>
                /\ \A k \in 1..lb : fb[k] = fb[k - 1] \o Piece(b, k)
                /\ CamelCase(b) = fb[lb]
  BY <1>2, CamelForth
<1>6. la = Len(a) /\ lb = Len(b)
  OBVIOUS
<1> DEFINE lt == Len(t)
<1>0. la \in Nat /\ la > 0 /\ lb \in Nat /\ lb > 0 /\ lt = la + 1 + lb /\ lt = Len(t)
  BY <1>1
<1> HIDE DEF t, la, lb, lt
\* the pieces of the name are those of its parts
<1>7. ASSUME NEW k \in 1..la PROVE Piece(t, k) = Piece(a, k)
  <2>1. t[k] = a[k]
    BY <1>1
  <2>2. k # 1 => t[k - 1] = a[k - 1]
    <3>1. k # 1 => k - 1 \in 1..la
      BY <1>0
    <3> QED BY <1>1, <3>1
  <2>3. (k < Len(t) /\ t[k + 1] \in Lower) <=> (k < la /\ a[k + 1] \in Lower)
    <3>1. k < Len(t)
      BY <1>0
    <3>2. CASE k < la
      <4>1. k + 1 \in 1..la
        BY <1>0, <3>2
      <4>2. t[k + 1] = a[k + 1]
        BY <1>1, <4>1
      <4> QED BY <3>1, <3>2, <4>2
    <3>3. CASE ~(k < la)
      <4>1. k + 1 = la + 1
        BY <1>0, <3>3
      <4>2. t[k + 1] \notin Lower
        BY <1>1, <4>1, Chars
      <4> QED BY <3>3, <4>2
    <3> QED BY <3>2, <3>3
  <2> QED BY <1>6, <2>1, <2>2, <2>3, Zenon DEF Piece
<1>8. Piece(t, la + 1) = <<".">>
  <2>1. la + 1 # 1
    BY <1>0
  <2>2. t[la + 1] = "." /\ "." # "_" /\ "." \notin Lower
    BY <1>1, Chars
  <2> QED BY <2>1, <2>2 DEF Piece
<1>9. ASSUME NEW k \in 1..lb PROVE Piece(t, la + 1 + k) = Piece(b, k)
  <2> DEFINE i == la + 1 + k
  <2>0. i # 1
    BY <1>0
  <2>1. t[i] = b[k] /\ i # 1
    BY <1>1, <2>0
  <2>2. (i < Len(t) /\ t[i + 1] \in Lower) <=> (k < lb /\ b[k + 1] \in Lower)
    <3>1. i < Len(t) <=> k < lb
      BY <1>0
    <3>2. ASSUME k < lb PROVE t[i + 1] = b[k + 1]
      <4>1. k + 1 \in 1..lb /\ la + 1 + (k + 1) = i + 1
        BY <1>0, <3>2
      <4>2. t[la + 1 + (k + 1)] = b[k + 1]
        BY <1>1, <4>1
      <4> QED BY <4>1, <4>2
    <3> QED BY <3>1, <3>2
  <2>3. k # 1 => t[i - 1] = b[k - 1]
    <3>1. k # 1 => k - 1 \in 1..lb /\ la + 1 + (k - 1) = i - 1
      BY <1>0
    <3>2. k # 1 => t[la + 1 + (k - 1)] = b[k - 1]
      BY <1>1, <3>1
    <3> QED BY <3>1, <3>2
  <2>4. k = 1 => t[i - 1] \notin Letter /\ b[k] # "_"
    <3>1. k = 1 => i - 1 = la + 1
      BY <1>0
    <3>2. t[la + 1] \notin Letter
      BY <1>1, Chars
    <3> QED BY <3>1, <3>2 DEF NoUnderscoreFirst
  <2> HIDE DEF i
  <2>5. Piece(t, i) = Piece(b, k)
    BY <1>6, <2>1, <2>2, <2>3, <2>4, Zenon DEF Piece
  <2> QED BY <2>5 DEF i
\* so what they come to is
<1> DEFINE TA == {k \in 0..la : f[k] # fa[k]}
<1>10. ASSUME TA # {} PROVE FALSE
  <2>1. PICK k \in TA : k \in 0..la /\ \A j \in 0..la : j < k => j \notin TA
    <3>1. TA \subseteq 0..la /\ la \in Nat
      BY <1>0
    <3> HIDE DEF TA
    <3> QED BY <1>10, <3>1, LeastIn
  <2>2. k # 0
    BY <1>3, <1>4, <2>1
  <2>3. k \in 1..la /\ k \in 1..Len(t) /\ k - 1 \in 0..la /\ k - 1 < k
    BY <1>0, <2>1, <2>2
  <2>4. f[k - 1] = fa[k - 1]
    <3>1. k - 1 \notin TA
      <4> HIDE DEF TA
      <4> QED BY <2>1, <2>3
    <3> QED BY <2>3, <3>1
  <2>5. f[k] = fa[k]
    BY <1>3, <1>4, <1>7, <2>3, <2>4
  <2> QED BY <2>1, <2>5
<1>11. f[la] = CamelCase(a)
  <2>1. la \in 0..la /\ la \notin TA
    <3> HIDE DEF TA
    <3> QED BY <1>0, <1>10
  <2> QED BY <1>4, <2>1
<1> DEFINE ad == CamelCase(a) \o <<".">>
<1>12. f[la + 1] = ad
  <2>1. la + 1 \in 1..Len(t) /\ (la + 1) - 1 = la
    BY <1>0
  <2>2. f[la + 1] = f[(la + 1) - 1] \o Piece(t, la + 1)
    BY <1>3, <2>1
  <2> QED BY <1>8, <1>11, <2>1, <2>2
<1>13. ad \in Seq(NameChar)
  <2>1. la + 1 \in 0..Len(t)
    BY <1>0
  <2> QED BY <1>3, <1>12, <2>1
<1> HIDE DEF ad, TA
<1> DEFINE TB == {k \in 0..lb : f[la + 1 + k] # ad \o fb[k]}
<1>14. ASSUME TB # {} PROVE FALSE
  <2>1. PICK k \in TB : k \in 0..lb /\ \A j \in 0..lb : j < k => j \notin TB
    <3>1. TB \subseteq 0..lb /\ lb \in Nat
      BY <1>0
    <3> HIDE DEF TB
    <3> QED BY <1>14, <3>1, LeastIn
  <2>2. k # 0
    <3>1. ad \o <<>> = ad
      BY ONLY <1>13, ConcatEmptySeq
    <3>2. la + 1 + 0 = la + 1
      BY <1>0
    <3> QED BY <1>5, <1>12, <2>1, <3>1, <3>2
  <2>3. /\ k \in 1..lb /\ k - 1 \in 0..lb /\ k - 1 < k /\ k \in 0..lb
        /\ la + 1 + k \in 1..Len(t) /\ (la + 1 + k) - 1 = la + 1 + (k - 1)
    BY <1>0, <2>1, <2>2
  <2>4. f[la + 1 + (k - 1)] = ad \o fb[k - 1]
    <3>1. k - 1 \notin TB
      <4> HIDE DEF TB
      <4> QED BY <2>1, <2>3
    <3> QED BY <2>3, <3>1
  <2>5. f[la + 1 + k] = (ad \o fb[k - 1]) \o Piece(b, k)
    <3>1. f[la + 1 + k] = f[(la + 1 + k) - 1] \o Piece(t, la + 1 + k)
      BY <1>3, <2>3
    <3> QED BY <1>9, <2>3, <2>4, <3>1
  <2>6. f[la + 1 + k] = ad \o fb[k]
    <3> DEFINE u == fb[k - 1]  v == Piece(b, k)
    <3>1. u \in Seq(NameChar) /\ v \in Seq(NameChar)
      BY <1>2, <1>5, <1>6, <2>3, PieceTypes
    <3>2. fb[k] = u \o v
      BY <1>5, <2>3
    <3> HIDE DEF u, v
    <3>3. (ad \o u) \o v = ad \o (u \o v)
      BY ONLY <1>13, <3>1, ConcatAssociative
    <3>4. f[la + 1 + k] = (ad \o u) \o v
      BY <2>5 DEF u, v
    <3> QED BY <3>2, <3>3, <3>4
  <2> QED BY <2>1, <2>6
<1>15. f[la + 1 + lb] = ad \o CamelCase(b)
  <2>1. lb \in 0..lb /\ lb \notin TB
    <3> HIDE DEF TB
    <3> QED BY <1>0, <1>14
  <2> QED BY <1>5, <2>1
<1> QED BY <1>1, <1>3, <1>15 DEF Dotted, ad, t

-----------------------------------------------------------------------------
(* CamelCase does the same at each position of any name, however the loop  *)
(* of rpc_service.cc goes from word to word; which is the rule of          *)
(* rpc_service.h:76, and not the example of rpc_service.h:82.              *)
THEOREM CamelEverywhere ==
  ASSUME NEW s \in Seq(NameChar)
  PROVE  CamelCase(s) = FlattenSeq([i \in 1..Len(s) |-> Piece(s, i)])
BY CamelForth DEF Pieces

(* Whatever identifiers the services and their methods have, CamelCase     *)
(* leaves the names it made of them as they are, makes the same of them as *)
(* they are spelled, and keeps apart the methods of services whose names   *)
(* it keeps apart.                                                         *)
THEOREM NamesAlwaysFit == NamesFit
<1> SUFFICES ASSUME NEW d \in Descriptor, NEW i \in DOMAIN MethodNames[d]
             PROVE  LET m == [service |-> d, index |-> i]  full == GetServiceMethodName(m) IN
                    /\ CamelCase(full) = full
                    /\ MethodNames[d][i][1] # "_" => CamelCase(Spelled(m)) = full
                    /\ \A e \in Descriptor : full \in NamesOf(e) => GetServiceName(e) = GetServiceName(d)
  BY DEF NamesFit
<1> DEFINE m == [service |-> d, index |-> i]
           full == GetServiceMethodName(m)
<1>1. \A e \in Descriptor : \A j \in DOMAIN MethodNames[e] :
        /\ ServiceName[e] \in Identifier /\ MethodNames[e][j] \in Identifier
        /\ CamelCase(ServiceName[e]) \in Identifier /\ CamelCase(MethodNames[e][j]) \in Identifier
        /\ Settled(CamelCase(ServiceName[e])) /\ Settled(CamelCase(MethodNames[e][j]))
        /\ GetServiceMethodName([service |-> e, index |-> j]) =
             Dotted(CamelCase(ServiceName[e]), CamelCase(MethodNames[e][j]))
  <2> SUFFICES ASSUME NEW e \in Descriptor, NEW j \in DOMAIN MethodNames[e]
               PROVE  /\ ServiceName[e] \in Identifier /\ MethodNames[e][j] \in Identifier
                      /\ CamelCase(ServiceName[e]) \in Identifier /\ CamelCase(MethodNames[e][j]) \in Identifier
                      /\ Settled(CamelCase(ServiceName[e])) /\ Settled(CamelCase(MethodNames[e][j]))
                      /\ GetServiceMethodName([service |-> e, index |-> j]) =
                           Dotted(CamelCase(ServiceName[e]), CamelCase(MethodNames[e][j]))
    OBVIOUS
  <2>1. ServiceName[e] \in Identifier /\ MethodNames[e] \in Seq(Identifier)
    BY RegistryAssumption
  <2>2. MethodNames[e][j] \in Identifier
    BY <2>1
  <2> QED BY <2>1, <2>2, CamelIdentifier DEF GetServiceMethodName
<1>2. full = Dotted(CamelCase(ServiceName[d]), CamelCase(MethodNames[d][i]))
  BY <1>1
<1>3. Spelled(m) = Dotted(ServiceName[d], MethodNames[d][i])
  BY DEF Spelled
<1>4. CamelCase(full) = full
  <2> DEFINE a == CamelCase(ServiceName[d])  b == CamelCase(MethodNames[d][i])
  <2>1. a \in Identifier /\ b \in Identifier /\ Settled(a) /\ Settled(b)
    BY <1>1
  <2> HIDE DEF a, b
  <2>2. Dotted(a, b) \in Seq(NameChar) /\ Settled(Dotted(a, b))
    BY <2>1, DottedIs, DottedSettles
  <2>3. CamelCase(Dotted(a, b)) = Dotted(a, b)
    BY <2>2, SettledStays
  <2> QED BY <1>2, <2>3 DEF a, b
<1>5. MethodNames[d][i][1] # "_" => CamelCase(Spelled(m)) = full
  <2> DEFINE a == ServiceName[d]  b == MethodNames[d][i]
  <2>1. a \in Identifier /\ b \in Identifier
    BY <1>1
  <2> HIDE DEF a, b
  <2>2. b[1] # "_" => CamelCase(Dotted(a, b)) = Dotted(CamelCase(a), CamelCase(b))
    BY <2>1, CamelDotted DEF NoUnderscoreFirst
  <2> QED BY <1>2, <1>3, <2>2 DEF a, b
<1>6. ASSUME NEW e \in Descriptor, full \in NamesOf(e) PROVE GetServiceName(e) = GetServiceName(d)
  <2>1. PICK j \in DOMAIN MethodNames[e] : full = GetServiceMethodName([service |-> e, index |-> j])
    BY <1>6 DEF NamesOf
  <2>2. Dotted(CamelCase(ServiceName[d]), CamelCase(MethodNames[d][i]))
          = Dotted(CamelCase(ServiceName[e]), CamelCase(MethodNames[e][j]))
    BY <1>1, <1>2, <2>1
  <2>3. CamelCase(ServiceName[d]) = CamelCase(ServiceName[e])
    <3> DEFINE a == CamelCase(ServiceName[d])  b == CamelCase(MethodNames[d][i])
               c == CamelCase(ServiceName[e])  k == CamelCase(MethodNames[e][j])
    <3>1. a \in Identifier /\ b \in Identifier /\ c \in Identifier /\ k \in Identifier
          /\ Dotted(a, b) = Dotted(c, k)
      BY <1>1, <2>2
    <3> HIDE DEF a, b, c, k
    <3>2. a = c
      BY ONLY <3>1, DottedApart
    <3> QED BY <3>2 DEF a, c
  <2> QED BY <2>3 DEF GetServiceName
<1> QED BY <1>4, <1>5, <1>6

\* The names that grow are names.
LEMMA NamesGrow == RegistrySpec => [](name \in Seq(NameChar))
<1> DEFINE N == name \in Seq(NameChar)
<1>1. MCInit => N
  BY DEF MCInit
<1>2. N /\ [RegistryNext]_<<vars, name>> => N'
  <2> SUFFICES ASSUME N, RegistryNext \/ UNCHANGED <<vars, name>>
               PROVE  N'
    OBVIOUS
  <2>1. CASE GrowName
    <3>1. PICK c \in Alphabet : name' = Append(name, c)
      BY <2>1 DEF GrowName
    <3>2. c \in NameChar
      BY AlphabetAssumption
    <3> QED BY <3>1, <3>2
  <2>2. CASE UseRegistry \/ UNCHANGED <<vars, name>>
    BY <2>2 DEF UseRegistry
  <2> QED BY <2>1, <2>2 DEF RegistryNext
<1> HIDE DEF N
<1>3. RegistrySpec => []N
  BY <1>1, <1>2, PTL DEF RegistrySpec
<1> QED BY <1>3 DEF N

(* What CamelCase has made of a name, it leaves as it is: of any name, at  *)
(* the client and again in FindMethodDescriptor; and the names of the      *)
(* services are as the registry takes them to be.                          *)
THEOREM CamelInvariance == RegistrySpec => []CamelTwice
<1>1. name \in Seq(NameChar) => CamelTwice
  <2> SUFFICES ASSUME name \in Seq(NameChar) PROVE CamelTwice
    OBVIOUS
  <2>1. CamelCase(name) \in Seq(NameChar) /\ Settled(CamelCase(name))
    BY CamelSettles
  <2>2. CamelCase(CamelCase(name)) = CamelCase(name)
    BY <2>1, SettledStays
  <2> QED BY <2>2, NamesAlwaysFit DEF CamelTwice
<1> QED BY <1>1, NamesGrow, PTL DEF RegistrySpec

-----------------------------------------------------------------------------
(* The three maps.                                                         *)

\* The method that stays in the map under a name is one of the descriptor's.
LEMMA LastNamedIs ==
  ASSUME NEW d \in Descriptor, NEW n \in NamesOf(d)
  PROVE  [service |-> d, index |-> LastNamed(d, n)] \in MethodDescriptors
<1> DEFINE S == {i \in DOMAIN MethodNames[d] :
                   GetServiceMethodName([service |-> d, index |-> i]) = n}
<1>1. S \subseteq 1..Len(MethodNames[d]) /\ Len(MethodNames[d]) \in Nat
  <2>1. MethodNames[d] \in Seq(Identifier)
    BY RegistryAssumption
  <2> QED BY <2>1
<1>2. S # {}
  BY DEF NamesOf
<1> HIDE DEF S
<1>3. \E x \in S : \A y \in S : y <= x
  BY <1>1, <1>2, Greatest
<1>4. LastNamed(d, n) \in S
  <2>1. \E i \in DOMAIN MethodNames[d] :
          /\ GetServiceMethodName([service |-> d, index |-> i]) = n
          /\ \A j \in DOMAIN MethodNames[d] :
               GetServiceMethodName([service |-> d, index |-> j]) = n => j <= i
    BY <1>3 DEF S
  <2> QED BY <2>1 DEF LastNamed, S
<1>5. LastNamed(d, n) \in Nat \ {0}
  <2>1. LastNamed(d, n) \in 1..Len(MethodNames[d])
    BY <1>1, <1>4
  <2>2. \A i \in 1..Len(MethodNames[d]) : i \in Nat \ {0}
    BY <1>1
  <2> QED BY <2>1, <2>2
<1> QED BY <1>5 DEF MethodDescriptors

\* The invariant holds initially.
LEMMA InitIInv == Init => IInv
  BY DEF Init, IInv, TypeOK, Empty, Names, FullNames, DispatchOwn, DeletesItsOwn

\* AddService keeps it.
LEMMA AddServiceIInv ==
  ASSUME IInv, NEW s \in Service, NEW own \in BOOLEAN, AddService(s, own)
  PROVE  IInv'
<1> DEFINE d == Of[s]
           key == GetServiceName(d)
<1>1. d \in Descriptor
  BY RegistryAssumption
<1>2. /\ Names' = Names \cup {key} /\ key \notin Names
      /\ service_map' = [n \in Names' |-> IF n = key THEN s ELSE service_map[n]]
      /\ service_ownership_map' =
           [n \in Names' |-> IF n = key THEN own ELSE service_ownership_map[n]]
  BY DEF AddService, Put, Names, IInv
<1>3. /\ FullNames' = FullNames \cup NamesOf(d)
      /\ service_method_map' = [n \in FullNames' |->
           IF n \in NamesOf(d) THEN [service |-> d, index |-> LastNamed(d, n)]
           ELSE service_method_map[n]]
  BY DEF AddService, PutMethods, FullNames
<1>4. /\ added' = added \cup {[service |-> s, ownership |-> own]}
      /\ alive /\ alive' /\ deleted' = deleted
  BY DEF AddService, IInv, TypeOK
<1> HIDE DEF d, key
<1>5. TypeOK'
  <2>1. service_map' \in [Names' -> Service]
    BY <1>2 DEF IInv, TypeOK
  <2>2. service_ownership_map' \in [Names' -> BOOLEAN]
    BY <1>2 DEF IInv, TypeOK
  <2>3. service_method_map' \in [FullNames' -> MethodDescriptors]
    <3>1. \A n \in NamesOf(d) : [service |-> d, index |-> LastNamed(d, n)] \in MethodDescriptors
      BY <1>1, LastNamedIs
    <3> QED BY <1>3, <3>1 DEF IInv, TypeOK
  <2>4. added' \subseteq [service : Service, ownership : BOOLEAN] /\ deleted' \subseteq Service
    BY <1>4 DEF IInv, TypeOK
  <2> QED BY <1>4, <2>1, <2>2, <2>3, <2>4 DEF TypeOK
<1>6. DOMAIN service_ownership_map' = Names'
  BY <1>2
<1>7. \A n \in Names' : n = GetServiceName(Of[service_map'[n]])
  BY <1>2 DEF IInv, d, key
<1>8. DispatchOwn'
  <2> SUFFICES ASSUME NEW n \in FullNames'
               PROVE  LET x == service_method_map'[n].service IN
                      GetServiceName(x) \in Names' /\ Of[service_map'[GetServiceName(x)]] = x
    BY DEF DispatchOwn, ServiceOf
  <2>1. CASE n \in NamesOf(d)
    <3>1. service_method_map'[n].service = d
      BY <1>3, <2>1
    <3> QED BY <1>2, <3>1 DEF d, key
  <2>2. CASE n \notin NamesOf(d)
    <3>1. n \in FullNames /\ service_method_map'[n] = service_method_map[n]
      BY <1>3, <2>2
    <3>2. LET x == service_method_map[n].service IN
          GetServiceName(x) \in Names /\ Of[service_map[GetServiceName(x)]] = x
      BY <3>1 DEF IInv, DispatchOwn, ServiceOf
    <3> QED BY <1>2, <3>1, <3>2
  <2> QED BY <2>1, <2>2
<1>9. added' = {[service |-> service_map'[n], ownership |-> service_ownership_map'[n]] : n \in Names'}
  <2>1. \A n \in Names : service_map'[n] = service_map[n]
                         /\ service_ownership_map'[n] = service_ownership_map[n]
    BY <1>2
  <2>2. service_map'[key] = s /\ service_ownership_map'[key] = own
    BY <1>2
  <2>3. added = {[service |-> service_map[n], ownership |-> service_ownership_map[n]] : n \in Names}
    BY DEF IInv
  <2> QED BY <1>2, <1>4, <2>1, <2>2, <2>3
<1>10. DeletesItsOwn'
  BY <1>4 DEF DeletesItsOwn
<1> QED BY <1>5, <1>6, <1>7, <1>8, <1>9, <1>10 DEF IInv

\* So does the destructor.
LEMMA DestroyServerIInv == IInv /\ DestroyServer => IInv'
<1> SUFFICES ASSUME IInv, DestroyServer PROVE IInv'
  OBVIOUS
<1>1. /\ UNCHANGED <<service_map, service_ownership_map, service_method_map, added>>
      /\ ~alive'
      /\ deleted' = {service_map[n] : n \in {x \in Names : service_ownership_map[x]}}
  BY DEF DestroyServer
<1>2. TypeOK'
  BY <1>1 DEF IInv, TypeOK, Names, FullNames, DestroyServer
<1>3. DeletesItsOwn'
  <2>1. added = {[service |-> service_map[n], ownership |-> service_ownership_map[n]] : n \in Names}
    BY DEF IInv
  <2>2. {a.service : a \in {b \in added : b.ownership}}
          = {service_map[n] : n \in {x \in Names : service_ownership_map[x]}}
    <3>1. ASSUME NEW n \in Names, service_ownership_map[n]
          PROVE  \E a \in {b \in added : b.ownership} : service_map[n] = a.service
      <4> DEFINE a == [service |-> service_map[n], ownership |-> service_ownership_map[n]]
      <4>1. a \in added
        BY <2>1
      <4>2. a.ownership = service_ownership_map[n] /\ a.service = service_map[n]
        OBVIOUS
      <4>3. a.ownership
        BY <3>1, <4>2, Zenon
      <4> HIDE DEF a
      <4>4. a \in {b \in added : b.ownership}
        BY <4>1, <4>3
      <4> QED BY <4>2, <4>4
    <3>2. ASSUME NEW a \in {b \in added : b.ownership}
          PROVE  \E n \in {x \in Names : service_ownership_map[x]} : service_map[n] = a.service
      <4>1. PICK n \in Names :
              a = [service |-> service_map[n], ownership |-> service_ownership_map[n]]
        BY <2>1
      <4> QED BY <4>1
    <3> QED BY <3>1, <3>2
  <2> QED BY <1>1, <2>2 DEF DeletesItsOwn
<1>4. DispatchOwn'
  BY <1>1 DEF IInv, DispatchOwn, ServiceOf, Names, FullNames
<1> QED BY <1>1, <1>2, <1>3, <1>4 DEF IInv, Names

(* The three maps tell of the same services, which are those added,        *)
(* whatever names and methods they have.                                   *)
THEOREM RegistryInvariance == Spec => []IInv
<1>1. IInv /\ UNCHANGED vars => IInv'
  BY DEF IInv, TypeOK, DispatchOwn, DeletesItsOwn, ServiceOf, Names, FullNames, vars
<1>2. IInv /\ [Next]_vars => IInv'
  BY <1>1, AddServiceIInv, DestroyServerIInv DEF Next
<1> QED BY <1>2, InitIInv, PTL DEF Spec

(* A service is never called with a method of another one.                 *)
THEOREM NeverMisdispatched == Spec => []DispatchOwn
<1>1. IInv => DispatchOwn
  BY DEF IInv
<1> QED BY <1>1, RegistryInvariance, PTL

(* The destructor deletes the services the server owns, and no other.      *)
THEOREM OwnershipKept == Spec => []DeletesItsOwn
<1>1. IInv => DeletesItsOwn
  BY DEF IInv
<1> QED BY <1>1, RegistryInvariance, PTL

-----------------------------------------------------------------------------
(* What the method map holds: under a name a method of that name, and for  *)
(* every method of a service added one of that service.                    *)
MethodsInv ==
  /\ \A n \in FullNames : GetServiceMethodName(service_method_map[n]) = n
  /\ \A x \in Names : \A n \in NamesOf(Of[service_map[x]]) :
       n \in FullNames /\ service_method_map[n].service = Of[service_map[x]]

\* Of the methods that share a name the one that stays has that name.
LEMMA LastNamedHas ==
  ASSUME NEW d \in Descriptor, NEW n \in NamesOf(d)
  PROVE  GetServiceMethodName([service |-> d, index |-> LastNamed(d, n)]) = n
<1> DEFINE S == {i \in DOMAIN MethodNames[d] :
                   GetServiceMethodName([service |-> d, index |-> i]) = n}
<1>1. S \subseteq 1..Len(MethodNames[d]) /\ Len(MethodNames[d]) \in Nat
  <2>1. MethodNames[d] \in Seq(Identifier)
    BY RegistryAssumption
  <2> QED BY <2>1
<1>2. S # {}
  BY DEF NamesOf
<1> HIDE DEF S
<1>3. \E x \in S : \A y \in S : y <= x
  BY <1>1, <1>2, Greatest
<1>4. \E i \in DOMAIN MethodNames[d] :
        /\ GetServiceMethodName([service |-> d, index |-> i]) = n
        /\ \A j \in DOMAIN MethodNames[d] :
             GetServiceMethodName([service |-> d, index |-> j]) = n => j <= i
  BY <1>3 DEF S
<1> QED BY <1>4 DEF LastNamed

LEMMA MethodsAdded ==
  ASSUME IInv, MethodsInv, NEW s \in Service, NEW own \in BOOLEAN, AddService(s, own)
  PROVE  MethodsInv'
<1> DEFINE d == Of[s]
           key == GetServiceName(d)
<1>1. d \in Descriptor
  BY RegistryAssumption
<1>2. /\ Names' = Names \cup {key} /\ key \notin Names
      /\ service_map' = [n \in Names' |-> IF n = key THEN s ELSE service_map[n]]
  BY DEF AddService, Put, Names, IInv
<1>3. /\ FullNames' = FullNames \cup NamesOf(d)
      /\ service_method_map' = [n \in FullNames' |->
           IF n \in NamesOf(d) THEN [service |-> d, index |-> LastNamed(d, n)]
           ELSE service_method_map[n]]
  BY DEF AddService, PutMethods, FullNames
<1> HIDE DEF d, key
<1>4. ASSUME NEW n \in FullNames' PROVE GetServiceMethodName(service_method_map'[n]) = n
  <2>1. CASE n \in NamesOf(d)
    <3>1. service_method_map'[n] = [service |-> d, index |-> LastNamed(d, n)]
      BY <1>3, <2>1
    <3> QED BY <1>1, <2>1, <3>1, LastNamedHas
  <2>2. CASE n \notin NamesOf(d)
    <3>1. n \in FullNames /\ service_method_map'[n] = service_method_map[n]
      BY <1>3, <2>2
    <3> QED BY <3>1 DEF MethodsInv
  <2> QED BY <2>1, <2>2
<1>5. ASSUME NEW x \in Names', NEW n \in NamesOf(Of[service_map'[x]])
      PROVE  n \in FullNames' /\ service_method_map'[n].service = Of[service_map'[x]]
  <2>1. CASE x = key
    <3>1. Of[service_map'[x]] = d
      BY <1>2, <2>1 DEF d
    <3>2. n \in FullNames' /\ service_method_map'[n] = [service |-> d, index |-> LastNamed(d, n)]
      BY <1>3, <1>5, <3>1
    <3> QED BY <3>1, <3>2
  <2>2. CASE x # key
    <3>1. x \in Names /\ service_map'[x] = service_map[x]
      BY <1>2, <2>2
    <3>2. n \in FullNames /\ service_method_map[n].service = Of[service_map[x]]
      BY <1>5, <3>1 DEF MethodsInv
    \* a service of another name has no method of this name
    <3>3. n \notin NamesOf(d)
      <4>1. Of[service_map[x]] \in Descriptor /\ x = GetServiceName(Of[service_map[x]])
        BY <3>1, RegistryAssumption DEF IInv, TypeOK
      <4>2. n \in NamesOf(d) => key = x
        <5> DEFINE e == Of[service_map[x]]
        <5>1. PICK i \in DOMAIN MethodNames[e] : n = GetServiceMethodName([service |-> e, index |-> i])
          BY <1>5, <3>1 DEF NamesOf
        <5>2. \A c \in Descriptor : n \in NamesOf(c) => GetServiceName(c) = GetServiceName(e)
          BY <4>1, <5>1, NamesAlwaysFit DEF NamesFit
        <5> QED BY <1>1, <4>1, <5>2 DEF key
      <4> QED BY <2>2, <4>2
    <3> QED BY <1>3, <3>1, <3>2, <3>3
  <2> QED BY <2>1, <2>2
<1> QED BY <1>4, <1>5 DEF MethodsInv

LEMMA MethodsShow ==
  ASSUME IInv, MethodsInv
  PROVE  CallsArrive
<1> SUFFICES ASSUME NEW a \in added, NEW i \in DOMAIN MethodNames[Of[a.service]],
                    NEW n \in {GetServiceMethodName([service |-> Of[a.service], index |-> i])} \cup
                              (IF MethodNames[Of[a.service]][i][1] = "_" THEN {}
                               ELSE {Spelled([service |-> Of[a.service], index |-> i])})
             PROVE  /\ FindService(n) = a.service
                    /\ GetServiceMethodName(FindMethodDescriptor(n)) =
                         GetServiceMethodName([service |-> Of[a.service], index |-> i])
  BY DEF CallsArrive
<1> DEFINE d == Of[a.service]
           m == [service |-> d, index |-> i]
           full == GetServiceMethodName(m)
           found == service_method_map[full]
<1>1. PICK x \in Names : a = [service |-> service_map[x], ownership |-> service_ownership_map[x]]
  BY DEF IInv
<1>2. a.service = service_map[x] /\ d \in Descriptor /\ x = GetServiceName(d)
  BY <1>1, RegistryAssumption DEF IInv, TypeOK
<1>3. full \in NamesOf(d)
  BY DEF NamesOf
<1>4. CamelCase(n) = full
  <2>1. CamelCase(full) = full /\ (MethodNames[d][i][1] # "_" => CamelCase(Spelled(m)) = full)
    BY <1>2, NamesAlwaysFit DEF NamesFit
  <2>2. n = full \/ (MethodNames[d][i][1] # "_" /\ n = Spelled(m))
    OBVIOUS
  <2> QED BY <2>1, <2>2
<1>5. full \in FullNames /\ found.service = d /\ GetServiceMethodName(found) = full
  BY <1>2, <1>3 DEF MethodsInv
<1>6. found \in MethodDescriptors /\ found # NULL
  <2>1. service_method_map \in [FullNames -> MethodDescriptors]
    BY DEF IInv, TypeOK
  <2>2. found \in MethodDescriptors
    BY <1>5, <2>1
  <2>3. NULL \notin MethodDescriptors
    BY RegistryAssumption
  <2> QED BY <2>2, <2>3
<1> HIDE DEF d, full, found
<1>7. FindMethodDescriptor(n) = found
  BY <1>4, <1>5 DEF FindMethodDescriptor, found
<1>8. ServiceOf(found) = a.service
  BY <1>2, <1>5 DEF ServiceOf
<1> QED BY <1>5, <1>6, <1>7, <1>8 DEF FindService, full, d

(* A client that calls a method of a service that was added, by either     *)
(* name, gets to that service and a method of that name, however many      *)
(* services there are and whatever identifiers they are named by.          *)
THEOREM CallsAlwaysArrive == Spec => []CallsArrive
<1>1. Init => MethodsInv
  BY DEF Init, Empty, MethodsInv, Names, FullNames
<1>2. IInv /\ MethodsInv /\ [Next]_vars => MethodsInv'
  <2>1. MethodsInv /\ (DestroyServer \/ UNCHANGED vars) => MethodsInv'
    BY DEF MethodsInv, DestroyServer, vars, Names, FullNames
  <2> QED BY <2>1, MethodsAdded DEF Next
<1>3. IInv /\ MethodsInv => CallsArrive
  BY MethodsShow
<1> QED BY <1>1, <1>2, <1>3, RegistryInvariance, PTL DEF Spec
=============================================================================
