------------------------------- MODULE Naming -------------------------------
(***************************************************************************)
(* The names under which methods are registered and called                 *)
(* (rpc_service.cc).  A name is a sequence of characters, as CamelCase     *)
(* decides about each by those next to it; a character is a string of      *)
(* length one.                                                             *)
(***************************************************************************)
EXTENDS Naturals, Sequences

CONSTANTS
  UpperOf,  \* each lower case letter to its capital
  Digit     \* digits

Lower == DOMAIN UpperOf
Letter == Lower \cup {UpperOf[c] : c \in Lower}

ASSUME NamingAssumption ==
  /\ \A c \in Lower : UpperOf[c] \notin Lower
  /\ "X" \in Letter \ Lower
  /\ {"_", "."} \cap (Letter \cup Digit) = {}
  /\ Letter \cap Digit = {}

\* What a name of a .proto file is made of, and a name with its scope.
IdentifierChar == Letter \cup Digit \cup {"_"}
NameChar == IdentifierChar \cup {"."}
Identifier == Seq(IdentifierChar) \ {<<>>}

ToUpper(c) == IF c \in Lower THEN UpperOf[c] ELSE c

\* Mutant: an underscore is skipped before every letter.
SkipsBeforeLetter(s, i) == s[i] = "_" /\ i < Len(s) /\ s[i + 1] \in Letter

SkipsUnderscore(s, i) == s[i] = "_" /\ i < Len(s) /\ s[i + 1] \in Lower

\* The end of the run of lower case letters that follows position i.
WordEnd(s, i) ==
  CHOOSE j \in i..Len(s) :
    /\ \A n \in (i + 1)..j : s[n] \in Lower
    /\ j < Len(s) => s[j + 1] \notin Lower

CamelCase(s) ==
  LET \* what the loop appends from position i on
      From[i \in 1..(Len(s) + 1)] ==
        IF i > Len(s) THEN <<>>
        ELSE IF SkipsUnderscore(s, i) THEN From[i + 1]
        ELSE IF s[i] \in Digit \cup {"."} THEN <<s[i]>> \o From[i + 1]
        ELSE LET j == WordEnd(s, i)
             IN  <<ToUpper(s[i])>> \o SubSeq(s, i + 1, j) \o From[j + 1]
  IN IF s # <<>> /\ s[1] = "_" THEN <<"X">> \o From[2] ELSE From[1]

Dotted(a, b) == a \o <<".">> \o b
=============================================================================
