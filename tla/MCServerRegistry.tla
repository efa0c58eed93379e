-------------------------- MODULE MCServerRegistry --------------------------
(***************************************************************************)
(* Six service objects of five descriptors.  "a_b" and "AB" are one name   *)
(* after CamelCase, two objects share the descriptor of "b", and one       *)
(* service has methods whose names CamelCase alike.  Besides, CamelCase    *)
(* itself on every name of at most MaxLen characters, grown one character  *)
(* at a time while no service is there: the two do not meet.               *)
(***************************************************************************)
EXTENDS ServerRegistry, SequencesExt

CONSTANT MaxLen  \* bound: length of a name grown

VARIABLE name

Alphabet == {"a", "b", "A", "_", ".", "2"}
ASSUME AlphabetAssumption == Alphabet \subseteq NameChar

MCInit == Init /\ name = <<>>

GrowName == /\ alive /\ added = {} /\ Len(name) < MaxLen
            /\ \E c \in Alphabet : name' = Append(name, c)
            /\ UNCHANGED vars

UseRegistry == name = <<>> /\ Next /\ UNCHANGED name

RegistryNext == GrowName \/ UseRegistry
RegistrySpec == MCInit /\ [][RegistryNext]_<<vars, name>>

Letters == {"a", "b", "d", "e", "f", "i", "l", "m", "n", "x", "y"}
Capital(c) ==
  CASE c = "a" -> "A" [] c = "b" -> "B" [] c = "d" -> "D" [] c = "e" -> "E"
    [] c = "f" -> "F" [] c = "i" -> "I" [] c = "l" -> "L" [] c = "m" -> "M"
    [] c = "n" -> "N" [] c = "x" -> "X" [] c = "y" -> "Y"
MCUpperOf == [c \in Letters |-> Capital(c)]

\* The name rpc_service.h explains CamelCase with.
DocName == <<"_", "m", "y", "_", "f", "i", "e", "l", "d", "_", "n", "a", "m", "e", "_", "2">>

MCService == {"ab1", "ab2", "b1", "b2", "doc", "empty"}
MCDescriptor == {"ab", "AB", "b", "doc", "empty"}
MCOf == [s \in MCService |->
  CASE s = "ab1" -> "ab" [] s = "ab2" -> "AB" [] s \in {"b1", "b2"} -> "b" [] OTHER -> s]
MCServiceName == [d \in MCDescriptor |->
  CASE d = "ab"  -> <<"a", "_", "b">> [] d = "AB" -> <<"A", "B">> [] d = "b" -> <<"b">>
    [] d = "doc" -> <<"_", "d">> [] OTHER -> <<"e", "2", "_">>]
MCMethodNames == [d \in MCDescriptor |->
  CASE d = "ab"  -> << <<"a">>, <<"b", "_", "2">> >>
    [] d = "AB"  -> << <<"b">>, <<"_", "b">> >>
    [] d = "b"   -> << <<"a", "_", "b">>, <<"A", "B">>, <<"a", "b">> >>
    [] d = "doc" -> << DocName, <<"a">> >>
    [] OTHER     -> <<>>]

-----------------------------------------------------------------------------

\* The name of a call is made by CamelCase at the client, and FindMethodDescriptor
\* puts it through CamelCase once more: no name may suffer from that, with or
\* without a dot.  And the names in use are what the registry takes them for.
CamelTwice ==
  /\ CamelCase(CamelCase(name)) = CamelCase(name)
  /\ NamesFit

\* rpc_service.h:82: "In short, _my_field_name_2 becomes XMyFieldName2."
DocumentedName == <<"X", "M", "y", "F", "i", "e", "l", "d", "N", "a", "m", "e", "2">>

\* So a service with a method of the first name has one of the second.
CamelAsDocumented ==
  \A a \in added :
    LET d == Of[a.service] IN
    DocName \in Range(MethodNames[d]) =>
      FindMethodDescriptor(Dotted(GetServiceName(d), DocumentedName)) # NULL
=============================================================================
