------------------------------- MODULE MCPool -------------------------------
(* Databases of four files or five for TLC: combinations of a few texts for    *)
(* each, with right, wrong and missing answers about symbols; and two themes *)
(* of their own.                                                             *)
EXTENDS DescriptorPool

MCParentOf == [s \in Symbols |->
   CASE s = "p.M" -> "p" [] s = "p.M.N" -> "p.M" [] s = "M.N" -> "M"
     [] s = "q.p" -> "q" [] s = "q.p.M" -> "q.p" [] OTHER -> "none"]

Msg(s) == [name |-> s, type |-> "message"]
Field(s) == [name |-> s, type |-> "field"]
Using(scopes, number) == [scopes |-> scopes, types_only |-> number = 0, number |-> number]
Unsplit(s) == [first |-> s, full |-> s]
In(s, t) == [first |-> s, full |-> t]
\* In package p: M, M.N, and an extension of .p.M.  In no package: M.N.
useM == Using(<<Unsplit("p.M"), Unsplit("M")>>, 0)
useN == Using(<<In("p.M", "p.M.N"), Unsplit("M.N")>>, 0)
useTopN == Using(<<Unsplit("M.N")>>, 0)
ext == Using(<<Unsplit("p.M")>>, 1)
\* In package q: p.M.
useP == Using(<<In("q.p", "q.p.M"), Unsplit("p.M")>>, 0)
File(dep, pub, pkg, decl, uses) ==
    [dependency |-> dep, public |-> pub, package |-> pkg, declares |-> decl, uses |-> uses]

As == { File(<<"b">>, {}, "p", {}, <<useM>>), File(<<"b", "c">>, {}, "p", {}, <<ext>>),
        File(<<"c">>, {1}, "p", {Field("p.M")}, <<useM>>), NoProto }
Bs == { File(<<>>, {}, "p", {Msg("p.M")}, <<>>), File(<<"c">>, {1}, "p", {}, <<useM>>),
        File(<<"a">>, {}, "none", {Msg("M"), Msg("M.N")}, <<useTopN>>), File(<<"c">>, {}, "p", {}, <<ext>>) }
Cs == { File(<<>>, {}, "p", {Msg("p.M"), Msg("p.M.N")}, <<ext>>), File(<<>>, {}, "none", {Msg("M")}, <<>>),
        File(<<>>, {}, "p", {}, <<useN>>), File(<<>>, {}, "none", {Msg("p")}, <<>>) }
Ds == { File(<<"a">>, {}, "p", {Msg("p.M")}, <<useM>>), File(<<"b", "a">>, {}, "none", {Field("M")}, <<ext>>),
        File(<<>>, {}, "none", {Msg("M"), Field("M")}, <<>>) }
Mixed == [{"a"} -> As] \X [{"b"} -> Bs] \X [{"c"} -> Cs] \X [{"d"} -> Ds]

\* c imports a, which imports b; the index makes b look for p.M in d, which
\* imports c, while a is pending.
Astray == <<[a |-> File(<<"b">>, {}, "none", {}, <<>>)], [b |-> File(<<"e">>, {}, "p", {}, <<useM>>)],
            [c |-> File(<<"a">>, {}, "none", {}, <<>>)], [d |-> File(<<"c">>, {}, "p", {Msg("p.M")}, <<>>)]>>

\* A package of several files, of which c imports one, or another p.
Packages == [{"a"} -> {File(<<>>, {}, "q.p", {Msg("q.p.M")}, <<>>)}]
            \X [{"b"} -> {File(<<>>, {}, "q.p", {}, <<>>), NoProto}]
            \X [{"c"} -> {File(<<"b", "d">>, {}, "q", {}, <<useP>>), File(<<"d">>, {}, "q", {}, <<useP>>),
                          File(<<"a">>, {}, "q", {}, <<useP>>)}]
            \X [{"d"} -> {File(<<>>, {}, "p", {Msg("p.M")}, <<>>), File(<<"a">>, {1}, "q", {}, <<useP>>)}]

Joined(t) == [f \in Files |-> CASE f = "a" -> t[1].a [] f = "b" -> t[2].b [] f = "c" -> t[3].c
                                [] f = "d" -> t[4].d
                                [] f = "e" -> IF t = Astray THEN File(<<>>, {}, "none", {Msg("M")}, <<>>) ELSE NoProto]
Declarers(protos, s) == {f \in Files : \E d \in protos[f].declares : d.name = s}
First(F) == IF F = {} THEN "nofile" ELSE CHOOSE f \in F : TRUE

\* What the index says of a symbol: nothing, a file that declares it, or d.
Index(protos, says) == [s \in Symbols |->
   LET F == Declarers(protos, s)
   IN CASE says = "nothing" -> "nofile" [] says = "first" -> First(F)
        [] says = "last" -> IF "d" \in F THEN "d" ELSE First(F)]
Database(t, says) ==
   LET protos == Joined(t)
   IN [proto |-> protos, symbol |-> Index(protos, says),
       extension |-> [s \in Symbols |-> First({f \in Files : s = "p.M" /\ \E i \in DOMAIN protos[f].uses :
                                                                 protos[f].uses[i].number # 0})]]
MCDatabases == {Database(t, says) : t \in Mixed, says \in {"nothing", "first", "last"}}
               \cup {Database(Astray, "last")}
               \cup {Database(t, says) : t \in Packages, says \in {"nothing", "first"}}
=============================================================================
