----------------------------- MODULE MCRpcSystem -----------------------------
(***************************************************************************)
(* A small service for TLC: one registered method, "div", which returns a  *)
(* reply for body b1, an error text for b2, and for b3 an error text too   *)
(* long for a header; an unregistered name, one that fits in the request   *)
(* header but not in the NotFound answer, and one that fits in neither.    *)
(* The body b2 is one whose bytes parse as a request header.               *)
(***************************************************************************)
EXTENDS RpcInvariant, TLC

SymConns == Permutations(Conns)
SymAll == Permutations(Conns) \cup Permutations(Client)

MCMethod == {"", "div", "nope"}
MCMethodLong == {"", "div", "long", "huge"}
MCMethodFew == {"", "div", "long"}
MCMethodTwo == {"", "div", "nope", "huge"}
MCNameLen == [m \in Method |->
  CASE m = "" -> 0 [] m = "long" -> 6 [] m = "huge" -> 20 [] OTHER -> 2]

MCErrLen == [e \in ErrText |-> CASE e = "" -> 0 [] e = "byzero" -> 2 [] OTHER -> 20]

MCHandle == [x \in Registered \X Body |->
  CASE x[2] = "b1" -> [err |-> "", reply |-> "r1"]
    [] x[2] = "b2" -> [err |-> "byzero", reply |-> "r0"]
    [] x[2] = "b3" -> [err |-> "verbose", reply |-> "r0"]
    [] OTHER       -> [err |-> "", reply |-> "r0"]]

MCBodyParses == {x \in Registered \X Body : x[2] # "junk"}
MCReplyParses == {x \in Method \X Reply : x[2] # "junkr"}

\* The bytes of b2, read as a header: call 1 of an unregistered method.
MCBodyAsHeader == [b \in Body |->
  IF b = "b2" THEN [tag |-> "RequestHeader", id |-> 1, method |-> "", checksum |-> NoSum]
  ELSE Malformed]
\* The same when the message carries a registered name.
MCBodyAsCall == [b \in Body |->
  IF b = "b2" THEN [tag |-> "RequestHeader", id |-> 1, method |-> "div", checksum |-> NoSum]
  ELSE Malformed]
\* An empty reply is no header; r1 reads as one of call 0.
MCReplyAsHeader == [r \in Reply |->
  IF r = "r1" THEN [tag |-> "ResponseHeader", id |-> 0, error |-> "", checksum |-> NoSum]
  ELSE Malformed]
=============================================================================
