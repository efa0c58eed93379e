---------------------------- MODULE RpcInvariant ----------------------------
(***************************************************************************)
(* The inductive invariant behind the safety properties of RpcSystem.      *)
(*                                                                         *)
(* No property of a single frame survives on its own: what makes an answer *)
(* the caller's own is the chain from the call to its header in the        *)
(* stream, to the header the server holds, to what it ran, to the answer's *)
(* header and back.  Each conjunct below is one link of that chain.        *)
(***************************************************************************)
EXTENDS RpcSystem

\* A client's connection is open at its end and nobody else's.
OwnConn ==
  /\ \A c \in Client : sock[c] # NoConn => cliEnd[sock[c]] = "open"
  /\ \A c, d \in Client : c # d /\ sock[c] = sock[d] => sock[c] = NoConn
  /\ \A c \in Client : InCall(c) => sock[c] # NoConn /\ call[c].conn = sock[c]

\* Calls on a connection have ids of their own, below the client's next id.
IssuedOnce ==
  /\ \A k \in Conns : \A x \in issued[k] : x.conn = k
  /\ \A k \in Conns : cliEnd[k] = "unused" => issued[k] = {}
  /\ \A c \in Client : sock[c] # NoConn =>
       \A x \in issued[sock[c]] : x.id < seq[c]
  /\ \A k \in Conns : \A x, y \in issued[k] : x.id = y.id => x = y
  /\ \A c \in Client : InCall(c) => call[c] \in issued[sock[c]]

IsRequestHeader(f) == f.tag = "RequestHeader"
AsHeader(x) == RequestHeader(x.id, x.method, x.body)

\* The server holds a header that may still lead to an execution.
Engaged(k) ==
  phase[k] \in {"recvBody", "call"} /\ reqHeader[k].checksum # NoSum

\* Every such header, in the stream or held, is that of an issued call.
RequestsIssued ==
  /\ \A k \in Conns : \A i \in DOMAIN up[k] :
       IsRequestHeader(up[k][i]) => \E x \in issued[k] : up[k][i] = AsHeader(x)
  /\ \A k \in Conns : Engaged(k) => \E x \in issued[k] : reqHeader[k] = AsHeader(x)
  /\ \A k \in Conns : phase[k] \in {"recvBody", "call"} => reqHeader[k].method \in Registered
  /\ \A k \in Conns : phase[k] = "call" => request[k] = reqHeader[k].checksum

RanBelow(k, n)    == \A i \in DOMAIN ran[k] : ran[k][i].id < n
HeldBelow(k, n)   == Engaged(k) => reqHeader[k].id < n
StreamBelow(k, n) == \A j \in DOMAIN up[k] : IsRequestHeader(up[k][j]) => up[k][j].id < n

\* Ids grow from what ran, to the header held, to the headers in the stream,
\* to the call whose header is not written yet.
StreamAscends ==
  \A k \in Conns : \A i, j \in DOMAIN up[k] :
    IsRequestHeader(up[k][i]) /\ IsRequestHeader(up[k][j]) /\ i < j =>
      up[k][i].id < up[k][j].id
PastBelowStream ==
  \A k \in Conns : \A j \in DOMAIN up[k] : IsRequestHeader(up[k][j]) =>
    RanBelow(k, up[k][j].id) /\ HeldBelow(k, up[k][j].id)
PastBelowHeld ==
  \A k \in Conns : Engaged(k) => RanBelow(k, reqHeader[k].id)
AllBelowUnsent ==
  \A c \in Client : pc[c] = "sendHeader" =>
    /\ RanBelow(sock[c], call[c].id)
    /\ HeldBelow(sock[c], call[c].id)
    /\ StreamBelow(sock[c], call[c].id)

IdsAscend == StreamAscends /\ PastBelowStream /\ PastBelowHeld /\ AllBelowUnsent

\* A call with this id ran on k, and this is what the service returned.
RanWith(k, i, e, r) ==
  \E j \in DOMAIN ran[k] :
    /\ ran[k][j].id = i
    /\ Handle[<<ran[k][j].method, ran[k][j].body>>] = [err |-> e, reply |-> r]

\* Every service answer under way, from the server's local to the client's,
\* is that of a call that ran; an answer returned is to a call that was made.
AnswersRan ==
  /\ \A k \in Conns :
       phase[k] \in {"sendHeader", "sendBody"} /\ response[k].err # NotFound =>
         RanWith(k, reqHeader[k].id, response[k].err, response[k].reply)
  /\ \A k \in Conns : \A i \in DOMAIN down[k] :
       down[k][i].tag = "ResponseHeader" /\ down[k][i].error # NotFound =>
         RanWith(k, down[k][i].id, down[k][i].error, down[k][i].checksum)
  /\ \A c \in Client : pc[c] = "recvBody" =>
       /\ respHeader[c] # None
       /\ respHeader[c].checksum # NoSum /\ respHeader[c].error # NotFound =>
            RanWith(sock[c], respHeader[c].id, respHeader[c].error, respHeader[c].checksum)
  /\ \A c \in Client : Answered(c) => call[c].conn \in Conns

\* A call has no outcome until it returns.
Unanswered == \A c \in Client : InCall(c) => outcome[c] = None

(* The inductive invariant: types, the links, and the three properties     *)
(* they carry.                                                             *)
IInv ==
  /\ TypeOK
  /\ OwnConn
  /\ IssuedOnce
  /\ RequestsIssued
  /\ IdsAscend
  /\ AnswersRan
  /\ Unanswered
  /\ NoPhantomCall
  /\ ExecutedInOrder
  /\ AnswerIsOwn

-----------------------------------------------------------------------------
(* The invariant behind NotFoundExplained: as long as every call made on a *)
(* connection is to a registered method, the server keeps its place in the *)
(* stream, and no "Can't find ServiceMethod" is ever under way.            *)

Clean(k) == \A x \in issued[k] : x.method \in Registered

\* A connection waits once, for accept() or for a worker, and then for good
\* not again: no second job ever reads its stream.
WaitOnce ==
  /\ \A i, j \in DOMAIN backlog : backlog[i] = backlog[j] => i = j
  /\ \A i \in DOMAIN backlog :
       cliEnd[backlog[i]] # "unused" /\ srvEnd[backlog[i]] = "unused"
  /\ \A i, j \in DOMAIN queue : queue[i] = queue[j] /\ queue[i] \in Conns => i = j
  /\ \A i \in DOMAIN queue : queue[i] \in Conns =>
       srvEnd[queue[i]] # "unused" /\ phase[queue[i]] = "none"
  /\ \A k \in Conns : srvEnd[k] = "unused" => phase[k] = "none"
  /\ \A k \in Conns : cliEnd[k] = "unused" => srvEnd[k] = "unused"

\* The server has taken a header and not its body, or reads no more.
Past(k) == phase[k] \in {"recvBody", "closing", "done"}

\* A body follows its header: in the stream, or the one the server has taken.
Follows(k) ==
  \A i \in DOMAIN up[k] : ~IsRequestHeader(up[k][i]) =>
    IF i = 1 THEN Past(k) ELSE IsRequestHeader(up[k][i - 1])
BodiesFollow == \A k \in Conns : Clean(k) => Follows(k)

\* A body about to be written will follow its header, or will not be read.
Deaf(k) == reset[k] \/ srvEnd[k] = "closed"
HeaderLast(k) ==
  IF up[k] = <<>> THEN Past(k) ELSE IsRequestHeader(up[k][Len(up[k])])
HeaderSent ==
  \A c \in Client, k \in Conns : pc[c] = "sendBody" /\ sock[c] = k /\ Clean(k) =>
    Deaf(k) \/ HeaderLast(k)

\* No "Can't find ServiceMethod" is held, sent or read on such a connection.
NotFoundFrame(f) == f.tag = "ResponseHeader" /\ f.error = NotFound
NoneHeld == \A k \in Conns : Clean(k) => response[k].err # NotFound
NoneSent ==
  \A k \in Conns : Clean(k) => \A i \in DOMAIN down[k] : ~NotFoundFrame(down[k][i])
NoneRead ==
  \A c \in Client, k \in Conns :
    pc[c] = "recvBody" /\ sock[c] = k /\ Clean(k) /\ respHeader[c].checksum # NoSum =>
      respHeader[c].error # NotFound

\* An answer of that kind returned is to a call that was made,
NotFoundOfCall ==
  \A c \in Client : outcome[c] # None /\ outcome[c].err = NotFound => call[c].conn \in Conns

\* and a call under way is the latest on its connection.
LatestCall == \A c \in Client : InCall(c) => seq[c] = call[c].id + 1

FInv ==
  /\ IInv
  /\ WaitOnce
  /\ BodiesFollow
  /\ HeaderSent
  /\ NoneHeld
  /\ NoneSent
  /\ NoneRead
  /\ NotFoundOfCall
  /\ LatestCall
  /\ NotFoundExplained
=============================================================================
