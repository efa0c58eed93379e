------------------------------ MODULE RpcSystem ------------------------------
(***************************************************************************)
(* Clients, connections and the server put together, and what a caller may *)
(* rely on: no answer is taken for another call's, nothing is executed that *)
(* was not asked for, nothing twice, and a call comes back.                *)
(***************************************************************************)
EXTENDS RpcClient, ServerConn

vars == <<netVars, faults, clientVars, serverVars>>

TypeOK == NetTypeOK /\ ClientTypeOK /\ ServerTypeOK

Init == NetInit /\ ClientInit /\ ServerInit

Network == \E k \in Conns : Break(k) /\ UNCHANGED <<clientVars, serverVars>>

\* Every client is gone and the server is back in accept(), for good.
Terminated ==
  /\ \A c \in Client : pc[c] = "destroyed"
  /\ backlog = <<>> /\ queue = <<>> /\ Busy = {}
  /\ UNCHANGED vars

Next ==
  \/ \E c \in Client : ClientNext(c) /\ UNCHANGED serverVars
  \/ ServerNext /\ UNCHANGED clientVars
  \/ Network
  \/ Terminated

Spec == Init /\ [][Next]_vars

(* A thread that can run does run.  Nothing obliges a program to make a    *)
(* call or to give its connection up, and no fault has to happen.          *)
Fairness ==
  /\ \A c \in Client : WF_vars(CallStep(c) /\ UNCHANGED serverVars)
  /\ \A k \in Conns :
       WF_vars((Accept(k) \/ StartJob(k) \/ JobStep(k)) /\ UNCHANGED clientVars)
  /\ WF_vars(StartBadJob /\ UNCHANGED clientVars)

FairSpec == Spec /\ Fairness

-----------------------------------------------------------------------------
(* Safety.                                                                 *)

RanAs(x) == [id |-> x.id, method |-> x.method, body |-> x.body]

Executed(x) == \E i \in DOMAIN ran[x.conn] : ran[x.conn][i] = RanAs(x)

Answered(c) == outcome[c] # None /\ outcome[c].err \in ErrText

(* An answer that CallMethod attributes to the service (success, or the    *)
(* service's own error) is the answer to this very call: the service       *)
(* executed it, on the connection it was sent over, and returned just that *)
(* (rpc_service.h: "If the RPC succeeded, 'response' contains the response *)
(* returned by the server").  Late answers of abandoned calls, connections *)
(* that lost their place in the stream and failed writes are the danger.   *)
AnswerIsOwn ==
  \A c \in Client : Answered(c) =>
    LET x == call[c]
        a == Handle[<<x.method, x.body>>] IN
    /\ Executed(x)
    /\ outcome[c].err = a.err
    /\ a.err = NoErr => outcome[c].reply = a.reply

(* The server executes only calls that a client began on that connection,  *)
(* with the method and the arguments the client gave: an interrupted send  *)
(* or a skipped body never makes it pair one call's header with another's  *)
(* body.                                                                   *)
NoPhantomCall ==
  \A k \in Conns : \A i \in DOMAIN ran[k] :
    \E x \in issued[k] : ran[k][i] = RanAs(x)

(* On one connection calls are executed in the order they were made, each  *)
(* at most once, whatever failed in between.                               *)
ExecutedInOrder ==
  \A k \in Conns : \A i, j \in DOMAIN ran[k] :
    i < j => ran[k][i].id < ran[k][j].id

(* "Can't find ServiceMethod" for a method that is registered is seen only *)
(* on a connection that was used for an unregistered one before: the body  *)
(* ProcessOneCall left in the stream was answered as if it were a call.    *)
NotFoundExplained ==
  \A c \in Client :
    outcome[c] # None /\ outcome[c].err = NotFound =>
      \E x \in issued[call[c].conn] :
        x.method \notin Registered /\ x.id <= call[c].id

(* wire.proto, "2. Server Recv Request": the server reads the frames of a  *)
(* request as a header and then its body, so the frame it is about to read *)
(* as a header is one.                                                     *)
FramesInRole ==
  \A k \in Conns : phase[k] = "recvHeader" /\ up[k] # <<>> =>
    Head(up[k]).tag = "RequestHeader"

-----------------------------------------------------------------------------
(* Liveness.                                                               *)

InCall(c) == pc[c] \in IOStates

(* A call returns, although no read has a timeout: the server answers it   *)
(* or closes the connection.  Only on a connection where ProcessOneCall    *)
(* ignored that an unknown method's answer was not sent can both sides be  *)
(* left waiting.  Here every connection has a worker.                      *)
CallReturns ==
  \A c \in Client : InCall(c) ~> (~InCall(c) \/ dropped[sock[c]])

(* The server closes its end of every connection the client has closed,    *)
(* and with it frees the worker, whatever was left in the stream.          *)
ServerReclaims ==
  \A k \in Conns :
    cliEnd[k] = "closed" /\ srvEnd[k] = "open" ~> srvEnd[k] = "closed"

(* With a single worker the same holds as long as no client rests for good *)
(* on an open connection between its calls, nor is stuck for the reason    *)
(* above: the worker gets to every job, those of failed accepts included.  *)
NobodyRests ==
  \A c \in Client : []<>(InCall(c) \/ sock[c] = NoConn)

CallReturnsInTurn ==
  NobodyRests =>
    \A c \in Client : InCall(c) ~> (~InCall(c) \/ \E k \in Conns : dropped[k])

-----------------------------------------------------------------------------
(* The implementation of the contract: sessions are connections, and       *)
(* nothing of the transport and of the server but ran is visible.          *)
Contract == INSTANCE CallContract WITH
  Session <- Conns, Made <- {NotFound, LocalErr},
  Service <- LAMBDA x : Handle[<<x.method, x.body>>],
  Nil <- NoErr, Nothing <- NoReply, Pending <- None,
  begun <- issued, executed <- ran, latest <- call, result <- outcome

(* Every step of clients, network and server is a step of the contract or  *)
(* changes nothing a caller can see.                                       *)
ImplementsContract == Contract!Spec
=============================================================================
