----------------------------- MODULE ServerConn -----------------------------
(***************************************************************************)
(* The server's side of a connection: Server::BindAndServe hands each      *)
(* accepted connection to Env::Schedule as a ServerConn, whose ServeProc   *)
(* repeats ProcessOneCall until an error and then closes the connection.   *)
(*                                                                         *)
(* Env is used through its promise: scheduled jobs start in order, at most *)
(* Workers of them at a time (one for PosixEnv's background thread).       *)
(***************************************************************************)
EXTENDS Transport

CONSTANTS
  Workers,     \* jobs the Env runs at the same time
  BadConn,     \* the Conn made of a failed accept(): sock_ = -1
  Registered,  \* names FindMethodDescriptor and FindService resolve
  Handle,      \* the service: <<method, request>> to its Error and response
  BodyParses   \* <<m, b>>: b parses as the request message of m

ASSUME ServerAssumption ==
  /\ Workers \in Nat \ {0}
  /\ BadConn \notin Conns
  /\ Registered \subseteq Method
  /\ BodyParses \subseteq Registered \X Body
  /\ Handle \in [Registered \X Body -> [err : ErrText, reply : Reply]]

VARIABLES
  queue,      \* jobs given to Env::Schedule and not started
  phase,      \* where the ServeProc of each connection is
  reqHeader,  \* ProcessOneCall's reqHeader
  request,    \* ProcessOneCall's request message
  response,   \* the Error text and response message to send
  ran,        \* history: the calls executed for each connection, in order
  dropped     \* history: the answer to an unknown method could not be sent,
              \* and ProcessOneCall ignored that

serverVars == <<queue, phase, reqHeader, request, response, ran, dropped>>

Unset == [err |-> NoErr, reply |-> NoReply]
EmptyHeader == RequestHeader(0, EmptyName, NoSum)

ServerTypeOK ==
  /\ queue \in Seq(Conns \cup {BadConn})
  /\ phase \in [Conns -> {"none", "recvHeader", "recvBody", "call",
                           "sendHeader", "sendBody", "closing", "done"}]
  /\ reqHeader \in [Conns -> RequestHeaders]
  /\ request \in [Conns -> Body]
  /\ response \in [Conns -> [err : ErrText \cup {NotFound}, reply : Reply]]
  /\ ran \in [Conns -> Seq([id : Nat, method : Method, body : Body])]
  /\ dropped \in [Conns -> BOOLEAN]

ServerInit ==
  /\ queue = <<>>
  /\ phase = [k \in Conns |-> "none"]
  /\ reqHeader = [k \in Conns |-> EmptyHeader]
  /\ request = [k \in Conns |-> HeaderAsBody]
  /\ response = [k \in Conns |-> Unset]
  /\ ran = [k \in Conns |-> <<>>]
  /\ dropped = [k \in Conns |-> FALSE]

Goes(k, l) == phase' = [phase EXCEPT ![k] = l]

(* ProcessOneCall returned; its locals are gone.                           *)
Finish(k, l) ==
  /\ Goes(k, l)
  /\ reqHeader' = [reqHeader EXCEPT ![k] = EmptyHeader]
  /\ request' = [request EXCEPT ![k] = HeaderAsBody]
  /\ response' = [response EXCEPT ![k] = Unset]

-----------------------------------------------------------------------------
(* The accept loop.  accept() returns -1 on failure, which Conn::Accept    *)
(* does not take for a failure: a job is scheduled for that Conn too.      *)
Accept(k) ==
  /\ AcceptHead(k)
  /\ queue' = Append(queue, k)
  /\ UNCHANGED <<phase, reqHeader, request, response, ran, dropped, faults>>

AcceptError ==
  /\ UseFault
  /\ queue' = Append(queue, BadConn)
  /\ UNCHANGED <<phase, reqHeader, request, response, ran, dropped, netVars>>

Busy == {k \in Conns : phase[k] \notin {"none", "done"}}

WorkerFree == Cardinality(Busy) < Workers

(* The Env starts the oldest job.  One on BadConn fails its first read,    *)
(* closes descriptor -1 and is gone.                                       *)
StartJob(k) ==
  /\ WorkerFree
  /\ queue # <<>> /\ k = Head(queue)
  /\ queue' = Tail(queue)
  /\ Goes(k, "recvHeader")
  /\ UNCHANGED <<reqHeader, request, response, ran, dropped, netVars, faults>>

StartBadJob ==
  /\ WorkerFree
  /\ queue # <<>> /\ Head(queue) = BadConn
  /\ queue' = Tail(queue)
  /\ UNCHANGED <<phase, reqHeader, request, response, ran, dropped, netVars, faults>>

-----------------------------------------------------------------------------
(* ProcessOneCall.                                                         *)

\* Mutant: SendResponse's failure is ignored for every call.
SendFailsSilently(k, res) == Finish(k, "recvHeader") /\ UNCHANGED dropped

\* SendResponse failed.  That ends the connection, except for the answer to
\* an unknown method: ProcessOneCall ignores its failure and reads on.
SendFails(k, res) ==
  IF res.err = NotFound
  THEN Finish(k, "recvHeader") /\ dropped' = [dropped EXCEPT ![k] = TRUE]
  ELSE Finish(k, "closing") /\ UNCHANGED dropped

\* SendResponse for h begins: it fails at once if the header is too large.
Respond(k, h, res) ==
  \/ /\ HeaderFits(ResponseHeaderLen(res.err, h.method))
     /\ Goes(k, "sendHeader")
     /\ reqHeader' = [reqHeader EXCEPT ![k] = h]
     /\ response' = [response EXCEPT ![k] = res]
     /\ UNCHANGED <<request, dropped>>
  \/ /\ ~HeaderFits(ResponseHeaderLen(res.err, h.method))
     /\ SendFails(k, res)

\* An unknown method is answered at once: its body is left in the stream.
RecvRequestHeader(k) ==
  /\ phase[k] = "recvHeader"
  /\ ReadUp(k)
  /\ LET h == ParseRequestHeader(Head(up[k])) IN
     \/ h = Malformed /\ Finish(k, "closing") /\ UNCHANGED dropped
     \/ /\ h # Malformed /\ h.method \in Registered
        /\ Goes(k, "recvBody")
        /\ reqHeader' = [reqHeader EXCEPT ![k] = h]
        /\ UNCHANGED <<request, response, dropped>>
     \/ /\ h # Malformed /\ h.method \notin Registered
        /\ Respond(k, h, [err |-> NotFound, reply |-> NoReply])
  /\ UNCHANGED <<queue, ran, faults>>

\* Mutant: the checksum is not compared.
RequestAcceptedUnchecked(h, f) == <<h.method, RequestPayload(f)>> \in BodyParses

RequestAccepted(h, f) ==
  Checksum(f) = h.checksum /\ <<h.method, RequestPayload(f)>> \in BodyParses

\* Mutant: ProcessOneCall goes on after a request body it refused.
RecvRequestBodyGoesOn(k) ==
  /\ phase[k] = "recvBody"
  /\ ReadUp(k)
  /\ LET f == Head(up[k]) IN
     \/ /\ RequestAccepted(reqHeader[k], f)
        /\ request' = [request EXCEPT ![k] = RequestPayload(f)]
        /\ Goes(k, "call")
        /\ UNCHANGED <<reqHeader, response>>
     \/ ~RequestAccepted(reqHeader[k], f) /\ Finish(k, "recvHeader")
  /\ UNCHANGED <<queue, ran, dropped, faults>>

RecvRequestBody(k) ==
  /\ phase[k] = "recvBody"
  /\ ReadUp(k)
  /\ LET f == Head(up[k]) IN
     \/ /\ RequestAccepted(reqHeader[k], f)
        /\ request' = [request EXCEPT ![k] = RequestPayload(f)]
        /\ Goes(k, "call")
        /\ UNCHANGED <<reqHeader, response>>
     \/ ~RequestAccepted(reqHeader[k], f) /\ Finish(k, "closing")
  /\ UNCHANGED <<queue, ran, dropped, faults>>

CallService(k) ==
  /\ phase[k] = "call"
  /\ ran' = [ran EXCEPT ![k] = Append(@, [id |-> reqHeader[k].id,
                method |-> reqHeader[k].method, body |-> request[k]])]
  /\ Respond(k, reqHeader[k], Handle[<<reqHeader[k].method, request[k]>>])
  /\ UNCHANGED <<queue, netVars, faults>>

SendResponseHeader(k) ==
  /\ phase[k] = "sendHeader"
  /\ WriteDown(k, ResponseHeader(reqHeader[k].id, response[k].err, response[k].reply))
  /\ Goes(k, "sendBody")
  /\ UNCHANGED <<queue, reqHeader, request, response, ran, dropped, faults>>

SendResponseBody(k) ==
  /\ phase[k] = "sendBody"
  /\ WriteDown(k, ResponseBody(response[k].reply))
  /\ Finish(k, "recvHeader")
  /\ UNCHANGED <<queue, ran, dropped, faults>>

\* Mutant: ServeProc's loop does not end on a failed read.
GiveUpCallOnly(k) ==
  /\ phase[k] \in {"recvHeader", "recvBody", "sendHeader", "sendBody"}
  /\ Finish(k, "recvHeader")
  /\ UNCHANGED dropped

(* RecvFrame or SendFrame failed.                                          *)
GiveUpCall(k) ==
  \/ /\ phase[k] \in {"recvHeader", "recvBody"}
     /\ Finish(k, "closing")
     /\ UNCHANGED dropped
  \/ /\ phase[k] \in {"sendHeader", "sendBody"}
     /\ SendFails(k, response[k])

ServerIOError(k) ==
  /\ \/ phase[k] \in {"recvHeader", "recvBody"} /\ ReadUpFails(k)
     \/ phase[k] \in {"sendHeader", "sendBody"} /\ WriteDownFails(k)
  /\ GiveUpCall(k)
  /\ UNCHANGED <<queue, ran, netVars, faults>>

ServerInterrupted(k) ==
  /\ UseFault
  /\ GiveUpCall(k)
  /\ UNCHANGED <<queue, ran, netVars>>

\* Mutant: the connection is deleted without Close.
DestroyServerConnOpen(k) ==
  /\ phase[k] = "closing"
  /\ Goes(k, "done")
  /\ UNCHANGED <<queue, reqHeader, request, response, ran, dropped, netVars, faults>>

(* delete self: ~ServerConn closes the connection; the job is over.        *)
DestroyServerConn(k) ==
  /\ phase[k] = "closing"
  /\ CloseSrv(k)
  /\ Goes(k, "done")
  /\ UNCHANGED <<queue, reqHeader, request, response, ran, dropped, faults>>

JobStep(k) ==
  \/ RecvRequestHeader(k) \/ RecvRequestBody(k) \/ CallService(k)
  \/ SendResponseHeader(k) \/ SendResponseBody(k)
  \/ ServerIOError(k) \/ DestroyServerConn(k)

ServerNext ==
  \/ \E k \in Conns : Accept(k) \/ StartJob(k) \/ JobStep(k) \/ ServerInterrupted(k)
  \/ AcceptError
  \/ StartBadJob
=============================================================================
