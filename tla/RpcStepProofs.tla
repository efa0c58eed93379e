---------------------------- MODULE RpcStepProofs ---------------------------
(***************************************************************************)
(* What every step of the system preserves: the types of its variables,    *)
(* and the way of a request, from issued to ran.                           *)
(***************************************************************************)
EXTENDS RpcInvariant, SequenceTheorems, TLAPS

(* Sequences.                                                              *)

\* What Head and Tail of a sequence that is not empty are.
LEMMA TailFacts ==
  ASSUME NEW S, NEW s \in Seq(S), s # <<>>
  PROVE  /\ Head(s) \in S /\ Tail(s) \in Seq(S)
         /\ 1 \in DOMAIN s /\ Head(s) = s[1]
         /\ \A i \in DOMAIN Tail(s) :
              i \in Nat \ {0} /\ i + 1 \in DOMAIN s /\ Tail(s)[i] = s[i + 1]
  BY HeadTailProperties, LenProperties, EmptySeq

\* What Append leaves in place, and where the new element is.
LEMMA AppendFacts ==
  ASSUME NEW S, NEW s \in Seq(S), NEW e \in S
  PROVE  /\ Append(s, e) \in Seq(S)
         /\ \A i \in DOMAIN Append(s, e) :
              \/ i \in DOMAIN s /\ Append(s, e)[i] = s[i]
              \/ Append(s, e)[i] = e /\ i \notin DOMAIN s /\ (\A j \in DOMAIN s : j < i)
         /\ \A i \in DOMAIN s : i \in DOMAIN Append(s, e) /\ Append(s, e)[i] = s[i]
         /\ \E i \in DOMAIN Append(s, e) : Append(s, e)[i] = e
<1> DEFINE t == Append(s, e)
<1>1. /\ t \in Seq(S) /\ Len(t) = Len(s) + 1 /\ t[Len(s) + 1] = e
      /\ \A i \in 1..Len(s) : t[i] = s[i]
  BY AppendProperties
<1>2. Len(s) \in Nat /\ DOMAIN s = 1..Len(s) /\ DOMAIN t = 1..Len(t)
  BY <1>1, LenProperties
<1> HIDE DEF t
<1>3. /\ \A i \in DOMAIN t : \/ i \in DOMAIN s /\ t[i] = s[i]
                             \/ t[i] = e /\ i \notin DOMAIN s /\ (\A j \in DOMAIN s : j < i)
      /\ \A i \in DOMAIN s : i \in DOMAIN t /\ t[i] = s[i]
      /\ Len(s) + 1 \in DOMAIN t
  BY <1>1, <1>2
<1> QED BY <1>1, <1>3 DEF t

\* Every variable starts with its type.
LEMMA TypeInit == Init => TypeOK
  BY WireAssumption, TransportAssumption, ClientAssumption, ServerAssumption
  DEF Init, TypeOK, NetInit, ClientInit, ServerInit, NetTypeOK, ClientTypeOK, ServerTypeOK,
      NoCall, EmptyHeader, Unset, RequestHeader, RequestHeaders, Calls

-----------------------------------------------------------------------------
(* What the operators on frames return.                                    *)

\* A header SendRequest builds from a call is a frame to the server.
LEMMA RequestHeaderType ==
  \A i \in Nat, m \in Method, b \in Body : RequestHeader(i, m, b) \in UpFrames
  BY DEF RequestHeader, UpFrames, RequestHeaders

\* So is the request's body.
LEMMA RequestBodyType == \A b \in Body : RequestBody(b) \in UpFrames
  BY DEF RequestBody, UpFrames, RequestBodies

\* A header SendResponse builds is a frame to the client.
LEMMA ResponseHeaderType ==
  \A i \in Nat, e \in ErrText \cup {NotFound}, r \in Reply :
    ResponseHeader(i, e, r) \in DownFrames
  BY DEF ResponseHeader, DownFrames, ResponseHeaders

\* So is the response's body.
LEMMA ResponseBodyType == \A r \in Reply : ResponseBody(r) \in DownFrames
  BY DEF ResponseBody, DownFrames, ResponseBodies

\* What parses as a request header is one, and a header with a checksum of
\* its own is the very frame that was read.
LEMMA ParseRequestType ==
  \A f \in UpFrames : ParseRequestHeader(f) # Malformed =>
    /\ ParseRequestHeader(f) \in RequestHeaders
    /\ ParseRequestHeader(f).checksum # NoSum => ParseRequestHeader(f) = f
  BY WireAssumption DEF ParseRequestHeader, UpFrames, RequestHeaders, RequestBodies

\* The same for response headers.
LEMMA ParseResponseType ==
  \A f \in DownFrames : ParseResponseHeader(f) # Malformed =>
    /\ ParseResponseHeader(f) \in ResponseHeaders
    /\ ParseResponseHeader(f).checksum # NoSum => ParseResponseHeader(f) = f
  BY WireAssumption DEF ParseResponseHeader, DownFrames, ResponseHeaders, ResponseBodies

\* A frame whose checksum is that of a body has that body for its payload.
LEMMA RequestPayloadType ==
  \A f \in UpFrames :
    /\ RequestPayload(f) \in Body
    /\ Checksum(f) \in Body \cup {NoSum} => RequestPayload(f) = Checksum(f)
    /\ Checksum(f) # NoSum
  BY WireAssumption DEF RequestPayload, Checksum, UpFrames, RequestHeaders, RequestBodies

\* The same for replies.
LEMMA ReplyPayloadType ==
  \A f \in DownFrames :
    /\ ReplyPayload(f) \in Reply
    /\ Checksum(f) \in Reply \cup {NoSum} => ReplyPayload(f) = Checksum(f)
    /\ Checksum(f) # NoSum
  BY WireAssumption DEF ReplyPayload, Checksum, DownFrames, ResponseHeaders, ResponseBodies

-----------------------------------------------------------------------------
(* Type correctness.  The network's part: each operation on a connection   *)
(* keeps its types when it is given a frame of the right direction.        *)

NetTypes ==
  /\ backlog \in Seq(Conns)
  /\ cliEnd \in [Conns -> {"unused", "open", "closed"}]
  /\ srvEnd \in [Conns -> {"unused", "open", "closed"}]
  /\ up \in [Conns -> Seq(UpFrames)]
  /\ down \in [Conns -> Seq(DownFrames)]
  /\ reset \in [Conns -> BOOLEAN]

\* Every operation on a connection keeps the network's types.
LEMMA NetStepTypes ==
  ASSUME NetTypes, NEW k \in Conns
  PROVE  /\ (Dial(k) \/ AcceptHead(k) \/ ReadUp(k) \/ ReadDown(k)) => NetTypes'
         /\ (CloseCli(k) \/ CloseSrv(k)) => NetTypes'
         /\ \A f \in UpFrames : WriteUp(k, f) => NetTypes'
         /\ \A f \in DownFrames : WriteDown(k, f) => NetTypes'
         /\ UNCHANGED netVars => NetTypes'
<1>0. up[k] \in Seq(UpFrames) /\ down[k] \in Seq(DownFrames) /\ backlog \in Seq(Conns)
  BY DEF NetTypes
<1> <<>> \in Seq(UpFrames) /\ <<>> \in Seq(DownFrames)
  BY EmptySeq
<1>a. Abort(k) => /\ up' \in [Conns -> Seq(UpFrames)]
                  /\ down' \in [Conns -> Seq(DownFrames)]
                  /\ reset' \in [Conns -> BOOLEAN]
  BY DEF NetTypes, Abort
<1>1. Dial(k) => NetTypes'
  BY <1>0, AppendFacts DEF NetTypes, Dial
<1>2. AcceptHead(k) => NetTypes'
  <2>1. backlog # <<>> => Tail(backlog) \in Seq(Conns)
    BY <1>0, TailFacts
  <2> QED BY <2>1 DEF NetTypes, AcceptHead
<1>3. ReadUp(k) => NetTypes'
  <2>1. up[k] # <<>> => Tail(up[k]) \in Seq(UpFrames)
    BY <1>0, TailFacts
  <2> QED BY <2>1 DEF NetTypes, ReadUp
<1>4. ReadDown(k) => NetTypes'
  <2>1. down[k] # <<>> => Tail(down[k]) \in Seq(DownFrames)
    BY <1>0, TailFacts
  <2> QED BY <2>1 DEF NetTypes, ReadDown
<1>5. CloseCli(k) \/ CloseSrv(k) => NetTypes'
  <2>1. CloseCli(k) => NetTypes'
    BY <1>a DEF NetTypes, CloseCli
  <2>2. CloseSrv(k) => NetTypes'
    BY <1>a DEF NetTypes, CloseSrv
  <2> QED BY <2>1, <2>2
<1>6. ASSUME NEW f \in UpFrames, WriteUp(k, f) PROVE NetTypes'
  <2>1. Append(up[k], f) \in Seq(UpFrames)
    BY <1>0, AppendFacts
  <2> QED BY <1>6, <2>1 DEF NetTypes, WriteUp, Abort
<1>7. ASSUME NEW f \in DownFrames, WriteDown(k, f) PROVE NetTypes'
  <2>1. Append(down[k], f) \in Seq(DownFrames)
    BY <1>0, AppendFacts
  <2> QED BY <1>7, <2>1 DEF NetTypes, WriteDown, Abort
<1>8. UNCHANGED netVars => NetTypes'
  BY DEF NetTypes, netVars
<1> QED BY <1>1, <1>2, <1>3, <1>4, <1>5, <1>6, <1>7, <1>8

\* The number of faults stays within its bound.
LEMMA FaultType ==
  ASSUME faults \in 0..MaxFaults PROVE UseFault \/ UNCHANGED faults => faults' \in 0..MaxFaults
  BY TransportAssumption DEF UseFault

\* A client in a call has a connection, and a call with a natural id on it.
LEMMA CallInNat ==
  ASSUME TypeOK, OwnConn, NEW c \in Client, InCall(c)
  PROVE  /\ sock[c] \in Conns /\ call[c] \in Calls
         /\ call[c].conn = sock[c] /\ call[c].id \in Nat
         /\ call[c].method \in Method /\ call[c].body \in Body
  BY TransportAssumption DEF TypeOK, ClientTypeOK, OwnConn, Calls, NoCall

\* Returning from CallMethod keeps the client's types.
LEMMA ReturnTypes ==
  ASSUME ClientTypeOK, NEW c \in Client, NEW e \in Errors, NEW r \in Reply, Return(c, e, r)
  PROVE  ClientTypeOK'
  BY DEF ClientTypeOK, Return, Goto

\* Every step of a client keeps the types of network and clients.
LEMMA ClientTypeStep ==
  ASSUME IInv, NEW c \in Client, ClientNext(c)
  PROVE  NetTypes' /\ faults' \in 0..MaxFaults /\ ClientTypeOK'
<1> USE DEF IInv
<1>0. NetTypes /\ ClientTypeOK /\ faults \in 0..MaxFaults
  BY DEF TypeOK, NetTypeOK, NetTypes
<1>a. LocalErr \in Errors /\ NoReply \in Reply /\ NoErr \in Errors
  BY WireAssumption DEF Errors
<1>1. CASE CallFailsEarly(c)
  <2>1. Return(c, LocalErr, NoReply) /\ UNCHANGED netVars /\ UNCHANGED faults
    BY <1>1 DEF CallFailsEarly
  <2>2. ClientTypeOK'
    BY <2>1, <1>0, <1>a, ReturnTypes
  <2>3. NetTypes'
    BY <2>1, <1>0 DEF NetTypes, netVars
  <2> QED BY <2>1, <2>2, <2>3, <1>0
<1>2. ASSUME NEW m \in Method, NEW b \in Body, BeginCall(c, m, b)
      PROVE  NetTypes' /\ faults' \in 0..MaxFaults /\ ClientTypeOK'
  <2> PICK k \in Conns :
        LET x == [conn |-> k, id |-> seq[c], method |-> m, body |-> b] IN
        /\ Connected(c, k)
        /\ sock' = [sock EXCEPT ![c] = k]
        /\ call' = [call EXCEPT ![c] = x]
        /\ \/ /\ HeaderFits(RequestHeaderLen(m))
              /\ issued' = [issued EXCEPT ![k] = @ \cup {x}]
              /\ outcome' = [outcome EXCEPT ![c] = None]
              /\ Goto(c, "sendHeader")
           \/ /\ ~HeaderFits(RequestHeaderLen(m))
              /\ outcome' = [outcome EXCEPT ![c] = [err |-> LocalErr, reply |-> NoReply]]
              /\ UNCHANGED <<pc, issued>>
    BY <1>2 DEF BeginCall
  <2>1. NetTypes' /\ faults' \in 0..MaxFaults
    BY <1>0, <1>2, NetStepTypes DEF Connected, BeginCall
  <2>2. [conn |-> k, id |-> seq[c], method |-> m, body |-> b] \in Calls
    BY <1>0, ClientAssumption DEF ClientTypeOK, Calls
  <2>3. seq' \in [Client -> 0..MaxCalls] /\ respHeader' = respHeader
    BY <1>0, <1>2, ClientAssumption DEF BeginCall, NextId, ClientTypeOK
  <2>4. ClientTypeOK'
    BY <1>0, <1>a, <2>2, <2>3 DEF ClientTypeOK, Goto, IOStates
  <2> QED BY <2>1, <2>4
<1>3. CASE SendRequestHeader(c)
  <2>1. InCall(c)
    BY <1>3 DEF InCall, SendRequestHeader, IOStates
  <2>2. RequestHeader(call[c].id, call[c].method, call[c].body) \in UpFrames
    BY <2>1, CallInNat, RequestHeaderType
  <2>3. NetTypes'
    BY <1>0, <1>3, <2>1, <2>2, CallInNat, NetStepTypes DEF SendRequestHeader
  <2> QED BY <1>0, <1>3, <2>3 DEF SendRequestHeader, ClientTypeOK, Goto, IOStates
<1>4. CASE SendRequestBody(c)
  <2>1. InCall(c)
    BY <1>4 DEF InCall, SendRequestBody, IOStates
  <2>2. RequestBody(call[c].body) \in UpFrames
    BY <2>1, CallInNat, RequestBodyType
  <2>3. NetTypes'
    BY <1>0, <1>4, <2>1, <2>2, CallInNat, NetStepTypes DEF SendRequestBody
  <2> QED BY <1>0, <1>4, <2>3 DEF SendRequestBody, ClientTypeOK, Goto, IOStates
<1>5. CASE RecvResponseHeader(c)
  <2> DEFINE h == ParseResponseHeader(Head(down[sock[c]]))
  <2>1. InCall(c) /\ ReadDown(sock[c])
    BY <1>5 DEF InCall, RecvResponseHeader, IOStates
  <2>2. NetTypes' /\ faults' \in 0..MaxFaults
    BY <1>0, <1>5, <2>1, CallInNat, NetStepTypes DEF RecvResponseHeader
  <2>3. down[sock[c]] \in Seq(DownFrames) /\ down[sock[c]] # <<>>
    BY <1>0, <2>1, CallInNat DEF NetTypes, ReadDown
  <2>4. Head(down[sock[c]]) \in DownFrames
    BY <2>3, TailFacts
  <2>5. h # Malformed => h \in ResponseHeaders
    BY <2>4, ParseResponseType
  <2>6. \/ h = Malformed /\ Return(c, LocalErr, NoReply)
        \/ /\ h # Malformed
           /\ respHeader' = [respHeader EXCEPT ![c] = h]
           /\ Goto(c, "recvBody")
           /\ UNCHANGED <<sock, seq, call, outcome, issued>>
    BY <1>5 DEF RecvResponseHeader
  <2> HIDE DEF h
  <2>7. ClientTypeOK'
    BY <1>0, <1>a, <2>5, <2>6, ReturnTypes DEF ClientTypeOK, Goto, IOStates
  <2> QED BY <2>2, <2>7
<1>6. CASE RecvResponseBody(c)
  <2> DEFINE f == Head(down[sock[c]])
             e == Verdict(respHeader[c], f, call[c])
             r == IF e = NoErr THEN ReplyPayload(f) ELSE NoReply
  <2>1. InCall(c) /\ ReadDown(sock[c]) /\ Return(c, e, r)
    BY <1>6 DEF InCall, RecvResponseBody, IOStates
  <2>2. NetTypes' /\ faults' \in 0..MaxFaults
    BY <1>0, <1>6, <2>1, CallInNat, NetStepTypes DEF RecvResponseBody
  <2>3. down[sock[c]] \in Seq(DownFrames) /\ down[sock[c]] # <<>>
    BY <1>0, <2>1, CallInNat DEF NetTypes, ReadDown
  <2>4. f \in DownFrames
    BY <2>3, TailFacts
  <2>5. respHeader[c] \in ResponseHeaders
    BY <1>0, <1>6 DEF AnswersRan, RecvResponseBody, ClientTypeOK
  <2>6. e \in Errors /\ r \in Reply
    BY <1>a, <2>4, <2>5, ReplyPayloadType DEF Verdict, ResponseHeaders, Errors
  <2> HIDE DEF e, r
  <2> QED BY <1>0, <2>1, <2>2, <2>6, ReturnTypes
<1>7. CASE ClientIOError(c) \/ ClientInterrupted(c)
  <2>1. Return(c, LocalErr, NoReply) /\ UNCHANGED netVars /\ (UseFault \/ UNCHANGED faults)
    BY <1>7 DEF ClientIOError, ClientInterrupted
  <2>2. ClientTypeOK'
    BY <2>1, <1>0, <1>a, ReturnTypes
  <2>3. NetTypes' /\ faults' \in 0..MaxFaults
    BY <2>1, <1>0, FaultType DEF NetTypes, netVars
  <2> QED BY <2>2, <2>3
<1>8. ASSUME NEW l \in {"idle", "destroyed"}, GiveUpConn(c, l)
      PROVE  NetTypes' /\ faults' \in 0..MaxFaults /\ ClientTypeOK'
  <2>1. sock[c] \in Conns \cup {NoConn}
    BY <1>0 DEF ClientTypeOK
  <2>2. NetTypes'
    <3>1. CASE sock[c] = NoConn
      BY <1>0, <1>8, <3>1 DEF GiveUpConn, NetTypes, netVars
    <3>2. CASE sock[c] # NoConn
      BY <1>0, <1>8, <2>1, <3>2, NetStepTypes DEF GiveUpConn
    <3> QED BY <3>1, <3>2
  <2>3. ClientTypeOK'
    BY <1>0, <1>8 DEF GiveUpConn, ClientTypeOK, Goto
  <2> QED BY <1>0, <1>8, <2>2, <2>3 DEF GiveUpConn
<1> QED
  BY <1>0, <1>1, <1>2, <1>3, <1>4, <1>5, <1>6, <1>7, <1>8
  DEF ClientNext, CallStep, CloseClient, DestroyClient

\* The initial values of ProcessOneCall's locals have their types.
LEMMA EmptyHeaderType ==
  EmptyHeader \in RequestHeaders /\ Unset \in [err : ErrText \cup {NotFound}, reply : Reply]
  BY WireAssumption DEF EmptyHeader, RequestHeader, RequestHeaders, Unset

\* Leaving ProcessOneCall keeps the server's types.
LEMMA FinishTypes ==
  ASSUME ServerTypeOK, NEW k \in Conns, NEW l \in {"recvHeader", "closing"}, Finish(k, l),
         UNCHANGED <<queue, ran>>, dropped' \in [Conns -> BOOLEAN]
  PROVE  ServerTypeOK'
  BY EmptyHeaderType, WireAssumption DEF ServerTypeOK, Finish, Goes

\* So does a failed SendResponse,
LEMMA SendFailsTypes ==
  ASSUME ServerTypeOK, NEW k \in Conns, NEW res, SendFails(k, res)
  PROVE  /\ phase' \in [Conns -> {"none", "recvHeader", "recvBody", "call",
                           "sendHeader", "sendBody", "closing", "done"}]
         /\ reqHeader' \in [Conns -> RequestHeaders]
         /\ request' \in [Conns -> Body]
         /\ response' \in [Conns -> [err : ErrText \cup {NotFound}, reply : Reply]]
         /\ dropped' \in [Conns -> BOOLEAN]
<1>1. PICK l \in {"recvHeader", "closing"} : Finish(k, l)
  BY DEF SendFails
<1>2. dropped' \in [Conns -> BOOLEAN]
  BY DEF SendFails, ServerTypeOK
<1> QED BY <1>1, <1>2, EmptyHeaderType, WireAssumption DEF ServerTypeOK, Finish, Goes

\* and the beginning of one.
LEMMA RespondTypes ==
  ASSUME ServerTypeOK, NEW k \in Conns, NEW h \in RequestHeaders,
         NEW res \in [err : ErrText \cup {NotFound}, reply : Reply], Respond(k, h, res)
  PROVE  /\ phase' \in [Conns -> {"none", "recvHeader", "recvBody", "call",
                           "sendHeader", "sendBody", "closing", "done"}]
         /\ reqHeader' \in [Conns -> RequestHeaders]
         /\ request' \in [Conns -> Body]
         /\ response' \in [Conns -> [err : ErrText \cup {NotFound}, reply : Reply]]
         /\ dropped' \in [Conns -> BOOLEAN]
<1>1. CASE SendFails(k, res)
  BY <1>1, SendFailsTypes
<1>2. CASE ~SendFails(k, res)
  <2>1. /\ Goes(k, "sendHeader")
        /\ reqHeader' = [reqHeader EXCEPT ![k] = h]
        /\ response' = [response EXCEPT ![k] = res]
        /\ UNCHANGED <<request, dropped>>
    BY <1>2 DEF Respond
  <2> QED BY <2>1 DEF ServerTypeOK, Goes
<1> QED BY <1>1, <1>2

\* Every step of the server keeps the types of network and server.
LEMMA ServerTypeStep ==
  ASSUME IInv, ServerNext
  PROVE  NetTypes' /\ faults' \in 0..MaxFaults /\ ServerTypeOK'
<1> USE DEF IInv
<1>0. NetTypes /\ ServerTypeOK /\ faults \in 0..MaxFaults
  BY DEF TypeOK, NetTypeOK, NetTypes
<1>1. ASSUME NEW k \in Conns, Accept(k)
      PROVE  NetTypes' /\ faults' \in 0..MaxFaults /\ ServerTypeOK'
  <2>1. NetTypes'
    BY <1>0, <1>1, NetStepTypes DEF Accept
  <2>2. queue \in Seq(Conns \cup {BadConn}) /\ k \in Conns \cup {BadConn}
    BY <1>0 DEF ServerTypeOK
  <2>3. Append(queue, k) \in Seq(Conns \cup {BadConn})
    BY <2>2, AppendFacts
  <2> QED BY <1>0, <1>1, <2>1, <2>3 DEF Accept, ServerTypeOK
<1>2. CASE AcceptError
  <2>1. queue \in Seq(Conns \cup {BadConn}) /\ BadConn \in Conns \cup {BadConn}
    BY <1>0 DEF ServerTypeOK
  <2>2. Append(queue, BadConn) \in Seq(Conns \cup {BadConn})
    BY <2>1, AppendFacts
  <2>3. NetTypes' /\ faults' \in 0..MaxFaults
    BY <1>0, <1>2, FaultType DEF AcceptError, NetTypes, netVars
  <2> QED BY <1>0, <1>2, <2>2, <2>3 DEF AcceptError, ServerTypeOK
<1>3. ASSUME NEW k \in Conns, StartJob(k) \/ StartBadJob
      PROVE  NetTypes' /\ faults' \in 0..MaxFaults /\ ServerTypeOK'
  <2>1. queue \in Seq(Conns \cup {BadConn}) /\ queue # <<>>
    BY <1>0, <1>3 DEF ServerTypeOK, StartJob, StartBadJob
  <2>2. Tail(queue) \in Seq(Conns \cup {BadConn})
    BY <2>1, TailFacts
  <2>3. NetTypes'
    BY <1>0, <1>3 DEF StartJob, StartBadJob, NetTypes, netVars
  <2> QED BY <1>0, <1>3, <2>2, <2>3 DEF StartJob, StartBadJob, ServerTypeOK, Goes
<1>4. ASSUME NEW k \in Conns, RecvRequestHeader(k)
      PROVE  NetTypes' /\ faults' \in 0..MaxFaults /\ ServerTypeOK'
  <2> DEFINE h == ParseRequestHeader(Head(up[k]))
  <2>1. ReadUp(k) /\ UNCHANGED <<queue, ran, faults>>
    BY <1>4 DEF RecvRequestHeader
  <2>2. NetTypes'
    BY <1>0, <2>1, NetStepTypes
  <2>3. up[k] \in Seq(UpFrames) /\ up[k] # <<>>
    BY <1>0, <2>1 DEF NetTypes, ReadUp
  <2>4. h # Malformed => h \in RequestHeaders
    BY <2>3, TailFacts, ParseRequestType
  <2>5. \/ Finish(k, "closing") /\ UNCHANGED dropped
        \/ /\ h # Malformed
           /\ Goes(k, "recvBody")
           /\ reqHeader' = [reqHeader EXCEPT ![k] = h]
           /\ UNCHANGED <<request, response, dropped>>
        \/ h # Malformed /\ Respond(k, h, [err |-> NotFound, reply |-> NoReply])
    BY <1>4 DEF RecvRequestHeader
  <2> HIDE DEF h
  <2>6. CASE Finish(k, "closing") /\ UNCHANGED dropped
    <3>1. dropped' \in [Conns -> BOOLEAN]
      BY <1>0, <2>6 DEF ServerTypeOK
    <3>2. ServerTypeOK'
      BY <1>0, <2>1, <2>6, <3>1, FinishTypes
    <3> QED BY <1>0, <2>1, <2>2, <3>2
  <2>7. CASE h # Malformed /\ Respond(k, h, [err |-> NotFound, reply |-> NoReply])
    <3>1. [err |-> NotFound, reply |-> NoReply] \in [err : ErrText \cup {NotFound}, reply : Reply]
      BY WireAssumption
    <3> QED BY <1>0, <2>1, <2>2, <2>4, <2>7, <3>1, RespondTypes DEF ServerTypeOK
  <2>8. CASE /\ h # Malformed
             /\ Goes(k, "recvBody")
             /\ reqHeader' = [reqHeader EXCEPT ![k] = h]
             /\ UNCHANGED <<request, response, dropped>>
    BY <1>0, <2>1, <2>2, <2>4, <2>8 DEF ServerTypeOK, Goes
  <2> QED BY <2>5, <2>6, <2>7, <2>8
<1>5. ASSUME NEW k \in Conns, RecvRequestBody(k)
      PROVE  NetTypes' /\ faults' \in 0..MaxFaults /\ ServerTypeOK'
  <2> DEFINE f == Head(up[k])
  <2>1. ReadUp(k) /\ UNCHANGED <<queue, ran, dropped, faults>>
    BY <1>5 DEF RecvRequestBody
  <2>2. NetTypes'
    BY <1>0, <2>1, NetStepTypes
  <2>3. up[k] \in Seq(UpFrames) /\ up[k] # <<>>
    BY <1>0, <2>1 DEF NetTypes, ReadUp
  <2>4. RequestPayload(f) \in Body
    BY <2>3, TailFacts, RequestPayloadType
  <2>5. \/ /\ request' = [request EXCEPT ![k] = RequestPayload(f)]
           /\ Goes(k, "call") /\ UNCHANGED <<reqHeader, response>>
        \/ Finish(k, "closing")
    BY <1>5 DEF RecvRequestBody
  <2> HIDE DEF f
  <2>6. dropped' \in [Conns -> BOOLEAN]
    BY <1>0, <2>1 DEF ServerTypeOK
  <2>7. ServerTypeOK'
    BY <1>0, <2>1, <2>4, <2>5, <2>6, FinishTypes DEF ServerTypeOK, Goes
  <2> QED BY <1>0, <2>1, <2>2, <2>7
<1>6. ASSUME NEW k \in Conns, CallService(k)
      PROVE  NetTypes' /\ faults' \in 0..MaxFaults /\ ServerTypeOK'
  <2> DEFINE x == [id |-> reqHeader[k].id, method |-> reqHeader[k].method, body |-> request[k]]
             res == Handle[<<reqHeader[k].method, request[k]>>]
  <2>1. ran' = [ran EXCEPT ![k] = Append(@, x)] /\ Respond(k, reqHeader[k], res)
    BY <1>6 DEF CallService
  <2>2. reqHeader[k] \in RequestHeaders /\ request[k] \in Body
    BY <1>0 DEF ServerTypeOK
  <2>3. reqHeader[k].method \in Registered
    BY <1>6 DEF RequestsIssued, CallService
  <2>4. x \in [id : Nat, method : Method, body : Body]
    BY <2>2 DEF RequestHeaders
  <2>5. res \in [err : ErrText \cup {NotFound}, reply : Reply]
    BY <2>2, <2>3, ServerAssumption
  <2>6. ran[k] \in Seq([id : Nat, method : Method, body : Body])
    BY <1>0 DEF ServerTypeOK
  <2> HIDE DEF x, res
  <2>7. Append(ran[k], x) \in Seq([id : Nat, method : Method, body : Body])
    BY <2>4, <2>6, AppendFacts
  <2>8. ran' \in [Conns -> Seq([id : Nat, method : Method, body : Body])]
    BY <1>0, <2>1, <2>7 DEF ServerTypeOK
  <2>9. ServerTypeOK'
    BY <1>0, <1>6, <2>1, <2>2, <2>5, <2>8, RespondTypes DEF ServerTypeOK, CallService
  <2> QED BY <1>0, <1>6, <2>9 DEF CallService, NetTypes, netVars
<1>7. ASSUME NEW k \in Conns, SendResponseHeader(k)
      PROVE  NetTypes' /\ faults' \in 0..MaxFaults /\ ServerTypeOK'
  <2>1. ResponseHeader(reqHeader[k].id, response[k].err, response[k].reply) \in DownFrames
    BY <1>0, ResponseHeaderType DEF ServerTypeOK, RequestHeaders
  <2>2. NetTypes'
    BY <1>0, <1>7, <2>1, NetStepTypes DEF SendResponseHeader
  <2> QED BY <1>0, <1>7, <2>2 DEF SendResponseHeader, ServerTypeOK, Goes
<1>8. ASSUME NEW k \in Conns, SendResponseBody(k)
      PROVE  NetTypes' /\ faults' \in 0..MaxFaults /\ ServerTypeOK'
  <2>1. ResponseBody(response[k].reply) \in DownFrames
    BY <1>0, ResponseBodyType DEF ServerTypeOK
  <2>2. NetTypes'
    BY <1>0, <1>8, <2>1, NetStepTypes DEF SendResponseBody
  <2>3. ServerTypeOK'
    BY <1>0, <1>8, FinishTypes DEF SendResponseBody, ServerTypeOK
  <2> QED BY <1>0, <1>8, <2>2, <2>3 DEF SendResponseBody
<1>9. ASSUME NEW k \in Conns, ServerIOError(k) \/ ServerInterrupted(k)
      PROVE  NetTypes' /\ faults' \in 0..MaxFaults /\ ServerTypeOK'
  <2>1. GiveUpCall(k) /\ UNCHANGED <<queue, ran, netVars>> /\ (UseFault \/ UNCHANGED faults)
    BY <1>9 DEF ServerIOError, ServerInterrupted
  <2>2. NetTypes' /\ faults' \in 0..MaxFaults
    BY <1>0, <2>1, FaultType DEF NetTypes, netVars
  <2>3. CASE Finish(k, "closing") /\ UNCHANGED dropped
    <3>1. dropped' \in [Conns -> BOOLEAN]
      BY <1>0, <2>3 DEF ServerTypeOK
    <3>2. ServerTypeOK'
      BY <1>0, <2>1, <2>3, <3>1, FinishTypes
    <3> QED BY <2>2, <3>2
  <2>4. CASE SendFails(k, response[k])
    BY <1>0, <2>1, <2>2, <2>4, SendFailsTypes DEF ServerTypeOK
  <2> QED BY <2>1, <2>3, <2>4 DEF GiveUpCall
<1>10. ASSUME NEW k \in Conns, DestroyServerConn(k)
      PROVE  NetTypes' /\ faults' \in 0..MaxFaults /\ ServerTypeOK'
  <2>1. NetTypes'
    BY <1>0, <1>10, NetStepTypes DEF DestroyServerConn
  <2> QED BY <1>0, <1>10, <2>1 DEF DestroyServerConn, ServerTypeOK, Goes
<1>11. CASE StartBadJob
  <2>1. queue \in Seq(Conns \cup {BadConn}) /\ queue # <<>>
    BY <1>0, <1>11 DEF ServerTypeOK, StartBadJob
  <2>2. Tail(queue) \in Seq(Conns \cup {BadConn})
    BY <2>1, TailFacts
  <2>3. NetTypes'
    BY <1>0, <1>11 DEF StartBadJob, NetTypes, netVars
  <2> QED BY <1>0, <1>11, <2>2, <2>3 DEF StartBadJob, ServerTypeOK
<1> QED
  BY <1>1, <1>2, <1>3, <1>4, <1>5, <1>6, <1>7, <1>8, <1>9, <1>10, <1>11
  DEF ServerNext, JobStep

\* Every step of the system keeps all types.
LEMMA TypeStep == IInv /\ [Next]_vars => TypeOK'
<1> SUFFICES ASSUME IInv, [Next]_vars PROVE TypeOK'
  OBVIOUS
<1>0. NetTypes /\ ClientTypeOK /\ ServerTypeOK /\ faults \in 0..MaxFaults
  BY DEF IInv, TypeOK, NetTypeOK, NetTypes
<1>1. ASSUME NEW c \in Client, ClientNext(c), UNCHANGED serverVars PROVE TypeOK'
  <2>1. NetTypes' /\ faults' \in 0..MaxFaults /\ ClientTypeOK'
    BY <1>1, ClientTypeStep
  <2>2. ServerTypeOK'
    BY <1>0, <1>1 DEF ServerTypeOK, serverVars
  <2> QED BY <2>1, <2>2 DEF TypeOK, NetTypeOK, NetTypes
<1>2. CASE ServerNext /\ UNCHANGED clientVars
  <2>1. NetTypes' /\ faults' \in 0..MaxFaults /\ ServerTypeOK'
    BY <1>2, ServerTypeStep
  <2>2. ClientTypeOK'
    BY <1>0, <1>2 DEF ClientTypeOK, clientVars
  <2> QED BY <2>1, <2>2 DEF TypeOK, NetTypeOK, NetTypes
<1>3. CASE Network
  <2>1. PICK k \in Conns : Break(k) /\ UNCHANGED <<clientVars, serverVars>>
    BY <1>3 DEF Network
  <2>2. NetTypes' /\ faults' \in 0..MaxFaults
    <3> <<>> \in Seq(UpFrames) /\ <<>> \in Seq(DownFrames)
      BY EmptySeq
    <3> QED BY <1>0, <2>1, FaultType DEF Break, Abort, NetTypes
  <2>3. ClientTypeOK' /\ ServerTypeOK'
    BY <1>0, <2>1 DEF ClientTypeOK, clientVars, ServerTypeOK, serverVars
  <2> QED BY <2>2, <2>3 DEF TypeOK, NetTypeOK, NetTypes
<1>4. CASE UNCHANGED vars
  BY <1>0, <1>4 DEF vars, netVars, clientVars, serverVars, TypeOK, NetTypeOK, NetTypes,
     ClientTypeOK, ServerTypeOK
<1> QED
  BY <1>1, <1>2, <1>3, <1>4 DEF Next, Terminated

-----------------------------------------------------------------------------
(* The way of a request: the links OwnConn, IssuedOnce, RequestsIssued and *)
(* IdsAscend of the invariant, NoPhantomCall and ExecutedInOrder are       *)
(* preserved by every step.  Few steps move a request; the lemmas first    *)
(* say what all the others leave alone.                                    *)

(* What a step of the client, and of everything else, does to the state    *)
(* that names calls and connections.                                       *)

Quiet(c) ==
  /\ UNCHANGED <<sock, seq, call, issued, cliEnd>>
  /\ \E l \in IOStates \cup {"idle", "destroyed"} :
       /\ pc' = [pc EXCEPT ![c] = l]
       /\ l \in IOStates => pc[c] \in IOStates /\ l # "sendHeader"

\* Returning from CallMethod is quiet.
LEMMA ReturnQuiet ==
  ASSUME NEW c \in Client, NEW e, NEW r, Return(c, e, r), UNCHANGED cliEnd
  PROVE  Quiet(c)
  BY DEF Return, Goto, Quiet, IOStates

\* A step of a client is quiet, begins a call or gives the connection up.
LEMMA ClientEffect ==
  ASSUME NEW c \in Client, ClientNext(c)
  PROVE  \/ Quiet(c)
         \/ \E m \in Method, b \in Body : BeginCall(c, m, b)
         \/ \E l \in {"idle", "destroyed"} : GiveUpConn(c, l)
<1>1. CASE CallFailsEarly(c) \/ ClientIOError(c) \/ ClientInterrupted(c)
  BY <1>1, ReturnQuiet DEF CallFailsEarly, ClientIOError, ClientInterrupted, netVars
<1>2. CASE SendRequestHeader(c)
  BY <1>2 DEF SendRequestHeader, WriteUp, Goto, Quiet, IOStates
<1>3. CASE SendRequestBody(c)
  BY <1>3 DEF SendRequestBody, WriteUp, Goto, Quiet, IOStates
<1>4. CASE RecvResponseHeader(c)
  <2> DEFINE h == ParseResponseHeader(Head(down[sock[c]]))
  <2>1. /\ pc[c] = "recvHeader" /\ UNCHANGED cliEnd
        /\ \/ Return(c, LocalErr, NoReply)
           \/ Goto(c, "recvBody") /\ UNCHANGED <<sock, seq, call, outcome, issued>>
    BY <1>4 DEF RecvResponseHeader, ReadDown
  <2>2. CASE Return(c, LocalErr, NoReply)
    BY <2>1, <2>2, ReturnQuiet
  <2>3. CASE Goto(c, "recvBody") /\ UNCHANGED <<sock, seq, call, outcome, issued>>
    BY <2>1, <2>3 DEF Goto, Quiet, IOStates
  <2> QED BY <2>1, <2>2, <2>3
<1>5. CASE RecvResponseBody(c)
  <2>1. UNCHANGED cliEnd /\ \E e, r : Return(c, e, r)
    BY <1>5 DEF RecvResponseBody, ReadDown
  <2> QED BY <2>1, ReturnQuiet
<1> QED
  BY <1>1, <1>2, <1>3, <1>4, <1>5 DEF ClientNext, CallStep, CloseClient, DestroyClient

\* Nothing but a client changes a client's end of a connection.
LEMMA ServerQuiet ==
  ASSUME (ServerNext /\ UNCHANGED clientVars) \/ Network \/ UNCHANGED vars
  PROVE  UNCHANGED cliEnd /\ UNCHANGED clientVars
<1>1. ASSUME NEW k \in Conns, JobStep(k) \/ Accept(k) \/ StartJob(k) \/ ServerInterrupted(k)
      PROVE  UNCHANGED cliEnd
  BY <1>1 DEF JobStep, Accept, AcceptHead, StartJob, ServerInterrupted, RecvRequestHeader, ReadUp,
     RecvRequestBody, CallService, SendResponseHeader, SendResponseBody, WriteDown,
     ServerIOError, DestroyServerConn, CloseSrv, netVars
<1>2. AcceptError \/ StartBadJob => UNCHANGED cliEnd
  BY DEF AcceptError, StartBadJob, netVars
<1> QED BY <1>1, <1>2 DEF ServerNext, Network, Break, vars, netVars

\* The call that BeginCall makes.
NewCall(c, k, m, b) == [conn |-> k, id |-> seq[c], method |-> m, body |-> b]

\* BeginCall has made it on connection k, or refused it for its size.
Begun(c, k, m, b) ==
  /\ Connected(c, k)
  /\ pc[c] = "idle"
  /\ sock' = [sock EXCEPT ![c] = k]
  /\ seq' = [seq EXCEPT ![c] = @ + 1]
  /\ call' = [call EXCEPT ![c] = NewCall(c, k, m, b)]
  /\ UNCHANGED respHeader
  /\ \/ /\ issued' = [issued EXCEPT ![k] = @ \cup {NewCall(c, k, m, b)}]
        /\ outcome' = [outcome EXCEPT ![c] = None]
        /\ pc' = [pc EXCEPT ![c] = "sendHeader"]
     \/ /\ UNCHANGED <<pc, issued>>
        /\ outcome' = [outcome EXCEPT ![c] = [err |-> LocalErr, reply |-> NoReply]]

\* Beginning a call does that.
LEMMA BeginEffect ==
  ASSUME NEW c \in Client, NEW m \in Method, NEW b \in Body, BeginCall(c, m, b)
  PROVE  \E k \in Conns : Begun(c, k, m, b)
  BY DEF BeginCall, NewCall, NextId, Goto, Begun

\* The connection of a new call is the one in use or a fresh one.
LEMMA ConnectedEffect ==
  ASSUME TypeOK, OwnConn, NEW c \in Client, NEW k \in Conns, Connected(c, k)
  PROVE  /\ UNCHANGED <<srvEnd, up, down, reset>>
         /\ cliEnd'[k] = "open"
         /\ \A j \in Conns : j # k => cliEnd'[j] = cliEnd[j]
         /\ sock[c] = k \/ cliEnd[k] = "unused"
  BY DEF Connected, Dial, TypeOK, NetTypeOK, OwnConn, netVars

\* OwnConn is preserved.
LEMMA OwnConnStep == IInv /\ [Next]_vars => OwnConn'
<1> SUFFICES ASSUME IInv, [Next]_vars PROVE OwnConn'
  OBVIOUS
<1>0. TypeOK /\ OwnConn /\ ClientTypeOK /\ cliEnd \in [Conns -> {"unused", "open", "closed"}]
  BY DEF IInv, TypeOK, NetTypeOK
<1>1. ASSUME NEW c \in Client, ClientNext(c) PROVE OwnConn'
  <2>1. CASE Quiet(c)
    BY <1>0, <2>1 DEF OwnConn, Quiet, InCall, ClientTypeOK
  <2>2. ASSUME NEW m \in Method, NEW b \in Body, BeginCall(c, m, b) PROVE OwnConn'
    <3> PICK k \in Conns : Begun(c, k, m, b)
      BY <2>2, BeginEffect
    <3> /\ Connected(c, k)
        /\ sock' = [sock EXCEPT ![c] = k]
        /\ call' = [call EXCEPT ![c] = NewCall(c, k, m, b)]
        /\ pc[c] = "idle"
        /\ pc' = [pc EXCEPT ![c] = "sendHeader"] \/ UNCHANGED pc
      BY DEF Begun
    <3>1. /\ cliEnd'[k] = "open"
          /\ \A j \in Conns : j # k => cliEnd'[j] = cliEnd[j]
          /\ sock[c] = k \/ cliEnd[k] = "unused"
      BY <1>0, ConnectedEffect
    <3>2. \A d \in Client : d # c => sock'[d] = sock[d] /\ sock[d] # k
      BY <1>0, <3>1, TransportAssumption DEF OwnConn, ClientTypeOK
    <3>3. \A d \in Client : sock'[d] # NoConn => cliEnd'[sock'[d]] = "open"
      BY <1>0, <3>1, <3>2 DEF OwnConn, ClientTypeOK
    <3>4. \A d, e \in Client : d # e /\ sock'[d] = sock'[e] => sock'[d] = NoConn
      BY <1>0, <3>2 DEF OwnConn, ClientTypeOK
    <3>5. \A d \in Client : InCall(d)' => sock'[d] # NoConn /\ call'[d].conn = sock'[d]
      <4>1. NewCall(c, k, m, b).conn = k /\ k # NoConn
        BY TransportAssumption DEF NewCall
      <4> QED BY <1>0, <4>1, <3>2 DEF OwnConn, ClientTypeOK, InCall, IOStates
    <3> QED BY <3>3, <3>4, <3>5 DEF OwnConn
  <2>3. ASSUME NEW l \in {"idle", "destroyed"}, GiveUpConn(c, l) PROVE OwnConn'
    <3>1. \A j \in Conns : j # sock[c] => cliEnd'[j] = cliEnd[j]
      BY <1>0, <2>3 DEF GiveUpConn, CloseCli, netVars
    <3>2. /\ pc' = [pc EXCEPT ![c] = l] /\ l \notin IOStates
          /\ sock' = [sock EXCEPT ![c] = NoConn] /\ UNCHANGED call
      BY <2>3 DEF GiveUpConn, Goto, IOStates
    <3> QED BY <1>0, <3>1, <3>2 DEF OwnConn, ClientTypeOK, InCall
  <2> QED BY <1>1, <2>1, <2>2, <2>3, ClientEffect
<1>2. CASE UNCHANGED cliEnd /\ UNCHANGED clientVars
  BY <1>0, <1>2 DEF OwnConn, clientVars, InCall
<1> QED BY <1>1, <1>2, ServerQuiet DEF Next, Terminated

\* The connection and the id of a new call.
LEMMA NewCallFields ==
  ASSUME NEW c, NEW k, NEW m, NEW b
  PROVE  /\ NewCall(c, k, m, b).conn = k
         /\ NewCall(c, k, m, b).id = seq[c]
  BY DEF NewCall

\* IssuedOnce is preserved: a new id is above all others on its connection.
LEMMA IssuedOnceStep == IInv /\ [Next]_vars => IssuedOnce'
<1> SUFFICES ASSUME IInv, [Next]_vars PROVE IssuedOnce'
  OBVIOUS
<1>0. TypeOK /\ OwnConn /\ IssuedOnce /\ ClientTypeOK
  BY DEF IInv, TypeOK
<1>1. ASSUME NEW c \in Client, ClientNext(c) PROVE IssuedOnce'
  <2>1. CASE Quiet(c)
    BY <1>0, <2>1 DEF IssuedOnce, Quiet, InCall, ClientTypeOK
  <2>2. ASSUME NEW m \in Method, NEW b \in Body, BeginCall(c, m, b) PROVE IssuedOnce'
    <3> PICK k \in Conns : Begun(c, k, m, b)
      BY <2>2, BeginEffect
    <3> /\ Connected(c, k)
        /\ sock' = [sock EXCEPT ![c] = k]
        /\ seq' = [seq EXCEPT ![c] = @ + 1]
        /\ call' = [call EXCEPT ![c] = NewCall(c, k, m, b)]
        /\ pc[c] = "idle"
        /\ \/ /\ issued' = [issued EXCEPT ![k] = @ \cup {NewCall(c, k, m, b)}]
              /\ pc' = [pc EXCEPT ![c] = "sendHeader"]
           \/ UNCHANGED <<pc, issued>>
      BY DEF Begun
    <3> DEFINE x == NewCall(c, k, m, b)
    <3>1. /\ cliEnd'[k] = "open"
          /\ \A j \in Conns : j # k => cliEnd'[j] = cliEnd[j]
          /\ sock[c] = k \/ cliEnd[k] = "unused"
      BY <1>0, ConnectedEffect
    <3>2. \A d \in Client : d # c => sock'[d] = sock[d] /\ sock[d] # k
      BY <1>0, <3>1, TransportAssumption DEF OwnConn, ClientTypeOK
    <3>3. x.conn = k /\ x.id = seq[c] /\ x.id \in Nat /\ k # NoConn
      BY <1>0, NewCallFields, TransportAssumption, ClientAssumption DEF ClientTypeOK
    <3>4. \A y \in issued[k] : y.id < seq[c]
      BY <1>0, <3>1, <3>3 DEF IssuedOnce
    <3> HIDE DEF x
    <3>5. /\ issued'[k] \subseteq issued[k] \cup {x}
          /\ issued[k] \subseteq issued'[k]
          /\ \A j \in Conns : j # k => issued'[j] = issued[j]
          /\ pc'[c] \in IOStates => x \in issued'[k]
      BY <1>0 DEF ClientTypeOK, x, IOStates
    <3>6. \A j \in Conns : \A y \in issued'[j] : y.conn = j
      BY <1>0, <3>3, <3>5 DEF IssuedOnce
    <3>7. \A j \in Conns : cliEnd'[j] = "unused" => issued'[j] = {}
      BY <1>0, <3>1, <3>5 DEF IssuedOnce
    <3>8. \A d \in Client : sock'[d] # NoConn =>
            \A y \in issued'[sock'[d]] : y.id < seq'[d]
      <4>1. \A y \in issued'[k] : y.id < seq[c] + 1
        <5>1. \A y \in issued[k] : y.id \in Nat
          BY <1>0 DEF ClientTypeOK, Calls
        <5>2. seq[c] \in Nat
          BY <1>0, ClientAssumption DEF ClientTypeOK
        <5> QED BY <3>3, <3>4, <3>5, <5>1, <5>2
      <4> QED BY <1>0, <3>2, <3>5, <4>1 DEF IssuedOnce, ClientTypeOK
    <3>9. \A j \in Conns : \A y, z \in issued'[j] : y.id = z.id => y = z
      <4>1. \A y \in issued[k] : y.id # x.id
        BY <1>0, <3>3, <3>4 DEF ClientTypeOK, Calls
      <4> QED BY <1>0, <3>5, <4>1 DEF IssuedOnce
    <3>10. \A d \in Client : InCall(d)' => call'[d] \in issued'[sock'[d]]
      BY <1>0, <3>2, <3>5 DEF IssuedOnce, InCall, ClientTypeOK, OwnConn, IOStates, x
    <3> QED BY <3>6, <3>7, <3>8, <3>9, <3>10 DEF IssuedOnce
  <2>3. ASSUME NEW l \in {"idle", "destroyed"}, GiveUpConn(c, l) PROVE IssuedOnce'
    <3>1. \A j \in Conns : cliEnd'[j] = "unused" => cliEnd[j] = "unused"
      BY <1>0, <2>3 DEF GiveUpConn, CloseCli, netVars, TypeOK, NetTypeOK
    <3>2. /\ pc' = [pc EXCEPT ![c] = l] /\ l \notin IOStates
          /\ sock' = [sock EXCEPT ![c] = NoConn] /\ UNCHANGED <<call, seq, issued>>
      BY <2>3 DEF GiveUpConn, Goto, IOStates
    <3> QED BY <1>0, <3>1, <3>2 DEF IssuedOnce, ClientTypeOK, InCall
  <2> QED BY <1>1, <2>1, <2>2, <2>3, ClientEffect
<1>2. CASE UNCHANGED cliEnd /\ UNCHANGED clientVars
  BY <1>0, <1>2 DEF IssuedOnce, clientVars, InCall
<1> QED BY <1>1, <1>2, ServerQuiet DEF Next, Terminated

-----------------------------------------------------------------------------
(* The way of a request: from issued to ran.  Six actions move a request   *)
(* along; all the others leave it where it is or lose it.                  *)

Pipeline == RequestsIssued /\ IdsAscend /\ NoPhantomCall /\ ExecutedInOrder

Calm ==
  /\ UNCHANGED <<issued, ran>>
  /\ \A k \in Conns : up'[k] = up[k] \/ up'[k] = <<>>
  /\ \A k \in Conns : phase'[k] \in {"recvBody", "call"} =>
       /\ phase'[k] = phase[k]
       /\ reqHeader'[k] = reqHeader[k]
       /\ request'[k] = request[k]
  /\ \A c \in Client : pc'[c] = "sendHeader" =>
       pc[c] = "sendHeader" /\ sock'[c] = sock[c] /\ call'[c] = call[c]

\* A client about to write a header has a connection.
LEMMA SendingConn ==
  ASSUME TypeOK, OwnConn, NEW c \in Client, pc[c] = "sendHeader" PROVE sock[c] \in Conns
  BY CallInNat DEF InCall, IOStates

\* Calm steps preserve the way of the requests.
LEMMA CalmKeeps == ASSUME IInv, Calm PROVE Pipeline'
<1> USE DEF IInv
<1>0. \A k \in Conns : \A i \in DOMAIN up'[k] : i \in DOMAIN up[k] /\ up'[k] = up[k]
  BY DEF Calm
<1>1. RequestsIssued'
  BY <1>0 DEF Calm, RequestsIssued, Engaged
<1>2. IdsAscend'
  <2>1. StreamAscends'
    BY <1>0 DEF IdsAscend, StreamAscends
  <2>2. PastBelowStream'
    BY <1>0 DEF Calm, IdsAscend, PastBelowStream, RanBelow, HeldBelow, Engaged
  <2>3. PastBelowHeld'
    BY DEF Calm, IdsAscend, PastBelowHeld, RanBelow, Engaged
  <2>4. AllBelowUnsent'
    <3> SUFFICES ASSUME NEW c \in Client, pc'[c] = "sendHeader"
                 PROVE  (RanBelow(sock[c], call[c].id) /\ HeldBelow(sock[c], call[c].id)
                         /\ StreamBelow(sock[c], call[c].id))'
      BY DEF AllBelowUnsent
    <3>1. /\ sock[c] \in Conns /\ sock'[c] = sock[c] /\ call'[c] = call[c]
          /\ RanBelow(sock[c], call[c].id) /\ HeldBelow(sock[c], call[c].id)
          /\ StreamBelow(sock[c], call[c].id)
      BY SendingConn DEF Calm, IdsAscend, AllBelowUnsent
    <3> QED BY <1>0, <3>1 DEF Calm, RanBelow, HeldBelow, StreamBelow, Engaged
  <2> QED BY <2>1, <2>2, <2>3, <2>4 DEF IdsAscend
<1>3. NoPhantomCall' /\ ExecutedInOrder'
  BY DEF Calm, NoPhantomCall, ExecutedInOrder, RanAs
<1> QED BY <1>1, <1>2, <1>3 DEF Pipeline

\* Client c has put frame f at the end of its stream.
Put(c, f) ==
  /\ UNCHANGED <<issued, serverVars, sock, call>>
  /\ up' = [up EXCEPT ![sock[c]] = Append(@, f)]
  /\ \A d \in Client : pc'[d] = "sendHeader" => pc[d] = "sendHeader" /\ d # c

\* A write puts the frame into the stream, or is calm.
LEMMA WriteUpEffect ==
  ASSUME IInv, NEW c \in Client, NEW f, NEW l \in {"sendBody", "recvHeader"},
         WriteUp(sock[c], f), Goto(c, l), UNCHANGED <<issued, serverVars, sock, call>>
  PROVE  Calm \/ Put(c, f)
<1>1. \A d \in Client : pc'[d] = "sendHeader" => pc[d] = "sendHeader" /\ d # c
  BY DEF Goto, IInv, TypeOK, ClientTypeOK
<1>2. CASE up' = [up EXCEPT ![sock[c]] = Append(@, f)]
  BY <1>1, <1>2 DEF Put
<1>3. CASE ~(up' = [up EXCEPT ![sock[c]] = Append(@, f)])
  <2>1. up' = up \/ up' = [up EXCEPT ![sock[c]] = <<>>]
    BY <1>3 DEF WriteUp, Abort
  <2>2. \A k \in Conns : up'[k] = up[k] \/ up'[k] = <<>>
    BY <2>1 DEF IInv, TypeOK, NetTypeOK
  <2> QED BY <1>1, <2>2 DEF Calm, serverVars
<1> QED BY <1>2, <1>3

\* What a client's step does to the requests.
LEMMA ClientRequestEffect ==
  ASSUME IInv, NEW c \in Client, ClientNext(c), UNCHANGED serverVars
  PROVE  \/ Calm
         \/ \E m \in Method, b \in Body : BeginCall(c, m, b)
         \/ /\ pc[c] = "sendHeader"
            /\ Put(c, RequestHeader(call[c].id, call[c].method, call[c].body))
         \/ Put(c, RequestBody(call[c].body)) /\ InCall(c)
<1>1. CASE SendRequestHeader(c)
  BY <1>1, WriteUpEffect DEF SendRequestHeader
<1>2. CASE SendRequestBody(c)
  BY <1>2, WriteUpEffect DEF SendRequestBody, InCall, IOStates
<1>3. CASE \E l \in {"idle", "destroyed"} : GiveUpConn(c, l)
  <2>1. PICK l \in {"idle", "destroyed"} : GiveUpConn(c, l)
    BY <1>3
  <2>2. \A k \in Conns : up'[k] = up[k] \/ up'[k] = <<>>
    BY <2>1 DEF GiveUpConn, CloseCli, Abort, netVars, IInv, TypeOK, NetTypeOK
  <2>3. \A d \in Client : pc'[d] = "sendHeader" => pc[d] = "sendHeader" /\ d # c
    BY <2>1 DEF GiveUpConn, Goto, IInv, TypeOK, ClientTypeOK
  <2>4. UNCHANGED <<issued, call>> /\ \A d \in Client : d # c => sock'[d] = sock[d]
    BY <2>1 DEF GiveUpConn, IInv, TypeOK, ClientTypeOK
  <2> QED BY <2>2, <2>3, <2>4 DEF Calm, serverVars
<1>4. CASE Quiet(c) /\ UNCHANGED up
  BY <1>4 DEF Quiet, Calm, serverVars, IInv, TypeOK, ClientTypeOK
<1>5. CallFailsEarly(c) \/ RecvResponseHeader(c) \/ RecvResponseBody(c) \/ ClientIOError(c)
         \/ ClientInterrupted(c) => UNCHANGED up
  BY DEF CallFailsEarly, RecvResponseHeader, RecvResponseBody, ClientIOError, ClientInterrupted,
     ReadDown, netVars
<1> QED
  BY <1>1, <1>2, <1>3, <1>4, <1>5, ClientEffect
  DEF ClientNext, CallStep, CloseClient, DestroyClient

\* Leaving ProcessOneCall is calm,
LEMMA FinishCalm ==
  ASSUME IInv, NEW k \in Conns, NEW l \in {"recvHeader", "closing"}, Finish(k, l),
         UNCHANGED <<ran, clientVars>>, \A j \in Conns : up'[j] = up[j] \/ up'[j] = <<>>
  PROVE  Calm
  BY DEF Finish, Goes, Calm, clientVars, IInv, TypeOK, ServerTypeOK

\* and so a failed SendResponse is.
LEMMA SendFailsFinishes ==
  ASSUME NEW k, NEW res, SendFails(k, res)
  PROVE  \E l \in {"recvHeader", "closing"} : Finish(k, l)
  BY DEF SendFails

\* What any other step does to the requests.
LEMMA ServerRequestEffect ==
  ASSUME IInv, (ServerNext /\ UNCHANGED clientVars) \/ Network \/ UNCHANGED vars
  PROVE  Calm \/ \E k \in Conns : RecvRequestHeader(k) \/ RecvRequestBody(k) \/ CallService(k)
<1>0. TypeOK /\ ServerTypeOK /\ up \in [Conns -> Seq(UpFrames)]
  BY DEF IInv, TypeOK, NetTypeOK
<1>1. ASSUME NEW k \in Conns, Accept(k) \/ StartJob(k), UNCHANGED clientVars
      PROVE  Calm
  BY <1>0, <1>1 DEF Accept, AcceptHead, StartJob, Calm, clientVars, netVars, Goes, ServerTypeOK
<1>2. ASSUME NEW k \in Conns, SendResponseHeader(k), UNCHANGED clientVars PROVE Calm
  BY <1>0, <1>2 DEF SendResponseHeader, WriteDown, Abort, Calm, clientVars, Goes, ServerTypeOK
<1>3. ASSUME NEW k \in Conns, SendResponseBody(k), UNCHANGED clientVars PROVE Calm
  <2>1. \A j \in Conns : up'[j] = up[j] \/ up'[j] = <<>>
    BY <1>0, <1>3 DEF SendResponseBody, WriteDown, Abort
  <2> QED BY <1>3, <2>1, FinishCalm DEF SendResponseBody
<1>4. ASSUME NEW k \in Conns, ServerIOError(k) \/ ServerInterrupted(k), UNCHANGED clientVars PROVE Calm
  <2>1. UNCHANGED <<ran, netVars>> /\ GiveUpCall(k)
    BY <1>4 DEF ServerIOError, ServerInterrupted
  <2>2. \E l \in {"recvHeader", "closing"} : Finish(k, l)
    BY <2>1, SendFailsFinishes DEF GiveUpCall
  <2> QED BY <1>4, <2>1, <2>2, FinishCalm DEF netVars
<1>5. ASSUME NEW k \in Conns, DestroyServerConn(k), UNCHANGED clientVars PROVE Calm
  <2>1. \A j \in Conns : up'[j] = up[j] \/ up'[j] = <<>>
    BY <1>0, <1>5 DEF DestroyServerConn, CloseSrv, Abort
  <2> QED BY <1>0, <1>5, <2>1 DEF DestroyServerConn, Calm, Goes, clientVars, ServerTypeOK
<1>6. CASE Network
  BY <1>0, <1>6 DEF Network, Break, Abort, Calm, clientVars, serverVars
<1>7. CASE UNCHANGED vars
  BY <1>0, <1>7 DEF vars, netVars, Calm, clientVars, serverVars
<1>8. (AcceptError \/ StartBadJob) /\ UNCHANGED clientVars => Calm
  BY <1>0 DEF AcceptError, StartBadJob, Calm, clientVars, netVars
<1>9. ASSUME NEW k \in Conns, Accept(k) \/ StartJob(k) \/ JobStep(k) \/ ServerInterrupted(k),
             UNCHANGED clientVars
      PROVE  Calm \/ RecvRequestHeader(k) \/ RecvRequestBody(k) \/ CallService(k)
  BY <1>1, <1>2, <1>3, <1>4, <1>5, <1>9 DEF JobStep
<1>10. ServerNext /\ UNCHANGED clientVars =>
         Calm \/ \E k \in Conns : RecvRequestHeader(k) \/ RecvRequestBody(k) \/ CallService(k)
  BY <1>8, <1>9 DEF ServerNext
<1> QED BY <1>6, <1>7, <1>10

\* An id above all issued ones is above everything that came of them.
LEMMA IssuedBelow ==
  ASSUME IInv, NEW k \in Conns, NEW n \in Nat, \A x \in issued[k] : x.id < n
  PROVE  RanBelow(k, n) /\ HeldBelow(k, n) /\ StreamBelow(k, n)
<1>1. ASSUME NEW i \in DOMAIN ran[k] PROVE ran[k][i].id < n
  <2> PICK x \in issued[k] : ran[k][i] = RanAs(x)
    BY DEF IInv, NoPhantomCall
  <2>1. RanAs(x).id = x.id
    BY DEF RanAs
  <2> QED BY <2>1
<1>2. ASSUME Engaged(k) PROVE reqHeader[k].id < n
  <2> PICK x \in issued[k] : reqHeader[k] = AsHeader(x)
    BY <1>2 DEF IInv, RequestsIssued
  <2>1. AsHeader(x).id = x.id
    BY DEF AsHeader, RequestHeader
  <2> QED BY <2>1
<1>3. ASSUME NEW i \in DOMAIN up[k], IsRequestHeader(up[k][i]) PROVE up[k][i].id < n
  <2> PICK x \in issued[k] : up[k][i] = AsHeader(x)
    BY <1>3 DEF IInv, RequestsIssued
  <2>1. AsHeader(x).id = x.id
    BY DEF AsHeader, RequestHeader
  <2> QED BY <2>1
<1> QED BY <1>1, <1>2, <1>3 DEF RanBelow, HeldBelow, StreamBelow

\* Beginning a call preserves the way of the requests,
LEMMA BeginPipeline ==
  ASSUME IInv, NEW c \in Client, NEW m \in Method, NEW b \in Body, BeginCall(c, m, b),
         UNCHANGED serverVars
  PROVE  Pipeline'
<1>0. TypeOK /\ OwnConn /\ IssuedOnce /\ ClientTypeOK
  BY DEF IInv, TypeOK
<1> PICK k \in Conns : Begun(c, k, m, b)
  BY BeginEffect
<1> /\ Connected(c, k)
    /\ pc[c] = "idle"
    /\ sock' = [sock EXCEPT ![c] = k]
    /\ call' = [call EXCEPT ![c] = NewCall(c, k, m, b)]
    /\ \/ /\ issued' = [issued EXCEPT ![k] = @ \cup {NewCall(c, k, m, b)}]
          /\ pc' = [pc EXCEPT ![c] = "sendHeader"]
       \/ UNCHANGED <<pc, issued>>
  BY DEF Begun
<1>1. UNCHANGED <<up, ran, phase, reqHeader, request>>
  BY <1>0, ConnectedEffect DEF serverVars
<1>2. \A j \in Conns : issued[j] \subseteq issued'[j]
  BY <1>0 DEF ClientTypeOK
<1>3. RequestsIssued'
  <2>1. \A j \in Conns : \A i \in DOMAIN up'[j] :
          IsRequestHeader(up'[j][i]) => \E x \in issued'[j] : up'[j][i] = AsHeader(x)
    BY <1>1, <1>2 DEF IInv, RequestsIssued
  <2>2. \A j \in Conns : Engaged(j)' => \E x \in issued'[j] : reqHeader'[j] = AsHeader(x)
    BY <1>1, <1>2 DEF IInv, RequestsIssued, Engaged
  <2> QED BY <1>1, <2>1, <2>2 DEF IInv, RequestsIssued
<1>4. StreamAscends' /\ PastBelowStream' /\ PastBelowHeld'
  BY <1>1 DEF IInv, IdsAscend, StreamAscends, PastBelowStream, PastBelowHeld, RanBelow, HeldBelow,
     Engaged
<1>5. AllBelowUnsent'
  <2> SUFFICES ASSUME NEW d \in Client, pc'[d] = "sendHeader"
               PROVE  (RanBelow(sock[d], call[d].id) /\ HeldBelow(sock[d], call[d].id)
                       /\ StreamBelow(sock[d], call[d].id))'
    BY DEF AllBelowUnsent
  <2>1. /\ RanBelow(sock'[d], call'[d].id) /\ HeldBelow(sock'[d], call'[d].id)
        /\ StreamBelow(sock'[d], call'[d].id)
    <3>1. CASE d = c
      <4>1. sock'[c] = k /\ call'[c].id = seq[c]
        BY <1>0, NewCallFields DEF ClientTypeOK
      <4>2. sock[c] = k \/ cliEnd[k] = "unused"
        BY <1>0, ConnectedEffect
      <4>3. \A x \in issued[k] : x.id < seq[c]
        BY <1>0, <4>2, TransportAssumption DEF IssuedOnce
      <4>4. seq[c] \in Nat
        BY <1>0, ClientAssumption DEF ClientTypeOK
      <4> QED BY <3>1, <4>1, <4>3, <4>4, IssuedBelow
    <3>2. CASE d # c
      <4>1. pc[d] = "sendHeader" /\ sock'[d] = sock[d] /\ call'[d] = call[d]
        BY <1>0, <3>2 DEF ClientTypeOK
      <4> QED BY <4>1 DEF IInv, IdsAscend, AllBelowUnsent
    <3> QED BY <3>1, <3>2
  <2> QED BY <1>1, <2>1 DEF RanBelow, HeldBelow, StreamBelow, Engaged
<1>6. NoPhantomCall' /\ ExecutedInOrder'
  BY <1>1, <1>2 DEF IInv, NoPhantomCall, ExecutedInOrder, RanAs
<1> QED BY <1>3, <1>4, <1>5, <1>6 DEF Pipeline, IdsAscend

\* so does writing one of its two frames,
LEMMA PutPipeline ==
  ASSUME IInv, NEW c \in Client, InCall(c), NEW f \in UpFrames, Put(c, f),
         IsRequestHeader(f) => pc[c] = "sendHeader" /\ f = AsHeader(call[c])
  PROVE  Pipeline'
<1> DEFINE k == sock[c]
<1>0. TypeOK /\ OwnConn /\ IssuedOnce /\ ClientTypeOK
  BY DEF IInv, TypeOK
<1>1. k \in Conns /\ call[c].id \in Nat /\ call[c] \in issued[k]
  BY <1>0, CallInNat DEF IssuedOnce
<1>2. UNCHANGED <<issued, ran, phase, reqHeader, request, sock, call>>
  BY DEF Put, serverVars
<1>3. /\ up[k] \in Seq(UpFrames)
      /\ up'[k] = Append(up[k], f) /\ \A j \in Conns : j # k => up'[j] = up[j]
  BY <1>0, <1>1 DEF Put, TypeOK, NetTypeOK
<1> HIDE DEF k
<1>4. \A j \in Conns : \A i \in DOMAIN up'[j] :
        \/ i \in DOMAIN up[j] /\ up'[j][i] = up[j][i]
        \/ j = k /\ up'[j][i] = f /\ i \notin DOMAIN up[j] /\ \A n \in DOMAIN up[j] : n < i
  BY <1>3, AppendFacts
<1>5. IsRequestHeader(f) =>
        /\ f.id = call[c].id
        /\ RanBelow(k, f.id) /\ HeldBelow(k, f.id) /\ StreamBelow(k, f.id)
  BY DEF IInv, IdsAscend, AllBelowUnsent, AsHeader, RequestHeader, k
<1>6. RequestsIssued'
  <2>1. \A j \in Conns : \A i \in DOMAIN up'[j] :
          IsRequestHeader(up'[j][i]) => \E x \in issued'[j] : up'[j][i] = AsHeader(x)
    BY <1>1, <1>2, <1>4 DEF IInv, RequestsIssued
  <2>2. \A j \in Conns : Engaged(j)' => \E x \in issued'[j] : reqHeader'[j] = AsHeader(x)
    BY <1>2 DEF IInv, RequestsIssued, Engaged
  <2> QED BY <1>2, <2>1, <2>2 DEF IInv, RequestsIssued
<1>7. StreamAscends'
  <2> SUFFICES ASSUME NEW j \in Conns, NEW i \in DOMAIN up'[j], NEW n \in DOMAIN up'[j],
                      IsRequestHeader(up'[j][i]), IsRequestHeader(up'[j][n]), i < n
               PROVE  up'[j][i].id < up'[j][n].id
    BY DEF StreamAscends
  <2>0. up'[j] \in Seq(UpFrames) /\ up[j] \in Seq(UpFrames)
    <3>1. up[j] \in Seq(UpFrames)
      BY <1>0 DEF TypeOK, NetTypeOK
    <3>2. Append(up[k], f) \in Seq(UpFrames)
      BY <1>3, AppendFacts
    <3> QED BY <1>3, <3>1, <3>2
  <2>1. i \in Nat /\ n \in Nat /\ \A q \in DOMAIN up[j] : q \in Nat
    BY <2>0, LenProperties
  <2>2. i \in DOMAIN up[j]
    <3>1. i \notin DOMAIN up[j] => \A q \in DOMAIN up[j] : q < i
      BY <1>4
    <3>2. i \notin DOMAIN up[j] => j = k /\ up'[j][i] = f
      BY <1>4
    <3>3. ASSUME i \notin DOMAIN up[j], n \notin DOMAIN up[j] PROVE FALSE
      <4>1. i = Len(up[k]) + 1 /\ n = Len(up[k]) + 1
        <5>1. DOMAIN up[k] = 1..Len(up[k]) /\ Len(up[k]) \in Nat
          BY <1>3, LenProperties
        <5>2. DOMAIN up'[k] = 1..Len(up[k]) + 1
          BY <1>3, AppendProperties, LenProperties, <2>0, <3>2
        <5> QED BY <2>1, <3>2, <3>3, <5>1, <5>2
      <4> QED BY <2>1, <4>1
    <3>4. n \in DOMAIN up[j] => i \in DOMAIN up[j]
      BY <2>1, <3>1
    <3> QED BY <3>3, <3>4
  <2>3. CASE n \in DOMAIN up[j]
    BY <1>4, <2>2, <2>3 DEF IInv, IdsAscend, StreamAscends
  <2>4. CASE n \notin DOMAIN up[j]
    BY <1>4, <1>5, <2>2, <2>4 DEF StreamBelow
  <2> QED BY <2>3, <2>4
<1>8. PastBelowStream'
  <2> SUFFICES ASSUME NEW j \in Conns, NEW i \in DOMAIN up'[j], IsRequestHeader(up'[j][i])
               PROVE  (RanBelow(j, up[j][i].id) /\ HeldBelow(j, up[j][i].id))'
    BY DEF PastBelowStream
  <2>1. RanBelow(j, up'[j][i].id) /\ HeldBelow(j, up'[j][i].id)
    BY <1>4, <1>5 DEF IInv, IdsAscend, PastBelowStream
  <2> QED BY <1>2, <2>1 DEF RanBelow, HeldBelow, Engaged
<1>9. PastBelowHeld'
  BY <1>2 DEF IInv, IdsAscend, PastBelowHeld, RanBelow, Engaged
<1>10. AllBelowUnsent'
  <2> SUFFICES ASSUME NEW d \in Client, pc'[d] = "sendHeader"
               PROVE  (RanBelow(sock[d], call[d].id) /\ HeldBelow(sock[d], call[d].id)
                       /\ StreamBelow(sock[d], call[d].id))'
    BY DEF AllBelowUnsent
  <2>1. pc[d] = "sendHeader" /\ d # c
    BY DEF Put
  <2>2. sock[d] \in Conns /\ sock[d] # k
    BY <1>0, <1>1, <2>1, SendingConn, TransportAssumption DEF OwnConn, k
  <2>3. /\ RanBelow(sock[d], call[d].id) /\ HeldBelow(sock[d], call[d].id)
        /\ StreamBelow(sock[d], call[d].id)
    BY <2>1 DEF IInv, IdsAscend, AllBelowUnsent
  <2> QED BY <1>2, <1>3, <2>2, <2>3 DEF RanBelow, HeldBelow, StreamBelow, Engaged
<1>11. NoPhantomCall' /\ ExecutedInOrder'
  BY <1>2 DEF IInv, NoPhantomCall, ExecutedInOrder, RanAs
<1> QED BY <1>6, <1>7, <1>8, <1>9, <1>10, <1>11 DEF Pipeline, IdsAscend

\* The server has taken the oldest frame of k; the header it holds now, if
\* it still holds one, is that frame or the one it held.
Take(k) ==
  /\ up[k] # <<>> /\ up' = [up EXCEPT ![k] = Tail(@)]
  /\ UNCHANGED <<ran, clientVars>>
  /\ \A j \in Conns : j # k =>
       phase'[j] = phase[j] /\ reqHeader'[j] = reqHeader[j] /\ request'[j] = request[j]
  /\ phase'[k] \in {"recvBody", "call"} => reqHeader'[k].method \in Registered
  /\ Engaged(k)' =>
       \/ IsRequestHeader(Head(up[k])) /\ reqHeader'[k] = Head(up[k])
       \/ Engaged(k) /\ reqHeader'[k] = reqHeader[k]
  /\ phase'[k] = "call" => request'[k] = reqHeader'[k].checksum

\* and taking a frame from the stream.
LEMMA TakePipeline == ASSUME IInv, NEW k \in Conns, Take(k) PROVE Pipeline'
<1>0. TypeOK /\ OwnConn /\ up[k] \in Seq(UpFrames)
  BY DEF IInv, TypeOK, NetTypeOK
<1>1. up'[k] = Tail(up[k]) /\ \A j \in Conns : j # k => up'[j] = up[j]
  BY <1>0 DEF Take, TypeOK, NetTypeOK
<1>2. /\ 1 \in DOMAIN up[k] /\ Head(up[k]) = up[k][1]
      /\ \A i \in DOMAIN up'[k] :
           i \in Nat \ {0} /\ i + 1 \in DOMAIN up[k] /\ up'[k][i] = up[k][i + 1]
  <2>1. up[k] # <<>>
    BY DEF Take
  <2>2. /\ 1 \in DOMAIN up[k] /\ Head(up[k]) = up[k][1]
        /\ \A i \in DOMAIN Tail(up[k]) :
             i \in Nat \ {0} /\ i + 1 \in DOMAIN up[k] /\ Tail(up[k])[i] = up[k][i + 1]
    BY <1>0, <2>1, TailFacts
  <2> QED BY <1>1, <2>2
<1>3. \A j \in Conns : \A i \in DOMAIN up'[j] :
        \E n \in DOMAIN up[j] : up'[j][i] = up[j][n] /\ (j = k => 1 < n)
  <2> TAKE j \in Conns
  <2> TAKE i \in DOMAIN up'[j]
  <2>1. CASE j = k
    <3>1. i + 1 \in DOMAIN up[k] /\ up'[k][i] = up[k][i + 1] /\ 1 < i + 1
      BY <1>2, <2>1
    <3> QED BY <2>1, <3>1
  <2>2. CASE j # k
    BY <1>1, <2>2
  <2> QED BY <2>1, <2>2
<1>4. UNCHANGED <<ran, issued, sock, call, pc>>
  BY DEF Take, clientVars
<1>5. ASSUME NEW j \in Conns, Engaged(j)'
      PROVE  \/ j = k /\ IsRequestHeader(up[k][1]) /\ reqHeader'[k] = up[k][1]
             \/ Engaged(j) /\ reqHeader'[j] = reqHeader[j]
  BY <1>2, <1>5 DEF Take, Engaged
<1>6. RequestsIssued'
  <2>1. \A j \in Conns : \A i \in DOMAIN up'[j] :
          IsRequestHeader(up'[j][i]) => \E x \in issued'[j] : up'[j][i] = AsHeader(x)
    BY <1>3, <1>4 DEF IInv, RequestsIssued
  <2>2. \A j \in Conns : Engaged(j)' => \E x \in issued'[j] : reqHeader'[j] = AsHeader(x)
    BY <1>2, <1>4, <1>5 DEF IInv, RequestsIssued
  <2> QED BY <2>1, <2>2 DEF Take, IInv, RequestsIssued
<1>7. StreamAscends'
  <2> SUFFICES ASSUME NEW j \in Conns, NEW i \in DOMAIN up'[j], NEW n \in DOMAIN up'[j],
                      IsRequestHeader(up'[j][i]), IsRequestHeader(up'[j][n]), i < n
               PROVE  up'[j][i].id < up'[j][n].id
    BY DEF StreamAscends
  <2>1. CASE j # k
    BY <1>1, <2>1 DEF IInv, IdsAscend, StreamAscends
  <2>2. CASE j = k
    <3>1. i + 1 < n + 1
      BY <1>2, <2>2
    <3> QED BY <1>2, <2>2, <3>1 DEF IInv, IdsAscend, StreamAscends
  <2> QED BY <2>1, <2>2
<1>8. \A j \in Conns : \A n : HeldBelow(j, n)' <=> (Engaged(j)' => reqHeader'[j].id < n)
  BY DEF HeldBelow
<1>9. \A j \in Conns : \A n : RanBelow(j, n)' <=> RanBelow(j, n)
  BY <1>4 DEF RanBelow
<1>10. PastBelowStream'
  <2> SUFFICES ASSUME NEW j \in Conns, NEW i \in DOMAIN up'[j], IsRequestHeader(up'[j][i])
               PROVE  /\ RanBelow(j, up[j][i].id)'
                      /\ Engaged(j)' => reqHeader'[j].id < up'[j][i].id
    BY DEF PastBelowStream, HeldBelow
  <2> PICK n \in DOMAIN up[j] : up'[j][i] = up[j][n] /\ (j = k => 1 < n)
    BY <1>3
  <2>1. RanBelow(j, up[j][n].id) /\ HeldBelow(j, up[j][n].id)
    BY DEF IInv, IdsAscend, PastBelowStream
  <2>2. RanBelow(j, up[j][i].id)'
    BY <1>4, <2>1 DEF RanBelow
  <2>3. ASSUME Engaged(j)' PROVE reqHeader'[j].id < up'[j][i].id
    <3>1. CASE Engaged(j) /\ reqHeader'[j] = reqHeader[j]
      BY <2>1, <3>1 DEF HeldBelow
    <3>2. CASE j = k /\ IsRequestHeader(up[k][1]) /\ reqHeader'[k] = up[k][1]
      BY <1>2, <3>2 DEF IInv, IdsAscend, StreamAscends
    <3> QED BY <1>5, <2>3, <3>1, <3>2
  <2> QED BY <2>2, <2>3
<1>11. PastBelowHeld'
  <2> SUFFICES ASSUME NEW j \in Conns, Engaged(j)' PROVE RanBelow(j, reqHeader[j].id)'
    BY DEF PastBelowHeld
  <2>1. RanBelow(j, reqHeader'[j].id)
    BY <1>2, <1>5 DEF IInv, IdsAscend, PastBelowHeld, PastBelowStream
  <2> QED BY <1>4, <2>1 DEF RanBelow
<1>12. AllBelowUnsent'
  <2> SUFFICES ASSUME NEW c \in Client, pc'[c] = "sendHeader"
               PROVE  /\ RanBelow(sock[c], call[c].id)' /\ StreamBelow(sock[c], call[c].id)'
                      /\ Engaged(sock[c])' => reqHeader'[sock[c]].id < call[c].id
    BY <1>4 DEF AllBelowUnsent, HeldBelow, Engaged
  <2>1. /\ sock[c] \in Conns
        /\ RanBelow(sock[c], call[c].id) /\ HeldBelow(sock[c], call[c].id)
        /\ StreamBelow(sock[c], call[c].id)
    BY <1>0, <1>4, SendingConn DEF IInv, IdsAscend, AllBelowUnsent
  <2>2. RanBelow(sock[c], call[c].id)' /\ StreamBelow(sock[c], call[c].id)'
    BY <1>3, <1>4, <2>1 DEF RanBelow, StreamBelow
  <2>3. Engaged(sock[c])' => reqHeader'[sock[c]].id < call[c].id
    BY <1>2, <1>4, <1>5, <2>1 DEF HeldBelow, StreamBelow, Engaged
  <2> QED BY <2>2, <2>3
<1>13. NoPhantomCall' /\ ExecutedInOrder'
  BY <1>4 DEF IInv, NoPhantomCall, ExecutedInOrder, RanAs
<1> QED BY <1>6, <1>7, <1>10, <1>11, <1>12, <1>13 DEF Pipeline, IdsAscend

\* SendResponse ends the server's hold on a request.
LEMMA RespondLeaves ==
  ASSUME ServerTypeOK, NEW k \in Conns, NEW h, NEW res, Respond(k, h, res)
  PROVE  /\ phase'[k] \in {"sendHeader", "recvHeader", "closing"}
         /\ \A j \in Conns : j # k =>
              phase'[j] = phase[j] /\ reqHeader'[j] = reqHeader[j] /\ request'[j] = request[j]
<1>1. CASE SendFails(k, res)
  <2>1. PICK l \in {"recvHeader", "closing"} : Finish(k, l)
    BY <1>1, SendFailsFinishes
  <2> QED BY <2>1 DEF Finish, Goes, ServerTypeOK
<1>2. CASE /\ Goes(k, "sendHeader")
           /\ reqHeader' = [reqHeader EXCEPT ![k] = h]
           /\ UNCHANGED <<request, dropped>>
  BY <1>2 DEF Goes, ServerTypeOK
<1> QED BY <1>1, <1>2 DEF Respond

\* Reading a request header is a Take: a header worth executing is the frame.
LEMMA RecvHeaderTakes ==
  ASSUME IInv, NEW k \in Conns, RecvRequestHeader(k), UNCHANGED clientVars
  PROVE  Take(k)
<1> DEFINE h == ParseRequestHeader(Head(up[k]))
<1>0. ServerTypeOK /\ up[k] \in Seq(UpFrames)
  BY DEF IInv, TypeOK, NetTypeOK
<1>1. up[k] # <<>> /\ up' = [up EXCEPT ![k] = Tail(@)] /\ UNCHANGED <<ran, clientVars>>
  BY DEF RecvRequestHeader, ReadUp
<1>2. Head(up[k]) \in UpFrames
  BY <1>0, <1>1, TailFacts
<1>3. h # Malformed /\ h.checksum # NoSum => IsRequestHeader(Head(up[k])) /\ h = Head(up[k])
  BY <1>2, ParseRequestType DEF IsRequestHeader, RequestHeaders
<1>4. \/ Finish(k, "closing")
      \/ /\ h # Malformed /\ h.method \in Registered
         /\ Goes(k, "recvBody")
         /\ reqHeader' = [reqHeader EXCEPT ![k] = h]
         /\ UNCHANGED request
      \/ Respond(k, h, [err |-> NotFound, reply |-> NoReply])
  BY DEF RecvRequestHeader
<1> HIDE DEF h
<1>5. CASE Finish(k, "closing")
  BY <1>0, <1>1, <1>5 DEF Finish, Goes, Take, Engaged, ServerTypeOK
<1>6. CASE Respond(k, h, [err |-> NotFound, reply |-> NoReply])
  BY <1>0, <1>1, <1>6, RespondLeaves DEF Take, Engaged
<1>7. CASE /\ h # Malformed /\ h.method \in Registered
           /\ Goes(k, "recvBody")
           /\ reqHeader' = [reqHeader EXCEPT ![k] = h]
           /\ UNCHANGED request
  BY <1>0, <1>1, <1>3, <1>7 DEF Goes, Take, Engaged, ServerTypeOK
<1> QED BY <1>4, <1>5, <1>6, <1>7

\* So is reading a request body: one accepted is the body of the header held.
LEMMA RecvBodyTakes ==
  ASSUME IInv, NEW k \in Conns, RecvRequestBody(k), UNCHANGED clientVars
  PROVE  Take(k)
<1> DEFINE f == Head(up[k])
<1>0. ServerTypeOK /\ up[k] \in Seq(UpFrames) /\ phase[k] = "recvBody"
  BY DEF IInv, TypeOK, NetTypeOK, RecvRequestBody
<1>1. up[k] # <<>> /\ up' = [up EXCEPT ![k] = Tail(@)] /\ UNCHANGED <<ran, clientVars>>
  BY DEF RecvRequestBody, ReadUp
<1>2. f \in UpFrames /\ reqHeader[k].checksum \in Body \cup {NoSum}
  BY <1>0, <1>1, TailFacts DEF ServerTypeOK, RequestHeaders
<1>3. Checksum(f) = reqHeader[k].checksum =>
        RequestPayload(f) = reqHeader[k].checksum /\ reqHeader[k].checksum # NoSum
  BY <1>2, RequestPayloadType
<1>4. \/ Finish(k, "closing")
      \/ /\ Checksum(f) = reqHeader[k].checksum
         /\ request' = [request EXCEPT ![k] = RequestPayload(f)]
         /\ Goes(k, "call")
         /\ UNCHANGED reqHeader
  BY DEF RecvRequestBody, RequestAccepted
<1> HIDE DEF f
<1>5. CASE Finish(k, "closing")
  BY <1>0, <1>1, <1>5 DEF Finish, Goes, Take, Engaged, ServerTypeOK
<1>6. CASE /\ Checksum(f) = reqHeader[k].checksum
           /\ request' = [request EXCEPT ![k] = RequestPayload(f)]
           /\ Goes(k, "call")
           /\ UNCHANGED reqHeader
  BY <1>0, <1>1, <1>3, <1>6 DEF Goes, Take, Engaged, ServerTypeOK, IInv, RequestsIssued
<1> QED BY <1>4, <1>5, <1>6

\* Executing the call preserves the way of the requests.
LEMMA CallPipeline ==
  ASSUME IInv, NEW k \in Conns, CallService(k), UNCHANGED clientVars
  PROVE  Pipeline'
<1> DEFINE R == [id : Nat, method : Method, body : Body]
           y == [id |-> reqHeader[k].id, method |-> reqHeader[k].method, body |-> request[k]]
<1>0. TypeOK /\ OwnConn /\ ServerTypeOK /\ ran[k] \in Seq(R)
  BY DEF IInv, TypeOK, ServerTypeOK
<1>1. /\ UNCHANGED <<up, issued, sock, call, pc>>
      /\ ran'[k] = Append(ran[k], y) /\ \A j \in Conns : j # k => ran'[j] = ran[j]
  BY <1>0 DEF CallService, clientVars, netVars, ServerTypeOK
<1>2. request[k] = reqHeader[k].checksum /\ Engaged(k)
  BY <1>0, WireAssumption DEF CallService, IInv, RequestsIssued, ServerTypeOK, Engaged
<1>3. \E x \in issued[k] : reqHeader[k] = AsHeader(x) /\ y = RanAs(x)
  <2> PICK x \in issued[k] : reqHeader[k] = AsHeader(x)
    BY <1>2 DEF IInv, RequestsIssued
  <2>1. reqHeader[k].id = x.id /\ reqHeader[k].method = x.method /\ reqHeader[k].checksum = x.body
    BY DEF AsHeader, RequestHeader
  <2>2. y = RanAs(x)
    BY <1>2, <2>1 DEF RanAs
  <2> QED BY <2>2
<1>4. y \in R /\ y.id = reqHeader[k].id
  BY <1>0 DEF ServerTypeOK, RequestHeaders
<1>5. ~Engaged(k)' /\ \A j \in Conns : j # k =>
        phase'[j] = phase[j] /\ reqHeader'[j] = reqHeader[j] /\ request'[j] = request[j]
  BY <1>0, RespondLeaves DEF CallService, Engaged
<1>6. phase'[k] \notin {"recvBody", "call"}
  BY <1>0, RespondLeaves DEF CallService
<1> HIDE DEF y, R
<1>7. \A j \in Conns : \A i \in DOMAIN ran'[j] :
        \/ i \in DOMAIN ran[j] /\ ran'[j][i] = ran[j][i]
        \/ j = k /\ ran'[j][i] = y /\ i \notin DOMAIN ran[j] /\ \A n \in DOMAIN ran[j] : n < i
  BY <1>0, <1>1, <1>4, AppendFacts
<1>8. \A j \in Conns : \A i \in DOMAIN ran'[j] : i \in Nat
  <2>1. Append(ran[k], y) \in Seq(R)
    BY <1>0, <1>4, AppendFacts
  <2>2. ASSUME NEW j \in Conns, NEW i \in DOMAIN ran'[j] PROVE i \in Nat
    <3>1. ran'[j] \in Seq(R)
      BY <1>0, <1>1, <2>1 DEF ServerTypeOK, R
    <3> QED BY <3>1, LenProperties
  <2> QED BY <2>2
<1>9. ASSUME NEW j \in Conns, NEW n, RanBelow(j, n), HeldBelow(j, n) PROVE RanBelow(j, n)'
  <2>1. j = k => y.id < n
    BY <1>2, <1>4, <1>9 DEF HeldBelow
  <2> QED BY <1>7, <1>9, <2>1 DEF RanBelow
<1>10. ASSUME NEW j \in Conns, NEW n, HeldBelow(j, n) PROVE HeldBelow(j, n)'
  BY <1>5, <1>10 DEF HeldBelow, Engaged
<1>11. RequestsIssued'
  BY <1>1, <1>5, <1>6 DEF IInv, RequestsIssued, Engaged
<1>12. StreamAscends'
  BY <1>1 DEF IInv, IdsAscend, StreamAscends
<1>13. PastBelowStream'
  BY <1>1, <1>9, <1>10 DEF IInv, IdsAscend, PastBelowStream, RanBelow, HeldBelow, Engaged
<1>14. PastBelowHeld'
  <2> SUFFICES ASSUME NEW j \in Conns, Engaged(j)' PROVE RanBelow(j, reqHeader[j].id)'
    BY DEF PastBelowHeld
  <2>1. j # k /\ ran'[j] = ran[j] /\ reqHeader'[j] = reqHeader[j] /\ Engaged(j)
    BY <1>1, <1>5 DEF Engaged
  <2> QED BY <2>1 DEF IInv, IdsAscend, PastBelowHeld, RanBelow
<1>15. AllBelowUnsent'
  <2> SUFFICES ASSUME NEW c \in Client, pc[c] = "sendHeader"
               PROVE  (RanBelow(sock[c], call[c].id) /\ HeldBelow(sock[c], call[c].id)
                       /\ StreamBelow(sock[c], call[c].id))'
    BY <1>1 DEF AllBelowUnsent
  <2>1. /\ sock[c] \in Conns
        /\ RanBelow(sock[c], call[c].id) /\ HeldBelow(sock[c], call[c].id)
        /\ StreamBelow(sock[c], call[c].id)
    BY <1>0, SendingConn DEF IInv, IdsAscend, AllBelowUnsent
  <2> QED BY <1>1, <1>9, <1>10, <2>1 DEF RanBelow, HeldBelow, StreamBelow, Engaged
<1>16. NoPhantomCall'
  BY <1>1, <1>3, <1>7 DEF IInv, NoPhantomCall, RanAs
<1>17. ExecutedInOrder'
  <2> SUFFICES ASSUME NEW j \in Conns, NEW i \in DOMAIN ran'[j], NEW n \in DOMAIN ran'[j], i < n
               PROVE  ran'[j][i].id < ran'[j][n].id
    BY DEF ExecutedInOrder
  <2>1. i \in Nat /\ n \in Nat
    BY <1>8
  <2>2. i \in DOMAIN ran[j] /\ ran'[j][i] = ran[j][i]
    <3>1. CASE j # k
      BY <1>1, <3>1
    <3>2. CASE j = k /\ i \notin DOMAIN ran[j]
      <4>1. ran[k] \in Seq(R) /\ Append(ran[k], y) \in Seq(R) /\ DOMAIN ran[k] = 1..Len(ran[k])
            /\ Len(ran[k]) \in Nat
        BY <1>0, <1>4, AppendFacts, LenProperties
      <4>2. DOMAIN ran'[k] = 1..Len(ran[k]) + 1
        BY <1>0, <1>1, <1>4, <4>1, AppendProperties, LenProperties
      <4> QED BY <2>1, <3>2, <4>1, <4>2
    <3> QED BY <1>7, <3>1, <3>2
  <2>3. CASE n \in DOMAIN ran[j] /\ ran'[j][n] = ran[j][n]
    BY <2>2, <2>3 DEF IInv, ExecutedInOrder
  <2>4. CASE j = k /\ ran'[j][n] = y
    BY <1>2, <1>4, <2>2, <2>4 DEF IInv, IdsAscend, PastBelowHeld, RanBelow
  <2> QED BY <1>7, <2>3, <2>4
<1> QED BY <1>11, <1>12, <1>13, <1>14, <1>15, <1>16, <1>17 DEF Pipeline, IdsAscend

\* Every step preserves it.
LEMMA PipelineStep == IInv /\ [Next]_vars => Pipeline'
<1> SUFFICES ASSUME IInv, [Next]_vars PROVE Pipeline'
  OBVIOUS
<1>1. ASSUME NEW c \in Client, ClientNext(c), UNCHANGED serverVars PROVE Pipeline'
  <2>1. CASE Calm
    BY <2>1, CalmKeeps
  <2>2. CASE \E m \in Method, b \in Body : BeginCall(c, m, b)
    BY <1>1, <2>2, BeginPipeline
  <2>3. CASE /\ pc[c] = "sendHeader"
             /\ Put(c, RequestHeader(call[c].id, call[c].method, call[c].body))
    <3>1. InCall(c)
      BY <2>3 DEF InCall, IOStates
    <3>2. RequestHeader(call[c].id, call[c].method, call[c].body) \in UpFrames
      BY <3>1, CallInNat, RequestHeaderType DEF IInv
    <3> QED BY <2>3, <3>1, <3>2, PutPipeline DEF AsHeader
  <2>4. CASE Put(c, RequestBody(call[c].body)) /\ InCall(c)
    <3>1. RequestBody(call[c].body) \in UpFrames
      BY <2>4, CallInNat, RequestBodyType DEF IInv
    <3>2. ~IsRequestHeader(RequestBody(call[c].body))
      BY DEF IsRequestHeader, RequestBody
    <3> QED BY <2>4, <3>1, <3>2, PutPipeline
  <2> QED BY <1>1, <2>1, <2>2, <2>3, <2>4, ClientRequestEffect
<1>2. CASE (ServerNext /\ UNCHANGED clientVars) \/ Network \/ UNCHANGED vars
  <2>1. UNCHANGED clientVars
    BY <1>2, ServerQuiet
  <2> QED
    BY <1>2, <2>1, ServerRequestEffect, CalmKeeps, RecvHeaderTakes, RecvBodyTakes, TakePipeline,
       CallPipeline
<1> QED BY <1>1, <1>2 DEF Next, Terminated
=============================================================================
