------------------------------ MODULE RpcProofs -----------------------------
(***************************************************************************)
(* The way of an answer, from ran to the caller: AnswersRan and AnswerIsOwn *)
(* are preserved.  Then the theorems: the invariant holds in every         *)
(* behaviour, and with it the safety properties of RpcSystem, for all      *)
(* clients, connections, calls, faults and services; the system implements *)
(* CallContract; and NotFoundExplained, along the server's place in the    *)
(* stream.                                                                 *)
(***************************************************************************)
EXTENDS RpcStepProofs

(* The way of an answer: from ran to the caller.                           *)

\* What ran has run: nothing is ever taken from the history.
Grows ==
  \A k \in Conns : \A i \in DOMAIN ran[k] : i \in DOMAIN ran'[k] /\ ran'[k][i] = ran[k][i]

\* The history of executions only grows.
LEMMA RanGrows == IInv /\ [Next]_vars => Grows
<1> SUFFICES ASSUME IInv, [Next]_vars PROVE Grows
  OBVIOUS
<1>1. UNCHANGED ran => Grows
  BY DEF Grows
<1>2. ASSUME NEW c \in Client, ClientNext(c), UNCHANGED serverVars PROVE Grows
  BY <1>1, <1>2 DEF serverVars
<1>3. ASSUME NEW k \in Conns, CallService(k) PROVE Grows
  <2> DEFINE R == [id : Nat, method : Method, body : Body]
             y == [id |-> reqHeader[k].id, method |-> reqHeader[k].method, body |-> request[k]]
  <2>1. ran[k] \in Seq(R) /\ y \in R
    BY DEF IInv, TypeOK, ServerTypeOK, RequestHeaders
  <2>2. ran'[k] = Append(ran[k], y) /\ \A j \in Conns : j # k => ran'[j] = ran[j]
    BY <1>3 DEF CallService, IInv, TypeOK, ServerTypeOK
  <2> HIDE DEF y, R
  <2> QED BY <2>1, <2>2, AppendFacts DEF Grows
<1>4. ASSUME NEW k \in Conns, RecvRequestHeader(k) \/ RecvRequestBody(k) PROVE Grows
  BY <1>1, <1>4 DEF RecvRequestHeader, RecvRequestBody
<1>5. Calm => Grows
  BY <1>1 DEF Calm
<1> QED BY <1>2, <1>3, <1>4, <1>5, ServerRequestEffect DEF Next, Terminated

\* The links of AnswersRan, one by one.
HeldAnswerRan ==
  \A k \in Conns :
    phase[k] \in {"sendHeader", "sendBody"} /\ response[k].err # NotFound =>
      RanWith(k, reqHeader[k].id, response[k].err, response[k].reply)
SentAnswerRan ==
  \A k \in Conns : \A i \in DOMAIN down[k] :
    down[k][i].tag = "ResponseHeader" /\ down[k][i].error # NotFound =>
      RanWith(k, down[k][i].id, down[k][i].error, down[k][i].checksum)
ReadAnswerRan ==
  \A c \in Client : pc[c] = "recvBody" =>
    /\ respHeader[c] # None
    /\ respHeader[c].checksum # NoSum /\ respHeader[c].error # NotFound =>
         RanWith(sock[c], respHeader[c].id, respHeader[c].error, respHeader[c].checksum)
AnswerOfCall == \A c \in Client : Answered(c) => call[c].conn \in Conns

\* AnswersRan is its four links.
LEMMA AnswersRanParts ==
  AnswersRan <=> HeldAnswerRan /\ SentAnswerRan /\ ReadAnswerRan /\ AnswerOfCall
  BY DEF AnswersRan, HeldAnswerRan, SentAnswerRan, ReadAnswerRan, AnswerOfCall

\* The call of client c has returned what an own answer, or no answer of
\* the service, is.
OwnAnswer(c) ==
  Answered(c) =>
    LET x == call[c]
        a == Handle[<<x.method, x.body>>] IN
    /\ x.conn \in Conns
    /\ Executed(x)
    /\ outcome[c].err = a.err
    /\ a.err = NoErr => outcome[c].reply = a.reply

\* OwnAnswer, client by client, is AnswerIsOwn.
LEMMA OwnAnswers == (\A c \in Client : OwnAnswer(c)) <=> AnswerIsOwn /\ AnswerOfCall
  BY DEF OwnAnswer, AnswerIsOwn, AnswerOfCall

\* An answer stays the call's own while its client does not return another.
LEMMA OwnAnswerStays ==
  ASSUME Grows, NEW c \in Client, OwnAnswer(c), outcome'[c] = outcome[c],
         call'[c] = call[c] \/ ~Answered(c)
  PROVE  OwnAnswer(c)'
  BY DEF OwnAnswer, Answered, Executed, RanAs, Grows

\* No error made on the way passes for an answer of the service.
LEMMA MadeErrors == LocalErr \notin ErrText /\ NotFound \notin ErrText /\ NoErr \in ErrText
  BY WireAssumption

\* The answer callMethod accepts is its call's own: the header's checksum
\* makes it a service answer that ran, and its id this call's.
LEMMA RecvBodyOwn ==
  ASSUME IInv, NEW c \in Client, RecvResponseBody(c), UNCHANGED ran
  PROVE  OwnAnswer(c)'
<1> DEFINE k == sock[c]
           x == call[c]
           h == respHeader[c]
           f == Head(down[k])
           e == Verdict(h, f, x)
           r == IF e = NoErr THEN ReplyPayload(f) ELSE NoReply
<1>0. TypeOK /\ OwnConn /\ IssuedOnce /\ ClientTypeOK
  BY DEF IInv, TypeOK
<1>1. pc[c] = "recvBody" /\ InCall(c) /\ ReadDown(k) /\ Return(c, e, r)
  BY DEF RecvResponseBody, InCall, IOStates
<1>2. k \in Conns /\ x \in issued[k] /\ x.conn = k
  BY <1>0, <1>1, CallInNat DEF IssuedOnce
<1>3. outcome'[c] = [err |-> e, reply |-> r] /\ call'[c] = x
  BY <1>0, <1>1 DEF Return, ClientTypeOK
<1>4. f \in DownFrames
  BY <1>0, <1>1, <1>2, TailFacts DEF ReadDown, TypeOK, NetTypeOK
<1>5. h \in ResponseHeaders
  BY <1>0, <1>1 DEF IInv, AnswersRan, ClientTypeOK
<1>6. h.checksum \in Reply \cup {NoSum}
  BY <1>5 DEF ResponseHeaders
<1>7. ASSUME e \in ErrText
      PROVE  /\ Executed(x)
             /\ e = Handle[<<x.method, x.body>>].err
             /\ e = NoErr => r = Handle[<<x.method, x.body>>].reply
  <2>1. Checksum(f) = h.checksum /\ h.id = x.id /\ e = h.error
    BY <1>7, MadeErrors DEF Verdict, ResponseAccepted
  <2>2. h.checksum # NoSum /\ ReplyPayload(f) = h.checksum
    BY <1>4, <1>6, <2>1, ReplyPayloadType
  <2>3. h.error # NotFound
    BY <1>7, <2>1, MadeErrors
  <2>4. RanWith(k, x.id, e, h.checksum)
    BY <1>1, <2>1, <2>2, <2>3 DEF IInv, AnswersRan
  <2> HIDE DEF e, h, f, x, k
  <2>5. PICK j \in DOMAIN ran[k] :
          /\ ran[k][j].id = x.id
          /\ Handle[<<ran[k][j].method, ran[k][j].body>>] = [err |-> e, reply |-> h.checksum]
    BY <2>4 DEF RanWith
  <2>6. PICK y \in issued[k] : ran[k][j] = RanAs(y)
    BY <1>2 DEF IInv, NoPhantomCall
  <2>7. y.id = x.id
    BY <2>5, <2>6 DEF RanAs
  <2>8. y = x
    BY <1>0, <1>2, <2>7 DEF IssuedOnce
  <2>9. Executed(x) /\ ran[k][j].method = x.method /\ ran[k][j].body = x.body
    BY <1>2, <2>6, <2>8 DEF Executed, RanAs
  <2> QED BY <2>2, <2>5, <2>9 DEF r
<1> HIDE DEF e, r, h, f, x, k
<1>8. Answered(c)' => e \in ErrText
  BY <1>3 DEF Answered
<1>9. Executed(x) => (ran' = ran => \E i \in DOMAIN ran'[x.conn] : ran'[x.conn][i] = RanAs(x))
  BY DEF Executed
<1> QED BY <1>2, <1>3, <1>7, <1>8, <1>9 DEF OwnAnswer, Answered, Executed, RanAs

\* An error made by the client is no answer.
LEMMA LocalReturn ==
  ASSUME ClientTypeOK, NEW c \in Client, NEW r,
         outcome' = [outcome EXCEPT ![c] = [err |-> LocalErr, reply |-> r]]
  PROVE  ~Answered(c)' /\ \A d \in Client : d # c => outcome'[d] = outcome[d]
  BY MadeErrors DEF ClientTypeOK, Answered

\* Every step leaves each client with no answer or its own.
LEMMA OwnAnswerStep == IInv /\ [Next]_vars => \A c \in Client : OwnAnswer(c)'
<1> SUFFICES ASSUME IInv, [Next]_vars, NEW d \in Client PROVE OwnAnswer(d)'
  OBVIOUS
<1>0. Grows /\ ClientTypeOK /\ OwnAnswer(d)
  BY RanGrows, OwnAnswers, AnswersRanParts DEF IInv, TypeOK
<1>1. ASSUME NEW c \in Client, ClientNext(c), UNCHANGED serverVars PROVE OwnAnswer(d)'
  <2>1. CASE RecvResponseBody(c)
    <3>1. UNCHANGED call /\ \A b \in Client : b # c => outcome'[b] = outcome[b]
      BY <1>0, <2>1 DEF RecvResponseBody, Return, ClientTypeOK
    <3>2. UNCHANGED ran
      BY <1>1 DEF serverVars
    <3> QED BY <1>0, <2>1, <3>1, <3>2, RecvBodyOwn, OwnAnswerStays
  <2>2. ASSUME NEW r, Return(c, LocalErr, r) PROVE OwnAnswer(d)'
    <3>1. UNCHANGED call /\ outcome' = [outcome EXCEPT ![c] = [err |-> LocalErr, reply |-> r]]
      BY <2>2 DEF Return
    <3>2. ~Answered(c)' /\ \A b \in Client : b # c => outcome'[b] = outcome[b]
      BY <1>0, <3>1, LocalReturn
    <3> QED BY <1>0, <3>1, <3>2, OwnAnswerStays DEF OwnAnswer
  <2>3. ASSUME NEW m \in Method, NEW b \in Body, BeginCall(c, m, b) PROVE OwnAnswer(d)'
    <3> PICK k \in Conns : Begun(c, k, m, b)
      BY <2>3, BeginEffect
    <3> /\ call' = [call EXCEPT ![c] = NewCall(c, k, m, b)]
        /\ \/ outcome' = [outcome EXCEPT ![c] = None]
           \/ outcome' = [outcome EXCEPT ![c] = [err |-> LocalErr, reply |-> NoReply]]
      BY DEF Begun
    <3>1. ~Answered(c)' /\ \A a \in Client : a # c => outcome'[a] = outcome[a]
      <4>1. CASE outcome' = [outcome EXCEPT ![c] = None]
        BY <1>0, <4>1 DEF ClientTypeOK, Answered
      <4> QED BY <1>0, <4>1, LocalReturn
    <3>2. d # c => call'[d] = call[d]
      BY <1>0 DEF ClientTypeOK
    <3> QED BY <1>0, <3>1, <3>2, OwnAnswerStays DEF OwnAnswer
  <2>4. CASE UNCHANGED <<call, outcome>>
    BY <1>0, <2>4, OwnAnswerStays
  <2>5. RecvResponseHeader(c) => Return(c, LocalErr, NoReply) \/ UNCHANGED <<call, outcome>>
    BY DEF RecvResponseHeader
  <2>6. CallFailsEarly(c) \/ ClientIOError(c) \/ ClientInterrupted(c) =>
          Return(c, LocalErr, NoReply)
    BY DEF CallFailsEarly, ClientIOError, ClientInterrupted
  <2>7. SendRequestHeader(c) \/ SendRequestBody(c) \/ CloseClient(c) \/ DestroyClient(c)
          => UNCHANGED <<call, outcome>>
    BY DEF SendRequestHeader, SendRequestBody, CloseClient, DestroyClient, GiveUpConn
  <2> QED BY <1>1, <2>1, <2>2, <2>3, <2>4, <2>5, <2>6, <2>7 DEF ClientNext, CallStep
<1>2. CASE UNCHANGED clientVars
  BY <1>0, <1>2, OwnAnswerStays DEF clientVars
<1> QED BY <1>1, <1>2, ServerQuiet DEF Next, Terminated

\* What the server holds to send, and what must have run for it.
Holds(k) == phase[k] \in {"sendHeader", "sendBody"} /\ response[k].err # NotFound
HeldRan(k) == RanWith(k, reqHeader[k].id, response[k].err, response[k].reply)

\* An answer held unchanged is still that of a call that ran.
LEMMA HeldStays ==
  ASSUME IInv, Grows, NEW k \in Conns, Holds(k),
         reqHeader'[k] = reqHeader[k], response'[k] = response[k]
  PROVE  HeldRan(k)'
<1>1. RanWith(k, reqHeader[k].id, response[k].err, response[k].reply)
  BY DEF Holds, IInv, AnswersRan
<1> QED BY <1>1 DEF Grows, RanWith, HeldRan

\* What SendResponse holds to send.
LEMMA RespondHolds ==
  ASSUME ServerTypeOK, NEW k \in Conns, NEW h, NEW res, Respond(k, h, res)
  PROVE  /\ \A j \in Conns : j # k =>
              phase'[j] = phase[j] /\ reqHeader'[j] = reqHeader[j] /\ response'[j] = response[j]
         /\ phase'[k] \in {"sendHeader", "sendBody"} => reqHeader'[k] = h /\ response'[k] = res
<1>1. CASE SendFails(k, res)
  <2>1. PICK l \in {"recvHeader", "closing"} : Finish(k, l)
    BY <1>1, SendFailsFinishes
  <2> QED BY <2>1 DEF Finish, Goes, ServerTypeOK
<1>2. CASE /\ Goes(k, "sendHeader")
           /\ reqHeader' = [reqHeader EXCEPT ![k] = h]
           /\ response' = [response EXCEPT ![k] = res]
  BY <1>2 DEF Goes, ServerTypeOK
<1> QED BY <1>1, <1>2 DEF Respond

\* Leaving ProcessOneCall holds nothing new.
LEMMA FinishHolds ==
  ASSUME ServerTypeOK, NEW k \in Conns, NEW l \in {"recvHeader", "closing"}, Finish(k, l)
  PROVE  \A j \in Conns : Holds(j)' =>
           Holds(j) /\ reqHeader'[j] = reqHeader[j] /\ response'[j] = response[j]
  BY DEF Finish, Goes, Holds, ServerTypeOK

\* The first link of AnswersRan is preserved,
LEMMA HeldStep == IInv /\ [Next]_vars => HeldAnswerRan'
<1> SUFFICES ASSUME IInv, [Next]_vars, NEW j \in Conns, Holds(j)' PROVE HeldRan(j)'
  BY DEF HeldAnswerRan, Holds, HeldRan
<1> DEFINE Same == Holds(j) /\ reqHeader'[j] = reqHeader[j] /\ response'[j] = response[j]
<1>0. Grows /\ ServerTypeOK
  BY RanGrows DEF IInv, TypeOK
<1>1. Same => HeldRan(j)'
  BY <1>0, HeldStays
<1>2. CASE UNCHANGED serverVars
  BY <1>1, <1>2 DEF serverVars, Holds
<1>3. ASSUME NEW k \in Conns, RecvRequestHeader(k) PROVE HeldRan(j)'
  <2> DEFINE h == ParseRequestHeader(Head(up[k]))
             res == [err |-> NotFound, reply |-> NoReply]
  <2>1. \/ Finish(k, "closing")
        \/ Goes(k, "recvBody") /\ reqHeader' = [reqHeader EXCEPT ![k] = h] /\ UNCHANGED response
        \/ Respond(k, h, res)
    BY <1>3 DEF RecvRequestHeader
  <2>2. CASE Finish(k, "closing")
    BY <1>0, <1>1, <2>2, FinishHolds
  <2>3. CASE Goes(k, "recvBody") /\ reqHeader' = [reqHeader EXCEPT ![k] = h] /\ UNCHANGED response
    BY <1>0, <1>1, <2>3 DEF Goes, Holds, ServerTypeOK
  <2>4. CASE Respond(k, h, res)
    BY <1>0, <1>1, <2>4, RespondHolds DEF Holds
  <2> QED BY <2>1, <2>2, <2>3, <2>4
<1>4. ASSUME NEW k \in Conns, RecvRequestBody(k) PROVE HeldRan(j)'
  <2>1. \/ Finish(k, "closing")
        \/ Goes(k, "call") /\ UNCHANGED <<reqHeader, response>>
    BY <1>4 DEF RecvRequestBody
  <2>2. CASE Finish(k, "closing")
    BY <1>0, <1>1, <2>2, FinishHolds
  <2>3. CASE Goes(k, "call") /\ UNCHANGED <<reqHeader, response>>
    BY <1>0, <1>1, <2>3 DEF Goes, Holds, ServerTypeOK
  <2> QED BY <2>1, <2>2, <2>3
<1>5. ASSUME NEW k \in Conns, CallService(k) PROVE HeldRan(j)'
  <2> DEFINE R == [id : Nat, method : Method, body : Body]
             y == [id |-> reqHeader[k].id, method |-> reqHeader[k].method, body |-> request[k]]
             res == Handle[<<reqHeader[k].method, request[k]>>]
  <2>1. ran' = [ran EXCEPT ![k] = Append(@, y)] /\ Respond(k, reqHeader[k], res)
    BY <1>5 DEF CallService
  <2>2. CASE j # k
    BY <1>0, <1>1, <2>1, <2>2, RespondHolds DEF Holds
  <2>3. CASE j = k
    <3>1. reqHeader'[k] = reqHeader[k] /\ response'[k] = res
      BY <1>0, <2>1, <2>3, RespondHolds DEF Holds
    <3>2. res = [err |-> res.err, reply |-> res.reply]
      <4>1. res \in [err : ErrText, reply : Reply]
        BY <1>0, <1>5, ServerAssumption DEF CallService, IInv, RequestsIssued, ServerTypeOK
      <4> QED BY <4>1
    <3>3. ran[k] \in Seq(R) /\ y \in R /\ ran'[k] = Append(ran[k], y)
      BY <1>0, <2>1 DEF ServerTypeOK, RequestHeaders
    <3>4. y.id = reqHeader[k].id /\ Handle[<<y.method, y.body>>] = res
      OBVIOUS
    <3> HIDE DEF y, R, res
    <3>5. PICK i \in DOMAIN ran'[k] : ran'[k][i] = y
      BY <3>3, AppendFacts
    <3> QED BY <2>3, <3>1, <3>2, <3>4, <3>5 DEF RanWith, HeldRan
  <2> QED BY <2>2, <2>3
<1>6. ASSUME NEW k \in Conns, SendResponseHeader(k) PROVE HeldRan(j)'
  BY <1>0, <1>1, <1>6 DEF SendResponseHeader, Goes, Holds, ServerTypeOK
<1>7. ASSUME NEW k \in Conns, SendResponseBody(k) PROVE HeldRan(j)'
  BY <1>0, <1>1, <1>7, FinishHolds DEF SendResponseBody
<1>8. ASSUME NEW k \in Conns, ServerIOError(k) \/ ServerInterrupted(k) PROVE HeldRan(j)'
  <2>1. \E l \in {"recvHeader", "closing"} : Finish(k, l)
    BY <1>8, SendFailsFinishes DEF ServerIOError, ServerInterrupted, GiveUpCall
  <2> QED BY <1>0, <1>1, <2>1, FinishHolds
<1>9. ASSUME NEW k \in Conns, Accept(k) \/ StartJob(k) \/ DestroyServerConn(k) PROVE HeldRan(j)'
  BY <1>0, <1>1, <1>9 DEF Accept, StartJob, DestroyServerConn, Goes, Holds, ServerTypeOK
<1>10. AcceptError \/ StartBadJob => HeldRan(j)'
  BY <1>1 DEF AcceptError, StartBadJob, Holds
<1>11. ServerNext => HeldRan(j)'
  BY <1>3, <1>4, <1>5, <1>6, <1>7, <1>8, <1>9, <1>10 DEF ServerNext, JobStep
<1>12. ASSUME NEW c \in Client, ClientNext(c), UNCHANGED serverVars PROVE HeldRan(j)'
  BY <1>2, <1>12
<1>13. Network \/ UNCHANGED vars => UNCHANGED serverVars
  BY DEF Network, vars
<1> QED BY <1>2, <1>11, <1>12, <1>13 DEF Next, Terminated

\* What may become of the frames to a client: nothing new but what the
\* server sends.
LEMMA DownEffect ==
  ASSUME IInv, [Next]_vars
  PROVE  \/ \A k \in Conns : down'[k] = down[k] \/ down'[k] = <<>> \/
              (down[k] # <<>> /\ down'[k] = Tail(down[k]))
         \/ \E k \in Conns :
              SendResponseHeader(k) \/ SendResponseBody(k)
<1>0. TypeOK /\ down \in [Conns -> Seq(DownFrames)]
  BY DEF IInv, TypeOK, NetTypeOK
<1> DEFINE Less == \A k \in Conns : down'[k] = down[k] \/ down'[k] = <<>> \/
              (down[k] # <<>> /\ down'[k] = Tail(down[k]))
<1>1. UNCHANGED down => Less
  OBVIOUS
<1>2. \A k \in Conns : Abort(k) \/ ReadDown(k) => Less
  BY <1>0 DEF Abort, ReadDown
<1>3. ASSUME NEW k \in Conns, NEW f, WriteUp(k, f) PROVE Less
  BY <1>1, <1>2, <1>3 DEF WriteUp
<1>4. ASSUME NEW k \in Conns, CloseCli(k) \/ CloseSrv(k) PROVE Less
  BY <1>0, <1>1, <1>2, <1>4 DEF CloseCli, CloseSrv
<1> HIDE DEF Less
<1>5. ASSUME NEW c \in Client, ClientNext(c) PROVE Less
  <2>1. InCall(c) => sock[c] \in Conns
    BY CallInNat DEF IInv
  <2>2. SendRequestHeader(c) \/ SendRequestBody(c) => Less
    BY <1>3, <2>1 DEF SendRequestHeader, SendRequestBody, InCall, IOStates
  <2>3. RecvResponseHeader(c) \/ RecvResponseBody(c) => Less
    BY <1>2, <2>1 DEF RecvResponseHeader, RecvResponseBody, InCall, IOStates
  <2>4. CallFailsEarly(c) \/ ClientIOError(c) \/ ClientInterrupted(c) => Less
    BY <1>1 DEF CallFailsEarly, ClientIOError, ClientInterrupted, netVars
  <2>5. ASSUME NEW m \in Method, NEW b \in Body, BeginCall(c, m, b) PROVE Less
    <3> PICK k \in Conns : Begun(c, k, m, b)
      BY <2>5, BeginEffect
    <3> Connected(c, k)
      BY DEF Begun
    <3> QED BY <1>0, <1>1, ConnectedEffect DEF IInv
  <2>6. ASSUME NEW l, GiveUpConn(c, l) PROVE Less
    <3>1. sock[c] \in Conns \cup {NoConn}
      BY DEF IInv, TypeOK, ClientTypeOK
    <3> QED BY <1>1, <1>4, <2>6, <3>1 DEF GiveUpConn, netVars
  <2> QED
    BY <1>5, <2>2, <2>3, <2>4, <2>5, <2>6 DEF ClientNext, CallStep, CloseClient, DestroyClient
<1>6. Network => Less
  BY <1>2 DEF Network, Break
<1>7. ASSUME NEW k \in Conns, DestroyServerConn(k) PROVE Less
  BY <1>4, <1>7 DEF DestroyServerConn
<1>8. ASSUME NEW k \in Conns, RecvRequestHeader(k) \/ RecvRequestBody(k) PROVE Less
  BY <1>1, <1>8 DEF RecvRequestHeader, RecvRequestBody, ReadUp
<1>9. ASSUME NEW k \in Conns,
             CallService(k) \/ ServerIOError(k) \/ ServerInterrupted(k) \/ Accept(k) \/ StartJob(k)
      PROVE  Less
  BY <1>1, <1>9 DEF CallService, ServerIOError, ServerInterrupted, Accept, AcceptHead, StartJob,
     netVars
<1>10. AcceptError \/ StartBadJob \/ UNCHANGED vars => Less
  BY <1>1 DEF AcceptError, StartBadJob, vars, netVars
<1>11. ServerNext => Less \/ \E k \in Conns : SendResponseHeader(k) \/ SendResponseBody(k)
  BY <1>7, <1>8, <1>9, <1>10 DEF ServerNext, JobStep
<1>12. Less \/ \E k \in Conns : SendResponseHeader(k) \/ SendResponseBody(k)
  BY <1>5, <1>6, <1>10, <1>11 DEF Next, Terminated
<1> QED BY <1>12 DEF Less

\* then the second,
LEMMA SentStep == IInv /\ [Next]_vars => SentAnswerRan'
<1> SUFFICES ASSUME IInv, [Next]_vars PROVE SentAnswerRan'
  OBVIOUS
<1> DEFINE Fine(k, f) ==
      f.tag = "ResponseHeader" /\ f.error # NotFound => RanWith(k, f.id, f.error, f.checksum)
<1>0. Grows /\ down \in [Conns -> Seq(DownFrames)]
  BY RanGrows DEF IInv, TypeOK, NetTypeOK
<1>1. \A k \in Conns : \A i \in DOMAIN down[k] : Fine(k, down[k][i])
  BY DEF IInv, AnswersRan
<1> HIDE DEF Fine
<1>2. \A k \in Conns : \A i \in DOMAIN down'[k] : Fine(k, down'[k][i])
  <2>1. CASE \A k \in Conns : down'[k] = down[k] \/ down'[k] = <<>> \/
              (down[k] # <<>> /\ down'[k] = Tail(down[k]))
    <3> SUFFICES ASSUME NEW k \in Conns, NEW i \in DOMAIN down'[k] PROVE Fine(k, down'[k][i])
      OBVIOUS
    <3>1. CASE down'[k] = down[k]
      BY <1>1, <3>1
    <3>2. CASE down'[k] = <<>>
      BY <3>2
    <3>3. CASE down[k] # <<>> /\ down'[k] = Tail(down[k])
      <4>1. i + 1 \in DOMAIN down[k] /\ down'[k][i] = down[k][i + 1]
        BY <1>0, <3>3, TailFacts
      <4> QED BY <1>1, <4>1
    <3> QED BY <2>1, <3>1, <3>2, <3>3
  <2>2. ASSUME NEW k \in Conns, NEW f \in DownFrames, WriteDown(k, f), Fine(k, f)
        PROVE  \A j \in Conns : \A i \in DOMAIN down'[j] : Fine(j, down'[j][i])
    <3>1. CASE down' = [down EXCEPT ![k] = Append(@, f)]
      <4> SUFFICES ASSUME NEW j \in Conns, NEW i \in DOMAIN down'[j] PROVE Fine(j, down'[j][i])
        OBVIOUS
      <4>1. CASE j # k
        BY <1>0, <1>1, <3>1, <4>1
      <4>2. CASE j = k
        <5>1. \/ i \in DOMAIN down[k] /\ down'[k][i] = down[k][i]
              \/ down'[k][i] = f
          BY <1>0, <3>1, <4>2, AppendFacts
        <5> QED BY <1>1, <2>2, <4>2, <5>1
      <4> QED BY <4>1, <4>2
    <3>2. CASE down' = down \/ down' = [down EXCEPT ![k] = <<>>]
      BY <1>0, <1>1, <3>2
    <3> QED BY <2>2, <3>1, <3>2 DEF WriteDown, Abort
  <2>3. ASSUME NEW k \in Conns, SendResponseHeader(k)
        PROVE  \A j \in Conns : \A i \in DOMAIN down'[j] : Fine(j, down'[j][i])
    <3> DEFINE f == ResponseHeader(reqHeader[k].id, response[k].err, response[k].reply)
    <3>1. f \in DownFrames
      BY ResponseHeaderType DEF IInv, TypeOK, ServerTypeOK, RequestHeaders
    <3>2. Fine(k, f)
      BY <2>3 DEF Fine, SendResponseHeader, ResponseHeader, IInv, AnswersRan
    <3> QED BY <2>2, <2>3, <3>1, <3>2 DEF SendResponseHeader
  <2>4. ASSUME NEW k \in Conns, SendResponseBody(k)
        PROVE  \A j \in Conns : \A i \in DOMAIN down'[j] : Fine(j, down'[j][i])
    <3> DEFINE f == ResponseBody(response[k].reply)
    <3>1. f \in DownFrames
      BY ResponseBodyType DEF IInv, TypeOK, ServerTypeOK
    <3>2. Fine(k, f)
      BY DEF Fine, ResponseBody
    <3> QED BY <2>2, <2>4, <3>1, <3>2 DEF SendResponseBody
  <2> QED BY <2>1, <2>3, <2>4, DownEffect
<1>3. ASSUME NEW k \in Conns, NEW i \in DOMAIN down'[k],
             down'[k][i].tag = "ResponseHeader", down'[k][i].error # NotFound
      PROVE  RanWith(k, down[k][i].id, down[k][i].error, down[k][i].checksum)'
  <2>1. RanWith(k, down'[k][i].id, down'[k][i].error, down'[k][i].checksum)
    BY <1>2, <1>3 DEF Fine
  <2> QED BY <1>0, <2>1 DEF Grows, RanWith
<1> QED BY <1>3 DEF SentAnswerRan

\* What must have run for the header client c has read.
ReadRan(c) ==
  /\ respHeader[c] # None
  /\ respHeader[c].checksum # NoSum /\ respHeader[c].error # NotFound =>
       RanWith(sock[c], respHeader[c].id, respHeader[c].error, respHeader[c].checksum)

\* and the third.
LEMMA ReadStep == IInv /\ [Next]_vars => ReadAnswerRan'
<1> SUFFICES ASSUME IInv, [Next]_vars, NEW d \in Client, pc'[d] = "recvBody" PROVE ReadRan(d)'
  BY DEF ReadAnswerRan, ReadRan
<1>0. TypeOK /\ OwnConn /\ Grows /\ ClientTypeOK /\ down \in [Conns -> Seq(DownFrames)]
  BY RanGrows DEF IInv, TypeOK, NetTypeOK
<1>1. ASSUME pc[d] = "recvBody", sock'[d] = sock[d], respHeader'[d] = respHeader[d] PROVE ReadRan(d)'
  <2>1. sock[d] \in Conns
    BY <1>0, <1>1, CallInNat DEF InCall, IOStates
  <2>2. /\ respHeader[d] # None
        /\ respHeader[d].checksum # NoSum /\ respHeader[d].error # NotFound =>
             RanWith(sock[d], respHeader[d].id, respHeader[d].error, respHeader[d].checksum)
    BY <1>1 DEF IInv, AnswersRan
  <2> QED BY <1>0, <1>1, <2>1, <2>2 DEF ReadRan, Grows, RanWith
<1>2. ASSUME NEW c \in Client, ClientNext(c) PROVE ReadRan(d)'
  <2>1. CASE c = d /\ RecvResponseHeader(c)
    <3> DEFINE k == sock[d]
               f == Head(down[k])
               h == ParseResponseHeader(f)
    <3>1. k \in Conns /\ ReadDown(k)
      BY <1>0, <2>1, CallInNat DEF RecvResponseHeader, InCall, IOStates
    <3>2. respHeader'[d] = h /\ h # Malformed /\ sock'[d] = k
      BY <1>0, <2>1 DEF RecvResponseHeader, Return, Goto, ClientTypeOK
    <3>3. f \in DownFrames /\ 1 \in DOMAIN down[k] /\ f = down[k][1]
      BY <1>0, <3>1, TailFacts DEF ReadDown
    <3>4. h \in ResponseHeaders /\ (h.checksum # NoSum => h = f)
      BY <3>2, <3>3, ParseResponseType
    <3>5. h.checksum # NoSum /\ h.error # NotFound => RanWith(k, h.id, h.error, h.checksum)
      BY <3>1, <3>3, <3>4 DEF IInv, AnswersRan, ResponseHeaders
    <3>6. h # None
      BY <3>4, ClientAssumption
    <3> HIDE DEF h, f
    <3>7. h.checksum # NoSum /\ h.error # NotFound =>
            \E j \in DOMAIN ran'[k] :
              /\ ran'[k][j].id = h.id
              /\ Handle[<<ran'[k][j].method, ran'[k][j].body>>] =
                   [err |-> h.error, reply |-> h.checksum]
      BY <1>0, <3>1, <3>5 DEF Grows, RanWith
    <3> QED BY <3>2, <3>6, <3>7 DEF ReadRan, RanWith
  <2>2. CASE c # d \/ ~RecvResponseHeader(c)
    <3>1. pc[d] = "recvBody" /\ sock'[d] = sock[d] /\ respHeader'[d] = respHeader[d]
      <4>1. ASSUME NEW e, NEW r, Return(c, e, r)
            PROVE  pc[d] = "recvBody" /\ sock'[d] = sock[d] /\ respHeader'[d] = respHeader[d]
        BY <1>0, <4>1 DEF Return, Goto, ClientTypeOK
      <4>2. ASSUME NEW m \in Method, NEW b \in Body, BeginCall(c, m, b)
            PROVE  pc[d] = "recvBody" /\ sock'[d] = sock[d] /\ respHeader'[d] = respHeader[d]
        <5>0. PICK k \in Conns : Begun(c, k, m, b)
          BY <4>2, BeginEffect
        <5>1. /\ pc[c] = "idle" /\ sock' = [sock EXCEPT ![c] = k] /\ UNCHANGED respHeader
              /\ pc' = [pc EXCEPT ![c] = "sendHeader"] \/ UNCHANGED pc
          BY <5>0 DEF Begun
        <5> QED BY <1>0, <5>1 DEF ClientTypeOK
      <4>3. ASSUME NEW l \in {"idle", "destroyed"}, GiveUpConn(c, l)
            PROVE  pc[d] = "recvBody" /\ sock'[d] = sock[d] /\ respHeader'[d] = respHeader[d]
        BY <1>0, <4>3 DEF GiveUpConn, Goto, ClientTypeOK
      <4>4. SendRequestHeader(c) \/ SendRequestBody(c) =>
              pc[d] = "recvBody" /\ sock'[d] = sock[d] /\ respHeader'[d] = respHeader[d]
        BY <1>0 DEF SendRequestHeader, SendRequestBody, Goto, ClientTypeOK
      <4>5. c # d /\ RecvResponseHeader(c) =>
              pc[d] = "recvBody" /\ sock'[d] = sock[d] /\ respHeader'[d] = respHeader[d]
        BY <1>0 DEF RecvResponseHeader, Return, Goto, ClientTypeOK
      <4> QED
        BY <1>2, <2>2, <4>1, <4>2, <4>3, <4>4, <4>5
        DEF ClientNext, CallStep, CallFailsEarly, RecvResponseBody, ClientIOError,
            ClientInterrupted, CloseClient, DestroyClient
    <3> QED BY <1>1, <3>1
  <2> QED BY <2>1, <2>2
<1>3. CASE UNCHANGED clientVars
  BY <1>1, <1>3 DEF clientVars
<1> QED BY <1>2, <1>3, ServerQuiet DEF Next, Terminated

\* Unanswered is preserved: an outcome comes with the return from the call.
LEMMA UnansweredStep == IInv /\ [Next]_vars => Unanswered'
<1> SUFFICES ASSUME IInv, [Next]_vars PROVE Unanswered'
  OBVIOUS
<1>0. ClientTypeOK /\ Unanswered
  BY DEF IInv, TypeOK
<1>1. ASSUME NEW c \in Client, ClientNext(c) PROVE Unanswered'
  <2>1. ASSUME NEW e, NEW r, Return(c, e, r) PROVE Unanswered'
    BY <1>0, <2>1 DEF Return, Goto, Unanswered, InCall, IOStates, ClientTypeOK
  <2>2. ASSUME NEW m \in Method, NEW b \in Body, BeginCall(c, m, b) PROVE Unanswered'
    <3>1. \/ pc' = [pc EXCEPT ![c] = "sendHeader"] /\ outcome' = [outcome EXCEPT ![c] = None]
          \/ /\ pc[c] = "idle" /\ UNCHANGED pc
             /\ outcome' = [outcome EXCEPT ![c] = [err |-> LocalErr, reply |-> NoReply]]
      BY <2>2, BeginEffect DEF Begun
    <3> QED BY <1>0, <3>1 DEF Unanswered, InCall, IOStates, ClientTypeOK
  <2>3. ASSUME NEW l \in {"idle", "destroyed"}, GiveUpConn(c, l) PROVE Unanswered'
    BY <1>0, <2>3 DEF GiveUpConn, Goto, Unanswered, InCall, IOStates, ClientTypeOK
  <2>4. SendRequestHeader(c) \/ SendRequestBody(c) => Unanswered'
    BY <1>0 DEF SendRequestHeader, SendRequestBody, Goto, Unanswered, InCall, IOStates, ClientTypeOK
  <2>5. RecvResponseHeader(c) =>
          Unanswered' \/ \E e, r : Return(c, e, r)
    BY <1>0 DEF RecvResponseHeader, Goto, Unanswered, InCall, IOStates, ClientTypeOK
  <2> QED
    BY <1>1, <2>1, <2>2, <2>3, <2>4, <2>5
    DEF ClientNext, CallStep, CallFailsEarly, RecvResponseBody, ClientIOError, ClientInterrupted,
        CloseClient, DestroyClient
<1>2. CASE UNCHANGED clientVars
  BY <1>0, <1>2 DEF Unanswered, InCall, clientVars
<1> QED BY <1>1, <1>2, ServerQuiet DEF Next, Terminated

-----------------------------------------------------------------------------
(* The invariant, and the theorems it was made for.                        *)

\* The invariant holds initially,
LEMMA InitInvariant == Init => IInv
<1> SUFFICES ASSUME Init PROVE IInv
  OBVIOUS
<1>1. TypeOK
  BY TypeInit
<1> USE DEF Init, NetInit, ClientInit, ServerInit
<1>2. OwnConn /\ IssuedOnce
  BY DEF OwnConn, IssuedOnce, InCall, IOStates
<1>3. RequestsIssued /\ IdsAscend
  BY DEF RequestsIssued, Engaged, IdsAscend, StreamAscends, PastBelowStream, PastBelowHeld,
     AllBelowUnsent
<1>4. AnswersRan /\ AnswerIsOwn /\ Unanswered
  BY DEF AnswersRan, AnswerIsOwn, Answered, Unanswered
<1>5. NoPhantomCall /\ ExecutedInOrder
  BY DEF NoPhantomCall, ExecutedInOrder
<1> QED BY <1>1, <1>2, <1>3, <1>4, <1>5 DEF IInv

\* and every step preserves it.
LEMMA InvariantStep == IInv /\ [Next]_vars => IInv'
<1> SUFFICES ASSUME IInv, [Next]_vars PROVE IInv'
  OBVIOUS
<1>1. TypeOK' /\ OwnConn' /\ IssuedOnce' /\ Pipeline'
  BY TypeStep, OwnConnStep, IssuedOnceStep, PipelineStep
<1>2. AnswerIsOwn' /\ AnswerOfCall'
  BY OwnAnswerStep DEF OwnAnswer, AnswerIsOwn, AnswerOfCall, Answered, Executed, RanAs
<1>3. HeldAnswerRan' /\ SentAnswerRan' /\ ReadAnswerRan'
  BY HeldStep, SentStep, ReadStep
<1>4. AnswersRan'
  BY <1>2, <1>3 DEF AnswersRan, HeldAnswerRan, SentAnswerRan, ReadAnswerRan, AnswerOfCall
<1> QED BY <1>1, <1>2, <1>4, UnansweredStep DEF IInv, Pipeline

(* In every behaviour of the system the whole chain of RpcInvariant holds. *)
THEOREM Invariance == Spec => []IInv
<1>1. Init => IInv
  BY InitInvariant
<1>2. IInv /\ [Next]_vars => IInv'
  BY InvariantStep
<1> QED BY <1>1, <1>2, PTL DEF Spec

(* Every variable of clients, connections and server keeps its type.       *)
THEOREM TypeCorrect == Spec => []TypeOK
<1>1. IInv => TypeOK
  BY DEF IInv
<1> QED BY <1>1, Invariance, PTL

(* CallMethod never takes another call's answer, a late one or one that    *)
(* was never given for its own.                                            *)
THEOREM AnswersAreOwn == Spec => []AnswerIsOwn
<1>1. IInv => AnswerIsOwn
  BY DEF IInv
<1> QED BY <1>1, Invariance, PTL

(* ProcessOneCall executes nothing that no client asked for.               *)
THEOREM NoPhantoms == Spec => []NoPhantomCall
<1>1. IInv => NoPhantomCall
  BY DEF IInv
<1> QED BY <1>1, Invariance, PTL

(* On a connection calls are executed in order and at most once.           *)
THEOREM InOrderOnce == Spec => []ExecutedInOrder
<1>1. IInv => ExecutedInOrder
  BY DEF IInv
<1> QED BY <1>1, Invariance, PTL

-----------------------------------------------------------------------------
(* The system implements CallContract.  A begun call is Begin, one refused *)
(* or failed on the client's side is Refuse, an answer taken is Return,    *)
(* CallService is Execute; every other step changes nothing the contract   *)
(* speaks of.                                                              *)

\* The initial states are initial states of the contract.
LEMMA ContractInit == Init => Contract!Init
  BY DEF Init, ClientInit, ServerInit, Contract!Init

\* Steps that leave the contract's variables alone.
Invisible == UNCHANGED <<issued, ran, call, outcome>>

\* An error made on the client's side is a Refuse of the contract.
LEMMA RefuseStep ==
  ASSUME IInv, NEW c \in Client, NEW e \in {NotFound, LocalErr}, UNCHANGED <<issued, ran>>,
         outcome' = [outcome EXCEPT ![c] = [err |-> e, reply |-> NoReply]],
         \A d \in Client : d # c => call'[d] = call[d], call' \in [Client -> Calls \cup {NoCall}]
  PROVE  Contract!Refuse(c)
<1>0. ClientTypeOK
  BY DEF IInv, TypeOK
<1>1. outcome'[c] # None /\ outcome'[c].err = e
  BY <1>0, ClientAssumption, WireAssumption DEF ClientTypeOK, Errors
<1>2. call' = [call EXCEPT ![c] = call'[c]]
  BY <1>0 DEF ClientTypeOK
<1> QED BY <1>0, <1>1, <1>2 DEF Contract!Refuse

\* Beginning a call is a Begin, or a Refuse if its header is too large.
LEMMA BeginStep ==
  ASSUME IInv, [Next]_vars, NEW c \in Client, NEW m \in Method, NEW b \in Body,
         BeginCall(c, m, b), UNCHANGED ran
  PROVE  Contract!Begin(c) \/ Contract!Refuse(c)
<1> PICK k \in Conns : Begun(c, k, m, b)
  BY BeginEffect
<1> /\ Connected(c, k)
    /\ sock' = [sock EXCEPT ![c] = k]
    /\ call' = [call EXCEPT ![c] = NewCall(c, k, m, b)]
    /\ \/ /\ issued' = [issued EXCEPT ![k] = @ \cup {NewCall(c, k, m, b)}]
          /\ outcome' = [outcome EXCEPT ![c] = None]
       \/ /\ UNCHANGED <<pc, issued>>
          /\ outcome' = [outcome EXCEPT ![c] = [err |-> LocalErr, reply |-> NoReply]]
  BY DEF Begun
<1>0. TypeOK /\ OwnConn /\ IssuedOnce /\ ClientTypeOK
  BY DEF IInv, TypeOK
<1>1. /\ call'[c] = NewCall(c, k, m, b)
      /\ NewCall(c, k, m, b).conn = k /\ NewCall(c, k, m, b).id = seq[c]
  BY <1>0, NewCallFields DEF ClientTypeOK
<1>2. \A y \in issued[k] : y.id < seq[c]
  <2>1. sock[c] = k \/ cliEnd[k] = "unused"
    BY <1>0, ConnectedEffect
  <2> QED BY <1>0, <2>1, TransportAssumption DEF IssuedOnce
<1>3. CASE /\ UNCHANGED issued
           /\ outcome' = [outcome EXCEPT ![c] = [err |-> LocalErr, reply |-> NoReply]]
  <2>1. /\ \A d \in Client : d # c => call'[d] = call[d]
        /\ call' \in [Client -> Calls \cup {NoCall}]
    BY <1>0, TypeStep DEF TypeOK, ClientTypeOK
  <2> QED BY <1>3, <2>1, RefuseStep
<1>4. CASE /\ issued' = [issued EXCEPT ![k] = @ \cup {NewCall(c, k, m, b)}]
           /\ outcome' = [outcome EXCEPT ![c] = None]
  BY <1>1, <1>2, <1>4 DEF Contract!Begin
<1> QED BY <1>3, <1>4

\* An answer taken for a service's is a Return, any other a Refuse.
LEMMA ReturnStep ==
  ASSUME IInv, NEW c \in Client, RecvResponseBody(c), UNCHANGED ran
  PROVE  Contract!Return(c) \/ Contract!Refuse(c)
<1> DEFINE x == call[c]
           f == Head(down[sock[c]])
           e == Verdict(respHeader[c], f, x)
           r == IF e = NoErr THEN ReplyPayload(f) ELSE NoReply
<1>0. TypeOK /\ OwnConn /\ IssuedOnce /\ ClientTypeOK
  BY DEF IInv, TypeOK
<1>1. /\ pc[c] = "recvBody" /\ InCall(c) /\ outcome[c] = None
      /\ outcome' = [outcome EXCEPT ![c] = [err |-> e, reply |-> r]]
      /\ UNCHANGED <<issued, ran, call>>
  BY DEF RecvResponseBody, Return, InCall, IOStates, IInv, Unanswered
<1>2. x.conn \in Conns /\ x \in issued[x.conn]
  BY <1>0, <1>1, CallInNat DEF IssuedOnce
<1>3. e \in ErrText \cup {NotFound, LocalErr}
  <2>1. respHeader[c] \in ResponseHeaders
    BY <1>0, <1>1 DEF IInv, AnswersRan, ClientTypeOK
  <2> QED BY <2>1 DEF Verdict, ResponseHeaders
<1>4. CASE e \in {NotFound, LocalErr}
  <2>1. r = NoReply
    BY <1>4, MadeErrors
  <2> HIDE DEF e, r
  <2> QED BY <1>0, <1>1, <1>4, <2>1, RefuseStep DEF ClientTypeOK
<1>5. CASE e \in ErrText
  <2> HIDE DEF e, r
  <2>1. outcome'[c] = [err |-> e, reply |-> r]
    BY <1>0, <1>1 DEF ClientTypeOK
  <2>2. Answered(c)'
    <3>1. r \in Reply
      <4>1. f \in DownFrames
        BY <1>0, <1>1, CallInNat, TailFacts
        DEF RecvResponseBody, ReadDown, TypeOK, NetTypeOK
      <4> QED BY <4>1, ReplyPayloadType, WireAssumption DEF r
    <3> QED BY <1>5, <2>1, <3>1, ClientAssumption DEF Answered, Errors
  <2>3. /\ \E i \in DOMAIN ran[x.conn] : ran[x.conn][i] = RanAs(x)
        /\ e = Handle[<<x.method, x.body>>].err
        /\ e = NoErr => r = Handle[<<x.method, x.body>>].reply
    BY <1>1, <2>1, <2>2, RecvBodyOwn DEF OwnAnswer, Executed, RanAs
  <2>4. r = IF e = NoErr THEN Handle[<<x.method, x.body>>].reply ELSE NoReply
    BY <2>3 DEF r
  <2>5. outcome'[c] # None
    BY <2>2 DEF Answered
  <2>6. Contract!Done(x)
    BY <2>3 DEF Contract!Done, Contract!AsRun, RanAs
  <2>7. outcome'[c].err = e
    BY <2>1
  <2>8. outcome' = [outcome EXCEPT ![c] =
          [err |-> e, reply |-> IF e = NoErr THEN Handle[<<x.method, x.body>>].reply ELSE NoReply]]
    BY <1>1, <2>4
  <2> HIDE DEF x
  <2> QED
    BY <1>1, <1>2, <2>3, <2>5, <2>6, <2>7, <2>8 DEF Contract!Return, x
<1> QED BY <1>3, <1>4, <1>5

\* CallService is an Execute.
LEMMA ExecuteStep ==
  ASSUME IInv, NEW k \in Conns, CallService(k), UNCHANGED clientVars
  PROVE  Contract!Execute(k)
<1> DEFINE y == [id |-> reqHeader[k].id, method |-> reqHeader[k].method, body |-> request[k]]
<1>0. ServerTypeOK
  BY DEF IInv, TypeOK
<1>1. ran' = [ran EXCEPT ![k] = Append(@, y)] /\ UNCHANGED <<issued, call, outcome>>
  BY DEF CallService, clientVars
<1>2. request[k] = reqHeader[k].checksum /\ Engaged(k)
  BY <1>0, WireAssumption DEF CallService, IInv, RequestsIssued, ServerTypeOK, Engaged
<1>3. PICK x \in issued[k] : reqHeader[k] = AsHeader(x)
  BY <1>2 DEF IInv, RequestsIssued
<1>4. reqHeader[k].id = x.id /\ reqHeader[k].method = x.method /\ reqHeader[k].checksum = x.body
  BY <1>3 DEF AsHeader, RequestHeader
<1>5. y = Contract!AsRun(x)
  BY <1>2, <1>4 DEF Contract!AsRun
<1>6. \A i \in DOMAIN ran[k] : ran[k][i].id < x.id
  BY <1>2, <1>4 DEF IInv, IdsAscend, PastBelowHeld, RanBelow
<1> HIDE DEF y
<1> QED BY <1>1, <1>5, <1>6 DEF Contract!Execute

\* Every step of the system is one of the contract or invisible in it.
LEMMA ContractStep == IInv /\ [Next]_vars => [Contract!Next]_(Contract!contractVars)
<1> SUFFICES ASSUME IInv, [Next]_vars PROVE Contract!Next \/ Invisible
  BY DEF Invisible, Contract!contractVars
<1>0. ClientTypeOK
  BY DEF IInv, TypeOK
<1>1. ASSUME NEW c \in Client, ClientNext(c), UNCHANGED serverVars
      PROVE  Contract!Next \/ Invisible
  <2>0. UNCHANGED ran
    BY <1>1 DEF serverVars
  <2>1. CASE \E m \in Method, b \in Body : BeginCall(c, m, b)
    BY <2>0, <2>1, BeginStep DEF Contract!Next
  <2>2. CASE RecvResponseBody(c)
    BY <2>0, <2>2, ReturnStep DEF Contract!Next
  <2>3. CASE Return(c, LocalErr, NoReply)
    <3>1. Contract!Refuse(c)
      BY <1>0, <2>0, <2>3, RefuseStep DEF Return, ClientTypeOK
    <3> QED BY <3>1 DEF Contract!Next
  <2>4. RecvResponseHeader(c) => Return(c, LocalErr, NoReply) \/ Invisible
    BY <2>0 DEF RecvResponseHeader, Invisible
  <2>5. SendRequestHeader(c) \/ SendRequestBody(c) \/ CloseClient(c) \/ DestroyClient(c)
          => Invisible
    BY <2>0 DEF SendRequestHeader, SendRequestBody, CloseClient, DestroyClient, GiveUpConn,
       Invisible
  <2>6. CallFailsEarly(c) \/ ClientIOError(c) \/ ClientInterrupted(c) =>
          Return(c, LocalErr, NoReply)
    BY DEF CallFailsEarly, ClientIOError, ClientInterrupted
  <2> QED BY <1>1, <2>1, <2>2, <2>3, <2>4, <2>5, <2>6 DEF ClientNext, CallStep
<1>2. CASE (ServerNext /\ UNCHANGED clientVars) \/ Network \/ UNCHANGED vars
  <2>1. UNCHANGED clientVars
    BY <1>2, ServerQuiet
  <2>2. ASSUME NEW k \in Conns, CallService(k) PROVE Contract!Next
    BY <2>1, <2>2, ExecuteStep DEF Contract!Next
  <2>3. UNCHANGED ran => Invisible
    BY <2>1 DEF Invisible, clientVars
  <2>4. Calm => UNCHANGED ran
    BY DEF Calm
  <2>5. \A k \in Conns : RecvRequestHeader(k) \/ RecvRequestBody(k) => UNCHANGED ran
    BY DEF RecvRequestHeader, RecvRequestBody
  <2> QED BY <1>2, <2>2, <2>3, <2>4, <2>5, ServerRequestEffect
<1> QED BY <1>1, <1>2 DEF Next, Terminated

(* The RPC layer keeps its contract: whatever the network, the server loop *)
(* and abandoned calls do, a caller sees a behaviour of CallContract.      *)
THEOREM Implementation == Spec => ImplementsContract
<1>1. Init => Contract!Init
  BY ContractInit
<1>2. IInv /\ [Next]_vars => [Contract!Next]_(Contract!contractVars)
  BY ContractStep
<1>3. Spec => Contract!Spec
  BY <1>1, <1>2, Invariance, PTL DEF Spec, Contract!Spec
<1> QED BY <1>3 DEF ImplementsContract

-----------------------------------------------------------------------------
(* NotFoundExplained: a connection used for registered methods only is     *)
(* served in step with its frames, whoever failed on it before.            *)

\* Nothing a step does makes a connection clean that was not.
LEMMA CleanBefore ==
  ASSUME IInv, [Next]_vars, NEW k \in Conns, Clean(k)' PROVE Clean(k)
<1>0. ClientTypeOK
  BY DEF IInv, TypeOK
<1>1. issued[k] \subseteq issued'[k]
  <2>1. ASSUME NEW c \in Client, ClientNext(c) PROVE issued[k] \subseteq issued'[k]
    <3>1. ASSUME NEW m \in Method, NEW b \in Body, BeginCall(c, m, b)
          PROVE  issued[k] \subseteq issued'[k]
      BY <1>0, <3>1, BeginEffect DEF ClientTypeOK, Begun
    <3> QED BY <2>1, <3>1, ClientEffect DEF Quiet, GiveUpConn
  <2>2. UNCHANGED clientVars => issued[k] \subseteq issued'[k]
    BY DEF clientVars
  <2> QED BY <2>1, <2>2, ServerQuiet DEF Next, Terminated
<1> QED BY <1>1 DEF Clean

-----------------------------------------------------------------------------
(* One job for each connection.                                            *)

\* Steps that move no connection from one end of the waiting to the other.
Waits ==
  /\ UNCHANGED <<backlog, queue>>
  /\ \A k \in Conns :
       /\ (cliEnd[k] = "unused") = (cliEnd[k] = "unused")'
       /\ (srvEnd[k] = "unused") = (srvEnd[k] = "unused")'
       /\ (phase[k] = "none") = (phase[k] = "none")'

\* They keep WaitOnce.
LEMMA WaitsKeep == ASSUME IInv, WaitOnce, Waits PROVE WaitOnce'
<1>1. backlog \in Seq(Conns) /\ \A i \in DOMAIN backlog : backlog[i] \in Conns
  BY DEF IInv, TypeOK, NetTypeOK
<1> QED BY <1>1 DEF WaitOnce, Waits

\* A client that dials puts a connection nobody used at the end of the backlog.
LEMMA DialWaits ==
  ASSUME IInv, WaitOnce, NEW k \in Conns, Dial(k), UNCHANGED serverVars PROVE WaitOnce'
<1>0. /\ backlog \in Seq(Conns) /\ cliEnd \in [Conns -> {"unused", "open", "closed"}]
      /\ \A i \in DOMAIN backlog : backlog[i] \in Conns
  BY DEF IInv, TypeOK, NetTypeOK
<1>1. /\ cliEnd[k] = "unused" /\ backlog' = Append(backlog, k)
      /\ cliEnd' = [cliEnd EXCEPT ![k] = "open"] /\ UNCHANGED <<srvEnd, queue, phase>>
  BY DEF Dial, serverVars
<1>2. /\ \A i \in DOMAIN backlog' :
              \/ i \in DOMAIN backlog /\ backlog'[i] = backlog[i]
              \/ backlog'[i] = k /\ i \notin DOMAIN backlog /\ (\A j \in DOMAIN backlog : j < i)
      /\ \A i \in DOMAIN backlog' : i \in Nat
      /\ DOMAIN backlog' = 1..Len(backlog) + 1 /\ DOMAIN backlog = 1..Len(backlog)
  BY <1>0, <1>1, AppendFacts, AppendProperties, LenProperties
<1>3. \A i \in DOMAIN backlog : backlog[i] # k
  BY <1>1 DEF WaitOnce
<1>4. \A i, j \in DOMAIN backlog' : backlog'[i] = backlog'[j] => i = j
  <2>1. \A i \in DOMAIN backlog' : i \notin DOMAIN backlog => i = Len(backlog) + 1
    BY <1>0, <1>2, LenProperties
  <2> QED BY <1>2, <1>3, <2>1 DEF WaitOnce
<1>5. \A i \in DOMAIN backlog' : cliEnd'[backlog'[i]] # "unused" /\ srvEnd'[backlog'[i]] = "unused"
  BY <1>0, <1>1, <1>2 DEF WaitOnce
<1>6. \A j \in Conns : cliEnd'[j] = "unused" => srvEnd'[j] = "unused"
  BY <1>0, <1>1 DEF WaitOnce
<1> QED BY <1>1, <1>4, <1>5, <1>6 DEF WaitOnce

\* accept() moves the oldest connection from the backlog to the Env's queue.
LEMMA AcceptWaits ==
  ASSUME IInv, WaitOnce, NEW k \in Conns, Accept(k), UNCHANGED clientVars PROVE WaitOnce'
<1>0. /\ backlog \in Seq(Conns) /\ srvEnd \in [Conns -> {"unused", "open", "closed"}]
      /\ queue \in Seq(Conns \cup {BadConn})
      /\ \A i \in DOMAIN backlog : backlog[i] \in Conns
  BY DEF IInv, TypeOK, NetTypeOK, ServerTypeOK
<1>1. /\ backlog # <<>> /\ k = Head(backlog) /\ backlog' = Tail(backlog)
      /\ srvEnd' = [srvEnd EXCEPT ![k] = "open"] /\ queue' = Append(queue, k)
      /\ UNCHANGED <<cliEnd, phase>>
  BY DEF Accept, AcceptHead
<1>2. /\ 1 \in DOMAIN backlog /\ k = backlog[1]
      /\ \A i \in DOMAIN backlog' :
           i \in Nat \ {0} /\ i + 1 \in DOMAIN backlog /\ backlog'[i] = backlog[i + 1]
  BY <1>0, <1>1, TailFacts
<1>3. cliEnd[k] # "unused" /\ srvEnd[k] = "unused" /\ phase[k] = "none"
  BY <1>2 DEF WaitOnce
<1>4. \A i, j \in DOMAIN backlog' : backlog'[i] = backlog'[j] => i = j
  <2> SUFFICES ASSUME NEW i \in DOMAIN backlog', NEW j \in DOMAIN backlog',
                      backlog'[i] = backlog'[j]
               PROVE  i = j
    OBVIOUS
  <2>1. i + 1 = j + 1
    BY <1>2 DEF WaitOnce
  <2> QED BY <1>2, <2>1
<1>5. \A i \in DOMAIN backlog' : backlog'[i] # k
  <2> SUFFICES ASSUME NEW i \in DOMAIN backlog', backlog'[i] = k PROVE FALSE
    OBVIOUS
  <2>1. i + 1 = 1
    BY <1>2 DEF WaitOnce
  <2> QED BY <1>2, <2>1
<1>6. \A i \in DOMAIN backlog' : cliEnd'[backlog'[i]] # "unused" /\ srvEnd'[backlog'[i]] = "unused"
  <2>1. \A i \in DOMAIN backlog' : backlog'[i] \in Conns /\ \E j \in DOMAIN backlog : backlog'[i] = backlog[j]
    BY <1>0, <1>2
  <2> QED BY <1>0, <1>1, <1>5, <2>1 DEF WaitOnce
<1>7. /\ \A i \in DOMAIN queue' :
              \/ i \in DOMAIN queue /\ queue'[i] = queue[i]
              \/ queue'[i] = k /\ i = Len(queue) + 1
      /\ \A i \in DOMAIN queue : queue[i] # k
  <2>1. \A i \in DOMAIN queue : queue[i] # k
    BY <1>3 DEF WaitOnce
  <2> QED BY <1>0, <1>1, <2>1, AppendProperties, LenProperties
<1>8. \A i, j \in DOMAIN queue' : queue'[i] = queue'[j] /\ queue'[i] \in Conns => i = j
  BY <1>7 DEF WaitOnce
<1>9. \A i \in DOMAIN queue' : queue'[i] \in Conns =>
        srvEnd'[queue'[i]] # "unused" /\ phase'[queue'[i]] = "none"
  BY <1>0, <1>1, <1>3, <1>7 DEF WaitOnce
<1>10. /\ \A j \in Conns : srvEnd'[j] = "unused" => phase'[j] = "none"
       /\ \A j \in Conns : cliEnd'[j] = "unused" => srvEnd'[j] = "unused"
  BY <1>0, <1>1, <1>3 DEF WaitOnce
<1> QED BY <1>4, <1>6, <1>8, <1>9, <1>10 DEF WaitOnce

\* The failed accept() adds a job on no connection.
LEMMA BadWaits == ASSUME IInv, WaitOnce, AcceptError PROVE WaitOnce'
<1>0. queue \in Seq(Conns \cup {BadConn}) /\ BadConn \notin Conns
  BY ServerAssumption DEF IInv, TypeOK, ServerTypeOK
<1>1. queue' = Append(queue, BadConn) /\ UNCHANGED <<backlog, srvEnd, cliEnd, phase>>
  BY DEF AcceptError, netVars
<1>2. \A i \in DOMAIN queue' : (i \in DOMAIN queue /\ queue'[i] = queue[i]) \/ queue'[i] \notin Conns
  BY <1>0, <1>1, AppendFacts
<1> QED BY <1>1, <1>2 DEF WaitOnce

\* The Env takes the oldest job, and its connection waits no more.
LEMMA StartWaits ==
  ASSUME IInv, WaitOnce, NEW k \in Conns \cup {BadConn},
         queue # <<>>, k = Head(queue), queue' = Tail(queue),
         UNCHANGED <<backlog, cliEnd, srvEnd>>,
         k \in Conns => Goes(k, "recvHeader"), k \notin Conns => UNCHANGED phase
  PROVE  WaitOnce'
<1>0. /\ queue \in Seq(Conns \cup {BadConn}) /\ BadConn \notin Conns
      /\ \A i \in DOMAIN backlog : backlog[i] \in Conns
  BY ServerAssumption DEF IInv, TypeOK, ServerTypeOK, NetTypeOK
<1>1. \A j \in Conns : j # k => phase'[j] = phase[j]
  BY DEF Goes, IInv, TypeOK, ServerTypeOK
<1>2. /\ 1 \in DOMAIN queue /\ k = queue[1]
      /\ \A i \in DOMAIN queue' :
           i \in Nat \ {0} /\ i + 1 \in DOMAIN queue /\ queue'[i] = queue[i + 1]
  BY <1>0, TailFacts
<1>3. k \in Conns => srvEnd[k] # "unused"
  BY <1>2 DEF WaitOnce
<1>4. ASSUME NEW i \in DOMAIN queue', NEW j \in DOMAIN queue', queue'[i] = queue'[j], queue'[i] \in Conns
      PROVE  i = j
  <2>1. i + 1 = j + 1
    BY <1>2, <1>4 DEF WaitOnce
  <2> QED BY <1>2, <2>1
<1>5. ASSUME NEW i \in DOMAIN queue', queue'[i] \in Conns
      PROVE  srvEnd'[queue'[i]] # "unused" /\ phase'[queue'[i]] = "none"
  <2>1. queue[i + 1] # k
    <3> SUFFICES ASSUME queue[i + 1] = k PROVE FALSE
      OBVIOUS
    <3>1. i + 1 = 1
      BY <1>2, <1>5 DEF WaitOnce
    <3> QED BY <1>2, <3>1
  <2> QED BY <1>1, <1>2, <1>5, <2>1 DEF WaitOnce
<1>6. \A j \in Conns : srvEnd'[j] = "unused" => phase'[j] = "none"
  BY <1>1, <1>3 DEF WaitOnce
<1> QED BY <1>0, <1>4, <1>5, <1>6 DEF WaitOnce

\* A job's steps leave waiting as it is.
LEMMA JobWaits ==
  ASSUME IInv, WaitOnce, NEW k \in Conns, JobStep(k) \/ ServerInterrupted(k) PROVE Waits
<1>0. ServerTypeOK /\ srvEnd \in [Conns -> {"unused", "open", "closed"}]
  BY DEF IInv, TypeOK, NetTypeOK
<1>1. ASSUME NEW l \in {"recvHeader", "closing"}, Finish(k, l)
      PROVE  /\ \A j \in Conns : j # k => phase'[j] = phase[j]
             /\ phase'[k] # "none"
  BY <1>0, <1>1 DEF Finish, Goes, ServerTypeOK
<1>2. ASSUME NEW l \in {"recvBody", "call", "sendBody", "done"}, Goes(k, l)
      PROVE  /\ \A j \in Conns : j # k => phase'[j] = phase[j]
             /\ phase'[k] # "none"
  BY <1>0, <1>2 DEF Goes, ServerTypeOK
<1>3. ASSUME NEW h, NEW res, Respond(k, h, res)
      PROVE  /\ \A j \in Conns : j # k => phase'[j] = phase[j]
             /\ phase'[k] # "none"
  BY <1>0, <1>3, RespondLeaves
<1>4. /\ phase[k] # "none" /\ phase'[k] # "none"
      /\ \A j \in Conns : j # k => phase'[j] = phase[j]
  <2>1. CASE RecvRequestHeader(k)
    BY <1>1, <1>2, <1>3, <2>1 DEF RecvRequestHeader
  <2>2. CASE RecvRequestBody(k)
    BY <1>1, <1>2, <2>2 DEF RecvRequestBody
  <2>3. CASE CallService(k)
    BY <1>3, <2>3 DEF CallService
  <2>4. CASE SendResponseHeader(k) \/ DestroyServerConn(k)
    BY <1>2, <2>4 DEF SendResponseHeader, DestroyServerConn
  <2>5. CASE SendResponseBody(k)
    BY <1>1, <2>5 DEF SendResponseBody
  <2>6. CASE ServerIOError(k) \/ ServerInterrupted(k)
    <3>1. phase[k] # "none" /\ \E l \in {"recvHeader", "closing"} : Finish(k, l)
      BY <2>6, SendFailsFinishes DEF ServerIOError, ServerInterrupted, GiveUpCall
    <3> QED BY <1>1, <3>1
  <2> QED BY <2>1, <2>2, <2>3, <2>4, <2>5, <2>6 DEF JobStep
<1>5. UNCHANGED <<backlog, queue, cliEnd>>
  BY DEF JobStep, ServerInterrupted, RecvRequestHeader, ReadUp, RecvRequestBody, CallService,
     SendResponseHeader, SendResponseBody, WriteDown, ServerIOError, DestroyServerConn, CloseSrv,
     netVars
<1>6. UNCHANGED srvEnd \/ srvEnd' = [srvEnd EXCEPT ![k] = "closed"]
  BY DEF JobStep, ServerInterrupted, RecvRequestHeader, ReadUp, RecvRequestBody, CallService,
     SendResponseHeader, SendResponseBody, WriteDown, ServerIOError, DestroyServerConn, CloseSrv,
     netVars
<1>7. srvEnd[k] # "unused"
  BY <1>4 DEF WaitOnce
<1> QED BY <1>0, <1>4, <1>5, <1>6, <1>7 DEF Waits

\* WaitOnce is preserved.
LEMMA WaitOnceStep == IInv /\ WaitOnce /\ [Next]_vars => WaitOnce'
<1> SUFFICES ASSUME IInv, WaitOnce, [Next]_vars PROVE WaitOnce'
  OBVIOUS
<1>0. ClientTypeOK /\ OwnConn /\ cliEnd \in [Conns -> {"unused", "open", "closed"}]
  BY DEF IInv, TypeOK, NetTypeOK
<1>1. ASSUME NEW c \in Client, ClientNext(c), UNCHANGED serverVars PROVE WaitOnce'
  <2>1. ASSUME NEW m \in Method, NEW b \in Body, BeginCall(c, m, b) PROVE WaitOnce'
    <3>0. PICK k \in Conns : Begun(c, k, m, b)
      BY <2>1, BeginEffect
    <3>1. Connected(c, k)
      BY <3>0 DEF Begun
    <3>2. CASE Dial(k)
      BY <1>1, <3>2, DialWaits
    <3>3. CASE UNCHANGED netVars
      BY <1>1, <3>3, WaitsKeep DEF Waits, netVars, serverVars
    <3> QED BY <3>1, <3>2, <3>3 DEF Connected
  <2>2. ASSUME NEW l, GiveUpConn(c, l) PROVE WaitOnce'
    <3>1. CASE sock[c] = NoConn
      BY <1>1, <2>2, <3>1, WaitsKeep DEF Waits, netVars, serverVars, GiveUpConn
    <3>2. CASE sock[c] # NoConn
      <4>1. sock[c] \in Conns /\ cliEnd[sock[c]] = "open"
        BY <1>0, <3>2 DEF ClientTypeOK, OwnConn
      <4>2. /\ cliEnd' = [cliEnd EXCEPT ![sock[c]] = "closed"]
            /\ UNCHANGED <<backlog, srvEnd, queue, phase>>
        BY <1>1, <2>2, <3>2 DEF GiveUpConn, CloseCli, serverVars
      <4> QED BY <1>0, <4>1, <4>2, WaitsKeep DEF Waits
    <3> QED BY <3>1, <3>2
  <2>3. CASE UNCHANGED <<backlog, cliEnd, srvEnd>>
    BY <1>1, <2>3, WaitsKeep DEF Waits, serverVars
  <2>4. CallFailsEarly(c) \/ CallStep(c) \/ ClientInterrupted(c) =>
          UNCHANGED <<backlog, cliEnd, srvEnd>>
    BY DEF CallFailsEarly, CallStep, SendRequestHeader, SendRequestBody, WriteUp,
       RecvResponseHeader, RecvResponseBody, ReadDown, ClientIOError, ClientInterrupted, netVars
  <2> QED BY <1>1, <2>1, <2>2, <2>3, <2>4 DEF ClientNext, CloseClient, DestroyClient
<1>2. ASSUME ServerNext, UNCHANGED clientVars PROVE WaitOnce'
  <2>1. ASSUME NEW k \in Conns, Accept(k) PROVE WaitOnce'
    BY <1>2, <2>1, AcceptWaits
  <2>2. ASSUME NEW k \in Conns, StartJob(k) PROVE WaitOnce'
    BY <2>2, StartWaits DEF StartJob, netVars
  <2>3. ASSUME NEW k \in Conns, JobStep(k) \/ ServerInterrupted(k) PROVE WaitOnce'
    BY <2>3, JobWaits, WaitsKeep
  <2>4. StartBadJob => WaitOnce'
    BY StartWaits, ServerAssumption DEF StartBadJob, netVars
  <2> QED BY <1>2, <2>1, <2>2, <2>3, <2>4, BadWaits DEF ServerNext
<1>3. Network => WaitOnce'
  BY WaitsKeep DEF Network, Break, Waits, serverVars
<1>4. UNCHANGED vars => WaitOnce'
  BY WaitsKeep DEF vars, netVars, serverVars, Waits
<1> QED BY <1>1, <1>2, <1>3, <1>4 DEF Next, Terminated

-----------------------------------------------------------------------------
(* The server's place in the stream of a clean connection.                 *)

\* The frames a step leaves to the server, if it takes none of them.
Keeps(k) ==
  /\ up'[k] = up[k] \/ (up'[k] = <<>> /\ Deaf(k)')
  /\ Past(k) => Past(k)'
  /\ Deaf(k) => Deaf(k)'

\* Every step of server and network but the reads keeps the frames,
LEMMA ServerKeeps ==
  ASSUME IInv, WaitOnce, (ServerNext /\ UNCHANGED clientVars) \/ Network \/ UNCHANGED vars,
         NEW j \in Conns
  PROVE  Keeps(j) \/ RecvRequestHeader(j) \/ RecvRequestBody(j)
<1>0. /\ ServerTypeOK /\ srvEnd \in [Conns -> {"unused", "open", "closed"}]
      /\ up \in [Conns -> Seq(UpFrames)] /\ reset \in [Conns -> BOOLEAN]
  BY DEF IInv, TypeOK, NetTypeOK
<1>1. ASSUME UNCHANGED <<up, srvEnd, reset>>, phase'[j] = phase[j] PROVE Keeps(j)
  BY <1>1 DEF Keeps, Past, Deaf
<1>2. ASSUME NEW k \in Conns, Accept(k) PROVE Keeps(j)
  <2>1. k \in Conns /\ srvEnd[k] = "unused"
    <3>1. 1 \in DOMAIN backlog /\ k = backlog[1]
      BY <1>2, TailFacts DEF Accept, AcceptHead, IInv, TypeOK, NetTypeOK
    <3> QED BY <3>1 DEF WaitOnce
  <2> QED BY <1>0, <1>2, <2>1 DEF Accept, AcceptHead, Keeps, Past, Deaf
<1>3. ASSUME NEW k \in Conns, StartJob(k) PROVE Keeps(j)
  <2>1. phase[k] = "none"
    <3>1. 1 \in DOMAIN queue /\ k = queue[1]
      BY <1>0, <1>3, TailFacts DEF StartJob, ServerTypeOK
    <3> QED BY <3>1 DEF WaitOnce
  <2> QED BY <1>0, <1>3, <2>1 DEF StartJob, Goes, netVars, Keeps, Past, Deaf, ServerTypeOK
<1>4. ASSUME NEW k \in Conns, Abort(k), UNCHANGED <<srvEnd, phase>> PROVE Keeps(j)
  BY <1>0, <1>4 DEF Abort, Keeps, Past, Deaf
<1>5. ASSUME NEW k \in Conns, phase[k] \in {"sendHeader", "sendBody"}, NEW f, WriteDown(k, f),
             \A i \in Conns : i # k => phase'[i] = phase[i]
      PROVE  Keeps(j)
  <2>1. ~Past(k) /\ (j # k => (Past(j) => Past(j)'))
    BY <1>5 DEF Past
  <2>2. \/ up'[j] = up[j] /\ reset'[j] = reset[j]
        \/ up'[j] = <<>> /\ reset'[j]
    BY <1>0, <1>5 DEF WriteDown, Abort
  <2> QED BY <1>0, <1>5, <2>1, <2>2 DEF WriteDown, Keeps, Deaf
<1>6. ASSUME NEW k \in Conns, SendResponseHeader(k) \/ SendResponseBody(k) PROVE Keeps(j)
  <2>1. \A i \in Conns : i # k => phase'[i] = phase[i]
    BY <1>0, <1>6 DEF SendResponseHeader, SendResponseBody, Finish, Goes, ServerTypeOK
  <2>2. phase[k] \in {"sendHeader", "sendBody"} /\ \E f : WriteDown(k, f)
    BY <1>6 DEF SendResponseHeader, SendResponseBody
  <2> QED BY <1>5, <2>1, <2>2
<1>7. ASSUME NEW k \in Conns, CallService(k) PROVE Keeps(j)
  <2>1. phase[k] = "call" /\ UNCHANGED <<up, srvEnd, reset>>
    BY <1>7 DEF CallService, netVars
  <2>2. \A i \in Conns : i # k => phase'[i] = phase[i]
    BY <1>0, <1>7, RespondLeaves DEF CallService
  <2> QED BY <2>1, <2>2 DEF Keeps, Past, Deaf
<1>8. ASSUME NEW k \in Conns, ServerIOError(k) \/ ServerInterrupted(k) PROVE Keeps(j)
  <2>1. UNCHANGED <<up, srvEnd, reset>> /\ GiveUpCall(k)
    BY <1>8 DEF ServerIOError, ServerInterrupted, netVars
  <2>2. CASE phase[k] \in {"recvHeader", "recvBody"} /\ Finish(k, "closing")
    BY <1>0, <2>1, <2>2 DEF Finish, Goes, Keeps, Past, Deaf, ServerTypeOK
  <2>3. CASE phase[k] \in {"sendHeader", "sendBody"} /\ SendFails(k, response[k])
    <3>1. PICK l \in {"recvHeader", "closing"} : Finish(k, l)
      BY <2>3, SendFailsFinishes
    <3> QED BY <1>0, <2>1, <2>3, <3>1 DEF Finish, Goes, Keeps, Past, Deaf, ServerTypeOK
  <2> QED BY <2>1, <2>2, <2>3 DEF GiveUpCall
<1>9. ASSUME NEW k \in Conns, DestroyServerConn(k) PROVE Keeps(j)
  <2>1. phase' = [phase EXCEPT ![k] = "done"] /\ srvEnd' = [srvEnd EXCEPT ![k] = "closed"]
    BY <1>9 DEF DestroyServerConn, CloseSrv, Goes
  <2>2. Past(j) => Past(j)'
    BY <1>0, <2>1 DEF Past, ServerTypeOK
  <2>3. \/ j # k /\ up'[j] = up[j] /\ reset'[j] = reset[j]
        \/ j = k /\ up'[j] = <<>>
    BY <1>0, <1>9 DEF DestroyServerConn, CloseSrv, Abort
  <2> QED BY <1>0, <2>1, <2>2, <2>3 DEF Keeps, Deaf
<1>10. ASSUME NEW k \in Conns, RecvRequestHeader(k) \/ RecvRequestBody(k), j # k PROVE Keeps(j)
  <2>1. up'[j] = up[j] /\ UNCHANGED <<srvEnd, reset>>
    BY <1>0, <1>10 DEF RecvRequestHeader, RecvRequestBody, ReadUp
  <2>2. phase'[j] = phase[j]
    <3>1. \A l : Finish(k, l) \/ Goes(k, l) => phase'[j] = phase[j]
      BY <1>0, <1>10 DEF Finish, Goes, ServerTypeOK
    <3>2. \A h, res : Respond(k, h, res) => phase'[j] = phase[j]
      BY <1>0, <1>10, RespondLeaves
    <3> QED BY <1>10, <3>1, <3>2 DEF RecvRequestHeader, RecvRequestBody
  <2> QED BY <2>1, <2>2 DEF Keeps, Past, Deaf
<1>11. AcceptError \/ StartBadJob \/ UNCHANGED vars => Keeps(j)
  BY <1>1 DEF AcceptError, StartBadJob, vars, netVars, serverVars
<1>12. Network => Keeps(j)
  BY <1>4 DEF Network, Break, serverVars
<1>13. ServerNext => Keeps(j) \/ RecvRequestHeader(j) \/ RecvRequestBody(j)
  BY <1>2, <1>3, <1>6, <1>7, <1>8, <1>9, <1>10, <1>11 DEF ServerNext, JobStep
<1> QED BY <1>11, <1>12, <1>13

\* and so does every step of a client but its writes, of which it is told
\* what they do.
LEMMA ClientKeeps ==
  ASSUME IInv, NEW c \in Client, ClientNext(c), UNCHANGED serverVars, NEW j \in Conns
  PROVE  \/ Keeps(j) /\ ~(SendRequestHeader(c) /\ sock[c] = j /\ ~Deaf(j)')
         \/ /\ sock[c] = j /\ ~Deaf(j) /\ UNCHANGED <<reset, srvEnd>>
            /\ \/ SendRequestHeader(c) /\ \E f : IsRequestHeader(f) /\ f \in UpFrames
                    /\ up'[j] = Append(up[j], f)
               \/ SendRequestBody(c) /\ \E f : f \in UpFrames /\ up'[j] = Append(up[j], f)
<1>0. /\ srvEnd \in [Conns -> {"unused", "open", "closed"}]
      /\ up \in [Conns -> Seq(UpFrames)] /\ reset \in [Conns -> BOOLEAN]
      /\ sock[c] \in Conns \cup {NoConn}
  BY DEF IInv, TypeOK, NetTypeOK, ClientTypeOK
<1>1. UNCHANGED phase
  BY DEF serverVars
<1>2. UNCHANGED <<up, srvEnd, reset>> => Keeps(j)
  BY <1>1 DEF Keeps, Past, Deaf
<1>3. ASSUME NEW k \in Conns, Abort(k), UNCHANGED srvEnd PROVE Keeps(j) /\ (j = k => Deaf(j)')
  BY <1>0, <1>1, <1>3 DEF Abort, Keeps, Past, Deaf
<1>4. ASSUME NEW k \in Conns, NEW f \in UpFrames, WriteUp(k, f)
      PROVE  \/ Keeps(j) /\ (j = k => Deaf(j)')
             \/ j = k /\ ~Deaf(j) /\ up'[j] = Append(up[j], f) /\ UNCHANGED <<reset, srvEnd>>
  <2>1. CASE srvEnd[k] # "closed" /\ up' = [up EXCEPT ![k] = Append(@, f)] /\ UNCHANGED <<down, reset>>
    BY <1>0, <1>1, <1>4, <2>1 DEF WriteUp, Keeps, Past, Deaf
  <2>2. CASE srvEnd[k] = "closed" /\ UNCHANGED <<up, down, reset>>
    BY <1>2, <1>4, <2>2 DEF WriteUp, Deaf
  <2> QED BY <1>3, <1>4, <2>1, <2>2 DEF WriteUp
<1>5. InCall(c) => sock[c] \in Conns /\ call[c].id \in Nat /\ call[c].method \in Method
                   /\ call[c].body \in Body
  BY CallInNat DEF IInv
<1>6. CASE SendRequestHeader(c)
  <2> DEFINE f == RequestHeader(call[c].id, call[c].method, call[c].body)
  <2>1. WriteUp(sock[c], f) /\ sock[c] \in Conns /\ f \in UpFrames /\ IsRequestHeader(f)
    BY <1>5, <1>6, RequestHeaderType
    DEF SendRequestHeader, InCall, IOStates, IsRequestHeader, RequestHeader
  <2> HIDE DEF f
  <2> QED BY <1>4, <1>6, <2>1
<1>7. CASE SendRequestBody(c)
  <2> DEFINE f == RequestBody(call[c].body)
  <2>1. WriteUp(sock[c], f) /\ sock[c] \in Conns /\ f \in UpFrames
    BY <1>5, <1>7, RequestBodyType DEF SendRequestBody, InCall, IOStates
  <2>2. ~SendRequestHeader(c)
    BY <1>7 DEF SendRequestHeader, SendRequestBody
  <2> HIDE DEF f
  <2> QED BY <1>4, <1>7, <2>1, <2>2
<1>8. CASE ~SendRequestHeader(c) /\ ~SendRequestBody(c)
  <2>1. RecvResponseHeader(c) \/ RecvResponseBody(c) => Keeps(j)
    BY <1>2 DEF RecvResponseHeader, RecvResponseBody, ReadDown
  <2>2. CallFailsEarly(c) \/ ClientIOError(c) \/ ClientInterrupted(c) => Keeps(j)
    BY <1>2 DEF CallFailsEarly, ClientIOError, ClientInterrupted, netVars
  <2>3. ASSUME NEW m \in Method, NEW b \in Body, BeginCall(c, m, b) PROVE Keeps(j)
    <3>0. PICK k \in Conns : Begun(c, k, m, b)
      BY <2>3, BeginEffect
    <3>1. Connected(c, k)
      BY <3>0 DEF Begun
    <3> QED BY <1>2, <3>1, ConnectedEffect DEF IInv
  <2>4. ASSUME NEW l, GiveUpConn(c, l) PROVE Keeps(j)
    <3>1. CASE sock[c] = NoConn
      BY <1>2, <2>4, <3>1 DEF GiveUpConn, netVars
    <3>2. CASE sock[c] # NoConn
      BY <1>0, <1>2, <1>3, <2>4, <3>2 DEF GiveUpConn, CloseCli
    <3> QED BY <3>1, <3>2
  <2> QED
    BY <1>8, <2>1, <2>2, <2>3, <2>4 DEF ClientNext, CallStep, CloseClient, DestroyClient
<1> QED BY <1>6, <1>7, <1>8

\* A connection in good order is one whose bodies follow their headers, and
\* ready for a body if the next one will.
Ready(k) == Deaf(k) \/ HeaderLast(k)

\* Frames that are kept keep their order.
LEMMA KeepsOrder ==
  ASSUME NEW k \in Conns, Keeps(k)
  PROVE  (Follows(k) => Follows(k)') /\ (Ready(k) => Ready(k)')
<1>1. CASE up'[k] = up[k]
  BY <1>1 DEF Keeps, Follows, Ready, HeaderLast
<1>2. CASE up'[k] = <<>> /\ Deaf(k)'
  BY <1>2 DEF Follows, Ready
<1> QED BY <1>1, <1>2 DEF Keeps

\* A header may be written at any time,
LEMMA HeaderPut ==
  ASSUME NEW k \in Conns, up[k] \in Seq(UpFrames), NEW f \in UpFrames, IsRequestHeader(f),
         up'[k] = Append(up[k], f), UNCHANGED phase
  PROVE  (Follows(k) => Follows(k)') /\ Ready(k)'
<1>1. /\ Len(up[k]) \in Nat /\ DOMAIN up[k] = 1..Len(up[k])
      /\ up'[k] \in Seq(UpFrames) /\ Len(up'[k]) = Len(up[k]) + 1
      /\ DOMAIN up'[k] = 1..Len(up[k]) + 1 /\ up'[k][Len(up[k]) + 1] = f
      /\ \A i \in DOMAIN up[k] : up'[k][i] = up[k][i]
  BY AppendProperties, LenProperties
<1>2. up'[k] # <<>>
  BY AppendProperties
<1>3. Ready(k)'
  BY <1>1, <1>2 DEF Ready, HeaderLast
<1>4. ASSUME Follows(k), NEW i \in DOMAIN up'[k], ~IsRequestHeader(up'[k][i])
      PROVE  IF i = 1 THEN Past(k) ELSE IsRequestHeader(up'[k][i - 1])
  <2>1. i \in DOMAIN up[k] /\ up'[k][i] = up[k][i]
    BY <1>1, <1>4
  <2>2. i # 1 => i - 1 \in DOMAIN up[k] /\ up'[k][i - 1] = up[k][i - 1]
    BY <1>1, <2>1
  <2> QED BY <1>4, <2>1, <2>2 DEF Follows
<1> QED BY <1>3, <1>4 DEF Follows, Past

\* and a body after its header.
LEMMA BodyPut ==
  ASSUME NEW k \in Conns, up[k] \in Seq(UpFrames), NEW f \in UpFrames,
         HeaderLast(k), Follows(k), up'[k] = Append(up[k], f), UNCHANGED phase
  PROVE  Follows(k)'
<1>1. /\ Len(up[k]) \in Nat /\ DOMAIN up[k] = 1..Len(up[k])
      /\ DOMAIN up'[k] = 1..Len(up[k]) + 1
      /\ \A i \in DOMAIN up[k] : up'[k][i] = up[k][i]
  BY AppendProperties, LenProperties
<1>2. ASSUME NEW i \in DOMAIN up'[k], ~IsRequestHeader(up'[k][i])
      PROVE  IF i = 1 THEN Past(k) ELSE IsRequestHeader(up'[k][i - 1])
  <2>1. CASE i \in DOMAIN up[k]
    <3>1. i # 1 => i - 1 \in DOMAIN up[k] /\ up'[k][i - 1] = up[k][i - 1]
      BY <1>1, <2>1
    <3> QED BY <1>1, <1>2, <2>1, <3>1 DEF Follows
  <2>2. CASE i = Len(up[k]) + 1
    <3>1. CASE up[k] = <<>>
      BY <2>2, <3>1 DEF HeaderLast
    <3>2. CASE up[k] # <<>>
      <4>1. Len(up[k]) # 0 /\ IsRequestHeader(up[k][Len(up[k])])
        BY <3>2, EmptySeq DEF HeaderLast
      <4> QED BY <1>1, <2>2, <4>1
    <3> QED BY <3>1, <3>2
  <2> QED BY <1>1, <2>1, <2>2
<1> QED BY <1>2 DEF Follows, Past

\* The last element of a sequence is that of its tail.
LEMMA TailLast ==
  ASSUME NEW S, NEW s \in Seq(S), s # <<>>
  PROVE  /\ Tail(s) = <<>> => Len(s) = 1
         /\ Tail(s) # <<>> => Tail(s)[Len(Tail(s))] = s[Len(s)]
<1>1. /\ Len(s) \in Nat \ {0} /\ Tail(s) \in Seq(S) /\ Len(Tail(s)) = Len(s) - 1
      /\ \A i \in 1..Len(s) - 1 : Tail(s)[i] = s[i + 1]
  BY HeadTailProperties, LenProperties, EmptySeq
<1>2. Tail(s) = <<>> => Len(Tail(s)) = 0
  BY <1>1, EmptySeq
<1>3. Tail(s) # <<>> => Len(Tail(s)) # 0
  BY <1>1, EmptySeq
<1> QED BY <1>1, <1>2, <1>3

\* The server may take a header if it then awaits the body, and a body.
LEMMA TakeOrder ==
  ASSUME NEW k \in Conns, up[k] \in Seq(UpFrames), up[k] # <<>>, up'[k] = Tail(up[k]),
         UNCHANGED <<reset, srvEnd>>, Past(k)' \/ ~IsRequestHeader(Head(up[k]))
  PROVE  (Follows(k) => Follows(k)') /\ (Ready(k) => Ready(k)')
<1>1. /\ Len(up[k]) \in Nat \ {0} /\ DOMAIN up[k] = 1..Len(up[k]) /\ Head(up[k]) = up[k][1]
      /\ DOMAIN up'[k] = 1..Len(up[k]) - 1 /\ Len(up'[k]) = Len(up[k]) - 1
      /\ up'[k] \in Seq(UpFrames)
      /\ \A i \in 1..Len(up[k]) - 1 : up'[k][i] = up[k][i + 1]
  BY HeadTailProperties, LenProperties, EmptySeq
<1>2. ASSUME Follows(k), NEW i \in DOMAIN up'[k], ~IsRequestHeader(up'[k][i])
      PROVE  IF i = 1 THEN Past(k)' ELSE IsRequestHeader(up'[k][i - 1])
  <2>1. i + 1 \in DOMAIN up[k] /\ i + 1 # 1 /\ up'[k][i] = up[k][i + 1] /\ (i + 1) - 1 = i
    BY <1>1
  <2>2. IsRequestHeader(up[k][i])
    BY <1>2, <2>1 DEF Follows
  <2>3. CASE i = 1
    BY <1>1, <2>2, <2>3
  <2>4. CASE i # 1
    <3>1. i - 1 \in 1..Len(up[k]) - 1 /\ (i - 1) + 1 = i
      BY <1>1, <2>4
    <3>2. up'[k][i - 1] = up[k][(i - 1) + 1]
      BY <1>1, <3>1
    <3> QED BY <2>2, <2>4, <3>1, <3>2
  <2> QED BY <2>3, <2>4
<1>3. /\ up'[k] = <<>> => Len(up[k]) = 1
      /\ up'[k] # <<>> => up'[k][Len(up'[k])] = up[k][Len(up[k])]
  BY TailLast
<1>4. ASSUME HeaderLast(k) PROVE HeaderLast(k)'
  <2>1. IsRequestHeader(up[k][Len(up[k])])
    BY <1>4 DEF HeaderLast
  <2>2. CASE up'[k] = <<>>
    BY <1>1, <1>3, <2>1, <2>2 DEF HeaderLast
  <2>3. CASE up'[k] # <<>>
    BY <1>3, <2>1, <2>3 DEF HeaderLast
  <2> QED BY <2>2, <2>3
<1> QED BY <1>2, <1>4 DEF Follows, Ready, Deaf

\* On a clean connection in good order, the frame read as a header is one,
\* and of a registered method.
LEMMA CleanHeader ==
  ASSUME IInv, NEW k \in Conns, Clean(k), Follows(k), RecvRequestHeader(k)
  PROVE  /\ Goes(k, "recvBody") /\ UNCHANGED response
         /\ up[k] # <<>> /\ up'[k] = Tail(up[k]) /\ UNCHANGED <<reset, srvEnd>>
<1> DEFINE f == Head(up[k])
<1>1. /\ phase[k] = "recvHeader" /\ up[k] # <<>> /\ up[k] \in Seq(UpFrames)
      /\ up'[k] = Tail(up[k]) /\ UNCHANGED <<reset, srvEnd>>
  BY DEF RecvRequestHeader, ReadUp, IInv, TypeOK, NetTypeOK
<1>2. f \in UpFrames /\ 1 \in DOMAIN up[k] /\ f = up[k][1]
  BY <1>1, TailFacts
<1>3. IsRequestHeader(f)
  BY <1>1, <1>2 DEF Follows, Past
<1>4. PICK x \in issued[k] : f = AsHeader(x)
  BY <1>2, <1>3 DEF IInv, RequestsIssued
<1>5. f.method \in Registered
  BY <1>4 DEF Clean, AsHeader, RequestHeader
<1>6. f \in RequestHeaders /\ ParseRequestHeader(f) = f
  BY <1>2, <1>3 DEF IsRequestHeader, ParseRequestHeader, UpFrames, RequestBodies
<1>7. f # Malformed
  BY <1>6, WireAssumption
<1> QED BY <1>1, <1>5, <1>6, <1>7 DEF RecvRequestHeader

\* A read of the server keeps a clean connection in order.
LEMMA ReadOrder ==
  ASSUME IInv, NEW k \in Conns, Clean(k), Follows(k), RecvRequestHeader(k) \/ RecvRequestBody(k)
  PROVE  Follows(k)' /\ (Ready(k) => Ready(k)')
<1>0. ServerTypeOK /\ up[k] \in Seq(UpFrames)
  BY DEF IInv, TypeOK, NetTypeOK
<1>1. CASE RecvRequestHeader(k)
  <2>1. Past(k)'
    BY <1>0, <1>1, CleanHeader DEF Goes, Past, ServerTypeOK
  <2> QED BY <1>0, <1>1, <2>1, CleanHeader, TakeOrder
<1>2. CASE RecvRequestBody(k)
  <2> DEFINE f == Head(up[k])
  <2>1. up[k] # <<>> /\ up'[k] = Tail(up[k]) /\ UNCHANGED <<reset, srvEnd>>
    BY <1>2 DEF RecvRequestBody, ReadUp, IInv, TypeOK, NetTypeOK
  <2>2. CASE RequestAccepted(reqHeader[k], f)
    <3>1. f \in UpFrames /\ reqHeader[k].checksum \in Body \cup {NoSum}
      BY <1>0, <2>1, TailFacts DEF ServerTypeOK, RequestHeaders
    <3>2. ~IsRequestHeader(f)
      BY <2>2, <3>1, WireAssumption DEF RequestAccepted, Checksum, IsRequestHeader
    <3> QED BY <1>0, <2>1, <3>2, TakeOrder
  <2>3. CASE Finish(k, "closing")
    <3>1. Past(k)'
      BY <1>0, <2>3 DEF Finish, Goes, Past, ServerTypeOK
    <3> QED BY <1>0, <2>1, <3>1, TakeOrder
  <2> QED BY <1>2, <2>2, <2>3 DEF RecvRequestBody
<1> QED BY <1>1, <1>2

\* BodiesFollow and HeaderSent are preserved.
LEMMA OrderStep ==
  IInv /\ WaitOnce /\ BodiesFollow /\ HeaderSent /\ [Next]_vars => BodiesFollow' /\ HeaderSent'
<1> SUFFICES ASSUME IInv, WaitOnce, BodiesFollow, HeaderSent, [Next]_vars, NEW k \in Conns, Clean(k)'
             PROVE  /\ Follows(k)'
                    /\ \A d \in Client : pc'[d] = "sendBody" /\ sock'[d] = k => Ready(k)'
  BY DEF BodiesFollow, HeaderSent, Ready
<1>0. /\ ClientTypeOK /\ OwnConn /\ up[k] \in Seq(UpFrames) /\ Clean(k) /\ Follows(k)
      /\ \A d \in Client : pc[d] = "sendBody" /\ sock[d] = k => Ready(k)
  BY CleanBefore DEF IInv, TypeOK, NetTypeOK, BodiesFollow, HeaderSent, Ready
<1>1. ASSUME NEW c \in Client, ClientNext(c), UNCHANGED serverVars
      PROVE  /\ Follows(k)'
             /\ \A d \in Client : pc'[d] = "sendBody" /\ sock'[d] = k => Ready(k)'
  <2>0. UNCHANGED phase
    BY <1>1 DEF serverVars
  <2>1. ASSUME NEW d \in Client, pc'[d] = "sendBody", sock'[d] = k
        PROVE  \/ pc[d] = "sendBody" /\ sock[d] = k
               \/ d = c /\ SendRequestHeader(c) /\ sock[c] = k
    <3>1. CASE SendRequestHeader(c)
      BY <1>0, <2>1, <3>1 DEF SendRequestHeader, Goto, ClientTypeOK
    <3>2. CASE ~SendRequestHeader(c)
      <4>1. \A e, r : Return(c, e, r) => pc[d] = "sendBody" /\ sock[d] = k
        BY <1>0, <2>1 DEF Return, Goto, ClientTypeOK
      <4>2. ASSUME NEW m \in Method, NEW b \in Body, BeginCall(c, m, b)
            PROVE  pc[d] = "sendBody" /\ sock[d] = k
        <5>0. PICK j \in Conns : Begun(c, j, m, b)
          BY <4>2, BeginEffect
        <5>1. /\ pc[c] = "idle" /\ sock' = [sock EXCEPT ![c] = j]
              /\ pc' = [pc EXCEPT ![c] = "sendHeader"] \/ UNCHANGED pc
          BY <5>0 DEF Begun
        <5> QED BY <1>0, <2>1, <5>1 DEF ClientTypeOK
      <4>3. ASSUME NEW l \in {"idle", "destroyed"}, GiveUpConn(c, l)
            PROVE  pc[d] = "sendBody" /\ sock[d] = k
        BY <1>0, <2>1, <4>3 DEF GiveUpConn, Goto, ClientTypeOK
      <4>4. SendRequestBody(c) \/ RecvResponseHeader(c) => pc[d] = "sendBody" /\ sock[d] = k
        BY <1>0, <2>1, <4>1 DEF SendRequestBody, RecvResponseHeader, Goto, ClientTypeOK
      <4> QED
        BY <1>1, <3>2, <4>1, <4>2, <4>3, <4>4
        DEF ClientNext, CallStep, CallFailsEarly, RecvResponseBody, ClientIOError,
            ClientInterrupted, CloseClient, DestroyClient
    <3> QED BY <3>1, <3>2
  <2>2. CASE Keeps(k) /\ ~(SendRequestHeader(c) /\ sock[c] = k /\ ~Deaf(k)')
    BY <1>0, <2>1, <2>2, KeepsOrder DEF Ready
  <2>3. ASSUME SendRequestHeader(c), NEW f \in UpFrames, IsRequestHeader(f), up'[k] = Append(up[k], f)
        PROVE  Follows(k)' /\ Ready(k)'
    BY <1>0, <2>0, <2>3, HeaderPut
  <2>4. ASSUME SendRequestBody(c), sock[c] = k, ~Deaf(k), NEW f \in UpFrames, up'[k] = Append(up[k], f)
        PROVE  /\ Follows(k)'
               /\ \A d \in Client : ~(pc'[d] = "sendBody" /\ sock'[d] = k)
    <3>1. pc[c] = "sendBody" /\ pc' = [pc EXCEPT ![c] = "recvHeader"] /\ UNCHANGED sock
      BY <2>4 DEF SendRequestBody, Goto
    <3>2. HeaderLast(k)
      BY <1>0, <2>4, <3>1 DEF Ready
    <3>3. \A d \in Client : ~(pc'[d] = "sendBody" /\ sock'[d] = k)
      BY <1>0, <2>4, <3>1, TransportAssumption DEF OwnConn, ClientTypeOK
    <3> QED BY <1>0, <2>0, <2>4, <3>2, <3>3, BodyPut
  <2> QED BY <1>1, <2>2, <2>3, <2>4, ClientKeeps
<1>2. CASE (ServerNext /\ UNCHANGED clientVars) \/ Network \/ UNCHANGED vars
  <2>1. UNCHANGED clientVars
    BY <1>2, ServerQuiet
  <2>2. Follows(k)' /\ (Ready(k) => Ready(k)')
    BY <1>0, <1>2, ServerKeeps, KeepsOrder, ReadOrder
  <2> QED BY <1>0, <2>1, <2>2 DEF clientVars
<1> QED BY <1>1, <1>2 DEF Next, Terminated

-----------------------------------------------------------------------------
(* The way of a "Can't find ServiceMethod".                                *)

\* NoneHeld is preserved,
LEMMA NoneHeldStep == IInv /\ BodiesFollow /\ NoneHeld /\ [Next]_vars => NoneHeld'
<1> SUFFICES ASSUME IInv, BodiesFollow, NoneHeld, [Next]_vars, NEW k \in Conns, Clean(k)'
             PROVE  response'[k].err # NotFound
  BY DEF NoneHeld
<1>0. ServerTypeOK /\ Clean(k) /\ Follows(k) /\ response[k].err # NotFound
  BY CleanBefore DEF IInv, TypeOK, BodiesFollow, NoneHeld
<1>1. response'[k] = response[k] => response'[k].err # NotFound
  BY <1>0
<1>2. ASSUME NEW j \in Conns, NEW l, Finish(j, l) PROVE response'[k].err # NotFound
  BY <1>0, <1>2, MadeErrors DEF Finish, Unset, ServerTypeOK
<1>3. ASSUME NEW j \in Conns, NEW h, NEW res, Respond(j, h, res), j = k => res.err # NotFound
      PROVE  response'[k].err # NotFound
  <2>1. CASE SendFails(j, res)
    BY <1>2, <2>1, SendFailsFinishes
  <2>2. CASE response' = [response EXCEPT ![j] = res]
    BY <1>0, <1>3, <2>2 DEF ServerTypeOK
  <2> QED BY <1>3, <2>1, <2>2 DEF Respond
<1>4. ASSUME NEW j \in Conns, RecvRequestHeader(j) PROVE response'[k].err # NotFound
  <2>1. CASE j = k
    BY <1>0, <1>1, <1>4, <2>1, CleanHeader
  <2>2. CASE j # k
    BY <1>1, <1>2, <1>3, <1>4, <2>2 DEF RecvRequestHeader
  <2> QED BY <2>1, <2>2
<1>5. ASSUME NEW j \in Conns, RecvRequestBody(j) PROVE response'[k].err # NotFound
  BY <1>1, <1>2, <1>5 DEF RecvRequestBody
<1>6. ASSUME NEW j \in Conns, CallService(j) PROVE response'[k].err # NotFound
  <2> DEFINE res == Handle[<<reqHeader[j].method, request[j]>>]
  <2>1. res \in [err : ErrText, reply : Reply]
    BY <1>0, <1>6, ServerAssumption DEF CallService, IInv, RequestsIssued, ServerTypeOK
  <2>2. res.err # NotFound
    BY <2>1, MadeErrors
  <2> HIDE DEF res
  <2> QED BY <1>3, <1>6, <2>2 DEF CallService, res
<1>7. ASSUME NEW j \in Conns, SendResponseHeader(j) \/ SendResponseBody(j)
      PROVE  response'[k].err # NotFound
  BY <1>1, <1>2, <1>7 DEF SendResponseHeader, SendResponseBody
<1>8. ASSUME NEW j \in Conns, ServerIOError(j) \/ ServerInterrupted(j)
      PROVE  response'[k].err # NotFound
  BY <1>2, <1>8, SendFailsFinishes DEF ServerIOError, ServerInterrupted, GiveUpCall
<1>9. ASSUME NEW j \in Conns, Accept(j) \/ StartJob(j) \/ DestroyServerConn(j)
      PROVE  response'[k].err # NotFound
  BY <1>1, <1>9 DEF Accept, StartJob, DestroyServerConn
<1>10. AcceptError \/ StartBadJob \/ UNCHANGED serverVars => response'[k].err # NotFound
  BY <1>1 DEF AcceptError, StartBadJob, serverVars
<1>11. ServerNext => response'[k].err # NotFound
  BY <1>4, <1>5, <1>6, <1>7, <1>8, <1>9, <1>10 DEF ServerNext, JobStep
<1> QED BY <1>10, <1>11 DEF Next, Terminated, Network, vars, serverVars

\* NoneSent,
LEMMA NoneSentStep == IInv /\ NoneHeld /\ NoneSent /\ [Next]_vars => NoneSent'
<1> SUFFICES ASSUME IInv, NoneHeld, NoneSent, [Next]_vars, NEW k \in Conns, Clean(k)',
                    NEW i \in DOMAIN down'[k]
             PROVE  ~NotFoundFrame(down'[k][i])
  BY DEF NoneSent, NotFoundFrame
<1>0. /\ ServerTypeOK /\ down \in [Conns -> Seq(DownFrames)]
      /\ response[k].err # NotFound
      /\ \A n \in DOMAIN down[k] : ~NotFoundFrame(down[k][n])
  BY CleanBefore DEF IInv, TypeOK, NetTypeOK, NoneHeld, NoneSent
<1>1. CASE down'[k] = down[k]
  BY <1>0, <1>1
<1>2. CASE down'[k] = <<>>
  BY <1>2
<1>3. CASE down[k] # <<>> /\ down'[k] = Tail(down[k])
  <2>1. i + 1 \in DOMAIN down[k] /\ down'[k][i] = down[k][i + 1]
    BY <1>0, <1>3, TailFacts
  <2> QED BY <1>0, <2>1
<1>4. ASSUME NEW j \in Conns, NEW f \in DownFrames, WriteDown(j, f), j = k => ~NotFoundFrame(f)
      PROVE  ~NotFoundFrame(down'[k][i])
  <2>1. CASE j = k /\ down'[k] = Append(down[k], f)
    BY <1>0, <1>4, <2>1, AppendFacts
  <2>2. \/ j = k /\ down'[k] = Append(down[k], f)
        \/ down'[k] = down[k] \/ down'[k] = <<>>
    BY <1>0, <1>4 DEF WriteDown, Abort
  <2> QED BY <1>1, <1>2, <2>1, <2>2
<1>5. ASSUME NEW j \in Conns, SendResponseHeader(j) PROVE ~NotFoundFrame(down'[k][i])
  <2> DEFINE f == ResponseHeader(reqHeader[j].id, response[j].err, response[j].reply)
  <2>1. f \in DownFrames
    BY <1>0, ResponseHeaderType DEF ServerTypeOK, RequestHeaders
  <2>2. j = k => ~NotFoundFrame(f)
    BY <1>0 DEF NotFoundFrame, ResponseHeader
  <2> HIDE DEF f
  <2> QED BY <1>4, <1>5, <2>1, <2>2 DEF SendResponseHeader, f
<1>6. ASSUME NEW j \in Conns, SendResponseBody(j) PROVE ~NotFoundFrame(down'[k][i])
  <2> DEFINE f == ResponseBody(response[j].reply)
  <2>1. f \in DownFrames /\ ~NotFoundFrame(f)
    BY <1>0, ResponseBodyType DEF ServerTypeOK, NotFoundFrame, ResponseBody
  <2> HIDE DEF f
  <2> QED BY <1>4, <1>6, <2>1 DEF SendResponseBody, f
<1> QED BY <1>1, <1>2, <1>3, <1>5, <1>6, DownEffect

\* and NoneRead.
LEMMA NoneReadStep == IInv /\ NoneSent /\ NoneRead /\ [Next]_vars => NoneRead'
<1> SUFFICES ASSUME IInv, NoneSent, NoneRead, [Next]_vars, NEW d \in Client, NEW k \in Conns,
                    pc'[d] = "recvBody", sock'[d] = k, Clean(k)', respHeader'[d].checksum # NoSum
             PROVE  respHeader'[d].error # NotFound
  BY DEF NoneRead
<1>0. /\ ClientTypeOK /\ down \in [Conns -> Seq(DownFrames)]
      /\ \A n \in DOMAIN down[k] : ~NotFoundFrame(down[k][n])
      /\ pc[d] = "recvBody" /\ sock[d] = k /\ respHeader'[d] = respHeader[d] =>
           respHeader'[d].error # NotFound
  BY CleanBefore DEF IInv, TypeOK, NetTypeOK, NoneSent, NoneRead
<1>1. CASE RecvResponseHeader(d)
  <2> DEFINE f == Head(down[k])
             h == ParseResponseHeader(f)
  <2>1. sock[d] = k /\ respHeader'[d] = h /\ h # Malformed /\ ReadDown(k)
    BY <1>0, <1>1 DEF RecvResponseHeader, Return, Goto, ClientTypeOK
  <2>2. f \in DownFrames /\ 1 \in DOMAIN down[k] /\ f = down[k][1]
    BY <1>0, <2>1, TailFacts DEF ReadDown
  <2>3. h \in ResponseHeaders /\ h = f
    BY <2>1, <2>2, ParseResponseType
  <2> HIDE DEF f, h
  <2> QED BY <1>0, <2>1, <2>2, <2>3 DEF NotFoundFrame, ResponseHeaders
<1>2. ASSUME NEW c \in Client, ClientNext(c), ~RecvResponseHeader(d)
      PROVE  pc[d] = "recvBody" /\ sock[d] = k /\ respHeader'[d] = respHeader[d]
  <2>1. ASSUME NEW e, NEW r, Return(c, e, r)
        PROVE  pc[d] = "recvBody" /\ sock[d] = k /\ respHeader'[d] = respHeader[d]
    BY <1>0, <2>1 DEF Return, Goto, ClientTypeOK
  <2>2. ASSUME NEW m \in Method, NEW b \in Body, BeginCall(c, m, b)
        PROVE  pc[d] = "recvBody" /\ sock[d] = k /\ respHeader'[d] = respHeader[d]
    <3>0. PICK j \in Conns : Begun(c, j, m, b)
      BY <2>2, BeginEffect
    <3>1. /\ pc[c] = "idle" /\ sock' = [sock EXCEPT ![c] = j] /\ UNCHANGED respHeader
          /\ pc' = [pc EXCEPT ![c] = "sendHeader"] \/ UNCHANGED pc
      BY <3>0 DEF Begun
    <3> QED BY <1>0, <3>1 DEF ClientTypeOK
  <2>3. ASSUME NEW l \in {"idle", "destroyed"}, GiveUpConn(c, l)
        PROVE  pc[d] = "recvBody" /\ sock[d] = k /\ respHeader'[d] = respHeader[d]
    BY <1>0, <2>3 DEF GiveUpConn, Goto, ClientTypeOK
  <2>4. SendRequestHeader(c) \/ SendRequestBody(c) =>
          pc[d] = "recvBody" /\ sock[d] = k /\ respHeader'[d] = respHeader[d]
    BY <1>0 DEF SendRequestHeader, SendRequestBody, Goto, ClientTypeOK
  <2>5. c # d /\ RecvResponseHeader(c) =>
          pc[d] = "recvBody" /\ sock[d] = k /\ respHeader'[d] = respHeader[d]
    BY <1>0 DEF RecvResponseHeader, Return, Goto, ClientTypeOK
  <2> QED
    BY <1>2, <2>1, <2>2, <2>3, <2>4, <2>5
    DEF ClientNext, CallStep, CallFailsEarly, RecvResponseBody, ClientIOError, ClientInterrupted,
        CloseClient, DestroyClient
<1>3. UNCHANGED clientVars =>
        pc[d] = "recvBody" /\ sock[d] = k /\ respHeader'[d] = respHeader[d]
  BY DEF clientVars
<1> QED BY <1>0, <1>1, <1>2, <1>3, ServerQuiet DEF Next, Terminated

\* LatestCall is preserved.
LEMMA LatestCallStep == IInv /\ LatestCall /\ [Next]_vars => LatestCall'
<1> SUFFICES ASSUME IInv, LatestCall, [Next]_vars PROVE LatestCall'
  OBVIOUS
<1>0. ClientTypeOK
  BY DEF IInv, TypeOK
<1>1. ASSUME NEW c \in Client, ClientNext(c) PROVE LatestCall'
  <2>1. CASE Quiet(c)
    BY <1>0, <2>1 DEF Quiet, LatestCall, InCall, ClientTypeOK
  <2>2. ASSUME NEW m \in Method, NEW b \in Body, BeginCall(c, m, b) PROVE LatestCall'
    <3>0. PICK k \in Conns : Begun(c, k, m, b)
      BY <2>2, BeginEffect
    <3>1. /\ pc[c] = "idle" /\ seq' = [seq EXCEPT ![c] = @ + 1]
          /\ call' = [call EXCEPT ![c] = NewCall(c, k, m, b)]
          /\ pc' = [pc EXCEPT ![c] = "sendHeader"] \/ UNCHANGED pc
      BY <3>0 DEF Begun
    <3> QED BY <1>0, <3>1, NewCallFields DEF LatestCall, InCall, IOStates, ClientTypeOK
  <2>3. ASSUME NEW l \in {"idle", "destroyed"}, GiveUpConn(c, l) PROVE LatestCall'
    BY <1>0, <2>3 DEF GiveUpConn, Goto, LatestCall, InCall, IOStates, ClientTypeOK
  <2> QED BY <1>1, <2>1, <2>2, <2>3, ClientEffect
<1>2. UNCHANGED clientVars => LatestCall'
  BY DEF clientVars, LatestCall, InCall
<1> QED BY <1>1, <1>2, ServerQuiet DEF Next, Terminated

\* A call on connection k answered with "Can't find ServiceMethod" has its
\* explanation.
Explained(c) ==
  outcome[c] # None /\ outcome[c].err = NotFound =>
    /\ call[c].conn \in Conns
    /\ \E x \in issued[call[c].conn] : x.method \notin Registered /\ x.id <= call[c].id

\* Explained, client by client.
LEMMA Explanations == (\A c \in Client : Explained(c)) <=> NotFoundExplained /\ NotFoundOfCall
  BY DEF Explained, NotFoundExplained, NotFoundOfCall

\* The answer a call takes is explained: with a header whose checksum is
\* right the server answered, and it did so to a connection not clean.
LEMMA RecvBodyExplained ==
  ASSUME IInv, NoneRead, LatestCall, NEW c \in Client, RecvResponseBody(c)
  PROVE  Explained(c)'
<1>0. TypeOK /\ OwnConn /\ IssuedOnce /\ ClientTypeOK
  BY DEF IInv, TypeOK
<1> DEFINE k == sock[c]
           h == respHeader[c]
           f == Head(down[k])
           e == Verdict(h, f, call[c])
           r == IF e = NoErr THEN ReplyPayload(f) ELSE NoReply
<1>1. pc[c] = "recvBody" /\ InCall(c) /\ ReadDown(k) /\ Return(c, e, r)
  BY DEF RecvResponseBody, InCall, IOStates
<1>2. k \in Conns /\ call[c].conn = k /\ call[c].id \in Nat
  BY <1>0, <1>1, CallInNat
<1>3. /\ outcome'[c] = [err |-> e, reply |-> r] /\ call' = call /\ issued' = issued
  BY <1>0, <1>1 DEF Return, ClientTypeOK
<1>4. f \in DownFrames
  BY <1>0, <1>1, <1>2, TailFacts DEF ReadDown, TypeOK, NetTypeOK
<1>5. ASSUME e = NotFound PROVE \E x \in issued[k] : x.method \notin Registered /\ x.id <= call[c].id
  <2>1. Checksum(f) = h.checksum /\ h.error = NotFound
    BY <1>5, WireAssumption DEF Verdict, ResponseAccepted
  <2>2. h.checksum # NoSum
    BY <1>4, <2>1, ReplyPayloadType
  <2>3. ~Clean(k)
    BY <1>1, <1>2, <2>1, <2>2 DEF NoneRead
  <2>4. PICK x \in issued[k] : x.method \notin Registered
    BY <2>3 DEF Clean
  <2>5. x.id \in Nat /\ x.id < seq[c] /\ seq[c] = call[c].id + 1
    BY <1>0, <1>1, <1>2, <2>4, TransportAssumption DEF IssuedOnce, LatestCall, ClientTypeOK, Calls
  <2> QED BY <1>2, <2>4, <2>5
<1> HIDE DEF k, h, f, e, r
<1>6. outcome'[c].err = e
  BY <1>3
<1> QED BY <1>2, <1>3, <1>5, <1>6 DEF Explained

\* Every client's outcome stays explained.
LEMMA ExplainedStep ==
  IInv /\ NoneRead /\ LatestCall /\ NotFoundOfCall /\ NotFoundExplained /\ [Next]_vars =>
    NotFoundExplained' /\ NotFoundOfCall'
<1> SUFFICES ASSUME IInv, NoneRead, LatestCall, \A c \in Client : Explained(c), [Next]_vars,
                    NEW d \in Client
             PROVE  Explained(d)'
  BY Explanations DEF Explained, NotFoundExplained, NotFoundOfCall
<1>0. ClientTypeOK
  BY DEF IInv, TypeOK
<1>1. ASSUME outcome'[d] = outcome[d], call'[d] = call[d], \A k \in Conns : issued[k] \subseteq issued'[k]
      PROVE  Explained(d)'
  BY <1>1 DEF Explained
<1>2. ASSUME outcome'[d] = None \/ outcome'[d].err = LocalErr PROVE Explained(d)'
  BY <1>2, WireAssumption DEF Explained
<1>3. ASSUME NEW c \in Client, ClientNext(c) PROVE Explained(d)'
  <2>1. CASE RecvResponseBody(c)
    <3>1. CASE c = d
      BY <2>1, <3>1, RecvBodyExplained
    <3>2. CASE c # d
      BY <1>0, <1>1, <2>1, <3>2 DEF RecvResponseBody, Return, ClientTypeOK
    <3> QED BY <3>1, <3>2
  <2>2. ASSUME NEW r, Return(c, LocalErr, r) PROVE Explained(d)'
    BY <1>0, <1>1, <1>2, <2>2 DEF Return, ClientTypeOK
  <2>3. ASSUME NEW m \in Method, NEW b \in Body, BeginCall(c, m, b) PROVE Explained(d)'
    <3>0. PICK k \in Conns : Begun(c, k, m, b)
      BY <2>3, BeginEffect
    <3>1. /\ call' = [call EXCEPT ![c] = NewCall(c, k, m, b)]
          /\ \/ /\ issued' = [issued EXCEPT ![k] = @ \cup {NewCall(c, k, m, b)}]
                /\ outcome' = [outcome EXCEPT ![c] = None]
             \/ /\ UNCHANGED <<pc, issued>>
                /\ outcome' = [outcome EXCEPT ![c] = [err |-> LocalErr, reply |-> NoReply]]
      BY <3>0 DEF Begun
    <3>2. CASE c = d
      <4>1. outcome'[d] = None \/ outcome'[d] = [err |-> LocalErr, reply |-> NoReply]
        BY <1>0, <3>1, <3>2 DEF ClientTypeOK
      <4> QED BY <1>2, <4>1
    <3>3. CASE c # d
      <4>1. outcome'[d] = outcome[d] /\ call'[d] = call[d]
        BY <1>0, <3>1, <3>3 DEF ClientTypeOK
      <4>2. \A j \in Conns : issued[j] \subseteq issued'[j]
        BY <1>0, <3>1 DEF ClientTypeOK
      <4> QED BY <1>1, <4>1, <4>2
    <3> QED BY <3>2, <3>3
  <2>4. SendRequestHeader(c) \/ SendRequestBody(c) \/ CloseClient(c) \/ DestroyClient(c)
          => UNCHANGED <<call, outcome, issued>>
    BY DEF SendRequestHeader, SendRequestBody, CloseClient, DestroyClient, GiveUpConn
  <2>5. RecvResponseHeader(c) => Return(c, LocalErr, NoReply) \/ UNCHANGED <<call, outcome, issued>>
    BY DEF RecvResponseHeader
  <2>6. CallFailsEarly(c) \/ ClientIOError(c) \/ ClientInterrupted(c) =>
          Return(c, LocalErr, NoReply)
    BY DEF CallFailsEarly, ClientIOError, ClientInterrupted
  <2> QED BY <1>1, <1>3, <2>1, <2>2, <2>3, <2>4, <2>5, <2>6 DEF ClientNext, CallStep
<1>4. UNCHANGED clientVars => Explained(d)'
  BY <1>1 DEF clientVars
<1> QED BY <1>3, <1>4, ServerQuiet DEF Next, Terminated

(* In every behaviour the server keeps its place in the stream of every    *)
(* connection that is used for registered methods only.                    *)
THEOREM NotFoundInvariance == Spec => []FInv
<1>1. Init => FInv
  <2>1. Init => IInv
    BY InitInvariant
  <2>2. Init => WaitOnce /\ BodiesFollow /\ HeaderSent /\ NoneHeld /\ NoneSent /\ NoneRead
    BY MadeErrors
    DEF Init, NetInit, ClientInit, ServerInit, WaitOnce, BodiesFollow, Follows, HeaderSent, NoneHeld,
        NoneSent, NoneRead, Unset
  <2>3. Init => NotFoundOfCall /\ LatestCall /\ NotFoundExplained
    BY DEF Init, ClientInit, NotFoundOfCall, LatestCall, NotFoundExplained, InCall, IOStates
  <2> QED BY <2>1, <2>2, <2>3 DEF FInv
<1>2. FInv /\ [Next]_vars => FInv'
  BY InvariantStep, WaitOnceStep, OrderStep, NoneHeldStep, NoneSentStep, NoneReadStep,
     LatestCallStep, ExplainedStep
  DEF FInv
<1> QED BY <1>1, <1>2, PTL DEF Spec

(* A registered method is answered "Can't find ServiceMethod" only on a    *)
(* connection that was used for an unregistered one before: without one    *)
(* the server never loses its place in the stream.                         *)
THEOREM NotFoundsExplained == Spec => []NotFoundExplained
<1>1. FInv => NotFoundExplained
  BY DEF FInv
<1> QED BY <1>1, NotFoundInvariance, PTL
=============================================================================
