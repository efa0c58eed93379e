------------------------------ MODULE RpcClient ------------------------------
(***************************************************************************)
(* The Client class (rpc_client.cc): CallMethod, Close and the destructor. *)
(*                                                                         *)
(* Each Client object is used by one thread, as the class has no lock.     *)
(* callMethod blocks in four frame operations; each is a step of its own.  *)
(* It keeps the connection whatever the outcome of the call: only Close    *)
(* and the destructor give it up.                                          *)
(***************************************************************************)
EXTENDS Transport

CONSTANTS
  Client,      \* Client objects
  MaxCalls,    \* bound: calls per Client
  ReplyParses, \* <<m, r>>: r parses as the response message given for m
  None         \* no header, no outcome

ASSUME ClientAssumption ==
  /\ MaxCalls \in Nat
  /\ ReplyParses \subseteq Method \X Reply
  /\ None \notin ResponseHeaders \cup [err : Errors, reply : Reply]

VARIABLES
  sock,       \* conn_.sock_: the connection in use, or NoConn
  seq,        \* seq_
  pc,         \* where the client's thread is
  call,       \* the arguments and id of the latest call, and its connection
  respHeader, \* callMethod's local respHeader
  outcome,    \* what the latest CallMethod returned, None before it does
  issued      \* history: on each connection, the calls it was used for

clientVars == <<sock, seq, pc, call, respHeader, outcome, issued>>

Calls == [conn : Conns, id : Nat, method : Method, body : Body]

NoCall == [conn |-> NoConn, id |-> 0, method |-> EmptyName, body |-> HeaderAsBody]

IOStates == {"sendHeader", "sendBody", "recvHeader", "recvBody"}

ClientTypeOK ==
  /\ sock \in [Client -> Conns \cup {NoConn}]
  /\ seq \in [Client -> 0..MaxCalls]
  /\ pc \in [Client -> IOStates \cup {"idle", "destroyed"}]
  /\ call \in [Client -> Calls \cup {NoCall}]
  /\ respHeader \in [Client -> ResponseHeaders \cup {None}]
  /\ outcome \in [Client -> [err : Errors, reply : Reply] \cup {None}]
  /\ issued \in [Conns -> SUBSET Calls]

ClientInit ==
  /\ sock = [c \in Client |-> NoConn]
  /\ seq = [c \in Client |-> 0]
  /\ pc = [c \in Client |-> "idle"]
  /\ call = [c \in Client |-> NoCall]
  /\ respHeader = [c \in Client |-> None]
  /\ outcome = [c \in Client |-> None]
  /\ issued = [k \in Conns |-> {}]

Goto(c, l) == pc' = [pc EXCEPT ![c] = l]

(* CallMethod returns the error e; r is the content of *response.          *)
Return(c, e, r) ==
  /\ Goto(c, "idle")
  /\ outcome' = [outcome EXCEPT ![c] = [err |-> e, reply |-> r]]
  /\ respHeader' = [respHeader EXCEPT ![c] = None]
  /\ UNCHANGED <<sock, seq, call, issued>>

-----------------------------------------------------------------------------
(* checkMothdValid refuses the arguments, or DialTCP fails: nothing has    *)
(* been sent and no id has been taken.                                     *)
CallFailsEarly(c) ==
  /\ pc[c] = "idle"
  /\ Return(c, LocalErr, NoReply)
  /\ UNCHANGED <<netVars, faults>>

(* The connection for the next call: the one in use, or a new one.         *)
Connected(c, k) ==
  IF sock[c] = NoConn THEN Dial(k) ELSE k = sock[c] /\ UNCHANGED netVars

\* Mutant: seq_ is read and never advanced.
NextIdStuck(c) == UNCHANGED seq
NextId(c) == seq' = [seq EXCEPT ![c] = @ + 1]

(* callMethod up to its first write: dial if there is no connection, take  *)
(* an id, build the header and refuse it if it is too large.               *)
BeginCall(c, m, b) ==
  /\ pc[c] = "idle" /\ m # EmptyName
  /\ seq[c] < MaxCalls
  /\ NextId(c)
  /\ \E k \in Conns :
       LET x == [conn |-> k, id |-> seq[c], method |-> m, body |-> b] IN
       /\ Connected(c, k)
       /\ sock' = [sock EXCEPT ![c] = k]
       /\ call' = [call EXCEPT ![c] = x]
       /\ \/ /\ HeaderFits(RequestHeaderLen(m))
             /\ issued' = [issued EXCEPT ![k] = @ \cup {x}]
             /\ outcome' = [outcome EXCEPT ![c] = None]
             /\ Goto(c, "sendHeader")
          \/ /\ ~HeaderFits(RequestHeaderLen(m))
             /\ outcome' = [outcome EXCEPT ![c] = [err |-> LocalErr, reply |-> NoReply]]
             /\ UNCHANGED <<pc, issued>>
  /\ UNCHANGED <<respHeader, faults>>

SendRequestHeader(c) ==
  /\ pc[c] = "sendHeader"
  /\ WriteUp(sock[c], RequestHeader(call[c].id, call[c].method, call[c].body))
  /\ Goto(c, "sendBody")
  /\ UNCHANGED <<sock, seq, call, respHeader, outcome, issued, faults>>

SendRequestBody(c) ==
  /\ pc[c] = "sendBody"
  /\ WriteUp(sock[c], RequestBody(call[c].body))
  /\ Goto(c, "recvHeader")
  /\ UNCHANGED <<sock, seq, call, respHeader, outcome, issued, faults>>

\* Mutant: a header without an error is taken for the whole answer.
RecvResponseHeaderOnly(c) ==
  /\ pc[c] = "recvHeader"
  /\ ReadDown(sock[c])
  /\ LET h == ParseResponseHeader(Head(down[sock[c]])) IN
     Return(c, IF h = Malformed THEN LocalErr ELSE h.error, NoReply)
  /\ UNCHANGED faults

RecvResponseHeader(c) ==
  /\ pc[c] = "recvHeader"
  /\ ReadDown(sock[c])
  /\ LET h == ParseResponseHeader(Head(down[sock[c]])) IN
     \/ h = Malformed /\ Return(c, LocalErr, NoReply)
     \/ /\ h # Malformed
        /\ respHeader' = [respHeader EXCEPT ![c] = h]
        /\ Goto(c, "recvBody")
        /\ UNCHANGED <<sock, seq, call, outcome, issued>>
  /\ UNCHANGED faults

(* RecvResponseBody: checksum, then the response message's own format.     *)
ResponseAccepted(h, f, m) ==
  Checksum(f) = h.checksum /\ <<m, ReplyPayload(f)>> \in ReplyParses

\* Mutant: the id of the response is not compared.
VerdictAnyId(h, f, x) ==
  IF ~ResponseAccepted(h, f, x.method) THEN LocalErr ELSE h.error

(* The error callMethod returns once header h and body frame f are read.   *)
Verdict(h, f, x) ==
  IF ~ResponseAccepted(h, f, x.method) THEN LocalErr
  ELSE IF h.id # x.id THEN LocalErr
  ELSE h.error

RecvResponseBody(c) ==
  /\ pc[c] = "recvBody"
  /\ ReadDown(sock[c])
  /\ LET f == Head(down[sock[c]])
         e == Verdict(respHeader[c], f, call[c]) IN
     Return(c, e, IF e = NoErr THEN ReplyPayload(f) ELSE NoReply)
  /\ UNCHANGED faults

(* SendFrame or RecvFrame returned false because the connection is dead,   *)
ClientIOError(c) ==
  /\ \/ pc[c] \in {"sendHeader", "sendBody"} /\ WriteUpFails(sock[c])
     \/ pc[c] \in {"recvHeader", "recvBody"} /\ ReadDownFails(sock[c])
  /\ Return(c, LocalErr, NoReply)
  /\ UNCHANGED <<netVars, faults>>

(* or because the system call failed on a connection that is intact, which *)
(* Conn::Read and Conn::Write do not tell apart (EINTR, ENOBUFS).          *)
ClientInterrupted(c) ==
  /\ pc[c] \in IOStates
  /\ UseFault
  /\ Return(c, LocalErr, NoReply)
  /\ UNCHANGED netVars

(* Close() and ~Client(): the descriptor is closed and sock_ is zeroed.    *)
GiveUpConn(c, l) ==
  /\ pc[c] = "idle"
  /\ IF sock[c] = NoConn THEN UNCHANGED netVars ELSE CloseCli(sock[c])
  /\ sock' = [sock EXCEPT ![c] = NoConn]
  /\ Goto(c, l)
  /\ UNCHANGED <<seq, call, respHeader, outcome, issued, faults>>

CloseClient(c)   == sock[c] # NoConn /\ GiveUpConn(c, "idle")
DestroyClient(c) == GiveUpConn(c, "destroyed")

\* The steps a client's thread takes by itself once a call has begun.
CallStep(c) ==
  \/ SendRequestHeader(c) \/ SendRequestBody(c)
  \/ RecvResponseHeader(c) \/ RecvResponseBody(c) \/ ClientIOError(c)

ClientNext(c) ==
  \/ CallFailsEarly(c)
  \/ \E m \in Method, b \in Body : BeginCall(c, m, b)
  \/ CallStep(c)
  \/ ClientInterrupted(c)
  \/ CloseClient(c)
  \/ DestroyClient(c)
=============================================================================
