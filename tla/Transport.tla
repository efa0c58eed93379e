------------------------------ MODULE Transport ------------------------------
(***************************************************************************)
(* Connections as rpc_conn.cc uses them: two ordered streams of frames per *)
(* TCP connection, an accept backlog, and the ways a connection ends.      *)
(*                                                                         *)
(* SendFrame and RecvFrame are atomic here.  TCP itself is external: what  *)
(* is modelled is what Conn::Read, Conn::Write and Conn::Close can observe *)
(* of it.  A peer that has closed is noticed by a reader only after it has *)
(* drained the stream, and by a writer perhaps not at all; closing a       *)
(* socket with unread data may abort the connection, which also discards   *)
(* what the peer had not read yet.                                         *)
(***************************************************************************)
EXTENDS Wire, Sequences, FiniteSets

CONSTANTS
  Conns,      \* identities of connections, each dialled at most once
  NoConn,     \* sock_ = 0
  Backlog,    \* the backlog argument of listen()
  MaxFaults   \* bound: faults injected in one behaviour

ASSUME TransportAssumption ==
  /\ IsFiniteSet(Conns) /\ NoConn \notin Conns
  /\ Backlog \in Nat \ {0} /\ MaxFaults \in Nat

VARIABLES
  backlog,  \* connections the kernel has established, not yet accepted
  cliEnd,   \* the client's end of each connection
  srvEnd,   \* the server's end
  up,       \* frames from client to server, written and not yet read
  down,     \* frames from server to client
  reset,    \* the connection was aborted
  faults    \* faults injected so far

netVars == <<backlog, cliEnd, srvEnd, up, down, reset>>

NetTypeOK ==
  /\ backlog \in Seq(Conns)
  /\ cliEnd \in [Conns -> {"unused", "open", "closed"}]
  /\ srvEnd \in [Conns -> {"unused", "open", "closed"}]
  /\ up \in [Conns -> Seq(UpFrames)]
  /\ down \in [Conns -> Seq(DownFrames)]
  /\ reset \in [Conns -> BOOLEAN]
  /\ faults \in 0..MaxFaults

NetInit ==
  /\ backlog = <<>>
  /\ cliEnd = [k \in Conns |-> "unused"]
  /\ srvEnd = [k \in Conns |-> "unused"]
  /\ up = [k \in Conns |-> <<>>]
  /\ down = [k \in Conns |-> <<>>]
  /\ reset = [k \in Conns |-> FALSE]
  /\ faults = 0

UseFault == faults < MaxFaults /\ faults' = faults + 1

-----------------------------------------------------------------------------
(* connect() succeeds once the connection is in the listener's backlog.    *)
Dial(k) ==
  /\ cliEnd[k] = "unused"
  /\ Len(backlog) < Backlog
  /\ backlog' = Append(backlog, k)
  /\ cliEnd' = [cliEnd EXCEPT ![k] = "open"]
  /\ UNCHANGED <<srvEnd, up, down, reset>>

(* accept() takes the oldest connection of the backlog.                    *)
AcceptHead(k) ==
  /\ backlog # <<>> /\ k = Head(backlog)
  /\ backlog' = Tail(backlog)
  /\ srvEnd' = [srvEnd EXCEPT ![k] = "open"]
  /\ UNCHANGED <<cliEnd, up, down, reset>>

(* The connection is aborted: what either side has not read yet is lost.   *)
Abort(k) ==
  /\ reset' = [reset EXCEPT ![k] = TRUE]
  /\ up' = [up EXCEPT ![k] = <<>>]
  /\ down' = [down EXCEPT ![k] = <<>>]

(* A write that succeeds: the frame is queued, or lost on a closed peer,   *)
(* which may answer it by aborting the connection.                         *)
WriteUp(k, f) ==
  /\ ~reset[k]
  /\ \/ /\ srvEnd[k] # "closed"
        /\ up' = [up EXCEPT ![k] = Append(@, f)]
        /\ UNCHANGED <<down, reset>>
     \/ srvEnd[k] = "closed" /\ UNCHANGED <<up, down, reset>>
     \/ srvEnd[k] = "closed" /\ Abort(k)
  /\ UNCHANGED <<backlog, cliEnd, srvEnd>>

WriteDown(k, f) ==
  /\ ~reset[k]
  /\ \/ /\ cliEnd[k] # "closed"
        /\ down' = [down EXCEPT ![k] = Append(@, f)]
        /\ UNCHANGED <<up, reset>>
     \/ cliEnd[k] = "closed" /\ UNCHANGED <<up, down, reset>>
     \/ cliEnd[k] = "closed" /\ Abort(k)
  /\ UNCHANGED <<backlog, cliEnd, srvEnd>>

(* A read that succeeds removes the oldest frame.                          *)
ReadUp(k) ==
  /\ up[k] # <<>>
  /\ up' = [up EXCEPT ![k] = Tail(@)]
  /\ UNCHANGED <<backlog, cliEnd, srvEnd, down, reset>>

ReadDown(k) ==
  /\ down[k] # <<>>
  /\ down' = [down EXCEPT ![k] = Tail(@)]
  /\ UNCHANGED <<backlog, cliEnd, srvEnd, up, reset>>

(* When SendFrame or RecvFrame may return false on a connection.           *)
WriteUpFails(k)   == reset[k] \/ srvEnd[k] = "closed"
WriteDownFails(k) == reset[k] \/ cliEnd[k] = "closed"
ReadUpFails(k)    == reset[k] \/ (up[k] = <<>> /\ cliEnd[k] = "closed")
ReadDownFails(k)  == reset[k] \/ (down[k] = <<>> /\ srvEnd[k] = "closed")

(* Conn::Close on either end.                                              *)
CloseCli(k) ==
  /\ cliEnd' = [cliEnd EXCEPT ![k] = "closed"]
  /\ \/ down' = [down EXCEPT ![k] = <<>>] /\ UNCHANGED <<up, reset>>
     \/ down[k] # <<>> /\ Abort(k)
  /\ UNCHANGED <<backlog, srvEnd>>

CloseSrv(k) ==
  /\ srvEnd' = [srvEnd EXCEPT ![k] = "closed"]
  /\ \/ up' = [up EXCEPT ![k] = <<>>] /\ UNCHANGED <<down, reset>>
     \/ up[k] # <<>> /\ Abort(k)
  /\ UNCHANGED <<backlog, cliEnd>>

(* The network drops an established connection.                            *)
Break(k) ==
  /\ cliEnd[k] = "open" /\ srvEnd[k] # "closed" /\ ~reset[k]
  /\ UseFault
  /\ Abort(k)
  /\ UNCHANGED <<backlog, cliEnd, srvEnd>>
=============================================================================
