---------------------------- MODULE CallContract ----------------------------
(***************************************************************************)
(* What the RPC layer promises, without connections, frames or a server    *)
(* loop: a client's call is executed at most once, in the order of its     *)
(* session, before or after the caller has its answer; the answer is the   *)
(* service's own, or an error made up on the way, which says nothing about *)
(* whether the call was or will be executed.                               *)
(***************************************************************************)
EXTENDS Naturals, Sequences

CONSTANTS
  Client, Session,
  Made,            \* errors that do not come from the service
  Service(_),      \* the service's answer to a call: [err, reply]
  Nil,             \* the err of a successful answer
  Nothing,         \* the reply that comes with an error
  Pending          \* no answer yet

VARIABLES
  begun,     \* the calls begun in each session
  executed,  \* the calls executed in each session, in order
  latest,    \* each client's latest call
  result     \* its answer, or Pending

contractVars == <<begun, executed, latest, result>>

AsRun(x) == [id |-> x.id, method |-> x.method, body |-> x.body]

Init ==
  /\ begun = [s \in Session |-> {}]
  /\ executed = [s \in Session |-> <<>>]
  /\ result = [c \in Client |-> Pending]

\* A call joins a session after every call begun in it.
Begin(c) ==
  LET x == latest'[c] IN
  /\ latest' = [latest EXCEPT ![c] = x] /\ x.conn \in Session
  /\ \A y \in begun[x.conn] : y.id < x.id
  /\ begun' = [begun EXCEPT ![x.conn] = @ \cup {x}]
  /\ result' = [result EXCEPT ![c] = Pending]
  /\ UNCHANGED executed

\* A call that is refused before anything is sent.
Refuse(c) ==
  /\ result'[c] # Pending /\ result'[c].err \in Made
  /\ result' = [result EXCEPT ![c] = [err |-> result'[c].err, reply |-> Nothing]]
  /\ latest' = [latest EXCEPT ![c] = latest'[c]]
  /\ UNCHANGED <<begun, executed>>

Execute(s) ==
  /\ \E x \in begun[s] :
       /\ \A i \in DOMAIN executed[s] : executed[s][i].id < x.id
       /\ executed' = [executed EXCEPT ![s] = Append(@, AsRun(x))]
  /\ UNCHANGED <<begun, latest, result>>

Done(x) == \E i \in DOMAIN executed[x.conn] : executed[x.conn][i] = AsRun(x)

Return(c) ==
  LET x == latest[c]
      e == result'[c].err IN
  /\ result[c] = Pending /\ result'[c] # Pending
  /\ x.conn \in Session /\ x \in begun[x.conn]
  /\ e \in Made \/ (Done(x) /\ e = Service(x).err)
  /\ result' = [result EXCEPT ![c] =
       [err |-> e, reply |-> IF e = Nil THEN Service(x).reply ELSE Nothing]]
  /\ UNCHANGED <<begun, executed, latest>>

Next ==
  \/ \E c \in Client : Begin(c) \/ Refuse(c) \/ Return(c)
  \/ \E s \in Session : Execute(s)

Spec == Init /\ [][Next]_contractVars
=============================================================================
