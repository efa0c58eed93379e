----------------------------- MODULE EnvDefault -----------------------------
(***************************************************************************)
(* Env::Default of POSIX (rpc_env_posix.cc): the first caller creates the  *)
(* PosixEnv that all share, through GoogleOnceInit (stubs/once.h and       *)
(* stubs/once.cc).  Every access to the once object is an action; they are *)
(* acquire and release operations on one word, so that their interleavings *)
(* are all there is to see.                                                *)
(***************************************************************************)
EXTENDS Naturals

CONSTANT User  \* threads that call Env::Default

VARIABLES
  once,           \* the once object, g_env_default_init_once
  g_env_default,  \* 0 for NULL, n for the n-th PosixEnv created
  created,        \* PosixEnvs created so far
  at,             \* where each thread is
  got             \* what its last call of Default returned, 0 before

onceVars == <<once, g_env_default, created, at, got>>

OnceState == {"uninitialized", "executing", "done"}

OnceTypeOK ==
  /\ once \in OnceState
  /\ g_env_default \in Nat
  /\ created \in Nat
  /\ at \in [User -> {"out", "load", "swap", "run", "store", "spin", "get"}]
  /\ got \in [User -> Nat]

\* The two statics are zero when the program starts.
OnceInit ==
  /\ once = "uninitialized"
  /\ g_env_default = 0
  /\ created = 0
  /\ at = [t \in User |-> "out"]
  /\ got = [t \in User |-> 0]

Moves(t, from, to) == at[t] = from /\ at' = [at EXCEPT ![t] = to]

(* The test of GoogleOnceInit, the fast path of GoogleOnceInitImpl.        *)
CallDefault(t) ==
  /\ Moves(t, "out", IF once = "done" THEN "get" ELSE "load")
  /\ UNCHANGED <<once, g_env_default, created, got>>

LoadOnce(t) ==
  /\ Moves(t, "load", IF once = "done" THEN "get" ELSE "swap")
  /\ UNCHANGED <<once, g_env_default, created, got>>

\* Mutant: a thread that finds the closure executing goes on at once.
SwapNoWait(t) ==
  /\ IF once = "uninitialized"
       THEN Moves(t, "swap", "run") /\ once' = "executing"
       ELSE Moves(t, "swap", "get") /\ UNCHANGED once
  /\ UNCHANGED <<g_env_default, created, got>>

(* The compare-and-swap: the thread that wins runs the closure.            *)
CompareAndSwap(t) ==
  /\ IF once = "uninitialized"
       THEN Moves(t, "swap", "run") /\ once' = "executing"
       ELSE Moves(t, "swap", IF once = "executing" THEN "spin" ELSE "get") /\ UNCHANGED once
  /\ UNCHANGED <<g_env_default, created, got>>

(* InitDefaultEnv.                                                         *)
RunClosure(t) ==
  /\ Moves(t, "run", "store")
  /\ created' = created + 1
  /\ g_env_default' = created + 1
  /\ UNCHANGED <<once, got>>

\* Mutant: the once object is not marked done.
StoreExecuting(t) ==
  /\ Moves(t, "store", "get")
  /\ UNCHANGED <<once, g_env_default, created, got>>

StoreDone(t) ==
  /\ Moves(t, "store", "get")
  /\ once' = "done"
  /\ UNCHANGED <<g_env_default, created, got>>

SpinLoad(t) ==
  /\ Moves(t, "spin", IF once = "executing" THEN "spin" ELSE "get")
  /\ UNCHANGED <<once, g_env_default, created, got>>

ReturnEnv(t) ==
  /\ Moves(t, "get", "out")
  /\ got' = [got EXCEPT ![t] = g_env_default]
  /\ UNCHANGED <<once, g_env_default, created>>

InDefault(t) ==
  \/ LoadOnce(t) \/ CompareAndSwap(t) \/ RunClosure(t)
  \/ StoreDone(t) \/ SpinLoad(t) \/ ReturnEnv(t)

OnceNext == \E t \in User : CallDefault(t) \/ InDefault(t)

OnceSpec == OnceInit /\ [][OnceNext]_onceVars

(* A thread inside Default runs on; nobody has to call it.                 *)
OnceFairness == \A t \in User : WF_onceVars(InDefault(t))

-----------------------------------------------------------------------------
(* No call of Default returns NULL, and all of them return one PosixEnv,   *)
(* whoever calls first and however the calls overlap: every Schedule of    *)
(* the program reaches one queue and one background thread.                *)
Past(t) == at[t] = "get"
OneEnv ==
  /\ \A t \in User : Past(t) => g_env_default # 0
  /\ \A t, u \in User : got[t] # 0 /\ got[u] # 0 => got[t] = got[u]

(* g_env_default, once set, is never set again.                            *)
NeverReplaced == [][g_env_default # 0 => g_env_default' = g_env_default]_onceVars

(* The inductive invariant: one thread at most is between the swap and the *)
(* store, as the once object says, and it finds no env when it runs.       *)
Creator(t) == at[t] \in {"run", "store"}
OnceIInv ==
  /\ OnceTypeOK
  /\ created = g_env_default
  /\ \A t \in User : Creator(t) => once = "executing"
  /\ \A t, u \in User : Creator(t) /\ Creator(u) => t = u
  /\ once = "uninitialized" => g_env_default = 0
  /\ once = "done" => g_env_default = 1
  /\ \A t \in User :
       /\ at[t] = "run" => g_env_default = 0
       /\ at[t] = "store" => g_env_default = 1
       /\ at[t] = "get" => once = "done"
       /\ at[t] = "spin" => once # "uninitialized"
       /\ got[t] # 0 => once = "done" /\ got[t] = 1

(* Every call of Default returns: nobody spins for good.                   *)
DefaultReturns == \A t \in User : at[t] # "out" ~> at[t] = "out"
=============================================================================
