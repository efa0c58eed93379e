------------------------------ MODULE PosixEnv ------------------------------
(***************************************************************************)
(* The default Env of POSIX systems (rpc_env_posix.cc): Schedule puts an   *)
(* item into a queue guarded by mu_, and one background thread, created by *)
(* the first call, takes them out and runs them.  The items are called     *)
(* from that thread without mu_, and may call Schedule themselves.         *)
(*                                                                         *)
(* Every step between two operations on mu_ and bgsignal_ is an action.    *)
(* bgsignal_ has one waiter at most, so a signal wakes the background      *)
(* thread if it waits and is lost if it does not; POSIX also lets a wait   *)
(* return for no reason.                                                   *)
(***************************************************************************)
EXTENDS Naturals, Sequences

CONSTANTS
  Thread,    \* threads of the program that call Schedule
  BG,        \* the background thread
  MaxCalls,  \* bound: calls of Schedule per thread
  Free,      \* mu_ is not held
  NoItem     \* BGThread has no item

ASSUME EnvAssumption ==
  /\ BG \notin Thread /\ Free \notin Thread \cup {BG} /\ MaxCalls \in Nat
  /\ NoItem \notin (Thread \cup {BG}) \X (1..MaxCalls)

Caller == Thread \cup {BG}
Items  == Caller \X (1..MaxCalls)  \* the n-th item a thread schedules

VARIABLES
  mu,       \* the holder of mu_
  started,  \* started_bgthread_
  queue,    \* queue_
  pc,       \* where each caller is in Schedule
  calls,    \* calls of Schedule begun by each
  bg,       \* where the background thread is in BGThread
  item      \* its locals function and arg

vars == <<mu, started, queue, pc, calls, bg, item>>

TypeOK ==
  /\ mu \in Caller \cup {Free}
  /\ started \in BOOLEAN
  /\ queue \in Seq(Items)
  /\ pc \in [Caller -> {"out", "lock", "start", "signal", "push", "unlock"}]
  /\ calls \in [Caller -> 0..MaxCalls]
  /\ bg \in {"none", "lock", "check", "wait", "woken", "unlock", "run"}
  /\ item \in Items \cup {NoItem}

Init ==
  /\ mu = Free
  /\ started = FALSE
  /\ queue = <<>>
  /\ pc = [t \in Caller |-> "out"]
  /\ calls = [t \in Caller |-> 0]
  /\ bg = "none"
  /\ item = NoItem

Lock(t) == mu = Free /\ mu' = t
Unlock(t) == mu = t /\ mu' = Free

Goes(t, from, to) == pc[t] = from /\ pc' = [pc EXCEPT ![t] = to]

-----------------------------------------------------------------------------
(* Schedule.  The background thread calls it only from within an item.     *)

CallSchedule(t) ==
  /\ t = BG => bg = "run"
  /\ calls[t] < MaxCalls
  /\ calls' = [calls EXCEPT ![t] = @ + 1]
  /\ Goes(t, "out", "lock")
  /\ UNCHANGED <<mu, started, queue, bg, item>>

LockMutex(t) ==
  /\ Goes(t, "lock", "start")
  /\ Lock(t)
  /\ UNCHANGED <<started, queue, calls, bg, item>>

StartBGThread(t) ==
  /\ Goes(t, "start", "signal")
  /\ IF started THEN UNCHANGED <<started, bg>> ELSE started' = TRUE /\ bg' = "lock"
  /\ UNCHANGED <<mu, queue, calls, item>>

\* Mutant: the signal is given only if there was an item to wait for already.
SignalLate(t) ==
  /\ Goes(t, "signal", "push")
  /\ bg' = IF queue # <<>> /\ bg = "wait" THEN "woken" ELSE bg
  /\ UNCHANGED <<mu, started, queue, calls, item>>

Signal(t) ==
  /\ Goes(t, "signal", "push")
  /\ bg' = IF queue = <<>> /\ bg = "wait" THEN "woken" ELSE bg
  /\ UNCHANGED <<mu, started, queue, calls, item>>

PushBack(t) ==
  /\ Goes(t, "push", "unlock")
  /\ queue' = Append(queue, <<t, calls[t]>>)
  /\ UNCHANGED <<mu, started, calls, bg, item>>

\* Mutant: Schedule returns with mu_ held when the thread was running already.
UnlockForgotten(t) ==
  /\ Goes(t, "unlock", "out")
  /\ IF bg = "run" THEN UNCHANGED mu ELSE Unlock(t)
  /\ UNCHANGED <<started, queue, calls, bg, item>>

UnlockMutex(t) ==
  /\ Goes(t, "unlock", "out")
  /\ Unlock(t)
  /\ UNCHANGED <<started, queue, calls, bg, item>>

ScheduleStep(t) ==
  \/ LockMutex(t) \/ StartBGThread(t) \/ Signal(t) \/ PushBack(t) \/ UnlockMutex(t)

-----------------------------------------------------------------------------
(* BGThread.                                                               *)

BGLock ==
  /\ bg \in {"lock", "woken"}
  /\ Lock(BG)
  /\ bg' = "check"
  /\ UNCHANGED <<started, queue, pc, calls, item>>

\* Mutant: the item is not removed from the queue.
BGCheckKeeps ==
  /\ bg = "check"
  /\ \/ queue = <<>> /\ Unlock(BG) /\ bg' = "wait" /\ UNCHANGED item
     \/ queue # <<>> /\ item' = Head(queue) /\ bg' = "unlock" /\ UNCHANGED mu
  /\ UNCHANGED <<started, queue, pc, calls>>

(* The loop's test: wait, which releases mu_ at once, or take an item.     *)
BGCheck ==
  /\ bg = "check"
  /\ \/ /\ queue = <<>>
        /\ Unlock(BG)
        /\ bg' = "wait"
        /\ UNCHANGED <<queue, item>>
     \/ /\ queue # <<>>
        /\ item' = Head(queue)
        /\ queue' = Tail(queue)
        /\ bg' = "unlock"
        /\ UNCHANGED mu
  /\ UNCHANGED <<started, pc, calls>>

SpuriousWakeup ==
  /\ bg = "wait"
  /\ bg' = "woken"
  /\ UNCHANGED <<mu, started, queue, pc, calls, item>>

BGUnlock ==
  /\ bg = "unlock"
  /\ Unlock(BG)
  /\ bg' = "run"
  /\ UNCHANGED <<started, queue, pc, calls, item>>

(* function(arg) returns, which is for the function to decide.             *)
ItemOver ==
  /\ bg = "run" /\ pc[BG] = "out"
  /\ item' = NoItem
  /\ bg' = "lock"
  /\ UNCHANGED <<mu, started, queue, pc, calls>>

BGStep == BGLock \/ BGCheck \/ BGUnlock

Next ==
  \/ \E t \in Caller : CallSchedule(t) \/ ScheduleStep(t)
  \/ BGStep
  \/ SpuriousWakeup
  \/ ItemOver

Spec == Init /\ [][Next]_vars

(* Threads inside Schedule and BGThread run on as long as they can; that   *)
(* includes taking mu_ when it is free for good.  Nothing obliges a thread *)
(* to call Schedule, an item to return or a wait to end by itself.         *)
Fairness ==
  /\ \A t \in Caller : WF_vars(ScheduleStep(t))
  /\ WF_vars(BGStep)

FairSpec == Spec /\ Fairness

-----------------------------------------------------------------------------
(* Schedule signals before it pushes, and only if it finds the queue       *)
(* empty.  Even so the background thread never sleeps on an item: waiting, *)
(* it finds none when it went to sleep and is woken for the first to come. *)
NoLostWakeup == bg = "wait" => queue = <<>>

(* Whoever is between lock and unlock holds mu_: the queue and the flag    *)
(* are only touched by its holder, and nobody runs an item holding it, so  *)
(* that an item may itself call Schedule.                                  *)
Inside(t) == pc[t] \in {"start", "signal", "push", "unlock"}
MutexGuards ==
  /\ \A t \in Caller : Inside(t) => mu = t
  /\ bg \in {"check", "unlock"} => mu = BG /\ ~Inside(BG)
  /\ mu # Free => Inside(mu) \/ (mu = BG /\ bg \in {"check", "unlock"})

(* The inductive invariant of the proofs adds what the steps between lock  *)
(* and unlock rely on.                                                     *)
IInv ==
  /\ TypeOK
  /\ MutexGuards
  /\ NoLostWakeup
  /\ \A t \in Caller : pc[t] = "push" => bg # "wait"
  /\ \A t \in Caller : pc[t] # "out" => calls[t] > 0
  /\ pc[BG] # "out" => bg = "run"
  /\ ~started <=> bg = "none"
  /\ item # NoItem <=> bg \in {"unlock", "run"}

(* rpc_env.h promises that Schedule runs its function once, in a           *)
(* background thread.  Items are begun once, in the order of the calls,    *)
(* and here one at a time.                                                 *)
Work == INSTANCE WorkQueue WITH
  pending <- queue, running <- {item} \ {NoItem}
ImplementsWorkQueue == Work!Spec

(* An item that was scheduled is run in the end, provided that no item     *)
(* before it runs for ever, as a ServeProc does while its client rests.    *)
ItemsReturn == []<>(bg # "run")
ItemsRun ==
  ItemsReturn =>
    \A i \in Items : (\E n \in DOMAIN queue : queue[n] = i) ~> (bg = "run" /\ item = i)
=============================================================================
