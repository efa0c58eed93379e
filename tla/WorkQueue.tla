----------------------------- MODULE WorkQueue -----------------------------
(***************************************************************************)
(* What a caller of Env::Schedule on POSIX may rely on: every item is      *)
(* begun once, in the order they were scheduled, and one is over before    *)
(* the next is begun.                                                      *)
(***************************************************************************)
EXTENDS Sequences

CONSTANT Items

VARIABLES
  pending,  \* items scheduled and not begun, in order
  running   \* items begun and not over

queueVars == <<pending, running>>

Init == pending = <<>> /\ running = {}

Submit(i) == pending' = Append(pending, i) /\ UNCHANGED running

Begin ==
  /\ pending # <<>> /\ running = {}
  /\ running' = {Head(pending)}
  /\ pending' = Tail(pending)

Over(i) == i \in running /\ running' = running \ {i} /\ UNCHANGED pending

Next == Begin \/ \E i \in Items : Submit(i) \/ Over(i)

Spec == Init /\ [][Next]_queueVars
=============================================================================
