------------------------------- MODULE MCPosix -------------------------------
(* What the RPC layer stands on: connections, frame by frame, and the Env,   *)
(* one or the other in a behaviour.  What joins them is that an item of the  *)
(* Env serves a connection; PosixEnv assumes of an item that it returns, and *)
(* ConnFrames of a thread that it goes on reading.                           *)
EXTENDS EnvSystem, MCConnFrames

VARIABLE subject   \* which of the two this behaviour is about

PosixInit ==
    /\ SystemInit /\ MCInit
    /\ subject \in {"env", "frames"}

PosixNext ==
    /\ UNCHANGED subject
    /\ \/ subject = "env" /\ (AskForEnv \/ UseEnv) /\ UNCHANGED <<framesVars, num, arrived>>
       \/ subject = "frames" /\ MCNext /\ UNCHANGED <<vars, onceVars>>

\* Nothing fair is enabled in the part that rests: no thread has asked for
\* the Env, no frame was begun.
PosixSpec ==
    /\ PosixInit /\ [][PosixNext]_<<vars, onceVars, framesVars, num, arrived, subject>>
    /\ Fairness /\ OnceFairness /\ FramesFairness
=============================================================================
