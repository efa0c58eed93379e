----------------------------- MODULE EnvSystem ------------------------------
(* Env::Default and the PosixEnv it hands out, as a program uses them: the   *)
(* constructor of a Server asks for the default Env, several threads at once *)
(* if they come at the same time, and a thread schedules its items on the    *)
(* Env it was given.                                                         *)
EXTENDS PosixEnv, EnvDefault

ASSUME UserAssumption == User = Thread

SystemInit == Init /\ OnceInit

\* A thread asks for the Env once and is given it before it schedules.
AskForEnv ==
    /\ \E t \in User : (got[t] = 0 /\ CallDefault(t)) \/ InDefault(t)
    /\ UNCHANGED vars

UseEnv ==
    /\ Next
    /\ \A t \in User : calls'[t] # calls[t] => got[t] # 0
    /\ UNCHANGED onceVars

SystemSpec ==
    /\ SystemInit /\ [][AskForEnv \/ UseEnv]_<<vars, onceVars>>
    /\ Fairness /\ OnceFairness
=============================================================================
