------------------------------- MODULE MCNames -------------------------------
(* The two things of a server and its client that go by names: the methods   *)
(* it registers and the pool of descriptors these belong to, one or the      *)
(* other in a behaviour.  What joins them is a descriptor, of which the      *)
(* registry assumes that its name and its methods do not change.             *)
EXTENDS MCServerRegistry, MCPool

VARIABLE subject   \* which of the two this behaviour is about

NamesInit ==
    /\ MCInit /\ PoolInit
    /\ subject \in {"registry", "pool"}
    /\ subject = "registry" => database = Database(Astray, "last")

NamesNext ==
    /\ UNCHANGED subject
    /\ \/ subject = "registry" /\ RegistryNext /\ UNCHANGED poolVars
       \/ subject = "pool" /\ PoolNext /\ UNCHANGED <<vars, name>>

NamesSpec == NamesInit /\ [][NamesNext]_<<vars, name, poolVars, subject>>
             /\ WF_poolVars(subject = "pool" /\ PoolStep /\ UNCHANGED <<vars, name, subject>>)
=============================================================================
