------------------------------ MODULE Inventory ------------------------------
(***************************************************************************)
(* What the registry promises to those who work with endpoints, such as    *)
(* the metered assessments: an id is drawn once and never again, a         *)
(* host is known of an endpoint that exists, and goes with it.             *)
(***************************************************************************)
EXTENDS Naturals

CONSTANTS Hosts

VARIABLES
    targets,     \* ids of the endpoints that exist
    discovered,  \* pairs of an id and a host found there
    last         \* the last id drawn

inventoryVars == <<targets, discovered, last>>

Init ==
    /\ last \in Nat
    /\ targets \subseteq 1..last
    /\ discovered \subseteq targets \X Hosts

\* Ids may be drawn in vain.
Draw ==
    /\ last' = last + 1
    /\ UNCHANGED <<targets, discovered>>

Register ==
    /\ last' = last + 1
    /\ targets' = targets \cup {last'}
    /\ UNCHANGED discovered

Find(t, hosts) ==
    /\ t \in targets
    /\ discovered' = discovered \cup ({t} \X hosts)
    /\ UNCHANGED <<targets, last>>

Withdraw(t) ==
    /\ t \in targets
    /\ targets' = targets \ {t}
    /\ discovered' = {d \in discovered : d[1] # t}
    /\ UNCHANGED last

Next ==
    \/ Draw \/ Register
    \/ \E t \in targets : Withdraw(t) \/ \E hosts \in SUBSET Hosts : Find(t, hosts)

Spec == Init /\ [][Next]_inventoryVars
=============================================================================
