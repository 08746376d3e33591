-------------------------- MODULE MeteredRegistry --------------------------
(***************************************************************************)
(* The metered assessments over endpoints of the registry.  Assessment     *)
(* lets any endpoint be there from the start, be discovered and be deleted *)
(* as it likes; here endpoints come and go as Inventory promises of        *)
(* EndpointRegistry, and ON DELETE CASCADE takes the summaries of one that *)
(* goes.                                                                   *)
(***************************************************************************)
EXTENDS Assessment

VARIABLES
    ids,    \* the endpoints that exist
    found,  \* pairs of an id and a host discovered there
    last    \* the last id drawn

Registry == INSTANCE Inventory WITH targets <- ids, discovered <- found

registry == <<ids, found, last>>

\* To the assessments an id that is yet to be drawn is an endpoint at which
\* nothing was discovered: either is refused.
NotGone == {t \in Targets : t \in ids \/ t > last}
HostsFound == [t \in Targets |-> {h \in Hosts : <<t, h>> \in found}]

\* The tables that the assessments read, and the cascade.
Seen == targets = NotGone /\ discovered = HostsFound
Cascade == summaries' = {s \in summaries : s.target \in NotGone'}

MeteredInit == Init /\ Registry!Init /\ Seen

HandlersStep ==
    /\ \/ \E c \in Calls : Arrive(c) \/ Handle(c)
       \/ Crash \/ Tick
    /\ UNCHANGED registry

RegistryStep ==
    /\ Registry!Next
    /\ targets' = NotGone' /\ discovered' = HostsFound'
    /\ Cascade
    /\ UNCHANGED <<clock, rows, usage, events, closed, callState>>

MeteredNext == HandlersStep \/ RegistryStep

MeteredSpec == MeteredInit /\ [][MeteredNext]_<<vars, registry>>
=============================================================================
