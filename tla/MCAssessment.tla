--------------------------- MODULE MCAssessment ---------------------------
(* Small instances of Assessment for TLC. *)
EXTENDS Assessment, TLC

\* Calls are interchangeable: no action orders them.
CallSymmetry == Permutations(Calls)

\* Every address belongs to every endpoint's range.
WholeNetwork == [t \in Targets |-> Hosts]

\* One endpoint is a single address, the other a range around it.
OneSingleAddress ==
    [t \in Targets |-> IF t = (CHOOSE u \in Targets : TRUE) THEN {1} ELSE Hosts]
=============================================================================
