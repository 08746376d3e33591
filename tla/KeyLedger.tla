----------------------------- MODULE KeyLedger -----------------------------
(***************************************************************************)
(* What the metered assessment promises of an Idempotency-Key, free of     *)
(* handlers, leases and transactions: a key is free, reserved, or answered *)
(* by one charged assessment.  Charging and answering are one step, an     *)
(* answer stays until the key is older than Validity, and no assessment    *)
(* is charged twice.                                                       *)
(***************************************************************************)
EXTENDS Naturals

CONSTANTS Calls, Keys, Validity

VARIABLES
    clock,
    slot,      \* slot[k]: what is known of key k
    charged    \* the assessments charged so far

ledgerVars == <<clock, slot, charged>>

Free == [state |-> "free"]
Reserved(t) == [state |-> "reserved", created |-> t]
AnsweredBy(c, t) == [state |-> "answered", created |-> t, by |-> c]

Init ==
    /\ clock = 0
    /\ slot = [k \in Keys |-> Free]
    /\ charged = {}

Old == {k \in Keys : slot[k] # Free /\ slot[k].created + Validity < clock}

Without(old) == [k \in Keys |-> IF k \in old THEN Free ELSE slot[k]]

\* Keys past their validity are forgotten.
Forget(old) ==
    /\ slot' = Without(old)
    /\ UNCHANGED <<clock, charged>>

\* A key is reserved by a new request.
Reserve(k, old) ==
    /\ Without(old)[k] = Free
    /\ slot' = [Without(old) EXCEPT ![k] = Reserved(clock)]
    /\ UNCHANGED <<clock, charged>>

\* A request without effect gives its key back.
GiveBack(k) ==
    /\ slot[k].state = "reserved"
    /\ slot' = [slot EXCEPT ![k] = Free]
    /\ UNCHANGED <<clock, charged>>

\* An assessment is charged and, with it, its key answered.
Charge(c, k) ==
    /\ c \notin charged
    /\ slot[k].state = "reserved"
    /\ slot' = [slot EXCEPT ![k] = AnsweredBy(c, slot[k].created)]
    /\ charged' = charged \cup {c}
    /\ UNCHANGED clock

ChargeWithoutKey(c) ==
    /\ c \notin charged
    /\ charged' = charged \cup {c}
    /\ UNCHANGED <<clock, slot>>

Pass ==
    /\ clock' = clock + 1
    /\ UNCHANGED <<slot, charged>>

Next ==
    \/ \E old \in SUBSET Old : Forget(old) \/ \E k \in Keys : Reserve(k, old)
    \/ \E k \in Keys : GiveBack(k)
    \/ \E c \in Calls, k \in Keys : Charge(c, k)
    \/ \E c \in Calls : ChargeWithoutKey(c)
    \/ Pass

Spec == Init /\ [][Next]_ledgerVars
=============================================================================
