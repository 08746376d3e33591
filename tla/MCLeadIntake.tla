---------------------------- MODULE MCLeadIntake ----------------------------
(* Small instances of LeadIntake for TLC. *)
EXTENDS LeadIntake, TLC

RequestSymmetry == Permutations(Requests)
=============================================================================
