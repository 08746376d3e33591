------------------------- MODULE MCDemoPublication -------------------------
(* Small instances of DemoPublication for TLC. *)
EXTENDS DemoPublication, TLC

CallSymmetry == Permutations(Calls)

\* Where every asset is of the lab, assets are interchangeable too.
CallAndAssetSymmetry == Permutations(Calls) \cup Permutations(Assets)
=============================================================================
