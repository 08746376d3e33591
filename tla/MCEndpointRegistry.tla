------------------------- MODULE MCEndpointRegistry -------------------------
(* Small instances of EndpointRegistry for TLC. *)
EXTENDS EndpointRegistry, TLC

\* Handlers, people and user names are interchangeable.
NameSymmetry == Permutations(Handlers) \cup Permutations(People) \cup Permutations(UserNames)

\* A good row after a bad one, a row twice, and a list that is too long.
SomeLists ==
    {<<NoAddress, a>> : a \in Addresses} \cup {<<a, a>> : a \in Addresses}
        \cup {<<a, a, a>> : a \in Addresses}
=============================================================================
