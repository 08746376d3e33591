--------------------------- MODULE DemoIdentities ---------------------------
(***************************************************************************)
(* The fictitious identities of the public demo: get_or_assign_alias for   *)
(* containers and get_or_assign_host_alias for hosts.                      *)
(*                                                                         *)
(* A call works through a list of assets.  For each it looks the alias up, *)
(* or lists the names in use and tries the free ones of the pool, then one *)
(* numbered name, each in a transaction of its own, moving on when another *)
(* call was faster.                                                        *)
(*                                                                         *)
(* A definition D_X is D with a mistake X in it, for checking that the      *)
(* properties would notice; nothing uses it.                               *)
(***************************************************************************)
EXTENDS Naturals, Sequences, FiniteSets

CONSTANTS
    Calls,      \* HTTP requests
    Assets,     \* Docker ids, or endpoint ids
    Pool,       \* names 1..Pool are the pool's, Pool + n is the n-th numbered name
    Perishable  \* hosts: deleting the asset deletes its alias and is final

ASSUME PoolAssumption == Pool \in Nat /\ Perishable \in BOOLEAN /\ IsFiniteSet(Assets)

None == 0

VARIABLES
    live,   \* the assets that exist
    alias,  \* demo_container_aliases or demo_host_aliases
    pc,     \* where the handler of each call is
    todo,   \* the assets the call has not come to yet
    left,   \* the candidates it has not tried for the one at hand
    named   \* the assets it has named so far

identities == <<live, alias, pc, todo, left, named>>

Subject(c) == Head(todo[c])
Used == {alias[a] : a \in Assets} \ {None}

Candidates_FallbackOnly(used) == {Pool + Cardinality(used) + 1}

\* The free names of the pool, and the numbered name as a last resort.
Candidates(used) == ((1..Pool) \ used) \cup {Pool + Cardinality(used) + 1}
Candidate(c) == CHOOSE n \in left[c] : \A m \in left[c] : n <= m

Taken_OwnerOnly(c, n) == alias[Subject(c)] # None
Taken_NameOnly(c, n) == n \in Used

\* The UNIQUE constraint of the names, or the primary key of the owners.
Taken(c, n) == n \in Used \/ alias[Subject(c)] # None

Goto(c, label) == pc' = [pc EXCEPT ![c] = label]

Grant(c, n) ==
    /\ named' = [named EXCEPT ![c] = Append(@, [asset |-> Subject(c), name |-> n])]
    /\ todo' = [todo EXCEPT ![c] = Tail(@)]
    /\ Goto(c, "next")

AliasFound(c) ==
    /\ pc[c] = "lookup"
    /\ alias[Subject(c)] # None
    /\ Grant(c, alias[Subject(c)])
    /\ UNCHANGED <<live, alias, left>>

AliasMissing(c) ==
    /\ pc[c] = "lookup"
    /\ alias[Subject(c)] = None
    /\ Goto(c, "names")
    /\ UNCHANGED <<live, alias, todo, left, named>>

ListNames(c) ==
    /\ pc[c] = "names"
    /\ left' = [left EXCEPT ![c] = Candidates(Used)]
    /\ Goto(c, "assign")
    /\ UNCHANGED <<live, alias, todo, named>>

\* INSERT and COMMIT of one candidate.
InsertAlias(c) ==
    /\ pc[c] = "assign"
    /\ ~Taken(c, Candidate(c))
    /\ Perishable => Subject(c) \in live
    /\ alias' = [alias EXCEPT ![Subject(c)] = Candidate(c)]
    /\ left' = [left EXCEPT ![c] = {}]
    /\ Grant(c, Candidate(c))
    /\ UNCHANGED live

CandidateTaken_TriedAgain(c) ==
    /\ pc[c] = "assign"
    /\ Taken(c, Candidate(c))
    /\ UNCHANGED identities

\* UniqueViolation: roll back and try the next one; after the last one a
\* RuntimeError ends the call.
CandidateTaken(c) ==
    /\ pc[c] = "assign"
    /\ Taken(c, Candidate(c))
    /\ left' = [left EXCEPT ![c] = @ \ {Candidate(c)}]
    /\ Goto(c, IF left[c] = {Candidate(c)} THEN "exhausted" ELSE "assign")
    /\ UNCHANGED <<live, alias, todo, named>>

\* The foreign key of demo_host_aliases: an error nobody catches.
OwnerGone(c) ==
    /\ pc[c] = "assign"
    /\ ~Taken(c, Candidate(c))
    /\ Perishable /\ Subject(c) \notin live
    /\ left' = [left EXCEPT ![c] = {}]
    /\ Goto(c, "failed")
    /\ UNCHANGED <<live, alias, todo, named>>

Assign(c) ==
    \/ AliasFound(c) \/ AliasMissing(c) \/ ListNames(c)
    \/ InsertAlias(c) \/ CandidateTaken(c) \/ OwnerGone(c)

\* The asset is removed; an endpoint takes its alias with it.
Remove(a) ==
    /\ a \in live
    /\ live' = live \ {a}
    /\ alias' = IF Perishable THEN [alias EXCEPT ![a] = None] ELSE alias
    /\ UNCHANGED <<pc, todo, left, named>>

\* A stopped container runs again under its old Docker id.
Restart(a) ==
    /\ ~Perishable
    /\ a \notin live
    /\ live' = live \cup {a}
    /\ UNCHANGED <<alias, pc, todo, left, named>>
=============================================================================
