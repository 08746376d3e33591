-------------------------- MODULE DemoPublication --------------------------
(***************************************************************************)
(* Preview, publication and revocation of the public demo, for containers  *)
(* (/demo-snapshot) or for hosts (/demo-host-snapshot, Perishable).        *)
(*                                                                         *)
(* A publication lists the live assets, names every eligible one (see      *)
(* DemoIdentities, which commits on the way), scans the result and inserts *)
(* a snapshot.  The public sees the newest snapshot that is not revoked.   *)
(***************************************************************************)
EXTENDS DemoIdentities, Functions

CONSTANTS
    Demo,       \* assets of the demo lab: the label, or the reserved range
    MaxAssets,  \* longest list a request of the checked runs carries
    Together    \* calls in progress at once in the checked runs

ASSUME DemoAssumption == Demo \subseteq Assets /\ MaxAssets \in Nat /\ Together \in Nat

VARIABLES
    request,   \* what the call asks
    seen,      \* which of its containers list_containers answered
    rejected,  \* some asset was unverified or not of the lab
    victim,    \* the snapshot a revocation selected
    snapshots  \* demo_snapshots, by id; a pending one is not committed yet

vars == <<identities, request, seen, rejected, victim, snapshots>>

Lists == UNION {[1..n -> Assets] : n \in 0..MaxAssets}
Requests == [op : {"preview", "publish", "revoke"}, assets : Lists]
NoRequest == [op |-> "none", assets |-> <<>>]

Working == {"next", "lookup", "names", "assign", "insert", "commit", "revoke"}
Ended == {"done", "refused", "exhausted", "failed", "dead"}

Init ==
    /\ live = Assets
    /\ alias = [a \in Assets |-> None]
    /\ pc = [c \in Calls |-> "new"]
    /\ todo = [c \in Calls |-> <<>>]
    /\ left = [c \in Calls |-> {}]
    /\ named = [c \in Calls |-> <<>>]
    /\ request = [c \in Calls |-> NoRequest]
    /\ seen = [c \in Calls |-> {}]
    /\ rejected = [c \in Calls |-> FALSE]
    /\ victim = [c \in Calls |-> 0]
    /\ snapshots = <<>>

-----------------------------------------------------------------------------
(* preview and publish                                                     *)

MayStart(c) ==
    /\ pc[c] = "new"
    /\ Cardinality({d \in Calls : pc[d] \in Working}) < Together

\* For containers the list is read once, here; each host when its turn comes.
Start(c, op, assets) ==
    /\ MayStart(c)
    /\ request' = [request EXCEPT ![c] = [op |-> op, assets |-> assets]]
    /\ todo' = [todo EXCEPT ![c] = assets]
    /\ seen' = IF Perishable THEN seen ELSE [seen EXCEPT ![c] = live \cap Range(assets)]
    /\ Goto(c, "next")
    /\ UNCHANGED <<live, alias, left, named, rejected, victim, snapshots>>

\* The assessment service does not answer list_containers.
ListingFails(c, op, assets) ==
    /\ ~Perishable
    /\ MayStart(c)
    /\ request' = [request EXCEPT ![c] = [op |-> op, assets |-> assets]]
    /\ Goto(c, "failed")
    /\ UNCHANGED <<live, alias, todo, left, named, seen, rejected, victim, snapshots>>

Eligible(c, a) ==
    /\ a \in IF Perishable THEN live ELSE seen[c]
    /\ a \in Demo

Accept(c) ==
    /\ pc[c] = "next" /\ todo[c] # <<>>
    /\ Eligible(c, Subject(c))
    /\ Goto(c, "lookup")
    /\ UNCHANGED <<live, alias, todo, left, named, request, seen, rejected, victim, snapshots>>

\* unverified or not_demo: the rest of the list is still looked at.
Reject(c) ==
    /\ pc[c] = "next" /\ todo[c] # <<>>
    /\ ~Eligible(c, Subject(c))
    /\ rejected' = [rejected EXCEPT ![c] = TRUE]
    /\ todo' = [todo EXCEPT ![c] = Tail(@)]
    /\ UNCHANGED <<live, alias, pc, left, named, request, seen, victim, snapshots>>

Publishable_SkippingRejected(c, clean) == clean

Publishable(c, clean) == clean /\ ~rejected[c]

\* leak_scan and verify_redaction; clean is what they find in the texts.
Scan(c, clean) ==
    /\ pc[c] = "next" /\ todo[c] = <<>>
    /\ Goto(c, IF request[c].op = "preview" THEN "done"
               ELSE IF Publishable(c, clean) THEN "insert" ELSE "refused")
    /\ UNCHANGED <<live, alias, todo, left, named, request, seen, rejected, victim, snapshots>>

\* The second list_containers, of known_real_identifiers, fails.
ScanFails(c) ==
    /\ pc[c] = "next" /\ todo[c] = <<>>
    /\ Goto(c, "failed")
    /\ UNCHANGED <<live, alias, todo, left, named, request, seen, rejected, victim, snapshots>>

\* The id is drawn here, the row is public only at COMMIT.
InsertSnapshot(c) ==
    /\ pc[c] = "insert"
    /\ snapshots' = Append(snapshots, [by |-> c, items |-> named[c], state |-> "pending"])
    /\ Goto(c, "commit")
    /\ UNCHANGED <<live, alias, todo, left, named, request, seen, rejected, victim>>

SetState(chosen, state) ==
    snapshots' = [i \in DOMAIN snapshots |->
                     IF i \in chosen THEN [snapshots[i] EXCEPT !.state = state] ELSE snapshots[i]]

Pending(c) == {i \in DOMAIN snapshots : snapshots[i].by = c /\ snapshots[i].state = "pending"}

CommitSnapshot(c) ==
    /\ pc[c] = "commit"
    /\ SetState(Pending(c), "public")
    /\ Goto(c, "done")
    /\ UNCHANGED <<live, alias, todo, left, named, request, seen, rejected, victim>>

-----------------------------------------------------------------------------
(* revoke and the public view                                              *)

Public == {i \in DOMAIN snapshots : snapshots[i].state = "public"}

\* select_active_demo_snapshot: the id of what the public gets, 0 for nothing.
Active == IF Public = {} THEN 0 ELSE CHOOSE i \in Public : \A j \in Public : j <= i

\* The UPDATE picks its row in a subquery ...
SelectActive(c) ==
    /\ MayStart(c)
    /\ request' = [request EXCEPT ![c] = [op |-> "revoke", assets |-> <<>>]]
    /\ victim' = [victim EXCEPT ![c] = Active]
    /\ Goto(c, IF Active = 0 THEN "done" ELSE "revoke")
    /\ UNCHANGED <<live, alias, todo, left, named, seen, rejected, snapshots>>

\* ... and marks it, waiting for a concurrent revocation of the same row and
\* then marking it once more.
Revoke(c) ==
    /\ pc[c] = "revoke"
    /\ SetState({victim[c]}, "revoked")
    /\ Goto(c, "done")
    /\ UNCHANGED <<live, alias, todo, left, named, request, seen, rejected, victim>>

-----------------------------------------------------------------------------
\* The single server process dies; what was not committed is lost.
Crash ==
    /\ \E c \in Calls : pc[c] \in Working
    /\ pc' = [c \in Calls |-> IF pc[c] \in Working THEN "dead" ELSE pc[c]]
    /\ SetState(UNION {Pending(c) : c \in Calls}, "lost")
    /\ UNCHANGED <<live, alias, todo, left, named, request, seen, rejected, victim>>

requests == <<request, seen, rejected, victim, snapshots>>

Handle(c) ==
    \/ Assign(c) /\ UNCHANGED requests
    \/ Accept(c) \/ Reject(c)
    \/ \E clean \in BOOLEAN : Scan(c, clean)
    \/ ScanFails(c)
    \/ InsertSnapshot(c) \/ CommitSnapshot(c)
    \/ Revoke(c)

Arrive(c) ==
    \/ \E op \in {"preview", "publish"}, assets \in Lists :
          Start(c, op, assets) \/ ListingFails(c, op, assets)
    \/ SelectActive(c)

Next ==
    \/ \E c \in Calls : Arrive(c) \/ Handle(c)
    \/ \E a \in Assets : (Remove(a) \/ Restart(a)) /\ UNCHANGED requests
    \/ Crash

Spec == Init /\ [][Next]_vars

\* A handler that can step does; nothing is owed to arrivals, to the lab or
\* to a crash.
FairSpec == Spec /\ \A c \in Calls : WF_vars(Handle(c))

-----------------------------------------------------------------------------
(* Properties                                                              *)

Item == [asset : Assets, name : Nat]
Items(c) == {named[c][i] : i \in DOMAIN named[c]}

\* Every variable stays in its type, and numbered names stay within the number
\* of assets.
TypeOK ==
    /\ live \subseteq Assets
    /\ alias \in [Assets -> 0..Pool + Cardinality(Assets)]
    /\ pc \in [Calls -> {"new"} \cup Working \cup Ended]
    /\ todo \in [Calls -> Lists]
    /\ left \in [Calls -> SUBSET Nat]
    /\ \A c \in Calls : Items(c) \subseteq Item
    /\ request \in [Calls -> Requests \cup {NoRequest}]
    /\ seen \in [Calls -> SUBSET Assets]
    /\ rejected \in [Calls -> BOOLEAN]
    /\ \A c \in Calls : victim[c] \in {0} \cup DOMAIN snapshots
    /\ \A i \in DOMAIN snapshots :
          snapshots[i].by \in Calls /\ snapshots[i].state \in {"pending", "public", "revoked", "lost"}

\* The alias an asset got in any preview or publication is the one it gets in
\* every other, concurrent or later.
StableAlias ==
    \A c, d \in Calls : \A s \in Items(c), t \in Items(d) :
        s.asset = t.asset => s.name = t.name

\* No alias ever stood for two containers.
DistinctAlias ==
    \A c, d \in Calls : \A s \in Items(c), t \in Items(d) :
        s.name = t.name => s.asset = t.asset

\* A numbered name is given only when every name of the pool is in use,
\* however the assignments interleave.
PoolFirst ==
    [][\A a \in Assets :
          alias'[a] > Pool /\ alias'[a] # alias[a] => 1..Pool \subseteq Used]_vars

\* A snapshot holds all of what its request listed, in that order, and only
\* assets of the lab.
PublishedAsAsked ==
    \A s \in {snapshots[i] : i \in DOMAIN snapshots} :
        /\ [i \in DOMAIN s.items |-> s.items[i].asset] = request[s.by].assets
        /\ \A i \in DOMAIN s.items : s.items[i].asset \in Demo

\* Every call comes to an end.
EveryCallEnds ==
    \A c \in Calls : pc[c] \in Working ~> pc[c] \in Ended

\* An alias can always be assigned, thanks to the numbered fallback.
FallbackSuffices == \A c \in Calls : pc[c] # "exhausted"

\* After a revocation the public sees nothing.
RevokeClearsTheDemo ==
    [][\A c \in Calls : pc[c] = "revoke" /\ pc'[c] = "done" => Active' = 0]_vars
=============================================================================
