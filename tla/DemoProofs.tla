----------------------------- MODULE DemoProofs -----------------------------
(***************************************************************************)
(* Theorems about module DemoPublication, for any calls, assets, pool and  *)
(* lists: an asset never has two aliases, and, unless assets perish, an    *)
(* alias never has two assets; the pool is used up before names are        *)
(* numbered; and a snapshot shows what its request listed.                 *)
(***************************************************************************)
EXTENDS DemoPublication, Counting, FiniteSetTheorems, SequenceTheorems

NamedItem == [asset : Assets, name : Nat \ {None}]

\* What the handlers rely on: the shape of their worklists.
Shape ==
    /\ live \subseteq Assets
    /\ alias \in [Assets -> Nat]
    /\ pc \in [Calls -> {"new"} \cup Working \cup Ended]
    /\ todo \in [Calls -> Seq(Assets)]
    /\ left \in [Calls -> SUBSET (Nat \ {None})]
    /\ named \in [Calls -> Seq(NamedItem)]

\* A call in the middle of an asset has one, and a candidate left to try.
Occupied ==
    \A c \in Calls :
        /\ pc[c] \in {"lookup", "names", "assign"} => todo[c] # <<>>
        /\ pc[c] = "assign" => left[c] # {}

\* The alias table is one to one.
OneToOne ==
    \A a, b \in Assets : alias[a] # None /\ alias[a] = alias[b] => a = b

\* The foreign key of the hosts.
OwnersLive ==
    Perishable => \A a \in Assets : alias[a] # None => a \in live

\* What a call was told is still in the table, unless the asset is gone for good.
Held ==
    \A c \in Calls : \A s \in Items(c) :
        (Perishable => s.asset \in live) => alias[s.asset] = s.name

Inv == Shape /\ Occupied /\ OneToOne /\ OwnersLive /\ Held /\ StableAlias

-----------------------------------------------------------------------------
(* Operators of the model                                                  *)

\* The names in use are finitely many, so there is a next number.
LEMMA UsedFinite ==
    ASSUME Shape
    PROVE  Cardinality(Used) \in Nat
<1> DEFINE Names == {alias[a] : a \in Assets}
<1>1. IsFiniteSet(Assets)
    BY PoolAssumption DEF PoolAssumption
<1>2. alias \in Surjection(Assets, Names)
    BY DEF Shape, Surjection
<1>3. IsFiniteSet(Names)
    BY <1>1, <1>2, FS_Surjection DEF ExistsSurjection
<1>4. Used \subseteq Names
    BY DEF Used
<1> QED
    BY <1>3, <1>4, FS_Subset, FS_CardinalityType

\* There is always a candidate, and candidates are names.
LEMMA CandidatesType ==
    ASSUME Shape
    PROVE  Candidates(Used) \subseteq Nat \ {None} /\ Candidates(Used) # {}
BY UsedFinite, PoolAssumption DEF Candidates, PoolAssumption, None

LEMMA CandidateLeft ==
    ASSUME Shape, NEW c \in Calls, left[c] # {}
    PROVE  Candidate(c) \in left[c] /\ \A m \in left[c] : Candidate(c) <= m
<1>1. left[c] \in SUBSET Nat
    BY DEF Shape
<1>2. \E n \in left[c] : \A m \in left[c] : n <= m
    BY <1>1, LeastExists
<1> QED
    BY <1>2 DEF Candidate

LEMMA SubjectType ==
    ASSUME Shape, NEW c \in Calls, todo[c] # <<>>
    PROVE  Subject(c) \in Assets /\ Tail(todo[c]) \in Seq(Assets)
<1>1. todo[c] \in Seq(Assets)
    BY DEF Shape
<1> QED
    BY <1>1, HeadTailProperties DEF Subject

\* Appending an item to what a call named adds just that item.
LEMMA ItemsAppended ==
    ASSUME NEW S, NEW s \in Seq(S), NEW e \in S
    PROVE  {Append(s, e)[i] : i \in DOMAIN Append(s, e)} = {s[i] : i \in DOMAIN s} \cup {e}
<1> DEFINE t == Append(s, e)
<1>1. /\ t \in Seq(S) /\ Len(t) = Len(s) + 1 /\ Len(s) \in Nat
      /\ \A i \in 1..Len(s) : t[i] = s[i]
      /\ t[Len(s) + 1] = e
    BY AppendProperties
<1>2. DOMAIN s = 1..Len(s) /\ DOMAIN t = 1..Len(t)
    BY <1>1
<1> HIDE DEF t
<1>3. DOMAIN t = 1..Len(s) \cup {Len(s) + 1}
    BY <1>1, <1>2
<1>4. {t[i] : i \in DOMAIN t} = {s[i] : i \in 1..Len(s)} \cup {e}
    BY <1>1, <1>3
<1> QED
    BY <1>2, <1>4 DEF t

-----------------------------------------------------------------------------
(* The invariant                                                           *)

LEMMA InitInv == Init => Inv
<1> SUFFICES ASSUME Init PROVE Inv
    OBVIOUS
<1>1. Shape
    BY DEF Init, Shape, None
<1>2. Occupied
    BY DEF Init, Occupied
<1>3. OneToOne /\ OwnersLive
    BY DEF Init, OneToOne, OwnersLive
<1>4. \A c \in Calls : Items(c) = {}
    BY DEF Init, Items
<1> QED
    BY <1>1, <1>2, <1>3, <1>4 DEF Inv, Held, StableAlias

\* Steps that name nothing and leave the lab and the table alone.
LEMMA NothingNamed ==
    ASSUME OneToOne, OwnersLive, Held, StableAlias, UNCHANGED <<live, alias, named>>
    PROVE  OneToOne' /\ OwnersLive' /\ Held' /\ StableAlias'
<1>1. \A c \in Calls : Items(c)' = Items(c)
    BY DEF Items
<1>2. Held' /\ StableAlias'
    BY <1>1 DEF Held, StableAlias
<1> QED
    BY <1>2 DEF OneToOne, OwnersLive

\* A call that is granted a name goes on with the next asset, and its new item
\* is the only one.
LEMMA GrantStep ==
    ASSUME Shape, Occupied, NEW c \in Calls, todo[c] # <<>>,
           NEW n \in Nat \ {None}, Grant(c, n)
    PROVE  /\ pc' \in [Calls -> {"new"} \cup Working \cup Ended]
           /\ todo' \in [Calls -> Seq(Assets)]
           /\ named' \in [Calls -> Seq(NamedItem)]
           /\ pc' = [pc EXCEPT ![c] = "next"]
           /\ \A d \in Calls : d # c => todo'[d] = todo[d]
           /\ \A d \in Calls : d # c => Items(d)' = Items(d)
           /\ Items(c)' = Items(c) \cup {[asset |-> Subject(c), name |-> n]}
<1> DEFINE e == [asset |-> Subject(c), name |-> n]
<1>1. Subject(c) \in Assets /\ Tail(todo[c]) \in Seq(Assets)
    BY SubjectType
<1>2. e \in NamedItem
    BY <1>1 DEF NamedItem
<1>3. named[c] \in Seq(NamedItem)
    BY DEF Shape
<1>4. Append(named[c], e) \in Seq(NamedItem)
    BY <1>2, <1>3, AppendProperties
<1>5. named' = [named EXCEPT ![c] = Append(named[c], e)]
    BY DEF Grant
<1> HIDE DEF e
<1>6. named'[c] = Append(named[c], e) /\ \A d \in Calls : d # c => named'[d] = named[d]
    BY <1>5 DEF Shape
<1>7. Items(c)' = Items(c) \cup {e}
    BY <1>2, <1>3, <1>6, ItemsAppended DEF Items
<1>8. \A d \in Calls : d # c => Items(d)' = Items(d)
    BY <1>6 DEF Items
<1>9. /\ pc' = [pc EXCEPT ![c] = "next"]
      /\ todo' = [todo EXCEPT ![c] = Tail(todo[c])]
    BY DEF Grant, Goto
<1>10. pc' \in [Calls -> {"new"} \cup Working \cup Ended]
    BY <1>9 DEF Shape, Working
<1>11. todo' \in [Calls -> Seq(Assets)]
    BY <1>1, <1>9 DEF Shape
<1>12. named' \in [Calls -> Seq(NamedItem)]
    BY <1>4, <1>5 DEF Shape
<1>13. \A d \in Calls : d # c => todo'[d] = todo[d]
    BY <1>9 DEF Shape
<1> QED
    BY <1>7, <1>8, <1>9, <1>10, <1>11, <1>12, <1>13 DEF e

\* An alias that is in the table is told once more.
LEMMA FoundInv ==
    ASSUME Inv, NEW c \in Calls, AliasFound(c)
    PROVE  Inv'
<1> DEFINE a == Subject(c)
           n == alias[Subject(c)]
<1>1. todo[c] # <<>> /\ a \in Assets
    BY SubjectType DEF Inv, Occupied, AliasFound
<1>2. n \in Nat \ {None}
    BY <1>1 DEF Inv, Shape, AliasFound
<1>3. Grant(c, n) /\ UNCHANGED <<live, alias, left>>
    BY DEF AliasFound
<1>4. Shape /\ Occupied
    BY DEF Inv
<1>0. n = alias[a]
    OBVIOUS
<1> HIDE DEF a, n
<1>5. /\ pc' \in [Calls -> {"new"} \cup Working \cup Ended]
      /\ todo' \in [Calls -> Seq(Assets)]
      /\ named' \in [Calls -> Seq(NamedItem)]
      /\ pc' = [pc EXCEPT ![c] = "next"]
      /\ \A d \in Calls : d # c => todo'[d] = todo[d]
      /\ \A d \in Calls : d # c => Items(d)' = Items(d)
      /\ Items(c)' = Items(c) \cup {[asset |-> a, name |-> n]}
    BY <1>1, <1>2, <1>3, <1>4, GrantStep DEF a
<1>6. Shape'
    BY <1>3, <1>4, <1>5 DEF Shape
<1>7. Occupied'
    BY <1>3, <1>4, <1>5 DEF Shape, Occupied
<1>8. OneToOne' /\ OwnersLive'
    BY <1>3 DEF Inv, OneToOne, OwnersLive
<1>9. Perishable => a \in live
    BY <1>0, <1>1, <1>2 DEF Inv, OwnersLive
<1> DEFINE e == [asset |-> a, name |-> n]
<1>10. Held'
    <2> SUFFICES ASSUME NEW d \in Calls, NEW s \in Items(d)', Perishable => s.asset \in live'
                 PROVE  alias'[s.asset] = s.name
        BY DEF Held
    <2>1. s \in Items(d) \/ s = e
        BY <1>5
    <2>2. CASE s \in Items(d)
        BY <1>3, <2>2 DEF Inv, Held
    <2>3. CASE s = e
        BY <1>0, <1>3, <2>3
    <2> QED
        BY <2>1, <2>2, <2>3
<1>11. \A d \in Calls : \A t \in Items(d) : t.asset = a => t.name = n
    BY <1>0, <1>9 DEF Inv, Held
<1>12. StableAlias'
    <2> SUFFICES ASSUME NEW d \in Calls, NEW f \in Calls, NEW s \in Items(d)', NEW t \in Items(f)',
                        s.asset = t.asset
                 PROVE  s.name = t.name
        BY DEF StableAlias
    <2>1. (s \in Items(d) \/ s = e) /\ (t \in Items(f) \/ t = e)
        BY <1>5
    <2>2. e.asset = a /\ e.name = n
        OBVIOUS
    <2> HIDE DEF e
    <2>3. CASE s \in Items(d) /\ t \in Items(f)
        BY <2>3 DEF Inv, StableAlias
    <2> QED
        BY <1>11, <2>1, <2>2, <2>3
<1> QED
    BY <1>6, <1>7, <1>8, <1>10, <1>12 DEF Inv

\* A new alias is a name nobody has, for an asset that never had one.
LEMMA InsertInv ==
    ASSUME Inv, NEW c \in Calls, InsertAlias(c)
    PROVE  Inv'
<1> DEFINE a == Subject(c)
           n == Candidate(c)
<1>1. todo[c] # <<>> /\ a \in Assets
    BY SubjectType DEF Inv, Occupied, InsertAlias
<1>2. n \in Nat \ {None}
    BY CandidateLeft DEF Inv, Shape, Occupied, InsertAlias
<1>3. /\ Grant(c, n) /\ UNCHANGED live
      /\ alias' = [alias EXCEPT ![a] = n]
      /\ left' = [left EXCEPT ![c] = {}]
      /\ Perishable => a \in live
    BY DEF InsertAlias
<1>4. alias[a] = None /\ \A b \in Assets : alias[b] # n
    BY <1>2 DEF InsertAlias, Taken, Used
<1>5. Shape /\ Occupied
    BY DEF Inv
<1> HIDE DEF a, n
<1>6. /\ pc' \in [Calls -> {"new"} \cup Working \cup Ended]
      /\ todo' \in [Calls -> Seq(Assets)]
      /\ named' \in [Calls -> Seq(NamedItem)]
      /\ pc' = [pc EXCEPT ![c] = "next"]
      /\ \A d \in Calls : d # c => todo'[d] = todo[d]
      /\ \A d \in Calls : d # c => Items(d)' = Items(d)
      /\ Items(c)' = Items(c) \cup {[asset |-> a, name |-> n]}
    BY <1>1, <1>2, <1>3, <1>5, GrantStep DEF a
<1>7. Shape'
    BY <1>1, <1>2, <1>3, <1>5, <1>6 DEF Shape
<1>8. Occupied'
    BY <1>3, <1>5, <1>6 DEF Shape, Occupied
<1>9. alias'[a] = n /\ \A b \in Assets : b # a => alias'[b] = alias[b]
    BY <1>1, <1>3, <1>5 DEF Shape
<1>10. OneToOne'
    BY <1>4, <1>9 DEF Inv, OneToOne
<1>11. OwnersLive'
    BY <1>3, <1>9 DEF Inv, OwnersLive
<1>12. \A d \in Calls : Items(d) \subseteq NamedItem
    BY <1>5 DEF Shape, Items
<1>13. \A d \in Calls : \A t \in Items(d) : t.asset # a
    BY <1>3, <1>4, <1>12 DEF Inv, Held, NamedItem
<1> DEFINE e == [asset |-> a, name |-> n]
<1>14. Held'
    <2> SUFFICES ASSUME NEW d \in Calls, NEW s \in Items(d)', Perishable => s.asset \in live'
                 PROVE  alias'[s.asset] = s.name
        BY DEF Held
    <2>1. s \in Items(d) \/ s = e
        BY <1>6
    <2>2. CASE s \in Items(d)
        <3>1. s.asset \in Assets /\ s.asset # a
            BY <1>12, <1>13, <2>2 DEF NamedItem
        <3> QED
            BY <1>3, <1>9, <2>2, <3>1 DEF Inv, Held
    <2>3. CASE s = e
        BY <1>9, <2>3
    <2> QED
        BY <2>1, <2>2, <2>3
<1>15. StableAlias'
    <2> SUFFICES ASSUME NEW d \in Calls, NEW f \in Calls, NEW s \in Items(d)', NEW t \in Items(f)',
                        s.asset = t.asset
                 PROVE  s.name = t.name
        BY DEF StableAlias
    <2>1. (s \in Items(d) \/ s = e) /\ (t \in Items(f) \/ t = e)
        BY <1>6
    <2>2. e.asset = a
        OBVIOUS
    <2> HIDE DEF e
    <2>3. CASE s \in Items(d) /\ t \in Items(f)
        BY <2>3 DEF Inv, StableAlias
    <2> QED
        BY <1>13, <2>1, <2>2, <2>3
<1> QED
    BY <1>7, <1>8, <1>10, <1>11, <1>14, <1>15 DEF Inv

LEMMA AssignInv ==
    ASSUME Inv, NEW c \in Calls, Assign(c)
    PROVE  Inv'
<1>0. Shape /\ Occupied /\ OneToOne /\ OwnersLive /\ Held /\ StableAlias
    BY DEF Inv
<1>1. CASE AliasFound(c)
    BY <1>1, FoundInv
<1>2. CASE AliasMissing(c)
    <2>1. Shape' /\ Occupied'
        BY <1>0, <1>2 DEF AliasMissing, Goto, Shape, Occupied, Working
    <2> QED
        BY <1>0, <1>2, <2>1, NothingNamed DEF AliasMissing, Inv
<1>3. CASE ListNames(c)
    <2>1. Candidates(Used) \subseteq Nat \ {None} /\ Candidates(Used) # {}
        BY <1>0, CandidatesType
    <2>2. /\ left' = [left EXCEPT ![c] = Candidates(Used)]
          /\ pc[c] = "names"
          /\ pc' = [pc EXCEPT ![c] = "assign"]
          /\ UNCHANGED <<live, alias, todo, named>>
        BY <1>3 DEF ListNames, Goto
    <2>3. Shape'
        BY <1>0, <2>1, <2>2 DEF Shape, Working
    <2>4. Occupied'
        BY <1>0, <2>1, <2>2 DEF Shape, Occupied
    <2> QED
        BY <1>0, <2>2, <2>3, <2>4, NothingNamed DEF Inv
<1>4. CASE InsertAlias(c)
    BY <1>4, InsertInv
<1>5. CASE CandidateTaken(c)
    <2>1. left[c] # {}
        BY <1>0, <1>5 DEF Occupied, CandidateTaken
    <2>2. Shape'
        BY <1>0, <1>5 DEF CandidateTaken, Goto, Shape, Working, Ended
    <2>3. Occupied'
        BY <1>0, <1>5, <2>1 DEF CandidateTaken, Goto, Shape, Occupied
    <2> QED
        BY <1>0, <1>5, <2>2, <2>3, NothingNamed DEF CandidateTaken, Inv
<1>6. CASE OwnerGone(c)
    <2>1. Shape' /\ Occupied'
        BY <1>0, <1>6 DEF OwnerGone, Goto, Shape, Occupied, Ended
    <2> QED
        BY <1>0, <1>6, <2>1, NothingNamed DEF OwnerGone, Inv
<1> QED
    BY <1>1, <1>2, <1>3, <1>4, <1>5, <1>6 DEF Assign

\* The asset goes; a host takes its alias along and never returns.
LEMMA RemoveInv ==
    ASSUME Inv, NEW a \in Assets, Remove(a)
    PROVE  Inv'
<1>1. /\ live' = live \ {a} /\ a \in live
      /\ UNCHANGED <<pc, todo, left, named>>
      /\ Perishable => alias' = [alias EXCEPT ![a] = None]
      /\ ~Perishable => alias' = alias
    BY DEF Remove
<1>2. Shape /\ Occupied
    BY DEF Inv
<1>3. Shape' /\ Occupied'
    BY <1>1, <1>2, PoolAssumption DEF Shape, Occupied, None, PoolAssumption
<1>4. \A c \in Calls : Items(c)' = Items(c)
    BY <1>1 DEF Items
<1>5. StableAlias'
    BY <1>4 DEF Inv, StableAlias
<1>6. \A b \in Assets : b # a => alias'[b] = alias[b]
    BY <1>1, <1>2, PoolAssumption DEF Shape, PoolAssumption
<1>7. \A c \in Calls : Items(c) \subseteq NamedItem
    BY <1>2 DEF Shape, Items
<1>8. CASE Perishable
    <2>1. alias'[a] = None
        BY <1>1, <1>2, <1>8 DEF Shape
    <2>2. OneToOne' /\ OwnersLive'
        BY <1>1, <1>6, <1>8, <2>1 DEF Inv, OneToOne, OwnersLive
    <2>3. Held'
        <3> SUFFICES ASSUME NEW d \in Calls, NEW s \in Items(d)', Perishable => s.asset \in live'
                     PROVE  alias'[s.asset] = s.name
            BY DEF Held
        <3>1. s \in Items(d) /\ s.asset \in Assets /\ s.asset # a /\ s.asset \in live
            BY <1>1, <1>4, <1>7, <1>8 DEF NamedItem
        <3> QED
            BY <1>6, <3>1 DEF Inv, Held
    <2> QED
        BY <1>3, <1>5, <2>2, <2>3 DEF Inv
<1>9. CASE ~Perishable
    <2>1. OneToOne' /\ OwnersLive'
        BY <1>1, <1>9 DEF Inv, OneToOne, OwnersLive
    <2>2. Held'
        BY <1>1, <1>4, <1>9 DEF Inv, Held
    <2> QED
        BY <1>3, <1>5, <2>1, <2>2 DEF Inv
<1> QED
    BY <1>8, <1>9

LEMMA RestartInv ==
    ASSUME Inv, NEW a \in Assets, Restart(a)
    PROVE  Inv'
<1>1. ~Perishable /\ live' = live \cup {a} /\ UNCHANGED <<alias, pc, todo, left, named>>
    BY DEF Restart
<1>2. Shape' /\ Occupied'
    BY <1>1 DEF Inv, Shape, Occupied
<1>3. \A c \in Calls : Items(c)' = Items(c)
    BY <1>1 DEF Items
<1>4. OneToOne' /\ OwnersLive' /\ StableAlias'
    BY <1>1, <1>3 DEF Inv, OneToOne, OwnersLive, StableAlias
<1>5. Held'
    BY <1>1, <1>3 DEF Inv, Held
<1> QED
    BY <1>2, <1>4, <1>5 DEF Inv

\* Everything else a handler does leaves names alone.
LEMMA HandleInv ==
    ASSUME Inv, NEW c \in Calls, Handle(c)
    PROVE  Inv'
<1>0. Shape /\ Occupied /\ OneToOne /\ OwnersLive /\ Held /\ StableAlias
    BY DEF Inv
<1>1. CASE Assign(c)
    BY <1>1, AssignInv
<1>2. CASE Accept(c)
    <2>1. Shape' /\ Occupied'
        BY <1>0, <1>2 DEF Accept, Goto, Shape, Occupied, Working
    <2> QED
        BY <1>0, <1>2, <2>1, NothingNamed DEF Accept, Inv
<1>3. CASE Reject(c)
    <2>1. Tail(todo[c]) \in Seq(Assets)
        BY <1>0, <1>3, SubjectType DEF Reject
    <2>2. Shape' /\ Occupied'
        BY <1>0, <1>3, <2>1 DEF Reject, Shape, Occupied
    <2> QED
        BY <1>0, <1>3, <2>2, NothingNamed DEF Reject, Inv
<1>4. ASSUME NEW clean \in BOOLEAN, Scan(c, clean)
      PROVE  Inv'
    <2>1. Shape' /\ Occupied'
        BY <1>0, <1>4 DEF Scan, Goto, Shape, Occupied, Working, Ended
    <2> QED
        BY <1>0, <1>4, <2>1, NothingNamed DEF Scan, Inv
<1>5. CASE ScanFails(c)
    <2>1. Shape' /\ Occupied'
        BY <1>0, <1>5 DEF ScanFails, Goto, Shape, Occupied, Ended
    <2> QED
        BY <1>0, <1>5, <2>1, NothingNamed DEF ScanFails, Inv
<1>6. CASE InsertSnapshot(c)
    <2>1. Shape' /\ Occupied'
        BY <1>0, <1>6 DEF InsertSnapshot, Goto, Shape, Occupied, Working
    <2> QED
        BY <1>0, <1>6, <2>1, NothingNamed DEF InsertSnapshot, Inv
<1>7. CASE CommitSnapshot(c)
    <2>1. Shape' /\ Occupied'
        BY <1>0, <1>7 DEF CommitSnapshot, Goto, Shape, Occupied, Ended
    <2> QED
        BY <1>0, <1>7, <2>1, NothingNamed DEF CommitSnapshot, Inv
<1>8. CASE Revoke(c)
    <2>1. Shape' /\ Occupied'
        BY <1>0, <1>8 DEF Revoke, Goto, Shape, Occupied, Ended
    <2> QED
        BY <1>0, <1>8, <2>1, NothingNamed DEF Revoke, Inv
<1> QED
    BY <1>1, <1>2, <1>3, <1>4, <1>5, <1>6, <1>7, <1>8 DEF Handle

LEMMA ArriveInv ==
    ASSUME Inv, NEW c \in Calls, Arrive(c)
    PROVE  Inv'
<1>0. Shape /\ Occupied /\ OneToOne /\ OwnersLive /\ Held /\ StableAlias
    BY DEF Inv
<1>1. ASSUME NEW op \in {"preview", "publish"}, NEW assets \in Lists, Start(c, op, assets)
      PROVE  Inv'
    <2>1. assets \in Seq(Assets)
        BY DemoAssumption DEF Lists, DemoAssumption
    <2>2. Shape' /\ Occupied'
        BY <1>0, <1>1, <2>1 DEF Start, MayStart, Goto, Shape, Occupied, Working
    <2> QED
        BY <1>0, <1>1, <2>2, NothingNamed DEF Start, Inv
<1>2. ASSUME NEW op \in {"preview", "publish"}, NEW assets \in Lists, ListingFails(c, op, assets)
      PROVE  Inv'
    <2>1. Shape' /\ Occupied'
        BY <1>0, <1>2 DEF ListingFails, Goto, Shape, Occupied, Ended
    <2> QED
        BY <1>0, <1>2, <2>1, NothingNamed DEF ListingFails, Inv
<1>3. CASE SelectActive(c)
    <2>1. Shape' /\ Occupied'
        BY <1>0, <1>3 DEF SelectActive, Goto, Shape, Occupied, Working, Ended
    <2> QED
        BY <1>0, <1>3, <2>1, NothingNamed DEF SelectActive, Inv
<1> QED
    BY <1>1, <1>2, <1>3 DEF Arrive

LEMMA NextInv == Inv /\ [Next]_vars => Inv'
<1> SUFFICES ASSUME Inv, [Next]_vars PROVE Inv'
    OBVIOUS
<1>0. Shape /\ Occupied /\ OneToOne /\ OwnersLive /\ Held /\ StableAlias
    BY DEF Inv
<1>1. ASSUME NEW c \in Calls, Arrive(c) \/ Handle(c) PROVE Inv'
    BY <1>1, ArriveInv, HandleInv
<1>2. ASSUME NEW a \in Assets, Remove(a) \/ Restart(a) PROVE Inv'
    BY <1>2, RemoveInv, RestartInv
<1>3. CASE Crash
    <2>1. Shape' /\ Occupied'
        BY <1>0, <1>3 DEF Crash, Shape, Occupied, Working, Ended
    <2> QED
        BY <1>0, <1>3, <2>1, NothingNamed DEF Crash, Inv
<1>4. CASE UNCHANGED vars
    <2>1. Shape' /\ Occupied'
        BY <1>0, <1>4 DEF vars, identities, Shape, Occupied
    <2> QED
        BY <1>0, <1>4, <2>1, NothingNamed DEF vars, identities, Inv
<1> QED
    BY <1>1, <1>2, <1>3, <1>4 DEF Next

-----------------------------------------------------------------------------
(* Theorems                                                                *)

\* However previews and publications race, fail and crash, every one of them
\* shows an asset under the same alias: get_or_assign_alias and its sibling
\* for hosts never assign twice.
THEOREM AliasIsStable == Spec => []StableAlias
<1>1. Inv => StableAlias
    BY DEF Inv
<1> QED
    BY InitInv, NextInv, <1>1, PTL DEF Spec

\* Two containers are never shown under one alias, in any two publications.
THEOREM AliasIsDistinct == ~Perishable => (Spec => []DistinctAlias)
<1> SUFFICES ASSUME ~Perishable
             PROVE  Spec => []DistinctAlias
    OBVIOUS
<1>1. Inv => DistinctAlias
    <2> SUFFICES ASSUME Inv, NEW c \in Calls, NEW d \in Calls,
                        NEW s \in Items(c), NEW t \in Items(d), s.name = t.name
                 PROVE  s.asset = t.asset
        BY DEF DistinctAlias
    <2>1. s \in NamedItem /\ t \in NamedItem
        BY DEF Inv, Shape, Items
    <2>2. alias[s.asset] = s.name /\ alias[t.asset] = t.name
        BY DEF Inv, Held
    <2> QED
        BY <2>1, <2>2 DEF Inv, OneToOne, NamedItem
<1> QED
    BY InitInv, NextInv, <1>1, PTL DEF Spec
-----------------------------------------------------------------------------
(* The publications: what their calls carry, and what they put together    *)

Snapshot == [by : Calls, items : Seq(NamedItem), state : {"pending", "public", "revoked", "lost"}]

Typed ==
    /\ todo \in [Calls -> Lists]
    /\ request \in [Calls -> Requests \cup {NoRequest}]
    /\ seen \in [Calls -> SUBSET Assets]
    /\ rejected \in [Calls -> BOOLEAN]
    /\ snapshots \in Seq(Snapshot)
    /\ victim \in [Calls -> 0..Len(snapshots)]

\* What a call has named is the beginning of its request, and its worklist the rest.
InTurn(c) ==
    /\ Len(request[c].assets) = Len(named[c]) + Len(todo[c])
    /\ \A i \in 1..Len(named[c]) : named[c][i].asset = request[c].assets[i]
    /\ \A i \in 1..Len(todo[c]) : todo[c][i] = request[c].assets[Len(named[c]) + i]

\* A call that has rejected nothing goes through its request in order, names
\* assets of the lab only, and has come to the end of it when it publishes.
Follows(c) ==
    /\ pc[c] = "new" => ~rejected[c] /\ named[c] = <<>>
    /\ pc[c] \in Working \ {"revoke"} => rejected[c] \/ InTurn(c)
    /\ pc[c] \in {"lookup", "names", "assign"} => Subject(c) \in Demo
    /\ pc[c] \in {"insert", "commit"} => ~rejected[c] /\ todo[c] = <<>>
    /\ \A s \in Items(c) : s.asset \in Demo

\* The request of a snapshot does not change any more.
AuthorsStarted == \A i \in DOMAIN snapshots : pc[snapshots[i].by] # "new"

Publications ==
    Typed /\ (\A c \in Calls : Follows(c)) /\ AuthorsStarted /\ PublishedAsAsked

LEMMA ListsAre ==
    \A s : s \in Lists <=> s \in Seq(Assets) /\ Len(s) <= MaxAssets
<1>1. ASSUME NEW s \in Lists PROVE s \in Seq(Assets) /\ Len(s) <= MaxAssets
    <2>1. PICK n \in 0..MaxAssets : s \in [1..n -> Assets]
        BY DEF Lists
    <2>2. n \in Nat
        BY DemoAssumption DEF DemoAssumption
    <2>3. s \in Seq(Assets) /\ Len(s) = n
        BY <2>1, <2>2
    <2> QED
        BY <2>1, <2>3
<1>2. ASSUME NEW s \in Seq(Assets), Len(s) <= MaxAssets PROVE s \in Lists
    <2>1. Len(s) \in 0..MaxAssets /\ s \in [1..Len(s) -> Assets]
        BY <1>2, DemoAssumption DEF DemoAssumption
    <2> QED
        BY <2>1 DEF Lists
<1> QED
    BY <1>1, <1>2

LEMMA EmptyList == <<>> \in Lists
<1>1. <<>> \in Seq(Assets) /\ Len(<<>>) = 0
    OBVIOUS
<1>2. 0 <= MaxAssets
    BY DemoAssumption DEF DemoAssumption
<1>3. \A s : s \in Seq(Assets) /\ Len(s) = 0 => s \in Lists
    BY <1>2, ListsAre
<1> QED
    BY <1>1, <1>3

\* Taking the next asset off a worklist.
LEMMA NextOfList ==
    ASSUME NEW s \in Lists, s # <<>>
    PROVE  /\ Tail(s) \in Lists /\ Len(Tail(s)) = Len(s) - 1 /\ Len(s) \in Nat \ {0}
           /\ Head(s) = s[1]
           /\ \A i \in 1..Len(Tail(s)) : Tail(s)[i] = s[i + 1]
<1>1. s \in Seq(Assets) /\ Len(s) <= MaxAssets /\ MaxAssets \in Nat
    BY ListsAre, DemoAssumption DEF DemoAssumption
<1>2. /\ Tail(s) \in Seq(Assets) /\ Len(Tail(s)) = Len(s) - 1 /\ Len(s) \in Nat \ {0}
      /\ Head(s) = s[1]
      /\ \A i \in 1..Len(Tail(s)) : Tail(s)[i] = s[i + 1]
    BY <1>1, HeadTailProperties
<1>3. Len(Tail(s)) <= MaxAssets
    BY <1>1, <1>2
<1> QED
    BY <1>2, <1>3, ListsAre

\* Marking snapshots changes nothing else of them.
LEMMA StatesChange ==
    ASSUME snapshots \in Seq(Snapshot),
           NEW chosen, NEW state \in {"public", "revoked", "lost"}, SetState(chosen, state)
    PROVE  /\ snapshots' \in Seq(Snapshot) /\ Len(snapshots') = Len(snapshots)
           /\ DOMAIN snapshots' = DOMAIN snapshots
           /\ \A i \in DOMAIN snapshots :
                 snapshots'[i].by = snapshots[i].by /\ snapshots'[i].items = snapshots[i].items
<1>1. DOMAIN snapshots = 1..Len(snapshots) /\ Len(snapshots) \in Nat
    OBVIOUS
<1>2. snapshots' = [i \in 1..Len(snapshots) |->
                       IF i \in chosen THEN [snapshots[i] EXCEPT !.state = state] ELSE snapshots[i]]
    BY <1>1 DEF SetState
<1>3. ASSUME NEW i \in 1..Len(snapshots)
      PROVE  /\ snapshots'[i] \in Snapshot
             /\ snapshots'[i].by = snapshots[i].by /\ snapshots'[i].items = snapshots[i].items
    <2>1. snapshots[i] \in Snapshot
        BY <1>1
    <2>2. [snapshots[i] EXCEPT !.state = state] \in Snapshot
        BY <2>1 DEF Snapshot
    <2>3. /\ [snapshots[i] EXCEPT !.state = state].by = snapshots[i].by
          /\ [snapshots[i] EXCEPT !.state = state].items = snapshots[i].items
        BY <2>1 DEF Snapshot
    <2> QED
        BY <1>2, <2>1, <2>2, <2>3
<1>4. snapshots' \in [1..Len(snapshots) -> Snapshot]
    BY <1>2, <1>3
<1> QED
    BY <1>1, <1>3, <1>4

LEMMA ActiveType ==
    ASSUME snapshots \in Seq(Snapshot)
    PROVE  Active \in 0..Len(snapshots)
<1> DEFINE n == Len(snapshots)
           Ages == {n - i : i \in Public}
<1>1. Public \subseteq 1..n /\ n \in Nat
    BY DEF Public
<1>2. CASE Public = {}
    BY <1>1, <1>2 DEF Active
<1>3. CASE Public # {}
    <2> HIDE DEF n
    <2>0. \A j \in Public : j \in Nat /\ n \in Nat /\ n - j \in Nat
        BY <1>1
    <2>1. Ages \in SUBSET Nat /\ Ages # {}
        BY <1>3, <2>0
    <2>2. PICK h \in Ages : \A g \in Ages : h <= g
        <3> HIDE DEF Ages
        <3> QED BY <2>1, LeastExists
    <2>3. PICK i \in Public : h = n - i
        BY <2>2
    <2>4. ASSUME NEW j \in Public PROVE j <= i
        <3>1. n - j \in Ages
            OBVIOUS
        <3>2. n - i <= n - j
            BY <2>2, <2>3, <3>1
        <3> QED
            BY <2>0, <2>3, <3>2
    <2>5. Active \in Public
        BY <1>3, <2>3, <2>4 DEF Active
    <2> QED
        BY <1>1, <2>5 DEF n
<1> QED
    BY <1>2, <1>3

LEMMA InitPublications == Init => Publications
<1> SUFFICES ASSUME Init PROVE Publications
    OBVIOUS
<1>1. snapshots = <<>> /\ Len(snapshots) = 0 /\ DOMAIN snapshots = {}
    BY DEF Init
<1>2. Typed
    BY <1>1, EmptyList DEF Init, Typed
<1>3. \A c \in Calls : Items(c) = {}
    BY DEF Init, Items
<1>4. \A c \in Calls : Follows(c)
    BY <1>3 DEF Init, Follows, Working
<1>5. AuthorsStarted /\ PublishedAsAsked
    BY <1>1 DEF AuthorsStarted, PublishedAsAsked
<1> QED
    BY <1>2, <1>4, <1>5 DEF Publications

\* What a grant does to the lists of its call.
LEMMA GrantedLists ==
    ASSUME Inv, Typed, NEW c \in Calls, todo[c] # <<>>, NEW n \in Nat \ {None}, Grant(c, n)
    PROVE  /\ todo' = [todo EXCEPT ![c] = Tail(todo[c])] /\ Tail(todo[c]) \in Lists
           /\ Len(named[c]) \in Nat /\ Len(named'[c]) = Len(named[c]) + 1
           /\ \A i \in 1..Len(named[c]) : named'[c][i] = named[c][i]
           /\ named'[c][Len(named[c]) + 1].asset = Subject(c)
           /\ Items(c)' = Items(c) \cup {[asset |-> Subject(c), name |-> n]}
           /\ pc' = [pc EXCEPT ![c] = "next"]
           /\ \A d \in Calls : d # c => named'[d] = named[d]
<1> DEFINE e == [asset |-> Subject(c), name |-> n]
<1>1. named[c] \in Seq(NamedItem) /\ named \in [Calls -> Seq(NamedItem)]
    BY DEF Inv, Shape
<1>2. e \in NamedItem /\ e.asset = Subject(c)
    BY SubjectType DEF Inv, NamedItem
<1>3. named' = [named EXCEPT ![c] = Append(named[c], e)] /\ todo' = [todo EXCEPT ![c] = Tail(todo[c])]
      /\ pc' = [pc EXCEPT ![c] = "next"]
    BY DEF Grant, Goto
<1> HIDE DEF e
<1>4. named'[c] = Append(named[c], e) /\ \A d \in Calls : d # c => named'[d] = named[d]
    BY <1>1, <1>3
<1>5. /\ Len(named[c]) \in Nat /\ Len(named'[c]) = Len(named[c]) + 1
      /\ \A i \in 1..Len(named[c]) : named'[c][i] = named[c][i]
      /\ named'[c][Len(named[c]) + 1] = e
    BY <1>1, <1>2, <1>4, AppendProperties
<1>6. Items(c)' = Items(c) \cup {e}
    BY GrantStep DEF Inv, e
<1>7. Tail(todo[c]) \in Lists
    BY NextOfList DEF Typed
<1> QED
    BY <1>2, <1>3, <1>4, <1>5, <1>6, <1>7 DEF e

\* Naming steps that grant nothing stay at their asset, or end the call.
LEMMA TryingStep ==
    ASSUME Inv, NEW c \in Calls, Assign(c)
    PROVE  /\ pc[c] \in {"lookup", "names", "assign"} /\ todo[c] # <<>>
           /\ \/ \E n \in Nat \ {None} : Grant(c, n)
              \/ /\ \E l \in {"names", "assign", "exhausted", "failed"} : pc' = [pc EXCEPT ![c] = l]
                 /\ UNCHANGED <<todo, named>>
<1>0. Shape /\ Occupied
    BY DEF Inv
<1>1. CASE AliasFound(c)
    <2>1. pc[c] = "lookup" /\ todo[c] # <<>> /\ Subject(c) \in Assets
        BY <1>0, <1>1, SubjectType DEF AliasFound, Occupied
    <2>2. alias[Subject(c)] \in Nat \ {None}
        BY <1>0, <1>1, <2>1 DEF AliasFound, Shape
    <2> QED
        BY <1>1, <2>1, <2>2 DEF AliasFound
<1>2. CASE InsertAlias(c)
    <2>1. pc[c] = "assign" /\ todo[c] # <<>> /\ left[c] # {}
        BY <1>0, <1>2 DEF InsertAlias, Occupied
    <2>2. Candidate(c) \in Nat \ {None}
        BY <1>0, <2>1, CandidateLeft DEF Shape
    <2> QED
        BY <1>2, <2>1, <2>2 DEF InsertAlias
<1>3. CASE AliasMissing(c) \/ ListNames(c)
    BY <1>0, <1>3 DEF AliasMissing, ListNames, Goto, Occupied
<1>4. CASE CandidateTaken(c) \/ OwnerGone(c)
    BY <1>0, <1>4 DEF CandidateTaken, OwnerGone, Goto, Occupied
<1> QED
    BY <1>1, <1>2, <1>3, <1>4 DEF Assign

LEMMA TypedStep ==
    ASSUME Inv, Typed, [Next]_vars
    PROVE  Typed'
<1>1. ASSUME NEW c \in Calls, Assign(c), UNCHANGED requests PROVE Typed'
    <2>1. CASE \E n \in Nat \ {None} : Grant(c, n)
        BY <1>1, <2>1, TryingStep, GrantedLists DEF Typed, requests
    <2>2. CASE UNCHANGED todo
        BY <1>1, <2>2 DEF Typed, requests
    <2> QED
        BY <1>1, <2>1, <2>2, TryingStep
<1>2. ASSUME NEW c \in Calls, Accept(c) \/ ScanFails(c) \/ (\E clean \in BOOLEAN : Scan(c, clean))
      PROVE  Typed'
    BY <1>2 DEF Accept, ScanFails, Scan, Typed
<1>3. ASSUME NEW c \in Calls, Reject(c) PROVE Typed'
    <2>1. Tail(todo[c]) \in Lists
        BY <1>3, NextOfList DEF Reject, Typed
    <2> QED
        BY <1>3, <2>1 DEF Reject, Typed
<1>4. ASSUME NEW c \in Calls, InsertSnapshot(c) PROVE Typed'
    <2> DEFINE new == [by |-> c, items |-> named[c], state |-> "pending"]
    <2>1. new \in Snapshot
        BY DEF Inv, Shape, Snapshot
    <2>2. snapshots' = Append(snapshots, new) /\ UNCHANGED <<todo, request, seen, rejected, victim>>
        BY <1>4 DEF InsertSnapshot
    <2> HIDE DEF new
    <2>3. snapshots' \in Seq(Snapshot) /\ Len(snapshots') = Len(snapshots) + 1 /\ Len(snapshots) \in Nat
        BY <2>1, <2>2, AppendProperties DEF Typed
    <2> QED
        BY <2>2, <2>3 DEF Typed
<1>5. ASSUME NEW c \in Calls, CommitSnapshot(c) \/ Revoke(c) PROVE Typed'
    <2>1. snapshots' \in Seq(Snapshot) /\ Len(snapshots') = Len(snapshots)
        BY <1>5, StatesChange DEF CommitSnapshot, Revoke, Typed
    <2> QED
        BY <1>5, <2>1 DEF CommitSnapshot, Revoke, Typed
<1>6. CASE Crash
    <2>1. snapshots' \in Seq(Snapshot) /\ Len(snapshots') = Len(snapshots)
        BY <1>6, StatesChange DEF Crash, Typed
    <2> QED
        BY <1>6, <2>1 DEF Crash, Typed
<1>7. ASSUME NEW c \in Calls, NEW op \in {"preview", "publish"}, NEW assets \in Lists,
             Start(c, op, assets) \/ ListingFails(c, op, assets)
      PROVE  Typed'
    <2>1. [op |-> op, assets |-> assets] \in Requests
        BY DEF Requests
    <2>2. live \cap Range(assets) \subseteq Assets
        BY DEF Inv, Shape
    <2> QED
        BY <1>7, <2>1, <2>2 DEF Start, ListingFails, Typed
<1>8. ASSUME NEW c \in Calls, SelectActive(c) PROVE Typed'
    <2>1. [op |-> "revoke", assets |-> <<>>] \in Requests
        BY EmptyList DEF Requests
    <2>2. Active \in 0..Len(snapshots)
        BY ActiveType DEF Typed
    <2> QED
        BY <1>8, <2>1, <2>2 DEF SelectActive, Typed
<1>9. ASSUME NEW a \in Assets, Remove(a) \/ Restart(a), UNCHANGED requests PROVE Typed'
    BY <1>9 DEF Remove, Restart, requests, Typed
<1>10. CASE UNCHANGED vars
    BY <1>10 DEF vars, identities, Typed
<1> QED
    BY <1>1, <1>2, <1>3, <1>4, <1>5, <1>6, <1>7, <1>8, <1>9, <1>10 DEF Next, Arrive, Handle

\* A call whose own state a step leaves alone.
LEMMA FollowsOn ==
    ASSUME NEW c \in Calls, Follows(c), pc'[c] = pc[c], todo'[c] = todo[c], named'[c] = named[c],
           request'[c] = request[c], rejected'[c] = rejected[c]
    PROVE  Follows(c)'
<1>1. Items(c)' = Items(c) /\ Subject(c)' = Subject(c)
    BY DEF Items, Subject
<1>2. InTurn(c)' = InTurn(c)
    BY DEF InTurn
<1> QED
    BY <1>1, <1>2 DEF Follows

\* A call that ends keeps what it named.
LEMMA FollowsEnd ==
    ASSUME NEW c \in Calls, Follows(c), pc'[c] \in Ended \cup {"revoke"}, named'[c] = named[c]
    PROVE  Follows(c)'
<1>1. Items(c)' = Items(c)
    BY DEF Items
<1> QED
    BY <1>1 DEF Follows, Working, Ended

\* The asset at hand moves from the worklist to what is named.
LEMMA FollowsGrant ==
    ASSUME Inv, Typed, NEW c \in Calls, Follows(c), pc[c] \in {"lookup", "names", "assign"},
           todo[c] # <<>>, NEW n \in Nat \ {None}, Grant(c, n), UNCHANGED requests
    PROVE  Follows(c)'
<1>1. /\ todo'[c] = Tail(todo[c]) /\ pc'[c] = "next"
      /\ Len(named[c]) \in Nat /\ Len(named'[c]) = Len(named[c]) + 1
      /\ \A i \in 1..Len(named[c]) : named'[c][i] = named[c][i]
      /\ named'[c][Len(named[c]) + 1].asset = Subject(c)
      /\ Items(c)' = Items(c) \cup {[asset |-> Subject(c), name |-> n]}
    BY GrantedLists DEF Inv, Shape
<1>2. /\ Len(Tail(todo[c])) = Len(todo[c]) - 1 /\ Len(todo[c]) \in Nat \ {0}
      /\ Subject(c) = todo[c][1]
      /\ \A i \in 1..Len(Tail(todo[c])) : Tail(todo[c])[i] = todo[c][i + 1]
    BY NextOfList DEF Typed, Subject
<1>3. Subject(c) \in Demo
    BY DEF Follows
<1>4. \A s \in Items(c)' : s.asset \in Demo
    BY <1>1, <1>3 DEF Follows
<1>5. ASSUME InTurn(c) PROVE InTurn(c)'
    <2> DEFINE k == Len(named[c])
               m == Len(todo[c])
               asked == request[c].assets
    <2>1. /\ Len(asked) = k + m /\ k \in Nat /\ m \in Nat \ {0}
          /\ \A i \in 1..k : named[c][i].asset = asked[i]
          /\ \A i \in 1..m : todo[c][i] = asked[k + i]
        BY <1>1, <1>2, <1>5 DEF InTurn
    <2>2. Len(named'[c]) = k + 1 /\ Len(todo'[c]) = m - 1 /\ request'[c].assets = asked
        BY <1>1, <1>2 DEF requests
    <2>3. \A i \in 1..(k + 1) : named'[c][i].asset = asked[i]
        <3>1. named'[c][k + 1].asset = asked[k + 1]
            BY <1>1, <1>2, <2>1
        <3>2. \A i \in 1..k : named'[c][i].asset = asked[i]
            BY <1>1, <2>1
        <3> QED
            BY <2>1, <3>1, <3>2
    <2>4. \A i \in 1..(m - 1) : todo'[c][i] = asked[k + 1 + i]
        <3>1. \A i \in 1..(m - 1) : todo'[c][i] = todo[c][i + 1]
            BY <1>1, <1>2
        <3> HIDE DEF k, m, asked
        <3>2. \A i \in 1..(m - 1) : i + 1 \in 1..m /\ k + (i + 1) = k + 1 + i
            BY <2>1
        <3> QED
            BY <2>1, <3>1, <3>2
    <2> HIDE DEF k, m, asked
    <2>5. k + m = (k + 1) + (m - 1)
        BY <2>1
    <2>6. Len(request'[c].assets) = Len(named'[c]) + Len(todo'[c])
        BY <2>1, <2>2, <2>5
    <2>7. \A i \in 1..Len(named'[c]) : named'[c][i].asset = request'[c].assets[i]
        BY <2>2, <2>3
    <2>8. \A i \in 1..Len(todo'[c]) : todo'[c][i] = request'[c].assets[Len(named'[c]) + i]
        BY <2>2, <2>4
    <2> QED
        BY <2>6, <2>7, <2>8 DEF InTurn
<1>6. rejected'[c] = rejected[c]
    BY DEF requests
<1> QED
    BY <1>1, <1>4, <1>5, <1>6 DEF Follows, Working

LEMMA FollowsStep ==
    ASSUME Inv, Typed, [Next]_vars, NEW d \in Calls, Follows(d)
    PROVE  Follows(d)'
<1>0. /\ pc \in [Calls -> {"new"} \cup Working \cup Ended]
      /\ todo \in [Calls -> Lists] /\ named \in [Calls -> Seq(NamedItem)]
      /\ request \in [Calls -> Requests \cup {NoRequest}] /\ rejected \in [Calls -> BOOLEAN]
    BY DEF Inv, Shape, Typed
<1>1. ASSUME Assign(d), UNCHANGED requests PROVE Follows(d)'
    <2>1. pc[d] \in {"lookup", "names", "assign"} /\ todo[d] # <<>>
        BY <1>1, TryingStep
    <2>2. ASSUME NEW n \in Nat \ {None}, Grant(d, n) PROVE Follows(d)'
        BY <1>1, <2>1, <2>2, FollowsGrant
    <2>3. ASSUME NEW l \in {"names", "assign", "exhausted", "failed"}, pc' = [pc EXCEPT ![d] = l],
                 UNCHANGED <<todo, named>>
          PROVE  Follows(d)'
        <3>1. CASE l \in {"exhausted", "failed"}
            BY <1>0, <2>3, <3>1, FollowsEnd DEF Ended
        <3>2. CASE l \in {"names", "assign"}
            <4>1. /\ pc'[d] = l /\ todo'[d] = todo[d] /\ named'[d] = named[d]
                  /\ request'[d] = request[d] /\ rejected'[d] = rejected[d]
                BY <1>0, <1>1, <2>3 DEF requests
            <4>2. Items(d)' = Items(d) /\ Subject(d)' = Subject(d) /\ InTurn(d)' = InTurn(d)
                BY <4>1 DEF Items, Subject, InTurn
            <4> QED
                BY <2>1, <3>2, <4>1, <4>2 DEF Follows, Working
        <3> QED
            BY <3>1, <3>2
    <2> QED
        BY <1>1, <2>2, <2>3, TryingStep
<1>2. ASSUME Accept(d) PROVE Follows(d)'
    <2>1. /\ pc[d] = "next" /\ pc'[d] = "lookup" /\ Subject(d) \in Demo
          /\ UNCHANGED <<todo, named, request, rejected>>
        BY <1>0, <1>2 DEF Accept, Eligible, Goto
    <2>2. Items(d)' = Items(d) /\ Subject(d)' = Subject(d) /\ InTurn(d)' = InTurn(d)
        BY <2>1 DEF Items, Subject, InTurn
    <2> QED
        BY <2>1, <2>2 DEF Follows, Working
<1>3. ASSUME Reject(d) PROVE Follows(d)'
    <2>1. /\ pc[d] = "next" /\ pc'[d] = "next" /\ rejected'[d] /\ named'[d] = named[d]
        BY <1>0, <1>3 DEF Reject
    <2>2. Items(d)' = Items(d)
        BY <2>1 DEF Items
    <2> QED
        BY <2>1, <2>2 DEF Follows
<1>4. ASSUME NEW clean \in BOOLEAN, Scan(d, clean) PROVE Follows(d)'
    <2>1. /\ pc[d] = "next" /\ todo[d] = <<>>
          /\ pc'[d] \in {"done", "insert", "refused"} /\ (pc'[d] = "insert" => ~rejected[d])
          /\ UNCHANGED <<todo, named, request, rejected>>
        BY <1>0, <1>4 DEF Scan, Publishable, Goto
    <2>2. CASE pc'[d] = "insert"
        <3>1. Items(d)' = Items(d) /\ InTurn(d)' = InTurn(d)
            BY <2>1 DEF Items, InTurn
        <3> QED
            BY <2>1, <2>2, <3>1 DEF Follows, Working
    <2>3. CASE pc'[d] # "insert"
        BY <2>1, <2>3, FollowsEnd DEF Ended
    <2> QED
        BY <2>2, <2>3
<1>5. ASSUME ScanFails(d) \/ CommitSnapshot(d) \/ Revoke(d) \/ SelectActive(d) PROVE Follows(d)'
    BY <1>0, <1>5, FollowsEnd DEF ScanFails, CommitSnapshot, Revoke, SelectActive, Goto, Ended
<1>6. ASSUME InsertSnapshot(d) PROVE Follows(d)'
    <2>1. /\ pc[d] = "insert" /\ pc'[d] = "commit" /\ UNCHANGED <<todo, named, request, rejected>>
        BY <1>0, <1>6 DEF InsertSnapshot, Goto
    <2>2. Items(d)' = Items(d) /\ InTurn(d)' = InTurn(d)
        BY <2>1 DEF Items, InTurn
    <2> QED
        BY <2>1, <2>2 DEF Follows, Working
<1>7. ASSUME NEW op \in {"preview", "publish"}, NEW assets \in Lists, ListingFails(d, op, assets)
      PROVE  Follows(d)'
    BY <1>0, <1>7, FollowsEnd DEF ListingFails, Goto, Ended
<1>8. ASSUME NEW op \in {"preview", "publish"}, NEW assets \in Lists, Start(d, op, assets)
      PROVE  Follows(d)'
    <2>1. /\ pc'[d] = "next" /\ todo'[d] = assets /\ request'[d].assets = assets
          /\ named'[d] = named[d] /\ named[d] = <<>>
        BY <1>0, <1>8 DEF Start, MayStart, Goto, Follows
    <2>2. Items(d)' = Items(d)
        BY <2>1 DEF Items
    <2>3. Len(assets) \in Nat /\ Len(named'[d]) = 0
        BY <2>1, ListsAre
    <2>4. InTurn(d)'
        BY <2>1, <2>3 DEF InTurn
    <2> QED
        BY <2>1, <2>2, <2>4 DEF Follows
<1>9. ASSUME Crash PROVE Follows(d)'
    <2>1. UNCHANGED <<todo, named, request, rejected>> /\ (pc'[d] = pc[d] \/ pc'[d] = "dead")
        BY <1>9 DEF Crash
    <2> QED
        BY <2>1, FollowsOn, FollowsEnd DEF Ended
<1>10. ASSUME NEW c \in Calls, c # d, Arrive(c) \/ Handle(c) PROVE Follows(d)'
    <2>1. CASE Assign(c) /\ UNCHANGED requests
        <3>1. CASE \E n \in Nat \ {None} : Grant(c, n)
            BY <1>0, <1>10, <2>1, <3>1, TryingStep, GrantedLists, FollowsOn DEF requests
        <3>2. CASE \E l \in {"names", "assign", "exhausted", "failed"} : pc' = [pc EXCEPT ![c] = l]
                                                                        /\ UNCHANGED <<todo, named>>
            BY <1>0, <1>10, <2>1, <3>2, FollowsOn DEF requests
        <3> QED
            BY <2>1, <3>1, <3>2, TryingStep
    <2>2. CASE Arrive(c) \/ Accept(c) \/ Reject(c) \/ (\E clean \in BOOLEAN : Scan(c, clean))
               \/ ScanFails(c) \/ InsertSnapshot(c) \/ CommitSnapshot(c) \/ Revoke(c)
        <3>1. /\ pc'[d] = pc[d] /\ todo'[d] = todo[d] /\ named'[d] = named[d]
              /\ request'[d] = request[d] /\ rejected'[d] = rejected[d]
            BY <1>0, <1>10, <2>2 DEF Arrive, Start, ListingFails, SelectActive, Accept, Reject, Scan,
               ScanFails, InsertSnapshot, CommitSnapshot, Revoke, Goto
        <3> QED
            BY <3>1, FollowsOn
    <2> QED
        BY <1>10, <2>1, <2>2 DEF Handle
<1>11. ASSUME NEW a \in Assets, Remove(a) \/ Restart(a), UNCHANGED requests PROVE Follows(d)'
    BY <1>11, FollowsOn DEF Remove, Restart, requests
<1>12. CASE UNCHANGED vars
    BY <1>12, FollowsOn DEF vars, identities
<1> QED
    BY <1>1, <1>2, <1>3, <1>4, <1>5, <1>6, <1>7, <1>8, <1>9, <1>10, <1>11, <1>12
       DEF Next, Arrive, Handle

\* A snapshot is put together from all that its call named.
LEMMA PublishedStep ==
    ASSUME Inv, Publications, [Next]_vars
    PROVE  AuthorsStarted' /\ PublishedAsAsked'
<1> DEFINE AsAsked(items, assets) == /\ [i \in DOMAIN items |-> items[i].asset] = assets
                                     /\ \A i \in DOMAIN items : items[i].asset \in Demo
<1>1. /\ pc \in [Calls -> {"new"} \cup Working \cup Ended] /\ request \in [Calls -> Requests \cup {NoRequest}]
      /\ snapshots \in Seq(Snapshot)
    BY DEF Inv, Shape, Publications, Typed
<1>2. \A i \in DOMAIN snapshots :
         /\ snapshots[i] \in Snapshot /\ snapshots[i].by \in Calls /\ pc[snapshots[i].by] # "new"
         /\ AsAsked(snapshots[i].items, request[snapshots[i].by].assets)
    <2>1. \A i \in DOMAIN snapshots : snapshots[i] \in Snapshot
        BY <1>1
    <2> QED
        BY <2>1 DEF Publications, AuthorsStarted, PublishedAsAsked, Snapshot
<1>3. \A c \in Calls : pc[c] # "new" => pc'[c] # "new" /\ request'[c] = request[c]
    <2> SUFFICES ASSUME NEW c \in Calls, pc[c] # "new"
                 PROVE  pc'[c] # "new" /\ request'[c] = request[c]
        OBVIOUS
    <2>1. ASSUME NEW d \in Calls, Assign(d), UNCHANGED requests PROVE pc'[c] # "new" /\ request'[c] = request[c]
        BY <1>1, <2>1, TryingStep, GrantedLists DEF requests, Publications
    <2>2. ASSUME NEW d \in Calls,
                 Arrive(d) \/ Accept(d) \/ Reject(d) \/ (\E clean \in BOOLEAN : Scan(d, clean))
                    \/ ScanFails(d) \/ InsertSnapshot(d) \/ CommitSnapshot(d) \/ Revoke(d)
          PROVE  pc'[c] # "new" /\ request'[c] = request[c]
        BY <1>1, <2>2 DEF Arrive, Start, ListingFails, SelectActive, MayStart, Accept, Reject, Scan, ScanFails,
           InsertSnapshot, CommitSnapshot, Revoke, Goto
    <2>3. ASSUME NEW a \in Assets, Remove(a) \/ Restart(a), UNCHANGED requests
          PROVE  pc'[c] # "new" /\ request'[c] = request[c]
        BY <2>3 DEF Remove, Restart, requests
    <2>4. CASE Crash \/ UNCHANGED vars
        BY <1>1, <2>4 DEF Crash, vars, identities
    <2> QED
        BY <2>1, <2>2, <2>3, <2>4 DEF Next, Handle
<1>4. CASE /\ DOMAIN snapshots' = DOMAIN snapshots
           /\ \A i \in DOMAIN snapshots :
                 snapshots'[i].by = snapshots[i].by /\ snapshots'[i].items = snapshots[i].items
    <2> HIDE DEF AsAsked
    <2>1. \A i \in DOMAIN snapshots' :
             /\ pc'[snapshots'[i].by] # "new"
             /\ AsAsked(snapshots'[i].items, request'[snapshots'[i].by].assets)
        BY <1>2, <1>3, <1>4
    <2> QED
        BY <2>1 DEF AsAsked, AuthorsStarted, PublishedAsAsked
<1>5. ASSUME NEW c \in Calls, InsertSnapshot(c) PROVE AuthorsStarted' /\ PublishedAsAsked'
    <2> DEFINE new == [by |-> c, items |-> named[c], state |-> "pending"]
               n == Len(snapshots)
    <2>1. /\ pc[c] = "insert" /\ todo[c] = <<>> /\ InTurn(c)
          /\ \A s \in Items(c) : s.asset \in Demo
        BY <1>5 DEF InsertSnapshot, Publications, Follows, Working
    <2>2. named[c] \in Seq(NamedItem) /\ DOMAIN named[c] = 1..Len(named[c]) /\ Len(named[c]) \in Nat
        BY DEF Inv, Shape
    <2>3. request[c].assets \in Seq(Assets)
        <3>1. NoRequest.assets \in Seq(Assets)
            BY DEF NoRequest
        <3>2. \A q \in Requests : q.assets \in Seq(Assets)
            BY ListsAre DEF Requests
        <3>3. request[c] \in Requests \cup {NoRequest}
            BY <1>1
        <3> QED
            BY <3>1, <3>2, <3>3
    <2>4. Len(request[c].assets) = Len(named[c])
        BY <2>1, <2>2 DEF InTurn
    <2>5. request[c].assets = [i \in 1..Len(named[c]) |-> request[c].assets[i]]
        BY <2>3, <2>4
    <2>6. [i \in DOMAIN named[c] |-> named[c][i].asset] = request[c].assets
        BY <2>1, <2>2, <2>5 DEF InTurn
    <2>7. \A i \in DOMAIN named[c] : named[c][i].asset \in Demo
        BY <2>1 DEF Items
    <2>8. new.by = c /\ new.items = named[c] /\ new \in Snapshot
        BY <2>2 DEF Snapshot
    <2>9. AsAsked(new.items, request[c].assets)
        BY <2>6, <2>7, <2>8
    <2>10. snapshots' = Append(snapshots, new) /\ pc'[c] # "new" /\ request'[c] = request[c]
        BY <1>3, <1>5, <2>1 DEF InsertSnapshot
    <2> HIDE DEF new, AsAsked
    <2>11. /\ DOMAIN snapshots' = DOMAIN snapshots \cup {n + 1}
           /\ \A i \in DOMAIN snapshots : snapshots'[i] = snapshots[i]
           /\ snapshots'[n + 1] = new
        <3>1. /\ n \in Nat /\ snapshots' \in Seq(Snapshot) /\ Len(snapshots') = n + 1
              /\ \A i \in 1..n : snapshots'[i] = snapshots[i]
              /\ snapshots'[n + 1] = new
            BY <1>1, <2>8, <2>10, AppendProperties
        <3>2. DOMAIN snapshots = 1..n /\ DOMAIN snapshots' = 1..(n + 1)
            BY <1>1, <3>1
        <3>3. 1..(n + 1) = 1..n \cup {n + 1}
            BY <3>1
        <3> QED
            BY <3>1, <3>2, <3>3
    <2>12. \A i \in DOMAIN snapshots' :
              /\ pc'[snapshots'[i].by] # "new"
              /\ AsAsked(snapshots'[i].items, request'[snapshots'[i].by].assets)
        <3> SUFFICES ASSUME NEW i \in DOMAIN snapshots'
                     PROVE  /\ pc'[snapshots'[i].by] # "new"
                            /\ AsAsked(snapshots'[i].items, request'[snapshots'[i].by].assets)
            OBVIOUS
        <3>1. CASE i \in DOMAIN snapshots
            <4>1. snapshots'[i] = snapshots[i] /\ snapshots[i].by \in Calls /\ pc[snapshots[i].by] # "new"
                BY <1>2, <2>11, <3>1
            <4>2. pc'[snapshots[i].by] # "new" /\ request'[snapshots[i].by] = request[snapshots[i].by]
                BY <1>3, <4>1
            <4> QED
                BY <1>2, <3>1, <4>1, <4>2
        <3>2. CASE i = n + 1
            <4>1. snapshots'[i] = new
                BY <2>11, <3>2
            <4> QED
                BY <2>8, <2>9, <2>10, <4>1
        <3> QED
            BY <2>11, <3>1, <3>2
    <2> QED
        BY <2>12 DEF AsAsked, AuthorsStarted, PublishedAsAsked
<1>6. CASE UNCHANGED snapshots
    BY <1>4, <1>6
<1>7. ASSUME NEW c \in Calls, CommitSnapshot(c) \/ Revoke(c) PROVE AuthorsStarted' /\ PublishedAsAsked'
    BY <1>1, <1>4, <1>7, StatesChange DEF CommitSnapshot, Revoke
<1>8. CASE Crash
    BY <1>1, <1>4, <1>8, StatesChange DEF Crash
<1>9. ASSUME NEW c \in Calls, Arrive(c) \/ Handle(c), ~InsertSnapshot(c),
             ~(CommitSnapshot(c) \/ Revoke(c))
      PROVE  UNCHANGED snapshots
    BY <1>9 DEF Handle, Arrive, Start, ListingFails, SelectActive, Accept, Reject, Scan, ScanFails, requests
<1>10. ASSUME NEW a \in Assets, UNCHANGED requests PROVE UNCHANGED snapshots
    BY <1>10 DEF requests
<1> QED
    BY <1>5, <1>6, <1>7, <1>8, <1>9, <1>10 DEF Next, vars

LEMMA PublicationsInvariance == Spec => [](Inv /\ Publications)
<1>1. Init => Inv /\ Publications
    BY InitInv, InitPublications
<1>2. Inv /\ Publications /\ [Next]_vars => (Inv /\ Publications)'
    <2> SUFFICES ASSUME Inv, Publications, [Next]_vars PROVE (Inv /\ Publications)'
        OBVIOUS
    <2>1. Inv'
        BY NextInv
    <2>2. Typed'
        BY TypedStep DEF Publications
    <2>3. ASSUME NEW c \in Calls PROVE Follows(c)'
        BY FollowsStep DEF Publications
    <2> QED
        BY <2>1, <2>2, <2>3, PublishedStep DEF Publications
<1> QED
    BY <1>1, <1>2, PTL DEF Spec

\* A demo never shows part of what was asked for, nor an asset that is not of
\* the lab: whatever other calls, removals and crashes come between, a
\* snapshot holds the assets of its request, all of them and in order.
THEOREM DemoShowsWhatWasAsked == Spec => []PublishedAsAsked
<1>1. Inv /\ Publications => PublishedAsAsked
    BY DEF Publications
<1> QED
    BY <1>1, PublicationsInvariance, PTL

-----------------------------------------------------------------------------
(* Which names are given                                                   *)

\* The asset at hand needs no name any more, or can have none.
Settled(c) == alias[Subject(c)] # None \/ (Perishable /\ Subject(c) \notin live)

\* Numbered names go no further than there are assets.
Bound == Pool + Cardinality(Assets)
NamesBounded ==
    /\ \A a \in Assets : alias[a] <= Bound
    /\ \A c \in Calls : pc[c] = "assign" => Settled(c) \/ \A n \in left[c] : n <= Bound

\* A name of the pool that a call does not try any more is in use.
PoolTried ==
    \A c \in Calls : pc[c] = "assign" => Settled(c) \/ 1..Pool \subseteq left[c] \cup Used

LEMMA BoundType == Cardinality(Assets) \in Nat /\ Bound \in Nat
BY PoolAssumption, FS_CardinalityType DEF Bound, PoolAssumption

\* While an asset has no name, fewer names are in use than there are assets.
LEMMA UsedFew ==
    ASSUME Shape, NEW a \in Assets, alias[a] = None
    PROVE  Cardinality(Used) \in Nat /\ Cardinality(Used) + 1 <= Cardinality(Assets)
<1> DEFINE Others == Assets \ {a}
           Names == {alias[b] : b \in Others}
           f == [b \in Others |-> alias[b]]
<1>1. /\ IsFiniteSet(Others) /\ Cardinality(Others) = Cardinality(Assets) - 1
      /\ Cardinality(Assets) \in Nat
    BY PoolAssumption, FS_RemoveElement, FS_CardinalityType DEF PoolAssumption
<1>2. f \in Surjection(Others, Names)
    BY DEF Surjection
<1>3. IsFiniteSet(Names) /\ Cardinality(Names) <= Cardinality(Others)
    <2> HIDE DEF Names, Others, f
    <2> QED
        BY <1>1, <1>2, FS_Surjection
<1>4. Used \in SUBSET Names
    BY DEF Used
<1> HIDE DEF Names, Others
<1>5. IsFiniteSet(Used) /\ Cardinality(Used) <= Cardinality(Names)
    BY <1>3, <1>4, FS_Subset
<1>6. Cardinality(Used) \in Nat /\ Cardinality(Names) \in Nat
    BY <1>3, <1>5, FS_CardinalityType
<1> QED
    BY <1>1, <1>3, <1>5, <1>6

\* The table changes by an insertion, or by the end of a host.
LEMMA TableStep ==
    ASSUME Inv, [Next]_vars
    PROVE  \/ \E c \in Calls : InsertAlias(c)
           \/ /\ UNCHANGED alias
              /\ Perishable => live' \subseteq live
           \/ \E a \in Assets : Perishable /\ live' = live \ {a} /\ alias' = [alias EXCEPT ![a] = None]
<1>1. ASSUME NEW c \in Calls, Handle(c) \/ Arrive(c), ~InsertAlias(c) PROVE UNCHANGED <<live, alias>>
    BY <1>1 DEF Handle, Arrive, Assign, AliasFound, AliasMissing, ListNames, CandidateTaken, OwnerGone,
       Accept, Reject, Scan, ScanFails, InsertSnapshot, CommitSnapshot, Revoke,
       Start, ListingFails, SelectActive
<1>2. ASSUME NEW a \in Assets, Remove(a) \/ Restart(a)
      PROVE  \/ UNCHANGED alias /\ (Perishable => live' \subseteq live)
             \/ Perishable /\ live' = live \ {a} /\ alias' = [alias EXCEPT ![a] = None]
    BY <1>2 DEF Remove, Restart
<1>3. CASE Crash \/ UNCHANGED vars
    BY <1>3 DEF Crash, vars, identities
<1> QED
    BY <1>1, <1>2, <1>3 DEF Next

\* An insertion names an asset that was not settled, with a candidate.
LEMMA InsertionStep ==
    ASSUME Inv, NEW c \in Calls, InsertAlias(c)
    PROVE  /\ pc[c] = "assign" /\ left[c] # {} /\ Subject(c) \in Assets /\ ~Settled(c)
           /\ Candidate(c) \in left[c] /\ Candidate(c) \in Nat \ {None}
           /\ alias' = [alias EXCEPT ![Subject(c)] = Candidate(c)] /\ UNCHANGED live
<1>1. pc[c] = "assign" /\ left[c] # {} /\ todo[c] # <<>>
    BY DEF InsertAlias, Inv, Occupied
<1>2. Candidate(c) \in left[c] /\ Candidate(c) \in Nat \ {None}
    BY <1>1, CandidateLeft DEF Inv, Shape
<1> QED
    BY <1>1, <1>2, SubjectType DEF InsertAlias, Inv, Settled, Taken

\* How a call comes to have candidates.
LEMMA CandidatesStep ==
    ASSUME Inv, [Next]_vars, NEW c \in Calls, pc'[c] = "assign"
    PROVE  /\ todo'[c] = todo[c] /\ todo[c] # <<>>
           /\ \/ pc[c] = "names" /\ left'[c] = Candidates(Used) /\ UNCHANGED <<live, alias>>
              \/ pc[c] = "assign" /\ left'[c] = left[c]
              \/ /\ pc[c] = "assign" /\ Taken(c, Candidate(c))
                 /\ left'[c] = left[c] \ {Candidate(c)} /\ UNCHANGED <<live, alias>>
<1>0. /\ pc \in [Calls -> {"new"} \cup Working \cup Ended] /\ todo \in [Calls -> Seq(Assets)]
      /\ left \in [Calls -> SUBSET (Nat \ {None})]
      /\ (pc[c] \in {"names", "assign"} => todo[c] # <<>>)
    BY DEF Inv, Shape, Occupied
<1>1. ASSUME NEW d \in Calls, d # c, Assign(d)
      PROVE  pc[c] = "assign" /\ UNCHANGED <<todo[c], left[c]>>
    BY <1>0, <1>1 DEF Assign, AliasFound, AliasMissing, ListNames, InsertAlias, CandidateTaken, OwnerGone,
       Grant, Goto
<1>2. ASSUME NEW d \in Calls,
             Arrive(d) \/ Accept(d) \/ Reject(d) \/ (\E clean \in BOOLEAN : Scan(d, clean))
                \/ ScanFails(d) \/ InsertSnapshot(d) \/ CommitSnapshot(d) \/ Revoke(d)
      PROVE  pc[c] = "assign" /\ UNCHANGED <<todo[c], left[c]>>
    BY <1>0, <1>2 DEF Arrive, Start, ListingFails, SelectActive, MayStart, Accept, Reject, Scan, ScanFails,
       InsertSnapshot, CommitSnapshot, Revoke, Goto
<1>3. ASSUME NEW a \in Assets, Remove(a) \/ Restart(a)
      PROVE  pc[c] = "assign" /\ UNCHANGED <<todo[c], left[c]>>
    BY <1>3 DEF Remove, Restart
<1>4. CASE Crash \/ UNCHANGED vars
    BY <1>0, <1>4 DEF Crash, vars, identities
<1>5. CASE Assign(c)
    <2>1. ListNames(c) \/ CandidateTaken(c)
        BY <1>0, <1>5 DEF Assign, AliasFound, AliasMissing, InsertAlias, OwnerGone, Grant, Goto
    <2> QED
        BY <1>0, <2>1 DEF ListNames, CandidateTaken
<1> QED
    BY <1>0, <1>1, <1>2, <1>3, <1>4, <1>5 DEF Next, Handle

\* Settled assets stay so.
LEMMA SettledStays ==
    ASSUME Inv, [Next]_vars, NEW c \in Calls, pc'[c] = "assign", pc[c] = "assign", Settled(c)
    PROVE  Settled(c)'
<1>1. todo'[c] = todo[c] /\ Subject(c) \in Assets /\ Subject(c)' = Subject(c)
    BY CandidatesStep, SubjectType DEF Inv, Subject
<1>2. alias \in [Assets -> Nat]
    BY DEF Inv, Shape
<1> DEFINE a == Subject(c)
<1>3. CASE UNCHANGED alias /\ (Perishable => live' \subseteq live)
    BY <1>1, <1>3 DEF Settled
<1>4. ASSUME NEW d \in Calls, InsertAlias(d) PROVE Settled(c)'
    BY <1>1, <1>2, <1>4, InsertionStep DEF Settled
<1>5. ASSUME NEW b \in Assets, Perishable, live' = live \ {b}, alias' = [alias EXCEPT ![b] = None]
      PROVE  Settled(c)'
    BY <1>1, <1>2, <1>5 DEF Settled
<1> QED
    BY <1>3, <1>4, <1>5, TableStep

LEMMA BoundedStep ==
    ASSUME Inv, NamesBounded, [Next]_vars
    PROVE  NamesBounded'
<1>0. Bound \in Nat /\ Bound = Pool + Cardinality(Assets) /\ Pool \in Nat /\ Bound' = Bound
    BY BoundType, PoolAssumption DEF Bound, PoolAssumption
<1>1. \A a \in Assets : alias'[a] <= Bound
    <2>1. ASSUME NEW c \in Calls, InsertAlias(c) PROVE \A a \in Assets : alias'[a] <= Bound
        <3>1. Candidate(c) <= Bound
            BY <2>1, InsertionStep DEF NamesBounded
        <3>2. alias' = [alias EXCEPT ![Subject(c)] = Candidate(c)] /\ alias \in [Assets -> Nat]
            BY <2>1, InsertionStep DEF Inv, Shape
        <3>3. \A a \in Assets : alias'[a] = Candidate(c) \/ alias'[a] = alias[a]
            BY <3>2
        <3> QED
            BY <3>1, <3>3 DEF NamesBounded
    <2>2. ASSUME NEW b \in Assets, alias' = [alias EXCEPT ![b] = None]
          PROVE  \A a \in Assets : alias'[a] <= Bound
        BY <1>0, <2>2 DEF NamesBounded, Inv, Shape, None
    <2> QED
        BY <2>1, <2>2, TableStep DEF NamesBounded
<1>2. ASSUME NEW c \in Calls, pc'[c] = "assign"
      PROVE  Settled(c)' \/ \A n \in left'[c] : n <= Bound
    <2>1. CASE pc[c] = "assign"
        <3>1. left'[c] \subseteq left[c]
            BY <1>2, <2>1, CandidatesStep
        <3> QED
            BY <1>2, <2>1, <3>1, SettledStays DEF NamesBounded
    <2>2. CASE pc[c] # "assign"
        <3>1. left'[c] = Candidates(Used) /\ UNCHANGED <<live, alias>> /\ todo'[c] = todo[c] /\ todo[c] # <<>>
            BY <1>2, <2>2, CandidatesStep
        <3>2. Subject(c)' = Subject(c) /\ Subject(c) \in Assets
            BY <3>1, SubjectType DEF Inv, Subject
        <3>3. CASE alias[Subject(c)] # None
            BY <3>1, <3>2, <3>3 DEF Settled
        <3>4. CASE alias[Subject(c)] = None
            <4>1. Cardinality(Used) \in Nat /\ Cardinality(Used) + 1 <= Cardinality(Assets)
                BY <3>2, <3>4, UsedFew DEF Inv
            <4> QED
                BY <1>0, <3>1, <4>1, BoundType DEF Candidates
        <3> QED
            BY <3>3, <3>4
    <2> QED
        BY <2>1, <2>2
<1> QED
    BY <1>0, <1>1, <1>2 DEF NamesBounded

LEMMA PoolStep ==
    ASSUME ~Perishable, Inv, PoolTried, [Next]_vars
    PROVE  PoolTried'
<1> SUFFICES ASSUME NEW c \in Calls, pc'[c] = "assign"
             PROVE  Settled(c)' \/ 1..Pool \subseteq left'[c] \cup Used'
    BY DEF PoolTried
<1>1. Used \subseteq Used'
    <2>1. ASSUME NEW d \in Calls, InsertAlias(d) PROVE Used \subseteq Used'
        <3>1. /\ Subject(d) \in Assets /\ alias[Subject(d)] = None
              /\ alias' = [alias EXCEPT ![Subject(d)] = Candidate(d)]
            BY <2>1, InsertionStep DEF Settled
        <3>2. \A a \in Assets : alias[a] # None => alias'[a] = alias[a]
            BY <3>1 DEF Inv, Shape
        <3> QED
            BY <3>2 DEF Used
    <2> QED
        BY <2>1, TableStep DEF Used
<1>2. CASE pc[c] = "assign"
    <2>1. CASE Settled(c)
        BY <1>2, <2>1, SettledStays
    <2>2. CASE ~Settled(c)
        <3>1. 1..Pool \subseteq left[c] \cup Used
            BY <1>2, <2>2 DEF PoolTried
        <3>2. left[c] \subseteq left'[c] \cup Used
            BY <1>2, <2>2, CandidatesStep DEF Taken, Settled
        <3> QED
            BY <1>1, <3>1, <3>2
    <2> QED
        BY <2>1, <2>2
<1>3. CASE pc[c] # "assign"
    <2>1. left'[c] = Candidates(Used)
        BY <1>3, CandidatesStep
    <2> QED
        BY <1>1, <2>1 DEF Candidates
<1> QED
    BY <1>2, <1>3

\* Every variable of previews and publications keeps its type; in particular a
\* numbered name never exceeds the pool and the number of assets.
THEOREM DemoTypeCorrect == Spec => []TypeOK
<1>1. Init => NamesBounded
    BY BoundType DEF Init, NamesBounded, None
<1>2. Inv /\ NamesBounded /\ [Next]_vars => NamesBounded'
    BY BoundedStep
<1>3. Inv /\ Typed /\ NamesBounded => TypeOK
    <2> SUFFICES ASSUME Inv, Typed, NamesBounded PROVE TypeOK
        OBVIOUS
    <2>1. alias \in [Assets -> 0..Pool + Cardinality(Assets)]
        BY BoundType DEF Inv, Shape, NamesBounded, Bound
    <2>2. \A c \in Calls : Items(c) \subseteq Item
        <3>1. \A c \in Calls : \A i \in DOMAIN named[c] : named[c][i] \in NamedItem
            BY DEF Inv, Shape
        <3>2. NamedItem \subseteq Item
            BY DEF NamedItem, Item
        <3> QED
            BY <3>1, <3>2 DEF Items
    <2>3. \A i \in DOMAIN snapshots :
             snapshots[i].by \in Calls /\ snapshots[i].state \in {"pending", "public", "revoked", "lost"}
        <3>1. \A i \in DOMAIN snapshots : snapshots[i] \in Snapshot
            BY DEF Typed
        <3> QED
            BY <3>1 DEF Snapshot
    <2>4. \A c \in Calls : victim[c] \in {0} \cup DOMAIN snapshots
        BY DEF Typed
    <2>5. left \in [Calls -> SUBSET Nat]
        BY DEF Inv, Shape
    <2> QED
        BY <2>1, <2>2, <2>3, <2>4, <2>5 DEF Inv, Shape, Typed, TypeOK
<1>4. Inv /\ Publications => Typed
    BY DEF Publications
<1> QED
    BY <1>1, <1>2, <1>3, <1>4, PublicationsInvariance, PTL DEF Spec

\* Names of the pool first: for any pool and any number of calls that assign at
\* once, a container gets a numbered name only when the whole pool is in use.
THEOREM DemoPoolFirst == ~Perishable => (Spec => PoolFirst)
<1> SUFFICES ASSUME ~Perishable
             PROVE  Spec => PoolFirst
    OBVIOUS
<1>1. Init => PoolTried
    BY DEF Init, PoolTried
<1>2. Inv /\ PoolTried /\ [Next]_vars => PoolTried'
    BY PoolStep
<1>3. Inv /\ PoolTried /\ [Next]_vars
        => [\A a \in Assets : alias'[a] > Pool /\ alias'[a] # alias[a] => 1..Pool \subseteq Used]_vars
    <2> SUFFICES ASSUME Inv, PoolTried, [Next]_vars,
                        NEW a \in Assets, alias'[a] > Pool, alias'[a] # alias[a]
                 PROVE  1..Pool \subseteq Used
        OBVIOUS
    <2>1. PICK c \in Calls : InsertAlias(c)
        BY TableStep
    <2>2. a = Subject(c) /\ Candidate(c) > Pool
        BY <2>1, InsertionStep DEF Inv, Shape
    <2>3. \A m \in left[c] : m > Pool
        <3>1. Candidate(c) \in Nat /\ \A m \in left[c] : Candidate(c) <= m
            BY <2>1, InsertionStep, CandidateLeft DEF Inv
        <3>2. left[c] \subseteq Nat /\ Pool \in Nat
            BY PoolAssumption DEF Inv, Shape, PoolAssumption
        <3> QED
            BY <2>2, <3>1, <3>2
    <2>4. 1..Pool \subseteq left[c] \cup Used
        BY <2>1, InsertionStep DEF PoolTried
    <2> QED
        BY <2>3, <2>4, PoolAssumption DEF PoolAssumption
<1> QED
    BY <1>1, <1>2, <1>3, PublicationsInvariance, PTL DEF Spec, PoolFirst

-----------------------------------------------------------------------------
(* Every handler ends                                                      *)

\* Steps that are left to a call with n assets to come: of each at most one
\* look up, one listing of names and Pool + 1 candidates.
AtNext(n) == n * (Pool + 4) + 3

\* How many steps a call may still take, its arrival among them.
StepsLeft(c) ==
    CASE pc[c] = "new"    -> AtNext(MaxAssets) + 1
      [] pc[c] = "next"   -> AtNext(Len(todo[c]))
      [] pc[c] = "lookup" -> AtNext(Len(todo[c])) - 1
      [] pc[c] = "names"  -> AtNext(Len(todo[c])) - 2
      [] pc[c] = "assign" -> AtNext(Len(todo[c]) - 1) + Cardinality(left[c])
      [] pc[c] = "insert" -> 2
      [] pc[c] \in {"commit", "revoke"} -> 1
      [] OTHER            -> 0

\* No step of anybody puts a call back, and each of its own brings its end nearer.
HandlersAdvance ==
    [][\A c \in Calls :
          /\ StepsLeft(c)' <= StepsLeft(c)
          /\ Arrive(c) \/ Handle(c) => StepsLeft(c)' < StepsLeft(c)]_vars

\* The candidates of one asset.
FewLeft ==
    \A c \in Calls : pc[c] = "assign" => IsFiniteSet(left[c]) /\ Cardinality(left[c]) \in 1..Pool + 1

LEMMA AtNextGrows ==
    /\ \A n \in Nat : AtNext(n) \in Nat /\ AtNext(n) >= 3
    /\ \A n \in Nat \ {0} : AtNext(n) = AtNext(n - 1) + Pool + 4
    /\ \A n \in 0..MaxAssets : AtNext(n) <= AtNext(MaxAssets)
<1> DEFINE B == Pool + 4
<1>0. Pool \in Nat /\ MaxAssets \in Nat /\ B \in Nat
    BY PoolAssumption, DemoAssumption DEF PoolAssumption, DemoAssumption
<1>1. \A n \in Nat : n * B \in Nat
    BY <1>0
<1>2. \A n \in Nat \ {0} : n * B = (n - 1) * B + B
    BY <1>0
<1>3. ASSUME NEW n \in 0..MaxAssets PROVE n * B <= MaxAssets * B
    <2>1. MaxAssets - n \in Nat /\ (MaxAssets - n) * B \in Nat
        BY <1>0, <1>1
    <2>2. MaxAssets * B = n * B + (MaxAssets - n) * B
        BY <1>0
    <2> QED
        BY <1>0, <1>1, <2>1, <2>2
<1>4. \A n : AtNext(n) = n * B + 3
    BY DEF AtNext
<1>5. \A n \in Nat : AtNext(n) \in Nat /\ AtNext(n) >= 3
    <2> HIDE DEF B
    <2> QED BY <1>0, <1>1, <1>4
<1>6. \A n \in Nat \ {0} : AtNext(n) = AtNext(n - 1) + B
    <2>1. \A n \in Nat \ {0} : n - 1 \in Nat
        OBVIOUS
    <2> HIDE DEF B
    <2> QED BY <1>0, <1>1, <1>2, <1>4, <2>1
<1>7. \A n \in 0..MaxAssets : AtNext(n) <= AtNext(MaxAssets)
    <2> HIDE DEF B
    <2> QED BY <1>0, <1>1, <1>3, <1>4
<1> QED
    BY <1>0, <1>5, <1>6, <1>7

\* The free names of the pool and one numbered name.
LEMMA FewCandidates ==
    ASSUME Shape
    PROVE  IsFiniteSet(Candidates(Used)) /\ Cardinality(Candidates(Used)) \in 1..Pool + 1
<1> DEFINE Free == (1..Pool) \ Used
           n == Pool + Cardinality(Used) + 1
<1>1. IsFiniteSet(1..Pool) /\ Cardinality(1..Pool) = Pool /\ Pool \in Nat
    BY PoolAssumption, FS_Interval DEF PoolAssumption
<1>2. IsFiniteSet(Free) /\ Cardinality(Free) <= Pool /\ Cardinality(Free) \in Nat
    BY <1>1, FS_Subset, FS_CardinalityType
<1>3. n \notin Free
    BY <1>1, UsedFinite
<1>4. Candidates(Used) = Free \cup {n}
    BY DEF Candidates
<1> HIDE DEF Free, n
<1>5. IsFiniteSet(Free \cup {n}) /\ Cardinality(Free \cup {n}) = Cardinality(Free) + 1
    BY <1>2, <1>3, FS_AddElement
<1> QED
    BY <1>1, <1>2, <1>4, <1>5

LEMMA FewLeftStep == Inv /\ FewLeft /\ [Next]_vars => FewLeft'
<1> SUFFICES ASSUME Inv, FewLeft, [Next]_vars, NEW c \in Calls, pc'[c] = "assign"
             PROVE  IsFiniteSet(left'[c]) /\ Cardinality(left'[c]) \in 1..Pool + 1
    BY DEF FewLeft
<1>1. CASE left'[c] = Candidates(Used)
    BY <1>1, FewCandidates DEF Inv
<1>2. CASE pc[c] = "assign" /\ left'[c] = left[c]
    BY <1>2 DEF FewLeft
<1>3. CASE pc[c] = "assign" /\ Taken(c, Candidate(c)) /\ left'[c] = left[c] \ {Candidate(c)}
    <2>1. IsFiniteSet(left[c]) /\ Cardinality(left[c]) \in 1..Pool + 1 /\ Pool \in Nat
        BY <1>3, PoolAssumption DEF FewLeft, PoolAssumption
    <2>2. left'[c] # {} /\ left'[c] \subseteq left[c]
        BY <1>3, NextInv DEF Inv, Occupied
    <2>3. IsFiniteSet(left'[c]) /\ Cardinality(left'[c]) <= Cardinality(left[c])
        BY <2>1, <2>2, FS_Subset
    <2>4. Cardinality(left'[c]) \in Nat /\ Cardinality(left'[c]) # 0
        BY <2>2, <2>3, FS_CardinalityType, FS_EmptySet
    <2> QED
        BY <2>1, <2>3, <2>4
<1> QED
    BY <1>1, <1>2, <1>3, CandidatesStep

\* The steps of one call are no step of another.
LEMMA OthersWait ==
    ASSUME Inv, NEW c \in Calls, Arrive(c) \/ Handle(c), NEW d \in Calls \ {c}
    PROVE  pc'[d] = pc[d] /\ todo'[d] = todo[d] /\ left'[d] = left[d]
<1>0. /\ pc \in [Calls -> {"new"} \cup Working \cup Ended] /\ todo \in [Calls -> Seq(Assets)]
      /\ left \in [Calls -> SUBSET (Nat \ {None})]
    BY DEF Inv, Shape
<1>1. CASE Assign(c)
    BY <1>0, <1>1 DEF Assign, AliasFound, AliasMissing, ListNames, InsertAlias, CandidateTaken, OwnerGone,
       Grant, Goto
<1>2. CASE Arrive(c)
    BY <1>0, <1>2 DEF Arrive, Start, ListingFails, SelectActive, Goto
<1>3. CASE Handle(c) /\ ~Assign(c)
    BY <1>0, <1>3 DEF Handle, Accept, Reject, Scan, ScanFails, InsertSnapshot, CommitSnapshot, Revoke, Goto
<1> QED
    BY <1>1, <1>2, <1>3

LEMMA OwnArrival ==
    ASSUME Inv, NEW c \in Calls, Arrive(c)
    PROVE  StepsLeft(c)' < StepsLeft(c)
<1>0. pc \in [Calls -> {"new"} \cup Working \cup Ended] /\ todo \in [Calls -> Seq(Assets)]
    BY DEF Inv, Shape
<1>1. pc[c] = "new" /\ StepsLeft(c) = AtNext(MaxAssets) + 1 /\ AtNext(MaxAssets) \in Nat /\ AtNext(MaxAssets) >= 3
    BY AtNextGrows, DemoAssumption DEF Arrive, Start, ListingFails, SelectActive, MayStart, StepsLeft,
       DemoAssumption
<1>2. ASSUME NEW op, NEW assets \in Lists, Start(c, op, assets)
      PROVE  StepsLeft(c)' \in Nat /\ StepsLeft(c)' <= AtNext(MaxAssets)
    <2>1. pc'[c] = "next" /\ todo'[c] = assets
        BY <1>0, <1>2 DEF Start, Goto
    <2>2. Len(assets) \in 0..MaxAssets
        BY ListsAre, DemoAssumption DEF DemoAssumption
    <2>3. StepsLeft(c)' = AtNext(Len(assets))
        BY <2>1 DEF StepsLeft, AtNext
    <2> QED
        BY <2>2, <2>3, AtNextGrows
<1>3. CASE pc'[c] \in {"failed", "done", "revoke"}
    BY <1>1, <1>3 DEF StepsLeft
<1>4. \/ \E op \in {"preview", "publish"}, assets \in Lists : Start(c, op, assets)
      \/ pc'[c] \in {"failed", "done", "revoke"}
    BY <1>0 DEF Arrive, ListingFails, SelectActive, Goto
<1> QED
    BY <1>1, <1>2, <1>3, <1>4

LEMMA OwnStep ==
    ASSUME Inv, Inv', FewLeft, FewLeft', NEW c \in Calls, Handle(c)
    PROVE  StepsLeft(c)' < StepsLeft(c)
<1> DEFINE n == Len(todo[c])
<1>0. /\ pc \in [Calls -> {"new"} \cup Working \cup Ended] /\ todo \in [Calls -> Seq(Assets)]
      /\ left \in [Calls -> SUBSET (Nat \ {None})]
      /\ pc[c] \in {"lookup", "names", "assign"} => todo[c] # <<>>
      /\ n \in Nat /\ Pool \in Nat
    BY PoolAssumption DEF Inv, Shape, Occupied, PoolAssumption
<1>1. todo[c] # <<>> => n \in Nat \ {0} /\ Len(Tail(todo[c])) = n - 1 /\ n - 1 \in Nat
    <2> SUFFICES ASSUME todo[c] # <<>> PROVE n \in Nat \ {0} /\ Len(Tail(todo[c])) = n - 1 /\ n - 1 \in Nat
        OBVIOUS
    <2>1. Len(Tail(todo[c])) = n - 1 /\ n \in Nat \ {0}
        <3>1. todo[c] \in Seq(Assets)
            BY <1>0
        <3> QED
            BY <3>1, HeadTailProperties, EmptySeq
    <2> QED
        BY <2>1
<1>2. /\ AtNext(n) \in Nat /\ AtNext(n) >= 3
      /\ todo[c] # <<>> => /\ AtNext(n - 1) \in Nat /\ AtNext(n - 1) >= 3
                           /\ AtNext(n) = AtNext(n - 1) + Pool + 4
    BY <1>0, <1>1, AtNextGrows
<1> HIDE DEF n
\* The call has dealt with one more asset.
<1>3. ASSUME pc[c] \in {"next", "lookup", "assign"}, todo[c] # <<>>,
             pc'[c] = "next", todo'[c] = Tail(todo[c])
      PROVE  StepsLeft(c)' < StepsLeft(c)
    <2>1. StepsLeft(c)' = AtNext(n - 1)
        BY <1>1, <1>3 DEF StepsLeft, AtNext
    <2>2. pc[c] = "assign" => Cardinality(left[c]) \in 1..Pool + 1
        BY DEF FewLeft
    <2>3. StepsLeft(c) = CASE pc[c] = "next" -> AtNext(n) [] pc[c] = "lookup" -> AtNext(n) - 1
                           [] pc[c] = "assign" -> AtNext(n - 1) + Cardinality(left[c])
        BY <1>3 DEF StepsLeft, n
    <2> QED
        BY <1>0, <1>2, <1>3, <2>1, <2>2, <2>3
\* It is on its way to the next candidate.
<1>4. CASE ListNames(c) \/ CandidateTaken(c) \/ AliasMissing(c) \/ Accept(c)
    <2>0. todo[c] # <<>> /\ todo'[c] = todo[c]
        BY <1>0, <1>4 DEF ListNames, CandidateTaken, AliasMissing, Accept
    <2>1. CASE Accept(c) \/ AliasMissing(c)
        <3>1. \/ pc[c] = "next" /\ pc'[c] = "lookup"
              \/ pc[c] = "lookup" /\ pc'[c] = "names"
            BY <1>0, <2>1 DEF Accept, AliasMissing, Goto
        <3>2. StepsLeft(c)' = CASE pc'[c] = "lookup" -> AtNext(n) - 1 [] pc'[c] = "names" -> AtNext(n) - 2
            BY <2>0, <3>1 DEF StepsLeft, AtNext, n
        <3>3. StepsLeft(c) = CASE pc[c] = "next" -> AtNext(n) [] pc[c] = "lookup" -> AtNext(n) - 1
            BY <3>1 DEF StepsLeft, n
        <3> QED
            BY <1>2, <3>1, <3>2, <3>3
    <2>2. CASE ListNames(c)
        <3>1. pc[c] = "names" /\ pc'[c] = "assign"
            BY <1>0, <2>2 DEF ListNames, Goto
        <3>2. Cardinality(left'[c]) \in 1..Pool + 1
            BY <3>1 DEF FewLeft
        <3>3. StepsLeft(c)' = AtNext(n - 1) + Cardinality(left'[c]) /\ StepsLeft(c) = AtNext(n) - 2
            BY <2>0, <3>1 DEF StepsLeft, AtNext, n
        <3> QED
            BY <1>0, <1>2, <2>0, <3>2, <3>3
    <2>3. CASE CandidateTaken(c)
        <3>1. /\ pc[c] = "assign" /\ pc'[c] \in {"assign", "exhausted"}
              /\ left'[c] = left[c] \ {Candidate(c)}
              /\ Candidate(c) \in left[c]
            BY <1>0, <2>3, CandidateLeft DEF CandidateTaken, Goto, Inv, Occupied
        <3>2. IsFiniteSet(left[c]) /\ Cardinality(left[c]) \in 1..Pool + 1
            BY <3>1 DEF FewLeft
        <3>3. Cardinality(left'[c]) = Cardinality(left[c]) - 1
            BY <3>1, <3>2, FS_RemoveElement
        <3>4. /\ StepsLeft(c)' = IF pc'[c] = "assign" THEN AtNext(n - 1) + Cardinality(left'[c]) ELSE 0
              /\ StepsLeft(c) = AtNext(n - 1) + Cardinality(left[c])
            BY <2>0, <3>1 DEF StepsLeft, AtNext, n
        <3> QED
            BY <1>0, <1>2, <2>0, <3>2, <3>3, <3>4
    <2> QED
        BY <1>4, <2>1, <2>2, <2>3
\* It has come to the end of its list, or to its own end.
<1>5. CASE pc'[c] \in {"insert", "commit", "done", "refused", "failed"}
    <2>1. \/ pc[c] = "next"
          \/ pc[c] = "assign" /\ pc'[c] = "failed"
          \/ pc[c] = "insert" /\ pc'[c] = "commit"
          \/ pc[c] \in {"commit", "revoke"} /\ pc'[c] = "done"
        BY <1>0, <1>5 DEF Handle, Assign, AliasFound, AliasMissing, ListNames, InsertAlias, CandidateTaken,
           OwnerGone, Grant, Accept, Reject, Scan, ScanFails, InsertSnapshot, CommitSnapshot, Revoke, Goto
    <2>2. StepsLeft(c)' = IF pc'[c] = "insert" THEN 2 ELSE IF pc'[c] = "commit" THEN 1 ELSE 0
        BY <1>5 DEF StepsLeft
    <2>3. CASE pc[c] = "assign"
        <3>1. StepsLeft(c) = AtNext(n - 1) + Cardinality(left[c]) /\ Cardinality(left[c]) \in 1..Pool + 1
            BY <2>3 DEF StepsLeft, FewLeft, n
        <3>2. AtNext(n - 1) \in Nat /\ AtNext(n - 1) >= 3
            BY <1>0, <1>2, <2>3
        <3> QED
            BY <1>0, <2>1, <2>2, <2>3, <3>1, <3>2
    <2>4. CASE pc[c] # "assign"
        <3>1. StepsLeft(c) = CASE pc[c] = "next" -> AtNext(n) [] pc[c] = "insert" -> 2
                               [] pc[c] \in {"commit", "revoke"} -> 1
            BY <2>1, <2>4 DEF StepsLeft, n
        <3> QED
            BY <1>2, <2>1, <2>2, <2>4, <3>1
    <2> QED
        BY <2>3, <2>4
<1>6. CASE AliasFound(c) \/ InsertAlias(c) \/ Reject(c)
    <2>1. /\ pc[c] \in {"next", "lookup", "assign"} /\ todo[c] # <<>>
          /\ pc'[c] = "next" /\ todo'[c] = Tail(todo[c])
        BY <1>0, <1>6 DEF AliasFound, InsertAlias, Reject, Grant, Goto
    <2> QED
        BY <1>3, <2>1
<1>7. CASE OwnerGone(c) \/ (\E clean \in BOOLEAN : Scan(c, clean)) \/ ScanFails(c)
              \/ InsertSnapshot(c) \/ CommitSnapshot(c) \/ Revoke(c)
    <2>1. pc'[c] \in {"insert", "commit", "done", "refused", "failed"}
        BY <1>0, <1>7 DEF OwnerGone, Scan, ScanFails, InsertSnapshot, CommitSnapshot, Revoke, Goto
    <2> QED
        BY <1>5, <2>1
<1> QED
    BY <1>4, <1>6, <1>7 DEF Handle, Assign

LEMMA StepsLeftType ==
    Inv /\ FewLeft => \A c \in Calls : StepsLeft(c) \in Nat
<1> SUFFICES ASSUME Inv, FewLeft, NEW c \in Calls PROVE StepsLeft(c) \in Nat
    OBVIOUS
<1> DEFINE n == Len(todo[c])
<1>1. /\ n \in Nat /\ MaxAssets \in Nat
      /\ pc[c] = "assign" => n - 1 \in Nat /\ Cardinality(left[c]) \in Nat
    <2>1. todo[c] \in Seq(Assets) /\ (pc[c] = "assign" => todo[c] # <<>>)
        BY DEF Inv, Shape, Occupied
    <2>2. n \in Nat /\ (todo[c] # <<>> => n # 0)
        BY <2>1, EmptySeq
    <2>3. pc[c] = "assign" => Cardinality(left[c]) \in Nat
        BY PoolAssumption DEF FewLeft, PoolAssumption
    <2> QED
        BY <2>1, <2>2, <2>3, DemoAssumption DEF DemoAssumption
<1> HIDE DEF n
<1>2. /\ AtNext(MaxAssets) + 1 \in Nat
      /\ AtNext(n) \in Nat /\ AtNext(n) - 1 \in Nat /\ AtNext(n) - 2 \in Nat
      /\ pc[c] = "assign" => AtNext(n - 1) + Cardinality(left[c]) \in Nat
    <2>1. /\ AtNext(MaxAssets) \in Nat /\ AtNext(n) \in Nat /\ AtNext(n) >= 3
          /\ pc[c] = "assign" => AtNext(n - 1) \in Nat
        BY <1>1, AtNextGrows
    <2> QED
        BY <1>1, <2>1
<1> QED
    BY <1>2 DEF StepsLeft, n

\* Every preview, publication and revocation ends: a request for n assets takes
\* at most n * (Pool + 4) + 4 steps, its arrival among them, however many calls
\* compete for the names; each of its steps brings its end nearer and nobody
\* else's sends it back.
THEOREM DemoCallsEnd == Spec => HandlersAdvance
<1>1. Init => FewLeft
    BY DEF Init, FewLeft
<1>2. ASSUME Inv, Inv', FewLeft, FewLeft', [Next]_vars, NEW c \in Calls,
             StepsLeft(c) \in Nat, StepsLeft(c)' \in Nat
      PROVE  /\ StepsLeft(c)' <= StepsLeft(c)
             /\ Arrive(c) \/ Handle(c) => StepsLeft(c)' < StepsLeft(c)
    <2>1. Arrive(c) \/ Handle(c) => StepsLeft(c)' < StepsLeft(c)
        BY <1>2, OwnArrival, OwnStep
    <2>2. ASSUME pc'[c] = pc[c], todo'[c] = todo[c], left'[c] = left[c]
          PROVE  StepsLeft(c)' = StepsLeft(c)
        BY <2>2 DEF StepsLeft, AtNext
    <2>3. ASSUME NEW d \in Calls \ {c}, Arrive(d) \/ Handle(d)
          PROVE  StepsLeft(c)' = StepsLeft(c)
        BY <1>2, <2>2, <2>3, OthersWait
    <2>4. CASE Crash
        <3>1. /\ pc'[c] = IF pc[c] \in Working THEN "dead" ELSE pc[c]
              /\ todo'[c] = todo[c] /\ left'[c] = left[c]
            BY <2>4 DEF Crash
        <3>2. CASE pc[c] \in Working
            <4>1. StepsLeft(c)' = 0
                BY <3>1, <3>2 DEF StepsLeft
            <4> QED
                BY <1>2, <2>1, <4>1
        <3>3. CASE pc[c] \notin Working
            BY <1>2, <2>1, <2>2, <3>1, <3>3
        <3> QED
            BY <3>2, <3>3
    <2>5. CASE UNCHANGED <<pc, todo, left>>
        BY <1>2, <2>1, <2>2, <2>5
    <2>6. \/ \E d \in Calls : Arrive(d) \/ Handle(d)
          \/ Crash
          \/ UNCHANGED <<pc, todo, left>>
        BY <1>2 DEF Next, Remove, Restart, vars, identities
    <2> QED
        BY <1>2, <2>1, <2>3, <2>4, <2>5, <2>6
<1>3. Inv /\ Inv' /\ FewLeft /\ FewLeft' /\ [Next]_vars
        /\ (\A c \in Calls : StepsLeft(c) \in Nat) /\ (\A c \in Calls : StepsLeft(c) \in Nat)'
        => [\A c \in Calls : /\ StepsLeft(c)' <= StepsLeft(c)
                             /\ Arrive(c) \/ Handle(c) => StepsLeft(c)' < StepsLeft(c)]_vars
    BY <1>2
<1> QED
    BY <1>1, <1>3, FewLeftStep, StepsLeftType, PublicationsInvariance, PTL DEF Spec, HandlersAdvance
=============================================================================
