---------------------------- MODULE LimiterProofs ----------------------------
(***************************************************************************)
(* What LeadIntake promises of its limiter, for any requests, addresses,   *)
(* window and limits: the count of a check that overlaps with no other is  *)
(* right although nothing is locked, its sweep cannot fail and leaves only *)
(* what it must, and every request comes to its end.                       *)
(***************************************************************************)
EXTENDS IntakeProofs, FiniteSetTheorems

\* Lists and the dictionary are finite, as they grow by one at a time.
Finite ==
    /\ \A a \in Addresses : IsFiniteSet(recent[a])
    /\ \A r \in Requests : IsFiniteSet(seen[r])
    /\ IsFiniteSet(admitted) /\ IsFiniteSet(Tracked)

\* A check that has overlapped with none is the only one there is.
Sole == \A x, y \in Checking : alone[x] => x = y

\* A request is admitted when its check has counted, not before.
AdmittedCounted == \A x \in admitted : pc[x] \notin {"new", "read", "pop", "count"}

Times == \A x \in Requests : at[x] <= clock

\* An entry that is out of the window that ends at t.
Missed(x, t) == t - at[x] >= Window

\* What is admitted without an overlap stays listed until it is out of the
\* window: in the dictionary and in every list that is still to be counted
\* or written back.
StaysListed(x) ==
    /\ x \in recent[from[x]] \/ Missed(x, clock)
    /\ \A y \in Requests :
          /\ pc[y] \in {"pop", "count"} /\ from[y] = from[x] => x \in seen[y] \/ Missed(x, at[y])
          /\ pc[y] = "write" /\ visit[y] = from[x] => x \in seen[y] \/ Missed(x, clock)
Listed == \A x \in admitted : alone[x] => StaysListed(x)

PopsNothing == \A y \in Requests : pc[y] = "pop" => seen[y] = {}

\* The sweep of a check that overlaps with none: what it has still to visit
\* is there, and what it has visited is recent.
RecentEnough(a, r) == \E x \in recent[a] : at[r] - at[x] < Window
SweepGoesRight(r) ==
    /\ todo[r] \subseteq Tracked
    /\ pc[r] = "write" => /\ visit[r] \in Tracked /\ visit[r] \notin todo[r]
                          /\ \A x \in seen[r] : at[r] - at[x] < Window
    /\ \A a \in Tracked : \/ a \in todo[r]
                          \/ pc[r] = "write" /\ a = visit[r]
                          \/ RecentEnough(a, r)
Sweeps == \A r \in Requests : alone[r] /\ pc[r] \in {"sweep", "write"} => SweepGoesRight(r)

Count == Finite /\ Sole /\ AdmittedCounted /\ Times /\ Listed /\ PopsNothing /\ LimitHolds
Limits == Count /\ Sweeps /\ OnlyRacesFail

-----------------------------------------------------------------------------

LEMMA InitLimits == Init => Limits
  <1> SUFFICES ASSUME Init PROVE Limits
    OBVIOUS
  <1> USE LimitsAssumption, FS_EmptySet DEF Init
  <1>1. Finite
    <2>1. Tracked = {}
      BY DEF Tracked
    <2>2. QED
      BY <2>1 DEF Finite
  <1>2. Sole /\ AdmittedCounted /\ Times /\ Listed /\ PopsNothing
    BY DEF Sole, Checking, AdmittedCounted, Times, Listed, PopsNothing
  <1>3. LimitHolds /\ Sweeps /\ OnlyRacesFail
    BY DEF LimitHolds, Admitted, Sweeps, OnlyRacesFail
  <1>4. QED
    BY <1>1, <1>2, <1>3 DEF Limits, Count

\* The limit goes on to hold when nothing is admitted.
LEMMA NothingAdmitted ==
  ASSUME Inv, Finite, LimitHolds, admitted' \subseteq admitted, UNCHANGED from,
         \A x \in admitted' : at'[x] = at[x] /\ (alone'[x] => alone[x])
  PROVE  LimitHolds'
  <1> SUFFICES ASSUME NEW a \in Addresses, NEW first \in Admitted(a)'
               PROVE  Cardinality({r \in Admitted(a)' : at'[r] \in at'[first]..(at'[first] + Window - 1)})
                        <= MaxRequests
    BY DEF LimitHolds
  <1> DEFINE new == {r \in Admitted(a)' : at'[r] \in at'[first]..(at'[first] + Window - 1)}
             old == {r \in Admitted(a) : at[r] \in at[first]..(at[first] + Window - 1)}
  <1>1. first \in Admitted(a) /\ new \in SUBSET old
    BY DEF Admitted
  <1>2. IsFiniteSet(old)
    <2>1. old \in SUBSET admitted
      BY DEF Admitted
    <2>2. QED
      BY <2>1, FS_Subset DEF Finite
  <1>3. Cardinality(old) <= MaxRequests
    BY <1>1 DEF LimitHolds
  <1>4. Cardinality(new) <= Cardinality(old) /\ IsFiniteSet(new)
    <2> HIDE DEF new, old
    <2>1. QED
      BY <1>1, <1>2, FS_Subset
  <1> HIDE DEF new, old
  <1>5. Cardinality(new) \in Nat /\ Cardinality(old) \in Nat
    BY <1>2, <1>4, FS_CardinalityType
  <1>6. Cardinality(new) <= MaxRequests
    BY <1>3, <1>4, <1>5, LimitsAssumption DEF LimitsAssumption
  <1>7. QED
    BY <1>6 DEF new

\* A step outside of the limiter, or the one that leaves it.
LEMMA ElsewhereStep ==
  ASSUME Inv, Limits, UNCHANGED checkVars, clock <= clock', clock' \in Nat,
         \A r \in Requests : pc'[r] # pc[r] =>
            /\ pc'[r] \in {"read", "over", "ignored", "store", "notify", "record", "done"}
            /\ pc'[r] = "read" => pc[r] = "new"
  PROVE  Limits'
  <1> USE LimitsAssumption DEF Inv, TypeOK, checkVars, Limits, Count
  <1>1. Checking' \subseteq Checking
    BY DEF Checking
  <1>2. Finite'
    BY DEF Finite, Tracked
  <1>3. Sole' /\ AdmittedCounted' /\ Times' /\ PopsNothing'
    BY <1>1 DEF Sole, AdmittedCounted, Times, PopsNothing
  <1>4. Listed'
    <2> SUFFICES ASSUME NEW x \in admitted, alone[x]
                 PROVE  StaysListed(x)'
      BY DEF Listed
    <2>1. StaysListed(x)
      BY DEF Listed
    <2>2. QED
      BY <1>1, <2>1 DEF StaysListed, Missed
  <1>5. LimitHolds'
    BY NothingAdmitted
  <1>6. Sweeps'
    <2> SUFFICES ASSUME NEW r \in Requests, alone[r], pc'[r] \in {"sweep", "write"}
                 PROVE  SweepGoesRight(r)'
      BY DEF Sweeps
    <2>1. SweepGoesRight(r) /\ pc'[r] = pc[r]
      BY DEF Sweeps
    <2>2. QED
      BY <2>1 DEF SweepGoesRight, RecentEnough, Tracked
  <1>7. OnlyRacesFail'
    BY DEF OnlyRacesFail
  <1>8. QED
    BY <1>2, <1>3, <1>4, <1>5, <1>6, <1>7

LEMMA ReadStep ==
  ASSUME Inv, Limits, NEW r \in Requests, ReadRecent(r)
  PROVE  Limits'
  <1> USE LimitsAssumption DEF Inv, TypeOK, Limits, Count
  <1>1. /\ pc[r] = "read" /\ clock \in Nat
        /\ pc'[r] \in {"pop", "count"} /\ (pc'[r] = "pop" <=> seen'[r] = {})
        /\ at'[r] = clock /\ seen'[r] = Fresh(recent[from[r]], clock)
        /\ \A x \in Requests \ {r} : pc'[x] = pc[x] /\ at'[x] = at[x] /\ seen'[x] = seen[x]
        /\ UNCHANGED <<clock, recent, from, todo, visit, admitted>>
    BY DEF ReadRecent, Goto
  <1>2. Checking' = Checking \cup {r} /\ r \notin Checking
    BY <1>1 DEF Checking
  <1>3. \A x \in Requests : alone'[x] = IF x \in Checking \cup {r} THEN Checking = {} ELSE alone[x]
    BY DEF ReadRecent
  <1>4. r \notin admitted
    BY <1>1 DEF AdmittedCounted
  <1>5. Finite'
    <2>1. IsFiniteSet(Fresh(recent[from[r]], clock))
      BY FS_Subset DEF Finite, Fresh
    <2>2. QED
      BY <1>1, <2>1 DEF Finite, Tracked
  <1>6. Sole' /\ AdmittedCounted' /\ Times' /\ PopsNothing'
    <2>1. \A x \in Checking' : x \in Requests /\ (alone'[x] => Checking' = {r})
      BY <1>2, <1>3 DEF Checking
    <2>2. Sole'
      BY <2>1 DEF Sole
    <2>3. AdmittedCounted'
      BY <1>1, <1>4 DEF AdmittedCounted
    <2>4. Times' /\ PopsNothing'
      BY <1>1 DEF Times, PopsNothing
    <2>5. QED
      BY <2>2, <2>3, <2>4
  <1>7. Listed'
    <2> SUFFICES ASSUME NEW x \in admitted, alone'[x]
                 PROVE  StaysListed(x)'
      BY <1>1 DEF Listed
    <2>1. x # r /\ alone[x] /\ at'[x] = at[x] /\ at[x] <= clock
      BY <1>1, <1>3, <1>4 DEF Times
    <2>2. StaysListed(x)
      BY <2>1 DEF Listed
    <2>3. x \in recent[from[x]] \/ Missed(x, clock)
      BY <2>2 DEF StaysListed
    <2>4. from[r] = from[x] => x \in seen'[r] \/ Missed(x, clock)
      BY <1>1, <2>3 DEF Fresh, Missed
    <2>5. \A y \in Requests :
             /\ pc'[y] \in {"pop", "count"} /\ from[y] = from[x] => x \in seen'[y] \/ at'[y] - at'[x] >= Window
             /\ pc'[y] = "write" /\ visit[y] = from[x] => x \in seen'[y] \/ clock - at'[x] >= Window
      BY <1>1, <2>1, <2>2, <2>4 DEF StaysListed, Missed
    <2>6. QED
      BY <1>1, <2>1, <2>3, <2>5 DEF StaysListed, Missed
  <1>8. LimitHolds'
    BY <1>1, <1>3, <1>4, NothingAdmitted
  <1>9. Sweeps' /\ OnlyRacesFail'
    <2>1. ASSUME NEW z \in Requests, alone'[z], pc'[z] \in {"sweep", "write"}
          PROVE  FALSE
      <3>1. z # r /\ pc[z] = pc'[z]
        BY <1>1, <2>1
      <3>2. z \in Checking
        BY <2>1, <3>1 DEF Checking
      <3>3. QED
        BY <1>3, <2>1, <3>2
    <2>2. ASSUME NEW z \in Requests, pc'[z] = "broken"
          PROVE  ~alone'[z]
      <3>1. z # r /\ pc[z] = "broken"
        BY <1>1, <2>2
      <3>2. z \notin Checking
        BY <3>1 DEF Checking
      <3>3. QED
        BY <1>3, <3>1, <3>2 DEF OnlyRacesFail
    <2>3. QED
      BY <2>1, <2>2 DEF Sweeps, OnlyRacesFail
  <1>10. QED
    BY <1>5, <1>6, <1>7, <1>8, <1>9

\* A step of a check that is under way, which admits nothing: what has to be
\* seen of it.
LEMMA UnderWay ==
  ASSUME Inv, Limits, NEW r \in Checking,
         NEW l \in {"count", "over", "sweep", "write", "store", "broken"}, pc' = [pc EXCEPT ![r] = l],
         l = "count" => seen'[r] = seen[r] /\ pc[r] = "pop",
         UNCHANGED <<clock, from, at, alone, admitted>>,
         \A x \in Requests \ {r} : seen'[x] = seen[x] /\ todo'[x] = todo[x] /\ visit'[x] = visit[x],
         Finite',
         \A x \in admitted : alone[x] => x \in recent'[from[x]] \/ Missed(x, clock),
         l = "write" => \A x \in admitted : alone[x] /\ visit'[r] = from[x]
                                            => x \in seen'[r] \/ Missed(x, clock),
         alone[r] /\ l \in {"sweep", "write"} => SweepGoesRight(r)',
         alone[r] => l # "broken"
  PROVE  Limits'
  <1> USE LimitsAssumption DEF Inv, TypeOK, Limits, Count
  <1>1. Checking' \subseteq Checking /\ r \in Requests
    BY DEF Checking
  <1>2. Sole' /\ AdmittedCounted' /\ Times' /\ PopsNothing'
    BY <1>1 DEF Sole, AdmittedCounted, Times, PopsNothing, Checking
  <1>3. Listed'
    <2> SUFFICES ASSUME NEW x \in admitted, alone[x]
                 PROVE  StaysListed(x)'
      BY DEF Listed
    <2>1. StaysListed(x)
      BY DEF Listed
    <2>2. \A y \in Requests :
             /\ pc'[y] \in {"pop", "count"} /\ from[y] = from[x] => x \in seen'[y] \/ Missed(x, at[y])
             /\ pc'[y] = "write" /\ visit'[y] = from[x] => x \in seen'[y] \/ Missed(x, clock)
      BY <2>1, <1>1 DEF StaysListed
    <2>3. QED
      BY <2>2 DEF StaysListed, Missed
  <1>4. LimitHolds'
    BY NothingAdmitted
  <1>5. Sweeps'
    <2> SUFFICES ASSUME NEW z \in Requests, alone[z], pc'[z] \in {"sweep", "write"}
                 PROVE  SweepGoesRight(z)'
      BY DEF Sweeps
    <2>1. z \in Checking
      BY <1>1 DEF Checking
    <2>2. z = r
      BY <2>1 DEF Sole
    <2>3. QED
      BY <1>1, <2>2
  <1>6. OnlyRacesFail'
    BY <1>1 DEF OnlyRacesFail
  <1>7. QED
    BY <1>2, <1>3, <1>4, <1>5, <1>6

LEMMA PopStep ==
  ASSUME Inv, Limits, NEW r \in Requests, PopOwn(r)
  PROVE  Limits'
  <1> USE LimitsAssumption DEF Inv, TypeOK, Limits, Count
  <1>1. /\ r \in Checking /\ pc[r] = "pop" /\ seen[r] = {}
        /\ pc' = [pc EXCEPT ![r] = "count"]
        /\ recent' = [recent EXCEPT ![from[r]] = {}]
        /\ UNCHANGED <<clock, from, at, seen, todo, visit, alone, admitted>>
    BY DEF PopOwn, Goto, Checking, PopsNothing
  <1>2. Finite'
    <2>1. Tracked' \in SUBSET Tracked
      BY <1>1 DEF Tracked
    <2>2. QED
      BY <1>1, <2>1, FS_EmptySet, FS_Subset DEF Finite
  <1>3. \A x \in admitted : alone[x] => x \in recent'[from[x]] \/ Missed(x, clock)
    <2> SUFFICES ASSUME NEW x \in admitted, alone[x]
                 PROVE  x \in recent'[from[x]] \/ Missed(x, clock)
      OBVIOUS
    <2>1. StaysListed(x)
      BY DEF Listed
    <2>2. from[x] = from[r] => Missed(x, at[r])
      BY <1>1, <2>1 DEF StaysListed
    <2>3. Missed(x, at[r]) => Missed(x, clock)
      BY DEF Missed, Times
    <2>4. QED
      BY <1>1, <2>1, <2>2, <2>3 DEF StaysListed
  <1>4. QED
    BY <1>1, <1>2, <1>3, UnderWay

LEMMA RefuseStep ==
  ASSUME Inv, Limits, NEW r \in Requests, RefuseLimit(r)
  PROVE  Limits'
  <1> USE LimitsAssumption DEF Inv, TypeOK, Limits, Count
  <1>1. /\ r \in Checking
        /\ pc' = [pc EXCEPT ![r] = "over"]
        /\ seen' = [seen EXCEPT ![r] = {}]
        /\ UNCHANGED <<clock, recent, from, at, todo, visit, alone, admitted>>
    BY DEF RefuseLimit, Goto, Checking
  <1>2. Finite'
    BY <1>1, FS_EmptySet DEF Finite, Tracked
  <1>3. \A x \in admitted : alone[x] => x \in recent'[from[x]] \/ Missed(x, clock)
    BY <1>1 DEF Listed, StaysListed
  <1>4. QED
    BY <1>1, <1>2, <1>3, UnderWay

LEMMA StartSweepStep ==
  ASSUME Inv, Limits, NEW r \in Requests, StartSweep(r)
  PROVE  Limits'
  <1> USE LimitsAssumption DEF Inv, TypeOK, Limits, Count
  <1>1. /\ r \in Checking
        /\ pc' = [pc EXCEPT ![r] = "sweep"]
        /\ todo' = [todo EXCEPT ![r] = Tracked]
        /\ UNCHANGED <<clock, recent, from, at, seen, visit, alone, admitted>>
    BY DEF StartSweep, Goto, Checking
  <1>2. Finite'
    BY <1>1 DEF Finite, Tracked
  <1>3. \A x \in admitted : alone[x] => x \in recent'[from[x]] \/ Missed(x, clock)
    BY <1>1 DEF Listed, StaysListed
  <1>4. SweepGoesRight(r)'
    <2>1. todo'[r] = Tracked /\ Tracked' = Tracked /\ pc'[r] = "sweep"
      BY <1>1 DEF Tracked
    <2>2. QED
      BY <2>1 DEF SweepGoesRight
  <1>5. QED
    BY <1>1, <1>2, <1>3, <1>4, UnderWay

LEMMA SweepReadStep ==
  ASSUME Inv, Limits, NEW r \in Requests, NEW a \in Addresses, SweepRead(r, a)
  PROVE  Limits'
  <1> USE LimitsAssumption DEF Inv, TypeOK, Limits, Count
  <1>1. /\ r \in Checking /\ pc[r] = "sweep" /\ a \in todo[r]
        /\ todo' = [todo EXCEPT ![r] = @ \ {a}]
        /\ UNCHANGED <<clock, recent, from, at, alone, admitted>>
    BY DEF SweepRead, Checking
  <1>2. \A x \in admitted : alone[x] => x \in recent'[from[x]] \/ Missed(x, clock)
    BY <1>1 DEF Listed, StaysListed
  <1>3. alone[r] => SweepGoesRight(r)
    BY <1>1 DEF Sweeps
  <1>4. CASE a \in Tracked
    <2>1. /\ seen' = [seen EXCEPT ![r] = Fresh(recent[a], at[r])]
          /\ visit' = [visit EXCEPT ![r] = a]
          /\ pc' = [pc EXCEPT ![r] = "write"]
      BY <1>4 DEF SweepRead, Goto
    <2>2. Finite'
      <3>1. IsFiniteSet(Fresh(recent[a], at[r]))
        BY FS_Subset DEF Finite, Fresh
      <3>2. QED
        BY <1>1, <2>1, <3>1 DEF Finite, Tracked
    <2>3. \A x \in admitted : alone[x] /\ a = from[x] => x \in seen'[r] \/ Missed(x, clock)
      BY <1>1, <1>2, <2>1 DEF Fresh, Missed, Times
    <2>4. alone[r] => SweepGoesRight(r)'
      <3> SUFFICES ASSUME alone[r] PROVE SweepGoesRight(r)'
        OBVIOUS
      <3>1. Tracked' = Tracked /\ pc'[r] = "write" /\ visit'[r] = a /\ todo'[r] = todo[r] \ {a}
        BY <1>1, <2>1 DEF Tracked
      <3>2. \A x \in seen'[r] : at'[r] - at'[x] < Window
        BY <1>1, <2>1 DEF Fresh
      <3>3. \A b \in Tracked : RecentEnough(b, r)' = RecentEnough(b, r)
        BY <1>1 DEF RecentEnough
      <3>4. QED
        BY <1>1, <1>3, <1>4, <3>1, <3>2, <3>3 DEF SweepGoesRight
    <2>5. QED
      BY <1>1, <1>2, <2>1, <2>2, <2>3, <2>4, UnderWay
  <1>5. CASE a \notin Tracked
    <2>1. pc' = [pc EXCEPT ![r] = "broken"] /\ UNCHANGED <<seen, visit>>
      BY <1>5 DEF SweepRead, Goto
    <2>2. Finite'
      BY <1>1, <2>1 DEF Finite, Tracked
    <2>3. ~alone[r]
      BY <1>1, <1>3, <1>5 DEF SweepGoesRight
    <2>4. QED
      BY <1>1, <1>2, <2>1, <2>2, <2>3, UnderWay
  <1>6. QED
    BY <1>4, <1>5

LEMMA SweepWriteStep ==
  ASSUME Inv, Limits, NEW r \in Requests, SweepWrite(r)
  PROVE  /\ Limits'
         /\ alone[r] /\ pc'[r] = "store" => \A a \in Tracked' : RecentEnough(a, r)'
  <1> USE LimitsAssumption DEF Inv, TypeOK, Limits, Count
  <1> DEFINE a == visit[r]
  <1>1. /\ r \in Checking /\ pc[r] = "write" /\ a \in Addresses
        /\ recent' = [recent EXCEPT ![a] = seen[r]]
        /\ seen' = [seen EXCEPT ![r] = {}]
        /\ visit' = [visit EXCEPT ![r] = from[r]]
        /\ UNCHANGED <<clock, from, at, todo, alone, admitted>>
    BY DEF SweepWrite, Checking
  <1>2. PICK l \in {"sweep", "store", "broken"} :
          /\ pc' = [pc EXCEPT ![r] = l]
          /\ l = "broken" => seen[r] = {} /\ a \notin Tracked
          /\ l = "store" => todo[r] = {}
    BY DEF SweepWrite, Goto, AfterSweepStep
  <1>3. \A x \in admitted : alone[x] => x \in recent'[from[x]] \/ Missed(x, clock)
    BY <1>1 DEF Listed, StaysListed
  <1>4. Finite'
    <2>1. Tracked' \in SUBSET (Tracked \cup {a})
      BY <1>1 DEF Tracked
    <2>2. IsFiniteSet(Tracked')
      <3> HIDE DEF a
      <3>1. IsFiniteSet(Tracked \cup {a})
        BY FS_AddElement DEF Finite
      <3>2. QED
        BY <2>1, <3>1, FS_Subset
    <2>3. \A b \in Addresses : IsFiniteSet(recent'[b])
      BY <1>1 DEF Finite
    <2>4. \A x \in Requests : IsFiniteSet(seen'[x])
      BY <1>1, FS_EmptySet DEF Finite
    <2>5. QED
      BY <1>1, <2>2, <2>3, <2>4 DEF Finite
  <1>5. alone[r] => SweepGoesRight(r)
    BY <1>1 DEF Sweeps
  <1>6. alone[r] => /\ todo[r] \subseteq Tracked'
                    /\ \A b \in Tracked' : b \in todo[r] \/ RecentEnough(b, r)'
    <2> SUFFICES ASSUME alone[r]
                 PROVE  /\ todo[r] \subseteq Tracked'
                        /\ \A b \in Tracked' : b \in todo[r] \/ RecentEnough(b, r)'
      OBVIOUS
    <2>1. todo[r] \subseteq Tracked'
      BY <1>1, <1>5 DEF SweepGoesRight, Tracked
    <2>2. ASSUME NEW b \in Tracked'
          PROVE  b \in todo[r] \/ RecentEnough(b, r)'
      <3>1. CASE b = a
        BY <1>1, <1>5, <3>1 DEF SweepGoesRight, RecentEnough, Tracked
      <3>2. CASE b # a
        BY <1>1, <1>5, <3>2 DEF SweepGoesRight, RecentEnough, Tracked
      <3>3. QED
        BY <3>1, <3>2
    <2>3. QED
      BY <2>1, <2>2
  <1>7. alone[r] /\ l = "sweep" => SweepGoesRight(r)'
    BY <1>1, <1>2, <1>6 DEF SweepGoesRight
  <1>8. alone[r] => l # "broken"
    BY <1>1, <1>2, <1>5 DEF SweepGoesRight
  <1>9. Limits'
    BY <1>1, <1>2, <1>3, <1>4, <1>7, <1>8, UnderWay
  <1>10. alone[r] /\ pc'[r] = "store" => \A b \in Tracked' : RecentEnough(b, r)'
    BY <1>2, <1>6
  <1>11. QED
    BY <1>9, <1>10
\* The count of a check that overlaps with none misses nothing inside the
\* window, so that the request it admits is within the limit.
LEMMA AppendStep ==
  ASSUME Inv, Limits, NEW r \in Requests, Append(r)
  PROVE  Limits'
  <1> USE LimitsAssumption DEF Inv, TypeOK, Limits, Count
  <1>1. /\ r \in Checking /\ pc[r] = "count"
        /\ pc' = [pc EXCEPT ![r] = "size"]
        /\ recent' = [recent EXCEPT ![from[r]] = seen[r] \cup {r}]
        /\ admitted' = admitted \cup {r}
        /\ seen' = [seen EXCEPT ![r] = {}]
        /\ UNCHANGED <<clock, from, at, todo, visit, alone>>
    BY DEF Append, Goto, Checking
  <1>2. Checking' = Checking /\ Checking \subseteq Requests
    BY <1>1 DEF Checking
  <1>3. IsFiniteSet(seen[r]) /\ Cardinality(seen[r]) \in Nat /\ Cardinality(seen[r]) < MaxRequests
    <2>1. IsFiniteSet(seen[r])
      BY DEF Finite
    <2>2. Cardinality(seen[r]) \in Nat
      BY <2>1, FS_CardinalityType
    <2>3. QED
      BY <2>1, <2>2 DEF Append, OverLimit
  <1>4. IsFiniteSet(seen[r] \cup {r}) /\ Cardinality(seen[r] \cup {r}) \in Nat
        /\ Cardinality(seen[r] \cup {r}) <= MaxRequests
    <2>1. /\ IsFiniteSet(seen[r] \cup {r})
          /\ Cardinality(seen[r] \cup {r}) \in {Cardinality(seen[r]), Cardinality(seen[r]) + 1}
      <3> DEFINE list == seen[r]
      <3>1. IsFiniteSet(list)
        BY <1>3
      <3> HIDE DEF list
      <3>2. /\ IsFiniteSet(list \cup {r})
            /\ Cardinality(list \cup {r}) \in {Cardinality(list), Cardinality(list) + 1}
        BY <3>1, FS_AddElement
      <3>3. QED
        BY <3>2 DEF list
    <2>2. QED
      BY <1>3, <2>1
  <1>5. Finite'
    <2>1. IsFiniteSet(Tracked')
      <3>1. IsFiniteSet(Tracked \cup {from[r]})
        BY FS_AddElement DEF Finite
      <3>2. Tracked' \in SUBSET (Tracked \cup {from[r]})
        BY <1>1 DEF Tracked
      <3>3. QED
        BY <3>1, <3>2, FS_Subset
    <2>2. IsFiniteSet(admitted')
      BY <1>1, FS_AddElement DEF Finite
    <2>3. \A a \in Addresses : IsFiniteSet(recent'[a])
      BY <1>1, <1>4 DEF Finite
    <2>4. \A x \in Requests : IsFiniteSet(seen'[x])
      BY <1>1, FS_EmptySet DEF Finite
    <2>5. QED
      BY <2>1, <2>2, <2>3, <2>4 DEF Finite
  <1>6. Sole' /\ AdmittedCounted' /\ Times' /\ PopsNothing'
    BY <1>1, <1>2 DEF Sole, AdmittedCounted, Times, PopsNothing
  <1>7. Listed'
    <2>1. ASSUME alone[r] PROVE StaysListed(r)'
      <3>1. \A y \in Requests : pc'[y] \notin {"pop", "count", "write"}
        BY <1>1, <2>1 DEF Sole, Checking
      <3>2. QED
        BY <1>1, <3>1 DEF StaysListed
    <2>2. ASSUME NEW x \in admitted \ {r}, alone[x] PROVE StaysListed(x)'
      <3>1. StaysListed(x)
        BY <2>2 DEF Listed
      <3>2. from[x] = from[r] => x \in seen[r] \/ Missed(x, clock)
        BY <1>1, <3>1 DEF StaysListed, Missed, Times
      <3>3. x \in recent'[from[x]] \/ Missed(x, clock)
        BY <1>1, <3>1, <3>2 DEF StaysListed
      <3>4. QED
        BY <1>1, <3>1, <3>3 DEF StaysListed, Missed
    <2>3. QED
      BY <1>1, <2>1, <2>2 DEF Listed
  <1>8. LimitHolds'
    <2> SUFFICES ASSUME NEW a \in Addresses, NEW first \in Admitted(a)'
                 PROVE  Cardinality({x \in Admitted(a)' : at'[x] \in at'[first]..(at'[first] + Window - 1)})
                          <= MaxRequests
      BY DEF LimitHolds
    <2> DEFINE new == {x \in Admitted(a)' : at'[x] \in at'[first]..(at'[first] + Window - 1)}
               old == {x \in Admitted(a) : at[x] \in at[first]..(at[first] + Window - 1)}
    <2>1. \A x : x \in Admitted(a)' <=> x \in Admitted(a) \/ (x = r /\ from[r] = a /\ alone[r])
      BY <1>1 DEF Admitted
    <2>2. CASE r \notin new
      <3>1. first # r /\ first \in Admitted(a)
        BY <1>1, <2>1, <2>2 DEF Admitted
      <3>2. new = old
        BY <1>1, <2>1, <2>2
      <3>3. QED
        BY <3>1, <3>2 DEF LimitHolds
    <2>3. CASE r \in new
      <3>1. first \in Requests /\ from[r] = a /\ at[r] <= at[first] + Window - 1
        BY <1>1, <2>1, <2>3 DEF Admitted
      <3>2. ASSUME NEW x \in new, x # r PROVE x \in seen[r]
        <4>1. x \in admitted /\ alone[x] /\ from[x] = a /\ at[first] <= at[x]
          BY <1>1, <2>1, <3>1, <3>2 DEF Admitted
        <4>2. ~Missed(x, at[r])
          BY <3>1, <4>1 DEF Missed
        <4>3. QED
          BY <1>1, <3>1, <4>1, <4>2 DEF Listed, StaysListed
      <3>3. new \in SUBSET (seen[r] \cup {r})
        BY <3>2
      <3> HIDE DEF new, old
      <3>4. IsFiniteSet(new) /\ Cardinality(new) <= Cardinality(seen[r] \cup {r})
        BY <1>4, <3>3, FS_Subset
      <3>5. Cardinality(new) \in Nat
        BY <3>4, FS_CardinalityType
      <3>6. Cardinality(new) <= MaxRequests
        BY <1>4, <3>4, <3>5
      <3>7. QED
        BY <3>6 DEF new
    <2>4. QED
      BY <2>2, <2>3
  <1>9. Sweeps'
    <2> SUFFICES ASSUME NEW z \in Requests, alone[z], pc'[z] \in {"sweep", "write"}
                 PROVE  FALSE
      BY <1>1 DEF Sweeps
    <2>1. z # r /\ z \in Checking
      BY <1>1 DEF Checking
    <2>2. QED
      BY <1>1, <2>1 DEF Sole
  <1>10. OnlyRacesFail'
    BY <1>1 DEF OnlyRacesFail
  <1>11. QED
    BY <1>5, <1>6, <1>7, <1>8, <1>9, <1>10

\* A restart forgets the lists and the requests they are about.
LEMMA CrashStep ==
  ASSUME Inv, Limits, Crash
  PROVE  Limits'
  <1> USE LimitsAssumption DEF Inv, TypeOK, Limits, Count
  <1>1. /\ \A r \in Requests : pc'[r] \in Ended \cup {"new"}
                               /\ (pc'[r] = "broken" => pc[r] = "broken")
        /\ \A a \in Addresses : recent'[a] = {}
        /\ admitted' = {}
        /\ UNCHANGED <<clock, from, at, seen, todo, visit, alone>>
    BY DEF Crash, Live, Ended
  <1>2. Checking' = {} /\ Tracked' = {}
    BY <1>1 DEF Checking, Tracked, Ended
  <1>3. Finite'
    BY <1>1, <1>2, FS_EmptySet DEF Finite
  <1>4. Sole' /\ AdmittedCounted' /\ Times' /\ PopsNothing' /\ Listed'
    BY <1>1, <1>2 DEF Sole, AdmittedCounted, Times, PopsNothing, Listed, Ended
  <1>5. LimitHolds'
    BY <1>1, NothingAdmitted
  <1>6. Sweeps' /\ OnlyRacesFail'
    BY <1>1 DEF Sweeps, OnlyRacesFail, Ended
  <1>7. QED
    BY <1>3, <1>4, <1>5, <1>6

LEMMA NextLimits ==
  ASSUME Inv, Limits, [Next]_vars
  PROVE  Limits'
  <1> USE DEF Inv, TypeOK
  <1>1. CASE Tick \/ UNCHANGED vars
    <2>1. UNCHANGED <<checkVars, pc>> /\ clock <= clock' /\ clock' \in Nat
      BY <1>1, LimitsAssumption DEF Tick, vars
    <2>2. QED
      BY <2>1, ElsewhereStep
  <1>2. ASSUME NEW r \in Requests, Arrive(r) \/ NoSweep(r) \/ Refuse(r) \/ Store(r)
                                     \/ StoreFails(r) \/ Notify(r)
        PROVE  Limits'
    <2>1. UNCHANGED <<checkVars, clock>> /\ clock \in Nat
      BY <1>2 DEF Arrive, NoSweep, Refuse, Store, StoreFails, Notify, SkipSlack, NoticeBreaks,
                  Post, Record, RecordFails, noticeVars
    <2>2. \E l \in {"read", "over", "ignored", "store", "notify", "record", "done"} :
            pc' = [pc EXCEPT ![r] = l] /\ (l = "read" => pc[r] = "new")
      BY <1>2 DEF Arrive, NoSweep, Refuse, Store, StoreFails, Notify, SkipSlack, NoticeBreaks,
                  Post, Record, RecordFails, Goto
    <2>3. QED
      BY <2>1, <2>2, ElsewhereStep
  <1>3. CASE Crash
    BY <1>3, CrashStep
  <1>4. ASSUME NEW r \in Requests, Check(r), ~NoSweep(r) PROVE Limits'
    BY <1>4, ReadStep, PopStep, RefuseStep, AppendStep, StartSweepStep, SweepReadStep,
       SweepWriteStep DEF Check
  <1>5. QED
    BY <1>1, <1>2, <1>3, <1>4 DEF Next, Handle

LEMMA LimitsInvariance == Spec => [](Inv /\ Limits)
  <1>1. Init => Inv /\ Limits
    BY InitInv, InitLimits
  <1>2. Inv /\ Limits /\ [Next]_vars => (Inv /\ Limits)'
    BY NextInv, NextLimits
  <1>3. QED
    BY <1>1, <1>2, PTL DEF Spec
-----------------------------------------------------------------------------

\* A step of one request leaves the others where they are.
LEMMA OthersWait ==
  ASSUME Inv, NEW x \in Requests, Arrive(x) \/ Handle(x), NEW r \in Requests, r # x
  PROVE  pc'[r] = pc[r] /\ Progress(r)' = Progress(r)
  <1> USE DEF Inv, TypeOK, Goto, noticeVars, Progress
  <1>1. CASE Arrive(x)
    BY <1>1 DEF Arrive
  <1>2. CASE Check(x)
    BY <1>2 DEF Check, ReadRecent, PopOwn, RefuseLimit, Append, NoSweep, StartSweep, SweepRead, SweepWrite
  <1>3. CASE Refuse(x) \/ Store(x) \/ StoreFails(x)
    BY <1>3 DEF Refuse, Store, StoreFails
  <1>4. CASE Notify(x)
    BY <1>4 DEF Notify, SkipSlack, NoticeBreaks, Post, Record, RecordFails
  <1>5. QED
    BY <1>1, <1>2, <1>3, <1>4 DEF Handle

\* A check ends without a sweep, or with the sweep's last entry.
LEMMA LeavesLimiter ==
  ASSUME Inv, NEW r \in Requests, Handle(r), pc[r] \in {"size", "write"}, pc'[r] = "store"
  PROVE  NoSweep(r) \/ SweepWrite(r)
  <1> USE DEF Inv, TypeOK, Goto
  <1>1. Check(r)
    BY DEF Handle, Refuse, Store, StoreFails, Notify, SkipSlack, NoticeBreaks, Post, Record, RecordFails
  <1>2. ~StartSweep(r)
    BY DEF StartSweep
  <1>3. QED
    BY <1>1, <1>2 DEF Check, ReadRecent, PopOwn, RefuseLimit, Append, SweepRead

-----------------------------------------------------------------------------
(* Theorems *)

\* For any window, limit and number of addresses: of the requests of one
\* address whose checks overlapped with no other, no more than MaxRequests pass
\* within a window, though the list is read, counted and written back in
\* separate steps and other checks, sweeps and restarts come between.
THEOREM LimiterCounts == Spec => []LimitHolds
  <1>1. Inv /\ Limits => LimitHolds
    BY DEF Limits, Count
  <1>2. QED
    BY <1>1, LimitsInvariance, PTL

\* The KeyErrors of the limiter come from overlapping checks only.
THEOREM LimiterFailsByRace == Spec => []OnlyRacesFail
  <1>1. Inv /\ Limits => OnlyRacesFail
    BY DEF Limits
  <1>2. QED
    BY <1>1, LimitsInvariance, PTL

\* Whatever the ceiling: a check that overlapped with none leaves the dictionary
\* within it, or with nothing but addresses seen inside the window.
THEOREM LimiterSweeps == Spec => SweptWhenAlone
  <1>1. ASSUME Inv, Limits, [Next]_vars, NEW r \in Requests,
               pc[r] \in {"size", "write"}, pc'[r] = "store", alone[r]
        PROVE  \/ Cardinality(Tracked') <= MaxTracked
               \/ \A a \in Tracked' : \E x \in recent'[a] : at[r] - at[x] < Window
    <2> USE LimitsAssumption DEF Inv, TypeOK
    <2>1. Handle(r)
      <3>1. pc'[r] # pc[r] /\ ~Arrive(r)
        BY <1>1 DEF Arrive
      <3>2. ~Crash /\ ~Tick /\ ~UNCHANGED vars
        BY <1>1, <3>1 DEF Crash, Live, Ended, Tick, vars
      <3>3. QED
        BY <1>1, <3>1, <3>2, OthersWait DEF Next, Progress
    <2>2. CASE NoSweep(r)
      <3>1. Tracked' = Tracked /\ Cardinality(Tracked) \in Nat /\ ~MustSweep
        BY <1>1, <2>2, FS_CardinalityType DEF NoSweep, checkVars, Tracked, Limits, Count, Finite
      <3>2. QED
        BY <3>1 DEF MustSweep
    <2>3. CASE SweepWrite(r)
      <3>1. \A a \in Tracked' : RecentEnough(a, r)'
        BY <1>1, <2>3, SweepWriteStep
      <3>2. QED
        BY <2>3, <3>1 DEF SweepWrite, RecentEnough
    <2>4. QED
      BY <1>1, <2>1, <2>2, <2>3, LeavesLimiter
  <1>2. Inv /\ Limits /\ [Next]_vars
          => [\A r \in Requests :
                pc[r] \in {"size", "write"} /\ pc'[r] = "store" /\ alone[r]
                  => \/ Cardinality(Tracked') <= MaxTracked
                     \/ \A a \in Tracked' : \E x \in recent'[a] : at[r] - at[x] < Window]_vars
    BY <1>1
  <1>3. QED
    BY <1>2, LimitsInvariance, PTL DEF Spec, SweptWhenAlone

\* With finitely many addresses, neither the sweep of a dictionary that others
\* change nor the retries go on for ever: whatever step changes what a request
\* has come to brings its end nearer.
THEOREM RequestsAdvance ==
  ASSUME IsFiniteSet(Addresses)
  PROVE  Spec => EveryStepAdvances
  <1>1. ASSUME Inv, Inv', [Next]_vars, NEW r \in Live, Progress(r)' # Progress(r)
        PROVE  Rank(r)' < Rank(r)
    <2> USE LimitsAssumption DEF Inv, TypeOK
    <2> DEFINE A == Cardinality(Addresses)
               T == Cardinality(todo[r])
    <2>1. r \in Requests /\ pc[r] \notin Ended \cup {"new"}
      BY DEF Live
    <2>2. A \in Nat /\ T \in 0..A /\ T' \in 0..A
      <3>1. todo[r] \in SUBSET Addresses /\ todo'[r] \in SUBSET Addresses
        BY <1>1, <2>1
      <3>2. IsFiniteSet(todo[r]) /\ Cardinality(todo[r]) <= A
        BY <3>1, FS_Subset
      <3>3. IsFiniteSet(todo'[r]) /\ Cardinality(todo'[r]) <= A
        BY <3>1, FS_Subset
      <3>4. A \in Nat /\ Cardinality(todo[r]) \in Nat /\ Cardinality(todo'[r]) \in Nat
        BY <3>2, <3>3, FS_CardinalityType
      <3>5. QED
        BY <3>2, <3>3, <3>4
    <2>3. tries[r] \in 0..MaxAttempts /\ tries'[r] \in 0..MaxAttempts /\ MaxAttempts \in Nat
          /\ (pc'[r] = "notify" => tries'[r] < MaxAttempts)
      BY <1>1, <2>1 DEF Notices, Announced
    <2>4. CASE Crash
      <3>1. pc'[r] = "over"
        BY <1>1, <2>1, <2>4 DEF Crash, Live
      <3>2. QED
        BY <1>1, <2>1, <2>2, <2>3, <3>1 DEF Rank, Ended
    <2>5. CASE Tick \/ UNCHANGED vars
      BY <1>1, <2>5 DEF Tick, vars, noticeVars, Progress
    <2>6. CASE Handle(r)
      <3>1. CASE ReadRecent(r) \/ PopOwn(r) \/ RefuseLimit(r) \/ Append(r)
        <4>1. \/ pc[r] = "read" /\ pc'[r] \in {"pop", "count"}
              \/ pc[r] = "pop" /\ pc'[r] = "count"
              \/ pc[r] = "count" /\ pc'[r] \in {"over", "size"}
          BY <1>1, <2>1, <3>1 DEF ReadRecent, PopOwn, RefuseLimit, Append, Goto
        <4>2. QED
          BY <2>2, <2>3, <4>1 DEF Rank, Ended
      <3>2. CASE NoSweep(r) \/ StartSweep(r)
        <4>1. pc[r] = "size" /\ pc'[r] \in {"store", "sweep"}
          BY <1>1, <2>1, <3>2 DEF NoSweep, StartSweep, Goto
        <4>2. QED
          BY <2>2, <2>3, <4>1 DEF Rank, Ended
      <3>3. ASSUME NEW a \in Addresses, SweepRead(r, a)
            PROVE  Rank(r)' < Rank(r)
        <4>1. pc[r] = "sweep" /\ pc'[r] \in {"write", "broken"} /\ todo'[r] = todo[r] \ {a} /\ a \in todo[r]
          BY <1>1, <2>1, <3>3 DEF SweepRead, Goto
        <4>2. T' = T - 1
          <5>1. todo[r] \in SUBSET Addresses
            BY <1>1, <2>1
          <5>2. IsFiniteSet(todo[r])
            BY <5>1, FS_Subset
          <5>3. Cardinality(todo[r] \ {a}) = Cardinality(todo[r]) - 1
            BY <4>1, <5>2, FS_RemoveElement
          <5>4. QED
            BY <4>1, <5>3
        <4>3. QED
          BY <2>2, <2>3, <4>1, <4>2 DEF Rank, Ended
      <3>4. CASE SweepWrite(r)
        <4>1. pc[r] = "write" /\ pc'[r] \in {"sweep", "store", "broken"} /\ todo'[r] = todo[r]
          BY <1>1, <2>1, <3>4 DEF SweepWrite, AfterSweepStep, Goto
        <4>2. QED
          BY <2>2, <2>3, <4>1 DEF Rank, Ended
      <3>5. CASE Refuse(r) \/ Store(r) \/ StoreFails(r)
        <4>1. pc[r] = "store" /\ pc'[r] \in {"over", "notify"}
          BY <1>1, <2>1, <3>5 DEF Refuse, Store, StoreFails, Goto
        <4>2. QED
          BY <2>2, <2>3, <4>1 DEF Rank, Ended
      <3>6. CASE SkipSlack(r) \/ NoticeBreaks(r)
        <4>1. pc[r] = "notify" /\ pc'[r] = "record"
          BY <1>1, <2>1, <3>6 DEF SkipSlack, NoticeBreaks, Goto
        <4>2. QED
          BY <2>2, <2>3, <4>1 DEF Rank, Ended
      <3>7. CASE Post(r)
        <4>1. pc[r] = "notify" /\ pc'[r] \in {"record", "notify"} /\ tries'[r] = tries[r] + 1
          BY <1>1, <2>1, <3>7 DEF Post, Goto
        <4>2. QED
          BY <2>2, <2>3, <4>1 DEF Rank, Ended
      <3>8. CASE Record(r) \/ RecordFails(r)
        <4>1. pc[r] = "record" /\ pc'[r] = "done"
          BY <1>1, <2>1, <3>8 DEF Record, RecordFails, Goto
        <4>2. QED
          BY <2>2, <2>3, <4>1 DEF Rank, Ended
      <3>9. QED
        BY <2>6, <3>1, <3>2, <3>3, <3>4, <3>5, <3>6, <3>7, <3>8 DEF Handle, Check, Notify
    <2>7. ~Arrive(r)
      BY <2>1 DEF Arrive
    <2>8. QED
      BY <1>1, <2>1, <2>4, <2>5, <2>6, <2>7, OthersWait DEF Next
  <1>2. Inv /\ Inv' /\ [Next]_vars
          => [\A r \in Live : Progress(r)' # Progress(r) => Rank(r)' < Rank(r)]_vars
    BY <1>1
  <1>3. QED
    BY <1>2, Invariance, PTL DEF Spec, EveryStepAdvances
=============================================================================
