-------------------------- MODULE AssessmentProofs --------------------------
(***************************************************************************)
(* Theorems about module Assessment, for any calls, keys, endpoints, hosts *)
(* and time bounds.  Nothing is assumed of how long handlers take, except  *)
(* where a theorem says MaxHold <= Lease.                                  *)
(***************************************************************************)
EXTENDS Assessment, Counting, TLAPS

-----------------------------------------------------------------------------
(* Operators of the model                                                  *)

\* resolve_target settles on a host of the service.
LEMMA ResolvedIsHost ==
    ASSUME TypeOK, NEW ask \in Asks, Resolvable(ask)
    PROVE  Resolved(ask) \in Hosts
<1> DEFINE D == discovered[ask.target]
<1>1. D \in SUBSET Hosts /\ D # {}
    BY DEF TypeOK, Resolvable, Asks
<1>2. CASE ask.ip = AnyHost
    <2>1. D \in SUBSET Nat
        BY <1>1, InputsAssumption DEF InputsAssumption
    <2> HIDE DEF D
    <2>2. \E h \in D : \A g \in D : h <= g
        BY <2>1, <1>1, LeastExists
    <2>3. First(D) \in D
        BY <2>2 DEF First
    <2> QED
        BY <1>1, <1>2, <2>3 DEF Resolved, D
<1>3. CASE ask.ip # AnyHost
    BY <1>3 DEF Resolved, Asks
<1> QED
    BY <1>2, <1>3

\* The purge leaves rows as they are or removes them.
LEMMA PurgedType ==
    ASSUME TypeOK, NEW t
    PROVE  /\ Purged(t) \in [Keys -> Row \cup {Absent}]
           /\ \A k \in Keys : Purged(t)[k] = rows[k] \/ Purged(t)[k] = Absent
    BY DEF Purged, TypeOK

-----------------------------------------------------------------------------
(* Type correctness                                                        *)

\* What a handler knows by the time it acts.
RequestOK(c) ==
    /\ pc[c] \notin {"new", "refused"} => job[c] \in Jobs
    /\ pc[c] \in Live => host[c] \in Hosts
    /\ pc[c] \in {"reserve", "select", "release"} => Key(c) # NoKey
    /\ now[c] <= clock

\* A completed row has a body.
RowOK(k) == rows[k].state = "completed" => rows[k].body \in Calls

Base ==
    /\ TypeOK
    /\ \A c \in Calls : RequestOK(c)
    /\ \A k \in Keys : RowOK(k)

LEMMA InitBase == Init => Base
    BY InputsAssumption DEF Init, Base, TypeOK, RequestOK, RowOK, Live, Holding, Ended, Row, Absent, NoJob

LEMMA ArriveBase ==
    ASSUME Base, NEW c \in Calls, NEW k \in Keys \cup {NoKey}, NEW ask \in Asks,
           ResolveTarget(c, k, ask) \/ RefuseTarget(c, ask)
    PROVE  Base'
<1>1. CASE ResolveTarget(c, k, ask)
    <2>1. Resolved(ask) \in Hosts
        BY <1>1, ResolvedIsHost DEF Base, ResolveTarget
    <2>2. TypeOK'
        BY <1>1, <2>1 DEF Base, TypeOK, ResolveTarget, BeginAndGoto, tables, Jobs, Live, Holding, Ended
    <2>3. (\A d \in Calls : RequestOK(d))'
        BY <1>1, <2>1 DEF Base, TypeOK, ResolveTarget, BeginAndGoto, tables, RequestOK, Key, Jobs, Live, Holding
    <2>4. (\A j \in Keys : RowOK(j))'
        BY <1>1 DEF Base, ResolveTarget, tables, RowOK
    <2> QED
        BY <2>2, <2>3, <2>4 DEF Base
<1>2. CASE RefuseTarget(c, ask)
    <2>1. TypeOK'
        BY <1>2 DEF Base, TypeOK, RefuseTarget, Goto, tables, Jobs, Live, Holding, Ended
    <2>2. (\A d \in Calls : RequestOK(d))'
        BY <1>2 DEF Base, TypeOK, RefuseTarget, Goto, tables, RequestOK, Key, Jobs, Live, Holding, Ended
    <2>3. (\A j \in Keys : RowOK(j))'
        BY <1>2 DEF Base, RefuseTarget, tables, RowOK
    <2> QED
        BY <2>1, <2>2, <2>3 DEF Base
<1> QED
    BY <1>1, <1>2

LEMMA HandleBase ==
    ASSUME Base, NEW c \in Calls, Handle(c)
    PROVE  Base'
<1> USE InputsAssumption DEF InputsAssumption
<1>0. /\ pc[c] \in Live => /\ job[c] \in Jobs
                           /\ host[c] \in Hosts
                           /\ Ask(c) \in Asks
                           /\ Key(c) \in Keys \cup {NoKey}
                           /\ \A at \in now[c]..clock : AssessmentOf(c, at) \in Assessments
      /\ pc[c] \in {"reserve", "select", "release"} => Key(c) \in Keys
    BY DEF Base, TypeOK, RequestOK, Live, Holding, Jobs, Key, Ask, Asks, AssessmentOf, Assessments
<1>1. CASE ReserveInsert(c)
    <2>1. TypeOK'
        BY <1>1, <1>0 DEF Base, TypeOK, ReserveInsert, Reserved, BeginAndGoto, Purged, Reservation, Row, Absent, Live, Holding, Ended, Closings
    <2>2. (\A d \in Calls : RequestOK(d))'
        BY <1>1, <1>0 DEF Base, TypeOK, ReserveInsert, Reserved, BeginAndGoto, Purged, Reservation, RequestOK, Key, Live, Holding, Ended
    <2>3. (\A k \in Keys : RowOK(k))'
        BY <1>1, <1>0 DEF Base, TypeOK, ReserveInsert, Reserved, BeginAndGoto, Purged, Reservation, RowOK, Row, Absent, Live, Holding
    <2> QED
        BY <2>1, <2>2, <2>3 DEF Base
<1>2. CASE ReserveConflict(c)
    <2>1. TypeOK'
        BY <1>2, <1>0 DEF Base, TypeOK, ReserveConflict, BeginAndGoto, tables, Row, Absent, Live, Holding, Ended, Closings
    <2>2. (\A d \in Calls : RequestOK(d))'
        BY <1>2, <1>0 DEF Base, TypeOK, ReserveConflict, BeginAndGoto, tables, RequestOK, Key, Live, Holding, Ended
    <2>3. (\A k \in Keys : RowOK(k))'
        BY <1>2, <1>0 DEF Base, TypeOK, ReserveConflict, BeginAndGoto, tables, RowOK, Row, Absent, Live, Holding
    <2> QED
        BY <2>1, <2>2, <2>3 DEF Base
<1>3. CASE SelectGone(c)
    <2>1. TypeOK'
        BY <1>3, <1>0 DEF Base, TypeOK, SelectGone, Goto, Purged, Row, Absent, Live, Holding, Ended, Closings
    <2>2. (\A d \in Calls : RequestOK(d))'
        BY <1>3, <1>0 DEF Base, TypeOK, SelectGone, Goto, Purged, RequestOK, Key, Live, Holding, Ended
    <2>3. (\A k \in Keys : RowOK(k))'
        BY <1>3, <1>0 DEF Base, TypeOK, SelectGone, Goto, Purged, RowOK, Row, Absent, Live, Holding
    <2> QED
        BY <2>1, <2>2, <2>3 DEF Base
<1>4. CASE RefuseMismatch(c)
    <2>1. TypeOK'
        BY <1>4, <1>0 DEF Base, TypeOK, RefuseMismatch, Selected, Goto, tables, Row, Absent, Live, Holding, Ended, Closings
    <2>2. (\A d \in Calls : RequestOK(d))'
        BY <1>4, <1>0 DEF Base, TypeOK, RefuseMismatch, Selected, Goto, tables, RequestOK, Key, Live, Holding, Ended
    <2>3. (\A k \in Keys : RowOK(k))'
        BY <1>4, <1>0 DEF Base, TypeOK, RefuseMismatch, Selected, Goto, tables, RowOK, Row, Absent, Live, Holding
    <2> QED
        BY <2>1, <2>2, <2>3 DEF Base
<1>5. CASE Replay(c)
    <2>0. rows[Key(c)].body \in Calls
        BY <1>5, <1>0 DEF Base, RowOK, Replay, Selected
    <2>1. TypeOK'
        BY <1>5, <1>0, <2>0 DEF Base, TypeOK, Replay, Selected, Goto, Purged, Row, Absent, Live, Holding, Ended, Closings
    <2>2. (\A d \in Calls : RequestOK(d))'
        BY <1>5, <1>0 DEF Base, TypeOK, Replay, Selected, Goto, Purged, RequestOK, Key, Live, Holding, Ended
    <2>3. (\A k \in Keys : RowOK(k))'
        BY <1>5, <1>0 DEF Base, TypeOK, Replay, Selected, Goto, Purged, RowOK, Row, Absent, Live, Holding
    <2> QED
        BY <2>1, <2>2, <2>3 DEF Base
<1>6. CASE TakeOver(c)
    <2>0. rows' \in [Keys -> Row \cup {Absent}]
        <3>1. Purged(now[c]) \in [Keys -> Row \cup {Absent}]
            BY <1>0 DEF Base, TypeOK, Purged
        <3>2. now[c] \in Nat /\ (rows[Key(c)] \in Row => Renewed(rows[Key(c)], now[c]) \in Row)
            BY <1>0 DEF Base, TypeOK, Renewed, Row
        <3>3. Key(c) \in Keys => rows[Key(c)] \in Row
            BY <1>6, <1>0 DEF Base, TypeOK, TakeOver, Selected
        <3>4. QED
            BY <1>6, <3>1, <3>2, <3>3 DEF TakeOver
    <2>4. pc' \in [Calls -> {"new"} \cup Live \cup Ended] /\ now' \in [Calls -> Nat]
        BY <1>6, <1>0 DEF Base, TypeOK, TakeOver, Reserved, Goto, Live, Holding, Ended
    <2>5. origin' \in [Calls -> Calls]
        BY <1>6, <1>0 DEF Base, TypeOK, TakeOver, Selected, Row, Absent
    <2>1. TypeOK'
        BY <1>6, <1>0, <2>0, <2>4, <2>5 DEF Base, TypeOK, TakeOver
    <2>2. (\A d \in Calls : RequestOK(d))'
        BY <1>6, <1>0 DEF Base, TypeOK, TakeOver, Reserved, Renewed, Selected, Goto, Purged, RequestOK, Key, Live, Holding, Ended
    <2>3. (\A k \in Keys : RowOK(k))'
        BY <1>6, <1>0 DEF Base, TypeOK, TakeOver, Reserved, Renewed, Selected, Goto, Purged, RowOK, Row, Absent, Live, Holding
    <2> QED
        BY <2>1, <2>2, <2>3 DEF Base
<1>7. CASE RefuseBusy(c)
    <2>1. TypeOK'
        BY <1>7, <1>0 DEF Base, TypeOK, RefuseBusy, Selected, Goto, tables, Row, Absent, Live, Holding, Ended, Closings
    <2>2. (\A d \in Calls : RequestOK(d))'
        BY <1>7, <1>0 DEF Base, TypeOK, RefuseBusy, Selected, Goto, tables, RequestOK, Key, Live, Holding, Ended
    <2>3. (\A k \in Keys : RowOK(k))'
        BY <1>7, <1>0 DEF Base, TypeOK, RefuseBusy, Selected, Goto, tables, RowOK, Row, Absent, Live, Holding
    <2> QED
        BY <2>1, <2>2, <2>3 DEF Base
<1>8. CASE RunRemote(c)
    <2>1. TypeOK'
        BY <1>8, <1>0 DEF Base, TypeOK, RunRemote, Goto, tables, Row, Absent, Live, Holding, Ended, Closings
    <2>2. (\A d \in Calls : RequestOK(d))'
        BY <1>8, <1>0 DEF Base, TypeOK, RunRemote, Goto, tables, RequestOK, Key, Live, Holding, Ended
    <2>3. (\A k \in Keys : RowOK(k))'
        BY <1>8, <1>0 DEF Base, TypeOK, RunRemote, Goto, tables, RowOK, Row, Absent, Live, Holding
    <2> QED
        BY <2>1, <2>2, <2>3 DEF Base
<1>9. CASE RunFails(c)
    <2>1. TypeOK'
        BY <1>9, <1>0 DEF Base, TypeOK, RunFails, Goto, AfterFailure, tables, Row, Absent, Live, Holding, Ended, Closings
    <2>2. (\A d \in Calls : RequestOK(d))'
        BY <1>9, <1>0 DEF Base, TypeOK, RunFails, Goto, AfterFailure, tables, RequestOK, Key, Live, Holding, Ended
    <2>3. (\A k \in Keys : RowOK(k))'
        BY <1>9, <1>0 DEF Base, TypeOK, RunFails, Goto, AfterFailure, tables, RowOK, Row, Absent, Live, Holding
    <2> QED
        BY <2>1, <2>2, <2>3 DEF Base
<1>10. CASE Persist(c)
    <2>1. /\ usage' \subseteq Assessments /\ summaries' \subseteq Assessments
          /\ events' \subseteq Assessments
        BY <1>10, <1>0 DEF Base, TypeOK, Persist, Live, Holding
    <2>2. /\ rows' \in [Keys -> Row \cup {Absent}]
          /\ closed' \subseteq Closings
          /\ (\A k \in Keys : RowOK(k))'
        <3>1. CASE Key(c) = NoKey
            BY <1>10, <3>1 DEF Base, TypeOK, Persist, CloseKey, RowOK
        <3>2. CASE Key(c) # NoKey
            <4> DEFINE row == rows[Key(c)]
                       answered == [row EXCEPT !.state = "completed", !.body = c, !.updated = clock]
            <4>1. Key(c) \in Keys /\ row \in Row
                BY <1>10, <1>0, <3>2 DEF Base, TypeOK, Persist, Completes, Live, Holding, Absent
            <4>2. answered \in Row /\ answered.body \in Calls
                BY <4>1 DEF Base, TypeOK, Row
            <4>3. [call |-> c, key |-> Key(c), under |-> row.origin, created |-> row.created,
                   renewed |-> row.updated, since |-> now[c]] \in Closings
                BY <4>1 DEF Base, TypeOK, Row, Closings
            <4>4. /\ rows' = [rows EXCEPT ![Key(c)] = answered]
                  /\ closed' \subseteq Closings
                BY <1>10, <3>2, <4>3 DEF Base, TypeOK, Persist, CloseKey
            <4> HIDE DEF answered
            <4> QED
                BY <4>1, <4>2, <4>4 DEF Base, TypeOK, RowOK
        <3> QED
            BY <3>1, <3>2
    <2>3. /\ pc' \in [Calls -> {"new"} \cup Live \cup Ended]
          /\ now' \in [Calls -> Nat]
        BY <1>10 DEF Base, TypeOK, Persist, Goto, AfterFailure, Live, Holding, Ended
    <2>4. TypeOK'
        BY <1>10, <2>1, <2>2, <2>3 DEF Base, TypeOK, Persist
    <2>5. (\A d \in Calls : RequestOK(d))'
        BY <1>10, <1>0 DEF Base, TypeOK, Persist, Goto, AfterFailure, RequestOK, Key, Live, Holding, Ended
    <2> QED
        BY <2>2, <2>4, <2>5 DEF Base
<1>11. CASE PersistRollsBack(c)
    <2>1. TypeOK'
        BY <1>11, <1>0 DEF Base, TypeOK, PersistRollsBack, Goto, AfterFailure, tables, Row, Absent, Live, Holding, Ended, Closings
    <2>2. (\A d \in Calls : RequestOK(d))'
        BY <1>11, <1>0 DEF Base, TypeOK, PersistRollsBack, Goto, AfterFailure, tables, RequestOK, Key, Live, Holding, Ended
    <2>3. (\A k \in Keys : RowOK(k))'
        BY <1>11, <1>0 DEF Base, TypeOK, PersistRollsBack, Goto, AfterFailure, tables, RowOK, Row, Absent, Live, Holding
    <2> QED
        BY <2>1, <2>2, <2>3 DEF Base
<1>12. CASE Release(c)
    <2>1. TypeOK'
        BY <1>12, <1>0 DEF Base, TypeOK, Release, Deletes, Goto, Row, Absent, Live, Holding, Ended, Closings
    <2>2. (\A d \in Calls : RequestOK(d))'
        BY <1>12, <1>0 DEF Base, TypeOK, Release, Goto, RequestOK, Key, Live, Holding, Ended
    <2>3. (\A k \in Keys : RowOK(k))'
        BY <1>12, <1>0 DEF Base, TypeOK, Release, Deletes, Goto, RowOK, Row, Absent, Live, Holding
    <2> QED
        BY <2>1, <2>2, <2>3 DEF Base
<1>13. CASE ReleaseFails(c)
    <2>1. TypeOK'
        BY <1>13, <1>0 DEF Base, TypeOK, ReleaseFails, Goto, tables, Row, Absent, Live, Holding, Ended, Closings
    <2>2. (\A d \in Calls : RequestOK(d))'
        BY <1>13, <1>0 DEF Base, TypeOK, ReleaseFails, Goto, tables, RequestOK, Key, Live, Holding, Ended
    <2>3. (\A k \in Keys : RowOK(k))'
        BY <1>13, <1>0 DEF Base, TypeOK, ReleaseFails, Goto, tables, RowOK, Row, Absent, Live, Holding
    <2> QED
        BY <2>1, <2>2, <2>3 DEF Base
<1>14. CASE ReserveFails(c)
    <2>1. TypeOK'
        BY <1>14, <1>0 DEF Base, TypeOK, ReserveFails, Goto, tables, Row, Absent, Live, Holding, Ended, Closings
    <2>2. (\A d \in Calls : RequestOK(d))'
        BY <1>14, <1>0 DEF Base, TypeOK, ReserveFails, Goto, tables, RequestOK, Key, Live, Holding, Ended
    <2>3. (\A k \in Keys : RowOK(k))'
        BY <1>14, <1>0 DEF Base, TypeOK, ReserveFails, Goto, tables, RowOK, Row, Absent, Live, Holding
    <2> QED
        BY <2>1, <2>2, <2>3 DEF Base
<1> QED
    BY <1>1, <1>2, <1>3, <1>4, <1>5, <1>6, <1>7, <1>8, <1>9, <1>10, <1>11, <1>12, <1>13, <1>14
    DEF Handle, Reserve

\* Steps no handler takes.
LEMMA EnvironmentBase ==
    ASSUME Base,
           \/ \E t \in Targets, found \in SUBSET Hosts : Discover(t, found)
           \/ \E t \in Targets : DeleteEndpoint(t)
           \/ Crash
           \/ Tick
    PROVE  Base'
<1>1. CASE \E t \in Targets, found \in SUBSET Hosts : Discover(t, found)
    BY <1>1 DEF Base, TypeOK, RequestOK, RowOK, Key, Discover, callState
<1>2. CASE \E t \in Targets : DeleteEndpoint(t)
    BY <1>2 DEF Base, TypeOK, RequestOK, RowOK, Key, DeleteEndpoint, callState
<1>3. CASE Crash
    BY <1>3 DEF Base, TypeOK, RequestOK, RowOK, Key, Crash, tables, Live, Holding, Ended
<1>4. CASE Tick
    BY <1>4 DEF Base, TypeOK, RequestOK, RowOK, Key, Tick, tables, callState
<1> QED
    BY <1>1, <1>2, <1>3, <1>4

LEMMA StutterBase == Base /\ UNCHANGED vars => Base'
    BY DEF Base, TypeOK, RequestOK, RowOK, Key, vars, tables, callState

LEMMA NextBase == Base /\ [Next]_vars => Base'
    BY ArriveBase, HandleBase, EnvironmentBase, StutterBase DEF Next, Arrive

LEMMA BaseInvariant == Spec => []Base
    BY InitBase, NextBase, PTL DEF Spec

\* Every variable of the service keeps its type, for any number of calls, keys
\* and endpoints and any timing: what the handlers read back from the tables
\* is always well-formed.
THEOREM TypeCorrect == Spec => []TypeOK
<1>1. Base => TypeOK
    BY DEF Base
<1> QED
    BY <1>1, BaseInvariant, PTL

-----------------------------------------------------------------------------
(* Metering: a reservation is charged at most once, and stays answered     *)

\* A call that has not reserved yet names no reservation, open or closed.
Before == {"new", "reserve", "select"}
Unused(c) ==
    /\ \A k \in Keys : rows[k].state # "absent" => rows[k].origin # c
    /\ \A p \in closed : p.under # c
FreshOrigins == \A c \in Calls : pc[c] \in Before => Unused(c)

\* A row was inserted by a call with its key: no two rows share an origin.
OriginHasKey == \A k \in Keys : rows[k].state # "absent" => Key(rows[k].origin) = k

\* A closed reservation is not open any more.
ClosedNotOpen ==
    \A p \in closed, k \in Keys : rows[k].state = "in_progress" => rows[k].origin # p.under

\* ChargedStaysReplayable, and the row is as old as the closing says, so that
\* no purge takes it early.
ClosedStays ==
    \A p \in closed :
        clock <= p.created + Validity =>
            /\ rows[p.key].state = "completed"
            /\ rows[p.key].body = p.call
            /\ rows[p.key].origin = p.under
            /\ rows[p.key].created = p.created

Metered ==
    /\ FreshOrigins /\ OriginHasKey /\ ClosedNotOpen
    /\ ChargedOncePerReservation /\ ClosedStays

LEMMA InitMetered == Init => Metered
    BY DEF Init, Metered, FreshOrigins, Unused, OriginHasKey, ClosedNotOpen,
           ChargedOncePerReservation, ClosedStays, Absent

\* A step that leaves keys, closings and the clock alone.
LEMMA QuietStep ==
    ASSUME Base, Metered, UNCHANGED <<clock, rows, closed>>,
           \A c \in Calls : pc'[c] \in Before => pc[c] \in Before,
           \A c \in Calls : pc[c] # "new" => job'[c] = job[c]
    PROVE  Metered'
<1>1. FreshOrigins' /\ ClosedNotOpen' /\ ChargedOncePerReservation' /\ ClosedStays'
    BY DEF Metered, FreshOrigins, Unused, ClosedNotOpen, ChargedOncePerReservation, ClosedStays
<1>2. OriginHasKey'
    <2> SUFFICES ASSUME NEW k \in Keys, rows[k].state # "absent"
                 PROVE  (Key(rows[k].origin) = k)'
        BY DEF OriginHasKey
    <2>1. rows[k].origin \in Calls
        BY DEF Base, TypeOK, Row, Absent
    <2>2. pc[rows[k].origin] # "new"
        BY <2>1 DEF Metered, FreshOrigins, Unused, Before
    <2> QED
        BY <2>1, <2>2 DEF Metered, OriginHasKey, Key
<1> QED
    BY <1>1, <1>2 DEF Metered

\* A purge, and nothing else, done to the keys.
LEMMA PurgeStep ==
    ASSUME Base, Metered, NEW t \in Nat, t <= clock, rows' = Purged(t),
           UNCHANGED <<clock, closed, job>>,
           \A c \in Calls : pc'[c] \in Before => pc[c] \in Before
    PROVE  Metered'
<1> USE TimingAssumption DEF TimingAssumption
<1>1. \A k \in Keys : rows'[k] = rows[k] \/ rows'[k] = Absent
    BY DEF Purged
<1>2. FreshOrigins' /\ OriginHasKey' /\ ClosedNotOpen' /\ ChargedOncePerReservation'
    BY <1>1 DEF Metered, FreshOrigins, Unused, OriginHasKey, Key, ClosedNotOpen,
                ChargedOncePerReservation, Absent
<1>3. ClosedStays'
    <2> SUFFICES ASSUME NEW p \in closed, clock <= p.created + Validity
                 PROVE  rows'[p.key] = rows[p.key]
        BY DEF Metered, ClosedStays
    <2>1. p.key \in Keys /\ p.created \in Nat
        BY DEF Base, TypeOK, Closings
    <2>2. rows[p.key].created = p.created
        BY DEF Metered, ClosedStays
    <2>3. ~(p.created + Validity < t)
        BY <2>1 DEF Base, TypeOK
    <2> QED
        BY <2>1, <2>2, <2>3 DEF Purged, Expired
<1> QED
    BY <1>2, <1>3 DEF Metered

LEMMA ReserveInsertMetered ==
    ASSUME Base, Metered, NEW c \in Calls, ReserveInsert(c)
    PROVE  Metered'
<1> USE TimingAssumption DEF TimingAssumption
<1> DEFINE k == Key(c)
<1>1. /\ k \in Keys
      /\ Unused(c)
      /\ clock \in Nat
    BY DEF Base, TypeOK, RequestOK, ReserveInsert, Metered, FreshOrigins, Before, Jobs, Key
<1>2. /\ rows'[k] = Reservation(c)
      /\ \A j \in Keys \ {k} : rows'[j] = rows[j] \/ rows'[j] = Absent
      /\ UNCHANGED <<clock, closed, job>>
      /\ \A d \in Calls : pc'[d] \in Before => pc[d] \in Before /\ d # c
    BY <1>1 DEF Base, TypeOK, ReserveInsert, Reserved, BeginAndGoto, Purged, Before
<1>3. FreshOrigins' /\ ClosedNotOpen' /\ ChargedOncePerReservation' /\ OriginHasKey'
    BY <1>1, <1>2 DEF Metered, FreshOrigins, Unused, ClosedNotOpen, ChargedOncePerReservation,
                      OriginHasKey, Reservation, Absent, Key
<1>4. ClosedStays'
    <2> SUFFICES ASSUME NEW p \in closed, clock <= p.created + Validity
                 PROVE  rows'[p.key] = rows[p.key]
        BY <1>2 DEF Metered, ClosedStays
    <2>1. p.key \in Keys /\ p.created \in Nat
        BY DEF Base, TypeOK, Closings
    <2>2. rows[p.key].state = "completed" /\ rows[p.key].created = p.created
        BY DEF Metered, ClosedStays
    <2>3. ~Expired(rows[p.key], clock)
        BY <1>1, <2>1, <2>2 DEF Expired
    <2>4. Purged(clock)[p.key] = rows[p.key]
        BY <2>1, <2>3 DEF Purged
    <2>5. p.key # k
        BY <2>2, <2>4 DEF ReserveInsert, Absent
    <2> QED
        BY <1>1, <2>1, <2>4, <2>5 DEF Base, TypeOK, ReserveInsert, Purged
<1> QED
    BY <1>3, <1>4 DEF Metered

\* Taking a reservation over changes when it was renewed and nothing else.
LEMMA TakeOverMetered ==
    ASSUME Base, Metered, NEW c \in Calls, TakeOver(c)
    PROVE  Metered'
<1> USE TimingAssumption DEF TimingAssumption
<1> DEFINE k == Key(c)
<1>1. /\ k \in Keys
      /\ rows[k] \in Row /\ rows[k].state = "in_progress"
      /\ now[c] \in Nat /\ now[c] <= clock /\ clock \in Nat
    BY DEF Base, TypeOK, RequestOK, TakeOver, Selected, Jobs, Key
<1>2. /\ rows'[k] = [rows[k] EXCEPT !.updated = now[c]]
      /\ \A j \in Keys \ {k} : rows'[j] = Purged(now[c])[j]
      /\ \A j \in Keys \ {k} : rows'[j] = rows[j] \/ rows'[j] = Absent
      /\ UNCHANGED <<clock, closed, job>>
      /\ \A d \in Calls : pc'[d] \in Before => pc[d] \in Before
    BY <1>1 DEF Base, TypeOK, TakeOver, Reserved, Renewed, Goto, Purged, Before
<1>3. /\ rows'[k].state = "in_progress"
      /\ rows'[k].origin = rows[k].origin
    BY <1>1, <1>2 DEF Row
<1>4. \A j \in Keys :
          rows'[j].state # "absent" => /\ rows[j].state = rows'[j].state
                                       /\ rows[j].origin = rows'[j].origin
    <2> TAKE j \in Keys
    <2>1. CASE j = k
        BY <1>1, <1>3, <2>1
    <2>2. CASE j # k
        <3>1. rows'[j] = rows[j] \/ rows'[j] = Absent
            BY <1>2, <2>2
        <3>2. Absent.state = "absent"
            BY DEF Absent
        <3> QED
            BY <3>1, <3>2
    <2> QED
        BY <2>1, <2>2
<1>5. FreshOrigins' /\ ClosedNotOpen' /\ ChargedOncePerReservation' /\ OriginHasKey'
    <2>1. FreshOrigins'
        BY <1>2, <1>4 DEF Metered, FreshOrigins, Unused
    <2>2. ClosedNotOpen'
        BY <1>2, <1>4 DEF Metered, ClosedNotOpen
    <2>3. ChargedOncePerReservation'
        BY <1>2 DEF Metered, ChargedOncePerReservation
    <2>4. OriginHasKey'
        BY <1>2, <1>4 DEF Metered, OriginHasKey, Key
    <2> QED
        BY <2>1, <2>2, <2>3, <2>4
<1>6. ClosedStays'
    <2> SUFFICES ASSUME NEW p \in closed, clock <= p.created + Validity
                 PROVE  rows'[p.key] = rows[p.key]
        BY <1>2 DEF Metered, ClosedStays
    <2>1. p.key \in Keys /\ p.created \in Nat
        BY DEF Base, TypeOK, Closings
    <2>2. rows[p.key].state = "completed" /\ rows[p.key].created = p.created
        BY DEF Metered, ClosedStays
    <2>3. ~Expired(rows[p.key], now[c])
        BY <1>1, <2>1, <2>2 DEF Expired
    <2> QED
        BY <1>1, <1>2, <2>1, <2>2, <2>3 DEF Purged
<1> QED
    BY <1>5, <1>6 DEF Metered

\* The close of a key: the row was open, so its reservation was never closed.
LEMMA PersistMetered ==
    ASSUME Base, Metered, NEW c \in Calls, Persist(c)
    PROVE  Metered'
<1> DEFINE k == Key(c)
           row == rows[k]
           new == [call |-> c, key |-> k, under |-> row.origin, created |-> row.created,
                   renewed |-> row.updated, since |-> now[c]]
<1>1. /\ UNCHANGED <<clock, job>>
      /\ \A d \in Calls : pc'[d] \in Before => pc[d] \in Before
      /\ pc[c] \notin Before
    BY DEF Base, TypeOK, Persist, Goto, AfterFailure, Before
<1>2. CASE k = NoKey
    BY <1>1, <1>2, QuietStep DEF Persist, CloseKey
<1>3. CASE k # NoKey
    <2>1. /\ k \in Keys
          /\ row \in Row /\ row.state = "in_progress"
        BY <1>3 DEF Base, TypeOK, RequestOK, Persist, Completes, Jobs, Key, Absent
    <2>2. /\ rows'[k] = [row EXCEPT !.state = "completed", !.body = c, !.updated = clock]
          /\ \A j \in Keys \ {k} : rows'[j] = rows[j]
          /\ closed' = closed \cup {new}
        BY <1>3, <2>1 DEF Base, TypeOK, Persist, CloseKey
    <2>3. /\ rows'[k].state = "completed" /\ rows'[k].body = c
          /\ rows'[k].origin = row.origin /\ rows'[k].created = row.created
        BY <2>1, <2>2 DEF Row
    <2>4. /\ new.call = c /\ new.key = k /\ new.under = row.origin /\ new.created = row.created
        OBVIOUS
    <2>5. \A j \in Keys : rows'[j].origin = rows[j].origin
        BY <2>2, <2>3
    <2>6. \A j \in Keys : /\ rows'[j].state # "absent" => rows[j].state # "absent"
                          /\ rows'[j].state = "in_progress" => rows[j].state = "in_progress" /\ j # k
        BY <2>1, <2>2, <2>3
    <2> HIDE DEF new
    <2>7. FreshOrigins'
        BY <1>1, <2>1, <2>2, <2>4, <2>5, <2>6 DEF Metered, FreshOrigins, Unused
    <2>8. OriginHasKey'
        BY <1>1, <2>5, <2>6 DEF Metered, OriginHasKey, Key
    <2>9. ClosedNotOpen'
        BY <2>1, <2>2, <2>4, <2>5, <2>6 DEF Metered, ClosedNotOpen, OriginHasKey
    <2>10. ChargedOncePerReservation'
        BY <2>1, <2>2, <2>4 DEF Metered, ChargedOncePerReservation, ClosedNotOpen
    <2>11. ClosedStays'
        <3> SUFFICES ASSUME NEW p \in closed', clock <= p.created + Validity
                     PROVE  /\ rows'[p.key].state = "completed"
                            /\ rows'[p.key].body = p.call
                            /\ rows'[p.key].origin = p.under
                            /\ rows'[p.key].created = p.created
            BY <1>1 DEF ClosedStays
        <3>1. CASE p = new
            BY <3>1, <2>3, <2>4
        <3>2. CASE p \in closed
            <4>1. p.key \in Keys /\ p.key # k
                BY <3>2, <2>1 DEF Base, TypeOK, Closings, Metered, ClosedStays
            <4> QED
                BY <3>2, <4>1, <2>2 DEF Metered, ClosedStays
        <3> QED
            BY <3>1, <3>2, <2>2
    <2> QED
        BY <2>7, <2>8, <2>9, <2>10, <2>11 DEF Metered
<1> QED
    BY <1>2, <1>3

\* A release, by whoever, finds no closed reservation to delete.
LEMMA ReleaseMetered ==
    ASSUME Base, Metered, NEW c \in Calls, Release(c)
    PROVE  Metered'
<1>1. /\ UNCHANGED <<clock, closed, job>>
      /\ \A d \in Calls : pc'[d] \in Before => pc[d] \in Before
    BY DEF Base, TypeOK, Release, Goto, Before
<1>2. /\ \A j \in Keys \ {Key(c)} : rows'[j] = rows[j]
      /\ \/ rows' = rows
         \/ /\ rows[Key(c)].state = "in_progress"
            /\ Key(c) \in Keys => rows'[Key(c)] = Absent
    BY DEF Base, TypeOK, Release, Deletes
<1>3. \A j \in Keys :
          \/ rows'[j] = rows[j]
          \/ rows'[j].state = "absent" /\ rows[j].state = "in_progress"
    BY <1>2 DEF Absent
<1>4. FreshOrigins' /\ ClosedNotOpen' /\ ChargedOncePerReservation' /\ OriginHasKey'
    <2>1. FreshOrigins'
        BY <1>1, <1>3 DEF Metered, FreshOrigins, Unused
    <2>2. ClosedNotOpen'
        BY <1>1, <1>3 DEF Metered, ClosedNotOpen
    <2>3. ChargedOncePerReservation'
        BY <1>1 DEF Metered, ChargedOncePerReservation
    <2>4. OriginHasKey'
        BY <1>1, <1>3 DEF Metered, OriginHasKey, Key
    <2> QED
        BY <2>1, <2>2, <2>3, <2>4
<1>5. ClosedStays'
    BY <1>1, <1>3 DEF Base, TypeOK, Closings, Metered, ClosedStays
<1> QED
    BY <1>4, <1>5 DEF Metered

LEMMA TickMetered ==
    ASSUME Base, Metered, Tick
    PROVE  Metered'
    BY TimingAssumption DEF TimingAssumption, Base, TypeOK, Closings, Tick, tables, callState, Metered,
       FreshOrigins, Unused, OriginHasKey, Key, ClosedNotOpen, ChargedOncePerReservation, ClosedStays

LEMMA NextMetered == Base /\ Metered /\ [Next]_vars => Metered'
<1> SUFFICES ASSUME Base, Metered, [Next]_vars PROVE Metered'
    OBVIOUS
<1>1. ASSUME NEW c \in Calls, NEW k \in Keys \cup {NoKey}, NEW ask \in Asks,
             ResolveTarget(c, k, ask) \/ RefuseTarget(c, ask)
      PROVE  Metered'
    BY <1>1, QuietStep DEF Base, TypeOK, ResolveTarget, RefuseTarget, BeginAndGoto, Goto, tables, Before
<1>2. ASSUME NEW c \in Calls, Handle(c)
      PROVE  Metered'
    <2>1. CASE ReserveInsert(c)
        BY <2>1, ReserveInsertMetered
    <2>2. CASE TakeOver(c)
        BY <2>2, TakeOverMetered
    <2>3. CASE SelectGone(c) \/ Replay(c)
        <3>1. now[c] \in Nat /\ now[c] <= clock
            BY DEF Base, TypeOK, RequestOK
        <3>2. /\ rows' = Purged(now[c])
              /\ UNCHANGED <<clock, closed, job>>
              /\ \A d \in Calls : pc'[d] \in Before => pc[d] \in Before
            BY <2>3 DEF Base, TypeOK, SelectGone, Replay, Selected, Goto, Before
        <3> QED
            BY <3>1, <3>2, PurgeStep
    <2>4. CASE \/ ReserveConflict(c) \/ RefuseMismatch(c) \/ RefuseBusy(c) \/ ReserveFails(c)
               \/ RunRemote(c) \/ RunFails(c) \/ PersistRollsBack(c) \/ ReleaseFails(c)
        <3>1. /\ UNCHANGED <<clock, rows, closed, job>>
              /\ \A d \in Calls : pc'[d] \in Before => pc[d] \in Before
            BY <2>4 DEF Base, TypeOK, ReserveConflict, RefuseMismatch, RefuseBusy, ReserveFails,
                        RunRemote, RunFails, PersistRollsBack, ReleaseFails, Selected, BeginAndGoto, Goto, AfterFailure,
                        tables, Before
        <3> QED
            BY <3>1, QuietStep
    <2>5. CASE Persist(c)
        BY <2>5, PersistMetered
    <2>6. CASE Release(c)
        BY <2>6, ReleaseMetered
    <2> QED
        BY <1>2, <2>1, <2>2, <2>3, <2>4, <2>5, <2>6 DEF Handle, Reserve
<1>3. CASE \E t \in Targets, found \in SUBSET Hosts : Discover(t, found)
    BY <1>3, QuietStep DEF Discover, callState
<1>4. CASE \E t \in Targets : DeleteEndpoint(t)
    BY <1>4, QuietStep DEF DeleteEndpoint, callState
<1>5. CASE Crash
    BY <1>5, QuietStep DEF Crash, tables, Before
<1>6. CASE Tick
    BY <1>6, TickMetered
<1>7. CASE UNCHANGED vars
    BY <1>7, QuietStep DEF vars, tables, callState
<1> QED
    BY <1>1, <1>2, <1>3, <1>4, <1>5, <1>6, <1>7 DEF Next, Arrive

LEMMA MeteredInvariant == Spec => []Metered
    BY InitBase, NextBase, InitMetered, NextMetered, PTL DEF Spec

\* However calls with one key interleave, stall past their lease, are taken
\* over, crash or release late, a reservation is charged at most once.
THEOREM ChargedOnce == Spec => []ChargedOncePerReservation
<1>1. Metered => ChargedOncePerReservation
    BY DEF Metered
<1> QED
    BY <1>1, MeteredInvariant, PTL

\* For as long as the key is valid, a charged answer is there to be replayed:
\* no release, takeover, close or purge removes or replaces it.
THEOREM ChargedStays == Spec => []ChargedStaysReplayable
<1>1. Metered => ChargedStaysReplayable
    BY DEF Metered, ClosedStays, ChargedStaysReplayable
<1> QED
    BY <1>1, MeteredInvariant, PTL

-----------------------------------------------------------------------------
(* Exclusion: within MaxHold <= Lease, one handler per reservation         *)

\* The clock waits for every handler that has opened its reservation's transaction.
Timely == \A c \in Calls : pc[c] \in Holding \cup {"select"} => clock <= now[c] + MaxHold

\* The lease of an open row counts from the transaction of whoever holds it.
LeaseIsHolders ==
    \A c \in Calls :
        /\ pc[c] \in Holding /\ Key(c) # NoKey
        /\ rows[Key(c)].state = "in_progress" /\ rows[Key(c)].origin = origin[c]
        => rows[Key(c)].updated = now[c]

\* Nobody runs under a reservation that a call has yet to insert.
NobodyUnder(c) == \A d \in Calls \ {c} : origin[d] # c
FreshReservations == \A c \in Calls : pc[c] \in Before => NobodyUnder(c)

Exclusive == Timely /\ LeaseIsHolders /\ FreshReservations /\ OneRunPerReservation

LEMMA InitExclusive == Init => Exclusive
    BY DEF Init, Exclusive, Timely, LeaseIsHolders, FreshReservations, NobodyUnder,
           OneRunPerReservation, Holding

\* A step after which no handler holds, and no row is open, that did not before.
LEMMA NothingGained ==
    ASSUME Base, Exclusive, UNCHANGED <<clock, origin, job>>,
           \A d \in Calls : pc'[d] \in Holding => pc[d] \in Holding /\ now'[d] = now[d],
           \A d \in Calls : pc'[d] = "select" => clock <= now'[d] + MaxHold,
           \A d \in Calls : pc'[d] \in Before => pc[d] \in Before,
           \A k \in Keys : rows'[k].state = "in_progress" => rows'[k] = rows[k]
    PROVE  Exclusive'
<1>1. Timely'
    BY DEF Exclusive, Timely
<1>2. LeaseIsHolders'
    <2> SUFFICES ASSUME NEW c \in Calls, pc'[c] \in Holding, Key(c) # NoKey,
                        rows'[Key(c)].state = "in_progress", rows'[Key(c)].origin = origin[c]
                 PROVE  rows'[Key(c)].updated = now'[c]
        BY DEF LeaseIsHolders, Key
    <2>1. Key(c) \in Keys
        BY DEF Base, TypeOK, RequestOK, Key, Jobs, Holding
    <2> QED
        BY <2>1 DEF Exclusive, LeaseIsHolders
<1>3. FreshReservations' /\ OneRunPerReservation'
    BY DEF Exclusive, FreshReservations, NobodyUnder, OneRunPerReservation, Key
<1> QED
    BY <1>1, <1>2, <1>3 DEF Exclusive

LEMMA ArriveExclusive ==
    ASSUME Base, Exclusive, NEW c \in Calls, NEW k \in Keys \cup {NoKey}, NEW ask \in Asks,
           ResolveTarget(c, k, ask) \/ RefuseTarget(c, ask)
    PROVE  Exclusive'
<1> USE TimingAssumption DEF TimingAssumption
<1>1. /\ UNCHANGED <<clock, rows, origin>>
      /\ \A d \in Calls \ {c} : pc'[d] = pc[d] /\ now'[d] = now[d] /\ job'[d] = job[d]
      /\ pc[c] \in Before
      /\ pc'[c] # "select"
      /\ pc'[c] \in Holding => now'[c] = clock /\ Key(c)' = NoKey
    BY DEF Base, TypeOK, ResolveTarget, RefuseTarget, BeginAndGoto, Goto, tables, Before, Holding, Ended, Key
<1>2. Timely'
    BY <1>1 DEF Base, TypeOK, Exclusive, Timely
<1>3. LeaseIsHolders' /\ OneRunPerReservation'
    BY <1>1 DEF Exclusive, LeaseIsHolders, OneRunPerReservation, Key
<1>4. FreshReservations'
    BY <1>1 DEF Exclusive, FreshReservations, NobodyUnder
<1> QED
    BY <1>2, <1>3, <1>4 DEF Exclusive

LEMMA ReserveInsertExclusive ==
    ASSUME Base, Metered, Exclusive, NEW c \in Calls, ReserveInsert(c)
    PROVE  Exclusive'
<1> USE TimingAssumption DEF TimingAssumption
<1> DEFINE k == Key(c)
<1>1. /\ UNCHANGED <<clock, job>>
      /\ \A d \in Calls \ {c} : pc'[d] = pc[d] /\ now'[d] = now[d] /\ origin'[d] = origin[d]
      /\ pc[c] \in Before /\ origin'[c] = c
      /\ pc'[c] = "lost" \/ (pc'[c] = "run" /\ now'[c] = clock)
    BY DEF Base, TypeOK, ReserveInsert, Reserved, BeginAndGoto, Before, Ended
<1>2. k \in Keys
    BY DEF Base, TypeOK, RequestOK, ReserveInsert, Jobs, Key
<1>3. /\ rows'[k] = Reservation(c)
      /\ \A j \in Keys \ {k} : rows'[j].state = "in_progress" => rows'[j] = rows[j]
    BY <1>2 DEF Base, TypeOK, ReserveInsert, Purged, Absent
<1>4. NobodyUnder(c)
    BY <1>1 DEF Exclusive, FreshReservations
<1>5. Timely'
    BY <1>1 DEF Base, TypeOK, Exclusive, Timely, Holding
<1>6. LeaseIsHolders'
    <2> SUFFICES ASSUME NEW d \in Calls, pc'[d] \in Holding, Key(d) # NoKey,
                        rows'[Key(d)].state = "in_progress", rows'[Key(d)].origin = origin'[d]
                 PROVE  rows'[Key(d)].updated = now'[d]
        BY <1>1 DEF LeaseIsHolders, Key
    <2>1. CASE d = c
        BY <1>1, <1>3, <2>1 DEF Reservation, Holding
    <2>2. CASE d # c
        <3>1. Key(d) \in Keys /\ pc[d] \in Holding
            BY <1>1, <2>2 DEF Base, TypeOK, RequestOK, Key, Jobs, Holding
        <3>2. Key(d) # k
            BY <1>1, <1>3, <1>4, <2>2 DEF NobodyUnder, Reservation
        <3> QED
            BY <1>1, <1>3, <2>2, <3>1, <3>2 DEF Exclusive, LeaseIsHolders
    <2> QED
        BY <2>1, <2>2
<1>7. FreshReservations' /\ OneRunPerReservation'
    BY <1>1, <1>4 DEF Exclusive, FreshReservations, NobodyUnder, OneRunPerReservation, Key, Before, Holding
<1> QED
    BY <1>5, <1>6, <1>7 DEF Exclusive

\* A row that may be taken over has no holder: its lease counts from the
\* holder's transaction, and the holder would have overstayed MaxHold.
LEMMA LapsedHasNoHolder ==
    ASSUME Base, Exclusive, MaxHold <= Lease, NEW c \in Calls, NEW d \in Calls,
           TakeOver(c), pc[d] \in Holding, Key(d) = Key(c)
    PROVE  origin[d] # rows[Key(c)].origin
<1> USE TimingAssumption DEF TimingAssumption
<1> SUFFICES ASSUME origin[d] = rows[Key(c)].origin
             PROVE  FALSE
    OBVIOUS
<1>1. /\ Key(c) # NoKey
      /\ rows[Key(c)].state = "in_progress"
      /\ rows[Key(c)].updated + Lease < now[c]
      /\ now[c] \in Nat /\ now[c] <= clock /\ now[d] \in Nat /\ clock \in Nat
    BY DEF Base, TypeOK, RequestOK, TakeOver, Selected, Lapsed
<1>2. rows[Key(c)].updated = now[d]
    BY <1>1 DEF Exclusive, LeaseIsHolders
<1>3. clock <= now[d] + MaxHold
    BY DEF Exclusive, Timely
<1> QED
    BY <1>1, <1>2, <1>3

LEMMA TakeOverExclusive ==
    ASSUME Base, Metered, Exclusive, MaxHold <= Lease, NEW c \in Calls, TakeOver(c)
    PROVE  Exclusive'
<1> USE TimingAssumption DEF TimingAssumption
<1> DEFINE k == Key(c)
           o == rows[k].origin
<1>1. /\ UNCHANGED <<clock, job>>
      /\ \A d \in Calls \ {c} : pc'[d] = pc[d] /\ now'[d] = now[d] /\ origin'[d] = origin[d]
      /\ pc[c] = "select" /\ origin'[c] = o
      /\ pc'[c] = "lost" \/ (pc'[c] = "run" /\ now'[c] = now[c])
    BY DEF Base, TypeOK, TakeOver, Reserved, Selected, Goto, Ended
<1>2. k \in Keys /\ rows[k] \in Row
    BY DEF Base, TypeOK, RequestOK, TakeOver, Selected, Jobs, Key
<1>3. /\ rows'[k] = [rows[k] EXCEPT !.updated = now[c]]
      /\ \A j \in Keys \ {k} : rows'[j].state = "in_progress" => rows'[j] = rows[j]
    BY <1>2 DEF Base, TypeOK, TakeOver, Renewed, Purged, Absent
<1>4. rows'[k].updated = now[c] /\ rows'[k].origin = o
    BY <1>2, <1>3 DEF Row
<1>5. \A d \in Calls : pc[d] \in Holding /\ Key(d) = k => origin[d] # o
    BY LapsedHasNoHolder
<1>6. \A d \in Calls : pc[d] \in Before => d # o
    BY <1>2 DEF Metered, FreshOrigins, Unused, TakeOver, Selected, Absent
<1> HIDE DEF o
<1>7. Timely'
    BY <1>1 DEF Exclusive, Timely, Holding
<1>8. LeaseIsHolders'
    <2> SUFFICES ASSUME NEW d \in Calls, pc'[d] \in Holding, Key(d) # NoKey,
                        rows'[Key(d)].state = "in_progress", rows'[Key(d)].origin = origin'[d]
                 PROVE  rows'[Key(d)].updated = now'[d]
        BY <1>1 DEF LeaseIsHolders, Key
    <2>1. CASE d = c
        BY <1>1, <1>4, <2>1 DEF Holding
    <2>2. CASE d # c
        <3>1. Key(d) \in Keys /\ pc[d] \in Holding
            BY <1>1, <2>2 DEF Base, TypeOK, RequestOK, Key, Jobs, Holding
        <3>2. Key(d) # k
            BY <1>1, <1>4, <1>5, <2>2, <3>1
        <3> QED
            BY <1>1, <1>3, <2>2, <3>1, <3>2 DEF Exclusive, LeaseIsHolders
    <2> QED
        BY <2>1, <2>2
<1>9. FreshReservations'
    BY <1>1, <1>6 DEF Exclusive, FreshReservations, NobodyUnder, Before
<1>10. OneRunPerReservation'
    BY <1>1, <1>5 DEF Exclusive, OneRunPerReservation, Key, Holding
<1> QED
    BY <1>7, <1>8, <1>9, <1>10 DEF Exclusive

LEMMA TickExclusive ==
    ASSUME Base, Exclusive, Tick
    PROVE  Exclusive'
<1> USE TimingAssumption DEF TimingAssumption
<1>1. UNCHANGED <<rows, pc, job, now, origin>>
    BY DEF Tick, tables, callState
<1>2. Timely'
    BY <1>1 DEF Base, TypeOK, Tick, OnTime, Timely
<1>3. LeaseIsHolders' /\ FreshReservations' /\ OneRunPerReservation'
    BY <1>1 DEF Exclusive, LeaseIsHolders, FreshReservations, NobodyUnder, OneRunPerReservation, Key
<1> QED
    BY <1>2, <1>3 DEF Exclusive

LEMMA NextExclusive ==
    MaxHold <= Lease => (Base /\ Metered /\ Exclusive /\ [Next]_vars => Exclusive')
<1> SUFFICES ASSUME MaxHold <= Lease, Base, Metered, Exclusive, [Next]_vars
             PROVE  Exclusive'
    OBVIOUS
<1> USE TimingAssumption DEF TimingAssumption
<1>1. ASSUME NEW c \in Calls, NEW k \in Keys \cup {NoKey}, NEW ask \in Asks,
             ResolveTarget(c, k, ask) \/ RefuseTarget(c, ask)
      PROVE  Exclusive'
    BY <1>1, ArriveExclusive
<1>2. ASSUME NEW c \in Calls, Handle(c)
      PROVE  Exclusive'
    <2>1. CASE ReserveInsert(c)
        BY <2>1, ReserveInsertExclusive
    <2>2. CASE TakeOver(c)
        BY <2>2, TakeOverExclusive
    <2>3. CASE ReserveConflict(c)
        <3>1. /\ UNCHANGED <<clock, rows, origin, job>>
              /\ \A d \in Calls : pc'[d] \in Holding => pc[d] \in Holding /\ now'[d] = now[d]
              /\ \A d \in Calls : pc'[d] = "select" => clock <= now'[d] + MaxHold
              /\ \A d \in Calls : pc'[d] \in Before => pc[d] \in Before
            BY <2>3 DEF Base, TypeOK, Exclusive, Timely, ReserveConflict, BeginAndGoto, tables,
                        Before, Holding, Ended
        <3> QED
            BY <3>1, NothingGained
    <2>4. CASE \/ SelectGone(c) \/ Replay(c) \/ RefuseMismatch(c) \/ RefuseBusy(c) \/ ReserveFails(c)
               \/ RunRemote(c) \/ RunFails(c) \/ Persist(c) \/ PersistRollsBack(c)
               \/ Release(c) \/ ReleaseFails(c)
        <3>1. /\ UNCHANGED <<clock, origin, job>>
              /\ \A d \in Calls \ {c} : pc'[d] = pc[d] /\ now'[d] = now[d]
              /\ pc'[c] # "select"
            BY <2>4 DEF Base, TypeOK, SelectGone, Replay, RefuseMismatch, RefuseBusy, ReserveFails, RunRemote,
                        RunFails, Persist, PersistRollsBack, Release, ReleaseFails, Selected, Goto,
                        AfterFailure, tables
        <3>2. /\ pc'[c] \in Holding => pc[c] \in Holding /\ now'[c] = now[c]
              /\ pc'[c] \in Before => pc[c] \in Before
            BY <2>4 DEF Base, TypeOK, SelectGone, Replay, RefuseMismatch, RefuseBusy, ReserveFails, RunRemote,
                        RunFails, Persist, PersistRollsBack, Release, ReleaseFails, Selected, Goto,
                        AfterFailure, Before, Holding, Ended
        <3>3. \A k \in Keys : rows'[k].state = "in_progress" => rows'[k] = rows[k]
            <4>1. CASE SelectGone(c) \/ Replay(c)
                BY <4>1 DEF SelectGone, Replay, Purged, Absent
            <4>2. CASE \/ RefuseMismatch(c) \/ RefuseBusy(c) \/ ReserveFails(c) \/ RunRemote(c) \/ RunFails(c)
                       \/ PersistRollsBack(c) \/ ReleaseFails(c)
                BY <4>2 DEF RefuseMismatch, RefuseBusy, ReserveFails, RunRemote, RunFails, PersistRollsBack,
                            ReleaseFails, tables
            <4>3. CASE Persist(c)
                <5> SUFFICES ASSUME NEW k \in Keys, k = Key(c)
                             PROVE  rows'[k].state # "in_progress"
                    BY <4>3 DEF Base, TypeOK, Persist, CloseKey
                <5>1. rows[k] \in Row /\ k # NoKey
                    BY <4>3, InputsAssumption DEF InputsAssumption, Base, TypeOK, Persist, Completes, Absent
                <5>2. rows'[k] = [rows[k] EXCEPT !.state = "completed", !.body = c, !.updated = clock]
                    BY <4>3, <5>1 DEF Base, TypeOK, Persist, CloseKey
                <5> QED
                    BY <5>1, <5>2 DEF Row
            <4>4. CASE Release(c)
                BY <4>4 DEF Base, TypeOK, Release, Deletes, Absent
            <4> QED
                BY <2>4, <4>1, <4>2, <4>3, <4>4
        <3>4. \A d \in Calls :
                  /\ pc'[d] \in Holding => pc[d] \in Holding /\ now'[d] = now[d]
                  /\ pc'[d] = "select" => clock <= now'[d] + MaxHold
                  /\ pc'[d] \in Before => pc[d] \in Before
            BY <3>1, <3>2 DEF Exclusive, Timely
        <3> QED
            BY <3>1, <3>3, <3>4, NothingGained
    <2> QED
        BY <1>2, <2>1, <2>2, <2>3, <2>4 DEF Handle, Reserve
<1>3. CASE \/ \E t \in Targets, found \in SUBSET Hosts : Discover(t, found)
           \/ \E t \in Targets : DeleteEndpoint(t)
           \/ UNCHANGED vars
    <2>1. UNCHANGED <<clock, rows, pc, now, origin, job>>
        BY <1>3 DEF Discover, DeleteEndpoint, vars, tables, callState
    <2> QED
        BY <2>1, NothingGained DEF Exclusive, Timely
<1>4. CASE Crash
    <2>1. /\ UNCHANGED <<clock, rows, origin, job>>
          /\ \A d \in Calls : pc'[d] \notin Holding /\ pc'[d] # "select"
          /\ \A d \in Calls : pc'[d] \in Before => pc[d] \in Before
        BY <1>4 DEF Base, TypeOK, Crash, tables, Live, Holding, Before
    <2> QED
        BY <2>1, NothingGained
<1>5. CASE Tick
    BY <1>5, TickExclusive
<1> QED
    BY <1>1, <1>2, <1>3, <1>4, <1>5 DEF Next, Arrive

\* If no handler outlives the lease, two handlers never run under the same
\* reservation: a takeover only ever replaces a handler that is gone.
THEOREM OneRun == MaxHold <= Lease => (Spec => []OneRunPerReservation)
<1> SUFFICES ASSUME MaxHold <= Lease
             PROVE  Spec => []OneRunPerReservation
    OBVIOUS
<1>1. Base /\ Metered /\ Exclusive /\ [Next]_vars => Exclusive'
    BY NextExclusive
<1>2. Exclusive => OneRunPerReservation
    BY DEF Exclusive
<1> QED
    BY InitBase, NextBase, InitMetered, NextMetered, InitExclusive, <1>1, <1>2, PTL DEF Spec
=============================================================================
