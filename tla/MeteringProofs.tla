--------------------------- MODULE MeteringProofs ---------------------------
(***************************************************************************)
(* More about module Assessment, on the ground of AssessmentProofs: what   *)
(* is charged and to whom, that keys and charges follow the ledger of      *)
(* KeyLedger, and what a key promises while handlers keep within their     *)
(* lease and no key runs out under one.                                    *)
(***************************************************************************)
EXTENDS AssessmentProofs, MeteredRegistry

-----------------------------------------------------------------------------
(* What steps do to a call and to the charges                              *)

\* A request never changes once it is known, and a call never becomes new.
LEMMA RequestStays ==
    ASSUME Base, [Next]_vars, NEW c \in Calls, pc[c] # "new"
    PROVE  job'[c] = job[c] /\ pc'[c] # "new"
<1>1. CASE \E d \in Calls : Arrive(d)
    BY <1>1 DEF Base, TypeOK, Arrive, ResolveTarget, RefuseTarget, BeginAndGoto, Goto, Ended
<1>2. ASSUME NEW d \in Calls, Handle(d)
      PROVE  job'[c] = job[c] /\ pc'[c] # "new"
    <2>1. CASE Reserve(d)
        BY <2>1 DEF Base, TypeOK, Reserve, ReserveInsert, ReserveConflict, SelectGone, RefuseMismatch,
                    Replay, TakeOver, RefuseBusy, ReserveFails, Reserved, BeginAndGoto, Goto, Ended
    <2>2. CASE ~Reserve(d)
        BY <1>2, <2>2 DEF Base, TypeOK, Handle, RunRemote, RunFails, Persist, PersistRollsBack,
                          Release, ReleaseFails, AfterFailure, Goto, Ended
    <2> QED
        BY <2>1, <2>2
<1>3. CASE ~\E d \in Calls : Arrive(d) \/ Handle(d)
    BY <1>3 DEF Base, TypeOK, Next, Discover, DeleteEndpoint, Crash, Tick, Live, Holding,
                vars, tables, callState
<1> QED
    BY <1>1, <1>2, <1>3

\* Only the transaction of persist charges.
LEMMA OnlyPersistCharges ==
    ASSUME [Next]_vars, ~\E c \in Calls : Persist(c)
    PROVE  UNCHANGED <<usage, events>>
<1>1. CASE \E c \in Calls : Arrive(c)
    BY <1>1 DEF Arrive, ResolveTarget, RefuseTarget, tables
<1>2. ASSUME NEW c \in Calls, Handle(c)
      PROVE  UNCHANGED <<usage, events>>
    <2>1. CASE Reserve(c)
        BY <2>1 DEF Reserve, ReserveInsert, ReserveConflict, SelectGone, RefuseMismatch,
                    Replay, TakeOver, RefuseBusy, ReserveFails, Reserved, tables
    <2>2. CASE ~Reserve(c)
        BY <1>2, <2>2 DEF Handle, RunRemote, RunFails, PersistRollsBack, Release, ReleaseFails, tables
    <2> QED
        BY <2>1, <2>2
<1>3. CASE ~\E c \in Calls : Arrive(c) \/ Handle(c)
    BY <1>3 DEF Next, Discover, DeleteEndpoint, Crash, Tick, vars, tables
<1> QED
    BY <1>1, <1>2, <1>3

\* What it charges: a host for the endpoint it was asked about, still there,
\* at a time since the call got to run.
LEMMA PersistCharges ==
    ASSUME Base, NEW c \in Calls, Persist(c)
    PROVE  \E at \in now[c]..clock :
              /\ at \in Nat
              /\ usage' = usage \cup {AssessmentOf(c, at)}
              /\ events' = events \cup {AssessmentOf(c, at)}
              /\ summaries' = summaries \cup {AssessmentOf(c, at)}
              /\ AssessmentOf(c, at).call = c
              /\ AssessmentOf(c, at).target = Ask(c).target
              /\ AssessmentOf(c, at).host = host[c]
              /\ AssessmentOf(c, at).at = at
    BY DEF Base, TypeOK, Persist, AssessmentOf

LEMMA ChargesStay ==
    ASSUME Base, [Next]_vars
    PROVE  usage \subseteq usage'
    BY OnlyPersistCharges, PersistCharges

-----------------------------------------------------------------------------
(* Each call is charged at most once, and after persist it is over         *)

\* A charged call has left persist for good.
ChargedIsPast == \A u \in usage : pc[u.call] \in Ended \cup {"release"}

LEMMA NextChargedIsPast ==
    ASSUME Base, ChargedIsPast, [Next]_vars
    PROVE  ChargedIsPast'
<1>1. \A c \in Calls : pc[c] \in Ended \cup {"release"} => pc'[c] \in Ended \cup {"release"}
    <2>1. CASE \E d \in Calls : Arrive(d)
        BY <2>1 DEF Base, TypeOK, Arrive, ResolveTarget, RefuseTarget, BeginAndGoto, Goto, Ended
    <2>2. ASSUME NEW d \in Calls, Handle(d)
          PROVE  \A c \in Calls : pc[c] \in Ended \cup {"release"} => pc'[c] \in Ended \cup {"release"}
        <3>1. CASE Reserve(d)
            BY <3>1 DEF Base, TypeOK, Reserve, ReserveInsert, ReserveConflict, SelectGone, RefuseMismatch,
                        Replay, TakeOver, RefuseBusy, ReserveFails, Reserved, Selected, BeginAndGoto,
                        Goto, Ended
        <3>2. CASE ~Reserve(d)
            BY <2>2, <3>2 DEF Base, TypeOK, Handle, RunRemote, RunFails, Persist, PersistRollsBack,
                              Release, ReleaseFails, AfterFailure, Goto, Ended
        <3> QED
            BY <3>1, <3>2
    <2>3. CASE ~\E d \in Calls : Arrive(d) \/ Handle(d)
        BY <2>3 DEF Base, TypeOK, Next, Discover, DeleteEndpoint, Crash, Tick, Ended,
                    vars, tables, callState
    <2> QED
        BY <2>1, <2>2, <2>3
<1>2. \A u \in usage : u.call \in Calls
    BY DEF Base, TypeOK, Assessments
<1>3. CASE UNCHANGED usage
    BY <1>1, <1>2, <1>3 DEF ChargedIsPast
<1>4. ASSUME NEW c \in Calls, Persist(c)
      PROVE  ChargedIsPast'
    <2>1. PICK at \in now[c]..clock : /\ usage' = usage \cup {AssessmentOf(c, at)}
                                      /\ AssessmentOf(c, at).call = c
        BY <1>4, PersistCharges
    <2>2. pc'[c] \in Ended \cup {"release"}
        BY <1>4 DEF Base, TypeOK, Persist, AfterFailure, Goto, Ended
    <2> QED
        BY <1>1, <1>2, <2>1, <2>2 DEF ChargedIsPast
<1> QED
    BY <1>3, <1>4, OnlyPersistCharges

-----------------------------------------------------------------------------
(* The bill: whom it charges                                               *)

\* What resolve_target settled on, for as long as the handler may charge it.
HostBelongs(c) ==
    /\ Ask(c).target \in targets => host[c] \in discovered[Ask(c).target]
    /\ Ask(c).ip # AnyHost => host[c] \in Network[Ask(c).target]
HostsBelong == \A c \in Calls : pc[c] \in Live => HostBelongs(c)

\* A charge names a request that is known, and is for the endpoint it asked about.
ChargedAsAsked == \A u \in usage : u.target = Ask(u.call).target

Books == LedgersAgree /\ HostsBelong /\ ChargedIsPast /\ ChargedAsAsked /\ ChargedHostBelongs

LEMMA InitBooks == Init => Books
    BY DEF Init, Books, LedgersAgree, HostsBelong, ChargedIsPast, ChargedAsAsked, ChargedHostBelongs,
           Live, Holding

\* The address resolve_target settles on is one discovered at the endpoint.
LEMMA ResolvedIsDiscovered ==
    ASSUME TypeOK, NEW ask \in Asks, Resolvable(ask)
    PROVE  /\ Resolved(ask) \in discovered[ask.target]
           /\ ask.ip # AnyHost => Resolved(ask) \in Network[ask.target]
<1> DEFINE D == discovered[ask.target]
<1>1. D \in SUBSET Hosts /\ D # {}
    BY DEF TypeOK, Resolvable, Asks
<1>2. CASE ask.ip = AnyHost
    <2>1. D \in SUBSET Nat
        BY <1>1, InputsAssumption DEF InputsAssumption
    <2> HIDE DEF D
    <2>2. \E h \in D : \A g \in D : h <= g
        BY <2>1, <1>1, LeastExists
    <2>3. First(D) \in D
        BY <2>2 DEF First
    <2> QED
        BY <1>2, <2>3 DEF Resolved, D
<1>3. CASE ask.ip # AnyHost
    BY <1>3 DEF Resolved, Resolvable
<1> QED
    BY <1>2, <1>3

\* Discovery only adds hosts to an endpoint, until the endpoint goes for good.
LEMMA DiscoveredGrows ==
    ASSUME Base, [Next]_vars
    PROVE  /\ targets' \subseteq targets
           /\ \A t \in targets' : discovered[t] \subseteq discovered'[t]
<1>1. CASE \E c \in Calls : Arrive(c)
    BY <1>1 DEF Arrive, ResolveTarget, RefuseTarget, tables
<1>2. ASSUME NEW c \in Calls, Handle(c)
      PROVE  UNCHANGED <<targets, discovered>>
    <2>1. CASE Reserve(c)
        BY <2>1 DEF Reserve, ReserveInsert, ReserveConflict, SelectGone, RefuseMismatch,
                    Replay, TakeOver, RefuseBusy, ReserveFails, Reserved, tables
    <2>2. CASE ~Reserve(c)
        BY <1>2, <2>2 DEF Handle, RunRemote, RunFails, Persist, PersistRollsBack, Release,
                          ReleaseFails, tables
    <2> QED
        BY <2>1, <2>2
<1>3. CASE ~\E c \in Calls : Arrive(c) \/ Handle(c)
    BY <1>3 DEF Base, TypeOK, Next, Discover, DeleteEndpoint, Crash, Tick, vars, tables
<1> QED
    BY <1>1, <1>2, <1>3

LEMMA NextHostsBelong ==
    ASSUME Base, HostsBelong, [Next]_vars
    PROVE  HostsBelong'
<1> SUFFICES ASSUME NEW c \in Calls, pc'[c] \in Live
             PROVE  HostBelongs(c)'
    BY DEF HostsBelong
<1>1. CASE pc[c] = "new"
    <2>1. PICK k \in Keys \cup {NoKey}, ask \in Asks : ResolveTarget(c, k, ask)
        <3>1. ASSUME NEW d \in Calls, Handle(d)
              PROVE  FALSE
            BY <1>1, <3>1 DEF Base, TypeOK, Handle, Reserve, ReserveInsert, ReserveConflict, SelectGone,
                  RefuseMismatch, Replay, TakeOver, RefuseBusy, ReserveFails, Reserved, Selected,
                  RunRemote, RunFails, Persist,
                  PersistRollsBack, Release, ReleaseFails, AfterFailure, BeginAndGoto, Goto, Ended,
                  Live, Holding
        <3>2. CASE \E d \in Calls : Arrive(d)
            BY <1>1, <3>2 DEF Base, TypeOK, Arrive, ResolveTarget, RefuseTarget, BeginAndGoto, Goto, Ended,
                              Live, Holding
        <3>3. CASE ~\E d \in Calls : Arrive(d) \/ Handle(d)
            BY <1>1, <3>3 DEF Base, TypeOK, Next, Discover, DeleteEndpoint, Crash, Tick, Live, Holding,
                              vars, tables, callState
        <3> QED
            BY <3>1, <3>2, <3>3
    <2>2. /\ job'[c] = [key |-> k, ask |-> ask] /\ host'[c] = Resolved(ask)
          /\ UNCHANGED <<targets, discovered>>
        BY <2>1 DEF Base, TypeOK, ResolveTarget, tables
    <2>3. Ask(c)' = ask
        BY <2>2 DEF Ask
    <2>4. /\ Resolved(ask) \in discovered[ask.target]
          /\ ask.ip # AnyHost => Resolved(ask) \in Network[ask.target]
        BY <2>1, ResolvedIsDiscovered DEF Base, ResolveTarget
    <2> QED
        BY <2>2, <2>3, <2>4 DEF HostBelongs
<1>2. CASE pc[c] # "new"
    <2>1. pc[c] \in Live /\ host'[c] = host[c]
        <3>1. CASE \E d \in Calls : Arrive(d)
            BY <1>2, <3>1 DEF Base, TypeOK, Arrive, ResolveTarget, RefuseTarget, BeginAndGoto, Goto, Ended
        <3>2. ASSUME NEW d \in Calls, Handle(d)
              PROVE  pc[c] \in Live /\ host'[c] = host[c]
            <4>1. CASE Reserve(d)
                BY <4>1 DEF Base, TypeOK, Reserve, ReserveInsert, ReserveConflict, SelectGone,
                  RefuseMismatch, Replay, TakeOver, RefuseBusy, ReserveFails, Reserved, Selected,
                  BeginAndGoto, Goto, Ended, Live, Holding
            <4>2. CASE ~Reserve(d)
                BY <3>2, <4>2 DEF Base, TypeOK, Handle, RunRemote, RunFails, Persist, PersistRollsBack,
                  Release, ReleaseFails, AfterFailure, Goto, Ended, Live, Holding
            <4> QED
                BY <4>1, <4>2
        <3>3. CASE ~\E d \in Calls : Arrive(d) \/ Handle(d)
            BY <3>3 DEF Base, TypeOK, Next, Discover, DeleteEndpoint, Crash, Tick, Live, Holding,
                        vars, tables, callState
        <3> QED
            BY <3>1, <3>2, <3>3
    <2>2. Ask(c)' = Ask(c)
        BY <1>2, RequestStays DEF Ask
    <2> QED
        BY <2>1, <2>2, DiscoveredGrows DEF HostsBelong, HostBelongs
<1> QED
    BY <1>1, <1>2

LEMMA PersistBooks ==
    ASSUME Base, Books, NEW c \in Calls, Persist(c)
    PROVE  LedgersAgree' /\ ChargedAsAsked' /\ ChargedHostBelongs'
<1>1. PICK at \in now[c]..clock :
          /\ usage' = usage \cup {AssessmentOf(c, at)}
          /\ events' = events \cup {AssessmentOf(c, at)}
          /\ summaries' = summaries \cup {AssessmentOf(c, at)}
          /\ AssessmentOf(c, at).call = c
          /\ AssessmentOf(c, at).target = Ask(c).target
          /\ AssessmentOf(c, at).host = host[c]
    BY PersistCharges
<1>2. UNCHANGED <<targets, discovered, job>> /\ Ask(c).target \in targets /\ pc[c] \in Live
    BY DEF Persist, EndpointStillThere, Live, Holding
<1>3. HostBelongs(c)
    BY <1>2 DEF Books, HostsBelong
<1> DEFINE new == AssessmentOf(c, at)
<1> HIDE DEF new
<1>4. LedgersAgree'
    BY <1>1, <1>2 DEF Books, LedgersAgree, new
<1>5. ChargedAsAsked'
    BY <1>1, <1>2 DEF Books, ChargedAsAsked, Ask, new
<1>6. ChargedHostBelongs'
    BY <1>1, <1>2, <1>3 DEF Books, ChargedHostBelongs, HostBelongs, Ask, new
<1> QED
    BY <1>4, <1>5, <1>6

LEMMA NextBooks == Base /\ Books /\ [Next]_vars => Books'
<1> SUFFICES ASSUME Base, Books, [Next]_vars
             PROVE  Books'
    OBVIOUS
<1>1. HostsBelong' /\ ChargedIsPast'
    BY NextHostsBelong, NextChargedIsPast DEF Books
<1>2. CASE \E c \in Calls : Persist(c)
    BY <1>1, <1>2, PersistBooks DEF Books
<1>3. CASE ~\E c \in Calls : Persist(c)
    <2>1. UNCHANGED <<usage, events>>
        BY <1>3, OnlyPersistCharges
    <2>2. \A u \in usage : /\ u.call \in Calls /\ u.target \in Targets
                           /\ Ask(u.call)' = Ask(u.call)
        <3> SUFFICES ASSUME NEW u \in usage
                     PROVE  /\ u.call \in Calls /\ u.target \in Targets
                            /\ Ask(u.call)' = Ask(u.call)
            OBVIOUS
        <3>1. u.call \in Calls /\ u.target \in Targets
            BY DEF Base, TypeOK, Assessments
        <3>2. pc[u.call] # "new"
            BY DEF Books, ChargedIsPast, Ended
        <3> QED
            BY <3>1, <3>2, RequestStays DEF Ask
    <2>3. ChargedAsAsked' /\ ChargedHostBelongs'
        BY <2>1, <2>2, DiscoveredGrows DEF Books, ChargedAsAsked, ChargedHostBelongs
    <2>4. LedgersAgree'
        <3>1. CASE \E t \in Targets : DeleteEndpoint(t)
            BY <2>1, <3>1 DEF Books, LedgersAgree, DeleteEndpoint
        <3>2. CASE ~\E t \in Targets : DeleteEndpoint(t)
            <4>1. UNCHANGED <<summaries, targets>>
                <5>1. CASE \E d \in Calls : Arrive(d)
                    BY <5>1 DEF Arrive, ResolveTarget, RefuseTarget, tables
                <5>2. ASSUME NEW d \in Calls, Handle(d)
                      PROVE  UNCHANGED <<summaries, targets>>
                    <6>1. CASE Reserve(d)
                        BY <6>1 DEF Reserve, ReserveInsert, ReserveConflict, SelectGone, RefuseMismatch,
                                    Replay, TakeOver, RefuseBusy, ReserveFails, Reserved, tables
                    <6>2. CASE ~Reserve(d)
                        BY <1>3, <5>2, <6>2 DEF Handle, RunRemote, RunFails, PersistRollsBack, Release,
                                                ReleaseFails, tables
                    <6> QED
                        BY <6>1, <6>2
                <5>3. CASE ~\E d \in Calls : Arrive(d) \/ Handle(d)
                    BY <3>2, <5>3 DEF Next, Discover, Crash, Tick, vars, tables
                <5> QED
                    BY <5>1, <5>2, <5>3
            <4> QED
                BY <2>1, <4>1 DEF Books, LedgersAgree
        <3> QED
            BY <3>1, <3>2
    <2> QED
        BY <1>1, <2>3, <2>4 DEF Books
<1> QED
    BY <1>2, <1>3

LEMMA BooksInvariant == Spec => []Books
    BY InitBase, NextBase, InitBooks, NextBooks, PTL DEF Spec

\* The summary, the usage event and the domain event of an assessment are
\* written together or not at all, and the deletion of an endpoint takes its
\* summaries and nothing else.
THEOREM ThreeLedgersAgree == Spec => []LedgersAgree
<1>1. Books => LedgersAgree
    BY DEF Books
<1> QED
    BY <1>1, BooksInvariant, PTL

\* No request is charged for a host outside of what was discovered at its
\* endpoint, or for a named address outside of the endpoint's range, although
\* discovery and deletion go on while the remote assessment runs.
THEOREM OnlyOwnHostsCharged == Spec => []ChargedHostBelongs
<1>1. Books => ChargedHostBelongs
    BY DEF Books
<1> QED
    BY <1>1, BooksInvariant, PTL

-----------------------------------------------------------------------------
(* The bill: periods                                                       *)

\* Whatever a step does, the bill of every period keeps its hosts: charges
\* are only ever added, and the deletion of an endpoint leaves them.
THEOREM BillsNeverShrink == Spec => BillNeverShrinks
<1>1. Base /\ [Next]_vars =>
          [\A from, to \in 0..MaxClock + 1 :
              BillableHosts(from, to) \subseteq BillableHosts(from, to)']_vars
    <2> SUFFICES ASSUME Base, [Next]_vars, NEW from, NEW to
                 PROVE  BillableHosts(from, to) \subseteq BillableHosts(from, to)'
        OBVIOUS
    <2> QED
        BY ChargesStay DEF BillableHosts, Charges
<1> QED
    BY <1>1, BaseInvariant, PTL DEF Spec, BillNeverShrinks

LEMMA TimelyInvariant == Spec => []Timely
<1> USE TimingAssumption DEF TimingAssumption
<1>1. Init => Timely
    BY DEF Init, Timely, Holding
<1>2. Base /\ Timely /\ [Next]_vars => Timely'
    <2> SUFFICES ASSUME Base, Timely, [Next]_vars, NEW c \in Calls, pc'[c] \in Holding \cup {"select"}
                 PROVE  clock' <= now'[c] + MaxHold
        BY DEF Timely
    <2>1. CASE \E d \in Calls : Arrive(d)
        BY <2>1 DEF Base, TypeOK, Timely, Arrive, ResolveTarget, RefuseTarget, BeginAndGoto, Goto,
                    Ended, Holding
    <2>2. ASSUME NEW d \in Calls, Handle(d)
          PROVE  clock' <= now'[c] + MaxHold
        <3>1. CASE Reserve(d)
            BY <3>1 DEF Base, TypeOK, Timely, Reserve, ReserveInsert, ReserveConflict, SelectGone,
                        RefuseMismatch, Replay, TakeOver, RefuseBusy, ReserveFails, Reserved, Selected,
                        BeginAndGoto, Goto,
                        Holding, Ended
        <3>2. CASE ~Reserve(d)
            BY <2>2, <3>2 DEF Base, TypeOK, Timely, Handle, RunRemote, RunFails, Persist,
                        PersistRollsBack, Release, ReleaseFails, AfterFailure, Goto, Holding, Ended
        <3> QED
            BY <3>1, <3>2
    <2>3. CASE Tick
        BY <2>3 DEF Base, TypeOK, Timely, Tick, OnTime, callState
    <2>4. CASE ~Tick /\ ~\E d \in Calls : Arrive(d) \/ Handle(d)
        BY <2>4 DEF Base, TypeOK, Timely, Next, Discover, DeleteEndpoint, Crash, Live, Holding,
                    vars, tables, callState
    <2> QED
        BY <2>1, <2>2, <2>3, <2>4
<1> QED
    BY <1>1, <1>2, BaseInvariant, PTL DEF Spec

\* A bill is final once MaxHold has passed since the end of its period: a
\* charge is dated when its run ended, and its handler does not live longer.
THEOREM BillsAreFinal == Spec => BillIsFinal
<1> USE TimingAssumption DEF TimingAssumption
<1>1. Base /\ Timely /\ [Next]_vars =>
          [\A from, to \in 0..MaxClock + 1 :
              clock >= to + MaxHold => BillableHosts(from, to) = BillableHosts(from, to)']_vars
    <2> SUFFICES ASSUME Base, Timely, [Next]_vars, NEW from \in 0..MaxClock + 1,
                        NEW to \in 0..MaxClock + 1, clock >= to + MaxHold
                 PROVE  BillableHosts(from, to) = BillableHosts(from, to)'
        OBVIOUS
    <2>1. Charges(from, to)' = Charges(from, to)
        <3>1. ASSUME NEW c \in Calls, Persist(c)
              PROVE  Charges(from, to)' = Charges(from, to)
            <4>1. PICK at \in now[c]..clock : /\ at \in Nat
                                              /\ usage' = usage \cup {AssessmentOf(c, at)}
                                              /\ AssessmentOf(c, at).at = at
                BY <3>1, PersistCharges
            <4>2. clock <= now[c] + MaxHold
                BY <3>1 DEF Timely, Persist, Holding
            <4>3. ~(at < to)
                BY <4>1, <4>2 DEF Base, TypeOK
            <4> QED
                BY <4>1, <4>3 DEF Charges
        <3> QED
            BY <3>1, OnlyPersistCharges DEF Charges
    <2> QED
        BY <2>1 DEF BillableHosts
<1> QED
    BY <1>1, BaseInvariant, TimelyInvariant, PTL DEF Spec, BillIsFinal

-----------------------------------------------------------------------------
(* Keys: no orphans, and answers that were charged                         *)

\* Behind a reservation: a handler of its key, or what is left of one.
Behind(c, k) ==
    /\ Key(c) = k
    /\ origin[c] = rows[k].origin
    /\ pc[c] \in Holding \cup LeftBehind

\* What the steps do to the rows of keys.
LEMMA RowSteps ==
    ASSUME Base, [Next]_vars, NEW k \in Keys, rows'[k] # rows[k]
    PROVE  \/ rows'[k] = Absent
           \/ \E c \in Calls : ReserveInsert(c) /\ k = Key(c) /\ rows'[k] = Reservation(c)
           \/ \E c \in Calls : /\ TakeOver(c) /\ k = Key(c)
                               /\ rows[k] \in Row /\ rows[k].state = "in_progress"
                               /\ rows'[k] = [rows[k] EXCEPT !.updated = now[c]]
           \/ \E c \in Calls : /\ Persist(c) /\ k = Key(c)
                               /\ rows[k] \in Row /\ rows[k].state = "in_progress"
                               /\ rows'[k] = [rows[k] EXCEPT !.state = "completed", !.body = c,
                                                             !.updated = clock]
<1>0. \A t : Purged(t)[k] \in {rows[k], Absent}
    BY DEF Purged
<1>1. CASE \E c \in Calls : Arrive(c)
    BY <1>1 DEF Arrive, ResolveTarget, RefuseTarget, tables
<1>2. ASSUME NEW c \in Calls, ReserveInsert(c)
      PROVE  rows'[k] = Absent \/ (k = Key(c) /\ rows'[k] = Reservation(c))
    BY <1>0, <1>2 DEF ReserveInsert, Purged
<1>3. ASSUME NEW c \in Calls, TakeOver(c)
      PROVE  \/ rows'[k] = Absent
             \/ /\ k = Key(c)
                /\ rows[k] \in Row /\ rows[k].state = "in_progress"
                /\ rows'[k] = [rows[k] EXCEPT !.updated = now[c]]
    BY <1>0, <1>3 DEF Base, TypeOK, TakeOver, Selected, Renewed, Purged
<1>4. ASSUME NEW c \in Calls, Persist(c)
      PROVE  /\ k = Key(c)
             /\ rows[k] \in Row /\ rows[k].state = "in_progress"
             /\ rows'[k] = [rows[k] EXCEPT !.state = "completed", !.body = c, !.updated = clock]
    <2>1. Key(c) # NoKey /\ k = Key(c)
        BY <1>4 DEF Base, TypeOK, Persist, CloseKey
    <2> QED
        BY <1>4, <2>1 DEF Base, TypeOK, Persist, CloseKey, Completes, Absent
<1>5. ASSUME NEW c \in Calls, Handle(c), ~ReserveInsert(c), ~TakeOver(c), ~Persist(c)
      PROVE  rows'[k] = Absent
    <2>1. CASE SelectGone(c) \/ Replay(c)
        BY <1>0, <2>1 DEF SelectGone, Replay
    <2>2. CASE Release(c)
        BY <2>2 DEF Base, TypeOK, Release
    <2>3. CASE ~(SelectGone(c) \/ Replay(c) \/ Release(c))
        BY <1>5, <2>3 DEF Handle, Reserve, ReserveConflict, RefuseMismatch, RefuseBusy, ReserveFails, RunRemote,
                          RunFails, PersistRollsBack, ReleaseFails, tables
    <2> QED
        BY <2>1, <2>2, <2>3
<1>6. CASE ~\E c \in Calls : Arrive(c) \/ Handle(c)
    BY <1>6 DEF Next, Discover, DeleteEndpoint, Crash, Tick, vars, tables
<1> QED
    BY <1>1, <1>2, <1>3, <1>4, <1>5, <1>6

\* A handler with a key gives its place up only together with its row.
LEMMA HolderLeavesNoRow ==
    ASSUME Base, [Next]_vars, NEW c \in Calls, pc[c] \in Holding \cup LeftBehind,
           Key(c) \in Keys, rows'[Key(c)].state = "in_progress"
    PROVE  /\ pc'[c] \in Holding \cup LeftBehind
           /\ origin'[c] = origin[c]
<1>0. Key(c) # NoKey
    BY InputsAssumption DEF InputsAssumption
<1>1. CASE \E d \in Calls : Arrive(d)
    BY <1>1 DEF Base, TypeOK, Arrive, ResolveTarget, RefuseTarget, BeginAndGoto, Goto, Ended, Holding,
                LeftBehind
<1>2. ASSUME NEW d \in Calls, Reserve(d)
      PROVE  pc'[c] = pc[c] /\ origin'[c] = origin[c]
    BY <1>2 DEF Base, TypeOK, Reserve, ReserveInsert, ReserveConflict, SelectGone, RefuseMismatch,
                Replay, TakeOver, RefuseBusy, ReserveFails, Reserved, Selected, BeginAndGoto, Goto,
                Ended, Holding, LeftBehind
<1>3. ASSUME NEW d \in Calls, RunRemote(d) \/ RunFails(d) \/ PersistRollsBack(d) \/ ReleaseFails(d)
      PROVE  pc'[c] \in Holding \cup LeftBehind /\ origin'[c] = origin[c]
    BY <1>0, <1>3 DEF Base, TypeOK, RunRemote, RunFails, PersistRollsBack, ReleaseFails, AfterFailure,
                      Goto, Ended, Holding, LeftBehind
<1>4. ASSUME NEW d \in Calls, Persist(d)
      PROVE  pc'[c] \in Holding \cup LeftBehind /\ origin'[c] = origin[c]
    <2>1. CASE d = c
        <3>1. rows[Key(c)] \in Row
            BY <1>0, <1>4, <2>1 DEF Base, TypeOK, Persist, Completes, Absent
        <3>2. rows'[Key(c)] = [rows[Key(c)] EXCEPT !.state = "completed", !.body = c, !.updated = clock]
            BY <1>0, <1>4, <2>1 DEF Base, TypeOK, Persist, CloseKey
        <3> QED
            BY <3>1, <3>2 DEF Row
    <2>2. CASE d # c
        BY <1>4, <2>2 DEF Base, TypeOK, Persist, Goto, Ended
    <2> QED
        BY <2>1, <2>2
<1>5. ASSUME NEW d \in Calls, Release(d)
      PROVE  pc'[c] \in Holding \cup LeftBehind /\ origin'[c] = origin[c]
    <2>1. d # c
        BY <1>5 DEF Base, TypeOK, Release, Deletes, Absent
    <2> QED
        BY <1>5, <2>1 DEF Base, TypeOK, Release, Goto, Ended, Holding, LeftBehind
<1>6. CASE ~\E d \in Calls : Arrive(d) \/ Handle(d)
    BY <1>6 DEF Base, TypeOK, Next, Discover, DeleteEndpoint, Crash, Tick, Live, Holding, LeftBehind,
                vars, tables, callState
<1> QED
    BY <1>1, <1>2, <1>3, <1>4, <1>5, <1>6 DEF Handle

LEMMA NextNoOrphan ==
    ASSUME Base, NoOrphanReservation, [Next]_vars
    PROVE  NoOrphanReservation'
<1> SUFFICES ASSUME NEW k \in Keys, rows'[k].state = "in_progress"
             PROVE  \E c \in Calls : Behind(c, k)'
    BY DEF NoOrphanReservation, Behind, Key
<1>1. ASSUME rows[k].state = "in_progress", rows'[k].origin = rows[k].origin,
             ~\E c \in Calls : TakeOver(c) /\ k = Key(c)
      PROVE  \E c \in Calls : Behind(c, k)'
    <2>1. PICK c \in Calls : Behind(c, k)
        BY <1>1 DEF NoOrphanReservation, Behind
    <2>2. pc'[c] \in Holding \cup LeftBehind /\ origin'[c] = origin[c]
        BY <2>1, HolderLeavesNoRow DEF Behind
    <2>3. Key(c)' = k
        BY <2>1, RequestStays DEF Behind, Key, Holding, LeftBehind
    <2> QED
        BY <1>1, <2>1, <2>2, <2>3 DEF Behind
<1>2. CASE rows'[k] = rows[k] /\ ~\E c \in Calls : TakeOver(c) /\ k = Key(c)
    BY <1>1, <1>2
<1>3. ASSUME NEW c \in Calls, ReserveInsert(c), k = Key(c), rows'[k] = Reservation(c)
      PROVE  Behind(c, k)'
    BY <1>3 DEF Base, TypeOK, ReserveInsert, Reserved, Reservation, BeginAndGoto, Behind, Key, Holding,
                LeftBehind
<1>4. ASSUME NEW c \in Calls, TakeOver(c), k = Key(c)
      PROVE  Behind(c, k)'
    <2>1. rows[k] \in Row
        BY <1>4 DEF Base, TypeOK, TakeOver, Selected
    <2>2. rows'[k] = [rows[k] EXCEPT !.updated = now[c]]
        BY <1>4 DEF Base, TypeOK, TakeOver, Renewed, Purged
    <2>3. rows'[k].origin = rows[k].origin
        BY <2>1, <2>2 DEF Row
    <2>4. origin'[c] = rows[k].origin /\ pc'[c] \in Reserved /\ Key(c)' = k
        BY <1>4 DEF Base, TypeOK, TakeOver, Goto, Key
    <2> QED
        BY <2>3, <2>4 DEF Behind, Reserved, Holding, LeftBehind
<1>5. ASSUME NEW c \in Calls, rows[k] \in Row,
             rows'[k] = [rows[k] EXCEPT !.state = "completed", !.body = c, !.updated = clock]
      PROVE  FALSE
    BY <1>5 DEF Row
<1>6. CASE rows'[k] = Absent
    BY <1>6 DEF Absent
<1> QED
    BY <1>2, <1>3, <1>4, <1>5, <1>6, RowSteps

\* A key that answers answers with what was charged.
LEMMA NextCompletedMeansCharged ==
    ASSUME Base, CompletedMeansCharged, [Next]_vars
    PROVE  CompletedMeansCharged'
<1> SUFFICES ASSUME NEW k \in Keys, rows'[k].state = "completed"
             PROVE  \E u \in usage' : u.call = rows'[k].body
    BY DEF CompletedMeansCharged
<1>1. CASE rows'[k] = rows[k]
    BY <1>1, ChargesStay DEF CompletedMeansCharged
<1>2. CASE rows'[k] = Absent
    BY <1>2 DEF Absent
<1>3. ASSUME NEW c \in Calls, rows'[k] = Reservation(c)
      PROVE  FALSE
    BY <1>3 DEF Reservation
<1>4. ASSUME NEW c \in Calls, rows[k] \in Row, rows[k].state = "in_progress",
             rows'[k] = [rows[k] EXCEPT !.updated = now[c]]
      PROVE  FALSE
    BY <1>4 DEF Row
<1>5. ASSUME NEW c \in Calls, Persist(c), rows[k] \in Row,
             rows'[k] = [rows[k] EXCEPT !.state = "completed", !.body = c, !.updated = clock]
      PROVE  \E u \in usage' : u.call = rows'[k].body
    <2>1. rows'[k].body = c
        BY <1>5 DEF Row
    <2>2. \E u \in usage' : u.call = c
        BY <1>5, PersistCharges
    <2> QED
        BY <2>1, <2>2
<1> QED
    BY <1>1, <1>2, <1>3, <1>4, <1>5, RowSteps

LEMMA InitKeys == Init => NoOrphanReservation /\ CompletedMeansCharged
    BY DEF Init, NoOrphanReservation, CompletedMeansCharged, Absent

\* Whatever handlers fail, stall, take over or die, a key is reserved only
\* with a handler behind it, or with one that crashed or could not release it.
THEOREM NoOrphan == Spec => []NoOrphanReservation
    BY BaseInvariant, InitKeys, NextNoOrphan, PTL DEF Spec

\* No replay can answer with an assessment that was rolled back: the row is
\* completed in the transaction that charges.
THEOREM AnswersWereCharged == Spec => []CompletedMeansCharged
    BY BaseInvariant, InitKeys, NextCompletedMeansCharged, PTL DEF Spec

-----------------------------------------------------------------------------
(* The handlers implement the ledger of keys                               *)

\* A row as the ledger sees it.
SlotOf(row) ==
    IF row.state = "absent" THEN [state |-> "free"]
    ELSE IF row.state = "in_progress" THEN [state |-> "reserved", created |-> row.created]
    ELSE [state |-> "answered", created |-> row.created, by |-> row.body]

LEMMA SlotIsRow ==
    /\ LedgerSlot = [k \in Keys |-> SlotOf(rows[k])]
    /\ LedgerSlot' = [k \in Keys |-> SlotOf(rows'[k])]
    BY DEF LedgerSlot, SlotOf

LEMMA SlotFacts ==
    /\ SlotOf(Absent) = Ledger!Free
    /\ \A row \in Row : /\ SlotOf(row) # Ledger!Free
                        /\ SlotOf(row).created = row.created
                        /\ row.state # "absent"
<1>1. SlotOf(Absent) = Ledger!Free
    BY DEF SlotOf, Absent, Ledger!Free
<1>2. ASSUME NEW row \in Row
      PROVE  SlotOf(row) # Ledger!Free /\ SlotOf(row).created = row.created /\ row.state # "absent"
    <2>1. CASE row.state = "in_progress"
        <3>1. SlotOf(row) = [state |-> "reserved", created |-> row.created]
            BY <2>1 DEF SlotOf
        <3>2. SlotOf(row).state = "reserved"
            BY <3>1
        <3> QED
            BY <2>1, <3>1, <3>2 DEF Ledger!Free
    <2>2. CASE row.state = "completed"
        <3>1. SlotOf(row) = [state |-> "answered", created |-> row.created, by |-> row.body]
            BY <2>2 DEF SlotOf
        <3>2. SlotOf(row).state = "answered"
            BY <3>1
        <3> QED
            BY <2>2, <3>1, <3>2 DEF Ledger!Free
    <2> QED
        BY <2>1, <2>2 DEF Row
<1> QED
    BY <1>1, <1>2

\* What a purge at a time that has come removes, the ledger may forget.
Out(t) == {k \in Keys : Expired(rows[k], t)}

LEMMA PurgeForgets ==
    ASSUME Base, NEW t \in Nat, t <= clock
    PROVE  /\ Out(t) \subseteq Ledger!Old
           /\ \A k \in Keys : SlotOf(Purged(t)[k]) = Ledger!Without(Out(t))[k]
<1> USE TimingAssumption DEF TimingAssumption
<1>1. Out(t) \subseteq Ledger!Old
    <2> SUFFICES ASSUME NEW k \in Keys, Expired(rows[k], t)
                 PROVE  LedgerSlot[k] # Ledger!Free /\ LedgerSlot[k].created + Validity < clock
        BY DEF Out, Ledger!Old
    <2>1. rows[k] \in Row /\ rows[k].created \in Nat
        BY DEF Base, TypeOK, Expired, Absent, Row
    <2>2. LedgerSlot[k] = SlotOf(rows[k])
        BY SlotIsRow
    <2>3. rows[k].created + Validity < clock
        BY <2>1 DEF Expired, Base, TypeOK
    <2> QED
        BY <2>1, <2>2, <2>3, SlotFacts
<1>2. ASSUME NEW k \in Keys
      PROVE  SlotOf(Purged(t)[k]) = Ledger!Without(Out(t))[k]
    BY SlotIsRow, SlotFacts DEF Purged, Out, Ledger!Without
<1> QED
    BY <1>1, <1>2

\* Steps of reserve that only purge.
LEMMA PurgeIsForget ==
    ASSUME Base, NEW t \in Nat, t <= clock, rows' = Purged(t), UNCHANGED <<clock, usage>>
    PROVE  Ledger!Next
<1>1. Out(t) \in SUBSET Ledger!Old
    BY PurgeForgets
<1>2. LedgerSlot' = Ledger!Without(Out(t))
    <2>1. LedgerSlot' = [k \in Keys |-> SlotOf(Purged(t)[k])]
        BY SlotIsRow
    <2> QED
        BY <2>1, PurgeForgets DEF Ledger!Without
<1>3. Ledger!Forget(Out(t))
    BY <1>2 DEF Ledger!Forget
<1> QED
    BY <1>1, <1>3 DEF Ledger!Next

\* The insertion of a row reserves its key.
LEMMA InsertReserves ==
    ASSUME Base, NEW c \in Calls, ReserveInsert(c)
    PROVE  Ledger!Next
<1> DEFINE k == Key(c)
           old == Out(clock)
<1>1. k \in Keys /\ clock \in Nat /\ UNCHANGED <<clock, usage>>
    BY DEF Base, TypeOK, RequestOK, ReserveInsert, Jobs, Key
<1>2. old \in SUBSET Ledger!Old /\ \A j \in Keys : SlotOf(Purged(clock)[j]) = Ledger!Without(old)[j]
    BY <1>1, PurgeForgets
<1>3. Ledger!Without(old)[k] = Ledger!Free
    BY <1>1, <1>2, SlotFacts DEF ReserveInsert
<1>4. SlotOf(Reservation(c)) = Ledger!Reserved(clock)
    BY DEF SlotOf, Reservation, Ledger!Reserved
<1>5. LedgerSlot' = [Ledger!Without(old) EXCEPT ![k] = Ledger!Reserved(clock)]
    <2>1. LedgerSlot' = [j \in Keys |-> SlotOf(rows'[j])]
        BY SlotIsRow
    <2>2. rows' = [Purged(clock) EXCEPT ![k] = Reservation(c)]
        BY DEF ReserveInsert
    <2>3. \A j \in Keys : rows'[j] = IF j = k THEN Reservation(c) ELSE Purged(clock)[j]
        BY <2>2 DEF Purged
    <2>4. \A j \in Keys : SlotOf(rows'[j]) = IF j = k THEN Ledger!Reserved(clock)
                                                      ELSE Ledger!Without(old)[j]
        BY <1>2, <1>4, <2>3
    <2>5. Ledger!Without(old) = [j \in Keys |-> Ledger!Without(old)[j]]
        BY DEF Ledger!Without
    <2> HIDE DEF k, old
    <2> QED
        BY <2>1, <2>4, <2>5
<1>6. Ledger!Reserve(k, old)
    BY <1>1, <1>3, <1>5 DEF Ledger!Reserve
<1> QED
    BY <1>1, <1>2, <1>6 DEF Ledger!Next

\* A takeover is nothing to the ledger but the purge that comes with it.
LEMMA TakeOverForgets ==
    ASSUME Base, NEW c \in Calls, TakeOver(c)
    PROVE  Ledger!Next
<1> DEFINE k == Key(c)
           old == Out(now[c]) \ {k}
<1>1. /\ k \in Keys /\ now[c] \in Nat /\ now[c] <= clock
      /\ rows[k] \in Row /\ rows[k].state = "in_progress"
      /\ UNCHANGED <<clock, usage>>
    BY DEF Base, TypeOK, RequestOK, TakeOver, Selected, Jobs, Key
<1>2. old \in SUBSET Ledger!Old
    BY <1>1, PurgeForgets
<1>3. SlotOf(Renewed(rows[k], now[c])) = SlotOf(rows[k])
    <2>1. /\ Renewed(rows[k], now[c]).state = "in_progress"
          /\ Renewed(rows[k], now[c]).created = rows[k].created
        BY <1>1 DEF Renewed, Row
    <2> QED
        BY <1>1, <2>1 DEF SlotOf
<1>4. LedgerSlot' = Ledger!Without(old)
    <2>1. LedgerSlot' = [j \in Keys |-> SlotOf(rows'[j])]
        BY SlotIsRow
    <2>2. \A j \in Keys : rows'[j] = IF j = k THEN Renewed(rows[k], now[c]) ELSE Purged(now[c])[j]
        BY DEF TakeOver, Purged
    <2>3. ASSUME NEW j \in Keys
          PROVE  SlotOf(rows'[j]) = IF j \in old THEN Ledger!Free ELSE LedgerSlot[j]
        BY <1>3, <2>2, SlotIsRow, SlotFacts DEF Purged, Out
    <2> HIDE DEF old
    <2> QED
        BY <2>1, <2>3 DEF Ledger!Without
<1>5. Ledger!Forget(old)
    BY <1>1, <1>4 DEF Ledger!Forget
<1> HIDE DEF old
<1> QED
    BY <1>2, <1>5 DEF Ledger!Next

\* The transaction of persist charges an assessment that was not charged
\* before and, in the same step, answers its key.
LEMMA PersistCharge ==
    ASSUME Base, ChargedIsPast, NEW c \in Calls, Persist(c)
    PROVE  Ledger!Next
<1> DEFINE k == Key(c)
           charged == {u.call : u \in usage}
<1>1. PICK at \in now[c]..clock : /\ usage' = usage \cup {AssessmentOf(c, at)}
                                  /\ AssessmentOf(c, at).call = c
    BY PersistCharges
<1>2. {u.call : u \in usage'} = charged \cup {c}
    BY <1>1
<1>3. c \notin charged
    BY DEF ChargedIsPast, Persist, Ended
<1>4. UNCHANGED clock
    BY DEF Persist
<1> HIDE DEF charged
<1>5. CASE k = NoKey
    <2>1. UNCHANGED LedgerSlot
        BY <1>5 DEF Persist, CloseKey, LedgerSlot
    <2>2. Ledger!ChargeWithoutKey(c)
        BY <1>2, <1>3, <1>4, <2>1 DEF Ledger!ChargeWithoutKey, charged
    <2> QED
        BY <2>2 DEF Ledger!Next
<1>6. CASE k # NoKey
    <2>1. k \in Keys /\ rows[k] \in Row /\ rows[k].state = "in_progress"
        BY <1>6 DEF Base, TypeOK, RequestOK, Persist, Completes, Jobs, Key, Absent
    <2> DEFINE answered == [rows[k] EXCEPT !.state = "completed", !.body = c, !.updated = clock]
    <2>2. answered.state = "completed" /\ answered.body = c /\ answered.created = rows[k].created
        BY <2>1 DEF Row
    <2>3. rows' = [rows EXCEPT ![k] = answered]
        BY <1>6 DEF Persist, CloseKey
    <2> HIDE DEF answered
    <2>4. SlotOf(answered) = Ledger!AnsweredBy(c, rows[k].created)
        BY <2>2 DEF SlotOf, Ledger!AnsweredBy
    <2>5. LedgerSlot[k] = [state |-> "reserved", created |-> rows[k].created]
        BY <2>1 DEF LedgerSlot
    <2>6. LedgerSlot[k].state = "reserved" /\ LedgerSlot[k].created = rows[k].created
        BY <2>5
    <2>7. LedgerSlot' = [LedgerSlot EXCEPT ![k] = Ledger!AnsweredBy(c, LedgerSlot[k].created)]
        <3>1. LedgerSlot' = [j \in Keys |-> SlotOf(rows'[j])]
            BY SlotIsRow
        <3>2. \A j \in Keys : SlotOf(rows'[j]) = IF j = k THEN Ledger!AnsweredBy(c, rows[k].created)
                                                          ELSE SlotOf(rows[j])
            BY <2>1, <2>3, <2>4 DEF Base, TypeOK
        <3> QED
            BY <2>6, <3>1, <3>2, SlotIsRow
    <2>8. ASSUME NEW j \in Keys, j = k
          PROVE  Ledger!Charge(c, j)
        BY <1>2, <1>3, <1>4, <2>6, <2>7, <2>8 DEF Ledger!Charge, charged
    <2> QED
        BY <2>1, <2>8 DEF Ledger!Next
<1> QED
    BY <1>5, <1>6

\* A release gives back the reservation it finds, if any.
LEMMA ReleaseGivesBack ==
    ASSUME Base, NEW c \in Calls, Release(c)
    PROVE  Ledger!Next \/ UNCHANGED Ledger!ledgerVars
<1> DEFINE k == Key(c)
<1>1. k \in Keys /\ UNCHANGED <<clock, usage>>
    BY DEF Base, TypeOK, RequestOK, Release, Jobs, Key
<1>2. CASE rows[k].state = "in_progress"
    <2>1. LedgerSlot[k].state = "reserved"
        BY <1>1, <1>2 DEF LedgerSlot
    <2>2. \A j \in Keys : SlotOf(rows'[j]) = IF j = k THEN Ledger!Free ELSE SlotOf(rows[j])
        BY <1>1, <1>2, SlotFacts DEF Base, TypeOK, Release, Deletes
    <2>3. LedgerSlot' = [LedgerSlot EXCEPT ![k] = Ledger!Free]
        BY <2>2, SlotIsRow
    <2>4. Ledger!GiveBack(k)
        BY <1>1, <2>1, <2>3 DEF Ledger!GiveBack
    <2> QED
        BY <1>1, <2>4 DEF Ledger!Next
<1>3. CASE rows[k].state # "in_progress"
    <2>1. UNCHANGED rows
        BY <1>1, <1>3 DEF Base, TypeOK, Release, Deletes
    <2> QED
        BY <1>1, <2>1 DEF Ledger!ledgerVars, LedgerSlot
<1> QED
    BY <1>2, <1>3

LEMMA LedgerInit == Init => Ledger!Init
    BY DEF Init, Ledger!Init, LedgerSlot, Absent, Ledger!Free

LEMMA LedgerStep ==
    Base /\ ChargedIsPast /\ [Next]_vars => [Ledger!Next]_(Ledger!ledgerVars)
<1> SUFFICES ASSUME Base, ChargedIsPast, [Next]_vars
             PROVE  Ledger!Next \/ UNCHANGED Ledger!ledgerVars
    OBVIOUS
<1>0. ASSUME UNCHANGED <<clock, rows, usage>>
      PROVE  UNCHANGED Ledger!ledgerVars
    BY <1>0 DEF Ledger!ledgerVars, LedgerSlot
<1>1. CASE \E c \in Calls : Arrive(c)
    BY <1>0, <1>1 DEF Arrive, ResolveTarget, RefuseTarget, tables
<1>2. ASSUME NEW c \in Calls, Handle(c)
      PROVE  Ledger!Next \/ UNCHANGED Ledger!ledgerVars
    <2>1. CASE ReserveInsert(c)
        BY <2>1, InsertReserves
    <2>2. CASE TakeOver(c)
        BY <2>2, TakeOverForgets
    <2>3. CASE SelectGone(c) \/ Replay(c)
        <3>1. now[c] \in Nat /\ now[c] <= clock
            BY DEF Base, TypeOK, RequestOK
        <3>2. rows' = Purged(now[c]) /\ UNCHANGED <<clock, usage>>
            BY <2>3 DEF SelectGone, Replay
        <3> QED
            BY <3>1, <3>2, PurgeIsForget
    <2>4. CASE Persist(c)
        BY <2>4, PersistCharge
    <2>5. CASE Release(c)
        BY <2>5, ReleaseGivesBack
    <2>6. CASE \/ ReserveConflict(c) \/ RefuseMismatch(c) \/ RefuseBusy(c) \/ ReserveFails(c)
               \/ RunRemote(c) \/ RunFails(c) \/ PersistRollsBack(c) \/ ReleaseFails(c)
        BY <1>0, <2>6 DEF ReserveConflict, RefuseMismatch, RefuseBusy, ReserveFails, RunRemote, RunFails,
                          PersistRollsBack, ReleaseFails, tables
    <2> QED
        BY <1>2, <2>1, <2>2, <2>3, <2>4, <2>5, <2>6 DEF Handle, Reserve
<1>3. CASE Tick
    <2>1. Ledger!Pass
        BY <1>3 DEF Tick, tables, LedgerSlot, Ledger!Pass
    <2> QED
        BY <2>1 DEF Ledger!Next
<1>4. CASE ~Tick /\ ~\E c \in Calls : Arrive(c) \/ Handle(c)
    BY <1>0, <1>4 DEF Next, Discover, DeleteEndpoint, Crash, vars, tables
<1> QED
    BY <1>1, <1>2, <1>3, <1>4

\* The handlers, with their two transactions, takeovers, stalls, late releases
\* and crashes, do to keys and charges only what the ledger allows: a key is
\* answered in the step that charges, an answer is forgotten only by age, and
\* no call is charged twice.
THEOREM HandlersImplementLedger == Spec => ImplementsLedger
<1>1. Spec => Ledger!Init /\ [][Ledger!Next]_(Ledger!ledgerVars)
    <2>1. Books => ChargedIsPast
        BY DEF Books
    <2> QED
        BY <2>1, LedgerInit, LedgerStep, BaseInvariant, BooksInvariant, PTL DEF Spec
<1> QED
    BY <1>1 DEF ImplementsLedger, Ledger!Spec

-----------------------------------------------------------------------------
(* Exclusion by key: while handlers keep within the lease, and no key runs *)
(* out of its validity under a handler                                     *)

\* The row of a handler's key is not due for the purge before the handler has
\* ended.  A takeover keeps the age of a row, so nothing in the code sees to
\* it: a row may be taken over in the last minutes of its validity, and run
\* Assessment_purged_lease shows what follows.
KeysOutliveHandlers ==
    \A c \in Calls :
        pc[c] \in Holding /\ Key(c) # NoKey /\ rows[Key(c)].state # "absent"
            => clock <= rows[Key(c)].created + Validity

\* A handler with a key holds the row of the key, open until it persists.
Owns(c) ==
    /\ rows[Key(c)].state # "absent"
    /\ rows[Key(c)].origin = origin[c]
    /\ pc[c] \in {"run", "persist"} => rows[Key(c)].state = "in_progress"
HoldersOwn == \A c \in Calls : pc[c] \in Holding /\ Key(c) # NoKey => Owns(c)

\* A row, and whoever runs under it, asks what the call that inserted it asked.
RowsAsk == \A k \in Keys : rows[k].state # "absent" => rows[k].ask = Ask(rows[k].origin)
HoldersAsk ==
    \A c \in Calls : pc[c] \in Holding /\ Key(c) # NoKey =>
        pc[origin[c]] # "new" /\ Ask(origin[c]) = Ask(c)
Asked == RowsAsk /\ HoldersAsk

\* How a row goes: with its age, or released by a call with its key.
LEMMA RowGoes ==
    ASSUME Base, [Next]_vars, NEW k \in Keys, rows[k] # Absent, rows'[k] = Absent
    PROVE  \/ Expired(rows[k], clock)
           \/ \E c \in Calls : Release(c) /\ k = Key(c)
<1> USE TimingAssumption DEF TimingAssumption
<1>0. \A c \in Calls : Purged(now[c])[k] = Absent => Expired(rows[k], clock)
    BY DEF Base, TypeOK, RequestOK, Purged, Expired, Row, Absent
<1>1. CASE \E c \in Calls : Arrive(c)
    BY <1>1 DEF Arrive, ResolveTarget, RefuseTarget, tables
<1>2. ASSUME NEW c \in Calls, ReserveInsert(c)
      PROVE  Expired(rows[k], clock)
    BY <1>2 DEF Base, TypeOK, ReserveInsert, Purged, Reservation, Absent
<1>3. ASSUME NEW c \in Calls, TakeOver(c)
      PROVE  Expired(rows[k], clock)
    <2>1. Renewed(rows[Key(c)], now[c]) # Absent
        BY <1>3 DEF Base, TypeOK, RequestOK, TakeOver, Selected, Renewed, Row, Absent, Jobs, Key
    <2> QED
        BY <1>0, <1>3, <2>1 DEF TakeOver, Purged
<1>4. ASSUME NEW c \in Calls, SelectGone(c) \/ Replay(c)
      PROVE  Expired(rows[k], clock)
    BY <1>0, <1>4 DEF SelectGone, Replay
<1>5. ASSUME NEW c \in Calls, Persist(c)
      PROVE  FALSE
    <2>1. /\ k = Key(c) /\ rows[k] \in Row
          /\ rows'[k] = [rows[k] EXCEPT !.state = "completed", !.body = c, !.updated = clock]
        BY <1>5 DEF Base, TypeOK, Persist, CloseKey, Completes, Absent
    <2>2. rows'[k].state = "completed"
        BY <2>1 DEF Row
    <2> QED
        BY <2>2 DEF Absent
<1>6. ASSUME NEW c \in Calls, Release(c)
      PROVE  k = Key(c)
    BY <1>6 DEF Base, TypeOK, Release
<1>7. ASSUME NEW c \in Calls, Handle(c), ~ReserveInsert(c), ~TakeOver(c), ~SelectGone(c), ~Replay(c),
             ~Persist(c), ~Release(c)
      PROVE  FALSE
    BY <1>7 DEF Handle, Reserve, ReserveConflict, RefuseMismatch, RefuseBusy, ReserveFails, RunRemote,
                RunFails, PersistRollsBack, ReleaseFails, tables
<1>8. CASE ~\E c \in Calls : Arrive(c) \/ Handle(c)
    BY <1>8 DEF Next, Discover, DeleteEndpoint, Crash, Tick, vars, tables
<1> QED
    BY <1>1, <1>2, <1>3, <1>4, <1>5, <1>6, <1>7, <1>8

\* A call gets to run under a key only by inserting its row or taking it over.
LEMMA HoldingEntered ==
    ASSUME Base, [Next]_vars, NEW c \in Calls, pc[c] \notin Holding, pc'[c] \in Holding, Key(c)' # NoKey
    PROVE  ReserveInsert(c) \/ TakeOver(c)
<1>1. CASE \E d \in Calls : Arrive(d)
    BY <1>1 DEF Base, TypeOK, Arrive, ResolveTarget, RefuseTarget, BeginAndGoto, Goto, Ended, Holding, Key
<1>2. ASSUME NEW d \in Calls, Handle(d)
      PROVE  ReserveInsert(c) \/ TakeOver(c)
    <2>1. CASE Reserve(d)
        BY <2>1 DEF Base, TypeOK, Reserve, ReserveConflict, SelectGone, ReserveInsert, TakeOver,
                    RefuseMismatch, Replay, RefuseBusy, ReserveFails, BeginAndGoto, Goto, Ended, Holding
    <2>2. CASE ~Reserve(d)
        BY <1>2, <2>2 DEF Base, TypeOK, Handle, RunRemote, RunFails, Persist, PersistRollsBack,
                          Release, ReleaseFails, AfterFailure, Goto, Ended, Holding
    <2> QED
        BY <2>1, <2>2
<1>3. CASE ~\E d \in Calls : Arrive(d) \/ Handle(d)
    BY <1>3 DEF Base, TypeOK, Next, Discover, DeleteEndpoint, Crash, Tick, Live, Holding,
                vars, tables, callState
<1> QED
    BY <1>1, <1>2, <1>3

\* A handler keeps the reservation it runs under and never runs again.
LEMMA HoldingGoesOn ==
    ASSUME Base, [Next]_vars, NEW c \in Calls, pc[c] \in Holding
    PROVE  /\ origin'[c] = origin[c]
           /\ pc'[c] \in {"run", "persist"} => pc[c] \in {"run", "persist"}
<1>1. CASE \E d \in Calls : Arrive(d)
    BY <1>1 DEF Base, TypeOK, Arrive, ResolveTarget, RefuseTarget, BeginAndGoto, Goto, Ended, Holding
<1>2. ASSUME NEW d \in Calls, Handle(d)
      PROVE  /\ origin'[c] = origin[c]
             /\ pc'[c] \in {"run", "persist"} => pc[c] \in {"run", "persist"}
    <2>1. CASE Reserve(d)
        BY <2>1 DEF Base, TypeOK, Reserve, ReserveInsert, ReserveConflict, SelectGone, RefuseMismatch,
                    Replay, TakeOver, RefuseBusy, ReserveFails, Reserved, Selected, BeginAndGoto, Goto,
                    Ended, Holding
    <2>2. CASE ~Reserve(d)
        BY <1>2, <2>2 DEF Base, TypeOK, Handle, RunRemote, RunFails, Persist, PersistRollsBack,
                          Release, ReleaseFails, AfterFailure, Goto, Ended, Holding
    <2> QED
        BY <2>1, <2>2
<1>3. CASE ~\E d \in Calls : Arrive(d) \/ Handle(d)
    BY <1>3 DEF Base, TypeOK, Next, Discover, DeleteEndpoint, Crash, Tick, Live, Holding,
                vars, tables, callState
<1> QED
    BY <1>1, <1>2, <1>3

LEMMA HolderFacts ==
    ASSUME Base, NEW c \in Calls, pc[c] \in Holding, Key(c) # NoKey
    PROVE  Key(c) \in Keys
    BY DEF Base, TypeOK, RequestOK, Key, Jobs, Holding

\* Two handlers of one key would be under one reservation.
LEMMA HolderIsAlone ==
    ASSUME Exclusive, HoldersOwn, NEW c \in Calls, NEW d \in Calls,
           pc[c] \in Holding, pc[d] \in Holding, Key(c) = Key(d), Key(c) # NoKey
    PROVE  c = d
    BY DEF Exclusive, OneRunPerReservation, HoldersOwn, Owns

LEMMA NextHoldersOwn ==
    ASSUME MaxHold <= Lease, Base, Exclusive, HoldersOwn, KeysOutliveHandlers, [Next]_vars
    PROVE  HoldersOwn'
<1> SUFFICES ASSUME NEW c \in Calls, pc'[c] \in Holding, Key(c)' # NoKey
             PROVE  Owns(c)'
    BY DEF HoldersOwn
<1>1. CASE pc[c] \in Holding
    <2> DEFINE k == Key(c)
    <2>1. Key(c)' = k /\ k # NoKey /\ k \in Keys
        BY <1>1, RequestStays, HolderFacts DEF Key, Holding
    <2>2. Owns(c) /\ clock <= rows[k].created + Validity
        BY <1>1, <2>1 DEF HoldersOwn, Owns, KeysOutliveHandlers
    <2>3. /\ origin'[c] = origin[c]
          /\ pc'[c] \in {"run", "persist"} => pc[c] \in {"run", "persist"}
        BY <1>1, HoldingGoesOn
    <2>4. rows[k] \in Row /\ ~Expired(rows[k], clock)
        <3>1. rows[k] \in Row
            BY <2>1, <2>2 DEF Owns, Base, TypeOK, Absent
        <3> QED
            BY <2>2, <3>1, TimingAssumption DEF TimingAssumption, Expired, Row, Base, TypeOK
    <2>5. CASE rows'[k] = rows[k]
        BY <2>1, <2>2, <2>3, <2>5 DEF Owns
    <2>6. CASE rows'[k] = Absent
        <3>1. PICK d \in Calls : Release(d) /\ k = Key(d)
            BY <2>1, <2>2, <2>4, <2>6, RowGoes DEF Owns, Absent
        <3>2. d = c
            BY <1>1, <2>1, <3>1, HolderIsAlone DEF Release, Holding
        <3> QED
            BY <3>1, <3>2 DEF Base, TypeOK, Release, Goto, Ended, Holding
    <2>7. ASSUME NEW d \in Calls, ReserveInsert(d), k = Key(d)
          PROVE  FALSE
        BY <2>1, <2>2, <2>4, <2>7 DEF ReserveInsert, Purged, Owns, Absent
    <2>8. ASSUME NEW d \in Calls, TakeOver(d), k = Key(d)
          PROVE  FALSE
        BY <1>1, <2>2, <2>8, LapsedHasNoHolder DEF Owns
    <2>9. ASSUME NEW d \in Calls, Persist(d), k = Key(d),
                 rows'[k] = [rows[k] EXCEPT !.state = "completed", !.body = d, !.updated = clock]
          PROVE  Owns(c)'
        <3>1. d = c
            BY <1>1, <2>1, <2>9, HolderIsAlone DEF Persist, Holding
        <3>2. pc'[c] \notin {"run", "persist"}
            BY <2>9, <3>1 DEF Base, TypeOK, Persist, AfterFailure, Goto, Ended
        <3>3. rows'[k].state = "completed" /\ rows'[k].origin = rows[k].origin
            BY <2>4, <2>9 DEF Row
        <3> QED
            BY <2>1, <2>2, <2>3, <3>2, <3>3 DEF Owns
    <2> HIDE DEF k
    <2> QED
        BY <2>1, <2>5, <2>6, <2>7, <2>8, <2>9, RowSteps
<1>2. CASE pc[c] \notin Holding
    <2>1. CASE ReserveInsert(c)
        <3>1. Key(c) \in Keys /\ Key(c)' = Key(c)
            BY <2>1 DEF Base, TypeOK, RequestOK, ReserveInsert, Jobs, Key
        <3>2. rows'[Key(c)] = Reservation(c) /\ origin'[c] = c
            BY <2>1, <3>1 DEF Base, TypeOK, ReserveInsert, Purged
        <3>3. Reservation(c).state = "in_progress" /\ Reservation(c).origin = c
            BY DEF Reservation
        <3> QED
            BY <3>1, <3>2, <3>3 DEF Owns
    <2>2. CASE TakeOver(c)
        <3>1. Key(c) \in Keys /\ Key(c)' = Key(c) /\ rows[Key(c)] \in Row
            BY <2>2 DEF Base, TypeOK, RequestOK, TakeOver, Selected, Jobs, Key
        <3>2. /\ rows'[Key(c)] = [rows[Key(c)] EXCEPT !.updated = now[c]]
              /\ origin'[c] = rows[Key(c)].origin
              /\ rows[Key(c)].state = "in_progress"
            BY <2>2, <3>1 DEF Base, TypeOK, TakeOver, Renewed, Purged
        <3>3. /\ rows'[Key(c)].state = "in_progress"
              /\ rows'[Key(c)].origin = rows[Key(c)].origin
            BY <3>1, <3>2 DEF Row
        <3> QED
            BY <3>1, <3>2, <3>3 DEF Owns
    <2> QED
        BY <1>2, <2>1, <2>2, HoldingEntered
<1> QED
    BY <1>1, <1>2

LEMMA NextAsked ==
    ASSUME Base, Metered, Asked, [Next]_vars
    PROVE  Asked'
<1>1. ASSUME NEW k \in Keys, rows[k].state # "absent"
      PROVE  /\ rows[k].origin \in Calls
             /\ pc[rows[k].origin] # "new"
             /\ pc'[rows[k].origin] # "new"
             /\ job'[rows[k].origin].ask = Ask(rows[k].origin)
    <2>1. rows[k].origin \in Calls
        BY <1>1 DEF Base, TypeOK, Row, Absent
    <2>2. pc[rows[k].origin] # "new"
        BY <1>1, <2>1 DEF Metered, FreshOrigins, Unused, Before
    <2>3. job'[rows[k].origin] = job[rows[k].origin] /\ pc'[rows[k].origin] # "new"
        BY <2>1, <2>2, RequestStays
    <2> QED
        BY <2>1, <2>2, <2>3 DEF Ask
<1>2. RowsAsk'
    <2> SUFFICES ASSUME NEW k \in Keys, rows'[k].state # "absent"
                 PROVE  rows'[k].ask = job'[rows'[k].origin].ask
        BY DEF RowsAsk, Ask
    <2>1. CASE rows'[k] = rows[k]
        BY <1>1, <2>1 DEF Asked, RowsAsk, Ask
    <2>2. CASE rows'[k] = Absent
        BY <2>2 DEF Absent
    <2>3. ASSUME NEW c \in Calls, ReserveInsert(c), rows'[k] = Reservation(c)
          PROVE  rows'[k].ask = job'[rows'[k].origin].ask
        BY <2>3 DEF ReserveInsert, Reservation, Ask
    <2>4. ASSUME NEW row, rows[k] \in Row, row.ask = rows[k].ask, row.origin = rows[k].origin,
                 rows'[k] = row
          PROVE  rows'[k].ask = job'[rows'[k].origin].ask
        <3>1. rows[k].state # "absent"
            BY <2>4 DEF Row
        <3> QED
            BY <1>1, <2>4, <3>1 DEF Asked, RowsAsk, Ask
    <2>5. ASSUME NEW c \in Calls, rows[k] \in Row, rows'[k] = [rows[k] EXCEPT !.updated = now[c]]
          PROVE  rows'[k].ask = job'[rows'[k].origin].ask
        BY <2>4, <2>5 DEF Row
    <2>6. ASSUME NEW c \in Calls, rows[k] \in Row,
                 rows'[k] = [rows[k] EXCEPT !.state = "completed", !.body = c, !.updated = clock]
          PROVE  rows'[k].ask = job'[rows'[k].origin].ask
        BY <2>4, <2>6 DEF Row
    <2> QED
        BY <2>1, <2>2, <2>3, <2>5, <2>6, RowSteps
<1>3. HoldersAsk'
    <2> SUFFICES ASSUME NEW c \in Calls, pc'[c] \in Holding, Key(c)' # NoKey
                 PROVE  pc'[origin'[c]] # "new" /\ Ask(origin[c])' = Ask(c)'
        BY DEF HoldersAsk
    <2>1. CASE pc[c] \in Holding
        <3>1. Key(c)' = Key(c) /\ Ask(c)' = Ask(c) /\ origin'[c] = origin[c]
            BY <2>1, RequestStays, HoldingGoesOn DEF Key, Ask, Holding
        <3>2. origin[c] \in Calls /\ pc[origin[c]] # "new" /\ Ask(origin[c]) = Ask(c)
            BY <2>1, <3>1 DEF Asked, HoldersAsk, Base, TypeOK
        <3>3. pc'[origin[c]] # "new" /\ job'[origin[c]] = job[origin[c]]
            BY <3>2, RequestStays
        <3> QED
            BY <3>1, <3>2, <3>3 DEF Ask
    <2>2. CASE ReserveInsert(c)
        BY <2>2 DEF Base, TypeOK, ReserveInsert, Reserved, BeginAndGoto, Ask
    <2>3. CASE TakeOver(c)
        <3>1. /\ Key(c) \in Keys /\ rows[Key(c)].state # "absent" /\ rows[Key(c)].ask = Ask(c)
              /\ UNCHANGED job /\ origin'[c] = rows[Key(c)].origin
            BY <2>3 DEF Base, TypeOK, RequestOK, TakeOver, Selected, SameRequest, Jobs, Key
        <3>2. Ask(rows[Key(c)].origin) = Ask(c)
            BY <3>1 DEF Asked, RowsAsk
        <3> QED
            BY <1>1, <3>1, <3>2 DEF Ask
    <2> QED
        BY <2>1, <2>2, <2>3, HoldingEntered
<1> QED
    BY <1>2, <1>3 DEF Asked

\* A completed row answers with an assessment of what the row asks.
AnswersAsk == \A k \in Keys : rows[k].state = "completed" => Ask(rows[k].body) = rows[k].ask

\* What was charged was asked by a request that does not change any more.
LEMMA ChargedRequestStays ==
    ASSUME Base, ChargedIsPast, [Next]_vars, NEW b, \E u \in usage : u.call = b
    PROVE  Ask(b)' = Ask(b)
<1>1. b \in Calls /\ pc[b] # "new"
    BY DEF Base, TypeOK, Assessments, ChargedIsPast, Ended
<1> QED
    BY <1>1, RequestStays DEF Ask

LEMMA NextAnswersAsk ==
    ASSUME Base, Asked, ChargedIsPast, CompletedMeansCharged, HoldersOwn, AnswersAsk, [Next]_vars
    PROVE  AnswersAsk'
<1> SUFFICES ASSUME NEW k \in Keys, rows'[k].state = "completed"
             PROVE  job'[rows'[k].body].ask = rows'[k].ask
    BY DEF AnswersAsk, Ask
<1>1. CASE rows'[k] = rows[k]
    <2>1. \E u \in usage : u.call = rows[k].body
        BY <1>1 DEF CompletedMeansCharged
    <2>2. job'[rows[k].body] = job[rows[k].body]
        <3>1. rows[k].body \in Calls /\ pc[rows[k].body] # "new"
            BY <2>1 DEF Base, TypeOK, Assessments, ChargedIsPast, Ended
        <3> QED
            BY <3>1, RequestStays
    <2> QED
        BY <1>1, <2>2 DEF AnswersAsk, Ask
<1>2. CASE rows'[k] = Absent
    BY <1>2 DEF Absent
<1>3. ASSUME NEW c \in Calls, rows'[k] = Reservation(c)
      PROVE  FALSE
    BY <1>3 DEF Reservation
<1>4. ASSUME NEW c \in Calls, rows[k] \in Row, rows[k].state = "in_progress",
             rows'[k] = [rows[k] EXCEPT !.updated = now[c]]
      PROVE  FALSE
    BY <1>4 DEF Row
<1>5. ASSUME NEW c \in Calls, Persist(c), k = Key(c), rows[k] \in Row, rows[k].state = "in_progress",
             rows'[k] = [rows[k] EXCEPT !.state = "completed", !.body = c, !.updated = clock]
      PROVE  job'[rows'[k].body].ask = rows'[k].ask
    <2>1. rows'[k].body = c /\ rows'[k].ask = rows[k].ask
        BY <1>5 DEF Row
    <2>2. pc[c] \in Holding /\ k # NoKey /\ UNCHANGED job
        BY <1>5, InputsAssumption DEF InputsAssumption, Persist, Holding
    <2>3. rows[k].origin = origin[c] /\ Ask(origin[c]) = Ask(c)
        BY <1>5, <2>2 DEF HoldersOwn, Owns, Asked, HoldersAsk
    <2>4. rows[k].ask = Ask(rows[k].origin)
        BY <1>5 DEF Asked, RowsAsk
    <2> QED
        BY <2>1, <2>2, <2>3, <2>4 DEF Ask
<1> QED
    BY <1>1, <1>2, <1>3, <1>4, <1>5, RowSteps

LEMMA NextReplays ==
    ASSUME Base, ChargedIsPast, CompletedMeansCharged, AnswersAsk, ReplayIsOfTheSameRequest, [Next]_vars
    PROVE  ReplayIsOfTheSameRequest'
<1> SUFFICES ASSUME NEW c \in Calls, pc'[c] = "replayed"
             PROVE  /\ Ask(answer[c])' = Ask(c)'
                    /\ \E u \in usage' : u.call = answer'[c]
    BY DEF ReplayIsOfTheSameRequest
<1>1. \/ pc[c] = "replayed" /\ answer'[c] = answer[c]
      \/ Replay(c)
    <2>1. CASE \E d \in Calls : Arrive(d)
        BY <2>1 DEF Base, TypeOK, Arrive, ResolveTarget, RefuseTarget, BeginAndGoto, Goto, Ended
    <2>2. ASSUME NEW d \in Calls, Handle(d)
          PROVE  \/ pc[c] = "replayed" /\ answer'[c] = answer[c]
                 \/ Replay(c)
        <3>1. CASE Reserve(d)
            BY <3>1 DEF Base, TypeOK, Reserve, ReserveInsert, ReserveConflict, SelectGone, RefuseMismatch,
                        Replay, TakeOver, RefuseBusy, ReserveFails, Reserved, Selected, BeginAndGoto,
                        Goto, Ended
        <3>2. CASE ~Reserve(d)
            BY <2>2, <3>2 DEF Base, TypeOK, Handle, RunRemote, RunFails, Persist, PersistRollsBack,
                              Release, ReleaseFails, AfterFailure, Goto, Ended
        <3> QED
            BY <3>1, <3>2
    <2>3. CASE ~\E d \in Calls : Arrive(d) \/ Handle(d)
        BY <2>3 DEF Base, TypeOK, Next, Discover, DeleteEndpoint, Crash, Tick, Live, Holding,
                    vars, tables, callState
    <2> QED
        BY <2>1, <2>2, <2>3
<1>2. Ask(c)' = Ask(c)
    BY <1>1, RequestStays DEF Ask, Replay, Selected
<1>3. ASSUME NEW b, b = answer'[c]
      PROVE  Ask(b) = Ask(c) /\ \E u \in usage : u.call = b
    <2>1. CASE pc[c] = "replayed" /\ answer'[c] = answer[c]
        BY <1>3, <2>1 DEF ReplayIsOfTheSameRequest
    <2>2. CASE Replay(c)
        <3>1. /\ Key(c) \in Keys /\ rows[Key(c)].state = "completed" /\ rows[Key(c)].ask = Ask(c)
              /\ b = rows[Key(c)].body
            BY <1>3, <2>2 DEF Base, TypeOK, RequestOK, Replay, Selected, SameRequest, Goto, Jobs, Key
        <3> QED
            BY <3>1 DEF AnswersAsk, CompletedMeansCharged
    <2> QED
        BY <1>1, <2>1, <2>2
<1>4. ASSUME NEW b, b = answer'[c]
      PROVE  job'[b].ask = Ask(c)'
    BY <1>2, <1>3, <1>4, ChargedRequestStays DEF Ask
<1> QED
    BY <1>3, <1>4, ChargesStay DEF Ask

LEMMA NextOnlyHolderCompletes ==
    ASSUME Base, Exclusive, HoldersOwn, OnlyHolderCompletes, [Next]_vars
    PROVE  OnlyHolderCompletes'
<1>1. CASE UNCHANGED closed
    BY <1>1 DEF OnlyHolderCompletes
<1>2. ASSUME NEW c \in Calls, Persist(c), Key(c) # NoKey
      PROVE  OnlyHolderCompletes'
    <2> DEFINE row == rows[Key(c)]
    <2>1. closed' = closed \cup {[call |-> c, key |-> Key(c), under |-> row.origin,
                                  created |-> row.created, renewed |-> row.updated, since |-> now[c]]}
        BY <1>2 DEF Persist, CloseKey
    <2>2. row.state = "in_progress" /\ row.origin = origin[c] /\ pc[c] \in Holding
        BY <1>2 DEF Persist, Completes, Holding, HoldersOwn, Owns
    <2>3. row.updated = now[c]
        BY <1>2, <2>2 DEF Exclusive, LeaseIsHolders
    <2> HIDE DEF row
    <2> QED
        BY <2>1, <2>3 DEF OnlyHolderCompletes
<1>3. CASE \E c \in Calls : Arrive(c)
    BY <1>1, <1>3 DEF Arrive, ResolveTarget, RefuseTarget, tables
<1>4. ASSUME NEW c \in Calls, Handle(c), ~(Persist(c) /\ Key(c) # NoKey)
      PROVE  UNCHANGED closed
    <2>1. CASE Reserve(c)
        BY <2>1 DEF Reserve, ReserveInsert, ReserveConflict, SelectGone, RefuseMismatch,
                    Replay, TakeOver, RefuseBusy, ReserveFails, Reserved, tables
    <2>2. CASE ~Reserve(c)
        BY <1>4, <2>2 DEF Handle, RunRemote, RunFails, Persist, CloseKey, PersistRollsBack, Release,
                          ReleaseFails, tables
    <2> QED
        BY <2>1, <2>2
<1>5. CASE ~\E c \in Calls : Arrive(c) \/ Handle(c)
    BY <1>1, <1>5 DEF Next, Discover, DeleteEndpoint, Crash, Tick, vars, tables
<1> QED
    BY <1>1, <1>2, <1>3, <1>4, <1>5

Owned == HoldersOwn /\ AnswersAsk /\ ReplayIsOfTheSameRequest /\ OnlyHolderCompletes

LEMMA InitOwned == Init => Asked /\ Owned
    BY DEF Init, Asked, RowsAsk, HoldersAsk, Owned, HoldersOwn, AnswersAsk, ReplayIsOfTheSameRequest,
           OnlyHolderCompletes, Holding, Absent

LEMMA AskedInvariant == Spec => []Asked
    BY BaseInvariant, MeteredInvariant, InitOwned, NextAsked, PTL DEF Spec

LEMMA OwnedInvariant ==
    MaxHold <= Lease => (Spec /\ []KeysOutliveHandlers => [](Owned /\ Exclusive))
<1> SUFFICES ASSUME MaxHold <= Lease
             PROVE  Spec /\ []KeysOutliveHandlers => [](Owned /\ Exclusive)
    OBVIOUS
<1>1. Base /\ Metered /\ Exclusive /\ [Next]_vars => Exclusive'
    BY NextExclusive
<1>2. /\ Base /\ Asked /\ Books /\ CompletedMeansCharged /\ Exclusive /\ Owned
      /\ KeysOutliveHandlers /\ [Next]_vars
      => Owned'
    <2> SUFFICES ASSUME Base, Asked, Books, CompletedMeansCharged, Exclusive, Owned,
                        KeysOutliveHandlers, [Next]_vars
                 PROVE  Owned'
        OBVIOUS
    <2>1. HoldersOwn'
        BY NextHoldersOwn DEF Owned
    <2>2. AnswersAsk' /\ ReplayIsOfTheSameRequest'
        BY NextAnswersAsk, NextReplays DEF Owned, Books
    <2>3. OnlyHolderCompletes'
        BY NextOnlyHolderCompletes DEF Owned
    <2> QED
        BY <2>1, <2>2, <2>3 DEF Owned
<1> QED
    BY <1>1, <1>2, BaseInvariant, MeteredInvariant, InitExclusive, AskedInvariant, BooksInvariant,
       AnswersWereCharged, InitOwned, PTL DEF Spec

\* If handlers keep within the lease and end before their keys are due for the
\* purge, no two requests with one key run the remote assessment at once,
\* whatever is taken over, fails or is released.
THEOREM OneRunOfAKey ==
    MaxHold <= Lease => (Spec /\ []KeysOutliveHandlers => []OneRunPerKey)
<1> SUFFICES ASSUME MaxHold <= Lease
             PROVE  Spec /\ []KeysOutliveHandlers => []OneRunPerKey
    OBVIOUS
<1>1. Owned /\ Exclusive => OneRunPerKey
    BY HolderIsAlone DEF Owned, OneRunPerKey, Holding
<1> QED
    BY <1>1, OwnedInvariant, PTL

\* Under the same conditions a key is only closed by the request that holds
\* it: none closes a reservation that was renewed for another meanwhile.
THEOREM HolderCloses ==
    MaxHold <= Lease => (Spec /\ []KeysOutliveHandlers => []OnlyHolderCompletes)
<1> SUFFICES ASSUME MaxHold <= Lease
             PROVE  Spec /\ []KeysOutliveHandlers => []OnlyHolderCompletes
    OBVIOUS
<1>1. Owned => OnlyHolderCompletes
    BY DEF Owned
<1> QED
    BY <1>1, OwnedInvariant, PTL

\* ... and a repeated request is answered with a charged assessment of exactly
\* what it asks, never with that of another request under the key.
THEOREM ReplaysAnswerTheRequest ==
    MaxHold <= Lease => (Spec /\ []KeysOutliveHandlers => []ReplayIsOfTheSameRequest)
<1> SUFFICES ASSUME MaxHold <= Lease
             PROVE  Spec /\ []KeysOutliveHandlers => []ReplayIsOfTheSameRequest
    OBVIOUS
<1>1. Owned => ReplayIsOfTheSameRequest
    BY DEF Owned
<1> QED
    BY <1>1, OwnedInvariant, PTL

-----------------------------------------------------------------------------
(* Every handler ends                                                      *)

\* How many steps a call may still take, its arrival among them: two laps of
\* reserve, the run, the transaction of persist and a release.
StepsLeft(c) ==
    CASE pc[c] = "new"     -> 8
      [] pc[c] = "reserve" -> IF lap[c] = 1 THEN 7 ELSE 5
      [] pc[c] = "select"  -> IF lap[c] = 1 THEN 6 ELSE 4
      [] pc[c] = "run"     -> 3
      [] pc[c] = "persist" -> 2
      [] pc[c] = "release" -> 1
      [] OTHER             -> 0

\* No step of anybody puts a call back, and each of its own brings its end nearer.
HandlersAdvance ==
    [][\A c \in Calls :
          /\ StepsLeft(c)' <= StepsLeft(c)
          /\ Arrive(c) \/ Handle(c) => StepsLeft(c)' < StepsLeft(c)]_vars

LEMMA StepsLeftType ==
    ASSUME Base, NEW c \in Calls
    PROVE  StepsLeft(c) \in 0..8 /\ (pc[c] \in Ended <=> StepsLeft(c) = 0)
BY DEF Base, TypeOK, StepsLeft, Live, Holding, Ended

\* The steps of one call are no step of another.
LEMMA OwnSteps ==
    ASSUME Base, NEW c \in Calls, Arrive(c) \/ Handle(c)
    PROVE  /\ \A d \in Calls \ {c} : pc'[d] = pc[d] /\ lap'[d] = lap[d]
           /\ StepsLeft(c)' < StepsLeft(c)
<1>0. /\ pc \in [Calls -> {"new"} \cup Live \cup Ended]
      /\ lap \in [Calls -> {1, 2}]
    BY DEF Base, TypeOK
<1>1. CASE Arrive(c)
    <2>1. pc[c] = "new" /\ pc' \in {[pc EXCEPT ![c] = l] : l \in {"run", "reserve", "refused"}} /\ lap' = lap
        BY <1>1 DEF Arrive, ResolveTarget, RefuseTarget, BeginAndGoto, Goto, Ended
    <2> QED
        BY <1>0, <2>1 DEF StepsLeft
<1>2. CASE SelectGone(c)
    BY <1>0, <1>2 DEF SelectGone, Goto, Ended, StepsLeft
<1>3. CASE Reserve(c) /\ ~SelectGone(c)
    <2>1. /\ lap' = lap
          /\ \/ pc[c] = "reserve" /\ pc' \in {[pc EXCEPT ![c] = l] : l \in {"run", "lost", "select", "failed"}}
             \/ /\ pc[c] = "select"
                /\ pc' \in {[pc EXCEPT ![c] = l] :
                              l \in {"mismatch", "replayed", "run", "lost", "conflict", "failed"}}
        BY <1>3 DEF Reserve, ReserveInsert, ReserveConflict, RefuseMismatch, Replay, TakeOver,
                    RefuseBusy, ReserveFails, Reserved,
                    Selected, BeginAndGoto, Goto, Ended
    <2> QED
        BY <1>0, <2>1 DEF StepsLeft
<1>4. CASE Handle(c) /\ ~Reserve(c)
    <2>1. /\ lap' = lap
          /\ \/ pc[c] = "run" /\ pc' \in {[pc EXCEPT ![c] = l] : l \in {"persist", "release", "failed"}}
             \/ pc[c] = "persist" /\ pc' \in {[pc EXCEPT ![c] = l] : l \in {"done", "release", "failed"}}
             \/ pc[c] = "release" /\ pc' \in {[pc EXCEPT ![c] = l] : l \in {"failed", "stuck"}}
        BY <1>4 DEF Handle, RunRemote, RunFails, Persist, PersistRollsBack, Release, ReleaseFails,
                    AfterFailure, Goto, Ended
    <2> QED
        BY <1>0, <2>1 DEF StepsLeft
<1> QED
    BY <1>1, <1>2, <1>3, <1>4 DEF Handle, Reserve

\* A call takes eight steps at most: whatever the others, discovery, deletions,
\* crashes and the clock do, every step of a handler brings its end nearer and
\* nothing sends it back, not even the second lap of reserve.
THEOREM CallsEnd == Spec => HandlersAdvance
<1>1. ASSUME Base, [Next]_vars, NEW c \in Calls
      PROVE  /\ StepsLeft(c)' <= StepsLeft(c)
             /\ Arrive(c) \/ Handle(c) => StepsLeft(c)' < StepsLeft(c)
    <2>0. StepsLeft(c) \in 0..8
        BY <1>1, StepsLeftType
    <2>1. ASSUME Arrive(c) \/ Handle(c)
          PROVE  StepsLeft(c)' <= StepsLeft(c)
        <3>1. StepsLeft(c)' < StepsLeft(c)
            BY <1>1, <2>1, OwnSteps
        <3>2. StepsLeft(c)' \in Int
            BY DEF StepsLeft
        <3> QED
            BY <2>0, <3>1, <3>2
    <2>2. ASSUME NEW d \in Calls \ {c}, Arrive(d) \/ Handle(d)
          PROVE  StepsLeft(c)' = StepsLeft(c)
        <3>1. pc'[c] = pc[c] /\ lap'[c] = lap[c]
            BY <1>1, <2>2, OwnSteps
        <3> QED
            BY <3>1 DEF StepsLeft
    <2>3. ASSUME Crash
          PROVE  StepsLeft(c)' <= StepsLeft(c)
        <3>1. pc'[c] = (IF pc[c] \in Live THEN "dead" ELSE pc[c]) /\ lap'[c] = lap[c]
            BY <2>3 DEF Crash
        <3>2. StepsLeft(c)' = IF pc[c] \in Live THEN 0 ELSE StepsLeft(c)
            BY <3>1 DEF StepsLeft, Live, Holding
        <3> QED
            BY <2>0, <3>2
    <2>4. ASSUME UNCHANGED callState
          PROVE  StepsLeft(c)' <= StepsLeft(c)
        <3>1. StepsLeft(c)' = StepsLeft(c)
            BY <2>4 DEF callState, StepsLeft
        <3> QED
            BY <2>0, <3>1
    <2>5. \/ \E d \in Calls : Arrive(d) \/ Handle(d)
          \/ Crash
          \/ UNCHANGED callState
        BY <1>1 DEF Next, Discover, DeleteEndpoint, Tick, vars
    <2>6. StepsLeft(c)' <= StepsLeft(c)
        BY <2>0, <2>1, <2>2, <2>3, <2>4, <2>5
    <2> QED
        BY <1>1, <2>6, OwnSteps
<1>2. Base /\ [Next]_vars
        => [\A c \in Calls : /\ StepsLeft(c)' <= StepsLeft(c)
                             /\ Arrive(c) \/ Handle(c) => StepsLeft(c)' < StepsLeft(c)]_vars
    BY <1>1
<1> QED
    BY <1>2, BaseInvariant, PTL DEF Spec, HandlersAdvance

-----------------------------------------------------------------------------
(* Assessments over the registry                                           *)

\* What the registry promises of its state, and what the assessments see of it.
Joint ==
    /\ Seen
    /\ last \in Nat /\ ids \subseteq 1..last /\ found \subseteq ids \X Hosts
    /\ Base /\ Books

LEMMA HandlersLeaveEndpoints ==
    ASSUME (\E c \in Calls : Arrive(c) \/ Handle(c)) \/ Crash \/ Tick
    PROVE  UNCHANGED <<targets, discovered>>
<1>1. ASSUME NEW c \in Calls, Arrive(c) PROVE UNCHANGED <<targets, discovered>>
    BY <1>1 DEF Arrive, ResolveTarget, RefuseTarget, tables
<1>2. ASSUME NEW c \in Calls, Handle(c) PROVE UNCHANGED <<targets, discovered>>
    BY <1>2 DEF Handle, Reserve, ReserveInsert, ReserveConflict, SelectGone, RefuseMismatch, Replay, TakeOver,
       RefuseBusy, ReserveFails, RunRemote, RunFails, Persist, PersistRollsBack, Release, ReleaseFails, tables
<1> QED
    BY <1>1, <1>2 DEF Crash, Tick, tables

\* What the registry keeps of its own.
LEMMA RegistryKeeps ==
    ASSUME last \in Nat, ids \subseteq 1..last, found \subseteq ids \X Hosts, Registry!Next
    PROVE  last' \in Nat /\ ids' \subseteq 1..last' /\ found' \subseteq ids' \X Hosts
<1>1. CASE Registry!Draw
    BY <1>1 DEF Registry!Draw
<1>2. CASE Registry!Register
    BY <1>2 DEF Registry!Register
<1>3. ASSUME NEW t \in ids, Registry!Withdraw(t)
      PROVE  last' \in Nat /\ ids' \subseteq 1..last' /\ found' \subseteq ids' \X Hosts
    <2>1. \A d \in found : d[1] # t => d \in (ids \ {t}) \X Hosts
        OBVIOUS
    <2> QED
        BY <1>3, <2>1 DEF Registry!Withdraw
<1>4. ASSUME NEW t \in ids, NEW hosts \in SUBSET Hosts, Registry!Find(t, hosts)
      PROVE  last' \in Nat /\ ids' \subseteq 1..last' /\ found' \subseteq ids' \X Hosts
    BY <1>4 DEF Registry!Find
<1> QED
    BY <1>1, <1>2, <1>3, <1>4 DEF Registry!Next

\* An endpoint that goes, or an id that is drawn in vain.
LEMMA GoneIsDeleted ==
    ASSUME Joint, RegistryStep, NEW t \in Targets, t \in targets,
           NotGone' = NotGone \ {t},
           HostsFound' = [HostsFound EXCEPT ![t] = {}]
    PROVE  DeleteEndpoint(t)
<1>1. targets' = targets \ {t} /\ discovered' = [discovered EXCEPT ![t] = {}]
    BY DEF Joint, Seen, RegistryStep
<1>2. \A s \in summaries : s.target \in targets
    BY DEF Joint, Books, LedgersAgree
<1>3. summaries' = {s \in summaries : s.target # t}
    BY <1>2 DEF Joint, Seen, RegistryStep, Cascade
<1> QED
    BY <1>1, <1>3 DEF DeleteEndpoint, RegistryStep, callState

\* A step of the registry that the assessments do not see.
LEMMA UnseenIsStutter ==
    ASSUME Joint, RegistryStep, NotGone' = NotGone, HostsFound' = HostsFound
    PROVE  UNCHANGED vars
<1>1. \A s \in summaries : s.target \in targets
    BY DEF Joint, Books, LedgersAgree
<1>2. summaries' = summaries
    BY <1>1 DEF Joint, Seen, RegistryStep, Cascade
<1> QED
    BY <1>2 DEF Joint, Seen, RegistryStep, vars, tables, callState

LEMMA RegistryStepIsStep ==
    ASSUME Targets \subseteq Nat, Joint, RegistryStep
    PROVE  [Next]_vars
<1>0. /\ last \in Nat /\ ids \subseteq 1..last /\ found \subseteq ids \X Hosts
      /\ targets = NotGone /\ discovered = HostsFound
    BY DEF Joint, Seen
<1>a. /\ \A t \in Targets : t > last <=> t = last + 1 \/ t > last + 1
      /\ ~(last + 1 > last + 1) /\ last + 1 > last
    <2>1. \A t \in Targets : t \in Nat
        OBVIOUS
    <2> QED
        BY <1>0, <2>1
<1>b. last + 1 \notin ids /\ \A h : <<last + 1, h>> \notin found
    <2>1. last + 1 \notin 1..last
        BY <1>0
    <2> QED
        BY <1>0, <2>1
<1>1. CASE Registry!Draw
    <2>1. last' = last + 1 /\ ids' = ids /\ found' = found
        BY <1>1 DEF Registry!Draw
    <2>2. HostsFound' = HostsFound
        BY <2>1 DEF HostsFound
    <2>3. CASE last + 1 \in Targets
        <3>1. last + 1 \in targets /\ NotGone' = NotGone \ {last + 1}
            BY <1>0, <1>a, <1>b, <2>1, <2>3 DEF NotGone
        <3>2. HostsFound = [HostsFound EXCEPT ![last + 1] = {}]
            BY <1>b, <2>3 DEF HostsFound
        <3>3. DeleteEndpoint(last + 1)
            BY <2>2, <2>3, <3>1, <3>2, GoneIsDeleted
        <3> QED
            BY <2>3, <3>3 DEF Next
    <2>4. CASE last + 1 \notin Targets
        <3>1. NotGone' = NotGone
            BY <1>a, <2>1, <2>4 DEF NotGone
        <3> QED
            BY <2>2, <3>1, UnseenIsStutter
    <2> QED
        BY <2>3, <2>4
<1>2. CASE Registry!Register
    <2>1. last' = last + 1 /\ ids' = ids \cup {last + 1} /\ found' = found
        BY <1>2 DEF Registry!Register
    <2>2. NotGone' = NotGone /\ HostsFound' = HostsFound
        BY <1>a, <2>1 DEF NotGone, HostsFound
    <2> QED
        BY <2>2, UnseenIsStutter
<1>3. ASSUME NEW t \in ids, Registry!Withdraw(t)
      PROVE  [Next]_vars
    <2>1. last' = last /\ ids' = ids \ {t} /\ found' = {d \in found : d[1] # t}
        BY <1>3 DEF Registry!Withdraw
    <2>2. \A u, h : <<u, h>> \in found' <=> <<u, h>> \in found /\ u # t
        BY <2>1
    <2>3. CASE t \in Targets
        <3>1. t \in targets /\ NotGone' = NotGone \ {t}
            BY <1>0, <2>1, <2>3 DEF NotGone
        <3>2. HostsFound' = [HostsFound EXCEPT ![t] = {}]
            BY <2>2, <2>3 DEF HostsFound
        <3>3. DeleteEndpoint(t)
            BY <2>3, <3>1, <3>2, GoneIsDeleted
        <3> QED
            BY <2>3, <3>3 DEF Next
    <2>4. CASE t \notin Targets
        <3>1. NotGone' = NotGone /\ HostsFound' = HostsFound
            BY <2>1, <2>2, <2>4 DEF NotGone, HostsFound
        <3> QED
            BY <3>1, UnseenIsStutter
    <2> QED
        BY <2>3, <2>4
<1>4. ASSUME NEW t \in ids, NEW hosts \in SUBSET Hosts, Registry!Find(t, hosts)
      PROVE  [Next]_vars
    <2>1. last' = last /\ ids' = ids /\ found' = found \cup ({t} \X hosts)
        BY <1>4 DEF Registry!Find
    <2>2. NotGone' = NotGone
        BY <2>1 DEF NotGone
    <2>3. \A u, h : <<u, h>> \in found' <=> <<u, h>> \in found \/ (u = t /\ h \in hosts)
        BY <2>1
    <2>4. CASE t \in Targets /\ ~(hosts \subseteq discovered[t])
        <3>1. HostsFound' = [HostsFound EXCEPT ![t] = @ \cup hosts]
            BY <2>3 DEF HostsFound
        <3>2. t \in targets /\ hosts # {}
            BY <1>0, <2>4 DEF NotGone
        <3>3. discovered' = [discovered EXCEPT ![t] = @ \cup hosts] /\ targets' = targets
            BY <1>0, <2>2, <3>1 DEF RegistryStep
        <3>4. summaries' = summaries
            <4>1. \A s \in summaries : s.target \in targets
                BY DEF Joint, Books, LedgersAgree
            <4> QED
                BY <1>0, <2>2, <4>1 DEF RegistryStep, Cascade
        <3>5. Discover(t, hosts)
            BY <2>4, <3>2, <3>3, <3>4 DEF Discover, RegistryStep, callState
        <3> QED
            BY <2>4, <3>5 DEF Next
    <2>5. CASE t \notin Targets \/ hosts \subseteq discovered[t]
        <3>1. HostsFound' = HostsFound
            BY <1>0, <2>3, <2>5 DEF HostsFound
        <3> QED
            BY <2>2, <3>1, UnseenIsStutter
    <2> QED
        BY <2>4, <2>5
<1> QED
    BY <1>1, <1>2, <1>3, <1>4 DEF RegistryStep, Registry!Next

LEMMA JointStep ==
    ASSUME Targets \subseteq Nat, Joint, [MeteredNext]_<<vars, registry>>
    PROVE  [Next]_vars /\ Joint'
<1>1. [Next]_vars
    <2>1. CASE HandlersStep
        BY <2>1 DEF HandlersStep, Next
    <2> QED
        BY <2>1, RegistryStepIsStep DEF MeteredNext
<1>2. Base' /\ Books'
    BY <1>1, NextBase, NextBooks DEF Joint
<1>3. CASE HandlersStep \/ UNCHANGED <<vars, registry>>
    <2>1. UNCHANGED <<targets, discovered, registry>>
        BY <1>3, HandlersLeaveEndpoints DEF HandlersStep, vars, tables
    <2> QED
        BY <1>1, <1>2, <2>1 DEF Joint, Seen, NotGone, HostsFound, registry
<1>4. CASE RegistryStep
    <2>1. Seen'
        BY <1>4 DEF RegistryStep, Seen
    <2>2. last' \in Nat /\ ids' \subseteq 1..last' /\ found' \subseteq ids' \X Hosts
        BY <1>4, RegistryKeeps DEF RegistryStep, Joint
    <2> QED
        BY <1>1, <1>2, <2>1, <2>2 DEF Joint
<1> QED
    BY <1>3, <1>4 DEF MeteredNext

\* Assessments over endpoints that come and go as the registry promises do
\* nothing that Assessment does not do: ids that are drawn, also in vain,
\* discovery and deletions with their cascade are steps of its environment.  So
\* all that is proved of Assessment holds of them.
THEOREM RegistryServesAssessments == Targets \subseteq Nat => (MeteredSpec => Spec)
<1> SUFFICES ASSUME Targets \subseteq Nat
             PROVE  MeteredSpec => Spec
    OBVIOUS
<1>1. MeteredInit => Init /\ Joint
    BY InitBase, InitBooks DEF MeteredInit, Registry!Init, Joint
<1>2. Joint /\ [MeteredNext]_<<vars, registry>> => [Next]_vars /\ Joint'
    BY JointStep
<1> QED
    BY <1>1, <1>2, PTL DEF MeteredSpec, Spec
=============================================================================
