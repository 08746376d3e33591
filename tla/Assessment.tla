----------------------------- MODULE Assessment -----------------------------
(***************************************************************************)
(* The metered assessment of a host: POST /endpoints/{id}/assessments and  *)
(* its older sibling POST /endpoints/{id}/assess.                          *)
(*                                                                         *)
(* A call resolves its target, reserves its Idempotency-Key, runs the      *)
(* remote assessment outside any transaction, and then writes summary,     *)
(* usage event, domain event and the closing of the key in one             *)
(* transaction; on failure it releases the key.  Calls interleave between  *)
(* any two transactions, the process may crash, endpoints may be deleted   *)
(* underneath a run, and time passes.                                      *)
(*                                                                         *)
(* A definition D_X is D with a mistake X in it, for checking that the      *)
(* properties would notice; nothing uses it.                               *)
(*                                                                         *)
(* One action is one committed (or rolled back) transaction or one remote  *)
(* run.  A call is an HTTP request; it is also the identity of the         *)
(* assessment it may record (public_id) and of the reservation it may      *)
(* insert.                                                                 *)
(***************************************************************************)
EXTENDS Naturals, FiniteSets

CONSTANTS
    Calls,      \* HTTP requests
    Keys,       \* (principal, Idempotency-Key) pairs
    NoKey,      \* the header is absent
    Targets,    \* endpoint ids
    Hosts,      \* normalized host addresses, in the order of the ip column
    AnyHost,    \* the request names no ip
    Network,    \* Network[t]: the addresses that belong to endpoint t
    Lease,      \* age past which a reservation may be taken over (10 min)
    Validity,   \* age past which a key is purged (24 h)
    MaxHold,    \* longest time from a reservation's transaction to the end of its handler
    MaxClock    \* bound of the checked runs, not of the code

ASSUME InputsAssumption ==
    /\ NoKey \notin Keys
    /\ Hosts \subseteq Nat
    /\ AnyHost \notin Hosts
    /\ Network \in [Targets -> SUBSET Hosts]

ASSUME TimingAssumption ==
    /\ Lease \in Nat /\ Validity \in Nat /\ MaxHold \in Nat /\ MaxClock \in Nat

VARIABLES
    clock,
    targets,     \* endpoints: the ids that exist
    discovered,  \* discovery_results: hosts found at an endpoint
    rows,        \* idempotency_keys
    summaries,   \* assessment_summaries
    usage,       \* usage_events
    events,      \* domain_events of type assessment.completed
    closed,      \* history: one entry per committed close of a key
    pc,          \* where the handler of each call is
    job,         \* the request: key and what it asks for
    host,        \* the address resolve_target settled on
    now,         \* start of the call's transaction: now() in its SQL
    lap,         \* which of the two laps of reserve's loop
    origin,      \* history: the call that inserted the row this call runs under
    answer       \* the assessment a 200 answer reports

tables == <<targets, discovered, rows, summaries, usage, events, closed>>
callState == <<pc, job, host, now, lap, origin, answer>>
vars == <<clock, tables, callState>>

-----------------------------------------------------------------------------
(* What a request asks, and what is kept of a result.                      *)

\* fingerprint: two requests are the same request iff they ask the same.
Asks == [target : Targets, ip : Hosts \cup {AnyHost}]
Jobs == [key : Keys \cup {NoKey}, ask : Asks]
NoJob == [key |-> NoKey]

Absent == [state |-> "absent"]
Row == [state : {"in_progress", "completed"}, ask : Asks, created : Nat, updated : Nat,
        body : Calls \cup {"null"}, origin : Calls]

Assessments == [call : Calls, target : Targets, host : Hosts, at : Nat]
Closings == [call : Calls, key : Keys, under : Calls, created : Nat, renewed : Nat, since : Nat]

\* A call that runs with a reservation (or without a key), not finished yet.
Holding == {"run", "persist", "release"}
Live == {"reserve", "select"} \cup Holding
\* "failed": an error answer, nothing left in progress by this call; "lost": the
\* COMMIT of its reservation was applied but not acknowledged, so that it ended
\* with an error before it ran; "stuck": it could not release; "dead": crashed.
Ended == {"done", "replayed", "refused", "mismatch", "conflict", "failed", "lost", "stuck", "dead"}
\* Ends that may leave a key in progress.
LeftBehind == {"lost", "stuck", "dead"}

Key(c) == job[c].key
Ask(c) == job[c].ask
AssessmentOf(c, at) == [call |-> c, target |-> Ask(c).target, host |-> host[c], at |-> at]

-----------------------------------------------------------------------------
Init ==
    /\ clock = 0
    /\ targets = Targets
    /\ discovered = [t \in Targets |-> {}]
    /\ rows = [k \in Keys |-> Absent]
    /\ summaries = {} /\ usage = {} /\ events = {} /\ closed = {}
    /\ pc = [c \in Calls |-> "new"]
    /\ job = [c \in Calls |-> NoJob]
    /\ host = [c \in Calls |-> AnyHost]
    /\ now = [c \in Calls |-> 0]
    /\ lap = [c \in Calls |-> 1]
    /\ origin = [c \in Calls |-> c]
    /\ answer = [c \in Calls |-> c]

\* The next step of a handler; its transaction's now() ends with the handler.
Goto(c, label) ==
    /\ pc' = [pc EXCEPT ![c] = label]
    /\ now' = IF label \in Ended THEN [now EXCEPT ![c] = 0] ELSE now

\* The same, where the step opens the transaction.
BeginAndGoto(c, label) ==
    /\ pc' = [pc EXCEPT ![c] = label]
    /\ now' = [now EXCEPT ![c] = IF label \in Ended THEN 0 ELSE clock]

-----------------------------------------------------------------------------
(* 1. resolve_target                                                       *)

First(S) == CHOOSE h \in S : \A g \in S : h <= g

Resolvable_IpUnchecked(ask) == ask.target \in targets /\ discovered[ask.target] # {}

Resolvable(ask) ==
    /\ ask.target \in targets
    /\ discovered[ask.target] # {}
    /\ ask.ip # AnyHost => ask.ip \in Network[ask.target] \cap discovered[ask.target]

Resolved_NoDefault(ask) == ask.ip

Resolved(ask) == IF ask.ip = AnyHost THEN First(discovered[ask.target]) ELSE ask.ip

ResolveTarget(c, k, ask) ==
    /\ pc[c] = "new"
    /\ Resolvable(ask)
    /\ job' = [job EXCEPT ![c] = [key |-> k, ask |-> ask]]
    /\ host' = [host EXCEPT ![c] = Resolved(ask)]
    /\ BeginAndGoto(c, IF k = NoKey THEN "run" ELSE "reserve")
    /\ UNCHANGED <<clock, tables, lap, origin, answer>>

\* 404 or 422, before the key is even looked at.
RefuseTarget(c, ask) ==
    /\ pc[c] = "new"
    /\ ~Resolvable(ask)
    /\ Goto(c, "refused")
    /\ UNCHANGED <<clock, tables, job, host, lap, origin, answer>>

-----------------------------------------------------------------------------
(* 2. reserve                                                              *)

Expired_AtTheLimit(row, t) == row.state # "absent" /\ row.created + Validity <= t

Expired(row, t) == row.state # "absent" /\ row.created + Validity < t

Lapsed_AtTheLimit(row, t) == row.updated + Lease <= t
Lapsed_SinceCreation(row, t) == row.created + Lease < t

Lapsed(row, t) == row.updated + Lease < t

\* purge_expired_idempotency_keys runs first in every reserve transaction and
\* lasts only if that transaction commits.
Purged(t) == [k \in Keys |-> IF Expired(rows[k], t) THEN Absent ELSE rows[k]]

Reservation(c) ==
    [state |-> "in_progress", ask |-> Ask(c), created |-> clock, updated |-> clock,
     body |-> "null", origin |-> c]

\* What the commit of a reservation leads to: the call may run, or the
\* acknowledgement is lost.  reserve is called before the handler's try, so
\* the error then ends the handler and nothing is released.
Reserved == {"run", "lost"}

\* INSERT ... ON CONFLICT DO NOTHING inserted: commit.
ReserveInsert(c) ==
    /\ pc[c] = "reserve"
    /\ Purged(clock)[Key(c)] = Absent
    /\ rows' = [Purged(clock) EXCEPT ![Key(c)] = Reservation(c)]
    /\ origin' = [origin EXCEPT ![c] = c]
    /\ \E label \in Reserved : BeginAndGoto(c, label)
    /\ UNCHANGED <<clock, targets, discovered, summaries, usage, events, closed,
                   job, host, lap, answer>>

\* The row exists: the transaction goes on to SELECT ... FOR UPDATE, and
\* another transaction may commit before it gets the row.
ReserveConflict(c) ==
    /\ pc[c] = "reserve"
    /\ Purged(clock)[Key(c)] # Absent
    /\ BeginAndGoto(c, "select")
    /\ UNCHANGED <<clock, tables, job, host, lap, origin, answer>>

\* The row vanished in between: once more, then 409; 500 if the acknowledgement
\* of this commit, which keeps only the purge, is lost.
SelectGone(c) ==
    /\ pc[c] = "select"
    /\ rows[Key(c)] = Absent
    /\ rows' = Purged(now[c])
    /\ \/ lap[c] = 1 /\ lap' = [lap EXCEPT ![c] = 2] /\ Goto(c, "reserve")
       \/ lap[c] = 2 /\ Goto(c, "conflict") /\ UNCHANGED lap
       \/ Goto(c, "failed") /\ UNCHANGED lap
    /\ UNCHANGED <<clock, targets, discovered, summaries, usage, events, closed,
                   job, host, origin, answer>>

Selected(c) == pc[c] = "select" /\ rows[Key(c)] # Absent

SameRequest_KeyOnly(c) == TRUE

SameRequest(c) == rows[Key(c)].ask = Ask(c)

\* 422: raised inside the transaction, which rolls the purge back.
RefuseMismatch(c) ==
    /\ Selected(c)
    /\ ~SameRequest(c)
    /\ Goto(c, "mismatch")
    /\ UNCHANGED <<clock, tables, job, host, lap, origin, answer>>

\* The stored answer, or 500 if the acknowledgement of this commit is lost.
Replay(c) ==
    /\ Selected(c) /\ SameRequest(c)
    /\ rows[Key(c)].state = "completed"
    /\ rows' = Purged(now[c])
    /\ \/ answer' = [answer EXCEPT ![c] = rows[Key(c)].body] /\ Goto(c, "replayed")
       \/ Goto(c, "failed") /\ UNCHANGED answer
    /\ UNCHANGED <<clock, targets, discovered, summaries, usage, events, closed,
                   job, host, lap, origin>>

Renewed_NotTouched(row, t) == row

\* take_over_idempotency_key: the lease starts again, the age does not.
Renewed(row, t) == [row EXCEPT !.updated = t]

TakeOver(c) ==
    /\ Selected(c) /\ SameRequest(c)
    /\ rows[Key(c)].state = "in_progress"
    /\ Lapsed(rows[Key(c)], now[c])
    /\ rows' = [Purged(now[c]) EXCEPT ![Key(c)] = Renewed(rows[Key(c)], now[c])]
    /\ origin' = [origin EXCEPT ![c] = rows[Key(c)].origin]
    /\ \E label \in Reserved : Goto(c, label)
    /\ UNCHANGED <<clock, targets, discovered, summaries, usage, events, closed,
                   job, host, lap, answer>>

\* 409: also rolls the purge back.
RefuseBusy(c) ==
    /\ Selected(c) /\ SameRequest(c)
    /\ rows[Key(c)].state = "in_progress"
    /\ ~Lapsed(rows[Key(c)], now[c])
    /\ Goto(c, "conflict")
    /\ UNCHANGED <<clock, tables, job, host, lap, origin, answer>>

\* Any database error before the commit: rolled back, 500.
ReserveFails(c) ==
    /\ pc[c] \in {"reserve", "select"}
    /\ Goto(c, "failed")
    /\ UNCHANGED <<clock, tables, job, host, lap, origin, answer>>

-----------------------------------------------------------------------------
(* 3. run_remote and _findings_from_run, outside any transaction           *)

AfterFailure_NoRelease(c) == "failed"

AfterFailure(c) == IF Key(c) = NoKey THEN "failed" ELSE "release"

RunRemote(c) ==
    /\ pc[c] = "run"
    /\ Goto(c, "persist")
    /\ UNCHANGED <<clock, tables, job, host, lap, origin, answer>>

\* 401, 502, 504, or 422 for a finding whose control is not in the catalogue.
RunFails(c) ==
    /\ pc[c] = "run"
    /\ Goto(c, AfterFailure(c))
    /\ UNCHANGED <<clock, tables, job, host, lap, origin, answer>>

-----------------------------------------------------------------------------
(* 4. persist and release                                                  *)

EndpointStillThere_NoForeignKey(c) == TRUE

\* The foreign key of assessment_summaries.
EndpointStillThere(c) == Ask(c).target \in targets

Completes_AnyState(c) == Key(c) # NoKey => rows[Key(c)].state # "absent"

\* complete_idempotency_key updates exactly one row.
Completes(c) == Key(c) # NoKey => rows[Key(c)].state = "in_progress"

CloseKey(c) ==
    IF Key(c) = NoKey THEN UNCHANGED <<rows, closed>>
    ELSE LET row == rows[Key(c)] IN
         /\ rows' = [rows EXCEPT ![Key(c)] =
                        [row EXCEPT !.state = "completed", !.body = c, !.updated = clock]]
         /\ closed' = closed \cup {[call |-> c, key |-> Key(c),
                                    under |-> row.origin, created |-> row.created,
                                    renewed |-> row.updated, since |-> now[c]]}

\* The transaction commits.  What follows (building the envelope with its
\* findings, the acknowledgement of COMMIT) may still raise into the handler.
\* The assessment is dated before its transaction, when the remote run ended:
\* any time since the call got to run.
Persist(c) ==
    /\ pc[c] = "persist"
    /\ EndpointStillThere(c)
    /\ Completes(c)
    /\ \E at \in now[c]..clock :
          /\ summaries' = summaries \cup {AssessmentOf(c, at)}
          /\ usage' = usage \cup {AssessmentOf(c, at)}
          /\ events' = events \cup {AssessmentOf(c, at)}
    /\ CloseKey(c)
    /\ \E label \in {"done", AfterFailure(c)} : Goto(c, label)
    /\ UNCHANGED <<clock, targets, discovered, job, host, lap, origin, answer>>

PersistRollsBack_KeyClosedApart(c) ==
    /\ pc[c] = "persist" /\ Key(c) # NoKey /\ Completes(c)
    /\ CloseKey(c)
    /\ Goto(c, "release")
    /\ UNCHANGED <<clock, targets, discovered, summaries, usage, events,
                   job, host, lap, origin, answer>>

\* Foreign key on a deleted endpoint, reservation no longer in progress, or
\* any database error: nothing is written.
PersistRollsBack(c) ==
    /\ pc[c] = "persist"
    /\ Goto(c, AfterFailure(c))
    /\ UNCHANGED <<clock, tables, job, host, lap, origin, answer>>

Deletes_AnyState(row) == row.state # "absent"

\* delete_idempotency_key deletes only a row still in progress, whoever holds it.
Deletes(row) == row.state = "in_progress"

Release(c) ==
    /\ pc[c] = "release"
    /\ rows' = [rows EXCEPT ![Key(c)] = IF Deletes(@) THEN Absent ELSE @]
    /\ Goto(c, "failed")
    /\ UNCHANGED <<clock, targets, discovered, summaries, usage, events, closed,
                   job, host, lap, origin, answer>>

\* The release itself fails: the handler ends with an unhandled error.  (If only
\* the acknowledgement of its COMMIT is lost, the row is gone as in Release.)
ReleaseFails(c) ==
    /\ pc[c] = "release"
    /\ Goto(c, "stuck")
    /\ UNCHANGED <<clock, tables, job, host, lap, origin, answer>>

-----------------------------------------------------------------------------
(* count_billable_hosts: distinct hosts charged in the period [from, to).  *)

Charges_EndIncluded(from, to) == {u \in usage : from <= u.at /\ u.at <= to}

Charges(from, to) == {u \in usage : from <= u.at /\ u.at < to}
BillableHosts(from, to) == {u.host : u \in Charges(from, to)}

-----------------------------------------------------------------------------
(* The environment of the handlers                                         *)

\* POST /endpoints/{id}/discover commits hosts found in the endpoint.
Discover(t, found) ==
    /\ t \in targets
    /\ found # {} /\ found \subseteq Hosts
    /\ ~(found \subseteq discovered[t])
    /\ discovered' = [discovered EXCEPT ![t] = @ \cup found]
    /\ UNCHANGED <<clock, targets, rows, summaries, usage, events, closed, callState>>

DeleteEndpoint_UsageCascades(t) ==
    /\ t \in targets
    /\ targets' = targets \ {t}
    /\ discovered' = [discovered EXCEPT ![t] = {}]
    /\ summaries' = {s \in summaries : s.target # t}
    /\ usage' = {u \in usage : u.target # t}
    /\ UNCHANGED <<clock, rows, events, closed, callState>>

\* DELETE /endpoints/{id}: summaries and discovery results go in cascade.
DeleteEndpoint(t) ==
    /\ t \in targets
    /\ targets' = targets \ {t}
    /\ discovered' = [discovered EXCEPT ![t] = {}]
    /\ summaries' = {s \in summaries : s.target # t}
    /\ UNCHANGED <<clock, rows, usage, events, closed, callState>>

\* The single server process dies; open transactions roll back.
Crash ==
    /\ \E c \in Calls : pc[c] \in Live
    /\ pc' = [c \in Calls |-> IF pc[c] \in Live THEN "dead" ELSE pc[c]]
    /\ now' = [c \in Calls |-> IF pc[c] \in Live THEN 0 ELSE now[c]]
    /\ UNCHANGED <<clock, tables, job, host, lap, origin, answer>>

\* Time passes, but no handler outlives MaxHold (make MaxHold > MaxClock to
\* let handlers stall forever).
OnTime(c) == pc[c] \in Holding \cup {"select"} => clock < now[c] + MaxHold

Tick ==
    /\ clock < MaxClock
    /\ \A c \in Calls : OnTime(c)
    /\ clock' = clock + 1
    /\ UNCHANGED <<tables, callState>>

-----------------------------------------------------------------------------
Reserve(c) ==
    \/ ReserveInsert(c) \/ ReserveConflict(c) \/ SelectGone(c)
    \/ RefuseMismatch(c) \/ Replay(c) \/ TakeOver(c) \/ RefuseBusy(c)
    \/ ReserveFails(c)

Handle(c) ==
    \/ Reserve(c)
    \/ RunRemote(c) \/ RunFails(c)
    \/ Persist(c) \/ PersistRollsBack(c)
    \/ Release(c) \/ ReleaseFails(c)

Arrive(c) ==
    \E ask \in Asks :
        \/ \E k \in Keys \cup {NoKey} : ResolveTarget(c, k, ask)
        \/ RefuseTarget(c, ask)

Next ==
    \/ \E c \in Calls : Arrive(c) \/ Handle(c)
    \/ \E t \in Targets, found \in SUBSET Hosts : Discover(t, found)
    \/ \E t \in Targets : DeleteEndpoint(t)
    \/ Crash
    \/ Tick

Spec == Init /\ [][Next]_vars

\* Handlers are threads of a running server and the remote call has a timeout:
\* a handler that can step does.  Arrivals, deletions, crashes and the clock
\* are owed nothing.
FairSpec == Spec /\ \A c \in Calls : WF_vars(Handle(c))

-----------------------------------------------------------------------------
(* Properties                                                              *)

\* Every variable stays in its type.
TypeOK ==
    /\ clock \in Nat
    /\ targets \subseteq Targets
    /\ discovered \in [Targets -> SUBSET Hosts]
    /\ rows \in [Keys -> Row \cup {Absent}]
    /\ summaries \subseteq Assessments
    /\ usage \subseteq Assessments
    /\ events \subseteq Assessments
    /\ closed \subseteq Closings
    /\ pc \in [Calls -> {"new"} \cup Live \cup Ended]
    /\ job \in [Calls -> Jobs \cup {NoJob}]
    /\ host \in [Calls -> Hosts \cup {AnyHost}]
    /\ now \in [Calls -> Nat]
    /\ lap \in [Calls -> {1, 2}]
    /\ origin \in [Calls -> Calls]
    /\ answer \in [Calls -> Calls]

\* The three tables tell one story through failures and cascades: each charge
\* has its domain event, and its summary exactly until its endpoint is deleted.
LedgersAgree ==
    /\ events = usage
    /\ summaries = {u \in usage : u.target \in targets}

\* One reservation, however often it is taken over, stalled or released by a
\* late owner, is closed by at most one charged assessment.
ChargedOncePerReservation ==
    \A p, q \in closed : p.under = q.under => p = q

\* What is charged is a host the endpoint was discovered to have (discovery
\* results are never withdrawn while the endpoint exists), and an address the
\* request named belongs to the endpoint's range.
ChargedHostBelongs ==
    \A u \in usage :
        /\ u.target \in targets => u.host \in discovered[u.target]
        /\ Ask(u.call).ip # AnyHost => u.host \in Network[u.target]

\* No step takes a host out of the bill of any period, not even the deletion
\* of its endpoint.
BillNeverShrinks ==
    [][\A from, to \in 0..MaxClock + 1 :
          BillableHosts(from, to) \subseteq BillableHosts(from, to)']_vars

\* The bill of a period is final once MaxHold has passed since its end: a
\* charge is dated before it commits, but never by more than a handler lives.
BillIsFinal ==
    [][\A from, to \in 0..MaxClock + 1 :
          clock >= to + MaxHold => BillableHosts(from, to) = BillableHosts(from, to)']_vars

\* What a keyed call was charged for stays replayable for the key's whole
\* validity: nobody reopens, deletes or rewrites the completed row before.
ChargedStaysReplayable ==
    \A p \in closed :
        clock <= p.created + Validity =>
            /\ rows[p.key].state = "completed"
            /\ rows[p.key].body = p.call
            /\ rows[p.key].origin = p.under

\* A key answers only with an assessment that was charged.
CompletedMeansCharged ==
    \A k \in Keys : rows[k].state = "completed" =>
        \E u \in usage : u.call = rows[k].body

\* A reservation in progress has a handler behind it, or was left behind by
\* one that crashed, could not release it, or was not told that it had it.
NoOrphanReservation ==
    \A k \in Keys : rows[k].state = "in_progress" =>
        \E c \in Calls : /\ Key(c) = k
                         /\ origin[c] = rows[k].origin
                         /\ pc[c] \in Holding \cup LeftBehind

\* While handlers keep within MaxHold, no two of them run under the same
\* reservation at the same time.
OneRunPerReservation ==
    \A c, d \in Calls :
        /\ c # d
        /\ pc[c] \in Holding /\ pc[d] \in Holding
        /\ Key(c) = Key(d) /\ Key(c) # NoKey
        => origin[c] # origin[d]

\* No two calls with the same key run the remote assessment at the same time.
OneRunPerKey ==
    \A c, d \in Calls :
        pc[c] = "run" /\ pc[d] = "run" /\ Key(c) = Key(d) /\ Key(c) # NoKey => c = d

\* A repeated call is answered with an assessment of what it asked for.
ReplayIsOfTheSameRequest ==
    \A c \in Calls : pc[c] = "replayed" =>
        /\ Ask(answer[c]) = Ask(c)
        /\ \E u \in usage : u.call = answer[c]

\* The call that closes a key is the one that holds it: the reservation was
\* not renewed for somebody else after this call got it.
OnlyHolderCompletes ==
    \A p \in closed : p.renewed = p.since

\* A key does not stay reserved unless a handler of that very reservation
\* crashed, could not release it, or was not told that it had it.
ReservationSettles ==
    \A k \in Keys :
        rows[k].state = "in_progress" ~>
            \/ rows[k].state # "in_progress"
            \/ \E c \in Calls : /\ Key(c) = k
                               /\ origin[c] = rows[k].origin
                               /\ pc[c] \in LeftBehind

\* The tables as the abstract ledger sees them: leases and requests forgotten.
LedgerSlot ==
    [k \in Keys |->
        IF rows[k].state = "absent" THEN [state |-> "free"]
        ELSE IF rows[k].state = "in_progress"
        THEN [state |-> "reserved", created |-> rows[k].created]
        ELSE [state |-> "answered", created |-> rows[k].created, by |-> rows[k].body]]

Ledger == INSTANCE KeyLedger WITH slot <- LedgerSlot, charged <- {u.call : u \in usage}

\* The handlers, with all their stalls, takeovers, failures and crashes, do
\* nothing to keys and charges that the ledger does not allow.
ImplementsLedger == Ledger!Spec
=============================================================================
