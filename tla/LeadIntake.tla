----------------------------- MODULE LeadIntake -----------------------------
(***************************************************************************)
(* POST /leads: the limit of requests per address, kept in a dictionary    *)
(* that the threads of the server share without a lock; the insertion of   *)
(* the lead; and the notification of Slack that runs in the background     *)
(* after the answer.                                                       *)
(*                                                                         *)
(* Under the interpreter lock one step is one access to the dictionary.    *)
(* The time a list holds is that of a request, so a list is the set of its *)
(* requests; the code never stores an empty list, so an address is in the  *)
(* dictionary when its set is not empty.  A request is also the identity   *)
(* of the lead it stores.                                                  *)
(*                                                                         *)
(* A definition D_X is D with a mistake X in it, for checking that the      *)
(* properties would notice; nothing uses it.                               *)
(***************************************************************************)
EXTENDS Integers, FiniteSets

CONSTANTS
    Requests,
    Addresses,    \* what X-Real-IP may say
    Window,       \* _RATE_LIMIT_WINDOW_SECONDS
    MaxRequests,  \* _RATE_LIMIT_MAX_REQUESTS
    MaxTracked,   \* _RATE_LIMIT_MAX_TRACKED_IPS
    MaxAttempts,  \* of posting to Slack
    MaxClock,     \* bounds of the checked runs, not of the code: of the clock
    MaxLeads      \* and of the leads that are stored and announced

ASSUME LimitsAssumption ==
    /\ Window \in Nat \ {0} /\ MaxRequests \in Nat \ {0} /\ MaxTracked \in Nat
    /\ MaxAttempts \in Nat \ {0} /\ MaxClock \in Nat /\ MaxLeads \in Nat

VARIABLES
    clock,
    webhook,    \* whether SLACK_LEADS_WEBHOOK_URL is set
    recent,     \* _rate_limit_state: per address, the requests whose times are listed
    leads,      \* table leads: per lead, what is recorded of its notification
    delivered,  \* external: how often Slack received a lead
    pc, from, at,
    seen,       \* the list a check has read and filtered
    todo,       \* the addresses its sweep has still to visit
    visit,      \* the address its sweep is at
    alone,      \* history: no other check overlapped this one
    admitted,   \* history: requests let through since the process started
    told,       \* history: visitors who were answered "received"
    tries,      \* posts to Slack
    outcome     \* of the last post

checkVars == <<recent, from, at, seen, todo, visit, alone, admitted>>
noticeVars == <<delivered, tries, outcome>>
vars == <<clock, webhook, leads, pc, told, checkVars, noticeVars>>

Unnotified == [notified |-> FALSE, attempts |-> 0, error |-> "none"]

\* Requests inside _check_rate_limit, past its first access to the dictionary.
Checking == {r \in Requests : pc[r] \in {"pop", "count", "size", "sweep", "write"}}
\* "over": answered without a notification, or lost in a crash; "ignored": the
\* honeypot field was filled in; "broken": the limiter itself raised; "done":
\* the background task has ended.
Ended == {"over", "ignored", "broken", "done"}
Live == {r \in Requests : pc[r] \notin Ended \cup {"new"}}

Init ==
    /\ clock = 0
    /\ webhook \in BOOLEAN
    /\ recent = [a \in Addresses |-> {}]
    /\ leads = [r \in {} |-> Unnotified]
    /\ delivered = [r \in Requests |-> 0]
    /\ pc = [r \in Requests |-> "new"]
    /\ from \in [Requests -> Addresses]
    /\ at = [r \in Requests |-> 0]
    /\ seen = [r \in Requests |-> {}]
    /\ todo = [r \in Requests |-> {}]
    /\ visit = from
    /\ alone = [r \in Requests |-> TRUE]
    /\ admitted = {}
    /\ told = {}
    /\ tries = [r \in Requests |-> 0]
    /\ outcome = [r \in Requests |-> "none"]

Goto(r, label) == pc' = [pc EXCEPT ![r] = label]

-----------------------------------------------------------------------------
(* _check_rate_limit *)

\* Those of a list that are inside the window that ends at t.
Fresh(list, t) == {x \in list : t - at[x] < Window}
Tracked == {a \in Addresses : recent[a] # {}}

\* A visitor's request.  A body that is not a LeadRequest is refused (422)
\* before the handler; to one with the honeypot field filled in the handler
\* answers "received", and does nothing else.
Arrive(r) ==
    /\ pc[r] = "new"
    /\ \/ Goto(r, "read") /\ UNCHANGED told
       \/ Goto(r, "over") /\ UNCHANGED told
       \/ Goto(r, "ignored") /\ told' = told \cup {r}
    /\ UNCHANGED <<clock, webhook, leads, checkVars, noticeVars>>

ReadRecent(r) ==
    /\ pc[r] = "read"
    /\ at' = [at EXCEPT ![r] = clock]
    /\ seen' = [seen EXCEPT ![r] = Fresh(recent[from[r]], clock)]
    /\ Goto(r, IF seen'[r] = {} THEN "pop" ELSE "count")
    /\ alone' = [x \in Requests |-> IF x \in Checking \cup {r} THEN Checking = {} ELSE alone[x]]
    /\ UNCHANGED <<clock, webhook, leads, recent, from, todo, visit, admitted, told, noticeVars>>

\* The caller's own entry goes when nothing in it is recent; it may be absent.
PopOwn_NoDefault(r) ==
    /\ pc[r] = "pop"
    /\ recent' = [recent EXCEPT ![from[r]] = {}]
    /\ Goto(r, IF from[r] \in Tracked THEN "count" ELSE "broken")
    /\ UNCHANGED <<clock, webhook, leads, from, at, seen, todo, visit, alone, admitted, told, noticeVars>>
PopOwn(r) ==
    /\ pc[r] = "pop"
    /\ recent' = [recent EXCEPT ![from[r]] = {}]
    /\ Goto(r, "count")
    /\ UNCHANGED <<clock, webhook, leads, from, at, seen, todo, visit, alone, admitted, told, noticeVars>>

OverLimit(list) == Cardinality(list) >= MaxRequests

\* 429.  What has expired stays in the dictionary, and the attempt is not listed.
RefuseLimit(r) ==
    /\ pc[r] = "count"
    /\ OverLimit(seen[r])
    /\ seen' = [seen EXCEPT ![r] = {}]
    /\ Goto(r, "over")
    /\ UNCHANGED <<clock, webhook, leads, recent, from, at, todo, visit, alone, admitted, told, noticeVars>>

\* The list read before is written back: what others wrote meanwhile is gone.
Append(r) ==
    /\ pc[r] = "count"
    /\ ~OverLimit(seen[r])
    /\ recent' = [recent EXCEPT ![from[r]] = seen[r] \cup {r}]
    /\ admitted' = admitted \cup {r}
    /\ seen' = [seen EXCEPT ![r] = {}]
    /\ Goto(r, "size")
    /\ UNCHANGED <<clock, webhook, leads, from, at, todo, visit, alone, told, noticeVars>>

MustSweep_Never == FALSE
MustSweep == Cardinality(Tracked) > MaxTracked

NoSweep(r) ==
    /\ pc[r] = "size"
    /\ ~MustSweep
    /\ Goto(r, "store")
    /\ UNCHANGED <<clock, webhook, leads, told, checkVars, noticeVars>>

\* list(_rate_limit_state): the addresses of this moment.
StartSweep(r) ==
    /\ pc[r] = "size"
    /\ MustSweep
    /\ todo' = [todo EXCEPT ![r] = Tracked]
    /\ Goto(r, "sweep")
    /\ UNCHANGED <<clock, webhook, leads, recent, from, at, seen, visit, alone, admitted, told, noticeVars>>

\* An address another thread has removed since is a KeyError: 500, nothing stored.
SweepRead(r, a) ==
    /\ pc[r] = "sweep"
    /\ a \in todo[r]
    /\ todo' = [todo EXCEPT ![r] = @ \ {a}]
    /\ \/ /\ a \in Tracked
          /\ seen' = [seen EXCEPT ![r] = Fresh(recent[a], at[r])]
          /\ visit' = [visit EXCEPT ![r] = a]
          /\ Goto(r, "write")
       \/ /\ a \notin Tracked
          /\ Goto(r, "broken")
          /\ UNCHANGED <<seen, visit>>
    /\ UNCHANGED <<clock, webhook, leads, recent, from, at, alone, admitted, told, noticeVars>>

AfterSweepStep(r) == IF todo[r] = {} THEN "store" ELSE "sweep"

\* The filtered list is written back, or the address removed (a KeyError if it is gone).
SweepWrite_Forgets(r) ==
    /\ pc[r] = "write"
    /\ recent' = [recent EXCEPT ![visit[r]] = {}]
    /\ Goto(r, AfterSweepStep(r))
    /\ seen' = [seen EXCEPT ![r] = {}]
    /\ visit' = [visit EXCEPT ![r] = from[r]]
    /\ UNCHANGED <<clock, webhook, leads, from, at, todo, alone, admitted, told, noticeVars>>
SweepWrite(r) ==
    /\ pc[r] = "write"
    /\ recent' = [recent EXCEPT ![visit[r]] = seen[r]]
    /\ Goto(r, IF seen[r] = {} /\ visit[r] \notin Tracked THEN "broken" ELSE AfterSweepStep(r))
    /\ seen' = [seen EXCEPT ![r] = {}]
    /\ visit' = [visit EXCEPT ![r] = from[r]]
    /\ UNCHANGED <<clock, webhook, leads, from, at, todo, alone, admitted, told, noticeVars>>

Check(r) ==
    \/ ReadRecent(r) \/ PopOwn(r) \/ RefuseLimit(r) \/ Append(r)
    \/ NoSweep(r) \/ StartSweep(r) \/ SweepWrite(r)
    \/ \E a \in Addresses : SweepRead(r, a)

-----------------------------------------------------------------------------
(* Validation, insertion, and the notification after the answer *)

\* 422: the name or the company is empty, the e-mail malformed, or a field too
\* long.  It has counted against the limit.
Refuse(r) ==
    /\ pc[r] = "store"
    /\ Goto(r, "over")
    /\ UNCHANGED <<clock, webhook, leads, told, checkVars, noticeVars>>

Stored(r) == [x \in DOMAIN leads \cup {r} |-> IF x = r THEN Unnotified ELSE leads[x]]

\* INSERT and COMMIT; then the answer, and the background task.
Store(r) ==
    /\ pc[r] = "store"
    /\ Cardinality(DOMAIN leads) < MaxLeads
    /\ leads' = Stored(r)
    /\ told' = told \cup {r}
    /\ Goto(r, "notify")
    /\ UNCHANGED <<clock, webhook, checkVars, noticeVars>>

\* The database fails; a COMMIT whose acknowledgement is lost has stored the lead.
StoreFails_Swallowed(r) ==
    /\ pc[r] = "store"
    /\ leads' \in {leads, Stored(r)}
    /\ told' = told \cup {r}
    /\ Goto(r, "notify")
    /\ UNCHANGED <<clock, webhook, checkVars, noticeVars>>
StoreFails(r) ==
    /\ pc[r] = "store"
    /\ \/ UNCHANGED leads
       \/ Cardinality(DOMAIN leads) < MaxLeads /\ leads' = Stored(r)
    /\ Goto(r, "over")
    /\ UNCHANGED <<clock, webhook, told, checkVars, noticeVars>>

\* notify_lead without a webhook: nothing sent, no attempt, no error.
SkipSlack(r) ==
    /\ pc[r] = "notify" /\ tries[r] = 0
    /\ ~webhook
    /\ Goto(r, "record")
    /\ UNCHANGED <<clock, webhook, leads, told, checkVars, noticeVars>>

\* An exception outside the posts, such as one while the message is built.
NoticeBreaks(r) ==
    /\ pc[r] = "notify" /\ tries[r] = 0
    /\ webhook
    /\ outcome' = [outcome EXCEPT ![r] = "error"]
    /\ Goto(r, "record")
    /\ UNCHANGED <<clock, webhook, leads, told, checkVars, delivered, tries>>

LastTry_OneMore(n) == n > MaxAttempts
LastTry(n) == n = MaxAttempts

\* One attempt.  Slack accepts it, answers with an error, or the time is up or
\* the connection fails, and then it may have received the lead all the same.
Post_TimeoutsUncounted(r) ==
    /\ pc[r] = "notify"
    /\ webhook
    /\ \E result \in {"ok", "timeout", "http", "error"} :
        /\ outcome' = [outcome EXCEPT ![r] = result]
        /\ tries' = IF result = "timeout" THEN tries ELSE [tries EXCEPT ![r] = @ + 1]
        /\ Goto(r, IF result = "ok" \/ LastTry(tries'[r]) THEN "record" ELSE "notify")
    /\ UNCHANGED <<clock, webhook, leads, told, checkVars, delivered>>
Post(r) ==
    /\ pc[r] = "notify"
    /\ webhook
    /\ tries' = [tries EXCEPT ![r] = @ + 1]
    /\ \E result \in {"ok", "timeout", "http", "error"} :
        /\ outcome' = [outcome EXCEPT ![r] = result]
        /\ Goto(r, IF result = "ok" \/ LastTry(tries'[r]) THEN "record" ELSE "notify")
        /\ \/ result # "http" /\ delivered' = [delivered EXCEPT ![r] = @ + 1]
           \/ result # "ok" /\ UNCHANGED delivered
    /\ UNCHANGED <<clock, webhook, leads, told, checkVars>>

Sent_AnyOutcome(r) == tries[r] > 0
Sent(r) == outcome[r] = "ok"

\* UPDATE leads, in a transaction of its own.
Record(r) ==
    /\ pc[r] = "record"
    /\ leads' = [leads EXCEPT ![r] =
                    [notified |-> @.notified \/ Sent(r),
                     attempts |-> tries[r],
                     error |-> IF Sent(r) THEN "none" ELSE outcome[r]]]
    /\ Goto(r, "done")
    /\ UNCHANGED <<clock, webhook, told, checkVars, noticeVars>>

\* Only logged.
RecordFails(r) ==
    /\ pc[r] = "record"
    /\ Goto(r, "done")
    /\ UNCHANGED <<clock, webhook, leads, told, checkVars, noticeVars>>

Notify(r) == SkipSlack(r) \/ NoticeBreaks(r) \/ Post(r) \/ Record(r) \/ RecordFails(r)

-----------------------------------------------------------------------------
(* The server *)

\* The process ends and starts again: the dictionary is empty, and neither a
\* request nor a background task is taken up again.
Crash ==
    /\ Live # {}
    /\ pc' = [r \in Requests |-> IF r \in Live THEN "over" ELSE pc[r]]
    /\ recent' = [a \in Addresses |-> {}]
    /\ admitted' = {}
    /\ UNCHANGED <<clock, webhook, leads, told, from, at, seen, todo, visit, alone, noticeVars>>

Tick ==
    /\ clock < MaxClock
    /\ clock' = clock + 1
    /\ UNCHANGED <<webhook, leads, pc, told, checkVars, noticeVars>>

Handle(r) == Check(r) \/ Refuse(r) \/ Store(r) \/ StoreFails(r) \/ Notify(r)

Next ==
    \/ \E r \in Requests : Arrive(r) \/ Handle(r)
    \/ Crash
    \/ Tick

Spec == Init /\ [][Next]_vars

-----------------------------------------------------------------------------
(* Properties *)

\* Every variable has its type (one per module, for the proofs and as a sanity check).
TypeOK ==
    /\ clock \in 0..MaxClock /\ webhook \in BOOLEAN
    /\ recent \in [Addresses -> SUBSET Requests]
    /\ DOMAIN leads \subseteq Requests
    /\ \A r \in DOMAIN leads : leads[r] \in
        [notified : BOOLEAN, attempts : 0..MaxAttempts, error : {"none", "timeout", "http", "error"}]
    /\ pc \in [Requests -> {"new", "read", "pop", "count", "size", "sweep", "write", "store",
                            "notify", "record"} \cup Ended]
    /\ from \in [Requests -> Addresses] /\ visit \in [Requests -> Addresses]
    /\ at \in [Requests -> 0..MaxClock]
    /\ seen \in [Requests -> SUBSET Requests] /\ todo \in [Requests -> SUBSET Addresses]
    /\ alone \in [Requests -> BOOLEAN]
    /\ admitted \subseteq Requests /\ told \subseteq Requests
    /\ tries \in [Requests -> 0..MaxAttempts] /\ delivered \in [Requests -> 0..MaxAttempts]
    /\ outcome \in [Requests -> {"none", "ok", "timeout", "http", "error"}]

Admitted(a) == {r \in admitted : from[r] = a /\ alone[r]}

\* _check_rate_limit: of the requests of one address whose checks overlapped
\* with no other, at most MaxRequests pass in any window, however expiry,
\* sweeps and the unlocked writes of overlapping checks interleave.  (Those
\* that overlap may exceed it: each writes back the list it read.)
LimitHolds ==
    \A a \in Addresses : \A first \in Admitted(a) :
        Cardinality({r \in Admitted(a) : at[r] \in at[first]..(at[first] + Window - 1)})
            <= MaxRequests

\* The dictionary's ceiling: a check that overlapped with no other leaves
\* it within the ceiling, or with addresses seen inside the window only.
SweptWhenAlone ==
    [][\A r \in Requests :
        pc[r] \in {"size", "write"} /\ pc'[r] = "store" /\ alone[r]
            => \/ Cardinality(Tracked') <= MaxTracked
               \/ \A a \in Tracked' : \E x \in recent'[a] : at[r] - at[x] < Window]_vars

\* The sweep takes for granted that the addresses it listed are still there:
\* only an overlap with another check can make it fail.
OnlyRacesFail ==
    \A r \in Requests : pc[r] = "broken" => ~alone[r]

\* "Postgres is the source of truth": whoever was told "received" without
\* having filled in the honeypot field, and every lead Slack has heard of, is in
\* the table, whatever failed or crashed since; and who filled it in is told so
\* too, but leaves neither a lead nor an announcement nor a count of the limit.
StoredBeforeTold ==
    /\ \A r \in told : r \in DOMAIN leads <=> pc[r] # "ignored"
    /\ \A r \in Requests :
        /\ delivered[r] > 0 => r \in told /\ r \in DOMAIN leads
        /\ pc[r] = "ignored" => r \in told /\ r \notin admitted

\* What a lead's row says of its notification: marked as notified only if
\* Slack has it; never announced more often than it was tried; and a row that
\* has attempts but no mark carries the error, so a lead that needs a resend
\* by hand can be told from the table alone, after any crash.
RowTellsTheTruth ==
    \A r \in DOMAIN leads :
        /\ leads[r].notified => delivered[r] > 0 /\ leads[r].error = "none"
        /\ leads[r].attempts > 0 => leads[r].attempts = tries[r]
        /\ leads[r].attempts > 0 /\ ~leads[r].notified
            => leads[r].attempts = MaxAttempts /\ leads[r].error # "none"
        /\ delivered[r] <= tries[r]

\* How far a request still has to go.
Rank(r) ==
    CASE pc[r] \in {"new"} \cup Ended -> 0
      [] pc[r] = "record" -> 1
      [] pc[r] = "notify" -> 2 + MaxAttempts - tries[r]
      [] pc[r] = "store"  -> 3 + MaxAttempts
      [] pc[r] = "sweep"  -> 3 + MaxAttempts + 2 * Cardinality(todo[r])
      [] pc[r] = "write"  -> 4 + MaxAttempts + 2 * Cardinality(todo[r])
      [] pc[r] = "size"   -> 5 + MaxAttempts + 2 * Cardinality(Addresses)
      [] pc[r] = "count"  -> 6 + MaxAttempts + 2 * Cardinality(Addresses)
      [] pc[r] = "pop"    -> 7 + MaxAttempts + 2 * Cardinality(Addresses)
      [] pc[r] = "read"   -> 8 + MaxAttempts + 2 * Cardinality(Addresses)

Progress(r) == <<pc[r], tries[r], outcome[r], delivered[r]>>

\* Neither the sweep of a dictionary that others change nor the retries go on
\* for ever: every step of a request brings its end nearer.
EveryStepAdvances ==
    [][\A r \in Live : Progress(r)' # Progress(r) => Rank(r)' < Rank(r)]_vars
=============================================================================
