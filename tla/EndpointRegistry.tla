-------------------------- MODULE EndpointRegistry --------------------------
(***************************************************************************)
(* The endpoints an admin registers, one by one or in bulk, their removal, *)
(* and the discovery of the hosts behind them, together with the accounts  *)
(* that guard these routes.                                                *)
(*                                                                         *)
(* One step is one transaction or one remote scan.  An INSERT that waits   *)
(* for another transaction on the same key has the effect it has after     *)
(* that one ended, so INSERT and COMMIT of a row are one step; a deletion  *)
(* waits for a discovery that inserts, so its rows come in one step too.   *)
(***************************************************************************)
EXTENDS AdminAccounts, Sequences, FiniteSets

CONSTANTS
    Addresses,  \* addresses and ranges, as typed
    NoAddress,  \* what does not parse as one
    Hosts,      \* what discovery may find
    MaxBulk,    \* MAX_BULK_ENDPOINTS
    Lists,      \* lists of addresses a bulk request may bring
    MaxId,      \* bounds of the checked runs, not of the code: of the ids drawn
    MaxScans    \* and of the remote scans

ASSUME RegistryAssumption ==
    /\ NoAddress \notin Addresses /\ Lists \subseteq Seq(Addresses \cup {NoAddress})
    /\ MaxBulk \in Nat /\ MaxId \in Nat /\ MaxScans \in Nat

VARIABLES
    endpoints,  \* the table: [id, address]; writer is history: who registered it
    lastId,     \* the SERIAL of endpoints
    found,      \* discovery_results: [id, host, at]
    scans,      \* the time of a scan: how many have been made
    results,    \* of the bulk request a handler serves: the id of each row so far, or 0
    scan,       \* the answer of its remote scan: [hosts, at]
    removed,    \* history: ids that were deleted
    known       \* history: every discovery result ever committed

account == <<admins, cookies, pc, ask, before>>
tables == <<endpoints, lastId, found>>
vars == <<account, tables, scans, results, scan, removed, known>>

Ids == {e.id : e \in endpoints}
NoScan == [hosts |-> {}, at |-> 0]

Requests ==
    Credentials \cup Logouts
        \cup [kind : {"create"}, by : People, address : Addresses \cup {NoAddress}]
        \cup [kind : {"bulk"}, by : People, rows : Lists]
        \cup [kind : {"delete", "discover"}, by : People, id : 1..MaxId]

Init ==
    /\ admins = [u \in UserNames |-> Nobody]
    /\ cookies = {}
    /\ pc = [h \in Handlers |-> "idle"]
    /\ ask = [h \in Handlers |-> NoRequest]
    /\ before = [h \in Handlers |-> FALSE]
    /\ endpoints = {} /\ lastId = 0 /\ found = {}
    /\ scans = 0
    /\ results = [h \in Handlers |-> <<>>]
    /\ scan = [h \in Handlers |-> NoScan]
    /\ removed = {}
    /\ known = {}

Open == {"setup", "login", "logout"}

\* Routes of the registry depend on require_admin_session.
Guarded(q) == q.kind \notin Open

\* A request is taken up; without a session the guarded ones end in a 401.
Arrive(h, q) ==
    /\ pc[h] \in {"idle", "answered"}
    /\ Guarded(q) => HasSession(q.by)
    /\ ask' = [ask EXCEPT ![h] = q]
    /\ before' = [before EXCEPT ![h] = Accounts # {}]
    /\ results' = [results EXCEPT ![h] = <<>>]
    /\ Goto(h, q.kind)
    /\ UNCHANGED <<admins, cookies, tables, scans, scan, removed, known>>

-----------------------------------------------------------------------------
(* Registration *)

Registered(a) == \E e \in endpoints : e.address = a
Draw == lastId < MaxId /\ lastId' = lastId + 1
Insert(h, a) ==
    /\ a # NoAddress /\ ~Registered(a)
    /\ Draw
    /\ endpoints' = endpoints \cup {[id |-> lastId', address |-> a, writer |-> By(h)]}

\* No row: an address that does not parse, or one that is registered, which
\* draws an id before the UNIQUE constraint refuses it.
NoInsert(a) ==
    /\ \/ a = NoAddress /\ UNCHANGED lastId
       \/ Registered(a) /\ Draw
    /\ UNCHANGED endpoints

Register(h) == UNCHANGED <<admins, cookies, before, found, scans, scan, removed, known>>

\* create_endpoint: stored, or 422, or a UniqueViolation that nobody catches.
Create(h) ==
    /\ pc[h] = "create"
    /\ Insert(h, ask[h].address) \/ NoInsert(ask[h].address)
    /\ Leave(h)
    /\ Register(h) /\ UNCHANGED results

InBulk_NoLimit(h) == pc[h] = "bulk" /\ Len(results[h]) < Len(ask[h].rows)
InBulk(h) == pc[h] = "bulk" /\ Len(ask[h].rows) <= MaxBulk /\ Len(results[h]) < Len(ask[h].rows)
Row(h) == ask[h].rows[Len(results[h]) + 1]
Report(h, id) == results' = [results EXCEPT ![h] = Append(@, id)]

\* The row is stored and committed, and its id reported.
BulkCreated(h) ==
    /\ InBulk(h)
    /\ Insert(h, Row(h))
    /\ Report(h, lastId')
    /\ Register(h) /\ UNCHANGED <<pc, ask>>

\* An INSERT that is undone may have drawn an id.
MayDraw(a) == UNCHANGED lastId \/ (a # NoAddress /\ Draw)

RollBack_WholeList(h) == endpoints' = {e \in endpoints : \A i \in DOMAIN results[h] : results[h][i] # e.id}
RollBack(h) == UNCHANGED endpoints

\* Invalid, registered already, or an unexpected error: this row alone is
\* rolled back, and reported without an id.
BulkRejected(h) ==
    /\ InBulk(h)
    /\ RollBack(h)
    /\ MayDraw(Row(h))
    /\ Report(h, 0)
    /\ Register(h) /\ UNCHANGED <<pc, ask>>

\* The connection is lost: the rollback raises too and there is no answer.  If
\* it was lost in the COMMIT, the row may be stored.
BulkBreaks(h) ==
    /\ InBulk(h)
    /\ Insert(h, Row(h)) \/ (UNCHANGED endpoints /\ MayDraw(Row(h)))
    /\ Leave(h)
    /\ results' = [results EXCEPT ![h] = <<>>]
    /\ Register(h)

\* The answer: the results of all rows, or a 422 for a list that is too long.
BulkAnswers(h) ==
    /\ pc[h] = "bulk" /\ ~InBulk(h)
    /\ Goto(h, "answered")
    /\ Register(h) /\ UNCHANGED <<ask, results, endpoints, lastId>>

\* delete_endpoint: 404, or gone with its discovery results.
Delete(h) ==
    /\ pc[h] = "delete"
    /\ endpoints' = {e \in endpoints : e.id # ask[h].id}
    /\ found' = {f \in found : f.id # ask[h].id}
    /\ removed' = IF ask[h].id \in Ids THEN removed \cup {ask[h].id} ELSE removed
    /\ Leave(h)
    /\ UNCHANGED <<admins, cookies, before, lastId, scans, results, scan, known>>

-----------------------------------------------------------------------------
(* Discovery *)

\* select_endpoint_by_id, then the remote scan: 404, 502, or its answer.
Scan(h) ==
    /\ pc[h] = "discover"
    /\ \/ Leave(h) /\ UNCHANGED <<scans, scan>>
       \/ /\ ask[h].id \in Ids
          /\ scans < MaxScans
          /\ scans' = scans + 1
          /\ \E hosts \in SUBSET Hosts : scan' = [scan EXCEPT ![h] = [hosts |-> hosts, at |-> scans']]
          /\ Goto(h, "insertResults") /\ UNCHANGED ask
    /\ UNCHANGED <<admins, cookies, before, tables, results, removed, known>>

Results(h) == {[id |-> ask[h].id, host |-> x, at |-> scan[h].at] : x \in scan[h].hosts}

EndpointStillThere_NoForeignKey(h) == TRUE

\* The foreign key of discovery_results.
EndpointStillThere(h) == ask[h].id \in Ids \/ scan[h].hosts = {}

\* All results of the round are committed, or none: the endpoint is gone.
InsertResults(h) ==
    /\ pc[h] = "insertResults"
    /\ LET rows == IF EndpointStillThere(h) THEN Results(h) ELSE {}
       IN  found' = found \cup rows /\ known' = known \cup rows
    /\ scan' = [scan EXCEPT ![h] = NoScan]
    /\ Leave(h)
    /\ UNCHANGED <<admins, cookies, before, endpoints, lastId, scans, results, removed>>

Shown_AnyRound(id, x) == CHOOSE f \in found : f.id = id /\ f.host = x

\* endpoint_results: DISTINCT ON (ip), the newest scan first.
Shown(id, x) ==
    CHOOSE f \in found : /\ f.id = id /\ f.host = x
                         /\ \A g \in found : g.id = id /\ g.host = x => g.at <= f.at

-----------------------------------------------------------------------------
(* The server *)

\* The process ends and starts again; tables and browsers keep what they have.
Crash ==
    /\ \E h \in Handlers : pc[h] # "idle"
    /\ pc' = [h \in Handlers |-> "idle"]
    /\ ask' = [h \in Handlers |-> NoRequest]
    /\ results' = [h \in Handlers |-> <<>>]
    /\ scan' = [h \in Handlers |-> NoScan]
    /\ UNCHANGED <<admins, cookies, before, tables, scans, removed, known>>

AccountStep(h) == Account(h) /\ UNCHANGED <<tables, scans, results, scan, removed, known>>
Handle(h) ==
    \/ AccountStep(h)
    \/ Create(h)
    \/ BulkCreated(h) \/ BulkRejected(h) \/ BulkBreaks(h) \/ BulkAnswers(h)
    \/ Delete(h) \/ Scan(h) \/ InsertResults(h)

Next ==
    \/ \E h \in Handlers : Handle(h) \/ \E q \in Requests : Arrive(h, q)
    \/ Crash

Spec == Init /\ [][Next]_vars

-----------------------------------------------------------------------------
(* Properties *)

\* Every variable has its type.
TypeOK ==
    /\ admins \in [UserNames -> People \cup {Nobody}]
    /\ cookies \subseteq [user : UserNames, holder : People]
    /\ ask \in [Handlers -> Requests \cup {NoRequest}]
    /\ endpoints \subseteq [id : 1..MaxId, address : Addresses, writer : People]
    /\ found \subseteq [id : 1..MaxId, host : Hosts, at : 1..MaxScans]
    /\ lastId \in 0..MaxId /\ scans \in 0..MaxScans
    /\ \A h \in Handlers : results[h] \in Seq(0..MaxId) /\ Len(results[h]) <= MaxBulk
    /\ \A h \in Handlers : pc[h] \notin {"idle", "insert", "cookie", "insertResults", "answered"}
            => pc[h] = ask[h].kind

\* require_admin_session with setup, login and the UNIQUE name: what is in the
\* registry was registered by people who hold an account, and a session says
\* the name of its holder's own account, also when two people set up the same
\* name at the same time.
OnlyAdminsWrite ==
    /\ \A k \in cookies : admins[k.user] = k.holder
    /\ \A e \in endpoints : \E u \in UserNames : admins[u] = e.writer

\* "POST /auth/setup works only once": a set-up that comes in when there is an
\* admin creates none.  (Two that overlap may both create one.)
SetupClosesForGood ==
    [][\A h \in Handlers : pc[h] = "insert" /\ pc'[h] = "cookie" => ~before[h]]_vars

\* create_endpoints_bulk: every id reported so far is that of the row, stored,
\* until somebody deletes it, whatever the rows after it, other requests,
\* failures and crashes do.
BulkAnswersTrue ==
    \A h \in Handlers : \A i \in DOMAIN results[h] :
        results[h][i] \in {0} \cup removed
            \/ [id |-> results[h][i], address |-> ask[h].rows[i], writer |-> By(h)] \in endpoints

\* No newer scan of an endpoint that exists is hidden by an older one, in
\* whatever order the rounds were committed.
NewestScanShown ==
    \A f \in known : f.id \in Ids => Shown(f.id, f.host).at >= f.at

Promise == INSTANCE Inventory
    WITH targets <- Ids, discovered <- {<<f.id, f.host>> : f \in found}, last <- lastId

\* What the rest of the system may take for granted of ids and of discovered hosts.
ImplementsInventory == Promise!Spec
=============================================================================
