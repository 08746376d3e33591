--------------------------- MODULE RegistryProofs ---------------------------
(***************************************************************************)
(* What EndpointRegistry promises of accounts, endpoints and scans, for    *)
(* any handlers, people, names, addresses, hosts and lists.                *)
(***************************************************************************)
EXTENDS EndpointRegistry, Counting, TLAPS

Creations == [kind : {"create"}, by : People, address : Addresses \cup {NoAddress}]
Bulks == [kind : {"bulk"}, by : People, rows : Lists]
ById == [kind : {"delete", "discover"}, by : People, id : 1..MaxId]

Labels == {"idle", "setup", "insert", "cookie", "login", "logout", "create", "bulk",
           "answered", "delete", "discover", "insertResults"}
Finding == [id : 1..MaxId, host : Hosts, at : 1..MaxScans]

\* Behind require_admin_session.
Inside == {"create", "bulk", "answered", "delete", "discover", "insertResults"}
HoldsAccount(p) == \E u \in UserNames : admins[u] = p

\* What a handler serves where its label is not the kind of its request.
Serving(h) ==
    /\ pc[h] \in {"insert", "cookie"} => ask[h] \in Credentials
    /\ pc[h] = "answered" => ask[h] \in Bulks
    /\ pc[h] = "insertResults" => ask[h] \in ById /\ scan[h].at \in 1..MaxScans

Types ==
    /\ TypeOK
    /\ pc \in [Handlers -> Labels]
    /\ before \in [Handlers -> BOOLEAN]
    /\ results \in [Handlers -> Seq(0..MaxId)]
    /\ scan \in [Handlers -> [hosts : SUBSET Hosts, at : 0..MaxScans]]
    /\ known \subseteq Finding
    /\ \A h \in Handlers : Serving(h)

\* A session, and a request that one let in, belong to an account; the way
\* from the count of accounts to the insertion is closed to late set-ups.
Sessions ==
    /\ OnlyAdminsWrite
    /\ \A h \in Handlers :
        /\ pc[h] = "cookie" => admins[User(h)] = By(h)
        /\ pc[h] \in Inside => HoldsAccount(By(h))
        /\ before[h] => Accounts # {}
        /\ pc[h] = "insert" => ~before[h]

\* Results are those of the bulk request that is served or was answered.
Reports ==
    /\ BulkAnswersTrue
    /\ \A h \in Handlers : pc[h] \notin {"bulk", "answered"} => results[h] = <<>>

\* Ids in use were drawn; the findings of an endpoint that exists are all
\* there, and no others.
Rounds ==
    /\ \A id \in Ids : id <= lastId
    /\ \A f \in known : f.id <= lastId /\ (f.id \in Ids => f \in found)
    /\ \A f \in found : f.id \in Ids

Inv == Types /\ Sessions /\ Reports /\ Rounds

-----------------------------------------------------------------------------

\* The label of a handler tells what it serves.
LEMMA Serves ==
  ASSUME Types, NEW h \in Handlers
  PROVE  /\ pc[h] \in {"setup", "login", "insert", "cookie"} => ask[h] \in Credentials
         /\ pc[h] = "create" => ask[h] \in Creations
         /\ pc[h] \in {"bulk", "answered"} => ask[h] \in Bulks
         /\ pc[h] \in {"delete", "discover", "insertResults"} => ask[h] \in ById
  <1>1. pc[h] \notin {"idle", "insert", "cookie", "insertResults", "answered"}
            => ask[h] \in Requests \cup {NoRequest} /\ ask[h].kind = pc[h]
    BY DEF Types, TypeOK
  <1>2. pc[h] \in {"setup", "login", "create", "bulk", "delete", "discover"}
            => ask[h] \in Requests /\ ask[h].kind = pc[h]
    <2>1. NoRequest.kind = "none"
      BY DEF NoRequest
    <2>2. QED
      BY <1>1, <2>1
  <1>3. Serving(h)
    BY DEF Types
  <1>4. QED
    BY <1>2, <1>3 DEF Serving, Requests, Credentials, Logouts, Creations, Bulks, ById

LEMMA InitInv == Init => Inv
  <1> SUFFICES ASSUME Init PROVE Inv
    OBVIOUS
  <1> USE NobodyAssumption, RegistryAssumption DEF Init
  <1>1. Types
    BY DEF Types, TypeOK, Serving, Labels, NoScan, NoRequest
  <1>2. Sessions
    BY DEF Sessions, OnlyAdminsWrite, Inside
  <1>3. Reports /\ Rounds
    BY DEF Reports, BulkAnswersTrue, Rounds, Ids
  <1>4. QED
    BY <1>1, <1>2, <1>3 DEF Inv

\* A handler that leaves, or goes to where it still serves the same request,
\* keeps types, given those of what else the step changes.
LEMMA MoveTypes ==
  ASSUME Types, NEW h \in Handlers,
         NEW l \in Labels, pc' = [pc EXCEPT ![h] = l],
         \/ l = "idle" /\ ask' = [ask EXCEPT ![h] = NoRequest]
         \/ ask' = ask /\ \/ l \in {"insert", "cookie"} /\ ask[h] \in Credentials
                          \/ l \in {"bulk", "answered"} /\ pc[h] = "bulk"
                          \/ l = "insertResults" /\ ask[h] \in ById /\ scan'[h].at \in 1..MaxScans,
         before' = before,
         scan' \in [Handlers -> [hosts : SUBSET Hosts, at : 0..MaxScans]],
         \A g \in Handlers \ {h} : scan'[g] = scan[g]
  PROVE  /\ pc' \in [Handlers -> Labels] /\ before' \in [Handlers -> BOOLEAN]
         /\ ask' \in [Handlers -> Requests \cup {NoRequest}]
         /\ \A g \in Handlers : pc'[g] \notin {"idle", "insert", "cookie", "insertResults", "answered"}
                => pc'[g] = ask'[g].kind
         /\ \A g \in Handlers : Serving(g)'
  <1>1. pc' \in [Handlers -> Labels] /\ before' \in [Handlers -> BOOLEAN]
    BY DEF Types
  <1>2. ask \in [Handlers -> Requests \cup {NoRequest}]
    BY DEF Types, TypeOK
  <1>3. ask' \in [Handlers -> Requests \cup {NoRequest}]
    BY <1>2
  <1>4. \A g \in Handlers : pc[g] \notin {"idle", "insert", "cookie", "insertResults", "answered"}
            => pc[g] = ask[g].kind
    BY DEF Types, TypeOK
  <1>5. \A g \in Handlers : Serving(g)
    BY DEF Types
  <1>6. pc[h] = "bulk" => ask[h] \in Bulks
    BY Serves
  <1>7. pc \in [Handlers -> Labels]
    BY DEF Types
  <1>8. ASSUME NEW g \in Handlers
        PROVE  /\ pc'[g] \notin {"idle", "insert", "cookie", "insertResults", "answered"}
                    => pc'[g] = ask'[g].kind
               /\ Serving(g)'
    <2>1. CASE g = h
      BY <2>1, <1>2, <1>4, <1>6, <1>7 DEF Serving
    <2>2. CASE g # h
      BY <2>2, <1>2, <1>4, <1>5, <1>7 DEF Serving
    <2>3. QED
      BY <2>1, <2>2
  <1>9. QED
    BY <1>1, <1>3, <1>8

\* A step of the accounts leaves accounts that exist as they are.
LEMMA AccountsStay ==
  ASSUME Types, NEW h \in Handlers, Account(h)
  PROVE  /\ admins' \in [UserNames -> People \cup {Nobody}]
         /\ \A u \in UserNames : admins[u] # Nobody => admins'[u] = admins[u]
  <1>1. admins \in [UserNames -> People \cup {Nobody}]
    BY DEF Types, TypeOK
  <1>2. CASE InsertAdmin(h)
    <2>1. User(h) \in UserNames /\ By(h) \in People
      BY <1>2, Serves DEF InsertAdmin, Credentials, User, By
    <2>2. QED
      BY <1>1, <1>2, <2>1 DEF InsertAdmin, Accounts
  <1>3. CASE ~InsertAdmin(h)
    BY <1>1, <1>3 DEF Account, CountAdmins, NameTaken, GiveCookie, Login, Logout
  <1>4. QED
    BY <1>2, <1>3

\* Set-up, login and logout.
LEMMA AccountInv ==
  ASSUME Inv, NEW h \in Handlers, AccountStep(h)
  PROVE  Inv'
  <1>1. /\ Types /\ Account(h)
        /\ UNCHANGED <<tables, scans, results, scan, removed, known, before>>
    BY DEF Inv, AccountStep, Account, CountAdmins, InsertAdmin, NameTaken, GiveCookie, Login, Logout
  <1>2. PICK l \in {"insert", "cookie", "idle"} :
            /\ pc' = [pc EXCEPT ![h] = l]
            /\ pc[h] \in {"setup", "insert", "cookie", "login", "logout"}
            /\ \/ l = "idle" /\ ask' = [ask EXCEPT ![h] = NoRequest]
               \/ ask' = ask /\ l \in {"insert", "cookie"} /\ pc[h] \in {"setup", "insert", "login"}
    BY <1>1 DEF Account, CountAdmins, InsertAdmin, NameTaken, GiveCookie, Login, Logout, Goto, Leave
  <1>3. \A g \in Handlers : g # h => pc'[g] = pc[g] /\ ask'[g] = ask[g]
    BY <1>1, <1>2 DEF Types, TypeOK
  <1>4. l \in {"insert", "cookie"} => ask[h] \in Credentials
    BY <1>1, <1>2, Serves DEF NoRequest, Types, TypeOK
  <1>5. /\ admins' \in [UserNames -> People \cup {Nobody}]
        /\ \A u \in UserNames : admins[u] # Nobody => admins'[u] = admins[u]
    BY <1>1, AccountsStay
  <1>6. /\ cookies' \subseteq [user : UserNames, holder : People]
        /\ \A k \in cookies' : admins'[k.user] = k.holder
    <2>1. cookies \subseteq [user : UserNames, holder : People] /\ \A k \in cookies : admins[k.user] = k.holder
      BY DEF Inv, Types, TypeOK, Sessions, OnlyAdminsWrite
    <2>2. \A k \in cookies : admins'[k.user] = k.holder
      BY <2>1, <1>5, NobodyAssumption
    <2>3. CASE GiveCookie(h)
      <3> DEFINE k == [user |-> User(h), holder |-> By(h)]
      <3>1. User(h) \in UserNames /\ By(h) \in People /\ admins[User(h)] = By(h)
        BY <1>1, <2>3, Serves DEF GiveCookie, Credentials, User, By, Inv, Sessions
      <3>2. k \in [user : UserNames, holder : People] /\ admins'[k.user] = k.holder
        BY <3>1, <2>3 DEF GiveCookie
      <3>3. cookies' = cookies \cup {k}
        BY <2>3 DEF GiveCookie
      <3> HIDE DEF k
      <3>4. QED
        BY <3>2, <3>3, <2>1, <2>2
    <2>4. CASE ~GiveCookie(h)
      BY <1>1, <2>1, <2>2, <2>4 DEF Account, CountAdmins, InsertAdmin, NameTaken, Login, Logout
    <2>5. QED
      BY <2>3, <2>4
  <1>7. Types'
    <2>1. scan' \in [Handlers -> [hosts : SUBSET Hosts, at : 0..MaxScans]]
      BY <1>1 DEF Types
    <2>2. /\ pc' \in [Handlers -> Labels] /\ before' \in [Handlers -> BOOLEAN]
          /\ ask' \in [Handlers -> Requests \cup {NoRequest}]
          /\ \A g \in Handlers : pc'[g] \notin {"idle", "insert", "cookie", "insertResults", "answered"}
                => pc'[g] = ask'[g].kind
          /\ \A g \in Handlers : Serving(g)'
      <3>1. l \in Labels
        BY DEF Labels
      <3>2. QED
        BY <1>1, <1>2, <1>4, <2>1, <3>1, MoveTypes
    <2>3. QED
      BY <1>1, <1>5, <1>6, <2>2 DEF Types, TypeOK, tables
  <1>8. Sessions'
    <2>1. OnlyAdminsWrite'
      BY <1>1, <1>5, <1>6, NobodyAssumption DEF Inv, Sessions, OnlyAdminsWrite, Types, TypeOK, tables
    <2>2. ASSUME NEW g \in Handlers, pc'[g] = "cookie" PROVE admins'[User(g)'] = By(g)'
      <3>1. CASE g # h
        <4>1. pc[g] = "cookie" /\ ask'[g] = ask[g]
          BY <1>3, <2>2, <3>1
        <4>2. admins[User(g)] = By(g) /\ User(g) \in UserNames /\ By(g) \in People
          BY <1>1, <4>1, Serves DEF Inv, Sessions, User, By, Credentials
        <4>3. QED
          BY <4>1, <4>2, <1>5, NobodyAssumption DEF User, By
      <3>2. CASE g = h
        <4>1. (InsertAdmin(h) \/ Login(h)) /\ ask' = ask
          BY <1>1, <1>2, <2>2, <3>2
          DEF Account, CountAdmins, InsertAdmin, NameTaken, GiveCookie, Login, Logout, Goto, Leave, Types
        <4>2. User(h) \in UserNames
          BY <1>1, <4>1, Serves DEF InsertAdmin, Login, Credentials, User
        <4>3. QED
          BY <1>1, <1>2, <2>2, <3>2, <4>1, <4>2
          DEF InsertAdmin, Login, PasswordIsRight, Goto, Leave, User, By, Types, TypeOK
      <3>3. QED
        BY <3>1, <3>2
    <2>3. ASSUME NEW g \in Handlers, pc'[g] \in Inside PROVE HoldsAccount(By(g))'
      <3>1. g # h /\ pc[g] \in Inside /\ ask'[g] = ask[g]
        BY <1>1, <1>2, <1>3, <2>3 DEF Inside, Types
      <3>2. By(g) \in People /\ HoldsAccount(By(g))
        BY <1>1, <3>1, Serves DEF Inv, Sessions, Inside, By, Creations, Bulks, ById
      <3>3. QED
        BY <3>1, <3>2, <1>5, NobodyAssumption DEF HoldsAccount, By
    <2>4. \A g \in Handlers : before'[g] => Accounts' # {}
      BY <1>1, <1>5 DEF Inv, Sessions, Accounts
    <2>5. ASSUME NEW g \in Handlers, pc'[g] = "insert" PROVE ~before'[g]
      <3>1. CASE g # h
        BY <1>1, <1>2, <2>5, <3>1 DEF Inv, Sessions, Types
      <3>2. CASE g = h
        <4>1. CountAdmins(h) /\ Accounts = {}
          BY <1>1, <1>2, <2>5, <3>2
          DEF Account, CountAdmins, InsertAdmin, NameTaken, GiveCookie, Login, Logout, Goto, Leave, Types, AlreadySetUp
        <4>2. QED
          BY <1>1, <4>1, <3>2 DEF Inv, Sessions
      <3>3. QED
        BY <3>1, <3>2
    <2>6. QED
      BY <2>1, <2>2, <2>3, <2>4, <2>5 DEF Sessions
  <1>9. Reports'
    <2>1. ASSUME NEW g \in Handlers
          PROVE  /\ pc'[g] \notin {"bulk", "answered"} => results[g] = <<>>
                 /\ results[g] # <<>> => ask'[g] = ask[g]
      BY <1>1, <1>2, <1>3 DEF Inv, Types, Reports
    <2>2. QED
      BY <1>1, <2>1 DEF Inv, Reports, BulkAnswersTrue, By, tables
  <1>10. Rounds'
    BY <1>1 DEF Inv, Rounds, Ids, tables
  <1>11. QED
    BY <1>7, <1>8, <1>9, <1>10 DEF Inv

-----------------------------------------------------------------------------

\* A step of a request behind the session check that leaves the accounts alone.
LEMMA InsideStep ==
  ASSUME Inv, NEW h \in Handlers, pc[h] \in Inside,
         NEW l \in {"idle", "bulk", "answered", "insertResults"}, pc' = [pc EXCEPT ![h] = l],
         \/ l = "idle" /\ ask' = [ask EXCEPT ![h] = NoRequest]
         \/ l # "idle" /\ ask' = ask,
         UNCHANGED <<admins, cookies, before>>,
         \A e \in endpoints' : e \in endpoints \/ e.writer = By(h)
  PROVE  /\ Sessions'
         /\ \A g \in Handlers : g # h => pc'[g] = pc[g] /\ ask'[g] = ask[g]
  <1>1. \A g \in Handlers : g # h => pc'[g] = pc[g] /\ ask'[g] = ask[g]
    BY DEF Inv, Types, TypeOK
  <1>2. pc'[h] = l /\ l \notin {"cookie", "insert"} /\ (l \in Inside => ask'[h] = ask[h])
    BY DEF Inv, Types, Inside
  <1>3. OnlyAdminsWrite'
    BY DEF Inv, Sessions, OnlyAdminsWrite, HoldsAccount
  <1>4. ASSUME NEW g \in Handlers
        PROVE  /\ pc'[g] = "cookie" => admins'[User(g)'] = By(g)'
               /\ pc'[g] \in Inside => HoldsAccount(By(g))'
               /\ before'[g] => Accounts' # {}
               /\ pc'[g] = "insert" => ~before'[g]
    <2>1. CASE g = h
      BY <1>2, <2>1 DEF Inv, Sessions, HoldsAccount, Accounts, User, By
    <2>2. CASE g # h
      BY <1>1, <2>2 DEF Inv, Sessions, HoldsAccount, Accounts, User, By
    <2>3. QED
      BY <2>1, <2>2
  <1>5. QED
    BY <1>1, <1>3, <1>4 DEF Sessions

\* Rows come with an id that no row and no finding ever had.
LEMMA FreshIds ==
  ASSUME Inv, UNCHANGED <<found, known>>, lastId' \in {lastId, lastId + 1},
         \/ endpoints' = endpoints
         \/ /\ lastId' = lastId + 1
            /\ \E e : endpoints' = endpoints \cup {e} /\ e.id = lastId'
  PROVE  Rounds'
  <1>1. lastId \in Nat /\ \A e \in endpoints : e.id \in Nat /\ e.id <= lastId
    <2>1. /\ endpoints \subseteq [id : 1..MaxId, address : Addresses, writer : People]
          /\ lastId \in 0..MaxId /\ MaxId \in Nat
      BY RegistryAssumption DEF Inv, Types, TypeOK
    <2>2. \A e \in endpoints : e.id <= lastId
      BY DEF Inv, Rounds, Ids
    <2>3. QED
      BY <2>1, <2>2
  <1>2. \A f \in known : f.id \in Nat /\ f.id <= lastId /\ (f.id \in Ids => f \in found)
    BY RegistryAssumption DEF Inv, Types, Rounds, Finding
  <1>3. \A e \in endpoints' : e \in endpoints \/ (e.id = lastId' /\ lastId' = lastId + 1)
    OBVIOUS
  <1>4. endpoints \subseteq endpoints' /\ \A f \in found : f.id \in Ids
    BY DEF Inv, Rounds
  <1>5. \A f \in found' : f.id \in Ids'
    BY <1>4 DEF Ids
  <1>6. QED
    BY <1>1, <1>2, <1>3, <1>5 DEF Rounds, Ids

\* One row: what Insert and NoInsert do to the table.
RowStep(h) ==
    /\ lastId' \in {lastId, lastId + 1} /\ lastId' \in 0..MaxId
    /\ \/ endpoints' = endpoints
       \/ /\ lastId' = lastId + 1
          /\ \E a \in Addresses :
                endpoints' = endpoints \cup {[id |-> lastId', address |-> a, writer |-> By(h)]}

LEMMA RowSteps ==
  ASSUME Inv, NEW h \in Handlers, NEW a \in Addresses \cup {NoAddress},
         Insert(h, a) \/ NoInsert(a) \/ (UNCHANGED endpoints /\ MayDraw(a))
  PROVE  RowStep(h)
  <1>1. lastId \in 0..MaxId /\ MaxId \in Nat
    BY RegistryAssumption DEF Inv, Types, TypeOK
  <1>2. QED
    BY <1>1 DEF Insert, NoInsert, MayDraw, Draw, RowStep

\* The types of the tables after such a step.
LEMMA RowTypes ==
  ASSUME Inv, NEW h \in Handlers, By(h) \in People, RowStep(h)
  PROVE  /\ endpoints' \subseteq [id : 1..MaxId, address : Addresses, writer : People]
         /\ lastId' \in 0..MaxId /\ endpoints \subseteq endpoints'
         /\ \A e \in endpoints' : e \in endpoints \/ e.writer = By(h)
  <1>1. lastId \in 0..MaxId /\ MaxId \in Nat
        /\ endpoints \subseteq [id : 1..MaxId, address : Addresses, writer : People]
    BY RegistryAssumption DEF Inv, Types, TypeOK
  <1>2. CASE endpoints' = endpoints
    BY <1>1, <1>2 DEF RowStep
  <1>3. ASSUME lastId' = lastId + 1, NEW a \in Addresses,
               endpoints' = endpoints \cup {[id |-> lastId', address |-> a, writer |-> By(h)]}
        PROVE  /\ endpoints' \subseteq [id : 1..MaxId, address : Addresses, writer : People]
               /\ endpoints \subseteq endpoints'
               /\ \A e \in endpoints' : e \in endpoints \/ e.writer = By(h)
    <2>1. lastId' \in 1..MaxId
      BY <1>1, <1>3 DEF RowStep
    <2>2. QED
      BY <1>1, <1>3, <2>1
  <1>4. QED
    BY <1>1, <1>2, <1>3 DEF RowStep

\* A row of a list is an address or what does not parse as one.
LEMMA RowOfList ==
  ASSUME Types, NEW h \in Handlers, InBulk(h)
  PROVE  /\ Row(h) \in Addresses \cup {NoAddress}
         /\ Len(results[h]) + 1 \in DOMAIN ask[h].rows /\ Len(results[h]) + 1 <= MaxBulk
  <1>1. ask[h].rows \in Lists
    BY Serves DEF InBulk, Bulks
  <1>2. ask[h].rows \in Seq(Addresses \cup {NoAddress})
    BY <1>1, RegistryAssumption
  <1>3. results[h] \in Seq(0..MaxId) /\ Len(results[h]) \in Nat /\ Len(ask[h].rows) \in Nat
    BY <1>2 DEF Types
  <1>4. Len(results[h]) + 1 \in 1..Len(ask[h].rows)
    BY <1>3 DEF InBulk
  <1>5. Len(results[h]) + 1 <= MaxBulk
    BY <1>3, RegistryAssumption DEF InBulk
  <1>6. QED
    BY <1>2, <1>4, <1>5 DEF Row

\* What the results of a handler may become when rows are only added.
LEMMA ReportsStay ==
  ASSUME Inv, NEW h \in Handlers, endpoints \subseteq endpoints', removed' = removed,
         \A g \in Handlers : g # h =>
            pc'[g] = pc[g] /\ ask'[g] = ask[g] /\ results'[g] = results[g],
         pc'[h] \notin {"bulk", "answered"} => results'[h] = <<>>,
         \A i \in DOMAIN results'[h] :
            results'[h][i] \in {0} \cup removed
                \/ [id |-> results'[h][i], address |-> ask'[h].rows[i], writer |-> By(h)'] \in endpoints'
  PROVE  Reports'
  <1>1. ASSUME NEW g \in Handlers, g # h, NEW i \in DOMAIN results'[g]
        PROVE  results'[g][i] \in {0} \cup removed'
                \/ [id |-> results'[g][i], address |-> ask'[g].rows[i], writer |-> By(g)'] \in endpoints'
    BY <1>1 DEF Inv, Reports, BulkAnswersTrue, By
  <1>2. BulkAnswersTrue'
    BY <1>1 DEF BulkAnswersTrue
  <1>3. QED
    BY <1>2 DEF Inv, Reports

\* create_endpoint and the rows and the answer of create_endpoints_bulk do to
\* the table what one row does.
LEMMA RegisterRow ==
  ASSUME Inv, NEW h \in Handlers,
         Create(h) \/ BulkCreated(h) \/ BulkRejected(h) \/ BulkBreaks(h) \/ BulkAnswers(h)
  PROVE  RowStep(h) /\ UNCHANGED <<found, known>>
  <1> DEFINE Bulk == BulkCreated(h) \/ BulkRejected(h)
  <1>1. Types /\ UNCHANGED <<found, known>>
    BY DEF Create, BulkCreated, BulkRejected, BulkBreaks, BulkAnswers, Register, Inv
  <1>2. CASE Create(h)
    <2>1. ask[h].address \in Addresses \cup {NoAddress}
      BY <1>1, <1>2, Serves DEF Create, Creations
    <2>2. QED
      BY <1>1, <1>2, <2>1, RowSteps DEF Create
  <1>3. CASE Bulk \/ BulkBreaks(h)
    <2>1. InBulk(h)
      BY <1>3 DEF BulkCreated, BulkRejected, BulkBreaks
    <2>2. Row(h) \in Addresses \cup {NoAddress}
      BY <1>1, <2>1, RowOfList
    <2>3. Insert(h, Row(h)) \/ (UNCHANGED endpoints /\ MayDraw(Row(h)))
      BY <1>3 DEF BulkCreated, BulkRejected, BulkBreaks, RollBack
    <2>4. QED
      BY <1>1, <2>2, <2>3, RowSteps
  <1>4. CASE BulkAnswers(h)
    BY <1>1, <1>4 DEF BulkAnswers, RowStep, Inv, Types, TypeOK
  <1>5. QED
    BY <1>2, <1>3, <1>4

\* Registrations keep the invariant.
LEMMA RegisterInv ==
  ASSUME Inv, NEW h \in Handlers,
         Create(h) \/ BulkCreated(h) \/ BulkRejected(h) \/ BulkBreaks(h) \/ BulkAnswers(h)
  PROVE  Inv'
  <1> DEFINE Bulk == BulkCreated(h) \/ BulkRejected(h)
  <1>1. /\ pc[h] \in {"create", "bulk"} /\ pc[h] \in Inside /\ Types
        /\ UNCHANGED <<admins, cookies, before, found, scans, scan, removed, known>>
    BY DEF Create, BulkCreated, BulkRejected, BulkBreaks, BulkAnswers, Register, InBulk, Inside, Inv
  <1>2. By(h) \in People
    BY <1>1, Serves DEF Creations, Bulks, By
  <1>3. PICK l \in {"idle", "bulk", "answered"} :
        /\ pc' = [pc EXCEPT ![h] = l]
        /\ \/ l = "idle" /\ ask' = [ask EXCEPT ![h] = NoRequest]
           \/ l # "idle" /\ ask' = ask /\ pc[h] = "bulk"
    BY <1>1 DEF Create, BulkCreated, BulkRejected, BulkBreaks, BulkAnswers, Leave, Goto, InBulk, Types
  <1>4. RowStep(h)
    BY RegisterRow
  <1>5. /\ endpoints' \subseteq [id : 1..MaxId, address : Addresses, writer : People]
        /\ lastId' \in 0..MaxId /\ endpoints \subseteq endpoints'
        /\ \A e \in endpoints' : e \in endpoints \/ e.writer = By(h)
    BY <1>2, <1>4, RowTypes
  <1>6. Sessions' /\ \A g \in Handlers : g # h => pc'[g] = pc[g] /\ ask'[g] = ask[g]
    BY <1>1, <1>3, <1>5, InsideStep
  <1>7. Rounds'
    <2>1. \/ endpoints' = endpoints
          \/ lastId' = lastId + 1 /\ \E e : endpoints' = endpoints \cup {e} /\ e.id = lastId'
      <3>1. \A a : [id |-> lastId', address |-> a, writer |-> By(h)].id = lastId'
        OBVIOUS
      <3>2. QED
        BY <1>4, <3>1 DEF RowStep
    <2>2. QED
      BY <1>1, <1>4, <2>1, FreshIds DEF RowStep
  <1>8. \/ results' = results /\ l # "bulk" /\ (l = "idle" => results[h] = <<>>)
        \/ l = "idle" /\ results' = [results EXCEPT ![h] = <<>>]
        \/ /\ l = "bulk" /\ InBulk(h)
           /\ \E id \in 0..MaxId :
                /\ results' = [results EXCEPT ![h] = Append(@, id)]
                /\ id = 0 \/ [id |-> id, address |-> Row(h), writer |-> By(h)] \in endpoints'
    <2>1. pc'[h] = l /\ (l = "bulk" \/ pc'[h] # pc[h])
      BY <1>1, <1>3 DEF Types
    <2>2. CASE Create(h)
      BY <2>1, <2>2, <1>3 DEF Create, Leave, Goto, Inv, Reports, Types
    <2>3. CASE BulkBreaks(h)
      BY <1>1, <1>3, <2>1, <2>3 DEF BulkBreaks, Leave, Goto, Types
    <2>4. CASE BulkAnswers(h)
      BY <1>1, <1>3, <2>1, <2>4 DEF BulkAnswers, Goto, Types
    <2>5. ASSUME Bulk PROVE l = "bulk" /\ InBulk(h)
      BY <2>1, <2>5 DEF BulkCreated, BulkRejected, InBulk
    <2>6. CASE BulkRejected(h)
      <3>1. 0 \in 0..MaxId /\ results' = [results EXCEPT ![h] = Append(@, 0)]
        BY <2>6, RegistryAssumption DEF BulkRejected, Report
      <3>2. QED
        BY <2>5, <2>6, <3>1
    <2>7. CASE BulkCreated(h)
      <3>1. /\ results' = [results EXCEPT ![h] = Append(@, lastId')]
            /\ [id |-> lastId', address |-> Row(h), writer |-> By(h)] \in endpoints'
        BY <2>7 DEF BulkCreated, Report, Insert
      <3>2. QED
        BY <1>5, <2>5, <2>7, <3>1
    <2>8. QED
      BY <2>2, <2>3, <2>4, <2>6, <2>7
  <1>9. /\ results' \in [Handlers -> Seq(0..MaxId)]
        /\ \A g \in Handlers : Len(results'[g]) <= MaxBulk
        /\ \A g \in Handlers : g # h => results'[g] = results[g]
    <2>1. results \in [Handlers -> Seq(0..MaxId)] /\ \A g \in Handlers : Len(results[g]) <= MaxBulk
      BY <1>1 DEF Types, TypeOK
    <2>2. CASE l # "bulk"
      <3>1. <<>> \in Seq(0..MaxId) /\ Len(<<>>) = 0 /\ 0 <= MaxBulk
        BY RegistryAssumption
      <3>2. results' = results \/ results' = [results EXCEPT ![h] = <<>>]
        BY <1>8, <2>2
      <3>3. QED
        BY <2>1, <3>1, <3>2
    <2>3. CASE l = "bulk"
      <3>1. PICK id \in 0..MaxId : results' = [results EXCEPT ![h] = Append(@, id)]
        BY <1>8, <2>3
      <3>2. Len(results[h]) + 1 <= MaxBulk
        BY <1>1, <1>8, <2>3, RowOfList
      <3>3. QED
        BY <2>1, <3>1, <3>2
    <2>4. QED
      BY <2>2, <2>3
  <1>10. Types'
    <2>1. /\ pc' \in [Handlers -> Labels] /\ before' \in [Handlers -> BOOLEAN]
          /\ ask' \in [Handlers -> Requests \cup {NoRequest}]
          /\ \A g \in Handlers : pc'[g] \notin {"idle", "insert", "cookie", "insertResults", "answered"}
                => pc'[g] = ask'[g].kind
          /\ \A g \in Handlers : Serving(g)'
      <3>1. l \in Labels /\ scan' \in [Handlers -> [hosts : SUBSET Hosts, at : 0..MaxScans]]
        BY <1>1 DEF Labels, Types
      <3>2. QED
        BY <1>1, <1>3, <3>1, MoveTypes
    <2>2. QED
      BY <1>1, <1>5, <1>9, <2>1 DEF Types, TypeOK
  <1>11. Reports'
    <2>1. pc'[h] = l
      BY <1>1, <1>3 DEF Types
    <2>2. pc'[h] \notin {"bulk", "answered"} => results'[h] = <<>>
      BY <1>1, <1>3, <1>8, <2>1 DEF Inv, Reports, Types
    <2>3. ASSUME NEW i \in DOMAIN results'[h]
          PROVE  results'[h][i] \in {0} \cup removed
                    \/ [id |-> results'[h][i], address |-> ask'[h].rows[i], writer |-> By(h)'] \in endpoints'
      <3>1. l # "idle" /\ ask' = ask
        BY <1>3, <2>1, <2>2, <2>3
      <3>2. \A j \in DOMAIN results[h] :
                results[h][j] \in {0} \cup removed
                    \/ [id |-> results[h][j], address |-> ask[h].rows[j], writer |-> By(h)] \in endpoints
        BY DEF Inv, Reports, BulkAnswersTrue
      <3>3. CASE results' = results
        BY <1>5, <2>3, <3>1, <3>2, <3>3 DEF By
      <3>4. CASE l = "bulk"
        <4>1. PICK id \in 0..MaxId :
                /\ results' = [results EXCEPT ![h] = Append(@, id)]
                /\ id = 0 \/ [id |-> id, address |-> Row(h), writer |-> By(h)] \in endpoints'
          BY <1>8, <3>4
        <4>2. results[h] \in Seq(0..MaxId) /\ results'[h] = Append(results[h], id)
          BY <1>1, <4>1 DEF Types
        <4>3. CASE i \in DOMAIN results[h]
          <5>1. results'[h][i] = results[h][i]
            BY <4>2, <4>3
          <5>2. QED
            BY <1>5, <3>1, <3>2, <4>3, <5>1 DEF By
        <4>4. CASE i \notin DOMAIN results[h]
          <5>1. i = Len(results[h]) + 1 /\ results'[h][i] = id
            BY <2>3, <4>2, <4>4
          <5>2. QED
            BY <3>1, <4>1, <5>1 DEF Row, By
        <4>5. QED
          BY <4>3, <4>4
      <3>5. QED
        BY <1>8, <3>1, <3>3, <3>4
    <2>4. QED
      BY <1>1, <1>5, <1>6, <1>9, <2>2, <2>3, ReportsStay
  <1>12. QED
    BY <1>6, <1>7, <1>10, <1>11 DEF Inv

\* delete_endpoint.
LEMMA DeleteInv ==
  ASSUME Inv, NEW h \in Handlers, Delete(h)
  PROVE  Inv'
  <1>1. /\ pc[h] = "delete" /\ Types
        /\ pc' = [pc EXCEPT ![h] = "idle"] /\ ask' = [ask EXCEPT ![h] = NoRequest]
        /\ endpoints' = {e \in endpoints : e.id # ask[h].id}
        /\ found' = {f \in found : f.id # ask[h].id}
        /\ removed' = IF ask[h].id \in Ids THEN removed \cup {ask[h].id} ELSE removed
        /\ UNCHANGED <<admins, cookies, before, lastId, scans, results, scan, known>>
    BY DEF Delete, Leave, Goto, Inv
  <1>2. Sessions' /\ \A g \in Handlers : g # h => pc'[g] = pc[g] /\ ask'[g] = ask[g]
    BY <1>1, InsideStep DEF Inside
  <1>3. Types'
    <2>1. /\ pc' \in [Handlers -> Labels] /\ before' \in [Handlers -> BOOLEAN]
          /\ ask' \in [Handlers -> Requests \cup {NoRequest}]
          /\ \A g \in Handlers : pc'[g] \notin {"idle", "insert", "cookie", "insertResults", "answered"}
                => pc'[g] = ask'[g].kind
          /\ \A g \in Handlers : Serving(g)'
      <3>1. "idle" \in Labels /\ scan' \in [Handlers -> [hosts : SUBSET Hosts, at : 0..MaxScans]]
        BY <1>1 DEF Labels, Types
      <3>2. QED
        BY <1>1, <3>1, MoveTypes
    <2>2. QED
      BY <1>1, <2>1 DEF Types, TypeOK
  <1>4. Reports'
    <2>1. ASSUME NEW g \in Handlers, NEW i \in DOMAIN results[g]
          PROVE  results[g][i] \in {0} \cup removed'
                    \/ [id |-> results[g][i], address |-> ask'[g].rows[i], writer |-> By(g)'] \in endpoints'
      <3> DEFINE e == [id |-> results[g][i], address |-> ask[g].rows[i], writer |-> By(g)]
      <3>1. g # h
        BY <1>1, <2>1 DEF Inv, Reports
      <3>2. e.id = results[g][i] /\ (e \in endpoints => results[g][i] \in Ids)
        BY DEF Ids
      <3>3. e = [id |-> results[g][i], address |-> ask'[g].rows[i], writer |-> By(g)']
        BY <1>2, <3>1 DEF By
      <3>4. results[g][i] \in {0} \cup removed \/ e \in endpoints
        BY DEF Inv, Reports, BulkAnswersTrue
      <3> HIDE DEF e
      <3>5. QED
        BY <1>1, <3>2, <3>3, <3>4
    <2>2. ASSUME NEW g \in Handlers, pc'[g] \notin {"bulk", "answered"} PROVE results[g] = <<>>
      BY <1>1, <1>2, <2>2 DEF Inv, Reports
    <2>3. QED
      BY <1>1, <2>1, <2>2 DEF Reports, BulkAnswersTrue
  <1>5. Rounds'
    <2>1. \A id : id \in Ids' <=> id \in Ids /\ id # ask[h].id
      BY <1>1 DEF Ids
    <2>2. QED
      BY <1>1, <2>1 DEF Inv, Rounds
  <1>6. QED
    BY <1>2, <1>3, <1>4, <1>5 DEF Inv

\* A remote scan, and the transaction that stores what it found.
LEMMA DiscoverInv ==
  ASSUME Inv, NEW h \in Handlers, Scan(h) \/ InsertResults(h)
  PROVE  Inv'
  <1>1. /\ pc[h] \in {"discover", "insertResults"} /\ pc[h] \in Inside /\ Types /\ ask[h] \in ById
        /\ UNCHANGED <<admins, cookies, before, endpoints, lastId, results, removed>>
    <2>1. pc[h] \in {"discover", "insertResults"} /\ Types
      BY DEF Scan, InsertResults, Inv
    <2>2. QED
      BY <2>1, Serves DEF Scan, InsertResults, Inside, tables
  <1>2. PICK l \in {"idle", "insertResults"} :
        /\ pc' = [pc EXCEPT ![h] = l]
        /\ \/ l = "idle" /\ ask' = [ask EXCEPT ![h] = NoRequest]
           \/ l # "idle" /\ ask' = ask /\ Scan(h)
    BY DEF Scan, InsertResults, Leave, Goto
  <1>3. Sessions' /\ \A g \in Handlers : g # h => pc'[g] = pc[g] /\ ask'[g] = ask[g]
    BY <1>1, <1>2, InsideStep
  <1>4. /\ scans' \in 0..MaxScans
        /\ scan' \in [Handlers -> [hosts : SUBSET Hosts, at : 0..MaxScans]]
        /\ \A g \in Handlers \ {h} : scan'[g] = scan[g]
        /\ l = "insertResults" => scan'[h].at \in 1..MaxScans
    <2>1. /\ scans \in Nat /\ scans <= MaxScans
          /\ scan \in [Handlers -> [hosts : SUBSET Hosts, at : 0..MaxScans]]
      BY <1>1, RegistryAssumption DEF Types, TypeOK
    <2>2. CASE InsertResults(h)
      <3>1. NoScan \in [hosts : SUBSET Hosts, at : 0..MaxScans]
        BY RegistryAssumption DEF NoScan
      <3>2. l = "idle"
        BY <1>1, <1>2, <2>2 DEF InsertResults, Leave, Goto, Types
      <3>3. QED
        BY <2>1, <2>2, <3>1, <3>2 DEF InsertResults
    <2>3. CASE Scan(h) /\ scan' = scan /\ scans' = scans /\ Leave(h)
      BY <1>1, <1>2, <2>1, <2>3 DEF Leave, Goto, Types
    <2>4. CASE Scan(h) /\ ~(scan' = scan /\ scans' = scans /\ Leave(h))
      <3>1. PICK hosts \in SUBSET Hosts :
                scan' = [scan EXCEPT ![h] = [hosts |-> hosts, at |-> scans']]
                /\ scans' = scans + 1 /\ scans < MaxScans
        BY <2>4 DEF Scan
      <3>2. scans' \in 1..MaxScans
        BY <2>1, <3>1, RegistryAssumption
      <3>3. [hosts |-> hosts, at |-> scans'] \in [hosts : SUBSET Hosts, at : 0..MaxScans]
        BY <3>2, RegistryAssumption
      <3>4. QED
        BY <2>1, <3>1, <3>2, <3>3
    <2>5. QED
      BY <2>2, <2>3, <2>4
  <1>5. \/ found' = found /\ known' = known
        \/ /\ EndpointStillThere(h) /\ pc[h] = "insertResults"
           /\ found' = found \cup Results(h) /\ known' = known \cup Results(h)
    BY DEF Scan, InsertResults, tables
  <1>6. ASSUME EndpointStillThere(h), pc[h] = "insertResults", NEW f \in Results(h)
        PROVE  f \in Finding /\ f.id \in Ids
    <2>1. scan[h].hosts \subseteq Hosts /\ scan[h].at \in 1..MaxScans /\ ask[h].id \in 1..MaxId
      BY <1>1, <1>6 DEF Types, Serving, ById
    <2>2. PICK x \in scan[h].hosts : f = [id |-> ask[h].id, host |-> x, at |-> scan[h].at]
      BY <1>6 DEF Results
    <2>3. QED
      BY <1>6, <2>1, <2>2 DEF Finding, EndpointStillThere
  <1>7. Types'
    <2>1. /\ pc' \in [Handlers -> Labels] /\ before' \in [Handlers -> BOOLEAN]
          /\ ask' \in [Handlers -> Requests \cup {NoRequest}]
          /\ \A g \in Handlers : pc'[g] \notin {"idle", "insert", "cookie", "insertResults", "answered"}
                => pc'[g] = ask'[g].kind
          /\ \A g \in Handlers : Serving(g)'
      <3>1. l \in Labels
        BY DEF Labels
      <3>2. QED
        BY <1>1, <1>2, <1>4, <3>1, MoveTypes
    <2>2. found' \subseteq Finding /\ known' \subseteq Finding
      BY <1>1, <1>5, <1>6 DEF Types, TypeOK, Finding
    <2>3. QED
      BY <1>1, <1>4, <2>1, <2>2 DEF Types, TypeOK, Finding
  <1>8. Reports'
    <2>1. results'[h] = <<>> /\ DOMAIN results'[h] = {} /\ results' = results
      BY <1>1 DEF Inv, Reports
    <2>2. QED
      BY <1>1, <1>3, <2>1, ReportsStay
  <1>9. Rounds'
    BY <1>1, <1>5, <1>6 DEF Inv, Rounds, Ids
  <1>10. QED
    BY <1>3, <1>7, <1>8, <1>9 DEF Inv

-----------------------------------------------------------------------------

\* Whom a guarded route lets in holds an account.
LEMMA ArriveInv ==
  ASSUME Inv, NEW h \in Handlers, NEW q \in Requests, Arrive(h, q)
  PROVE  Inv'
  <1>1. /\ pc[h] \in {"idle", "answered"} /\ (Guarded(q) => HasSession(q.by)) /\ Types
        /\ ask' = [ask EXCEPT ![h] = q] /\ pc' = [pc EXCEPT ![h] = q.kind]
        /\ before' = [before EXCEPT ![h] = Accounts # {}]
        /\ results' = [results EXCEPT ![h] = <<>>]
        /\ UNCHANGED <<admins, cookies, tables, scans, scan, removed, known>>
    BY DEF Arrive, Goto, Inv
  <1>2. q.kind \in {"setup", "login", "logout", "create", "bulk", "delete", "discover"}
    BY DEF Requests, Credentials, Logouts
  <1>3. \A g \in Handlers : g # h =>
            pc'[g] = pc[g] /\ ask'[g] = ask[g] /\ before'[g] = before[g] /\ results'[g] = results[g]
    BY <1>1 DEF Types, TypeOK
  <1>4. pc'[h] = q.kind /\ ask'[h] = q /\ before'[h] = (Accounts # {}) /\ results'[h] = <<>>
    BY <1>1 DEF Types, TypeOK
  <1>5. Types'
    <2>1. results' \in [Handlers -> Seq(0..MaxId)] /\ \A g \in Handlers : Len(results'[g]) <= MaxBulk
      <3>1. <<>> \in Seq(0..MaxId) /\ Len(<<>>) = 0 /\ 0 <= MaxBulk
        BY RegistryAssumption
      <3>2. QED
        BY <1>1, <3>1 DEF Types, TypeOK
    <2>2. pc' \in [Handlers -> Labels] /\ before' \in [Handlers -> BOOLEAN]
          /\ ask' \in [Handlers -> Requests \cup {NoRequest}]
      BY <1>1, <1>2 DEF Types, TypeOK, Labels
    <2>3. ASSUME NEW g \in Handlers
          PROVE  /\ pc'[g] \notin {"idle", "insert", "cookie", "insertResults", "answered"}
                        => pc'[g] = ask'[g].kind
                 /\ Serving(g)'
      <3>1. CASE g = h
        BY <1>2, <1>4, <3>1 DEF Serving
      <3>2. CASE g # h
        BY <1>1, <1>3, <3>2 DEF Types, TypeOK, Serving
      <3>3. QED
        BY <3>1, <3>2
    <2>4. QED
      BY <1>1, <2>1, <2>2, <2>3 DEF Types, TypeOK, tables
  <1>6. Sessions'
    <2>1. q.kind \in Inside => HoldsAccount(q.by)
      <3>1. \A k \in cookies : k.user \in UserNames /\ admins[k.user] = k.holder
        BY <1>1 DEF Inv, Types, TypeOK, Sessions, OnlyAdminsWrite
      <3>2. q.kind \in Inside => Guarded(q)
        BY <1>2 DEF Inside, Guarded, Open
      <3>3. QED
        BY <1>1, <3>1, <3>2 DEF HasSession, HoldsAccount
    <2>2. OnlyAdminsWrite'
      BY <1>1 DEF Inv, Sessions, OnlyAdminsWrite, tables
    <2>3. ASSUME NEW g \in Handlers
          PROVE  /\ pc'[g] = "cookie" => admins'[User(g)'] = By(g)'
                 /\ pc'[g] \in Inside => HoldsAccount(By(g))'
                 /\ before'[g] => Accounts' # {}
                 /\ pc'[g] = "insert" => ~before'[g]
      <3>1. CASE g = h
        BY <1>1, <1>2, <1>4, <2>1, <3>1 DEF HoldsAccount, Accounts, By
      <3>2. CASE g # h
        BY <1>1, <1>3, <3>2 DEF Inv, Sessions, HoldsAccount, Accounts, User, By
      <3>3. QED
        BY <3>1, <3>2
    <2>4. QED
      BY <2>2, <2>3 DEF Sessions
  <1>7. Reports'
    BY <1>1, <1>3, <1>4, ReportsStay DEF tables
  <1>8. Rounds'
    BY <1>1 DEF Inv, Rounds, Ids, tables
  <1>9. QED
    BY <1>5, <1>6, <1>7, <1>8 DEF Inv

\* What a crash ends has left nothing half done.
LEMMA CrashInv ==
  ASSUME Inv, Crash \/ UNCHANGED vars
  PROVE  Inv'
  <1>1. CASE Crash
    <2>1. /\ \A h \in Handlers : pc'[h] = "idle" /\ ask'[h] = NoRequest /\ results'[h] = <<>>
          /\ UNCHANGED <<admins, cookies, before, tables, scans, removed, known>> /\ Types
      BY <1>1 DEF Crash, Inv
    <2>2. Types'
      <3>1. <<>> \in Seq(0..MaxId) /\ Len(<<>>) = 0 /\ 0 <= MaxBulk
        BY RegistryAssumption
      <3>2. NoScan \in [hosts : SUBSET Hosts, at : 0..MaxScans]
        BY RegistryAssumption DEF NoScan
      <3>3. \A h \in Handlers : Serving(h)'
        BY <2>1 DEF Serving
      <3>4. QED
        BY <1>1, <2>1, <3>1, <3>2, <3>3 DEF Crash, Types, TypeOK, tables, Labels
    <2>3. Sessions'
      BY <2>1 DEF Inv, Sessions, OnlyAdminsWrite, Inside, Accounts, tables
    <2>4. Reports' /\ Rounds'
      BY <2>1 DEF Inv, Reports, BulkAnswersTrue, Rounds, Ids, tables
    <2>5. QED
      BY <2>2, <2>3, <2>4 DEF Inv
  <1>2. CASE UNCHANGED vars
    BY <1>2 DEF vars, account, tables, Inv, Types, TypeOK, Serving, Sessions, OnlyAdminsWrite, HoldsAccount,
        Accounts, User, By, Reports, BulkAnswersTrue, Rounds, Ids
  <1>3. QED
    BY <1>1, <1>2

LEMMA NextInv == Inv /\ [Next]_vars => Inv'
  <1> SUFFICES ASSUME Inv, [Next]_vars PROVE Inv'
    OBVIOUS
  <1>1. CASE Crash \/ UNCHANGED vars
    BY <1>1, CrashInv
  <1>2. ASSUME NEW h \in Handlers, Handle(h) PROVE Inv'
    BY <1>2, AccountInv, RegisterInv, DeleteInv, DiscoverInv DEF Handle
  <1>3. ASSUME NEW h \in Handlers, NEW q \in Requests, Arrive(h, q) PROVE Inv'
    BY <1>3, ArriveInv
  <1>4. QED
    BY <1>1, <1>2, <1>3 DEF Next

LEMMA Invariance == Spec => []Inv
    BY InitInv, NextInv, PTL DEF Spec

-----------------------------------------------------------------------------
(* The newest scan *)

\* Of bounded times one is the greatest.
LEMMA GreatestExists ==
  ASSUME NEW S \in SUBSET (1..MaxScans), S # {}
  PROVE  \E m \in S : \A n \in S : n <= m
  <1> DEFINE T == {MaxScans - n : n \in S}
  <1>1. \A n \in S : n \in Nat /\ n <= MaxScans /\ MaxScans - n \in T
    BY RegistryAssumption
  <1>2. T \in SUBSET Nat /\ T # {}
    <2>1. \A n \in S : MaxScans - n \in Nat
      BY <1>1, RegistryAssumption
    <2>2. T \in SUBSET Nat
      BY <2>1
    <2>3. PICK n \in S : TRUE
      OBVIOUS
    <2>4. QED
      BY <1>1, <2>2, <2>3
  <1>3. \A t \in T : \E n \in S : t = MaxScans - n
    OBVIOUS
  <1> HIDE DEF T
  <1>4. PICK least \in T : \A t \in T : least <= t
    BY <1>2, LeastExists
  <1>5. PICK m \in S : least = MaxScans - m
    BY <1>3
  <1>6. ASSUME NEW n \in S PROVE n <= m
    <2>1. MaxScans - m <= MaxScans - n
      BY <1>1, <1>4, <1>5
    <2>2. QED
      BY <1>1, <2>1, RegistryAssumption
  <1>7. QED
    BY <1>6

\* The findings of one host of one endpoint have a newest, and it is the one shown.
LEMMA ShownIsNewest ==
  ASSUME Inv, NEW f \in found
  PROVE  /\ Shown(f.id, f.host) \in found
         /\ \A g \in found : g.id = f.id /\ g.host = f.host => g.at <= Shown(f.id, f.host).at
  <1> DEFINE Same == {g \in found : g.id = f.id /\ g.host = f.host}
             Times == {g.at : g \in Same}
             Newest(g) == g.id = f.id /\ g.host = f.host
                            /\ \A x \in found : x.id = f.id /\ x.host = f.host => x.at <= g.at
  <1>1. \A g \in found : g.at \in 1..MaxScans
    BY DEF Inv, Types, TypeOK
  <1>2. Times \in SUBSET (1..MaxScans) /\ Times # {}
    BY <1>1
  <1>3. PICK m \in Times : \A n \in Times : n <= m
    BY <1>2, GreatestExists
  <1>4. \E g \in found : Newest(g)
    BY <1>3
  <1>5. Shown(f.id, f.host) = CHOOSE g \in found : Newest(g)
    BY DEF Shown
  <1> HIDE DEF Newest
  <1>6. Shown(f.id, f.host) \in found /\ Newest(Shown(f.id, f.host))
    BY <1>4, <1>5
  <1>7. QED
    BY <1>6 DEF Newest

-----------------------------------------------------------------------------
(* Theorems *)

\* Every variable of accounts and registry keeps its type; a handler serves
\* the kind of request its label says.
THEOREM RegistryTypeCorrect == Spec => []TypeOK
  <1>1. Inv => TypeOK
    BY DEF Inv, Types
  <1>2. QED
    BY <1>1, Invariance, PTL

\* Whatever set-ups, logins, logouts and crashes overlap, a session names its
\* holder's own account, and every endpoint was registered by an account.
THEOREM RegisteredByAdmins == Spec => []OnlyAdminsWrite
  <1>1. Inv => OnlyAdminsWrite
    BY DEF Inv, Sessions
  <1>2. QED
    BY <1>1, Invariance, PTL

\* A set-up that came in when there was an admin never creates one.
THEOREM SetupWorksOnce == Spec => SetupClosesForGood
  <1>1. Inv => [\A h \in Handlers : pc[h] = "insert" /\ pc'[h] = "cookie" => ~before[h]]_vars
    BY DEF Inv, Sessions
  <1>2. QED
    BY <1>1, Invariance, PTL DEF SetupClosesForGood

\* For lists of any length, an id that a bulk registration reports is that of
\* its row, in the table until somebody deletes it.
THEOREM BulkReportsAreTrue == Spec => []BulkAnswersTrue
  <1>1. Inv => BulkAnswersTrue
    BY DEF Inv, Reports
  <1>2. QED
    BY <1>1, Invariance, PTL

\* In whatever order rounds of discovery commit, the finding that is shown of
\* a host is of its newest scan.
THEOREM NewestIsShown == Spec => []NewestScanShown
  <1>1. Inv => NewestScanShown
    BY ShownIsNewest DEF Inv, Rounds, NewestScanShown
  <1>2. QED
    BY <1>1, Invariance, PTL

-----------------------------------------------------------------------------
(* The inventory that assessments rely on *)

LEMMA InventoryInit == Init => Promise!Init
    BY DEF Init, Promise!Init, Ids

\* A row draws an id for an endpoint, or in vain.
LEMMA RegisterDraws ==
  ASSUME NEW h \in Handlers, RowStep(h), UNCHANGED found
  PROVE  [Promise!Next]_(Promise!inventoryVars)
  <1>1. CASE endpoints' = endpoints
    BY <1>1 DEF RowStep, Ids, Promise!Next, Promise!Draw, Promise!inventoryVars
  <1>2. CASE endpoints' # endpoints
    <2>1. PICK a \in Addresses :
            endpoints' = endpoints \cup {[id |-> lastId', address |-> a, writer |-> By(h)]}
      BY <1>2 DEF RowStep
    <2>2. Ids' = Ids \cup {lastId'} /\ lastId' = lastId + 1
      BY <1>2, <2>1 DEF RowStep, Ids
    <2>3. QED
      BY <2>2 DEF Promise!Next, Promise!Register
  <1>3. QED
    BY <1>1, <1>2

\* A deletion withdraws the endpoint, or finds none.
LEMMA DeleteWithdraws ==
  ASSUME Inv, NEW h \in Handlers, Delete(h)
  PROVE  [Promise!Next]_(Promise!inventoryVars)
  <1> DEFINE id == ask[h].id
  <1>1. /\ endpoints' = {e \in endpoints : e.id # id} /\ UNCHANGED lastId
        /\ found' = {f \in found : f.id # id}
    BY DEF Delete
  <1> HIDE DEF id
  <1>2. Ids' = Ids \ {id}
    BY <1>1 DEF Ids
  <1>3. CASE id \in Ids
    <2>1. {<<f.id, f.host>> : f \in found'} = {d \in {<<f.id, f.host>> : f \in found} : d[1] # id}
      BY <1>1
    <2>2. QED
      BY <1>1, <1>2, <1>3, <2>1 DEF Promise!Next, Promise!Withdraw
  <1>4. CASE id \notin Ids
    <2>1. endpoints' = endpoints /\ found' = found
      BY <1>1, <1>4 DEF Inv, Rounds, Ids
    <2>2. QED
      BY <1>1, <2>1 DEF Promise!inventoryVars, Ids
  <1>5. QED
    BY <1>3, <1>4

\* A round of discovery finds hosts of one endpoint that exists.
LEMMA DiscoveryFinds ==
  ASSUME Inv, NEW h \in Handlers, Scan(h) \/ InsertResults(h)
  PROVE  [Promise!Next]_(Promise!inventoryVars)
  <1>1. UNCHANGED <<endpoints, lastId>>
    BY DEF Scan, InsertResults, tables
  <1>2. CASE found' = found
    BY <1>1, <1>2 DEF Promise!inventoryVars, Ids
  <1>3. CASE found' # found
    <2>1. /\ EndpointStillThere(h) /\ pc[h] = "insertResults"
          /\ found' = found \cup Results(h)
      BY <1>3 DEF Scan, InsertResults, tables
    <2>2. scan[h].hosts \subseteq Hosts
      BY DEF Inv, Types
    <2>3. ask[h].id \in Ids
      BY <1>3, <2>1 DEF EndpointStillThere, Results
    <2>4. {<<f.id, f.host>> : f \in Results(h)} = {ask[h].id} \X scan[h].hosts
      <3> DEFINE finding(x) == [id |-> ask[h].id, host |-> x, at |-> scan[h].at]
      <3>1. \A x : finding(x).id = ask[h].id /\ finding(x).host = x
        OBVIOUS
      <3>2. Results(h) = {finding(x) : x \in scan[h].hosts}
        BY DEF Results
      <3> HIDE DEF finding
      <3>3. {<<f.id, f.host>> : f \in Results(h)} = {<<ask[h].id, x>> : x \in scan[h].hosts}
        BY <3>1, <3>2
      <3>4. QED
        BY <3>3
    <2>5. {<<f.id, f.host>> : f \in found'} =
            {<<f.id, f.host>> : f \in found} \cup ({ask[h].id} \X scan[h].hosts)
      BY <2>1, <2>4
    <2>6. QED
      BY <1>1, <2>2, <2>3, <2>5 DEF Promise!Next, Promise!Find, Ids
  <1>4. QED
    BY <1>2, <1>3

LEMMA InventoryStep == Inv /\ [Next]_vars => [Promise!Next]_(Promise!inventoryVars)
  <1> SUFFICES ASSUME Inv, [Next]_vars PROVE [Promise!Next]_(Promise!inventoryVars)
    OBVIOUS
  <1>1. CASE UNCHANGED tables
    BY <1>1 DEF tables, Ids, Promise!inventoryVars
  <1>2. ASSUME NEW h \in Handlers, Handle(h), ~UNCHANGED tables
        PROVE  [Promise!Next]_(Promise!inventoryVars)
    BY <1>2, RegisterRow, RegisterDraws, DeleteWithdraws, DiscoveryFinds DEF Handle, AccountStep
  <1>3. QED
    BY <1>1, <1>2 DEF Next, Arrive, Crash, vars

\* For any handlers, lists, addresses and hosts, what registrations, deletions,
\* discoveries and crashes do to endpoints and their hosts is a behaviour of
\* Inventory: ids are never drawn again, hosts go with their endpoint.
THEOREM RegistryImplementsInventory == Spec => ImplementsInventory
  <1>1. Spec => Promise!Init /\ [][Promise!Next]_(Promise!inventoryVars)
    BY Invariance, InventoryInit, InventoryStep, PTL DEF Spec
  <1>2. QED
    BY <1>1 DEF ImplementsInventory, Promise!Spec

=============================================================================
