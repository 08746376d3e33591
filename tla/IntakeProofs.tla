---------------------------- MODULE IntakeProofs ----------------------------
(***************************************************************************)
(* What LeadIntake promises of leads and of their rows, for any requests,  *)
(* addresses, limits and numbers of attempts.                              *)
(***************************************************************************)
EXTENDS LeadIntake, TLAPS

Limiter == {"new", "read", "pop", "count", "size", "sweep", "write"}

\* A request that has not come to its insertion has left no trace.
NoTrace ==
    \A r \in Requests : pc[r] \in Limiter \cup {"store"} =>
        r \notin told /\ r \notin DOMAIN leads /\ tries[r] = 0 /\ delivered[r] = 0 /\ outcome[r] = "none"

\* While it is announced, its row says nothing yet, and the last post failed.
Announced ==
    \A r \in Requests :
        /\ pc[r] \in {"notify", "record"} => r \in told /\ leads[r] = Unnotified
        /\ pc[r] = "notify" => tries[r] < MaxAttempts /\ outcome[r] # "ok"
        /\ pc[r] = "record" /\ outcome[r] = "ok" => delivered[r] > 0
        /\ pc[r] = "record" /\ outcome[r] # "ok" /\ tries[r] > 0
            => tries[r] = MaxAttempts /\ outcome[r] # "none"

Delivered == \A r \in Requests : delivered[r] <= tries[r]

\* What has not come to the limiter, and what never does, has not been counted.
Uncounted == \A r \in Requests : pc[r] \in {"new", "ignored"} => r \notin admitted

Notices ==
    NoTrace /\ Announced /\ Delivered /\ Uncounted /\ StoredBeforeTold /\ RowTellsTheTruth
Inv == TypeOK /\ Notices

-----------------------------------------------------------------------------

LEMMA InitInv == Init => Inv
  <1> SUFFICES ASSUME Init PROVE Inv
    OBVIOUS
  <1> USE LimitsAssumption DEF Init, Unnotified
  <1>1. TypeOK
    BY DEF TypeOK, Ended
  <1>2. Notices
    BY DEF Notices, NoTrace, Announced, Delivered, Uncounted, StoredBeforeTold, RowTellsTheTruth, Limiter
  <1>3. QED
    BY <1>1, <1>2 DEF Inv

\* A step that leaves leads and notices alone and goes from the limiter, or
\* from the insertion, to an earlier place than the notification.
LEMMA QuietStep ==
  ASSUME Inv, NEW r \in Requests,
         pc[r] \in Limiter \cup {"store"},
         NEW l \in (Limiter \ {"new"}) \cup {"store", "over", "broken"}, pc' = [pc EXCEPT ![r] = l],
         admitted' \in {admitted, admitted \cup {r}},
         UNCHANGED <<leads, told, noticeVars>>
  PROVE  Notices'
  <1> USE DEF Inv, Notices, TypeOK, Limiter, Ended, noticeVars
  <1>1. NoTrace'
    BY DEF NoTrace
  <1>2. Announced'
    BY DEF Announced
  <1>3. Delivered' /\ RowTellsTheTruth'
    BY DEF Delivered, RowTellsTheTruth
  <1>4. Uncounted' /\ StoredBeforeTold'
    BY DEF NoTrace, Uncounted, StoredBeforeTold
  <1>5. QED
    BY <1>1, <1>2, <1>3, <1>4

\* Who filled in the honeypot field is told "received", and leaves nothing else.
LEMMA IgnoredStep ==
  ASSUME Inv, NEW r \in Requests,
         pc[r] = "new", pc' = [pc EXCEPT ![r] = "ignored"], told' = told \cup {r},
         UNCHANGED <<leads, admitted, noticeVars>>
  PROVE  Notices'
  <1> USE DEF Inv, Notices, TypeOK, Limiter, Ended, noticeVars
  <1>1. r \notin DOMAIN leads /\ delivered[r] = 0 /\ r \notin admitted
    BY DEF NoTrace, Uncounted
  <1>2. NoTrace' /\ Uncounted'
    BY <1>1 DEF NoTrace, Uncounted
  <1>3. Announced'
    BY DEF Announced
  <1>4. Delivered' /\ RowTellsTheTruth'
    BY DEF Delivered, RowTellsTheTruth
  <1>5. StoredBeforeTold'
    BY <1>1 DEF StoredBeforeTold
  <1>6. QED
    BY <1>2, <1>3, <1>4, <1>5

\* No step of the limiter touches leads and notices.
LEMMA CheckStep ==
  ASSUME Inv, NEW r \in Requests, Arrive(r) \/ Check(r) \/ Refuse(r)
  PROVE  Inv'
  <1> USE LimitsAssumption DEF Inv, TypeOK, Limiter, Ended, Goto, checkVars, noticeVars
  <1>1. CASE Arrive(r)
    <2>1. TypeOK' BY <1>1 DEF Arrive
    <2>2. CASE Goto(r, "ignored")
      <3>1. Notices' BY <1>1, <2>2, IgnoredStep DEF Arrive
      <3>2. QED BY <2>1, <3>1
    <2>3. CASE ~Goto(r, "ignored")
      <3>1. Notices' BY <1>1, <2>3, QuietStep DEF Arrive
      <3>2. QED BY <2>1, <3>1
    <2>4. QED BY <2>2, <2>3
  <1>2. CASE ReadRecent(r)
    <2>1. Fresh(recent[from[r]], clock) \subseteq Requests BY DEF Fresh
    <2>2. TypeOK' BY <1>2, <2>1 DEF ReadRecent
    <2>3. Notices' BY <1>2, QuietStep DEF ReadRecent
    <2>4. QED BY <2>2, <2>3
  <1>3. CASE PopOwn(r)
    <2>1. TypeOK' BY <1>3 DEF PopOwn
    <2>2. Notices' BY <1>3, QuietStep DEF PopOwn
    <2>3. QED BY <2>1, <2>2
  <1>4. CASE RefuseLimit(r)
    <2>1. TypeOK' BY <1>4 DEF RefuseLimit
    <2>2. Notices' BY <1>4, QuietStep DEF RefuseLimit
    <2>3. QED BY <2>1, <2>2
  <1>5. CASE Append(r)
    <2>1. TypeOK' BY <1>5 DEF Append
    <2>2. Notices' BY <1>5, QuietStep DEF Append
    <2>3. QED BY <2>1, <2>2
  <1>6. CASE NoSweep(r)
    <2>1. TypeOK' BY <1>6 DEF NoSweep
    <2>2. Notices' BY <1>6, QuietStep DEF NoSweep
    <2>3. QED BY <2>1, <2>2
  <1>7. CASE StartSweep(r)
    <2>1. TypeOK' BY <1>7 DEF StartSweep, Tracked
    <2>2. Notices' BY <1>7, QuietStep DEF StartSweep
    <2>3. QED BY <2>1, <2>2
  <1>8. CASE SweepWrite(r)
    <2>1. TypeOK' BY <1>8 DEF SweepWrite, AfterSweepStep
    <2>2. Notices' BY <1>8, QuietStep DEF SweepWrite, AfterSweepStep
    <2>3. QED BY <2>1, <2>2
  <1>9. ASSUME NEW a \in Addresses, SweepRead(r, a) PROVE Inv'
    <2>1. Fresh(recent[a], at[r]) \subseteq Requests BY DEF Fresh
    <2>2. TypeOK' BY <1>9, <2>1 DEF SweepRead
    <2>3. Notices' BY <1>9, QuietStep DEF SweepRead
    <2>4. QED BY <2>2, <2>3
  <1>10. CASE Refuse(r)
    <2>1. TypeOK' BY <1>10 DEF Refuse
    <2>2. Notices' BY <1>10, QuietStep DEF Refuse
    <2>3. QED BY <2>1, <2>2
  <1>11. QED
    BY <1>1, <1>2, <1>3, <1>4, <1>5, <1>6, <1>7, <1>8, <1>9, <1>10 DEF Check

\* The insertion adds an unnotified row for a request that had none.
LEMMA StoreStep ==
  ASSUME Inv, NEW r \in Requests, Store(r) \/ StoreFails(r)
  PROVE  Inv'
  <1> USE LimitsAssumption
      DEF Inv, Notices, TypeOK, Limiter, Ended, Goto, checkVars, noticeVars, Unnotified
  <1>1. PICK l \in {"notify", "over"} :
        /\ pc[r] = "store" /\ pc' = [pc EXCEPT ![r] = l]
        /\ \/ l = "notify" /\ leads' = Stored(r) /\ told' = told \cup {r}
           \/ l = "over" /\ leads' \in {leads, Stored(r)} /\ told' = told
        /\ UNCHANGED <<clock, webhook, checkVars, noticeVars>>
    BY DEF Store, StoreFails
  <1>2. r \notin DOMAIN leads /\ tries[r] = 0 /\ delivered[r] = 0 /\ outcome[r] = "none"
    BY <1>1 DEF NoTrace
  <1>3. /\ DOMAIN Stored(r) = DOMAIN leads \cup {r}
        /\ Stored(r)[r] = Unnotified
        /\ \A x \in DOMAIN leads : Stored(r)[x] = leads[x]
    BY <1>2 DEF Stored
  <1>4. TypeOK'
    <2> DEFINE Notice == [notified : BOOLEAN, attempts : 0..MaxAttempts,
                          error : {"none", "timeout", "http", "error"}]
    <2>1. leads' \in {leads, Stored(r)} /\ DOMAIN leads' \subseteq Requests /\ told' \subseteq Requests
      BY <1>1, <1>3
    <2>2. Unnotified \in Notice
      OBVIOUS
    <2>3. \A x \in DOMAIN leads : leads[x] \in Notice
      OBVIOUS
    <2>4. \A x \in DOMAIN Stored(r) : Stored(r)[x] \in Notice
      <3> HIDE DEF Notice
      <3> QED BY <1>3, <2>2, <2>3
    <2>5. \A x \in DOMAIN leads' : leads'[x] \in Notice
      <3> HIDE DEF Notice
      <3> QED BY <2>1, <2>3, <2>4
    <2>6. QED
      BY <1>1, <2>1, <2>5
  <1>5. NoTrace' /\ Uncounted'
    BY <1>1, <1>3 DEF NoTrace, Uncounted
  <1>6. Announced'
    <2>1. \A x \in Requests \ {r} : x \in told /\ pc[x] # "ignored" => leads'[x] = leads[x]
      BY <1>1, <1>3 DEF StoredBeforeTold
    <2>2. ASSUME l = "notify" PROVE r \in told' /\ leads'[r] = Unnotified
      BY <1>1, <1>3, <2>2
    <2>3. QED
      BY <1>1, <1>2, <2>1, <2>2 DEF Announced
  <1>7. StoredBeforeTold' /\ RowTellsTheTruth' /\ Delivered'
    BY <1>1, <1>2, <1>3 DEF StoredBeforeTold, RowTellsTheTruth, Delivered
  <1>8. QED
    BY <1>4, <1>5, <1>6, <1>7

\* A post counts as an attempt before Slack may have the lead from it.
LEMMA PostStep ==
  ASSUME Inv, NEW r \in Requests, Post(r)
  PROVE  Inv'
  <1> USE LimitsAssumption
      DEF Inv, Notices, TypeOK, Limiter, Ended, Goto, checkVars, Unnotified, LastTry
  <1>1. r \in told /\ leads[r] = Unnotified /\ tries[r] + 1 \in 1..MaxAttempts /\ r \in DOMAIN leads
    BY DEF Announced, StoredBeforeTold, Post
  <1>2. PICK result \in {"ok", "timeout", "http", "error"} :
        /\ outcome' = [outcome EXCEPT ![r] = result]
        /\ tries' = [tries EXCEPT ![r] = @ + 1]
        /\ pc' = [pc EXCEPT ![r] = IF result = "ok" \/ tries'[r] = MaxAttempts
                                   THEN "record" ELSE "notify"]
        /\ \/ result # "http" /\ delivered' = [delivered EXCEPT ![r] = @ + 1]
           \/ result # "ok" /\ UNCHANGED delivered
        /\ pc[r] = "notify" /\ UNCHANGED <<clock, webhook, leads, told, checkVars>>
    BY DEF Post
  <1>3. tries'[r] = tries[r] + 1 /\ delivered'[r] \in 0..tries'[r]
    BY <1>1, <1>2 DEF Delivered
  <1>4. TypeOK'
    BY <1>1, <1>2, <1>3
  <1>5. NoTrace' /\ Uncounted'
    BY <1>2 DEF NoTrace, Uncounted
  <1>6. Announced'
    BY <1>1, <1>2, <1>3 DEF Announced
  <1>7. Delivered'
    BY <1>2, <1>3 DEF Delivered
  <1>8. StoredBeforeTold' /\ RowTellsTheTruth'
    BY <1>1, <1>2, <1>3 DEF StoredBeforeTold, RowTellsTheTruth
  <1>9. QED
    BY <1>4, <1>5, <1>6, <1>7, <1>8

\* The end of the background task without a post, and what it records.
LEMMA NoticeStep ==
  ASSUME Inv, NEW r \in Requests,
         SkipSlack(r) \/ NoticeBreaks(r) \/ Record(r) \/ RecordFails(r)
  PROVE  Inv'
  <1> USE LimitsAssumption
      DEF Inv, Notices, TypeOK, Limiter, Ended, Goto, checkVars, noticeVars, Unnotified
  <1>1. CASE SkipSlack(r) \/ RecordFails(r)
    <2>1. TypeOK' /\ NoTrace' /\ Uncounted'
      BY <1>1 DEF SkipSlack, RecordFails, NoTrace, Uncounted
    <2>2. Announced'
      BY <1>1 DEF SkipSlack, RecordFails, Announced
    <2>3. Delivered' /\ StoredBeforeTold' /\ RowTellsTheTruth'
      BY <1>1 DEF SkipSlack, RecordFails, Delivered, StoredBeforeTold, RowTellsTheTruth
    <2>4. QED BY <2>1, <2>2, <2>3
  <1>2. CASE NoticeBreaks(r)
    <2>1. TypeOK' /\ NoTrace' /\ Uncounted'
      BY <1>2 DEF NoticeBreaks, NoTrace, Uncounted
    <2>2. Announced'
      BY <1>2 DEF NoticeBreaks, Announced
    <2>3. Delivered' /\ StoredBeforeTold' /\ RowTellsTheTruth'
      BY <1>2 DEF NoticeBreaks, Delivered, StoredBeforeTold, RowTellsTheTruth
    <2>4. QED BY <2>1, <2>2, <2>3
  <1>3. CASE Record(r)
    <2> DEFINE row == [notified |-> leads[r].notified \/ Sent(r), attempts |-> tries[r],
                       error |-> IF Sent(r) THEN "none" ELSE outcome[r]]
    <2>1. r \in DOMAIN leads /\ leads[r] = Unnotified /\ pc[r] = "record"
      BY <1>3 DEF Record, Announced, StoredBeforeTold
    <2>2. leads' = [leads EXCEPT ![r] = row] /\ pc' = [pc EXCEPT ![r] = "done"]
          /\ UNCHANGED <<clock, webhook, told, checkVars, noticeVars>>
      BY <1>3 DEF Record
    <2>3. /\ row.notified = Sent(r) /\ row.attempts = tries[r]
          /\ row.error = IF Sent(r) THEN "none" ELSE outcome[r]
          /\ row \in [notified : BOOLEAN, attempts : 0..MaxAttempts,
                      error : {"none", "timeout", "http", "error"}]
      BY <2>1 DEF Sent
    <2> HIDE DEF row
    <2>4. TypeOK'
      BY <2>1, <2>2, <2>3
    <2>5. NoTrace' /\ Uncounted'
      BY <2>1, <2>2 DEF NoTrace, Uncounted
    <2>6. Announced'
      BY <2>1, <2>2 DEF Announced
    <2>7. Delivered' /\ StoredBeforeTold'
      BY <2>1, <2>2 DEF Delivered, StoredBeforeTold
    <2>8. RowTellsTheTruth'
      BY <2>1, <2>2, <2>3 DEF RowTellsTheTruth, Announced, Delivered, Sent
    <2>9. QED
      BY <2>4, <2>5, <2>6, <2>7, <2>8
  <1>4. QED
    BY <1>1, <1>2, <1>3

\* What a crash ends leaves the table as it was.
LEMMA ServerStep ==
  ASSUME Inv, Crash \/ Tick \/ UNCHANGED vars
  PROVE  Inv'
  <1> USE LimitsAssumption
      DEF Inv, Notices, TypeOK, Limiter, Ended, checkVars, noticeVars
  <1>1. /\ UNCHANGED <<leads, told, noticeVars>> /\ admitted' \in {admitted, {}}
        /\ \A r \in Requests : pc'[r] = pc[r] \/ (pc'[r] = "over" /\ pc[r] # "ignored")
    BY DEF Crash, Tick, Live, vars
  <1>2. TypeOK'
    BY DEF Crash, Tick, vars
  <1>3. NoTrace' /\ Announced' /\ Uncounted'
    BY <1>1 DEF NoTrace, Announced, Uncounted
  <1>4. Delivered' /\ StoredBeforeTold' /\ RowTellsTheTruth'
    BY <1>1 DEF Delivered, StoredBeforeTold, RowTellsTheTruth
  <1>5. QED
    BY <1>2, <1>3, <1>4

LEMMA NextInv == Inv /\ [Next]_vars => Inv'
  <1> SUFFICES ASSUME Inv, [Next]_vars PROVE Inv'
    OBVIOUS
  <1>1. CASE Crash \/ Tick \/ UNCHANGED vars
    BY <1>1, ServerStep
  <1>2. ASSUME NEW r \in Requests, Arrive(r) \/ Handle(r) PROVE Inv'
    BY <1>2, CheckStep, StoreStep, PostStep, NoticeStep DEF Handle, Notify
  <1>3. QED
    BY <1>1, <1>2 DEF Next

LEMMA Invariance == Spec => []Inv
    BY InitInv, NextInv, PTL DEF Spec

-----------------------------------------------------------------------------
(* Theorems *)

\* Every variable of POST /leads keeps its type; no lead is posted to Slack
\* more often than the attempts that are allowed.
THEOREM IntakeTypeCorrect == Spec => []TypeOK
  <1>1. Inv => TypeOK
    BY DEF Inv
  <1>2. QED
    BY <1>1, Invariance, PTL

\* However requests, failures of the database, timeouts and crashes interleave,
\* a visitor who was told "received" has a row, except who filled in the honeypot
\* field; that one leaves no row, no announcement and no count of the limit; and
\* what Slack heard of has a row.
THEOREM IntakeStoresFirst == Spec => []StoredBeforeTold
  <1>1. Inv => StoredBeforeTold
    BY DEF Inv, Notices
  <1>2. QED
    BY <1>1, Invariance, PTL

\* For any number of attempts, the row of a lead says of its notification
\* what happened: a mark only for what Slack has, an error for what was given up.
THEOREM IntakeRowIsTrue == Spec => []RowTellsTheTruth
  <1>1. Inv => RowTellsTheTruth
    BY DEF Inv, Notices
  <1>2. QED
    BY <1>1, Invariance, PTL
=============================================================================
