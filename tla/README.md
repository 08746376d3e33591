# Verification of invariant_api

TLA+ models of the Invariant API (FastAPI over PostgreSQL), checked with TLC
on small instances, and theorems about them proved with TLAPS for every value
of the constants. Source paths are relative to the repository's root.

## 1. The system

One `uvicorn` process (`Dockerfile:29`) serves synchronous handlers on a
thread pool. A handler opens a PostgreSQL connection per transaction
(READ COMMITTED) and calls internal services over HTTP: assessment (SSH runs
and the Docker list), discovery and ingestion. Handlers share nothing but the
database, apart from the in-memory rate limiter of the lead form. What is hard
is therefore: transactions of concurrent handlers interleaving, remote calls
between two of them, failure or a crash in between, and retries by clients.

| component | state | operations | interacts with | correct means |
|---|---|---|---|---|
| Metered assessments (`assessment_runs.py`, `routes/endpoints.py`, `routes/assess.py`) | `idempotency_keys`, `assessment_summaries`, `usage_events`, `domain_events` | resolve_target, reserve, run_remote, persist, release | endpoints, assessment service, clients that retry | one charge per reservation; a completed key replays its assessment; ledgers agree; no key stays reserved |
| Billing count (`count_billable_hosts`) | `usage_events` | count of distinct hosts of a half-open period | the above, deletion of endpoints | never shrinks, becomes final |
| Endpoints and discovery (`routes/endpoints.py`) | `endpoints`, `discovery_results` | create, bulk, delete, discover, list | discovery service; cascades; sessions; assessments | rows of a bulk call are independent; the newest round is shown; ids never return |
| Demo identities (`demo_identities.py`) | `demo_container_aliases`, `demo_host_aliases` | get_or_assign_alias, get_or_assign_host_alias | called by preview and publish | stable, distinct, pool names first |
| Demo publication (`routes/demo_snapshot.py`, `routes/demo_host_snapshot.py`) | `demo_snapshots`, `demo_host_snapshots` | preview, publish, revoke, public views | identities, scan, assessment service | what is published is what was asked, and only of the lab; a revocation withdraws |
| Leak scan (`demo_sanitize.py`) | none | eligibility, known identifiers, scan, redaction | publication | no real identifier passes |
| Lead intake (`routes/leads.py`, `clients/slack_client.py`) | `leads`, rate limiter, background tasks | create, notify, retry | Slack | limit per address; table of addresses bounded; a lead is stored before it is announced; its row tells what became of it |
| Admin accounts (`routes/auth.py`, `auth.py`) | `admin_users`, cookies | setup, login, logout, session check | all protected routes | only account holders write; set-up closes |
| Benchmark ingestion (`routes/ingest.py`, `bootstrap_documents.py`) | `document_versions`, `extracted_items`, `controls` | fetch, extract, normalize, lookup by title | ingestion service, assessments | controls belong to their version, come whole, and stay |
| Findings and reports (`finding_taxonomy.py`, `reports.py`, `routes/reports.py`, `routes/assess.py`) | none | join, split, percentage, the figures of three reports | assessment results, controls | every figure counts what it says; the percentage does not hide a failure |
| Public demo run, newsletter, appliance, clients, assembly, schema, scripts | little or none | see `PROJECT.json` | | |

`PROJECT.json` lists every component with its status and the hazards, each at
its source line.

## 2. Plan

Done, in order of importance:

1. `Assessment` with `KeyLedger` (what it promises), and their proofs in
   `AssessmentProofs` (reservations) and `MeteringProofs` (ledgers, bills,
   keys, the refinement).
2. `DemoIdentities`, composed by `DemoPublication`, and `DemoProofs`.
3. `LeadIntake`: the limiter shared by threads, insertion, notification; and
   `IntakeProofs` (rows and notifications) and `LimiterProofs`.
4. `AdminAccounts`, composed by `EndpointRegistry` with the routes it guards,
   and `Inventory`, what the registry promises to the assessments;
   `RegistryProofs`; and `MeteredRegistry`, the assessments over it.
5. `Benchmarks` and `Compliance`, composed by `Reporting`: assessments joined
   with a benchmark that changes, and the reports made of them; and
   `ReportingProofs`.

Left: the texts of the leak scan, which a checker of sequences over a small
alphabet could say something of, and the public demo run.

The proof modules and the modules they use have no RECURSIVE operator.

## 3. Modules

In all of them a definition `D_X` is `D` with a mistake `X` in it, of the kind
a change of the code could bring in. Nothing uses these; they serve to check
that the properties notice the mistake (`PROJECT.json`, "mutants").

### Assessment

One action is one transaction, or one remote run. `pc[c]` says where the
handler of request `c` is:

| `pc` | code | actions |
|---|---|---|
| `new` | `resolve_target`, 404/422 | ResolveTarget, RefuseTarget |
| `reserve` | purge, INSERT ... ON CONFLICT | ReserveInsert, ReserveConflict, ReserveFails |
| `select` | SELECT ... FOR UPDATE and what follows | SelectGone, RefuseMismatch, Replay, TakeOver, RefuseBusy, ReserveFails |
| `run` | `run_remote`, `_findings_from_run` | RunRemote, RunFails |
| `persist` | the four writes and the COMMIT | Persist, PersistRollsBack |
| `release` | the `except` of `create_assessment` | Release, ReleaseFails |

Decisions a reader should know:

- INSERT and SELECT FOR UPDATE of one `reserve` transaction are two steps,
  because under READ COMMITTED another transaction may commit in between. A
  comparison with `now()` uses the start of the transaction (`now[c]`).
- The purge is part of the transaction: kept when it commits, undone when a
  409 or 422 is raised inside it.
- The call of `reserve` (`endpoints.py:329`) stands before the handler's `try`
  (333), so no error of it leads to a release. A database error before the
  COMMIT leaves nothing (`ReserveFails`). If the COMMIT is applied and its
  acknowledgement lost, the handler ends with a 500 and the key stays in
  progress: `ReserveInsert` and `TakeOver` go on to `run` or to `lost`, and
  `lost`, `stuck` (the release failed) and `dead` (crashed) are the ends that
  leave a key behind (`LeftBehind`). Where the transaction only purges
  (`SelectGone`, `Replay`), the lost acknowledgement is a 500 after the purge.
- The fingerprint is the request (`ask`: endpoint and optional ip). A key is a
  pair of principal and header. A call's identity stands for the public id it
  draws. The older `/endpoints/{id}/assess` is a call without key and ip.
- `persist` takes `assessed_at` before its transaction, so a charge may be
  dated any time since the call started to run.
- What follows the COMMIT in `persist` (the envelope) can raise into the same
  `except` as a failed transaction: Persist may go on to `release`.
- The domain event is kept by what it refers to; payloads, control results
  and messages are left out.
- `closed` and `origin` are history variables.
- `Crash` ends all handlers at once, since there is one process. `Tick` lets
  time pass, subject to `MaxHold`, how long a handler lives after the start of
  its reservation: the remote leg has a timeout, the rest of a handler none,
  so the runs look at both a bounded and an unbounded (`MaxHold > MaxClock`)
  handler.

`KeyLedger` is the promise: keys are free, reserved or answered; charging and
answering are one step; answers stay for the validity. `ImplementsLedger`
checks that `Assessment` implements it, forgetting leases and handlers.

### DemoIdentities and DemoPublication

`DemoIdentities` models `get_or_assign_alias` and its sibling for hosts:
lookup, listing of the names in use, and one INSERT with COMMIT per candidate.
`Perishable` tells the families apart: a host's alias is deleted with its
endpoint and the id never returns; a container's alias stays and the container
may run again. `DemoPublication` composes it into the handlers: containers are
listed once at the start, hosts are read one by one; aliases commit one at a
time; the findings of scan and redaction are one nondeterministic verdict
`clean`; the snapshot's id is drawn at INSERT and the row is visible at COMMIT;
revocation picks its row, then marks it, and marks it again after waiting for
a concurrent one. The label or address range that makes an asset one of the
lab is the constant `Demo`.

### LeadIntake

One action is one access to the limiter's dictionary, since the threads share
it under the interpreter lock and nothing else; the size test and the listing
for the sweep are each one access too. `pc[r]` follows `_check_rate_limit`
(`read`, `pop`, `count`, `size`, `sweep`, `write`), the handler (`store`) and
the background task (`notify`, `record`). A body that is no LeadRequest is
refused before all of it and does not count against the limit; an empty name
or company, a malformed e-mail or a field too long is refused after it
(`Refuse`). A request with the honeypot field filled in is `ignored`: it is
told "received" like any other, and nothing is done (`leads.py:135-137`). So
`StoredBeforeTold` says of a request that was told "received" that it has a
row if and only if it is not one of those, and of those that they leave no
announcement and no count of the limit. A list of times is the set of the
requests they belong to. The clock does not go backwards and `now` is read
with the first access. `alone` remembers which checks overlapped with no
other: `LimitHolds` and `SweptWhenAlone` speak of those, because each of two
that overlap writes back the list it has read, and the code accepts that
(`leads.py:29-37`). `OnlyRacesFail` says that the unguarded reads of the sweep
(`leads.py:56`, `60`) fail in such overlaps only. Slack may have received a
post that timed out; `delivered` counts. A crash empties the dictionary and
loses the background tasks, as restarting the process does.
`EveryStepAdvances` states termination as a measure that every step of a
request lowers, so it assumes no fairness.

### AdminAccounts, EndpointRegistry and Inventory

`AdminAccounts` has the steps of set-up, login and logout; a handler's `pc`
separates the count of admins from the insertion. A password is known to the
person who chose it and cookies cannot be forged. `EndpointRegistry` composes
them with the guarded routes: a request is taken up only with a session, and
`BulkCreated`, `BulkRejected` and `BulkBreaks` are one row of a bulk call that
commits, is rolled back, or loses the connection. INSERT and COMMIT of a row
are one step because a second INSERT of the key waits for the first to end.
The remote scan and the insertion of its results are two steps, with deletions
in between. Labels, tags and confidence are left out; the listing is read-only.
`Inventory` keeps ids and hosts only: ids are drawn once, hosts belong to an
endpoint that exists.

`MeteredRegistry` joins the two halves: handlers of `Assessment`, over
endpoints that change by steps of `Inventory`, with the cascade to summaries.
`Assessment` itself has no registration: all its endpoints are there at first.
An id that is yet to be drawn and an endpoint without discovery results are
both refused, and this is how `MeteredRegistry` shows the registry to the
handlers. It is not a run of its own; `RegistryServesAssessments` proves that
it implements `Assessment`, and `ImplementsInventory` that `EndpointRegistry`
implements `Inventory`.

### Benchmarks, Compliance and Reporting

`Benchmarks` is one benchmark document, as documents are independent of each
other: `versions` in the order of their ids, items and controls as upserted
rows. A `Number` is the publisher's version, which two files may share (the
same version read again). `Bootstraps` are the ingesters that run the
bootstrap, the others are requests of admins; `boot` tells its attempt to
normalise from the ingestion it falls back to. `normalize` looks the latest
version up and reads its items in two SELECTs (`ReadLatest`, `ReadItems`), the second of which sees what
was committed since the first: the version may have been read again, and need
not be the latest any more. The service call and the upserts follow.
`Compliance` is pure: `split_findings`, `compliance_pct`, `ssh_state`,
`classify_domain` and the figures of the executive, technical and consolidated
reports, without layout, sorting by level or the cut after the first rows of a
table; the keyword tables and the tables of host-only and sshd-dependent
controls are constants. The lists the code splits findings into are sets of
positions, the pooled findings of a batch are pairs of an asset and a position,
and the stable sort of assets is the order `Precedes`; this is what makes the
module one that can be proved about. `Reporting` composes both: an assessment joins the
results of the remote service (external: one result per check, in order) with
controls by one lookup each, while ingestion goes on, and reports are made of
what ended, together with other assets in the same post.

`Percent` is 100 in the code. What `PercentTellsTheTruth` says of 0 and of
`Percent` holds below `2 * Percent` checks, an assumption of the module:
with 200 checks one pass would round to 0, and there are 199
(`routes/assess.py:107`). `TitlesOf` gives no title to two places of `Checks`;
this is a property of the assessment service's table, which is not part of the
repository. Of the other assets in a post, which the browser sends and the
server takes as they are, `OthersAssumption` says that their findings are those
of an assessment (`Outcome`) and that their names differ. The second is up to
the client, which is not part of the repository: the code counts two assets of
one name once among the affected domains (`reports.py:472-475`) and twice
everywhere else.

## 4. Runs

Time is in ticks; only the order of Lease, Validity and MaxHold matters.
`CHECK_DEADLOCK FALSE` everywhere: a run ends when its calls and its clock are
used up, and a server without requests is idle, not deadlocked.

| run | instance | shows |
|---|---|---|
| `stalled` | 3 calls, 1 key, handlers may stall for ever | TypeOK, LedgersAgree, ChargedOncePerReservation, ChargedStaysReplayable, CompletedMeansCharged, NoOrphanReservation |
| `window` | 3 calls, 1 key, MaxHold = Lease, clock within the validity | OneRunPerReservation, OneRunPerKey, ReplayIsOfTheSameRequest, OnlyHolderCompletes |
| `settles` | 2 calls, 2 keys, fair handlers | ReservationSettles, ImplementsLedger |
| `billing` | 2 calls without keys, 2 endpoints, 2 hosts, one endpoint a single address | ChargedHostBelongs, BillNeverShrinks, BillIsFinal |
| `containers` | 3 concurrent calls, 2 containers, a pool of one name | TypeOK, StableAlias, DistinctAlias, PoolFirst |
| `hosts` | 2 concurrent calls, lists of up to 2 hosts, one not of the lab | StableAlias, PublishedAsAsked, EveryCallEnds |
| `intake` | 3 requests, 2 addresses, limits of one, 2 attempts | TypeOK, LimitHolds, OnlyRacesFail, StoredBeforeTold, RowTellsTheTruth, SweptWhenAlone, EveryStepAdvances |
| `console` | 2 handlers, 2 people, 2 names, 1 address and 1 that does not parse, 2 ids, 2 scans | TypeOK, OnlyAdminsWrite, BulkAnswersTrue, NewestScanShown, SetupClosesForGood, ImplementsInventory |
| `reporting` | an admin and the bootstrap ingest, 1 assessment after the other, 3 files of 2 versions, 3 checks | TypeOK, VersionsArriveWhole, ReportsAgree, PercentTellsTheTruth, LookupsGoForward |
| `purged_lease`, `fallback`, `revoke` | | the disagreements of section 6 that a run shows |

Bounds. Three calls on one key are an owner, one that takes over and one that
comes after; the interesting orders need no fourth. `Lease = 1` and a clock of
3 allow insertion, takeover, the end of the validity and one tick more. Two
endpoints and two hosts make overlapping ranges possible. Two containers and
one pool name make both the pool and the numbered name contended; a third
call repeats or competes after two already did. `MaxClock`, `MaxAssets` and
`Together` bound the runs and stand for nothing in the code. `Pool = 0` in
`fallback` stands for a pool whose names are all given out, and
`Together = 1` in `fallback` and `revoke` shows that no concurrency is needed.
In `intake` a window, a limit, a ceiling and a clock of one let a request be
refused, expire, be swept and be overtaken; three requests are one that
sweeps, one that is swept and one that counts; `MaxLeads = 1` bounds the leads
that are announced, which do not touch each other. In `console` a list of two
rows (a bad one before a good one, or the same twice) and one that is too long
meet another handler; two ids are enough for one that is deleted and one that
replaces it. In `reporting` an admin meets the bootstrap,
which runs the same functions and goes on after a failure, so a second admin
adds nothing. There are two extractions; a newer version and this one read
again, both between the two SELECTs of one normalisation, would take three and
are covered by the theorems. The second file is the first version read again
with another wording and an item less, the third a version that numbers the
same controls differently; the assessed target is of every kind, beside one
that failed, one without sshd and one that was not all assessed; one control is
host-only, one depends on sshd, and
`Percent = 2` with three checks is as near to the bound of the rounding as
199 checks are to 100. Statuses other than PASS and FAIL occur among the other
assets of the post.
Symmetry is used only in runs of invariants and action properties, never for
liveness; where calls are permuted no definition chooses among them.

Fairness. Weak fairness of `Handle(c)` for each call: handlers are threads of
a running server, remote calls have timeouts, row locks are held only by
transactions of handlers that go on. Arrivals, discovery, deletions, crashes
and the clock are owed nothing. A crash ends the calls it hits, so
`ReservationSettles` excuses a key while a handler of that very reservation
died, could not release, or was not told that it had reserved; its lease is
what frees it then.

## 5. Theorems

All hold for any sets of calls, keys, endpoints, hosts, requests, people and
assets (the latter finite), any network, any files of a benchmark, and any
natural bounds. The assumptions are the named ASSUMEs of the modules; a
hypothesis beyond them is part of the theorem.

| theorem | states | argument |
|---|---|---|
| `TypeCorrect` | `Spec => []TypeOK` | `Base`: types, a live handler has a request and a host, a completed row a body |
| `ChargedOnce` | `Spec => []ChargedOncePerReservation` | `Metered`: a reservation's identity is the call that inserted it; that call inserts once; once closed under it, no row in progress has it |
| `ChargedStays` | `Spec => []ChargedStaysReplayable` | the same invariant: rows are completed only by Persist and leave that state only by the purge |
| `OneRun` | `MaxHold <= Lease => (Spec => []OneRunPerReservation)` | `Exclusive`: a holder's `now` is not after its row's renewal, so when a lease has lapsed its holder is gone |
| `ThreeLedgersAgree` | `Spec => []LedgersAgree` | `Books`: only Persist writes the ledgers, all three, once for each call |
| `OnlyOwnHostsCharged` | `Spec => []ChargedHostBelongs` | `Books`: the host a live handler settled on was discovered for its endpoint, unless that is gone for good |
| `BillsNeverShrink` | `Spec => BillNeverShrinks` | charges are only added |
| `BillsAreFinal` | `Spec => BillIsFinal` | `Timely`: a live handler started within MaxHold, so what it charges is dated later |
| `NoOrphan` | `Spec => []NoOrphanReservation` | a handler leaves a key in progress by persisting or releasing it, or is on record as one that crashed, could not release, or lost the acknowledgement of the COMMIT that gave it the key; a takeover keeps the reservation and puts its own handler behind it |
| `AnswersWereCharged` | `Spec => []CompletedMeansCharged` | a row is completed in the step that charges, and charges stay |
| `HandlersImplementLedger` | `Spec => ImplementsLedger` | step simulation under `Books`; no assumption on time, so it covers handlers that outlive their lease |
| `OneRunOfAKey`, `HolderCloses`, `ReplaysAnswerTheRequest` | `MaxHold <= Lease => (Spec /\ []KeysOutliveHandlers => []P)` for `OneRunPerKey`, `OnlyHolderCompletes`, `ReplayIsOfTheSameRequest` | `Asked` and `Owned`: a holder's row is there, under its reservation and with its request |
| `AliasIsStable` | `Spec => []StableAlias` | `Inv`: what a call named is in the table, or its owner is gone for good |
| `AliasIsDistinct` | `~Perishable => (Spec => []DistinctAlias)` | the same, with the table one-to-one and permanent |
| `DemoShowsWhatWasAsked` | `Spec => []PublishedAsAsked` | `Publications`: what a call has named, followed by what it has to name, is what it listed |
| `DemoTypeCorrect` | `Spec => []TypeOK` of `DemoPublication` | `Typed` |
| `DemoPoolFirst` | `~Perishable => (Spec => PoolFirst)` | `PoolTried`: a pool name a call no longer tries is in use, and stays so; `NamesBounded` |
| `IntakeTypeCorrect` | `Spec => []TypeOK` of `LeadIntake` | types, with `Announced`: a request that still posts has attempts left |
| `IntakeStoresFirst` | `Spec => []StoredBeforeTold` | `NoTrace`: before the insertion a request was told nothing and has no row, attempt or delivery; `Announced`: one that posts was told; `Uncounted`: one with the honeypot field filled in never came to the limiter |
| `IntakeRowIsTrue` | `Spec => []RowTellsTheTruth` | `Announced` and `Delivered`: until it is recorded the row is as inserted; the task gets to record after a delivery, after the last attempt, or without any |
| `LimiterCounts` | `Spec => []LimitHolds` | `Count`: a request admitted without overlap stays in its address's list, or in the list a check has read, until it is out of the window |
| `LimiterSweeps` | `Spec => []SweptWhenAlone` | `Sweeps`: what a sweep without overlap has still to visit holds all that is to be removed |
| `LimiterFailsByRace` | `Spec => []OnlyRacesFail` | the same: without overlap what was listed is still there |
| `RequestsAdvance` | `IsFiniteSet(Addresses) => (Spec => EveryStepAdvances)` | the sweep's list is finite and only gets shorter |
| `RegistryTypeCorrect` | `Spec => []TypeOK` of `EndpointRegistry` | `Types`: the label of a handler tells the kind of its request |
| `RegisteredByAdmins` | `Spec => []OnlyAdminsWrite` | `Sessions`: a cookie about to be given is its owner's, a request behind the session check is an account's, and accounts are never changed |
| `SetupWorksOnce` | `Spec => SetupClosesForGood` | `Sessions`: who comes in after the first account is never on the way to the insertion |
| `BulkReportsAreTrue` | `Spec => []BulkAnswersTrue` | `Reports`: only a handler in or just out of a bulk request has results |
| `NewestIsShown` | `Spec => []NewestScanShown` | `Rounds`: drawn ids are never drawn again, so a finding of an endpoint that exists is in the table; bounded times have a greatest |
| `RegistryImplementsInventory` | `Spec => ImplementsInventory` | step simulation under `Rounds`: a finding's endpoint exists, so a deletion that finds no endpoint changes nothing |
| `VersionsAreWhole` | `Spec => []VersionsArriveWhole` | `Ingestion`: a normalisation has read all items of one version, and rows keep their version whatever is stored meanwhile |
| `ReportingTypeCorrect` | `Spec => []TypeOK` of `Reporting` | `Ingestion` and `Assessments`: one finding for each check joined |
| `LookupsNeverGoBack` | `RereadsKeepTitles => (Spec => LookupsGoForward)` | `Ingestion`: in the place of each control an upsert leaves one of the same version and id |
| `RoundingTellsTheTruth` | `Rounded(p, n)` for `p <= n < 2 * Percent` is 0, or `Percent`, only for `p = 0`, or `p = n` | arithmetic of quotient and remainder; the core of `PercentTellsTheTruth` |
| `OutcomesAreSound` | `Spec => []Outcomes`: findings are of one target and one probe, no two of one title | `Joined`: each finding carries a title of the check in its place |
| `PercentIsTrue` | `Spec => []PercentTellsTheTruth` | for one asset `RoundingTellsTheTruth`, for the ranking `Places`: in a strict order each place is taken once |
| `ReportsClose` | `Spec => []ReportsAgree` | positions are split into disjoint parts whose sizes add up (`SizesAdd`, `ClassSizes`); an asset has at most one evaluated finding of a title, by `OutcomesAreSound` |
| `CallsEnd` | `Spec => HandlersAdvance` of `Assessment` | `StepsLeft`: a handler takes at most two laps of `reserve`, a run, `persist` and a release |
| `DemoCallsEnd` | `Spec => HandlersAdvance` of `DemoPublication` | `StepsLeft`, with `FewLeft`: an asset has at most `Pool + 1` candidates, and each is tried once |
| `IngestionsEnd` | `Spec => IngestersAdvance` of `Reporting` | `StepsLeft`: the bootstrap goes from its first attempt to the second and not back |
| `RegistryServesAssessments` | `Targets \subseteq Nat => (MeteredSpec => Spec)` | step simulation under `Joint`: an id that is deleted, or drawn in vain, is an endpoint deleted; `Books` gives that summaries are of endpoints that exist |

The properties themselves are not inductive: `ChargedOncePerReservation`, for
instance, says nothing of a row in progress under an origin already closed,
from which the next step would charge again. `Metered`, `Exclusive` and `Inv`
rule such states out, and so do the invariants named in the table. Most of
them were checked with TLC on the instances of section 4 first.

The hypotheses. `MaxHold <= Lease` says that handlers end within their lease;
only their remote leg has a timeout, so it is a condition on the deployment.
`KeysOutliveHandlers` says that no handler's key reaches the end of its
validity while it runs. A takeover keeps the age of a row, so the code does not
see to it, and run `purged_lease` shows what happens otherwise; all but a
takeover in the last minutes of the 24 hours satisfies it. `~Perishable` names
the containers: a host's name may be given again after a deletion, so
`DistinctAlias` is false for hosts, and a name of the pool may be free again
when a numbered one is given. `IsFiniteSet(Addresses)` bounds the dictionary
that a sweep lists. `RereadsKeepTitles` says that a publisher's version that is
read again leaves each id with the check it belonged to. The code upserts what
the file lists, so a file that moved an id to another recommendation would
retitle a control, and the check it belonged to would fall back to an older
version or to none.

`Targets \subseteq Nat` says that ids are numbers, as SERIALs are.

`Counting` supplies what the provers' library lacks: least elements, sizes of
disjoint sets and of classes, and the places of a strict order.

`HandlersAdvance` and `IngestersAdvance` are definitions of the proof modules:
a measure in the naturals that every step of a call lowers and that no other
step, crashes and the clock included, raises. They need no fairness and no
bound on the number of calls. To `EveryCallEnds` is missing that a call that
has not ended can always step (ENABLED) and that the server lets it.

Only model-checked:

- liveness (`ReservationSettles`, `EveryCallEnds`), as fairness and ENABLED
  are out of the prover's reach; `CallsEnd` and `DemoCallsEnd` prove the part
  of it that is a safety property;
- the disagreements of section 6, which are counterexamples.

## 6. Where the code and its text disagree

- `purged_lease`: a reservation taken over just before its 24 hours end is
  purged under its new owner, and a third call starts a second run, against
  `assessment_runs.py:6-7`. `window` shows that it cannot happen earlier.
- `fallback`: after a host with a numbered alias is deleted, the next number
  may be in use and naming fails for good, the line that `demo_identities.py:110`
  calls unreachable.
- `revoke`: after two publications a revocation makes the older snapshot
  public again, where the tests of `test_demo_snapshot.py` expect nothing.

Met while modelling, and not shown by a run of their own:

- A handler that outlives its lease (possible: only its remote leg has a
  timeout) completes the reservation another call took over, although
  `storage/postgres.py:690` says it would find it assumed. Nothing is charged
  twice (`ChargedOnce`); the second owner fails. `window` shows that it needs
  such a handler (`OnlyHolderCompletes`).
- An error after the COMMIT, or a lost acknowledgement of it, reports failure
  for a charged assessment, against `routes/endpoints.py:341-342`. A retry
  with the key replays it (`ChargedStays`).
- A reservation whose COMMIT was applied but not acknowledged, or whose
  release failed, keeps its key in progress until the lease ends, although
  nothing was persisted, against `assessment_runs.py:12` ("Falha sem efeito
  persistido libera a chave"). `NoOrphanReservation` and `ReservationSettles`
  say that these and a crash are the only ways.
- Two set-ups that overlap both create an admin, if they choose different
  names, although `routes/auth.py:3-4` says set-up works only once;
  `sql/schema/00005_admin_users.sql` names the premise, that nobody writes
  concurrently. `SetupClosesForGood` is what holds: one that starts after an
  admin exists creates none.
- Requests of one address whose checks overlap may exceed the limit, and the
  sweep may raise a KeyError (a 500 before anything is stored) when another
  thread removed an address it had listed.
- `reports.py:435` and `storage/postgres.py:204-211` treat ids as unstable
  between documents and versions, while the tables of `finding_taxonomy.py`
  are keyed by document and id without the version: they have to be reviewed
  with each version that is ingested.
- A version that is read again has its new hash and path at once
  (`upsert_document_version.sql:9-14`) but its old controls until it is
  normalised, and findings quote both (`routes/assess.py:68-70`).

## 7. Not modelled

The texts of the leak scan (a pure search; its verdict is nondeterministic in
`DemoPublication`), PDF layout, narratives and cut-offs of tables, the
newsletter's single INSERT, the public demo run (a filter), appliance
information, configuration, the migration history, deployment scripts and wire
formats keep no state a checker could say more of than a test.
