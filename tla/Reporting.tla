------------------------------ MODULE Reporting ------------------------------
(***************************************************************************)
(* Assessments whose results are joined with the controls of a benchmark   *)
(* while the benchmark is ingested, and the reports made of their findings.*)
(*                                                                         *)
(* The remote assessment is outside: it answers with one result for each   *)
(* of its checks, in a fixed order, and all it says of sshd comes from one *)
(* probe of the target.  Each control is looked up by a statement of its   *)
(* own, so a join may see the benchmark before and after an ingestion.     *)
(* A report works on what the browser posts: findings of assessments that  *)
(* ended, and of other targets.                                            *)
(***************************************************************************)
EXTENDS Benchmarks, Compliance

CONSTANTS
    Assessors,    \* threads that assess a target, one after the other
    Checks,       \* checks of the assessment service, in their order
    TitlesOf,     \* the titles a check's control may have
    SshChecks,    \* the checks whose evidence comes from the probe of sshd
    LevelsOf,     \* the levels of the profiles that a title's control is for
    Statuses,
    Others        \* sequences of other assets, posted with an assessed one

\* What an assessment comes to: findings of one target, by one probe of its
\* sshd and each of another title, fewer than twice Percent.
Outcome(list) ==
    /\ list \in Seq(ToSet(list)) /\ Len(list) < 2 * Percent
    /\ \A k \in DOMAIN list : list[k].title \in Titles
    /\ \A j, k \in DOMAIN list :
          /\ list[j].title = list[k].title => j = k
          /\ list[j].target_type = list[k].target_type
          /\ "none" \in {list[j].evidence, list[k].evidence} \/ list[j].evidence = list[k].evidence

\* Below twice Percent, no percentage is rounded to its end.
ASSUME ReportingAssumption ==
    /\ Checks \in Seq(ToSet(Checks))
    /\ Len(Checks) > 0 /\ Len(Checks) < 2 * Percent
    /\ \A t \in Titles : LevelsOf[t] \subseteq Nat
    /\ \A j, k \in DOMAIN Checks : j # k => TitlesOf[Checks[j]] \cap TitlesOf[Checks[k]] = {}

\* The other assets have names of their own, and the findings of an assessment.
ASSUME OthersAssumption ==
    \A others \in Others :
        /\ others \in Seq(ToSet(others))
        /\ \A k \in DOMAIN others : others[k].name \notin Assessors /\ Outcome(others[k].findings)
        /\ \A j, k \in DOMAIN others : others[j].name = others[k].name => j = k

VARIABLES
    assessed,   \* of each assessor: "idle", "joining", "success" or "error"
    target,     \* what it assesses: [type, sshd], as the probe tells
    findings    \* the findings so far

assessVars == <<assessed, target, findings>>
vars == <<benchmarkVars, assessVars>>

Targets == [type : {"docker_container", "linux_host"}, sshd : {"absent", "unknown", "present"}]

Init ==
    /\ BenchmarkInit
    /\ assessed = [s \in Assessors |-> "idle"]
    /\ target \in [Assessors -> {[type |-> "docker_container", sshd |-> "present"]}]
    /\ findings = [s \in Assessors |-> <<>>]

\* The assessment service is asked: an error, or results.
Assess(s) ==
    /\ assessed[s] # "joining"
    /\ \/ /\ \E t \in Targets : target' = [target EXCEPT ![s] = t]
          /\ assessed' = [assessed EXCEPT ![s] = "joining"]
       \/ /\ UNCHANGED target
          /\ assessed' = [assessed EXCEPT ![s] = "error"]
    /\ findings' = [findings EXCEPT ![s] = <<>>]
    /\ UNCHANGED benchmarkVars

Check(s) == Checks[Len(findings[s]) + 1]

\* As _findings_from_run fills it in.
FindingOf(s, control, status) ==
    [id |-> control.id,
     title |-> TitleOf(control),
     level |-> ControlLevel(LevelsOf[TitleOf(control)]),
     status |-> status,
     evidence |-> IF Check(s) \in SshChecks THEN target[s].sshd ELSE "none",
     target_type |-> target[s].type]

\* By the id its title had in the version that was stored first.
ControlsOf_ById(s) ==
    LET first == Title[versions[1].artifact]
        hits == {c \in controls : c.id \in DOMAIN first /\ first[c.id] \in TitlesOf[Check(s)]}
    IN  {c \in hits : \A d \in hits : d.version <= c.version}

\* select_control_by_title with the check's titles.
ControlsOf(s) == ControlsByTitle(TitlesOf[Check(s)])

\* One result is joined with its control.
Join(s) ==
    /\ assessed[s] = "joining"
    /\ \E control \in ControlsOf(s), status \in Statuses :
          findings' = [findings EXCEPT ![s] = Append(@, FindingOf(s, control, status))]
    /\ assessed' = [assessed EXCEPT ![s] = IF Len(findings'[s]) = Len(Checks) THEN "success" ELSE @]
    /\ UNCHANGED <<benchmarkVars, target>>

\* 422: a result without a control ends the assessment.
JoinFails(s) ==
    /\ assessed[s] = "joining"
    /\ ControlsOf(s) = {}
    /\ assessed' = [assessed EXCEPT ![s] = "error"]
    /\ findings' = [findings EXCEPT ![s] = <<>>]
    /\ UNCHANGED <<benchmarkVars, target>>

\* The process ends and starts again; what ended is in the browser.
Crash ==
    /\ IngestersDie
    /\ assessed' = [s \in Assessors |-> IF assessed[s] = "joining" THEN "error" ELSE assessed[s]]
    /\ findings' = [s \in Assessors |-> IF assessed[s] = "joining" THEN <<>> ELSE findings[s]]
    /\ UNCHANGED target

Next ==
    \/ \E w \in Ingesters : Ingest(w) /\ UNCHANGED assessVars
    \/ \E s \in Assessors : Assess(s) \/ Join(s) \/ JoinFails(s)
    \/ Crash

Spec == Init /\ [][Next]_vars

-----------------------------------------------------------------------------
(* Properties *)

Findings ==
    [id : ExternalIds, title : Titles, level : Nat \cup {None}, status : Statuses,
     evidence : {"none", "absent", "unknown", "present"},
     target_type : {"docker_container", "linux_host"}]

\* Every variable has its type; a finished assessment has a finding for each check.
TypeOK ==
    /\ versions \in Seq([number : Numbers, artifact : Artifacts])
    /\ \A i, j \in DOMAIN versions : versions[i].number = versions[j].number => i = j
    /\ items \subseteq Rows /\ controls \subseteq Rows
    /\ \A w \in Ingesters : /\ pc[w] \in {"idle", "extract", "store", "normalize", "read", "write"}
                            /\ file[w] \in Artifacts <=> pc[w] = "store"
                            /\ latest[w] \in Nat
                            /\ latest[w] \in DOMAIN versions <=> pc[w] = "read"
                            /\ input[w] \subseteq Rows
    /\ boot \in [Ingesters -> {"no", "try", "ingest"}]
    /\ extracts \in 0..MaxExtracts
    /\ target \in [Assessors -> Targets]
    /\ \A s \in Assessors :
          /\ findings[s] \in Seq(Findings)
          /\ assessed[s] = "success" <=> Len(findings[s]) = Len(Checks)

NewestOf(check) ==
    LET hits == ControlsByTitle(TitlesOf[check])
    IN  IF hits = {} THEN 0 ELSE (CHOOSE c \in hits : TRUE).version

\* Once a check's control can be looked up it can be from then on, and never
\* in an older version than before: extraction and normalisation remove
\* nothing, also when they overlap, fail or are cut off by a crash.  A join
\* that goes on meanwhile is as good as one that starts later.  (This is so for
\* files of one version that give no id the title of another check, as those of
\* the checked run: an upsert by id would retitle the control of such an id.)
LookupsGoForward ==
    [][controls' = controls \/ \A c \in ToSet(Checks) : NewestOf(c)' >= NewestOf(c)]_vars

Mine(s) == [name |-> s, status |-> assessed[s], findings |-> findings[s]]
Batches ==
    {others \o <<Mine(s)>> : others \in Others, s \in {r \in Assessors : assessed[r] \in {"success", "error"}}}

\* What a reader takes to be left out: by the target's own kind and probe.
LeftOut(f, asset) ==
    \/ f.target_type = "docker_container" /\ f.id \in HostOnly
    \/ f.id \in SshdDependent /\ \E g \in ToSet(asset.findings) : g.evidence = "absent"
With(asset, statuses) ==
    {f \in ToSet(asset.findings) : f.status \in statuses /\ ~LeftOut(f, asset)}
On(batch, title, statuses) ==
    {k \in Succeeded(batch) : \E f \in With(batch[k], statuses) : f.title = title}

\* Most Prevalent Failures counts targets: those where the control fails,
\* among those where it was judged.
PrevalenceCountsTargets(batch) ==
    Prevalence(batch) =
        {[title |-> t,
          affected |-> Cardinality(On(batch, t, {"FAIL"})),
          applicable |-> Cardinality(On(batch, t, {"PASS", "FAIL"}))] :
            t \in {u \in Titles : On(batch, u, {"FAIL"}) # {}}}

\* The executive and the technical report of a target list each failure once,
\* and each finding in one section.
TargetReportsClose(list) ==
    LET failed == Summary(list).failed
        risks == RiskSummary(list)
        rows == DomainRows(list)
        sections == Sections(list)
    IN  /\ failed = risks.level1 + risks.level2 + risks.other
        /\ failed = Cardinality(UNION {{r.domain} \X (1..r.fail) : r \in rows})
        /\ [d \in {r.domain : r \in {q \in rows : q.fail > 0}} |->
                (CHOOSE r \in rows : r.domain = d).fail] = KeyRisks(list)
        /\ \A k \in DOMAIN list : Cardinality({i \in DOMAIN sections : k \in sections[i]}) = 1
        /\ failed = Cardinality(sections[1])

\* The overview of a batch is the sum of its targets' summaries.
OverviewCloses(batch) ==
    LET o == Overview(batch)
    IN  /\ o.selected = o.assessed + o.failed
        /\ o.processed = o.applicable + o.not_applicable + o.not_assessed
        /\ AffectedDomains(batch) =
              LET failing(k) == {r.domain : r \in {q \in DomainRows(batch[k].findings) : q.fail > 0}}
                  cases == UNION {{k} \X failing(k) : k \in Succeeded(batch)}
              IN  [d \in {c[2] : c \in cases} |-> Cardinality({c \in cases : c[2] = d})]

\* What the three reports and the stored summary say of the same findings
\* agrees.  The table of prevalent failures adds up findings, which counts
\* targets as long as no assessment has two findings of one control, although
\* a new numbering of the benchmark may arrive between two lookups.
ReportsAgree ==
    /\ \A s \in Assessors : assessed[s] = "success" => TargetReportsClose(findings[s])
    /\ \A b \in Batches : PrevalenceCountsTargets(b) /\ OverviewCloses(b)

\* 0: all that was judged failed; 1: some; 2: none; 3: nothing was judged.
Standing(asset) ==
    IF With(asset, {"PASS", "FAIL"}) = {} THEN 3
    ELSE IF With(asset, {"PASS"}) = {} THEN 0
    ELSE IF With(asset, {"FAIL"}) = {} THEN 2 ELSE 1

\* "0% asserts everything evaluated failed", 100% that nothing did, and no
\* percentage that nothing was judged, in spite of the rounding; and the
\* consolidated report has the worst first, those without a percentage last.
PercentTellsTheTruth ==
    \A b \in Batches :
        LET list == Ranking(b)
            asset(k) == b[list[k].at]
        IN  /\ {list[k].at : k \in DOMAIN list} = Succeeded(b)
            /\ \A k \in DOMAIN list :
                  /\ Standing(asset(k)) = 3 <=> list[k].pct = None
                  /\ Standing(asset(k)) = 0 <=> list[k].pct = 0
                  /\ Standing(asset(k)) = 2 <=> list[k].pct = Percent
            /\ \A j, k \in DOMAIN list : j < k => Standing(asset(j)) <= Standing(asset(k))

=============================================================================
