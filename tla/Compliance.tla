----------------------------- MODULE Compliance -----------------------------
(***************************************************************************)
(* What the findings of an assessment amount to: which of them apply to    *)
(* the target, the compliance percentage, and the executive, technical and *)
(* consolidated reports, without their layout.                             *)
(*                                                                         *)
(* A finding is a record [id, title, levels, status, evidence,             *)
(* target_type].  Of its evidence only what it says of sshd is kept:       *)
(* "absent", "unknown", "present" or, for most controls, "none".  The lists *)
(* that the code splits the findings into are sets of positions here.      *)
(***************************************************************************)
EXTENDS Integers, FiniteSets, SequencesExt

CONSTANTS
    HostOnly,        \* HOST_ONLY_CONTROLS: external ids
    SshdDependent,   \* SSHD_DEPENDENT_CONTROLS: external ids
    Domains,         \* the names of DOMAINS, in order
    Keywords,        \* the domains with a keyword in each title
    Percent,         \* 100 in the code
    None

ASSUME ComplianceAssumption ==
    /\ Percent \in Nat \ {0}
    /\ None \notin Int

Least(numbers) == CHOOSE n \in numbers : \A m \in numbers : n <= m

-----------------------------------------------------------------------------
(* finding_taxonomy *)

\* ssh_state: the first finding that tells decides.
SshState(findings) ==
    LET telling == {k \in DOMAIN findings : findings[k].evidence # "none"}
    IN  IF telling = {} THEN "present" ELSE findings[Least(telling)].evidence

\* classify_domain: the first domain with a keyword in the title.
ClassifyDomain(title) ==
    LET matching == {k \in DOMAIN Domains : Domains[k] \in Keywords[title]}
    IN  IF matching = {} THEN "Other" ELSE Domains[Least(matching)]

\* _control_level: the lowest level of the profiles a control is for.
ControlLevel(levels) == IF levels = {} THEN None ELSE Least(levels)

\* classify_environment: by the id alone, whatever the version of the benchmark.
ClassifyEnvironment(f) == IF f.id \in HostOnly THEN "host_only" ELSE "container_relevant"

-----------------------------------------------------------------------------
(* split_findings and compliance_pct *)

TargetType(findings) == IF findings = <<>> THEN "docker_container" ELSE findings[1].target_type

\* Of a target of a type, and what the probe said of its sshd.
Excluded_UnknownToo(f, type, sshd) ==
    \/ type = "docker_container" /\ ClassifyEnvironment(f) = "host_only"
    \/ sshd # "present" /\ f.id \in SshdDependent
Excluded(f, type, sshd) ==
    \/ type = "docker_container" /\ ClassifyEnvironment(f) = "host_only"
    \/ sshd = "absent" /\ f.id \in SshdDependent

Result(f, type, sshd) ==
    IF f.status \notin {"PASS", "FAIL"} THEN "not_assessed"
    ELSE IF Excluded(f, type, sshd) THEN "not_applicable"
    ELSE IF f.status = "FAIL" THEN "fail" ELSE "pass"

Split(findings, result) ==
    LET type == TargetType(findings)
        sshd == SshState(findings)
    IN  {k \in DOMAIN findings : Result(findings[k], type, sshd) = result}
Count(findings, result) == Cardinality(Split(findings, result))
Evaluated(findings) == Split(findings, "pass") \cup Split(findings, "fail")

\* round(): to the nearest, and to the even one of two that are as near.
Rounded_Down(p, n) == (Percent * p) \div n
Rounded(p, n) ==
    LET q == (Percent * p) \div n
        r == (Percent * p) % n
    IN  IF 2 * r > n \/ (2 * r = n /\ q % 2 = 1) THEN q + 1 ELSE q

\* None when nothing that applies was evaluated.
CompliancePct(findings) ==
    LET p == Count(findings, "pass")
        n == p + Count(findings, "fail")
    IN  IF n = 0 THEN None ELSE Rounded(p, n)

\* _classify: what is stored and what the answer says of each finding.
Summary(findings) ==
    [passed |-> Count(findings, "pass"), failed |-> Count(findings, "fail"),
     not_assessed |-> Count(findings, "not_assessed"),
     not_applicable |-> Count(findings, "not_applicable"),
     compliance_pct |-> CompliancePct(findings)]

-----------------------------------------------------------------------------
(* The executive and the technical report of one target *)

RiskSummary(findings) ==
    LET At(levels) == {k \in Split(findings, "fail") : findings[k].level \in levels}
    IN  [level1 |-> Cardinality(At({1})), level2 |-> Cardinality(At({2})),
         other |-> Cardinality(Split(findings, "fail") \ At({1, 2})),
         not_applicable |-> Count(findings, "not_applicable")]

DomainsOf(findings, positions) == {ClassifyDomain(findings[k].title) : k \in positions}
InDomain(findings, positions, d) ==
    Cardinality({k \in positions : ClassifyDomain(findings[k].title) = d})

\* Key Risks of the executive report, before they are cut after the first ones.
KeyRisks(findings) ==
    LET failed == Split(findings, "fail")
    IN  [d \in DomainsOf(findings, failed) |-> InDomain(findings, failed, d)]

\* The table of domains: those with a finding that was assessed.
DomainRows(findings) ==
    LET pass == Split(findings, "pass")
        fail == Split(findings, "fail")
        na   == Split(findings, "not_applicable")
        row(d) == [domain |-> d, pass |-> InDomain(findings, pass, d),
                   fail |-> InDomain(findings, fail, d), na |-> InDomain(findings, na, d)]
    IN  {r \in {row(d) : d \in DomainsOf(findings, DOMAIN findings)} : r.pass + r.fail + r.na # 0}

\* The sections of the technical report that list controls.
Sections(findings) ==
    <<Split(findings, "fail"), Split(findings, "not_assessed"),
      Split(findings, "not_applicable"), Split(findings, "pass")>>

-----------------------------------------------------------------------------
(* The consolidated report of a batch: a sequence of [name, status, findings] *)

Succeeded(batch) == {k \in DOMAIN batch : batch[k].status = "success"}

\* The findings of a part of each asset, all together: pairs of an asset and a
\* position.
Pooled(batch, part) == UNION {{k} \X part[k] : k \in Succeeded(batch)}

\* by_title: the evaluated findings of all assets.
AllEvaluated(batch) == Pooled(batch, [k \in DOMAIN batch |-> Evaluated(batch[k].findings)])
FindingAt(batch, pair) == batch[pair[1]].findings[pair[2]]

Overview(batch) ==
    LET Total(part) == Cardinality(Pooled(batch, part))
        Parts(result) == [k \in DOMAIN batch |-> Split(batch[k].findings, result)]
    IN  [selected |-> Len(batch),
         assessed |-> Cardinality(Succeeded(batch)),
         failed |-> Cardinality(DOMAIN batch \ Succeeded(batch)),
         processed |-> Total([k \in DOMAIN batch |-> DOMAIN batch[k].findings]),
         applicable |-> Cardinality(AllEvaluated(batch)),
         not_applicable |-> Total(Parts("not_applicable")),
         not_assessed |-> Total(Parts("not_assessed"))]

Worse_NothingIsZero(p, q) == p # q /\ q # None /\ (p = None \/ p < q)

\* The sort key of asset_pct: worst first, without a percentage last.
Worse(p, q) == p # None /\ (q = None \/ p < q)

\* Of two rows, which the sort leaves first: it is stable.
Precedes(r, s) == Worse(r.pct, s.pct) \/ (~Worse(s.pct, r.pct) /\ r.at < s.at)

AssetRows(batch) ==
    {[at |-> k, pct |-> CompliancePct(batch[k].findings)] : k \in Succeeded(batch)}

\* Compliance by Asset: in the place of a row, as many precede it.
Ranking(batch) ==
    LET rows == AssetRows(batch)
    IN  [n \in 1..Cardinality(rows) |->
            CHOOSE r \in rows : Cardinality({s \in rows : Precedes(s, r)}) = n - 1]

PrevalenceRow(batch, evaluated, title) ==
    LET group == {p \in evaluated : FindingAt(batch, p).title = title}
    IN  [title |-> title,
         affected |-> Cardinality({p \in group : FindingAt(batch, p).status = "FAIL"}),
         applicable |-> Cardinality(group)]

\* Most Prevalent Failures, before the table is cut after its first rows.
Prevalence(batch) ==
    LET evaluated == AllEvaluated(batch)
        titles == {FindingAt(batch, p).title : p \in evaluated}
    IN  {r \in {PrevalenceRow(batch, evaluated, t) : t \in titles} : r.affected > 0}

\* Affected Domains: how many assets have a failure in each.
AffectedDomains(batch) ==
    LET failed(k) == DomainsOf(batch[k].findings, Split(batch[k].findings, "fail"))
        hits == UNION {failed(k) \X {batch[k].name} : k \in Succeeded(batch)}
    IN  [d \in {h[1] : h \in hits} |-> Cardinality({h \in hits : h[1] = d})]
=============================================================================
