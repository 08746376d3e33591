SPECIFICATION Spec
CONSTANTS
    Ingesters = {admin, boot}
    Bootstraps = {boot}
    Artifacts <- SomeArtifacts
    NoFile = "no file"
    Numbers = {1, 2}
    Number <- SomeNumber
    ExternalIds = {"i1", "i2", "i3"}
    Titles <- SomeTitles
    Title <- SomeTitle
    MaxExtracts = 2
    HostOnly = {"i1"}
    SshdDependent = {"i3"}
    Domains <- SomeDomains
    Keywords <- SomeKeywords
    Percent = 2
    None = None
    Assessors = {s1}
    Checks <- SomeChecks
    TitlesOf <- SomeTitlesOf
    SshChecks = {"root login"}
    LevelsOf <- SomeLevels
    Statuses = {"PASS", "FAIL"}
    Others <- SomeOthers
INVARIANTS
    TypeOK
    VersionsArriveWhole
    ReportsAgree
    PercentTellsTheTruth
PROPERTIES
    LookupsGoForward
CHECK_DEADLOCK FALSE
