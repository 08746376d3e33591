---------------------------- MODULE MCReporting ----------------------------
(* Small instances of Reporting for TLC. *)
EXTENDS Reporting

\* A file of the first version, the same version read again with another
\* wording and an item less, and a second version with another numbering.
SomeArtifacts == {"first", "reread", "second"}
SomeNumber == [a \in SomeArtifacts |-> IF a = "second" THEN 2 ELSE 1]
SomeTitles == {"grub", "Grub", "password", "sshd"}
SomeTitle ==
    [first |-> [i1 |-> "grub", i2 |-> "password", i3 |-> "sshd"],
     reread |-> [i1 |-> "Grub", i3 |-> "sshd"],
     second |-> [i1 |-> "password", i2 |-> "grub", i3 |-> "sshd"]]

SomeChecks == <<"bootloader", "pam", "root login">>
SomeTitlesOf ==
    [c \in ToSet(SomeChecks) |->
        CASE c = "bootloader" -> {"grub", "Grub"} [] c = "pam" -> {"password"} [] c = "root login" -> {"sshd"}]
SomeLevels == [t \in SomeTitles |-> IF t = "password" THEN {1, 2} ELSE IF t = "sshd" THEN {1} ELSE {}]

SomeDomains == <<"SSH", "PAM", "Boot">>
SomeKeywords ==
    [t \in SomeTitles |-> IF t = "sshd" THEN {"SSH", "PAM"} ELSE IF t = "password" THEN {"PAM"} ELSE {}]

F(i, t, s, e, k) ==
    [id |-> i, title |-> t, level |-> ControlLevel(SomeLevels[t]), status |-> s, evidence |-> e, target_type |-> k]
Asset(n, fs) == [name |-> n, status |-> "success", findings |-> fs]

\* Next to the assessed target, which may be of any kind and fail everything:
\* one that failed, a container without sshd, and one of which not all was
\* assessed.
SomeOthers ==
    {<<[name |-> "gone", status |-> "error", findings |-> <<>>],
       Asset("bare", <<F("i3", "sshd", "FAIL", "absent", "docker_container")>>),
       Asset("mixed", <<F("i3", "sshd", "PASS", "unknown", "docker_container"),
                        F("i1", "grub", "ERROR", "none", "docker_container"),
                        F("i2", "password", "FAIL", "none", "docker_container")>>)>>}
=============================================================================
