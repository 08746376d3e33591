----------------------------- MODULE Benchmarks -----------------------------
(***************************************************************************)
(* The ingestion of a benchmark: extraction stores a version of it with    *)
(* its items, normalisation makes controls of the items of the latest      *)
(* version, and assessments look controls up by title.  The bootstrap of   *)
(* the appliance runs the same functions while admins may call them too.   *)
(* Benchmarks are independent of each other; this is one of them.          *)
(*                                                                         *)
(* One step is one transaction, or one statement where others may commit   *)
(* between two of them.                                                    *)
(* An extraction holds the row of its source until it commits, and two     *)
(* normalisations of one version meet at its first item, so each writes as *)
(* if alone.                                                               *)
(***************************************************************************)
EXTENDS Naturals, Sequences

CONSTANTS
    Ingesters,    \* threads with an ingestion request, and the bootstrap
    Bootstraps,   \* those of them that are runs of bootstrap-documents.sh
    Artifacts,    \* files of the benchmark, as the ingestion service reads them
    NoFile,
    Numbers,      \* versions, as their publisher numbers them
    Number,       \* whose version an artifact is
    ExternalIds,
    Titles,
    Title,        \* the title of each recommendation of an artifact, by its id there
    MaxExtracts   \* bound of the checked runs, not of the code

ASSUME BenchmarkAssumption ==
    /\ Bootstraps \subseteq Ingesters
    /\ NoFile \notin Artifacts
    /\ Number \in [Artifacts -> Numbers]
    /\ \A a \in Artifacts : DOMAIN Title[a] \subseteq ExternalIds
    /\ \A a \in Artifacts : \A i \in DOMAIN Title[a] : Title[a][i] \in Titles
    /\ MaxExtracts \in Nat

VARIABLES
    versions,  \* document_versions in the order of their ids: [number, artifact]
    items,     \* extracted_items: [version, id, from]
    controls,  \* controls: [version, id, from]; from stands for the other columns
    pc,        \* where each ingester is
    boot,      \* where the bootstrap is: "try" or "ingest"; else "no"
    file,      \* what the extraction of an ingester brought
    latest,    \* the version that its normalisation found to be the latest
    input,     \* the items that its normalisation works on
    extracts   \* how many extractions were asked of the service

benchmarkVars == <<versions, items, controls, pc, boot, file, latest, input, extracts>>

NoVersion == 0

Rows == [version : Nat, id : ExternalIds, from : Artifacts]
TitleOf(row) == Title[row.from][row.id]

BenchmarkInit ==
    /\ versions = <<>> /\ items = {} /\ controls = {}
    /\ pc = [w \in Ingesters |-> "idle"]
    /\ boot = [w \in Ingesters |-> "no"]
    /\ file = [w \in Ingesters |-> NoFile]
    /\ latest = [w \in Ingesters |-> NoVersion]
    /\ input = [w \in Ingesters |-> {}]
    /\ extracts = 0

\* An ingester forgets what it read when it moves on.
Move(w, label, b) ==
    /\ pc' = [pc EXCEPT ![w] = label]
    /\ boot' = [boot EXCEPT ![w] = b]
    /\ file' = [file EXCEPT ![w] = NoFile]
    /\ latest' = [latest EXCEPT ![w] = NoVersion]
    /\ input' = [input EXCEPT ![w] = {}]

\* The bootstrap, which first tries to normalise; of an admin,
\* POST /ingest/extract or /ingest/normalize.
Request(w) ==
    /\ pc[w] = "idle"
    /\ IF w \in Bootstraps
       THEN Move(w, "normalize", "try")
       ELSE Move(w, "extract", "no") \/ Move(w, "normalize", "no")
    /\ UNCHANGED <<versions, items, controls, extracts>>

\* A request ends in an error.  The bootstrap goes on to fetch and extract
\* what it could not normalise; a later failure is only logged.
Fail(w) == IF boot[w] = "try" THEN Move(w, "extract", "ingest") ELSE Move(w, "idle", "no")

\* fetch or extract of the service failed, or extract brought an artifact.
Extract(w) ==
    /\ pc[w] = "extract"
    /\ \/ Fail(w) /\ UNCHANGED extracts
       \/ /\ extracts < MaxExtracts /\ extracts' = extracts + 1
          /\ \E a \in Artifacts : file' = [file EXCEPT ![w] = a]
          /\ pc' = [pc EXCEPT ![w] = "store"]
          /\ UNCHANGED <<boot, latest, input>>
    /\ UNCHANGED <<versions, items, controls>>

\* UNIQUE (document_id, publisher_version).
Known_Nothing(n) == {}
Known(n) == {v \in DOMAIN versions : versions[v].number = n}

\* INSERT ... ON CONFLICT (document_version_id, external_id) DO UPDATE, of each row.
Upsert_Replace(table, rows) == {r \in table : \A n \in rows : r.version # n.version} \cup rows
Upsert(table, rows) ==
    {r \in table : \A n \in rows : <<r.version, r.id>> # <<n.version, n.id>>} \cup rows

ItemsOf(a, v) == {[version |-> v, id |-> i, from |-> a] : i \in DOMAIN Title[a]}

\* The upserts of extract: a publisher's version keeps its row and id, and
\* items that are no longer listed stay.
Store(w) ==
    /\ pc[w] = "store"
    /\ LET a == file[w]
           row == [number |-> Number[a], artifact |-> a]
       IN  \/ /\ Known(Number[a]) = {}
              /\ versions' = Append(versions, row)
              /\ items' = Upsert(items, ItemsOf(a, Len(versions) + 1))
           \/ \E v \in Known(Number[a]) :
              /\ versions' = [versions EXCEPT ![v] = row]
              /\ items' = Upsert(items, ItemsOf(a, v))
    /\ IF boot[w] = "ingest" THEN Move(w, "normalize", "ingest") ELSE Move(w, "idle", "no")
    /\ UNCHANGED <<controls, extracts>>

\* normalize, its first SELECT: 422 without a version.
ReadLatest(w) ==
    /\ pc[w] = "normalize"
    /\ IF versions = <<>>
       THEN Fail(w)
       ELSE /\ latest' = [latest EXCEPT ![w] = Len(versions)]
            /\ pc' = [pc EXCEPT ![w] = "read"]
            /\ UNCHANGED <<boot, file, input>>
    /\ UNCHANGED <<versions, items, controls, extracts>>

\* Its second SELECT, which sees what was committed since the first: by now the
\* version may have been read again, and need not be the latest any more.
ReadItems(w) ==
    /\ pc[w] = "read"
    /\ input' = [input EXCEPT ![w] = {r \in items : r.version = latest[w]}]
    /\ latest' = [latest EXCEPT ![w] = NoVersion]
    /\ pc' = [pc EXCEPT ![w] = "write"]
    /\ UNCHANGED <<versions, items, controls, boot, file, extracts>>

Controls_OfTheLatest(w) == {[r EXCEPT !.version = Len(versions)] : r \in input[w]}

\* The service makes one control of each item that was read.
Controls(w) == input[w]

\* The controls are upserted and committed.
WriteControls(w) ==
    /\ pc[w] = "write"
    /\ controls' = Upsert(controls, Controls(w))
    /\ Move(w, "idle", "no")
    /\ UNCHANGED <<versions, items, extracts>>

\* The service answers with an error, or not in time.
NormalizeFails(w) ==
    /\ pc[w] = "write"
    /\ Fail(w)
    /\ UNCHANGED <<versions, items, controls, extracts>>

Ingest(w) ==
    \/ Request(w) \/ Extract(w) \/ Store(w)
    \/ ReadLatest(w) \/ ReadItems(w) \/ WriteControls(w) \/ NormalizeFails(w)

\* The process dies; what was not committed is gone.
IngestersDie ==
    /\ pc' = [w \in Ingesters |-> "idle"]
    /\ boot' = [w \in Ingesters |-> "no"]
    /\ file' = [w \in Ingesters |-> NoFile]
    /\ latest' = [w \in Ingesters |-> NoVersion]
    /\ input' = [w \in Ingesters |-> {}]
    /\ UNCHANGED <<versions, items, controls, extracts>>

-----------------------------------------------------------------------------
(* Looking controls up *)

Hits(titles) == {c \in controls : TitleOf(c) \in titles}

\* select_control_by_title: one of the latest version that has any of the titles.
ControlsByTitle(titles) ==
    LET hits == Hits(titles)
    IN  {c \in hits : \A d \in hits : d.version <= c.version}

-----------------------------------------------------------------------------
(* Properties *)

\* A control belongs to the version its item was extracted for, although
\* a newer version may have been stored, and this one read again, between any
\* two of what normalize does: look the version up, read its items, call the
\* service, write.
OfTheirVersion == \A c \in controls : Number[c.from] = versions[c.version].number

\* Nobody sees a part of a version's controls: normalize commits them together.
Whole ==
    \A c \in controls : \E a \in Artifacts :
        /\ Number[a] = versions[c.version].number
        /\ \A i \in DOMAIN Title[a] : \E d \in controls : d.version = c.version /\ d.id = i

VersionsArriveWhole == OfTheirVersion /\ Whole
=============================================================================
