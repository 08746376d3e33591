--------------------------- MODULE ReportingProofs ---------------------------
(***************************************************************************)
(* What Benchmarks and Reporting promise for any ingesters, artifacts,     *)
(* versions, titles and checks: a version's controls are its own and       *)
(* arrive together, look-ups never go back, the reports of the same        *)
(* findings agree, and a percentage of 0 or 100 says what it seems to say. *)
(***************************************************************************)
EXTENDS Reporting, Counting, SequenceTheorems

Version == [number : Numbers, artifact : Artifacts]
VersionTable ==
    /\ versions \in Seq(Version)
    /\ \A v \in DOMAIN versions : versions[v].number = Number[versions[v].artifact]
    /\ \A i, j \in DOMAIN versions : versions[i].number = versions[j].number => i = j

\* A row that was read from a file of its version.
Sound(r) ==
    /\ r \in Rows /\ r.version \in DOMAIN versions
    /\ r.id \in DOMAIN Title[r.from] /\ Number[r.from] = versions[r.version].number

\* All that some file of a version lists is among the rows.
Covers(rows, v) ==
    \E a \in Artifacts :
        /\ Number[a] = versions[v].number
        /\ \A i \in DOMAIN Title[a] : \E d \in rows : d.version = v /\ d.id = i

Extracted ==
    /\ \A r \in items : Sound(r)
    /\ \A v \in DOMAIN versions : Covers(items, v)
Normalized ==
    /\ \A c \in controls : Sound(c)
    /\ \A c \in controls : Covers(controls, c.version)

\* What a normalisation has read is all of one version, whatever is stored since.
ReadWhole ==
    \A w \in Ingesters :
        /\ \A r \in input[w] : Sound(r)
        /\ pc[w] = "read" => latest[w] \in DOMAIN versions
        /\ pc[w] = "write" => \E v \in DOMAIN versions :
              (\A r \in input[w] : r.version = v) /\ Covers(input[w], v)

Labels ==
    /\ pc \in [Ingesters -> {"idle", "extract", "store", "normalize", "read", "write"}]
    /\ boot \in [Ingesters -> {"no", "try", "ingest"}]
    /\ file \in [Ingesters -> Artifacts \cup {NoFile}]
    /\ \A w \in Ingesters : file[w] \in Artifacts <=> pc[w] = "store"
    /\ latest \in [Ingesters -> Nat]
    /\ \A w \in Ingesters : pc[w] # "read" => latest[w] = NoVersion
    /\ input \in [Ingesters -> SUBSET Rows]
    /\ extracts \in 0..MaxExtracts

Ingestion == VersionTable /\ Extracted /\ Normalized /\ ReadWhole /\ Labels

-----------------------------------------------------------------------------
(* Operators of the model                                                  *)

\* An upsert adds its rows and replaces rows of the same version and id only.
LEMMA UpsertFacts ==
  ASSUME NEW table, NEW rows
  PROVE  /\ rows \subseteq Upsert(table, rows)
         /\ \A r \in Upsert(table, rows) : r \in table \/ r \in rows
         /\ \A t \in table : \E r \in Upsert(table, rows) :
               r.version = t.version /\ r.id = t.id /\ (r = t \/ r \in rows)
  <1>1. \A t \in table : t \in Upsert(table, rows) \/ \E n \in rows : t.version = n.version /\ t.id = n.id
    BY DEF Upsert
  <1>2. rows \subseteq Upsert(table, rows) /\ \A r \in Upsert(table, rows) : r \in table \/ r \in rows
    BY DEF Upsert
  <1>3. QED
    BY <1>1, <1>2

\* What covers a version goes on to after an upsert.
LEMMA UpsertCovers ==
  ASSUME NEW table, NEW rows, NEW v, Covers(table, v) \/ Covers(rows, v)
  PROVE  Covers(Upsert(table, rows), v)
  <1>1. PICK a \in Artifacts :
          /\ Number[a] = versions[v].number
          /\ \A i \in DOMAIN Title[a] : \E d \in table \cup rows : d.version = v /\ d.id = i
    BY DEF Covers
  <1>2. \A d \in table \cup rows : \E u \in Upsert(table, rows) : u.version = d.version /\ u.id = d.id
    BY UpsertFacts
  <1>3. \A i \in DOMAIN Title[a] : \E u \in Upsert(table, rows) : u.version = v /\ u.id = i
    BY <1>1, <1>2
  <1>4. QED
    BY <1>1, <1>3 DEF Covers

-----------------------------------------------------------------------------
(* The ingestion                                                           *)

LEMMA InitIngestion == BenchmarkInit => Ingestion
  <1> SUFFICES ASSUME BenchmarkInit PROVE Ingestion
    OBVIOUS
  <1> USE BenchmarkAssumption DEF BenchmarkInit, NoVersion
  <1>1. versions = <<>> /\ DOMAIN versions = {} /\ versions \in Seq(Version)
    OBVIOUS
  <1>2. VersionTable /\ Extracted /\ Normalized
    BY <1>1 DEF VersionTable, Extracted, Normalized
  <1>3. ReadWhole /\ Labels
    BY DEF ReadWhole, Labels
  <1>4. QED
    BY <1>2, <1>3 DEF Ingestion

\* Steps that store nothing in the tables: what an ingester has read afterwards
\* is nothing, or all items of a version.
LEMMA TablesStay ==
  ASSUME Ingestion, UNCHANGED <<versions, items, controls>>, Labels',
         \A w \in Ingesters :
            \/ input'[w] = {} /\ pc'[w] # "write"
            \/ input'[w] = input[w] /\ (pc'[w] = "write" => pc[w] = "write")
            \/ latest[w] \in DOMAIN versions /\ input'[w] = {r \in items : r.version = latest[w]},
         \A w \in Ingesters : pc'[w] = "read" => latest'[w] \in DOMAIN versions
  PROVE  Ingestion'
  <1>1. VersionTable'
    BY DEF Ingestion, VersionTable
  <1>2. \A r : Sound(r)' = Sound(r)
    BY DEF Sound
  <1>3. Extracted' /\ Normalized'
    BY <1>2 DEF Ingestion, Extracted, Normalized, Covers
  <1>4. ReadWhole'
    <2> SUFFICES ASSUME NEW w \in Ingesters
                 PROVE  /\ \A r \in input'[w] : Sound(r)
                        /\ pc'[w] = "write" => \E v \in DOMAIN versions :
                              (\A r \in input'[w] : r.version = v) /\ Covers(input'[w], v)
      BY <1>2 DEF ReadWhole, Covers
    <2>1. CASE input'[w] = {} /\ pc'[w] # "write"
      BY <2>1
    <2>2. CASE input'[w] = input[w] /\ (pc'[w] = "write" => pc[w] = "write")
      BY <2>2 DEF Ingestion, ReadWhole
    <2>3. CASE latest[w] \in DOMAIN versions /\ input'[w] = {r \in items : r.version = latest[w]}
      <3>1. Covers(items, latest[w]) /\ \A r \in input'[w] : Sound(r)
        BY <2>3 DEF Ingestion, Extracted
      <3>2. Covers(input'[w], latest[w])
        BY <2>3, <3>1 DEF Covers
      <3>3. QED
        BY <2>3, <3>1, <3>2
    <2>4. QED
      BY <2>1, <2>2, <2>3
  <1>5. QED
    BY <1>1, <1>3, <1>4 DEF Ingestion

\* An extraction adds a version, or reads again one that is there.
LEMMA StoredVersions ==
  ASSUME Ingestion, NEW w \in Ingesters, Store(w)
  PROVE  \E v \in Nat \ {0} :
            /\ VersionTable'
            /\ v \in DOMAIN versions' /\ versions'[v].number = Number[file[w]]
            /\ items' = Upsert(items, ItemsOf(file[w], v))
            /\ DOMAIN versions \subseteq DOMAIN versions'
            /\ \A i \in DOMAIN versions' : i = v \/ i \in DOMAIN versions
            /\ \A i \in DOMAIN versions : versions'[i].number = versions[i].number
  <1> DEFINE a == file[w]
             row == [number |-> Number[a], artifact |-> a]
  <1>1. a \in Artifacts
    BY DEF Ingestion, Labels, Store
  <1>2. row \in Version /\ row.number = Number[a] /\ row.artifact = a
    BY <1>1, BenchmarkAssumption DEF Version, BenchmarkAssumption
  <1>3. \/ /\ Known(Number[a]) = {}
           /\ versions' = Append(versions, row)
           /\ items' = Upsert(items, ItemsOf(a, Len(versions) + 1))
        \/ \E v \in Known(Number[a]) : /\ versions' = [versions EXCEPT ![v] = row]
                                       /\ items' = Upsert(items, ItemsOf(a, v))
    BY DEF Store
  <1>4. /\ versions \in Seq(Version) /\ Len(versions) \in Nat /\ DOMAIN versions = 1..Len(versions)
        /\ \A v \in DOMAIN versions : versions[v].number = Number[versions[v].artifact]
        /\ \A i, j \in DOMAIN versions : versions[i].number = versions[j].number => i = j
    BY DEF Ingestion, VersionTable
  <1> HIDE DEF row
  <1>5. CASE Known(Number[a]) = {} /\ versions' = Append(versions, row)
               /\ items' = Upsert(items, ItemsOf(a, Len(versions) + 1))
    <2> DEFINE v == Len(versions) + 1
    <2>1. /\ versions' \in Seq(Version) /\ DOMAIN versions' = 1..v
          /\ \A i \in 1..Len(versions) : versions'[i] = versions[i]
          /\ versions'[v] = row
      <3>1. /\ versions' \in Seq(Version) /\ Len(versions') = v
            /\ \A i \in 1..Len(versions) : versions'[i] = versions[i]
            /\ versions'[v] = row
        BY <1>2, <1>4, <1>5, AppendProperties
      <3>2. QED
        BY <3>1
    <2>2. v \in Nat \ {0} /\ v \in DOMAIN versions' /\ versions'[v].number = Number[a]
          /\ DOMAIN versions \subseteq DOMAIN versions'
          /\ \A i \in DOMAIN versions' : i = v \/ i \in DOMAIN versions
      BY <1>2, <1>4, <2>1
    <2>3. \A i \in DOMAIN versions : versions[i].number # Number[a]
      BY <1>5 DEF Known
    <2>4. \A i \in DOMAIN versions : versions'[i] = versions[i]
      BY <1>4, <2>1
    <2> HIDE DEF v
    <2>5. VersionTable'
      <3>1. \A i \in DOMAIN versions' : versions'[i].number = Number[versions'[i].artifact]
        BY <1>2, <1>4, <2>1, <2>2, <2>4
      <3>2. \A i, j \in DOMAIN versions' : versions'[i].number = versions'[j].number => i = j
        BY <1>4, <2>2, <2>3, <2>4
      <3>3. QED
        BY <2>1, <3>1, <3>2 DEF VersionTable
    <2>6. QED
      BY <1>5, <2>2, <2>4, <2>5 DEF v
  <1>6. ASSUME NEW v \in Known(Number[a]), versions' = [versions EXCEPT ![v] = row],
               items' = Upsert(items, ItemsOf(a, v))
        PROVE  /\ VersionTable'
               /\ v \in Nat \ {0} /\ v \in DOMAIN versions' /\ versions'[v].number = Number[a]
               /\ DOMAIN versions' = DOMAIN versions
               /\ \A i \in DOMAIN versions : versions'[i].number = versions[i].number
    <2>1. v \in 1..Len(versions) /\ versions[v].number = Number[a]
      BY <1>4 DEF Known
    <2>2. versions' \in Seq(Version) /\ DOMAIN versions' = DOMAIN versions
          /\ \A i \in DOMAIN versions : versions'[i] = IF i = v THEN row ELSE versions[i]
      <3>1. versions \in [1..Len(versions) -> Version]
        BY <1>4
      <3>2. versions' \in [1..Len(versions) -> Version]
        BY <1>2, <1>6, <2>1, <3>1
      <3>3. QED
        BY <1>4, <1>6, <3>1, <3>2
    <2>3. \A i \in DOMAIN versions : versions'[i].number = versions[i].number
      BY <1>2, <2>1, <2>2
    <2>4. VersionTable'
      <3>1. \A i \in DOMAIN versions' : versions'[i].number = Number[versions'[i].artifact]
        BY <1>2, <1>4, <2>2
      <3>2. QED
        BY <1>4, <2>2, <2>3, <3>1 DEF VersionTable
    <2>5. QED
      BY <1>2, <1>4, <2>1, <2>2, <2>3, <2>4
  <1>7. QED
    BY <1>3, <1>5, <1>6

LEMMA StoreStep ==
  ASSUME Ingestion, NEW w \in Ingesters, Store(w)
  PROVE  Ingestion'
  <1> DEFINE a == file[w]
  <1>1. PICK v \in Nat \ {0} :
            /\ VersionTable'
            /\ v \in DOMAIN versions' /\ versions'[v].number = Number[a]
            /\ items' = Upsert(items, ItemsOf(a, v))
            /\ DOMAIN versions \subseteq DOMAIN versions'
            /\ \A i \in DOMAIN versions' : i = v \/ i \in DOMAIN versions
            /\ \A i \in DOMAIN versions : versions'[i].number = versions[i].number
    BY StoredVersions
  <1>2. a \in Artifacts /\ controls' = controls
    BY DEF Ingestion, Labels, Store
  <1> HIDE DEF a
  <1>3. \A r : Sound(r) => Sound(r)'
    BY <1>1 DEF Sound
  <1>4. \A rows : \A i \in DOMAIN versions : Covers(rows, i) => \E b \in Artifacts :
            /\ Number[b] = versions'[i].number
            /\ \A k \in DOMAIN Title[b] : \E d \in rows : d.version = i /\ d.id = k
    BY <1>1 DEF Covers
  <1>5. Extracted'
    <2>1. ASSUME NEW r \in items' PROVE Sound(r)'
      <3>1. r \in items \/ r \in ItemsOf(a, v)
        BY <1>1, UpsertFacts
      <3>2. CASE r \in items
        BY <1>3, <3>2 DEF Ingestion, Extracted
      <3>3. CASE r \in ItemsOf(a, v)
        <4>1. PICK i \in DOMAIN Title[a] : r = [version |-> v, id |-> i, from |-> a]
          BY <3>3 DEF ItemsOf
        <4>2. i \in ExternalIds
          BY <1>2, BenchmarkAssumption DEF BenchmarkAssumption
        <4>3. r.version = v /\ r.id = i /\ r.from = a /\ r \in Rows
          BY <1>2, <4>1, <4>2 DEF Rows
        <4>4. QED
          BY <1>1, <4>3 DEF Sound
      <3>4. QED
        BY <3>1, <3>2, <3>3
    <2>2. ASSUME NEW i \in DOMAIN versions' PROVE Covers(items, i)'
      <3>1. CASE i \in DOMAIN versions
        <4>1. Covers(items', i)
          BY <1>1, <3>1, UpsertCovers DEF Ingestion, Extracted
        <4>2. QED
          BY <1>4, <3>1, <4>1 DEF Covers
      <3>2. CASE i = v
        <4>1. ItemsOf(a, v) \subseteq items'
          BY <1>1, UpsertFacts
        <4>2. \A k \in DOMAIN Title[a] : [version |-> v, id |-> k, from |-> a] \in items'
          BY <4>1 DEF ItemsOf
        <4>3. \A k \in DOMAIN Title[a] : \E d \in items' : d.version = v /\ d.id = k
          BY <4>2
        <4>4. QED
          BY <1>1, <1>2, <3>2, <4>3 DEF Covers
      <3>3. QED
        BY <1>1, <3>1, <3>2
    <2>3. QED
      BY <2>1, <2>2 DEF Extracted
  <1>6. Normalized'
    <2>1. ASSUME NEW c \in controls PROVE Covers(controls, c.version)'
      <3>1. c.version \in DOMAIN versions /\ Covers(controls, c.version)
        BY DEF Ingestion, Normalized, Sound
      <3>2. QED
        BY <1>1, <1>2, <3>1 DEF Covers
    <2>2. \A c \in controls : Sound(c)'
      BY <1>3 DEF Ingestion, Normalized
    <2>3. QED
      BY <1>2, <2>1, <2>2 DEF Normalized
  <1>7. ReadWhole'
    <2>1. \A x \in Ingesters : input'[x] = {} \/ (input'[x] = input[x] /\ pc'[x] = pc[x])
      BY DEF Ingestion, Labels, Store, Move
    <2>2. pc'[w] \notin {"read", "write"}
      BY DEF Ingestion, Labels, Store, Move
    <2>3. \A x \in Ingesters \ {w} : input'[x] = input[x] /\ latest'[x] = latest[x] /\ pc'[x] = pc[x]
      BY DEF Ingestion, Labels, Store, Move
    <2>4. \A x \in Ingesters : \A r \in input'[x] : Sound(r)'
      BY <1>3, <2>1 DEF Ingestion, ReadWhole
    <2>5. ASSUME NEW x \in Ingesters, pc'[x] = "write"
          PROVE  \E i \in DOMAIN versions' : /\ \A r \in input'[x] : r.version = i
                                             /\ Covers(input[x], i)'
      <3>1. x # w /\ input'[x] = input[x] /\ pc[x] = "write"
        BY <2>2, <2>3, <2>5
      <3>2. PICK i \in DOMAIN versions : (\A r \in input[x] : r.version = i) /\ Covers(input[x], i)
        BY <3>1 DEF Ingestion, ReadWhole
      <3>3. Covers(input[x], i)'
        BY <1>4, <3>1, <3>2 DEF Covers
      <3>4. QED
        BY <1>1, <3>1, <3>2, <3>3
    <2>6. \A x \in Ingesters : pc'[x] = "read" => latest'[x] \in DOMAIN versions'
      BY <1>1, <2>2, <2>3 DEF Ingestion, ReadWhole
    <2>7. QED
      BY <2>4, <2>5, <2>6 DEF ReadWhole
  <1>8. Labels'
    <2> USE BenchmarkAssumption DEF BenchmarkAssumption
    <2>1. Labels /\ pc[w] = "store" /\ extracts' = extracts
          /\ \E l \in {"idle", "normalize"}, b \in {"no", "ingest"} : Move(w, l, b)
      BY DEF Ingestion, Store
    <2>2. PICK l \in {"idle", "normalize"}, b \in {"no", "ingest"} : Move(w, l, b)
      BY <2>1
    <2>3. QED
      BY <2>1, <2>2 DEF Labels, Move, NoVersion
  <1>9. QED
    BY <1>1, <1>5, <1>6, <1>7, <1>8 DEF Ingestion

\* The controls of a version that was read whole are added together.
LEMMA WriteStep ==
  ASSUME Ingestion, NEW w \in Ingesters, WriteControls(w)
  PROVE  Ingestion'
  <1>1. /\ pc[w] = "write" /\ controls' = Upsert(controls, input[w])
        /\ UNCHANGED <<versions, items>>
    BY DEF WriteControls, Controls
  <1>2. \A r : Sound(r)' = Sound(r)
    BY <1>1 DEF Sound
  <1>3. VersionTable' /\ Extracted'
    BY <1>1, <1>2 DEF Ingestion, VersionTable, Extracted, Covers
  <1>4. Normalized'
    <2>1. \A c \in controls' : Sound(c)
      BY <1>1, UpsertFacts DEF Ingestion, Normalized, ReadWhole
    <2>2. ASSUME NEW c \in controls' PROVE Covers(controls', c.version)
      <3>1. CASE c \in controls
        BY <1>1, <3>1, UpsertCovers DEF Ingestion, Normalized
      <3>2. CASE c \in input[w]
        <4>1. PICK v \in DOMAIN versions : (\A r \in input[w] : r.version = v) /\ Covers(input[w], v)
          BY <1>1 DEF Ingestion, ReadWhole
        <4>2. Covers(controls', v)
          BY <1>1, <4>1, UpsertCovers
        <4>3. QED
          BY <3>2, <4>1, <4>2
      <3>3. QED
        BY <1>1, <3>1, <3>2, UpsertFacts
    <2>3. QED
      BY <1>1, <1>2, <2>1, <2>2 DEF Normalized, Covers
  <1>5. /\ \A x \in Ingesters \ {w} : input'[x] = input[x] /\ latest'[x] = latest[x] /\ pc'[x] = pc[x]
        /\ input'[w] = {} /\ pc'[w] = "idle"
    BY DEF Ingestion, Labels, WriteControls, Move
  <1>6. ReadWhole'
    <2>1. ASSUME NEW x \in Ingesters, x # w
          PROVE  /\ \A r \in input'[x] : Sound(r)'
                 /\ pc'[x] = "read" => latest'[x] \in DOMAIN versions'
                 /\ pc'[x] = "write" => \E v \in DOMAIN versions' :
                       (\A r \in input'[x] : r.version = v) /\ Covers(input[x], v)'
      BY <1>1, <1>2, <1>5, <2>1 DEF Ingestion, ReadWhole, Covers
    <2>2. QED
      BY <1>5, <2>1 DEF ReadWhole
  <1>7. Labels'
    BY BenchmarkAssumption DEF Ingestion, Labels, WriteControls, Move, NoVersion, BenchmarkAssumption
  <1>8. QED
    BY <1>3, <1>4, <1>6, <1>7 DEF Ingestion

LEMMA IngestStep ==
  ASSUME Ingestion, NEW w \in Ingesters, Ingest(w)
  PROVE  Ingestion'
  <1> USE BenchmarkAssumption DEF BenchmarkAssumption, Labels, Move, NoVersion
  <1>0. Labels /\ \A x \in Ingesters : pc[x] = "read" => latest[x] \in DOMAIN versions
    BY DEF Ingestion, ReadWhole
  <1>1. CASE Store(w) \/ WriteControls(w)
    BY <1>1, StoreStep, WriteStep
  <1>2. CASE Request(w) \/ NormalizeFails(w)
    <2>1. /\ Labels' /\ UNCHANGED <<versions, items, controls>>
          /\ \A x \in Ingesters : \/ input'[x] = {} /\ pc'[x] # "write"
                                  \/ input'[x] = input[x] /\ pc'[x] = pc[x]
          /\ \A x \in Ingesters : pc'[x] = "read" => latest'[x] \in DOMAIN versions
      BY <1>0, <1>2 DEF Request, NormalizeFails, Fail
    <2> HIDE DEF Labels
    <2>2. QED
      BY <2>1, TablesStay
  <1>3. CASE Extract(w)
    <2>1. /\ UNCHANGED <<versions, items, controls>>
          /\ \A x \in Ingesters : \/ input'[x] = {} /\ pc'[x] # "write"
                                  \/ input'[x] = input[x] /\ (pc'[x] = "write" => pc[x] = "write")
          /\ \A x \in Ingesters : pc'[x] = "read" => latest'[x] \in DOMAIN versions
      BY <1>0, <1>3 DEF Extract, Fail
    <2>2. Labels'
      BY <1>0, <1>3 DEF Extract, Fail
    <2> HIDE DEF Labels
    <2>3. QED
      BY <2>1, <2>2, TablesStay
  <1>4. CASE ReadLatest(w)
    <2>1. Len(versions) \in Nat /\ (versions # <<>> => Len(versions) \in DOMAIN versions)
      BY DEF Ingestion, VersionTable
    <2>2. /\ UNCHANGED <<versions, items, controls>>
          /\ \A x \in Ingesters : \/ input'[x] = {} /\ pc'[x] # "write"
                                  \/ input'[x] = input[x] /\ (pc'[x] = "write" => pc[x] = "write")
      BY <1>0, <1>4 DEF ReadLatest, Fail
    <2>3. Labels' /\ \A x \in Ingesters : pc'[x] = "read" => latest'[x] \in DOMAIN versions
      <3>1. CASE versions = <<>>
        BY <1>0, <1>4, <3>1 DEF ReadLatest, Fail
      <3>2. CASE versions # <<>>
        <4>1. /\ pc[w] = "normalize"
              /\ latest' = [latest EXCEPT ![w] = Len(versions)] /\ pc' = [pc EXCEPT ![w] = "read"]
              /\ UNCHANGED <<versions, boot, file, input, extracts>>
          BY <1>4, <3>2 DEF ReadLatest
        <4>2. /\ pc'[w] = "read" /\ latest'[w] = Len(versions)
              /\ \A x \in Ingesters \ {w} : pc'[x] = pc[x] /\ latest'[x] = latest[x]
          BY <1>0, <4>1
        <4>3. /\ pc' \in [Ingesters -> {"idle", "extract", "store", "normalize", "read", "write"}]
              /\ latest' \in [Ingesters -> Nat]
          BY <1>0, <2>1, <4>1
        <4>4. \A x \in Ingesters : (file[x] \in Artifacts <=> pc[x] = "store") <=> (file'[x] \in Artifacts <=> pc'[x] = "store")
          BY <4>1, <4>2
        <4>5. QED
          BY <1>0, <2>1, <3>2, <4>1, <4>2, <4>3, <4>4
      <3>3. QED
        BY <3>1, <3>2
    <2> HIDE DEF Labels
    <2>4. QED
      BY <2>2, <2>3, TablesStay
  <1>5. CASE ReadItems(w)
    <2>1. items \subseteq Rows
      BY DEF Ingestion, Extracted, Sound
    <2>2. {r \in items : r.version = latest[w]} \in SUBSET Rows
      BY <2>1
    <2>3. /\ UNCHANGED <<versions, items, controls>>
          /\ latest[w] \in DOMAIN versions
          /\ \A x \in Ingesters \ {w} : input'[x] = input[x] /\ latest'[x] = latest[x] /\ pc'[x] = pc[x]
          /\ input'[w] = {r \in items : r.version = latest[w]} /\ pc'[w] = "write"
      BY <1>0, <1>5 DEF ReadItems
    <2>4. Labels'
      BY <1>0, <1>5, <2>2 DEF ReadItems
    <2>5. \A x \in Ingesters : pc'[x] = "read" => latest'[x] \in DOMAIN versions
      BY <1>0, <2>3
    <2> HIDE DEF Labels
    <2>6. QED
      BY <2>3, <2>4, <2>5, TablesStay
  <1>6. QED
    BY <1>1, <1>2, <1>3, <1>4, <1>5 DEF Ingest

LEMMA DieStep ==
  ASSUME Ingestion, IngestersDie
  PROVE  Ingestion'
  <1>1. Labels'
    BY BenchmarkAssumption DEF Ingestion, Labels, IngestersDie, NoVersion, BenchmarkAssumption
  <1>2. UNCHANGED <<versions, items, controls>>
        /\ \A w \in Ingesters : input'[w] = {} /\ pc'[w] \notin {"read", "write"}
    BY DEF IngestersDie
  <1>3. QED
    BY <1>1, <1>2, TablesStay

LEMMA NextIngestion == Ingestion /\ [Next]_vars => Ingestion'
  <1> SUFFICES ASSUME Ingestion, [Next]_vars PROVE Ingestion'
    OBVIOUS
  <1>1. ASSUME NEW w \in Ingesters, Ingest(w) PROVE Ingestion'
    BY <1>1, IngestStep
  <1>2. CASE Crash
    BY <1>2, DieStep DEF Crash
  <1>3. CASE UNCHANGED benchmarkVars
    BY <1>3 DEF benchmarkVars, Ingestion, VersionTable, Extracted, Normalized, ReadWhole, Labels, Sound, Covers
  <1>4. QED
    BY <1>1, <1>2, <1>3 DEF Next, vars, Assess, Join, JoinFails

LEMMA IngestionInvariance == Spec => []Ingestion
  <1>1. Init => Ingestion
    BY InitIngestion DEF Init
  <1>2. QED
    BY <1>1, NextIngestion, PTL DEF Spec

-----------------------------------------------------------------------------
(* The assessments                                                         *)

\* One finding for each check that was joined; none where none is asked for.
Assessments ==
    /\ assessed \in [Assessors -> {"idle", "joining", "success", "error"}]
    /\ target \in [Assessors -> Targets]
    /\ findings \in [Assessors -> Seq(Findings)]
    /\ \A s \in Assessors :
          /\ assessed[s] \in {"idle", "error"} => findings[s] = <<>>
          /\ assessed[s] = "joining" => Len(findings[s]) < Len(Checks)
          /\ assessed[s] = "success" => Len(findings[s]) = Len(Checks)

LEMMA LevelType ==
  ASSUME NEW levels \in SUBSET Nat
  PROVE  ControlLevel(levels) \in Nat \cup {None}
  <1>1. CASE levels = {}
    BY <1>1 DEF ControlLevel
  <1>2. CASE levels # {}
    <2>1. \E l \in levels : \A k \in levels : l <= k
      BY <1>2, LeastExists
    <2>2. ControlLevel(levels) \in levels
      BY <1>2, <2>1 DEF ControlLevel, Least
    <2>3. QED
      BY <2>2
  <1>3. QED
    BY <1>1, <1>2

LEMMA JoinStep ==
  ASSUME Ingestion, Assessments, NEW s \in Assessors, Join(s)
  PROVE  Assessments'
  <1>1. PICK control \in ControlsOf(s), status \in Statuses :
          findings' = [findings EXCEPT ![s] = Append(@, FindingOf(s, control, status))]
    BY DEF Join
  <1> DEFINE f == FindingOf(s, control, status)
  <1>2. control \in controls /\ Sound(control)
    BY DEF ControlsOf, ControlsByTitle, Hits, Ingestion, Normalized
  <1>3. control.id \in ExternalIds /\ TitleOf(control) \in Titles
    BY <1>2, BenchmarkAssumption DEF Sound, Rows, TitleOf, BenchmarkAssumption
  <1>4. ControlLevel(LevelsOf[TitleOf(control)]) \in Nat \cup {None}
    BY <1>3, LevelType, ReportingAssumption DEF ReportingAssumption
  <1>5. target[s].sshd \in {"absent", "unknown", "present"} /\ target[s].type \in {"docker_container", "linux_host"}
    BY DEF Assessments, Targets
  <1>6. f \in Findings
    BY <1>3, <1>4, <1>5 DEF FindingOf, Findings
  <1> HIDE DEF f
  <1>7. findings[s] \in Seq(Findings) /\ findings \in [Assessors -> Seq(Findings)]
    BY DEF Assessments
  <1>8. findings' = [findings EXCEPT ![s] = Append(findings[s], f)]
    BY <1>1 DEF f
  <1>9. Append(findings[s], f) \in Seq(Findings) /\ Len(Append(findings[s], f)) = Len(findings[s]) + 1
    BY <1>6, <1>7, AppendProperties
  <1>10. /\ findings'[s] = Append(findings[s], f) /\ \A x \in Assessors \ {s} : findings'[x] = findings[x]
         /\ findings' \in [Assessors -> Seq(Findings)]
    BY <1>7, <1>8, <1>9
  <1>11. /\ assessed' = [assessed EXCEPT ![s] = IF Len(findings'[s]) = Len(Checks) THEN "success" ELSE "joining"]
         /\ assessed[s] = "joining" /\ target' = target
    BY DEF Join, Assessments
  <1>12. Len(findings'[s]) = Len(findings[s]) + 1 /\ Len(findings[s]) \in Nat
         /\ Len(findings[s]) < Len(Checks) /\ Len(Checks) \in Nat
    BY <1>7, <1>9, <1>10, <1>11, ReportingAssumption DEF Assessments, ReportingAssumption
  <1>13. Len(findings'[s]) = Len(Checks) \/ Len(findings'[s]) < Len(Checks)
    BY <1>12
  <1>14. QED
    BY <1>10, <1>11, <1>13 DEF Assessments

LEMMA NextAssessments ==
  ASSUME Ingestion, Assessments, [Next]_vars
  PROVE  Assessments'
  <1>1. Len(Checks) > 0 /\ Len(Checks) \in Nat /\ <<>> \in Seq(Findings) /\ Len(<<>>) = 0
    BY ReportingAssumption DEF ReportingAssumption
  <1>2. ASSUME NEW s \in Assessors, Assess(s) PROVE Assessments'
    BY <1>1, <1>2 DEF Assess, Assessments
  <1>3. ASSUME NEW s \in Assessors, Join(s) PROVE Assessments'
    BY <1>3, JoinStep
  <1>4. ASSUME NEW s \in Assessors, JoinFails(s) PROVE Assessments'
    BY <1>1, <1>4 DEF JoinFails, Assessments
  <1>5. CASE Crash
    BY <1>1, <1>5 DEF Crash, Assessments
  <1>6. CASE UNCHANGED assessVars
    BY <1>6 DEF assessVars, Assessments
  <1>7. QED
    BY <1>2, <1>3, <1>4, <1>5, <1>6 DEF Next, vars

LEMMA AssessmentsInvariance == Spec => [](Ingestion /\ Assessments)
  <1>1. Init => Ingestion /\ Assessments
    <2>1. <<>> \in Seq(Findings)
      OBVIOUS
    <2>2. QED
      BY <2>1, InitIngestion DEF Init, Assessments, Targets
  <1>2. Ingestion /\ Assessments /\ [Next]_vars => (Ingestion /\ Assessments)'
    BY NextIngestion, NextAssessments
  <1>3. QED
    BY <1>1, <1>2, PTL DEF Spec

-----------------------------------------------------------------------------
(* Theorems                                                                *)

\* The controls of a version were read for that version, and all that a file
\* of it lists has one, however extractions, normalisations, failures and
\* crashes overlap.
THEOREM VersionsAreWhole == Spec => []VersionsArriveWhole
  <1>1. Ingestion => VersionsArriveWhole
    <2> SUFFICES ASSUME Ingestion PROVE VersionsArriveWhole
      OBVIOUS
    <2>1. OfTheirVersion
      BY DEF Ingestion, Normalized, Sound, OfTheirVersion
    <2>2. Whole
      BY DEF Ingestion, Normalized, Covers, Whole
    <2>3. QED
      BY <2>1, <2>2 DEF VersionsArriveWhole
  <1>2. QED
    BY <1>1, IngestionInvariance, PTL

\* Every variable keeps its type, a publisher's version has one row, and an
\* assessment has succeeded exactly when each of its checks has a finding.
THEOREM ReportingTypeCorrect == Spec => []TypeOK
  <1>1. Ingestion /\ Assessments => TypeOK
    <2> SUFFICES ASSUME Ingestion, Assessments PROVE TypeOK
      OBVIOUS
    <2>1. /\ versions \in Seq([number : Numbers, artifact : Artifacts])
          /\ \A i, j \in DOMAIN versions : versions[i].number = versions[j].number => i = j
      BY DEF Ingestion, VersionTable, Version
    <2>2. items \subseteq Rows /\ controls \subseteq Rows
      BY DEF Ingestion, Extracted, Normalized, Sound
    <2>0. ASSUME NEW w \in Ingesters PROVE latest[w] \in DOMAIN versions <=> pc[w] = "read"
      <3>1. 0 \notin DOMAIN versions
        BY DEF Ingestion, VersionTable
      <3>2. QED
        BY <3>1 DEF Ingestion, Labels, ReadWhole, NoVersion
    <2>3. /\ \A w \in Ingesters : /\ pc[w] \in {"idle", "extract", "store", "normalize", "read", "write"}
                                  /\ file[w] \in Artifacts <=> pc[w] = "store"
                                  /\ latest[w] \in Nat
                                  /\ input[w] \subseteq Rows
          /\ boot \in [Ingesters -> {"no", "try", "ingest"}]
          /\ extracts \in 0..MaxExtracts
      BY DEF Ingestion, Labels
    <2>4. target \in [Assessors -> Targets] /\ \A s \in Assessors : findings[s] \in Seq(Findings)
      BY DEF Assessments
    <2>5. ASSUME NEW s \in Assessors PROVE assessed[s] = "success" <=> Len(findings[s]) = Len(Checks)
      <3>1. Len(Checks) \in Nat /\ Len(Checks) > 0 /\ Len(findings[s]) \in Nat
        BY <2>4, ReportingAssumption DEF ReportingAssumption
      <3>2. assessed[s] \in {"idle", "joining", "success", "error"}
        BY DEF Assessments
      <3>3. CASE assessed[s] \in {"idle", "error"}
        BY <3>1, <3>3 DEF Assessments
      <3>4. CASE assessed[s] = "joining"
        BY <3>1, <3>4 DEF Assessments
      <3>5. CASE assessed[s] = "success"
        BY <3>5 DEF Assessments
      <3>6. QED
        BY <3>2, <3>3, <3>4, <3>5
    <2>6. QED
      BY <2>0, <2>1, <2>2, <2>3, <2>4, <2>5 DEF TypeOK
  <1>2. QED
    BY <1>1, AssessmentsInvariance, PTL

\* When a publisher's version is read again, an id that belonged to a check
\* still does.  The code upserts whatever the file lists.
RereadsKeepTitles ==
    \A c \in ToSet(Checks), a, b \in Artifacts :
        Number[a] = Number[b] =>
            \A i \in (DOMAIN Title[a]) \cap (DOMAIN Title[b]) :
                Title[a][i] \in TitlesOf[c] => Title[b][i] \in TitlesOf[c]

\* Of rows that are there, some is of the newest version.
LEMMA NewestThere ==
  ASSUME NEW rows, rows # {}, NEW n \in Nat, \A r \in rows : r.version \in 1..n
  PROVE  \E r \in rows : \A d \in rows : d.version <= r.version
  <1> DEFINE ages == {n - r.version : r \in rows}
  <1>1. ages \in SUBSET Nat /\ ages # {}
    OBVIOUS
  <1>2. PICK age \in ages : \A g \in ages : age <= g
    <2> HIDE DEF ages
    <2>1. QED
      BY <1>1, LeastExists
  <1>3. PICK r \in rows : age = n - r.version
    BY DEF ages
  <1>4. ASSUME NEW d \in rows PROVE d.version <= r.version
    <2>1. n - r.version <= n - d.version
      BY <1>2, <1>3
    <2>2. QED
      BY <2>1
  <1>5. QED
    BY <1>4

\* What is newest of a check is the version of one of its controls, and no
\* control of it is newer.
LEMMA NewestFacts ==
  ASSUME Ingestion, NEW c
  PROVE  /\ NewestOf(c) \in Nat
         /\ (Hits(TitlesOf[c]) = {} => NewestOf(c) = 0)
         /\ (Hits(TitlesOf[c]) # {} => \E x \in Hits(TitlesOf[c]) : NewestOf(c) = x.version)
         /\ \A x \in Hits(TitlesOf[c]) : x.version <= NewestOf(c)
  <1> DEFINE H == Hits(TitlesOf[c])
             best == ControlsByTitle(TitlesOf[c])
  <1>1. Len(versions) \in Nat /\ \A x \in H : x.version \in 1..Len(versions)
    BY DEF Hits, Ingestion, VersionTable, Normalized, Sound
  <1>2. best = {x \in H : \A d \in H : d.version <= x.version}
    BY DEF ControlsByTitle
  <1> HIDE DEF H
  <1>3. H = {} => best = {}
    BY <1>2
  <1>4. H # {} => best # {}
    BY <1>1, <1>2, NewestThere
  <1>5. NewestOf(c) = IF best = {} THEN 0 ELSE (CHOOSE x \in best : TRUE).version
    BY DEF NewestOf
  <1> HIDE DEF best
  <1>6. best # {} => (CHOOSE x \in best : TRUE) \in best
    OBVIOUS
  <1>7. CASE H = {}
    BY <1>3, <1>5, <1>7 DEF H
  <1>8. CASE H # {}
    <2>1. PICK x \in best : NewestOf(c) = x.version
      BY <1>4, <1>5, <1>6, <1>8
    <2>2. x \in H /\ x.version \in Nat /\ \A d \in H : d.version <= x.version
      BY <1>1, <1>2, <2>1
    <2>3. QED
      BY <2>1, <2>2, <1>8 DEF H
  <1>9. QED
    BY <1>7, <1>8

\* A row of a control's version and id belongs to the checks the control does.
LEMMA RereadHits ==
  ASSUME RereadsKeepTitles, NEW c \in ToSet(Checks), NEW x, NEW u, Sound(x), Sound(u),
         u.version = x.version, u.id = x.id, TitleOf(x) \in TitlesOf[c]
  PROVE  TitleOf(u) \in TitlesOf[c]
  <1>1. x.from \in Artifacts /\ u.from \in Artifacts /\ Number[x.from] = Number[u.from]
        /\ x.id \in (DOMAIN Title[x.from]) \cap (DOMAIN Title[u.from])
    BY DEF Sound, Rows
  <1>2. Title[x.from][x.id] \in TitlesOf[c]
    BY DEF TitleOf
  <1>3. Title[u.from][x.id] \in TitlesOf[c]
    BY <1>1, <1>2 DEF RereadsKeepTitles
  <1>4. QED
    BY <1>3 DEF TitleOf

NewestBounds ==
    \A c \in ToSet(Checks) :
        NewestOf(c) \in Nat /\ \A x \in Hits(TitlesOf[c]) : x.version <= NewestOf(c)

LEMMA BoundsHold == Ingestion => NewestBounds
  BY NewestFacts DEF NewestBounds

\* A normalisation leaves a control in the place of each.
LEMMA WriteGoesForward ==
  ASSUME RereadsKeepTitles, Ingestion, Ingestion', NEW w \in Ingesters, WriteControls(w),
         NEW c \in ToSet(Checks)
  PROVE  NewestOf(c)' >= NewestOf(c)
  <1>1. controls' = Upsert(controls, input[w]) /\ versions' = versions
    BY DEF WriteControls, Controls
  <1>2. NewestOf(c) \in Nat
        /\ (Hits(TitlesOf[c]) = {} => NewestOf(c) = 0)
        /\ (Hits(TitlesOf[c]) # {} => \E x \in Hits(TitlesOf[c]) : NewestOf(c) = x.version)
    BY NewestFacts
  <1>3. (Ingestion => NewestBounds)'
    BY BoundsHold, PTL
  <1>4. NewestOf(c)' \in Nat /\ \A x \in Hits(TitlesOf[c])' : x.version <= NewestOf(c)'
    BY <1>3 DEF NewestBounds
  <1>5. CASE Hits(TitlesOf[c]) = {}
    BY <1>2, <1>4, <1>5
  <1>6. CASE Hits(TitlesOf[c]) # {}
    <2>1. PICK x \in Hits(TitlesOf[c]) : NewestOf(c) = x.version
      BY <1>2, <1>6
    <2>2. x \in controls /\ TitleOf(x) \in TitlesOf[c]
      BY <2>1 DEF Hits
    <2>3. PICK u \in controls' : u.version = x.version /\ u.id = x.id /\ (u = x \/ u \in input[w])
      BY <1>1, <2>2, UpsertFacts
    <2>4. Sound(x) /\ (u \in input[w] => Sound(u))
      BY <2>2 DEF Ingestion, Normalized, ReadWhole
    <2>5. TitleOf(u) \in TitlesOf[c]
      BY <2>2, <2>3, <2>4, RereadHits
    <2>6. u \in Hits(TitlesOf[c])'
      BY <2>3, <2>5 DEF Hits
    <2>7. QED
      BY <1>4, <2>1, <2>3, <2>6
  <1>7. QED
    BY <1>5, <1>6

\* As long as files read again keep to which check an id belongs, a check's
\* control that could be looked up can be from then on, in no older version
\* than before.
THEOREM LookupsNeverGoBack == RereadsKeepTitles => (Spec => LookupsGoForward)
  <1> SUFFICES ASSUME RereadsKeepTitles PROVE Spec => LookupsGoForward
    OBVIOUS
  <1>1. Ingestion /\ Ingestion' /\ [Next]_vars
          => [controls' = controls \/ \A c \in ToSet(Checks) : NewestOf(c)' >= NewestOf(c)]_vars
    <2> SUFFICES ASSUME Ingestion, Ingestion', Next
                 PROVE  controls' = controls \/ \A c \in ToSet(Checks) : NewestOf(c)' >= NewestOf(c)
      OBVIOUS
    <2>1. ASSUME NEW w \in Ingesters, WriteControls(w)
          PROVE  \A c \in ToSet(Checks) : NewestOf(c)' >= NewestOf(c)
      BY <2>1, WriteGoesForward
    <2>2. ASSUME NEW w \in Ingesters, Ingest(w), ~WriteControls(w) PROVE controls' = controls
      BY <2>2 DEF Ingest, Request, Extract, Store, ReadLatest, ReadItems, NormalizeFails
    <2>3. ASSUME NEW s \in Assessors, Assess(s) \/ Join(s) \/ JoinFails(s) PROVE controls' = controls
      BY <2>3 DEF Assess, Join, JoinFails, benchmarkVars
    <2>4. Crash => controls' = controls
      BY DEF Crash, IngestersDie
    <2>5. QED
      BY <2>1, <2>2, <2>3, <2>4 DEF Next
  <1>2. QED
    BY <1>1, NextIngestion, IngestionInvariance, PTL DEF Spec, LookupsGoForward

\* Below twice Percent findings, a rounded percentage is 0 only when nothing
\* passed and Percent only when all did.
THEOREM RoundingTellsTheTruth ==
  ASSUME NEW p \in Nat, NEW n \in Nat, p <= n, 0 < n, n < 2 * Percent
  PROVE  /\ Rounded(p, n) \in 0..Percent
         /\ Rounded(p, n) = 0 <=> p = 0
         /\ Rounded(p, n) = Percent <=> p = n
  <1> DEFINE m == Percent * p
             q == m \div n
             r == m % n
  <1>1. Percent \in Nat /\ Percent > 0
    BY ComplianceAssumption DEF ComplianceAssumption
  <1>2. m \in Nat
    BY <1>1
  <1>3. Rounded(p, n) = IF 2 * r > n \/ (2 * r = n /\ q % 2 = 1) THEN q + 1 ELSE q
    BY DEF Rounded
  <1>4. q \in Nat /\ r \in Nat /\ r < n /\ m = n * q + r
    <2> HIDE DEF m
    <2>1. QED
      BY <1>2
  <1> HIDE DEF q, r
  <1>5. CASE p = 0
    <2>1. m = 0
      BY <1>1, <1>5
    <2>2. QED
      BY <1>1, <1>3, <1>4, <1>5, <2>1
  <1>6. CASE p = n
    <2>1. n * q + r = n * Percent
      BY <1>1, <1>4, <1>6
    <2>2. ~(q + 1 <= Percent)
      <3>1. q + 1 <= Percent => n * (q + 1) <= n * Percent
        BY <1>1, <1>4
      <3>2. n * (q + 1) = n * q + n
        BY <1>4
      <3>3. QED
        BY <1>1, <1>4, <2>1, <3>1, <3>2
    <2>3. ~(Percent + 1 <= q)
      <3>1. Percent + 1 <= q => n * (Percent + 1) <= n * q
        BY <1>1, <1>4
      <3>2. n * (Percent + 1) = n * Percent + n
        BY <1>1
      <3>3. QED
        BY <1>1, <1>4, <2>1, <3>1, <3>2
    <2>4. q = Percent /\ r = 0
      BY <1>1, <1>4, <2>1, <2>2, <2>3
    <2>5. QED
      BY <1>1, <1>3, <1>6, <2>4
  <1>7. CASE 0 < p /\ p < n
    <2>1. Percent <= m
      BY <1>1, <1>7
    <2>2. m + Percent <= n * Percent
      <3>1. Percent * (p + 1) <= Percent * n
        BY <1>1, <1>7
      <3>2. Percent * (p + 1) = m + Percent /\ Percent * n = n * Percent
        BY <1>1
      <3>3. QED
        BY <3>1, <3>2
    <2> HIDE DEF m
    <2>3. q + 1 <= Percent
      <3>1. Percent <= q => n * Percent <= n * q
        BY <1>1, <1>4
      <3>2. QED
        BY <1>1, <1>2, <1>4, <2>2, <3>1
    <2>4. q + 1 = Percent => 2 * r < n
      <3>1. q + 1 = Percent => n * Percent = n * q + n
        BY <1>1, <1>4
      <3>2. QED
        BY <1>1, <1>2, <1>4, <2>2, <3>1
    <2>5. q = 0 => 2 * r > n
      BY <1>1, <1>2, <1>4, <2>1
    <2>6. Rounded(p, n) \in Nat /\ 0 < Rounded(p, n) /\ Rounded(p, n) < Percent
      BY <1>1, <1>3, <1>4, <2>3, <2>4, <2>5
    <2>7. QED
      BY <1>1, <1>7, <2>6
  <1>8. QED
    BY <1>5, <1>6, <1>7

-----------------------------------------------------------------------------
(* What an assessment comes to                                             *)

\* Each finding carries a title of the check in its place, and what the probe
\* told of the target.
FromCheck(f, k) == k \in DOMAIN Checks /\ f.title \in TitlesOf[Checks[k]]
OfTarget(f, t) == f.target_type = t.type /\ f.evidence \in {"none", t.sshd}
Joined ==
    \A s \in Assessors : \A k \in DOMAIN findings[s] :
        FromCheck(findings[s][k], k) /\ OfTarget(findings[s][k], target[s])

LEMMA JoinedStep ==
  ASSUME Assessments, Joined, NEW s \in Assessors, Join(s)
  PROVE  Joined'
  <1>1. PICK control \in ControlsOf(s), status \in Statuses :
          findings' = [findings EXCEPT ![s] = Append(@, FindingOf(s, control, status))]
    BY DEF Join
  <1> DEFINE f == FindingOf(s, control, status)
             n == Len(findings[s]) + 1
  <1>2. f.title \in TitlesOf[Check(s)] /\ OfTarget(f, target[s]) /\ target' = target
    BY DEF FindingOf, ControlsOf, ControlsByTitle, Hits, OfTarget, Join
  <1>3. Check(s) = Checks[n]
    BY DEF Check
  <1> HIDE DEF f
  <1>4. findings \in [Assessors -> Seq(Findings)] /\ assessed[s] = "joining"
    BY DEF Assessments, Join
  <1>5. /\ Len(findings[s]) \in Nat /\ Len(Checks) \in Nat /\ n \in 1..Len(Checks)
        /\ DOMAIN Checks = 1..Len(Checks) /\ DOMAIN findings[s] = 1..Len(findings[s])
    BY <1>4, ReportingAssumption DEF Assessments, ReportingAssumption
  <1>6. findings'[s] = Append(findings[s], f) /\ \A x \in Assessors \ {s} : findings'[x] = findings[x]
    BY <1>1, <1>4 DEF f
  <1>7. /\ DOMAIN Append(findings[s], f) = 1..n /\ Append(findings[s], f)[n] = f
        /\ \A k \in 1..Len(findings[s]) : Append(findings[s], f)[k] = findings[s][k]
    BY <1>4, <1>5
  <1>8. \A k \in DOMAIN findings'[s] : FromCheck(findings'[s][k], k) /\ OfTarget(findings'[s][k], target[s])
    BY <1>2, <1>3, <1>5, <1>6, <1>7 DEF Joined, FromCheck
  <1>9. QED
    BY <1>2, <1>6, <1>8 DEF Joined

LEMMA JoinedInvariance == Spec => []Joined
  <1>1. Init => Joined
    BY DEF Init, Joined
  <1>2. Assessments /\ Joined /\ [Next]_vars => Joined'
    <2> SUFFICES ASSUME Assessments, Joined, [Next]_vars PROVE Joined'
      OBVIOUS
    <2>1. ASSUME NEW s \in Assessors, Join(s) PROVE Joined'
      BY <2>1, JoinedStep
    <2>2. ASSUME NEW s \in Assessors, Assess(s) \/ JoinFails(s) PROVE Joined'
      <3>1. findings \in [Assessors -> Seq(Findings)] /\ findings' = [findings EXCEPT ![s] = <<>>]
        BY <2>2 DEF Assess, JoinFails, Assessments
      <3>2. findings'[s] = <<>> /\ \A x \in Assessors \ {s} : findings'[x] = findings[x]
        BY <3>1
      <3>3. DOMAIN findings'[s] = {}
        BY <3>2
      <3>4. \A x \in Assessors \ {s} : target'[x] = target[x]
        BY <2>2 DEF Assess, JoinFails, Assessments
      <3>5. QED
        BY <3>2, <3>3, <3>4 DEF Joined
    <2>3. CASE Crash
      BY <2>3 DEF Crash, Assessments, Joined
    <2>4. CASE UNCHANGED assessVars
      BY <2>4 DEF assessVars, Joined
    <2>5. QED
      BY <2>1, <2>2, <2>3, <2>4 DEF Next, vars
  <1>3. QED
    BY <1>1, <1>2, AssessmentsInvariance, PTL DEF Spec

-----------------------------------------------------------------------------
(* What the reports say of one target                                      *)

LEMMA ListFacts ==
  ASSUME NEW S, NEW list \in Seq(S)
  PROVE  /\ Len(list) \in Nat /\ DOMAIN list = 1..Len(list)
         /\ list \in Seq(ToSet(list))
         /\ IsFiniteSet(DOMAIN list) /\ Cardinality(DOMAIN list) = Len(list)
  <1>1. Len(list) \in Nat /\ DOMAIN list = 1..Len(list)
    OBVIOUS
  <1>2. \A k \in 1..Len(list) : list[k] \in ToSet(list)
    BY <1>1 DEF ToSet
  <1>3. list \in [1..Len(list) -> ToSet(list)]
    BY <1>1, <1>2
  <1>4. list \in Seq(ToSet(list))
    BY <1>1, <1>3
  <1>5. IsFiniteSet(1..Len(list)) /\ Cardinality(1..Len(list)) = Len(list)
    BY <1>1, FS_Interval
  <1>6. QED
    BY <1>1, <1>4, <1>5

Parts == {"pass", "fail", "not_applicable", "not_assessed"}

\* split_findings puts each finding into one of four lists.
LEMMA SplitFacts ==
  ASSUME NEW list
  PROVE  /\ \A r : Split(list, r) \subseteq DOMAIN list
         /\ \A k \in DOMAIN list : \E r \in Parts : k \in Split(list, r)
         /\ \A r, q : r # q => Split(list, r) \cap Split(list, q) = {}
  <1> DEFINE res(k) == Result(list[k], TargetType(list), SshState(list))
  <1>1. \A k : res(k) \in Parts
    BY DEF Result, Parts
  <1>2. \A r : Split(list, r) = {k \in DOMAIN list : res(k) = r}
    BY DEF Split
  <1> HIDE DEF res
  <1>3. QED
    BY <1>1, <1>2

\* The first of some positions of a list is one of them.
LEMMA FirstOf ==
  ASSUME NEW S, NEW list \in Seq(S), NEW positions \in SUBSET DOMAIN list, positions # {}
  PROVE  Least(positions) \in positions
  <1>1. positions \in SUBSET Nat
    BY ListFacts
  <1>2. \E n \in positions : \A m \in positions : n <= m
    BY <1>1, LeastExists
  <1>3. QED
    BY <1>2 DEF Least

\* The findings of one target agree on sshd, so the first that tells is right.
LEMMA SshFact ==
  ASSUME NEW list, Outcome(list)
  PROVE  SshState(list) = "absent" <=> \E g \in ToSet(list) : g.evidence = "absent"
  <1> DEFINE telling == {k \in DOMAIN list : list[k].evidence # "none"}
  <1>1. SshState(list) = IF telling = {} THEN "present" ELSE list[Least(telling)].evidence
    BY DEF SshState
  <1>2. telling # {} => Least(telling) \in telling
    <2>1. telling \in SUBSET DOMAIN list /\ list \in Seq(ToSet(list))
      BY DEF Outcome
    <2> HIDE DEF telling
    <2>2. QED
      BY <2>1, FirstOf
  <1>3. \A j, k \in telling : list[j].evidence = list[k].evidence
    BY DEF Outcome
  <1>4. (\E g \in ToSet(list) : g.evidence = "absent") <=> \E k \in telling : list[k].evidence = "absent"
    BY DEF ToSet
  <1>5. \A k \in telling : list[k].evidence # "none"
    OBVIOUS
  <1> HIDE DEF telling
  <1>6. QED
    BY <1>1, <1>2, <1>3, <1>4

\* Those that pass and fail are as a reader takes them.
LEMMA SplitMeaning ==
  ASSUME NEW asset, Outcome(asset.findings), NEW k \in DOMAIN asset.findings
  PROVE  LET f == asset.findings[k]
         IN  /\ k \in Split(asset.findings, "pass") <=> f.status = "PASS" /\ ~LeftOut(f, asset)
             /\ k \in Split(asset.findings, "fail") <=> f.status = "FAIL" /\ ~LeftOut(f, asset)
  <1> DEFINE list == asset.findings
             f == list[k]
  <1>1. TargetType(list) = f.target_type
    <2>1. list # <<>> /\ 1 \in DOMAIN list
      <3>1. list \in Seq(ToSet(list)) /\ k \in DOMAIN list
        BY DEF Outcome
      <3> HIDE DEF list
      <3>2. Len(list) \in Nat /\ DOMAIN list = 1..Len(list)
        BY <3>1, ListFacts
      <3>3. QED
        BY <3>1, <3>2
    <2>2. QED
      BY <2>1 DEF TargetType, Outcome
  <1>2. Excluded(f, TargetType(list), SshState(list)) <=> LeftOut(f, asset)
    BY <1>1, SshFact DEF Excluded, LeftOut, ClassifyEnvironment
  <1>3. \A r : k \in Split(list, r) <=> Result(f, TargetType(list), SshState(list)) = r
    BY DEF Split
  <1>4. QED
    BY <1>2, <1>3 DEF Result

\* What is judged of an asset is in the lists of those that pass and fail.
LEMMA WithFacts ==
  ASSUME NEW asset, Outcome(asset.findings)
  PROVE  /\ With(asset, {"PASS"}) = {} <=> Split(asset.findings, "pass") = {}
         /\ With(asset, {"FAIL"}) = {} <=> Split(asset.findings, "fail") = {}
         /\ With(asset, {"PASS", "FAIL"}) = {} <=> Evaluated(asset.findings) = {}
  <1> DEFINE list == asset.findings
  <1>1. \A k \in DOMAIN list :
          /\ k \in Split(list, "pass") <=> list[k].status = "PASS" /\ ~LeftOut(list[k], asset)
          /\ k \in Split(list, "fail") <=> list[k].status = "FAIL" /\ ~LeftOut(list[k], asset)
    BY SplitMeaning
  <1>2. \A r : Split(list, r) \subseteq DOMAIN list
    BY SplitFacts
  <1>3. \A f : f \in ToSet(list) <=> \E k \in DOMAIN list : f = list[k]
    BY DEF ToSet
  <1> HIDE DEF list
  <1>4. \A statuses : With(asset, statuses) = {f \in ToSet(list) : f.status \in statuses /\ ~LeftOut(f, asset)}
    BY DEF With, list
  <1>5. QED
    BY <1>1, <1>2, <1>3, <1>4 DEF list, Evaluated

\* The counts of those judged are below twice Percent.
LEMMA CountFacts ==
  ASSUME NEW list, Outcome(list)
  PROVE  LET p == Count(list, "pass")
             q == Count(list, "fail")
         IN  /\ p \in Nat /\ q \in Nat /\ p + q < 2 * Percent
             /\ (p = 0 <=> Split(list, "pass") = {}) /\ (q = 0 <=> Split(list, "fail") = {})
  <1> DEFINE P == Split(list, "pass")
             Q == Split(list, "fail")
  <1>1. list \in Seq(ToSet(list)) /\ Len(list) < 2 * Percent
    BY DEF Outcome
  <1>2. IsFiniteSet(DOMAIN list) /\ Cardinality(DOMAIN list) = Len(list)
    BY <1>1, ListFacts
  <1>3. P \in SUBSET DOMAIN list /\ Q \in SUBSET DOMAIN list /\ P \cap Q = {}
    BY SplitFacts
  <1> HIDE DEF P, Q
  <1>4. IsFiniteSet(P) /\ IsFiniteSet(Q)
    BY <1>2, <1>3, FS_Subset
  <1>5. IsFiniteSet(P \cup Q) /\ Cardinality(P \cup Q) = Cardinality(P) + Cardinality(Q)
    BY <1>3, <1>4, SizesAdd
  <1>6. Cardinality(P \cup Q) <= Len(list)
    BY <1>2, <1>3, FS_Subset
  <1>7. Cardinality(P) \in Nat /\ Cardinality(Q) \in Nat /\ Len(list) \in Nat
    BY <1>1, <1>4, FS_CardinalityType, ListFacts
  <1>8. Cardinality(P) + Cardinality(Q) < 2 * Percent
    BY <1>1, <1>5, <1>6, <1>7, ComplianceAssumption DEF ComplianceAssumption
  <1>9. (Cardinality(P) = 0 <=> P = {}) /\ (Cardinality(Q) = 0 <=> Q = {})
    BY <1>4, FS_EmptySet
  <1>10. QED
    BY <1>7, <1>8, <1>9 DEF Count, P, Q

\* The percentage of an asset and how it stands.
LEMMA StandingFacts ==
  ASSUME NEW asset, Outcome(asset.findings)
  PROVE  LET pct == CompliancePct(asset.findings)
         IN  /\ pct = None \/ pct \in 0..Percent
             /\ Standing(asset) = IF pct = None THEN 3
                                  ELSE IF pct = 0 THEN 0
                                  ELSE IF pct = Percent THEN 2 ELSE 1
  <1> DEFINE list == asset.findings
             p == Count(list, "pass")
             q == Count(list, "fail")
  <1>1. /\ p \in Nat /\ q \in Nat /\ p + q < 2 * Percent
        /\ (p = 0 <=> Split(list, "pass") = {}) /\ (q = 0 <=> Split(list, "fail") = {})
    BY CountFacts
  <1>2. Standing(asset) = IF p = 0 /\ q = 0 THEN 3 ELSE IF p = 0 THEN 0 ELSE IF q = 0 THEN 2 ELSE 1
    <2>1. Evaluated(list) = {} <=> p = 0 /\ q = 0
      BY <1>1 DEF Evaluated
    <2>2. QED
      BY <1>1, <2>1, WithFacts DEF Standing
  <1>3. CompliancePct(list) = IF p + q = 0 THEN None ELSE Rounded(p, p + q)
    BY DEF CompliancePct
  <1> HIDE DEF p, q
  <1>4. None \notin Int /\ Percent \in Nat /\ Percent > 0
    BY ComplianceAssumption DEF ComplianceAssumption
  <1>5. CASE p + q = 0
    BY <1>1, <1>2, <1>3, <1>5
  <1>6. CASE p + q # 0
    <2>1. p + q \in Nat /\ p <= p + q /\ 0 < p + q
      BY <1>1, <1>6
    <2>2. /\ Rounded(p, p + q) \in 0..Percent
          /\ Rounded(p, p + q) = 0 <=> p = 0
          /\ Rounded(p, p + q) = Percent <=> p = p + q
      BY <1>1, <2>1, RoundingTellsTheTruth
    <2>3. (p = p + q <=> q = 0) /\ ~(p = 0 /\ q = 0) /\ Rounded(p, p + q) # None
      BY <1>1, <1>4, <1>6, <2>2
    <2>4. CompliancePct(list) = Rounded(p, p + q)
      BY <1>3, <1>6
    <2>5. Standing(asset) = IF Rounded(p, p + q) = 0 THEN 0 ELSE IF Rounded(p, p + q) = Percent THEN 2 ELSE 1
      BY <1>2, <2>2, <2>3
    <2>6. QED
      BY <2>2, <2>3, <2>4, <2>5
  <1>7. QED
    BY <1>5, <1>6

-----------------------------------------------------------------------------
(* What the consolidated report says of a batch                            *)

\* What is posted: assets with names of their own, and the findings of an
\* assessment where one succeeded.
Posted(batch) ==
    /\ batch \in Seq(ToSet(batch))
    /\ \A k \in DOMAIN batch : Outcome(batch[k].findings)
    /\ \A j, k \in DOMAIN batch : batch[j].name = batch[k].name => j = k

\* The sort puts the worst first: who is behind is nowhere worse.
LEMMA PrecedesFacts ==
  ASSUME NEW p, NEW q, p = None \/ p \in Nat, q = None \/ q \in Nat
  PROVE  /\ Worse(p, q) => ~Worse(q, p)
         /\ \A o : (o = None \/ o \in Nat) =>
               /\ Worse(p, q) /\ ~Worse(o, q) => Worse(p, o)
               /\ ~Worse(q, p) /\ Worse(q, o) => Worse(p, o)
               /\ ~Worse(q, p) /\ ~Worse(o, q) => ~Worse(o, p)
  BY ComplianceAssumption DEF Worse, ComplianceAssumption

LEMMA RankingFacts ==
  ASSUME NEW batch, Posted(batch)
  PROVE  /\ DOMAIN Ranking(batch) = 1..Cardinality(AssetRows(batch))
         /\ \A n \in DOMAIN Ranking(batch) : Ranking(batch)[n] \in AssetRows(batch)
         /\ \A r \in AssetRows(batch) : \E n \in DOMAIN Ranking(batch) : Ranking(batch)[n] = r
         /\ \A m, n \in DOMAIN Ranking(batch) :
               m < n => ~Worse(Ranking(batch)[n].pct, Ranking(batch)[m].pct)
  <1> DEFINE R == AssetRows(batch)
             B == {x \in R \X R : Precedes(x[1], x[2])}
             ahead(r) == Cardinality(AheadOf(R, B, r))
             list == Ranking(batch)
  <1>1. batch \in Seq(ToSet(batch))
    BY DEF Posted
  <1>2. IsFiniteSet(DOMAIN batch) /\ DOMAIN batch = 1..Len(batch) /\ Len(batch) \in Nat
    BY <1>1, ListFacts
  <1>3. /\ \A r \in R : r.at \in Nat /\ r.at \in Succeeded(batch) /\ (r.pct = None \/ r.pct \in Nat)
        /\ \A r, s \in R : r.at = s.at => r = s
    <2>1. \A k \in Succeeded(batch) :
            k \in Nat /\ (CompliancePct(batch[k].findings) = None \/ CompliancePct(batch[k].findings) \in 0..Percent)
      BY <1>2, StandingFacts DEF Succeeded, Posted
    <2>2. Percent \in Nat
      BY ComplianceAssumption DEF ComplianceAssumption
    <2>3. QED
      BY <2>1, <2>2 DEF AssetRows
  <1>4. IsFiniteSet(R)
    <2> DEFINE at == [r \in R |-> r.at]
    <2>1. at \in Injection(R, DOMAIN batch)
      <3>1. at \in [R -> DOMAIN batch] /\ \A r, s \in R : at[r] = at[s] => r = s
        BY <1>3 DEF Succeeded
      <3> HIDE DEF at
      <3>2. QED
        BY <3>1 DEF Injection, IsInjective
    <2>2. QED
      BY <1>2, <2>1, FS_Injection
  <1>5. \A r, s \in R : <<r, s>> \in B <=> Precedes(r, s)
    OBVIOUS
  <1> HIDE DEF R, B
  <1>6. \A r \in R : <<r, r>> \notin B
    BY <1>3, <1>5, PrecedesFacts DEF Precedes
  <1>7. ASSUME NEW r \in R, NEW s \in R, NEW t \in R, Precedes(r, s), Precedes(s, t)
        PROVE  Precedes(r, t)
    <2>1. /\ Worse(r.pct, s.pct) => ~Worse(s.pct, r.pct)
          /\ Worse(s.pct, t.pct) => ~Worse(t.pct, s.pct)
      BY <1>3, PrecedesFacts
    <2>2. /\ Worse(r.pct, s.pct) /\ ~Worse(t.pct, s.pct) => Worse(r.pct, t.pct)
          /\ ~Worse(s.pct, r.pct) /\ Worse(s.pct, t.pct) => Worse(r.pct, t.pct)
          /\ ~Worse(s.pct, r.pct) /\ ~Worse(t.pct, s.pct) => ~Worse(t.pct, r.pct)
      BY <1>3, PrecedesFacts
    <2>3. r.at < s.at /\ s.at < t.at => r.at < t.at
      BY <1>3
    <2>4. QED
      BY <1>7, <2>1, <2>2, <2>3 DEF Precedes
  <1>8. \A r, s, t \in R : <<r, s>> \in B /\ <<s, t>> \in B => <<r, t>> \in B
    BY <1>5, <1>7
  <1>9. ASSUME NEW r \in R, NEW s \in R PROVE r = s \/ <<r, s>> \in B \/ <<s, r>> \in B
    <2>1. r.at \in Nat /\ s.at \in Nat /\ (r.at = s.at => r = s)
      BY <1>3
    <2>2. r = s \/ r.at < s.at \/ s.at < r.at
      BY <2>1
    <2>3. r = s \/ Precedes(r, s) \/ Precedes(s, r)
      BY <2>2 DEF Precedes
    <2>4. QED
      BY <1>5, <2>3
  <1>10. /\ Cardinality(R) \in Nat
         /\ \A r \in R : ahead(r) + 1 \in 1..Cardinality(R)
         /\ \A n \in 1..Cardinality(R) : \E r \in R : ahead(r) = n - 1
         /\ \A r, s \in R : <<r, s>> \in B => ahead(r) < ahead(s)
    BY <1>4, <1>6, <1>8, <1>9, Places
  <1>11. \A r \in R : {s \in R : Precedes(s, r)} = AheadOf(R, B, r)
    BY <1>5 DEF AheadOf
  <1>12. list = [n \in 1..Cardinality(R) |-> CHOOSE r \in R : ahead(r) = n - 1]
    <2>1. list = [n \in 1..Cardinality(R) |-> CHOOSE r \in R : Cardinality({s \in R : Precedes(s, r)}) = n - 1]
      BY DEF Ranking, R
    <2>2. \A n : (CHOOSE r \in R : Cardinality({s \in R : Precedes(s, r)}) = n - 1) = CHOOSE r \in R : ahead(r) = n - 1
      BY <1>11
    <2>3. QED
      BY <2>1, <2>2
  <1> HIDE DEF list, ahead
  <1>13. /\ DOMAIN list = 1..Cardinality(R)
         /\ \A n \in 1..Cardinality(R) : list[n] \in R /\ ahead(list[n]) = n - 1
    BY <1>10, <1>12
  <1>14. ASSUME NEW r \in R PROVE \E n \in DOMAIN list : list[n] = r
    <2> DEFINE n == ahead(r) + 1
    <2>1. n \in DOMAIN list
      BY <1>10, <1>13
    <2>2. list[n] \in R /\ ahead(list[n]) = ahead(r) /\ ahead(r) \in Int
      <3>1. ahead(r) \in Nat
        BY <1>4, FS_Subset, FS_CardinalityType DEF ahead, AheadOf
      <3>2. QED
        BY <1>13, <2>1, <3>1
    <2>3. list[n] = r
      <3>1. ~(ahead(r) < ahead(r))
        BY <2>2
      <3>2. QED
        BY <1>9, <1>10, <2>2, <3>1
    <2>4. QED
      BY <2>1, <2>3
  <1>15. ASSUME NEW m \in DOMAIN list, NEW n \in DOMAIN list, m < n
         PROVE  ~Worse(list[n].pct, list[m].pct)
    <2>1. list[m] \in R /\ list[n] \in R /\ ahead(list[m]) < ahead(list[n])
      BY <1>10, <1>13, <1>15
    <2>2. <<list[m], list[n]>> \in B
      <3>1. ahead(list[n]) \in Int /\ ahead(list[m]) \in Int
        BY <1>10, <1>13
      <3>2. list[m] # list[n] /\ <<list[n], list[m]>> \notin B
        BY <1>10, <2>1, <3>1
      <3>3. QED
        BY <1>9, <2>1, <3>2
    <2>3. QED
      BY <1>3, <1>5, <2>1, <2>2, PrecedesFacts DEF Precedes
  <1>16. QED
    BY <1>13, <1>14, <1>15 DEF R, list

\* What each assessment has found is the outcome of one.
Outcomes == \A s \in Assessors : Outcome(findings[s])

LEMMA JoinedOutcomes == Assessments /\ Joined => Outcomes
  <1> SUFFICES ASSUME Assessments, Joined, NEW s \in Assessors PROVE Outcome(findings[s])
    BY DEF Outcomes
  <1> DEFINE list == findings[s]
  <1>1. list \in Seq(Findings) /\ Len(list) <= Len(Checks)
    <2>1. list \in Seq(Findings)
      BY DEF Assessments
    <2>2. Len(list) \in Nat /\ Len(Checks) \in Nat /\ Len(Checks) > 0 /\ Len(<<>>) = 0
      BY <2>1, ReportingAssumption DEF ReportingAssumption
    <2>3. list = <<>> \/ Len(list) < Len(Checks) \/ Len(list) = Len(Checks)
      BY DEF Assessments
    <2>4. QED
      BY <2>1, <2>2, <2>3
  <1>2. Len(list) \in Nat /\ list \in Seq(ToSet(list)) /\ DOMAIN list = 1..Len(list)
    BY <1>1, ListFacts
  <1>3. Len(list) < 2 * Percent
    BY <1>1, <1>2, ReportingAssumption, ComplianceAssumption DEF ReportingAssumption, ComplianceAssumption
  <1>4. \A k \in DOMAIN list : list[k].title \in Titles
    <2>1. \A f \in Findings : f.title \in Titles
      BY DEF Findings
    <2> HIDE DEF list
    <2>2. \A k \in DOMAIN list : list[k] \in Findings
      BY <1>1, <1>2
    <2>3. QED
      BY <2>1, <2>2
  <1>5. \A k \in DOMAIN list : FromCheck(list[k], k) /\ OfTarget(list[k], target[s])
    BY DEF Joined
  <1> HIDE DEF list
  <1>6. \A j, k \in DOMAIN list : list[j].title = list[k].title => j = k
    BY <1>5, ReportingAssumption DEF ReportingAssumption, FromCheck
  <1>7. \A j, k \in DOMAIN list :
          /\ list[j].target_type = list[k].target_type
          /\ "none" \in {list[j].evidence, list[k].evidence} \/ list[j].evidence = list[k].evidence
    BY <1>5 DEF OfTarget
  <1>8. Outcome(list)
    BY <1>2, <1>3, <1>4, <1>6, <1>7 DEF Outcome
  <1>9. QED
    BY <1>8 DEF list

\* However the benchmark changes between two look-ups, an assessment comes to
\* findings of one target, by one probe of its sshd and each of another title.
THEOREM OutcomesAreSound == Spec => []Outcomes
  <1>1. QED
    BY JoinedOutcomes, JoinedInvariance, AssessmentsInvariance, PTL

LEMMA BatchesPosted ==
  ASSUME Outcomes, NEW batch \in Batches
  PROVE  Posted(batch)
  <1>1. PICK others \in Others, s \in Assessors : batch = others \o <<Mine(s)>>
    BY DEF Batches
  <1> DEFINE n == Len(others)
             mine == Mine(s)
             S == ToSet(others) \cup {mine}
  <1>2. /\ others \in Seq(ToSet(others))
        /\ \A k \in DOMAIN others : others[k].name \notin Assessors /\ Outcome(others[k].findings)
        /\ \A j, k \in DOMAIN others : others[j].name = others[k].name => j = k
    BY OthersAssumption DEF OthersAssumption
  <1>3. mine.name = s /\ mine.findings = findings[s] /\ Outcome(findings[s])
    BY DEF Mine, Outcomes
  <1> HIDE DEF mine
  <1>4. others \in Seq(S) /\ <<mine>> \in Seq(S) /\ n \in Nat /\ DOMAIN others = 1..n
    BY <1>2
  <1>5. /\ batch \in Seq(S) /\ DOMAIN batch = 1..(n + 1)
        /\ \A k \in 1..n : batch[k] = others[k]
        /\ batch[n + 1] = mine
    <2>1. batch = others \o <<mine>>
      BY <1>1 DEF mine
    <2>2. batch \in Seq(S) /\ Len(batch) = n + 1
      BY <1>4, <2>1, ConcatProperties
    <2>3. \A k \in 1..n : batch[k] = others[k]
      BY <1>4, <2>1, ConcatProperties
    <2>4. batch[n + 1] = mine
      BY <1>4, <2>1, ConcatProperties
    <2>5. QED
      BY <2>2, <2>3, <2>4
  <1>6. batch \in Seq(ToSet(batch))
    BY <1>5, ListFacts
  <1>7. \A k \in DOMAIN batch : k \in DOMAIN others \/ k = n + 1
    BY <1>4, <1>5
  <1>8. \A k \in DOMAIN batch : Outcome(batch[k].findings)
    BY <1>2, <1>3, <1>4, <1>5, <1>7
  <1>9. \A j, k \in DOMAIN batch : batch[j].name = batch[k].name => j = k
    BY <1>2, <1>3, <1>4, <1>5, <1>7
  <1>10. QED
    BY <1>6, <1>8, <1>9 DEF Posted

\* In every batch that can be posted 0% says that all that was judged failed,
\* Percent that nothing did, no percentage that nothing was judged; each asset
\* that was assessed has a place, the worst first, those without one last.
THEOREM PercentIsTrue == Spec => []PercentTellsTheTruth
  <1>1. ASSUME Outcomes, NEW b \in Batches
        PROVE  LET list == Ranking(b)
                   asset(k) == b[list[k].at]
               IN  /\ {list[k].at : k \in DOMAIN list} = Succeeded(b)
                   /\ \A k \in DOMAIN list :
                         /\ Standing(asset(k)) = 3 <=> list[k].pct = None
                         /\ Standing(asset(k)) = 0 <=> list[k].pct = 0
                         /\ Standing(asset(k)) = 2 <=> list[k].pct = Percent
                   /\ \A j, k \in DOMAIN list : j < k => Standing(asset(j)) <= Standing(asset(k))
    <2> DEFINE list == Ranking(b)
               asset(k) == b[list[k].at]
               R == AssetRows(b)
    <2>1. Posted(b)
      BY <1>1, BatchesPosted
    <2>2. /\ \A n \in DOMAIN list : list[n] \in R
          /\ \A r \in R : \E n \in DOMAIN list : list[n] = r
          /\ \A m, n \in DOMAIN list : m < n => ~Worse(list[n].pct, list[m].pct)
      BY <2>1, RankingFacts
    <2>3. /\ \A r \in R : r.at \in Succeeded(b) /\ r.pct = CompliancePct(b[r.at].findings)
          /\ \A k \in Succeeded(b) : \E r \in R : r.at = k
      <3>1. ASSUME NEW r \in R PROVE r.at \in Succeeded(b) /\ r.pct = CompliancePct(b[r.at].findings)
        <4>1. PICK k \in Succeeded(b) : r = [at |-> k, pct |-> CompliancePct(b[k].findings)]
          BY DEF AssetRows
        <4>2. r.at = k /\ r.pct = CompliancePct(b[k].findings)
          BY <4>1
        <4>3. QED
          BY <4>2
      <3>2. ASSUME NEW k \in Succeeded(b) PROVE \E r \in R : r.at = k
        <4>1. [at |-> k, pct |-> CompliancePct(b[k].findings)] \in R
          BY DEF AssetRows
        <4>2. QED
          BY <4>1
      <3>3. QED
        BY <3>1, <3>2
    <2> HIDE DEF list, R
    <2>4. {list[k].at : k \in DOMAIN list} = Succeeded(b)
      BY <2>2, <2>3
    <2>5. /\ None \notin Int /\ Percent \in Nat /\ Percent > 0
      BY ComplianceAssumption DEF ComplianceAssumption
    <2>6. ASSUME NEW k \in DOMAIN list
          PROVE  /\ list[k].pct = None \/ list[k].pct \in 0..Percent
                 /\ Standing(asset(k)) = IF list[k].pct = None THEN 3
                                         ELSE IF list[k].pct = 0 THEN 0
                                         ELSE IF list[k].pct = Percent THEN 2 ELSE 1
      <3>1. list[k].at \in Succeeded(b) /\ list[k].pct = CompliancePct(asset(k).findings)
        BY <2>2, <2>3
      <3>2. Outcome(asset(k).findings)
        BY <2>1, <3>1 DEF Posted, Succeeded
      <3> HIDE DEF asset
      <3>3. QED
        BY <3>1, <3>2, StandingFacts
    <2> HIDE DEF asset
    <2>7. ASSUME NEW j \in DOMAIN list, NEW k \in DOMAIN list, j < k
          PROVE  Standing(asset(j)) <= Standing(asset(k))
      <3>1. ~Worse(list[k].pct, list[j].pct)
        BY <2>2, <2>7
      <3>2. QED
        BY <2>5, <2>6, <3>1 DEF Worse
    <2>8. \A k \in DOMAIN list :
            /\ Standing(asset(k)) = 3 <=> list[k].pct = None
            /\ Standing(asset(k)) = 0 <=> list[k].pct = 0
            /\ Standing(asset(k)) = 2 <=> list[k].pct = Percent
      BY <2>5, <2>6
    <2>9. QED
      BY <2>4, <2>7, <2>8 DEF list, asset
  <1>2. Outcomes => PercentTellsTheTruth
    BY <1>1 DEF PercentTellsTheTruth
  <1>3. QED
    BY <1>2, OutcomesAreSound, PTL

-----------------------------------------------------------------------------
(* The reports agree                                                       *)

\* The parts of a list are finite, and so is what is counted of them.
LEMMA SplitFinite ==
  ASSUME NEW S, NEW list \in Seq(S), NEW r, NEW T \in SUBSET Split(list, r)
  PROVE  IsFiniteSet(T) /\ Cardinality(T) \in Nat /\ (Cardinality(T) = 0 <=> T = {})
  <1>1. IsFiniteSet(DOMAIN list) /\ T \in SUBSET DOMAIN list
    BY ListFacts, SplitFacts
  <1>2. IsFiniteSet(T)
    BY <1>1, FS_Subset
  <1>3. QED
    BY <1>2, FS_CardinalityType, FS_EmptySet

\* The table of domains has one row for a domain, and one for each failure's.
LEMMA RowFacts ==
  ASSUME NEW S, NEW list \in Seq(S)
  PROVE  LET rows == DomainRows(list)
             F == Split(list, "fail")
         IN  /\ \A r \in rows : r.fail = InDomain(list, F, r.domain) /\ r.fail \in Nat
             /\ \A r, q \in rows : r.domain = q.domain => r = q
             /\ \A r \in rows : r.fail > 0 => r.domain \in DomainsOf(list, F)
             /\ \A d \in DomainsOf(list, F) : \E r \in rows : r.domain = d /\ r.fail > 0
  <1> DEFINE rows == DomainRows(list)
             P == Split(list, "pass")
             F == Split(list, "fail")
             N == Split(list, "not_applicable")
             row(d) == [domain |-> d, pass |-> InDomain(list, P, d),
                        fail |-> InDomain(list, F, d), na |-> InDomain(list, N, d)]
  <1>1. rows = {r \in {row(d) : d \in DomainsOf(list, DOMAIN list)} : r.pass + r.fail + r.na # 0}
    BY DEF DomainRows
  <1>2. \A d : /\ InDomain(list, P, d) \in Nat /\ InDomain(list, N, d) \in Nat
               /\ InDomain(list, F, d) \in Nat
               /\ InDomain(list, F, d) = 0 <=> {k \in F : ClassifyDomain(list[k].title) = d} = {}
    <2>1. ASSUME NEW d, NEW r
          PROVE  LET T == {k \in Split(list, r) : ClassifyDomain(list[k].title) = d}
                 IN  Cardinality(T) \in Nat /\ (Cardinality(T) = 0 <=> T = {})
      <3> DEFINE T == {k \in Split(list, r) : ClassifyDomain(list[k].title) = d}
      <3>1. T \in SUBSET Split(list, r)
        OBVIOUS
      <3> HIDE DEF T
      <3>2. Cardinality(T) \in Nat /\ (Cardinality(T) = 0 <=> T = {})
        BY <3>1, SplitFinite
      <3>3. QED
        BY <3>2 DEF T
    <2>2. QED
      BY <2>1 DEF InDomain
  <1>3. \A d : InDomain(list, F, d) > 0 <=> d \in DomainsOf(list, F)
    BY <1>2 DEF DomainsOf
  <1>4. F \subseteq DOMAIN list
    BY SplitFacts
  <1> HIDE DEF rows, P, F, N
  <1>5. \A r \in rows : r = row(r.domain) /\ r.fail = InDomain(list, F, r.domain)
    BY <1>1
  <1>6. ASSUME NEW d \in DomainsOf(list, F) PROVE row(d) \in rows /\ row(d).domain = d /\ row(d).fail > 0
    <2>1. d \in DomainsOf(list, DOMAIN list)
      BY <1>4 DEF DomainsOf
    <2>2. row(d).fail > 0 /\ row(d).pass + row(d).fail + row(d).na # 0
      BY <1>2, <1>3
    <2>3. QED
      BY <1>1, <2>1, <2>2
  <1>7. QED
    BY <1>2, <1>3, <1>5, <1>6 DEF rows, F

\* The failures by level are all of them.
LEMMA LevelsClose ==
  ASSUME NEW S, NEW list \in Seq(S)
  PROVE  Summary(list).failed = RiskSummary(list).level1 + RiskSummary(list).level2 + RiskSummary(list).other
  <1> DEFINE F == Split(list, "fail")
             A == {k \in F : list[k].level \in {1}}
             B == {k \in F : list[k].level \in {2}}
             C == F \ {k \in F : list[k].level \in {1, 2}}
  <1>1. /\ Summary(list).failed = Cardinality(F) /\ RiskSummary(list).level1 = Cardinality(A)
        /\ RiskSummary(list).level2 = Cardinality(B) /\ RiskSummary(list).other = Cardinality(C)
    BY DEF Summary, Count, RiskSummary
  <1>2. A \in SUBSET F /\ B \in SUBSET F /\ C \in SUBSET F
    OBVIOUS
  <1>3. A \cap B = {} /\ (A \cup B) \cap C = {} /\ (A \cup B) \cup C = F
    OBVIOUS
  <1>4. \A T \in SUBSET F : IsFiniteSet(T) /\ Cardinality(T) \in Nat
    BY SplitFinite
  <1> HIDE DEF A, B, C, F
  <1>5. IsFiniteSet(A) /\ IsFiniteSet(B) /\ IsFiniteSet(C)
    BY <1>2, <1>4
  <1>6. IsFiniteSet(A \cup B) /\ Cardinality(A \cup B) = Cardinality(A) + Cardinality(B)
    BY <1>3, <1>5, SizesAdd
  <1>7. Cardinality((A \cup B) \cup C) = Cardinality(A \cup B) + Cardinality(C)
    BY <1>3, <1>5, <1>6, SizesAdd
  <1>8. QED
    BY <1>1, <1>3, <1>6, <1>7

\* The failures by domain are all of them.
LEMMA DomainsClose ==
  ASSUME NEW S, NEW list \in Seq(S)
  PROVE  Summary(list).failed = Cardinality(UNION {{r.domain} \X (1..r.fail) : r \in DomainRows(list)})
  <1> DEFINE rows == DomainRows(list)
             F == Split(list, "fail")
             D == DomainsOf(list, F)
             class == [k \in F |-> ClassifyDomain(list[k].title)]
  <1>1. /\ \A r \in rows : r.fail = InDomain(list, F, r.domain) /\ r.fail \in Nat
        /\ \A r \in rows : r.fail > 0 => r.domain \in D
        /\ \A d \in D : \E r \in rows : r.domain = d /\ r.fail > 0
    BY RowFacts
  <1>2. class \in [F -> D]
    BY DEF DomainsOf
  <1>3. IsFiniteSet(F)
    BY SplitFinite
  <1>4. \A d : Class(F, class, d) = {k \in F : ClassifyDomain(list[k].title) = d}
    BY DEF Class
  <1>5. \A d : Cardinality(Class(F, class, d)) = InDomain(list, F, d)
    BY <1>4 DEF InDomain
  <1> HIDE DEF rows, F, D, class
  <1> DEFINE T == UNION {{r.domain} \X (1..r.fail) : r \in rows}
  <1>6. \A x : x \in T <=> \E r \in rows : \E n \in 1..r.fail : x = <<r.domain, n>>
    OBVIOUS
  <1> HIDE DEF T
  <1>7. \A x : x \in T <=> \E d \in D : \E n \in 1..InDomain(list, F, d) : x = <<d, n>>
    <2>1. ASSUME NEW d \in D, NEW n \in 1..InDomain(list, F, d) PROVE <<d, n>> \in T
      BY <1>1, <1>6, <2>1
    <2>2. ASSUME NEW r \in rows, NEW n \in 1..r.fail
          PROVE  r.domain \in D /\ n \in 1..InDomain(list, F, r.domain)
      BY <1>1, <2>2
    <2>3. QED
      BY <1>6, <2>1, <2>2
  <1>8. Numbered(T, F, class, D)
    BY <1>5, <1>7 DEF Numbered
  <1>9. Cardinality(F) = Cardinality(T)
    BY <1>2, <1>3, <1>8, ClassSizes
  <1>10. QED
    BY <1>9 DEF Summary, Count, rows, F, T

LEMMA TargetClose ==
  ASSUME NEW S, NEW list \in Seq(S)
  PROVE  TargetReportsClose(list)
  <1> DEFINE rows == DomainRows(list)
             F == Split(list, "fail")
             sections == Sections(list)
  <1>1. /\ \A r \in rows : r.fail = InDomain(list, F, r.domain) /\ r.fail \in Nat
        /\ \A r, q \in rows : r.domain = q.domain => r = q
        /\ \A r \in rows : r.fail > 0 => r.domain \in DomainsOf(list, F)
        /\ \A d \in DomainsOf(list, F) : \E r \in rows : r.domain = d /\ r.fail > 0
    BY RowFacts
  <1>2. [d \in {r.domain : r \in {q \in rows : q.fail > 0}} |-> (CHOOSE r \in rows : r.domain = d).fail]
          = KeyRisks(list)
    <2>1. KeyRisks(list) = [d \in DomainsOf(list, F) |-> InDomain(list, F, d)]
      BY DEF KeyRisks
    <2> HIDE DEF rows, F
    <2>2. {r.domain : r \in {q \in rows : q.fail > 0}} = DomainsOf(list, F)
      BY <1>1
    <2>3. ASSUME NEW d \in DomainsOf(list, F)
          PROVE  (CHOOSE r \in rows : r.domain = d).fail = InDomain(list, F, d)
      <3>1. (CHOOSE r \in rows : r.domain = d) \in rows /\ (CHOOSE r \in rows : r.domain = d).domain = d
        BY <1>1
      <3>2. QED
        BY <1>1, <3>1
    <2>4. QED
      BY <2>1, <2>2, <2>3
  <1>3. ASSUME NEW k \in DOMAIN list PROVE Cardinality({i \in DOMAIN sections : k \in sections[i]}) = 1
    <2> DEFINE of == <<"fail", "not_assessed", "not_applicable", "pass">>
    <2>1. DOMAIN sections = 1..4 /\ \A i \in 1..4 : sections[i] = Split(list, of[i])
      BY DEF Sections
    <2>2. \A i, j \in 1..4 : of[i] = of[j] => i = j
      OBVIOUS
    <2>3. \A r \in Parts : \E i \in 1..4 : of[i] = r
      <3>1. of[1] = "fail" /\ of[2] = "not_assessed" /\ of[3] = "not_applicable" /\ of[4] = "pass"
        OBVIOUS
      <3> HIDE DEF of
      <3>2. QED
        BY <3>1 DEF Parts
    <2> HIDE DEF of, sections
    <2>4. PICK i \in 1..4 : k \in sections[i]
      BY <2>1, <2>3, SplitFacts
    <2>5. \A j \in 1..4 : k \in sections[j] => j = i
      BY <2>1, <2>2, <2>4, SplitFacts
    <2>6. {j \in DOMAIN sections : k \in sections[j]} = {i}
      BY <2>1, <2>4, <2>5
    <2>7. QED
      BY <2>6, FS_Singleton
  <1>4. Summary(list).failed = Cardinality(sections[1])
    BY DEF Summary, Count, Sections
  <1>5. QED
    BY <1>2, <1>3, <1>4, LevelsClose, DomainsClose DEF TargetReportsClose

\* What is pooled of the findings of a batch is finite.
LEMMA PooledFinite ==
  ASSUME NEW batch, Posted(batch), NEW part,
         \A k \in Succeeded(batch) : part[k] \subseteq DOMAIN batch[k].findings
  PROVE  /\ \A k, i : <<k, i>> \in Pooled(batch, part) <=> k \in Succeeded(batch) /\ i \in part[k]
         /\ \A p \in Pooled(batch, part) : p = <<p[1], p[2]>>
         /\ IsFiniteSet(Pooled(batch, part))
  <1> DEFINE U == DOMAIN batch
             V == 1..(2 * Percent)
  <1>1. batch \in Seq(ToSet(batch)) /\ IsFiniteSet(U)
    BY ListFacts DEF Posted
  <1>2. 2 * Percent \in Nat
    BY ComplianceAssumption DEF ComplianceAssumption
  <1>3. IsFiniteSet(V)
    <2>1. \A n \in Nat : IsFiniteSet(1..n)
      BY FS_Interval
    <2>2. QED
      BY <1>2, <2>1
  <1>4. \A k \in Succeeded(batch) : k \in U /\ part[k] \subseteq V
    <2> SUFFICES ASSUME NEW k \in Succeeded(batch) PROVE k \in U /\ part[k] \subseteq V
      OBVIOUS
    <2>1. k \in U /\ Outcome(batch[k].findings)
      BY DEF Succeeded, Posted
    <2>2. batch[k].findings \in Seq(ToSet(batch[k].findings)) /\ Len(batch[k].findings) < 2 * Percent
      BY <2>1 DEF Outcome
    <2>3. DOMAIN batch[k].findings = 1..Len(batch[k].findings) /\ Len(batch[k].findings) \in Nat
      BY <2>2, ListFacts
    <2>4. DOMAIN batch[k].findings \subseteq V
      BY <1>2, <2>2, <2>3
    <2>5. QED
      BY <2>1, <2>4
  <1> HIDE DEF U, V
  <1>5. /\ \A k, i : <<k, i>> \in Pooled(batch, part) <=> k \in Succeeded(batch) /\ i \in part[k]
        /\ \A p \in Pooled(batch, part) : p = <<p[1], p[2]>>
    BY DEF Pooled
  <1>6. Pooled(batch, part) \in SUBSET (U \X V)
    BY <1>4 DEF Pooled
  <1>7. IsFiniteSet(U \X V)
    BY <1>1, <1>3, FS_Product
  <1>8. IsFiniteSet(Pooled(batch, part))
    BY <1>6, <1>7, FS_Subset
  <1>9. QED
    BY <1>5, <1>8

LEMMA EvaluatedFacts ==
  ASSUME NEW batch, Posted(batch)
  PROVE  /\ \A k, i : <<k, i>> \in AllEvaluated(batch) <=> k \in Succeeded(batch) /\ i \in Evaluated(batch[k].findings)
         /\ \A p \in AllEvaluated(batch) : p = <<p[1], p[2]>>
         /\ IsFiniteSet(AllEvaluated(batch))
  <1> DEFINE part == [k \in DOMAIN batch |-> Evaluated(batch[k].findings)]
  <1>1. \A k \in Succeeded(batch) : part[k] = Evaluated(batch[k].findings)
    BY DEF Succeeded
  <1>2. \A list : Evaluated(list) \subseteq DOMAIN list
    BY SplitFacts DEF Evaluated
  <1>3. AllEvaluated(batch) = Pooled(batch, part)
    BY DEF AllEvaluated
  <1> HIDE DEF part
  <1>4. \A k \in Succeeded(batch) : part[k] \subseteq DOMAIN batch[k].findings
    BY <1>1, <1>2
  <1>5. /\ \A k, i : <<k, i>> \in Pooled(batch, part) <=> k \in Succeeded(batch) /\ i \in part[k]
        /\ \A p \in Pooled(batch, part) : p = <<p[1], p[2]>>
        /\ IsFiniteSet(Pooled(batch, part))
    BY <1>4, PooledFinite
  <1>6. QED
    BY <1>1, <1>3, <1>5

\* The evaluated findings of a title that are of some statuses are as many as
\* the assets on which they are: no asset has two.
LEMMA TitleOnAssets ==
  ASSUME NEW batch, Posted(batch), NEW title, NEW statuses \in {{"FAIL"}, {"PASS", "FAIL"}}
  PROVE  LET G == {p \in AllEvaluated(batch) :
                      FindingAt(batch, p).title = title /\ FindingAt(batch, p).status \in statuses}
         IN  /\ IsFiniteSet(G)
             /\ Cardinality(G) = Cardinality(On(batch, title, statuses))
             /\ G = {} <=> On(batch, title, statuses) = {}
             /\ IsFiniteSet(On(batch, title, statuses))
  <1> DEFINE G == {p \in AllEvaluated(batch) :
                      FindingAt(batch, p).title = title /\ FindingAt(batch, p).status \in statuses}
             T == On(batch, title, statuses)
             at == [p \in G |-> p[1]]
  <1>1. /\ \A k, i : <<k, i>> \in AllEvaluated(batch) <=> k \in Succeeded(batch) /\ i \in Evaluated(batch[k].findings)
        /\ \A p \in AllEvaluated(batch) : p = <<p[1], p[2]>>
        /\ IsFiniteSet(AllEvaluated(batch))
    BY EvaluatedFacts
  <1>2. ASSUME NEW k \in Succeeded(batch)
        PROVE  /\ Outcome(batch[k].findings)
               /\ Evaluated(batch[k].findings) \subseteq DOMAIN batch[k].findings
               /\ \A i \in DOMAIN batch[k].findings :
                     i \in Evaluated(batch[k].findings)
                        <=> /\ batch[k].findings[i].status \in {"PASS", "FAIL"}
                            /\ ~LeftOut(batch[k].findings[i], batch[k])
    <2>1. Outcome(batch[k].findings)
      BY DEF Succeeded, Posted
    <2>2. QED
      BY <2>1, SplitMeaning, SplitFacts DEF Evaluated
  <1>3. ASSUME NEW k
        PROVE  k \in T <=> /\ k \in Succeeded(batch)
                           /\ \E i \in DOMAIN batch[k].findings :
                                 /\ batch[k].findings[i].title = title
                                 /\ batch[k].findings[i].status \in statuses
                                 /\ ~LeftOut(batch[k].findings[i], batch[k])
    BY DEF On, With, ToSet
  <1>4. \A k, i : <<k, i>> \in G <=>
            /\ k \in Succeeded(batch) /\ i \in DOMAIN batch[k].findings
            /\ batch[k].findings[i].title = title
            /\ batch[k].findings[i].status \in statuses
            /\ ~LeftOut(batch[k].findings[i], batch[k])
    <2>1. \A k, i : <<k, i>> \in G <=>
            /\ k \in Succeeded(batch) /\ i \in Evaluated(batch[k].findings)
            /\ batch[k].findings[i].title = title /\ batch[k].findings[i].status \in statuses
      BY <1>1 DEF FindingAt
    <2>2. \A x : x \in statuses => x \in {"PASS", "FAIL"}
      OBVIOUS
    <2> HIDE DEF G
    <2>3. QED
      BY <1>2, <2>1, <2>2
  <1>5. G \in SUBSET AllEvaluated(batch)
    OBVIOUS
  <1> HIDE DEF G, T
  <1>6. IsFiniteSet(G)
    BY <1>1, <1>5, FS_Subset
  <1>7. \A p \in G : p = <<p[1], p[2]>>
    BY <1>1, <1>5
  <1>8. at \in [G -> T]
    BY <1>3, <1>4, <1>7
  <1>9. ASSUME NEW p \in G, NEW q \in G, at[p] = at[q] PROVE p = q
    <2>1. p[1] = q[1] /\ p = <<p[1], p[2]>> /\ q = <<q[1], q[2]>>
      BY <1>7, <1>9
    <2>2. /\ p[1] \in Succeeded(batch) /\ p[2] \in DOMAIN batch[p[1]].findings
          /\ q[2] \in DOMAIN batch[p[1]].findings
          /\ batch[p[1]].findings[p[2]].title = batch[p[1]].findings[q[2]].title
      BY <1>4, <2>1
    <2>3. p[2] = q[2]
      BY <1>2, <2>2 DEF Outcome
    <2>4. QED
      BY <2>1, <2>3
  <1>10. ASSUME NEW k \in T PROVE \E p \in G : at[p] = k
    <2>1. PICK i \in DOMAIN batch[k].findings : <<k, i>> \in G
      BY <1>3, <1>4
    <2>2. at[<<k, i>>] = k
      BY <2>1
    <2>3. QED
      BY <2>1, <2>2
  <1>11. IsFiniteSet(T) /\ Cardinality(T) = Cardinality(G)
    <2> HIDE DEF at
    <2>1. QED
      BY <1>6, <1>8, <1>9, <1>10, SameSize
  <1>12. G = {} <=> T = {}
    BY <1>8, <1>10
  <1>13. QED
    BY <1>6, <1>11, <1>12 DEF G, T

LEMMA PrevalenceCloses ==
  ASSUME NEW batch, Posted(batch)
  PROVE  PrevalenceCountsTargets(batch)
  <1> DEFINE E == AllEvaluated(batch)
             ti(p) == FindingAt(batch, p).title
             st(p) == FindingAt(batch, p).status
             G(t, s) == {p \in E : ti(p) = t /\ st(p) \in s}
             row(t) == [title |-> t,
                        affected |-> Cardinality(On(batch, t, {"FAIL"})),
                        applicable |-> Cardinality(On(batch, t, {"PASS", "FAIL"}))]
  <1>1. \A t : \A s \in {{"FAIL"}, {"PASS", "FAIL"}} :
          /\ IsFiniteSet(On(batch, t, s)) /\ Cardinality(G(t, s)) = Cardinality(On(batch, t, s))
          /\ G(t, s) = {} <=> On(batch, t, s) = {}
    BY TitleOnAssets
  <1>2. \A p \in E : ti(p) \in Titles /\ st(p) \in {"PASS", "FAIL"}
    <2> SUFFICES ASSUME NEW p \in E PROVE ti(p) \in Titles /\ st(p) \in {"PASS", "FAIL"}
      OBVIOUS
    <2>1. p[1] \in Succeeded(batch) /\ p[2] \in Evaluated(batch[p[1]].findings)
      BY EvaluatedFacts
    <2>2. Outcome(batch[p[1]].findings) /\ p[2] \in DOMAIN batch[p[1]].findings
      BY <2>1, SplitFacts DEF Succeeded, Posted, Evaluated
    <2>3. batch[p[1]].findings[p[2]].status \in {"PASS", "FAIL"}
      BY <2>1, <2>2, SplitMeaning DEF Evaluated
    <2>4. batch[p[1]].findings[p[2]].title \in Titles
      BY <2>2 DEF Outcome
    <2>5. QED
      BY <2>3, <2>4 DEF FindingAt
  <1>3. ASSUME NEW t PROVE PrevalenceRow(batch, E, t) = row(t)
    <2>1. {p \in E : ti(p) = t} = G(t, {"PASS", "FAIL"})
      BY <1>2
    <2>2. {p \in {q \in E : ti(q) = t} : st(p) = "FAIL"} = G(t, {"FAIL"})
      OBVIOUS
    <2>3. PrevalenceRow(batch, E, t) =
            [title |-> t, affected |-> Cardinality({p \in {q \in E : ti(q) = t} : st(p) = "FAIL"}),
             applicable |-> Cardinality({p \in E : ti(p) = t})]
      BY DEF PrevalenceRow
    <2>4. QED
      BY <1>1, <2>1, <2>2, <2>3
  <1>4. Prevalence(batch) = {r \in {row(t) : t \in {ti(p) : p \in E}} : r.affected > 0}
    <2>1. Prevalence(batch) = {r \in {PrevalenceRow(batch, E, t) : t \in {ti(p) : p \in E}} : r.affected > 0}
      BY DEF Prevalence
    <2>2. QED
      BY <1>3, <2>1
  <1>5. ASSUME NEW t
        PROVE  /\ row(t).affected > 0 <=> On(batch, t, {"FAIL"}) # {}
               /\ On(batch, t, {"FAIL"}) # {} => t \in {ti(p) : p \in E} /\ t \in Titles
    <2>1. /\ IsFiniteSet(On(batch, t, {"FAIL"}))
          /\ G(t, {"FAIL"}) = {} <=> On(batch, t, {"FAIL"}) = {}
      BY <1>1
    <2>2. /\ Cardinality(On(batch, t, {"FAIL"})) \in Nat
          /\ Cardinality(On(batch, t, {"FAIL"})) = 0 <=> On(batch, t, {"FAIL"}) = {}
      BY <2>1, FS_CardinalityType, FS_EmptySet
    <2>3. G(t, {"FAIL"}) # {} => t \in {ti(p) : p \in E} /\ t \in Titles
      BY <1>2
    <2>4. QED
      BY <2>1, <2>2, <2>3
  <1> HIDE DEF E
  <1>6. {r \in {row(t) : t \in {ti(p) : p \in E}} : r.affected > 0}
          = {row(t) : t \in {u \in Titles : On(batch, u, {"FAIL"}) # {}}}
    <2> HIDE DEF row, ti
    <2>1. QED
      BY <1>5
  <1>7. QED
    BY <1>4, <1>6 DEF PrevalenceCountsTargets

\* What was processed is what applies, what does not and what was not assessed.
LEMMA PartsClose ==
  ASSUME NEW batch, Posted(batch)
  PROVE  Overview(batch).processed
           = Overview(batch).applicable + Overview(batch).not_applicable + Overview(batch).not_assessed
  <1> DEFINE all == [k \in DOMAIN batch |-> DOMAIN batch[k].findings]
             na == [k \in DOMAIN batch |-> Split(batch[k].findings, "not_applicable")]
             no == [k \in DOMAIN batch |-> Split(batch[k].findings, "not_assessed")]
             A == AllEvaluated(batch)
             B == Pooled(batch, na)
             C == Pooled(batch, no)
             W == Pooled(batch, all)
  <1>1. /\ Overview(batch).processed = Cardinality(W) /\ Overview(batch).applicable = Cardinality(A)
        /\ Overview(batch).not_applicable = Cardinality(B) /\ Overview(batch).not_assessed = Cardinality(C)
    BY DEF Overview
  <1>2. \A k \in Succeeded(batch) :
          /\ all[k] = DOMAIN batch[k].findings
          /\ na[k] = Split(batch[k].findings, "not_applicable")
          /\ no[k] = Split(batch[k].findings, "not_assessed")
    BY DEF Succeeded
  <1> HIDE DEF all, na, no
  <1>3. \A k \in Succeeded(batch) : /\ all[k] \subseteq DOMAIN batch[k].findings
                                    /\ na[k] \subseteq DOMAIN batch[k].findings
                                    /\ no[k] \subseteq DOMAIN batch[k].findings
    BY <1>2, SplitFacts
  <1>4. /\ IsFiniteSet(A) /\ \A p \in A : p = <<p[1], p[2]>>
        /\ \A k, i : <<k, i>> \in A <=> k \in Succeeded(batch) /\ i \in Evaluated(batch[k].findings)
    BY EvaluatedFacts
  <1>5. /\ IsFiniteSet(B) /\ \A p \in B : p = <<p[1], p[2]>>
        /\ \A k, i : <<k, i>> \in B <=> k \in Succeeded(batch) /\ i \in na[k]
    BY <1>3, PooledFinite
  <1>6. /\ IsFiniteSet(C) /\ \A p \in C : p = <<p[1], p[2]>>
        /\ \A k, i : <<k, i>> \in C <=> k \in Succeeded(batch) /\ i \in no[k]
    BY <1>3, PooledFinite
  <1>7. /\ \A p \in W : p = <<p[1], p[2]>>
        /\ \A k, i : <<k, i>> \in W <=> k \in Succeeded(batch) /\ i \in all[k]
    BY <1>3, PooledFinite
  <1> HIDE DEF A, B, C, W
  <1>8. ASSUME NEW k \in Succeeded(batch), NEW i
        PROVE  /\ i \in all[k] <=> i \in Evaluated(batch[k].findings) \/ i \in na[k] \/ i \in no[k]
               /\ ~(i \in Evaluated(batch[k].findings) /\ i \in na[k])
               /\ ~(i \in Evaluated(batch[k].findings) /\ i \in no[k])
               /\ ~(i \in na[k] /\ i \in no[k])
    <2> DEFINE list == batch[k].findings
    <2>1. /\ \A r : Split(list, r) \subseteq DOMAIN list
          /\ \A j \in DOMAIN list : \E r \in Parts : j \in Split(list, r)
          /\ \A r, q : r # q => Split(list, r) \cap Split(list, q) = {}
      BY SplitFacts
    <2> HIDE DEF list
    <2>2. /\ i \in DOMAIN list <=> \/ i \in Split(list, "pass") \/ i \in Split(list, "fail")
                                   \/ i \in Split(list, "not_applicable") \/ i \in Split(list, "not_assessed")
      BY <2>1 DEF Parts
    <2>3. QED
      BY <1>2, <2>1, <2>2 DEF Evaluated, list
  <1>9. A \cap B = {} /\ (A \cup B) \cap C = {}
    BY <1>4, <1>5, <1>6, <1>8
  <1>10. W = (A \cup B) \cup C
    <2>1. \A p : (p \in W \/ p \in A \/ p \in B \/ p \in C) => p = <<p[1], p[2]>>
      BY <1>4, <1>5, <1>6, <1>7
    <2>2. \A k, i : <<k, i>> \in W <=> <<k, i>> \in (A \cup B) \cup C
      BY <1>4, <1>5, <1>6, <1>7, <1>8
    <2>3. QED
      BY <2>1, <2>2
  <1>11. IsFiniteSet(A \cup B) /\ Cardinality(A \cup B) = Cardinality(A) + Cardinality(B)
    BY <1>4, <1>5, <1>9, SizesAdd
  <1>12. Cardinality((A \cup B) \cup C) = Cardinality(A \cup B) + Cardinality(C)
    BY <1>6, <1>9, <1>11, SizesAdd
  <1>13. QED
    BY <1>1, <1>10, <1>11, <1>12

\* The domains of a batch count assets that the technical reports list in them.
LEMMA AffectedClose ==
  ASSUME NEW batch, Posted(batch)
  PROVE  AffectedDomains(batch) =
            LET failing(k) == {r.domain : r \in {q \in DomainRows(batch[k].findings) : q.fail > 0}}
                cases == UNION {{k} \X failing(k) : k \in Succeeded(batch)}
            IN  [d \in {c[2] : c \in cases} |-> Cardinality({c \in cases : c[2] = d})]
  <1> DEFINE failed(k) == DomainsOf(batch[k].findings, Split(batch[k].findings, "fail"))
             failing(k) == {r.domain : r \in {q \in DomainRows(batch[k].findings) : q.fail > 0}}
             hits == UNION {failed(k) \X {batch[k].name} : k \in Succeeded(batch)}
             cases == UNION {{k} \X failing(k) : k \in Succeeded(batch)}
             H(d) == {h \in hits : h[1] = d}
             C(d) == {c \in cases : c[2] = d}
  <1>1. ASSUME NEW k \in Succeeded(batch) PROVE failing(k) = failed(k)
    <2> DEFINE list == batch[k].findings
    <2>1. list \in Seq(ToSet(list))
      BY DEF Succeeded, Posted, Outcome
    <2>2. /\ \A r \in DomainRows(list) : r.fail > 0 => r.domain \in failed(k)
          /\ \A d \in failed(k) : \E r \in DomainRows(list) : r.domain = d /\ r.fail > 0
      <3> HIDE DEF list
      <3>1. /\ \A r \in DomainRows(list) : r.fail > 0 => r.domain \in DomainsOf(list, Split(list, "fail"))
            /\ \A d \in DomainsOf(list, Split(list, "fail")) : \E r \in DomainRows(list) : r.domain = d /\ r.fail > 0
        BY <2>1, RowFacts
      <3>2. QED
        BY <3>1 DEF list
    <2> HIDE DEF failed
    <2>3. QED
      BY <2>2
  <1> HIDE DEF failed, failing
  <1>2. /\ \A x : x \in hits <=> \E k \in Succeeded(batch) : \E d \in failed(k) : x = <<d, batch[k].name>>
        /\ \A x : x \in cases <=> \E k \in Succeeded(batch) : \E d \in failed(k) : x = <<k, d>>
    BY <1>1
  <1> HIDE DEF hits, cases
  <1>3. {h[1] : h \in hits} = {c[2] : c \in cases}
    <2>1. \A k \in Succeeded(batch) : \A d \in failed(k) :
            /\ <<d, batch[k].name>> \in hits /\ <<d, batch[k].name>>[1] = d
            /\ <<k, d>> \in cases /\ <<k, d>>[2] = d
      BY <1>2
    <2>2. ASSUME NEW h \in hits PROVE \E c \in cases : c[2] = h[1]
      <3>1. PICK k \in Succeeded(batch) : \E d \in failed(k) : h = <<d, batch[k].name>>
        BY <1>2
      <3>2. PICK d \in failed(k) : h = <<d, batch[k].name>>
        BY <3>1
      <3>3. h[1] = d /\ <<k, d>> \in cases /\ <<k, d>>[2] = d
        BY <2>1, <3>2
      <3>4. QED
        BY <3>3
    <2>3. ASSUME NEW c \in cases PROVE \E h \in hits : h[1] = c[2]
      <3>1. PICK k \in Succeeded(batch) : \E d \in failed(k) : c = <<k, d>>
        BY <1>2
      <3>2. PICK d \in failed(k) : c = <<k, d>>
        BY <3>1
      <3>3. c[2] = d /\ <<d, batch[k].name>> \in hits /\ <<d, batch[k].name>>[1] = d
        BY <2>1, <3>2
      <3>4. QED
        BY <3>3
    <2>4. QED
      BY <2>2, <2>3
  <1>4. ASSUME NEW d PROVE Cardinality(H(d)) = Cardinality(C(d))
    <2> DEFINE f == [c \in C(d) |-> <<d, batch[c[1]].name>>]
    <2>1. /\ \A x : x \in H(d) <=> \E k \in Succeeded(batch) : d \in failed(k) /\ x = <<d, batch[k].name>>
          /\ \A x : x \in C(d) <=> \E k \in Succeeded(batch) : d \in failed(k) /\ x = <<k, d>>
      BY <1>2
    <2> HIDE DEF H, C
    <2>2. \A j, k \in Succeeded(batch) : batch[j].name = batch[k].name => j = k
      BY DEF Posted, Succeeded
    <2>3. IsFiniteSet(C(d))
      <3>1. C(d) \in SUBSET ((DOMAIN batch) \X {d})
        BY <2>1 DEF Succeeded
      <3>2. IsFiniteSet(DOMAIN batch) /\ IsFiniteSet({d})
        BY ListFacts, FS_Singleton DEF Posted
      <3>3. IsFiniteSet((DOMAIN batch) \X {d})
        BY <3>2, FS_Product
      <3>4. QED
        BY <3>1, <3>3, FS_Subset
    <2>4. \A c \in C(d) : c = <<c[1], d>> /\ c[1] \in Succeeded(batch) /\ d \in failed(c[1])
      BY <2>1
    <2>5. f \in [C(d) -> H(d)]
      BY <2>1, <2>4
    <2>6. \A x, y \in C(d) : f[x] = f[y] => x = y
      BY <2>2, <2>4
    <2>7. ASSUME NEW h \in H(d) PROVE \E c \in C(d) : f[c] = h
      <3>1. PICK k \in Succeeded(batch) : d \in failed(k) /\ h = <<d, batch[k].name>>
        BY <2>1
      <3>2. <<k, d>> \in C(d)
        BY <2>1, <3>1
      <3>3. f[<<k, d>>] = h
        BY <3>1, <3>2
      <3>4. QED
        BY <3>2, <3>3
    <2> HIDE DEF f
    <2>8. QED
      BY <2>3, <2>5, <2>6, <2>7, SameSize
  <1>5. AffectedDomains(batch) = [d \in {h[1] : h \in hits} |-> Cardinality(H(d))]
    BY DEF AffectedDomains, hits, failed, H
  <1>6. [d \in {h[1] : h \in hits} |-> Cardinality(H(d))] = [d \in {c[2] : c \in cases} |-> Cardinality(C(d))]
    <2> HIDE DEF H, C
    <2>1. QED
      BY <1>3, <1>4
  <1>7. QED
    BY <1>5, <1>6 DEF cases, failing, C

LEMMA OverviewClose ==
  ASSUME NEW batch, Posted(batch)
  PROVE  OverviewCloses(batch)
  <1>1. Overview(batch).selected = Overview(batch).assessed + Overview(batch).failed
    <2> DEFINE A == Succeeded(batch)
               B == DOMAIN batch \ Succeeded(batch)
    <2>1. IsFiniteSet(DOMAIN batch) /\ Cardinality(DOMAIN batch) = Len(batch)
      BY ListFacts DEF Posted
    <2>2. A \in SUBSET DOMAIN batch /\ B \in SUBSET DOMAIN batch /\ A \cap B = {} /\ A \cup B = DOMAIN batch
      BY DEF Succeeded
    <2>3. /\ Overview(batch).selected = Len(batch)
          /\ Overview(batch).assessed = Cardinality(A) /\ Overview(batch).failed = Cardinality(B)
      BY DEF Overview
    <2> HIDE DEF A, B
    <2>4. IsFiniteSet(A) /\ IsFiniteSet(B)
      BY <2>1, <2>2, FS_Subset
    <2>5. Cardinality(A \cup B) = Cardinality(A) + Cardinality(B)
      BY <2>2, <2>4, SizesAdd
    <2>6. QED
      BY <2>1, <2>2, <2>3, <2>5
  <1>2. QED
    BY <1>1, PartsClose, AffectedClose DEF OverviewCloses

\* The reports of a target that was assessed list each failure once, by level
\* and by domain, and each finding in one section; the overview of every batch
\* that can be posted is the sum of its targets' summaries, and the tables of
\* failures and of domains count targets.
THEOREM ReportsClose == Spec => []ReportsAgree
  <1>1. Outcomes => ReportsAgree
    <2> SUFFICES ASSUME Outcomes PROVE ReportsAgree
      OBVIOUS
    <2>1. ASSUME NEW s \in Assessors PROVE TargetReportsClose(findings[s])
      <3>1. findings[s] \in Seq(ToSet(findings[s]))
        BY DEF Outcomes, Outcome
      <3>2. QED
        BY <3>1, TargetClose
    <2>2. ASSUME NEW b \in Batches PROVE PrevalenceCountsTargets(b) /\ OverviewCloses(b)
      <3>1. Posted(b)
        BY BatchesPosted
      <3>2. QED
        BY <3>1, PrevalenceCloses, OverviewClose
    <2>3. QED
      BY <2>1, <2>2 DEF ReportsAgree
  <1>2. QED
    BY <1>1, OutcomesAreSound, PTL

-----------------------------------------------------------------------------
(* Every ingestion ends                                                    *)

\* Steps that are left to an ingester: the bootstrap may extract, store and
\* normalise once more after a first normalisation that failed.
StepsLeft(w) ==
    CASE pc[w] = "idle" -> 0
      [] pc[w] = "write" -> IF boot[w] = "try" THEN 6 ELSE 1
      [] pc[w] = "read" -> IF boot[w] = "try" THEN 7 ELSE 2
      [] pc[w] = "normalize" -> IF boot[w] = "try" THEN 8 ELSE 3
      [] pc[w] = "store" -> IF boot[w] = "try" THEN 9 ELSE 4
      [] pc[w] = "extract" -> IF boot[w] = "try" THEN 10 ELSE 5

\* Only a new request gives an ingester something to do; each of its other
\* steps brings its end nearer.
IngestersAdvance ==
    [][\A w \in Ingesters :
          ~Request(w) => /\ StepsLeft(w)' <= StepsLeft(w)
                         /\ Ingest(w) => StepsLeft(w)' < StepsLeft(w)]_vars

LEMMA IngestAdvances ==
  ASSUME Labels, NEW w \in Ingesters, Ingest(w)
  PROVE  /\ \A x \in Ingesters \ {w} : pc'[x] = pc[x] /\ boot'[x] = boot[x]
         /\ Request(w) \/ StepsLeft(w)' < StepsLeft(w)
  <1>0. /\ pc \in [Ingesters -> {"idle", "extract", "store", "normalize", "read", "write"}]
        /\ boot \in [Ingesters -> {"no", "try", "ingest"}]
    BY DEF Labels
  <1>1. CASE Request(w)
    BY <1>0, <1>1 DEF Request, Move
  <1>2. CASE Extract(w)
    BY <1>0, <1>2 DEF Extract, Fail, Move, StepsLeft
  <1>3. CASE Store(w)
    BY <1>0, <1>3 DEF Store, Move, StepsLeft
  <1>4. CASE ReadLatest(w)
    BY <1>0, <1>4 DEF ReadLatest, Fail, Move, StepsLeft
  <1>5. CASE ReadItems(w)
    BY <1>0, <1>5 DEF ReadItems, StepsLeft
  <1>6. CASE WriteControls(w) \/ NormalizeFails(w)
    BY <1>0, <1>6 DEF WriteControls, NormalizeFails, Fail, Move, StepsLeft
  <1>7. QED
    BY <1>1, <1>2, <1>3, <1>4, <1>5, <1>6 DEF Ingest

\* Every ingestion ends after at most eight steps, that of the bootstrap too: it
\* normalises, fetches, stores and normalises again, and never comes back to
\* its first attempt, whatever fails and whoever else ingests meanwhile.
THEOREM IngestionsEnd == Spec => IngestersAdvance
  <1>1. ASSUME Labels, [Next]_vars, NEW w \in Ingesters, ~Request(w)
        PROVE  /\ StepsLeft(w)' <= StepsLeft(w)
               /\ Ingest(w) => StepsLeft(w)' < StepsLeft(w)
    <2>1. StepsLeft(w) \in 0..10
      BY <1>1 DEF Labels, StepsLeft
    <2>2. Ingest(w) => StepsLeft(w)' < StepsLeft(w)
      BY <1>1, IngestAdvances
    <2>3. ASSUME pc'[w] = pc[w], boot'[w] = boot[w]
          PROVE  StepsLeft(w)' = StepsLeft(w)
      BY <2>3 DEF StepsLeft
    <2>4. CASE Ingest(w)
      <3>1. StepsLeft(w)' \in 0..10
        <4>1. /\ pc'[w] \in {"idle", "extract", "store", "normalize", "read", "write"}
              /\ boot'[w] \in {"no", "try", "ingest"}
          BY <1>1, <2>4 DEF Labels, Ingest, Request, Extract, Store, ReadLatest, ReadItems, WriteControls,
             NormalizeFails, Fail, Move
        <4>2. QED
          BY <4>1 DEF StepsLeft
      <3>2. QED
        BY <2>1, <2>2, <2>4, <3>1
    <2>5. ASSUME NEW x \in Ingesters \ {w}, Ingest(x)
          PROVE  StepsLeft(w)' = StepsLeft(w)
      BY <1>1, <2>3, <2>5, IngestAdvances
    <2>6. CASE Crash
      <3>1. pc'[w] = "idle"
        BY <2>6 DEF Crash, IngestersDie
      <3>2. StepsLeft(w)' = 0
        BY <3>1 DEF StepsLeft
      <3>3. QED
        BY <2>1, <2>2, <3>2
    <2>7. CASE UNCHANGED benchmarkVars
      <3>1. StepsLeft(w)' = StepsLeft(w)
        BY <2>3, <2>7 DEF benchmarkVars
      <3>2. QED
        BY <2>1, <2>2, <3>1
    <2>8. (\E x \in Ingesters : Ingest(x)) \/ Crash \/ UNCHANGED benchmarkVars
      BY <1>1 DEF Next, vars, Assess, Join, JoinFails
    <2>9. QED
      BY <2>1, <2>2, <2>4, <2>5, <2>6, <2>7, <2>8
  <1>2. Labels /\ [Next]_vars
          => [\A w \in Ingesters :
                 ~Request(w) => /\ StepsLeft(w)' <= StepsLeft(w)
                                /\ Ingest(w) => StepsLeft(w)' < StepsLeft(w)]_vars
    BY <1>1
  <1>3. Ingestion => Labels
    BY DEF Ingestion
  <1>4. QED
    BY <1>2, <1>3, IngestionInvariance, PTL DEF Spec, IngestersAdvance
=============================================================================
