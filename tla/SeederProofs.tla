---------------------------- MODULE SeederProofs ----------------------------
(***************************************************************************)
(* Theorems about Seeder, for any files, versions, revisions of the        *)
(* program and batch size, and for any number of runs that fail or break   *)
(* off anywhere.                                                           *)
(***************************************************************************)
EXTENDS Seeder, SequenceTheorems, WellFoundedInduction, TLAPS

\* The steps of a run that seeds, and the modes that start with no codes.
SeedSteps == {"source", "codes", "hierarchy", "priority"}
Fresh     == {"init", "truncate"}

\* Each step belongs to a mode, and counts within its list of statements.
Modal ==
  /\ step # "idle" => run \in Runs
  /\ step = "create" => run.mode = "init" /\ done \in 0 .. 7
  /\ step = "dropCopy" => run.mode = "drop"
  /\ step = "drop" => run.mode = "drop" /\ done \in 0 .. 5
  /\ step = "truncate" => run.mode = "truncate" /\ done \in 0 .. 4
  /\ step = "normalize" => run.mode = "normalize"
  /\ step \in SeedSteps => run.mode \in Seeding
  /\ step = "sync" => run.mode # "drop"

\* What a schema that is half created or half dropped looks like.
HalfSchema ==
  /\ step = "create" /\ done >= 2 => HasTables
  /\ step = "drop" => \A i \in 1 .. 6 : i <= done => DropOrder[i] \notin tables

\* A table that is not there has no rows.
NoTableNoRows ==
  /\ "sources" \notin tables => sources = <<>>
  /\ "codes" \notin tables => codes = {}
  /\ "hierarchy" \notin tables => hierarchy = {}

\* What a half truncated database has left.
HalfTruncated ==
  step = "truncate" => /\ done >= 1 => hierarchy = {}
                       /\ done >= 3 => codes = {}
                       /\ done >= 4 => sources = <<>>

\* From InsertSource on, the source of the run is there.
SourceFound == step \in {"codes", "hierarchy", "priority"} => run.version \in Range(sources)

\* --drop has dropped the copy before it touches SQLite.
CopyGoesFirst == step = "drop" /\ run.postgres => pg = NoPg

SeederInv == /\ TypeOK /\ Modal /\ HalfSchema /\ NoTableNoRows /\ HalfTruncated /\ SourceFound
             /\ CopyGoesFirst
             /\ NoTableLeftBehind /\ NoDanglingRows /\ SuccessMeansSynchronized

-----------------------------------------------------------------------------
\* The lists of statements, one by one.
LEMMA Orders ==
  /\ Len(CreateOrder) = 8 /\ Len(DropOrder) = 6 /\ Len(TruncateOrder) = 5
  /\ CreateOrder[1] = "levels" /\ CreateOrder[2] = "sources" /\ CreateOrder[3] = "codes"
  /\ CreateOrder[4] = "alias" /\ CreateOrder[5] = "hierarchy" /\ CreateOrder[6] = "priority"
  /\ CreateOrder[7] = "address_requests" /\ CreateOrder[8] = "google_maps_cache"
  /\ DropOrder[1] = "hierarchy" /\ DropOrder[2] = "alias" /\ DropOrder[3] = "priority"
  /\ DropOrder[4] = "codes" /\ DropOrder[5] = "sources" /\ DropOrder[6] = "levels"
  /\ TruncateOrder[1] = "hierarchy" /\ TruncateOrder[2] = "alias" /\ TruncateOrder[3] = "codes"
  /\ TruncateOrder[4] = "sources" /\ TruncateOrder[5] = "sequence"
BY DEF CreateOrder, DropOrder, TruncateOrder

\* The tables of the location database.
LEMMA TheTables == Tables = {"levels", "sources", "codes", "alias", "hierarchy", "priority"}
<1>1. DOMAIN DropOrder = 1 .. 6
  BY DEF DropOrder
<1>2. Range(DropOrder) = {DropOrder[1], DropOrder[2], DropOrder[3], DropOrder[4], DropOrder[5], DropOrder[6]}
  BY <1>1 DEF Range
<1> QED
  BY <1>2, Orders DEF Tables

\* The source of a run that has one.
LEMMA CurrentIsThere ==
  ASSUME run.version \in Range(sources)
  PROVE  Current \in DOMAIN sources /\ sources[Current] = run.version
BY DEF Range, Current

\* What the program starts with satisfies the invariant.
LEMMA InitSeederInv == Init => SeederInv
<1> SUFFICES ASSUME Init PROVE SeederInv
  OBVIOUS
<1>1. TypeOK
  BY SeederAssumption DEF Init, TypeOK, Steps, Range
<1>2. NoTableLeftBehind /\ NoDanglingRows /\ SuccessMeansSynchronized
  BY DEF Init, NoTableLeftBehind, NoDanglingRows, SuccessMeansSynchronized
<1> QED
  BY <1>1, <1>2 DEF Init, SeederInv, Modal, HalfSchema, NoTableNoRows, HalfTruncated, SourceFound,
                    CopyGoesFirst, SeedSteps

\* A run starts with a step of its mode.
LEMMA StartFrame ==
  ASSUME NEW r \in Runs, Start(r)
  PROVE  /\ run' = r /\ done' = 0 /\ UNCHANGED <<db, pg>>
         /\ step' = "create" <=> r.mode = "init"
         /\ step' = "truncate" <=> r.mode = "truncate"
         /\ step' = "normalize" <=> r.mode = "normalize"
         /\ step' = "source" <=> r.mode = "update"
         /\ step' \in {"drop", "dropCopy"} <=> r.mode = "drop"
         /\ step' = "drop" => ~r.postgres
         /\ step' \in {"create", "truncate", "normalize", "source", "drop", "dropCopy"}
<1>1. r.mode \in {"init", "drop", "truncate", "normalize", "update"} /\ r.postgres \in BOOLEAN
  BY DEF Runs, Modes, Seeding
<1> QED
  BY <1>1 DEF Start, At, FirstStep

\* Every step belongs to the mode of its run.
LEMMA ModalStep == SeederInv /\ [Next]_vars => Modal'
<1> SUFFICES ASSUME SeederInv, [Next]_vars PROVE Modal'
  OBVIOUS
<1> USE DEF Modal, SeedSteps
<1>0. Modal
  BY DEF SeederInv
<1>1. ASSUME NEW r \in Runs, Start(r) PROVE Modal'
  BY <1>1, StartFrame DEF Seeding
<1>2. CASE Fail
  BY <1>2 DEF Fail, At
<1>3. CASE Create
  BY <1>0, <1>3, Orders DEF Create, Statement, At, Seeding
<1>4. CASE DropCopy \/ Drop
  BY <1>0, <1>4, Orders DEF DropCopy, Drop, Statement, At
<1>5. CASE Truncate
  BY <1>0, <1>5, Orders DEF Truncate, Statement, At, Seeding
<1>6. CASE Normalize
  BY <1>0, <1>6 DEF Normalize, At
<1>7. CASE InsertSource \/ RebuildHierarchy \/ RebuildPriority
  BY <1>0, <1>7 DEF InsertSource, RebuildHierarchy, RebuildPriority, At, Seeding
<1>8. CASE InsertBatch
  BY <1>0, <1>8 DEF InsertBatch, At
<1>9. CASE Sync
  BY <1>0, <1>9 DEF Sync, At
<1>10. CASE UNCHANGED vars
  BY <1>0, <1>10 DEF vars
<1> QED
  BY <1>1, <1>2, <1>3, <1>4, <1>5, <1>6, <1>7, <1>8, <1>9, <1>10 DEF Next

\* Every step keeps what is known of half a schema, and that no table with rows
\* is left without the one HasLocationTables looks for.
LEMMA SchemaStep ==
  SeederInv /\ [Next]_vars => HalfSchema' /\ NoTableNoRows' /\ NoTableLeftBehind'
<1> SUFFICES ASSUME SeederInv, [Next]_vars
             PROVE  HalfSchema' /\ NoTableNoRows' /\ NoTableLeftBehind'
  OBVIOUS
<1> USE TheTables DEF HalfSchema, NoTableNoRows, NoTableLeftBehind, HasTables, AddressTables
<1>0. /\ Modal /\ HalfSchema /\ NoTableNoRows /\ NoTableLeftBehind
      /\ tables \subseteq Tables \union AddressTables
  BY DEF SeederInv, TypeOK
<1>1. ASSUME UNCHANGED <<tables, sources, codes, hierarchy>>, step' \notin {"create", "drop"}
      PROVE  HalfSchema' /\ NoTableNoRows' /\ NoTableLeftBehind'
  BY <1>0, <1>1
<1>2. ASSUME NEW r \in Runs, Start(r) PROVE HalfSchema' /\ NoTableNoRows' /\ NoTableLeftBehind'
  <2>1. done' = 0 /\ UNCHANGED <<tables, sources, codes, hierarchy>>
    BY <1>2, StartFrame DEF db
  <2> QED
    BY <1>0, <2>1
<1>3. CASE Fail
  BY <1>1, <1>3 DEF Fail, At, db
<1>4. CASE Create
  <2>1. done \in 0 .. 7
    BY <1>0, <1>4 DEF Create, Modal
  <2>2. NoTableNoRows'
    BY <1>0, <1>4 DEF Create
  <2>3. /\ step = "create" /\ tables' = tables \union {CreateOrder[done + 1]}
        /\ step' \in {"create", "source"} /\ (step' = "create" => done' = done + 1)
    BY <1>4 DEF Create, Statement, At
  <2>4. CASE done = 0
    <3>1. tables' = tables \union {"levels"} /\ (step' = "create" => done' = 1) /\ step' # "drop"
      BY <2>3, <2>4, Orders
    <3> QED
      BY <1>0, <2>2, <3>1
  <2>5. CASE done = 1
    BY <1>0, <2>2, <2>3, <2>5, Orders
  <2>6. CASE done >= 2
    BY <1>0, <2>2, <2>3, <2>6
  <2> QED
    BY <2>1, <2>4, <2>5, <2>6
<1>5. CASE DropCopy
  BY <1>0, <1>5 DEF DropCopy, At, db
<1>6. CASE Drop
  <2>1. done \in 0 .. 5
    BY <1>0, <1>6 DEF Drop, Modal
  <2> DEFINE t == DropOrder[done + 1]
  <2>2. /\ step = "drop" /\ tables' = tables \ {t} /\ Empty(t)
        /\ step' \in {"drop", "ok"} /\ (step' = "drop" => done' = done + 1)
    BY <1>6 DEF Drop, Statement, At
  <2>3. NoTableNoRows'
    BY <1>0, <2>2 DEF Empty
  <2>4. \A i \in 1 .. 6 : i <= done + 1 => DropOrder[i] \notin tables'
    BY <1>0, <2>1, <2>2
  <2> HIDE DEF t
  <2>5. NoTableLeftBehind'
    <3> SUFFICES ASSUME "sources" \notin tables' PROVE tables' \subseteq {"levels"} \union AddressTables
      OBVIOUS
    <3>1. CASE "sources" \notin tables
      BY <1>0, <2>2, <3>1
    <3>2. CASE "sources" \in tables
      <4>1. done = 4
        BY <1>0, <2>1, <2>2, <3>2, Orders DEF t
      <4>2. {"hierarchy", "alias", "priority", "codes", "sources"} \intersect tables' = {}
        BY <2>4, <4>1, Orders
      <4> QED
        BY <1>0, <2>2, <4>2
    <3> QED
      BY <3>1, <3>2
  <2> QED
    BY <2>2, <2>3, <2>4, <2>5
<1>7. CASE Truncate
  BY <1>0, <1>7 DEF Truncate, Statement, At, Empty
<1>8. CASE Normalize
  BY <1>0, <1>8 DEF Normalize, At
<1>9. CASE InsertSource
  BY <1>0, <1>9 DEF InsertSource, At
<1>10. CASE InsertBatch
  BY <1>0, <1>10 DEF InsertBatch, At
<1>11. CASE RebuildHierarchy \/ RebuildPriority
  BY <1>0, <1>11 DEF RebuildHierarchy, RebuildPriority, At
<1>12. CASE Sync
  BY <1>1, <1>12 DEF Sync, At, db
<1>13. CASE UNCHANGED vars
  BY <1>0, <1>13 DEF vars, db
<1> QED
  BY <1>2, <1>3, <1>4, <1>5, <1>6, <1>7, <1>8, <1>9, <1>10, <1>11, <1>12, <1>13 DEF Next

\* PostgreSQL is dropped before SQLite and copied after it.
LEMMA CopyStep == SeederInv /\ [Next]_vars => CopyGoesFirst' /\ SuccessMeansSynchronized'
<1> SUFFICES ASSUME SeederInv, [Next]_vars PROVE CopyGoesFirst' /\ SuccessMeansSynchronized'
  OBVIOUS
<1> USE DEF CopyGoesFirst, SuccessMeansSynchronized
<1>0. Modal /\ CopyGoesFirst /\ SuccessMeansSynchronized
  BY DEF SeederInv
<1>1. ASSUME step' \notin {"drop", "ok"} PROVE CopyGoesFirst' /\ SuccessMeansSynchronized'
  BY <1>1
<1>2. ASSUME NEW r \in Runs, Start(r) PROVE CopyGoesFirst' /\ SuccessMeansSynchronized'
  BY <1>2, StartFrame
<1>3. CASE Fail \/ Normalize \/ InsertSource \/ RebuildHierarchy \/ RebuildPriority
  BY <1>1, <1>3 DEF Fail, Normalize, InsertSource, RebuildHierarchy, RebuildPriority, At
<1>4. CASE Create \/ Truncate
  BY <1>1, <1>4 DEF Create, Truncate, Statement, At
<1>5. CASE DropCopy
  BY <1>5 DEF DropCopy, At
<1>6. CASE Drop
  <2>1. step = "drop" /\ run.mode = "drop" /\ UNCHANGED <<pg, run>>
    BY <1>0, <1>6 DEF Drop, Modal
  <2> QED
    BY <1>0, <2>1
<1>7. CASE InsertBatch
  BY <1>1, <1>7 DEF InsertBatch, At
<1>8. CASE Sync
  <2>1. run.mode # "drop" /\ step' = "ok" /\ run' = run /\ UNCHANGED db
    BY <1>0, <1>8 DEF Sync, Modal, At
  <2>2. Snapshot' = Snapshot
    BY <2>1 DEF Snapshot, db
  <2> QED
    BY <1>8, <2>1, <2>2 DEF Sync
<1>9. CASE UNCHANGED vars
  BY <1>0, <1>9 DEF vars, db, Snapshot
<1> QED
  BY <1>2, <1>3, <1>4, <1>5, <1>6, <1>7, <1>8, <1>9 DEF Next

-----------------------------------------------------------------------------
\* A run that seeds has files, a version and a program.
LEMMA SeedingRun ==
  ASSUME run \in Runs, run.mode \in Seeding
  PROVE  run.dump \in Dumps /\ run.version \in Versions /\ run.revision \in Revisions
BY DEF Runs, Modes

\* A function on the first numbers is a sequence.
LEMMA FunctionIsSeq == ASSUME NEW S, NEW n \in Nat, NEW f \in [1 .. n -> S] PROVE f \in Seq(S)
BY SeqDef

\* A set of numbers has a greatest member when it is bounded.
LEMMA Greatest ==
  ASSUME NEW n \in Nat, NEW S \in SUBSET (1 .. n), S # {}
  PROVE  \E i \in S : \A j \in S : j <= i
<1> DEFINE R == {ss \in Nat \X Nat : ss[1] < ss[2]}
           left == {k \in Nat : n - k \in S}
<1>1. IsWellFoundedOn(R, Nat)
  BY NatLessThanWellFounded DEF OpToRel
<1>2. \A i \in S : n - i \in left /\ n - (n - i) = i
  OBVIOUS
<1>3. left # {} /\ left \subseteq Nat
  BY <1>2
<1> HIDE DEF R, left
<1>4. PICK k \in left : \A m \in left : ~ (<<m, k>> \in R)
  BY <1>1, <1>3, WFMin
<1>5. k \in Nat /\ n - k \in S
  BY <1>4 DEF left
<1>6. \A j \in S : j <= n - k
  <2> TAKE j \in S
  <2>1. n - j \in left /\ n - j \in Nat
    BY <1>2
  <2>2. ~ (n - j < k)
    BY <1>4, <1>5, <2>1 DEF R
  <2> QED
    BY <1>5, <2>1, <2>2
<1> QED
  BY <1>5, <1>6

\* The postal code of a kode is one, or none.
LEMMA PostalType == ASSUME NEW d \in Dumps, NEW kode PROVE Postal(d, kode) \in Postals \union {NoPostal}
<1> DEFINE lines == PostalLines(d, kode)
<1>1. d.postals \in Seq([kode : Seq(Nat), postal : Postals \union {NoPostal}])
  BY SeederAssumption
<1>2. DOMAIN d.postals = 1 .. Len(d.postals) /\ Len(d.postals) \in Nat
      /\ \A i \in 1 .. Len(d.postals) : d.postals[i] \in [kode : Seq(Nat), postal : Postals \union {NoPostal}]
  BY <1>1, LenProperties, ElementOfSeq
<1>3. lines \in SUBSET (1 .. Len(d.postals))
  BY <1>2 DEF PostalLines
<1>4. CASE lines = {}
  BY <1>4 DEF Postal
<1>5. CASE lines # {}
  <2>1. Max(lines) \in lines
    BY <1>2, <1>3, <1>5, Greatest DEF Max
  <2> QED
    BY <1>2, <1>3, <1>5, <2>1 DEF Postal
<1> QED
  BY <1>4, <1>5

\* The rows the files make up.
LEMMA JoinedType ==
  ASSUME NEW d \in Dumps
  PROVE  /\ Joined(d) \in Seq([kode : Seq(Nat), name : Names, postal : Postals \union {NoPostal}])
         /\ Len(Joined(d)) = Len(d.regions)
         /\ \A i, j \in 1 .. Len(Joined(d)) : Joined(d)[i].kode = Joined(d)[j].kode => i = j
<1>1. /\ d.regions \in Seq([kode : Seq(Nat), name : Names])
      /\ \A i, j \in DOMAIN d.regions : d.regions[i].kode = d.regions[j].kode => i = j
  BY SeederAssumption
<1>2. \A k : Postal(d, k) \in Postals \union {NoPostal}
  BY PostalType
<1>3. DOMAIN d.regions = 1 .. Len(d.regions) /\ Len(d.regions) \in Nat
  BY <1>1
<1> HIDE DEF Postal
<1>4. ASSUME NEW i \in 1 .. Len(d.regions)
      PROVE  /\ Joined(d)[i] \in [kode : Seq(Nat), name : Names, postal : Postals \union {NoPostal}]
             /\ Joined(d)[i].kode = d.regions[i].kode
  <2>1. d.regions[i] \in [kode : Seq(Nat), name : Names]
    BY <1>1, ElementOfSeq
  <2>2. Joined(d)[i] = [kode |-> d.regions[i].kode, name |-> d.regions[i].name,
                        postal |-> Postal(d, d.regions[i].kode)]
    BY <1>3 DEF Joined
  <2> QED
    BY <1>2, <2>1, <2>2
<1>5. DOMAIN Joined(d) = 1 .. Len(d.regions) /\ Joined(d) = [i \in 1 .. Len(d.regions) |-> Joined(d)[i]]
  BY <1>3 DEF Joined
<1> HIDE DEF Joined
<1>6. Joined(d) \in Seq([kode : Seq(Nat), name : Names, postal : Postals \union {NoPostal}])
  <2>1. Joined(d) \in [1 .. Len(d.regions) -> [kode : Seq(Nat), name : Names, postal : Postals \union {NoPostal}]]
    BY <1>4, <1>5
  <2> QED
    BY <1>3, <2>1, FunctionIsSeq
<1>7. Len(Joined(d)) = Len(d.regions)
  BY <1>3, <1>5, <1>6
<1> QED
  BY <1>1, <1>3, <1>4, <1>6, <1>7

-----------------------------------------------------------------------------
\* A row that a run inserts is one that location_codes may hold.
CodeOK(c) ==
  /\ c.source \in 1 .. MaxId /\ c.kode \in Seq(Nat)
  /\ c.name \in Names /\ c.postal \in Postals \union {NoPostal}
  /\ \E v \in Revisions : c.normal = Normal[v][c.name]

\* The batch that InsertBatch inserts.
UpTo  == IF done + BatchSize < Len(Joined(run.dump)) THEN done + BatchSize ELSE Len(Joined(run.dump))
Batch == {Joined(run.dump)[i] : i \in done + 1 .. UpTo}

\* What InsertBatch does.
LEMMA BatchFrame ==
  ASSUME InsertBatch
  PROVE  /\ step = "codes"
         /\ codes' = codes \union {Row(Current, r) : r \in {n \in Batch : n.kode \notin Kodes(Current)}}
         /\ IF UpTo = Len(Joined(run.dump)) THEN step' = "hierarchy" /\ done' = 0
                                            ELSE done' = UpTo /\ step' = step
         /\ UNCHANGED <<tables, sources, seq, hierarchy, priority, pg, run>>
BY DEF InsertBatch, UpTo, Batch, At

\* The rows of a batch are rows of the files.
LEMMA BatchType ==
  ASSUME run \in Runs, run.mode \in Seeding, done \in Nat
  PROVE  /\ UpTo \in Nat /\ UpTo <= Len(Joined(run.dump))
         /\ \A r \in Batch : r \in [kode : Seq(Nat), name : Names, postal : Postals \union {NoPostal}]
<1>1. run.dump \in Dumps
  BY SeedingRun
<1>2. /\ Joined(run.dump) \in Seq([kode : Seq(Nat), name : Names, postal : Postals \union {NoPostal}])
      /\ Len(Joined(run.dump)) \in Nat
  BY <1>1, JoinedType, LenProperties
<1>3. UpTo \in Nat /\ UpTo <= Len(Joined(run.dump))
  BY <1>2, SeederAssumption DEF UpTo
<1>4. \A i \in done + 1 .. UpTo : i \in 1 .. Len(Joined(run.dump))
  BY <1>2, <1>3
<1>5. ASSUME NEW i \in 1 .. Len(Joined(run.dump))
      PROVE  Joined(run.dump)[i] \in [kode : Seq(Nat), name : Names, postal : Postals \union {NoPostal}]
  BY <1>2, ElementOfSeq
<1> QED
  BY <1>3, <1>4, <1>5 DEF Batch

\* Every step keeps the types.
LEMMA TypeStep == SeederInv /\ [Next]_vars => TypeOK'
<1> SUFFICES ASSUME SeederInv, [Next]_vars PROVE TypeOK'
  OBVIOUS
<1>0. /\ Modal /\ TypeOK /\ HalfTruncated /\ SourceFound /\ MaxId \in Nat
  BY SeederAssumption DEF SeederInv
<1>a. TypeOK <=> /\ tables \subseteq Tables \union AddressTables
                 /\ DOMAIN sources \subseteq 1 .. seq /\ Range(sources) \subseteq Versions
                 /\ seq \in 0 .. MaxId
                 /\ \A c \in codes : CodeOK(c)
                 /\ \A h \in hierarchy : h[1] \in 1 .. MaxId /\ Len(h[2]) = 4
                 /\ \A p \in priority : p[1] \in 1 .. MaxId /\ p[3] \in {"KOTA", "KABUPATEN"}
                 /\ run \in Runs \union {NoRun} /\ step \in Steps /\ done \in Nat
  BY DEF TypeOK, CodeOK
<1>b. \A c : CodeOK(c)' <=> CodeOK(c)
  BY DEF CodeOK
<1>c. TypeOK' <=> /\ tables' \subseteq Tables \union AddressTables
                  /\ DOMAIN sources' \subseteq 1 .. seq' /\ Range(sources') \subseteq Versions
                  /\ seq' \in 0 .. MaxId
                  /\ \A c \in codes' : CodeOK(c)
                  /\ \A h \in hierarchy' : h[1] \in 1 .. MaxId /\ Len(h[2]) = 4
                  /\ \A p \in priority' : p[1] \in 1 .. MaxId /\ p[3] \in {"KOTA", "KABUPATEN"}
                  /\ run' \in Runs \union {NoRun} /\ step' \in Steps /\ done' \in Nat
  BY DEF TypeOK, CodeOK
<1>d. Range(<<>>) = {} /\ DOMAIN <<>> = {}
  BY DEF Range
<1>e. Current \in 1 .. MaxId \/ run.version \notin Range(sources)
  BY <1>0, CurrentIsThere DEF TypeOK
<1> USE <1>0, <1>a, <1>c DEF Steps
<1>1. ASSUME NEW r \in Runs, Start(r) PROVE TypeOK'
  BY <1>1, StartFrame DEF db
<1>2. CASE Fail
  BY <1>2 DEF Fail, At, db
<1>3. CASE Create
  <2>1. done \in 0 .. 7 /\ done + 1 \in {1, 2, 3, 4, 5, 6, 7, 8}
    BY <1>3 DEF Create, Modal
  <2>2. CreateOrder[done + 1] \in Tables \union AddressTables
    BY <2>1, Orders, TheTables DEF AddressTables
  <2>3. step' \in {"create", "source"} /\ done' \in Nat
    BY <1>3 DEF Create, Statement, At
  <2> QED
    BY <1>3, <2>2, <2>3 DEF Create
<1>4. CASE DropCopy
  BY <1>4 DEF DropCopy, At, db
<1>5. CASE Drop
  <2>1. step' \in {"drop", "ok"} /\ done' \in Nat
    BY <1>5 DEF Drop, Statement, At
  <2> QED
    BY <1>5, <1>d, <2>1 DEF Drop, Empty
<1>6. CASE Truncate
  <2>1. done \in 0 .. 4 /\ done + 1 \in {1, 2, 3, 4, 5}
    BY <1>6 DEF Truncate, Modal
  <2>2. step' \in {"truncate", "source"} /\ done' \in Nat
    BY <1>6 DEF Truncate, Statement, At
  <2>3. TruncateOrder[done + 1] = "sequence" => sources = <<>>
    BY <1>6, <2>1, Orders DEF Truncate, HalfTruncated
  <2>4. DOMAIN sources' \subseteq 1 .. seq' /\ Range(sources') \subseteq Versions /\ seq' \in 0 .. MaxId
    BY <1>6, <1>d, <2>3 DEF Truncate, Empty
  <2> QED
    BY <1>6, <2>2, <2>4 DEF Truncate, Empty
<1>7. CASE Normalize
  <2>1. run \in Runs /\ run.revision \in Revisions
    BY <1>7 DEF Normalize, Modal, Runs
  <2>2. \A c \in codes : CodeOK(Row(c.source, c))
    BY <2>1 DEF CodeOK, Row
  <2> QED
    BY <1>7, <2>2 DEF Normalize, At
<1>8. CASE InsertSource
  <2>1. run \in Runs /\ run.version \in Versions
    BY <1>8, SeedingRun DEF InsertSource, Modal, SeedSteps
  <2>2. DOMAIN sources' \subseteq 1 .. seq' /\ Range(sources') \subseteq Versions /\ seq' \in 0 .. MaxId
    <3>1. CASE run.version \in Range(sources)
      BY <1>8, <3>1 DEF InsertSource
    <3>2. CASE run.version \notin Range(sources)
      <4>1. /\ seq < MaxId /\ seq' = seq + 1
            /\ sources' = [i \in DOMAIN sources \union {seq + 1} |->
                             IF i = seq + 1 THEN run.version ELSE sources[i]]
        BY <1>8, <3>2 DEF InsertSource
      <4>2. \A i \in DOMAIN sources : sources[i] \in Versions
        BY DEF Range
      <4> QED
        BY <2>1, <4>1, <4>2 DEF Range
    <3> QED
      BY <3>1, <3>2
  <2> QED
    BY <1>8, <2>2 DEF InsertSource, At
<1>9. CASE InsertBatch
  <2>1. run \in Runs /\ run.mode \in Seeding /\ run.revision \in Revisions /\ Current \in 1 .. MaxId
    BY <1>9, <1>e, BatchFrame, SeedingRun DEF Modal, SeedSteps, SourceFound
  <2>2. \A r \in Batch : CodeOK(Row(Current, r))
    BY <2>1, BatchType DEF CodeOK, Row
  <2>3. \A c \in codes' : CodeOK(c)
    BY <1>9, <2>2, BatchFrame
  <2>4. done' \in Nat /\ step' \in Steps
    BY <1>9, <2>1, BatchFrame, BatchType
  <2> QED
    BY <1>9, <2>3, <2>4, BatchFrame
<1>10. CASE RebuildHierarchy
  <2>1. Current \in 1 .. MaxId
    BY <1>10, <1>e DEF RebuildHierarchy, SourceFound
  <2>2. \A k \in Linkable(Current) : Len(k) = 4
    BY DEF Linkable
  <2> QED
    BY <1>10, <2>1, <2>2 DEF RebuildHierarchy, At
<1>11. CASE RebuildPriority
  <2>1. Current \in 1 .. MaxId
    BY <1>11, <1>e DEF RebuildPriority, SourceFound
  <2>2. \A p \in Overlapping(Current) : p[1] = Current /\ p[3] \in {"KOTA", "KABUPATEN"}
    BY DEF Overlapping
  <2> QED
    BY <1>11, <2>1, <2>2 DEF RebuildPriority, At
<1>12. CASE Sync
  BY <1>12 DEF Sync, At, db
<1>13. CASE UNCHANGED vars
  BY <1>13 DEF vars, db
<1> QED
  BY <1>1, <1>2, <1>3, <1>4, <1>5, <1>6, <1>7, <1>8, <1>9, <1>10, <1>11, <1>12, <1>13 DEF Next

\* Every step keeps the references whole, and the source of the run.
LEMMA RowsStep ==
  SeederInv /\ [Next]_vars => HalfTruncated' /\ SourceFound' /\ NoDanglingRows'
<1> SUFFICES ASSUME SeederInv, [Next]_vars
             PROVE  HalfTruncated' /\ SourceFound' /\ NoDanglingRows'
  OBVIOUS
<1> USE DEF HalfTruncated, SourceFound
<1>0. /\ Modal /\ HalfTruncated /\ SourceFound /\ HalfSchema /\ NoTableNoRows
      /\ \A c \in codes : c.source \in DOMAIN sources
      /\ \A h \in hierarchy : h[2] \in Linkable(h[1])
      /\ DOMAIN sources \subseteq 1 .. seq /\ seq \in Nat
  BY SeederAssumption DEF SeederInv, NoDanglingRows, TypeOK
<1>1. ASSUME \A s : Kodes(s) \subseteq Kodes(s)' PROVE \A s : Linkable(s) \subseteq Linkable(s)'
  BY <1>1 DEF Linkable
<1>2. ASSUME codes' = codes, hierarchy' \subseteq hierarchy, DOMAIN sources \subseteq DOMAIN sources'
      PROVE  NoDanglingRows'
  BY <1>0, <1>1, <1>2 DEF NoDanglingRows, Kodes, Of
<1>3. ASSUME hierarchy' = {}, codes' = {} PROVE NoDanglingRows'
  BY <1>3 DEF NoDanglingRows
<1>4. ASSUME NEW r \in Runs, Start(r) PROVE HalfTruncated' /\ SourceFound' /\ NoDanglingRows'
  BY <1>2, <1>4, StartFrame DEF db
<1>5. CASE Fail \/ Sync
  BY <1>2, <1>5 DEF Fail, Sync, At, db
<1>6. CASE Create
  BY <1>2, <1>6 DEF Create, Statement, At
<1>7. CASE DropCopy
  BY <1>2, <1>7 DEF DropCopy, At, db
<1>8. CASE Drop
  <2>1. done \in 0 .. 5 /\ done + 1 \in {1, 2, 3, 4, 5, 6}
    BY <1>0, <1>8 DEF Drop, Modal
  <2>2. step' \in {"drop", "ok"}
    BY <1>8 DEF Drop, Statement, At
  <2>3. \A i \in 1 .. 6 : i <= done => DropOrder[i] \notin tables
    BY <1>0, <1>8 DEF HalfSchema, Drop
  <2>4. NoDanglingRows'
    <3>1. CASE done <= 2
      BY <1>2, <1>8, <2>1, <3>1, Orders DEF Drop, Empty
    <3>2. CASE done >= 3
      <4>1. "hierarchy" \notin tables
        BY <2>1, <2>3, <3>2, Orders
      <4>2. hierarchy = {} /\ hierarchy' = {}
        BY <1>0, <1>8, <4>1 DEF NoTableNoRows, Drop, Empty
      <4>3. CASE done = 3
        BY <1>3, <1>8, <4>2, <4>3, Orders DEF Drop, Empty
      <4>4. CASE done >= 4
        <5>1. "codes" \notin tables
          BY <2>1, <2>3, <4>4, Orders
        <5>2. codes' = {}
          BY <1>0, <1>8, <5>1 DEF NoTableNoRows, Drop, Empty
        <5> QED
          BY <1>3, <4>2, <5>2
      <4> QED
        BY <2>1, <3>2, <4>3, <4>4
    <3> QED
      BY <2>1, <3>1, <3>2
  <2> QED
    BY <2>2, <2>4
<1>9. CASE Truncate
  <2>1. done \in 0 .. 4
    BY <1>0, <1>9 DEF Truncate, Modal
  <2>2. /\ step = "truncate" /\ Empty(TruncateOrder[done + 1])
        /\ step' \in {"truncate", "source"} /\ (step' = "truncate" => done' = done + 1)
    BY <1>9 DEF Truncate, Statement, At
  <2>3. CASE done \in {0, 1}
    <3>1. codes' = codes /\ hierarchy' = {} /\ sources' = sources
      BY <1>0, <2>2, <2>3, Orders DEF Empty
    <3> QED
      BY <1>2, <2>2, <2>3, <3>1
  <2>4. CASE done \in {2, 3, 4}
    <3>1. codes' = {} /\ hierarchy' = {} /\ (done >= 3 => sources' = <<>>)
      BY <1>0, <2>2, <2>4, Orders DEF Empty
    <3> QED
      BY <1>3, <2>2, <2>4, <3>1
  <2> QED
    BY <2>1, <2>3, <2>4
<1>10. CASE Normalize
  <2>1. /\ codes' = {Row(c.source, c) : c \in codes} /\ step' = "sync"
        /\ UNCHANGED <<sources, hierarchy>>
    BY <1>10 DEF Normalize, At
  <2>2. \A s, c : Row(s, c).source = s /\ Row(s, c).kode = c.kode
    BY DEF Row
  <2>3. \A s : Kodes(s) \subseteq Kodes(s)'
    BY <2>1, <2>2 DEF Kodes, Of
  <2>4. NoDanglingRows'
    BY <1>0, <1>1, <2>1, <2>2, <2>3 DEF NoDanglingRows
  <2> QED
    BY <2>1, <2>4
<1>11. CASE InsertSource
  <2>1. DOMAIN sources \subseteq DOMAIN sources' /\ run.version \in Range(sources') /\ run' = run
    BY <1>11 DEF InsertSource, Range
  <2> QED
    BY <1>2, <1>11, <2>1 DEF InsertSource, At
<1>12. CASE InsertBatch
  <2>1. /\ codes' = codes \union {Row(Current, r) : r \in {n \in Batch : n.kode \notin Kodes(Current)}}
        /\ step = "codes" /\ step' \in {"codes", "hierarchy"} /\ UNCHANGED <<sources, hierarchy, run>>
    BY <1>12, BatchFrame
  <2>2. Current \in DOMAIN sources
    BY <1>0, <2>1, CurrentIsThere
  <2>3. \A c \in codes' : c.source \in DOMAIN sources'
    BY <1>0, <2>1, <2>2 DEF Row
  <2>4. \A s : Kodes(s) \subseteq Kodes(s)'
    BY <2>1 DEF Kodes, Of
  <2> QED
    BY <1>0, <1>1, <2>1, <2>3, <2>4 DEF NoDanglingRows
<1>13. CASE RebuildHierarchy
  <2>1. /\ hierarchy' = hierarchy \union {<<Current, k>> : k \in Linkable(Current)}
        /\ step = "hierarchy" /\ step' = "priority" /\ UNCHANGED <<codes, sources, run>>
    BY <1>13 DEF RebuildHierarchy, At
  <2>2. \A s : Linkable(s)' = Linkable(s)
    BY <2>1 DEF Linkable, Kodes, Of
  <2>3. \A h \in hierarchy' : h[2] \in Linkable(h[1])
    BY <1>0, <2>1
  <2> QED
    BY <1>0, <2>1, <2>2, <2>3 DEF NoDanglingRows
<1>14. CASE RebuildPriority
  BY <1>2, <1>14 DEF RebuildPriority, At
<1>15. CASE UNCHANGED vars
  BY <1>0, <1>2, <1>15 DEF vars, db
<1> QED
  BY <1>4, <1>5, <1>6, <1>7, <1>8, <1>9, <1>10, <1>11, <1>12, <1>13, <1>14, <1>15 DEF Next

\* The invariant holds after every run, however it ended.
THEOREM SeederIsSound == Spec => []SeederInv
<1>1. SeederInv /\ [Next]_vars => SeederInv'
  BY ModalStep, SchemaStep, CopyStep, TypeStep, RowsStep DEF SeederInv
<1> QED
  BY InitSeederInv, <1>1, PTL DEF Spec

\* The tables, their rows and the run keep their types, and no id is given twice.
THEOREM TypeCorrect == Spec => []TypeOK
BY SeederIsSound, PTL DEF SeederInv

\* HasLocationTables may look for one table and stand for all (location.go:75-87).
THEOREM NoneIsLeft == Spec => []NoTableLeftBehind
BY SeederIsSound, PTL DEF SeederInv

\* SQLite does not enforce the references, the order of the statements does
\* (location.go:178-244).
THEOREM NoneDangles == Spec => []NoDanglingRows
BY SeederIsSound, PTL DEF SeederInv

\* A run that ends well leaves PostgreSQL the same as SQLite (main.go:41-42).
THEOREM CopiesAgree == Spec => []SuccessMeansSynchronized
BY SeederIsSound, PTL DEF SeederInv
-----------------------------------------------------------------------------
\* The first n rows of the files are known; the database holds nothing else.
Got(n)  == \A i \in 1 .. n : Joined(run.dump)[i].kode \in Kodes(Current)
Just(n) == codes = {Row(Current, Joined(run.dump)[i]) : i \in 1 .. n}
Total   == Len(Joined(run.dump))

Linked      == {h \in hierarchy : h[1] = Current} = {<<Current, k>> : k \in Linkable(Current)}
Prioritized == {p \in priority : p[1] = Current} = Overlapping(Current)
Seeded      == step \in {"sync", "ok"} /\ run.mode \in Seeding

\* How far a run that seeds has come.
Progress ==
  /\ \A h \in hierarchy : h = <<h[1], h[2]>>
  /\ step = "create" => codes = {}
  /\ step = "source" /\ run.mode \in Fresh => codes = {}
  /\ step = "codes" => done <= Total /\ Got(done) /\ (run.mode \in Fresh => Just(done))
  /\ step \in {"hierarchy", "priority"} \/ Seeded => Got(Total) /\ (run.mode \in Fresh => Just(Total))
  /\ step = "priority" \/ Seeded => Linked
  /\ Seeded => Prioritized

\* Nothing that a step leaves alone changes what is said of the rows.
LEMMA SameRows ==
  ASSUME UNCHANGED <<sources, codes, run>>
  PROVE  /\ Current' = Current /\ Total' = Total
         /\ \A n : Got(n)' <=> Got(n)
         /\ \A n : Just(n)' <=> Just(n)
         /\ Linkable(Current)' = Linkable(Current)
         /\ Overlapping(Current)' = Overlapping(Current)
<1>1. Current' = Current
  BY DEF Current
<1>2. \A s : Of(s)' = Of(s) /\ Kodes(s)' = Kodes(s)
  BY DEF Of, Kodes
<1>3. \A s, r : Row(s, r)' = Row(s, r)
  BY DEF Row
<1> QED
  BY <1>1, <1>2, <1>3 DEF Total, Got, Just, Linkable, Overlapping

\* A batch adds the rows that are not there yet, and knows all of its own.
LEMMA BatchProgress == SeederInv /\ Progress /\ InsertBatch => Progress'
<1> SUFFICES ASSUME SeederInv, Progress, InsertBatch PROVE Progress'
  OBVIOUS
<1> DEFINE J == Joined(run.dump)
<1>0. /\ step = "codes" /\ run \in Runs /\ run.mode \in Seeding /\ done \in Nat
      /\ UNCHANGED <<sources, run, hierarchy>>
  BY BatchFrame DEF SeederInv, Modal, SeedSteps, TypeOK
<1>1. /\ J' = J /\ Current' = Current /\ Total' = Total /\ \A s, r : Row(s, r)' = Row(s, r)
  BY <1>0 DEF Current, Total, Row
<1>2. /\ UpTo \in Nat /\ done <= UpTo /\ UpTo <= Total
  <2>1. Total \in Nat
    BY <1>0, SeedingRun, JoinedType, LenProperties DEF Total
  <2> QED
    BY <1>0, <2>1, BatchType, SeederAssumption DEF UpTo, Total, Progress
<1>3. \A i, j \in 1 .. Total : J[i].kode = J[j].kode => i = j
  BY <1>0, SeedingRun, JoinedType DEF Total
<1> HIDE DEF J
<1>4. Batch = {J[i] : i \in done + 1 .. UpTo}
  BY DEF Batch, J
<1>5. codes' = codes \union {Row(Current, r) : r \in {n \in Batch : n.kode \notin Kodes(Current)}}
  BY BatchFrame
<1>6. \A s, r : Row(s, r).source = s /\ Row(s, r).kode = r.kode
  BY DEF Row
<1>7. Kodes(Current) \subseteq Kodes(Current)' /\ \A r \in Batch : r.kode \in Kodes(Current)'
  BY <1>1, <1>5, <1>6 DEF Kodes, Of
<1>8. \A i \in 1 .. UpTo : J[i].kode \in Kodes(Current)'
  <2> TAKE i \in 1 .. UpTo
  <2>1. CASE i <= done
    <3>1. J[i].kode \in Kodes(Current)
      BY <1>0, <2>1 DEF Progress, Got, J
    <3> QED
      BY <1>7, <3>1
  <2>2. CASE i > done
    BY <1>0, <1>2, <1>4, <1>7, <2>2
  <2> QED
    BY <1>0, <2>1, <2>2
<1>9. ASSUME run.mode \in Fresh PROVE codes' = {Row(Current, J[i]) : i \in 1 .. UpTo}
  <2>1. codes = {Row(Current, J[i]) : i \in 1 .. done}
    BY <1>0, <1>9 DEF Progress, Just, J
  <2>2. Kodes(Current) = {J[i].kode : i \in 1 .. done}
    BY <1>6, <2>1 DEF Kodes, Of
  <2>3. ASSUME NEW i \in done + 1 .. UpTo PROVE J[i].kode \notin Kodes(Current)
    <3> SUFFICES ASSUME J[i].kode \in Kodes(Current) PROVE FALSE
      OBVIOUS
    <3>1. PICK j \in 1 .. done : J[i].kode = J[j].kode
      BY <2>2
    <3>2. i \in 1 .. Total /\ j \in 1 .. Total /\ i # j
      <4>1. Total \in Nat
        BY <1>0, SeedingRun, JoinedType, LenProperties DEF Total
      <4> QED
        BY <1>0, <1>2, <4>1
    <3> QED
      BY <1>3, <3>1, <3>2
  <2>4. {n \in Batch : n.kode \notin Kodes(Current)} = {J[i] : i \in done + 1 .. UpTo}
    BY <1>4, <2>3
  <2>5. 1 .. UpTo = (1 .. done) \union (done + 1 .. UpTo)
    BY <1>0, <1>2
  <2> QED
    BY <1>5, <2>1, <2>4, <2>5
<1>10. PICK n : n = UpTo
  OBVIOUS
<1>11. Got(n)' /\ (run.mode \in Fresh => Just(n)')
  <2>1. \A i \in 1 .. n : J'[i].kode \in Kodes(Current)'
    BY <1>1, <1>8, <1>10
  <2>2. run.mode \in Fresh => codes' = {Row(Current, J[i])' : i \in 1 .. n}
    BY <1>1, <1>9, <1>10
  <2>3. Got(n)'
    BY <2>1 DEF Got, J
  <2>4. run.mode \in Fresh => Just(n)'
    BY <1>1, <2>2 DEF Just, J
  <2> QED
    BY <2>3, <2>4
<1>12. CASE UpTo = Total
  <2>1. step' = "hierarchy" /\ Got(Total)' /\ (run.mode \in Fresh => Just(Total)')
    BY <1>1, <1>10, <1>11, <1>12, BatchFrame DEF Got, Just, Total
  <2> QED
    BY <1>0, <2>1 DEF Progress, Seeded
<1>13. CASE UpTo # Total
  <2>1. step' = "codes" /\ done' = UpTo
    BY <1>0, <1>13, BatchFrame DEF Total
  <2>2. Got(done)' /\ (run.mode \in Fresh => Just(done)')
    BY <1>10, <1>11, <2>1 DEF Got, Just
  <2> QED
    BY <1>0, <1>1, <1>2, <2>1, <2>2 DEF Progress, Seeded
<1> QED
  BY <1>12, <1>13

\* Every step keeps what is known of a run that seeds.
LEMMA ProgressStep == SeederInv /\ Progress /\ [Next]_vars => Progress'
<1> SUFFICES ASSUME SeederInv, Progress, [Next]_vars PROVE Progress'
  OBVIOUS
<1> USE DEF Seeded
<1>0. /\ Modal /\ NoTableNoRows /\ NoTableLeftBehind /\ HalfTruncated
      /\ \A h \in hierarchy : h = <<h[1], h[2]>> /\ h[2] \in Linkable(h[1])
  BY DEF SeederInv, NoDanglingRows, Progress
<1>1. ASSUME UNCHANGED <<sources, codes, hierarchy, priority, run>> PROVE
        /\ Linked' <=> Linked
        /\ Prioritized' <=> Prioritized
  BY <1>1, SameRows DEF Linked, Prioritized
<1>2. ASSUME hierarchy' \subseteq hierarchy, step' \in {"idle", "truncate", "normalize", "dropCopy", "drop"}
      PROVE  Progress'
  BY <1>0, <1>2 DEF Progress
<1>3. ASSUME NEW r \in Runs, Start(r) PROVE Progress'
  <2>1. /\ UNCHANGED <<tables, codes, hierarchy>> /\ run' = r
        /\ step' \in {"create", "truncate", "normalize", "source", "drop", "dropCopy"}
    BY <1>3, StartFrame DEF db
  <2>2. step' = "create" => codes = {}
    BY <1>0, <1>3, StartFrame DEF Start, HasTables, NoTableLeftBehind, NoTableNoRows, AddressTables
  <2>3. step' = "source" => run'.mode \notin Fresh
    BY <1>3, <2>1, StartFrame DEF Fresh
  <2> QED
    BY <1>0, <2>1, <2>2, <2>3 DEF Progress
<1>4. CASE Fail
  BY <1>2, <1>4 DEF Fail, At, db
<1>5. CASE Create
  <2>1. codes = {} /\ UNCHANGED <<codes, hierarchy>> /\ step' \in {"create", "source"}
    BY <1>5 DEF Create, Statement, At, Progress
  <2> QED
    BY <1>0, <2>1 DEF Progress
<1>6. CASE DropCopy
  BY <1>2, <1>6 DEF DropCopy, At, db
<1>7. CASE Drop
  <2>1. /\ hierarchy' \subseteq hierarchy /\ step' \in {"drop", "ok"}
        /\ run' = run /\ run.mode \notin Seeding
    BY <1>0, <1>7 DEF Drop, Statement, At, Empty, Modal, Seeding
  <2> QED
    BY <1>0, <2>1 DEF Progress
<1>8. CASE Truncate
  <2>1. hierarchy' \subseteq hierarchy /\ step' \in {"truncate", "source"}
    BY <1>8 DEF Truncate, Statement, At, Empty
  <2>2. ASSUME step' = "source" PROVE codes' = {}
    <3>1. done = 4
      BY <1>8, <2>2, Orders DEF Truncate, Statement, At, SeederInv, TypeOK
    <3> QED
      BY <1>0, <1>8, <3>1, Orders DEF HalfTruncated, Truncate, Empty
  <2> QED
    BY <1>0, <2>1, <2>2 DEF Progress
<1>9. CASE Normalize
  <2>1. hierarchy' = hierarchy /\ step' = "sync" /\ run' = run /\ run.mode \notin Seeding
    BY <1>0, <1>9 DEF Normalize, At, Modal, Seeding
  <2> QED
    BY <1>0, <2>1 DEF Progress
<1>10. CASE InsertSource
  <2>1. /\ UNCHANGED <<codes, hierarchy, run>> /\ step = "source" /\ step' = "codes" /\ done' = 0
        /\ run \in Runs /\ run.mode \in Seeding
    BY <1>0, <1>10 DEF InsertSource, At, Modal, SeedSteps
  <2>2. Total \in Nat /\ Total' = Total
    BY <2>1, SeedingRun, JoinedType, LenProperties DEF Total
  <2>3. run.mode \in Fresh => codes' = {}
    BY <2>1 DEF Progress
  <2>4. Got(0)' /\ (run.mode \in Fresh => Just(0)')
    BY <2>3 DEF Got, Just
  <2>5. Got(done)' /\ (run.mode \in Fresh => Just(done)')
    BY <2>1, <2>4 DEF Got, Just
  <2> QED
    BY <1>0, <2>1, <2>2, <2>5 DEF Progress
<1>11. CASE InsertBatch
  BY <1>11, BatchProgress
<1>12. CASE RebuildHierarchy
  <2>1. /\ hierarchy' = hierarchy \union {<<Current, k>> : k \in Linkable(Current)}
        /\ step = "hierarchy" /\ step' = "priority" /\ UNCHANGED <<codes, sources, run>>
    BY <1>12 DEF RebuildHierarchy, At
  <2>2. \A h \in hierarchy' : h = <<h[1], h[2]>>
    BY <1>0, <2>1
  <2>3. {h \in hierarchy' : h[1] = Current} = {<<Current, k>> : k \in Linkable(Current)}
    BY <1>0, <2>1
  <2>4. Linked'
    BY <2>1, <2>3, SameRows DEF Linked
  <2>5. Got(Total)' /\ (run.mode \in Fresh => Just(Total)')
    <3>1. Got(Total) /\ (run.mode \in Fresh => Just(Total))
      BY <2>1 DEF Progress
    <3>2. PICK n : n = Total
      OBVIOUS
    <3> QED
      BY <2>1, <3>1, <3>2, SameRows DEF Got, Just
  <2> QED
    BY <2>1, <2>2, <2>4, <2>5 DEF Progress
<1>13. CASE RebuildPriority
  <2>1. /\ priority' = {p \in priority : p[1] # Current} \union Overlapping(Current)
        /\ step = "priority" /\ step' = "sync" /\ UNCHANGED <<codes, sources, hierarchy, run>>
    BY <1>13 DEF RebuildPriority, At
  <2>2. \A p \in Overlapping(Current) : p[1] = Current
    BY DEF Overlapping
  <2>3. Prioritized'
    BY <2>1, <2>2, SameRows DEF Prioritized
  <2>4. Linked'
    BY <2>1, SameRows DEF Linked, Progress
  <2>5. Got(Total)' /\ (run.mode \in Fresh => Just(Total)')
    <3>1. Got(Total) /\ (run.mode \in Fresh => Just(Total))
      BY <2>1 DEF Progress
    <3>2. PICK n : n = Total
      OBVIOUS
    <3> QED
      BY <2>1, <3>1, <3>2, SameRows DEF Got, Just
  <2> QED
    BY <1>0, <2>1, <2>3, <2>4, <2>5 DEF Progress
<1>14. CASE Sync \/ UNCHANGED vars
  <2>1. UNCHANGED <<sources, codes, hierarchy, priority, run>>
    BY <1>14 DEF Sync, vars, db
  <2>2. (step = "sync" /\ step' = "ok") \/ (step' = step /\ done' = done)
    BY <1>14 DEF Sync, At, vars
  <2>3. (Got(Total)' <=> Got(Total)) /\ (Just(Total)' <=> Just(Total))
    <3>1. PICK n : n = Total
      OBVIOUS
    <3> QED
      BY <2>1, <3>1, SameRows DEF Got, Just
  <2>4. ASSUME done' = done PROVE (Got(done)' <=> Got(done)) /\ (Just(done)' <=> Just(done))
    <3>1. PICK n : n = done
      OBVIOUS
    <3> QED
      BY <2>1, <2>4, <3>1, SameRows DEF Got, Just
  <2>5. Total' = Total
    BY <2>1, SameRows
  <2> HIDE DEF Got, Just, Linked, Prioritized, Total
  <2>6. CASE step = "sync" /\ step' = "ok"
    BY <1>0, <1>1, <2>1, <2>3, <2>6 DEF Progress
  <2>7. CASE step' = step /\ done' = done
    BY <1>0, <1>1, <2>1, <2>3, <2>4, <2>5, <2>7 DEF Progress
  <2> QED
    BY <2>2, <2>6, <2>7
<1> QED
  BY <1>3, <1>4, <1>5, <1>6, <1>7, <1>8, <1>9, <1>10, <1>11, <1>12, <1>13, <1>14 DEF Next

\* A run that came to the end of the seeding has all rows of its files and what
\* follows from them, and after --init or --truncate nothing else, whatever broke
\* off before it (main.go:45-48).
THEOREM SeedingIsComplete == Spec => []SeededMeansComplete
<1>1. Init => Progress
  BY DEF Init, Progress, Seeded
<1>2. SeederInv /\ Progress => SeededMeansComplete
  <2> SUFFICES ASSUME SeederInv, Progress, Seeded PROVE SeededMeansComplete
    BY DEF SeededMeansComplete, Seeded
  <2>1. run \in Runs
    BY DEF SeederInv, Modal, Seeded
  <2>2. run.dump \in Dumps
    BY <2>1, SeedingRun DEF Seeded
  <2>3. /\ Total \in Nat /\ DOMAIN run.dump.regions = 1 .. Total
        /\ \A i \in 1 .. Total : Joined(run.dump)[i].kode = run.dump.regions[i].kode
    <3>1. run.dump.regions \in Seq([kode : Seq(Nat), name : Names])
      BY <2>2, SeederAssumption
    <3>2. DOMAIN run.dump.regions = 1 .. Total /\ Total \in Nat
      BY <2>2, <3>1, JoinedType, LenProperties DEF Total
    <3> QED
      BY <3>2 DEF Joined
  <2>4. Got(Total) /\ (run.mode \in Fresh => Just(Total)) /\ Linked /\ Prioritized
    BY DEF Progress
  <2>5. run.mode # "update" => run.mode \in Fresh
    BY DEF Seeded, Seeding, Fresh
  <2> HIDE DEF Total
  <2> QED
    BY <2>3, <2>4, <2>5 DEF SeededMeansComplete, Got, Just, Linked, Prioritized
<1> QED
  BY <1>1, <1>2, ProgressStep, SeederIsSound, PTL DEF Spec
-----------------------------------------------------------------------------
\* What is known of the tables: where --init has come, which table never is there
\* without another, and which ones a run that seeds has met.
Schema ==
  /\ step = "create" => \A i \in 1 .. 8 : i <= done => CreateOrder[i] \in tables
  /\ HasTables => "levels" \in tables
  /\ "hierarchy" \in tables => "alias" \in tables
  /\ step \in {"codes", "hierarchy", "priority"} \/ Seeded => HasTables
  /\ step \in {"hierarchy", "priority"} \/ Seeded => "codes" \in tables
  /\ step = "priority" \/ Seeded => "hierarchy" \in tables
  /\ Seeded => "priority" \in tables

\* --init creates a table only when those that it needs are there.
LEMMA CreateKeepsSchema == SeederInv /\ Schema /\ Create => Schema'
<1> SUFFICES ASSUME SeederInv, Schema, Create PROVE Schema'
  OBVIOUS
<1> DEFINE t == CreateOrder[done + 1]
<1>1. /\ done \in 0 .. 7 /\ tables' = tables \union {t}
      /\ step' \in {"create", "source"} /\ (step' = "create" => done' = done + 1)
  BY DEF SeederInv, Modal, Create, Statement, At
<1>2. \A i \in 1 .. 8 : i <= done => CreateOrder[i] \in tables
  BY DEF Schema, Create
<1>3. \A i \in 1 .. 8 : i <= done + 1 => CreateOrder[i] \in tables'
  BY <1>1, <1>2
<1>4. HasTables' => "levels" \in tables'
  <2>1. CASE t = "sources"
    <3>1. done = 1
      BY <1>1, <2>1, Orders
    <3> QED
      BY <1>3, <3>1, Orders
  <2>2. CASE t # "sources"
    <3> HIDE DEF t
    <3> QED
      BY <1>1, <2>2 DEF Schema, HasTables
  <2> QED
    BY <2>1, <2>2
<1>5. "hierarchy" \in tables' => "alias" \in tables'
  <2>1. CASE t = "hierarchy"
    <3>1. done = 4
      BY <1>1, <2>1, Orders
    <3> QED
      BY <1>3, <3>1, Orders
  <2>2. CASE t # "hierarchy"
    <3> HIDE DEF t
    <3> QED
      BY <1>1, <2>2 DEF Schema
  <2> QED
    BY <2>1, <2>2
<1> QED
  BY <1>1, <1>3, <1>4, <1>5 DEF Schema, Seeded

\* --drop takes a table only when those that need it are gone.
LEMMA DropKeepsSchema == SeederInv /\ Schema /\ Drop => Schema'
<1> SUFFICES ASSUME SeederInv, Schema, Drop PROVE Schema'
  OBVIOUS
<1> DEFINE t == DropOrder[done + 1]
<1>1. /\ done \in 0 .. 5 /\ tables' = tables \ {t} /\ run' = run /\ run.mode \notin Seeding
      /\ step' \in {"drop", "ok"}
  BY DEF SeederInv, Modal, Drop, Statement, At, Seeding
<1>2. \A i \in 1 .. 6 : i <= done + 1 => DropOrder[i] \notin tables'
  BY <1>1 DEF SeederInv, HalfSchema, Drop
<1>3. HasTables' => "levels" \in tables'
  <2>1. CASE t = "levels"
    <3>1. done = 5
      BY <1>1, <2>1, Orders
    <3> QED
      BY <1>2, <3>1, Orders DEF HasTables
  <2>2. CASE t # "levels"
    <3> HIDE DEF t
    <3> QED
      BY <1>1, <2>2 DEF Schema, HasTables
  <2> QED
    BY <2>1, <2>2
<1>4. "hierarchy" \in tables' => "alias" \in tables'
  BY <1>1, <1>2, Orders
<1> QED
  BY <1>1, <1>3, <1>4 DEF Schema, Seeded

\* No other step touches the schema, and each that needs a table fails without it.
LEMMA SchemaIsKept == SeederInv /\ Schema /\ [Next]_vars => Schema'
<1> SUFFICES ASSUME SeederInv, Schema, [Next]_vars PROVE Schema'
  OBVIOUS
<1> USE DEF Schema, Seeded, HasTables
<1>0. Modal
  BY DEF SeederInv
<1>1. ASSUME NEW r \in Runs, Start(r) PROVE Schema'
  <2>1. /\ UNCHANGED tables /\ done' = 0
        /\ step' \in {"create", "truncate", "normalize", "source", "drop", "dropCopy"}
    BY <1>1, StartFrame DEF db
  <2> QED
    BY <2>1
<1>2. CASE Fail
  BY <1>2 DEF Fail, At, db
<1>3. CASE Create
  BY <1>3, CreateKeepsSchema
<1>4. CASE DropCopy
  BY <1>4 DEF DropCopy, At, db
<1>5. CASE Drop
  BY <1>5, DropKeepsSchema
<1>6. CASE Truncate
  BY <1>6 DEF Truncate, Statement, At
<1>7. CASE Normalize
  BY <1>0, <1>7 DEF Normalize, At, Modal, Seeding
<1>8. CASE InsertSource
  BY <1>8 DEF InsertSource, At
<1>9. CASE InsertBatch
  BY <1>9 DEF InsertBatch, At
<1>10. CASE RebuildHierarchy
  BY <1>10 DEF RebuildHierarchy, At
<1>11. CASE RebuildPriority
  BY <1>11 DEF RebuildPriority, At
<1>12. CASE Sync
  BY <1>12 DEF Sync, At, db
<1>13. CASE UNCHANGED vars
  BY <1>13 DEF vars, db
<1> QED
  BY <1>1, <1>2, <1>3, <1>4, <1>5, <1>6, <1>7, <1>8, <1>9, <1>10, <1>11, <1>12, <1>13 DEF Next

\* A run that seeds over a schema of which tables are missing does not come to its
\* end (location.go:75-87, 178-244).
THEOREM SchemaIsComplete == Spec => []SeededMeansSchema
<1>1. Init => Schema
  BY DEF Init, Schema, Seeded, HasTables
<1>2. Schema => SeededMeansSchema
  BY TheTables DEF Schema, SeededMeansSchema, Seeded, HasTables
<1> QED
  BY <1>1, <1>2, SchemaIsKept, SeederIsSound, PTL DEF Spec
=============================================================================
