------------------------------- MODULE Seeder -------------------------------
(***************************************************************************)
(* cmd/seeder: one run after the other of the program that creates, fills, *)
(* empties and drops the location database, with SQLite as the source of   *)
(* truth and PostgreSQL as a copy (cmd/seeder/main.go, database/location.go *)
(* and postgres_copy.go).  SQLite is not one transaction for a run: every  *)
(* statement or explicit transaction is a step, and a run may fail or be   *)
(* killed between any two of them.                                         *)
(***************************************************************************)
EXTENDS Integers, Sequences, FiniteSetsExt, Functions

CONSTANTS Dumps,      \* contents the source files may have
          Versions,   \* values of --source-code and --source-version
          Names,      \* region names
          KotaNames,  \* the names with the prefix "Kota "
          Postals,    \* postal codes
          NoPostal,   \* the empty string
          Normal,     \* by revision of the program: normalizer.Normalize
          BatchSize,  \* rows per InsertLocationCodeBatch
          MaxId       \* bound: ids of location_sources

\* The files are two dumps, the regions and their postal codes; a kode is the
\* sequence of its dot-separated parts.
ASSUME SeederAssumption ==
  /\ \A d \in Dumps : /\ d.regions \in Seq([kode : Seq(Nat), name : Names])
                      /\ d.postals \in Seq([kode : Seq(Nat), postal : Postals \union {NoPostal}])
                      /\ \A i, j \in DOMAIN d.regions :
                           d.regions[i].kode = d.regions[j].kode => i = j
  /\ BatchSize \in Nat \ {0} /\ MaxId \in Nat

Revisions == DOMAIN Normal

\* --init creates, DropAll drops and TruncateAll empties in this order; the last
\* two are tables of the address database, which only --init looks at, and the
\* last statement of TruncateAll restarts the ids.
CreateOrder == <<"levels", "sources", "codes", "alias", "hierarchy", "priority",
                 "address_requests", "google_maps_cache">>
\* Slip: the table that HasLocationTables looks for goes first.
DropSourcesFirst == <<"sources", "hierarchy", "alias", "priority", "codes", "levels">>
\* Slip: the table that no statement of a run uses goes first.
DropAliasFirst == <<"alias", "hierarchy", "priority", "codes", "sources", "levels">>
DropOrder   == <<"hierarchy", "alias", "priority", "codes", "sources", "levels">>
\* Slip: the rows that are referred to go before the ones that refer to them.
TruncateCodesFirst == <<"codes", "alias", "hierarchy", "sources", "sequence">>
\* Slip: the ids restart before the sources are gone.
TruncateSequenceFirst == <<"hierarchy", "alias", "codes", "sequence", "sources">>
TruncateOrder == <<"hierarchy", "alias", "codes", "sources", "sequence">>
Tables        == Range(DropOrder)
AddressTables == {"address_requests", "google_maps_cache"}

VARIABLES
  tables,     \* the tables that exist in the SQLite databases
  sources,    \* location_sources: id to version
  seq,        \* the last id given to a source
  codes,      \* location_codes
  hierarchy,  \* location_hierarchy, by source and subdistrict
  priority,   \* location_city_priority
  pg,         \* the location tables in PostgreSQL
  run,        \* the run under way: its flags, the files and the program it has
  step,       \* what it does next
  done        \* how far it got in that step
db   == <<tables, sources, seq, codes, hierarchy, priority>>
vars == <<db, pg, run, step, done>>

Modes == {"init", "drop", "truncate", "normalize", "update"}
Seeding == {"init", "truncate", "update"}
\* The files are read by the modes that seed.
Runs  == [mode : Seeding, dump : Dumps, version : Versions,
          revision : Revisions, postgres : BOOLEAN]
         \union [mode : Modes \ Seeding, revision : Revisions, postgres : BOOLEAN]
Steps == {"idle", "create", "dropCopy", "drop", "truncate", "normalize", "source", "codes",
          "hierarchy", "priority", "sync", "ok"}
NoPg  == [tables |-> {}]
NoRun == [mode |-> "none"]

\* Everything a copy takes over.
Snapshot == [sources |-> sources, codes |-> codes,
             hierarchy |-> hierarchy, priority |-> priority]

Init == /\ tables = {}
        /\ sources = <<>>
        /\ seq = 0
        /\ codes = {}
        /\ hierarchy = {}
        /\ priority = {}
        /\ pg = NoPg
        /\ run = NoRun
        /\ step = "idle"
        /\ done = 0
-----------------------------------------------------------------------------
HasTables == "sources" \in tables
At(s)     == step' = s /\ done' = 0

FirstStep(r) == CASE r.mode = "init"      -> "create"
                  [] r.mode = "truncate"  -> "truncate"
                  [] r.mode = "normalize" -> "normalize"
                  [] r.mode = "update"    -> "source"
                  [] r.mode = "drop"      -> IF r.postgres THEN "dropCopy" ELSE "drop"

\* A run whose mode does not fit the tables it finds is refused, and --drop asks
\* first.
Start(r) ==
  /\ step \in {"idle", "ok"}
  /\ HasTables <=> r.mode # "init"
  /\ run' = r
  /\ At(FirstStep(r))
  /\ UNCHANGED <<db, pg>>

\* A statement fails (also because its table is missing), or the process ends.
Fail ==
  /\ step \notin {"idle", "ok"}
  /\ At("idle")
  /\ run' = NoRun
  /\ UNCHANGED <<db, pg>>

\* One statement of a list of statements; after the last one the run goes on.
Statement(order, next) ==
  IF done + 1 = Len(order) THEN At(next) ELSE done' = done + 1 /\ UNCHANGED step

Create ==
  /\ step = "create"
  /\ tables' = tables \union {CreateOrder[done + 1]}
  /\ Statement(CreateOrder, "source")
  /\ UNCHANGED <<sources, seq, codes, hierarchy, priority, pg, run>>

\* What is left of the rows without the ones of a table.
Empty(table) ==
  /\ sources'   = IF table = "sources" THEN <<>> ELSE sources
  /\ codes'     = IF table = "codes" THEN {} ELSE codes
  /\ hierarchy' = IF table = "hierarchy" THEN {} ELSE hierarchy
  /\ priority'  = IF table = "priority" THEN {} ELSE priority

\* PostgreSQL goes first, in one statement; without it SQLite is not touched.
DropCopy ==
  /\ step = "dropCopy"
  /\ pg' = NoPg
  /\ At("drop")
  /\ UNCHANGED <<db, run>>

Drop ==
  /\ step = "drop"
  /\ Empty(DropOrder[done + 1])
  /\ tables' = tables \ {DropOrder[done + 1]}
  /\ seq' = IF DropOrder[done + 1] = "sources" THEN 0 ELSE seq
  /\ Statement(DropOrder, "ok")
  /\ UNCHANGED <<pg, run>>

Truncate ==
  /\ step = "truncate"
  /\ TruncateOrder[done + 1] \in tables \union {"sequence"}
  /\ Empty(TruncateOrder[done + 1])
  /\ seq' = IF TruncateOrder[done + 1] = "sequence" THEN 0 ELSE seq
  /\ Statement(TruncateOrder, "source")
  /\ UNCHANGED <<tables, pg, run>>
-----------------------------------------------------------------------------
\* The lines of the second file with a postal code of a kode; the last one is it.
PostalLines(d, kode) ==
  {i \in DOMAIN d.postals : d.postals[i].kode = kode /\ d.postals[i].postal # NoPostal}
Postal(d, kode) == IF PostalLines(d, kode) = {} THEN NoPostal
                   ELSE d.postals[Max(PostalLines(d, kode))].postal

\* The rows the files make up, in the order of the regions.
Joined(d) == [i \in DOMAIN d.regions |-> [kode |-> d.regions[i].kode, name |-> d.regions[i].name,
                                         postal |-> Postal(d, d.regions[i].kode)]]

Row(source, r) == [source |-> source, kode |-> r.kode, name |-> r.name, postal |-> r.postal,
                   normal |-> Normal[run.revision][r.name]]

\* Slip: --normalize does not go on to PostgreSQL.
NormalizeOnly ==
  /\ step = "normalize"
  /\ "codes" \in tables
  /\ codes' = {Row(c.source, c) : c \in codes}
  /\ At("ok")
  /\ UNCHANGED <<tables, sources, seq, hierarchy, priority, pg, run>>

\* One transaction over all codes of all sources.
Normalize ==
  /\ step = "normalize"
  /\ "codes" \in tables
  /\ codes' = {Row(c.source, c) : c \in codes}
  /\ At("sync")
  /\ UNCHANGED <<tables, sources, seq, hierarchy, priority, pg, run>>

\* ON CONFLICT DO NOTHING: a version that is there already keeps its id.
InsertSource ==
  /\ step = "source"
  /\ "sources" \in tables
  /\ IF run.version \in Range(sources)
       THEN UNCHANGED <<sources, seq>>
       ELSE /\ seq < MaxId
            /\ seq' = seq + 1
            /\ sources' = [i \in DOMAIN sources \union {seq + 1} |->
                             IF i = seq + 1 THEN run.version ELSE sources[i]]
  /\ At("codes")
  /\ UNCHANGED <<tables, codes, hierarchy, priority, pg, run>>

Current  == CHOOSE i \in DOMAIN sources : sources[i] = run.version
Of(s)    == {c \in codes : c.source = s}
Kodes(s) == {c.kode : c \in Of(s)}

\* One transaction per batch; a kode that is there already keeps its row.
InsertBatch ==
  LET rows == Joined(run.dump)
      upTo == IF done + BatchSize < Len(rows) THEN done + BatchSize ELSE Len(rows)
      new  == {rows[i] : i \in done + 1 .. upTo}
  IN /\ step = "codes"
     /\ "codes" \in tables
     /\ codes' = codes \union {Row(Current, r) : r \in {n \in new : n.kode \notin Kodes(Current)}}
     /\ IF upTo = Len(rows) THEN At("hierarchy") ELSE done' = upTo /\ UNCHANGED step
     /\ UNCHANGED <<tables, sources, seq, hierarchy, priority, pg, run>>

\* A subdistrict is linked when its three ancestors are known.
Linkable(s) == {k \in Kodes(s) : Len(k) = 4 /\ \A i \in 1 .. 3 : SubSeq(k, 1, i) \in Kodes(s)}

RebuildHierarchy ==
  /\ step = "hierarchy"
  /\ "hierarchy" \in tables
  /\ hierarchy' = hierarchy \union {<<Current, k>> : k \in Linkable(Current)}
  /\ At("priority")
  /\ UNCHANGED <<tables, sources, seq, codes, priority, pg, run>>

\* City names that are also the name of a district or a subdistrict, with the
\* form to prefer.
Overlapping(s) ==
  LET cities == {c \in Of(s) : Len(c.kode) = 2}
      lower  == {c.normal : c \in {d \in Of(s) : Len(d.kode) \in {3, 4}}}
      form(n) == IF \E c \in cities : c.normal = n /\ c.name \in KotaNames
                   THEN "KOTA" ELSE "KABUPATEN"
  IN {<<s, n, form(n)>> : n \in {c.normal : c \in cities} \intersect lower}

\* Slip: the rows of an earlier run stay.
RebuildPriorityOnTop ==
  /\ step = "priority"
  /\ "priority" \in tables
  /\ priority' = priority \union Overlapping(Current)
  /\ At("sync")
  /\ UNCHANGED <<tables, sources, seq, codes, hierarchy, pg, run>>

RebuildPriority ==
  /\ step = "priority"
  /\ "priority" \in tables
  /\ priority' = {p \in priority : p[1] # Current} \union Overlapping(Current)
  /\ At("sync")
  /\ UNCHANGED <<tables, sources, seq, codes, hierarchy, pg, run>>

\* PostgreSQL, unlike SQLite as it is opened here, enforces the references; the
\* levels that codes refer to are rows that come with their table.
ReferencesHold ==
  /\ codes # {} => "levels" \in tables
  /\ \A c \in codes : c.source \in DOMAIN sources
  /\ \A h \in hierarchy : h[1] \in DOMAIN sources /\ h[2] \in Kodes(h[1])
  /\ \A p \in priority : p[1] \in DOMAIN sources

\* syncPostgres: one transaction, or nothing when PostgreSQL is not configured.
Sync ==
  /\ step = "sync"
  /\ \/ ~run.postgres /\ UNCHANGED pg
     \/ run.postgres /\ Tables \subseteq tables /\ ReferencesHold /\ pg' = Snapshot
  /\ At("ok")
  /\ UNCHANGED <<db, run>>

Next == \/ \E r \in Runs : Start(r)
        \/ Fail
        \/ Create \/ DropCopy \/ Drop \/ Truncate \/ Normalize
        \/ InsertSource \/ InsertBatch \/ RebuildHierarchy \/ RebuildPriority
        \/ Sync

Spec == Init /\ [][Next]_vars
-----------------------------------------------------------------------------
\* Every variable keeps its type, and an id was given before it is used: the
\* next one is never the id of a source that is there.
TypeOK ==
  /\ tables \subseteq Tables \union AddressTables
  /\ DOMAIN sources \subseteq 1 .. seq /\ Range(sources) \subseteq Versions
  /\ seq \in 0 .. MaxId
  /\ \A c \in codes : /\ c.source \in 1 .. MaxId /\ c.kode \in Seq(Nat)
                      /\ c.name \in Names /\ c.postal \in Postals \union {NoPostal}
                      /\ \E v \in Revisions : c.normal = Normal[v][c.name]
  /\ \A h \in hierarchy : h[1] \in 1 .. MaxId /\ Len(h[2]) = 4
  /\ \A p \in priority : p[1] \in 1 .. MaxId /\ p[3] \in {"KOTA", "KABUPATEN"}
  /\ run \in Runs \union {NoRun} /\ step \in Steps /\ done \in Nat

\* HasLocationTables looks for one table and stands for all: when that one is
\* missing, however many runs broke off, no table with rows is left that --init
\* would take over with CREATE TABLE IF NOT EXISTS (main.go:90-99).
NoTableLeftBehind == ~HasTables => tables \subseteq {"levels"} \union AddressTables

\* Nor does it see that tables are missing: after an --init or a --drop that broke
\* off, location_sources may be there without others.  A run that seeds over such a
\* schema fails at a table that it misses; one that comes to its end had them all,
\* with the table of aliases, which it does not touch (location.go:75-87, 178-244).
SeededMeansSchema == (step \in {"sync", "ok"} /\ run.mode \in Seeding) => Tables \subseteq tables

\* SQLite does not enforce the references, the order of the statements does:
\* at every point a run can break off, a code has its source and a row of the
\* hierarchy has its subdistrict and all its ancestors.
NoDanglingRows ==
  /\ \A c \in codes : c.source \in DOMAIN sources
  /\ \A h \in hierarchy : h[2] \in Linkable(h[1])

\* A run that came to the end of the seeding has, whatever broke off before it,
\* every kode of its files, every hierarchy row they give rise to and exactly
\* the city priorities of its codes; and after --init or --truncate, the retry
\* of a seeding that failed, nothing else, each row with the postal code that the
\* second file gives it last.
SeededMeansComplete ==
  (step \in {"sync", "ok"} /\ run.mode \in Seeding) =>
    /\ \A i \in DOMAIN run.dump.regions : run.dump.regions[i].kode \in Kodes(Current)
    /\ {h \in hierarchy : h[1] = Current} = {<<Current, k>> : k \in Linkable(Current)}
    /\ {p \in priority : p[1] = Current} = Overlapping(Current)
    /\ run.mode # "update" =>
         codes = {Row(Current, Joined(run.dump)[i]) : i \in DOMAIN run.dump.regions}

\* A run that ends well with PostgreSQL configured leaves both databases the
\* same, also after runs that failed or ran without PostgreSQL (main.go:41-42).
SuccessMeansSynchronized ==
  (step = "ok" /\ run.postgres) => pg = IF run.mode = "drop" THEN NoPg ELSE Snapshot

\* main.go:30 says of --truncate "Truncate all data rows (keep schema) before
\* seeding", and main.go:41-42 that PostgreSQL is then "replaced with an exact
\* COPY": when the seeding is complete, PostgreSQL can take the copy.
RetryCanBeCopied == (step = "sync" /\ run.mode = "truncate") => ReferencesHold

\* main.go:48 says "Update data:  seeder": after such a run the codes of its
\* version are the ones of the files.
UpdateTakesEffect ==
  (step = "sync" /\ run.mode = "update") =>
     Of(Current) = {Row(Current, Joined(run.dump)[i]) : i \in DOMAIN run.dump.regions}
=============================================================================
