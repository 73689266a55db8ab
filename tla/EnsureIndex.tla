---------------------------- MODULE EnsureIndex ----------------------------
(***************************************************************************)
(* The start-up sequence of the SQLite provider: open the database, apply  *)
(* the schema, run the migrations that are not recorded yet, check the     *)
(* file and make a new one when the check fails.  Every statement commits  *)
(* by itself and the process may end between any two of them.              *)
(*                                                                         *)
(* Of the schema only what a later version changed of an older table is    *)
(* kept: columns, the index over one, and the fill of one.  The projection *)
(* version is left out, for no release has raised it, and the rebuild too, *)
(* for the server passes none.                                             *)
(***************************************************************************)
EXTENDS Integers, Sequences, FiniteSets

CONSTANT MaxMishaps   \* bound: crashes, failing statements and damage

ASSUME MishapAssumption == MaxMishaps \in Nat

VARIABLES
  database,   \* the file: there or not, sound, its objects, recorded versions
  phase,      \* what ensureIndex does next
  place,      \* the next table of the schema or the next migration
  rebuilding, \* needRebuild
  mishaps

indexVars == <<database, phase, place, rebuilding, mishaps>>

LastVersion == 15
Versions == 1..LastVersion

(* The version that brought an object.  Rows of events that older versions *)
(* stored have a urn once urns_filled.                                     *)
Since == [notes |-> 1, events |-> 2, candidates |-> 5, pair_key |-> 7, pair_index |-> 7,
          event_urn |-> 9, urns_filled |-> 9, snip_type |-> 12, paragraph_head_seq |-> 14]

Objects == DOMAIN Since

NoDatabase == [exists |-> FALSE, sound |-> TRUE, objects |-> {}, applied |-> {}]

(* The database that a release of the given version left.                  *)
DatabaseOf(v) == [exists |-> TRUE, sound |-> TRUE,
                  objects |-> {o \in Objects : Since[o] <= v}, applied |-> 1..v]

schemaVersion == IF database.applied = {} THEN 0
                 ELSE CHOOSE v \in database.applied : \A w \in database.applied : w <= v

IndexTypeOK ==
  /\ database \in [exists : BOOLEAN, sound : BOOLEAN, objects : SUBSET Objects, applied : SUBSET Versions]
  /\ phase \in {"down", "schema", "alter", "fill", "script", "record", "check", "reopen", "refused", "serving"}
  /\ place \in 0..LastVersion + 1
  /\ rebuilding \in BOOLEAN
  /\ mishaps \in 0..MaxMishaps

IndexInit ==
  /\ database \in {NoDatabase} \cup {DatabaseOf(v) : v \in Versions}
  /\ phase = "down"
  /\ place = 0
  /\ rebuilding = FALSE
  /\ mishaps = 0

Proceed(p, k) == phase' = p /\ place' = k
-----------------------------------------------------------------------------
(* Opening creates the file.                                               *)
OpenDatabase ==
  /\ phase = "down"
  /\ rebuilding' = ~ database.exists
  /\ database' = [database EXCEPT !.exists = TRUE]
  /\ Proceed("schema", 1)
  /\ UNCHANGED mishaps

(* The tables of the schema with the columns that it gives a new one, and  *)
(* the columns that the indexes behind a table name.                       *)
SchemaTables == <<"notes", "events", "candidates">>

ColumnsOfNew == [notes |-> {"snip_type", "paragraph_head_seq"},
                 events |-> {"event_urn", "urns_filled"}, candidates |-> {}]

IndexedBySchema == [notes |-> {"snip_type"}, events |-> {}, candidates |-> {}]

(* CREATE TABLE IF NOT EXISTS leaves a table that is there as it is.       *)
WithTable(t) == IF t \in database.objects THEN database.objects
                ELSE database.objects \cup {t} \cup ColumnsOfNew[t]

ApplySchema ==
  /\ phase = "schema" /\ place <= Len(SchemaTables)
  /\ IndexedBySchema[SchemaTables[place]] \subseteq WithTable(SchemaTables[place])
  /\ database' = [database EXCEPT !.objects = WithTable(SchemaTables[place])]
  /\ Proceed("schema", place + 1)
  /\ UNCHANGED <<rebuilding, mishaps>>

(* CREATE INDEX names a column that the older table has not got.           *)
SchemaFails ==
  /\ phase = "schema" /\ place <= Len(SchemaTables)
  /\ ~ (IndexedBySchema[SchemaTables[place]] \subseteq WithTable(SchemaTables[place]))
  /\ Proceed("refused", 0)
  /\ UNCHANGED <<database, rebuilding, mishaps>>

(* Faulty variant: a fresh database counts as migrated.                    *)
FreshIsMigrated ==
  /\ phase = "schema" /\ place > Len(SchemaTables)
  /\ database' = [database EXCEPT !.applied = IF rebuilding THEN Versions ELSE @]
  /\ Proceed("alter", IF rebuilding THEN LastVersion + 1 ELSE schemaVersion + 1)
  /\ UNCHANGED <<rebuilding, mishaps>>

(* A fresh database is migrated from the first version on, like an older   *)
(* one from the version recorded last.                                     *)
SchemaDone ==
  /\ phase = "schema" /\ place > Len(SchemaTables)
  /\ Proceed("alter", schemaVersion + 1)
  /\ UNCHANGED <<database, rebuilding, mishaps>>
-----------------------------------------------------------------------------
(* runMigrations: the column a version needs, the fill of a new one, the   *)
(* script, the record.                                                     *)
NewColumns(v) == {o \in {"pair_key", "event_urn", "snip_type", "paragraph_head_seq"} : Since[o] = v}

AlterTable ==
  /\ phase = "alter" /\ place <= LastVersion
  /\ database' = [database EXCEPT !.objects = @ \cup NewColumns(place)]
  /\ Proceed("fill", place)
  /\ UNCHANGED <<rebuilding, mishaps>>

FillColumn ==
  /\ phase = "fill"
  /\ database' = [database EXCEPT !.objects =
                    IF Since["urns_filled"] = place THEN @ \cup {"urns_filled"} ELSE @]
  /\ Proceed("script", place)
  /\ UNCHANGED <<rebuilding, mishaps>>

(* The scripts create the tables that the schema has made before.          *)
RunScript ==
  /\ phase = "script"
  /\ database' = [database EXCEPT !.objects =
                    IF Since["pair_index"] = place THEN @ \cup {"pair_index"} ELSE @]
  /\ Proceed("record", place)
  /\ UNCHANGED <<rebuilding, mishaps>>

RecordMigration ==
  /\ phase = "record"
  /\ database' = [database EXCEPT !.applied = @ \cup {place}]
  /\ Proceed("alter", place + 1)
  /\ UNCHANGED <<rebuilding, mishaps>>

Migrated ==
  /\ phase = "alter" /\ place > LastVersion
  /\ Proceed(IF rebuilding THEN "serving" ELSE "check", 0)
  /\ UNCHANGED <<database, rebuilding, mishaps>>
-----------------------------------------------------------------------------
Mishap == mishaps < MaxMishaps /\ mishaps' = mishaps + 1

CheckPasses ==
  /\ phase = "check"
  /\ database.sound
  /\ Proceed("serving", 0)
  /\ UNCHANGED <<database, rebuilding, mishaps>>

(* A check that cannot be run counts as one that found damage.             *)
CheckFails ==
  /\ phase = "check"
  /\ \/ ~ database.sound /\ UNCHANGED mishaps
     \/ database.sound /\ Mishap
  /\ database' = NoDatabase
  /\ Proceed("reopen", 0)
  /\ UNCHANGED rebuilding

Reopen ==
  /\ phase = "reopen"
  /\ database' = [database EXCEPT !.exists = TRUE]
  /\ rebuilding' = TRUE
  /\ Proceed("schema", 1)
  /\ UNCHANGED mishaps

(* An orderly end, or another attempt after a refused start.               *)
StopServer ==
  /\ phase \in {"serving", "refused"}
  /\ Proceed("down", 0)
  /\ rebuilding' = FALSE
  /\ UNCHANGED <<database, mishaps>>

(* The process ends, or a statement fails and New returns its error.       *)
Interrupt ==
  /\ phase \notin {"down", "serving", "refused"}
  /\ Mishap
  /\ Proceed("down", 0)
  /\ rebuilding' = FALSE
  /\ UNCHANGED database

Damage ==
  /\ phase = "down" /\ database.exists /\ database.sound
  /\ Mishap
  /\ database' = [database EXCEPT !.sound = FALSE]
  /\ UNCHANGED <<phase, place, rebuilding>>

IndexNext ==
  \/ OpenDatabase \/ ApplySchema \/ SchemaFails \/ SchemaDone
  \/ AlterTable \/ FillColumn \/ RunScript \/ RecordMigration \/ Migrated
  \/ CheckPasses \/ CheckFails \/ Reopen \/ StopServer \/ Interrupt \/ Damage

IndexSpec == IndexInit /\ [][IndexNext]_indexVars
-----------------------------------------------------------------------------
(* Whatever interrupted earlier starts, a provider that serves has every   *)
(* column and index of its version, its events have their urns, and every  *)
(* migration is recorded (ensureIndex, runMigrations).                     *)
ServesTheWholeSchema ==
  phase = "serving" => database.objects = Objects /\ database.applied = Versions

(* The schema can be applied at every start to a database of any earlier   *)
(* version, whose columns the migrations then add.                         *)
OlderDatabasesStart == phase # "refused"
=============================================================================
