----------------------------- MODULE Migrations -----------------------------
(***************************************************************************)
(* The database file as RunMigrations of internal/storage leaves it:       *)
(* golang-migrate's schema_migrations table, the four migrations of        *)
(* internal/storage/migrations, and what they make of the messages.  Each  *)
(* operator is one SQL transaction.                                        *)
(***************************************************************************)
EXTENDS Naturals

CONSTANT Messages   \* ids of messages

VARIABLES
  version, dirty,   \* the row of schema_migrations; 0 before there is one
  schema,           \* the last migration whose statements the tables show
  rows              \* the messages: an id, and whether chat_id is set

dbVars == <<version, dirty, schema, rows>>

Latest == 4

Row == [id : Messages, inChat : BOOLEAN]

DbType ==
  /\ version \in 0..Latest /\ dirty \in BOOLEAN /\ schema \in 0..Latest
  /\ rows \in SUBSET Row

(* A new file, or what an older release left, chat_id being a column from
   the second migration on. *)
DbInit ==
  /\ version \in 0..(Latest - 1) /\ dirty = FALSE /\ schema = version
  /\ rows \in SUBSET Row
  /\ \A r \in rows : r.inChat <=> version >= 2
  /\ version = 0 => rows = {}

(* Slip: the flag is set when the migration has failed, not before it. *)
MarkUnflagged(v) ==
  /\ version' = v /\ dirty' = FALSE
  /\ UNCHANGED <<schema, rows>>

(* SetVersion(v, true), before migration v is run. *)
MarkDirty(v) ==
  /\ version' = v /\ dirty' = TRUE
  /\ UNCHANGED <<schema, rows>>

(* Slip: the flag is not taken back. *)
MarkVersion(v) ==
  /\ version' = v
  /\ UNCHANGED <<dirty, schema, rows>>

(* SetVersion(v, false), after it. *)
MarkClean(v) ==
  /\ version' = v /\ dirty' = FALSE
  /\ UNCHANGED <<schema, rows>>

(* The first migration creates what does not exist.  The second adds columns,
   an error if they are there.  The other two rebuild a table and need the
   columns of the second. *)
Applies(v) ==
  /\ v = 2 => schema < 2
  /\ v > 2 => schema >= 2

(* The second migration and the third set chat_id to conversation_id. *)
Filled(v) == IF v \in {2, 3} THEN {[r EXCEPT !.inChat = TRUE] : r \in rows}
                             ELSE rows

RunMigration(v) ==
  /\ Applies(v)
  /\ schema' = IF v > schema THEN v ELSE schema
  /\ rows' = Filled(v)
  /\ UNCHANGED <<version, dirty>>

(* Save by a program that knows all four migrations. *)
SaveMessage(m) ==
  /\ rows' = IF \E r \in rows : r.id = m
               THEN rows ELSE rows \cup {[id |-> m, inChat |-> TRUE]}
  /\ UNCHANGED <<version, dirty, schema>>

(* A database that is not in the middle of a migration has the tables its
   version promises, or later ones: "already migrated" is not taken on
   trust by a start that finds it. *)
CleanIsMigrated == ~dirty => version <= schema
=============================================================================
