---------------------------- MODULE MessageStore ----------------------------
(***************************************************************************)
(* The messages table of internal/storage as the sync code uses it.  A row *)
(* is a record with at least an id (the primary key) and a seq             *)
(* (global_seq, UNIQUE, 0 standing for NULL); a table is a set of rows.    *)
(***************************************************************************)
EXTENDS Naturals, FiniteSets

(* Two rows that the table's PRIMARY KEY and UNIQUE constraints keep apart.
   NULLs never conflict. *)
Conflict(x, r) == x.id = r.id \/ (r.seq > 0 /\ x.seq = r.seq)

(* Save: INSERT OR IGNORE. *)
InsertOrIgnore(db, r) ==
  IF \E x \in db : Conflict(x, r) THEN db ELSE db \cup {r}

After(db, a) == {r \in db : r.seq > a}

(* Slip: ORDER BY global_seq DESC. *)
GetSinceNewestFirst(db, a, l) ==
  {r \in After(db, a) :
     Cardinality({x \in After(db, a) : x.seq > r.seq}) < l}

(* GetSince: WHERE global_seq > a ORDER BY global_seq ASC LIMIT l. *)
GetSince(db, a, l) ==
  {r \in After(db, a) :
     Cardinality({x \in After(db, a) : x.seq < r.seq}) < l}

(* handleFetch's running maximum, started at the sequence asked for. *)
MaxSeq(a, rows) ==
  CHOOSE m \in {a} \cup {r.seq : r \in rows} :
    m >= a /\ \A r \in rows : m >= r.seq
=============================================================================
