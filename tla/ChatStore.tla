------------------------------ MODULE ChatStore -----------------------------
(***************************************************************************)
(* What the user interface asks of the tables of internal/storage, and     *)
(* what internal/logic and internal/api make of it.  A row is a record     *)
(*   id       [kind, t]: "in_<t>" or "msg_<t>" with the clock's reading t  *)
(*   chat     conversation_id                                              *)
(*   own      sender_id = "self"                                           *)
(*   content  [marks, body]: a body after so many times the text "ENC:"    *)
(*   at       sent_at, in seconds                                          *)
(*   seq      global_seq, 0 for NULL                                       *)
(*   n        the rowid                                                    *)
(***************************************************************************)
EXTENDS MessageStore

(* The text in front of an encrypted payload is all there is of encryption. *)
EncryptFor(text) == [text EXCEPT !.marks = @ + 1]

Encrypted(payload) == payload.marks > 0

Decrypt(payload) == [payload EXCEPT !.marks = @ - 1]

(* Save: INSERT OR IGNORE, the table giving the row the next rowid. *)
SaveRow(db, r) == InsertOrIgnore(db, [r EXCEPT !.n = Cardinality(db) + 1])

(* ORDER BY timestamp ASC over idx_messages_chat_time, which leaves rows of
   the same second in the order of their rowids. *)
Before(x, y) == x.at < y.at \/ (x.at = y.at /\ x.n < y.n)

InChat(db, p) == {r \in db : r.chat = p}

GetMessagesByChat(db, p, l) ==
  {r \in InChat(db, p) :
     Cardinality({x \in InChat(db, p) : Before(x, r)}) < l}

(* The order of the ids as texts: "in_" comes before "msg_", and all clock
   readings have the same number of digits. *)
IdLess(x, y) ==
  \/ x.kind = "in" /\ y.kind = "msg"
  \/ x.kind = y.kind /\ x.t < y.t

(* GetConversations: the row with MAX(id) of every conversation. *)
LastMessage(db, p) ==
  CHOOSE r \in InChat(db, p) :
    \A x \in InChat(db, p) : x = r \/ IdLess(x.id, r.id)

Conversations(db) == {r.chat : r \in db}

(* INSERT OR REPLACE INTO contacts. *)
AddTo(contacts, c) == {x \in contacts : x.peer # c.peer} \cup {c}

(* A MessageDTO: the content decrypted if it looks encrypted. *)
MessageDTO(r) ==
  [row |-> r,
   content |-> IF Encrypted(r.content) THEN Decrypt(r.content) ELSE r.content,
   isOwn |-> FALSE]

(* ListConversations: one entry for every contact and for every other
   conversation there are messages of. *)
ListConversations(contacts, db) ==
  {c.peer : c \in contacts} \cup Conversations(db)
=============================================================================
