------------------------------ MODULE SyncWire ------------------------------
(***************************************************************************)
(* The frames of the sync protocol (proto/aether/sync.proto), as the       *)
(* protobuf decoder sees them.  A frame carries no type: ReadMsg decodes   *)
(* it as whatever message the reader asked for, keeps each field whose     *)
(* number and wire type agree with what was written, and leaves the others *)
(* at zero.  So a frame is what is found under each field number:          *)
(*                                                                         *)
(*   v1, v2, v3  the varint under fields 1, 2 and 3 (0 when there is none) *)
(*   rows        the embedded SyncMessages under field 1                   *)
(*                                                                         *)
(* Byte fields (nonce, signature, device id, error text) are decoded by    *)
(* the reader they were written for and by no other reader, and are left   *)
(* out.  The messages of a batch are a set: the server writes them in      *)
(* increasing sequence number, which orders the set.                       *)
(***************************************************************************)
EXTENDS Naturals

Varints(a, b, c) == [v1 |-> a, v2 |-> b, v3 |-> c, rows |-> {}]

Flag(b) == IF b THEN 1 ELSE 0

(* Encoders: proto.Marshal of each message. *)

AuthChallenge(expiresAt) == Varints(0, expiresAt, 0)

AuthResponse(timestamp) == Varints(0, 0, timestamp)

AuthResult(ok) == Varints(Flag(ok), 0, 0)

FetchRequest(afterSeq, limit) == Varints(afterSeq, limit, 0)

AckRequest(ackedSeq) == Varints(ackedSeq, 0, 0)

FetchResponse(messages, maxSeq, hasMore) ==
  [v1 |-> 0, v2 |-> maxSeq, v3 |-> Flag(hasMore), rows |-> messages]

PushEnvelope(message) == [v1 |-> 0, v2 |-> 0, v3 |-> 0, rows |-> {message}]

(* Decoders: proto.Unmarshal of any frame into the message asked for. *)

AsAuthChallenge(f) == [expiresAt |-> f.v2]

AsAuthResult(f) == [ok |-> f.v1 # 0]

AsFetchRequest(f) == [afterSeq |-> f.v1, limit |-> f.v2]

AsFetchResponse(f) ==
  [messages |-> f.rows, maxSeq |-> f.v2, hasMore |-> f.v3 # 0]

(* The frames that can be written when R is the set of message rows. *)
Frame(R) == [v1 : Nat, v2 : Nat, v3 : Nat, rows : SUBSET R]
=============================================================================
