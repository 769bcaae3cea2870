--------------------------- MODULE FetchInvariant ---------------------------
(***************************************************************************)
(* The inductive strengthenings of the safety properties of FetchSession:  *)
(* SafeInv for AckedRowsSaved and CopyInv for OnlyHeldRows, which hold     *)
(* with and without pushes, PullInv for CompletedMeansCaughtUp and         *)
(* PromiseKept, ProgressInv for LastSyncedSaved, which need that nothing   *)
(* is pushed, AnswerOwed for ReaderIsServed.                               *)
(***************************************************************************)
EXTENDS FetchSession

(* Of the rows held by the node, none up to s is missing among those saved
   and those in E, and none that is stored later can come to be up to s. *)
Covered(held, saved, s, E) ==
  /\ s = 0 \/ \E r \in held : s <= r.seq
  /\ \A r \in held : r.seq <= s => r \in saved \cup E

(* While the challenge is awaited nothing else is on the stream: it is the
   one frame whose field 2 is no sequence number. *)
Handshake ==
  /\ spc = "greet" => cpc = "challenge" /\ down = <<>>
  /\ cpc = "challenge" => /\ up = <<>> /\ Len(down) <= 1
                          /\ spc \in {"greet", "verify", "off"}
  /\ cpc = "idle" => up = <<>> /\ down = <<>>

(* A request's after_seq, or an acknowledgement's acked_seq. *)
AcksCovered ==
  \A f \in Range(up) : Covered(pnDB[peer], devDB, f.v1, {})

(* A page with the rows in it covers its max_seq. *)
PageCovered(f) == Covered(pnDB[peer], devDB, f.v2, f.rows)

PagesCovered ==
  /\ cpc # "challenge" => \A f \in Range(down) : PageCovered(f)
  /\ spc = "write" => PageCovered(out)

BatchCovered ==
  /\ cpc = "save" => Covered(pnDB[peer], devDB, reply.v2, todo)
  /\ cpc = "ack" => Covered(pnDB[peer], devDB, reply.v2, {})

FiniteTables == \A n \in Nodes : IsFiniteSet(pnDB[n])

SafeInv == TypeOK /\ FiniteTables /\ Handshake /\ AcksCovered /\ PagesCovered
           /\ BatchCovered

Fetching == cpc \in {"fetch", "response", "save", "ack"}

(* The handshake leaves nothing behind that could be taken for a page. *)
QuietHandshake ==
  /\ \A n \in Nodes : unpushed[n] = {}
  /\ cpc = "result" =>
       \/ spc = "verify" /\ down = <<>> /\ Len(up) <= 1
       \/ spc \in {"register", "serve"} /\ up = <<>> /\ Len(down) <= 1
       \/ spc = "off" /\ Len(down) <= 1
  /\ Fetching => spc \notin {"greet", "verify"}

(* A page that says there are no more leaves nothing out. *)
LastPage(f) == f.v3 = 0 => atStart \subseteq devDB \cup f.rows

LastPages ==
  /\ Fetching => /\ atStart \subseteq pnDB[peer]
                 /\ \A f \in Range(down) : LastPage(f)
                 /\ spc = "write" => LastPage(out)
  /\ cpc = "save" /\ reply.v3 = 0 => atStart \subseteq devDB \cup todo
  /\ cpc = "ack" /\ reply.v3 = 0 => atStart \subseteq devDB

PullInv == SafeInv /\ QuietHandshake /\ LastPages /\ CompletedMeansCaughtUp

-----------------------------------------------------------------------------

(* Rows on their way to the device come from the node at the other end. *)
PeerHolds(rows) == rows = {} \/ (peer \in Nodes /\ rows \subseteq pnDB[peer])

FromPeer ==
  /\ \A f \in Range(down) : PeerHolds(f.rows)
  /\ PeerHolds(out.rows) /\ PeerHolds(reply.rows) /\ PeerHolds(todo)

Held == UNION {pnDB[n] : n \in Nodes}

(* The device has rows of its nodes only, and its table's constraints hold
   whatever numbers the nodes give. *)
OnlyHeldRows ==
  /\ devDB \subseteq Held
  /\ \A x, y \in devDB : Conflict(x, y) => x = y

CopyInv == TypeOK /\ FiniteTables /\ FromPeer /\ OnlyHeldRows

(* While a cycle fetches, the last thing published is that it started. *)
FetchingIsStarted == Fetching => status = "started"

(* Without pushes each frame's second field is as high as its rows. *)
Honest(f) == \A r \in f.rows : r.seq <= f.v2

HonestPages ==
  /\ \A n \in Nodes : unpushed[n] = {}
  /\ \A f \in Range(down) : Honest(f)
  /\ Honest(out) /\ Honest(reply)

(* One node at most comes to store anything. *)
OneSource ==
  \A m, n \in Nodes : Rows[m] # {} /\ Rows[n] # {} => m = n

(* The recorded progress covers what it covers of the node it is of, and is
   nothing to a node that stores no rows. *)
ProgressCovered ==
  \A n \in Nodes : Rows[n] # {} => Covered(pnDB[n], devDB, lastSynced, {})

ProgressInv == SafeInv /\ FromPeer /\ HonestPages /\ ProgressCovered

-----------------------------------------------------------------------------

(* Between the frames of the handshake and between a request and its answer
   there is always one on its way, or somebody about to write one. *)
AnswerOwed ==
  /\ spc = "verify" => \/ cpc = "challenge" /\ down # <<>>
                       \/ cpc = "result" /\ down = <<>> /\ up # <<>>
  /\ cpc = "result" => spc \in {"off", "verify"} \/ down # <<>>
  /\ cpc = "response" => spc \in {"off", "write"} \/ up # <<>> \/ down # <<>>

(* A device that waits for a frame and finds none waits for a handler that
   can go on, or on a stream that has ended, which it will notice. *)
ReaderIsServed ==
  cpc \in {"challenge", "result", "response"} /\ down = <<>> =>
    \/ spc \in {"off", "greet", "register", "write"}
    \/ spc \in {"verify", "serve"} /\ up # <<>>
=============================================================================
