---------------------------- MODULE WritePromise ----------------------------
(***************************************************************************)
(* What writing through WriteTransaction promises, and what the models of  *)
(* the sync engine and of the chat service take for granted: a batch is    *)
(* saved row by row and in order, its progress is recorded and it is       *)
(* acknowledged only after all its rows, a message is reported as saved    *)
(* only when it is, and nothing but a loss of power takes anything away,   *)
(* from the last row on.  There are no mutex, connections, statements,     *)
(* errors or crashes here.                                                 *)
(***************************************************************************)
EXTENDS Naturals

CONSTANTS Senders, Batch

VARIABLES rows,      \* rows of the batch in the messages table
          recorded,  \* whether device_sync_state has the batch's progress
          acked,     \* whether the batch was acknowledged
          messages,  \* senders whose message is in the table
          reported   \* senders that returned without an error

vars == <<rows, recorded, acked, messages, reported>>

All == 1..Batch

Init == /\ rows = {} /\ messages = {} /\ reported = {}
        /\ recorded = FALSE /\ acked = FALSE

SaveRow(n) == /\ \A m \in All : m < n => m \in rows
              /\ rows' = rows \cup {n}
              /\ UNCHANGED <<recorded, acked, messages, reported>>

Record == /\ rows = All
          /\ recorded' = TRUE
          /\ UNCHANGED <<rows, acked, messages, reported>>

Acknowledge == /\ rows = All
               /\ acked' = TRUE
               /\ UNCHANGED <<rows, recorded, messages, reported>>

SaveMessage(w) == /\ messages' = messages \cup {w}
                  /\ UNCHANGED <<rows, recorded, acked, reported>>

Report(w) == /\ w \in messages
             /\ reported' = reported \cup {w}
             /\ UNCHANGED <<rows, recorded, acked, messages>>

LosePower == /\ rows' \subseteq rows /\ messages' \subseteq messages
             /\ \A n \in rows' : \A m \in All : m < n => m \in rows'
             /\ recorded' => recorded /\ rows' = All
             /\ UNCHANGED <<acked, reported>>

Next == \/ \E n \in All : SaveRow(n)
        \/ Record \/ Acknowledge
        \/ \E w \in Senders : SaveMessage(w) \/ Report(w)
        \/ LosePower

Spec == Init /\ [][Next]_vars
=============================================================================
