-------------------------------- MODULE Chats -------------------------------
(***************************************************************************)
(* The running application around its message and contact tables           *)
(* (internal/api, internal/logic, internal/ui/viewmodel, cmd/aether):      *)
(* goroutines that send a message, receive one or add a contact, each a    *)
(* write to a table and then an event; and the view models of the chat     *)
(* list and of the open chats, which load from the tables, subscribe and   *)
(* load again for every event.                                             *)
(*                                                                         *)
(* Bounds: every goroutine of Jobs does one thing and every view model of  *)
(* ChatVMs is made once, in a behaviour; MaxFaults caps the failures;      *)
(* PageSize stands for the 50 messages of a chat that are loaded.          *)
(***************************************************************************)
EXTENDS ChatStore, EventBus

CONSTANTS
  Peers,
  Bodies,         \* what a user may type
  NoBody,         \* the body of the empty text
  MaxMarks,       \* how often he may type "ENC:" in front of it
  Jobs,           \* goroutines that write
  ChatVMs,        \* the DirectChatViewModels
  NoPeer,         \* the peer of a view model that has not been made
  PageSize,
  TicksPerSecond, \* clock readings within one value of sent_at
  FineClock,      \* whether two readings of the clock always differ
  MaxFaults

ListChannels == {"listMessages", "listContacts"}

ASSUME ChannelsAssumption ==
  /\ Channels = ListChannels \cup ChatVMs /\ ChatVMs \cap ListChannels = {}
  /\ TopicOf = [c \in Channels |-> IF c = "listContacts" THEN "new contact"
                                                         ELSE "new message"]

ASSUME ChatsAssumption ==
  /\ NoPeer \notin Peers /\ NoBody \notin Bodies /\ MaxMarks \in Nat
  /\ FineClock \in BOOLEAN
  /\ PageSize \in Nat \ {0} /\ TicksPerSecond \in Nat \ {0}
  /\ MaxFaults \in Nat

VARIABLES
  db,         \* the messages table
  contacts,   \* the contacts table
  clock,
  jpc,        \* jpc[j]: where goroutine j is
  job,        \* job[j]: the row it writes
  announced,  \* history: the rows that NewMessage events were about
  lpc,        \* where the chat list's view model is
  readContacts, \* the contacts its refresh has read
  shown,      \* the tables as of the list it shows
  listFailed, \* history: its last refresh failed or was cut short
  cpc,        \* cpc[v]: where the view model v of a chat is
  peerOf,     \* peerOf[v]: the peer it is of
  messages,   \* messages[v]: the rows it shows
  chatFailed, \* history: chatFailed[v]: its last load failed
  faults

tables == <<db, contacts>>
writers == <<clock, jpc, job, announced>>
list == <<lpc, readContacts, shown, listFailed>>
chats == <<cpc, peerOf, messages, chatFailed>>
vars == <<tables, writers, list, chats, busVars, faults>>

Texts == [marks : 0..MaxMarks, body : Bodies]

NoText == [marks |-> 0, body |-> NoBody]

NoRow == [id |-> [kind |-> "none", t |-> 0]]

Fault == faults < MaxFaults /\ faults' = faults + 1

Init ==
  /\ db = {} /\ contacts = {}
  /\ clock = 0
  /\ jpc = [j \in Jobs |-> "idle"]
  /\ job = [j \in Jobs |-> NoRow]
  /\ announced = {}
  /\ lpc = "boot"
  /\ readContacts = {}
  /\ shown = [contacts |-> {}, rows |-> {}]
  /\ listFailed = FALSE
  /\ cpc = [v \in ChatVMs |-> "closed"]
  /\ peerOf = [v \in ChatVMs |-> NoPeer]
  /\ messages = [v \in ChatVMs |-> {}]
  /\ chatFailed = [v \in ChatVMs |-> FALSE]
  /\ BusInit
  /\ faults = 0

(* main runs the window once showMainChat has returned from Watch. *)
Running == "listContacts" \in subscribed

JobGoes(j, where) == jpc' = [jpc EXCEPT ![j] = where]

(* The clock is read.  A coarse one may show the next reader the same. *)
ReadClock ==
  clock' = clock + 1 \/ (~FineClock /\ clock' = clock)

Second(t) == t \div TicksPerSecond

-----------------------------------------------------------------------------
(***************************************************************************)
(* The goroutines that write.                                              *)
(***************************************************************************)

(* The send button of an open chat starts a goroutine... *)
OnSend(j, v, text) ==
  /\ jpc[j] = "idle" /\ cpc[v] \notin {"closed", "load", "subscribe"}
  /\ job' = [job EXCEPT ![j] = [to |-> peerOf[v], text |-> text]]
  /\ JobGoes(j, "send")
  /\ UNCHANGED <<tables, clock, announced, list, chats, busVars, faults>>

(* ... that calls SendMessage with the text the entry has by then, while
   the button goes on to clear the entry for the next one.  SendMessage seals
   the text and names the message. *)
SendMessage(j) ==
  /\ jpc[j] = "send"
  /\ ReadClock
  /\ \E text \in Texts \cup {NoText} :
       job' = [job EXCEPT ![j] =
         [id |-> [kind |-> "msg", t |-> clock],
          chat |-> job[j].to, own |-> TRUE,
          content |-> EncryptFor(text), at |-> Second(clock), seq |-> 0,
          n |-> 0]]
  /\ JobGoes(j, "save")
  /\ UNCHANGED <<tables, announced, list, chats, busVars, faults>>

(* A stream brought a payload, and the transport has its handler:
   ProcessIncoming decrypts it, or refuses it. *)
ProcessIncoming(j, p, payload) ==
  /\ jpc[j] = "idle" /\ lpc # "boot"
  /\ \/ /\ Encrypted(payload)
        /\ ReadClock
        /\ job' = [job EXCEPT ![j] =
             [id |-> [kind |-> "in", t |-> clock], chat |-> p, own |-> FALSE,
              content |-> Decrypt(payload), at |-> Second(clock), seq |-> 0,
              n |-> 0]]
        /\ JobGoes(j, "save")
     \/ /\ ~Encrypted(payload)
        /\ JobGoes(j, "done")
        /\ UNCHANGED <<clock, job>>
  /\ UNCHANGED <<tables, announced, list, chats, busVars, faults>>

(* Slip: an error of Save is not returned. *)
SaveUnchecked(j) ==
  /\ jpc[j] = "save"
  /\ \/ db' = SaveRow(db, job[j]) /\ UNCHANGED faults
     \/ Fault /\ UNCHANGED db
  /\ JobGoes(j, "announce")
  /\ UNCHANGED <<contacts, clock, job, announced, list, chats, busVars>>

(* Save commits or fails.  A message of the user is then handed to the
   transport, whose error changes nothing. *)
Save(j) ==
  /\ jpc[j] = "save"
  /\ \/ /\ db' = SaveRow(db, job[j])
        /\ JobGoes(j, "announce")
        /\ UNCHANGED faults
     \/ /\ Fault
        /\ JobGoes(j, "done")
        /\ UNCHANGED db
  /\ UNCHANGED <<contacts, clock, job, announced, list, chats, busVars>>

(* Slip: only a received message is announced. *)
AnnounceReceived(j) ==
  /\ jpc[j] = "announce"
  /\ IF job[j].own THEN UNCHANGED busVars ELSE Publish("new message")
  /\ announced' = announced \cup {job[j]}
  /\ JobGoes(j, "done")
  /\ UNCHANGED <<tables, clock, job, list, chats, faults>>

Announce(j) ==
  /\ jpc[j] = "announce"
  /\ Publish("new message")
  /\ announced' = announced \cup {job[j]}
  /\ JobGoes(j, "done")
  /\ UNCHANGED <<tables, clock, job, list, chats, faults>>

(* AddContact, from the dialog of the chat list. *)
AddContact(j, p) ==
  /\ jpc[j] = "idle" /\ Running
  /\ ReadClock
  /\ \/ /\ contacts' = AddTo(contacts,
                            [peer |-> p, createdAt |-> Second(clock)])
        /\ JobGoes(j, "announce contact")
        /\ UNCHANGED faults
     \/ /\ Fault
        /\ JobGoes(j, "done")
        /\ UNCHANGED contacts
  /\ UNCHANGED <<db, job, announced, list, chats, busVars>>

AnnounceContact(j) ==
  /\ jpc[j] = "announce contact"
  /\ Publish("new contact")
  /\ JobGoes(j, "done")
  /\ UNCHANGED <<tables, clock, job, announced, list, chats, faults>>

-----------------------------------------------------------------------------
(***************************************************************************)
(* The chat list.                                                          *)
(***************************************************************************)

(* main shows the chat list, the transport's handler being in place. *)
ShowMainChat ==
  /\ lpc = "boot"
  /\ lpc' = "contacts"
  /\ UNCHANGED <<tables, writers, readContacts, shown, listFailed, chats,
                 busVars, faults>>

(* Where Refresh returns to: main goes on to Watch, Watch waits again. *)
Refreshed ==
  lpc' = IF Running THEN "wait" ELSE "watch messages"

(* Refresh: ListConversations reads the contacts.  GetContacts returns the
   rows it has got when the query breaks off, without an error... *)
ReadContacts ==
  /\ lpc = "contacts"
  /\ \/ /\ readContacts' = contacts
        /\ lpc' = "messages"
        /\ listFailed' = FALSE
        /\ UNCHANGED faults
     \/ /\ Fault
        /\ readContacts' \in SUBSET contacts
        /\ lpc' = "messages"
        /\ listFailed' = TRUE
     \/ /\ Fault
        /\ listFailed' = TRUE
        /\ Refreshed
        /\ UNCHANGED readContacts
  /\ UNCHANGED <<tables, writers, shown, chats, busVars>>

(* Slip: the events that came in meanwhile are taken for answered. *)
ReadSummariesDraining ==
  /\ lpc = "messages"
  /\ shown' = [contacts |-> readContacts, rows |-> db]
  /\ Refreshed
  /\ queued' = [c \in Channels |-> IF c \in ListChannels THEN 0 ELSE queued[c]]
  /\ UNCHANGED <<tables, writers, readContacts, listFailed, chats, subscribed,
                 unheard, faults>>

(* ... and then the messages, and the list is set to what both say. *)
ReadSummaries ==
  /\ lpc = "messages"
  /\ \/ /\ shown' = [contacts |-> readContacts, rows |-> db]
        /\ UNCHANGED <<listFailed, faults>>
     \/ /\ Fault
        /\ listFailed' = TRUE
        /\ UNCHANGED shown
  /\ Refreshed
  /\ UNCHANGED <<tables, writers, readContacts, chats, busVars>>

(* Watch subscribes to one topic after the other. *)
WatchMessages ==
  /\ lpc = "watch messages"
  /\ Subscribe("listMessages")
  /\ lpc' = "watch contacts"
  /\ UNCHANGED <<tables, writers, readContacts, shown, listFailed, chats,
                 faults>>

WatchContacts ==
  /\ lpc = "watch contacts"
  /\ Subscribe("listContacts")
  /\ lpc' = "wait"
  /\ UNCHANGED <<tables, writers, readContacts, shown, listFailed, chats,
                 faults>>

(* Slip: an event is read and thrown away. *)
WakeListForMessages ==
  /\ lpc = "wait"
  /\ \/ Receive("listMessages") /\ lpc' = "contacts"
     \/ Receive("listContacts") /\ UNCHANGED lpc
  /\ UNCHANGED <<tables, writers, readContacts, shown, listFailed, chats,
                 faults>>

(* An event of either topic starts a refresh. *)
WakeList ==
  /\ lpc = "wait"
  /\ \E c \in ListChannels : Receive(c)
  /\ lpc' = "contacts"
  /\ UNCHANGED <<tables, writers, readContacts, shown, listFailed, chats,
                 faults>>

List == \/ ShowMainChat \/ ReadContacts \/ ReadSummaries
        \/ WatchMessages \/ WatchContacts \/ WakeList

-----------------------------------------------------------------------------
(***************************************************************************)
(* The chats.                                                              *)
(***************************************************************************)

(* showDirectChat for an entry of the list makes a view model of its own. *)
ShowDirectChat(v, p) ==
  /\ cpc[v] = "closed"
  /\ Running
  /\ p \in ListConversations(shown.contacts, shown.rows)
  /\ peerOf' = [peerOf EXCEPT ![v] = p]
  /\ cpc' = [cpc EXCEPT ![v] = "load"]
  /\ UNCHANGED <<tables, writers, list, messages, chatFailed, busVars, faults>>

(* Where LoadMessages returns to. *)
Loaded(v) ==
  cpc' = [cpc EXCEPT ![v] = IF v \in subscribed THEN "wait" ELSE "subscribe"]

LoadMessages(v) ==
  /\ cpc[v] = "load"
  /\ \/ /\ messages' = [messages EXCEPT ![v] =
                          GetMessagesByChat(db, peerOf[v], PageSize)]
        /\ chatFailed' = [chatFailed EXCEPT ![v] = FALSE]
        /\ UNCHANGED faults
     \/ /\ Fault
        /\ chatFailed' = [chatFailed EXCEPT ![v] = TRUE]
        /\ UNCHANGED messages
  /\ Loaded(v)
  /\ UNCHANGED <<tables, writers, list, peerOf, busVars>>

WatchChat(v) ==
  /\ cpc[v] = "subscribe"
  /\ Subscribe(v)
  /\ cpc' = [cpc EXCEPT ![v] = "wait"]
  /\ UNCHANGED <<tables, writers, list, peerOf, messages, chatFailed, faults>>

WakeChat(v) ==
  /\ cpc[v] = "wait"
  /\ Receive(v)
  /\ cpc' = [cpc EXCEPT ![v] = "load"]
  /\ UNCHANGED <<tables, writers, list, peerOf, messages, chatFailed, faults>>

Chat(v) == LoadMessages(v) \/ WatchChat(v) \/ WakeChat(v)

-----------------------------------------------------------------------------

(* The application stops and is started again. *)
Restart ==
  /\ lpc # "boot" /\ Fault
  /\ jpc' = [j \in Jobs |-> IF jpc[j] = "idle" THEN "idle" ELSE "done"]
  /\ lpc' = "boot"
  /\ readContacts' = {}
  /\ shown' = [contacts |-> {}, rows |-> {}]
  /\ listFailed' = FALSE
  /\ cpc' = [v \in ChatVMs |-> "closed"]
  /\ peerOf' = [v \in ChatVMs |-> NoPeer]
  /\ messages' = [v \in ChatVMs |-> {}]
  /\ chatFailed' = [v \in ChatVMs |-> FALSE]
  /\ subscribed' = {}
  /\ queued' = [c \in Channels |-> 0]
  /\ unheard' = {}
  /\ UNCHANGED <<tables, clock, job, announced>>

Payloads == Texts \cup {EncryptFor(text) : text \in Texts}

Write(j) == SendMessage(j) \/ Save(j) \/ Announce(j) \/ AnnounceContact(j)

Next ==
  \/ \E j \in Jobs : \/ \E v \in ChatVMs, text \in Texts : OnSend(j, v, text)
                     \/ \E p \in Peers, b \in Payloads :
                          ProcessIncoming(j, p, b)
                     \/ \E p \in Peers : AddContact(j, p)
                     \/ Write(j)
  \/ List
  \/ \E v \in ChatVMs : Chat(v) \/ \E p \in Peers : ShowDirectChat(v, p)
  \/ Restart

Spec == Init /\ [][Next]_vars

(* Every goroutine goes on as long as it can. *)
FairSpec ==
  /\ Spec
  /\ WF_vars(List)
  /\ \A v \in ChatVMs : WF_vars(Chat(v))
  /\ \A j \in Jobs : WF_vars(Write(j))

-----------------------------------------------------------------------------
(***************************************************************************)
(* Properties.                                                             *)
(***************************************************************************)

Contents == [marks : 0..(MaxMarks + 1), body : Bodies \cup {NoBody}]

Rows == [id : [kind : {"in", "msg"}, t : Nat], chat : Peers, own : BOOLEAN,
         content : Contents, at : Nat, seq : {0}, n : Nat]

Drafts == [to : Peers, text : Texts]

Contacts == [peer : Peers, createdAt : Nat]

(* The type invariant: every variable holds a value the code could hold. *)
TypeOK ==
  /\ db \subseteq Rows /\ contacts \subseteq Contacts
  /\ clock \in Nat
  /\ jpc \in [Jobs -> {"idle", "send", "save", "announce", "announce contact",
                      "done"}]
  /\ job \in [Jobs -> Rows \cup Drafts \cup {NoRow}]
  /\ \A j \in Jobs : jpc[j] = "send" => job[j] \in Drafts
  /\ \A j \in Jobs : jpc[j] \in {"save", "announce"} => job[j] \in Rows
  /\ announced \subseteq Rows
  /\ lpc \in {"boot", "contacts", "messages", "watch messages",
              "watch contacts", "wait"}
  /\ readContacts \subseteq Contacts
  /\ shown.contacts \subseteq Contacts /\ shown.rows \subseteq db
  /\ listFailed \in BOOLEAN
  /\ cpc \in [ChatVMs -> {"closed", "load", "subscribe", "wait"}]
  /\ peerOf \in [ChatVMs -> Peers \cup {NoPeer}]
  /\ \A v \in ChatVMs : cpc[v] # "closed" => peerOf[v] \in Peers
  /\ messages \in [ChatVMs -> SUBSET db]
  /\ chatFailed \in [ChatVMs -> BOOLEAN]
  /\ BusType
  /\ faults \in 0..MaxFaults

(* A goroutine has written to a table and will still say so. *)
Announcing == \E j \in Jobs : jpc[j] \in {"announce", "announce contact"}

(* The chat list waits for an event and none is there or about to come. *)
ListQuiet ==
  /\ lpc = "wait" /\ ~Announcing
  /\ \A c \in ListChannels : queued[c] = 0

(* A chat list with nothing to wait for shows the tables as they are, unless
   its last refresh failed or was cut short: no order of writes, events,
   dropped events and the two queries of a refresh leaves it behind.  Events
   that were published before it subscribed are the exception. *)
ListIsCurrent ==
  ListQuiet /\ ~listFailed /\ ListChannels \cap unheard = {}
    => shown = [contacts |-> contacts, rows |-> db]

ChatQuiet(v) == cpc[v] = "wait" /\ ~Announcing /\ queued[v] = 0

(* The same of an open chat and the page of messages it loads. *)
ChatIsCurrent ==
  \A v \in ChatVMs :
    ChatQuiet(v) /\ ~chatFailed[v] /\ v \notin unheard
      => messages[v] = GetMessagesByChat(db, peerOf[v], PageSize)

(* An event about a new message is only published once the message is in the
   table, whatever fails. *)
EventsAreSaved ==
  \A r \in announced :
    \E x \in db : x.id = r.id /\ x.content = r.content /\ x.chat = r.chat

(* Once the writing is over the list and every open chat come to show the
   tables, also after lost wakeups for a full channel, a failed refresh that
   another event makes good, and a restart. *)
EventuallyCurrent ==
  <>[](/\ \/ listFailed \/ ListChannels \cap unheard # {}
          \/ shown = [contacts |-> contacts, rows |-> db]
       /\ \A v \in ChatVMs :
            \/ cpc[v] = "closed" \/ chatFailed[v] \/ v \in unheard
            \/ messages[v] = GetMessagesByChat(db, peerOf[v], PageSize))

-----------------------------------------------------------------------------
(***************************************************************************)
(* What the documents and comments of the repository say and the code does *)
(* not do.  README.md names the instance that violates each of them.       *)
(***************************************************************************)

(* The list needs no luck to be current: what happens while it is set up is
   not lost on it. *)
ListMissesNothing ==
  ListQuiet /\ ~listFailed
    => shown = [contacts |-> contacts, rows |-> db]

(* "reload always ensures we have latest": a chat that is current shows the
   last message of its table. *)
LatestIsShown ==
  \A v \in ChatVMs :
    ChatQuiet(v) /\ ~chatFailed[v] /\ v \notin unheard
      => \A r \in InChat(db, peerOf[v]) :
           (\A x \in InChat(db, peerOf[v]) : x = r \/ Before(x, r))
             => r \in messages[v]

(* The list shows the last message of each conversation. *)
LastMessageIsLast ==
  \A p \in Conversations(shown.rows) :
    \A x \in InChat(shown.rows, p) : ~Before(LastMessage(shown.rows, p), x)

(* The text as its author typed it: rows of one's own messages are saved
   encrypted, those of received ones decrypted. *)
Typed(r) == IF r.own THEN Decrypt(r.content) ELSE r.content

(* A chat shows the text as it was typed. *)
TextIsKept ==
  \A v \in ChatVMs : \A r \in messages[v] : MessageDTO(r).content = Typed(r)

(* What is sent is what was in the entry when the button was pressed. *)
SentAsTyped ==
  [][\A j \in Jobs : jpc[j] = "send" /\ jpc'[j] = "save"
                      => job'[j].content = EncryptFor(job[j].text)]_vars

(* A chat shows which messages are one's own. *)
OwnIsMarked ==
  \A v \in ChatVMs : \A r \in messages[v] : MessageDTO(r).isOwn = r.own

(* The view model of a chat that was left for another does not stay
   subscribed. *)
OneChatIsWatched ==
  \A v, w \in ChatVMs : v \in subscribed /\ w \in subscribed => v = w
=============================================================================
