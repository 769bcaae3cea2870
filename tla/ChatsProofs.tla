----------------------------- MODULE ChatsProofs ----------------------------
(***************************************************************************)
(* What TLAPS proves of Chats, for all peers, texts, goroutines, view      *)
(* models, buffers, pages and failures.                                    *)
(***************************************************************************)
EXTENDS Chats, FiniteSetTheorems, TLAPS

TypeInv == TypeOK /\ IsFiniteSet(db)

(* An event about the table that channel c tells of is there, about to come,
   or was missed before c was subscribed. *)
Pending(c) ==
  \/ queued[c] > 0
  \/ c \in unheard
  \/ \E j \in Jobs : jpc[j] = IF c = "listContacts" THEN "announce contact"
                                                    ELSE "announce"

(* A chat list that is behind a table has an event for it pending; in the
   middle of a refresh that is so of the table already read. *)
ListInv ==
  /\ lpc = "messages" /\ ~listFailed /\ readContacts # contacts
       => Pending("listContacts")
  /\ lpc \in {"watch messages", "watch contacts", "wait"} /\ ~listFailed =>
       /\ shown.rows # db => Pending("listMessages")
       /\ shown.contacts # contacts => Pending("listContacts")
  /\ shown = [contacts |-> shown.contacts, rows |-> shown.rows]

(* A chat that is behind the table has an event pending. *)
ChatInv ==
  \A v \in ChatVMs :
    /\ cpc[v] \in {"subscribe", "wait"} /\ ~chatFailed[v]
    /\ messages[v] # GetMessagesByChat(db, peerOf[v], PageSize)
    => Pending(v)

-----------------------------------------------------------------------------

(* The clock's seconds are numbers, and so is what it reads next. *)
LEMMA ClockType ==
  ASSUME NEW t \in Nat
  PROVE  Second(t) \in Nat /\ (t = clock /\ ReadClock => clock' \in Nat)
<1>1. Second(t) \in Nat
  BY ChatsAssumption DEF Second
<1> QED
  BY <1>1 DEF ReadClock

(* A save adds a row to the table or does nothing. *)
LEMMA SaveType ==
  ASSUME NEW r \in Rows, db \subseteq Rows, IsFiniteSet(db)
  PROVE  /\ SaveRow(db, r) \subseteq Rows
         /\ IsFiniteSet(SaveRow(db, r))
         /\ db \subseteq SaveRow(db, r)
<1> DEFINE s == [r EXCEPT !.n = Cardinality(db) + 1]
<1>1. Cardinality(db) \in Nat
  BY FS_CardinalityType
<1>2. s \in Rows
  BY <1>1 DEF Rows
<1>3. IsFiniteSet(db \cup {s})
  BY FS_AddElement
<1>4. SaveRow(db, r) = db \/ SaveRow(db, r) = db \cup {s}
  BY DEF SaveRow, InsertOrIgnore
<1> QED
  BY <1>2, <1>3, <1>4

(* Encryption and decryption take texts to contents. *)
LEMMA TextType ==
  /\ NoText \in Contents
  /\ \A text \in Texts \cup {NoText} : EncryptFor(text) \in Contents
  /\ \A b \in Payloads : b \in Contents /\ (Encrypted(b) => Decrypt(b) \in Contents)
<1>1. \A text \in Texts \cup {NoText} :
        text \in Contents /\ EncryptFor(text) \in Contents
  BY ChatsAssumption DEF Texts, NoText, Contents, EncryptFor
<1>2. \A b \in Payloads : b \in Contents
  BY <1>1 DEF Payloads
<1>3. \A b \in Contents : Encrypted(b) => Decrypt(b) \in Contents
  BY ChatsAssumption DEF Contents, Encrypted, Decrypt
<1> QED
  BY <1>1, <1>2, <1>3

LEMMA FaultType ==
  TypeOK /\ (Fault \/ UNCHANGED faults) => faults' \in 0..MaxFaults
<1> SUFFICES ASSUME faults \in 0..MaxFaults, Fault \/ UNCHANGED faults
             PROVE  faults' \in 0..MaxFaults
  BY DEF TypeOK
<1> QED
  BY ChatsAssumption DEF Fault

LEMMA BusSteps ==
  ASSUME BusType
  PROVE  /\ \A c \in Channels : Subscribe(c) \/ Receive(c) => BusType'
         /\ Publish("new message") \/ Publish("new contact") => BusType'
<1> USE BufferAssumption DEF BusType
<1>1. ASSUME NEW c \in Channels, Subscribe(c) PROVE BusType'
  BY <1>1 DEF Subscribe
<1>2. ASSUME NEW c \in Channels, Receive(c) PROVE BusType'
  BY <1>2 DEF Receive
<1>3. ASSUME NEW topic, Publish(topic) PROVE BusType'
  BY <1>3 DEF Publish, On
<1> QED
  BY <1>1, <1>2, <1>3

LEMMA InitTypes == Init => TypeInv
<1> SUFFICES ASSUME Init PROVE TypeInv
  OBVIOUS
<1>1. BusType
  BY BufferAssumption DEF Init, BusInit, BusType
<1>2. IsFiniteSet(db)
  BY FS_EmptySet DEF Init
<1>3. faults \in 0..MaxFaults
  BY ChatsAssumption DEF Init
<1> QED
  BY <1>1, <1>2, <1>3 DEF Init, TypeInv, TypeOK

LEMMA StepTypes == TypeInv /\ [Next]_vars => TypeInv'
<1> SUFFICES ASSUME TypeInv, [Next]_vars PROVE TypeInv'
  OBVIOUS
<1> USE DEF TypeInv
<1>0. BusType /\ (UNCHANGED busVars => BusType')
  BY DEF TypeOK, BusType, busVars
<1>1. ASSUME NEW j \in Jobs, NEW v \in ChatVMs, NEW text \in Texts,
             OnSend(j, v, text)
      PROVE  TypeInv'
  <2>1. [to |-> peerOf[v], text |-> text] \in Drafts
    BY <1>1 DEF OnSend, Drafts, TypeOK
  <2> QED
    BY <1>0, <1>1, <2>1 DEF OnSend, JobGoes, TypeOK, tables, list, chats
<1>2. ASSUME NEW j \in Jobs, SendMessage(j) PROVE TypeInv'
  <2>1. PICK text \in Texts \cup {NoText} :
          job' = [job EXCEPT ![j] =
            [id |-> [kind |-> "msg", t |-> clock], chat |-> job[j].to,
             own |-> TRUE, content |-> EncryptFor(text), at |-> Second(clock),
             seq |-> 0, n |-> 0]]
    BY <1>2 DEF SendMessage
  <2>2. job'[j] \in Rows
    BY <1>2, <2>1, TextType, ClockType DEF SendMessage, TypeOK, Rows, Drafts
  <2>3. clock' \in Nat
    BY <1>2, ClockType DEF SendMessage, TypeOK
  <2>4. job' \in [Jobs -> Rows \cup Drafts \cup {NoRow}]
    BY <2>1, <2>2 DEF TypeOK
  <2> QED
    BY <1>0, <1>2, <2>1, <2>2, <2>3, <2>4
    DEF SendMessage, JobGoes, TypeOK, tables, list, chats
<1>3. ASSUME NEW j \in Jobs, NEW p \in Peers, NEW b \in Payloads,
             ProcessIncoming(j, p, b)
      PROVE  TypeInv'
  <2>1. CASE Encrypted(b)
    <3>1. /\ ReadClock
          /\ job' = [job EXCEPT ![j] =
               [id |-> [kind |-> "in", t |-> clock], chat |-> p, own |-> FALSE,
                content |-> Decrypt(b), at |-> Second(clock), seq |-> 0,
                n |-> 0]]
          /\ jpc' = [jpc EXCEPT ![j] = "save"]
      BY <1>3, <2>1 DEF ProcessIncoming, JobGoes
    <3>2. job'[j] \in Rows
      BY <2>1, <3>1, TextType, ClockType DEF TypeOK, Rows
    <3>3. clock' \in Nat
      BY <3>1, ClockType DEF TypeOK
    <3>4. job' \in [Jobs -> Rows \cup Drafts \cup {NoRow}]
      BY <3>1, <3>2 DEF TypeOK
    <3> QED
      BY <1>0, <1>3, <3>1, <3>2, <3>3, <3>4
      DEF ProcessIncoming, TypeOK, tables, list, chats
  <2>2. CASE ~Encrypted(b)
    BY <1>0, <1>3, <2>2 DEF ProcessIncoming, JobGoes, TypeOK, tables, list, chats
  <2> QED
    BY <2>1, <2>2
<1>4. ASSUME NEW j \in Jobs, Save(j) PROVE TypeInv'
  <2>1. job[j] \in Rows
    BY <1>4 DEF Save, TypeOK
  <2>2. db' \subseteq Rows /\ IsFiniteSet(db') /\ db \subseteq db'
    BY <1>4, <2>1, SaveType DEF Save, TypeOK
  <2>3. faults' \in 0..MaxFaults
    BY <1>4, FaultType DEF Save
  <2> QED
    BY <1>0, <1>4, <2>1, <2>2, <2>3 DEF Save, JobGoes, TypeOK, list, chats
<1>5. ASSUME NEW j \in Jobs, Announce(j) \/ AnnounceContact(j) PROVE TypeInv'
  <2>1. BusType'
    BY <1>0, <1>5, BusSteps DEF Announce, AnnounceContact
  <2> QED
    BY <1>5, <2>1
    DEF Announce, AnnounceContact, JobGoes, TypeOK, tables, list, chats
<1>6. ASSUME NEW j \in Jobs, NEW p \in Peers, AddContact(j, p) PROVE TypeInv'
  <2>1. clock \in Nat /\ Second(clock) \in Nat /\ clock' \in Nat
    BY <1>6, ClockType DEF AddContact, TypeOK
  <2>3. [peer |-> p, createdAt |-> Second(clock)] \in Contacts
    BY <2>1 DEF Contacts
  <2>4. contacts' \subseteq Contacts
    BY <1>6, <2>3 DEF AddContact, AddTo, TypeOK
  <2>2. faults' \in 0..MaxFaults
    BY <1>6, FaultType DEF AddContact
  <2> QED
    BY <1>0, <1>6, <2>1, <2>2, <2>4 DEF AddContact, JobGoes, TypeOK, list, chats
<1>7. CASE ShowMainChat
  BY <1>0, <1>7 DEF ShowMainChat, TypeOK, tables, writers, chats
<1>8. CASE ReadContacts \/ ReadSummaries
  <2>1. faults' \in 0..MaxFaults
    BY <1>8, FaultType DEF ReadContacts, ReadSummaries
  <2>2. shown'.contacts \subseteq Contacts /\ shown'.rows \subseteq db
    <3>1. \/ UNCHANGED shown
          \/ shown' = [contacts |-> readContacts, rows |-> db]
      BY <1>8 DEF ReadContacts, ReadSummaries
    <3>2. /\ shown.contacts \subseteq Contacts /\ shown.rows \subseteq db
          /\ readContacts \subseteq Contacts
      BY DEF TypeOK
    <3>3. CASE UNCHANGED shown
      BY <3>2, <3>3
    <3>4. CASE shown' = [contacts |-> readContacts, rows |-> db]
      BY <3>2, <3>4
    <3> QED
      BY <3>1, <3>3, <3>4
  <2>3. readContacts' \subseteq Contacts /\ listFailed' \in BOOLEAN
    BY <1>8 DEF ReadContacts, ReadSummaries, TypeOK
  <2>4. lpc' \in {"boot", "contacts", "messages", "watch messages",
                  "watch contacts", "wait"}
    BY <1>8 DEF ReadContacts, ReadSummaries, Refreshed
  <2>5. UNCHANGED <<tables, writers, chats, busVars>>
    BY <1>8 DEF ReadContacts, ReadSummaries
  <2> QED
    BY <1>0, <2>1, <2>2, <2>3, <2>4, <2>5 DEF TypeOK, tables, writers, chats
<1>9. CASE WatchMessages \/ WatchContacts \/ WakeList
  <2>1. BusType'
    BY <1>0, <1>9, BusSteps, ChannelsAssumption
    DEF WatchMessages, WatchContacts, WakeList, ListChannels
  <2> QED
    BY <1>9, <2>1 DEF WatchMessages, WatchContacts, WakeList, TypeOK,
                      tables, writers, chats
<1>10. ASSUME NEW v \in ChatVMs, NEW p \in Peers, ShowDirectChat(v, p)
       PROVE  TypeInv'
  BY <1>0, <1>10 DEF ShowDirectChat, TypeOK, tables, writers, list
<1>11. ASSUME NEW v \in ChatVMs, LoadMessages(v) PROVE TypeInv'
  <2>1. faults' \in 0..MaxFaults
    BY <1>11, FaultType DEF LoadMessages
  <2>2. GetMessagesByChat(db, peerOf[v], PageSize) \subseteq db
    BY DEF GetMessagesByChat, InChat
  <2>3. /\ messages' \in [ChatVMs -> SUBSET db]
        /\ chatFailed' \in [ChatVMs -> BOOLEAN]
    BY <1>11, <2>2 DEF LoadMessages, TypeOK
  <2>4. /\ cpc' \in [ChatVMs -> {"closed", "load", "subscribe", "wait"}]
        /\ \A w \in ChatVMs : cpc'[w] # "closed" => cpc[w] # "closed"
    BY <1>11 DEF LoadMessages, Loaded, TypeOK
  <2> QED
    BY <1>0, <1>11, <2>1, <2>3, <2>4
    DEF LoadMessages, TypeOK, tables, writers, list
<1>12. ASSUME NEW v \in ChatVMs, WatchChat(v) \/ WakeChat(v) PROVE TypeInv'
  <2>1. BusType'
    BY <1>0, <1>12, BusSteps, ChannelsAssumption DEF WatchChat, WakeChat
  <2> QED
    BY <1>12, <2>1 DEF WatchChat, WakeChat, TypeOK, tables, writers, list
<1>13. CASE Restart
  <2>1. BusType'
    BY <1>13, BufferAssumption DEF Restart, BusType
  <2>2. faults' \in 0..MaxFaults
    BY <1>13, FaultType DEF Restart
  <2> QED
    BY <1>13, <2>1, <2>2 DEF Restart, TypeOK, tables
<1>14. CASE UNCHANGED vars
  BY <1>0, <1>14 DEF vars, TypeOK, tables, writers, list, chats
<1> QED
  BY <1>1, <1>2, <1>3, <1>4, <1>5, <1>6, <1>7, <1>8, <1>9, <1>10, <1>11, <1>12,
     <1>13, <1>14 DEF Next, List, Chat, Write

(* Every reachable state is well typed. *)
THEOREM TypeCorrect == Spec => []TypeOK
<1>1. TypeInv => TypeOK
  BY DEF TypeInv
<1> QED
  BY <1>1, InitTypes, StepTypes, PTL DEF Spec

-----------------------------------------------------------------------------

LEMMA InitViews == Init => ListInv /\ ChatInv
  BY DEF Init, ListInv, ChatInv

(* Who is told of an event has it, or was not there. *)
LEMMA PublishPending ==
  ASSUME TypeInv, NEW topic, Publish(topic), NEW c \in Channels
  PROVE  /\ TopicOf[c] = topic => queued'[c] > 0 \/ c \in unheard'
         /\ queued[c] > 0 => queued'[c] > 0
         /\ c \in unheard => c \in unheard'
<1>1. queued'[c] = IF c \in On(topic) \cap subscribed /\ queued[c] < Buffer
                     THEN queued[c] + 1 ELSE queued[c]
  BY DEF Publish
<1>2. unheard' = unheard \cup (On(topic) \ subscribed)
  BY DEF Publish
<1>3. queued[c] \in 0..Buffer /\ Buffer \in Nat \ {0}
  BY BufferAssumption DEF TypeInv, TypeOK, BusType
<1>4. c \in On(topic) <=> TopicOf[c] = topic
  BY DEF On
<1>5. queued[c] > 0 => queued'[c] > 0
  BY <1>1, <1>3
<1>6. TopicOf[c] = topic => queued'[c] > 0 \/ c \in unheard'
  <2>1. CASE c \in subscribed
    BY <1>1, <1>3, <1>4, <2>1
  <2>2. CASE c \notin subscribed
    BY <1>2, <1>4, <2>2
  <2> QED
    BY <2>1, <2>2
<1> QED
  BY <1>2, <1>5, <1>6

(* A table that changes has an event coming. *)
LEMMA WritesAreAnnounced ==
  TypeInv /\ [Next]_vars =>
    /\ db' # db => \E j \in Jobs : jpc'[j] = "announce"
    /\ contacts' # contacts => \E j \in Jobs : jpc'[j] = "announce contact"
<1> SUFFICES ASSUME TypeInv, [Next]_vars
    PROVE  /\ db' # db => \E j \in Jobs : jpc'[j] = "announce"
           /\ contacts' # contacts => \E j \in Jobs : jpc'[j] = "announce contact"
  OBVIOUS
<1>1. ASSUME NEW j \in Jobs, Save(j)
      PROVE  UNCHANGED contacts /\ (db' # db => jpc'[j] = "announce")
  BY <1>1 DEF Save, JobGoes, TypeInv, TypeOK
<1>2. ASSUME NEW j \in Jobs, NEW p \in Peers, AddContact(j, p)
      PROVE  UNCHANGED db /\ (contacts' # contacts => jpc'[j] = "announce contact")
  BY <1>2 DEF AddContact, JobGoes, TypeInv, TypeOK
<1>3. ASSUME NEW j \in Jobs,
             \/ \E v \in ChatVMs, text \in Texts : OnSend(j, v, text)
             \/ \E p \in Peers, b \in Payloads : ProcessIncoming(j, p, b)
             \/ SendMessage(j) \/ Announce(j) \/ AnnounceContact(j)
      PROVE  UNCHANGED tables
  BY <1>3 DEF OnSend, ProcessIncoming, SendMessage, Announce, AnnounceContact
<1>4. CASE List \/ Restart
  BY <1>4 DEF List, ShowMainChat, ReadContacts, ReadSummaries, WatchMessages,
              WatchContacts, WakeList, Restart, tables
<1>5. ASSUME NEW v \in ChatVMs, Chat(v) \/ \E p \in Peers : ShowDirectChat(v, p)
      PROVE  UNCHANGED tables
  BY <1>5 DEF Chat, LoadMessages, WatchChat, WakeChat, ShowDirectChat
<1>6. CASE UNCHANGED vars
  BY <1>6 DEF vars, tables
<1> QED
  BY <1>1, <1>2, <1>3, <1>4, <1>5, <1>6 DEF Next, Write, tables

(* Channel c is read by the view model it was made for. *)
IsRead(c) == \/ c \in ListChannels /\ WakeList
             \/ c \in ChatVMs /\ WakeChat(c)

(* An event stays pending until its channel is read or all ends. *)
LEMMA PendingStays ==
  TypeInv /\ [Next]_vars =>
    \A c \in Channels : Pending(c) => Pending(c)' \/ IsRead(c) \/ Restart
<1> SUFFICES ASSUME TypeInv, [Next]_vars, NEW c \in Channels, Pending(c)
             PROVE  Pending(c)' \/ IsRead(c) \/ Restart
  OBVIOUS
<1>1. ASSUME NEW j \in Jobs, Announce(j) PROVE Pending(c)'
  <2>1. /\ jpc[j] = "announce" /\ jpc' = [jpc EXCEPT ![j] = "done"]
        /\ Publish("new message")
    BY <1>1 DEF Announce, JobGoes
  <2>2. CASE c = "listContacts"
    BY <2>1, <2>2, PublishPending DEF Pending, TypeInv, TypeOK
  <2>3. CASE c # "listContacts"
    <3>1. TopicOf[c] = "new message"
      BY <2>3, ChannelsAssumption
    <3> QED
      BY <2>1, <2>3, <3>1, PublishPending DEF Pending, TypeInv, TypeOK
  <2> QED
    BY <2>2, <2>3
<1>2. ASSUME NEW j \in Jobs, AnnounceContact(j) PROVE Pending(c)'
  <2>1. /\ jpc[j] = "announce contact" /\ jpc' = [jpc EXCEPT ![j] = "done"]
        /\ Publish("new contact")
    BY <1>2 DEF AnnounceContact, JobGoes
  <2>2. CASE c = "listContacts"
    <3>1. TopicOf[c] = "new contact"
      BY <2>2, ChannelsAssumption
    <3> QED
      BY <2>1, <2>2, <3>1, PublishPending DEF Pending, TypeInv, TypeOK
  <2>3. CASE c # "listContacts"
    BY <2>1, <2>3, PublishPending DEF Pending, TypeInv, TypeOK
  <2> QED
    BY <2>2, <2>3
<1>3. ASSUME NEW j \in Jobs,
             \/ \E v \in ChatVMs, text \in Texts : OnSend(j, v, text)
             \/ \E p \in Peers, b \in Payloads : ProcessIncoming(j, p, b)
             \/ \E p \in Peers : AddContact(j, p)
             \/ SendMessage(j) \/ Save(j)
      PROVE  Pending(c)'
  <2>1. /\ UNCHANGED busVars /\ jpc[j] \in {"idle", "send", "save"}
        /\ \E where : jpc' = [jpc EXCEPT ![j] = where]
    BY <1>3 DEF OnSend, ProcessIncoming, AddContact, SendMessage, Save, JobGoes
  <2> QED
    BY <2>1 DEF Pending, busVars, TypeInv, TypeOK
<1>4. ASSUME UNCHANGED <<queued, unheard, jpc>> PROVE Pending(c)'
  BY <1>4 DEF Pending
<1>5. ASSUME NEW d \in Channels, Receive(d), UNCHANGED jpc, d # c
      PROVE  Pending(c)'
  BY <1>5 DEF Receive, Pending, TypeInv, TypeOK, BusType
<1>6. CASE List
  <2>1. CASE WakeList
    <3>1. PICK d \in ListChannels : Receive(d) /\ UNCHANGED jpc
      BY <2>1 DEF WakeList, writers
    <3>2. CASE c \in ListChannels
      BY <2>1, <3>2 DEF IsRead
    <3>3. CASE c \notin ListChannels
      BY <1>5, <3>1, <3>3, ChannelsAssumption
    <3> QED
      BY <3>2, <3>3
  <2>2. CASE ShowMainChat \/ ReadContacts \/ ReadSummaries \/ WatchMessages
             \/ WatchContacts
    BY <1>4, <2>2 DEF ShowMainChat, ReadContacts, ReadSummaries, WatchMessages,
                      WatchContacts, Subscribe, busVars, writers
  <2> QED
    BY <1>6, <2>1, <2>2 DEF List
<1>7. ASSUME NEW v \in ChatVMs, Chat(v) \/ \E p \in Peers : ShowDirectChat(v, p)
      PROVE  Pending(c)' \/ IsRead(c)
  <2>1. CASE WakeChat(v)
    <3>1. Receive(v) /\ UNCHANGED jpc
      BY <2>1 DEF WakeChat, writers
    <3>2. CASE c = v
      BY <2>1, <3>2 DEF IsRead
    <3>3. CASE c # v
      BY <1>5, <3>1, <3>3, ChannelsAssumption
    <3> QED
      BY <3>2, <3>3
  <2>2. CASE LoadMessages(v) \/ WatchChat(v) \/ \E p \in Peers : ShowDirectChat(v, p)
    BY <1>4, <2>2 DEF LoadMessages, WatchChat, ShowDirectChat, Subscribe,
                      busVars, writers
  <2> QED
    BY <1>7, <2>1, <2>2 DEF Chat
<1>8. CASE UNCHANGED vars
  BY <1>4, <1>8 DEF vars, busVars, writers
<1> QED
  BY <1>1, <1>2, <1>3, <1>6, <1>7, <1>8 DEF Next, Write

LEMMA StepList == TypeInv /\ ListInv /\ [Next]_vars => ListInv'
<1> SUFFICES ASSUME TypeInv, ListInv, [Next]_vars PROVE ListInv'
  OBVIOUS
<1> USE DEF ListInv
<1>1. CASE ShowMainChat
  BY <1>1 DEF ShowMainChat
<1>2. CASE ReadContacts
  <2>1. CASE readContacts' = contacts /\ lpc' = "messages"
    BY <1>2, <2>1 DEF ReadContacts, tables
  <2>2. CASE listFailed' = TRUE
    BY <1>2, <2>2 DEF ReadContacts
  <2> QED
    BY <1>2, <2>1, <2>2 DEF ReadContacts
<1>3. CASE ReadSummaries
  <2>1. lpc' # "messages" /\ UNCHANGED <<tables, busVars, jpc, readContacts>>
    BY <1>3 DEF ReadSummaries, Refreshed, writers
  <2>2. CASE /\ shown' = [contacts |-> readContacts, rows |-> db]
             /\ UNCHANGED listFailed
    <3>1. ~listFailed /\ readContacts # contacts => Pending("listContacts")
      BY <1>3 DEF ReadSummaries
    <3>2. ~listFailed /\ readContacts # contacts => Pending("listContacts")'
      BY <2>1, <3>1 DEF Pending, busVars
    <3> QED
      BY <2>1, <2>2, <3>2 DEF tables
  <2>3. CASE listFailed' = TRUE /\ UNCHANGED shown
    BY <2>1, <2>3
  <2> QED
    BY <1>3, <2>2, <2>3 DEF ReadSummaries
<1>4. CASE WatchMessages \/ WatchContacts
  <2>1. /\ lpc \in {"watch messages", "watch contacts"}
        /\ lpc' \in {"watch contacts", "wait"}
        /\ UNCHANGED <<tables, writers, readContacts, shown, listFailed>>
        /\ UNCHANGED <<queued, unheard>>
    BY <1>4 DEF WatchMessages, WatchContacts, Subscribe
  <2> QED
    BY <2>1 DEF Pending, tables, writers
<1>5. CASE WakeList
  BY <1>5 DEF WakeList
<1>6. CASE Restart
  BY <1>6 DEF Restart
<1>7. ASSUME UNCHANGED list, ~WakeList, ~Restart PROVE ListInv'
  <2>1. ListChannels \subseteq Channels /\ ListChannels \cap ChatVMs = {}
    BY ChannelsAssumption
  <2>2. \A c \in ListChannels : Pending(c) => Pending(c)'
    BY <1>7, <2>1, PendingStays DEF IsRead
  <2>3. /\ db' # db => Pending("listMessages")'
        /\ contacts' # contacts => Pending("listContacts")'
    BY WritesAreAnnounced DEF Pending
  <2>4. UNCHANGED <<lpc, readContacts, shown, listFailed>>
    BY <1>7 DEF list
  <2>5. /\ Pending("listMessages") => Pending("listMessages")'
        /\ Pending("listContacts") => Pending("listContacts")'
    BY <2>2 DEF ListChannels
  <2> QED
    BY <2>3, <2>4, <2>5
<1>8. UNCHANGED list \/ List \/ Restart
  <2>1. ASSUME NEW j \in Jobs,
               \/ \E v \in ChatVMs, text \in Texts : OnSend(j, v, text)
               \/ \E p \in Peers, b \in Payloads : ProcessIncoming(j, p, b)
               \/ \E p \in Peers : AddContact(j, p)
               \/ Write(j)
        PROVE  UNCHANGED list
    BY <2>1 DEF OnSend, ProcessIncoming, AddContact, Write, SendMessage, Save,
                Announce, AnnounceContact
  <2>2. ASSUME NEW v \in ChatVMs, Chat(v) \/ \E p \in Peers : ShowDirectChat(v, p)
        PROVE  UNCHANGED list
    BY <2>2 DEF Chat, LoadMessages, WatchChat, WakeChat, ShowDirectChat
  <2> QED
    BY <2>1, <2>2 DEF Next, vars
<1> QED
  BY <1>1, <1>2, <1>3, <1>4, <1>5, <1>6, <1>7, <1>8 DEF List

LEMMA StepChats == TypeInv /\ ChatInv /\ [Next]_vars => ChatInv'
<1> SUFFICES ASSUME TypeInv, ChatInv, [Next]_vars, NEW v \in ChatVMs
             PROVE  ChatInv!(v)'
  BY DEF ChatInv
<1> USE DEF ChatInv
<1>1. CASE LoadMessages(v)
  <2>1. \/ /\ messages'[v] = GetMessagesByChat(db, peerOf[v], PageSize)
           /\ UNCHANGED <<db, peerOf>>
        \/ chatFailed'[v] = TRUE
    BY <1>1 DEF LoadMessages, tables, TypeInv, TypeOK
  <2> QED
    BY <2>1
<1>2. CASE WatchChat(v)
  <2>1. /\ UNCHANGED <<tables, writers, peerOf, messages, chatFailed>>
        /\ UNCHANGED <<queued, unheard>>
        /\ cpc[v] = "subscribe"
    BY <1>2 DEF WatchChat, Subscribe
  <2> QED
    BY <2>1 DEF Pending, tables, writers
<1>3. CASE WakeChat(v) \/ \E p \in Peers : ShowDirectChat(v, p)
  BY <1>3 DEF WakeChat, ShowDirectChat, TypeInv, TypeOK
<1>4. CASE Restart
  BY <1>4 DEF Restart
<1>5. ASSUME cpc'[v] = cpc[v], peerOf'[v] = peerOf[v],
             messages'[v] = messages[v], chatFailed'[v] = chatFailed[v],
             ~WakeChat(v), ~Restart
      PROVE  ChatInv!(v)'
  <2>1. v \in Channels /\ v \notin ListChannels /\ v # "listContacts"
    BY ChannelsAssumption DEF ListChannels
  <2>2. Pending(v) => Pending(v)'
    BY <1>5, <2>1, PendingStays DEF IsRead
  <2>3. db' # db => Pending(v)'
    BY <2>1, WritesAreAnnounced DEF Pending
  <2> QED
    BY <1>5, <2>2, <2>3
<1>6. \/ Chat(v) \/ \E p \in Peers : ShowDirectChat(v, p)
      \/ Restart
      \/ /\ cpc'[v] = cpc[v] /\ peerOf'[v] = peerOf[v]
         /\ messages'[v] = messages[v] /\ chatFailed'[v] = chatFailed[v]
  <2>1. ASSUME NEW j \in Jobs,
               \/ \E w \in ChatVMs, text \in Texts : OnSend(j, w, text)
               \/ \E p \in Peers, b \in Payloads : ProcessIncoming(j, p, b)
               \/ \E p \in Peers : AddContact(j, p)
               \/ Write(j)
        PROVE  UNCHANGED chats
    BY <2>1 DEF OnSend, ProcessIncoming, AddContact, Write, SendMessage, Save,
                Announce, AnnounceContact
  <2>2. CASE List
    BY <2>2 DEF List, ShowMainChat, ReadContacts, ReadSummaries, WatchMessages,
                WatchContacts, WakeList, chats
  <2>3. ASSUME NEW w \in ChatVMs, w # v,
               Chat(w) \/ \E p \in Peers : ShowDirectChat(w, p)
        PROVE  /\ cpc'[v] = cpc[v] /\ peerOf'[v] = peerOf[v]
               /\ messages'[v] = messages[v] /\ chatFailed'[v] = chatFailed[v]
    BY <2>3 DEF Chat, LoadMessages, Loaded, WatchChat, WakeChat, ShowDirectChat,
                TypeInv, TypeOK
  <2> QED
    BY <2>1, <2>2, <2>3 DEF Next, vars, chats
<1> QED
  BY <1>1, <1>2, <1>3, <1>4, <1>5, <1>6 DEF Chat

LEMMA ViewsHold == Spec => [](TypeInv /\ ListInv /\ ChatInv)
<1>1. Init => TypeInv /\ ListInv /\ ChatInv
  BY InitTypes, InitViews
<1>2. TypeInv /\ ListInv /\ ChatInv /\ [Next]_vars
        => (TypeInv /\ ListInv /\ ChatInv)'
  BY StepTypes, StepList, StepChats
<1> QED
  BY <1>1, <1>2, PTL DEF Spec

(* A chat list that waits with no event pending shows the tables as they are,
   unless its last refresh failed or was cut short, or it missed an event
   before it subscribed. *)
THEOREM ListStaysCurrent == Spec => []ListIsCurrent
<1>1. ASSUME ListInv PROVE ListIsCurrent
  <2>1. SUFFICES ASSUME ListQuiet, ~listFailed, ListChannels \cap unheard = {}
                 PROVE  shown = [contacts |-> contacts, rows |-> db]
    BY DEF ListIsCurrent
  <2>2. ASSUME NEW c \in ListChannels PROVE ~Pending(c)
    <3>1. ~(queued[c] > 0)
      BY <2>1 DEF ListQuiet
    <3> QED
      BY <2>1, <3>1 DEF ListQuiet, Announcing, Pending
  <2> QED
    BY <1>1, <2>1, <2>2 DEF ListInv, ListQuiet, ListChannels
<1> QED
  BY <1>1, ViewsHold, PTL

(* The same of every open chat. *)
THEOREM ChatsStayCurrent == Spec => []ChatIsCurrent
<1>1. ASSUME ChatInv PROVE ChatIsCurrent
  <2>1. SUFFICES ASSUME NEW v \in ChatVMs, ChatQuiet(v), ~chatFailed[v],
                        v \notin unheard
                 PROVE  messages[v] = GetMessagesByChat(db, peerOf[v], PageSize)
    BY DEF ChatIsCurrent
  <2>2. ~Pending(v)
    <3>1. ~(queued[v] > 0)
      BY <2>1 DEF ChatQuiet
    <3> QED
      BY <2>1, <3>1 DEF ChatQuiet, Announcing, Pending
  <2> QED
    BY <1>1, <2>1, <2>2 DEF ChatInv, ChatQuiet
<1> QED
  BY <1>1, ViewsHold, PTL

-----------------------------------------------------------------------------

(* Row r is in the table, whatever its rowid. *)
Saved(r) == \E x \in db : x.id = r.id /\ x.content = r.content /\ x.chat = r.chat

(* With a clock that never shows the same twice no two rows, saved or about
   to be, have the same id. *)
IdInv ==
  /\ \A x \in db : x.id.t < clock
  /\ \A j \in Jobs : jpc[j] = "save" =>
       /\ job[j].id.t < clock
       /\ \A x \in db : x.id # job[j].id
       /\ \A k \in Jobs \ {j} : jpc[k] = "save" => job[k].id # job[j].id
  /\ \A j \in Jobs : jpc[j] = "announce" => Saved(job[j])
  /\ \A r \in announced : Saved(r)

(* A row whose id is new is added. *)
LEMMA NewIdIsSaved ==
  ASSUME NEW r \in Rows, \A x \in db : x.id # r.id
  PROVE  SaveRow(db, r) = db \cup {[r EXCEPT !.n = Cardinality(db) + 1]}
  BY DEF SaveRow, InsertOrIgnore, Conflict, Rows

(* Whoever names a row reads the clock for it. *)
LEMMA NamedRows ==
  ASSUME FineClock, TypeInv, IdInv, NEW j \in Jobs,
         job' = [job EXCEPT ![j] = job'[j]], jpc' = [jpc EXCEPT ![j] = "save"],
         job'[j].id.t = clock, ReadClock, UNCHANGED <<db, announced>>,
         jpc[j] \in {"idle", "send"}
  PROVE  IdInv'
<1>1. clock \in Nat /\ clock' = clock + 1
  BY ChatsAssumption DEF ReadClock, TypeInv, TypeOK
<1>2. \A x \in db : x \in Rows /\ x.id.t \in Nat
  BY DEF TypeInv, TypeOK, Rows
<1>3. \A k \in Jobs \ {j} : jpc'[k] = jpc[k] /\ job'[k] = job[k]
  BY DEF TypeInv, TypeOK
<1>4. jpc'[j] = "save"
  BY DEF TypeInv, TypeOK
<1>5. \A k \in Jobs : jpc[k] = "save" => job[k] \in Rows /\ job[k].id.t \in Nat
  BY DEF TypeInv, TypeOK, Rows
<1>6. \A x \in db : x.id.t < clock
  BY DEF IdInv
<1>7. \A k \in Jobs : jpc[k] = "save" => job[k].id.t < clock
  BY DEF IdInv
<1>8. \A x \in db : x.id # job'[j].id
  BY <1>1, <1>2, <1>6
<1>9. \A k \in Jobs \ {j} : jpc[k] = "save" => job[k].id # job'[j].id
  BY <1>1, <1>5, <1>7
<1>10. (\A x \in db : x.id.t < clock)'
  BY <1>1, <1>2, <1>6
<1>11. ASSUME NEW k \in Jobs, jpc'[k] = "save"
       PROVE  /\ job'[k].id.t < clock'
              /\ \A x \in db' : x.id # job'[k].id
              /\ \A i \in Jobs \ {k} : jpc'[i] = "save" => job'[i].id # job'[k].id
  <2>1. CASE k = j
    BY <1>1, <1>3, <1>8, <1>9, <2>1
  <2>2. CASE k # j
    <3>1. jpc[k] = "save" /\ job'[k] = job[k]
      BY <1>3, <1>11, <2>2
    <3>2. job'[k].id.t < clock'
      BY <1>1, <1>5, <1>7, <3>1
    <3>3. \A x \in db' : x.id # job'[k].id
      BY <3>1 DEF IdInv
    <3>4. ASSUME NEW i \in Jobs \ {k}, jpc'[i] = "save"
          PROVE  job'[i].id # job'[k].id
      BY <1>3, <1>9, <2>2, <3>1, <3>4 DEF IdInv
    <3> QED
      BY <3>2, <3>3, <3>4
  <2> QED
    BY <2>1, <2>2
<1>12. \A k \in Jobs : jpc'[k] = "announce" => Saved(job[k])' /\ job'[k] = job[k]
  BY <1>3, <1>4 DEF IdInv, Saved
<1>13. (\A r \in announced : Saved(r))'
  BY DEF IdInv, Saved
<1> QED
  BY <1>10, <1>11, <1>12, <1>13 DEF IdInv, Saved

LEMMA StepIds == ASSUME FineClock PROVE TypeInv /\ IdInv /\ [Next]_vars => IdInv'
<1> SUFFICES ASSUME TypeInv, IdInv, [Next]_vars PROVE IdInv'
  OBVIOUS
<1>1. ASSUME NEW j \in Jobs, SendMessage(j) PROVE IdInv'
  <2>1. /\ jpc[j] = "send" /\ jpc' = [jpc EXCEPT ![j] = "save"] /\ ReadClock
        /\ UNCHANGED <<db, announced>>
        /\ \E r : r.id.t = clock /\ job' = [job EXCEPT ![j] = r]
    <3>1. \A text : [id |-> [kind |-> "msg", t |-> clock], chat |-> job[j].to,
                    own |-> TRUE, content |-> EncryptFor(text),
                    at |-> Second(clock), seq |-> 0, n |-> 0].id.t = clock
      OBVIOUS
    <3> QED
      BY <1>1, <3>1 DEF SendMessage, JobGoes, tables
  <2>2. job' = [job EXCEPT ![j] = job'[j]] /\ job'[j].id.t = clock
    BY <2>1 DEF TypeInv, TypeOK
  <2> QED
    BY <2>1, <2>2, NamedRows
<1>2. ASSUME NEW j \in Jobs, NEW p \in Peers, NEW b \in Payloads,
             ProcessIncoming(j, p, b), Encrypted(b)
      PROVE  IdInv'
  <2>1. /\ jpc[j] = "idle" /\ jpc' = [jpc EXCEPT ![j] = "save"] /\ ReadClock
        /\ UNCHANGED <<db, announced>>
        /\ \E r : r.id.t = clock /\ job' = [job EXCEPT ![j] = r]
    <3>1. [id |-> [kind |-> "in", t |-> clock], chat |-> p, own |-> FALSE,
           content |-> Decrypt(b), at |-> Second(clock), seq |-> 0,
           n |-> 0].id.t = clock
      OBVIOUS
    <3> QED
      BY <1>2, <3>1 DEF ProcessIncoming, JobGoes, tables
  <2>2. job' = [job EXCEPT ![j] = job'[j]] /\ job'[j].id.t = clock
    BY <2>1 DEF TypeInv, TypeOK
  <2> QED
    BY <2>1, <2>2, NamedRows
<1>3. ASSUME UNCHANGED <<db, announced>>, clock' \in {clock, clock + 1},
             \A j \in Jobs : jpc'[j] \in {"save", "announce"} =>
                             jpc'[j] = jpc[j] /\ job'[j] = job[j]
      PROVE  IdInv'
  <2>1. clock \in Nat /\ \A x \in db : x.id.t \in Nat
    BY DEF TypeInv, TypeOK, Rows
  <2>2. \A j \in Jobs : jpc[j] = "save" => job[j].id.t \in Nat
    BY DEF TypeInv, TypeOK, Rows
  <2> QED
    BY <1>3, <2>1, <2>2 DEF IdInv, Saved
<1>4. ASSUME NEW j \in Jobs, Save(j) PROVE IdInv'
  <2> DEFINE s == [job[j] EXCEPT !.n = Cardinality(db) + 1]
  <2>1. job[j] \in Rows /\ jpc[j] = "save"
    BY <1>4 DEF Save, TypeInv, TypeOK
  <2>2. CASE UNCHANGED db /\ jpc' = [jpc EXCEPT ![j] = "done"]
    BY <1>3, <1>4, <2>2 DEF Save, TypeInv, TypeOK
  <2>3. CASE db' = SaveRow(db, job[j]) /\ jpc' = [jpc EXCEPT ![j] = "announce"]
    <3>1. db' = db \cup {s}
      BY <2>1, <2>3, NewIdIsSaved DEF IdInv
    <3>2. s.id = job[j].id /\ s.content = job[j].content /\ s.chat = job[j].chat
      BY <2>1 DEF Rows
    <3>3. UNCHANGED <<clock, job, announced>>
      BY <1>4 DEF Save
    <3>4. jpc'[j] = "announce" /\ \A k \in Jobs \ {j} : jpc'[k] = jpc[k]
      BY <2>3 DEF TypeInv, TypeOK
    <3>5. \A r : Saved(r) => Saved(r)'
      BY <3>1 DEF Saved
    <3>6. Saved(job[j])'
      BY <3>1, <3>2, <3>3 DEF Saved
    <3>7. (\A x \in db : x.id.t < clock)'
      BY <2>1, <3>1, <3>2, <3>3 DEF IdInv
    <3>8. ASSUME NEW k \in Jobs, jpc'[k] = "save"
          PROVE  /\ job'[k].id.t < clock'
                 /\ \A x \in db' : x.id # job'[k].id
                 /\ \A i \in Jobs \ {k} : jpc'[i] = "save" => job'[i].id # job'[k].id
      <4>1. k # j /\ jpc[k] = "save"
        BY <3>4, <3>8
      <4>2. /\ job[k].id.t < clock
            /\ \A x \in db : x.id # job[k].id
            /\ \A i \in Jobs \ {k} : jpc[i] = "save" => job[i].id # job[k].id
        BY <4>1 DEF IdInv
      <4>3. s.id # job[k].id
        BY <2>1, <3>2, <4>1, <4>2
      <4>4. \A i \in Jobs : jpc'[i] = "save" => jpc[i] = "save"
        BY <3>4
      <4> QED
        BY <3>1, <3>3, <4>2, <4>3, <4>4
    <3>9. \A k \in Jobs : jpc'[k] = "announce" => Saved(job[k])'
      BY <3>3, <3>4, <3>5, <3>6 DEF IdInv
    <3>10. (\A r \in announced : Saved(r))'
      BY <3>3, <3>5 DEF IdInv
    <3> QED
      BY <3>7, <3>8, <3>9, <3>10 DEF IdInv
  <2> QED
    BY <1>4, <2>2, <2>3 DEF Save, JobGoes
<1>5. ASSUME NEW j \in Jobs, Announce(j) PROVE IdInv'
  <2>1. /\ UNCHANGED <<db, clock, job>> /\ jpc[j] = "announce"
        /\ jpc' = [jpc EXCEPT ![j] = "done"]
        /\ announced' = announced \cup {job[j]}
    BY <1>5 DEF Announce, JobGoes, tables
  <2>2. \A r : Saved(r) => Saved(r)'
    BY <2>1 DEF Saved
  <2>3. \A k \in Jobs : jpc'[k] \in {"save", "announce"} => jpc'[k] = jpc[k]
    BY <2>1 DEF TypeInv, TypeOK
  <2>4. (\A r \in announced : Saved(r))'
    BY <2>1, <2>2 DEF IdInv
  <2>5. (\A k \in Jobs : jpc[k] = "announce" => Saved(job[k]))'
    BY <2>1, <2>2, <2>3 DEF IdInv
  <2> QED
    BY <2>1, <2>3, <2>4, <2>5 DEF IdInv
<1>6. ASSUME NEW j \in Jobs,
             \/ \E v \in ChatVMs, text \in Texts : OnSend(j, v, text)
             \/ AnnounceContact(j)
             \/ \E p \in Peers : AddContact(j, p)
             \/ \E p \in Peers, b \in Payloads :
                  ProcessIncoming(j, p, b) /\ ~Encrypted(b)
      PROVE  IdInv'
  <2>1. CASE \E v \in ChatVMs, text \in Texts : OnSend(j, v, text)
    BY <1>3, <2>1 DEF OnSend, JobGoes, tables, TypeInv, TypeOK
  <2>2. CASE AnnounceContact(j)
    BY <1>3, <2>2 DEF AnnounceContact, JobGoes, tables, TypeInv, TypeOK
  <2>3. CASE \E p \in Peers : AddContact(j, p)
    BY <1>3, <2>3 DEF AddContact, ReadClock, JobGoes, TypeInv, TypeOK
  <2>4. CASE \E p \in Peers, b \in Payloads :
               ProcessIncoming(j, p, b) /\ ~Encrypted(b)
    BY <1>3, <2>4 DEF ProcessIncoming, JobGoes, tables, TypeInv, TypeOK
  <2> QED
    BY <1>6, <2>1, <2>2, <2>3, <2>4
<1>7. CASE Restart
  BY <1>3, <1>7 DEF Restart, TypeInv, TypeOK, tables
<1>8. CASE List \/ UNCHANGED vars
  BY <1>3, <1>8 DEF List, ShowMainChat, ReadContacts, ReadSummaries,
     WatchMessages, WatchContacts, WakeList, tables, writers, vars
<1>9. ASSUME NEW v \in ChatVMs, Chat(v) \/ \E p \in Peers : ShowDirectChat(v, p)
      PROVE  IdInv'
  BY <1>3, <1>9 DEF Chat, LoadMessages, WatchChat, WakeChat, ShowDirectChat,
     tables, writers
<1> QED
  BY <1>1, <1>2, <1>4, <1>5, <1>6, <1>7, <1>8, <1>9 DEF Next, Write

(* An event about a message is of a message that is in the table, on a clock
   that is fine enough to tell any two messages apart. *)
THEOREM EventsAreOfSavedRows == ASSUME FineClock PROVE Spec => []EventsAreSaved
<1>1. Init => IdInv
  BY DEF Init, IdInv
<1>2. TypeInv /\ IdInv /\ [Next]_vars => IdInv'
  BY StepIds
<1>3. IdInv => EventsAreSaved
  BY DEF IdInv, EventsAreSaved, Saved
<1> QED
  BY <1>1, <1>2, <1>3, ViewsHold, PTL DEF Spec

-----------------------------------------------------------------------------
(* What a chat shows of its table. *)

(* The rows have the rowids 1, 2, ..., whatever goroutine saved them. *)
RowIds == /\ \A x \in db : x.n \in 1..Cardinality(db)
          /\ \A x, y \in db : x.n = y.n => x = y

LEMMA SaveRowIds ==
  ASSUME TypeInv, RowIds, NEW r \in Rows, db' = SaveRow(db, r)
  PROVE  RowIds'
<1> DEFINE s == [r EXCEPT !.n = Cardinality(db) + 1]
<1>1. IsFiniteSet(db) /\ Cardinality(db) \in Nat
  BY FS_CardinalityType DEF TypeInv
<1>2. CASE db' = db
  BY <1>2 DEF RowIds
<1>3. CASE db' = db \cup {s}
  <2>1. s.n = Cardinality(db) + 1
    BY DEF Rows
  <2> HIDE DEF s
  <2>2. s \notin db /\ \A x \in db : x.n # s.n /\ x.n \in 1..Cardinality(db)
    <3>1. \A x \in db : x.n \in 1..Cardinality(db)
      BY DEF RowIds
    <3>2. \A x \in db : x.n # s.n
      BY <1>1, <2>1, <3>1
    <3> QED
      BY <3>1, <3>2
  <2>3. Cardinality(db') = Cardinality(db) + 1
    BY <1>1, <1>3, <2>2, FS_AddElement
  <2>4. \A x \in db' : x.n \in 1..Cardinality(db')
    <3> DEFINE N == Cardinality(db)
    <3>1. N \in Nat /\ Cardinality(db') = N + 1
      BY <1>1, <2>3
    <3>2. (\A x \in db : x.n \in 1..N) /\ s.n = N + 1
      BY <2>1, <2>2
    <3> HIDE DEF N
    <3>3. \A x \in db' : x.n \in 1..(N + 1)
      BY <1>3, <3>1, <3>2
    <3> QED
      BY <3>1, <3>3
  <2>5. \A x, y \in db' : x.n = y.n => x = y
    BY <1>3, <2>2 DEF RowIds
  <2> QED
    BY <2>4, <2>5 DEF RowIds
<1> QED
  BY <1>2, <1>3 DEF SaveRow, InsertOrIgnore

LEMMA StepRowIds == TypeInv /\ RowIds /\ [Next]_vars => RowIds'
<1> SUFFICES ASSUME TypeInv, RowIds, [Next]_vars PROVE RowIds'
  OBVIOUS
<1>1. CASE UNCHANGED db
  BY <1>1 DEF RowIds
<1>2. ASSUME NEW j \in Jobs, Save(j) PROVE RowIds'
  <2>1. job[j] \in Rows
    BY <1>2 DEF Save, TypeInv, TypeOK
  <2> QED
    BY <1>1, <1>2, <2>1, SaveRowIds DEF Save
<1>3. ASSUME NEW j \in Jobs,
             \/ \E v \in ChatVMs, text \in Texts : OnSend(j, v, text)
             \/ \E p \in Peers, b \in Payloads : ProcessIncoming(j, p, b)
             \/ \E p \in Peers : AddContact(j, p)
             \/ SendMessage(j) \/ Announce(j) \/ AnnounceContact(j)
      PROVE  UNCHANGED db
  BY <1>3 DEF OnSend, ProcessIncoming, AddContact, SendMessage, Announce,
              AnnounceContact, tables
<1>4. CASE List \/ Restart \/ UNCHANGED vars
  BY <1>1, <1>4 DEF List, ShowMainChat, ReadContacts, ReadSummaries,
     WatchMessages, WatchContacts, WakeList, Restart, tables, vars
<1>5. ASSUME NEW v \in ChatVMs, Chat(v) \/ \E p \in Peers : ShowDirectChat(v, p)
      PROVE  UNCHANGED db
  BY <1>5 DEF Chat, LoadMessages, WatchChat, WakeChat, ShowDirectChat, tables
<1> QED
  BY <1>1, <1>2, <1>3, <1>4, <1>5 DEF Next, Write

(* ORDER BY ... LIMIT: what GetMessagesByChat leaves out comes after what it
   returns, and it leaves nothing out of a chat of at most l messages. *)
LEMMA PageOfChat ==
  ASSUME TypeInv, RowIds, NEW p, NEW l \in Nat
  PROVE  LET chat == InChat(db, p)
             page == GetMessagesByChat(db, p, l)
         IN  /\ page \subseteq chat
             /\ Cardinality(chat) <= l => page = chat
             /\ \A r \in page : \A x \in chat \ page : Before(r, x)
<1> DEFINE chat == InChat(db, p)
           page == GetMessagesByChat(db, p, l)
           Earlier(r) == {x \in chat : Before(x, r)}
<1>1. /\ IsFiniteSet(chat) /\ Cardinality(chat) \in Nat
      /\ chat \subseteq db /\ page \subseteq chat
  <2>1. chat \subseteq db /\ page \subseteq chat
    BY DEF InChat, GetMessagesByChat
  <2>2. IsFiniteSet(chat)
    BY <2>1, FS_Subset DEF TypeInv
  <2> QED
    BY <2>1, <2>2, FS_CardinalityType
<1>2. \A x \in chat : x.at \in Nat /\ x.n \in Nat
  BY <1>1 DEF TypeInv, TypeOK, Rows
<1>3. ASSUME NEW r \in chat
      PROVE  /\ IsFiniteSet(Earlier(r)) /\ Cardinality(Earlier(r)) \in Nat
             /\ r \in page <=> Cardinality(Earlier(r)) < l
  <2>1. Earlier(r) \subseteq chat
    OBVIOUS
  <2>2. IsFiniteSet(Earlier(r)) /\ Cardinality(Earlier(r)) \in Nat
    BY <1>1, <2>1, FS_Subset, FS_CardinalityType
  <2>3. r \in page <=> Cardinality(Earlier(r)) < l
    BY DEF GetMessagesByChat
  <2> QED
    BY <2>2, <2>3
<1>4. ASSUME Cardinality(chat) <= l, NEW r \in chat PROVE r \in page
  <2>1. Earlier(r) \subseteq chat \ {r}
    BY <1>2 DEF Before
  <2>2. /\ IsFiniteSet(chat \ {r})
        /\ Cardinality(chat \ {r}) = Cardinality(chat) - 1
    BY <1>1, FS_RemoveElement
  <2>3. Cardinality(Earlier(r)) <= Cardinality(chat \ {r})
    BY <2>1, <2>2, FS_Subset
  <2>4. Cardinality(Earlier(r)) < l
    BY <1>1, <1>3, <1>4, <2>2, <2>3
  <2> QED
    BY <1>3, <2>4
<1>5. ASSUME NEW r \in page, NEW x \in chat \ page PROVE Before(r, x)
  <2>1. r \in chat /\ r # x
    BY <1>1
  <2>2. CASE Before(x, r)
    <3>1. Earlier(x) \subseteq Earlier(r)
      BY <1>2, <2>1, <2>2 DEF Before
    <3>2. Cardinality(Earlier(x)) <= Cardinality(Earlier(r))
      BY <1>3, <2>1, <3>1, FS_Subset
    <3>3. Cardinality(Earlier(r)) < l /\ ~(Cardinality(Earlier(x)) < l)
      BY <1>3, <2>1
    <3> QED
      BY <1>3, <2>1, <3>2, <3>3
  <2>3. x.n # r.n
    BY <1>1, <2>1 DEF RowIds
  <2>4. Before(x, r) \/ Before(r, x)
    BY <1>2, <2>1, <2>3 DEF Before
  <2> QED
    BY <2>2, <2>4
<1> QED
  BY <1>1, <1>4, <1>5

(* An open chat that waits with no event pending shows the beginning of its
   conversation in the order of the table, and all of it when it has no more
   messages than a page: only from there on are the last ones missing. *)
BeginningIsShown ==
  \A v \in ChatVMs :
    ChatQuiet(v) /\ ~chatFailed[v] /\ v \notin unheard =>
      LET chat == InChat(db, peerOf[v]) IN
        /\ messages[v] \subseteq chat
        /\ Cardinality(chat) <= PageSize => messages[v] = chat
        /\ \A r \in messages[v] : \A x \in chat \ messages[v] : Before(r, x)

(* Within a page of 50 messages the chat screen is complete, and beyond it
   it is the oldest 50 that are shown, on any clock. *)
THEOREM ChatsShowTheirBeginning == Spec => []BeginningIsShown
<1>1. Init => RowIds
  BY DEF Init, RowIds
<1>2. TypeInv /\ RowIds /\ [Next]_vars => RowIds'
  BY StepRowIds
<1>3. TypeInv /\ RowIds /\ ChatIsCurrent => BeginningIsShown
  <2> SUFFICES ASSUME TypeInv, RowIds, ChatIsCurrent, NEW v \in ChatVMs,
                      ChatQuiet(v), ~chatFailed[v], v \notin unheard
               PROVE  LET chat == InChat(db, peerOf[v]) IN
                        /\ messages[v] \subseteq chat
                        /\ Cardinality(chat) <= PageSize => messages[v] = chat
                        /\ \A r \in messages[v] :
                             \A x \in chat \ messages[v] : Before(r, x)
    BY DEF BeginningIsShown
  <2>1. messages[v] = GetMessagesByChat(db, peerOf[v], PageSize)
    BY DEF ChatIsCurrent
  <2>2. PageSize \in Nat
    BY ChatsAssumption
  <2> QED
    BY <2>1, <2>2, PageOfChat
<1> QED
  BY <1>1, <1>2, <1>3, ViewsHold, ChatsStayCurrent, PTL DEF Spec
=============================================================================
