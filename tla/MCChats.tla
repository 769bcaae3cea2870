------------------------------- MODULE MCChats ------------------------------
(***************************************************************************)
(* Instances of Chats for TLC.                                             *)
(***************************************************************************)
EXTENDS Chats, TLC

CONSTANTS p1, p2, j1, j2, j3, v1, v2, b1, b2

OneChat == ListChannels \cup {v1}
OneChatTopics == [c \in OneChat |-> IF c = "listContacts" THEN "new contact"
                                                          ELSE "new message"]
TwoChats == OneChat \cup {v2}
TwoChatsTopics == [c \in TwoChats |-> IF c = "listContacts" THEN "new contact"
                                                            ELSE "new message"]
=============================================================================
