------------------------------ MODULE EventBus ------------------------------
(***************************************************************************)
(* The event bus (internal/event): for every topic the buffered channels   *)
(* that were subscribed to it.  What its readers do with an event does not *)
(* depend on the event's payload, so a channel is the number of its        *)
(* events.                                                                 *)
(*                                                                         *)
(* Bound: Buffer stands for the 100 events a channel holds.                *)
(***************************************************************************)
EXTENDS Naturals

CONSTANTS
  Channels,  \* the channels that may come to be subscribed
  TopicOf,   \* TopicOf[c]: the topic that channel c is subscribed to
  Buffer

ASSUME BufferAssumption == Buffer \in Nat \ {0}

VARIABLES
  subscribed,  \* the channels in Bus.subscribers
  queued,      \* queued[c]: the events in channel c
  unheard      \* history: channels that were not yet there for an event

busVars == <<subscribed, queued, unheard>>

BusType ==
  /\ subscribed \in SUBSET Channels
  /\ queued \in [Channels -> 0..Buffer]
  /\ unheard \in SUBSET Channels

BusInit ==
  /\ subscribed = {}
  /\ queued = [c \in Channels |-> 0]
  /\ unheard = {}

On(topic) == {c \in Channels : TopicOf[c] = topic}

Subscribe(c) ==
  /\ subscribed' = subscribed \cup {c}
  /\ UNCHANGED <<queued, unheard>>

(* Slip: the event is sent whether the channel has room or not. *)
PublishUnbounded(topic) ==
  /\ queued' = [c \in Channels |->
                  IF c \in On(topic) \cap subscribed
                    THEN queued[c] + 1 ELSE queued[c]]
  /\ unheard' = unheard \cup (On(topic) \ subscribed)
  /\ UNCHANGED subscribed

(* The event goes into every channel of the topic that has room, and is
   dropped for the others. *)
Publish(topic) ==
  /\ queued' = [c \in Channels |->
                  IF c \in On(topic) \cap subscribed /\ queued[c] < Buffer
                    THEN queued[c] + 1 ELSE queued[c]]
  /\ unheard' = unheard \cup (On(topic) \ subscribed)
  /\ UNCHANGED subscribed

Receive(c) ==
  /\ queued[c] > 0
  /\ queued' = [queued EXCEPT ![c] = @ - 1]
  /\ UNCHANGED <<subscribed, unheard>>
=============================================================================
