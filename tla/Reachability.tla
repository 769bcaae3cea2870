---------------------------- MODULE Reachability ----------------------------
(***************************************************************************)
(* How the node's reachability gets from libp2p's AutoNAT to NodeService   *)
(* and to the chat list: SetupAutoNAT's goroutine takes libp2p's events,   *)
(* translates and publishes them, NodeService.watchReachability keeps the  *)
(* last one it hears, ChatListViewModel.Watch has a channel too.           *)
(*                                                                         *)
(* An event is a record of its kind and of its number n; the numbers are   *)
(* history, they tell an old event from a new one of the same kind.  That  *)
(* its events carry values sets this apart from EventBus.                  *)
(*                                                                         *)
(* Bounds: libp2p changes its mind MaxChanges times; OutCap and Buffer     *)
(* stand for the 16 and the 100 events that its channel and a channel of   *)
(* the bus hold.                                                           *)
(***************************************************************************)
EXTENDS Naturals, Sequences

CONSTANTS MaxChanges, OutCap, Buffer

ASSUME BoundsAssumption ==
  MaxChanges \in Nat /\ OutCap \in Nat \ {0} /\ Buffer \in Nat

VARIABLES
  net,           \* external: the reachability libp2p has come to
  out,           \* external: sub.Out(), the events not yet taken from it
  mpc,           \* what main does next
  apc,           \* where the goroutine of SetupAutoNAT is
  status,        \* the event it is about to publish
  subscribed,    \* the channels of the topic in Bus.subscribers
  chan,          \* chan[c]: the events in channel c
  watching,      \* whether watchReachability has subscribed
  reachability,  \* NodeService.reachability
  NodeStatus,    \* ChatListViewModel.NodeStatus
  missed,        \* history: missed[c]: the last event channel c did not get
  listed         \* history: the last event the list's goroutine took

vars == <<net, out, mpc, apc, status, subscribed, chan, watching,
          reachability, NodeStatus, missed, listed>>

Channels == {"watcher", "list"}

Kinds == {"Unknown", "Public", "Private"}

Before == [kind |-> "Unknown", n |-> 0]

Init ==
  /\ net = Before /\ out = <<>>
  /\ mpc = "SetupAutoNAT" /\ apc = "off" /\ status = Before
  /\ subscribed = {} /\ chan = [c \in Channels |-> <<>>]
  /\ watching = FALSE
  /\ reachability = Before /\ NodeStatus = "Offline"
  /\ missed = [c \in Channels |-> 0] /\ listed = Before

-----------------------------------------------------------------------------
(***************************************************************************)
(* libp2p: AutoNAT emits each change, waiting for room in the channel of   *)
(* the subscriber; one that subscribes later is sent the last one.         *)
(***************************************************************************)

Change(kind) ==
  /\ net.n < MaxChanges /\ kind # net.kind
  /\ apc \in {"receive", "publish"} => Len(out) < OutCap
  /\ net' = [kind |-> kind, n |-> net.n + 1]
  /\ out' = IF apc \in {"receive", "publish"} THEN Append(out, net') ELSE out
  /\ UNCHANGED <<mpc, apc, status, subscribed, chan, watching, reachability,
                 NodeStatus, missed, listed>>

-----------------------------------------------------------------------------
(***************************************************************************)
(* SetupAutoNAT.                                                           *)
(***************************************************************************)

SetupAutoNAT ==
  /\ mpc = "SetupAutoNAT"
  /\ mpc' = "NewNodeService"
  /\ \/ /\ apc' = "receive"
        /\ out' = IF net.n > 0 THEN <<net>> ELSE <<>>
     \/ apc' = "failed" /\ UNCHANGED out
  /\ UNCHANGED <<net, status, subscribed, chan, watching, reachability,
                 NodeStatus, missed, listed>>

StatusOf(kind) ==
  CASE kind = "Public" -> "Public"
    [] kind = "Private" -> "Private"
    [] OTHER -> "Unknown"

Receive ==
  /\ apc = "receive" /\ out # <<>>
  /\ status' = [Head(out) EXCEPT !.kind = StatusOf(@)]
  /\ out' = Tail(out)
  /\ apc' = "publish"
  /\ UNCHANGED <<net, mpc, subscribed, chan, watching, reachability,
                 NodeStatus, missed, listed>>

HasRoom(c) == c \in subscribed /\ Len(chan[c]) < Buffer

(* Slip: the sends have no default case, they wait for room. *)
PublishWaiting ==
  /\ apc = "publish" /\ apc' = "receive"
  /\ \A c \in subscribed : HasRoom(c)
  /\ chan' = [c \in Channels |->
                IF HasRoom(c) THEN Append(chan[c], status) ELSE chan[c]]
  /\ missed' = [c \in Channels |-> IF HasRoom(c) THEN missed[c] ELSE status.n]
  /\ UNCHANGED <<net, out, mpc, status, subscribed, watching, reachability,
                 NodeStatus, listed>>

(* Bus.Publish, under the read lock that a Subscribe waits for. *)
Publish ==
  /\ apc = "publish" /\ apc' = "receive"
  /\ chan' = [c \in Channels |->
                IF HasRoom(c) THEN Append(chan[c], status) ELSE chan[c]]
  /\ missed' = [c \in Channels |-> IF HasRoom(c) THEN missed[c] ELSE status.n]
  /\ UNCHANGED <<net, out, mpc, status, subscribed, watching, reachability,
                 NodeStatus, listed>>

-----------------------------------------------------------------------------
(***************************************************************************)
(* NodeService.                                                            *)
(***************************************************************************)

(* Its goroutine is started, not waited for. *)
NewNodeService ==
  /\ mpc = "NewNodeService"
  /\ mpc' = "Watch"
  /\ UNCHANGED <<net, out, apc, status, subscribed, chan, watching,
                 reachability, NodeStatus, missed, listed>>

SubscribeWatcher ==
  /\ mpc \in {"Watch", "running"} /\ ~watching
  /\ watching' = TRUE
  /\ subscribed' = subscribed \cup {"watcher"}
  /\ UNCHANGED <<net, out, mpc, apc, status, chan, reachability, NodeStatus,
                 missed, listed>>

(* Slip: only a status that is known is kept. *)
WatchKnown ==
  /\ watching /\ chan["watcher"] # <<>>
  /\ chan' = [chan EXCEPT !["watcher"] = Tail(@)]
  /\ reachability' = IF Head(chan["watcher"]).kind = "Unknown"
                       THEN reachability ELSE Head(chan["watcher"])
  /\ UNCHANGED <<net, out, mpc, apc, status, subscribed, watching, NodeStatus,
                 missed, listed>>

WatchReachability ==
  /\ watching /\ chan["watcher"] # <<>>
  /\ reachability' = Head(chan["watcher"])
  /\ chan' = [chan EXCEPT !["watcher"] = Tail(@)]
  /\ UNCHANGED <<net, out, mpc, apc, status, subscribed, watching, NodeStatus,
                 missed, listed>>

(* What GetStatus reports. *)
Reported == reachability.kind

-----------------------------------------------------------------------------
(***************************************************************************)
(* ChatListViewModel.                                                      *)
(***************************************************************************)

(* Watch subscribes at once and starts its goroutine. *)
Watch ==
  /\ mpc = "Watch"
  /\ mpc' = "running"
  /\ subscribed' = subscribed \cup {"list"}
  /\ UNCHANGED <<net, out, apc, status, chan, watching, reachability,
                 NodeStatus, missed, listed>>

(* The goroutine looks for a string, but the events are ReachabilityStatus
   values: NodeStatus is never set. *)
WakeList ==
  /\ mpc = "running" /\ chan["list"] # <<>>
  /\ listed' = Head(chan["list"])
  /\ chan' = [chan EXCEPT !["list"] = Tail(@)]
  /\ UNCHANGED <<net, out, mpc, apc, status, subscribed, watching,
                 reachability, NodeStatus, missed>>

-----------------------------------------------------------------------------
AutoNAT == Receive \/ Publish
Main == SetupAutoNAT \/ NewNodeService \/ Watch
Watcher == SubscribeWatcher \/ WatchReachability

Next ==
  \/ \E kind \in Kinds : Change(kind)
  \/ Main \/ AutoNAT \/ Watcher \/ WakeList

Spec == Init /\ [][Next]_vars

(* Go runs the goroutines of SetupAutoNAT and of the service when they can
   run.  Nothing is assumed of the list's goroutine, which may be in a refresh
   that does not end, nor of main's, which waits for the user before Watch. *)
FairSpec ==
  /\ Spec
  /\ WF_vars(SetupAutoNAT \/ NewNodeService) /\ WF_vars(AutoNAT)
  /\ WF_vars(Watcher)

-----------------------------------------------------------------------------
(***************************************************************************)
(* Properties.                                                             *)
(***************************************************************************)

Events == [kind : Kinds, n : 0..MaxChanges]

(* The type invariant: every variable holds a value the code could hold. *)
TypeOK ==
  /\ net \in Events /\ status \in Events /\ reachability \in Events
  /\ listed \in Events
  /\ out \in Seq(Events) /\ Len(out) <= OutCap
  /\ mpc \in {"SetupAutoNAT", "NewNodeService", "Watch", "running"}
  /\ apc \in {"off", "receive", "publish", "failed"}
  /\ subscribed \subseteq Channels /\ watching \in BOOLEAN
  /\ chan \in [Channels -> Seq(Events)]
  /\ \A c \in Channels : Len(chan[c]) <= Buffer
  /\ NodeStatus \in {"Offline", "Online", "Relay"}
  /\ missed \in [Channels -> 0..MaxChanges]

Idle == apc = "receive" /\ out = <<>> /\ watching /\ chan["watcher"] = <<>>

(* When every event has been dealt with, NodeService reports what libp2p has
   come to, unless it was that last event that missed its channel, before the
   subscription or because of a full channel: what it missed before does not
   matter. *)
StatusIsCurrent ==
  Idle /\ missed["watcher"] < net.n => reachability = net

(* The status comes to be current, whatever the list does meanwhile: a slow
   subscriber does not slow down the system (event.go:56). *)
EventuallyCurrent ==
  <>[](\/ reachability = net
       \/ missed["watcher"] = net.n \/ apc = "failed")

(* Not so in the code (see README.md).  The chat list shows the status that
   its goroutine was told last: "Offline" is no longer there once the node is
   known to be public. *)
StatusIsShown ==
  mpc = "running" /\ chan["list"] = <<>> /\ listed.kind = "Public"
    => NodeStatus # "Offline"

(* Not so in the code (see README.md).  The service hears every status. *)
NothingMissed == missed["watcher"] = 0
=============================================================================
