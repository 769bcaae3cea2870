------------------------- MODULE ReachabilityProofs -------------------------
(***************************************************************************)
(* What TLAPS proves of Reachability, for any number of changes and any    *)
(* channels.                                                               *)
(***************************************************************************)
EXTENDS Reachability, SequenceTheorems, TLAPS

Last(s) == s[Len(s)]

Attached == apc \in {"receive", "publish"}

(* Where the last change is, on its way to the service. *)
LastOnItsWay ==
  /\ mpc = "SetupAutoNAT" <=> apc = "off"
  /\ apc = "off" => missed["watcher"] = 0
  /\ Attached /\ out # <<>> => Last(out) = net
  /\ apc = "publish" /\ out = <<>> => status = net
  /\ apc = "receive" /\ out = <<>> =>
       \/ missed["watcher"] = net.n
       \/ chan["watcher"] = <<>> /\ reachability = net
       \/ chan["watcher"] # <<>> /\ Last(chan["watcher"]) = net

ReachInv == TypeOK /\ LastOnItsWay

-----------------------------------------------------------------------------

LEMMA AppendFacts ==
  ASSUME NEW S, NEW s \in Seq(S), NEW e \in S
  PROVE  /\ Append(s, e) \in Seq(S) /\ Append(s, e) # <<>>
         /\ Len(Append(s, e)) = Len(s) + 1 /\ Last(Append(s, e)) = e
         /\ Len(s) \in Nat
  BY DEF Last

LEMMA TailFacts ==
  ASSUME NEW S, NEW s \in Seq(S), s # <<>>
  PROVE  /\ Tail(s) \in Seq(S) /\ Len(Tail(s)) = Len(s) - 1 /\ Head(s) \in S
         /\ Len(s) \in Nat
         /\ Tail(s) = <<>> => Head(s) = Last(s)
         /\ Tail(s) # <<>> => Last(Tail(s)) = Last(s)
<1>1. /\ Head(s) \in S /\ Tail(s) \in Seq(S) /\ Len(Tail(s)) = Len(s) - 1
      /\ \A i \in 1..Len(Tail(s)) : Tail(s)[i] = s[i + 1]
  BY HeadTailProperties
<1>2. Len(s) \in Nat \ {0}
  BY EmptySeq
<1>3. Tail(s) = <<>> => Head(s) = Last(s)
  <2> SUFFICES ASSUME Tail(s) = <<>> PROVE Head(s) = Last(s)
    OBVIOUS
  <2>1. Len(s) = 1
    BY <1>1, <1>2
  <2> QED
    BY <2>1 DEF Last
<1>4. Tail(s) # <<>> => Last(Tail(s)) = Last(s)
  <2> SUFFICES ASSUME Tail(s) # <<>> PROVE Last(Tail(s)) = Last(s)
    OBVIOUS
  <2>1. Len(Tail(s)) \in 1..Len(Tail(s))
    BY <1>1, <1>2, EmptySeq
  <2> QED
    BY <1>1, <1>2, <2>1 DEF Last
<1> QED
  BY <1>1, <1>2, <1>3, <1>4

(* The switch of SetupAutoNAT keeps the kind. *)
LEMMA StatusKept ==
  ASSUME NEW e \in Events
  PROVE  [e EXCEPT !.kind = StatusOf(@)] = e
  BY DEF Events, StatusOf, Kinds

LEMMA InitInv == Init => ReachInv
<1> SUFFICES ASSUME Init PROVE ReachInv
  OBVIOUS
<1> USE BoundsAssumption DEF Init
<1>1. net \in Events /\ status \in Events /\ reachability \in Events
      /\ listed \in Events
  BY DEF Before, Events, Kinds
<1>2. out \in Seq(Events) /\ Len(out) <= OutCap
  OBVIOUS
<1>3. /\ chan \in [Channels -> Seq(Events)]
      /\ \A c \in Channels : Len(chan[c]) <= Buffer
  OBVIOUS
<1>4. missed \in [Channels -> 0..MaxChanges]
  OBVIOUS
<1>5. TypeOK
  BY <1>1, <1>2, <1>3, <1>4 DEF TypeOK
<1>6. LastOnItsWay
  BY DEF LastOnItsWay, Attached, Channels
<1> QED
  BY <1>5, <1>6 DEF ReachInv

LEMMA StepInv == ReachInv /\ [Next]_vars => ReachInv'
<1> SUFFICES ASSUME ReachInv, [Next]_vars PROVE ReachInv'
  OBVIOUS
<1> USE BoundsAssumption DEF ReachInv, Channels
<1>1. ASSUME NEW kind \in Kinds, Change(kind) PROVE ReachInv'
  <2>1. net' \in Events
    BY <1>1 DEF Change, TypeOK, Events
  <2>2. CASE Attached
    <3>1. out' = Append(out, net') /\ Len(out) < OutCap /\ Attached'
      BY <1>1, <2>2 DEF Change, Attached
    <3>2. out' \in Seq(Events) /\ Len(out') <= OutCap /\ out' # <<>>
          /\ Last(out') = net'
      BY <2>1, <3>1, AppendFacts DEF TypeOK
    <3>3. TypeOK'
      BY <1>1, <2>1, <3>2 DEF Change, TypeOK
    <3> QED
      BY <1>1, <2>2, <3>2, <3>3 DEF Change, LastOnItsWay, Attached
  <2>3. CASE ~Attached
    <3>1. out' = out
      BY <1>1, <2>3 DEF Change, Attached
    <3>2. TypeOK'
      BY <1>1, <2>1, <3>1 DEF Change, TypeOK
    <3> QED
      BY <1>1, <2>3, <3>1, <3>2 DEF Change, LastOnItsWay, Attached
  <2> QED
    BY <2>2, <2>3
<1>2. ASSUME SetupAutoNAT PROVE ReachInv'
  <2>1. out' \in Seq(Events) /\ Len(out') <= OutCap
    <3>1. <<net>> \in Seq(Events) /\ Len(<<net>>) <= OutCap
      BY DEF TypeOK
    <3>2. <<>> \in Seq(Events) /\ Len(<<>>) <= OutCap
      OBVIOUS
    <3>3. out \in Seq(Events) /\ Len(out) <= OutCap
      BY DEF TypeOK
    <3>4. out' = <<net>> \/ out' = <<>> \/ out' = out
      BY <1>2 DEF SetupAutoNAT
    <3> QED
      BY <3>1, <3>2, <3>3, <3>4, Zenon
  <2>2. TypeOK'
    BY <1>2, <2>1 DEF SetupAutoNAT, TypeOK
  <2>3. apc' = "receive" /\ out' # <<>> => Last(out') = net
    BY <1>2 DEF SetupAutoNAT, Last
  <2>4. apc' = "receive" /\ out' = <<>> => net.n = 0
    BY <1>2 DEF SetupAutoNAT, TypeOK, Events
  <2> QED
    BY <1>2, <2>2, <2>3, <2>4 DEF SetupAutoNAT, LastOnItsWay, Attached
<1>3. ASSUME Receive PROVE ReachInv'
  <2>1. /\ Tail(out) \in Seq(Events) /\ Len(Tail(out)) = Len(out) - 1
        /\ Head(out) \in Events /\ Len(out) \in Nat
        /\ Tail(out) = <<>> => Head(out) = Last(out)
        /\ Tail(out) # <<>> => Last(Tail(out)) = Last(out)
    BY <1>3, TailFacts DEF Receive, TypeOK
  <2>2. status' = Head(out)
    BY <1>3, <2>1, StatusKept DEF Receive
  <2>3. out' = Tail(out) /\ apc' = "publish"
        /\ UNCHANGED <<net, mpc, subscribed, chan, watching, reachability,
                       NodeStatus, missed, listed>>
    BY <1>3 DEF Receive
  <2>4. Len(out') <= OutCap
    BY <2>1, <2>3 DEF TypeOK
  <2>5. TypeOK'
    BY <2>1, <2>2, <2>3, <2>4 DEF TypeOK
  <2> QED
    BY <1>3, <2>1, <2>2, <2>3, <2>5 DEF Receive, LastOnItsWay, Attached
<1>4. ASSUME Publish PROVE ReachInv'
  <2>1. \A c \in Channels :
          /\ HasRoom(c) => chan'[c] = Append(chan[c], status)
          /\ ~HasRoom(c) => chan'[c] = chan[c]
          /\ missed'[c] = IF HasRoom(c) THEN missed[c] ELSE status.n
    BY <1>4 DEF Publish
  <2>2. \A c \in Channels : chan'[c] \in Seq(Events) /\ Len(chan'[c]) <= Buffer
    <3> TAKE c \in Channels
    <3>1. chan[c] \in Seq(Events) /\ Len(chan[c]) <= Buffer /\ status \in Events
      BY DEF TypeOK
    <3>2. CASE HasRoom(c)
      <4>1. /\ Append(chan[c], status) \in Seq(Events)
            /\ Len(Append(chan[c], status)) = Len(chan[c]) + 1
            /\ Len(chan[c]) \in Nat
        BY <3>1, AppendFacts
      <4>2. Len(Append(chan[c], status)) <= Buffer
        BY <3>2, <4>1 DEF HasRoom
      <4>3. chan'[c] = Append(chan[c], status)
        BY <2>1, <3>2, Zenon
      <4> QED
        BY <4>1, <4>2, <4>3, Zenon
    <3>3. CASE ~HasRoom(c)
      BY <2>1, <3>1, <3>3
    <3> QED
      BY <3>2, <3>3
  <2>3. chan' \in [Channels -> Seq(Events)]
    BY <1>4, <2>2 DEF Publish
  <2>4. missed' \in [Channels -> 0..MaxChanges]
    BY <1>4 DEF Publish, TypeOK, Events
  <2>5. TypeOK'
    BY <1>4, <2>2, <2>3, <2>4 DEF Publish, TypeOK
  <2>6. HasRoom("watcher") => /\ chan'["watcher"] # <<>>
                              /\ Last(chan'["watcher"]) = status
    <3>1. chan["watcher"] \in Seq(Events) /\ status \in Events
      BY DEF TypeOK
    <3>2. Append(chan["watcher"], status) # <<>>
          /\ Last(Append(chan["watcher"], status)) = status
      BY <3>1, AppendFacts
    <3> QED
      BY <2>1, <3>2
  <2>7. ~HasRoom("watcher") => missed'["watcher"] = status.n
    BY <2>1
  <2> QED
    BY <1>4, <2>5, <2>6, <2>7 DEF Publish, LastOnItsWay, Attached
<1>5. ASSUME NewNodeService \/ Watch PROVE ReachInv'
  BY <1>5 DEF NewNodeService, Watch, TypeOK, LastOnItsWay, Attached
<1>6. ASSUME SubscribeWatcher PROVE ReachInv'
  BY <1>6 DEF SubscribeWatcher, TypeOK, LastOnItsWay, Attached
<1>7. ASSUME WatchReachability PROVE ReachInv'
  <2> DEFINE heard == chan["watcher"]
  <2>1. /\ Tail(heard) \in Seq(Events) /\ Len(Tail(heard)) = Len(heard) - 1
        /\ Head(heard) \in Events /\ Len(heard) \in Nat
        /\ Tail(heard) = <<>> => Head(heard) = Last(heard)
        /\ Tail(heard) # <<>> => Last(Tail(heard)) = Last(heard)
    BY <1>7, TailFacts DEF WatchReachability, TypeOK
  <2>2. chan'["watcher"] = Tail(heard) /\ chan'["list"] = chan["list"]
    BY <1>7 DEF WatchReachability, TypeOK
  <2>3. TypeOK'
    BY <1>7, <2>1, <2>2 DEF WatchReachability, TypeOK
  <2> QED
    BY <1>7, <2>1, <2>2, <2>3 DEF WatchReachability, LastOnItsWay, Attached
<1>8. ASSUME WakeList PROVE ReachInv'
  <2>1. /\ Tail(chan["list"]) \in Seq(Events) /\ Head(chan["list"]) \in Events
        /\ Len(Tail(chan["list"])) = Len(chan["list"]) - 1
        /\ Len(chan["list"]) \in Nat
    BY <1>8, TailFacts DEF WakeList, TypeOK
  <2>2. chan'["list"] = Tail(chan["list"]) /\ chan'["watcher"] = chan["watcher"]
    BY <1>8 DEF WakeList, TypeOK
  <2>3. TypeOK'
    BY <1>8, <2>1, <2>2 DEF WakeList, TypeOK
  <2> QED
    BY <1>8, <2>2, <2>3 DEF WakeList, LastOnItsWay, Attached
<1>9. CASE UNCHANGED vars
  BY <1>9 DEF vars, TypeOK, LastOnItsWay, Attached
<1> QED
  BY <1>1, <1>2, <1>3, <1>4, <1>5, <1>6, <1>7, <1>8, <1>9
     DEF Next, Main, AutoNAT, Watcher

LEMMA Invariance == Spec => []ReachInv
  BY InitInv, StepInv, PTL DEF Spec

(* Every reachable state of the reachability's way is well typed. *)
THEOREM TypeCorrect == Spec => []TypeOK
<1>1. ReachInv => TypeOK
  BY DEF ReachInv
<1> QED
  BY <1>1, Invariance, PTL

(* However many statuses the service has missed, once it is idle it reports
   the last one, unless it missed that. *)
THEOREM LastIsReported == Spec => []StatusIsCurrent
<1>1. ReachInv => StatusIsCurrent
  BY DEF ReachInv, TypeOK, Events, LastOnItsWay, StatusIsCurrent, Idle
<1> QED
  BY <1>1, Invariance, PTL
=============================================================================
