---------------------------- MODULE FanOutProofs ----------------------------
(***************************************************************************)
(* What TLAPS proves of FanOut, for any rooms, trees and requests and any   *)
(* capacity of the channels.                                                *)
(*                                                                         *)
(* The argument has two halves.  The first is about who may start the tree  *)
(* of a room: a request inside Compute owns the room's entry, which is not  *)
(* yet stored (CallersInv), and a tree with a listener has a receiver or    *)
(* such a request (TreesInv).  The second counts what a listener has been   *)
(* sent by how far the sync goroutine has come (Delivery).                  *)
(***************************************************************************)
EXTENDS FanOut, SequenceTheorems, TLAPS

InCompute(c) == stage[c] \in {"initializing", "flagged", "ready", "registered"}

Held(t) == \E c \in Callers : At(c, "registered") /\ found[c] = t

CallersInv ==
    \A c \in Callers :
        /\ ~At(c, "idle") => wanted[c] \in Rooms
        /\ InCompute(c) \/ At(c, "found") \/ At(c, "shown")
               => found[c] \in Trees /\ room[found[c]] = wanted[c]
        /\ InCompute(c) => computing[wanted[c]] = c /\ wanted[c] \notin initializedTree
        /\ At(c, "registered") => listener[found[c]] # "none"
        /\ At(c, "shown") => wanted[c] \in initializedTree

TreesInv ==
    \A t \in Trees :
        /\ listener[t] # "none" => room[t] \in Rooms /\ (receiver[t] # "none" \/ Held(t))
        /\ receiver[t] # "none" => listener[t] # "none" /\ room[t] \in initializedTree
        /\ ~Cancelled => listener[t] # "closed" /\ receiver[t] # "ended"

RoomsInv ==
    /\ \A r \in Rooms : messageTrees[r] # Nobody => room[messageTrees[r]] = r
    /\ \A r \in initializedTree : \E t \in Trees : room[t] = r /\ receiver[t] # "none"
    /\ \A t \in Trees : room[t] \in Rooms \ raced => messageTrees[room[t]] = t

\* A listener that was closed counts too.
OneStarted ==
    \A s, t \in Trees :
        listener[s] # "none" /\ listener[t] # "none" /\ room[s] = room[t] => s = t

Quiet ==
    /\ sync # "idle" => Len(log) > 0
    /\ \A t \in Trees :
           listener[t] = "none"
               => /\ events[t] = <<>> /\ received[t] = <<>>
                  /\ t \notin must \cup seen /\ to # t

Starts == CallersInv /\ TreesInv /\ RoomsInv /\ OneStarted

-----------------------------------------------------------------------------
LEMMA InitStarts == Init => TypeOK /\ Starts /\ Quiet
<1> SUFFICES ASSUME Init PROVE TypeOK /\ Starts /\ Quiet
  OBVIOUS
<1>1. TypeOK
  BY FanOutAssumption DEF Init, TypeOK, Stages
<1>2. CallersInv /\ TreesInv /\ RoomsInv /\ OneStarted /\ Quiet
  BY FanOutAssumption DEF Init, CallersInv, TreesInv, RoomsInv, OneStarted, Quiet,
     At, InCompute, Held, Cancelled
<1> QED BY <1>1, <1>2 DEF Starts

-----------------------------------------------------------------------------
\* What is appended to a sequence, and taken from it.
LEMMA Queues ==
    ASSUME NEW S, NEW q \in Seq(S), NEW x \in S
    PROVE  /\ Append(q, x) \in Seq(S) /\ Len(Append(q, x)) = Len(q) + 1
           /\ q # <<>> => /\ Tail(q) \in Seq(S) /\ Len(Tail(q)) = Len(q) - 1
                          /\ Head(q) \in S
           /\ Len(q) \in Nat
  OBVIOUS

LEMMA Heads ==
    ASSUME NEW S, NEW q \in Seq(S), q # <<>>
    PROVE  /\ Head(q) \in S /\ Tail(q) \in Seq(S)
           /\ Len(Tail(q)) = Len(q) - 1 /\ Len(q) \in Nat \ {0}
  OBVIOUS

FlowOK ==
    /\ log \in Seq(Rooms) /\ Len(log) <= MaxEvents
    /\ events \in [Trees -> Seq(1..MaxEvents)]
    /\ \A t \in Trees : Len(events[t]) <= Cap
    /\ received \in [Trees -> Seq(1..MaxEvents)]
    /\ since \in [Trees -> 0..MaxEvents]

StateOK ==
    /\ sync \in {"idle", "ranging", "sending"}
    /\ must \subseteq Trees /\ seen \subseteq Trees /\ to \in Trees \cup {Nobody}
    /\ messageTrees \in [Rooms -> Trees \cup {Nobody}]
    /\ room \in [Trees -> Rooms \cup {Nobody}]
    /\ listening \in [Trees -> BOOLEAN]
    /\ listener \in [Trees -> {"none", "open", "closed"}]
    /\ receiver \in [Trees -> {"none", "running", "ended"}]
    /\ stage \in [Callers -> Stages]
    /\ wanted \in [Callers -> Rooms \cup {Nobody}]
    /\ found \in [Callers -> Trees \cup {Nobody}]
    /\ computing \in [Rooms -> Callers \cup {Nobody}]
    /\ initializedTree \subseteq Rooms
    /\ closing \in {"no", "trees", "done"}
    /\ raced \subseteq Rooms
    /\ fault \in {"none", "send on closed channel", "close of nil channel"}

LEMMA TwoParts == TypeOK <=> FlowOK /\ StateOK
  BY DEF TypeOK, FlowOK, StateOK

LEMMA FlowStep == FlowOK /\ Quiet /\ CallersInv /\ [Next]_vars => FlowOK'
<1> SUFFICES ASSUME FlowOK, Quiet, CallersInv, [Next]_vars PROVE FlowOK'
  OBVIOUS
<1>1. ASSUME NEW r \in Rooms, Sync(r) PROVE FlowOK'
  <2>1. log \in Seq(Rooms) /\ log' = Append(log, r) /\ Len(log) < MaxEvents
    BY <1>1 DEF Sync, FlowOK
  <2>2. log' \in Seq(Rooms) /\ Len(log') = Len(log) + 1 /\ Len(log) \in Nat
    BY <2>1, Queues
  <2> QED BY <1>1, <2>1, <2>2, FanOutAssumption DEF Sync, flow, FlowOK
<1>2. ASSUME NEW t \in Trees, Send(t) PROVE FlowOK'
  <2>1. CASE listener[t] = "open"
    <3>1. Len(log) \in 1..MaxEvents
      <4>1. Len(log) > 0
        BY <1>2 DEF Send, Sending, Quiet
      <4>2. Len(log) \in Nat /\ Len(log) <= MaxEvents
        BY DEF FlowOK
      <4> QED BY <4>1, <4>2, FanOutAssumption
    <3>2. events[t] \in Seq(1..MaxEvents) /\ Len(events[t]) < Cap
      BY <1>2, <2>1 DEF Send, FlowOK
    <3>3. /\ Append(events[t], Len(log)) \in Seq(1..MaxEvents)
          /\ Len(Append(events[t], Len(log))) = Len(events[t]) + 1 /\ Len(events[t]) \in Nat
      BY <3>1, <3>2, Queues
    <3>4. Len(Append(events[t], Len(log))) <= Cap
      BY <3>2, <3>3, FanOutAssumption
    <3>5. events' = [events EXCEPT ![t] = Append(events[t], Len(log))]
          /\ UNCHANGED <<log, received, since>>
      BY <1>2, <2>1 DEF Send, Sending
    <3> HIDE <1>2
    <3> QED BY <3>3, <3>4, <3>5 DEF FlowOK
  <2>2. CASE listener[t] # "open"
    BY <1>2, <2>2 DEF Send, Sending, FlowOK
  <2> QED BY <2>1, <2>2
<1>3. ASSUME NEW t \in Trees, Receive(t) PROVE FlowOK'
  <2>1. events[t] \in Seq(1..MaxEvents) /\ events[t] # <<>> /\ received[t] \in Seq(1..MaxEvents)
        /\ Len(events[t]) <= Cap
    BY <1>3 DEF Receive, FlowOK
  <2>2. /\ Head(events[t]) \in 1..MaxEvents
        /\ Tail(events[t]) \in Seq(1..MaxEvents)
        /\ Len(Tail(events[t])) = Len(events[t]) - 1 /\ Len(events[t]) \in Nat
    BY <2>1, Heads
  <2>3. Append(received[t], Head(events[t])) \in Seq(1..MaxEvents)
    BY <2>1, <2>2, Queues
  <2>4. Len(Tail(events[t])) <= Cap
    BY <2>1, <2>2, FanOutAssumption
  <2>5. /\ events' = [events EXCEPT ![t] = Tail(events[t])]
        /\ received' = [received EXCEPT ![t] = Append(received[t], Head(events[t]))]
        /\ UNCHANGED <<log, since>>
    BY <1>3 DEF Receive, syncVars
  <2> DEFINE x == Append(received[t], Head(events[t]))
             y == Tail(events[t])
  <2> HIDE DEF x, y
  <2>6. x \in Seq(1..MaxEvents) /\ y \in Seq(1..MaxEvents) /\ Len(y) <= Cap
    BY <2>2, <2>3, <2>4 DEF x, y
  <2>7. events' = [events EXCEPT ![t] = y] /\ received' = [received EXCEPT ![t] = x]
    BY <2>5 DEF x, y
  <2> QED BY <2>5, <2>6, <2>7 DEF FlowOK
<1>4. ASSUME NEW c \in Callers, listenEvents(c) PROVE FlowOK'
  <2>1. Len(log) \in 0..MaxEvents
    BY FanOutAssumption DEF FlowOK
  <2>2. since' = [since EXCEPT ![found[c]] = Len(log)] /\ UNCHANGED <<log, events, received>>
    BY <1>4 DEF listenEvents, syncVars
  <2> QED BY <2>1, <2>2 DEF FlowOK
<1>5. CASE UNCHANGED <<log, flow>>
  BY <1>5 DEF flow, FlowOK
<1>6. ASSUME NEW c \in Callers, CallerStep(c), ~listenEvents(c) PROVE UNCHANGED <<log, flow>>
  BY <1>6 DEF CallerStep, Auth, GetMessageTree, MakeTree, Compute, EnterCompute, Listen, MakeChannel,
     StartReceiver, Answer, syncVars
<1>7. ASSUME NEW t \in Trees, Visit(t) \/ ReceiverEnds(t) \/ CloseTree(t)
      PROVE  UNCHANGED <<log, flow>>
  BY <1>7 DEF Visit, ReceiverEnds, EndReceiver, CloseTree, syncVars
<1>8. ASSUME EndRange \/ Close \/ CloseListeners \/ UNCHANGED vars PROVE UNCHANGED <<log, flow>>
  BY <1>8 DEF EndRange, Close, CloseListeners, vars, syncVars, flow
<1> QED BY <1>1, <1>2, <1>3, <1>4, <1>5, <1>6, <1>7, <1>8 DEF Next

LEMMA StateStep == StateOK /\ CallersInv /\ [Next]_vars => StateOK'
<1> SUFFICES ASSUME StateOK, CallersInv, [Next]_vars PROVE StateOK'
  OBVIOUS
<1> USE DEF StateOK, syncVars, tree, service, caller, shared, Stages
<1>1. ASSUME NEW r \in Rooms, Sync(r) PROVE StateOK'
  BY <1>1 DEF Sync, Listeners
<1>2. ASSUME NEW t \in Trees, Visit(t) PROVE StateOK'
  BY <1>2 DEF Visit, Listeners
<1>3. ASSUME NEW t \in Trees, Send(t) PROVE StateOK'
  BY <1>3 DEF Send, Sending
<1>4. CASE EndRange
  BY <1>4 DEF EndRange
<1>5. ASSUME NEW t \in Trees, Receive(t) PROVE StateOK'
  BY <1>5 DEF Receive
<1>6. ASSUME NEW t \in Trees, ReceiverEnds(t) PROVE StateOK'
  BY <1>6 DEF ReceiverEnds, EndReceiver
<1>7. ASSUME NEW c \in Callers, CallerStep(c) PROVE StateOK'
  <2> USE DEF At, Go, CallersInv, InCompute
  <2>1. ASSUME NEW r \in Rooms, Auth(c, r) PROVE StateOK'
    BY <2>1 DEF Auth
  <2>2. CASE GetMessageTree(c)
    BY <2>2 DEF GetMessageTree
  <2>3. ASSUME NEW t \in Trees, MakeTree(c, t) PROVE StateOK'
    <3>1. /\ wanted[c] \in Rooms
          /\ room' = [room EXCEPT ![t] = wanted[c]]
          /\ raced' \in {raced, raced \cup {wanted[c]}}
          /\ messageTrees' = [messageTrees EXCEPT ![wanted[c]] = t]
          /\ stage' = [stage EXCEPT ![c] = "found"] /\ found' = [found EXCEPT ![c] = t]
      BY <2>3 DEF MakeTree
    <3>2. UNCHANGED <<syncVars, listening, listener, receiver, computing, initializedTree,
                      wanted, closing, fault>>
      BY <2>3 DEF MakeTree
    <3> QED BY <3>1, <3>2
  <2>4. CASE Compute(c)
    <3>1. CASE wanted[c] \in initializedTree
      <4>1. /\ stage' = [stage EXCEPT ![c] = "shown"]
            /\ UNCHANGED <<sync, must, seen, to, messageTrees, room, listening, listener,
                           receiver, wanted, found, computing, initializedTree, closing,
                           raced, fault>>
        BY <2>4, <3>1 DEF Compute, EnterCompute
      <4> QED BY <4>1
    <3>2. CASE wanted[c] \notin initializedTree
      <4>1. /\ stage' = [stage EXCEPT ![c] = "initializing"]
            /\ computing' = [computing EXCEPT ![wanted[c]] = c]
            /\ UNCHANGED <<sync, must, seen, to, messageTrees, room, listening, listener,
                           receiver, wanted, found, initializedTree, closing, raced, fault>>
        BY <2>4, <3>2 DEF Compute, EnterCompute
      <4> QED BY <4>1
    <3> QED BY <3>1, <3>2
  <2>5. CASE Listen(c) \/ MakeChannel(c)
    <3>1. CASE Listen(c)
      BY <3>1 DEF Listen
    <3>2. CASE MakeChannel(c)
      BY <3>2 DEF MakeChannel, flow
    <3> QED BY <2>5, <3>1, <3>2
  <2>6. CASE listenEvents(c)
    BY <2>6 DEF listenEvents
  <2>7. CASE StartReceiver(c)
    <3>1. /\ wanted[c] \in Rooms /\ stage' = [stage EXCEPT ![c] = "shown"]
          /\ receiver' = [receiver EXCEPT ![found[c]] = "running"]
          /\ computing' = [computing EXCEPT ![wanted[c]] = Nobody]
          /\ initializedTree' = initializedTree \cup {wanted[c]}
      BY <2>7 DEF StartReceiver
    <3>2. UNCHANGED <<syncVars, room, listening, listener, wanted, found, messageTrees, raced,
                      closing, fault>>
      BY <2>7 DEF StartReceiver
    <3> QED BY <3>1, <3>2
  <2>8. CASE Answer(c)
    BY <2>8 DEF Answer
  <2> QED BY <1>7, <2>1, <2>2, <2>3, <2>4, <2>5, <2>6, <2>7, <2>8 DEF CallerStep
<1>8. CASE Close
  BY <1>8 DEF Close
<1>9. CASE CloseListeners
  BY <1>9 DEF CloseListeners, Listeners
<1>10. ASSUME NEW t \in Trees, CloseTree(t) PROVE StateOK'
  BY <1>10 DEF CloseTree
<1>11. CASE UNCHANGED vars
  BY <1>11 DEF vars
<1> QED BY <1>1, <1>2, <1>3, <1>4, <1>5, <1>6, <1>7, <1>8, <1>9, <1>10, <1>11 DEF Next

-----------------------------------------------------------------------------
\* The steps that the first half of the argument is not about.
LEMMA Elsewhere ==
    ASSUME Next
    PROVE  \/ \E c \in Callers : CallerStep(c)
           \/ \E t \in Trees : ReceiverEnds(t) \/ CloseTree(t)
           \/ Close \/ CloseListeners
           \/ UNCHANGED <<room, listener, receiver, caller, shared, closing>>
  BY DEF Next, Sync, Visit, Send, Sending, Receive, EndRange, tree, service

LEMMA CallersStep == StateOK /\ Starts /\ [Next]_vars => CallersInv'
<1> SUFFICES ASSUME StateOK, Starts, [Next]_vars PROVE CallersInv'
  OBVIOUS
<1>0. /\ CallersInv /\ Nobody \notin Rooms \cup Trees \cup Callers
      /\ stage \in [Callers -> Stages] /\ wanted \in [Callers -> Rooms \cup {Nobody}]
      /\ found \in [Callers -> Trees \cup {Nobody}]
      /\ computing \in [Rooms -> Callers \cup {Nobody}]
      /\ messageTrees \in [Rooms -> Trees \cup {Nobody}]
      /\ room \in [Trees -> Rooms \cup {Nobody}]
      /\ listener \in [Trees -> {"none", "open", "closed"}]
  BY FanOutAssumption DEF StateOK, Starts
<1> USE <1>0 DEF syncVars, tree, caller, shared, CallersInv, At, Go, InCompute
<1>1. ASSUME NEW c \in Callers, NEW r \in Rooms, Auth(c, r) PROVE CallersInv'
  BY <1>1 DEF Auth
<1>2. ASSUME NEW c \in Callers, GetMessageTree(c) PROVE CallersInv'
  <2> DEFINE t == messageTrees[wanted[c]]
  <2>1. wanted[c] \in Rooms /\ t \in Trees \cup {Nobody}
    BY <1>2 DEF GetMessageTree
  <2>2. t # Nobody => room[t] = wanted[c]
    BY <2>1 DEF RoomsInv, Starts
  <2>3. /\ stage' = [stage EXCEPT ![c] = IF t = Nobody THEN "asking" ELSE "found"]
        /\ found' = [found EXCEPT ![c] = t]
        /\ UNCHANGED <<wanted, room, listener, computing, initializedTree>>
    BY <1>2 DEF GetMessageTree
  <2> HIDE DEF t
  <2>4. CASE t = Nobody
    BY <2>1, <2>3, <2>4
  <2>5. CASE t # Nobody
    BY <2>1, <2>2, <2>3, <2>5
  <2> QED BY <2>4, <2>5
<1>3. ASSUME NEW c \in Callers, NEW t \in Trees, MakeTree(c, t) PROVE CallersInv'
  <2>1. /\ room[t] = Nobody /\ At(c, "asking") /\ wanted[c] \in Rooms
        /\ stage' = [stage EXCEPT ![c] = "found"]
        /\ found' = [found EXCEPT ![c] = t]
        /\ room' = [room EXCEPT ![t] = wanted[c]]
        /\ UNCHANGED <<wanted, listener, computing, initializedTree>>
    BY <1>3 DEF MakeTree
  <2>2. \A d \in Callers : InCompute(d) \/ At(d, "found") \/ At(d, "shown") => found[d] # t
    BY <2>1
  <2> QED BY <2>1, <2>2
<1>4. ASSUME NEW c \in Callers, Compute(c) PROVE CallersInv'
  <2>1. CASE wanted[c] \in initializedTree
    <3>1. stage' = [stage EXCEPT ![c] = "shown"] /\ At(c, "found")
          /\ UNCHANGED <<wanted, found, room, listener, computing, initializedTree>>
      BY <1>4, <2>1 DEF Compute, EnterCompute
    <3> QED BY <3>1, <2>1
  <2>2. CASE wanted[c] \notin initializedTree
    <3>1. stage' = [stage EXCEPT ![c] = "initializing"] /\ At(c, "found")
          /\ computing[wanted[c]] = Nobody /\ computing' = [computing EXCEPT ![wanted[c]] = c]
          /\ UNCHANGED <<wanted, found, room, listener, initializedTree>>
      BY <1>4, <2>2 DEF Compute, EnterCompute
    <3>2. \A d \in Callers : InCompute(d) => wanted[d] # wanted[c]
      BY <3>1
    <3> QED BY <3>1, <3>2, <2>2
  <2> QED BY <2>1, <2>2
<1>5. ASSUME NEW c \in Callers, Listen(c) \/ MakeChannel(c) PROVE CallersInv'
  BY <1>5 DEF Listen, MakeChannel
<1>6. ASSUME NEW c \in Callers, listenEvents(c) PROVE CallersInv'
  BY <1>6 DEF listenEvents
<1>7. ASSUME NEW c \in Callers, StartReceiver(c) PROVE CallersInv'
  <2>1. /\ At(c, "registered")
        /\ stage' = [stage EXCEPT ![c] = "shown"]
        /\ computing' = [computing EXCEPT ![wanted[c]] = Nobody]
        /\ initializedTree' = initializedTree \cup {wanted[c]}
        /\ UNCHANGED <<wanted, found, room, listener>>
    BY <1>7 DEF StartReceiver
  <2>2. \A d \in Callers : InCompute(d) /\ d # c => wanted[d] # wanted[c]
    BY <2>1
  <2> QED BY <2>1, <2>2
<1>8. ASSUME NEW c \in Callers, Answer(c) PROVE CallersInv'
  BY <1>8 DEF Answer
<1>9. ASSUME NEW t \in Trees, ReceiverEnds(t) PROVE CallersInv'
  BY <1>9 DEF ReceiverEnds, EndReceiver, service
<1>10. ASSUME NEW t \in Trees, CloseTree(t) PROVE CallersInv'
  BY <1>10 DEF CloseTree, service
<1>11. CASE CloseListeners
  BY <1>11 DEF CloseListeners, service, Listeners
<1>12. CASE Close \/ UNCHANGED <<room, listener, receiver, caller, shared, closing>>
  BY <1>12 DEF Close, service
<1>13. CASE UNCHANGED vars
  BY <1>13 DEF vars
<1> QED BY <1>1, <1>2, <1>3, <1>4, <1>5, <1>6, <1>7, <1>8, <1>9, <1>10, <1>11, <1>12, <1>13,
        Elsewhere DEF CallerStep

LEMMA TreesStep == StateOK /\ Starts /\ [Next]_vars => TreesInv'
<1> SUFFICES ASSUME StateOK, Starts, [Next]_vars PROVE TreesInv'
  OBVIOUS
<1>0. /\ TreesInv /\ Nobody \notin Rooms \cup Trees \cup Callers
      /\ stage \in [Callers -> Stages] /\ found \in [Callers -> Trees \cup {Nobody}]
      /\ room \in [Trees -> Rooms \cup {Nobody}]
      /\ listener \in [Trees -> {"none", "open", "closed"}]
      /\ receiver \in [Trees -> {"none", "running", "ended"}]
  BY FanOutAssumption DEF StateOK, Starts
<1> USE <1>0 DEF syncVars, tree, caller, shared, TreesInv, At, Go, Held, Cancelled
<1>1. ASSUME NEW c \in Callers, NEW r \in Rooms, Auth(c, r) PROVE TreesInv'
  BY <1>1 DEF Auth
<1>2. ASSUME NEW c \in Callers, GetMessageTree(c) PROVE TreesInv'
  BY <1>2 DEF GetMessageTree
<1>3. ASSUME NEW c \in Callers, NEW t \in Trees, MakeTree(c, t) PROVE TreesInv'
  <2>1. /\ room[t] = Nobody /\ At(c, "asking")
        /\ stage' = [stage EXCEPT ![c] = "found"]
        /\ found' = [found EXCEPT ![c] = t]
        /\ room' = [room EXCEPT ![t] = wanted[c]]
        /\ UNCHANGED <<listener, receiver, initializedTree, closing>>
    BY <1>3 DEF MakeTree
  <2>2. listener[t] = "none" /\ receiver[t] = "none"
    BY <2>1
  <2>3. \A u \in Trees : u # t /\ Held(u) => Held(u)'
    BY <2>1
  <2> QED BY <2>1, <2>2, <2>3
<1>4. ASSUME NEW c \in Callers, Compute(c) PROVE TreesInv'
  <2>1. PICK s : stage' = [stage EXCEPT ![c] = s]
    BY <1>4 DEF Compute, EnterCompute
  <2>2. At(c, "found") /\ UNCHANGED <<found, room, listener, receiver, initializedTree, closing>>
    BY <1>4 DEF Compute, EnterCompute
  <2> QED BY <2>1, <2>2
<1>5. ASSUME NEW c \in Callers, Listen(c) \/ MakeChannel(c) PROVE TreesInv'
  BY <1>5 DEF Listen, MakeChannel
<1>6. ASSUME NEW c \in Callers, listenEvents(c) PROVE TreesInv'
  <2>1. /\ At(c, "ready") /\ found[c] \in Trees /\ room[found[c]] \in Rooms
        /\ stage' = [stage EXCEPT ![c] = "registered"]
        /\ listener' = [listener EXCEPT ![found[c]] = "open"]
        /\ UNCHANGED <<found, room, receiver, initializedTree, closing>>
    BY <1>6 DEF listenEvents, CallersInv, InCompute, Starts
  <2>2. Held(found[c])' /\ \A u \in Trees : Held(u) => Held(u)'
    BY <2>1
  <2> QED BY <2>1, <2>2
<1>7. ASSUME NEW c \in Callers, StartReceiver(c) PROVE TreesInv'
  <2>1. /\ At(c, "registered") /\ found[c] \in Trees /\ room[found[c]] = wanted[c]
        /\ listener[found[c]] # "none"
        /\ stage' = [stage EXCEPT ![c] = "shown"]
        /\ receiver' = [receiver EXCEPT ![found[c]] = "running"]
        /\ initializedTree' = initializedTree \cup {wanted[c]}
        /\ UNCHANGED <<found, room, listener, closing>>
    BY <1>7 DEF StartReceiver, CallersInv, InCompute, Starts
  <2>2. \A u \in Trees : u # found[c] /\ Held(u) => Held(u)'
    BY <2>1
  <2> QED BY <2>1, <2>2
<1>8. ASSUME NEW c \in Callers, Answer(c) PROVE TreesInv'
  BY <1>8 DEF Answer
<1>9. ASSUME NEW t \in Trees, ReceiverEnds(t) PROVE TreesInv'
  BY <1>9 DEF ReceiverEnds, EndReceiver, service
<1>10. ASSUME NEW t \in Trees, CloseTree(t) PROVE TreesInv'
  BY <1>10 DEF CloseTree, service
<1>11. CASE CloseListeners
  BY <1>11 DEF CloseListeners, service, Listeners
<1>12. CASE Close \/ UNCHANGED <<room, listener, receiver, caller, shared, closing>>
  <2>1. UNCHANGED <<room, listener, receiver, stage, found, initializedTree>>
        /\ (closing' = closing \/ closing' = "trees")
    BY <1>12 DEF Close, service
  <2>2. \A u \in Trees : Held(u) <=> Held(u)'
    BY <2>1
  <2> QED BY <2>1, <2>2
<1>13. CASE UNCHANGED vars
  BY <1>13 DEF vars
<1> QED BY <1>1, <1>2, <1>3, <1>4, <1>5, <1>6, <1>7, <1>8, <1>9, <1>10, <1>11, <1>12, <1>13,
        Elsewhere DEF CallerStep

LEMMA RoomsStep == StateOK /\ Starts /\ [Next]_vars => RoomsInv'
<1> SUFFICES ASSUME StateOK, Starts, [Next]_vars PROVE RoomsInv'
  OBVIOUS
<1>0. /\ RoomsInv /\ Nobody \notin Rooms \cup Trees \cup Callers
      /\ messageTrees \in [Rooms -> Trees \cup {Nobody}]
      /\ initializedTree \subseteq Rooms
      /\ room \in [Trees -> Rooms \cup {Nobody}]
      /\ receiver \in [Trees -> {"none", "running", "ended"}]
  BY FanOutAssumption DEF StateOK, Starts
<1> USE <1>0 DEF syncVars, tree, caller, shared, RoomsInv
<1>1. ASSUME NEW c \in Callers, NEW t \in Trees, MakeTree(c, t) PROVE RoomsInv'
  <2>1. /\ room[t] = Nobody /\ wanted[c] \in Rooms
        /\ room' = [room EXCEPT ![t] = wanted[c]]
        /\ raced' = IF messageTrees[wanted[c]] # Nobody THEN raced \cup {wanted[c]} ELSE raced
        /\ messageTrees' = [messageTrees EXCEPT ![wanted[c]] = t]
        /\ UNCHANGED <<receiver, initializedTree>>
    BY <1>1 DEF MakeTree, At, CallersInv, Starts
  <2>2. \A u \in Trees : room[u] = wanted[c] /\ wanted[c] \notin raced' => FALSE
    BY <2>1
  <2>3. \A r \in Rooms : messageTrees'[r] # Nobody => room'[messageTrees'[r]] = r
    BY <2>1
  <2>4. \A r \in initializedTree' : \E u \in Trees : room'[u] = r /\ receiver'[u] # "none"
    <3> TAKE r \in initializedTree'
    <3>1. PICK u \in Trees : room[u] = r /\ receiver[u] # "none"
      BY <2>1
    <3>2. u # t
      BY <2>1, <3>1
    <3> QED BY <2>1, <3>1, <3>2
  <2>5. \A u \in Trees : room'[u] \in Rooms \ raced' => messageTrees'[room'[u]] = u
    BY <2>1, <2>2
  <2> QED BY <2>3, <2>4, <2>5
<1>2. ASSUME NEW c \in Callers, StartReceiver(c) PROVE RoomsInv'
  <2>1. /\ found[c] \in Trees /\ room[found[c]] = wanted[c]
        /\ receiver' = [receiver EXCEPT ![found[c]] = "running"]
        /\ initializedTree' = initializedTree \cup {wanted[c]}
        /\ UNCHANGED <<room, messageTrees, raced>>
    BY <1>2 DEF StartReceiver, At, CallersInv, InCompute, Starts
  <2>2. \A r \in initializedTree' : \E u \in Trees : room'[u] = r /\ receiver'[u] # "none"
    <3> TAKE r \in initializedTree'
    <3>1. CASE r = wanted[c]
      BY <2>1, <3>1
    <3>2. CASE r \in initializedTree
      <4>1. PICK u \in Trees : room[u] = r /\ receiver[u] # "none"
        BY <3>2
      <4> QED BY <2>1, <4>1
    <3> QED BY <2>1, <3>1, <3>2
  <2> QED BY <2>1, <2>2
<1>3. ASSUME NEW t \in Trees, ReceiverEnds(t) PROVE RoomsInv'
  <2>1. /\ receiver[t] = "running" /\ receiver' = [receiver EXCEPT ![t] = "ended"]
        /\ UNCHANGED <<room, messageTrees, raced, initializedTree>>
    BY <1>3 DEF ReceiverEnds, EndReceiver, service
  <2>2. \A u \in Trees : receiver[u] # "none" => receiver'[u] # "none"
    BY <2>1
  <2> QED BY <2>1, <2>2
<1>4. CASE UNCHANGED <<room, receiver, messageTrees, raced, initializedTree>>
  BY <1>4
<1>5. ASSUME NEW c \in Callers, CallerStep(c), ~StartReceiver(c), \A t \in Trees : ~MakeTree(c, t)
      PROVE  UNCHANGED <<room, receiver, messageTrees, raced, initializedTree>>
  BY <1>5 DEF CallerStep, Auth, GetMessageTree, Compute, EnterCompute, Listen, MakeChannel, listenEvents, Answer
<1>6. ASSUME NEW t \in Trees, CloseTree(t)
      PROVE  UNCHANGED <<room, receiver, messageTrees, raced, initializedTree>>
  BY <1>6 DEF CloseTree, service
<1>7. ASSUME Close \/ CloseListeners \/ UNCHANGED vars
      PROVE  UNCHANGED <<room, receiver, messageTrees, raced, initializedTree>>
  BY <1>7 DEF Close, CloseListeners, service, vars
<1> QED BY <1>1, <1>2, <1>3, <1>4, <1>5, <1>6, <1>7, Elsewhere

LEMMA OneStartedStep == StateOK /\ Starts /\ [Next]_vars => OneStarted'
<1> SUFFICES ASSUME StateOK, Starts, [Next]_vars PROVE OneStarted'
  OBVIOUS
<1>0. /\ OneStarted /\ Nobody \notin Rooms \cup Trees \cup Callers
      /\ room \in [Trees -> Rooms \cup {Nobody}]
      /\ listener \in [Trees -> {"none", "open", "closed"}]
      /\ \A t \in Trees : listener[t] # "none" => room[t] \in Rooms
  BY FanOutAssumption DEF StateOK, Starts, TreesInv
<1> USE <1>0 DEF syncVars, tree, caller, shared, OneStarted
<1>1. ASSUME NEW c \in Callers, NEW t \in Trees, MakeTree(c, t) PROVE OneStarted'
  <2>1. room[t] = Nobody /\ room' = [room EXCEPT ![t] = wanted[c]] /\ UNCHANGED listener
    BY <1>1 DEF MakeTree
  <2>2. listener[t] = "none"
    BY <2>1
  <2> QED BY <2>1, <2>2
<1>2. ASSUME NEW c \in Callers, listenEvents(c) PROVE OneStarted'
  <2>1. /\ found[c] \in Trees /\ room[found[c]] = wanted[c] /\ At(c, "ready")
        /\ computing[wanted[c]] = c /\ wanted[c] \notin initializedTree
        /\ listener' = [listener EXCEPT ![found[c]] = "open"]
        /\ UNCHANGED room
    BY <1>2 DEF listenEvents, At, CallersInv, InCompute, Starts
  <2>2. ASSUME NEW s \in Trees, listener[s] # "none", room[s] = wanted[c] PROVE FALSE
    <3>1. Held(s)
      BY <2>1, <2>2 DEF TreesInv, Starts
    <3>2. PICK d \in Callers : At(d, "registered") /\ found[d] = s
      BY <3>1 DEF Held
    <3>3. computing[wanted[c]] = d
      BY <3>2, <2>2 DEF CallersInv, InCompute, At, Starts
    <3> QED BY <2>1, <3>2, <3>3 DEF At
  <2> QED BY <2>1, <2>2
<1>3. ASSUME NEW t \in Trees, CloseTree(t) PROVE OneStarted'
  <2>1. \/ UNCHANGED <<room, listener>>
        \/ /\ receiver[t] # "none" /\ listener' = [listener EXCEPT ![t] = "closed"]
           /\ UNCHANGED room
    BY <1>3 DEF CloseTree
  <2>2. receiver[t] # "none" => listener[t] # "none"
    BY DEF TreesInv, Starts
  <2> QED BY <2>1, <2>2
<1>4. CASE CloseListeners
  <2>1. UNCHANGED room /\ \A t \in Trees : listener'[t] # "none" => listener[t] # "none"
    BY <1>4 DEF CloseListeners, Listeners
  <2> QED BY <2>1
<1>5. CASE UNCHANGED <<room, listener>>
  BY <1>5
<1>6. ASSUME NEW c \in Callers, CallerStep(c), ~listenEvents(c), \A t \in Trees : ~MakeTree(c, t)
      PROVE  UNCHANGED <<room, listener>>
  BY <1>6 DEF CallerStep, Auth, GetMessageTree, Compute, EnterCompute, Listen, MakeChannel, StartReceiver, Answer
<1>7. ASSUME NEW t \in Trees, ReceiverEnds(t) PROVE UNCHANGED <<room, listener>>
  BY <1>7 DEF ReceiverEnds, EndReceiver
<1>8. ASSUME Close \/ UNCHANGED vars PROVE UNCHANGED <<room, listener>>
  BY <1>8 DEF Close, vars
<1> QED BY <1>1, <1>2, <1>3, <1>4, <1>5, <1>6, <1>7, <1>8, Elsewhere

LEMMA QuietStep == TypeOK /\ Starts /\ Quiet /\ [Next]_vars => Quiet'
<1> SUFFICES ASSUME TypeOK, Starts, Quiet, [Next]_vars PROVE Quiet'
  OBVIOUS
<1>0. /\ Quiet /\ Nobody \notin Rooms \cup Trees \cup Callers
      /\ log \in Seq(Rooms)
      /\ listener \in [Trees -> {"none", "open", "closed"}]
      /\ \A t \in Trees : listener[t] = "none" => receiver[t] = "none"
  BY FanOutAssumption DEF TypeOK, Starts, TreesInv
<1> USE <1>0 DEF syncVars, tree, flow, Quiet
<1>1. ASSUME NEW r \in Rooms, Sync(r) PROVE Quiet'
  <2>1. Len(log') > 0
    BY <1>1, Queues DEF Sync
  <2> QED BY <1>1, <2>1 DEF Sync, Listeners
<1>2. ASSUME NEW t \in Trees, Visit(t) PROVE Quiet'
  BY <1>2 DEF Visit, Listeners
<1>3. ASSUME NEW t \in Trees, Send(t) PROVE Quiet'
  <2>1. /\ to = t /\ sync = "sending" /\ to' = Nobody
        /\ UNCHANGED <<log, must, seen, received, listener>>
        /\ \A u \in Trees : u # t => events'[u] = events[u]
    BY <1>3 DEF Send, Sending, TypeOK
  <2> QED BY <2>1
<1>4. CASE EndRange
  BY <1>4 DEF EndRange
<1>5. ASSUME NEW t \in Trees, Receive(t) PROVE Quiet'
  <2>1. /\ receiver[t] = "running"
        /\ UNCHANGED <<log, sync, to, must, seen, listener>>
        /\ \A u \in Trees : u # t => events'[u] = events[u] /\ received'[u] = received[u]
    BY <1>5 DEF Receive, TypeOK
  <2> QED BY <2>1
<1>6. ASSUME NEW c \in Callers, listenEvents(c) PROVE Quiet'
  <2>1. /\ UNCHANGED <<log, sync, to, must, seen, events, received>>
        /\ listener' = [listener EXCEPT ![found[c]] = "open"]
    BY <1>6 DEF listenEvents
  <2> QED BY <2>1
<1>7. ASSUME NEW t \in Trees, CloseTree(t) PROVE Quiet'
  <2>1. /\ UNCHANGED <<log, sync, to, must, seen, events, received>>
        /\ listener' \in {listener, [listener EXCEPT ![t] = "closed"]}
    BY <1>7 DEF CloseTree
  <2> QED BY <2>1
<1>8. CASE CloseListeners
  <2>1. /\ UNCHANGED <<log, sync, to, must, seen, events, received>>
        /\ \A t \in Trees : listener'[t] = "none" => listener[t] = "none"
    BY <1>8 DEF CloseListeners
  <2> QED BY <2>1
<1>9. CASE UNCHANGED <<log, sync, to, must, seen, events, received, listener>>
  BY <1>9
<1>10. ASSUME NEW c \in Callers, CallerStep(c), ~listenEvents(c)
       PROVE  UNCHANGED <<log, sync, to, must, seen, events, received, listener>>
  BY <1>10 DEF CallerStep, Auth, GetMessageTree, MakeTree, Compute, EnterCompute, Listen, MakeChannel,
     StartReceiver, Answer
<1>11. ASSUME NEW t \in Trees, ReceiverEnds(t)
       PROVE  UNCHANGED <<log, sync, to, must, seen, events, received, listener>>
  BY <1>11 DEF ReceiverEnds, EndReceiver
<1>12. ASSUME Close \/ UNCHANGED vars
       PROVE  UNCHANGED <<log, sync, to, must, seen, events, received, listener>>
  BY <1>12 DEF Close, vars
<1> QED
  BY <1>1, <1>2, <1>3, <1>4, <1>5, <1>6, <1>7, <1>8, <1>9, <1>10, <1>11, <1>12 DEF Next

-----------------------------------------------------------------------------
LEMMA StartsAlways == Spec => [](TypeOK /\ Starts /\ Quiet)
<1>1. TypeOK /\ Starts /\ Quiet /\ [Next]_vars => (TypeOK /\ Starts /\ Quiet)'
  <2> SUFFICES ASSUME TypeOK, Starts, Quiet, [Next]_vars PROVE (TypeOK /\ Starts /\ Quiet)'
    OBVIOUS
  <2>1. TypeOK'
    BY TwoParts, FlowStep, StateStep, PTL DEF Starts
  <2>2. Starts'
    BY TwoParts, CallersStep, TreesStep, RoomsStep, OneStartedStep DEF Starts
  <2>3. Quiet'
    BY QuietStep
  <2> QED BY <2>1, <2>2, <2>3
<1> QED BY <1>1, InitStarts, PTL DEF Spec

(* Every variable keeps its type and no channel is over its capacity.       *)
THEOREM FanOutTypes == Spec => []TypeOK
  BY StartsAlways, PTL

(* Of the trees of one room at most one listens, for any number of requests *)
(* that make one at the same time.                                          *)
THEOREM OneListens == Spec => []OneListenerPerRoom
<1>1. OneStarted => OneListenerPerRoom
  BY DEF OneStarted, OneListenerPerRoom, Listeners
<1> QED BY <1>1, StartsAlways, PTL DEF Starts

(* The tree that a request shows is the one that listens, unless two        *)
(* requests have made a tree of its room at once.                           *)
THEOREM TheShownListens == Spec => []ShownIsListened
<1>1. TypeOK /\ Starts => ShownIsListened
  <2> SUFFICES ASSUME TypeOK, Starts, NEW c \in Callers, At(c, "shown"),
                      wanted[c] \notin raced, ~Cancelled
               PROVE  receiver[found[c]] = "running"
    BY DEF ShownIsListened
  <2>1. /\ wanted[c] \in Rooms /\ wanted[c] \in initializedTree
        /\ found[c] \in Trees /\ room[found[c]] = wanted[c]
    BY DEF Starts, CallersInv, At
  <2>2. PICK t \in Trees : room[t] = wanted[c] /\ receiver[t] # "none"
    BY <2>1 DEF Starts, RoomsInv
  <2>3. t = found[c]
    BY <2>1, <2>2 DEF Starts, RoomsInv
  <2> QED BY <2>2, <2>3 DEF Starts, TreesInv, TypeOK
<1> QED BY <1>1, StartsAlways, PTL

(* A tree on which the sync loop waits has a receiver, or the request that  *)
(* is about to start it, until the session is closed: for any number of     *)
(* trees and any capacity.                                                  *)
THEOREM SyncIsNotHeldUp == Spec => []NobodyHoldsUpSync
<1>1. TypeOK /\ Starts /\ Quiet => NobodyHoldsUpSync
  <2> SUFFICES ASSUME TypeOK, Starts, Quiet, NEW t \in Trees, Blocked(t), ~Cancelled
               PROVE  receiver[t] = "running" \/ Held(t)
    BY DEF NobodyHoldsUpSync, Held
  <2>1. listener[t] # "none"
    BY DEF Quiet, Blocked
  <2> QED BY <2>1 DEF Starts, TreesInv, TypeOK
<1> QED BY <1>1, StartsAlways, PTL

-----------------------------------------------------------------------------
(* The second half: what a listener has been sent.                          *)

LEMMA Concats ==
    ASSUME NEW S, NEW q \in Seq(S), NEW w \in Seq(S)
    PROVE  /\ \A x \in S : q \o Append(w, x) = Append(q \o w, x)
           /\ w # <<>> => Append(q, Head(w)) \o Tail(w) = q \o w
           /\ q \o w \in Seq(S)
           /\ q = <<>> /\ w = <<>> => q \o w = <<>>
<1>1. q \o w \in Seq(S)
  OBVIOUS
<1>2. ASSUME NEW x \in S PROVE q \o Append(w, x) = Append(q \o w, x)
  BY ConcatProperties
<1>3. ASSUME w # <<>> PROVE Append(q, Head(w)) \o Tail(w) = q \o w
  BY <1>3
<1>4. q = <<>> /\ w = <<>> => q \o w = <<>>
  OBVIOUS
<1> QED BY <1>1, <1>2, <1>3, <1>4

LEMMA AppendToConcat ==
    \A q, w \in Seq(Nat) : \A x \in Nat : q \o Append(w, x) = Append(q \o w, x)
BY Concats

\* g is, in order and without a gap, what came after s, up to n.
Tracks(g, s, n) ==
    /\ \A k \in 1..(Len(g) - 1) : g[k + 1] = g[k] + 1
    /\ g # <<>> => g[1] \in {s, s + 1}
    /\ n = IF g = <<>> THEN s ELSE g[Len(g)]

LEMMA TracksOne ==
    ASSUME NEW g \in Seq(Nat), NEW s \in Nat, NEW n \in Nat, NEW x \in Nat, Tracks(g, s, n),
           x = n + 1 \/ (g = <<>> /\ x = s)
    PROVE  Tracks(Append(g, x), s, x)
<1> DEFINE h == Append(g, x)
<1>1. h \in Seq(Nat) /\ Len(h) = Len(g) + 1 /\ h # <<>> /\ Len(g) \in Nat
      /\ h[Len(g) + 1] = x /\ \A k \in 1..Len(g) : h[k] = g[k]
  OBVIOUS
<1> HIDE DEF h
<1>2. CASE g = <<>>
  BY <1>1, <1>2 DEF Tracks
<1>3. CASE g # <<>>
  <2>1. Len(g) >= 1 /\ g[Len(g)] = n /\ x = n + 1
    BY <1>1, <1>3 DEF Tracks
  <2>2. ASSUME NEW k \in 1..(Len(h) - 1) PROVE h[k + 1] = h[k] + 1
    <3>1. CASE k = Len(g)
      BY <1>1, <2>1, <3>1
    <3>2. CASE k \in 1..(Len(g) - 1)
      <4>1. k \in 1..Len(g) /\ k + 1 \in 1..Len(g)
        BY <1>1, <3>2
      <4>2. g[k + 1] = g[k] + 1
        BY <3>2 DEF Tracks
      <4> QED BY <1>1, <4>1, <4>2
    <3> QED BY <1>1, <2>1, <3>1, <3>2
  <2>3. h[1] = g[1] /\ h[Len(h)] = x
    BY <1>1, <2>1
  <2>4. h[1] \in {s, s + 1}
    BY <1>3, <2>3 DEF Tracks
  <2>5. /\ \A k \in 1..(Len(h) - 1) : h[k + 1] = h[k] + 1
        /\ x = IF h = <<>> THEN s ELSE h[Len(h)]
    BY <1>1, <2>2, <2>3
  <2> QED BY <2>4, <2>5 DEF Tracks, h
<1> QED BY <1>2, <1>3 DEF h

Visited(t) == t \in seen /\ to # t

\* The last event that t has been sent.
Reached(t) == IF sync = "idle" \/ Visited(t) \/ t \notin must THEN Len(log) ELSE Len(log) - 1

Delivery ==
    /\ sync # "sending" => to = Nobody
    /\ sync = "sending" => to \in seen
    /\ sync = "idle" => must = {} /\ seen = {}
    /\ \A t \in Listeners :
           /\ Tracks(Got(t), since[t], Reached(t))
           /\ sync # "idle" /\ ~Visited(t) /\ t \notin must => Got(t) = <<>>

LEMMA InitDelivery == Init => Delivery
  BY DEF Init, Delivery, Listeners

\* What none of the following has changed.
LEMMA DeliveryKept ==
    ASSUME Delivery, UNCHANGED <<log, sync, must, seen, to>>,
           \A t \in Listeners' : t \in Listeners /\ since'[t] = since[t] /\ Got(t)' = Got(t)
    PROVE  Delivery'
  BY DEF Delivery, Reached, Visited

LEMMA DeliveryStep == TypeOK /\ Quiet /\ Starts /\ Delivery /\ [Next]_vars => Delivery'
<1> SUFFICES ASSUME TypeOK, Quiet, Starts, Delivery, [Next]_vars PROVE Delivery'
  OBVIOUS
<1>0. /\ Nobody \notin Trees
      /\ Len(log) \in Nat /\ log \in Seq(Rooms)
      /\ \A t \in Trees : /\ Got(t) \in Seq(Nat) /\ since[t] \in Nat
                          /\ events[t] \in Seq(Nat) /\ received[t] \in Seq(Nat)
      /\ Listeners \subseteq Trees
  <2>1. ASSUME NEW t \in Trees
        PROVE  /\ events[t] \in Seq(Nat) /\ received[t] \in Seq(Nat) /\ since[t] \in Nat
    <3>1. events[t] \in Seq(1..MaxEvents) /\ received[t] \in Seq(1..MaxEvents)
      BY DEF TypeOK
    <3>2. 1..MaxEvents \subseteq Nat
      BY FanOutAssumption
    <3>3. since[t] \in 0..MaxEvents
      BY DEF TypeOK
    <3> QED BY <3>1, <3>2, <3>3, FanOutAssumption
  <2>2. ASSUME NEW t \in Trees PROVE Got(t) \in Seq(Nat)
    BY <2>1, Concats DEF Got
  <2>3. log \in Seq(Rooms)
    BY TwoParts DEF FlowOK
  <2>4. Len(log) \in Nat
    BY <2>3
  <2> QED BY <2>1, <2>2, <2>3, <2>4, FanOutAssumption DEF Listeners
<1>1. ASSUME NEW r \in Rooms, Sync(r) PROVE Delivery'
  <2>1. /\ sync = "idle" /\ sync' = "ranging" /\ must' = Listeners /\ UNCHANGED <<seen, to>>
        /\ UNCHANGED <<listener, since, events, received>>
    BY <1>1 DEF Sync, tree, flow
  <2>2. Len(log') = Len(log) + 1
    BY <1>0, <1>1, Queues DEF Sync
  <2>3. ASSUME NEW t \in Listeners' PROVE t \in Listeners /\ Got(t)' = Got(t) /\ Reached(t)' = Len(log)
    BY <2>1, <2>2, <1>0 DEF Listeners, Got, Reached, Visited, Delivery
  <2>4. \A t \in Listeners : Reached(t) = Len(log)
    BY <2>1 DEF Reached
  <2> QED BY <2>1, <2>3, <2>4 DEF Delivery
<1>2. ASSUME NEW t \in Trees, Visit(t) PROVE Delivery'
  <2>1. /\ sync = "ranging" /\ sync' = "sending" /\ to' = t /\ seen' = seen \cup {t}
        /\ t \notin seen /\ UNCHANGED <<log, must, listener, since, events, received>>
    BY <1>2 DEF Visit, tree, flow
  <2>2. ASSUME NEW u \in Listeners'
        PROVE  /\ u \in Listeners /\ Got(u)' = Got(u) /\ (Visited(u) <=> Visited(u)')
               /\ Reached(u)' = Reached(u)
    BY <2>1, <1>0 DEF Listeners, Got, Reached, Visited, Delivery
  <2> QED BY <2>1, <2>2 DEF Delivery
<1>3. ASSUME NEW t \in Trees, Send(t) PROVE Delivery'
  <2>1. /\ sync = "sending" /\ to = t /\ sync' = "ranging" /\ to' = Nobody
        /\ UNCHANGED <<log, must, seen, listener, since, received>>
    BY <1>3 DEF Send, Sending, tree
  <2>2. t \in seen
    BY <2>1 DEF Delivery
  <2>3. ASSUME NEW u \in Listeners', u # t
        PROVE  /\ u \in Listeners /\ Got(u)' = Got(u) /\ (Visited(u) <=> Visited(u)')
               /\ Reached(u)' = Reached(u)
    <3>1. events'[u] = events[u]
      BY <1>3, <2>3 DEF Send, TypeOK, Listeners
    <3> QED BY <2>1, <2>3, <3>1, <1>0 DEF Listeners, Got, Reached, Visited
  <2>4. ASSUME t \in Listeners' PROVE Tracks(Got(t)', since[t], Len(log))
    <3>1. t \in Listeners /\ events'[t] = Append(events[t], Len(log))
      BY <1>3, <2>1, <2>4 DEF Send, Listeners, TypeOK
    <3>2. Got(t)' = Append(Got(t), Len(log))
      <4>1. /\ received'[t] = received[t] /\ Len(log) \in Nat
            /\ received[t] \in Seq(Nat) /\ events[t] \in Seq(Nat)
        BY <2>1, <1>0
      <4>2. received[t] \o Append(events[t], Len(log)) = Append(received[t] \o events[t], Len(log))
        BY ONLY <4>1, AppendToConcat
      <4> QED BY <3>1, <4>1, <4>2 DEF Got
    <3>3. /\ Tracks(Got(t), since[t], Reached(t))
          /\ t \notin must => Got(t) = <<>>
      BY <3>1, <2>1 DEF Delivery, Visited
    <3>4. Len(log) > 0
      BY <2>1 DEF Quiet
    <3>5. CASE t \in must
      <4>1. Reached(t) = Len(log) - 1 /\ Len(log) - 1 \in Nat
        BY <2>1, <3>4, <3>5, <1>0 DEF Reached, Visited
      <4> QED BY <4>1, <3>2, <3>3, <1>0, TracksOne
    <3>6. CASE t \notin must
      <4>1. Got(t) = <<>> /\ Reached(t) = Len(log)
        BY <3>3, <3>6 DEF Reached
      <4>2. since[t] = Len(log)
        BY <4>1, <3>3 DEF Tracks
      <4> QED BY <4>1, <4>2, <3>2, <3>3, <1>0, TracksOne
    <3> QED BY <3>5, <3>6
  <2>5. Visited(t)' /\ Reached(t)' = Len(log)
    BY <2>1, <2>2, <1>0 DEF Visited, Reached
  <2> QED BY <2>1, <2>3, <2>4, <2>5 DEF Delivery
<1>4. CASE EndRange
  <2>1. /\ sync = "ranging" /\ sync' = "idle" /\ must' = {} /\ seen' = {}
        /\ must \cap Listeners \subseteq seen
        /\ UNCHANGED <<log, to, listener, since, events, received>>
    BY <1>4 DEF EndRange, tree, flow
  <2>2. ASSUME NEW u \in Listeners'
        PROVE  u \in Listeners /\ Got(u)' = Got(u) /\ Reached(u)' = Reached(u)
    BY <2>1, <1>0 DEF Listeners, Got, Reached, Visited, Delivery
  <2> QED BY <2>1, <2>2 DEF Delivery
<1>5. ASSUME NEW t \in Trees, Receive(t) PROVE Delivery'
  <2>1. /\ events[t] # <<>>
        /\ events' = [events EXCEPT ![t] = Tail(events[t])]
        /\ received' = [received EXCEPT ![t] = Append(received[t], Head(events[t]))]
        /\ UNCHANGED <<log, sync, must, seen, to, listener, since>>
    BY <1>5 DEF Receive, syncVars, tree
  <2>2. Got(t)' = Got(t)
    <3>1. /\ events'[t] = Tail(events[t])
          /\ received'[t] = Append(received[t], Head(events[t]))
      BY <2>1 DEF TypeOK
    <3>2. received[t] \in Seq(Nat) /\ events[t] \in Seq(Nat)
      BY <1>0
    <3>3. Append(received[t], Head(events[t])) \o Tail(events[t]) = received[t] \o events[t]
      BY <3>2, <2>1, Concats
    <3> QED BY <3>1, <3>3 DEF Got
  <2>3. \A u \in Trees : u # t => Got(u)' = Got(u)
    BY <2>1 DEF Got, TypeOK
  <2> QED BY <2>1, <2>2, <2>3, DeliveryKept, <1>0 DEF Listeners
<1>6. ASSUME NEW c \in Callers, listenEvents(c) PROVE Delivery'
  <2>0. PICK t \in Trees : t = found[c]
    BY <1>6 DEF listenEvents, Starts, CallersInv, InCompute, At
  <2>1. /\ listener' = [listener EXCEPT ![t] = "open"]
        /\ since' = [since EXCEPT ![t] = Len(log)]
        /\ UNCHANGED <<log, sync, must, seen, to, events, received>> /\ At(c, "ready")
    BY <1>6, <2>0 DEF listenEvents, syncVars
  <2>2. listener[t] = "none"
    <3>1. room[t] = wanted[c] /\ computing[wanted[c]] = c /\ wanted[c] \notin initializedTree
      BY <2>0, <2>1 DEF Starts, CallersInv, InCompute, At
    <3>2. ASSUME NEW d \in Callers, At(d, "registered"), found[d] = t PROVE FALSE
      <4>1. computing[wanted[d]] = d /\ wanted[d] = room[t]
        BY <3>2 DEF Starts, CallersInv, InCompute, At
      <4> QED BY <2>0, <2>1, <3>1, <3>2, <4>1 DEF At
    <3> QED BY <2>1, <3>1, <3>2 DEF Starts, TreesInv, Held
  <2>3. Got(t)' = <<>> /\ t \notin must \cup seen /\ to # t
    <3>1. /\ events[t] = <<>> /\ received[t] = <<>>
          /\ t \notin must \cup seen /\ to # t
      BY <2>1, <2>2 DEF Quiet
    <3>2. received[t] \o events[t] = <<>>
      BY <3>1
    <3> QED BY <2>1, <3>1, <3>2 DEF Got
  <2>4. since'[t] = Len(log)
    BY <2>1 DEF TypeOK
  <2>5. ~Visited(t)' /\ Reached(t)' = Len(log)
    <3>1. Len(log') = Len(log) /\ must' = must /\ seen' = seen /\ to' = to
      BY <2>1
    <3> QED BY <3>1, <2>3 DEF Visited, Reached
  <2>6. Tracks(Got(t)', since'[t], Reached(t)')
    BY <2>3, <2>4, <2>5 DEF Tracks
  <2>7. ASSUME NEW u \in Listeners', u # t
        PROVE  /\ u \in Listeners /\ Got(u)' = Got(u) /\ (Visited(u) <=> Visited(u)')
               /\ Reached(u)' = Reached(u) /\ since'[u] = since[u]
    BY <2>1, <2>7 DEF Listeners, Got, Reached, Visited, TypeOK
  <2>8. ASSUME NEW u \in Listeners'
        PROVE  /\ Tracks(Got(u)', since'[u], Reached(u)')
               /\ sync' # "idle" /\ ~Visited(u)' /\ u \notin must' => Got(u)' = <<>>
    <3>1. CASE u = t
      BY <3>1, <2>3, <2>6
    <3>2. CASE u # t
      BY <3>2, <2>1, <2>7 DEF Delivery
    <3> QED BY <3>1, <3>2
  <2> QED BY <2>1, <2>8 DEF Delivery
<1>7. CASE /\ UNCHANGED <<log, sync, must, seen, to, since, events, received>>
           /\ Listeners' \subseteq Listeners
  <2>1. \A u \in Trees : Got(u)' = Got(u)
    BY <1>7 DEF Got
  <2> QED BY <1>7, <2>1, <1>0, DeliveryKept
<1>8. ASSUME NEW c \in Callers, CallerStep(c), ~listenEvents(c)
      PROVE  UNCHANGED <<log, sync, must, seen, to, since, events, received, listener>>
  BY <1>8 DEF CallerStep, Auth, GetMessageTree, MakeTree, Compute, EnterCompute, Listen, MakeChannel,
     StartReceiver, Answer, syncVars, flow, tree
<1>9. ASSUME NEW t \in Trees, ReceiverEnds(t)
      PROVE  UNCHANGED <<log, sync, must, seen, to, since, events, received, listener>>
  BY <1>9 DEF ReceiverEnds, EndReceiver, syncVars, flow
<1>10. ASSUME Close \/ UNCHANGED vars
       PROVE  UNCHANGED <<log, sync, must, seen, to, since, events, received, listener>>
  BY <1>10 DEF Close, vars, syncVars, flow, tree
<1>11. UNCHANGED listener => Listeners' = Listeners
  BY DEF Listeners
<1>12. ASSUME NEW t \in Trees, CloseTree(t)
       PROVE  /\ UNCHANGED <<log, sync, must, seen, to, since, events, received>>
              /\ Listeners' \subseteq Listeners
  BY <1>12 DEF CloseTree, syncVars, flow, Listeners, TypeOK
<1>13. ASSUME CloseListeners
       PROVE  /\ UNCHANGED <<log, sync, must, seen, to, since, events, received>>
              /\ Listeners' \subseteq Listeners
  BY <1>13 DEF CloseListeners, syncVars, flow, Listeners
<1> QED
  BY <1>1, <1>2, <1>3, <1>4, <1>5, <1>6, <1>7, <1>8, <1>9, <1>10, <1>11, <1>12, <1>13 DEF Next

(* A listener is sent every event after it was stored, once and in the      *)
(* order of the timeline, however the visits of the listeners, their        *)
(* receivers and the requests that start them interleave.                   *)
THEOREM EventsComeInOrder == Spec => []EachInOrder
<1>1. TypeOK /\ Delivery => EachInOrder
  <2> SUFFICES ASSUME TypeOK, Delivery, NEW t \in Listeners
               PROVE  /\ \A k \in 1..(Len(Got(t)) - 1) : Got(t)[k + 1] = Got(t)[k] + 1
                      /\ Got(t) # <<>> => Got(t)[1] \in {since[t], since[t] + 1}
                      /\ sync = "idle" \/ (sync = "ranging" /\ t \in seen)
                            => Len(log) = Latest(t)
    BY DEF EachInOrder
  <2>1. Tracks(Got(t), since[t], Reached(t)) /\ t \in Trees
    BY DEF Delivery, Listeners
  <2>2. sync = "idle" \/ (sync = "ranging" /\ t \in seen) => Reached(t) = Len(log)
    BY <2>1, FanOutAssumption DEF Delivery, Reached, Visited
  <2> QED BY <2>1, <2>2 DEF Tracks, Latest
<1>2. TypeOK /\ Quiet /\ Starts /\ Delivery /\ [Next]_vars => Delivery'
  BY DeliveryStep
<1>3. Spec => []Delivery
  BY <1>2, InitDelivery, StartsAlways, PTL DEF Spec
<1> QED BY <1>1, <1>3, StartsAlways, PTL
=============================================================================
