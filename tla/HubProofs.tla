----------------------------- MODULE HubProofs -----------------------------
(***************************************************************************)
(* What TLAPS proves of Hub, for any clients, users, rooms and pushers, and *)
(* any capacity of the channels.  The inductive invariant adds to the       *)
(* properties that the pumps, and so Close, start after Register, that a    *)
(* goroutine that does not hold the read lock has no client left to visit,  *)
(* and that no message is owed that has not been pushed.                    *)
(***************************************************************************)
EXTENDS Hub, TLAPS

PumpsAfterRegister ==
    \A c \in Clients :
        /\ handler[c] \in {"idle", "upgraded", "registered"} => writer[c] = "none"
        /\ handler[c] \in {"idle", "upgraded", "registered"} => closing[c] = "open"

PushesUnderLock ==
    \A p \in Procs :
        /\ IF push[p].locked THEN push[p].message \in Message ELSE push[p].left = {}
        /\ p \in Clients => (push[p].locked <=> handler[p] = "pushing")

IInv ==
    /\ TypeOK
    /\ HubKnowsConnected
    /\ PushMissesNobody
    /\ PumpsAfterRegister
    /\ PushesUnderLock
-----------------------------------------------------------------------------
LEMMA InitIInv == Init => IInv
<1> SUFFICES ASSUME Init PROVE IInv
  OBVIOUS
<1> USE HubAssumption DEF Init
<1>1. TypeOK
  BY DEF TypeOK, ChannelsOK, NoPush, HandlerStages, WriterStages, CloseStages, ConnStates
<1>2. HubKnowsConnected
  BY DEF HubKnowsConnected, Bucket
<1> QED
  BY <1>1, <1>2 DEF IInv, PushMissesNobody, PumpsAfterRegister, PushesUnderLock, NoPush

-----------------------------------------------------------------------------
\* The client's channel keeps its type and its bound.
LEMMA ChannelTypes ==
    ASSUME NEW q \in Seq(Message), Len(q) <= SendCap, NEW m \in Message
    PROVE  /\ Len(q) < SendCap => Append(q, m) \in Seq(Message) /\ Len(Append(q, m)) <= SendCap
           /\ q # <<>> => Tail(q) \in Seq(Message) /\ Len(Tail(q)) <= SendCap
                          /\ Head(q) \in Message
  BY HubAssumption DEF Message

LEMMA TypeStep == TypeOK /\ PushesUnderLock /\ Next => TypeOK'
<1> SUFFICES ASSUME TypeOK, PushesUnderLock, Next PROVE TypeOK'
  OBVIOUS
<1> USE HubAssumption DEF clientVars
<1>0. UNCHANGED send => ChannelsOK'
  BY DEF TypeOK, ChannelsOK
<1>1. ASSUME NEW c \in Clients,
             \/ Upgrade(c) \/ ConnectionLost(c) \/ ReadRefused(c) \/ StartPumps(c)
             \/ ReadFails(c) \/ HandlerReturns(c) \/ WriterEnds(c)
             \/ PingFails(c) \/ WriterStops(c) \/ Cancel(c) \/ CloseConn(c)
      PROVE  TypeOK'
  <2>1. /\ \/ handler' = handler
           \/ \E h \in HandlerStages : handler' = [handler EXCEPT ![c] = h]
        /\ \/ writer' = writer
           \/ \E w \in WriterStages : writer' = [writer EXCEPT ![c] = w]
        /\ \/ closing' = closing
           \/ \E s \in CloseStages : closing' = [closing EXCEPT ![c] = s]
        /\ \/ conn' = conn
           \/ \E s \in ConnStates : conn' = [conn EXCEPT ![c] = s]
    <3> USE DEF HandlerStages, WriterStages, CloseStages, ConnStates
    <3>1. CASE Upgrade(c) \/ ConnectionLost(c) \/ ReadRefused(c) \/ StartPumps(c)
      BY <3>1 DEF Upgrade, ConnectionLost, ReadRefused, ReaderCloses, StartPumps
    <3>2. CASE ReadFails(c) \/ HandlerReturns(c) \/ WriterEnds(c)
      BY <3>2 DEF ReadFails, ReaderCloses, HandlerReturns, WriterEnds
    <3>3. CASE PingFails(c) \/ WriterStops(c) \/ Cancel(c) \/ CloseConn(c)
      BY <3>3 DEF PingFails, WriterStops, WriterCloses, Cancel, CloseConn
    <3> QED BY <1>1, <3>1, <3>2, <3>3
  <2>2. UNCHANGED <<clients, push, count, activeRoom, send, owed>>
    BY <1>1 DEF Upgrade, ConnectionLost, ReadRefused, ReaderCloses, StartPumps,
       ReadFails, HandlerReturns, WriterEnds, PingFails, WriterStops, WriterCloses, Cancel,
       CloseConn
  <2>3. handler' \in [Clients -> HandlerStages]
    BY <2>1 DEF TypeOK
  <2>4. writer' \in [Clients -> WriterStages]
    BY <2>1 DEF TypeOK
  <2>5. closing' \in [Clients -> CloseStages]
    BY <2>1 DEF TypeOK
  <2>6. conn' \in [Clients -> ConnStates]
    BY <2>1 DEF TypeOK
  <2> QED BY <1>0, <2>2, <2>3, <2>4, <2>5, <2>6 DEF TypeOK
<1>2. ASSUME NEW c \in Clients, Register(c) PROVE TypeOK'
  <2>1. /\ DOMAIN clients' \subseteq Users
        /\ \A u \in DOMAIN clients' : clients'[u] \in (SUBSET Clients) \ {{}}
    BY <1>2 DEF Register, Added, WithBucket, Bucket, TypeOK
  <2> QED BY <1>0, <1>2, <2>1 DEF Register, TypeOK, HandlerStages
<1>3. ASSUME NEW c \in Clients, Unregister(c) PROVE TypeOK'
  <2>1. /\ DOMAIN clients' \subseteq Users
        /\ \A u \in DOMAIN clients' : clients'[u] \in (SUBSET Clients) \ {{}}
    BY <1>3 DEF Unregister, Removed, WithBucket, Bucket, TypeOK
  <2> QED BY <1>0, <1>3, <2>1 DEF Unregister, TypeOK, CloseStages
<1>4. ASSUME NEW c \in Clients, NEW room \in Rooms \cup {NoRoom}, SetActiveRoom(c, room)
      PROVE  TypeOK'
  BY <1>0, <1>4 DEF SetActiveRoom, TypeOK
<1>5. ASSUME NEW c \in Clients, WriteMessage(c) \/ WriteFails(c) PROVE TypeOK'
  <2>1. send' = [send EXCEPT ![c] = Tail(@)] /\ send[c] # <<>>
    BY <1>5 DEF WriteMessage, WriteFails
  <2>2. send[c] \in Seq(Message) /\ Len(send[c]) <= SendCap
    BY DEF TypeOK, ChannelsOK
  <2>3. Tail(send[c]) \in Seq(Message) /\ Len(Tail(send[c])) <= SendCap
    <3>1. ASSUME NEW m \in Message PROVE Tail(send[c]) \in Seq(Message) /\ Len(Tail(send[c])) <= SendCap
      BY <2>1, <2>2, <3>1, ChannelTypes
    <3>2. Head(send[c]) \in Message
      BY <2>1, <2>2
    <3> QED BY <3>1, <3>2
  <2>4. ChannelsOK'
    BY <2>1, <2>3 DEF TypeOK, ChannelsOK
  <2>5. owed' \in [Clients -> SUBSET Message]
    <3>1. owed' = [owed EXCEPT ![c] = @ \ {Head(send[c])}]
      BY <1>5 DEF WriteMessage, WriteFails
    <3> DEFINE m == Head(send[c])
    <3> HIDE DEF m
    <3> QED BY <3>1 DEF TypeOK, m
  <2> QED BY <1>5, <2>4, <2>5 DEF WriteMessage, WriteFails, WriterCloses, TypeOK, WriterStages
<1>6. ASSUME NEW p \in Procs, NEW targets \in SUBSET Clients, NEW room \in Rooms \cup {NoRoom},
             NEW receivers, StartPush(p, targets, room, receivers),
             handler' \in [Clients -> HandlerStages]
      PROVE  TypeOK'
  <2>1. count + 1 \in Message /\ count' = count + 1
    BY <1>6 DEF StartPush, TypeOK, Message
  <2>2. owed' \in [Clients -> SUBSET Message]
    BY <1>6, <2>1 DEF StartPush, TypeOK
  <2>3. count' \in 0..MaxPushes
    BY <2>1 DEF Message
  <2>4. push' \in [Procs -> [locked : BOOLEAN, message : Message \cup {0},
                           left : SUBSET Clients, room : Rooms \cup {NoRoom}]]
    <3> DEFINE r == [locked |-> TRUE, message |-> count + 1, left |-> targets, room |-> room]
    <3>1. r \in [locked : BOOLEAN, message : Message \cup {0}, left : SUBSET Clients,
                 room : Rooms \cup {NoRoom}]
      BY <2>1
    <3>2. push' = [push EXCEPT ![p] = r]
      BY <1>6 DEF StartPush
    <3> HIDE DEF r
    <3> QED BY <3>1, <3>2 DEF TypeOK
  <2>5. UNCHANGED <<clients, writer, closing, conn, activeRoom, send>>
    BY <1>6 DEF StartPush
  <2> QED BY <1>0, <1>6, <2>2, <2>3, <2>4, <2>5 DEF TypeOK
<1>7. \A u \in Users : Bucket(u) \subseteq Clients
  BY DEF Bucket, TypeOK
<1>8. ASSUME NEW p \in Pushers, NEW u \in Users, Push(p, u) PROVE TypeOK'
  BY <1>6, <1>7, <1>8 DEF Push, Procs, TypeOK
<1>9. ASSUME NEW c \in Clients, HandlerPushes(c) PROVE TypeOK'
  <2>1. /\ StartPush(c, Bucket(UserOf[c]), NoRoom,
                     {d \in Connected : UserOf[d] = UserOf[c]})
        /\ handler' \in [Clients -> HandlerStages]
    BY <1>9 DEF HandlerPushes, TypeOK, HandlerStages
  <2> QED BY <1>6, <1>7, <2>1 DEF Procs
<1>10. ASSUME NEW p \in Pushers, NEW room \in Rooms, BroadcastToRoom(p, room) PROVE TypeOK'
  <2>1. UNION {clients[u] : u \in DOMAIN clients} \subseteq Clients
    BY DEF TypeOK
  <2> QED BY <1>6, <1>10, <2>1 DEF BroadcastToRoom, Procs, TypeOK
<1>11. ASSUME NEW p \in Procs, NEW c \in Clients, ActiveRoomDiffers(p, c) PROVE TypeOK'
  BY <1>0, <1>11 DEF ActiveRoomDiffers, Visit, TypeOK
<1>12. ASSUME NEW p \in Procs, NEW c \in Clients, SendTo(p, c) PROVE TypeOK'
  <2>1. push' \in [Procs -> [locked : BOOLEAN, message : Message \cup {0},
                           left : SUBSET Clients, room : Rooms \cup {NoRoom}]]
    BY <1>12 DEF SendTo, Visit, TypeOK
  <2>2. push[p].message \in Message
    BY <1>12 DEF SendTo, Visit, PushesUnderLock, TypeOK
  <2>3. ChannelsOK'
    <3>1. CASE Len(send[c]) < SendCap /\ send' = [send EXCEPT ![c] = Append(@, push[p].message)]
      <4>1. Append(send[c], push[p].message) \in Seq(Message)
            /\ Len(Append(send[c], push[p].message)) <= SendCap
        BY <2>2, <3>1, ChannelTypes DEF TypeOK, ChannelsOK
      <4> QED BY <3>1, <4>1 DEF TypeOK, ChannelsOK
    <3>2. CASE UNCHANGED send
      BY <1>0, <3>2
    <3> QED BY <1>12, <3>1, <3>2 DEF SendTo, Send
  <2>4. owed' \in [Clients -> SUBSET Message]
    BY <1>12 DEF SendTo, Send, TypeOK
  <2> QED BY <1>12, <2>1, <2>3, <2>4 DEF SendTo, Visit, TypeOK
<1>13. ASSUME NEW p \in Procs, EndPush(p) PROVE TypeOK'
  BY <1>0, <1>13 DEF EndPush, NoPush, TypeOK, HandlerStages
<1> QED
  BY <1>1, <1>2, <1>3, <1>4, <1>5, <1>8, <1>9, <1>10, <1>11, <1>12, <1>13
     DEF Next, HandlerStep, WriterStep, CloseStep, PushStep

-----------------------------------------------------------------------------
\* What Register and Unregister do to the buckets.
LEMMA AddedBucket ==
    ASSUME NEW c \in Clients, clients' = Added(c)
    PROVE  \A u, d : d \in Bucket(u)' <=> d \in Bucket(u) \/ (u = UserOf[c] /\ d = c)
  BY DEF Added, WithBucket, Bucket

LEMMA RemovedBucket ==
    ASSUME NEW c \in Clients, clients' = Removed(c)
    PROVE  \A u, d : d \in Bucket(u)' <=> d \in Bucket(u) /\ ~(u = UserOf[c] /\ d = c)
<1>1. CASE c \notin Bucket(UserOf[c])
  BY <1>1 DEF Removed, Bucket
<1>2. CASE c \in Bucket(UserOf[c]) /\ Bucket(UserOf[c]) \ {c} = {}
  BY <1>2 DEF Removed, Bucket
<1>3. CASE c \in Bucket(UserOf[c]) /\ Bucket(UserOf[c]) \ {c} # {}
  <2>1. clients' = WithBucket(UserOf[c], Bucket(UserOf[c]) \ {c})
    BY <1>3 DEF Removed
  <2> QED BY <2>1 DEF WithBucket, Bucket
<1> QED BY <1>1, <1>2, <1>3

\* The pumps and Close come after Register, and the lock goes with the push.
LEMMA OrderStep == IInv /\ Next => PumpsAfterRegister' /\ PushesUnderLock'
<1> SUFFICES ASSUME IInv, Next PROVE PumpsAfterRegister' /\ PushesUnderLock'
  OBVIOUS
<1> USE HubAssumption DEF IInv, TypeOK, PumpsAfterRegister, PushesUnderLock, clientVars
<1>1. CASE UNCHANGED <<handler, writer, closing, push>>
  BY <1>1
<1>2. ASSUME NEW c \in Clients, UNCHANGED <<writer, closing, push>>,
             NEW h \in {"upgraded", "closing", "returned", "registered", "reading"},
             handler' = [handler EXCEPT ![c] = h], handler[c] # "pushing",
             h \in {"registered", "upgraded"} => handler[c] \in {"idle", "upgraded"}
      PROVE  PumpsAfterRegister' /\ PushesUnderLock'
  BY <1>2
<1>3. ASSUME NEW c \in Clients,
             \/ Upgrade(c) \/ ReadRefused(c) \/ ReadFails(c) \/ Register(c) \/ HandlerReturns(c)
      PROVE  PumpsAfterRegister' /\ PushesUnderLock'
  <2>1. CASE Upgrade(c)
    BY <1>2, <2>1 DEF Upgrade
  <2>2. CASE ReadRefused(c) \/ ReadFails(c)
    BY <1>2, <2>2 DEF ReadRefused, ReadFails, ReaderCloses
  <2>3. CASE Register(c)
    BY <1>2, <2>3 DEF Register
  <2>4. CASE HandlerReturns(c)
    BY <1>2, <2>4 DEF HandlerReturns
  <2> QED BY <1>3, <2>1, <2>2, <2>3, <2>4
<1>4. ASSUME NEW c \in Clients, StartPumps(c) PROVE PumpsAfterRegister' /\ PushesUnderLock'
  BY <1>4 DEF StartPumps
<1>5. ASSUME NEW c \in Clients,
             WriteFails(c) \/ PingFails(c) \/ WriterStops(c) \/ WriterEnds(c)
      PROVE  PumpsAfterRegister' /\ PushesUnderLock'
  BY <1>5 DEF WriteFails, PingFails, WriterStops, WriterCloses, WriterEnds
<1>6. ASSUME NEW c \in Clients, CloseStep(c) PROVE PumpsAfterRegister' /\ PushesUnderLock'
  <2>1. closing[c] # "open" \/ Closing(c)
    BY <1>6 DEF CloseStep, Cancel, Unregister, CloseConn
  <2>2. handler[c] \notin {"idle", "upgraded", "registered"}
    BY <2>1 DEF Closing
  <2>3. UNCHANGED <<handler, writer, push>> /\ \A d \in Clients \ {c} : closing'[d] = closing[d]
    BY <1>6 DEF CloseStep, Cancel, Unregister, CloseConn
  <2> QED BY <2>2, <2>3
<1>7. ASSUME NEW p \in Procs, NEW targets, NEW room, NEW receivers,
             StartPush(p, targets, room, receivers)
      PROVE  /\ \A q \in Procs \ {p} : push'[q] = push[q]
             /\ push'[p].locked /\ push'[p].message \in Message
             /\ UNCHANGED <<writer, closing>>
  <2>1. count + 1 \in Message
    BY <1>7 DEF StartPush, Message
  <2> QED BY <1>7, <2>1 DEF StartPush
<1>8. ASSUME NEW p \in Pushers,
             \/ \E u \in Users : Push(p, u)
             \/ \E room \in Rooms : BroadcastToRoom(p, room)
      PROVE  PumpsAfterRegister' /\ PushesUnderLock'
  <2>1. p \in Procs /\ \E targets, room, receivers : StartPush(p, targets, room, receivers)
    BY <1>8 DEF Push, BroadcastToRoom, Procs
  <2>2. UNCHANGED <<handler, writer, closing>>
    BY <1>8 DEF Push, BroadcastToRoom, StartPush
  <2> QED BY <1>7, <2>1, <2>2
<1>9. ASSUME NEW c \in Clients, HandlerPushes(c) PROVE PumpsAfterRegister' /\ PushesUnderLock'
  <2>1. /\ c \in Procs /\ handler[c] = "reading"
        /\ handler' = [handler EXCEPT ![c] = "pushing"]
        /\ \E targets, room, receivers : StartPush(c, targets, room, receivers)
    BY <1>9 DEF HandlerPushes, Procs
  <2> QED BY <1>7, <2>1
<1>10. ASSUME NEW p \in Procs, NEW c \in Clients, ActiveRoomDiffers(p, c) \/ SendTo(p, c)
       PROVE  PumpsAfterRegister' /\ PushesUnderLock'
  <2>1. Visit(p, c)
    BY <1>10 DEF ActiveRoomDiffers, SendTo
  <2> QED BY <2>1 DEF Visit
<1>11. ASSUME NEW p \in Procs, EndPush(p) PROVE PumpsAfterRegister' /\ PushesUnderLock'
  BY <1>11 DEF EndPush, NoPush
<1> QED
  BY <1>1, <1>3, <1>4, <1>5, <1>6, <1>8, <1>9, <1>10, <1>11 DEF Next, HandlerStep,
     WriterStep, PushStep, ConnectionLost, SetActiveRoom, WriteMessage

-----------------------------------------------------------------------------
LEMMA ConnectedStep == IInv /\ Next => HubKnowsConnected'
<1> SUFFICES ASSUME IInv, Next PROVE HubKnowsConnected'
  OBVIOUS
<1> USE HubAssumption DEF IInv, TypeOK, PumpsAfterRegister, HubKnowsConnected, clientVars
<1>1. ASSUME UNCHANGED clients,
             \A c \in Clients :
                 /\ handler'[c] \in {"idle", "upgraded"} <=> handler[c] \in {"idle", "upgraded"}
                 /\ closing'[c] \in {"open", "cancelled"} <=> closing[c] \in {"open", "cancelled"}
      PROVE  HubKnowsConnected'
  BY <1>1 DEF Bucket
<1>2. ASSUME NEW c \in Clients,
             \/ Upgrade(c) \/ ReadRefused(c) \/ ReadFails(c) \/ HandlerReturns(c)
             \/ StartPumps(c) \/ Cancel(c) \/ CloseConn(c)
      PROVE  HubKnowsConnected'
  BY <1>1, <1>2 DEF Upgrade, ReadRefused, ReadFails, ReaderCloses, HandlerReturns,
     StartPumps, Cancel, CloseConn
<1>3. ASSUME NEW c \in Clients, Register(c) PROVE HubKnowsConnected'
  <2>1. \A u, d : d \in Bucket(u)' <=> d \in Bucket(u) \/ (u = UserOf[c] /\ d = c)
    BY <1>3, AddedBucket DEF Register
  <2>2. /\ handler[c] = "upgraded" /\ closing[c] = "open" /\ closing' = closing
        /\ handler' = [handler EXCEPT ![c] = "registered"]
    BY <1>3 DEF Register
  <2> QED BY <2>1, <2>2
<1>4. ASSUME NEW c \in Clients, Unregister(c) PROVE HubKnowsConnected'
  <2>1. \A u, d : d \in Bucket(u)' <=> d \in Bucket(u) /\ ~(u = UserOf[c] /\ d = c)
    BY <1>4, RemovedBucket DEF Unregister
  <2>2. /\ closing' = [closing EXCEPT ![c] = "unregistered"] /\ handler' = handler
    BY <1>4 DEF Unregister
  <2> QED BY <2>1, <2>2
<1>5. CASE UNCHANGED <<clients, handler, closing>>
  BY <1>1, <1>5
<1>6. ASSUME NEW c \in Clients, HandlerPushes(c) PROVE HubKnowsConnected'
  BY <1>1, <1>6 DEF HandlerPushes, StartPush
<1>7. ASSUME NEW p \in Procs, EndPush(p) PROVE HubKnowsConnected'
  BY <1>1, <1>7 DEF EndPush, PushesUnderLock
<1> QED
  BY <1>2, <1>3, <1>4, <1>5, <1>6, <1>7 DEF Next, HandlerStep, WriterStep, CloseStep,
     PushStep, ConnectionLost, SetActiveRoom, WriteMessage, WriteFails, PingFails,
     WriterStops, WriterCloses, WriterEnds, Push, BroadcastToRoom, StartPush,
     ActiveRoomDiffers, SendTo, Visit

-----------------------------------------------------------------------------
\* A message stays in a channel until it is the first.
LEMMA StaysInChannel ==
    ASSUME NEW q \in Seq(Message), NEW m, NEW i \in 1..Len(q), q[i] = m
    PROVE  /\ \A n \in Message : \E j \in 1..Len(Append(q, n)) : Append(q, n)[j] = m
           /\ m # Head(q) => \E j \in 1..Len(Tail(q)) : Tail(q)[j] = m
<1>1. ASSUME NEW n \in Message
      PROVE  \E j \in 1..Len(Append(q, n)) : Append(q, n)[j] = m
  <2>1. i \in 1..Len(Append(q, n)) /\ Append(q, n)[i] = m
    BY <1>1
  <2> QED BY <2>1
<1>2. ASSUME m # Head(q) PROVE \E j \in 1..Len(Tail(q)) : Tail(q)[j] = m
  <2>1. i # 1
    BY <1>2
  <2>2. i - 1 \in 1..Len(Tail(q)) /\ Tail(q)[i - 1] = q[i]
    BY <2>1
  <2> QED BY <2>2
<1> QED BY <1>1, <1>2

LEMMA MissesStep == IInv /\ Next => PushMissesNobody'
<1> SUFFICES ASSUME IInv, Next PROVE PushMissesNobody'
  OBVIOUS
<1> USE HubAssumption DEF clientVars
<1> DEFINE Queued(c, m) == \E i \in 1..Len(send[c]) : send[c][i] = m
           QueuedNext(c, m) == \E i \in 1..Len(send'[c]) : send'[c][i] = m
           Offered(c, m) == \E p \in Procs : m = push[p].message /\ c \in push[p].left
           OfferedNext(c, m) == \E p \in Procs : m = push'[p].message /\ c \in push'[p].left
<1>1. \A c \in Clients : closing[c] = "open" =>
          \A m \in owed[c] : Queued(c, m) \/ Offered(c, m)
  BY DEF IInv, PushMissesNobody, Done
<1>2. (\A c \in Clients : closing'[c] = "open" =>
          \A m \in owed'[c] : QueuedNext(c, m) \/ OfferedNext(c, m)) => PushMissesNobody'
  BY DEF PushMissesNobody, Done
<1>3. /\ push \in [Procs -> [locked : BOOLEAN, message : Message \cup {0},
                           left : SUBSET Clients, room : Rooms \cup {NoRoom}]]
      /\ send \in [Clients -> Seq(Message)]
      /\ \A c \in Clients : send[c] \in Seq(Message) /\ owed[c] \subseteq Message
      /\ owed \in [Clients -> SUBSET Message]
      /\ closing \in [Clients -> CloseStages]
  BY DEF IInv, TypeOK, ChannelsOK
<1>domains. DOMAIN send = Clients /\ DOMAIN owed = Clients
  BY <1>3
<1> HIDE DEF Queued, QueuedNext, Offered, OfferedNext
<1>4. ASSUME UNCHANGED <<push, send, owed>>,
             \A c \in Clients : closing'[c] = "open" => closing[c] = "open"
      PROVE  PushMissesNobody'
  BY <1>1, <1>2, <1>4 DEF Queued, QueuedNext, Offered, OfferedNext
<1>5. ASSUME NEW c \in Clients, WriteMessage(c) \/ WriteFails(c) PROVE PushMissesNobody'
  <2>1. /\ UNCHANGED <<push, closing>>
        /\ send' = [send EXCEPT ![c] = Tail(@)]
        /\ owed' = [owed EXCEPT ![c] = @ \ {Head(send[c])}]
    BY <1>5 DEF WriteMessage, WriteFails, WriterCloses
  <2>2. ASSUME NEW d \in Clients, closing[d] = "open", NEW m \in owed'[d]
        PROVE  QueuedNext(d, m) \/ OfferedNext(d, m)
    <3>1. m \in owed[d] /\ (d = c => m # Head(send[c]))
      BY <1>domains, <2>1, <2>2
    <3>2. CASE Offered(d, m)
      BY <2>1, <3>2 DEF Offered, OfferedNext
    <3>3. CASE Queued(d, m)
      <4>1. CASE d = c
        <5>1. \E j \in 1..Len(Tail(send[c])) : Tail(send[c])[j] = m
          <6>1. send[c] \in Seq(Message)
            BY <1>3
          <6>2. PICK i \in 1..Len(send[c]) : send[c][i] = m
            BY <3>3, <4>1 DEF Queued
          <6>3. m # Head(send[c])
            BY <3>1, <4>1
          <6> QED BY <6>1, <6>2, <6>3, StaysInChannel
        <5>2. send'[c] = Tail(send[c])
          BY <1>domains, <2>1
        <5> QED BY <4>1, <5>1, <5>2 DEF QueuedNext
      <4>2. CASE d # c
        <5>1. send'[d] = send[d]
          BY <2>1, <4>2
        <5> QED BY <3>3, <5>1 DEF Queued, QueuedNext
      <4> QED BY <4>1, <4>2
    <3> QED BY <1>1, <2>2, <3>1, <3>2, <3>3
  <2> QED BY <1>2, <2>1, <2>2
<1>6. ASSUME NEW p \in Procs, NEW targets, NEW room, NEW receivers \in SUBSET Clients,
             StartPush(p, targets, room, receivers), receivers \subseteq targets
      PROVE  PushMissesNobody'
  <2>1. /\ UNCHANGED <<send, closing>> /\ ~push[p].locked
        /\ push' = [push EXCEPT ![p] = [locked |-> TRUE, message |-> count + 1,
                                        left |-> targets, room |-> room]]
        /\ owed' = [c \in Clients |-> IF c \in receivers THEN owed[c] \cup {count + 1}
                                      ELSE owed[c]]
    BY <1>6 DEF StartPush
  <2>2. push[p].left = {}
    BY <2>1 DEF IInv, PushesUnderLock
  <2>3. ASSUME NEW d \in Clients, closing[d] = "open", NEW m \in owed'[d]
        PROVE  QueuedNext(d, m) \/ OfferedNext(d, m)
    <3>1. CASE m \in owed[d] /\ Queued(d, m)
      BY <2>1, <3>1 DEF Queued, QueuedNext
    <3>2. CASE m \in owed[d] /\ Offered(d, m)
      BY <1>3, <2>1, <2>2, <3>2 DEF Offered, OfferedNext
    <3>3. CASE m = count + 1 /\ d \in receivers
      <4>1. push'[p].message = count + 1 /\ push'[p].left = targets
        BY <1>3, <2>1
      <4> QED BY <1>6, <3>3, <4>1 DEF OfferedNext
    <3> QED BY <1>1, <2>1, <2>3, <3>1, <3>2, <3>3
  <2> QED BY <1>2, <2>1, <2>3
<1>7. \A c \in Connected : c \in Bucket(UserOf[c])
  BY DEF IInv, TypeOK, HubKnowsConnected, Connected, Done
<1>8. ASSUME NEW p \in Pushers, NEW u \in Users, Push(p, u) PROVE PushMissesNobody'
  BY <1>6, <1>7, <1>8 DEF Push, Procs, Connected
<1>9. ASSUME NEW c \in Clients, HandlerPushes(c) PROVE PushMissesNobody'
  <2>1. {d \in Connected : UserOf[d] = UserOf[c]} \subseteq Bucket(UserOf[c])
    BY <1>7
  <2>2. c \in Procs /\ {d \in Connected : UserOf[d] = UserOf[c]} \in SUBSET Clients
    BY DEF Procs, Connected
  <2> QED BY <1>6, <1>9, <2>1, <2>2 DEF HandlerPushes
<1>10. ASSUME NEW p \in Pushers, NEW room \in Rooms, BroadcastToRoom(p, room)
       PROVE  PushMissesNobody'
  <2>1. {c \in Connected : activeRoom[c] = room} \subseteq UNION {clients[u] : u \in DOMAIN clients}
    BY <1>7 DEF Bucket
  <2>2. p \in Procs /\ {c \in Connected : activeRoom[c] = room} \in SUBSET Clients
    BY DEF Procs, Connected
  <2> QED BY <1>6, <1>10, <2>1, <2>2 DEF BroadcastToRoom
<1>11. ASSUME NEW p \in Procs, NEW c \in Clients, ActiveRoomDiffers(p, c) \/ SendTo(p, c)
       PROVE  PushMissesNobody'
  <2> DEFINE n == push[p].message
  <2>1. /\ UNCHANGED closing /\ c \in push[p].left
        /\ push' = [push EXCEPT ![p].left = @ \ {c}]
        /\ \/ UNCHANGED send /\ owed' = [owed EXCEPT ![c] = @ \ {n}]
           \/ send' = [send EXCEPT ![c] = Append(@, n)] /\ UNCHANGED owed
    BY <1>11 DEF ActiveRoomDiffers, SendTo, Send, Visit
  <2>2. n \in Message
    BY <2>1 DEF IInv, PushesUnderLock
  <2>3. ASSUME NEW d \in Clients, NEW m, Offered(d, m), d # c \/ m # n
        PROVE  OfferedNext(d, m)
    <3>1. PICK q \in Procs : m = push[q].message /\ d \in push[q].left
      BY <2>3 DEF Offered
    <3>2. push'[q].message = push[q].message /\ d \in push'[q].left
      BY <1>3, <2>1, <2>3, <3>1
    <3> QED BY <3>1, <3>2 DEF OfferedNext
  <2>4. ASSUME NEW d \in Clients, NEW m, Queued(d, m) PROVE QueuedNext(d, m)
    <3>1. CASE send'[d] = send[d]
      BY <2>4, <3>1 DEF Queued, QueuedNext
    <3>2. CASE send'[d] = Append(send[d], n)
      BY <1>3, <2>2, <2>4, <3>2, StaysInChannel DEF Queued, QueuedNext
    <3>3. send'[d] = send[d] \/ send'[d] = Append(send[d], n)
      BY <1>domains, <2>1
    <3> QED BY <3>1, <3>2, <3>3
  <2>5. ASSUME NEW d \in Clients, closing[d] = "open", NEW m \in owed'[d]
        PROVE  QueuedNext(d, m) \/ OfferedNext(d, m)
    <3>1. m \in owed[d]
      BY <1>domains, <2>1, <2>5
    <3>2. CASE d # c \/ m # n
      BY <1>1, <2>3, <2>4, <2>5, <3>1, <3>2
    <3>3. CASE d = c /\ m = n
      <4>1. send' = [send EXCEPT ![c] = Append(@, n)]
        BY <1>3, <2>1, <2>5, <3>3
      <4>2. send'[c] = Append(send[c], n) /\ send[c] \in Seq(Message)
        BY <1>3, <1>domains, <4>1
      <4>3. Len(send'[c]) \in 1..Len(send'[c]) /\ send'[c][Len(send'[c])] = n
        BY <2>2, <4>2
      <4> QED BY <3>3, <4>3 DEF QueuedNext
    <3> QED BY <3>2, <3>3
  <2> QED BY <1>2, <2>1, <2>5
<1>12. ASSUME NEW p \in Procs, EndPush(p) PROVE PushMissesNobody'
  <2>1. /\ UNCHANGED <<send, owed, closing>> /\ push[p].left = {}
        /\ \A q \in Procs \ {p} : push'[q] = push[q]
    BY <1>3, <1>12 DEF EndPush
  <2>2. ASSUME NEW d \in Clients, NEW m, Offered(d, m) PROVE OfferedNext(d, m)
    BY <2>1, <2>2 DEF Offered, OfferedNext
  <2> QED BY <1>1, <1>2, <2>1, <2>2 DEF Queued, QueuedNext
<1>13. ASSUME NEW c \in Clients, CloseStep(c) PROVE PushMissesNobody'
  BY <1>3, <1>4, <1>13 DEF CloseStep, Cancel, Unregister, CloseConn
<1> QED
  BY <1>4, <1>5, <1>8, <1>9, <1>10, <1>11, <1>12, <1>13 DEF Next, HandlerStep, WriterStep,
     PushStep, Upgrade, ConnectionLost, ReadRefused, ReadFails, ReaderCloses, SetActiveRoom,
     Register, StartPumps, HandlerReturns, PingFails, WriterStops, WriterCloses, WriterEnds

-----------------------------------------------------------------------------
LEMMA NextIInv == IInv /\ [Next]_vars => IInv'
<1>1. IInv /\ Next => IInv'
  BY TypeStep, OrderStep, ConnectedStep, MissesStep DEF IInv
<1>2. IInv /\ UNCHANGED vars => IInv'
  BY DEF vars, clientVars, IInv, TypeOK, ChannelsOK, HubKnowsConnected, Bucket,
     PushMissesNobody, Done, PumpsAfterRegister, PushesUnderLock
<1> QED BY <1>1, <1>2

LEMMA SpecIInv == Spec => []IInv
  BY InitIInv, NextIInv, PTL DEF Spec

(* The map of buckets, the channels within their capacity, and the pushes   *)
(* keep their types; no user has an empty bucket.                           *)
THEOREM HubTypes == Spec => []TypeOK
  BY SpecIInv, PTL DEF IInv

(* The hub holds the clients that are registered and not yet taken out by   *)
(* Close, each under its own user, and no other.                            *)
THEOREM HubIsExact == Spec => []HubKnowsConnected
  BY SpecIInv, PTL DEF IInv

(* A message pushed while a client is connected is lost only to a full      *)
(* channel or with the connection.                                          *)
THEOREM PushesReachAll == Spec => []PushMissesNobody
  BY SpecIInv, PTL DEF IInv
=============================================================================
