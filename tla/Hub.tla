-------------------------------- MODULE Hub --------------------------------
(***************************************************************************)
(* The websocket hub: src/internal/ws/hub.go, src/internal/ws/client.go and *)
(* HandleWS of src/internal/handlers/ws.go.  Each connection has two        *)
(* goroutines, the handler, which registers the client and reads, and the   *)
(* writer; both end by calling Close, which runs once and which the other   *)
(* waits for.  Pushers hold the hub's read lock while they visit clients    *)
(* one by one; Register and Unregister need it to themselves.               *)
(*                                                                         *)
(* A client is one connection and connects once.  Of the requests of a      *)
(* browser two are kept: SUBSCRIBE_ROOM, and SAS_CANCEL, in which the       *)
(* handler itself pushes.  Messages are numbered as they are pushed.         *)
(***************************************************************************)
EXTENDS Integers, Sequences, FiniteSets

CONSTANTS
    Clients,
    Users,
    UserOf,      \* the user of each client
    Rooms,
    NoRoom,      \* no room, and in a push, whatever the room
    Pushers,     \* goroutines that push or broadcast, besides the handlers
    SendCap,     \* capacity of a client's send channel
    MaxPushes    \* bound: messages pushed

Procs == Pushers \cup Clients
Message == 1..MaxPushes

ASSUME HubAssumption ==
    /\ UserOf \in [Clients -> Users]
    /\ NoRoom \notin Rooms
    /\ SendCap \in Nat
    /\ MaxPushes \in Nat
    /\ Pushers \cap Clients = {}

VARIABLES
    clients,     \* Hub.clients: the bucket of each user that has one
    push,        \* of each goroutine, the message it pushes, and the clients left
    count,       \* messages pushed
    handler,     \* HandleWS and its ReadPump, of each client
    writer,      \* WritePump
    closing,     \* how far Close has got: "open" until it is called
    conn,        \* the connection
    activeRoom,
    send,        \* the send channel
    owed         \* history: messages neither written to nor dropped for a client

clientVars == <<handler, writer, closing, conn, activeRoom, send>>
vars == <<clients, push, count, clientVars, owed>>

NoPush == [locked |-> FALSE, message |-> 0, left |-> {}, room |-> NoRoom]

HandlerStages == {"idle", "upgraded", "registered", "reading", "pushing", "closing", "returned"}
WriterStages == {"none", "waiting", "closing", "ended"}
CloseStages == {"open", "cancelled", "unregistered", "closed"}
ConnStates == {"none", "up", "lost", "shut"}

Init ==
    /\ clients = [u \in {} |-> {}]
    /\ push = [p \in Procs |-> NoPush]
    /\ count = 0
    /\ handler = [c \in Clients |-> "idle"]
    /\ writer = [c \in Clients |-> "none"]
    /\ closing = [c \in Clients |-> "open"]
    /\ conn = [c \in Clients |-> "none"]
    /\ activeRoom = [c \in Clients |-> NoRoom]
    /\ send = [c \in Clients |-> <<>>]
    /\ owed = [c \in Clients |-> {}]

Bucket(u) == IF u \in DOMAIN clients THEN clients[u] ELSE {}

WithBucket(u, bucket) ==
    [v \in DOMAIN clients \cup {u} |-> IF v = u THEN bucket ELSE clients[v]]

\* No goroutine holds the read lock.
Unlocked == \A p \in Procs : ~push[p].locked

\* The client's context is cancelled.
Done(c) == closing[c] # "open"

\* HandleWS has registered the client, and Close has not been called.
Connected == {c \in Clients : handler[c] \in {"registered", "reading", "pushing"} /\ ~Done(c)}

-----------------------------------------------------------------------------
(* HandleWS: the connection is upgraded, the client registered, and only    *)
(* then its pumps start.                                                    *)

Upgrade(c) ==
    /\ handler[c] = "idle"
    /\ handler' = [handler EXCEPT ![c] = "upgraded"]
    /\ conn' = [conn EXCEPT ![c] = "up"]
    /\ UNCHANGED <<clients, push, count, writer, closing, activeRoom, send, owed>>

\* Bug: the bucket is made anew for each client.
AddedAlone(c) == WithBucket(UserOf[c], {c})

Added(c) == WithBucket(UserOf[c], Bucket(UserOf[c]) \cup {c})

Register(c) ==
    /\ handler[c] = "upgraded"
    /\ Unlocked
    /\ clients' = Added(c)
    /\ handler' = [handler EXCEPT ![c] = "registered"]
    /\ UNCHANGED <<push, count, writer, closing, conn, activeRoom, send, owed>>

StartPumps(c) ==
    /\ handler[c] = "registered"
    /\ handler' = [handler EXCEPT ![c] = "reading"]
    /\ writer' = [writer EXCEPT ![c] = "waiting"]
    /\ UNCHANGED <<clients, push, count, closing, conn, activeRoom, send, owed>>

-----------------------------------------------------------------------------
(* The pumps.  A connection that is lost shows at the next read, when the   *)
(* deadline for a pong has passed, and at a later write or ping.            *)

ConnectionLost(c) ==
    /\ conn[c] = "up"
    /\ conn' = [conn EXCEPT ![c] = "lost"]
    /\ UNCHANGED <<clients, push, count, handler, writer, closing, activeRoom, send, owed>>

SetActiveRoom(c, room) ==
    /\ handler[c] = "reading"
    /\ conn[c] = "up"
    /\ activeRoom' = [activeRoom EXCEPT ![c] = room]
    /\ UNCHANGED <<clients, push, count, handler, writer, closing, conn, send, owed>>

ReaderCloses(c) ==
    /\ handler[c] = "reading"
    /\ handler' = [handler EXCEPT ![c] = "closing"]
    /\ UNCHANGED <<clients, push, count, writer, closing, conn, activeRoom, send, owed>>

ReadFails(c) ==
    /\ conn[c] # "up"
    /\ ReaderCloses(c)

\* The browser says goodbye, or sends a frame that is malformed or too long.
ReadRefused(c) ==
    /\ conn[c] = "up"
    /\ ReaderCloses(c)

WriteMessage(c) ==
    /\ writer[c] = "waiting"
    /\ send[c] # <<>>
    /\ conn[c] # "shut"
    /\ send' = [send EXCEPT ![c] = Tail(@)]
    /\ owed' = [owed EXCEPT ![c] = @ \ {Head(send[c])}]
    /\ UNCHANGED <<clients, push, count, handler, writer, closing, conn, activeRoom>>

WriterCloses(c) ==
    /\ writer[c] = "waiting"
    /\ writer' = [writer EXCEPT ![c] = "closing"]
    /\ UNCHANGED <<clients, push, count, handler, closing, conn, activeRoom>>

\* A write fails on a lost connection, and on one too slow for the deadline.
WriteFails(c) ==
    /\ WriterCloses(c)
    /\ send[c] # <<>>
    /\ send' = [send EXCEPT ![c] = Tail(@)]
    /\ owed' = [owed EXCEPT ![c] = @ \ {Head(send[c])}]

PingFails(c) ==
    /\ WriterCloses(c)
    /\ UNCHANGED <<send, owed>>

WriterStops(c) ==
    /\ WriterCloses(c)
    /\ Done(c)
    /\ UNCHANGED <<send, owed>>

-----------------------------------------------------------------------------
(* Close runs once, in whichever pump gets there first: it cancels the      *)
(* context, unregisters the client, and closes the connection, which ends   *)
(* the read of a handler that is still reading.                             *)

Closing(c) == handler[c] = "closing" \/ writer[c] = "closing"

Cancel(c) ==
    /\ Closing(c)
    /\ closing[c] = "open"
    /\ closing' = [closing EXCEPT ![c] = "cancelled"]
    /\ UNCHANGED <<clients, push, count, handler, writer, conn, activeRoom, send, owed>>

\* Bug: the bucket of a user stays when the last client leaves.
RemovedAlways(c) == WithBucket(UserOf[c], Bucket(UserOf[c]) \ {c})

Removed(c) ==
    LET rest == Bucket(UserOf[c]) \ {c}
    IN  IF c \notin Bucket(UserOf[c]) THEN clients
        ELSE IF rest = {} THEN [u \in DOMAIN clients \ {UserOf[c]} |-> clients[u]]
        ELSE WithBucket(UserOf[c], rest)

Unregister(c) ==
    /\ closing[c] = "cancelled"
    /\ Unlocked
    /\ clients' = Removed(c)
    /\ closing' = [closing EXCEPT ![c] = "unregistered"]
    /\ UNCHANGED <<push, count, handler, writer, conn, activeRoom, send, owed>>

\* Bug: Close leaves the connection to the pumps.
ConnLeftOpen(c) ==
    /\ closing[c] = "unregistered"
    /\ closing' = [closing EXCEPT ![c] = "closed"]
    /\ UNCHANGED <<clients, push, count, handler, writer, conn, activeRoom, send, owed>>

CloseConn(c) ==
    /\ closing[c] = "unregistered"
    /\ closing' = [closing EXCEPT ![c] = "closed"]
    /\ conn' = [conn EXCEPT ![c] = "shut"]
    /\ UNCHANGED <<clients, push, count, handler, writer, activeRoom, send, owed>>

HandlerReturns(c) ==
    /\ handler[c] = "closing"
    /\ closing[c] = "closed"
    /\ handler' = [handler EXCEPT ![c] = "returned"]
    /\ UNCHANGED <<clients, push, count, writer, closing, conn, activeRoom, send, owed>>

WriterEnds(c) ==
    /\ writer[c] = "closing"
    /\ closing[c] = "closed"
    /\ writer' = [writer EXCEPT ![c] = "ended"]
    /\ UNCHANGED <<clients, push, count, handler, closing, conn, activeRoom, send, owed>>

-----------------------------------------------------------------------------
(* Push and BroadcastToRoom, under the read lock.  A message is owed to the *)
(* clients that are connected when the lock is taken.                       *)

StartPush(p, targets, room, receivers) ==
    /\ ~push[p].locked
    /\ count < MaxPushes
    /\ count' = count + 1
    /\ push' = [push EXCEPT ![p] = [locked |-> TRUE, message |-> count + 1,
                                    left |-> targets, room |-> room]]
    /\ owed' = [c \in Clients |-> IF c \in receivers THEN owed[c] \cup {count + 1}
                                  ELSE owed[c]]
    /\ UNCHANGED <<clients, writer, closing, conn, activeRoom, send>>

Push(p, u) ==
    /\ StartPush(p, Bucket(u), NoRoom, {c \in Connected : UserOf[c] = u})
    /\ UNCHANGED handler

\* SAS_CANCEL: the handler pushes to its own user.
HandlerPushes(c) ==
    /\ handler[c] = "reading"
    /\ conn[c] = "up"
    /\ StartPush(c, Bucket(UserOf[c]), NoRoom, {d \in Connected : UserOf[d] = UserOf[c]})
    /\ handler' = [handler EXCEPT ![c] = "pushing"]

BroadcastToRoom(p, room) ==
    /\ StartPush(p, UNION {clients[u] : u \in DOMAIN clients}, room,
                 {c \in Connected : activeRoom[c] = room})
    /\ UNCHANGED handler

Visit(p, c) ==
    /\ c \in push[p].left
    /\ push' = [push EXCEPT ![p].left = @ \ {c}]
    /\ UNCHANGED <<clients, count, handler, writer, closing, conn, activeRoom>>

ActiveRoomDiffers(p, c) ==
    /\ push[p].room \notin {NoRoom, activeRoom[c]}
    /\ Visit(p, c)
    /\ owed' = [owed EXCEPT ![c] = @ \ {push[p].message}]
    /\ UNCHANGED send

\* Bug: the select has no default: a full channel is waited for.
SendBlocks(p, c) ==
    /\ Len(send[c]) < SendCap
    /\ send' = [send EXCEPT ![c] = Append(@, push[p].message)]
    /\ UNCHANGED owed

\* When the context is done and the channel is not full, select takes either.
Send(p, c) ==
    \/ /\ Len(send[c]) < SendCap
       /\ send' = [send EXCEPT ![c] = Append(@, push[p].message)]
       /\ UNCHANGED owed
    \/ /\ Len(send[c]) >= SendCap \/ Done(c)
       /\ owed' = [owed EXCEPT ![c] = @ \ {push[p].message}]
       /\ UNCHANGED send

SendTo(p, c) ==
    /\ push[p].room \in {NoRoom, activeRoom[c]}
    /\ Visit(p, c)
    /\ Send(p, c)

EndPush(p) ==
    /\ push[p].locked
    /\ push[p].left = {}
    /\ push' = [push EXCEPT ![p] = NoPush]
    /\ handler' = IF p \in Clients THEN [handler EXCEPT ![p] = "reading"] ELSE handler
    /\ UNCHANGED <<clients, count, writer, closing, conn, activeRoom, send, owed>>

-----------------------------------------------------------------------------
HandlerStep(c) ==
    \/ Register(c) \/ StartPumps(c) \/ ReadFails(c) \/ HandlerReturns(c)

WriterStep(c) ==
    \/ WriteMessage(c) \/ WriteFails(c) \/ PingFails(c) \/ WriterStops(c) \/ WriterEnds(c)

\* What the writer is bound to do: a slow connection may get its messages yet.
WriterRuns(c) ==
    \/ WriteMessage(c) \/ WriterStops(c) \/ WriterEnds(c)
    \/ conn[c] # "up" /\ (WriteFails(c) \/ PingFails(c))

CloseStep(c) == Cancel(c) \/ Unregister(c) \/ CloseConn(c)

PushStep(p) ==
    \/ \E c \in Clients : ActiveRoomDiffers(p, c) \/ SendTo(p, c)
    \/ EndPush(p)

Next ==
    \/ \E c \in Clients :
           \/ Upgrade(c) \/ ConnectionLost(c) \/ ReadRefused(c) \/ HandlerPushes(c)
           \/ \E room \in Rooms \cup {NoRoom} : SetActiveRoom(c, room)
           \/ HandlerStep(c) \/ WriterStep(c) \/ CloseStep(c)
    \/ \E p \in Pushers :
           \/ \E u \in Users : Push(p, u)
           \/ \E room \in Rooms : BroadcastToRoom(p, room)
    \/ \E p \in Procs : PushStep(p)

\* Goroutines are scheduled, and reads and writes have deadlines.  Fairness is
\* strong for Register and Unregister, the only steps of their goroutines that
\* another can disable: a writer that waits for a Go RWMutex gets it before
\* the readers that come later.
Fairness ==
    /\ \A c \in Clients :
           SF_vars(HandlerStep(c)) /\ WF_vars(WriterRuns(c)) /\ SF_vars(CloseStep(c))
    /\ \A p \in Procs : WF_vars(PushStep(p))

Spec == Init /\ [][Next]_vars
FairSpec == Spec /\ Fairness

-----------------------------------------------------------------------------
ChannelsOK ==
    /\ send \in [Clients -> Seq(Message)]
    /\ \A c \in Clients : Len(send[c]) <= SendCap

(* In particular, a user with no client has no bucket: the map does not     *)
(* grow with users that have come and gone.                                 *)
TypeOK ==
    /\ DOMAIN clients \subseteq Users
    /\ \A u \in DOMAIN clients : clients[u] \in (SUBSET Clients) \ {{}}
    /\ push \in [Procs -> [locked : BOOLEAN, message : Message \cup {0},
                           left : SUBSET Clients, room : Rooms \cup {NoRoom}]]
    /\ count \in 0..MaxPushes
    /\ handler \in [Clients -> HandlerStages]
    /\ writer \in [Clients -> WriterStages]
    /\ closing \in [Clients -> CloseStages]
    /\ conn \in [Clients -> ConnStates]
    /\ activeRoom \in [Clients -> Rooms \cup {NoRoom}]
    /\ ChannelsOK
    /\ owed \in [Clients -> SUBSET Message]

(* The hub knows the clients whose handler has registered them and which    *)
(* Close has not taken out, each under its own user, and no other: no       *)
(* client is left in it once its pumps have ended, and none is forgotten.   *)
HubKnowsConnected ==
    \A c \in Clients, u \in Users :
        c \in Bucket(u) <=>
            /\ u = UserOf[c]
            /\ handler[c] \notin {"idle", "upgraded"}
            /\ closing[c] \in {"open", "cancelled"}

(* A message owed to a client that is open is in its channel or will be     *)
(* offered to it by the push under way: it can only be lost to a full       *)
(* channel or with the connection.                                          *)
PushMissesNobody ==
    \A c \in Clients : ~Done(c) =>
        \A m \in owed[c] :
            \/ \E i \in 1..Len(send[c]) : send[c][i] = m
            \/ \E p \in Procs : m = push[p].message /\ c \in push[p].left

(* Push and BroadcastToRoom return, so that the lock becomes free, whatever *)
(* becomes of the clients they visit.                                       *)
PushReturns == \A p \in Procs : push[p].locked ~> ~push[p].locked

(* Once a connection is lost, or one of its pumps has failed, both pumps    *)
(* end, and the hub forgets the client.                                     *)
LostClientsLeave ==
    \A c \in Clients :
        conn[c] = "lost" \/ Closing(c) ~>
            handler[c] = "returned" /\ writer[c] = "ended" /\ c \notin Bucket(UserOf[c])
=============================================================================
