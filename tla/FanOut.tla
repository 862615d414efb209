------------------------------- MODULE FanOut -------------------------------
(***************************************************************************)
(* From the sync loop to the message trees: the handlers of                 *)
(* src/internal/matrix/session.go that give every event to every listener,  *)
(* GetMessageTree and ChatService.GetRoomMessageTree, by which requests     *)
(* make the tree of a room and start it, and MatrixSession.Close.           *)
(*                                                                         *)
(* The sync goroutine blocks on a listener whose channel is full.  A tree   *)
(* is made without a lock; it is started inside Compute, which is one.      *)
(***************************************************************************)
EXTENDS Integers, Sequences, FiniteSets

CONSTANTS
    Rooms, Trees,
    Callers,     \* bound: requests at one time
    Nobody,
    Cap,         \* capacity of a listener's channel (16)
    MaxEvents    \* bound: events of the timeline

ASSUME FanOutAssumption ==
    /\ Cap \in Nat \ {0}
    /\ MaxEvents \in Nat
    /\ Nobody \notin Rooms \cup Trees \cup Callers

VARIABLES
    log,             \* the room of each event the sync loop has read
    sync,            \* the handler
    must, seen, to,  \* the listeners it has to visit, has visited, is sending to
    messageTrees,    \* MatrixSession.messageTrees
    room,            \* a tree's room
    listening,       \* MessageTree.listening
    listener,        \* the channel the session has of it
    receiver,        \* its goroutine
    events,          \* what is in the channel of a tree's listener
    received,        \* history: the events a tree has taken from it
    since,           \* history: the events read before its listener was stored
    stage,           \* how far a request has come
    wanted, found,   \* the room it is for, and the tree it has got
    computing,       \* who holds initializedTree's entry of a room
    initializedTree,
    closing,         \* MatrixSession.Close
    raced,           \* history: the rooms whose tree was replaced by another
    fault            \* what ended the program

vars == <<log, sync, must, seen, to, messageTrees, room, listening, listener, receiver,
          events, received, since, stage, wanted, found, computing, initializedTree,
          closing, raced, fault>>

syncVars == <<log, sync, must, seen, to>>
tree == <<room, listening, listener, receiver>>
flow == <<events, received, since>>
caller == <<stage, wanted, found>>
shared == <<computing, initializedTree, messageTrees, raced>>
service == <<caller, shared>>

Init ==
    /\ log = <<>>
    /\ sync = "idle" /\ must = {} /\ seen = {} /\ to = Nobody
    /\ messageTrees = [r \in Rooms |-> Nobody]
    /\ room = [t \in Trees |-> Nobody]
    /\ listening = [t \in Trees |-> FALSE]
    /\ listener = [t \in Trees |-> "none"]
    /\ receiver = [t \in Trees |-> "none"]
    /\ events = [t \in Trees |-> <<>>]
    /\ received = [t \in Trees |-> <<>>]
    /\ since = [t \in Trees |-> 0]
    /\ stage = [c \in Callers |-> "idle"]
    /\ wanted = [c \in Callers |-> Nobody]
    /\ found = [c \in Callers |-> Nobody]
    /\ computing = [r \in Rooms |-> Nobody]
    /\ initializedTree = {}
    /\ closing = "no"
    /\ raced = {}
    /\ fault = "none"

Cancelled == closing # "no"
MappedTrees == {messageTrees[r] : r \in Rooms} \ {Nobody}
Listeners == {t \in Trees : listener[t] = "open"}

-----------------------------------------------------------------------------
(* The sync goroutine.  Range visits every listener that stays, and may or  *)
(* may not visit one that is stored or deleted meanwhile.                   *)

Sync(r) ==
    /\ sync = "idle"
    /\ Len(log) < MaxEvents
    /\ log' = Append(log, r)
    /\ sync' = "ranging"
    /\ must' = Listeners
    /\ UNCHANGED <<seen, to, tree, flow, service, closing, fault>>

Visit(t) ==
    /\ sync = "ranging"
    /\ t \in Listeners \ seen
    /\ sync' = "sending"
    /\ seen' = seen \cup {t}
    /\ to' = t
    /\ UNCHANGED <<log, must, tree, flow, service, closing, fault>>

Sending(t) ==
    /\ sync = "sending"
    /\ to = t
    /\ sync' = "ranging"
    /\ to' = Nobody
    /\ UNCHANGED <<log, must, seen, tree, received, since, service, closing>>

\* Bug: a full channel is skipped.
SendOrSkip(t) ==
    /\ Sending(t)
    /\ IF listener[t] = "open"
       THEN /\ events' = [events EXCEPT ![t] = IF Len(@) < Cap THEN Append(@, Len(log)) ELSE @]
            /\ UNCHANGED fault
       ELSE fault' = "send on closed channel" /\ UNCHANGED events

\* Bug: the channel grows.
SendUnbounded(t) ==
    /\ Sending(t)
    /\ events' = [events EXCEPT ![t] = Append(@, Len(log))]
    /\ UNCHANGED fault

Send(t) ==
    /\ Sending(t)
    /\ IF listener[t] = "open"
       THEN /\ Len(events[t]) < Cap
            /\ events' = [events EXCEPT ![t] = Append(@, Len(log))]
            /\ UNCHANGED fault
       ELSE fault' = "send on closed channel" /\ UNCHANGED events

EndRange ==
    /\ sync = "ranging"
    /\ must \cap Listeners \subseteq seen
    /\ sync' = "idle"
    /\ must' = {} /\ seen' = {}
    /\ UNCHANGED <<log, to, tree, flow, service, closing, fault>>

-----------------------------------------------------------------------------
(* The receiver of a tree takes every event and keeps those of its room.    *)

Receive(t) ==
    /\ receiver[t] = "running"
    /\ events[t] # <<>>
    /\ events' = [events EXCEPT ![t] = Tail(@)]
    /\ received' = [received EXCEPT ![t] = Append(@, Head(events[t]))]
    /\ UNCHANGED <<syncVars, tree, since, service, closing, fault>>

EndReceiver(t) ==
    /\ receiver[t] = "running"
    /\ receiver' = [receiver EXCEPT ![t] = "ended"]
    /\ UNCHANGED <<syncVars, room, listening, listener, flow, service, closing, fault>>

\* Bug: the receiver has the context of the request that started it.
ReceiverEndsWithRequest(t) ==
    /\ \A c \in Callers : found[c] # t
    /\ EndReceiver(t)

ReceiverEnds(t) ==
    /\ Cancelled \/ (listener[t] = "closed" /\ events[t] = <<>>)
    /\ EndReceiver(t)

-----------------------------------------------------------------------------
(* GetRoomMessageTree, of a request c for a room.                           *)

At(c, s) == stage[c] = s
Go(c, s) == stage' = [stage EXCEPT ![c] = s] /\ UNCHANGED wanted

\* Auth turns away the requests that come after a logout has begun.
Auth(c, r) ==
    /\ At(c, "idle")
    /\ ~Cancelled
    /\ stage' = [stage EXCEPT ![c] = "asked"]
    /\ wanted' = [wanted EXCEPT ![c] = r]
    /\ UNCHANGED <<syncVars, tree, flow, found, shared, closing, fault>>

GetMessageTree(c) ==
    LET t == messageTrees[wanted[c]] IN
    /\ At(c, "asked")
    /\ Go(c, IF t = Nobody THEN "asking" ELSE "found")
    /\ found' = [found EXCEPT ![c] = t]
    /\ UNCHANGED <<syncVars, tree, flow, shared, closing, fault>>

\* The homeserver has said whether the room is encrypted, or has failed.
MakeTree(c, t) ==
    LET r == wanted[c] IN
    /\ At(c, "asking")
    /\ room[t] = Nobody
    /\ room' = [room EXCEPT ![t] = r]
    /\ raced' = IF messageTrees[r] # Nobody THEN raced \cup {r} ELSE raced
    /\ messageTrees' = [messageTrees EXCEPT ![r] = t]
    /\ Go(c, "found")
    /\ found' = [found EXCEPT ![c] = t]
    /\ UNCHANGED <<syncVars, listening, listener, receiver, flow, computing, initializedTree,
                   closing, fault>>

EnterCompute(c) ==
    LET r == wanted[c] IN
    /\ IF r \in initializedTree
       THEN Go(c, "shown") /\ UNCHANGED computing
       ELSE Go(c, "initializing") /\ computing' = [computing EXCEPT ![r] = c]
    /\ UNCHANGED <<syncVars, tree, flow, found, messageTrees, raced, closing, fault>>

\* Bug: Load and Store in place of Compute: nobody waits for the first caller.
ComputeUnlocked(c) ==
    /\ At(c, "found")
    /\ EnterCompute(c)
    /\ UNCHANGED initializedTree

\* Bug: the entry is there before its function has run.
ComputeStoresFirst(c) ==
    /\ At(c, "found")
    /\ EnterCompute(c)
    /\ initializedTree' = initializedTree \cup {wanted[c]}

Compute(c) ==
    /\ At(c, "found")
    /\ computing[wanted[c]] = Nobody
    /\ EnterCompute(c)
    /\ UNCHANGED initializedTree

\* Initialize loads a page of history; then Listen sets the flag.
Listen(c) ==
    /\ At(c, "initializing")
    /\ listening' = [listening EXCEPT ![found[c]] = TRUE]
    /\ Go(c, "flagged")
    /\ UNCHANGED <<syncVars, room, listener, receiver, flow, found, shared, closing, fault>>

\* The channel to the callback, and the context.
MakeChannel(c) ==
    /\ At(c, "flagged")
    /\ Go(c, "ready")
    /\ UNCHANGED <<syncVars, tree, flow, found, shared, closing, fault>>

listenEvents(c) ==
    LET t == found[c] IN
    /\ At(c, "ready")
    /\ listener' = [listener EXCEPT ![t] = "open"]
    /\ since' = [since EXCEPT ![t] = Len(log)]
    /\ Go(c, "registered")
    /\ UNCHANGED <<syncVars, room, listening, receiver, events, received, found, shared,
                   closing, fault>>

StartReceiver(c) ==
    /\ At(c, "registered")
    /\ receiver' = [receiver EXCEPT ![found[c]] = "running"]
    /\ Go(c, "shown")
    /\ computing' = [computing EXCEPT ![wanted[c]] = Nobody]
    /\ initializedTree' = initializedTree \cup {wanted[c]}
    /\ UNCHANGED <<syncVars, room, listening, listener, flow, found, messageTrees, raced,
                   closing, fault>>

Answer(c) ==
    /\ At(c, "shown")
    /\ stage' = [stage EXCEPT ![c] = "idle"]
    /\ wanted' = [wanted EXCEPT ![c] = Nobody]
    /\ found' = [found EXCEPT ![c] = Nobody]
    /\ UNCHANGED <<syncVars, tree, flow, shared, closing, fault>>

-----------------------------------------------------------------------------
(* MatrixSession.Close, of the one logout or shutdown that took the session *)
(* out of the manager: cancel, each tree's Close, then the listeners left.  *)
(* The manager's context, under which the trees listen, is cancelled with   *)
(* it.                                                                      *)

Close ==
    /\ closing = "no"
    /\ closing' = "trees"
    /\ UNCHANGED <<syncVars, tree, flow, service, fault>>

\* The Close of one tree waits for its receiver before that of the next begins.
Waited == \A t \in MappedTrees : receiver[t] = "running" => listening[t]

CloseTree(t) ==
    /\ closing = "trees"
    /\ Waited
    /\ t \in MappedTrees
    /\ listening[t]
    /\ listening' = [listening EXCEPT ![t] = FALSE]
    /\ listener' = IF receiver[t] # "none" THEN [listener EXCEPT ![t] = "closed"] ELSE listener
    /\ fault' = IF \E c \in Callers : At(c, "flagged") /\ found[c] = t
                THEN "close of nil channel" ELSE fault
    /\ UNCHANGED <<syncVars, room, receiver, flow, service, closing>>

CloseListeners ==
    /\ closing = "trees"
    /\ Waited
    /\ \A t \in MappedTrees : ~listening[t]
    /\ closing' = "done"
    /\ listener' = [t \in Trees |-> IF t \in Listeners THEN "closed" ELSE listener[t]]
    /\ UNCHANGED <<syncVars, room, listening, receiver, flow, service, fault>>

-----------------------------------------------------------------------------
ReceiverStep(t) == Receive(t) \/ ReceiverEnds(t)

CallerStep(c) ==
    \/ \E r \in Rooms : Auth(c, r)
    \/ GetMessageTree(c)
    \/ \E t \in Trees : MakeTree(c, t)
    \/ Compute(c) \/ Listen(c) \/ MakeChannel(c) \/ listenEvents(c) \/ StartReceiver(c)
    \/ Answer(c)

Next ==
    /\ fault = "none"
    /\ \/ \E r \in Rooms : Sync(r)
       \/ \E t \in Trees : Visit(t) \/ Send(t) \/ Receive(t) \/ ReceiverEnds(t)
       \/ EndRange
       \/ \E c \in Callers : CallerStep(c)
       \/ Close \/ CloseListeners \/ \E t \in Trees : CloseTree(t)

Spec == Init /\ [][Next]_vars

-----------------------------------------------------------------------------
Stages ==
    {"idle", "asked", "asking", "found", "initializing", "flagged", "ready", "registered", "shown"}

(* In particular a listener's channel is never over its capacity.           *)
TypeOK ==
    /\ log \in Seq(Rooms) /\ Len(log) <= MaxEvents
    /\ sync \in {"idle", "ranging", "sending"}
    /\ must \subseteq Trees /\ seen \subseteq Trees /\ to \in Trees \cup {Nobody}
    /\ messageTrees \in [Rooms -> Trees \cup {Nobody}]
    /\ room \in [Trees -> Rooms \cup {Nobody}]
    /\ listening \in [Trees -> BOOLEAN]
    /\ listener \in [Trees -> {"none", "open", "closed"}]
    /\ receiver \in [Trees -> {"none", "running", "ended"}]
    /\ events \in [Trees -> Seq(1..MaxEvents)]
    /\ \A t \in Trees : Len(events[t]) <= Cap
    /\ received \in [Trees -> Seq(1..MaxEvents)]
    /\ since \in [Trees -> 0..MaxEvents]
    /\ stage \in [Callers -> Stages]
    /\ wanted \in [Callers -> Rooms \cup {Nobody}]
    /\ found \in [Callers -> Trees \cup {Nobody}]
    /\ computing \in [Rooms -> Callers \cup {Nobody}]
    /\ initializedTree \subseteq Rooms
    /\ closing \in {"no", "trees", "done"}
    /\ raced \subseteq Rooms
    /\ fault \in {"none", "send on closed channel", "close of nil channel"}

(* Of the trees that two requests may have made for one room, at most one   *)
(* ever listens to the session: the page is told of each event once.        *)
OneListenerPerRoom ==
    \A s, t \in Listeners : room[s] = room[t] => s = t

(* The tree a request shows is the one that listens, whatever requests for  *)
(* the room ran beside it, unless two of them have made a tree at once: one *)
(* of the two then listens, and the other is shown from then on.            *)
ShownIsListened ==
    \A c \in Callers :
        At(c, "shown") /\ wanted[c] \notin raced /\ ~Cancelled
            => receiver[found[c]] = "running"

Got(t) == received[t] \o events[t]

\* The last event that a listener has been sent, or is taken to know.
Latest(t) == IF Got(t) = <<>> THEN since[t] ELSE Got(t)[Len(Got(t))]

(* What a tree has received, followed by what is in its channel, is every   *)
(* event since its listener was stored, in the order of the timeline and    *)
(* none twice.  The event being fanned out when the listener was stored may *)
(* be the first, and the one being fanned out now may be missing.           *)
EachInOrder ==
    \A t \in Listeners :
        /\ \A k \in 1..(Len(Got(t)) - 1) : Got(t)[k + 1] = Got(t)[k] + 1
        /\ Got(t) # <<>> => Got(t)[1] \in {since[t], since[t] + 1}
        /\ sync = "idle" \/ (sync = "ranging" /\ t \in seen) => Len(log) = Latest(t)

Blocked(t) == sync = "sending" /\ to = t /\ Len(events[t]) >= Cap

(* A tree on which the sync loop waits has a goroutine that will take the   *)
(* event, or is about to have one: no tree holds up the sync of the others, *)
(* until the receivers are told to stop.                                    *)
NobodyHoldsUpSync ==
    \A t \in Trees :
        Blocked(t) /\ ~Cancelled
            => \/ receiver[t] = "running"
               \/ \E c \in Callers : At(c, "registered") /\ found[c] = t
=============================================================================
