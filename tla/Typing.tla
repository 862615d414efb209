------------------------------- MODULE Typing -------------------------------
(***************************************************************************)
(* Who is typing in one room: src/internal/matrix/typing.go, the handler of *)
(* typing events of src/internal/matrix/session.go, and the goroutine of    *)
(* src/internal/service/chat.go that shows it on the page.                  *)
(*                                                                         *)
(* SetTyping starts a notifier for every change.  A notifier copies the     *)
(* listeners, takes a snapshot of the room, and sends it to each of them    *)
(* without waiting.  A snapshot removes, under the read lock, the entries   *)
(* whose deadline has passed.                                               *)
(***************************************************************************)
EXTENDS Integers, Sequences, FiniteSets

CONSTANTS
    Users,
    Me,          \* the user who is logged in
    Notifiers,   \* bound: goroutines of notifyListeners at one time
    Request,     \* the goroutine of a request that renders the page
    ChanCap      \* capacity of a listener's channel

ASSUME TypingAssumption ==
    /\ Me \in Users
    /\ Request \notin Notifiers
    /\ ChanCap \in Nat \ {0}

VARIABLES
    typing,      \* TypingTracker.rooms of the room
    sync,        \* the handler of typing events
    content,     \* whom the event lists
    left,        \* those it has yet to come to
    stage,       \* a notifier: how far it has come,
    sends,       \*   whether it has a listener,
    users,       \*   its snapshot,
    older,       \*   history: who held one when it took it,
    late,        \*   history: a newer one has been sent
    readers,     \* who holds the tracker's lock for reading
    cleaners,    \* those of them that have deleted from the map
    listener,    \* the channel of the page's listener
    chan,        \* what is in it
    cancelled,   \* the manager's context
    page,        \* "rendered" until SUBSCRIBE_ROOM has arrived, then "open"
    shown,       \* whom the page shows
    fault,       \* what ended the program
    astray       \* history: a snapshot was overtaken, dropped or never sent

handler == <<sync, content, left>>
notifier == <<stage, sends, users, older, late>>
lock == <<readers, cleaners>>
channel == <<listener, chan>>
window == <<page, shown>>

vars == <<typing, handler, notifier, lock, channel, cancelled, window, fault, astray>>

Init ==
    /\ typing = [u \in Users |-> "no"]
    /\ sync = "idle" /\ content = {} /\ left = {}
    /\ stage = [n \in Notifiers |-> "none"]
    /\ sends = [n \in Notifiers |-> FALSE]
    /\ users = [n \in Notifiers |-> {}]
    /\ older = [n \in Notifiers |-> {}]
    /\ late = [n \in Notifiers |-> FALSE]
    /\ readers = {} /\ cleaners = {}
    /\ listener = "none"
    /\ chan = <<>>
    /\ cancelled = FALSE
    /\ page = "none"
    /\ shown = {}
    /\ fault = "none"
    /\ astray = FALSE

Present == {u \in Users : typing[u] # "no"}
Expired == {u \in Users : typing[u] = "expired"}

Holding == {n \in Notifiers : stage[n] = "holding"}

-----------------------------------------------------------------------------
(* The handler: a list of who types now.  Each of the list is set, then     *)
(* whoever of the map is not in it is removed.  It ranges over the map      *)
(* without the lock.                                                        *)

Deadline(u) ==
    /\ typing[u] = "yes"
    /\ typing' = [typing EXCEPT ![u] = "expired"]
    /\ UNCHANGED <<handler, notifier, lock, channel, cancelled, window, fault, astray>>

TypingEvent(list) ==
    /\ sync = "idle"
    /\ sync' = "listed" /\ content' = list /\ left' = list
    /\ UNCHANGED <<typing, notifier, lock, channel, cancelled, window, fault, astray>>

\* A goroutine of notifyListeners.
Start ==
    \E n \in Notifiers :
        /\ stage[n] = "none"
        /\ stage' = [stage EXCEPT ![n] = "started"]
        /\ UNCHANGED <<sends, users, older, late>>

\* Bug: the user who stops typing is removed and nobody is told.
SetTypingQuietly(u, is) ==
    /\ readers = {}
    /\ typing' = [typing EXCEPT ![u] = IF is THEN "yes" ELSE "no"]
    /\ IF is THEN Start ELSE UNCHANGED notifier
    /\ UNCHANGED <<lock, channel, cancelled, window, fault, astray>>

SetTyping(u, is) ==
    /\ readers = {}
    /\ typing' = [typing EXCEPT ![u] = IF is THEN "yes" ELSE "no"]
    /\ Start
    /\ UNCHANGED <<lock, channel, cancelled, window, fault, astray>>

SetListed(u) ==
    /\ sync = "listed"
    /\ u \in left
    /\ SetTyping(u, TRUE)
    /\ left' = left \ {u}
    /\ UNCHANGED <<sync, content>>

StartRange ==
    /\ sync = "listed"
    /\ left = {}
    /\ sync' = "ranging" /\ left' = Present
    /\ UNCHANGED <<content, typing, notifier, lock, channel, cancelled, window, fault, astray>>

\* Bug: an entry that has expired is left to cleanupExpired.
RangeLeavesExpired(u) ==
    /\ sync = "ranging"
    /\ u \in left \cap Present
    /\ left' = left \ {u}
    /\ IF u \notin content \cup Expired THEN SetTyping(u, FALSE)
       ELSE UNCHANGED <<typing, notifier, lock, channel, cancelled, window, fault, astray>>
    /\ UNCHANGED <<sync, content>>

RangeOver(u) ==
    /\ sync = "ranging"
    /\ u \in left \cap Present
    /\ left' = left \ {u}
    /\ IF u \notin content THEN SetTyping(u, FALSE)
       ELSE UNCHANGED <<typing, notifier, lock, channel, cancelled, window, fault, astray>>
    /\ UNCHANGED <<sync, content>>

EndRange ==
    /\ sync = "ranging"
    /\ left \cap Present = {}
    /\ sync' = "idle" /\ left' = {}
    /\ UNCHANGED <<content, typing, notifier, lock, channel, cancelled, window, fault, astray>>

-----------------------------------------------------------------------------
(* The read section of getTypingUsersForRoom and of GetTypingUsers, which   *)
(* begins with cleanupExpired.  A cleanup whose result goes to no listener, *)
(* while something older is on its way to one, leads the page astray.       *)

EnterRead(r, told) ==
    /\ readers' = readers \cup {r}
    /\ typing' = [u \in Users |-> IF u \in Expired THEN "no" ELSE typing[u]]
    /\ cleaners' = IF Expired # {} THEN cleaners \cup {r} ELSE cleaners
    /\ astray' = (astray \/ (Expired # {} /\ ~told))

\* Bug: the lock is taken and never released.
LeaveReadLocked(r) ==
    /\ r \in readers
    /\ readers' = readers
    /\ cleaners' = cleaners \ {r}

LeaveRead(r) ==
    /\ r \in readers
    /\ readers' = readers \ {r}
    /\ cleaners' = cleaners \ {r}

CopyListeners(n) ==
    /\ stage[n] = "started"
    /\ stage' = [stage EXCEPT ![n] = "copied"]
    /\ sends' = [sends EXCEPT ![n] = (listener = "open")]
    /\ UNCHANGED <<users, older, late>>
    /\ UNCHANGED <<typing, handler, lock, channel, cancelled, window, fault, astray>>

StartSnapshot(n) ==
    /\ stage[n] = "copied"
    /\ n \notin readers
    /\ EnterRead(n, sends[n])
    /\ UNCHANGED <<handler, notifier, channel, cancelled, window, fault>>

Snapshot(n) ==
    /\ LeaveRead(n)
    /\ stage' = [stage EXCEPT ![n] = "holding"]
    /\ users' = [users EXCEPT ![n] = Present \ {Me}]
    /\ older' = [older EXCEPT ![n] = Holding]
    /\ UNCHANGED <<sends, late>>
    /\ UNCHANGED <<typing, handler, channel, cancelled, window, fault, astray>>

\* The notifier ends.  Those that hold an older snapshot are late.
Ends(n, sent) ==
    /\ stage' = [stage EXCEPT ![n] = "none"]
    /\ sends' = [sends EXCEPT ![n] = FALSE]
    /\ users' = [users EXCEPT ![n] = {}]
    /\ older' = [m \in Notifiers |-> IF m = n THEN {} ELSE older[m] \ {n}]
    /\ late' = [m \in Notifiers |-> m # n /\ (late[m] \/ (sent /\ m \in older[n]))]

Skip(n) ==
    /\ stage[n] = "holding"
    /\ ~sends[n]
    /\ Ends(n, FALSE)
    /\ UNCHANGED <<typing, handler, lock, channel, cancelled, window, fault, astray>>

Send(n) ==
    /\ stage[n] = "holding"
    /\ sends[n]
    /\ Ends(n, TRUE)
    /\ IF listener = "closed"
       THEN fault' = "closed" /\ UNCHANGED <<chan, astray>>
       ELSE /\ chan' = IF Len(chan) < ChanCap THEN Append(chan, users[n]) ELSE chan
            /\ astray' = (astray \/ late[n] \/ Len(chan) >= ChanCap)
            /\ UNCHANGED fault
    /\ UNCHANGED <<typing, handler, lock, listener, cancelled, window>>

\* Go ends the program when it sees a map written and used by two goroutines.
\* It need not see it.
MapFault ==
    /\ \E r \in cleaners : readers # {r} \/ sync = "ranging"
    /\ fault' = "map"
    /\ UNCHANGED <<typing, handler, notifier, lock, channel, cancelled, window, astray>>

-----------------------------------------------------------------------------
(* The page: its request subscribes, once for the room, and renders; then   *)
(* the page loads and subscribes to the room's broadcasts.                  *)

OpenPage ==
    /\ page \in {"none", "open"}
    /\ page' = "asking"
    /\ listener' = IF listener = "none" THEN "open" ELSE listener
    /\ EnterRead(Request, Holding = {} /\ chan = <<>> /\ listener # "none")
    /\ UNCHANGED <<handler, notifier, chan, cancelled, shown, fault>>

\* A page that is rendered when nothing older is under way makes a new start.
Render ==
    /\ page = "asking"
    /\ LeaveRead(Request)
    /\ page' = "rendered"
    /\ shown' = Present \ {Me}
    /\ astray' = (astray /\ (Holding # {} \/ chan # <<>>))
    /\ UNCHANGED <<typing, handler, notifier, channel, cancelled, fault>>

SubscribeRoom ==
    /\ page = "rendered"
    /\ page' = "open"
    /\ UNCHANGED <<typing, handler, notifier, lock, channel, cancelled, shown, fault, astray>>

LeavePage ==
    /\ page = "open"
    /\ page' = "none"
    /\ UNCHANGED <<typing, handler, notifier, lock, channel, cancelled, shown, fault, astray>>

Broadcast ==
    /\ listener = "open"
    /\ chan # <<>>
    /\ chan' = Tail(chan)
    /\ shown' = IF page = "open" THEN Head(chan) ELSE shown
    /\ astray' = (astray \/ (page = "rendered" /\ Head(chan) # shown))
    /\ UNCHANGED <<typing, handler, notifier, lock, listener, cancelled, page, fault>>

Cancel ==
    /\ ~cancelled
    /\ cancelled' = TRUE
    /\ UNCHANGED <<typing, handler, notifier, lock, channel, window, fault, astray>>

CloseListener ==
    /\ cancelled
    /\ listener = "open"
    /\ listener' = "closed"
    /\ UNCHANGED <<typing, handler, notifier, lock, chan, cancelled, window, fault, astray>>

-----------------------------------------------------------------------------
NotifierStep(n) ==
    CopyListeners(n) \/ StartSnapshot(n) \/ Snapshot(n) \/ Skip(n) \/ Send(n)

Handler ==
    \/ \E u \in Users : SetListed(u) \/ RangeOver(u)
    \/ StartRange \/ EndRange

Page ==
    OpenPage \/ Render \/ SubscribeRoom \/ LeavePage \/ Broadcast

Next ==
    /\ fault = "none"
    /\ \/ \E u \in Users : Deadline(u)
       \/ \E list \in SUBSET Users : TypingEvent(list)
       \/ Handler
       \/ \E n \in Notifiers : NotifierStep(n)
       \/ Page \/ Cancel \/ CloseListener \/ MapFault

Spec == Init /\ [][Next]_vars

-----------------------------------------------------------------------------
(* In particular, only a reader cleans up, and nobody who has not copied    *)
(* the listeners reads the room.                                            *)
TypeOK ==
    /\ typing \in [Users -> {"no", "yes", "expired"}]
    /\ sync \in {"idle", "listed", "ranging"}
    /\ content \subseteq Users /\ left \subseteq Users
    /\ stage \in [Notifiers -> {"none", "started", "copied", "holding"}]
    /\ sends \in [Notifiers -> BOOLEAN]
    /\ users \in [Notifiers -> SUBSET Users]
    /\ older \in [Notifiers -> SUBSET Notifiers]
    /\ late \in [Notifiers -> BOOLEAN]
    /\ readers \subseteq {n \in Notifiers : stage[n] = "copied"} \cup {Request}
    /\ cleaners \subseteq readers
    /\ listener \in {"none", "open", "closed"}
    /\ chan \in Seq(SUBSET Users) /\ Len(chan) <= ChanCap
    /\ cancelled \in BOOLEAN
    /\ page \in {"none", "asking", "rendered", "open"}
    /\ shown \subseteq Users
    /\ fault \in {"none", "map", "closed"}
    /\ astray \in BOOLEAN

(* Between two typing events nobody is in the room's map whom the last one  *)
(* did not list: who stops typing is forgotten, whatever expires meanwhile. *)
OnlyListedType == sync = "idle" => Present \subseteq content

AtRest == (\A n \in Notifiers : stage[n] = "none") /\ chan = <<>>

(* Once all notifiers have ended, the page shows who types, unless one of   *)
(* three things happened since it was rendered: a snapshot was sent after a *)
(* newer one or dropped at a full channel, one was broadcast before the     *)
(* page had subscribed, or an expired entry was removed by a reader that    *)
(* told no listener.                                                        *)
PageShowsTypists ==
    page = "open" /\ AtRest /\ ~astray /\ ~cancelled => shown = Present \ {Me}
=============================================================================
