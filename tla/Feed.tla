-------------------------------- MODULE Feed --------------------------------
(***************************************************************************)
(* How the page of a room keeps up with its message tree: the events that   *)
(* MessageTree.Set, DeleteMessage and fetchAndApplyEmbeds send              *)
(* (src/internal/matrix/message_tree.go), the callback of                   *)
(* src/internal/service/chat.go that turns them into changes of the page,   *)
(* and the page, which is rendered from the tree and subscribes to the      *)
(* room once it has loaded.                                                 *)
(*                                                                         *)
(* What is written to the tree, and by whom, is module MessageTree's; here  *)
(* a write is any that it makes.  Messages are numbered in the order of the *)
(* tree.  Of a stored message two things matter: its text, which tells its  *)
(* copies apart (undecryptable, decrypted, redacted), and whether it has    *)
(* its previews.                                                            *)
(***************************************************************************)
EXTENDS Integers, Sequences, FiniteSets, SequencesExt

CONSTANTS
    N,             \* bound: messages and placeholders
    Placeholders,  \* those that a message replaces by its nonce
    Texts,         \* what a message may say
    ChanCap,       \* capacity of listenerCh (256)
    MaxWrites      \* bound

Ids == 1..N

ASSUME FeedAssumption ==
    /\ N \in Nat
    /\ Placeholders \subseteq Ids
    /\ {"plain", "redacted"} \subseteq Texts
    /\ "none" \notin Texts
    /\ ChanCap \in Nat \ {0}
    /\ MaxWrites \in Nat

VARIABLES
    tree,        \* the version of each message that the tree holds, or None
    writes,
    used,        \* the placeholders that have been shown: a nonce is drawn once
    receiver,    \* the receiver's redaction: DeleteMessage, its event, Set
    copies,      \* the texts that goroutines looking for previews may hold
    embeds,      \* those of them that have stored and not yet sent, by their text
    listenerCh,
    late,        \* events in goroutines of their own: the channel was full
    page,        \* "none", "rendered" from the tree, or "subscribed" to the room
    shown,       \* the bubbles of the page
    astray       \* history: the page and its events no longer add up to the tree

vars == <<tree, writes, used, receiver, copies, embeds, listenerCh, late, page, shown,
          astray>>

Versions == [text : Texts, previews : BOOLEAN]
None == [text |-> "none", previews |-> FALSE]
Bare(text) == [text |-> text, previews |-> FALSE]

Init ==
    /\ tree = [m \in Ids |-> None]
    /\ writes = 0
    /\ used = {}
    /\ receiver = [stage |-> "idle", id |-> 0]
    /\ copies = [m \in Ids |-> {}]
    /\ embeds = [m \in Ids |-> [text \in Texts |-> 0]]
    /\ listenerCh = <<>>
    /\ late = {}
    /\ page = "none"
    /\ shown = <<>>
    /\ astray = FALSE

Present(t) == {m \in Ids : t[m] # None}
Bubbles(t) ==
    LET upTo[m \in 0..N] ==
            IF m = 0 THEN <<>>
            ELSE IF t[m] = None THEN upTo[m - 1]
            ELSE Append(upTo[m - 1], [id |-> m, version |-> t[m]])
    IN upTo[N]

-----------------------------------------------------------------------------
(* The neighbours are those of the tree after the write; 0 is no message.   *)

Prev(t, m) == Max({0} \cup {k \in Present(t) : k < m})
Next_(t, m) == LET after == {k \in Present(t) : k > m}
               IN IF after = {} THEN 0 ELSE Min(after)

getNeighbors(t, m) ==
    [prev |-> Prev(t, m), prevVersion |-> IF Prev(t, m) = 0 THEN None ELSE t[Prev(t, m)],
     next |-> Next_(t, m)]

NoNeighbors == [prev |-> 0, prevVersion |-> None, next |-> 0]

Event(type, m, version, nonce, neighbors) ==
    [type |-> type, id |-> m, version |-> version, nonce |-> nonce,
     neighbors |-> neighbors]

Unsent == (\E m \in Ids, text \in Texts : embeds[m][text] # 0) \/ receiver.stage = "deleted"

\* Bug: the channel grows.
SendUnbounded(evt) == listenerCh' = Append(listenerCh, evt) /\ UNCHANGED late

sendEventToListeners(evt) ==
    IF Len(listenerCh) < ChanCap
    THEN listenerCh' = Append(listenerCh, evt) /\ UNCHANGED late
    ELSE late' = late \cup {evt} /\ UNCHANGED listenerCh

Overflows == Len(listenerCh) >= ChanCap

Write ==
    /\ writes < MaxWrites
    /\ writes' = writes + 1

-----------------------------------------------------------------------------
(* Set, under the tree's lock, its event included.  What replaces a         *)
(* placeholder takes its bubble, wherever in the page that is.              *)

Between(p, m, t) == \E k \in Present(t) : (p < k /\ k < m) \/ (m < k /\ k < p)

\* Bug: the event goes out without the nonce that was replaced.
SetForgetsNonce(m, version, nonce) ==
    LET without == IF nonce = 0 THEN tree ELSE [tree EXCEPT ![nonce] = None]
        after == [without EXCEPT ![m] = version]
        type == IF nonce = 0 /\ without[m] = None THEN "add" ELSE "update"
    IN /\ tree' = after
       /\ sendEventToListeners(Event(type, m, version, 0, getNeighbors(after, m)))
       /\ astray' = (astray \/ Overflows \/ Unsent
                     \/ (nonce # 0 /\ (without[m] # None \/ Between(nonce, m, without))))

Set(m, version, nonce) ==
    LET without == IF nonce = 0 THEN tree ELSE [tree EXCEPT ![nonce] = None]
        after == [without EXCEPT ![m] = version]
        type == IF nonce = 0 /\ without[m] = None THEN "add" ELSE "update"
    IN /\ tree' = after
       /\ sendEventToListeners(Event(type, m, version, nonce, getNeighbors(after, m)))
       /\ astray' = (astray \/ Overflows \/ Unsent
                     \/ (nonce # 0 /\ (without[m] # None \/ Between(nonce, m, without))))

SetPlaceholder(p) ==
    /\ Write
    /\ p \in Placeholders \ used
    /\ used' = used \cup {p}
    /\ Set(p, Bare("plain"), 0)
    /\ UNCHANGED <<receiver, copies, embeds, page, shown>>

\* Anything but a placeholder: Set starts a goroutine that keeps this copy.
SetMessage(m, text, nonce) ==
    /\ Write
    /\ m \notin Placeholders
    /\ nonce = 0 \/ nonce \in Placeholders \cap Present(tree)
    /\ Set(m, Bare(text), nonce)
    /\ copies' = [copies EXCEPT ![m] = @ \cup {text}]
    /\ UNCHANGED <<used, receiver, embeds, page, shown>>

\* The receiver's redaction: the tree changes, then the event goes out.
DeleteMessage(m) ==
    /\ Write
    /\ receiver.stage = "idle"
    /\ m \in Present(tree) \ Placeholders
    /\ tree' = [tree EXCEPT ![m] = None]
    /\ receiver' = [stage |-> "deleted", id |-> m]
    /\ UNCHANGED <<used, copies, embeds, listenerCh, late, page, shown, astray>>

SendRemove ==
    /\ receiver.stage = "deleted"
    /\ sendEventToListeners(Event("remove", receiver.id, None, 0, NoNeighbors))
    /\ receiver' = [receiver EXCEPT !.stage = "removed"]
    /\ astray' = (astray \/ Overflows)
    /\ UNCHANGED <<tree, writes, used, copies, embeds, page, shown>>

\* The redacted message keeps the previews of the one it was, if it had any.
SetRedacted(previews) ==
    /\ receiver.stage = "removed"
    /\ receiver' = [stage |-> "idle", id |-> 0]
    /\ Set(receiver.id, [text |-> "redacted", previews |-> previews], 0)
    /\ copies' = [copies EXCEPT ![receiver.id] = @ \cup {"redacted"}]
    /\ UNCHANGED <<writes, used, embeds, page, shown>>

(* fetchAndApplyEmbeds stores the copy it was started with under the lock,  *)
(* and sends it without: another may store or send in between.  A message   *)
(* that is not in the tree any more comes back with its previews.           *)

ApplyEmbeds(m, text) ==
    /\ Write
    /\ text \in copies[m]
    /\ tree' = [tree EXCEPT ![m] = [text |-> text, previews |-> TRUE]]
    /\ embeds' = [embeds EXCEPT ![m][text] = @ + 1]
    /\ astray' = (astray \/ tree[m] = None)
    /\ UNCHANGED <<used, receiver, copies, listenerCh, late, page, shown>>

\* The copy that the tree holds has been sent, and an older one has not.
Overtaken(m, unsent) ==
    /\ \E text \in Texts : unsent[m][text] # 0
    /\ tree[m] # None
    /\ unsent[m][tree[m].text] = 0

SendEmbeds(m, text) ==
    /\ embeds[m][text] # 0
    /\ sendEventToListeners(
           Event("update", m, [text |-> text, previews |-> TRUE], 0, NoNeighbors))
    /\ embeds' = [embeds EXCEPT ![m][text] = @ - 1]
    /\ astray' = (astray \/ Overflows \/ Overtaken(m, embeds'))
    /\ UNCHANGED <<tree, writes, used, receiver, copies, page, shown>>

LateSend(evt) ==
    /\ evt \in late
    /\ ~Overflows
    /\ late' = late \ {evt}
    /\ listenerCh' = Append(listenerCh, evt)
    /\ UNCHANGED <<tree, writes, used, receiver, copies, embeds, page, shown, astray>>

LateTimeout(evt) ==
    /\ evt \in late
    /\ late' = late \ {evt}
    /\ UNCHANGED <<tree, writes, used, receiver, copies, embeds, listenerCh, page, shown,
                   astray>>

-----------------------------------------------------------------------------
(* The callback's change of the page.  A change whose target is not there   *)
(* changes nothing.  Whether the bubble before looks different now depends  *)
(* on its author; here it is always drawn again.                            *)

At(bubbles, m) == SelectInSeq(bubbles, LAMBDA b : b.id = m)

Redraw(bubbles, target, bubble) ==
    LET i == At(bubbles, target) IN IF i = 0 THEN bubbles ELSE ReplaceAt(bubbles, i, bubble)

Insert(bubbles, evt, bubble) ==
    LET i == At(bubbles, evt.neighbors.next)
        j == At(bubbles, evt.neighbors.prev)
    IN IF evt.neighbors.next # 0
       THEN IF i = 0 THEN bubbles ELSE InsertAt(bubbles, i, bubble)
       ELSE IF evt.neighbors.prev # 0
       THEN IF j = 0 THEN bubbles ELSE InsertAt(bubbles, j + 1, bubble)
       ELSE Append(bubbles, bubble)

Callback(bubbles, evt) ==
    LET bubble == [id |-> evt.id, version |-> evt.version]
        i == At(bubbles, evt.id)
        changed ==
            CASE evt.type = "add" -> Insert(bubbles, evt, bubble)
              [] evt.type = "update" ->
                     Redraw(bubbles, IF evt.nonce # 0 THEN evt.nonce ELSE evt.id, bubble)
              [] evt.type = "remove" -> IF i = 0 THEN bubbles ELSE RemoveAt(bubbles, i)
        prev == [id |-> evt.neighbors.prev, version |-> evt.neighbors.prevVersion]
    IN IF prev.id = 0 THEN changed ELSE Redraw(changed, prev.id, prev)

\* The transmitter.  A client whose channel is full misses the change.
Transmit(full) ==
    /\ listenerCh # <<>>
    /\ listenerCh' = Tail(listenerCh)
    /\ shown' = IF page = "subscribed" /\ ~full THEN Callback(shown, Head(listenerCh))
                ELSE shown
    /\ astray' = (astray \/ page = "rendered" \/ full)
    /\ UNCHANGED <<tree, writes, used, receiver, copies, embeds, late, page>>

Chronological ==
    /\ page \in {"none", "subscribed"}
    /\ page' = "rendered"
    /\ shown' = Bubbles(tree)
    /\ astray' = (listenerCh # <<>> \/ late # {} \/ Unsent)
    /\ UNCHANGED <<tree, writes, used, receiver, copies, embeds, listenerCh, late>>

SubscribeRoom ==
    /\ page = "rendered"
    /\ page' = "subscribed"
    /\ UNCHANGED <<tree, writes, used, receiver, copies, embeds, listenerCh, late, shown,
                   astray>>

LeavePage ==
    /\ page = "subscribed"
    /\ page' = "none"
    /\ shown' = <<>>
    /\ UNCHANGED <<tree, writes, used, receiver, copies, embeds, listenerCh, late, astray>>

-----------------------------------------------------------------------------
Next ==
    \/ \E m \in Ids :
           \/ SetPlaceholder(m) \/ DeleteMessage(m)
           \/ \E text \in Texts :
                  \/ ApplyEmbeds(m, text) \/ SendEmbeds(m, text)
                  \/ \E nonce \in {0} \cup Placeholders : SetMessage(m, text, nonce)
    \/ SendRemove \/ \E previews \in BOOLEAN : SetRedacted(previews)
    \/ \E evt \in late : LateSend(evt) \/ LateTimeout(evt)
    \/ \E full \in BOOLEAN : Transmit(full)
    \/ Chronological \/ SubscribeRoom \/ LeavePage

Spec == Init /\ [][Next]_vars

-----------------------------------------------------------------------------
Events ==
    [type : {"add", "update", "remove"}, id : Ids, version : Versions \cup {None},
     nonce : Placeholders \cup {0},
     neighbors : [prev : Ids \cup {0}, prevVersion : Versions \cup {None},
                  next : Ids \cup {0}]]

(* In particular listenerCh is never over its capacity, and a redaction is  *)
(* under way exactly while its message is noted.                            *)
TypeOK ==
    /\ tree \in [Ids -> Versions \cup {None}]
    /\ writes \in 0..MaxWrites
    /\ used \subseteq Placeholders
    /\ receiver \in [stage : {"idle", "deleted", "removed"}, id : Ids \cup {0}]
    /\ receiver.stage = "idle" <=> receiver.id = 0
    /\ copies \in [Ids -> SUBSET Texts]
    /\ embeds \in [Ids -> [Texts -> Nat]]
    /\ listenerCh \in Seq(Events) /\ Len(listenerCh) <= ChanCap
    /\ late \subseteq Events
    /\ page \in {"none", "rendered", "subscribed"}
    /\ shown \in Seq([id : Ids, version : Versions])
    /\ astray \in BOOLEAN

\* The page when these events have come to it.
After(bubbles, events) ==
    LET after[k \in 0..Len(events)] ==
            IF k = 0 THEN bubbles ELSE Callback(after[k - 1], events[k])
    IN after[Len(events)]

(* The page with the events that are on their way to it is the tree: every  *)
(* message once, in its place and in its last version.  So it is unless,    *)
(* since the page was rendered: an event found a channel full, the tree's   *)
(* or the client's; one was broadcast between rendering and subscribing, or *)
(* was on its way when the page was rendered; Set ran between the write and *)
(* the event of a redaction or of previews, which are not under one lock;   *)
(* previews brought back a message being redacted; two copies of a message  *)
(* were stored with their previews in one order and sent in the other; or a *)
(* message took over a placeholder although it was in the tree already or   *)
(* belongs elsewhere.                                                       *)
PageCatchesUp ==
    page = "subscribed" /\ ~astray /\ ~Unsent
        => After(shown, listenerCh) = Bubbles(tree)
=============================================================================
