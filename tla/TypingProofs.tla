---------------------------- MODULE TypingProofs ----------------------------
(***************************************************************************)
(* What TLAPS proves of Typing, for any users, any number of notifiers and  *)
(* any capacity of the channel.                                             *)
(*                                                                         *)
(* The invariant behind PageShowsTypists is about the newest of what is     *)
(* under way to the page: while no notifier is about to take a snapshot,    *)
(* the newest snapshot held, or else the last one in the channel, or else   *)
(* what the page shows, is who types (Newest).  For a notifier to know      *)
(* that it is late, the order of the snapshots must be an order (Order).    *)
(***************************************************************************)
EXTENDS Typing, TLAPS

LEMMA Channels ==
    ASSUME NEW S, NEW q \in Seq(S)
    PROVE  /\ Len(q) \in Nat
           /\ \A x \in S : /\ Append(q, x) \in Seq(S) /\ Len(Append(q, x)) = Len(q) + 1
                           /\ Append(q, x) # <<>> /\ Append(q, x)[Len(q) + 1] = x
           /\ q # <<>> => /\ Head(q) \in S /\ Tail(q) \in Seq(S)
                          /\ Len(Tail(q)) = Len(q) - 1
<1>1. ASSUME NEW x \in S
      PROVE  /\ Append(q, x) \in Seq(S) /\ Len(Append(q, x)) = Len(q) + 1
             /\ Append(q, x)[Len(q) + 1] = x
  OBVIOUS
<1>2. Len(q) \in Nat
  OBVIOUS
<1>3. ASSUME NEW x \in S PROVE Append(q, x) # <<>>
  <2>1. Len(<<>>) = 0
    OBVIOUS
  <2> QED BY <1>1, <1>2, <2>1
<1>4. ASSUME q # <<>> PROVE Head(q) \in S /\ Tail(q) \in Seq(S) /\ Len(Tail(q)) = Len(q) - 1
  BY <1>4
<1> QED BY <1>1, <1>2, <1>3, <1>4

\* The last of a sequence is the last of its tail, if there is one.
LEMMA Lasts ==
    ASSUME NEW S, NEW q \in Seq(S), q # <<>>
    PROVE  /\ Tail(q) = <<>> => q[Len(q)] = Head(q)
           /\ Tail(q) # <<>> => q[Len(q)] = Tail(q)[Len(Tail(q))]
<1>1. /\ Len(q) \in Nat /\ Len(q) >= 1 /\ Len(Tail(q)) = Len(q) - 1
      /\ \A k \in 1..(Len(q) - 1) : Tail(q)[k] = q[k + 1]
  OBVIOUS
<1>2. Tail(q) = <<>> => q[Len(q)] = Head(q)
  <2>1. ASSUME Tail(q) = <<>> PROVE Len(q) = 1
    <3>1. Len(Tail(q)) = 0
      <4>1. Len(<<>>) = 0
        OBVIOUS
      <4> QED BY <4>1, <2>1, Zenon
    <3>2. Len(q) \in Nat /\ Len(Tail(q)) = Len(q) - 1
      BY <1>1
    <3> QED BY <3>1, <3>2
  <2> QED BY <2>1
<1>3. ASSUME Tail(q) # <<>> PROVE q[Len(q)] = Tail(q)[Len(Tail(q))]
  <2>1. Len(q) - 1 >= 1
    BY <1>3, <1>1
  <2> QED BY <1>1, <2>1
<1> QED BY <1>2, <1>3

LEMMA InitTypes == Init => TypeOK
<1> SUFFICES ASSUME Init PROVE TypeOK
  OBVIOUS
<1>1. /\ stage \in [Notifiers -> {"none", "started", "copied", "holding"}]
      /\ sends \in [Notifiers -> BOOLEAN] /\ late \in [Notifiers -> BOOLEAN]
      /\ users \in [Notifiers -> SUBSET Users] /\ older \in [Notifiers -> SUBSET Notifiers]
  BY DEF Init
<1>2. chan \in Seq(SUBSET Users) /\ Len(chan) <= ChanCap
  BY TypingAssumption DEF Init
<1>3. typing \in [Users -> {"no", "yes", "expired"}]
  BY DEF Init
<1> QED BY <1>1, <1>2, <1>3 DEF Init, TypeOK

LEMMA TypeStep == TypeOK /\ [Next]_vars => TypeOK'
<1> SUFFICES ASSUME TypeOK, [Next]_vars PROVE TypeOK'
  OBVIOUS
<1> USE TypingAssumption DEF TypeOK, handler, notifier, lock, channel, window
<1>1. ASSUME NEW u \in Users, Deadline(u) PROVE TypeOK'
  BY <1>1 DEF Deadline
<1>2. ASSUME NEW list \in SUBSET Users, TypingEvent(list) PROVE TypeOK'
  BY <1>2 DEF TypingEvent
<1>3. ASSUME NEW u \in Users, NEW is \in BOOLEAN, SetTyping(u, is),
             sync' \in {"idle", "listed", "ranging"}, content' \subseteq Users, left' \subseteq Users
      PROVE  TypeOK'
  BY <1>3 DEF SetTyping, Start
<1>4. ASSUME NEW u \in Users, SetListed(u) \/ RangeOver(u) PROVE TypeOK'
  <2>1. /\ sync' \in {"idle", "listed", "ranging"} /\ content' \subseteq Users /\ left' \subseteq Users
        /\ \/ SetTyping(u, TRUE) \/ SetTyping(u, FALSE)
           \/ UNCHANGED <<typing, notifier, lock, channel, cancelled, window, fault, astray>>
    <3>1. CASE SetListed(u)
      BY <3>1 DEF SetListed
    <3>2. CASE RangeOver(u) /\ u \notin content
      BY <3>2 DEF RangeOver
    <3>3. CASE RangeOver(u) /\ u \in content
      BY <3>3 DEF RangeOver
    <3> QED BY <1>4, <3>1, <3>2, <3>3
  <2> QED BY <2>1, <1>3
<1>5. CASE StartRange \/ EndRange
  BY <1>5 DEF StartRange, EndRange, Present
<1>6. ASSUME NEW n \in Notifiers, CopyListeners(n) PROVE TypeOK'
  <2>1. sends' \in [Notifiers -> BOOLEAN]
    BY <1>6 DEF CopyListeners
  <2> QED BY <1>6, <2>1 DEF CopyListeners
<1>7. ASSUME NEW n \in Notifiers, StartSnapshot(n) PROVE TypeOK'
  BY <1>7 DEF StartSnapshot, EnterRead, Expired
<1>8. ASSUME NEW n \in Notifiers, Snapshot(n) PROVE TypeOK'
  BY <1>8 DEF Snapshot, LeaveRead, Present, Holding
<1>9. ASSUME NEW n \in Notifiers, Skip(n) PROVE TypeOK'
  BY <1>9 DEF Skip, Ends
<1>10. ASSUME NEW n \in Notifiers, Send(n) PROVE TypeOK'
  <2>1. chan' \in Seq(SUBSET Users) /\ Len(chan') <= ChanCap
    <3>1. users[n] \in SUBSET Users /\ chan \in Seq(SUBSET Users) /\ Len(chan) <= ChanCap
      OBVIOUS
    <3>2. chan' = chan \/ (Len(chan) < ChanCap /\ chan' = Append(chan, users[n]))
      BY <1>10 DEF Send
    <3> HIDE DEF TypeOK
    <3> QED BY <3>1, <3>2, Channels
  <2>2. /\ stage' \in [Notifiers -> {"none", "started", "copied", "holding"}]
        /\ sends' \in [Notifiers -> BOOLEAN] /\ users' \in [Notifiers -> SUBSET Users]
        /\ older' \in [Notifiers -> SUBSET Notifiers] /\ late' \in [Notifiers -> BOOLEAN]
        /\ \A m \in Notifiers : stage[m] = "copied" => stage'[m] = "copied"
    BY <1>10 DEF Send, Ends
  <2>3. astray' \in BOOLEAN /\ fault' \in {"none", "map", "closed"}
        /\ UNCHANGED <<typing, handler, lock, listener, cancelled, window>>
    BY <1>10 DEF Send
  <2> QED BY <2>1, <2>2, <2>3
<1>11. CASE OpenPage
  BY <1>11 DEF OpenPage, EnterRead, Expired
<1>12. CASE Render
  BY <1>12 DEF Render, LeaveRead, Present
<1>13. CASE SubscribeRoom \/ LeavePage
  BY <1>13 DEF SubscribeRoom, LeavePage
<1>14. CASE Broadcast
  BY <1>14, Channels DEF Broadcast
<1>15. CASE Cancel \/ CloseListener \/ MapFault
  <2>1. CASE Cancel
    BY <2>1 DEF Cancel
  <2>2. CASE CloseListener
    BY <2>2 DEF CloseListener
  <2>3. CASE MapFault
    BY <2>3 DEF MapFault
  <2> QED BY <1>15, <2>1, <2>2, <2>3
<1>16. CASE UNCHANGED vars
  BY <1>16 DEF vars
<1>17. CASE Handler
  <2>1. CASE \E u \in Users : SetListed(u) \/ RangeOver(u)
    BY <2>1, <1>4
  <2>2. CASE StartRange \/ EndRange
    BY <2>2, <1>5
  <2> QED BY <1>17, <2>1, <2>2 DEF Handler
<1>18. ASSUME NEW n \in Notifiers, NotifierStep(n) PROVE TypeOK'
  BY <1>18, <1>6, <1>7, <1>8, <1>9, <1>10 DEF NotifierStep
<1>19. CASE Page
  BY <1>19, <1>11, <1>12, <1>13, <1>14 DEF Page
<1> HIDE DEF TypeOK
<1> QED BY <1>1, <1>2, <1>15, <1>16, <1>17, <1>18, <1>19 DEF Next

-----------------------------------------------------------------------------
(* While the handler ranges, whoever is in the map is listed or yet to come. *)
Listed ==
    /\ sync = "ranging" => Present \subseteq content \cup left
    /\ sync = "idle" => Present \subseteq content

LEMMA ListedStep == TypeOK /\ Listed /\ [Next]_vars => Listed'
<1> SUFFICES ASSUME TypeOK, Listed, [Next]_vars PROVE Listed'
  OBVIOUS
<1>0. typing \in [Users -> {"no", "yes", "expired"}]
  BY DEF TypeOK
<1> USE <1>0 DEF handler, notifier, lock, channel, window
\* Nobody enters the map but by a typing event.
<1>1. ASSUME Present' \subseteq Present, UNCHANGED handler PROVE Listed'
  BY <1>1 DEF Listed
<1>2. ASSUME NEW u \in Users, Deadline(u) PROVE Listed'
  BY <1>1, <1>2 DEF Deadline, Present
<1>3. ASSUME NEW list \in SUBSET Users, TypingEvent(list) PROVE Listed'
  BY <1>3 DEF TypingEvent, Listed
<1>4. ASSUME NEW u \in Users, SetListed(u) PROVE Listed'
  BY <1>4 DEF SetListed, Listed
<1>5. ASSUME NEW u \in Users, RangeOver(u) PROVE Listed'
  <2>1. sync' = "ranging" /\ content' = content /\ left' = left \ {u} /\ sync = "ranging"
    BY <1>5 DEF RangeOver
  <2>2. CASE u \in content
    BY <1>5, <2>1, <2>2 DEF RangeOver, Listed, Present
  <2>3. CASE u \notin content
    <3>1. typing' = [typing EXCEPT ![u] = "no"]
      BY <1>5, <2>3 DEF RangeOver, SetTyping
    <3>2. Present' = Present \ {u}
      BY <3>1 DEF Present
    <3> QED BY <2>1, <3>2 DEF Listed
  <2> QED BY <2>2, <2>3
<1>6. CASE StartRange \/ EndRange
  BY <1>6 DEF StartRange, EndRange, Listed, Present
<1>7. ASSUME NEW n \in Notifiers, NotifierStep(n) PROVE Listed'
  <2>1. CASE StartSnapshot(n)
    BY <2>1, <1>1 DEF StartSnapshot, EnterRead, Expired, Present
  <2>2. CASE CopyListeners(n) \/ Snapshot(n) \/ Skip(n) \/ Send(n)
    BY <2>2, <1>1 DEF CopyListeners, Snapshot, Skip, Send, Present
  <2> QED BY <1>7, <2>1, <2>2 DEF NotifierStep
<1>8. CASE Page
  <2>1. CASE OpenPage
    BY <2>1, <1>1 DEF OpenPage, EnterRead, Expired, Present
  <2>2. CASE Render \/ SubscribeRoom \/ LeavePage \/ Broadcast
    BY <2>2, <1>1 DEF Render, SubscribeRoom, LeavePage, Broadcast, Present
  <2> QED BY <1>8, <2>1, <2>2 DEF Page
<1>9. CASE Cancel \/ CloseListener \/ MapFault
  BY <1>9, <1>1 DEF Cancel, CloseListener, MapFault, Present
<1>10. CASE UNCHANGED vars
  BY <1>10, <1>1 DEF vars, Present
<1> QED BY <1>2, <1>3, <1>4, <1>5, <1>6, <1>7, <1>8, <1>9, <1>10 DEF Next, Handler

-----------------------------------------------------------------------------
(* A listener that is not there hears nothing, and one that is closed was   *)
(* closed by the end of the manager.                                        *)
Unheard ==
    /\ listener = "none" => /\ page = "none" /\ chan = <<>>
                            /\ \A n \in Notifiers : ~sends[n]
    /\ listener = "closed" => cancelled

LEMMA UnheardStep == TypeOK /\ Unheard /\ [Next]_vars => Unheard'
<1> SUFFICES ASSUME TypeOK, Unheard, [Next]_vars PROVE Unheard'
  OBVIOUS
<1>0. sends \in [Notifiers -> BOOLEAN]
  BY DEF TypeOK
<1> USE <1>0 DEF handler, notifier, lock, channel, window
<1>1. ASSUME sends' = sends \/ \E n \in Notifiers : sends' = [sends EXCEPT ![n] = FALSE],
             UNCHANGED <<channel, cancelled, page>>
      PROVE  Unheard'
  BY <1>1 DEF Unheard
<1>2. ASSUME NEW n \in Notifiers, CopyListeners(n) PROVE Unheard'
  <2>1. UNCHANGED <<channel, cancelled, page>>
        /\ sends' = [sends EXCEPT ![n] = (listener = "open")]
    BY <1>2 DEF CopyListeners
  <2>2. listener = "none" => \A m \in Notifiers : ~sends'[m]
    BY <2>1 DEF Unheard
  <2> QED BY <2>1, <2>2 DEF Unheard
<1>3. ASSUME NEW n \in Notifiers, Send(n) PROVE Unheard'
  BY <1>3 DEF Send, Ends, Unheard
<1>4. ASSUME NEW n \in Notifiers, StartSnapshot(n) \/ Snapshot(n) \/ Skip(n) PROVE Unheard'
  BY <1>4, <1>1 DEF StartSnapshot, Snapshot, Skip, Ends
<1>5. ASSUME NEW u \in Users, Deadline(u) PROVE Unheard'
  BY <1>5, <1>1 DEF Deadline
<1>6. ASSUME NEW list \in SUBSET Users, TypingEvent(list) PROVE Unheard'
  BY <1>6, <1>1 DEF TypingEvent
<1>7. CASE Handler
  BY <1>7, <1>1 DEF Handler, SetListed, RangeOver, SetTyping, Start, StartRange, EndRange
<1>8. CASE Page
  <2>1. CASE Broadcast
    BY <2>1 DEF Broadcast, Unheard
  <2>2. CASE OpenPage
    BY <2>2 DEF OpenPage, Unheard
  <2>3. CASE Render \/ SubscribeRoom \/ LeavePage
    BY <2>3 DEF Render, SubscribeRoom, LeavePage, Unheard
  <2> QED BY <1>8, <2>1, <2>2, <2>3 DEF Page
<1>9. CASE Cancel \/ CloseListener \/ MapFault
  BY <1>9 DEF Cancel, CloseListener, MapFault, Unheard
<1>10. CASE UNCHANGED vars
  BY <1>10, <1>1 DEF vars
<1> QED BY <1>2, <1>3, <1>4, <1>5, <1>6, <1>7, <1>8, <1>9, <1>10 DEF Next, NotifierStep

-----------------------------------------------------------------------------
(* The snapshots held are in an order, and only one that is held is late.   *)
Order ==
    /\ \A n \in Notifiers : /\ older[n] \subseteq Holding \ {n}
                            /\ late[n] => n \in Holding
                            /\ \A m \in older[n] : older[m] \subseteq older[n]
    /\ \A m, n \in Holding : m = n \/ (m \in older[n] <=> n \notin older[m])

\* What the steps of a notifier do to the order.
LEMMA Ended ==
    ASSUME TypeOK, NEW n \in Notifiers, NEW sent \in BOOLEAN, Ends(n, sent), stage[n] = "holding"
    PROVE  /\ Holding' = Holding \ {n}
           /\ \A m \in Notifiers : m # n => /\ older'[m] = older[m] \ {n}
                                            /\ sends'[m] = sends[m] /\ users'[m] = users[m]
                                            /\ stage'[m] = stage[m]
           /\ older'[n] = {} /\ ~late'[n] /\ stage'[n] = "none"
           /\ \A m \in Notifiers : m # n => (late'[m] <=> late[m] \/ (sent /\ m \in older[n]))
<1>1. /\ stage \in [Notifiers -> {"none", "started", "copied", "holding"}]
      /\ sends \in [Notifiers -> BOOLEAN] /\ users \in [Notifiers -> SUBSET Users]
  BY DEF TypeOK
<1>2. Holding' = Holding \ {n}
  BY <1>1 DEF Ends, Holding
<1>3. /\ \A m \in Notifiers : m # n => older'[m] = older[m] \ {n}
      /\ older'[n] = {}
  BY DEF Ends
<1>4. /\ ~late'[n]
      /\ \A m \in Notifiers : m # n => (late'[m] <=> late[m] \/ (sent /\ m \in older[n]))
  BY DEF Ends
<1>5. /\ stage'[n] = "none"
      /\ \A m \in Notifiers : m # n => /\ sends'[m] = sends[m] /\ users'[m] = users[m]
                                       /\ stage'[m] = stage[m]
  BY <1>1 DEF Ends
<1> QED BY <1>2, <1>3, <1>4, <1>5

LEMMA OrderStep == TypeOK /\ Order /\ [Next]_vars => Order'
<1> SUFFICES ASSUME TypeOK, Order, [Next]_vars PROVE Order'
  OBVIOUS
<1>0. /\ stage \in [Notifiers -> {"none", "started", "copied", "holding"}]
      /\ older \in [Notifiers -> SUBSET Notifiers]
      /\ readers \subseteq {n \in Notifiers : stage[n] = "copied"} \cup {Request}
  BY DEF TypeOK
<1> USE <1>0 DEF handler, notifier, lock, channel, window
<1>1. ASSUME Holding' = Holding, UNCHANGED <<older, late>> PROVE Order'
  BY <1>1 DEF Order
<1>2. ASSUME NEW n \in Notifiers, NEW sent \in BOOLEAN, Ends(n, sent), stage[n] = "holding"
      PROVE Order'
  <2>1. /\ Holding' = Holding \ {n}
        /\ \A m \in Notifiers : m # n => older'[m] = older[m] \ {n}
        /\ older'[n] = {} /\ ~late'[n]
        /\ \A m \in Notifiers : m # n /\ late'[m] => late[m] \/ m \in older[n]
    BY <1>2, Ended
  <2>2. \A m \in Notifiers : older'[m] \subseteq Holding' \ {m}
    BY <2>1 DEF Order
  <2>3. \A m \in Notifiers : late'[m] => m \in Holding'
    BY <2>1 DEF Order
  <2>4. ASSUME NEW m \in Notifiers, NEW k \in older'[m] PROVE older'[k] \subseteq older'[m]
    <3>1. m # n /\ k # n /\ k \in older[m] /\ k \in Notifiers
      BY <2>1, <2>4
    <3>2. older[k] \subseteq older[m]
      BY <3>1 DEF Order
    <3> QED BY <3>1, <3>2, <2>1
  <2>5. \A m, k \in Holding' : m = k \/ (m \in older'[k] <=> k \notin older'[m])
    <3>1. \A m \in Holding' : m \in Holding /\ m \in Notifiers /\ older'[m] = older[m] \ {n} /\ m # n
      BY <2>1 DEF Holding
    <3> QED BY <3>1 DEF Order
  <2> QED BY <2>2, <2>3, <2>4, <2>5 DEF Order
<1>3. ASSUME NEW n \in Notifiers, Snapshot(n) PROVE Order'
  <2>1. stage[n] = "copied" /\ stage' = [stage EXCEPT ![n] = "holding"] /\ late' = late
        /\ older' = [older EXCEPT ![n] = Holding]
    BY <1>3, TypingAssumption DEF Snapshot, LeaveRead
  <2>2. Holding' = Holding \cup {n} /\ n \notin Holding
    BY <2>1 DEF Holding
  <2>3. older'[n] = Holding /\ \A m \in Notifiers : m # n => older'[m] = older[m]
    BY <2>1
  <2>4. \A m \in Notifiers : /\ older'[m] \subseteq Holding' \ {m} /\ (late'[m] => m \in Holding')
                             /\ older[m] \subseteq Holding
    BY <2>1, <2>2, <2>3 DEF Order
  <2>5. ASSUME NEW m \in Notifiers, NEW k \in older'[m] PROVE older'[k] \subseteq older'[m]
    <3>1. k \in Notifiers /\ k # n /\ older'[k] = older[k] /\ older[k] \subseteq Holding
      BY <2>2, <2>3, <2>4, <2>5 DEF Holding
    <3>2. CASE m = n
      BY <3>1, <3>2, <2>3
    <3>3. CASE m # n
      BY <3>1, <3>3, <2>3 DEF Order
    <3> QED BY <3>2, <3>3
  <2>6. \A m, k \in Holding' : m = k \/ (m \in older'[k] <=> k \notin older'[m])
    <3>1. ASSUME NEW m \in Holding PROVE m \in older'[n] /\ n \notin older'[m]
      <4>1. m \in Notifiers /\ m # n
        BY <2>2 DEF Holding
      <4> QED BY <4>1, <2>2, <2>3, <2>4
    <3>2. \A m, k \in Holding : m = k \/ (m \in older'[k] <=> k \notin older'[m])
      <4>1. \A m \in Holding : older'[m] = older[m]
        BY <2>2, <2>3 DEF Holding
      <4> QED BY <4>1 DEF Order
    <3> QED BY <3>1, <3>2, <2>2
  <2> QED BY <2>4, <2>5, <2>6 DEF Order
<1>4. ASSUME NEW n \in Notifiers, NotifierStep(n) PROVE Order'
  <2>1. CASE Skip(n) \/ Send(n)
    BY <2>1, <1>2 DEF Skip, Send
  <2>2. CASE CopyListeners(n) \/ StartSnapshot(n)
    BY <2>2, <1>1 DEF CopyListeners, StartSnapshot, Holding
  <2> QED BY <1>4, <2>1, <2>2, <1>3 DEF NotifierStep
<1>5. CASE Handler
  <2>1. Holding' = Holding /\ UNCHANGED <<older, late>>
    BY <1>5 DEF Handler, SetListed, RangeOver, SetTyping, Start, StartRange, EndRange, Holding
  <2> QED BY <2>1, <1>1
<1>6. ASSUME UNCHANGED notifier PROVE Order'
  BY <1>6, <1>1 DEF Holding
<1>7. CASE Page \/ Cancel \/ CloseListener \/ MapFault \/ UNCHANGED vars
  BY <1>7, <1>6 DEF Page, OpenPage, Render, SubscribeRoom, LeavePage, Broadcast, Cancel,
                    CloseListener, MapFault, vars
<1>8. ASSUME NEW u \in Users, Deadline(u) PROVE Order'
  BY <1>8, <1>6 DEF Deadline
<1>9. ASSUME NEW list \in SUBSET Users, TypingEvent(list) PROVE Order'
  BY <1>9, <1>6 DEF TypingEvent
<1> QED BY <1>4, <1>5, <1>7, <1>8, <1>9 DEF Next

-----------------------------------------------------------------------------
(* What is under way to the page: snapshots that will be sent, unless a     *)
(* newer one has been.                                                      *)
Coming == {n \in Holding : sends[n] /\ ~late[n]}

\* No notifier is about to take a snapshot for the page.
Settled == \A n \in Notifiers : stage[n] # "started" /\ (stage[n] = "copied" => ~sends[n])

Typists == Present \ {Me}

Newest ==
    \/ astray \/ cancelled \/ ~Settled
    \/ /\ \A n \in Coming : Coming \subseteq older[n] \cup {n} => users[n] = Typists
       /\ Coming = {} => /\ chan # <<>> => chan[Len(chan)] = Typists
                         /\ chan = <<>> /\ page \in {"rendered", "open"} => shown = Typists

LEMMA NewestStep == TypeOK /\ Unheard /\ Order /\ Newest /\ [Next]_vars => Newest'
<1> SUFFICES ASSUME TypeOK, Unheard, Order, Newest, [Next]_vars PROVE Newest'
  OBVIOUS
<1>0. /\ typing \in [Users -> {"no", "yes", "expired"}]
      /\ stage \in [Notifiers -> {"none", "started", "copied", "holding"}]
      /\ sends \in [Notifiers -> BOOLEAN]
      /\ users \in [Notifiers -> SUBSET Users]
      /\ older \in [Notifiers -> SUBSET Notifiers]
      /\ chan \in Seq(SUBSET Users)
      /\ readers \subseteq {n \in Notifiers : stage[n] = "copied"} \cup {Request}
  BY DEF TypeOK
<1> USE <1>0 DEF handler, notifier, lock, channel, window
\* A step that neither notifiers nor the page take.
<1>1. ASSUME UNCHANGED <<notifier, channel, window>>, Present' = Present,
             astray' = astray, cancelled => cancelled'
      PROVE  Newest'
  BY <1>1 DEF Newest, Coming, Settled, Holding, Typists
<1>2. ASSUME NEW u \in Users, Deadline(u) PROVE Newest'
  <2>1. Present' = Present
    BY <1>2 DEF Deadline, Present
  <2> QED BY <2>1, <1>1, <1>2 DEF Deadline
<1>3. ASSUME Start PROVE ~Settled'
  BY <1>3 DEF Start, Settled
<1>4. CASE Handler
  <2>1. CASE \E u \in Users : SetListed(u) \/ (RangeOver(u) /\ u \notin content)
    BY <2>1, <1>3 DEF SetListed, RangeOver, SetTyping, Newest
  <2>2. CASE \E u \in Users : RangeOver(u) /\ u \in content
    BY <2>2, <1>1 DEF RangeOver, Present
  <2>3. CASE StartRange \/ EndRange
    BY <2>3, <1>1 DEF StartRange, EndRange, Present
  <2> QED BY <1>4, <2>1, <2>2, <2>3 DEF Handler
<1>5. ASSUME NEW list \in SUBSET Users, TypingEvent(list) PROVE Newest'
  BY <1>5, <1>1 DEF TypingEvent, Present
\* A reader that cleans nothing up, or leads the page astray.
<1>6. ASSUME NEW r, NEW told \in BOOLEAN, EnterRead(r, told), ~told, ~astray'
      PROVE  typing' = typing /\ astray' = astray
  <2>1. Expired = {} /\ ~astray
    BY <1>6 DEF EnterRead
  <2> QED BY <1>6, <2>1 DEF EnterRead, TypeOK
<1>7. ASSUME NEW n \in Notifiers, CopyListeners(n) PROVE Newest'
  <2>1. Settled' => listener # "open" /\ stage[n] = "started"
    BY <1>7 DEF CopyListeners, Settled
  <2>2. listener \in {"none", "open", "closed"}
    BY DEF TypeOK
  <2>3. CASE ~Settled' \/ cancelled
    BY <2>3, <1>7 DEF CopyListeners, Newest
  <2>4. CASE listener = "none"
    <3>1. Coming' = {} /\ chan' = <<>> /\ page' = "none"
      BY <2>4, <1>7 DEF CopyListeners, Unheard, Coming, Holding
    <3> QED BY <3>1 DEF Newest
  <2> QED BY <2>1, <2>2, <2>3, <2>4 DEF Unheard
<1>8. ASSUME NEW n \in Notifiers, StartSnapshot(n) PROVE Newest'
  <2>1. CASE sends[n]
    BY <2>1, <1>8 DEF StartSnapshot, Settled, Newest
  <2>2. CASE ~sends[n] /\ ~astray'
    <3>1. typing' = typing /\ astray' = astray
      BY <2>2, <1>8, <1>6 DEF StartSnapshot
    <3> QED BY <3>1, <1>8, <1>1 DEF StartSnapshot, Present
  <2> QED BY <2>1, <2>2 DEF Newest
<1>9. ASSUME NEW n \in Notifiers, Snapshot(n) PROVE Newest'
  <2>1. /\ stage[n] = "copied" /\ stage' = [stage EXCEPT ![n] = "holding"]
        /\ users' = [users EXCEPT ![n] = Typists] /\ older' = [older EXCEPT ![n] = Holding]
        /\ UNCHANGED <<sends, late, typing, chan, page, shown, astray, cancelled>>
    BY <1>9, TypingAssumption DEF Snapshot, LeaveRead, Typists
  <2>2. /\ Holding' = Holding \cup {n} /\ n \notin Holding
        /\ Settled' => (Settled \/ sends[n])
    BY <2>1 DEF Holding, Settled
  <2>3. Typists' = Typists
    BY <2>1 DEF Typists, Present
  <2>4. ~late[n]
    BY <2>2 DEF Order
  <2>5. CASE sends[n]
    <3>1. Coming' = Coming \cup {n} /\ n \notin Coming
      BY <2>1, <2>2, <2>4, <2>5 DEF Coming
    <3>2. ASSUME NEW m \in Coming', Coming' \subseteq older'[m] \cup {m} PROVE users'[m] = Typists'
      <4>1. CASE m = n
        BY <4>1, <2>1, <2>3
      <4>2. CASE m # n
        <5>1. m \in Notifiers /\ older'[m] = older[m] /\ n \in older[m]
          BY <3>1, <3>2, <4>2, <2>1 DEF Coming, Holding
        <5> QED BY <5>1, <2>2 DEF Order
      <4> QED BY <4>1, <4>2
    <3> QED BY <3>1, <3>2 DEF Newest
  <2>6. CASE ~sends[n]
    <3>1. Coming' = Coming /\ n \notin Coming
      BY <2>1, <2>2, <2>6 DEF Coming
    <3>2. \A m \in Coming : older'[m] = older[m] /\ users'[m] = users[m]
      BY <3>1, <2>1 DEF Coming, Holding
    <3> QED BY <3>1, <3>2, <2>1, <2>2, <2>3, <2>6 DEF Newest
  <2> QED BY <2>5, <2>6
<1>10. ASSUME NEW n \in Notifiers, NEW sent \in BOOLEAN, Ends(n, sent), stage[n] = "holding"
       PROVE  /\ Settled' => Settled
              /\ Coming' = {m \in Coming : m # n /\ (sent => m \notin older[n])}
              /\ \A m \in Coming' : /\ m # n /\ older'[m] = older[m] \ {n} /\ users'[m] = users[m]
                                    /\ m \in Holding
  <2>1. /\ Holding' = Holding \ {n}
        /\ \A m \in Notifiers : m # n => /\ older'[m] = older[m] \ {n}
                                         /\ sends'[m] = sends[m] /\ users'[m] = users[m]
                                         /\ stage'[m] = stage[m]
                                         /\ (late'[m] <=> late[m] \/ (sent /\ m \in older[n]))
    BY <1>10, Ended
  <2>2. Coming' = {m \in Coming : m # n /\ (sent => m \notin older[n])}
    BY <2>1 DEF Coming, Holding
  <2>3. Settled' => Settled
    BY <2>1, <1>10 DEF Settled
  <2> QED BY <2>1, <2>2, <2>3 DEF Coming, Holding
<1>11. ASSUME NEW n \in Notifiers, Skip(n) PROVE Newest'
  <2>1. /\ Ends(n, FALSE) /\ stage[n] = "holding" /\ ~sends[n]
        /\ UNCHANGED <<typing, chan, page, shown, cancelled, astray>>
    BY <1>11 DEF Skip
  <2>2. n \notin Coming /\ Typists' = Typists
    BY <2>1 DEF Coming, Typists, Present
  <2>3. /\ Settled' => Settled /\ Coming' = Coming
        /\ \A m \in Coming : older'[m] = older[m] \ {n} /\ users'[m] = users[m]
    <3>1. /\ Settled' => Settled
          /\ Coming' = {m \in Coming : m # n /\ (FALSE => m \notin older[n])}
          /\ \A m \in Coming' : older'[m] = older[m] \ {n} /\ users'[m] = users[m]
      BY <2>1, <1>10
    <3>2. Coming' = Coming
      BY <3>1, <2>2
    <3> QED BY <3>1, <3>2
  <2> QED BY <2>1, <2>2, <2>3 DEF Newest
<1>12. ASSUME NEW n \in Notifiers, Send(n) PROVE Newest'
  <2> SUFFICES ASSUME ~astray', ~cancelled', Settled' PROVE Newest'
    BY DEF Newest
  <2>1. /\ Ends(n, TRUE) /\ stage[n] = "holding" /\ sends[n]
        /\ UNCHANGED <<typing, page, shown, cancelled>>
    BY <1>12 DEF Send
  <2>2. ~astray /\ ~late[n] /\ chan' = Append(chan, users[n])
    <3>1. listener # "closed"
      BY <2>1 DEF Unheard
    <3>2. astray' = (astray \/ late[n] \/ Len(chan) >= ChanCap)
      BY <1>12, <3>1 DEF Send
    <3>3. Len(chan) < ChanCap
      <4>1. Len(chan) \in Nat /\ ~(Len(chan) >= ChanCap)
        BY <3>2, Channels
      <4> QED BY <4>1, TypingAssumption
    <3> QED BY <1>12, <3>1, <3>2, <3>3 DEF Send
  <2>3. chan' # <<>> /\ chan'[Len(chan')] = users[n]
    BY <2>2, Channels
  <2>4. n \in Coming /\ Typists' = Typists
    BY <2>1, <2>2 DEF Coming, Holding, Typists, Present
  <2>5. /\ Settled /\ Coming' = {m \in Coming : m # n /\ m \notin older[n]}
        /\ \A m \in Coming' : /\ m # n /\ older'[m] = older[m] \ {n} /\ users'[m] = users[m]
                              /\ m \in Holding
    BY <2>1, <1>10
  <2>6. ASSUME NEW m \in Coming', Coming' \subseteq older'[m] \cup {m} PROVE users'[m] = Typists'
    <3>1. m \in Coming /\ m # n /\ m \notin older[n] /\ n \in Holding /\ m \in Holding
      BY <2>4, <2>5 DEF Coming
    <3>2. n \in older[m] /\ older[n] \subseteq older[m]
      BY <3>1 DEF Order, Holding
    <3>3. Coming \subseteq older[m] \cup {m}
      BY <3>2, <2>5, <2>6
    <3> QED BY <3>1, <3>3, <2>2, <2>4, <2>5, <2>1 DEF Newest
  <2>7. ASSUME Coming' = {} PROVE users[n] = Typists
    <3>1. Coming \subseteq older[n] \cup {n}
      BY <2>7, <2>5
    <3> QED BY <3>1, <2>1, <2>2, <2>4, <2>5 DEF Newest
  <2> QED BY <2>3, <2>4, <2>6, <2>7 DEF Newest
<1>13. ASSUME UNCHANGED <<notifier, typing>> PROVE /\ Coming' = Coming /\ Typists' = Typists
                                                  /\ Settled' = Settled
  BY <1>13 DEF Coming, Holding, Typists, Present, Settled
<1>14. CASE OpenPage
  <2>1. UNCHANGED <<notifier, chan, cancelled, shown>> /\ page' = "asking"
        /\ EnterRead(Request, Holding = {} /\ chan = <<>> /\ listener # "none")
    BY <1>14 DEF OpenPage
  <2>2. CASE Holding = {} /\ chan = <<>>
    <3>1. Coming' = {} /\ chan' = <<>>
      BY <2>1, <2>2 DEF Coming, Holding
    <3> QED BY <3>1, <2>1 DEF Newest
  <2>3. CASE listener = "none"
    <3>1. Coming' = {} /\ chan' = <<>>
      BY <2>1, <2>3 DEF Coming, Holding, Unheard
    <3> QED BY <3>1, <2>1 DEF Newest
  <2>4. CASE listener # "none" /\ ~(Holding = {} /\ chan = <<>>) /\ ~astray'
    <3>1. typing' = typing /\ astray' = astray
      BY <2>1, <2>4, <1>6
    <3> QED BY <3>1, <2>1, <1>13 DEF Newest
  <2> QED BY <2>2, <2>3, <2>4 DEF Newest
<1>15. CASE Render
  <2>1. /\ UNCHANGED <<notifier, typing, chan, cancelled>> /\ page' = "rendered" /\ shown' = Typists
        /\ astray' = (astray /\ (Holding # {} \/ chan # <<>>))
    BY <1>15 DEF Render, Typists
  <2>2. Coming' = Coming /\ Typists' = Typists /\ Settled' = Settled
    BY <2>1, <1>13
  <2>3. CASE Holding = {} /\ chan = <<>>
    BY <2>1, <2>2, <2>3 DEF Newest, Coming
  <2>4. CASE ~(Holding = {} /\ chan = <<>>)
    BY <2>1, <2>2, <2>4 DEF Newest
  <2> QED BY <2>3, <2>4
<1>16. CASE SubscribeRoom \/ LeavePage
  <2>1. UNCHANGED <<notifier, typing, chan, cancelled, shown, astray>>
        /\ (page' = "open" => page = "rendered") /\ page' # "rendered"
    BY <1>16 DEF SubscribeRoom, LeavePage
  <2> QED BY <2>1, <1>13 DEF Newest
<1>17. CASE Broadcast
  <2> SUFFICES ASSUME ~astray' PROVE Newest'
    BY DEF Newest
  <2>1. /\ UNCHANGED <<notifier, typing, cancelled, page>> /\ chan # <<>> /\ chan' = Tail(chan)
        /\ ~astray /\ (page = "rendered" => Head(chan) = shown)
        /\ shown' = IF page = "open" THEN Head(chan) ELSE shown
    BY <1>17 DEF Broadcast
  <2>2. Coming' = Coming /\ Typists' = Typists /\ Settled' = Settled
    BY <2>1, <1>13
  <2>3. /\ chan' = <<>> => chan[Len(chan)] = Head(chan)
        /\ chan' # <<>> => chan[Len(chan)] = chan'[Len(chan')]
    BY <2>1, Lasts
  <2>4. page \in {"rendered", "open"} => shown' = Head(chan)
    BY <2>1
  <2> QED BY <2>1, <2>2, <2>3, <2>4 DEF Newest
<1>18. CASE Cancel \/ CloseListener \/ MapFault
  BY <1>18, <1>13 DEF Cancel, CloseListener, MapFault, Newest
<1>19. CASE UNCHANGED vars
  BY <1>19, <1>13 DEF vars, Newest
<1> QED BY <1>2, <1>4, <1>5, <1>7, <1>8, <1>9, <1>11, <1>12, <1>14, <1>15, <1>16, <1>17, <1>18, <1>19
        DEF Next, NotifierStep, Page

-----------------------------------------------------------------------------
(* The types of the state, among them that only a reader has cleaned up     *)
(* under the read lock.                                                     *)
THEOREM TypingTypes == Spec => []TypeOK
<1> QED BY InitTypes, TypeStep, PTL DEF Spec

(* After a typing event the map holds nobody it did not list, whoever       *)
(* expired or was cleaned up while the handler ranged over the map.         *)
THEOREM OnlyTheListedType == Spec => []OnlyListedType
<1>1. Init => Listed
  BY DEF Init, Listed, Present
<1>2. Listed => OnlyListedType
  BY DEF Listed, OnlyListedType
<1> QED BY <1>1, <1>2, InitTypes, TypeStep, ListedStep, PTL DEF Spec

(* Once no notifier is left the open page shows who types, unless a         *)
(* snapshot was overtaken, dropped or broadcast too early, or an expired    *)
(* entry was removed by a reader that told nobody.                          *)
THEOREM ThePageShowsTypists == Spec => []PageShowsTypists
<1>1. Init => Unheard /\ Order /\ Newest
  <2> SUFFICES ASSUME Init PROVE Unheard /\ Order /\ Newest
    OBVIOUS
  <2>1. Holding = {} /\ Coming = {}
    BY DEF Init, Holding, Coming
  <2>2. Unheard /\ Newest
    BY <2>1 DEF Init, Unheard, Newest
  <2>3. Order
    BY <2>1 DEF Init, Order
  <2> QED BY <2>2, <2>3
<1>2. Newest => PageShowsTypists
  <2> SUFFICES ASSUME Newest, page = "open", AtRest, ~astray, ~cancelled
               PROVE  shown = Present \ {Me}
    BY DEF PageShowsTypists
  <2>1. Settled /\ Coming = {}
    BY DEF AtRest, Settled, Coming, Holding
  <2> QED BY <2>1 DEF Newest, AtRest, Typists
<1> QED BY <1>1, <1>2, InitTypes, TypeStep, UnheardStep, OrderStep, NewestStep, PTL DEF Spec
=============================================================================
