------------------------- MODULE MessageTreeProofs -------------------------
(***************************************************************************)
(* What TLAPS proves of MessageTree, for every timeline, whatever is        *)
(* encrypted in it, and every page size.  IInv is the inductive invariant:  *)
(* the properties, and what they need to hold: live events come in order,   *)
(* an echo never carries an event's id for a nonce, an encrypted event is   *)
(* kept with its nonce until a retry has decrypted it, nothing left can     *)
(* undo a sealed redaction, and the pages loaded are contiguous.            *)
(***************************************************************************)
EXTENDS MessageTree, TLAPS

MessagesAhead ==
    {e \in Events : \E i \in 1..Len(inbox) : inbox[i].type = "message" /\ inbox[i].e = e}

\* Live events come in the order of the timeline: a message is never behind
\* its redaction, and the redaction in progress is behind its message.
InboxInOrder ==
    /\ \A i \in 1..Len(inbox) : inbox[i].e <= top
    /\ \A i, j \in 1..Len(inbox) :
           i < j /\ inbox[i].type = "redaction" /\ inbox[j].type = "message"
               => inbox[i].e # inbox[j].e
    /\ recv.stage # "idle" => recv.e \in Events /\ recv.e \notin MessagesAhead
    /\ recv.stage = "idle" => recv.e = 0
    /\ \A i \in 1..Len(inbox) : inbox[i].type = "redaction" => inbox[i].e \in gone
    /\ recv.stage # "idle" => recv.e \in gone /\ recv.e <= top

\* What a retry may start from: an event goes through its page once, none of
\* its copies is undecryptable before that, and its encrypted form and its
\* nonce are kept together until a retry has decrypted it.
Retriable ==
    \A e \in Events :
        /\ hist[e] # "none" => token # -1 /\ token < e
        /\ hist[e] # "done" =>
               /\ {tree[e]} \cup jobs[e] \subseteq Kinds \ Undecryptable
               /\ recv.e = e => recv.kind \notin Undecryptable
               /\ retry[e] = {}
        /\ hist[e] = "kept" => e \in raw
        /\ e \in raw => /\ hist[e] \in {"kept", "done"}
                        /\ e \in nonces
                        /\ "decrypted" \notin retry[e]

\* Nonces of sends are not ids of events.
TxnIsPending == \A e \in Events : txn[e] \notin Events

\* Nothing can bring an older copy of a sealed event.
SealedIsFinal ==
    \A e \in sealed :
        /\ e \in gone
        /\ e <= top
        /\ ~OlderCopy(e)
        /\ e \notin MessagesAhead
        /\ tree[e] \in Redacted \/ recv.e = e

\* Where the pages have got to, and what they have left in the tree.
Pages ==
    /\ token = -1 => first = 0
    /\ noMoreHistory => token = 0
    /\ \A e \in Events : token # -1 /\ token < e /\ e <= first => hist[e] # "none"
    /\ ~loading => \A e \in Events : hist[e] \in {"none", "done"}
    /\ \A e \in Messages \cap Encrypted :
           hist[e] = "done" => tree[e] # "absent" \/ recv.e = e

IInv ==
    /\ TypeOK
    /\ TreeAndMapAgree
    /\ PlaceholdersReplaceable
    /\ UndecryptableReplaceable
    /\ InboxInOrder
    /\ TxnIsPending
    /\ Retriable
    /\ SealedIsFinal
    /\ Pages
-----------------------------------------------------------------------------
LEMMA InitIInv == Init => IInv
<1> SUFFICES ASSUME Init PROVE IInv
  OBVIOUS
<1> USE BoundsAssumption, EventsAssumption DEF Init
<1>1. TypeOK
  <2>1. NoRedaction \in [stage : RecvStages, e : Events \cup {0}, kind : Kinds]
    BY DEF NoRedaction, RecvStages, Kinds
  <2>2. /\ tree \in [Ids -> Kinds]
        /\ messagesMap \in [Ids -> Kinds]
        /\ hist \in [Events -> HistStages]
        /\ sending \in [Sends -> SendStages]
        /\ txn \in [Events -> Ids \cup {0}]
        /\ retry \in [Events -> SUBSET RetryStages]
        /\ jobs \in [Ids -> SUBSET Finished]
    BY DEF Kinds, HistStages, SendStages
  <2>3. token \in -1..NumEvents /\ first \in 0..NumEvents /\ top \in 0..NumEvents
    OBVIOUS
  <2>4. inbox \in Seq(LiveEvents)
    OBVIOUS
  <2> QED BY <2>1, <2>2, <2>3, <2>4 DEF TypeOK
<1>2. InboxInOrder
  BY DEF InboxInOrder, NoRedaction
<1>3. Pages
  BY DEF Pages, Events
<1> QED
  BY <1>1, <1>2, <1>3 DEF IInv, TreeAndMapAgree, PlaceholdersReplaceable,
     UndecryptableReplaceable, TxnIsPending, Retriable, SealedIsFinal, Events, Ids,
     Kinds, Undecryptable, NoRedaction

\* The ids of placeholders and sends are ids, and not ids of events.
LEMMA IdsApart ==
    /\ Events \subseteq Ids
    /\ \A e \in Events : Placeholder(e) \in Ids \ Events
    /\ \A s \in Sends : PendingId(s) \in Ids \ Events
    /\ 0 \notin Ids
<1> USE BoundsAssumption DEF Events, Sends, Ids, Placeholder, PendingId
<1>1. Events \subseteq Ids /\ 0 \notin Ids
  OBVIOUS
<1>2. ASSUME NEW e \in Events PROVE Placeholder(e) \in Ids \ Events
  OBVIOUS
<1>3. ASSUME NEW s \in Sends PROVE PendingId(s) \in Ids \ Events
  OBVIOUS
<1> QED BY <1>1, <1>2, <1>3

\* The live event the receiver takes.
LEMMA HeadOfInbox ==
    ASSUME TypeOK, inbox # <<>>
    PROVE  /\ Head(inbox).type \in {"message", "redaction"}
           /\ Head(inbox).e \in Events
           /\ Tail(inbox) \in Seq(LiveEvents)
           /\ Head(inbox) = inbox[1] /\ 1 \in 1..Len(inbox)
           /\ \A i \in 1..Len(Tail(inbox)) :
                  i + 1 \in 1..Len(inbox) /\ Tail(inbox)[i] = inbox[i + 1]
<1>1. inbox \in Seq(LiveEvents)
  BY DEF TypeOK
<1>2. Head(inbox) \in LiveEvents /\ Tail(inbox) \in Seq(LiveEvents)
  BY <1>1
<1>3. Head(inbox) = inbox[1] /\ 1 \in 1..Len(inbox)
  BY <1>1
<1>4. \A i \in 1..Len(Tail(inbox)) :
          i + 1 \in 1..Len(inbox) /\ Tail(inbox)[i] = inbox[i + 1]
  BY <1>1
<1> QED BY <1>2, <1>3, <1>4 DEF LiveEvents

-----------------------------------------------------------------------------
\* What Set does to the types.
LEMMA SetTypes ==
    ASSUME TypeOK, NEW id \in Ids, NEW kind \in Kinds \ {"absent"}, NEW nonce,
           Set(id, kind, nonce)
    PROVE  /\ tree' \in [Ids -> Kinds]
           /\ messagesMap' \in [Ids -> Kinds]
           /\ nonces' \subseteq Ids
           /\ jobs' \in [Ids -> SUBSET Finished]
           /\ embedCache' \subseteq Events
           /\ revived' \subseteq Events
<1>1. /\ tree \in [Ids -> Kinds] /\ messagesMap \in [Ids -> Kinds]
      /\ nonces \subseteq Ids /\ embedCache \subseteq Events /\ revived \subseteq Events
      /\ jobs \in [Ids -> SUBSET Finished]
  BY DEF TypeOK
<1>2. "absent" \in Kinds /\ {kind} \ {"pending", "decrypting"} \subseteq Finished
  BY DEF Kinds, Finished, WithBody
<1>3. nonces' \subseteq Ids
  BY <1>1 DEF Set, NoncesAfter
<1>4. tree' \in [Ids -> Kinds] /\ messagesMap' \in [Ids -> Kinds]
  BY <1>1, <1>2 DEF Set
<1>5. jobs' \in [Ids -> SUBSET Finished]
  BY <1>1, <1>2 DEF Set, JobsAfter
<1> QED BY <1>1, <1>3, <1>4, <1>5 DEF Set

LEMMA TypeStep == IInv /\ Next => TypeOK'
<1> SUFFICES ASSUME TypeOK, TxnIsPending, InboxInOrder, Next PROVE TypeOK'
  BY DEF IInv
<1> USE BoundsAssumption, EventsAssumption, IdsApart
    DEF serverVars, storeVars, pageVars
<1>1. ASSUME NEW e \in Events, NEW type \in {"message", "redaction"},
             NEW live \in BOOLEAN, Live(type, e, live)
      PROVE  inbox' \in Seq(LiveEvents)
  <2>1. [type |-> type, e |-> e] \in LiveEvents
    BY DEF LiveEvents
  <2> QED BY <1>1, <2>1 DEF Live, TypeOK
<1>2. ASSUME NEW live \in BOOLEAN, Arrive(live) PROVE TypeOK'
  <2>1. top + 1 \in Events /\ top' \in 0..NumEvents
    BY <1>2 DEF Arrive, TypeOK, Events
  <2>2. inbox' \in Seq(LiveEvents)
    BY <1>1, <1>2, <2>1 DEF Arrive
  <2> QED BY <1>2, <2>1, <2>2 DEF Arrive, TypeOK
<1>3. ASSUME NEW e \in Events, NEW live \in BOOLEAN, Redact(e, live) PROVE TypeOK'
  <2>1. inbox' \in Seq(LiveEvents)
    BY <1>1, <1>3 DEF Redact
  <2> QED BY <1>3, <2>1 DEF Redact, TypeOK
<1>4. ASSUME NEW s \in Sends, SendMessage(s) PROVE TypeOK'
  <2>1. Set(PendingId(s), "pending", 0)
    BY <1>4 DEF SendMessage
  <2> QED BY <1>4, <2>1, SetTypes DEF SendMessage, TypeOK, Kinds, SendStages
<1>5. ASSUME NEW s \in Sends, NEW live \in BOOLEAN, SendAccepted(s, live) PROVE TypeOK'
  <2>1. top + 1 \in Events /\ top' \in 0..NumEvents
    BY <1>5 DEF SendAccepted, TypeOK, Events
  <2>2. inbox' \in Seq(LiveEvents)
    BY <1>1, <1>5, <2>1 DEF SendAccepted
  <2> QED BY <1>5, <2>1, <2>2 DEF SendAccepted, TypeOK, SendStages
<1>6. ASSUME NEW s \in Sends, SendFails(s) PROVE TypeOK'
  BY <1>6 DEF SendFails, TypeOK, SendStages
<1>7. LoadPage => /\ token' \in -1..NumEvents /\ noMoreHistory' \in BOOLEAN
                  /\ loading' \in BOOLEAN /\ first' \in 0..NumEvents
                  /\ hist' \in [Events -> HistStages]
  BY DEF LoadPage, Oldest, HistStart, TypeOK, HistStages
<1>8. CASE Initialize
  BY <1>7, <1>8 DEF Initialize, TypeOK
<1>9. CASE LoadNextMessages
  BY <1>7, <1>9 DEF LoadNextMessages, TypeOK
<1>10. CASE PageDone
  BY <1>10 DEF PageDone, TypeOK
<1>11. CASE Listen
  BY <1>11 DEF Listen, TypeOK
<1>12. ASSUME NEW e \in Events, HistoryGoroutine(e) PROVE TypeOK'
  <2>1. ASSUME NEW from, NEW to \in HistStages, HistStep(e, from, to),
               \/ UNCHANGED storeVars
               \/ \E id \in Ids, kind \in Kinds \ {"absent"}, nonce \in Ids \cup {0} :
                     Set(id, kind, nonce),
               raw' = raw
        PROVE  TypeOK'
    <3>1. /\ tree' \in [Ids -> Kinds]
          /\ messagesMap' \in [Ids -> Kinds]
          /\ nonces' \subseteq Ids
          /\ jobs' \in [Ids -> SUBSET Finished]
          /\ embedCache' \subseteq Events
          /\ revived' \subseteq Events
      BY <2>1, SetTypes DEF TypeOK
    <3> QED BY <2>1, <3>1 DEF HistStep, TypeOK
  <2>2. CASE HistKeeps(e)
    BY <2>2 DEF HistKeeps, HistStep, HistStages, TypeOK
  <2> USE <2>1 DEF Kinds, HistStages
  <2>3. CASE HistRedacted(e)
    BY <2>3 DEF HistRedacted
  <2>4. CASE HistPlain(e)
    BY <2>4 DEF HistPlain
  <2>5. CASE HistIgnored(e)
    BY <2>5 DEF HistIgnored
  <2>6. CASE HistPlaceholder(e)
    BY <2>6 DEF HistPlaceholder
  <2>7. CASE HistDecrypted(e)
    BY <2>7 DEF HistDecrypted
  <2>8. CASE HistUndecryptable(e)
    BY <2>8 DEF HistUndecryptable
  <2> QED BY <1>12, <2>2, <2>3, <2>4, <2>5, <2>6, <2>7, <2>8 DEF HistoryGoroutine
<1>13. CASE Receiver
  <2>1. inbox # <<>> => Head(inbox) \in LiveEvents /\ Tail(inbox) \in Seq(LiveEvents)
    BY DEF TypeOK
  <2> USE DEF LiveEvents
  <2>2. CASE ReceiveMessage
    <3>1. /\ inbox # <<>>
          /\ Set(Head(inbox).e, "plain", EchoNonce(Head(inbox).e))
      BY <2>2 DEF ReceiveMessage, Receives
    <3>2. Head(inbox).e \in Ids /\ "plain" \in Kinds \ {"absent"}
      BY <2>1, <3>1 DEF Kinds
    <3> QED BY <2>1, <2>2, <3>1, <3>2, SetTypes
            DEF ReceiveMessage, Receives, ReceiverStep, TypeOK
  <2>3. CASE ReceiveRedactionOfNothing
    BY <2>1, <2>3 DEF ReceiveRedactionOfNothing, Receives, ReceiverStep, TypeOK
  <2>4. CASE ReceiveRedaction
    BY <2>1, <2>4 DEF ReceiveRedaction, Receives, ReceiverStep, TypeOK, RecvStages, Kinds
  <2>5. CASE DeleteMessage
    BY <2>5 DEF DeleteMessage, ReceiverStep, TypeOK, RecvStages, Kinds
  <2>6. CASE SetRedacted
    <3>1. Set(recv.e, RedactedFrom(recv.kind), 0)
      BY <2>6 DEF SetRedacted
    <3>2. recv.e \in Ids /\ RedactedFrom(recv.kind) \in Kinds \ {"absent"}
      BY <2>6 DEF SetRedacted, InboxInOrder, RedactedFrom, Kinds
    <3>3. NoRedaction \in [stage : RecvStages, e : Events \cup {0}, kind : Kinds]
      BY DEF NoRedaction, RecvStages, Kinds
    <3>4. sealed' \subseteq Events
      BY <2>6 DEF SetRedacted, InboxInOrder, TypeOK
    <3> QED BY <2>6, <3>1, <3>2, <3>3, <3>4, SetTypes DEF SetRedacted, ReceiverStep, TypeOK
  <2> QED BY <1>13, <2>2, <2>3, <2>4, <2>5, <2>6 DEF Receiver
<1>14. CASE Chronological
  BY <1>14 DEF Chronological, TypeOK, RetryStages
<1>14a. ASSUME NEW e \in Events, NEW from, NEW to \in SUBSET RetryStages, RetryStep(e, from, to)
       PROVE  /\ retry' \in [Events -> SUBSET RetryStages]
              /\ UNCHANGED <<serverVars, inbox, listening, pageVars, hist, recv, sending, sealed>>
  <2>1. PICK others \in {retry[e], retry[e] \ {from}} :
            retry' = [retry EXCEPT ![e] = others \cup to]
    BY <1>14a DEF RetryStep
  <2>2. others \cup to \subseteq RetryStages /\ retry \in [Events -> SUBSET RetryStages]
    BY DEF TypeOK
  <2>3. retry' \in [Events -> SUBSET RetryStages]
    BY <2>1, <2>2
  <2> QED BY <1>14a, <2>3 DEF RetryStep
<1>15. ASSUME NEW e \in Events, RetryLoads(e) \/ RetrySucceeds(e) \/ RetryFails(e)
       PROVE  TypeOK'
  <2>1. /\ retry' \in [Events -> SUBSET RetryStages]
        /\ UNCHANGED <<serverVars, inbox, listening, pageVars, hist, recv, sending, sealed>>
    BY <1>15, <1>14a DEF RetryLoads, RetrySucceeds, RetryFails, RetryStages
  <2>2. raw' \subseteq raw /\ UNCHANGED storeVars
    BY <1>15 DEF RetryLoads, RetrySucceeds, RetryFails
  <2> QED BY <2>1, <2>2 DEF TypeOK
<1>16. ASSUME NEW e \in Events, RetryStores(e) PROVE TypeOK'
  <2>1. Set(e, "plain", e) /\ "plain" \in Kinds \ {"absent"} /\ raw' = raw
    BY <1>16 DEF RetryStores, Kinds
  <2>2. /\ retry' \in [Events -> SUBSET RetryStages]
        /\ UNCHANGED <<serverVars, inbox, listening, pageVars, hist, recv, sending, sealed>>
    BY <1>16, <1>14a DEF RetryStores
  <2> QED BY <2>1, <2>2, SetTypes DEF TypeOK
<1>17. ASSUME NEW e \in Events, NEW kind \in Finished, ApplyEmbeds(e, kind) \/ NoEmbeds(e, kind)
       PROVE  TypeOK'
  <2>1. /\ jobs' \in [Ids -> SUBSET Finished]
        /\ UNCHANGED <<serverVars, inbox, listening, nonces, embedCache, raw, pageVars, hist,
                       recv, retry, sending, sealed>>
    BY <1>17 DEF ApplyEmbeds, NoEmbeds, EmbedStep, TypeOK
  <2>2. /\ tree' \in [Ids -> Kinds] /\ messagesMap' \in [Ids -> Kinds]
        /\ revived' \subseteq Events
    BY <1>17 DEF ApplyEmbeds, NoEmbeds, RevivedBy, TypeOK, Finished, WithBody, Kinds
  <2> QED BY <2>1, <2>2 DEF TypeOK
<1>18. ASSUME NEW e \in Events, FetchEmbeds(e) PROVE TypeOK'
  BY <1>18 DEF FetchEmbeds, TypeOK
<1> QED
  BY <1>2, <1>3, <1>4, <1>5, <1>6, <1>8, <1>9, <1>10, <1>11, <1>12, <1>13, <1>14,
     <1>15, <1>16, <1>17, <1>18 DEF Next

-----------------------------------------------------------------------------
\* Where a message is, in the tree and in the map, changes together but for
\* the message being redacted.
LEMMA AgreeStep == IInv /\ Next => TreeAndMapAgree'
<1> SUFFICES ASSUME IInv, Next PROVE TreeAndMapAgree'
  OBVIOUS
<1> USE DEF IInv, TypeOK, TreeAndMapAgree, storeVars
<1>1. ASSUME NEW id, NEW kind, NEW nonce, Set(id, kind, nonce),
             recv' = recv \/ recv.e = id
      PROVE  TreeAndMapAgree'
  BY <1>1 DEF Set
<1>2. CASE UNCHANGED <<tree, messagesMap, recv>>
  BY <1>2
<1>3. ASSUME NEW e \in Events, HistoryGoroutine(e) PROVE TreeAndMapAgree'
  <2>1. recv' = recv
    BY <1>3 DEF HistoryGoroutine, HistRedacted, HistPlain, HistIgnored, HistPlaceholder,
       HistDecrypted, HistKeeps, HistUndecryptable, HistStep
  <2> QED
    BY <1>1, <1>2, <1>3, <2>1 DEF HistoryGoroutine, HistRedacted, HistPlain, HistIgnored,
       HistPlaceholder, HistDecrypted, HistKeeps, HistUndecryptable
<1>4. CASE Receiver
  <2>1. CASE ReceiveMessage
    BY <1>1, <2>1 DEF ReceiveMessage
  <2>2. CASE ReceiveRedactionOfNothing
    BY <1>2, <2>2 DEF ReceiveRedactionOfNothing
  <2>3. CASE ReceiveRedaction
    BY <2>3 DEF ReceiveRedaction, Receives, InboxInOrder
  <2>4. CASE DeleteMessage
    BY <2>4 DEF DeleteMessage
  <2>5. CASE SetRedacted
    BY <1>1, <2>5 DEF SetRedacted
  <2> QED BY <1>4, <2>1, <2>2, <2>3, <2>4, <2>5 DEF Receiver
<1>5. ASSUME NEW e \in Events, NEW kind \in Finished, ApplyEmbeds(e, kind)
      PROVE  TreeAndMapAgree'
  BY <1>5 DEF ApplyEmbeds, EmbedStep
<1>6. ASSUME NEW s \in Sends, SendMessage(s) PROVE TreeAndMapAgree'
  BY <1>1, <1>6 DEF SendMessage
<1>7. ASSUME NEW e \in Events, RetryStores(e) PROVE TreeAndMapAgree'
  BY <1>1, <1>7 DEF RetryStores, RetryStep
<1> QED
  BY <1>2, <1>3, <1>4, <1>5, <1>6, <1>7 DEF Next, Arrive, Redact, SendFails, SendAccepted,
     Initialize, LoadNextMessages, PageDone, Listen, Chronological, RetryLoads, RetrySucceeds,
     RetryFails, RetryStep, FetchEmbeds, NoEmbeds, EmbedStep

-----------------------------------------------------------------------------
LEMMA PlaceholdersStep == IInv /\ Next => PlaceholdersReplaceable'
<1> SUFFICES ASSUME IInv, Next PROVE PlaceholdersReplaceable'
  OBVIOUS
<1> USE IdsApart DEF IInv, TypeOK, PlaceholdersReplaceable, storeVars
\* A Set of an event's message clears the nonce it carries with its message,
\* and touches no other placeholder.
<1>1. ASSUME NEW e \in Events, NEW kind \in Kinds \ {"pending", "decrypting"}, NEW nonce,
             Set(e, kind, nonce)
      PROVE  PlaceholdersReplaceable'
  BY <1>1 DEF Set, NoncesAfter
<1>2. ASSUME NEW id \in Ids \ Events, NEW kind \in {"pending", "decrypting"},
             Set(id, kind, 0)
      PROVE  PlaceholdersReplaceable'
  BY <1>2 DEF Set, NoncesAfter
<1>3. CASE UNCHANGED <<tree, nonces>>
  BY <1>3
<1>4. ASSUME NEW e \in Events, HistoryGoroutine(e) PROVE PlaceholdersReplaceable'
  <2> USE DEF Kinds
  <2>1. CASE HistRedacted(e)
    BY <1>1, <1>3, <2>1 DEF HistRedacted
  <2>2. CASE HistPlain(e)
    BY <1>1, <2>2 DEF HistPlain
  <2>3. CASE HistIgnored(e)
    BY <1>3, <2>3 DEF HistIgnored
  <2>4. CASE HistPlaceholder(e)
    BY <1>2, <2>4 DEF HistPlaceholder
  <2>5. CASE HistDecrypted(e)
    BY <1>1, <1>3, <2>5 DEF HistDecrypted
  <2>6. CASE HistKeeps(e)
    BY <2>6 DEF HistKeeps
  <2>7. CASE HistUndecryptable(e)
    BY <1>1, <2>7 DEF HistUndecryptable
  <2> QED BY <1>4, <2>1, <2>2, <2>3, <2>4, <2>5, <2>6, <2>7 DEF HistoryGoroutine
<1>5. CASE Receiver
  <2> USE DEF Kinds
  <2>1. CASE ReceiveMessage
    <3>1. Head(inbox).e \in Events
      BY <2>1, HeadOfInbox DEF ReceiveMessage, Receives
    <3> QED BY <1>1, <2>1, <3>1 DEF ReceiveMessage
  <2>2. CASE ReceiveRedactionOfNothing \/ ReceiveRedaction
    BY <1>3, <2>2 DEF ReceiveRedactionOfNothing, ReceiveRedaction
  <2>3. CASE DeleteMessage
    BY <2>3 DEF DeleteMessage, InboxInOrder
  <2>4. CASE SetRedacted
    BY <1>1, <2>4 DEF SetRedacted, InboxInOrder, RedactedFrom
  <2> QED BY <1>5, <2>1, <2>2, <2>3, <2>4 DEF Receiver
<1>6. ASSUME NEW e \in Events, NEW kind \in Finished, ApplyEmbeds(e, kind)
      PROVE  PlaceholdersReplaceable'
  BY <1>6 DEF ApplyEmbeds, EmbedStep
<1>7. ASSUME NEW s \in Sends, SendMessage(s) PROVE PlaceholdersReplaceable'
  BY <1>2, <1>7 DEF SendMessage
<1>8. ASSUME NEW e \in Events, RetryStores(e) PROVE PlaceholdersReplaceable'
  BY <1>1, <1>8 DEF RetryStores, Kinds
<1> QED
  BY <1>3, <1>4, <1>5, <1>6, <1>7, <1>8 DEF Next, Arrive, Redact, SendFails, SendAccepted,
     Initialize, LoadNextMessages, PageDone, Listen, Chronological, RetryLoads, RetrySucceeds,
     RetryFails, FetchEmbeds, NoEmbeds, EmbedStep

-----------------------------------------------------------------------------
LEMMA UndecryptableStep == IInv /\ Next => UndecryptableReplaceable'
<1> SUFFICES ASSUME IInv, Next PROVE UndecryptableReplaceable'
  OBVIOUS
<1> USE IdsApart DEF IInv, TypeOK, UndecryptableReplaceable, storeVars
\* No nonce but that of a retry is the id of an event.
<1>1. ASSUME NEW id \in Ids, NEW kind \in Kinds \ {"undecryptable"}, NEW nonce,
             nonce \notin Events, Set(id, kind, nonce), UNCHANGED <<raw, retry>>
      PROVE  UndecryptableReplaceable'
  BY <1>1 DEF Set, NoncesAfter
<1>2. CASE /\ UNCHANGED <<tree, revived, raw, nonces>>
           /\ \A e \in Events : "decrypted" \in retry[e] => "decrypted" \in retry'[e]
  BY <1>2
<1>3. ASSUME NEW e \in Events, HistoryGoroutine(e) PROVE UndecryptableReplaceable'
  <2>1. retry' = retry /\ 0 \notin Events
    BY <1>3, BoundsAssumption DEF HistoryGoroutine, HistRedacted, HistPlain, HistIgnored,
       HistPlaceholder, HistDecrypted, HistKeeps, HistUndecryptable, HistStep, Events
  <2> USE <2>1 DEF Kinds
  <2>2. CASE HistRedacted(e)
    BY <1>1, <1>2, <2>2 DEF HistRedacted
  <2>3. CASE HistPlain(e)
    BY <1>1, <2>3 DEF HistPlain
  <2>4. CASE HistIgnored(e)
    BY <1>2, <2>4 DEF HistIgnored
  <2>5. CASE HistPlaceholder(e)
    BY <1>1, <2>5 DEF HistPlaceholder
  <2>6. CASE HistDecrypted(e)
    BY <1>1, <1>2, <2>6 DEF HistDecrypted
  <2>7. CASE HistKeeps(e)
    BY <2>7 DEF HistKeeps
  <2>8. CASE HistUndecryptable(e)
    <3>1. e \in raw /\ e \in nonces
      BY <2>8 DEF HistUndecryptable, HistStep, Retriable
    <3> QED BY <2>8, <3>1 DEF HistUndecryptable, Set, NoncesAfter
  <2> QED BY <1>3, <2>2, <2>3, <2>4, <2>5, <2>6, <2>7, <2>8 DEF HistoryGoroutine
<1>4. CASE Receiver
  <2>1. UNCHANGED <<raw, retry>> /\ 0 \notin Events
    BY <1>4, BoundsAssumption DEF Receiver, ReceiveMessage, ReceiveRedactionOfNothing,
       ReceiveRedaction, DeleteMessage, SetRedacted, ReceiverStep, Events
  <2> USE <2>1 DEF Kinds
  <2>2. CASE ReceiveMessage
    BY <1>1, <2>2, HeadOfInbox DEF ReceiveMessage, Receives, TxnIsPending, EchoNonce
  <2>3. CASE ReceiveRedactionOfNothing \/ ReceiveRedaction
    BY <1>2, <2>3 DEF ReceiveRedactionOfNothing, ReceiveRedaction
  <2>4. CASE DeleteMessage
    BY <2>4 DEF DeleteMessage
  <2>5. CASE SetRedacted
    BY <1>1, <2>5 DEF SetRedacted, InboxInOrder, RedactedFrom
  <2> QED BY <1>4, <2>2, <2>3, <2>4, <2>5 DEF Receiver
\* A preview's undecryptable copy can be retried, or is a revived one.
<1>5. ASSUME NEW e \in Events, NEW kind \in Finished, ApplyEmbeds(e, kind)
      PROVE  UndecryptableReplaceable'
  <2>1. /\ tree' = [tree EXCEPT ![e] = kind]
        /\ revived' = RevivedBy(e, kind)
        /\ UNCHANGED <<raw, nonces, retry>>
    BY <1>5 DEF ApplyEmbeds, EmbedStep
  <2>2. e \in raw => e \in nonces
    BY DEF Retriable
  <2> QED BY <2>1, <2>2 DEF RevivedBy
<1>6. ASSUME NEW s \in Sends, SendMessage(s) PROVE UndecryptableReplaceable'
  BY <1>1, <1>6 DEF SendMessage, Kinds
<1>7. ASSUME NEW e \in Events, RetryLoads(e) \/ RetryFails(e) PROVE UndecryptableReplaceable'
  BY <1>2, <1>7 DEF RetryLoads, RetryFails, RetryStep
<1>8. ASSUME NEW e \in Events, RetrySucceeds(e) PROVE UndecryptableReplaceable'
  BY <1>8 DEF RetrySucceeds, RetryStep
<1>9. ASSUME NEW e \in Events, RetryStores(e) PROVE UndecryptableReplaceable'
  <2>1. /\ Set(e, "plain", e) /\ raw' = raw
        /\ \A d \in Events \ {e} : retry'[d] = retry[d]
    BY <1>9 DEF RetryStores, RetryStep
  <2> QED BY <2>1 DEF Set, NoncesAfter
<1>10. CASE Chronological
  BY <1>2, <1>10 DEF Chronological
<1> QED
  BY <1>2, <1>3, <1>4, <1>5, <1>6, <1>7, <1>8, <1>9, <1>10 DEF Next, Arrive, Redact,
     SendFails, SendAccepted, Initialize, LoadNextMessages, PageDone, Listen, FetchEmbeds,
     NoEmbeds, EmbedStep

-----------------------------------------------------------------------------
\* An event is undecryptable only once its page has stored it so, and a retry
\* takes the encrypted event before it takes the nonce.
LEMMA RetriableStep == IInv /\ Next => Retriable'
<1> SUFFICES ASSUME IInv, Next PROVE Retriable'
  OBVIOUS
<1> USE IdsApart DEF storeVars, pageVars
<1>1. /\ TypeOK /\ Retriable /\ TreeAndMapAgree /\ TxnIsPending /\ InboxInOrder
      /\ 0 \notin Events /\ Events \subseteq Nat
  BY BoundsAssumption DEF IInv, Events
<1>2. CASE UNCHANGED <<token, hist, tree, jobs, recv, retry, raw, nonces>>
  BY <1>1, <1>2 DEF Retriable
\* The goroutine of a page moves on.
<1> DEFINE Onward(e, to) ==
        /\ hist[e] \notin {"none", "done"}
        /\ hist[e] = "kept" => to = "done"
        /\ hist' = [hist EXCEPT ![e] = to]
<1>3. ASSUME UNCHANGED <<token, tree, jobs, recv, retry, raw, nonces>>,
             NEW e \in Events, Onward(e, "done")
      PROVE  Retriable'
  BY <1>1, <1>3 DEF Retriable, TypeOK
\* A Set leaves the nonces of events alone, and one of an undecryptable copy
\* comes after the page.
<1>4. ASSUME NEW id \in Ids, NEW kind \in Kinds, NEW nonce, nonce \notin Events,
             Set(id, kind, nonce), UNCHANGED <<token, raw, retry>>,
             recv' = recv \/ recv' = NoRedaction,
             \/ hist' = hist
             \/ \E e \in Events, to \in {"decrypt", "done"} : Onward(e, to),
             kind \in Undecryptable /\ id \in Events => hist'[id] = "done"
      PROVE  Retriable'
  <2> SUFFICES ASSUME NEW e \in Events
               PROVE  /\ hist'[e] # "none" => token' # -1 /\ token' < e
                      /\ hist'[e] # "done" =>
                             /\ {tree'[e]} \cup jobs'[e] \subseteq Kinds \ Undecryptable
                             /\ recv'.e = e => recv'.kind \notin Undecryptable
                             /\ retry'[e] = {}
                      /\ hist'[e] = "kept" => e \in raw'
                      /\ e \in raw' => /\ hist'[e] \in {"kept", "done"}
                                       /\ e \in nonces'
                                       /\ "decrypted" \notin retry'[e]
    BY DEF Retriable
  <2>1. /\ hist'[e] # "none" => hist[e] # "none"
        /\ hist'[e] # "done" => hist[e] # "done"
        /\ hist'[e] = "kept" => hist[e] = "kept"
        /\ hist[e] \in {"kept", "done"} => hist'[e] \in {"kept", "done"}
    BY <1>1, <1>4 DEF TypeOK
  <2>2. /\ e \in nonces => e \in nonces'
        /\ e # id => /\ tree'[e] \in {tree[e], "absent"}
                     /\ jobs'[e] = jobs[e]
        /\ e = id => /\ tree'[e] = kind
                     /\ jobs'[e] \subseteq jobs[e] \cup {kind}
    BY <1>1, <1>4 DEF Set, NoncesAfter, JobsAfter, TypeOK
  <2>3. recv'.e = e => recv' = recv
    BY <1>1, <1>4 DEF NoRedaction
  <2>4. hist'[e] # "done" => {tree'[e]} \cup jobs'[e] \subseteq Kinds \ Undecryptable
    <3>1. "absent" \in Kinds \ Undecryptable
      BY DEF Kinds, Undecryptable
    <3> QED BY <1>1, <1>4, <2>1, <2>2, <3>1 DEF Retriable
  <2> QED BY <1>1, <1>4, <2>1, <2>2, <2>3, <2>4 DEF Retriable
<1>5. ASSUME NEW e \in Events, HistoryGoroutine(e) PROVE Retriable'
  <2>1. UNCHANGED <<token, recv, retry>>
    BY <1>5 DEF HistoryGoroutine, HistRedacted, HistPlain, HistIgnored, HistPlaceholder,
       HistDecrypted, HistKeeps, HistUndecryptable, HistStep
  <2>2. Placeholder(e) \in Ids \ Events
    OBVIOUS
  <2> USE <1>1, <2>1, <2>2 DEF HistStep, Kinds, Undecryptable
  <2>3. CASE HistRedacted(e)
    BY <1>3, <1>4, <2>3 DEF HistRedacted
  <2>4. CASE HistPlain(e)
    BY <1>4, <2>4 DEF HistPlain
  <2>5. CASE HistIgnored(e)
    BY <1>3, <2>5 DEF HistIgnored
  <2>6. CASE HistPlaceholder(e)
    BY <1>4, <2>6 DEF HistPlaceholder
  <2>7. CASE HistDecrypted(e)
    BY <1>3, <1>4, <2>7 DEF HistDecrypted
  <2>8. CASE HistKeeps(e)
    BY <2>8 DEF HistKeeps, Retriable, TypeOK
  <2>9. CASE HistUndecryptable(e)
    <3>1. hist'[e] = "done" /\ hist[e] = "kept"
      BY <2>9 DEF HistUndecryptable, TypeOK
    <3> QED BY <1>4, <2>9, <3>1 DEF HistUndecryptable
  <2> QED BY <1>5, <2>3, <2>4, <2>5, <2>6, <2>7, <2>8, <2>9 DEF HistoryGoroutine
<1>6. CASE Initialize \/ LoadNextMessages
  <2>1. UNCHANGED <<tree, jobs, recv, retry, raw, nonces>>
    BY <1>6 DEF Initialize, LoadNextMessages
  <2>2. CASE LoadPage
    <3> DEFINE newest == IF token = -1 THEN top ELSE token
               oldest == Oldest(newest)
    <3>1. /\ token' = oldest
          /\ hist' = [e \in Events |-> IF oldest < e /\ e <= newest THEN HistStart(e)
                                       ELSE hist[e]]
      BY <2>2 DEF LoadPage
    <3>2. newest \in Nat /\ oldest \in Nat /\ oldest <= newest /\ token \in Int
      BY <1>1, BoundsAssumption DEF TypeOK, Oldest
    <3>3. \A e \in Events : HistStart(e) \in {"redacted", "start"}
      BY DEF HistStart
    <3>4. \A e \in Events : hist[e] # "none" => newest = token /\ newest < e /\ e \in Nat
      BY <1>1 DEF Retriable
    <3> HIDE DEF newest, oldest
    \* Where the page is, nothing has been loaded.
    <3>5. \A e \in Events : oldest < e /\ e <= newest => hist[e] = "none"
      BY <3>2, <3>4
    <3>6. \A e \in Events : hist[e] # "none" => oldest < e
      BY <3>2, <3>4
    <3>7. \A e \in Events :
              \/ hist'[e] = hist[e] /\ (hist[e] # "none" => oldest < e)
              \/ hist[e] = "none" /\ hist'[e] \in {"redacted", "start"} /\ oldest < e
      BY <3>1, <3>3, <3>5, <3>6
    <3>8. oldest # -1
      BY <3>2
    <3> QED BY <1>1, <2>1, <3>1, <3>7, <3>8 DEF Retriable
  <2> QED BY <1>2, <1>6, <2>1, <2>2 DEF Initialize, LoadNextMessages
<1>7. CASE Receiver
  <2>1. UNCHANGED <<token, hist, raw, retry>>
    BY <1>7 DEF Receiver, ReceiveMessage, ReceiveRedactionOfNothing, ReceiveRedaction,
       DeleteMessage, SetRedacted, ReceiverStep
  <2>2. CASE ReceiveMessage
    <3>1. /\ inbox # <<>> /\ recv' = recv
          /\ Set(Head(inbox).e, "plain", txn[Head(inbox).e])
      BY <2>2 DEF ReceiveMessage, Receives, EchoNonce
    <3>2. Head(inbox).e \in Events /\ txn[Head(inbox).e] \notin Events
      BY <1>1, <3>1, HeadOfInbox DEF TxnIsPending
    <3> QED BY <1>4, <2>1, <3>1, <3>2 DEF Kinds, Undecryptable
  <2>3. CASE ReceiveRedactionOfNothing
    BY <1>2, <2>1, <2>3 DEF ReceiveRedactionOfNothing
  <2>4. CASE ReceiveRedaction
    <3> DEFINE e == Head(inbox).e
    <3>1. /\ recv.stage = "idle" /\ inbox # <<>>
          /\ recv' = [stage |-> "taken", e |-> e, kind |-> messagesMap[e]]
          /\ UNCHANGED <<tree, nonces, jobs>>
      BY <2>4 DEF ReceiveRedaction, Receives
    <3>2. e \in Events
      BY <1>1, <3>1, HeadOfInbox
    <3>3. messagesMap[e] = tree[e]
      BY <1>1, <3>1, <3>2 DEF TreeAndMapAgree
    <3> HIDE DEF e
    <3> QED BY <1>1, <2>1, <3>1, <3>2, <3>3 DEF Retriable
  <2>5. CASE DeleteMessage
    BY <1>1, <2>1, <2>5 DEF DeleteMessage, Retriable, TypeOK, Kinds, Undecryptable
  <2>6. CASE SetRedacted
    <3>1. /\ Set(recv.e, RedactedFrom(recv.kind), 0) /\ recv.stage # "idle"
          /\ recv' = NoRedaction
      BY <2>6 DEF SetRedacted
    <3>2. /\ recv.e \in Events
          /\ RedactedFrom(recv.kind) \in Kinds
          /\ RedactedFrom(recv.kind) \in Undecryptable => recv.kind \in Undecryptable
      BY <1>1, <3>1 DEF InboxInOrder, RedactedFrom, Kinds, Undecryptable
    <3>3. recv.kind \in Undecryptable => hist[recv.e] = "done"
      BY <1>1, <3>2 DEF Retriable
    <3> QED BY <1>1, <1>4, <2>1, <3>1, <3>2, <3>3
  <2> QED BY <1>7, <2>2, <2>3, <2>4, <2>5, <2>6 DEF Receiver
<1>8. ASSUME NEW s \in Sends, SendMessage(s) PROVE Retriable'
  BY <1>1, <1>4, <1>8 DEF SendMessage, Kinds, Undecryptable
<1>9. CASE Chronological
  BY <1>1, <1>9 DEF Chronological, Retriable, TypeOK
<1>10. ASSUME NEW e \in Events, RetryLoads(e) \/ RetrySucceeds(e) \/ RetryFails(e)
       PROVE  Retriable'
  BY <1>1, <1>10 DEF RetryLoads, RetrySucceeds, RetryFails, RetryStep, Retriable, TypeOK
<1>11. ASSUME NEW e \in Events, RetryStores(e) PROVE Retriable'
  <2>1. /\ Set(e, "plain", e) /\ UNCHANGED <<token, hist, recv, raw>>
        /\ "decrypted" \in retry[e]
        /\ \A d \in Events \ {e} : retry'[d] = retry[d]
    BY <1>11 DEF RetryStores, RetryStep
  <2>2. hist[e] = "done" /\ e \notin raw
    BY <1>1, <2>1 DEF Retriable
  <2>3. \A d \in Events \ {e} : /\ tree'[d] = tree[d] /\ jobs'[d] = jobs[d]
                                /\ d \in nonces => d \in nonces'
    BY <1>1, <2>1 DEF Set, NoncesAfter, JobsAfter, TypeOK
  <2> QED BY <1>1, <2>1, <2>2, <2>3 DEF Retriable
<1>12. ASSUME NEW e \in Events, NEW kind \in Finished, ApplyEmbeds(e, kind) \/ NoEmbeds(e, kind)
       PROVE  Retriable'
  <2>1. /\ UNCHANGED <<token, hist, recv, retry, raw, nonces>>
        /\ kind \in jobs[e]
    BY <1>12 DEF ApplyEmbeds, NoEmbeds, EmbedStep
  <2>2. \A d \in Events : jobs'[d] \subseteq jobs[d]
    BY <1>1, <1>12 DEF ApplyEmbeds, NoEmbeds, EmbedStep, TypeOK
  <2>3. \A d \in Events : tree'[d] = tree[d] \/ (d = e /\ tree'[d] = kind)
    BY <1>1, <1>12 DEF ApplyEmbeds, NoEmbeds, TypeOK
  <2> QED BY <1>1, <2>1, <2>2, <2>3 DEF Retriable
<1> QED
  BY <1>2, <1>5, <1>6, <1>7, <1>8, <1>9, <1>10, <1>11, <1>12 DEF Next, Arrive, Redact,
     SendFails, SendAccepted, PageDone, Listen, FetchEmbeds

-----------------------------------------------------------------------------
LEMMA TxnStep == IInv /\ Next => TxnIsPending'
<1> SUFFICES ASSUME IInv, Next PROVE TxnIsPending'
  OBVIOUS
<1>1. ASSUME NEW s \in Sends, NEW live \in BOOLEAN, SendAccepted(s, live)
      PROVE  TxnIsPending'
  BY <1>1, IdsApart DEF IInv, TypeOK, TxnIsPending, SendAccepted
<1>2. CASE UNCHANGED txn
  BY <1>2 DEF IInv, TxnIsPending
<1> QED
  BY <1>1, <1>2 DEF Next, Arrive, Redact, SendMessage, SendFails, Initialize,
     LoadNextMessages, PageDone, Listen, HistoryGoroutine, HistRedacted, HistPlain,
     HistIgnored, HistPlaceholder, HistDecrypted, HistKeeps, HistUndecryptable, HistStep,
     Receiver, ReceiveMessage, ReceiveRedactionOfNothing, ReceiveRedaction, DeleteMessage,
     SetRedacted, ReceiverStep, Chronological, RetryLoads, RetrySucceeds,
     RetryStores, RetryFails, RetryStep, FetchEmbeds, ApplyEmbeds, NoEmbeds, EmbedStep,
     serverVars

-----------------------------------------------------------------------------
\* An event appended to the inbox: a message is newer than every redaction
\* there, and a redaction goes to the end.
LEMMA AppendInOrder ==
    ASSUME IInv, NEW e \in Events, NEW type \in {"message", "redaction"},
           NEW live \in BOOLEAN, Live(type, e, live),
           top' \in Nat, top <= top', e <= top', gone \subseteq gone', UNCHANGED recv,
           type = "message" => top < e, type = "redaction" => e \in gone'
    PROVE  InboxInOrder'
<1>1. /\ inbox \in Seq(LiveEvents) /\ top \in Nat /\ e \in Nat
      /\ InboxInOrder /\ recv' = recv
      /\ \A i \in 1..Len(inbox) : inbox[i].e \in Nat
  <2>1. inbox \in Seq(LiveEvents) /\ top \in Nat /\ e \in Nat
    BY BoundsAssumption DEF IInv, TypeOK, Events
  <2>2. \A i \in 1..Len(inbox) : inbox[i] \in LiveEvents
    BY <2>1
  <2> QED BY <2>1, <2>2, BoundsAssumption DEF IInv, LiveEvents, Events
<1>2. CASE inbox' = inbox
  <2>1. \A i \in 1..Len(inbox) : inbox[i].e <= top'
    BY <1>1 DEF InboxInOrder
  <2>2. recv.stage # "idle" => recv.e \in Events /\ recv.e <= top'
    BY <1>1, BoundsAssumption DEF InboxInOrder, Events
  <2> QED BY <1>1, <1>2, <2>1, <2>2 DEF InboxInOrder, MessagesAhead
<1>3. CASE inbox' = Append(inbox, [type |-> type, e |-> e])
  <2>1. [type |-> type, e |-> e] \in LiveEvents
    BY DEF LiveEvents
  <2>2. /\ Len(inbox') = Len(inbox) + 1
        /\ \A i \in 1..Len(inbox) : inbox'[i] = inbox[i]
        /\ inbox'[Len(inbox) + 1].type = type
        /\ inbox'[Len(inbox) + 1].e = e
        /\ Len(inbox) \in Nat
    BY <1>1, <1>3, <2>1
  <2>3. \A i \in 1..Len(inbox') : i \in 1..Len(inbox) \/ i = Len(inbox) + 1
    BY <2>2
  <2>5. \A i \in 1..Len(inbox') : inbox'[i].e <= top'
    BY <1>1, <2>2, <2>3 DEF InboxInOrder
  <2>6. \A i \in 1..Len(inbox') : inbox'[i].type = "redaction" => inbox'[i].e \in gone'
    BY <1>1, <2>2, <2>3 DEF InboxInOrder
  <2>7. ASSUME NEW i \in 1..Len(inbox'), NEW j \in 1..Len(inbox'), i < j,
               inbox'[i].type = "redaction", inbox'[j].type = "message"
        PROVE  inbox'[i].e # inbox'[j].e
    <3>1. i \in 1..Len(inbox)
      BY <2>2, <2>7
    <3>2. CASE j \in 1..Len(inbox)
      BY <1>1, <2>2, <2>7, <3>1, <3>2 DEF InboxInOrder
    <3>3. CASE j = Len(inbox) + 1
      BY <1>1, <2>2, <2>7, <3>1, <3>3 DEF InboxInOrder
    <3> QED BY <2>3, <3>2, <3>3
  <2>8. recv.stage # "idle" => /\ recv'.e \notin MessagesAhead'
                              /\ recv.e \in Events /\ recv.e <= top'
    <3>1. recv.stage # "idle" =>
            /\ recv.e \in Events /\ recv.e <= top /\ recv.e \in Nat
            /\ recv.e \notin MessagesAhead
      BY <1>1, BoundsAssumption DEF InboxInOrder, Events
    <3>2. type = "message" /\ recv.stage # "idle" => recv.e # e
      BY <1>1, <3>1
    <3>3. recv.stage # "idle" => recv.e \notin MessagesAhead'
      BY <2>2, <2>3, <3>1, <3>2 DEF MessagesAhead
    <3> QED BY <1>1, <3>1, <3>3
  <2> QED BY <1>1, <2>5, <2>6, <2>7, <2>8 DEF InboxInOrder, MessagesAhead
<1> QED BY <1>2, <1>3 DEF Live

\* The receiver takes the first event of the inbox.
LEMMA TailInOrder ==
    ASSUME IInv, inbox # <<>>, inbox' = Tail(inbox), UNCHANGED <<top, gone>>
    PROVE  /\ \A i \in 1..Len(inbox') : inbox'[i].e <= top'
           /\ \A i, j \in 1..Len(inbox') :
                  i < j /\ inbox'[i].type = "redaction" /\ inbox'[j].type = "message"
                      => inbox'[i].e # inbox'[j].e
           /\ \A i \in 1..Len(inbox') : inbox'[i].type = "redaction" => inbox'[i].e \in gone'
           /\ MessagesAhead' \subseteq MessagesAhead
           /\ Head(inbox).type = "message" => Head(inbox).e \in MessagesAhead
           /\ Head(inbox).type = "redaction" =>
                  /\ Head(inbox).e \notin MessagesAhead'
                  /\ Head(inbox).e \in gone
                  /\ Head(inbox).e <= top
<1>1. /\ InboxInOrder /\ TypeOK
      /\ Head(inbox) = inbox[1] /\ 1 \in 1..Len(inbox)
      /\ \A i \in 1..Len(inbox') :
             i + 1 \in 1..Len(inbox) /\ inbox'[i] = inbox[i + 1] /\ 1 < i + 1
  BY HeadOfInbox DEF IInv
<1>2. \A i, j \in 1..Len(inbox') : i < j => i + 1 < j + 1
  OBVIOUS
<1>3. ASSUME NEW i \in 1..Len(inbox'), NEW j \in 1..Len(inbox'), i < j,
             inbox'[i].type = "redaction", inbox'[j].type = "message"
      PROVE  inbox'[i].e # inbox'[j].e
  BY <1>1, <1>2, <1>3 DEF InboxInOrder
<1>4. ASSUME Head(inbox).type = "redaction"
      PROVE  \A i \in 1..Len(inbox') : inbox'[i].type = "message"
                                          => inbox'[i].e # inbox[1].e
  BY <1>1, <1>4 DEF InboxInOrder
<1>5. MessagesAhead' \subseteq MessagesAhead
  BY <1>1 DEF MessagesAhead
<1>6. Head(inbox).e \in Events
  BY <1>1, HeadOfInbox
<1> QED BY <1>1, <1>3, <1>4, <1>5, <1>6 DEF InboxInOrder, MessagesAhead

LEMMA InboxStep == IInv /\ Next => InboxInOrder'
<1> SUFFICES ASSUME IInv, Next PROVE InboxInOrder'
  OBVIOUS
<1> USE DEF serverVars, storeVars
<1>1. TypeOK /\ top \in Nat /\ top + 1 \in Nat
  BY BoundsAssumption DEF IInv, TypeOK
<1>2. ASSUME NEW live \in BOOLEAN, Arrive(live) PROVE InboxInOrder'
  <2>1. top + 1 \in Events /\ (live /\ top + 1 \in Messages) \in BOOLEAN
    BY <1>1, <1>2, BoundsAssumption DEF Arrive, Events
  <2>2. Live("message", top + 1, live /\ top + 1 \in Messages)
    BY <1>2 DEF Arrive
  <2>3. /\ top' = top + 1 /\ top < top + 1 /\ top <= top' /\ top + 1 <= top'
        /\ gone' = gone /\ recv' = recv
    BY <1>1, <1>2 DEF Arrive
  <2> HIDE <1>2
  <2> QED BY <1>1, <2>1, <2>2, <2>3, AppendInOrder
<1>3. ASSUME NEW e \in Events, NEW live \in BOOLEAN, Redact(e, live) PROVE InboxInOrder'
  BY <1>1, <1>3, AppendInOrder DEF Redact
<1>4. ASSUME NEW s \in Sends, NEW live \in BOOLEAN, SendAccepted(s, live)
      PROVE  InboxInOrder'
  <2>1. top + 1 \in Events
    BY <1>1, <1>4, BoundsAssumption DEF SendAccepted, Events
  <2> QED BY <1>1, <1>4, <2>1, AppendInOrder DEF SendAccepted
<1>5. CASE UNCHANGED <<top, gone, inbox, recv>>
  BY <1>5 DEF IInv, InboxInOrder, MessagesAhead
<1>6. CASE Receiver
  <2>1. CASE ReceiveMessage \/ ReceiveRedactionOfNothing
    BY <2>1, TailInOrder DEF ReceiveMessage, ReceiveRedactionOfNothing, Receives,
       ReceiverStep, IInv, InboxInOrder
  <2>2. CASE ReceiveRedaction
    <3>1. /\ inbox # <<>> /\ inbox' = Tail(inbox) /\ Head(inbox).type = "redaction"
          /\ recv'.e = Head(inbox).e /\ recv'.stage = "taken"
          /\ UNCHANGED <<top, gone>>
      BY <2>2 DEF ReceiveRedaction, Receives, ReceiverStep
    <3>2. Head(inbox).e \in Events
      BY <1>1, <3>1, HeadOfInbox
    <3>3. recv'.e \notin MessagesAhead'
      BY <3>1, TailInOrder DEF MessagesAhead
    <3> QED BY <3>1, <3>2, <3>3, TailInOrder DEF InboxInOrder
  <2>3. CASE DeleteMessage
    BY <1>1, <2>3 DEF DeleteMessage, ReceiverStep, IInv, TypeOK, InboxInOrder, MessagesAhead
  <2>4. CASE SetRedacted
    BY <2>4 DEF SetRedacted, ReceiverStep, NoRedaction, IInv, InboxInOrder, MessagesAhead
  <2> QED BY <1>6, <2>1, <2>2, <2>3, <2>4 DEF Receiver
<1> QED
  BY <1>2, <1>3, <1>4, <1>5, <1>6 DEF Next, SendMessage, SendFails, Initialize,
     LoadNextMessages, PageDone, Listen, HistoryGoroutine, HistRedacted, HistPlain,
     HistIgnored, HistPlaceholder, HistDecrypted, HistKeeps, HistUndecryptable, HistStep,
     Chronological, RetryLoads, RetrySucceeds, RetryStores, RetryFails, RetryStep,
     FetchEmbeds, ApplyEmbeds, NoEmbeds, EmbedStep

-----------------------------------------------------------------------------
\* A Set of a sealed event's message is the Set of a redacted one.
LEMMA SetKeepsSealed ==
    ASSUME IInv, NEW e \in sealed, NEW id \in Ids, NEW kind \in Kinds, NEW nonce,
           Set(id, kind, nonce), id = e => kind \in Redacted,
           nonce \notin Events \/ nonce = id
    PROVE  /\ tree'[e] \in Redacted \/ (recv.e = e /\ id # e)
           /\ {"plain", "undecryptable"} \cap jobs'[e] = {}
  BY IdsApart DEF Set, JobsAfter, IInv, TypeOK, SealedIsFinal, OlderCopy, Redacted

\* Only a new message gets ahead.
LEMMA LiveAhead ==
    ASSUME IInv, NEW e \in Events, NEW type \in {"message", "redaction"},
           NEW live \in BOOLEAN, Live(type, e, live)
    PROVE  \A d \in Events : d \in MessagesAhead' =>
               d \in MessagesAhead \/ (type = "message" /\ d = e)
<1>1. inbox \in Seq(LiveEvents)
  BY DEF IInv, TypeOK
<1>2. CASE inbox' = inbox
  <2>1. MessagesAhead' = MessagesAhead
    BY <1>2 DEF MessagesAhead
  <2> QED BY <2>1
<1>3. CASE inbox' = Append(inbox, [type |-> type, e |-> e])
  <2>1. [type |-> type, e |-> e] \in LiveEvents
    BY DEF LiveEvents
  <2>2. /\ Len(inbox) \in Nat
        /\ \A i \in 1..Len(inbox) : inbox'[i] = inbox[i]
        /\ inbox'[Len(inbox) + 1].type = type
        /\ inbox'[Len(inbox) + 1].e = e
        /\ \A i \in 1..Len(inbox') : i \in 1..Len(inbox) \/ i = Len(inbox) + 1
    BY <1>1, <1>3, <2>1
  <2> SUFFICES ASSUME NEW d \in Events, NEW i \in 1..Len(inbox'),
                      inbox'[i].type = "message", inbox'[i].e = d
               PROVE  d \in MessagesAhead \/ (type = "message" /\ d = e)
    BY DEF MessagesAhead
  <2>3. CASE i \in 1..Len(inbox)
    BY <2>2, <2>3 DEF MessagesAhead
  <2>4. CASE i = Len(inbox) + 1
    BY <2>2, <2>4
  <2> QED BY <2>2, <2>3, <2>4
<1> QED BY <1>2, <1>3 DEF Live

\* A sealed event stays so, and an event is sealed when its redaction finds
\* no older copy.
LEMMA SealedStep == IInv /\ Next => SealedIsFinal'
<1> SUFFICES ASSUME IInv, Next PROVE SealedIsFinal'
  OBVIOUS
<1> USE IdsApart DEF serverVars, storeVars, pageVars
<1> DEFINE Older == {"plain", "undecryptable"}
           Loading == {"start", "decrypt", "kept"}
           Retrying == {"decrypt", "decrypted"}
<1>1. /\ TypeOK /\ top \in Nat
      /\ \A e \in sealed :
            /\ e \in Events /\ e \in Nat
            /\ e \in gone /\ e <= top /\ e \notin MessagesAhead
            /\ tree[e] \in Redacted \/ recv.e = e
            /\ Older \cap jobs[e] = {} /\ hist[e] \notin Loading
            /\ e \notin raw /\ Retrying \cap retry[e] = {}
  BY BoundsAssumption DEF IInv, TypeOK, SealedIsFinal, OlderCopy, Events
<1> DEFINE Ok(e) ==
        /\ e \in gone' /\ e <= top' /\ e \notin MessagesAhead'
        /\ tree'[e] \in Redacted \/ recv'.e = e
        /\ Older \cap jobs'[e] = {} /\ hist'[e] \notin Loading
        /\ e \notin raw' /\ Retrying \cap retry'[e] = {}
<1>2. (\A e \in sealed' : Ok(e)) => SealedIsFinal'
  BY DEF SealedIsFinal, OlderCopy
<1>3. UNCHANGED inbox => MessagesAhead' = MessagesAhead
  BY DEF MessagesAhead
<1>4. CASE UNCHANGED <<tree, jobs, recv, raw, sealed, top, gone, inbox>>
           /\ \A e \in sealed : hist'[e] \notin Loading /\ Retrying \cap retry'[e] = {}
  BY <1>1, <1>2, <1>3, <1>4
<1>5. ASSUME NEW live \in BOOLEAN, Arrive(live) PROVE SealedIsFinal'
  <2>1. top + 1 \in Events /\ (live /\ top + 1 \in Messages) \in BOOLEAN
    BY <1>1, <1>5, BoundsAssumption DEF Arrive, Events
  <2>2. \A d \in Events : d \in MessagesAhead' => d \in MessagesAhead \/ d = top + 1
    BY <1>5, <2>1, LiveAhead DEF Arrive
  <2> QED BY <1>1, <1>2, <1>5, <2>2 DEF Arrive
<1>6. ASSUME NEW s \in Sends, NEW live \in BOOLEAN, SendAccepted(s, live)
      PROVE  SealedIsFinal'
  <2>1. top + 1 \in Events
    BY <1>1, <1>6, BoundsAssumption DEF SendAccepted, Events
  <2>2. \A d \in Events : d \in MessagesAhead' => d \in MessagesAhead \/ d = top + 1
    BY <1>6, <2>1, LiveAhead DEF SendAccepted
  <2> QED BY <1>1, <1>2, <1>6, <2>2 DEF SendAccepted
<1>7. ASSUME NEW e \in Events, NEW live \in BOOLEAN, Redact(e, live) PROVE SealedIsFinal'
  <2>1. \A d \in Events : d \in MessagesAhead' => d \in MessagesAhead
    BY <1>7, LiveAhead DEF Redact
  <2> QED BY <1>1, <1>2, <1>7, <2>1 DEF Redact
<1>8. ASSUME NEW s \in Sends, SendMessage(s) PROVE SealedIsFinal'
  <2>1. Set(PendingId(s), "pending", 0)
    BY <1>8 DEF SendMessage
  <2>2. \A e \in sealed : /\ tree'[e] \in Redacted \/ recv.e = e
                          /\ Older \cap jobs'[e] = {}
    BY <1>1, <2>1, SetKeepsSealed DEF Kinds
  <2> QED BY <1>1, <1>2, <1>3, <1>8, <2>2 DEF SendMessage
<1>9. LoadPage => \A e \in sealed : hist'[e] \notin Loading
  BY <1>1 DEF LoadPage, HistStart, TypeOK
<1>10. CASE Initialize \/ LoadNextMessages
  <2>1. \A e \in sealed : hist'[e] \notin Loading /\ Retrying \cap retry'[e] = {}
    BY <1>1, <1>9, <1>10 DEF Initialize, LoadNextMessages
  <2> QED BY <1>4, <1>10, <2>1 DEF Initialize, LoadNextMessages
<1>11. CASE PageDone \/ Listen \/ \E s \in Sends : SendFails(s)
  BY <1>1, <1>4, <1>11 DEF PageDone, Listen, SendFails
<1>12. ASSUME NEW e \in Events, HistoryGoroutine(e) PROVE SealedIsFinal'
  <2>1. /\ UNCHANGED <<serverVars, inbox, recv, retry, sealed>>
        /\ \A d \in sealed : hist'[d] \notin Loading
    BY <1>1, <1>12 DEF HistoryGoroutine, HistRedacted, HistPlain, HistIgnored,
       HistPlaceholder, HistDecrypted, HistKeeps, HistUndecryptable, HistStep, TypeOK
  <2>2. ASSUME NEW id \in Ids, NEW kind \in Kinds, NEW nonce,
               Set(id, kind, nonce), nonce \notin Events,
               id \in sealed => kind \in Redacted, \A d \in sealed : d \notin raw'
        PROVE  SealedIsFinal'
    <3>1. \A d \in sealed : /\ tree'[d] \in Redacted \/ recv.e = d
                            /\ Older \cap jobs'[d] = {}
      BY <2>2, SetKeepsSealed
    <3> QED BY <1>1, <1>2, <1>3, <2>1, <2>2, <3>1
  <2>3. 0 \notin Events /\ e \in Ids
    BY BoundsAssumption DEF Events
  <2> USE DEF Kinds
  <2>4. CASE HistRedacted(e)
    BY <1>1, <1>4, <2>1, <2>2, <2>3, <2>4 DEF HistRedacted, Redacted
  <2>5. CASE HistPlain(e)
    BY <1>1, <2>2, <2>3, <2>5 DEF HistPlain, HistStep
  <2>6. CASE HistIgnored(e)
    BY <1>1, <1>4, <2>1, <2>6 DEF HistIgnored
  <2>7. CASE HistPlaceholder(e)
    BY <1>1, <2>2, <2>3, <2>7 DEF HistPlaceholder
  <2>8. CASE HistDecrypted(e)
    BY <1>1, <1>4, <2>1, <2>2, <2>3, <2>8 DEF HistDecrypted, HistStep
  <2>9. CASE HistKeeps(e)
    BY <1>1, <1>2, <1>3, <2>1, <2>9 DEF HistKeeps, HistStep
  <2>10. CASE HistUndecryptable(e)
    BY <1>1, <2>2, <2>3, <2>10 DEF HistUndecryptable, HistStep
  <2> QED BY <1>12, <2>4, <2>5, <2>6, <2>7, <2>8, <2>9, <2>10 DEF HistoryGoroutine
<1>13. CASE Receiver
  <2>1. /\ UNCHANGED <<top, gone, raw, hist, retry>>
        /\ \/ UNCHANGED inbox
           \/ inbox # <<>> /\ recv.stage = "idle" /\ inbox' = Tail(inbox)
    BY <1>13 DEF Receiver, ReceiveMessage, ReceiveRedactionOfNothing, ReceiveRedaction,
       DeleteMessage, SetRedacted, Receives, ReceiverStep
  <2>2. MessagesAhead' \subseteq MessagesAhead
    BY <1>3, <2>1, TailInOrder
  <2>3. recv.stage = "idle" => recv.e \notin Events
    BY BoundsAssumption DEF IInv, InboxInOrder, Events
  <2>4. CASE ReceiveMessage
    <3> DEFINE e == Head(inbox).e
    <3>1. /\ inbox # <<>> /\ Head(inbox).type = "message" /\ inbox' = Tail(inbox)
          /\ Set(e, "plain", txn[e]) /\ UNCHANGED <<recv, sealed>>
      BY <2>4 DEF ReceiveMessage, Receives, EchoNonce
    <3>2. e \in Events /\ e \in MessagesAhead /\ txn[e] \notin Events
      BY <1>1, <2>1, <3>1, HeadOfInbox, TailInOrder DEF IInv, TxnIsPending
    <3>3. \A d \in sealed : /\ tree'[d] \in Redacted \/ recv.e = d
                            /\ Older \cap jobs'[d] = {}
      BY <1>1, <3>1, <3>2, SetKeepsSealed DEF Kinds
    <3> QED BY <1>1, <1>2, <2>1, <2>2, <3>1, <3>3
  <2>5. CASE ReceiveRedactionOfNothing \/ ReceiveRedaction
    BY <1>1, <1>2, <2>1, <2>2, <2>3, <2>5 DEF ReceiveRedactionOfNothing, ReceiveRedaction, Receives
  <2>6. CASE DeleteMessage
    BY <1>1, <1>2, <2>1, <2>2, <2>6 DEF DeleteMessage, TypeOK
  <2>7. CASE SetRedacted
    <3>1. /\ Set(recv.e, RedactedFrom(recv.kind), 0) /\ recv.stage # "idle"
          /\ sealed' = IF OlderCopy(recv.e) THEN sealed ELSE sealed \cup {recv.e}
      BY <2>7 DEF SetRedacted
    <3>2. /\ recv.e \in Events /\ recv.e \in gone /\ recv.e <= top
          /\ recv.e \notin MessagesAhead
          /\ RedactedFrom(recv.kind) \in Redacted /\ RedactedFrom(recv.kind) # "plain"
          /\ RedactedFrom(recv.kind) \in Kinds
      BY <3>1 DEF IInv, InboxInOrder, RedactedFrom, Redacted, Kinds
    <3>3. \A d \in sealed : /\ tree'[d] \in Redacted
                            /\ Older \cap jobs'[d] = {}
      <4>1. 0 \notin Events
        BY BoundsAssumption DEF Events
      <4>2. tree'[recv.e] \in Redacted
        BY <3>1, <3>2 DEF Set
      <4> QED BY <1>1, <3>1, <3>2, <4>1, <4>2, SetKeepsSealed
    <3>4. ASSUME ~OlderCopy(recv.e) PROVE Ok(recv.e)
      <4>1. Older \cap jobs'[recv.e] = {}
        BY <1>1, <3>1, <3>2, <3>4 DEF OlderCopy, Set, JobsAfter, TypeOK, Redacted
      <4>2. tree'[recv.e] \in Redacted
        BY <1>1, <3>1, <3>2 DEF Set, TypeOK
      <4> QED BY <2>1, <2>2, <3>2, <3>4, <4>1, <4>2 DEF OlderCopy
    <3> QED BY <1>1, <1>2, <2>1, <2>2, <3>1, <3>3, <3>4
  <2> QED BY <1>13, <2>4, <2>5, <2>6, <2>7 DEF Receiver
<1>14. CASE Chronological
  BY <1>1, <1>4, <1>14 DEF Chronological, TypeOK
<1>15. ASSUME NEW e \in Events, RetryLoads(e) \/ RetrySucceeds(e) \/ RetryFails(e)
       PROVE  SealedIsFinal'
  <2>1. /\ UNCHANGED <<tree, jobs, recv, sealed, top, gone, inbox, hist>>
        /\ raw' \subseteq raw
    BY <1>15 DEF RetryLoads, RetrySucceeds, RetryFails, RetryStep
  <2>2. \A d \in sealed : Retrying \cap retry'[d] = {}
    BY <1>1, <1>15 DEF RetryLoads, RetrySucceeds, RetryFails, RetryStep, TypeOK
  <2> QED BY <1>1, <1>2, <1>3, <2>1, <2>2
<1>16. ASSUME NEW e \in Events, RetryStores(e) PROVE SealedIsFinal'
  <2>1. e \notin sealed /\ Set(e, "plain", e)
    BY <1>1, <1>16 DEF RetryStores, RetryStep
  <2>2. \A d \in sealed : /\ tree'[d] \in Redacted \/ recv.e = d
                          /\ Older \cap jobs'[d] = {}
    BY <1>1, <2>1, SetKeepsSealed DEF Kinds
  <2>3. \A d \in sealed : Retrying \cap retry'[d] = {}
    BY <1>1, <1>16 DEF RetryStores, RetryStep, TypeOK
  <2> QED BY <1>1, <1>2, <1>3, <1>16, <2>2, <2>3 DEF RetryStores, RetryStep
<1>17. ASSUME NEW e \in Events, NEW kind \in Finished, ApplyEmbeds(e, kind) \/ NoEmbeds(e, kind)
       PROVE  SealedIsFinal'
  <2>1. e \in sealed => kind \in Redacted
    BY <1>1, <1>17 DEF ApplyEmbeds, NoEmbeds, EmbedStep, Finished, WithBody, Redacted
  <2>2. \A d \in sealed : /\ tree'[d] \in Redacted \/ recv.e = d
                          /\ Older \cap jobs'[d] = {}
    BY <1>1, <1>17, <2>1 DEF ApplyEmbeds, NoEmbeds, EmbedStep, TypeOK
  <2> QED BY <1>1, <1>2, <1>3, <1>17, <2>2 DEF ApplyEmbeds, NoEmbeds, EmbedStep
<1>18. ASSUME NEW e \in Events, FetchEmbeds(e) PROVE SealedIsFinal'
  BY <1>1, <1>4, <1>18 DEF FetchEmbeds
<1> QED
  BY <1>5, <1>6, <1>7, <1>8, <1>10, <1>11, <1>12, <1>13, <1>14, <1>15, <1>16, <1>17, <1>18
     DEF Next

-----------------------------------------------------------------------------
\* A Set takes no event's message away.
LEMMA SetKeepsStored ==
    ASSUME IInv, NEW e \in Events, NEW id \in Ids, NEW kind \in Kinds \ {"absent"},
           NEW nonce, Set(id, kind, nonce),
           nonce \notin Events \/ nonce = id, tree[e] # "absent" \/ id = e
    PROVE  tree'[e] # "absent"
  BY IdsApart DEF Set, IInv, TypeOK

\* Pages are contiguous, and what a finished goroutine has stored stays.
LEMMA PagesStep == IInv /\ Next => Pages'
<1> SUFFICES ASSUME IInv, Next PROVE Pages'
  OBVIOUS
<1> USE IdsApart DEF serverVars, storeVars, pageVars
<1>1. /\ TypeOK /\ Pages /\ TxnIsPending /\ InboxInOrder
      /\ 0 \notin Events /\ Events \subseteq Nat
  BY BoundsAssumption DEF IInv, Events
\* Stored(e): e is in the tree, or being redacted.
<1> DEFINE Stored(e) == tree[e] # "absent" \/ recv.e = e
           StoredNext(e) == tree'[e] # "absent" \/ recv'.e = e
<1>2. ASSUME UNCHANGED <<pageVars, hist>>, \A e \in Events : Stored(e) => StoredNext(e)
      PROVE  Pages'
  BY <1>1, <1>2, EventsAssumption DEF Pages
<1>3. CASE UNCHANGED <<pageVars, hist, tree, recv>>
  BY <1>2, <1>3
<1>4. CASE LoadPage /\ UNCHANGED <<tree, recv>>
  <2> DEFINE newest == IF token = -1 THEN top ELSE token
             oldest == Oldest(newest)
  <2>1. /\ loading' = TRUE /\ token' = oldest /\ noMoreHistory' = (oldest = 0)
        /\ first' = IF token = -1 THEN top ELSE first
        /\ hist' = [e \in Events |-> IF oldest < e /\ e <= newest THEN HistStart(e)
                                     ELSE hist[e]]
    BY <1>4 DEF LoadPage
  <2>2. oldest \in Nat /\ newest \in Nat /\ token' # -1
    BY <1>1, <2>1, BoundsAssumption DEF TypeOK, Oldest
  <2>3. \A e \in Events : HistStart(e) \notin {"none", "done"}
    BY DEF HistStart
  <2>4. ASSUME NEW e \in Events, token' < e, e <= first' PROVE hist'[e] # "none"
    <3>1. oldest < e /\ e \in Nat
      BY <1>1, <2>1, <2>4
    <3>2. CASE e <= newest
      BY <2>1, <2>3, <3>1, <3>2
    <3>3. CASE ~(e <= newest)
      <4>1. token # -1 /\ token < e /\ e <= first
        BY <1>1, <2>1, <2>2, <2>4, <3>1, <3>3
      <4>2. hist[e] # "none"
        BY <1>1, <4>1 DEF Pages
      <4> QED BY <2>1, <3>3, <4>2
    <3> QED BY <3>2, <3>3
  <2>5. ASSUME NEW e \in Messages \cap Encrypted, hist'[e] = "done" PROVE StoredNext(e)
    <3>1. e \in Events
      BY EventsAssumption
    <3>2. hist[e] = "done"
      BY <2>1, <2>3, <2>5, <3>1
    <3> QED BY <1>1, <1>4, <3>2 DEF Pages
  <2> QED BY <2>1, <2>2, <2>4, <2>5 DEF Pages
<1>5. CASE Initialize \/ LoadNextMessages
  BY <1>3, <1>4, <1>5, <1>1 DEF Initialize, LoadNextMessages, Pages
<1>6. CASE PageDone
  BY <1>1, <1>6 DEF PageDone, Pages
<1>7. ASSUME NEW e \in Events, HistoryGoroutine(e) PROVE Pages'
  <2>1. UNCHANGED <<pageVars, recv>>
    BY <1>7 DEF HistoryGoroutine, HistRedacted, HistPlain, HistIgnored, HistPlaceholder,
       HistDecrypted, HistKeeps, HistUndecryptable, HistStep
  <2>2. ASSUME NEW from \in HistStages \ {"none", "done"},
               NEW to \in HistStages \ {"none"}, HistStep(e, from, to),
               to = "done" /\ e \in Messages \cap Encrypted => tree'[e] # "absent",
               \A d \in Events : tree[d] # "absent" => tree'[d] # "absent"
        PROVE  Pages'
    <3>1. loading
      BY <1>1, <2>2 DEF HistStep, Pages
    <3>2. /\ hist'[e] = to
          /\ \A d \in Events \ {e} : hist'[d] = hist[d]
      BY <1>1, <2>2 DEF HistStep, TypeOK
    <3>3. ASSUME NEW d \in Messages \cap Encrypted, hist'[d] = "done" PROVE StoredNext(d)
      <4>1. d \in Events
        BY EventsAssumption
      <4>2. CASE d = e
        BY <2>2, <3>2, <3>3, <4>2
      <4>3. CASE d # e
        BY <1>1, <2>1, <2>2, <3>2, <3>3, <4>1, <4>3 DEF Pages
      <4> QED BY <4>2, <4>3
    <3> QED BY <1>1, <2>1, <3>1, <3>2, <3>3 DEF Pages
  <2>3. ASSUME NEW id \in Ids, NEW kind \in Kinds \ {"absent"}, NEW nonce,
               Set(id, kind, nonce), nonce \notin Events
        PROVE  /\ \A d \in Events : tree[d] # "absent" => tree'[d] # "absent"
               /\ id \in Events => tree'[id] # "absent"
    BY <2>3, SetKeepsStored
  <2> USE DEF Kinds, HistStages
  <2>4. CASE HistRedacted(e)
    BY <1>1, <2>2, <2>3, <2>4 DEF HistRedacted
  <2>5. CASE HistPlain(e)
    BY <1>1, <2>2, <2>3, <2>5 DEF HistPlain
  <2>6. CASE HistIgnored(e)
    BY <1>1, <2>2, <2>6 DEF HistIgnored
  <2>7. CASE HistPlaceholder(e)
    BY <1>1, <2>2, <2>3, <2>7 DEF HistPlaceholder
  <2>8. CASE HistDecrypted(e)
    BY <1>1, <2>2, <2>3, <2>8 DEF HistDecrypted
  <2>9. CASE HistKeeps(e)
    BY <1>1, <2>2, <2>9 DEF HistKeeps
  <2>10. CASE HistUndecryptable(e)
    BY <1>1, <2>2, <2>3, <2>10 DEF HistUndecryptable
  <2> QED BY <1>7, <2>4, <2>5, <2>6, <2>7, <2>8, <2>9, <2>10 DEF HistoryGoroutine
<1>8. CASE Receiver
  <2>1. UNCHANGED <<pageVars, hist>>
    BY <1>8 DEF Receiver, ReceiveMessage, ReceiveRedactionOfNothing, ReceiveRedaction,
       DeleteMessage, SetRedacted, ReceiverStep
  <2>2. CASE ReceiveMessage
    <3> DEFINE e == Head(inbox).e
    <3>1. inbox # <<>> /\ Set(e, "plain", txn[e]) /\ recv' = recv
      BY <2>2 DEF ReceiveMessage, Receives, EchoNonce
    <3>2. e \in Events /\ txn[e] \notin Events /\ "plain" \in Kinds \ {"absent"}
      BY <1>1, <3>1, HeadOfInbox DEF TxnIsPending, Kinds
    <3> HIDE DEF e
    <3>3. \A d \in Events : tree[d] # "absent" => tree'[d] # "absent"
      BY <3>1, <3>2, SetKeepsStored
    <3> QED BY <1>2, <2>1, <3>1, <3>3
  <2>3. CASE ReceiveRedactionOfNothing
    BY <1>3, <2>1, <2>3 DEF ReceiveRedactionOfNothing
  <2>4. CASE ReceiveRedaction
    BY <1>1, <1>2, <2>1, <2>4 DEF ReceiveRedaction, Receives, InboxInOrder
  <2>5. CASE DeleteMessage
    BY <1>1, <1>2, <2>1, <2>5 DEF DeleteMessage, TypeOK
  <2>6. CASE SetRedacted
    <3>1. /\ Set(recv.e, RedactedFrom(recv.kind), 0)
          /\ recv.e \in Events
          /\ RedactedFrom(recv.kind) \in Kinds \ {"absent"}
      BY <1>1, <2>6 DEF SetRedacted, InboxInOrder, RedactedFrom, Kinds
    <3>2. \A d \in Events : Stored(d) => tree'[d] # "absent"
      BY <1>1, <3>1, SetKeepsStored
    <3> QED BY <1>2, <2>1, <3>2
  <2> QED BY <1>8, <2>2, <2>3, <2>4, <2>5, <2>6 DEF Receiver
<1>9. ASSUME NEW s \in Sends, SendMessage(s) PROVE Pages'
  <2>1. Set(PendingId(s), "pending", 0) /\ "pending" \in Kinds \ {"absent"}
    BY <1>9 DEF SendMessage, Kinds
  <2>2. \A d \in Events : tree[d] # "absent" => tree'[d] # "absent"
    BY <1>1, <2>1, SetKeepsStored
  <2> QED BY <1>2, <1>9, <2>2 DEF SendMessage
<1>10. ASSUME NEW e \in Events, RetryStores(e) PROVE Pages'
  <2>1. Set(e, "plain", e) /\ "plain" \in Kinds \ {"absent"}
    BY <1>10 DEF RetryStores, Kinds
  <2>2. \A d \in Events : tree[d] # "absent" => tree'[d] # "absent"
    BY <1>1, <2>1, SetKeepsStored
  <2> QED BY <1>2, <1>10, <2>2 DEF RetryStores, RetryStep
<1>11. ASSUME NEW e \in Events, NEW kind \in Finished, ApplyEmbeds(e, kind) PROVE Pages'
  BY <1>1, <1>2, <1>11 DEF ApplyEmbeds, EmbedStep, Finished, WithBody, TypeOK
<1> QED
  BY <1>3, <1>5, <1>6, <1>7, <1>8, <1>9, <1>10, <1>11 DEF Next, Arrive, Redact, SendFails,
     SendAccepted, Listen, Chronological, RetryLoads, RetrySucceeds, RetryFails, RetryStep,
     FetchEmbeds, NoEmbeds, EmbedStep

LEMMA StutterStep == IInv /\ vars' = vars => IInv'
<1> SUFFICES ASSUME IInv, UNCHANGED vars PROVE IInv'
  OBVIOUS
<1> USE DEF vars, serverVars, storeVars, pageVars
<1>1. TypeOK'
  BY DEF IInv, TypeOK
<1>2. TreeAndMapAgree' /\ PlaceholdersReplaceable' /\ UndecryptableReplaceable'
  BY DEF IInv, TreeAndMapAgree, PlaceholdersReplaceable, UndecryptableReplaceable
<1>3. InboxInOrder' /\ TxnIsPending'
  BY DEF IInv, InboxInOrder, MessagesAhead, TxnIsPending
<1>4. Retriable' /\ Pages'
  BY DEF IInv, Retriable, Pages
<1>5. SealedIsFinal'
  BY DEF IInv, SealedIsFinal, OlderCopy, MessagesAhead
<1> QED BY <1>1, <1>2, <1>3, <1>4, <1>5 DEF IInv

-----------------------------------------------------------------------------
LEMMA NextIInv == IInv /\ [Next]_vars => IInv'
<1>1. IInv /\ Next => IInv'
  BY TypeStep, AgreeStep, PlaceholdersStep, UndecryptableStep, RetriableStep, InboxStep,
     TxnStep, SealedStep, PagesStep DEF IInv
<1> QED BY <1>1, StutterStep

LEMMA SpecIInv == Spec => []IInv
  BY InitIInv, NextIInv, PTL DEF Spec

(* Every variable keeps its type: no id out of range enters the tree.       *)
THEOREM TreeTypes == Spec => []TypeOK
  BY SpecIInv, PTL DEF IInv

(* The tree and messagesMap hold the same messages, but for the one being   *)
(* redacted, whatever history, live events, retries and previews do.        *)
THEOREM OneStore == Spec => []TreeAndMapAgree
  BY SpecIInv, PTL DEF IInv

(* A placeholder is in the tree exactly while its nonce is known.           *)
THEOREM NoncesTrackPlaceholders == Spec => []PlaceholdersReplaceable
  BY SpecIInv, PTL DEF IInv

(* Every undecryptable message, but one that a preview has put back after a *)
(* retry, can be retried and replaced by the retry.                         *)
THEOREM RetriesFindTheirMessage == Spec => []UndecryptableReplaceable
  BY SpecIInv, PTL DEF IInv

(* A message redacted when nothing held an older copy of it stays redacted. *)
THEOREM RedactionsStick == Spec => []RedactionSticks
<1>1. IInv => RedactionSticks
  BY DEF IInv, SealedIsFinal, RedactionSticks
<1> QED BY <1>1, SpecIInv, PTL

(* When there is no more history, all of it is in the tree.                 *)
THEOREM HistoryIsComplete == Spec => []HistoryComplete
<1>1. ASSUME IInv, noMoreHistory, ~loading,
             NEW e \in Messages \cap Encrypted, e <= first
      PROVE  tree[e] # "absent" \/ recv.e = e
  <2>1. e \in Events /\ token = 0
    BY <1>1, EventsAssumption DEF IInv, Pages
  <2>2. hist[e] \in {"none", "done"} /\ hist[e] # "none"
    BY <1>1, <2>1, BoundsAssumption DEF IInv, Pages, Events
  <2> QED BY <1>1, <2>2 DEF IInv, Pages
<1>2. IInv => HistoryComplete
  BY <1>1 DEF HistoryComplete
<1> QED BY <1>2, SpecIInv, PTL
=============================================================================
