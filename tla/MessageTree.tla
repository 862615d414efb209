---------------------------- MODULE MessageTree ----------------------------
(***************************************************************************)
(* The message store of one room, src/internal/matrix/message_tree.go, with *)
(* the goroutines that write to it: the loader of history pages and one     *)
(* goroutine per event of a page, the receiver of live events, SendMessage, *)
(* the decryption retries that Chronological starts, and the URL previews   *)
(* that every Set of a message starts that is neither pending nor being     *)
(* decrypted.                                                               *)
(*                                                                         *)
(* The B-tree is keyed by (timestamp, id), and an id has one timestamp, so  *)
(* it is a function of the id.  Of a message only its kind is kept: what    *)
(* the flags Undecryptable and Redacted and the presence of a body make it. *)
(* Events are numbered in timeline order.  An event's id, the id of its     *)
(* "decrypting-" placeholder and the "pending-" id of a send are distinct   *)
(* (they are 32-bit hashes in the code: collisions are left out).           *)
(* pendingRedactions is left out: nothing in the code ever stores to it.    *)
(***************************************************************************)
EXTENDS Integers, Sequences

CONSTANTS
    NumEvents,   \* bound: events of the room's timeline
    NumSends,    \* bound: messages this user sends
    OldEvents,   \* events in the timeline before the tree exists
    Encrypted,   \* events sent encrypted
    Messages,    \* events that are messages, not reactions or stickers
    Redactable,  \* bound: events that somebody may redact
    PageSize     \* events in one page of history

Events == 1..NumEvents
Sends == 1..NumSends
Placeholder(e) == NumEvents + e
PendingId(s) == 2 * NumEvents + s
Ids == 1..(2 * NumEvents + NumSends)

ASSUME BoundsAssumption ==
    /\ NumEvents \in Nat
    /\ NumSends \in Nat
    /\ OldEvents \in 0..NumEvents
    /\ PageSize \in Nat \ {0}
ASSUME EventsAssumption ==
    /\ Encrypted \subseteq Events
    /\ Messages \subseteq Events
    /\ Redactable \subseteq Events

VARIABLES
    top,           \* homeserver: events 1..top are in the timeline
    gone,          \* homeserver: the redacted events
    txn,           \* homeserver: the nonce an event was sent with, or 0
    inbox,         \* live events on their way to the receiver
    listening,
    tree,          \* BTreeG
    messagesMap,
    nonces,
    embedCache,    \* the events whose entry, by room and id, holds previews
    raw,           \* rawEncryptedEvents
    initialized,
    token,         \* prevBatch: the page before it ends at this event, -1 at first
    noMoreHistory,
    loading,       \* populating is locked
    hist,          \* the goroutine that populateTree runs for an event
    recv,          \* the redaction the receiver is in the middle of
    retry,         \* the goroutines that retry to decrypt an event: their stages
    jobs,          \* fetchAndApplyEmbeds under way for an id: the kinds captured
    sending,       \* SendMessage, for each send
    first,         \* history: top when the first page was answered, or 0
    sealed,        \* history: events redacted with no older copy under way
    revived        \* history: events a preview made undecryptable again

serverVars == <<top, gone, txn>>
storeVars == <<tree, messagesMap, nonces, embedCache, jobs, revived>>
pageVars == <<initialized, token, noMoreHistory, loading, first>>
vars == <<serverVars, inbox, listening, storeVars, raw, pageVars, hist, recv, retry,
          sending, sealed>>

Kinds == {"absent", "pending", "decrypting", "undecryptable", "plain", "redacted",
          "redactedUndecryptable"}
Undecryptable == {"undecryptable", "redactedUndecryptable"}
Redacted == {"redacted", "redactedUndecryptable"}
WithBody == {"plain", "redacted", "redactedUndecryptable"}
Finished == WithBody \cup {"undecryptable"}
HistStages == {"none", "redacted", "start", "decrypt", "kept", "done"}
RecvStages == {"idle", "taken", "deleted"}
RetryStages == {"scanned", "decrypt", "decrypted"}
SendStages == {"idle", "sending", "accepted", "failed"}

LiveEvents == [type : {"message", "redaction"}, e : Events]

NoRedaction == [stage |-> "idle", e |-> 0, kind |-> "absent"]

Init ==
    /\ top = OldEvents
    /\ gone = {}
    /\ txn = [e \in Events |-> 0]
    /\ inbox = <<>>
    /\ listening = FALSE
    /\ tree = [i \in Ids |-> "absent"]
    /\ messagesMap = [i \in Ids |-> "absent"]
    /\ nonces = {}
    /\ embedCache = {}
    /\ raw = {}
    /\ initialized = FALSE
    /\ token = -1
    /\ noMoreHistory = FALSE
    /\ loading = FALSE
    /\ hist = [e \in Events |-> "none"]
    /\ recv = NoRedaction
    /\ retry = [e \in Events |-> {}]
    /\ jobs = [i \in Ids |-> {}]
    /\ sending = [s \in Sends |-> "idle"]
    /\ first = 0
    /\ sealed = {}
    /\ revived = {}

-----------------------------------------------------------------------------
(* Set: a message that carries a nonce takes the place of the one stored    *)
(* under it; a pending or decrypting one is stored under its own id, for    *)
(* the message that will replace it; any other, an undecryptable one too,   *)
(* gets a goroutine that looks for its URL previews.                        *)

\* Bug: the nonce stays known after its message has been replaced.
NoncesNeverDeleted(id, kind, nonce) ==
    nonces \cup (IF nonce = 0 /\ kind \in {"pending", "decrypting"} THEN {id} ELSE {})

NoncesAfter(id, kind, nonce) ==
    (nonces \ {nonce}) \cup (IF nonce = 0 /\ kind \in {"pending", "decrypting"} THEN {id} ELSE {})

\* Bug: isPending is not looked at.
JobsForPending(id, kind) == [jobs EXCEPT ![id] = @ \cup {kind}]

JobsAfter(id, kind) ==
    [jobs EXCEPT ![id] = @ \cup ({kind} \ {"pending", "decrypting"})]

Set(id, kind, nonce) ==
    LET Stored(f) == [i \in Ids |-> IF i = id THEN kind
                                    ELSE IF i = nonce /\ i \in nonces THEN "absent" ELSE f[i]]
    IN  /\ tree' = Stored(tree)
        /\ messagesMap' = Stored(messagesMap)
        /\ nonces' = NoncesAfter(id, kind, nonce)
        /\ jobs' = JobsAfter(id, kind)
        /\ revived' = revived \ {id}
        /\ UNCHANGED embedCache

-----------------------------------------------------------------------------
(* The room: somebody's event, or a redaction, enters the timeline.  The    *)
(* receiver gets it (live) unless nobody listens, the sync response left it *)
(* out, or it could not be decrypted.                                       *)

Live(type, e, live) ==
    inbox' = IF live /\ listening THEN Append(inbox, [type |-> type, e |-> e]) ELSE inbox

Arrive(live) ==
    /\ top < NumEvents
    /\ top' = top + 1
    /\ Live("message", top + 1, live /\ top + 1 \in Messages)
    /\ UNCHANGED <<gone, txn, listening, storeVars, raw, pageVars, hist, recv, retry,
                   sending, sealed>>

Redact(e, live) ==
    /\ e \in Redactable
    /\ e <= top
    /\ e \notin gone
    /\ gone' = gone \cup {e}
    /\ Live("redaction", e, live)
    /\ UNCHANGED <<top, txn, listening, storeVars, raw, pageVars, hist, recv, retry,
                   sending, sealed>>

-----------------------------------------------------------------------------
(* SendMessage: the pending message first, then the request.  A failure is  *)
(* returned to the caller; the pending message stays.                       *)

SendMessage(s) ==
    /\ sending[s] = "idle"
    /\ Set(PendingId(s), "pending", 0)
    /\ sending' = [sending EXCEPT ![s] = "sending"]
    /\ UNCHANGED <<serverVars, inbox, listening, raw, pageVars, hist, recv, retry, sealed>>

SendAccepted(s, live) ==
    /\ sending[s] = "sending"
    /\ top < NumEvents
    /\ top + 1 \in Messages
    /\ top' = top + 1
    /\ txn' = [txn EXCEPT ![top + 1] = PendingId(s)]
    /\ Live("message", top + 1, live)
    /\ sending' = [sending EXCEPT ![s] = "accepted"]
    /\ UNCHANGED <<gone, listening, storeVars, raw, pageVars, hist, recv, retry, sealed>>

SendFails(s) ==
    /\ sending[s] = "sending"
    /\ sending' = [sending EXCEPT ![s] = "failed"]
    /\ UNCHANGED <<serverVars, inbox, listening, storeVars, raw, pageVars, hist, recv,
                   retry, sealed>>

-----------------------------------------------------------------------------
(* LoadNextMessages and populateTree, one at a time under populating.  The  *)
(* answer tells of each event whether it has been redacted by then.         *)

Oldest(newest) == IF newest > PageSize THEN newest - PageSize ELSE 0

\* Bug: RedactedBecause is not looked at.
HistStartUnseen(e) == "start"

HistStart(e) == IF e \in gone THEN "redacted" ELSE "start"

\* Bug: the next page ends one event too early.
LoadPageSkips ==
    LET newest == IF token = -1 THEN top ELSE token
        oldest == Oldest(newest)
    IN  /\ ~loading
        /\ ~noMoreHistory
        /\ loading' = TRUE
        /\ token' = Oldest(oldest)
        /\ noMoreHistory' = (oldest = 0)
        /\ first' = IF token = -1 THEN top ELSE first
        /\ hist' = [e \in Events |-> IF oldest < e /\ e <= newest THEN HistStart(e)
                                     ELSE hist[e]]

LoadPage ==
    LET newest == IF token = -1 THEN top ELSE token
        oldest == Oldest(newest)
    IN  /\ ~loading
        /\ ~noMoreHistory
        /\ loading' = TRUE
        /\ token' = oldest
        /\ noMoreHistory' = (oldest = 0)
        /\ first' = IF token = -1 THEN top ELSE first
        /\ hist' = [e \in Events |-> IF oldest < e /\ e <= newest THEN HistStart(e)
                                     ELSE hist[e]]

Initialize ==
    /\ ~initialized
    /\ initialized' = TRUE
    /\ \/ LoadPage
       \/ UNCHANGED <<token, noMoreHistory, loading, first, hist>>   \* the request failed
    /\ UNCHANGED <<serverVars, inbox, listening, storeVars, raw, recv, retry, sending, sealed>>

LoadNextMessages ==
    /\ initialized
    /\ LoadPage
    /\ UNCHANGED <<serverVars, inbox, listening, storeVars, raw, initialized, recv, retry,
                   sending, sealed>>

HistStep(e, from, to) ==
    /\ hist[e] = from
    /\ hist' = [hist EXCEPT ![e] = to]
    /\ UNCHANGED <<serverVars, inbox, listening, pageVars, recv, retry, sending, sealed>>

HistRedacted(e) ==
    /\ HistStep(e, "redacted", "done")
    /\ IF e \in Encrypted \cup Messages THEN Set(e, "redacted", 0) ELSE UNCHANGED storeVars
    /\ UNCHANGED raw

HistPlain(e) ==
    /\ e \in Messages \ Encrypted
    /\ HistStep(e, "start", "done")
    /\ Set(e, "plain", 0)
    /\ UNCHANGED raw

\* A reaction, a sticker, or a content that was not parsed as a message.
HistIgnored(e) ==
    /\ e \notin Encrypted
    /\ HistStep(e, "start", "done")
    /\ UNCHANGED <<storeVars, raw>>

HistPlaceholder(e) ==
    /\ e \in Encrypted
    /\ HistStep(e, "start", "decrypt")
    /\ Set(Placeholder(e), "decrypting", 0)
    /\ UNCHANGED raw

HistDecrypted(e) ==
    /\ HistStep(e, "decrypt", "done")
    /\ IF e \in Messages THEN Set(e, "plain", Placeholder(e)) ELSE UNCHANGED storeVars
    /\ UNCHANGED raw

\* Bug: the undecryptable message is not stored under its own nonce.
HistKeepsRawOnly(e) ==
    /\ HistStep(e, "decrypt", "kept")
    /\ raw' = raw \cup {e}
    /\ UNCHANGED storeVars

\* The encrypted event and the nonce are kept for a retry before the message
\* that a retry starts from is there.
HistKeeps(e) ==
    /\ HistStep(e, "decrypt", "kept")
    /\ raw' = raw \cup {e}
    /\ nonces' = nonces \cup {e}
    /\ UNCHANGED <<tree, messagesMap, embedCache, jobs, revived>>

\* Bug: the undecryptable message does not carry the placeholder's nonce.
HistUndecryptableBeside(e) ==
    /\ HistStep(e, "kept", "done")
    /\ Set(e, "undecryptable", 0)
    /\ UNCHANGED raw

HistUndecryptable(e) ==
    /\ HistStep(e, "kept", "done")
    /\ Set(e, "undecryptable", Placeholder(e))
    /\ UNCHANGED raw

PageDone ==
    /\ loading
    /\ \A e \in Events : hist[e] \in {"none", "done"}
    /\ loading' = FALSE
    /\ UNCHANGED <<serverVars, inbox, listening, storeVars, raw, initialized, token,
                   noMoreHistory, first, hist, recv, retry, sending, sealed>>

-----------------------------------------------------------------------------
(* Listen starts the receiver.  A redaction is three steps, of which only   *)
(* the last two take the tree's lock: LoadAndDelete from messagesMap,       *)
(* DeleteMessage, which only touches the tree, and Set.                     *)

Listen ==
    /\ initialized
    /\ ~listening
    /\ listening' = TRUE
    /\ UNCHANGED <<serverVars, inbox, storeVars, raw, pageVars, hist, recv, retry, sending,
                   sealed>>

\* Bug: the transaction id of an event is not read.
EchoNonceLost(e) == 0

EchoNonce(e) == txn[e]

ReceiverStep ==
    UNCHANGED <<serverVars, listening, raw, pageVars, hist, retry, sending>>

Receives(type) ==
    /\ recv.stage = "idle"
    /\ inbox # <<>>
    /\ Head(inbox).type = type
    /\ inbox' = Tail(inbox)

ReceiveMessage ==
    /\ Receives("message")
    /\ Set(Head(inbox).e, "plain", EchoNonce(Head(inbox).e))
    /\ UNCHANGED <<recv, sealed>>
    /\ ReceiverStep

\* The message is not here: the redaction is dropped.
ReceiveRedactionOfNothing ==
    /\ Receives("redaction")
    /\ messagesMap[Head(inbox).e] = "absent"
    /\ UNCHANGED <<storeVars, recv, sealed>>
    /\ ReceiverStep

ReceiveRedaction ==
    LET e == Head(inbox).e
    IN  /\ Receives("redaction")
        /\ messagesMap[e] # "absent"
        /\ recv' = [stage |-> "taken", e |-> e, kind |-> messagesMap[e]]
        /\ messagesMap' = [messagesMap EXCEPT ![e] = "absent"]
        /\ UNCHANGED <<tree, nonces, embedCache, jobs, revived, sealed>>
        /\ ReceiverStep

DeleteMessage ==
    /\ recv.stage = "taken"
    /\ tree' = [tree EXCEPT ![recv.e] = "absent"]
    /\ recv' = [recv EXCEPT !.stage = "deleted"]
    /\ UNCHANGED <<inbox, messagesMap, nonces, embedCache, jobs, revived, sealed>>
    /\ ReceiverStep

RedactedFrom(kind) ==
    IF kind \in Undecryptable THEN "redactedUndecryptable" ELSE "redacted"

\* A goroutine or the list of events to retry still holds the event as it was.
OlderCopy(e) ==
    \/ {"plain", "undecryptable"} \cap jobs[e] # {}
    \/ hist[e] \in {"start", "decrypt", "kept"}
    \/ e \in raw
    \/ {"decrypt", "decrypted"} \cap retry[e] # {}

SetRedacted ==
    /\ recv.stage = "deleted"
    /\ Set(recv.e, RedactedFrom(recv.kind), 0)
    /\ recv' = NoRedaction
    /\ sealed' = IF OlderCopy(recv.e) THEN sealed ELSE sealed \cup {recv.e}
    /\ UNCHANGED inbox
    /\ ReceiverStep

-----------------------------------------------------------------------------
(* Chronological spawns retryDecryptAll, which scans the tree and runs      *)
(* RetryDecryptMessage in a goroutine for each undecryptable message.  As   *)
(* it may have been called any number of times, there may be any number of  *)
(* goroutines in a stage: when one leaves it, others may remain.            *)

Chronological ==
    LET found == {e \in Events : tree[e] \in Undecryptable}
    IN  /\ found # {}
        /\ retry' = [e \in Events |-> IF e \in found THEN retry[e] \cup {"scanned"}
                                      ELSE retry[e]]
        /\ UNCHANGED <<serverVars, inbox, listening, storeVars, raw, pageVars, hist, recv,
                       sending, sealed>>

RetryStep(e, from, to) ==
    /\ from \in retry[e]
    /\ \E others \in {retry[e], retry[e] \ {from}} :
           retry' = [retry EXCEPT ![e] = others \cup to]
    /\ UNCHANGED <<serverVars, inbox, listening, pageVars, hist, recv, sending, sealed>>

RetryLoads(e) ==
    /\ RetryStep(e, "scanned", IF e \in raw THEN {"decrypt"} ELSE {})
    /\ UNCHANGED <<storeVars, raw>>

\* The encrypted event goes first, in a step of its own.
RetrySucceeds(e) ==
    /\ e \in Messages
    /\ RetryStep(e, "decrypt", {"decrypted"})
    /\ raw' = raw \ {e}
    /\ UNCHANGED storeVars

RetryStores(e) ==
    /\ RetryStep(e, "decrypted", {})
    /\ Set(e, "plain", e)
    /\ UNCHANGED raw

RetryFails(e) ==
    /\ RetryStep(e, "decrypt", {})
    /\ UNCHANGED <<storeVars, raw>>

-----------------------------------------------------------------------------
(* fetchAndApplyEmbeds stores the copy of the message it was started with,  *)
(* if embedCache has previews under the message's id: those it fetched, or  *)
(* those of another copy.  Only a copy with a body has URLs to fetch.  An   *)
(* entry may also be empty, or expire (NoEmbeds).  As the same message may  *)
(* have been stored any number of times, there may be any number of         *)
(* goroutines with one copy: when one ends, others may remain.              *)

FetchEmbeds(e) ==
    /\ WithBody \cap jobs[e] # {}
    /\ embedCache' = embedCache \cup {e}
    /\ UNCHANGED <<serverVars, inbox, listening, tree, messagesMap, nonces, jobs, revived,
                   raw, pageVars, hist, recv, retry, sending, sealed>>

EmbedStep(e, kind) ==
    /\ kind \in jobs[e]
    /\ \E others \in {jobs[e], jobs[e] \ {kind}} : jobs' = [jobs EXCEPT ![e] = others]
    /\ UNCHANGED <<serverVars, inbox, listening, nonces, embedCache, raw, pageVars, hist,
                   recv, retry, sending, sealed>>

RevivedBy(e, kind) ==
    IF kind = "undecryptable" /\ e \notin raw THEN revived \cup {e} ELSE revived \ {e}

\* Bug: the previews are stored in the tree only.
ApplyEmbedsToTree(e, kind) ==
    /\ e \in embedCache
    /\ EmbedStep(e, kind)
    /\ tree' = [tree EXCEPT ![e] = kind]
    /\ revived' = RevivedBy(e, kind)
    /\ UNCHANGED messagesMap

ApplyEmbeds(e, kind) ==
    /\ e \in embedCache
    /\ EmbedStep(e, kind)
    /\ tree' = [tree EXCEPT ![e] = kind]
    /\ messagesMap' = [messagesMap EXCEPT ![e] = kind]
    /\ revived' = RevivedBy(e, kind)

NoEmbeds(e, kind) ==
    /\ EmbedStep(e, kind)
    /\ UNCHANGED <<tree, messagesMap, revived>>

-----------------------------------------------------------------------------
HistoryGoroutine(e) ==
    \/ HistRedacted(e) \/ HistPlain(e) \/ HistIgnored(e) \/ HistPlaceholder(e)
    \/ HistDecrypted(e) \/ HistKeeps(e) \/ HistUndecryptable(e)

Receiver ==
    \/ ReceiveMessage \/ ReceiveRedactionOfNothing
    \/ ReceiveRedaction \/ DeleteMessage \/ SetRedacted

Next ==
    \/ \E live \in BOOLEAN : Arrive(live)
    \/ \E e \in Events, live \in BOOLEAN : Redact(e, live)
    \/ \E s \in Sends : SendMessage(s) \/ SendFails(s)
    \/ \E s \in Sends, live \in BOOLEAN : SendAccepted(s, live)
    \/ Initialize \/ LoadNextMessages \/ PageDone \/ Listen
    \/ \E e \in Events : HistoryGoroutine(e)
    \/ Receiver
    \/ Chronological
    \/ \E e \in Events :
           RetryLoads(e) \/ RetrySucceeds(e) \/ RetryStores(e) \/ RetryFails(e)
    \/ \E e \in Events : FetchEmbeds(e)
    \/ \E e \in Events, kind \in Finished : ApplyEmbeds(e, kind) \/ NoEmbeds(e, kind)

\* The goroutines of a page and the receiver are scheduled; waiting for a
\* session key ends after five seconds.
Fairness ==
    /\ \A e \in Events : WF_vars(HistoryGoroutine(e))
    /\ WF_vars(PageDone)
    /\ WF_vars(Receiver)

Spec == Init /\ [][Next]_vars
FairSpec == Spec /\ Fairness

-----------------------------------------------------------------------------
TypeOK ==
    /\ top \in 0..NumEvents
    /\ gone \subseteq Events
    /\ txn \in [Events -> Ids \cup {0}]
    /\ inbox \in Seq(LiveEvents)
    /\ listening \in BOOLEAN
    /\ tree \in [Ids -> Kinds]
    /\ messagesMap \in [Ids -> Kinds]
    /\ nonces \subseteq Ids
    /\ embedCache \subseteq Events
    /\ raw \subseteq Events
    /\ initialized \in BOOLEAN
    /\ token \in -1..NumEvents
    /\ noMoreHistory \in BOOLEAN
    /\ loading \in BOOLEAN
    /\ hist \in [Events -> HistStages]
    /\ recv \in [stage : RecvStages, e : Events \cup {0}, kind : Kinds]
    /\ retry \in [Events -> SUBSET RetryStages]
    /\ jobs \in [Ids -> SUBSET Finished]
    /\ sending \in [Sends -> SendStages]
    /\ first \in 0..NumEvents
    /\ sealed \subseteq Events
    /\ revived \subseteq Events

(* The tree, from which the page is rendered, and messagesMap, through      *)
(* which redactions find their message, hold the same messages, but for the *)
(* one the receiver is redacting: DeleteMessage leaves the map alone and    *)
(* LoadAndDelete leaves the tree alone.                                     *)
TreeAndMapAgree ==
    \A i \in Ids : tree[i] = messagesMap[i] \/ (recv.stage # "idle" /\ recv.e = i)

(* A pending or decrypting message is in the tree exactly while its nonce   *)
(* is known, so that what replaces it will find it.                         *)
PlaceholdersReplaceable ==
    \A i \in Ids \ Events : tree[i] # "absent" <=> i \in nonces

(* An undecryptable message can be retried, and replaced by the retry: the  *)
(* encrypted event and the nonce are there as long as it is shown, or a     *)
(* retry has already decrypted it and is about to store it.  Except a copy  *)
(* that a preview goroutine, started when it was first stored, puts back    *)
(* after a retry: fetchAndApplyEmbeds finds the previews of the decrypted   *)
(* message under the same key.                                              *)
UndecryptableReplaceable ==
    \A e \in Events :
        tree[e] = "undecryptable" /\ e \notin revived =>
            (e \in raw /\ e \in nonces) \/ "decrypted" \in retry[e]

(* A message redacted when no preview, page or retry held an older copy of  *)
(* it, decrypted or not, stays redacted.  (When one does, the copy comes    *)
(* back: it is stored whole over the redacted message.)                     *)
RedactionSticks == \A e \in sealed : tree[e] \in Redacted \/ recv.e = e

(* Once there is no more history, and the last page is in, every encrypted  *)
(* message that was in the timeline at the first load is in the tree: the   *)
(* pages neither overlap nor leave an event out.                            *)
HistoryComplete ==
    noMoreHistory /\ ~loading =>
        \A e \in Messages \cap Encrypted : e <= first => tree[e] # "absent" \/ recv.e = e

(* A message whose event has been decrypted, or could not be, is no longer  *)
(* shown as being decrypted.                                                *)
DecryptingEnds ==
    \A e \in Messages \cap Encrypted :
        tree[Placeholder(e)] = "decrypting" ~> tree[Placeholder(e)] = "absent"

(* When the echo of a message this user sent reaches the receiver, the      *)
(* pending message goes and does not come back: a message is not shown      *)
(* twice.                                                                   *)
EchoReplacesPending ==
    \A s \in Sends :
        (\E i \in 1..Len(inbox) : inbox[i].type = "message" /\ txn[inbox[i].e] = PendingId(s))
            ~> [](tree[PendingId(s)] = "absent")
=============================================================================
