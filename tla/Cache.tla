------------------------------- MODULE Cache -------------------------------
(***************************************************************************)
(* The read-through cache of src/internal/cache/cache.go.  The value of a   *)
(* key is abstracted to the version it has at the homeserver: truth[k] is   *)
(* the current one, store[k] the cached one, and 0 stands for no entry.     *)
(*                                                                         *)
(* Callers run Get; Refreshers are the goroutines Get spawns when it serves *)
(* an entry older than the TTL.  Both go through the singleflight group     *)
(* (golang.org/x/sync): the first to call Do for a key leads the flight and *)
(* runs its own function, those that come while it runs wait and take its   *)
(* result.  A caller's function returns an entry or an error; a             *)
(* refresher's returns nil, whatever it fetched.                            *)
(***************************************************************************)
EXTENDS Naturals

CONSTANTS
    Keys,         \* cache keys
    Callers,      \* goroutines that call Get, Invalidate and Clear
    Refreshers,   \* bound: background refreshes alive at once
    NoProc,       \* nobody leads a flight
    MaxVersion    \* bound: changes of a value at the homeserver

Procs == Callers \cup Refreshers

ASSUME ProcsAssumption ==
    /\ Callers \cap Refreshers = {}
    /\ NoProc \notin Procs
ASSUME VersionAssumption == MaxVersion \in Nat \ {0}

VARIABLES
    truth,     \* version each key has at the homeserver
    store,     \* version cached for each key, 0 if none
    expired,   \* the cached entry is older than the TTL
    leader,    \* who runs the flight of each key
    pc,        \* where each goroutine stands in Get
    key,       \* the key it works on
    hand,      \* the version it holds: fetched, read or returned; 0 if none
    out,       \* how a caller's last Get ended
    served,    \* history: the version of each key returned last
    fence,     \* history: truth at the last Invalidate no flight undercut
    since      \* history: fence of the key when a caller's Get began

flightVars == <<leader, pc, key>>
vars == <<truth, store, expired, leader, pc, key, hand, out, served, fence, since>>

Stages   == {"check", "fetch", "store", "finish"}
PcValues == {"idle", "do", "wait"} \cup Stages
Outcomes == {"none", "value", "error", "panic"}

Init ==
    /\ truth = [k \in Keys |-> 1]
    /\ store = [k \in Keys |-> 0]
    /\ expired = [k \in Keys |-> FALSE]
    /\ leader = [k \in Keys |-> NoProc]
    /\ pc = [p \in Procs |-> "idle"]
    /\ key \in [Procs -> Keys]
    /\ hand = [p \in Procs |-> 0]
    /\ out = [c \in Callers |-> "none"]
    /\ served = [k \in Keys |-> 0]
    /\ fence = [k \in Keys |-> 0]
    /\ since = [c \in Callers |-> 0]

-----------------------------------------------------------------------------
(* The environment: the value changes at the homeserver, an entry ages.     *)

Change(k) ==
    /\ truth[k] < MaxVersion
    /\ truth' = [truth EXCEPT ![k] = @ + 1]
    /\ UNCHANGED <<store, expired, flightVars, hand, out, served, fence, since>>

Expire(k) ==
    /\ store[k] # 0
    /\ ~expired[k]
    /\ expired' = [expired EXCEPT ![k] = TRUE]
    /\ UNCHANGED <<truth, store, flightVars, hand, out, served, fence, since>>

-----------------------------------------------------------------------------
(* Get: the entry is served when there is one, and an expired one is served *)
(* too, after a goroutine has been spawned to refresh it.                   *)

ServeEntry(c, k) ==
    /\ pc[c] = "idle"
    /\ store[k] # 0
    /\ hand' = [hand EXCEPT ![c] = store[k]]
    /\ out' = [out EXCEPT ![c] = "value"]
    /\ served' = [served EXCEPT ![k] = store[k]]
    /\ since' = [since EXCEPT ![c] = fence[k]]

Hit(c, k) ==
    /\ ~expired[k]
    /\ ServeEntry(c, k)
    /\ key' = [key EXCEPT ![c] = k]
    /\ UNCHANGED <<truth, store, expired, leader, pc, fence>>

HitExpired(c, k, r) ==
    /\ expired[k]
    /\ pc[r] = "idle"
    /\ ServeEntry(c, k)
    /\ pc' = [pc EXCEPT ![r] = "do"]
    /\ key' = [key EXCEPT ![c] = k, ![r] = k]
    /\ UNCHANGED <<truth, store, expired, leader, fence>>

Miss(c, k) ==
    /\ pc[c] = "idle"
    /\ store[k] = 0
    /\ pc' = [pc EXCEPT ![c] = "do"]
    /\ key' = [key EXCEPT ![c] = k]
    /\ hand' = [hand EXCEPT ![c] = 0]
    /\ out' = [out EXCEPT ![c] = "none"]
    /\ since' = [since EXCEPT ![c] = fence[k]]
    /\ UNCHANGED <<truth, store, expired, leader, served, fence>>

-----------------------------------------------------------------------------
(* singleflight.Group.Do and the two functions it runs.                     *)

\* Bug: the background refresh does not go through the group.
LeadOutsideGroup(p) ==
    /\ pc[p] = "do"
    /\ leader' = [leader EXCEPT ![key[p]] = p]
    /\ pc' = [pc EXCEPT ![p] = IF p \in Callers THEN "check" ELSE "fetch"]
    /\ UNCHANGED <<truth, store, expired, key, hand, out, served, fence, since>>

Lead(p) ==
    /\ pc[p] = "do"
    /\ leader[key[p]] = NoProc
    /\ leader' = [leader EXCEPT ![key[p]] = p]
    /\ pc' = [pc EXCEPT ![p] = IF p \in Callers THEN "check" ELSE "fetch"]
    /\ UNCHANGED <<truth, store, expired, key, hand, out, served, fence, since>>

Join(p) ==
    /\ pc[p] = "do"
    /\ leader[key[p]] # NoProc
    /\ pc' = [pc EXCEPT ![p] = "wait"]
    /\ UNCHANGED <<truth, store, expired, leader, key, hand, out, served, fence, since>>

\* The second look at the store, inside the flight.
Check(p) ==
    /\ pc[p] = "check"
    /\ hand' = [hand EXCEPT ![p] = store[key[p]]]
    /\ pc' = [pc EXCEPT ![p] = IF store[key[p]] # 0 THEN "finish" ELSE "fetch"]
    /\ UNCHANGED <<truth, store, expired, leader, key, out, served, fence, since>>

\* Bug: the flight is forgotten as soon as the request has been answered.
FetchForgets(p) ==
    /\ pc[p] = "fetch"
    /\ hand' = [hand EXCEPT ![p] = truth[key[p]]]
    /\ pc' = [pc EXCEPT ![p] = "store"]
    /\ leader' = [leader EXCEPT ![key[p]] = NoProc]
    /\ UNCHANGED <<truth, store, expired, key, out, served, fence, since>>

\* fn() returns the homeserver's value ...
Fetch(p) ==
    /\ pc[p] = "fetch"
    /\ hand' = [hand EXCEPT ![p] = truth[key[p]]]
    /\ pc' = [pc EXCEPT ![p] = "store"]
    /\ UNCHANGED <<truth, store, expired, leader, key, out, served, fence, since>>

\* Bug: the error path returns without ending the flight.
FetchFailsLeaks(p) ==
    /\ pc[p] = "fetch"
    /\ pc' = [pc EXCEPT ![p] = "idle"]
    /\ UNCHANGED <<truth, store, expired, leader, key, hand, out, served, fence, since>>

\* ... or an error, which is not cached.
FetchFails(p) ==
    /\ pc[p] = "fetch"
    /\ hand' = [hand EXCEPT ![p] = 0]
    /\ pc' = [pc EXCEPT ![p] = "finish"]
    /\ UNCHANGED <<truth, store, expired, leader, key, out, served, fence, since>>

Store(p) ==
    /\ pc[p] = "store"
    /\ store' = [store EXCEPT ![key[p]] = hand[p]]
    /\ expired' = [expired EXCEPT ![key[p]] = FALSE]
    /\ pc' = [pc EXCEPT ![p] = "finish"]
    /\ UNCHANGED <<truth, leader, key, hand, out, served, fence, since>>

\* Bug: the nil of a refresh is handed on without the assertion.
FlightResultUnchecked(p) ==
    IF p \in Refreshers THEN "nil"
    ELSE IF hand[p] = 0 THEN "error" ELSE "value"

\* What v.(entry[T]) makes of the result of p's flight.
FlightResult(p) ==
    IF p \in Refreshers THEN "panic"
    ELSE IF hand[p] = 0 THEN "error" ELSE "value"

\* p and everybody who waits for its flight.
Party(p) == {p} \cup {q \in Procs : pc[q] = "wait" /\ key[q] = key[p]}

\* The flight ends: it leaves the group and all of its party return.
Finish(p) ==
    LET k == key[p]
        v == IF p \in Refreshers THEN 0 ELSE hand[p]
    IN  /\ pc[p] = "finish"
        /\ leader' = [leader EXCEPT ![k] = NoProc]
        /\ pc' = [q \in Procs |-> IF q \in Party(p) THEN "idle" ELSE pc[q]]
        /\ hand' = [q \in Procs |-> IF q \in Party(p) THEN v ELSE hand[q]]
        /\ out' = [c \in Callers |-> IF c \in Party(p) THEN FlightResult(p) ELSE out[c]]
        /\ served' = [served EXCEPT ![k] = IF v = 0 THEN @ ELSE v]
        /\ UNCHANGED <<truth, store, expired, key, fence, since>>

-----------------------------------------------------------------------------
(* Invalidate and Clear.  They do not look at the group: a flight that      *)
(* already holds a version goes on with it.                                 *)

Undercut(k) ==
    leader[k] # NoProc /\ pc[leader[k]] \in {"store", "finish"}

\* Bug: Invalidate ages the entry instead of deleting it.
DropExpires(ks) ==
    /\ expired' = [k \in Keys |-> k \in ks \/ expired[k]]
    /\ fence' = [k \in Keys |-> IF k \in ks /\ ~Undercut(k) THEN truth[k] ELSE fence[k]]
    /\ UNCHANGED <<truth, store, flightVars, hand, out, served, since>>

Drop(ks) ==
    /\ store' = [k \in Keys |-> IF k \in ks THEN 0 ELSE store[k]]
    /\ expired' = [k \in Keys |-> IF k \in ks THEN FALSE ELSE expired[k]]
    /\ fence' = [k \in Keys |-> IF k \in ks /\ ~Undercut(k) THEN truth[k] ELSE fence[k]]
    /\ UNCHANGED <<truth, flightVars, hand, out, served, since>>

Invalidate(k) == Drop({k})

Clear == Drop(Keys)

-----------------------------------------------------------------------------
Step(p) ==
    Lead(p) \/ Join(p) \/ Check(p) \/ Fetch(p) \/ FetchFails(p) \/ Store(p) \/ Finish(p)

Next ==
    \/ \E k \in Keys : Change(k) \/ Expire(k) \/ Invalidate(k)
    \/ Clear
    \/ \E c \in Callers, k \in Keys : Hit(c, k) \/ Miss(c, k)
    \/ \E c \in Callers, k \in Keys, r \in Refreshers : HitExpired(c, k, r)
    \/ \E p \in Procs : Step(p)

\* A goroutine is scheduled, and fn, an HTTP request, comes back.
Fairness == \A p \in Procs : WF_vars(Step(p))

Spec == Init /\ [][Next]_vars

FairSpec == Spec /\ Fairness

-----------------------------------------------------------------------------
TypeOK ==
    /\ truth \in [Keys -> Nat \ {0}]
    /\ store \in [Keys -> Nat]
    /\ expired \in [Keys -> BOOLEAN]
    /\ leader \in [Keys -> Procs \cup {NoProc}]
    /\ pc \in [Procs -> PcValues]
    /\ key \in [Procs -> Keys]
    /\ hand \in [Procs -> Nat]
    /\ out \in [Callers -> Outcomes]
    /\ served \in [Keys -> Nat]
    /\ fence \in [Keys -> Nat]
    /\ since \in [Callers -> Nat]

(* At most one request for a key is under way, refreshes included: the      *)
(* promise of the singleflight group that Get runs both of its functions in.*)
OneFetchPerKey ==
    \A p, q \in Procs :
        /\ pc[p] \in Stages
        /\ pc[q] \in Stages
        /\ key[p] = key[q]
        => p = q

LagsBehind == INSTANCE Register WITH value <- truth, read <- served

(* The versions that Get returns for a key are those of a register that may *)
(* lag behind the homeserver and never goes back, whatever refreshes,       *)
(* invalidations and errors come between the calls: no slow request stores  *)
(* its answer over a newer one.                                             *)
MonotonicReads == LagsBehind!Spec

(* A Get that begins after an Invalidate returns nothing older than what    *)
(* the homeserver had at the Invalidate, if no flight held a version then.  *)
(* (A flight that does hold one stores it after the Invalidate: the caller  *)
(* of Invalidate then still sees the old value for up to the TTL.)          *)
InvalidateIsAFence ==
    \A c \in Callers : pc[c] = "idle" /\ out[c] = "value" => hand[c] >= since[c]

(* The type assertion at the end of Get holds: the flight's result is an    *)
(* entry whenever its error is nil.                                         *)
ResultIsAnEntry == \A c \in Callers : out[c] # "panic"

(* Every Get returns: no caller waits for a flight nobody ends.             *)
GetReturns == \A c \in Callers : pc[c] # "idle" ~> pc[c] = "idle"
=============================================================================
