---------------------------- MODULE SessionStore ----------------------------
(***************************************************************************)
(* The session store, src/internal/session/session.go: the keyring of the   *)
(* operating system, the cache of sessions over it, the list of known users *)
(* and the user seen last, with the goroutines that call Get, Update (or    *)
(* UpdateAndGet, the same but for the result) and Delete, and with a crash  *)
(* of the program.                                                          *)
(*                                                                         *)
(* A session is the set of updates made to it; none is stored before its    *)
(* first, so that the empty set in the keyring stands for no session.  The  *)
(* cache holds pointers, and Get hands them out: a session in memory is an  *)
(* object of the heap, which several goroutines may change.  The list of    *)
(* known users is a set.                                                    *)
(***************************************************************************)
EXTENDS Naturals

CONSTANTS
    Users,
    Procs,        \* goroutines that call the package
    Objects,      \* bound: sessions in memory at once
    None,         \* no object, no user
    MaxUpdates    \* bound: calls of Update

Updates == 1..MaxUpdates

ASSUME NoneAssumption ==
    None \notin Users \cup Objects
ASSUME UpdatesAssumption == MaxUpdates \in Nat

VARIABLES
    keyring,     \* the session stored for each user, {} if none
    known,       \* keyring: the list of known users
    lastUser,    \* keyring: LastUserID of the global settings
    cache,       \* the object cached for each user
    heap,        \* the updates made to each object
    lastCached,  \* globalCache: its LastUserID, None if it is nil
    count,       \* updates begun
    op,          \* what each goroutine is called for,
    user,        \* for whom,
    stage,       \* how far it is,
    obj,         \* the object it holds,
    number,      \* the number of its update,
    data,        \* the session as marshalled,
    list,        \* and the list of known users as read
    clean,       \* history: writers nothing has come in between of
    stale,       \* history: who holds a list that is not the keyring's
    sealed,      \* history: users deleted, and not updated since
    saved,       \* history: users saved and listed, and not deleted since
    kept         \* history: the updates of each user that have returned

keyringVars == <<keyring, known, lastUser>>
memoryVars == <<cache, heap, lastCached>>
callVars == <<op, user, number>>
promiseVars == <<sealed, saved, kept>>
vars == <<keyringVars, memoryVars, count, callVars, stage, obj, data, list, clean, stale,
          promiseVars>>

Stages == {"idle", "miss", "fill", "apply", "marshal", "set", "cache", "drop", "list",
           "write", "global", "last"}
Holding == {"fill", "apply", "marshal", "set", "cache"}

Init ==
    /\ keyring = [u \in Users |-> {}]
    /\ known = {}
    /\ lastUser = None
    /\ count = 0
    /\ sealed = {}
    /\ saved = {}
    /\ kept = [u \in Users |-> {}]
    /\ cache = [u \in Users |-> None]
    /\ heap = [o \in Objects |-> {}]
    /\ lastCached = None
    /\ op = [p \in Procs |-> "none"]
    /\ user = [p \in Procs |-> None]
    /\ number = [p \in Procs |-> 0]
    /\ stage = [p \in Procs |-> "idle"]
    /\ obj = [p \in Procs |-> None]
    /\ data = [p \in Procs |-> {}]
    /\ list = [p \in Procs |-> {}]
    /\ clean = {}
    /\ stale = {}

\* The program ends at any point and starts again: only the keyring is left.
Crash ==
    /\ UNCHANGED <<keyringVars, count, promiseVars>>
    /\ cache' = [u \in Users |-> None]
    /\ heap' = [o \in Objects |-> {}]
    /\ lastCached' = None
    /\ op' = [p \in Procs |-> "none"]
    /\ user' = [p \in Procs |-> None]
    /\ number' = [p \in Procs |-> 0]
    /\ stage' = [p \in Procs |-> "idle"]
    /\ obj' = [p \in Procs |-> None]
    /\ data' = [p \in Procs |-> {}]
    /\ list' = [p \in Procs |-> {}]
    /\ clean' = {}
    /\ stale' = {}

\* Objects the cache c and the goroutines, through o, point to; the collector
\* clears the others.
Live(c, o) == {c[u] : u \in Users} \cup {o[p] : p \in Procs}
Collect(h, c, o) == [x \in Objects |-> IF x \in Live(c, o) THEN h[x] ELSE {}]

Writers(u) == {p \in Procs : op[p] \in {"update", "delete"} /\ user[p] = u}

\* A Get, or the first half of an Update, that has read the keyring and has yet
\* to cache what it read.
Filling(u) == \E p \in Procs : stage[p] = "fill" /\ user[p] = u

At(p, s) == stage[p] = s
Goto(p, s) == stage' = [stage EXCEPT ![p] = s]

\* p returns, with the cache as c.
Return(p, c) ==
    /\ op' = [op EXCEPT ![p] = "none"]
    /\ user' = [user EXCEPT ![p] = None]
    /\ number' = [number EXCEPT ![p] = 0]
    /\ Goto(p, "idle")
    /\ obj' = [obj EXCEPT ![p] = None]
    /\ data' = [data EXCEPT ![p] = {}]
    /\ heap' = Collect(heap, c, obj')
    /\ clean' = clean \ {p}

Begin(p, what, u, n) ==
    /\ At(p, "idle")
    /\ op' = [op EXCEPT ![p] = what]
    /\ user' = [user EXCEPT ![p] = u]
    /\ number' = [number EXCEPT ![p] = n]

-----------------------------------------------------------------------------
(* Get.  A Get that finds the session cached changes nothing and is left    *)
(* out.                                                                     *)

StartGet(p, u) ==
    /\ cache[u] = None
    /\ Begin(p, "get", u, 0)
    /\ Goto(p, "miss")
    /\ UNCHANGED <<keyringVars, memoryVars, count, obj, data, list, clean, stale, promiseVars>>

\* A session in memory that nobody else knows of yet.
New(p, content) ==
    \E o \in Objects \ Live(cache, obj) :
        /\ obj' = [obj EXCEPT ![p] = o]
        /\ heap' = [heap EXCEPT ![o] = content]

\* Bug: what the keyring returned is not unmarshalled.
ReadKeyringBlank(p) ==
    /\ At(p, "miss")
    /\ keyring[user[p]] # {}
    /\ New(p, {})
    /\ Goto(p, "fill")
    /\ UNCHANGED <<keyringVars, cache, lastCached, count, callVars, data, list, clean, stale,
                   promiseVars>>

ReadKeyring(p) ==
    /\ At(p, "miss")
    /\ keyring[user[p]] # {}
    /\ New(p, keyring[user[p]])
    /\ Goto(p, "fill")
    /\ UNCHANGED <<keyringVars, cache, lastCached, count, callVars, data, list, clean, stale,
                   promiseVars>>

\* Bug: Update goes on with what Get returned, nil.
NotFoundNil(p) ==
    /\ At(p, "miss")
    /\ op[p] = "update"
    /\ Goto(p, "apply")
    /\ UNCHANGED <<keyringVars, memoryVars, count, callVars, obj, data, list, clean, stale,
                   promiseVars>>

\* Get fails: the keyring has no session, or refuses to be read, which to Get
\* is the same.  Update goes on with a session of its own, and will store it
\* over the one the keyring may have: nothing is promised of that any more.
NotFound(p) ==
    /\ At(p, "miss")
    /\ \/ /\ op[p] = "get"
          /\ Return(p, cache)
          /\ UNCHANGED kept
       \/ /\ op[p] = "update"
          /\ New(p, {})
          /\ Goto(p, "apply")
          /\ kept' = [kept EXCEPT ![user[p]] = {}]
          /\ UNCHANGED <<callVars, data, clean>>
    /\ UNCHANGED <<keyringVars, cache, lastCached, count, list, stale, sealed, saved>>

Fill(p) ==
    /\ At(p, "fill")
    /\ cache' = [cache EXCEPT ![user[p]] = obj[p]]
    /\ \/ /\ op[p] = "get"
          /\ Return(p, cache')
       \/ /\ op[p] = "update"
          /\ Goto(p, "apply")
          /\ heap' = Collect(heap, cache', obj)
          /\ UNCHANGED <<callVars, obj, data, clean>>
    /\ UNCHANGED <<keyringVars, lastCached, count, list, stale, promiseVars>>

-----------------------------------------------------------------------------
(* Update: Get, then fn on the object Get returned, then save.              *)

\* Two writers of one user: nothing is promised of either.
CleanFrom(p, u) ==
    (clean \ Writers(u)) \cup (IF Writers(u) = {} THEN {p} ELSE {})

StartUpdate(p, u) ==
    /\ count < MaxUpdates
    /\ count' = count + 1
    /\ Begin(p, "update", u, count + 1)
    /\ \/ /\ cache[u] = None
          /\ Goto(p, "miss")
          /\ UNCHANGED obj
       \/ /\ cache[u] # None
          /\ Goto(p, "apply")
          /\ obj' = [obj EXCEPT ![p] = cache[u]]
    /\ clean' = CleanFrom(p, u)
    /\ sealed' = sealed \ {u}
    /\ UNCHANGED <<keyringVars, memoryVars, data, list, stale, saved, kept>>

Apply(p) ==
    /\ At(p, "apply")
    /\ heap' = [heap EXCEPT ![obj[p]] = @ \cup {number[p]}]
    /\ Goto(p, "marshal")
    /\ UNCHANGED <<keyringVars, cache, lastCached, count, callVars, obj, data, list, clean,
                   stale, promiseVars>>

Marshal(p) ==
    /\ At(p, "marshal")
    /\ data' = [data EXCEPT ![p] = heap[obj[p]]]
    /\ Goto(p, "set")
    /\ UNCHANGED <<keyringVars, memoryVars, count, callVars, obj, list, clean, stale,
                   promiseVars>>

\* Who read the session before will cache what is now old.
CleanUnlessFilling(p) ==
    IF Filling(user[p]) THEN clean \ {p} ELSE clean

SetSession(p) ==
    /\ At(p, "set")
    /\ keyring' = [keyring EXCEPT ![user[p]] = data[p]]
    /\ Goto(p, "cache")
    /\ clean' = CleanUnlessFilling(p)
    /\ UNCHANGED <<known, lastUser, memoryVars, count, callVars, obj, data, list, stale,
                   promiseVars>>

\* Update fails; fn's changes stay in the object, which may be the cached one.
SetRefused(p) ==
    /\ At(p, "set")
    /\ Return(p, cache)
    /\ UNCHANGED <<keyringVars, cache, lastCached, count, list, stale, promiseVars>>

CacheSession(p) ==
    /\ At(p, "cache")
    /\ cache' = [cache EXCEPT ![user[p]] = obj[p]]
    /\ heap' = Collect(heap, cache', obj)
    /\ Goto(p, "list")
    /\ UNCHANGED <<keyringVars, lastCached, count, callVars, obj, data, list, clean, stale,
                   promiseVars>>

-----------------------------------------------------------------------------
(* addKnownUser and removeKnownUser; what they return is ignored.           *)

Listed(p) == IF op[p] = "update" /\ p \in clean THEN {user[p]} ELSE {}

\* Bug: any user in the list will do.
AnyoneKnown(p) ==
    /\ At(p, "list")
    /\ op[p] = "update"
    /\ known # {}
    /\ Goto(p, "global")
    /\ saved' = saved \cup Listed(p)
    /\ UNCHANGED <<keyringVars, memoryVars, count, callVars, obj, data, list, clean, stale,
                   sealed, kept>>

AlreadyKnown(p) ==
    /\ At(p, "list")
    /\ op[p] = "update"
    /\ user[p] \in known
    /\ Goto(p, "global")
    /\ saved' = saved \cup Listed(p)
    /\ UNCHANGED <<keyringVars, memoryVars, count, callVars, obj, data, list, clean, stale,
                   sealed, kept>>

\* GetKnownUsers returns no users if the keyring refuses to be read.
ReadKnown(p) ==
    /\ At(p, "list")
    /\ \E users \in {known, {}} :
           /\ op[p] = "update" => user[p] \notin users
           /\ list' = [list EXCEPT ![p] = users]
           /\ stale' = IF users = known THEN stale \ {p} ELSE stale \cup {p}
    /\ Goto(p, "write")
    /\ UNCHANGED <<keyringVars, memoryVars, count, callVars, obj, data, clean, promiseVars>>

\* Delete is over with the list; save goes on to the global settings.
AfterWrite(p) ==
    /\ At(p, "write")
    /\ list' = [list EXCEPT ![p] = {}]
    /\ \/ /\ op[p] = "update"
          /\ Goto(p, "global")
          /\ UNCHANGED <<callVars, obj, data, clean, heap>>
       \/ /\ op[p] = "delete"
          /\ Return(p, cache)
    /\ UNCHANGED <<keyring, lastUser, cache, lastCached, count, sealed, kept>>

\* A list that is not the one in the keyring, because it could not be read or
\* has been written since, takes users out: nothing is promised of them any more.
Promised(p) == IF p \in stale THEN {} ELSE saved

WriteKnown(p) ==
    /\ AfterWrite(p)
    /\ known' = IF op[p] = "update" THEN list[p] \cup {user[p]} ELSE list[p] \ {user[p]}
    /\ stale' = (stale \ {p}) \cup {q \in Procs \ {p} : At(q, "write")}
    /\ saved' = Promised(p) \cup Listed(p)

WriteRefused(p) ==
    /\ AfterWrite(p)
    /\ UNCHANGED <<known, stale, saved>>

-----------------------------------------------------------------------------
(* UpdateGlobalSettings, the last step of save; what it returns is ignored. *)
(* The settings are read, changed in place, marshalled and stored; those of *)
(* the keyring are cached if they can be read, the default ones are not.    *)

RememberUser(p) ==
    /\ At(p, "global")
    /\ \/ /\ lastCached # None \/ lastUser # None
          /\ lastCached' = user[p]
       \/ /\ lastCached = None
          /\ UNCHANGED lastCached
    /\ Goto(p, "last")
    /\ UNCHANGED <<keyringVars, cache, heap, count, callVars, obj, data, list, clean, stale,
                   promiseVars>>

\* Update returns, with no error.
Acknowledged(p) ==
    [kept EXCEPT ![user[p]] = IF p \in clean THEN @ \cup {number[p]} ELSE @]

\* The object may be the cached one, which another goroutine may have changed.
LastUsers(p) == {user[p], lastCached} \ {None}

StoreLastUser(p) ==
    /\ At(p, "last")
    /\ lastUser' \in LastUsers(p)
    /\ lastCached' \in LastUsers(p)
    /\ kept' = Acknowledged(p)
    /\ Return(p, cache)
    /\ UNCHANGED <<keyring, known, cache, count, list, stale, sealed, saved>>

LastUserRefused(p) ==
    /\ At(p, "last")
    /\ kept' = Acknowledged(p)
    /\ Return(p, cache)
    /\ UNCHANGED <<keyringVars, cache, lastCached, count, list, stale, sealed, saved>>

-----------------------------------------------------------------------------
(* Delete: the keyring, then the cache, then the list.                      *)

StartDelete(p, u) ==
    /\ Begin(p, "delete", u, 0)
    /\ Goto(p, "drop")
    /\ clean' = IF Filling(u) THEN CleanFrom(p, u) \ {p} ELSE CleanFrom(p, u)
    /\ saved' = saved \ {u}
    /\ kept' = [kept EXCEPT ![u] = {}]
    /\ UNCHANGED <<known, lastUser, memoryVars, count, obj, data, list, stale, sealed>>

DeleteSession(p, u) ==
    /\ StartDelete(p, u)
    /\ keyring' = [keyring EXCEPT ![u] = {}]

\* The keyring refuses, and Delete goes on.
DeleteRefused(p, u) ==
    /\ StartDelete(p, u)
    /\ UNCHANGED keyring

\* Bug: the session stays cached.
DropNothing(p) ==
    /\ At(p, "drop")
    /\ sealed' = IF p \in clean /\ keyring[user[p]] = {} THEN sealed \cup {user[p]}
                 ELSE sealed
    /\ Goto(p, "list")
    /\ UNCHANGED <<keyringVars, memoryVars, count, callVars, obj, data, list, clean, stale,
                   saved, kept>>

DropCached(p) ==
    /\ At(p, "drop")
    /\ cache' = [cache EXCEPT ![user[p]] = None]
    /\ heap' = Collect(heap, cache', obj)
    /\ sealed' = IF p \in clean /\ keyring[user[p]] = {} THEN sealed \cup {user[p]}
                 ELSE sealed
    /\ Goto(p, "list")
    /\ UNCHANGED <<keyringVars, lastCached, count, callVars, obj, data, list, clean, stale,
                   saved, kept>>

-----------------------------------------------------------------------------
GetStep(p) == ReadKeyring(p) \/ NotFound(p) \/ Fill(p)

SaveStep(p) ==
    \/ Apply(p) \/ Marshal(p) \/ SetSession(p) \/ SetRefused(p) \/ CacheSession(p)
    \/ RememberUser(p) \/ StoreLastUser(p) \/ LastUserRefused(p)

ListStep(p) == AlreadyKnown(p) \/ ReadKnown(p) \/ WriteKnown(p) \/ WriteRefused(p)

Next ==
    \/ Crash
    \/ \E p \in Procs, u \in Users :
           StartGet(p, u) \/ StartUpdate(p, u) \/ DeleteSession(p, u) \/ DeleteRefused(p, u)
    \/ \E p \in Procs : GetStep(p) \/ SaveStep(p) \/ ListStep(p) \/ DropCached(p)

Spec == Init /\ [][Next]_vars

-----------------------------------------------------------------------------
(* In particular, an Update that is told there is no session has one to     *)
(* change: Get's result is never nil when fn is applied to it.              *)
TypeOK ==
    /\ keyring \in [Users -> SUBSET Updates]
    /\ known \subseteq Users
    /\ lastUser \in Users \cup {None}
    /\ cache \in [Users -> Objects \cup {None}]
    /\ heap \in [Objects -> SUBSET Updates]
    /\ lastCached \in Users \cup {None}
    /\ count \in 0..MaxUpdates
    /\ op \in [Procs -> {"none", "get", "update", "delete"}]
    /\ user \in [Procs -> Users \cup {None}]
    /\ number \in [Procs -> 0..MaxUpdates]
    /\ stage \in [Procs -> Stages]
    /\ obj \in [Procs -> Objects \cup {None}]
    /\ \A p \in Procs : stage[p] \in Holding => obj[p] # None
    /\ data \in [Procs -> SUBSET Updates]
    /\ list \in [Procs -> SUBSET Users]
    /\ clean \subseteq Procs
    /\ stale \subseteq Procs
    /\ sealed \subseteq Users
    /\ saved \subseteq Users
    /\ kept \in [Users -> SUBSET Updates]

(* A user whose Delete found no other call at work on the session has none, *)
(* in the keyring or in memory, until the next Update: no Get that runs     *)
(* behind the Delete puts back what it read before.                         *)
DeletedStaysDeleted == \A u \in sealed : keyring[u] = {} /\ cache[u] = None

(* A user whose session was saved, and the list of known users written, is  *)
(* found again by a restart at any time until the session is deleted: the   *)
(* session is in the keyring, and its user in the list, unless a list that  *)
(* could not be read, or that was read before, is written over it.          *)
SavedIsRestorable == \A u \in saved : keyring[u] # {} /\ u \in known

(* What an Update has changed, and returned, is in the keyring and in the   *)
(* session Get serves, across crashes and whatever is updated after it, if  *)
(* no other writer of the user, nor a Get that had read the session before, *)
(* came in between, until an Update that cannot read the keyring.           *)
UpdatesKept ==
    \A u \in Users :
        /\ kept[u] \subseteq keyring[u]
        /\ cache[u] # None => kept[u] \subseteq heap[cache[u]]
=============================================================================
