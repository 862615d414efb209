------------------------- MODULE SessionStoreProofs -------------------------
(***************************************************************************)
(* Proofs about the session store, for every set of users, of goroutines    *)
(* and of objects.                                                          *)
(***************************************************************************)
EXTENDS SessionStore, TLAPS

AfterApply == {"marshal", "set", "cache", "list", "write", "global", "last"}
AfterSet == {"cache", "list", "write", "global", "last"}
AfterCache == {"list", "write", "global", "last"}

Updating(p) == op[p] = "update"
Deleting(p) == op[p] = "delete"

\* What each call is about, and where it can be.
Calls ==
    \A p \in Procs :
        /\ op[p] = "none" <=> stage[p] = "idle"
        /\ op[p] # "none" => user[p] \in Users
        /\ op[p] = "get" => stage[p] \in {"miss", "fill"}
        /\ Updating(p) => stage[p] # "drop" /\ number[p] \in Updates
        /\ Deleting(p) => stage[p] \in {"drop", "list", "write"}
        /\ stage[p] \in {"idle", "miss", "drop"} => obj[p] = None
        /\ p \in clean => Updating(p) \/ Deleting(p)

\* A clean writer is the user's only one.
Exclusive ==
    \A p \in clean : \A q \in Procs :
        (Updating(q) \/ Deleting(q)) /\ user[q] = user[p] => q = p

FreshLists == \A p \in Procs : At(p, "write") /\ p \notin stale => list[p] = known

\* An update stays in its object, and what is stored contains it.
Numbers ==
    \A p \in Procs :
        Updating(p) =>
            /\ stage[p] \in AfterApply => obj[p] # None /\ number[p] \in heap[obj[p]]
            /\ At(p, "set") => number[p] \in data[p]

\* What a clean update has stored stays stored, and what it has cached, or what
\* a Get caches over it, contains it.
CleanUpdate ==
    \A p \in clean :
        Updating(p) =>
            /\ stage[p] \in AfterSet =>
                   /\ number[p] \in keyring[user[p]]
                   /\ \A q \in Procs :
                          At(q, "fill") /\ user[q] = user[p] => number[p] \in heap[obj[q]]
            /\ stage[p] \in AfterCache /\ cache[user[p]] # None =>
                   number[p] \in heap[cache[user[p]]]

\* What has returned is in every copy of the session.
KeptEverywhere ==
    /\ UpdatesKept
    /\ \A p \in Procs :
           op[p] \in {"get", "update"} =>
               /\ obj[p] # None => kept[user[p]] \subseteq heap[obj[p]]
               /\ At(p, "set") => kept[user[p]] \subseteq data[p]

Saved ==
    /\ SavedIsRestorable
    /\ \A p \in Procs : Deleting(p) => user[p] \notin saved

\* A user deleted is neither updated nor about to be cached.
Sealed ==
    /\ DeletedStaysDeleted
    /\ \A p \in Procs : Updating(p) \/ At(p, "fill") => user[p] \notin sealed

\* Nobody is about to cache what a clean Delete has taken from the keyring.
CleanDelete ==
    \A p \in clean :
        At(p, "drop") /\ keyring[user[p]] = {} => ~Filling(user[p])

IInv ==
    /\ TypeOK /\ Calls /\ Exclusive /\ FreshLists /\ Numbers /\ CleanUpdate
    /\ KeptEverywhere /\ Saved /\ Sealed /\ CleanDelete

-----------------------------------------------------------------------------
(* What Return leaves of the types.                                         *)
LEMMA ReturnTypes ==
  ASSUME TypeOK, NEW p \in Procs, NEW c, Return(p, c)
  PROVE  /\ op' \in [Procs -> {"none", "get", "update", "delete"}]
         /\ user' \in [Procs -> Users \cup {None}]
         /\ number' \in [Procs -> 0..MaxUpdates]
         /\ stage' \in [Procs -> Stages]
         /\ obj' \in [Procs -> Objects \cup {None}]
         /\ \A q \in Procs : stage'[q] \in Holding => obj'[q] # None
         /\ data' \in [Procs -> SUBSET Updates]
         /\ heap' \in [Objects -> SUBSET Updates]
         /\ clean' \subseteq Procs
  BY UpdatesAssumption DEF TypeOK, Return, Goto, Stages, Holding, Collect

(* Types: the calls are needed for the users and the numbers they carry.    *)
LEMMA TypesKept ==
  TypeOK /\ Calls /\ [Next]_vars
      => TypeOK'
<1> SUFFICES ASSUME TypeOK, Calls, [Next]_vars PROVE TypeOK'
  OBVIOUS
<1> USE NoneAssumption, UpdatesAssumption
        DEF keyringVars, memoryVars, callVars, promiseVars, TypeOK, Stages, Holding,
            Updates, Updating, Deleting, Collect, Calls
<1>1. CASE Crash
  BY <1>1 DEF Crash
<1>2. ASSUME NEW p \in Procs, NEW u \in Users, StartGet(p, u) PROVE TypeOK'
  BY <1>2 DEF StartGet, Begin, Goto, At
<1>3. ASSUME NEW p \in Procs, NEW u \in Users, StartUpdate(p, u) PROVE TypeOK'
  BY <1>3 DEF StartUpdate, Begin, Goto, At, CleanFrom, Writers
<1>4. ASSUME NEW p \in Procs, NEW u \in Users, DeleteSession(p, u) PROVE TypeOK'
  BY <1>4 DEF DeleteSession, StartDelete, Begin, Goto, At, CleanFrom, Writers
<1>5. ASSUME NEW p \in Procs, NEW u \in Users, DeleteRefused(p, u) PROVE TypeOK'
  BY <1>5 DEF DeleteRefused, StartDelete, Begin, Goto, At, CleanFrom, Writers
<1>6. ASSUME NEW p \in Procs, ReadKeyring(p) PROVE TypeOK'
  BY <1>6 DEF ReadKeyring, New, Goto, At
<1>7. ASSUME NEW p \in Procs, NotFound(p) PROVE TypeOK'
  <2>1. CASE op[p] = "get"
    BY <1>7, <2>1, ReturnTypes DEF NotFound
  <2>2. CASE op[p] = "update"
    <3>1. user[p] \in Users
      BY <2>2
    <3>2. /\ obj' \in [Procs -> Objects \cup {None}]
          /\ heap' \in [Objects -> SUBSET Updates]
          /\ obj'[p] # None /\ \A q \in Procs : q # p => obj'[q] = obj[q]
      BY <1>7, <2>2 DEF NotFound, New
    <3>3. stage' \in [Procs -> Stages] /\ \A q \in Procs : q # p => stage'[q] = stage[q]
      BY <1>7, <2>2 DEF NotFound, Goto
    <3>4. kept' \in [Users -> SUBSET Updates]
      BY <1>7, <2>2, <3>1 DEF NotFound
    <3>5. UNCHANGED <<keyringVars, cache, lastCached, count, callVars, data, list, clean, stale,
                      sealed, saved>>
      BY <1>7, <2>2 DEF NotFound
    <3> QED BY <3>2, <3>3, <3>4, <3>5
  <2> QED BY <1>7, <2>1, <2>2 DEF NotFound
<1>8. ASSUME NEW p \in Procs, Fill(p) PROVE TypeOK'
  <2>1. CASE op[p] = "get"
    BY <1>8, <2>1, ReturnTypes DEF Fill, At
  <2>2. CASE op[p] = "update"
    BY <1>8, <2>2 DEF Fill, Goto, At
  <2> QED BY <1>8, <2>1, <2>2 DEF Fill
<1>9. ASSUME NEW p \in Procs, Apply(p) PROVE TypeOK'
  BY <1>9 DEF Apply, Goto, At
<1>10. ASSUME NEW p \in Procs, Marshal(p) PROVE TypeOK'
  BY <1>10 DEF Marshal, Goto, At
<1>11. ASSUME NEW p \in Procs, SetSession(p) PROVE TypeOK'
  BY <1>11 DEF SetSession, CleanUnlessFilling, Goto, At
<1>12. ASSUME NEW p \in Procs, SetRefused(p) PROVE TypeOK'
  BY <1>12 DEF SetRefused, Return, Goto, At
<1>13. ASSUME NEW p \in Procs, CacheSession(p) PROVE TypeOK'
  BY <1>13 DEF CacheSession, Goto, At
<1>14. ASSUME NEW p \in Procs, AlreadyKnown(p) PROVE TypeOK'
  BY <1>14 DEF AlreadyKnown, Goto, At, Listed
<1>15. ASSUME NEW p \in Procs, ReadKnown(p) PROVE TypeOK'
  BY <1>15 DEF ReadKnown, Goto, At
<1>16. ASSUME NEW p \in Procs, WriteKnown(p) PROVE TypeOK'
  <2>1. CASE op[p] = "update"
    BY <1>16, <2>1 DEF WriteKnown, AfterWrite, Goto, At, Listed, Promised
  <2>2. CASE op[p] = "delete"
    BY <1>16, <2>2, ReturnTypes DEF WriteKnown, AfterWrite, Listed, Promised
  <2> QED BY <1>16, <2>1, <2>2 DEF WriteKnown, AfterWrite
<1>17. ASSUME NEW p \in Procs, WriteRefused(p) PROVE TypeOK'
  <2>1. CASE op[p] = "update"
    BY <1>17, <2>1 DEF WriteRefused, AfterWrite, Goto, At
  <2>2. CASE op[p] = "delete"
    BY <1>17, <2>2, ReturnTypes DEF WriteRefused, AfterWrite
  <2> QED BY <1>17, <2>1, <2>2 DEF WriteRefused, AfterWrite
<1>18. ASSUME NEW p \in Procs, RememberUser(p) PROVE TypeOK'
  BY <1>18 DEF RememberUser, Goto, At
<1>19. ASSUME NEW p \in Procs, StoreLastUser(p) PROVE TypeOK'
  BY <1>19 DEF StoreLastUser, Return, Goto, At, Acknowledged, LastUsers
<1>20. ASSUME NEW p \in Procs, LastUserRefused(p) PROVE TypeOK'
  BY <1>20 DEF LastUserRefused, Return, Goto, At, Acknowledged
<1>21. ASSUME NEW p \in Procs, DropCached(p) PROVE TypeOK'
  BY <1>21 DEF DropCached, Goto, At
<1>22. CASE UNCHANGED vars
  BY <1>22 DEF vars
<1> QED
   BY <1>1, <1>2, <1>3, <1>4, <1>5, <1>6, <1>7, <1>8, <1>9, <1>10, <1>11, <1>12, <1>13,
     <1>14, <1>15, <1>16, <1>17, <1>18, <1>19, <1>20, <1>21, <1>22
  DEF Next, GetStep, SaveStep, ListStep

(* A call goes through its own stages, with its user and its object.        *)
LEMMA CallsKept ==
  TypeOK /\ Calls /\ [Next]_vars
      => Calls'
<1> SUFFICES ASSUME TypeOK, Calls, [Next]_vars PROVE Calls'
  OBVIOUS
<1> USE NoneAssumption, UpdatesAssumption
        DEF keyringVars, memoryVars, callVars, promiseVars, TypeOK, Stages, Holding,
            Updates, Updating, Deleting, Calls
<1>1. CASE Crash
  BY <1>1 DEF Crash
<1>2. ASSUME NEW p \in Procs, NEW u \in Users, StartGet(p, u) PROVE Calls'
  BY <1>2 DEF StartGet, Begin, Goto, At
<1>3. ASSUME NEW p \in Procs, NEW u \in Users, StartUpdate(p, u) PROVE Calls'
  BY <1>3 DEF StartUpdate, Begin, Goto, At, CleanFrom, Writers
<1>4. ASSUME NEW p \in Procs, NEW u \in Users, DeleteSession(p, u) PROVE Calls'
  BY <1>4 DEF DeleteSession, StartDelete, Begin, Goto, At, CleanFrom, Writers
<1>5. ASSUME NEW p \in Procs, NEW u \in Users, DeleteRefused(p, u) PROVE Calls'
  BY <1>5 DEF DeleteRefused, StartDelete, Begin, Goto, At, CleanFrom, Writers
<1>6. ASSUME NEW p \in Procs, ReadKeyring(p) PROVE Calls'
  BY <1>6 DEF ReadKeyring, New, Goto, At
<1>7. ASSUME NEW p \in Procs, NotFound(p) PROVE Calls'
  BY <1>7 DEF NotFound, New, Return, Goto, At
<1>8. ASSUME NEW p \in Procs, Fill(p) PROVE Calls'
  BY <1>8 DEF Fill, Return, Goto, At
<1>9. ASSUME NEW p \in Procs, Apply(p) PROVE Calls'
  BY <1>9 DEF Apply, Goto, At
<1>10. ASSUME NEW p \in Procs, Marshal(p) PROVE Calls'
  BY <1>10 DEF Marshal, Goto, At
<1>11. ASSUME NEW p \in Procs, SetSession(p) PROVE Calls'
  BY <1>11 DEF SetSession, CleanUnlessFilling, Goto, At
<1>12. ASSUME NEW p \in Procs, SetRefused(p) PROVE Calls'
  BY <1>12 DEF SetRefused, Return, Goto, At
<1>13. ASSUME NEW p \in Procs, CacheSession(p) PROVE Calls'
  BY <1>13 DEF CacheSession, Goto, At
<1>14. ASSUME NEW p \in Procs, AlreadyKnown(p) PROVE Calls'
  BY <1>14 DEF AlreadyKnown, Goto, At, Listed
<1>15. ASSUME NEW p \in Procs, ReadKnown(p) PROVE Calls'
  BY <1>15 DEF ReadKnown, Goto, At
<1>16. ASSUME NEW p \in Procs, WriteKnown(p) PROVE Calls'
  BY <1>16 DEF WriteKnown, AfterWrite, Return, Goto, At, Listed, Promised
<1>17. ASSUME NEW p \in Procs, WriteRefused(p) PROVE Calls'
  BY <1>17 DEF WriteRefused, AfterWrite, Return, Goto, At
<1>18. ASSUME NEW p \in Procs, RememberUser(p) PROVE Calls'
  BY <1>18 DEF RememberUser, Goto, At
<1>19. ASSUME NEW p \in Procs, StoreLastUser(p) PROVE Calls'
  BY <1>19 DEF StoreLastUser, Return, Goto, At, Acknowledged, LastUsers
<1>20. ASSUME NEW p \in Procs, LastUserRefused(p) PROVE Calls'
  BY <1>20 DEF LastUserRefused, Return, Goto, At, Acknowledged
<1>21. ASSUME NEW p \in Procs, DropCached(p) PROVE Calls'
  BY <1>21 DEF DropCached, Goto, At
<1>22. CASE UNCHANGED vars
  BY <1>22 DEF vars
<1> QED
   BY <1>1, <1>2, <1>3, <1>4, <1>5, <1>6, <1>7, <1>8, <1>9, <1>10, <1>11, <1>12, <1>13,
     <1>14, <1>15, <1>16, <1>17, <1>18, <1>19, <1>20, <1>21, <1>22
  DEF Next, GetStep, SaveStep, ListStep

(* A writer that begins next to another makes both unclean.                 *)
LEMMA ExclusiveKept ==
  TypeOK /\ Calls /\ Exclusive /\ [Next]_vars
      => Exclusive'
<1> SUFFICES ASSUME TypeOK, Calls, Exclusive, [Next]_vars PROVE Exclusive'
  OBVIOUS
<1> USE NoneAssumption, UpdatesAssumption
        DEF keyringVars, memoryVars, callVars, promiseVars, TypeOK, Updating, Deleting,
            Calls, Exclusive
<1>1. CASE Crash
  BY <1>1 DEF Crash
<1>2. ASSUME NEW p \in Procs, NEW u \in Users, StartGet(p, u) PROVE Exclusive'
  BY <1>2 DEF StartGet, Begin, Goto, At
<1>3. ASSUME NEW p \in Procs, NEW u \in Users, StartUpdate(p, u) PROVE Exclusive'
  BY <1>3 DEF StartUpdate, Begin, Goto, At, CleanFrom, Writers
<1>4. ASSUME NEW p \in Procs, NEW u \in Users, DeleteSession(p, u) PROVE Exclusive'
  BY <1>4 DEF DeleteSession, StartDelete, Begin, Goto, At, CleanFrom, Writers
<1>5. ASSUME NEW p \in Procs, NEW u \in Users, DeleteRefused(p, u) PROVE Exclusive'
  BY <1>5 DEF DeleteRefused, StartDelete, Begin, Goto, At, CleanFrom, Writers
<1>6. ASSUME NEW p \in Procs, ReadKeyring(p) PROVE Exclusive'
  BY <1>6 DEF ReadKeyring, New, Goto, At
<1>7. ASSUME NEW p \in Procs, NotFound(p) PROVE Exclusive'
  BY <1>7 DEF NotFound, New, Return, Goto, At
<1>8. ASSUME NEW p \in Procs, Fill(p) PROVE Exclusive'
  BY <1>8 DEF Fill, Return, Goto, At
<1>9. ASSUME NEW p \in Procs, Apply(p) PROVE Exclusive'
  BY <1>9 DEF Apply, Goto, At
<1>10. ASSUME NEW p \in Procs, Marshal(p) PROVE Exclusive'
  BY <1>10 DEF Marshal, Goto, At
<1>11. ASSUME NEW p \in Procs, SetSession(p) PROVE Exclusive'
  BY <1>11 DEF SetSession, CleanUnlessFilling, Goto, At
<1>12. ASSUME NEW p \in Procs, SetRefused(p) PROVE Exclusive'
  BY <1>12 DEF SetRefused, Return, Goto, At
<1>13. ASSUME NEW p \in Procs, CacheSession(p) PROVE Exclusive'
  BY <1>13 DEF CacheSession, Goto, At
<1>14. ASSUME NEW p \in Procs, AlreadyKnown(p) PROVE Exclusive'
  BY <1>14 DEF AlreadyKnown, Goto, At, Listed
<1>15. ASSUME NEW p \in Procs, ReadKnown(p) PROVE Exclusive'
  BY <1>15 DEF ReadKnown, Goto, At
<1>16. ASSUME NEW p \in Procs, WriteKnown(p) PROVE Exclusive'
  BY <1>16 DEF WriteKnown, AfterWrite, Return, Goto, At, Listed, Promised
<1>17. ASSUME NEW p \in Procs, WriteRefused(p) PROVE Exclusive'
  BY <1>17 DEF WriteRefused, AfterWrite, Return, Goto, At
<1>18. ASSUME NEW p \in Procs, RememberUser(p) PROVE Exclusive'
  BY <1>18 DEF RememberUser, Goto, At
<1>19. ASSUME NEW p \in Procs, StoreLastUser(p) PROVE Exclusive'
  BY <1>19 DEF StoreLastUser, Return, Goto, At, Acknowledged, LastUsers
<1>20. ASSUME NEW p \in Procs, LastUserRefused(p) PROVE Exclusive'
  BY <1>20 DEF LastUserRefused, Return, Goto, At, Acknowledged
<1>21. ASSUME NEW p \in Procs, DropCached(p) PROVE Exclusive'
  BY <1>21 DEF DropCached, Goto, At
<1>22. CASE UNCHANGED vars
  BY <1>22 DEF vars
<1> QED
   BY <1>1, <1>2, <1>3, <1>4, <1>5, <1>6, <1>7, <1>8, <1>9, <1>10, <1>11, <1>12, <1>13,
     <1>14, <1>15, <1>16, <1>17, <1>18, <1>19, <1>20, <1>21, <1>22
  DEF Next, GetStep, SaveStep, ListStep

(* What is pointed to before a step and after it loses no update.          *)
Grown ==
    /\ \A p \in Procs :
           obj'[p] = obj[p] /\ obj[p] # None => heap[obj[p]] \subseteq heap'[obj[p]]
    /\ \A u \in Users :
           cache'[u] = cache[u] /\ cache[u] # None => heap[cache[u]] \subseteq heap'[cache[u]]
    /\ \A u \in Users, p \in Procs :
           cache'[u] = obj[p] /\ obj[p] # None => heap[obj[p]] \subseteq heap'[obj[p]]

(* The collector spares what is pointed to.                                *)
LEMMA CollectGrows ==
  ASSUME TypeOK, heap' = Collect(heap, cache', obj')
  PROVE  Grown
<1>1. ASSUME NEW x \in Objects, x \in Live(cache', obj')
      PROVE  heap'[x] = heap[x]
  BY <1>1 DEF Collect
<1>2. \A p \in Procs : obj'[p] \in Live(cache', obj')
  BY DEF Live
<1>3. \A u \in Users : cache'[u] \in Live(cache', obj')
  BY DEF Live
<1> QED BY <1>1, <1>2, <1>3 DEF Grown, TypeOK

LEMMA HeapGrows ==
  TypeOK /\ Calls /\ [Next]_vars
      => Grown
<1> SUFFICES ASSUME TypeOK, Calls, [Next]_vars PROVE Grown
  OBVIOUS
<1> USE NoneAssumption, UpdatesAssumption
        DEF Grown, keyringVars, memoryVars, callVars, promiseVars, TypeOK, Calls,
            Collect, Live
<1>1. CASE Crash
  BY <1>1 DEF Crash
<1>2. ASSUME NEW p \in Procs, NEW u \in Users, StartGet(p, u) PROVE Grown
  BY <1>2 DEF StartGet, Begin, Goto, At
<1>3. ASSUME NEW p \in Procs, NEW u \in Users, StartUpdate(p, u) PROVE Grown
  BY <1>3 DEF StartUpdate, Begin, Goto, At, CleanFrom, Writers
<1>4. ASSUME NEW p \in Procs, NEW u \in Users, DeleteSession(p, u) PROVE Grown
  BY <1>4 DEF DeleteSession, StartDelete, Begin, Goto, At, CleanFrom, Writers
<1>5. ASSUME NEW p \in Procs, NEW u \in Users, DeleteRefused(p, u) PROVE Grown
  BY <1>5 DEF DeleteRefused, StartDelete, Begin, Goto, At, CleanFrom, Writers
<1>6. ASSUME NEW p \in Procs, ReadKeyring(p) PROVE Grown
  BY <1>6 DEF ReadKeyring, New, Goto, At
<1>7. ASSUME NEW p \in Procs, NotFound(p) PROVE Grown
  BY <1>7 DEF NotFound, New, Return, Goto, At
<1>8. ASSUME NEW p \in Procs, Fill(p) PROVE Grown
  <2>1. heap' = Collect(heap, cache', obj')
    <3>1. CASE op[p] = "get"
      BY <1>8, <3>1 DEF Fill, Return
    <3>2. CASE op[p] = "update"
      BY <1>8, <3>2 DEF Fill
    <3> QED BY <1>8, <3>1, <3>2 DEF Fill
  <2> HIDE DEF TypeOK, Grown, Collect
  <2> QED BY <2>1, CollectGrows
<1>9. ASSUME NEW p \in Procs, Apply(p) PROVE Grown
  BY <1>9 DEF Apply, Goto, At
<1>10. ASSUME NEW p \in Procs, Marshal(p) PROVE Grown
  BY <1>10 DEF Marshal, Goto, At
<1>11. ASSUME NEW p \in Procs, SetSession(p) PROVE Grown
  BY <1>11 DEF SetSession, CleanUnlessFilling, Goto, At
<1>12. ASSUME NEW p \in Procs, SetRefused(p) PROVE Grown
  BY <1>12 DEF SetRefused, Return, Goto, At
<1>13. ASSUME NEW p \in Procs, CacheSession(p) PROVE Grown
  BY <1>13 DEF CacheSession, Goto, At
<1>14. ASSUME NEW p \in Procs, AlreadyKnown(p) PROVE Grown
  BY <1>14 DEF AlreadyKnown, Goto, At, Listed
<1>15. ASSUME NEW p \in Procs, ReadKnown(p) PROVE Grown
  BY <1>15 DEF ReadKnown, Goto, At
<1>16. ASSUME NEW p \in Procs, WriteKnown(p) PROVE Grown
  <2>1. CASE op[p] = "update"
    BY <1>16, <2>1 DEF WriteKnown, AfterWrite
  <2>2. CASE op[p] = "delete"
    <3>1. cache' = cache /\ heap' = Collect(heap, cache', obj')
      BY <1>16, <2>2 DEF WriteKnown, AfterWrite, Return
    <3> HIDE DEF TypeOK, Grown, Collect
    <3> QED BY <3>1, CollectGrows
  <2> QED BY <1>16, <2>1, <2>2 DEF WriteKnown, AfterWrite
<1>17. ASSUME NEW p \in Procs, WriteRefused(p) PROVE Grown
  <2>1. CASE op[p] = "update"
    BY <1>17, <2>1 DEF WriteRefused, AfterWrite
  <2>2. CASE op[p] = "delete"
    <3>1. cache' = cache /\ heap' = Collect(heap, cache', obj')
      BY <1>17, <2>2 DEF WriteRefused, AfterWrite, Return
    <3> HIDE DEF TypeOK, Grown, Collect
    <3> QED BY <3>1, CollectGrows
  <2> QED BY <1>17, <2>1, <2>2 DEF WriteRefused, AfterWrite
<1>18. ASSUME NEW p \in Procs, RememberUser(p) PROVE Grown
  BY <1>18 DEF RememberUser, Goto, At
<1>19. ASSUME NEW p \in Procs, StoreLastUser(p) PROVE Grown
  BY <1>19 DEF StoreLastUser, Return, Goto, At, Acknowledged, LastUsers
<1>20. ASSUME NEW p \in Procs, LastUserRefused(p) PROVE Grown
  BY <1>20 DEF LastUserRefused, Return, Goto, At, Acknowledged
<1>21. ASSUME NEW p \in Procs, DropCached(p) PROVE Grown
  BY <1>21 DEF DropCached, Goto, At
<1>22. CASE UNCHANGED vars
  BY <1>22 DEF vars
<1> QED
   BY <1>1, <1>2, <1>3, <1>4, <1>5, <1>6, <1>7, <1>8, <1>9, <1>10, <1>11, <1>12, <1>13,
     <1>14, <1>15, <1>16, <1>17, <1>18, <1>19, <1>20, <1>21, <1>22
  DEF Next, GetStep, SaveStep, ListStep

(* Who writes the list makes those that others hold stale.                  *)
LEMMA FreshKept ==
  TypeOK /\ Calls /\ FreshLists /\ [Next]_vars
      => FreshLists'
<1> SUFFICES ASSUME TypeOK, Calls, FreshLists, [Next]_vars PROVE FreshLists'
  OBVIOUS
<1> USE NoneAssumption, UpdatesAssumption
        DEF keyringVars, memoryVars, callVars, promiseVars, TypeOK, Calls, Updating,
            Deleting, FreshLists, At
<1>1. CASE Crash
  BY <1>1 DEF Crash
<1>2. ASSUME NEW p \in Procs, NEW u \in Users, StartGet(p, u) PROVE FreshLists'
  BY <1>2 DEF StartGet, Begin, Goto, At
<1>3. ASSUME NEW p \in Procs, NEW u \in Users, StartUpdate(p, u) PROVE FreshLists'
  BY <1>3 DEF StartUpdate, Begin, Goto, At, CleanFrom, Writers
<1>4. ASSUME NEW p \in Procs, NEW u \in Users, DeleteSession(p, u) PROVE FreshLists'
  BY <1>4 DEF DeleteSession, StartDelete, Begin, Goto, At, CleanFrom, Writers
<1>5. ASSUME NEW p \in Procs, NEW u \in Users, DeleteRefused(p, u) PROVE FreshLists'
  BY <1>5 DEF DeleteRefused, StartDelete, Begin, Goto, At, CleanFrom, Writers
<1>6. ASSUME NEW p \in Procs, ReadKeyring(p) PROVE FreshLists'
  BY <1>6 DEF ReadKeyring, New, Goto, At
<1>7. ASSUME NEW p \in Procs, NotFound(p) PROVE FreshLists'
  BY <1>7 DEF NotFound, New, Return, Goto, At
<1>8. ASSUME NEW p \in Procs, Fill(p) PROVE FreshLists'
  BY <1>8 DEF Fill, Return, Goto, At
<1>9. ASSUME NEW p \in Procs, Apply(p) PROVE FreshLists'
  BY <1>9 DEF Apply, Goto, At
<1>10. ASSUME NEW p \in Procs, Marshal(p) PROVE FreshLists'
  BY <1>10 DEF Marshal, Goto, At
<1>11. ASSUME NEW p \in Procs, SetSession(p) PROVE FreshLists'
  BY <1>11 DEF SetSession, CleanUnlessFilling, Goto, At
<1>12. ASSUME NEW p \in Procs, SetRefused(p) PROVE FreshLists'
  BY <1>12 DEF SetRefused, Return, Goto, At
<1>13. ASSUME NEW p \in Procs, CacheSession(p) PROVE FreshLists'
  BY <1>13 DEF CacheSession, Goto, At
<1>14. ASSUME NEW p \in Procs, AlreadyKnown(p) PROVE FreshLists'
  BY <1>14 DEF AlreadyKnown, Goto, At, Listed
<1>15. ASSUME NEW p \in Procs, ReadKnown(p) PROVE FreshLists'
  BY <1>15 DEF ReadKnown, Goto, At
<1>16. ASSUME NEW p \in Procs, WriteKnown(p) PROVE FreshLists'
  BY <1>16 DEF WriteKnown, AfterWrite, Return, Goto, At, Listed, Promised
<1>17. ASSUME NEW p \in Procs, WriteRefused(p) PROVE FreshLists'
  BY <1>17 DEF WriteRefused, AfterWrite, Return, Goto, At
<1>18. ASSUME NEW p \in Procs, RememberUser(p) PROVE FreshLists'
  BY <1>18 DEF RememberUser, Goto, At
<1>19. ASSUME NEW p \in Procs, StoreLastUser(p) PROVE FreshLists'
  BY <1>19 DEF StoreLastUser, Return, Goto, At, Acknowledged, LastUsers
<1>20. ASSUME NEW p \in Procs, LastUserRefused(p) PROVE FreshLists'
  BY <1>20 DEF LastUserRefused, Return, Goto, At, Acknowledged
<1>21. ASSUME NEW p \in Procs, DropCached(p) PROVE FreshLists'
  BY <1>21 DEF DropCached, Goto, At
<1>22. CASE UNCHANGED vars
  BY <1>22 DEF vars
<1> QED
   BY <1>1, <1>2, <1>3, <1>4, <1>5, <1>6, <1>7, <1>8, <1>9, <1>10, <1>11, <1>12, <1>13,
     <1>14, <1>15, <1>16, <1>17, <1>18, <1>19, <1>20, <1>21, <1>22
  DEF Next, GetStep, SaveStep, ListStep

\* A call that returns is over, and the other ones do not notice.
LEMMA Returned ==
  ASSUME TypeOK, NEW p \in Procs, Return(p, cache)
  PROVE  /\ clean' \subseteq clean
         /\ op'[p] = "none" /\ stage'[p] = "idle"
         /\ \A q \in Procs \ {p} :
                /\ op'[q] = op[q] /\ user'[q] = user[q] /\ number'[q] = number[q]
                /\ stage'[q] = stage[q] /\ obj'[q] = obj[q] /\ data'[q] = data[q]
BY DEF Return, Goto, TypeOK

LEMMA ReturnKeepsNumbers ==
  ASSUME TypeOK, Numbers, Grown, NEW p \in Procs, Return(p, cache)
  PROVE  Numbers'
<1>1. ASSUME NEW q \in Procs, Updating(q)'
      PROVE  /\ q # p /\ Updating(q) /\ number'[q] = number[q]
             /\ stage'[q] = stage[q] /\ obj'[q] = obj[q] /\ data'[q] = data[q]
  BY <1>1, Returned DEF Updating
<1> QED BY <1>1 DEF Numbers, Grown, At

(* Objects in use lose nothing, so an update stays in its object.           *)
LEMMA NumbersKept ==
  TypeOK /\ Calls /\ Numbers /\ Grown /\ [Next]_vars
      => Numbers'
<1> SUFFICES ASSUME TypeOK, Calls, Numbers, Grown, [Next]_vars PROVE Numbers'
  OBVIOUS
<1> USE NoneAssumption, UpdatesAssumption
        DEF keyringVars, memoryVars, callVars, promiseVars, TypeOK, Calls, Updating,
            Deleting, Numbers, AfterApply, Grown, At, Holding
<1>1. CASE Crash
  BY <1>1 DEF Crash
<1>2. ASSUME NEW p \in Procs, NEW u \in Users, StartGet(p, u) PROVE Numbers'
  BY <1>2 DEF StartGet, Begin, Goto, At
<1>3. ASSUME NEW p \in Procs, NEW u \in Users, StartUpdate(p, u) PROVE Numbers'
  BY <1>3 DEF StartUpdate, Begin, Goto, At, CleanFrom, Writers
<1>4. ASSUME NEW p \in Procs, NEW u \in Users, DeleteSession(p, u) PROVE Numbers'
  BY <1>4 DEF DeleteSession, StartDelete, Begin, Goto, At, CleanFrom, Writers
<1>5. ASSUME NEW p \in Procs, NEW u \in Users, DeleteRefused(p, u) PROVE Numbers'
  BY <1>5 DEF DeleteRefused, StartDelete, Begin, Goto, At, CleanFrom, Writers
<1>6. ASSUME NEW p \in Procs, ReadKeyring(p) PROVE Numbers'
  BY <1>6 DEF ReadKeyring, New, Goto, At
<1>7. ASSUME NEW p \in Procs, NotFound(p) PROVE Numbers'
  BY <1>7 DEF NotFound, New, Return, Goto, At
<1>8. ASSUME NEW p \in Procs, Fill(p) PROVE Numbers'
  BY <1>8 DEF Fill, Return, Goto, At
<1>9. ASSUME NEW p \in Procs, Apply(p) PROVE Numbers'
  BY <1>9 DEF Apply, Goto, At
<1>10. ASSUME NEW p \in Procs, Marshal(p) PROVE Numbers'
  BY <1>10 DEF Marshal, Goto, At
<1>11. ASSUME NEW p \in Procs, SetSession(p) PROVE Numbers'
  BY <1>11 DEF SetSession, CleanUnlessFilling, Goto, At
<1>12. ASSUME NEW p \in Procs, SetRefused(p) PROVE Numbers'
  BY <1>12, ReturnKeepsNumbers DEF SetRefused
<1>13. ASSUME NEW p \in Procs, CacheSession(p) PROVE Numbers'
  BY <1>13 DEF CacheSession, Goto, At
<1>14. ASSUME NEW p \in Procs, AlreadyKnown(p) PROVE Numbers'
  BY <1>14 DEF AlreadyKnown, Goto, At, Listed
<1>15. ASSUME NEW p \in Procs, ReadKnown(p) PROVE Numbers'
  BY <1>15 DEF ReadKnown, Goto, At
<1>16. ASSUME NEW p \in Procs, WriteKnown(p) PROVE Numbers'
  BY <1>16 DEF WriteKnown, AfterWrite, Return, Goto, At, Listed, Promised
<1>17. ASSUME NEW p \in Procs, WriteRefused(p) PROVE Numbers'
  BY <1>17 DEF WriteRefused, AfterWrite, Return, Goto, At
<1>18. ASSUME NEW p \in Procs, RememberUser(p) PROVE Numbers'
  BY <1>18 DEF RememberUser, Goto, At
<1>19. ASSUME NEW p \in Procs, StoreLastUser(p) PROVE Numbers'
  BY <1>19, ReturnKeepsNumbers DEF StoreLastUser
<1>20. ASSUME NEW p \in Procs, LastUserRefused(p) PROVE Numbers'
  BY <1>20, ReturnKeepsNumbers DEF LastUserRefused
<1>21. ASSUME NEW p \in Procs, DropCached(p) PROVE Numbers'
  BY <1>21 DEF DropCached, Goto, At
<1>22. CASE UNCHANGED vars
  BY <1>22 DEF vars
<1> QED
   BY <1>1, <1>2, <1>3, <1>4, <1>5, <1>6, <1>7, <1>8, <1>9, <1>10, <1>11, <1>12, <1>13,
     <1>14, <1>15, <1>16, <1>17, <1>18, <1>19, <1>20, <1>21, <1>22
  DEF Next, GetStep, SaveStep, ListStep

(* A saved user leaves the keyring by a Delete, or by a stale list: after   *)
(* either nothing is promised.                                              *)
LEMMA SavedKept ==
  TypeOK /\ Calls /\ Exclusive /\ FreshLists /\ Numbers /\ CleanUpdate /\ Saved /\ [Next]_vars
      => Saved'
<1> SUFFICES ASSUME TypeOK, Calls, Exclusive, FreshLists, Numbers, CleanUpdate, Saved,
   [Next]_vars PROVE Saved'
  OBVIOUS
<1> USE NoneAssumption, UpdatesAssumption
        DEF keyringVars, memoryVars, callVars, promiseVars, TypeOK, Calls, Updating,
            Deleting, Numbers, AfterApply, AfterSet, CleanUpdate, Saved,
            SavedIsRestorable, Exclusive, FreshLists
<1>1. CASE Crash
  BY <1>1 DEF Crash
<1>2. ASSUME NEW p \in Procs, NEW u \in Users, StartGet(p, u) PROVE Saved'
  BY <1>2 DEF StartGet, Begin, Goto, At
<1>3. ASSUME NEW p \in Procs, NEW u \in Users, StartUpdate(p, u) PROVE Saved'
  BY <1>3 DEF StartUpdate, Begin, Goto, At, CleanFrom, Writers
<1>4. ASSUME NEW p \in Procs, NEW u \in Users, DeleteSession(p, u) PROVE Saved'
  BY <1>4 DEF DeleteSession, StartDelete, Begin, Goto, At, CleanFrom, Writers
<1>5. ASSUME NEW p \in Procs, NEW u \in Users, DeleteRefused(p, u) PROVE Saved'
  BY <1>5 DEF DeleteRefused, StartDelete, Begin, Goto, At, CleanFrom, Writers
<1>6. ASSUME NEW p \in Procs, ReadKeyring(p) PROVE Saved'
  BY <1>6 DEF ReadKeyring, New, Goto, At
<1>7. ASSUME NEW p \in Procs, NotFound(p) PROVE Saved'
  BY <1>7 DEF NotFound, New, Return, Goto, At
<1>8. ASSUME NEW p \in Procs, Fill(p) PROVE Saved'
  BY <1>8 DEF Fill, Return, Goto, At
<1>9. ASSUME NEW p \in Procs, Apply(p) PROVE Saved'
  BY <1>9 DEF Apply, Goto, At
<1>10. ASSUME NEW p \in Procs, Marshal(p) PROVE Saved'
  BY <1>10 DEF Marshal, Goto, At
<1>11. ASSUME NEW p \in Procs, SetSession(p) PROVE Saved'
  BY <1>11 DEF SetSession, CleanUnlessFilling, Goto, At
<1>12. ASSUME NEW p \in Procs, SetRefused(p) PROVE Saved'
  BY <1>12 DEF SetRefused, Return, Goto, At
<1>13. ASSUME NEW p \in Procs, CacheSession(p) PROVE Saved'
  BY <1>13 DEF CacheSession, Goto, At
<1>14. ASSUME NEW p \in Procs, AlreadyKnown(p) PROVE Saved'
  BY <1>14 DEF AlreadyKnown, Goto, At, Listed
<1>15. ASSUME NEW p \in Procs, ReadKnown(p) PROVE Saved'
  BY <1>15 DEF ReadKnown, Goto, At
<1>16. ASSUME NEW p \in Procs, WriteKnown(p) PROVE Saved'
  BY <1>16 DEF WriteKnown, AfterWrite, Return, Goto, At, Listed, Promised
<1>17. ASSUME NEW p \in Procs, WriteRefused(p) PROVE Saved'
  BY <1>17 DEF WriteRefused, AfterWrite, Return, Goto, At
<1>18. ASSUME NEW p \in Procs, RememberUser(p) PROVE Saved'
  BY <1>18 DEF RememberUser, Goto, At
<1>19. ASSUME NEW p \in Procs, StoreLastUser(p) PROVE Saved'
  BY <1>19 DEF StoreLastUser, Return, Goto, At, Acknowledged, LastUsers
<1>20. ASSUME NEW p \in Procs, LastUserRefused(p) PROVE Saved'
  BY <1>20 DEF LastUserRefused, Return, Goto, At, Acknowledged
<1>21. ASSUME NEW p \in Procs, DropCached(p) PROVE Saved'
  BY <1>21 DEF DropCached, Goto, At
<1>22. CASE UNCHANGED vars
  BY <1>22 DEF vars
<1> QED
   BY <1>1, <1>2, <1>3, <1>4, <1>5, <1>6, <1>7, <1>8, <1>9, <1>10, <1>11, <1>12, <1>13,
     <1>14, <1>15, <1>16, <1>17, <1>18, <1>19, <1>20, <1>21, <1>22
  DEF Next, GetStep, SaveStep, ListStep

(* A goroutine that returns, or that forgets the cached session, takes      *)
(* nothing from what the others rely on.                                    *)
LEMMA CleanUpdateStays ==
  ASSUME TypeOK, Calls, CleanUpdate, Grown, NEW p \in Procs,
         clean' \subseteq clean, keyring' = keyring,
         op'[p] # "update", stage'[p] # "fill",
         \A q \in Procs \ {p} :
             /\ op'[q] = op[q] /\ user'[q] = user[q] /\ number'[q] = number[q]
             /\ stage'[q] = stage[q] /\ obj'[q] = obj[q],
         \A u \in Users : cache'[u] \in {cache[u], None}
  PROVE  CleanUpdate'
<1> SUFFICES ASSUME NEW r \in clean', Updating(r)'
             PROVE  /\ stage'[r] \in AfterSet =>
                          /\ number'[r] \in keyring'[user'[r]]
                          /\ \A q \in Procs :
                                 stage'[q] = "fill" /\ user'[q] = user'[r] =>
                                     number'[r] \in heap'[obj'[q]]
                    /\ stage'[r] \in AfterCache /\ cache'[user'[r]] # None =>
                          number'[r] \in heap'[cache'[user'[r]]]
  BY DEF CleanUpdate, At
<1>1. r \in clean /\ r \in Procs \ {p} /\ Updating(r) /\ user[r] \in Users
  BY DEF Updating, TypeOK, Calls
<1>2. stage[r] \in AfterSet => number[r] \in keyring[user[r]]
  BY <1>1 DEF CleanUpdate
<1>3. ASSUME NEW q \in Procs, stage'[q] = "fill", user'[q] = user'[r],
             stage[r] \in AfterSet
      PROVE  number[r] \in heap'[obj'[q]]
  <2>1. q # p /\ stage[q] = "fill" /\ user[q] = user[r] /\ obj[q] # None
    BY <1>1, <1>3 DEF TypeOK, Holding
  <2>2. number[r] \in heap[obj[q]]
    BY <1>1, <1>3, <2>1 DEF CleanUpdate, At
  <2> QED BY <2>1, <2>2 DEF Grown
<1>4. ASSUME stage[r] \in AfterCache, cache'[user[r]] # None
      PROVE  number[r] \in heap'[cache'[user[r]]]
  BY <1>1, <1>4 DEF CleanUpdate, Grown
<1> QED BY <1>1, <1>2, <1>3, <1>4

LEMMA ReturnKeepsCleanUpdate ==
  ASSUME TypeOK, Calls, CleanUpdate, Grown, NEW p \in Procs, Return(p, cache),
         UNCHANGED <<keyring, cache>>
  PROVE  CleanUpdate'
BY Returned, CleanUpdateStays DEF TypeOK

(* Nobody else writes the user of a clean update, and a Get that reads the  *)
(* keyring after it finds it there.                                         *)
LEMMA CleanUpdateKept ==
  TypeOK /\ Calls /\ Exclusive /\ Numbers /\ CleanUpdate /\ Grown /\ [Next]_vars
      => CleanUpdate'
<1> SUFFICES ASSUME TypeOK, Calls, Exclusive, Numbers, CleanUpdate, Grown, [Next]_vars
   PROVE CleanUpdate'
  OBVIOUS
<1> USE NoneAssumption, UpdatesAssumption
        DEF keyringVars, memoryVars, callVars, promiseVars, TypeOK, Calls, Updating,
            Deleting, At, Exclusive, Numbers, AfterApply, AfterSet, AfterCache,
            CleanUpdate, Holding, Grown, Filling
<1>1. CASE Crash
  BY <1>1 DEF Crash
<1>2. ASSUME NEW p \in Procs, NEW u \in Users, StartGet(p, u) PROVE CleanUpdate'
  BY <1>2 DEF StartGet, Begin, Goto, At
<1>3. ASSUME NEW p \in Procs, NEW u \in Users, StartUpdate(p, u) PROVE CleanUpdate'
  BY <1>3 DEF StartUpdate, Begin, Goto, At, CleanFrom, Writers
<1>4. ASSUME NEW p \in Procs, NEW u \in Users, DeleteSession(p, u) PROVE CleanUpdate'
  BY <1>4 DEF DeleteSession, StartDelete, Begin, Goto, At, CleanFrom, Writers
<1>5. ASSUME NEW p \in Procs, NEW u \in Users, DeleteRefused(p, u) PROVE CleanUpdate'
  BY <1>5 DEF DeleteRefused, StartDelete, Begin, Goto, At, CleanFrom, Writers
<1>6. ASSUME NEW p \in Procs, ReadKeyring(p) PROVE CleanUpdate'
  BY <1>6 DEF ReadKeyring, New, Goto, At
<1>7. ASSUME NEW p \in Procs, NotFound(p) PROVE CleanUpdate'
  BY <1>7 DEF NotFound, New, Return, Goto, At
<1>8. ASSUME NEW p \in Procs, Fill(p) PROVE CleanUpdate'
  BY <1>8 DEF Fill, Return, Goto, At
<1>9. ASSUME NEW p \in Procs, Apply(p) PROVE CleanUpdate'
  BY <1>9 DEF Apply, Goto, At
<1>10. ASSUME NEW p \in Procs, Marshal(p) PROVE CleanUpdate'
  BY <1>10 DEF Marshal, Goto, At
<1>11. ASSUME NEW p \in Procs, SetSession(p) PROVE CleanUpdate'
  BY <1>11 DEF SetSession, CleanUnlessFilling, Goto, At
<1>12. ASSUME NEW p \in Procs, SetRefused(p) PROVE CleanUpdate'
  BY <1>12, ReturnKeepsCleanUpdate DEF SetRefused
<1>13. ASSUME NEW p \in Procs, CacheSession(p) PROVE CleanUpdate'
  <2>1. Updating(p) /\ obj[p] # None /\ number[p] \in heap'[obj[p]]
    BY <1>13 DEF CacheSession
  <2>2. ASSUME NEW r \in clean, r # p, Updating(r)
        PROVE  cache'[user[r]] = cache[user[r]]
    BY <1>13, <2>1, <2>2 DEF CacheSession
  <2>3. ASSUME NEW r \in clean, Updating(r), NEW q \in Procs, At(q, "fill"),
               user[q] = user[r], stage[r] \in AfterSet
        PROVE  number[r] \in heap'[obj[q]]
    <3>1. obj' = obj
      BY <1>13 DEF CacheSession
    <3> QED BY <2>3, <3>1
  <2>4. ASSUME NEW r \in clean, r # p, Updating(r), stage[r] \in AfterCache,
               cache'[user[r]] # None
        PROVE  number[r] \in heap'[cache'[user[r]]]
    <3>1. cache'[user[r]] = cache[user[r]]
      BY <2>2, <2>4
    <3> QED BY <2>4, <3>1
  <2>5. cache'[user[p]] = obj[p] /\ ~(stage'[p] = "fill")
    BY <1>13, <2>1 DEF CacheSession, Goto
  <2>6. number[p] \in heap'[cache'[user[p]]] /\ (p \in clean => number[p] \in keyring[user[p]])
    BY <1>13, <2>1, <2>5 DEF CacheSession
  <2>7. \A q \in Procs : q # p => stage'[q] = stage[q]
    BY <1>13 DEF CacheSession, Goto
  <2>8. UNCHANGED <<keyring, op, user, number, obj, clean>>
    BY <1>13 DEF CacheSession
  <2>9. p \in clean => \A q \in Procs :
            At(q, "fill") /\ user[q] = user[p] => number[p] \in heap'[obj[q]]
    BY <1>13, <2>1, <2>3 DEF CacheSession
  <2>10. ASSUME NEW r \in clean, Updating(r)
         PROVE  /\ stage'[r] \in AfterSet =>
                      /\ number[r] \in keyring[user[r]]
                      /\ \A q \in Procs :
                             stage'[q] = "fill" /\ user[q] = user[r] => number[r] \in heap'[obj[q]]
                /\ stage'[r] \in AfterCache /\ cache'[user[r]] # None =>
                      number[r] \in heap'[cache'[user[r]]]
    <3>1. CASE r = p
      BY <2>5, <2>6, <2>7, <2>9, <3>1
    <3>2. CASE r # p
      BY <2>3, <2>4, <2>5, <2>7, <2>10, <3>2
    <3> QED BY <3>1, <3>2
  <2> QED BY <2>8, <2>10
<1>14. ASSUME NEW p \in Procs, AlreadyKnown(p) PROVE CleanUpdate'
  BY <1>14 DEF AlreadyKnown, Goto, At, Listed
<1>15. ASSUME NEW p \in Procs, ReadKnown(p) PROVE CleanUpdate'
  BY <1>15 DEF ReadKnown, Goto, At
<1>16. ASSUME NEW p \in Procs, WriteKnown(p) PROVE CleanUpdate'
  BY <1>16 DEF WriteKnown, AfterWrite, Return, Goto, At, Listed, Promised
<1>17. ASSUME NEW p \in Procs, WriteRefused(p) PROVE CleanUpdate'
  BY <1>17 DEF WriteRefused, AfterWrite, Return, Goto, At
<1>18. ASSUME NEW p \in Procs, RememberUser(p) PROVE CleanUpdate'
  BY <1>18 DEF RememberUser, Goto, At
<1>19. ASSUME NEW p \in Procs, StoreLastUser(p) PROVE CleanUpdate'
  BY <1>19, ReturnKeepsCleanUpdate DEF StoreLastUser
<1>20. ASSUME NEW p \in Procs, LastUserRefused(p) PROVE CleanUpdate'
  BY <1>20, ReturnKeepsCleanUpdate DEF LastUserRefused
<1>21. ASSUME NEW p \in Procs, DropCached(p) PROVE CleanUpdate'
  <2>1. Deleting(p)
    BY <1>21 DEF DropCached
  <2> HIDE DEF CleanUpdate, Grown
  <2> QED BY <1>21, <2>1, CleanUpdateStays DEF DropCached, Goto
<1>22. CASE UNCHANGED vars
  BY <1>22 DEF vars
<1> QED
   BY <1>1, <1>2, <1>3, <1>4, <1>5, <1>6, <1>7, <1>8, <1>9, <1>10, <1>11, <1>12, <1>13,
     <1>14, <1>15, <1>16, <1>17, <1>18, <1>19, <1>20, <1>21, <1>22
  DEF Next, GetStep, SaveStep, ListStep

(* An update that is acknowledged is in every copy of the session already.  *)
LEMMA AcknowledgedEverywhere ==
  ASSUME TypeOK, Calls, Exclusive, Numbers, CleanUpdate, KeptEverywhere, Grown,
         NEW p \in Procs, At(p, "last"), Return(p, cache),
         kept' = Acknowledged(p), UNCHANGED <<keyring, cache>>
  PROVE  KeptEverywhere'
<1>1. Updating(p) /\ user[p] \in Users /\ obj[p] # None
  BY DEF Calls, At, Updating, Deleting, Numbers, AfterApply, TypeOK
<1>2. \A u \in Users : kept'[u] \subseteq keyring[u]
  BY <1>1 DEF Acknowledged, KeptEverywhere, UpdatesKept, CleanUpdate, AfterSet, At, TypeOK
<1>3. ASSUME NEW u \in Users, cache[u] # None
      PROVE  kept'[u] \subseteq heap[cache[u]]
   BY <1>1, <1>3 DEF Acknowledged, KeptEverywhere, UpdatesKept, CleanUpdate, AfterCache,
     At,
                    TypeOK
<1>4. ASSUME NEW q \in Procs \ {p}, op[q] \in {"get", "update"}
      PROVE  /\ obj[q] # None => kept'[user[q]] \subseteq heap[obj[q]]
             /\ At(q, "set") => kept'[user[q]] \subseteq data[q]
  <2>1. user[q] \in Users
    BY <1>4 DEF Calls
  <2>2. /\ obj[q] # None => kept[user[q]] \subseteq heap[obj[q]]
        /\ At(q, "set") => kept[user[q]] \subseteq data[q]
    BY <1>4 DEF KeptEverywhere
  <2>3. CASE p \in clean /\ user[q] = user[p]
    <3>1. op[q] = "get"
      BY <1>1, <1>4, <2>3 DEF Exclusive, Updating
    <3>2. obj[q] # None => stage[q] = "fill"
      BY <3>1 DEF Calls
    <3>3. obj[q] # None => number[p] \in heap[obj[q]]
      BY <1>1, <2>3, <3>2 DEF CleanUpdate, AfterSet, At
    <3>4. ~At(q, "set")
      BY <3>1 DEF Calls, At
    <3> QED BY <1>1, <2>1, <2>2, <2>3, <3>3, <3>4 DEF Acknowledged, TypeOK
  <2>4. CASE ~(p \in clean /\ user[q] = user[p])
    <3>1. kept'[user[q]] = kept[user[q]]
      BY <1>1, <2>1, <2>4 DEF Acknowledged, TypeOK
    <3> QED BY <2>2, <3>1
  <2> QED BY <2>3, <2>4
<1>5. op'[p] = "none"
  BY DEF Return, TypeOK
<1>6. ASSUME NEW q \in Procs \ {p}
      PROVE  /\ op'[q] = op[q] /\ user'[q] = user[q] /\ stage'[q] = stage[q]
             /\ obj'[q] = obj[q] /\ data'[q] = data[q]
  BY DEF Return, Goto, TypeOK
<1>7. UpdatesKept'
  BY <1>2, <1>3 DEF UpdatesKept, Grown
<1>8. ASSUME NEW q \in Procs, op'[q] \in {"get", "update"}
      PROVE  /\ obj'[q] # None => kept'[user'[q]] \subseteq heap'[obj'[q]]
             /\ stage'[q] = "set" => kept'[user'[q]] \subseteq data'[q]
  <2>1. q # p
    BY <1>5, <1>8
  <2> QED BY <1>4, <1>6, <1>8, <2>1 DEF Grown, At
<1> QED BY <1>7, <1>8 DEF KeptEverywhere, At

(* Each copy of a session is made from one that has what is kept, and what a*)
(* save writes back comes from such a copy.                                 *)
LEMMA KeptKept ==
  TypeOK /\ Calls /\ Exclusive /\ Numbers /\ CleanUpdate /\ KeptEverywhere /\ Grown /\ [Next]_vars
      => KeptEverywhere'
<1> SUFFICES ASSUME TypeOK, Calls, Exclusive, Numbers, CleanUpdate, KeptEverywhere,
   Grown, [Next]_vars PROVE KeptEverywhere'
  OBVIOUS
<1> USE NoneAssumption, UpdatesAssumption
        DEF keyringVars, memoryVars, callVars, promiseVars, TypeOK, Calls, Updating,
            Deleting, At, Exclusive, Numbers, AfterApply, AfterSet, AfterCache,
            CleanUpdate, Holding, Grown, KeptEverywhere, UpdatesKept
<1>1. CASE Crash
  BY <1>1 DEF Crash
<1>2. ASSUME NEW p \in Procs, NEW u \in Users, StartGet(p, u) PROVE KeptEverywhere'
  BY <1>2 DEF StartGet, Begin, Goto, At
<1>3. ASSUME NEW p \in Procs, NEW u \in Users, StartUpdate(p, u) PROVE KeptEverywhere'
  BY <1>3 DEF StartUpdate, Begin, Goto, At, CleanFrom, Writers
<1>4. ASSUME NEW p \in Procs, NEW u \in Users, DeleteSession(p, u) PROVE KeptEverywhere'
  BY <1>4 DEF DeleteSession, StartDelete, Begin, Goto, At, CleanFrom, Writers
<1>5. ASSUME NEW p \in Procs, NEW u \in Users, DeleteRefused(p, u) PROVE KeptEverywhere'
  BY <1>5 DEF DeleteRefused, StartDelete, Begin, Goto, At, CleanFrom, Writers
<1>6. ASSUME NEW p \in Procs, ReadKeyring(p) PROVE KeptEverywhere'
  BY <1>6 DEF ReadKeyring, New, Goto, At
<1>7. ASSUME NEW p \in Procs, NotFound(p) PROVE KeptEverywhere'
  <2>1. CASE op[p] = "get"
    <3>1. UNCHANGED <<keyring, cache, kept>> /\ op'[p] = "none"
      BY <1>7, <2>1 DEF NotFound, Return
    <3>2. ASSUME NEW q \in Procs, q # p
          PROVE  /\ op'[q] = op[q] /\ user'[q] = user[q] /\ stage'[q] = stage[q]
                 /\ obj'[q] = obj[q] /\ data'[q] = data[q]
      BY <1>7, <2>1, <3>2 DEF NotFound, Return, Goto
    <3>3. UpdatesKept'
      BY <3>1
    <3>4. ASSUME NEW q \in Procs, op'[q] \in {"get", "update"}
          PROVE  /\ obj'[q] # None => kept[user'[q]] \subseteq heap'[obj'[q]]
                 /\ stage'[q] = "set" => kept[user'[q]] \subseteq data'[q]
      <4>1. q # p
        BY <3>1, <3>4
      <4> QED BY <3>2, <3>4, <4>1
    <3> QED BY <3>1, <3>3, <3>4
  <2>2. CASE op[p] = "update"
    <3>1. /\ stage' = [stage EXCEPT ![p] = "apply"] /\ kept' = [kept EXCEPT ![user[p]] = {}]
          /\ UNCHANGED <<keyring, cache, op, user, data>>
      BY <1>7, <2>2 DEF NotFound, Goto
    <3>2. \E o \in Objects : obj' = [obj EXCEPT ![p] = o]
      BY <1>7, <2>2 DEF NotFound, New
    <3>3. \A u \in Users : kept'[u] \subseteq kept[u]
      BY <3>1
    <3>4. UpdatesKept'
      BY <3>1, <3>3
    <3>5. user[p] \in Users /\ kept'[user[p]] = {}
      BY <2>2, <3>1
    <3>6. ASSUME NEW q \in Procs, q # p, op[q] \in {"get", "update"}
          PROVE  /\ obj'[q] # None => kept'[user'[q]] \subseteq heap'[obj'[q]]
                 /\ stage'[q] = "set" => kept'[user'[q]] \subseteq data'[q]
      <4>1. /\ obj'[q] = obj[q] /\ stage'[q] = stage[q] /\ user'[q] = user[q]
            /\ data'[q] = data[q] /\ user[q] \in Users
        BY <3>1, <3>2, <3>6
      <4> QED BY <3>3, <3>6, <4>1
    <3> QED BY <3>1, <3>4, <3>5, <3>6
  <2> QED BY <1>7, <2>1, <2>2 DEF NotFound
<1>8. ASSUME NEW p \in Procs, Fill(p) PROVE KeptEverywhere'
  BY <1>8 DEF Fill, Return, Goto, At
<1>9. ASSUME NEW p \in Procs, Apply(p) PROVE KeptEverywhere'
  BY <1>9 DEF Apply, Goto, At
<1>10. ASSUME NEW p \in Procs, Marshal(p) PROVE KeptEverywhere'
  BY <1>10 DEF Marshal, Goto, At
<1>11. ASSUME NEW p \in Procs, SetSession(p) PROVE KeptEverywhere'
  BY <1>11 DEF SetSession, CleanUnlessFilling, Goto, At
<1>12. ASSUME NEW p \in Procs, SetRefused(p) PROVE KeptEverywhere'
  <2>1. UNCHANGED <<keyring, cache, kept>> /\ Return(p, cache)
    BY <1>12 DEF SetRefused
  <2>2. UpdatesKept'
    BY <2>1
  <2>3. ASSUME NEW q \in Procs, op'[q] \in {"get", "update"}
        PROVE  /\ obj'[q] # None => kept[user'[q]] \subseteq heap'[obj'[q]]
               /\ stage'[q] = "set" => kept[user'[q]] \subseteq data'[q]
    <3>1. /\ op'[q] = op[q] /\ user'[q] = user[q] /\ stage'[q] = stage[q]
          /\ obj'[q] = obj[q] /\ data'[q] = data[q]
      BY <2>1, <2>3, Returned
    <3> QED BY <2>3, <3>1
  <2> QED BY <2>1, <2>2, <2>3
<1>13. ASSUME NEW p \in Procs, CacheSession(p) PROVE KeptEverywhere'
  <2>1. Updating(p) /\ obj[p] # None /\ kept[user[p]] \subseteq heap'[obj[p]]
    BY <1>13 DEF CacheSession
  <2>2. UpdatesKept'
    <3>1. /\ cache' = [cache EXCEPT ![user[p]] = obj[p]] /\ UNCHANGED <<keyring, kept>>
      BY <1>13 DEF CacheSession
    <3> QED BY <2>1, <3>1
  <2>3. \A q \in Procs : obj[q] # None => heap[obj[q]] \subseteq heap'[obj[q]]
    BY <1>13 DEF CacheSession
  <2>4. \A q \in Procs : stage'[q] = "set" => stage[q] = "set"
    BY <1>13 DEF CacheSession, Goto
  <2>5. UNCHANGED <<op, user, obj, data, kept>>
    BY <1>13 DEF CacheSession
  <2>6. ASSUME NEW q \in Procs, op[q] \in {"get", "update"}
        PROVE  /\ obj[q] # None => kept[user[q]] \subseteq heap'[obj[q]]
               /\ stage'[q] = "set" => kept[user[q]] \subseteq data[q]
    BY <2>3, <2>4, <2>6
  <2> QED BY <2>2, <2>5, <2>6
<1>14. ASSUME NEW p \in Procs, AlreadyKnown(p) PROVE KeptEverywhere'
  BY <1>14 DEF AlreadyKnown, Goto, At, Listed
<1>15. ASSUME NEW p \in Procs, ReadKnown(p) PROVE KeptEverywhere'
  BY <1>15 DEF ReadKnown, Goto, At
<1>16. ASSUME NEW p \in Procs, WriteKnown(p) PROVE KeptEverywhere'
  BY <1>16 DEF WriteKnown, AfterWrite, Return, Goto, At, Listed, Promised
<1>17. ASSUME NEW p \in Procs, WriteRefused(p) PROVE KeptEverywhere'
  BY <1>17 DEF WriteRefused, AfterWrite, Return, Goto, At
<1>18. ASSUME NEW p \in Procs, RememberUser(p) PROVE KeptEverywhere'
  BY <1>18 DEF RememberUser, Goto, At
<1>19. ASSUME NEW p \in Procs, StoreLastUser(p) PROVE KeptEverywhere'
  <2> HIDE DEF TypeOK, Calls, Exclusive, Numbers, CleanUpdate, KeptEverywhere, Grown, At
  <2> QED BY <1>19, AcknowledgedEverywhere DEF StoreLastUser
<1>20. ASSUME NEW p \in Procs, LastUserRefused(p) PROVE KeptEverywhere'
  <2> HIDE DEF TypeOK, Calls, Exclusive, Numbers, CleanUpdate, KeptEverywhere, Grown, At
  <2> QED BY <1>20, AcknowledgedEverywhere DEF LastUserRefused
<1>21. ASSUME NEW p \in Procs, DropCached(p) PROVE KeptEverywhere'
  <2>1. \A u \in Users : cache'[u] \in {cache[u], None}
    BY <1>21 DEF DropCached
  <2>2. \A q \in Procs : stage'[q] = "set" => stage[q] = "set"
    BY <1>21 DEF DropCached, Goto
  <2>3. UNCHANGED <<keyring, op, user, obj, data, kept>>
    BY <1>21 DEF DropCached
  <2>4. UpdatesKept'
    BY <2>1, <2>3
  <2>5. ASSUME NEW q \in Procs, op[q] \in {"get", "update"}
        PROVE  /\ obj[q] # None => kept[user[q]] \subseteq heap'[obj[q]]
               /\ stage'[q] = "set" => kept[user[q]] \subseteq data[q]
    BY <2>2, <2>3, <2>5
  <2> QED BY <2>3, <2>4, <2>5
<1>22. CASE UNCHANGED vars
  BY <1>22 DEF vars
<1> QED
   BY <1>1, <1>2, <1>3, <1>4, <1>5, <1>6, <1>7, <1>8, <1>9, <1>10, <1>11, <1>12, <1>13,
     <1>14, <1>15, <1>16, <1>17, <1>18, <1>19, <1>20, <1>21, <1>22
  DEF Next, GetStep, SaveStep, ListStep

(* Without a session in the keyring and without an update nobody caches one.*)
LEMMA SealedKept ==
  TypeOK /\ Calls /\ Exclusive /\ Numbers /\ Sealed /\ CleanDelete /\ [Next]_vars
      => Sealed'
<1> SUFFICES ASSUME TypeOK, Calls, Exclusive, Numbers, Sealed, CleanDelete, [Next]_vars
   PROVE Sealed'
  OBVIOUS
<1> USE NoneAssumption, UpdatesAssumption
        DEF keyringVars, memoryVars, callVars, promiseVars, TypeOK, Calls, Updating,
            Deleting, At, Exclusive, Numbers, AfterApply, Sealed, DeletedStaysDeleted,
            CleanDelete, Filling
<1>1. CASE Crash
  BY <1>1 DEF Crash
<1>2. ASSUME NEW p \in Procs, NEW u \in Users, StartGet(p, u) PROVE Sealed'
  BY <1>2 DEF StartGet, Begin, Goto, At
<1>3. ASSUME NEW p \in Procs, NEW u \in Users, StartUpdate(p, u) PROVE Sealed'
  BY <1>3 DEF StartUpdate, Begin, Goto, At, CleanFrom, Writers
<1>4. ASSUME NEW p \in Procs, NEW u \in Users, DeleteSession(p, u) PROVE Sealed'
  BY <1>4 DEF DeleteSession, StartDelete, Begin, Goto, At, CleanFrom, Writers
<1>5. ASSUME NEW p \in Procs, NEW u \in Users, DeleteRefused(p, u) PROVE Sealed'
  BY <1>5 DEF DeleteRefused, StartDelete, Begin, Goto, At, CleanFrom, Writers
<1>6. ASSUME NEW p \in Procs, ReadKeyring(p) PROVE Sealed'
  BY <1>6 DEF ReadKeyring, New, Goto, At
<1>7. ASSUME NEW p \in Procs, NotFound(p) PROVE Sealed'
  BY <1>7 DEF NotFound, New, Return, Goto, At
<1>8. ASSUME NEW p \in Procs, Fill(p) PROVE Sealed'
  BY <1>8 DEF Fill, Return, Goto, At
<1>9. ASSUME NEW p \in Procs, Apply(p) PROVE Sealed'
  BY <1>9 DEF Apply, Goto, At
<1>10. ASSUME NEW p \in Procs, Marshal(p) PROVE Sealed'
  BY <1>10 DEF Marshal, Goto, At
<1>11. ASSUME NEW p \in Procs, SetSession(p) PROVE Sealed'
  BY <1>11 DEF SetSession, CleanUnlessFilling, Goto, At
<1>12. ASSUME NEW p \in Procs, SetRefused(p) PROVE Sealed'
  BY <1>12 DEF SetRefused, Return, Goto, At
<1>13. ASSUME NEW p \in Procs, CacheSession(p) PROVE Sealed'
  BY <1>13 DEF CacheSession, Goto, At
<1>14. ASSUME NEW p \in Procs, AlreadyKnown(p) PROVE Sealed'
  BY <1>14 DEF AlreadyKnown, Goto, At, Listed
<1>15. ASSUME NEW p \in Procs, ReadKnown(p) PROVE Sealed'
  BY <1>15 DEF ReadKnown, Goto, At
<1>16. ASSUME NEW p \in Procs, WriteKnown(p) PROVE Sealed'
  BY <1>16 DEF WriteKnown, AfterWrite, Return, Goto, At, Listed, Promised
<1>17. ASSUME NEW p \in Procs, WriteRefused(p) PROVE Sealed'
  BY <1>17 DEF WriteRefused, AfterWrite, Return, Goto, At
<1>18. ASSUME NEW p \in Procs, RememberUser(p) PROVE Sealed'
  BY <1>18 DEF RememberUser, Goto, At
<1>19. ASSUME NEW p \in Procs, StoreLastUser(p) PROVE Sealed'
  BY <1>19 DEF StoreLastUser, Return, Goto, At, Acknowledged, LastUsers
<1>20. ASSUME NEW p \in Procs, LastUserRefused(p) PROVE Sealed'
  BY <1>20 DEF LastUserRefused, Return, Goto, At, Acknowledged
<1>21. ASSUME NEW p \in Procs, DropCached(p) PROVE Sealed'
  BY <1>21 DEF DropCached, Goto, At
<1>22. CASE UNCHANGED vars
  BY <1>22 DEF vars
<1> QED
   BY <1>1, <1>2, <1>3, <1>4, <1>5, <1>6, <1>7, <1>8, <1>9, <1>10, <1>11, <1>12, <1>13,
     <1>14, <1>15, <1>16, <1>17, <1>18, <1>19, <1>20, <1>21, <1>22
  DEF Next, GetStep, SaveStep, ListStep

(* Once the keyring has no session nobody reads one to cache it.            *)
LEMMA CleanDeleteKept ==
  TypeOK /\ Calls /\ Exclusive /\ Numbers /\ CleanDelete /\ [Next]_vars
      => CleanDelete'
<1> SUFFICES ASSUME TypeOK, Calls, Exclusive, Numbers, CleanDelete, [Next]_vars PROVE
   CleanDelete'
  OBVIOUS
<1> USE NoneAssumption, UpdatesAssumption
        DEF keyringVars, memoryVars, callVars, promiseVars, TypeOK, Calls, Updating,
            Deleting, At, Exclusive, Numbers, AfterApply, CleanDelete, Filling
<1>1. CASE Crash
  BY <1>1 DEF Crash
<1>2. ASSUME NEW p \in Procs, NEW u \in Users, StartGet(p, u) PROVE CleanDelete'
  BY <1>2 DEF StartGet, Begin, Goto, At
<1>3. ASSUME NEW p \in Procs, NEW u \in Users, StartUpdate(p, u) PROVE CleanDelete'
  BY <1>3 DEF StartUpdate, Begin, Goto, At, CleanFrom, Writers
<1>4. ASSUME NEW p \in Procs, NEW u \in Users, DeleteSession(p, u) PROVE CleanDelete'
  BY <1>4 DEF DeleteSession, StartDelete, Begin, Goto, At, CleanFrom, Writers
<1>5. ASSUME NEW p \in Procs, NEW u \in Users, DeleteRefused(p, u) PROVE CleanDelete'
  BY <1>5 DEF DeleteRefused, StartDelete, Begin, Goto, At, CleanFrom, Writers
<1>6. ASSUME NEW p \in Procs, ReadKeyring(p) PROVE CleanDelete'
  BY <1>6 DEF ReadKeyring, New, Goto, At
<1>7. ASSUME NEW p \in Procs, NotFound(p) PROVE CleanDelete'
  BY <1>7 DEF NotFound, New, Return, Goto, At
<1>8. ASSUME NEW p \in Procs, Fill(p) PROVE CleanDelete'
  BY <1>8 DEF Fill, Return, Goto, At
<1>9. ASSUME NEW p \in Procs, Apply(p) PROVE CleanDelete'
  BY <1>9 DEF Apply, Goto, At
<1>10. ASSUME NEW p \in Procs, Marshal(p) PROVE CleanDelete'
  BY <1>10 DEF Marshal, Goto, At
<1>11. ASSUME NEW p \in Procs, SetSession(p) PROVE CleanDelete'
  BY <1>11 DEF SetSession, CleanUnlessFilling, Goto, At
<1>12. ASSUME NEW p \in Procs, SetRefused(p) PROVE CleanDelete'
  BY <1>12 DEF SetRefused, Return, Goto, At
<1>13. ASSUME NEW p \in Procs, CacheSession(p) PROVE CleanDelete'
  BY <1>13 DEF CacheSession, Goto, At
<1>14. ASSUME NEW p \in Procs, AlreadyKnown(p) PROVE CleanDelete'
  BY <1>14 DEF AlreadyKnown, Goto, At, Listed
<1>15. ASSUME NEW p \in Procs, ReadKnown(p) PROVE CleanDelete'
  BY <1>15 DEF ReadKnown, Goto, At
<1>16. ASSUME NEW p \in Procs, WriteKnown(p) PROVE CleanDelete'
  BY <1>16 DEF WriteKnown, AfterWrite, Return, Goto, At, Listed, Promised
<1>17. ASSUME NEW p \in Procs, WriteRefused(p) PROVE CleanDelete'
  BY <1>17 DEF WriteRefused, AfterWrite, Return, Goto, At
<1>18. ASSUME NEW p \in Procs, RememberUser(p) PROVE CleanDelete'
  BY <1>18 DEF RememberUser, Goto, At
<1>19. ASSUME NEW p \in Procs, StoreLastUser(p) PROVE CleanDelete'
  BY <1>19 DEF StoreLastUser, Return, Goto, At, Acknowledged, LastUsers
<1>20. ASSUME NEW p \in Procs, LastUserRefused(p) PROVE CleanDelete'
  BY <1>20 DEF LastUserRefused, Return, Goto, At, Acknowledged
<1>21. ASSUME NEW p \in Procs, DropCached(p) PROVE CleanDelete'
  BY <1>21 DEF DropCached, Goto, At
<1>22. CASE UNCHANGED vars
  BY <1>22 DEF vars
<1> QED
   BY <1>1, <1>2, <1>3, <1>4, <1>5, <1>6, <1>7, <1>8, <1>9, <1>10, <1>11, <1>12, <1>13,
     <1>14, <1>15, <1>16, <1>17, <1>18, <1>19, <1>20, <1>21, <1>22
  DEF Next, GetStep, SaveStep, ListStep
-----------------------------------------------------------------------------
LEMMA InitIInv == Init => IInv
<1> SUFFICES ASSUME Init PROVE IInv
  OBVIOUS
<1> USE NoneAssumption, UpdatesAssumption DEF Init, Updating, Deleting, At
<1>1. TypeOK
  BY DEF TypeOK, Stages, Holding, Updates
<1>2. Calls /\ Exclusive /\ FreshLists /\ CleanUpdate /\ CleanDelete
  BY DEF Calls, Exclusive, FreshLists, CleanUpdate, CleanDelete
<1>3. Numbers /\ KeptEverywhere
  BY DEF Numbers, KeptEverywhere, UpdatesKept
<1>4. Saved /\ Sealed
  BY DEF Saved, SavedIsRestorable, Sealed, DeletedStaysDeleted
<1> QED BY <1>1, <1>2, <1>3, <1>4 DEF IInv

LEMMA NextIInv == IInv /\ [Next]_vars => IInv'
<1> SUFFICES ASSUME IInv, [Next]_vars PROVE IInv'
  OBVIOUS
<1>1. Grown
  BY HeapGrows DEF IInv
<1>2. TypeOK' /\ Calls' /\ Exclusive' /\ FreshLists'
  BY TypesKept, CallsKept, ExclusiveKept, FreshKept DEF IInv
<1>3. Numbers' /\ CleanUpdate' /\ KeptEverywhere'
  BY <1>1, NumbersKept, CleanUpdateKept, KeptKept DEF IInv
<1>4. Saved' /\ Sealed' /\ CleanDelete'
  BY SavedKept, SealedKept, CleanDeleteKept DEF IInv
<1> QED BY <1>2, <1>3, <1>4 DEF IInv

LEMMA Invariance == Spec => []IInv
  BY InitIInv, NextIInv, PTL DEF Spec

(* The variables keep their types, and whoever is about to change, save or  *)
(* cache a session has one.                                                 *)
THEOREM StoreTypes == Spec => []TypeOK
<1>1. IInv => TypeOK
  BY DEF IInv
<1> QED BY <1>1, Invariance, PTL

(* A user whose Delete found no other call at work on the session has none, *)
(* in the keyring or in memory, until the next Update.                      *)
THEOREM DeletesStick == Spec => []DeletedStaysDeleted
<1>1. IInv => DeletedStaysDeleted
  BY DEF IInv, Sealed
<1> QED BY <1>1, Invariance, PTL

(* A user saved and listed is found by a restart until the Delete.          *)
THEOREM SavesAreRestorable == Spec => []SavedIsRestorable
<1>1. IInv => SavedIsRestorable
  BY DEF IInv, Saved
<1> QED BY <1>1, Invariance, PTL

(* What an undisturbed Update has changed is in the keyring and in what Get *)
(* serves, across crashes and later updates.                                *)
THEOREM UpdatesAreKept == Spec => []UpdatesKept
<1>1. IInv => UpdatesKept
  BY DEF IInv, KeptEverywhere
<1> QED BY <1>1, Invariance, PTL

=============================================================================
