---------------------------- MODULE CacheProofs ----------------------------
(***************************************************************************)
(* What TLAPS proves of Cache, for every set of keys, callers and           *)
(* refreshers.  The invariant has four parts beside the types: who leads a  *)
(* flight, how the versions of a flight and of the store compare with what  *)
(* was returned, how they compare with the fence, and what a caller under   *)
(* way or back from Get may rely on.                                        *)
(***************************************************************************)
EXTENDS Cache, TLAPS

Holding == {"store", "finish"}

\* Leading a flight and being in one of its stages are the same thing.
Leadership ==
    /\ \A p \in Procs : pc[p] \in Stages => leader[key[p]] = p
    /\ \A k \in Keys : leader[k] # NoProc =>
           pc[leader[k]] \in Stages /\ key[leader[k]] = k

\* A version in the hand of a flight is no older than those in the store and
\* those returned, and once stored it is the one in the store.
Versions ==
    /\ \A k \in Keys :
           /\ served[k] <= truth[k]
           /\ store[k] <= truth[k]
           /\ store[k] # 0 => served[k] <= store[k]
    /\ \A p \in Procs : pc[p] \in Holding =>
           /\ hand[p] <= truth[key[p]]
           /\ hand[p] # 0 => served[key[p]] <= hand[p]
           /\ pc[p] = "store" => hand[p] # 0 /\ store[key[p]] <= hand[p]
           /\ pc[p] = "finish" /\ hand[p] # 0 /\ store[key[p]] # 0
                => hand[p] = store[key[p]]

\* Nothing held or stored is older than the fence.
Fenced ==
    /\ \A k \in Keys :
           /\ fence[k] <= truth[k]
           /\ store[k] # 0 => fence[k] <= store[k]
    /\ \A p \in Procs : pc[p] \in Holding /\ hand[p] # 0 => fence[key[p]] <= hand[p]

\* The fence a caller found when it began never moves back.
Since ==
    \A c \in Callers :
        /\ pc[c] # "idle" => since[c] <= fence[key[c]]
        /\ pc[c] = "idle" /\ out[c] = "value" => since[c] <= hand[c]

IInv == TypeOK /\ Leadership /\ Versions /\ Fenced /\ Since

-----------------------------------------------------------------------------
LEMMA InitIInv == Init => IInv
  BY ProcsAssumption
  DEF Init, IInv, TypeOK, Leadership, Versions, Fenced, Since, Procs, PcValues,
      Stages, Outcomes, Holding

(* Two processes in stages of the same key's flight are one.                *)
LEMMA OneLeader == Leadership => OneFetchPerKey
  BY DEF Leadership, OneFetchPerKey

LEMMA NextIInv == IInv /\ [Next]_vars => IInv'
<1> SUFFICES ASSUME IInv, [Next]_vars PROVE IInv'
  OBVIOUS
<1> USE ProcsAssumption, VersionAssumption
        DEF Procs, PcValues, Stages, Outcomes, Holding, flightVars
<1>1. ASSUME NEW k \in Keys, Change(k) PROVE IInv'
  <2>1. TypeOK'
    BY <1>1 DEF IInv, TypeOK, Change
  <2>2. Leadership'
    BY <1>1 DEF IInv, Leadership, Change
  <2>3. Versions'
    BY <1>1 DEF IInv, TypeOK, Versions, Change
  <2>4. Fenced'
    BY <1>1 DEF IInv, TypeOK, Fenced, Change
  <2>5. Since'
    BY <1>1 DEF IInv, Since, Change
  <2> QED BY <2>1, <2>2, <2>3, <2>4, <2>5 DEF IInv
<1>2. ASSUME NEW k \in Keys, Expire(k) PROVE IInv'
  BY <1>2 DEF IInv, TypeOK, Leadership, Versions, Fenced, Since, Expire
<1>3. ASSUME NEW ks \in SUBSET Keys, Drop(ks) PROVE IInv'
  <2>1. TypeOK'
    BY <1>3 DEF IInv, TypeOK, Drop
  <2>2. Leadership'
    BY <1>3 DEF IInv, Leadership, Drop
  <2>3. Versions'
    BY <1>3 DEF IInv, TypeOK, Versions, Drop
  <2>4. Fenced'
    BY <1>3 DEF IInv, TypeOK, Leadership, Versions, Fenced, Drop, Undercut
  <2>5. Since'
    BY <1>3 DEF IInv, TypeOK, Fenced, Since, Drop
  <2> QED BY <2>1, <2>2, <2>3, <2>4, <2>5 DEF IInv
<1>4. ASSUME NEW c \in Callers, NEW k \in Keys, Hit(c, k) PROVE IInv'
  <2>1. TypeOK'
    BY <1>4 DEF IInv, TypeOK, Hit, ServeEntry
  <2>2. Leadership'
    BY <1>4 DEF IInv, TypeOK, Leadership, Hit, ServeEntry
  <2>3. Versions'
    BY <1>4 DEF IInv, TypeOK, Versions, Hit, ServeEntry
  <2>4. Fenced'
    BY <1>4 DEF IInv, TypeOK, Fenced, Hit, ServeEntry
  <2>5. Since'
    BY <1>4 DEF IInv, TypeOK, Fenced, Since, Hit, ServeEntry
  <2> QED BY <2>1, <2>2, <2>3, <2>4, <2>5 DEF IInv
<1>5. ASSUME NEW c \in Callers, NEW k \in Keys, NEW r \in Refreshers, HitExpired(c, k, r)
      PROVE IInv'
  <2>1. TypeOK'
    BY <1>5 DEF IInv, TypeOK, HitExpired, ServeEntry
  <2>2. Leadership'
    BY <1>5 DEF IInv, TypeOK, Leadership, HitExpired, ServeEntry
  <2>3. Versions'
    BY <1>5 DEF IInv, TypeOK, Versions, HitExpired, ServeEntry
  <2>4. Fenced'
    BY <1>5 DEF IInv, TypeOK, Fenced, HitExpired, ServeEntry
  <2>5. Since'
    BY <1>5 DEF IInv, TypeOK, Fenced, Since, HitExpired, ServeEntry
  <2> QED BY <2>1, <2>2, <2>3, <2>4, <2>5 DEF IInv
<1>6. ASSUME NEW c \in Callers, NEW k \in Keys, Miss(c, k) PROVE IInv'
  <2>1. TypeOK'
    BY <1>6 DEF IInv, TypeOK, Miss
  <2>2. Leadership'
    BY <1>6 DEF IInv, TypeOK, Leadership, Miss
  <2>3. Versions'
    BY <1>6 DEF IInv, TypeOK, Versions, Miss
  <2>4. Fenced'
    BY <1>6 DEF IInv, TypeOK, Fenced, Miss
  <2>5. Since'
    BY <1>6 DEF IInv, TypeOK, Fenced, Since, Miss
  <2> QED BY <2>1, <2>2, <2>3, <2>4, <2>5 DEF IInv
<1>7. ASSUME NEW p \in Procs, Lead(p) PROVE IInv'
  <2>1. TypeOK'
    BY <1>7 DEF IInv, TypeOK, Lead
  <2>2. Leadership'
    BY <1>7 DEF IInv, TypeOK, Leadership, Lead
  <2>3. Versions'
    BY <1>7 DEF IInv, TypeOK, Versions, Lead
  <2>4. Fenced'
    BY <1>7 DEF IInv, TypeOK, Fenced, Lead
  <2>5. Since'
    BY <1>7 DEF IInv, TypeOK, Since, Lead
  <2> QED BY <2>1, <2>2, <2>3, <2>4, <2>5 DEF IInv
<1>8. ASSUME NEW p \in Procs, Join(p) PROVE IInv'
  <2>1. TypeOK'
    BY <1>8 DEF IInv, TypeOK, Join
  <2>2. Leadership'
    BY <1>8 DEF IInv, TypeOK, Leadership, Join
  <2>3. Versions' /\ Fenced'
    BY <1>8 DEF IInv, TypeOK, Versions, Fenced, Join
  <2>4. Since'
    BY <1>8 DEF IInv, TypeOK, Since, Join
  <2> QED BY <2>1, <2>2, <2>3, <2>4 DEF IInv
<1>9. ASSUME NEW p \in Procs, Check(p) PROVE IInv'
  <2>1. TypeOK'
    BY <1>9 DEF IInv, TypeOK, Check
  <2>2. Leadership'
    BY <1>9 DEF IInv, TypeOK, Leadership, Check
  <2>3. Versions'
    BY <1>9 DEF IInv, TypeOK, Versions, Check
  <2>4. Fenced'
    BY <1>9 DEF IInv, TypeOK, Fenced, Check
  <2>5. Since'
    BY <1>9 DEF IInv, TypeOK, Since, Check
  <2> QED BY <2>1, <2>2, <2>3, <2>4, <2>5 DEF IInv
<1>10. ASSUME NEW p \in Procs, Fetch(p) PROVE IInv'
  <2>1. TypeOK'
    BY <1>10 DEF IInv, TypeOK, Fetch
  <2>2. Leadership'
    BY <1>10 DEF IInv, TypeOK, Leadership, Fetch
  <2>3. Versions'
    BY <1>10 DEF IInv, TypeOK, Versions, Fetch
  <2>4. Fenced'
    BY <1>10 DEF IInv, TypeOK, Fenced, Fetch
  <2>5. Since'
    BY <1>10 DEF IInv, TypeOK, Since, Fetch
  <2> QED BY <2>1, <2>2, <2>3, <2>4, <2>5 DEF IInv
<1>11. ASSUME NEW p \in Procs, FetchFails(p) PROVE IInv'
  <2>1. TypeOK'
    BY <1>11 DEF IInv, TypeOK, FetchFails
  <2>2. Leadership'
    BY <1>11 DEF IInv, TypeOK, Leadership, FetchFails
  <2>3. Versions'
    BY <1>11 DEF IInv, TypeOK, Versions, FetchFails
  <2>4. Fenced'
    BY <1>11 DEF IInv, TypeOK, Fenced, FetchFails
  <2>5. Since'
    BY <1>11 DEF IInv, TypeOK, Since, FetchFails
  <2> QED BY <2>1, <2>2, <2>3, <2>4, <2>5 DEF IInv
<1>12. ASSUME NEW p \in Procs, Store(p) PROVE IInv'
  <2>1. TypeOK'
    BY <1>12 DEF IInv, TypeOK, Store
  <2>2. Leadership'
    BY <1>12 DEF IInv, TypeOK, Leadership, Store
  <2>3. Versions'
    BY <1>12 DEF IInv, TypeOK, Leadership, Versions, Store
  <2>4. Fenced'
    BY <1>12 DEF IInv, TypeOK, Fenced, Store
  <2>5. Since'
    BY <1>12 DEF IInv, TypeOK, Since, Store
  <2> QED BY <2>1, <2>2, <2>3, <2>4, <2>5 DEF IInv
<1>13. ASSUME NEW p \in Procs, Finish(p) PROVE IInv'
  <2> USE <1>13 DEF IInv, TypeOK, Finish, Party, FlightResult
  <2>1. TypeOK'
    OBVIOUS
  <2>2. Leadership'
    BY DEF Leadership
  <2>3. Versions'
    BY DEF Leadership, Versions
  <2>4. Fenced'
    BY DEF Leadership, Fenced
  <2>5. Since'
    BY DEF Leadership, Fenced, Since
  <2> QED BY <2>1, <2>2, <2>3, <2>4, <2>5
<1>14. CASE UNCHANGED vars
  BY <1>14 DEF IInv, TypeOK, Leadership, Versions, Fenced, Since, vars
<1> QED
  BY <1>1, <1>2, <1>3, <1>4, <1>5, <1>6, <1>7, <1>8, <1>9, <1>10, <1>11, <1>12,
     <1>13, <1>14 DEF Next, Step, Invalidate, Clear

LEMMA SpecIInv == Spec => []IInv
  BY InitIInv, NextIInv, PTL DEF Spec

-----------------------------------------------------------------------------
(* Every variable keeps its type.                                           *)
THEOREM TypeCorrect == Spec => []TypeOK
  BY SpecIInv, PTL DEF IInv

(* cache.go never has two requests for one key under way, however many      *)
(* callers miss it and refreshes of it are spawned.                         *)
THEOREM SingleFetch == Spec => []OneFetchPerKey
<1>1. IInv => OneFetchPerKey
  BY OneLeader DEF IInv
<1> QED BY SpecIInv, <1>1, PTL

(* An Invalidate that no flight undercuts hides every older version from    *)
(* the calls of Get that follow it.                                         *)
THEOREM InvalidateFences == Spec => []InvalidateIsAFence
<1>1. IInv => InvalidateIsAFence
  BY DEF IInv, TypeOK, Since, InvalidateIsAFence, Procs
<1> QED BY SpecIInv, <1>1, PTL

(* Get implements the register of module Register: each step of the cache   *)
(* is one of the register's or leaves it alone.                             *)
THEOREM CacheIsARegister == Spec => MonotonicReads
<1>1. Init => LagsBehind!Init
  BY DEF Init, LagsBehind!Init
<1>2. IInv /\ [Next]_vars => [LagsBehind!Next]_<<truth, served>>
  <2> SUFFICES ASSUME IInv, Next
               PROVE LagsBehind!Next \/ UNCHANGED <<truth, served>>
    BY DEF vars
  <2> USE DEF IInv, TypeOK, Procs
  <2>1. ASSUME NEW k \in Keys, Change(k) PROVE LagsBehind!Next
    BY <2>1 DEF Change, LagsBehind!Next, LagsBehind!Write
  <2>2. ASSUME NEW k \in Keys, NEW v \in served[k]..truth[k],
               served' = [served EXCEPT ![k] = v], UNCHANGED truth
        PROVE LagsBehind!Next
    BY <2>2 DEF LagsBehind!Next, LagsBehind!Read
  <2>3. ASSUME NEW c \in Callers, NEW k \in Keys, ServeEntry(c, k), UNCHANGED truth
        PROVE LagsBehind!Next
    <3>1. store[k] \in served[k]..truth[k]
      BY <2>3 DEF Versions, ServeEntry
    <3> QED BY <2>2, <2>3, <3>1 DEF ServeEntry
  <2>4. ASSUME NEW p \in Procs, Finish(p)
        PROVE LagsBehind!Next \/ UNCHANGED <<truth, served>>
    <3>1. CASE p \in Refreshers \/ hand[p] = 0
      BY <2>4, <3>1 DEF Finish
    <3>2. CASE p \notin Refreshers /\ hand[p] # 0
      <4>1. hand[p] \in served[key[p]]..truth[key[p]]
        BY <2>4, <3>2 DEF Finish, Versions, Holding
      <4>2. served' = [served EXCEPT ![key[p]] = hand[p]] /\ UNCHANGED truth
        BY <2>4, <3>2 DEF Finish
      <4> QED BY <2>2, <4>1, <4>2
    <3> QED BY <3>1, <3>2
  <2> QED
    BY <2>1, <2>3, <2>4 DEF Next, Step, Expire, Invalidate, Clear, Drop, Hit,
       HitExpired, Miss, Lead, Join, Check, Fetch, FetchFails, Store
<1> QED BY <1>1, <1>2, SpecIInv, PTL DEF Spec, MonotonicReads, LagsBehind!Spec

(* In particular the versions returned for a key never go back.             *)
THEOREM ReadsAreMonotonic == Spec => [][\A k \in Keys : served'[k] >= served[k]]_served
<1>1. IInv /\ [Next]_vars => [\A k \in Keys : served'[k] >= served[k]]_served
  <2> SUFFICES ASSUME IInv, Next, NEW j \in Keys PROVE served'[j] >= served[j]
    BY DEF vars
  <2> USE DEF IInv, TypeOK, Procs
  <2>1. ASSUME NEW c \in Callers, NEW k \in Keys, ServeEntry(c, k)
        PROVE served'[j] >= served[j]
    BY <2>1 DEF Versions, ServeEntry
  <2>2. ASSUME NEW p \in Procs, Finish(p) PROVE served'[j] >= served[j]
    BY <2>2 DEF Versions, Finish, Holding
  <2>3. served' = served => served'[j] >= served[j]
    OBVIOUS
  <2> QED
    BY <2>1, <2>2, <2>3 DEF Next, Step, Change, Expire, Invalidate, Clear, Drop, Hit,
       HitExpired, Miss, Lead, Join, Check, Fetch, FetchFails, Store
<1> QED BY SpecIInv, <1>1, PTL DEF Spec
=============================================================================
