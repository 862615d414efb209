--------------------------- MODULE SessionsProofs ---------------------------
(***************************************************************************)
(* What TLAPS proves of Sessions, for any requests, any number of           *)
(* instances, of session objects in memory and of tokens.                   *)
(*                                                                         *)
(* None of the properties is inductive.  Behind ClosedOnce is that an       *)
(* instance has one owner, the map or the one process that took it or is    *)
(* about to put it there (Owners); behind LoopsAreOwned, that starts which  *)
(* do not overlap find the map empty (Alone); behind LoggedOutStaysOut,     *)
(* that a logout leaves neither a session in the cache nor anyone on the    *)
(* way through an Update, and of the loops only those that wait (Sealed).   *)
(* StoredTokenIsValid is left to TLC.                                       *)
(***************************************************************************)
EXTENDS Sessions, TLAPS

ProgramTypes ==
    /\ main \in {"down", "starting", "serving", "exiting"}
    /\ cancelled \in BOOLEAN
    /\ mapped \in Instances \cup {Nobody}
    /\ raced \in BOOLEAN /\ lost \in BOOLEAN /\ sealed \in BOOLEAN
    /\ leaked \subseteq Instances

LoopTypes ==
    /\ sync \in [Instances -> {"unused", "running", "leaving", "ended"}]
    /\ closes \in [Instances -> Nat]
    /\ refresh \in [Instances -> {"none", "waiting", "asking", "answered"}]
    /\ holds \in [Instances -> Tokens \cup {0}]
    /\ next \in [Instances -> Tokens \cup {0}]

ProcessTypes ==
    /\ stage \in [Processes -> Stages]
    /\ token \in [Processes -> Tokens \cup {0}]
    /\ of \in [Processes -> Instances \cup {Nobody}]
    /\ \A p \in Processes : stage[p] \in {"keys", "revoke", "close"} => of[p] # Nobody

ServerTypes == issued \in 0..MaxTokens /\ valid \subseteq Tokens

ObjectTypes ==
    /\ stored \in Session
    /\ cached \in Copies \cup {NoCopy}
    /\ copy \in [Copies -> Session]
    /\ sess \in [Processes -> Copies \cup {NoCopy}]
    /\ data \in [Processes -> Session]
    /\ stale \subseteq Processes

\* Who reads a session, or has marshalled one, has an object.
Pointed == \A p \in Processes : stage[p] = "init" \/ data[p].present => sess[p] # NoCopy

Types == ProgramTypes /\ LoopTypes /\ ProcessTypes /\ ServerTypes /\ ObjectTypes /\ Pointed

-----------------------------------------------------------------------------
(* What the operations on the objects in memory do.                         *)

LEMMA Objects ==
    /\ Missing \in Session /\ ~Missing.present /\ Blank \in Session /\ Blank.present
    /\ \A s \in Session : \A t \in Tokens \cup {0} : WithToken(s, t) \in Session
    /\ \A s \in Session : [s EXCEPT !.access = TRUE, !.loggedIn = TRUE] \in Session
    /\ \A s \in Session : \A b \in BOOLEAN : [s EXCEPT !.loggedIn = b] \in Session
BY DEF Session, Missing, Blank, WithToken

LEMMA ChangedTypes ==
    ASSUME LoopTypes, ProcessTypes, NEW p \in Processes, NEW s \in Session,
           p \in Instances => stage[p] \notin {"tokens", "restored", "submit"}
    PROVE  Changed(p, s) \in Session
<1>1. CASE stage[p] \in {"tokens", "restored"} /\ p \notin Instances
  <2>1. token[p] \in Tokens \cup {0}
    BY DEF ProcessTypes
  <2>2. Changed(p, s) = WithToken(s, token[p])
    BY <1>1 DEF Changed
  <2> QED BY <2>1, <2>2, Objects
<1>2. CASE p \in Instances
  <2>1. next[p] \in Tokens \cup {0}
    BY <1>2 DEF LoopTypes
  <2>2. Changed(p, s) = WithToken(s, next[p])
    BY <1>2 DEF Changed
  <2> QED BY <2>1, <2>2, Objects
<1>3. CASE stage[p] \notin {"tokens", "restored"} /\ p \notin Instances
  <2>1. Changed(p, s) \in {s, [s EXCEPT !.access = TRUE, !.loggedIn = TRUE]}
    BY <1>3 DEF Changed
  <2> QED BY <2>1, Objects
<1> QED BY <1>1, <1>2, <1>3

LEMMA GetTypes ==
    ASSUME ObjectTypes, NEW c \in Found
    PROVE  c \in Copies \cup {NoCopy} /\ With(c) \in [Copies -> Session]
BY DEF ObjectTypes, Found, Unused, With

LEMMA SweepTypes ==
    ASSUME ObjectTypes, Sweep(copy)
    PROVE  copy' \in [Copies -> Session]
<1>1. copy' = [c \in Copies |-> IF c \in Held' THEN copy[c] ELSE Missing]
  BY DEF Sweep
<1> HIDE DEF Held
<1> QED BY <1>1, Objects DEF ObjectTypes

LEMMA ReleaseTypes ==
    ASSUME ObjectTypes, NEW p \in Processes, Release(p)
    PROVE  /\ sess' \in [Processes -> Copies \cup {NoCopy}]
           /\ data' \in [Processes -> Session] /\ stale' \subseteq Processes
           /\ \A q \in Processes \ {p} : data'[q] = data[q] /\ sess'[q] = sess[q]
           /\ ~data'[p].present
BY Objects DEF ObjectTypes, Release

LEMMA SaveTypes ==
    ASSUME ObjectTypes, Pointed, NEW p \in Processes, Saves(p) \/ SaveRefused(p)
    PROVE  /\ ObjectTypes'
           /\ \A q \in Processes \ {p} : data'[q] = data[q] /\ sess'[q] = sess[q]
           /\ ~data'[p].present
<1>1. /\ Release(p) /\ Sweep(copy) /\ data[p].present
      /\ stored' \in {data[p], stored} /\ cached' \in {sess[p], cached}
  BY DEF Saves, SaveRefused
<1>2. stored' \in Session /\ cached' \in Copies \cup {NoCopy}
  BY <1>1 DEF ObjectTypes
<1> QED BY <1>1, <1>2, ReleaseTypes, SweepTypes DEF ObjectTypes

\* What the homeserver issues.
LEMMA Issued ==
    ASSUME ServerTypes, NEW old, NEW new, Issue(old, new)
    PROVE  new \in Tokens /\ ServerTypes'
<1>1. issued < MaxTokens /\ new = issued + 1 /\ issued' = new /\ valid' = (valid \ {old}) \cup {new}
  BY DEF Issue
<1>2. issued \in 0..MaxTokens /\ MaxTokens \in Nat /\ valid \subseteq Tokens
  BY SessionsAssumption DEF ServerTypes
<1>3. new \in Tokens /\ new \in 0..MaxTokens
  BY <1>1, <1>2 DEF Tokens
<1> QED BY <1>1, <1>2, <1>3 DEF ServerTypes

\* The first two steps of an Update are about the objects in memory only.
LEMMA UpdateKeeps ==
    ASSUME NEW p, Update(p)
    PROVE  UNCHANGED <<program, mapped, loops, process, stored, server, history>>
BY DEF Update, UpdateGets, UpdateChanges

-----------------------------------------------------------------------------
LEMMA InitTypes == Init => Types
<1> SUFFICES ASSUME Init PROVE Types
  OBVIOUS
<1>1. ProgramTypes
  BY DEF Init, ProgramTypes
<1>2. LoopTypes
  BY DEF Init, LoopTypes
<1>3. ProcessTypes
  BY DEF Init, ProcessTypes, Stages
<1>4. ServerTypes
  BY SessionsAssumption DEF Init, ServerTypes
<1>5. ObjectTypes
  BY Objects DEF Init, ObjectTypes
<1>6. Pointed
  BY Objects DEF Init, Pointed
<1> QED BY <1>1, <1>2, <1>3, <1>4, <1>5, <1>6 DEF Types

LEMMA ProgramTypesStep == ProgramTypes /\ ProcessTypes /\ [Next]_vars => ProgramTypes'
<1> SUFFICES ASSUME ProgramTypes, ProcessTypes, [Next]_vars PROVE ProgramTypes'
  OBVIOUS
<1> USE SessionsAssumption DEF ProgramTypes, ProcessTypes, program, history, Processes
<1>1. CASE NewManager
  BY <1>1 DEF NewManager
<1>2. CASE Ended
  BY <1>2 DEF Ended
<1>3. CASE Shutdown \/ Clear
  BY <1>3 DEF Shutdown, Clear, Cancel
<1>4. CASE Restore
  BY <1>4 DEF Restore, RestoreKnown, RestoreRefused, RestoreRefreshes, RestoreFails,
     RestoreStores, Forget, Saves, SaveRefused, At
<1>5. ASSUME NEW p \in Requests, Request(p) PROVE ProgramTypes'
  BY <1>5 DEF Request, Login, LoginFails, LoginAnswered, LoginStores,
     Submit, SetTheme, HandleLogout, Auth, Saves, SaveRefused, At
<1>6. ASSUME NEW p \in Requests \cup {Main}, Start(p), \A i \in Instances : ~NewMatrixSession(p, i)
      PROVE  ProgramTypes'
  BY <1>6 DEF Start, StartSync, ReadSession, ReadSessionRefused, NewMatrixSessionFails,
     KeysReady, KeysFail, Saves, SaveRefused, Finished, At
<1>7. ASSUME NEW p \in Requests \cup {Main}, NEW i \in Instances, NewMatrixSession(p, i)
      PROVE  ProgramTypes'
  BY <1>7 DEF NewMatrixSession, At
<1>8. ASSUME NEW p \in Requests \cup Instances, Logout(p), ~Ended PROVE ProgramTypes'
  BY <1>8 DEF Logout, TakeSession, NothingToTake, Revoke, CloseSession, DeleteSession, Cancel, At
<1>9. ASSUME NEW i \in Instances, RefreshLoop(i) PROVE ProgramTypes'
  BY <1>9 DEF RefreshLoop, Timer, RefreshAnswered, RefreshFails, RefreshStores, Saves, SaveRefused
<1>10. ASSUME NEW i \in Instances, UnknownToken(i) PROVE ProgramTypes'
  BY <1>10 DEF UnknownToken
<1>11. ASSUME NEW p \in Processes, Update(p) PROVE ProgramTypes'
  BY <1>11, UpdateKeeps
<1>12. CASE UNCHANGED vars
  BY <1>12 DEF vars
<1> QED
  BY <1>1, <1>2, <1>3, <1>4, <1>5, <1>6, <1>7, <1>8, <1>9, <1>10, <1>11, <1>12 DEF Next,
     Crash, Start, Logout, NothingToTake

LEMMA LoopTypesStep ==
    LoopTypes /\ ProcessTypes /\ ObjectTypes /\ Pointed /\ [Next]_vars => LoopTypes'
<1> SUFFICES ASSUME LoopTypes, ProcessTypes, ObjectTypes, Pointed, [Next]_vars
             PROVE  LoopTypes'
  OBVIOUS
<1> USE SessionsAssumption DEF LoopTypes, ProcessTypes, loops, instance, loop, Processes
<1>1. CASE NewManager
  BY <1>1 DEF NewManager
<1>2. CASE Ended
  BY <1>2 DEF Ended
<1>3. CASE Shutdown \/ Clear
  BY <1>3 DEF Shutdown, Clear
<1>4. CASE Restore
  BY <1>4 DEF Restore, RestoreKnown, RestoreRefused, RestoreRefreshes, RestoreFails,
     RestoreStores, Forget
<1>5. ASSUME NEW p \in Requests, Request(p) PROVE LoopTypes'
  BY <1>5 DEF Request, Login, LoginFails, LoginAnswered, LoginStores,
     Submit, SetTheme, HandleLogout, Auth
<1>6. ASSUME NEW p \in Requests \cup {Main}, Start(p), \A i \in Instances : ~NewMatrixSession(p, i)
      PROVE  LoopTypes'
  BY <1>6 DEF Start, StartSync, ReadSession, ReadSessionRefused, NewMatrixSessionFails,
     KeysReady, KeysFail
<1>7. ASSUME NEW p \in Requests \cup {Main}, NEW i \in Instances, NewMatrixSession(p, i)
      PROVE  LoopTypes'
  <2>1. stage[p] = "init" /\ p \in Processes
    BY <1>7 DEF NewMatrixSession, At
  <2>2. copy[sess[p]].token \in Tokens \cup {0}
    BY <2>1 DEF Pointed, ObjectTypes, Session
  <2> QED BY <1>7, <2>2 DEF NewMatrixSession
<1>8. ASSUME NEW p \in Requests \cup Instances, Logout(p), ~Ended PROVE LoopTypes'
  BY <1>8 DEF Logout, TakeSession, NothingToTake, Revoke, CloseSession, DeleteSession
<1>9. ASSUME NEW i \in Instances, RefreshLoop(i) PROVE LoopTypes'
  BY <1>9 DEF RefreshLoop, Timer, RefreshAnswered, RefreshFails, RefreshStores, RefreshTo, RefreshedTo
<1>10. ASSUME NEW i \in Instances, UnknownToken(i) PROVE LoopTypes'
  BY <1>10 DEF UnknownToken
<1>11. ASSUME NEW p \in Processes, Update(p) PROVE LoopTypes'
  BY <1>11, UpdateKeeps
<1>12. CASE UNCHANGED vars
  BY <1>12 DEF vars
<1> QED
  BY <1>1, <1>2, <1>3, <1>4, <1>5, <1>6, <1>7, <1>8, <1>9, <1>10, <1>11, <1>12 DEF Next,
     Crash, Start, Logout, NothingToTake

LEMMA ProcessTypesStep ==
    ProcessTypes /\ ProgramTypes /\ [Next]_vars => ProcessTypes'
<1> SUFFICES ASSUME ProcessTypes, ProgramTypes, [Next]_vars PROVE ProcessTypes'
  OBVIOUS
<1> USE SessionsAssumption DEF ProcessTypes, ProgramTypes, process, Processes, Stages
<1>1. CASE NewManager
  BY <1>1 DEF NewManager, Go
<1>2. CASE Ended
  BY <1>2 DEF Ended
<1>3. CASE Shutdown \/ Clear
  BY <1>3 DEF Shutdown, Clear, Cancel
<1>4. CASE Restore
  BY <1>4 DEF Restore, RestoreKnown, RestoreRefused, RestoreRefreshes, RestoreFails,
     RestoreStores, Forget, Go, Move, GoWithNothing, Leave, Issue, At
<1>5. ASSUME NEW p \in Requests, Request(p) PROVE ProcessTypes'
  BY <1>5 DEF Request, Login, LoginFails, LoginAnswered, LoginStores,
     Submit, SetTheme, HandleLogout, Auth, Go, Move, GoWithNothing, Leave, Issue, At
<1>6. ASSUME NEW p \in Requests \cup {Main}, Start(p), \A i \in Instances : ~NewMatrixSession(p, i)
      PROVE  ProcessTypes'
  BY <1>6 DEF Start, StartSync, ReadSession, ReadSessionRefused, NewMatrixSessionFails,
     KeysReady, KeysFail, Go, Move, GoWithNothing, Leave, Finished, At
<1>7. ASSUME NEW p \in Requests \cup {Main}, NEW i \in Instances, NewMatrixSession(p, i)
      PROVE  ProcessTypes'
  BY <1>7 DEF NewMatrixSession, Move, At
<1>8. ASSUME NEW p \in Requests \cup Instances, Logout(p), ~Ended PROVE ProcessTypes'
  BY <1>8 DEF Logout, TakeSession, NothingToTake, Revoke, CloseSession, DeleteSession, Go,
     Move, GoWithNothing, Leave, Cancel, At
<1>9. ASSUME NEW i \in Instances, RefreshLoop(i) PROVE ProcessTypes'
  BY <1>9 DEF RefreshLoop, Timer, RefreshAnswered, RefreshFails, RefreshStores, Issue, RefreshTo, RefreshedTo
<1>10. ASSUME NEW i \in Instances, UnknownToken(i) PROVE ProcessTypes'
  BY <1>10 DEF UnknownToken, Go
<1>11. ASSUME NEW p \in Processes, Update(p) PROVE ProcessTypes'
  BY <1>11, UpdateKeeps
<1>12. CASE UNCHANGED vars
  BY <1>12 DEF vars
<1> QED
  BY <1>1, <1>2, <1>3, <1>4, <1>5, <1>6, <1>7, <1>8, <1>9, <1>10, <1>11, <1>12 DEF Next,
     Crash, Start, Logout, NothingToTake

-----------------------------------------------------------------------------
\* Who does what.
Roles ==
    /\ \A p \in Requests : stage[p] \notin {"restore", "refresh", "restored"}
    /\ \A i \in Instances :
           /\ stage[i] \in {"idle", "logout", "revoke", "close", "delete"}
           /\ stage[i] # "idle" => sync[i] = "leaving"
    /\ stage[Main] \notin {"sso", "tokens", "submit", "theme", "logout", "revoke", "close", "delete",
                           "refuse"}

LEMMA InitRoles == Init => Roles
BY SessionsAssumption DEF Init, Roles, Processes

LEMMA RolesStep == ProcessTypes /\ LoopTypes /\ Roles /\ [Next]_vars => Roles'
<1> SUFFICES ASSUME ProcessTypes, LoopTypes, Roles, [Next]_vars PROVE Roles'
  OBVIOUS
<1> USE SessionsAssumption DEF ProcessTypes, LoopTypes, Roles, process, loops, instance,
        loop, Processes
<1>1. CASE NewManager
  BY <1>1 DEF NewManager, Go
<1>2. CASE Ended
  BY <1>2 DEF Ended
<1>3. CASE Shutdown \/ Clear
  BY <1>3 DEF Shutdown, Clear
<1>4. CASE Restore
  BY <1>4 DEF Restore, RestoreKnown, RestoreRefused, RestoreRefreshes, RestoreFails,
     RestoreStores, Forget, Go, Move, GoWithNothing, Leave, At
<1>5. ASSUME NEW p \in Requests, Request(p) PROVE Roles'
  BY <1>5 DEF Request, Login, LoginFails, LoginAnswered, LoginStores,
     Submit, SetTheme, HandleLogout, Auth, Go, Move, GoWithNothing, Leave, At
<1>6. ASSUME NEW p \in Requests \cup {Main}, Start(p), \A i \in Instances : ~NewMatrixSession(p, i)
      PROVE  Roles'
  BY <1>6 DEF Start, StartSync, ReadSession, ReadSessionRefused, NewMatrixSessionFails,
     KeysReady, KeysFail, Go, Move, GoWithNothing, Leave, Finished, At
<1>7. ASSUME NEW p \in Requests \cup {Main}, NEW i \in Instances, NewMatrixSession(p, i)
      PROVE  Roles'
  BY <1>7 DEF NewMatrixSession, Move, At
<1>8. ASSUME NEW p \in Requests \cup Instances, Logout(p), ~Ended PROVE Roles'
  BY <1>8 DEF Logout, TakeSession, NothingToTake, Revoke, CloseSession, DeleteSession, Go,
     Move, GoWithNothing, Leave, At
<1>9. ASSUME NEW i \in Instances, RefreshLoop(i) PROVE Roles'
  BY <1>9 DEF RefreshLoop, Timer, RefreshAnswered, RefreshFails, RefreshStores
<1>10. ASSUME NEW i \in Instances, UnknownToken(i) PROVE Roles'
  BY <1>10 DEF UnknownToken, Go
<1>11. ASSUME NEW p \in Processes, Update(p) PROVE Roles'
  BY <1>11, UpdateKeeps
<1>12. CASE UNCHANGED vars
  BY <1>12 DEF vars
<1> QED
  BY <1>1, <1>2, <1>3, <1>4, <1>5, <1>6, <1>7, <1>8, <1>9, <1>10, <1>11, <1>12 DEF Next,
     Crash, Start, Logout, NothingToTake

-----------------------------------------------------------------------------
LEMMA ServerTypesStep == ServerTypes /\ [Next]_vars => ServerTypes'
<1> SUFFICES ASSUME ServerTypes, [Next]_vars PROVE ServerTypes'
  OBVIOUS
<1>0. UNCHANGED server => ServerTypes'
  BY DEF server, ServerTypes
<1>1. CASE NewManager \/ Ended \/ Shutdown \/ Clear
  BY <1>0, <1>1 DEF NewManager, Ended, Shutdown, Clear
<1>2. CASE Restore
  <2>1. CASE RestoreRefreshes
    BY <2>1, Issued DEF RestoreRefreshes
  <2>2. CASE RestoreFails
    BY <1>0, <2>2, Issued DEF RestoreFails
  <2> QED BY <1>0, <1>2, <2>1, <2>2 DEF Restore, RestoreKnown, RestoreRefused, RestoreStores
<1>3. ASSUME NEW p \in Requests, Request(p) PROVE ServerTypes'
  <2>1. CASE LoginAnswered(p)
    BY <2>1, Issued DEF LoginAnswered
  <2> QED BY <1>0, <1>3, <2>1 DEF Request, Login, LoginFails, LoginStores, Submit, Auth,
             SetTheme, HandleLogout
<1>4. ASSUME NEW p \in Requests \cup {Main}, Start(p) PROVE ServerTypes'
  BY <1>0, <1>4 DEF Start, StartSync, ReadSession, ReadSessionRefused, NewMatrixSession,
     NewMatrixSessionFails, KeysReady, KeysFail
<1>5. ASSUME NEW p \in Requests \cup Instances, Logout(p), ~Ended PROVE ServerTypes'
  <2>1. CASE Revoke(p)
    BY <2>1 DEF Revoke, ServerTypes
  <2> QED BY <1>0, <1>5, <2>1 DEF Logout, TakeSession, NothingToTake, CloseSession,
             DeleteSession
<1>6. ASSUME NEW i \in Instances, RefreshLoop(i) PROVE ServerTypes'
  <2>1. CASE RefreshAnswered(i)
    BY <2>1, Issued DEF RefreshAnswered
  <2>2. CASE RefreshFails(i)
    BY <1>0, <2>2, Issued DEF RefreshFails
  <2> QED BY <1>0, <1>6, <2>1, <2>2 DEF RefreshLoop, Timer, RefreshStores
<1>7. ASSUME NEW i \in Instances, UnknownToken(i) PROVE ServerTypes'
  BY <1>0, <1>7 DEF UnknownToken
<1>8. ASSUME NEW p \in Processes, Update(p) PROVE ServerTypes'
  BY <1>0, <1>8, UpdateKeeps
<1>9. CASE UNCHANGED vars
  BY <1>0, <1>9 DEF vars, server
<1> QED
  BY <1>1, <1>2, <1>3, <1>4, <1>5, <1>6, <1>7, <1>8, <1>9 DEF Next, Crash, Logout,
     NothingToTake

\* Only ReadSession comes to the stage "init", with an object.
LEMMA NotToInit ==
    ASSUME ProcessTypes, NEW p \in Processes, NEW s, s # "init",
           Go(p, s) \/ (\E t, i : Move(p, s, t, i)) \/ GoWithNothing(p, s)
    PROVE  \A q \in Processes : stage'[q] = "init" => stage[q] = "init" /\ q # p
BY DEF ProcessTypes, Go, Move, GoWithNothing

LEMMA ObjectTypesStep ==
    LoopTypes /\ ProcessTypes /\ Roles /\ ObjectTypes /\ Pointed
    /\ [Next]_vars => ObjectTypes' /\ Pointed'
<1> SUFFICES ASSUME LoopTypes, ProcessTypes, Roles, ObjectTypes, Pointed, [Next]_vars
             PROVE  ObjectTypes' /\ Pointed'
  OBVIOUS
<1> DEFINE Stays(P) == \A q \in Processes : stage'[q] = "init" => stage[q] = "init" /\ q \notin P
<1>0. Main \in Processes /\ Requests \subseteq Processes /\ Instances \subseteq Processes
  BY DEF Processes
\* The four ways to treat the objects: not at all, or with what Get finds or a
\* deletion leaves; with what an Update writes; when a session is let go.
<1>a. ASSUME UNCHANGED store, Stays({}) PROVE ObjectTypes' /\ Pointed'
  BY <1>a DEF store, memory, ObjectTypes, Pointed
<1>b. ASSUME stored' \in Session, cached' \in Copies \cup {NoCopy},
             copy' \in [Copies -> Session], UNCHANGED <<sess, data, stale>>, Stays({})
      PROVE  ObjectTypes' /\ Pointed'
  BY <1>b DEF ObjectTypes, Pointed
<1>c. ASSUME NEW p \in Processes, Saves(p) \/ SaveRefused(p), Stays({p})
      PROVE  ObjectTypes' /\ Pointed'
  BY <1>c, SaveTypes DEF Pointed
<1>d. ASSUME NEW p \in Processes, Release(p), Sweep(copy), UNCHANGED <<stored, cached>>,
             Stays({p})
      PROVE  ObjectTypes' /\ Pointed'
  BY <1>d, ReleaseTypes, SweepTypes DEF ObjectTypes, Pointed
<1>e. UNCHANGED process => Stays({})
  BY DEF process
<1>f. ASSUME NEW p \in Processes, NEW s, s # "init",
             Go(p, s) \/ (\E t, i : Move(p, s, t, i)) \/ GoWithNothing(p, s)
      PROVE  Stays({p}) /\ Stays({})
  BY <1>f, NotToInit
<1>g. ASSUME NEW p \in Processes, Leave(p) PROVE Stays({p}) /\ Stays({})
  BY <1>f, <1>g DEF Leave
<1>h. ASSUME NEW p \in Processes, Finished(p) PROVE Stays({p}) /\ Stays({})
  BY <1>f, <1>g, <1>h DEF Finished
<1> HIDE DEF Stays
<1>1. CASE NewManager
  <2>1. PICK c \in Found : Get(c) /\ (Go(Main, "restore") \/ UNCHANGED process)
    BY <1>1 DEF NewManager
  <2>2. UNCHANGED <<stored, sess, data, stale>>
    BY <1>1 DEF NewManager
  <2> QED BY <2>1, <2>2, <1>0, <1>b, <1>e, <1>f, GetTypes DEF Get, ObjectTypes
<1>2. CASE Ended
  BY <1>2, Objects DEF Ended, ObjectTypes, Pointed
<1>3. CASE Shutdown \/ Clear
  BY <1>3, <1>a, <1>e DEF Shutdown, Clear
<1>4. CASE Restore
  <2>1. CASE Forget
    <3>1. /\ cached' = NoCopy /\ Sweep(copy) /\ stored' \in {Missing, stored}
          /\ UNCHANGED <<sess, data, stale>> /\ Leave(Main)
      BY <2>1 DEF Forget
    <3> QED BY <3>1, <1>0, <1>b, <1>g, Objects, SweepTypes DEF ObjectTypes
  <2>2. CASE RestoreStores
    BY <2>2, <1>0, <1>c, <1>f DEF RestoreStores
  <2>3. CASE RestoreKnown \/ RestoreRefreshes \/ (RestoreRefused /\ ~Forget)
    BY <2>3, <1>0, <1>a, <1>f DEF RestoreKnown, RestoreRefreshes, RestoreRefused
  <2> QED BY <1>4, <2>1, <2>2, <2>3 DEF Restore, RestoreFails
<1>5. ASSUME NEW p \in Requests, Request(p) PROVE ObjectTypes' /\ Pointed'
  <2>1. CASE LoginFails(p) \/ LoginAnswered(p)
    BY <2>1, <1>0, <1>a, <1>f, <1>g DEF LoginFails, LoginAnswered
  <2>2. CASE LoginStores(p) \/ Submit(p) \/ SetTheme(p)
    BY <2>2, <1>0, <1>c, <1>f, <1>g DEF LoginStores, Submit, SetTheme
  <2>3. CASE Login(p)
    <3>1. PICK c \in Found : Get(c) /\ \E s \in {"start", "sso"} : GoWithNothing(p, s)
      BY <2>3 DEF Login
    <3>2. UNCHANGED <<stored, sess, data, stale>>
      BY <2>3 DEF Login
    <3> QED BY <3>1, <3>2, <1>0, <1>b, <1>f, GetTypes DEF Get, ObjectTypes
  <2>4. CASE HandleLogout(p)
    <3>1. PICK c \in Found : Get(c) /\ \E s \in {"logout", "refuse"} : Go(p, s)
      BY <2>4 DEF HandleLogout
    <3>2. UNCHANGED <<stored, sess, data, stale>>
      BY <2>4 DEF HandleLogout
    <3> QED BY <3>1, <3>2, <1>0, <1>b, <1>f, GetTypes DEF Get, ObjectTypes
  <2>5. CASE Auth(p)
    <3>1. PICK c \in Found \ {NoCopy} :
              cached' = c /\ copy' = [With(c) EXCEPT ![c].loggedIn = (mapped # Nobody)]
      BY <2>5 DEF Auth
    <3>2. UNCHANGED <<stored, sess, data, stale>> /\ \E s \in {"refuse", "theme"} : Go(p, s)
      BY <2>5 DEF Auth
    <3>3. c \in Copies /\ With(c) \in [Copies -> Session]
      BY GetTypes
    <3>4. [With(c)[c] EXCEPT !.loggedIn = (mapped # Nobody)] \in Session
      BY <3>3, Objects
    <3>5. copy' \in [Copies -> Session]
      BY <3>1, <3>3, <3>4
    <3> QED BY <3>1, <3>2, <3>3, <3>5, <1>0, <1>b, <1>f DEF ObjectTypes
  <2> QED BY <1>5, <2>1, <2>2, <2>3, <2>4, <2>5 DEF Request
<1>6. ASSUME NEW p \in Requests \cup {Main}, Start(p) PROVE ObjectTypes' /\ Pointed'
  <2>1. CASE StartSync(p)
    BY <2>1, <1>0, <1>a, <1>f, <1>h DEF StartSync
  <2>2. CASE ReadSession(p)
    <3>1. /\ data[p].present /\ stored' = data[p] /\ cached' = sess[p]
          /\ data' = [data EXCEPT ![p] = Missing] /\ stale' = stale \ {p}
          /\ sess' = sess /\ Sweep(copy)
          /\ stage' = [stage EXCEPT ![p] = "init"]
      BY <2>2 DEF ReadSession, Go
    <3>2. p \in Processes /\ sess[p] # NoCopy
      BY <1>0, <3>1 DEF Pointed
    <3>3. ObjectTypes'
      BY <3>1, <3>2, Objects, SweepTypes DEF ObjectTypes
    <3>4. Pointed'
      BY <3>1, <3>2, Objects DEF Pointed, ObjectTypes, ProcessTypes
    <3> QED BY <3>3, <3>4
  <2>3. CASE ReadSessionRefused(p)
    BY <2>3, <1>0, <1>c, <1>g DEF ReadSessionRefused
  <2>4. CASE KeysReady(p) \/ KeysFail(p)
    BY <2>4, <1>0, <1>c, <1>h DEF KeysReady, KeysFail
  <2>5. CASE NewMatrixSessionFails(p)
    BY <2>5, <1>0, <1>d, <1>h DEF NewMatrixSessionFails
  <2>6. ASSUME NEW i \in Instances, NewMatrixSession(p, i) PROVE ObjectTypes' /\ Pointed'
    BY <2>6, <1>0, <1>d, <1>f DEF NewMatrixSession
  <2> QED BY <1>6, <2>1, <2>2, <2>3, <2>4, <2>5, <2>6 DEF Start
<1>7. ASSUME NEW p \in Requests \cup Instances, Logout(p), ~Ended PROVE ObjectTypes' /\ Pointed'
  <2>1. CASE DeleteSession(p)
    <3>1. /\ cached' = NoCopy /\ Sweep(copy) /\ stored' \in {Missing, stored}
          /\ UNCHANGED <<sess, data, stale>> /\ (Leave(p) \/ Go(p, "refuse"))
      BY <2>1 DEF DeleteSession
    <3> QED BY <3>1, <1>0, <1>b, <1>f, <1>g, Objects, SweepTypes DEF ObjectTypes
  <2> QED BY <1>7, <2>1, <1>0, <1>a, <1>f, <1>g DEF Logout, TakeSession, NothingToTake,
             Revoke, CloseSession
<1>8. ASSUME NEW i \in Instances, RefreshLoop(i) PROVE ObjectTypes' /\ Pointed'
  <2>1. CASE RefreshStores(i)
    <3>1. Stays({i})
      BY <2>1, <1>0, <1>e DEF RefreshStores, Stays, process, Roles
    <3> QED BY <3>1, <2>1, <1>0, <1>c DEF RefreshStores
  <2> QED BY <1>8, <2>1, <1>a, <1>e DEF RefreshLoop, Timer, RefreshAnswered, RefreshFails
<1>9. ASSUME NEW i \in Instances, UnknownToken(i) PROVE ObjectTypes' /\ Pointed'
  BY <1>9, <1>0, <1>a, <1>f DEF UnknownToken
<1>10. ASSUME NEW p \in Processes, UpdateGets(p) PROVE ObjectTypes' /\ Pointed'
  <2>1. /\ UNCHANGED <<stored, data, stage>> /\ stale' \in {stale \cup {p}, stale}
    BY <1>10 DEF UpdateGets, process
  <2>2. PICK c \in Copies :
            /\ sess' = [sess EXCEPT ![p] = c]
            /\ \/ cached' = c /\ copy' = With(c) /\ c \in Found
               \/ cached' = cached /\ copy' = [copy EXCEPT ![c] = Blank]
    BY <1>10, GetTypes DEF UpdateGets, Get, Unused
  <2>3. c # NoCopy
    BY SessionsAssumption
  <2>4. ObjectTypes'
    BY <2>1, <2>2, GetTypes, Objects DEF ObjectTypes
  <2>5. Pointed'
    BY <2>1, <2>2, <2>3 DEF Pointed, ObjectTypes
  <2> QED BY <2>4, <2>5
<1>11. ASSUME NEW p \in Processes, UpdateChanges(p) PROVE ObjectTypes' /\ Pointed'
  <2>1. /\ UNCHANGED <<stored, cached, sess, stage>> /\ sess[p] # NoCopy
        /\ copy' = [copy EXCEPT ![sess[p]] = Changed(p, copy[sess[p]])]
        /\ data' = [data EXCEPT ![p] = Changed(p, copy[sess[p]])]
        /\ stale' \subseteq stale \cup Updating
    BY <1>11 DEF UpdateChanges, process
  <2>2. sess[p] \in Copies /\ Updating \subseteq Processes
    BY <1>0, <2>1 DEF ObjectTypes, Updating, InHand
  <2>3. Changed(p, copy[sess[p]]) \in Session
    BY <2>2, ChangedTypes DEF ObjectTypes, Roles
  <2>4. ObjectTypes'
    BY <2>1, <2>2, <2>3 DEF ObjectTypes
  <2>5. Pointed'
    BY <2>1, <2>2 DEF Pointed, ObjectTypes
  <2> QED BY <2>4, <2>5
<1>12. CASE UNCHANGED vars
  BY <1>12, <1>a, <1>e DEF vars
<1> QED
  BY <1>1, <1>2, <1>3, <1>4, <1>5, <1>6, <1>7, <1>8, <1>9, <1>10, <1>11, <1>12 DEF Next,
     Crash, Update, Logout, NothingToTake

-----------------------------------------------------------------------------
\* What runs at which time.
Runs ==
    /\ main = "exiting" => cancelled
    /\ main = "down" => ~cancelled
    /\ stage[Main] # "idle" <=> main = "starting"
    /\ main \in {"down", "starting"} =>
           /\ mapped = Nobody
           /\ \A p \in Requests : stage[p] = "idle"
           /\ \A i \in Instances : stage[i] \in {"idle", "logout"}
    /\ main = "down" \/ stage[Main] \in {"restore", "refresh"} =>
           \A i \in Instances : sync[i] = "unused"
    /\ \A p \in Processes : stage[p] \in {"revoke", "close", "delete"} => cancelled

LEMMA InitRuns == Init => Runs
BY SessionsAssumption DEF Init, Runs, Processes

LEMMA RunsStep == Types /\ Roles /\ Runs /\ [Next]_vars => Runs'
<1> SUFFICES ASSUME Types, Roles, Runs, [Next]_vars PROVE Runs'
  OBVIOUS
<1>0. /\ ProgramTypes /\ ProcessTypes
      /\ sync \in [Instances -> {"unused", "running", "leaving", "ended"}]
  BY DEF Types, LoopTypes
<1> USE <1>0, SessionsAssumption DEF ProcessTypes, ProgramTypes, Roles, Runs, program,
        process, history, loops, instance, loop, Processes
<1>1. CASE NewManager
  BY <1>1 DEF NewManager, Go
<1>2. CASE Ended
  BY <1>2 DEF Ended
<1>3. CASE Shutdown \/ Clear
  BY <1>3 DEF Shutdown, Clear, Cancel
<1>4. CASE Restore
  BY <1>4 DEF Restore, RestoreKnown, RestoreRefused, RestoreRefreshes, RestoreFails,
     RestoreStores, Forget, Go, Move, GoWithNothing, Leave, At
<1>5. ASSUME NEW p \in Requests, Request(p) PROVE Runs'
  BY <1>5 DEF Request, Login, LoginFails, LoginAnswered, LoginStores,
     Submit, SetTheme, HandleLogout, Auth, Go, Move, GoWithNothing, Leave, At
<1>6. ASSUME NEW p \in Requests \cup {Main}, Start(p), \A i \in Instances : ~NewMatrixSession(p, i)
      PROVE  Runs'
  BY <1>6 DEF Start, StartSync, ReadSession, ReadSessionRefused, NewMatrixSessionFails,
     KeysReady, KeysFail, Go, Move, GoWithNothing, Leave, Finished, At
<1>7. ASSUME NEW p \in Requests \cup {Main}, NEW i \in Instances, NewMatrixSession(p, i)
      PROVE  Runs'
  BY <1>7 DEF NewMatrixSession, Move, At
<1>8. ASSUME NEW p \in Requests \cup Instances, Logout(p), ~Ended PROVE Runs'
  BY <1>8 DEF Logout, TakeSession, NothingToTake, Revoke, CloseSession, DeleteSession,
     Cancel, Go, Move, GoWithNothing, Leave, At
<1>9. ASSUME NEW i \in Instances, RefreshLoop(i) PROVE Runs'
  BY <1>9 DEF RefreshLoop, Timer, RefreshAnswered, RefreshFails, RefreshStores
<1>10. ASSUME NEW i \in Instances, UnknownToken(i) PROVE Runs'
  BY <1>10 DEF UnknownToken, Go
<1>11. ASSUME NEW p \in Processes, Update(p) PROVE Runs'
  BY <1>11, UpdateKeeps
<1>12. CASE UNCHANGED vars
  BY <1>12 DEF vars
<1> QED
  BY <1>1, <1>2, <1>3, <1>4, <1>5, <1>6, <1>7, <1>8, <1>9, <1>10, <1>11, <1>12 DEF Next,
     Crash, Start, Logout, NothingToTake

-----------------------------------------------------------------------------
\* An instance is the map's, or a process's that is about to put it there or
\* that took it from there.
Owns(p, i) == stage[p] \in {"keys", "revoke", "close"} /\ of[p] = i
Owned(i) == mapped = i \/ \E p \in Processes : Owns(p, i)

Owners ==
    /\ \A i \in Instances : sync[i] = "unused" => ~Owned(i) /\ closes[i] = 0 /\ refresh[i] = "none"
    /\ \A p, q \in Processes : \A i \in Instances : Owns(p, i) /\ Owns(q, i) => p = q
    /\ \A p \in Processes : \A i \in Instances : Owns(p, i) => mapped # i
    /\ \A i \in Instances :
           /\ closes[i] <= (IF main = "exiting" THEN 2 ELSE 1)
           /\ Owned(i) => closes[i] <= (IF main = "exiting" THEN 1 ELSE 0)

LEMMA InitOwners == Init => Owners
BY SessionsAssumption DEF Init, Owners, Owned, Owns, Processes

LEMMA OwnersStep == Types /\ Roles /\ Runs /\ Owners /\ [Next]_vars => Owners'
<1> SUFFICES ASSUME Types, Roles, Runs, Owners, [Next]_vars PROVE Owners'
  OBVIOUS
<1>0. /\ ProgramTypes /\ ProcessTypes
      /\ sync \in [Instances -> {"unused", "running", "leaving", "ended"}]
      /\ (stage[Main] # "idle" => main = "starting")
      /\ closes \in [Instances -> Nat]
      /\ refresh \in [Instances -> {"none", "waiting", "asking", "answered"}]
  BY DEF Types, LoopTypes, Runs
<1> USE <1>0, SessionsAssumption DEF ProcessTypes, ProgramTypes, Owners, Owned, Owns,
        program, process, history, loops, instance, loop, Processes
<1>1. CASE NewManager
  BY <1>1 DEF NewManager, Go
<1>2. CASE Ended
  BY <1>2 DEF Ended
<1>3. CASE Shutdown \/ Clear
  BY <1>3 DEF Shutdown, Clear, Cancel
<1>4. CASE Restore
  <2>1. CASE RestoreKnown
    BY <1>4, <2>1 DEF RestoreKnown, Move, GoWithNothing, At
  <2>2. CASE RestoreRefused
    BY <1>4, <2>2 DEF RestoreRefused, Forget, Go, Move, GoWithNothing, Leave, At
  <2>3. CASE RestoreRefreshes
    BY <1>4, <2>3 DEF RestoreRefreshes, Move, At
  <2>4. CASE RestoreFails
    BY <1>4, <2>4 DEF RestoreFails, Forget, Move, GoWithNothing, Leave, At
  <2>5. CASE RestoreStores
    BY <1>4, <2>5 DEF RestoreStores, Move, GoWithNothing, At
  <2> QED BY <1>4, <2>1, <2>2, <2>3, <2>4, <2>5 DEF Restore
<1>5. ASSUME NEW p \in Requests, Request(p) PROVE Owners'
  BY <1>5 DEF Request, Login, LoginFails, LoginAnswered, LoginStores,
     Submit, SetTheme, HandleLogout, Auth, Go, Move, GoWithNothing, Leave, At
<1>6. ASSUME NEW p \in Requests \cup {Main}, Start(p), \A i \in Instances : ~NewMatrixSession(p, i)
      PROVE  Owners'
  <2>1. CASE StartSync(p)
    BY <1>6, <2>1 DEF StartSync, Go, Move, GoWithNothing, Leave, Finished, At
  <2>2. CASE ReadSession(p)
    BY <1>6, <2>2 DEF ReadSession, Go, At
  <2>3. CASE ReadSessionRefused(p)
    BY <1>6, <2>3 DEF ReadSessionRefused, Move, GoWithNothing, Leave, At
  <2>4. CASE NewMatrixSessionFails(p)
    BY <1>6, <2>4 DEF NewMatrixSessionFails, Move, GoWithNothing, Leave, Finished, At
  <2>5. CASE KeysReady(p)
    BY <1>6, <2>5 DEF KeysReady, Move, GoWithNothing, Leave, Finished, At
  <2>6. CASE KeysFail(p)
    BY <1>6, <2>6 DEF KeysFail, Move, GoWithNothing, Leave, Finished, At
  <2> QED BY <1>6, <2>1, <2>2, <2>3, <2>4, <2>5, <2>6 DEF Start
<1>7. ASSUME NEW p \in Requests \cup {Main}, NEW i \in Instances, NewMatrixSession(p, i)
      PROVE  Owners'
  BY <1>7 DEF NewMatrixSession, Move, At
<1>8. ASSUME NEW p \in Requests \cup Instances, Logout(p), ~Ended PROVE Owners'
  BY <1>8 DEF Logout, TakeSession, NothingToTake, Revoke, CloseSession, DeleteSession,
     Cancel, Go, Move, GoWithNothing, Leave, At
<1>9. ASSUME NEW i \in Instances, RefreshLoop(i) PROVE Owners'
  BY <1>9 DEF RefreshLoop, Timer, RefreshAnswered, RefreshFails, RefreshStores, RefreshTo, RefreshedTo
<1>10. ASSUME NEW i \in Instances, UnknownToken(i) PROVE Owners'
  BY <1>10 DEF UnknownToken, Go
<1>11. ASSUME NEW p \in Processes, Update(p) PROVE Owners'
  BY <1>11, UpdateKeeps
<1>12. CASE UNCHANGED vars
  BY <1>12 DEF vars
<1> QED
  BY <1>1, <1>2, <1>3, <1>4, <1>5, <1>6, <1>7, <1>8, <1>9, <1>10, <1>11, <1>12 DEF Next,
     Crash, Start, Logout, NothingToTake

-----------------------------------------------------------------------------
\* One start at a time, as long as no two of them overlap.
Alone ==
    ~cancelled /\ ~raced => /\ \A p, q \in Starting : p = q
                            /\ Starting # {} => mapped = Nobody

LEMMA InitAlone == Init => Alone
BY SessionsAssumption DEF Init, Alone, Starting, Processes

LEMMA AloneStep == Types /\ Roles /\ Alone /\ [Next]_vars => Alone'
<1> SUFFICES ASSUME Types, Roles, Alone, [Next]_vars PROVE Alone'
  OBVIOUS
<1>0. ProgramTypes /\ ProcessTypes
  BY DEF Types
<1> USE <1>0, SessionsAssumption DEF ProcessTypes, ProgramTypes, Alone, Starting, program,
        process, history, loops, instance, loop, Processes
<1>1. CASE NewManager
  BY <1>1 DEF NewManager, Go
<1>2. CASE Ended
  BY <1>2 DEF Ended
<1>3. CASE Shutdown \/ Clear
  BY <1>3 DEF Shutdown, Clear, Cancel
<1>4. CASE Restore
  BY <1>4 DEF Restore, RestoreKnown, RestoreRefused, RestoreRefreshes, RestoreFails,
     RestoreStores, Forget, Go, Move, GoWithNothing, Leave, At
<1>5. ASSUME NEW p \in Requests, Request(p) PROVE Alone'
  BY <1>5 DEF Request, Login, LoginFails, LoginAnswered, LoginStores,
     Submit, SetTheme, HandleLogout, Auth, Go, Move, GoWithNothing, Leave, At
<1>6. ASSUME NEW p \in Requests \cup {Main}, Start(p), \A i \in Instances : ~NewMatrixSession(p, i)
      PROVE  Alone'
  <2>1. CASE StartSync(p)
    <3>1. CASE mapped # Nobody
      <4>1. Starting' \subseteq Starting /\ UNCHANGED <<cancelled, raced, mapped>>
        BY <1>6, <2>1, <3>1 DEF StartSync, GoWithNothing, Move, Leave, Finished, At
      <4> HIDE DEF Starting
      <4> QED BY <4>1
    <3>2. CASE mapped = Nobody
      <4>1. stage' = [stage EXCEPT ![p] = "create"] /\ UNCHANGED <<cancelled, mapped>>
        BY <2>1, <3>2 DEF StartSync, Go
      <4>2. ~cancelled /\ ~raced' => Starting = {}
        <5> HIDE DEF Starting
        <5> QED BY <2>1, <3>2 DEF StartSync
      <4>3. Starting' \subseteq Starting \cup {p}
        BY <4>1, <1>6
      <4> HIDE DEF Starting
      <4> QED BY <3>2, <4>1, <4>2, <4>3
    <3> QED BY <3>1, <3>2
  <2>2. CASE ReadSession(p)
    BY <1>6, <2>2 DEF ReadSession, Go, At
  <2>3. CASE ReadSessionRefused(p)
    BY <1>6, <2>3 DEF ReadSessionRefused, Move, GoWithNothing, Leave, At
  <2>4. CASE NewMatrixSessionFails(p)
    BY <1>6, <2>4 DEF NewMatrixSessionFails, Move, GoWithNothing, Leave, Finished, At
  <2>5. CASE KeysReady(p)
    BY <1>6, <2>5 DEF KeysReady, Move, GoWithNothing, Leave, Finished, At
  <2>6. CASE KeysFail(p)
    BY <1>6, <2>6 DEF KeysFail, Move, GoWithNothing, Leave, Finished, At
  <2> QED BY <1>6, <2>1, <2>2, <2>3, <2>4, <2>5, <2>6 DEF Start
<1>7. ASSUME NEW p \in Requests \cup {Main}, NEW i \in Instances, NewMatrixSession(p, i)
      PROVE  Alone'
  BY <1>7 DEF NewMatrixSession, Move, At
<1>8. ASSUME NEW p \in Requests \cup Instances, Logout(p), ~Ended PROVE Alone'
  BY <1>8 DEF Logout, TakeSession, NothingToTake, Revoke, CloseSession, DeleteSession,
     Cancel, Go, Move, GoWithNothing, Leave, At
<1>9. ASSUME NEW i \in Instances, RefreshLoop(i) PROVE Alone'
  BY <1>9 DEF RefreshLoop, Timer, RefreshAnswered, RefreshFails, RefreshStores
<1>10. ASSUME NEW i \in Instances, UnknownToken(i) PROVE Alone'
  BY <1>10 DEF UnknownToken, Go
<1>11. ASSUME NEW p \in Processes, Update(p) PROVE Alone'
  BY <1>11, UpdateKeeps
<1>12. CASE UNCHANGED vars
  BY <1>12 DEF vars
<1> QED
  BY <1>1, <1>2, <1>3, <1>4, <1>5, <1>6, <1>7, <1>8, <1>9, <1>10, <1>11, <1>12 DEF Next,
     Crash, Start, Logout, NothingToTake

-----------------------------------------------------------------------------
LEMMA InitLoopsAreOwned == Init => LoopsAreOwned
BY DEF Init, LoopsAreOwned

LEMMA LoopsAreOwnedStep ==
    Types /\ Roles /\ Runs /\ Owners /\ Alone /\ LoopsAreOwned
    /\ [Next]_vars => LoopsAreOwned'
<1> SUFFICES ASSUME Types, Roles, Runs, Owners, Alone, LoopsAreOwned, [Next]_vars
    PROVE  LoopsAreOwned'
  OBVIOUS
<1>0. /\ ProgramTypes /\ ProcessTypes
      /\ sync \in [Instances -> {"unused", "running", "leaving", "ended"}]
      /\ closes \in [Instances -> Nat]
      /\ main = "exiting" => cancelled
      /\ stage[Main] # "idle" => main = "starting"
      /\ \A i \in Instances : sync[i] = "running" => stage[i] = "idle"
  BY DEF Types, LoopTypes, Runs, Roles
<1> USE <1>0, SessionsAssumption DEF ProcessTypes, ProgramTypes, LoopsAreOwned, Done,
        program, process, history, loops, instance, loop, Processes, At
<1>1. CASE NewManager
  BY <1>1 DEF NewManager, Go
<1>2. CASE Ended
  BY <1>2 DEF Ended
<1>3. CASE Shutdown \/ Clear
  BY <1>3 DEF Shutdown, Clear, Cancel
<1>4. CASE Restore
  BY <1>4 DEF Restore, RestoreKnown, RestoreRefused, RestoreRefreshes, RestoreFails,
     RestoreStores, Forget, Go, Move, GoWithNothing, Leave, At
<1>5. ASSUME NEW p \in Requests, Request(p) PROVE LoopsAreOwned'
  BY <1>5 DEF Request, Login, LoginFails, LoginAnswered, LoginStores,
     Submit, SetTheme, HandleLogout, Auth, Go, Move, GoWithNothing, Leave, At
<1>6. ASSUME NEW p \in Requests \cup {Main}, Start(p), \A i \in Instances : ~NewMatrixSession(p, i)
      PROVE  LoopsAreOwned'
  <2>1. CASE StartSync(p)
    BY <1>6, <2>1 DEF StartSync, Go, Move, GoWithNothing, Leave, Finished, At
  <2>2. CASE ReadSession(p)
    BY <1>6, <2>2 DEF ReadSession, Go, At
  <2>3. CASE ReadSessionRefused(p)
    BY <1>6, <2>3 DEF ReadSessionRefused, Move, GoWithNothing, Leave, At
  <2>4. CASE NewMatrixSessionFails(p)
    BY <1>6, <2>4 DEF NewMatrixSessionFails, Move, GoWithNothing, Leave, Finished, At
  <2>5. CASE KeysReady(p)
    BY <1>6, <2>5 DEF KeysReady, Alone, Starting, Move, GoWithNothing, Leave, Finished, At
  <2>6. CASE KeysFail(p)
    BY <1>6, <2>6 DEF KeysFail, Move, GoWithNothing, Leave, Finished, At
  <2> QED BY <1>6, <2>1, <2>2, <2>3, <2>4, <2>5, <2>6 DEF Start
<1>7. ASSUME NEW p \in Requests \cup {Main}, NEW i \in Instances, NewMatrixSession(p, i)
      PROVE  LoopsAreOwned'
  BY <1>7 DEF NewMatrixSession, Move, At
<1>8. ASSUME NEW p \in Requests \cup Instances, Logout(p), ~Ended PROVE LoopsAreOwned'
  BY <1>8 DEF Logout, TakeSession, NothingToTake, Revoke, CloseSession, DeleteSession,
     Cancel, Go, Move, GoWithNothing, Leave, At
<1>9. ASSUME NEW i \in Instances, RefreshLoop(i) PROVE LoopsAreOwned'
  BY <1>9 DEF RefreshLoop, Timer, RefreshAnswered, RefreshFails, RefreshStores
<1>10. ASSUME NEW i \in Instances, UnknownToken(i) PROVE LoopsAreOwned'
  BY <1>10 DEF UnknownToken, Go
<1>11. ASSUME NEW p \in Processes, Update(p) PROVE LoopsAreOwned'
  BY <1>11, UpdateKeeps
<1>12. CASE UNCHANGED vars
  BY <1>12 DEF vars
<1> QED
  BY <1>1, <1>2, <1>3, <1>4, <1>5, <1>6, <1>7, <1>8, <1>9, <1>10, <1>11, <1>12 DEF Next,
     Crash, Start, Logout, NothingToTake

-----------------------------------------------------------------------------
\* Nobody is on the way to write: no login, no start, no Update, and of the loops
\* none that asks for a token or has one in hand.
Quiet ==
    /\ \A i \in Instances : refresh[i] \notin {"asking", "answered"}
    /\ \A p \in Processes :
           stage[p] \notin {"sso", "tokens", "restored", "start", "create", "init", "keys",
                            "submit", "theme"}

LEMMA NoWriters == Writers = {} <=> Quiet
BY DEF Writers, Updating, InHand, Quiet

\* After a logout it is quiet, neither the keyring nor the cache has a session for
\* anyone to go on with, and the loops wait for a timer their context has stopped.
Sealed ==
    sealed => /\ ~stored.present /\ cached = NoCopy
              /\ Quiet
              /\ stage[Main] = "idle"
              /\ \A i \in Instances : refresh[i] = "waiting" => Done(i)

LEMMA InitSealed == Init => Sealed
BY DEF Init, Sealed

LEMMA SealedStep == Types /\ Roles /\ Runs /\ Sealed /\ [Next]_vars => Sealed'
<1> SUFFICES ASSUME Types, Roles, Runs, Sealed, [Next]_vars PROVE Sealed'
  OBVIOUS
<1>0. /\ stage \in [Processes -> Stages] /\ closes \in [Instances -> Nat]
      /\ Main \in Processes /\ Requests \subseteq Processes /\ Instances \subseteq Processes
      /\ Main \notin Requests \cup Instances
  BY SessionsAssumption DEF Types, ProcessTypes, LoopTypes, Processes
\* While it is sealed, a step of someone who is on the way is impossible.
<1>a. ASSUME sealed' = sealed, ~Quiet \/ stage[Main] # "idle" PROVE Sealed'
  BY <1>a DEF Sealed
\* A step that stores nothing, starts no one and ends no wait keeps it so.
<1>b. ASSUME sealed, stored' = stored \/ ~stored'.present, cached' \in {cached, NoCopy},
             refresh' = refresh, Quiet => Quiet', stage'[Main] = stage[Main],
             \A i \in Instances : Done(i) => Done(i)'
      PROVE  Sealed'
  BY <1>b DEF Sealed
<1>c. ASSUME NEW p \in Requests \cup Instances,
             NEW s \in {"idle", "logout", "revoke", "close", "delete", "refuse"},
             refresh' = refresh, stage' = [stage EXCEPT ![p] = s]
      PROVE  (Quiet => Quiet') /\ stage'[Main] = stage[Main]
  BY <1>0, <1>c DEF Quiet
<1>d. ASSUME closes' = closes, cancelled' \in {cancelled, TRUE}
      PROVE  \A i \in Instances : Done(i) => Done(i)'
  BY <1>d DEF Done
<1>e. UNCHANGED process => UNCHANGED stage
  BY DEF process
<1>f. UNCHANGED loops => UNCHANGED <<closes, refresh>>
  BY DEF loops, instance, loop
<1>g. UNCHANGED store => UNCHANGED <<stored, cached>>
  BY DEF store, memory
<1>h. UNCHANGED history => sealed' = sealed
  BY DEF history
<1>1. CASE NewManager
  BY <1>1 DEF NewManager, Sealed
<1>2. CASE Ended
  BY <1>2, <1>0 DEF Ended, Sealed, Quiet
<1>3. CASE Shutdown \/ Clear
  <2>1. /\ sealed' = sealed /\ UNCHANGED <<stored, cached, stage, refresh>>
        /\ \A i \in Instances : Done(i) => Done(i)'
    BY <1>3, <1>e, <1>f, <1>g, <1>h DEF Shutdown, Clear, Cancel, Done, loop, program
  <2> QED BY <2>1 DEF Sealed, Quiet
<1>4. CASE Restore
  <2>1. sealed' = sealed /\ stage[Main] # "idle"
    BY <1>4, <1>h DEF Restore, RestoreKnown, RestoreRefused, RestoreRefreshes, RestoreFails,
       RestoreStores, At
  <2> QED BY <1>a, <2>1
<1>5. ASSUME NEW p \in Requests, Request(p) PROVE Sealed'
  <2>1. CASE Login(p)
    BY <2>1 DEF Login, Sealed
  <2>2. CASE LoginFails(p) \/ LoginAnswered(p) \/ LoginStores(p) \/ Submit(p) \/ SetTheme(p)
    <3>1. sealed' = sealed /\ stage[p] \in {"sso", "tokens", "submit", "theme"}
      BY <2>2, <1>h DEF LoginFails, LoginAnswered, LoginStores, Submit, SetTheme, At
    <3>2. ~Quiet
      BY <1>0, <3>1 DEF Quiet
    <3> QED BY <1>a, <3>1, <3>2
  \* There is no session for the request.
  <2>3. CASE HandleLogout(p) \/ Auth(p)
    <3>1. sealed' = sealed /\ Found \ {NoCopy} # {}
      BY <2>3, <1>h DEF HandleLogout, Auth
    <3>2. ~sealed
      BY <3>1 DEF Sealed, Found
    <3> QED BY <3>1, <3>2 DEF Sealed
  <2> QED BY <1>5, <2>1, <2>2, <2>3 DEF Request
<1>6. ASSUME NEW p \in Requests \cup {Main}, Start(p) PROVE Sealed'
  <2>1. sealed' = sealed /\ stage[p] \in {"start", "create", "init", "keys"}
    BY <1>6, <1>h DEF Start, StartSync, ReadSession, ReadSessionRefused, NewMatrixSession,
       NewMatrixSessionFails, KeysReady, KeysFail, At
  <2>2. ~Quiet
    BY <1>0, <2>1 DEF Quiet
  <2> QED BY <1>a, <2>1, <2>2
<1>7. ASSUME NEW p \in Requests \cup Instances, Logout(p), ~Ended PROVE Sealed'
  <2>0. p # Main /\ p \in Processes
    BY <1>0
  <2>1. CASE TakeSession(p) \/ NothingToTake(p)
    <3>1. /\ sealed' = sealed /\ UNCHANGED <<stored, cached, closes, refresh>> /\ cancelled'
          /\ \E s \in {"revoke", "idle"} : stage' = [stage EXCEPT ![p] = s]
      BY <1>7, <2>1, <1>f, <1>g DEF TakeSession, NothingToTake, Cancel, Leave, GoWithNothing, Move
    <3>2. \A i \in Instances : Done(i) => Done(i)'
      BY <3>1 DEF Done
    <3> QED BY <3>1, <3>2, <1>b, <1>c DEF Sealed
  <2>2. CASE Revoke(p)
    <3>1. /\ sealed' = sealed /\ UNCHANGED <<stored, cached, closes, refresh, cancelled>>
          /\ stage' = [stage EXCEPT ![p] = "close"]
      BY <2>2, <1>f, <1>g DEF Revoke, Go, program
    <3> QED BY <3>1, <1>b, <1>c, <1>d DEF Sealed
  <2>3. CASE CloseSession(p)
    <3>1. /\ sealed' = sealed /\ UNCHANGED <<stored, cached, refresh, cancelled>>
          /\ closes' = [closes EXCEPT ![of[p]] = @ + 1]
          /\ stage' = [stage EXCEPT ![p] = "delete"]
      BY <2>3, <1>g, <1>h DEF CloseSession, GoWithNothing, Move, loop, program
    <3>2. \A i \in Instances : Done(i) => Done(i)'
      BY <1>0, <3>1 DEF Done
    <3> QED BY <3>1, <3>2, <1>b, <1>c DEF Sealed
  <2>4. CASE DeleteSession(p)
    <3>1. /\ cached' = NoCopy /\ UNCHANGED <<cancelled, closes, refresh>>
          /\ \E s \in {"idle", "refuse"} : stage' = [stage EXCEPT ![p] = s]
      BY <2>4 DEF DeleteSession, Go, GoWithNothing, Leave, Move, loop, program
    <3>2. (Quiet => Quiet') /\ stage'[Main] = stage[Main]
      BY <3>1, <1>c
    <3>3. CASE UNCHANGED <<stored, sealed>> \/ sealed
      <4>1. stored' = stored \/ ~stored'.present
        BY <2>4, Objects DEF DeleteSession
      <4> QED BY <3>1, <3>2, <3>3, <4>1, <1>b, <1>d DEF Sealed
    \* The logout that seals: its TakeSession cancelled the loops, and there is
    \* nobody else.
    <3>4. CASE stored' = Missing /\ ~sealed /\ stage[p] = "delete" /\ Writers = {}
      <4>1. Quiet' /\ ~stored'.present
        BY <3>2, <3>4, NoWriters, Objects
      <4>2. cancelled /\ stage[Main] = "idle"
        BY <1>0, <2>0, <3>4 DEF Runs, Roles
      <4>3. \A i \in Instances : Done(i)'
        BY <3>1, <4>2 DEF Done
      <4> QED BY <3>1, <3>2, <4>1, <4>2, <4>3 DEF Sealed
    <3>5. CASE ~sealed'
      BY <3>5 DEF Sealed
    <3> QED BY <2>4, <3>3, <3>4, <3>5 DEF DeleteSession, At
  <2> QED BY <1>7, <2>1, <2>2, <2>3, <2>4 DEF Logout
<1>8. ASSUME NEW i \in Instances, RefreshLoop(i) PROVE Sealed'
  <2>1. sealed' = sealed
    BY <1>8, <1>h DEF RefreshLoop, Timer, RefreshAnswered, RefreshFails, RefreshStores
  <2>2. (refresh[i] = "waiting" /\ ~Done(i)) \/ refresh[i] \in {"asking", "answered"}
    BY <1>8 DEF RefreshLoop, Timer, RefreshAnswered, RefreshFails, RefreshStores
  <2> QED BY <2>1, <2>2 DEF Sealed, Quiet
<1>9. ASSUME NEW i \in Instances, UnknownToken(i) PROVE Sealed'
  <2>1. /\ sealed' = sealed /\ UNCHANGED <<stored, cached, closes, refresh, cancelled>>
        /\ stage' = [stage EXCEPT ![i] = "logout"]
    BY <1>9, <1>g, <1>h DEF UnknownToken, Go, loop, program
  <2> QED BY <2>1, <1>b, <1>c, <1>d DEF Sealed
<1>10. ASSUME NEW p \in Processes, Update(p) PROVE Sealed'
  <2>1. sealed' = sealed /\ p \in Updating
    BY <1>10, <1>h, UpdateKeeps DEF Update, UpdateGets, UpdateChanges
  <2>2. ~Quiet
    BY <2>1, NoWriters DEF Writers
  <2> QED BY <1>a, <2>1, <2>2
<1>11. CASE UNCHANGED vars
  <2>1. UNCHANGED <<stored, cached, closes, refresh, cancelled, stage, sealed>>
    BY <1>11, <1>e, <1>g DEF vars, instance, loop
  <2> QED BY <2>1 DEF Sealed, Quiet, Done
<1> QED
  BY <1>1, <1>2, <1>3, <1>4, <1>5, <1>6, <1>7, <1>8, <1>9, <1>10, <1>11 DEF Next, Crash,
     Logout, NothingToTake

-----------------------------------------------------------------------------
(* The inductive invariant.                                                 *)
IInv == Types /\ Roles /\ Runs /\ Owners /\ Alone /\ LoopsAreOwned /\ Sealed

LEMMA InitIInv == Init => IInv
BY InitTypes, InitRoles, InitRuns, InitOwners, InitAlone, InitLoopsAreOwned, InitSealed
   DEF IInv

LEMMA IInvStep == IInv /\ [Next]_vars => IInv'
<1> SUFFICES ASSUME IInv, [Next]_vars PROVE IInv'
  OBVIOUS
<1>1. Types'
  BY ProgramTypesStep, LoopTypesStep, ProcessTypesStep, ServerTypesStep, ObjectTypesStep
     DEF IInv, Types
<1>2. Roles'
  BY RolesStep DEF IInv, Types
<1>3. Runs' /\ Owners' /\ Alone' /\ Sealed'
  BY RunsStep, OwnersStep, AloneStep, SealedStep DEF IInv
<1>4. LoopsAreOwned'
  BY LoopsAreOwnedStep DEF IInv
<1> QED BY <1>1, <1>2, <1>3, <1>4 DEF IInv

LEMMA Invariance == Spec => []IInv
BY InitIInv, IInvStep, PTL DEF Spec

(* Every state has its type: in particular no session is closed a third     *)
(* time, whoever closes or revokes one has one, and whoever has marshalled  *)
(* a session has an object to put in the cache.                             *)
THEOREM SessionsTypes == Spec => []TypeOK
<1>1. IInv => TypeOK
  <2> SUFFICES ASSUME IInv PROVE TypeOK
    OBVIOUS
  <2>1. closes \in [Instances -> 0..2]
    BY DEF IInv, Types, LoopTypes, Owners
  <2> QED
    BY <2>1 DEF IInv, Types, ProgramTypes, LoopTypes, ProcessTypes, ServerTypes, ObjectTypes,
       Pointed, At, TypeOK
<1> QED BY <1>1, Invariance, PTL

(* Logout by any number of requests and sync loops closes a session once.   *)
THEOREM SessionsAreClosedOnce == Spec => []ClosedOnce
<1>1. IInv => ClosedOnce
  BY DEF IInv, Types, LoopTypes, Owners, ClosedOnce
<1> QED BY <1>1, Invariance, PTL

(* What a logout deleted stays deleted until the next login, whatever       *)
(* loops, requests and objects in memory it left behind.                    *)
THEOREM ALogoutLasts == Spec => []LoggedOutStaysOut
<1>1. IInv => LoggedOutStaysOut
  BY DEF IInv, Sealed, LoggedOutStaysOut
<1> QED BY <1>1, Invariance, PTL

(* A sync loop that runs has an owner that will close it.                   *)
THEOREM RunningLoopsAreOwned == Spec => []LoopsAreOwned
<1>1. IInv => LoopsAreOwned
  BY DEF IInv
<1> QED BY <1>1, Invariance, PTL
=============================================================================
