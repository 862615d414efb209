------------------------------ MODULE Sessions ------------------------------
(***************************************************************************)
(* The sessions of one account: Manager of src/internal/matrix/manager.go,  *)
(* the goroutines that NewMatrixSession starts (session.go, refresh.go),    *)
(* and the requests that log in, log out and are turned away                *)
(* (handlers/login.go, middleware/auth.go), and those that change another   *)
(* field of the session (handlers/theme.go).                               *)
(*                                                                         *)
(* A request, the sync loop of an instance and the main goroutine are       *)
(* processes; the refresh loop of an instance has a state of its own.       *)
(* session.Update takes no lock: that it gets the session, changes and      *)
(* marshals it, and writes it are three steps.  Sessions in memory are      *)
(* shared by pointer, and a deleted one lives on with whoever got it.       *)
(* What of the store is finer still is module SessionStore's.               *)
(* A refresh token stands for the pair it was issued with.  The homeserver  *)
(* takes a token once and issues the next.                                  *)
(***************************************************************************)
EXTENDS Integers, FiniteSets

CONSTANTS
    Requests,    \* bound: requests at one time
    Instances,   \* bound: MatrixSessions of one run of the program
    Main,
    Nobody,
    Copies,      \* bound: session objects in memory at one time
    NoCopy,
    MaxTokens    \* bound: tokens the homeserver issues

ASSUME SessionsAssumption ==
    /\ Nobody \notin Instances
    /\ Main \notin Requests \cup Instances
    /\ Requests \cap Instances = {}
    /\ NoCopy \notin Copies
    /\ MaxTokens \in Nat

Processes == Requests \cup Instances \cup {Main}
Tokens == 1..MaxTokens

VARIABLES
    main,             \* "down", "starting", "serving", "exiting"
    cancelled,        \* Manager.ctx
    mapped,           \* Manager.matrixSessions of the account
    sync, closes,     \* the sync loop of an instance, and how often it was closed
    refresh,          \* its refresh loop: how far it has come,
    holds, next,      \*   its token, and the one it has been answered with
    stage, token, of, \* a process: how far it has come, with what token and instance
    stored,           \* what the keyring has
    cached, copy,     \* the object in the cache, and what each object says
    sess, data,       \* the object that someone has, and what it marshalled to write
    issued, valid,    \* the homeserver's tokens
    raced,            \* history: two startSyncs overlapped
    leaked,           \* history: instances that no map holds
    stale,            \* history: whose copy lacks a change made since it was got
    lost,             \* history: a token was issued that no one stored
    sealed            \* history: logged out, with nobody on the way to write again

instance == <<sync, closes>>
loop == <<refresh, holds, next>>
process == <<stage, token, of>>

memory == <<cached, copy, sess, data, stale>>
store == <<stored, memory>>

vars == <<main, cancelled, mapped, instance, loop, process, store, issued, valid,
          raced, leaked, lost, sealed>>

Missing == [token |-> 0, access |-> FALSE, loggedIn |-> FALSE, present |-> FALSE]
Blank == [Missing EXCEPT !.present = TRUE]

Init ==
    /\ main = "down"
    /\ cancelled = FALSE
    /\ mapped = Nobody
    /\ sync = [i \in Instances |-> "unused"]
    /\ closes = [i \in Instances |-> 0]
    /\ refresh = [i \in Instances |-> "none"]
    /\ holds = [i \in Instances |-> 0]
    /\ next = [i \in Instances |-> 0]
    /\ stage = [p \in Processes |-> "idle"]
    /\ token = [p \in Processes |-> 0]
    /\ of = [p \in Processes |-> Nobody]
    /\ stored = Missing
    /\ cached = NoCopy
    /\ copy = [c \in Copies |-> Missing]
    /\ sess = [p \in Processes |-> NoCopy]
    /\ data = [p \in Processes |-> Missing]
    /\ stale = {}
    /\ issued = 0 /\ valid = {}
    /\ raced = FALSE /\ leaked = {} /\ lost = FALSE /\ sealed = FALSE

server == <<issued, valid>>
history == <<raced, leaked, lost, sealed>>
loops == <<instance, loop>>
program == <<main, cancelled>>

At(p, s) == stage[p] = s
Go(p, s) == stage' = [stage EXCEPT ![p] = s] /\ UNCHANGED <<token, of>>
Move(p, s, t, i) ==
    /\ stage' = [stage EXCEPT ![p] = s]
    /\ token' = [token EXCEPT ![p] = t]
    /\ of' = [of EXCEPT ![p] = i]
GoWithNothing(p, s) == Move(p, s, 0, Nobody)
Leave(p) == GoWithNothing(p, "idle")

\* Every loop of this run of the program is told to end.
Cancel == cancelled' = TRUE /\ raced' = FALSE /\ leaked' = {}

\* The context of an instance's loops: one that waits is over when it is done.
Done(i) == cancelled \/ closes[i] > 0

-----------------------------------------------------------------------------
(* The sessions in memory.                                                  *)

Held == {cached} \cup {sess[p] : p \in Processes}
Unused == Copies \ Held
\* What no one has any more is free for another object.
Sweep(objects) == copy' = [c \in Copies |-> IF c \in Held' THEN objects[c] ELSE Missing]

\* What Get may find and leaves in the cache: NoCopy when the keyring has nothing
\* or refuses.
Found == {cached} \cup (IF cached = NoCopy /\ stored.present THEN Unused ELSE {})
With(c) == IF c = cached THEN copy ELSE [copy EXCEPT ![c] = stored]
Get(c) == cached' = c /\ copy' = With(c)

\* Who has been answered with a token and is about to store it.
InHand ==
    {i \in Instances : refresh[i] = "answered"}
    \cup {p \in Processes : stage[p] \in {"tokens", "restored"}}

Updating ==
    InHand \cup {p \in Processes : stage[p] \in {"create", "keys", "submit", "theme"}}

\* Those on their way to write the session, a login or an answer in hand.  The
\* loops that only wait are not among them.
Writers ==
    Updating
    \cup {p \in Processes : stage[p] \in {"sso", "start", "init"}}
    \cup {i \in Instances : refresh[i] = "asking"}

\* Update makes a session where there is none.
UpdateGets(p) ==
    /\ p \in Updating
    /\ sess[p] = NoCopy
    /\ \/ \E c \in Found \ {NoCopy} : Get(c) /\ sess' = [sess EXCEPT ![p] = c]
       \/ /\ cached = NoCopy
          /\ \E c \in Unused :
                 /\ sess' = [sess EXCEPT ![p] = c]
                 /\ copy' = [copy EXCEPT ![c] = Blank]
          /\ UNCHANGED cached
    /\ stale' = IF \E q \in Updating : data[q].present /\ sess[q] # sess'[p]
                THEN stale \cup {p} ELSE stale
    /\ UNCHANGED <<program, mapped, loops, process, stored, data, server, history>>

\* Bug: only the access token is new where there is a refresh token.
WithAccess(s, t) == [s EXCEPT !.token = IF @ = 0 THEN t ELSE @, !.access = TRUE]

WithToken(s, t) == [s EXCEPT !.token = t, !.access = TRUE]

Changed(p, s) ==
    CASE stage[p] \in {"tokens", "restored"} -> WithToken(s, token[p])
      [] p \in Instances -> WithToken(s, next[p])
      [] stage[p] = "submit" -> [s EXCEPT !.access = TRUE, !.loggedIn = TRUE]
      [] OTHER -> s

\* What the others have marshalled, or have of another object, lacks the change.
UpdateChanges(p) ==
    /\ p \in Updating
    /\ sess[p] # NoCopy /\ ~data[p].present
    /\ copy' = [copy EXCEPT ![sess[p]] = Changed(p, @)]
    /\ data' = [data EXCEPT ![p] = Changed(p, copy[sess[p]])]
    /\ stale' = stale \cup
           {q \in Updating : data[q].present \/ sess[q] \notin {NoCopy, sess[p]}}
    /\ UNCHANGED <<program, mapped, loops, process, stored, cached, sess, server, history>>

Release(p) ==
    /\ sess' = [sess EXCEPT ![p] = NoCopy]
    /\ data' = [data EXCEPT ![p] = Missing]
    /\ stale' = stale \ {p}

\* An Update that writes over a change it does not have may write an old token.
Overwritten(p) == p \in stale /\ data[p].token # stored.token

Saves(p) ==
    /\ data[p].present
    /\ stored' = data[p]
    /\ cached' = sess[p]
    /\ Release(p)
    /\ Sweep(copy)
    /\ lost' = (lost \/ Overwritten(p))

\* The keyring refuses.  A change made to the object in the cache stays there.
SaveRefused(p) ==
    /\ data[p].present
    /\ UNCHANGED <<stored, cached>>
    /\ Release(p)
    /\ Sweep(copy)
    /\ lost' = (lost \/ p \in InHand)

-----------------------------------------------------------------------------
(* Start and end of the program.                                            *)

NewManager ==
    /\ main = "down"
    /\ \E c \in Found :
           /\ Get(c)
           /\ main' = IF c # NoCopy THEN "starting" ELSE "serving"
           /\ IF c # NoCopy THEN Go(Main, "restore") ELSE UNCHANGED process
    /\ sealed' = FALSE
    /\ UNCHANGED <<cancelled, mapped, loops, stored, sess, data, stale, server,
                   raced, leaked, lost>>

\* Memory is gone.
Ended ==
    /\ main' = "down"
    /\ cancelled' = FALSE
    /\ mapped' = Nobody
    /\ sync' = [i \in Instances |-> "unused"]
    /\ closes' = [i \in Instances |-> 0]
    /\ refresh' = [i \in Instances |-> "none"]
    /\ holds' = [i \in Instances |-> 0]
    /\ next' = [i \in Instances |-> 0]
    /\ stage' = [p \in Processes |-> "idle"]
    /\ token' = [p \in Processes |-> 0]
    /\ of' = [p \in Processes |-> Nobody]
    /\ cached' = NoCopy
    /\ copy' = [c \in Copies |-> Missing]
    /\ sess' = [p \in Processes |-> NoCopy]
    /\ data' = [p \in Processes |-> Missing]
    /\ stale' = {}
    /\ raced' = FALSE /\ leaked' = {}
    /\ lost' = (lost \/ InHand # {})
    /\ UNCHANGED <<stored, server, sealed>>

Crash == main # "down" /\ Ended

Shutdown ==
    /\ main = "serving"
    /\ main' = "exiting"
    /\ Cancel
    /\ closes' = [i \in Instances |-> IF i = mapped THEN closes[i] + 1 ELSE closes[i]]
    /\ UNCHANGED <<mapped, sync, loop, process, store, server, lost, sealed>>

\* The map is cleared after the sessions were closed.
Clear ==
    /\ main = "exiting"
    /\ mapped # Nobody
    /\ mapped' = Nobody
    /\ UNCHANGED <<program, loops, process, store, server, history>>

-----------------------------------------------------------------------------
(* The homeserver.                                                          *)

Issue(old, new) ==
    /\ issued < MaxTokens
    /\ new = issued + 1
    /\ issued' = new
    /\ valid' = (valid \ {old}) \cup {new}

-----------------------------------------------------------------------------
(* restoreSession, with the session that Get has left in the cache.         *)

RestoreKnown ==
    /\ At(Main, "restore")
    /\ GoWithNothing(Main, "start")
    /\ UNCHANGED <<program, mapped, loops, store, server, history>>

\* Delete, with nobody else there.  The keyring's error is ignored.
Forget ==
    /\ stored' \in {Missing, stored}
    /\ cached' = NoCopy
    /\ UNCHANGED <<sess, data, stale>>
    /\ Sweep(copy)
    /\ main' = "serving"
    /\ Leave(Main)

\* The token has expired, or there is no network.
RestoreRefused ==
    /\ At(Main, "restore")
    /\ IF copy[cached].token # 0
       THEN Go(Main, "refresh") /\ UNCHANGED <<main, store>>
       ELSE Forget
    /\ UNCHANGED <<cancelled, mapped, loops, server, history>>

RestoreRefreshes ==
    /\ At(Main, "refresh")
    /\ copy[cached].token \in valid
    /\ \E new \in Tokens :
           /\ Issue(copy[cached].token, new)
           /\ Move(Main, "restored", new, Nobody)
    /\ UNCHANGED <<program, mapped, loops, store, history>>

\* The answer may be what is missing.
RestoreFails ==
    /\ At(Main, "refresh")
    /\ \/ UNCHANGED <<server, lost>>
       \/ /\ copy[cached].token \in valid
          /\ \E new \in Tokens : Issue(copy[cached].token, new)
          /\ lost' = TRUE
    /\ Forget
    /\ UNCHANGED <<cancelled, mapped, loops, raced, leaked, sealed>>

RestoreStores ==
    /\ At(Main, "restored")
    /\ Saves(Main) \/ SaveRefused(Main)
    /\ GoWithNothing(Main, "start")
    /\ UNCHANGED <<program, mapped, loops, server, raced, leaked, sealed>>

-----------------------------------------------------------------------------
(* Login, and HandleLoginSubmit after it.                                   *)

Login(p) ==
    /\ main = "serving"
    /\ At(p, "idle")
    /\ \E c \in Found :
           /\ Get(c)
           /\ GoWithNothing(p, IF c # NoCopy /\ With(c)[c].access THEN "start" ELSE "sso")
    /\ sealed' = FALSE
    /\ UNCHANGED <<program, mapped, loops, stored, sess, data, stale, server,
                   raced, leaked, lost>>

LoginFails(p) ==
    /\ At(p, "sso")
    /\ Leave(p)
    /\ UNCHANGED <<program, mapped, loops, store, server, history>>

LoginAnswered(p) ==
    /\ At(p, "sso")
    /\ \E new \in Tokens :
           /\ Issue(0, new)
           /\ Move(p, "tokens", new, Nobody)
    /\ lost' = (lost /\ (Writers # {p} \/ cached # NoCopy \/ stored.present))
    /\ UNCHANGED <<program, mapped, loops, store, raced, leaked, sealed>>

\* Where the keyring refuses, newSession is nil and the request panics.
LoginStores(p) ==
    /\ At(p, "tokens")
    /\ \/ Saves(p) /\ GoWithNothing(p, "start")
       \/ SaveRefused(p) /\ Leave(p)
    /\ UNCHANGED <<program, mapped, loops, server, raced, leaked, sealed>>

Submit(p) ==
    /\ At(p, "submit")
    /\ Saves(p) \/ SaveRefused(p)
    /\ Leave(p)
    /\ UNCHANGED <<program, mapped, loops, server, raced, leaked, sealed>>

-----------------------------------------------------------------------------
(* A request whose session SessionMiddleware has found.                     *)

\* Auth turns a session without a client away, and lets the others on to what
\* changes the session.
Auth(p) ==
    /\ main = "serving"
    /\ At(p, "idle")
    /\ \E c \in Found \ {NoCopy} :
           /\ With(c)[c].loggedIn
           /\ cached' = c
           /\ copy' = [With(c) EXCEPT ![c].loggedIn = (mapped # Nobody)]
    /\ Go(p, IF mapped = Nobody THEN "refuse" ELSE "theme")
    /\ UNCHANGED <<program, mapped, loops, stored, sess, data, stale, server, history>>

\* HandleToggleTheme, HandleSetTheme.
SetTheme(p) ==
    /\ At(p, "theme")
    /\ Saves(p) \/ SaveRefused(p)
    /\ Leave(p)
    /\ UNCHANGED <<program, mapped, loops, server, raced, leaked, sealed>>

HandleLogout(p) ==
    /\ main = "serving"
    /\ At(p, "idle")
    /\ \E c \in Found \ {NoCopy} :
           /\ Get(c)
           /\ Go(p, IF With(c)[c].loggedIn THEN "logout" ELSE "refuse")
    /\ UNCHANGED <<program, mapped, loops, stored, sess, data, stale, server, history>>

-----------------------------------------------------------------------------
(* startSync and NewMatrixSession, of a login or of the start.              *)

Finished(p) ==
    IF p = Main THEN Leave(p) /\ main' = "serving"
    ELSE GoWithNothing(p, "submit") /\ UNCHANGED main

Starting == {p \in Processes : stage[p] \in {"create", "init", "keys"}}

\* Bug: startSync does not look whether there is a session.
StartSyncAlways(p) ==
    /\ At(p, "start")
    /\ Go(p, "create")
    /\ raced' = (raced \/ (~cancelled /\ Starting # {}))
    /\ UNCHANGED <<program, mapped, loops, store, server, leaked, lost, sealed>>

StartSync(p) ==
    /\ At(p, "start")
    /\ IF mapped # Nobody
       THEN Finished(p) /\ UNCHANGED raced
       ELSE Go(p, "create") /\ UNCHANGED main /\ raced' = (raced \/ (~cancelled /\ Starting # {}))
    /\ UNCHANGED <<cancelled, mapped, loops, store, server, leaked, lost, sealed>>

\* NewMatrixSession reads the session again, and has it until it starts the loops.
ReadSession(p) ==
    /\ At(p, "create")
    /\ data[p].present
    /\ stored' = data[p]
    /\ cached' = sess[p]
    /\ data' = [data EXCEPT ![p] = Missing]
    /\ stale' = stale \ {p}
    /\ UNCHANGED sess
    /\ Sweep(copy)
    /\ lost' = (lost \/ Overwritten(p))
    /\ Go(p, "init")
    /\ UNCHANGED <<program, mapped, loops, server, raced, leaked, sealed>>

\* The keyring fails and the request panics.
ReadSessionRefused(p) ==
    /\ At(p, "create")
    /\ p # Main
    /\ SaveRefused(p)
    /\ Leave(p)
    /\ UNCHANGED <<program, mapped, loops, server, raced, leaked, sealed>>

NewMatrixSession(p, i) ==
    /\ At(p, "init")
    /\ ~cancelled
    /\ sync[i] = "unused"
    /\ sync' = [sync EXCEPT ![i] = "running"]
    /\ LET t == copy[sess[p]].token
       IN  /\ refresh' = [refresh EXCEPT ![i] = IF t = 0 THEN "none" ELSE "waiting"]
           /\ holds' = [holds EXCEPT ![i] = t]
    /\ Release(p)
    /\ UNCHANGED cached
    /\ Sweep(copy)
    /\ Move(p, "keys", 0, i)
    /\ UNCHANGED <<program, closes, next, mapped, stored, server, history>>

\* No network, or the manager's context is cancelled.
NewMatrixSessionFails(p) ==
    /\ At(p, "init")
    /\ Release(p)
    /\ UNCHANGED cached
    /\ Sweep(copy)
    /\ Finished(p)
    /\ UNCHANGED <<cancelled, mapped, loops, stored, server, history>>

\* KeyBackupManager.Init.  When it fails the loops go on.
KeysReady(p) ==
    /\ At(p, "keys")
    /\ Saves(p)
    /\ mapped' = of[p]
    /\ Finished(p)
    /\ UNCHANGED <<cancelled, loops, server, raced, leaked, sealed>>

KeysFail(p) ==
    /\ At(p, "keys")
    /\ Saves(p) \/ SaveRefused(p)
    /\ leaked' = IF cancelled THEN leaked ELSE leaked \cup {of[p]}
    /\ Finished(p)
    /\ UNCHANGED <<cancelled, mapped, loops, server, raced, sealed>>

-----------------------------------------------------------------------------
(* Logout, of a request or of a sync loop whose token is unknown.           *)

UnknownToken(i) ==
    /\ sync[i] = "running"
    /\ ~Done(i)
    /\ sync' = [sync EXCEPT ![i] = "leaving"]
    /\ Go(i, "logout")
    /\ UNCHANGED <<program, mapped, closes, loop, store, server, history>>

\* Bug: the session is looked up and left in the map.
TakeSessionKeeps(p) ==
    /\ At(p, "logout")
    /\ mapped # Nobody
    /\ Cancel
    /\ Move(p, "revoke", 0, mapped)
    /\ UNCHANGED <<main, mapped, loops, store, server, lost, sealed>>

\* Bug: the logout goes on with no session.
TakeSessionUnchecked(p) ==
    /\ At(p, "logout")
    /\ Cancel
    /\ mapped' = Nobody
    /\ Move(p, "revoke", 0, mapped)
    /\ UNCHANGED <<main, loops, store, server, lost, sealed>>

\* Bug: the context of the manager is left alone.
TakeSessionOnly(p) ==
    /\ At(p, "logout")
    /\ mapped # Nobody
    /\ mapped' = Nobody
    /\ Move(p, "revoke", 0, mapped)
    /\ UNCHANGED <<program, loops, store, server, history>>

TakeSession(p) ==
    /\ At(p, "logout")
    /\ mapped # Nobody
    /\ Cancel
    /\ mapped' = Nobody
    /\ Move(p, "revoke", 0, mapped)
    /\ UNCHANGED <<main, loops, store, server, lost, sealed>>

\* There is no session: a request panics alone, a sync loop with the program.
NothingToTake(p) ==
    /\ At(p, "logout")
    /\ mapped = Nobody
    /\ IF p \in Instances THEN Ended
       ELSE /\ Cancel
            /\ Leave(p)
            /\ UNCHANGED <<main, mapped, loops, store, server, lost, sealed>>

\* Client.Logout; a sync loop asks under the context just cancelled.
Revoke(p) ==
    /\ At(p, "revoke")
    /\ \/ UNCHANGED valid
       \/ p \in Requests /\ valid' = valid \ {holds[of[p]], next[of[p]]}
    /\ lost' = TRUE
    /\ Go(p, "close")
    /\ UNCHANGED <<program, mapped, loops, store, issued, raced, leaked, sealed>>

CloseSession(p) ==
    /\ At(p, "close")
    /\ closes' = [closes EXCEPT ![of[p]] = @ + 1]
    /\ GoWithNothing(p, "delete")
    /\ UNCHANGED <<program, mapped, sync, loop, store, server, history>>

\* The keyring's error is ignored.  A request that logged out deletes the session
\* once more on its own.
DeleteSession(p) ==
    /\ stage[p] \in {"delete", "refuse"}
    /\ \/ /\ stored' = Missing
          /\ sealed' = (sealed \/ (At(p, "delete") /\ Writers = {}))
       \/ UNCHANGED <<stored, sealed>>
    /\ cached' = NoCopy
    /\ UNCHANGED <<sess, data, stale>>
    /\ Sweep(copy)
    /\ IF At(p, "delete") /\ p \in Requests THEN Go(p, "refuse") ELSE Leave(p)
    /\ sync' = IF p \in Instances THEN [sync EXCEPT ![p] = "ended"] ELSE sync
    /\ UNCHANGED <<program, mapped, closes, loop, server, raced, leaked, lost>>

-----------------------------------------------------------------------------
(* The refresh loop of an instance.                                         *)

RefreshTo(i, s) == refresh' = [refresh EXCEPT ![i] = s] /\ UNCHANGED <<holds, next>>

RefreshedTo(i) ==
    /\ refresh' = [refresh EXCEPT ![i] = "waiting"]
    /\ holds' = [holds EXCEPT ![i] = next[i]]
    /\ next' = [next EXCEPT ![i] = 0]

\* With the context done the timer's request would not be sent: the loop is over.
Timer(i) ==
    /\ refresh[i] = "waiting"
    /\ ~Done(i)
    /\ RefreshTo(i, "asking")
    /\ UNCHANGED <<program, mapped, instance, process, store, server, history>>

RefreshAnswered(i) ==
    /\ refresh[i] = "asking"
    /\ holds[i] \in valid
    /\ \E new \in Tokens :
           /\ Issue(holds[i], new)
           /\ refresh' = [refresh EXCEPT ![i] = "answered"]
           /\ next' = [next EXCEPT ![i] = new]
           /\ UNCHANGED holds
    /\ UNCHANGED <<program, mapped, instance, process, store, history>>

RefreshFails(i) ==
    /\ refresh[i] = "asking"
    /\ \/ UNCHANGED <<server, lost>>
       \/ /\ holds[i] \in valid
          /\ \E new \in Tokens : Issue(holds[i], new)
          /\ lost' = TRUE
    /\ RefreshTo(i, "waiting")
    /\ UNCHANGED <<program, mapped, instance, process, store, raced, leaked, sealed>>

RefreshStores(i) ==
    /\ refresh[i] = "answered"
    /\ Saves(i) \/ SaveRefused(i)
    /\ RefreshedTo(i)
    /\ UNCHANGED <<program, mapped, instance, process, server, raced, leaked, sealed>>

-----------------------------------------------------------------------------
Request(p) ==
    \/ Login(p) \/ LoginFails(p) \/ LoginAnswered(p) \/ LoginStores(p) \/ Submit(p)
    \/ Auth(p) \/ SetTheme(p) \/ HandleLogout(p)

Restore ==
    RestoreKnown \/ RestoreRefused \/ RestoreRefreshes \/ RestoreFails \/ RestoreStores

Update(p) == UpdateGets(p) \/ UpdateChanges(p)

Start(p) ==
    \/ StartSync(p) \/ ReadSession(p) \/ ReadSessionRefused(p) \/ NewMatrixSessionFails(p)
    \/ KeysReady(p) \/ KeysFail(p)
    \/ \E i \in Instances : NewMatrixSession(p, i)

Logout(p) ==
    \/ TakeSession(p) \/ NothingToTake(p) \/ Revoke(p) \/ CloseSession(p)
    \/ DeleteSession(p)

RefreshLoop(i) ==
    Timer(i) \/ RefreshAnswered(i) \/ RefreshFails(i) \/ RefreshStores(i)

Next ==
    \/ NewManager \/ Crash \/ Shutdown \/ Clear \/ Restore
    \/ \E p \in Processes : Update(p)
    \/ \E p \in Requests : Request(p)
    \/ \E p \in Requests \cup {Main} : Start(p)
    \/ \E p \in Requests \cup Instances : Logout(p)
    \/ \E i \in Instances : RefreshLoop(i) \/ UnknownToken(i)

Spec == Init /\ [][Next]_vars

-----------------------------------------------------------------------------
Stages ==
    {"idle", "sso", "tokens", "restore", "refresh", "restored", "start", "create", "init", "keys",
     "submit", "theme", "logout", "revoke", "close", "delete", "refuse"}
Session == [token : Tokens \cup {0}, access : BOOLEAN, loggedIn : BOOLEAN, present : BOOLEAN]

(* In particular whoever revokes, closes, starts or stores a session has    *)
(* one, and the map holds an instance or nobody.                            *)
TypeOK ==
    /\ main \in {"down", "starting", "serving", "exiting"}
    /\ cancelled \in BOOLEAN
    /\ mapped \in Instances \cup {Nobody}
    /\ sync \in [Instances -> {"unused", "running", "leaving", "ended"}]
    /\ closes \in [Instances -> 0..2]
    /\ refresh \in [Instances -> {"none", "waiting", "asking", "answered"}]
    /\ holds \in [Instances -> Tokens \cup {0}] /\ next \in [Instances -> Tokens \cup {0}]
    /\ stage \in [Processes -> Stages]
    /\ token \in [Processes -> Tokens \cup {0}]
    /\ of \in [Processes -> Instances \cup {Nobody}]
    /\ \A p \in Processes : stage[p] \in {"keys", "revoke", "close"} => of[p] # Nobody
    /\ stored \in Session
    /\ cached \in Copies \cup {NoCopy}
    /\ copy \in [Copies -> Session]
    /\ sess \in [Processes -> Copies \cup {NoCopy}]
    /\ data \in [Processes -> Session]
    /\ \A p \in Processes : At(p, "init") \/ data[p].present => sess[p] # NoCopy
    /\ stale \subseteq Processes
    /\ issued \in 0..MaxTokens
    /\ valid \subseteq Tokens
    /\ raced \in BOOLEAN /\ lost \in BOOLEAN /\ sealed \in BOOLEAN
    /\ leaked \subseteq Instances

(* A session is closed once, however many requests and sync loops log out   *)
(* at the same time, as long as the program is not exiting.                 *)
ClosedOnce == \A i \in Instances : closes[i] <= 1 \/ main = "exiting"

(* Once a logout has deleted the session with no login, start, Update or    *)
(* refresh request on its way, no loop of any instance, the ones that no    *)
(* map holds included, brings it back before the next login.                *)
LoggedOutStaysOut == sealed => ~stored.present

(* The refresh token in the keyring is one that the homeserver still takes, *)
(* or its successor is about to be stored, however logins, loops, updates   *)
(* of other fields, deletes, restarts and crashes interleave: unless an     *)
(* answer was lost or could not be stored, the device was signed out, or an *)
(* Update wrote its older token over a change that it did not have.         *)
StoredTokenIsValid ==
    stored.token # 0 /\ ~lost
        => \/ stored.token \in valid
           \/ \E i \in Instances : refresh[i] = "answered"
           \/ \E p \in Processes : stage[p] = "restored"

(* A sync loop that runs belongs to the session in the map, so that Logout  *)
(* closes it, or is about to, unless two logins overlapped or the backup    *)
(* keys could not be had.                                                   *)
LoopsAreOwned ==
    \A i \in Instances :
        sync[i] = "running" /\ ~Done(i) /\ ~raced /\ i \notin leaked
            => mapped = i \/ \E p \in Processes : At(p, "keys") /\ of[p] = i
=============================================================================
