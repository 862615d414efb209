---------------------------- MODULE Verification ----------------------------
(***************************************************************************)
(* Verifying this device: the flags that the callbacks of the verification  *)
(* helper set (src/internal/matrix/verification.go), the pages under        *)
(* /verify that redirect one another by them (src/internal/handlers), what  *)
(* the window sends over its websocket, and VerificationService, which is   *)
(* to push a redirect for every callback (src/internal/service/verify.go).  *)
(*                                                                         *)
(* The helper and the other device are external: they take each             *)
(* transaction through its stages and call back one step at a time.         *)
(***************************************************************************)
EXTENDS Integers, FiniteSets

CONSTANTS
    Txns,        \* bound: verification transactions
    Nobody

ASSUME VerificationAssumption == Nobody \notin Txns

VARIABLES
    txn,         \* what the helper makes of each transaction
    ui,          \* VerificationUIState
    keys,        \* HasCrossSigningKeys
    verified,    \* IsVerified
    starting,    \* the request that has started a verification, and not noted it
    window       \* the window: its page, whose emojis or QR code it shows, and
                 \* (history) who was not cancelled when its handler looked

vvars == <<txn, ui, keys, verified, starting, window>>

Cleared == [emojis |-> Nobody, sasActive |-> FALSE, qrActive |-> FALSE, qrCode |-> Nobody,
            qrScanned |-> FALSE, cancelled |-> FALSE]

Loading(path) ==
    [at |-> path, stage |-> "loading", shows |-> Nobody, live |-> {}, listening |-> FALSE]

VInit ==
    /\ txn = [t \in Txns |-> "none"]
    /\ ui = Cleared
    /\ keys \in BOOLEAN
    /\ verified = FALSE
    /\ starting = "none"
    /\ window = Loading("verify")

-----------------------------------------------------------------------------
(* ListenVerifyEvents asks whether the session is a VerificationClient: that *)
(* each of its methods is one of MatrixSession's, results included.          *)

VerificationClient ==
    {"VerificationEvents(ctx) (ch, func())", "WaitUntilVerified(ctx)", "HasCrossSigningKeys() bool",
     "GetVerificationUIState() *state", "RequestSASVerification(ctx) error",
     "RequestQRVerification(ctx) error", "GetQRCodeSVG(ctx) (string, error)",
     "ConfirmVerification(ctx) error", "ConfirmQRVerification(ctx) error",
     "CancelVerification(ctx) error", "RecoverWithKey(ctx, key) error"}

\* Those of its methods that are about verification.
MatrixSession ==
    {"VerificationEvents(ctx) (ch, func())", "WaitUntilVerified(ctx) error",
     "GetVerificationUIState() *state", "GetVerificationHelper() *helper",
     "GetVerificationStore() *store", "IsVerified() bool"}

ListenVerifyEvents == VerificationClient \subseteq MatrixSession

\* An event pushed to a window that listens is a redirect.
Tell(path) == window' = IF window.listening THEN Loading(path) ELSE window

-----------------------------------------------------------------------------
(* The callbacks, with what the helper has done before each.                *)

Live == {"requested", "ready", "sas", "scanned", "confirmed"}

VerificationRequested(t) ==
    /\ txn[t] = "none"
    /\ txn' = [txn EXCEPT ![t] = "requested"]
    /\ UNCHANGED <<ui, keys, verified, starting, window>>

VerificationReady(t) ==
    /\ txn[t] = "requested"
    /\ txn' = [txn EXCEPT ![t] = "ready"]
    /\ \/ UNCHANGED ui /\ Tell("sas/waiting")
       \/ ui' = [ui EXCEPT !.qrCode = t, !.qrActive = TRUE] /\ Tell("qr")
    /\ UNCHANGED <<keys, verified, starting>>

ShowSAS(t) ==
    /\ txn[t] = "ready"
    /\ txn' = [txn EXCEPT ![t] = "sas"]
    /\ ui' = [ui EXCEPT !.emojis = t, !.sasActive = TRUE]
    /\ Tell("sas")
    /\ UNCHANGED <<keys, verified, starting>>

QRCodeScanned(t) ==
    /\ txn[t] = "ready"
    /\ txn' = [txn EXCEPT ![t] = "scanned"]
    /\ ui' = [ui EXCEPT !.qrScanned = TRUE]
    /\ Tell("qr/scanned")
    /\ UNCHANGED <<keys, verified, starting>>

\* The other device, or a time-out.
VerificationCancelled(t) ==
    /\ txn[t] \in Live
    /\ txn' = [txn EXCEPT ![t] = "cancelled"]
    /\ ui' = [ui EXCEPT !.cancelled = TRUE]
    /\ Tell("verify")
    /\ UNCHANGED <<keys, verified, starting>>

\* The forwarder would wait until the device is verified.
VerificationDone(t) ==
    /\ txn[t] = "confirmed"
    /\ txn' = [txn EXCEPT ![t] = "done"]
    /\ \/ verified' = TRUE /\ Tell("/")
       \/ UNCHANGED <<verified, window>>
    /\ UNCHANGED <<ui, keys, starting>>

\* The keys are uploaded, or come from the account and sign this device.
CrossSigningKeys ==
    /\ ~verified
    /\ keys' = TRUE
    /\ verified' \in BOOLEAN
    /\ UNCHANGED <<txn, ui, starting, window>>

-----------------------------------------------------------------------------
(* The pages.  A handler first looks at the state, to show its page or to   *)
(* redirect; one that finds the verification cancelled clears the state     *)
(* before it redirects.  What it shows it reads after GetCurrentUser, from  *)
(* the state as it is by then.                                              *)

Show == [then |-> "checked", to |-> "same"]
Redirect(path) == [then |-> "loading", to |-> path]
ClearAnd(path) == [then |-> "clearing", to |-> path]

HandleVerifyPage ==
    IF ~keys THEN Redirect("waiting")
    ELSE IF ui.cancelled THEN ClearAnd("choose")
    ELSE IF ui.emojis # Nobody THEN Redirect("sas")
    ELSE IF ui.sasActive THEN Redirect("sas/waiting")
    ELSE IF ui.qrScanned THEN Redirect("qr/scanned")
    ELSE IF ui.qrActive THEN Redirect("qr")
    ELSE Redirect("choose")

HandleVerifyWaitingPage == IF keys THEN Redirect("choose") ELSE Show
HandleVerifyChoosePage == IF keys THEN Show ELSE Redirect("verify")
HandleVerifyRecoveryPage == Show

HandleVerifySASPage ==
    IF ~keys THEN Redirect("verify")
    ELSE IF ui.emojis = Nobody THEN Redirect("sas/waiting")
    ELSE IF ui.cancelled THEN ClearAnd("verify")
    ELSE Show

\* Bug: the verification has begun, so the emojis are taken to be there.
SASWaitingPageEager ==
    IF ~keys THEN Redirect("waiting")
    ELSE IF ui.cancelled THEN ClearAnd("choose")
    ELSE IF ui.sasActive THEN Redirect("sas")
    ELSE Show

HandleVerifySASWaitingPage ==
    IF ~keys THEN Redirect("waiting")
    ELSE IF ui.cancelled THEN ClearAnd("choose")
    ELSE IF ui.emojis # Nobody THEN Redirect("sas")
    ELSE Show

HandleVerifyQRPage ==
    IF ~keys THEN Redirect("verify")
    ELSE IF ui.cancelled THEN ClearAnd("choose")
    ELSE IF ui.qrScanned THEN Redirect("qr/scanned")
    ELSE Show

HandleVerifyQRScannedPage ==
    IF ui.cancelled THEN ClearAnd("choose")
    ELSE IF ~ui.qrScanned THEN Redirect("qr")
    ELSE Show

Paths == {"/", "verify", "waiting", "choose", "recovery", "sas", "sas/waiting", "qr", "qr/scanned"}

Pages(path) ==
    IF path = "verify" THEN HandleVerifyPage
    ELSE IF path = "waiting" THEN HandleVerifyWaitingPage
    ELSE IF path = "choose" THEN HandleVerifyChoosePage
    ELSE IF path = "recovery" THEN HandleVerifyRecoveryPage
    ELSE IF path = "sas" THEN HandleVerifySASPage
    ELSE IF path = "sas/waiting" THEN HandleVerifySASWaitingPage
    ELSE IF path = "qr" THEN HandleVerifyQRPage
    ELSE HandleVerifyQRScannedPage

\* Auth sends who is not verified to /verify; each page sends back who is.
Handler ==
    [path \in Paths |->
        IF path = "/" THEN IF verified THEN Show ELSE Redirect("verify")
        ELSE IF verified THEN Redirect("/")
        ELSE Pages(path)]

Handle ==
    LET answer == Handler[window.at] IN
    /\ window.stage = "loading"
    /\ window' = [window EXCEPT
                     !.at = IF answer.to = "same" THEN @ ELSE answer.to,
                     !.stage = answer.then,
                     !.live = IF answer = Show THEN {t \in Txns : txn[t] # "cancelled"} ELSE {}]
    /\ UNCHANGED <<txn, ui, keys, verified, starting>>

\* Whose emojis or code the page is rendered with.
Content(path) ==
    IF path = "sas" THEN ui.emojis ELSE IF path = "qr" THEN ui.qrCode ELSE Nobody

\* Bug: GetQRCodeSVG takes the code to be there.
GetQRCodeSVGUnchecked == TRUE

GetQRCodeSVG == ui.qrCode # Nobody

Render ==
    /\ window.stage = "checked"
    /\ window.at = "qr" => GetQRCodeSVG
    /\ window' = [window EXCEPT !.stage = "shown", !.shows = Content(window.at), !.live = {}]
    /\ UNCHANGED <<txn, ui, keys, verified, starting>>

\* GetCurrentUser fails, or there is no code.
ServerError ==
    /\ window.stage = "checked"
    /\ window' = [window EXCEPT !.stage = "error", !.live = {}]
    /\ UNCHANGED <<txn, ui, keys, verified, starting>>

\* Bug: the emojis stay.
ClearKeepsEmojis ==
    /\ window.stage = "clearing"
    /\ ui' = [Cleared EXCEPT !.emojis = ui.emojis]
    /\ window' = Loading(window.at)
    /\ UNCHANGED <<txn, keys, verified, starting>>

ClearVerificationState ==
    /\ window.stage = "clearing"
    /\ ui' = Cleared
    /\ window' = Loading(window.at)
    /\ UNCHANGED <<txn, keys, verified, starting>>

\* The page's websocket is open.  The page of an error has none.
HandleWS ==
    /\ window.stage = "shown"
    /\ window' = [window EXCEPT !.stage = "connected", !.listening = ListenVerifyEvents]
    /\ UNCHANGED <<txn, ui, keys, verified, starting>>

-----------------------------------------------------------------------------
(* The user.                                                                *)

On(path) == window.at = path /\ window.stage \in {"shown", "connected"}
Connected(path) == window.at = path /\ window.stage = "connected"

\* StartVerification, and then, in a step of its own, the flag of the method
\* and the redirect.  A failure is an error in the answer: the page stays.
Request(t, method) ==
    /\ On("choose")
    /\ starting = "none"
    /\ txn[t] = "none"
    /\ txn' = [txn EXCEPT ![t] = "requested"]
    /\ starting' = method
    /\ UNCHANGED <<ui, keys, verified, window>>

RequestSASVerification(t) == Request(t, "sas")
RequestQRVerification(t) == Request(t, "qr")

Requested(method, path) ==
    /\ starting = method
    /\ starting' = "none"
    /\ window' = IF On("choose") THEN Loading(path) ELSE window
    /\ UNCHANGED <<txn, keys, verified>>

SASRequested == Requested("sas", "sas/waiting") /\ ui' = [ui EXCEPT !.sasActive = TRUE]
QRRequested == Requested("qr", "qr") /\ ui' = [ui EXCEPT !.qrActive = TRUE]

\* The helper is given any transaction of the store, which forgets none.
ConfirmVerification(t) ==
    /\ \/ Connected("sas") /\ txn[t] = "sas"
       \/ Connected("qr/scanned") /\ txn[t] = "scanned"
    /\ txn' = [txn EXCEPT ![t] = "confirmed"]
    /\ UNCHANGED <<ui, keys, verified, starting, window>>

\* It may be one that is over, or the homeserver does not answer.
CancelVerification ==
    /\ Connected("sas") \/ Connected("qr/scanned")
    /\ \/ \E t \in Txns :
             /\ txn[t] \in Live
             /\ txn' = [txn EXCEPT ![t] = "cancelled"]
             /\ ui' = [ui EXCEPT !.cancelled = TRUE]
       \/ UNCHANGED <<txn, ui>>
    /\ window' = Loading("verify")
    /\ UNCHANGED <<keys, verified, starting>>

\* When the key is wrong, or the keys came but did not sign this device, the
\* page is shown again.
RecoverWithKey ==
    /\ On("recovery")
    /\ \/ /\ window' = Loading("verify")
          /\ keys' = TRUE
          /\ verified' \in BOOLEAN
       \/ keys' \in {keys, TRUE} /\ UNCHANGED <<verified, window>>
    /\ UNCHANGED <<txn, ui, starting>>

\* The links of the pages, and the window's own reload.
Follow ==
    /\ window.stage \in {"shown", "connected", "error"}
    /\ \E path \in Paths :
           /\ \/ path = window.at
              \/ path = "choose" /\ window.at \in {"recovery", "sas/waiting", "qr"}
              \/ path = "recovery" /\ window.at = "choose"
           /\ window.stage = "error" => path = window.at
           /\ window' = Loading(path)
    /\ UNCHANGED <<txn, ui, keys, verified, starting>>

-----------------------------------------------------------------------------
HelperCallback(t) ==
    \/ VerificationReady(t) \/ ShowSAS(t) \/ QRCodeScanned(t)
    \/ VerificationCancelled(t) \/ VerificationDone(t)

Page == Handle \/ ClearVerificationState \/ Render \/ ServerError \/ HandleWS

User ==
    \/ \E t \in Txns : \/ RequestSASVerification(t) \/ RequestQRVerification(t)
                       \/ ConfirmVerification(t)
    \/ SASRequested \/ QRRequested
    \/ CancelVerification \/ RecoverWithKey \/ Follow

VNext ==
    \/ \E t \in Txns : VerificationRequested(t) \/ HelperCallback(t)
    \/ CrossSigningKeys \/ Page \/ User

\* A page is loaded, and its websocket opened, without end of waiting.
FairSpec == VInit /\ [][VNext]_vvars /\ WF_vvars(Page)

-----------------------------------------------------------------------------
(* In particular the pages of the emojis and of the QR code have one.       *)
VTypeOK ==
    /\ txn \in [Txns -> Live \cup {"none", "cancelled", "done"}]
    /\ ui \in [emojis : Txns \cup {Nobody}, sasActive : BOOLEAN, qrActive : BOOLEAN,
               qrCode : Txns \cup {Nobody}, qrScanned : BOOLEAN, cancelled : BOOLEAN]
    /\ keys \in BOOLEAN /\ verified \in BOOLEAN
    /\ starting \in {"none", "sas", "qr"}
    /\ window \in [at : Paths,
                   stage : {"loading", "clearing", "checked", "shown", "connected", "error"},
                   shows : Txns \cup {Nobody}, live : SUBSET Txns, listening : BOOLEAN]
    /\ On("sas") \/ On("qr") => window.shows # Nobody

(* The emojis or the code that a page is rendered with are those of a       *)
(* transaction that had not been cancelled when the handler looked: a       *)
(* verification that failed leaves nothing for the user to compare or scan. *)
(* (One that is cancelled after the handler looked, while it waits for      *)
(* GetCurrentUser, is shown all the same; the next page clears it.)         *)
ShownIsLive ==
    [][\A t \in Txns : window.shows # t /\ window'.shows = t => t \in window.live]_vvars

(* Whatever the callbacks set while the pages redirect, and from whichever  *)
(* page, a page is reached, or the page of an error.                        *)
RedirectsEnd ==
    window.stage \in {"loading", "clearing", "checked"} ~> window.stage \in {"shown", "error"}

(* The page that waits for the other device is left once the emojis are     *)
(* there to compare: it tells the user that it redirects automatically.     *)
WaitingRedirects ==
    Connected("sas/waiting") /\ ui.emojis # Nobody ~> ~Connected("sas/waiting")
=============================================================================
