------------------------------- MODULE Requests -------------------------------
(***************************************************************************)
(* The network requests of views and controllers in DJBase                 *)
(* (Network/UIView+APPViewRequest.m and AFNManager.m), with what they      *)
(* share: the one HUD of the window (MBProgressHUD+Custom.m), the network  *)
(* activity indicator of the application and the one AFHTTPSessionManager. *)
(*                                                                         *)
(* Everything runs on the main thread but the network.  A request is       *)
(* "flying", then a "delegate" callback of its task waits in the           *)
(* operationQueue of the manager, then its completion is "posted" to the   *)
(* main queue, where it is dealt with.  Blocks refer weakly to the view    *)
(* that made the request, and messages to a view that is gone do nothing.  *)
(* GET, POST in its three forms, getUrl and postUrl differ in the address  *)
(* and the body only: all are kind "request"; Download is the other kind.  *)
(***************************************************************************)
EXTENDS Integers, FiniteSets

CONSTANTS
    Owners,          \* views, each the view of one controller
    Requests,        \* each is made once (a bound)
    Cookies,         \* what the application stores under userDefaultsCookie
    MaxSerializers,  \* request serializers it has (a bound)
    None

ASSUME RequestsAssumption ==
    /\ Owners # {}
    /\ MaxSerializers \in Nat
    /\ None \notin Owners \cup Cookies

\* 0 is the serializer of dispatch_once, the others are the application's.
Serializers == 0..MaxSerializers

VARIABLES
    alive, visible,     \* the owners there are, and the one on screen
    afn_showHud,        \* afn_showHud[o], of the APPViewRequest of o
    hud,                \* whether the window has a HUD that is not finished
    networkActivityIndicatorVisible,
    userDefaults,       \* the stored cookie
    configured,         \* AFNConfig.requestSerializer; 0 is nil
    requestSerializer,  \* the one the manager has
    header,             \* header[s]: the Cookie header of serializer s
    missed,             \* history: the requests that went without the stored
                        \* cookie since the last change of the serializer
    request             \* request[r]: what has become of r

screenVars == <<alive, visible, afn_showHud>>
managerVars == <<requestSerializer, header, missed>>
appVars == <<userDefaults, configured>>
shown == <<hud, networkActivityIndicatorVisible>>
netVars == <<screenVars, managerVars, appVars, shown, request>>

Kinds == {"request", "download"}
Pending == {r \in Requests : request[r].stage \in {"flying", "delegate", "posted"}}

\* showed: whether it asked for the HUD; toggled: whether the afn_showHud of
\* its owner has been changed while it was pending.
Unsent == [stage |-> "unsent", kind |-> "request", owner |-> None,
           showed |-> FALSE, toggled |-> FALSE]

\* The request is over.  What it did to the HUD is remembered, and how it ended:
\* "dealt" with, "empty", or "left" without a word to the HUD and the indicator.
Ended(r, how) ==
    [request[r] EXCEPT !.stage = how, !.kind = "request", !.owner = None]

NetInit ==
    /\ alive = Owners
    /\ visible = CHOOSE o \in Owners : TRUE
    /\ afn_showHud = [o \in Owners |-> TRUE]
    /\ hud = FALSE
    /\ networkActivityIndicatorVisible = FALSE
    /\ userDefaults = None
    /\ configured = 0
    /\ requestSerializer = 0
    /\ header = [s \in Serializers |-> None]
    /\ missed = {}
    /\ request = [r \in Requests |-> Unsent]

-----------------------------------------------------------------------------
(* What the application does to the state the requests share.              *)

SetCookie(c) ==
    /\ userDefaults # c
    /\ userDefaults' = c
    /\ UNCHANGED <<screenVars, managerVars, configured, shown, request>>

\* initWithHost, or setRequestSerializer: with a serializer that is new, or that
\* has been used before.
InitWithHost(s) ==
    /\ s # 0 /\ s # configured
    /\ configured' = s
    /\ missed' = {}
    /\ UNCHANGED <<screenVars, requestSerializer, header, userDefaults, shown, request>>

SetShowHud(o) ==
    /\ o \in alive
    /\ afn_showHud' = [afn_showHud EXCEPT ![o] = ~@]
    /\ request' = [r \in Requests |->
           IF r \in Pending /\ request[r].owner = o
           THEN [request[r] EXCEPT !.toggled = TRUE] ELSE request[r]]
    /\ UNCHANGED <<alive, visible, managerVars, appVars, shown>>

-----------------------------------------------------------------------------
(* AFNManager.                                                             *)

\* Slip: the header is set in the dispatch_once.
networkManagerOnce ==
    header' = IF header[0] = None THEN [header EXCEPT ![0] = userDefaults] ELSE header

\* networkManager: the cookie goes into the serializer the manager has.
networkManager == header' = [header EXCEPT ![requestSerializer] = userDefaults]

\* The head of every request: networkManager, then the configured serializer.
Prepare ==
    /\ networkManager
    /\ requestSerializer' = IF configured # 0 THEN configured ELSE requestSerializer

\* GET and the others, of owner o; the task carries the headers the serializer
\* has now.  Download makes a request of its own, without them.
Send(o, r, kind) ==
    /\ o \in alive
    /\ request[r].stage = "unsent"
    /\ hud' = (hud \/ afn_showHud[o])
    /\ networkActivityIndicatorVisible' = TRUE
    /\ Prepare
    /\ missed' = IF kind = "request" /\ header'[requestSerializer'] # userDefaults
                 THEN missed \cup {r} ELSE missed
    /\ request' = [request EXCEPT ![r] =
           [Unsent EXCEPT !.stage = "flying", !.kind = kind, !.owner = o,
                          !.showed = afn_showHud[o]]]
    /\ UNCHANGED <<screenVars, appVars>>

\* The server has answered, or timeoutInterval is over.
Reply(r) ==
    /\ request[r].stage = "flying"
    /\ request' = [request EXCEPT ![r].stage = "delegate"]
    /\ UNCHANGED <<screenVars, managerVars, appVars, shown>>

\* Slip: callbacks are passed on for the screen that shows only.
DidCompleteVisible(r) ==
    /\ request[r].stage = "delegate"
    /\ request[r].owner = visible
    /\ request' = [request EXCEPT ![r].stage = "posted"]
    /\ UNCHANGED <<screenVars, managerVars, appVars, shown>>

\* URLSession:task:didCompleteWithError: up to the completion on the main queue.
DidComplete(r) ==
    /\ request[r].stage = "delegate"
    /\ request' = [request EXCEPT ![r].stage = "posted"]
    /\ UNCHANGED <<screenVars, managerVars, appVars, shown>>

-----------------------------------------------------------------------------
(* The completion, on the main queue, for each thing it may have found.    *)

Completes(r, how) ==
    /\ request[r].stage = "posted"
    /\ request' = [request EXCEPT ![r] = Ended(r, how)]
    /\ UNCHANGED <<screenVars, managerVars, appVars>>

hideHUD == hud' = FALSE

HideIfShown(o) == IF afn_showHud[o] THEN hideHUD ELSE UNCHANGED hud

\* dealWithSuccessResponseObject of a response, whether it says success or not.
DealWithSuccess(r) ==
    /\ request[r].owner \in alive
    /\ request[r].kind = "request"
    /\ Completes(r, "dealt")
    /\ networkActivityIndicatorVisible' = FALSE
    /\ HideIfShown(request[r].owner)

\* The same with nil, which a JSON serializer makes of an empty body: the
\* failure block is called and no HUD hidden.
DealWithEmpty(r) ==
    /\ request[r].owner \in alive
    /\ request[r].kind = "request"
    /\ Completes(r, "empty")
    /\ networkActivityIndicatorVisible' = FALSE
    /\ UNCHANGED hud

\* Slip: the failure block is called and the HUD is left.
DealWithFailErrorLeavesHud(r) ==
    /\ request[r].owner \in alive
    /\ Completes(r, "dealt")
    /\ networkActivityIndicatorVisible' = FALSE
    /\ UNCHANGED hud

DealWithFailError(r) ==
    /\ request[r].owner \in alive
    /\ Completes(r, "dealt")
    /\ networkActivityIndicatorVisible' = FALSE
    /\ HideIfShown(request[r].owner)

\* The success block of a download is called by itself, whether the view is
\* there or not.
Downloaded(r) ==
    /\ request[r].kind = "download"
    /\ Completes(r, "left")
    /\ UNCHANGED shown

\* Of a view that is gone no other block is called.
Orphaned(r) ==
    /\ request[r].owner \notin alive
    /\ Completes(r, "left")
    /\ UNCHANGED shown

Complete(r) ==
    \/ DealWithSuccess(r)
    \/ DealWithEmpty(r)
    \/ DealWithFailError(r)
    \/ Downloaded(r)
    \/ Orphaned(r)

-----------------------------------------------------------------------------
(* Screens.                                                                *)

\* viewWillDisappear of the controller on screen: cancelAllOperations, on the
\* queue the delegate callbacks of every task wait in.
Show(o) ==
    /\ o \in alive \ {visible}
    /\ visible' = o
    /\ networkManager
    /\ request' = [r \in Requests |->
           IF request[r].stage = "delegate" THEN Ended(r, "left") ELSE request[r]]
    /\ UNCHANGED <<alive, afn_showHud, requestSerializer, missed, appVars, shown>>

Dealloc(o) ==
    /\ o \in alive \ {visible}
    /\ alive' = alive \ {o}
    /\ UNCHANGED <<visible, afn_showHud, managerVars, appVars, shown, request>>

-----------------------------------------------------------------------------

NetNext ==
    \/ \E c \in Cookies \cup {None} : SetCookie(c)
    \/ \E s \in Serializers : InitWithHost(s)
    \/ \E o \in Owners : SetShowHud(o) \/ Show(o) \/ Dealloc(o)
    \/ \E o \in Owners, r \in Requests, kind \in Kinds : Send(o, r, kind)
    \/ \E r \in Requests : Reply(r) \/ DidComplete(r) \/ Complete(r)

\* Every request is answered or times out, and queues go on.
NetFairness == \A r \in Requests :
    WF_netVars(Reply(r)) /\ WF_netVars(DidComplete(r)) /\ WF_netVars(Complete(r))

NetSpec == NetInit /\ [][NetNext]_netVars /\ NetFairness

-----------------------------------------------------------------------------

(* The shape of the state.                                                 *)
NetTypeOK ==
    /\ visible \in alive
    /\ alive \subseteq Owners
    /\ afn_showHud \in [Owners -> BOOLEAN]
    /\ {hud, networkActivityIndicatorVisible} \subseteq BOOLEAN
    /\ userDefaults \in Cookies \cup {None}
    /\ configured \in Serializers
    /\ requestSerializer \in Serializers
    /\ header \in [Serializers -> Cookies \cup {None}]
    /\ missed \subseteq Requests

\* The ends after which the HUD may stay: "left" is a view that is gone, a
\* callback that was cancelled, and a download that succeeded; or the body was
\* empty, or afn_showHud was changed meanwhile.
KeepsIndicator(r) == request[r].stage = "left"
KeepsHud(r) ==
    \/ KeepsIndicator(r)
    \/ request[r].stage = "empty"
    \/ request[r].toggled

(* When no request is under way, a HUD or an indicator that is still there *)
(* is owed to a request with one of those ends; with none of them both are *)
(* gone, however the requests overlapped on the one HUD.                   *)
Settled ==
    /\ NetTypeOK
    /\ Pending = {} =>
        /\ hud => \E r \in Requests : request[r].showed /\ KeepsHud(r)
        /\ networkActivityIndicatorVisible => \E r \in Requests : KeepsIndicator(r)

(* networkManager puts the cookie into the serializer the manager has      *)
(* (AFNManager.m:39), which the configured one replaces only afterwards    *)
(* (AFNManager.m:87): a request may go out with no cookie, or with one of  *)
(* another time.  That befalls one request after a change of the           *)
(* serializer, whatever the requests, downloads, screens and changes of    *)
(* the cookie in between; the next carries the cookie that is stored.      *)
CookieMissedOnce == \A q, r \in missed : q = r

(* The HUD does not stay for ever, unless a request ended in one of those  *)
(* ways: a server that does not answer, and views and screens that go,     *)
(* included.                                                               *)
HudGoes == hud ~> \/ ~hud
                  \/ \E r \in Requests : request[r].showed /\ KeepsHud(r)

(* BaseViewController.m:59, when a screen disappears, "cancel the network  *)
(* requests of the current controller".                                    *)
CancelledOnDisappear == [][\A o \in Owners :
    o = visible /\ o # visible' =>
        \A r \in Requests :
            request[r].owner = o => request'[r].stage # "flying"]_netVars

=============================================================================
