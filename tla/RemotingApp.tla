----------------------------- MODULE RemotingApp -----------------------------
(***************************************************************************)
(* The Chromoting "me2mom" web app (remoting/webapp/me2mom/remoting.js):  *)
(* the app-mode machine shared by the host side (tryShare, the host       *)
(* plugin's onStateChanged_ callback, the access-code countdown driven by *)
(* setInterval, cancelShare) and the client side (tryConnect and its      *)
(* callbacks, cancelConnect, disconnect).                                  *)
(*                                                                         *)
(* The page is single-threaded: each action is one whole event handler,   *)
(* run to completion.  The JavaScript heap and DOM the handlers touch are *)
(* the record app; the handlers are operators from app to app, so a call  *)
(* chain (a countdown tick that expires, cancels the share and stops the  *)
(* countdown) is their composition.  The environment -- the host plugin,  *)
(* the OAuth2 token, the timers and the user -- is the rest of the state  *)
(* and the actions that are not handlers.  Error messages, the DOM's      *)
(* styling and the debug log are left out.                                 *)
(***************************************************************************)
EXTENDS Integers, Sequences, SequencesExt, FiniteSets, ClientSession

CONSTANTS
    MaxHostPlugins,  \* bound on the host plugins tryShare creates
    MaxTimers,       \* bound on the setInterval calls
    MaxAttempts,     \* bound on the user's tryShare and tryConnect clicks
    Lifetime,        \* the positive access-code lifetime, in timer ticks
    MaxOverrun,      \* bound: ticks after accessCodeExpiresIn reaches 0
    MaxSessions,     \* bound on the ClientSessions startSession_ creates
    MaxClientPlugins,\* bound on the client plugins created
    PluginVersionOk, \* what isPluginVersionSupported_ may find
    PluginLoaded,    \* whether the created plugin may have connect()
    DoubleClicks,    \* the buttons ("share", "connect") the user may click again while the
                     \* first click's callbacks are pending
    Accounts,        \* the Google accounts the user may sign in with
    EmailLookupOk,   \* what the userinfo/email request may answer: 200 or not
    MaxLoads,        \* bound on the page loads after the first
    MaxCrashes       \* bound on the host plugin processes that crash in a page

ASSUME Lifetime > 0 /\ MaxOverrun > 0

\* remoting.AppMode, the leaf modes.
UNAUTHENTICATED == "auth"
HOME == "home"
CLIENT_UNCONNECTED == "client.unconnected"
CLIENT_CONNECTING == "client.connecting"
CLIENT_CONNECT_FAILED == "client.connect-failed"
CLIENT_SESSION_FINISHED == "client.session-finished"
HOST_WAITING_FOR_CODE == "host.waiting-for-code"
HOST_WAITING_FOR_CONNECTION == "host.waiting-for-connection"
HOST_SHARED == "host.shared"
HOST_SHARE_FAILED == "host.share-failed"
HOST_SHARE_FINISHED == "host.share-finished"
IN_SESSION == "in-session"

ClientModes == {CLIENT_UNCONNECTED, CLIENT_CONNECTING, CLIENT_CONNECT_FAILED,
                CLIENT_SESSION_FINISHED}
HostModes == {HOST_WAITING_FOR_CODE, HOST_WAITING_FOR_CONNECTION, HOST_SHARED,
              HOST_SHARE_FAILED, HOST_SHARE_FINISHED}
AppModes == {UNAUTHENTICATED, HOME, IN_SESSION} \cup ClientModes \cup HostModes

\* getMajorMode: the mode's first dotted component.
MajorMode(m) == IF m \in HostModes THEN "host"
                ELSE IF m \in ClientModes THEN "client" ELSE m

(***************************************************************************)
(* The host plugin (C++, outside src/) reports its state through          *)
(* onStateChanged.  Assumed order of its reports: it starts, requests and *)
(* receives an access code, a client connects, and it disconnects; it may *)
(* fail before a client connects and may be disconnected at any point.   *)
(* "NEW" is a plugin that has reported nothing yet.                       *)
(***************************************************************************)
HostSucc(s) ==
    CASE s = "NEW" -> {"STARTING", "ERROR", "DISCONNECTED"}
      [] s = "STARTING" -> {"REQUESTED_ACCESS_CODE", "ERROR", "DISCONNECTED"}
      [] s = "REQUESTED_ACCESS_CODE" -> {"RECEIVED_ACCESS_CODE", "ERROR", "DISCONNECTED"}
      [] s = "RECEIVED_ACCESS_CODE" -> {"CONNECTED", "ERROR", "DISCONNECTED"}
      [] s = "CONNECTED" -> {"DISCONNECTING", "DISCONNECTED"}
      [] s = "DISCONNECTING" -> {"DISCONNECTED"}
      [] s = "ERROR" -> {"DISCONNECTED"}
      [] s = "DISCONNECTED" -> {}

HostStates == {"NEW", "STARTING", "REQUESTED_ACCESS_CODE", "RECEIVED_ACCESS_CODE",
               "CONNECTED", "DISCONNECTING", "DISCONNECTED", "ERROR"}

HostPlugins == 1..MaxHostPlugins
Timers == 1..MaxTimers

\* Callbacks handed to asynchronous APIs and not yet run.
Callbacks == {"shareRefresh", "connectRefresh", "wcs", "xhr", "token"}

Sessions == 1..MaxSessions
ClientPlugins == 1..MaxClientPlugins

(***************************************************************************)
(* The client plugin's status reports (connectionInfoUpdate), assumed in  *)
(* this order: it connects, initializes and is connected, and the host    *)
(* closes the connection; it may fail while connecting, and an older      *)
(* plugin closes instead of failing.  "NEW" has reported nothing.         *)
(***************************************************************************)
ClientSucc(s) ==
    CASE s = "NEW" -> {"STATUS_CONNECTING", "STATUS_FAILED"}
      [] s = "STATUS_CONNECTING" ->
            {"STATUS_INITIALIZING", "STATUS_FAILED", "STATUS_CLOSED"}
      [] s = "STATUS_INITIALIZING" -> {"STATUS_CONNECTED", "STATUS_FAILED"}
      [] s = "STATUS_CONNECTED" -> {"STATUS_CLOSED"}
      [] OTHER -> {}

VARIABLES
    app,         \* the remoting.* globals and the DOM the handlers use
    hostState,   \* host plugin -> the state it last reported
    tokenValid,  \* remoting.oauth2 holds an access token that needs no refresh
    clientStatus,\* client plugin -> the status it last reported
    attempts,    \* the user's tryShare and tryConnect clicks so far
    login        \* what outlives a page load: the account remoting.oauth2 is
                 \* signed in to (None when signed out) and the email stored under
                 \* KEY_EMAIL_ in localStorage; the account whose token the
                 \* pending email request carries (None when there is none); and
                 \* the page loads so far

vars == <<app, hostState, tokenValid, clientStatus, attempts, login>>

\* Queue one more callback of kind k.
Defer(a, k) == [a EXCEPT !.pending[k] = @ + 1]

(***************************************************************************)
(* The handlers' call chains, as operators on app.                         *)
(***************************************************************************)

\* showShareError_(errorTag)
ShowShareError(a) == [a EXCEPT !.mode = HOST_SHARE_FAILED]

\* disableTimeoutCountdown_(): clearInterval of the countdown's interval;
\* the trailing updateTimeoutStyles_() only restyles once the timer is off.
DisableTimeoutCountdown(a) ==
    IF a.timerRunning
    THEN [a EXCEPT !.intervals = @ \ {a.accessCodeTimerId},
                   !.timerRunning = FALSE]
    ELSE a

\* remoting.cancelShare(): plugin.disconnect() on the element with
\* HOST_PLUGIN_ID, the first in the DOM; with no such element, or when
\* that plugin's process has crashed, the call throws, which is caught and
\* shown as a share error.  The plugin's reaction to disconnect() is its
\* own later state reports.
CancelShare(a) ==
    LET a1 == [a EXCEPT !.lastShareWasCancelled = TRUE]
        a2 == IF a1.hostEmbeds = <<>> \/ Head(a1.hostEmbeds) \in a1.crashed
              THEN ShowShareError(a1) ELSE a1
    IN DisableTimeoutCountdown(a2)

\* updateTimeoutStyles_(): with the countdown running and expired, cancels
\* the share and answers FALSE; the rest restyles the countdown.
UpdateTimeoutStylesNoExpiry(a) == [app |-> a, ok |-> TRUE]
UpdateTimeoutStyles(a) ==
    IF a.timerRunning /\ a.accessCodeExpiresIn <= 0
    THEN [app |-> CancelShare(a), ok |-> FALSE]
    ELSE [app |-> a, ok |-> TRUE]

\* remoting.updateAccessCodeTimeoutElement_()
UpdateAccessCodeTimeoutElement(a) ==
    LET r == UpdateTimeoutStyles(a)
    IN IF r.ok THEN r.app ELSE DisableTimeoutCountdown(r.app)

\* The body of remoting.tryShare() once the access token is fresh: show
\* the waiting mode, enable the cancel button, stop any countdown, and
\* append a new host plugin to the DOM and start it.
StartShare(a) ==
    LET a1 == DisableTimeoutCountdown(
                  [a EXCEPT !.mode = HOST_WAITING_FOR_CODE,
                            !.cancelEnabled = TRUE])
    IN [a1 EXCEPT !.hostEmbeds = Append(@, a.nextHost + 1),
                  !.nextHost = @ + 1]

\* The DISCONNECTED branch of onStateChanged_(): unless a share error is
\* shown, leave the share (home after a cancel), and remove the element
\* with HOST_PLUGIN_ID from the DOM.
OnDisconnectedKeepMode(a) ==
    [a EXCEPT !.mode = IF a.mode = HOST_SHARE_FAILED THEN @
                       ELSE IF a.lastShareWasCancelled THEN @
                       ELSE HOST_SHARE_FINISHED,
              !.hostEmbeds = Tail(@)]
OnDisconnected(a) ==
    [a EXCEPT !.mode = IF a.mode = HOST_SHARE_FAILED THEN @
                       ELSE IF a.lastShareWasCancelled THEN HOME
                       ELSE HOST_SHARE_FINISHED,
              !.hostEmbeds = Tail(@)]

\* onStateChanged_() with st the state of the element with HOST_PLUGIN_ID
\* (the first host plugin in the DOM, whichever plugin reported) and
\* lifetime its accessCodeLifetime.
OnStateChanged(a, st, lifetime) ==
    CASE st = "RECEIVED_ACCESS_CODE" /\ lifetime > 0 ->
            LET t == a.nextTimer + 1
                a1 == [a EXCEPT !.accessCodeExpiresIn = lifetime,
                                !.accessCodeTimerId = t,
                                !.intervals = @ \cup {t},
                                !.nextTimer = t,
                                !.timerRunning = TRUE]
                a2 == UpdateTimeoutStyles(UpdateAccessCodeTimeoutElement(a1)).app
            IN [a2 EXCEPT !.mode = HOST_WAITING_FOR_CONNECTION]
      [] st = "RECEIVED_ACCESS_CODE" ->
            CancelShare([a EXCEPT !.accessCodeExpiresIn = lifetime])
      [] st = "CONNECTED" ->
            DisableTimeoutCountdown([a EXCEPT !.mode = HOST_SHARED])
      [] st = "DISCONNECTED" -> OnDisconnected(a)
      [] st = "ERROR" -> ShowShareError(a)
      [] OTHER -> a

(***************************************************************************)
(* Client side.  A TypeError (a.exc) ends the handler that raised it: the *)
(* rest of every chain it propagates through is skipped.                  *)
(***************************************************************************)

\* The end of an event handler: an uncaught exception goes to the console.
Settle(a) == [a EXCEPT !.exc = FALSE]

\* showConnectError_(errorTag)
ShowConnectErrorNoDisconnect(a) ==
    [a EXCEPT !.session = None, !.mode = CLIENT_CONNECT_FAILED]
ShowConnectError(a) ==
    LET a1 == IF a.session # None THEN Disconnect(a, a.session) ELSE a
    IN IF a1.exc THEN a1
       ELSE [a1 EXCEPT !.session = None, !.mode = CLIENT_CONNECT_FAILED]

\* The CLOSED-after-CONNECTED branch of onClientStateChange_: the host
\* closed the connection.
OnClosedByHostNoMode(a) ==
    LET a1 == RemovePlugin(a, a.session)
    IN IF a1.exc THEN a1 ELSE [a1 EXCEPT !.session = None]
OnClosedByHost(a) ==
    LET a1 == RemovePlugin(a, a.session)
    IN IF a1.exc THEN a1
       ELSE [a1 EXCEPT !.session = None, !.mode = CLIENT_SESSION_FINISHED]

\* onClientStateChange_(oldState): the callback every ClientSession is
\* built with; it acts on the state of remoting.session, not on the state
\* of the session that changed.
OnClientStateChange(a, old) ==
    IF a.session = None THEN a
    ELSE LET st == a.sessions[a.session].state
         IN CASE st \in {"CREATED", "CONNECTING", "INITIALIZING"} -> a
              [] st = "CONNECTED" -> [a EXCEPT !.mode = IN_SESSION]
              [] st = "CLOSED" /\ old = "CONNECTED" -> OnClosedByHost(a)
              [] OTHER -> ShowConnectError(a)

\* The onStateChange call that ends a ClientSession method's setState_.
StateChanged(a) ==
    IF a.stateChange = None THEN a
    ELSE OnClientStateChange([a EXCEPT !.stateChange = None], a.stateChange)

\* The callWithToken callback of startSession_: it creates the plugin of
\* whatever remoting.session is when it runs.
WithToken(a, versionOk, loaded) ==
    IF a.session = None THEN [a EXCEPT !.exc = TRUE]
    ELSE StateChanged(
           CreatePluginAndConnect([a EXCEPT !.nextPlugin = @ + 1], a.session,
                                  a.nextPlugin + 1, versionOk, loaded))

\* startSession_(), fresh telling whether callWithToken has a token at hand
\* (it then calls back at once) or must refresh it first.
StartSession(a, fresh, versionOk, loaded) ==
    LET s == a.nextSession + 1
        a1 == [a EXCEPT !.entry = "", !.nextSession = s, !.session = s,
                        !.sessions[s] = NewSession]
    IN IF fresh THEN WithToken(a1, versionOk, loaded) ELSE Defer(a1, "token")

\* parseServerResponse_(xhr): found is a 200 answer naming the host.
ParseServerResponse(a, found, fresh, versionOk, loaded) ==
    LET a1 == [a EXCEPT !.supportHostsXhr = FALSE]
    IN IF found THEN StartSession(a1, fresh, versionOk, loaded)
       ELSE ShowConnectError(a1)

\* remoting.tryConnectWithWcs(): an access code of the wrong length is an
\* error; otherwise resolveSupportId sends the support-hosts request.
TryConnectWithWcs(a) ==
    IF a.entry # "code" THEN ShowConnectError(a)
    ELSE Defer([a EXCEPT !.mode = CLIENT_CONNECTING, !.supportHostsXhr = TRUE],
               "xhr")

\* remoting.cancelConnect(): abort the support-hosts request (its callback
\* is then not run), remove the session's plugin and go home.
CancelConnect(a) ==
    LET a1 == IF a.supportHostsXhr
              THEN [a EXCEPT !.supportHostsXhr = FALSE, !.pending.xhr = @ - 1]
              ELSE a
        a2 == IF a1.session # None THEN RemovePlugin(a1, a1.session) ELSE a1
    IN IF a2.exc THEN a2 ELSE [a2 EXCEPT !.session = None, !.mode = HOME]

(***************************************************************************)
(* Page load: remoting.init().  The globals the handlers read before      *)
(* writing them are undefined, which the handlers' tests read as false.  *)
(* Whether the cancel button starts enabled is up to the page's markup.  *)
(* Host mode is taken to be supported (not a Chromebook).                 *)
(***************************************************************************)

\* getAppStartupMode(): the sign-in screen unless oauth2 is authenticated.
StartupMode(u) == IF u = None THEN UNAUTHENTICATED ELSE HOME

\* The globals and DOM of a freshly loaded page, in the startup mode.
LoadedApp(u, enabled) ==
    [mode |-> StartupMode(u),
     lastShareWasCancelled |-> FALSE,
     timerRunning |-> FALSE,
     accessCodeTimerId |-> None,
     accessCodeExpiresIn |-> 0,
     intervals |-> {},
     nextTimer |-> 0,
     hostEmbeds |-> <<>>,
     nextHost |-> 0,
     crashed |-> {},
     cancelEnabled |-> enabled,
     pending |-> [k \in Callbacks |-> 0],
     session |-> None,
     sessions |-> [s \in Sessions |-> None],
     nextSession |-> 0,
     plugins |-> [p \in ClientPlugins |-> None],
     nextPlugin |-> 0,
     clientEmbeds |-> <<>>,
     supportHostsXhr |-> FALSE,
     entry |-> "",
     stateChange |-> None,
     exc |-> FALSE]

\* refreshEmail_(): with no email stored and oauth2 authenticated,
\* callWithToken(retrieveEmail_) sends the userinfo/email request with
\* the signed-in account's token.
RefreshEmail(u, em) == IF em = None /\ u # None THEN u ELSE None

\* The first load: a signed-in user, with or without the email stored by
\* an earlier visit, or a user who is not signed in.
Init ==
    /\ \E u \in Accounts \cup {None}, enabled \in BOOLEAN :
         /\ app = LoadedApp(u, enabled)
         /\ \E em \in {None, u} :
              login = [account |-> u, email |-> em,
                       lookup |-> RefreshEmail(u, em), loads |-> 0]
         /\ tokenValid \in IF u = None THEN {FALSE} ELSE BOOLEAN
    /\ hostState = [i \in HostPlugins |-> "NEW"]
    /\ clientStatus = [p \in ClientPlugins |-> "NEW"]
    /\ attempts = 0

(***************************************************************************)
(* Host side.                                                              *)
(***************************************************************************)

\* No callback of an earlier share or connect click is waiting to run.
Idle(kinds) == \A k \in kinds : app.pending[k] = 0

\* What a token refresh can leave: signed out, it always fails.
Refreshed == IF login.account = None THEN {FALSE} ELSE BOOLEAN

\* remoting.tryShare() from the home screen: with a token that needs a
\* refresh it only asks for one, with the rest of tryShare as callback.
TryShare ==
    /\ app.mode = HOME
    /\ "share" \in DoubleClicks \/ Idle({"shareRefresh"})
    /\ attempts < MaxAttempts
    /\ attempts' = attempts + 1
    /\ LET a == [app EXCEPT !.lastShareWasCancelled = FALSE]
       IN \/ /\ tokenValid
             /\ app.nextHost < MaxHostPlugins
             /\ app' = StartShare(a)
          \/ /\ ~tokenValid
             /\ app' = Defer(a, "shareRefresh")
    /\ UNCHANGED <<hostState, tokenValid, clientStatus, login>>

\* The refreshAccessToken callback of tryShare: a failed refresh shows a
\* share error (and throws); a successful one runs tryShare again.
ShareRefreshDone ==
    /\ app.pending.shareRefresh > 0
    /\ tokenValid' \in Refreshed
    /\ LET a == [app EXCEPT !.pending.shareRefresh = @ - 1]
       IN \/ ~tokenValid' /\ app' = ShowShareError(a)
          \/ /\ tokenValid'
             /\ a.nextHost < MaxHostPlugins
             /\ app' = StartShare([a EXCEPT !.lastShareWasCancelled = FALSE])
    /\ UNCHANGED <<hostState, clientStatus, attempts, login>>

\* Host plugin i, in the DOM and alive, reports its next state s:
\* onStateChanged_ runs on the state of the first host plugin in the DOM.
\* When that one has crashed, reading its state throws or gives undefined,
\* which no branch of onStateChanged_ matches: either way nothing changes.
HostPluginEvent(i) ==
    /\ i \in Range(app.hostEmbeds) \ app.crashed
    /\ \E s \in HostSucc(hostState[i]), lifetime \in {0, Lifetime} :
         LET first == Head(app.hostEmbeds)
             st == IF first = i THEN s ELSE hostState[first]
         IN /\ hostState' = [hostState EXCEPT ![i] = s]
            /\ (st = "RECEIVED_ACCESS_CODE" /\ lifetime > 0) =>
                   app.nextTimer < MaxTimers
            /\ app' = IF first \in app.crashed THEN app
                      ELSE OnStateChanged(app, st, lifetime)
    /\ UNCHANGED <<tokenValid, clientStatus, attempts, login>>

\* The process of host plugin i crashes: the element stays in the DOM, it
\* reports nothing more, and calls on it throw.
HostCrash(i) ==
    /\ i \in Range(app.hostEmbeds) \ app.crashed
    /\ Cardinality(app.crashed) < MaxCrashes
    /\ app' = [app EXCEPT !.crashed = @ \cup {i}]
    /\ UNCHANGED <<hostState, tokenValid, clientStatus, attempts, login>>

\* Interval t fires remoting.decrementAccessCodeTimeout_().
Tick(t) ==
    /\ t \in app.intervals
    /\ app.accessCodeExpiresIn > -MaxOverrun
    /\ app' = UpdateAccessCodeTimeoutElement(
                  [app EXCEPT !.accessCodeExpiresIn = @ - 1])
    /\ UNCHANGED <<hostState, tokenValid, clientStatus, attempts, login>>

(***************************************************************************)
(* Client side.                                                            *)
(***************************************************************************)

\* Typing in the access-code entry: a code of the right length or not.
EnterAccessCode ==
    /\ app.mode = CLIENT_UNCONNECTED
    /\ \E v \in {"code", "short"} : app' = [app EXCEPT !.entry = v]
    /\ UNCHANGED <<hostState, tokenValid, clientStatus, attempts, login>>

\* remoting.tryConnect() from the connect button: it enables the cancel
\* button and either refreshes the token first or goes on with
\* tryConnectWithAccessToken, whose WcsLoader calls back when loaded.
TryConnect ==
    /\ app.mode = CLIENT_UNCONNECTED
    /\ "connect" \in DoubleClicks \/ Idle({"connectRefresh", "wcs", "xhr", "token"})
    /\ attempts < MaxAttempts
    /\ attempts' = attempts + 1
    /\ app' = Defer([app EXCEPT !.cancelEnabled = TRUE],
                    IF tokenValid THEN "wcs" ELSE "connectRefresh")
    /\ UNCHANGED <<hostState, tokenValid, clientStatus, login>>

\* The refreshAccessToken callback of tryConnect.
ConnectRefreshDone ==
    /\ app.pending.connectRefresh > 0
    /\ tokenValid' \in Refreshed
    /\ LET a == [app EXCEPT !.pending.connectRefresh = @ - 1]
       IN app' = IF tokenValid' THEN Defer(a, "wcs")
                 ELSE Settle(ShowConnectError(a))
    /\ UNCHANGED <<hostState, clientStatus, attempts, login>>

\* The WcsLoader calls remoting.tryConnectWithWcs.
WcsReady ==
    /\ app.pending.wcs > 0
    /\ app' = Settle(TryConnectWithWcs([app EXCEPT !.pending.wcs = @ - 1]))
    /\ UNCHANGED <<hostState, tokenValid, clientStatus, attempts, login>>

\* A support-hosts response reaches parseServerResponse_.
XhrDone ==
    /\ app.pending.xhr > 0
    /\ \E found \in BOOLEAN, versionOk \in PluginVersionOk, loaded \in PluginLoaded :
         /\ found => app.nextSession < MaxSessions
         /\ found /\ tokenValid => app.nextPlugin < MaxClientPlugins
         /\ app' = Settle(ParseServerResponse([app EXCEPT !.pending.xhr = @ - 1],
                                              found, tokenValid, versionOk, loaded))
    /\ UNCHANGED <<hostState, tokenValid, clientStatus, attempts, login>>

\* callWithToken has refreshed the token and runs startSession_'s callback.
TokenReady ==
    /\ app.pending.token > 0
    /\ login.account # None
    /\ app.nextPlugin < MaxClientPlugins
    /\ tokenValid' = TRUE
    /\ \E versionOk \in PluginVersionOk, loaded \in PluginLoaded :
         app' = Settle(WithToken([app EXCEPT !.pending.token = @ - 1],
                                 versionOk, loaded))
    /\ UNCHANGED <<hostState, clientStatus, attempts, login>>

\* Client plugin p, connected and in the DOM, reports its next status:
\* its connectionInfoUpdate runs the callback of the session it was
\* created for.
ClientPluginEvent(p) ==
    /\ p \in Range(app.clientEmbeds)
    /\ app.plugins[p].connected
    /\ \E st \in ClientSucc(clientStatus[p]) :
         LET status == [clientStatus EXCEPT ![p] = st]
         IN /\ clientStatus' = status
            /\ app' = Settle(StateChanged(ConnectionInfoUpdateCallback(
                                 app, app.plugins[p].owner, status)))
    /\ UNCHANGED <<hostState, tokenValid, attempts, login>>

\* remoting.disconnect() from the session toolbar.
DisconnectSession ==
    /\ app.mode = IN_SESSION
    /\ app.session # None
    /\ LET a == Disconnect(app, app.session)
       IN app' = IF a.exc THEN Settle(a)
                 ELSE [a EXCEPT !.session = None,
                                !.mode = CLIENT_SESSION_FINISHED]
    /\ UNCHANGED <<hostState, tokenValid, clientStatus, attempts, login>>

ClientCallback ==
    \/ ConnectRefreshDone \/ WcsReady \/ XhrDone \/ TokenReady
    \/ \E p \in ClientPlugins : ClientPluginEvent(p)

(***************************************************************************)
(* The user and the token.  The page's markup is not in the repository:   *)
(* the modes in which each control is assumed to be shown are those the   *)
(* mode names describe.                                                    *)
(***************************************************************************)
CancelModes == {CLIENT_CONNECTING, HOST_WAITING_FOR_CODE,
                HOST_WAITING_FOR_CONNECTION, HOST_SHARED}

\* remoting.cancelPendingOperation(), from the cancel button while enabled.
CancelPendingOperation ==
    /\ app.cancelEnabled
    /\ app.mode \in CancelModes
    /\ LET a == [app EXCEPT !.cancelEnabled = FALSE]
       IN app' = CASE MajorMode(a.mode) = "host" -> CancelShare(a)
                   [] MajorMode(a.mode) = "client" -> Settle(CancelConnect(a))
                   [] OTHER -> a
    /\ UNCHANGED <<hostState, tokenValid, clientStatus, attempts, login>>

\* The OK button of a finished or failed share or connection: setMode(HOME).
Dismiss ==
    /\ app.mode \in {HOST_SHARE_FAILED, HOST_SHARE_FINISHED,
                     CLIENT_CONNECT_FAILED, CLIENT_SESSION_FINISHED}
    /\ app' = [app EXCEPT !.mode = HOME]
    /\ UNCHANGED <<hostState, tokenValid, clientStatus, attempts, login>>

\* The home screen's button for connecting to a host.
GoClient ==
    /\ app.mode = HOME
    /\ app' = [app EXCEPT !.mode = CLIENT_UNCONNECTED]
    /\ UNCHANGED <<hostState, tokenValid, clientStatus, attempts, login>>

\* Back from the access-code screen to the home screen: setMode(HOME).
GoHome ==
    /\ app.mode = CLIENT_UNCONNECTED
    /\ app' = [app EXCEPT !.mode = HOME]
    /\ UNCHANGED <<hostState, tokenValid, clientStatus, attempts, login>>

\* The access token expires.
TokenExpires ==
    /\ tokenValid
    /\ tokenValid' = FALSE
    /\ UNCHANGED <<app, hostState, clientStatus, attempts, login>>

(***************************************************************************)
(* Signing in and out, and the email lookup.  The OAuth2 flow is not in  *)
(* the repository: signing in leaves the page and comes back to a fresh  *)
(* load of it, which runs remoting.init(); the user may also reload the  *)
(* page at any time.  A load loses the page's globals, plugins, timers   *)
(* and pending requests, and keeps localStorage and the OAuth2 tokens.   *)
(***************************************************************************)

\* remoting.clearOAuth2(), from the sign-out link of the home screen:
\* forget the tokens, remove the stored email, show the sign-in screen.
\* A pending email request is not aborted.
ClearOAuth2 ==
    /\ app.mode = HOME
    /\ login.account # None
    /\ login' = [login EXCEPT !.account = None, !.email = None]
    /\ tokenValid' = FALSE
    /\ app' = [app EXCEPT !.mode = UNAUTHENTICATED]
    /\ UNCHANGED <<hostState, clientStatus, attempts>>

\* The onResponse callback of retrieveEmail_: a 200 answer stores the
\* email of the account whose token the request carried (setEmail); any
\* other status only shows '???'.
EmailAnswer ==
    /\ login.lookup # None
    /\ \E ok \in EmailLookupOk :
         login' = [login EXCEPT !.lookup = None,
                                !.email = IF ok THEN login.lookup ELSE @]
    /\ UNCHANGED <<app, hostState, tokenValid, clientStatus, attempts>>

\* A page load: from the sign-in screen, signed in to any account (or
\* still not); elsewhere a reload, signed in as before.
LoadPage ==
    /\ login.loads < MaxLoads
    /\ \E u \in IF app.mode = UNAUTHENTICATED THEN Accounts \cup {None}
                 ELSE {login.account},
          enabled \in BOOLEAN :
         /\ app' = LoadedApp(u, enabled)
         /\ login' = [login EXCEPT !.account = u,
                                    !.lookup = RefreshEmail(u, login.email),
                                    !.loads = @ + 1]
         /\ tokenValid' = IF u = login.account THEN tokenValid ELSE u # None
    /\ hostState' = [i \in HostPlugins |-> "NEW"]
    /\ clientStatus' = [p \in ClientPlugins |-> "NEW"]
    /\ UNCHANGED attempts

HostCallback ==
    \/ ShareRefreshDone
    \/ \E i \in HostPlugins : HostPluginEvent(i)
    \/ \E i \in HostPlugins : HostCrash(i)
    \/ \E t \in Timers : Tick(t)

Next ==
    \/ TryShare \/ HostCallback
    \/ EnterAccessCode \/ TryConnect \/ ClientCallback \/ DisconnectSession
    \/ CancelPendingOperation \/ Dismiss \/ GoClient \/ GoHome \/ TokenExpires
    \/ ClearOAuth2 \/ EmailAnswer \/ LoadPage

\* setInterval fires each live interval every second.
Fairness == \A t \in Timers : WF_vars(Tick(t))

Spec == Init /\ [][Next]_vars /\ Fairness

(***************************************************************************)
(* Properties.                                                             *)
(***************************************************************************)

TypeOK ==
    /\ app.mode \in AppModes
    /\ app.lastShareWasCancelled \in BOOLEAN
    /\ app.timerRunning \in BOOLEAN
    /\ app.accessCodeTimerId \in Timers \cup {None}
    /\ app.accessCodeExpiresIn \in -MaxOverrun..Lifetime
    /\ app.intervals \subseteq Timers
    /\ app.hostEmbeds \in Seq(HostPlugins)
    /\ app.crashed \subseteq HostPlugins
    /\ app.cancelEnabled \in BOOLEAN
    /\ app.pending \in [Callbacks -> Nat]
    /\ app.session \in Sessions \cup {None}
    /\ app.sessions \in [Sessions -> [state : States, plugin : ClientPlugins \cup {None}]
                                      \cup {None}]
    /\ app.plugins \in [ClientPlugins -> [owner : Sessions, connected : BOOLEAN]
                                         \cup {None}]
    /\ app.clientEmbeds \in Seq(ClientPlugins)
    /\ app.supportHostsXhr \in BOOLEAN
    /\ app.entry \in {"", "code", "short"}
    /\ app.stateChange \in States \cup {None}
    /\ app.exc \in BOOLEAN
    /\ hostState \in [HostPlugins -> HostStates]
    /\ tokenValid \in BOOLEAN
    /\ attempts \in 0..MaxAttempts
    /\ clientStatus \in [ClientPlugins -> PluginStatuses \cup {"NEW"}]
    /\ login \in [account : Accounts \cup {None}, email : Accounts \cup {None},
                  lookup : Accounts \cup {None}, loads : 0..MaxLoads]

\* getEmail(): "The email address associated with the auth credentials".
\* tryShare hands it to the host plugin's connect and startSession_ to the
\* ClientSession ("email must be non-NULL to get here"): whenever a share
\* or a client session starts, the stored email is the signed-in
\* account's, whatever the email request answered and whenever.
EmailOfSignedInAccount ==
    [][app'.nextHost > app.nextHost \/ app'.nextSession > app.nextSession =>
           login.email = login.account]_vars

\* onStateChanged_ (DISCONNECTED): "If an error is being displayed, then
\* the plugin should not be able to hide it by setting the state.  Errors
\* must be dismissed by the user clicking OK".  No host plugin state report
\* takes the app out of host.share-failed.
ShareErrorNotHiddenByPlugin ==
    [][\A i \in HostPlugins :
          HostPluginEvent(i) /\ app.mode = HOST_SHARE_FAILED =>
              app'.mode = HOST_SHARE_FAILED]_vars

\* The host side's countdown runs only while there is a host plugin to
\* cancel: cancelShare, which the countdown calls on expiry, disconnects
\* "the" host plugin, and onStateChanged_ removes that plugin on
\* DISCONNECTED.
CountdownNeedsPlugin == app.timerRunning => app.hostEmbeds # <<>>

\* Every countdown interval the page has started can still be cleared:
\* disableTimeoutCountdown_ clears remoting.accessCodeTimerId only, so an
\* interval whose id was overwritten by a later RECEIVED_ACCESS_CODE report
\* (onStateChanged_) keeps decrementing the countdown for ever.
IntervalTracked == app.intervals \subseteq {app.accessCodeTimerId}

\* A running countdown is eventually stopped: the setInterval ticks count
\* accessCodeExpiresIn down until updateTimeoutStyles_ cancels the share
\* and disableTimeoutCountdown_ clears the interval.
CountdownEnds == app.timerRunning ~> ~app.timerRunning

\* The app shows host.shared only while the host plugin that
\* onStateChanged_ reads (the first with HOST_PLUGIN_ID) is connected or
\* disconnecting: cancelShare, the countdown and the other plugins'
\* reports do not leave the shared screen up after the plugin is gone.
SharedOnlyWhileConnected ==
    app.mode = HOST_SHARED =>
        /\ app.hostEmbeds # <<>>
        /\ hostState[Head(app.hostEmbeds)] \in {"CONNECTED", "DISCONNECTING"}

\* The callbacks of a share or a connect attempt (token refreshes, the
\* WCS loader, the support-hosts response, callWithToken, the plugins'
\* reports, the countdown) change the app mode only while the app is
\* still on that side: host callbacks from home or a host mode, client
\* callbacks from a client mode or a session.  The user leaving a screen
\* abandons what it started.
CallbacksKeepToTheirSide ==
    [][/\ HostCallback /\ app'.mode # app.mode => app.mode \in HostModes \cup {HOME}
       /\ ClientCallback /\ app'.mode # app.mode =>
              app.mode \in ClientModes \cup {IN_SESSION}]_vars

\* remoting.cancelConnect, "Cancel an incomplete connect operation": the
\* cancel button in client.connecting always takes the app home.
CancelConnectGoesHome ==
    [][CancelPendingOperation /\ app.mode = CLIENT_CONNECTING => app'.mode = HOME]_vars

\* Every client plugin in the page belongs to remoting.session: the
\* plugins of sessions that ended, failed or were cancelled are removed
\* (removePlugin, from showConnectError_, cancelConnect, disconnect and
\* onClientStateChange_), so no stale plugin keeps connecting.
PluginsBelongToSession ==
    \A p \in Range(app.clientEmbeds) : app.plugins[p].owner = app.session

\* The app is in-session only while remoting.session is connected: every
\* way a session ends (host closes, failure, disconnect, cancel) leaves
\* in-session.
InSessionOnlyWhileConnected ==
    app.mode = IN_SESSION =>
        /\ app.session # None
        /\ app.sessions[app.session].state = "CONNECTED"

=============================================================================
