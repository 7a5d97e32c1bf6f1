------------------------------ MODULE ErrorScreen ------------------------------
(***************************************************************************)
(* login.ErrorMessageScreen (chromeos/login/screen_error_message.js), the *)
(* offline message laid over the sign-in screen.  The browser reports the *)
(* network state (ErrorMessageScreen.updateState, registered through      *)
(* loginAddNetworkStateObserver) and answers the state requests that a    *)
(* Gaia frame error sends (ErrorMessageScreen.maybeRetry).  Showing the  *)
(* message activates its network drop-down ('offline-networks-list') and *)
(* hiding it deactivates it, through DropDown.setActive.                   *)
(*                                                                         *)
(* The message and the current screen fade with a CSS transition: each   *)
(* records                                                                 *)
(*   faded, hidden  its 'faded' and 'hidden' classes                      *)
(*   moving         a transition is running (started or reversed when    *)
(*                  'faded' changes on an element that is displayed; an  *)
(*                  element with 'hidden' is not displayed and does not  *)
(*                  animate)                                               *)
(*   listener       a webkitTransitionEnd listener 'f' is attached.  All   *)
(*                  the f's attached to one element do the same thing and *)
(*                  all fire on the same event, so one flag stands for   *)
(*                  any number of them.                                   *)
(* view is which of the three messages the classes show-offline-message, *)
(* show-captive-portal and show-proxy-error select.  current is           *)
(* Oobe.currentScreen.id, which this page never changes.  retries are the *)
(* frame errors whose network-state request the browser has not answered. *)
(*                                                                         *)
(* The Oobe object, the sign-in screen (doReload, scheduleRetry) and the  *)
(* browser are not in the repository; doReload and scheduleRetry change  *)
(* only the Gaia frame, which this model does not keep.  Texts, the      *)
(* network name and the guest link are left out.                          *)
(***************************************************************************)
EXTENDS DropDown

CONSTANTS
    OfflineList,    \* 'offline-networks-list', one of DropIds
    Screens,        \* the ids Oobe.currentScreen may have
    FrameErrors,    \* the error codes onFrameError may receive
    MaxRetries      \* bound on unanswered maybeRetry requests

VARIABLES msg, scr, view, current, retries

esVars == <<msg, scr, view, current, retries>>

\* NET_STATE, MANAGED_SCREENS and ERROR_REASONS.
OFFLINE == 0
ONLINE == 1
PORTAL == 2
NetStates == {OFFLINE, ONLINE, PORTAL}
MANAGED_SCREENS == {"gaia-signin"}
ProxyReasons == {"frame error:111", "frame error:130"}

\* The reason maybeRetry receives back: 'frame error:' + error.
FrameReason(e) == "frame error:" \o ToString(e)

\* Setting or clearing 'faded' on element e; a displayed element starts
\* (or reverses) its transition.
SetFaded(e, f) ==
    [e EXCEPT !.faded = f, !.moving = @ \/ (~e.hidden /\ e.faded # f)]

\* Clearing 'hidden' and 'faded' together: the element was either not
\* displayed, so nothing animates, or displayed, and the fade reverses.
Reveal(e) == [SetFaded(e, FALSE) EXCEPT !.hidden = FALSE]

\* Adding 'faded' and the listener f.
FadeOut(e) == [SetFaded(e, TRUE) EXCEPT !.listener = TRUE]

\* onBeforeShow: DropDown.setActive('offline-networks-list', true).
OnBeforeShow ==
    /\ active' = OfflineList
    /\ toBrowser' = Append(toBrowser, [kind |-> "show", arg |-> OfflineList])

\* onBeforeHide: DropDown.setActive('offline-networks-list', false), which
\* does nothing when another drop-down (or none) is active.
OnBeforeHide ==
    IF active = OfflineList
    THEN /\ active' = NoDrop
         /\ toBrowser' = Append(toBrowser, [kind |-> "hide", arg |-> NoDrop])
    ELSE UNCHANGED <<active, toBrowser>>

\* updateState_(state, network, reason): offline or behind a captive portal
\* on a managed screen shows the message, with the view the state and the
\* reason select, and fades the current screen out unless it already is;
\* otherwise a message not already fading is faded out, and the current
\* screen is shown again.  The 'proxy changed' reload goes to the Gaia
\* frame.
UpdateState(state, reason) ==
    IF state # ONLINE /\ current \in MANAGED_SCREENS
    THEN /\ OnBeforeShow
         /\ view' = CASE state # PORTAL       -> "offline"
                      [] reason \in ProxyReasons -> "proxy"
                      [] OTHER                -> "portal"
         /\ msg' = Reveal(msg)
         /\ scr' = IF scr.faded THEN scr ELSE FadeOut(scr)
    ELSE IF ~msg.faded
         THEN /\ OnBeforeHide
              /\ msg' = FadeOut(msg)
              /\ scr' = Reveal(scr)
              /\ UNCHANGED view
         ELSE UNCHANGED <<active, toBrowser, msg, scr, view>>

\* Mutant: the listener adds 'hidden' without checking 'faded'.
TransitionEndedUnchecked(e) ==
    [e EXCEPT !.moving = FALSE, !.listener = FALSE, !.hidden = @ \/ e.listener]

\* webkitTransitionEnd on element e: every f removes itself and, if the
\* element is still faded, hides it.
TransitionEnded(e) ==
    [e EXCEPT !.moving = FALSE, !.listener = FALSE,
              !.hidden = @ \/ (e.listener /\ e.faded)]

(***************************************************************************)
(* Actions.  Each leaves the drop-downs' own state alone.                  *)
(***************************************************************************)

\* The browser's network-state callback (also the answer to update()).
\* Its reasons other than a frame error ('update', 'proxy changed') only
\* decide the Gaia reload, so one stands for all.
NetworkState(state, reason) ==
    /\ UpdateState(state, reason)
    /\ UNCHANGED <<dd, focused, toPage, thrown, current, retries>>

\* ErrorMessageScreen.onFrameError(error) while navigator.onLine on a
\* managed screen: ask for the network state, to be answered to maybeRetry.
\* (Offline, or on another screen, it does nothing.)
OnFrameError(e) ==
    /\ current \in MANAGED_SCREENS /\ Len(retries) < MaxRetries
    /\ retries' = Append(retries, FrameReason(e))
    /\ UNCHANGED <<ddVars, msg, scr, view, current>>

\* ErrorMessageScreen.maybeRetry(state, network, reason): online on a
\* managed screen, updateState(PORTAL, network, reason) and scheduleRetry.
MaybeRetry(state) ==
    /\ retries # <<>>
    /\ retries' = Tail(retries)
    /\ IF state = ONLINE /\ current \in MANAGED_SCREENS
       THEN UpdateState(PORTAL, Head(retries))
       ELSE UNCHANGED <<active, toBrowser, msg, scr, view>>
    /\ UNCHANGED <<dd, focused, toPage, thrown, current>>

\* The transition of the message (e = "msg") or of the screen ends.
TransitionEnd(e) ==
    /\ IF e = "msg" THEN msg.moving ELSE scr.moving
    /\ msg' = IF e = "msg" THEN TransitionEnded(msg) ELSE msg
    /\ scr' = IF e = "scr" THEN TransitionEnded(scr) ELSE scr
    /\ UNCHANGED <<ddVars, view, current, retries>>

Elements == {"msg", "scr"}

\* The page as loaded: the message hidden and faded, the screen shown.
ESInit ==
    /\ msg = [faded |-> TRUE, hidden |-> TRUE, moving |-> FALSE, listener |-> FALSE]
    /\ scr = [faded |-> FALSE, hidden |-> FALSE, moving |-> FALSE, listener |-> FALSE]
    /\ view = "offline"
    /\ current \in Screens
    /\ retries = <<>>

ESNext ==
    \/ \E s \in NetStates : NetworkState(s, "update")
    \/ \E e \in FrameErrors : OnFrameError(e)
    \/ \E s \in NetStates : MaybeRetry(s)
    \/ \E e \in Elements : TransitionEnd(e)

Fade == [faded : BOOLEAN, hidden : BOOLEAN, moving : BOOLEAN, listener : BOOLEAN]
ESTypeOK ==
    /\ msg \in Fade /\ scr \in Fade
    /\ view \in {"offline", "portal", "proxy"}
    /\ current \in Screens
    /\ retries \in Seq({FrameReason(e) : e \in FrameErrors})

\* The sign-in screen and the offline message are never both hidden, so
\* the page is never blank: network reports that flap between offline
\* and online while the fades run leave webkitTransitionEnd listeners of
\* an earlier fade attached (updateState_), and a listener that fires
\* after the element was shown again must not hide it.
NeverBlank == ~(msg.hidden /\ scr.hidden)

================================================================================
