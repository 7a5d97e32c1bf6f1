------------------------------ MODULE MobileSetup ------------------------------
(***************************************************************************)
(* mobile.MobileSetup (mobile_setup.js), the page that walks a ChromeOS   *)
(* device through mobile plan activation.  The browser (C++, not in this  *)
(* repository) runs the activation and reports each state with           *)
(* MobileSetup.deviceStateChanged; on SHOWING_PAYMENT the page loads the *)
(* carrier's payment page into the 'paymentForm' frame, directly or      *)
(* through the extension's redirect page, and listens to the messages    *)
(* that page posts (window 'message' events).                             *)
(*                                                                         *)
(* ms is the MobileSetup singleton:                                        *)
(*   initialized, state, paymentShown   initialized_, state_, payment_shown_ *)
(*   info        deviceInfo_ (None until the first SHOWING_PAYMENT)       *)
(*   listener    a 'load' listener of setupPaymentFrameListener_ is on   *)
(*               the frame (they all do the same, so one flag)           *)
(*   loading     the frame has been navigated and its load is to come    *)
(*   hidden      the 'hidden' class of the page's parts                   *)
(* toBrowser are the chrome.send calls, each with the origin of the      *)
(* message that caused it; thrown that a handler threw.                   *)
(*                                                                         *)
(* URLs and origins are strings, kept as sequences of characters so that *)
(* the origin check compares them as the code does.  Texts, the progress *)
(* drawing and the messages the page posts to the frame (device info,    *)
(* postFrame) are left out: they change nothing the page keeps.          *)
(***************************************************************************)
EXTENDS Integers, Sequences, SequencesExt

CONSTANTS
    None,
    ActivationStates,   \* the states the browser may report
    PaymentUrl,         \* deviceInfo.payment_url, as characters
    Origins,            \* the origins windows may post messages from
    Statuses,           \* the transaction statuses a message may carry
    MaxSends            \* bound on chrome.send calls

VARIABLES ms, toBrowser, thrown

vars == <<ms, toBrowser, thrown>>

\* PLAN_ACTIVATION_* and EXTENSION_PAGE_URL.
PAGE_LOADING == -1
START == 0
TRYING_OTASP == 1
RECONNECTING_OTASP_TRY == 2
INITIATING_ACTIVATION == 3
RECONNECTING == 4
SHOWING_PAYMENT == 5
DELAY_OTASP == 6
START_OTASP == 7
OTASP == 8
RECONNECTING_OTASP == 9
DONE == 10
ERROR == 255
EXTENSION_PAGE_URL == <<"e", "x", "t">>

\* The cases of changeState_ that show the connecting or activating
\* status (their texts differ, their classes do not).
Working == {PAGE_LOADING, START, DELAY_OTASP, START_OTASP, RECONNECTING,
            RECONNECTING_OTASP_TRY, RECONNECTING_OTASP,
            TRYING_OTASP, INITIATING_ACTIVATION, OTASP}

Parts == {"paymentForm", "finalStatus", "systemStatus", "canvas",
          "carrierPage", "closeButton"}

\* classList.add('hidden') on the parts in H and remove on those in S.
Classes(h, H, S) == [p \in Parts |-> IF p \in H THEN TRUE ELSE IF p \in S THEN FALSE ELSE h[p]]

\* loadPaymentFrame_(deviceInfo): store it; with post data the frame goes
\* to the redirect page, else a load listener is added and the frame goes
\* to payment_url.
LoadPaymentFrame(m, di) ==
    [m EXCEPT !.info = di, !.loading = TRUE,
              !.listener = @ \/ ~di.post_data]

\* changeState_(deviceInfo): nothing if the state is the current one;
\* otherwise the classes of the new state's case, then state_ = new_state.
ChangeState(m, di) ==
    LET s == di.state
        h == m.hidden
        m1 == CASE s \in Working ->
                     [m EXCEPT !.hidden = Classes(h, {"paymentForm", "finalStatus"},
                                   {"systemStatus", "canvas", "carrierPage"})]
                [] s = SHOWING_PAYMENT ->
                     [LoadPaymentFrame(m, di) EXCEPT
                        !.hidden = Classes(h, {"paymentForm", "finalStatus"},
                                           {"systemStatus", "canvas"}),
                        !.paymentShown = TRUE]
                [] OTHER ->   \* DONE and ERROR
                     [m EXCEPT !.hidden = Classes(h,
                        {"systemStatus", "canvas", "carrierPage"}
                          \cup (IF m.paymentShown THEN {} ELSE {"closeButton"}),
                        {"paymentForm", "finalStatus"}
                          \cup (IF m.paymentShown THEN {"closeButton"} ELSE {}))]
    IN IF m.state = s THEN m ELSE [m1 EXCEPT !.state = s]

\* The origin test of onMessageReceived_: the origin is accepted when it is
\* the first characters of payment_url, or the extension's URL.
Accepted(origin, info) ==
    \/ origin = SubSeq(info.payment_url, 1, Len(origin))
    \/ origin = EXTENSION_PAGE_URL

Send(kind, arg, origin) == Append(toBrowser, [kind |-> kind, arg |-> arg, from |-> origin])

(***************************************************************************)
(* Actions.                                                                *)
(***************************************************************************)

\* MobileSetup.loadPage: initialize('paymentForm', ...) on the singleton,
\* whose changeState_(PAGE_LOADING) finds state_ already -1, then
\* chrome.send('startActivation').  A second call only logs.
Initialize ==
    /\ ~ms.initialized /\ Len(toBrowser) < MaxSends
    /\ ms' = [ms EXCEPT !.initialized = TRUE]
    /\ toBrowser' = Send("startActivation", None, None)
    /\ UNCHANGED thrown

\* MobileSetup.deviceStateChanged(deviceInfo) from the browser.
DeviceStateChanged ==
    /\ ms.initialized
    /\ \E s \in ActivationStates, post \in BOOLEAN :
         ms' = ChangeState(ms, [state |-> s, payment_url |-> PaymentUrl, post_data |-> post])
    /\ UNCHANGED <<toBrowser, thrown>>

\* The frame's load event: each listener flips the payment page into view
\* if the state is still SHOWING_PAYMENT.
FrameLoad ==
    /\ ms.loading
    /\ ms' = [ms EXCEPT !.loading = FALSE,
                 !.hidden = IF ms.listener /\ ms.state = SHOWING_PAYMENT
                            THEN Classes(@, {"finalStatus", "systemStatus", "canvas", "carrierPage"},
                                         {"paymentForm"})
                            ELSE @]
    /\ UNCHANGED <<toBrowser, thrown>>

\* onMessageReceived_(e): reading deviceInfo_.payment_url throws before the
\* first SHOWING_PAYMENT; a message from an origin the test rejects is
\* ignored; requestDeviceInfoMsg only posts back; framePostReady adds a
\* load listener (and posts back); reportTransactionStatusMsg hides the
\* payment form and sends setTransactionStatus.
MessageReceived(origin, type, status) ==
    /\ ms.initialized
    /\ IF ms.info = None
       THEN thrown' = TRUE /\ UNCHANGED <<ms, toBrowser>>
       ELSE IF ~Accepted(origin, ms.info) \/ type = "requestDeviceInfoMsg"
       THEN UNCHANGED <<ms, toBrowser, thrown>>
       ELSE IF type = "framePostReady"
       THEN /\ ms' = [ms EXCEPT !.listener = TRUE]
            /\ UNCHANGED <<toBrowser, thrown>>
       ELSE /\ Len(toBrowser) < MaxSends
            /\ ms' = [ms EXCEPT !.hidden = Classes(@, {"paymentForm"}, {})]
            /\ toBrowser' = Send("setTransactionStatus", status, origin)
            /\ UNCHANGED thrown

\* The close button hides the final status.
CloseClick ==
    /\ ms.initialized /\ ~ms.hidden["closeButton"] /\ ~ms.hidden["finalStatus"]
    /\ ms' = [ms EXCEPT !.hidden = Classes(@, {"finalStatus"}, {})]
    /\ UNCHANGED <<toBrowser, thrown>>

MessageTypes == {"requestDeviceInfoMsg", "framePostReady", "reportTransactionStatusMsg"}

\* The page as loaded: the payment form, the final status and the close
\* button hidden (the markup is not in the repository).
Init ==
    /\ ms = [initialized |-> FALSE, state |-> PAGE_LOADING, paymentShown |-> FALSE,
             info |-> None, listener |-> FALSE, loading |-> FALSE,
             hidden |-> [p \in Parts |-> p \in {"paymentForm", "finalStatus", "closeButton"}]]
    /\ toBrowser = <<>>
    /\ thrown = FALSE

Next ==
    \/ Initialize
    \/ DeviceStateChanged
    \/ FrameLoad
    \/ \E o \in Origins, t \in MessageTypes, st \in Statuses : MessageReceived(o, t, st)
    \/ CloseClick

Spec == Init /\ [][Next]_vars

TypeOK ==
    /\ ms.state \in ActivationStates \cup {PAGE_LOADING}
    /\ ms.hidden \in [Parts -> BOOLEAN]
    /\ {ms.initialized, ms.paymentShown, ms.listener, ms.loading, thrown} \subseteq BOOLEAN
    /\ Len(toBrowser) <= MaxSends

\* The origin of a URL: its characters up to the first '/'.
OriginOf(url) ==
    LET slash == SelectInSeq(url, LAMBDA c : c = "/")
    IN IF slash = 0 THEN url ELSE SubSeq(url, 1, slash - 1)

\* setTransactionStatus reports what the carrier's payment page said:
\* every status sent comes from a message posted by the payment page's
\* origin or by the extension's redirect page, as the origin test of
\* onMessageReceived_ means to ensure.
StatusFromPaymentPage ==
    \A k \in DOMAIN toBrowser :
        toBrowser[k].kind = "setTransactionStatus" =>
            toBrowser[k].from \in {OriginOf(PaymentUrl), EXTENSION_PAGE_URL}

\* No message handler throws: messages are only handled once the device
\* information they are checked against is known.
NoHandlerThrows == ~thrown

\* The inputs the configuration checks: the payment page at "ab/p" (origin
\* "ab"), the extension, and "a", a different origin that is a prefix of
\* the payment URL.
MCPaymentUrl == <<"a", "b", "/", "p">>
MCOrigins == {<<"a", "b">>, <<"e", "x", "t">>, <<"a">>}

================================================================================
