---------------------------- MODULE ClientSession ----------------------------
(***************************************************************************)
(* remoting.ClientSession (remoting/webapp/me2mom/client_session.js): the *)
(* controller of one client connection's <embed> plugin.                   *)
(*                                                                         *)
(* Its methods are operators on the page's heap a, a record with fields   *)
(*   sessions     session id -> [state, plugin], plugin being the id of    *)
(*                this.plugin or None once deleted or before creation;     *)
(*   plugins      client plugin id -> [owner, connected]: the session the *)
(*                plugin's callbacks were bound to (`that`), and whether   *)
(*                plugin.connect() was called;                             *)
(*   clientEmbeds the client plugins in the DOM, in document order: every *)
(*                one has id PLUGIN_ID, so getElementById finds the first; *)
(*   exc          a TypeError is propagating out of the current handler.  *)
(*   stateChange  None, or the old state setState_ hands to onStateChange, *)
(*                the callback the session was constructed with: every    *)
(*                setState_ is the last call of its method, and the       *)
(*                caller's module runs the callback on the result.        *)
(* Jingle stanzas, the IQ relay through remoting.wcs  *)
(* and the desktop-size handling carry no control state and are left out. *)
(***************************************************************************)
EXTENDS Sequences, SequencesExt

CONSTANT None

\* remoting.ClientSession.State
States == {"UNKNOWN", "CREATED", "BAD_PLUGIN_VERSION", "UNKNOWN_PLUGIN_ERROR",
           "CONNECTING", "INITIALIZING", "CONNECTED", "CLOSED",
           "CONNECTION_FAILED"}

\* The statuses the client plugin (C++, outside src/) reports.
PluginStatuses == {"STATUS_UNKNOWN", "STATUS_CONNECTING", "STATUS_INITIALIZING",
                   "STATUS_CONNECTED", "STATUS_CLOSED", "STATUS_FAILED"}

\* new remoting.ClientSession(...)
NewSession == [state |-> "CREATED", plugin |-> None]

\* setState_(state): record the new state; onStateChange is then called
\* with the old one.
SetState(a, s, st) ==
    [a EXCEPT !.sessions[s].state = st, !.stateChange = a.sessions[s].state]

\* removePlugin(): removes the first element with PLUGIN_ID from
\* this.plugin's parent.  With this.plugin deleted, or no longer in the DOM
\* (parentNode null), the call throws a TypeError.
RemovePlugin(a, s) ==
    LET mine == a.sessions[s].plugin
    IN CASE a.clientEmbeds = <<>> -> a
         [] mine = None \/ mine \notin Range(a.clientEmbeds) ->
                [a EXCEPT !.exc = TRUE]
         [] OTHER -> [a EXCEPT !.clientEmbeds = Tail(@)]

\* disconnect(): detach the IQ handler, remove the plugin, then send
\* session-terminate through remoting.wcs (which is set whenever a session
\* exists: sessions are started from the WCS loader's callback).
Disconnect(a, s) == RemovePlugin(a, s)

\* createPluginAndConnect(container, token) creating plugin p; versionOk
\* and loaded are what isPluginVersionSupported_ and
\* `typeof plugin.connect === 'function'` find.  A plugin of the wrong
\* version is left in the DOM and this.plugin deleted.
CreatePluginAndConnect(a, s, p, versionOk, loaded) ==
    LET a1 == [a EXCEPT !.sessions[s].plugin = p,
                        !.clientEmbeds = Append(@, p),
                        !.plugins[p] = [owner |-> s, connected |-> FALSE]]
    IN CASE ~versionOk ->
              SetState([a1 EXCEPT !.sessions[s].plugin = None], s,
                       "BAD_PLUGIN_VERSION")
         [] loaded -> [a1 EXCEPT !.plugins[p].connected = TRUE]
         [] OTHER -> SetState(a1, s, "UNKNOWN_PLUGIN_ERROR")

\* The session state connectionInfoUpdateCallback translates a plugin
\* status to.  "NEW" is the status of a plugin that has reported nothing
\* yet; the plugin is not in this repository, so it is taken to be a value
\* equal to none of the six STATUS_ constants, which every test of the
\* if-chain fails (None: no setState_).
StateOf(status) ==
    CASE status = "STATUS_UNKNOWN" -> "UNKNOWN"
      [] status = "STATUS_CONNECTING" -> "CONNECTING"
      [] status = "STATUS_INITIALIZING" -> "INITIALIZING"
      [] status = "STATUS_CONNECTED" -> "CONNECTED"
      [] status = "STATUS_CLOSED" -> "CLOSED"
      [] status = "STATUS_FAILED" -> "CONNECTION_FAILED"
      [] OTHER -> None

\* connectionInfoUpdateCallback() of session s, status[q] being the status
\* of plugin q: it reads this.plugin.status, which throws when this.plugin
\* was deleted.
ConnectionInfoUpdateCallback(a, s, status) ==
    LET q == a.sessions[s].plugin
    IN CASE q = None -> [a EXCEPT !.exc = TRUE]
         [] StateOf(status[q]) = None -> a
         [] OTHER -> SetState(a, s, StateOf(status[q]))

=============================================================================
