------------------------------ MODULE MCDropDown ------------------------------
(***************************************************************************)
(* The login screen's network drop-downs with the browser's network menu  *)
(* handler (C++, not in this repository), which handles the chrome.send   *)
(* messages in order: networkDropdownShow starts sending the network list *)
(* to the page, networkDropdownHide stops it, networkDropdownRefresh      *)
(* resends it.  While a drop-down is shown to it, the browser also sends  *)
(* a new list whenever the networks change (any list of NetLists).        *)
(*                                                                         *)
(* A behaviour exercises one of two pages (side).  On "menus" two        *)
(* drop-downs of a screen are activated and deactivated at will.  On     *)
(* "screen" the offline message of the sign-in screen (ErrorScreen) is   *)
(* the only caller of setActive, for its own drop-down, while the        *)
(* browser reports the network state; the user works that drop-down     *)
(* while the message is displayed.  The two pages share no state, so the *)
(* checked states are the sum of the two, not their product.             *)
(***************************************************************************)
EXTENDS ErrorScreen

CONSTANTS
    NetLists,       \* the network lists the browser may send
    MaxQueue        \* bound on messages and lists in flight

VARIABLES
    bActive,        \* the browser is sending lists
    side            \* the page this behaviour exercises
vars == <<dd, focused, active, toBrowser, toPage, thrown, bActive, esVars, side>>

Keys == {"Up", "Down", "Enter", "Space", "Esc", "Tab"}

Init ==
    /\ dd = [d \in DropIds |-> [elems |-> <<>>, sel |-> 0, first |-> 0,
                                shown |-> FALSE, scroll |-> FALSE, opening |-> FALSE]]
    /\ focused = NoDrop /\ active = NoDrop
    /\ toBrowser = <<>> /\ toPage = <<>> /\ thrown = FALSE
    /\ bActive = FALSE
    /\ ESInit
    /\ side \in {"menus", "screen"}

Room == Len(toBrowser) + Len(toPage) < MaxQueue

BrowserStep ==
    /\ toBrowser # <<>>
    /\ LET m == Head(toBrowser)
       IN /\ bActive' = CASE m.kind = "show" -> TRUE
                          [] m.kind = "hide" -> FALSE
                          [] OTHER           -> bActive
          /\ \/ /\ (m.kind = "show" \/ (m.kind = "refresh" /\ bActive))
                /\ \E l \in NetLists : toPage' = Append(toPage, l)
             \/ /\ ~(m.kind = "show" \/ (m.kind = "refresh" /\ bActive))
                /\ UNCHANGED toPage
    /\ toBrowser' = Tail(toBrowser)
    /\ UNCHANGED <<dd, focused, active, thrown>>

NetworksChanged ==
    /\ bActive /\ Room
    /\ \E l \in NetLists : toPage' = Append(toPage, l)
    /\ UNCHANGED <<dd, focused, active, toBrowser, thrown, bActive>>

PageNext ==
    \/ \E d \in DropIds, s \in BOOLEAN :
          \/ \E k \in Keys : Room /\ TitleKey(d, k, s)
          \/ TitleClick(d, s)
          \/ \E j \in DOMAIN dd[d].elems : ItemMouseOver(d, j, s)
    \/ \E d \in DropIds :
          \/ \E j \in DOMAIN dd[d].elems : Room /\ ItemClick(d, j)
          \/ OverlayClick(d) \/ Focus(d)
          \/ \E b \in BOOLEAN : Room /\ SetActive(d, b)
    \/ Blur
    \/ Room /\ Refresh
    \/ \E s \in BOOLEAN : UpdateNetworks(s)

BrowserNext == BrowserStep \/ NetworksChanged

\* The sign-in screen: the offline message, and the user clicking its
\* drop-down while the message is displayed (the keys and the hover, which
\* reach the same handlers, are checked on "menus").
ScreenNext ==
    \/ Room /\ ESNext /\ UNCHANGED bActive
    \/ /\ ~msg.hidden
       /\ \/ \E s \in BOOLEAN : TitleClick(OfflineList, s)
          \/ \E j \in DOMAIN dd[OfflineList].elems : Room /\ ItemClick(OfflineList, j)
          \/ OverlayClick(OfflineList)
       /\ UNCHANGED <<bActive, esVars>>
    \/ \E s \in BOOLEAN : UpdateNetworks(s) /\ UNCHANGED <<bActive, esVars>>
    \/ BrowserNext /\ UNCHANGED esVars

Next ==
    \/ side = "menus" /\ ((PageNext /\ UNCHANGED bActive) \/ BrowserNext)
                      /\ UNCHANGED <<esVars, side>>
    \/ side = "screen" /\ ScreenNext /\ UNCHANGED side

Spec == Init /\ [][Next]_vars

Elems == [iid : Int, wrapped : BOOLEAN, enabled : BOOLEAN]
TypeOK ==
    /\ \A d \in DropIds :
         /\ dd[d].elems \in Seq(Elems)
         /\ {dd[d].sel, dd[d].first} \subseteq 0 .. Len(dd[d].elems)
         /\ {dd[d].shown, dd[d].scroll, dd[d].opening} \subseteq BOOLEAN
    /\ focused \in DropIds \cup {NoDrop} /\ active \in DropIds \cup {NoDrop}
    /\ toPage \in Seq(NetLists) /\ thrown \in BOOLEAN
    /\ ESTypeOK /\ side \in {"menus", "screen"}

\* The highlighted element of a menu is always one the keyboard loop
\* stops at (a network, never a divider): setItems and showing select
\* firstItem, the Up and Down loops skip negative ids (wrapping to the
\* last element or to firstItem), and only menu items react to the mouse.
SelectionOnStopItem ==
    \A d \in DropIds : dd[d].sel # 0 => Stop(dd[d].elems[dd[d].sel])

\* A network is chosen only from a menu that was open before the step and
\* that the step closes, and it is an enabled network item of that menu:
\* the Enter that opens a menu never chooses (the title's listener sets
\* 'opening' before the same keydown reaches keyDownHandler_, whose Enter
\* case then only clears it), hidden items cannot be clicked, and
\* disabled ones do nothing.
ChosenOnlyFromOpenMenu ==
    [][ (Len(toBrowser') > Len(toBrowser) /\ Last(toBrowser').kind = "chosen")
          => \E d \in DropIds :
                /\ dd[d].shown /\ ~dd'[d].shown
                /\ \E j \in DOMAIN dd[d].elems :
                      /\ dd[d].elems[j].wrapped /\ dd[d].elems[j].enabled
                      /\ dd[d].elems[j].iid = Last(toBrowser').arg ]_vars

\* 'opening' is set only by the keydown that opens the menu and is spent
\* by that keydown's Enter case, so a closed menu never carries it.
OpeningOnlyWhileOpening == \A d \in DropIds : ~dd[d].shown => ~dd[d].opening

\* No handler throws: every list arrives while a drop-down is active and
\* has a network to select, and no key or click acts on a menu with no
\* selection.
NoHandlerThrows == ~thrown

\* On the sign-in screen every network list reaches the drop-down it was
\* sent to: DropDown.updateNetworks looks the element up by
\* activeElementId_, which onBeforeHide clears when the network comes back
\* while the browser may still be answering the networkDropdownShow of
\* the offline report before.
ListsFindActiveDropDown ==
    [][side = "screen" /\ toPage # <<>> /\ toPage' = Tail(toPage) => active # NoDrop]_vars

MCLists ==
    { << [id |-> 1, enabled |-> TRUE], [id |-> -2, enabled |-> FALSE],
         [sub |-> << [id |-> 2, enabled |-> FALSE], [id |-> 0, enabled |-> TRUE] >>] >>,
      << [id |-> -2, enabled |-> FALSE] >> }

=============================================================================
