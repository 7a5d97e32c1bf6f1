------------------------------- MODULE DropDown -------------------------------
(***************************************************************************)
(* cr.ui.DropDown and DropDownContainer (chromeos/login/network_dropdown.js) *)
(* the network menu of the ChromeOS login screens.  A drop-down is a      *)
(* title button, an overlay that catches outside clicks and a container   *)
(* of menu elements built by setItems from the browser's network list.    *)
(* The user opens and closes it with the mouse and the keyboard and      *)
(* chooses a network (chrome.send('networkItemChosen')); the browser     *)
(* sends network lists to whichever drop-down is active.                 *)
(*                                                                         *)
(* dd[d] is the state of drop-down d:                                      *)
(*   elems     the container's children, one record per menu element     *)
(*   sel       container.selectedItem as an index into elems (0: null)    *)
(*   first     container.firstItem as an index (0: null)                  *)
(*   shown     isShown (the container and the overlay are not hidden)     *)
(*   scroll    container.scrollJustHappened                               *)
(*   opening   the title button's 'opening' flag                          *)
(* focused is the title button with DOM focus (its inFocus flag), active *)
(* DropDown.activeElementId_, toBrowser the chrome.send messages, toPage  *)
(* the updateNetworks calls in flight, thrown that a handler threw.      *)
(* Labels, icons, ARIA attributes and the 'hover' class only change what *)
(* is drawn or read out and are left out; whether selectItem scrolls     *)
(* depends on pixel layout and is a free choice.                          *)
(***************************************************************************)
EXTENDS Integers, Sequences, SequencesExt

CONSTANTS
    DropIds,    \* the drop-down elements' ids
    NoDrop      \* '' (no active drop-down)

VARIABLES dd, focused, active, toBrowser, toPage, thrown

\* The entries of a network list, flattened as setItems does: a submenu
\* ('sub' in item) contributes its items at top level.
Flat(list) ==
    FoldLeft(LAMBDA acc, e : acc \o (IF "sub" \in DOMAIN e THEN e.sub ELSE <<e>>),
             <<>>, list)

\* createItem_: an item with a positive id is wrapped in a menu item whose
\* own iid is undefined; dividers and other ids stay bare elements.
Elem(item) == [iid |-> item.id, wrapped |-> item.id > 0, enabled |-> item.enabled]

\* The key loop stops at an element whose iid is not negative: a wrapper
\* (undefined < 0 is false) or a bare item with a non-negative id.
Stop(e) == e.wrapped \/ e.iid >= 0

\* DropDownContainer.selectItem(item, false); s is whether the item had to
\* be scrolled into view.
SelectItem(r, j, s) == [r EXCEPT !.sel = j, !.scroll = @ \/ s]

\* The isShown setter.  Showing selects firstItem, which throws on null
\* after the menu is already visible.
Show(r, s) ==
    IF r.first = 0 THEN [r EXCEPT !.shown = TRUE]
    ELSE SelectItem([r EXCEPT !.shown = TRUE], r.first, s)
ShowThrows(r) == r.first = 0
Hide(r) == [r EXCEPT !.shown = FALSE]

\* setItems: rebuild the elements, forget the selection, select the first
\* element of non-negative id (throws when there is none).
SetItems(r, list, s) ==
    LET es == [k \in 1 .. Len(Flat(list)) |-> Elem(Flat(list)[k])]
        f == SelectInSeq(es, LAMBDA e : e.iid >= 0)
        r1 == [r EXCEPT !.elems = es, !.first = f, !.sel = 0]
    IN IF f = 0 THEN r1 ELSE SelectItem(r1, f, s)

\* Mutant: one step, without the loop past dividers.
WalkOnce(r, i, up) ==
    IF up THEN (IF i = 1 THEN Len(r.elems) ELSE i - 1)
    ELSE (IF i = Len(r.elems) THEN r.first ELSE i + 1)

\* The do-while loops of keyDownHandler_: step to the previous sibling
\* (wrapping to the last element) or the next one (wrapping to
\* firstItem) until an element the loop stops at.
RECURSIVE Walk(_, _, _)
Walk(r, i, up) ==
    LET n == IF up THEN (IF i = 1 THEN Len(r.elems) ELSE i - 1)
             ELSE (IF i = Len(r.elems) THEN r.first ELSE i + 1)
    IN IF Stop(r.elems[n]) THEN n ELSE Walk(r, n, up)

Chosen(id) == [kind |-> "chosen", arg |-> id]

(***************************************************************************)
(* Handlers.  Each changes dd[d] for one drop-down d.                      *)
(***************************************************************************)
ddVars == <<dd, focused, active, toBrowser, toPage, thrown>>

\* Mutant: the title's listener opens the menu without setting 'opening'.
TitleKeyListenerNoFlag(r, k, s) ==
    IF ~r.shown /\ k \in {"Enter", "Space"} THEN Show(r, s) ELSE r

\* The title's keydown listener: Enter or Space on a closed menu sets
\* 'opening' and opens it.
TitleKeyListener(r, k, s) ==
    IF ~r.shown /\ k \in {"Enter", "Space"}
    THEN [Show(r, s) EXCEPT !.opening = TRUE] ELSE r

\* A keydown on the focused title: the title's listener runs first, then
\* the event bubbles to keyDownHandler_, which ignores it unless the menu
\* is shown.
\* Up/Down walk from the selected element, which throws when there is
\* none; Esc and Tab close; Enter closes and chooses the selected item
\* unless 'opening' is set, which it clears instead.
TitleKey(d, k, s) ==
    LET r0 == dd[d]
        opens == ~r0.shown /\ k \in {"Enter", "Space"}
        r1 == TitleKeyListener(r0, k, s)
        item == r1.elems[r1.sel]
        choose == k = "Enter" /\ r1.shown /\ ~r1.opening /\ r1.sel # 0
                    /\ item.wrapped /\ item.enabled
        r2 == CASE ~r1.shown                    -> r1
                [] k \in {"Up", "Down"} /\ r1.sel # 0 ->
                     SelectItem(r1, Walk(r1, r1.sel, k = "Up"), s)
                [] k \in {"Esc", "Tab"}         -> Hide(r1)
                [] k = "Enter" /\ r1.opening    -> [r1 EXCEPT !.opening = FALSE]
                [] k = "Enter"                  -> Hide(r1)
                [] OTHER                        -> r1
    IN /\ focused = d
       /\ dd' = [dd EXCEPT ![d] = r2]
       /\ thrown' = (thrown \/ (opens /\ ShowThrows(r0))
                     \/ (r1.shown /\ r1.sel = 0
                          /\ (k \in {"Up", "Down"} \/ (k = "Enter" /\ ~r1.opening))))
       /\ toBrowser' = IF choose THEN Append(toBrowser, Chosen(item.iid)) ELSE toBrowser
       /\ UNCHANGED <<focused, active, toPage>>

\* The title's click listener toggles the menu; the press focuses it.
TitleClick(d, s) ==
    /\ dd' = [dd EXCEPT ![d] = IF @.shown THEN Hide(@) ELSE Show(@, s)]
    /\ thrown' = (thrown \/ (~dd[d].shown /\ ShowThrows(dd[d])))
    /\ focused' = d
    /\ UNCHANGED <<active, toBrowser, toPage>>

\* The click listener of menu item j: a disabled item does nothing (the
\* press on it, not focusable, has taken focus from the title); otherwise
\* close, choose it, and focus the title.
ItemClick(d, j) ==
    /\ dd[d].shown /\ dd[d].elems[j].wrapped
    /\ IF dd[d].elems[j].enabled
       THEN /\ dd' = [dd EXCEPT ![d] = Hide(@)]
            /\ toBrowser' = Append(toBrowser, Chosen(dd[d].elems[j].iid))
            /\ focused' = d
       ELSE /\ focused' = NoDrop /\ UNCHANGED <<dd, toBrowser>>
    /\ UNCHANGED <<active, toPage, thrown>>

\* The mouseover listener of menu item j: selectItem(item, true), which
\* ignores the first mouseover after a scroll.
ItemMouseOver(d, j, s) ==
    /\ dd[d].shown /\ dd[d].elems[j].wrapped
    /\ dd' = [dd EXCEPT ![d] = IF @.scroll THEN [@ EXCEPT !.scroll = FALSE]
                                ELSE SelectItem(@, j, s)]
    /\ UNCHANGED <<focused, active, toBrowser, toPage, thrown>>

\* A click outside the open menu lands on the overlay.
OverlayClick(d) ==
    /\ dd[d].shown
    /\ dd' = [dd EXCEPT ![d] = Hide(@)] /\ focused' = d
    /\ UNCHANGED <<active, toBrowser, toPage, thrown>>

\* Focus moves to the title (Tab from elsewhere) or leaves it.
Focus(d) == focused # d /\ focused' = d /\ UNCHANGED <<dd, active, toBrowser, toPage, thrown>>
Blur == focused # NoDrop /\ focused' = NoDrop
          /\ UNCHANGED <<dd, active, toBrowser, toPage, thrown>>

\* DropDown.setActive: activating replaces the active drop-down and asks
\* for its lists; deactivating the active one stops them.
SetActive(d, isActive) ==
    /\ IF isActive
       THEN /\ active' = d
            /\ toBrowser' = Append(toBrowser, [kind |-> "show", arg |-> d])
       ELSE /\ active = d /\ active' = NoDrop
            /\ toBrowser' = Append(toBrowser, [kind |-> "hide", arg |-> NoDrop])
    /\ UNCHANGED <<dd, focused, toPage, thrown>>

\* DropDown.refresh.
Refresh ==
    /\ toBrowser' = Append(toBrowser, [kind |-> "refresh", arg |-> NoDrop])
    /\ UNCHANGED <<dd, focused, active, toPage, thrown>>

\* DropDown.updateNetworks: $(activeElementId_).setItems(data), which
\* throws when no drop-down is active ($('') is null).
UpdateNetworks(s) ==
    /\ toPage # <<>>
    /\ IF active = NoDrop
       THEN thrown' = TRUE /\ UNCHANGED dd
       ELSE /\ dd' = [dd EXCEPT ![active] = SetItems(@, Head(toPage), s)]
            /\ thrown' = (thrown \/ SetItems(dd[active], Head(toPage), s).first = 0)
    /\ toPage' = Tail(toPage)
    /\ UNCHANGED <<focused, active, toBrowser>>


================================================================================
