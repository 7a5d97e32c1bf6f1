-------------------------------- MODULE Tree --------------------------------
(***************************************************************************)
(* cr.ui.Tree and cr.ui.TreeItem (shared/js/cr/ui/tree.js): a tree widget  *)
(* whose items keep their selection, expansion and indentation in DOM     *)
(* attributes, while the tree keeps selectedItem_.  The two are kept in   *)
(* step by the setters of TreeItem.selected and Tree.selectedItem, which  *)
(* call each other; collapsing an item or removing a child moves the      *)
(* selection out of the part that disappears.                              *)
(*                                                                         *)
(* The state is one record t:                                              *)
(*   kids          the children of the tree and of each item, in order    *)
(*                 (the DOM children of .tree-children)                   *)
(*   expanded      the items with the 'expanded' attribute                *)
(*   selected      the items with the 'selected' attribute                *)
(*   may           the items with the 'may-have-children' attribute       *)
(*   depth         TreeItem.depth_ (the indentation)                      *)
(*   selectedItem  Tree.selectedItem_                                      *)
(*   thrown        an event handler or API call threw a TypeError         *)
(*   editing       the items with the 'editing' attribute (set editing)   *)
(*   focus         the item whose label input has keyboard focus, or None *)
(*   label, input  each item's label text, and the value of its input    *)
(*   old           oldLabel_ of an item being edited                       *)
(* An item that is in no parent's kids is detached (parentNode null).    *)
(* Layout, icons and the DOM events the tree dispatches to its owner     *)
(* ('change', 'rename') are left out: no property is about them.         *)
(***************************************************************************)
EXTENDS Integers, Sequences, SequencesExt, FiniteSets

CONSTANTS
    Items,          \* the TreeItem elements
    TheTree,        \* the Tree element
    None,           \* null
    InitKids,       \* the children of each node once the owner built the tree
    Texts,          \* the label texts an item may have
    Blank,          \* a value of the input that is only white space
    EditItems       \* the items the owner may start editing

VARIABLE t
vars == <<t>>

Nodes == Items \cup {TheTree}

\* add() passes 0xffffffff as the index, past any child, so that
\* insertBefore(child, undefined) appends; only that it is past the last
\* child matters, and 2^31 - 1 is the largest integer TLC holds.
APPEND == 2147483647

(***************************************************************************)
(* The DOM walks.                                                          *)
(***************************************************************************)

\* TreeItem.parentItem: the nearest Tree or TreeItem above the item.
ParentItem(s, x) ==
    IF \E n \in Nodes : Contains(s.kids[n], x)
    THEN CHOOSE n \in Nodes : Contains(s.kids[n], x)
    ELSE None

\* TreeItem.tree: follow parentItem up to the Tree, or to null.
RECURSIVE TreeOf(_, _)
TreeOf(s, x) ==
    LET p == ParentItem(s, x) IN IF p \in Items THEN TreeOf(s, p) ELSE p

\* a.contains(b) for two items.
RECURSIVE IsAncestorOrSelf(_, _, _)
IsAncestorOrSelf(s, a, b) ==
    \/ a = b
    \/ /\ ParentItem(s, b) \in Items
       /\ IsAncestorOrSelf(s, a, ParentItem(s, b))

DepthOf(s, n) == IF n = TheTree THEN 0 ELSE s.depth[n]

\* The position of x among the children of its parent.
IndexIn(s, x) == LET k == s.kids[ParentItem(s, x)] IN CHOOSE i \in DOMAIN k : k[i] = x

NextSibling(s, x) ==
    IF ParentItem(s, x) = None \/ IndexIn(s, x) = Len(s.kids[ParentItem(s, x)]) THEN None
    ELSE s.kids[ParentItem(s, x)][IndexIn(s, x) + 1]

PreviousSibling(s, x) ==
    IF ParentItem(s, x) = None \/ IndexIn(s, x) = 1 THEN None
    ELSE s.kids[ParentItem(s, x)][IndexIn(s, x) - 1]

(***************************************************************************)
(* The setters of TreeItem.selected, TreeItem.expanded and                 *)
(* Tree.selectedItem, which call one another.                              *)
(***************************************************************************)
RECURSIVE SetSelected(_, _, _), SetSelectedItem(_, _), SetExpanded(_, _, _), Reveal(_, _)

\* set selectedItem without deselecting the old item.
SetSelectedItemKeepsOld(s, item) ==
    IF s.selectedItem = item THEN s
    ELSE LET s1 == [s EXCEPT !.selectedItem = item]
         IN IF item = None THEN s1 ELSE SetSelected(s1, item, TRUE)

\* set selected(b): no change when the attribute already says b.  Selecting
\* sets the attribute, reveals the item and makes it the tree's
\* selectedItem; deselecting clears the attribute and, if the tree still
\* names this item, sets the tree's selectedItem to null.
SetSelected(s, x, b) ==
    IF (x \in s.selected) = b THEN s
    ELSE IF b
    THEN LET s1 == Reveal([s EXCEPT !.selected = @ \cup {x}], x)
         IN IF TreeOf(s, x) = TheTree THEN SetSelectedItem(s1, x) ELSE s1
    ELSE LET s1 == [s EXCEPT !.selected = @ \ {x}]
         IN IF TreeOf(s, x) = TheTree /\ s1.selectedItem = x
            THEN SetSelectedItem(s1, None) ELSE s1

\* set selectedItem(item): on a change, store the new item first, then
\* deselect the old one and select the new one.
SetSelectedItem(s, item) ==
    LET old == s.selectedItem
        s1 == [s EXCEPT !.selectedItem = item]
        s2 == IF old = None THEN s1 ELSE SetSelected(s1, old, FALSE)
    IN IF old = item THEN s
       ELSE IF item = None THEN s2 ELSE SetSelected(s2, item, TRUE)

\* set expanded(b): expanding needs 'may-have-children'; collapsing an item
\* of the tree that is not selected but holds the selected item selects it
\* first.
SetExpanded(s, x, b) ==
    IF (x \in s.expanded) = b THEN s
    ELSE IF b
    THEN IF x \in s.may THEN [s EXCEPT !.expanded = @ \cup {x}] ELSE s
    ELSE LET s1 == IF /\ TreeOf(s, x) = TheTree
                      /\ x \notin s.selected
                      /\ s.selectedItem # None
                      /\ IsAncestorOrSelf(s, x, s.selectedItem)
                   THEN SetSelected(s, x, TRUE) ELSE s
         IN [s1 EXCEPT !.expanded = @ \ {x}]

\* reveal(): expand every parent item up to the tree.
Reveal(s, x) ==
    LET pi == ParentItem(s, x)
    IN IF pi \in Items THEN Reveal(SetExpanded(s, pi, TRUE), pi) ELSE s

(***************************************************************************)
(* Adding and removing children.                                           *)
(***************************************************************************)

\* setDepth_ without the loop over the children.
SetDepthShallow(s, x, d) == IF d = s.depth[x] THEN s ELSE [s EXCEPT !.depth[x] = d]

\* setDepth_(depth): nothing when the depth is unchanged; otherwise store
\* it and give every child depth + 1.
RECURSIVE SetDepth(_, _, _)
SetDepth(s, x, d) ==
    IF d = s.depth[x] THEN s
    ELSE FoldLeft(LAMBDA acc, c : SetDepth(acc, c, d + 1),
                  [s EXCEPT !.depth[x] = d], s.kids[x])

\* insertBefore(child, items[index]): before the index-th child, or last
\* when there is none.
InsertChild(k, c, index) == IF index < Len(k) THEN InsertAt(k, index + 1, c) ELSE Append(k, c)

\* Tree.addAt(treeItem, index).
TreeAddAt(s, c, index) ==
    SetDepth([s EXCEPT !.kids[TheTree] = InsertChild(@, c, index)], c, 1)

\* set hasChildren(b): sets the 'has-children' attribute, and
\* 'may-have-children' when b is true; false leaves the latter alone.
SetHasChildren(s, p, b) == IF b THEN [s EXCEPT !.may = @ \cup {p}] ELSE s

\* TreeItem.addAt(child, index): a first child sets hasChildren.
ItemAddAt(s, p, c, index) ==
    LET s1 == [s EXCEPT !.kids[p] = InsertChild(@, c, index)]
        s2 == IF Len(s1.kids[p]) = 1 THEN SetHasChildren(s1, p, TRUE) ELSE s1
    IN SetDepth(s2, c, s.depth[p] + 1)

\* TreeItem.remove without selecting this item first.
ItemRemoveKeepsSelection(s, p, c) ==
    IF TreeOf(s, p) = None THEN [s EXCEPT !.thrown = TRUE]
    ELSE LET s1 == [s EXCEPT !.kids[p] = Remove(@, c)]
         IN IF s1.kids[p] = <<>> THEN SetHasChildren(s1, p, FALSE) ELSE s1

\* TreeItem.remove(child): reads this.tree.selectedItem (a TypeError when
\* the item is not in a tree), selects this item when the child holds the
\* selected item, then removes the child; the last child clears
\* hasChildren.
ItemRemove(s, p, c) ==
    IF TreeOf(s, p) = None THEN [s EXCEPT !.thrown = TRUE]
    ELSE LET s1 == IF s.selectedItem # None /\ IsAncestorOrSelf(s, c, s.selectedItem)
                   THEN SetSelected(s, p, TRUE) ELSE s
             s2 == [s1 EXCEPT !.kids[p] = Remove(@, c)]
         IN IF s2.kids[p] = <<>> THEN SetHasChildren(s2, p, FALSE) ELSE s2

\* Tree.remove(treeItem): removeChild only.
TreeRemove(s, c) == [s EXCEPT !.kids[TheTree] = Remove(@, c)]

(***************************************************************************)
(* In-place editing of a label.                                           *)
(***************************************************************************)

\* set editing(false) on an item being edited: the 'editing' attribute
\* goes, the label becomes the input's value, or oldLabel_ again when the
\* value is only white space (a value that differs from oldLabel_ also
\* dispatches 'rename').  The input, and with it the focus, is gone.
EditingOff(s, x) ==
    LET v == s.input[x]
        s1 == [s EXCEPT !.editing = @ \ {x}, !.input[x] = None, !.old[x] = None,
                        !.focus = IF @ = x THEN None ELSE @]
    IN IF v = Blank THEN [s1 EXCEPT !.label[x] = s.old[x]]
       ELSE [s1 EXCEPT !.label[x] = v]

\* set editing(b): nothing when the attribute already says b.  Editing
\* selects the item, sets the attribute and puts an input holding the
\* label in the label's place; input.focus() blurs the input that had the
\* focus (whose blur listener ends that edit) and takes it, when the item
\* is in the document.  oldLabel_ keeps the label.
SetEditing(s, x, b) ==
    IF (x \in s.editing) = b THEN s
    ELSE IF ~b THEN EditingOff(s, x)
    ELSE LET text == s.label[x]
             s1 == [SetSelected(s, x, TRUE) EXCEPT !.editing = @ \cup {x}, !.input[x] = text]
             s2 == IF TreeOf(s1, x) # TheTree THEN s1
                   ELSE [(IF s1.focus = None THEN s1 ELSE EditingOff(s1, s1.focus))
                           EXCEPT !.focus = x]
         IN [s2 EXCEPT !.old[x] = text]

\* handleKeydown on the input: Esc puts the text back, then Esc and Enter
\* call tree.focus(), which blurs the input and so ends the edit.
EditKeyDown(s, key) ==
    LET x == s.focus
        s1 == IF key = "Esc" THEN [s EXCEPT !.input[x] = s.old[x]] ELSE s
    IN SetEditing(s1, x, FALSE)

\* Taking child c's subtree out of the document while the focused input is
\* in it: the browser either dispatches blur, which ends the edit, or
\* drops the focus without an event, which leaves the item editing.
FocusLost(s, c) ==
    IF s.focus # None /\ IsAncestorOrSelf(s, c, s.focus)
    THEN {SetEditing(s, s.focus, FALSE), [s EXCEPT !.focus = None]}
    ELSE {s}

(***************************************************************************)
(* Keyboard navigation.                                                    *)
(***************************************************************************)

\* getNextHelper(item): the next sibling, else that of the parent item, up
\* to the tree, whose own next sibling is not a tree item.
RECURSIVE GetNextHelper(_, _)
GetNextHelper(s, x) ==
    IF x \notin Items THEN None
    ELSE IF NextSibling(s, x) # None THEN NextSibling(s, x)
    ELSE GetNextHelper(s, ParentItem(s, x))

\* getNext(item): the first child of an expanded item, else getNextHelper.
GetNext(s, x) ==
    IF x \in s.expanded /\ s.kids[x] # <<>> THEN Head(s.kids[x]) ELSE GetNextHelper(s, x)

\* getLastHelper(item): the last visible item of the subtree.
RECURSIVE GetLastHelper(_, _)
GetLastHelper(s, x) ==
    IF x \in s.expanded /\ s.kids[x] # <<>> THEN GetLastHelper(s, Last(s.kids[x])) ELSE x

\* getPrevious(item): the last visible item under the previous sibling,
\* else the parent item (the Tree itself for a top-level item).
GetPrevious(s, x) ==
    IF PreviousSibling(s, x) # None THEN GetLastHelper(s, PreviousSibling(s, x))
    ELSE ParentItem(s, x)

\* itemToSelect of handleKeyDown for a key that does not expand or collapse
\* the selected item.  For Left, findTreeItem(item.parentNode) finds the
\* parent item, and nothing above a top-level or detached item; for Right,
\* items[0] of an expanded item may be undefined.
KeyTarget(s, key, item) ==
    CASE key = "Up" -> GetPrevious(s, item)
      [] key = "Down" -> GetNext(s, item)
      [] key = "Left" -> IF ParentItem(s, item) \in Items THEN ParentItem(s, item) ELSE None
      [] key = "Right" -> IF s.kids[item] # <<>> THEN Head(s.kids[item]) ELSE None
      [] key = "Home" -> IF s.kids[TheTree] # <<>> THEN Head(s.kids[TheTree]) ELSE None
      [] key = "End" -> IF s.kids[TheTree] # <<>> THEN Last(s.kids[TheTree]) ELSE None

\* itemToSelect.selected = true: on the Tree element this only sets a plain
\* property.
SelectTarget(s, x) == IF x \in Items THEN SetSelected(s, x, TRUE) ELSE s

\* handleKeyDown(e) without modifier keys in a left-to-right tree.  The
\* first use of the selected item, getComputedStyle(item), throws a
\* TypeError when there is none, before the branches that handle that case.
HandleKeyDown(s, key) ==
    LET item == s.selectedItem
    IN IF item = None THEN [s EXCEPT !.thrown = TRUE]
       ELSE IF key = "Left" /\ item \in s.expanded THEN SetExpanded(s, item, FALSE)
       ELSE IF key = "Right" /\ item \notin s.expanded THEN SetExpanded(s, item, TRUE)
       ELSE SelectTarget(s, KeyTarget(s, key, item))

Keys == {"Up", "Down", "Left", "Right", "Home", "End"}

(***************************************************************************)
(* The initial tree and the actions.                                       *)
(***************************************************************************)

\* The depth addAt gave each item as the owner built the tree; a detached
\* item has depth_ 0.
RECURSIVE Nesting(_)
Nesting(x) ==
    IF \E n \in Nodes : Contains(InitKids[n], x)
    THEN LET p == CHOOSE n \in Nodes : Contains(InitKids[n], x)
         IN IF p = TheTree THEN 1 ELSE Nesting(p) + 1
    ELSE 0

Init ==
    t = [kids |-> InitKids,
         expanded |-> {},
         selected |-> {},
         may |-> {i \in Items : InitKids[i] # <<>>},
         depth |-> [i \in Items |-> Nesting(i)],
         selectedItem |-> None,
         thrown |-> FALSE,
         editing |-> {},
         focus |-> None,
         label |-> [i \in Items |-> CHOOSE x \in Texts : TRUE],
         input |-> [i \in Items |-> None],
         old |-> [i \in Items |-> None]]

\* Rows the user can click: in the tree, with every parent item expanded.
RECURSIVE Shown(_, _)
Shown(s, x) ==
    LET p == ParentItem(s, x)
    IN p = TheTree \/ (p \in Items /\ p \in s.expanded /\ Shown(s, p))

\* TreeItem.handleClick(e): on the expand icon it toggles expanded,
\* elsewhere it selects the item.
ItemHandleClick(s, i, onIcon) ==
    IF onIcon THEN SetExpanded(s, i, i \notin s.expanded) ELSE SetSelected(s, i, TRUE)

\* A click, or a right-button mousedown, on a row, which Tree.handleClick
\* forwards to the item.  While a label input has the focus, the mousedown
\* first blurs it (Blur); the input's own mouse events stop there.
Click(i, onIcon) ==
    /\ t.focus = None /\ Shown(t, i)
    /\ t' = ItemHandleClick(t, i, onIcon)

\* A double click on a row toggles expanded.
DblClick(i) ==
    /\ t.focus = None /\ Shown(t, i)
    /\ t' = SetExpanded(t, i, i \notin t.expanded)

\* Keys reach the tree only when no label input has the focus (the input's
\* handleKeydown stops them).
KeyDown(key) == t.focus = None /\ t' = HandleKeyDown(t, key)

\* The owner starts editing an item of the tree (set editing(true)), as a
\* rename command does for the item the user picked.  (Only the items of
\* EditItems, to bound the labels a configuration keeps.)
StartEdit(i) ==
    /\ i \notin t.editing /\ TreeOf(t, i) = TheTree
    /\ t' = SetEditing(t, i, TRUE)

\* The user types into the focused input, leaving text or only white space.
TypeText(v) ==
    /\ t.focus # None
    /\ t' = [t EXCEPT !.input[t.focus] = v]

\* Esc or Enter in the focused input.
EditKey(key) ==
    /\ t.focus # None
    /\ t' = EditKeyDown(t, key)

\* A click into the input of an item still editing whose input lost the
\* focus without a blur (FocusLost) gives it the focus again.
Refocus(i) ==
    /\ t.focus = None /\ i \in t.editing /\ Shown(t, i)
    /\ t' = [t EXCEPT !.focus = i]

\* The focused input loses the focus (a click or Tab elsewhere): its blur
\* listener sets editing to false.
Blur ==
    /\ t.focus # None
    /\ t' = SetEditing(t, t.focus, FALSE)

\* The owner adds a detached item (with its subtree) to the tree or to an
\* item that is not inside it, at the front or at the end.
AddToTree(c, index) ==
    /\ ParentItem(t, c) = None
    /\ t' = TreeAddAt(t, c, index)

AddToItem(p, c, index) ==
    /\ ParentItem(t, c) = None
    /\ ~IsAncestorOrSelf(t, c, p)
    /\ t' = ItemAddAt(t, p, c, index)

RemoveFromItem(p, c) ==
    /\ Contains(t.kids[p], c)
    /\ \E s \in FocusLost(t, c) : t' = ItemRemove(s, p, c)

RemoveFromTree(c) ==
    /\ Contains(t.kids[TheTree], c)
    /\ \E s \in FocusLost(t, c) : t' = TreeRemove(s, c)

Next ==
    \/ \E i \in Items, onIcon \in BOOLEAN : Click(i, onIcon)
    \/ \E i \in Items : DblClick(i)
    \/ \E key \in Keys : KeyDown(key)
    \/ \E c \in Items, index \in {0, APPEND} : AddToTree(c, index)
    \/ \E p, c \in Items, index \in {0, APPEND} : AddToItem(p, c, index)
    \/ \E p, c \in Items : RemoveFromItem(p, c)
    \/ \E i \in EditItems : StartEdit(i)
    \/ \E v \in Texts \cup {Blank} : TypeText(v)
    \/ \E key \in {"Esc", "Enter"} : EditKey(key)
    \/ Blur
    \/ \E i \in Items : Refocus(i)

Spec == Init /\ [][Next]_vars

\* An owner that also removes top-level items with Tree.remove.
NextWithTreeRemove == Next \/ \E c \in Items : RemoveFromTree(c)

SpecWithTreeRemove == Init /\ [][NextWithTreeRemove]_vars

(***************************************************************************)
(* Properties.                                                             *)
(***************************************************************************)

TypeOK ==
    /\ t.kids \in [Nodes -> Seq(Items)]
    /\ t.expanded \subseteq Items
    /\ t.selected \subseteq Items
    /\ t.may \subseteq Items
    /\ t.depth \in [Items -> Nat]
    /\ t.selectedItem \in Items \cup {None}
    /\ t.thrown \in BOOLEAN
    /\ t.editing \subseteq Items /\ t.focus \in t.editing \cup {None}
    /\ t.label \in [Items -> Texts]

\* The two records of the selection agree: the tree's selectedItem carries
\* the 'selected' attribute, and no other item of the tree does (the
\* setters of TreeItem.selected and Tree.selectedItem keep them in step).
SingleSelection ==
    /\ t.selectedItem # None => t.selectedItem \in t.selected
    /\ \A i \in t.selected : TreeOf(t, i) = TheTree => i = t.selectedItem

\* The selected item is in the tree and its row is shown: collapsing an
\* ancestor, or removing a child that holds it, moves the selection up
\* (set expanded, TreeItem.remove).
SelectionInTree ==
    t.selectedItem # None => TreeOf(t, t.selectedItem) = TheTree /\ Shown(t, t.selectedItem)

\* Every item is indented one level deeper than its parent, however
\* subtrees were detached and added again (addAt and setDepth_).
IndentMatchesNesting ==
    \A i \in Items : ParentItem(t, i) \in Nodes => t.depth[i] = DepthOf(t, ParentItem(t, i)) + 1

\* No event handler or API call of the tree throws: a key pressed before
\* anything is selected is handled by the branches of handleKeyDown meant
\* for it, and TreeItem.remove works on a subtree not yet added.
NothingThrown == ~t.thrown


(***************************************************************************)
(* The tree the configurations check: four items, "a" and "b" at the top, *)
(* "c" under "a", and "d" created by the owner but not yet added.  The    *)
(* owner may move any item by removing it and adding it again, so every  *)
(* shape of four items with up to three levels is reached.               *)
(***************************************************************************)
MCInitKids ==
    [n \in Items \cup {TheTree} |->
        CASE n = TheTree -> <<"a", "b">>
          [] n = "a" -> <<"c">>
          [] OTHER -> <<>>]

=============================================================================
