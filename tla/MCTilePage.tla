------------------------------ MODULE MCTilePage ------------------------------
(***************************************************************************)
(* Two TilePages on their own.                                             *)
(*                                                                         *)
(* tp is the most visited page's grid seen from TilePage: its contents    *)
(* gain a page (MostVisited.updateForData adds 'focusable') and lose it   *)
(* (MostVisited.reset drops the class and sets tabIndex -1) at any time,  *)
(* as lists arrive and pages are removed, while the user moves keyboard  *)
(* focus with the arrows, Tab and the mouse and the card slider selects  *)
(* and deselects the page.                                                 *)
(*                                                                         *)
(* ap is a page that accepts drags of its own tiles, dragged anywhere    *)
(* over its grid, left and dropped, while the window may be resized.     *)
(*                                                                         *)
(* The two pages share no state and no handler of one reads the other,   *)
(* so a behaviour chooses (side) which one it exercises: the checked      *)
(* states are the sum of the two pages' states, not their product, and   *)
(* every property is about one page.                                      *)
(***************************************************************************)
EXTENDS TilePage

CONSTANTS
    Contents,           \* the most visited tile contents
    AppIds,             \* the drag page's tiles
    Widths, Heights,    \* window sizes
    Cols, Rows,         \* the grid cells a drag may pass over
    MaxRemovals         \* bound on the tiles the owner removes

VARIABLES
    tp,         \* the most visited page's TilePage state
    fz,         \* the contents that show a page ('focusable')
    ap,         \* the drag page
    relaid,     \* history: a resize or a removal re-laid the grid since the drag entered
    side        \* the page this behaviour exercises

vars == <<tp, fz, ap, relaid, side>>

Apps == INSTANCE TilePage WITH TileIds <- AppIds

Init ==
    /\ tp = TilePageInit(SetToSeq(Contents), Max(Widths), Max(Heights))
    /\ fz = {}
    /\ ap = Apps!TilePageInit(SetToSeq(AppIds), Max(Widths), Max(Heights))
    /\ relaid = FALSE
    /\ side \in {"focus", "drag"}

(***************************************************************************)
(* The most visited page's grid.                                          *)
(***************************************************************************)

\* updateForData with a page / reset of a tile contents.
GainPage(i) == i \notin fz /\ fz' = fz \cup {i} /\ UNCHANGED tp
LosePage(i) ==
    /\ i \in fz /\ fz' = fz \ {i}
    /\ tp' = [tp EXCEPT !.tabOne = @ \ {i}]

FocusNext ==
    \/ \E i \in Contents : GainPage(i) \/ LosePage(i)
    \/ \E k \in {"Left", "Right", "Up", "Down"} :
          tp.focused \in Contents \cup {Page} /\ tp' = KeyDown(tp, fz, k) /\ UNCHANGED fz
    \/ \E i \in Contents :
          \/ tp' = MouseDown(tp, fz, i) /\ UNCHANGED fz
          \/ i \in tp.tabOne /\ tp.focused # i
               /\ tp' = [tp EXCEPT !.focused = i] /\ UNCHANGED fz
    \/ tp.pageTab /\ tp.focused # Page /\ tp' = OnFocus(tp, fz) /\ UNCHANGED fz
    \/ tp.focused # None /\ tp' = [tp EXCEPT !.focused = None] /\ UNCHANGED fz
    \/ ~tp.pageTab /\ tp' = CardSelected(tp) /\ UNCHANGED fz
    \/ tp.pageTab /\ tp' = CardDeselected(tp, fz) /\ UNCHANGED fz

(***************************************************************************)
(* The drag page, driven by the events DragWrapper turns into calls, the  *)
(* tiles' own drag events and clone transitions, and the owner, which     *)
(* removes tiles (Tile.doRemove, as when an app is uninstalled) at any     *)
(* time.  A setTimeout of 0 fires before the user can start another drag, *)
(* and a clone only has a transition that ends once it is sent to the    *)
(* grid, the trash ('deleting') or another page.                          *)
(***************************************************************************)
Settling == {"placing", "sent"}

TimerStep(t) ==
    t \in ap.timer /\ ap' = Apps!DropTimeout(ap, t) /\ UNCHANGED relaid

TransitionStep(t) ==
    /\ ap.clone[t] = "sent"
    /\ ap' = Apps!CloneTransitionEnd(ap, t) /\ UNCHANGED relaid

\* The owner removes tile t: doRemove starts the animation, whose end
\* calls removeTile, re-laying the grid under a drag.
RemoveStep(t) ==
    \/ t \in ToSet(ap.tiles) \ ap.removing
         /\ Cardinality(ap.removing \cup ap.gone) < MaxRemovals
         /\ ap' = Apps!DoRemove(ap, t)
         /\ UNCHANGED relaid
    \/ t \in ap.removing /\ ap' = Apps!ContentsAnimationEnd(ap, t)
         /\ relaid' = (relaid \/ ap.target)

DragNext ==
    \/ \E t \in ToSet(ap.tiles) :
          ap.dragging = NoTile /\ ap.timer = {}
          /\ ap' = Apps!DragStart(ap, t) /\ UNCHANGED relaid
    \/ \E c \in Cols, r \in Rows :
          \/ ap.dragging \in ToSet(ap.tiles) /\ ~ap.target
               /\ ap' = Apps!DragEnter(ap, c, r) /\ relaid' = FALSE
          \/ ap.target /\ ap' = Apps!DragOver(ap, c, r) /\ UNCHANGED relaid
    \/ ap.target /\ ap' = Apps!DragLeave(ap) /\ UNCHANGED relaid
    \/ ap.target /\ ap' = Apps!Drop(ap) /\ UNCHANGED relaid
    \/ \E trash, copy, selected \in BOOLEAN :
          ap.dragging # NoTile /\ ~ap.target
          /\ ap' = Apps!OnDragEnd(ap, trash, copy, selected) /\ UNCHANGED relaid
    \/ \E t \in AppIds : TimerStep(t) \/ TransitionStep(t)
    \/ \E t \in AppIds : t # ap.dragging /\ RemoveStep(t)
    \/ \E w \in Widths, h \in Heights :
          /\ ap' = Apps!OnResize(ap, w, h)
          /\ relaid' = (relaid \/ (ap.target /\ ap' # ap))

Next ==
    \/ side = "focus" /\ FocusNext /\ UNCHANGED <<ap, relaid, side>>
    \/ side = "drag" /\ DragNext /\ UNCHANGED <<tp, fz, side>>

DragSide(A) == side = "drag" /\ A /\ UNCHANGED <<tp, fz, side>>

\* The browser fires every pending timer, and every clone sent somewhere
\* ends its transition, each on its own.
Fairness == \A t \in AppIds : /\ WF_vars(DragSide(TimerStep(t)))
                             /\ WF_vars(DragSide(TransitionStep(t)))
Spec == Init /\ [][Next]_vars /\ Fairness

\* The owner may also remove the tile that is being dragged.
NextWithDraggedRemoval ==
    Next \/ DragSide(\E t \in AppIds : t = ap.dragging /\ RemoveStep(t))
SpecWithDraggedRemoval == Init /\ [][NextWithDraggedRemoval]_vars /\ Fairness

TypeOK ==
    /\ TilePageTypeOK(tp, Contents) /\ TilePageTypeOK(ap, AppIds)
    /\ fz \subseteq Contents /\ relaid \in BOOLEAN
    /\ side \in {"focus", "drag"}

\* At most one tile contents is a tab stop: updateFocusElement_ takes the
\* tab index from currentFocusElement_ before giving it to the new one,
\* reset() takes it from a contents that loses its page, and deselecting
\* the card takes it from the focus element.
AtMostOneTabStop == Cardinality(tp.tabOne) <= 1

\* While a tile is dragged over its page, every other tile sits in the
\* cell doDrop will give it: updateDropIndicator_ shifts only the tiles
\* between the old and the new drop index, so what it moved before must
\* already be right.  (A resize, or removeTile of another tile, during
\* the drag puts tiles back in their own cells while currentDropIndex_
\* stays; that case, tracked by relaid, is excluded.)
IndicatorMatchesDrop ==
    ap.target /\ ~relaid =>
        LET final == Apps!DropOrder(ap)
        IN \A i \in 1 .. Len(ap.tiles) :
             ap.tiles[i] # ap.dragging =>
               LET c == ap.pos[ap.tiles[i]]
               IN c[2] * ap.n + c[1] = IndexOf(final, ap.tiles[i])

\* The clone of a finished drag is eventually taken out of the document,
\* by finalizeDrag_ when its transition ends or when the tile's next
\* drag starts: onDragEnd_ sends it to the trash, back to the grid, or,
\* through its setTimeout, to another page, each of which ends in a
\* transition.
FinishedDragsSettle ==
    \A t \in AppIds : ap.clone[t] \in Settling ~> ap.clone[t] \in {"none", "drag"}

\* A tile removeTile took out of the grid never comes back into it.
NoResurrection == \A t \in ap.gone : t \notin ToSet(ap.tiles)

MCCols == -1 .. 4

=============================================================================
