------------------------------- MODULE TilePage -------------------------------
(***************************************************************************)
(* ntp4.TilePage (ntp4/tile_page.js): a page of the New Tab Page holding   *)
(* tiles in a grid.  It lays the tiles out in rows of numRowTiles, moves   *)
(* keyboard focus between the 'focusable' tile contents with the arrow     *)
(* keys, and, on a page that accepts drags, shows where a dragged tile    *)
(* would land by shifting the tiles between the old and the new drop      *)
(* index, then moves the tile there on drop.                              *)
(*                                                                         *)
(* The state of one page is a record p:                                    *)
(*   tiles     tileElements_, in document order                           *)
(*   n         layoutValues_.numRowTiles                                  *)
(*   lastW, lastH   lastWidth_ / lastHeight_ (onResize_)                  *)
(*   pos       the grid cell <<col, row>> positionTile_ last gave a tile  *)
(*   dopple    the tiles that show a doppleganger                         *)
(*   focusIdx  focusElementIndex_, an integer or NaN                      *)
(*   tabOne    the contents whose tabIndex is 1                           *)
(*   focused   the element with DOM focus: a tile, Page or None          *)
(*   pageTab   the page's own tabIndex is 1                               *)
(*   dragging  currentlyDraggingTile (the tile or NoTile)                 *)
(*   target    DragWrapper.isCurrentDragTarget                            *)
(*   dragItem, dropIdx   dragItemIndex_ / currentDropIndex_               *)
(*   thrown    a handler threw a TypeError                                *)
(*   dragCls   the tiles with the 'dragging' class                        *)
(*   clone     each tile's drag clone: "none", "drag" (following the      *)
(*             cursor), "placing", or "sent" (given the class or the      *)
(*             position that moves it to the grid, the trash or another   *)
(*             page: each ends in one transition, so they are one state)  *)
(*   timer     the tiles whose onDragEnd_ setTimeout is pending           *)
(*   removing  the tiles whose contents play the removal animation        *)
(*   gone      history: the tiles removeTile took out of the grid         *)
(* Pixels are abstracted to grid cells; the top margin, scrollbar and    *)
(* mask only change styles and are left out.  Only drags of a tile       *)
(* within its own page are modelled.                                      *)
(***************************************************************************)
EXTENDS Integers, Sequences, SequencesExt, FiniteSets

CONSTANTS
    TileIds,        \* the tile contents elements
    NoTile,         \* null
    Page,           \* the tile page element itself (a focus target)
    None,           \* focus is outside the page
    NaN,            \* the number NaN (focusElementIndex_ after wrap() of 0)
    MinColCount, MaxColCount, MinTileWidth,   \* gridValues_
    SpacingDen      \* tileSpacingFraction is 1 / SpacingDen

MIN_WIDE_MARGIN == 18

\* Tile.index: the 0-based position of a tile (-1 when absent, as indexOf).
IndexOf(s, e) == SelectInSeq(s, LAMBDA x : x = e) - 1

(***************************************************************************)
(* Layout.                                                                 *)
(***************************************************************************)

\* calculateLayoutValues_: wide when the grid's width, less both margins,
\* reaches minWideWidth = minTileWidth * tileWidthFraction(maxColCount),
\* compared here multiplied by SpacingDen to stay in integers.
NumRowTiles(w) ==
    IF SpacingDen * (w - 2 * MIN_WIDE_MARGIN)
         >= MinTileWidth * (SpacingDen * MaxColCount + MaxColCount - 1)
    THEN MaxColCount ELSE MinColCount

\* positionTile_(i, off) for every index i in DOMAIN offs at once: the cell
\* is (i % numRowTiles + off, floor(i / numRowTiles)); during a drag onto
\* the page a tile pushed past either edge, or kept at the edge column
\* while it already has one, shows a doppleganger, otherwise it loses it.
PositionTiles(p, offs) ==
    LET cell(i) == << (i % p.n) + offs[i], i \div p.n >>
        col(t) == cell(IndexOf(p.tiles, t))[1]
        moved == { p.tiles[i + 1] : i \in DOMAIN offs }
        offEdge(t) ==
            \/ col(t) = p.n \/ (col(t) = p.n - 1 /\ t \in p.dopple)
            \/ col(t) = -1  \/ (col(t) = 0 /\ t \in p.dopple)
    IN [p EXCEPT
          !.pos = [t \in DOMAIN p.pos |->
                     IF t \in moved THEN cell(IndexOf(p.tiles, t))
                     ELSE p.pos[t]],
          !.dopple = (p.dopple \ moved)
                       \cup { t \in moved : p.target /\ offEdge(t) }]

\* repositionTiles_(ignoreNode): every tile but the one ignored, offset 0.
RepositionTiles(p, ignore) ==
    PositionTiles(p, [i \in { j \in 0 .. Len(p.tiles) - 1 :
                               p.tiles[j + 1] # ignore } |-> 0])

\* The page once createTiles_ / appendTile has added the tiles, each
\* placed by positionTile_.
TilePageInit(tiles, w, h) ==
    LET p == [tiles |-> tiles, n |-> NumRowTiles(w), lastW |-> w, lastH |-> h,
              pos |-> [t \in TileIds |-> <<0, 0>>], dopple |-> {},
              focusIdx |-> -1, tabOne |-> {}, focused |-> None,
              pageTab |-> FALSE, dragging |-> NoTile, target |-> FALSE,
              dragItem |-> 0, dropIdx |-> 0, thrown |-> FALSE,
              dragCls |-> {}, clone |-> [t \in TileIds |-> "none"],
              timer |-> {}, removing |-> {}, gone |-> {}]
    IN RepositionTiles(p, NoTile)

\* onResize_: nothing when neither dimension changed; otherwise the layout
\* is recomputed and every tile is put back in its own cell.
OnResize(p, w, h) ==
    IF p.lastW = w /\ p.lastH = h THEN p
    ELSE RepositionTiles([p EXCEPT !.n = NumRowTiles(w), !.lastW = w,
                                   !.lastH = h], NoTile)

(***************************************************************************)
(* Keyboard focus.  F is the set of contents with the 'focusable' class;   *)
(* focusableElements_ lists them in document order.                        *)
(***************************************************************************)
Focusables(p, F) == SelectSeq(p.tiles, LAMBDA t : t \in F)

\* currentFocusElement_: the first '.focusable[tabindex="1"]', or null.
CurrentFocus(p, F) ==
    LET c == SelectSeq(Focusables(p, F), LAMBDA t : t \in p.tabOne)
    IN IF c = <<>> THEN NoTile ELSE Head(c)

\* wrap(focusElementIndex_ + d): (idx + length) % length, NaN when the
\* index is NaN or the list is empty.
Wrap(x, d, len) == IF x = NaN \/ len = 0 THEN NaN ELSE (x + d + len) % len

\* Mutant: the tab stop is not taken from the old focus element.
UpdateFocusElementKeepsTab(p, F) ==
    LET fs == Focusables(p, F)
        idx == IF p.focusIdx = NaN THEN NaN
               ELSE IF Len(fs) - 1 < p.focusIdx
                    THEN (IF Len(fs) - 1 < 0 THEN 0 ELSE Len(fs) - 1)
                    ELSE (IF p.focusIdx < 0 THEN 0 ELSE p.focusIdx)
    IN IF idx = NaN \/ Len(fs) = 0
       THEN [p EXCEPT !.focusIdx = idx, !.thrown = TRUE]
       ELSE [p EXCEPT !.focusIdx = idx, !.tabOne = @ \cup {fs[idx + 1]},
                      !.focused = fs[idx + 1], !.pageTab = FALSE]

\* updateFocusElement_: clamp the index into the list (Math.min / max
\* leave NaN as NaN), take the tab stop from the old focus element, give it
\* to the new one and focus it.  focusableElements_[idx] is undefined when
\* the list is empty or the index is NaN: the old element has already
\* lost the tab stop when setting the new one's tabIndex throws.
UpdateFocusElement(p, F) ==
    LET fs == Focusables(p, F)
        idx == IF p.focusIdx = NaN THEN NaN
               ELSE IF Len(fs) - 1 < p.focusIdx
                    THEN (IF Len(fs) - 1 < 0 THEN 0 ELSE Len(fs) - 1)
                    ELSE (IF p.focusIdx < 0 THEN 0 ELSE p.focusIdx)
        new == fs[idx + 1]
        last == CurrentFocus(p, F)
    IN IF idx = NaN \/ Len(fs) = 0
       THEN [p EXCEPT !.focusIdx = idx, !.tabOne = @ \ {last}, !.thrown = TRUE]
       ELSE [p EXCEPT !.focusIdx = idx,
                      !.tabOne = (IF last # NoTile /\ last # new
                                  THEN p.tabOne \ {last} ELSE p.tabOne)
                                 \cup {new},
                      !.focused = new, !.pageTab = FALSE]

\* handleKeyDown_ for an arrow key (other keys, and keys with modifiers,
\* return at once).  Right/Left step focusElementIndex_ round the list.
\* Up/Down start from the index of currentFocusElement_ and walk round the
\* list to the first element whose tile index differs from the current
\* tile's by a multiple of numRowTiles; with no current element, reading
\* its parentNode throws before anything changes.
KeyDown(p, F, key) ==
    LET fs == Focusables(p, F)
        len == Len(fs)
        cur == CurrentFocus(p, F)
        dir == IF key \in {"Right", "Down"} THEN 1 ELSE -1
        ci == IndexOf(fs, cur)
        sameCol(k) == (IndexOf(p.tiles, fs[((ci + k * dir) % len) + 1])
                         - IndexOf(p.tiles, cur)) % p.n = 0
        first == CHOOSE k \in 1 .. len :
                   sameCol(k) /\ \A m \in 1 .. k - 1 : ~sameCol(m)
    IN CASE key \in {"Right", "Left"} ->
              UpdateFocusElement([p EXCEPT !.focusIdx = Wrap(@, dir, len)], F)
         [] cur = NoTile -> [p EXCEPT !.thrown = TRUE]
         [] OTHER ->
              UpdateFocusElement([p EXCEPT !.focusIdx = (ci + first * dir) % len], F)

\* handleMouseDown_: a press inside a focusable element makes it the focus
\* element; a press elsewhere in the grid is cancelled (no focus change).
MouseDown(p, F, t) ==
    IF t \in F
    THEN UpdateFocusElement([p EXCEPT !.focusIdx = IndexOf(Focusables(p, F), t)], F)
    ELSE p

\* handleFocus_: the page itself got focus; pass it on, unless nothing is
\* focusable.
OnFocus(p, F) ==
    IF Len(Focusables(p, F)) = 0 THEN [p EXCEPT !.focused = Page]
    ELSE UpdateFocusElement([p EXCEPT !.focused = Page], F)

\* handleCardSelection_ / handleCardDeselection_: the page becomes a tab
\* stop (calculateLayoutValues_ at an unchanged width changes nothing), or
\* stops being one and takes the tab stop from its focus element.
CardSelected(p) == [p EXCEPT !.pageTab = TRUE]
CardDeselected(p, F) ==
    [p EXCEPT !.pageTab = FALSE, !.tabOne = @ \ {CurrentFocus(p, F)}]

(***************************************************************************)
(* Dragging a tile within its page.  DragWrapper, which turns the DOM     *)
(* drag events into the do* calls, is not in this repository: it calls    *)
(* doDragEnter when shouldAcceptDrag() holds and marks the page the       *)
(* current drag target, doDragOver only while it is, and clears the mark  *)
(* before calling doDragLeave or doDrop.                                   *)
(***************************************************************************)

\* setCurrentlyDraggingTile (entering and leaving rearrange mode is
\* new_tab.js's, not in this repository).
SetCurrentlyDraggingTile(p, t) == [p EXCEPT !.dragging = t]

\* Tile.finalizeDrag_: the clone leaves the document and its transition
\* listener, and the tile loses the 'dragging' class.
FinalizeDrag(p, t) == [p EXCEPT !.clone[t] = "none", !.dragCls = @ \ {t}]

\* Tile.onDragStart_: a tile still finishing its previous drag is
\* finalized first; then it becomes currentlyDraggingTile, gets a clone
\* that follows the cursor (onDragMove_ only moves or hides it) and the
\* 'dragging' class.
DragStart(p, t) ==
    LET q == IF t \in p.dragCls THEN FinalizeDrag(p, t) ELSE p
    IN [SetCurrentlyDraggingTile(q, t) EXCEPT !.clone[t] = "drag",
                                             !.dragCls = @ \cup {t}]

\* getWouldBeIndexForPoint_ for a point in grid cell (col, row).
WouldBeIndex(p, col, row) ==
    IF col < 0 \/ col >= p.n THEN -1 ELSE row * p.n + col

\* The loop of updateDropIndicator_: positionTile_(i, offs[i]) for the
\* indices of offs in increasing order; an index past the last tile (a tile
\* removed since doDragEnter left dragItemIndex_ and currentDropIndex_
\* stale) has no element and throws, ending the loop there.
PositionRange(p, offs) ==
    LET bad == { i \in DOMAIN offs : i >= Len(p.tiles) }
        done == { i \in DOMAIN offs : bad = {} \/ i < Min(bad) }
    IN [PositionTiles(p, [i \in done |-> offs[i]]) EXCEPT !.thrown = @ \/ bad # {}]

\* Mutant: the tiles before the dragged one stop short of the new index.
UpdateDropIndicatorOffByOne(p, new) ==
    LET old == p.dropIdx
        d == p.dragItem
        idxs == (Min({new, old}) .. Max({new, old})) \ {d}
        adj == [i \in idxs |-> IF i > d THEN (IF i <= new THEN -1 ELSE 0)
                                ELSE (IF i > new THEN 1 ELSE 0)]
        q == PositionRange(p, adj)
    IN IF new = old THEN p
       ELSE IF \A i \in idxs : i < Len(p.tiles) THEN [q EXCEPT !.dropIdx = new]
       ELSE q

\* updateDropIndicator_: shift the tiles between the old and the new drop
\* index one cell towards the dragged tile's old place, then store the
\* new index.
UpdateDropIndicator(p, new) ==
    LET old == p.dropIdx
        d == p.dragItem
        idxs == (Min({new, old}) .. Max({new, old})) \ {d}
        adj == [i \in idxs |-> IF i > d THEN (IF i <= new THEN -1 ELSE 0)
                                ELSE (IF i >= new THEN 1 ELSE 0)]
        q == PositionRange(p, adj)
    IN IF new = old THEN p
       ELSE IF \A i \in idxs : i < Len(p.tiles) THEN [q EXCEPT !.dropIdx = new]
       ELSE q

\* doDragOver: a point off the grid or past the last tile means the
\* dragged tile's own index.
DragOver(p, col, row) ==
    LET i == WouldBeIndex(p, col, row)
    IN UpdateDropIndicator(p, IF i < 0 \/ i >= Len(p.tiles) THEN p.dragItem ELSE i)

\* doDragEnter (withinPageDrag_ holds), then doDragOver.
DragEnter(p, col, row) ==
    LET d == IndexOf(p.tiles, p.dragging)
    IN DragOver([p EXCEPT !.target = TRUE, !.dragItem = d, !.dropIdx = d], col, row)

\* cleanupDrag: every tile but the dragged one back in its own cell.
CleanupDrag(p) == RepositionTiles(p, p.dragging)

\* doDragLeave.
DragLeave(p) == CleanupDrag([p EXCEPT !.target = FALSE])

\* The tile order doDrop produces: unless the drop is where the tile was,
\* insertBefore(tile, tileElements_[index + (index > dragItem ? 1 : 0)]),
\* which leaves the tile in place when that element is the tile itself
\* (possible once a removal has made dragItemIndex_ stale).
DropOrder(p) ==
    LET d == p.dragItem
        adjusted == p.dropIdx + (IF p.dropIdx > d THEN 1 ELSE 0)
        rest == Remove(p.tiles, p.dragging)
        before == IF adjusted < Len(p.tiles) THEN p.tiles[adjusted + 1] ELSE NoTile
        at == IF before = NoTile THEN Len(rest) ELSE IndexOf(rest, before)
    IN IF p.dropIdx = d \/ before = p.dragging THEN p.tiles
       ELSE InsertAt(rest, at + 1, p.dragging)

\* doDrop (tileMoved is a no-op in TilePage), then cleanupDrag.
Drop(p) == CleanupDrag([p EXCEPT !.target = FALSE, !.tiles = DropOrder(p)])

\* Mutant: the drop on another page never queues its timeout.
OnDragEndNoTimeout(p, trash, copy, selected) ==
    LET t == p.dragging
        i == IndexOf(p.tiles, t)
        q == [p EXCEPT !.dragging = NoTile, !.clone[t] = "placing"]
        r == IF i >= 0 THEN PositionTiles(q, [j \in {i} |-> 0]) ELSE q
    IN CASE trash -> [r EXCEPT !.clone[t] = "sent"]
         [] i < 0 -> r
         [] selected /\ ~copy -> [r EXCEPT !.clone[t] = "sent"]
         [] OTHER -> r

\* Tile.onDragEnd_ of the dragged tile: its clone is shown with 'placing'
\* (onDragEnd_ unhides it first, so its later dragClone.hidden test is
\* always false), no tile is being dragged, and the tile, unless its page
\* has removed it (tilePage null), is put in its cell.  Then the clone is
\* sent to the trash (landedOnTrash), glides back to the grid (the page is
\* the selected card and the last drop effect was not 'copy'), or gets
\* 'dropped-on-other-page' from a setTimeout of 0.  trash, copy and
\* selected are what the trash, the page's setDropEffect and the card
\* slider, none of them in this file, decided during the drag.
OnDragEnd(p, trash, copy, selected) ==
    LET t == p.dragging
        i == IndexOf(p.tiles, t)
        q == [p EXCEPT !.dragging = NoTile, !.clone[t] = "placing"]
        r == IF i >= 0 THEN PositionTiles(q, [j \in {i} |-> 0]) ELSE q
    IN CASE trash -> [r EXCEPT !.clone[t] = "sent"]
         [] i < 0 -> r
         [] selected /\ ~copy -> [r EXCEPT !.clone[t] = "sent"]
         [] OTHER -> [r EXCEPT !.timer = @ \cup {t}]

\* The setTimeout of onDragEnd_ fires: it adds 'dropped-on-other-page' to
\* this.dragClone as it is now, which throws once the clone is gone.
DropTimeout(p, t) ==
    IF p.clone[t] = "none"
    THEN [p EXCEPT !.timer = @ \ {t}, !.thrown = TRUE]
    ELSE [p EXCEPT !.timer = @ \ {t}, !.clone[t] = "sent"]

\* Tile.onDragCloneTransitionEnd_: the clone reached its place (its left,
\* top or transform transition ended) and the tile is still 'dragging'.
CloneTransitionEnd(p, t) ==
    IF t \in p.dragCls THEN FinalizeDrag(p, t) ELSE p

\* Tile.doRemove: the contents start their removal animation.
DoRemove(p, t) == [p EXCEPT !.removing = @ \cup {t}]

\* TilePage.removeTile: the tile leaves the grid and the tiles from its
\* index on are positioned again (calculateLayoutValues_ at the same width
\* keeps numRowTiles).
RemoveTile(p, t) ==
    LET idx == IndexOf(p.tiles, t)
        q == [p EXCEPT !.tiles = Remove(@, t), !.gone = @ \cup {t}]
    IN PositionTiles(q, [i \in idx .. Len(q.tiles) - 1 |-> 0])

\* Tile.onContentsAnimationEnd_ after doRemove: this.tilePage.removeTile,
\* which throws when the tile has no page any more.
ContentsAnimationEnd(p, t) ==
    LET q == [p EXCEPT !.removing = @ \ {t}]
    IN IF IndexOf(p.tiles, t) < 0 THEN [q EXCEPT !.thrown = TRUE]
       ELSE RemoveTile(q, t)

CloneStates == {"none", "drag", "placing", "sent"}

\* The type of a page record whose tiles are drawn from ids.
TilePageTypeOK(p, ids) ==
    /\ p.tiles \in Seq(ids) /\ Len(p.tiles) <= Cardinality(ids)
    /\ p.n \in {MinColCount, MaxColCount}
    /\ p.tabOne \subseteq ids /\ p.dopple \subseteq ids
    /\ p.focusIdx \in (-1 .. Cardinality(ids)) \cup {NaN}
    /\ p.focused \in ids \cup {Page, None}
    /\ p.dragging \in ids \cup {NoTile} /\ p.target \in BOOLEAN
    /\ {p.dragItem, p.dropIdx} \subseteq 0 .. Cardinality(ids) - 1
    /\ p.pos \in [ids -> (-1 .. MaxColCount) \X Nat]
    /\ p.thrown \in BOOLEAN
    /\ p.clone \in [ids -> CloneStates]
    /\ {p.dragCls, p.timer, p.removing, p.gone} \subseteq SUBSET ids

=============================================================================
