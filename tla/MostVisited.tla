------------------------------ MODULE MostVisited ------------------------------
(***************************************************************************)
(* ntp4.MostVisitedPage and ntp4.MostVisited (ntp4/most_visited_page.js): *)
(* the New Tab Page's grid of THUMBNAIL_COUNT most visited sites.  The    *)
(* page asks the browser for the list with chrome.send('getMostVisited'); *)
(* the browser answers by setting the page's data, which the first time   *)
(* creates the tiles and later is merged into the shown list by           *)
(* refreshData so that pages stay where they are.  The user removes a     *)
(* page (close button, Del key, or a drag onto the trash), which          *)
(* blacklists it in the browser, blanks the tile, asks for a new list and *)
(* offers an undo notification.                                           *)
(*                                                                         *)
(* Variables:                                                              *)
(*   tp         the TilePage part of the page (module TilePage)           *)
(*   mv         the most visited part:                                    *)
(*     data       MostVisitedPage.data_ (NoData until first set)          *)
(*     tile       MostVisited.data_ of each tile (Null for a filler)      *)
(*     notif      the undo notification: the data and tile its actions   *)
(*                closed over, or NoNotif                                  *)
(*     dragUrl    the URL setDragData put on the drag, or NoUrl           *)
(*     thrown     a handler of the page threw a TypeError                 *)
(*   toBrowser  the chrome.send messages not yet handled by the browser   *)
(*   toPage     the most visited lists the browser has sent, not yet set  *)
(* Both channels are FIFO: chrome.send and the calls back into the page   *)
(* are delivered in order.  A page is [url, pinned]; titles, thumbnails,  *)
(* favicons and colours only change what is drawn and are left out.      *)
(***************************************************************************)
EXTENDS TilePage

CONSTANTS
    Urls,               \* the URLs the browser may list
    THUMBNAIL_COUNT,
    Null, NoData, NoNotif, NoUrl

VARIABLES tp, mv, toBrowser, toPage
mvVars == <<tp, mv, toBrowser, toPage>>

Pages == [url : Urls, pinned : BOOLEAN]
TileNums == 1 .. THUMBNAIL_COUNT

(***************************************************************************)
(* refreshData(oldData, newData), the merge of a new list into the shown *)
(* one.  The JS marks pages 'updated' and 'used' in place; here the three *)
(* loops are folds that carry the list and the used indices of newData.  *)
(***************************************************************************)

Take(s, k) == SubSeq(s, 1, IF Len(s) < k THEN Len(s) ELSE k)

\* Loop 1: pinned pages are copied to their own index (growing the list
\* if it is shorter), and both are marked.
CopyPinned(old, new) ==
    LET pins == { j \in 1 .. Len(new) : new[j].pinned }
        len == IF pins = {} THEN Len(old)
               ELSE LET m == CHOOSE j \in pins : \A k \in pins : k <= j
                    IN IF m > Len(old) THEN m ELSE Len(old)
    IN [d |-> [i \in 1 .. len |-> IF i \in pins THEN new[i]
                                 ELSE IF i <= Len(old) THEN old[i] ELSE Null],
        upd |-> pins, used |-> pins]

\* Loop 2: an old page that is still in the new list stays where it is.
RECURSIVE KeepOld(_, _, _)
KeepOld(st, new, i) ==
    IF i > Len(st.d) THEN st
    ELSE IF st.d[i] = Null \/ i \in st.upd THEN KeepOld(st, new, i + 1)
    ELSE LET js == { j \in 1 .. Len(new) \ st.used : new[j].url = st.d[i].url }
         IN IF js = {} THEN KeepOld(st, new, i + 1)
            ELSE LET j == CHOOSE j \in js : \A k \in js : j <= k
                 IN KeepOld([d |-> [st.d EXCEPT ![i] = new[j]],
                             upd |-> st.upd \cup {i}, used |-> st.used \cup {j}],
                            new, i + 1)

\* Mutant: a slot with no unused page left keeps its old page.
RECURSIVE FillRestKeepsStale(_, _, _)
FillRestKeepsStale(st, new, i) ==
    IF i > Len(st.d) THEN st
    ELSE IF st.d[i] # Null /\ i \in st.upd THEN FillRestKeepsStale(st, new, i + 1)
    ELSE LET free == (1 .. Len(new)) \ st.used
         IN IF free = {}
            THEN FillRestKeepsStale(st, new, i + 1)
            ELSE LET j == CHOOSE j \in free : \A k \in free : j <= k
                 IN FillRestKeepsStale([d |-> [st.d EXCEPT ![i] = new[j]],
                                        upd |-> st.upd \cup {i}, used |-> st.used \cup {j}],
                                       new, i + 1)

\* Loop 3: every other slot takes the first unused new page, or null.
RECURSIVE FillRest(_, _, _)
FillRest(st, new, i) ==
    IF i > Len(st.d) THEN st
    ELSE IF st.d[i] # Null /\ i \in st.upd THEN FillRest(st, new, i + 1)
    ELSE LET free == (1 .. Len(new)) \ st.used
         IN IF free = {}
            THEN FillRest([st EXCEPT !.d[i] = Null], new, i + 1)
            ELSE LET j == CHOOSE j \in free : \A k \in free : j <= k
                 IN FillRest([d |-> [st.d EXCEPT ![i] = new[j]],
                              upd |-> st.upd \cup {i}, used |-> st.used \cup {j}],
                             new, i + 1)

refreshData(oldData, newData) ==
    LET old == Take(oldData, THUMBNAIL_COUNT)
        new == Take(newData, THUMBNAIL_COUNT)
    IN FillRest(KeepOld(CopyPinned(old, new), new, 1), new, 1).d

(***************************************************************************)
(* The page.                                                               *)
(***************************************************************************)

\* Contents with the 'focusable' class: updateForData adds it for a page,
\* reset() rewrites the className without it.
Focusable == { i \in TileNums : mv.tile[i] # Null }

\* updateTiles_: tile i shows the i-th page; past the end of the list it
\* is reset, and a null entry resets a tile that showed a page.  reset()
\* also sets tabIndex to -1.
UpdateTiles(d) ==
    LET shown(i) == IF i <= Len(d) THEN d[i] ELSE Null
        reset == { i \in TileNums : i > Len(d) \/ (d[i] = Null /\ mv.tile[i] # Null) }
    IN /\ mv' = [mv EXCEPT !.data = d, !.tile = [i \in TileNums |-> shown(i)]]
       /\ tp' = [(IF mv.data = NoData
                  THEN RepositionTiles([tp EXCEPT !.tiles = [i \in TileNums |-> i]],
                                       NoTile)
                  ELSE tp) EXCEPT !.tabOne = @ \ reset]

\* The browser calls the data setter: the first time it creates the
\* THUMBNAIL_COUNT tiles and keeps the first THUMBNAIL_COUNT pages, later
\* it merges the list with refreshData; then updateTiles_.
SetData ==
    /\ toPage # <<>>
    /\ LET new == Head(toPage)
       IN IF mv.data = NoData
          THEN /\ UpdateTiles(Take(new, THUMBNAIL_COUNT))
          ELSE /\ UpdateTiles(refreshData(mv.data, new))
    /\ toPage' = Tail(toPage)
    /\ UNCHANGED toBrowser

\* Mutant: the list is asked for before the blacklisting is sent.
BlacklistGetFirst(i, du) ==
    /\ LET d == mv.tile[i]
       IN IF d = Null
          THEN /\ mv' = [mv EXCEPT !.notif = [data |-> d, tile |-> i],
                                   !.thrown = TRUE, !.dragUrl = du]
               /\ UNCHANGED <<tp, toBrowser>>
          ELSE /\ mv' = [mv EXCEPT !.notif = [data |-> d, tile |-> i],
                                   !.tile[i] = Null, !.dragUrl = du]
               /\ tp' = [tp EXCEPT !.tabOne = @ \ {i}]
               /\ toBrowser' = toBrowser \o <<[kind |-> "get", url |-> NoUrl],
                                              [kind |-> "blacklist", url |-> d.url]>>
    /\ UNCHANGED toPage
\* blacklist_: showUndoNotification_ replaces the notification with one
\* whose actions close over the tile's data_; then
\* chrome.send('blacklistURLFromMostVisited', [data_.url]), which throws
\* when the tile is a filler; otherwise reset() and getMostVisited.
Blacklist(i, du) ==
    /\ LET d == mv.tile[i]
       IN IF d = Null
          THEN /\ mv' = [mv EXCEPT !.notif = [data |-> d, tile |-> i],
                                   !.thrown = TRUE, !.dragUrl = du]
               /\ UNCHANGED <<tp, toBrowser>>
          ELSE /\ mv' = [mv EXCEPT !.notif = [data |-> d, tile |-> i],
                                   !.tile[i] = Null, !.dragUrl = du]
               /\ tp' = [tp EXCEPT !.tabOne = @ \ {i}]
               /\ toBrowser' = toBrowser \o <<[kind |-> "blacklist", url |-> d.url],
                                              [kind |-> "get", url |-> NoUrl]>>
    /\ UNCHANGED toPage

\* handleClick_ on the close button (which a filler does not show).
CloseClick(i) == mv.tile[i] # Null /\ Blacklist(i, mv.dragUrl)

\* MostVisited.handleKeyDown_: Del on the tile that has DOM focus.
DelKey(i) == tp.focused = i /\ Blacklist(i, mv.dragUrl)

\* Mutant: undo shows the page again without un-blacklisting it.
UndoNoUnblacklist ==
    /\ mv.notif # NoNotif
    /\ LET d == mv.notif.data
           i == mv.notif.tile
       IN IF d = Null
          THEN mv' = [mv EXCEPT !.notif = NoNotif, !.thrown = TRUE]
          ELSE mv' = [mv EXCEPT !.notif = NoNotif, !.tile[i] = d]
    /\ UNCHANGED <<tp, toBrowser, toPage>>

\* The undo action of the notification (the notification closes when an
\* action is clicked): removeURLsFromMostVisitedBlacklist with the closed
\* over data's url, which throws for null data, then updateForData(data)
\* on the tile it came from.
Undo ==
    /\ mv.notif # NoNotif
    /\ LET d == mv.notif.data
           i == mv.notif.tile
       IN IF d = Null
          THEN /\ mv' = [mv EXCEPT !.notif = NoNotif, !.thrown = TRUE]
               /\ UNCHANGED toBrowser
          ELSE /\ mv' = [mv EXCEPT !.notif = NoNotif, !.tile[i] = d]
               /\ toBrowser' = Append(toBrowser, [kind |-> "unblacklist", url |-> d.url])
    /\ UNCHANGED <<tp, toPage>>

\* The undo-all action: clearMostVisitedURLsBlacklist.
UndoAll ==
    /\ mv.notif # NoNotif
    /\ mv' = [mv EXCEPT !.notif = NoNotif]
    /\ toBrowser' = Append(toBrowser, [kind |-> "clear", url |-> NoUrl])
    /\ UNCHANGED <<tp, toPage>>

\* The notification times out.
NotifTimeout ==
    /\ mv.notif # NoNotif
    /\ mv' = [mv EXCEPT !.notif = NoNotif]
    /\ UNCHANGED <<tp, toBrowser, toPage>>

\* Tile.onDragStart_ on a tile showing a page makes it the dragging tile,
\* and setDragData puts the page's url on the drag.  The drag clone's
\* lifecycle is checked in MCTilePage.
StartDrag(i) ==
    /\ tp.dragging = NoTile /\ mv.data # NoData /\ mv.tile[i] # Null
    /\ tp' = SetCurrentlyDraggingTile(tp, i)
    /\ mv' = [mv EXCEPT !.dragUrl = mv.tile[i].url]
    /\ UNCHANGED <<toBrowser, toPage>>

\* The trash (trash.js, not in this repository) takes the drop and calls
\* removeFromChrome on the dragged tile's contents: blacklist_.
TrashDrop ==
    /\ mv.dragUrl # NoUrl
    /\ Blacklist(tp.dragging, NoUrl)

\* The dragend event (after a drop on the trash or anywhere else):
\* onDragEnd_ clears the dragging tile.
EndDrag ==
    /\ tp.dragging # NoTile
    /\ tp' = SetCurrentlyDraggingTile(tp, NoTile)
    /\ mv' = [mv EXCEPT !.dragUrl = NoUrl]
    /\ UNCHANGED <<toBrowser, toPage>>

\* handleMouseDown_ of the page for a press on tile i (keyboard focus
\* and resizing are checked on their own, in MCTilePage).
PressTile(i) ==
    /\ mv.data # NoData
    /\ tp' = MouseDown(tp, Focusable, i)
    /\ UNCHANGED <<mv, toBrowser, toPage>>

(***************************************************************************)
(* The New Tab Page's most visited page together with the browser that     *)
(* answers it.  The browser (C++, not in this repository) handles the     *)
(* chrome.send messages in order: it blacklists, un-blacklists or clears, *)
(* and answers getMostVisited with the first THUMBNAIL_COUNT URLs of      *)
(* Ranking that are not blacklisted, the Pinned ones marked pinned.       *)
(*                                                                         *)
(* The user presses tiles (which moves keyboard focus to a page's tile),  *)
(* removes pages with the close button, the Del key or the trash, and     *)
(* clicks the notification's undo actions.  The arrow keys and Tab only   *)
(* decide which page's tile has focus when Del is pressed, and a press   *)
(* reaches the same tiles, so they are checked separately (MCTilePage).   *)
(***************************************************************************)

CONSTANTS
    Ranking,        \* the browser's most visited order
    Pinned,         \* the pinned URLs
    Width, Height,  \* the window size
    MaxQueue        \* bound on messages and lists in flight

VARIABLE bl         \* the browser's blacklist
vars == <<tp, mv, toBrowser, toPage, bl>>

\* The browser's answer to getMostVisited.
Reply(b) ==
    LET l == Take(SelectSeq(Ranking, LAMBDA u : u \notin b), THUMBNAIL_COUNT)
    IN [k \in DOMAIN l |-> [url |-> l[k], pinned |-> l[k] \in Pinned]]

BrowserStep ==
    /\ toBrowser # <<>>
    /\ LET m == Head(toBrowser)
       IN /\ bl' = CASE m.kind = "blacklist"   -> bl \cup {m.url}
                     [] m.kind = "unblacklist" -> bl \ {m.url}
                     [] m.kind = "clear"       -> {}
                     [] OTHER                  -> bl
          /\ toPage' = IF m.kind = "get" THEN Append(toPage, Reply(bl)) ELSE toPage
    /\ toBrowser' = Tail(toBrowser)
    /\ UNCHANGED <<tp, mv>>

Init ==
    /\ tp = TilePageInit(<<>>, Width, Height)
    /\ mv = [data |-> NoData, tile |-> [i \in TileNums |-> Null],
             notif |-> NoNotif, dragUrl |-> NoUrl, thrown |-> FALSE]
    /\ toBrowser = << [kind |-> "get", url |-> NoUrl] >>   \* sent on load
    /\ toPage = <<>>
    /\ bl = {}

\* A user action that sends k messages waits until they fit the bound.
Room(k) == Len(toBrowser) + Len(toPage) + k <= MaxQueue

PageNext ==
    \/ SetData
    \/ \E i \in TileNums : Room(2) /\ (CloseClick(i) \/ DelKey(i))
    \/ Room(1) /\ (Undo \/ UndoAll)
    \/ NotifTimeout
    \/ \E i \in TileNums : StartDrag(i) \/ PressTile(i)
    \/ Room(2) /\ TrashDrop
    \/ EndDrag

Next == (PageNext /\ UNCHANGED bl) \/ BrowserStep

\* The browser handles every message and the page every list it is sent:
\* both are event loops that are never starved.  The page's fairness is
\* weak fairness of SetData with ENABLED written out (SetData can always
\* take the list at the head of toPage).
SetDataFair == []<>(toPage = <<>>) \/ []<><<SetData /\ UNCHANGED bl>>_vars
Spec == Init /\ [][Next]_vars /\ WF_vars(BrowserStep) /\ SetDataFair

Msgs == [kind : {"blacklist", "unblacklist"}, url : Urls]
          \cup [kind : {"get", "clear"}, url : {NoUrl}]

TypeOK ==
    /\ TilePageTypeOK(tp, TileNums)
    /\ mv.data \in {NoData} \cup Seq(Pages \cup {Null})
    /\ mv.tile \in [TileNums -> Pages \cup {Null}]
    /\ mv.notif \in {NoNotif} \cup [data : Pages \cup {Null}, tile : TileNums]
    /\ toBrowser \in Seq(Msgs) /\ Len(toBrowser) <= MaxQueue
    /\ toPage \in Seq(Seq(Pages))
    /\ bl \subseteq Urls

Shown == { mv.tile[i].url : i \in { j \in TileNums : mv.tile[j] # Null } }

\* No two tiles show the same page.  refreshData keeps a page that is
\* still listed in its slot and fills the others only with unused pages,
\* and undo puts a page back only on the tile it was removed from; a
\* stale list, a pin or an undo racing a refresh must not duplicate one.
NoPageTwice ==
    \A i, j \in TileNums :
        i # j /\ mv.tile[i] # Null /\ mv.tile[j] # Null
          => mv.tile[i].url # mv.tile[j].url

\* Once every message has been handled and every list set, no tile shows
\* a blacklisted page: blacklist_ sends the blacklisting before it asks
\* for the list, so the last list the page gets leaves the page out.
QuietHidesBlacklisted ==
    toBrowser = <<>> /\ toPage = <<>> => Shown \cap bl = {}

\* Pages that are blacklisted while tiles show them (a list asked for
\* before a removal can bring one back) eventually leave the grid or are
\* un-blacklisted: every removal asks for a list after the blacklisting,
\* and the browser and the page handle every message and list.
RemovedPageLeaves == Shown \cap bl # {} ~> Shown \cap bl = {}

\* refreshData against its contract: pinned pages at their index, every
\* page the old list shows and the new one still lists (unpinned) kept in
\* its slot, only pages of the new list shown, none twice, and as many of
\* them as there are slots.
MergeOK(oldData, newData, res) ==
    LET old == Take(oldData, THUMBNAIL_COUNT)
        new == Take(newData, THUMBNAIL_COUNT)
        pins == { j \in DOMAIN new : new[j].pinned }
        placed == { i \in DOMAIN res : res[i] # Null }
        unpinnedUrls == { new[j].url : j \in DOMAIN new \ pins }
    IN /\ Len(res) = Max({Len(old)} \cup pins)
       /\ \A j \in pins : res[j] = new[j]
       /\ \A i \in DOMAIN old \ pins :
             old[i] # Null /\ old[i].url \in unpinnedUrls
               => res[i] # Null /\ res[i].url = old[i].url
       /\ \A i \in placed : res[i] \in Range(new)
       /\ \A i, k \in placed : i # k => res[i].url # res[k].url
       /\ Cardinality(placed) = Min({Len(res), Len(new)})

RefreshDataSound ==
    [][ mv.data # NoData /\ toPage # <<>> /\ toPage' = Tail(toPage)
          => MergeOK(mv.data, Head(toPage), mv'.data) ]_vars

MCTileIds == 1 .. 2
MCRanking == <<"a", "b", "c">>

=============================================================================
