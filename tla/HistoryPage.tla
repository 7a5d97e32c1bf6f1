----------------------------- MODULE HistoryPage -----------------------------
(***************************************************************************)
(* The history page (chrome/browser/resources/history.js): HistoryModel,  *)
(* HistoryView, the PageState hash checker, the edit-mode checkboxes and   *)
(* the deletion queue, with the browser's side of chrome.send.             *)
(*                                                                         *)
(* The page's globals and objects are fields of one record w, so that a   *)
(* handler is one action made of the methods it calls, in the code's      *)
(* order:                                                                  *)
(*   HistoryModel   searchText, searchDepth, pages, requestedPage (reqStr: *)
(*                  it holds a string), inFlight, changed, complete,       *)
(*                  editMode;                                              *)
(*   HistoryView    pageIndex, rendered (the pages with isRendered, its    *)
(*                  currentPages_), nav (the pages the navigation links    *)
(*                  of the last displayNavBar_ lead to);                   *)
(*   checkboxes     boxes (ids of the checkboxes in the document),         *)
(*                  checked, disabled, reg (the ids id2checkbox holds),    *)
(*                  anchor (selectionAnchor), exc (a TypeError left        *)
(*                  checkboxClicked);                                      *)
(*   hash           window.location.hash as [e, q, p];                     *)
(*   deletion       deleteQueue (one batch per [day, ids] pair),           *)
(*                  deleteInFlight, retries (pending setTimeouts).         *)
(* A page id is its index in pages, counted from 0: last_id_ only grows   *)
(* with pages.                                                             *)
(*                                                                         *)
(* The browser (history_ui.cc, not in src/) holds at most one query: a    *)
(* new one cancels one it has not answered, and an answer already sent    *)
(* still reaches the page (query, answers).  It deletes one batch at a    *)
(* time, reporting deleteComplete or deleteFailed (delReplies), and a     *)
(* completed deletion also raises historyDeleted (notices).  sent,        *)
(* submitted and done are history: the queries sent, the batches the user *)
(* confirmed and the batches the browser deleted.                          *)
(***************************************************************************)
EXTENDS Integers, Sequences, SequencesExt, FiniteSets, FiniteSetsExt

CONSTANTS
    None,
    Terms,                     \* search texts the user may enter; "" browses
    Results,                   \* Results[t][d + 1]: the answer at depth d
    RESULTS_PER_PAGE,
    MAX_SEARCH_DEPTH_MONTHS,
    Today,                     \* the day of new Date() in removeItems
    InitialHashes,             \* the hashes the page may be loaded with
    PageNumbers,               \* the pages a typed or recalled hash names
    MaxClicks,                 \* user actions in a behaviour
    MaxDeleteFailures          \* deleteFailed replies in a behaviour

VARIABLE w

vars == <<w>>

R == RESULTS_PER_PAGE

(***************************************************************************)
(* HistoryModel.                                                           *)
(***************************************************************************)

\* view_.clear_(): the results are removed from the document, with their
\* checkboxes, and the pages shown lose isRendered.  The navigation bar
\* (pageDiv_) is left as it is.
Clear(s) == [s EXCEPT !.rendered = {}, !.boxes = {}, !.checked = {}, !.disabled = {}]

\* clearModel_ without its reset of id2checkbox.
ClearModelKeepsCheckboxes(s) ==
    Clear([s EXCEPT !.inFlight = FALSE, !.searchText = "", !.searchDepth = 0,
                    !.pages = <<>>, !.anchor = -1,
                    !.requestedPage = 0, !.reqStr = FALSE, !.complete = FALSE])

\* clearModel_(), with its call of view_.clear_().
ClearModel(s) ==
    Clear([s EXCEPT !.inFlight = FALSE, !.searchText = "", !.searchDepth = 0,
                    !.pages = <<>>, !.anchor = -1, !.reg = {},
                    !.requestedPage = 0, !.reqStr = FALSE, !.complete = FALSE])

\* getSearchResults_(depth): getHistory or searchHistory at that depth.
GetSearchResults(s, depth) ==
    [s EXCEPT !.searchDepth = depth, !.inFlight = TRUE, !.sent = @ + 1,
              !.query = [term |-> s.searchText, depth |-> depth]]

\* haveDataForPage_(requestedPage_).
HaveDataForPage(s) == s.requestedPage * R < Len(s.pages)

\* The value of requestedPage_ + 1: a page number handed over as a string
\* is concatenated with "1", which reads as ten times the page plus one.
PagePlusOne(s) == IF s.reqStr THEN s.requestedPage * 10 + 1 ELSE s.requestedPage + 1

\* canFillPage_(requestedPage_).
CanFillPage(s) == PagePlusOne(s) * R <= Len(s.pages)

\* The ids getNumberedRange returns for the view's page.
PageRange(s) ==
    {i \in 0..Len(s.pages) - 1 : s.pageIndex * R <= i /\ i < s.pageIndex * R + R}

\* displayNavBar_(): newest and newer past the first page, older while the
\* model holds pages beyond this one.
DisplayNavBar(s) ==
    [s EXCEPT !.nav = (IF s.pageIndex > 0 THEN {0, s.pageIndex - 1} ELSE {})
                      \cup (IF Len(s.pages) > (s.pageIndex + 1) * R
                            THEN {s.pageIndex + 1} ELSE {})]

\* onModelReady() -> displayResults_(): the pages of the range not yet
\* rendered are appended, with a registered checkbox each in edit mode
\* (getBrowseResultDOM / getSearchResultDOM), then the navigation bar.
DisplayResults(s) ==
    LET new == PageRange(s) \ s.rendered
        boxed == IF s.editMode THEN new ELSE {}
    IN DisplayNavBar([s EXCEPT !.rendered = @ \cup new, !.boxes = @ \cup boxed,
                               !.reg = @ \cup boxed])

\* updateSearch_(finished).
UpdateSearch(s, finished) ==
    IF (s.searchText # "" /\ s.searchDepth >= MAX_SEARCH_DEPTH_MONTHS) \/ finished
    THEN [DisplayResults([s EXCEPT !.complete = TRUE]) EXCEPT !.changed = FALSE]
    ELSE LET s1 == IF ~s.inFlight /\ ~CanFillPage(s)
                   THEN GetSearchResults(s, s.searchDepth + 1) ELSE s
         IN IF s1.changed /\ HaveDataForPage(s1)
            THEN [DisplayResults(s1) EXCEPT !.changed = FALSE]
            ELSE s1

\* The loop of addResults: a result is dropped when its URL is the one of
\* the page before it.
AppendResults(pages, results) ==
    FoldLeft(LAMBDA ps, r : IF ps # <<>> /\ Last(ps).url = r.url THEN ps ELSE Append(ps, r),
             pages, results)

\* addResults without setting changed when results arrive.
AddResultsNoChanged(s, a) ==
    LET s1 == [s EXCEPT !.inFlight = FALSE]
    IN IF a.term # s.searchText THEN s1
       ELSE UpdateSearch([s1 EXCEPT !.pages = AppendResults(@, a.results)], a.finished)

\* addResults(info, results): results for another term are dropped, after
\* inFlight_ is cleared.
AddResults(s, a) ==
    LET s1 == [s EXCEPT !.inFlight = FALSE]
    IN IF a.term # s.searchText THEN s1
       ELSE UpdateSearch([s1 EXCEPT !.pages = AppendResults(@, a.results),
                                    !.changed = @ \/ a.results # <<>>],
                         a.finished)

\* setSearchText(searchText, opt_page).
SetSearchText(s, t, page) ==
    GetSearchResults([ClearModel(s) EXCEPT !.searchText = t, !.requestedPage = page], 0)

\* reload(): a new search for the same text and page.
Reload(s) ==
    GetSearchResults([ClearModel(s) EXCEPT !.searchText = s.searchText,
                                           !.requestedPage = s.requestedPage,
                                           !.reqStr = s.reqStr], 0)

\* requestPage(page); str: page is a string.
RequestPage(s, page, str) ==
    UpdateSearch([s EXCEPT !.requestedPage = page, !.reqStr = str, !.changed = TRUE], FALSE)

(***************************************************************************)
(* HistoryView and PageState.                                              *)
(***************************************************************************)

\* pageState.setUIState(editMode, term, page): the hash is rewritten when
\* it differs, which leaves it equal to the state either way.
SetUIState(s, editMode, term, page) == [s EXCEPT !.hash = [e |-> editMode, q |-> term, p |-> page]]

\* updateEditControls_(): in edit mode a new remove button, disabled.
UpdateEditControls(s) == [s EXCEPT !.removeDisabled = TRUE]

\* updateRemoveButton_, the page's click listener after a checkbox's own:
\* the remove button is enabled when a checkbox in the page is checked.
UpdateRemoveButton(s) == [s EXCEPT !.removeDisabled = s.boxes \cap s.checked = {}]

\* historyView.setSearch(term, opt_page).
ViewSetSearch(s, t, page) ==
    LET s1 == UpdateEditControls(SetSearchText([s EXCEPT !.pageIndex = page], t, page))
    IN SetUIState(s1, s1.editMode, t, page)

\* historyView.setPage(page); str: page is a string.
ViewSetPage(s, page, str) ==
    LET s1 == RequestPage([Clear(s) EXCEPT !.pageIndex = page], page, str)
    IN SetUIState(s1, s1.editMode, s1.searchText, page)

\* historyView.toggleEditMode(); updateEditControls_ only redraws buttons.
ViewToggleEditMode(s) ==
    UpdateEditControls(SetUIState([s EXCEPT !.editMode = ~s.editMode], ~s.editMode,
                                  s.searchText, s.pageIndex))

\* load(): new HistoryModel, HistoryView and PageState on hash h, the edit
\* mode the hash asks for, then the search and page it names.
Load(h) ==
    LET s0 == [searchText |-> "", searchDepth |-> 0, pages |-> <<>>, requestedPage |-> 0,
               reqStr |-> FALSE, inFlight |-> FALSE, changed |-> FALSE, complete |-> FALSE,
               editMode |-> FALSE, pageIndex |-> 0, rendered |-> {}, nav |-> {},
               boxes |-> {}, checked |-> {}, disabled |-> {}, reg |-> {}, anchor |-> -1,
               exc |-> FALSE, hash |-> h, query |-> None, answers |-> <<>>, sent |-> 0,
               deleteQueue |-> <<>>, deleteInFlight |-> FALSE, deleting |-> None,
               delReplies |-> <<>>, retries |-> 0, notices |-> 0, submitted |-> <<>>,
               done |-> <<>>, failures |-> 0, clicks |-> 0, removeDisabled |-> TRUE]
        s1 == IF h.e THEN ViewToggleEditMode(s0) ELSE s0
    IN ViewSetSearch(s1, h.q, h.p)

(***************************************************************************)
(* Deletion.                                                               *)
(***************************************************************************)

\* deleteNextInQueue without the deleteInFlight test.
DeleteNextInQueueUnguarded(s) ==
    IF s.deleteQueue # <<>>
    THEN [s EXCEPT !.deleteInFlight = TRUE, !.deleting = Head(s.deleteQueue)]
    ELSE s

\* deleteNextInQueue(): removeURLsOnOneDay for the first batch.
DeleteNextInQueue(s) ==
    IF ~s.deleteInFlight /\ s.deleteQueue # <<>>
    THEN [s EXCEPT !.deleteInFlight = TRUE, !.deleting = Head(s.deleteQueue)]
    ELSE s

\* The loop of removeItems without date = cbDate: every batch is dated
\* today.
BatchesNoDateUpdate(s, ids) ==
    LET step(acc, id) ==
            LET pg == s.pages[id + 1]
            IN IF pg.day # acc.date
               THEN [acc EXCEPT !.ids = <<pg>>,
                     !.queue = IF acc.ids # <<>>
                               THEN Append(acc.queue, [day |-> acc.date, items |-> acc.ids])
                               ELSE acc.queue]
               ELSE [acc EXCEPT !.ids = Append(@, pg)]
        last == FoldLeft(step, [date |-> Today, ids |-> <<>>, queue |-> <<>>], ids)
    IN IF last.ids # <<>> THEN Append(last.queue, [day |-> last.date, items |-> last.ids])
       ELSE last.queue

\* The loop of removeItems over the checked, enabled checkboxes in document
\* order: a batch is closed when the day changes, the first day compared
\* being today.  A batch holds the pages whose links it sends.
Batches(s, ids) ==
    LET step(acc, id) ==
            LET pg == s.pages[id + 1]
            IN IF pg.day # acc.date
               THEN [date |-> pg.day, ids |-> <<pg>>,
                     queue |-> IF acc.ids # <<>>
                               THEN Append(acc.queue, [day |-> acc.date, items |-> acc.ids])
                               ELSE acc.queue]
               ELSE [acc EXCEPT !.ids = Append(@, pg)]
        last == FoldLeft(step, [date |-> Today, ids |-> <<>>, queue |-> <<>>], ids)
    IN IF last.ids # <<>> THEN Append(last.queue, [day |-> last.date, items |-> last.ids])
       ELSE last.queue

\* removeItems(), ok being the answer to confirm(): the batches are queued
\* and the first sent; a refusal enables the checkboxes again.
RemoveItems(s, ok) ==
    LET ids == SetToSortSeq((s.boxes \cap s.checked) \ s.disabled, LAMBDA a, b : a < b)
        queue == Batches(s, ids)
    IN CASE queue = <<>> -> s
         [] ok -> DeleteNextInQueue([s EXCEPT !.disabled = @ \cup ToSet(ids),
                                              !.deleteQueue = @ \o queue,
                                              !.submitted = @ \o queue])
         [] OTHER -> s

\* deleteComplete(): the next batch, or an empty queue.
DeleteComplete(s) ==
    LET s1 == [s EXCEPT !.deleteInFlight = FALSE]
    IN IF Len(s.deleteQueue) > 1
       THEN DeleteNextInQueue([s1 EXCEPT !.deleteQueue = Tail(@)])
       ELSE [s1 EXCEPT !.deleteQueue = <<>>]

\* checkboxClicked(event) on checkbox id, which the click has just toggled:
\* with shift and an anchor, every checkbox from the anchor to id takes its
\* state; id2checkbox[i] of a page never rendered is undefined and throws,
\* leaving the ones before it set and the anchor unchanged.
CheckboxClicked(s, id, shift) ==
    LET on == id \notin s.checked
        s1 == [s EXCEPT !.checked = IF on THEN @ \cup {id} ELSE @ \ {id}]
        lo == Min({id, s.anchor})
        hi == Max({id, s.anchor})
        missing == {i \in lo..hi : i \notin s.reg}
        upto == IF missing = {} THEN hi ELSE Min(missing) - 1
        set == (lo..upto) \cap s.boxes
    IN IF shift /\ s.anchor # -1
       THEN [s1 EXCEPT !.checked = IF on THEN @ \cup set ELSE @ \ set,
                       !.exc = missing # {},
                       !.anchor = IF missing = {} THEN id ELSE @]
       ELSE [s1 EXCEPT !.anchor = id]

(***************************************************************************)
(* Actions.                                                                *)
(***************************************************************************)

\* A user action, counted against MaxClicks.
UserAct(s1) == w.clicks < MaxClicks /\ w' = [s1 EXCEPT !.clicks = @ + 1]

\* The search form's onsubmit (setSearch(term.value)) and the history
\* section's onclick (setSearch('')).
SubmitSearch(t) == UserAct(ViewSetSearch(w, t, 0))

\* A navigation link's onclick: setPage(page) with the number it was made
\* with.
ClickNav(p) == p \in w.nav /\ UserAct(ViewSetPage(w, p, FALSE))

\* The edit button's onclick: toggleEditMode(), then historyView.reload().
ClickEdit == UserAct(Reload(ViewToggleEditMode(w)))

\* The back button or a typed URL changes the hash.
SetHash(q, p) == UserAct([w EXCEPT !.hash = [e |-> w.hash.e, q |-> q, p |-> p]])

\* A checkbox's click, with or without shift: checkboxClicked, then the
\* page's listener, which runs even when checkboxClicked has thrown.
ClickCheckbox(id, shift) ==
    /\ id \in w.boxes \ w.disabled
    /\ UserAct(UpdateRemoveButton(CheckboxClicked([w EXCEPT !.exc = FALSE], id, shift)))

\* The remove button's onclick, with the user's answer to confirm; a
\* disabled button takes no click.
ClickRemove(ok) == w.editMode /\ ~w.removeDisabled /\ UserAct(RemoveItems(w, ok))

\* The PageState checker's interval: a new term in the hash starts a search,
\* a new page is set with the hash's text for it.
Tick ==
    /\ w.hash.q # w.searchText \/ w.hash.p # w.pageIndex
    /\ w' = IF w.hash.q # w.searchText THEN ViewSetSearch(w, w.hash.q, w.hash.p)
            ELSE ViewSetPage(w, w.hash.p, TRUE)

\* The browser answers the query it holds.
BrowserAnswers ==
    /\ w.query # None
    /\ LET q == w.query
           rs == Results[q.term]
       IN w' = [w EXCEPT !.query = None,
                         !.answers = Append(@, [term |-> q.term,
                             results |-> IF q.depth < Len(rs) THEN rs[q.depth + 1] ELSE <<>>,
                             finished |-> q.depth + 1 >= Len(rs)])]

\* historyResult(info, results) -> historyModel.addResults.
HistoryResult ==
    /\ w.answers # <<>>
    /\ w' = AddResults([w EXCEPT !.answers = Tail(@)], Head(w.answers))

\* The browser deletes the batch it was sent, or reports it busy.
BrowserDeletes(ok) ==
    /\ w.deleting # None
    /\ ok \/ w.failures < MaxDeleteFailures
    /\ w' = IF ok THEN [w EXCEPT !.deleting = None, !.done = Append(@, w.deleting),
                                 !.notices = @ + 1, !.delReplies = Append(@, "complete")]
            ELSE [w EXCEPT !.deleting = None, !.failures = @ + 1,
                           !.delReplies = Append(@, "failed")]

\* deleteFailed without clearing deleteInFlight.
DeleteReplyKeepsInFlight ==
    /\ w.delReplies # <<>>
    /\ LET s == [w EXCEPT !.delReplies = Tail(@)]
       IN w' = IF Head(w.delReplies) = "complete" THEN DeleteComplete(s)
               ELSE [s EXCEPT !.retries = @ + 1]

\* deleteComplete() and deleteFailed(), the latter setting a timeout.
DeleteReply ==
    /\ w.delReplies # <<>>
    /\ LET s == [w EXCEPT !.delReplies = Tail(@)]
       IN w' = IF Head(w.delReplies) = "complete" THEN DeleteComplete(s)
               ELSE [s EXCEPT !.deleteInFlight = FALSE, !.retries = @ + 1]

\* The timeout of deleteFailed fires deleteNextInQueue.
RetryTimer ==
    /\ w.retries > 0
    /\ w' = DeleteNextInQueue([w EXCEPT !.retries = @ - 1])

\* historyDeleted(): reload unless editing with a checkbox checked.
HistoryDeleted ==
    /\ w.notices > 0
    /\ LET s == [w EXCEPT !.notices = @ - 1]
       IN w' = IF w.editMode /\ w.boxes \cap w.checked # {} THEN s ELSE Reload(s)

Init == \E h \in InitialHashes : w = Load(h)

Next ==
    \/ \E t \in Terms : SubmitSearch(t)
    \/ \E p \in PageNumbers : ClickNav(p)
    \/ ClickEdit
    \/ \E q \in Terms, p \in PageNumbers : SetHash(q, p)
    \/ \E id \in w.boxes, shift \in BOOLEAN : ClickCheckbox(id, shift)
    \/ \E ok \in BOOLEAN : ClickRemove(ok)
    \/ Tick
    \/ BrowserAnswers
    \/ HistoryResult
    \/ \E ok \in BOOLEAN : BrowserDeletes(ok)
    \/ DeleteReply
    \/ RetryTimer
    \/ HistoryDeleted

\* setInterval fires the checker until the page closes; the browser
\* answers every query it holds and every deletion it was sent, and the
\* page's event loop runs every reply and timeout.  Each is weak fairness
\* WF_vars(A), written out as []<>~ENABLED A \/ []<><<A>>_vars with the
\* enabling condition of A (every step of these actions changes w).
Fairness ==
    /\ []<>(w.hash.q = w.searchText /\ w.hash.p = w.pageIndex) \/ []<><<Tick>>_vars
    /\ []<>(w.query = None) \/ []<><<BrowserAnswers>>_vars
    /\ []<>(w.answers = <<>>) \/ []<><<HistoryResult>>_vars
    /\ []<>(w.deleting = None) \/ []<><<\E ok \in BOOLEAN : BrowserDeletes(ok)>>_vars
    /\ []<>(w.delReplies = <<>>) \/ []<><<DeleteReply>>_vars
    /\ []<>(w.retries = 0) \/ []<><<RetryTimer>>_vars
    /\ []<>(w.notices = 0) \/ []<><<HistoryDeleted>>_vars

Spec == Init /\ [][Next]_vars /\ Fairness

(***************************************************************************)
(* Properties.                                                             *)
(***************************************************************************)

Entry == [url : STRING, day : Int]
Batch == [day : Int, items : Seq(Entry)]

TypeOK ==
    /\ w.searchText \in Terms
    /\ w.pages \in Seq(Entry)
    /\ w.query \in {None} \cup [term : Terms, depth : Nat]
    /\ w.rendered \cup w.boxes \cup w.checked \cup w.disabled \cup w.reg
          \subseteq 0..Len(w.pages) - 1
    /\ w.anchor \in {-1} \cup 0..Len(w.pages) - 1
    /\ w.hash \in [e : BOOLEAN, q : Terms, p : Nat]
    /\ w.deleteQueue \in Seq(Batch)
    /\ w.deleting \in {None} \cup Batch
    /\ w.delReplies \in Seq({"complete", "failed"})
    /\ w.removeDisabled \in BOOLEAN

\* The pages of term t after the answers to depths 0 .. k - 1, in order.
QueryPages(t, k) ==
    FoldLeft(LAMBDA ps, d : AppendResults(ps, Results[t][d]), <<>>, [i \in 1..k |-> i])

\* The model holds the results of its own search, month after month from
\* the newest: pages are the answers to depths 0, 1, ... of searchText_,
\* each once and in order (addResults appends whatever answer carries the
\* current term).
PagesFollowQuery ==
    \E k \in 0..Len(Results[w.searchText]) : w.pages = QueryPages(w.searchText, k)

\* Once the user stops, the page comes to rest showing its page: no query
\* is left with the browser or on its way back, and exactly the model's
\* pages of pageIndex_ are rendered (updateSearch_ keeps asking for older
\* months until it can fill the page or the history is exhausted, and
\* calls onModelReady on every change).
PageSettles ==
    <>[](w.query = None /\ w.answers = <<>> /\ w.rendered = PageRange(w))

\* The model asks the browser for an older month only while the requested
\* page cannot be filled from the pages it has: a step of updateSearch_
\* that sends getHistory or searchHistory at a depth past 0 finds fewer
\* than (requestedPage_ + 1) * RESULTS_PER_PAGE pages.
NoOverFetch ==
    [][w'.sent > w.sent /\ w'.searchDepth > 0 =>
          (w'.requestedPage + 1) * R > Len(w'.pages)]_vars

\* A shift-click on a checkbox sets the range from the anchor and never
\* throws: every id between them has a checkbox in id2checkbox.
ShiftClickSafe == ~w.exc

\* Every batch removeItems queues holds the links of pages of the day it
\* is sent for (removeURLsOnOneDay deletes only on that day).
BatchOfOneDay ==
    \A i \in DOMAIN w.submitted :
        \A j \in DOMAIN w.submitted[i].items : w.submitted[i].items[j].day = w.submitted[i].day

\* The browser deletes the confirmed batches in the order they were
\* confirmed, each once, whatever the interleaving of removeItems, retries
\* after deleteFailed and deleteComplete.
DeletedInOrder == IsPrefix(w.done, w.submitted)

\* Every confirmed batch is eventually deleted: deleteFailed's retry and
\* deleteComplete's next send empty the queue.
DeletionsFinish == <>[](w.done = w.submitted)

\* The inputs the configurations check: two months of browsing and three
\* months of one search term.  Days are numbers, 2 being today; u1 .. u3
\* are URLs.  The configurations choose one or two results per page.
E(u, d) == [url |-> u, day |-> d]

\* Browsing: the newest month repeats u1 (dropped as an adjacent
\* duplicate) and reaches back to yesterday, and the older one starts with
\* the URL the newer one ends with.  Searching "a": a hit, an empty month,
\* a hit.
MCResults ==
    ("" :> << <<E("u1", 2), E("u1", 2), E("u2", 1)>>, <<E("u2", 1), E("u3", 1)>> >>)
    @@ ("a" :> << <<E("u2", 2)>>, <<>>, <<E("u3", 1)>> >>)

MCInitialHashes ==
    {[e |-> FALSE, q |-> "", p |-> 0], [e |-> TRUE, q |-> "", p |-> 0]}

=============================================================================
