# Model-checking the Chromium WebUI resources of this tree

This directory holds TLA+ models of the parts of `src/` that have state
worth exploring, the TLC configurations that check them, and
`PROJECT.json`, the machine-readable index of components, runs, mutants,
the source lines each definition models, findings and hazards.

## 1. The system and its parts

`src/` is a slice of Chromium's browser resources: JavaScript behind WebUI
pages, the ChromeOS file manager, the Chromoting (remote desktop) web app,
and some test scripts.  The spec (`spec.md`) singles out the streaming
MPEG-4 atom parser of the file manager as the system's engineering core.

| Part | Source | State and operations | Interacts with |
|---|---|---|---|
| MPEG-4 atom parser | `file_manager/js/mpeg_parser.js` | Per parse call: a metadata object, a chain of FileReader reads (`requestRead`), the buffer of the last read, and a recursive walk (`applyParser`, `parseMpegAtomsInRange`). Per parser object: `rootParser_`. | ByteReader; FileReader (host reads); the metadata dispatcher, which calls `parse` and is not in `src/` |
| ByteReader | not in `src/` (spec 4.1) | A cursor over an ArrayBuffer: `readScalar`, `readString`, `readImage`, `seek`, `pushSeek`/`popSeek`, `validateRead` | The MPEG and ID3 parsers |
| FunctionSequence | `file_manager/js/function_sequence.js` | Index of the current step, callbacks; `start`, `nextStep_`, `onError_`, `finish_` | The ID3 parser |
| ID3 parser | `file_manager/js/id3_parser.js` | A FunctionSequence of reads: `readTail`, `extractId3v1`, `readHead`, `checkId3v2`, `extractFrames` | FunctionSequence, ByteReader, FileReader |
| Chromoting client session | `remoting/webapp/me2mom/client_session.js` | Session state (`setState_`), the plugin, its callbacks; `createPluginAndConnect`, `disconnect`, `removePlugin` | The plugin (callbacks), `remoting.js` |
| Chromoting web app | `remoting/webapp/me2mom/remoting.js` | App mode, host-plugin state, access-code countdown, sign-in state and stored e-mail; `init`, `clearOAuth2`, `retrieveEmail_`, `tryShare`, `cancelShare`, `onStateChanged_`, `startSession_`, `cancelConnect` | The host plugin, ClientSession, XHRs |
| History page | `history.js` | HistoryModel: pages of results, the in-flight query; HistoryView | The browser via `chrome.send` callbacks |
| cr.ui.Tree | `shared/js/cr/ui/tree.js` | Children, expanded/selected/editing attributes, depth, `selectedItem_`, labels and the label input | The owner's add/remove/rename calls, DOM events |
| NTP4 tile page and most visited page | `ntp4/tile_page.js`, `ntp4/most_visited_page.js` | Tile order and cells, focus, in-page drag; `data_`, tiles, undo notification | The browser via `chrome.send` and `setMostVisitedPages` |
| Login network drop-down | `chromeos/login/network_dropdown.js` | Menu elements, selection, shown, `activeElementId_` | The browser's network lists, DOM events |
| Login offline message | `chromeos/login/screen_error_message.js` | The message's and the sign-in screen's `faded`/`hidden` classes, their transition listeners, the message shown, pending frame-error retries | The browser's network-state reports; `DropDown.setActive` |
| Mobile activation page | `mobile_setup.js` | `state_`, `deviceInfo_`, `payment_shown_`, the frame's load listener, the parts' `hidden` classes | The browser's activation states; messages posted by the payment frame |
| Context menu | `shared/js/cr/ui/context_menu_handler.js` | DOM-centred UI state | DOM events |
| Image editor | `file_manager/js/image_editor` | Numeric filters and geometry; the strip-by-strip loader and filter run on timers | Canvas, timers |
| Test scripts | `chrome/test/data` | Test harness | The browser under test |

Hard behaviours, part by part:
- **MPEG parser**: the reads are asynchronous, and each onload runs a whole
  synchronous walk. Several parse calls on one parser object interleave
  at read boundaries and share `rootParser_`. Files may be corrupt:
  sizes can be too small, overrun their parent, or be truncated. Any read
  may fail. The callbacks must fire exactly once. Unknown atoms are
  skipped without being read.
- **FunctionSequence, ID3 parser**: asynchronous steps with callbacks that
  may re-enter. An error can happen in any step, and each error must be
  reported once.
- **ClientSession, remoting.js**: plugin callbacks race user actions
  (cancel, disconnect) and the timeout countdown.
- **History**: query results can arrive after the query has changed.
- **NTP most visited page**: lists asked for before a removal can arrive
  after it, and undo races later lists.
- **NTP tile page**: focus moves while tiles gain and lose pages. A drag
  shifts tiles step by step while the window resizes.
- **Network drop-down**: lists from the browser race `setActive`. One
  keydown runs two listeners that share the `opening` flag.
- **Image editor**: strips are drawn on timers and can be cancelled
  between them.

## 2. What is modelled

### ByteReader (`ByteReader.tla`, from the spec)
`byte_reader.js` is not in `src/`, so its bounds checks are modelled from
the spec's Byte Cursor contract (4.1).

- **Data abstraction.** A buffer is a sequence of 4-byte words, each the
  big-endian value of its bytes. A position is a word offset, so the 8-byte
  atom header is two words (`HEADER_SIZE = 2`) and every size in the model
  is in words.
- **Text.** A word decodes to text through the constant table `Latin1`,
  which holds the tags and strings of the modelled files. Any other word
  decodes to `Bin`, which matches no tag.
- **Checks.** `Fits` is the check each read makes against its optional
  limit and the buffer's end. `SeekOk` is `seek`'s range check.

### MpegGrammar (`MpegGrammar.tla`)
- **The grammar.** `Grammar` is the table of `createRootParser`.
  - A nested table is `Sub(id)`, and the shared `parseMeta` object is the
    one entry `"meta"`.
  - `versioned` is TRUE only for `meta`.
  - A handler is `Handler(name)`, and the `©` tags are written `@nam` and
    so on.
- **Header reads.** `ReadAtomSize` and `ReadAtomName` are `readAtomSize`
  and `readAtomName`, with every throw as an error result. `ReadAtomSize`
  keeps the falsy test `if (opt_end)` of an end of 0.
- **Handlers.** The handlers (`ParseFtyp`, `ParseMvhd`, `ParseHdlr`,
  `ParseStsd`, `ParseDataString`, `ParseCovr`) take the buffer, the atom,
  the chain of its ancestors and the metadata. Each returns new metadata
  and a new chain, or an error.
- **trackType.** `ParseHdlr` writes `trackType` into the nearest `trak` of
  the chain (`FindParentAtom`). `ParseStsd` reads it there.
- **Duration.** `Quotient` is JavaScript's `duration / timescale`, which
  gives `Infinity` or `NaN` for a zero timescale.

### MpegParser (`MpegParser.tla`)
Parses is a set of parse calls on one `MpegParser` object. Each variable is
a function over the set, except `rootParser`, the object's
`this.rootParser_`. That variable records whose metadata object the
handlers of the current grammar write into.

| Code | Action |
|---|---|
| `parse` | `Parse(p)` |
| `reader.onerror` | `ReadError(p)` |
| `reader.onload` → `processTopLevelAtom`: the length check and the `applyParser` of the top-level atom | `ReadLoad(p)` |
| one iteration of the loop of `parseMpegAtomsInRange`, the whole leaf handler included | `WalkStep(p)` |
| the loop's exit (`offset == end`) | `WalkReturn(p)` |
| the rest of `processTopLevelAtom`: the next header from the last 8 bytes, the skip of unknown atoms, the next `requestRead` or `onSuccess` | `ProcessTail(p)` |

- **The walk.** The recursion of `applyParser` and `parseMpegAtomsInRange`
  is kept as an explicit stack of the atoms whose children are being
  iterated. A frame holds the offset, the `count` of the loop and the
  atom's `trackType`.
- **One event at a time.** The JavaScript event loop runs each onload
  callback to completion. So a parse that is walking (`phase = "walking"`)
  blocks every other event (`Quiet`).
- **Callback outcomes.** `calls[p]` records the callbacks fired. A failed
  read gives `"ioerror"`, because onError then receives the FileReader's
  event rather than a message.

### MpegSpec (`MpegSpec.tla`): what a parse promises
This is a one-shot, recursive, spec-level parse of the whole file:
- `Walk` and `WalkChildren` are `walk` and `walk_children` of spec 4.4.
- `TopLevel` is the top level of 4.5, with absolute offsets.
- `SiblingLimit` is the spec's ceiling on children per container.

`Deliver` fires one callback, once. It gives success with `Parse(file)`'s
metadata, or an error when that parse fails, or `"ioerror"` when reads may
fail. MpegParser refines it: one instance per parse call, with the first
callback fired as `result` (`DeliveredResult`).
- `CodeContract` uses the sibling ceiling the code really has, which is
  `ChildLimit + 1`.
- `SpecContract` uses the spec's ceiling, `ChildLimit`.

MpegSpec shares the grammar and the handlers with MpegParser. What the
refinement checks is therefore the scheduler and the walker:
- the reads and their lengths;
- the lookahead header and the skipping of unknown atoms;
- buffer-relative offsets against absolute ones;
- iteration and stack discipline against recursion;
- error routing and callback delivery;
- the sharing of `rootParser_`.

It does not check the individual handlers against an independent oracle.

### MCMpegParser (`MCMpegParser.tla`)
- **Files.** Files are built from atoms with `Atom(tag, payload)`. There
  are eight base files:
  - the spec's end-to-end file;
  - a titled video;
  - a sound track plus a video track whose `hdlr` comes after its `stsd`;
  - unknown top-level atoms around a top-level `meta` with cover art;
  - an `mvhd` v1 with a zero timescale;
  - containers with `ChildLimit + 1` and `ChildLimit + 2` children;
  - the empty file.
- **Variants.** `MCFiles` adds every variant of each base:
  - one atom size set to 0, 1, or one off its true value;
  - every truncation;
  - the file with a stray word appended.

  That gives 330-odd files. They reach every error path of the walker and
  the scheduler: too short, too long, read past the end, seek outside the
  buffer, read mismatch, and too many children.

### ClientSession (`ClientSession.tla`)

`remoting.ClientSession` (`client_session.js`) controls one client
connection's `<embed>` plugin. Its methods are operators on the page heap
`a`, so that `remoting.js` handlers can call them in the order the code
does:

| Operator | Source | What it keeps |
|---|---|---|
| `SetState` | `setState_` | Records the new state, then calls `onStateChange` with the old state. |
| `RemovePlugin`, `Disconnect` | `removePlugin`, `disconnect` | Removes the first plugin with `PLUGIN_ID`. It throws when `this.plugin` was deleted or is no longer in the page. |
| `CreatePluginAndConnect` | `createPluginAndConnect` | Appends the plugin. A wrong version deletes `this.plugin` and leaves the element. A plugin without `connect()` is reported as an error. |
| `ConnectionInfoUpdateCallback`, `StateOf` | `connectionInfoUpdateCallback` | Translates the plugin's status. It reads `this.plugin.status`, which throws once `this.plugin` is deleted. |

A thrown TypeError is the flag `exc`. Every operator after it in a
handler is skipped, and `Settle` clears the flag when the handler ends,
as the browser does with an uncaught exception.

### RemotingApp (`RemotingApp.tla`)

This module models the `remoting.*` globals of `remoting.js` and the part
of the DOM they touch. The record variable `app` holds:
- `mode`;
- the countdown: `timerRunning`, `accessCodeTimerId`,
  `accessCodeExpiresIn` and the running `intervals`;
- `hostEmbeds` and `clientEmbeds`, the plugins in document order;
- `crashed`, the host plugins in the page whose process has crashed, at
  most `MaxCrashes` (1 in `MCRemotingApp.cfg`, 0 in the reproductions,
  so their traces stay short);
- `session`, `sessions` and `plugins`;
- `pending`, the callbacks each asynchronous call still owes.

The rest of the state is the environment the page does not control:
- `hostState`: the state of each host plugin, which moves along
  `HostSucc`, the plugin's documented order;
- `clientStatus`: the status of each client plugin, along `ClientSucc`;
- `tokenValid`: whether the OAuth2 token is fresh;
- `login`: the signed-in `account` (`None` when signed out), the
  `email` kept in localStorage (`KEY_EMAIL_`), the account whose
  e-mail request is still out (`lookup`), and the page `loads`, at most
  `MaxLoads`;
- `attempts`: the share and connect clicks, at most `MaxAttempts`.

The actions are the user's clicks and the arrival of callbacks:

| Group | Actions | What they model |
|---|---|---|
| User | `TryShare`, `EnterAccessCode`, `TryConnect`, `CancelPendingOperation`, `DisconnectSession`, `Dismiss`, `GoClient`, `GoHome` | One click each. |
| Callbacks | `ShareRefreshDone`, `ConnectRefreshDone`, `WcsReady`, `XhrDone`, `TokenReady` | The token refresh, the WCS loader, the support-host XHR and `callWithToken`. Each runs its whole callback chain. |
| Plugins | `HostPluginEvent(i)`, `ClientPluginEvent(p)` | A plugin's state change, then the handler it calls. |
| Crash | `HostCrash(i)` | A host plugin's process dies: it reports nothing more, `cancelShare`'s `plugin.disconnect()` on it throws and is shown as a share error, and `onStateChanged_`, reading its state, changes nothing. |
| Timer | `Tick(t)` | One `setInterval` tick of the access-code countdown. |
| Environment | `TokenExpires` | The token going stale. |
| Sign-in | `ClearOAuth2`, `EmailAnswer`, `LoadPage` | The sign-out link, the answer to `retrieveEmail_`'s request (stored only on 200), and a page load running `remoting.init`. |

A handler is one action, with everything it calls: for example,
`onStateChanged_` with `disableTimeoutCountdown_`,
`updateAccessCodeTimeoutElement_` and `setMode`.

Assumptions about the environment and the markup, which are not in
`src/`:
- A cancel button exists in the connecting, waiting-for-code,
  waiting-for-connection and shared modes. Buttons lead from home to the
  client screen and back, and from a failed or finished mode to home.
- An aborted XHR never calls back.
- The WCS loader always answers asynchronously. This includes the
  synchronous case.
- The OAuth2 flow is not in `src/`. Signing in leaves the page and
  comes back to a fresh load, so `LoadPage` from the unauthenticated
  screen may sign in any account of `Accounts`. A load loses the
  globals, plugins, timers and pending requests, and keeps localStorage
  and the tokens. The sign-out link is on the home screen only.
- Signed out, a token refresh always fails (`Refreshed`) and
  `callWithToken` never calls back (the guard of `TokenReady`).
- With `DoubleClicks = FALSE`, the user does not click share (connect)
  again while that side's callbacks are pending. `TRUE` lifts this.

### FunctionSequence (`FunctionSequence.tla`)

`FunctionSequence` runs an array of steps one after the other. Each step
ends by calling `nextStep`, `finish` or `onError`, often from a read's
callback. Its methods are operators on a record `s`:
- `idx` is `currentStepIdx_`, and `failed` and `started` are the flags;
- `steps` is the number of steps;
- `succeeded` and `failures` count the calls of the two callbacks;
- `thrown` records a TypeError leaving a method.

| Operator | Source | What it keeps |
|---|---|---|
| `NewSequence` | constructor | `idx = -1`. |
| `Start` | `start` | A second start throws. |
| `NextStep`, `Runs` | `nextStep_` | Stops after a failure. Past the last step it calls the success callback; otherwise the next step runs. |
| `OnError` | `onError_` | Its log line reads `steps_[currentStepIdx_].name`, which throws when no step is current. Only the first error is reported. |
| `Finish` | `finish_` | Jumps past the last step. |

The steps belong to the module that builds the sequence.

### Id3Parser (`Id3Parser.tla`)

`Id3Parser.parse` runs two FunctionSequences side by side on one file,
and both write into one metadata object:
- `id3v1parser` reads the 128-byte tail and `extractId3v1`;
- `id3v2parser` reads the 10-byte header (`checkId3v2`), then the tag
  (`extractFrames`), then `prepareDescription`.

The variable `h` holds the two sequences, the read each one waits for
(`h.read[q]`), and the metadata `h.md`. The file is chosen from the
constant `Files`; buffers are sequences of byte values.

| Code | Model |
|---|---|
| `reader.onload` of sequence `q`, running the step and every step it calls through `nextStep` | `ReadLoads(q)` |
| `reader.onerror` → `onError` | `ReadFails(q)` |
| the steps | `ExtractId3v1`, `CheckId3v2`, `ExtractFrames`, `PrepareDescription`, run by `RunStep` |
| `nextStep_` called from a step | the step sets `nextStep`; `CallNextStep` runs the next step |
| `readFrame_` and its handlers | `ReadFrame`, `FrameNamed`, `FrameSize`, `FrameHeader`, `FrameData`, `FrameEnd`, `TextFrame`, `UserDefinedTextFrame`, `PictureFrame` |
| the frame loop of `extractFrames` | `ReadFrames`, `NextFrame` |
| `readSynchSafe_`, `readUInt24_` | `ReadSynchSafe`, `ReadUInt24` (32-bit `<<`) |

- **Throws.** A ByteReader check that fails throws (spec 4.1). Nothing in
  the read callbacks catches it, so the throwing sequence stops. `thrown`
  records it. `extractId3v1` and `checkId3v2` first store an empty
  object and then fill it field by field, so a throw part-way through
  leaves the fields read before it (`None` for the rest). The runs' files
  are all at least 128 bytes long, so these partial writes are modelled
  but never reached.
- **Versions.** `readFrame_` has a size case for versions 2, 3 and 4
  only. Every file of the runs is one of those versions, so `FrameSize`
  has no other case.
- **Frame readers.** Each reader is a chain of operators. Each takes the
  value of the previous read as a parameter, so it is computed once.
- **ByteReader.** `Fits` is `ByteReader.tla`'s check. `Scalar` and
  `NullTerminated` are the spec's reads.

The end of `Id3Parser.tla` builds files from frame lists. `File` writes a v2.2,
v2.3 or v2.4 tag, 128 bytes of audio, and an optional ID3v1 tag. The
reference decode (`Expected*`) says what the parse must store:
- the frames by name, a later frame replacing an earlier one;
- the description in `METADATA_ORDER`, without blank values;
- the APIC picture, else the PIC picture, as thumbnail;
- the ID3v1 fields, a blank field being absent.

`MCFiles` holds eight files. Between them they cover:
- each tag version, with and without an ID3v1 tag;
- a file with no tag, and an empty tag;
- a frame over 127 bytes (the synchsafe size);
- UTF-16 text, user-defined text and links, APIC and PIC pictures;
- duplicate frames, a blank mapped value, and unknown frames.

**ID3 fairness.** Each sequence waits for one read at a time, and the
FileReader ends every read it was given. `Fairness` is weak fairness of
`ReadLoads(q) \/ ReadFails(q)`, written out with its enabledness
`h.read[q] # None`. Deadlock checking is off, because a parse ends.

### HistoryPage (`HistoryPage.tla`)
`history.js` as one record `w`. It holds these objects:
- HistoryModel: the search text, depth, pages and requested page.
  `reqStr` marks a page number that came from the hash as a string.
- HistoryView: the page index, the rendered pages, and the nav links.
- The edit-mode checkboxes and the selection anchor.
- `window.location.hash`.
- The deletion queue and its retry timers.

The browser's side of `chrome.send` is in the same record. It is
`history_ui.cc`, which is not in `src/`. It holds at most one query and
cancels the one it has not answered. It deletes one batch at a time and
reports `deleteComplete` or `deleteFailed`.

Each handler is one action made of the methods it calls, in the code's
order. The actions are:
- the user's `SubmitSearch`, `ClickNav`, `ClickEdit`, `SetHash`,
  `ClickCheckbox` and `ClickRemove`, at most `MaxClicks = 4` in all.
  The remove button is created disabled by `updateEditControls_`, on
  every search and edit-mode toggle. After each checkbox click,
  `updateRemoveButton_` enables it only while a checkbox in the page is
  checked (`removeDisabled`). `ClickRemove` needs it enabled;
- the `PageState` checker's `Tick`;
- the browser's `BrowserAnswers` and `BrowserDeletes`;
- the page's `HistoryResult`, `DeleteReply`, `RetryTimer` and
  `HistoryDeleted`.

**Bounds.** Two months of browsing and three of one search term, at one
or two results per page. An adjacent duplicate in the newest month is
dropped. `MaxDeleteFailures = 1` allows one failed deletion and its retry.
Four user actions are the fewest that reach the `deleteInFlight` test of
`deleteNextInQueue` (`history.js:944`) when it is false. Starting in edit
mode, the user checks, removes, checks and removes again. The second
`removeItems` then meets a batch still in flight, or a failed batch whose
retry timer has yet to fire. With three actions the test never fails, and
dropping it goes unnoticed.

**Fairness.** Each of the interval timer, the browser and the page's event
loop is weakly fair. It is written out as `[]<>~ENABLED A \/ []<><<A>>_vars`.
The user has no fairness.

### Tree (`Tree.tla`)
`cr.ui.Tree` and `cr.ui.TreeItem` as one record `t`. It holds:
- each node's children;
- the `expanded`, `selected` and `may-have-children` attributes;
- `depth_`;
- `selectedItem_`;
- a thrown TypeError;
- in-place editing: the items with the `editing` attribute, the item
  whose label input has the focus, each item's label, input value and
  `oldLabel_`.

`Click`, `DblClick` and `KeyDown` cover the user. `AddToTree`,
`AddToItem`, `RemoveFromItem` and `RemoveFromTree` cover the owner.

Editing is `SetEditing`, the `editing` setter. The owner starts it with
`StartEdit`, which selects the item through the `selected` setter. Its
`input.focus()` blurs an input that still had the focus, and that blur
ends the other edit. The user acts on the input with `TypeText`, `EditKey`
(Esc or Enter, whose `tree.focus()` blurs it) and `Blur`. While an input
has the focus, the tree's own clicks and keys wait for it to blur, since
the input stops its events. `FocusLost` covers the owner removing a
subtree that holds the focused input. The browser either dispatches
`blur`, or drops the focus with no event, and which one depends on the
browser version. In the second case the item stays editing until the user
clicks back into its input (`Refocus`).

Editing bounds: `EditItems = {a, c}` are the items the owner may edit.
Two are needed for one edit to end another, and `c` can be moved, which
reaches `FocusLost`. `Texts` is one text and `Blank` a white-space value,
which fires both branches of the commit. No property reads labels, and a
second text multiplies the states by about five. The `rename` and
`change` events to the owner are left out.
`SpecWithTreeRemove` also lets the owner call `Tree.remove`. `MCInitKids`,
at the end of the module, is the four-item tree the configurations check.

There are four items: three in the tree and one created but not yet
added. Removing and adding items again reaches every shape of up to three
levels.

### ImageUtil, Filter (`ImageUtil.tla`, `Filter.tla`)
`Filter` extends `ImageUtil`. The end of `Filter.tla` runs the loader and
the strip filter side by side (`Spec`), with the images and sources the
configurations check.

Pure code is modelled as operators and checked against reference
definitions:
- `Rect.clamp`, `intersects`, `inside` and `fillBetween`;
- `stretchColors`;
- `filter.precompute` and its maps;
- `mapPixels` and `convolve5x5`.

`loadImageAsync` is a state machine over `ld`, with these steps: the
resolve timeout, the image's onload, one strip per timer, and cancel.
`applyByStrips` is a state machine over `fs`: one strip per
`setTimeout(filterStrip, 0)`.

The two calls share nothing and run side by side. The browser's timers
and image loads are weakly fair. Three sources reach one, two, and four
strips, the last of them short. Two images reach one-strip and
two-row-strip filtering (`maxPixelsPerStrip` of 10). Image "a" is 5 x 5,
so its last strip is pulled back, and `convolve5x5`, which skips a
2-pixel margin, writes its middle pixel. On an image 4 pixels wide the
blur would write nothing.

### TilePage (`TilePage.tla`, `MCTilePage.tla`)
The grid of an NTP4 page (`ntp4/tile_page.js`) is a record with these
fields:
- the tiles in order, and each tile's cell and dopplegangers;
- the column count, from `layout_` and `onResize_`;
- keyboard focus: `focusElementIndex_`, the contents holding
  `tabIndex = 1`, and the page's own tab stop;
- the in-page drag: the dragged tile, the drop index, whether the page is
  the drag target;
- each tile's drag clone: `none`, `drag` (following the pointer),
  `placing` (after `onDragEnd_`), or `sent` (given a class whose
  transition moves it to the grid, the trash or another page), and the
  tiles with class `dragging` or a pending `setTimeout`;
- removal: the tiles whose contents run the removing animation, and the
  tiles `removeTile` has taken out;
- whether a handler threw (a `TypeError` on an undefined tile).

The operators are `KeyDown`, `MouseDown`, `OnFocus`, `CardSelected`,
`CardDeselected`, `DragStart`, `DragEnter`, `DragOver`, `DragLeave`,
`Drop`, `OnDragEnd`, `DropTimeout` (the `setTimeout` callback of
`onDragEnd_`), `CloneTransitionEnd`, `DoRemove`, `ContentsAnimationEnd`
and `OnResize`. Each one is the handler and every method it calls. For
example, `updateDropIndicator_` and `doDrop` reposition the tiles, and
`onContentsAnimationEnd_` runs `removeTile`. `updateDropIndicator_`
positions tile by tile, so an index past the end (possible after a
removal) throws part way, with the earlier tiles moved and
`currentDropIndex_` not updated.

`onDragEnd_` sets `dragClone.hidden = false` first, so its branch that
finalizes a hidden clone at once is dead and is not modelled.

`MCTilePage` exercises two pages:
- a focus page whose contents gain and lose a page at any time;
- a drag page of three tiles, dragged over 6 x 3 cells (a column off
  each side, a row below) while the window is resized between 500 and
  600 pixels, which changes the column count. The owner may remove one
  tile (`MaxRemovals = 1`) other than the dragged one; one removal
  already makes the drag indices stale and brings the removed-tile cases.

Two timing assumptions come from the browser rather than `src/`:
- a `setTimeout(..., 0)` fires before the user can start another drag,
  so `DragStart` waits for no pending timer;
- a clone's transition ends only once it has been sent somewhere;
  `placing` alone, whose transition lives in CSS not in this repository,
  never ends it.

The browser fires every pending timer and delivers every transition end,
each tile's on its own, so each tile's `TimerStep` and `TransitionStep`
is weakly fair. (One fairness condition over all tiles would let one
tile's clone starve.) Nothing else is fair: the user may stop at any
time.

The two pages share no state. A variable `side`, chosen at Init, picks
one page per behaviour. So the states checked are the sum of the two
pages' states, not their product.

### MostVisited (`MostVisited.tla`)
`ntp4/most_visited_page.js` is on top of a TilePage. Its state is:
- `data_`;
- the page each tile shows;
- the undo notification;
- the URL being dragged.

It has two message queues:
- `toBrowser`, the `chrome.send` messages: blacklist, unblacklist, clear
  and getMostVisited;
- `toPage`, the lists sent back.

`SetData` is `setData` with its `refreshData` merge: copy the pinned pages,
keep the old ones, then fill from the unused pages. The removals are
`CloseClick`, `DelKey` and `TrashDrop`, each of which calls `blacklist_`.
The other actions are `Undo`, `UndoAll`, `NotifTimeout`, the drags and
`PressTile`.

The browser is at the end of `MostVisited.tla`. It is C++ and not in `src/`. It handles the
messages in order. It answers each get with the first `THUMBNAIL_COUNT`
URLs of its ranking that are not blacklisted.

**Bounds.**
- Two tiles and three URLs, one of them pinned. That is the fewest that
  gives a removed page a replacement, and a pin that moves a kept page.
- `MaxQueue = 3` messages or lists in flight. That is enough for a list
  asked for before a removal to arrive after it.

**Fairness.** The browser and the page are event loops that handle every
message and every list: `WF(BrowserStep)`. `SetDataFair` is weak fairness
of `SetData`, written out with its enabledness `toPage # <<>>`. The user
has no fairness.

### DropDown and ErrorScreen (`DropDown.tla`, `ErrorScreen.tla`, `MCDropDown.tla`)
`chromeos/login/network_dropdown.js`. Each drop-down's record holds:
- the container's elements, which setItems builds from a flattened
  network list;
- `selectedItem` and `firstItem`;
- `isShown`;
- `scrollJustHappened`;
- the title's `opening` flag.

The page-wide state is the focused title, `activeElementId_`, and the
message queues.

The actions are `TitleKey` (the title's listener, then `keyDownHandler_`),
`TitleClick`, `ItemClick`, `ItemMouseOver`, `OverlayClick`, focus changes,
`SetActive`, `Refresh` and `UpdateNetworks`. Whether `selectItem` scrolls
depends on layout, so it is a free choice.

The browser in `MCDropDown` answers show with a list, stops on hide, and
may report a changed network list at any time.

`ErrorScreen` is the offline message over the sign-in screen. It keeps:
- `msg` and `scr`, the message and `Oobe.currentScreen`, each with its
  `faded` and `hidden` classes, whether a CSS transition is running
  (`moving`), and whether a `webkitTransitionEnd` listener is attached.
  All listeners of one element do the same thing and fire on the same
  event, so one flag stands for any number of them;
- `view`, the message the `show-*` classes select;
- `current`, the current screen's id, which this page never changes;
- `retries`, the reasons of frame errors whose state request is out.

Its actions are `NetworkState` (the browser's `updateState` callback,
running `updateState_` with `onBeforeShow` or `onBeforeHide`, that is
`DropDown.setActive` for `offline-networks-list`), `OnFrameError`,
`MaybeRetry`, and `TransitionEnd` of either element.

Assumptions about what is not in `src/`:
- The page loads with the message `hidden faded` and the screen shown.
  The hide branch's `!faded` check presumes this.
- An element with `hidden` is not displayed, so changing its `faded`
  class starts no transition. Changing `faded` on a displayed element
  starts or reverses one, and `webkitTransitionEnd` fires once it ends.
- `doReload` and `scheduleRetry` reload the Gaia frame, which the model
  does not keep. So `'proxy changed'` acts like any other non-error
  reason, and one reason (`'update'`) stands for them all.
- `onFrameError` offline, or on another screen, does nothing.

`MCDropDown` runs two pages side by side, chosen at the start (`side`):
- `"menus"`: two drop-downs activated and deactivated at will;
- `"screen"`: the offline message, which is the only caller of
  `setActive` for its drop-down `d1`, while the browser reports the state
  and answers retries. The user clicks the drop-down while the message
  is displayed. Keys and hover reach the same handlers and are checked
  on `"menus"`.

The pages share no state, so the checked states are the sum of the two.

**Bounds.** The bounds are these:
- two drop-downs;
- a list with an enabled item, a divider, and a submenu holding a disabled
  item and a second enabled item;
- a list with only a divider;
- `MaxQueue = 2`;
- on the sign-in screen: the Gaia screen and one unmanaged screen, one
  frame error code (111, a proxy error), at most one unanswered retry.
  A portal report with another reason gives the captive-portal view, so
  one code reaches all three views.

There is no fairness: every property is about safety.

### MobileSetup (`MobileSetup.tla`)
`mobile_setup.js` as one record `ms`, the singleton's fields (`state_`,
`deviceInfo_`, `payment_shown_`), plus:
- whether a frame load listener is attached;
- whether a frame load is pending;
- the `hidden` class of the payment form, final status, system status,
  canvas, carrier page and close button.

The actions are:
- `Initialize`: `loadPage` and `initialize`, which sends
  `startActivation`;
- `DeviceStateChanged`: the browser's report, running `changeState_` and,
  on SHOWING_PAYMENT, `loadPaymentFrame_`;
- `FrameLoad`: the frame's load event;
- `MessageReceived`: `onMessageReceived_`;
- `CloseClick`: the close button.

URLs and origins are sequences of characters. `Accepted` compares them
as `onMessageReceived_` does, with `substring(0, e.origin.length)`.

Left out: the progress drawing, the texts, and the messages the page
posts to the frame. None of them changes state the page keeps.

`MCMobileSetup.cfg` uses a payment URL `ab/p`, whose origin is `ab`. It
has three origins: that one, the extension, and `a`, another origin that
is a prefix of the payment URL. The browser reports START,
SHOWING_PAYMENT, DONE and ERROR in any order. The page has no passing
run: the configuration reproduces the disagreement below.

## 3. Runs

Each run below is a run in `PROJECT.json`. A passing run finishes with no
error. A violation run checks one property, and TLC finds a trace that
breaks it.

| Run | Config | Expect | What it shows |
|---|---|---|---|
| `mpeg_single` | `MCMpegParser.cfg` | pass | One parse on any of `MCFiles`, and reads may fail. The properties are listed below. |
| `remoting_app` | `MCRemotingApp.cfg` | pass | Two host plugins and two sessions in one page, one account that may sign out, an e-mail request that may fail, and one reload. `SharedOnlyWhileConnected`, `PluginsBelongToSession`, `InSessionOnlyWhileConnected`, `CountdownEnds`. |
| `id3_parse` | `MCId3Parser.cfg` | pass | One parse on any of the eight files, and reads may fail. `TypeOK`, `NoStepThrows`, `DecodesTag`, `Answered`. |
| `history_page` | `MCHistoryPage.cfg` | pass | Four user actions, two confirmed removals among them, while the browser answers, cancels and fails. `TypeOK`, `BatchOfOneDay`, `DeletedInOrder`, `PageSettles`, `DeletionsFinish`. |
| `history_hash_page_string` | `MCHistoryHashPage.cfg` | violation of `NoOverFetch` | A hash page number stays a string, so `(page + 1)` concatenates and the model asks for months it does not need (`history.js:806`, `:448`). |
| `tree_widget` | `MCTree.cfg` | pass | Clicks, keys, in-place editing, and the owner's add, remove and rename calls on four items. `SingleSelection`, `SelectionInTree`, `IndentMatchesNesting`. |
| `image_editor` | `MCImageEditor.cfg` | pass | `loadImageAsync` beside `applyByStrips`, with the Rect and colour helpers against their references. Nine properties, listed below. |
| `filter_strip_buffer` | `MCFilterStrips.cfg` | violation of `ByStripsMatchesWhole` | The reused strip buffer carries bytes the filter never wrote into the next strips (`filter.js:48`). |
| `ntp_most_visited` | `MCNtp.cfg` | pass | Removals, undos and lists in FIFO order. `QuietHidesBlacklisted`, `RefreshDataSound`, `RemovedPageLeaves`. |
| `ntp_undo_duplicate` | `MCNtpDuplicate.cfg` | violation of `NoPageTwice` | Undo after a stale list shows one page on two tiles (`most_visited_page.js:174`). |
| `tile_page` | `MCTilePage.cfg` | pass | Focus moves while contents change, and in-page drags, clone transitions and tile removals while the window resizes. `AtMostOneTabStop`, `IndicatorMatchesDrop`, `FinishedDragsSettle`. |
| `network_dropdown` | `MCDropDown.cfg` | pass | Two drop-downs under mouse, keys, focus and the browser's lists. The offline message shown and hidden by network reports and retries while its fades run, driving its drop-down. `SelectionOnStopItem`, `NeverBlank`, `ChosenOnlyFromOpenMenu`. |

Other configurations reproduce the remaining disagreements met while
modelling. No run lists them, and each has been checked to fail as
described. A hazard in `PROJECT.json` names most of them.

| Config | Property violated | What it reproduces |
|---|---|---|
| `MCMpegCallbackThrows.cfg` | `CallbackOnce` | A throwing success callback also fires onError (`mpeg_parser.js:257`). |
| `MCMpegConcurrent.cfg` | `ImplementsMpegSpec` | Two overlapping parse calls share `rootParser_`. The trace is below. |
| `MCMpegSiblingLimit.cfg` | `ImplementsSpecSiblingLimit` | `count++ > 100` accepts 101 children, where spec section 8 says 101 must fail (`mpeg_parser.js:175`). |
| `MCRemotingBadPlugin.cfg` | `CancelConnectGoesHome` | After a bad plugin version every disconnect throws, so cancel never reaches home (`client_session.js:144`). |
| `MCRemotingDoubleClick.cfg` | `PluginsBelongToSession` | Two connect clicks make two sessions, and the first plugin is orphaned (`remoting.js:630`). |
| `MCRemotingShareError.cfg` | `ShareErrorNotHiddenByPlugin` | A second share leaves the failed plugin in the page. Its report replaces the share error (`remoting.js:320`). |
| `MCRemotingCountdown.cfg` | `CountdownNeedsPlugin` | DISCONNECTED removes the plugin but not the countdown (`remoting.js:372`). |
| `MCRemotingTimerLeak.cfg` | `IntervalTracked` | The run's own constants, in 9 steps. The user clicks Share twice, and both token refreshes return, so two host plugins are in the page. The first reaches RECEIVED_ACCESS_CODE and starts interval 1. The second plugin's STARTING report makes `onStateChanged_` read the first plugin again (`getElementById`), see RECEIVED_ACCESS_CODE a second time, and start interval 2 over `accessCodeTimerId` (`remoting.js:341`). Nothing can clear interval 1 any more. |
| `MCRemotingEmail.cfg` | `EmailOfSignedInAccount` | A share before the e-mail answer, or after a failed one, hands `plugin.connect` a null e-mail, which `startSession_`'s comment rules out. With two accounts it is worse: sign out while the request is out, the late answer stores the old account's e-mail, `refreshEmail_` then skips the lookup for the next account (`remoting.js:111`), and every share sends the old e-mail with the new token, across reloads. |
| `MCRemotingAbandoned.cfg` | `CallbacksKeepToTheirSide` | A share's failed token refresh moves the client screen to host.share-failed (`remoting.js:229`). |
| `MCId3LongV22.cfg` | `Answered` | `readUInt24_` shifts the high bytes by 16. A v2.2 frame of 256 bytes or more makes a read throw (`id3_parser.js:52`). |
| `MCId3Extended.cfg` | `DecodesTag` | `flags & FLAG_EXTENDED_HEADER != 0` parses as `flags & 1`, so the extended header is read as a frame (`id3_parser.js:311`). |
| `MCId3Unpadded.cfg` | `Answered` | In a tag filled to its last byte, the frame loop reads a name past the end and throws (`id3_parser.js:166`). |
| `MCId3PicFrame.cfg` | `Answered` | `readPIC_` uses a length as an absolute end, so a PIC frame after another frame throws (`id3_parser.js:121`). |
| `MCHistoryStale.cfg` | `PagesFollowQuery` | `addResults` checks only the term, so an answer to an earlier query of the same term is appended (`history.js:274`). |
| `MCHistoryShiftClick.cfg` | `ShiftClickSafe` | A shift-click with an anchor from a page no longer shown reads a missing `id2checkbox` entry and throws (`history.js:1021`). |
| `MCTreeTopRemove.cfg` | `SingleSelection` | `Tree.remove` leaves `selectedItem_` on the detached item (`tree.js:91`). |
| `MCTreeThrows.cfg` | `NothingThrown` | A key pressed before anything is selected reaches `getComputedStyle(null)` (`tree.js:139`). |
| `MCFillBetween.cfg` | `FillBetweenPaintsRing` | `fillBetween` compares `inner.width` with `outer_right`, a width with a coordinate (`image_util.js:249`). |
| `MCLoaderZeroWidth.cfg` | `LoadFinishes` | A canvas of width 0 gives a strip height of 0, so the load never calls back. |
| `MCFilterSmall.cfg` | `FilterFinishes` | `convolve5x5` loops with `!=` and never ends on an image of 3 rows (`filter.js:226`). |
| `MCTileRemoveDragged.cfg` | `NoResurrection` | The owner removes the dragged tile; `doDrop` then inserts `currentlyDraggingTile` back into the grid (`tile_page.js:1115`). |
| `MCTileRemoveDraggedLeak.cfg` | `FinishedDragsSettle` | The owner removes the dragged tile; `onDragEnd_` finds no `tilePage` and never sends the clone, so it stays in the document (`tile_page.js:168`). |
| `MCDropDownThrows.cfg` | `ListsFindActiveDropDown` | On the sign-in screen the network drops and comes back before the browser has answered `networkDropdownShow`. `onBeforeHide` clears `activeElementId_`, and the answer's `updateNetworks` looks up `$('')` and throws (`network_dropdown.js:359`). `NoHandlerThrows`, checked the same way, first finds a title click before the first list, which selects a null `firstItem` (`network_dropdown.js:63`). |
| `MCMobileSetup.cfg` | `StatusFromPaymentPage` | After SHOWING_PAYMENT, a message from origin `a` passes the origin test, because it is the first character of `ab/p`. Its `reportTransactionStatusMsg` goes to the browser as `setTransactionStatus` (`mobile_setup.js:107`). Over real URLs, `https://carrier.co` passes for `https://carrier.com/pay`. `NoHandlerThrows`, checked the same way, fails in two steps: any message before the first SHOWING_PAYMENT reads `deviceInfo_.payment_url` of null. |
| `MCDropDownOpening.cfg` | `OpeningOnlyWhileOpening` | A menu opened with Space keeps `opening`, so the next Enter does not choose (`network_dropdown.js:292`). |

The properties of `mpeg_single`:
- **`NestedFrames`**: every atom being walked lies in its parent's payload,
  and the top-level atom lies in the buffer read.
- **`EventuallyAnswered`**: a started parse ends in a callback.
- **`ImplementsMpegSpec`**: the callback and its metadata are those of the
  one-shot parse.

The `MCMpegConcurrent.cfg` trace:
1. P1 reads `ftyp`.
2. P2 calls `parse`, which replaces `rootParser_`.
3. P1 reads `moov`, and its duration goes into P2's metadata.
4. P1's onSuccess delivers a document without a duration.

Each property of the passing run has a mutant in `PROJECT.json`, a
plausible bug that TLC finds:

| Mutant | Plausible bug | Property that catches it |
|---|---|---|
| `IterateChildLate` | `++count` | `TypeOK` |
| `ReadAtomSizeNoNesting` | no "atom too long" check | `NestedFrames` |
| `ProcessTailNoEof` | no onSuccess at end of file | `EventuallyAnswered` |
| `ApplyParserNoVersion` | meta's version field not skipped | `ImplementsMpegSpec` |

**Bounds.** `ChildLimit = 2` stands for the literal 100. The walker's
behaviour does not depend on its size, only on the three cases below,
between them, above it. The base files put a container at exactly
`ChildLimit + 1` and at `ChildLimit + 2` children. One or two parse calls
suffice: the shared state is a single field, overwritten by each call.

**Fairness.** Each parse has weak fairness on its read completion (load or
error), its walk steps and its tail. A FileReader answers every read it
was given, and the walk runs synchronously. A parse call is made by the
host, so `Parse` has no fairness, and `EventuallyAnswered` is stated as
"started ~> answered". Deadlock checking is off because a finished parse
really stops.

The properties of `remoting_app`:
- **`CountdownEnds`**: a running access-code countdown is eventually
  stopped, by a connection, a cancel or its own expiry.
- **`SharedOnlyWhileConnected`**: host.shared is shown only while the host
  plugin that `onStateChanged_` reads is connected or disconnecting.
- **`PluginsBelongToSession`**: every client plugin in the page belongs to
  `remoting.session`.
- **`InSessionOnlyWhileConnected`**: in-session is shown only while the
  current session is connected.

The Remoting reproductions are code bugs. The `MCRemotingBadPlugin.cfg` trace:
1. The user connects.
2. The plugin's version is unsupported, so `createPluginAndConnect`
   deletes `this.plugin`.
3. `BAD_PLUGIN_VERSION` reaches `showConnectError_`. Its `disconnect`
   throws at `this.plugin.parentNode`, before `setMode`, so the page stays
   in client.connecting.
4. Cancel calls `cancelConnect`, whose `disconnect` throws in the same
   way. The page never reaches home.

The Remoting mutants:

| Mutant | Plausible bug | Property that catches it |
|---|---|---|
| `UpdateTimeoutStylesNoExpiry` | expiry does not cancel the share | `CountdownEnds` |
| `OnDisconnectedKeepMode` | DISCONNECTED after a cancel keeps the mode | `SharedOnlyWhileConnected` |
| `ShowConnectErrorNoDisconnect` | the connect error leaves the session's plugin in the page | `PluginsBelongToSession` |
| `OnClosedByHostNoMode` | CLOSED does not leave in-session | `InSessionOnlyWhileConnected` |

**Remoting bounds.**
- Two host plugins, two sessions and two client plugins: this is the
  fewest that can put a stale plugin and a current one in the page
  together.
- `MaxAttempts = 2` clicks.
- `Lifetime = 2` ticks stands for the 300 seconds of an access code. The
  code only tells apart "still counting", "at the red threshold" and
  "expired".
- `MaxOverrun = 1` lets the counter go one tick past zero. This is where
  a countdown whose share is already gone would keep going.

**Remoting fairness.** Each `setInterval` tick is weakly fair: the
browser fires an interval until `clearInterval`. Plugins, the network and
the user get no fairness, since any of them may stay silent. The only
liveness property, `CountdownEnds`, rests on the timer alone. Deadlock
checking is off, because the page really does come to rest when the user
stops clicking.

The properties of `id3_parse`:
- **`TypeOK`**.
- **`NoStepThrows`**: no step of either sequence throws. Every read stays
  in its buffer and frame, and `onError` is called only while a step is
  current.
- **`DecodesTag`**: a sequence that reports success has stored what the
  reference decode gives for the file.
- **`Answered`**: each of the two sequences eventually reports, through
  its callback or its failure callback.

| Mutant | Plausible bug | Property that catches it |
|---|---|---|
| `PrepareDescriptionRawKey` | the description stores the frame name, not the mapped key | `TypeOK` |
| `NextStepLate` | `nextStep_`'s bound is off by one | `NoStepThrows` |
| `TextFrameNoEncodingSkip` | the text is read from the encoding byte | `DecodesTag` |
| `StoreFramesNoNext` | `extractFrames` does not call `nextStep` | `Answered` |

**ID3 bounds.** Eight files, each with four frames or fewer, reach every
handler and every table. The reads of the ID3 parser do not depend on
the length of a text, except where a size needs more than one byte. So
the files hold one frame over 127 bytes, and the long v2.2 frame gets its
own run.

The properties of `history_page`:
- **`BatchOfOneDay`**: every queued batch holds only pages of the day it
  is sent for.
- **`DeletedInOrder`**: the browser deletes the confirmed batches in the
  order they were confirmed, each once. This holds when a second
  `removeItems` overlaps the batch in flight or a retry after
  `deleteFailed`. It relies on the in-flight test of `deleteNextInQueue`.
- **`PageSettles`**: the page eventually comes to rest with no query in
  flight, and the pages of `pageIndex_` are rendered.
- **`DeletionsFinish`**: every confirmed batch is eventually deleted.

The mutants are:
- `ClearModelKeepsCheckboxes`;
- `AddResultsNoChanged`;
- `BatchesNoDateUpdate`;
- `DeleteNextInQueueUnguarded`;
- `DeleteReplyKeepsInFlight`.

The properties of `tree_widget`:
- **`SingleSelection`**: `selectedItem_` carries the `selected` attribute,
  and no other item does.
- **`SelectionInTree`**: the selected item is in the tree and visible.
- **`IndentMatchesNesting`**: every item is one level deeper than its
  parent.

The mutants are `SetSelectedItemKeepsOld`,
`ItemRemoveKeepsSelection` and `SetDepthShallow`.

The properties of `image_editor`:
- **`RectClampNearest`**: `clamp` moves a rectangle the least distance
  into the bounds.
- **`RectPredicatesMatchPixels`**: `inside`, `intersects` and `contains`
  agree with the pixels covered.
- **`StretchReachesEnds`**: the autofix tables map each channel's range
  onto 0 .. 255, monotonically.
- **`InteriorColoursMatchWhole`**: every colour byte the filter writes
  matches a one-shot run.
- **`StripsTileImage`**: the loader's strips tile the rows.
- **`CancelSilences`**: a cancelled load never calls back.
- **`LoadFinishes`**: a load that is not cancelled does call back.
- **`FilterFinishes`**: the filter reaches its last strip.

Each has a mutant in `PROJECT.json`, for example `CopyStripFullStep`,
`ClampSpanNoLeft` and `FilterStripNoPullBack`.

The properties of `ntp_most_visited`:
- **`RefreshDataSound`** (an action property): every list `setData`
  takes is merged by `refreshData` as its contract says. Pinned pages are
  at their index, and kept pages stay in their slot. Only listed pages are
  shown, none of them twice, and every slot is filled.
- **`QuietHidesBlacklisted`**: when nothing is in flight, no tile shows a
  blacklisted page.
- **`RemovedPageLeaves`**: a blacklisted page on screen eventually
  leaves.

The mutants are `FillRestKeepsStale`, `BlacklistGetFirst` and
`UndoNoUnblacklist`.

The `ntp_undo_duplicate` trace (15 states), with `a` pinned:
1. `a` is removed and undone.
2. A stale list gives the tiles [c, b].
3. `b` is removed, then `c`, from tile 1.
4. The list asked for by `b`'s removal, [a, c], arrives.
5. Undo puts `c` back on tile 1. The tiles are now [c, c].

`doUndo` calls `updateForData` on the old tile. It does not touch `data_`
and does not look where the page is now.

The properties of `tile_page`:
- **`AtMostOneTabStop`**: at most one contents has `tabIndex = 1`.
- **`IndicatorMatchesDrop`**: during a drag with no resize, every other
  tile sits in the cell `doDrop` will give it.
  - `updateDropIndicator_` shifts only the tiles between the old and the
    new index.
  - A resize, or the removal of another tile, puts tiles back in their
    own cells while `currentDropIndex_` stays, so that case is excluded.
- **`FinishedDragsSettle`** (liveness): a clone in `placing` or `sent` is
  eventually finalized, by its transition end or by the tile's next
  drag.

The mutants are `UpdateFocusElementKeepsTab`,
`UpdateDropIndicatorOffByOne` and `OnDragEndNoTimeout` (no `setTimeout`
for a drop on another page, so the clone is never sent).

The properties of `network_dropdown`:
- **`SelectionOnStopItem`**: the highlight is always on an element the key
  loop stops at, never on a divider.
- **`ChosenOnlyFromOpenMenu`** (an action property): `networkItemChosen`
  is sent only for an enabled network item of a menu that was shown
  before the step and that the step closes. The Enter that opens a menu
  must not choose. It does not cover the Enter that a leftover `opening`
  flag swallows; `OpeningOnlyWhileOpening` shows that one, in a
  reproduction.
- **`NeverBlank`**: the offline message and the sign-in screen are never
  both hidden. Flapping reports leave listeners of earlier fades
  attached, and a listener that fires after its element was shown again
  must not hide it. Breaking it takes a hide, a show, and both
  transitions ending.

The mutants are `WalkOnce`, `TitleKeyListenerNoFlag` and
`TransitionEndedUnchecked`. The last hides the element in the listener
without checking `faded`.

## 4. Plan and what is not yet modelled

The next modules, in order:
1. `DropDown.updateNetworkTitle` (`network_dropdown.js:367`), once it is
   known when the browser sends titles.
2. `TilePage` with `DragWrapper`: drags that enter from another page, and
   the trash. The trash is now only the `landedOnTrash` input of
   `onDragEnd_`.
3. The context menu handler (`cr/ui/context_menu_handler.js`). It has
   menus shown and hidden by mouse, keyboard and blur.

Left out, with reasons (also in `PROJECT.json`):
- **Logging** and the path string of `applyParser`: they do not affect
  state.
- **ByteReader beyond the reads the parsers make**: it is not in `src/`.
- **Layout and drawing**: tile sizes beyond the column count, RTL, styles,
  labels, icons and ARIA attributes. No property is about them.
- **In NTP4**:
  - `DragWrapper`, whose events are given as calls;
  - the trash's own animation;
  - the notification's text;
  - drags between pages.
- **Remoting, outside the mode machine**: the OAuth2 flow (not in
  `src/`), the statistics loop, scaling, resizing and the IQ relay. These
  only write to the DOM or to the plugin.
- **The keyboard overlay, plugins page and task manager**: DOM-centred
  pages with little state of their own.
- **The test scripts**: they are test harness, not system.

Hazards with no property yet are listed in `PROJECT.json` with the
reason.
