------------------------------ MODULE ImageUtil ------------------------------
(***************************************************************************)
(* The geometry and the asynchronous loader of the file manager's image   *)
(* editor (file_manager/js/image_editor/image_util.js).                   *)
(*                                                                         *)
(* A rectangle is a record [left, top, width, height] of integers, as the *)
(* four-argument Rect constructor makes it.                                *)
(*                                                                         *)
(* loadImageAsync(canvas, source, transform, delay, callback) is a state  *)
(* machine over a record ld:                                               *)
(*   phase      "idle" (not called), "resolve" (the setTimeout of          *)
(*              resolveURL pending or fired), "image" (waiting for the     *)
(*              Image's onload), "copy" (copying strips), "done"           *)
(*   timeout    the variable timeout holds a pending timer                 *)
(*   onload     the Image's onload: "none", "load" or the no-op of cancel *)
(*   image      the closure's variable image is set                        *)
(*   w, h       the image's size; cw, ch the canvas's                      *)
(*   to, step   the strip loop's variables                                 *)
(*   strips     the row ranges [from, to) drawn so far                     *)
(*   ticks      the parity of the strip timeouts fired: each setTimeout is *)
(*              a new timer, so a copyStrip that draws nothing is a step   *)
(*   calls      how often callback ran; cancelled: the returned function   *)
(*              was called                                                 *)
(* The drawing itself (translate, rotate, scale) is left out: no property *)
(* is about pixels here.                                                   *)
(***************************************************************************)
EXTENDS Integers, Sequences, SequencesExt, Bitwise

(***************************************************************************)
(* Numbers.                                                                *)
(***************************************************************************)

\* Math.ceil(a / b) for a >= 0 and b > 0.
CeilDiv(a, b) == (a + b - 1) \div b

(***************************************************************************)
(* Rect.                                                                   *)
(***************************************************************************)

Rect(l, t, w, h) == [left |-> l, top |-> t, width |-> w, height |-> h]

\* rect.inside(x, y).
RectInside(r, x, y) ==
    r.left <= x /\ x < r.left + r.width /\ r.top <= y /\ y < r.top + r.height

\* rect.intersects(other) counting rectangles that only touch.
RectIntersectsTouching(r, o) ==
    /\ r.left + r.width >= o.left
    /\ o.left + o.width >= r.left
    /\ r.top + r.height >= o.top
    /\ o.top + o.height >= r.top

\* rect.intersects(other).
RectIntersects(r, o) ==
    /\ r.left + r.width > o.left
    /\ o.left + o.width > r.left
    /\ r.top + r.height > o.top
    /\ o.top + o.height > r.top

\* rect.contains(other).
RectContains(r, o) ==
    /\ r.left <= o.left
    /\ o.left + o.width <= r.left + r.width
    /\ r.top <= o.top
    /\ o.top + o.height <= r.top + r.height

\* ClampSpan without the move to the left edge.
ClampSpanNoLeft(start, size, bStart, bSize) ==
    CASE size > bSize -> <<bStart, bSize>>
      [] start + size > bStart + bSize -> <<bStart + bSize - size, size>>
      [] OTHER -> <<start, size>>

\* One axis of rect.clamp(bounds): a span longer than the bounds takes
\* them; otherwise it is moved inside, left edge first.
ClampSpan(start, size, bStart, bSize) ==
    CASE size > bSize -> <<bStart, bSize>>
      [] start < bStart -> <<bStart, size>>
      [] start + size > bStart + bSize -> <<bStart + bSize - size, size>>
      [] OTHER -> <<start, size>>

\* rect.clamp(bounds).
RectClamp(r, b) ==
    LET x == ClampSpan(r.left, r.width, b.left, b.width)
        y == ClampSpan(r.top, r.height, b.top, b.height)
    IN Rect(x[1], y[1], x[2], y[2])

\* context.fillRect(x, y, w, h): the pixels it paints; a negative width or
\* height paints the span on the other side of x or y.
FillRect(x, y, w, h) ==
    LET xs == IF w >= 0 THEN x..(x + w - 1) ELSE (x + w)..(x - 1)
        ys == IF h >= 0 THEN y..(y + h - 1) ELSE (y + h)..(y - 1)
    IN xs \X ys

\* Rect.fillBetween(context, inner, outer): the pixels its four fillRect
\* calls paint.  The right and bottom strips are guarded by comparing
\* inner.width and inner.height with outer_right and outer_bottom.
FillBetween(inner, outer) ==
    LET innerRight == inner.left + inner.width
        innerBottom == inner.top + inner.height
        outerRight == outer.left + outer.width
        outerBottom == outer.top + outer.height
    IN UNION {
        IF inner.top > outer.top
        THEN FillRect(outer.left, outer.top, outer.width, inner.top - outer.top) ELSE {},
        IF inner.left > outer.left
        THEN FillRect(outer.left, inner.top, inner.left - outer.left, inner.height) ELSE {},
        IF inner.width < outerRight
        THEN FillRect(innerRight, inner.top, outerRight - innerRight, inner.height) ELSE {},
        IF inner.height < outerBottom
        THEN FillRect(outer.left, innerBottom, outer.width, outerBottom - innerBottom) ELSE {}}

(***************************************************************************)
(* loadImageAsync.                                                         *)
(***************************************************************************)

CONSTANTS
    Sources,        \* the images loaded: [kind |-> "url" or "image", w, h]
    Rotations       \* the values of transform.rotate90

VARIABLE ld

\* Before loadImageAsync is called.
LoaderIdle ==
    [phase |-> "idle", timeout |-> FALSE, onload |-> "none", image |-> FALSE,
     kind |-> "image", rot |-> 0, w |-> 0, h |-> 0, cw |-> 0, ch |-> 0,
     to |-> 0, step |-> 0, strips |-> {}, ticks |-> 0, calls |-> 0, cancelled |-> FALSE]

\* copyStrip without the Math.min that stops at the last row.
CopyStripNoMin(s) ==
    LET to == s.to + s.step
        s1 == [s EXCEPT !.to = to, !.strips = @ \cup {<<s.to, to>>}]
    IN IF to = s.h THEN [s1 EXCEPT !.phase = "done", !.timeout = FALSE, !.calls = @ + 1]
       ELSE [s1 EXCEPT !.phase = "copy", !.timeout = TRUE]

\* The strip of copyStrip drawn with the whole step, past the last row.
CopyStripFullStep(s) ==
    LET to == IF s.to + s.step < s.h THEN s.to + s.step ELSE s.h
        s1 == [s EXCEPT !.to = to, !.strips = @ \cup {<<s.to, s.to + s.step>>}]
    IN IF to = s.h THEN [s1 EXCEPT !.phase = "done", !.timeout = FALSE, !.calls = @ + 1]
       ELSE [s1 EXCEPT !.phase = "copy", !.timeout = TRUE]

\* copyStrip(): draw the rows [from, to) with to = min(from + step,
\* height); at the last row restore the context, clear timeout and call
\* back, otherwise schedule the next strip.
CopyStrip(s) ==
    LET to == IF s.to + s.step < s.h THEN s.to + s.step ELSE s.h
        s1 == [s EXCEPT !.to = to, !.strips = @ \cup {<<s.to, to>>}]
    IN IF to = s.h THEN [s1 EXCEPT !.phase = "done", !.timeout = FALSE, !.calls = @ + 1]
       ELSE [s1 EXCEPT !.phase = "copy", !.timeout = TRUE]

\* The strip height without the lower bound of 16 rows.
StripStepNoMin(w, h) ==
    LET stripCount == CeilDiv(w * h, 2^20)
    IN IF stripCount = 0 THEN 0 ELSE CeilDiv(h, stripCount) & 16777200

\* The strip height: max(16, ceil(height / stripCount)) & 0xFFFFF0.  With
\* a stripCount of 0 (an image without pixels) the quotient is Infinity or
\* NaN, which the bitwise and turns into 0.
StripStep(w, h) ==
    LET stripCount == CeilDiv(w * h, 2^20)
        q == IF stripCount = 0 THEN 0 ELSE CeilDiv(h, stripCount)
    IN IF stripCount = 0 THEN 0 ELSE (IF q > 16 THEN q ELSE 16) & 16777200

\* loadImage(image): size the canvas, swapping the sides for an odd
\* rotate90, compute the strip height and copy the first strip.
LoadImage(s) ==
    CopyStrip([s EXCEPT !.cw = IF s.rot & 1 = 1 THEN s.h ELSE s.w,
                        !.ch = IF s.rot & 1 = 1 THEN s.w ELSE s.h,
                        !.to = 0, !.step = StripStep(s.w, s.h)])

\* ImageUtil.loadImageAsync(canvas, source, transform, delay, callback):
\* schedules resolveURL.
LoadImageAsync(src, rot) ==
    /\ ld.phase = "idle"
    /\ ld' = [ld EXCEPT !.phase = "resolve", !.timeout = TRUE, !.kind = src.kind,
                        !.w = src.w, !.h = src.h, !.rot = rot]

\* resolveURL(): a URL gets an Image whose onload loads it, anything else
\* is loaded at once.
ResolveURL ==
    /\ ld.phase = "resolve" /\ ld.timeout
    /\ ld' = IF ld.kind = "url"
             THEN [ld EXCEPT !.timeout = FALSE, !.phase = "image", !.image = TRUE,
                             !.onload = "load"]
             ELSE LoadImage([ld EXCEPT !.timeout = FALSE])

\* The Image fires load: its onload clears image and loads it, unless
\* cancel replaced it by the no-op.
ImageLoaded ==
    /\ ld.phase = "image" /\ ld.onload # "none"
    /\ ld' = IF ld.onload = "load"
             THEN LoadImage([ld EXCEPT !.image = FALSE, !.onload = "none"])
             ELSE [ld EXCEPT !.onload = "none"]

\* The timeout of the next copyStrip fires.
StripTimer ==
    /\ ld.phase = "copy" /\ ld.timeout
    /\ ld' = CopyStrip([ld EXCEPT !.timeout = FALSE, !.ticks = 1 - @])

\* The function loadImageAsync returns, called by its owner.
CancelLoadKeepsTimer ==
    /\ ld.phase # "idle" /\ ~ld.cancelled
    /\ ld' = [ld EXCEPT !.onload = IF ld.image THEN "noop" ELSE @, !.cancelled = TRUE]

CancelLoad ==
    /\ ld.phase # "idle" /\ ~ld.cancelled
    /\ ld' = [ld EXCEPT !.onload = IF ld.image THEN "noop" ELSE @, !.timeout = FALSE,
                        !.cancelled = TRUE]

LoaderNext ==
    \/ \E src \in Sources, rot \in Rotations : LoadImageAsync(src, rot)
    \/ ResolveURL
    \/ ImageLoaded
    \/ StripTimer
    \/ CancelLoad

\* The browser fires a pending timer and loads a requested image.
LoaderFairness ==
    /\ []<>~(ld.phase = "resolve" /\ ld.timeout) \/ []<><<ResolveURL>>_ld
    /\ []<>~(ld.phase = "image" /\ ld.onload # "none") \/ []<><<ImageLoaded>>_ld
    /\ []<>~(ld.phase = "copy" /\ ld.timeout) \/ []<><<StripTimer>>_ld


(***************************************************************************)
(* Properties.                                                             *)
(***************************************************************************)

LoaderTypeOK ==
    /\ ld.phase \in {"idle", "resolve", "image", "copy", "done"}
    /\ ld.onload \in {"none", "load", "noop"}
    /\ {ld.timeout, ld.image, ld.cancelled} \subseteq BOOLEAN
    /\ ld.to \in 0..ld.h /\ ld.ticks \in 0..1 /\ ld.step \in Nat /\ ld.calls \in Nat
    /\ ld.strips \subseteq (0..ld.h) \X Nat

\* rect.clamp(bounds) moves a rectangle that fits inside the bounds by the
\* least distance that puts it inside, on each axis, and one that does
\* not fit takes the bounds' extent on that axis: a reference checked for
\* every square rectangle of the sizes 0..Len around the bounds b.
RectClampNearestWithin(b) ==
    LET Axis(start, size, bStart, bSize, res) ==
            IF size > bSize THEN res = <<bStart, bSize>>
            ELSE /\ res[2] = size
                 /\ bStart <= res[1] /\ res[1] + size <= bStart + bSize
                 /\ \A l \in bStart..(bStart + bSize - size) :
                        (res[1] - start) * (res[1] - start) <= (l - start) * (l - start)
    IN \A l \in (b.left - 2)..(b.left + b.width + 1), w \in 0..(b.width + 1) :
        LET res == RectClamp(Rect(l, l, w, w), b)
        IN /\ Axis(l, w, b.left, b.width, <<res.left, res.width>>)
           /\ Axis(l, w, b.top, b.height, <<res.top, res.height>>)

\* rect.inside, rect.intersects and rect.contains agree with the pixels
\* the rectangles cover: a point is inside when it is one of them, two
\* rectangles intersect when they share one, and one contains the other
\* when it has all of the other's; checked for the rectangle o against
\* every small non-empty rectangle around its corner.
RectPredicatesMatchPixelsOf(o) ==
    LET R == {Rect(l, t, w, h) : l \in (o.left - 2)..(o.left + 1), t \in (o.top - 1)..(o.top + 1),
                                 w \in 1..3, h \in 1..2}
        Px(r) == FillRect(r.left, r.top, r.width, r.height)
    IN /\ \A x \in (o.left - 1)..(o.left + o.width), y \in (o.top - 1)..(o.top + o.height) :
            RectInside(o, x, y) <=> <<x, y>> \in Px(o)
       /\ \A r \in R :
            /\ RectIntersects(r, o) <=> Px(r) \cap Px(o) # {}
            /\ RectContains(o, r) <=> Px(r) \subseteq Px(o)
            /\ RectContains(r, o) <=> Px(o) \subseteq Px(r)

\* Rect.fillBetween(context, inner, outer) paints exactly the pixels of
\* outer that are not in inner, for every inner rectangle inside outer.
FillBetweenPaintsRing ==
    \A ol \in -2..0, ow \in 1..3, il \in -2..2, iw \in 0..3 :
        LET outer == Rect(ol, 0, ow, 1)
            inner == Rect(il, 0, iw, 1)
        IN RectContains(outer, inner) =>
            FillBetween(inner, outer) = FillRect(ol, 0, ow, 1) \ FillRect(il, 0, iw, 1)

\* After the function that loadImageAsync returns has been called, the
\* callback is never called: cancel clears the pending timeout and
\* replaces the onload of an image still loading.
CancelSilences == [][ld.cancelled => ld'.calls = ld.calls]_ld

\* When the callback runs, the strips copyStrip drew tile the image's rows:
\* they are disjoint, none runs past the last row, and together they cover
\* every row.
StripsTileImage ==
    ld.calls > 0 =>
        /\ \A r \in ld.strips : r[1] <= r[2] /\ r[2] <= ld.h
        /\ \A r, q \in ld.strips : r # q => r[2] <= q[1] \/ q[2] <= r[1]
        /\ \A y \in 0..(ld.h - 1) : \E r \in ld.strips : r[1] <= y /\ y < r[2]

\* A load that is not cancelled calls back: the delay elapses, the image
\* loads and every strip's timeout fires, so copyStrip reaches the last
\* row.
LoadFinishes == (ld.phase # "idle" /\ ~ld.cancelled) ~> (ld.calls > 0 \/ ld.cancelled)

=============================================================================
