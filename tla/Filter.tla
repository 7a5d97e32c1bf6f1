-------------------------------- MODULE Filter --------------------------------
(***************************************************************************)
(* The pixel filters of the image editor (file_manager/js/image_editor/    *)
(* filter.js) and filter.applyByStrips, which runs a filter over a canvas *)
(* one horizontal strip per timer tick.                                    *)
(*                                                                         *)
(* An ImageData is a record [width, height, data] whose data holds the    *)
(* RGBA bytes of the rows, top to bottom, as a sequence.  A ratio is a    *)
(* pair <<numerator, denominator>> with a positive denominator: the       *)
(* functions handed to filter.precompute return ratios.                   *)
(*                                                                         *)
(* applyByStrips is a state machine over a record fs:                      *)
(*   phase     "idle" (not called), "run", "done" (no strip left)          *)
(*   src       the source ImageData (getImageData of the whole canvas)     *)
(*   strip     the strip ImageData, taken once from the top of the source *)
(*   dst       the data of the destination canvas                          *)
(*   offset    the strip's row offset; pending: a filterStrip timer is set *)
(*   progress  the offsets given to progressCallback, in order             *)
(*   maps      the conversion tables of the filter (filter.autofix bound   *)
(*             to the source's own histogram)                              *)
(*   thrown    filterFunc threw 'Invalid offset'                           *)
(***************************************************************************)
EXTENDS Integers, Sequences, SequencesExt, FiniteSets, ImageUtil

CONSTANTS
    Images,         \* the source canvases: a function to ImageData records
    MaxPixels,      \* the values of maxPixelsPerStrip (0: the default)
    Weights,        \* the weights given to createConvolutionFilter
    DstFill         \* the byte the destination canvas holds before

\* Math.ceil(a / b) for a >= 0 and b > 0.
Ceil(a, b) == (a + b - 1) \div b

\* Math.round of a ratio: floor(x + 1/2).
Round(r) ==
    LET n == IF r[2] < 0 THEN -r[1] ELSE r[1]
        d == IF r[2] < 0 THEN -r[2] ELSE r[2]
    IN (2 * n + d) \div (2 * d)

ClipByte(x) == IF x < 0 THEN 0 ELSE IF x > 255 THEN 255 ELSE x

\* The byte of channel c (0 red, 1 green, 2 blue, 3 alpha) of pixel (x, y).
At(img, x, y, c) == img.data[(y * img.width + x) * 4 + c + 1]

\* ctx.getImageData(0, top, width, rows) of an ImageData.
Rows(img, top, rows) ==
    [width |-> img.width, height |-> rows,
     data |-> SubSeq(img.data, top * img.width * 4 + 1, (top + rows) * img.width * 4)]

(***************************************************************************)
(* The conversions.                                                        *)
(***************************************************************************)

\* filter.getHistogram(imageData): per channel, how many pixels hold each
\* value.
GetHistogram(img) ==
    LET Count(c) == [v \in 0..255 |->
            Cardinality({p \in 0..(img.width * img.height - 1) : img.data[4 * p + c + 1] = v})]
    IN [r |-> Count(0), g |-> Count(1), b |-> Count(2)]

\* filter.precompute(maxArg, func): func rounded and clipped to a byte for
\* every argument up to maxArg.
Precompute(maxArg, func) == [arg \in 0..maxArg |-> ClipByte(Round(func[arg]))]

\* stretchColors stretching over last - first + 1 values.
StretchColorsWide(hist) ==
    LET first == IF \E v \in 0..255 : hist[v] # 0 THEN CHOOSE v \in 0..255 : hist[v] # 0 /\ \A u \in 0..(v - 1) : hist[u] = 0 ELSE 256
        last == IF \E v \in first..255 : hist[v] # 0 THEN CHOOSE v \in first..255 : hist[v] # 0 /\ \A u \in (v + 1)..255 : hist[u] = 0 ELSE 255
    IN Precompute(255, [x \in 0..255 |-> IF last = first THEN <<x, 1>> ELSE <<(x - first) * 255, last - first + 1>>])

\* filter.autofix.stretchColors(channelHistogram): first is the lowest
\* value present (256 when none is), last the highest above first (255
\* when none is); the table maps first..last onto 0..255, or is the
\* identity when they are equal.
StretchColors(hist) ==
    LET first == IF \E v \in 0..255 : hist[v] # 0 THEN CHOOSE v \in 0..255 : hist[v] # 0 /\ \A u \in 0..(v - 1) : hist[u] = 0 ELSE 256
        last == IF \E v \in first..255 : hist[v] # 0 THEN CHOOSE v \in first..255 : hist[v] # 0 /\ \A u \in (v + 1)..255 : hist[u] = 0 ELSE 255
    IN Precompute(255, [x \in 0..255 |-> IF last = first THEN <<x, 1>> ELSE <<(x - first) * 255, last - first>>])

\* filter.autofix(options): mapPixels bound to the stretched tables.
Autofix(hist) == <<StretchColors(hist.r), StretchColors(hist.g), StretchColors(hist.b)>>

\* The check of mapPixels, convolve5x5 and colorMatrix3x3 before they
\* throw 'Invalid offset'.
OffsetValid(dst, src, offsetX, offsetY) ==
    /\ offsetX >= 0 /\ offsetX + dst.width <= src.width
    /\ offsetY >= 0 /\ offsetY + dst.height <= src.height

\* mapPixels reading the source rows from the top, whatever offsetY is.
MapPixelsNoOffset(maps, dst, src, offsetX, offsetY) ==
    [dst EXCEPT !.data = [i \in DOMAIN dst.data |->
        LET p == (i - 1) \div 4
            c == (i - 1) % 4
            srcIndex == (offsetX + (p \div dst.width) * src.width) * 4 + (p % dst.width) * 4 + c
        IN IF c = 3 THEN dst.data[i] ELSE maps[c + 1][src.data[srcIndex + 1]]]]

\* filter.mapPixels(rMap, gMap, bMap, dst, src, offsetX, offsetY): the
\* colour bytes of dst are the tables applied to the source pixel under
\* them; dst's alpha bytes are skipped.
MapPixels(maps, dst, src, offsetX, offsetY) ==
    [dst EXCEPT !.data = [i \in DOMAIN dst.data |->
        LET p == (i - 1) \div 4
            c == (i - 1) % 4
            y == p \div dst.width
            x == p % dst.width
            srcIndex == (offsetX + (offsetY + y) * src.width) * 4 + x * 4 + c
        IN IF c = 3 THEN dst.data[i] ELSE maps[c + 1][src.data[srcIndex + 1]]]]

(***************************************************************************)
(* convolve5x5 and the filter bound to its weights.                       *)
(***************************************************************************)

\* filter.floatToFixedPoint(n / d): (x * (1 << 16)) >> 0 truncates toward
\* zero.
FloatToFixedPoint(n, d) ==
    LET q == (n * 65536) \div d IN IF q < 0 /\ q * d # n * 65536 THEN q + 1 ELSE q

\* filter.createConvolutionFilter(weights): the weights divided by their
\* total (the centre counts once, the others four times), padded with
\* zeros to four, in fixed point as convolve5x5 converts them.
ConvolutionWeights(ws) ==
    LET total == ws[1] + 4 * FoldLeft(+, 0, Tail(ws))
    IN [k \in 1..4 |-> IF k <= Len(ws) THEN FloatToFixedPoint(ws[k], total) ELSE 0]

\* The bounds of the loops 'for (y = startY; y != endY; y++)' and
\* 'for (x = startX; x != endX; x++)', with margin = 2.
ConvolveBounds(dst, src, offsetX, offsetY) ==
    [startX |-> IF 2 - offsetX > 0 THEN 2 - offsetX ELSE 0,
     endX |-> IF dst.width < src.width - 2 - offsetX THEN dst.width ELSE src.width - 2 - offsetX,
     startY |-> IF 2 - offsetY > 0 THEN 2 - offsetY ELSE 0,
     endY |-> IF dst.height < src.height - 2 - offsetY THEN dst.height ELSE src.height - 2 - offsetY]

\* The '!=' loops never end: the rows start past their end, or a row is
\* visited whose columns start past their end.
ConvolveLoopsForever(b) ==
    \/ b.startY > b.endY
    \/ b.startY < b.endY /\ b.startX > b.endX

\* The fixed-point sum of one channel at source pixel (sx, sy), clipped to
\* a byte as the code does.
ConvolvePixel(w, src, sx, sy, c) ==
    LET S(dx, dy) == At(src, sx + dx, sy + dy, c)
        sum == w[1] * S(0, 0)
               + w[2] * (S(-1, 0) + S(1, 0) + S(0, -1) + S(0, 1))
               + w[3] * (S(-1, -1) + S(-1, 1) + S(1, -1) + S(1, 1))
               + w[4] * (S(-2, 0) + S(2, 0) + S(0, -2) + S(0, 2))
    IN IF sum < 0 THEN 0 ELSE IF sum > 16711680 THEN 255 ELSE sum \div 65536

\* filter.convolve5x5(weights, dst, src, offsetX, offsetY), when its loops
\* end: the colour bytes of the pixels between the bounds are written, the
\* rest of dst, alpha included, is left as it was.
Convolve5x5(w, dst, src, offsetX, offsetY) ==
    LET b == ConvolveBounds(dst, src, offsetX, offsetY)
    IN [dst EXCEPT !.data = [i \in DOMAIN dst.data |->
        LET p == (i - 1) \div 4
            c == (i - 1) % 4
            y == p \div dst.width
            x == p % dst.width
        IN IF c < 3 /\ b.startY <= y /\ y < b.endY /\ b.startX <= x /\ x < b.endX
           THEN ConvolvePixel(w, src, x + offsetX, y + offsetY, c)
           ELSE dst.data[i]]]

(***************************************************************************)
(* filter.applyByStrips(dstCanvas, srcCanvas, filterFunc,                 *)
(* progressCallback, maxPixelsPerStrip).                                   *)
(***************************************************************************)

VARIABLE fs

Filters == {"autofix", "blur"}

\* The tables of filter.autofix given each source's own histogram.
AutofixMaps == [i \in DOMAIN Images |-> Autofix(GetHistogram(Images[i]))]

\* The filterFunc passed in: a filter of the set above applied to dst.
FilterFunc(f, i, dst, src, offsetX, offsetY) ==
    IF f = "autofix" THEN MapPixels(AutofixMaps[i], dst, src, offsetX, offsetY)
    ELSE Convolve5x5(ConvolutionWeights(Weights), dst, src, offsetX, offsetY)

\* filterFunc does not return.
FilterHangs(f, dst, src, offsetX, offsetY) ==
    f = "blur" /\ ConvolveLoopsForever(ConvolveBounds(dst, src, offsetX, offsetY))

\* dstContext.putImageData(strip, 0, offset) on a canvas of width w.
PutImageData(data, w, strip, offset) ==
    [k \in DOMAIN data |->
        IF offset * w * 4 < k /\ k <= (offset + strip.height) * w * 4
        THEN strip.data[k - offset * w * 4] ELSE data[k]]

FilterIdle ==
    [phase |-> "idle", img |-> CHOOSE i \in DOMAIN Images : TRUE, filt |-> "autofix",
     strip |-> [width |-> 0, height |-> 0, data |-> <<>>], dst |-> <<>>,
     offset |-> 0, pending |-> FALSE, progress |-> <<>>, rows |-> {}]

\* filterStrip without pulling the last strip back up.
FilterStripNoPullBack(s) ==
    LET src == Images[s.img]
        off == s.offset
        strip == FilterFunc(s.filt, s.img, s.strip, src, 0, off)
        next == off + s.strip.height
    IN CASE ~OffsetValid(s.strip, src, 0, off) ->
                [s EXCEPT !.phase = "thrown", !.offset = off]
         [] FilterHangs(s.filt, s.strip, src, 0, off) ->
                [s EXCEPT !.phase = "hung", !.offset = off]
         [] OTHER ->
                [s EXCEPT !.strip = strip,
                          !.dst = PutImageData(@, src.width, strip, off),
                          !.rows = @ \cup off..(next - 1),
                          !.offset = next,
                          !.pending = next < src.height,
                          !.phase = IF next < src.height THEN "run" ELSE "done",
                          !.progress = Append(@, next)]

\* filterStrip(): pull a strip that overlaps the bottom back up, filter it,
\* put it on the destination, advance the offset, schedule the next strip
\* while rows are left, and report the offset.  filterFunc may throw
\* 'Invalid offset' or loop forever.
FilterStrip(s) ==
    LET src == Images[s.img]
        off == IF s.offset > src.height - s.strip.height
               THEN src.height - s.strip.height ELSE s.offset
        strip == FilterFunc(s.filt, s.img, s.strip, src, 0, off)
        next == off + s.strip.height
    IN CASE ~OffsetValid(s.strip, src, 0, off) ->
                [s EXCEPT !.phase = "thrown", !.offset = off]
         [] FilterHangs(s.filt, s.strip, src, 0, off) ->
                [s EXCEPT !.phase = "hung", !.offset = off]
         [] OTHER ->
                [s EXCEPT !.strip = strip,
                          !.dst = PutImageData(@, src.width, strip, off),
                          !.rows = @ \cup off..(next - 1),
                          !.offset = next,
                          !.pending = next < src.height,
                          !.phase = IF next < src.height THEN "run" ELSE "done",
                          !.progress = Append(@, next)]

\* applyByStrips: read the source, choose the strip height, take the strip
\* from the top of the source and filter the first strip at once.
ApplyByStrips(i, f, maxPixels) ==
    LET src == Images[i]
        stripCount == Ceil(src.width * src.height, IF maxPixels = 0 THEN 1000000 ELSE maxPixels)
    IN /\ fs.phase = "idle"
       /\ fs' = FilterStrip([fs EXCEPT !.phase = "run", !.img = i, !.filt = f,
                                 !.strip = Rows(src, 0, Ceil(src.height, stripCount)),
                                 !.dst = [k \in 1..Len(src.data) |-> DstFill],
                                 !.offset = 0])

\* The setTimeout(filterStrip, 0) fires.
StripTimerFires ==
    /\ fs.phase = "run" /\ fs.pending
    /\ fs' = FilterStrip([fs EXCEPT !.pending = FALSE])

FilterNext ==
    \/ \E i \in DOMAIN Images, f \in Filters, mp \in MaxPixels : ApplyByStrips(i, f, mp)
    \/ StripTimerFires

\* The browser runs a pending setTimeout(filterStrip, 0).
FilterFairness ==
    []<>~(fs.phase = "run" /\ fs.pending) \/ []<><<StripTimerFires>>_fs

(***************************************************************************)
(* Properties.                                                             *)
(***************************************************************************)

FilterTypeOK ==
    /\ fs.phase \in {"idle", "run", "done", "thrown", "hung"}
    /\ fs.img \in DOMAIN Images /\ fs.filt \in Filters
    /\ fs.offset \in Nat /\ fs.pending \in BOOLEAN
    /\ fs.progress \in Seq(Nat) /\ fs.rows \subseteq Nat

\* The result of filterFunc applied once to the whole source, into a copy
\* of it, and the colour bytes that call writes.
WholeResult(i, f) == FilterFunc(f, i, Images[i], Images[i], 0, 0).data

WholeWrites(i, f) ==
    LET src == Images[i]
        b == ConvolveBounds(src, src, 0, 0)
    IN {k \in DOMAIN src.data :
            LET p == (k - 1) \div 4 IN
            /\ (k - 1) % 4 < 3
            /\ f = "blur" => /\ b.startX <= p % src.width /\ p % src.width < b.endX
                             /\ b.startY <= p \div src.width /\ p \div src.width < b.endY}

\* The tables autofix uses for the image being filtered map the lowest
\* value present in each channel to 0 and the highest to 255, and never
\* map a higher value below a lower one.
StretchReachesEnds ==
    \A c \in 1..3 :
        LET img == Images[fs.img]
            present == {img.data[4 * p + c] : p \in 0..(img.width * img.height - 1)}
            lo == Min(present)  hi == Max(present)
            t == AutofixMaps[fs.img][c]
        IN /\ lo < hi => t[lo] = 0 /\ t[hi] = 255
           /\ \A v \in 0..254 : t[v] <= t[v + 1]

\* When the last strip has been put, every colour byte that filterFunc
\* writes when run once over the whole image holds the same value on the
\* destination canvas: the strip offsets, the pull-back of the last strip
\* and the source indexing of the filter agree.
InteriorColoursMatchWhole ==
    fs.phase = "done" =>
        \A k \in WholeWrites(fs.img, fs.filt) : fs.dst[k] = WholeResult(fs.img, fs.filt)[k]

\* The destination canvas ends equal, byte for byte, to filterFunc applied
\* once to the whole source.
ByStripsMatchesWhole ==
    fs.phase = "done" => fs.dst = WholeResult(fs.img, fs.filt)

\* Once applyByStrips has been called, the last strip is put and the
\* progress callback is told that every row is done.
FilterFinishes ==
    (fs.phase # "idle") ~> (fs.phase = "done" /\ Last(fs.progress) = Images[fs.img].height)

(***************************************************************************)
(* The image editor's loader (ImageUtil) and strip filter side by side:   *)
(* each is one call of loadImageAsync and of applyByStrips, with its      *)
(* timers, on the inputs the configurations check.                        *)
(***************************************************************************)

\* A 1024 x 2048 URL (two strips), a 3000 x 1000 image (four strips, the
\* last one short) and a 20 x 10 URL (one strip of at most 16 rows).
MCSources ==
    {[kind |-> "url", w |-> 1024, h |-> 2048],
     [kind |-> "image", w |-> 3000, h |-> 1000],
     [kind |-> "url", w |-> 20, h |-> 10]}

\* A canvas whose width is 0: loadImageAsync computes a strip height of 0.
MCZeroSources == {[kind |-> "image", w |-> 0, h |-> 5]}

MCRotations == {0, 1}

\* "a": 5 x 5 (wide and high enough for blur to write its middle pixel),
\* colours varying with the column and the row, the top row opaque and
\* the others not; "b": 4 x 4, opaque, its green constant.
MCImages == [i \in {"a", "b"} |->
    IF i = "a"
    THEN [width |-> 5, height |-> 5, data |-> <<10, 30, 40, 255, 30, 30, 45, 255, 50, 30, 50, 255, 70, 30, 40, 255, 90, 30, 45, 255, 10, 40, 45, 129, 30, 40, 50, 129, 50, 40, 40, 129, 70, 40, 45, 129, 90, 40, 50, 129, 10, 50, 50, 130, 30, 50, 40, 130, 50, 50, 45, 130, 70, 50, 50, 130, 90, 50, 40, 130, 10, 60, 40, 131, 30, 60, 45, 131, 50, 60, 50, 131, 70, 60, 40, 131, 90, 60, 45, 131, 10, 70, 45, 132, 30, 70, 50, 132, 50, 70, 40, 132, 70, 70, 45, 132, 90, 70, 50, 132>>]
    ELSE [width |-> 4, height |-> 4, data |-> <<0, 77, 200, 255, 0, 77, 190, 255, 0, 77, 180, 255, 0, 77, 170, 255, 0, 77, 190, 255, 60, 77, 180, 255, 120, 77, 170, 255, 180, 77, 160, 255, 0, 77, 180, 255, 120, 77, 170, 255, 240, 77, 160, 255, 60, 77, 150, 255, 0, 77, 170, 255, 180, 77, 160, 255, 60, 77, 150, 255, 240, 77, 140, 255>>]]

\* "c": 4 x 3, three rows.
MCSmallImages == [i \in {"c"} |-> [width |-> 4, height |-> 3, data |-> <<0, 0, 0, 255, 10, 0, 0, 255, 20, 0, 0, 255, 30, 0, 0, 255, 0, 10, 0, 255, 10, 10, 0, 255, 20, 10, 0, 255, 30, 10, 0, 255, 0, 20, 0, 255, 10, 20, 0, 255, 20, 20, 0, 255, 30, 20, 0, 255>>]]

\* 0 (the 1 Mpixel default: one strip) and 10 pixels (strips of 2 rows,
\* the last one of "a" pulled back).
MCMaxPixels == {0, 10}

\* filter.blur with radius 1 and strength 1.
MCWeights == <<1, 1>>

vars == <<ld, fs>>

Init == ld = LoaderIdle /\ fs = FilterIdle

Next == (LoaderNext /\ UNCHANGED fs) \/ (FilterNext /\ UNCHANGED ld)

Spec == Init /\ [][Next]_vars /\ LoaderFairness /\ FilterFairness

TypeOK == LoaderTypeOK /\ FilterTypeOK

\* The bounds of the image being filtered.
ImageBounds == Rect(0, 0, Images[fs.img].width, Images[fs.img].height)

\* rect.clamp moves every small square rectangle by the least distance
\* into the image's bounds (see RectClampNearestWithin).
RectClampNearest == RectClampNearestWithin(ImageBounds)

\* rect.inside, intersects and contains agree with the pixels covered,
\* for the image's bounds against small rectangles around its corner.
RectPredicatesMatchPixels == RectPredicatesMatchPixelsOf(ImageBounds)

=============================================================================
