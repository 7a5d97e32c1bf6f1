---------------------------- MODULE MpegGrammar ----------------------------
(***************************************************************************)
(* The atom grammar of mpeg_parser.js: MpegParser.readAtomSize and        *)
(* readAtomName, and the table of handler functions and nested tables     *)
(* that createRootParser returns.  A handler runs on atom a (its payload   *)
(* [a.start, a.end) in buffer b) with st the chain of a's ancestors, each  *)
(* carrying its name and the trackType a hdlr handler may attach to it.    *)
(* The tag "\u00A9nam" is written "@nam".  Sizes and offsets are in       *)
(* 4-byte words (see ByteReader).                                          *)
(***************************************************************************)
EXTENDS Integers, Sequences, SequencesExt, ByteReader, TLC

CONSTANT None

HEADER_SIZE == 2   \* MpegParser.HEADER_SIZE = 8 bytes

Fields == {"brand", "duration", "width", "height",
           "title", "album", "artist", "thumbnailURL"}

(***************************************************************************)
(* createRootParser: a child table maps a lower-case atom name either to a *)
(* handler function or to a nested table; the 'meta' table is one object  *)
(* shared by four entries and is the only versioned one.                  *)
(***************************************************************************)
Handler(h) == [kind |-> "leaf", handler |-> h]
Sub(id) == [kind |-> "table", id |-> id]

Grammar ==
    ("root" :> [versioned |-> FALSE, children |->
        ("ftyp" :> Handler("parseFtyp")) @@ ("moov" :> Sub("moov")) @@
        ("meta" :> Sub("meta"))])
 @@ ("moov" :> [versioned |-> FALSE, children |->
        ("mvhd" :> Handler("parseMvhd")) @@ ("trak" :> Sub("trak")) @@
        ("udta" :> Sub("udta")) @@ ("meta" :> Sub("meta"))])
 @@ ("trak" :> [versioned |-> FALSE, children |->
        ("mdia" :> Sub("mdia")) @@ ("meta" :> Sub("meta"))])
 @@ ("mdia" :> [versioned |-> FALSE, children |->
        ("hdlr" :> Handler("parseHdlr")) @@ ("minf" :> Sub("minf"))])
 @@ ("minf" :> [versioned |-> FALSE, children |-> ("stbl" :> Sub("stbl"))])
 @@ ("stbl" :> [versioned |-> FALSE, children |->
        ("stsd" :> Handler("parseStsd"))])
 @@ ("udta" :> [versioned |-> FALSE, children |-> ("meta" :> Sub("meta"))])
 @@ ("meta" :> [versioned |-> TRUE, children |-> ("ilst" :> Sub("ilst"))])
 @@ ("ilst" :> [versioned |-> FALSE, children |->
        ("@nam" :> Sub("nam")) @@ ("@alb" :> Sub("alb")) @@
        ("@art" :> Sub("art")) @@ ("covr" :> Sub("covr"))])
 @@ ("nam" :> [versioned |-> FALSE, children |-> ("data" :> Handler("title"))])
 @@ ("alb" :> [versioned |-> FALSE, children |-> ("data" :> Handler("album"))])
 @@ ("art" :> [versioned |-> FALSE, children |-> ("data" :> Handler("artist"))])
 @@ ("covr" :> [versioned |-> FALSE, children |-> ("data" :> Handler("parseCovr"))])

\* parser[name]: undefined (None) for a name the table does not list.
Lookup(id, name) ==
    IF name \in DOMAIN Grammar[id].children THEN Grammar[id].children[name]
    ELSE None

\* String.prototype.toLowerCase over the tags the modelled files contain.
UpperCase == ("FTYP" :> "ftyp") @@ ("MOOV" :> "moov") @@ ("FREE" :> "free")
ToLower(s) == IF s \in DOMAIN UpperCase THEN UpperCase[s] ELSE s

(***************************************************************************)
(* Results of a step of the walk: an error message, or the new metadata    *)
(* and the new stack of atoms.                                             *)
(***************************************************************************)
Ok(m, st) == [err |-> None, meta |-> m, stack |-> st]
Fail(e) == [err |-> e, meta |-> None, stack |-> <<>>]

\* Mutant: readAtomSize without the "atom too long" nesting check.
ReadAtomSizeNoNesting(b, pos, optEnd) ==
    LET size == ScalarOf(b, pos)
    IN CASE ~Fits(b, pos, 1, optEnd) -> [err |-> "read past end", size |-> 0]
         [] size < HEADER_SIZE -> [err |-> "atom too short", size |-> 0]
         [] OTHER -> [err |-> None, size |-> size]

\* readAtomSize(br, opt_end) at pos; opt_end is the enclosing atom's end or
\* NoLimit, and "if (opt_end)" is false for an end of 0.
ReadAtomSize(b, pos, optEnd) ==
    LET given == optEnd # NoLimit /\ optEnd # 0
        size == ScalarOf(b, pos)
    IN CASE given /\ ~Fits(b, pos, optEnd - pos, NoLimit) ->
                [err |-> "read past end of buffer", size |-> 0]
         [] ~Fits(b, pos, 1, optEnd) -> [err |-> "read past end", size |-> 0]
         [] size < HEADER_SIZE -> [err |-> "atom too short", size |-> 0]
         [] given /\ pos + size > optEnd -> [err |-> "atom too long", size |-> 0]
         [] OTHER -> [err |-> None, size |-> size]

\* readAtomName(br, opt_end) at pos.
ReadAtomName(b, pos, optEnd) ==
    IF Fits(b, pos, 1, optEnd)
    THEN [err |-> None, name |-> ToLower(StringOf(b, pos))]
    ELSE [err |-> "read past end", name |-> None]

\* The two reads of an atom header at pos: size, then name.
ReadAtomHeader(b, pos, optEnd) ==
    LET s == ReadAtomSize(b, pos, optEnd)
        n == ReadAtomName(b, pos + 1, optEnd)
    IN IF s.err # None THEN [err |-> s.err, size |-> 0, name |-> None]
       ELSE [err |-> n.err, size |-> s.size, name |-> n.name]

\* findParentAtom(atom, name): the nearest atom named name on the parent
\* chain, as an index into the stack (0 for null).
FindParentAtom(st, name) == SelectLastInSeq(st, LAMBDA a : a.name = name)

\* duration / timescale as a JavaScript number.
Quotient(d, t) ==
    CASE t # 0 -> <<d, t>>
      [] d = 0 -> "NaN"
      [] OTHER -> "Infinity"

(***************************************************************************)
(* The handler functions of createRootParser, run on atom a after          *)
(* br.pushSeek(a.start); st is the chain of a's ancestors.                 *)
(***************************************************************************)
ParseFtyp(b, a, st, m) ==
    IF Fits(b, a.start, 1, a.end)
    THEN Ok([m EXCEPT !["brand"] = StringOf(b, a.start)], st)
    ELSE Fail("read past end")

ParseMvhd(b, a, st, m) ==
    LET version == ScalarOf(b, a.start)
        p == a.start + 1 + (IF version = 0 THEN 8 ELSE 16) \div 4
    IN CASE ~Fits(b, a.start, 1, a.end) -> Fail("read past end")
         [] ~SeekOk(b, p) -> Fail("seek outside of buffer")
         [] ~Fits(b, p, 2, a.end) -> Fail("read past end")
         [] OTHER -> Ok([m EXCEPT !["duration"] =
                            Quotient(ScalarOf(b, p + 1), ScalarOf(b, p))], st)

ParseHdlr(b, a, st, m) ==
    LET p == a.start + 2
        trak == FindParentAtom(st, "trak")
    IN CASE ~SeekOk(b, p) -> Fail("seek outside of buffer")
         [] ~Fits(b, p, 1, a.end) -> Fail("read past end")
         [] trak = 0 -> Fail("TypeError: null has no properties")
         [] OTHER -> Ok(m, [st EXCEPT ![trak].trackType = StringOf(b, p)])

ParseStsd(b, a, st, m) ==
    LET trak == FindParentAtom(st, "trak")
        p == a.start + 10
    IN CASE trak = 0 \/ st[trak].trackType # "vide" -> Ok(m, st)
         [] ~SeekOk(b, p) -> Fail("seek outside of buffer")
         [] ~Fits(b, p, 1, a.end) -> Fail("read past end")
         [] OTHER -> Ok([m EXCEPT !["width"] = ScalarOf(b, p),
                                  !["height"] = ScalarOf(b, p)], st)

ParseDataString(field, b, a, st, m) ==
    LET p == a.start + 2
    IN CASE ~SeekOk(b, p) -> Fail("seek outside of buffer")
         [] ~Fits(b, p, a.end - p, a.end) -> Fail("read past end")
         [] OTHER -> Ok([m EXCEPT ![field] = Text(b, p, a.end - p)], st)

ParseCovr(b, a, st, m) ==
    LET p == a.start + 2
    IN CASE ~SeekOk(b, p) -> Fail("seek outside of buffer")
         [] ~Fits(b, p, a.end - p, a.end) -> Fail("read past end")
         [] OTHER -> Ok([m EXCEPT !["thumbnailURL"] = Image(b, p, a.end - p)], st)

RunHandler(h, b, a, st, m) ==
    CASE h = "parseFtyp" -> ParseFtyp(b, a, st, m)
      [] h = "parseMvhd" -> ParseMvhd(b, a, st, m)
      [] h = "parseHdlr" -> ParseHdlr(b, a, st, m)
      [] h = "parseStsd" -> ParseStsd(b, a, st, m)
      [] h = "parseCovr" -> ParseCovr(b, a, st, m)
      [] OTHER -> ParseDataString(h, b, a, st, m)

=============================================================================
