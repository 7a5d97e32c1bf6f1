------------------------------ MODULE Id3Parser ------------------------------
(***************************************************************************)
(* Id3Parser of the file manager (id3_parser.js): two FunctionSequences   *)
(* run side by side on one file, id3v1parser reading the 128-byte tail    *)
(* and id3v2parser reading the 10-byte header and then the tag, and both  *)
(* write into one metadata object.                                         *)
(*                                                                         *)
(* Buffers are sequences of byte values and positions are 0-based byte    *)
(* offsets.  Texts stay byte sequences; frame names, which the code looks *)
(* up in its tables, are decoded to Latin-1 strings (Latin1).  A read that *)
(* fails its bounds check throws (spec section 4.1); nothing in the read  *)
(* callbacks catches it, so the sequence whose step threw stops.          *)
(***************************************************************************)
EXTENDS Integers, Sequences, SequencesExt, Bitwise, FunctionSequence

CONSTANTS
    None,         \* an absent field or value
    NoLimit,      \* the optional end argument of a ByteReader read left out
    Files,        \* the files a parse may be started on (records with .bytes)
    ReadMayFail   \* FileReader may end a read with onerror

BR == INSTANCE ByteReader WITH Latin1 <- <<>>

Fits(b, pos, n, limit) == BR!Fits(b, pos, n, limit)

\* readScalar(n, false): the big-endian value of the n bytes at pos.
Scalar(b, pos, n) == FoldLeft(LAMBDA acc, x : acc * 256 + x, 0, SubSeq(b, pos + 1, pos + n))

\* readNullTerminatedString(size, end): validate size bytes, then the bytes
\* before the first zero among them, the position moving past the zero or
\* past all size bytes.
NullTerminated(b, pos, size, limit) ==
    IF ~Fits(b, pos, size, limit) THEN [ok |-> FALSE]
    ELSE LET field == SubSeq(b, pos + 1, pos + size)
             zeros == {i \in DOMAIN field : field[i] = 0}
         IN IF zeros = {} THEN [ok |-> TRUE, text |-> field, next |-> pos + size]
            ELSE [ok |-> TRUE, text |-> SubSeq(field, 1, Min(zeros) - 1),
                  next |-> pos + Min(zeros)]

\* Latin-1 decoding of the printable ASCII range (with the quote, the
\* backslash and the backquote, which no table of the parser contains,
\* shown as "'"); any
\* other byte decodes to "?" .
Printable == " !'#$%&'()*+,-./0123456789:;<=>?@ABCDEFGHIJKLMNOPQRSTUVWXYZ[']^_'abcdefghijklmnopqrstuvwxyz{|}~"
Latin1(t) ==
    FoldLeft(LAMBDA acc, c : acc \o (IF c \in 32..126 THEN SubSeq(Printable, c - 31, c - 31)
                                     ELSE "?"), "", t)

\* hi << 16 for 0 <= hi < 2^16: ToInt32 of hi * 2^16, negative when bit 15
\* of hi lands in the sign bit.
ShiftLeft16(hi) == IF hi >= 2^15 THEN (hi - 2^16) * 2^16 ELSE hi * 2^16

\* Id3Parser.readSynchSafe_(reader, 4): the four cases fall through, so the
\* bytes are shifted by 21, 14, 7 and 0 bits and or-ed together.
ReadSynchSafe(b, pos) ==
    (((b[pos + 1] * 2^21) | (b[pos + 2] * 2^14)) | (b[pos + 3] * 2^7)) | b[pos + 4]

\* Id3Parser.readUInt24_: readScalar(2) << 16 | readScalar(1); the low 16
\* bits of the shifted value are zero, so or-ing the byte adds it.
ReadUInt24(b, pos) == ShiftLeft16(Scalar(b, pos, 2)) + b[pos + 3]

FLAG_EXTENDED_HEADER == 2^5

\* The test of extractFrames, `flags & FLAG_EXTENDED_HEADER != 0`: != binds
\* tighter than &, so it is flags & true, and true converts to 1.
ExtendedHeaderFlagged(flags) ==
    (flags & (IF FLAG_EXTENDED_HEADER # 0 THEN 1 ELSE 0)) # 0

\* readString_(reader, encoding, size): ISO-8859-1 (0) reads a
\* null-terminated string; the Unicode encodings are reported through
\* this.error and read nothing.
ReadString(b, pos, enc, size) ==
    IF enc # 0 THEN [ok |-> TRUE, text |-> <<>>, next |-> pos]
    ELSE NullTerminated(b, pos, size, NoLimit)

Throw == [ok |-> FALSE]

\* readTextFrame_ reading the value from the encoding byte on.
TextFrameNoEncodingSkip(b, p, end) ==
    IF ~Fits(b, p, 1, end) THEN Throw
    ELSE LET v == ReadString(b, p, b[p + 1], end - p)
         IN IF ~v.ok THEN Throw ELSE [ok |-> TRUE, value |-> v.text, image |-> None]

\* readTextFrame_: the encoding byte, then the value up to the frame end.
TextFrame(b, p, end) ==
    IF ~Fits(b, p, 1, end) THEN Throw
    ELSE LET v == ReadString(b, p + 1, b[p + 1], end - (p + 1))
         IN IF ~v.ok THEN Throw ELSE [ok |-> TRUE, value |-> v.text, image |-> None]

\* readUserDefinedTextFrame_ after its description d: the value.
UserDefinedValue(b, enc, end, d) ==
    LET v == ReadString(b, d.next, enc, end - d.next)
    IN IF ~d.ok \/ ~v.ok THEN Throw ELSE [ok |-> TRUE, value |-> v.text, image |-> None]

\* readUserDefinedTextFrame_: the encoding, a description, then the value.
UserDefinedTextFrame(b, p, end) ==
    IF ~Fits(b, p, 1, end) THEN Throw
    ELSE UserDefinedValue(b, b[p + 1], end, ReadString(b, p + 1, b[p + 1], end - (p + 1)))

\* readPIC_/readAPIC_ after the description d: a URL when the format f is
\* "-->", or else the image.
PictureData(b, end, f, d) ==
    LET url == IF f.text = <<45, 45, 62>>
               THEN NullTerminated(b, d.next, end - d.next, NoLimit)
               ELSE IF Fits(b, d.next, end - d.next, NoLimit)
                    THEN [ok |-> TRUE, text |-> BR!Image(b, d.next, end - d.next)]
                    ELSE Throw
    IN IF ~d.ok \/ ~url.ok THEN Throw ELSE [ok |-> TRUE, value |-> None, image |-> url.text]

\* readPIC_/readAPIC_ after the format f: the picture type, the description.
PictureFormat(b, p, end, f) ==
    CASE ~f.ok -> Throw
      [] ~Fits(b, f.next, 1, end) -> Throw
      [] OTHER -> PictureData(b, end, f, ReadString(b, f.next + 1, b[p + 1], end - (f.next + 1)))

\* readPIC_ (pic) and readAPIC_: the encoding, the 3-byte image format of
\* PIC (read with end - reader.tell(), a length, passed as the end
\* position) or the null-terminated MIME type of APIC, then the rest.
PictureFrame(b, p, end, pic) ==
    IF ~Fits(b, p, 1, end) THEN Throw
    ELSE PictureFormat(b, p, end, IF pic THEN NullTerminated(b, p + 1, 3, end - (p + 1))
                                  ELSE NullTerminated(b, p + 1, end - (p + 1), NoLimit))

\* Id3Parser.v2.HANDLERS: the frame names with a handler of their own.
HANDLERS == [TXX |-> "user", WXX |-> "user", TXXX |-> "user", WXXX |-> "user",
             PIC |-> "pic", APIC |-> "apic"]

\* The handler call of readFrame_ for the frame name at data position p.
FrameData(b, name, p, size) ==
    CASE name \in DOMAIN HANDLERS /\ HANDLERS[name] = "user" ->
            UserDefinedTextFrame(b, p, p + size)
      [] name \in DOMAIN HANDLERS -> PictureFrame(b, p, p + size, HANDLERS[name] = "pic")
      [] SubSeq(name, 1, 1) \in {"T", "W"} -> TextFrame(b, p, p + size)
      [] OTHER -> [ok |-> TRUE, value |-> None, image |-> None]

\* readFrame_ once the handler has run: popSeek back to pos and a relative
\* seek over the whole frame.
FrameEnd(b, pos, name, size, headerSize, data) ==
    CASE ~data.ok -> Throw
      [] ~BR!SeekOk(b, pos + size + headerSize) -> Throw
      [] OTHER -> [ok |-> TRUE, next |-> pos + size + headerSize,
                   frame |-> [name |-> name, value |-> data.value, image |-> data.image]]

\* readFrame_ after the name n: the size (and flags) by version, then the
\* handler of the name or readTextFrame_ for a name starting with T or W.
FrameHeader(b, pos, major, n, size) ==
    LET fields == IF major = 2 THEN 3 ELSE 6
    IN CASE ~Fits(b, n.next, fields, NoLimit) -> Throw
         [] OTHER -> FrameEnd(b, pos, Latin1(n.text), size, IF major = 2 THEN 6 ELSE 10,
                              FrameData(b, Latin1(n.text), n.next + fields, size))

\* The size field of readFrame_: 24-bit in v2.2, 32-bit in v2.3,
\* synchsafe in v2.4.  The switch has no default: for another major
\* version frame.size stays undefined and the reads go on with NaN
\* positions.  The files of the runs are all of versions 2 to 4, so that
\* case is left out; were it reached, this CASE would stop TLC.
FrameSize(b, at, major) ==
    CASE major = 2 -> ReadUInt24(b, at)
      [] major = 3 -> Scalar(b, at, 4)
      [] major = 4 -> ReadSynchSafe(b, at)

\* readFrame_ after the name n: an empty name ends the frames.
FrameNamed(b, pos, major, n) ==
    CASE ~n.ok -> Throw
      [] n.text = <<>> -> [ok |-> TRUE, frame |-> None]
      [] ~Fits(b, n.next, IF major = 2 THEN 3 ELSE 4, NoLimit) -> Throw
      [] OTHER -> FrameHeader(b, pos, major, n, FrameSize(b, n.next, major))

\* readFrame_(reader, majorVersion) at pos: the name, 3 bytes in v2.2 and
\* 4 otherwise.
ReadFrame(b, pos, major) ==
    FrameNamed(b, pos, major, NullTerminated(b, pos, IF major = 2 THEN 3 ELSE 4, NoLimit))

\* One turn of the loop of extractFrames on the frame r read.
RECURSIVE ReadFrames(_, _, _, _)
NextFrame(b, major, frames, r) ==
    CASE ~r.ok -> [ok |-> FALSE, frames |-> frames]
      [] r.frame = None -> [ok |-> TRUE, frames |-> frames]
      [] OTHER -> ReadFrames(b, r.next, major, (r.frame.name :> r.frame) @@ frames)

\* The loop of extractFrames, `while (frame = self.readFrame_(...))
\* metadata.id3v2[frame.name] = frame`: a later frame of the same name
\* replaces an earlier one, and the frames stored before a throw stay.
ReadFrames(b, pos, major, frames) == NextFrame(b, major, frames, ReadFrame(b, pos, major))

\* Id3Parser.v2.MAPPERS: the text frames shown in the description.
MAPPERS ==
    [TALB |-> "ID3_ALBUM", TBPM |-> "ID3_BPM", TCOM |-> "ID3_COMPOSER",
     TDAT |-> "ID3_DATE", TDLY |-> "ID3_PLAYLIST_DELAY", TEXT |-> "ID3_LYRICIST",
     TFLT |-> "ID3_FILE_TYPE", TIME |-> "ID3_TIME", TIT2 |-> "ID3_TITLE",
     TLEN |-> "ID3_LENGTH", TOWN |-> "ID3_FILE_OWNER", TPE1 |-> "ID3_LEAD_PERFORMER",
     TPE2 |-> "ID3_BAND", TRCK |-> "ID3_TRACK_NUMBER", TYER |-> "ID3_YEAR",
     WCOP |-> "ID3_COPYRIGHT", WOAF |-> "ID3_OFFICIAL_AUDIO_FILE_WEBPAGE",
     WOAR |-> "ID3_OFFICIAL_ARTIST", WOAS |-> "ID3_OFFICIAL_AUDIO_SOURCE_WEBPAGE",
     WPUB |-> "ID3_PUBLISHERS_OFFICIAL_WEBPAGE"]

\* Id3Parser.METADATA_ORDER
METADATA_ORDER ==
    <<"ID3_TITLE", "ID3_LEAD_PERFORMER", "ID3_YEAR", "ID3_ALBUM", "ID3_TRACK_NUMBER",
      "ID3_BPM", "ID3_COMPOSER", "ID3_DATE", "ID3_PLAYLIST_DELAY", "ID3_LYRICIST",
      "ID3_FILE_TYPE", "ID3_TIME", "ID3_LENGTH", "ID3_FILE_OWNER", "ID3_BAND",
      "ID3_COPYRIGHT", "ID3_OFFICIAL_AUDIO_FILE_WEBPAGE", "ID3_OFFICIAL_ARTIST",
      "ID3_OFFICIAL_AUDIO_SOURCE_WEBPAGE", "ID3_PUBLISHERS_OFFICIAL_WEBPAGE">>

\* METADATA_ORDER.indexOf(key)
IndexOf(key) ==
    IF \E i \in DOMAIN METADATA_ORDER : METADATA_ORDER[i] = key
    THEN CHOOSE i \in DOMAIN METADATA_ORDER : METADATA_ORDER[i] = key
    ELSE -1

\* String.prototype.trim on Latin-1 text: the white space and line
\* terminators of the range (tab to carriage return, space, no-break space).
Whitespace == {9, 10, 11, 12, 13, 32, 160}
Trim(t) ==
    LET keep == {i \in DOMAIN t : t[i] \notin Whitespace}
    IN IF keep = {} THEN <<>> ELSE SubSeq(t, Min(keep), Max(keep))

\* util.readFileBytes(file, begin, end): the bytes of the slice, cut short
\* at the end of the file.
Slice(f, begin, end) == SubSeq(f, begin + 1, Min({end, Len(f)}))

Seqs == {"v1", "v2"}

VARIABLES
    file,   \* the file being parsed: its bytes and what it was built from
    h       \* the parse: the sequences v1 and v2, their outstanding reads
            \* (read), and the metadata object (md)

vars == <<file, h>>

\* A step threw: the exception leaves the FileReader's callback, and the
\* sequence neither goes on nor reports.
Thrown(a, q) == [a EXCEPT ![q].thrown = TRUE]

\* util.readFileBytes(file, begin, end, this.nextStep, this.onError, this)
ReadFileBytes(a, q, begin, end) == [a EXCEPT !.read[q] = [begin |-> begin, end |-> end]]

\* A step's closing this.nextStep(): every step makes it its last call, so
\* the step marks it and CallNextStep, which runs the step, goes on.
CallsNextStep(a) == [a EXCEPT !.nextStep = TRUE]

\* extractId3v1(file, reader): on "TAG", metadata.id3v1 = {} and then
\* title, artist and album, each read as a null-terminated string of at
\* most 30 bytes from a fixed offset, trimmed, and kept only when not
\* empty.  A field that does not fit throws, leaving the fields before it.
ExtractId3v1(a, b) ==
    LET Read(i) == Fits(b, 30 * i - 27, 30, NoLimit)
        Field(i) == LET t == Trim(NullTerminated(b, 30 * i - 27, 30, NoLimit).text)
                    IN IF ~Read(i) \/ t = <<>> THEN None ELSE t
        a1 == [a EXCEPT !.md.id3v1 = [title |-> Field(1), artist |-> Field(2),
                                      album |-> Field(3)]]
    IN CASE ~Fits(b, 0, 3, NoLimit) -> Thrown(a, "v1")
         [] SubSeq(b, 1, 3) # <<84, 65, 71>> -> CallsNextStep(a)
         [] ~Read(3) -> Thrown(a1, "v1")
         [] OTHER -> CallsNextStep(a1)

\* checkId3v2(file, reader): on "ID3", metadata.id3v2 = {} and then the
\* version, flags and synchsafe size, and read the tag; a field that does
\* not fit throws, leaving the fields before it (None: not set; frames is
\* set by extractFrames only).  Without "ID3", finish the sequence.
CheckId3v2(a, b) ==
    LET Byte(i) == IF Fits(b, i - 1, 1, NoLimit) THEN b[i] ELSE None
        size == IF Fits(b, 6, 4, NoLimit) THEN ReadSynchSafe(b, 6) ELSE None
        a1 == [a EXCEPT !.md.id3v2 = [major |-> Byte(4), minor |-> Byte(5),
                                      flags |-> Byte(6), size |-> size, frames |-> <<>>]]
    IN CASE ~Fits(b, 0, 3, NoLimit) -> Thrown(a, "v2")
         [] SubSeq(b, 1, 3) # <<73, 68, 51>> -> [a EXCEPT !.v2 = Finish(@)]
         [] size = None -> Thrown(a1, "v2")
         [] OTHER -> ReadFileBytes(a1, "v2", 10, 10 + size)

\* The position extractFrames seeks to: past an extended header when it
\* finds one (its size, read as 4 bytes, minus 4), else 0.
HeaderEnd(v2, b) ==
    CASE ~(v2.major > 2 /\ ExtendedHeaderFlagged(v2.flags)) -> 0
      [] v2.major = 3 -> Scalar(b, 0, 4) - 4
      [] v2.major = 4 -> ReadSynchSafe(b, 0) - 4
      [] OTHER -> 0

\* extractFrames storing the frames r read without its closing nextStep.
StoreFramesNoNext(a, r) ==
    LET a1 == [a EXCEPT !.md.id3v2.frames = r.frames]
    IN IF r.ok THEN a1 ELSE Thrown(a1, "v2")

\* The end of extractFrames: the frames r read are stored, then nextStep.
StoreFrames(a, r) ==
    LET a1 == [a EXCEPT !.md.id3v2.frames = r.frames]
    IN IF r.ok THEN CallsNextStep(a1) ELSE Thrown(a1, "v2")

\* extractFrames(file, reader): skip an extended header, read the frames
\* from there, then nextStep.
ExtractFrames(a, b) ==
    LET v2 == a.md.id3v2
    IN CASE v2.major > 2 /\ ExtendedHeaderFlagged(v2.flags) /\ v2.major \in {3, 4}
              /\ ~Fits(b, 0, 4, NoLimit) -> Thrown(a, "v2")
         [] ~BR!SeekOk(b, HeaderEnd(v2, b)) -> Thrown(a, "v2")
         [] OTHER -> StoreFrames(a, ReadFrames(b, HeaderEnd(v2, b), v2.major, <<>>))

\* prepareDescription pushing the frame name as the key.
PrepareDescriptionRawKey(a) ==
    LET fr == a.md.id3v2.frames
        keys == {k \in DOMAIN fr : k \in DOMAIN MAPPERS /\ Trim(fr[k].value) # <<>>}
    IN CallsNextStep([a EXCEPT !.md.description =
                         SetToSortSeq({[key |-> k, value |-> Trim(fr[k].value)] : k \in keys},
                                      LAMBDA x, y : IndexOf(x.key) < IndexOf(y.key))])

\* prepareDescription(): the thumbnail of APIC, else of PIC; the mapped
\* text frames with a value that is not blank, sorted by METADATA_ORDER.
PrepareDescription(a) ==
    LET fr == a.md.id3v2.frames
        keys == {k \in DOMAIN fr : k \in DOMAIN MAPPERS /\ Trim(fr[k].value) # <<>>}
        entries == {[key |-> MAPPERS[k], value |-> Trim(fr[k].value)] : k \in keys}
        thumb == CASE "APIC" \in DOMAIN fr -> fr["APIC"].image
                   [] "PIC" \in DOMAIN fr -> fr["PIC"].image
                   [] OTHER -> a.md.thumbnailURL
    IN CallsNextStep([a EXCEPT !.md.thumbnailURL = thumb,
                               !.md.description =
                                   SetToSortSeq(entries, LAMBDA x, y : IndexOf(x.key) < IndexOf(y.key))])

\* Calling step a[q].idx of sequence q, b being the bytes a read delivered:
\* readTail and readHead start the reads; past the array, steps_[idx] is
\* undefined and calling it throws.
RunStep(a, q, b) ==
    CASE a[q].idx = 0 /\ q = "v1" ->
            ReadFileBytes(a, q, Len(file.bytes) - 128, Len(file.bytes))
      [] a[q].idx = 0 /\ q = "v2" -> ReadFileBytes(a, q, 0, 10)
      [] a[q].idx = 1 /\ q = "v1" -> ExtractId3v1(a, b)
      [] a[q].idx = 1 /\ q = "v2" -> CheckId3v2(a, b)
      [] a[q].idx = 2 /\ q = "v2" -> ExtractFrames(a, b)
      [] a[q].idx = 3 /\ q = "v2" -> PrepareDescription(a)
      [] OTHER -> Thrown(a, q)

\* this.nextStep(...) of sequence q, running the step it advances to, and
\* the nextStep that step ends with, if it does, with no arguments.
RECURSIVE CallNextStep(_, _, _)
AfterStep(a, q) == IF a.nextStep THEN CallNextStep(a, q, <<>>) ELSE a
CallNextStep(a, q, b) ==
    LET s1 == NextStep(a[q])
    IN IF Runs(a[q], s1)
       THEN AfterStep(RunStep([a EXCEPT ![q] = s1, !.nextStep = FALSE], q, b), q)
       ELSE [a EXCEPT ![q] = s1]

\* start(file) of sequence q.
StartSequence(a, q) ==
    IF a[q].started THEN [a EXCEPT ![q] = Start(@)]
    ELSE CallNextStep([a EXCEPT ![q].started = TRUE], q, <<>>)

\* parse(file, callback, onError): build id3v1parser (readTail,
\* extractId3v1) and id3v2parser (readHead, checkId3v2, extractFrames,
\* prepareDescription) and start both through the FunctionParallel, which
\* starts each sequence on the file; each then waits for its first read.
Init ==
    /\ file \in Files
    /\ h = LET new == [v1 |-> NewSequence(2), v2 |-> NewSequence(4),
                       read |-> [q \in Seqs |-> None], nextStep |-> FALSE,
                       md |-> [id3v1 |-> None, id3v2 |-> None,
                               thumbnailURL |-> None, description |-> None]]
           IN StartSequence(StartSequence(new, "v1"), "v2")

\* The outstanding read of sequence q loads: its onloadend hands the bytes
\* to this.nextStep, which runs the next step to its end.
ReadLoads(q) ==
    /\ h.read[q] # None
    /\ h' = CallNextStep([h EXCEPT !.read[q] = None], q,
                         Slice(file.bytes, h.read[q].begin, h.read[q].end))
    /\ UNCHANGED file

\* The outstanding read of sequence q fails: onerror is this.onError.
ReadFails(q) ==
    /\ ReadMayFail
    /\ h.read[q] # None
    /\ h' = [h EXCEPT !.read[q] = None, ![q] = OnError(@)]
    /\ UNCHANGED file

Next == \E q \in Seqs : ReadLoads(q) \/ ReadFails(q)

\* The FileReader ends every read it was given, with a load or an error:
\* weak fairness of ReadLoads(q) \/ ReadFails(q), written out as
\* []<>~ENABLED \/ []<><<A>>_vars with its enabledness, h.read[q] # None
\* (both actions clear the read, so every step of them changes vars).
Delivered(q) == ReadLoads(q) \/ ReadFails(q)
Fairness == \A q \in Seqs : []<>(h.read[q] = None) \/ []<><<Delivered(q)>>_vars

Spec == Init /\ [][Next]_vars /\ Fairness

(***************************************************************************)
(* Properties.                                                             *)
(***************************************************************************)

Bytes == Seq(0..255)

TypeOK ==
    /\ \A q \in Seqs :
          /\ h[q].idx \in -1..h[q].steps
          /\ h.read[q] \in {None} \cup [begin : Int, end : Int]
    /\ h.md.id3v1 \in {None} \cup [title : Bytes \cup {None}, artist : Bytes \cup {None},
                                   album : Bytes \cup {None}]
    /\ h.md.description \in {None} \cup
          Seq([key : {METADATA_ORDER[i] : i \in DOMAIN METADATA_ORDER}, value : Bytes])

\* No step of either sequence throws: every read the steps make stays in
\* its buffer and frame (the ByteReader checks), no step past the array is
\* called, and onError is only called while a step is current.
NoStepThrows == \A q \in Seqs : ~h[q].thrown

\* The contract the parser shares with the MPEG parser (spec section 6):
\* each of the two sequences eventually reports to the FunctionParallel,
\* through its callback or its failure callback.
Answered == \A q \in Seqs : <>Reported(h[q])


(***************************************************************************)
(* Model-checking Id3Parser on files built from a list of frames.  A file *)
(* record holds its bytes, the frames its ID3v2 tag was built from (v2)   *)
(* and the fields of its ID3v1 tag (v1); the reference decode says what   *)
(* the parse of such a file must deliver.  The builders write every field *)
(* the way the parser reads it, and a v2.2 size as the 3-byte integer the *)
(* comment of readUInt24_ promises.                                        *)
(***************************************************************************)

\* The bytes of an ASCII text.
Ascii(s) ==
    [i \in 1..Len(s) |-> CHOOSE c \in 32..126 : SubSeq(Printable, c - 31, c - 31) = SubSeq(s, i, i)]

Zeros(n) == [i \in 1..n |-> 0]
BigEndian(n, k) == [i \in 1..k |-> (n \div 256^(k - i)) % 256]
SynchSafe(n) == [i \in 1..4 |-> (n \div 128^(4 - i)) % 128]
Image == <<137, 80, 78, 71, 13>>

\* The payload of a frame, by kind.
Payload(f) ==
    CASE f.kind = "text" -> <<0>> \o Ascii(f.text)
      [] f.kind = "utf16" -> <<1, 255, 254>> \o Ascii(f.text)
      [] f.kind = "user" -> <<0>> \o Ascii("d") \o <<0>> \o Ascii(f.text)
      [] f.kind = "apic" -> <<0>> \o Ascii("PNG") \o <<0, 3, 0>> \o Image
      [] f.kind = "pic" -> <<0>> \o Ascii("PNG") \o <<3, 0>> \o Image
      [] f.kind = "link" -> <<0>> \o Ascii("-->") \o <<0, 3, 0>> \o Ascii(f.text)
      [] f.kind = "other" -> <<7, 7>>

FrameBytes(major, f) ==
    CASE major = 2 -> Ascii(f.name) \o BigEndian(Len(Payload(f)), 3) \o Payload(f)
      [] major = 3 -> Ascii(f.name) \o BigEndian(Len(Payload(f)), 4) \o <<0, 0>> \o Payload(f)
      [] major = 4 -> Ascii(f.name) \o SynchSafe(Len(Payload(f))) \o <<0, 0>> \o Payload(f)

\* An ID3v2 tag: header, optional extended header, frames, padding.
Tag(major, flags, ext, frames, padding) ==
    LET body == ext \o FoldLeft(LAMBDA acc, f : acc \o FrameBytes(major, f), <<>>, frames)
                \o Zeros(padding)
    IN Ascii("ID3") \o <<major, 0, flags>> \o SynchSafe(Len(body)) \o body

\* An ID3v1 tag: "TAG", three 30-byte fields, then year, comment, genre.
V1Tag(v1) ==
    LET Field(t) == Ascii(t) \o Zeros(30 - Len(t))
    IN Ascii("TAG") \o Field(v1.title) \o Field(v1.artist) \o Field(v1.album) \o Zeros(35)

Audio == [i \in 1..128 |-> 255]

File(major, flags, ext, frames, padding, v1) ==
    [bytes |-> (IF major = None THEN <<>> ELSE Tag(major, flags, ext, frames, padding))
               \o Audio \o (IF v1 = None THEN <<>> ELSE V1Tag(v1)),
     v2 |-> IF major = None THEN None ELSE frames,
     v1 |-> v1]

Fr(name, kind, text) == [name |-> name, kind |-> kind, text |-> text]

(***************************************************************************)
(* The reference decode.                                                   *)
(***************************************************************************)

\* The frame record the parser must store for frame f.
Expected(f) ==
    [name |-> f.name,
     value |-> CASE f.kind \in {"text", "user"} -> Ascii(f.text)
                 [] f.kind = "utf16" -> <<>>
                 [] OTHER -> None,
     image |-> CASE f.kind \in {"apic", "pic"} -> [image |-> Image]
                 [] f.kind = "link" -> Ascii(f.text)
                 [] OTHER -> None]

\* The ID3v1 fields the parser must store: a field left blank is None.
ExpectedV1(v1) ==
    LET F(t) == IF t = "" THEN None ELSE Ascii(t)
    IN IF v1 = None THEN None
       ELSE [title |-> F(v1.title), artist |-> F(v1.artist), album |-> F(v1.album)]

\* The frames by name, a later frame of a name replacing an earlier one.
ExpectedFrames(fs) == FoldLeft(LAMBDA acc, f : (f.name :> Expected(f)) @@ acc, <<>>, fs)

\* METADATA_ORDER filtered to the keys of mapped frames with a value that
\* is not blank.
ExpectedDescription(fs) ==
    LET fr == ExpectedFrames(fs)
        FrameOf(key) == {n \in DOMAIN fr \cap DOMAIN MAPPERS : MAPPERS[n] = key}
        Shown(key) == \E n \in FrameOf(key) : Trim(fr[n].value) # <<>>
        keys == SelectSeq(METADATA_ORDER, Shown)
    IN [i \in DOMAIN keys |->
           [key |-> keys[i], value |-> Trim(fr[CHOOSE n \in FrameOf(keys[i]) : TRUE].value)]]

ExpectedThumbnail(fs) ==
    LET fr == ExpectedFrames(fs)
    IN CASE "APIC" \in DOMAIN fr -> fr["APIC"].image
         [] "PIC" \in DOMAIN fr -> fr["PIC"].image
         [] OTHER -> None

\* The parse delivers what the file holds: a sequence that reports success
\* has stored the ID3v1 fields of the tail, or the frames of the ID3v2 tag
\* with the description in METADATA_ORDER and the APIC (else PIC) picture
\* as thumbnail; a file without a tag gets no tag object.
DecodesTag ==
    /\ h.v1.succeeded > 0 => h.md.id3v1 = ExpectedV1(file.v1)
    /\ h.v2.succeeded > 0 =>
          IF file.v2 = None THEN h.md.id3v2 = None
          ELSE /\ h.md.id3v2.frames = ExpectedFrames(file.v2)
               /\ h.md.description = ExpectedDescription(file.v2)
               /\ h.md.thumbnailURL = ExpectedThumbnail(file.v2)

(***************************************************************************)
(* The files of each run.                                                  *)
(***************************************************************************)

Long == "AAAAAAAAAAAAAAAAAAAAAAAAAAAAAAAAAAAAAAAAAAAAAAAAAAAAAAAAAAAAAAAA"

MCFiles ==
    { File(3, 0, <<>>, <<Fr("TIT2", "text", "Song"), Fr("TPE1", "text", " Band "),
                        Fr("APIC", "apic", ""), Fr("COMM", "other", "")>>, 4,
           [title |-> "T", artist |-> "", album |-> "Al"]),
      File(4, 0, <<>>, <<Fr("TALB", "text", "X"), Fr("TXXX", "user", "v"),
                        Fr("TIT2", "utf16", "U"), Fr("TCOM", "text", Long \o Long \o "B")>>, 10,
           None),
      File(2, 0, <<>>, <<Fr("PIC", "pic", ""), Fr("TT2", "text", "S"),
                        Fr("WXX", "user", "w")>>, 3, [title |-> "", artist |-> "", album |-> ""]),
      File(3, 0, <<>>, <<Fr("TIT2", "text", "A"), Fr("WOAR", "text", "u"),
                        Fr("TIT2", "text", " "), Fr("APIC", "link", "u")>>, 6, None),
      File(None, 0, <<>>, <<>>, 0, [title |-> "Tail", artist |-> "Me", album |-> ""]),
      File(4, 0, <<>>, <<>>, 8, [title |-> "", artist |-> "B", album |-> ""]),
      File(4, 0, <<>>, <<Fr("APIC", "link", "x"), Fr("TYER", "text", "1999"),
                        Fr("TPE2", "text", "  ")>>, 4, None),
      File(2, 0, <<>>, <<Fr("COM", "other", ""), Fr("TAL", "text", "b")>>, 3, None) }

\* A tag whose frames fill it to the last byte.
MCFilesUnpadded == { File(3, 0, <<>>, <<Fr("TIT2", "text", "Song")>>, 0, None) }

\* A v2.2 picture after another frame.
MCFilesPic == { File(2, 0, <<>>, <<Fr("TT2", "text", "Song"), Fr("PIC", "pic", "")>>, 3, None) }

\* A v2.2 frame of 256 bytes or more.
MCFilesLongV22 ==
    { File(2, 0, <<>>, <<Fr("TT2", "text", Long \o Long \o Long \o Long)>>, 3, None) }

\* A v2.3 tag with FLAG_EXTENDED_HEADER set and a 10-byte extended header
\* (its size, 6, then flags and padding size).
MCFilesExtended ==
    { File(3, FLAG_EXTENDED_HEADER, <<0, 0, 0, 6, 0, 0, 0, 0, 0, 0>>,
           <<Fr("TIT2", "text", "Song")>>, 4, None) }

=============================================================================
