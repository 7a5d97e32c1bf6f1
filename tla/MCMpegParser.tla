---------------------------- MODULE MCMpegParser ----------------------------
(***************************************************************************)
(* Model of MpegParser for TLC: a handful of well-formed MPEG-4 files      *)
(* built from atoms, and every file obtained from one of them by           *)
(* corrupting one atom size, truncating it, or appending a stray word.    *)
(***************************************************************************)
EXTENDS MpegParser, FiniteSets

\* The Latin-1 decoding of the words of the modelled files that are text:
\* their four ASCII characters, big-endian.
MCLatin1 ==
    (1718909296 :> "ftyp") @@ (1836019574 :> "moov") @@ (1836476516 :> "mvhd")
 @@ (1953653099 :> "trak") @@ (1835297121 :> "mdia") @@ (1751411826 :> "hdlr")
 @@ (1835626086 :> "minf") @@ (1937007212 :> "stbl") @@ (1937011556 :> "stsd")
 @@ (1969517665 :> "udta") @@ (1835365473 :> "meta") @@ (1768715124 :> "ilst")
 @@ (1080975725 :> "@nam") @@ (1668249202 :> "covr") @@ (1684108385 :> "data")
 @@ (1297043286 :> "MOOV") @@ (1179796805 :> "FREE") @@ (1835295092 :> "mdat")
 @@ (1769172845 :> "isom") @@ (1986618469 :> "vide") @@ (1936684398 :> "soun")
 @@ (1399811687 :> "Song")

\* The word whose Latin-1 text is s.
W(s) == CHOOSE w \in DOMAIN MCLatin1 : MCLatin1[w] = s

\* An atom: 4-byte size (in words here), 4-byte tag, payload.
Atom(tag, payload) == <<HEADER_SIZE + Len(payload), W(tag)>> \o payload

Ftyp == Atom("ftyp", <<W("isom")>>)
MvhdV0(ts, d) == Atom("mvhd", <<0, 0, 0, ts, d>>)
MvhdV1(ts, d) == Atom("mvhd", <<1, 0, 0, 0, 0, ts, d>>)
Hdlr(type) == Atom("hdlr", <<0, 0, type>>)
Stsd(dims) == Atom("stsd", <<0, 0, 0, 0, 0, 0, 0, 0, 0, 0, dims>>)
Stbl == Atom("minf", Atom("stbl", Stsd(640)))
Trak(first, second) == Atom("trak", Atom("mdia", first \o second))
Meta(items) == Atom("meta", <<0>> \o Atom("ilst", items))
Item(tag, value) == Atom(tag, Atom("data", <<0, 0>> \o value))

\* The end-to-end file of the spec: brand "isom", duration 5000 / 1000.
EndToEnd == Ftyp \o Atom("moov", MvhdV0(1000, 5000))
\* A video track whose hdlr precedes its sample table, and a title.
VideoTitled ==
    Ftyp \o Atom("MOOV", Trak(Hdlr(W("vide")), Stbl) \o
                         Atom("udta", Meta(Item("@nam", <<W("Song")>>))))
\* A sound track, then a video track whose hdlr comes after its sample table.
TwoTracks == Atom("moov", Trak(Hdlr(W("soun")), Stbl) \o Trak(Stbl, Hdlr(W("vide"))))
\* Unknown top-level atoms around a top-level meta with cover art.
Unknowns == Atom("FREE", <<0>>) \o Meta(Item("covr", <<7>>)) \o Atom("mdat", <<1, 1>>)
\* mvhd version 1 with a zero timescale.
ZeroTimescale == Atom("moov", MvhdV1(0, 5))

\* A movie atom with ChildLimit + 1 children (the most the loop accepts),
\* and one with ChildLimit + 2.
Free == Atom("FREE", <<>>)
Siblings == Atom("moov", Free \o Free \o MvhdV0(10, 20))
TooManySiblings == Atom("moov", Free \o Free \o Free \o MvhdV0(10, 20))

Bases == {EndToEnd, VideoTitled, TwoTracks, Unknowns, ZeroTimescale,
          Siblings, TooManySiblings, <<>>}

\* The positions of the size words of a file's atom headers.
SizeWords(f) == {i \in 1..Len(f) - 1 : f[i] < 1000 /\ f[i + 1] \in DOMAIN MCLatin1}

\* f with the word at position i replaced by v.
Put(f, i, v) == [j \in 1..Len(f) |-> IF j = i THEN v ELSE f[j]]

\* f with one atom size set to 0, 1, or one off its true value.
Corrupted(f) ==
    UNION {{Put(f, i, v) : v \in {0, 1, f[i] - 1, f[i] + 1} \cap Nat} :
           i \in SizeWords(f)}

Variants(f) ==
    {f} \cup Corrupted(f) \cup {SubSeq(f, 1, k) : k \in 0..Len(f) - 1}
        \cup {f \o <<0>>}

MCFiles == UNION {Variants(f) : f \in Bases}

\* A single well-formed file for the runs that look for one behaviour.
MCEndToEnd == {EndToEnd}
MCSiblings == {Siblings}
MCTwoFiles == {EndToEnd, VideoTitled}

=============================================================================
