----------------------------- MODULE ByteReader -----------------------------
(***************************************************************************)
(* The bounds checks of the ByteReader the file-manager parsers read       *)
(* through (byte_reader.js, which is not part of src/; modelled from the   *)
(* Byte Cursor contract of the spec, section 4.1).                        *)
(*                                                                         *)
(* Data abstraction: a buffer is a sequence of 4-byte words, each the     *)
(* big-endian 32-bit value of its bytes, and positions are 0-based word    *)
(* offsets, so a 4-byte read is a read of one word and the 8-byte atom     *)
(* header is two words.  Decoding a word as Latin-1 text goes through the  *)
(* table Latin1 of the four-character texts the modelled files contain;   *)
(* any other word decodes to text that matches no tag (Bin).               *)
(***************************************************************************)
EXTENDS Integers, Sequences

CONSTANTS
    Latin1,     \* word -> its four characters, for the words that are text
    NoLimit     \* the optional opt_end argument left out

Bin == "\\0\\0\\0\\n"

\* readScalar(4, false): the big-endian value of the word at pos.
ScalarOf(b, pos) == b[pos + 1]

\* readString(4): the Latin-1 text of the word at pos.
StringOf(b, pos) ==
    IF b[pos + 1] \in DOMAIN Latin1 THEN Latin1[b[pos + 1]] ELSE Bin

\* validateRead / the check inside every read: advancing n words from pos
\* passes neither the optional limit nor the end of the buffer.
Fits(b, pos, n, limit) ==
    /\ pos >= 0
    /\ limit # NoLimit => pos + n <= limit
    /\ pos + n <= Len(b)

\* seek(pos): the position must stay within [0, byteLength].
SeekOk(b, pos) == 0 <= pos /\ pos <= Len(b)

\* readString(n, end): n words from pos decoded as text; a length that is
\* not positive reads nothing.
Text(b, pos, n) == [i \in 1..n |-> StringOf(b, pos + i - 1)]

\* readImage(n, end): the raw n words from pos, wrapped as an image.
Image(b, pos, n) == [image |-> IF n <= 0 THEN <<>> ELSE SubSeq(b, pos + 1, pos + n)]

=============================================================================
