----------------------------- MODULE MpegParser -----------------------------
(***************************************************************************)
(* MpegParser of the file manager (mpeg_parser.js): the incremental read   *)
(* scheduler (parse, requestRead, processTopLevelAtom) driving the         *)
(* recursive atom walker (applyParser, parseMpegAtomsInRange) over the     *)
(* grammar of createRootParser (MpegGrammar).                              *)
(*                                                                         *)
(* The walker's recursion is kept as an explicit stack of the atoms being  *)
(* iterated (the parent chain of the code's atom objects); one WalkStep is *)
(* one iteration of the loop of parseMpegAtomsInRange, the whole leaf      *)
(* handler included.  The walk runs synchronously inside the FileReader's  *)
(* onload callback, so no other event can come between its steps.         *)
(* Sizes and offsets are in 4-byte words (see ByteReader).                 *)
(*                                                                         *)
(* Parses is the set of parse calls made on one MpegParser object.  Each  *)
(* has its own reads, buffer, atoms, metadata object and callbacks; what  *)
(* they share is the object's rootParser_ field, which every parse call   *)
(* overwrites with a grammar whose handlers write into that call's        *)
(* metadata object (rootParser below: the parse whose metadata it fills). *)
(***************************************************************************)
EXTENDS Integers, Sequences, SequencesExt, MpegGrammar

CONSTANTS
    Parses,            \* the parse calls made on one MpegParser object
    Files,             \* the files a parse may be started on
    ChildLimit,        \* the literal 100 of "count++ > 100"
    ReadMayFail,       \* FileReader may end a read with onerror
    CallbackMayThrow   \* the caller's success callback may throw

VARIABLES
    file,        \* per parse: the file being parsed (never changes)
    request,     \* per parse: the outstanding requestRead(filePos, size, name)
    buf,         \* per parse: reader.result of the last completed read
    stack,       \* per parse: the atoms whose children are being iterated
    metadata,    \* per parse: the metadata object it created
    phase,       \* per parse: "idle" | "reading" | "walking" | "done" | "failed"
    calls,       \* per parse: the callbacks fired so far, in order
    rootParser   \* this.rootParser_: the parse whose metadata it writes into

vars == <<file, request, buf, stack, metadata, phase, calls, rootParser>>

\* Mutant: applyParser that does not skip the version field of 'meta'.
ApplyParserNoVersion(parser, b, a, st, m) ==
    CASE parser = None -> Ok(m, st)
      [] parser.kind = "leaf" ->
            IF SeekOk(b, a.start) THEN RunHandler(parser.handler, b, a, st, m)
            ELSE Fail("seek outside of buffer")
      [] OTHER ->
            Ok(m, Append(st, [node |-> parser.id, name |-> a.name,
                              start |-> a.start, end |-> a.end, offset |-> a.start,
                              count |-> 0, trackType |-> None]))

\* applyParser(parser, br, atom): skip, run a handler, or start iterating the
\* atom's children (after its 4-byte version field when versioned).
ApplyParser(parser, b, a, st, m) ==
    CASE parser = None -> Ok(m, st)
      [] parser.kind = "leaf" ->
            IF SeekOk(b, a.start) THEN RunHandler(parser.handler, b, a, st, m)
            ELSE Fail("seek outside of buffer")
      [] OTHER ->
            LET s == a.start + (IF Grammar[parser.id].versioned THEN 1 ELSE 0)
            IN Ok(m, Append(st, [node |-> parser.id, name |-> a.name,
                                 start |-> s, end |-> a.end, offset |-> s,
                                 count |-> 0, trackType |-> None]))

\* Mutant: the sibling guard tested after the increment ("++count > 100").
IterateChildLate(b, st, m) ==
    LET f == Last(st)
        hdr == ReadAtomHeader(b, f.offset, f.end)
        child == [start |-> f.offset + HEADER_SIZE, end |-> f.offset + hdr.size,
                  name |-> hdr.name]
        advanced == [st EXCEPT ![Len(st)].offset = f.offset + hdr.size,
                               ![Len(st)].count = f.count + 1]
    IN CASE f.count > ChildLimit + 1 -> Fail("too many child atoms")
         [] ~SeekOk(b, f.offset) -> Fail("seek outside of buffer")
         [] hdr.err # None -> Fail(hdr.err)
         [] OTHER -> ApplyParser(Lookup(f.node, hdr.name), b, child, advanced, m)

\* One iteration of the loop of parseMpegAtomsInRange over the innermost atom.
IterateChild(b, st, m) ==
    LET f == Last(st)
        hdr == ReadAtomHeader(b, f.offset, f.end)
        child == [start |-> f.offset + HEADER_SIZE, end |-> f.offset + hdr.size,
                  name |-> hdr.name]
        advanced == [st EXCEPT ![Len(st)].offset = f.offset + hdr.size,
                               ![Len(st)].count = f.count + 1]
    IN CASE f.count > ChildLimit -> Fail("too many child atoms")
         [] ~SeekOk(b, f.offset) -> Fail("seek outside of buffer")
         [] hdr.err # None -> Fail(hdr.err)
         [] OTHER -> ApplyParser(Lookup(f.node, hdr.name), b, child, advanced, m)

(***************************************************************************)
(* The scheduler: parse, requestRead and processTopLevelAtom.              *)
(***************************************************************************)

\* file.webkitSlice(pos, pos + size) as read by the FileReader: the part of
\* the range that lies inside the file.
Slice(f, pos, size) ==
    SubSeq(f, pos + 1, IF pos + size < Len(f) THEN pos + size ELSE Len(f))

\* No parse is inside a FileReader onload callback: only then can the event
\* loop deliver another event (a parse call or a read completion).
Quiet == \A q \in Parses : phase[q] # "walking"

\* onError(e) of parse p, after which p reads nothing more.
Error(p) ==
    /\ phase' = [phase EXCEPT ![p] = "failed"]
    /\ calls' = [calls EXCEPT ![p] = Append(@, "error")]

Init ==
    /\ file \in [Parses -> Files]
    /\ request = [p \in Parses |-> [pos |-> 0, size |-> HEADER_SIZE, name |-> None]]
    /\ buf = [p \in Parses |-> <<>>]
    /\ stack = [p \in Parses |-> <<>>]
    /\ metadata = [p \in Parses |-> [f \in Fields |-> None]]
    /\ phase = [p \in Parses |-> "idle"]
    /\ calls = [p \in Parses |-> <<>>]
    /\ rootParser = None

\* parse(file, callback, onError): a new metadata object, this.rootParser_
\* replaced by a grammar writing into it, and the read of the first header.
Parse(p) ==
    /\ Quiet
    /\ phase[p] = "idle"
    /\ phase' = [phase EXCEPT ![p] = "reading"]
    /\ rootParser' = p
    /\ UNCHANGED <<file, request, buf, stack, metadata, calls>>

\* reader.onerror = onError: onError is handed the FileReader's error event
\* rather than a message ("ioerror").
ReadError(p) ==
    /\ Quiet
    /\ phase[p] = "reading"
    /\ ReadMayFail
    /\ phase' = [phase EXCEPT ![p] = "failed"]
    /\ calls' = [calls EXCEPT ![p] = Append(@, "ioerror")]
    /\ UNCHANGED <<file, request, buf, stack, metadata, rootParser>>

\* reader.onload: processTopLevelAtom up to and including the applyParser of
\* the top-level atom, whose payload starts at 0 and ends at size - 8; the
\* handlers write into the metadata of the parse that made rootParser_.
ReadLoad(p) ==
    LET rq == request[p]
        b == Slice(file[p], rq.pos, rq.size)
        atomEnd == rq.size - HEADER_SIZE
        r == IF rq.name = None THEN Ok(metadata[rootParser], <<>>)
             ELSE ApplyParser(Lookup("root", rq.name), b,
                              [start |-> 0, end |-> atomEnd, name |-> rq.name],
                              <<>>, metadata[rootParser])
    IN /\ Quiet
       /\ phase[p] = "reading"
       /\ buf' = [buf EXCEPT ![p] = b]
       /\ IF (Len(b) # atomEnd /\ Len(b) # rq.size) \/ r.err # None
          THEN Error(p) /\ UNCHANGED <<stack, metadata>>
          ELSE /\ phase' = [phase EXCEPT ![p] = "walking"]
               /\ stack' = [stack EXCEPT ![p] = r.stack]
               /\ metadata' = [metadata EXCEPT ![rootParser] = r.meta]
               /\ UNCHANGED calls
       /\ UNCHANGED <<file, request, rootParser>>

\* One iteration of the loop of parseMpegAtomsInRange (offset != end).
WalkStep(p) ==
    LET r == IterateChild(buf[p], stack[p], metadata[rootParser])
    IN /\ phase[p] = "walking"
       /\ stack[p] # <<>>
       /\ Last(stack[p]).offset # Last(stack[p]).end
       /\ IF r.err # None
          THEN Error(p) /\ UNCHANGED <<stack, metadata>>
          ELSE /\ stack' = [stack EXCEPT ![p] = r.stack]
               /\ metadata' = [metadata EXCEPT ![rootParser] = r.meta]
               /\ UNCHANGED <<phase, calls>>
       /\ UNCHANGED <<file, request, buf, rootParser>>

\* The loop of parseMpegAtomsInRange ends (offset == end) and returns.
WalkReturn(p) ==
    /\ phase[p] = "walking"
    /\ stack[p] # <<>>
    /\ Last(stack[p]).offset = Last(stack[p]).end
    /\ stack' = [stack EXCEPT ![p] = Front(@)]
    /\ UNCHANGED <<file, request, buf, metadata, phase, calls, rootParser>>

\* Mutant: the EOF branch returns without calling onSuccess.
ProcessTailNoEof(p) ==
    LET b == buf[p]
        filePos == request[p].pos + Len(b)
        hdr == ReadAtomHeader(b, Len(b) - HEADER_SIZE, NoLimit)
    IN /\ phase[p] = "walking"
       /\ stack[p] = <<>>
       /\ IF Len(b) = request[p].size
          THEN IF hdr.err # None
               THEN Error(p) /\ UNCHANGED request
               ELSE /\ request' = [request EXCEPT ![p] =
                         IF Lookup("root", hdr.name) # None
                         THEN [pos |-> filePos, size |-> hdr.size, name |-> hdr.name]
                         ELSE [pos |-> filePos + hdr.size - HEADER_SIZE,
                               size |-> HEADER_SIZE, name |-> hdr.name]]
                    /\ phase' = [phase EXCEPT ![p] = "reading"]
                    /\ UNCHANGED calls
          ELSE /\ phase' = [phase EXCEPT ![p] = "done"]
               /\ UNCHANGED <<request, calls>>
       /\ UNCHANGED <<file, buf, stack, metadata, rootParser>>

\* The rest of processTopLevelAtom once the top-level atom is walked: parse
\* the next atom's header from the last 8 bytes of the buffer and request the
\* next read (only that atom's header when no parser knows its name), or,
\* when the read came back 8 bytes short, call onSuccess with p's own
\* metadata object; onSuccess runs inside the try block, so an exception it
\* throws reaches onError as well.
ProcessTail(p) ==
    LET b == buf[p]
        filePos == request[p].pos + Len(b)
        hdr == ReadAtomHeader(b, Len(b) - HEADER_SIZE, NoLimit)
    IN /\ phase[p] = "walking"
       /\ stack[p] = <<>>
       /\ IF Len(b) = request[p].size
          THEN IF hdr.err # None
               THEN Error(p) /\ UNCHANGED request
               ELSE /\ request' = [request EXCEPT ![p] =
                         IF Lookup("root", hdr.name) # None
                         THEN [pos |-> filePos, size |-> hdr.size, name |-> hdr.name]
                         ELSE [pos |-> filePos + hdr.size - HEADER_SIZE,
                               size |-> HEADER_SIZE, name |-> hdr.name]]
                    /\ phase' = [phase EXCEPT ![p] = "reading"]
                    /\ UNCHANGED calls
          ELSE /\ \E throws \in IF CallbackMayThrow THEN BOOLEAN ELSE {FALSE} :
                    calls' = [calls EXCEPT ![p] =
                                IF throws THEN @ \o <<"success", "error">>
                                ELSE Append(@, "success")]
               /\ phase' = [phase EXCEPT ![p] = "done"]
               /\ UNCHANGED request
       /\ UNCHANGED <<file, buf, stack, metadata, rootParser>>

Next ==
    \E p \in Parses :
        \/ Parse(p)
        \/ ReadError(p)
        \/ ReadLoad(p)
        \/ WalkStep(p)
        \/ WalkReturn(p)
        \/ ProcessTail(p)

\* The FileReader answers every read, and the walk and the rest of
\* processTopLevelAtom run to completion once the answer is there.  A parse
\* call itself is up to the host, so Parse has no fairness.
Fairness ==
    \A p \in Parses :
        /\ WF_vars(ReadLoad(p) \/ ReadError(p))
        /\ WF_vars(WalkStep(p))
        /\ WF_vars(WalkReturn(p))
        /\ WF_vars(ProcessTail(p))

Spec == Init /\ [][Next]_vars /\ Fairness

(***************************************************************************)
(* Properties                                                              *)
(***************************************************************************)

TypeOK ==
    /\ file \in [Parses -> Seq(Nat)]
    /\ request \in [Parses -> [pos : Nat, size : Nat, name : STRING \cup {None}]]
    /\ buf \in [Parses -> Seq(Nat)]
    /\ stack \in [Parses -> Seq([node : DOMAIN Grammar, name : STRING, start : Nat,
                                 end : Nat, offset : Nat, count : 0..ChildLimit + 1,
                                 trackType : STRING \cup {None}])]
    /\ \A p \in Parses : DOMAIN metadata[p] = Fields
    /\ phase \in [Parses -> {"idle", "reading", "walking", "done", "failed"}]
    /\ calls \in [Parses -> Seq({"success", "error", "ioerror"})]
    /\ rootParser \in Parses \cup {None}

\* Nesting bound (readAtomSize's "atom too long" check and the length check
\* of processTopLevelAtom): every atom whose children are being walked lies
\* inside the payload of the atom that contains it, and the top-level atom
\* inside the buffer that was read, however corrupt the sizes in the file.
NestedFrames ==
    \A p \in Parses : \A i \in 1..Len(stack[p]) :
        IF i = 1 THEN stack[p][i].end <= Len(buf[p])
        ELSE /\ stack[p][i].end <= stack[p][i - 1].end
             /\ stack[p][i].start >= stack[p][i - 1].start + HEADER_SIZE

\* Exactly-once delivery: processTopLevelAtom and the FileReader callbacks
\* never fire more than one of onSuccess and onError for a parse call, and
\* that one at most once, on any file and any sequence of read outcomes.
CallbackOnce == \A p \in Parses : Len(calls[p]) <= 1

\* Every parse is answered: under a FileReader that answers each read, the
\* chain of reads a parse call starts ends in onSuccess or onError.
EventuallyAnswered == \A p \in Parses : phase[p] # "idle" ~> calls[p] # <<>>

(***************************************************************************)
(* Refinement: the incremental parser implements the one-shot parse of    *)
(* MpegSpec, one instance per parse call.  The abstract result is the     *)
(* first callback fired, with the metadata object it was handed.  (The    *)
(* conjunction over the parses of the instances' SafetySpec, with the box *)
(* moved outside the quantifier.)                                         *)
(***************************************************************************)
DeliveredResult(p) ==
    CASE calls[p] = <<>> -> None
      [] Head(calls[p]) = "success" -> [kind |-> "success", meta |-> metadata[p]]
      [] OTHER -> [kind |-> Head(calls[p]), meta |-> None]

\* "count++ > 100" lets a container hold 101 children: the contract the
\* code keeps is the one-shot parse with a sibling ceiling of ChildLimit + 1.
CodeContract(p) == INSTANCE MpegSpec WITH SiblingLimit <- ChildLimit + 1,
                                          file <- file[p],
                                          result <- DeliveredResult(p)

\* The spec's own ceiling: at most 100 (ChildLimit) siblings per container.
SpecContract(p) == INSTANCE MpegSpec WITH SiblingLimit <- ChildLimit,
                                          file <- file[p],
                                          result <- DeliveredResult(p)

\* Whatever the file and the read outcomes, the first callback the parser
\* fires is one the one-shot parse of the whole file allows: onSuccess with
\* exactly its metadata when the file is well formed, onError when it is not
\* or a read failed; the incremental reads, the trailing-header lookahead,
\* the skipping of unknown atoms and the buffer-relative offsets of the
\* walk add nothing and lose nothing.  (Its liveness half is
\* EventuallyAnswered.)
ImplementsMpegSpec ==
    /\ \A p \in Parses : CodeContract(p)!Init
    /\ [][\A p \in Parses : [CodeContract(p)!Deliver]_(CodeContract(p)!vars)]_vars

\* Spec section 8: a container with more than 100 (ChildLimit) children is
\* rejected as malformed, so a file with ChildLimit + 1 children in one
\* container must end in onError.
ImplementsSpecSiblingLimit ==
    /\ \A p \in Parses : SpecContract(p)!Init
    /\ [][\A p \in Parses : [SpecContract(p)!Deliver]_(SpecContract(p)!vars)]_vars

=============================================================================
