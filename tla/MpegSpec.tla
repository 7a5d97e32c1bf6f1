------------------------------ MODULE MpegSpec ------------------------------
(***************************************************************************)
(* What parse(file, onSuccess, onError) promises (spec sections 4.4, 4.5, *)
(* 6 and 7), without the incremental reads: exactly one of the callbacks  *)
(* fires, once; onSuccess carries the metadata of a one-shot recursive-    *)
(* descent walk of the whole file, and onError fires when that walk finds *)
(* the file malformed or when a read fails.                                *)
(*                                                                         *)
(* The walk follows the spec: walk_children iterates the boxes of          *)
(* [start, end), reads each header bounded by the parent's end, fails on  *)
(* more than SiblingLimit siblings, and dispatches through the grammar;   *)
(* the top level reads each box header, skips unknown boxes unread, and   *)
(* accepts a known box only when the file holds all of it and either ends *)
(* there or holds the next box's whole header.  Offsets are absolute file *)
(* offsets, where the code uses offsets into each read's buffer.          *)
(***************************************************************************)
EXTENDS Integers, Sequences, SequencesExt, MpegGrammar

CONSTANTS
    Files,         \* the files a parse may be started on
    SiblingLimit,  \* the spec's ceiling of 100 sibling boxes per container
    ReadMayFail    \* the host's read may fail with IoError

VARIABLES
    file,    \* the file being parsed
    result   \* None, or the callback that fired: [kind, meta], where kind
             \* "ioerror" is onError called with a failed read

vars == <<file, result>>

RECURSIVE Walk(_, _, _, _, _), WalkChildren(_, _, _, _, _, _, _)

\* walk(schema_node, cursor, box): ctx is the chain of the box's ancestors.
Walk(f, node, a, ctx, m) ==
    CASE node = None -> Ok(m, ctx)
      [] node.kind = "leaf" -> RunHandler(node.handler, f, a, ctx, m)
      [] OTHER ->
            LET s == a.start + (IF Grammar[node.id].versioned THEN 1 ELSE 0)
                r == WalkChildren(f, node.id, s, a.end, 0,
                                  Append(ctx, [name |-> a.name, trackType |-> None]), m)
            IN IF r.err # None THEN r ELSE Ok(r.meta, Front(r.stack))

\* walk_children(children_map, cursor, parent_box) from offset, after n
\* siblings.
WalkChildren(f, id, offset, end, n, ctx, m) ==
    LET hdr == ReadAtomHeader(f, offset, end)
        child == [start |-> offset + HEADER_SIZE, end |-> offset + hdr.size,
                  name |-> hdr.name]
        r == Walk(f, Lookup(id, hdr.name), child, ctx, m)
    IN CASE offset = end -> Ok(m, ctx)
         [] n + 1 > SiblingLimit -> Fail("too many children")
         [] hdr.err # None -> Fail(hdr.err)
         [] r.err # None -> r
         [] OTHER -> WalkChildren(f, id, offset + hdr.size, end, n + 1, r.stack, r.meta)

\* The top-level boxes of file f from offset pos (section 4.5).
RECURSIVE TopLevel(_, _, _)
TopLevel(f, pos, m) ==
    LET size == ScalarOf(f, pos)
        name == ToLower(StringOf(f, pos + 1))
        node == Lookup("root", name)
        r == Walk(f, node, [start |-> pos + HEADER_SIZE, end |-> pos + size,
                            name |-> name], <<>>, m)
    IN CASE pos >= Len(f) -> Ok(m, <<>>)
         [] pos + HEADER_SIZE > Len(f) -> Fail("read mismatch")
         [] size < HEADER_SIZE -> Fail("atom too short")
         [] node = None -> TopLevel(f, pos + size, m)
         [] pos + size # Len(f) /\ pos + size + HEADER_SIZE > Len(f) ->
                Fail("read mismatch")
         [] r.err # None -> r
         [] OTHER -> TopLevel(f, pos + size, r.meta)

Parse(f) == TopLevel(f, 0, [x \in Fields |-> None])

Init ==
    /\ file \in Files
    /\ result = None

Deliver ==
    LET r == Parse(file)
    IN /\ result = None
       /\ \/ r.err = None /\ result' = [kind |-> "success", meta |-> r.meta]
          \/ r.err # None /\ result' = [kind |-> "error", meta |-> None]
          \/ ReadMayFail /\ result' = [kind |-> "ioerror", meta |-> None]
       /\ UNCHANGED file

SafetySpec == Init /\ [][Deliver]_vars

Spec == SafetySpec /\ WF_vars(Deliver)

=============================================================================
