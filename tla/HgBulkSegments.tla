--------------------------- MODULE HgBulkSegments ---------------------------
(***************************************************************************)
(* The segment arithmetic of the bulk transfer engine (mercury_bulk.c):    *)
(* the argument check of HG_Bulk_transfer, hg_bulk_offset_translate, the   *)
(* segment walk shared by hg_bulk_transfer_get_op_count and                *)
(* hg_bulk_transfer_segments_na, and the single-operation shortcut of      *)
(* hg_bulk_transfer_na.  One behaviour is one transfer: Init picks the two *)
(* segment layouts and the arguments the caller passes, Setup is the dry   *)
(* walk that counts the NA operations, IssueOne is one iteration of the    *)
(* issuing loop, Finish is its final count check.  hg_size_t arithmetic is *)
(* kept modulo 2^SizeBits so that the wrap of the bounds check is visible. *)
(***************************************************************************)
EXTENDS Integers, Sequences, SequencesExt, FiniteSets

CONSTANTS
    MaxSegs,        \* largest segment count of a bulk handle
    SegLens,        \* lengths a segment may have (hg_bulk_create accepts 0)
    Offsets,        \* offsets and sizes the caller may pass
    SizeBits,       \* width of hg_size_t in the model
    MixedRegv       \* an HG_BULK_REGV handle may meet a multi-segment
                    \* handle registered per segment on the NA path

ASSUME MaxSegs \in Nat \ {0} /\ SegLens \subseteq Nat /\ SizeBits \in Nat \ {0}
       /\ MixedRegv \in BOOLEAN
ASSUME Offsets \subseteq 0..(2^SizeBits - 1)

SizeMod == 2^SizeBits

\* Unsigned hg_size_t arithmetic.
Wrap(x) == x % SizeMod

BulkMin(a, b) == IF a <= b THEN a ELSE b

\* Segment layouts a bulk handle can have: 1..MaxSegs segments.
Layouts == {s \in BoundedSeq(SegLens, MaxSegs) : Len(s) > 0}

\* desc.info.len as accumulated by hg_bulk_create.
TotalLen(segs) == Wrap(FoldLeft(+, 0, segs))

\* Absolute position of the start of segment i (1-based).
SegStart(segs, i) == FoldLeft(+, 0, SubSeq(segs, 1, i - 1))

(***************************************************************************)
(* HG_Bulk_transfer: (offset + size) > desc.info.len on both handles is    *)
(* rejected with HG_INVALID_ARG; the sum is computed in hg_size_t.         *)
(***************************************************************************)
ArgsAccepted(segs, offset, size) == Wrap(offset + size) <= TotalLen(segs)

(***************************************************************************)
(* hg_bulk_offset_translate: first segment whose cumulative end exceeds    *)
(* offset, and the offset inside it.  When no segment qualifies the index  *)
(* stays 0 and the offset is what is left after subtracting every length.  *)
(* The callers skip it when the offset is 0.                               *)
(***************************************************************************)
RECURSIVE TranslateFrom(_, _, _, _, _)
TranslateFrom(segs, offset, i, next, newOff) ==
    IF i > Len(segs) THEN [idx |-> 1, off |-> newOff]
    ELSE IF offset < next + segs[i] THEN [idx |-> i, off |-> newOff]
    ELSE TranslateFrom(segs, offset, i + 1, next + segs[i],
                       Wrap(newOff - segs[i]))

OffsetTranslate(segs, offset) ==
    IF offset > 0 THEN TranslateFrom(segs, offset, 1, 0, offset)
    ELSE [idx |-> 1, off |-> 0]

(***************************************************************************)
(* One iteration of the segment walk: the transfer size is the smallest of *)
(* what is left in either segment and what is left to move; the cursor     *)
(* moves past it and steps to the next segment on either side whose end    *)
(* it reaches.  The walk stops when nothing remains or a side runs out.    *)
(***************************************************************************)
WalkOn(o, l, w) == w.rem > 0 /\ w.oi <= Len(o) /\ w.li <= Len(l)

\* Mutation: the transfer size is not capped by what is left to move.
ChunkOfNoRem(o, l, w) ==
    [oi |-> w.oi, oo |-> w.oo, li |-> w.li, lo |-> w.lo,
     len |-> BulkMin(Wrap(o[w.oi] - w.oo), Wrap(l[w.li] - w.lo))]

ChunkOf(o, l, w) ==
    [oi |-> w.oi, oo |-> w.oo, li |-> w.li, lo |-> w.lo,
     len |-> BulkMin(w.rem,
                     BulkMin(Wrap(o[w.oi] - w.oo), Wrap(l[w.li] - w.lo)))]

\* Mutation: the local side only steps when the origin side does not.
AdvanceElseIf(o, l, w, t) ==
    LET oo == Wrap(w.oo + t)
        lo == Wrap(w.lo + t)
        oStep == oo >= o[w.oi]
        lStep == ~oStep /\ lo >= l[w.li]
    IN [oi  |-> IF oStep THEN w.oi + 1 ELSE w.oi,
        oo  |-> IF oStep THEN 0 ELSE oo,
        li  |-> IF lStep THEN w.li + 1 ELSE w.li,
        lo  |-> IF lStep THEN 0 ELSE lo,
        rem |-> w.rem - t]

Advance(o, l, w, t) ==
    LET oo == Wrap(w.oo + t)
        lo == Wrap(w.lo + t)
    IN [oi  |-> IF oo >= o[w.oi] THEN w.oi + 1 ELSE w.oi,
        oo  |-> IF oo >= o[w.oi] THEN 0 ELSE oo,
        li  |-> IF lo >= l[w.li] THEN w.li + 1 ELSE w.li,
        lo  |-> IF lo >= l[w.li] THEN 0 ELSE lo,
        rem |-> w.rem - t]

WalkStep(o, l, w) ==
    LET t == ChunkOf(o, l, w).len
    IN IF w.rem - t = 0 THEN [w EXCEPT !.rem = 0] ELSE Advance(o, l, w, t)

\* The sub-operations the walk yields from cursor w, in order.
RECURSIVE Walk(_, _, _)
Walk(o, l, w) ==
    IF WalkOn(o, l, w)
    THEN <<ChunkOf(o, l, w)>> \o Walk(o, l, WalkStep(o, l, w))
    ELSE <<>>

\* hg_bulk_transfer_get_op_count.
GetOpCount(o, l, w) == Len(Walk(o, l, w))

\* Cursor after translating both offsets.
StartCursor(o, oOff, l, lOff, size) ==
    LET ot == OffsetTranslate(o, oOff)
        lt == OffsetTranslate(l, lOff)
    IN [oi |-> ot.idx, oo |-> ot.off, li |-> lt.idx, lo |-> lt.off,
        rem |-> size]

(***************************************************************************)
(* hg_bulk_access: from the translated offset, one piece per segment, each *)
(* the rest of its segment capped by what is left, until size is covered   *)
(* or max_count pieces were filled.  The segment index is not checked      *)
(* against segment_count.                                                  *)
(***************************************************************************)
RECURSIVE AccessFromNoReset(_, _, _, _, _)
\* Mutation: the offset inside the segment is not reset on the next one.
AccessFromNoReset(segs, idx, off, rem, left) ==
    IF rem > 0 /\ left > 0
    THEN LET len == BulkMin(rem, Wrap(segs[idx] - off))
         IN <<[i |-> idx, off |-> off, len |-> len]>>
              \o AccessFromNoReset(segs, idx + 1, off, rem - len, left - 1)
    ELSE <<>>

RECURSIVE AccessFrom(_, _, _, _, _)
AccessFrom(segs, idx, off, rem, left) ==
    IF rem > 0 /\ left > 0
    THEN LET len == BulkMin(rem, Wrap(segs[idx] - off))
         IN <<[i |-> idx, off |-> off, len |-> len]>>
              \o AccessFrom(segs, idx + 1, 0, rem - len, left - 1)
    ELSE <<>>

\* HG_Bulk_access with a non-zero size and max_count: the walk from the
\* translated offset.  For a zero size or max_count it returns before
\* writing anything, actual_count included; that case is not asked here.
Access(segs, offset, size, maxCount) ==
    LET t == TranslateFrom(segs, offset, 1, 0, offset)
    IN AccessFrom(segs, t.idx, t.off, size, maxCount)

\* On the NA path one side is HG_BULK_REGV (one memory handle for all its
\* segments) while the other has several segments, each with its own
\* memory handle (hg_bulk_create sets REGV only when the plugin can
\* register count segments at once, so a remote handle and a local one
\* of a different count can differ).
RegvMeetsSegments(o, oRegv, l, lRegv) ==
    \/ oRegv /\ ~lRegv /\ Len(l) > 1
    \/ lRegv /\ ~oRegv /\ Len(o) > 1

\* hg_bulk_transfer_na: a single NA operation when each side is one segment
\* or registered as one multi-segment handle (HG_BULK_REGV).
SingleOp(o, oRegv, l, lRegv) ==
    (oRegv \/ Len(o) = 1) /\ (lRegv \/ Len(l) = 1)

VARIABLES
    origin, local,      \* segment lengths of the two handles
    oRegv, lRegv,       \* HG_BULK_REGV on each handle
    oOff, lOff, size,   \* transfer arguments
    path,               \* "na", or "self" (self address or eager pull)
    phase,              \* "count", "issue", "done", "error"
    opCount,            \* hg_bulk_op_id->op_count
    cursor,             \* walk state of hg_bulk_transfer_segments_na
    issued,             \* NA operations issued so far, in order
    ret                 \* return code of the transfer

vars == <<origin, local, oRegv, lRegv, oOff, lOff, size, path, phase, opCount,
          cursor, issued, ret>>

NoCursor == [oi |-> 0, oo |-> 0, li |-> 0, lo |-> 0, rem |-> 0]

(***************************************************************************)
(* A transfer that passed HG_Bulk_transfer's checks with a non-zero size   *)
(* (hg_bulk_transfer completes size 0 at once), on the NA path or on the   *)
(* self path hg_bulk_transfer takes for a self address or an eager pull.   *)
(***************************************************************************)
Init ==
    /\ origin \in Layouts /\ local \in Layouts
    /\ oRegv \in (IF Len(origin) > 1 THEN BOOLEAN ELSE {FALSE})
    /\ lRegv \in (IF Len(local) > 1 THEN BOOLEAN ELSE {FALSE})
    /\ oOff \in Offsets /\ lOff \in Offsets /\ size \in Offsets \ {0}
    /\ ArgsAccepted(origin, oOff, size) /\ ArgsAccepted(local, lOff, size)
    /\ path \in {"na", "self"}
    /\ path = "na" /\ RegvMeetsSegments(origin, oRegv, local, lRegv) => MixedRegv
    /\ phase = "count"
    /\ opCount = 1
    /\ cursor = NoCursor
    /\ issued = <<>>
    /\ ret = "SUCCESS"

(***************************************************************************)
(* hg_bulk_transfer_na, single-operation branch: one NA put/get on handle  *)
(* 0 of each side at the caller's offsets; op_count keeps its default 1.   *)
(***************************************************************************)
SetupSingle ==
    /\ phase = "count" /\ path = "na"
    /\ SingleOp(origin, oRegv, local, lRegv)
    /\ issued' =
         <<[oi |-> 1, oo |-> oOff, li |-> 1, lo |-> lOff, len |-> size]>>
    /\ phase' = "done"
    /\ UNCHANGED <<origin, local, oRegv, lRegv, oOff, lOff, size, path, opCount,
                   cursor, ret>>

(***************************************************************************)
(* hg_bulk_transfer_na, segmented branch: translate both offsets, count    *)
(* the operations with the dry walk; a count of 0 is HG_INVALID_ARG.       *)
(***************************************************************************)
SetupMulti ==
    /\ phase = "count" /\ path = "na"
    /\ ~SingleOp(origin, oRegv, local, lRegv)
    /\ LET w == StartCursor(origin, oOff, local, lOff, size)
           n == GetOpCount(origin, local, w)
       IN /\ cursor' = w
          /\ opCount' = n
          /\ phase' = IF n = 0 THEN "error" ELSE "issue"
          /\ ret' = IF n = 0 THEN "INVALID_ARG" ELSE ret
    /\ UNCHANGED <<origin, local, oRegv, lRegv, oOff, lOff, size, path, issued>>

\* One iteration of the loop of hg_bulk_transfer_segments_na.
IssueOne ==
    /\ phase = "issue"
    /\ WalkOn(origin, local, cursor)
    /\ issued' = Append(issued, ChunkOf(origin, local, cursor))
    /\ cursor' = WalkStep(origin, local, cursor)
    /\ UNCHANGED <<origin, local, oRegv, lRegv, oOff, lOff, size, path, phase,
                   opCount, ret>>

\* End of hg_bulk_transfer_segments_na: count != na_op_count is an error.
Finish ==
    /\ phase = "issue"
    /\ ~WalkOn(origin, local, cursor)
    /\ ret' = IF Len(issued) # opCount THEN "PROTOCOL_ERROR" ELSE "SUCCESS"
    /\ phase' = "done"
    /\ UNCHANGED <<origin, local, oRegv, lRegv, oOff, lOff, size, path, opCount,
                   cursor, issued>>

\* hg_bulk_transfer_self: translate both offsets (whatever the segment
\* count or REGV), then walk with memcpy.
SetupSelf ==
    /\ phase = "count" /\ path = "self"
    /\ cursor' = StartCursor(origin, oOff, local, lOff, size)
    /\ phase' = "copy"
    /\ UNCHANGED <<origin, local, oRegv, lRegv, oOff, lOff, size, path,
                   opCount, issued, ret>>

\* One iteration of the loop of hg_bulk_transfer_segments_self (copy_op).
CopyOne ==
    /\ phase = "copy"
    /\ WalkOn(origin, local, cursor)
    /\ issued' = Append(issued, ChunkOf(origin, local, cursor))
    /\ cursor' = WalkStep(origin, local, cursor)
    /\ UNCHANGED <<origin, local, oRegv, lRegv, oOff, lOff, size, path, phase,
                   opCount, ret>>

\* End of the copy loop; hg_bulk_transfer_self completes the op at once.
CopyDone ==
    /\ phase = "copy"
    /\ ~WalkOn(origin, local, cursor)
    /\ phase' = "done"
    /\ UNCHANGED <<origin, local, oRegv, lRegv, oOff, lOff, size, path,
                   opCount, cursor, issued, ret>>

\* The transfer has been issued (or refused); nothing more happens.
Done == phase \in {"done", "error"} /\ UNCHANGED vars

Next == SetupSingle \/ SetupMulti \/ IssueOne \/ Finish
        \/ SetupSelf \/ CopyOne \/ CopyDone \/ Done

Spec == Init /\ [][Next]_vars /\ WF_vars(Next)

-----------------------------------------------------------------------------
\* NA addresses a side through its memory handles: a REGV handle has one,
\* registered over all segments, so an offset into it is a flat position;
\* otherwise memory handle i is segment i.  The self path copies between
\* segment addresses whatever the registration.
ByHandle(regv) == path = "na" /\ regv

\* Absolute position addressed by memory handle (or segment) i at offset off.
Pos(segs, regv, i, off) ==
    IF ByHandle(regv) THEN off ELSE SegStart(segs, i) + off

\* A sub-operation of len bytes at offset off stays inside memory handle (or
\* segment) i, which exists: a REGV side has only handle 0 (index 1 here).
InHandle(segs, regv, i, off, len) ==
    IF ByHandle(regv) THEN i = 1 /\ off + len <= TotalLen(segs)
    ELSE i \in 1..Len(segs) /\ off + len <= segs[i]

\* Bytes covered by the sub-operations: (origin, local) pairs of absolute
\* positions.
Moved ==
    UNION {{<<Pos(origin, oRegv, c.oi, c.oo) + k,
              Pos(local, lRegv, c.li, c.lo) + k>> : k \in 0..(c.len - 1)} :
           c \in ToSet(issued)}

\* The flat-buffer copy the transfer stands for.
FlatCopy == {<<oOff + k, lOff + k>> : k \in 0..(size - 1)}

\* The transfer was split at segment boundaries (NA multi-op or self copy).
Split == path = "self" \/ ~SingleOp(origin, oRegv, local, lRegv)

\* Offsets at which either layout has a segment boundary inside the range.
Cuts == ({SegStart(origin, j) - oOff : j \in 2..Len(origin)}
            \cup {SegStart(local, j) - lOff : j \in 2..Len(local)})
        \cap 1..(size - 1)

(***************************************************************************)
(* Spec section 8: once issued, a transfer moves exactly the bytes of      *)
(* [origin_offset, origin_offset + size) to [local_offset, local_offset +  *)
(* size), and each sub-operation addresses a memory handle that exists,    *)
(* inside it.  The segmented walk passes segment indexes and offsets to    *)
(* NA (mercury_bulk.c:2316-2318), which is right only for a side with one  *)
(* memory handle per segment.                                              *)
(***************************************************************************)
CopyMatchesFlat ==
    phase = "done" =>
        /\ Moved = FlatCopy
        /\ \A c \in ToSet(issued) :
              /\ InHandle(origin, oRegv, c.oi, c.oo, c.len)
              /\ InHandle(local, lRegv, c.li, c.lo, c.len)

(***************************************************************************)
(* Spec 4.7: the walk splits the transfer into the minimum number of       *)
(* sub-operations, one per run between consecutive boundaries of either    *)
(* layout, and each moves at least one byte.                               *)
(***************************************************************************)
MinimalSplit ==
    (phase = "done" /\ Split) =>
        /\ Len(issued) = Cardinality(Cuts) + 1
        /\ \A c \in ToSet(issued) : c.len > 0
(***************************************************************************)
(* HG_Bulk_access on the origin handle, for every max_count from 1 to the  *)
(* segment count: the pieces returned, in order, are the flat range        *)
(* [offset, offset + size) cut at segment boundaries, each inside its      *)
(* segment; fewer than max_count pieces only if the whole range is         *)
(* covered.                                                                *)
(***************************************************************************)
AccessMatchesFlat ==
    \A mc \in 1..MaxSegs :
        LET a == Access(origin, oOff, size, mc)
            pos(k) == SegStart(origin, a[k].i) + a[k].off
            upto(k) == FoldLeft(+, 0, [j \in 1..(k - 1) |-> a[j].len])
        IN /\ Len(a) <= mc
           /\ \A k \in 1..Len(a) :
                 /\ a[k].i \in 1..Len(origin)
                 /\ a[k].off + a[k].len <= origin[a[k].i]
                 /\ pos(k) = oOff + upto(k)
           /\ (Len(a) < mc => upto(Len(a) + 1) = size)
====
