\* Segment walk over every layout of up to 3 segments of 1 or 2 bytes, with
\* every in-bounds offset and size; hg_size_t is 4 bits wide here, wider than
\* any sum of offsets and sizes so that no check wraps.  On the NA path both
\* sides are registered the same way or one has a single segment.
CONSTANTS
    MaxSegs = 3
    SegLens = {1, 2}
    Offsets = {0, 1, 2, 3, 4, 5, 6}
    SizeBits = 4
    MixedRegv = FALSE
SPECIFICATION Spec
INVARIANTS
    CopyMatchesFlat
    MinimalSplit
    AccessMatchesFlat
