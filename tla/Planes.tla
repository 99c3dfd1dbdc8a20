------------------------------- MODULE Planes --------------------------------
(***************************************************************************)
(* The indexes src/av1_screen_bench computes into its buffers: the planes of *)
(* a YUV picture (yuv.rs), the blocks of the change detector, decoded planes *)
(* and captured rows, the files of saved pictures, the shapes drawn by the   *)
(* synthetic corpus (corpus.rs) and the percentiles of the report (main.rs). *)
(*                                                                           *)
(* Most are computed from numbers of an encoder, a decoder or a capturer;    *)
(* these are inputs here.                                                    *)
(***************************************************************************)
EXTENDS Integers, FiniteSetsExt

DivCeil(a, b) == (a + b - 1) \div b

\* saturating_sub
Less(a, b) == IF a > b THEN a - b ELSE 0

-----------------------------------------------------------------------------
(* The planes of a picture: f has pixfmt, w, h, strides, u and v.           *)

\* The layouts YuvBuffer::new is given: an external encoder leaves room for
\* every row of a plane before the next plane begins.
Layout(f) ==
    LET cw == IF f.pixfmt = "I444" THEN f.w ELSE DivCeil(f.w, 2)
        ch == IF f.pixfmt = "I444" THEN f.h ELSE DivCeil(f.h, 2)
        chroma == IF f.pixfmt = "NV12" THEN 2 * cw ELSE cw
    IN  /\ f \in [pixfmt : {"I420", "I444", "NV12"}, w : Nat \ {0}, h : Nat \ {0},
                  stride : Nat \X Nat \X Nat, u : Nat, v : Nat]
        /\ f.stride[1] >= f.w /\ f.stride[2] >= chroma
        /\ f.u >= f.stride[1] * f.h
        /\ f.pixfmt # "NV12" =>
             f.stride[3] >= cw /\ f.v >= f.u + f.stride[2] * ch

\* Mutant: the odd last row has no chroma.
ChromaHeightDown(f) == IF f.pixfmt = "I444" THEN f.h ELSE f.h \div 2

ChromaHeight(f) == IF f.pixfmt = "I444" THEN f.h ELSE DivCeil(f.h, 2)

\* What YuvBuffer::new allocates.
BufferLen(f) ==
    Max({f.stride[1] * f.h, f.u + f.stride[2] * ChromaHeight(f)} \cup
        (IF f.pixfmt = "NV12" THEN {}
                              ELSE {f.v + f.stride[3] * ChromaHeight(f)}))

Plane(at, stride, width, rows) ==
    [at |-> at, stride |-> stride, width |-> width, rows |-> rows]

\* What libyuv writes of them: the visible samples.
Written(f) ==
    LET cw == IF f.pixfmt = "I444" THEN f.w ELSE DivCeil(f.w, 2)
        ch == IF f.pixfmt = "I444" THEN f.h ELSE DivCeil(f.h, 2)
    IN  {Plane(0, f.stride[1], f.w, f.h)} \cup
        (IF f.pixfmt = "NV12"
           THEN {Plane(f.u, f.stride[2], 2 * cw, ch)}
           ELSE {Plane(f.u, f.stride[2], cw, ch),
                 Plane(f.v, f.stride[3], cw, ch)})

LastOf(p) == p.at + (p.rows - 1) * p.stride + p.width - 1

\* The blocks of update_active_map: where one begins and ends, the last one
\* cut off at the edge.
Blocks(size) == 0 .. DivCeil(size, 16) - 1
BlockFrom(k) == k * 16
BlockTo(k, size) == Min({k * 16 + 16, size})

\* Every sample of a row or column belongs to one block.
BlocksCover(size) ==
    \A x \in 0 .. size - 1 :
        {k \in Blocks(size) : BlockFrom(k) <= x /\ x < BlockTo(k, size)}
            = {x \div 16}

-----------------------------------------------------------------------------
(* Rows that come from elsewhere.                                           *)

\* A decoded plane is compared, a captured one copied, if it is large enough.
Fits(stride, width, len, rows) == stride >= width /\ len >= stride * rows

\* A subsampled chroma sample of the saved picture.
ChromaAt(x, y, stride) == (y \div 2) * stride + x \div 2

\* The rows of a picture file: the last one first.
BmpSize(w, h) == 54 + w * 4 * h
RowAt(row, w, h) == 54 + (h - 1 - row) * w * 4

MaxDimension == 16384
MaxFrameBytes == 1073741824

\* validate_dimensions and checked_frame_bytes; the product of two valid
\* sides fits.
ValidSides(w, h) == {w, h} \subseteq 1 .. MaxDimension
HasFrameBytes(w, h) == ValidSides(w, h) /\ w * h * 4 <= MaxFrameBytes

-----------------------------------------------------------------------------
(* The synthetic corpus.                                                    *)

Rect(x, y, w, h) == [x |-> x, y |-> y, w |-> w, h |-> h]

\* fill_rect clips what it is given.
Clipped(r, w, h) ==
    LET right == Min({r.x + r.w, w})
        bottom == Min({r.y + r.h, h})
    IN  Rect(Min({r.x, w}), Min({r.y, h}), Less(right, Min({r.x, w})),
             Less(bottom, Min({r.y, h})))

ContentX(w) == w \div 6 + 18
ContentW(w) == (w * 47) \div 100
BoxWidth(w) == Max({w \div 8, 24})

\* The moving box, and the caret.
BoxAt(w, frame) == ContentX(w) + ((frame * 7) % Max({Less(ContentW(w), BoxWidth(w)), 1}))

FilledRects(w, h, frame) ==
    {Rect(0, 0, w, 42), Rect(12, 9, w \div 4, 25),
     Rect(0, 42, w \div 6, Less(h, 42)),
     Rect(BoxAt(w, frame), (h * 3) \div 5, BoxWidth(w), 34)} \cup
    (IF frame % 30 < 15 THEN {Rect(ContentX(w) + 8, Less(h, 42), 3, 18)} ELSE {})

\* The video is drawn without clipping.
VideoRect(w, h) ==
    LET x == (w * 69) \div 100
    IN  Rect(x, 70, Less(w, x + 18), Less(h, 70 + 24))

Inside(r, w, h) == (r.w > 0 /\ r.h > 0) => (r.x + r.w <= w /\ r.y + r.h <= h)

-----------------------------------------------------------------------------

PercentileIndex(len, percentile) == ((len - 1) * percentile + 50) \div 100

=============================================================================
