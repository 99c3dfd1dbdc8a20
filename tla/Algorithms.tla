----------------------------- MODULE Algorithms ------------------------------
(***************************************************************************)
(* The parts of the programs that only compute, on one input after another: *)
(* colours (Colours), indexes (Planes) and command lines (Options).  A job   *)
(* is an input and what came out of it.                                     *)
(***************************************************************************)
EXTENDS Colours, Planes, Options

CONSTANTS
    Pixels,     \* the pixels to quantize
    Words16,    \* the two bytes of an RGB565 pixel
    Yuv,        \* luma and chroma of decoded samples
    Layouts,    \* the layouts an encoder asks for
    Rows,       \* [stride, width, len, rows] of decoded and captured planes
    Sizes,      \* <<width, height>> of pictures
    SceneFrames,\* frames of the synthetic corpus
    Lengths     \* how many samples a percentile is of

\* Channels are bytes.
ASSUME PixelAssumption ==
    /\ Pixels \subseteq Byte \X Byte \X Byte \X Byte
    /\ Words16 \subseteq Byte \X Byte
    /\ Yuv \subseteq Byte \X Byte \X Byte

\* An encoder lays its planes out one after the other, with rows as long as it
\* says; sizes are those of a picture; a percentile is taken of something.
ASSUME SizeAssumption ==
    /\ \A f \in Layouts : Layout(f)
    /\ Rows \subseteq [stride : Nat, width : Nat, len : Nat, rows : Nat \ {0}]
    /\ Sizes \subseteq (Nat \ {0}) \X (Nat \ {0})
    /\ SceneFrames \subseteq Nat
    /\ Lengths \subseteq Nat \ {0}

VARIABLE job

vars == <<job, optionVars>>

Job(kind, input, result) == job' = [kind |-> kind, input |-> input,
                                    result |-> result]

Init ==
    /\ job = [kind |-> "none"]
    /\ \/ ParsingInit("none", << >>)
       \/ \E c \in Commands : \E n \in 0 .. MaxArgs :
            \E given \in [1 .. n -> Tokens[c]] : ParsingInit(c, given)

Free == command = "none" /\ job.kind = "none" /\ UNCHANGED optionVars

Quantize == /\ Free
            /\ \E p \in Pixels, mode \in Modes :
                 Job("quantize", <<p, mode>>, Apply(p, mode))

CopyPixel == /\ Free
             /\ \/ \E w \in Words16 : Job("copy", <<"RGB565LE", w>>,
                                          Captured("RGB565LE", w))
                \/ \E p \in Pixels, format \in {"BGRA", "RGBA"} :
                     Job("copy", <<format, p>>, Captured(format, p))

ShowSample == /\ Free
              /\ \E s \in Yuv : Job("show", s, Bgr(s[1], s[2], s[3]))

Allocate == /\ Free
            /\ \E f \in Layouts : Job("layout", f, BufferLen(f))

TakePlane == /\ Free
             /\ \E r \in Rows : Job("rows", r, Fits(r.stride, r.width, r.len, r.rows))

SavePicture == /\ Free
               /\ \E s \in Sizes : /\ HasFrameBytes(s[1], s[2])
                                   /\ Job("bmp", s, BmpSize(s[1], s[2]))

\* The shapes; the background is the whole picture and the lines of text are
\* clipped pixel by pixel.
Render == /\ Free
          /\ \E s \in Sizes, frame \in SceneFrames :
               Job("scene", <<s[1], s[2], frame>>,
                   {Clipped(r, s[1], s[2]) : r \in FilledRects(s[1], s[2], frame)}
                       \cup {VideoRect(s[1], s[2])})

Percentile == /\ Free
              /\ \E len \in Lengths, p \in {50, 95, 99} :
                   Job("percentile", <<len, p>>, PercentileIndex(len, p))

Parse == OptionsNext /\ UNCHANGED job

Next == Quantize \/ CopyPixel \/ ShowSample \/ Allocate \/ TakePlane
        \/ SavePicture \/ Render \/ Percentile \/ Parse

Spec == Init /\ [][Next]_vars

-----------------------------------------------------------------------------
(* Properties.                                                              *)

\* ColorQuantizer, copy_pixel_buffer_to_bgra and the saved pictures: a
\* quantized pixel has a colour of its mode, near what it was, for good; a
\* captured one has every channel where its format says; a decoded one the
\* blue, green and red of its luma and chroma.
ColoursAreRight ==
    CASE job.kind = "quantize" ->
            QuantizedWell(job.input[1], job.input[2], job.result)
      [] job.kind = "copy" ->
            CapturedWell(job.input[1], job.input[2], job.result)
      [] job.kind = "show" ->
            ShownWell(job.input[1], job.input[2], job.input[3], job.result)
      [] OTHER -> TRUE

\* No index leaves what it indexes: libyuv writes within the buffer
\* YuvBuffer::new allocated, one plane not into another; the detector reads
\* within it, every sample once; a plane that is taken has every row read from
\* it; the rows of a picture file fill it; every shape of the synthetic scene
\* stays in the picture, those that are not clipped too; and a percentile is
\* one of the samples, with no more of them above it than its rank leaves, to
\* half a sample.
IndexesStayInside ==
    CASE job.kind = "layout" ->
            LET f == job.input
                luma == Plane(0, f.stride[1], f.w, f.h)
            IN  /\ \A p \in Written(f) : LastOf(p) < job.result
                /\ \A p, q \in Written(f) :
                     p # q => LastOf(p) < q.at \/ LastOf(q) < p.at
                /\ luma \in Written(f)
                /\ BlocksCover(f.w) /\ BlocksCover(f.h)
                /\ f.pixfmt = "I420" =>
                     ChromaAt(f.w - 1, f.h - 1, f.stride[2])
                         = LastOf(Plane(0, f.stride[2], DivCeil(f.w, 2),
                                        DivCeil(f.h, 2)))
      [] job.kind = "rows" ->
            job.result => LastOf(Plane(0, job.input.stride, job.input.width,
                                       job.input.rows)) < job.input.len
      [] job.kind = "bmp" ->
            LET w == job.input[1]
                h == job.input[2]
            IN  /\ RowAt(h - 1, w, h) = 54
                /\ RowAt(0, w, h) + 4 * w = job.result
                /\ job.result <= MaxFrameBytes + 54
      [] job.kind = "scene" ->
            LET w == job.input[1]
                h == job.input[2]
            IN  \A r \in job.result : Inside(r, w, h)
      [] job.kind = "percentile" ->
            LET len == job.input[1]
                above == len - 1 - job.result
            IN  /\ job.result \in 0 .. len - 1
                /\ 100 * above <= (100 - job.input[2]) * len + 50
      [] OTHER -> TRUE

=============================================================================
