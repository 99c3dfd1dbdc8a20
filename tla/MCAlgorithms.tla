---------------------------- MODULE MCAlgorithms -----------------------------
(* Every grey and every combination of the edges of the quantizer's steps;   *)
(* sizes around one and two blocks; arguments of every kind, flags that an    *)
(* option before them takes for its value among them.                        *)
EXTENDS Algorithms

Edges == {0, 8, 63, 128, 191, 255}

PixelsOnEdges == {<<v, v, v, 255>> : v \in Byte}
                 \cup {<<b, g, r, 0>> : b \in Edges, g \in Edges, r \in Edges}

TwoBytes == {<<low, high>> : low \in {0, 1, 31, 32, 224, 255}, high \in Byte}

Samples == {<<y, 128, 128>> : y \in Byte}
           \cup {<<y, u, v>> : y \in Edges, u \in Edges, v \in Edges}

\* The planes one after the other, each with some padding.
LayoutOf(fmt, w, h, pad) ==
    LET cw == IF fmt = "I444" THEN w ELSE DivCeil(w, 2)
        ch == IF fmt = "I444" THEN h ELSE DivCeil(h, 2)
        luma == w + pad
        chroma == (IF fmt = "NV12" THEN 2 * cw ELSE cw) + pad
    IN  [pixfmt |-> fmt, w |-> w, h |-> h, stride |-> <<luma, chroma, chroma>>,
         u |-> luma * h, v |-> luma * h + chroma * ch]

Sides == {1, 2, 15, 16, 17, 33}

LayoutsOfSides == {LayoutOf(fmt, w, h, pad) :
    fmt \in {"I420", "I444", "NV12"}, w \in Sides, h \in Sides, pad \in {0, 3}}

SmallRows == [stride : 1 .. 4, width : 1 .. 4, len : 0 .. 12, rows : 1 .. 3]

PictureSizes == {<<w, h>> : w \in {1, 17, 24, 64, 100, 321, 16384},
                            h \in {1, 42, 70, 94, 95, 161, 16384}}

Item(v) == <<<<v>>>>
With(k, text) == <<<<k>>, text>>

TokensOf ==
    ("run" :> {Item("--i444"), Item("--frames"), Item("--output-dir"),
               With("--frames", <<"0">>), With("--frames", <<"2">>),
               With("--colors", <<"16", "full", "16">>), Item("2"),
               With("--variants", <<"all">>), With("--output-dir", Empty), Item("--help")})
    @@ ("run-hw" :> {Item("--save-samples"), With("--qualities", <<"1", "1">>),
               With("--qualities", <<"1", "0">>), Item("--encoders"),
               <<<<"a", "", "a">>>>, With("--profiles", <<"hq", "hq", "default">>)})
    @@ ("record" :> {Item("--display"), Item("0"), Item("1"), Item("--output"),
               With("--capture", <<"gdi">>), With("--start-delay-ms", <<"0">>)})
    @@ ("export-bgra" :> {Item("--input"), Item("--output"), Item("corpus"),
               With("--output", <<"bgra">>)})
    @@ ("analyze-yuv420" :> {Item("--input"), With("--decoded", <<"yuv">>),
               With("--output", <<"json">>), Item("corpus")})
    @@ ("dxgi" :> {Item("--display"), Item("1"), Item("--jsonl"), Item("--help"),
               Item("--list-displays"), With("--mode", <<"dxgi">>),
               Item("--mode"), Item("hybrid-gdi-bootstrap")})
    @@ ("debug" :> {Item("--out"), Item("--dump"), Item("--interval-ms"),
               Item("0"), Item("-h"), With("--duration", <<"1">>)})
=============================================================================
