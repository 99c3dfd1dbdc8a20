------------------------------ MODULE Colours --------------------------------
(***************************************************************************)
(* The arithmetic on one pixel in src/av1_screen_bench/src/corpus.rs and    *)
(* yuv.rs: the quantizer that simulates palettes, the capture formats, and  *)
(* the pictures saved from a decoder.  A pixel is <<blue, green, red, alpha>>.*)
(***************************************************************************)
EXTENDS Integers, FiniteSetsExt

Byte == 0 .. 255

Modes == {"full", "4096", "256", "16"}

-----------------------------------------------------------------------------
(* The quantizer.                                                           *)

QuantizeChannel(value, levels) ==
    LET bucket == (value * levels + 127) \div 255
    IN  (bucket * 255 + levels \div 2) \div levels

\* Blue, green, red of the sixteen colours.
Palette == <<
    <<0, 0, 0>>, <<128, 0, 0>>, <<0, 128, 0>>, <<128, 128, 0>>,
    <<0, 0, 128>>, <<128, 0, 128>>, <<0, 128, 128>>, <<192, 192, 192>>,
    <<128, 128, 128>>, <<255, 0, 0>>, <<0, 255, 0>>, <<255, 255, 0>>,
    <<0, 0, 255>>, <<255, 0, 255>>, <<0, 255, 255>>, <<255, 255, 255>>>>

Square(n) == n * n

\* The eye is most sensitive to green and least to blue.
Distance(p, q) == 2 * Square(p[3] - q[3]) + 4 * Square(p[2] - q[2])
                  + Square(p[1] - q[1])

\* The colour of the table for five bits per channel: the first nearest one.
Palette16(b5, g5, r5) ==
    LET at == <<(b5 * 255) \div 31, (g5 * 255) \div 31, (r5 * 255) \div 31>>
        best == Min({Distance(at, Palette[k]) : k \in DOMAIN Palette})
    IN  Palette[Min({k \in DOMAIN Palette : Distance(at, Palette[k]) = best})]

\* Mutant: the channels of a BGRA pixel taken for those of an RGBA one.
ApplyToRgb(pixel, mode) ==
    LET color == CASE mode = "full" -> pixel
                   [] mode = "4096" -> [c \in 1 .. 3 |->
                                          QuantizeChannel(pixel[c], 15)]
                   [] mode = "256"  -> <<QuantizeChannel(pixel[1], 7),
                                         QuantizeChannel(pixel[2], 7),
                                         QuantizeChannel(pixel[3], 3)>>
                   [] mode = "16"   -> Palette16(pixel[3] \div 8,
                                           pixel[2] \div 8, pixel[1] \div 8)
    IN  <<color[1], color[2], color[3], pixel[4]>>

Apply(pixel, mode) ==
    LET color == CASE mode = "full" -> pixel
                   [] mode = "4096" -> [c \in 1 .. 3 |->
                                          QuantizeChannel(pixel[c], 15)]
                   [] mode = "256"  -> <<QuantizeChannel(pixel[1], 3),
                                         QuantizeChannel(pixel[2], 7),
                                         QuantizeChannel(pixel[3], 7)>>
                   [] mode = "16"   -> Palette16(pixel[1] \div 8,
                                           pixel[2] \div 8, pixel[3] \div 8)
    IN  <<color[1], color[2], color[3], pixel[4]>>

-----------------------------------------------------------------------------
(* The capture formats: what a pixel becomes in a corpus.                   *)

\* The bits of a channel shifted to the top of the byte, the highest of them
\* again below: (b << 3) | (b >> 2) and the like, by the powers of two.
Widened(value, up, down) == value * up + value \div down

Captured(format, bytes) ==
    CASE format = "BGRA" -> bytes
      [] format = "RGBA" -> <<bytes[3], bytes[2], bytes[1], bytes[4]>>
      [] format = "RGB565LE" ->
            LET value == bytes[1] + 256 * bytes[2]
            IN  <<Widened(value % 32, 8, 4), Widened((value \div 32) % 64, 4, 16),
                  Widened(value \div 2048, 8, 4), 255>>

-----------------------------------------------------------------------------
(* The saved pictures: full BGR from luma and chroma of limited range.       *)

Clamped(n) == IF n < 0 THEN 0 ELSE IF n > 255 THEN 255 ELSE n

Bgr(luma, cb, cr) ==
    LET c == Max({luma - 16, 0})
        d == cb - 128
        e == cr - 128
    IN  <<Clamped((298 * c + 516 * d + 128) \div 256),
          Clamped((298 * c - 100 * d - 208 * e + 128) \div 256),
          Clamped((298 * c + 409 * e + 128) \div 256)>>

-----------------------------------------------------------------------------
(* What the colours have to be.                                             *)

\* A mode's colours, per channel: 4096 is sixteen by sixteen by sixteen, 256
\* is four blues by eight greens by eight reds.
Steps(mode, c) == IF mode = "4096" THEN 15 ELSE IF c = 1 THEN 3 ELSE 7

Abs(n) == IF n < 0 THEN -n ELSE n

\* n * levels / 255 is a whole number, as nearly as a byte can say it.
IsStep(n, levels) == \E k \in 0 .. levels : 2 * Abs(n * levels - k * 255) <= levels

\* What five bits of a channel cannot tell: it is known to within seven, so a
\* colour that differs from another by this much may be taken for it.
Blur(p, q) == 14 * (2 * Abs(p[3] - q[3]) + 4 * Abs(p[2] - q[2]) + Abs(p[1] - q[1]))

\* The colour belongs to the mode, alpha is as it was, and a second pass changes
\* nothing.  Full changes nothing at all; with steps no channel goes further
\* than half a step; of the sixteen colours it is the nearest one, to what five
\* bits of a channel can tell.
QuantizedWell(pixel, mode, result) ==
    /\ result[4] = pixel[4]
    /\ Apply(result, mode) = result
    /\ mode = "full" => result = pixel
    /\ mode \in {"4096", "256"} =>
         \A c \in 1 .. 3 :
           /\ IsStep(result[c], Steps(mode, c))
           /\ 2 * Steps(mode, c) * Abs(result[c] - pixel[c])
                <= 255 + 2 * Steps(mode, c)
    /\ mode = "16" =>
         /\ \E k \in DOMAIN Palette : \A c \in 1 .. 3 : result[c] = Palette[k][c]
         /\ \A k \in DOMAIN Palette :
              Distance(pixel, result)
                <= Distance(pixel, Palette[k]) + Blur(result, Palette[k])

\* A captured pixel has the colour the format says: RGBA has red first and a
\* picture blue, and the channels of RGB565 are right within one: full, none
\* and all in between.
CapturedWell(format, bytes, result) ==
    LET value == bytes[1] + 256 * bytes[2]
        As(channel, n, most) == Abs(result[channel] * most - n * 255) <= most
    IN  CASE format = "RGB565LE" ->
               /\ As(1, value % 32, 31) /\ As(2, (value \div 32) % 64, 63)
               /\ As(3, value \div 2048, 31) /\ result[4] = 255
          [] format = "RGBA" ->
               /\ result[3] = bytes[1] /\ result[2] = bytes[2]
               /\ result[1] = bytes[3] /\ result[4] = bytes[4]
          [] OTHER -> result = bytes

\* Blue, green and red of a sample of limited range by BT.601, in thousandths.
Bt601(luma, cb, cr) ==
    LET c == Max({luma - 16, 0})
        d == cb - 128
        e == cr - 128
    IN  <<1164 * c + 2017 * d, 1164 * c - 392 * d - 813 * e, 1164 * c + 1596 * e>>

\* n as far as a byte can show it.
Within(n, most) == IF n < 0 THEN 0 ELSE IF n > most THEN most ELSE n

\* Every channel of a saved sample is that of BT.601 within one, cut off at
\* black and at full; and without chroma it is grey, from black at 16 to white
\* at 235.
ShownWell(luma, cb, cr, result) ==
    /\ \A i \in 1 .. 3 :
         /\ result[i] \in Byte
         /\ Abs(1000 * result[i] - Within(Bt601(luma, cb, cr)[i], 255000)) <= 1000
    /\ (cb = 128 /\ cr = 128) =>
         /\ result[1] = result[2] /\ result[2] = result[3]
         /\ (luma <= 16) <=> (result[1] = 0)
         /\ luma >= 235 => result[1] = 255
         /\ 16 <= luma /\ luma <= 235 =>
                Abs(219 * result[1] - 255 * (luma - 16)) <= 219

=============================================================================
