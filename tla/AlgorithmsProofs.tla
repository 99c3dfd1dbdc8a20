-------------------------- MODULE AlgorithmsProofs ---------------------------
(***************************************************************************)
(* Theorems about Algorithms, for every pixel, layout, size and command      *)
(* line.                                                                    *)
(***************************************************************************)
EXTENDS Algorithms, Arithmetic, WellFoundedInduction, TLAPS

-----------------------------------------------------------------------------
(* Least and greatest elements.                                             *)

\* Some natural numbers have a least one among them.
LEMMA LeastExists ==
    ASSUME NEW S \in SUBSET Nat, S # {}
    PROVE  /\ Min(S) \in S
           /\ \A y \in S : Min(S) <= y
<1> DEFINE R == OpToRel(<, Nat)
<1>1. IsWellFoundedOn(R, Nat)
  BY NatLessThanWellFounded
<1>2. \A x, y \in Nat : y < x => <<y, x>> \in R
  BY DEF OpToRel
<1> HIDE DEF R
<1>3. \E x \in S : \A y \in S : ~ (<<y, x>> \in R)
  BY <1>1, WFMin
<1>4. \A x, y \in S : ~(y < x) => x <= y
  OBVIOUS
<1>5. \E x \in S : \A y \in S : x <= y
  BY <1>2, <1>3, <1>4
<1> QED
  BY <1>5 DEF Min

\* Of two numbers.
LEMMA OfTwo ==
    ASSUME NEW a \in Int, NEW b \in Int
    PROVE  /\ Min({a, b}) = IF a <= b THEN a ELSE b
           /\ Max({a, b}) = IF a >= b THEN a ELSE b
BY DEF Min, Max

-----------------------------------------------------------------------------
(* The quantizer.                                                           *)

\* A channel of as many steps: a step, no further than half a step away, that
\* stays where it is.
LEMMA ChannelQuantized ==
    ASSUME NEW v \in Byte, NEW levels \in {3, 7, 15}
    PROVE  LET q == QuantizeChannel(v, levels)
           IN  /\ q \in Byte
               /\ QuantizeChannel(q, levels) = q
               /\ IsStep(q, levels)
               /\ 2 * levels * Abs(q - v) <= 255 + 2 * levels
<1> DEFINE k == (v * levels + 127) \div 255
           q == QuantizeChannel(v, levels)
<1>1. v \in Int /\ 0 <= v /\ v <= 255
  BY DEF Byte
<1>2. CASE levels = 3
  <2>1. q = (k * 255 + 1) \div 3 /\ k = (v * 3 + 127) \div 255
    BY <1>2 DEF QuantizeChannel
  <2>2. k \in 0 .. 3 /\ q = 85 * k
    BY <1>1, <2>1
  <2>3. q \in Byte /\ QuantizeChannel(q, 3) = q
    BY <2>2 DEF QuantizeChannel, Byte
  <2>4. IsStep(q, 3)
    BY <2>2 DEF IsStep, Abs
  <2>5. 2 * 3 * Abs(q - v) <= 255 + 2 * 3
    BY <1>1, <2>1, <2>2 DEF Abs
  <2> QED
    BY <1>2, <2>3, <2>4, <2>5
<1>3. CASE levels = 7
  <2>1. q = (k * 255 + 3) \div 7 /\ k = (v * 7 + 127) \div 255
    BY <1>3 DEF QuantizeChannel
  <2>2. k \in 0 .. 7
    BY <1>1, <2>1
  <2>3. q \in Byte /\ QuantizeChannel(q, 7) = q
    BY <2>1, <2>2 DEF QuantizeChannel, Byte
  <2>4. IsStep(q, 7)
    BY <2>1, <2>2 DEF IsStep, Abs
  <2>5. 2 * 7 * Abs(q - v) <= 255 + 2 * 7
    BY <1>1, <2>1, <2>2 DEF Abs
  <2> QED
    BY <1>3, <2>3, <2>4, <2>5
<1>4. CASE levels = 15
  <2>1. q = (k * 255 + 7) \div 15 /\ k = (v * 15 + 127) \div 255
    BY <1>4 DEF QuantizeChannel
  <2>2. k \in 0 .. 15 /\ q = 17 * k
    BY <1>1, <2>1
  <2>3. q \in Byte /\ QuantizeChannel(q, 15) = q
    BY <2>2 DEF QuantizeChannel, Byte
  <2>4. IsStep(q, 15)
    BY <2>2 DEF IsStep, Abs
  <2>5. 2 * 15 * Abs(q - v) <= 255 + 2 * 15
    BY <1>1, <2>1, <2>2 DEF Abs
  <2> QED
    BY <1>4, <2>3, <2>4, <2>5
<1> QED
  BY <1>2, <1>3, <1>4

\* Squares are not negative, and grow.
LEMMA Squares ==
    ASSUME NEW n \in Int
    PROVE  /\ Square(n) \in Nat
           /\ n \in -5 .. 5 => Square(n) <= 25
           /\ (n >= 58 \/ n <= -58) => Square(n) >= 3364
<1>1. Square(n) \in Nat
  BY DEF Square
<1>2. ASSUME n \in -5 .. 5 PROVE Square(n) <= 25
  BY <1>2 DEF Square
<1>3. ASSUME n >= 58 PROVE Square(n) >= 3364
  BY <1>3 DEF Square
<1>4. ASSUME n <= -58 PROVE Square(n) >= 3364
  BY <1>4 DEF Square
<1> QED
  BY <1>1, <1>2, <1>3, <1>4

Level == {0, 128, 192, 255}

\* The palette has sixteen colours of four levels.
LEMMA PaletteLevels ==
    /\ DOMAIN Palette = 1 .. 16
    /\ \A k \in 1 .. 16 : \A c \in 1 .. 3 : Palette[k][c] \in Level
BY DEF Palette, Level

\* No two of them are alike.
LEMMA PaletteDiffers ==
    ASSUME NEW j \in 1 .. 16, NEW k \in 1 .. 16, j # k
    PROVE  \E c \in 1 .. 3 : Palette[j][c] # Palette[k][c]
<1>1. \A i \in 1 .. 16 : Palette[i] \in Level \X Level \X Level
  BY DEF Palette, Level
<1>2. Palette[j] # Palette[k]
  BY DEF Palette
<1> QED
  BY <1>1, <1>2

\* How far colours are apart is a natural number.
LEMMA DistanceIsNat ==
    ASSUME NEW b \in Int, NEW g \in Int, NEW r \in Int, NEW k \in 1 .. 16
    PROVE  Distance(<<b, g, r>>, Palette[k]) \in Nat
<1>1. \A c \in 1 .. 3 : Palette[k][c] \in Int
  BY PaletteLevels DEF Level
<1>2. /\ Square(b - Palette[k][1]) \in Nat
      /\ Square(g - Palette[k][2]) \in Nat
      /\ Square(r - Palette[k][3]) \in Nat
  BY <1>1, Squares
<1> QED
  BY <1>2 DEF Distance

\* A colour of the palette that is as near as any of them.
NearestTo(at, colour) ==
    \E k \in 1 .. 16 :
        /\ colour = Palette[k]
        /\ \A j \in 1 .. 16 : Distance(at, Palette[k]) <= Distance(at, Palette[j])

\* The table has a colour of the palette for everything, and one that is
\* nearer than all others where there is one.
LEMMA NearestOfPalette ==
    ASSUME NEW b5 \in 0 .. 31, NEW g5 \in 0 .. 31, NEW r5 \in 0 .. 31, NEW at,
           at = <<(b5 * 255) \div 31, (g5 * 255) \div 31, (r5 * 255) \div 31>>
    PROVE  NearestTo(at, Palette16(b5, g5, r5))
<1> DEFINE all == {Distance(at, Palette[k]) : k \in DOMAIN Palette}
           nearest == {k \in DOMAIN Palette : Distance(at, Palette[k]) = Min(all)}
<1>1. DOMAIN Palette = 1 .. 16
  BY PaletteLevels
<1>2. \A k \in 1 .. 16 : Distance(at, Palette[k]) \in Nat
  <2>1. PICK b, g, r \in Int : at = <<b, g, r>>
    <3>1. /\ (b5 * 255) \div 31 \in Int /\ (g5 * 255) \div 31 \in Int
          /\ (r5 * 255) \div 31 \in Int
      OBVIOUS
    <3> QED
      BY <3>1
  <2> QED
    BY <2>1, DistanceIsNat
<1>3. Palette16(b5, g5, r5) = Palette[Min(nearest)]
  BY DEF Palette16
<1>4. all \in SUBSET Nat /\ all # {}
  BY <1>1, <1>2
<1>5. Min(all) \in all /\ \A y \in all : Min(all) <= y
  BY <1>4, LeastExists
<1>6. nearest \in SUBSET Nat /\ nearest # {}
  <2>1. PICK k \in 1 .. 16 : Min(all) = Distance(at, Palette[k])
    BY <1>1, <1>5
  <2>2. k \in nearest
    BY <1>1, <2>1
  <2>3. nearest \in SUBSET (1 .. 16)
    BY <1>1
  <2> HIDE DEF nearest
  <2> QED
    BY <2>2, <2>3
<1>7. Min(nearest) \in nearest
  BY <1>6, LeastExists
<1>8. /\ Min(nearest) \in 1 .. 16
      /\ Distance(at, Palette[Min(nearest)]) = Min(all)
  BY <1>1, <1>7
<1>9. \A j \in 1 .. 16 : Distance(at, Palette[j]) \in all
  BY <1>1
<1> HIDE DEF all, nearest
<1>10. \A j \in 1 .. 16 :
          Distance(at, Palette[Min(nearest)]) <= Distance(at, Palette[j])
  BY <1>5, <1>8, <1>9
<1> QED
  BY <1>3, <1>8, <1>10 DEF NearestTo

\* Five bits are enough to find a level again.
LEMMA LevelFound ==
    ASSUME NEW v \in Level
    PROVE  LET n == ((v \div 8) * 255) \div 31
           IN  /\ v \div 8 \in 0 .. 31
               /\ n \in Int /\ n - v \in -5 .. 5
               /\ \A w \in Level \ {v} : n - w >= 58 \/ n - w <= -58
BY DEF Level

\* A colour of the palette is nearest to itself.
LEMMA PaletteStays ==
    ASSUME NEW k \in 1 .. 16
    PROVE  Palette16(Palette[k][1] \div 8, Palette[k][2] \div 8, Palette[k][3] \div 8)
             = Palette[k]
<1> DEFINE N(c) == ((Palette[k][c] \div 8) * 255) \div 31
           at == <<N(1), N(2), N(3)>>
<1>1. \A c \in 1 .. 3 : /\ Palette[k][c] \in Level
                        /\ Palette[k][c] \div 8 \in 0 .. 31
                        /\ N(c) \in Int
                        /\ N(c) - Palette[k][c] \in -5 .. 5
  BY PaletteLevels, LevelFound
<1>2. PICK i \in 1 .. 16 :
        /\ Palette16(Palette[k][1] \div 8, Palette[k][2] \div 8, Palette[k][3] \div 8)
             = Palette[i]
        /\ Distance(at, Palette[i]) <= Distance(at, Palette[k])
  <2> DEFINE b5 == Palette[k][1] \div 8
             g5 == Palette[k][2] \div 8
             r5 == Palette[k][3] \div 8
  <2>1. b5 \in 0 .. 31 /\ g5 \in 0 .. 31 /\ r5 \in 0 .. 31
    BY <1>1
  <2>2. PICK found : found = at
    OBVIOUS
  <2>3. found = <<(b5 * 255) \div 31, (g5 * 255) \div 31, (r5 * 255) \div 31>>
    BY <2>2
  <2>4. NearestTo(found, Palette16(b5, g5, r5))
    <3> HIDE DEF b5, g5, r5
    <3> QED
      BY <2>1, <2>3, NearestOfPalette
  <2> HIDE DEF at
  <2>5. NearestTo(at, Palette16(b5, g5, r5))
    BY <2>2, <2>4
  <2> QED
    BY <2>5 DEF NearestTo
<1>3. Distance(at, Palette[k]) <= 175
  <2>1. \A c \in 1 .. 3 : /\ Square(N(c) - Palette[k][c]) \in Nat
                          /\ Square(N(c) - Palette[k][c]) <= 25
    BY <1>1, Squares DEF Level
  <2> HIDE DEF N
  <2> QED
    BY <2>1 DEF Distance
<1>4. ASSUME i # k
      PROVE  Distance(at, Palette[i]) >= 3364
  <2>1. PICK c \in 1 .. 3 : Palette[i][c] # Palette[k][c]
    BY <1>4, PaletteDiffers
  <2>2. \A d \in 1 .. 3 : Palette[i][d] \in Level
    BY PaletteLevels
  <2>3. N(c) - Palette[i][c] >= 58 \/ N(c) - Palette[i][c] <= -58
    BY <1>1, <2>1, <2>2, LevelFound
  <2>4. \A d \in 1 .. 3 : N(d) - Palette[i][d] \in Int
    BY <1>1, <2>2 DEF Level
  <2> HIDE DEF N
  <2>5. \A d \in 1 .. 3 : Square(N(d) - Palette[i][d]) \in Nat
    BY <2>4, Squares
  <2>6. Square(N(c) - Palette[i][c]) >= 3364
    BY <2>3, <2>4, Squares
  <2> QED
    BY <2>5, <2>6 DEF Distance
<1>5. Distance(at, Palette[i]) \in Nat /\ Distance(at, Palette[k]) \in Nat
  BY <1>1, DistanceIsNat
<1> HIDE DEF at
<1>6. i = k
  BY <1>2, <1>3, <1>4, <1>5
<1> QED
  BY <1>2, <1>6

\* Five bits know a channel to within seven, and so which of two levels is
\* nearer to within fourteen times what lies between them.
LEMMA FiveBits ==
    ASSUME NEW v \in Byte
    PROVE  LET n == ((v \div 8) * 255) \div 31
           IN  /\ v \div 8 \in 0 .. 31 /\ n \in Int
               /\ \A a, b \in Level :
                    Square(v - a) - Square(v - b)
                      <= Square(n - a) - Square(n - b) + 14 * Abs(a - b)
<1> DEFINE m == v \div 8
           n == (m * 255) \div 31
           e == n - v
<1>1. v \in Int /\ 0 <= v /\ v <= 255
  BY DEF Byte
<1>2. m \in 0 .. 31 /\ 8 * m <= v /\ v <= 8 * m + 7
  BY <1>1
<1> HIDE DEF m
<1>3. n \in Int /\ 8 * m <= n /\ n <= 8 * m + 7
  BY <1>2
<1> HIDE DEF n
<1>4. e \in Int /\ -7 <= e /\ e <= 7 /\ n = v + e
  BY <1>1, <1>2, <1>3
<1> HIDE DEF e
<1>5. ASSUME NEW a \in Level, NEW b \in Level
      PROVE  Square(v - a) - Square(v - b)
               <= Square(n - a) - Square(n - b) + 14 * Abs(a - b)
  <2> DEFINE d == a - b
  <2>1. a \in Int /\ b \in Int /\ d \in Int /\ d = a - b
    BY DEF Level
  <2> HIDE DEF d
  <2>2. Square(v - a) - Square(v - b) = (b - a) * (2 * v - a - b)
    BY <1>1, <2>1 DEF Square
  <2>3. Square(n - a) - Square(n - b) = (b - a) * (2 * n - a - b)
    BY <1>3, <2>1 DEF Square
  <2>4. (b - a) * (2 * n - a - b) = (b - a) * (2 * v - a - b) - 2 * (e * d)
    BY <1>1, <1>4, <2>1
  <2>5. 2 * (e * d) <= 14 * Abs(d)
    <3>1. CASE d >= 0
      <4>1. (7 - e) * d >= 0
        BY <1>4, <2>1, <3>1
      <4>2. (7 - e) * d = 7 * d - e * d /\ e * d \in Int
        BY <1>4, <2>1
      <4> QED
        BY <2>1, <3>1, <4>1, <4>2 DEF Abs
    <3>2. CASE d < 0
      <4>1. (7 + e) * (-d) >= 0
        BY <1>4, <2>1, <3>2
      <4>2. (7 + e) * (-d) = -(7 * d) - e * d /\ e * d \in Int
        BY <1>4, <2>1
      <4> QED
        BY <2>1, <3>2, <4>1, <4>2 DEF Abs
    <3> QED
      BY <2>1, <3>1, <3>2
  <2>6. /\ e * d \in Int /\ (b - a) * (2 * v - a - b) \in Int
        /\ Abs(d) \in Int
    BY <1>1, <1>4, <2>1 DEF Abs
  <2> QED
    BY <2>1, <2>2, <2>3, <2>4, <2>5, <2>6
<1> QED
  BY <1>2, <1>3, <1>5 DEF n, m

\* What the table gives for a pixel is, to that, the nearest of the palette.
LEMMA NearestOfPixel ==
    ASSUME NEW b \in Byte, NEW g \in Byte, NEW r \in Byte,
           NEW k \in 1 .. 16, NEW j \in 1 .. 16, NEW at,
           at = <<((b \div 8) * 255) \div 31, ((g \div 8) * 255) \div 31,
                  ((r \div 8) * 255) \div 31>>,
           Distance(at, Palette[k]) <= Distance(at, Palette[j])
    PROVE  Distance(<<b, g, r>>, Palette[k])
             <= Distance(<<b, g, r>>, Palette[j]) + Blur(Palette[k], Palette[j])
<1> DEFINE P(v, c) == Square(v - Palette[k][c])
           Q(v, c) == Square(v - Palette[j][c])
           A(c) == Abs(Palette[k][c] - Palette[j][c])
           N(v) == ((v \div 8) * 255) \div 31
<1>1. \A c \in 1 .. 3 : Palette[k][c] \in Level /\ Palette[j][c] \in Level
  BY PaletteLevels
<1>2. \A v \in Byte : v \in Int /\ N(v) \in Int
  BY FiveBits DEF Byte
<1>3. \A v \in Byte : \A c \in 1 .. 3 :
         P(v, c) - Q(v, c) <= P(N(v), c) - Q(N(v), c) + 14 * A(c)
  <2> HIDE DEF N
  <2> SUFFICES ASSUME NEW v \in Byte, NEW c \in 1 .. 3
               PROVE  P(v, c) - Q(v, c) <= P(N(v), c) - Q(N(v), c) + 14 * A(c)
    OBVIOUS
  <2>1. \A a, d \in Level : Square(v - a) - Square(v - d)
                    <= Square(N(v) - a) - Square(N(v) - d) + 14 * Abs(a - d)
    BY FiveBits DEF N
  <2>2. Palette[k][c] \in Level /\ Palette[j][c] \in Level
    BY <1>1
  <2> QED
    BY <2>1, <2>2
<1>4. \A v \in Int : \A c \in 1 .. 3 : P(v, c) \in Nat /\ Q(v, c) \in Nat
  <2> SUFFICES ASSUME NEW v \in Int, NEW c \in 1 .. 3
               PROVE  P(v, c) \in Nat /\ Q(v, c) \in Nat
    OBVIOUS
  <2>1. v - Palette[k][c] \in Int /\ v - Palette[j][c] \in Int
    BY <1>1 DEF Level
  <2> QED
    BY <2>1, Squares
<1>5. \A c \in 1 .. 3 : A(c) \in Int
  BY <1>1 DEF Abs, Level
<1>6. /\ Distance(<<b, g, r>>, Palette[k]) = 2 * P(r, 3) + 4 * P(g, 2) + P(b, 1)
      /\ Distance(<<b, g, r>>, Palette[j]) = 2 * Q(r, 3) + 4 * Q(g, 2) + Q(b, 1)
  BY DEF Distance
<1>7. /\ Distance(at, Palette[k])
           = 2 * P(N(r), 3) + 4 * P(N(g), 2) + P(N(b), 1)
      /\ Distance(at, Palette[j])
           = 2 * Q(N(r), 3) + 4 * Q(N(g), 2) + Q(N(b), 1)
  BY DEF Distance
<1>8. Blur(Palette[k], Palette[j]) = 14 * (2 * A(3) + 4 * A(2) + A(1))
  BY DEF Blur
<1> HIDE DEF P, Q, A, N
<1>9. /\ P(b, 1) - Q(b, 1) <= P(N(b), 1) - Q(N(b), 1) + 14 * A(1)
      /\ P(g, 2) - Q(g, 2) <= P(N(g), 2) - Q(N(g), 2) + 14 * A(2)
      /\ P(r, 3) - Q(r, 3) <= P(N(r), 3) - Q(N(r), 3) + 14 * A(3)
  BY <1>3
<1>10. /\ P(b, 1) \in Nat /\ P(g, 2) \in Nat /\ P(r, 3) \in Nat
       /\ Q(b, 1) \in Nat /\ Q(g, 2) \in Nat /\ Q(r, 3) \in Nat
       /\ P(N(b), 1) \in Nat /\ P(N(g), 2) \in Nat /\ P(N(r), 3) \in Nat
       /\ Q(N(b), 1) \in Nat /\ Q(N(g), 2) \in Nat /\ Q(N(r), 3) \in Nat
  BY <1>2, <1>4
<1> QED
  BY <1>5, <1>6, <1>7, <1>8, <1>9, <1>10

LEMMA PixelInTable ==
    ASSUME NEW b \in Byte, NEW g \in Byte, NEW r \in Byte
    PROVE  \E k \in 1 .. 16 :
              /\ Palette16(b \div 8, g \div 8, r \div 8) = Palette[k]
              /\ \A j \in 1 .. 16 :
                   Distance(<<b, g, r>>, Palette[k])
                     <= Distance(<<b, g, r>>, Palette[j]) + Blur(Palette[k], Palette[j])
<1> DEFINE b5 == b \div 8
           g5 == g \div 8
           r5 == r \div 8
<1>1. PICK at : at = <<(b5 * 255) \div 31, (g5 * 255) \div 31, (r5 * 255) \div 31>>
  OBVIOUS
<1>2. b5 \in 0 .. 31 /\ g5 \in 0 .. 31 /\ r5 \in 0 .. 31
  BY DEF Byte
<1>3. NearestTo(at, Palette16(b5, g5, r5))
  <2> HIDE DEF b5, g5, r5
  <2> QED
    BY <1>1, <1>2, NearestOfPalette
<1>4. PICK k \in 1 .. 16 :
        /\ Palette16(b5, g5, r5) = Palette[k]
        /\ \A j \in 1 .. 16 : Distance(at, Palette[k]) <= Distance(at, Palette[j])
  BY <1>3 DEF NearestTo
<1>5. ASSUME NEW j \in 1 .. 16
      PROVE  Distance(<<b, g, r>>, Palette[k])
               <= Distance(<<b, g, r>>, Palette[j]) + Blur(Palette[k], Palette[j])
  <2>1. Distance(at, Palette[k]) <= Distance(at, Palette[j])
    BY <1>4
  <2> QED
    BY <1>1, <2>1, NearestOfPixel
<1> QED
  BY <1>4, <1>5

-----------------------------------------------------------------------------
(* Colours.                                                                 *)

Pixel == Byte \X Byte \X Byte \X Byte

\* Every mode.
LEMMA QuantizedRight ==
    ASSUME NEW p \in Pixel, NEW mode \in Modes
    PROVE  QuantizedWell(p, mode, Apply(p, mode))
<1> DEFINE q == Apply(p, mode)
<1>1. /\ p = <<p[1], p[2], p[3], p[4]>>
      /\ \A c \in 1 .. 4 : p[c] \in Byte
  BY DEF Pixel
<1>2. CASE mode = "full"
  <2>1. q = p
    BY <1>1, <1>2 DEF Apply
  <2>2. Apply(q, mode) = q
    BY <2>1
  <2> QED
    BY <1>2, <2>1, <2>2 DEF QuantizedWell
<1>3. ASSUME NEW low \in {3, 7, 15}, NEW high \in {7, 15},
             mode \in {"4096", "256"},
             \A c \in 1 .. 3 : Steps(mode, c) = IF c = 1 THEN low ELSE high,
             \A x \in Pixel : Apply(x, mode) =
                 <<QuantizeChannel(x[1], low), QuantizeChannel(x[2], high),
                   QuantizeChannel(x[3], high), x[4]>>
      PROVE  QuantizedWell(p, mode, q)
  <2>1. q = <<QuantizeChannel(p[1], low), QuantizeChannel(p[2], high),
              QuantizeChannel(p[3], high), p[4]>>
    BY <1>3 DEF Pixel
  <2> HIDE DEF q
  <2>2. \A c \in 1 .. 3 :
          LET l == Steps(mode, c)
          IN  /\ q[c] \in Byte /\ QuantizeChannel(q[c], l) = q[c]
              /\ IsStep(q[c], l)
              /\ 2 * l * Abs(q[c] - p[c]) <= 255 + 2 * l
    <3>1. \A c \in 1 .. 3 : /\ Steps(mode, c) \in {3, 7, 15}
                            /\ q[c] = QuantizeChannel(p[c], Steps(mode, c))
      BY <1>3, <2>1
    <3> QED
      BY <1>1, <3>1, ChannelQuantized
  <2>3. q \in Pixel /\ q[4] = p[4]
    BY <1>1, <2>1, <2>2 DEF Pixel
  <2>4. Apply(q, mode) = <<QuantizeChannel(q[1], low), QuantizeChannel(q[2], high),
                           QuantizeChannel(q[3], high), q[4]>>
    BY <1>3, <2>3
  <2>5. Apply(q, mode) = <<q[1], q[2], q[3], q[4]>>
    BY <1>3, <2>2, <2>4
  <2>6. Apply(q, mode) = q
    BY <2>3, <2>5 DEF Pixel
  <2> QED
    BY <1>3, <2>2, <2>3, <2>6 DEF QuantizedWell
<1>4. CASE mode = "4096"
  <2>1. \A c \in 1 .. 3 : Steps(mode, c) = IF c = 1 THEN 15 ELSE 15
    BY <1>4 DEF Steps
  <2>2. \A x \in Pixel : Apply(x, mode) =
          <<QuantizeChannel(x[1], 15), QuantizeChannel(x[2], 15),
            QuantizeChannel(x[3], 15), x[4]>>
    BY <1>4 DEF Apply
  <2> QED
    BY <1>3, <1>4, <2>1, <2>2
<1>5. CASE mode = "256"
  <2>1. \A c \in 1 .. 3 : Steps(mode, c) = IF c = 1 THEN 3 ELSE 7
    BY <1>5 DEF Steps
  <2>2. \A x \in Pixel : Apply(x, mode) =
          <<QuantizeChannel(x[1], 3), QuantizeChannel(x[2], 7),
            QuantizeChannel(x[3], 7), x[4]>>
    BY <1>5 DEF Apply
  <2> QED
    BY <1>3, <1>5, <2>1, <2>2
<1>6. CASE mode = "16"
  <2> DEFINE Found(x) == Palette16(x[1] \div 8, x[2] \div 8, x[3] \div 8)
  <2>1. \A x : Apply(x, mode) = <<Found(x)[1], Found(x)[2], Found(x)[3], x[4]>>
    BY <1>6 DEF Apply
  <2> DEFINE near == <<p[1], p[2], p[3]>>
  <2>3. PICK k \in 1 .. 16 :
          /\ Found(p) = Palette[k]
          /\ \A j \in 1 .. 16 :
               Distance(near, Palette[k])
                 <= Distance(near, Palette[j]) + Blur(Palette[k], Palette[j])
    BY <1>1, PixelInTable
  <2>4. q = <<Palette[k][1], Palette[k][2], Palette[k][3], p[4]>>
    BY <2>1, <2>3
  <2> HIDE DEF q
  <2>5. Found(q) = Palette[k]
    <3>1. q[1] = Palette[k][1] /\ q[2] = Palette[k][2] /\ q[3] = Palette[k][3]
      BY <2>4
    <3> QED
      BY <3>1, PaletteStays
  <2>6. Apply(q, mode) = q
    <3>1. q[4] = p[4]
      BY <2>4
    <3> HIDE DEF Found
    <3> QED
      BY <2>1, <2>4, <2>5, <3>1
  <2>7. k \in DOMAIN Palette /\ \A c \in 1 .. 3 : q[c] = Palette[k][c]
    BY <2>4, PaletteLevels
  <2>8. q[4] = p[4]
    BY <2>4
  <2>9. ASSUME NEW j \in 1 .. 16
        PROVE  Distance(p, q) <= Distance(p, Palette[j]) + Blur(q, Palette[j])
    <3>1. Distance(near, Palette[k])
            <= Distance(near, Palette[j]) + Blur(Palette[k], Palette[j])
      BY <2>3
    <3>2. /\ Distance(near, Palette[k]) = Distance(p, q)
          /\ Distance(near, Palette[j]) = Distance(p, Palette[j])
          /\ Blur(Palette[k], Palette[j]) = Blur(q, Palette[j])
      BY <2>7 DEF Distance, Blur
    <3> QED
      BY <3>1, <3>2
  <2>10. \A j \in DOMAIN Palette :
            Distance(p, q) <= Distance(p, Palette[j]) + Blur(q, Palette[j])
    BY <2>9, PaletteLevels
  <2> QED
    BY <1>6, <2>6, <2>7, <2>8, <2>10 DEF QuantizedWell, q
<1> QED
  BY <1>2, <1>4, <1>5, <1>6 DEF Modes

\* Two bytes are five, six and five bits.
LEMMA Bits565 ==
    ASSUME NEW low \in Byte, NEW high \in Byte
    PROVE  /\ (low + 256 * high) % 32 \in 0 .. 31
           /\ ((low + 256 * high) \div 32) % 64 \in 0 .. 63
           /\ (low + 256 * high) \div 2048 \in 0 .. 31
<1> DEFINE value == low + 256 * high
<1>1. value \in Int /\ 0 <= value /\ value <= 65535
  BY DEF Byte
<1> HIDE DEF value
<1>2. value % 32 \in 0 .. 31
  BY <1>1
<1>3. value \div 32 \in Int
  BY <1>1
<1>4. value \div 2048 \in 0 .. 31
  BY <1>1
<1> DEFINE upper == value \div 32
<1> HIDE DEF upper
<1>5. upper % 64 \in 0 .. 63
  <2>1. upper \in Int
    BY <1>3 DEF upper
  <2> QED
    BY <2>1
<1> QED
  BY <1>2, <1>4, <1>5 DEF value, upper

\* The formats a capturer hands over.
LEMMA CapturedRight ==
    ASSUME NEW format \in {"BGRA", "RGBA", "RGB565LE"}, NEW bytes,
           format = "RGB565LE" => bytes \in Byte \X Byte,
           format # "RGB565LE" => bytes \in Pixel
    PROVE  CapturedWell(format, bytes, Captured(format, bytes))
<1>1. CASE format = "BGRA"
  BY <1>1 DEF CapturedWell, Captured
<1>2. CASE format = "RGBA"
  <2>1. Captured(format, bytes) = <<bytes[3], bytes[2], bytes[1], bytes[4]>>
    BY <1>2 DEF Captured
  <2> QED
    BY <1>2, <2>1 DEF CapturedWell
<1>3. CASE format = "RGB565LE"
  <2> DEFINE value == bytes[1] + 256 * bytes[2]
  <2>1. /\ value % 32 \in 0 .. 31
        /\ (value \div 32) % 64 \in 0 .. 63
        /\ value \div 2048 \in 0 .. 31
    <3>1. bytes \in Byte \X Byte
      BY <1>3
    <3>2. bytes[1] \in Byte /\ bytes[2] \in Byte
      BY <3>1
    <3> QED
      BY <3>2, Bits565
  <2>2. Captured(format, bytes) =
          <<Widened(value % 32, 8, 4), Widened((value \div 32) % 64, 4, 16),
            Widened(value \div 2048, 8, 4), 255>>
    BY <1>3 DEF Captured
  <2> HIDE DEF value
  <2>3. \A n \in 0 .. 31 : Abs(Widened(n, 8, 4) * 31 - n * 255) <= 31
    BY DEF Widened, Abs
  <2>4. \A n \in 0 .. 63 : Abs(Widened(n, 4, 16) * 63 - n * 255) <= 63
    BY DEF Widened, Abs
  <2>5. /\ Abs(Widened(value % 32, 8, 4) * 31 - (value % 32) * 255) <= 31
        /\ Abs(Widened((value \div 32) % 64, 4, 16) * 63
                 - ((value \div 32) % 64) * 255) <= 63
        /\ Abs(Widened(value \div 2048, 8, 4) * 31 - (value \div 2048) * 255) <= 31
    BY <2>1, <2>3, <2>4
  <2> QED
    BY <1>3, <2>2, <2>5 DEF CapturedWell, value
<1> QED
  BY <1>1, <1>2, <1>3

\* The samples of a decoder.
LEMMA ShownRight ==
    ASSUME NEW luma \in Byte, NEW cb \in Byte, NEW cr \in Byte
    PROVE  ShownWell(luma, cb, cr, Bgr(luma, cb, cr))
<1> DEFINE c == Max({luma - 16, 0})
<1>1. luma \in 0 .. 255 /\ cb \in 0 .. 255 /\ cr \in 0 .. 255
  BY DEF Byte
<1>2. c = IF luma >= 16 THEN luma - 16 ELSE 0
  <2>1. luma - 16 \in Int /\ (luma - 16 >= 0 <=> luma >= 16)
    BY <1>1
  <2> QED
    BY <2>1, OfTwo
<1>3. Bgr(luma, cb, cr) =
        <<Clamped((298 * c + 516 * (cb - 128) + 128) \div 256),
          Clamped((298 * c - 100 * (cb - 128) - 208 * (cr - 128) + 128) \div 256),
          Clamped((298 * c + 409 * (cr - 128) + 128) \div 256)>>
  BY DEF Bgr
<1> HIDE DEF c
<1>4. \A i \in 1 .. 3 : Bgr(luma, cb, cr)[i] \in Byte
  <2>1. \A n \in Int : Clamped(n) \in Byte
    BY DEF Clamped, Byte
  <2>2. /\ (298 * c + 516 * (cb - 128) + 128) \div 256 \in Int
        /\ (298 * c - 100 * (cb - 128) - 208 * (cr - 128) + 128) \div 256 \in Int
        /\ (298 * c + 409 * (cr - 128) + 128) \div 256 \in Int
    BY <1>1, <1>2
  <2> QED
    BY <1>3, <2>1, <2>2
<1>5. ASSUME cb = 128, cr = 128
      PROVE  LET grey == Clamped((298 * c + 128) \div 256)
             IN  /\ Bgr(luma, cb, cr) = <<grey, grey, grey>>
                 /\ (luma <= 16) <=> (grey = 0)
                 /\ luma >= 235 => grey = 255
                 /\ 16 <= luma /\ luma <= 235 =>
                        Abs(219 * grey - 255 * (luma - 16)) <= 219
  <2> DEFINE grey == Clamped((298 * c + 128) \div 256)
  <2>1. Bgr(luma, cb, cr) = <<grey, grey, grey>>
    BY <1>2, <1>3, <1>5
  <2>2. (luma <= 16) <=> (grey = 0)
    BY <1>1, <1>2 DEF Clamped
  <2>3. luma >= 235 => grey = 255
    BY <1>1, <1>2 DEF Clamped
  <2>4. 16 <= luma /\ luma <= 235 => Abs(219 * grey - 255 * (luma - 16)) <= 219
    BY <1>1, <1>2 DEF Clamped, Abs
  <2> QED
    BY <2>1, <2>2, <2>3, <2>4
<1> DEFINE d == cb - 128
           e == cr - 128
<1>6. /\ d \in Int /\ -128 <= d /\ d <= 127
      /\ e \in Int /\ -128 <= e /\ e <= 127
      /\ c \in Int /\ 0 <= c /\ c <= 239
  BY <1>1, <1>2
<1>7. Bt601(luma, cb, cr) =
        <<1164 * c + 2017 * d, 1164 * c - 392 * d - 813 * e, 1164 * c + 1596 * e>>
  BY DEF Bt601, c
<1> HIDE DEF d, e
<1>8. /\ Abs(1000 * Clamped((298 * c + 516 * d + 128) \div 256)
                - Within(1164 * c + 2017 * d, 255000)) <= 1000
      /\ Abs(1000 * Clamped((298 * c - 100 * d - 208 * e + 128) \div 256)
                - Within(1164 * c - 392 * d - 813 * e, 255000)) <= 1000
      /\ Abs(1000 * Clamped((298 * c + 409 * e + 128) \div 256)
                - Within(1164 * c + 1596 * e, 255000)) <= 1000
  <2>1. ASSUME NEW n \in Int, NEW m \in Int,
               -320 * 256 <= 256 * m - 1000 * n, 256 * m - 1000 * n <= 320 * 256
        PROVE  Abs(1000 * Clamped((n + 128) \div 256) - Within(m, 255000)) <= 1000
    <3> DEFINE k == (n + 128) \div 256
    <3>1. k \in Int /\ 256 * k <= n + 128 /\ n + 128 < 256 * k + 256
      OBVIOUS
    <3> HIDE DEF k
    <3>2. m - 1000 * k <= 1000 /\ 1000 * k - m <= 1000
      BY <2>1, <3>1
    <3>3. Abs(1000 * Clamped(k) - Within(m, 255000)) <= 1000
      BY <2>1, <3>1, <3>2 DEF Clamped, Within, Abs
    <3> QED
      BY <3>3 DEF k
  <2>2. /\ 298 * c + 516 * d \in Int /\ 1164 * c + 2017 * d \in Int
        /\ 256 * (1164 * c + 2017 * d) - 1000 * (298 * c + 516 * d)
               = 352 * d - 16 * c
    BY <1>6
  <2>3. /\ 298 * c - 100 * d - 208 * e \in Int
        /\ 1164 * c - 392 * d - 813 * e \in Int
        /\ 256 * (1164 * c - 392 * d - 813 * e) - 1000 * (298 * c - 100 * d - 208 * e)
               = -(16 * c) - 352 * d - 128 * e
    BY <1>6
  <2>4. /\ 298 * c + 409 * e \in Int /\ 1164 * c + 1596 * e \in Int
        /\ 256 * (1164 * c + 1596 * e) - 1000 * (298 * c + 409 * e)
               = -(16 * c) - 424 * e
    BY <1>6
  <2>5. /\ -320 * 256 <= 352 * d - 16 * c /\ 352 * d - 16 * c <= 320 * 256
        /\ -320 * 256 <= -(16 * c) - 352 * d - 128 * e
        /\ -(16 * c) - 352 * d - 128 * e <= 320 * 256
        /\ -320 * 256 <= -(16 * c) - 424 * e /\ -(16 * c) - 424 * e <= 320 * 256
    BY <1>6
  <2> QED
    BY <2>1, <2>2, <2>3, <2>4, <2>5
<1>9. \A i \in 1 .. 3 :
         Abs(1000 * Bgr(luma, cb, cr)[i] - Within(Bt601(luma, cb, cr)[i], 255000))
           <= 1000
  BY <1>3, <1>7, <1>8 DEF d, e
<1> QED
  BY <1>4, <1>5, <1>9 DEF ShownWell

\* ColorQuantizer, the capture formats and the saved pictures, for every pixel:
\* its colour stays in the full mode, is a step no further than half a step with
\* steps, and the nearest of sixteen to what five bits can tell; a captured
\* pixel has red, green and blue where its format has them; and a saved sample
\* has the blue, green and red of BT.601, each within one.
THEOREM ColoursComeOutRight == Spec => []ColoursAreRight
<1>1. Init => ColoursAreRight
  BY DEF Init, ColoursAreRight
<1>2. ColoursAreRight /\ [Next]_vars => ColoursAreRight'
  <2> SUFFICES ASSUME ColoursAreRight, [Next]_vars
               PROVE  ColoursAreRight'
    OBVIOUS
  <2>1. CASE Quantize
    <3>1. PICK p \in Pixels, mode \in Modes :
            job' = [kind |-> "quantize", input |-> <<p, mode>>,
                    result |-> Apply(p, mode)]
      BY <2>1 DEF Quantize, Job
    <3>2. QuantizedWell(p, mode, Apply(p, mode))
      BY PixelAssumption, QuantizedRight DEF Pixel
    <3> QED
      BY <3>1, <3>2 DEF ColoursAreRight
  <2>2. CASE CopyPixel
    <3>1. PICK format \in {"BGRA", "RGBA", "RGB565LE"}, bytes \in Pixels \cup Words16 :
            /\ format = "RGB565LE" => bytes \in Words16
            /\ format # "RGB565LE" => bytes \in Pixels
            /\ job' = [kind |-> "copy", input |-> <<format, bytes>>,
                       result |-> Captured(format, bytes)]
      BY <2>2 DEF CopyPixel, Job
    <3>2. CapturedWell(format, bytes, Captured(format, bytes))
      BY <3>1, PixelAssumption, CapturedRight DEF Pixel
    <3> QED
      BY <3>1, <3>2 DEF ColoursAreRight
  <2>3. CASE ShowSample
    <3>1. PICK s \in Yuv : job' = [kind |-> "show", input |-> s,
                                   result |-> Bgr(s[1], s[2], s[3])]
      BY <2>3 DEF ShowSample, Job
    <3>2. ShownWell(s[1], s[2], s[3], Bgr(s[1], s[2], s[3]))
      BY PixelAssumption, ShownRight
    <3> QED
      BY <3>1, <3>2 DEF ColoursAreRight
  <2>4. CASE Allocate \/ TakePlane \/ SavePicture \/ Render \/ Percentile
    <3>1. job'.kind \in {"layout", "rows", "bmp", "scene", "percentile"}
      BY <2>4 DEF Allocate, TakePlane, SavePicture, Render, Percentile, Job
    <3> QED
      BY <3>1 DEF ColoursAreRight
  <2>5. CASE Parse \/ UNCHANGED vars
    <3>1. job' = job
      BY <2>5 DEF Parse, vars
    <3> QED
      BY <3>1 DEF ColoursAreRight
  <2> QED
    BY <2>1, <2>2, <2>3, <2>4, <2>5 DEF Next
<1> QED
  BY <1>1, <1>2, PTL DEF Spec

-----------------------------------------------------------------------------
(* The planes of a picture.                                                 *)

\* The largest of two or three is no smaller than any.
LEMMA LargestOfTwo ==
    ASSUME NEW a \in Int, NEW b \in Int
    PROVE  /\ Max({a, b} \cup {}) \in Int
           /\ Max({a, b} \cup {}) >= a /\ Max({a, b} \cup {}) >= b
<1>1. \E x \in {a, b} \cup {} : \A y \in {a, b} \cup {} : x >= y
  OBVIOUS
<1> QED
  BY <1>1 DEF Max

LEMMA LargestOfThree ==
    ASSUME NEW a \in Int, NEW b \in Int, NEW c \in Int
    PROVE  /\ Max({a, b} \cup {c}) \in Int
           /\ Max({a, b} \cup {c}) >= a /\ Max({a, b} \cup {c}) >= b
           /\ Max({a, b} \cup {c}) >= c
<1>1. \E x \in {a, b} \cup {c} : \A y \in {a, b} \cup {c} : x >= y
  OBVIOUS
<1> QED
  BY <1>1 DEF Max

\* A plane ends within its rows.
LEMMA PlaneEnds ==
    ASSUME NEW at \in Nat, NEW stride \in Nat, NEW width \in Nat,
           NEW rows \in Nat \ {0}, width <= stride
    PROVE  /\ LastOf(Plane(at, stride, width, rows)) \in Int
           /\ LastOf(Plane(at, stride, width, rows)) < at + stride * rows
           /\ Plane(at, stride, width, rows).at = at
<1>1. (rows - 1) * stride = stride * rows - stride
  OBVIOUS
<1>2. stride * rows \in Int
  OBVIOUS
<1> HIDE <1>1
<1>3. LastOf(Plane(at, stride, width, rows)) = at + (rows - 1) * stride + width - 1
  BY DEF LastOf, Plane
<1>4. at + (stride * rows - stride) + width - 1 < at + stride * rows
  BY <1>2
<1>5. at + (stride * rows - stride) + width - 1 \in Int
  BY <1>2
<1> QED
  BY <1>1, <1>3, <1>4, <1>5 DEF Plane

\* Halves of a side, rounded up.
LEMMA HalfOf ==
    ASSUME NEW n \in Nat \ {0}
    PROVE  /\ DivCeil(n, 2) \in Nat \ {0}
           /\ (n - 1) \div 2 = DivCeil(n, 2) - 1
BY DEF DivCeil

\* The blocks of a side.
LEMMA BlocksRight ==
    ASSUME NEW size \in Nat \ {0}
    PROVE  BlocksCover(size)
<1> SUFFICES ASSUME NEW x \in 0 .. size - 1
             PROVE  {k \in Blocks(size) : BlockFrom(k) <= x /\ x < BlockTo(k, size)}
                      = {x \div 16}
  BY DEF BlocksCover
<1>1. \A k \in Int : BlockTo(k, size) = IF k * 16 + 16 <= size THEN k * 16 + 16
                                                               ELSE size
  BY OfTwo DEF BlockTo
<1>2. x \div 16 \in Blocks(size)
  BY DEF Blocks, DivCeil
<1>3. BlockFrom(x \div 16) <= x /\ x < BlockTo(x \div 16, size)
  BY <1>1 DEF BlockFrom
<1>4. ASSUME NEW k \in Blocks(size), BlockFrom(k) <= x, x < BlockTo(k, size)
      PROVE  k = x \div 16
  <2>1. k \in Int
    BY DEF Blocks, DivCeil
  <2>2. k * 16 <= x /\ x < k * 16 + 16
    BY <1>1, <1>4, <2>1 DEF BlockFrom
  <2> QED
    BY <2>1, <2>2
<1> QED
  BY <1>2, <1>3, <1>4

\* What is allocated for a layout.
LEMMA LayoutRight ==
    ASSUME NEW f, Layout(f)
    PROVE  LET luma == Plane(0, f.stride[1], f.w, f.h)
           IN  /\ \A p \in Written(f) : LastOf(p) < BufferLen(f)
               /\ \A p, q \in Written(f) :
                    p # q => LastOf(p) < q.at \/ LastOf(q) < p.at
               /\ luma \in Written(f)
               /\ BlocksCover(f.w) /\ BlocksCover(f.h)
               /\ f.pixfmt = "I420" =>
                    ChromaAt(f.w - 1, f.h - 1, f.stride[2])
                        = LastOf(Plane(0, f.stride[2], DivCeil(f.w, 2),
                                       DivCeil(f.h, 2)))
<1> DEFINE cw == IF f.pixfmt = "I444" THEN f.w ELSE DivCeil(f.w, 2)
           ch == IF f.pixfmt = "I444" THEN f.h ELSE DivCeil(f.h, 2)
           chroma == IF f.pixfmt = "NV12" THEN 2 * cw ELSE cw
           luma == Plane(0, f.stride[1], f.w, f.h)
           second == Plane(f.u, f.stride[2], chroma, ch)
           third == Plane(f.v, f.stride[3], cw, ch)
           End1 == f.stride[1] * f.h
           End2 == f.u + f.stride[2] * ch
           End3 == f.v + f.stride[3] * ch
<1>1. /\ f.pixfmt \in {"I420", "I444", "NV12"}
      /\ f.w \in Nat \ {0} /\ f.h \in Nat \ {0} /\ f.u \in Nat /\ f.v \in Nat
      /\ f.stride[1] \in Nat /\ f.stride[2] \in Nat /\ f.stride[3] \in Nat
  BY DEF Layout
<1>2. /\ f.stride[1] >= f.w /\ f.stride[2] >= chroma /\ f.u >= End1
      /\ f.pixfmt # "NV12" => f.stride[3] >= cw /\ f.v >= End2
  BY DEF Layout
<1>3. cw \in Nat \ {0} /\ ch \in Nat \ {0} /\ chroma \in Nat
  BY <1>1, HalfOf
<1>4. Written(f) = IF f.pixfmt = "NV12" THEN {luma, second}
                                        ELSE {luma, second, third}
  BY DEF Written
<1>5. BufferLen(f) = Max({End1, End2} \cup (IF f.pixfmt = "NV12" THEN {} ELSE {End3}))
  BY DEF BufferLen, ChromaHeight
<1>6. End1 \in Int /\ End2 \in Int /\ End3 \in Int
  BY <1>1, <1>3
<1>7. /\ LastOf(luma) \in Int /\ LastOf(luma) < End1 /\ luma.at = 0
      /\ LastOf(second) \in Int /\ LastOf(second) < End2 /\ second.at = f.u
      /\ f.pixfmt # "NV12" =>
           LastOf(third) \in Int /\ LastOf(third) < End3 /\ third.at = f.v
  <2>1. LastOf(luma) \in Int /\ LastOf(luma) < 0 + End1 /\ luma.at = 0
    <3>1. f.stride[1] \in Nat /\ f.w \in Nat /\ f.h \in Nat \ {0} /\ 0 \in Nat
      BY <1>1
    <3>2. f.w <= f.stride[1]
      BY <1>1, <1>2
    <3> QED
      BY <3>1, <3>2, PlaneEnds
  <2>2. LastOf(second) \in Int /\ LastOf(second) < End2 /\ second.at = f.u
    <3> HIDE DEF ch, chroma
    <3>1. f.stride[2] \in Nat /\ chroma \in Nat /\ ch \in Nat \ {0} /\ f.u \in Nat
      BY <1>1, <1>3
    <3>2. chroma <= f.stride[2]
      BY <1>2, <3>1
    <3> QED
      BY <3>1, <3>2, PlaneEnds
  <2>3. ASSUME f.pixfmt # "NV12"
        PROVE  LastOf(third) \in Int /\ LastOf(third) < End3 /\ third.at = f.v
    <3> HIDE DEF ch, cw
    <3>1. f.stride[3] \in Nat /\ cw \in Nat /\ ch \in Nat \ {0} /\ f.v \in Nat
      BY <1>1, <1>3
    <3>2. cw <= f.stride[3]
      BY <1>2, <2>3, <3>1
    <3> QED
      BY <3>1, <3>2, PlaneEnds
  <2> HIDE DEF End1, luma, End2, second, End3, third
  <2>4. LastOf(luma) < End1
    BY <1>6, <2>1
  <2> QED
    BY <2>1, <2>2, <2>3, <2>4
<1> HIDE DEF luma, second, third, End1, End2, End3
<1>8. \A p \in Written(f) : LastOf(p) < BufferLen(f)
  <2>1. CASE f.pixfmt = "NV12"
    <3>1. BufferLen(f) = Max({End1, End2} \cup {})
      BY <1>5, <2>1
    <3>2. BufferLen(f) \in Int /\ BufferLen(f) >= End1 /\ BufferLen(f) >= End2
      BY <1>6, <3>1, LargestOfTwo
    <3> QED
      BY <1>4, <1>6, <1>7, <2>1, <3>2
  <2>2. CASE f.pixfmt # "NV12"
    <3>1. BufferLen(f) = Max({End1, End2} \cup {End3})
      BY <1>5, <2>2
    <3>2. /\ BufferLen(f) \in Int
          /\ BufferLen(f) >= End1 /\ BufferLen(f) >= End2 /\ BufferLen(f) >= End3
      <4> DEFINE largest == Max({End1, End2} \cup {End3})
      <4>1. /\ largest \in Int
            /\ largest >= End1 /\ largest >= End2 /\ largest >= End3
        BY <1>6, LargestOfThree
      <4> HIDE DEF largest
      <4>2. BufferLen(f) = largest
        BY <3>1 DEF largest
      <4> QED
        BY <4>1, <4>2
    <3> QED
      BY <1>4, <1>6, <1>7, <2>2, <3>2
  <2> QED
    BY <2>1, <2>2
<1>9. \A p, q \in Written(f) : p # q => LastOf(p) < q.at \/ LastOf(q) < p.at
  <2>1. LastOf(luma) < second.at
    BY <1>1, <1>2, <1>6, <1>7
  <2>2. ASSUME f.pixfmt # "NV12"
        PROVE  LastOf(second) < third.at /\ LastOf(luma) < third.at
    <3>1. f.u <= End2
      BY <1>1, <1>3 DEF End2
    <3> QED
      BY <1>1, <1>2, <1>6, <1>7, <2>2, <3>1
  <2> QED
    BY <1>4, <2>1, <2>2
<1>10. ASSUME f.pixfmt = "I420"
       PROVE  ChromaAt(f.w - 1, f.h - 1, f.stride[2])
                = LastOf(Plane(0, f.stride[2], DivCeil(f.w, 2), DivCeil(f.h, 2)))
  <2>1. /\ (f.w - 1) \div 2 = DivCeil(f.w, 2) - 1
        /\ (f.h - 1) \div 2 = DivCeil(f.h, 2) - 1
        /\ DivCeil(f.w, 2) \in Nat /\ DivCeil(f.h, 2) \in Nat
    BY <1>1, HalfOf
  <2> DEFINE halfW == DivCeil(f.w, 2)
             halfH == DivCeil(f.h, 2)
             row == (halfH - 1) * f.stride[2]
  <2>2. ChromaAt(f.w - 1, f.h - 1, f.stride[2]) = row + (halfW - 1)
    BY <2>1 DEF ChromaAt
  <2>3. LastOf(Plane(0, f.stride[2], halfW, halfH)) = 0 + row + halfW - 1
    BY DEF LastOf, Plane
  <2>4. row \in Int /\ halfW \in Int
    BY <1>1, <2>1
  <2> HIDE DEF row, halfW
  <2>5. row + (halfW - 1) = 0 + row + halfW - 1
    BY <2>4
  <2> QED
    BY <2>2, <2>3, <2>5 DEF halfW
<1>11. luma \in Written(f)
  BY <1>4
<1>12. BlocksCover(f.w) /\ BlocksCover(f.h)
  BY <1>1, BlocksRight
<1> QED
  BY <1>8, <1>9, <1>10, <1>11, <1>12 DEF luma

-----------------------------------------------------------------------------
(* Rows, shapes and percentiles.                                            *)

\* A plane that is taken has all its rows.
LEMMA RowsRight ==
    ASSUME NEW r \in [stride : Nat, width : Nat, len : Nat, rows : Nat \ {0}],
           Fits(r.stride, r.width, r.len, r.rows)
    PROVE  LastOf(Plane(0, r.stride, r.width, r.rows)) < r.len
<1> DEFINE last == LastOf(Plane(0, r.stride, r.width, r.rows))
           size == r.stride * r.rows
<1>1. /\ r.stride \in Nat /\ r.width \in Nat /\ r.len \in Nat
      /\ r.rows \in Nat \ {0} /\ 0 \in Nat
  OBVIOUS
<1>2. r.width <= r.stride /\ size <= r.len
  BY <1>1 DEF Fits
<1>3. size \in Int
  BY <1>1
<1>4. last \in Int /\ last < 0 + size
  BY <1>1, <1>2, PlaneEnds
<1> HIDE DEF last, size
<1>5. last < r.len
  BY <1>1, <1>2, <1>3, <1>4
<1> QED
  BY <1>5 DEF last

\* The rows of a picture file.
LEMMA PictureFileRight ==
    ASSUME NEW w \in Nat \ {0}, NEW h \in Nat \ {0}, HasFrameBytes(w, h)
    PROVE  /\ RowAt(h - 1, w, h) = 54
           /\ RowAt(0, w, h) + 4 * w = BmpSize(w, h)
           /\ BmpSize(w, h) <= MaxFrameBytes + 54
<1>1. h - 1 - (h - 1) = 0 /\ 0 * w * 4 = 0
  OBVIOUS
<1>2. RowAt(h - 1, w, h) = 54
  BY <1>1 DEF RowAt
<1>3. (h - 1 - 0) * w * 4 + 4 * w = w * 4 * h
  OBVIOUS
<1>4. (h - 1 - 0) * w * 4 \in Int
  OBVIOUS
<1>5. RowAt(0, w, h) + 4 * w = 54 + w * 4 * h
  BY <1>3, <1>4 DEF RowAt
<1>6. w * 4 * h = w * h * 4 /\ w * h * 4 \in Int
  OBVIOUS
<1>7. 54 + w * 4 * h <= MaxFrameBytes + 54
  BY <1>6 DEF HasFrameBytes, MaxFrameBytes
<1> QED
  BY <1>2, <1>5, <1>7 DEF BmpSize

NatRect == [x : Nat, y : Nat, w : Nat, h : Nat]

LEMMA LessIsNat ==
    ASSUME NEW a \in Nat, NEW b \in Nat
    PROVE  Less(a, b) \in Nat /\ (Less(a, b) > 0 => Less(a, b) = a - b)
BY DEF Less

\* Clipping brings a shape into the picture.
LEMMA ClippedInside ==
    ASSUME NEW r \in NatRect, NEW w \in Nat, NEW h \in Nat
    PROVE  Inside(Clipped(r, w, h), w, h)
<1> DEFINE x == Min({r.x, w})
           y == Min({r.y, h})
           right == Min({r.x + r.w, w})
           bottom == Min({r.y + r.h, h})
<1>1. r.x \in Nat /\ r.y \in Nat /\ r.w \in Nat /\ r.h \in Nat
  BY DEF NatRect
<1>2. x \in Nat /\ right \in Nat /\ right <= w
  <2>1. r.x \in Int /\ w \in Int /\ r.x + r.w \in Int
    BY <1>1
  <2>2. /\ x = IF r.x <= w THEN r.x ELSE w
        /\ right = IF r.x + r.w <= w THEN r.x + r.w ELSE w
    BY <2>1, OfTwo
  <2> QED
    BY <1>1, <2>2
<1>3. y \in Nat /\ bottom \in Nat /\ bottom <= h
  <2>1. r.y \in Int /\ h \in Int /\ r.y + r.h \in Int
    BY <1>1
  <2>2. /\ y = IF r.y <= h THEN r.y ELSE h
        /\ bottom = IF r.y + r.h <= h THEN r.y + r.h ELSE h
    BY <2>1, OfTwo
  <2> QED
    BY <1>1, <2>2
<1>4. Clipped(r, w, h) = Rect(x, y, Less(right, x), Less(bottom, y))
  BY DEF Clipped
<1> HIDE DEF x, y, right, bottom
<1>5. /\ Less(right, x) \in Nat /\ (Less(right, x) > 0 => Less(right, x) = right - x)
      /\ Less(bottom, y) \in Nat /\ (Less(bottom, y) > 0 => Less(bottom, y) = bottom - y)
  BY <1>2, <1>3, LessIsNat
<1>6. /\ Less(right, x) > 0 => x + Less(right, x) <= w
      /\ Less(bottom, y) > 0 => y + Less(bottom, y) <= h
  BY <1>2, <1>3, <1>5
<1> QED
  BY <1>4, <1>6 DEF Inside, Rect

\* The shapes have places and sizes that are no negative numbers.
LEMMA ShapesAreRects ==
    ASSUME NEW w \in Nat \ {0}, NEW h \in Nat \ {0}, NEW frame \in Nat
    PROVE  FilledRects(w, h, frame) \subseteq NatRect
<1>1. w \div 4 \in Nat /\ w \div 6 \in Nat /\ w \div 8 \in Nat /\ (h * 3) \div 5 \in Nat
  OBVIOUS
<1>2. ContentX(w) \in Nat /\ ContentW(w) \in Nat
  BY <1>1 DEF ContentX, ContentW
<1>3. BoxWidth(w) \in Nat
  <2>1. w \div 8 \in Int /\ 24 \in Int
    OBVIOUS
  <2>2. Max({w \div 8, 24}) = IF w \div 8 >= 24 THEN w \div 8 ELSE 24
    BY <2>1, OfTwo
  <2> QED
    BY <1>1, <2>2 DEF BoxWidth
<1>4. Less(h, 42) \in Nat /\ Less(ContentW(w), BoxWidth(w)) \in Nat
  BY <1>2, <1>3, LessIsNat
<1>5. BoxAt(w, frame) \in Nat
  <2> DEFINE room == Max({Less(ContentW(w), BoxWidth(w)), 1})
  <2>1. room \in Nat \ {0}
    BY <1>4, OfTwo
  <2> HIDE DEF room
  <2>2. frame * 7 \in Int
    OBVIOUS
  <2>3. (frame * 7) % room \in 0 .. room - 1
    BY <2>1, <2>2, Division
  <2>4. (frame * 7) % room \in Nat
    BY <2>1, <2>3
  <2>5. BoxAt(w, frame) = ContentX(w) + ((frame * 7) % room)
    BY DEF BoxAt, room
  <2> QED
    BY <1>2, <2>4, <2>5
<1>6. /\ Rect(0, 0, w, 42) \in NatRect
      /\ Rect(12, 9, w \div 4, 25) \in NatRect
      /\ Rect(0, 42, w \div 6, Less(h, 42)) \in NatRect
  BY <1>1, <1>4 DEF Rect, NatRect
<1>7. Rect(BoxAt(w, frame), (h * 3) \div 5, BoxWidth(w), 34) \in NatRect
  BY <1>1, <1>3, <1>5 DEF Rect, NatRect
<1>8. Rect(ContentX(w) + 8, Less(h, 42), 3, 18) \in NatRect
  BY <1>2, <1>4 DEF Rect, NatRect
<1> QED
  BY <1>6, <1>7, <1>8 DEF FilledRects

\* The video is not clipped and needs not be.
LEMMA VideoInside ==
    ASSUME NEW w \in Nat \ {0}, NEW h \in Nat \ {0}
    PROVE  Inside(VideoRect(w, h), w, h)
<1> DEFINE x == (w * 69) \div 100
           width == Less(w, x + 18)
           height == Less(h, 70 + 24)
<1>1. x \in Nat
  OBVIOUS
<1>2. VideoRect(w, h) = Rect(x, 70, width, height)
  BY DEF VideoRect
<1> HIDE DEF x
<1>3. width > 0 => x + width <= w
  BY <1>1 DEF Less
<1>4. height > 0 => 70 + height <= h
  BY DEF Less
<1> HIDE DEF width, height
<1> QED
  BY <1>2, <1>3, <1>4 DEF Inside, Rect

\* A percentile has its rank.
LEMMA PercentileRight ==
    ASSUME NEW len \in Nat \ {0}, NEW p \in {50, 95, 99}
    PROVE  LET index == PercentileIndex(len, p)
           IN  /\ index \in 0 .. len - 1
               /\ 100 * (len - 1 - index) <= (100 - p) * len + 50
<1>1. CASE p = 50
  BY <1>1 DEF PercentileIndex
<1>2. CASE p = 95
  BY <1>2 DEF PercentileIndex
<1>3. CASE p = 99
  BY <1>3 DEF PercentileIndex
<1> QED
  BY <1>1, <1>2, <1>3

\* YuvBuffer, the detector, the rows of captured, decoded and saved pictures, the
\* synthetic scene and the report: whatever the layout and the size, no index
\* leaves what it indexes.
THEOREM NoIndexLeaves == Spec => []IndexesStayInside
<1>1. Init => IndexesStayInside
  BY DEF Init, IndexesStayInside
<1>2. IndexesStayInside /\ [Next]_vars => IndexesStayInside'
  <2> SUFFICES ASSUME IndexesStayInside, [Next]_vars
               PROVE  IndexesStayInside'
    OBVIOUS
  <2>1. CASE Quantize \/ CopyPixel \/ ShowSample
    <3>1. job'.kind \in {"quantize", "copy", "show"}
      BY <2>1 DEF Quantize, CopyPixel, ShowSample, Job
    <3> QED
      BY <3>1 DEF IndexesStayInside
  <2>2. CASE Allocate
    <3>1. PICK f \in Layouts : job' = [kind |-> "layout", input |-> f,
                                       result |-> BufferLen(f)]
      BY <2>2 DEF Allocate, Job
    <3>2. Layout(f)
      BY SizeAssumption
    <3> QED
      BY <3>1, <3>2, LayoutRight DEF IndexesStayInside
  <2>3. CASE TakePlane
    <3>1. PICK r \in Rows : job' = [kind |-> "rows", input |-> r,
                              result |-> Fits(r.stride, r.width, r.len, r.rows)]
      BY <2>3 DEF TakePlane, Job
    <3>2. r \in [stride : Nat, width : Nat, len : Nat, rows : Nat \ {0}]
      BY SizeAssumption
    <3>3. Fits(r.stride, r.width, r.len, r.rows) =>
            LastOf(Plane(0, r.stride, r.width, r.rows)) < r.len
      BY <3>2, RowsRight
    <3> QED
      BY <3>1, <3>3 DEF IndexesStayInside
  <2>4. CASE SavePicture
    <3>1. PICK s \in Sizes : /\ HasFrameBytes(s[1], s[2])
                             /\ job' = [kind |-> "bmp", input |-> s,
                                        result |-> BmpSize(s[1], s[2])]
      BY <2>4 DEF SavePicture, Job
    <3>2. s[1] \in Nat \ {0} /\ s[2] \in Nat \ {0}
      BY SizeAssumption
    <3> QED
      BY <3>1, <3>2, PictureFileRight DEF IndexesStayInside
  <2>5. CASE Render
    <3>1. PICK s \in Sizes, frame \in SceneFrames :
            job' = [kind |-> "scene", input |-> <<s[1], s[2], frame>>,
                    result |-> {Clipped(r, s[1], s[2]) :
                                  r \in FilledRects(s[1], s[2], frame)}
                               \cup {VideoRect(s[1], s[2])}]
      BY <2>5 DEF Render, Job
    <3>2. s[1] \in Nat \ {0} /\ s[2] \in Nat \ {0} /\ frame \in Nat
      BY SizeAssumption
    <3>3. \A r \in FilledRects(s[1], s[2], frame) :
            Inside(Clipped(r, s[1], s[2]), s[1], s[2])
      BY <3>2, ShapesAreRects, ClippedInside
    <3>4. Inside(VideoRect(s[1], s[2]), s[1], s[2])
      BY <3>2, VideoInside
    <3> QED
      BY <3>1, <3>3, <3>4 DEF IndexesStayInside
  <2>6. CASE Percentile
    <3>1. PICK len \in Lengths, p \in {50, 95, 99} :
            job' = [kind |-> "percentile", input |-> <<len, p>>,
                    result |-> PercentileIndex(len, p)]
      BY <2>6 DEF Percentile, Job
    <3>2. len \in Nat \ {0}
      BY SizeAssumption
    <3> QED
      BY <3>1, <3>2, PercentileRight DEF IndexesStayInside
  <2>7. CASE Parse \/ UNCHANGED vars
    <3>1. job' = job
      BY <2>7 DEF Parse, vars
    <3> QED
      BY <3>1 DEF IndexesStayInside
  <2> QED
    BY <2>1, <2>2, <2>3, <2>4, <2>5, <2>6, <2>7 DEF Next
<1> QED
  BY <1>1, <1>2, PTL DEF Spec

-----------------------------------------------------------------------------
(* Items at some places.                                                    *)

\* How many of the places come before.
Before(P, k) == {j \in P : j < k}

\* Every number below their count is the rank of exactly one place.
LEMMA EveryRank ==
    ASSUME NEW n \in Nat, NEW P \in SUBSET (1 .. n)
    PROVE  /\ Cardinality(P) \in Nat
           /\ P # {} => Cardinality(P) > 0
           /\ \A k \in P : Cardinality(Before(P, k)) + 1 \in 1 .. Cardinality(P)
           /\ \A j, k \in P :
                Cardinality(Before(P, j)) = Cardinality(Before(P, k)) => j = k
           /\ \A m \in 1 .. Cardinality(P) :
                \E k \in P : Cardinality(Before(P, k)) = m - 1
<1> DEFINE count == Cardinality(P)
           rank == [k \in P |-> Cardinality(Before(P, k))]
<1>1. IsFiniteSet(P) /\ count \in Nat
  <2>1. IsFiniteSet(1 .. n)
    BY FS_Interval
  <2> QED
    BY <2>1, FS_Subset, FS_CardinalityType
<1>2. P # {} => count > 0
  BY <1>1, FS_EmptySet
<1>3. \A k \in P : /\ IsFiniteSet(Before(P, k)) /\ Cardinality(Before(P, k)) \in Nat
                   /\ Cardinality(Before(P, k) \cup {k}) = Cardinality(Before(P, k)) + 1
  <2> TAKE k \in P
  <2>1. Before(P, k) \in SUBSET P /\ k \notin Before(P, k)
    BY DEF Before
  <2>2. IsFiniteSet(Before(P, k))
    BY <1>1, <2>1, FS_Subset
  <2> QED
    BY <2>1, <2>2, FS_CardinalityType, FS_AddElement
<1>4. ASSUME NEW j \in P, NEW k \in P, j < k
      PROVE  Cardinality(Before(P, j)) < Cardinality(Before(P, k))
  <2>1. P \subseteq Int /\ j \in Int /\ k \in Int
    OBVIOUS
  <2>2. \A i \in P : i < j => i < k
    BY <1>4, <2>1
  <2>3. Before(P, j) \cup {j} \in SUBSET Before(P, k)
    BY <1>4, <2>2 DEF Before
  <2>4. /\ IsFiniteSet(Before(P, k)) /\ Cardinality(Before(P, k)) \in Nat
        /\ Cardinality(Before(P, j)) \in Nat
        /\ Cardinality(Before(P, j) \cup {j}) = Cardinality(Before(P, j)) + 1
    BY <1>3
  <2>5. Cardinality(Before(P, j) \cup {j}) <= Cardinality(Before(P, k))
    BY <2>3, <2>4, FS_Subset
  <2> QED
    BY <2>4, <2>5
<1>5. \A k \in P : Cardinality(Before(P, k)) + 1 <= count
  <2> TAKE k \in P
  <2>1. Before(P, k) \cup {k} \in SUBSET P
    BY DEF Before
  <2>2. Cardinality(Before(P, k) \cup {k}) <= count
    BY <1>1, <2>1, FS_Subset
  <2> QED
    BY <1>3, <2>2
<1>6. \A k \in P : /\ Cardinality(Before(P, k)) + 1 \in 1 .. count
                    /\ Cardinality(Before(P, k)) \in 0 .. count - 1
  <2> TAKE k \in P
  <2>1. Cardinality(Before(P, k)) \in Nat /\ Cardinality(Before(P, k)) + 1 <= count
    BY <1>3, <1>5
  <2> QED
    BY <1>1, <2>1
<1>7. \A j, k \in P : rank[j] = rank[k] => j = k
  <2> SUFFICES ASSUME NEW j \in P, NEW k \in P, rank[j] = rank[k]
               PROVE  j = k
    OBVIOUS
  <2>1. rank[j] \in Nat /\ rank[k] \in Nat
    BY <1>3
  <2>2. ~(rank[j] < rank[k]) /\ ~(rank[k] < rank[j])
    BY <2>1
  <2>3. ~(j < k) /\ ~(k < j)
    BY <1>4, <2>2
  <2>4. j \in Int /\ k \in Int
    OBVIOUS
  <2> QED
    BY <2>3, <2>4
<1>8. rank \in Injection(P, 0 .. count - 1)
  <2>1. rank \in [P -> 0 .. count - 1]
    BY <1>6
  <2> HIDE DEF rank
  <2> QED
    BY <1>7, <2>1 DEF Injection, IsInjective
<1>9. rank \in Surjection(P, 0 .. count - 1)
  <2>1. IsFiniteSet(0 .. count - 1) /\ Cardinality(0 .. count - 1) = count
    BY <1>1, FS_Interval
  <2> HIDE DEF rank
  <2> QED
    BY <1>8, <2>1, FS_Injection
<1>10. \A m \in 1 .. count : \E k \in P : rank[k] = m - 1
  <2> TAKE m \in 1 .. count
  <2>1. m - 1 \in 0 .. count - 1
    BY <1>1
  <2> HIDE DEF rank
  <2> QED
    BY <1>9, <2>1 DEF Surjection
<1> QED
  BY <1>1, <1>2, <1>7, <1>10, <1>6

\* At takes the items of the places, each place once.
LEMMA AtPlaces ==
    ASSUME NEW S, NEW s \in Seq(S), NEW P \in SUBSET DOMAIN s
    PROVE  /\ At(s, P) \in Seq(S)
           /\ P # {} => At(s, P) # << >>
           /\ ToSet(At(s, P)) = {s[k] : k \in P}
           /\ (\A j, k \in P : s[j] = s[k] => j = k) => IsInjective(At(s, P))
<1> DEFINE count == Cardinality(P)
           Place(m) == CHOOSE k \in P : Cardinality(Before(P, k)) = m - 1
           t == At(s, P)
<1>1. Len(s) \in Nat /\ P \in SUBSET (1 .. Len(s)) /\ \A k \in P : s[k] \in S
  BY LenProperties
<1>2. /\ count \in Nat /\ (P # {} => count > 0)
      /\ \A k \in P : Cardinality(Before(P, k)) + 1 \in 1 .. count
      /\ \A j, k \in P :
           Cardinality(Before(P, j)) = Cardinality(Before(P, k)) => j = k
      /\ \A m \in 1 .. count : \E k \in P : Cardinality(Before(P, k)) = m - 1
  BY <1>1, EveryRank
<1>3. \A m \in 1 .. count : Place(m) \in P /\ Cardinality(Before(P, Place(m))) = m - 1
  BY <1>2
<1>4. t = [m \in 1 .. count |-> s[Place(m)]]
  BY DEF At, Before
<1> HIDE DEF t, Place
<1>5. t \in Seq(S) /\ Len(t) = count /\ DOMAIN t = 1 .. count
  BY <1>1, <1>2, <1>3, <1>4
<1>6. P # {} => t # << >>
  BY <1>2, <1>5
<1>7. ToSet(t) = {s[k] : k \in P}
  <2>1. \A m \in 1 .. count : t[m] \in {s[k] : k \in P}
    BY <1>3, <1>4
  <2>2. ASSUME NEW k \in P
        PROVE  \E m \in 1 .. count : t[m] = s[k]
    <3> DEFINE m == Cardinality(Before(P, k)) + 1
    <3>1. m \in 1 .. count
      BY <1>2
    <3>2. Cardinality(Before(P, k)) \in Int
      BY <1>1, <1>2, FS_Interval, FS_Subset, FS_CardinalityType DEF Before
    <3>3. m - 1 = Cardinality(Before(P, k))
      BY <3>2
    <3>4. Place(m) = k
      BY <1>2, <1>3, <3>1, <3>3
    <3> QED
      BY <1>4, <3>1, <3>4
  <2> QED
    BY <1>5, <2>1, <2>2 DEF ToSet
<1>8. ASSUME \A j, k \in P : s[j] = s[k] => j = k
      PROVE  IsInjective(t)
  <2> SUFFICES ASSUME NEW a \in 1 .. count, NEW b \in 1 .. count, t[a] = t[b]
               PROVE  a = b
    BY <1>5 DEF IsInjective
  <2>1. Place(a) = Place(b)
    BY <1>3, <1>4, <1>8
  <2>2. a - 1 = b - 1
    BY <1>3, <2>1
  <2> QED
    BY <1>2, <2>2
<1> QED
  BY <1>5, <1>6, <1>7, <1>8 DEF t

\* All of STRING; the provers know of a literal that it is one only if told.
Strings ==
    STRING \cup {"on", "default", "=", "baseline", "active-map", "combined"}

\* What an option keeps of an empty item, and where a list lists it first.
LEMMA FilledRight ==
    ASSUME NEW s \in Seq(Strings)
    PROVE  /\ Filled(s) \in Seq(Strings)
           /\ ToSet(Filled(s)) = ToSet(s) \ {""}
<1> DEFINE P == {k \in DOMAIN s : s[k] # ""}
<1>1. P \in SUBSET DOMAIN s
  OBVIOUS
<1>2. At(s, P) \in Seq(Strings) /\ ToSet(At(s, P)) = {s[k] : k \in P}
  BY <1>1, AtPlaces
<1>3. {s[k] : k \in P} = ToSet(s) \ {""}
  BY DEF ToSet
<1> QED
  BY <1>2, <1>3 DEF Filled

\* The list of the items without repeats has the same items, each once.
LEMMA WithoutRepeatsRight ==
    ASSUME NEW s \in Seq(Strings)
    PROVE  /\ WithoutRepeats(s) \in Seq(Strings)
           /\ ToSet(WithoutRepeats(s)) = ToSet(s)
           /\ s # << >> => WithoutRepeats(s) # << >>
           /\ IsInjective(WithoutRepeats(s))
<1> DEFINE P == {k \in DOMAIN s : \A j \in 1 .. k - 1 : s[j] # s[k]}
<1>1. P \in SUBSET DOMAIN s /\ DOMAIN s = 1 .. Len(s) /\ Len(s) \in Nat
  OBVIOUS
<1>2. ASSUME NEW i \in DOMAIN s
      PROVE  \E k \in P : s[k] = s[i]
  <2> DEFINE Same == {k \in DOMAIN s : s[k] = s[i]}
  <2>1. Same \in SUBSET Nat /\ Same # {}
    BY <1>1, <1>2
  <2>2. PICK k \in Same : \A j \in Same : k <= j
    BY <2>1, LeastExists
  <2>3. ASSUME NEW j \in 1 .. k - 1
        PROVE  s[j] # s[k]
    <3>1. j \in DOMAIN s /\ ~(k <= j)
      BY <1>1, <2>1, <2>3
    <3> QED
      BY <2>2, <3>1
  <2> QED
    BY <2>2, <2>3
<1>3. ASSUME NEW j \in P, NEW k \in P, s[j] = s[k]
      PROVE  j = k
  <2>1. j \in Int /\ k \in Int /\ j >= 1 /\ k >= 1
    BY <1>1
  <2>2. ~(j < k) /\ ~(k < j)
    BY <1>3, <2>1
  <2> QED
    BY <2>1, <2>2
<1>4. {s[k] : k \in P} = ToSet(s)
  BY <1>2 DEF ToSet
<1>5. s # << >> => P # {}
  <2>1. s # << >> => 1 \in DOMAIN s
    BY <1>1
  <2> QED
    BY <1>2, <2>1
<1>6. /\ At(s, P) \in Seq(Strings)
      /\ P # {} => At(s, P) # << >>
      /\ ToSet(At(s, P)) = {s[k] : k \in P}
      /\ (\A j, k \in P : s[j] = s[k] => j = k) => IsInjective(At(s, P))
  <2> HIDE DEF P
  <2> QED
    BY <1>1, AtPlaces
<1> QED
  BY <1>3, <1>4, <1>5, <1>6 DEF WithoutRepeats

-----------------------------------------------------------------------------
(* Command lines.                                                           *)

\* The kinds of text, those that are none left out.
TextKinds == {"path", "number", "positive", "word", "positives", "names", "set"}

\* What the grammars have in common: no option is called "=" or "", and what
\* an option does with empty items goes by its kind.
GrammarOK(key, kind) ==
    /\ kind \in TextKinds \cup {"flag", "helpflag", "help"}
    /\ key \notin {"=", ""}
    /\ key = "--encoders" <=> kind = "names"
    /\ kind = "set" <=> key \in {"--colors", "--variants", "--profiles"}

LEMMA GrammarsAgree ==
    ASSUME NEW c \in Commands, NEW key \in Keys(c)
    PROVE  GrammarOK(key, Kind(c, key))
<1>1. \A option \in Grammar(c) : GrammarOK(option[1], option[2])
  <2>1. \A option \in Corpora : GrammarOK(option[1], option[2])
    BY DEF Corpora, GrammarOK, TextKinds
  <2>2. CASE c = "run"
    BY <2>1, <2>2 DEF Grammar, RunOptions, GrammarOK, TextKinds
  <2>3. CASE c = "run-hw"
    BY <2>1, <2>3 DEF Grammar, HardwareOptions, GrammarOK, TextKinds
  <2>4. CASE c = "record"
    BY <2>4 DEF Grammar, RecordOptions, GrammarOK, TextKinds
  <2>5. CASE c = "export-bgra"
    BY <2>5 DEF Grammar, ExportOptions, GrammarOK, TextKinds
  <2>6. CASE c = "analyze-yuv420"
    BY <2>6 DEF Grammar, AnalyzeOptions, GrammarOK, TextKinds
  <2>7. CASE c = "dxgi"
    BY <2>7 DEF Grammar, DxgiOptions, GrammarOK, TextKinds
  <2>8. CASE c = "debug"
    BY <2>8 DEF Grammar, DebugOptions, GrammarOK, TextKinds
  <2> QED
    BY <2>2, <2>3, <2>4, <2>5, <2>6, <2>7, <2>8 DEF Commands
<1> DEFINE option == CHOOSE o \in Grammar(c) : o[1] = key
<1>2. option \in Grammar(c) /\ option[1] = key
  BY DEF Keys
<1> QED
  BY <1>1, <1>2 DEF Kind

\* Texts of one and of three items.
LEMMA ShortTexts ==
    \A a, b, c \in Strings : <<a>> \in Seq(Strings) /\ <<a, b, c>> \in Seq(Strings)
<1> SUFFICES ASSUME NEW S
             PROVE  \A a, b, c \in S : <<a>> \in Seq(S) /\ <<a, b, c>> \in Seq(S)
  OBVIOUS
<1> QED
  OBVIOUS

\* What an option keeps of a text it takes.
LEMMA KeptRight ==
    ASSUME NEW text \in Seq(Strings), text # << >>, NEW key, NEW kind \in TextKinds,
           GrammarOK(key, kind), Takes(kind, key, text)
    PROVE  /\ Kept(kind, key, text) \in Seq(Strings)
           /\ Kept(kind, key, text) # << >>
           /\ kind = "set" => IsInjective(Kept(kind, key, text))
           /\ IF kind \notin {"set", "names"} THEN Kept(kind, key, text) = text
              ELSE ToSet(Kept(kind, key, text)) =
                     IF kind = "set" /\ text = <<"all">> THEN ToSet(AllOf(key))
                                                         ELSE ToSet(text) \ {""}
<1>1. CASE kind \notin {"set", "names"}
  BY <1>1 DEF Kept, Items, GrammarOK
<1>2. CASE kind = "names"
  <2>1. Kept(kind, key, text) = Filled(text) /\ Filled(text) # << >>
    BY <1>2 DEF Kept, Items, GrammarOK, Takes
  <2> QED
    BY <1>2, <2>1, FilledRight
<1>3. CASE kind = "set" /\ text = <<"all">>
  <2>1. key \in {"--colors", "--variants", "--profiles"}
    BY <1>3 DEF GrammarOK
  <2>2. "all" \notin Words(key)
    BY <2>1 DEF Words
  <2>3. ToSet(text) = {"all"}
    BY <1>3 DEF ToSet
  <2>4. AllOf(key) # << >>
    <3>1. SUFFICES ASSUME AllOf(key) = << >>
                   PROVE  FALSE
      OBVIOUS
    <3>2. ToSet(Items(key, text)) = {"all"}
      BY <2>3, FilledRight DEF Items
    <3> QED
      BY <1>3, <2>2, <3>1, <3>2 DEF Takes
  <2>5. AllOf(key) = <<"baseline", "active-map", "combined">>
    BY <2>4 DEF AllOf
  <2>6. Kept(kind, key, text) = AllOf(key)
    BY <1>3 DEF Kept
  <2>7. IsInjective(AllOf(key))
    BY <2>5 DEF IsInjective
  <2>8. AllOf(key) \in Seq(Strings)
    <3>1. /\ "baseline" \in Strings /\ "active-map" \in Strings
          /\ "combined" \in Strings
      BY DEF Strings
    <3>2. <<"baseline", "active-map", "combined">> \in Seq(Strings)
      BY <3>1, ShortTexts
    <3> QED
      BY <2>5, <3>2
  <2>9. ToSet(Kept(kind, key, text)) = ToSet(AllOf(key))
    BY <2>6
  <2>10. IsInjective(Kept(kind, key, text))
    BY <2>6, <2>7
  <2> QED
    BY <1>3, <2>4, <2>6, <2>8, <2>9, <2>10
<1>4. CASE kind = "set" /\ text # <<"all">>
  <2> DEFINE items == Items(key, text)
  <2>1. key \in {"--colors", "--variants", "--profiles"}
    BY <1>4 DEF GrammarOK
  <2>2. "" \notin Words(key)
    BY <2>1 DEF Words
  <2>3. items # << >> /\ ToSet(items) \subseteq Words(key)
    BY <1>4 DEF Takes
  <2>4. items \in Seq(Strings) /\ (items = text \/ ToSet(items) = ToSet(text) \ {""})
    BY FilledRight DEF Items
  <2>5. ToSet(items) = ToSet(text) \ {""}
    BY <2>2, <2>3, <2>4
  <2>6. Kept(kind, key, text) = WithoutRepeats(items)
    BY <1>4 DEF Kept
  <2> HIDE DEF items
  <2> QED
    BY <1>4, <2>3, <2>4, <2>5, <2>6, WithoutRepeatsRight
<1> QED
  BY <1>1, <1>2, <1>3, <1>4

\* The arguments: what stands after an equals sign may be nothing, what stands
\* before it is something.
ArgumentsOK ==
    /\ args \in Seq(Seq(Seq(Strings)))
    /\ \A i \in DOMAIN args : Len(args[i]) \in {1, 2} /\ args[i][1] # << >>

\* The loop is past some arguments, and the next one is not spoken for.
ReadSoFar(heads, many) ==
    ReadFromLeft(heads, many) /\ ~(many \in heads /\ TakesNext(many))

\* What holds of every option, whatever it was given.
TextsOK ==
    /\ options \in [Keys(command) -> Seq(Strings)]
    /\ \A key \in Keys(command) :
         /\ options[key] # << >>
         /\ Kind(command, key) = "set" => IsInjective(options[key])

\* OptionsAreRead speaks of the end of the loop; this of every turn of it.
OptionInv ==
    /\ command \in Commands \cup {"none"}
    /\ command = "none" => outcome = "ok"
    /\ command # "none" =>
         /\ ArgumentsOK
         /\ next \in 1 .. Len(args) + 1
         /\ TextsOK
         /\ \E heads \in SUBSET (1 .. next - 1) : ReadSoFar(heads, next - 1)
         /\ outcome \in {"ok", "help"} =>
              /\ next = Len(args) + 1
              /\ \A key \in Keys(command) :
                   Positive(key) => "0" \notin ToSet(options[key])

\* option_value finds the text with the option or in the next argument, unless
\* it is missing.
LEMMA ValueFound ==
    ASSUME NEW arg, NEW following, NEW read, read = OptionValue(arg, following),
           ~read.missing
    PROVE  /\ Len(arg) = 2 /\ Splits(command) =>
                /\ read.key = KeyOf(arg) /\ read.text = arg[2] /\ read.used = 1
                /\ arg[2] # << >>
           /\ ~(Len(arg) = 2 /\ Splits(command)) =>
                /\ following # << >>
                /\ read.key = (IF Len(arg) = 2 THEN "=" ELSE KeyOf(arg))
                /\ \A value : value = Head(following) =>
                     read.text = (IF Len(value) = 2 THEN <<"=">> ELSE value[1])
                /\ read.used = 2
<1> DEFINE value == Head(following)
<1>1. ASSUME NEW key, NEW text, NEW missing, NEW used,
             read = [key |-> key, text |-> text, missing |-> missing, used |-> used]
      PROVE  /\ read.key = key /\ read.text = text
             /\ read.missing = missing /\ read.used = used
  BY <1>1
<1>2. CASE Len(arg) = 2 /\ Splits(command)
  <2>1. read = [key |-> KeyOf(arg), text |-> arg[2], missing |-> arg[2] = Empty,
                used |-> 1]
    BY <1>2, Zenon DEF OptionValue
  <2>2. read.key = KeyOf(arg) /\ read.text = arg[2] /\ read.used = 1
    BY <1>1, <2>1
  <2>3. read.missing = (arg[2] = Empty)
    BY <1>1, <2>1
  <2> QED
    BY <1>2, <2>2, <2>3, Zenon DEF Empty
<1>3. CASE ~(Len(arg) = 2 /\ Splits(command)) /\ following = << >>
  <2>1. read = [key |-> "", text |-> Empty, missing |-> TRUE, used |-> 1]
    BY <1>3, Zenon DEF OptionValue
  <2>2. read.missing = TRUE
    BY <1>1, <2>1
  <2> QED
    BY <2>2, Zenon
<1>4. CASE ~(Len(arg) = 2 /\ Splits(command)) /\ following # << >>
  <2>1. read = [key |-> IF Len(arg) = 2 THEN "=" ELSE KeyOf(arg),
                text |-> IF Len(value) = 2 THEN <<"=">> ELSE value[1],
                missing |-> FALSE, used |-> 2]
    BY <1>4, Zenon DEF OptionValue
  <2> QED
    BY <1>1, <1>4, <2>1
<1> QED
  BY <1>2, <1>3, <1>4

\* What option_value finds when it finds something.
LEMMA ReadsValue ==
    ASSUME ArgumentsOK, command \in Commands, next \in 1 .. Len(args), NEW read,
           read = OptionValue(args[next], SubSeq(args, next + 1, Len(args))),
           ~read.missing, read.key \in Keys(command),
           Kind(command, read.key) \in TextKinds
    PROVE  /\ read.key = KeyOf(args[next])
           /\ read.text = Text(next)
           /\ read.text \in Seq(Strings) /\ read.text # << >>
           /\ read.used = IF TakesNext(next) THEN 2 ELSE 1
           /\ TakesNext(next) => next < Len(args)
<1> DEFINE arg == args[next]
           following == SubSeq(args, next + 1, Len(args))
<1>1. /\ Len(args) \in Nat /\ next \in DOMAIN args
      /\ arg \in Seq(Seq(Strings)) /\ Len(arg) \in {1, 2} /\ arg[1] # << >>
  BY ElementOfSeq DEF ArgumentsOK
<1>2. GrammarOK(read.key, Kind(command, read.key))
  BY GrammarsAgree
<1>3. read = OptionValue(arg, following) /\ ~read.missing
  OBVIOUS
<1>4. /\ TakesNext(next) <=>
            Len(arg) # 2 /\ Kind(command, KeyOf(arg)) \notin {"flag", "helpflag"}
      /\ Text(next) = IF Len(arg) = 2 THEN arg[2]
                      ELSE IF TakesNext(next)
                        THEN IF Len(args[next + 1]) = 2 THEN <<"=">>
                                                        ELSE args[next + 1][1]
                      ELSE On
  BY DEF TakesNext, Text, Joined
<1>5. following # << >> => next < Len(args) /\ Head(following) = args[next + 1]
  <2>1. next + 1 \in Int /\ Len(args) \in Int /\ args \in Seq(Seq(Seq(Strings)))
    BY <1>1 DEF ArgumentsOK
  <2>2. CASE Len(args) < next + 1
    BY <2>1, <2>2, SubSeqEmpty
  <2>3. CASE next < Len(args)
    <3>1. next + 1 \in 1 .. Len(args) /\ Len(args) \in next + 1 .. Len(args)
      BY <1>1, <2>3
    <3> QED
      BY <2>1, <2>3, <3>1, HeadTailOfSubSeq
  <2> QED
    BY <1>1, <2>2, <2>3
<1> HIDE DEF arg, following
<1>6. CASE Len(arg) = 2 /\ Splits(command)
  <2>1. read.key = KeyOf(arg) /\ read.text = arg[2] /\ read.used = 1
    BY <1>3, <1>6, ValueFound
  <2>2. arg[2] # << >>
    BY <1>3, <1>6, ValueFound
  <2>3. Text(next) = arg[2] /\ ~TakesNext(next)
    BY <1>4, <1>6
  <2>4. arg[2] \in Seq(Strings)
    <3>1. 2 \in 1 .. Len(arg)
      BY <1>6
    <3> QED
      BY <1>1, <3>1, ElementOfSeq
  <2> QED
    BY <2>1, <2>2, <2>3, <2>4 DEF arg
<1>7. CASE ~(Len(arg) = 2 /\ Splits(command))
  <2>1. following # << >>
    BY <1>3, <1>7, ValueFound
  <2>2. next < Len(args) /\ Head(following) = args[next + 1]
    BY <1>5, <2>1
  <2>3. next + 1 \in DOMAIN args
    BY <1>1, <2>2
  <2> DEFINE value == args[next + 1]
  <2>4. /\ value \in Seq(Seq(Strings)) /\ Len(value) \in {1, 2}
        /\ value[1] # << >> /\ value[1] \in Seq(Strings)
    <3>1. /\ value \in Seq(Seq(Strings)) /\ Len(value) \in {1, 2}
          /\ value[1] # << >>
      BY <2>3, ElementOfSeq DEF ArgumentsOK
    <3> HIDE DEF value
    <3>2. 1 \in 1 .. Len(value)
      BY <3>1
    <3> QED
      BY <3>1, <3>2, ElementOfSeq
  <2> HIDE DEF value
  <2>5. /\ read.key = (IF Len(arg) = 2 THEN "=" ELSE KeyOf(arg))
        /\ read.text = (IF Len(value) = 2 THEN <<"=">> ELSE value[1])
        /\ read.used = 2
    <3>1. value = Head(following)
      BY <2>2 DEF value
    <3>2. /\ read.key = (IF Len(arg) = 2 THEN "=" ELSE KeyOf(arg))
          /\ \A v : v = Head(following) =>
               read.text = (IF Len(v) = 2 THEN <<"=">> ELSE v[1])
          /\ read.used = 2
      BY <1>3, <1>7, <2>1, ValueFound
    <3> QED
      BY <3>1, <3>2
  <2>6. Len(arg) # 2 /\ read.key = KeyOf(arg)
    BY <1>2, <2>5 DEF GrammarOK
  <2>7. TakesNext(next)
    BY <1>4, <2>6 DEF TextKinds
  <2>8. Text(next) = IF Len(value) = 2 THEN <<"=">> ELSE value[1]
    BY <1>4, <2>6, <2>7 DEF value
  <2>9. <<"=">> \in Seq(Strings) /\ <<"=">> # << >>
    BY ShortTexts DEF Strings
  <2> QED
    BY <2>2, <2>4, <2>5, <2>6, <2>7, <2>8, <2>9 DEF arg
<1> QED
  BY <1>6, <1>7

\* An option that takes what stands there, alone or with the argument after it,
\* leaves the loop where it can go on.
LEMMA ReadsOn ==
    ASSUME NEW at \in Nat \ {0}, NEW heads \in SUBSET (1 .. at - 1),
           ReadSoFar(heads, at - 1),
           command' = command, args' = args,
           NEW key \in Keys(command), key = KeyOf(args[at]), NEW value,
           options \in [Keys(command) -> Seq(Strings)],
           options' = [options EXCEPT ![key] = value],
           Says(key, Text(at))',
           NEW many, many = IF TakesNext(at) THEN at + 1 ELSE at
    PROVE  \E more \in SUBSET (1 .. many) : ReadSoFar(more, many)'
<1> DEFINE more == heads \cup {at}
<1>1. /\ \A i : TakesNext(i)' <=> TakesNext(i)
      /\ \A i : KeyOf(args[i])' = KeyOf(args[i])
      /\ \A i : Text(i)' = Text(i)
  BY DEF TakesNext, Joined, Text, KeyOf
<1>2. /\ \A i \in heads : KeyOf(args[i]) \in Keys(command)
      /\ \A i \in 1 .. at - 1 : i \in heads <=> ~(i - 1 \in heads /\ TakesNext(i - 1))
      /\ \A k \in Keys(command) :
           LET given == {i \in heads : KeyOf(args[i]) = k}
           IN  IF given = {} THEN options[k] = Default
               ELSE \E last \in given :
                      (\A j \in given : j <= last) /\ Says(k, Text(last))
      /\ ~(at - 1 \in heads /\ TakesNext(at - 1))
  BY DEF ReadSoFar, ReadFromLeft
<1>3. /\ more \in SUBSET (1 .. many)
      /\ at \notin heads /\ at + 1 \notin heads
      /\ \A i \in heads : i \in Int /\ i < at
  OBVIOUS
<1>4. ASSUME NEW i \in 1 .. many
      PROVE  i \in more <=> ~(i - 1 \in more /\ TakesNext(i - 1))
  <2>1. CASE i < at
    <3>1. i \in 1 .. at - 1 /\ i # at /\ i - 1 # at
      BY <1>3, <2>1
    <3> QED
      BY <1>2, <3>1
  <2>2. CASE i = at
    <3>1. i - 1 # at
      BY <2>2
    <3> QED
      BY <1>2, <2>2, <3>1
  <2>3. CASE i > at
    <3>1. TakesNext(at) /\ i = at + 1 /\ i - 1 = at
      BY <1>3, <2>3
    <3> QED
      BY <1>3, <3>1
  <2> QED
    BY <1>3, <2>1, <2>2, <2>3
<1>5. ~(many \in more /\ TakesNext(many))
  BY <1>3
<1>6. ASSUME NEW k \in Keys(command)
      PROVE  LET given == {i \in more : KeyOf(args[i]) = k}
             IN  IF given = {} THEN options'[k] = Default
                 ELSE \E last \in given :
                        (\A j \in given : j <= last) /\ Says(k, Text(last))'
  <2>1. CASE k = key
    <3>1. at \in {i \in more : KeyOf(args[i]) = k}
      BY <2>1
    <3>2. \A j \in more : j <= at
      BY <1>3
    <3> QED
      BY <2>1, <3>1, <3>2
  <2>2. CASE k # key
    <3>1. {i \in more : KeyOf(args[i]) = k} = {i \in heads : KeyOf(args[i]) = k}
      BY <2>2
    <3>2. options'[k] = options[k]
      BY <2>2
    <3>3. \A i : Says(k, Text(i)) => Says(k, Text(i))'
      BY <1>1, <3>2 DEF Says
    <3> QED
      BY <1>2, <3>1, <3>2, <3>3
  <2> QED
    BY <2>1, <2>2
<1>7. \A i \in more : KeyOf(args[i]) \in Keys(command)
  BY <1>2
<1> HIDE DEF more
<1>8. ReadFromLeft(more, many)'
  BY <1>1, <1>4, <1>6, <1>7 DEF ReadFromLeft
<1>9. ReadSoFar(more, many)'
  BY <1>1, <1>5, <1>8 DEF ReadSoFar
<1> QED
  BY <1>3, <1>9

\* Nothing is read from what has not changed.
LEMMA ReadingStays ==
    ASSUME UNCHANGED <<command, args, options>>, NEW heads, NEW many,
           ReadSoFar(heads, many)
    PROVE  ReadSoFar(heads, many)'
<1>1. /\ \A i : TakesNext(i)' <=> TakesNext(i)
      /\ \A i : KeyOf(args[i])' = KeyOf(args[i])
      /\ \A i : Text(i)' = Text(i)
  BY DEF TakesNext, Joined, Text, KeyOf
<1>2. \A key, text : Says(key, text)' <=> Says(key, text)
  BY DEF Says
<1>3. \A key, i : Says(key, Text(i))' <=> Says(key, Text(i))
  BY <1>1, <1>2
<1>4. ReadFromLeft(heads, many)'
  BY <1>1, <1>3 DEF ReadSoFar, ReadFromLeft
<1> QED
  BY <1>1, <1>4 DEF ReadSoFar

\* The loop begins with every option as it is by default.
LEMMA ParsingBegins ==
    ASSUME Init
    PROVE  OptionInv
<1>1. CASE ParsingInit("none", << >>)
  BY <1>1 DEF ParsingInit, OptionInv, Commands
<1>2. CASE \E c \in Commands : \E n \in 0 .. MaxArgs :
             \E given \in [1 .. n -> Tokens[c]] : ParsingInit(c, given)
  <2>0. PICK c \in Commands : \E n \in 0 .. MaxArgs :
             \E given \in [1 .. n -> Tokens[c]] : ParsingInit(c, given)
    BY <1>2
  <2>1. PICK n \in 0 .. MaxArgs :
             \E given \in [1 .. n -> Tokens[c]] : ParsingInit(c, given)
    BY <2>0
  <2>2. PICK given \in [1 .. n -> Tokens[c]] : ParsingInit(c, given)
    BY <2>1
  <2>3. /\ command = c /\ args = given /\ next = 1 /\ outcome = "parsing"
        /\ options = [key \in Keys(c) |-> Default] /\ c # "none"
    BY <2>2 DEF ParsingInit, Commands
  <2>4. \A arg \in Tokens[c] : /\ arg \in Seq(Seq(Strings))
                               /\ Len(arg) \in {1, 2} /\ arg[1] # << >>
    <3>1. TAKE arg \in Tokens[c]
    <3>2. arg \in Seq(Seq(STRING)) /\ Len(arg) \in {1, 2} /\ arg[1] # << >>
      BY ArgumentAssumption
    <3>3. Seq(STRING) \subseteq Seq(Strings)
      BY SeqMonotonic DEF Strings
    <3> QED
      BY <3>2, <3>3, SeqMonotonic
  <2>5. n \in Nat /\ args \in Seq(Seq(Seq(Strings))) /\ DOMAIN args = 1 .. n
        /\ Len(args) = n
    BY <2>3, <2>4, ArgumentAssumption
  <2>6. ArgumentsOK
    <3>1. \A i \in DOMAIN args : args[i] \in Tokens[c]
      BY <2>3, <2>5
    <3> QED
      BY <2>4, <2>5, <3>1 DEF ArgumentsOK
  <2>7. Default \in Seq(Strings) /\ Default # << >> /\ IsInjective(Default)
    <3>1. "default" \in Strings
      BY DEF Strings
    <3> QED
      BY <3>1, ShortTexts DEF Default, IsInjective
  <2>8. TextsOK
    BY <2>3, <2>7 DEF TextsOK
  <2>9. ReadSoFar({}, 0)
    BY <2>3 DEF ReadSoFar, ReadFromLeft
  <2>10. {} \in SUBSET (1 .. next - 1) /\ next - 1 = 0 /\ next \in 1 .. Len(args) + 1
    BY <2>3, <2>5
  <2> QED
    BY <2>3, <2>6, <2>8, <2>9, <2>10 DEF OptionInv
<1> QED
  BY <1>1, <1>2 DEF Init

\* An option that is taken keeps what OptionInv says of it and of the rest.
LEMMA OptionTaken ==
    ASSUME OptionInv, command # "none", outcome = "parsing", next <= Len(args),
           UNCHANGED <<command, args, outcome>>,
           NEW key \in Keys(command), key = KeyOf(args[next]),
           NEW value \in Seq(Strings), value # << >>,
           Kind(command, key) = "set" => IsInjective(value),
           options' = [options EXCEPT ![key] = value],
           \A at : at = next => Says(key, Text(at))',
           TakesNext(next) => next < Len(args),
           next' = next + (IF TakesNext(next) THEN 2 ELSE 1)
    PROVE  OptionInv'
<1>1. /\ ArgumentsOK /\ TextsOK /\ next \in 1 .. Len(args) + 1
      /\ command \in Commands /\ Len(args) \in Nat
  BY DEF OptionInv, ArgumentsOK
<1>2. PICK heads \in SUBSET (1 .. next - 1) : ReadSoFar(heads, next - 1)
  BY DEF OptionInv
<1>3. PICK at : at = next
  OBVIOUS
<1>4. PICK many : many = IF TakesNext(at) THEN at + 1 ELSE at
  OBVIOUS
<1>5. at \in Nat \ {0} /\ heads \in SUBSET (1 .. at - 1) /\ ReadSoFar(heads, at - 1)
  BY <1>1, <1>2, <1>3
<1>6. Says(key, Text(at))' /\ key = KeyOf(args[at])
  BY <1>3
<1>7. PICK more \in SUBSET (1 .. many) : ReadSoFar(more, many)'
  BY <1>1, <1>4, <1>5, <1>6, ReadsOn DEF TextsOK
<1>8. next' - 1 = many
  BY <1>3, <1>4, <1>5
<1>9. \E h \in SUBSET (1 .. next' - 1) : ReadSoFar(h, next - 1)'
  BY <1>7, <1>8
<1>10. TextsOK'
  BY <1>1 DEF TextsOK
<1>11. ArgumentsOK'
  BY <1>1 DEF ArgumentsOK
<1>12. next' \in 1 .. Len(args') + 1
  BY <1>1
<1> QED
  BY <1>1, <1>9, <1>10, <1>11, <1>12 DEF OptionInv

\* A step that reads nothing keeps OptionInv, unless it says too early that the
\* command is taken.
LEMMA NothingRead ==
    ASSUME OptionInv, UNCHANGED <<command, args, next, options>>,
           command = "none" => outcome' = "ok",
           (command # "none" /\ outcome' \in {"ok", "help"}) =>
             /\ next = Len(args) + 1
             /\ \A key \in Keys(command) :
                  Positive(key) => "0" \notin ToSet(options[key])
    PROVE  OptionInv'
<1>1. ArgumentsOK' <=> ArgumentsOK
  BY DEF ArgumentsOK
<1>2. TextsOK' <=> TextsOK
  BY DEF TextsOK
<1>3. ASSUME NEW heads \in SUBSET (1 .. next - 1), ReadSoFar(heads, next - 1)
      PROVE  (\E h \in SUBSET (1 .. next - 1) : ReadSoFar(h, next - 1))'
  <2>1. PICK many : many = next - 1
    OBVIOUS
  <2>2. ReadSoFar(heads, many)'
    BY <1>3, <2>1, ReadingStays
  <2> QED
    BY <2>1, <2>2
<1>4. \A key : Positive(key)' <=> Positive(key)
  BY DEF Positive
<1> QED
  BY <1>1, <1>2, <1>3, <1>4 DEF OptionInv

\* Command lines are taken for what stands there: OptionsAreRead.
THEOREM CommandLinesAreRead == Spec => []OptionsAreRead
<1>1. Init => OptionInv
  BY ParsingBegins
<1>2. OptionInv /\ [Next]_vars => OptionInv'
  <2> SUFFICES ASSUME OptionInv, [Next]_vars
               PROVE  OptionInv'
    OBVIOUS
  <2>1. ASSUME UNCHANGED optionVars
        PROVE  OptionInv'
    BY <2>1, NothingRead DEF optionVars, OptionInv
  <2>2. CASE ReadFlag
    <3>1. /\ command # "none" /\ outcome = "parsing" /\ next <= Len(args)
          /\ UNCHANGED <<command, args, outcome>>
      BY <2>2 DEF ReadFlag, Parsing, OptionInv
    <3>2. PICK key : key = KeyOf(args[next])
      OBVIOUS
    <3>3. /\ key \in Keys(command) /\ Kind(command, key) \in {"flag", "helpflag"}
          /\ ~Joined(next) /\ ~TakesNext(next)
          /\ options' = [options EXCEPT ![key] = On] /\ next' = next + 1
      BY <2>2, <3>2 DEF ReadFlag, Plain, Joined, TakesNext
    <3>4. On \in Seq(Strings) /\ On # << >>
      BY ShortTexts DEF On, Strings
    <3>5. \A at : at = next => Says(key, Text(at))'
      <4>1. TAKE at
      <4>2. HAVE at = next
      <4>3. Text(at)' = On
        <5>1. Text(next) = On
          BY <3>3 DEF Text
        <5> QED
          BY <3>1, <4>2, <5>1 DEF Text, Joined, TakesNext
      <4>4. options'[key] = On
        BY <3>1, <3>3 DEF OptionInv, TextsOK
      <4> QED
        BY <3>1, <3>3, <4>3, <4>4 DEF Says
    <3> QED
      BY <3>1, <3>2, <3>3, <3>4, <3>5, OptionTaken
  <2>3. CASE ReadHelp
    <3>1. UNCHANGED <<command, args, next, options>> /\ outcome' = "error"
          /\ command # "none"
      BY <2>3 DEF ReadHelp, Parsing, OptionInv
    <3> QED
      BY <3>1, NothingRead
  <2>4. CASE ReadOption
    <3>1. /\ command # "none" /\ command \in Commands /\ outcome = "parsing"
          /\ next <= Len(args) /\ next \in 1 .. Len(args) /\ ArgumentsOK
          /\ options \in [Keys(command) -> Seq(Strings)]
          /\ UNCHANGED <<command, args>>
      BY <2>4 DEF ReadOption, Parsing, OptionInv, ArgumentsOK, TextsOK
    <3>2. PICK read : read = OptionValue(args[next], SubSeq(args, next + 1, Len(args)))
      OBVIOUS
    <3> DEFINE kind == Kind(command, read.key)
               known == /\ ~read.missing
                        /\ read.key \in Keys(command)
                        /\ kind \notin {"flag", "helpflag", "help"}
                        /\ Takes(kind, read.key, read.text)
    <3>3. CASE ~known
      <4>1. outcome' = "error" /\ UNCHANGED <<options, next>>
        BY <2>4, <3>2, <3>3 DEF ReadOption
      <4> QED
        BY <3>1, <4>1, NothingRead
    <3>4. CASE known
      <4> DEFINE value == Kept(kind, read.key, read.text)
      <4>1. /\ options' = [options EXCEPT ![read.key] = value]
            /\ next' = next + read.used /\ UNCHANGED outcome
        BY <2>4, <3>2, <3>4 DEF ReadOption
      <4>2. GrammarOK(read.key, kind) /\ kind \in TextKinds
        <5>1. GrammarOK(read.key, kind)
          BY <3>1, <3>4, GrammarsAgree
        <5> QED
          BY <3>4, <5>1 DEF GrammarOK
      <4>3. /\ read.key = KeyOf(args[next])
            /\ read.text = Text(next)
            /\ read.text \in Seq(Strings) /\ read.text # << >>
            /\ read.used = IF TakesNext(next) THEN 2 ELSE 1
            /\ TakesNext(next) => next < Len(args)
        BY <3>1, <3>2, <3>4, <4>2, ReadsValue
      <4>4. /\ value \in Seq(Strings) /\ value # << >>
            /\ kind = "set" => IsInjective(value)
            /\ IF kind \notin {"set", "names"} THEN value = read.text
               ELSE ToSet(value) =
                      IF kind = "set" /\ read.text = <<"all">>
                        THEN ToSet(AllOf(read.key)) ELSE ToSet(read.text) \ {""}
        BY <3>4, <4>2, <4>3, KeptRight
      <4>5. \A at : at = next => Says(read.key, Text(at))'
        <5>1. TAKE at
        <5>2. HAVE at = next
        <5>3. Text(at)' = read.text
          BY <3>1, <4>3, <5>2 DEF Text, Joined, TakesNext
        <5>4. options'[read.key] = value
          BY <3>1, <3>4, <4>1
        <5> HIDE DEF value
        <5> QED
          BY <3>1, <4>4, <5>3, <5>4 DEF Says
      <4> HIDE DEF value
      <4> QED
        BY <3>1, <3>4, <4>1, <4>3, <4>4, <4>5, OptionTaken
    <3> QED
      BY <3>3, <3>4
  <2>5. CASE Finish
    <3>1. /\ outcome = "parsing" /\ next > Len(args) /\ command # "none"
          /\ UNCHANGED <<command, args, next, options>>
      BY <2>5 DEF Finish, OptionInv
    <3>2. next = Len(args) + 1 /\ DOMAIN options = Keys(command)
      BY <3>1 DEF OptionInv, ArgumentsOK, TextsOK
    <3>3. outcome' \in {"ok", "help"} =>
            \A key \in Keys(command) :
              Positive(key) => "0" \notin ToSet(options[key])
      BY <2>5, <3>2 DEF Finish
    <3> QED
      BY <3>1, <3>2, <3>3, NothingRead
  <2>6. CASE Quantize \/ CopyPixel \/ ShowSample \/ Allocate \/ TakePlane
             \/ SavePicture \/ Render \/ Percentile
    BY <2>1, <2>6 DEF Quantize, CopyPixel, ShowSample, Allocate, TakePlane,
                      SavePicture, Render, Percentile, Free
  <2>7. CASE UNCHANGED vars
    BY <2>1, <2>7 DEF vars
  <2> QED
    BY <2>2, <2>3, <2>4, <2>5, <2>6, <2>7 DEF Next, Parse, OptionsNext
<1>3. OptionInv => OptionsAreRead
  <2> SUFFICES ASSUME OptionInv, command # "none", outcome \in {"ok", "help"}
               PROVE  OptionsAreRead
    BY DEF OptionsAreRead
  <2>1. /\ next = Len(args) + 1 /\ next - 1 = Len(args)
        /\ DOMAIN args = 1 .. Len(args)
    BY DEF OptionInv, ArgumentsOK
  <2>2. PICK heads \in SUBSET (1 .. next - 1) : ReadSoFar(heads, next - 1)
    BY DEF OptionInv
  <2>3. heads \in SUBSET DOMAIN args /\ ReadFromLeft(heads, Len(args))
    BY <2>1, <2>2 DEF ReadSoFar
  <2>4. \A key \in Keys(command) :
          /\ Positive(key) => "0" \notin ToSet(options[key])
          /\ Kind(command, key) = "set" => IsInjective(options[key])
          /\ options[key] # << >>
    BY DEF OptionInv, TextsOK
  <2> QED
    BY <2>3, <2>4 DEF OptionsAreRead
<1> QED
  BY <1>1, <1>2, <1>3, PTL DEF Spec

=============================================================================
