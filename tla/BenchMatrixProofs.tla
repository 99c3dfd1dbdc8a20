-------------------------- MODULE BenchMatrixProofs --------------------------
(* Theorems about BenchMatrix and HardwareMatrix: both benchmarks, for every *)
(* matrix, corpus and number of repeats, and whatever fails.                 *)
EXTENDS HardwareMatrix, Arithmetic, SequenceTheorems, FiniteSetTheorems, TLAPS

-----------------------------------------------------------------------------
(* The inductive invariant.                                                 *)

InRepeat == stage \in {"read", "frame", "encode", "decode"}
InCell == stage \in {"cell", "repeat"} \/ InRepeat

\* The file position follows the index of the frame.
Place ==
    /\ stage = "read" => cursor = frame
    /\ stage \in {"frame", "encode", "decode"} =>
           cursor = frame + 1 /\ bgra = frame
    /\ InRepeat => repeat < Repeats

\* Once the encoder has given a packet, the decoder has had the first one.
KeyFirst ==
    /\ stage \in {"read", "frame", "encode"} => fresh \/ synced
    /\ stage = "decode" => IF packets = << >>
                             THEN fresh \/ synced
                             ELSE synced \/ Head(packets) = "key"

\* The counters of the cell so far: nothing decodes that was not counted.
Counted ==
    (stage = "repeat" \/ InRepeat) =>
        /\ tally.timed = repeat * Frames
                            + (IF InRepeat THEN frame ELSE 0)
                            + (IF stage = "decode" THEN 1 ELSE 0)
        /\ tally.decoded # 0 => tally.packets # 0
        /\ (stage = "decode" /\ packets # << >>) => tally.packets # 0
        /\ tally.messages <= tally.timed /\ tally.messages <= tally.packets
        /\ tally.keys <= tally.packets
        /\ tally.packets # 0 => tally.messages # 0 /\ tally.keys # 0
        /\ (InRepeat /\ ~fresh) => tally.keys # 0

CellCount == Len(Outer) * Len(Inner)

ReportRows == [cell : {Matrix[k] : k \in 1 .. CellCount},
               outcome : {"ok", "failed"},
               tally : [DOMAIN NoTally -> Nat]]

\* One row for each cell so far.
RowPerCell ==
    /\ rows \in Seq(ReportRows)
    /\ Len(rows) <= CellCount
    /\ \A k \in 1 .. Len(rows) : rows[k].cell = Matrix[k]
    /\ InCell => Len(rows) = CellsBefore
    /\ stage \in {"report", "markdown", "written", "done"} =>
           Len(rows) = CellCount
    /\ stage = "aborted" =>
           \/ Len(rows) = CellCount
           \/ Refused(Outer[outer]) /\ Len(rows) = (outer - 1) * Len(Inner)
    /\ stage = "unprinted" => Markdown \in files \/ Len(rows) = CellsBefore

NoReport == Json \notin files /\ PartialJson \notin files /\ Markdown \notin files

\* No report before the last row, and the Markdown report last.
MarkdownLast ==
    /\ InCell => NoReport
    /\ NoReport \/ Len(rows) = CellCount
    /\ stage \in {"markdown", "written", "done"} =>
           Json \in files /\ PartialJson \notin files
    /\ stage \in {"written", "done"} => Markdown \in files
    /\ Markdown \in files =>
           /\ stage \in {"written", "done", "unprinted"}
           /\ Json \in files /\ PartialJson \notin files

MatrixInv == /\ TypeOK /\ Place /\ KeyFirst /\ Counted /\ RowPerCell
             /\ RowsAddUp /\ MarkdownLast

-----------------------------------------------------------------------------
(* The matrix.                                                              *)

\* What the options say is a number is one.
LEMMA OptionFacts ==
    ASSUME options \in OptionValues
    PROVE  /\ Len(Outer) \in Nat \ {0} /\ Len(Inner) \in Nat \ {0}
           /\ Frames \in Nat \ {0} /\ Repeats \in Nat \ {0}
           /\ CellCount \in Nat
<1>1. /\ Len(Outer) \in Nat \ {0} /\ Len(Inner) \in Nat \ {0}
      /\ Frames \in Nat \ {0} /\ Repeats \in Nat \ {0}
  BY OptionAssumption DEF Outer, Inner, Frames, Repeats
<1> QED
  BY <1>1 DEF CellCount

LEMMA OptionsKept ==
    ASSUME options' = options
    PROVE  /\ Outer' = Outer /\ Inner' = Inner
           /\ Frames' = Frames /\ Repeats' = Repeats
           /\ Matrix' = Matrix /\ CellCount' = CellCount
           /\ ReportRows' = ReportRows
BY DEF Outer, Inner, Frames, Repeats, Matrix, CellCount, ReportRows

\* The current cell is the one its two positions name, and the next one is
\* next in the order of the rows.
LEMMA CellFacts ==
    ASSUME TypeOK
    PROVE  /\ CellsBefore \in Nat /\ CellsBefore + 1 \in 1 .. CellCount
           /\ (outer - 1) * Len(Inner) \in Nat
           /\ Matrix[CellsBefore + 1] = <<Outer[outer], Inner[inner]>>
           /\ CellsBefore + 1 = (outer - 1) * Len(Inner) + inner
           /\ inner = Len(Inner) => CellsBefore + 1 = outer * Len(Inner)
           /\ (inner = Len(Inner) /\ outer = Len(Outer)) =>
                  CellsBefore + 1 = CellCount
<1> DEFINE w == Len(Inner)
           h == Len(Outer)
           o == outer - 1
           i == inner - 1
           a == o * w
<1>1. /\ w \in Nat \ {0} /\ h \in Nat \ {0}
      /\ outer \in 1 .. h /\ inner \in 1 .. w
  BY OptionFacts DEF TypeOK
<1>2. /\ o \in Nat /\ o < h /\ i \in 0 .. w - 1 /\ i \in Nat /\ i + 1 <= w
      /\ o + 1 = outer /\ i + 1 = inner
  BY <1>1
<1>3. CellCount = h * w /\ CellsBefore = o * w + i
  BY DEF CellCount, CellsBefore
<1> HIDE DEF w, h, o, i
<1>4. /\ a \in Nat /\ (o + 1) * w = a + w /\ h * w \in Nat /\ a = w * o
  BY <1>1, <1>2
<1>5. (o + 1) * w <= h * w
  <2> DEFINE d == h - (o + 1)
  <2>1. d \in Nat /\ h = (o + 1) + d
    BY <1>1, <1>2
  <2> HIDE DEF d
  <2>2. ((o + 1) + d) * w = (o + 1) * w + d * w /\ d * w \in Nat
    BY <1>1, <1>2, <2>1
  <2>3. (o + 1) * w \in Nat
    BY <1>1, <1>2
  <2> QED
    BY <2>1, <2>2, <2>3
<1> HIDE DEF a
<1>6. /\ CellsBefore = a + i /\ CellsBefore \in Nat
      /\ CellsBefore + 1 \in 1 .. CellCount
      /\ CellsBefore + 1 = a + inner
      /\ (CellsBefore + 1) - 1 = w * o + i
  BY <1>1, <1>2, <1>3, <1>4, <1>5 DEF a
<1>7. (w * o + i) \div w = o /\ (w * o + i) % w = i
  <2>1. o \in Int
    BY <1>2
  <2> QED
    BY <1>1, <1>2, <2>1, DivisionUnique, Zenon
<1>8. Matrix[CellsBefore + 1] = <<Outer[outer], Inner[inner]>>
  <2>1. Matrix[CellsBefore + 1]
            = <<Outer[(((CellsBefore + 1) - 1) \div w) + 1],
                Inner[(((CellsBefore + 1) - 1) % w) + 1]>>
    BY <1>3, <1>6 DEF Matrix, w, h
  <2> QED
    BY <1>2, <1>6, <1>7, <2>1
<1>9. inner = w => CellsBefore + 1 = outer * w
  BY <1>2, <1>4, <1>6
<1>10. (inner = w /\ outer = h) => CellsBefore + 1 = CellCount
  BY <1>3, <1>9
<1>11. (outer - 1) * w = a
  BY DEF a, o
<1> QED
  BY <1>4, <1>6, <1>8, <1>9, <1>10, <1>11 DEF w, h

\* A cell that ends leaves its row, and the next one begins.
LEMMA RowAdded ==
    ASSUME MatrixInv, InCell, Advance, options' = options,
           NEW outcome \in {"ok", "failed"},
           NEW counters \in [DOMAIN NoTally -> Nat],
           rows' = Append(rows, Row(outcome, counters))
    PROVE  /\ RowPerCell'
           /\ stage' \in {"cell", "report"}
           /\ outer' \in 1 .. Len(Outer) /\ inner' \in 1 .. Len(Inner)
           /\ Len(rows') = Len(rows) + 1 /\ Len(rows) \in Nat
           /\ \A k \in 1 .. Len(rows) : rows'[k] = rows[k]
           /\ rows'[Len(rows) + 1] = Row(outcome, counters)
<1> DEFINE row == Row(outcome, counters)
<1>1. TypeOK /\ rows \in Seq(ReportRows) /\ Len(rows) = CellsBefore
      /\ \A k \in 1 .. Len(rows) : rows[k].cell = Matrix[k]
  BY DEF MatrixInv, RowPerCell
<1>2. /\ CellsBefore \in Nat /\ CellsBefore + 1 \in 1 .. CellCount
      /\ Matrix[CellsBefore + 1] = <<Outer[outer], Inner[inner]>>
      /\ CellsBefore + 1 = (outer - 1) * Len(Inner) + inner
      /\ inner = Len(Inner) => CellsBefore + 1 = outer * Len(Inner)
      /\ (inner = Len(Inner) /\ outer = Len(Outer)) =>
             CellsBefore + 1 = CellCount
  BY <1>1, CellFacts
<1>3. row \in ReportRows /\ row.cell = Matrix[CellsBefore + 1]
  BY <1>2 DEF Row, ReportRows
<1>4. /\ rows' \in Seq(ReportRows) /\ Len(rows') = Len(rows) + 1
      /\ \A k \in 1 .. Len(rows) : rows'[k] = rows[k]
      /\ rows'[Len(rows) + 1] = row
  <2> HIDE DEF row
  <2>1. rows' = Append(rows, row)
    BY DEF row
  <2> QED
    BY <1>1, <1>3, <2>1, AppendProperties
<1>5. /\ Outer' = Outer /\ Inner' = Inner /\ Matrix' = Matrix
      /\ CellCount' = CellCount /\ ReportRows' = ReportRows
  BY OptionsKept
<1>6. /\ Len(Outer) \in Nat \ {0} /\ Len(Inner) \in Nat \ {0}
      /\ outer \in 1 .. Len(Outer) /\ inner \in 1 .. Len(Inner)
      /\ CellCount \in Nat
  BY <1>1, OptionFacts DEF TypeOK
<1>7. /\ stage' \in {"cell", "report"}
      /\ outer' \in 1 .. Len(Outer) /\ inner' \in 1 .. Len(Inner)
      /\ stage' = "report" => CellsBefore + 1 = CellCount
      /\ stage' = "cell" =>
             CellsBefore + 1 = (outer' - 1) * Len(Inner) + (inner' - 1)
  <2>1. CASE inner < Len(Inner) /\ stage' = "cell" /\ inner' = inner + 1
             /\ outer' = outer
    <3>1. inner + 1 \in 1 .. Len(Inner) /\ (inner + 1) - 1 = inner
      BY <1>6, <2>1
    <3> QED
      BY <1>2, <1>6, <2>1, <3>1
  <2>2. CASE inner = Len(Inner) /\ outer < Len(Outer) /\ stage' = "cell"
             /\ inner' = 1 /\ outer' = outer + 1
    <3>1. /\ outer + 1 \in 1 .. Len(Outer) /\ (outer + 1) - 1 = outer
          /\ 1 \in 1 .. Len(Inner)
      BY <1>6, <2>2
    <3>2. outer * Len(Inner) \in Nat
      BY <1>6
    <3>3. outer * Len(Inner) = outer * Len(Inner) + (1 - 1)
      BY <3>2
    <3> QED
      BY <1>2, <1>6, <2>2, <3>1, <3>3
  <2>3. CASE inner = Len(Inner) /\ outer = Len(Outer) /\ stage' = "report"
             /\ UNCHANGED cell
    BY <1>2, <1>6, <2>3 DEF cell
  <2> QED
    BY <2>1, <2>2, <2>3 DEF Advance
<1>8. \A k \in 1 .. Len(rows') : rows'[k].cell = Matrix[k]
  <2> SUFFICES ASSUME NEW k \in 1 .. Len(rows')
               PROVE  rows'[k].cell = Matrix[k]
    OBVIOUS
  <2>1. k \in 1 .. Len(rows) \/ k = Len(rows) + 1
    BY <1>1, <1>2, <1>4
  <2> QED
    BY <1>1, <1>3, <1>4, <2>1
<1>9. Len(rows') <= CellCount
  BY <1>1, <1>2, <1>4, <1>6
<1>10. RowPerCell'
  <2>1. InCell' => Len(rows') = CellsBefore'
    <3>1. InCell' => stage' = "cell"
      BY <1>7 DEF InCell, InRepeat
    <3>2. CellsBefore' = (outer' - 1) * Len(Inner) + (inner' - 1)
      BY <1>5 DEF CellsBefore
    <3> QED
      BY <1>1, <1>4, <1>7, <3>1, <3>2
  <2>2. stage' = "report" => Len(rows') = CellCount
    BY <1>1, <1>4, <1>7
  <2> QED
    BY <1>4, <1>5, <1>7, <1>8, <1>9, <2>1, <2>2 DEF RowPerCell
<1> QED
  BY <1>1, <1>2, <1>4, <1>7, <1>10

-----------------------------------------------------------------------------
(* The steps within a cell.                                                 *)

\* They leave the rows alone, and save nothing but samples.
LEMMA RowsKept ==
    ASSUME MatrixInv, UNCHANGED <<options, outer, inner, rows>>,
           InCell, InCell',
           \/ files' = files
           \/ \E f : /\ f[1] \in {"source", "source-hardware", "decoded"}
                    /\ files' = files \cup {f}
    PROVE  /\ RowPerCell' /\ RowsAddUp' /\ MarkdownLast'
           /\ options' \in OptionValues
           /\ outer' \in 1 .. Len(Outer)' /\ inner' \in 1 .. Len(Inner)'
<1>1. /\ Outer' = Outer /\ Inner' = Inner /\ Matrix' = Matrix
      /\ CellCount' = CellCount /\ ReportRows' = ReportRows
      /\ Frames' = Frames /\ Repeats' = Repeats
  BY OptionsKept
<1>2. CellsBefore' = CellsBefore
  BY <1>1 DEF CellsBefore
<1>3. /\ stage' \in {"cell", "repeat", "read", "frame", "encode", "decode"}
      /\ stage \in {"cell", "repeat", "read", "frame", "encode", "decode"}
  BY DEF InCell, InRepeat
<1>4. RowPerCell'
  BY <1>1, <1>2, <1>3 DEF MatrixInv, RowPerCell, InCell
<1>5. RowsAddUp'
  BY <1>1 DEF MatrixInv, RowsAddUp
<1>6. NoReport'
  <2>1. NoReport
    BY DEF MatrixInv, MarkdownLast
  <2>2. /\ Markdown[1] = "report.md" /\ Json[1] = "report.json"
        /\ PartialJson[1] = "report.json"
    BY DEF Markdown, Json, PartialJson
  <2>3. Markdown \notin files' /\ Json \notin files' /\ PartialJson \notin files'
    BY <2>1, <2>2 DEF NoReport
  <2> QED
    BY <2>3 DEF NoReport, Markdown, Json, PartialJson
<1>7. MarkdownLast'
  BY <1>3, <1>6 DEF MarkdownLast, NoReport
<1> QED
  BY <1>1, <1>4, <1>5, <1>7 DEF MatrixInv, TypeOK

LEMMA StartCellStep ==
    ASSUME MatrixInv, StartCell, options' = options
    PROVE  MatrixInv'
<1>1. /\ stage = "cell" /\ stage' = "repeat" /\ tally' = NoTally /\ repeat' = 0
      /\ UNCHANGED <<outer, inner, frame, cursor, bgra, fresh, synced, packets,
                     rows, files>>
  BY DEF StartCell, cell, codec, output
<1>2. /\ Frames' = Frames /\ Repeats' = Repeats
      /\ Frames \in Nat \ {0} /\ Repeats \in Nat \ {0}
  BY OptionsKept, OptionFacts DEF MatrixInv, TypeOK
<1>3. /\ RowPerCell' /\ RowsAddUp' /\ MarkdownLast'
      /\ options' \in OptionValues
      /\ outer' \in 1 .. Len(Outer)' /\ inner' \in 1 .. Len(Inner)'
  BY <1>1, RowsKept DEF InCell
<1>4. NoTally \in [DOMAIN NoTally -> Nat]
  BY DEF NoTally
<1>5. TypeOK'
  BY <1>1, <1>2, <1>3, <1>4 DEF MatrixInv, TypeOK
<1>6. Place' /\ KeyFirst'
  BY <1>1 DEF Place, KeyFirst, InRepeat
<1>7. Counted'
  <2>1. 0 * Frames = 0 /\ 0 + 0 + 0 = 0
    BY <1>2
  <2> QED
    BY <1>1, <1>2, <2>1 DEF Counted, InRepeat, NoTally
<1> QED
  BY <1>3, <1>5, <1>6, <1>7 DEF MatrixInv

LEMMA StartRepeatStep ==
    ASSUME MatrixInv, StartRepeat, options' = options
    PROVE  MatrixInv'
<1>1. /\ stage = "repeat" /\ repeat < Repeats /\ stage' = "read"
      /\ cursor' = 0 /\ frame' = 0
      /\ fresh' = TRUE /\ synced' = FALSE /\ packets' = << >>
      /\ UNCHANGED <<outer, inner, repeat, bgra, tally, rows, files>>
  BY DEF StartRepeat, cell, output
<1>2. /\ Frames' = Frames /\ Repeats' = Repeats
      /\ Frames \in Nat \ {0} /\ Repeats \in Nat \ {0}
      /\ repeat \in Nat /\ repeat * Frames \in Nat
  <2>1. /\ Frames' = Frames /\ Repeats' = Repeats
        /\ Frames \in Nat \ {0} /\ Repeats \in Nat \ {0}
    BY OptionsKept, OptionFacts DEF MatrixInv, TypeOK
  <2>2. repeat \in Nat
    BY <2>1 DEF MatrixInv, TypeOK
  <2> QED
    BY <2>1, <2>2
<1>3. /\ RowPerCell' /\ RowsAddUp' /\ MarkdownLast'
      /\ options' \in OptionValues
      /\ outer' \in 1 .. Len(Outer)' /\ inner' \in 1 .. Len(Inner)'
  BY <1>1, RowsKept DEF InCell, InRepeat
<1>4. 0 \in 0 .. Frames - 1 /\ 0 \in 0 .. Frames
  BY <1>2
<1>5. TypeOK'
  <2>1. packets' \in Seq({"key", "delta"})
    BY <1>1
  <2> QED
    BY <1>1, <1>2, <1>3, <1>4, <2>1 DEF MatrixInv, TypeOK
<1>6. Place' /\ KeyFirst'
  BY <1>1, <1>2 DEF Place, KeyFirst, InRepeat
<1>7. Counted'
  <2>1. tally.timed = repeat * Frames + 0 + 0
    BY <1>1 DEF MatrixInv, Counted, InRepeat
  <2> QED
    BY <1>1, <1>2, <2>1 DEF MatrixInv, Counted, InRepeat
<1> QED
  BY <1>3, <1>5, <1>6, <1>7 DEF MatrixInv

LEMMA ReadFrameStep ==
    ASSUME MatrixInv, ReadFrame, options' = options
    PROVE  MatrixInv'
<1>1. /\ stage = "read" /\ stage' = "frame"
      /\ bgra' = cursor /\ cursor' = cursor + 1
      /\ UNCHANGED <<outer, inner, repeat, frame, fresh, synced, packets,
                     tally, rows, files>>
  BY DEF ReadFrame, cell, codec, output
<1>2. /\ Frames' = Frames /\ Repeats' = Repeats
      /\ Frames \in Nat \ {0} /\ Repeats \in Nat \ {0}
  BY OptionsKept, OptionFacts DEF MatrixInv, TypeOK
<1>3. /\ RowPerCell' /\ RowsAddUp' /\ MarkdownLast'
      /\ options' \in OptionValues
      /\ outer' \in 1 .. Len(Outer)' /\ inner' \in 1 .. Len(Inner)'
  BY <1>1, RowsKept DEF InCell, InRepeat
<1>4. cursor = frame
  BY <1>1 DEF MatrixInv, Place
<1>5. TypeOK'
  <2>1. frame + 1 \in 0 .. Frames /\ frame \in -1 .. Frames - 1
    BY <1>2 DEF MatrixInv, TypeOK
  <2> QED
    BY <1>1, <1>2, <1>3, <1>4, <2>1 DEF MatrixInv, TypeOK
<1>6. Place' /\ KeyFirst' /\ Counted'
  BY <1>1, <1>2, <1>4 DEF MatrixInv, Place, KeyFirst, Counted, InRepeat
<1> QED
  BY <1>3, <1>5, <1>6 DEF MatrixInv

LEMMA SaveStep ==
    ASSUME MatrixInv, NEW sample, NEW condition, options' = options,
           sample[1] \in {"source", "source-hardware"}, Save(sample, condition)
    PROVE  MatrixInv'
<1>1. /\ stage = "frame" /\ stage' = "encode"
      /\ files' = files \/ files' = files \cup {sample}
      /\ UNCHANGED <<outer, inner, repeat, frame, cursor, bgra, fresh, synced,
                     packets, tally, rows>>
  BY DEF Save, cell, position, codec
<1>2. Frames' = Frames /\ Repeats' = Repeats
  BY OptionsKept
<1>3. /\ RowPerCell' /\ RowsAddUp' /\ MarkdownLast'
      /\ options' \in OptionValues
      /\ outer' \in 1 .. Len(Outer)' /\ inner' \in 1 .. Len(Inner)'
  BY <1>1, RowsKept DEF InCell, InRepeat
<1>4. TypeOK' /\ Place' /\ KeyFirst' /\ Counted'
  BY <1>1, <1>2, <1>3 DEF MatrixInv, TypeOK, Place, KeyFirst, Counted, InRepeat
<1> QED
  BY <1>3, <1>4 DEF MatrixInv

\* How many of the packets of an encode are keyframes.
LEMMA KeysAmong ==
    ASSUME NEW n \in Nat, NEW ps \in [1 .. n -> {"key", "delta"}]
    PROVE  LET keys == Cardinality({k \in DOMAIN ps : ps[k] = "key"})
           IN  /\ ps \in Seq({"key", "delta"}) /\ Len(ps) = n
               /\ keys \in 0 .. n
               /\ (n # 0 /\ Head(ps) = "key") => keys # 0
<1> DEFINE K == {k \in DOMAIN ps : ps[k] = "key"}
<1>1. ps \in Seq({"key", "delta"}) /\ Len(ps) = n
  OBVIOUS
<1>2. K \subseteq 1 .. n
  OBVIOUS
<1>3. IsFiniteSet(1 .. n) /\ Cardinality(1 .. n) = n
  <2>1. 1 <= n + 1
    OBVIOUS
  <2>2. /\ IsFiniteSet(1 .. n)
        /\ Cardinality(1 .. n) = IF 1 > n THEN 0 ELSE n - 1 + 1
    BY FS_Interval
  <2> QED
    BY <2>2
<1>4. /\ IsFiniteSet(K) /\ Cardinality(K) <= n /\ Cardinality(K) \in Nat
  BY <1>2, <1>3, FS_Subset, FS_CardinalityType
<1>5. ASSUME n # 0, Head(ps) = "key"
      PROVE  Cardinality(K) # 0
  <2>1. 1 \in DOMAIN ps /\ ps[1] = "key"
    BY <1>1, <1>5
  <2>2. K # {}
    BY <2>1
  <2> QED
    BY <1>4, <2>2, FS_EmptySet
<1> QED
  BY <1>1, <1>4, <1>5

LEMMA EncodeStep ==
    ASSUME MatrixInv, NEW n \in Nat, EncodeAtMost(n), options' = options
    PROVE  MatrixInv'
<1> DEFINE keys == Cardinality({k \in DOMAIN packets' : packets'[k] = "key"})
<1>1. /\ stage = "encode" /\ stage' = "decode"
      /\ packets' \in UNION {[1 .. k -> {"key", "delta"}] : k \in 0 .. n}
      /\ (fresh /\ packets' # << >>) => Head(packets') = "key"
      /\ fresh' = (fresh /\ packets' = << >>)
      /\ UNCHANGED <<outer, inner, repeat, frame, cursor, bgra, synced, rows,
                     files>>
  BY DEF EncodeAtMost, cell, position, output
<1>2. tally' = [tally EXCEPT !.timed = @ + 1,
                             !.packets = @ + Len(packets'),
                             !.keys = @ + keys,
                             !.messages = IF packets' = << >> THEN @ ELSE @ + 1]
  BY DEF EncodeAtMost
<1>3. PICK len \in Nat : packets' \in [1 .. len -> {"key", "delta"}]
  BY <1>1
<1>4. /\ packets' \in Seq({"key", "delta"}) /\ Len(packets') = len
      /\ keys \in 0 .. len
      /\ (len # 0 /\ Head(packets') = "key") => keys # 0
  BY <1>3, KeysAmong
<1>5. packets' = << >> <=> len = 0
  BY <1>4
<1> HIDE DEF keys
<1>6. /\ Frames' = Frames /\ Repeats' = Repeats
      /\ Frames \in Nat \ {0} /\ Repeats \in Nat \ {0}
  BY OptionsKept, OptionFacts DEF MatrixInv, TypeOK
<1>7. /\ RowPerCell' /\ RowsAddUp' /\ MarkdownLast'
      /\ options' \in OptionValues
      /\ outer' \in 1 .. Len(Outer)' /\ inner' \in 1 .. Len(Inner)'
  BY <1>1, RowsKept DEF InCell, InRepeat
<1>8. /\ tally.timed \in Nat /\ tally.packets \in Nat /\ tally.keys \in Nat
      /\ tally.decoded \in Nat /\ tally.messages \in Nat /\ keys \in Nat
      /\ tally \in [DOMAIN NoTally -> Nat]
      /\ DOMAIN NoTally = {"timed", "packets", "keys", "decoded", "messages"}
  BY <1>4 DEF MatrixInv, TypeOK, NoTally
<1>9. /\ tally'.timed = tally.timed + 1
      /\ tally'.packets = tally.packets + len
      /\ tally'.keys = tally.keys + keys
      /\ tally'.decoded = tally.decoded
      /\ tally'.messages = IF len = 0 THEN tally.messages ELSE tally.messages + 1
  <2>1. /\ tally'.timed = tally.timed + 1
        /\ tally'.packets = tally.packets + Len(packets')
        /\ tally'.keys = tally.keys + keys
        /\ tally'.decoded = tally.decoded
    BY <1>2, <1>8
  <2>2. tally'.messages = IF packets' = << >> THEN tally.messages
                                              ELSE tally.messages + 1
    BY <1>2, <1>8
  <2> QED
    BY <1>4, <1>5, <2>1, <2>2
<1>10. tally' \in [DOMAIN NoTally -> Nat]
  <2>1. tally' = [x \in DOMAIN NoTally |-> tally'[x]]
    BY <1>2, <1>8
  <2>2. /\ tally'.timed \in Nat /\ tally'.packets \in Nat
        /\ tally'.keys \in Nat /\ tally'.decoded \in Nat
        /\ tally'.messages \in Nat
    BY <1>3, <1>8, <1>9
  <2> QED
    BY <1>8, <2>1, <2>2
<1>11. TypeOK'
  <2>1. fresh' \in BOOLEAN
    BY <1>1
  <2> QED
    BY <1>1, <1>4, <1>6, <1>7, <1>10, <2>1 DEF MatrixInv, TypeOK
<1>12. Place'
  BY <1>1, <1>6 DEF MatrixInv, Place, InRepeat
<1>13. KeyFirst'
  BY <1>1 DEF MatrixInv, KeyFirst
<1>14. Counted'
  <2> DEFINE base == repeat * Frames
  <2>1. /\ repeat \in Nat /\ frame \in Nat /\ base \in Nat
    <3>1. repeat \in Nat /\ frame \in Nat
      BY <1>6 DEF MatrixInv, TypeOK
    <3> QED
      BY <1>6, <3>1
  <2>2. /\ tally.timed = base + frame + 0
        /\ tally.decoded # 0 => tally.packets # 0
        /\ tally.messages <= tally.timed /\ tally.messages <= tally.packets
        /\ tally.keys <= tally.packets
        /\ tally.packets # 0 => tally.messages # 0 /\ tally.keys # 0
        /\ ~fresh => tally.keys # 0
    BY <1>1 DEF MatrixInv, Counted, InRepeat
  <2> HIDE DEF base
  <2> DEFINE m == tally'.messages
  <2>3. /\ m \in Nat /\ m <= tally.messages + 1
        /\ len # 0 => m = tally.messages + 1
        /\ len = 0 => m = tally.messages
    BY <1>8, <1>9
  <2> HIDE DEF m
  <2>4. len # 0 => tally.keys + keys # 0
    BY <1>1, <1>4, <1>5, <1>8, <2>2
  <2>5. /\ tally.timed + 1 = base + frame + 1
        /\ tally.decoded # 0 => tally.packets + len # 0
        /\ packets' # << >> => tally.packets + len # 0
        /\ m <= tally.timed + 1 /\ m <= tally.packets + len
        /\ tally.keys + keys <= tally.packets + len
    BY <1>3, <1>4, <1>5, <1>8, <2>1, <2>2, <2>3
  <2>6. tally.packets + len # 0 => m # 0 /\ tally.keys + keys # 0
    BY <1>3, <1>4, <1>8, <2>2, <2>3, <2>4
  <2>7. ~fresh' => tally.keys + keys # 0
    <3>1. ~fresh' => ~fresh \/ len # 0
      BY <1>1, <1>5
    <3> QED
      BY <1>4, <1>8, <2>2, <2>4, <3>1
  <2>8. repeat' * Frames' = base
    BY <1>1, <1>6 DEF base
  <2> QED
    BY <1>1, <1>4, <1>9, <2>5, <2>6, <2>7, <2>8 DEF Counted, InRepeat, m
<1> QED
  BY <1>7, <1>11, <1>12, <1>13, <1>14 DEF MatrixInv

LEMMA DecodeStep ==
    ASSUME MatrixInv, NEW sample, sample[1] = "decoded", DecodeTo(sample),
           options' = options
    PROVE  MatrixInv'
<1>1. /\ stage = "decode" /\ stage' = "decode" /\ packets # << >>
      /\ synced' = (synced \/ Head(packets) = "key")
      /\ packets' = Tail(packets)
      /\ files' = files \/ files' = files \cup {sample}
      /\ UNCHANGED <<outer, inner, repeat, frame, cursor, bgra, fresh, rows>>
  BY DEF DecodeTo, cell, position
<1>2. PICK d \in 0 .. MaxPictures : tally' = [tally EXCEPT !.decoded = @ + d]
  BY DEF DecodeTo
<1>3. /\ Frames' = Frames /\ Repeats' = Repeats
      /\ Frames \in Nat \ {0} /\ Repeats \in Nat \ {0}
  BY OptionsKept, OptionFacts DEF MatrixInv, TypeOK
<1>4. /\ RowPerCell' /\ RowsAddUp' /\ MarkdownLast'
      /\ options' \in OptionValues
      /\ outer' \in 1 .. Len(Outer)' /\ inner' \in 1 .. Len(Inner)'
  BY <1>1, RowsKept DEF InCell, InRepeat
<1>5. /\ packets' \in Seq({"key", "delta"})
      /\ Len(packets) \in Nat /\ Len(packets) # 0
      /\ Len(packets') = Len(packets) - 1
  <2>1. packets \in Seq({"key", "delta"})
    BY DEF MatrixInv, TypeOK
  <2> QED
    BY <1>1, <2>1, HeadTailProperties, EmptySeq
<1>6. /\ tally \in [DOMAIN NoTally -> Nat]
      /\ DOMAIN NoTally = {"timed", "packets", "keys", "decoded", "messages"}
      /\ tally.packets \in Nat /\ tally.decoded \in Nat
  BY DEF MatrixInv, TypeOK, NoTally
<1>7. /\ tally'.decoded = tally.decoded + d
      /\ tally'.timed = tally.timed /\ tally'.packets = tally.packets
      /\ tally'.keys = tally.keys /\ tally'.messages = tally.messages
      /\ tally' \in [DOMAIN NoTally -> Nat]
  <2>1. d \in Nat
    BY MaxPicturesAssumption
  <2> QED
    BY <1>2, <1>6, <2>1
<1>8. TypeOK'
  <2>1. synced' \in BOOLEAN
    BY <1>1
  <2> QED
    BY <1>1, <1>3, <1>4, <1>5, <1>7, <2>1 DEF MatrixInv, TypeOK
<1>9. Place'
  BY <1>1, <1>3 DEF MatrixInv, Place, InRepeat
<1>10. KeyFirst'
  <2>1. synced \/ Head(packets) = "key"
    BY <1>1 DEF MatrixInv, KeyFirst
  <2>2. synced'
    BY <1>1, <2>1
  <2> QED
    BY <1>1, <2>2 DEF KeyFirst
<1>11. Counted'
  <2>1. tally'.packets # 0
    BY <1>1, <1>7 DEF MatrixInv, Counted, InRepeat
  <2> QED
    BY <1>1, <1>3, <1>7, <2>1 DEF MatrixInv, Counted, InRepeat
<1> QED
  BY <1>4, <1>8, <1>9, <1>10, <1>11 DEF MatrixInv

LEMMA NextFrameStep ==
    ASSUME MatrixInv, NextFrame, options' = options
    PROVE  MatrixInv'
<1>1. /\ stage = "decode" /\ stage' = "read" /\ packets = << >>
      /\ frame + 1 < Frames /\ frame' = frame + 1
      /\ UNCHANGED <<outer, inner, repeat, cursor, bgra, fresh, synced,
                     packets, tally, rows, files>>
  BY DEF NextFrame, cell, codec, output
<1>2. /\ Frames' = Frames /\ Repeats' = Repeats
      /\ Frames \in Nat \ {0} /\ Repeats \in Nat \ {0}
  BY OptionsKept, OptionFacts DEF MatrixInv, TypeOK
<1>3. /\ RowPerCell' /\ RowsAddUp' /\ MarkdownLast'
      /\ options' \in OptionValues
      /\ outer' \in 1 .. Len(Outer)' /\ inner' \in 1 .. Len(Inner)'
  BY <1>1, RowsKept DEF InCell, InRepeat
<1>4. frame \in Nat /\ frame + 1 \in 0 .. Frames - 1
  BY <1>1, <1>2 DEF MatrixInv, TypeOK
<1>5. TypeOK'
  BY <1>1, <1>2, <1>3, <1>4 DEF MatrixInv, TypeOK
<1>6. Place' /\ KeyFirst'
  BY <1>1, <1>2 DEF MatrixInv, Place, KeyFirst, InRepeat
<1>7. Counted'
  <2> DEFINE base == repeat * Frames
  <2>1. tally.timed = base + frame + 1
    BY <1>1 DEF MatrixInv, Counted, InRepeat
  <2>2. base \in Nat
    <3>1. repeat \in Nat
      BY <1>2 DEF MatrixInv, TypeOK
    <3> QED
      BY <1>2, <3>1
  <2>3. repeat' * Frames' = base
    BY <1>1, <1>2
  <2> HIDE DEF base
  <2>4. tally.timed = base + (frame + 1) + 0
    BY <1>4, <2>1, <2>2
  <2> QED
    BY <1>1, <2>3, <2>4 DEF MatrixInv, Counted, InRepeat
<1> QED
  BY <1>3, <1>5, <1>6, <1>7 DEF MatrixInv

LEMMA EndRepeatStep ==
    ASSUME MatrixInv, EndRepeat, options' = options
    PROVE  MatrixInv'
<1>1. /\ stage = "decode" /\ stage' = "repeat" /\ packets = << >>
      /\ frame + 1 = Frames /\ frame' = 0 /\ repeat' = repeat + 1
      /\ UNCHANGED <<outer, inner, cursor, bgra, fresh, synced, packets,
                     tally, rows, files>>
  BY DEF EndRepeat, cell, codec, output
<1>2. /\ Frames' = Frames /\ Repeats' = Repeats
      /\ Frames \in Nat \ {0} /\ Repeats \in Nat \ {0}
  BY OptionsKept, OptionFacts DEF MatrixInv, TypeOK
<1>3. /\ RowPerCell' /\ RowsAddUp' /\ MarkdownLast'
      /\ options' \in OptionValues
      /\ outer' \in 1 .. Len(Outer)' /\ inner' \in 1 .. Len(Inner)'
  BY <1>1, RowsKept DEF InCell, InRepeat
<1>4. /\ repeat \in Nat /\ repeat + 1 \in 0 .. Repeats
      /\ 0 \in 0 .. Frames - 1 /\ frame \in Nat
  <2>1. repeat \in Nat /\ frame \in Nat
    BY <1>2 DEF MatrixInv, TypeOK
  <2>2. repeat < Repeats
    BY <1>1 DEF MatrixInv, Place, InRepeat
  <2> QED
    BY <1>2, <2>1, <2>2
<1>5. TypeOK'
  BY <1>1, <1>2, <1>3, <1>4 DEF MatrixInv, TypeOK
<1>6. Place' /\ KeyFirst'
  BY <1>1 DEF Place, KeyFirst, InRepeat
<1>7. Counted'
  <2> DEFINE base == repeat * Frames
             next == (repeat + 1) * Frames
  <2>1. tally.timed = base + frame + 1
    BY <1>1 DEF MatrixInv, Counted, InRepeat
  <2>2. base \in Nat /\ next = base + Frames
    BY <1>2, <1>4
  <2>3. repeat' * Frames' = next
    BY <1>1, <1>2
  <2> HIDE DEF base, next
  <2>4. tally.timed = next + 0 + 0
    BY <1>1, <1>2, <1>4, <2>1, <2>2
  <2> QED
    BY <1>1, <2>3, <2>4 DEF MatrixInv, Counted, InRepeat
<1> QED
  BY <1>3, <1>5, <1>6, <1>7 DEF MatrixInv

-----------------------------------------------------------------------------
(* The end of a cell, and the report.                                       *)

\* A row that adds up joins rows that do.
LEMMA SumsKept ==
    ASSUME MatrixInv, InCell, Advance, options' = options,
           NEW outcome \in {"ok", "failed"},
           NEW t \in [DOMAIN NoTally -> Nat],
           rows' = Append(rows, Row(outcome, t)),
           outcome = "failed" => t = NoTally,
           outcome = "ok" =>
               /\ t.timed = Frames * Repeats
               /\ t.decoded # 0
               /\ t.messages \in 1 .. t.timed /\ t.messages <= t.packets
               /\ t.keys \in 1 .. t.packets
    PROVE  RowsAddUp'
<1>1. /\ rows' \in Seq(ReportRows')
      /\ Len(rows') = Len(rows) + 1 /\ Len(rows) \in Nat
      /\ \A k \in 1 .. Len(rows) : rows'[k] = rows[k]
      /\ rows'[Len(rows) + 1] = Row(outcome, t)
  BY RowAdded DEF RowPerCell
<1>2. DOMAIN rows' = 1 .. Len(rows) + 1
  BY <1>1
<1>3. Frames' = Frames /\ Repeats' = Repeats
  BY OptionsKept
<1>4. DOMAIN rows = 1 .. Len(rows)
  BY DEF MatrixInv, RowPerCell
<1>5. ASSUME NEW k \in DOMAIN rows'
      PROVE  LET u == rows'[k].tally
             IN  IF rows'[k].outcome = "ok"
                   THEN /\ u.timed = Frames * Repeats
                        /\ u.decoded # 0
                        /\ u.messages \in 1 .. u.timed
                        /\ u.messages <= u.packets
                        /\ u.keys \in 1 .. u.packets
                   ELSE u = NoTally
  <2>1. CASE k \in 1 .. Len(rows)
    <3>1. rows'[k] = rows[k] /\ k \in DOMAIN rows
      BY <1>1, <1>4, <2>1
    <3> QED
      BY <3>1 DEF MatrixInv, RowsAddUp
  <2>2. CASE k = Len(rows) + 1
    <3>1. rows'[k].outcome = outcome /\ rows'[k].tally = t
      BY <1>1, <2>2 DEF Row
    <3> QED
      BY <3>1
  <2> QED
    BY <1>1, <1>2, <1>5, <2>1, <2>2
<1> QED
  BY <1>3, <1>5 DEF RowsAddUp

\* The rest of the invariant where a cell ends.
LEMMA CellEnds ==
    ASSUME MatrixInv, InCell, Advance, options' = options,
           RowPerCell', RowsAddUp', stage' \in {"cell", "report"},
           outer' \in 1 .. Len(Outer), inner' \in 1 .. Len(Inner),
           cursor' \in 0 .. Frames,
           UNCHANGED <<repeat, frame, bgra, fresh, synced, packets, tally, files>>
    PROVE  MatrixInv'
<1>1. /\ Outer' = Outer /\ Inner' = Inner
      /\ Frames' = Frames /\ Repeats' = Repeats
  BY OptionsKept
<1>2. NoReport'
  BY DEF MatrixInv, MarkdownLast, NoReport, Json, PartialJson, Markdown
<1>3. TypeOK'
  BY <1>1 DEF MatrixInv, TypeOK
<1>4. Place' /\ KeyFirst' /\ Counted'
  BY DEF Place, KeyFirst, Counted, InRepeat
<1>5. MarkdownLast'
  BY <1>2 DEF MarkdownLast, NoReport
<1> QED
  BY <1>3, <1>4, <1>5 DEF MatrixInv

LEMMA EndCellStep ==
    ASSUME MatrixInv, EndCell, options' = options
    PROVE  MatrixInv'
<1>1. /\ stage = "repeat" /\ repeat = Repeats /\ InCell /\ Advance
      /\ UNCHANGED <<repeat, frame, cursor, bgra, fresh, synced, packets, tally,
                     files>>
  BY DEF EndCell, position, codec, InCell
<1>2. /\ tally \in [DOMAIN NoTally -> Nat] /\ NoTally \in [DOMAIN NoTally -> Nat]
      /\ tally.packets \in Nat /\ tally.decoded \in Nat /\ tally.keys \in Nat
      /\ tally.messages \in Nat /\ tally.timed \in Nat
  BY DEF MatrixInv, TypeOK, NoTally
<1>3. /\ Frames \in Nat \ {0} /\ Repeats \in Nat \ {0}
      /\ Repeats * Frames \in Nat /\ Repeats * Frames = Frames * Repeats
  <2>1. Frames \in Nat \ {0} /\ Repeats \in Nat \ {0}
    BY OptionFacts DEF MatrixInv, TypeOK
  <2> QED
    BY <2>1
<1>4. /\ tally.timed = Frames * Repeats
      /\ tally.decoded # 0 => tally.packets # 0
      /\ tally.messages <= tally.timed /\ tally.messages <= tally.packets
      /\ tally.keys <= tally.packets
      /\ tally.packets # 0 => tally.messages # 0 /\ tally.keys # 0
  <2>1. /\ tally.timed = Repeats * Frames + 0 + 0
        /\ tally.decoded # 0 => tally.packets # 0
        /\ tally.messages <= tally.timed /\ tally.messages <= tally.packets
        /\ tally.keys <= tally.packets
        /\ tally.packets # 0 => tally.messages # 0 /\ tally.keys # 0
    BY <1>1 DEF MatrixInv, Counted, InRepeat
  <2>2. Repeats * Frames + 0 + 0 = Frames * Repeats
    BY <1>3
  <2> QED
    BY <1>2, <2>1, <2>2
<1>5. cursor' \in 0 .. Frames
  BY <1>1 DEF MatrixInv, TypeOK
<1>6. CASE tally.decoded = 0
  <2>1. rows' = Append(rows, Row("failed", NoTally))
    BY <1>6 DEF EndCell
  <2>2. /\ RowPerCell' /\ stage' \in {"cell", "report"}
        /\ outer' \in 1 .. Len(Outer) /\ inner' \in 1 .. Len(Inner)
    BY <1>1, <1>2, <2>1, RowAdded
  <2>3. RowsAddUp'
    BY <1>1, <1>2, <2>1, SumsKept
  <2> QED
    BY <1>1, <1>5, <2>2, <2>3, CellEnds
<1>7. CASE tally.decoded # 0
  <2>1. rows' = Append(rows, Row("ok", tally))
    BY <1>7 DEF EndCell
  <2>2. /\ RowPerCell' /\ stage' \in {"cell", "report"}
        /\ outer' \in 1 .. Len(Outer) /\ inner' \in 1 .. Len(Inner)
    BY <1>1, <1>2, <2>1, RowAdded
  <2>3. /\ tally.messages \in 1 .. tally.timed
        /\ tally.keys \in 1 .. tally.packets
    <3>1. tally.packets # 0
      BY <1>2, <1>4, <1>7
    <3> QED
      BY <1>2, <1>4, <1>7, <3>1
  <2>4. RowsAddUp'
    BY <1>1, <1>2, <1>4, <1>7, <2>1, <2>3, SumsKept
  <2> QED
    BY <1>1, <1>5, <2>2, <2>4, CellEnds
<1> QED
  BY <1>6, <1>7

LEMMA FailCellStep ==
    ASSUME MatrixInv, FailCell, options' = options
    PROVE  MatrixInv'
<1>1. /\ InCell /\ Advance
      /\ rows' = Append(rows, Row("failed", NoTally))
      /\ UNCHANGED <<repeat, frame, bgra, fresh, synced, packets, tally, files>>
  BY DEF FailCell, CanFail, codec, InCell, InRepeat
<1>2. NoTally \in [DOMAIN NoTally -> Nat]
  BY DEF NoTally
<1>3. cursor' \in 0 .. Frames
  <2>1. cursor \in 0 .. Frames /\ Frames \in Nat \ {0} /\ frame \in 0 .. Frames - 1
    BY OptionFacts DEF MatrixInv, TypeOK
  <2>2. stage = "read" => cursor = frame
    BY DEF MatrixInv, Place
  <2>3. cursor' \in {cursor} \cup (IF stage = "read" THEN {cursor + 1} ELSE {})
                             \cup (IF stage = "repeat" THEN {0} ELSE {})
    BY DEF FailCell
  <2> QED
    BY <2>1, <2>2, <2>3
<1>4. /\ RowPerCell' /\ stage' \in {"cell", "report"}
      /\ outer' \in 1 .. Len(Outer) /\ inner' \in 1 .. Len(Inner)
  BY <1>1, <1>2, RowAdded
<1>5. RowsAddUp'
  BY <1>1, <1>2, SumsKept
<1> QED
  BY <1>1, <1>3, <1>4, <1>5, CellEnds

LEMMA NoReportStays ==
    ASSUME files' = files
    PROVE  NoReport' <=> NoReport
BY DEF NoReport, Json, PartialJson, Markdown

\* The name of an encoder is refused before its first configuration.
LEMMA ValidateEncoderStep ==
    ASSUME MatrixInv, ValidateEncoder, options' = options
    PROVE  MatrixInv'
<1>1. /\ stage = "cell" /\ inner = 1 /\ Refused(Outer[outer])
      /\ stage' = "aborted"
      /\ UNCHANGED <<outer, inner, repeat, frame, cursor, bgra, fresh, synced,
                     packets, tally, rows, files>>
  BY DEF ValidateEncoder, cell, position, codec, output
<1>2. /\ Outer' = Outer /\ Inner' = Inner /\ Matrix' = Matrix
      /\ CellCount' = CellCount /\ ReportRows' = ReportRows
      /\ Frames' = Frames /\ Repeats' = Repeats
  BY OptionsKept
<1>3. Refused(Outer[outer])'
  BY <1>1, <1>2 DEF Refused
<1>4. Len(rows) = (outer - 1) * Len(Inner)
  <2>1. (outer - 1) * Len(Inner) \in Nat
    BY CellFacts DEF MatrixInv
  <2>2. Len(rows) = (outer - 1) * Len(Inner) + (1 - 1)
    BY <1>1 DEF MatrixInv, RowPerCell, InCell, CellsBefore
  <2> QED
    BY <2>1, <2>2
<1>5. TypeOK'
  BY <1>1, <1>2 DEF MatrixInv, TypeOK
<1>6. Place' /\ KeyFirst' /\ Counted'
  BY <1>1 DEF Place, KeyFirst, Counted, InRepeat
<1>7. RowPerCell'
  BY <1>1, <1>2, <1>3, <1>4 DEF MatrixInv, RowPerCell, InCell, InRepeat
<1>8. RowsAddUp'
  BY <1>1, <1>2 DEF MatrixInv, RowsAddUp
<1>9. MarkdownLast'
  BY <1>1, <1>2, NoReportStays DEF MatrixInv, MarkdownLast, InCell
<1> QED
  BY <1>5, <1>6, <1>7, <1>8, <1>9 DEF MatrixInv

\* A line that cannot be printed ends the run with the rows it has.
LEMMA LoseOutputStep ==
    ASSUME MatrixInv, LoseOutput, options' = options
    PROVE  MatrixInv'
<1>1. /\ InCell \/ stage = "written"
      /\ stage' = "unprinted"
      /\ UNCHANGED <<outer, inner, repeat, frame, cursor, bgra, fresh, synced,
                     packets, tally, rows, files>>
  BY DEF LoseOutput, CanFail, InCell, InRepeat, cell, position, codec, output
<1>2. /\ Outer' = Outer /\ Inner' = Inner /\ Matrix' = Matrix
      /\ CellCount' = CellCount /\ ReportRows' = ReportRows
      /\ Frames' = Frames /\ Repeats' = Repeats
  BY OptionsKept
<1>3. TypeOK'
  BY <1>1, <1>2 DEF MatrixInv, TypeOK
<1>4. Place' /\ KeyFirst' /\ Counted'
  BY <1>1 DEF Place, KeyFirst, Counted, InRepeat
<1>5. RowPerCell'
  <2>1. Markdown' \in files' \/ Len(rows') = CellsBefore'
    <3>1. CASE InCell
      BY <1>1, <1>2, <3>1 DEF MatrixInv, RowPerCell, CellsBefore
    <3>2. CASE stage = "written"
      BY <1>1, <3>2 DEF MatrixInv, MarkdownLast, Markdown
    <3> QED
      BY <1>1, <3>1, <3>2
  <2> QED
    BY <1>1, <1>2, <2>1 DEF MatrixInv, RowPerCell, InCell, InRepeat
<1>6. RowsAddUp'
  BY <1>1, <1>2 DEF MatrixInv, RowsAddUp
<1>7. MarkdownLast'
  <2>1. ~InCell'
    BY <1>1 DEF InCell, InRepeat
  <2>2. NoReport => NoReport'
    BY <1>1, NoReportStays
  <2>3. CASE InCell
    <3>1. NoReport'
      BY <2>2, <2>3 DEF MatrixInv, MarkdownLast
    <3> QED
      BY <1>1, <2>1, <3>1 DEF MarkdownLast, NoReport
  <2>4. CASE stage = "written"
    <3>1. /\ Markdown \in files /\ Json \in files /\ PartialJson \notin files
          /\ Len(rows) = CellCount
      BY <2>4 DEF MatrixInv, MarkdownLast, NoReport
    <3> QED
      BY <1>1, <1>2, <2>1, <3>1 DEF MarkdownLast, NoReport, Json, PartialJson,
                                    Markdown
  <2> QED
    BY <1>1, <2>3, <2>4
<1> QED
  BY <1>3, <1>4, <1>5, <1>6, <1>7 DEF MatrixInv

LEMMA ReportsStep ==
    ASSUME MatrixInv, Reports, options' = options
    PROVE  MatrixInv'
<1>1. /\ stage \in {"report", "markdown", "written"}
      /\ stage' \in {"report", "markdown", "written", "done", "aborted"}
      /\ UNCHANGED <<outer, inner, repeat, frame, cursor, bgra, fresh, synced,
                     packets, tally, rows>>
  BY DEF Reports, CreateJson, FillJson, WriteMarkdown, PrintPaths, FailReport,
         cell, position, codec, output
<1>2. /\ Outer' = Outer /\ Inner' = Inner /\ Matrix' = Matrix
      /\ CellCount' = CellCount /\ ReportRows' = ReportRows
      /\ Frames' = Frames /\ Repeats' = Repeats
  BY OptionsKept
<1>3. TypeOK'
  BY <1>1, <1>2 DEF MatrixInv, TypeOK
<1>4. Place' /\ KeyFirst' /\ Counted'
  BY <1>1 DEF Place, KeyFirst, Counted, InRepeat
<1>5. RowPerCell' /\ Len(rows') = CellCount'
  BY <1>1, <1>2 DEF MatrixInv, RowPerCell, InCell, InRepeat
<1>6. RowsAddUp'
  BY <1>1, <1>2 DEF MatrixInv, RowsAddUp
<1>7. MarkdownLast'
  <2>1. /\ Markdown \in files => stage = "written"
        /\ stage \in {"markdown", "written"} =>
               Json \in files /\ PartialJson \notin files
        /\ stage = "written" => Markdown \in files
    BY <1>1 DEF MatrixInv, MarkdownLast
  <2>2. ~InCell'
    BY <1>1 DEF InCell, InRepeat
  <2>3. Markdown # PartialJson /\ Markdown # Json /\ Json # PartialJson
    <3>1. /\ Len(Json) = 1 /\ Len(PartialJson) = 2 /\ Len(Markdown) = 1
          /\ Json[1] = "report.json" /\ Markdown[1] = "report.md"
      BY DEF Json, PartialJson, Markdown
    <3> QED
      BY <3>1
  <2>4. Markdown' = Markdown /\ Json' = Json /\ PartialJson' = PartialJson
    BY DEF Markdown, Json, PartialJson
  <2>5. CASE CreateJson
    BY <1>5, <2>1, <2>2, <2>3, <2>4, <2>5 DEF CreateJson, MarkdownLast
  <2>6. CASE FillJson
    BY <1>5, <2>1, <2>2, <2>3, <2>4, <2>6 DEF FillJson, MarkdownLast
  <2>7. CASE WriteMarkdown
    BY <1>5, <2>1, <2>2, <2>3, <2>4, <2>7 DEF WriteMarkdown, MarkdownLast
  <2>8. CASE PrintPaths
    BY <1>5, <2>1, <2>2, <2>4, <2>8 DEF PrintPaths, MarkdownLast, output
  <2>9. CASE FailReport
    BY <1>5, <2>1, <2>2, <2>4, <2>9 DEF FailReport, MarkdownLast, output
  <2> QED
    BY <2>5, <2>6, <2>7, <2>8, <2>9 DEF Reports
<1> QED
  BY <1>3, <1>4, <1>5, <1>6, <1>7 DEF MatrixInv

-----------------------------------------------------------------------------
(* The invariant is inductive.                                              *)

LEMMA MatrixInvInit == Init => MatrixInv
<1> SUFFICES ASSUME Init
             PROVE  MatrixInv
  OBVIOUS
<1>1. /\ Len(Outer) \in Nat \ {0} /\ Len(Inner) \in Nat \ {0}
      /\ Frames \in Nat \ {0} /\ Repeats \in Nat \ {0} /\ CellCount \in Nat
  BY OptionFacts DEF Init
<1>2. TypeOK
  <2>1. packets \in Seq({"key", "delta"})
    BY DEF Init
  <2>2. tally \in [DOMAIN NoTally -> Nat]
    BY DEF Init, NoTally
  <2>3. /\ 1 \in 1 .. Len(Outer) /\ 1 \in 1 .. Len(Inner)
        /\ 0 \in 0 .. Repeats /\ 0 \in 0 .. Frames - 1 /\ 0 \in 0 .. Frames
        /\ -1 \in -1 .. Frames - 1
    BY <1>1
  <2> QED
    BY <2>1, <2>2, <2>3 DEF Init, TypeOK
<1>3. Place /\ KeyFirst /\ Counted /\ MarkdownLast
  BY DEF Init, Place, KeyFirst, Counted, MarkdownLast, NoReport, InRepeat
<1>4. RowPerCell
  <2>1. rows \in Seq(ReportRows) /\ Len(rows) = 0
    BY DEF Init
  <2>2. CellsBefore = 0
    <3>1. outer = 1 /\ inner = 1
      BY DEF Init
    <3>2. (1 - 1) * Len(Inner) = 0
      BY <1>1
    <3> QED
      BY <3>1, <3>2 DEF CellsBefore
  <2> QED
    BY <1>1, <2>1, <2>2 DEF Init, RowPerCell
<1>5. RowsAddUp
  BY DEF Init, RowsAddUp
<1> QED
  BY <1>2, <1>3, <1>4, <1>5 DEF MatrixInv

LEMMA LoopsStep ==
    ASSUME MatrixInv, Loops, options' = options
    PROVE  MatrixInv'
BY StartCellStep, StartRepeatStep, ReadFrameStep, NextFrameStep, EndRepeatStep,
   EndCellStep, FailCellStep DEF Loops

LEMMA MatrixInvStep == MatrixInv /\ [BothNext]_vars => MatrixInv'
<1> SUFFICES ASSUME MatrixInv, [BothNext]_vars
             PROVE  MatrixInv'
  OBVIOUS
<1>1. ASSUME Next
      PROVE  MatrixInv'
  <2>1. options' = options
    BY <1>1 DEF Next
  <2>2. CASE Loops \/ LoseOutput \/ Reports
    BY <2>1, <2>2, LoopsStep, LoseOutputStep, ReportsStep
  <2>3. CASE SaveSource
    <3>1. SourceSample[1] = "source"
      BY DEF SourceSample
    <3> QED
      BY <2>1, <2>3, <3>1, SaveStep DEF SaveSource
  <2>4. CASE Encode
    BY <2>1, <2>4, EncodeStep DEF Encode
  <2>5. CASE Decode
    <3>1. DecodedSample[1] = "decoded"
      BY DEF DecodedSample
    <3> QED
      BY <2>1, <2>5, <3>1, DecodeStep DEF Decode
  <2> QED
    BY <1>1, <2>2, <2>3, <2>4, <2>5 DEF Next
<1>2. ASSUME HardwareNext
      PROVE  MatrixInv'
  <2>1. options' = options
    BY <1>2 DEF HardwareNext
  <2>2. CASE ValidateEncoder
    BY <2>1, <2>2, ValidateEncoderStep
  <2>3. CASE \/ StartConfiguration \/ StartRepeat \/ ReadFrame \/ NextFrame
             \/ EndRepeat \/ EndCell \/ FailCell
    BY <2>1, <2>3, LoopsStep DEF Loops, StartConfiguration
  <2>4. CASE SaveHardwareSource
    <3> DEFINE sample == <<"source-hardware">>
    <3>1. sample[1] = "source-hardware"
      OBVIOUS
    <3>2. Save(sample, TRUE)
      BY <2>4 DEF SaveHardwareSource
    <3> HIDE DEF sample
    <3> QED
      BY <2>1, <3>1, <3>2, SaveStep
  <2>5. CASE HardwareEncode
    BY <2>1, <2>5, EncodeStep, MaxPacketsAssumption DEF HardwareEncode
  <2>6. CASE HardwareDecode
    <3> DEFINE sample == <<"decoded", Outer[outer], Inner[inner][1],
                           QualitySlug(Inner[inner][2])>>
    <3>1. sample[1] = "decoded"
      OBVIOUS
    <3>2. DecodeTo(sample)
      BY <2>6 DEF HardwareDecode
    <3> HIDE DEF sample
    <3> QED
      BY <2>1, <3>1, <3>2, DecodeStep
  <2>7. CASE LoseHardwareOutput \/ HardwareReport
    BY <2>1, <2>7, LoseOutputStep, ReportsStep
       DEF LoseHardwareOutput, HardwareReport
  <2> QED
    BY <1>2, <2>2, <2>3, <2>4, <2>5, <2>6, <2>7 DEF HardwareNext, HardwareLoops
<1>3. ASSUME UNCHANGED vars
      PROVE  MatrixInv'
  <2>1. /\ Outer' = Outer /\ Inner' = Inner /\ Matrix' = Matrix
        /\ CellCount' = CellCount /\ ReportRows' = ReportRows
        /\ Frames' = Frames /\ Repeats' = Repeats
    BY <1>3, OptionsKept DEF vars
  <2>2. TypeOK' /\ Place' /\ KeyFirst' /\ Counted' /\ RowsAddUp' /\ MarkdownLast'
    BY <1>3, <2>1 DEF vars, MatrixInv, TypeOK, Place, KeyFirst, Counted,
                      RowsAddUp, MarkdownLast, NoReport, Json, PartialJson,
                      Markdown, InCell, InRepeat
  <2>3. RowPerCell'
    BY <1>3, <2>1 DEF vars, MatrixInv, RowPerCell, InCell, InRepeat,
                      CellsBefore, Refused, Markdown
  <2> QED
    BY <2>2, <2>3 DEF MatrixInv
<1> QED
  BY <1>1, <1>2, <1>3 DEF BothNext

LEMMA MatrixInvHolds == BothSpec => []MatrixInv
BY MatrixInvInit, MatrixInvStep, PTL DEF BothSpec

-----------------------------------------------------------------------------
(* What follows from it.                                                    *)

\* Both programs keep their types: the file position never passes the last
\* frame, no repeat follows the last one, and the counters do not go negative.
THEOREM MatrixTypes == BothSpec => []TypeOK
<1>1. MatrixInv => TypeOK
  BY DEF MatrixInv
<1> QED
  BY <1>1, MatrixInvHolds, PTL

\* Every repeat of every cell encodes the frame its index names, whatever
\* failed before it: all cells read one corpus at its file position.
THEOREM FramesStayAligned == BothSpec => []FrameIsAligned
<1>1. MatrixInv => FrameIsAligned
  BY DEF MatrixInv, Place, FrameIsAligned
<1> QED
  BY <1>1, MatrixInvHolds, PTL

\* No decoder begins with a delta, however many packets an encode gives, since
\* encoder and decoder are rebuilt together.
THEOREM DecodersStartWithKey == BothSpec => []DecodesFromKey
<1>1. MatrixInv => DecodesFromKey
  BY DEF MatrixInv, KeyFirst, DecodesFromKey
<1> QED
  BY <1>1, MatrixInvHolds, PTL

\* A row that claims success accounts for every frame of every repeat, and a
\* failed one for none.
THEOREM RowsAreComplete == BothSpec => []RowsAddUp
<1>1. MatrixInv => RowsAddUp
  BY DEF MatrixInv
<1> QED
  BY <1>1, MatrixInvHolds, PTL

\* The first n cells of the matrix, as a sequence.
LEMMA MatrixPrefix ==
    ASSUME options \in OptionValues, NEW n \in 0 .. CellCount,
           NEW f, f = [k \in 1 .. n |-> Matrix[k]]
    PROVE  f = SubSeq(Matrix, 1, n) /\ Len(Matrix) = CellCount
<1> DEFINE S == {Matrix[k] : k \in 1 .. CellCount}
           cut == SubSeq(Matrix, 1, n)
<1>1. CellCount \in Nat /\ n \in Nat /\ n <= CellCount
  BY OptionFacts
<1>2. Matrix = [k \in 1 .. CellCount |-> Matrix[k]]
  BY DEF Matrix, CellCount
<1>3. Matrix \in Seq(S) /\ Len(Matrix) = CellCount
  <2> DEFINE m == Matrix
             c == CellCount
  <2>1. c \in Nat /\ m = [k \in 1 .. c |-> m[k]] /\ S = {m[k] : k \in 1 .. c}
    BY <1>1, <1>2
  <2> HIDE DEF m, c, S
  <2>2. m \in [1 .. c -> S]
    BY <2>1
  <2>3. m \in Seq(S) /\ Len(m) = c
    BY <2>1, <2>2
  <2> QED
    BY <2>3 DEF m, c
<1> HIDE DEF S
<1>4. /\ 1 \in Int /\ n \in Int /\ n - 1 + 1 = n /\ (1 <= n \/ n = 0)
      /\ \A k \in 1 .. n : k \in 1 .. Len(Matrix) /\ 1 + k - 1 = k
  BY <1>1, <1>3
<1>5. \A k \in 1 .. n : Matrix[k] \in S
  BY <1>3, <1>4, ElementOfSeq
<1>6. /\ cut \in Seq(S)
      /\ Len(cut) = IF 1 <= n THEN n - 1 + 1 ELSE 0
      /\ \A k \in 1 .. n - 1 + 1 : cut[k] = Matrix[1 + k - 1]
  BY <1>4, <1>5, SubSeqProperties
<1> HIDE DEF cut
<1>7. Len(cut) = n /\ \A k \in 1 .. n : cut[k] = Matrix[k]
  BY <1>4, <1>6
<1>8. cut = [k \in 1 .. n |-> cut[k]]
  BY <1>6, <1>7, LenProperties
<1> QED
  BY <1>3, <1>7, <1>8 DEF cut

\* The report has one row for each cell in the order of the loops, however
\* many failed.  Only a refused encoder, the report itself or a line that cannot
\* be printed ends a run early, each with the rows of exactly the cells before;
\* no part of a report is on the disk before every cell has its row, and a
\* Markdown report never stands beside a missing or half-written JSON one.
THEOREM ReportFollowsMatrix == BothSpec => []RowsFollowMatrix
<1>1. MatrixInv => RowsFollowMatrix
  <2> SUFFICES ASSUME MatrixInv
               PROVE  RowsFollowMatrix
    OBVIOUS
  <2>1. /\ options \in OptionValues /\ rows \in Seq(ReportRows)
        /\ Len(rows) \in 0 .. CellCount
        /\ \A k \in 1 .. Len(rows) : rows[k].cell = Matrix[k]
    <3>1. rows \in Seq(ReportRows) /\ options \in OptionValues
      BY DEF MatrixInv, TypeOK, RowPerCell
    <3>2. Len(rows) \in Nat /\ CellCount \in Nat
      BY <3>1, OptionFacts
    <3> QED
      BY <3>1, <3>2 DEF MatrixInv, RowPerCell
  <2>2. DOMAIN rows = 1 .. Len(rows)
    BY <2>1
  <2>3. [k \in DOMAIN rows |-> rows[k].cell]
            = [k \in 1 .. Len(rows) |-> Matrix[k]]
    BY <2>1, <2>2
  <2>4. /\ [k \in 1 .. Len(rows) |-> Matrix[k]] = SubSeq(Matrix, 1, Len(rows))
        /\ Len(Matrix) = CellCount
    BY <2>1, MatrixPrefix
  <2>5. /\ stage \in {"report", "markdown", "written", "done"} =>
               Len(rows) = CellCount
        /\ stage = "aborted" =>
               \/ Len(rows) = CellCount
               \/ Refused(Outer[outer]) /\ Len(rows) = (outer - 1) * Len(Inner)
        /\ stage = "unprinted" => Markdown \in files \/ Len(rows) = CellsBefore
        /\ {Json, PartialJson, Markdown} \cap files # {} =>
               Len(rows) = CellCount
        /\ Markdown \in files => Json \in files /\ PartialJson \notin files
    BY DEF MatrixInv, RowPerCell, MarkdownLast, NoReport
  <2> QED
    BY <2>3, <2>4, <2>5 DEF RowsFollowMatrix
<1> QED
  BY <1>1, MatrixInvHolds, PTL

-----------------------------------------------------------------------------
(* Every step leads on.                                                     *)

\* The parts of Progress, and which of them decides.
LEMMA PartDecides ==
    ASSUME NEW k \in 1 .. 9, Progress[k] < Progress'[k],
           \A j \in 1 .. k - 1 : Progress[j] = Progress'[j]
    PROVE  Precedes(Progress, Progress')
<1>1. DOMAIN Progress = 1 .. 9
  BY DEF Progress
<1> QED
  BY <1>1 DEF Precedes

\* One step per action: the part of Progress that decides.
LEMMA StepLeadsOn ==
    ASSUME MatrixInv, BothNext
    PROVE  Precedes(Progress, Progress')
<1>1. TypeOK /\ TypeOK' /\ options' = options
  BY MatrixInvStep DEF MatrixInv, BothNext, Next, HardwareNext
<1>2. CASE StartCell
  <2>1. Progress[4] < Progress'[4]
    BY <1>1, <1>2 DEF StartCell, Progress, TypeOK
  <2>2. \A j \in 1 .. 3 : Progress[j] = Progress'[j]
    BY <1>2 DEF StartCell, Progress, cell, position, codec, output
  <2> QED
    BY <2>1, <2>2, PartDecides
<1>3. CASE StartRepeat
  <2>1. Progress[6] < Progress'[6]
    BY <1>1, <1>3 DEF StartRepeat, Progress, TypeOK
  <2>2. \A j \in 1 .. 5 : Progress[j] = Progress'[j]
    BY <1>3 DEF StartRepeat, Progress, cell, position, codec, output
  <2> QED
    BY <2>1, <2>2, PartDecides
<1>4. CASE ReadFrame
  <2>1. Progress[8] < Progress'[8]
    BY <1>1, <1>4 DEF ReadFrame, Progress, TypeOK
  <2>2. \A j \in 1 .. 7 : Progress[j] = Progress'[j]
    BY <1>4 DEF ReadFrame, Progress, cell, position, codec, output
  <2> QED
    BY <2>1, <2>2, PartDecides
<1>5. ASSUME NEW sample, NEW condition, Save(sample, condition)
      PROVE  Precedes(Progress, Progress')
  <2>1. Progress[8] < Progress'[8]
    BY <1>5 DEF Save, Progress
  <2>2. \A j \in 1 .. 7 : Progress[j] = Progress'[j]
    BY <1>5 DEF Save, Progress, cell, position, codec
  <2> QED
    BY <2>1, <2>2, PartDecides
<1>6. ASSUME NEW n, EncodeAtMost(n)
      PROVE  Precedes(Progress, Progress')
  <2>1. Progress[8] < Progress'[8]
    BY <1>6 DEF EncodeAtMost, Progress
  <2>2. \A j \in 1 .. 7 : Progress[j] = Progress'[j]
    BY <1>6 DEF EncodeAtMost, Progress, cell, position, output
  <2> QED
    BY <2>1, <2>2, PartDecides
<1>7. ASSUME NEW sample, DecodeTo(sample)
      PROVE  Precedes(Progress, Progress')
  <2>1. Len(packets') < Len(packets)
    BY <1>1, <1>7 DEF DecodeTo, TypeOK
  <2>2. Len(packets) \in Int /\ Len(packets') \in Int
    BY <1>1 DEF TypeOK
  <2>3. Progress[9] < Progress'[9]
    BY <2>1, <2>2 DEF Progress
  <2>4. \A j \in 1 .. 8 : Progress[j] = Progress'[j]
    BY <1>7 DEF DecodeTo, Progress, cell, position
  <2> QED
    BY <2>3, <2>4, PartDecides
<1>8. CASE NextFrame
  <2>1. Progress[7] < Progress'[7]
    BY <1>1, <1>8 DEF NextFrame, Progress, TypeOK
  <2>2. \A j \in 1 .. 6 : Progress[j] = Progress'[j]
    BY <1>8 DEF NextFrame, Progress, cell, position, codec, output
  <2> QED
    BY <2>1, <2>2, PartDecides
<1>9. CASE EndRepeat
  <2>1. Progress[5] < Progress'[5]
    BY <1>1, <1>9 DEF EndRepeat, Progress, TypeOK
  <2>2. \A j \in 1 .. 4 : Progress[j] = Progress'[j]
    BY <1>9 DEF EndRepeat, Progress, cell, position, codec, output
  <2> QED
    BY <2>1, <2>2, PartDecides
<1>10. CASE EndCell \/ FailCell
  <2>1. /\ stage \in {"repeat", "read", "frame", "encode", "decode"} /\ Advance
    BY <1>10 DEF EndCell, FailCell, CanFail
  <2>2. CASE stage' = "report"
    <3>1. Progress[1] < Progress'[1]
      BY <2>1, <2>2 DEF Progress
    <3> QED
      BY <3>1, PartDecides
  <2>3. CASE stage' = "cell" /\ outer' = outer /\ inner' = inner + 1
    <3>1. Progress[3] < Progress'[3]
      BY <1>1, <2>3 DEF Progress, TypeOK
    <3>2. \A j \in 1 .. 2 : Progress[j] = Progress'[j]
      BY <2>1, <2>3 DEF Progress
    <3> QED
      BY <3>1, <3>2, PartDecides
  <2>4. CASE stage' = "cell" /\ outer' = outer + 1
    <3>1. Progress[2] < Progress'[2]
      BY <1>1, <2>4 DEF Progress, TypeOK
    <3>2. \A j \in 1 .. 1 : Progress[j] = Progress'[j]
      BY <2>1, <2>4 DEF Progress
    <3> QED
      BY <3>1, <3>2, PartDecides
  <2> QED
    BY <2>1, <2>2, <2>3, <2>4 DEF Advance
<1>11. CASE Reports \/ ValidateEncoder \/ LoseOutput
  <2>1. Progress[1] < Progress'[1]
    BY <1>11 DEF Reports, CreateJson, FillJson, WriteMarkdown, PrintPaths,
                 FailReport, ValidateEncoder, LoseOutput, CanFail, Progress
  <2> QED
    BY <2>1, PartDecides
<1> QED
  BY <1>2, <1>3, <1>4, <1>5, <1>6, <1>7, <1>8, <1>9, <1>10, <1>11
     DEF BothNext, Next, HardwareNext, Loops, HardwareLoops, HardwareReport,
         StartConfiguration, LoseHardwareOutput, SaveSource, SaveHardwareSource, Encode,
         HardwareEncode, Decode, HardwareDecode

\* No step of either program goes back: whatever fails, a run has no more
\* steps than Progress has values within the bounds of TypeOK.
THEOREM RunsLeadOn == BothSpec => EveryStepLeadsOn
<1>1. MatrixInv /\ [BothNext]_vars => [Precedes(Progress, Progress')]_vars
  BY StepLeadsOn
<1> QED
  BY <1>1, MatrixInvHolds, PTL DEF BothSpec, EveryStepLeadsOn

=============================================================================
